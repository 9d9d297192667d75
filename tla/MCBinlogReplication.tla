------------------------- MODULE MCBinlogReplication -------------------------
(* Model values and bounds for checking BinlogReplication with TLC.         *)
EXTENDS BinlogReplication

CONSTANTS t1, t2

MCTables == {t1, t2}

(* t1 is an InnoDB table, t2 a MyISAM table.                               *)
MCInitEngine == [t \in MCTables |-> IF t = t1 THEN "InnoDB" ELSE "MyISAM"]

(* A single table, created as MyISAM, for the runs about DDL.              *)
MCOneTable == {t2}
MCOneEngine == [t \in MCOneTable |-> "MyISAM"]

(* The same table, created as InnoDB.                                      *)
MCOneInnoDB == [t \in MCOneTable |-> "InnoDB"]

=============================================================================
