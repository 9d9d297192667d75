-------------------------- MODULE MCTableMetadata --------------------------
(* Instances of TableMetadata for TLC.                                     *)
EXTENDS TableMetadata

CONSTANTS a, b, c, t1, t2   \* column names and column types

MCNames == {a, b, c}
MCTypes == {t1, t2}
MCInitColumns == <<a, b>>
MCKeyColumns == <<a>>
MCEnumCases == {<<"x", "y">>, <<"x", "">>}
MCNoEnums == {}
\* b may start as an ENUM (DDL run) or as t1.
MCInitTypes == [n \in {a, b} |-> {t1}]
MCInitEnumTypes == [n \in {a, b} |-> IF n = b THEN {t1} \cup EnumTypes ELSE {t1}]
MCModes == {"MINIMAL", "FULL"}
====
