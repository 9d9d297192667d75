--------------------------- MODULE TableMetadata ---------------------------
(***************************************************************************)
(* The column metadata the MySQL replication stream keeps for one active   *)
(* table (src/source-mysql/replication.go): the column list and column     *)
(* types edited by handleAlterTable, the key columns fixed by              *)
(* ActivateTable, and decodeRow, which pairs the values of a binlog row    *)
(* image with those column names.                                         *)
(*                                                                         *)
(* The MySQL server is the environment and the reference: it applies each  *)
(* ALTER TABLE to its own column list by MySQL's rules and writes it to    *)
(* the binlog only if it accepted it, and it writes row images whose i-th  *)
(* value is the value of its i-th column.  A value is abstracted to the    *)
(* server column it came from and that column's type, so a decoded row     *)
(* shows directly whether a name got the value and type of that column.   *)
(***************************************************************************)
EXTENDS Naturals, Integers, SequencesExt

CONSTANTS
    Names,          \* column names that DDL may use
    Types,          \* column types
    InitColumns,    \* the table's columns when it is activated
    InitTypes,      \* initial column |-> the types it may be declared with
    EnumCases,      \* the case lists an ENUM column may declare
    KeyColumns,     \* the capture's key columns, passed to ActivateTable
    MaxDDL,         \* bound on ALTER TABLE statements
    MaxOptions,     \* 1: single-option statements; 2: also pairs of RENAME COLUMN
    RowMetadataModes, \* binlog_row_metadata settings the server may use
    NoType          \* nil in ColumnTypes, and a column the server lacks

Positions == {"none", "first"} \cup Names   \* c in Names means AFTER c

(***************************************************************************)
(* Column types as DDL declares them (sqlparser.ColumnType): the abstract  *)
(* types of Types, and ENUMs with their list of cases.                     *)
(***************************************************************************)
EnumTypes == [type: {"enum"}, cases: EnumCases]
DeclaredTypes == Types \cup EnumTypes

(***************************************************************************)
(* One alter option of an ALTER TABLE statement (sqlparser.AlterOption).   *)
(* ADD COLUMN adds one column.                                            *)
(***************************************************************************)
RenameOpts == [op: {"renameColumn"}, col: Names, new: Names]
Options ==
    RenameOpts
    \cup [op: {"changeColumn"}, col: Names, new: Names, type: DeclaredTypes, pos: Positions]
    \cup [op: {"modifyColumn"}, col: Names, type: DeclaredTypes, pos: Positions]
    \cup [op: {"addColumns"}, new: Names, type: DeclaredTypes, pos: Positions]
    \cup [op: {"dropColumn"}, col: Names]
    \cup [op: {"renameTableName", "other"}]

Statements ==
    {<<o>> : o \in Options}
    \cup (IF MaxOptions = 2 THEN {<<r1, r2>> : r1, r2 \in RenameOpts} ELSE {})

VARIABLES
    server,      \* [cols, types]: the table as MySQL has it
    meta,        \* [cols, types]: rs.tables.metadata[streamID].Schema
    keyColumns,  \* rs.tables.keyColumns[streamID]
    status,      \* "ok", or the error the replication worker returned
    lastRow,     \* the last row decoded by the RowsEvent handler
    ddl          \* ALTER TABLE statements so far

vars == <<server, meta, keyColumns, status, lastRow, ddl>>

CaseNames == UNION {Range(cs) : cs \in EnumCases} \cup {""}
MetaTypes == Types \cup [type: {"enum"}, enumValues: Seq(CaseNames)]
ServerSchema == [cols: Seq(Names), types: [Names -> DeclaredTypes \cup {NoType}]]
Schema == [cols: Seq(Names), types: [Names -> MetaTypes \cup {NoType}]]
Decoded == [col: Names, type: DeclaredTypes \cup {NoType}, as: MetaTypes \cup {NoType}]

-----------------------------------------------------------------------------
(* The reference: MySQL's rules for the supported alter options.          *)

\* The column list L with each column c renamed to f[c].
Renamed(L, f) == [k \in DOMAIN L |-> f[L[k]]]

\* Column n placed FIRST or AFTER column pos in L.
Place(L, n, pos) ==
    IF pos = "first" THEN <<n>> \o L
    ELSE LET k == SelectInSeq(L, LAMBDA c : c = pos)
         IN SubSeq(L, 1, k) \o <<n>> \o SubSeq(L, k + 1, Len(L))

\* A position is valid if it is none, FIRST, or AFTER an existing column.
PosValid(C, pos) == pos \in {"none", "first"} \/ pos \in C

Accept(cols, types) == [ok |-> TRUE, cols |-> cols, types |-> types]
Reject == [ok |-> FALSE]

\* Types of the result: only columns in cols have one.
Typed(cols, T) == [n \in Names |-> IF n \in Range(cols) THEN T[n] ELSE NoType]

\* RENAME COLUMN options of one statement are resolved against the table as
\* it was before the statement, so "RENAME a TO b, RENAME b TO a" swaps.
ServerRenames(srv, rs) ==
    LET C  == Range(srv.cols)
        olds == {rs[i].col : i \in DOMAIN rs}
        f  == [c \in C |-> IF \E i \in DOMAIN rs : rs[i].col = c
                           THEN (CHOOSE r \in Range(rs) : r.col = c).new ELSE c]
        cols == Renamed(srv.cols, f)
    IN IF olds \subseteq C /\ Cardinality(olds) = Len(rs) /\ IsInjective(f)
       THEN Accept(cols, Typed(cols, [n \in Names |->
                IF \E c \in C : f[c] = n THEN srv.types[CHOOSE c \in C : f[c] = n]
                ELSE NoType]))
       ELSE Reject

\* CHANGE (new name n) and MODIFY (n = o.col) COLUMN: the column keeps its
\* place unless FIRST or AFTER is given; AFTER must name another column.
ServerChange(srv, o, n) ==
    LET C == Range(srv.cols)
        cols == IF o.pos = "none"
                THEN Renamed(srv.cols, [c \in C |-> IF c = o.col THEN n ELSE c])
                ELSE Place(Remove(srv.cols, o.col), n, o.pos)
    IN IF o.col \in C /\ (n \notin C \/ n = o.col) /\ PosValid(C \ {o.col}, o.pos)
       THEN Accept(cols, Typed(cols, [srv.types EXCEPT ![n] = o.type]))
       ELSE Reject

ServerAlter(srv, stmt) ==
    LET o == stmt[1]
        C == Range(srv.cols)
    IN CASE o.op = "renameColumn"  -> ServerRenames(srv, stmt)
         [] o.op = "changeColumn"  -> ServerChange(srv, o, o.new)
         [] o.op = "modifyColumn"  -> ServerChange(srv, o, o.col)
         [] o.op = "addColumns"    ->
              IF o.new \notin C /\ PosValid(C, o.pos)
              THEN LET cols == IF o.pos = "none" THEN Append(srv.cols, o.new)
                               ELSE Place(srv.cols, o.new, o.pos)
                   IN Accept(cols, Typed(cols, [srv.types EXCEPT ![o.new] = o.type]))
              ELSE Reject
         [] o.op = "dropColumn"    ->
              \* MySQL refuses to drop the last column of a table.
              IF o.col \in C /\ Len(srv.cols) > 1
              THEN Accept(Remove(srv.cols, o.col),
                          Typed(Remove(srv.cols, o.col), srv.types))
              ELSE Reject
         [] OTHER -> Accept(srv.cols, srv.types)

-----------------------------------------------------------------------------
(* The code.  Indexes are Go's: 0-based, -1 for a missing element.        *)

IndexOf(s, c) == SelectInSeq(s, LAMBDA x : x = c) - 1      \* slices.Index
SliceDelete(s, i) == RemoveAt(s, i + 1)                    \* slices.Delete(s, i, i+1)
SliceInsert(s, i, e) == InsertAt(s, i + 1, e)              \* slices.Insert(s, i, e)

IsEnum(t) == t \notin Types \cup {NoType} /\ t.type = "enum"

\* translateDataType: an ENUM's cases behind the case "", which stands at
\* index 0 as MySQL's illegal-value 0 does.  SET, integer, text (with the
\* charset it resolves) and BINARY types are abstracted to the type itself.
translateDataType(t) ==
    IF t \in EnumTypes THEN [type |-> "enum", enumValues |-> <<"">> \o t.cases] ELSE t

\* The ENUM metadata persisted before the ordering change: ["A", "B", ""].
OldTranslateDataType(t) ==
    IF t \in EnumTypes THEN [type |-> "enum", enumValues |-> t.cases \o <<"">>] ELSE t

\* Mutant: old metadata recognized by a trailing "" instead of a leading one.
MigrateEnumOrderingByLast(ct) ==
    IF IsEnum(ct) /\ ct.enumValues # <<>> /\ Last(ct.enumValues) = ""
    THEN [ct EXCEPT !.enumValues = <<"">> \o Front(ct.enumValues)]
    ELSE ct

\* ActivateTable's migration of persisted ENUM metadata whose first case is
\* not "": a trailing "" is trimmed and "" put in front.
MigrateEnumOrdering(ct) ==
    IF IsEnum(ct) /\ ct.enumValues # <<>> /\ ct.enumValues[1] # ""
    THEN LET vals == IF Last(ct.enumValues) = "" THEN Front(ct.enumValues) ELSE ct.enumValues
         IN [ct EXCEPT !.enumValues = <<"">> \o vals]
    ELSE ct

\* A result: err is "none", or the kind of error returned.
Ok(m) == [err |-> "none", meta |-> m]
Fail(m) == [err |-> "unknownColumn", meta |-> m]

\* newIndex of CHANGE/MODIFY and insertAt of ADD: dflt, 0 for FIRST, or
\* one past the AFTER column in cols; -1 when that column is unknown.
NewIndex(cols, dflt, pos) ==
    CASE pos = "first" -> 0
      [] pos = "none"  -> dflt
      [] OTHER -> IF IndexOf(cols, pos) = -1 THEN -1 ELSE IndexOf(cols, pos) + 1

RenameColumn(m, o) ==
    LET i == IndexOf(m.cols, o.col)
    IN IF i = -1 THEN Fail(m)
       ELSE Ok([cols  |-> [m.cols EXCEPT ![i + 1] = o.new],
                types |-> [m.types EXCEPT ![o.col] = NoType,
                                          ![o.new] = m.types[o.col]]])

\* CHANGE COLUMN with its AFTER index taken before the old column is
\* deleted: one too far when the AFTER column follows it.
ChangeColumnIndexBeforeDelete(m, o) ==
    LET i == IndexOf(m.cols, o.col)
        rest == SliceDelete(m.cols, i)
        j == NewIndex(m.cols, i, o.pos)
    IN IF i = -1 \/ j = -1 \/ j > Len(rest) THEN Fail(m)
       ELSE Ok([cols  |-> SliceInsert(rest, j, o.new),
                types |-> [m.types EXCEPT ![o.col] = NoType, ![o.new] = translateDataType(o.type)]])

ChangeColumn(m, o) ==
    LET i == IndexOf(m.cols, o.col)
        rest == SliceDelete(m.cols, i)
        j == NewIndex(rest, i, o.pos)
    IN IF i = -1 \/ j = -1 THEN Fail(m)
       ELSE Ok([cols  |-> SliceInsert(rest, j, o.new),
                types |-> [m.types EXCEPT ![o.col] = NoType, ![o.new] = translateDataType(o.type)]])

ModifyColumn(m, o) ==
    LET i == IndexOf(m.cols, o.col)
        rest == SliceDelete(m.cols, i)
        j == NewIndex(rest, i, o.pos)
    IN IF i = -1 \/ j = -1 THEN Fail(m)
       ELSE Ok([cols  |-> SliceInsert(rest, j, o.col),
                types |-> [m.types EXCEPT ![o.col] = translateDataType(o.type)]])

AddColumns(m, o) ==
    LET j == NewIndex(m.cols, Len(m.cols), o.pos)
    IN IF j = -1 THEN Fail(m)
       ELSE Ok([cols  |-> SliceInsert(m.cols, j, o.new),
                types |-> [m.types EXCEPT ![o.new] = translateDataType(o.type)]])

\* DROP COLUMN deleting the ColumnTypes entry instead of setting it to nil,
\* so a JSON merge patch of the emitted metadata never erases it.
DropColumnDeleteType(m, o) ==
    LET i == IndexOf(m.cols, o.col)
    IN IF i = -1 THEN Fail(m)
       ELSE Ok([cols  |-> SliceDelete(m.cols, i),
                types |-> [n \in DOMAIN m.types \ {o.col} |-> m.types[n]]])

DropColumn(m, o) ==
    LET i == IndexOf(m.cols, o.col)
    IN IF i = -1 THEN Fail(m)
       ELSE Ok([cols  |-> SliceDelete(m.cols, i),
                types |-> [m.types EXCEPT ![o.col] = NoType]])

\* One iteration of handleAlterTable's loop over stmt.AlterOptions.
AlterOption(m, o) ==
    CASE o.op = "renameColumn"    -> RenameColumn(m, o)
      [] o.op = "renameTableName" -> [err |-> "unsupported", meta |-> m]
      [] o.op = "changeColumn"    -> ChangeColumn(m, o)
      [] o.op = "modifyColumn"    -> ModifyColumn(m, o)
      [] o.op = "addColumns"      -> AddColumns(m, o)
      [] o.op = "dropColumn"      -> DropColumn(m, o)
      [] OTHER                    -> Ok(m)

\* The options in order, returning at the first error.
ApplyAlterOptions(m, stmt) ==
    FoldLeft(LAMBDA acc, o : IF acc.err # "none" THEN acc ELSE AlterOption(acc.meta, o),
             Ok(m), stmt)

\* decodeRow: the value at index idx goes to colNames[idx] (a later index
\* wins a repeated name); an arity mismatch is an error.
decodeRow(colNames, row) ==
    IF Len(row) # Len(colNames) THEN Fail(<<>>)
    ELSE Ok([n \in Range(colNames) |->
               row[CHOOSE i \in DOMAIN row :
                     colNames[i] = n /\ \A k \in DOMAIN row : colNames[k] = n => k <= i]])

-----------------------------------------------------------------------------

\* ActivateTable, key columns from the binding.  Without persisted metadata
\* the columns and types come from discovery; with it, each ENUM type is as
\* it was written before (old) or after the ordering change, and migrated.
Init ==
    /\ \E ts \in {f \in [Range(InitColumns) -> DeclaredTypes] : \A n \in DOMAIN f : f[n] \in InitTypes[n]} :
       /\ server = [cols  |-> InitColumns,
                    types |-> [n \in Names |-> IF n \in DOMAIN ts THEN ts[n] ELSE NoType]]
       /\ \E old \in SUBSET DOMAIN ts :
            meta = [cols  |-> InitColumns,
                    types |-> [n \in Names |->
                                 CASE n \in old -> MigrateEnumOrdering(OldTranslateDataType(ts[n]))
                                   [] n \in DOMAIN ts -> MigrateEnumOrdering(translateDataType(ts[n]))
                                   [] OTHER -> NoType]]
    /\ keyColumns = KeyColumns
    /\ status = "ok"
    /\ lastRow = <<>>
    /\ ddl = 0

\* The server runs an ALTER TABLE it accepts; the worker's handleAlterTable
\* applies it to the metadata, or returns an error that ends the capture.
HandleAlterTable ==
    /\ status = "ok"
    /\ ddl < MaxDDL
    /\ \E stmt \in Statements :
         LET srv == ServerAlter(server, stmt)
             r   == ApplyAlterOptions(meta, stmt)
         IN /\ srv.ok
            /\ server' = [cols |-> srv.cols, types |-> srv.types]
            /\ status' = IF r.err = "none" THEN "ok" ELSE r.err
            /\ meta' = IF r.err = "none" THEN r.meta ELSE meta
    /\ ddl' = ddl + 1
    /\ UNCHANGED <<keyColumns, lastRow>>

\* The RowsEvent handler: column names from the binlog's row metadata when
\* the server sends them (binlog_row_metadata=FULL), else from the tracked
\* metadata; values translated by the tracked column types.
HandleRowsEvent ==
    /\ status = "ok"
    /\ \E mode \in RowMetadataModes :
         LET row == [i \in DOMAIN server.cols |->
                       [col |-> server.cols[i], type |-> server.types[server.cols[i]]]]
             colNames == IF mode = "FULL" THEN server.cols ELSE meta.cols
             r == decodeRow(colNames, row)
         IN IF r.err # "none"
            THEN status' = "rowError" /\ lastRow' = lastRow
            ELSE status' = "ok" /\
                 lastRow' = [n \in DOMAIN r.meta |->
                               [col |-> r.meta[n].col, type |-> r.meta[n].type,
                                as |-> meta.types[n]]]
    /\ UNCHANGED <<server, meta, keyColumns, ddl>>

Next == HandleAlterTable \/ HandleRowsEvent

Spec == Init /\ [][Next]_vars

-----------------------------------------------------------------------------

TypeOK ==
    /\ server \in ServerSchema
    /\ meta \in Schema
    /\ keyColumns \in Seq(Names)
    /\ status \in {"ok", "unknownColumn", "unsupported", "rowError"}
    /\ \E D \in SUBSET Names : lastRow \in [D -> Decoded]
    /\ ddl \in 0..MaxDDL

\* After any sequence of ALTER TABLE statements MySQL accepted, handleAlterTable
\* never fails on an unknown column, decodeRow never sees a row of another
\* arity, and every value decoded under a name is the value of the server
\* column of that name, translated by the type translateDataType gives that
\* column's current declaration: an ENUM's persisted cases, migrated at
\* ActivateTable if written in the old order, put MySQL's value i on case i.
RowsDecodeFaithfully ==
    /\ status \notin {"unknownColumn", "rowError"}
    /\ \A n \in DOMAIN lastRow :
          lastRow[n].col = n /\ lastRow[n].as = translateDataType(lastRow[n].type)

\* Every key column set at ActivateTable is a field of every decoded row, so
\* EncodeRowKey finds a value for it.
RowKeyPresent ==
    \A k \in Range(keyColumns) : DOMAIN lastRow # {} => k \in DOMAIN lastRow

=============================================================================
