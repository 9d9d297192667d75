--------------------------- MODULE MCCaptureCatalog ---------------------------
(***************************************************************************)
(* Four tables: p.t, whose primary key may include a column named "/";   *)
(* q.U, upper case, keyed on a column named "~1" or on a column omitted   *)
(* from the schema; a view p.v and a materialized table p.m, which        *)
(* discovery skips.                                                        *)
(***************************************************************************)
EXTENDS CaptureCatalog

ColA     == <<"a">>
ColB     == <<"b">>
ColTilde == <<"~", "1">>
ColSlash == <<"/">>
ColFlow  == <<"f">>

MCCaseFold == ("P" :> "p") @@ ("U" :> "u")
MCFlowPublishedAt == ColFlow
MCFallbackKey == << <<"/", "_", "/", "l">> >>
MCDefaultSchema == <<"p">>

Tbl(schema, name, base, cols, omitCols) ==
    [schema |-> schema, name |-> name, base |-> base, omitBinding |-> FALSE,
     columns |-> cols, omitColumns |-> omitCols]

PT == Tbl(<<"p">>, <<"t">>, TRUE, {ColA, ColSlash}, {})
QU == Tbl(<<"q">>, <<"U">>, TRUE, {ColTilde, ColB}, {ColB})
PV == Tbl(<<"p">>, <<"v">>, FALSE, {ColA}, {})
PM == Tbl(<<"p">>, <<"m">>, TRUE, {ColA, ColFlow}, {})

MCTables == {PT, QU, PV, PM}
MCKeyChoices ==
    [t \in Tables |->
        CASE t = PT -> {<<ColA>>, <<ColSlash, ColA>>}
          [] t = QU -> {<<ColTilde>>, <<ColB>>}
          [] OTHER  -> {<<ColA>>}]

(* A table in a schema whose name holds a dot: a.b.c *)
AB == Tbl(<<"a", ".", "b">>, <<"c">>, TRUE, {ColA}, {})
MCDottedTables == {AB, PT}

(* Strings over the escaping alphabet, up to three characters. *)
MCNames == BoundedSeq({"~", "/", "0", "1"}, 3)

=============================================================================
