---------------------------- MODULE CaptureCatalog ----------------------------
(***************************************************************************)
(* Catalog reconciliation at the start of every capture run: updateState   *)
(* (sqlcapture/capture.go) takes the configured catalog, the tables the    *)
(* database reports, and the persisted per-stream state, and decides the  *)
(* key each stream is scanned by.  The configured catalog is the one the   *)
(* runtime builds from DiscoverCatalog's bindings (discovery.go), each key *)
(* pointer turned into the path of its RFC 6901 reference tokens; the user *)
(* may drop a binding's key or namespace.  Between runs the database's    *)
(* primary keys may change, the catalog may be republished, and backfills *)
(* complete.                                                               *)
(***************************************************************************)
EXTENDS Discovery, FiniteSets

CONSTANTS
    Tables,         \* database tables, as records (see Discovery)
    KeyChoices,     \* table |-> the primary keys it may be given
    DefaultSchema,  \* db.DefaultSchema()
    ColumnNames     \* further column names the escaping is checked on

VARIABLES
    pk,             \* table |-> its current primary key in the database
    catalog,        \* Catalog.Streams: sequence of configured streams
    streams,        \* State.Streams: stream ID |-> [mode, keyColumns]
    status          \* outcome of the last updateState

vars == <<pk, catalog, streams, status>>

-----------------------------------------------------------------------------
(* The runtime's conversion of a JSON pointer to a path: split after the   *)
(* leading "/" at every "/", then read each token left to right, "~0" as   *)
(* "~" and "~1" as "/" (RFC 6901, section 4).                              *)
RECURSIVE Unescape(_)
Unescape(tok) ==
    IF tok = <<>> THEN <<>>
    ELSE IF Len(tok) >= 2 /\ tok[1] = "~" /\ tok[2] \in {"0", "1"}
         THEN <<IF tok[2] = "0" THEN "~" ELSE "/">> \o Unescape(SubSeq(tok, 3, Len(tok)))
         ELSE <<Head(tok)>> \o Unescape(Tail(tok))

RECURSIVE Tokens(_)
Tokens(s) ==
    LET i == SelectInSeq(s, LAMBDA c : c = "/")
    IN IF i = 0 THEN <<s>> ELSE <<SubSeq(s, 1, i - 1)>> \o Tokens(SubSeq(s, i + 1, Len(s)))

PointerPath(ptr) == LET toks == Tokens(Tail(ptr)) IN [i \in DOMAIN toks |-> Unescape(toks[i])]

(* The configured streams a discovered binding may become. *)
ConfiguredStreams(b) ==
    [namespace : {b.namespace, <<>>},
     name      : {b.stream},
     primaryKey: {[i \in DOMAIN b.key |-> PointerPath(b.key[i])], <<>>}]

-----------------------------------------------------------------------------
(* DiscoverTables keys its map by JoinStreamID(schema, table). *)
TableOf(id) == CHOOSE t \in Tables : JoinStreamID(t.schema, t.name) = id
DbPrimaryKey(id) ==
    IF \E t \in Tables : JoinStreamID(t.schema, t.name) = id THEN pk[TableOf(id)] ELSE <<>>

(* strings.Join(cols, ",") *)
JoinComma(cols) ==
    IF cols = <<>> THEN <<>>
    ELSE FoldLeft(LAMBDA acc, c : acc \o <<",">> \o c, Head(cols), Tail(cols))

(* The namespace of a catalog stream after updateState's defaulting. *)
Namespace(cs) == IF cs.namespace = <<>> THEN DefaultSchema ELSE cs.namespace
StreamID(cs) == JoinStreamID(Namespace(cs), cs.name)

(* The catalog's key, falling back to the database's primary key. *)
CatalogPrimaryKey(cs) == [i \in DOMAIN cs.primaryKey |-> cs.primaryKey[i][1]]
EffectiveKey(cs) ==
    IF CatalogPrimaryKey(cs) # <<>> THEN CatalogPrimaryKey(cs) ELSE DbPrimaryKey(StreamID(cs))

(* Mutant: a stream with no key anywhere is initialized all the same. *)
UpdateStreamNoKeyRequired(acc, cs) ==
    LET id  == StreamID(cs)
        key == EffectiveKey(cs)
    IN CASE acc.err # "none" -> acc
         [] \E i \in DOMAIN cs.primaryKey : Len(cs.primaryKey[i]) # 1 ->
                [acc EXCEPT !.err = "invalidKeyElement"]
         [] id \notin DOMAIN acc.streams ->
                [acc EXCEPT !.streams = acc.streams @@ (id :> [mode |-> "Backfill", keyColumns |-> key])]
         [] JoinComma(acc.streams[id].keyColumns) # JoinComma(key) ->
                [acc EXCEPT !.err = "keyMismatch"]
         [] OTHER -> acc

(* One iteration of the loop over the catalog: acc is the error so far and *)
(* the state map as the loop has changed it.                               *)
UpdateStream(acc, cs) ==
    LET id  == StreamID(cs)
        key == EffectiveKey(cs)
    IN CASE acc.err # "none" -> acc
         [] \E i \in DOMAIN cs.primaryKey : Len(cs.primaryKey[i]) # 1 ->
                [acc EXCEPT !.err = "invalidKeyElement"]
         [] key = <<>> -> [acc EXCEPT !.err = "noKey"]
         [] id \notin DOMAIN acc.streams ->
                [acc EXCEPT !.streams = acc.streams @@ (id :> [mode |-> "Backfill", keyColumns |-> key])]
         [] JoinComma(acc.streams[id].keyColumns) # JoinComma(key) ->
                [acc EXCEPT !.err = "keyMismatch"]
         [] OTHER -> acc

-----------------------------------------------------------------------------
Init ==
    /\ pk \in {f \in [Tables -> UNION {KeyChoices[t] : t \in Tables}] : \A t \in Tables : f[t] \in KeyChoices[t]}
    /\ catalog = <<>>
    /\ streams = <<>>
    /\ status = "none"

(* The database's primary key of a table changes. *)
AlterPrimaryKey ==
    \E t \in Tables : \E k \in KeyChoices[t] :
        /\ k # pk[t]
        /\ pk' = [pk EXCEPT ![t] = k]
        /\ UNCHANGED <<catalog, streams, status>>

(* A catalog built from the current discovery output is published.        *)
PublishCatalog ==
    \E bs \in SUBSET DiscoverCatalog(Tables, pk) :
    \E order \in {s \in [1..Cardinality(bs) -> bs] : IsInjective(s)} :
    \E cat \in {c \in [1..Len(order) -> UNION {ConfiguredStreams(b) : b \in bs}] :
                    \A i \in DOMAIN c : c[i] \in ConfiguredStreams(order[i])} :
        /\ catalog' = cat
        /\ UNCHANGED <<pk, streams, status>>

(* updateState: DiscoverTables fails. *)
DiscoverTablesFails ==
    /\ status' = "discoveryError"
    /\ UNCHANGED <<pk, catalog, streams>>

(* updateState: DefaultSchema fails while a catalog stream has no         *)
(* namespace to default.                                                   *)
DefaultSchemaFails ==
    /\ \E i \in DOMAIN catalog : catalog[i].namespace = <<>>
    /\ status' = "defaultSchemaError"
    /\ UNCHANGED <<pk, catalog, streams>>

(* updateState: the loop over the catalog, then the removal of the state of *)
(* streams no longer in it, and emitState.  On an error the capture ends   *)
(* and nothing of the loop's changes is persisted.                         *)
UpdateState ==
    LET res == FoldLeft(UpdateStream, [err |-> "none", streams |-> streams], catalog)
        ids == {StreamID(catalog[i]) : i \in DOMAIN catalog}
    IN /\ status' = IF res.err = "none" THEN "ok" ELSE res.err
       /\ streams' = IF res.err = "none" THEN Restrict(res.streams, DOMAIN res.streams \cap ids)
                     ELSE streams
       /\ UNCHANGED <<pk, catalog>>

(* PendingStreams: the streams still in Backfill (sorted in the code, for *)
(* reproducible logs; every round backfills all of them).                  *)
PendingStreams == {id \in DOMAIN streams : streams[id].mode = "Backfill"}

(* The run that updateState began backfills a pending stream to the end.  *)
BackfillComplete ==
    /\ status = "ok"
    /\ \E id \in PendingStreams : streams' = [streams EXCEPT ![id].mode = "Active"]
    /\ UNCHANGED <<pk, catalog, status>>

Next ==
    \/ AlterPrimaryKey
    \/ PublishCatalog
    \/ DiscoverTablesFails
    \/ DefaultSchemaFails
    \/ UpdateState
    \/ BackfillComplete

Spec == Init /\ [][Next]_vars

-----------------------------------------------------------------------------
Modes == {"Backfill", "Active"}
Statuses == {"none", "ok", "discoveryError", "defaultSchemaError", "invalidKeyElement", "noKey", "keyMismatch"}
TableIDs == {JoinStreamID(t.schema, t.name) : t \in Tables}

TypeOK ==
    /\ \A t \in Tables : pk[t] \in KeyChoices[t]
    /\ \A i \in DOMAIN catalog : \E t \in Tables :
          /\ catalog[i].name = t.name
          /\ catalog[i].namespace \in {t.schema, <<>>}
    /\ \A id \in DOMAIN streams :
          /\ streams[id].mode \in Modes
          /\ streams[id].keyColumns \in Seq(UNION {t.columns : t \in Tables}) \ {<<>>}
    /\ status \in Statuses

(* splitStreamID is "the inverse of JoinStreamID" (the comments on it in *)
(* capture.go and replication.go), and spec section 2 makes joining and   *)
(* splitting the only sanctioned conversion.  A pending stream's backfill  *)
(* queries the schema and table splitStreamID gives back (ScanTableChunk   *)
(* in backfillStreams): they must be its catalog stream's own.             *)
BackfillScansItsTable ==
    \A i \in DOMAIN catalog :
        StreamID(catalog[i]) \in PendingStreams =>
            splitStreamID(StreamID(catalog[i]))
                = <<ToLower(Namespace(catalog[i])), ToLower(catalog[i].name)>>

(* primaryKeyToCollectionKey escapes "~" before "/" so that a "/" turned   *)
(* into "~1" is not escaped again, and collectionKeyToPrimaryKey undoes    *)
(* "~1" before "~0" so that "~01" is not read as "/".  Then the pointer of *)
(* every column name is one reference token, the runtime reads it back as *)
(* that name, and so does the code's own inverse: for the key columns of  *)
(* the database now and for every name of ColumnNames.                     *)
EscapeRoundTrip ==
    \A c \in ColumnNames \cup UNION {Range(pk[t]) : t \in Tables} :
        /\ PointerPath(primaryKeyToCollectionKey(c)) = <<c>>
        /\ collectionKeyToPrimaryKey(primaryKeyToCollectionKey(c)) = c

=============================================================================
