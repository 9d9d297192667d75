------------------------------ MODULE Discovery ------------------------------
(***************************************************************************)
(* The pure helpers of catalog discovery (sqlcapture/discovery.go) and of   *)
(* stream naming (sqlcapture/capture.go), as operators on strings.  A      *)
(* string is a sequence of one-character strings, so that the character    *)
(* by character work of strings.ReplaceAll, strings.ToLower, the name      *)
(* sanitizer and strings.SplitN is what the operators do.                  *)
(***************************************************************************)
EXTENDS Naturals, Sequences, SequencesExt

CONSTANTS
    CaseFold,         \* upper-case letter |-> its lower case, for ToLower
    FlowPublishedAt,  \* the column name "flow_published_at"
    FallbackKey       \* db.FallbackCollectionKey(): a sequence of pointers

Slash == <<"/">>
Tilde == <<"~">>
Dot   == <<".">>

(* strings.ReplaceAll: non-overlapping occurrences of old (not empty),     *)
(* found from the left, each replaced by new.                              *)
RECURSIVE StringsReplaceAll(_, _, _)
StringsReplaceAll(s, old, new) ==
    IF Len(s) < Len(old) THEN s
    ELSE IF SubSeq(s, 1, Len(old)) = old
         THEN new \o StringsReplaceAll(SubSeq(s, Len(old) + 1, Len(s)), old, new)
         ELSE <<Head(s)>> \o StringsReplaceAll(Tail(s), old, new)

(* strings.TrimPrefix *)
TrimPrefix(s, p) == IF IsPrefix(p, s) THEN SubSeq(s, Len(p) + 1, Len(s)) ELSE s

(* strings.ToLower over the letters the model uses. *)
ToLower(s) == [i \in DOMAIN s |-> IF s[i] \in DOMAIN CaseFold THEN CaseFold[s[i]] ELSE s[i]]

(* JoinStreamID: strings.ToLower(namespace + "." + stream). *)
JoinStreamID(namespace, stream) == ToLower(namespace \o Dot \o stream)

(* splitStreamID: strings.SplitN(streamID, ".", 2). *)
splitStreamID(streamID) ==
    LET i == SelectInSeq(streamID, LAMBDA c : c = ".")
    IN <<SubSeq(streamID, 1, i - 1), SubSeq(streamID, i + 1, Len(streamID))>>

(* recommendedCatalogName: lower-case schema and table, every character    *)
(* outside [a-z0-9-_.] (case-insensitively) replaced by "_", joined by "/". *)
Sanitize(s) ==
    LET letters == DOMAIN CaseFold \cup Range(CaseFold)
        plain   == letters \cup {"0", "1", "2", "3", "4", "5", "6", "7", "8", "9", "-", "_", "."}
    IN [i \in DOMAIN s |-> IF s[i] \in plain THEN s[i] ELSE "_"]
recommendedCatalogName(schema, table) ==
    Sanitize(ToLower(schema)) \o Slash \o Sanitize(ToLower(table))

(* primaryKeyToCollectionKey: escape "~" first, then "/", and prefix "/".  *)
primaryKeyToCollectionKey(key) ==
    Slash \o StringsReplaceAll(StringsReplaceAll(key, Tilde, <<"~", "0">>), Slash, <<"~", "1">>)

(* Mutant: "~0" unescaped before "~1". *)
collectionKeyToPrimaryKeyTildeFirst(ptr) ==
    StringsReplaceAll(StringsReplaceAll(TrimPrefix(ptr, Slash), <<"~", "0">>, Tilde),
                      <<"~", "1">>, Slash)

(* collectionKeyToPrimaryKey: strip the "/", unescape "~1", then "~0".     *)
collectionKeyToPrimaryKey(ptr) ==
    StringsReplaceAll(StringsReplaceAll(TrimPrefix(ptr, Slash), <<"~", "1">>, Slash),
                      <<"~", "0">>, Tilde)

(* ValidVersion: the version is at least the required one. *)
ValidVersion(major, minor, reqMajor, reqMinor) ==
    IF major > reqMajor THEN TRUE
    ELSE IF major < reqMajor \/ minor < reqMinor THEN FALSE
    ELSE TRUE

-----------------------------------------------------------------------------
(***************************************************************************)
(* DiscoverCatalog.  A table is a record of its schema, name, whether it   *)
(* is a BASE TABLE, whether OmitBinding is set, its column names and the   *)
(* columns marked OmitColumn; pk is its discovered primary key.  Views,    *)
(* omitted bindings and tables with a flow_published_at column are left    *)
(* out; a key with an omitted column is no key; a keyless table gets the   *)
(* database's fallback key and the without-key backfill mode.             *)
(***************************************************************************)
SuggestedCollectionKey(t, pk) ==
    IF \E i \in DOMAIN pk : pk[i] \in t.omitColumns THEN <<>> ELSE pk

(* The collection's JSON schema, reduced to the table definition it        *)
(* anchors: a property for every column not omitted, and the suggested    *)
(* key as its required properties (column types, descriptions and the     *)
(* _meta document are left out).                                         *)
CollectionSchema(t, key) == [properties |-> t.columns \ t.omitColumns, required |-> Range(key)]

DiscoveredBinding(t, pk) ==
    LET key  == SuggestedCollectionKey(t, pk)
        ptrs == [i \in DOMAIN key |-> primaryKeyToCollectionKey(key[i])]
    IN [schema          |-> CollectionSchema(t, key),
        recommendedName |-> recommendedCatalogName(t.schema, t.name),
        namespace       |-> t.schema,
        stream          |-> t.name,
        mode            |-> IF ptrs = <<>> THEN "WithoutKey" ELSE "Automatic",
        key             |-> IF ptrs = <<>> THEN FallbackKey ELSE ptrs]

Discoverable(t) == t.base /\ ~t.omitBinding /\ FlowPublishedAt \notin t.columns

DiscoverCatalog(tables, pk) ==
    {DiscoveredBinding(t, pk[t]) : t \in {u \in tables : Discoverable(u)}}

=============================================================================
