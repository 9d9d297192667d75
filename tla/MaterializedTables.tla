-------------------------- MODULE MaterializedTables --------------------------
(***************************************************************************)
(* What a transactional materialization promises, without stages, queries, *)
(* pipes or checkpoints: the runtime commits transactions of documents,   *)
(* one file per binding and transaction; a committed file is applied to   *)
(* its table, at most once; nothing uncommitted reaches a table.  Commits  *)
(* only grow the committed set and survive crashes.                       *)
(***************************************************************************)
EXTENDS Naturals

CONSTANTS Bindings, Txns

VARIABLES
    committed,  \* the <<b, n>> the runtime has committed
    rows        \* [b -> [n -> times transaction n was applied to b's table]]

Files == Bindings \X Txns

Init ==
    /\ committed = {}
    /\ rows = [b \in Bindings |-> [n \in Txns |-> 0]]

Commit(F) ==
    /\ committed' = committed \cup F
    /\ UNCHANGED rows

Apply(b, n) ==
    /\ <<b, n>> \in committed
    /\ rows[b][n] = 0
    /\ rows' = [rows EXCEPT ![b][n] = 1]
    /\ UNCHANGED committed

Next == (\E F \in SUBSET Files : Commit(F)) \/ \E b \in Bindings, n \in Txns : Apply(b, n)

Spec == Init /\ [][Next]_<<committed, rows>>
=============================================================================
