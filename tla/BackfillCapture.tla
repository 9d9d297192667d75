--------------------------- MODULE BackfillCapture ---------------------------
(***************************************************************************)
(* The capture coordinator of sqlcapture/capture.go (Capture.Run): it      *)
(* interleaves chunked backfill scans of a table with the replication      *)
(* stream, using watermark rows to place each scan in the stream, patching *)
(* the buffered chunk with changes the scan may have missed, and emitting  *)
(* a state checkpoint at every flush.  The buffered chunk is the result    *)
(* set (resultSet, C4), whose code is not in this repository: it is        *)
(* modelled from the specification.                                        *)
(*                                                                         *)
(* One captured table with integer keys; the database commits single-row  *)
(* transactions, and the coordinator commits watermark rows, all to one   *)
(* log that the replication stream delivers in order.  Downstream, the     *)
(* emitted records are materialised as `view`; a crash discards what was  *)
(* emitted after the last checkpoint, and the capture restarts from it.    *)
(***************************************************************************)
EXTENDS Naturals, SequencesExt

CONSTANTS
    Keys,           \* primary-key values of the table (positive integers)
    Vals,           \* row values
    None,           \* an absent row
    ChunkSize,      \* rows per ScanTableChunk
    TailMode,       \* Catalog.Tail: stream forever after the backfill
    MaxTxns,        \* bound on the row changes the database commits
    MaxRestarts,    \* bound on crashes of the capture
    MaxWatermarks   \* bound on watermarks written (iterations of Run's loop)

ASSUME /\ Keys \subseteq Nat \ {0} /\ None \notin Vals
       /\ ChunkSize \in Nat \ {0} /\ TailMode \in BOOLEAN
       /\ MaxTxns \in Nat /\ MaxRestarts \in Nat /\ MaxWatermarks \in Nat

Table == [Keys -> Vals \cup {None}]

(* Log entries: a row change of the table, a watermark row written to the  *)
(* watermarks table, and the flush that commits each of them.              *)
Change(op, k, v) == [op |-> op, key |-> k, val |-> v, wm |-> 0]
WatermarkRow(w)  == [op |-> "Watermark", key |-> 0, val |-> None, wm |-> w]
Flush            == [op |-> "Flush", key |-> 0, val |-> None, wm |-> 0]

(* A change applied to a table (and, as a record, to downstream).          *)
Apply(t, e) ==
    CASE e.op \in {"Insert", "Update"} -> [t EXCEPT ![e.key] = e.val]
      [] e.op = "Delete"               -> [t EXCEPT ![e.key] = None]
      [] OTHER                         -> t

NoResults == [has |-> FALSE, rows |-> [k \in Keys |-> None], last |-> 0, complete |-> FALSE]

VARIABLES
    t0,         \* the table's contents when the capture started (history)
    db,         \* the table's current contents
    log,        \* the replication log
    txns,       \* row changes committed so far
    pc,         \* the coordinator's program point in Run
    readPos,    \* log entries the replication stream has delivered
    cursor,     \* State.Cursor
    mode,       \* State.Streams[table].Mode
    scanned,    \* State.Streams[table].Scanned (0: nil)
    watermark,  \* the watermark streamToWatermark waits for (0: none)
    wmCount,    \* watermark values used so far (each is a fresh uuid)
    reached,    \* streamToWatermark's watermarkReached
    results,    \* the buffered resultSet (has = FALSE: nil or no stream)
    view,       \* downstream: the table as the emitted records build it
    ckpt,       \* the last state checkpoint, with the view it commits
    restarts

vars == <<t0, db, log, txns, pc, readPos, cursor, mode, scanned, watermark,
          wmCount, reached, results, view, ckpt, restarts>>

(* The table as of the first n log entries.                                *)
Replay(n) == FoldLeft(Apply, t0, SubSeq(log, 1, n))

(* emitState: the checkpoint written after the step.                       *)
EmitState == ckpt' = [cursor |-> cursor', mode |-> mode', scanned |-> scanned', view |-> view']

-----------------------------------------------------------------------------
(* The database commits one row change: an insert of an absent key, or an *)
(* update or delete of a present one.                                      *)
ServerCommit ==
    /\ txns < MaxTxns
    /\ \E k \in Keys :
          \E e \in IF db[k] = None THEN {Change("Insert", k, v) : v \in Vals}
                   ELSE {Change("Update", k, v) : v \in Vals \ {db[k]}} \cup {Change("Delete", k, None)} :
             /\ db' = Apply(db, e)
             /\ log' = log \o <<e, Flush>>
    /\ txns' = txns + 1
    /\ UNCHANGED <<t0, pc, readPos, cursor, mode, scanned, watermark, wmCount, reached, results, view, ckpt, restarts>>

-----------------------------------------------------------------------------
(* resultSet, from the specification.  Buffer installs the chunk read by  *)
(* ScanTableChunk: the first ChunkSize rows after `scanned` in key order;  *)
(* the chunk is complete when it is short.                                 *)
ScanChunk(t, after) ==
    LET present == {k \in Keys : k > after /\ t[k] # None}
        chunk   == {k \in present : Cardinality({j \in present : j < k}) < ChunkSize}
    IN [has      |-> TRUE,
        rows     |-> [k \in Keys |-> IF k \in chunk THEN t[k] ELSE None],
        last     |-> IF chunk = {} THEN after ELSE Max(chunk),
        complete |-> Cardinality(present) < ChunkSize]

(* Mutant: Patch without the end-of-chunk bound, applying every change.   *)
PatchUnbounded(r, e) ==
    IF r.has THEN [r EXCEPT !.rows = Apply(@, e)] ELSE r

(* Patch applies a late change by key: insert and update set the row, a   *)
(* delete removes it.  Past the end of an incomplete chunk it does        *)
(* nothing: those rows are not buffered and will be emitted only by a     *)
(* later scan (invariant 1 of the specification: a change of a Backfill   *)
(* stream is emitted only at or below its scanned key).  A nil resultSet   *)
(* (the first iteration) patches nothing.                                  *)
Patch(r, e) ==
    IF r.has /\ (r.complete \/ e.key <= r.last)
    THEN [r EXCEPT !.rows = Apply(@, e)]
    ELSE r

-----------------------------------------------------------------------------
(* The loop head of Run: while the table is pending backfill, write a     *)
(* fresh watermark and stream to it; afterwards write one more watermark   *)
(* (or none in tail mode) and stream to it for good.                       *)
WriteWatermark ==
    /\ pc = "run"
    /\ wmCount < MaxWatermarks
    /\ IF mode = "Backfill" \/ ~TailMode
       THEN /\ wmCount' = wmCount + 1
            /\ watermark' = wmCount + 1
            /\ log' = log \o <<WatermarkRow(wmCount + 1), Flush>>
       ELSE /\ watermark' = 0
            /\ UNCHANGED <<wmCount, log>>
    /\ reached' = FALSE
    /\ pc' = IF mode = "Backfill" THEN "stream" ELSE "final"
    /\ UNCHANGED <<t0, db, txns, readPos, cursor, mode, scanned, results, view, ckpt, restarts>>

(* streamToWatermark, one replication event: a flush checkpoints its      *)
(* cursor and ends the stream once the watermark has been seen; the       *)
(* watermark row is noted; a change is emitted (Active table, or key at or *)
(* below scanned) or else patched into the buffered chunk.                 *)
StreamEvent ==
    /\ pc \in {"stream", "final"}
    /\ readPos < Len(log)
    /\ readPos' = readPos + 1
    /\ UNCHANGED <<t0, db, log, txns, mode, scanned, watermark, wmCount, restarts>>
    /\ LET e == log[readPos + 1] IN
       CASE e.op = "Flush" ->
              /\ cursor' = readPos + 1
              /\ UNCHANGED <<reached, results, view>>
              /\ EmitState
              /\ pc' = IF ~reached THEN pc ELSE IF pc = "stream" THEN "emit" ELSE "done"
         [] e.op = "Watermark" ->
              /\ reached' = (reached \/ e.wm = watermark)
              /\ UNCHANGED <<pc, cursor, results, view, ckpt>>
         [] OTHER ->
              /\ IF mode = "Active" \/ e.key <= scanned
                 THEN /\ view' = Apply(view, e)
                      /\ UNCHANGED results
                 ELSE /\ results' = Patch(results, e)
                      /\ UNCHANGED view
              /\ UNCHANGED <<pc, cursor, reached, ckpt>>

(* emitBuffered: emit the chunk's rows in key order as inserts, then mark *)
(* the table Active if the chunk was complete or else advance scanned to   *)
(* its last key, and checkpoint.                                           *)
EmitBuffered ==
    /\ pc = "emit"
    /\ IF results.has
       THEN /\ view' = [k \in Keys |-> IF results.rows[k] # None THEN results.rows[k] ELSE view[k]]
            /\ mode' = IF results.complete THEN "Active" ELSE mode
            /\ scanned' = IF results.complete THEN 0 ELSE results.last
       ELSE UNCHANGED <<view, mode, scanned>>
    /\ UNCHANGED <<t0, db, log, txns, readPos, cursor, watermark, wmCount, reached, results, restarts>>
    /\ EmitState
    /\ pc' = "backfill"

(* Mutant: backfillStreams passing a nil resume key, rescanning the first *)
(* chunk on every iteration.                                               *)
BackfillStreamsFromStart ==
    /\ pc = "backfill"
    /\ results' = IF mode = "Backfill" THEN ScanChunk(db, 0) ELSE NoResults
    /\ pc' = "run"
    /\ UNCHANGED <<t0, db, log, txns, readPos, cursor, mode, scanned, watermark, wmCount, reached, view, ckpt, restarts>>

(* backfillStreams: scan the next chunk of a still-pending table.          *)
BackfillStreams ==
    /\ pc = "backfill"
    /\ results' = IF mode = "Backfill" THEN ScanChunk(db, scanned) ELSE NoResults
    /\ pc' = "run"
    /\ UNCHANGED <<t0, db, log, txns, readPos, cursor, mode, scanned, watermark, wmCount, reached, view, ckpt, restarts>>

(* Mutant: a restart that resumes replication from the beginning of the   *)
(* log instead of the checkpointed cursor.                                 *)
RestartFromStart ==
    /\ restarts < MaxRestarts
    /\ pc # "done"
    /\ restarts' = restarts + 1
    /\ view' = ckpt.view
    /\ cursor' = ckpt.cursor /\ readPos' = 0
    /\ mode' = ckpt.mode /\ scanned' = ckpt.scanned
    /\ results' = NoResults
    /\ reached' = FALSE
    /\ pc' = "run"
    /\ UNCHANGED <<t0, db, log, txns, watermark, wmCount, ckpt>>

(* A crash: downstream keeps what the last checkpoint committed, and Run   *)
(* starts over from its state, replication resuming at its cursor.         *)
Restart ==
    /\ restarts < MaxRestarts
    /\ pc # "done"
    /\ restarts' = restarts + 1
    /\ view' = ckpt.view
    /\ cursor' = ckpt.cursor /\ readPos' = ckpt.cursor
    /\ mode' = ckpt.mode /\ scanned' = ckpt.scanned
    /\ results' = NoResults
    /\ reached' = FALSE
    /\ pc' = "run"
    /\ UNCHANGED <<t0, db, log, txns, watermark, wmCount, ckpt>>

(* Run has returned.                                                       *)
Terminated == pc = "done" /\ UNCHANGED vars

-----------------------------------------------------------------------------
(* A new capture of a table with any contents: updateState creates its    *)
(* Backfill state and checkpoints it.                                      *)
Init ==
    /\ t0 \in Table
    /\ db = t0
    /\ log = <<>>
    /\ txns = 0
    /\ pc = "run"
    /\ readPos = 0 /\ cursor = 0
    /\ mode = "Backfill" /\ scanned = 0
    /\ watermark = 0 /\ wmCount = 0 /\ reached = FALSE
    /\ results = NoResults
    /\ view = [k \in Keys |-> None]
    /\ ckpt = [cursor |-> 0, mode |-> "Backfill", scanned |-> 0, view |-> view]
    /\ restarts = 0

Coordinator == WriteWatermark \/ StreamEvent \/ EmitBuffered \/ BackfillStreams

Next == ServerCommit \/ Coordinator \/ Restart \/ Terminated

Spec == Init /\ [][Next]_vars /\ WF_vars(Coordinator)

-----------------------------------------------------------------------------
TypeOK ==
    /\ t0 \in Table /\ db \in Table /\ view \in Table
    /\ pc \in {"run", "stream", "emit", "backfill", "final", "done"}
    /\ readPos \in 0..Len(log) /\ cursor \in 0..readPos
    /\ mode \in {"Backfill", "Active"} /\ scanned \in Keys \cup {0}
    /\ results.has \in BOOLEAN /\ results.rows \in Table
    /\ ckpt.view \in Table /\ ckpt.cursor \in 0..Len(log)

(* Exactly once per row (Run, streamToWatermark, emitBuffered and the     *)
(* restart from a checkpoint): at every point, what downstream holds for   *)
(* a key the capture covers (the table is Active, or the key is at or     *)
(* below scanned) is the row as of the last change the stream delivered,   *)
(* and nothing at all for a key it does not cover yet.                     *)
ExactlyOnce ==
    \A k \in Keys :
        view[k] = IF mode = "Active" \/ k <= scanned THEN Replay(readPos)[k] ELSE None

(* The backfill terminates (the Run loop of capture.go, `for             *)
(* c.State.PendingStreams() != nil`): however commits and a crash          *)
(* interleave with the scans, every chunk moves scanned forward, so the    *)
(* table eventually becomes Active and stays so.                           *)
BackfillCompletes == <>[](mode = "Active")

=============================================================================
