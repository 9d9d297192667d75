-------------------------- MODULE BinlogReplication --------------------------
(***************************************************************************)
(* The MySQL replication stream of source-mysql/replication.go: the        *)
(* replication worker goroutine (run, handleQuery, handleAlterTable) that   *)
(* decodes binlog events into a bounded events channel, the capture        *)
(* goroutine that consumes it through StreamToFence and mutates the        *)
(* active-table set through ActivateTable, the readers-writer lock that    *)
(* guards that set, and Close.  The MySQL server is the environment: it    *)
(* appends whole transactions and DDL statements to the binlog.            *)
(*                                                                         *)
(* Binlog positions are abstracted to indices into the binlog: the cursor  *)
(* of an event is the index of the binlog event it was decoded from, and   *)
(* the server's current position (queryBinlogPosition) is the index of the *)
(* last event written.  Position 0 is the start position of the stream.    *)
(* The model keeps only the binlog events the worker has not read yet.     *)
(***************************************************************************)
EXTENDS Naturals, Sequences, FiniteSets

CONSTANTS
    Tables,         \* captured-or-not tables of the database (model values)
    NoTable,        \* table field of events that are about no table
    InitEngine,     \* [Tables -> {"InnoDB", "MyISAM"}] at capture start
    Capacity,       \* replicationBufferSize, capacity of the events channel
    MaxLog,         \* bound on the number of binlog events the server writes
    MaxRows,        \* bound on the row events of one transaction
    AlterKinds      \* the ALTER TABLE alterations the server may run

ASSUME /\ Capacity \in Nat \ {0}
       /\ MaxLog \in Nat /\ MaxRows \in Nat \ {0}
       /\ InitEngine \in [Tables -> {"InnoDB", "MyISAM"}]
       /\ AlterKinds \subseteq {"column", "engine", "unsupported"}
       /\ NoTable \notin Tables

-----------------------------------------------------------------------------
(* Binlog events as the worker sees them.                                  *)
(*  "Begin"     QueryEvent "BEGIN" opening a transaction                   *)
(*  "RowsQuery" RowsQueryEvent preceding each row event of a statement     *)
(*  "Rows"      RowsEvent on `table`; `end` is the binlog index of the     *)
(*              event that ends its transaction                            *)
(*  "Xid"       XIDEvent ending an InnoDB transaction                      *)
(*  "Commit"    QueryEvent "COMMIT" ending a MyISAM transaction            *)
(*  "Alter"     QueryEvent ALTER TABLE `table` with alteration `opt`       *)
(*  "Drop"      QueryEvent DROP TABLE `table`                              *)
BinlogEvent(kind, t, opt, end) == [kind |-> kind, table |-> t, opt |-> opt, end |-> end]

(* DatabaseEvents written to the events channel, plus the two steps        *)
(* ("Unlock", "Deactivate") the worker takes between its sends.  Only the  *)
(* position of an event is kept (and, for a change, where its transaction  *)
(* ends); its table, row and metadata are not, except for the table of a   *)
(* Deactivate step.                                                        *)
EventTypes == {"Change", "Keepalive", "Flush", "Metadata", "TableDrop"}
Ev(type, pos, t, end) == [type |-> type, pos |-> pos, table |-> t, end |-> end]
FlushAt(pos) == Ev("Flush", pos, NoTable, 0)

VARIABLES
    binlog,            \* the events of the server's binlog after the worker's cursor
    engine,            \* the server's storage engine of each table
    dropped,           \* tables the server has dropped
    cursor,            \* run(): index of the last binlog event read
    pending,           \* events (and steps) of the current binlog event still to be done
    uncommittedChanges,
    nonTransactionalChanges,
    worker,            \* "run" or "exited" (the goroutine of StartReplication)
    writeLocked,       \* the worker holds rs.tables' write lock
    active,            \* rs.tables.active
    nonTransactional,  \* rs.tables.nonTransactional
    dirtyMetadata,     \* rs.tables.dirtyMetadata
    events,            \* rs.events, the buffered channel
    closed,            \* rs.events has been closed
    canceled,          \* the worker's context has been canceled
    main,              \* the capture goroutine's program point
    timed,             \* the current StreamToFence has fenceAfter > 0
    activating,        \* the table the current ActivateTable call is for
    latestFlushCursor, timedEventsSinceFlush,
    fenceTarget,       \* the position returned by queryBinlogPosition
    fencePosition,     \* rs.fencePosition
    sentChangeEnd      \* history: where the transaction of the last ChangeEvent sent ends

serverVars == <<binlog, engine, dropped>>
workerVars == <<cursor, pending, uncommittedChanges, nonTransactionalChanges, worker, writeLocked, sentChangeEnd>>
tableVars  == <<active, nonTransactional, dirtyMetadata>>
mainVars   == <<main, timed, activating, latestFlushCursor, timedEventsSinceFlush, fenceTarget, fencePosition>>
vars == <<binlog, engine, dropped,
          cursor, pending, uncommittedChanges, nonTransactionalChanges, worker, writeLocked, sentChangeEnd,
          active, nonTransactional, dirtyMetadata, events, closed, canceled,
          main, timed, activating, latestFlushCursor, timedEventsSinceFlush, fenceTarget, fencePosition>>

MainStates == {"idle", "rlock", "timed", "query", "fenced", "activate",
               "error", "timedOut", "sanityFailed", "closing", "closed"}
InFence == {"rlock", "timed", "query", "fenced"}

Live == Tables \ dropped
ServerPosition == cursor + Len(binlog)

(***************************************************************************)
(* The server.  Row changes are written as whole transactions: BEGIN, a    *)
(* RowsQuery and a Rows event per statement, then XID for InnoDB tables or *)
(* a COMMIT query for MyISAM tables.  DDL statements are single events.    *)
(***************************************************************************)
ServerCommitTxn ==
    \E n \in 1..MaxRows : \E ts \in [1..n -> Live] :
        LET len  == 2 * n + 2
            end  == ServerPosition + len
            stmt(i) == IF i % 2 = 1 THEN BinlogEvent("RowsQuery", NoTable, "", 0)
                                    ELSE BinlogEvent("Rows", ts[i \div 2], "", end)
            last == IF engine[ts[1]] = "InnoDB" THEN "Xid" ELSE "Commit"
        IN /\ \A i \in 1..n : engine[ts[i]] = engine[ts[1]]
           /\ end <= MaxLog
           /\ binlog' = binlog \o <<BinlogEvent("Begin", NoTable, "", 0)>>
                               \o [i \in 1..2 * n |-> stmt(i)]
                               \o <<BinlogEvent(last, NoTable, "", 0)>>
           /\ UNCHANGED <<engine, dropped>>

ServerAlterTable ==
    \E t \in Live, opt \in AlterKinds :
        /\ ServerPosition < MaxLog
        /\ binlog' = Append(binlog, BinlogEvent("Alter", t, opt, 0))
        /\ engine' = IF opt = "engine"
                     THEN [engine EXCEPT ![t] = IF @ = "InnoDB" THEN "MyISAM" ELSE "InnoDB"]
                     ELSE engine
        /\ UNCHANGED dropped

ServerDropTable ==
    \E t \in Live :
        /\ ServerPosition < MaxLog
        /\ binlog' = Append(binlog, BinlogEvent("Drop", t, "", 0))
        /\ dropped' = dropped \cup {t}
        /\ UNCHANGED engine

Server == (ServerCommitTxn \/ ServerAlterTable \/ ServerDropTable)
          /\ UNCHANGED <<workerVars, tableVars, events, closed, canceled, mainVars>>

(***************************************************************************)
(* The replication worker, run().  Each Handle action reads the next       *)
(* binlog event (GetEvent), advances the cursor to it and decides the      *)
(* events it sends; the sends themselves block on the channel and are      *)
(* taken one at a time by Send.                                            *)
(***************************************************************************)
NextEvent == Head(binlog)
Pos   == cursor + 1

(* Mutant: the implicit flush without its uncommittedChanges == 0 guard.    *)
ImplicitFlushUnguarded(uncommitted) == <<FlushAt(Pos)>>

(* The implicit FlushEvent sent after events that are neither row changes   *)
(* nor commits, if and only if no changes are uncommitted.                  *)
ImplicitFlush(uncommitted) == IF uncommitted = 0 THEN <<FlushAt(Pos)>> ELSE <<>>

GetEvent ==
    /\ worker = "run"
    /\ pending = <<>>
    /\ binlog # <<>>
    /\ binlog' = Tail(binlog)
    /\ cursor' = cursor + 1

(* RowsEvent: a KeepaliveEvent for an inactive table, else a ChangeEvent,  *)
(* counting the uncommitted (and non-transactional) changes.                *)
HandleRowsEvent ==
    /\ GetEvent
    /\ NextEvent.kind = "Rows"
    /\ IF NextEvent.table \notin active
       THEN /\ pending' = <<Ev("Keepalive", Pos, NoTable, 0)>>
            /\ UNCHANGED <<uncommittedChanges, nonTransactionalChanges>>
       ELSE /\ pending' = <<Ev("Change", Pos, NoTable, NextEvent.end)>>
            /\ uncommittedChanges' = uncommittedChanges + 1
            /\ nonTransactionalChanges' =
                   nonTransactionalChanges + (IF nonTransactional[NextEvent.table] THEN 1 ELSE 0)
    /\ UNCHANGED <<worker, writeLocked, sentChangeEnd>>

(* Mutant: an XIDEvent that leaves uncommittedChanges set.                  *)
HandleXIDEventNoReset ==
    /\ GetEvent
    /\ NextEvent.kind = "Xid"
    /\ pending' = <<FlushAt(Pos)>>
    /\ nonTransactionalChanges' = 0
    /\ UNCHANGED <<uncommittedChanges, worker, writeLocked, sentChangeEnd>>

(* XIDEvent: a FlushEvent at the commit position; both counters reset.     *)
HandleXIDEvent ==
    /\ GetEvent
    /\ NextEvent.kind = "Xid"
    /\ pending' = <<FlushAt(Pos)>>
    /\ uncommittedChanges' = 0
    /\ nonTransactionalChanges' = 0
    /\ UNCHANGED <<worker, writeLocked, sentChangeEnd>>

(* RowsQueryEvent (and GTID, Rotate, FormatDescription, heartbeat events):  *)
(* nothing but the implicit flush.                                          *)
HandleImplicitFlushEvent ==
    /\ GetEvent
    /\ NextEvent.kind = "RowsQuery"
    /\ pending' = ImplicitFlush(uncommittedChanges)
    /\ UNCHANGED <<uncommittedChanges, nonTransactionalChanges, worker, writeLocked, sentChangeEnd>>

(* Mutant: a COMMIT query that leaves uncommittedChanges set.               *)
HandleCommitQueryNoReset ==
    /\ GetEvent
    /\ NextEvent.kind = "Commit"
    /\ nonTransactionalChanges > 0
    /\ pending' = <<FlushAt(Pos)>>
    /\ nonTransactionalChanges' = 0
    /\ UNCHANGED <<uncommittedChanges, worker, writeLocked, sentChangeEnd>>

(* Mutant: a COMMIT query that leaves nonTransactionalChanges set.          *)
HandleCommitQueryKeepNonTransactional ==
    /\ GetEvent
    /\ NextEvent.kind = "Commit"
    /\ nonTransactionalChanges > 0
    /\ pending' = <<FlushAt(Pos)>>
    /\ uncommittedChanges' = 0
    /\ UNCHANGED <<nonTransactionalChanges, worker, writeLocked, sentChangeEnd>>

(* QueryEvent "COMMIT" with non-transactional changes pending: a commit.   *)
HandleCommitQuery ==
    /\ GetEvent
    /\ NextEvent.kind = "Commit"
    /\ nonTransactionalChanges > 0
    /\ pending' = <<FlushAt(Pos)>>
    /\ uncommittedChanges' = 0
    /\ nonTransactionalChanges' = 0
    /\ UNCHANGED <<worker, writeLocked, sentChangeEnd>>

(* Any other QueryEvent goes to handleQuery and then permits an implicit   *)
(* flush.  BEGIN and COMMIT are silently ignored.  DROP TABLE of an active *)
(* table sends a TableDropEvent and deactivates the table.  ALTER TABLE of *)
(* an active table takes the write lock, and fails on an unsupported       *)
(* alteration or else sends a MetadataEvent while still holding the lock   *)
(* (the deferred Unlock runs after the send).                              *)
HandleQuery ==
    /\ GetEvent
    /\ \/ NextEvent.kind = "Begin"
       \/ NextEvent.kind = "Commit" /\ nonTransactionalChanges = 0
       \/ NextEvent.kind \in {"Alter", "Drop"} /\ NextEvent.table \notin active
    /\ pending' = ImplicitFlush(uncommittedChanges)
    /\ UNCHANGED <<uncommittedChanges, nonTransactionalChanges, worker, writeLocked, sentChangeEnd>>

HandleDropTable ==
    /\ GetEvent
    /\ NextEvent.kind = "Drop"
    /\ NextEvent.table \in active
    /\ pending' = <<Ev("TableDrop", Pos, NoTable, 0), Ev("Deactivate", Pos, NextEvent.table, 0)>>
                  \o ImplicitFlush(uncommittedChanges)
    /\ UNCHANGED <<uncommittedChanges, nonTransactionalChanges, worker, writeLocked, sentChangeEnd>>

HandleAlterTable ==
    /\ GetEvent
    /\ NextEvent.kind = "Alter"
    /\ NextEvent.table \in active
    /\ IF NextEvent.opt = "unsupported"
       THEN /\ worker' = "exited"
            /\ closed' = TRUE
            /\ UNCHANGED <<pending, writeLocked>>
       ELSE /\ writeLocked' = TRUE
            /\ pending' = <<Ev("Metadata", Pos, NoTable, 0), Ev("Unlock", Pos, NoTable, 0)>>
                          \o ImplicitFlush(uncommittedChanges)
            /\ UNCHANGED <<worker, closed>>
    /\ UNCHANGED <<uncommittedChanges, nonTransactionalChanges, sentChangeEnd>>

(* emitEvent: a send on the events channel, blocking while it is full.     *)
Send ==
    /\ worker = "run"
    /\ pending # <<>>
    /\ Head(pending).type \in EventTypes
    /\ Len(events) < Capacity
    /\ events' = Append(events, Head(pending))
    /\ sentChangeEnd' = IF Head(pending).type = "Change" THEN Head(pending).end ELSE sentChangeEnd
    /\ pending' = Tail(pending)
    /\ UNCHANGED <<cursor, uncommittedChanges, nonTransactionalChanges, worker, writeLocked>>

Unlock ==
    /\ worker = "run"
    /\ pending # <<>>
    /\ Head(pending).type = "Unlock"
    /\ writeLocked' = FALSE
    /\ pending' = Tail(pending)
    /\ UNCHANGED <<cursor, uncommittedChanges, nonTransactionalChanges, worker, sentChangeEnd>>

(* deactivateTable forgets the table's active flag and engine.             *)
DeactivateTable ==
    /\ worker = "run"
    /\ pending # <<>>
    /\ Head(pending).type = "Deactivate"
    /\ active' = active \ {Head(pending).table}
    /\ nonTransactional' = [nonTransactional EXCEPT ![Head(pending).table] = FALSE]
    /\ pending' = Tail(pending)
    /\ UNCHANGED <<cursor, uncommittedChanges, nonTransactionalChanges, worker, writeLocked, sentChangeEnd>>

(* Cancellation wakes the worker where it blocks (GetEvent, emitEvent); it *)
(* returns, releasing a held write lock, and closes the events channel.    *)
WorkerCanceled ==
    /\ worker = "run"
    /\ canceled
    /\ pending = <<>> \/ (pending # <<>> /\ Head(pending).type \in EventTypes)
    /\ worker' = "exited"
    /\ closed' = TRUE
    /\ writeLocked' = FALSE
    /\ pending' = <<>>
    /\ UNCHANGED <<cursor, uncommittedChanges, nonTransactionalChanges, sentChangeEnd>>

Worker ==
    \/ /\ \/ HandleRowsEvent \/ HandleXIDEvent \/ HandleImplicitFlushEvent
          \/ HandleCommitQuery \/ HandleQuery \/ HandleDropTable
       /\ UNCHANGED <<engine, dropped, tableVars, events, closed, canceled, mainVars>>
    \/ HandleAlterTable /\ UNCHANGED <<engine, dropped, tableVars, events, canceled, mainVars>>
    \/ Send /\ UNCHANGED <<serverVars, tableVars, closed, canceled, mainVars>>
    \/ Unlock /\ UNCHANGED <<serverVars, tableVars, events, closed, canceled, mainVars>>
    \/ DeactivateTable /\ UNCHANGED <<serverVars, dirtyMetadata, events, closed, canceled, mainVars>>
    \/ WorkerCanceled /\ UNCHANGED <<serverVars, tableVars, events, canceled, mainVars>>


(***************************************************************************)
(* The capture goroutine: StreamToFence, ActivateTable and Close.          *)
(***************************************************************************)
StartStreamToFence ==
    /\ main = "idle"
    /\ \E fenceAfter \in BOOLEAN : timed' = fenceAfter
    /\ main' = "rlock"
    /\ UNCHANGED <<activating, latestFlushCursor, timedEventsSinceFlush, fenceTarget, fencePosition>>

(* Under the read lock, report a MetadataEvent (to the callback) for every *)
(* dirty table and clear the list; then start the timed phase from the     *)
(* latest fence position.                                                   *)
ReportDirtyMetadata ==
    /\ main = "rlock"
    /\ ~writeLocked
    /\ dirtyMetadata' = {}
    /\ latestFlushCursor' = fencePosition
    /\ timedEventsSinceFlush' = 0
    /\ main' = IF timed THEN "timed" ELSE "query"
    /\ UNCHANGED <<timed, activating, fenceTarget, fencePosition>>

(* Mutant: the timed phase never resets its count of events since a flush. *)
TimedReceiveNoReset ==
    /\ main = "timed"
    /\ events # <<>>
    /\ events' = Tail(events)
    /\ IF Head(events).type = "Flush"
       THEN latestFlushCursor' = Head(events).pos
       ELSE UNCHANGED latestFlushCursor
    /\ timedEventsSinceFlush' = timedEventsSinceFlush + 1
    /\ UNCHANGED <<main, timed, activating, fenceTarget, fencePosition>>

(* Timed phase: pass events to the callback, remembering the latest flush. *)
TimedReceive ==
    /\ main = "timed"
    /\ events # <<>>
    /\ events' = Tail(events)
    /\ IF Head(events).type = "Flush"
       THEN /\ latestFlushCursor' = Head(events).pos
            /\ timedEventsSinceFlush' = 0
       ELSE /\ timedEventsSinceFlush' = timedEventsSinceFlush + 1
            /\ UNCHANGED latestFlushCursor
    /\ UNCHANGED <<main, timed, activating, fenceTarget, fencePosition>>

TimedDeadline ==
    /\ main = "timed"
    /\ main' = "query"
    /\ UNCHANGED <<timed, activating, latestFlushCursor, timedEventsSinceFlush, fenceTarget, fencePosition>>

(* A closed, drained channel ends either phase with ErrFenceNotReached.    *)
ChannelClosed ==
    /\ main \in {"timed", "fenced"}
    /\ events = <<>>
    /\ closed
    /\ main' = "error"
    /\ UNCHANGED <<timed, activating, latestFlushCursor, timedEventsSinceFlush, fenceTarget, fencePosition>>

(* The locals of StreamToFence are dead once it returns.                  *)
ReturnFence ==
    /\ timed' = FALSE
    /\ latestFlushCursor' = 0
    /\ timedEventsSinceFlush' = 0

(* Establish the fence at the server's current position.  If the latest    *)
(* flush is already there, return at once (after the sanity check that no *)
(* events followed that flush); otherwise enter the fenced phase.          *)
QueryFencePosition ==
    /\ main = "query"
    /\ fenceTarget' = ServerPosition
    /\ IF ServerPosition = latestFlushCursor
       THEN IF timedEventsSinceFlush > 0
            THEN /\ main' = "sanityFailed"
                 /\ UNCHANGED <<fencePosition, timed, latestFlushCursor, timedEventsSinceFlush>>
            ELSE /\ fencePosition' = latestFlushCursor
                 /\ main' = "idle"
                 /\ ReturnFence
       ELSE /\ main' = "fenced"
            /\ UNCHANGED <<fencePosition, timed, latestFlushCursor, timedEventsSinceFlush>>
    /\ UNCHANGED <<events, activating>>

(* Mutant: the fenced phase ends at any flush, before the fence or not.     *)
FencedReceiveAnyFlush ==
    /\ main = "fenced"
    /\ events # <<>>
    /\ events' = Tail(events)
    /\ IF Head(events).type = "Flush"
       THEN /\ fencePosition' = Head(events).pos
            /\ main' = "idle"
            /\ ReturnFence
       ELSE UNCHANGED <<fencePosition, main, timed, latestFlushCursor, timedEventsSinceFlush>>
    /\ UNCHANGED <<activating, fenceTarget>>

(* Fenced phase: pass events on until a flush at or after the fence.       *)
FencedReceive ==
    /\ main = "fenced"
    /\ events # <<>>
    /\ events' = Tail(events)
    /\ IF Head(events).type = "Flush" /\ Head(events).pos >= fenceTarget
       THEN /\ fencePosition' = Head(events).pos
            /\ main' = "idle"
            /\ ReturnFence
       ELSE UNCHANGED <<fencePosition, main, timed, latestFlushCursor, timedEventsSinceFlush>>
    /\ UNCHANGED <<activating, fenceTarget>>

(* The watchdog expires when the fenced phase receives nothing because the *)
(* worker has read the whole binlog and has nothing left to send.          *)
FenceWatchdog ==
    /\ main = "fenced"
    /\ events = <<>>
    /\ worker = "run" /\ pending = <<>> /\ binlog = <<>>
    /\ main' = "timedOut"
    /\ UNCHANGED <<timed, activating, latestFlushCursor, timedEventsSinceFlush, fenceTarget, fencePosition>>

BeginActivateTable ==
    /\ main = "idle"
    /\ \E t \in Live \ active : activating' = t
    /\ main' = "activate"
    /\ UNCHANGED <<timed, latestFlushCursor, timedEventsSinceFlush, fenceTarget, fencePosition>>

(* Under the write lock: unless already active, mark the table active with *)
(* its storage engine from discovery, and its metadata dirty.              *)
ActivateTable ==
    /\ main = "activate"
    /\ ~writeLocked
    /\ IF activating \in active
       THEN UNCHANGED <<active, nonTransactional, dirtyMetadata>>
       ELSE /\ active' = active \cup {activating}
            /\ nonTransactional' = [nonTransactional EXCEPT ![activating] = (engine[activating] = "MyISAM")]
            /\ dirtyMetadata' = dirtyMetadata \cup {activating}
    /\ main' = "idle"
    /\ activating' = NoTable
    /\ UNCHANGED <<timed, latestFlushCursor, timedEventsSinceFlush, fenceTarget, fencePosition>>

(* Close, called when the capture returns (normally or on an error):       *)
(* cancel the worker, then wait for its result.                            *)
Close ==
    /\ main \in {"idle", "error", "timedOut", "sanityFailed"}
    /\ canceled' = TRUE
    /\ main' = "closing"
    /\ UNCHANGED <<timed, activating, latestFlushCursor, timedEventsSinceFlush, fenceTarget, fencePosition>>

CloseJoin ==
    /\ main = "closing"
    /\ worker = "exited"
    /\ main' = "closed"
    /\ UNCHANGED <<timed, activating, latestFlushCursor, timedEventsSinceFlush, fenceTarget, fencePosition>>

(* Main steps with the variables they leave alone.                         *)
LocalStep(A) == A /\ UNCHANGED <<serverVars, workerVars, tableVars, events, closed, canceled>>
Receive == (TimedReceive \/ FencedReceive \/ QueryFencePosition)
           /\ UNCHANGED <<serverVars, workerVars, tableVars, closed, canceled>>
Report == ReportDirtyMetadata
          /\ UNCHANGED <<serverVars, workerVars, active, nonTransactional, events, closed, canceled>>
Activate == ActivateTable /\ UNCHANGED <<serverVars, workerVars, events, closed, canceled>>

Main ==
    \/ LocalStep(StartStreamToFence \/ TimedDeadline \/ ChannelClosed \/ FenceWatchdog
                 \/ BeginActivateTable \/ CloseJoin)
    \/ Receive \/ Report \/ Activate
    \/ Close /\ UNCHANGED <<serverVars, workerVars, tableVars, events, closed>>

(* Both goroutines have finished.                                          *)
Terminated == main = "closed" /\ worker = "exited" /\ UNCHANGED vars

-----------------------------------------------------------------------------
(* The stream starts at position 0 with no table active.  The client       *)
(* library's fake RotateEvent at connection start yields an implicit flush *)
(* at the start position.                                                  *)
Init ==
    /\ binlog = <<>>
    /\ engine = InitEngine
    /\ dropped = {}
    /\ cursor = 0
    /\ pending = <<FlushAt(0)>>
    /\ uncommittedChanges = 0
    /\ nonTransactionalChanges = 0
    /\ worker = "run"
    /\ writeLocked = FALSE
    /\ active = {}
    /\ nonTransactional = [t \in Tables |-> FALSE]
    /\ dirtyMetadata = {}
    /\ events = <<>>
    /\ closed = FALSE
    /\ canceled = FALSE
    /\ main = "idle"
    /\ timed = FALSE
    /\ activating = NoTable
    /\ latestFlushCursor = 0
    /\ timedEventsSinceFlush = 0
    /\ fenceTarget = 0
    /\ fencePosition = 0
    /\ sentChangeEnd = 0

Next == Server \/ Worker \/ Main \/ Terminated

(* The goroutines are scheduled fairly, timers (the fenceAfter deadline    *)
(* and the fence watchdog) eventually fire, and a lock released infinitely *)
(* often is eventually acquired.  The server and the caller's choices       *)
(* (another fence, an activation, Close) are not fair.                     *)
Fairness ==
    /\ WF_vars(Worker)
    /\ WF_vars(Receive \/ LocalStep(TimedDeadline \/ ChannelClosed \/ FenceWatchdog))
    /\ SF_vars(Report)
    /\ SF_vars(Activate)
    /\ WF_vars(LocalStep(CloseJoin))

Spec == Init /\ [][Next]_vars /\ Fairness

-----------------------------------------------------------------------------
(***************************************************************************)
(* Properties                                                              *)
(***************************************************************************)
Positions == 0..MaxLog
Event == [type: EventTypes \cup {"Unlock", "Deactivate"}, pos: Positions,
          table: Tables \cup {NoTable}, end: Positions]

TypeOK ==
    /\ binlog \in Seq([kind: {"Begin", "RowsQuery", "Rows", "Xid", "Commit", "Alter", "Drop"},
                       table: Tables \cup {NoTable}, opt: AlterKinds \cup {""}, end: Positions])
    /\ cursor \in Positions /\ ServerPosition <= MaxLog
    /\ pending \in Seq(Event) /\ events \in Seq(Event) /\ sentChangeEnd \in Positions
    /\ Len(events) <= Capacity
    /\ uncommittedChanges \in Nat /\ nonTransactionalChanges \in 0..uncommittedChanges
    /\ worker \in {"run", "exited"}
    /\ writeLocked \in BOOLEAN /\ closed \in BOOLEAN /\ canceled \in BOOLEAN
    /\ active \subseteq Tables /\ dirtyMetadata \subseteq Tables
    /\ nonTransactional \in [Tables -> BOOLEAN]
    /\ main \in MainStates /\ timed \in BOOLEAN
    /\ activating \in Tables \cup {NoTable}
    /\ {latestFlushCursor, fenceTarget, fencePosition} \subseteq Positions
    /\ timedEventsSinceFlush \in Nat

(* Flush alignment (run: a FlushEvent is sent only when no changes are     *)
(* uncommitted): when the worker sends a FlushEvent, the transaction of    *)
(* every ChangeEvent it sent before ends at or before the flush's          *)
(* position, so a resume from any flushed cursor never splits a            *)
(* transaction.                                                            *)
FlushAtCommitBoundary ==
    [][ Send /\ Head(pending).type = "Flush" => sentChangeEnd <= Head(pending).pos ]_vars

(* The fence (StreamToFence): when it returns, its position is at or past  *)
(* the server position it queried, and every non-flush event decoded from  *)
(* a binlog event up to that position has already been passed to the      *)
(* callback: none is left in the channel or still to be sent.              *)
FenceCoversServerPosition ==
    main = "idle" =>
        /\ fencePosition >= fenceTarget
        /\ cursor >= fencePosition
        /\ \A i \in DOMAIN events : events[i].type # "Flush" => events[i].pos > fencePosition
        /\ \A i \in DOMAIN pending : pending[i].type \in EventTypes \ {"Flush"} => pending[i].pos > fencePosition

(* The early exit of StreamToFence (already at the fence) is taken only    *)
(* when no event followed the latest flush: its internal sanity check      *)
(* never fails.                                                            *)
NoSanityCheckFailure == main # "sanityFailed"

(* Fence liveness: the fenced phase never sits idle with the whole binlog  *)
(* decoded and no flush at the fence in sight, which is when the           *)
(* 5-minute watchdog fails the capture ("replication became idle").        *)
NoFenceWatchdogTimeout == main # "timedOut"

(* The worker never holds the tables write lock while blocked on a full    *)
(* events channel at the same time as the capture goroutine, the channel's *)
(* only reader, waits for that lock (StreamToFence's RLock or             *)
(* ActivateTable's Lock): the two would wait on each other forever.        *)
NoLockChannelCycle ==
    ~ /\ writeLocked
      /\ Len(events) = Capacity
      /\ main \in {"rlock", "activate"}

(* Every StreamToFence call returns, successfully or with the channel      *)
(* closed by a failed worker.                                              *)
FenceCompletes == (main \in InFence) ~> (main \in {"idle", "error"})

=============================================================================
