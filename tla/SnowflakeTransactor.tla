------------------------- MODULE SnowflakeTransactor -------------------------
(***************************************************************************)
(* The transactor of materialize-snowflake (snowflake.go): Store stages   *)
(* each binding's documents as a file and records in the driver           *)
(* checkpoint the query (MERGE or COPY INTO) or the Snowpipe request that *)
(* will load it; the runtime commits that checkpoint to its recovery log; *)
(* Acknowledge then runs the queries, submits the pipe files and polls    *)
(* Snowpipe until they are loaded, removes the staged files and clears    *)
(* the checkpoint.  A crash at any point restarts the connector from the  *)
(* recovery log, and the runtime acknowledges the recovered checkpoint    *)
(* again: the recovery log is authoritative and Acknowledge is meant to   *)
(* be idempotent.                                                          *)
(*                                                                         *)
(* Data is abstracted to identities: the documents binding b stores in    *)
(* transaction n are the staged file <<b, n>>, and a table records how    *)
(* many times each transaction's documents were applied to it.  The Flow  *)
(* runtime, Snowflake and Snowpipe are the environment.                   *)
(***************************************************************************)
EXTENDS Naturals, Integers, FiniteSets, TLC

CONSTANTS
    Bindings,       \* the materialization's bindings (one table each)
    Delta,          \* the bindings with delta updates
    JWT,            \* key-pair authentication: delta bindings load via Snowpipe
    MaxTxns,        \* bound on the transactions the runtime stores
    MaxCrashes,     \* bound on crashes of the connector
    MaxLoadFailures,\* bound on Snowpipe load failures
    WaitSeconds,    \* Acknowledge's budget for insertReport results (5 * 60)
    RetrySeconds,   \* the delay between insertReport polls (3)
    Null

ASSUME /\ Delta \subseteq Bindings /\ JWT \in BOOLEAN
       /\ {MaxTxns, MaxCrashes, MaxLoadFailures} \subseteq Nat
       /\ WaitSeconds \in Nat /\ RetrySeconds \in Nat \ {0}

Txns  == 1..MaxTxns
Files == Bindings \X Txns              \* the staged directory <<b, n>>

(* addBinding: a delta binding gets a pipe name only with JWT auth.        *)
HasPipe(b) == b \in Delta /\ JWT

(* A checkpointItem: the transaction it loads and how it loads it.          *)
Item == [txn : Txns, kind : {"merge", "copy", "pipe"}]
File(b, item) == <<b, item.txn>>

(* What Store's iterator may hold for a binding: nothing, documents that  *)
(* do not exist in the table yet, or (standard updates only) documents    *)
(* that were loaded and exist.                                             *)
Docs(b) == IF b \in Delta THEN {"none", "new"} ELSE {"none", "new", "exists"}

(* Snowpipe's status of a requested file.                                  *)
Status == {"queued", "inProgress", "loaded", "failed"}

VARIABLES
    \* the Flow runtime
    log,            \* the driver checkpoint in the recovery log
    clearPending,   \* Acknowledged's state patch, not yet written to the log
    txn,            \* the transaction being stored (committed ones: < txn)
    committed,      \* history: the <<b, n>> whose item a commit made durable
    crashes,
    \* the transactor
    pc,             \* program point
    cp,             \* d.cp
    group,          \* query goroutines that have not run their query yet
    cleanup,        \* query goroutines that ran it and have not removed files
    pipeQueue,      \* pipe items Acknowledge has not submitted yet
    pipes,          \* Acknowledge's pipes map: binding -> pipeRecord
    tries, maxTries, iterLeft,  \* the insertReport polling loop
    \* Snowflake and Snowpipe
    stage,          \* staged files present
    loadHistory,    \* files loaded by COPY INTO or Snowpipe (load metadata)
    rows,           \* [b -> [n -> times transaction n was applied]]
    pipeCreated, pipeVisible,
    ingest,         \* Snowpipe: requested file -> status
    failures

vars == <<log, clearPending, txn, committed, crashes, pc, cp, group, cleanup,
          pipeQueue, pipes, tries, maxTries, iterLeft, stage, loadHistory,
          rows, pipeCreated, pipeVisible, ingest, failures>>

NoItems == [b \in Bindings |-> Null]

Applied(b, n) == rows[b][n] >= 1

(* The loop bound of Acknowledge's polling: (5 * 60) / (3 * len(pipes)).  *)
MaxTriesFor(npipes) == WaitSeconds \div (RetrySeconds * npipes)

-----------------------------------------------------------------------------
(* Init: a fresh connector whose recovery log holds no driver checkpoint. *)
(* The runtime's first call on a recovered connector is Acknowledge.       *)
Init ==
    /\ log = NoItems /\ clearPending = FALSE /\ txn = 1 /\ committed = {}
    /\ crashes = 0
    /\ pc = "ackStart" /\ cp = NoItems
    /\ group = {} /\ cleanup = {} /\ pipeQueue = {} /\ pipes = <<>>
    /\ tries = 0 /\ maxTries = 0 /\ iterLeft = {}
    /\ stage = {} /\ loadHistory = {}
    /\ rows = [b \in Bindings |-> [n \in Txns |-> 0]]
    /\ pipeCreated = {} /\ pipeVisible = {} /\ ingest = <<>> /\ failures = 0

PollVars  == <<tries, maxTries, iterLeft>>
EnvVars   == <<log, clearPending, txn, committed, crashes>>
SnowVars  == <<stage, loadHistory, rows, pipeCreated, pipeVisible, ingest, failures>>

(* pipeExists: SHOW PIPES lists a created pipe once it is visible.        *)
PipeExists(b) == b \in pipeVisible

(* copyHistory: the rows COPY_HISTORY has for the files, that is the      *)
(* files Snowpipe has picked up.                                          *)
CopyHistory(files) == {f \in files : f \in DOMAIN ingest /\ ingest[f] # "queued"}

(* pipeRecord.fileLoaded for each row or report file with a loaded status. *)
FileLoaded(files, S) == files \ {f \in S : ingest[f] = "loaded"}

(* deleteFiles: REMOVE of the staged directories.                         *)
DeleteFiles(dirs) == stage' = stage \ dirs

-----------------------------------------------------------------------------
(* Mutant: Acknowledge is started as soon as Store returns, before the    *)
(* runtime has committed the checkpoint.                                  *)
StoredPcAckFirst(waits) == IF waits = {} THEN "ackStart" ELSE "storeWait"

(* Store returns its StartCommitFunc, after waiting for new pipes.         *)
StoredPc(waits) == IF waits = {} THEN "stored" ELSE "storeWait"

(* Store: stage each binding's documents and build its checkpoint item:   *)
(* MERGE when some document exists, else the Snowpipe request for a pipe  *)
(* binding (creating the pipe if SHOW PIPES does not list it), else COPY  *)
(* INTO.  A binding whose stage was not started gets no item.             *)
Store ==
    /\ pc = "idle" /\ txn <= MaxTxns
    /\ \E docs \in [Bindings -> {"none", "new", "exists"}] :
         LET started == {b \in Bindings : docs[b] # "none"}
             Kind(b) == IF docs[b] = "exists" THEN "merge"
                        ELSE IF HasPipe(b) THEN "pipe" ELSE "copy"
             waits   == {b \in started : Kind(b) = "pipe" /\ ~PipeExists(b)}
         IN /\ \A b \in Bindings : docs[b] \in Docs(b)
            /\ stage' = stage \cup {<<b, txn>> : b \in started}
            /\ cp' = [b \in Bindings |-> IF b \in started
                                         THEN [txn |-> txn, kind |-> Kind(b)]
                                         ELSE cp[b]]
            /\ pipeCreated' = pipeCreated \cup waits
            /\ pc' = StoredPc(waits)
    /\ UNCHANGED <<EnvVars, group, cleanup, pipeQueue, pipes, PollVars,
                   loadHistory, rows, pipeVisible, ingest, failures>>

(* Store's wait for CREATE PIPE to become visible to SHOW PIPES.           *)
StoreWaitPipe ==
    /\ pc = "storeWait"
    /\ \A b \in Bindings : cp[b] # Null /\ cp[b].kind = "pipe" => PipeExists(b)
    /\ pc' = "stored"
    /\ UNCHANGED <<EnvVars, cp, group, cleanup, pipeQueue, pipes, PollVars, SnowVars>>

(* The runtime commits the transaction: Acknowledged's clearing patch of  *)
(* the previous transaction, then StartCommit's merge patch of d.cp, are  *)
(* written to the recovery log with the runtime checkpoint.               *)
ClearedLog == IF clearPending THEN NoItems ELSE log
StartCommit ==
    /\ pc = "stored"
    /\ log' = [b \in Bindings |-> IF cp[b] # Null THEN cp[b] ELSE ClearedLog[b]]
    /\ committed' = committed \cup {File(b, cp[b]) : b \in {c \in Bindings : cp[c] # Null}}
    /\ clearPending' = FALSE
    /\ txn' = txn + 1
    /\ pc' = "ackStart"
    /\ UNCHANGED <<crashes, cp, group, cleanup, pipeQueue, pipes, PollVars, SnowVars>>

-----------------------------------------------------------------------------
(* Acknowledge, dispatch: each query item starts a goroutine of the      *)
(* errgroup; pipe items are submitted by Acknowledge itself.              *)
AckDispatch ==
    /\ pc = "ackStart"
    /\ group' = {b \in Bindings : cp[b] # Null /\ cp[b].kind \in {"merge", "copy"}}
    /\ pipeQueue' = {b \in Bindings : cp[b] # Null /\ cp[b].kind = "pipe"}
    /\ pipes' = <<>>
    /\ pc' = "ackItems"
    /\ UNCHANGED <<EnvVars, cp, cleanup, PollVars, SnowVars>>

(* Mutant: COPY INTO with FORCE = TRUE, reloading files already loaded.   *)
RunQueryForce(b, item) ==
    LET f == File(b, item) IN
    /\ rows' = IF f \notin stage THEN rows
               ELSE IF item.kind = "merge"
                    THEN [rows EXCEPT ![b][item.txn] = IF @ = 0 THEN 1 ELSE @]
                    ELSE [rows EXCEPT ![b][item.txn] = @ + 1]
    /\ loadHistory' = IF item.kind = "copy" /\ f \in stage
                      THEN loadHistory \cup {f} ELSE loadHistory

(* A query goroutine runs its MERGE or COPY INTO.  MERGE upserts the      *)
(* staged documents (applying them again changes nothing); COPY INTO      *)
(* appends the staged files Snowflake's load metadata has not loaded.     *)
RunQuery(b, item) ==
    LET f == File(b, item) IN
    /\ rows' = IF f \notin stage THEN rows
               ELSE IF item.kind = "merge"
                    THEN [rows EXCEPT ![b][item.txn] = IF @ = 0 THEN 1 ELSE @]
               ELSE IF f \in loadHistory THEN rows
                    ELSE [rows EXCEPT ![b][item.txn] = @ + 1]
    /\ loadHistory' = IF item.kind = "copy" /\ f \in stage
                      THEN loadHistory \cup {f} ELSE loadHistory

(* Mutant: the staged files are removed before the query runs.           *)
QueryRemoveFirst(b) ==
    /\ pc = "ackItems" /\ b \in group
    /\ DeleteFiles({File(b, cp[b])})
    /\ group' = group \ {b}
    /\ cleanup' = cleanup \cup {b}
    /\ UNCHANGED <<EnvVars, pc, cp, pipeQueue, pipes, PollVars, loadHistory,
                   rows, pipeCreated, pipeVisible, ingest, failures>>

QueryExec(b) ==
    /\ pc = "ackItems" /\ b \in group
    /\ RunQuery(b, cp[b])
    /\ group' = group \ {b}
    /\ cleanup' = cleanup \cup {b}
    /\ UNCHANGED <<EnvVars, pc, cp, pipeQueue, pipes, PollVars, stage,
                   pipeCreated, pipeVisible, ingest, failures>>

(* The goroutine's deleteFiles of the staged directory.                   *)
QueryCleanup(b) ==
    /\ pc = "ackItems" /\ b \in cleanup
    /\ DeleteFiles({File(b, cp[b])})
    /\ cleanup' = cleanup \ {b}
    /\ UNCHANGED <<EnvVars, pc, cp, group, pipeQueue, pipes, PollVars,
                   loadHistory, rows, pipeCreated, pipeVisible, ingest, failures>>

(* insertFiles: Snowpipe queues each file it has not loaded and is not    *)
(* loading already; the pipe is recorded with its files.                  *)
InsertFiles(b) ==
    /\ pc = "ackItems" /\ b \in pipeQueue
    /\ LET f == File(b, cp[b]) IN
       /\ ingest' = IF f \in loadHistory \/ (f \in DOMAIN ingest /\ ingest[f] \in {"queued", "inProgress"})
                    THEN ingest
                    ELSE (f :> "queued") @@ ingest
       /\ pipes' = (b :> [files |-> {f}, dir |-> f]) @@ pipes
    /\ pipeQueue' = pipeQueue \ {b}
    /\ UNCHANGED <<EnvVars, pc, cp, group, cleanup, PollVars, stage,
                   loadHistory, rows, pipeCreated, pipeVisible, failures>>

(* group.Wait, then the polling loop's set-up: maxTries from the number   *)
(* of pipes; a zero bound skips the loop.                                 *)
GroupWait ==
    /\ pc = "ackItems" /\ group = {} /\ cleanup = {} /\ pipeQueue = {}
    /\ LET m == IF DOMAIN pipes = {} THEN 0 ELSE MaxTriesFor(Cardinality(DOMAIN pipes)) IN
       /\ maxTries' = m
       /\ tries' = 0
       /\ iterLeft' = IF 0 < m THEN DOMAIN pipes ELSE {}
       /\ pc' = IF 0 < m THEN "poll" ELSE "clear"
    /\ UNCHANGED <<EnvVars, cp, group, cleanup, pipeQueue, pipes, SnowVars>>
-----------------------------------------------------------------------------
(* An error return from Acknowledge: the connector exits, and the runtime *)
(* restarts it.                                                           *)
Fail ==
    /\ pc' = "down"
    /\ clearPending' = FALSE

(* Mutant: insertReport's LOAD_FAILED is treated as LOAD_IN_PROGRESS, so *)
(* a failed file is waited for while the report shows it.               *)
PollPipeFailedAsInProgress(p) ==
    LET rec      == pipes[p]
        Seen     == CopyHistory(rec.files)
        Failed(S) == {}
        Finish(left) ==
            /\ pipes' = [pipes EXCEPT ![p].files = left]
            /\ IF left = {} THEN DeleteFiles({rec.dir}) ELSE UNCHANGED stage
    IN
    /\ pc = "poll" /\ p \in iterLeft
    /\ iterLeft' = iterLeft \ {p}
    /\ IF rec.files = {}
       THEN UNCHANGED <<EnvVars, pc, pipes, tries, stage>>
       ELSE \E report \in SUBSET Seen :
            CASE report = {} /\ tries < maxTries - 1 ->
                   UNCHANGED <<EnvVars, pc, pipes, tries, stage>>
              [] report = {} /\ Failed(Seen) # {} ->
                   Fail /\ UNCHANGED <<log, txn, committed, crashes, pipes, tries, stage>>
              [] report = {} /\ \E f \in Seen : ingest[f] = "inProgress" ->
                   /\ pipes' = [pipes EXCEPT ![p].files = FileLoaded(@, Seen)]
                   /\ tries' = tries - 1
                   /\ UNCHANGED <<EnvVars, pc, stage>>
              [] report = {} /\ FileLoaded(rec.files, Seen) # {} ->
                   Fail /\ UNCHANGED <<log, txn, committed, crashes, pipes, tries, stage>>
              [] report = {} ->
                   Finish({}) /\ UNCHANGED <<EnvVars, pc, tries>>
              [] Failed(report) # {} ->
                   Fail /\ tries' = 0
                   /\ UNCHANGED <<log, txn, committed, crashes, pipes, stage>>
              [] OTHER ->
                   Finish(FileLoaded(rec.files, report))
                   /\ tries' = 0 /\ UNCHANGED <<EnvVars, pc>>
    /\ UNCHANGED <<cp, group, cleanup, pipeQueue, maxTries, loadHistory, rows,
                   pipeCreated, pipeVisible, ingest, failures>>

(* One pipe of one pass of the polling loop.  An empty pipeRecord is      *)
(* skipped.  insertReport may show any of the pipe's files Snowpipe has   *)
(* picked up, or nothing (it lags, and keeps events for ten minutes).     *)
(* With no report, the loop sleeps until its last try, then asks          *)
(* COPY_HISTORY: a failed file is an error, loaded files leave the        *)
(* record, a file still loading makes the pass not count (tries--), and a *)
(* file copy history does not know is an error.  A report resets tries;  *)
(* LOADED files leave the record and LOAD_FAILED is an error.  A record   *)
(* left empty has its staged directory removed.                           *)
PollPipe(p) ==
    LET rec      == pipes[p]
        Seen     == CopyHistory(rec.files)
        Failed(S) == {f \in S : ingest[f] = "failed"}
        Finish(left) ==
            /\ pipes' = [pipes EXCEPT ![p].files = left]
            /\ IF left = {} THEN DeleteFiles({rec.dir}) ELSE UNCHANGED stage
    IN
    /\ pc = "poll" /\ p \in iterLeft
    /\ iterLeft' = iterLeft \ {p}
    /\ IF rec.files = {}
       THEN UNCHANGED <<EnvVars, pc, pipes, tries, stage>>
       ELSE \E report \in SUBSET Seen :
            CASE report = {} /\ tries < maxTries - 1 ->
                   UNCHANGED <<EnvVars, pc, pipes, tries, stage>>
              [] report = {} /\ Failed(Seen) # {} ->
                   Fail /\ UNCHANGED <<log, txn, committed, crashes, pipes, tries, stage>>
              [] report = {} /\ \E f \in Seen : ingest[f] = "inProgress" ->
                   /\ pipes' = [pipes EXCEPT ![p].files = FileLoaded(@, Seen)]
                   /\ tries' = tries - 1
                   /\ UNCHANGED <<EnvVars, pc, stage>>
              [] report = {} /\ FileLoaded(rec.files, Seen) # {} ->
                   Fail /\ UNCHANGED <<log, txn, committed, crashes, pipes, tries, stage>>
              [] report = {} ->
                   Finish({}) /\ UNCHANGED <<EnvVars, pc, tries>>
              [] Failed(report) # {} ->
                   Fail /\ tries' = 0
                   /\ UNCHANGED <<log, txn, committed, crashes, pipes, stage>>
              [] OTHER ->
                   Finish(FileLoaded(rec.files, report))
                   /\ tries' = 0 /\ UNCHANGED <<EnvVars, pc>>
    /\ UNCHANGED <<cp, group, cleanup, pipeQueue, maxTries, loadHistory, rows,
                   pipeCreated, pipeVisible, ingest, failures>>

(* The end of a pass: tries++ and the loop condition.                     *)
NextTry ==
    /\ pc = "poll" /\ iterLeft = {}
    /\ tries' = tries + 1
    /\ IF tries + 1 < maxTries
       THEN iterLeft' = DOMAIN pipes /\ UNCHANGED pc
       ELSE pc' = "clear" /\ UNCHANGED iterLeft
    /\ UNCHANGED <<EnvVars, cp, group, cleanup, pipeQueue, pipes, maxTries, SnowVars>>

(* The end of Acknowledge: every binding's key is deleted from d.cp and   *)
(* set to null in the returned merge patch.                               *)
AckClear ==
    /\ pc = "clear"
    /\ cp' = NoItems
    /\ clearPending' = TRUE
    /\ pc' = "idle"
    /\ UNCHANGED <<log, txn, committed, crashes, group, cleanup, pipeQueue,
                   pipes, PollVars, SnowVars>>

-----------------------------------------------------------------------------
(* The environment.  The runtime writes Acknowledged's state on its own   *)
(* (it is also written with the next commit, see StartCommit).            *)
AckPersist ==
    /\ clearPending
    /\ log' = NoItems /\ clearPending' = FALSE
    /\ UNCHANGED <<txn, committed, crashes, pc, cp, group, cleanup, pipeQueue,
                   pipes, PollVars, SnowVars>>

(* The connector process dies; what was not in the recovery log is lost.  *)
Crash ==
    /\ pc # "down" /\ crashes < MaxCrashes
    /\ crashes' = crashes + 1
    /\ Fail
    /\ UNCHANGED <<log, txn, committed, cp, group, cleanup, pipeQueue, pipes,
                   PollVars, SnowVars>>

(* The runtime restarts the connector: UnmarshalState reads the driver    *)
(* checkpoint into d.cp and the recovered commit is acknowledged; the     *)
(* uncommitted transaction will be stored again under the same number.    *)
Recover ==
    /\ pc = "down"
    /\ cp' = log
    /\ pc' = "ackStart"
    /\ group' = {} /\ cleanup' = {} /\ pipeQueue' = {} /\ pipes' = <<>>
    /\ tries' = 0 /\ maxTries' = 0 /\ iterLeft' = {}
    /\ UNCHANGED <<EnvVars, SnowVars>>

PipeBecomesVisible(b) ==
    /\ b \in pipeCreated \ pipeVisible
    /\ pipeVisible' = pipeVisible \cup {b}
    /\ UNCHANGED <<EnvVars, pc, cp, group, cleanup, pipeQueue, pipes, PollVars,
                   stage, loadHistory, rows, pipeCreated, ingest, failures>>

(* Snowpipe picks up a queued file, and loads it: a file gone from the    *)
(* stage fails; a load may also fail (bounded).                           *)
SnowpipeStart(f) ==
    /\ f \in DOMAIN ingest /\ ingest[f] = "queued"
    /\ ingest' = [ingest EXCEPT ![f] = "inProgress"]
    /\ UNCHANGED <<EnvVars, pc, cp, group, cleanup, pipeQueue, pipes, PollVars,
                   stage, loadHistory, rows, pipeCreated, pipeVisible, failures>>

SnowpipeLoad(f) ==
    /\ f \in DOMAIN ingest /\ ingest[f] = "inProgress" /\ f \in stage
    /\ ingest' = [ingest EXCEPT ![f] = "loaded"]
    /\ loadHistory' = loadHistory \cup {f}
    /\ rows' = [rows EXCEPT ![f[1]][f[2]] = @ + 1]
    /\ UNCHANGED <<EnvVars, pc, cp, group, cleanup, pipeQueue, pipes, PollVars,
                   stage, pipeCreated, pipeVisible, failures>>

SnowpipeFail(f) ==
    /\ f \in DOMAIN ingest /\ ingest[f] = "inProgress"
    /\ f \notin stage \/ failures < MaxLoadFailures
    /\ ingest' = [ingest EXCEPT ![f] = "failed"]
    /\ failures' = IF f \in stage THEN failures + 1 ELSE failures
    /\ UNCHANGED <<EnvVars, pc, cp, group, cleanup, pipeQueue, pipes, PollVars,
                   stage, loadHistory, rows, pipeCreated, pipeVisible>>

(* All transactions are stored and acknowledged.                          *)
Done ==
    /\ pc = "idle" /\ txn > MaxTxns
    /\ UNCHANGED vars

-----------------------------------------------------------------------------
Transactor ==
    \/ Store \/ StoreWaitPipe \/ AckDispatch \/ GroupWait \/ NextTry \/ AckClear
    \/ \E b \in Bindings : QueryExec(b) \/ QueryCleanup(b) \/ InsertFiles(b) \/ PollPipe(b)

Snowpipe ==
    \E f \in Files : SnowpipeStart(f) \/ SnowpipeLoad(f)

Next ==
    \/ Transactor \/ StartCommit \/ AckPersist \/ Crash \/ Recover \/ Done
    \/ Snowpipe \/ (\E f \in Files : SnowpipeFail(f))
    \/ \E b \in Bindings : PipeBecomesVisible(b)

Spec == Init /\ [][Next]_vars

(* Fairness: the connector's goroutines run (every step of Acknowledge    *)
(* and the pipe wait of Store); the runtime commits what was stored and   *)
(* restarts a failed connector; Snowflake makes a created pipe visible    *)
(* and Snowpipe processes what it queued.  Not fair: new transactions,    *)
(* crashes, load failures, the runtime's own write of Acknowledged.       *)
Fairness ==
    /\ WF_vars(Transactor /\ ~Store)
    /\ WF_vars(StartCommit) /\ WF_vars(Recover)
    /\ WF_vars(Snowpipe) /\ WF_vars(\E b \in Bindings : PipeBecomesVisible(b))

LiveSpec == Spec /\ Fairness

-----------------------------------------------------------------------------
(* Types.  A table receives each transaction's documents at most once:    *)
(* MERGE is an upsert and COPY INTO and Snowpipe skip files Snowflake's   *)
(* load metadata lists, so a re-run Acknowledge appends nothing twice.    *)
TypeOK ==
    /\ log \in [Bindings -> Item \cup {Null}] /\ cp \in [Bindings -> Item \cup {Null}]
    /\ clearPending \in BOOLEAN /\ txn \in 1..MaxTxns + 1 /\ committed \subseteq Files
    /\ pc \in {"idle", "storeWait", "stored", "ackStart", "ackItems", "poll", "clear", "down"}
    /\ group \cup cleanup \cup pipeQueue \subseteq Bindings
    /\ DOMAIN pipes \subseteq Bindings /\ iterLeft \subseteq DOMAIN pipes
    /\ tries \in -1..maxTries
    /\ stage \subseteq Files /\ loadHistory \subseteq Files
    /\ rows \in [Bindings -> [Txns -> {0, 1}]]
    /\ DOMAIN ingest \subseteq Files /\ \A f \in DOMAIN ingest : ingest[f] \in Status

(* No committed transaction is lost: once the runtime has committed the   *)
(* checkpoint item of binding b's documents of transaction n, they are in *)
(* b's table, or Snowpipe is loading them from the stage, or the recovery *)
(* log still holds that item and its staged files, so that Acknowledge    *)
(* after a restart loads them.  Acknowledge clears the item and removes   *)
(* the files only after the load is confirmed.                            *)
NoLostTransaction ==
    \A <<b, n>> \in committed :
        \/ Applied(b, n)
        \/ <<b, n>> \in stage /\ <<b, n>> \in DOMAIN ingest
           /\ ingest[<<b, n>>] \in {"queued", "inProgress"}
        \/ <<b, n>> \in stage /\ log[b] # Null /\ log[b].txn = n

(* Every committed transaction is eventually in its table: Acknowledge,   *)
(* re-run after every crash and error, retries a failed Snowpipe load and *)
(* waits for one in progress, under the fairness above.                   *)
CommittedEventuallyApplied ==
    \A b \in Bindings, n \in Txns : <<b, n>> \in committed ~> Applied(b, n)

(* The transactor implements MaterializedTables: across crashes, restarts, *)
(* re-run Acknowledges, Snowpipe retries and its pipe polling, a table    *)
(* only ever receives the documents of a transaction whose checkpoint the *)
(* runtime committed (Acknowledge runs only on a committed or recovered   *)
(* d.cp), and receives them once.                                         *)
Tables == INSTANCE MaterializedTables
TablesSpec == Tables!Spec
====
