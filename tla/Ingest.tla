------------------------------- MODULE Ingest -------------------------------
(***************************************************************************)
(* The stateful half of log ingestion (internal/ingest): concurrent        *)
(* requests and client retries against the in-memory table of batch ids,   *)
(* the bounded pool that runs the side effects of an accepted batch, and   *)
(* the logs connector the first batch brings up.                           *)
(***************************************************************************)
EXTENDS Integers, Sequences, FiniteSets, Functions

CONSTANTS Batches,        \* X-Batch-IDs clients use
          Attempts,       \* tries a client makes of one batch
          MaxTracked,     \* maxTrackedBatches
          PoolWorkers, PoolJobs, MaxQueuedEntries

ASSUME IngestLimits == IsFiniteSet(Batches) /\ Attempts \in Nat /\ MaxTracked \in Nat \ {0}

Requests == Batches \X (1..Attempts)

VARIABLES
  req,        \* request -> how far it is
  size,       \* batch -> entries that survive sampling
  batchOrder, \* batchSeen in FIFO order
  stored,     \* batch -> times its entries were written
  pool,       \* "up", "closed", "drained" or "expired" (StopPostProcessor returned)
  jobs, queued, busy,
  processed,  \* request -> times its side effects ran
  conn,       \* the registry has a logs connector
  overlapped  \* batches retried while an attempt was still writing, or forgotten
ingestVars == <<req, size, batchOrder, stored, pool, jobs, queued, busy, processed,
                conn, overlapped>>

Writing(r) == req[r] \in {"checked", "inserted"}
Answered == {"created", "sampled", "dup", "error"}
ReqStep(r, from, to) == req[r] = from /\ req' = [req EXCEPT ![r] = to]

IngestInit ==
  /\ req = [r \in Requests |-> "idle"]
  /\ size \in [Batches -> 0..1]
  /\ batchOrder = <<>> /\ stored = [b \in Batches |-> 0]
  /\ pool = "up" /\ jobs = <<>> /\ queued = 0 /\ busy = {}
  /\ processed = [r \in Requests |-> 0]
  /\ conn = FALSE
  /\ overlapped = {}

GetBatch(b) == b \in Range(batchOrder)

\* checkBatchDup.  A client sends attempt k + 1 once attempt k was answered with
\* an error or it gave up waiting for it; the answer to a timed-out attempt is
\* lost, the handler runs on.
checkBatchDup(r) ==
  /\ req[r] = "idle"
  /\ r[2] > 1 => req[<<r[1], r[2] - 1>>] # "idle"
  /\ IF GetBatch(r[1])
       THEN req' = [req EXCEPT ![r] = "dup"] /\ UNCHANGED overlapped
       ELSE /\ req' = [req EXCEPT ![r] = "checked"]
            /\ overlapped' = IF \E k \in 1..(r[2] - 1) : Writing(<<r[1], k>>)
                               THEN overlapped \cup {r[1]} ELSE overlapped
  /\ UNCHANGED <<size, batchOrder, stored, pool, jobs, queued, busy, processed, conn>>

\* storeAndRespond up to the insert, which may fail.
InsertBatch(r) ==
  /\ Writing(r)
  /\ \/ /\ ReqStep(r, "checked", "inserted")
        /\ stored' = [stored EXCEPT ![r[1]] = @ + size[r[1]]]
     \/ ReqStep(r, "checked", "error") /\ UNCHANGED stored
  /\ UNCHANGED <<size, batchOrder, pool, jobs, queued, busy, processed, conn, overlapped>>

RecordId(order, b) == IF b \in Range(order) THEN order ELSE Append(order, b)
EvictOldest(order) == IF Len(order) > MaxTracked THEN Tail(order) ELSE order
ForgottenIds == Range(batchOrder) \ Range(batchOrder')

\* RecordBatch, with its eviction; an empty batch is answered at once.
RecordBatch(r) ==
  /\ ReqStep(r, "inserted", IF size[r[1]] = 0 THEN "sampled" ELSE "recorded")
  /\ batchOrder' = EvictOldest(RecordId(batchOrder, r[1]))
  /\ overlapped' = overlapped \cup ForgottenIds
  /\ UNCHANGED <<size, stored, pool, jobs, queued, busy, processed, conn>>

\* PruneBatches of the retention job: any prefix of the table has expired.
PruneBatches ==
  /\ batchOrder # <<>>
  /\ \E k \in 1..Len(batchOrder) : batchOrder' = SubSeq(batchOrder, k + 1, Len(batchOrder))
  /\ overlapped' = overlapped \cup ForgottenIds
  /\ UNCHANGED <<req, size, stored, pool, jobs, queued, busy, processed, conn>>

\* ensureLogsConnector: a registered connector ends it; otherwise, under its
\* mutex, listing or creating the row may fail.
ensureLogsConnector(r) ==
  /\ ReqStep(r, "recorded", "connected")
  /\ conn' \in {conn, TRUE}
  /\ UNCHANGED <<size, batchOrder, stored, pool, jobs, queued, busy, processed, overlapped>>

PoolHasRoom(r) == pool = "up" /\ queued + size[r[1]] <= MaxQueuedEntries /\ Len(jobs) < PoolJobs

\* Mutant: a full queue drops the job instead of running it inline.
enqueuePostprocessDropping(r) ==
  /\ IF PoolHasRoom(r)
       THEN ReqStep(r, "connected", "sent") /\ jobs' = Append(jobs, r)
       ELSE ReqStep(r, "connected", "created") /\ UNCHANGED jobs
  /\ UNCHANGED <<size, batchOrder, stored, pool, queued, busy, processed, conn, overlapped>>

\* enqueuePostprocess: the send, under the read lock that is held to "counted";
\* without room the work is done by the request.
enqueuePostprocess(r) ==
  /\ IF PoolHasRoom(r)
       THEN ReqStep(r, "connected", "sent") /\ jobs' = Append(jobs, r)
       ELSE ReqStep(r, "connected", "inline") /\ UNCHANGED jobs
  /\ UNCHANGED <<size, batchOrder, stored, pool, queued, busy, processed, conn, overlapped>>

\* The counter is raised after the send, so a worker may lower it first.
CountQueued(r) ==
  /\ ReqStep(r, "sent", "created")
  /\ queued' = queued + size[r[1]]
  /\ UNCHANGED <<size, batchOrder, stored, pool, jobs, busy, processed, conn, overlapped>>

ProcessInline(r) ==
  /\ ReqStep(r, "inline", "created")
  /\ processed' = [processed EXCEPT ![r] = @ + 1]
  /\ UNCHANGED <<size, batchOrder, stored, pool, jobs, queued, busy, conn, overlapped>>

WorkerTake ==
  /\ jobs # <<>> /\ Cardinality(busy) < PoolWorkers
  /\ busy' = busy \cup {Head(jobs)} /\ jobs' = Tail(jobs)
  /\ UNCHANGED <<req, size, batchOrder, stored, pool, queued, processed, conn, overlapped>>

\* processAfterInsert of a job, ended or recovered from a panic by safe.Run.
WorkerDone ==
  \E r \in busy :
    /\ busy' = busy \ {r}
    /\ processed' = [processed EXCEPT ![r] = @ + 1]
    /\ queued' = queued - size[r[1]]
    /\ UNCHANGED <<req, size, batchOrder, stored, pool, jobs, conn, overlapped>>

\* StopPostProcessor takes the write lock, so no request is between send and count.
StopPostProcessor ==
  /\ \/ /\ pool = "up" /\ \A r \in Requests : req[r] # "sent"
        /\ pool' = "closed"
     \/ pool = "closed" /\ jobs = <<>> /\ busy = {} /\ pool' = "drained"
     \/ pool = "closed" /\ pool' = "expired"
  /\ UNCHANGED <<req, size, batchOrder, stored, jobs, queued, busy, processed, conn, overlapped>>

IngestNext ==
  \/ \E r \in Requests :
       \/ checkBatchDup(r) \/ InsertBatch(r) \/ RecordBatch(r) \/ ensureLogsConnector(r)
       \/ enqueuePostprocess(r) \/ CountQueued(r) \/ ProcessInline(r)
  \/ PruneBatches \/ WorkerTake \/ WorkerDone \/ StopPostProcessor

IngestSpec == IngestInit /\ [][IngestNext]_ingestVars

IngestTypeOK ==
  /\ req \in [Requests -> Answered \cup {"idle", "checked", "inserted", "recorded",
                                         "connected", "sent", "inline"}]
  /\ Range(batchOrder) \subseteq Batches /\ IsInjective(batchOrder)
  /\ queued \in -Cardinality(Requests)..Cardinality(Requests)
  /\ Range(jobs) \cup busy \subseteq Requests

\* The side effects of an accepted batch (error groups, watches, deploys,
\* traces) run exactly once, whether pool, full queue or shutdown took the
\* batch; the entry counter that bounds the queue never drifts.
PostprocessedOnce ==
  /\ \A r \in Requests :
       LET held == processed[r] + Cardinality({i \in DOMAIN jobs : jobs[i] = r})
                   + (IF r \in busy THEN 1 ELSE 0)
       IN /\ held <= 1
          /\ (req[r] \in {"created", "sent"} <=> held = 1) \/ req[r] = "inline"
  /\ pool = "drained" => jobs = <<>> /\ busy = {}
  /\ (\A r \in Requests : req[r] # "sent") =>
       queued = Cardinality({r \in Requests : r \in busy \cup Range(jobs)})

\* A batch answered as a duplicate was really written (or sampled away) before,
\* and a batch is written twice only when a retry overtook an attempt still
\* writing it or the table had already forgotten it (handler.go:305).
BatchDedup ==
  \A b \in Batches :
    /\ (\E k \in 1..Attempts : req[<<b, k>>] = "dup") =>
         \E k \in 1..Attempts : req[<<b, k>>] \notin {"idle", "checked", "inserted", "dup", "error"}
    /\ b \notin overlapped => stored[b] <= 1

=============================================================================
