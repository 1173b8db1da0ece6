---------------------------- MODULE IngestBuffers ----------------------------
(***************************************************************************)
(* Two small pieces of state the ingest handlers keep (internal/ingest):   *)
(* the cached sampling rules, and the opt-in queue that acknowledges       *)
(* entries before they are written.                                        *)
(***************************************************************************)
EXTENDS Integers, Sequences, FiniteSets, FiniteSetsExt

(* cachedSamplingRules: rules are read from the settings at most once per  *)
(* TTL, and a failed read keeps the last known ones for a shorter one.     *)
CONSTANTS SamplingTTL, SamplingErrorTTL,   \* samplingCacheTTL and its error twin
          QueueSize, QueueBatch            \* the queue's maxQueueSize, maxBatchSize

ASSUME BufferLimits ==
  /\ SamplingTTL \in Nat /\ SamplingErrorTTL \in 0..SamplingTTL
  /\ QueueSize \in Nat /\ QueueBatch \in Nat \ {0}

VARIABLES rules,     \* the rules in the settings: a version number
          cached,    \* the version the handler holds, -1 before the first read
          expires,   \* ticks until the cached rules expire
          current    \* ticks for which rules has been what it is, and readable
samplingVars == <<rules, cached, expires, current>>

NoRules == -1    \* compileSamplingRules(nil): keep everything

SamplingInit == rules = 0 /\ cached = NoRules /\ expires = 0 /\ current = 0

SetSamplingRules ==
  rules < 2 /\ rules' = rules + 1 /\ current' = 0 /\ UNCHANGED <<cached, expires>>

SamplingTick ==
  /\ expires' = Max({0, expires - 1})
  /\ current' = Min({current + 1, SamplingTTL + 1})
  /\ UNCHANGED <<rules, cached>>

\* A call that finds the rules expired, and whether the settings could be read.
cachedSamplingRules(ok) ==
  /\ expires = 0
  /\ cached' = IF ok THEN rules ELSE cached
  /\ expires' = IF ok THEN SamplingTTL ELSE SamplingErrorTTL
  /\ current' = IF ok THEN current ELSE 0
  /\ UNCHANGED rules

SamplingNext ==
  \/ SetSamplingRules \/ SamplingTick
  \/ cachedSamplingRules(TRUE) \/ cachedSamplingRules(FALSE)

\* Rules that have stood for longer than the TTL without a failed read are the
\* ones applied: a cached set is either the current one or already expired.
SamplingFresh == current > SamplingTTL => expires = 0 \/ cached = rules

-----------------------------------------------------------------------------
(* Queue: acknowledged entries wait in a buffer for a flush.               *)
VARIABLES qbuf,      \* the buffer: entries 1, 2, ...
          qflight,   \* the flushes in progress: [by, rows]
          qwait,     \* Enqueue calls that found no room: [batch, flushed]
          qstop,     \* "no", "stopped" (no more buffering), "final", "done"
          qsent,     \* entries handed to Enqueue
          qstored, qdropped, qrefused
queueVars == <<qbuf, qflight, qwait, qstop, qsent, qstored, qdropped, qrefused>>
QueueEntries == 1..4

QueueInit ==
  /\ qbuf = <<>> /\ qflight = {} /\ qwait = {} /\ qstop = "no"
  /\ qsent = 0 /\ qstored = {} /\ qdropped = {} /\ qrefused = {}

\* tryBuffer: all or nothing.
tryBuffer(b) == QueueSize - Len(qbuf) >= Len(b)
\* The buffer becomes a flush of the final one, of the timer or a caller at the
\* batch size, or of the caller that waits with the batch.
FinalFlush == -1
AnyFlush == 0
TakeBuffer(by) ==
  /\ qflight' = IF qbuf = <<>> THEN qflight ELSE qflight \cup {[by |-> by, rows |-> qbuf]}
  /\ qbuf' = <<>>
\* The synchronous BatchInsert, whose error the caller gets.
InsertNow(b) ==
  \/ qstored' = qstored \cup Range(b) /\ UNCHANGED qrefused
  \/ qrefused' = qrefused \cup Range(b) /\ UNCHANGED qstored

\* Enqueue of the next n entries: inserted at once when the queue is stopped,
\* buffered when they fit.  A depth of QueueBatch makes the caller flush: that is
\* Flush below.
Enqueue(n) ==
  LET b == [i \in 1..n |-> qsent + i] IN
  /\ qsent + n \in QueueEntries /\ qsent' = qsent + n
  /\ \/ qstop # "no" /\ InsertNow(b) /\ UNCHANGED <<qbuf, qwait>>
     \/ qstop = "no" /\ tryBuffer(b) /\ qbuf' = qbuf \o b /\ UNCHANGED <<qwait, qstored, qrefused>>
     \/ /\ qstop = "no" /\ ~tryBuffer(b)
        /\ qwait' = qwait \cup {[batch |-> b, flushed |-> FALSE]}
        /\ UNCHANGED <<qbuf, qstored, qrefused>>
  /\ UNCHANGED <<qflight, qstop, qdropped>>
\* The flush of a call that found no room, ...
FlushForRoom ==
  \E w \in qwait :
    /\ ~w.flushed /\ qwait' = (qwait \ {w}) \cup {[w EXCEPT !.flushed = TRUE]}
    /\ TakeBuffer(w.batch[1])
    /\ UNCHANGED <<qstop, qsent, qstored, qdropped, qrefused>>
\* ... and, when that has ended, the whole batch again: buffered if it fits now,
\* else inserted.
EnqueueRetry ==
  \E w \in qwait :
    /\ w.flushed /\ \A f \in qflight : f.by # w.batch[1]
    /\ qwait' = qwait \ {w}
    /\ IF qstop = "no" /\ tryBuffer(w.batch)
         THEN qbuf' = qbuf \o w.batch /\ UNCHANGED <<qstored, qrefused>>
         ELSE InsertNow(w.batch) /\ UNCHANGED qbuf
    /\ UNCHANGED <<qflight, qstop, qsent, qdropped>>

\* Flush by the timer or by a caller, and the final one of flushLoop.
Flush ==
  /\ \/ qbuf # <<>> /\ TakeBuffer(AnyFlush) /\ UNCHANGED qstop
     \/ qstop = "stopped" /\ qstop' = "final" /\ TakeBuffer(FinalFlush)
  /\ UNCHANGED <<qwait, qsent, qstored, qdropped, qrefused>>

\* requeueOrDrop: back to the front of the buffer, or dropped and counted.
requeueOrDrop(chunk) ==
  IF qstop = "no" /\ QueueSize - Len(qbuf) >= Len(chunk)
    THEN qbuf' = chunk \o qbuf /\ UNCHANGED qdropped
    ELSE qdropped' = qdropped \cup Range(chunk) /\ UNCHANGED qbuf

\* flushBatch writes one chunk of at most QueueBatch, or gives up on it after
\* flushMaxAttempts.
flushBatch ==
  \E f \in qflight :
    LET chunk == SubSeq(f.rows, 1, Min({QueueBatch, Len(f.rows)}))
        rest == SubSeq(f.rows, Len(chunk) + 1, Len(f.rows))
    IN /\ qflight' = (qflight \ {f}) \cup (IF rest = <<>> THEN {} ELSE {[f EXCEPT !.rows = rest]})
       /\ \/ qstored' = qstored \cup Range(chunk) /\ UNCHANGED <<qbuf, qdropped>>
          \/ requeueOrDrop(chunk) /\ UNCHANGED qstored
       /\ UNCHANGED <<qwait, qstop, qsent, qrefused>>

\* Queue.Stop, and the end of its wait for the final flush (not for others).
StopQueue ==
  /\ \/ qstop = "no" /\ qstop' = "stopped"
     \/ qstop = "final" /\ (\A f \in qflight : f.by # FinalFlush) /\ qstop' = "done"
  /\ UNCHANGED <<qbuf, qflight, qwait, qsent, qstored, qdropped, qrefused>>

QueueNext == \/ \E n \in {1, 3} : Enqueue(n)
             \/ FlushForRoom \/ EnqueueRetry \/ Flush \/ flushBatch \/ StopQueue

\* Every entry handed to the queue is in exactly one place (with a call that waits
\* for room, buffered, in a flush, stored, counted as dropped, or refused, as its
\* caller was told), and none is buffered after the stop.
QueueAccounts ==
  LET waiting == UNION {Range(w.batch) : w \in qwait}
      flying == UNION {Range(f.rows) : f \in qflight}
      places == <<waiting, Range(qbuf), flying, qstored, qdropped, qrefused>>
  IN
  /\ UNION Range(places) = 1..qsent
  /\ \A i, j \in DOMAIN places : i # j => places[i] \cap places[j] = {}
  /\ Len(qbuf) <= QueueSize
  /\ qstop \in {"final", "done"} => qbuf = <<>>
=============================================================================
