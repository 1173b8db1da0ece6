--------------------------- MODULE JobQueue_proofs ---------------------------
(***************************************************************************)
(* The job queue's safety properties for any number of jobs, types and     *)
(* attempts, with failing statements, slow handlers, crashes and restarts. *)
(***************************************************************************)
EXTENDS JobQueue, IngestBuffers, TLAPS

-----------------------------------------------------------------------------
(* The job queue.                                                          *)
(* Every run so far has been charged to the job's attempts, except the one *)
(* under way or the one that completed it.                                 *)
ChargedRow(j) ==
    /\ status[j] \in {"none", "pending", "running", "completed"}
          => attempts[j] < MaxAttempts
    /\ status[j] \in {"none", "pending", "dead"} => runs[j] <= attempts[j]
    /\ status[j] \in {"running", "completed"} => runs[j] <= attempts[j] + 1
    /\ status[j] = "pruned" => runs[j] <= MaxAttempts
    /\ j > inserted => status[j] = "none"
Charged == \A j \in JobIds : ChargedRow(j)

(* While its context lives, the worker's job is running and not stale.     *)
Claimed ==
    /\ mode = "down" => phase = "idle"
    /\ phase # "idle" /\ ctxLive => status[job] = "running" /\ ~stale[job]

(* A scheduler about to insert has no unfinished job of its type.          *)
Single ==
    \A t \in Scheduled :
        /\ \A i, j \in Active(t) : i = j
        /\ sched[t] = "inserting" => Active(t) = {}

IInv == TypeOK /\ Charged /\ Claimed /\ Single

(* What a reap does: some rows of R die, others are to be run again.       *)
LEMMA Reaped ==
    ASSUME NEW R \in SUBSET JobIds, ReapOrphaned(R), TypeOK
    PROVE  \E D, S \in SUBSET R :
              /\ TakeBack(D, S)
              /\ \A j \in S : j \notin D /\ attempts[j] + 1 < MaxAttempts
<1> DEFINE D == {j \in R : attempts[j] + 1 >= MaxAttempts}
<1>1. D \in SUBSET R /\ R \ D \in SUBSET R /\ {} \in SUBSET R
  OBVIOUS
<1>2. \A j \in R \ D : j \notin D /\ attempts[j] + 1 < MaxAttempts
  BY ConstantsAssumption DEF TypeOK
<1>3. TakeBack(D, R \ D) \/ TakeBack(D, {})
  BY DEF ReapOrphaned
<1> HIDE DEF D
<1> QED
  BY <1>1, <1>2, <1>3

(* Every column keeps its type.                                            *)
LEMMA TypeStep == IInv /\ [JobsNext]_vars => TypeOK'
<1> SUFFICES ASSUME IInv, [JobsNext]_vars PROVE TypeOK'
  OBVIOUS
<1> USE ConstantsAssumption
    DEF IInv, TypeOK, Charged, ChargedRow, Claimed, JobIds, Types, Statuses,
        vars, process, table, worker
<1>1. ASSUME NEW t \in Scheduled, MaybeEnqueue(t) PROVE TypeOK'
  BY <1>1 DEF MaybeEnqueue
<1>2. ASSUME NEW t \in Scheduled, EnqueueJob(t) PROVE TypeOK'
  <2>1. CASE Insert(t, TRUE)
    <3>1. inserted + 1 \in JobIds /\ inserted + 1 \in 0 .. MaxJobs /\ t \in Types
      BY <2>1 DEF Insert
    <3> QED
      BY <1>2, <2>1, <3>1 DEF Insert, EnqueueJob
  <2>2. CASE UNCHANGED table
    BY Zenon, <1>2, <2>2 DEF EnqueueJob
  <2> QED
    BY Zenon, <1>2, <2>1, <2>2 DEF EnqueueJob
<1>3. ASSUME NEW t \in Types, EnqueueAt(t) PROVE TypeOK'
  BY <1>3 DEF EnqueueAt, Insert
<1>4. ASSUME NEW j \in JobIds, BecomeDue(j) PROVE TypeOK'
  BY Zenon, <1>4 DEF BecomeDue
<1>5. ASSUME NEW j \in JobIds, ClaimNext(j) PROVE TypeOK'
  <2>1. /\ status' = [status EXCEPT ![j] = "running"]
        /\ stale' = [stale EXCEPT ![j] = FALSE]
        /\ UNCHANGED <<process, type, attempts, due, inserted, sched>>
    BY <1>5 DEF ClaimNext, Claim
  <2>2. runs' \in [JobIds -> Nat]
    <3>1. runs' = [runs EXCEPT ![j] = @ + 1] \/ runs' = runs
      BY <1>5 DEF ClaimNext
    <3>2. runs \in [JobIds -> Nat] /\ runs[j] + 1 \in Nat
      OBVIOUS
    <3> HIDE DEF TypeOK
    <3> QED
      BY <3>1, <3>2
  <2>3. phase' \in {"handling", "recording"} /\ job' = j /\ ctxLive' = TRUE
        /\ ok' = FALSE
    BY <1>5 DEF ClaimNext
  <2> QED
    BY Zenon, <2>1, <2>2, <2>3
<1>6. ASSUME NEW j \in JobIds, ClaimLost(j) PROVE TypeOK'
  BY <1>6 DEF ClaimLost, Claim, Claimable
<1>7. CASE ContextExpires
  BY Zenon, <1>7 DEF ContextExpires
<1>8. ASSUME NEW b \in BOOLEAN, HandlerReturns(b) PROVE TypeOK'
  BY <1>8 DEF HandlerReturns
<1>9. CASE Complete
  <2>1. 1 \in JobIds /\ job \in JobIds
    OBVIOUS
  <2> QED
    BY Zenon, <1>9, <2>1 DEF Complete, Return
<1>10. CASE FailJob
  <2>1. 1 \in JobIds /\ job \in JobIds
    OBVIOUS
  <2>2. attempts[job] + 1 \in 0 .. MaxAttempts
    BY <1>10 DEF FailJob
  <2> QED
    BY Zenon, <1>10, <2>1, <2>2 DEF FailJob, Return
<1>11. CASE RecordFails
  <2>1. 1 \in JobIds /\ job \in JobIds
    OBVIOUS
  <2> QED
    BY Zenon, <1>11, <2>1 DEF RecordFails, Return
<1>12. ASSUME NEW j \in JobIds, BecomeStale(j) PROVE TypeOK'
  BY <1>12 DEF BecomeStale
<1>13. CASE Reap
  <2> DEFINE R == {j \in JobIds : status[j] = "running" /\ stale[j]}
  <2> ReapOrphaned(R)
    BY <1>13 DEF Reap
  <2>a. R \in SUBSET JobIds /\ \A j \in R : status[j] = "running"
    OBVIOUS
  <2> HIDE DEF R, TypeOK
  <2>1. PICK D, S \in SUBSET R :
               /\ TakeBack(D, S)
               /\ \A j \in S : j \notin D /\ attempts[j] + 1 < MaxAttempts
    BY <2>a, Reaped
  <2> USE <2>a DEF TypeOK
  <2>2. \A j \in R : attempts[j] + 1 \in 0 .. MaxAttempts
    OBVIOUS
  <2>3. attempts' \in [JobIds -> 0 .. MaxAttempts]
    BY Zenon, <2>1, <2>2 DEF TakeBack
  <2>4. /\ type' = type /\ stale' = stale /\ inserted' = inserted
        /\ status' \in [JobIds -> Statuses] /\ due' \in [JobIds -> BOOLEAN]
    BY <2>1 DEF TakeBack
  <2> QED
    BY Zenon, <1>13, <2>3, <2>4 DEF Reap
<1>14. ASSUME NEW j \in JobIds, Prune(j) PROVE TypeOK'
  BY <1>14 DEF Prune
<1>15. CASE Start
  <2> DEFINE R == {j \in JobIds : status[j] = "running"}
  <2>0. CASE UNCHANGED table
    BY <1>15, <2>0 DEF Start
  <2> SUFFICES ASSUME ReapOrphaned(R) PROVE TypeOK'
    BY Zenon, <1>15, <2>0 DEF Start
  <2>a. R \in SUBSET JobIds /\ \A j \in R : status[j] = "running"
    OBVIOUS
  <2> HIDE DEF R, TypeOK
  <2>1. PICK D, S \in SUBSET R :
               /\ TakeBack(D, S)
               /\ \A j \in S : j \notin D /\ attempts[j] + 1 < MaxAttempts
    BY <2>a, Reaped
  <2> USE <2>a DEF TypeOK
  <2>2. \A j \in R : attempts[j] + 1 \in 0 .. MaxAttempts
    OBVIOUS
  <2>3. attempts' \in [JobIds -> 0 .. MaxAttempts]
    BY <2>1, <2>2 DEF TakeBack
  <2>4. /\ type' = type /\ stale' = stale /\ inserted' = inserted
        /\ status' \in [JobIds -> Statuses] /\ due' \in [JobIds -> BOOLEAN]
    BY <2>1 DEF TakeBack
  <2> QED
    BY Zenon, <1>15, <2>3, <2>4 DEF Start
<1>16. CASE Stop
  BY <1>16 DEF Stop
<1>17. CASE Stopped
  BY <1>17 DEF Stopped
<1>18. CASE Crash
  <2>1. 1 \in JobIds /\ job \in JobIds
    OBVIOUS
  <2> QED
    BY Zenon, <1>18, <2>1 DEF Crash, Return
<1>19. CASE UNCHANGED vars
  BY Zenon, <1>19
<1> QED
  BY Zenon, <1>1, <1>2, <1>3, <1>4, <1>5, <1>6, <1>7, <1>8,
     <1>9, <1>10, <1>11, <1>12, <1>13, <1>14, <1>15, <1>16,
     <1>17, <1>18, <1>19
     DEF JobsNext, Scheduler, Worker, Time

(* No run goes uncharged.                                                  *)
LEMMA ChargedStep == IInv /\ [JobsNext]_vars => Charged'
<1> SUFFICES ASSUME IInv, [JobsNext]_vars PROVE Charged'
  OBVIOUS
<1> USE ConstantsAssumption
    DEF IInv, TypeOK, Charged, ChargedRow, Claimed, JobIds, Statuses, vars,
        process, table, worker
<1>1. ASSUME NEW t \in Scheduled, MaybeEnqueue(t) PROVE Charged'
  BY <1>1 DEF MaybeEnqueue
<1>2. ASSUME NEW t \in Scheduled, EnqueueJob(t) PROVE Charged'
  <2>1. CASE Insert(t, TRUE)
    <3>1. inserted + 1 \in JobIds /\ inserted + 1 \in 0 .. MaxJobs
      BY <2>1 DEF Insert
    <3> QED
      BY <1>2, <2>1, <3>1 DEF Insert, EnqueueJob
  <2>2. CASE UNCHANGED table
    BY <1>2, <2>2 DEF EnqueueJob
  <2> QED
    BY Zenon, <1>2, <2>1, <2>2 DEF EnqueueJob
<1>3. ASSUME NEW t \in Types, EnqueueAt(t) PROVE Charged'
  BY <1>3 DEF EnqueueAt, Insert
<1>4. ASSUME NEW j \in JobIds, BecomeDue(j) PROVE Charged'
  BY <1>4 DEF BecomeDue
<1>5. ASSUME NEW j \in JobIds, ClaimNext(j) PROVE Charged'
  <2>1. /\ status[j] = "pending" /\ status' = [status EXCEPT ![j] = "running"]
        /\ UNCHANGED <<attempts, inserted>>
    BY <1>5 DEF ClaimNext, Claim, Claimable
  <2>2. runs' = [runs EXCEPT ![j] = @ + 1] \/ runs' = runs
    BY <1>5 DEF ClaimNext
  <2>3. CASE runs' = [runs EXCEPT ![j] = @ + 1]
    <3>1. /\ runs'[j] = runs[j] + 1 /\ status'[j] = "running"
          /\ attempts'[j] = attempts[j] /\ j <= inserted
      BY <2>1, <2>3
    <3>2. ASSUME NEW i \in JobIds, i # j
          PROVE  /\ runs'[i] = runs[i] /\ status'[i] = status[i]
                 /\ attempts'[i] = attempts[i] /\ inserted' = inserted
      BY <2>1, <2>3, <3>2
    <3>3. runs[j] <= attempts[j] /\ attempts[j] < MaxAttempts
          /\ attempts[j] \in Nat /\ runs[j] \in Nat
      BY <2>1
    <3>4. ChargedRow(j)'
      BY <2>1, <3>1, <3>3
    <3>5. ASSUME NEW i \in JobIds, i # j PROVE ChargedRow(i)'
      <4>1. ChargedRow(i)
        BY Zenon
      <4> QED
        BY <3>2, <3>5, <4>1
    <3>6. \A i \in JobIds : ChargedRow(i)'
      <4> HIDE DEF IInv, ChargedRow
      <4> QED
        BY <3>4, <3>5
    <3> HIDE DEF IInv, ChargedRow
    <3> QED
      BY <3>6 DEF Charged
  <2>4. CASE runs' = runs
    <3>1. status'[j] = "running" /\ j <= inserted /\ ChargedRow(j)
      BY <2>1
    <3>2. ChargedRow(j)'
      BY <2>1, <2>4, <3>1
    <3>3. ASSUME NEW i \in JobIds, i # j PROVE ChargedRow(i)'
      <4>1. status'[i] = status[i] /\ ChargedRow(i)
        BY <2>1, <3>3
      <4> QED
        BY <2>1, <2>4, <4>1
    <3> HIDE DEF IInv, ChargedRow
    <3> QED
      BY <3>2, <3>3 DEF Charged
  <2> QED
    BY <2>2, <2>3, <2>4
<1>6. ASSUME NEW j \in JobIds, ClaimLost(j) PROVE Charged'
  BY <1>6 DEF ClaimLost, Claim, Claimable
<1>7. CASE ContextExpires
  BY <1>7 DEF ContextExpires
<1>8. ASSUME NEW b \in BOOLEAN, HandlerReturns(b) PROVE Charged'
  BY <1>8 DEF HandlerReturns
<1>9. CASE Complete
  BY Zenon, <1>9 DEF Complete, Return
<1>10. CASE FailJob
  <2>1. /\ status[job] = "running"
        /\ attempts' = [attempts EXCEPT ![job] = @ + 1]
        /\ UNCHANGED <<inserted, runs>>
    BY <1>10 DEF FailJob
  <2>2. CASE attempts[job] + 1 >= MaxAttempts
    <3>1. status' = [status EXCEPT ![job] = "dead"]
      BY <1>10, <2>2 DEF FailJob
    <3> QED
      BY Zenon, <2>1, <3>1
  <2>3. CASE attempts[job] + 1 < MaxAttempts
    <3>1. status' = [status EXCEPT ![job] = "pending"]
      <4>1. ~(attempts[job] + 1 >= MaxAttempts)
        BY <2>3
      <4> QED
        BY <1>10, <4>1 DEF FailJob
    <3> QED
      BY <2>1, <2>3, <3>1
  <2> QED
    BY <2>2, <2>3
<1>11. CASE RecordFails
  BY <1>11 DEF RecordFails, Return
<1>12. ASSUME NEW j \in JobIds, BecomeStale(j) PROVE Charged'
  BY <1>12 DEF BecomeStale
<1>13. CASE Reap
  <2> DEFINE R == {j \in JobIds : status[j] = "running" /\ stale[j]}
  <2> ReapOrphaned(R)
    BY <1>13 DEF Reap
  <2>a. R \in SUBSET JobIds /\ \A j \in R : status[j] = "running"
    OBVIOUS
  <2> HIDE DEF R, TypeOK
  <2>1. PICK D, S \in SUBSET R :
               /\ TakeBack(D, S)
               /\ \A j \in S : j \notin D /\ attempts[j] + 1 < MaxAttempts
    BY <2>a, Reaped
  <2> USE <2>a DEF TypeOK
  <2>2. UNCHANGED <<inserted, runs>>
    BY <1>13, <2>1 DEF Reap, TakeBack
  <2>3. ASSUME NEW j \in JobIds, j \notin D, j \notin S
        PROVE  status'[j] = status[j] /\ attempts'[j] = attempts[j]
    BY <2>1, <2>3 DEF TakeBack
  <2>4. ASSUME NEW j \in D
        PROVE  /\ status'[j] = "dead" /\ attempts'[j] = attempts[j] + 1
               /\ status[j] = "running" /\ j \in JobIds
    BY Zenon, <2>1, <2>4 DEF TakeBack
  <2>5. ASSUME NEW j \in S
        PROVE  /\ status'[j] = "pending" /\ attempts'[j] = attempts[j] + 1
               /\ status[j] = "running" /\ j \in JobIds
    BY Zenon, <2>1, <2>5 DEF TakeBack
  <2>6. ASSUME NEW j \in JobIds PROVE ChargedRow(j)'
    <3>1. CASE j \in D
      BY Zenon, <2>2, <2>4, <3>1
    <3>2. CASE j \in S
      BY Zenon, <2>1, <2>2, <2>5, <3>2
    <3>3. CASE j \notin D /\ j \notin S
      BY <2>2, <2>3, <3>3
    <3> QED
      BY <3>1, <3>2, <3>3
  <2> HIDE DEF IInv, ChargedRow
  <2> QED
    BY <2>6 DEF Charged
<1>14. ASSUME NEW j \in JobIds, Prune(j) PROVE Charged'
  <2>1. ChargedRow(j)'
    <3>1. /\ status[j] \in {"completed", "dead"} /\ status'[j] = "pruned"
          /\ UNCHANGED <<attempts, runs, inserted>> /\ ChargedRow(j)
      BY <1>14 DEF Prune
    <3> QED
      BY <3>1
  <2>2. ASSUME NEW i \in JobIds, i # j PROVE ChargedRow(i)'
    <3>1. /\ status'[i] = status[i] /\ ChargedRow(i)
          /\ UNCHANGED <<attempts, runs, inserted>>
      BY <1>14, <2>2 DEF Prune
    <3> QED
      BY <3>1
  <2> HIDE DEF IInv, ChargedRow
  <2> QED
    BY <2>1, <2>2 DEF Charged
<1>15. CASE Start
  <2> DEFINE R == {j \in JobIds : status[j] = "running"}
  <2>0. CASE UNCHANGED table
    BY Zenon, <1>15, <2>0 DEF Start
  <2> SUFFICES ASSUME ReapOrphaned(R) PROVE Charged'
    BY <1>15, <2>0 DEF Start
  <2>a. R \in SUBSET JobIds /\ \A j \in R : status[j] = "running"
    BY Zenon
  <2> HIDE DEF R, TypeOK
  <2>1. PICK D, S \in SUBSET R :
               /\ TakeBack(D, S)
               /\ \A j \in S : j \notin D /\ attempts[j] + 1 < MaxAttempts
    BY <2>a, Reaped
  <2> USE <2>a DEF TypeOK
  <2>2. UNCHANGED <<inserted, runs>>
    BY <1>15, <2>1 DEF Start, TakeBack
  <2>3. ASSUME NEW j \in JobIds, j \notin D, j \notin S
        PROVE  status'[j] = status[j] /\ attempts'[j] = attempts[j]
    BY Zenon, <2>1, <2>3 DEF TakeBack
  <2>4. ASSUME NEW j \in D
        PROVE  /\ status'[j] = "dead" /\ attempts'[j] = attempts[j] + 1
               /\ status[j] = "running" /\ j \in JobIds
    BY <2>1, <2>4 DEF TakeBack
  <2>5. ASSUME NEW j \in S
        PROVE  /\ status'[j] = "pending" /\ attempts'[j] = attempts[j] + 1
               /\ status[j] = "running" /\ j \in JobIds
    BY Zenon, <2>1, <2>5 DEF TakeBack
  <2>6. ASSUME NEW j \in JobIds PROVE ChargedRow(j)'
    <3>1. CASE j \in D
      BY Zenon, <2>2, <2>4, <3>1
    <3>2. CASE j \in S
      BY Zenon, <2>1, <2>2, <2>5, <3>2
    <3>3. CASE j \notin D /\ j \notin S
      BY Zenon, <2>2, <2>3, <3>3
    <3> QED
      BY <3>1, <3>2, <3>3
  <2> HIDE DEF IInv, ChargedRow
  <2> QED
    BY <2>6 DEF Charged
<1>16. CASE Stop
  BY Zenon, <1>16 DEF Stop
<1>17. CASE Stopped
  BY <1>17 DEF Stopped
<1>18. CASE Crash
  BY <1>18 DEF Crash, Return
<1>19. CASE UNCHANGED vars
  BY Zenon, <1>19
<1> QED
  BY <1>1, <1>2, <1>3, <1>4, <1>5, <1>6, <1>7, <1>8,
     <1>9, <1>10, <1>11, <1>12, <1>13, <1>14, <1>15, <1>16,
     <1>17, <1>18, <1>19
     DEF JobsNext, Scheduler, Worker, Time

(* Nobody takes the job from a worker whose context lives.                 *)
LEMMA ClaimedStep == IInv /\ [JobsNext]_vars => Claimed'
<1> SUFFICES ASSUME IInv, [JobsNext]_vars PROVE Claimed'
  OBVIOUS
<1> USE ConstantsAssumption
    DEF IInv, TypeOK, Charged, ChargedRow, Claimed, JobIds, Statuses, vars,
        process, table, worker
<1>1. ASSUME NEW t \in Scheduled, MaybeEnqueue(t) PROVE Claimed'
  BY <1>1 DEF MaybeEnqueue
<1>2. ASSUME NEW t \in Scheduled, EnqueueJob(t) PROVE Claimed'
  <2>1. CASE Insert(t, TRUE)
    <3>1. status[inserted + 1] # "running"
      BY <2>1 DEF Insert
    <3> QED
      BY <1>2, <2>1, <3>1 DEF Insert, EnqueueJob
  <2>2. CASE UNCHANGED table
    BY <1>2, <2>2 DEF EnqueueJob
  <2> QED
    BY Zenon, <1>2, <2>1, <2>2 DEF EnqueueJob
<1>3. ASSUME NEW t \in Types, EnqueueAt(t) PROVE Claimed'
  <2>1. status[inserted + 1] # "running"
    BY <1>3 DEF EnqueueAt, Insert
  <2> QED
    BY <1>3, <2>1 DEF EnqueueAt, Insert
<1>4. ASSUME NEW j \in JobIds, BecomeDue(j) PROVE Claimed'
  BY <1>4 DEF BecomeDue
<1>5. ASSUME NEW j \in JobIds, ClaimNext(j) PROVE Claimed'
  BY Zenon, <1>5 DEF ClaimNext, Claim, Claimable
<1>6. ASSUME NEW j \in JobIds, ClaimLost(j) PROVE Claimed'
  BY Zenon, <1>6 DEF ClaimLost, Claim, Claimable
<1>7. CASE ContextExpires
  BY Zenon, <1>7 DEF ContextExpires
<1>8. ASSUME NEW b \in BOOLEAN, HandlerReturns(b) PROVE Claimed'
  BY Zenon, <1>8 DEF HandlerReturns
<1>9. CASE Complete
  BY Zenon, <1>9 DEF Complete, Return
<1>10. CASE FailJob
  BY Zenon, <1>10 DEF FailJob, Return
<1>11. CASE RecordFails
  BY Zenon, <1>11 DEF RecordFails, Return
<1>12. ASSUME NEW j \in JobIds, BecomeStale(j) PROVE Claimed'
  BY Zenon, <1>12 DEF BecomeStale
<1>13. CASE Reap
  BY Zenon, <1>13 DEF Reap, ReapOrphaned, TakeBack
<1>14. ASSUME NEW j \in JobIds, Prune(j) PROVE Claimed'
  BY Zenon, <1>14 DEF Prune
<1>15. CASE Start
  BY Zenon, <1>15 DEF Start, ReapOrphaned, TakeBack
<1>16. CASE Stop
  BY Zenon, <1>16 DEF Stop
<1>17. CASE Stopped
  BY Zenon, <1>17 DEF Stopped
<1>18. CASE Crash
  BY Zenon, <1>18 DEF Crash, Return
<1>19. CASE UNCHANGED vars
  BY <1>19
<1> QED
  BY <1>1, <1>2, <1>3, <1>4, <1>5, <1>6, <1>7, <1>8,
     <1>9, <1>10, <1>11, <1>12, <1>13, <1>14, <1>15, <1>16,
     <1>17, <1>18, <1>19
     DEF JobsNext, Scheduler, Worker, Time

(* Rows that keep their type and become unfinished in no new place.        *)
LEMMA SameActive ==
    ASSUME Single, sched' = sched, type' = type,
           \A j \in JobIds : status'[j] \in {"pending", "running"}
                                => status[j] \in {"pending", "running"}
    PROVE  Single'
<1>1. \A t \in Scheduled : Active(t)' \subseteq Active(t)
  BY Zenon DEF Active
<1> QED
  BY <1>1 DEF Single

(* No second unfinished job of a recurring type.                           *)
LEMMA SingleStep == IInv /\ [JobsNext]_vars => Single'
<1> SUFFICES ASSUME IInv, [JobsNext]_vars PROVE Single'
  OBVIOUS
<1> USE ConstantsAssumption
    DEF IInv, TypeOK, Charged, ChargedRow, Claimed, JobIds, Types, Statuses,
        vars, process, table, worker
<1>1. ASSUME NEW t \in Scheduled, MaybeEnqueue(t) PROVE Single'
  <2>1. \A u \in Scheduled : Active(u)' = Active(u)
    BY Zenon, <1>1 DEF MaybeEnqueue, Active
  <2>2. /\ Active(t) = {}
        /\ \A u \in Scheduled : sched'[u] = "inserting"
                                  => u = t \/ sched[u] = "inserting"
    BY <1>1 DEF MaybeEnqueue
  <2>3. \A u \in Scheduled : sched'[u] = "inserting" => Active(u) = {}
    BY Zenon, <2>2 DEF Single
  <2> QED
    BY <2>1, <2>3 DEF Single
<1>2. ASSUME NEW t \in Scheduled, EnqueueJob(t) PROVE Single'
  <2>1. CASE Insert(t, TRUE)
    <3>1. inserted + 1 \in JobIds /\ status[inserted + 1] = "none"
      BY <2>1 DEF Insert
    <3>2. \A u \in Scheduled \ {t} : Active(u)' = Active(u)
      BY Zenon, <2>1, <3>1 DEF Insert, Active
    <3>3. \A i \in Active(t)' : i = inserted + 1
      <4>1. Active(t) = {}
        BY Zenon, <1>2 DEF EnqueueJob, Single
      <4> QED
        BY Zenon, <2>1, <4>1 DEF Insert, Active
    <3>4. \A u \in Scheduled : sched'[u] = IF u = t THEN "waiting"
                                                     ELSE sched[u]
      BY Zenon, <1>2 DEF EnqueueJob
    <3>5. \A i, j \in Active(t)' : i = j
      BY <3>3
    <3>6. sched'[t] # "inserting"
      BY Zenon, <3>4
    <3>7. ASSUME NEW u \in Scheduled
          PROVE  /\ \A i, j \in Active(u)' : i = j
                 /\ sched'[u] = "inserting" => Active(u)' = {}
      <4>1. CASE u = t
        BY Zenon, <3>5, <3>6, <4>1
      <4>2. CASE u # t
        BY <3>2, <3>4, <4>2 DEF Single
      <4> QED
        BY <4>1, <4>2
    <3> QED
      BY Zenon, <3>7 DEF Single
  <2>2. CASE UNCHANGED table
    <3>1. \A u \in Scheduled : Active(u)' = Active(u)
      BY Zenon, <2>2 DEF Active
    <3>2. \A u \in Scheduled : sched'[u] = "inserting"
                                 => sched[u] = "inserting"
      BY Zenon, <1>2 DEF EnqueueJob
    <3> QED
      BY <3>1, <3>2 DEF Single
  <2> QED
    BY Zenon, <1>2, <2>1, <2>2 DEF EnqueueJob
<1>3. ASSUME NEW t \in Types, EnqueueAt(t) PROVE Single'
  <2>1. Insert(t, FALSE) /\ t \notin Scheduled /\ sched' = sched
    BY Zenon, <1>3 DEF EnqueueAt
  <2>2. inserted + 1 \in JobIds /\ status[inserted + 1] = "none"
    BY <2>1 DEF Insert
  <2>3. \A u \in Scheduled : Active(u)' = Active(u)
    BY Zenon, <2>1, <2>2 DEF Insert, Active
  <2> QED
    BY <2>1, <2>3 DEF Single
<1>4. ASSUME NEW j \in JobIds, BecomeDue(j) PROVE Single'
  <2>1. /\ sched' = sched /\ type' = type
        /\ \A i \in JobIds : status'[i] \in {"pending", "running"}
                                => status[i] \in {"pending", "running"}
    BY Zenon, <1>4 DEF BecomeDue
  <2> QED
    BY Zenon, <2>1, SameActive
<1>5. ASSUME NEW j \in JobIds, ClaimNext(j) PROVE Single'
  <2>1. /\ sched' = sched /\ type' = type
        /\ \A i \in JobIds : status'[i] \in {"pending", "running"}
                                => status[i] \in {"pending", "running"}
    BY Zenon, <1>5 DEF ClaimNext, Claim, Claimable
  <2> QED
    BY <2>1, SameActive
<1>6. ASSUME NEW j \in JobIds, ClaimLost(j) PROVE Single'
  <2>1. /\ sched' = sched /\ type' = type
        /\ \A i \in JobIds : status'[i] \in {"pending", "running"}
                                => status[i] \in {"pending", "running"}
    BY Zenon, <1>6 DEF ClaimLost, Claim, Claimable
  <2> QED
    BY <2>1, SameActive
<1>7. CASE ContextExpires
  <2>1. /\ sched' = sched /\ type' = type
        /\ \A i \in JobIds : status'[i] \in {"pending", "running"}
                                => status[i] \in {"pending", "running"}
    BY Zenon, <1>7 DEF ContextExpires
  <2> QED
    BY Zenon, <2>1, SameActive
<1>8. ASSUME NEW b \in BOOLEAN, HandlerReturns(b) PROVE Single'
  <2>1. /\ sched' = sched /\ type' = type
        /\ \A i \in JobIds : status'[i] \in {"pending", "running"}
                                => status[i] \in {"pending", "running"}
    BY Zenon, <1>8 DEF HandlerReturns
  <2> QED
    BY Zenon, <2>1, SameActive
<1>9. CASE Complete
  <2>1. /\ sched' = sched /\ type' = type
        /\ \A i \in JobIds : status'[i] \in {"pending", "running"}
                                => status[i] \in {"pending", "running"}
    BY Zenon, <1>9 DEF Complete
  <2> QED
    BY <2>1, SameActive
<1>10. CASE FailJob
  <2>1. /\ sched' = sched /\ type' = type
        /\ \A i \in JobIds : status'[i] \in {"pending", "running"}
                                => status[i] \in {"pending", "running"}
    BY Zenon, <1>10 DEF FailJob
  <2> QED
    BY <2>1, SameActive
<1>11. CASE RecordFails
  <2>1. /\ sched' = sched /\ type' = type
        /\ \A i \in JobIds : status'[i] \in {"pending", "running"}
                                => status[i] \in {"pending", "running"}
    BY Zenon, <1>11 DEF RecordFails
  <2> QED
    BY <2>1, SameActive
<1>12. ASSUME NEW j \in JobIds, BecomeStale(j) PROVE Single'
  <2>1. /\ sched' = sched /\ type' = type
        /\ \A i \in JobIds : status'[i] \in {"pending", "running"}
                                => status[i] \in {"pending", "running"}
    BY Zenon, <1>12 DEF BecomeStale
  <2> QED
    BY <2>1, SameActive
<1>13. CASE Reap
  <2> DEFINE R == {j \in JobIds : status[j] = "running" /\ stale[j]}
  <2> ReapOrphaned(R)
    BY <1>13 DEF Reap
  <2>a. R \in SUBSET JobIds /\ \A j \in R : status[j] = "running"
    OBVIOUS
  <2> HIDE DEF R, TypeOK
  <2>1. PICK D, S \in SUBSET R :
               /\ TakeBack(D, S)
               /\ \A j \in S : j \notin D /\ attempts[j] + 1 < MaxAttempts
    BY <2>a, Reaped
  <2> USE <2>a DEF TypeOK
  <2>2. \A j \in JobIds : status'[j] \in {"pending", "running"}
                            => status[j] \in {"pending", "running"}
    BY Zenon, <2>1 DEF TakeBack
  <2>3. sched' = sched /\ type' = type
    BY Zenon, <1>13, <2>1 DEF Reap, TakeBack
  <2> QED
    BY Zenon, <2>2, <2>3, SameActive
<1>14. ASSUME NEW j \in JobIds, Prune(j) PROVE Single'
  <2>1. /\ sched' = sched /\ type' = type
        /\ \A i \in JobIds : status'[i] \in {"pending", "running"}
                                => status[i] \in {"pending", "running"}
    BY Zenon, <1>14 DEF Prune
  <2> QED
    BY <2>1, SameActive
<1>15. CASE Start
  <2> DEFINE R == {j \in JobIds : status[j] = "running"}
  <2>0. CASE UNCHANGED table
    BY Zenon, <1>15, <2>0, SameActive DEF Start
  <2> SUFFICES ASSUME ReapOrphaned(R) PROVE Single'
    BY Zenon, <1>15, <2>0 DEF Start
  <2>a. R \in SUBSET JobIds /\ \A j \in R : status[j] = "running"
    OBVIOUS
  <2> HIDE DEF R, TypeOK
  <2>1. PICK D, S \in SUBSET R :
               /\ TakeBack(D, S)
               /\ \A j \in S : j \notin D /\ attempts[j] + 1 < MaxAttempts
    BY <2>a, Reaped
  <2> USE <2>a DEF TypeOK
  <2>2. \A j \in JobIds : status'[j] \in {"pending", "running"}
                            => status[j] \in {"pending", "running"}
    BY Zenon, <2>1 DEF TakeBack
  <2>3. sched' = sched /\ type' = type
    BY Zenon, <1>15, <2>1 DEF Start, TakeBack
  <2> QED
    BY Zenon, <2>2, <2>3, SameActive
<1>16. CASE Stop
  <2>1. /\ sched' = sched /\ type' = type
        /\ \A i \in JobIds : status'[i] \in {"pending", "running"}
                                => status[i] \in {"pending", "running"}
    BY <1>16 DEF Stop
  <2> QED
    BY <2>1, SameActive
<1>17. CASE Stopped
  <2>1. /\ sched' = sched /\ type' = type
        /\ \A i \in JobIds : status'[i] \in {"pending", "running"}
                                => status[i] \in {"pending", "running"}
    BY Zenon, <1>17 DEF Stopped
  <2> QED
    BY <2>1, SameActive
<1>18. CASE Crash
  <2>1. \A u \in Scheduled : Active(u)' = Active(u) /\ sched'[u] = "waiting"
    BY Zenon, <1>18 DEF Crash, Active
  <2> QED
    BY <2>1 DEF Single
<1>19. CASE UNCHANGED vars
  BY <1>19, SameActive
<1> QED
  BY Zenon, <1>1, <1>2, <1>3, <1>4, <1>5, <1>6, <1>7, <1>8,
     <1>9, <1>10, <1>11, <1>12, <1>13, <1>14, <1>15, <1>16,
     <1>17, <1>18, <1>19
     DEF JobsNext, Scheduler, Worker, Time

(* A fresh database satisfies the invariant.                               *)
LEMMA InitInv == JobsInit => IInv
<1> SUFFICES ASSUME JobsInit PROVE IInv
  OBVIOUS
<1> USE ConstantsAssumption DEF JobsInit, JobIds
<1>1. TypeOK
  <2>1. job \in JobIds /\ inserted \in 0 .. MaxJobs
    OBVIOUS
  <2>2. attempts \in [JobIds -> 0 .. MaxAttempts] /\ runs \in [JobIds -> Nat]
    OBVIOUS
  <2>3. type \in [JobIds -> Types] /\ status \in [JobIds -> Statuses]
    BY DEF Types, Statuses
  <2> QED
    BY Zenon, <2>1, <2>2, <2>3 DEF TypeOK
<1>2. Charged /\ Claimed
  BY DEF Charged, ChargedRow, Claimed
<1>3. \A t \in Scheduled : Active(t) = {}
  BY Zenon DEF Active
<1> QED
  BY <1>1, <1>2, <1>3 DEF IInv, Single

(* The invariant holds in every state the job queue can reach.             *)
THEOREM Invariance == JobsSpec => []IInv
<1>1. IInv /\ [JobsNext]_vars => IInv'
  BY TypeStep, ChargedStep, ClaimedStep, SingleStep DEF IInv
<1> QED
  BY <1>1, InitInv, PTL DEF JobsSpec

(* Every column of the table and every local of the goroutines has its     *)
(* type; in particular no job is charged more than max_attempts.           *)
THEOREM TypeCorrect == JobsSpec => []TypeOK
<1>1. IInv => TypeOK
  BY DEF IInv
<1> QED
  BY <1>1, Invariance, PTL

(* maybeEnqueue's check-then-insert never leads to two unfinished jobs of  *)
(* one recurring type.                                                     *)
THEOREM AtMostOneUnfinished == JobsSpec => []OneUnfinished
<1>1. IInv => OneUnfinished
  BY DEF IInv, Single, OneUnfinished
<1> QED
  BY <1>1, Invariance, PTL

(* No history of failures, crashes and reaps starts a handler more than    *)
(* max_attempts times for one job.                                         *)
THEOREM BoundedRuns == JobsSpec => []RunsBounded
<1>1. ASSUME IInv, NEW j \in JobIds PROVE runs[j] <= MaxAttempts
  <2> USE <1>1 DEF IInv, TypeOK, Charged, ChargedRow
  <2>1. attempts[j] \in 0 .. MaxAttempts /\ runs[j] \in Nat
    OBVIOUS
  <2>2. CASE status[j] \in {"none", "pending", "dead"}
    BY <2>1, <2>2, ConstantsAssumption
  <2>3. CASE status[j] \in {"running", "completed"}
    BY <2>1, <2>3, ConstantsAssumption
  <2>4. CASE status[j] = "pruned"
    BY <2>4
  <2> QED
    BY <2>2, <2>3, <2>4 DEF Statuses
<1>2. IInv => RunsBounded
  BY <1>1 DEF RunsBounded
<1> QED
  BY <1>2, Invariance, PTL

(* A late Complete or Fail never overwrites a row that a reap took back.   *)
THEOREM NoLateRecord == JobsSpec => ReclaimedStays
<1>1. IInv /\ [JobsNext]_vars => [Complete \/ FailJob => status[job] = "running"]_vars
  BY DEF IInv, Claimed, Complete, FailJob
<1> QED
  BY <1>1, Invariance, PTL DEF JobsSpec, ReclaimedStays

-----------------------------------------------------------------------------
(* The ingest queue and the sampling rules.                                *)
LEMMA SmallerOf ==
  ASSUME NEW x \in Int, NEW y \in Int
  PROVE /\ Min({x, y}) = IF x <= y THEN x ELSE y
        /\ Max({x, y}) = IF x >= y THEN x ELSE y
<1>1. \E z \in {x, y} : \A u \in {x, y} : z =< u
  <2>1. CASE x <= y
    BY <2>1
  <2>2. CASE ~(x <= y)
    <3>1. y <= x
      BY <2>2
    <3> QED BY <3>1
  <2> QED BY <2>1, <2>2
<1>2. Min({x, y}) \in {x, y} /\ \A u \in {x, y} : Min({x, y}) =< u
  BY <1>1, Zenon DEF Min
<1>3. \E z \in {x, y} : \A u \in {x, y} : z >= u
  <2>1. CASE x >= y
    BY <2>1
  <2>2. CASE ~(x >= y)
    <3>1. y >= x
      BY <2>2
    <3> QED BY <3>1
  <2> QED BY <2>1, <2>2
<1>4. Max({x, y}) \in {x, y} /\ \A u \in {x, y} : Max({x, y}) >= u
  BY <1>3, Zenon DEF Max
<1> QED BY <1>2, <1>4

(* The rows of two sequences, one after the other.                         *)
LEMMA CatSets ==
  ASSUME NEW S, NEW s \in Seq(S), NEW t \in Seq(S)
  PROVE /\ s \o t \in Seq(S) /\ Len(s \o t) = Len(s) + Len(t)
        /\ Range(s \o t) = Range(s) \cup Range(t)
        /\ IsInjective(s) /\ IsInjective(t) /\ Range(s) \cap Range(t) = {}
             => IsInjective(s \o t)
<1>1. /\ s \o t \in Seq(S) /\ Len(s \o t) = Len(s) + Len(t)
      /\ \A i \in 1..Len(s) : (s \o t)[i] = s[i]
      /\ \A i \in 1..Len(t) : (s \o t)[i + Len(s)] = t[i]
  OBVIOUS
<1>2. /\ Len(s) \in Nat /\ Len(t) \in Nat
      /\ DOMAIN s = 1..Len(s) /\ DOMAIN t = 1..Len(t) /\ DOMAIN (s \o t) = 1..(Len(s) + Len(t))
  BY <1>1
<1>3. \A i \in 1..(Len(s) + Len(t)) : i \in 1..Len(s) \/ \E j \in 1..Len(t) : i = j + Len(s)
  <2> SUFFICES ASSUME NEW i \in 1..(Len(s) + Len(t)), i \notin 1..Len(s)
               PROVE \E j \in 1..Len(t) : i = j + Len(s)
    OBVIOUS
  <2>1. i - Len(s) \in 1..Len(t) /\ i = (i - Len(s)) + Len(s)
    BY <1>2
  <2> QED BY Zenon, <2>1
<1>4. \A j \in 1..Len(t) : j + Len(s) \in 1..(Len(s) + Len(t)) /\ j + Len(s) \notin 1..Len(s)
  BY <1>2
<1>5. \A i \in 1..Len(s) : i \in 1..(Len(s) + Len(t))
  BY <1>2
<1>6. Range(s \o t) = Range(s) \cup Range(t)
  <2>1. ASSUME NEW e \in Range(s \o t) PROVE e \in Range(s) \cup Range(t)
    <3>1. PICK i \in 1..(Len(s) + Len(t)) : e = (s \o t)[i]
      BY <2>1, <1>2 DEF Range
    <3> QED BY Zenon, <3>1, <1>1, <1>2, <1>3 DEF Range
  <2>2. ASSUME NEW e \in Range(s) PROVE e \in Range(s \o t)
    <3>1. PICK i \in 1..Len(s) : e = s[i]
      BY <2>2, <1>2 DEF Range
    <3> QED BY <3>1, <1>1, <1>2, <1>5 DEF Range
  <2>3. ASSUME NEW e \in Range(t) PROVE e \in Range(s \o t)
    <3>1. PICK i \in 1..Len(t) : e = t[i]
      BY <2>3, <1>2 DEF Range
    <3> QED BY <3>1, <1>1, <1>2, <1>4 DEF Range
  <2> QED BY <2>1, <2>2, <2>3
<1>7. ASSUME IsInjective(s), IsInjective(t), Range(s) \cap Range(t) = {}
      PROVE IsInjective(s \o t)
  <2> SUFFICES ASSUME NEW a \in 1..(Len(s) + Len(t)), NEW b \in 1..(Len(s) + Len(t)),
                      (s \o t)[a] = (s \o t)[b]
               PROVE a = b
    BY <1>2 DEF IsInjective
  <2>1. CASE a \in 1..Len(s) /\ b \in 1..Len(s)
    BY <2>1, <1>1, <1>2, <1>7 DEF IsInjective
  <2>2. \A i \in 1..Len(s), j \in 1..Len(t) : s[i] # t[j]
    BY Zenon, <1>2, <1>7 DEF Range
  <2>3. CASE a \notin 1..Len(s) /\ b \notin 1..Len(s)
    <3>1. PICK i \in 1..Len(t), j \in 1..Len(t) : a = i + Len(s) /\ b = j + Len(s)
      BY Zenon, <2>3, <1>3
    <3>2. t[i] = t[j]
      BY <3>1, <1>1
    <3> QED BY <3>1, <3>2, <1>2, <1>7 DEF IsInjective
  <2>4. ~(a \in 1..Len(s) /\ b \notin 1..Len(s))
    <3> SUFFICES ASSUME a \in 1..Len(s), b \notin 1..Len(s) PROVE FALSE
      OBVIOUS
    <3>1. PICK j \in 1..Len(t) : b = j + Len(s)
      BY <1>3
    <3> QED BY <3>1, <1>1, <2>2
  <2>5. ~(b \in 1..Len(s) /\ a \notin 1..Len(s))
    <3> SUFFICES ASSUME b \in 1..Len(s), a \notin 1..Len(s) PROVE FALSE
      OBVIOUS
    <3>1. PICK j \in 1..Len(t) : a = j + Len(s)
      BY Zenon, <1>3
    <3> QED BY <3>1, <1>1, <2>2
  <2> QED BY <2>1, <2>3, <2>4, <2>5
<1> QED BY <1>1, <1>6, <1>7

(* The rows of a sequence cut in two.                                      *)
LEMMA CutSets ==
  ASSUME NEW S, NEW s \in Seq(S), NEW k \in 0..Len(s)
  PROVE LET c == SubSeq(s, 1, k)
            d == SubSeq(s, k + 1, Len(s))
        IN /\ c \in Seq(S) /\ d \in Seq(S) /\ Len(c) = k /\ Len(d) = Len(s) - k
           /\ Range(s) = Range(c) \cup Range(d)
           /\ IsInjective(s) => IsInjective(c) /\ IsInjective(d) /\ Range(c) \cap Range(d) = {}
<1> DEFINE c == SubSeq(s, 1, k)
           d == SubSeq(s, k + 1, Len(s))
<1>0. Len(s) \in Nat /\ k \in Nat /\ k <= Len(s) /\ DOMAIN s = 1..Len(s)
  OBVIOUS
<1>1. c \in Seq(S) /\ Len(c) = k /\ DOMAIN c = 1..k /\ \A i \in 1..k : c[i] = s[i]
  BY <1>0
<1>2. d \in Seq(S) /\ Len(d) = Len(s) - k /\ DOMAIN d = 1..(Len(s) - k)
      /\ \A i \in 1..(Len(s) - k) : d[i] = s[i + k]
  <2>1. Len(d) = Len(s) - k
    <3>1. CASE k + 1 <= Len(s)
      <4>1. Len(d) = Len(s) - (k + 1) + 1
        BY <3>1, <1>0
      <4>2. Len(s) - (k + 1) + 1 = Len(s) - k
        BY <1>0
      <4> QED BY <4>1, <4>2, Zenon
    <3>2. CASE k = Len(s)
      <4>1. d = <<>>
        BY <3>2, <1>0
      <4> QED BY <4>1, <3>2, <1>0
    <3>3. k + 1 <= Len(s) \/ k = Len(s)
      <4>1. \A i, j \in Nat : i <= j => i + 1 <= j \/ i = j
        OBVIOUS
      <4> QED BY <4>1, <1>0, Zenon
    <3> QED BY <3>1, <3>2, <3>3, Zenon
  <2>2. \A i \in 1..(Len(s) - k) : d[i] = s[i + k]
    <3> SUFFICES ASSUME NEW i \in 1..(Len(s) - k) PROVE d[i] = s[i + k]
      OBVIOUS
    <3>1. d[i] = s[(k + 1) + i - 1]
      BY <1>0
    <3> QED BY <3>1, <1>0
  <2>3. d \in Seq(S)
    BY <1>0
  <2> QED BY <2>1, <2>2, <2>3
<1> HIDE DEF c, d
<1>3. \A i \in 1..Len(s) : i \in 1..k \/ \E j \in 1..(Len(s) - k) : i = j + k
  <2> SUFFICES ASSUME NEW i \in 1..Len(s), i \notin 1..k
               PROVE \E j \in 1..(Len(s) - k) : i = j + k
    OBVIOUS
  <2>1. i - k \in 1..(Len(s) - k) /\ i = (i - k) + k
    BY <1>0
  <2> QED BY <2>1
<1>4. \A j \in 1..(Len(s) - k) : j + k \in 1..Len(s) /\ j + k \notin 1..k
  BY <1>0
<1>5. \A i \in 1..k : i \in 1..Len(s)
  BY <1>0
<1>6. Range(s) = Range(c) \cup Range(d)
  <2>1. ASSUME NEW e \in Range(s) PROVE e \in Range(c) \cup Range(d)
    <3>1. PICK i \in 1..Len(s) : e = s[i]
      BY <2>1, <1>0 DEF Range
    <3>2. CASE i \in 1..k
      BY <3>1, <3>2, <1>1 DEF Range
    <3>3. CASE i \notin 1..k
      <4>1. PICK j \in 1..(Len(s) - k) : i = j + k
        BY <3>3, <1>3
      <4>2. e = d[j] /\ j \in DOMAIN d
        BY <4>1, <3>1, <1>2
      <4> QED BY <4>2 DEF Range
    <3> QED BY <3>2, <3>3
  <2>2. ASSUME NEW e \in Range(c) PROVE e \in Range(s)
    <3>1. PICK i \in 1..k : e = c[i]
      BY <2>2, <1>1 DEF Range
    <3> QED BY <3>1, <1>0, <1>1, <1>5 DEF Range
  <2>3. ASSUME NEW e \in Range(d) PROVE e \in Range(s)
    <3>1. PICK i \in 1..(Len(s) - k) : e = d[i]
      BY Zenon, <2>3, <1>2 DEF Range
    <3> QED BY <3>1, <1>0, <1>2, <1>4 DEF Range
  <2> QED BY <2>1, <2>2, <2>3
<1>7. ASSUME IsInjective(s)
      PROVE IsInjective(c) /\ IsInjective(d) /\ Range(c) \cap Range(d) = {}
  <2>1. IsInjective(c)
    BY <1>0, <1>1, <1>5, <1>7 DEF IsInjective
  <2>2. IsInjective(d)
    <3> SUFFICES ASSUME NEW i \in 1..(Len(s) - k), NEW j \in 1..(Len(s) - k), d[i] = d[j]
                 PROVE i = j
      BY <1>2 DEF IsInjective
    <3>1. s[i + k] = s[j + k] /\ i + k \in DOMAIN s /\ j + k \in DOMAIN s
      BY <1>0, <1>2, <1>4
    <3>2. i + k = j + k
      BY <3>1, <1>7 DEF IsInjective
    <3> QED BY <3>2, <1>0
  <2>3. \A i \in 1..k, j \in 1..(Len(s) - k) : c[i] # d[j]
    <3> SUFFICES ASSUME NEW i \in 1..k, NEW j \in 1..(Len(s) - k), c[i] = d[j]
                 PROVE FALSE
      OBVIOUS
    <3>1. s[i] = s[j + k] /\ i \in DOMAIN s /\ j + k \in DOMAIN s
      BY <1>0, <1>1, <1>2, <1>4, <1>5
    <3>2. i = j + k
      BY <3>1, <1>7 DEF IsInjective
    <3> QED BY <3>2, <1>4
  <2> QED BY <2>1, <2>2, <2>3, <1>1, <1>2 DEF Range
<1> QED BY <1>1, <1>2, <1>6, <1>7 DEF c, d

QueuePlaces ==
  <<UNION {Range(w.batch) : w \in qwait}, Range(qbuf), UNION {Range(f.rows) : f \in qflight},
    qstored, qdropped, qrefused>>

QueueRows ==
  /\ qsent \in Nat
  /\ qbuf \in Seq(Nat) /\ IsInjective(qbuf)
  /\ \A f \in qflight : f \in [by : Int, rows : Seq(Nat)] /\ IsInjective(f.rows)
  /\ \A w \in qwait : /\ w \in [batch : Seq(Nat), flushed : BOOLEAN]
                      /\ w.batch # <<>> /\ IsInjective(w.batch)
  /\ qstop \in {"no", "stopped", "final", "done"}

Apart ==
  /\ \A f, g \in qflight : f # g => Range(f.rows) \cap Range(g.rows) = {}
  /\ \A w, v \in qwait : w # v => Range(w.batch) \cap Range(v.batch) = {}

QueueInv == QueueRows /\ Apart /\ QueueAccounts

\* What it takes of six places to hold each of 1..n exactly once.
OnePlace(p, n) ==
  /\ UNION {p[i] : i \in 1..6} = 1..n
  /\ \A i, j \in 1..6 : i # j => p[i] \cap p[j] = {}

(* QueueAccounts in terms of the six places an entry can be in.            *)
LEMMA AccountsPlaces ==
  QueueAccounts <=> /\ OnePlace(QueuePlaces, qsent)
                    /\ Len(qbuf) <= QueueSize
                    /\ qstop \in {"final", "done"} => qbuf = <<>>
<1> DEFINE P == QueuePlaces
<1>1. DOMAIN P = 1..6
  BY DEF QueuePlaces
<1>2. UNION Range(P) = UNION {P[i] : i \in 1..6}
  BY <1>1 DEF Range
<1> QED BY <1>1, <1>2, Zenon DEF QueueAccounts, OnePlace, QueuePlaces

(* Rows that go from one place to another are still in one place each.     *)
LEMMA MoveRows ==
  ASSUME NEW p, NEW q, NEW n \in Nat, NEW X, OnePlace(p, n),
         NEW i \in 1..6, NEW j \in 1..6, i # j, X \subseteq p[i],
         q[i] = p[i] \ X, q[j] = p[j] \cup X,
         \A k \in 1..6 : k # i /\ k # j => q[k] = p[k]
  PROVE OnePlace(q, n)
<1>1. \A k, l \in 1..6 : k # l => p[k] \cap p[l] = {}
  BY Zenon DEF OnePlace
<1>2. ASSUME NEW k \in 1..6, NEW l \in 1..6, k # l PROVE q[k] \cap q[l] = {}
  <2>1. CASE k = i
    BY <2>1, <1>1, <1>2, Zenon
  <2>2. CASE l = i
    BY <2>2, <1>1, <1>2, Zenon
  <2>3. CASE k # i /\ l # i /\ k = j
    BY <2>3, <1>1, <1>2, Zenon
  <2>4. CASE k # i /\ l # i /\ k # j
    BY <2>4, <1>1, <1>2, Zenon
  <2> QED BY <2>1, <2>2, <2>3, <2>4
<1>3. \A e : (\E k \in 1..6 : e \in q[k]) <=> (\E k \in 1..6 : e \in p[k])
  <2> TAKE e
  <2>1. ASSUME NEW k \in 1..6, e \in q[k] PROVE \E l \in 1..6 : e \in p[l]
    BY <2>1
  <2>2. ASSUME NEW k \in 1..6, e \in p[k] PROVE \E l \in 1..6 : e \in q[l]
    BY <2>2
  <2> QED BY <2>1, <2>2
<1>4. UNION {q[k] : k \in 1..6} = UNION {p[k] : k \in 1..6}
  BY <1>3
<1> QED BY <1>2, <1>4, Zenon DEF OnePlace

\* A partition of the entries survives when some of them change places.
Shifts(i, j, X) ==
  /\ i # j /\ X \subseteq QueuePlaces[i]
  /\ QueuePlaces'[i] = QueuePlaces[i] \ X /\ QueuePlaces'[j] = QueuePlaces[j] \cup X
  /\ \A k \in 1..6 : k # i /\ k # j => QueuePlaces'[k] = QueuePlaces[k]

(* The six places.                                                         *)
LEMMA PlacesAre ==
  /\ QueuePlaces[1] = UNION {Range(w.batch) : w \in qwait}
  /\ QueuePlaces[2] = Range(qbuf)
  /\ QueuePlaces[3] = UNION {Range(f.rows) : f \in qflight}
  /\ QueuePlaces[4] = qstored /\ QueuePlaces[5] = qdropped /\ QueuePlaces[6] = qrefused
BY DEF QueuePlaces

(* The numbers of the places.                                              *)
LEMMA SixPlaces == 1..6 = {1, 2, 3, 4, 5, 6}
OBVIOUS

(* A step that moves rows between two places keeps them accounted for.     *)
LEMMA Shifted ==
  ASSUME QueueInv, NEW i \in 1..6, NEW j \in 1..6, NEW X, Shifts(i, j, X), qsent' = qsent
  PROVE OnePlace(QueuePlaces, qsent)'
<1>1. OnePlace(QueuePlaces, qsent) /\ qsent \in Nat
  BY Zenon, AccountsPlaces DEF QueueInv, QueueRows
<1>2. OnePlace(QueuePlaces', qsent)
  BY <1>1, MoveRows DEF Shifts
<1> QED BY <1>2 DEF OnePlace

\* New entries come to one place.
Grows(j, X) ==
  /\ qsent <= qsent' /\ X = (qsent + 1)..qsent'
  /\ QueuePlaces'[j] = QueuePlaces[j] \cup X
  /\ \A k \in 1..6 : k # j => QueuePlaces'[k] = QueuePlaces[k]

(* A step that brings new rows into one place keeps them accounted for.    *)
LEMMA Grown ==
  ASSUME QueueInv, NEW j \in 1..6, NEW X, Grows(j, X), qsent' \in Nat
  PROVE OnePlace(QueuePlaces, qsent)'
<1>1. OnePlace(QueuePlaces, qsent) /\ qsent \in Nat
  BY AccountsPlaces DEF QueueInv, QueueRows
<1>2. PICK p, q, n, m : p = QueuePlaces /\ q = QueuePlaces' /\ n = qsent /\ m = qsent'
  OBVIOUS
<1>3. /\ OnePlace(p, n) /\ X \cap (1..n) = {} /\ 1..m = (1..n) \cup X
      /\ q[j] = p[j] \cup X /\ \A k \in 1..6 : k # j => q[k] = p[k]
  <2>1. X \cap (1..qsent) = {} /\ 1..qsent' = (1..qsent) \cup X
    BY <1>1 DEF Grows
  <2> QED BY <2>1, <1>1, <1>2 DEF Grows
<1>4. OnePlace(q, m)
  <2>1. \A k, l \in 1..6 : k # l => p[k] \cap p[l] = {}
    BY <1>3, Zenon DEF OnePlace
  <2>0. UNION {p[k] : k \in 1..6} = 1..n
    BY <1>3 DEF OnePlace
  <2>2. ASSUME NEW k \in 1..6, NEW r \in p[k] PROVE r \in 1..n
    <3>1. p[k] \in {p[i] : i \in 1..6}
      OBVIOUS
    <3>2. r \in UNION {p[i] : i \in 1..6}
      BY <2>2, <3>1, Zenon
    <3> QED BY <2>0, <3>2, Zenon
  <2>3. ASSUME NEW k \in 1..6, NEW l \in 1..6, k # l PROVE q[k] \cap q[l] = {}
    BY <1>3, <2>1, <2>2, <2>3, Zenon
  <2>4. UNION {q[k] : k \in 1..6} = (UNION {p[k] : k \in 1..6}) \cup X
    BY <1>3
  <2>6. UNION {q[k] : k \in 1..6} = 1..m
    BY Zenon, <1>3, <2>4, <2>0
  <2> QED BY <2>3, <2>6, Zenon DEF OnePlace
<1> QED BY <1>2, <1>4 DEF OnePlace

\* The places of what a step does not touch.
LEMMA SamePlaces ==
  /\ qwait' = qwait => QueuePlaces'[1] = QueuePlaces[1]
  /\ qbuf' = qbuf => QueuePlaces'[2] = QueuePlaces[2]
  /\ qflight' = qflight => QueuePlaces'[3] = QueuePlaces[3]
  /\ qstored' = qstored => QueuePlaces'[4] = QueuePlaces[4]
  /\ qdropped' = qdropped => QueuePlaces'[5] = QueuePlaces[5]
  /\ qrefused' = qrefused => QueuePlaces'[6] = QueuePlaces[6]
BY DEF QueuePlaces

(* What QueueAccounts says of the places, as the steps use it.             *)
LEMMA QueueFacts ==
  ASSUME QueueInv
  PROVE /\ \A i, j \in 1..6 : i # j => QueuePlaces[i] \cap QueuePlaces[j] = {}
        /\ \A i \in 1..6 : QueuePlaces[i] \subseteq 1..qsent
        /\ Len(qbuf) \in Nat /\ Len(qbuf) <= QueueSize
        /\ qstop \in {"final", "done"} => qbuf = <<>>
<1>1. OnePlace(QueuePlaces, qsent) /\ Len(qbuf) <= QueueSize /\ (qstop \in {"final", "done"} => qbuf = <<>>)
  BY AccountsPlaces DEF QueueInv
<1>2. \A i \in 1..6 : QueuePlaces[i] \subseteq 1..qsent
  BY <1>1, Zenon DEF OnePlace
<1>3. \A i, j \in 1..6 : i # j => QueuePlaces[i] \cap QueuePlaces[j] = {}
  BY <1>1, Zenon DEF OnePlace
<1>4. Len(qbuf) \in Nat
  BY DEF QueueInv, QueueRows
<1> QED BY Zenon, <1>1, <1>2, <1>3, <1>4

(* The conjuncts of QueueAccounts after a step.                            *)
LEMMA AccountsNow ==
  ASSUME OnePlace(QueuePlaces, qsent)', Len(qbuf') <= QueueSize,
         qstop' \in {"final", "done"} => qbuf' = <<>>
  PROVE QueueAccounts'
<1>1. (/\ OnePlace(QueuePlaces, qsent)
       /\ Len(qbuf) <= QueueSize
       /\ qstop \in {"final", "done"} => qbuf = <<>>)'
  OBVIOUS
<1> QED BY <1>1, AccountsPlaces, PTL

(* The empty buffer.                                                       *)
LEMMA NoRows == <<>> \in Seq(Nat) /\ IsInjective(<<>>) /\ Range(<<>>) = {} /\ Len(<<>>) = 0
BY DEF IsInjective, Range

(* The invariant of the queue holds when it is empty.                      *)
LEMMA QueueStart == QueueInit => QueueInv
<1> SUFFICES ASSUME QueueInit PROVE QueueInv
  OBVIOUS
<1>1. QueueRows /\ Apart
  BY DEF QueueInit, QueueRows, Apart, IsInjective
<1>2. \A i \in 1..6 : QueuePlaces[i] = {}
  <2>1. Range(<<>>) = {}
    BY DEF Range
  <2> QED BY <2>1, PlacesAre, SixPlaces DEF QueueInit
<1>3. 1..0 = {}
  OBVIOUS
<1>4. OnePlace(QueuePlaces, qsent)
  BY <1>2, <1>3 DEF OnePlace, QueueInit
<1>5. QueueAccounts
  BY <1>4, AccountsPlaces, BufferLimits DEF QueueInit
<1> QED BY <1>1, <1>5 DEF QueueInv

\* The buffer becomes a flush.
LEMMA BufferTaken ==
  ASSUME QueueInv, NEW by \in Int, TakeBuffer(by)
  PROVE /\ qbuf' = <<>>
        /\ \A f \in qflight' : f \in [by : Int, rows : Seq(Nat)] /\ IsInjective(f.rows)
        /\ \A f, g \in qflight' : f # g => Range(f.rows) \cap Range(g.rows) = {}
        /\ QueuePlaces'[2] = QueuePlaces[2] \ Range(qbuf)
        /\ QueuePlaces'[3] = QueuePlaces[3] \cup Range(qbuf)
<1>0. /\ qbuf \in Seq(Nat) /\ IsInjective(qbuf) /\ qbuf' = <<>>
      /\ \A f \in qflight : f \in [by : Int, rows : Seq(Nat)] /\ IsInjective(f.rows)
      /\ \A f, g \in qflight : f # g => Range(f.rows) \cap Range(g.rows) = {}
  BY Zenon DEF QueueInv, QueueRows, Apart, TakeBuffer
<1>1. Range(<<>>) = {}
  BY DEF Range
<1>2. QueuePlaces'[2] = QueuePlaces[2] \ Range(qbuf)
  <2>1. QueuePlaces'[2] = Range(qbuf')
    BY DEF QueuePlaces
  <2> QED BY <2>1, <1>0, <1>1, PlacesAre
<1>3. QueuePlaces'[3] = UNION {Range(f.rows) : f \in qflight'}
  BY DEF QueuePlaces
<1>4. CASE qbuf = <<>>
  <2>1. qflight' = qflight
    BY <1>4 DEF TakeBuffer
  <2> QED BY Zenon, <2>1, <1>0, <1>1, <1>2, <1>3, <1>4, PlacesAre
<1>5. CASE qbuf # <<>>
  <2> DEFINE new == [by |-> by, rows |-> qbuf]
  <2>1. qflight' = qflight \cup {new}
    BY Zenon, <1>5 DEF TakeBuffer
  <2>2. new \in [by : Int, rows : Seq(Nat)] /\ new.rows = qbuf
    BY Zenon, <1>0
  <2> HIDE DEF new
  <2>3. \A f \in qflight : Range(f.rows) \cap Range(qbuf) = {}
    <3>1. QueuePlaces[2] \cap QueuePlaces[3] = {}
      BY QueueFacts
    <3>2. \A f \in qflight : Range(f.rows) \subseteq QueuePlaces[3]
      BY PlacesAre
    <3> QED BY <3>1, <3>2, PlacesAre
  <2>4. UNION {Range(f.rows) : f \in qflight'} = (UNION {Range(f.rows) : f \in qflight}) \cup Range(qbuf)
    BY Zenon, <2>1, <2>2
  <2>5. \A f \in qflight' : f \in [by : Int, rows : Seq(Nat)] /\ IsInjective(f.rows)
    BY <2>1, <2>2, <1>0
  <2>6. \A f, g \in qflight' : f # g => Range(f.rows) \cap Range(g.rows) = {}
    BY Zenon, <2>1, <2>2, <2>3, <1>0
  <2> QED BY Zenon, <2>4, <2>5, <2>6, <1>0, <1>2, <1>3, PlacesAre
<1> QED BY Zenon, <1>4, <1>5

\* The steps of the queue that change the rows it holds, one lemma each.
LEMMA FlushStep ==
  ASSUME QueueInv, Flush
  PROVE QueueInv'
<1>0. UNCHANGED <<qwait, qsent, qstored, qdropped, qrefused>> /\ QueueRows /\ Apart
  BY DEF Flush, QueueInv
<1>1. PICK by \in Int : TakeBuffer(by)
  BY DEF Flush, AnyFlush, FinalFlush
<1>2. /\ qbuf' = <<>>
      /\ \A f \in qflight' : f \in [by : Int, rows : Seq(Nat)] /\ IsInjective(f.rows)
      /\ \A f, g \in qflight' : f # g => Range(f.rows) \cap Range(g.rows) = {}
      /\ QueuePlaces'[2] = QueuePlaces[2] \ Range(qbuf)
      /\ QueuePlaces'[3] = QueuePlaces[3] \cup Range(qbuf)
  BY Zenon, <1>1, BufferTaken
<1>3. qstop' \in {"no", "stopped", "final", "done"}
  BY DEF Flush, QueueInv, QueueRows
<1>4. QueueRows' /\ Apart'
  BY Zenon, <1>0, <1>2, <1>3, NoRows DEF QueueRows, Apart
<1>5. Shifts(2, 3, Range(qbuf))
  <2>1. \A k \in {1, 4, 5, 6} : QueuePlaces'[k] = QueuePlaces[k]
    BY <1>0, SamePlaces
  <2>2. Range(qbuf) = QueuePlaces[2]
    BY PlacesAre
  <2> QED BY <1>2, <2>1, <2>2, SixPlaces DEF Shifts
<1>6. OnePlace(QueuePlaces, qsent)'
  BY <1>0, <1>5, Shifted
<1>7. QueueAccounts'
  <2>1. Len(qbuf') <= QueueSize /\ qbuf' = <<>>
    BY <1>2, BufferLimits
  <2> QED BY Zenon, <1>6, <2>1, AccountsNow
<1> QED BY <1>4, <1>7 DEF QueueInv

(* An Enqueue that flushes to make room keeps the invariant.               *)
LEMMA FlushForRoomStep ==
  ASSUME QueueInv, FlushForRoom
  PROVE QueueInv'
<1>0. UNCHANGED <<qstop, qsent, qstored, qdropped, qrefused>> /\ QueueRows /\ Apart
  BY DEF FlushForRoom, QueueInv
<1>1. PICK w \in qwait : /\ qwait' = (qwait \ {w}) \cup {[w EXCEPT !.flushed = TRUE]}
                         /\ TakeBuffer(w.batch[1])
  BY DEF FlushForRoom
<1>2. /\ w \in [batch : Seq(Nat), flushed : BOOLEAN] /\ w.batch # <<>> /\ IsInjective(w.batch)
      /\ w.batch[1] \in Int
  BY <1>0 DEF QueueRows
<1>3. /\ qbuf' = <<>>
      /\ \A f \in qflight' : f \in [by : Int, rows : Seq(Nat)] /\ IsInjective(f.rows)
      /\ \A f, g \in qflight' : f # g => Range(f.rows) \cap Range(g.rows) = {}
      /\ QueuePlaces'[2] = QueuePlaces[2] \ Range(qbuf)
      /\ QueuePlaces'[3] = QueuePlaces[3] \cup Range(qbuf)
  BY Zenon, <1>1, <1>2, BufferTaken
<1> DEFINE new == [w EXCEPT !.flushed = TRUE]
<1>4. new \in [batch : Seq(Nat), flushed : BOOLEAN] /\ new.batch = w.batch
  BY Zenon, <1>2
<1> HIDE DEF new
<1>5. qwait' = (qwait \ {w}) \cup {new}
  BY Zenon, <1>1 DEF new
<1>6. \A v \in qwait' : /\ v \in [batch : Seq(Nat), flushed : BOOLEAN]
                        /\ v.batch # <<>> /\ IsInjective(v.batch)
  BY <1>0, <1>2, <1>4, <1>5 DEF QueueRows
<1>7. \A u, v \in qwait' : u # v => Range(u.batch) \cap Range(v.batch) = {}
  BY Zenon, <1>0, <1>4, <1>5 DEF Apart
<1>8. QueuePlaces'[1] = QueuePlaces[1]
  <2>1. UNION {Range(v.batch) : v \in qwait'} = UNION {Range(v.batch) : v \in qwait}
    BY <1>4, <1>5
  <2>2. QueuePlaces'[1] = UNION {Range(v.batch) : v \in qwait'}
    BY DEF QueuePlaces
  <2> QED BY <2>1, <2>2, PlacesAre
<1>9. QueueRows' /\ Apart'
  BY Zenon, <1>0, <1>3, <1>6, <1>7, NoRows DEF QueueRows, Apart
<1>10. Shifts(2, 3, Range(qbuf))
  <2>1. \A k \in {1, 4, 5, 6} : QueuePlaces'[k] = QueuePlaces[k]
    BY <1>0, <1>8, SamePlaces
  <2>2. Range(qbuf) = QueuePlaces[2]
    BY PlacesAre
  <2> QED BY <1>3, <2>1, <2>2, SixPlaces DEF Shifts
<1>11. OnePlace(QueuePlaces, qsent)'
  BY <1>0, <1>10, Shifted
<1>12. QueueAccounts'
  <2>1. Len(qbuf') <= QueueSize /\ qbuf' = <<>>
    BY <1>3, BufferLimits
  <2> QED BY Zenon, <1>11, <2>1, AccountsNow
<1> QED BY <1>9, <1>12 DEF QueueInv

\* What becomes of the sets of a chunk that ends in the store, the buffer or nowhere.
Lands(c, j) ==
  \/ j = 2 /\ UNCHANGED <<qstored, qdropped, qrefused>> /\ Len(qbuf') <= QueueSize /\ qstop = "no"
     /\ qbuf' \in {qbuf \o c, c \o qbuf}
  \/ j = 4 /\ qstored' = qstored \cup Range(c) /\ UNCHANGED <<qbuf, qdropped, qrefused>>
  \/ j = 5 /\ qdropped' = qdropped \cup Range(c) /\ UNCHANGED <<qbuf, qstored, qrefused>>
  \/ j = 6 /\ qrefused' = qrefused \cup Range(c) /\ UNCHANGED <<qbuf, qstored, qdropped>>

(* Where the rows of a refused, dropped or accepted batch end up.          *)
LEMMA Landed ==
  ASSUME QueueInv, NEW c \in Seq(Nat), IsInjective(c), NEW j, Lands(c, j), qstop' = qstop,
         Range(c) \cap Range(qbuf) = {}
  PROVE /\ j \in {2, 4, 5, 6} /\ QueuePlaces'[j] = QueuePlaces[j] \cup Range(c)
        /\ \A k \in {2, 4, 5, 6} : k # j => QueuePlaces'[k] = QueuePlaces[k]
        /\ qbuf' \in Seq(Nat) /\ IsInjective(qbuf') /\ Len(qbuf') <= QueueSize
        /\ qstop' \in {"final", "done"} => qbuf' = <<>>
<1>0. qbuf \in Seq(Nat) /\ IsInjective(qbuf) /\ Len(qbuf) <= QueueSize
      /\ (qstop \in {"final", "done"} => qbuf = <<>>)
  BY Zenon, QueueFacts DEF QueueInv, QueueRows
<1>1. CASE j = 2
  <2>1. /\ UNCHANGED <<qstored, qdropped, qrefused>> /\ Len(qbuf') <= QueueSize /\ qstop = "no"
        /\ qbuf' \in {qbuf \o c, c \o qbuf}
    BY <1>1 DEF Lands
  <2>2. qbuf' \in Seq(Nat) /\ IsInjective(qbuf') /\ Range(qbuf') = Range(qbuf) \cup Range(c)
    <3>1. CASE qbuf' = qbuf \o c
      BY <3>1, <1>0, CatSets
    <3>2. CASE qbuf' = c \o qbuf
      BY <3>2, <1>0, CatSets
    <3> QED BY Zenon, <3>1, <3>2, <2>1
  <2>3. QueuePlaces'[2] = Range(qbuf')
    BY Zenon DEF QueuePlaces
  <2> QED BY Zenon, <1>1, <2>1, <2>2, <2>3, SamePlaces, PlacesAre
<1>2. CASE j # 2
  <2>1. qbuf' = qbuf /\ j \in {4, 5, 6}
    BY Zenon, <1>2 DEF Lands
  <2>2. QueuePlaces'[4] = qstored' /\ QueuePlaces'[5] = qdropped' /\ QueuePlaces'[6] = qrefused'
    BY Zenon DEF QueuePlaces
  <2>3. QueuePlaces'[2] = QueuePlaces[2]
    BY Zenon, <2>1, SamePlaces
  <2>4. /\ QueuePlaces'[j] = QueuePlaces[j] \cup Range(c)
        /\ \A k \in {4, 5, 6} : k # j => QueuePlaces'[k] = QueuePlaces[k]
    <3>1. CASE j = 4
      BY <3>1, <2>2, PlacesAre DEF Lands
    <3>2. CASE j = 5
      BY <3>2, <2>2, PlacesAre DEF Lands
    <3>3. CASE j = 6
      BY <3>3, <2>2, PlacesAre DEF Lands
    <3> QED BY Zenon, <3>1, <3>2, <3>3, <2>1
  <2> QED BY <1>0, <2>1, <2>3, <2>4
<1> QED BY Zenon, <1>1, <1>2

(* The second attempt of an Enqueue, after its flush, keeps the            *)
(* invariant.                                                              *)
LEMMA EnqueueRetryStep ==
  ASSUME QueueInv, EnqueueRetry
  PROVE QueueInv'
<1>0. UNCHANGED <<qflight, qstop, qsent, qdropped>> /\ QueueRows /\ Apart
  BY Zenon DEF EnqueueRetry, QueueInv
<1>1. PICK w \in qwait : /\ qwait' = qwait \ {w}
                         /\ IF qstop = "no" /\ tryBuffer(w.batch)
                              THEN qbuf' = qbuf \o w.batch /\ UNCHANGED <<qstored, qrefused>>
                              ELSE InsertNow(w.batch) /\ UNCHANGED qbuf
  BY DEF EnqueueRetry
<1>2. w.batch \in Seq(Nat) /\ IsInjective(w.batch)
  BY <1>0 DEF QueueRows
<1>3. qbuf \in Seq(Nat) /\ Len(qbuf) \in Nat /\ Len(w.batch) \in Nat
  BY <1>0, <1>2 DEF QueueRows
<1>4. PICK j \in {2, 4, 6} : Lands(w.batch, j)
  <2>1. CASE qstop = "no" /\ tryBuffer(w.batch)
    <3>1. qbuf' = qbuf \o w.batch /\ UNCHANGED <<qstored, qrefused>>
      BY <1>1, <2>1
    <3>2. Len(qbuf') <= QueueSize
      <4>1. Len(qbuf') = Len(qbuf) + Len(w.batch)
        BY <3>1, <1>2, <1>3, CatSets
      <4> QED BY <4>1, <1>3, <2>1, BufferLimits DEF tryBuffer
    <3>3. Lands(w.batch, 2)
      BY <3>1, <3>2, <2>1, <1>0 DEF Lands
    <3> QED BY <3>3
  <2>2. CASE ~(qstop = "no" /\ tryBuffer(w.batch))
    <3>1. InsertNow(w.batch) /\ UNCHANGED qbuf
      BY Zenon, <1>1, <2>2
    <3>2. Lands(w.batch, 4) \/ Lands(w.batch, 6)
      BY Zenon, <3>1, <1>0 DEF InsertNow, Lands
    <3> QED BY <3>2
  <2> QED BY <2>1, <2>2
<1>5. Range(w.batch) \subseteq QueuePlaces[1]
  BY Zenon, PlacesAre
<1>6. Range(w.batch) \cap Range(qbuf) = {}
  <2>1. QueuePlaces[1] \cap QueuePlaces[2] = {}
    BY QueueFacts
  <2> QED BY Zenon, <2>1, <1>5, PlacesAre
<1>7. /\ QueuePlaces'[j] = QueuePlaces[j] \cup Range(w.batch)
      /\ \A k \in {2, 4, 5, 6} : k # j => QueuePlaces'[k] = QueuePlaces[k]
      /\ qbuf' \in Seq(Nat) /\ IsInjective(qbuf') /\ Len(qbuf') <= QueueSize
      /\ qstop' \in {"final", "done"} => qbuf' = <<>>
  BY Zenon, <1>0, <1>2, <1>4, <1>6, Landed
<1>8. QueuePlaces'[1] = QueuePlaces[1] \ Range(w.batch)
  <2>1. UNION {Range(v.batch) : v \in qwait'} = (UNION {Range(v.batch) : v \in qwait}) \ Range(w.batch)
    BY Zenon, <1>0, <1>1 DEF Apart
  <2>2. QueuePlaces'[1] = UNION {Range(v.batch) : v \in qwait'}
    BY Zenon DEF QueuePlaces
  <2> QED BY Zenon, <2>1, <2>2, PlacesAre
<1>9. Shifts(1, j, Range(w.batch))
  <2>1. QueuePlaces'[3] = QueuePlaces[3]
    BY <1>0, SamePlaces
  <2> QED BY <2>1, <1>4, <1>5, <1>7, <1>8, SixPlaces DEF Shifts
<1>10. OnePlace(QueuePlaces, qsent)'
  BY <1>0, <1>4, <1>9, Shifted
<1>11. QueueRows' /\ Apart'
  BY Zenon, <1>0, <1>1, <1>7 DEF QueueRows, Apart
<1>12. QueueAccounts'
  BY <1>7, <1>10, AccountsNow
<1> QED BY Zenon, <1>11, <1>12 DEF QueueInv

(* The write of a flush, with its failures, keeps the invariant.           *)
LEMMA flushBatchStep ==
  ASSUME QueueInv, flushBatch
  PROVE QueueInv'
<1>0. UNCHANGED <<qwait, qstop, qsent, qrefused>> /\ QueueRows /\ Apart
  BY DEF flushBatch, QueueInv
<1> DEFINE Chunk(f) == SubSeq(f.rows, 1, Min({QueueBatch, Len(f.rows)}))
           Rest(f) == SubSeq(f.rows, Len(Chunk(f)) + 1, Len(f.rows))
<1>1. PICK f \in qflight :
        /\ qflight' = (qflight \ {f}) \cup (IF Rest(f) = <<>> THEN {} ELSE {[f EXCEPT !.rows = Rest(f)]})
        /\ \/ qstored' = qstored \cup Range(Chunk(f)) /\ UNCHANGED <<qbuf, qdropped>>
           \/ requeueOrDrop(Chunk(f)) /\ UNCHANGED qstored
  BY Zenon DEF flushBatch
<1>2. f \in [by : Int, rows : Seq(Nat)] /\ f.rows \in Seq(Nat) /\ IsInjective(f.rows)
  BY <1>0 DEF QueueRows
<1>3. PICK k \in 0..Len(f.rows) : k = Min({QueueBatch, Len(f.rows)})
  <2>1. QueueBatch \in Nat /\ Len(f.rows) \in Nat
    BY <1>2, BufferLimits
  <2>2. \A x, y \in Nat : Min({x, y}) = IF x <= y THEN x ELSE y
    BY SmallerOf
  <2> QED BY <2>1, <2>2
<1>4. PICK c, d : c = SubSeq(f.rows, 1, k) /\ d = SubSeq(f.rows, k + 1, Len(f.rows))
  BY Zenon
<1>5. /\ c \in Seq(Nat) /\ d \in Seq(Nat) /\ Len(c) = k
      /\ Range(f.rows) = Range(c) \cup Range(d)
      /\ IsInjective(c) /\ IsInjective(d) /\ Range(c) \cap Range(d) = {}
  BY <1>2, <1>4, CutSets
<1>6. c = Chunk(f) /\ d = Rest(f)
  BY Zenon, <1>3, <1>4, <1>5
<1> HIDE DEF Chunk, Rest
<1>7. /\ qflight' = (qflight \ {f}) \cup (IF d = <<>> THEN {} ELSE {[f EXCEPT !.rows = d]})
      /\ \/ qstored' = qstored \cup Range(c) /\ UNCHANGED <<qbuf, qdropped>>
         \/ requeueOrDrop(c) /\ UNCHANGED qstored
  BY <1>1, <1>6
<1>8. qbuf \in Seq(Nat) /\ Len(qbuf) \in Nat /\ Len(c) \in Nat
  BY <1>0, <1>5 DEF QueueRows
<1>9. PICK j \in {2, 4, 5} : Lands(c, j)
  <2>1. CASE qstored' = qstored \cup Range(c) /\ UNCHANGED <<qbuf, qdropped>>
    <3>1. Lands(c, 4)
      BY <2>1, <1>0 DEF Lands
    <3> QED BY <3>1
  <2>2. CASE requeueOrDrop(c) /\ UNCHANGED qstored
    <3>1. CASE qstop = "no" /\ QueueSize - Len(qbuf) >= Len(c)
      <4>1. qbuf' = c \o qbuf /\ UNCHANGED qdropped
        BY <2>2, <3>1 DEF requeueOrDrop
      <4>2. Len(qbuf') = Len(c) + Len(qbuf)
        BY Zenon, <4>1, <1>5, <1>8, CatSets
      <4>3. Len(qbuf') <= QueueSize
        BY <4>2, <3>1, <1>8, BufferLimits
      <4>4. Lands(c, 2)
        BY Zenon, <4>1, <4>3, <3>1, <2>2, <1>0 DEF Lands
      <4> QED BY <4>4
    <3>2. CASE ~(qstop = "no" /\ QueueSize - Len(qbuf) >= Len(c))
      <4>1. qdropped' = qdropped \cup Range(c) /\ UNCHANGED qbuf
        BY <2>2, <3>2 DEF requeueOrDrop
      <4>2. Lands(c, 5)
        BY Zenon, <4>1, <2>2, <1>0 DEF Lands
      <4> QED BY <4>2
    <3> QED BY <3>1, <3>2
  <2> QED BY <2>1, <2>2, <1>7
<1>10. Range(f.rows) \subseteq QueuePlaces[3]
  BY Zenon, PlacesAre
<1>11. Range(c) \cap Range(qbuf) = {}
  <2>1. QueuePlaces[3] \cap QueuePlaces[2] = {}
    BY QueueFacts
  <2> QED BY Zenon, <2>1, <1>5, <1>10, PlacesAre
<1>12. /\ QueuePlaces'[j] = QueuePlaces[j] \cup Range(c)
       /\ \A i \in {2, 4, 5, 6} : i # j => QueuePlaces'[i] = QueuePlaces[i]
       /\ qbuf' \in Seq(Nat) /\ IsInjective(qbuf') /\ Len(qbuf') <= QueueSize
       /\ qstop' \in {"final", "done"} => qbuf' = <<>>
  BY <1>0, <1>5, <1>9, <1>11, Landed
<1>13. /\ \A g \in qflight' : g \in [by : Int, rows : Seq(Nat)] /\ IsInjective(g.rows)
       /\ \A g, h \in qflight' : g # h => Range(g.rows) \cap Range(h.rows) = {}
       /\ UNION {Range(g.rows) : g \in qflight'} = (UNION {Range(g.rows) : g \in qflight}) \ Range(c)
  <2>0. \A g \in qflight : g # f => Range(g.rows) \cap Range(f.rows) = {}
    BY <1>0 DEF Apart
  <2>1. CASE d = <<>>
    <3>1. qflight' = qflight \ {f} /\ Range(c) = Range(f.rows)
      BY <2>1, <1>5, <1>7, NoRows
    <3>2. UNION {Range(g.rows) : g \in qflight'} = (UNION {Range(g.rows) : g \in qflight}) \ Range(c)
      BY <3>1, <2>0
    <3>3. \A g \in qflight' : g \in qflight
      BY <3>1
    <3> QED BY Zenon, <3>2, <3>3, <1>0 DEF QueueRows, Apart
  <2>2. CASE d # <<>>
    <3> DEFINE new == [f EXCEPT !.rows = d]
    <3>1. new \in [by : Int, rows : Seq(Nat)] /\ new.rows = d
      BY <1>2, <1>5
    <3>2. qflight' = (qflight \ {f}) \cup {new}
      BY Zenon, <1>7, <2>2
    <3> HIDE DEF new
    <3>3. \A g \in qflight' : g \in [by : Int, rows : Seq(Nat)] /\ IsInjective(g.rows)
      BY <3>1, <3>2, <1>0, <1>5 DEF QueueRows
    <3>4. Range(d) \subseteq Range(f.rows)
      BY <1>5
    <3>5. \A g, h \in qflight' : g # h => Range(g.rows) \cap Range(h.rows) = {}
      BY Zenon, <3>1, <3>2, <3>4, <2>0, <1>0 DEF Apart
    <3>6. UNION {Range(g.rows) : g \in qflight'} = (UNION {Range(g.rows) : g \in qflight \ {f}}) \cup Range(d)
      BY <3>1, <3>2
    <3>7. UNION {Range(g.rows) : g \in qflight} = (UNION {Range(g.rows) : g \in qflight \ {f}}) \cup Range(f.rows)
      OBVIOUS
    <3>8. (UNION {Range(g.rows) : g \in qflight \ {f}}) \cap Range(f.rows) = {}
      BY Zenon, <2>0
    <3>9. UNION {Range(g.rows) : g \in qflight'} = (UNION {Range(g.rows) : g \in qflight}) \ Range(c)
      BY <3>6, <3>7, <3>8, <1>5
    <3> QED BY Zenon, <3>3, <3>5, <3>9
  <2> QED BY Zenon, <2>1, <2>2
<1>14. QueuePlaces'[3] = QueuePlaces[3] \ Range(c)
  <2>1. QueuePlaces'[3] = UNION {Range(g.rows) : g \in qflight'}
    BY Zenon DEF QueuePlaces
  <2> QED BY Zenon, <2>1, <1>13, PlacesAre
<1>15. Shifts(3, j, Range(c))
  <2>1. QueuePlaces'[1] = QueuePlaces[1]
    BY <1>0, SamePlaces
  <2> QED BY <2>1, <1>5, <1>9, <1>10, <1>12, <1>14, SixPlaces DEF Shifts
<1>16. OnePlace(QueuePlaces, qsent)'
  BY <1>0, <1>9, <1>15, Shifted
<1>17. QueueRows' /\ Apart'
  BY Zenon, <1>0, <1>12, <1>13 DEF QueueRows, Apart
<1>18. QueueAccounts'
  BY Zenon, <1>12, <1>16, AccountsNow
<1> QED BY <1>17, <1>18 DEF QueueInv

(* An Enqueue keeps the invariant.                                         *)
LEMMA EnqueueStep ==
  ASSUME QueueInv, NEW n \in Nat \ {0}, Enqueue(n)
  PROVE QueueInv'
<1>0. UNCHANGED <<qflight, qstop, qdropped>> /\ QueueRows /\ Apart /\ qsent' = qsent + n
      /\ qsent \in Nat /\ qsent' \in Nat /\ qbuf \in Seq(Nat) /\ Len(qbuf) \in Nat
  BY DEF Enqueue, QueueInv, QueueRows
<1>1. PICK b : b = [i \in 1..n |-> qsent + i]
  BY Zenon
<1>2. /\ b \in Seq(Nat) /\ Len(b) = n /\ b # <<>> /\ IsInjective(b)
      /\ Range(b) = (qsent + 1)..qsent'
  <2>1. b \in [1..n -> Nat] /\ \A i \in 1..n : b[i] = qsent + i
    BY <1>0, <1>1
  <2>2. b \in Seq(Nat) /\ Len(b) = n /\ DOMAIN b = 1..n
    BY <2>1
  <2>3. IsInjective(b)
    BY <2>1, <2>2, <1>0 DEF IsInjective
  <2>4. Range(b) = (qsent + 1)..qsent'
    <3>1. ASSUME NEW e \in (qsent + 1)..qsent' PROVE e \in Range(b)
      <4>1. e - qsent \in 1..n /\ e = qsent + (e - qsent)
        BY <1>0
      <4>2. e = b[e - qsent]
        BY <4>1, <2>1
      <4> QED BY <4>1, <4>2, <2>2 DEF Range
    <3>2. ASSUME NEW e \in Range(b) PROVE e \in (qsent + 1)..qsent'
      <4>1. PICK i \in 1..n : e = qsent + i
        BY <3>2, <2>1, <2>2 DEF Range
      <4> QED BY <4>1, <1>0
    <3> QED BY Zenon, <3>1, <3>2
  <2> QED BY <2>2, <2>3, <2>4
<1>3. Range(b) \cap (1..qsent) = {}
  BY <1>0, <1>2
<1>4. \A i \in 1..6 : QueuePlaces[i] \cap Range(b) = {}
  BY Zenon, <1>3, QueueFacts
<1>5. Range(b) \cap Range(qbuf) = {}
  BY <1>4, PlacesAre
<1>6. \/ /\ qstop = "no" /\ qwait' = qwait \cup {[batch |-> b, flushed |-> FALSE]}
         /\ UNCHANGED <<qbuf, qstored, qrefused>>
      \/ qwait' = qwait /\ \E j \in {2, 4, 6} : Lands(b, j)
  <2>1. CASE qstop # "no" /\ InsertNow(b) /\ UNCHANGED <<qbuf, qwait>>
    <3>1. Lands(b, 4) \/ Lands(b, 6)
      BY <2>1, <1>0 DEF InsertNow, Lands
    <3> QED BY Zenon, <3>1, <2>1
  <2>2. CASE qstop = "no" /\ tryBuffer(b) /\ qbuf' = qbuf \o b /\ UNCHANGED <<qwait, qstored, qrefused>>
    <3>1. Len(qbuf') = Len(qbuf) + Len(b)
      BY Zenon, <2>2, <1>0, <1>2, CatSets
    <3>2. Len(qbuf') <= QueueSize
      BY <3>1, <2>2, <1>0, <1>2, BufferLimits DEF tryBuffer
    <3>3. Lands(b, 2)
      BY <3>2, <2>2, <1>0 DEF Lands
    <3> QED BY <3>3, <2>2
  <2> QED BY <2>1, <2>2, <1>1 DEF Enqueue
<1>7. CASE qwait' = qwait /\ \E j \in {2, 4, 6} : Lands(b, j)
  <2>1. PICK j \in {2, 4, 6} : Lands(b, j)
    BY <1>7
  <2>2. /\ QueuePlaces'[j] = QueuePlaces[j] \cup Range(b)
        /\ \A i \in {2, 4, 5, 6} : i # j => QueuePlaces'[i] = QueuePlaces[i]
        /\ qbuf' \in Seq(Nat) /\ IsInjective(qbuf') /\ Len(qbuf') <= QueueSize
        /\ qstop' \in {"final", "done"} => qbuf' = <<>>
    BY Zenon, <1>0, <1>2, <1>5, <2>1, Landed
  <2>3. QueuePlaces'[1] = QueuePlaces[1] /\ QueuePlaces'[3] = QueuePlaces[3]
    BY <1>0, <1>7, SamePlaces
  <2>4. OnePlace(QueuePlaces, qsent)'
    <3>2. \A i \in 1..6 : i # j => QueuePlaces'[i] = QueuePlaces[i]
      BY <2>2, <2>3, SixPlaces
    <3>3. qsent <= qsent'
      BY <1>0
    <3>4. Grows(j, Range(b)) /\ j \in 1..6
      BY <3>2, <3>3, <2>1, <2>2, <1>2, SixPlaces DEF Grows
    <3> QED BY Zenon, <3>4, <1>0, Grown
  <2>6. QueueRows' /\ Apart'
    BY Zenon, <1>0, <1>7, <2>2 DEF QueueRows, Apart
  <2>7. QueueAccounts'
    BY <2>2, <2>4, AccountsNow
  <2> QED BY <2>6, <2>7 DEF QueueInv
<1>8. CASE /\ qstop = "no" /\ qwait' = qwait \cup {[batch |-> b, flushed |-> FALSE]}
           /\ UNCHANGED <<qbuf, qstored, qrefused>>
  <2> DEFINE new == [batch |-> b, flushed |-> FALSE]
  <2>1. new \in [batch : Seq(Nat), flushed : BOOLEAN] /\ new.batch = b
    BY <1>2
  <2>2. qwait' = qwait \cup {new}
    BY Zenon, <1>8
  <2> HIDE DEF new
  <2>3. \A v \in qwait' : /\ v \in [batch : Seq(Nat), flushed : BOOLEAN]
                          /\ v.batch # <<>> /\ IsInjective(v.batch)
    BY <2>1, <2>2, <1>0, <1>2 DEF QueueRows
  <2>4. \A v \in qwait : Range(v.batch) \cap Range(b) = {}
    <3>1. \A v \in qwait : Range(v.batch) \subseteq QueuePlaces[1]
      BY PlacesAre
    <3> QED BY <3>1, <1>4
  <2>5. \A u, v \in qwait' : u # v => Range(u.batch) \cap Range(v.batch) = {}
    BY Zenon, <2>1, <2>2, <2>4, <1>0 DEF Apart
  <2>6. QueuePlaces'[1] = QueuePlaces[1] \cup Range(b)
    <3>1. UNION {Range(v.batch) : v \in qwait'} = (UNION {Range(v.batch) : v \in qwait}) \cup Range(b)
      BY <2>1, <2>2
    <3>2. QueuePlaces'[1] = UNION {Range(v.batch) : v \in qwait'}
      BY DEF QueuePlaces
    <3> QED BY <3>1, <3>2, PlacesAre
  <2>7. OnePlace(QueuePlaces, qsent)'
    <3>2. \A i \in {2, 3, 4, 5, 6} : QueuePlaces'[i] = QueuePlaces[i]
      BY Zenon, <1>0, <1>8, SamePlaces
    <3>3. \A i \in 1..6 : i # 1 => QueuePlaces'[i] = QueuePlaces[i]
      BY <3>2, SixPlaces
    <3>4. qsent <= qsent' /\ 1 \in 1..6
      BY <1>0
    <3>5. Grows(1, Range(b))
      BY <3>3, <3>4, <2>6, <1>2 DEF Grows
    <3> QED BY Zenon, <3>4, <3>5, <1>0, Grown
  <2>9. QueueRows' /\ Apart'
    BY Zenon, <1>0, <1>8, <2>3, <2>5 DEF QueueRows, Apart
  <2>10. QueueAccounts'
    BY <1>0, <1>8, <2>7, AccountsNow, QueueFacts
  <2> QED BY Zenon, <2>9, <2>10 DEF QueueInv
<1> QED BY Zenon, <1>6, <1>7, <1>8

(* Closing the queue moves no row.                                         *)
LEMMA QueueIdle ==
  ASSUME QueueInv, UNCHANGED <<qbuf, qflight, qwait, qsent, qstored, qdropped, qrefused>>,
         qstop' \in {qstop, "stopped", "done"}, qstop' = "done" => qstop \in {"final", "done"}
  PROVE QueueInv'
<1>1. QueueRows' /\ Apart'
  BY Zenon DEF QueueInv, QueueRows, Apart
<1>2. OnePlace(QueuePlaces, qsent)'
  <2>1. OnePlace(QueuePlaces, qsent)
    BY Zenon, AccountsPlaces DEF QueueInv
  <2>2. QueuePlaces' = QueuePlaces
    BY Zenon DEF QueuePlaces
  <2> QED BY <2>1, <2>2 DEF OnePlace
<1>3. QueueAccounts'
  BY <1>2, AccountsNow, QueueFacts
<1> QED BY <1>1, <1>3 DEF QueueInv

(* Every step of the queue keeps its invariant.                            *)
LEMMA QueueStep == QueueInv /\ [QueueNext]_queueVars => QueueInv'
<1> SUFFICES ASSUME QueueInv, [QueueNext]_queueVars PROVE QueueInv'
  OBVIOUS
<1>1. ASSUME NEW n \in {1, 3}, Enqueue(n) PROVE QueueInv'
  BY <1>1, EnqueueStep
<1>2. CASE StopQueue
  <2>1. /\ UNCHANGED <<qbuf, qflight, qwait, qsent, qstored, qdropped, qrefused>>
        /\ qstop' \in {qstop, "stopped", "done"} /\ (qstop' = "done" => qstop \in {"final", "done"})
    BY <1>2 DEF StopQueue
  <2> QED BY <2>1, QueueIdle
<1>3. CASE UNCHANGED queueVars
  BY <1>3, QueueIdle DEF queueVars
<1> QED BY <1>1, <1>2, <1>3, FlushForRoomStep, EnqueueRetryStep, FlushStep, flushBatchStep
        DEF QueueNext

-----------------------------------------------------------------------------
SamplingInv ==
  /\ expires \in 0..SamplingTTL /\ current \in Nat
  /\ cached # rules /\ expires > 0 => current + expires <= SamplingTTL

(* The invariant of the sampling cache holds when it is empty.             *)
LEMMA SamplingStart == SamplingInit => SamplingInv
BY BufferLimits DEF SamplingInit, SamplingInv, NoRules

(* Every step of the sampling cache keeps its invariant.                   *)
LEMMA SamplingStep == SamplingInv /\ [SamplingNext]_samplingVars => SamplingInv'
<1> SUFFICES ASSUME SamplingInv, [SamplingNext]_samplingVars PROVE SamplingInv'
  OBVIOUS
<1> USE BufferLimits
<1>1. CASE SetSamplingRules
  BY <1>1 DEF SetSamplingRules, SamplingInv
<1>2. CASE SamplingTick
  <2>1. /\ expires' = (IF 0 >= expires - 1 THEN 0 ELSE expires - 1)
        /\ current' = (IF current + 1 <= SamplingTTL + 1 THEN current + 1 ELSE SamplingTTL + 1)
    <3>1. expires - 1 \in Int /\ current + 1 \in Int /\ SamplingTTL + 1 \in Int /\ 0 \in Int
      BY DEF SamplingInv
    <3> QED BY Zenon, <3>1, <1>2, SmallerOf DEF SamplingTick
  <2>2. UNCHANGED <<rules, cached>>
    BY Zenon, <1>2 DEF SamplingTick
  <2> QED BY <2>1, <2>2 DEF SamplingInv
<1>3. CASE cachedSamplingRules(TRUE)
  BY <1>3 DEF cachedSamplingRules, SamplingInv
<1>4. CASE cachedSamplingRules(FALSE)
  BY <1>4 DEF cachedSamplingRules, SamplingInv
<1>5. CASE UNCHANGED samplingVars
  BY <1>5 DEF samplingVars, SamplingInv
<1> QED BY Zenon, <1>1, <1>2, <1>3, <1>4, <1>5 DEF SamplingNext

(* A rule changed longer ago than its TTL is not applied: from the         *)
(* invariant.                                                              *)
LEMMA RulesFresh == SamplingInv => SamplingFresh
BY BufferLimits DEF SamplingInv, SamplingFresh

=============================================================================
