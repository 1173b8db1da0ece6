------------------------------ MODULE JobQueue ------------------------------
(***************************************************************************)
(* The background job queue (internal/jobs): a SQLite table of jobs, one   *)
(* worker that claims and runs them, a reaper that takes back jobs left    *)
(* "running", one scheduler goroutine per recurring job, and the process   *)
(* around them, which may crash or be stopped at any point.                *)
(*                                                                         *)
(* Job j is the j-th row inserted.  Instants are abstracted to the three   *)
(* comparisons the code makes: due[j] is run_at <= now, stale[j] is        *)
(* started_at before the visibility deadline, and ctxLive says that the    *)
(* bookkeeping context has not timed out.  That context is created before  *)
(* the handler runs and lives 15 seconds, the visibility timeout is half   *)
(* an hour, so it has expired before the job it belongs to can be stale.   *)
(***************************************************************************)
EXTENDS Integers

CONSTANTS
    Scheduled,      \* recurring job types
    Posted,         \* job types that are only inserted by EnqueueAt
    OptionalTypes,       \* recurring types a configuration may leave out
    PruneType,      \* the type of the job that prunes the table
    MaxJobs,        \* bound on the number of rows ever inserted
    MaxAttempts,    \* max_attempts
    DBFails,        \* may a statement fail?
    SlowHandlers    \* may a handler outlive bookkeepingTimeout?

ASSUME ConstantsAssumption ==
    /\ Scheduled \cap Posted = {}
    /\ OptionalTypes \subseteq Scheduled /\ PruneType \in Scheduled \ OptionalTypes
    /\ MaxJobs \in Nat \ {0} /\ MaxAttempts \in Nat \ {0}
    /\ DBFails \in BOOLEAN /\ SlowHandlers \in BOOLEAN

VARIABLES
    mode,      \* "up", "stopping" (poll context cancelled) or "down"
    enabled,   \* the process is configured with the optional types
    type, status, attempts, due, stale,   \* the table
    inserted,  \* number of rows inserted so far
    phase,     \* the worker: "idle", "handling" or "recording"
    job,       \* the job it has claimed
    ok,        \* did the handler return nil?
    ctxLive,   \* bookkeepingCtx has not timed out
    sched,     \* the goroutine of each schedule: "waiting" or "inserting"
    runs       \* how often a handler was started for each job

process == <<mode, enabled>>
table  == <<type, status, attempts, due, stale, inserted>>
worker == <<phase, job, ok, ctxLive>>
vars   == <<process, table, worker, sched, runs>>

JobIds      == 1 .. MaxJobs
Types    == Scheduled \cup Posted
Statuses == {"none", "pending", "running", "completed", "dead", "pruned"}
Registered == IF enabled THEN Types ELSE Types \ OptionalTypes
Active(t) == {j \in JobIds : type[j] = t /\ status[j] \in {"pending", "running"}}

JobsInit ==
        /\ mode = "down" /\ enabled = TRUE
        /\ type = [j \in JobIds |-> PruneType]
        /\ status = [j \in JobIds |-> "none"]
        /\ attempts = [j \in JobIds |-> 0]
        /\ due = [j \in JobIds |-> FALSE] /\ stale = [j \in JobIds |-> FALSE]
        /\ inserted = 0
        /\ phase = "idle" /\ job = 1 /\ ok = FALSE /\ ctxLive = FALSE
        /\ sched = [t \in Scheduled |-> "waiting"]
        /\ runs = [j \in JobIds |-> 0]

-----------------------------------------------------------------------------
(* Inserting.                                                              *)

Insert(t, now) ==
    /\ inserted < MaxJobs
    /\ inserted' = inserted + 1
    /\ type' = [type EXCEPT ![inserted + 1] = t]
    /\ status' = [status EXCEPT ![inserted + 1] = "pending"]
    /\ due' = [due EXCEPT ![inserted + 1] = now]
    /\ UNCHANGED <<attempts, stale>>

(* Variant: a job that is being run does not hold the next one back.       *)
MaybeEnqueueCountsPending(t) ==
    /\ mode = "up" /\ t \in Registered
    /\ sched[t] = "waiting"
    /\ \A j \in Active(t) : status[j] # "pending"
    /\ sched' = [sched EXCEPT ![t] = "inserting"]
    /\ UNCHANGED <<process, table, worker, runs>>

(* Only types with a handler are scheduled.  maybeEnqueue counts the       *)
(* pending and running jobs of its type and goes on only if there are none.*)
MaybeEnqueue(t) ==
    /\ mode = "up" /\ t \in Registered
    /\ sched[t] = "waiting"
    /\ Active(t) = {}
    /\ sched' = [sched EXCEPT ![t] = "inserting"]
    /\ UNCHANGED <<process, table, worker, runs>>

(* ... and then, in a statement of its own, inserts a row; this fails when *)
(* the database does, or when the context has been cancelled meanwhile.    *)
EnqueueJob(t) ==
       /\ mode # "down"
       /\ sched[t] = "inserting"
       /\ \/ mode = "up" /\ Insert(t, TRUE)
          \/ (DBFails \/ mode = "stopping") /\ UNCHANGED table
       /\ sched' = [sched EXCEPT ![t] = "waiting"]
       /\ UNCHANGED <<process, worker, runs>>

(* EnqueueAt, as ScheduleReport calls it: a row to be run later.           *)
EnqueueAt(t) ==
    /\ mode = "up"
    /\ t \in Posted
    /\ Insert(t, FALSE)
    /\ UNCHANGED <<process, worker, sched, runs>>

(* run_at is reached.                                                      *)
BecomeDue(j) ==
    /\ status[j] = "pending" /\ ~due[j]
    /\ due' = [due EXCEPT ![j] = TRUE]
    /\ UNCHANGED <<process, type, status, attempts, stale, inserted, worker,
                   sched, runs>>

-----------------------------------------------------------------------------
(* The worker.                                                             *)

(* processNext returns: its job, result and context are gone.              *)
Return == phase' = "idle" /\ job' = 1 /\ ok' = FALSE /\ ctxLive' = FALSE

Claimable == {j \in JobIds : status[j] = "pending" /\ due[j]}

(* ClaimNext: the oldest due job becomes "running" in one transaction.     *)
Claim(j) ==
    /\ phase = "idle"
    /\ j \in Claimable /\ \A i \in Claimable : j <= i
    /\ status' = [status EXCEPT ![j] = "running"]
    /\ stale' = [stale EXCEPT ![j] = FALSE]
    /\ UNCHANGED <<process, type, attempts, due, inserted, sched>>

(* processNext starts the handler; without one it records a failure.       *)
ClaimNext(j) ==
    /\ mode = "up"
    /\ Claim(j)
    /\ job' = j
    /\ ctxLive' = TRUE
    /\ ok' = FALSE
    /\ IF type[j] \in Registered
       THEN phase' = "handling" /\ runs' = [runs EXCEPT ![j] = @ + 1]
       ELSE phase' = "recording" /\ UNCHANGED runs

(* ClaimNext commits, but reading the row back fails, if only because Stop *)
(* has cancelled the context meanwhile: nobody runs the job.               *)
ClaimLost(j) ==
    /\ (mode = "up" /\ DBFails) \/ mode = "stopping"
    /\ Claim(j)
    /\ UNCHANGED <<worker, runs>>

(* bookkeepingTimeout passes while the handler runs.                       *)
ContextExpires ==
    /\ SlowHandlers
    /\ phase = "handling" /\ ctxLive
    /\ ctxLive' = FALSE
    /\ UNCHANGED <<process, table, phase, job, ok, sched, runs>>

HandlerReturns(b) ==
    /\ phase = "handling"
    /\ phase' = "recording"
    /\ ok' = b
    /\ UNCHANGED <<process, table, job, ctxLive, sched, runs>>

(* Variant: Complete runs on a context without deadline.                   *)
CompleteAnyTime ==
    /\ phase = "recording" /\ ok
    /\ status' = [status EXCEPT ![job] = "completed"]
    /\ Return
    /\ UNCHANGED <<process, type, attempts, due, stale, inserted, sched, runs>>

(* Complete: the update does not look at the row's status.                 *)
Complete ==
    /\ phase = "recording" /\ ok
    /\ ctxLive
    /\ status' = [status EXCEPT ![job] = "completed"]
    /\ Return
    /\ UNCHANGED <<process, type, attempts, due, stale, inserted, sched, runs>>

(* Variant: one attempt too many.                                          *)
FailOffByOne ==
    /\ phase = "recording" /\ ~ok
    /\ ctxLive
    /\ attempts' = [attempts EXCEPT ![job] = @ + 1]
    /\ status' = [status EXCEPT ![job] =
                    IF attempts[job] >= MaxAttempts THEN "dead" ELSE "pending"]
    /\ due' = [due EXCEPT ![job] = FALSE]
    /\ Return
    /\ UNCHANGED <<process, type, stale, inserted, sched, runs>>

(* Fail: back to "pending" after a backoff, or "dead".                     *)
FailJob ==
       /\ phase = "recording" /\ ~ok
       /\ ctxLive
       /\ attempts' = [attempts EXCEPT ![job] = @ + 1]
       /\ status' = [status EXCEPT ![job] =
                       IF attempts[job] + 1 >= MaxAttempts THEN "dead"
                                                           ELSE "pending"]
       /\ due' = [due EXCEPT ![job] = FALSE]
       /\ Return
       /\ UNCHANGED <<process, type, stale, inserted, sched, runs>>

(* Complete or Fail returns an error, which is logged: the row stays.      *)
RecordFails ==
    /\ phase = "recording"
    /\ DBFails \/ ~ctxLive
    /\ Return
    /\ UNCHANGED <<process, table, sched, runs>>

-----------------------------------------------------------------------------
(* ReapOrphaned.                                                           *)

(* The visibility deadline passes for a running job.                       *)
BecomeStale(j) ==
    /\ status[j] = "running" /\ ~stale[j]
    /\ ~(phase # "idle" /\ job = j /\ ctxLive)
    /\ stale' = [stale EXCEPT ![j] = TRUE]
    /\ UNCHANGED <<process, type, status, attempts, due, inserted, worker,
                   sched, runs>>

(* Variant: a job taken back is not charged for the lost attempt.          *)
TakeBackFree(D, S) ==
    /\ status' = [j \in JobIds |-> IF j \in D THEN "dead"
                                   ELSE IF j \in S THEN "pending" ELSE status[j]]
    /\ due' = [j \in JobIds |-> j \in S \/ due[j]]
    /\ UNCHANGED <<attempts, type, stale, inserted>>

(* Variant: there is no statement for the jobs out of attempts.            *)
TakeBackPending(D, S) ==
    /\ attempts' = [j \in JobIds |-> IF j \in S THEN attempts[j] + 1
                                     ELSE attempts[j]]
    /\ status' = [j \in JobIds |-> IF j \in S THEN "pending" ELSE status[j]]
    /\ due' = [j \in JobIds |-> j \in S \/ due[j]]
    /\ UNCHANGED <<type, stale, inserted>>

(* The two updates: D runs out of attempts and dies, S is to be run again. *)
TakeBack(D, S) ==
    /\ attempts' = [j \in JobIds |-> IF j \in D \cup S THEN attempts[j] + 1
                                     ELSE attempts[j]]
    /\ status' = [j \in JobIds |-> IF j \in D THEN "dead"
                                   ELSE IF j \in S THEN "pending" ELSE status[j]]
    /\ due' = [j \in JobIds |-> j \in S \/ due[j]]
    /\ UNCHANGED <<type, stale, inserted>>

(* ReapOrphaned over the running rows R; the second statement may fail.    *)
ReapOrphaned(R) ==
    LET D == {j \in R : attempts[j] + 1 >= MaxAttempts}
    IN  \/ TakeBack(D, R \ D)
        \/ DBFails /\ TakeBack(D, {})

(* reapLoop: the stale ones, while the worker goes on.                     *)
Reap ==
    /\ mode = "up"
    /\ \E j \in JobIds : status[j] = "running" /\ stale[j]
    /\ ReapOrphaned({j \in JobIds : status[j] = "running" /\ stale[j]})
    /\ UNCHANGED <<process, worker, sched, runs>>

(* RunJobRetention, a job of this queue, prunes old finished rows.         *)
Prune(j) ==
    /\ phase = "handling" /\ type[job] = PruneType
    /\ status[j] \in {"completed", "dead"}
    /\ status' = [status EXCEPT ![j] = "pruned"]
    /\ UNCHANGED <<process, type, attempts, due, stale, inserted, worker,
                   sched, runs>>

-----------------------------------------------------------------------------
(* The process.                                                            *)

(* startJobQueue registers and schedules what is configured, and reaps:    *)
(* every running row is an orphan.                                         *)
Start ==
    /\ mode = "down"
    /\ mode' = "up" /\ enabled' \in BOOLEAN
    /\ \/ ReapOrphaned({j \in JobIds : status[j] = "running"})
       \/ DBFails /\ UNCHANGED table
    /\ UNCHANGED <<worker, sched, runs>>

(* Stop cancels the poll context and waits for the job under way.          *)
Stop ==
    /\ mode = "up"
    /\ mode' = "stopping"
    /\ UNCHANGED <<enabled, table, worker, sched, runs>>

Stopped ==
    /\ mode = "stopping"
    /\ phase = "idle" /\ \A t \in Scheduled : sched[t] = "waiting"
    /\ mode' = "down"
    /\ UNCHANGED <<enabled, table, worker, sched, runs>>

Crash ==
    /\ mode # "down"
    /\ mode' = "down"
    /\ Return
    /\ sched' = [t \in Scheduled |-> "waiting"]
    /\ UNCHANGED <<enabled, table, runs>>

-----------------------------------------------------------------------------
Scheduler == \E t \in Scheduled : MaybeEnqueue(t) \/ EnqueueJob(t)

Worker ==
    \/ \E j \in JobIds : ClaimNext(j) \/ ClaimLost(j)
    \/ \E b \in BOOLEAN : HandlerReturns(b)
    \/ Complete \/ FailJob \/ RecordFails

Time == ContextExpires \/ \E j \in JobIds : BecomeDue(j) \/ BecomeStale(j)

JobsNext ==
        \/ Scheduler \/ Worker \/ Time \/ Reap
        \/ \E t \in Types : EnqueueAt(t)
        \/ \E j \in JobIds : Prune(j)
        \/ Start \/ Stop \/ Stopped \/ Crash

JobsSpec == JobsInit /\ [][JobsNext]_vars

(* Goroutines run, tickers fire, time passes and the process is restarted. *)
(* Crashes, shutdowns and database errors are not for ever.                *)
Trouble ==
    \/ Stop \/ Crash \/ (ctxLive /\ RecordFails)
    \/ \E j \in JobIds : ClaimLost(j)
    \/ Reap /\ \E j \in JobIds : status'[j] = "running" /\ stale[j]
    \/ Start /\ \E j \in JobIds : status'[j] = "running"

Fairness ==
    /\ WF_vars(Worker) /\ WF_vars(Reap) /\ WF_vars(Start) /\ WF_vars(Stopped)
    /\ WF_vars(\E t \in Scheduled : EnqueueJob(t))
    /\ \A j \in JobIds : WF_vars(BecomeDue(j)) /\ WF_vars(BecomeStale(j))
    /\ <>[][~Trouble]_vars

FairSpec == JobsSpec /\ Fairness

-----------------------------------------------------------------------------
TypeOK ==
    /\ mode \in {"up", "stopping", "down"} /\ enabled \in BOOLEAN
    /\ type \in [JobIds -> Types] /\ status \in [JobIds -> Statuses]
    /\ attempts \in [JobIds -> 0 .. MaxAttempts]
    /\ due \in [JobIds -> BOOLEAN] /\ stale \in [JobIds -> BOOLEAN]
    /\ inserted \in 0 .. MaxJobs
    /\ phase \in {"idle", "handling", "recording"} /\ job \in JobIds
    /\ ok \in BOOLEAN /\ ctxLive \in BOOLEAN
    /\ sched \in [Scheduled -> {"waiting", "inserting"}]
    /\ runs \in [JobIds -> Nat]

(* maybeEnqueue's check and its insert are two statements, and a failed or *)
(* reclaimed job becomes pending again; still there is never more than one *)
(* unfinished job of a recurring type.                                     *)
OneUnfinished == \A t \in Scheduled : \A i, j \in Active(t) : i = j

(* Jobs are at-least-once, but bounded: crashes, lost bookkeeping writes,  *)
(* reaps and failures together start a handler at most max_attempts times. *)
RunsBounded == \A j \in JobIds : runs[j] <= MaxAttempts

(* A job that was taken back, or has died, is never touched by the late    *)
(* Complete or Fail of the run it was taken from, although those updates   *)
(* do not check the row's status.                                          *)
ReclaimedStays ==
    [][Complete \/ FailJob => status[job] = "running"]_vars

(* Every job is completed or dies in the end: nothing stays pending or     *)
(* running for ever and so blocks its recurring type.                      *)
JobsFinish ==
    \A j \in JobIds : status[j] \in {"pending", "running"}
                        ~> status[j] \in {"completed", "dead", "pruned"}

(* What the comment in processNext promises: the job of a finished handler *)
(* is not left "running", to be executed again, when the process has not   *)
(* crashed and no statement has failed.                                    *)
FinishedIsRecorded ==
    mode = "up" /\ phase = "idle" => \A j \in JobIds : status[j] # "running"

=============================================================================
