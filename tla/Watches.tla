------------------------------ MODULE Watches ------------------------------
(***************************************************************************)
(* Watches (internal/watcher): rows of the watches table, the scheduler    *)
(* that polls them, the reactive evaluators started by ingested logs, the  *)
(* alerts they raise, and the process around them.                         *)
(*                                                                         *)
(* Scheduler and reactive passes run the same evaluator; each works        *)
(* through a list it read earlier, so a watch can change between being     *)
(* listed and being evaluated.  Watches are numbered in the order of their *)
(* creation.  What a condition measures is a free choice.  age[w] reduces  *)
(* last_checked_at and next_check_at to the two comparisons made: 0 for    *)
(* "checked within half the interval", 1 for "later", 2 for "due".         *)
(***************************************************************************)
EXTENDS Integers, FiniteSets

CONSTANTS
    Watches,          \* watches, numbered as they are created
    Streams,          \* slots of the stream evaluator's semaphore
    MinConsecutive,   \* min_consecutive
    PollLimit,        \* maxTriggeredWatchesPerPoll
    NotifySlots,      \* maxInFlightNotifyBatches
    StatementsFail,          \* may a statement fail (or a pass run into its timeout)?
    Crashes           \* may the process be killed?

ASSUME WatchConstants ==
    /\ Watches \subseteq Nat /\ "sched" \notin Streams
    /\ MinConsecutive \in Nat \ {0} /\ PollLimit \in Nat \ {0}
    /\ NotifySlots \in Nat
    /\ StatementsFail \in BOOLEAN /\ Crashes \in BOOLEAN

VARIABLES
    watcher,                          \* "up", "stopping" (ctx cancelled), "down"
    wstatus, breaches, age, past,   \* the table; past[w] is expires_at <= now
    pc, todo, cur, snap,           \* the evaluators: where, what, which row
    doomed,                        \* listed watches the sweep saw expired
    alerts,                        \* watches with a row in watch_alerts
    inflight,                      \* alert deliveries under way
    streak                         \* breached checks recorded in a row

wtable == <<wstatus, breaches, age, past>>
evals == <<pc, todo, cur, snap, doomed>>
watchVars  == <<watcher, wtable, evals, alerts, inflight, streak>>

Evaluators == {"sched"} \cup Streams
WatchStatuses   == {"none", "active", "triggered", "resolved", "expired", "deleted"}
MaxBreaches == MinConsecutive + 1   \* the counter saturates here
WatchRows       == {w \in Watches : wstatus[w] \notin {"none", "deleted"}}
With(st)   == {w \in Watches : wstatus[w] = st}

Working  == watcher = "up"                     \* a statement may succeed
Failing  == StatementsFail \/ watcher = "stopping"    \* a statement may fail

WatchInit ==
         /\ watcher = "up"
         /\ wstatus = [w \in Watches |-> "none"]
         /\ breaches = [w \in Watches |-> 0]
         /\ age = [w \in Watches |-> 0]
         /\ past = [w \in Watches |-> FALSE]
         /\ pc = [p \in Evaluators |-> "idle"]
         /\ todo = [p \in Evaluators |-> {}]
         /\ cur = [p \in Evaluators |-> 0]
         /\ snap = [p \in Evaluators |-> [status |-> "none", breaches |-> 0]]
         /\ doomed = {}
         /\ alerts = {}
         /\ inflight = [d \in {"sched", "stream"} |-> 0]
         /\ streak = [w \in Watches |-> 0]

-----------------------------------------------------------------------------
(* Users and time.                                                         *)

(* A new watch was never checked: a reactive pass may take it at once.     *)
(* Requests are served until the HTTP server has drained.                  *)
Create(w) ==
    /\ watcher # "down"
    /\ wstatus[w] = "none" /\ \A v \in With("none") : w <= v
    /\ wstatus' = [wstatus EXCEPT ![w] = "active"]
    /\ age' = [age EXCEPT ![w] = 1]
    /\ UNCHANGED <<watcher, breaches, past, evals, alerts, inflight, streak>>

(* Runs and alerts go with their watch (ON DELETE CASCADE).                *)
Delete(w) ==
    /\ watcher # "down"
    /\ w \in WatchRows
    /\ wstatus' = [wstatus EXCEPT ![w] = "deleted"]
    /\ breaches' = [breaches EXCEPT ![w] = 0]
    /\ age' = [age EXCEPT ![w] = 0]
    /\ past' = [past EXCEPT ![w] = FALSE]
    /\ streak' = [streak EXCEPT ![w] = 0]
    /\ alerts' = alerts \ {w}
    /\ UNCHANGED <<watcher, evals, inflight>>

Age(w) ==
    /\ w \in WatchRows /\ age[w] < 2
    /\ age' = [age EXCEPT ![w] = @ + 1]
    /\ UNCHANGED <<watcher, wstatus, breaches, past, evals, alerts, inflight,
                   streak>>

Expiry(w) ==
    /\ w \in WatchRows /\ ~past[w]
    /\ past' = [past EXCEPT ![w] = TRUE]
    /\ UNCHANGED <<watcher, wstatus, breaches, age, evals, alerts, inflight,
                   streak>>

-----------------------------------------------------------------------------
(* Evaluating one watch.                                                   *)

Goto(p, l) == pc' = [pc EXCEPT ![p] = l]
ForgetWatch(p)  == /\ cur' = [cur EXCEPT ![p] = 0]
                   /\ snap' = [snap EXCEPT ![p] = [status |-> "none",
                                                   breaches |-> 0]]

(* The keyed mutex: held from the read of the row to Evaluate's return.    *)
WatchLocked(w) == \E p \in Evaluators : cur[p] = w
                                          /\ pc[p] \in {"measure", "trigger"}

UpdateStatus(w, st) ==
    wstatus' = IF w \in WatchRows THEN [wstatus EXCEPT ![w] = st] ELSE wstatus

UpdateAfterCheck(w, n) ==
    /\ breaches' = [breaches EXCEPT ![w] = n]
    /\ age' = [age EXCEPT ![w] = 0]

(* evaluateWatch, evaluateOne: a run is created for the next watch of the  *)
(* list; this fails if the watch is gone, and the watch is skipped.        *)
CreateRun(p, w) ==
    /\ pc[p] = "eval" /\ w \in todo[p]
    /\ todo' = [todo EXCEPT ![p] = @ \ {w}]
    /\ \/ /\ Working /\ w \in WatchRows
          /\ Goto(p, "lock") /\ cur' = [cur EXCEPT ![p] = w]
       \/ (Failing \/ w \notin WatchRows) /\ UNCHANGED <<pc, cur>>
    /\ UNCHANGED <<watcher, wtable, snap, doomed, alerts, inflight, streak>>

(* Variant: evaluations of one watch are not serialized.                   *)
ReadUnlocked(p) ==
    /\ pc[p] = "lock"
    /\ \/ /\ Working /\ cur[p] \in WatchRows
          /\ Goto(p, "measure")
          /\ snap' = [snap EXCEPT ![p] = [status |-> wstatus[cur[p]],
                                          breaches |-> breaches[cur[p]]]]
          /\ UNCHANGED cur
       \/ /\ Failing \/ cur[p] \notin WatchRows
          /\ Goto(p, "eval") /\ ForgetWatch(p)
    /\ UNCHANGED <<watcher, wtable, todo, doomed, alerts, inflight, streak>>

(* Evaluate takes the watch's lock and reads the row again.                *)
Read(p) ==
    /\ pc[p] = "lock" /\ ~WatchLocked(cur[p])
    /\ \/ /\ Working /\ cur[p] \in WatchRows
          /\ Goto(p, "measure")
          /\ snap' = [snap EXCEPT ![p] = [status |-> wstatus[cur[p]],
                                          breaches |-> breaches[cur[p]]]]
          /\ UNCHANGED cur
       \/ /\ Failing \/ cur[p] \notin WatchRows
          /\ Goto(p, "eval") /\ ForgetWatch(p)
    /\ UNCHANGED <<watcher, wtable, todo, doomed, alerts, inflight, streak>>

(* Variant: a watch that is triggered already fires again.                 *)
FiresAgain(p, n) == n >= MinConsecutive

(* Does a check with n breaches in a row fire?                             *)
Fires(p, n) == n >= MinConsecutive /\ snap[p].status # "triggered"

(* evaluateLocked measures and stores the counter.                         *)
CheckWatch(p, breached) ==
         LET w == cur[p]
             n == IF ~breached THEN 0
                  ELSE IF snap[p].breaches < MaxBreaches THEN snap[p].breaches + 1
                  ELSE MaxBreaches
         IN  /\ pc[p] = "measure"
             /\ Working /\ w \in WatchRows
             /\ UpdateAfterCheck(w, n)
             /\ streak' = [streak EXCEPT ![w] = IF ~breached THEN 0
                                                ELSE IF @ < MaxBreaches THEN @ + 1
                                                ELSE @]
             /\ IF breached /\ Fires(p, n)
                THEN Goto(p, "trigger") /\ UNCHANGED <<cur, snap>>
                ELSE Goto(p, "eval") /\ ForgetWatch(p)
             /\ UNCHANGED <<watcher, wstatus, past, todo, doomed, alerts, inflight>>

(* recordFailedCheck for a transient failure, of the measurement or of a   *)
(* statement: the counter is put back to what was read, the schedule moves *)
(* on; both only if this statement works.                                  *)
FailedCheck(p) ==
    /\ \/ pc[p] = "measure"
       \/ pc[p] = "trigger" /\ (Failing \/ cur[p] \notin WatchRows)
    /\ \/ /\ Working /\ cur[p] \in WatchRows
          /\ UpdateAfterCheck(cur[p], snap[p].breaches)
       \/ (Failing \/ cur[p] \notin WatchRows) /\ UNCHANGED <<breaches, age>>
    /\ Goto(p, "eval") /\ ForgetWatch(p)
    /\ UNCHANGED <<watcher, wstatus, past, todo, doomed, alerts, inflight, streak>>

(* recordFailedCheck for an invalid definition: the watch is disabled.     *)
Invalid(p) ==
    /\ pc[p] = "measure"
    /\ Working
    /\ UpdateStatus(cur[p], "expired")
    /\ Goto(p, "eval") /\ ForgetWatch(p)
    /\ UNCHANGED <<watcher, breaches, age, past, todo, doomed, alerts, inflight,
                   streak>>

(* The transition to "triggered", whatever the row says by now.            *)
Trigger(p) ==
    /\ pc[p] = "trigger"
    /\ Working /\ cur[p] \in WatchRows
    /\ UpdateStatus(cur[p], "triggered")
    /\ Goto(p, "alert")
    /\ UNCHANGED <<watcher, breaches, age, past, todo, cur, snap, doomed, alerts,
                   inflight, streak>>

Dispatcher(p) == IF p = "sched" THEN "sched" ELSE "stream"

(* dispatch: handed to a goroutine, or dropped when too many are running.  *)
Dispatch(p) ==
    LET d == Dispatcher(p)
    IN  inflight' = IF inflight[d] < NotifySlots
                    THEN [inflight EXCEPT ![d] = @ + 1] ELSE inflight

(* createAlert: the insert fails if the watch is gone, ...                 *)
CreateAlert(p) ==
    /\ pc[p] = "alert"
    /\ \/ /\ Working /\ cur[p] \in WatchRows
          /\ alerts' = alerts \cup {cur[p]}
          /\ Goto(p, "deliver") /\ UNCHANGED <<cur, snap>>
       \/ /\ Failing \/ cur[p] \notin WatchRows
          /\ Goto(p, "eval") /\ ForgetWatch(p) /\ UNCHANGED alerts
    /\ UNCHANGED <<watcher, wtable, todo, doomed, inflight, streak>>

(* ... and an alert that cannot be read back is not dispatched.            *)
Deliver(p) ==
    /\ pc[p] = "deliver"
    /\ \/ Working /\ cur[p] \in alerts /\ Dispatch(p)
       \/ (Failing \/ cur[p] \notin alerts) /\ UNCHANGED inflight
    /\ Goto(p, "eval") /\ ForgetWatch(p)
    /\ UNCHANGED <<watcher, wtable, todo, doomed, alerts, streak>>

(* Variant: the slot is released twice.                                    *)
NotifiedTwice(d) ==
    /\ inflight[d] > 0
    /\ inflight' = [inflight EXCEPT ![d] = @ - 2]
    /\ UNCHANGED <<watcher, wtable, evals, alerts, streak>>

(* NotifyAllWatchAlert returns: delivered, or given up after the timeout.  *)
Notified(d) ==
    /\ inflight[d] > 0
    /\ inflight' = [inflight EXCEPT ![d] = @ - 1]
    /\ UNCHANGED <<watcher, wtable, evals, alerts, streak>>

EndPass(p) ==
    /\ pc[p] = "eval" /\ todo[p] = {}
    /\ Goto(p, "idle")
    /\ UNCHANGED <<watcher, wtable, todo, cur, snap, doomed, alerts, inflight,
                   streak>>

-----------------------------------------------------------------------------
(* A reactive pass over the active watches that match the batch.           *)

OnLogsReceived(s) ==
    /\ Working
    /\ pc[s] = "idle"
    /\ \E T \in SUBSET {w \in With("active") : age[w] > 0} :
          T # {} /\ todo' = [todo EXCEPT ![s] = T]
    /\ Goto(s, "eval")
    /\ UNCHANGED <<watcher, wtable, cur, snap, doomed, alerts, inflight, streak>>

-----------------------------------------------------------------------------
(* The scheduler's tick.                                                   *)

(* Cleanup: active watches past their expiry expire.                       *)
Tick ==
    /\ Working
    /\ pc["sched"] = "idle"
    /\ \/ wstatus' = [w \in Watches |-> IF wstatus[w] = "active" /\ past[w]
                                        THEN "expired" ELSE wstatus[w]]
       \/ StatementsFail /\ UNCHANGED wstatus
    /\ Goto("sched", "list")
    /\ UNCHANGED <<watcher, breaches, age, past, todo, cur, snap, doomed, alerts,
                   inflight, streak>>

(* At most PollLimit triggered watches are listed, the newest ones.        *)
NewestFew(S) == {w \in S : Cardinality({v \in S : v > w}) < PollLimit}

ListTriggered ==
    /\ pc["sched"] = "list"
    /\ \/ /\ Working
          /\ todo' = [todo EXCEPT !["sched"] = NewestFew(With("triggered"))]
       \/ Failing /\ UNCHANGED todo
    /\ doomed' = {w \in todo'["sched"] : past[w]}
    /\ Goto("sched", "sweep")
    /\ UNCHANGED <<watcher, wtable, cur, snap, alerts, inflight, streak>>

(* Variant: only active watches expire.                                    *)
ExpireTriggeredNever(w) ==
    /\ pc["sched"] = "sweep" /\ w \in todo["sched"] /\ w \in doomed
    /\ todo' = [todo EXCEPT !["sched"] = @ \ {w}]
    /\ UNCHANGED <<watcher, wtable, pc, cur, snap, doomed, alerts, inflight,
                   streak>>

ExpireTriggered(w) ==
    /\ pc["sched"] = "sweep" /\ w \in todo["sched"] /\ w \in doomed
    /\ \/ Working /\ UpdateStatus(w, "expired")
       \/ Failing /\ UNCHANGED wstatus
    /\ todo' = [todo EXCEPT !["sched"] = @ \ {w}]
    /\ UNCHANGED <<watcher, breaches, age, past, pc, cur, snap, doomed, alerts,
                   inflight, streak>>

(* CheckAutoResolve measures: is the watch back to its baseline?           *)
CheckAutoResolve(w, back) ==
    /\ pc["sched"] = "sweep" /\ w \in todo["sched"] \ doomed
    /\ todo' = [todo EXCEPT !["sched"] = @ \ {w}]
    /\ IF back
       THEN Goto("sched", "resolve") /\ cur' = [cur EXCEPT !["sched"] = w]
       ELSE UNCHANGED <<pc, cur>>
    /\ UNCHANGED <<watcher, wtable, snap, doomed, alerts, inflight, streak>>

Resolve ==
    /\ pc["sched"] = "resolve"
    /\ \/ Working /\ UpdateStatus(cur["sched"], "resolved")
       \/ Failing /\ UNCHANGED wstatus
    /\ Goto("sched", "sweep") /\ ForgetWatch("sched")
    /\ UNCHANGED <<watcher, breaches, age, past, todo, doomed, alerts, inflight,
                   streak>>

GetDueWatches ==
    /\ pc["sched"] = "sweep" /\ todo["sched"] = {}
    /\ doomed' = {}
    /\ \/ Working /\ Goto("sched", "eval")
          /\ todo' = [todo EXCEPT !["sched"] = {w \in With("active") :
                                                    age[w] = 2}]
       \/ Failing /\ Goto("sched", "idle") /\ UNCHANGED todo
    /\ UNCHANGED <<watcher, wtable, cur, snap, alerts, inflight, streak>>

(* Both loops look at the context before each watch.                       *)
Abandon ==
    /\ watcher = "stopping"
    /\ pc["sched"] \in {"sweep", "eval"}
    /\ Goto("sched", "idle")
    /\ todo' = [todo EXCEPT !["sched"] = {}] /\ doomed' = {}
    /\ UNCHANGED <<watcher, wtable, cur, snap, alerts, inflight, streak>>

-----------------------------------------------------------------------------
(* The process.  gracefulShutdown cancels the context of the scheduler and *)
(* of the reactive passes first, and later waits for both and for their    *)
(* deliveries.                                                             *)

Shutdown ==
    /\ watcher = "up"
    /\ watcher' = "stopping"
    /\ UNCHANGED <<wtable, evals, alerts, inflight, streak>>

WatcherStopped ==
           /\ watcher = "stopping"
           /\ \A p \in Evaluators : pc[p] = "idle"
           /\ \A d \in DOMAIN inflight : inflight[d] = 0
           /\ watcher' = "down"
           /\ UNCHANGED <<wtable, evals, alerts, inflight, streak>>

WatcherCrash ==
           /\ Crashes /\ watcher # "down"
           /\ watcher' = "down"
           /\ pc' = [p \in Evaluators |-> "idle"] /\ todo' = [p \in Evaluators |-> {}]
           /\ cur' = [p \in Evaluators |-> 0] /\ doomed' = {}
           /\ snap' = [p \in Evaluators |-> [status |-> "none", breaches |-> 0]]
           /\ inflight' = [d \in {"sched", "stream"} |-> 0]
           /\ UNCHANGED <<wtable, alerts, streak>>

WatcherStart ==
           /\ watcher = "down"
           /\ watcher' = "up"
           /\ UNCHANGED <<wtable, evals, alerts, inflight, streak>>

-----------------------------------------------------------------------------
Evaluate(p) ==
    \/ \E w \in Watches : CreateRun(p, w)
    \/ Read(p) \/ FailedCheck(p) \/ Invalid(p) \/ Trigger(p) \/ CreateAlert(p)
    \/ Deliver(p)
    \/ \E b \in BOOLEAN : CheckWatch(p, b)
    \/ EndPass(p)

Sweep ==
    \/ Tick \/ ListTriggered \/ Resolve \/ GetDueWatches \/ Abandon
    \/ \E w \in Watches : ExpireTriggered(w)
    \/ \E w \in Watches, b \in BOOLEAN : CheckAutoResolve(w, b)

WatchNext ==
         \/ \E w \in Watches : Create(w) \/ Delete(w) \/ Age(w) \/ Expiry(w)
         \/ \E p \in Evaluators : Evaluate(p)
         \/ Sweep
         \/ \E s \in Streams : OnLogsReceived(s)
         \/ \E d \in {"sched", "stream"} : Notified(d)
         \/ Shutdown \/ WatcherStopped \/ WatcherCrash \/ WatcherStart

WatchSpec == WatchInit /\ [][WatchNext]_watchVars

(* Goroutines run, the ticker ticks, time passes, deliveries time out and  *)
(* the process is restarted.  A statement that is tried again and again    *)
(* works in the end, and no crash or shutdown comes in time for ever.  A   *)
(* Go mutex does not starve a waiter: a blocked Read happens in the end.   *)
WatchFairness ==
         /\ \A p \in Evaluators : WF_watchVars(Evaluate(p)) /\ SF_watchVars(Read(p))
         /\ WF_watchVars(Sweep) /\ WF_watchVars(WatcherStart) /\ WF_watchVars(WatcherStopped)
         /\ \A d \in {"sched", "stream"} : WF_watchVars(Notified(d))
         /\ \A w \in Watches : WF_watchVars(Expiry(w))
         /\ SF_watchVars(Tick /\ \A w \in With("active") :
                                    past[w] => wstatus'[w] # "active")
         /\ SF_watchVars(ListTriggered /\ todo'["sched"] = NewestFew(With("triggered")))
         /\ \A w \in Watches :
               SF_watchVars(ExpireTriggered(w) /\ wstatus'[w] # "triggered")

WatchFairSpec == WatchSpec /\ WatchFairness

-----------------------------------------------------------------------------
WatchTypeOK ==
         /\ watcher \in {"up", "stopping", "down"}
         /\ wstatus \in [Watches -> WatchStatuses]
         /\ breaches \in [Watches -> 0 .. MaxBreaches]
         /\ age \in [Watches -> 0 .. 2] /\ past \in [Watches -> BOOLEAN]
         /\ pc \in [Evaluators -> {"idle", "list", "sweep", "resolve", "eval",
                                   "lock", "measure", "trigger", "alert",
                                   "deliver"}]
         /\ todo \in [Evaluators -> SUBSET Watches]
         /\ cur \in [Evaluators -> Watches \cup {0}]
         /\ snap \in [Evaluators -> [status : WatchStatuses,
                                     breaches : 0 .. MaxBreaches]]
         /\ doomed \subseteq Watches /\ alerts \subseteq Watches
         /\ inflight \in [{"sched", "stream"} -> 0 .. NotifySlots]
         /\ streak \in [Watches -> 0 .. MaxBreaches]

(* A watch goes to "triggered" only after MinConsecutive checks recorded   *)
(* in a row were breached, whichever evaluators made them.                 *)
EnoughBreaches ==
    [][\A w \in Watches : wstatus[w] # "triggered" /\ wstatus'[w] = "triggered"
                               => streak[w] >= MinConsecutive]_watchVars

(* A watch that has fired does not fire again while it is triggered: the   *)
(* scheduler and a reactive pass do not both alert on one episode.         *)
FiresOnce ==
    \A p \in Evaluators : pc[p] = "trigger" => wstatus[cur[p]] # "triggered"

(* Every watch ends for good, even if it fires, if it is never among the   *)
(* newest triggered ones at first, or if an evaluation that listed it      *)
(* before its end fires it after.                                          *)
Ended(w)  == wstatus[w] \in {"resolved", "expired", "deleted"}
WatchEnds == \A w \in Watches : wstatus[w] = "active" ~> []Ended(w)

(* After a graceful shutdown every watch that fired has its alert.         *)
FiredIsAlerted ==
    watcher = "down" => \A w \in With("triggered") : w \in alerts

============================================================================
