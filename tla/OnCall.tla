------------------------------- MODULE OnCall -------------------------------
(***************************************************************************)
(* The on-call agent (internal/oncall, cmd/opentrace/oncall.go): alerts    *)
(* run an agent within a daily cap and a cool-down per alert, and a        *)
(* diagnosis is filed as an issue once per error group.  Alerts run        *)
(* concurrently: every notifier has a goroutine of its own.                *)
(***************************************************************************)
EXTENDS Integers, FiniteSets

CONSTANTS AlertKeys,       \* AlertPayload.DedupeKey
          GroupIds,        \* error fingerprints an alert's evidence may name
          MaxPerDay, Cooldown, DayLength,
          MaxOnCallAlerts, MaxHours   \* bounds on alerts and on the clock

NoGroup == "no-group"      \* fingerprintFromEvidence found none

ASSUME OnCallLimits ==
  /\ NoGroup \notin GroupIds
  /\ MaxPerDay \in Nat /\ Cooldown \in Nat /\ DayLength \in Nat \ {0}
  /\ MaxOnCallAlerts \in Nat

Filers == 1..MaxOnCallAlerts
Gone == -1
Unfiled == 0

VARIABLES ocNow, ocDay, ocToday,   \* Runner.day, Runner.runsToday
          ocLastRun, ocLastFile,   \* key -> hour, or -1
          ocTask,    \* alert -> [pc, key, fp]
          ocRow,     \* fingerprint -> Gone, Unfiled or the alert that filed it
          ocIssues,  \* alerts whose issue the tracker created
          ocRuns,    \* runs of the agent in this process: <<key, hour>> by alert
          ocShared   \* fingerprints two alerts filed at once, or filed with no row
onCallVars == <<ocNow, ocDay, ocToday, ocLastRun, ocLastFile, ocTask, ocRow, ocIssues,
                ocRuns, ocShared>>

Idle == [pc |-> "idle", key |-> "none", fp |-> NoGroup]

OnCallInit ==
  /\ ocNow = 0 /\ ocDay = 0 /\ ocToday = 0 /\ ocIssues = {} /\ ocShared = {}
  /\ ocLastRun = [k \in AlertKeys |-> -1] /\ ocLastFile = [k \in AlertKeys |-> -1]
  /\ ocTask = [a \in Filers |-> Idle]
  /\ ocRow = [g \in GroupIds |-> Unfiled]
  /\ ocRuns = [a \in Filers |-> <<>>]

Cool(last, k) == last[k] = -1 \/ ocNow - last[k] >= Cooldown
Today == ocNow \div DayLength
RunsToday == IF ocDay = Today THEN ocToday ELSE 0
Moves(a, from, to) == ocTask[a].pc = from /\ ocTask' = [ocTask EXCEPT ![a].pc = to]

\* Mutant: the cap is tested but the run is not counted against it.
claimUncounted(a, k, g) ==
  IF RunsToday < MaxPerDay /\ Cool(ocLastRun, k)
    THEN /\ ocTask' = [ocTask EXCEPT ![a] = [pc |-> "running", key |-> k, fp |-> g]]
         /\ ocLastRun' = [ocLastRun EXCEPT ![k] = ocNow]
         /\ ocToday' = RunsToday
         /\ ocRuns' = [ocRuns EXCEPT ![a] = <<k, ocNow>>]
    ELSE /\ ocTask' = [ocTask EXCEPT ![a] = [pc |-> "skipped", key |-> k, fp |-> g]]
         /\ ocToday' = RunsToday /\ UNCHANGED <<ocLastRun, ocRuns>>

\* Runner.claim: the cap of the day, then the cool-down of the alert.
claim(a, k, g) ==
  IF RunsToday < MaxPerDay /\ Cool(ocLastRun, k)
    THEN /\ ocTask' = [ocTask EXCEPT ![a] = [pc |-> "running", key |-> k, fp |-> g]]
         /\ ocLastRun' = [ocLastRun EXCEPT ![k] = ocNow]
         /\ ocToday' = RunsToday + 1
         /\ ocRuns' = [ocRuns EXCEPT ![a] = <<k, ocNow>>]
    ELSE /\ ocTask' = [ocTask EXCEPT ![a] = [pc |-> "skipped", key |-> k, fp |-> g]]
         /\ ocToday' = RunsToday /\ UNCHANGED <<ocLastRun, ocRuns>>

\* NotifyWatchAlert, or NotifyHealthCheckAlert into a state that is not up.
RunAgent(a) ==
  /\ ocTask[a].pc = "idle" /\ \A b \in 1..(a - 1) : ocTask[b].pc # "idle"
  /\ \E k \in AlertKeys, g \in GroupIds \cup {NoGroup} : claim(a, k, g)
  /\ ocDay' = Today
  /\ UNCHANGED <<ocNow, ocLastFile, ocRow, ocIssues, ocShared>>

\* The agent ends: killed, failed or silent; or a diagnosis, which is delivered
\* (whether or not that fails) and then filed.
AgentEnds(a) ==
  /\ Moves(a, "running", "failed") \/ Moves(a, "running", "lookup")
  /\ UNCHANGED <<ocNow, ocDay, ocToday, ocLastRun, ocLastFile, ocRow, ocIssues, ocRuns, ocShared>>

Filing(g) == {b \in Filers : ocTask[b].fp = g /\ ocTask[b].pc \in {"claiming", "creating", "linking"}}

\* File up to the look at the group's issue: a recurrence only gets a comment.
LookUp(a) ==
  LET g == ocTask[a].fp IN
  /\ IF g # NoGroup /\ ocRow[g] \in Filers
       THEN Moves(a, "lookup", "commented")
       ELSE Moves(a, "lookup", "claiming") \/ Moves(a, "lookup", "failed")
  /\ ocShared' = IF ocTask'[a].pc = "claiming" /\ g # NoGroup /\ (Filing(g) # {} \/ ocRow[g] = Gone)
                   THEN ocShared \cup {g} ELSE ocShared
  /\ UNCHANGED <<ocNow, ocDay, ocToday, ocLastRun, ocLastFile, ocRow, ocIssues, ocRuns>>

\* IssueFiler.claim; the cool-down stays claimed when the tracker then fails.
ClaimFile(a) ==
  LET k == ocTask[a].key IN
  /\ ocTask[a].pc = "claiming"
  /\ IF Cool(ocLastFile, k)
       THEN Moves(a, "claiming", "creating") /\ ocLastFile' = [ocLastFile EXCEPT ![k] = ocNow]
       ELSE Moves(a, "claiming", "skipped") /\ UNCHANGED ocLastFile
  /\ UNCHANGED <<ocNow, ocDay, ocToday, ocLastRun, ocRow, ocIssues, ocRuns, ocShared>>

CreateIssue(a) ==
  /\ \/ /\ Moves(a, "creating", IF ocTask[a].fp = NoGroup THEN "filed" ELSE "linking")
        /\ ocIssues' = ocIssues \cup {a}
     \/ Moves(a, "creating", "failed") /\ UNCHANGED ocIssues
  /\ UNCHANGED <<ocNow, ocDay, ocToday, ocLastRun, ocLastFile, ocRow, ocRuns, ocShared>>

\* SetIssueURL: only a group without an issue is claimed.
Link(a, g) == ocRow' = IF ocRow[g] # Unfiled THEN ocRow ELSE [ocRow EXCEPT ![g] = a]
SetIssueURL(a) ==
  LET g == ocTask[a].fp IN
  /\ ocTask[a].pc = "linking"
  /\ \/ Moves(a, "linking", "filed") /\ Link(a, g)
     \/ Moves(a, "linking", "failed") /\ UNCHANGED ocRow
  /\ ocShared' = IF ocRow'[g] \in Filers THEN ocShared ELSE ocShared \cup {g}
  /\ UNCHANGED <<ocNow, ocDay, ocToday, ocLastRun, ocLastFile, ocIssues, ocRuns>>

\* The group is pruned, or ingest (re-)creates its row.
GroupChanges(g) ==
  /\ ocRow' = [ocRow EXCEPT ![g] = IF @ = Gone THEN Unfiled ELSE Gone]
  /\ ocShared' = ocShared \cup {g}
  /\ UNCHANGED <<ocNow, ocDay, ocToday, ocLastRun, ocLastFile, ocTask, ocIssues, ocRuns>>

Hour ==
  /\ ocNow < MaxHours /\ ocNow' = ocNow + 1
  /\ UNCHANGED <<ocDay, ocToday, ocLastRun, ocLastFile, ocTask, ocRow, ocIssues, ocRuns, ocShared>>

OnCallNext ==
  \/ Hour \/ \E g \in GroupIds : GroupChanges(g)
  \/ \E a \in Filers : \/ RunAgent(a) \/ AgentEnds(a) \/ LookUp(a) \/ ClaimFile(a)
                       \/ CreateIssue(a) \/ SetIssueURL(a)

OnCallSpec == OnCallInit /\ [][OnCallNext]_onCallVars

OnCallTypeOK ==
  /\ ocToday \in 0..MaxPerDay
  /\ \A g \in GroupIds : ocRow[g] \in {Gone, Unfiled} \cup ocIssues

\* The agent's budget holds under concurrent alerts: at most MaxPerDay runs in a
\* day, and two runs for one alert are a cool-down apart (Runner.claim).
AgentBudget ==
  LET ran == {a \in Filers : ocRuns[a] # <<>>}
      day(a) == ocRuns[a][2] \div DayLength
  IN \A a \in ran :
       /\ Cardinality({b \in ran : day(b) = day(a)}) <= MaxPerDay
       /\ \A b \in ran \ {a} : ocRuns[a][1] = ocRuns[b][1] =>
            ocRuns[a][2] - ocRuns[b][2] >= Cooldown \/ ocRuns[b][2] - ocRuns[a][2] >= Cooldown

OneIssue(g) ==
  g \notin ocShared =>
    LET made == {a \in ocIssues : ocTask[a].fp = g} IN
    /\ Cardinality(made) <= 1
    /\ ocRow[g] \in Filers => made = {ocRow[g]}

\* One issue per error group (of a step): a second one is created only when two alerts file
\* it at the same time or its row is missing, and the link of a group stays with
\* the issue that was linked first (github.go:70, SetIssueURL).
OneIssuePerGroup ==
  \A g \in GroupIds :
    /\ OneIssue(g)'
    /\ ocRow[g] \in Filers => ocRow'[g] \in {ocRow[g], Gone}
=============================================================================
