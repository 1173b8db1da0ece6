---------------------------- MODULE HealthChecks ----------------------------
(***************************************************************************)
(* Health checks: the probe and its retries, the polling scheduler with    *)
(* its concurrency bound, back-off and result ring, and the alert on a     *)
(* change of status (internal/healthcheck and                              *)
(* internal/adapter/sqlite/healthcheck_store.go).  One tick of the clock   *)
(* is one poll interval; a probe may outlive the interval of its check.    *)
(***************************************************************************)
EXTENDS Integers, Sequences, FiniteSets, SequencesExt, FiniteSetsExt

CONSTANTS Checks,
          ProbeSlots,        \* the capacity of Scheduler.sem
          Interval,          \* IntervalSecs in polls
          Retries,
          BackoffThreshold, MaxBackoffShift,
          RecentWindow,      \* recentResultsWindow
          MaxPolls           \* bound on the clock

VARIABLES hcNow,
          hcRow,      \* check -> "on", "off" (disabled) or "gone" (deleted)
          hcRun,      \* lastRun: check -> poll, -1 before the first
          hcProbes,   \* running probes: [id, at, status ("?" while probing), done], done
                      \* being the part of runCheck it has behind it
          hcFails,    \* consecutiveFailures
          hcRing,     \* resultRing: [results, count, pos]
          hcStatus,   \* lastStatus: "none" before the first result
          hcResults,  \* check -> healthcheck_results in order of insertion: <<at, status>>
          hcSeen,     \* check -> statuses in the order runCheck acted on them
          hcAlerts,   \* alerts in order: <<check, previous, current>>
          hcLapped    \* checks of which two probes ran at once
hcVars == <<hcNow, hcRow, hcRun, hcProbes, hcFails, hcRing, hcStatus, hcResults, hcSeen,
            hcAlerts, hcLapped>>

-----------------------------------------------------------------------------
(* The probe.                                                              *)
Responses == [code : {"none", "expected", "success", "other"},
              body : {"matches", "differs", "unreadable"}, slow : BOOLEAN]

\* singleCheck: the status of one HTTP exchange.
singleCheck(r) ==
  CASE r.code \in {"none", "other"} -> "down"
    [] r.code = "success" -> "degraded"
    [] r.body # "matches" -> "down"
    [] r.slow -> "degraded"
    [] OTHER -> "up"

\* Check: the first attempt that is not down, else the last.
Check(rs) ==
  LET good == {i \in DOMAIN rs : singleCheck(rs[i]) # "down"}
  IN IF good = {} THEN "down" ELSE singleCheck(rs[Min(good)])
Outcomes == {Check(rs) : rs \in [1..(Retries + 1) -> Responses]}

-----------------------------------------------------------------------------
HealthInit ==
  /\ hcNow = 0 /\ hcProbes = {} /\ hcAlerts = <<>> /\ hcLapped = {}
  /\ hcRow = [c \in Checks |-> "on"] /\ hcRun = [c \in Checks |-> -1]
  /\ hcFails = [c \in Checks |-> 0] /\ hcStatus = [c \in Checks |-> "none"]
  /\ hcRing = [c \in Checks |-> [results |-> [i \in 0..(RecentWindow - 1) |-> "none"],
                                 count |-> 0, pos |-> 0]]
  /\ hcResults = [c \in Checks |-> <<>>] /\ hcSeen = [c \in Checks |-> <<>>]

\* EffectiveInterval: doubled per failure from the threshold on, up to the cap.
EffectiveInterval(c) ==
  IF hcFails[c] < BackoffThreshold THEN Interval
  ELSE Interval * 2 ^ Min({hcFails[c] - BackoffThreshold + 1, MaxBackoffShift})

isDue(c) == hcRun[c] = -1 \/ hcNow - hcRun[c] >= EffectiveInterval(c)

\* tick for one listed check: lastRun is stamped only with a slot in hand.
StartProbe(c) ==
  /\ hcRow[c] = "on" /\ isDue(c) /\ Cardinality(hcProbes) < ProbeSlots
  /\ hcRun' = [hcRun EXCEPT ![c] = hcNow]
  /\ hcProbes' = hcProbes \cup {[id |-> c, at |-> hcNow, status |-> "?", done |-> "none"]}
  /\ hcLapped' = IF \E p \in hcProbes : p.id = c THEN hcLapped \cup {c} ELSE hcLapped
  /\ UNCHANGED <<hcNow, hcRow, hcFails, hcRing, hcStatus, hcResults, hcSeen, hcAlerts>>

\* The next poll.
Poll ==
  /\ hcNow < MaxPolls /\ hcNow' = hcNow + 1
  /\ UNCHANGED <<hcRow, hcRun, hcProbes, hcFails, hcRing, hcStatus, hcResults, hcSeen,
                 hcAlerts, hcLapped>>

\* SetEnabled and Delete, which takes the results with it, while a probe may be running.
SetEnabled(c) ==
  /\ hcRow[c] # "gone" /\ hcRow' = [hcRow EXCEPT ![c] = IF @ = "on" THEN "off" ELSE "on"]
  /\ UNCHANGED <<hcNow, hcRun, hcProbes, hcFails, hcRing, hcStatus, hcResults, hcSeen,
                 hcAlerts, hcLapped>>
DeleteCheck(c) ==
  /\ hcRow[c] # "gone" /\ hcRow' = [hcRow EXCEPT ![c] = "gone"]
  /\ hcResults' = [hcResults EXCEPT ![c] = <<>>]
  /\ UNCHANGED <<hcNow, hcRun, hcProbes, hcFails, hcRing, hcStatus, hcSeen, hcAlerts, hcLapped>>

ProbeEnds ==
  \E p \in hcProbes, s \in Outcomes :
    /\ p.status = "?"
    /\ hcProbes' = (hcProbes \ {p}) \cup {[p EXCEPT !.status = s]}
    /\ UNCHANGED <<hcNow, hcRow, hcRun, hcFails, hcRing, hcStatus, hcResults, hcSeen,
                   hcAlerts, hcLapped>>

\* Mutant: a failed insert does not end the run.
RecordResultAnyway ==
  \E p \in hcProbes :
    /\ p.status # "?" /\ p.done = "none"
    /\ hcProbes' = (hcProbes \ {p}) \cup {[p EXCEPT !.done = "result"]}
    /\ \/ hcResults' = [hcResults EXCEPT ![p.id] = Append(@, <<p.at, p.status>>)]
       \/ UNCHANGED hcResults
    /\ UNCHANGED <<hcNow, hcRow, hcRun, hcFails, hcRing, hcStatus, hcSeen, hcAlerts, hcLapped>>

\* RecordResult: a failed insert (it must fail once the check is gone) ends the run.
RecordResult ==
  \E p \in hcProbes :
    /\ p.status # "?" /\ p.done = "none"
    /\ \/ /\ hcRow[p.id] # "gone"
          /\ hcProbes' = (hcProbes \ {p}) \cup {[p EXCEPT !.done = "result"]}
          /\ hcResults' = [hcResults EXCEPT ![p.id] = Append(@, <<p.at, p.status>>)]
       \/ hcProbes' = hcProbes \ {p} /\ UNCHANGED hcResults
    /\ UNCHANGED <<hcNow, hcRow, hcRun, hcFails, hcRing, hcStatus, hcSeen, hcAlerts, hcLapped>>

\* resultRing.add and recentResults.
Add(r, s) ==
  [results |-> [r.results EXCEPT ![r.pos % RecentWindow] = s],
   pos |-> r.pos + 1, count |-> Min({r.count + 1, RecentWindow})]
recentResults(r) ==
  LET start == IF r.count = RecentWindow THEN r.pos % RecentWindow ELSE 0
  IN [i \in 1..r.count |-> r.results[(start + i - 1) % RecentWindow]]

Changed(c, s) == hcStatus[c] # "none" /\ hcStatus[c] # s

\* The rest of runCheck, each part under a mutex of its own: the back-off, the
\* ring, and the alert on a change of status.
CountFailure ==
  \E p \in hcProbes :
    /\ p.done = "result"
    /\ hcProbes' = (hcProbes \ {p}) \cup {[p EXCEPT !.done = "backoff"]}
    /\ hcFails' = [hcFails EXCEPT ![p.id] = IF p.status = "up" THEN 0 ELSE @ + 1]
    /\ UNCHANGED <<hcNow, hcRow, hcRun, hcRing, hcStatus, hcResults, hcSeen, hcAlerts, hcLapped>>
AddToRing ==
  \E p \in hcProbes :
    /\ p.done = "backoff"
    /\ hcProbes' = (hcProbes \ {p}) \cup {[p EXCEPT !.done = "ring"]}
    /\ hcRing' = [hcRing EXCEPT ![p.id] = Add(@, p.status)]
    /\ UNCHANGED <<hcNow, hcRow, hcRun, hcFails, hcStatus, hcResults, hcSeen, hcAlerts, hcLapped>>
ActOnStatus ==
  \E p \in hcProbes :
    LET c == p.id  s == p.status IN
    /\ p.done = "ring"
    /\ hcProbes' = hcProbes \ {p}
    /\ hcStatus' = [hcStatus EXCEPT ![c] = s]
    /\ hcSeen' = [hcSeen EXCEPT ![c] = Append(@, s)]
    /\ hcAlerts' = IF Changed(c, s) THEN Append(hcAlerts, <<c, hcStatus[c], s>>) ELSE hcAlerts
    /\ UNCHANGED <<hcNow, hcRow, hcRun, hcFails, hcRing, hcResults, hcLapped>>

HealthNext ==
  \/ Poll \/ ProbeEnds \/ RecordResult \/ CountFailure \/ AddToRing \/ ActOnStatus
  \/ \E c \in Checks : StartProbe(c) \/ SetEnabled(c) \/ DeleteCheck(c)

HealthSpec == HealthInit /\ [][HealthNext]_hcVars

\* LatestResults and the current_status of UptimeSummaries: the newest by checked_at.
CurrentStatus(c) ==
  LET newest == {i \in DOMAIN hcResults[c] : \A j \in DOMAIN hcResults[c] :
                                               hcResults[c][j][1] <= hcResults[c][i][1]}
  IN {hcResults[c][i][2] : i \in newest}
\* UptimeSummaries: of the checks since a poll, those that were not down.
Uptime(c, since) ==
  LET all == {i \in DOMAIN hcResults[c] : hcResults[c][i][1] >= since}
  IN <<Cardinality({i \in all : hcResults[c][i][2] # "down"}), Cardinality(all)>>

HealthTypeOK ==
  /\ Cardinality(hcProbes) <= ProbeSlots
  /\ \A c \in Checks : hcStatus[c] \in {"none", "up", "degraded", "down"}

AlertsOf(c) == SelectSeq(hcAlerts, LAMBDA a : a[1] = c)

\* The alerts of a check tell its whole story: they chain from its first status to
\* its present one with no repetition (runCheck).  The ring holds as many results,
\* and exactly the last ones, oldest first, unless two probes of the check ran at
\* once: they may pass the ring in one order and the status in the other.
AlertsTellTheStory ==
  \A c \in Checks :
    LET a == AlertsOf(c)
        seen == hcSeen[c]
        ahead == {p \in hcProbes : p.id = c /\ p.done = "ring"}
        rung == seen \o SetToSeq({p.status : p \in ahead})
    IN
    /\ \A i \in DOMAIN a : a[i][2] # a[i][3] /\ (i > 1 => a[i][2] = a[i - 1][3])
    /\ a # <<>> => a[1][2] = seen[1] /\ Last(a)[3] = hcStatus[c]
    /\ a = <<>> /\ seen # <<>> => hcStatus[c] = seen[1]
    /\ hcRing[c].pos = Len(seen) + Cardinality(ahead)
    /\ c \notin hcLapped =>
         recentResults(hcRing[c]) = SubSeq(rung, Max({1, Len(rung) - RecentWindow + 1}), Len(rung))

\* What the operator was last told agrees with what the uptime view shows, once no
\* probe of the check is running, unless two of its probes ran at once: those may
\* finish in either order (scheduler.go:241-262).  Every outage alerted about
\* lowers the uptime, and every alert is backed by a recorded result.
AlertsMatchUptime ==
  \A c \in {d \in Checks : hcRow[d] # "gone"} :
    /\ (\A p \in hcProbes : p.id # c) /\ c \notin hcLapped /\ hcStatus[c] # "none" =>
         CurrentStatus(c) = {hcStatus[c]}
    /\ LET uptime == Uptime(c, 0) IN
       /\ Len(AlertsOf(c)) <= uptime[2]
       /\ (\E i \in DOMAIN AlertsOf(c) : AlertsOf(c)[i][3] = "down") => uptime[1] < uptime[2]
=============================================================================
