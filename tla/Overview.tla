------------------------------ MODULE Overview ------------------------------
(***************************************************************************)
(* The overview tools over what happens in the system (internal/mcp/tools  *)
(* overview_*.go): catch-up with its per-user cursor, triage, timeline and *)
(* the status counts.  Time is in seconds, as the database stores it; many *)
(* things happen within one.                                               *)
(***************************************************************************)
EXTENDS Integers, Sequences, FiniteSets, FiniteSetsExt

CONSTANTS MaxSeconds,
          MaxItems,        \* things that happen
          MaxLag,          \* how much earlier than its arrival an event may be dated
          CatchupItems,    \* maxCatchupItems
          CatchupWindow,   \* maxCatchupWindow; the first one is half of it
          ListLimit        \* alerts triage reads, groups or events others show

ItemEnvs == {"prod", "stag"}
\* An endpoint that is down belongs to no environment.
ItemShapes == ({"error", "alert"} \X ItemEnvs) \cup {<<"deploy", "prod">>, <<"down", "">>}
Calls == {1, 2}          \* catch-up calls of one user, both for prod

VARIABLES second,   \* the clock
          feed,     \* rows in order of arrival: [kind, env, ts, at, open]
          cursor,   \* last_catchup_at of the user, 0 for none
          call,     \* catch-up call -> [pc, since, now, items]
          told,     \* rows (positions in feed) that catch-ups have shown
          excused,  \* rows a catch-up cut off or dated before its window, both of
                    \* which it says, or that a failed read hid
          passed    \* values the cursor has had
overviewVars == <<second, feed, cursor, call, told, excused, passed>>

Rows == DOMAIN feed
Idle0 == [pc |-> "idle", since |-> 0, now |-> 0, items |-> {}]
OverviewInit == /\ second = CatchupWindow /\ feed = <<>> /\ cursor = 0
                /\ call = [c \in Calls |-> Idle0] /\ told = {} /\ excused = {} /\ passed = {}

Second == second < CatchupWindow + MaxSeconds /\ second' = second + 1
          /\ UNCHANGED <<feed, cursor, call, told, excused, passed>>

\* A row is written.  An alert is dated when it is written (CreateAlert); an error
\* group and a deploy carry the time of the log entry they came with.
Happens == \E shape \in ItemShapes, lag \in 0..MaxLag :
  /\ Len(feed) < MaxItems /\ (shape[1] \in {"alert", "down"} => lag = 0)
  /\ feed' = Append(feed, [kind |-> shape[1], env |-> shape[2], ts |-> second - lag, at |-> second, open |-> TRUE])
  /\ UNCHANGED <<second, cursor, call, told, excused, passed>>
\* A group is resolved, an alert dismissed, an endpoint comes back.
Closed == \E r \in Rows : feed[r].open /\ feed[r].kind # "deploy" /\ feed' = [feed EXCEPT ![r].open = FALSE]
                          /\ UNCHANGED <<second, cursor, call, told, excused, passed>>

\* -------------------------------------------------------------------- catch-up
catchupSince == IF cursor = 0 THEN second - CatchupWindow \div 2
                ELSE Max({cursor, second - CatchupWindow})
\* catchupErrorGroups and catchupDeploys take rows of the second itself,
\* catchupAlerts only later ones.
catchupErrorGroups(since) ==
  {r \in Rows : feed[r].kind = "error" /\ feed[r].open /\ feed[r].env = "prod" /\ feed[r].ts >= since}
catchupDeploys(since) == {r \in Rows : feed[r].kind = "deploy" /\ feed[r].env = "prod" /\ feed[r].ts >= since}
catchupAlerts(since) == {r \in Rows : feed[r].kind = "alert" /\ feed[r].env = "prod" /\ feed[r].ts > since}
CatchupKinds == {"error", "alert", "deploy"}
Collected(since) == catchupErrorGroups(since) \cup catchupDeploys(since) \cup catchupAlerts(since)

sevOrder(r) == CASE feed[r].kind \in {"error", "down"} -> 0
                 [] feed[r].kind = "alert" -> IF feed[r].open THEN 0 ELSE 1
                 [] feed[r].kind = "deploy" -> 2
Ahead(r, s) == \/ sevOrder(r) < sevOrder(s)
               \/ sevOrder(r) = sevOrder(s) /\ feed[r].ts > feed[s].ts
               \/ sevOrder(r) = sevOrder(s) /\ feed[r].ts = feed[s].ts /\ r < s
FirstOf(S, n) == {r \in S : Cardinality({s \in S : Ahead(s, r)}) < n}

\* The cursor is read, then the clock.
CatchupStarts(c) ==
  /\ call[c].pc = "idle"
  /\ call' = [call EXCEPT ![c] = [pc |-> "reading", since |-> catchupSince, now |-> second, items |-> {}]]
  /\ excused' = IF catchupSince = cursor THEN excused
                ELSE excused \cup {r \in Rows : feed[r].ts <= catchupSince}
  /\ UNCHANGED <<second, feed, cursor, told, passed>>
\* CollectCatchup; a store that fails contributes nothing.
CollectCatchup(c) ==
  /\ call[c].pc = "reading"
  /\ \E failed \in {{}} \cup {{k} : k \in CatchupKinds} :
       LET all == {r \in Collected(call[c].since) : feed[r].kind \notin failed}
           hidden == {r \in Rows : feed[r].kind \in failed}
           items == FirstOf(all, CatchupItems)
       IN /\ call' = [call EXCEPT ![c].pc = "collected", ![c].items = items]
          /\ excused' = excused \cup (all \ items) \cup hidden
  /\ UNCHANGED <<second, feed, cursor, told, passed>>

\* Mutant: the cursor moves to the time the answer is sent.
SetCatchupCursorLate(c) ==
  /\ call[c].pc = "collected"
  /\ cursor' = Max({cursor, second})
  /\ told' = told \cup call[c].items
  /\ call' = [call EXCEPT ![c] = [Idle0 EXCEPT !.pc = "done"]]
  /\ passed' = passed \cup {cursor'}
  /\ UNCHANGED <<second, feed, excused>>
\* SetCatchupCursor, which only moves forward and may fail, and the answer.
SetCatchupCursor(c) ==
  /\ call[c].pc = "collected"
  /\ \/ cursor' = Max({cursor, call[c].now})
     \/ UNCHANGED cursor              \* peek, or the statement failed
  /\ told' = told \cup call[c].items
  /\ call' = [call EXCEPT ![c] = [Idle0 EXCEPT !.pc = "done"]]
  /\ passed' = passed \cup {cursor'}
  /\ UNCHANGED <<second, feed, excused>>

OverviewNext == \/ Second \/ Happens \/ Closed
                \/ \E c \in Calls : CatchupStarts(c) \/ CollectCatchup(c) \/ SetCatchupCursor(c)

\* ------------------------------------------------- triage, status and timeline
Open(kind, env) == {r \in Rows : feed[r].kind = kind /\ feed[r].open /\ feed[r].env = env}
Newest(S, n) == {r \in S : Cardinality({s \in S : s > r}) < n}
\* HandleOverviewStatus: groups of the environment, alerts and endpoints of all.
HandleOverviewStatus(env) ==
  [errors |-> Cardinality(Open("error", env)),
   alerts |-> Cardinality({r \in Rows : feed[r].kind = "alert" /\ feed[r].open}),
   down |-> Cardinality({r \in Rows : feed[r].kind = "down" /\ feed[r].open})]
\* HandleTriage: the newest pending alerts are read before the environment is
\* looked at; endpoints have none.
TriageAlerts(env) ==
  {r \in Newest({s \in Rows : feed[s].kind = "alert" /\ feed[s].open}, ListLimit) : feed[r].env = env}
HandleTriage(env) ==
  FirstOf(FirstOf(Open("error", env), ListLimit) \cup TriageAlerts(env)
          \cup {r \in Rows : feed[r].kind = "down" /\ feed[r].open}, 2 * ListLimit)
\* HandleTimeline: rows of the window in time order; of the alerts, those among
\* the newest ones.
HandleTimeline(env, from, to) ==
  {r \in Rows : /\ from <= feed[r].ts /\ feed[r].ts <= to
                /\ feed[r].kind \in {"error", "deploy"} => feed[r].env = env
                /\ feed[r].kind = "alert" =>
                     feed[r].env = env /\ r \in Newest({s \in Rows : feed[s].kind = "alert"}, ListLimit)}
\* HandleDiagnose and HandleChanges: groups still open that were active, and new ones.
HandleDiagnose(env, since) == {r \in Open("error", env) : feed[r].ts >= since}
HandleChanges(env, since) == {r \in Rows : feed[r].kind = "error" /\ feed[r].env = env /\ feed[r].ts > since}

\* ----------------------------------------------------------------- properties
OverviewTypeOK ==
  /\ second \in CatchupWindow..(CatchupWindow + MaxSeconds) /\ cursor \in 0..second
  /\ told \cup excused \subseteq Rows
  /\ \A c \in Calls : call[c].pc \in {"idle", "reading", "collected", "done"} /\ call[c].items \subseteq Rows

\* Rows the user was due: of prod, dated after the first window began.
Due(r) == feed[r].env = "prod" /\ feed[r].kind \in CatchupKinds
          /\ (feed[r].kind = "error" => feed[r].open)

\* No catch-up skips what happened before it: once the cursor has passed the second
\* of an event that arrived when it happened, some catch-up has shown the event,
\* said it left it out or failed to read it, whatever two overlapping calls, peeks
\* and failed updates did.  Late arrivals are not covered, nor are alerts of a
\* second the cursor has stood at (overview_catchup.go:212).
CatchupMissesNothing ==
  \A r \in Rows : /\ Due(r) /\ feed[r].at = feed[r].ts /\ feed[r].ts < cursor
                   /\ (feed[r].kind = "alert" => feed[r].ts \notin passed)
                   /\ \A c \in Calls : call[c].pc \in {"idle", "done"}
                  => r \in told \cup excused

\* The overviews tell one story: what triage lists is what the status counts, a
\* healthy triage ("Nothing needs attention") means no open error of the
\* environment and no endpoint down, and a new error of the last period is in its
\* diagnosis until it is resolved, and on the timeline of the period.
OverviewsAgree ==
  \A env \in ItemEnvs :
    LET triage == HandleTriage(env)  status == HandleOverviewStatus(env) IN
    /\ triage = {} => status.errors = 0 /\ status.down = 0
    /\ \A r \in triage : feed[r].open
    /\ \A since \in {second, second - 1} :
         /\ {r \in HandleChanges(env, since) : feed[r].open} \subseteq HandleDiagnose(env, since)
         /\ HandleDiagnose(env, since) \subseteq HandleTimeline(env, since, second)
=============================================================================
