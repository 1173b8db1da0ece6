----------------------------- MODULE ErrorGroups -----------------------------
(***************************************************************************)
(* Error groups, their lifecycle events and their per-user impact          *)
(* (internal/adapter/sqlite/error_group_store.go, error_impact_store.go    *)
(* and the lifecycle tools of internal/mcp/tools).  A group is a row per   *)
(* (fingerprint, environment).  Statements are serialised by the store's   *)
(* single connection; a transaction is one action, and what the code does  *)
(* in several statements or transactions takes several.                    *)
(***************************************************************************)
EXTENDS Integers, Sequences, FiniteSets, SequencesExt, FiniteSetsExt

CONSTANTS Fingerprints, Envs, Users,
          MaxSeen,     \* timestamps of log entries: 1..MaxSeen
          MaxEntries,  \* error entries that arrive
          MaxEvents    \* lifecycle events of one group

GroupKeys == Fingerprints \X Envs
NoRow == [status |-> "none"]

VARIABLES
  group,     \* key -> NoRow or [status, count, first, last, reopened, users, envs]
  events,    \* key -> its rows of error_group_events, oldest first
  impact,    \* key -> user -> occurrences (0: no row)
  pending,   \* entries upserted by a post-processing worker, impact not tracked yet
  scoring,   \* key -> unique users a scoring run has collected and not yet stamped
  ever,      \* key -> users that were ever tracked for it
  arrived    \* entries so far
groupVars == <<group, events, impact, pending, scoring, ever, arrived>>

GroupRows == {k \in GroupKeys : group[k] # NoRow}
NoImpact == [u \in Users |-> 0]
ErrorEntry == [key : GroupKeys, user : Users, ts : 1..MaxSeen]

GroupsInit ==
  /\ group = [k \in GroupKeys |-> NoRow] /\ events = [k \in GroupKeys |-> <<>>]
  /\ impact = [k \in GroupKeys |-> NoImpact] /\ pending = {} /\ scoring = <<>>
  /\ ever = [k \in GroupKeys |-> {}] /\ arrived = 0

\* The row after upsertErrorGroup: inserted, or one more occurrence of it, whose
\* last_seen_at is the entry's own even when it is older; a resolved row reopens.
Upserted(e) ==
  IF group[e.key] = NoRow
    THEN [status |-> "unresolved", count |-> 1, first |-> e.ts, last |-> e.ts,
          reopened |-> 0, users |-> 0, envs |-> {}]
    ELSE LET g == group[e.key] IN
         [g EXCEPT !.count = @ + 1, !.last = e.ts,
                   !.status = IF @ = "resolved" THEN "unresolved" ELSE @,
                   !.reopened = IF g.status = "resolved" THEN @ + 1 ELSE @]

\* Mutant: the reopening of a resolved group is not recorded as an event.
upsertErrorGroupSilently(e) ==
  LET fp == e.key[1]
      envs == {k[2] : k \in {j \in GroupRows \cup {e.key} : j[1] = fp}}
  IN
  /\ group' = [k \in GroupKeys |->
                 IF k = e.key THEN [Upserted(e) EXCEPT !.envs = envs]
                 ELSE IF k[1] = fp /\ k \in GroupRows THEN [group[k] EXCEPT !.envs = envs]
                 ELSE group[k]]
  /\ UNCHANGED events

\* upsertErrorGroup: the row, seen_in_envs of every row of the fingerprint, and
\* the event of a reopening.
upsertErrorGroup(e) ==
  LET fp == e.key[1]
      envs == {k[2] : k \in {j \in GroupRows \cup {e.key} : j[1] = fp}}
  IN
  /\ group' = [k \in GroupKeys |->
                 IF k = e.key THEN [Upserted(e) EXCEPT !.envs = envs]
                 ELSE IF k[1] = fp /\ k \in GroupRows THEN [group[k] EXCEPT !.envs = envs]
                 ELSE group[k]]
  /\ events' = IF e.key \in GroupRows /\ group[e.key].status = "resolved"
                 THEN [events EXCEPT ![e.key] = Append(@, "reopened")] ELSE events

\* UpsertBatch of one post-processing job; the impact of its entries follows in a
\* transaction of its own, and is attempted even when this one failed.
UpsertBatch ==
  /\ arrived < MaxEntries /\ arrived' = arrived + 1
  /\ \E e \in ErrorEntry :
       /\ Len(events[e.key]) < MaxEvents
       /\ upsertErrorGroup(e) \/ UNCHANGED <<group, events>>
       /\ pending' = pending \cup {e}
  /\ UNCHANGED <<impact, scoring, ever>>

\* TrackImpactBatch: error_impacts references error_groups, so an entry whose
\* group is not there (the upsert failed, or PruneGroups came first) fails the
\* statement; it may fail otherwise, and is only logged.
TrackImpactBatch ==
  \E e \in pending :
    /\ pending' = pending \ {e}
    /\ \/ /\ e.key \in GroupRows
          /\ impact' = [impact EXCEPT ![e.key][e.user] = @ + 1]
          /\ ever' = [ever EXCEPT ![e.key] = @ \cup {e.user}]
       \/ UNCHANGED <<impact, ever>>
    /\ UNCHANGED <<group, events, scoring, arrived>>

\* ResolveEnv and resolveWriteEnv: the rows a lifecycle tool may write, of one
\* environment for a scoped caller and of all of them ("") for another.
WriteScope(fp, env) == {k \in GroupRows : k[1] = fp /\ (env = "" \/ k[2] = env)}

TargetStatus(action) == IF action = "reopened" THEN "unresolved" ELSE action
\* The statusGuard of changeStatus.
StatusEvents(k, action) ==
  IF action = "reopened" THEN group[k].status \in {"resolved", "ignored"}
  ELSE group[k].status # action

\* changeStatus of Resolve, Ignore and Reopen: nothing to do is a success, no row
\* in scope is an error; rows and events of the same keys change in one
\* transaction.
changeStatus(fp, env, action) ==
  LET moved == {k \in WriteScope(fp, env) : StatusEvents(k, action)} IN
  /\ moved # {} /\ \A k \in moved : Len(events[k]) < MaxEvents
  /\ group' = [k \in GroupKeys |-> IF k \in moved
                                THEN [group[k] EXCEPT !.status = TargetStatus(action)] ELSE group[k]]
  /\ events' = [k \in GroupKeys |-> IF k \in moved THEN Append(events[k], action) ELSE events[k]]
  /\ UNCHANGED <<impact, pending, scoring, ever, arrived>>

\* PruneGroups: groups last seen before the cutoff, with the events and impacts that
\* the foreign keys cascade to.
PruneGroups ==
  \E cutoff \in 2..(MaxSeen + 1) :
    LET old == {k \in GroupRows : group[k].last < cutoff} IN
    /\ old # {}
    /\ group' = [k \in GroupKeys |-> IF k \in old THEN NoRow ELSE group[k]]
    /\ events' = [k \in GroupKeys |-> IF k \in old THEN <<>> ELSE events[k]]
    /\ impact' = [k \in GroupKeys |-> IF k \in old THEN NoImpact ELSE impact[k]]
    /\ UNCHANGED <<pending, scoring, ever, arrived>>

UsersOf(k) == {u \in Users : impact[k][u] > 0}
\* collectScoredImpacts aggregates error_impacts per key.
collectScoredImpacts ==
  [k \in {j \in GroupKeys : UsersOf(j) # {}} |-> Cardinality(UsersOf(k))]

\* ComputeImpactScores: one read, then one UPDATE per group, in order of score; one
\* that fails ends the run.
ComputeImpactScores ==
  \/ /\ scoring = <<>> /\ collectScoredImpacts # <<>> /\ scoring' = collectScoredImpacts
     /\ UNCHANGED <<group, events, impact, pending, ever, arrived>>
  \/ \E k \in DOMAIN scoring :
       /\ group' = IF k \in GroupRows THEN [group EXCEPT ![k].users = scoring[k]] ELSE group
       /\ scoring' = [j \in DOMAIN scoring \ {k} |-> scoring[j]]
       /\ UNCHANGED <<events, impact, pending, ever, arrived>>
  \/ /\ scoring # <<>> /\ scoring' = <<>>
     /\ UNCHANGED <<group, events, impact, pending, ever, arrived>>

GroupsNext ==
  \/ UpsertBatch \/ TrackImpactBatch \/ PruneGroups \/ ComputeImpactScores
  \/ \E fp \in Fingerprints, env \in Envs \cup {""}, action \in {"resolved", "ignored", "reopened"} :
       changeStatus(fp, env, action)

GroupsSpec == GroupsInit /\ [][GroupsNext]_groupVars

-----------------------------------------------------------------------------
(* Queries.                                                                *)

\* GetGroup, ListGroups and CountGroups: the rows with this status in this environment ("" for any),
\* and GetGroup's choice of the most recently seen.
ListGroups(status, env) ==
  {k \in GroupRows : (status = "" \/ group[k].status = status) /\ (env = "" \/ k[2] = env)}
CountGroups(status, env) == Cardinality(ListGroups(status, env))
GetGroup(fp, env) ==
  LET found == {k \in ListGroups("", env) : k[1] = fp} IN
  {k \in found : \A j \in found : group[j].last <= group[k].last}

\* ListEvents, newest first within each environment.
ListEvents(fp, env) ==
  [k \in {j \in GroupKeys : j[1] = fp /\ (env = "" \/ j[2] = env)} |-> Reverse(events[k])]

\* GetImpact, GetAffectedUsers and GetUserErrors.
GetImpact(fp, env) ==
  LET keys == {k \in GroupKeys : k[1] = fp /\ (env = "" \/ k[2] = env)} IN
  [users |-> MapThenSumSet(LAMBDA k : Cardinality(UsersOf(k)), keys),
   total |-> MapThenSumSet(LAMBDA k : MapThenSumSet(LAMBDA u : impact[k][u], Users), keys)]
GetAffectedUsers(fp) == UNION {UsersOf(k) : k \in {j \in GroupKeys : j[1] = fp}}
GetUserErrors(u) == {k \in GroupKeys : impact[k][u] > 0}

-----------------------------------------------------------------------------
GroupsTypeOK ==
  \A k \in GroupKeys :
    /\ group[k] # NoRow =>
         /\ group[k].status \in {"unresolved", "resolved", "ignored"}
         /\ group[k].count \in 1..MaxEntries /\ group[k].envs \subseteq Envs
    /\ impact[k] \in [Users -> 0..MaxEntries]

\* What an event does to the status it finds; "illegal" when it changes nothing.
ReplayStatus(s, action) == IF TargetStatus(action) = s THEN "illegal" ELSE TargetStatus(action)

\* The audit trail explains every group: replaying its events, none of which is
\* idle, from "unresolved" gives its status (changeStatus, upsertErrorGroup), and
\* a key without a group has none left over from an earlier life of it.
EventsExplainStatus ==
  \A k \in GroupKeys :
    IF group[k] = NoRow THEN events[k] = <<>> /\ impact[k] = NoImpact
    ELSE LET Step(s, a) == IF s = "illegal" THEN s ELSE ReplayStatus(s, a)
         IN FoldLeft(Step, "unresolved", events[k]) = group[k].status

\* error_impact_store.go:243: "a fingerprint hit by 40 staging testers and 2
\* production users must not stamp 42 unique users" on its production row, also
\* when groups change between the aggregation and the stamping; and the counts a
\* query reports are those of the groups it can list.
ImpactPerEnv ==
  \A k \in GroupKeys :
    /\ group[k] # NoRow => group[k].users <= Cardinality(ever[k])
    /\ GetImpact(k[1], k[2]).users = Cardinality(UsersOf(k))
    /\ UsersOf(k) # {} => k \in ListGroups("", k[2])

\* The ways of asking agree: environments split a count, an unscoped look-up finds
\* a group whenever a scoped one does, and a user is affected by a fingerprint in
\* one query exactly when it is among the user's errors in the other.  The newest
\* event listed for a group is the one that gave it its status.
GroupReadsAgree ==
  /\ \A status \in {"", "unresolved", "resolved", "ignored"} :
       CountGroups(status, "") = MapThenSumSet(LAMBDA env : CountGroups(status, env), Envs)
  /\ \A fp \in Fingerprints :
       /\ GetGroup(fp, "") = {} <=> \A env \in Envs : GetGroup(fp, env) = {}
       /\ \A env \in Envs : GetGroup(fp, env) \subseteq {<<fp, env>>}
       /\ \A env \in Envs : \A k \in GetGroup(fp, env) :
            LET history == ListEvents(fp, env)[k]
            IN history # <<>> => TargetStatus(Head(history)) = group[k].status
       /\ \A u \in Users :
            u \in GetAffectedUsers(fp) <=> \E k \in GetUserErrors(u) : k[1] = fp

\* seen_in_envs never lists an environment too few: every row of the fingerprint
\* knows the environment of every other.
SeenInEnvs ==
  \A k \in GroupRows : {j[2] : j \in {i \in GroupRows : i[1] = k[1]}} \subseteq group[k].envs
=============================================================================
