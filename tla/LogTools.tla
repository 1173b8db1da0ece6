------------------------------ MODULE LogTools ------------------------------
(***************************************************************************)
(* The log and error tools of the MCP server (internal/mcp/tools logs*.go  *)
(* and errors*.go, and the environment scope that guards them).  A tool is *)
(* an operator from the caller's scope and its arguments to what its       *)
(* answer is about: entries, error groups and numbers.  The error groups   *)
(* are those the ingested entries of `world` have produced.                *)
(***************************************************************************)
EXTENDS LogQuery

CONSTANTS ContextEntries,  \* entries of context on one side of an anchor
          MaxToolEntries   \* entries a trace, a summary or a page shows

\* ------------------------------------------------------------ environment scope
Scopes == {{"unscoped"}, {"*"}, {}, {"prod"}, {"stag"}, {"prod", "stag"}}
EnvArgs == {"", "prod", "stag"}
defaultEnv == "prod"
Refused == "refused"

AllowsAll(scope) == "*" \in scope
Allows(scope, env) == AllowsAll(scope) \/ env \in scope
scopeAllowsEnv(scope, env) == scope = {"unscoped"} \/ Allows(scope, env)
scopeIsPinned(scope) == scope # {"unscoped"} /\ ~AllowsAll(scope)
SoleEnv(scope) == IF Cardinality(scope) = 1 /\ ~AllowsAll(scope) THEN scope ELSE {}

ResolveEnv(scope, env) ==
  IF scope = {"unscoped"} THEN env
  ELSE IF env # "" THEN (IF Allows(scope, env) THEN env ELSE Refused)
  ELSE IF SoleEnv(scope) # {} THEN CHOOSE e \in scope : TRUE
  ELSE IF scope = {"*"} THEN defaultEnv
  ELSE Refused
ResolveEnvStrict(scope, env) ==
  IF env = "" /\ scope = {"*"} THEN Refused ELSE ResolveEnv(scope, env)

\* --------------------------------------------------------------------- answers
NoAnswer == [ids |-> {}, groups |-> {}]
Entries(ids) == [ids |-> ids, groups |-> {}]

\* --------------------------------------------------------------- error groups
EGKeys == {<<Log(i).fp, Log(i).env>> : i \in {j \in Ids : Log(j).level = "error" /\ Log(j).fp # ""}}
Occurrences(k) == {i \in Ids : Log(i).level = "error" /\ <<Log(i).fp, Log(i).env>> = k}
FirstSeen(k) == Log(Min(Occurrences(k))).ts
LastSeen(k) == Log(Max(Occurrences(k))).ts
ListEG(env) == {k \in EGKeys : env = "" \/ k[2] = env}
\* Get: the row of the environment, or without one a row seen last.
GetEG(fp, env) ==
  LET rows == {k \in ListEG(env) : k[1] = fp}
  IN {k \in rows : \A j \in rows : LastSeen(j) <= LastSeen(k)}
EnvsSeen(fp) == {k[2] : k \in {j \in EGKeys : j[1] = fp}}
EGUsers(k) == {Log(i).user : i \in Occurrences(k)} \ {""}

\* ------------------------------------------------------------------ logs tools
InEnv(env, from) == [Anything EXCEPT !.env = env, !.from = from]
LogsSearch(scope, arg, p) ==
  LET env == ResolveEnv(scope, arg) IN
  IF env = Refused THEN NoAnswer
  ELSE LET shown == Found([p EXCEPT !.env = env])
       IN [ids |-> shown,
           groups |-> UNION {GetEG(Log(i).fp, Log(i).env) : i \in {j \in shown : Log(j).fp # ""}}]

\* The searches around an anchor fetch one entry more, for the anchor itself.
Around(i, q, asc, n) ==
  LET found == Search([q EXCEPT !.asc = asc, !.limit = n + 1])
      others == SelectSeq(found, LAMBDA j : j # i)
  IN ToSet(SubSeq(others, 1, Min({n, Len(others)})))
ContextSides(i, svc, n) ==
  LET q == [Anything EXCEPT !.env = Log(i).env, !.svc = svc]
  IN [before |-> Around(i, [q EXCEPT !.to = Log(i).ts], FALSE, n),
      after |-> Around(i, [q EXCEPT !.from = Log(i).ts], TRUE, n)]
LogsContext(scope, i, sameService) ==
  IF ~scopeAllowsEnv(scope, Log(i).env) THEN NoAnswer
  ELSE LET sides == ContextSides(i, IF sameService THEN Log(i).svc ELSE "", ContextEntries)
       IN Entries(sides.before \cup {i} \cup sides.after)

\* LogsTrace, with the logs around each named service's span of it.  A span of
\* entries without a service is looked up as the service "(unknown)".
LogsTrace(scope, arg, trace, around) ==
  LET env == ResolveEnv(scope, arg)
      q == [InEnv(env, 0) EXCEPT !.trace = trace, !.asc = TRUE, !.limit = MaxToolEntries]
      shown == Found(q)
      spans == {Log(i).svc : i \in shown} \ {""}
      near(s) == LET own == {Log(i).ts : i \in {j \in shown : Log(j).svc = s}}
                 IN Found([InEnv(env, Min(own) - 1) EXCEPT !.svc = s, !.to = Max(own) + 1])
  IN IF env = Refused THEN NoAnswer
     ELSE Entries(shown \cup IF around THEN UNION {near(s) : s \in spans} ELSE {})

\* logsErrorsByService and LogsStatsByService: the services are those of the whole
\* environment; each is counted by its name, and no name counts every service.
ServiceErrors(p, svc) == CountByLevel([p EXCEPT !.svc = svc], "error")
ServicesCounted(p) == {s \in {Log(i).svc : i \in Ids} : CountByService(p, s).total > 0}
logsErrorsByService(p) ==
  MapThenSumSet(LAMBDA s : ServiceErrors(p, s), ServicesCounted(p))
LogsStatsByService(p) ==
  [errors |-> logsErrorsByService(p),
   total |-> MapThenSumSet(LAMBDA s : CountByLevel([p EXCEPT !.svc = s], "error")
                                      + CountByLevel([p EXCEPT !.svc = s], "info"), ServicesCounted(p))]
LogsCompareErrors(p, base) == [from |-> logsErrorsByService(base), to |-> logsErrorsByService(p)]
logsCalcChange(from, to) ==
  IF from = 0 THEN (IF to = 0 THEN "unchanged" ELSE "new")
  ELSE IF to > from THEN "increase" ELSE IF to < from THEN "decrease" ELSE "unchanged"
LogsCompareLogVolume(p, base, level) == [from |-> CountByLevel(base, level), to |-> CountByLevel(p, level)]

\* LogsStatsByLevel: buckets [t, t + d], both ends included.
Buckets(p, d) == {t \in p.from..(p.to - 1) : (t - p.from) % d = 0}
LogsStatsByLevel(p, d, level) ==
  [total |-> CountByLevel(p, level),
   trend |-> [t \in Buckets(p, d) |->
                CountByLevel([p EXCEPT !.from = t, !.to = Min({t + d, p.to})], level)]]
\* LogsStatsByPattern: the newest errors, their count in the window beside them.
LogsStatsByPattern(p) ==
  LET sample == Found([p EXCEPT !.level = "error", !.limit = MaxToolEntries])
  IN [sample |-> sample, total |-> Max({Cardinality(sample), CountByLevel(p, "error")}),
      truncated |-> Cardinality(sample) >= MaxToolEntries]

\* LogsPerformance and the slowest endpoints of LogsSummary, which a service
\* filter is applied to after the scan.
LogsPerformance(scope, arg, n) ==
  LET env == ResolveEnv(scope, arg)
  IN IF env = Refused THEN NoAnswer
     ELSE Entries(ToSet(SearchRequests([InEnv(env, 0) EXCEPT !.limit = n])))
LogsSummary(scope, arg, p) ==
  LET env == ResolveEnv(scope, arg)
      q == [p EXCEPT !.env = env]
      sample == Found([q EXCEPT !.limit = MaxToolEntries])
      slow == ToSet(SearchRequests([q EXCEPT !.svc = "", !.limit = MaxToolEntries]))
  IN IF env = Refused THEN NoAnswer
     ELSE [ids |-> sample \cup {i \in slow : p.svc \in {"", Log(i).svc}}, groups |-> ListEG(env)]
\* LogsAttributes of traces: the distinct values, then one probe search for each.
LogsAttributes(scope, arg) ==
  LET env == ResolveEnv(scope, arg) IN
  IF env = Refused THEN {}
  ELSE {t \in {Log(i).trace : i \in MatchingIds(InEnv(env, 0))} \ {""} :
          Search([InEnv(env, 0) EXCEPT !.trace = t, !.limit = 1]) # <<>>}

\* ---------------------------------------------------------------- errors tools
ErrorsList(scope, arg, since) ==
  LET env == ResolveEnv(scope, arg)
  IN IF env = Refused THEN NoAnswer
     ELSE [ids |-> {}, groups |-> {k \in ListEG(env) : LastSeen(k) >= since}]
\* HandleNewErrors: groups first seen in the window.
HandleNewErrors(scope, arg, since) ==
  LET env == ResolveEnv(scope, arg)
  IN IF env = Refused THEN NoAnswer
     ELSE [ids |-> {}, groups |-> {k \in ListEG(env) : FirstSeen(k) >= since}]

ErrorsDetail(scope, arg, fp) ==
  LET env == ResolveEnv(scope, arg)
      rows == {k \in GetEG(fp, env) : scopeAllowsEnv(scope, k[2])}
      k == CHOOSE r \in rows : TRUE
  IN IF env = Refused \/ rows = {} THEN NoAnswer
     ELSE [groups |-> {k},
           ids |-> Found([Anything EXCEPT !.fp = fp, !.env = k[2], !.limit = MaxToolEntries,
                            !.from = Max({FirstSeen(k), LastSeen(k) - HourLen}), !.to = LastSeen(k) + 1])]

\* The anchor of an investigation by trace: the first error of it, else its last entry.
TraceAnchor(trace) ==
  LET found == Search([Anything EXCEPT !.trace = trace, !.asc = TRUE, !.limit = MaxToolEntries])
      errors == SelectSeq(found, LAMBDA i : isErrorLevel(Log(i).level))
  IN IF found = <<>> THEN {} ELSE {IF errors # <<>> THEN Head(errors) ELSE Last(found)}
ErrorsInvestigate(scope, i) ==
  LET sides == ContextSides(i, Log(i).svc, ContextEntries)
      traced == IF Log(i).trace = "" THEN {}
                ELSE Found([Anything EXCEPT !.trace = Log(i).trace, !.env = Log(i).env, !.asc = TRUE,
                              !.limit = MaxToolEntries,
                              !.from = Log(i).ts - HourLen, !.to = Log(i).ts + HourLen])
  IN IF ~scopeAllowsEnv(scope, Log(i).env) THEN NoAnswer
     ELSE [ids |-> {i} \cup sides.before \cup sides.after \cup traced,
           groups |-> IF Log(i).fp = "" THEN {} ELSE GetEG(Log(i).fp, Log(i).env)]

\* Who an error hit is stored per fingerprint: a pinned caller sees it only when
\* the fingerprint occurs in one environment.
fingerprintInEnv(scope, fp, env) == \E k \in GetEG(fp, env) : scopeAllowsEnv(scope, k[2])
\* Mutant: users are shown whenever the group itself may be.
affectedUsersAllowedAnyway(scope, fp, env) == ~scopeIsPinned(scope) \/ fingerprintInEnv(scope, fp, env)
affectedUsersAllowed(scope, fp, env) ==
  ~scopeIsPinned(scope) \/ (fingerprintInEnv(scope, fp, env) /\ Cardinality(EnvsSeen(fp)) <= 1)
AffectedUsers(fp) == UNION {EGUsers(k) : k \in {j \in EGKeys : j[1] = fp}}
ErrorsImpact(scope, arg, fp) ==
  LET env == ResolveEnv(scope, arg)
      pinned == scopeIsPinned(scope)
      rows == {k \in ListEG(IF pinned THEN env ELSE "") : k[1] = fp}
  IN IF env = Refused \/ (pinned /\ ~fingerprintInEnv(scope, fp, env))
       THEN [groups |-> {}, users |-> {}]
     ELSE [groups |-> rows, users |-> IF affectedUsersAllowed(scope, fp, env) THEN AffectedUsers(fp) ELSE {}]
ErrorsUserErrors(scope, arg, user) ==
  LET env == ResolveEnv(scope, arg)
      fps == {k[1] : k \in {j \in EGKeys : user \in EGUsers(j)}}
  IN IF env = Refused THEN {}
     ELSE {fp \in fps : scopeIsPinned(scope) => fingerprintInEnv(scope, fp, env)}
ErrorsRanking(scope, arg) ==
  LET env == ResolveEnv(scope, arg)
  IN IF env = Refused THEN NoAnswer
     ELSE [ids |-> {}, groups |-> {k \in ListEG(env) : scopeIsPinned(scope) =>
                                       scopeAllowsEnv(scope, k[2]) /\ (env # "" => k[2] = env)}]

\* ------------------------------------------------- users tool, service overview
HandleUserTimeline(scope, arg, user) ==
  LET env == ResolveEnv(scope, arg)
  IN IF env = Refused THEN NoAnswer
     ELSE Entries(Found([InEnv(env, 0) EXCEPT !.user = user, !.limit = MaxToolEntries]))
\* The environment is only checked: the answer spans them all.
HandleUserErrors(scope, arg, user) ==
  IF ResolveEnv(scope, arg) = Refused THEN {}
  ELSE {k[1] : k \in {j \in EGKeys : user \in EGUsers(j)}}
HandleUserImpact(scope, arg, fp) ==
  LET env == ResolveEnv(scope, arg)
  IN IF env = Refused \/ GetEG(fp, env) = {} THEN {} ELSE AffectedUsers(fp)
\* HandleOverviewInvestigate: four reads in parallel, one answer.
HandleOverviewInvestigate(scope, arg, svc) ==
  LET env == ResolveEnv(scope, arg)
  IN IF env = Refused \/ svc = "" THEN NoAnswer
     ELSE [ids |-> Found([InEnv(env, 0) EXCEPT !.svc = svc, !.level = "error", !.limit = MaxToolEntries]),
           groups |-> {k \in ListEG(env) : Log(Min(Occurrences(k))).svc = svc}]

\* ----------------------------------------------------------------- properties
Fps == {Log(i).fp : i \in Ids} \ {""}
Traces == {Log(i).trace : i \in Ids} \ {""}
Users0 == {Log(i).user : i \in Ids} \ {""}

ByEnv(scope, arg) ==
  {LogsSearch(scope, arg, [Anything EXCEPT !.limit = MaxToolEntries, !.level = l]) : l \in {"", "error"}}
  \cup {LogsTrace(scope, arg, t, a) : t \in Traces, a \in BOOLEAN}
  \cup {LogsPerformance(scope, arg, MaxToolEntries), LogsSummary(scope, arg, Anything),
        ErrorsList(scope, arg, 0), HandleNewErrors(scope, arg, HourLen), ErrorsRanking(scope, arg)}
  \cup {ErrorsDetail(scope, arg, fp) : fp \in Fps}
  \cup {HandleUserTimeline(scope, arg, u) : u \in Users0}
  \cup {HandleOverviewInvestigate(scope, arg, s) : s \in {Log(i).svc : i \in Ids}}
ByAnchor(scope) ==
  {LogsContext(scope, i, s) : i \in Ids, s \in BOOLEAN}
  \cup {ErrorsInvestigate(scope, i) : i \in Ids \cup UNION {TraceAnchor(t) : t \in Traces}}

\* What a caller pinned to environments is told is about these: every entry a log
\* or error tool shows, its traces, contexts and occurrences included, carries the
\* environment the call resolved to or none (envMatches treats an entry without
\* one as belonging to all), groups carry exactly it, and users are named only
\* for errors that never occurred elsewhere.
ToolsStayInEnv ==
  \A scope \in {s \in Scopes : scopeIsPinned(s)} :
    /\ \A arg \in EnvArgs : \A env \in {ResolveEnv(scope, arg)} :
         /\ env = Refused \/ env \in scope
         /\ \A a \in ByEnv(scope, arg) :
              /\ \A i \in a.ids : Log(i).env \in {env, ""}
              /\ \A k \in a.groups : k[2] \in {env, ""}
         /\ \A fp \in Fps : \A u \in ErrorsImpact(scope, arg, fp).users :
              \A i \in Ids : (Log(i).user = u /\ Log(i).fp = fp) => Log(i).env = env
         /\ \A u \in Users0 : \A fp \in ErrorsUserErrors(scope, arg, u) : <<fp, env>> \in EGKeys
         /\ \A t \in LogsAttributes(scope, arg) :
              \E i \in Ids : Log(i).trace = t /\ Log(i).env \in {env, ""}
         /\ ResolveEnvStrict(scope, arg) = env
    /\ \A a \in ByAnchor(scope) :
         /\ Cardinality({Log(i).env : i \in a.ids} \ {""}) <= 1
         /\ \A i \in a.ids : Log(i).env \in scope \cup {""}

\* The context of an entry is what is next to it: each side has as many entries as
\* exist up to the limit, and none closer in time than a shown one is left out.
ContextIsAdjacent ==
  \A i \in Ids : \A c \in {ContextSides(i, "", ContextEntries)} :
    LET peers == {j \in Ids \ {i} : envMatches(Log(i).env, Log(j).env)}
        earlier == {j \in peers : Log(j).ts <= Log(i).ts}
        later == {j \in peers : Log(j).ts >= Log(i).ts}
    IN /\ Cardinality(c.before) = Min({ContextEntries, Cardinality(earlier)})
       /\ Cardinality(c.after) = Min({ContextEntries, Cardinality(later)})
       /\ \A j \in earlier \ c.before, b \in c.before : Log(j).ts <= Log(b).ts
       /\ \A j \in later \ c.after, b \in c.after : Log(j).ts >= Log(b).ts

\* The two views of one window agree: the buckets of a trend add up to its total
\* plus the entries on an inner boundary, which both neighbours count, and when
\* every entry names its service the breakdown adds up to the total; and an error
\* listed as a user's names that user among those it hit.  The two ways to compare
\* two windows then give one verdict, and a pattern listing that is not cut off
\* lists every error the window counts.
BreakdownsAddUp ==
  /\ \A u \in Users0, fp \in Fps :
       fp \in HandleUserErrors({"*"}, "prod", u) =>
         (u \in HandleUserImpact({"*"}, "prod", fp) \/ GetEG(fp, "prod") = {})
  /\ \A p \in {[Anything EXCEPT !.env = e, !.from = f] : e \in {"", "prod"}, f \in {0, 1}}, d \in {1, HourLen} :
       LET s == LogsStatsByLevel(p, d, "error")
           inner == Buckets(p, d) \ {p.from}
       IN /\ MapThenSumSet(LAMBDA t : s.trend[t], Buckets(p, d)) =
               s.total + Cardinality({i \in MatchingIds([p EXCEPT !.level = "error"]) : Log(i).ts \in inner})
          /\ (\A i \in Ids : Log(i).svc # "") =>
               /\ LogsStatsByService(p).errors = s.total
               /\ LET base == [p EXCEPT !.to = HourLen + d]
                      errors == LogsCompareErrors(p, base)
                      volume == LogsCompareLogVolume(p, base, "error")
                  IN logsCalcChange(errors.from, errors.to) = logsCalcChange(volume.from, volume.to)
          /\ LET patterns == LogsStatsByPattern(p)
             IN patterns.truncated \/ Cardinality(patterns.sample) = patterns.total
=============================================================================
