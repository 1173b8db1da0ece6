----------------------------- MODULE Conditions -----------------------------
(***************************************************************************)
(* Watch conditions (internal/watcher): the metrics measured over a window *)
(* of traffic, the baseline captured when a watch is created, the tree of  *)
(* conditions evaluated against both, and the evidence of an alert.  Every *)
(* query of the log store may fail, at capture and at evaluation.  Values  *)
(* are integers in units of 1/Unit; all traffic is of the watch's service  *)
(* and environment and below the sample limits.                            *)
(***************************************************************************)
EXTENDS Integers, Sequences, FiniteSets, SequencesExt, FiniteSetsExt

CONSTANTS CheckWindow,   \* the check interval, also the baseline window
          CompareWindows,\* compare_window in check windows
          PctNum, PctDen \* the percentile of p95Percentile as a fraction

Unit == 12

VARIABLE probe  \* [then, now, lost, broken]: traffic at capture and at evaluation,
                \* and the queries that fail at each
conditionVars == <<probe>>

\* A window of traffic: logs by level, the class of its error log, the age of its
\* newest log, its requests.
LevelMixes == {<<0, 0, 0>>, <<1, 0, 0>>, <<1, 1, 0>>, <<1, 1, 1>>}
RequestMixes ==
  LET r == [path |-> "a", ms |-> 1, sql |-> 2]
      slow == [path |-> "a", ms |-> 2, sql |-> 1]
  IN {<<>>, <<r, slow>>, <<[slow EXCEPT !.path = "b"], r>>}
Windows ==
  {w \in [logs : LevelMixes, class : {"", "x", "y"}, age : {0, CheckWindow}, reqs : RequestMixes] :
     /\ w.logs[2] = 0 => w.class = ""
     /\ w.logs[1] = 0 => w.age = 0}
CaptureQueries == {"counts", "classes", "summaries"}
EvalQueries == {"counts", "aggregates", "summaries", "search"}

ConditionInit ==
  \E w \in Windows, q \in CaptureQueries, n \in 0..1 :
    /\ w.age = 0 /\ w.class # "y"
    /\ probe = [then |-> w, now |-> w, lost |-> IF n = 0 THEN {} ELSE {q}, broken |-> {}]

\* A check of the watch: the traffic has changed since, or one query fails.  Checks
\* share nothing but the baseline, so one is enough.
CheckDue ==
  /\ probe.now = probe.then /\ probe.broken = {}
  /\ \/ \E w \in Windows : probe' = [probe EXCEPT !.now = w]
     \/ \E q \in EvalQueries : probe' = [probe EXCEPT !.broken = {q}]
ConditionNext == CheckDue
----------------------------------------------------------------------------
Total(w) == w.logs[1] + w.logs[2] + w.logs[3]
\* isErrorLevel: error and fatal.
Errors(w) == w.logs[2] + w.logs[3]
OnPath(w, ep) == SelectSeq(w.reqs, LAMBDA r : ep = "" \/ r.path = ep)
AverageOf(vals) == IF vals = <<>> THEN 0 ELSE (FoldSeq(+, 0, vals) * Unit) \div Len(vals)

measureErrorRate(w) == IF Total(w) = 0 THEN 0 ELSE (Errors(w) * Unit) \div Total(w)
measureResponseTime(w, ep) == LET rs == OnPath(w, ep) IN AverageOf([i \in DOMAIN rs |-> rs[i].ms])
measureSQLCount(w, ep) == LET rs == OnPath(w, ep) IN AverageOf([i \in DOMAIN rs |-> rs[i].sql])
measureP95Response(w, ep) ==
  LET rs == OnPath(w, ep)
      ds == SortSeq([i \in DOMAIN rs |-> rs[i].ms], <)
      idx == (Len(ds) * PctNum + PctDen - 1) \div PctDen
  IN IF ds = <<>> THEN 0 ELSE ds[Max({1, idx})] * Unit
measureLogCount(w) == Total(w) * Unit
measureErrorCount(w) == Errors(w) * Unit
measureHeartbeat(w) == (IF Total(w) = 0 THEN CheckWindow ELSE w.age) * Unit

QueryOf(metric) ==
  CASE metric \in {"response_time", "sql_count"} -> "aggregates"
    [] metric = "p95_response" -> "summaries"
    [] metric = "heartbeat" -> "search"
    [] OTHER -> "counts"

MeasureRange(metric, ep, w) ==
  CASE metric = "error_rate" -> measureErrorRate(w)
    [] metric = "response_time" -> measureResponseTime(w, ep)
    [] metric = "p95_response" -> measureP95Response(w, ep)
    [] metric = "log_count" -> measureLogCount(w)
    [] metric = "error_count" -> measureErrorCount(w)
    [] metric = "heartbeat" -> measureHeartbeat(w)
    [] metric = "sql_count" -> measureSQLCount(w, ep)
Metrics == {"error_rate", "response_time", "p95_response", "log_count", "error_count",
            "heartbeat", "sql_count"}

\* CaptureBaseline: the part of a query that fails stays zero; requests are those
\* of the whole service, whatever endpoint the watch names.
CaptureBaseline(w, lost) ==
  LET counted == "counts" \notin lost
      summed == "summaries" \notin lost /\ w.reqs # <<>>
      If(ok, v) == IF ok THEN v ELSE 0
  IN [error_rate |-> If(counted, measureErrorRate(w)), log_count |-> If(counted, Total(w) * Unit),
      error_count |-> If(counted, Errors(w) * Unit), heartbeat |-> 0,
      response_time |-> If(summed, AverageOf([i \in DOMAIN w.reqs |-> w.reqs[i].ms])),
      sql_count |-> If(summed, AverageOf([i \in DOMAIN w.reqs |-> w.reqs[i].sql])),
      p95_response |-> If(summed, measureP95Response(w, "")),
      classes |-> IF "classes" \in lost \/ Errors(w) = 0 THEN {} ELSE {w.class} \ {""},
      endpoints |-> IF summed THEN [p \in {r.path : r \in ToSet(w.reqs)} |-> measureResponseTime(w, p)]
                    ELSE [p \in {} |-> 0]]
baselineValueForMetric(b, metric) == b[metric]

----------------------------------------------------------------------------
compare(v, op, t) ==
  CASE op = "gt" -> v > t [] op = "gte" -> v >= t [] op = "lt" -> v < t
    [] op = "lte" -> v <= t [] op = "eq" -> v = t [] op = "neq" -> v # t

Failure == [err |-> TRUE, breached |-> FALSE, measured |-> FALSE]
Unknown == [err |-> FALSE, breached |-> FALSE, measured |-> FALSE]
Outcome(breached) == [err |-> FALSE, breached |-> breached, measured |-> TRUE]

evalThreshold(c, p) ==
  IF QueryOf(c.metric) \in p.broken THEN Failure
  ELSE Outcome(compare(MeasureRange(c.metric, c.endpoint, p.now), c.op, c.value))

\* A metric the baseline does not have, or has as zero, cannot be compared.
evalRelative(c, p) ==
  LET base == baselineValueForMetric(CaptureBaseline(p.then, p.lost), c.metric)
  IN IF QueryOf(c.metric) \in p.broken THEN Failure
     ELSE IF base = 0 THEN Unknown
     ELSE Outcome(compare(MeasureRange(c.metric, c.endpoint, p.now), c.op, base * c.value))

\* The compare window repeats p.then; counts over it are scaled to the check window.
isCountMetric(metric) == metric \in {"log_count", "error_count"}
\* Mutant: the previous count is not scaled to the current window.
previousValueUnscaled(c, w) ==
  MeasureRange(c.metric, c.endpoint, w) * (IF isCountMetric(c.metric) THEN c.window ELSE 1)
previousValue(c, w) ==
  LET measured == MeasureRange(c.metric, c.endpoint, w) * (IF isCountMetric(c.metric) THEN c.window ELSE 1)
  IN IF isCountMetric(c.metric) /\ c.window # 1 THEN measured \div c.window ELSE measured
evalDelta(c, p) ==
  LET current == MeasureRange(c.metric, c.endpoint, p.now)
      previous == previousValue(c, p.then)
      change == IF current >= previous THEN current - previous ELSE previous - current
  IN IF QueryOf(c.metric) \in p.broken THEN Failure
     ELSE IF previous = 0 THEN Unknown
     ELSE Outcome(compare(change * 100, c.op, c.value * previous))

\* A count over the logs at level c.metric, or over all of them; a query the log
\* store cannot express is refused.
parseCountQuery(query) == query \in {"", "level:error"}
evalCount(c, p) ==
  IF ~parseCountQuery(c.metric) \/ "counts" \in p.broken THEN Failure
  ELSE Outcome(compare((IF c.metric = "" THEN Total(p.now) ELSE p.now.logs[2]) * Unit, c.op, c.value))

\* Every child is evaluated, so an error of any of them is the tree's.
evalAll(rs) ==
  IF \E r \in ToSet(rs) : r.err THEN Failure
  ELSE Outcome(\A r \in ToSet(rs) : r.breached)
evalAny(rs) ==
  IF \E r \in ToSet(rs) : r.err THEN Failure
  ELSE Outcome(\E r \in ToSet(rs) : r.breached)

\* Build: the error classes of the window and the slower endpoints, set against
\* the baseline.  A query that fails leaves its part of the evidence empty.
DegradationPct == 10
Build(p) ==
  LET b == CaptureBaseline(p.then, p.lost)
      seen == IF "search" \in p.broken \/ p.now.logs[2] = 0 THEN {} ELSE {p.now.class}
      paths == IF "summaries" \in p.broken THEN {} ELSE {r.path : r \in ToSet(p.now.reqs)}
  IN [newErrors |-> seen \ b.classes,
      affected |-> {e \in paths \cap DOMAIN b.endpoints :
                      (measureResponseTime(p.now, e) - b.endpoints[e]) * 100
                        > DegradationPct * b.endpoints[e]}]

----------------------------------------------------------------------------
Leaf(type, metric, op, value, ep, window) ==
  [type |-> type, metric |-> metric, op |-> op, value |-> value, endpoint |-> ep,
   window |-> window, subs |-> <<>>]
Node(type, subs) == [Leaf(type, "", "gt", 0, "", 1) EXCEPT !.subs = subs]

Rises == {Leaf("relative", m, "gt", k, "", 1) : m \in Metrics, k \in {1, 2}}
         \cup {Leaf("delta", m, "gt", pct, ep, k) :
                 m \in Metrics \ {"heartbeat"}, pct \in {0, 50}, ep \in {"", "a"}, k \in CompareWindows}
Leaves == {Leaf("threshold", "heartbeat", "gte", CheckWindow * Unit, "", 1),
           Leaf("threshold", "error_rate", "gt", 0, "", 1),
           Leaf("relative", "response_time", "gt", 1, "a", 1),
           Leaf("delta", "log_count", "gte", 50, "", 2),
           Leaf("count", "level:error", "gt", 0, "", 1), Leaf("count", "env:prod", "gt", 0, "", 1)}
Trees == {Node(type, <<l, m>>) : type \in {"all", "any"}, l, m \in Leaves}
         \cup {Node("any", <<Node("all", <<l, m>>), l>>) : l, m \in Leaves}
         \cup {Node("not", <<l>>) : l \in Leaves}

\* The conditions of a tree: itself, its children and theirs.
Children(c) == ToSet(c.subs)
Nodes(c) == {c} \cup Children(c) \cup UNION {Children(d) : d \in Children(c)}
LeavesOf(c) == {d \in Nodes(c) : d.subs = <<>>}

EvaluateCondition(c, p) ==
  LET eval[d \in Nodes(c)] ==
        LET rs == [i \in DOMAIN d.subs |-> eval[d.subs[i]]]
        IN CASE d.type = "all" -> evalAll(rs)
             [] d.type = "any" -> evalAny(rs)
             [] d.type = "not" -> [rs[1] EXCEPT !.breached = ~rs[1].err /\ ~@]
             [] d.type = "threshold" -> evalThreshold(d, p)
             [] d.type = "relative" -> evalRelative(d, p)
             [] d.type = "delta" -> evalDelta(d, p)
             [] d.type = "count" -> evalCount(d, p)
  IN eval[c]

\* A watch fires only on evidence, whatever part of its baseline could not be
\* captured: traffic that has not changed raises no relative or delta condition and
\* shows no new error class or slower endpoint, except a class the capture missed;
\* a failing query is an error of the whole tree, never a silent "not breached";
\* and without negation a breach has a leaf that was measured and breached
\* (watch_baseline.go:61, watch_conditions.go:108).
FiresOnEvidence ==
  /\ (probe.now = probe.then /\ probe.broken = {}) =>
       /\ \A c \in Rises : ~EvaluateCondition(c, probe).breached
       /\ \A evidence \in {Build(probe)} :
            /\ evidence.affected = {}
            /\ ("classes" \notin probe.lost) => evidence.newErrors \subseteq {""}
  /\ \A result \in {[c \in Trees \cup Leaves |-> EvaluateCondition(c, probe)]} : \A c \in Trees :
       /\ result[c].err <=> \E l \in LeavesOf(c) : result[l].err
       /\ (result[c].breached /\ c.type # "not") =>
            \E l \in LeavesOf(c) : result[l].breached /\ result[l].measured
=============================================================================
