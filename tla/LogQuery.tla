------------------------------ MODULE LogQuery ------------------------------
(***************************************************************************)
(* The read side of the log store (internal/logstore/engine store.go,      *)
(* query.go and requests.go, and the adapter over it): what a search, a    *)
(* count or a ranking returns from the sealed segments and the WALs.       *)
(* Reads do not change the store, so the module is a set of operators over *)
(* `world`, one consistent view of it (LogStore shows the view is one).    *)
(* An id is an entry's position; a segment holds one chunk.                *)
(***************************************************************************)
EXTENDS Integers, Sequences, FiniteSets, SequencesExt, FiniteSetsExt

CONSTANTS LogShapes,    \* the entries that may arrive
          MaxLogs,
          HourLen,      \* instants per hour, the slot length and the skew margin
          MaxScanRows

VARIABLE world          \* [log: id -> shape, home: id -> where it lies]

Ids == DOMAIN world.log
Log(i) == world.log[i]
WALHome == 3            \* 1 and 2 are the sealed segments
EndOfTime == 5 * HourLen

\* Segment k has the slot of hour k.  An event's time may differ from its arrival
\* hour by the margin the code assumes.
SkewOK(k, ts) == (k - 1) * HourLen <= ts /\ ts <= (k + 2) * HourLen
SegmentRows(k) == {i \in Ids : world.home[i] = k}
WALRows == SegmentRows(WALHome)

QueryInit == world = [log |-> <<>>, home |-> <<>>]
LogArrives == /\ Len(world.log) < MaxLogs
              /\ \E shape \in LogShapes :
                   world' = [log |-> Append(world.log, shape), home |-> Append(world.home, WALHome)]
SegmentSealed == \E k \in {1, 2} :
  /\ WALRows # {} /\ SegmentRows(k) = {} /\ SegmentRows(2) = {}
  /\ \A i \in WALRows : SkewOK(k, Log(i).ts)
  /\ world' = [world EXCEPT !.home = [i \in Ids |-> IF i \in WALRows THEN k ELSE @[i]]]
QueryNext == LogArrives \/ SegmentSealed

\* ---------------------------------------------------------------- parameters
\* "" filters nothing; meta asks for a metadata filter; limit 0 is no limit.
Anything == [env |-> "", svc |-> "", level |-> "", trace |-> "", fp |-> "", user |-> "",
             meta |-> FALSE, from |-> 0, to |-> EndOfTime, asc |-> FALSE,
             limit |-> 0, offset |-> 0, requests |-> FALSE]

envMatches(filter, env) == filter = "" \/ env = "" \/ filter = env
Holds(filter, value) == filter = "" \/ filter = value
InRange(i, p) == p.from <= Log(i).ts /\ Log(i).ts <= p.to
isErrorLevel(level) == level \in {"error", "fatal"}

applyColumnFilters(p, rows) ==
  {i \in rows : /\ InRange(i, p) /\ envMatches(p.env, Log(i).env)
                /\ Holds(p.level, Log(i).level) /\ Holds(p.svc, Log(i).svc)
                /\ Holds(p.trace, Log(i).trace) /\ Holds(p.fp, Log(i).fp)
                /\ Holds(p.user, Log(i).user)
                /\ p.requests => Log(i).dur > 0}
matchesParams(i, p) == i \in applyColumnFilters(p, {i}) /\ (p.meta => Log(i).meta)

\* ------------------------------------------------------------------- ordering
Earlier(i, j, asc) == IF asc THEN Log(i).ts < Log(j).ts ELSE Log(i).ts > Log(j).ts
entryComesBefore(i, j, asc) == Earlier(i, j, asc) \/ (Log(i).ts = Log(j).ts /\ i < j)

\* The first n elements of S in the order Before, as a set; all of it for n = 0.
TopOf(S, Before(_, _), n) ==
  IF n = 0 THEN S ELSE {i \in S : Cardinality({j \in S : Before(j, i)}) < n}
InOrder(S, Before(_, _)) ==
  [k \in 1..Cardinality(S) |-> CHOOSE i \in S : Cardinality({j \in S : Before(j, i)}) = k - 1]
sortEntriesByTs(S, asc) == InOrder(S, LAMBDA i, j : entryComesBefore(i, j, asc))
topRowsByTs(S, asc, n) == TopOf(S, LAMBDA i, j : entryComesBefore(i, j, asc), n)

\* rowsInTsOrder: newest first, rows of one instant come in descending order.
rowsInTsOrder(i, j, asc) ==
  Earlier(i, j, asc) \/ (Log(i).ts = Log(j).ts /\ (IF asc THEN i < j ELSE i > j))

\* --------------------------------------------------------------------- search
SegmentsInRange(p) ==
  {k \in {1, 2} : p.from \div HourLen - 1 <= k /\ k <= p.to \div HourLen + 1}

\* searchChunk keeps the first offset + limit rows.  Without a metadata filter
\* they are chosen before they are read, with one while they are.
searchChunk(rows, p) ==
  LET matching == applyColumnFilters(p, rows)
      limit == p.offset + p.limit
      keep == {i \in matching : p.meta => Log(i).meta}
  IN IF limit = 0 \/ Cardinality(matching) <= limit THEN keep
     ELSE IF p.meta THEN TopOf(keep, LAMBDA i, j : rowsInTsOrder(i, j, p.asc), limit)
     ELSE topRowsByTs(matching, p.asc, limit)

searchSegment(k, p) == topRowsByTs(searchChunk(SegmentRows(k), p), p.asc, p.offset + p.limit)
searchWALsTop(p) == topRowsByTs({i \in WALRows : matchesParams(i, p)}, p.asc, p.offset + p.limit)

\* Mutant: the cap of a segment forgets the pages before this one.
SearchCappedByLimit(p) ==
  LET q == [p EXCEPT !.offset = 0]
      all == UNION {searchSegment(k, q) : k \in SegmentsInRange(p)} \cup searchWALsTop(q)
  IN SubSeq(sortEntriesByTs(all, p.asc), p.offset + 1,
            IF p.limit = 0 THEN Cardinality(all) ELSE Min({p.offset + p.limit, Cardinality(all)}))

Search(p) ==
  LET all == UNION {searchSegment(k, p) : k \in SegmentsInRange(p)} \cup searchWALsTop(p)
  IN SubSeq(sortEntriesByTs(all, p.asc), p.offset + 1,
            IF p.limit = 0 THEN Cardinality(all) ELSE Min({p.offset + p.limit, Cardinality(all)}))
Found(p) == ToSet(Search(p))

\* --------------------------------------------------------------------- counts
segmentFullyInRange(k, p) == p.from <= (k - 1) * HourLen /\ (k + 2) * HourLen <= p.to

\* CountByLevel and CountByServiceDetailed: the rows counted.  The whole segment
\* when its precomputed totals apply, which only an unfiltered count may use.
Counted(p, filtered) ==
  {i \in WALRows : matchesParams(i, p)} \cup
  UNION {IF ~filtered /\ segmentFullyInRange(k, p) THEN SegmentRows(k)
         ELSE applyColumnFilters(p, SegmentRows(k)) : k \in SegmentsInRange(p)}
CountByLevel(p, level) ==
  LET q == [Anything EXCEPT !.from = p.from, !.to = p.to, !.svc = p.svc, !.env = p.env]
  IN Cardinality({i \in Counted(q, p.svc # "" \/ p.env # "") : Log(i).level = level})
CountByService(p, svc) ==
  LET q == [Anything EXCEPT !.from = p.from, !.to = p.to, !.env = p.env]
      counted == {i \in Counted(q, p.env # "") : Log(i).svc = svc}
  IN [total |-> Cardinality(counted),
      errors |-> Cardinality({i \in counted : isErrorLevel(Log(i).level)})]

\* DistinctValues of a dictionary column: unfiltered, a segment answers from its
\* dictionary whatever the range.
DistinctServices(p) ==
  {Log(i).svc : i \in {i \in WALRows : matchesParams(i, p)} \cup
     UNION {IF p.level = "" /\ p.env = "" THEN SegmentRows(k)
            ELSE applyColumnFilters(p, SegmentRows(k)) : k \in SegmentsInRange(p)}} \ {""}

\* ------------------------------------------------------------------- requests
Slower(i, j) == Log(i).dur > Log(j).dur \/ (Log(i).dur = Log(j).dur /\ i < j)
\* collectMatchingTop: the n slowest of each segment, then the WALs, until
\* MaxScanRows entries are collected.
collectMatchingTop(p, n) ==
  LET q == [p EXCEPT !.requests = TRUE, !.limit = 0, !.offset = 0]
      top(k) == IF k \in SegmentsInRange(p) THEN TopOf(searchChunk(SegmentRows(k), q), Slower, n) ELSE {}
      two == IF Cardinality(top(1)) >= MaxScanRows THEN top(1) ELSE top(1) \cup top(2)
      wals == {i \in WALRows : matchesParams(i, q)}
  IN IF Cardinality(two) >= MaxScanRows THEN TopOf(two, LAMBDA i, j : i < j, MaxScanRows)
     ELSE TopOf(two \cup wals, LAMBDA i, j : i < j, MaxScanRows)
SearchRequests(p) ==
  LET all == collectMatchingTop(p, p.offset + p.limit)
  IN SubSeq(InOrder(all, Slower), p.offset + 1, Min({p.offset + p.limit, Cardinality(all)}))
\* AggregateRequests, which skips entries without a duration.
AggregateRequests(p) ==
  LET seen == {i \in Ids : world.home[i] \in SegmentsInRange(p) \cup {WALHome}
                           /\ matchesParams(i, p) /\ Log(i).dur > 0}
  IN [count |-> Cardinality(seen), total |-> FoldSet(LAMBDA i, a : a + Log(i).dur, 0, seen)]

\* ----------------------------------------------------------------- properties
Reads == {[Anything EXCEPT !.env = e, !.level = l, !.from = f, !.to = t, !.asc = a] :
            e \in {"", "prod"}, l \in {"", "error"}, f \in {0, HourLen + 1},
            t \in {2 * HourLen, EndOfTime}, a \in BOOLEAN}
MatchingIds(p) == {i \in Ids : matchesParams(i, p)}
\* The pages a client reads: as long as a page is full it asks for the next.
PagesOf(Query(_), p, n) ==
  FlattenSeq([k \in 1..(Cardinality(Ids) + 1) |->
                Query([p EXCEPT !.limit = n, !.offset = n * (k - 1)])])

\* Reading page after page of a search lists every matching entry exactly once and
\* in order, though each page ranks segments and WALs anew, keeps only
\* offset + limit entries of each and breaks ties between equal timestamps; so
\* does the ranking of requests.  Metadata and exclude filters are excluded here.
PagesCoverSearch ==
  \A p \in Reads, n \in 1..2 :
    /\ PagesOf(Search, p, n) = sortEntriesByTs(MatchingIds(p), p.asc)
    /\ PagesOf(SearchRequests, p, n) = InOrder(MatchingIds([p EXCEPT !.requests = TRUE]), Slower)

\* Totals precomputed by arrival hour are "only used when the range covers the
\* segment's hour with that same one-hour margin" (store.go:436): every count and
\* every aggregate agrees with the search over the same range, and the services
\* offered as a filter include every one the search would find.
CountsMatchSearch ==
  \A p \in Reads :
    /\ CountByLevel(p, "error") = Cardinality(MatchingIds([p EXCEPT !.level = "error"]))
    /\ \A s \in {Log(i).svc : i \in Ids} \ {""} :
         CountByService(p, s).total = Cardinality(MatchingIds([p EXCEPT !.svc = s, !.level = ""]))
    /\ AggregateRequests(p).count = Cardinality(MatchingIds([p EXCEPT !.requests = TRUE]))
    /\ LET found == {Log(i).svc : i \in MatchingIds(p)} \ {""} IN
       /\ found \subseteq DistinctServices(p)
       /\ p.level # "" \/ p.env # "" => found = DistinctServices(p)

=============================================================================
