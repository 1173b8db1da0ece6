----------------------------- MODULE ColumnCache -----------------------------
(***************************************************************************)
(* The cache of decoded chunk columns (internal/logstore/engine,           *)
(* colcache.go, and memoColumn of chunkcols.go): a least-recently-used     *)
(* list within a budget, filled by concurrent scans that share the         *)
(* decoding of a column.  A sealed chunk does not change; decoding a       *)
(* column may fail.  The cache of indexes (index/cache.go) takes the same  *)
(* steps, with a share of one half.                                        *)
(***************************************************************************)
EXTENDS Integers, Sequences, SequencesExt, FiniteSets, FiniteSetsExt

CONSTANTS Scans, ColumnSizes,   \* column -> decoded size, a function
          ColumnBudget, MaxShare, MaxDecodes

VARIABLES lru,      \* the cached columns, most recently used first
          lruUsed,  \* columnCache.used
          flight,   \* column -> the scan decoding it, "" for none (singleflight)
          scan,     \* scan -> where it is and the column it is at
          decodes   \* decodings so far
columnVars == <<lru, lruUsed, flight, scan, decodes>>

ColumnKeys == DOMAIN ColumnSizes
BetweenColumns == [at |-> "idle", key |-> ""]
SizeOf(keys) == FoldSeq(LAMBDA k, n : n + ColumnSizes[k], 0, keys)

ColumnsInit ==
  /\ lru = <<>> /\ lruUsed = 0 /\ flight = [k \in ColumnKeys |-> ""]
  /\ scan = [s \in Scans |-> BetweenColumns] /\ decodes = 0

MoveToFront(k) == <<k>> \o SelectSeq(lru, LAMBDA l : l # k)
\* put: drop from the back until the column fits; nothing when it is too large.
Evicted(k) ==
  LET fits == {n \in 0..Len(lru) : SizeOf(SubSeq(lru, 1, n)) + ColumnSizes[k] <= ColumnBudget}
  IN SubSeq(lru, 1, Max(fits))
PutColumn(k) ==
  IF ColumnSizes[k] > ColumnBudget \div MaxShare THEN UNCHANGED <<lru, lruUsed>>
  ELSE IF k \in ToSet(lru) THEN lru' = MoveToFront(k) /\ UNCHANGED lruUsed
  ELSE /\ lru' = <<k>> \o Evicted(k)
       /\ lruUsed' = lruUsed - (SizeOf(lru) - SizeOf(Evicted(k))) + ColumnSizes[k]

\* memoColumn: the first get.
MemoGet(s, k) ==
  /\ scan[s].at = "idle"
  /\ IF k \in ToSet(lru) THEN lru' = MoveToFront(k) /\ UNCHANGED scan
     ELSE scan' = [scan EXCEPT ![s] = [at |-> "missed", key |-> k]] /\ UNCHANGED lru
  /\ UNCHANGED <<lruUsed, flight, decodes>>
\* loads.Do: join the decoding under way, or lead one after a second get.
MemoLoad(s) ==
  /\ scan[s].at = "missed" /\ decodes < MaxDecodes
  /\ LET k == scan[s].key IN
     \/ /\ flight[k] # "" /\ scan' = [scan EXCEPT ![s].at = "waiting"]
        /\ UNCHANGED <<lru, flight, decodes>>
     \/ /\ flight[k] = "" /\ k \in ToSet(lru) /\ lru' = MoveToFront(k)
        /\ scan' = [scan EXCEPT ![s] = BetweenColumns] /\ UNCHANGED <<flight, decodes>>
     \/ /\ flight[k] = "" /\ k \notin ToSet(lru) /\ flight' = [flight EXCEPT ![k] = s]
        /\ scan' = [scan EXCEPT ![s].at = "decoding"] /\ decodes' = decodes + 1
        /\ UNCHANGED lru
  /\ UNCHANGED lruUsed
\* The decoding ends, for its leader and for those who joined; a failed one is
\* not cached, so the next scan tries again.
MemoDecoded(s) ==
  /\ scan[s].at = "decoding"
  /\ PutColumn(scan[s].key) \/ UNCHANGED <<lru, lruUsed>>
  /\ flight' = [flight EXCEPT ![scan[s].key] = ""]
  /\ scan' = [t \in Scans |-> IF t = s \/ scan[t] = [at |-> "waiting", key |-> scan[s].key]
                                THEN BetweenColumns ELSE scan[t]]
  /\ UNCHANGED decodes

ColumnsNext == \E s \in Scans : (\E k \in ColumnKeys : MemoGet(s, k)) \/ MemoLoad(s) \/ MemoDecoded(s)

\* The budget is kept and its account is exact; a column is decoded by one scan at
\* a time and never while it is cached, and whoever waits for it has somebody
\* decoding it (chunkcols.go:96).
DecodedOnce ==
  /\ lruUsed = SizeOf(lru) /\ lruUsed <= ColumnBudget /\ IsInjective(lru)
  /\ \A s \in Scans :
       /\ scan[s].at = "decoding" => flight[scan[s].key] = s /\ scan[s].key \notin ToSet(lru)
       /\ scan[s].at = "waiting" => flight[scan[s].key] # ""
=============================================================================
