------------------------------ MODULE LiveReads ------------------------------
(***************************************************************************)
(* Reading the hour that is still being written (internal/logstore/engine, *)
(* walcache.go and ring.go): the cached parse of the WAL files, and the    *)
(* ring with the subscribers of the live tail.  Both watch one writer at   *)
(* work: bytes appear in the file a few at a time, a failed write is       *)
(* rolled back, the file is renamed at rotation and removed by the seal.   *)
(* Each file has a directory of its own: its paths are <<"active", f>> and *)
(* <<"sealing", f>>.                                                       *)
(*                                                                         *)
(* Record c has RecordLen(c) cells, <<c, 1>>, <<c, 2>>...; the first holds *)
(* the length.  A record of a failed append is never written again.        *)
(***************************************************************************)
EXTENDS Integers, Sequences, SequencesExt, FiniteSets, FiniteSetsExt

CONSTANTS MaxRecords,       \* records the writer ever starts to write
          MaxWALFiles,
          RingSize,         \* ringSize
          TailBuffer,       \* batches a subscriber's channel holds
          Tails,            \* subscribers
          WALCacheEntries,  \* WALCacheMaxEntries
          WALCacheBytes

VARIABLES
  wfile,    \* WAL file -> its cells
  wname,    \* WAL file -> the name it has in its directory, or "none"
  appender, \* the holder of the writer's mu: at, batch, todo (cells), size (fileSize)
  started,  \* records started so far
  wcache,   \* path -> the cached parse, or NoParse
  walUsed,  \* walCache.used
  walLookup, \* the holder of walCache.mu: at and path
  served,   \* the last query: its answer, and what a fresh parse gives
  undone,   \* paths whose file was cut below what is parsed of it
  ring,     \* the entries of the ring, oldest first
  tails     \* subscriber -> its state
walCacheVars == <<wcache, walUsed, walLookup, served>>
tailVars == <<ring, tails>>
liveVars == <<wfile, wname, appender, started, undone, walCacheVars, tailVars>>

RecordLen(c) == 1 + (c % 2)
Cells(batch) == FlattenSeq([i \in DOMAIN batch |-> [k \in 1..RecordLen(batch[i]) |-> <<batch[i], k>>]])
entryMemoryBytes(c) == 1 + RecordLen(c)
entriesMemoryBytes(entries) == FoldSeq(LAMBDA c, n : n + entryMemoryBytes(c), 0, entries)

\* ReadEntriesFrom an offset: whole records up to the first that is torn.
ReadsFrom(cells, off) ==
  FoldLeft(LAMBDA st, k :
             IF ~st.torn /\ st.off < Len(cells)
               THEN LET c == cells[st.off + 1][1] IN
                    IF /\ st.off + RecordLen(c) <= Len(cells)
                       /\ SubSeq(cells, st.off + 1, st.off + RecordLen(c)) = Cells(<<c>>)
                      THEN [st EXCEPT !.off = @ + RecordLen(c), !.entries = Append(@, c)]
                      ELSE [st EXCEPT !.torn = TRUE]
               ELSE st,
           [entries |-> <<>>, off |-> off, torn |-> FALSE], [k \in 1..MaxRecords |-> k])

WALFiles == 1..MaxWALFiles
WALPaths == {"active", "sealing"} \X WALFiles
WALExists(p) == wname[p[2]] = p[1]
ParsedAt(p) == IF WALExists(p) THEN ReadsFrom(wfile[p[2]], 0).entries ELSE <<>>
Current == Max({f \in WALFiles : \A g \in 1..f : wname[g] # "none"})
NoParse == [open |-> FALSE, off |-> 0, entries |-> <<>>]
Unlocked == [at |-> "free", path |-> <<"active", 1>>]
NoTail == [at |-> "out", snap |-> <<>>, chan |-> <<>>, got |-> <<>>, lost |-> {}]

LiveInit ==
  /\ wfile = [f \in WALFiles |-> <<>>]
  /\ wname = [f \in WALFiles |-> IF f = 1 THEN "active" ELSE "none"]
  /\ appender = [at |-> "idle", batch |-> <<>>, todo |-> <<>>, size |-> 0]
  /\ started = 0
  /\ wcache = [p \in WALPaths |-> NoParse] /\ walUsed = 0 /\ walLookup = Unlocked
  /\ served = [got |-> <<>>, fresh |-> <<>>] /\ undone = {}
  /\ ring = <<>> /\ tails = [t \in Tails |-> NoTail]

\* ------------------------------------------------------------------ the writer
AppendBegins(n) ==
  /\ appender.at = "idle" /\ started + n <= MaxRecords
  /\ LET batch == [i \in 1..n |-> started + i] IN
     appender' = [appender EXCEPT !.at = "writing", !.batch = batch, !.todo = Cells(batch)]
  /\ started' = started + n
  /\ UNCHANGED <<wfile, wname, undone, walCacheVars, tailVars>>

\* The single Write of a batch: a reader may see any part of it.
WriteCell ==
  /\ appender.at = "writing" /\ appender.todo # <<>>
  /\ wfile' = [wfile EXCEPT ![Current] = Append(@, Head(appender.todo))]
  /\ appender' = [appender EXCEPT !.todo = Tail(@)]
  /\ UNCHANGED <<wname, started, undone, walCacheVars, tailVars>>

WriteSucceeds ==
  /\ appender.at = "writing" /\ appender.todo = <<>>
  /\ appender' = [appender EXCEPT !.at = "push", !.size = @ + Len(Cells(appender.batch))]
  /\ UNCHANGED <<wfile, wname, started, undone, walCacheVars, tailVars>>

\* rollback of a short write; the truncation itself may fail.
WriteFails ==
  /\ appender.at = "writing" /\ appender.todo # <<>>
  /\ appender' = [appender EXCEPT !.at = "idle", !.batch = <<>>, !.todo = <<>>]
  /\ \/ /\ wfile' = [wfile EXCEPT ![Current] = SubSeq(@, 1, appender.size)]
        /\ undone' = undone \cup {p \in WALPaths : p[2] = Current /\ wcache[p].off > appender.size}
     \/ UNCHANGED <<wfile, undone>>
  /\ UNCHANGED <<wname, started, walCacheVars, tailVars>>

\* rotate and ensureWAL: between the two there is no live file.
RotateRenames ==
  /\ appender.at = "idle" /\ appender.size > 0 /\ Current < MaxWALFiles
  /\ wname' = [wname EXCEPT ![Current] = "sealing"]
  /\ appender' = [appender EXCEPT !.at = "open"]
  /\ UNCHANGED <<wfile, started, undone, walCacheVars, tailVars>>
RotateOpens ==
  /\ appender.at = "open"
  /\ wname' = [wname EXCEPT ![Current + 1] = "active"]
  /\ appender' = [appender EXCEPT !.at = "idle", !.size = 0]
  /\ UNCHANGED <<wfile, started, undone, walCacheVars, tailVars>>
\* Seal removes the file; the store forgets its parse afterwards.
SealRemoves(f) ==
  /\ appender.at # "open" /\ wname[f] = "sealing"
  /\ wname' = [wname EXCEPT ![f] = "gone"]
  /\ UNCHANGED <<wfile, appender, started, undone, walCacheVars, tailVars>>

\* ------------------------------------------------------------------ the cache
\* The cache as a value, [files, used], for the steps of one call.
Parses == [files |-> wcache, used |-> walUsed]
removeLocked(c, p) ==
  [files |-> [c.files EXCEPT ![p] = NoParse],
   used |-> Max({0, c.used - entriesMemoryBytes(c.files[p].entries)})]
evictDeletedLocked(c, keep) ==
  FoldSet(LAMBDA p, d : removeLocked(d, p), c, {p \in WALPaths \ {keep} : ~WALExists(p)})
sameFileAs(p) == WALExists(p) /\ Len(wfile[p[2]]) >= wcache[p].off

SetCache(c) == wcache' = c.files /\ walUsed' = c.used
Answer(got, fresh) == served' = [got |-> got, fresh |-> fresh]

\* cached: the handle for the path and the first look at the budget, under mu.  A
\* file that is gone or too large is streamed instead.
CacheLooks(p) ==
  /\ walLookup = Unlocked
  /\ LET kept == IF sameFileAs(p) THEN Parses ELSE removeLocked(Parses, p)
         now == IF kept.files[p].open \/ ~WALExists(p) THEN kept
                ELSE evictDeletedLocked([kept EXCEPT !.files[p].open = TRUE], p)
         pending == Len(wfile[p[2]]) - now.files[p].off
     IN IF ~now.files[p].open \/ now.used + pending > WALCacheBytes
          THEN /\ SetCache(removeLocked(now, p))
               /\ Answer(ParsedAt(p), ParsedAt(p)) /\ UNCHANGED walLookup
          ELSE /\ SetCache(now) /\ walLookup' = [at |-> "parse", path |-> p]
               /\ UNCHANGED served
  /\ undone' = {q \in undone : /\ wcache'[q].open
                                /\ q = p => Len(wfile[q[2]]) >= wcache[q].off}
  /\ UNCHANGED <<wfile, wname, appender, started, tailVars>>

\* cached: the bytes appended since, by the retained handle, and the budget again.
CacheParses ==
  /\ walLookup.at = "parse" /\ walLookup' = Unlocked
  /\ LET p == walLookup.path
         cf == wcache[p]
         added == ReadsFrom(wfile[p[2]], cf.off)
         all == cf.entries \o added.entries
         now == [files |-> [wcache EXCEPT ![p] = [cf EXCEPT !.off = added.off, !.entries = all]],
                 used |-> walUsed + entriesMemoryBytes(added.entries)]
         fresh == ReadsFrom(wfile[p[2]], 0).entries
     IN IF Len(all) > WALCacheEntries \/ now.used > WALCacheBytes
          THEN SetCache(removeLocked(now, p)) /\ Answer(ParsedAt(p), ParsedAt(p))
          ELSE SetCache(now) /\ Answer(all, IF p \in undone THEN all ELSE fresh)
  /\ UNCHANGED <<wfile, wname, appender, started, undone, tailVars>>

\* forget, by the store once the seal of the path is done.
ForgetSealed(f) ==
  /\ walLookup = Unlocked /\ wname[f] = "gone" /\ wcache[<<"sealing", f>>].open
  /\ SetCache(removeLocked(Parses, <<"sealing", f>>))
  /\ UNCHANGED <<wfile, wname, appender, started, undone, walLookup, served, tailVars>>

\* ------------------------------------------------------------------- the tail
RingSuffix(entries) == SubSeq(entries, Max({1, Len(entries) - RingSize + 1}), Len(entries))

\* Push, under the writer's mu: first the ring, then the subscribers.
PushRing ==
  /\ appender.at = "push" /\ \A t \in Tails : tails[t].at # "snapped"
  /\ ring' = RingSuffix(ring \o RingSuffix(appender.batch))
  /\ appender' = [appender EXCEPT !.at = "fanout"]
  /\ UNCHANGED <<wfile, wname, started, undone, walCacheVars, tails>>
Offer(t, batch) ==
  IF tails[t].at # "in" THEN tails[t]
  ELSE IF Len(tails[t].chan) < TailBuffer THEN [tails[t] EXCEPT !.chan = Append(@, batch)]
  ELSE [tails[t] EXCEPT !.lost = @ \cup ToSet(batch)]
FanOut ==
  /\ appender.at = "fanout"
  /\ tails' = [t \in Tails |-> Offer(t, RingSuffix(appender.batch))]
  /\ appender' = [appender EXCEPT !.at = "idle", !.batch = <<>>]
  /\ UNCHANGED <<wfile, wname, started, undone, walCacheVars, ring>>

\* SnapshotAndSubscribe holds the ring's read lock over both halves.
TailSnapshot(t) ==
  /\ tails[t].at = "out"
  /\ tails' = [tails EXCEPT ![t] = [NoTail EXCEPT !.at = "snapped", !.snap = ring]]
  /\ UNCHANGED <<wfile, wname, appender, started, undone, walCacheVars, ring>>
Subscribe(t) ==
  /\ tails[t].at = "snapped" /\ tails' = [tails EXCEPT ![t].at = "in"]
  /\ UNCHANGED <<wfile, wname, appender, started, undone, walCacheVars, ring>>
Receive(t) ==
  /\ tails[t].at = "in" /\ tails[t].chan # <<>>
  /\ tails' = [tails EXCEPT ![t].chan = Tail(@), ![t].got = @ \o Head(tails[t].chan)]
  /\ UNCHANGED <<wfile, wname, appender, started, undone, walCacheVars, ring>>
Unsubscribe(t) ==
  /\ tails[t].at = "in" /\ tails' = [tails EXCEPT ![t] = NoTail]
  /\ UNCHANGED <<wfile, wname, appender, started, undone, walCacheVars, ring>>

\* Cache and tails do not meet: each is run with the writer alone.
WriterNext == AppendBegins(1) \/ AppendBegins(2) \/ WriteCell \/ WriteSucceeds \/ WriteFails
              \/ RotateRenames \/ RotateOpens \/ PushRing \/ FanOut
              \/ \E f \in WALFiles : SealRemoves(f)
WALCacheNext ==
  WriterNext \/ CacheParses \/ (\E p \in WALPaths : CacheLooks(p)) \/ \E f \in WALFiles : ForgetSealed(f)
TailNext ==
  WriterNext \/ \E t \in Tails : TailSnapshot(t) \/ Subscribe(t) \/ Receive(t) \/ Unsubscribe(t)

\* A query of a WAL path gets what a fresh parse of the file it named gives,
\* through rotation, renaming, removal, torn tails and failed truncations, unless a
\* rollback cut away records that were parsed while they were being written and
\* the file grew again before the next look (walcache.go:236); and the
\* memory the cache accounts for is what it holds, within its budget.
CachedParseIsFresh ==
  /\ served.got = served.fresh
  /\ walUsed = FoldSet(LAMBDA p, n : n + entriesMemoryBytes(wcache[p].entries), 0, WALPaths)
  /\ walUsed <= WALCacheBytes /\ \A p \in WALPaths : Len(wcache[p].entries) <= WALCacheEntries

\* A tail misses no entry but those of a batch its full channel refused, and gets
\* them in the order of their IDs, once those of the snapshot are skipped
\* (ring.go:93).
TailMissesNothing ==
  \A t \in {u \in Tails : tails[u].at = "in"} :
    LET s == tails[t]
        coming == FlattenSeq(s.chan) \o (IF appender.at = "fanout" THEN RingSuffix(appender.batch) ELSE <<>>)
        news == SelectSeq(s.got \o coming, LAMBDA r : r \notin ToSet(s.snap))
    IN /\ ToSet(ring) \subseteq ToSet(s.snap \o s.got \o coming) \cup s.lost
       /\ \A i, j \in DOMAIN (s.snap \o news) : i < j => (s.snap \o news)[i] < (s.snap \o news)[j]
=============================================================================
