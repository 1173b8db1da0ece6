------------------------------ MODULE LogStore ------------------------------
(***************************************************************************)
(* The life cycle of a log entry in the segmented store                    *)
(* (internal/logstore/engine): appended to the current hour's active.wal,  *)
(* rotated to sealing_<hour>.wal, sealed into chunks + meta.json +         *)
(* .seal_complete, registered as a segment, and finally pruned.  The       *)
(* process may crash between any two file operations and is restarted by   *)
(* NewStore, which first opens the WAL writer and then recovers every      *)
(* segment directory.                                                      *)
(*                                                                         *)
(* Time is counted in whole hours.  A record stands for one stored entry:  *)
(* its ID is the pair (hour, idx); "at" is its received_at; "n" tells two  *)
(* appends apart even when their IDs collide.  A file is the set of the    *)
(* records in it (idx gives the order) and {} stands for an absent or      *)
(* empty file, which the code treats alike.                                *)
(***************************************************************************)
EXTENDS Integers, FiniteSets

CONSTANTS
    MaxClock,          \* bound on the wall clock, in hours
    MaxDrift,          \* bound: how far forced seals run ahead of the clock
    MaxAppends,        \* bound on the number of entries ever appended
    SegmentRoom,       \* MaxEntriesPerSegment: IDs one segment hour addresses
    Retention,         \* log retention, in hours
    SameHourRestart,   \* may a restart find an unfinished seal in an hour
                       \* that has not ended yet?
    TickDuringOpen,    \* may the hour change between the two clock reads
                       \* of NewStore?
    RecoverySealFails  \* may a seal attempted by recovery fail (disk full)?

ASSUME BoundsAssumption ==
    /\ MaxClock \in Nat
    /\ MaxDrift \in Nat
    /\ MaxAppends \in Nat
    /\ SegmentRoom \in Nat \ {0}
    /\ Retention \in Nat
    /\ SameHourRestart \in BOOLEAN
    /\ TickDuringOpen \in BOOLEAN
    /\ RecoverySealFails \in BOOLEAN

\* Segments parked ahead of the clock are reached by it before they expire.
ASSUME DriftAssumption == MaxDrift <= Retention

VARIABLES
    clock,       \* SegmentHourFromTime(time.Now())
    mode,        \* where NewStore / the process is
    segHour,     \* WALWriter.segmentHour
    entryCount,  \* WALWriter.entryCount
    synced,      \* WALWriter.syncedBytes, in records
    linked,      \* the name under which the writer's open file is linked
    active,      \* <hour>/active.wal
    sealing,     \* <hour>/sealing_<hour>.wal
    chunks,      \* <hour>/chunk_*.col, those the seal has written
    meta,        \* <hour>/meta.json exists
    marker,      \* <hour>/.seal_complete exists
    segments,    \* SegmentManager.segments
    pending,     \* Store.pendingSeals
    sealPc,      \* the holder of sealMu (or recovery): where it is
    sealHour,    \* the hour it is sealing
    caller,      \* who called Seal
    todo,        \* hours still to retry, or directories still to recover
    scanHour,    \* SegmentManager.scan's currentHour
    appends,     \* number of appends so far
    inflight,    \* records of Append calls that have not returned
    acked,       \* records whose Append returned without error
    pruned       \* records removed by retention

writerVars == <<segHour, entryCount, synced, linked>>
diskVars   == <<active, sealing, chunks, meta, marker>>
sealVars   == <<sealPc, sealHour, caller, todo, scanHour>>
ghostVars  == <<appends, inflight, acked, pruned>>
vars == <<clock, mode, writerVars, diskVars, segments, pending, sealVars,
          ghostVars>>

Hours   == 0 .. (MaxClock + MaxDrift)
Records == [hour : Hours, idx : Nat, at : Nat, n : Nat]

Modes   == {"down", "opening", "recovering", "up"}
SealPcs == {"idle", "retry", "recover", "rotated", "check", "chunks", "marker",
            "remove", "register"}
Callers == {"seal", "retry", "recover"}

-----------------------------------------------------------------------------
(* Variant: the hours an earlier run sealed are not skipped.               *)
FreeSegmentHourUnprobed(start, h) ==
    h \in Hours /\ h = start /\ h <= clock + MaxDrift

(* freeSegmentHour: h is the first hour from start on that is not sealed.  *)
(* The probe gives up (maxSealedHourProbe) MaxDrift hours past the clock.  *)
FreeSegmentHour(start, h) ==
    /\ h \in Hours
    /\ start <= h
    /\ h <= clock + MaxDrift
    /\ ~marker[h]
    /\ \A g \in Hours : start <= g /\ g < h => marker[g]

(* Variant: the replay forgets to count the last record.                   *)
EnsureWALOffByOne(h, wal) ==
    /\ segHour' = h
    /\ entryCount' = Cardinality(wal[h]) - 1
    /\ synced' = Cardinality(wal[h]) - 1
    /\ linked' = "active"

(* ensureWAL: open h's active.wal, counting the records already there.     *)
EnsureWAL(h, wal) ==
    /\ segHour' = h
    /\ entryCount' = Cardinality(wal[h])
    /\ synced' = Cardinality(wal[h])
    /\ linked' = "active"

Init ==
    /\ clock = 0
    /\ mode = "down"
    /\ segHour = 0 /\ entryCount = 0 /\ synced = 0 /\ linked = "active"
    /\ active  = [h \in Hours |-> {}]
    /\ sealing = [h \in Hours |-> {}]
    /\ chunks  = [h \in Hours |-> {}]
    /\ meta    = [h \in Hours |-> FALSE]
    /\ marker  = [h \in Hours |-> FALSE]
    /\ segments = {} /\ pending = {}
    /\ sealPc = "idle" /\ sealHour = 0 /\ caller = "seal"
    /\ todo = {} /\ scanHour = 0
    /\ appends = 0 /\ inflight = {} /\ acked = {} /\ pruned = {}

Tick ==
    /\ clock < MaxClock
    /\ mode = "opening" => TickDuringOpen
    /\ clock' = clock + 1
    /\ UNCHANGED <<mode, writerVars, diskVars, segments, pending, sealVars,
                   ghostVars>>

-----------------------------------------------------------------------------
(* Appending.                                                              *)

(* WALWriter.Append up to the release of mu: the record is written to the  *)
(* open file and counted, but not yet fsynced.                             *)
Append ==
    /\ mode = "up"
    /\ appends < MaxAppends
    /\ entryCount < SegmentRoom
    /\ LET r == [hour |-> segHour, idx |-> entryCount, at |-> clock,
                 n |-> appends]
       IN  /\ active' = IF linked = "active"
                        THEN [active EXCEPT ![segHour] = @ \cup {r}]
                        ELSE active
           /\ sealing' = IF linked = "sealing"
                         THEN [sealing EXCEPT ![segHour] = @ \cup {r}]
                         ELSE sealing
           /\ inflight' = inflight \cup {r}
    /\ entryCount' = entryCount + 1
    /\ appends' = appends + 1
    /\ UNCHANGED <<clock, mode, segHour, synced, linked, chunks, meta, marker,
                   segments, pending, sealVars, acked, pruned>>

(* The end of Append: syncThrough returns once a group commit has covered  *)
(* the record, or the rotation that retired its file has flushed it.       *)
Acknowledge(r) ==
    /\ mode = "up"
    /\ r \in inflight
    /\ synced' \in IF r.hour = segHour
                   THEN IF r.idx < synced THEN {synced} ELSE {entryCount}
                   ELSE {synced, entryCount}
    /\ inflight' = inflight \ {r}
    /\ acked' = acked \cup {r}
    /\ UNCHANGED <<clock, mode, segHour, entryCount, linked, diskVars,
                   segments, pending, sealVars, appends, pruned>>

-----------------------------------------------------------------------------
(* Sealing: SealCurrentHour and the Seal it shares with recovery.          *)

(* Variant: an earlier seal that failed is not retried.                    *)
SealCurrentHourNoRetry ==
    /\ mode = "up"
    /\ sealPc = "idle"
    /\ sealPc' = "retry"
    /\ todo' = {}
    /\ UNCHANGED <<clock, mode, writerVars, diskVars, segments, pending,
                   sealHour, caller, scanHour, ghostVars>>

(* SealCurrentHour takes sealMu and copies the pending set to retry it.    *)
SealCurrentHour ==
    /\ mode = "up"
    /\ sealPc = "idle"
    /\ sealPc' = "retry"
    /\ todo' = pending
    /\ UNCHANGED <<clock, mode, writerVars, diskVars, segments, pending,
                   sealHour, caller, scanHour, ghostVars>>

(* retryPendingSeals: the next hour whose earlier seal failed.             *)
RetryPendingSeal(h) ==
    /\ mode = "up"
    /\ sealPc = "retry"
    /\ h \in todo
    /\ todo' = todo \ {h}
    /\ sealPc' = "check"
    /\ sealHour' = h
    /\ caller' = "retry"
    /\ UNCHANGED <<clock, mode, writerVars, diskVars, segments, pending,
                   scanHour, ghostVars>>

(* Rotate with nothing to seal: follow the clock if it has moved on.       *)
RotateEmpty ==
    /\ mode = "up"
    /\ sealPc = "retry"
    /\ todo = {}
    /\ entryCount = 0
    /\ IF clock > segHour THEN EnsureWAL(clock, active)
                          ELSE UNCHANGED writerVars
    /\ sealPc' = "idle"
    /\ UNCHANGED <<clock, mode, diskVars, segments, pending, sealHour, caller,
                   todo, scanHour, ghostVars>>

(* Rotate: flush, rename active.wal to sealing_<hour>.wal (if it is still  *)
(* there), open the next free hour.  The renamed file is not yet pending.  *)
Rotate ==
    /\ mode = "up"
    /\ sealPc = "retry"
    /\ todo = {}
    /\ entryCount > 0
    /\ \E h \in Hours :
          /\ FreeSegmentHour(IF clock <= segHour THEN segHour + 1 ELSE clock,
                             h)
          /\ active' = [active EXCEPT ![segHour] = {}]
          /\ sealing' = IF linked = "active"
                        THEN [sealing EXCEPT ![segHour] = active[segHour]]
                        ELSE sealing
          /\ EnsureWAL(h, active)
    /\ sealPc' = "rotated"
    /\ sealHour' = segHour
    /\ caller' = "seal"
    /\ UNCHANGED <<clock, mode, chunks, meta, marker, segments, pending, todo,
                   scanHour, ghostVars>>

(* freeSegmentHour found no hour: Rotate fails and nothing has changed.    *)
RotateFails ==
    /\ mode = "up"
    /\ sealPc = "retry"
    /\ todo = {}
    /\ entryCount > 0
    /\ \A h \in Hours :
         ~FreeSegmentHour(IF clock <= segHour THEN segHour + 1 ELSE clock, h)
    /\ sealPc' = "idle"
    /\ UNCHANGED <<clock, mode, writerVars, diskVars, segments, pending,
                   sealHour, caller, todo, scanHour, ghostVars>>

(* SealCurrentHour publishes the rotated file to queries.                  *)
PublishPending ==
    /\ mode = "up"
    /\ sealPc = "rotated"
    /\ pending' = pending \cup {sealHour}
    /\ sealPc' = "check"
    /\ UNCHANGED <<clock, mode, writerVars, diskVars, segments, sealHour,
                   caller, todo, scanHour, ghostVars>>

(* Where the caller of Seal continues once Seal has returned.              *)
AfterSeal ==
    CASE caller = "retry"   -> "retry"
      [] caller = "recover" -> "recover"
      [] OTHER              -> "idle"

(* Variant: Seal does not refuse an hour that is already sealed.           *)
SealCheckNoRefusal ==
    /\ sealPc = "check"
    /\ sealPc' = "chunks"
    /\ chunks' = [chunks EXCEPT ![sealHour] = {}]
    /\ UNCHANGED <<clock, mode, writerVars, active, sealing, meta, marker,
                   segments, pending, sealHour, caller, todo, scanHour,
                   ghostVars>>

(* The first lines of Seal: refuse a sealed hour, fail on a missing WAL,   *)
(* otherwise start over with no chunk recorded.                            *)
SealCheck ==
    /\ sealPc = "check"
    /\ IF marker[sealHour] \/ sealing[sealHour] = {}
       THEN /\ sealPc' = AfterSeal
            /\ UNCHANGED <<chunks, meta>>
       ELSE /\ sealPc' = "chunks"
            /\ chunks' = [chunks EXCEPT ![sealHour] = {}]
            /\ UNCHANGED meta
    /\ UNCHANGED <<clock, mode, writerVars, active, sealing, marker, segments,
                   pending, sealHour, caller, todo, scanHour, ghostVars>>

(* Seal: one batch of the WAL, in file order, into a chunk.                *)
SealWriteChunk ==
    /\ sealPc = "chunks"
    /\ \E r \in sealing[sealHour] \ chunks[sealHour] :
          /\ \A q \in sealing[sealHour] \ chunks[sealHour] : r.idx <= q.idx
          /\ chunks' = [chunks EXCEPT ![sealHour] = @ \cup {r}]
    /\ UNCHANGED <<clock, mode, writerVars, active, sealing, meta, marker,
                   segments, pending, sealVars, ghostVars>>

(* Variant: the last, partly filled batch is not written.                  *)
SealWriteMetaTooEarly ==
    /\ sealPc = "chunks"
    /\ chunks[sealHour] # {}
    /\ meta' = [meta EXCEPT ![sealHour] = TRUE]
    /\ sealPc' = "marker"
    /\ UNCHANGED <<clock, mode, writerVars, active, sealing, chunks, marker,
                   segments, pending, sealHour, caller, todo, scanHour,
                   ghostVars>>

(* Seal: every record is in a chunk; write and fsync meta.json.            *)
SealWriteMeta ==
    /\ sealPc = "chunks"
    /\ sealing[sealHour] \subseteq chunks[sealHour]
    /\ meta' = [meta EXCEPT ![sealHour] = TRUE]
    /\ sealPc' = "marker"
    /\ UNCHANGED <<clock, mode, writerVars, active, sealing, chunks, marker,
                   segments, pending, sealHour, caller, todo, scanHour,
                   ghostVars>>

(* Seal: write and fsync .seal_complete.                                   *)
SealWriteMarker ==
    /\ sealPc = "marker"
    /\ marker' = [marker EXCEPT ![sealHour] = TRUE]
    /\ sealPc' = "remove"
    /\ UNCHANGED <<clock, mode, writerVars, active, sealing, chunks, meta,
                   segments, pending, sealHour, caller, todo, scanHour,
                   ghostVars>>

(* Seal: only now is the WAL removed.                                      *)
SealRemoveWAL ==
    /\ sealPc = "remove"
    /\ sealing' = [sealing EXCEPT ![sealHour] = {}]
    /\ linked' = IF linked = "sealing" /\ sealHour = segHour
                 THEN "none" ELSE linked
    /\ sealPc' = "register"
    /\ UNCHANGED <<clock, mode, segHour, entryCount, synced, active, chunks,
                   meta, marker, segments, pending, sealHour, caller, todo,
                   scanHour, ghostVars>>

(* sealPending under pendingMu, or scan loading the directory it has just  *)
(* recovered: the hour leaves the pending set and becomes a segment.       *)
Register ==
    /\ sealPc = "register"
    /\ segments' = segments \cup {sealHour}
    /\ pending' = pending \ {sealHour}
    /\ sealPc' = AfterSeal
    /\ UNCHANGED <<clock, mode, writerVars, diskVars, sealHour, caller, todo,
                   scanHour, ghostVars>>

(* Seal fails in a chunk, in meta.json, in the marker or in the directory  *)
(* fsync after the marker: the WAL and whatever was written stay.          *)
SealFails ==
    /\ sealPc \in {"chunks", "marker", "remove"}
    /\ caller = "recover" => RecoverySealFails
    /\ sealPc' = AfterSeal
    /\ segments' = IF caller = "recover" /\ marker[sealHour]
                   THEN segments \cup {sealHour} ELSE segments
    /\ UNCHANGED <<clock, mode, writerVars, diskVars, pending, sealHour,
                   caller, todo, scanHour, ghostVars>>

-----------------------------------------------------------------------------
(* Retention: SegmentManager.Prune.                                        *)

(* Variant: the segment expires with its first entry.                      *)
ExpiredByFirst(h) ==
    \E r \in chunks[h] : /\ \A q \in chunks[h] : r.idx <= q.idx
                         /\ r.at + Retention < clock

(* expiredAt: the received_at of the last entry is before the cutoff.      *)
Expired(h) ==
    \E r \in chunks[h] : /\ \A q \in chunks[h] : q.idx <= r.idx
                         /\ r.at + Retention < clock

(* os.RemoveAll of every expired segment directory it can remove.          *)
Prune(D) ==
    /\ mode = "up"
    /\ D # {}
    /\ \A h \in D : h \in segments /\ Expired(h)
    /\ active'  = [h \in Hours |-> IF h \in D THEN {} ELSE active[h]]
    /\ sealing' = [h \in Hours |-> IF h \in D THEN {} ELSE sealing[h]]
    /\ chunks'  = [h \in Hours |-> IF h \in D THEN {} ELSE chunks[h]]
    /\ meta'    = [h \in Hours |-> h \notin D /\ meta[h]]
    /\ marker'  = [h \in Hours |-> h \notin D /\ marker[h]]
    /\ linked' = IF segHour \in D THEN "none" ELSE linked
    /\ segments' = segments \ D
    /\ pruned' = pruned \cup
                  UNION {active[h] \cup sealing[h] \cup chunks[h] : h \in D}
    /\ UNCHANGED <<clock, mode, segHour, entryCount, synced, pending, sealVars,
                   appends, inflight, acked>>

-----------------------------------------------------------------------------
(* Stopping and starting.                                                  *)

ForgetMemory ==
    /\ mode' = "down"
    /\ segHour' = 0 /\ entryCount' = 0 /\ synced' = 0 /\ linked' = "active"
    /\ segments' = {} /\ pending' = {}
    /\ sealPc' = "idle" /\ sealHour' = 0 /\ caller' = "seal"
    /\ todo' = {} /\ scanHour' = 0
    /\ inflight' = {}

(* A crash or power loss: what was written past the last fsync of the open *)
(* file may be lost from some record on (a torn record is cut by the next  *)
(* scan); everything in memory is lost.                                    *)
Crash ==
    /\ mode # "down"
    /\ \E k \in synced .. entryCount :
          LET Keep(S) == {r \in S : r.idx < k}
          IN  /\ active' = IF linked = "active"
                           THEN [active EXCEPT ![segHour] = Keep(@)]
                           ELSE active
              /\ sealing' = IF linked = "sealing"
                            THEN [sealing EXCEPT ![segHour] = Keep(@)]
                            ELSE sealing
    /\ ForgetMemory
    /\ UNCHANGED <<clock, chunks, meta, marker, appends, acked, pruned>>

(* Store.Close after the HTTP servers and the sealer have stopped: the     *)
(* open file is flushed.                                                   *)
Close ==
    /\ mode = "up"
    /\ sealPc = "idle"
    /\ inflight = {}
    /\ ForgetMemory
    /\ UNCHANGED <<clock, diskVars, appends, acked, pruned>>

(* NewStore, first half: NewWALWriter opens the first unsealed hour from   *)
(* the clock on.                                                           *)
NewWALWriter ==
    /\ mode = "down"
    /\ SameHourRestart \/
         \A g \in Hours : sealing[g] # {} /\ ~marker[g] => g < clock
    /\ \E h \in Hours : FreeSegmentHour(clock, h) /\ EnsureWAL(h, active)
    /\ mode' = "opening"
    /\ UNCHANGED <<clock, diskVars, segments, pending, sealVars, ghostVars>>

(* NewStore, second half: NewSegmentManager reads the clock again and      *)
(* walks the segment directories in name order.                            *)
Scan ==
    /\ mode = "opening"
    /\ mode' = "recovering"
    /\ scanHour' = clock
    /\ todo' = Hours
    /\ sealPc' = "recover"
    /\ UNCHANGED <<clock, writerVars, diskVars, segments, pending, sealHour,
                   caller, ghostVars>>

NextDir(h) ==
    /\ mode = "recovering"
    /\ sealPc = "recover"
    /\ h \in todo
    /\ \A g \in todo : h <= g
    /\ todo' = todo \ {h}

(* recoverDir returns at once for a sealed directory; scan loads it.       *)
LoadSealed(h) ==
    /\ NextDir(h)
    /\ marker[h]
    /\ segments' = IF meta[h] THEN segments \cup {h} ELSE segments
    /\ UNCHANGED <<clock, mode, writerVars, diskVars, pending, sealPc,
                   sealHour, caller, scanHour, ghostVars>>

(* recoverDir finishes an interrupted seal: CleanIncompleteSeal, Seal.     *)
ReSeal(h) ==
    /\ NextDir(h)
    /\ ~marker[h]
    /\ sealing[h] # {}
    /\ chunks' = [chunks EXCEPT ![h] = {}]
    /\ meta' = [meta EXCEPT ![h] = FALSE]
    /\ sealPc' = "check" /\ sealHour' = h /\ caller' = "recover"
    /\ UNCHANGED <<clock, mode, writerVars, active, sealing, marker, segments,
                   pending, scanHour, ghostVars>>

(* recoverDir seals an earlier hour's active.wal: rename, Seal.  An empty  *)
(* one is simply removed by Seal.                                          *)
SealOrphan(h) ==
    /\ NextDir(h)
    /\ ~marker[h]
    /\ sealing[h] = {}
    /\ h < scanHour
    /\ active' = [active EXCEPT ![h] = {}]
    /\ sealing' = [sealing EXCEPT ![h] = active[h]]
    /\ linked' = IF h # segHour THEN linked
                 ELSE IF active[h] = {} THEN "none" ELSE "sealing"
    /\ IF active[h] = {}
       THEN UNCHANGED <<sealPc, sealHour, caller>>
       ELSE sealPc' = "check" /\ sealHour' = h /\ caller' = "recover"
    /\ UNCHANGED <<clock, mode, segHour, entryCount, synced, chunks, meta,
                   marker, segments, pending, scanHour, ghostVars>>

(* recoverDir leaves an active.wal of scanHour or later to the writer.     *)
SkipDir(h) ==
    /\ NextDir(h)
    /\ ~marker[h]
    /\ sealing[h] = {}
    /\ h >= scanHour
    /\ UNCHANGED <<clock, mode, writerVars, diskVars, segments, pending,
                   sealPc, sealHour, caller, scanHour, ghostVars>>

(* NewStore returns: the server starts to accept entries.                  *)
Opened ==
    /\ mode = "recovering"
    /\ sealPc = "recover"
    /\ todo = {}
    /\ mode' = "up"
    /\ sealPc' = "idle"
    /\ UNCHANGED <<clock, writerVars, diskVars, segments, pending, sealHour,
                   caller, todo, scanHour, ghostVars>>

-----------------------------------------------------------------------------
Sealer ==
    \/ RotateEmpty \/ Rotate \/ RotateFails \/ PublishPending
    \/ \E h \in Hours : RetryPendingSeal(h)
    \/ SealCheck \/ SealWriteChunk \/ SealWriteMeta \/ SealWriteMarker
    \/ SealRemoveWAL \/ Register

Recovery ==
    \/ NewWALWriter \/ Scan \/ Opened
    \/ \E h \in Hours :
          LoadSealed(h) \/ ReSeal(h) \/ SealOrphan(h) \/ SkipDir(h)

Next ==
    \/ Tick \/ Append \/ (\E r \in inflight : Acknowledge(r))
    \/ SealCurrentHour \/ Sealer \/ SealFails
    \/ \E D \in SUBSET Hours : Prune(D)
    \/ Crash \/ Close \/ Recovery

Spec == Init /\ [][Next]_vars

(* The background sealer runs on every tick and, once it holds sealMu,     *)
(* goes on; what makes a seal fail (a full disk) does not last for ever.   *)
Fairness ==
    /\ WF_vars(SealCurrentHour)
    /\ WF_vars(Sealer)
    /\ <>[][~SealFails]_vars

FairSpec == Spec /\ Fairness

-----------------------------------------------------------------------------
(* What queries see.                                                       *)

(* Variant: queries read every sealing_*.wal they find on disk.            *)
WALRecordsByGlob == active[segHour] \cup UNION {sealing[h] : h \in Hours}

(* queryView: the registered segments, and the WAL files not in one.       *)
SegmentRecords == UNION {chunks[h] : h \in segments}
WALRecords     == active[segHour] \cup UNION {sealing[h] : h \in pending}

(* Variant: GetByID does not look into the files being sealed.             *)
GetByIDNoPending(hour, idx) ==
    IF hour \in segments
    THEN {r \in chunks[hour] : r.idx = idx}
    ELSE {r \in active[segHour] : r.hour = hour /\ r.idx = idx}

(* GetByID: the segment of the ID's hour if there is one, else the WALs.   *)
GetByID(hour, idx) ==
    IF hour \in segments
    THEN {r \in chunks[hour] : r.idx = idx}
    ELSE {r \in WALRecords : r.hour = hour /\ r.idx = idx}

(* What the files would give back to a recovery, whatever the mode.        *)
OnDisk(h) == active[h] \cup IF marker[h] THEN chunks[h] ELSE sealing[h]

-----------------------------------------------------------------------------
(* Properties.                                                             *)

TypeOK ==
    /\ clock \in 0 .. MaxClock
    /\ mode \in Modes
    /\ segHour \in Hours /\ entryCount \in Nat /\ synced \in Nat
    /\ linked \in {"active", "sealing", "none"}
    /\ active \in [Hours -> SUBSET Records]
    /\ sealing \in [Hours -> SUBSET Records]
    /\ chunks \in [Hours -> SUBSET Records]
    /\ meta \in [Hours -> BOOLEAN]
    /\ marker \in [Hours -> BOOLEAN]
    /\ segments \subseteq Hours /\ pending \subseteq Hours
    /\ sealPc \in SealPcs /\ sealHour \in Hours /\ caller \in Callers
    /\ todo \subseteq Hours /\ scanHour \in Nat
    /\ appends \in 0 .. MaxAppends
    /\ inflight \subseteq Records /\ acked \subseteq Records
    /\ pruned \subseteq Records

(* An entry whose Append returned without error, and that retention has    *)
(* not removed, is in the files recovery would read: no crash between two  *)
(* steps of rotate, Seal, recoverDir or Prune ever leaves it in none.      *)
Durable == \A r \in acked \ pruned : r \in OnDisk(r.hour)

(* While the store is open, GetByID gives back exactly the entry that was  *)
(* acknowledged under the ID: it is visible in one place and shares its ID *)
(* with no other.  The two moments at which the hour being sealed is not   *)
(* readable (after Rotate, before the pending set is updated; after Seal   *)
(* removed the WAL, before Register) are excepted.                         *)
FoundByID ==
    mode = "up" =>
        \A r \in acked \ pruned :
            \/ r.hour = sealHour /\ sealPc \in {"rotated", "register"}
            \/ GetByID(r.hour, r.idx) = {r}

(* No two acknowledged entries have the same ID, across rotations, crashes *)
(* and restarts (freeSegmentHour, IDForPosition).                          *)
UniqueIDs ==
    \A r, s \in acked : r.hour = s.hour /\ r.idx = s.idx /\ r # s
                        => r \in pruned \/ s \in pruned

(* sealPending swaps an hour from the pending set to the segments, so a    *)
(* query counts no entry both in a segment and in a WAL file.              *)
CountedOnce == mode = "up" => SegmentRecords \cap WALRecords = {}

(* Once .seal_complete is there, no step changes the hour's chunks: Seal   *)
(* refuses to seal it again and recovery does not clean it.                *)
SealedUnchanged ==
    [][\A h \in Hours : marker[h] /\ marker'[h] => chunks'[h] = chunks[h]]_vars

(* Prune never removes an acknowledged entry younger than the retention    *)
(* period, although it looks only at the last entry of the segment.        *)
RetentionRespected ==
    [][\A r \in pruned' \ pruned : r.at + Retention < clock]_vars

(* The store keeps the promise of DurableLog: its stored entries are the   *)
(* acknowledged ones that recovery would find in the files.                *)
Stored == {r \in acked : r \in OnDisk(r.hour)}
Promise == INSTANCE DurableLog WITH now <- clock, stored <- Stored
KeepsPromise == Promise!Spec

(* A seal that failed is retried until the hour's segment is complete:     *)
(* retryPendingSeals never forgets an hour, whatever else is pending.      *)
SealRetried ==
    \A h \in Hours : h \in pending ~> marker[h] \/ mode = "down"

=============================================================================
