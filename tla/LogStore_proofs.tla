-------------------------- MODULE LogStore_proofs ---------------------------
(***************************************************************************)
(* The inductive invariant of LogStore, second half: the hours ahead of    *)
(* the clock, what a running store reads, what it still owes; and what     *)
(* follows from it, for every value of the bounds, the retention and the   *)
(* segment size.                                                           *)
(***************************************************************************)
EXTENDS LogStoreFiles_proofs, FiniteSetTheorems, FunctionTheorems, TLAPS

(* The hours from the clock on are used without a gap: NoGapInv is         *)
(* preserved.                                                              *)
LEMMA NoGapStep == Benign /\ IInv /\ [Next]_vars => NoGapInv'
<1> SUFFICES ASSUME Benign, IInv, [Next]_vars PROVE NoGapInv'
  OBVIOUS
<1>t. /\ segHour \in Hours /\ sealHour \in Hours /\ clock \in Nat
      /\ scanHour \in Nat /\ entryCount \in Nat
      /\ active \in [Hours -> SUBSET Records]
      /\ sealing \in [Hours -> SUBSET Records]
      /\ chunks \in [Hours -> SUBSET Records]
      /\ meta \in [Hours -> BOOLEAN]
      /\ marker \in [Hours -> BOOLEAN]
      /\ segments \subseteq Hours /\ pending \subseteq Hours
      /\ todo \subseteq Hours
      /\ Hours \subseteq Nat
  BY BoundsAssumption DEF IInv, TypeOK, Hours
<1> USE <1>t DEF IInv, NoGapInv, Used, Sealed, vars, writerVars,
                 diskVars, sealVars, ghostVars
<1>1. CASE Tick
  BY <1>1 DEF Tick
<1>2. CASE Append
  BY <1>2 DEF Append, WriterInv
<1>3. ASSUME NEW r \in inflight, Acknowledge(r) PROVE NoGapInv'
  BY <1>3 DEF Acknowledge
<1>4. CASE SealCurrentHour
  BY <1>4 DEF SealCurrentHour
<1>5. CASE RotateEmpty
  BY <1>5 DEF RotateEmpty, EnsureWAL
<1>6. CASE Rotate
  BY <1>6 DEF Rotate, EnsureWAL, FreeSegmentHour, WriterInv
<1>7. CASE RotateFails
  BY <1>7 DEF RotateFails
<1>8. CASE PublishPending
  BY <1>8 DEF PublishPending
<1>9. ASSUME NEW h \in Hours, RetryPendingSeal(h) PROVE NoGapInv'
  BY <1>9 DEF RetryPendingSeal
<1>10. CASE SealCheck
  BY <1>10 DEF SealCheck, AfterSeal
<1>11. CASE SealWriteChunk
  BY <1>11 DEF SealWriteChunk
<1>12. CASE SealWriteMeta
  BY <1>12 DEF SealWriteMeta
<1>13. CASE SealWriteMarker
  BY <1>13 DEF SealWriteMarker, SealInv
<1>14. CASE SealRemoveWAL
  BY <1>14 DEF SealRemoveWAL, SealInv
<1>15. CASE Register
  BY <1>15 DEF Register, AfterSeal
<1>16. CASE SealFails
  BY <1>16 DEF SealFails, AfterSeal
<1>17. ASSUME NEW D \in SUBSET Hours, Prune(D) PROVE NoGapInv'
  <2>1. ASSUME NEW h \in D PROVE h < clock
    <3>1. PICK r \in chunks[h] : r.at + Retention < clock
      BY Zenon, <2>1, <1>17 DEF Prune, Expired
    <3>2. h <= r.at + MaxDrift /\ r.at \in Nat
      BY <3>1, <2>1, <1>17 DEF FilesInv, InFiles, Records
    <3> QED
      BY <3>1, <3>2, BoundsAssumption, DriftAssumption
  <2>2. ASSUME NEW g \in Hours, Used(g)' PROVE Used(g)
    BY <2>2, <1>17 DEF Prune
  <2>3. ASSUME NEW g \in Hours, clock <= g, Sealed(g) PROVE Sealed(g)'
    BY <2>1, <2>3, <1>17 DEF Prune
  <2> HIDE DEF Used, Sealed
  <2> QED
    BY <2>2, <2>3, <1>17 DEF Prune
<1>18. CASE Crash
  BY <1>18 DEF Crash, ForgetMemory, WriterInv
<1>19. CASE Close
  BY <1>19 DEF Close, ForgetMemory
<1>20. CASE NewWALWriter
  BY <1>20 DEF NewWALWriter, EnsureWAL, FreeSegmentHour
<1>21. CASE Scan
  BY <1>21 DEF Scan
<1>22. CASE Opened
  BY <1>22 DEF Opened
<1>23. ASSUME NEW h \in Hours, LoadSealed(h) PROVE NoGapInv'
  BY <1>23 DEF LoadSealed, NextDir
<1>24. ASSUME NEW h \in Hours, ReSeal(h) PROVE NoGapInv'
  BY Zenon, <1>24 DEF ReSeal, NextDir
<1>25. ASSUME NEW h \in Hours, SealOrphan(h) PROVE NoGapInv'
  BY Zenon, <1>25 DEF SealOrphan, NextDir
<1>26. ASSUME NEW h \in Hours, SkipDir(h) PROVE NoGapInv'
  BY <1>26 DEF SkipDir, NextDir
<1>27. CASE UNCHANGED vars
  BY Zenon, <1>27
<1> QED
  BY <1>1, <1>2, <1>3, <1>4, <1>5, <1>6, <1>7, <1>8, <1>9, <1>10, <1>11,
     <1>12, <1>13, <1>14, <1>15, <1>16, <1>17, <1>18, <1>19, <1>20, <1>21,
     <1>22, <1>23, <1>24, <1>25, <1>26, <1>27
  DEF Next, Sealer, Recovery

(* Queries keep reading every sealed hour, and recovery misses none:       *)
(* ViewInv is preserved.                                                   *)
LEMMA ViewStep == Benign /\ IInv /\ [Next]_vars => ViewInv'
<1> SUFFICES ASSUME Benign, IInv, [Next]_vars PROVE ViewInv'
  OBVIOUS
<1>t. /\ segHour \in Hours /\ sealHour \in Hours /\ clock \in Nat
      /\ scanHour \in Nat /\ entryCount \in Nat
      /\ active \in [Hours -> SUBSET Records]
      /\ sealing \in [Hours -> SUBSET Records]
      /\ chunks \in [Hours -> SUBSET Records]
      /\ meta \in [Hours -> BOOLEAN]
      /\ marker \in [Hours -> BOOLEAN]
      /\ segments \subseteq Hours /\ pending \subseteq Hours
      /\ todo \subseteq Hours
      /\ Hours \subseteq Nat
  BY BoundsAssumption DEF IInv, TypeOK, Hours
<1> USE <1>t DEF IInv, ViewInv, SealerInv, InSeal, Sealed, vars, writerVars,
                 diskVars, sealVars, ghostVars
<1>1. CASE Tick
  BY Zenon, <1>1 DEF Tick, Benign
<1>2. CASE Append
  BY Zenon, <1>2 DEF Append, WriterInv
<1>3. ASSUME NEW r \in inflight, Acknowledge(r) PROVE ViewInv'
  BY Zenon, <1>3 DEF Acknowledge
<1>4. CASE SealCurrentHour
  BY Zenon, <1>4 DEF SealCurrentHour
<1>5. CASE RotateEmpty
  <2>1. mode = "up" /\ entryCount = 0
    BY Zenon, <1>5 DEF RotateEmpty
  <2>2. active[segHour] = {}
    BY <2>1 DEF WriterInv, Dense
  <2> QED
    BY Zenon, <2>1, <2>2, <1>5 DEF RotateEmpty
<1>6. CASE Rotate
  BY <1>6 DEF Rotate, EnsureWAL, FreeSegmentHour, WriterInv
<1>7. CASE RotateFails
  BY Zenon, <1>7 DEF RotateFails
<1>8. CASE PublishPending
  BY Zenon, <1>8 DEF PublishPending, SealInv
<1>9. ASSUME NEW h \in Hours, RetryPendingSeal(h) PROVE ViewInv'
  BY Zenon, <1>9 DEF RetryPendingSeal
<1>10. CASE SealCheck
  BY Zenon, <1>10 DEF SealCheck, AfterSeal, SealInv
<1>11. CASE SealWriteChunk
  BY Zenon, <1>11 DEF SealWriteChunk
<1>12. CASE SealWriteMeta
  BY Zenon, <1>12 DEF SealWriteMeta
<1>13. CASE SealWriteMarker
  BY <1>13 DEF SealWriteMarker, SealInv
<1>14. CASE SealRemoveWAL
  BY <1>14 DEF SealRemoveWAL, SealInv
<1>15. CASE Register
  BY Zenon, <1>15 DEF Register, AfterSeal, SealInv, WriterInv
<1>16. CASE SealFails
  BY Zenon, <1>16 DEF SealFails, AfterSeal, Benign
<1>17. ASSUME NEW D \in SUBSET Hours, Prune(D) PROVE ViewInv'
  BY Zenon, <1>17 DEF Prune, SealInv
<1>18. CASE Crash
  BY Zenon, <1>18 DEF Crash, ForgetMemory
<1>19. CASE Close
  BY Zenon, <1>19 DEF Close, ForgetMemory
<1>20. CASE NewWALWriter
  <2>1. PICK h \in Hours : FreeSegmentHour(clock, h) /\ segHour' = h
    BY Zenon, <1>20 DEF NewWALWriter, EnsureWAL
  <2>2. \A g \in Hours : sealing[g] # {} /\ ~marker[g] => g < clock
    BY Zenon, <1>20 DEF NewWALWriter, Benign
  <2>3. ASSUME NEW g \in Hours, active[g] # {}, g # h PROVE g < clock
    <3>1. ~Sealed(g)
      BY Zenon, <2>3 DEF SealInv
    <3>2. CASE g < h
      BY <3>1, <3>2, <2>1 DEF FreeSegmentHour
    <3>3. CASE h < g /\ clock <= g
      <4>1. Sealed(h)
        BY Zenon, <3>3, <2>1, <2>3 DEF FreeSegmentHour, NoGapInv, Used
      <4> QED
        BY <4>1, <2>1, <2>2 DEF FreeSegmentHour
    <3> QED
      BY <3>2, <3>3, <2>3
  <2> QED
    BY Zenon, <2>1, <2>3, <1>20 DEF NewWALWriter, FreeSegmentHour
<1>21. CASE Scan
  BY Zenon, <1>21 DEF Scan, WriterInv
<1>22. CASE Opened
  BY Zenon, <1>22 DEF Opened
<1>23. ASSUME NEW h \in Hours, LoadSealed(h) PROVE ViewInv'
  BY <1>23 DEF LoadSealed, NextDir, SealInv, WriterInv
<1>24. ASSUME NEW h \in Hours, ReSeal(h) PROVE ViewInv'
  <2>1. h \notin segments /\ Sealed(h) /\ mode = "recovering"
    BY Zenon, <1>24 DEF ReSeal, NextDir
  <2>2. /\ sealPc = "recover" /\ sealPc' = "check"
        /\ sealHour' = h /\ todo' = todo \ {h}
        /\ UNCHANGED <<mode, segHour, active, sealing, marker, segments,
                       pending, scanHour>>
    BY Zenon, <1>24 DEF ReSeal, NextDir
  <2>3. ~(active[h] # {} /\ h # segHour)
    BY Zenon, <1>24 DEF ReSeal, SealInv
  <2> QED
    BY Zenon, <2>1, <2>2, <2>3
<1>25. ASSUME NEW h \in Hours, SealOrphan(h) PROVE ViewInv'
  BY Zenon, <1>25 DEF SealOrphan, NextDir, WriterInv
<1>26. ASSUME NEW h \in Hours, SkipDir(h) PROVE ViewInv'
  BY <1>26 DEF SkipDir, NextDir
<1>27. CASE UNCHANGED vars
  BY <1>27
<1> QED
  BY Zenon, <1>1, <1>2, <1>3, <1>4, <1>5, <1>6, <1>7, <1>8, <1>9, <1>10, <1>11,
     <1>12, <1>13, <1>14, <1>15, <1>16, <1>17, <1>18, <1>19, <1>20, <1>21,
     <1>22, <1>23, <1>24, <1>25, <1>26, <1>27
  DEF Next, Sealer, Recovery

(* No step takes an owed record away from recovery: KeptInv is preserved.  *)
LEMMA KeptStep == Benign /\ IInv /\ [Next]_vars => KeptInv'
<1> SUFFICES ASSUME Benign, IInv, [Next]_vars PROVE KeptInv'
  OBVIOUS
<1>t. /\ segHour \in Hours /\ sealHour \in Hours /\ clock \in Nat
      /\ scanHour \in Nat /\ entryCount \in Nat
      /\ active \in [Hours -> SUBSET Records]
      /\ sealing \in [Hours -> SUBSET Records]
      /\ chunks \in [Hours -> SUBSET Records]
      /\ meta \in [Hours -> BOOLEAN]
      /\ marker \in [Hours -> BOOLEAN]
      /\ segments \subseteq Hours /\ pending \subseteq Hours
      /\ todo \subseteq Hours
      /\ Hours \subseteq Nat
  BY BoundsAssumption DEF IInv, TypeOK, Hours
<1>h. \A r \in acked \cup inflight : r.hour \in Hours /\ r.idx \in Nat
  BY DEF IInv, TypeOK, Records
<1> USE <1>t, <1>h DEF IInv, KeptInv, Kept, OnDisk, vars, writerVars, diskVars,
                       sealVars, ghostVars
<1>1. CASE Tick
  BY Zenon, <1>1 DEF Tick
<1>2. CASE Append
  <2>1. linked = "active" /\ ~marker[segHour]
    BY <1>2 DEF Append, WriterInv, Sealed
  <2> QED
    BY <2>1, <1>2 DEF Append
<1>3. ASSUME NEW r \in inflight, Acknowledge(r) PROVE KeptInv'
  BY <1>3 DEF Acknowledge
<1>4. CASE SealCurrentHour
  BY Zenon, <1>4 DEF SealCurrentHour
<1>5. CASE RotateEmpty
  BY Zenon, <1>5 DEF RotateEmpty, EnsureWAL
<1>6. CASE Rotate
  <2>1. linked = "active" /\ ~Sealed(segHour)
    BY Zenon, <1>6 DEF Rotate, WriterInv
  <2> QED
    BY <2>1, <1>6 DEF Rotate, Sealed
<1>7. CASE RotateFails
  BY Zenon, <1>7 DEF RotateFails
<1>8. CASE PublishPending
  BY Zenon, <1>8 DEF PublishPending
<1>9. ASSUME NEW h \in Hours, RetryPendingSeal(h) PROVE KeptInv'
  BY <1>9 DEF RetryPendingSeal
<1>10. CASE SealCheck
  BY Zenon, <1>10 DEF SealCheck
<1>11. CASE SealWriteChunk
  BY <1>11 DEF SealWriteChunk, SealInv
<1>12. CASE SealWriteMeta
  BY Zenon, <1>12 DEF SealWriteMeta
<1>13. CASE SealWriteMarker
  BY Zenon, <1>13 DEF SealWriteMarker, SealInv
<1>14. CASE SealRemoveWAL
  BY <1>14 DEF SealRemoveWAL, SealInv
<1>15. CASE Register
  BY <1>15 DEF Register, AfterSeal
<1>16. CASE SealFails
  BY Zenon, <1>16 DEF SealFails, AfterSeal
<1>17. ASSUME NEW D \in SUBSET Hours, Prune(D) PROVE KeptInv'
  <2>1. ASSUME NEW r \in Kept' PROVE r \in OnDisk(r.hour) /\ r.hour \notin D
    BY <2>1, <1>17 DEF Prune
  <2> QED
    BY Zenon, <2>1, <1>17 DEF Prune
<1>18. CASE Crash
  <2>1. PICK k \in synced .. entryCount :
            active' = [active EXCEPT ![segHour] = {r \in @ : r.idx < k}]
    BY Zenon, <1>18 DEF Crash, WriterInv
  <2>2. /\ UNCHANGED <<sealing, chunks, marker, acked, pruned>>
        /\ inflight' = {}
    BY Zenon, <1>18 DEF Crash, ForgetMemory, WriterInv
  <2>3. \A r \in acked : r.hour = segHour => r \in pruned \/ r.idx < k
    BY <1>18, <2>1 DEF Crash, WriterInv, TypeOK
  <2> QED
    BY <2>1, <2>2, <2>3
<1>19. CASE Close
  BY Zenon, <1>19 DEF Close, ForgetMemory
<1>20. CASE NewWALWriter
  BY Zenon, <1>20 DEF NewWALWriter, EnsureWAL, FreeSegmentHour
<1>21. CASE Scan
  BY Zenon, <1>21 DEF Scan
<1>22. CASE Opened
  BY Zenon, <1>22 DEF Opened
<1>23. ASSUME NEW h \in Hours, LoadSealed(h) PROVE KeptInv'
  BY Zenon, <1>23 DEF LoadSealed, NextDir
<1>24. ASSUME NEW h \in Hours, ReSeal(h) PROVE KeptInv'
  BY Zenon, <1>24 DEF ReSeal, NextDir
<1>25. ASSUME NEW h \in Hours, SealOrphan(h) PROVE KeptInv'
  BY Zenon, <1>25 DEF SealOrphan, NextDir
<1>26. ASSUME NEW h \in Hours, SkipDir(h) PROVE KeptInv'
  BY Zenon, <1>26 DEF SkipDir, NextDir
<1>27. CASE UNCHANGED vars
  BY <1>27
<1> QED
  BY Zenon, <1>1, <1>2, <1>3, <1>4, <1>5, <1>6, <1>7, <1>8, <1>9, <1>10, <1>11,
     <1>12, <1>13, <1>14, <1>15, <1>16, <1>17, <1>18, <1>19, <1>20, <1>21,
     <1>22, <1>23, <1>24, <1>25, <1>26, <1>27
  DEF Next, Sealer, Recovery

-----------------------------------------------------------------------------
(* A WAL whose records have the positions 0 .. k-1 holds k records, so the *)
(* count ensureWAL takes when it opens a file is the next free position.   *)
LEMMA DenseCardinality ==
  ASSUME NEW S, NEW k \in Nat, Dense(S, k)
  PROVE  IsFiniteSet(S) /\ Cardinality(S) = k
<1> DEFINE f == [r \in S |-> r.idx]
<1>1. f \in Bijection(S, 0 .. (k - 1))
  BY DEF Dense, Bijection, Injection, Surjection, IsInjective
<1>2. ExistsBijection(0 .. (k - 1), S)
  BY <1>1, Fun_ExistsBijSymmetric DEF ExistsBijection
<1>3. IsFiniteSet(0 .. (k - 1)) /\ Cardinality(0 .. (k - 1)) = k
  BY FS_Interval
<1> QED
  BY <1>2, <1>3, FS_Bijection

(* A gapless file of k records holds k of them, the counting fact the      *)
(* seal steps rest on.                                                     *)
LEMMA DenseCounts == CountsRecords
BY DenseCardinality DEF CountsRecords

-----------------------------------------------------------------------------
(* The empty data directory satisfies the invariant.                       *)
LEMMA InitInv == Init => IInv
<1> SUFFICES ASSUME Init PROVE IInv
  BY Zenon
<1> USE BoundsAssumption DEF Init
<1>1. TypeOK
  BY DEF TypeOK, Hours, Modes, SealPcs, Callers, Records
<1>2. SealerInv /\ WriterInv
  BY DEF SealerInv, WriterInv
<1>3. FilesInv
  BY DenseEmpty DEF FilesInv, InFiles
<1>4. SealInv /\ ViewInv
  BY DEF SealInv, Sealed, ViewInv, InSeal
<1>5. NoGapInv /\ KeptInv
  BY DEF NoGapInv, Used, Sealed, KeptInv, Kept
<1> QED
  BY <1>1, <1>2, <1>3, <1>4, <1>5 DEF IInv

(* IInv holds in every reachable state of a benign environment.            *)
THEOREM Invariance == ASSUME Benign PROVE Spec => []IInv
<1>1. Init => IInv
  BY InitInv
<1>2. IInv /\ [Next]_vars => IInv'
  <2> SUFFICES ASSUME IInv, [Next]_vars PROVE IInv'
    OBVIOUS
  <2>1. TypeOK' /\ SealerInv' /\ FilesInv' /\ SealInv'
    BY DenseCounts, TypeStep, SealerStep, FilesStep, SealStep, Benign DEF IInv
  <2>2. WriterInv' /\ NoGapInv' /\ ViewInv' /\ KeptInv'
    BY DenseCounts, WriterStep, NoGapStep, ViewStep, KeptStep, Benign
  <2> QED
    BY <2>1, <2>2 DEF IInv
<1> QED
  BY <1>1, <1>2, PTL DEF Spec

(* Every variable of the store keeps its type.                             *)
THEOREM TypeCorrect == ASSUME Benign PROVE Spec => []TypeOK
BY Invariance, PTL DEF IInv

(* No acknowledged entry is lost: at any moment, also in the middle of a   *)
(* seal, a recovery or a prune, the files recovery reads hold it.          *)
THEOREM NothingLost == ASSUME Benign PROVE Spec => []Durable
<1>1. IInv => Durable
  BY DEF IInv, KeptInv, Kept, Durable
<1> QED
  BY <1>1, Invariance, PTL

(* IDs stay unique among the acknowledged entries.                         *)
LEMMA InvUnique == IInv => UniqueIDs
<1> SUFFICES ASSUME IInv, NEW r \in acked, NEW s \in acked, r \notin pruned,
                    s \notin pruned, r.hour = s.hour, r.idx = s.idx
             PROVE  r = s
  BY Zenon DEF UniqueIDs
<1>1. r.hour \in Hours /\ r \in OnDisk(r.hour) /\ s \in OnDisk(r.hour)
  BY Zenon DEF IInv, TypeOK, Records, KeptInv, Kept
<1>2. CASE active[r.hour] # {}
  <2>1. r \in active[r.hour] /\ s \in active[r.hour]
    BY Zenon, <1>1, <1>2 DEF IInv, SealInv, Sealed, OnDisk
  <2> QED
    BY Zenon, <1>1, <2>1 DEF IInv, FilesInv, Dense
<1>3. CASE active[r.hour] = {} /\ marker[r.hour]
  BY Zenon, <1>1, <1>3 DEF OnDisk, IInv, SealInv
<1>4. CASE active[r.hour] = {} /\ ~marker[r.hour]
  BY <1>1, <1>4 DEF OnDisk, IInv, FilesInv
<1> QED
  BY <1>2, <1>3, <1>4

(* No two acknowledged entries share an ID, across rotations, crashes and  *)
(* restarts.                                                               *)
THEOREM IDsUnique == ASSUME Benign PROVE Spec => []UniqueIDs
BY InvUnique, Invariance, PTL

(* Every acknowledged entry is found under its ID while the store is open. *)
THEOREM EntriesFound == ASSUME Benign PROVE Spec => []FoundByID
<1>1. IInv => FoundByID
  <2> SUFFICES ASSUME IInv, mode = "up", NEW r \in acked \ pruned,
                      ~(r.hour = sealHour /\ sealPc \in {"rotated", "register"})
               PROVE  GetByID(r.hour, r.idx) = {r}
    BY DEF FoundByID
  <2> DEFINE h == r.hour
  <2>1. h \in Hours /\ segHour \in Hours /\ r \in OnDisk(h)
    BY Zenon DEF IInv, TypeOK, Records, KeptInv, Kept
  <2>2. \A q \in active[segHour] : q.hour = segHour
    BY Zenon, <2>1 DEF IInv, FilesInv, InFiles
  <2>3. \A g \in pending : \A q \in sealing[g] : q.hour = g
    BY Zenon DEF IInv, TypeOK, FilesInv, InFiles
  <2> HIDE DEF h
  <2>4. CASE h \in segments
    <3>1. marker[h] /\ r \in chunks[h]
      BY Zenon, <2>1, <2>4 DEF IInv, ViewInv, SealInv, Sealed, OnDisk
    <3>2. \A q \in chunks[h] : q.idx = r.idx => q = r
      BY Zenon, <3>1, <2>1 DEF IInv, SealInv
    <3> QED
      BY Zenon, <3>1, <3>2, <2>4 DEF GetByID, h
  <2>5. CASE h \notin segments /\ h = segHour
    <3>1. r \in active[h]
      BY Zenon, <2>1, <2>5 DEF IInv, WriterInv, Sealed, OnDisk
    <3>2. h \notin pending
      BY Zenon, <2>1, <2>5 DEF IInv, ViewInv, WriterInv, Sealed, h
    <3>3. \A q \in WALRecords : q.hour = h => q \in active[h]
      BY Zenon, <3>2, <2>3, <2>5 DEF WALRecords
    <3>4. \A q \in active[h] : q.idx = r.idx => q = r
      BY Zenon, <3>1, <2>1 DEF IInv, FilesInv, Dense
    <3> QED
      BY Zenon, <3>1, <3>3, <3>4, <2>5 DEF GetByID, WALRecords, h
  <2>6. CASE h \notin segments /\ h # segHour
    <3>1. Sealed(h) /\ h \in pending
      BY Zenon, <2>1, <2>6 DEF IInv, ViewInv, OnDisk, Sealed, h
    <3>2. r \in sealing[h]
      BY Zenon, <3>1, <2>1, <2>6 DEF IInv, ViewInv, SealInv, OnDisk, Sealed, h
    <3>3. \A q \in WALRecords : q.hour = h => q \in sealing[h]
      BY Zenon, <2>2, <2>3, <2>6 DEF WALRecords
    <3>4. \A q \in sealing[h] : q.idx = r.idx => q = r
      BY <3>2, <2>1 DEF IInv, FilesInv
    <3> QED
      BY Zenon, <3>1, <3>2, <3>3, <3>4, <2>6 DEF GetByID, WALRecords, h
  <2> QED
    BY <2>4, <2>5, <2>6
<1> QED
  BY <1>1, Invariance, PTL

(* No query counts an entry in a segment and in a WAL file.                *)
THEOREM NoDoubleCount == ASSUME Benign PROVE Spec => []CountedOnce
<1>1. IInv => CountedOnce
  <2> SUFFICES ASSUME IInv, mode = "up",
                      NEW r \in SegmentRecords \cap WALRecords
               PROVE  FALSE
    BY Zenon DEF CountedOnce
  <2>1. r.hour \in segments
    BY DEF SegmentRecords, IInv, TypeOK, FilesInv, InFiles
  <2>2. r.hour = segHour \/ r.hour \in pending
    BY DEF WALRecords, IInv, TypeOK, FilesInv, InFiles
  <2> QED
    BY Zenon, <2>1, <2>2 DEF IInv, ViewInv, WriterInv, Sealed
<1> QED
  BY <1>1, Invariance, PTL

(* What Prune removes is past retention, and was in the files.             *)
LEMMA PruneStep ==
  ASSUME IInv, NEW D \in SUBSET Hours, Prune(D)
  PROVE  \A r \in pruned' \ pruned : r.at + Retention < clock
<1> SUFFICES ASSUME NEW r \in pruned' \ pruned PROVE r.at + Retention < clock
  OBVIOUS
<1>1. PICK h \in D : r \in active[h] \cup sealing[h] \cup chunks[h]
  BY Zenon DEF Prune
<1>2. marker[h] /\ h \in Hours
  BY Zenon, <1>1 DEF Prune, IInv, ViewInv
<1>3. r \in chunks[h]
  BY Zenon, <1>1, <1>2 DEF IInv, SealInv, Sealed
<1>4. PICK q \in chunks[h] : /\ \A s \in chunks[h] : s.idx <= q.idx
                             /\ q.at + Retention < clock
  BY Zenon, <1>1 DEF Prune, Expired
<1>5. r.at <= q.at
  BY Zenon, <1>2, <1>3, <1>4 DEF IInv, SealInv
<1>6. r.at \in Nat /\ q.at \in Nat /\ clock \in Nat /\ Retention \in Nat
  BY <1>2, <1>3, <1>4, BoundsAssumption DEF IInv, TypeOK, Records
<1> QED
  BY <1>4, <1>5, <1>6

(* Only Prune adds to pruned, and only Acknowledge adds to acked.          *)
LEMMA GhostStep ==
  ASSUME [Next]_vars
  PROVE  \/ acked' = acked /\ pruned' = pruned /\ clock' = clock
         \/ acked' = acked /\ pruned' = pruned /\ clock' = clock + 1
         \/ \E r \in inflight : Acknowledge(r)
         \/ \E D \in SUBSET Hours : Prune(D)
<1> DEFINE Still == acked' = acked /\ pruned' = pruned /\ clock' = clock
<1> USE DEF vars, writerVars, diskVars, sealVars, ghostVars
<1>1. CASE Tick
  BY Zenon, <1>1 DEF Tick
<1>2. CASE Append \/ SealCurrentHour \/ SealFails \/ Crash \/ Close
  BY <1>2 DEF Append, SealCurrentHour, SealFails, Crash, Close
<1>3. CASE Sealer
  BY Zenon, <1>3 DEF Sealer, RotateEmpty, Rotate, RotateFails, PublishPending,
              RetryPendingSeal, SealCheck, SealWriteChunk, SealWriteMeta,
              SealWriteMarker, SealRemoveWAL, Register
<1>4. CASE Recovery
  BY <1>4 DEF Recovery, NewWALWriter, Scan, Opened, LoadSealed, ReSeal,
              SealOrphan, SkipDir
<1> QED
  BY <1>1, <1>2, <1>3, <1>4 DEF Next

(* Retention never removes an entry younger than the retention period.     *)
THEOREM RetentionSafe == ASSUME Benign PROVE Spec => RetentionRespected
<1>1. IInv /\ [Next]_vars =>
        \A r \in pruned' \ pruned : r.at + Retention < clock
  <2> SUFFICES ASSUME IInv, [Next]_vars
               PROVE  \A r \in pruned' \ pruned : r.at + Retention < clock
    OBVIOUS
  <2>1. CASE pruned' = pruned
    BY <2>1
  <2>2. CASE \E D \in SUBSET Hours : Prune(D)
    BY <2>2, PruneStep
  <2>3. CASE \E r \in inflight : Acknowledge(r)
    BY Zenon, <2>3 DEF Acknowledge
  <2> QED
    BY <2>1, <2>2, <2>3, GhostStep
<1> QED
  BY <1>1, Invariance, PTL DEF Spec, RetentionRespected

(* In a state satisfying the invariant the stored entries are exactly the  *)
(* acknowledged ones that have not been pruned.                            *)
LEMMA StoredIs == IInv => Stored = acked \ pruned
<1> SUFFICES ASSUME IInv, NEW r \in acked
             PROVE  r \in OnDisk(r.hour) <=> r \notin pruned
  BY Zenon DEF Stored
<1>1. r.hour \in Hours
  BY DEF IInv, TypeOK, Records
<1>2. OnDisk(r.hour) \subseteq InFiles(r.hour)
  BY DEF OnDisk, InFiles
<1> QED
  BY <1>1, <1>2 DEF IInv, KeptInv, Kept, FilesInv

(* The store implements DurableLog: every step accepts one entry under a   *)
(* fresh ID, expires entries past retention, advances the clock, or leaves *)
(* what is stored alone; crashes, seals and recoveries are among the last. *)
THEOREM Implements == ASSUME Benign PROVE Spec => KeepsPromise
<1>1. Init => Promise!Init
  BY DEF Init, Promise!Init, Stored
<1>2. IInv /\ IInv' /\ [Next]_vars => [Promise!Next]_<<clock, Stored>>
  <2> SUFFICES ASSUME IInv, IInv', [Next]_vars
               PROVE  [Promise!Next]_<<clock, Stored>>
    OBVIOUS
  <2>1. Stored = acked \ pruned /\ Stored' = acked' \ pruned'
    <3>1. IInv' => (Stored = acked \ pruned)'
      BY StoredIs, PTL
    <3> QED
      BY <3>1, StoredIs
  <2> HIDE DEF Stored
  <2>2. CASE acked' = acked /\ pruned' = pruned /\ clock' = clock
    BY <2>1, <2>2
  <2>3. CASE acked' = acked /\ pruned' = pruned /\ clock' = clock + 1
    BY <2>1, <2>3 DEF Promise!Next, Promise!Advance
  <2>4. ASSUME NEW r \in inflight, Acknowledge(r)
        PROVE  [Promise!Next]_<<clock, Stored>>
    <3>1. acked' = acked \cup {r} /\ pruned' = pruned /\ clock' = clock
      BY <2>4 DEF Acknowledge, ghostVars
    <3>2. CASE r \in Stored \/ r \in pruned
      BY <3>1, <3>2, <2>1
    <3>3. CASE r \notin Stored /\ r \notin pruned
      <4>1. r \in Stored' /\ Stored' = Stored \cup {r}
        BY Zenon, <3>1, <3>3, <2>1
      <4>2. r.at <= clock
        <5>1. r.hour \in Hours /\ r \in OnDisk(r.hour)
          BY <3>3 DEF IInv, TypeOK, Records, KeptInv, Kept
        <5> QED
          BY Zenon, <5>1 DEF IInv, FilesInv, InFiles, OnDisk
      <4>3. \A s \in Stored : ~(s.hour = r.hour /\ s.idx = r.idx)
        <5>1. UniqueIDs'
          <6>1. IInv' => UniqueIDs'
            BY InvUnique, PTL
          <6> QED
            BY <6>1
        <5> QED
          BY <5>1, <3>1, <3>3, <2>1 DEF UniqueIDs
      <4> QED
        BY <4>1, <4>2, <4>3, <3>1, <3>3 DEF Promise!Next, Promise!Accept
    <3> QED
      BY <3>2, <3>3
  <2>5. ASSUME NEW D \in SUBSET Hours, Prune(D)
        PROVE  [Promise!Next]_<<clock, Stored>>
    <3>1. acked' = acked /\ pruned \subseteq pruned' /\ clock' = clock
      BY Zenon, <2>5 DEF Prune
    <3>2. \A r \in pruned' \ pruned : r.at + Retention < clock
      BY <2>5, PruneStep
    <3> QED
      BY <3>1, <3>2, <2>1 DEF Promise!Next, Promise!Expire
  <2> QED
    BY <2>2, <2>3, <2>4, <2>5, GhostStep
<1> QED
  BY <1>1, <1>2, Invariance, PTL DEF Spec, KeepsPromise, Promise!Spec

(* A chunk of an unsealed hour is all that Seal ever writes.               *)
SealingOnly ==
    /\ chunks = [h \in Hours |-> chunks[h]]
    /\ marker = [h \in Hours |-> marker[h]]
    /\ sealHour \in Hours /\ segHour \in Hours /\ clock \in 0 .. MaxClock
    /\ pending \subseteq Hours /\ todo \subseteq Hours
    /\ sealPc \in {"chunks", "marker"} => ~marker[sealHour]

(* Whatever the environment does, no step changes the chunks of an hour    *)
(* that has its .seal_complete: the refusal at the top of Seal and the     *)
(* early return of recoverDir suffice.                                     *)
THEOREM SealedForGood == Spec => SealedUnchanged
<1> DEFINE Safe == \A h \in Hours :
                      marker[h] /\ marker'[h] => chunks'[h] = chunks[h]
<1> USE BoundsAssumption DEF SealingOnly, vars, writerVars, diskVars,
                             sealVars, ghostVars
<1>i. Init => SealingOnly
  BY DEF Init, Hours
<1>n. SealingOnly /\ [Next]_vars => SealingOnly' /\ Safe
  <2> SUFFICES ASSUME SealingOnly, [Next]_vars PROVE SealingOnly' /\ Safe
    BY Zenon
  <2>h. 0 \in Hours /\ 0 .. MaxClock \subseteq Hours
    BY DEF Hours
  <2>1. CASE Tick
    BY <2>1, <2>h DEF Tick
  <2>2. CASE Append
    BY Zenon, <2>2, <2>h DEF Append
  <2>3. ASSUME NEW r \in inflight, Acknowledge(r) PROVE SealingOnly' /\ Safe
    BY Zenon, <2>3, <2>h DEF Acknowledge
  <2>4. CASE SealCurrentHour
    BY Zenon, <2>4, <2>h DEF SealCurrentHour
  <2>5. CASE RotateEmpty
    BY Zenon, <2>5, <2>h DEF RotateEmpty, EnsureWAL
  <2>6. CASE Rotate
    BY Zenon, <2>6, <2>h DEF Rotate, EnsureWAL, FreeSegmentHour
  <2>7. CASE RotateFails
    BY Zenon, <2>7, <2>h DEF RotateFails
  <2>8. CASE PublishPending
    BY Zenon, <2>8, <2>h DEF PublishPending
  <2>9. ASSUME NEW h \in Hours, RetryPendingSeal(h) PROVE SealingOnly' /\ Safe
    BY <2>9, <2>h DEF RetryPendingSeal
  <2>10. CASE SealCheck
    BY <2>10, <2>h DEF SealCheck, AfterSeal
  <2>11. CASE SealWriteChunk
    BY Zenon, <2>11, <2>h DEF SealWriteChunk
  <2>12. CASE SealWriteMeta
    BY <2>12, <2>h DEF SealWriteMeta
  <2>13. CASE SealWriteMarker
    BY Zenon, <2>13, <2>h DEF SealWriteMarker
  <2>14. CASE SealRemoveWAL
    BY <2>14, <2>h DEF SealRemoveWAL
  <2>15. CASE Register
    BY <2>15, <2>h DEF Register, AfterSeal
  <2>16. CASE SealFails
    BY <2>16, <2>h DEF SealFails, AfterSeal
  <2>17. ASSUME NEW D \in SUBSET Hours, Prune(D) PROVE SealingOnly' /\ Safe
    BY Zenon, <2>17, <2>h DEF Prune
  <2>18. CASE Crash
    BY Zenon, <2>18, <2>h DEF Crash, ForgetMemory
  <2>19. CASE Close
    BY Zenon, <2>19, <2>h DEF Close, ForgetMemory
  <2>20. CASE NewWALWriter
    BY Zenon, <2>20, <2>h DEF NewWALWriter, EnsureWAL, FreeSegmentHour
  <2>21. CASE Scan
    BY Zenon, <2>21, <2>h DEF Scan
  <2>22. CASE Opened
    BY Zenon, <2>22, <2>h DEF Opened
  <2>23. ASSUME NEW h \in Hours, LoadSealed(h) PROVE SealingOnly' /\ Safe
    BY <2>23, <2>h DEF LoadSealed, NextDir
  <2>24. ASSUME NEW h \in Hours, ReSeal(h) PROVE SealingOnly' /\ Safe
    BY Zenon, <2>24, <2>h DEF ReSeal, NextDir
  <2>25. ASSUME NEW h \in Hours, SealOrphan(h) PROVE SealingOnly' /\ Safe
    BY Zenon, <2>25, <2>h DEF SealOrphan, NextDir
  <2>26. ASSUME NEW h \in Hours, SkipDir(h) PROVE SealingOnly' /\ Safe
    BY Zenon, <2>26, <2>h DEF SkipDir, NextDir
  <2>27. CASE UNCHANGED vars
    BY <2>27
  <2> QED
    BY Zenon, <2>1, <2>2, <2>3, <2>4, <2>5, <2>6, <2>7, <2>8, <2>9, <2>10, <2>11,
       <2>12, <2>13, <2>14, <2>15, <2>16, <2>17, <2>18, <2>19, <2>20, <2>21,
       <2>22, <2>23, <2>24, <2>25, <2>26, <2>27
    DEF Next, Sealer, Recovery
<1> HIDE DEF SealingOnly
<1> QED
  BY <1>i, <1>n, PTL DEF Spec, SealedUnchanged
=============================================================================
