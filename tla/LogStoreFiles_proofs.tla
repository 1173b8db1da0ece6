------------------------ MODULE LogStoreFiles_proofs ------------------------
(***************************************************************************)
(* The inductive invariant of LogStore, first half: types, the sealer, the *)
(* files, the progress of a seal and the writer.  In each lemma one step   *)
(* per action.                                                             *)
(***************************************************************************)
EXTENDS LogStoreInv, TLAPS

(* The count scanWAL takes of a file whose records have the positions      *)
(* 0 .. k-1 is the next free position (DenseCounts of LogStore_proofs).    *)
CountsRecords == \A S : \A k \in Nat : Dense(S, k) => Cardinality(S) = k

(* One more record at the next position; and the records below a position. *)
LEMMA DenseAdd ==
  ASSUME NEW S, NEW k \in Nat, Dense(S, k), NEW r, r.idx = k
  PROVE  Dense(S \cup {r}, k + 1)
BY DEF Dense

(* The records below an index of a gapless file are gapless.               *)
LEMMA DenseCut ==
  ASSUME NEW S, NEW k \in Nat, NEW j \in 0 .. k, Dense(S, k)
  PROVE  Dense({r \in S : r.idx < j}, j)
BY DEF Dense

(* A file without records is gapless.                                      *)
LEMMA DenseEmpty == Dense({}, 0)
BY DEF Dense

(* A file without records counts none.                                     *)
LEMMA EmptyCount == CountsRecords => Cardinality({}) = 0
BY DenseEmpty DEF CountsRecords

(* Opening a WAL file of the data directory yields a number.               *)
LEMMA CountIsNat ==
  ASSUME CountsRecords, FilesInv, BoundsAssumption, NEW h \in Hours
  PROVE  Cardinality(active[h]) \in 0 .. SegmentRoom
<1>1. PICK k \in 0 .. SegmentRoom : Dense(active[h], k)
  BY DEF FilesInv
<1> QED
  BY <1>1, CountsRecords DEF CountsRecords

(* Every variable keeps its type under every step.                         *)
LEMMA TypeStep == CountsRecords /\ TypeOK /\ FilesInv /\ [Next]_vars => TypeOK'
<1> SUFFICES ASSUME CountsRecords, TypeOK, FilesInv, [Next]_vars PROVE TypeOK'
  OBVIOUS
<1> USE BoundsAssumption
<1>c. \A h \in Hours : Cardinality(active[h]) \in Nat
  BY CountIsNat, CountsRecords
<1> USE DEF TypeOK, Hours, Records, Modes, SealPcs, Callers,
            vars, writerVars, diskVars, sealVars, ghostVars
<1>1. CASE Tick
  BY <1>1 DEF Tick
<1>2. CASE Append
  <2> DEFINE r == [hour |-> segHour, idx |-> entryCount, at |-> clock,
                   n |-> appends]
  <2>1. r \in Records
    OBVIOUS
  <2>2. active' \in [Hours -> SUBSET Records]
    BY <2>1, <1>2 DEF Append
  <2>3. sealing' \in [Hours -> SUBSET Records]
    BY <2>1, <1>2 DEF Append
  <2>4. inflight' \subseteq Records
    BY <2>1, <1>2 DEF Append
  <2> QED
    BY <2>2, <2>3, <2>4, <1>2 DEF Append
<1>3. ASSUME NEW r \in inflight, Acknowledge(r) PROVE TypeOK'
  BY <1>3 DEF Acknowledge
<1>4. CASE SealCurrentHour
  BY <1>4 DEF SealCurrentHour
<1>5. CASE RotateEmpty
  <2>1. clock \in Hours
    OBVIOUS
  <2>2. segHour' \in Hours /\ entryCount' \in Nat /\ synced' \in Nat
        /\ linked' \in {"active", "sealing", "none"}
    BY <2>1, <1>5, <1>c DEF RotateEmpty, EnsureWAL
  <2> QED
    BY <2>2, <1>5 DEF RotateEmpty
<1>6. CASE Rotate
  BY Zenon, <1>6, <1>c DEF Rotate, EnsureWAL, FreeSegmentHour
<1>7. CASE RotateFails
  BY <1>7 DEF RotateFails
<1>8. CASE PublishPending
  BY <1>8 DEF PublishPending
<1>9. ASSUME NEW h \in Hours, RetryPendingSeal(h) PROVE TypeOK'
  BY <1>9 DEF RetryPendingSeal
<1>10. CASE SealCheck
  BY Zenon, <1>10 DEF SealCheck, AfterSeal
<1>11. CASE SealWriteChunk
  <2>1. chunks' \in [Hours -> SUBSET Records]
    BY <1>11 DEF SealWriteChunk
  <2> QED
    BY Zenon, <2>1, <1>11 DEF SealWriteChunk
<1>12. CASE SealWriteMeta
  BY <1>12 DEF SealWriteMeta
<1>13. CASE SealWriteMarker
  BY <1>13 DEF SealWriteMarker
<1>14. CASE SealRemoveWAL
  BY <1>14 DEF SealRemoveWAL
<1>15. CASE Register
  BY Zenon, <1>15 DEF Register, AfterSeal
<1>16. CASE SealFails
  BY Zenon, <1>16 DEF SealFails, AfterSeal
<1>17. ASSUME NEW D \in SUBSET Hours, Prune(D) PROVE TypeOK'
  BY <1>17 DEF Prune
<1>18. CASE Crash
  <2>1. active' \in [Hours -> SUBSET Records]
    BY <1>18 DEF Crash
  <2>2. sealing' \in [Hours -> SUBSET Records]
    BY <1>18 DEF Crash
  <2> QED
    BY <2>1, <2>2, <1>18 DEF Crash, ForgetMemory
<1>19. CASE Close
  BY <1>19 DEF Close, ForgetMemory
<1>20. CASE NewWALWriter
  BY Zenon, <1>20, <1>c DEF NewWALWriter, EnsureWAL, FreeSegmentHour
<1>21. CASE Scan
  BY <1>21 DEF Scan
<1>22. CASE Opened
  BY <1>22 DEF Opened
<1>23. ASSUME NEW h \in Hours, LoadSealed(h) PROVE TypeOK'
  BY <1>23 DEF LoadSealed, NextDir
<1>24. ASSUME NEW h \in Hours, ReSeal(h) PROVE TypeOK'
  BY Zenon, <1>24 DEF ReSeal, NextDir
<1>25. ASSUME NEW h \in Hours, SealOrphan(h) PROVE TypeOK'
  BY Zenon, <1>25 DEF SealOrphan, NextDir
<1>26. ASSUME NEW h \in Hours, SkipDir(h) PROVE TypeOK'
  BY <1>26 DEF SkipDir, NextDir
<1>27. CASE UNCHANGED vars
  BY <1>27
<1> QED
  BY Zenon, <1>1, <1>2, <1>3, <1>4, <1>5, <1>6, <1>7, <1>8, <1>9, <1>10, <1>11,
     <1>12, <1>13, <1>14, <1>15, <1>16, <1>17, <1>18, <1>19, <1>20, <1>21,
     <1>22, <1>23, <1>24, <1>25, <1>26, <1>27
  DEF Next, Sealer, Recovery

(* Who holds sealMu, and what it is sealing: SealerInv is preserved.       *)
LEMMA SealerStep == Benign /\ IInv /\ [Next]_vars => SealerInv'
<1> SUFFICES ASSUME Benign, IInv, [Next]_vars PROVE SealerInv'
  OBVIOUS
<1> USE DEF IInv, SealerInv, InSeal, vars, writerVars, diskVars, sealVars,
            ghostVars
<1>1. CASE Tick
  BY <1>1 DEF Tick
<1>2. CASE Append
  BY <1>2 DEF Append
<1>3. ASSUME NEW r \in inflight, Acknowledge(r) PROVE SealerInv'
  BY <1>3 DEF Acknowledge
<1>4. CASE SealCurrentHour
  BY <1>4 DEF SealCurrentHour
<1>5. CASE RotateEmpty
  BY <1>5 DEF RotateEmpty, EnsureWAL
<1>6. CASE Rotate
  <2>1. segHour \notin pending
    BY <1>6 DEF Rotate, ViewInv, WriterInv, Sealed
  <2> QED
    BY <2>1, <1>6 DEF Rotate
<1>7. CASE RotateFails
  BY <1>7 DEF RotateFails
<1>8. CASE PublishPending
  BY <1>8 DEF PublishPending
<1>9. ASSUME NEW h \in Hours, RetryPendingSeal(h) PROVE SealerInv'
  BY <1>9 DEF RetryPendingSeal
<1>10. CASE SealCheck
  BY <1>10 DEF SealCheck, AfterSeal
<1>11. CASE SealWriteChunk
  BY <1>11 DEF SealWriteChunk
<1>12. CASE SealWriteMeta
  BY <1>12 DEF SealWriteMeta
<1>13. CASE SealWriteMarker
  BY <1>13 DEF SealWriteMarker
<1>14. CASE SealRemoveWAL
  BY <1>14 DEF SealRemoveWAL
<1>15. CASE Register
  BY <1>15 DEF Register, AfterSeal
<1>16. CASE SealFails
  BY <1>16 DEF SealFails, AfterSeal, Benign
<1>17. ASSUME NEW D \in SUBSET Hours, Prune(D) PROVE SealerInv'
  BY <1>17 DEF Prune
<1>18. CASE Crash
  BY <1>18 DEF Crash, ForgetMemory
<1>19. CASE Close
  BY <1>19 DEF Close, ForgetMemory
<1>20. CASE NewWALWriter
  BY <1>20 DEF NewWALWriter, EnsureWAL, FreeSegmentHour
<1>21. CASE Scan
  BY <1>21 DEF Scan
<1>22. CASE Opened
  BY <1>22 DEF Opened
<1>23. ASSUME NEW h \in Hours, LoadSealed(h) PROVE SealerInv'
  BY <1>23 DEF LoadSealed, NextDir
<1>24. ASSUME NEW h \in Hours, ReSeal(h) PROVE SealerInv'
  BY <1>24 DEF ReSeal, NextDir
<1>25. ASSUME NEW h \in Hours, SealOrphan(h) PROVE SealerInv'
  BY <1>25 DEF SealOrphan, NextDir
<1>26. ASSUME NEW h \in Hours, SkipDir(h) PROVE SealerInv'
  BY <1>26 DEF SkipDir, NextDir
<1>27. CASE UNCHANGED vars
  BY <1>27
<1> QED
  BY Zenon, <1>1, <1>2, <1>3, <1>4, <1>5, <1>6, <1>7, <1>8, <1>9, <1>10, <1>11,
     <1>12, <1>13, <1>14, <1>15, <1>16, <1>17, <1>18, <1>19, <1>20, <1>21,
     <1>22, <1>23, <1>24, <1>25, <1>26, <1>27
  DEF Next, Sealer, Recovery

(* The files of one seal agree at every step: SealInv is preserved.        *)
LEMMA SealStep == Benign /\ IInv /\ [Next]_vars => SealInv'
<1> SUFFICES ASSUME Benign, IInv, [Next]_vars PROVE SealInv'
  OBVIOUS
<1>t. /\ segHour \in Hours /\ sealHour \in Hours
      /\ active \in [Hours -> SUBSET Records]
      /\ sealing \in [Hours -> SUBSET Records]
      /\ chunks \in [Hours -> SUBSET Records]
      /\ meta \in [Hours -> BOOLEAN]
      /\ marker \in [Hours -> BOOLEAN]
  BY DEF IInv, TypeOK
<1> USE <1>t DEF IInv, SealInv, Sealed, vars, writerVars, diskVars, sealVars,
                 ghostVars
<1>1. CASE Tick
  BY <1>1 DEF Tick
<1>2. CASE Append
  BY <1>2 DEF Append, WriterInv, SealerInv
<1>3. ASSUME NEW r \in inflight, Acknowledge(r) PROVE SealInv'
  BY <1>3 DEF Acknowledge
<1>4. CASE SealCurrentHour
  BY <1>4 DEF SealCurrentHour
<1>5. CASE RotateEmpty
  BY <1>5 DEF RotateEmpty, EnsureWAL
<1>6. CASE Rotate
  <2>1. mode # "down" /\ entryCount > 0 /\ entryCount \in Nat
    BY <1>6 DEF Rotate, TypeOK
  <2>2. linked = "active" /\ ~Sealed(segHour)
    BY <2>1 DEF WriterInv
  <2>3. active[segHour] # {}
    <3>1. 0 \in 0 .. (entryCount - 1)
      BY <2>1
    <3> QED
      BY <3>1, <2>1 DEF WriterInv, Dense
  <2>4. /\ active' = [active EXCEPT ![segHour] = {}]
        /\ sealing' = [sealing EXCEPT ![segHour] = active[segHour]]
        /\ UNCHANGED <<chunks, meta, marker>>
        /\ sealPc' = "rotated" /\ sealHour' = segHour /\ caller' = "seal"
    BY <1>6, <2>2 DEF Rotate
  <2> HIDE DEF SealInv
  <2> QED
    BY <2>2, <2>3, <2>4 DEF SealInv
<1>7. CASE RotateFails
  BY <1>7 DEF RotateFails
<1>8. CASE PublishPending
  BY <1>8 DEF PublishPending, SealerInv
<1>9. ASSUME NEW h \in Hours, RetryPendingSeal(h) PROVE SealInv'
  BY <1>9 DEF RetryPendingSeal
<1>10. CASE SealCheck
  BY <1>10 DEF SealCheck, AfterSeal, SealerInv, ViewInv, InSeal
<1>11. CASE SealWriteChunk
  BY <1>11 DEF SealWriteChunk
<1>12. CASE SealWriteMeta
  BY Zenon, <1>12 DEF SealWriteMeta
<1>13. CASE SealWriteMarker
  BY <1>13 DEF SealWriteMarker, FilesInv
<1>14. CASE SealRemoveWAL
  BY <1>14 DEF SealRemoveWAL
<1>15. CASE Register
  BY <1>15 DEF Register, AfterSeal
<1>16. CASE SealFails
  BY <1>16 DEF SealFails, AfterSeal, Benign, SealerInv
<1>17. ASSUME NEW D \in SUBSET Hours, Prune(D) PROVE SealInv'
  BY Zenon, <1>17 DEF Prune, SealerInv, ViewInv, InSeal
<1>18. CASE Crash
  <2>1. /\ \A h \in Hours : active'[h] \subseteq active[h]
        /\ UNCHANGED <<sealing, chunks, meta, marker>>
        /\ sealPc' = "idle"
    BY <1>18 DEF Crash, ForgetMemory, WriterInv
  <2> QED
    BY <2>1
<1>19. CASE Close
  BY <1>19 DEF Close, ForgetMemory
<1>20. CASE NewWALWriter
  BY <1>20 DEF NewWALWriter, EnsureWAL, FreeSegmentHour
<1>21. CASE Scan
  BY <1>21 DEF Scan
<1>22. CASE Opened
  BY <1>22 DEF Opened
<1>23. ASSUME NEW h \in Hours, LoadSealed(h) PROVE SealInv'
  BY <1>23 DEF LoadSealed, NextDir
<1>24. ASSUME NEW h \in Hours, ReSeal(h) PROVE SealInv'
  BY <1>24 DEF ReSeal, NextDir
<1>25. ASSUME NEW h \in Hours, SealOrphan(h) PROVE SealInv'
  BY <1>25 DEF SealOrphan, NextDir
<1>26. ASSUME NEW h \in Hours, SkipDir(h) PROVE SealInv'
  BY <1>26 DEF SkipDir, NextDir
<1>27. CASE UNCHANGED vars
  BY <1>27
<1> QED
  BY Zenon, <1>1, <1>2, <1>3, <1>4, <1>5, <1>6, <1>7, <1>8, <1>9, <1>10, <1>11,
     <1>12, <1>13, <1>14, <1>15, <1>16, <1>17, <1>18, <1>19, <1>20, <1>21,
     <1>22, <1>23, <1>24, <1>25, <1>26, <1>27
  DEF Next, Sealer, Recovery

(* Every record lies in the directory of its hour, at the position its ID  *)
(* says: FilesInv is preserved.                                            *)
LEMMA FilesStep == Benign /\ IInv /\ [Next]_vars => FilesInv'
<1> SUFFICES ASSUME Benign, IInv, [Next]_vars PROVE FilesInv'
  OBVIOUS
<1>t. /\ segHour \in Hours /\ sealHour \in Hours /\ clock \in Nat
      /\ scanHour \in Nat /\ entryCount \in Nat
      /\ active \in [Hours -> SUBSET Records]
      /\ sealing \in [Hours -> SUBSET Records]
      /\ chunks \in [Hours -> SUBSET Records]
      /\ meta \in [Hours -> BOOLEAN]
      /\ marker \in [Hours -> BOOLEAN]
      /\ segments \subseteq Hours /\ pending \subseteq Hours
      /\ todo \subseteq Hours
      /\ Hours \subseteq Nat /\ MaxDrift \in Nat /\ appends \in Nat
  BY BoundsAssumption DEF IInv, TypeOK, Hours
<1>r. \A r \in Records : r.hour \in Hours /\ r.idx \in Nat /\ r.at \in Nat
                          /\ r.n \in Nat
  BY DEF Records
<1> USE <1>t DEF IInv, FilesInv, InFiles, vars, writerVars, diskVars,
                 sealVars, ghostVars
<1>1. CASE Tick
  <2>1. \A h \in Hours : \A r \in InFiles(h) : r.at \in Nat
    BY <1>r
  <2> QED
    BY <2>1, <1>1 DEF Tick
<1>2. CASE Append
  <2> DEFINE r == [hour |-> segHour, idx |-> entryCount, at |-> clock,
                   n |-> appends]
  <2>1. /\ linked = "active" /\ ~Sealed(segHour)
        /\ Dense(active[segHour], entryCount)
        /\ segHour <= clock + MaxDrift
        /\ entryCount < SegmentRoom
    BY <1>2 DEF Append, WriterInv
  <2>0. r.hour = segHour /\ r.idx = entryCount /\ r.at = clock /\ r.n = appends
    OBVIOUS
  <2>2. /\ active' = [active EXCEPT ![segHour] = @ \cup {r}]
        /\ appends' = appends + 1 /\ inflight' = inflight \cup {r}
        /\ UNCHANGED <<clock, sealing, chunks, acked, pruned>>
    BY <2>1, <1>2 DEF Append
  <2> HIDE DEF r
  <2>3. Dense(active'[segHour], entryCount + 1)
    BY <2>0, <2>1, <2>2, DenseAdd
  <2>4. \A h \in Hours : \E k \in 0 .. SegmentRoom : Dense(active'[h], k)
    BY <2>1, <2>2, <2>3, BoundsAssumption
  <2>5. r \notin pruned
    BY <2>0 DEF TypeOK
  <2>6. \A h \in Hours : \A q \in InFiles(h)' :
             q \in InFiles(h) \/ (q = r /\ h = segHour)
    BY <2>2
  <2>7. \A h \in Hours : \A q, s \in active'[h] : q.idx <= s.idx => q.at <= s.at
    <3>1. \A q \in active[segHour] : q.idx < entryCount /\ q.at <= clock
                                     /\ q.idx \in Nat /\ q.at \in Nat
      BY <2>1, <1>r DEF Dense
    <3> QED
      BY <3>1, <2>0, <2>2
  <2>8. \A q \in acked \cup inflight \cup pruned : q.n \in Nat
    BY <1>r DEF TypeOK
  <2>9. \A h \in Hours : \A q \in InFiles(h) : q.n \in Nat
    BY <1>r
  <2>10. \A q \in (acked \cup inflight \cup pruned)' : q.n < appends'
    BY <2>0, <2>2, <2>8
  <2>11. \A h \in Hours : \A q \in InFiles(h)' :
             q.hour = h /\ q.n < appends' /\ q \notin pruned'
    BY <2>0, <2>2, <2>5, <2>6, <2>9
  <2>12. \A h \in Hours : \A q \in InFiles(h)' :
             q.at <= clock' /\ h <= q.at + MaxDrift
    BY <2>0, <2>1, <2>2, <2>6
  <2> HIDE DEF InFiles
  <2> QED
    BY Zenon, <2>2, <2>4, <2>7, <2>10, <2>11, <2>12
<1>3. ASSUME NEW r \in inflight, Acknowledge(r) PROVE FilesInv'
  BY <1>3 DEF Acknowledge
<1>4. CASE SealCurrentHour
  BY <1>4 DEF SealCurrentHour
<1>5. CASE RotateEmpty
  BY <1>5 DEF RotateEmpty, EnsureWAL
<1>6. CASE Rotate
  <2>1. /\ linked = "active" /\ ~Sealed(segHour)
        /\ Dense(active[segHour], entryCount)
    BY <1>6 DEF Rotate, WriterInv
  <2>2. /\ active' = [active EXCEPT ![segHour] = {}]
        /\ sealing' = [sealing EXCEPT ![segHour] = active[segHour]]
        /\ UNCHANGED <<clock, chunks, appends, inflight, acked, pruned>>
    BY <2>1, <1>6 DEF Rotate
  <2>3. \A h \in Hours : \E k \in 0 .. SegmentRoom : Dense(active'[h], k)
    BY <2>2, DenseEmpty, BoundsAssumption
  <2>4. \A h \in Hours : InFiles(h)' \subseteq InFiles(h)
    BY <2>2
  <2> QED
    BY <2>1, <2>2, <2>3, <2>4 DEF Dense
<1>7. CASE RotateFails
  BY <1>7 DEF RotateFails
<1>8. CASE PublishPending
  BY <1>8 DEF PublishPending
<1>9. ASSUME NEW h \in Hours, RetryPendingSeal(h) PROVE FilesInv'
  BY <1>9 DEF RetryPendingSeal
<1>10. CASE SealCheck
  BY <1>10 DEF SealCheck, AfterSeal
<1>11. CASE SealWriteChunk
  BY <1>11 DEF SealWriteChunk
<1>12. CASE SealWriteMeta
  BY <1>12 DEF SealWriteMeta
<1>13. CASE SealWriteMarker
  BY <1>13 DEF SealWriteMarker
<1>14. CASE SealRemoveWAL
  BY <1>14 DEF SealRemoveWAL
<1>15. CASE Register
  BY <1>15 DEF Register, AfterSeal
<1>16. CASE SealFails
  BY <1>16 DEF SealFails, AfterSeal
<1>17. ASSUME NEW D \in SUBSET Hours, Prune(D) PROVE FilesInv'
  <2>1. /\ \A h \in Hours : active'[h] = {} \/ active'[h] = active[h]
        /\ \A h \in Hours : sealing'[h] = {} \/ sealing'[h] = sealing[h]
        /\ \A h \in Hours : h \notin D => InFiles(h)' = InFiles(h)
        /\ \A h \in D : InFiles(h)' = {}
        /\ UNCHANGED <<clock, appends, inflight, acked>>
        /\ pruned' = pruned \cup UNION {InFiles(h) : h \in D}
    BY <1>17 DEF Prune
  <2>2. \A h \in Hours : \E k \in 0 .. SegmentRoom : Dense(active'[h], k)
    <3> TAKE h \in Hours
    <3>1. CASE active'[h] = {}
      BY <3>1, DenseEmpty, BoundsAssumption
    <3>2. CASE active'[h] = active[h]
      BY <3>2
    <3> QED
      BY <3>1, <3>2, <2>1
  <2> HIDE DEF InFiles
  <2>3. \A r \in pruned' : r \in pruned \/ \E h \in D : r \in InFiles(h)
    BY <2>1
  <2> QED
    BY <2>1, <2>2, <2>3, <1>17
<1>18. CASE Crash
  <2>1. PICK k \in synced .. entryCount :
            active' = [active EXCEPT ![segHour] = {r \in @ : r.idx < k}]
    BY Zenon, <1>18 DEF Crash, WriterInv
  <2>2. /\ UNCHANGED <<clock, sealing, chunks, appends, acked, pruned>>
        /\ inflight' = {}
    BY <1>18 DEF Crash, ForgetMemory, WriterInv
  <2>3. k \in 0 .. entryCount /\ entryCount <= SegmentRoom
        /\ Dense(active[segHour], entryCount)
    BY <2>1, <1>18 DEF Crash, WriterInv, TypeOK
  <2>4. Dense(active'[segHour], k)
    BY <2>1, <2>3, DenseCut
  <2>5. \A h \in Hours : \E j \in 0 .. SegmentRoom : Dense(active'[h], j)
    <3> TAKE h \in Hours
    <3>1. CASE h = segHour
      BY <3>1, <2>3, <2>4, BoundsAssumption
    <3>2. CASE h # segHour
      BY <3>2, <2>1
    <3> QED
      BY <3>1, <3>2
  <2>6. \A h \in Hours : active'[h] \subseteq active[h]
    BY <2>1
  <2> QED
    BY <2>2, <2>5, <2>6
<1>19. CASE Close
  BY <1>19 DEF Close, ForgetMemory
<1>20. CASE NewWALWriter
  BY <1>20 DEF NewWALWriter, EnsureWAL, FreeSegmentHour
<1>21. CASE Scan
  BY <1>21 DEF Scan
<1>22. CASE Opened
  BY <1>22 DEF Opened
<1>23. ASSUME NEW h \in Hours, LoadSealed(h) PROVE FilesInv'
  BY <1>23 DEF LoadSealed, NextDir
<1>24. ASSUME NEW h \in Hours, ReSeal(h) PROVE FilesInv'
  BY <1>24 DEF ReSeal, NextDir
<1>25. ASSUME NEW h \in Hours, SealOrphan(h) PROVE FilesInv'
  <2>1. /\ active' = [active EXCEPT ![h] = {}]
        /\ sealing' = [sealing EXCEPT ![h] = active[h]]
        /\ UNCHANGED <<clock, chunks, appends, inflight, acked, pruned>>
    BY <1>25 DEF SealOrphan
  <2>2. \A g \in Hours : \E k \in 0 .. SegmentRoom : Dense(active'[g], k)
    BY <2>1, DenseEmpty, BoundsAssumption
  <2>3. \A g \in Hours : InFiles(g)' \subseteq InFiles(g)
    BY <2>1
  <2>4. \A r, s \in active[h] : r.idx = s.idx => r = s
    BY DEF Dense
  <2> QED
    BY <2>1, <2>2, <2>3, <2>4
<1>26. ASSUME NEW h \in Hours, SkipDir(h) PROVE FilesInv'
  BY <1>26 DEF SkipDir, NextDir
<1>27. CASE UNCHANGED vars
  BY <1>27
<1> QED
  BY Zenon, <1>1, <1>2, <1>3, <1>4, <1>5, <1>6, <1>7, <1>8, <1>9, <1>10, <1>11,
     <1>12, <1>13, <1>14, <1>15, <1>16, <1>17, <1>18, <1>19, <1>20, <1>21,
     <1>22, <1>23, <1>24, <1>25, <1>26, <1>27
  DEF Next, Sealer, Recovery

(* The writer owns the last used hour: WriterInv is preserved.             *)
LEMMA WriterStep == CountsRecords /\ Benign /\ IInv /\ [Next]_vars => WriterInv'
<1> SUFFICES ASSUME CountsRecords, Benign, IInv, [Next]_vars
             PROVE  WriterInv'
  OBVIOUS
<1>t. /\ segHour \in Hours /\ sealHour \in Hours /\ clock \in Nat
      /\ scanHour \in Nat /\ entryCount \in Nat /\ synced \in Nat
      /\ MaxDrift \in Nat
      /\ active \in [Hours -> SUBSET Records]
      /\ sealing \in [Hours -> SUBSET Records]
      /\ chunks \in [Hours -> SUBSET Records]
      /\ meta \in [Hours -> BOOLEAN]
      /\ marker \in [Hours -> BOOLEAN]
      /\ segments \subseteq Hours /\ pending \subseteq Hours
      /\ todo \subseteq Hours
      /\ Hours \subseteq Nat
  BY BoundsAssumption DEF IInv, TypeOK, Hours
<1> USE <1>t DEF IInv, WriterInv, Used, Sealed, vars, writerVars,
                 diskVars, sealVars, ghostVars
<1>1. CASE Tick
  BY <1>1 DEF Tick
<1>2. CASE Append
  <2>1. Dense(active'[segHour], entryCount + 1)
    BY Zenon, <1>2, DenseAdd DEF Append
  <2> QED
    BY <2>1, <1>2, BoundsAssumption DEF Append
<1>3. ASSUME NEW r \in inflight, Acknowledge(r) PROVE WriterInv'
  <2>1. mode = "up" /\ r.hour \in Hours
    BY <1>3 DEF Acknowledge, TypeOK, Records
  <2>2. r.hour = segHour => r \in pruned \/ r.idx < entryCount
    BY <1>3, <2>1 DEF KeptInv, Kept, OnDisk, Dense
  <2>3. synced' \in Nat /\ synced <= synced' /\ synced' <= entryCount
    BY <2>1, <1>3 DEF Acknowledge
  <2>4. r.hour = segHour => r \in pruned \/ r.idx < synced'
    BY <2>2, <1>3 DEF Acknowledge
  <2>5. \A q \in acked : q.idx \in Nat
    BY DEF TypeOK, Records
  <2>6. \A q \in acked' : q.hour = segHour => q \in pruned \/ q.idx < synced'
    BY <2>1, <2>3, <2>4, <2>5, <1>3 DEF Acknowledge
  <2> QED
    BY <2>1, <2>3, <2>6, <1>3 DEF Acknowledge
<1>4. CASE SealCurrentHour
  BY <1>4 DEF SealCurrentHour
<1>5. CASE RotateEmpty
  <2>1. mode = "up" /\ entryCount = 0 /\ Dense(active[segHour], 0)
    BY <1>5 DEF RotateEmpty
  <2>2. CASE clock > segHour
    <3>1. /\ segHour' = clock /\ linked' = "active" /\ clock' = clock
          /\ mode' = mode /\ acked' = acked /\ pruned' = pruned
          /\ entryCount' = Cardinality(active[clock])
          /\ synced' = entryCount'
          /\ UNCHANGED <<active, sealing, marker>>
      BY <1>5, <2>2 DEF RotateEmpty, EnsureWAL
    <3>2. clock \in Hours /\ ~Used(clock)
      BY <2>2, <2>1, BoundsAssumption DEF TypeOK, Hours
    <3>3. entryCount' = 0 /\ Dense(active[clock], 0)
      BY <3>1, <3>2, DenseEmpty, EmptyCount
    <3>4. \A q \in acked : q.hour = clock => q \in pruned
      BY <3>2 DEF KeptInv, Kept, OnDisk
    <3>5. \A g \in Hours : Used(g) => g <= clock
      BY <2>1, <2>2
    <3> QED
      BY <3>1, <3>2, <3>3, <3>4, <3>5, BoundsAssumption
  <2>3. CASE ~(clock > segHour)
    BY <1>5, <2>3 DEF RotateEmpty
  <2> QED
    BY <2>2, <2>3
<1>6. CASE Rotate
  <2> DEFINE start == IF clock <= segHour THEN segHour + 1 ELSE clock
  <2>1. PICK h \in Hours : /\ FreeSegmentHour(start, h)
                           /\ segHour' = h /\ linked' = "active"
                           /\ entryCount' = Cardinality(active[h])
                           /\ synced' = entryCount'
    BY <1>6 DEF Rotate, EnsureWAL
  <2>2. /\ mode = "up" /\ mode' = mode /\ clock' = clock /\ marker' = marker
        /\ entryCount > 0 /\ linked = "active"
        /\ acked' = acked /\ pruned' = pruned
        /\ active' = [active EXCEPT ![segHour] = {}]
        /\ sealing' = [sealing EXCEPT ![segHour] = active[segHour]]
    BY <1>6 DEF Rotate
  <2>3. segHour < h /\ clock <= h /\ h <= clock + MaxDrift
    BY <2>1 DEF FreeSegmentHour
  <2>4. ~Used(h) /\ ~Sealed(h)' /\ active'[h] = {}
    BY <2>2, <2>3
  <2>5. entryCount' = 0 /\ Dense(active'[h], 0)
    BY Zenon, <2>1, <2>4, <2>2, <2>3, DenseEmpty, EmptyCount
  <2>6. active[segHour] # {}
    <3>1. 0 \in 0 .. (entryCount - 1)
      BY <2>2
    <3> QED
      BY <3>1, <2>2 DEF Dense
  <2>7. ASSUME NEW g \in Hours, Used(g)' PROVE g <= h
    BY <2>7, <2>2, <2>3
  <2>8. ASSUME NEW f \in Hours, clock <= f, f < h PROVE Sealed(f)'
    BY <2>8, <2>1, <2>2, <2>6 DEF FreeSegmentHour
  <2>9. \A q \in acked : q.hour = h => q \in pruned
    BY <2>4 DEF KeptInv, Kept, OnDisk
  <2> HIDE DEF Used, Sealed
  <2> QED
    BY <2>1, <2>2, <2>3, <2>4, <2>5, <2>7, <2>8, <2>9, BoundsAssumption
<1>7. CASE RotateFails
  BY <1>7 DEF RotateFails
<1>8. CASE PublishPending
  BY <1>8 DEF PublishPending
<1>9. ASSUME NEW h \in Hours, RetryPendingSeal(h) PROVE WriterInv'
  BY <1>9 DEF RetryPendingSeal
<1>10. CASE SealCheck
  BY <1>10 DEF SealCheck, AfterSeal
<1>11. CASE SealWriteChunk
  BY <1>11 DEF SealWriteChunk
<1>12. CASE SealWriteMeta
  BY <1>12 DEF SealWriteMeta
<1>13. CASE SealWriteMarker
  BY <1>13 DEF SealWriteMarker, SealInv
<1>14. CASE SealRemoveWAL
  BY <1>14 DEF SealRemoveWAL, SealInv
<1>15. CASE Register
  BY <1>15 DEF Register, AfterSeal
<1>16. CASE SealFails
  BY <1>16 DEF SealFails, AfterSeal
<1>17. ASSUME NEW D \in SUBSET Hours, Prune(D) PROVE WriterInv'
  <2>0. ASSUME NEW h \in D PROVE h < clock
    <3>1. PICK r \in chunks[h] : r.at + Retention < clock
      BY <2>0, <1>17 DEF Prune, Expired
    <3>2. h <= r.at + MaxDrift /\ r.at \in Nat
      BY <3>1, <2>0, <1>17 DEF FilesInv, InFiles, Records
    <3> QED
      BY <3>1, <3>2, BoundsAssumption, DriftAssumption
  <2>1. segHour \notin D
    BY <1>17 DEF Prune, ViewInv
  <2> QED
    BY <2>0, <2>1, <1>17 DEF Prune
<1>18. CASE Crash
  BY <1>18 DEF Crash, ForgetMemory
<1>19. CASE Close
  BY <1>19 DEF Close, ForgetMemory
<1>20. CASE NewWALWriter
  <2>1. PICK h \in Hours : /\ FreeSegmentHour(clock, h)
                           /\ segHour' = h /\ linked' = "active"
                           /\ entryCount' = Cardinality(active[h])
                           /\ synced' = entryCount'
    BY <1>20 DEF NewWALWriter, EnsureWAL
  <2>2. /\ UNCHANGED <<clock, active, sealing, marker, acked, pruned>>
        /\ \A g \in Hours : sealing[g] # {} /\ ~marker[g] => g < clock
    BY <1>20 DEF NewWALWriter, Benign
  <2>3. PICK k \in 0 .. SegmentRoom : Dense(active[h], k)
    BY DEF FilesInv
  <2>4. entryCount' = k
    BY <2>1, <2>3, CountsRecords, BoundsAssumption DEF CountsRecords
  <2>5. /\ clock <= h /\ h <= clock + MaxDrift /\ ~Sealed(h)
        /\ \A f \in Hours : clock <= f /\ f < h => Sealed(f)
    BY <2>1, <2>2 DEF FreeSegmentHour
  <2>6. ASSUME NEW g \in Hours, Used(g) PROVE g <= h
    BY <2>6, <2>5 DEF NoGapInv
  <2>7. ASSUME NEW q \in acked, q.hour = h, q \notin pruned PROVE q.idx < k
    BY <2>7, <2>3, <2>5, BoundsAssumption DEF KeptInv, Kept, OnDisk, Dense
  <2> HIDE DEF Used, Sealed
  <2>8. \A g \in Hours : (Used(g)' <=> Used(g)) /\ (Sealed(g)' <=> Sealed(g))
    BY <2>2 DEF Used, Sealed
  <2> QED
    BY <2>1, <2>2, <2>3, <2>4, <2>5, <2>6, <2>7, <2>8, BoundsAssumption
<1>21. CASE Scan
  BY <1>21 DEF Scan
<1>22. CASE Opened
  BY <1>22 DEF Opened
<1>23. ASSUME NEW h \in Hours, LoadSealed(h) PROVE WriterInv'
  BY <1>23 DEF LoadSealed, NextDir
<1>24. ASSUME NEW h \in Hours, ReSeal(h) PROVE WriterInv'
  BY <1>24 DEF ReSeal, NextDir
<1>25. ASSUME NEW h \in Hours, SealOrphan(h) PROVE WriterInv'
  BY <1>25 DEF SealOrphan, NextDir, ViewInv
<1>26. ASSUME NEW h \in Hours, SkipDir(h) PROVE WriterInv'
  BY <1>26 DEF SkipDir, NextDir
<1>27. CASE UNCHANGED vars
  BY <1>27
<1> QED
  BY Zenon, <1>1, <1>2, <1>3, <1>4, <1>5, <1>6, <1>7, <1>8, <1>9, <1>10, <1>11,
     <1>12, <1>13, <1>14, <1>15, <1>16, <1>17, <1>18, <1>19, <1>20, <1>21,
     <1>22, <1>23, <1>24, <1>25, <1>26, <1>27
  DEF Next, Sealer, Recovery
=============================================================================
