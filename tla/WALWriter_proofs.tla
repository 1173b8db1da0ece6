-------------------------- MODULE WALWriter_proofs --------------------------
(***************************************************************************)
(* Group commit keeps Append's promise, for any number of appenders,       *)
(* appends and rotations, as long as the fsyncs before a rotation succeed. *)
(***************************************************************************)
EXTENDS WALWriter, TLAPS

Rotating(l) == pc["sealer"] = l

(* Who holds the two locks.                                                *)
LockInv ==
    /\ \A p \in Appenders : /\ pc[p] \in AppenderPcs
                            /\ pc[p] \in {"write", "rollback"} <=> mu = p
                            /\ pc[p] = "fsync" <=> syncMu = p
    /\ pc["sealer"] \in SealerPcs
    /\ ~Rotating("idle") <=> mu = "sealer"
    /\ Rotating("flushing") <=> syncMu = "sealer"

(* The open file: what is fsynced, what is written, what the counters say. *)
FileInv ==
    /\ walFile = current /\ (~Rotating("idle") => current < MaxFiles)
    /\ open = IF Rotating("rename") \/ Rotating("open") THEN {} ELSE {current}
    /\ \A f \in Files : disk[f] <= Len(file[f])
    /\ \A f \in Files : f < current => disk[f] = Len(file[f])
    /\ syncedBytes <= writtenBytes /\ entryCount = writtenBytes
    /\ IF Rotating("open")
       THEN /\ writtenBytes = 0 /\ validBytes = 0
            /\ disk[current] = Len(file[current])
       ELSE /\ syncedBytes <= disk[current] /\ validBytes <= disk[current]
            /\ writtenBytes <= Len(file[current])
            /\ (\A p \in Appenders : pc[p] # "rollback")
                  => writtenBytes = Len(file[current])
    /\ Rotating("close") \/ Rotating("rename") => syncedBytes = writtenBytes
    /\ Rotating("flushing") => covered["sealer"] = writtenBytes
    /\ \A f \in Files : f > current => file[f] = <<>> /\ disk[f] = 0

(* A record is found at its position, in the written part of the open file *)
(* or in a retired file, all of which is on disk.                          *)
Located(r) == r.at \in 1 .. Len(file[r.f]) /\ file[r.f][r.at] = r.n
Within(r)  == IF r.f = current /\ ~Rotating("open")
              THEN r.at <= writtenBytes
              ELSE r.f <= current /\ r.at <= disk[r.f]
Placed(r)  == Located(r) /\ Within(r)

(* The appends under way, the fsyncs under way, the acknowledged appends.  *)
PendingInv ==
    \A p \in Appenders : pc[p] \in {"sync", "fsync"} => Placed(rec[p])
CoverInv ==
    \A p \in Appenders : pc[p] = "fsync" =>
        /\ covered[p] <= writtenBytes
        /\ rec[p].f = current /\ ~Rotating("open") => rec[p].at <= covered[p]
AckInv == \A r \in acked : Placed(r) /\ r.at <= disk[r.f]
RecInv == PendingInv /\ CoverInv /\ AckInv

IInv == TypeOK /\ LockInv /\ FileInv /\ RecInv

(* A file cut to its first n records is still a file.                      *)
LEMMA CutSeq ==
  ASSUME NEW s \in Seq(Nat), NEW n \in Nat, n <= Len(s)
  PROVE  SubSeq(s, 1, n) \in Seq(Nat)
OBVIOUS

(* Every variable keeps its type.                                          *)
LEMMA TypeStep == TypeOK /\ FileInv /\ [Next]_vars => TypeOK'
<1> SUFFICES ASSUME TypeOK, FileInv, [Next]_vars PROVE TypeOK'
  OBVIOUS
<1> USE ConstantsAssumption
    DEF TypeOK, Procs, Files, NoRec, AppenderPcs, SealerPcs, vars, locks,
        handles, offsets
<1>1a. file[walFile] \in Seq(Nat) /\ disk[walFile] \in Nat
  OBVIOUS
<1>1b. \A p \in Appenders : rec[p] \in Records
  OBVIOUS
<1>1c. NoRec \in Records
  BY DEF Records
<1>1. ASSUME NEW p \in Appenders, AppendLock(p) PROVE TypeOK'
  BY <1>1 DEF AppendLock, Goto
<1>2. ASSUME NEW p \in Appenders, AppendWrite(p) PROVE TypeOK'
  <2>1. file' \in [Files -> Seq(Nat)]
    <3>1. Append(file[walFile], appends + 1) \in Seq(Nat)
      BY <1>1a
    <3> QED
      BY <3>1, <1>2 DEF AppendWrite
  <2>2. rec' \in [Appenders -> Records]
    BY <1>2 DEF AppendWrite, Records
  <2>3. /\ pc' \in [Procs -> AppenderPcs \cup SealerPcs]
        /\ appends' \in Nat /\ writtenBytes' \in Nat /\ entryCount' \in Nat
        /\ mu' = "none"
        /\ UNCHANGED <<syncMu, handles, disk, syncedBytes, validBytes, covered,
                       acked>>
    BY <1>2 DEF AppendWrite, Goto
  <2> QED
    BY Zenon, <2>1, <2>2, <2>3
<1>3. ASSUME NEW p \in Appenders, AppendWriteFails(p) PROVE TypeOK'
  <2>1. Append(file[walFile], appends + 1) \in Seq(Nat)
    BY <1>1a
  <2>2. file' \in [Files -> Seq(Nat)]
    BY Zenon, <2>1, <1>3 DEF AppendWriteFails
  <2>3. pc' \in [Procs -> AppenderPcs \cup SealerPcs] /\ appends' \in Nat
    BY <1>3 DEF AppendWriteFails, Goto
  <2>4. UNCHANGED <<locks, handles, disk, offsets, rec, covered, acked>>
    BY <1>3 DEF AppendWriteFails
  <2> QED
    BY Zenon, <2>2, <2>3, <2>4
<1>4. ASSUME NEW p \in Appenders, Rollback(p) PROVE TypeOK'
  <2>0. writtenBytes <= Len(file[walFile])
    BY DEF FileInv
  <2>1. SubSeq(file[walFile], 1, writtenBytes) \in Seq(Nat)
    BY <1>1a, <2>0, CutSeq
  <2>2. file' \in [Files -> Seq(Nat)]
    BY Zenon, <2>1, <1>4 DEF Rollback, LastGood
  <2>3. disk' \in [Files -> Nat]
    BY Zenon, <1>1a, <1>4 DEF Rollback, LastGood, Smaller
  <2> QED
    BY Zenon, <2>2, <2>3, <1>4 DEF Rollback, LastGood, Smaller, Goto
<1>5. ASSUME NEW p \in Appenders, SyncCovered(p) PROVE TypeOK'
  <2>1. acked' \subseteq Records /\ rec' \in [Appenders -> Records]
    BY <1>1b, <1>1c, <1>5 DEF SyncCovered, Return
  <2> QED
    BY Zenon, <2>1, <1>5 DEF SyncCovered, Return, Goto
<1>6. ASSUME NEW p \in Appenders, SyncStart(p) PROVE TypeOK'
  BY Zenon, <1>6 DEF SyncStart, Goto
<1>7. ASSUME NEW p \in Appenders, SyncDone(p) PROVE TypeOK'
  <2>1. disk' \in [Files -> Nat]
    <3>1. PICK k \in covered[p] .. Len(file[walFile]) :
             disk' = [disk EXCEPT ![walFile] = IF k > @ THEN k ELSE @]
      BY Zenon, <1>7 DEF SyncDone, Fsync
    <3>2. k \in Nat
      BY <1>1a
    <3> QED
      BY Zenon, <3>1, <3>2
  <2>2. acked' \subseteq Records /\ rec' \in [Appenders -> Records]
    BY <1>1b, <1>1c, <1>7 DEF SyncDone, Return
  <2>3. syncedBytes' \in Nat /\ validBytes' \in Nat
    BY <1>7, SMTT(30) DEF SyncDone, Advance
  <2> QED
    BY <2>1, <2>2, <2>3, <1>7 DEF SyncDone, Return, Goto
<1>8. ASSUME NEW p \in Appenders, SyncError(p) PROVE TypeOK'
  <2>1. acked' \subseteq Records /\ rec' \in [Appenders -> Records]
    BY <1>1b, <1>1c, <1>8 DEF SyncError, Return
  <2> QED
    BY Zenon, <2>1, <1>8 DEF SyncError, Return, Goto
<1>9. CASE RotateLock
  BY <1>9 DEF RotateLock, Sealer, Goto
<1>10. CASE FlushStart
  <2>1. covered' \in [Procs -> Nat]
    BY <1>10 DEF FlushStart
  <2> QED
    BY Zenon, <2>1, <1>10 DEF FlushStart, Goto
<1>11. CASE FlushDone
  <2>1. disk' \in [Files -> Nat]
    <3>1. PICK k \in covered["sealer"] .. Len(file[walFile]) :
             disk' = [disk EXCEPT ![walFile] = IF k > @ THEN k ELSE @]
      BY Zenon, <1>11 DEF FlushDone, Fsync
    <3>2. k \in Nat
      BY <1>1a
    <3> QED
      BY <3>1, <3>2
  <2>2. syncedBytes' \in Nat /\ validBytes' \in Nat
    BY <1>11 DEF FlushDone, Advance
  <2> QED
    BY Zenon, <2>1, <2>2, <1>11 DEF FlushDone, Sealer, Goto
<1>12. CASE FlushError
  BY <1>12 DEF FlushError, Sealer, Goto
<1>13. CASE RotateClose
  BY <1>13 DEF RotateClose, Sealer, Goto
<1>14. CASE OpenReset
  BY <1>14 DEF OpenReset, Sealer, Goto, SetOffsets
<1>15. CASE OpenDone
  <2>1. current + 1 \in Files
    BY <1>15 DEF OpenDone, Sealer, FileInv, Rotating
  <2> QED
    BY <2>1, <1>15 DEF OpenDone, Sealer, Goto
<1>16. CASE UNCHANGED vars
  BY <1>16
<1> QED
  BY Zenon, <1>1, <1>2, <1>3, <1>4, <1>5, <1>6, <1>7, <1>8,
     <1>9, <1>10, <1>11, <1>12, <1>13, <1>14, <1>15, <1>16
     DEF Next, AppendStep, RotateStep

(* mu and syncMu have one holder each.                                     *)
LEMMA LockStep == IInv /\ [Next]_vars => LockInv'
<1> SUFFICES ASSUME IInv, [Next]_vars PROVE LockInv'
  OBVIOUS
<1> USE ConstantsAssumption
    DEF IInv, LockInv, Rotating, TypeOK, Procs, AppenderPcs, SealerPcs,
        vars, locks, handles, offsets
<1>1. ASSUME NEW p \in Appenders, AppendLock(p) PROVE LockInv'
  BY <1>1 DEF AppendLock, Goto
<1>2. ASSUME NEW p \in Appenders, AppendWrite(p) PROVE LockInv'
  BY <1>2 DEF AppendWrite, Goto
<1>3. ASSUME NEW p \in Appenders, AppendWriteFails(p) PROVE LockInv'
  BY <1>3 DEF AppendWriteFails, Goto
<1>4. ASSUME NEW p \in Appenders, Rollback(p) PROVE LockInv'
  BY <1>4 DEF Rollback, Goto, LastGood, Smaller
<1>5. ASSUME NEW p \in Appenders, SyncCovered(p) PROVE LockInv'
  BY <1>5 DEF SyncCovered, Return, Goto
<1>6. ASSUME NEW p \in Appenders, SyncStart(p) PROVE LockInv'
  BY <1>6 DEF SyncStart, Goto
<1>7. ASSUME NEW p \in Appenders, SyncDone(p) PROVE LockInv'
  BY <1>7 DEF SyncDone, Fsync, Advance, Return, Goto
<1>8. ASSUME NEW p \in Appenders, SyncError(p) PROVE LockInv'
  BY <1>8 DEF SyncError, Return, Goto
<1>9. CASE RotateLock
  BY <1>9 DEF RotateLock, Sealer, Goto
<1>10. CASE FlushStart
  BY <1>10 DEF FlushStart, Goto
<1>11. CASE FlushDone
  BY <1>11 DEF FlushDone, Sealer, Goto, Fsync, Advance
<1>12. CASE FlushError
  BY <1>12 DEF FlushError, Sealer, Goto
<1>13. CASE RotateClose
  BY <1>13 DEF RotateClose, Sealer, Goto
<1>14. CASE OpenReset
  BY <1>14 DEF OpenReset, Sealer, Goto, SetOffsets
<1>15. CASE OpenDone
  BY <1>15 DEF OpenDone, Sealer, Goto
<1>16. CASE UNCHANGED vars
  BY <1>16
<1> QED
  BY <1>1, <1>2, <1>3, <1>4, <1>5, <1>6, <1>7, <1>8,
     <1>9, <1>10, <1>11, <1>12, <1>13, <1>14, <1>15, <1>16
     DEF Next, AppendStep, RotateStep

(* The counters describe the open file, and retired files are on disk.     *)
LEMMA FileStep == ~FlushFails /\ IInv /\ [Next]_vars => FileInv'
<1> SUFFICES ASSUME ~FlushFails, IInv, [Next]_vars PROVE FileInv'
  OBVIOUS
<1>t. /\ \A f \in Files : file[f] \in Seq(Nat) /\ disk[f] \in Nat
                          /\ Len(file[f]) \in Nat
      /\ file \in [Files -> Seq(Nat)] /\ disk \in [Files -> Nat]
      /\ current \in Files /\ current \in Nat /\ walFile = current
      /\ writtenBytes \in Nat /\ syncedBytes \in Nat /\ validBytes \in Nat
      /\ pc \in [Procs -> AppenderPcs \cup SealerPcs]
      /\ covered \in [Procs -> Nat]
      /\ "sealer" \in Procs /\ Appenders \subseteq Procs
      /\ "sealer" \notin Appenders /\ Files \subseteq Nat
  <2>1. \A f \in Files : file[f] \in Seq(Nat) /\ disk[f] \in Nat
    BY DEF IInv, TypeOK
  <2>2. \A f \in Files : Len(file[f]) \in Nat
    BY <2>1
  <2>3. walFile = current
    BY DEF IInv, FileInv
  <2>4. /\ current \in Files /\ current \in Nat /\ Files \subseteq Nat
        /\ "sealer" \in Procs /\ Appenders \subseteq Procs
    BY ConstantsAssumption DEF IInv, TypeOK, Files, Procs
  <2> QED
    BY <2>1, <2>2, <2>3, <2>4, ConstantsAssumption DEF IInv, TypeOK
<1> USE <1>t DEF IInv, FileInv, LockInv, Rotating, vars, locks, handles,
                 offsets
<1>1. ASSUME NEW p \in Appenders, AppendLock(p) PROVE FileInv'
  BY <1>1 DEF AppendLock, Goto
<1>2. ASSUME NEW p \in Appenders, AppendWrite(p) PROVE FileInv'
  <2>1. /\ Len(Append(file[current], appends + 1)) = Len(file[current]) + 1
        /\ pc["sealer"] = "idle" /\ pc'["sealer"] = "idle"
        /\ pc[p] # "rollback" /\ \A q \in Appenders : pc[q] # "rollback"
    BY <1>2 DEF AppendWrite, Goto
  <2>2. /\ file'[current] = Append(file[current], appends + 1)
        /\ \A f \in Files \ {current} : file'[f] = file[f]
    BY <1>2 DEF AppendWrite
  <2> QED
    BY <2>1, <2>2, <1>2 DEF AppendWrite
<1>3. ASSUME NEW p \in Appenders, AppendWriteFails(p) PROVE FileInv'
  <2>1. Len(Append(file[current], appends + 1)) = Len(file[current]) + 1
    OBVIOUS
  <2>2. /\ pc["sealer"] = "idle" /\ pc'["sealer"] = "idle"
        /\ pc'[p] = "rollback"
        /\ UNCHANGED <<handles, disk, offsets, covered>>
    BY <1>3 DEF AppendWriteFails, Goto
  <2>3. \A f \in Files : f # current => file'[f] = file[f]
    BY <1>3 DEF AppendWriteFails
  <2>4. /\ Len(file'[current]) \in Nat
        /\ Len(file'[current]) >= Len(file[current])
    BY <2>1, <1>3 DEF AppendWriteFails
  <2>5. \A f \in Files : /\ disk[f] <= Len(file'[f])
                         /\ f < current => disk[f] = Len(file'[f])
                         /\ f > current => file'[f] = <<>> /\ disk[f] = 0
    <3> SUFFICES ASSUME NEW f \in Files
                 PROVE  /\ disk[f] <= Len(file'[f])
                        /\ f < current => disk[f] = Len(file'[f])
                        /\ f > current => file'[f] = <<>> /\ disk[f] = 0
      OBVIOUS
    <3>1. CASE f = current
      BY <3>1, <2>3, <2>4
    <3>2. CASE f # current
      BY Zenon, <3>2, <2>3, <2>4
    <3> QED
      BY <3>1, <3>2
  <2> QED
    BY <2>2, <2>4, <2>5
<1>4. ASSUME NEW p \in Appenders, Rollback(p) PROVE FileInv'
  <2>1. Len(SubSeq(file[current], 1, writtenBytes)) = writtenBytes
    BY <1>4 DEF Rollback
  <2>2. /\ pc["sealer"] = "idle" /\ pc'["sealer"] = "idle"
    BY <1>4 DEF Rollback, Goto
  <2>3. /\ file'[current] = SubSeq(file[current], 1, writtenBytes)
        /\ \A f \in Files \ {current} : file'[f] = file[f]
        /\ disk'[current] = writtenBytes
        /\ \A f \in Files \ {current} : disk'[f] = disk[f]
    BY <1>4 DEF Rollback, LastGood
  <2> QED
    BY <2>1, <2>2, <2>3, <1>4, SMTT(30) DEF Rollback, LastGood, Smaller
<1>5. ASSUME NEW p \in Appenders, SyncCovered(p) PROVE FileInv'
  BY <1>5 DEF SyncCovered, Return, Goto
<1>6. ASSUME NEW p \in Appenders, SyncStart(p) PROVE FileInv'
  BY <1>6 DEF SyncStart, Goto
<1>7. ASSUME NEW p \in Appenders, SyncDone(p) PROVE FileInv'
  <2>0. covered[p] \in Nat /\ covered[p] <= writtenBytes
        /\ pc["sealer"] # "open" /\ pc'["sealer"] = pc["sealer"]
        /\ pc["sealer"] # "flushing" /\ pc[p] = "fsync"
    BY <1>7 DEF SyncDone, Return, Goto, RecInv, CoverInv
  <2>1. PICK k \in covered[p] .. Len(file[current]) :
           disk' = [disk EXCEPT ![current] = IF k > @ THEN k ELSE @]
    BY Zenon, <1>7 DEF SyncDone, Fsync
  <2>2. k \in Nat /\ k <= Len(file[current]) /\ covered[p] <= k
    BY <2>1, <2>0
  <2>3. /\ disk'[current] \in Nat /\ disk'[current] <= Len(file[current])
        /\ disk'[current] >= disk[current] /\ disk'[current] >= covered[p]
        /\ \A f \in Files \ {current} : disk'[f] = disk[f]
    BY <2>1, <2>2, covered[p] \in Nat
  <2>4. \A q \in Appenders : pc'[q] # "rollback" => pc[q] # "rollback"
    BY <1>7 DEF SyncDone, Return, Goto
  <2>5. UNCHANGED <<current, walFile, open, file, writtenBytes, entryCount,
                    covered>>
    BY <1>7 DEF SyncDone
  <2>6. /\ syncedBytes' <= writtenBytes /\ syncedBytes <= syncedBytes'
        /\ syncedBytes' \in Nat
        /\ syncedBytes' <= disk'[current] /\ validBytes' <= disk'[current]
    BY <2>0, <2>3, <1>7 DEF SyncDone, Advance
  <2>7. \A f \in Files : /\ disk'[f] <= Len(file[f])
                         /\ f < current => disk'[f] = Len(file[f])
                         /\ f > current => file[f] = <<>> /\ disk'[f] = 0
    <3> SUFFICES ASSUME NEW f \in Files
                 PROVE  /\ disk'[f] <= Len(file[f])
                        /\ f < current => disk'[f] = Len(file[f])
                        /\ f > current => file[f] = <<>> /\ disk'[f] = 0
      OBVIOUS
    <3>1. CASE f = current
      BY <3>1, <2>3
    <3>2. CASE f # current
      BY Zenon, <3>2, <2>3
    <3> QED
      BY <3>1, <3>2
  <2> QED
    BY <2>0, <2>3, <2>4, <2>5, <2>6, <2>7, SMTT(30)
<1>8. ASSUME NEW p \in Appenders, SyncError(p) PROVE FileInv'
  BY <1>8 DEF SyncError, Return, Goto
<1>9. CASE RotateLock
  BY <1>9 DEF RotateLock, Sealer, Goto
<1>10. CASE FlushStart
  BY <1>10 DEF FlushStart, Goto
<1>11. CASE FlushDone
  <2>0. covered["sealer"] = writtenBytes /\ pc'["sealer"] = "close"
        /\ pc["sealer"] = "flushing"
    BY <1>11 DEF FlushDone, Sealer, Goto
  <2>1. PICK k \in covered["sealer"] .. Len(file[current]) :
           disk' = [disk EXCEPT ![current] = IF k > @ THEN k ELSE @]
    BY Zenon, <1>11 DEF FlushDone, Fsync
  <2>2. k \in Nat /\ k <= Len(file[current]) /\ covered["sealer"] <= k
    BY <2>1
  <2>3. /\ disk'[current] \in Nat /\ disk'[current] <= Len(file[current])
        /\ disk'[current] >= disk[current]
        /\ disk'[current] >= covered["sealer"]
        /\ \A f \in Files \ {current} : disk'[f] = disk[f]
    BY <2>1, <2>2, covered["sealer"] \in Nat
  <2>4. \A q \in Appenders : pc'[q] = pc[q]
    BY <1>11 DEF FlushDone, Sealer, Goto
  <2>5. UNCHANGED <<current, walFile, open, file, writtenBytes, entryCount,
                    covered>>
    BY <1>11 DEF FlushDone
  <2>6. /\ syncedBytes' = writtenBytes
        /\ syncedBytes' <= disk'[current] /\ validBytes' <= disk'[current]
    BY <2>0, <2>3, <1>11 DEF FlushDone, Advance
  <2>7. \A f \in Files : /\ disk'[f] <= Len(file[f])
                         /\ f < current => disk'[f] = Len(file[f])
                         /\ f > current => file[f] = <<>> /\ disk'[f] = 0
    <3> SUFFICES ASSUME NEW f \in Files
                 PROVE  /\ disk'[f] <= Len(file[f])
                        /\ f < current => disk'[f] = Len(file[f])
                        /\ f > current => file[f] = <<>> /\ disk'[f] = 0
      OBVIOUS
    <3>1. CASE f = current
      BY <3>1, <2>3
    <3>2. CASE f # current
      BY Zenon, <3>2, <2>3
    <3> QED
      BY <3>1, <3>2
  <2> QED
    BY Zenon, <2>0, <2>3, <2>4, <2>5, <2>6, <2>7
<1>12. CASE FlushError
  BY <1>12 DEF FlushError, Sealer, Goto
<1>13. CASE RotateClose
  BY <1>13 DEF RotateClose, Sealer, Goto
<1>14. CASE OpenReset
  BY <1>14 DEF OpenReset, Sealer, Goto, SetOffsets
<1>15. CASE OpenDone
  <2>1. /\ pc'["sealer"] = "idle" /\ pc["sealer"] = "open"
        /\ current < MaxFiles /\ current' = current + 1
        /\ walFile' = current + 1 /\ current + 1 \in Files
        /\ \A p \in Appenders : pc'[p] = pc[p]
        /\ UNCHANGED <<file, disk, offsets, covered>>
    BY <1>15, ConstantsAssumption DEF OpenDone, Sealer, Goto, Files
  <2>2. file[current + 1] = <<>> /\ disk[current + 1] = 0
    BY <2>1
  <2>3. open' = {current'}
    BY <2>1, <1>15 DEF OpenDone
  <2> QED
    BY <2>1, <2>2, <2>3
<1>16. CASE UNCHANGED vars
  BY <1>16
<1> QED
  BY Zenon, <1>1, <1>2, <1>3, <1>4, <1>5, <1>6, <1>7, <1>8,
     <1>9, <1>10, <1>11, <1>12, <1>13, <1>14, <1>15, <1>16
     DEF Next, AppendStep, RotateStep

(* A step that leaves the files and the offsets alone moves no record.     *)
LEMMA SameFiles ==
  ASSUME UNCHANGED <<current, file, disk, writtenBytes>>,
         Rotating("open")' <=> Rotating("open"), NEW r
  PROVE  Placed(r)' <=> Placed(r)
<1>1. Located(r)' <=> Located(r)
  BY DEF Located
<1>2. Within(r)' <=> Within(r)
  BY DEF Within
<1> QED
  BY <1>1, <1>2 DEF Placed

(* Records stay where they were written, and acknowledged ones on disk.    *)
LEMMA RecStep == ~FlushFails /\ IInv /\ [Next]_vars => RecInv'
<1> SUFFICES ASSUME ~FlushFails, IInv, [Next]_vars PROVE RecInv'
  OBVIOUS
<1>i. LockInv /\ FileInv /\ PendingInv /\ CoverInv /\ AckInv
  BY DEF IInv, RecInv
<1>q. \A f \in Files : file[f] \in Seq(Nat)
  BY DEF IInv, TypeOK
<1>l. \A f \in Files : Len(file[f]) \in Nat
  BY <1>q
<1>t. /\ current \in Nat /\ Files \subseteq Nat /\ current \in Files
      /\ writtenBytes \in Nat /\ syncedBytes \in Nat
      /\ \A f \in Files : disk[f] \in Nat
      /\ "sealer" \in Procs /\ Appenders \subseteq Procs
      /\ "sealer" \notin Appenders
  BY ConstantsAssumption DEF IInv, TypeOK, Files, Procs
<1>w. walFile = current
  BY <1>i DEF FileInv
<1>v. /\ pc \in [Procs -> AppenderPcs \cup SealerPcs]
      /\ rec \in [Appenders -> Records] /\ acked \subseteq Records
      /\ covered \in [Procs -> Nat]
      /\ file \in [Files -> Seq(Nat)] /\ disk \in [Files -> Nat]
  BY DEF IInv, TypeOK
<1>s. \A r \in Records : r.f \in Files /\ r.f \in Nat /\ r.at \in Nat
  BY Zenon, <1>t DEF Records
<1>a. \A q \in Appenders : rec[q].f \in Files /\ rec[q].at \in Nat
  BY <1>v, <1>s
<1>1. ASSUME NEW p \in Appenders, AppendLock(p) PROVE RecInv'
  <2>1. /\ UNCHANGED <<current, file, disk, writtenBytes>>
        /\ Rotating("open")' <=> Rotating("open")
        /\ UNCHANGED <<rec, covered, acked>>
        /\ \A q \in Appenders : pc'[q] = pc[q] \/ pc'[q] = "write"
    BY <1>1, <1>t, <1>v DEF AppendLock, Goto, Rotating, handles, offsets
  <2>2. \A r : Placed(r)' <=> Placed(r)
    BY <2>1, SameFiles
  <2>3. PendingInv'
    BY <2>1, <2>2, <1>i DEF PendingInv
  <2>4. CoverInv'
    BY <2>1, <1>i DEF CoverInv
  <2>5. AckInv'
    BY <2>1, <2>2, <1>i DEF AckInv
  <2> QED
    BY <2>3, <2>4, <2>5 DEF RecInv
<1>2. ASSUME NEW p \in Appenders, AppendWrite(p) PROVE RecInv'
  <2> DEFINE new == Append(file[current], appends + 1)
  <2>1. /\ ~Rotating("open") /\ ~Rotating("open")'
        /\ writtenBytes' = writtenBytes + 1
        /\ UNCHANGED <<current, disk, covered, acked>>
        /\ \A f \in Files : f # current => file'[f] = file[f]
        /\ \A q \in Appenders : q # p => pc'[q] = pc[q] /\ rec'[q] = rec[q]
        /\ pc'[p] = "sync" /\ pc[p] = "write"
    BY <1>2, <1>i, <1>t, <1>v, <1>w
       DEF AppendWrite, Goto, LockInv, Rotating, handles
  <2>2. /\ Len(new) = Len(file[current]) + 1
        /\ new[Len(file[current]) + 1] = appends + 1
        /\ \A i \in 1 .. Len(file[current]) : new[i] = file[current][i]
    BY <1>q, <1>t
  <2>3. /\ file'[current] = new
        /\ rec'[p] = [n |-> appends + 1, f |-> current,
                      at |-> writtenBytes + 1]
    BY <1>2, <1>t, <1>v, <1>w DEF AppendWrite
  <2> HIDE DEF new
  <2>4. writtenBytes = Len(file[current])
    BY <1>i, <2>1, <1>2 DEF FileInv, LockInv, AppendWrite
  <2>k. ASSUME NEW r \in Records, Placed(r) PROVE Placed(r)'
    <3>1. Located(r)'
      <4>1. CASE r.f = current
        BY <4>1, <2>k, <2>1, <2>2, <2>3, <1>s, <1>l, SMTT(30)
           DEF Placed, Located
      <4>2. CASE r.f # current
        BY <4>2, <2>k, <2>1, <1>s DEF Placed, Located
      <4> QED
        BY <4>1, <4>2
    <3>2. Within(r)'
      BY <2>k, <2>1, <1>s, <1>t DEF Placed, Within
    <3> QED
      BY <3>1, <3>2 DEF Placed
  <2>5. Placed(rec[p])'
    <3>1. Located(rec[p])'
      BY <2>1, <2>2, <2>3, <2>4, <1>t DEF Located
    <3>2. Within(rec[p])'
      BY <2>1, <2>3 DEF Within
    <3> QED
      BY <3>1, <3>2 DEF Placed
  <2>p. PendingInv'
    BY Zenon, <2>1, <2>k, <2>5, <1>i, <1>v DEF PendingInv
  <2>c. CoverInv'
    <3>1. ASSUME NEW q \in Appenders, pc'[q] = "fsync"
          PROVE  /\ covered'[q] <= writtenBytes'
                 /\ rec'[q].f = current' => rec'[q].at <= covered'[q]
      <4>1. pc[q] = "fsync" /\ rec'[q] = rec[q] /\ covered'[q] = covered[q]
        BY <3>1, <2>1
      <4>2. /\ covered[q] <= writtenBytes
            /\ rec[q].f = current => rec[q].at <= covered[q]
        BY <4>1, <2>1, <1>i DEF CoverInv
      <4>3. covered[q] \in Nat /\ writtenBytes' = writtenBytes + 1
        BY <1>v, <1>t, <2>1
      <4> QED
        BY <4>1, <4>2, <4>3, <2>1, <1>t
    <3> QED
      BY <3>1 DEF CoverInv
  <2>a. AckInv'
    BY <2>1, <2>k, <1>i, <1>v DEF AckInv
  <2> QED
    BY <2>p, <2>c, <2>a DEF RecInv
<1>3. ASSUME NEW p \in Appenders, AppendWriteFails(p) PROVE RecInv'
  <2>1. /\ ~Rotating("open") /\ ~Rotating("open")'
        /\ UNCHANGED <<current, disk, covered, acked, rec, writtenBytes>>
        /\ \A f \in Files : f # current => file'[f] = file[f]
        /\ \A q \in Appenders : pc'[q] = pc[q] \/ pc'[q] = "rollback"
    BY <1>3, <1>i, <1>t, <1>v, <1>w
       DEF AppendWriteFails, Goto, LockInv, Rotating, handles, offsets
  <2>2. \/ file'[current] = Append(file[current], appends + 1)
        \/ file'[current] = file[current]
    BY <1>3, <1>t, <1>v, <1>w DEF AppendWriteFails
  <2>3. /\ Len(file'[current]) \in Nat
        /\ Len(file'[current]) >= Len(file[current])
        /\ \A i \in 1 .. Len(file[current]) :
              file'[current][i] = file[current][i]
    <3>1. CASE file'[current] = file[current]
      BY <3>1, <1>l, <1>t
    <3>2. CASE file'[current] = Append(file[current], appends + 1)
      BY <3>2, <1>q, <1>l, <1>t
    <3> QED
      BY <3>1, <3>2, <2>2
  <2>k. ASSUME NEW r \in Records, Placed(r) PROVE Placed(r)'
    <3>1. Located(r)'
      <4>1. CASE r.f = current
        BY <4>1, <2>k, <2>1, <2>3, <1>s, <1>l DEF Placed, Located
      <4>2. CASE r.f # current
        BY <4>2, <2>k, <2>1, <1>s DEF Placed, Located
      <4> QED
        BY <4>1, <4>2
    <3>2. Within(r)'
      BY <2>k, <2>1 DEF Placed, Within
    <3> QED
      BY <3>1, <3>2 DEF Placed
  <2>p. PendingInv'
    BY <2>1, <2>k, <1>i, <1>v DEF PendingInv
  <2>c. CoverInv'
    BY <2>1, <1>i DEF CoverInv
  <2>a. AckInv'
    BY <2>1, <2>k, <1>i, <1>v DEF AckInv
  <2> QED
    BY <2>p, <2>c, <2>a DEF RecInv
<1>4. ASSUME NEW p \in Appenders, Rollback(p) PROVE RecInv'
  <2>1. /\ ~Rotating("open") /\ ~Rotating("open")'
        /\ UNCHANGED <<current, covered, acked, rec>>
        /\ writtenBytes' = writtenBytes
        /\ \A f \in Files : f # current => file'[f] = file[f]
                                           /\ disk'[f] = disk[f]
        /\ disk'[current] = writtenBytes
        /\ \A q \in Appenders : pc'[q] = pc[q] \/ pc'[q] = "idle"
    BY <1>4, <1>i, <1>t, <1>v, <1>w
       DEF Rollback, LastGood, Goto, LockInv, Rotating, handles
  <2>2. file'[current] = SubSeq(file[current], 1, writtenBytes)
    BY <1>4, <1>t, <1>v, <1>w DEF Rollback, LastGood
  <2>3. /\ Len(file'[current]) = writtenBytes
        /\ \A i \in 1 .. writtenBytes : file'[current][i] = file[current][i]
    <3>1. writtenBytes <= Len(file[current])
      BY <1>i, <2>1 DEF FileInv
    <3> QED
      BY <3>1, <2>2, <1>q, <1>l, <1>t
  <2>k. ASSUME NEW r \in Records, Placed(r) PROVE Placed(r)'
    <3>1. Located(r)'
      <4>1. CASE r.f = current
        BY <4>1, <2>k, <2>1, <2>3, <1>s, <1>l, <1>t DEF Placed, Located, Within
      <4>2. CASE r.f # current
        BY <4>2, <2>k, <2>1, <1>s DEF Placed, Located
      <4> QED
        BY <4>1, <4>2
    <3>2. Within(r)'
      BY <2>k, <2>1, <1>s, <1>t DEF Placed, Within
    <3> QED
      BY <3>1, <3>2 DEF Placed
  <2>4. \A r \in acked : r.at <= disk'[r.f]
    <3> SUFFICES ASSUME NEW r \in acked PROVE r.at <= disk'[r.f]
      OBVIOUS
    <3> QED
      BY Zenon, <2>1, <1>i, <1>s, <1>v DEF AckInv, Placed, Within
  <2>p. PendingInv'
    BY <2>1, <2>k, <1>i, <1>v DEF PendingInv
  <2>c. CoverInv'
    BY <2>1, <1>i DEF CoverInv
  <2>a. AckInv'
    BY <2>1, <2>k, <2>4, <1>i, <1>v DEF AckInv
  <2> QED
    BY <2>p, <2>c, <2>a DEF RecInv
<1>5. ASSUME NEW p \in Appenders, SyncCovered(p) PROVE RecInv'
  <2>1. /\ UNCHANGED <<current, file, disk, writtenBytes, covered>>
        /\ Rotating("open")' <=> Rotating("open")
        /\ pc[p] = "sync" /\ rec[p].at <= syncedBytes
        /\ acked' = acked \cup {rec[p]}
        /\ \A q \in Appenders : q # p => pc'[q] = pc[q] /\ rec'[q] = rec[q]
        /\ pc'[p] = "idle"
    BY <1>5, <1>t, <1>v, <1>a
       DEF SyncCovered, Return, Goto, Rotating, handles, offsets
  <2>2. \A r : Placed(r)' <=> Placed(r)
    BY <2>1, SameFiles
  <2>3. Placed(rec[p]) /\ rec[p].at <= disk[rec[p].f]
    <3>1. Placed(rec[p])
      BY <2>1, <1>i DEF PendingInv
    <3>2. CASE rec[p].f = current /\ ~Rotating("open")
      <4>1. syncedBytes <= disk[current]
        BY <3>2, <1>i DEF FileInv
      <4>2. /\ disk[current] \in Nat /\ rec[p].at \in Nat
            /\ rec[p].f = current
        BY <3>2, <1>t, <1>a
      <4>3. rec[p].at <= syncedBytes /\ syncedBytes \in Nat
        BY <2>1, <1>t
      <4>4. rec[p].at <= disk[current]
        BY <4>1, <4>2, <4>3
      <4> QED
        BY <4>2, <4>4, <3>1
    <3>3. CASE ~(rec[p].f = current /\ ~Rotating("open"))
      BY <3>3, <3>1 DEF Placed, Within
    <3> QED
      BY <3>1, <3>2, <3>3
  <2>p. PendingInv'
    BY <2>1, <2>2, <1>i DEF PendingInv
  <2>c. CoverInv'
    BY <2>1, <1>i DEF CoverInv
  <2>a. AckInv'
    BY <2>1, <2>2, <2>3, <1>i DEF AckInv
  <2> QED
    BY <2>p, <2>c, <2>a DEF RecInv
<1>6. ASSUME NEW p \in Appenders, SyncStart(p) PROVE RecInv'
  <2>1. /\ UNCHANGED <<current, file, disk, writtenBytes, rec, acked>>
        /\ Rotating("open")' <=> Rotating("open")
        /\ \A q \in Appenders : q # p => pc'[q] = pc[q]
                                         /\ covered'[q] = covered[q]
        /\ pc[p] = "sync" /\ covered'[p] = writtenBytes
    BY <1>6, <1>t, <1>v DEF SyncStart, Goto, Rotating, handles, offsets
  <2>2. \A r : Placed(r)' <=> Placed(r)
    BY <2>1, SameFiles
  <2>3. PendingInv'
    BY <2>1, <2>2, <1>i DEF PendingInv
  <2>4. rec[p].f = current /\ ~Rotating("open") => rec[p].at <= writtenBytes
    BY <2>1, <1>i DEF PendingInv, Placed, Within
  <2>5. CoverInv'
    BY <2>1, <2>4, <1>i, <1>t DEF CoverInv
  <2>6. AckInv'
    BY <2>1, <2>2, <1>i DEF AckInv
  <2> QED
    BY <2>3, <2>5, <2>6 DEF RecInv
<1>7. ASSUME NEW p \in Appenders, SyncDone(p) PROVE RecInv'
  <2>0. covered[p] \in Nat /\ pc[p] = "fsync" /\ ~Rotating("open")
    BY <1>7, <1>i, <1>t, <1>v DEF SyncDone, FileInv, Rotating
  <2>1. PICK k \in covered[p] .. Len(file[current]) :
           disk' = [disk EXCEPT ![current] = IF k > @ THEN k ELSE @]
    BY Zenon, <1>7, <1>w DEF SyncDone, Fsync
  <2>2. /\ disk'[current] \in Nat /\ disk'[current] >= disk[current]
        /\ disk'[current] >= covered[p]
        /\ \A f \in Files : f # current => disk'[f] = disk[f]
    BY <2>0, <2>1, <1>t, <1>v, <1>l
  <2>3. /\ UNCHANGED <<current, file, writtenBytes, covered>>
        /\ ~Rotating("open")'
        /\ acked' = acked \cup {rec[p]}
        /\ \A q \in Appenders : q # p => pc'[q] = pc[q] /\ rec'[q] = rec[q]
        /\ pc'[p] = "idle"
    BY <1>7, <2>0, <1>t, <1>v DEF SyncDone, Return, Goto, Rotating, handles
  <2>k. ASSUME NEW r \in Records, Placed(r) PROVE Placed(r)'
    <3>1. Located(r)'
      BY <2>k, <2>3 DEF Placed, Located
    <3>2. Within(r)'
      BY <2>k, <2>0, <2>2, <2>3, <1>s, <1>t DEF Placed, Within
    <3> QED
      BY <3>1, <3>2 DEF Placed
  <2>4. \A r \in acked : Placed(r)' /\ r.at <= disk'[r.f]
    <3> SUFFICES ASSUME NEW r \in acked PROVE Placed(r)' /\ r.at <= disk'[r.f]
      OBVIOUS
    <3>1. r \in Records /\ Placed(r) /\ r.at <= disk[r.f]
      BY <1>i, <1>v DEF AckInv
    <3> QED
      BY <3>1, <2>k, <2>2, <1>s, <1>t
  <2>5. ASSUME NEW r, r = rec[p] PROVE Placed(r)' /\ r.at <= disk'[r.f]
    <3>1. r \in Records /\ Placed(r)
      BY <2>0, <2>5, <1>i, <1>v DEF PendingInv
    <3>2. CASE r.f = current
      BY <3>1, <3>2, <2>0, <2>2, <2>5, <2>k, <1>i, <1>s, <1>t DEF CoverInv
    <3>3. CASE r.f # current
      BY <3>1, <3>3, <2>2, <2>k, <1>s DEF Placed, Within
    <3> QED
      BY <3>2, <3>3
  <2>p. PendingInv'
    BY Zenon, <2>0, <2>3, <2>k, <1>i, <1>v DEF PendingInv
  <2>c. CoverInv'
    BY <2>0, <2>3, <1>i DEF CoverInv
  <2>a. AckInv'
    BY <2>3, <2>4, <2>5 DEF AckInv
  <2> QED
    BY <2>p, <2>c, <2>a DEF RecInv
<1>8. ASSUME NEW p \in Appenders, SyncError(p) PROVE RecInv'
  <2>1. /\ UNCHANGED <<current, file, disk, writtenBytes>>
        /\ Rotating("open")' <=> Rotating("open")
        /\ UNCHANGED <<covered, acked>>
        /\ \A q \in Appenders : q # p => pc'[q] = pc[q] /\ rec'[q] = rec[q]
        /\ pc'[p] = "idle"
    BY <1>8, <1>t, <1>v DEF SyncError, Return, Goto, Rotating, handles, offsets
  <2>2. \A r : Placed(r)' <=> Placed(r)
    BY <2>1, SameFiles
  <2>3. PendingInv'
    BY <2>1, <2>2, <1>i DEF PendingInv
  <2>4. CoverInv'
    BY <2>1, <1>i DEF CoverInv
  <2>5. AckInv'
    BY <2>1, <2>2, <1>i DEF AckInv
  <2> QED
    BY <2>3, <2>4, <2>5 DEF RecInv
<1>9. CASE RotateLock
  <2>1. /\ UNCHANGED <<current, file, disk, writtenBytes>>
        /\ Rotating("open")' <=> Rotating("open")
        /\ UNCHANGED <<rec, covered, acked>>
        /\ \A q \in Appenders : pc'[q] = pc[q]
    BY <1>9, <1>t, <1>v
       DEF RotateLock, Sealer, Goto, Rotating, handles, offsets
  <2>2. \A r : Placed(r)' <=> Placed(r)
    BY <2>1, SameFiles
  <2>3. PendingInv'
    BY <2>1, <2>2, <1>i DEF PendingInv
  <2>4. CoverInv'
    BY <2>1, <1>i DEF CoverInv
  <2>5. AckInv'
    BY <2>1, <2>2, <1>i DEF AckInv
  <2> QED
    BY <2>3, <2>4, <2>5 DEF RecInv
<1>10. CASE FlushStart
  <2>1. /\ UNCHANGED <<current, file, disk, writtenBytes>>
        /\ Rotating("open")' <=> Rotating("open")
        /\ UNCHANGED <<rec, acked>>
        /\ \A q \in Appenders : pc'[q] = pc[q] /\ covered'[q] = covered[q]
    BY <1>10, <1>t, <1>v DEF FlushStart, Goto, Rotating, handles, offsets
  <2>2. \A r : Placed(r)' <=> Placed(r)
    BY <2>1, SameFiles
  <2>3. PendingInv'
    BY <2>1, <2>2, <1>i DEF PendingInv
  <2>4. CoverInv'
    BY <2>1, <1>i DEF CoverInv
  <2>5. AckInv'
    BY <2>1, <2>2, <1>i DEF AckInv
  <2> QED
    BY <2>3, <2>4, <2>5 DEF RecInv
<1>11. CASE FlushDone
  <2>0. covered["sealer"] \in Nat /\ ~Rotating("open")
    BY <1>11, <1>t, <1>v DEF FlushDone, Sealer, Rotating
  <2>1. PICK k \in covered["sealer"] .. Len(file[current]) :
           disk' = [disk EXCEPT ![current] = IF k > @ THEN k ELSE @]
    BY Zenon, <1>11, <1>w DEF FlushDone, Fsync
  <2>2. /\ disk'[current] \in Nat /\ disk'[current] >= disk[current]
        /\ disk'[current] >= covered["sealer"]
        /\ \A f \in Files : f # current => disk'[f] = disk[f]
    BY <2>0, <2>1, <1>t, <1>v, <1>l
  <2>3. /\ UNCHANGED <<current, file, writtenBytes, covered, rec, acked>>
        /\ ~Rotating("open")'
        /\ \A q \in Appenders : pc'[q] = pc[q]
    BY <1>11, <1>t, <1>v DEF FlushDone, Sealer, Goto, Rotating, handles
  <2>k. ASSUME NEW r \in Records, Placed(r) PROVE Placed(r)'
    <3>1. Located(r)'
      BY <2>k, <2>3 DEF Placed, Located
    <3>2. Within(r)'
      BY <2>k, <2>0, <2>2, <2>3, <1>s, <1>t DEF Placed, Within
    <3> QED
      BY <3>1, <3>2 DEF Placed
  <2>4. \A r \in acked : Placed(r)' /\ r.at <= disk'[r.f]
    <3> SUFFICES ASSUME NEW r \in acked PROVE Placed(r)' /\ r.at <= disk'[r.f]
      OBVIOUS
    <3>1. r \in Records /\ Placed(r) /\ r.at <= disk[r.f]
      BY <1>i, <1>v DEF AckInv
    <3> QED
      BY <3>1, <2>k, <2>2, <1>s, <1>t
  <2>p. PendingInv'
    BY Zenon, <2>3, <2>k, <1>i, <1>v DEF PendingInv
  <2>c. CoverInv'
    BY <2>0, <2>3, <1>i DEF CoverInv
  <2>a. AckInv'
    BY <2>3, <2>4 DEF AckInv
  <2> QED
    BY <2>p, <2>c, <2>a DEF RecInv
<1>12. CASE FlushError
  <2>1. /\ UNCHANGED <<current, file, disk, writtenBytes>>
        /\ Rotating("open")' <=> Rotating("open")
        /\ UNCHANGED <<rec, covered, acked>>
        /\ \A q \in Appenders : pc'[q] = pc[q]
    BY <1>12, <1>t, <1>v
       DEF FlushError, Sealer, Goto, Rotating, handles, offsets
  <2>2. \A r : Placed(r)' <=> Placed(r)
    BY <2>1, SameFiles
  <2>3. PendingInv'
    BY <2>1, <2>2, <1>i DEF PendingInv
  <2>4. CoverInv'
    BY <2>1, <1>i DEF CoverInv
  <2>5. AckInv'
    BY <2>1, <2>2, <1>i DEF AckInv
  <2> QED
    BY <2>3, <2>4, <2>5 DEF RecInv
<1>13. CASE RotateClose
  <2>1. /\ UNCHANGED <<current, file, disk, writtenBytes>>
        /\ Rotating("open")' <=> Rotating("open")
        /\ UNCHANGED <<rec, covered, acked>>
        /\ \A q \in Appenders : pc'[q] = pc[q]
    BY <1>13, <1>t, <1>v
       DEF RotateClose, Sealer, Goto, Rotating, handles, offsets
  <2>2. \A r : Placed(r)' <=> Placed(r)
    BY <2>1, SameFiles
  <2>3. PendingInv'
    BY <2>1, <2>2, <1>i DEF PendingInv
  <2>4. CoverInv'
    BY <2>1, <1>i DEF CoverInv
  <2>5. AckInv'
    BY <2>1, <2>2, <1>i DEF AckInv
  <2> QED
    BY <2>3, <2>4, <2>5 DEF RecInv
<1>14. CASE OpenReset
  <2>1. /\ UNCHANGED <<current, file, disk, rec, covered, acked>>
        /\ Rotating("rename") /\ ~Rotating("open") /\ Rotating("open")'
        /\ \A q \in Appenders : pc'[q] = pc[q]
    BY <1>14, <1>t, <1>v DEF OpenReset, Sealer, Goto, Rotating, handles
  <2>2. \A q \in Appenders : pc[q] # "fsync"
    BY <1>14, <1>i, <1>t, ConstantsAssumption DEF OpenReset, LockInv
  <2>3. writtenBytes <= disk[current]
    BY <2>1, <1>i DEF FileInv
  <2>k. ASSUME NEW r \in Records, Placed(r) PROVE Placed(r)'
    <3>1. Located(r)'
      BY <2>k, <2>1 DEF Placed, Located
    <3>2. Within(r)'
      BY <2>k, <2>1, <2>3, <1>s, <1>t DEF Placed, Within
    <3> QED
      BY <3>1, <3>2 DEF Placed
  <2>p. PendingInv'
    BY Zenon, <2>1, <2>k, <1>i, <1>v DEF PendingInv
  <2>c. CoverInv'
    BY <2>1, <2>2 DEF CoverInv
  <2>a. AckInv'
    BY <2>1, <2>k, <1>i, <1>v DEF AckInv
  <2> QED
    BY <2>p, <2>c, <2>a DEF RecInv
<1>15. CASE OpenDone
  <2>1. /\ UNCHANGED <<file, disk, rec, covered, acked, writtenBytes>>
        /\ Rotating("open") /\ ~Rotating("open")'
        /\ \A q \in Appenders : pc'[q] = pc[q]
        /\ current' = current + 1
    BY <1>15, <1>t, <1>v DEF OpenDone, Sealer, Goto, Rotating, offsets
  <2>k. ASSUME NEW r \in Records, Placed(r) PROVE Placed(r)' /\ r.f # current'
    <3>1. Located(r)'
      BY <2>k, <2>1 DEF Placed, Located
    <3>2. r.f # current'
      <4>1. r.f <= current
        BY <2>k, <2>1 DEF Placed, Within
      <4>2. r.f \in Nat /\ current \in Nat /\ current' = current + 1
        BY <2>1, <1>s, <1>t
      <4> QED
        BY <4>1, <4>2
    <3>3. Within(r)'
      BY <3>2, <2>k, <2>1, <1>s, <1>t DEF Placed, Within
    <3> QED
      BY <3>1, <3>2, <3>3 DEF Placed
  <2>p. PendingInv'
    BY <2>1, <2>k, <1>i, <1>v DEF PendingInv
  <2>c. CoverInv'
    <3>1. \A q \in Appenders : pc[q] = "fsync" => rec[q].f # current'
      BY <2>k, <1>i, <1>v DEF PendingInv
    <3> QED
      BY <3>1, <2>1, <1>i DEF CoverInv
  <2>a. AckInv'
    BY <2>1, <2>k, <1>i, <1>v DEF AckInv
  <2> QED
    BY <2>p, <2>c, <2>a DEF RecInv
<1>16. CASE UNCHANGED vars
  <2>1. /\ UNCHANGED <<current, file, disk, writtenBytes, rec, covered, acked>>
        /\ Rotating("open")' <=> Rotating("open")
        /\ \A q \in Appenders : pc'[q] = pc[q]
    BY <1>16 DEF vars, handles, offsets, Rotating
  <2>2. \A r : Placed(r)' <=> Placed(r)
    BY <2>1, SameFiles
  <2> QED
    BY <2>1, <2>2, <1>i DEF RecInv, PendingInv, CoverInv, AckInv
<1> QED
  BY <1>1, <1>2, <1>3, <1>4, <1>5, <1>6, <1>7, <1>8,
     <1>9, <1>10, <1>11, <1>12, <1>13, <1>14, <1>15, <1>16
     DEF Next, AppendStep, RotateStep

(* A writer that has just opened its first file.                           *)
LEMMA InitInv == Init => IInv
<1> SUFFICES ASSUME Init PROVE IInv
  OBVIOUS
<1>1. TypeOK
  BY ConstantsAssumption
     DEF Init, TypeOK, Procs, Files, Records, NoRec, AppenderPcs, SealerPcs
<1>2. LockInv
  BY ConstantsAssumption
     DEF Init, LockInv, Rotating, Procs, AppenderPcs, SealerPcs
<1>3. FileInv
  <2>1. pc["sealer"] = "idle" /\ \A p \in Appenders : pc[p] = "idle"
    BY DEF Init, Procs
  <2>2. \A f \in Files : file[f] = <<>> /\ Len(file[f]) = 0 /\ disk[f] = 0
    BY DEF Init
  <2>3. 1 \in Files /\ Files \subseteq Nat
    BY ConstantsAssumption DEF Files
  <2> QED
    BY <2>1, <2>2, <2>3 DEF Init, FileInv, Rotating
<1>4. RecInv
  BY DEF Init, Procs, RecInv, PendingInv, CoverInv, AckInv
<1> QED
  BY <1>1, <1>2, <1>3, <1>4 DEF IInv

(* The inductive invariant: lock ownership, what the counters say about    *)
(* the open file, and where every record is.                               *)
THEOREM Invariance == ~FlushFails => (Spec => []IInv)
<1> SUFFICES ASSUME ~FlushFails PROVE Spec => []IInv
  OBVIOUS
<1>1. IInv /\ [Next]_vars => IInv'
  <2> SUFFICES ASSUME IInv, [Next]_vars PROVE IInv'
    OBVIOUS
  <2>1. TypeOK'
    BY TypeStep DEF IInv
  <2> QED
    BY <2>1, LockStep, FileStep, RecStep DEF IInv
<1> QED
  BY <1>1, InitInv, PTL DEF Spec

(* Every variable of the writer keeps its type.                            *)
THEOREM TypeCorrect == ~FlushFails => (Spec => []TypeOK)
<1>1. IInv => TypeOK
  BY DEF IInv
<1> QED
  BY <1>1, Invariance, PTL

(* syncThrough: an append that returned without error is on disk, for any  *)
(* number of appenders, appends and rotations.                             *)
THEOREM AcksAreDurable == ~FlushFails => (Spec => []AckedOnDisk)
<1>1. IInv => AckedOnDisk
  BY DEF IInv, RecInv, AckInv, AckedOnDisk
<1> QED
  BY <1>1, Invariance, PTL

(* Append and rollback: an acknowledged record stays where its ID points.  *)
THEOREM AcksStayInPlace == ~FlushFails => (Spec => []AckedInPlace)
<1>1. IInv => AckedInPlace
  <2> SUFFICES ASSUME IInv, NEW r \in acked
               PROVE  r.at <= Len(file[r.f]) /\ file[r.f][r.at] = r.n
    BY DEF AckedInPlace
  <2>1. Located(r)
    BY DEF IInv, RecInv, AckInv, Placed
  <2>2. r \in Records /\ file \in [Files -> Seq(Nat)]
    BY DEF IInv, TypeOK
  <2>3. Len(file[r.f]) \in Nat
    BY <2>2 DEF Records
  <2> QED
    BY <2>1, <2>3 DEF Located
<1> QED
  BY <1>1, Invariance, PTL

(* syncThrough and rollback: validBytes never claims more than was fsynced.*)
THEOREM ValidBytesSound == ~FlushFails => (Spec => []ValidBytesOnDisk)
<1>1. IInv => ValidBytesOnDisk
  <2> SUFFICES ASSUME IInv, mu = "none" PROVE validBytes <= disk[walFile]
    BY DEF ValidBytesOnDisk
  <2>1. ~Rotating("open")
    BY DEF IInv, LockInv, Rotating
  <2> QED
    BY <2>1 DEF IInv, FileInv
<1> QED
  BY <1>1, Invariance, PTL

(* Append: between two operations the counters are the file's length, so   *)
(* the next ID neither skips nor repeats a position.                       *)
THEOREM PositionsAgree == ~FlushFails => (Spec => []PositionsMatch)
<1>1. IInv => PositionsMatch
  <2> SUFFICES ASSUME IInv, mu = "none"
               PROVE  /\ entryCount = Len(file[walFile])
                      /\ writtenBytes = Len(file[walFile])
    BY DEF PositionsMatch
  <2>1. ~Rotating("open")
    BY DEF IInv, LockInv, Rotating
  <2>2. \A p \in Appenders : pc[p] # "rollback"
    BY Zenon, ConstantsAssumption DEF IInv, LockInv
  <2> QED
    BY <2>1, <2>2 DEF IInv, FileInv
<1> QED
  BY <1>1, Invariance, PTL

=============================================================================
