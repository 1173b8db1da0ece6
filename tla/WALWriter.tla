----------------------------- MODULE WALWriter -----------------------------
(***************************************************************************)
(* Group commit in the WAL writer (internal/logstore/engine/writer.go).    *)
(* Appenders write under mu, then share fsyncs under syncMu with mu        *)
(* released, while the sealer rotates the file below them.  LogStore takes *)
(* "Append returned, so the record is on disk" for one step; this module   *)
(* is about the locks, counters and file handles that have to make it so.  *)
(*                                                                         *)
(* One append is one record and one unit of bytes, so an offset is a       *)
(* number of records.  Files are numbered in the order they are opened;    *)
(* file[f] is the sequence of the appends in it and disk[f] the length of  *)
(* the prefix that survives a power loss.                                  *)
(***************************************************************************)
EXTENDS Integers, Sequences

CONSTANTS
    Appenders,     \* goroutines calling Append
    MaxFiles,      \* bound on the files opened (rotations + 1)
    MaxAppends,    \* bound on the number of appends
    WriteFails,    \* may a write be short or fail?
    SyncFails,     \* may the fsync of a group commit fail?
    FlushFails     \* may the fsync before a rotation or a rollback fail?

ASSUME ConstantsAssumption ==
    /\ MaxFiles \in Nat \ {0}
    /\ MaxAppends \in Nat
    /\ WriteFails \in BOOLEAN /\ SyncFails \in BOOLEAN
    /\ FlushFails \in BOOLEAN
    /\ "none" \notin Appenders /\ "sealer" \notin Appenders

VARIABLES
    mu,            \* holder of WALWriter.mu, or "none"
    syncMu,        \* holder of WALWriter.syncMu, or "none"
    current,       \* the file segmentHour names
    walFile,       \* the file behind WALWriter.walFile
    open,          \* the files whose handle is not closed
    file,          \* contents: file[f] is a sequence of append numbers
    disk,          \* disk[f]: how many records an fsync of f has covered
    writtenBytes,  \* also WALWriter.fileSize, which follows it
    syncedBytes,
    validBytes,
    entryCount,
    pc,            \* where each goroutine is
    rec,           \* its record: append number, file and position
    covered,       \* local of syncThrough
    appends,       \* number of appends so far
    acked          \* records whose Append returned without error

locks    == <<mu, syncMu>>
handles  == <<current, walFile, open>>
offsets  == <<writtenBytes, syncedBytes, validBytes, entryCount>>
vars == <<locks, handles, file, disk, offsets, pc, rec, covered, appends,
          acked>>

Procs   == Appenders \cup {"sealer"}
Files   == 1 .. MaxFiles
Records == [n : Nat, f : Files, at : Nat]
NoRec   == [n |-> 0, f |-> 1, at |-> 0]

AppenderPcs == {"idle", "write", "rollback", "sync", "fsync"}
SealerPcs   == {"idle", "flush", "flushing", "close", "rename", "open"}

Init ==
    /\ mu = "none" /\ syncMu = "none"
    /\ current = 1 /\ walFile = 1 /\ open = {1}
    /\ file = [f \in Files |-> <<>>]
    /\ disk = [f \in Files |-> 0]
    /\ writtenBytes = 0 /\ syncedBytes = 0 /\ validBytes = 0
    /\ entryCount = 0
    /\ pc = [p \in Procs |-> "idle"]
    /\ rec = [p \in Appenders |-> NoRec]
    /\ covered = [p \in Procs |-> 0]
    /\ appends = 0
    /\ acked = {}

Smaller(m, n) == IF m <= n THEN m ELSE n
Goto(p, l) == pc' = [pc EXCEPT ![p] = l]

-----------------------------------------------------------------------------
(* Append.                                                                 *)

(* Append takes mu.                                                        *)
AppendLock(p) ==
    /\ pc[p] = "idle"
    /\ appends < MaxAppends
    /\ mu = "none"
    /\ mu' = p
    /\ Goto(p, "write")
    /\ UNCHANGED <<syncMu, handles, file, disk, offsets, rec, covered, appends,
                   acked>>

(* Append writes the batch, advances the counters and releases mu.         *)
AppendWrite(p) ==
    /\ pc[p] = "write"
    /\ file' = [file EXCEPT ![walFile] = Append(@, appends + 1)]
    /\ rec' = [rec EXCEPT ![p] = [n |-> appends + 1, f |-> walFile,
                                  at |-> writtenBytes + 1]]
    /\ writtenBytes' = writtenBytes + 1
    /\ entryCount' = entryCount + 1
    /\ appends' = appends + 1
    /\ mu' = "none"
    /\ Goto(p, "sync")
    /\ UNCHANGED <<syncMu, handles, disk, syncedBytes, validBytes, covered,
                   acked>>

(* A failed write leaves part of the batch behind; rollback wants syncMu.  *)
AppendWriteFails(p) ==
    /\ WriteFails
    /\ pc[p] = "write"
    /\ appends' = appends + 1
    /\ \/ file' = [file EXCEPT ![walFile] = Append(@, appends + 1)]
       \/ UNCHANGED file
    /\ Goto(p, "rollback")
    /\ UNCHANGED <<locks, handles, disk, offsets, rec, covered, acked>>

(* Variant: only what has been fsynced counts as good.                     *)
LastSynced == syncedBytes

(* Append: the offset it rolls back to, the end of the previous batch.     *)
LastGood == writtenBytes

(* rollback: cut the file to the last good offset and fsync it (an fsync   *)
(* error is only logged), then Append returns the write error.             *)
Rollback(p) ==
    /\ pc[p] = "rollback"
    /\ syncMu = "none"
    /\ file' = [file EXCEPT ![walFile] = SubSeq(@, 1, LastGood)]
    /\ \/ disk' = [disk EXCEPT ![walFile] = LastGood]
       \/ /\ FlushFails
          /\ disk' = [disk EXCEPT ![walFile] = Smaller(@, LastGood)]
    /\ writtenBytes' = LastGood
    /\ syncedBytes' = Smaller(syncedBytes, LastGood)
    /\ validBytes' = LastGood
    /\ mu' = "none"
    /\ Goto(p, "idle")
    /\ UNCHANGED <<syncMu, handles, entryCount, rec, covered, appends, acked>>

-----------------------------------------------------------------------------
(* syncThrough, as Append calls it (mu not held).                          *)

Return(p, ok) ==
    /\ acked' = IF ok THEN acked \cup {rec[p]} ELSE acked
    /\ rec' = [rec EXCEPT ![p] = NoRec]
    /\ Goto(p, "idle")

(* syncThrough: another appender's fsync already covered us.               *)
SyncCovered(p) ==
    /\ pc[p] = "sync"
    /\ syncMu = "none"
    /\ syncedBytes >= rec[p].at
    /\ Return(p, TRUE)
    /\ UNCHANGED <<locks, handles, file, disk, offsets, covered, appends>>

(* syncThrough: snapshot the written offset and start the fsync.           *)
SyncStart(p) ==
    /\ pc[p] = "sync"
    /\ syncMu = "none"
    /\ syncedBytes < rec[p].at
    /\ syncMu' = p
    /\ covered' = [covered EXCEPT ![p] = writtenBytes]
    /\ Goto(p, "fsync")
    /\ UNCHANGED <<mu, handles, file, disk, offsets, rec, appends, acked>>

(* What an fsync of f makes durable: at least everything written when it   *)
(* started, and perhaps something written since.                           *)
Fsync(f, low) ==
    \E k \in low .. Len(file[f]) :
        disk' = [disk EXCEPT ![f] = IF k > @ THEN k ELSE @]

(* Variant: the written offset is read after the fsync.                    *)
AdvanceLate(p) ==
    IF writtenBytes > syncedBytes
    THEN syncedBytes' = writtenBytes /\ validBytes' = writtenBytes
    ELSE UNCHANGED <<syncedBytes, validBytes>>

(* syncThrough credits the fsync with the offset read before it.           *)
Advance(p) ==
    IF covered[p] > syncedBytes
    THEN syncedBytes' = covered[p] /\ validBytes' = covered[p]
    ELSE UNCHANGED <<syncedBytes, validBytes>>

(* The fsync of whatever file walFile is now returns.                      *)
SyncDone(p) ==
    /\ pc[p] = "fsync"
    /\ walFile \in open
    /\ Fsync(walFile, covered[p])
    /\ Advance(p)
    /\ syncMu' = "none"
    /\ Return(p, TRUE)
    /\ UNCHANGED <<mu, handles, file, writtenBytes, entryCount, covered,
                   appends>>

(* Variant: the error path keeps syncMu.                                   *)
SyncErrorKeepsLock(p) ==
    /\ pc[p] = "fsync"
    /\ SyncFails \/ walFile \notin open
    /\ Return(p, FALSE)
    /\ UNCHANGED <<locks, handles, file, disk, offsets, covered, appends>>

(* The fsync fails, or the handle was closed by a rotation: Append returns *)
(* an error.                                                               *)
SyncError(p) ==
    /\ pc[p] = "fsync"
    /\ SyncFails \/ walFile \notin open
    /\ syncMu' = "none"
    /\ Return(p, FALSE)
    /\ UNCHANGED <<mu, handles, file, disk, offsets, covered, appends>>

-----------------------------------------------------------------------------
(* Rotate, called by the sealer.                                           *)

Sealer(l, m) == pc["sealer"] = l /\ Goto("sealer", m)

(* Rotate with something to seal takes mu.                                 *)
RotateLock ==
    /\ Sealer("idle", "flush")
    /\ mu = "none"
    /\ entryCount > 0
    /\ current < MaxFiles
    /\ mu' = "sealer"
    /\ UNCHANGED <<syncMu, handles, file, disk, offsets, rec, covered, appends,
                   acked>>

(* flushBeforeHandoff: syncThrough of everything written.                  *)
FlushStart ==
    /\ pc["sealer"] = "flush"
    /\ syncMu = "none"
    /\ IF syncedBytes >= writtenBytes
       THEN /\ Goto("sealer", "close")
            /\ UNCHANGED <<syncMu, covered>>
       ELSE /\ Goto("sealer", "flushing")
            /\ syncMu' = "sealer"
            /\ covered' = [covered EXCEPT !["sealer"] = writtenBytes]
    /\ UNCHANGED <<mu, handles, file, disk, offsets, rec, appends, acked>>

FlushDone ==
    /\ Sealer("flushing", "close")
    /\ Fsync(walFile, covered["sealer"])
    /\ Advance("sealer")
    /\ syncMu' = "none"
    /\ UNCHANGED <<mu, handles, file, writtenBytes, entryCount, rec, covered,
                   appends, acked>>

(* The final fsync fails: an error is logged and the rotation goes on.     *)
FlushError ==
    /\ FlushFails
    /\ Sealer("flushing", "close")
    /\ syncMu' = "none"
    /\ UNCHANGED <<mu, handles, file, disk, offsets, rec, covered, appends,
                   acked>>

(* rotate closes the handle and renames the file.                          *)
RotateClose ==
    /\ Sealer("close", "rename")
    /\ open' = open \ {walFile}
    /\ UNCHANGED <<locks, current, walFile, file, disk, offsets, rec, covered,
                   appends, acked>>

(* Variant: ensureWAL does not count the last record it finds.             *)
SetOffsetsOffByOne(n) ==
    /\ entryCount' = n - 1
    /\ validBytes' = n - 1
    /\ writtenBytes' = n - 1
    /\ syncedBytes' = n - 1

(* ensureWAL: the counters of a file that holds n records.                 *)
SetOffsets(n) ==
    /\ entryCount' = n
    /\ validBytes' = n
    /\ writtenBytes' = n
    /\ syncedBytes' = n

(* ensureWAL on a new hour: setSyncOffsets(0) under syncMu ...             *)
OpenReset ==
    /\ Sealer("rename", "open")
    /\ syncMu = "none"
    /\ SetOffsets(0)
    /\ UNCHANGED <<locks, handles, file, disk, rec, covered, appends, acked>>

(* ... and then, without it, the new handle; Rotate releases mu.           *)
OpenDone ==
    /\ Sealer("open", "idle")
    /\ current' = current + 1
    /\ walFile' = current + 1
    /\ open' = open \cup {current + 1}
    /\ mu' = "none"
    /\ UNCHANGED <<syncMu, file, disk, offsets, rec, covered, appends, acked>>

-----------------------------------------------------------------------------
AppendStep(p) ==
    \/ AppendWrite(p) \/ AppendWriteFails(p) \/ Rollback(p)
    \/ SyncCovered(p) \/ SyncStart(p) \/ SyncDone(p) \/ SyncError(p)

RotateStep ==
    \/ FlushStart \/ FlushDone \/ FlushError \/ RotateClose \/ OpenReset
    \/ OpenDone

Next ==
    \/ \E p \in Appenders : AppendLock(p) \/ AppendStep(p)
    \/ RotateLock \/ RotateStep

Spec == Init /\ [][Next]_vars

(* A goroutine that holds no lock someone else has goes on, and Go's       *)
(* mutexes starve nobody.  Nobody is obliged to call Append or Rotate.     *)
Fairness ==
    /\ \A p \in Appenders : SF_vars(AppendStep(p))
    /\ SF_vars(RotateStep)

FairSpec == Spec /\ Fairness

-----------------------------------------------------------------------------
TypeOK ==
    /\ mu \in Procs \cup {"none"} /\ syncMu \in Procs \cup {"none"}
    /\ current \in Files /\ walFile \in Files /\ open \subseteq Files
    /\ file \in [Files -> Seq(Nat)]
    /\ disk \in [Files -> Nat]
    /\ writtenBytes \in Nat /\ syncedBytes \in Nat /\ validBytes \in Nat
    /\ entryCount \in Nat
    /\ pc \in [Procs -> AppenderPcs \cup SealerPcs]
    /\ rec \in [Appenders -> Records]
    /\ covered \in [Procs -> Nat]
    /\ appends \in Nat
    /\ acked \subseteq Records

(* syncThrough's contract: Append does not return without error until the  *)
(* caller's own bytes are on disk, whoever's fsync covered them and        *)
(* whatever file the writer has moved on to.                               *)
AckedOnDisk == \A r \in acked : r.at <= disk[r.f]

(* An acknowledged record stays where its ID says it is: neither the       *)
(* rollback of another append nor a rotation overwrites or cuts it.        *)
AckedInPlace ==
    \A r \in acked : r.at <= Len(file[r.f]) /\ file[r.f][r.at] = r.n

(* syncThrough: validBytes never claims more than was fsynced, whenever    *)
(* the writer is between two operations.                                   *)
ValidBytesOnDisk == mu = "none" => validBytes <= disk[walFile]

(* The next append's position is the number of records in the file, so IDs *)
(* have no gap and no repetition, also after a rollback.                   *)
PositionsMatch ==
    mu = "none" => /\ entryCount = Len(file[walFile])
                   /\ writtenBytes = Len(file[walFile])

(* Every Append and every Rotate that has started returns: mu and syncMu   *)
(* are always taken in that order.                                         *)
CallsReturn == \A p \in Procs : pc[p] # "idle" ~> pc[p] = "idle"

=============================================================================
