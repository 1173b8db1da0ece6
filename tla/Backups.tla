------------------------------ MODULE Backups -------------------------------
(***************************************************************************)
(* Backup and restore of the SQLite database (internal/backup), step by    *)
(* step: backups to one destination file run concurrently, a restore       *)
(* replaces the database by that file, any step may fail and the process   *)
(* may die after any step.  The database is not written meanwhile.         *)
(***************************************************************************)
EXTENDS Integers, FiniteSets

CONSTANTS BackupRuns,    \* backup commands
          RestoreRuns,   \* restore commands, one at a time
          MaxBackupSeconds     \* seconds that name the safety copies

ASSUME CommandsDiffer == BackupRuns \cap RestoreRuns = {} /\ MaxBackupSeconds \in Nat

VARIABLES
  main,     \* the database file: "all" data, "stale" without what its WAL holds,
            \* "backup", or "partial"
  wal,      \* the -wal file with the rest of the data exists
  dest,     \* the backup file: "none", "partial" or "whole"
  safety,   \* second -> safety copy: "none", "partial", "stale", "all" or "backup"
  command,  \* command -> where it is
  bkSecond, \* the wall clock, in seconds
  reported, \* a backup has been reported complete and not been replaced since
  crossed, \* a backup ran at the time of another or of a restore
  restored, \* seconds in which a restore began
  twice,    \* two restores began in one second
  leftBehind \* a -wal file could not be removed
backupVars == <<main, wal, dest, safety, command, bkSecond, reported, crossed, restored, twice,
                leftBehind>>

Commands == BackupRuns \cup RestoreRuns
Going(r) == command[r] \notin {"ready", "ended"}
Step(r, from, to) == command[r] = from /\ command' = [command EXCEPT ![r] = to]
Data == IF main = "stale" /\ wal THEN "all" ELSE main

BackupsInit ==
  /\ \/ main = "stale" /\ wal = TRUE
     \/ main = "all" /\ wal = FALSE
  /\ dest \in {"none", "whole"} /\ reported = (dest = "whole")
  /\ safety = [s \in 0..MaxBackupSeconds |-> "none"]
  /\ command = [r \in Commands |-> "ready"]
  /\ bkSecond = 0 /\ crossed = FALSE /\ restored = {} /\ twice = FALSE
  /\ leftBehind = FALSE

----------------------------------------------------------------------------
\* Backup refuses an existing destination; BackupForce removes it first.
BackupForce(r) ==
  /\ Step(r, "ready", "forced")
  /\ dest' = "none" /\ reported' = FALSE
  /\ crossed' = (crossed \/ \E q \in Commands : Going(q))
  /\ UNCHANGED <<main, wal, safety, bkSecond, restored, twice, leftBehind>>
BackupStat(r) ==
  /\ command[r] \in {"ready", "forced"}
  /\ command' = [command EXCEPT ![r] = IF dest = "none" THEN "vacuum" ELSE "ended"]
  /\ crossed' = (crossed \/ \E q \in Commands \ {r} : Going(q))
  /\ UNCHANGED <<main, wal, dest, safety, bkSecond, reported, restored, twice, leftBehind>>
\* VACUUM INTO does not overwrite a file; a failure removes the destination.
BackupVacuum(r) ==
  /\ \/ Step(r, "vacuum", "writing") /\ dest = "none" /\ dest' = "partial" /\ UNCHANGED reported
     \/ Step(r, "vacuum", "ended") /\ dest' = "none" /\ reported' = FALSE
     \/ Step(r, "writing", "verify") /\ dest' = "whole" /\ UNCHANGED reported
     \/ Step(r, "writing", "ended") /\ dest' = "none" /\ reported' = FALSE
  /\ UNCHANGED <<main, wal, safety, bkSecond, crossed, restored, twice, leftBehind>>
BackupVerify(r) ==
  /\ Step(r, "verify", "ended")
  /\ \/ dest = "whole" /\ reported' = TRUE /\ UNCHANGED dest
     \/ dest' = "none" /\ reported' = FALSE
  /\ UNCHANGED <<main, wal, safety, bkSecond, crossed, restored, twice, leftBehind>>

----------------------------------------------------------------------------
\* verifyBackup of the source, then the start of the safety copy.
RestoreBegin(r) ==
  /\ \A q \in RestoreRuns : ~Going(q)
  /\ command[r] = "ready"
  /\ \/ dest = "whole" /\ command' = [command EXCEPT ![r] = "snapshot"]
     \/ command' = [command EXCEPT ![r] = "ended"]
  /\ restored' = restored \cup {bkSecond} /\ twice' = (twice \/ bkSecond \in restored)
  /\ crossed' = (crossed \/ \E q \in BackupRuns : Going(q))
  /\ UNCHANGED <<main, wal, dest, safety, bkSecond, reported, leftBehind>>

\* createSafetyBackup: VACUUM INTO, or else a copy of the file set.
SetSafety(what) == safety' = [safety EXCEPT ![bkSecond] = what]
createSafetyBackup(r) ==
  /\ \/ Step(r, "snapshot", "vacuuming") /\ safety[bkSecond] = "none" /\ SetSafety("partial")
     \/ Step(r, "snapshot", "copying") /\ SetSafety("partial")
     \/ Step(r, "vacuuming", "saved") /\ SetSafety(Data)
     \/ Step(r, "vacuuming", "copying") /\ UNCHANGED safety
  /\ UNCHANGED <<main, wal, dest, bkSecond, reported, crossed, restored, twice, leftBehind>>
\* Mutant: the copy leaves the -wal file out.
copyDatabaseSetMainOnly(r) ==
  /\ \/ Step(r, "copying", "saved") /\ SetSafety(main)
     \/ Step(r, "copying", "ended") /\ UNCHANGED safety
  /\ UNCHANGED <<main, wal, dest, bkSecond, reported, crossed, restored, twice, leftBehind>>
copyDatabaseSet(r) ==
  /\ \/ Step(r, "copying", "saved") /\ SetSafety(Data)
     \/ Step(r, "copying", "ended") /\ UNCHANGED safety
  /\ UNCHANGED <<main, wal, dest, bkSecond, reported, crossed, restored, twice, leftBehind>>

\* The sidecars go, the error of a failed removal being ignored; then the backup,
\* verified before, is copied beside the database and renamed.
RemoveSidecars(r) ==
  /\ Step(r, "saved", "staging")
  /\ wal' \in {FALSE, wal} /\ leftBehind' = (leftBehind \/ wal')
  /\ UNCHANGED <<main, dest, safety, bkSecond, reported, crossed, restored, twice>>
copyFileAtomic(r) ==
  /\ \/ dest # "none" /\ Step(r, "staging", dest) /\ UNCHANGED main
     \/ Step(r, "whole", "ended") /\ main' = "backup"
     \/ Step(r, "partial", "ended") /\ main' = "partial"
     \/ /\ command[r] \in {"staging", "whole", "partial"}
        /\ command' = [command EXCEPT ![r] = "ended"]
        /\ UNCHANGED main
  /\ UNCHANGED <<wal, dest, safety, bkSecond, reported, crossed, restored, twice, leftBehind>>

Dies(r) ==
  /\ Going(r) /\ command' = [command EXCEPT ![r] = "ended"]
  /\ UNCHANGED <<main, wal, dest, safety, bkSecond, reported, crossed, restored, twice, leftBehind>>
NextSecond ==
  /\ bkSecond < MaxBackupSeconds /\ bkSecond' = bkSecond + 1
  /\ \A r \in RestoreRuns : command[r] \notin {"snapshot", "vacuuming", "copying"} \* the name is taken
  /\ UNCHANGED <<main, wal, dest, safety, command, reported, crossed, restored, twice, leftBehind>>

BackupsNext ==
  \/ \E r \in BackupRuns : BackupForce(r) \/ BackupStat(r) \/ BackupVacuum(r) \/ BackupVerify(r)
  \/ \E r \in RestoreRuns :
       \/ RestoreBegin(r) \/ createSafetyBackup(r) \/ copyDatabaseSet(r)
       \/ RemoveSidecars(r) \/ copyFileAtomic(r)
  \/ \E r \in Commands : Dies(r)
  \/ NextSecond

\* Whatever step fails or is the last: the restored file never meets the WAL of
\* the database it replaced, unless that WAL could not be removed; the data of that database is whole, in place or in a
\* safety copy, unless two restores share a second and so a safety copy; unless a
\* backup ran at the same time, a backup reported complete stays a whole file and
\* the database never is a partial one (restore.go:36, 64, 93, backup.go:24).
RestoreSafe ==
  /\ main = "backup" /\ wal => leftBehind
  /\ Data = "all" \/ (\E s \in 0..MaxBackupSeconds : safety[s] = "all") \/ twice
  /\ ~crossed => (reported => dest = "whole") /\ main # "partial"
=============================================================================
