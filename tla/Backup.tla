------------------------------- MODULE Backup -------------------------------
(* Backup and restore: internal/backup, internal/storage/backup.go and        *)
(* internal/server/backup.go.                                                 *)
(*                                                                            *)
(* A scheduled run writes an archive of the live database, verifies it and    *)
(* rotates the older ones.  The web console exports, verifies and restores,   *)
(* one operation at a time, while the command line may restore as well, into  *)
(* the same directory.  The process may end between any two file operations,  *)
(* an administrator may lose the role while an operation runs, and an archive *)
(* may be damaged on its way to the disk.  The database is its live sessions; *)
(* a fault is in the archive (format, digests, encryption, size), in the      *)
(* snapshot (schema, integrity) or in the keys of its credentials.  Archives  *)
(* are named by the time they were begun at, which a clock that is set back   *)
(* may repeat.                                                                *)
EXTENDS Naturals, FiniteSets

CONSTANTS
  Keep, LastStamp,
  BrowserSessions,
  MaxBackupEvents   \* bound: runs, operations, logins, ends of the process and the like together

VARIABLES
  liveSessions, \* the sessions in the database
  archives,     \* the scheduled archives: [stamp, fault, verified, sessions]
  run,          \* the scheduled run
  web, cli,     \* the operation of the console and the restore of the command line
  target,       \* restore-ready, or the directory the command line was given, and who restored it
  admin,        \* the console's user is an administrator
  everKept,     \* history: some archive was verified
  backupLeft

backupVars == <<liveSessions, archives, run, web, cli, target, admin, everKept, backupLeft>>

Free == [phase |-> "free"]
NoTarget == [there |-> FALSE]
Faults == {"none", "archive", "snapshot", "keys"}
Snapshots == [fault : Faults, sessions : SUBSET BrowserSessions]

BackupInit ==
  /\ liveSessions = {} /\ archives = {}
  /\ run = Free /\ web = Free /\ cli = Free
  /\ target = NoTarget /\ admin = TRUE /\ everKept = FALSE
  /\ backupLeft = MaxBackupEvents

\* Each of the three checks of `prepare` sees the faults of its kind.
extractArchive(what) == what.fault # "archive"
ValidateSnapshot(what) == what.fault # "snapshot"
verifyCredentials(what) == what.fault # "keys"
prepare(what) == extractArchive(what) /\ ValidateSnapshot(what) /\ verifyCredentials(what)

oneMore == backupLeft > 0 /\ backupLeft' = backupLeft - 1
-----------------------------------------------------------------------------
(* Schedule.Run.                                                              *)

\* The name must be vacant; SQLite's backup starts over when the database changes, so the copy is of one moment.
Create(stamp) ==
  /\ run.phase = "free" /\ oneMore
  /\ \A a \in archives : a.stamp # stamp
  /\ run' = [phase |-> "created", stamp |-> stamp, sessions |-> liveSessions]
  /\ UNCHANGED <<liveSessions, archives, web, cli, target, admin, everKept>>

\* The archive appears under its name, whole or not.
publishArchive(fault) ==
  /\ run.phase = "created"
  /\ IF \E a \in archives : a.stamp = run.stamp
     THEN run' = Free /\ UNCHANGED archives
     ELSE /\ archives' = archives \cup {[stamp |-> run.stamp, fault |-> fault, verified |-> FALSE, sessions |-> run.sessions]}
          /\ run' = [phase |-> "published", stamp |-> run.stamp]
  /\ UNCHANGED <<liveSessions, web, cli, target, admin, everKept, backupLeft>>

newer(s, stamps) == Cardinality({t \in stamps : t > s})

mRotated(stamps, own) == {s \in stamps : newer(s, stamps) >= Keep}

\* All but the newest Keep - 1 of the others, by their names.
rotated(stamps, own) == {s \in stamps \ {own} : newer(s, stamps \ {own}) >= Keep - 1}

\* Nothing is rotated unless the new archive can be restored; a damaged one is removed.
verifyArchive ==
  /\ run.phase = "published"
  /\ \E mine \in {a \in archives : a.stamp = run.stamp} :
       IF prepare(mine)
       THEN /\ archives' = (archives \ {mine}) \cup {[mine EXCEPT !.verified = TRUE]}
            /\ everKept' = TRUE
            /\ run' = [phase |-> "rotating", stamp |-> run.stamp, remove |-> rotated({a.stamp : a \in archives}, run.stamp)]
       ELSE archives' = archives \ {mine} /\ run' = Free /\ UNCHANGED everKept
  /\ UNCHANGED <<liveSessions, web, cli, target, admin, backupLeft>>

\* The archives go one by one, the newest of them first.
rotate ==
  /\ run.phase = "rotating"
  /\ IF run.remove = {} THEN run' = Free /\ UNCHANGED archives
     ELSE \E s \in run.remove :
            /\ newer(s, run.remove) = 0
            /\ archives' = {a \in archives : a.stamp # s}
            /\ run' = [run EXCEPT !.remove = @ \ {s}]
  /\ UNCHANGED <<liveSessions, web, cli, target, admin, everKept, backupLeft>>

\* The run gives up: the copy, the encryption or the removal of an older archive fails.
runFails ==
  /\ run.phase \in {"created", "rotating"} /\ run' = Free
  /\ UNCHANGED <<liveSessions, archives, web, cli, target, admin, everKept, backupLeft>>

\* A restart forgets the run and the operations; a canceled run drops an archive that is not verified yet.
processEnds(gracefully) ==
  /\ oneMore
  /\ run # Free \/ web # Free
  /\ archives' = IF gracefully /\ run.phase = "published" THEN {a \in archives : a.stamp # run.stamp} ELSE archives
  /\ run' = Free /\ web' = Free
  /\ UNCHANGED <<liveSessions, cli, target, admin, everKept>>
-----------------------------------------------------------------------------
(* The console and the command line.                                          *)

beginExport ==
  /\ web = Free /\ admin /\ oneMore
  /\ web' = [phase |-> "export", sessions |-> liveSessions]
  /\ UNCHANGED <<liveSessions, archives, run, cli, target, admin, everKept>>

mSendExport ==
  /\ web.phase = "export"
  /\ web' = [phase |-> "sending"]
  /\ UNCHANGED <<liveSessions, archives, run, cli, target, admin, everKept, backupLeft>>

\* stillAdmin: the archive is sent to an administrator, and recorded first.
sendExport ==
  /\ web.phase = "export"
  /\ web' = IF admin THEN [phase |-> "sending"] ELSE Free
  /\ UNCHANGED <<liveSessions, archives, run, cli, target, admin, everKept, backupLeft>>

endExport ==
  /\ web.phase = "sending" /\ web' = Free
  /\ UNCHANGED <<liveSessions, archives, run, cli, target, admin, everKept, backupLeft>>

\* An uploaded archive is whatever was uploaded, of this instance or not.
upload(snapshot, restore) ==
  /\ web = Free /\ admin /\ oneMore
  /\ web' = [phase |-> "uploaded", what |-> snapshot, restore |-> restore]
  /\ UNCHANGED <<liveSessions, archives, run, cli, target, admin, everKept>>

\* Verify answers after stillAdmin, which is asked before and after; Restore needs a vacant target to begin.
operation(what, restore) ==
  IF restore /\ ~target.there THEN [phase |-> "staged", what |-> what] ELSE Free

checkUpload ==
  /\ web.phase = "uploaded"
  /\ web' = IF admin THEN operation(web.what, web.restore) ELSE Free
  /\ UNCHANGED <<liveSessions, archives, run, cli, target, admin, everKept, backupLeft>>

beginRestore(snapshot) ==
  /\ cli = Free /\ oneMore
  /\ cli' = operation(snapshot, TRUE)
  /\ UNCHANGED <<liveSessions, archives, run, web, target, admin, everKept>>

mRestored(what) == what
\* The private copy is upgraded and verified, and its sessions end.
restored(what) == [what EXCEPT !.sessions = {}]

\* The target appears in one step, unless it appeared meanwhile.
renameExclusive(what, by) ==
  target' = IF target.there THEN target ELSE [there |-> TRUE, by |-> by, data |-> restored(what)]

Restore(what, by) == IF prepare(what) THEN renameExclusive(what, by) ELSE UNCHANGED target

finishRestore ==
  \/ /\ web.phase = "staged" /\ Restore(web.what, "web") /\ web' = Free
     /\ UNCHANGED <<liveSessions, archives, run, cli, admin, everKept, backupLeft>>
  \/ /\ cli.phase = "staged" /\ Restore(cli.what, "cli") /\ cli' = Free
     /\ UNCHANGED <<liveSessions, archives, run, web, admin, everKept, backupLeft>>

\* The operator starts the restored instance, which takes the directory away.
takeTarget ==
  /\ target.there /\ oneMore /\ target' = NoTarget
  /\ UNCHANGED <<liveSessions, archives, run, web, cli, admin, everKept>>

sessionsChange ==
  /\ oneMore /\ liveSessions' \in SUBSET BrowserSessions /\ liveSessions' # liveSessions
  /\ UNCHANGED <<archives, run, web, cli, target, admin, everKept>>

roleChanges ==
  /\ oneMore /\ admin' = ~admin
  /\ UNCHANGED <<liveSessions, archives, run, web, cli, target, everKept>>

BackupNext ==
  \/ \E stamp \in 1..LastStamp : Create(stamp)
  \/ (\E fault \in Faults : publishArchive(fault)) \/ verifyArchive \/ rotate \/ runFails
  \/ \E gracefully \in BOOLEAN : processEnds(gracefully)
  \/ beginExport \/ sendExport \/ endExport
  \/ \E snapshot \in Snapshots : beginRestore(snapshot) \/ \E restore \in BOOLEAN : upload(snapshot, restore)
  \/ checkUpload \/ finishRestore \/ takeTarget
  \/ sessionsChange \/ roleChanges

BackupSpec == BackupInit /\ [][BackupNext]_backupVars
-----------------------------------------------------------------------------
(* Properties.                                                                *)

\* Once an archive was verified there is always a verified one, whatever damage, end of the process or
\* step of the clock falls into the creation, the verification and the rotation of the next ones.
GoodArchiveKept ==
  /\ everKept => \E a \in archives : a.verified /\ a.fault = "none"
  /\ \A a \in archives : a.verified => a.fault = "none"

\* What appears as a restored instance is whole and nobody is logged in to it, although the archive was
\* taken with open sessions and two restores may race for the directory.
RestoredWhole == target.there => target.data.fault = "none" /\ target.data.sessions = {}

\* A restored instance is never replaced by another restore: it stays until it is taken away.
RestoredOnce == [][target.there /\ target'.there => target' = target]_backupVars

\* An archive is sent only to an administrator, even when the role was lost while it was made.
ExportsToAdmins == [][web.phase = "export" /\ web'.phase = "sending" => admin]_backupVars

\* A good archive is always kept, a restored instance is whole and never replaced, and exports go to
\* administrators only.
BackupsSafe == []GoodArchiveKept /\ []RestoredWhole /\ RestoredOnce /\ ExportsToAdmins
=============================================================================
