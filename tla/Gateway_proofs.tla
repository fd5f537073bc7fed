--------------------------- MODULE Gateway_proofs ---------------------------
(* Proofs about Backup, OAuthLogins, ModelRuntime, CatalogCache, UsageCache   *)
(* and Exchange.                                                              *)
EXTENDS Backup, OAuthLogins, ModelRuntime, CatalogCache, UsageCache, Exchange, FiniteSetTheorems, TLAPS

-----------------------------------------------------------------------------
(* Backup.                                                                    *)

Archive == [stamp : Nat, fault : Faults, verified : BOOLEAN, sessions : SUBSET BrowserSessions]

RunType ==
  \/ run = Free
  \/ run \in [phase : {"created"}, stamp : Nat, sessions : SUBSET BrowserSessions]
  \/ run \in [phase : {"published"}, stamp : Nat]
  \/ run \in [phase : {"rotating"}, stamp : Nat, remove : SUBSET Nat]

Staged(operator) == operator.phase = "staged" => operator.what \in Snapshots

\* Types, and what is known of the operations of console and command line.
BackupTypes ==
  /\ archives \subseteq Archive
  /\ RunType
  /\ liveSessions \subseteq BrowserSessions
  /\ Staged(web) /\ Staged(cli)
  /\ web.phase = "uploaded" => web.what \in Snapshots

\* Names are unique, an archive that is published but not verified may go, and the one that the
\* others are rotated for stays.
RunOwnsArchive ==
  /\ \A a, b \in archives : a.stamp = b.stamp => a = b
  /\ run.phase = "published" => \A a \in archives : a.stamp = run.stamp => ~a.verified
  /\ run.phase = "rotating" =>
       /\ run.stamp \notin run.remove
       /\ \E a \in archives : a.stamp = run.stamp /\ a.verified

BackupInv == BackupTypes /\ RunOwnsArchive /\ GoodArchiveKept /\ RestoredWhole

LEMMA BackupInitOK == BackupInit => BackupInv
  BY DEF BackupInit, BackupInv, BackupTypes, RunType, Staged, RunOwnsArchive, GoodArchiveKept, RestoredWhole,
         Free, NoTarget

\* A snapshot that passes the three checks has no fault.
LEMMA Prepared == ASSUME NEW what, what.fault \in Faults, prepare(what) PROVE what.fault = "none"
  BY DEF Faults, prepare, extractArchive, ValidateSnapshot, verifyCredentials

LEMMA CreateOK == ASSUME BackupInv, NEW stamp \in 1..LastStamp, Create(stamp) PROVE BackupInv'
  BY DEF BackupInv, BackupTypes, RunType, Staged, RunOwnsArchive, GoodArchiveKept, RestoredWhole, Create

LEMMA PublishOK == ASSUME BackupInv, NEW f \in Faults, publishArchive(f) PROVE BackupInv'
  <1> USE DEF BackupInv, BackupTypes
  <1>1. run \in [phase : {"created"}, stamp : Nat, sessions : SUBSET BrowserSessions]
    BY DEF publishArchive, RunType, Free
  <1>2. UNCHANGED <<liveSessions, web, cli, target, everKept>>
    BY DEF publishArchive
  <1>3. CASE \E a \in archives : a.stamp = run.stamp
    BY <1>2, <1>3 DEF publishArchive, RunType, Staged, RunOwnsArchive, GoodArchiveKept, RestoredWhole, Free
  <1>4. CASE \A a \in archives : a.stamp # run.stamp
    <2> DEFINE new == [stamp |-> run.stamp, fault |-> f, verified |-> FALSE, sessions |-> run.sessions]
    <2>1. new \in Archive /\ new.stamp = run.stamp /\ new.verified = FALSE
      BY <1>1 DEF Archive
    <2>2. archives' = archives \cup {new} /\ run' = [phase |-> "published", stamp |-> run.stamp]
      BY <1>4 DEF publishArchive
    <2>3. run'.phase = "published" /\ run'.stamp = run.stamp /\ run' \in [phase : {"published"}, stamp : Nat]
      BY <1>1, <2>2
    <2> HIDE DEF new
    <2>4. BackupTypes'
      BY <1>2, <2>1, <2>2, <2>3 DEF RunType, Staged
    <2>5. RunOwnsArchive'
      BY <1>4, <2>1, <2>2, <2>3 DEF RunOwnsArchive
    <2> QED
      BY <1>2, <2>1, <2>2, <2>4, <2>5 DEF GoodArchiveKept, RestoredWhole
  <1> QED
    BY <1>3, <1>4

LEMMA VerifiedArchive ==
  ASSUME NEW a \in Archive
  PROVE  /\ [a EXCEPT !.verified = TRUE] \in Archive
         /\ [a EXCEPT !.verified = TRUE].stamp = a.stamp
         /\ [a EXCEPT !.verified = TRUE].fault = a.fault
         /\ [a EXCEPT !.verified = TRUE].verified
  BY DEF Archive

LEMMA VerifyOK == ASSUME BackupInv, verifyArchive PROVE BackupInv'
  <1> DEFINE stamps == {a.stamp : a \in archives}
  <1> USE DEF BackupInv, BackupTypes
  <1>1. PICK mine \in archives :
          /\ mine.stamp = run.stamp
          /\ IF prepare(mine)
             THEN /\ archives' = (archives \ {mine}) \cup {[mine EXCEPT !.verified = TRUE]}
                  /\ everKept' = TRUE
                  /\ run' = [phase |-> "rotating", stamp |-> run.stamp, remove |-> rotated(stamps, run.stamp)]
             ELSE archives' = archives \ {mine} /\ run' = Free /\ UNCHANGED everKept
    BY DEF verifyArchive
  <1>2. run.phase = "published" /\ UNCHANGED <<liveSessions, web, cli, target, admin, backupLeft>>
    BY DEF verifyArchive
  <1>3. /\ mine.fault \in Faults /\ mine.stamp \in Nat
        /\ run.stamp \in Nat /\ stamps \subseteq Nat
        /\ ~mine.verified
    BY <1>1, <1>2 DEF RunType, RunOwnsArchive, Free, Archive
  <1>4. CASE prepare(mine)
    <2> DEFINE good == [mine EXCEPT !.verified = TRUE]
    <2>1. good \in Archive /\ good.verified /\ good.fault = "none" /\ good.stamp = run.stamp
      <3>1. mine.fault = "none"
        BY <1>3, <1>4, Prepared
      <3> QED
        BY ONLY <1>1, <3>1, VerifiedArchive, mine \in Archive
    <2>2. archives' = (archives \ {mine}) \cup {good} /\ everKept' = TRUE
      BY <1>1, <1>4
    <2> HIDE DEF good
    <2>3. run' = [phase |-> "rotating", stamp |-> run.stamp, remove |-> rotated(stamps, run.stamp)]
      BY <1>1, <1>4
    <2>4. rotated(stamps, run.stamp) \subseteq Nat \ {run.stamp}
      BY <1>3 DEF rotated
    <2>5. BackupTypes'
      BY <1>2, <1>3, <2>1, <2>2, <2>3, <2>4 DEF RunType, Staged
    <2>6. RunOwnsArchive' /\ GoodArchiveKept'
      BY <1>1, <1>3, <2>1, <2>2, <2>3, <2>4 DEF RunOwnsArchive, GoodArchiveKept
    <2> QED
      BY <1>2, <2>5, <2>6 DEF RestoredWhole
  <1>5. CASE ~prepare(mine)
    <2>1. archives' = archives \ {mine} /\ run' = Free /\ everKept' = everKept
      BY <1>1, <1>5
    <2> QED
      BY <1>2, <1>3, <2>1 DEF RunOwnsArchive, GoodArchiveKept, RestoredWhole, RunType, Staged, Free
  <1> QED
    BY <1>4, <1>5

LEMMA RotateOK == ASSUME BackupInv, rotate PROVE BackupInv'
  <1> USE DEF BackupInv, BackupTypes, Archive
  <1>1. run \in [phase : {"rotating"}, stamp : Nat, remove : SUBSET Nat]
    BY DEF rotate, RunType, Free
  <1>2. CASE run.remove = {}
    BY <1>2 DEF rotate, RunOwnsArchive, GoodArchiveKept, RestoredWhole, RunType, Staged, Free
  <1>3. CASE run.remove # {}
    <2>1. PICK s \in run.remove :
            archives' = {a \in archives : a.stamp # s} /\ run' = [run EXCEPT !.remove = @ \ {s}]
      BY <1>3 DEF rotate
    <2>2. /\ run' \in [phase : {"rotating"}, stamp : Nat, remove : SUBSET Nat]
          /\ run'.stamp = run.stamp /\ run'.remove = run.remove \ {s}
      BY <1>1, <2>1
    <2>3. UNCHANGED <<liveSessions, web, cli, target, everKept>>
      BY DEF rotate
    <2> QED
      BY <1>1, <2>1, <2>2, <2>3 DEF RunOwnsArchive, GoodArchiveKept, RestoredWhole, RunType, Staged
  <1> QED
    BY <1>2, <1>3

\* What the end of the process takes away was not verified.
LEMMA ProcessEndsOK == ASSUME BackupInv, NEW gracefully \in BOOLEAN, processEnds(gracefully) PROVE BackupInv'
  BY DEF BackupInv, BackupTypes, Archive, RunType, Staged, RunOwnsArchive, GoodArchiveKept, RestoredWhole, processEnds, Free

LEMMA StagedOK ==
  ASSUME NEW what \in Snapshots, NEW restore \in BOOLEAN
  PROVE  operation(what, restore).phase # "uploaded" /\ Staged(operation(what, restore))
  BY DEF operation, Staged, Free

\* What a restore leaves in the target is whole.
LEMMA RestoreOK ==
  ASSUME RestoredWhole, NEW what \in Snapshots, NEW by, Restore(what, by)
  PROVE  RestoredWhole'
  <1>1. what.fault \in Faults
    BY DEF Snapshots
  <1>2. restored(what).fault = what.fault /\ restored(what).sessions = {}
    BY DEF Snapshots, restored
  <1> QED
    BY <1>1, <1>2, Prepared DEF Restore, renameExclusive, RestoredWhole

LEMMA FinishRestoreOK == ASSUME BackupInv, finishRestore PROVE BackupInv'
  <1> USE DEF BackupInv, BackupTypes, Staged, RunType, RunOwnsArchive, GoodArchiveKept, finishRestore, Free
  <1>1. CASE web.phase = "staged" /\ Restore(web.what, "web") /\ web' = Free
             /\ UNCHANGED <<liveSessions, archives, run, cli, admin, everKept, backupLeft>>
    BY <1>1, RestoreOK
  <1>2. CASE cli.phase = "staged" /\ Restore(cli.what, "cli") /\ cli' = Free
             /\ UNCHANGED <<liveSessions, archives, run, web, admin, everKept, backupLeft>>
    BY <1>2, RestoreOK
  <1> QED
    BY <1>1, <1>2

\* The steps that leave the archives, their run and the target alone.
OtherBackupSteps ==
  \/ runFails \/ beginExport \/ sendExport \/ endExport \/ checkUpload \/ takeTarget \/ sessionsChange \/ roleChanges
  \/ \E snapshot \in Snapshots : beginRestore(snapshot) \/ \E restore \in BOOLEAN : upload(snapshot, restore)

LEMMA OtherBackupStepsOK == ASSUME BackupInv, OtherBackupSteps PROVE BackupInv'
  <1> USE DEF BackupInv, BackupTypes, RunType, Staged, RunOwnsArchive, GoodArchiveKept, RestoredWhole
  <1>1. CASE runFails
    BY <1>1 DEF runFails, Free
  <1>2. CASE beginExport \/ sendExport \/ endExport
    BY <1>2 DEF beginExport, sendExport, endExport, Free
  <1>3. CASE takeTarget \/ sessionsChange \/ roleChanges
    BY <1>3 DEF takeTarget, sessionsChange, roleChanges, NoTarget
  <1>4. CASE checkUpload
    BY <1>4 DEF checkUpload, operation, Free
  <1>5. ASSUME NEW snapshot \in Snapshots, beginRestore(snapshot) PROVE BackupInv'
    BY <1>5 DEF beginRestore, operation, Free
  <1>6. ASSUME NEW snapshot \in Snapshots, NEW restore \in BOOLEAN, upload(snapshot, restore) PROVE BackupInv'
    BY <1>6 DEF upload
  <1> QED
    BY <1>1, <1>2, <1>3, <1>4, <1>5, <1>6 DEF OtherBackupSteps

LEMMA BackupNextOK == BackupInv /\ [BackupNext]_backupVars => BackupInv'
  <1> SUFFICES ASSUME BackupInv, [BackupNext]_backupVars PROVE BackupInv'
    OBVIOUS
  <1>1. CASE UNCHANGED backupVars
    BY <1>1 DEF backupVars, BackupInv, BackupTypes, RunType, Staged, RunOwnsArchive, GoodArchiveKept, RestoredWhole
  <1>2. CASE BackupNext
    BY <1>2, CreateOK, PublishOK, VerifyOK, RotateOK, ProcessEndsOK, FinishRestoreOK, OtherBackupStepsOK
    DEF BackupNext, OtherBackupSteps
  <1> QED
    BY <1>1, <1>2

\* Names stay unique, only what was not verified or is older than a verified archive goes, and only what was
\* verified is restored: the invariant that keeps a good archive.
THEOREM BackupInvariance == BackupSpec => []BackupInv
  BY BackupInitOK, BackupNextOK, PTL DEF BackupSpec

\* A restored instance stays until it is taken away, and exports go to administrators only.
LEMMA BackupSteps ==
  ASSUME [BackupNext]_backupVars
  PROVE  /\ [target.there /\ target'.there => target' = target]_backupVars
         /\ [web.phase = "export" /\ web'.phase = "sending" => admin]_backupVars
  <1>1. CASE UNCHANGED backupVars
    BY <1>1 DEF backupVars
  <1>2. CASE BackupNext
    <2>1. target.there /\ target'.there => target' = target
      <3>1. CASE finishRestore
        BY <3>1 DEF finishRestore, Restore, renameExclusive
      <3>2. CASE takeTarget
        BY <3>2 DEF takeTarget, NoTarget
      <3>3. CASE verifyArchive \/ rotate
        BY <3>3 DEF verifyArchive, rotate
      <3> QED
        BY <1>2, <3>1, <3>2, <3>3
        DEF BackupNext, Create, publishArchive, runFails, processEnds, beginExport, sendExport, endExport, beginRestore,
            upload, checkUpload, sessionsChange, roleChanges
    <2>2. web.phase = "export" /\ web'.phase = "sending" => admin
      BY <1>2 DEF BackupNext, Create, publishArchive, verifyArchive, rotate, runFails, processEnds, beginExport, sendExport,
                  endExport, beginRestore, upload, checkUpload, finishRestore, takeTarget, sessionsChange, roleChanges,
                  operation, Free
    <2> QED
      BY <2>1, <2>2
  <1> QED
    BY <1>1, <1>2

\* A good archive is always kept, a restored instance is whole and is never replaced, and an archive is sent
\* to administrators only, for any number of archives, sessions and restores.
THEOREM BackupsAreSafe == BackupSpec => BackupsSafe
  <1>1. BackupInv => GoodArchiveKept /\ RestoredWhole
    BY DEF BackupInv
  <1> QED
    BY <1>1, BackupInvariance, BackupSteps, PTL DEF BackupSpec, BackupsSafe, RestoredOnce, ExportsToAdmins
-----------------------------------------------------------------------------
(* Logins at a provider.                                                      *)

Entry == [on : {TRUE}, owner : Sessions, kind : Kinds, device : BOOLEAN, polling : BOOLEAN,
          wait : Nat, interval : Nat, expires : Nat]

OAuthTypes ==
  /\ logins = [s \in Logins |-> logins[s]]
  /\ \A s \in Logins : logins[s] = NoLogin \/ logins[s] \in Entry
  /\ loginCount \in 0..MaxLogins
  /\ calls \subseteq Logins \X {"begin", "poll", "exchange"} \X Entry
  /\ authorized \subseteq Logins /\ endedLogins \subseteq Logins
  /\ exchanges \in [Logins -> Nat]

\* Nothing is known of a login that was not begun.
NotBegun ==
  \A s \in Logins : s > loginCount =>
    /\ ~logins[s].on /\ s \notin endedLogins /\ s \notin authorized /\ exchanges[s] = 0
    /\ \A c \in calls : c[1] # s

\* What a call at the provider finds when it comes back: the entry it was made with, or nothing.
CallsKnow ==
  /\ \A c \in calls :
       /\ logins[c[1]].on => c[3].owner = logins[c[1]].owner
       /\ c[2] = "begin" /\ logins[c[1]].on => ~logins[c[1]].device
       /\ c[2] = "poll" /\ logins[c[1]].on => logins[c[1]].device /\ logins[c[1]].polling
       /\ c[2] = "exchange" => ~logins[c[1]].on /\ c[1] \notin endedLogins
  /\ \A c, d \in calls : c[1] = d[1] /\ c[2] = d[2] /\ c[2] # "exchange" => c = d

\* A login that was exchanged or authorized is over, and did not end otherwise.
OverOnce ==
  \A s \in Logins :
    /\ s \in authorized => ~logins[s].on /\ s \notin endedLogins
    /\ exchanges[s] > 0 => ~logins[s].on
    /\ exchanges[s] <= 1

OwnersApart == \A s, t \in Logins : logins[s].on /\ logins[t].on /\ logins[s].owner = logins[t].owner => s = t
EndedExpired == \A s \in Logins : logins[s].on /\ s \in endedLogins => logins[s].expires = 0
PendingFew == Cardinality(pendingLogins) <= PendingLimit

OAuthInv == OAuthTypes /\ NotBegun /\ CallsKnow /\ OverOnce /\ OwnersApart /\ EndedExpired /\ PendingFew

LEMMA PendingFinite == IsFiniteSet(pendingLogins) /\ Cardinality(pendingLogins) \in Nat
  <1>1. IsFiniteSet(Logins)
    BY OAuthAssumption, FS_Interval DEF Logins
  <1> QED
    BY <1>1, FS_Subset, FS_CardinalityType DEF pendingLogins

LEMMA OAuthInitOK == OAuthInit => OAuthInv
  <1> SUFFICES ASSUME OAuthInit PROVE OAuthInv
    OBVIOUS
  <1>1. pendingLogins = {}
    BY DEF OAuthInit, pendingLogins, NoLogin
  <1>2. PendingFew
    BY <1>1, FS_EmptySet, OAuthAssumption DEF PendingFew
  <1> QED
    BY <1>2, OAuthAssumption DEF OAuthInit, OAuthInv, OAuthTypes, NotBegun, CallsKnow, OverOnce, OwnersApart, EndedExpired,
       NoLogin, Logins

\* Fewer logins in progress stay few.
LEMMA FewerPending ==
  ASSUME PendingFew, pendingLogins' \subseteq pendingLogins
  PROVE  PendingFew'
  <1>1. Cardinality(pendingLogins') <= Cardinality(pendingLogins) /\ Cardinality(pendingLogins') \in Nat
    BY PendingFinite, FS_Subset, FS_CardinalityType
  <1> QED
    BY <1>1, PendingFinite, OAuthAssumption DEF PendingFew

\* One login ends, or what is known of it changes, but not whose it is.
LEMMA OneLoginOK ==
  ASSUME OAuthTypes, OwnersApart, PendingFew, NEW s \in Logins, NEW e, e = NoLogin \/ e \in Entry,
         e.on => logins[s].on /\ e.owner = logins[s].owner,
         logins' = [logins EXCEPT ![s] = e]
  PROVE  /\ logins' = [t \in Logins |-> logins'[t]]
         /\ logins'[s] = e /\ \A t \in Logins \ {s} : logins'[t] = logins[t]
         /\ \A t \in Logins : logins'[t] = NoLogin \/ logins'[t] \in Entry
         /\ OwnersApart' /\ PendingFew'
  <1>1. /\ logins' = [t \in Logins |-> logins'[t]]
        /\ logins'[s] = e /\ \A t \in Logins \ {s} : logins'[t] = logins[t]
    BY DEF OAuthTypes
  <1>2. \A t \in Logins : logins'[t] = NoLogin \/ logins'[t] \in Entry
    BY <1>1 DEF OAuthTypes
  <1>3. OwnersApart'
    BY <1>1 DEF OwnersApart
  <1>4. pendingLogins' \subseteq pendingLogins
    BY <1>1 DEF pendingLogins
  <1> QED
    BY <1>1, <1>2, <1>3, <1>4, FewerPending

\* A new login takes the place of what has expired and of its owner's.
LEMMA BeginOK ==
  ASSUME OAuthInv, NEW o \in Sessions, NEW k \in Kinds, BeginProviderWithProxy(o, k)
  PROVE  OAuthInv'
  <1> USE DEF OAuthInv, OAuthTypes, NoLogin
  <1> DEFINE fresh == [on |-> TRUE, owner |-> o, kind |-> k, device |-> FALSE, polling |-> FALSE, wait |-> 0,
                       interval |-> 0, expires |-> Lifetime]
             displaced == {s \in pendingLogins : logins[s].expires = 0 \/ logins[s].owner = o}
             new == loginCount + 1
  <1>1. /\ fresh \in Entry /\ fresh.on /\ fresh.owner = o /\ ~fresh.device /\ fresh.expires = Lifetime
    BY OAuthAssumption DEF Entry
  <1>2. /\ loginCount < MaxLogins
        /\ loginCount' = IF Cardinality(pendingLogins \ displaced) < PendingLimit THEN loginCount + 1 ELSE loginCount
        /\ logins' = [s \in Logins |-> IF s \in displaced THEN NoLogin
                                     ELSE IF loginCount < s /\ s <= loginCount' THEN fresh ELSE logins[s]]
        /\ endedLogins' = endedLogins \cup displaced
        /\ calls' = IF k = "device" /\ loginCount' > loginCount THEN calls \cup {<<loginCount + 1, "begin", fresh>>} ELSE calls
        /\ UNCHANGED <<authorized, exchanges>>
    <2>1. reserve(fresh)
      BY DEF BeginProviderWithProxy
    <2>2. displaced = {s \in pendingLogins : logins[s].expires = 0 \/ logins[s].owner = fresh.owner}
      BY <1>1
    <2>3. /\ calls' = IF k = "device" /\ loginCount' > loginCount THEN calls \cup {<<loginCount + 1, "begin", fresh>>} ELSE calls
          /\ UNCHANGED <<authorized, exchanges>>
      BY DEF BeginProviderWithProxy
    <2> HIDE DEF fresh, displaced
    <2> QED
      BY <2>1, <2>2, <2>3 DEF reserve
  <1> HIDE DEF fresh
  <1>3. /\ displaced \subseteq pendingLogins /\ pendingLogins \subseteq Logins
        /\ new \in Logins /\ new \notin pendingLogins /\ ~logins[new].on
    BY <1>2, OAuthAssumption DEF pendingLogins, NotBegun, Logins
  <1>4. CASE loginCount' = loginCount
    <2>1. calls' = calls /\ \A s \in Logins : logins'[s] = IF s \in displaced THEN NoLogin ELSE logins[s]
      BY <1>2, <1>4 DEF Logins
    <2>2. pendingLogins' \subseteq pendingLogins
      BY <2>1 DEF pendingLogins
    <2>3. OAuthTypes'
      BY <1>2, <1>3, <1>4, <2>1
    <2>4. NotBegun'
      BY <1>2, <1>3, <1>4, <2>1 DEF NotBegun, pendingLogins
    <2>5. CallsKnow'
      BY <1>2, <1>3, <2>1 DEF CallsKnow, pendingLogins
    <2>6. OverOnce' /\ OwnersApart' /\ EndedExpired'
      BY <1>2, <1>3, <2>1 DEF OverOnce, OwnersApart, EndedExpired, pendingLogins
    <2> QED
      BY <2>2, <2>3, <2>4, <2>5, <2>6, FewerPending
  <1>5. CASE loginCount' = new /\ Cardinality(pendingLogins \ displaced) < PendingLimit
    <2>1. \A s \in Logins : logins'[s] = IF s \in displaced THEN NoLogin ELSE IF s = new THEN fresh ELSE logins[s]
      BY <1>2, <1>5 DEF Logins
    <2> DEFINE call == <<new, "begin", fresh>>
    <2>2. calls' = calls \/ calls' = calls \cup {call}
      BY <1>2
    <2>9. call \in Logins \X {"begin", "poll", "exchange"} \X Entry /\ call[1] = new /\ call[2] = "begin" /\ call[3] = fresh
      BY <1>1, <1>3
    <2> HIDE DEF call
    <2>3. pendingLogins' = (pendingLogins \ displaced) \cup {new}
      BY <1>1, <1>3, <2>1 DEF pendingLogins
    <2>4. PendingFew'
      <3>1. IsFiniteSet(pendingLogins \ displaced)
        BY PendingFinite, FS_Subset
      <3>2. Cardinality(pendingLogins') = Cardinality(pendingLogins \ displaced) + 1
        BY <1>3, <2>3, <3>1, FS_AddElement
      <3> QED
        BY <1>5, <3>1, <3>2, FS_CardinalityType, OAuthAssumption DEF PendingFew
    <2>5. OAuthTypes'
      <3>1. loginCount' \in 0..MaxLogins
        BY <1>2, <1>5, OAuthAssumption
      <3>2. calls' \subseteq Logins \X {"begin", "poll", "exchange"} \X Entry
        BY <2>2, <2>9
      <3>3. logins' = [s \in Logins |-> logins'[s]]
        BY <1>2
      <3>4. \A s \in Logins : logins'[s] = NoLogin \/ logins'[s] \in Entry
        BY <1>1, <2>1
      <3> QED
        BY <1>2, <1>3, <3>1, <3>2, <3>3, <3>4
    <2>6. NotBegun'
      BY <1>2, <1>3, <1>5, <2>1, <2>2, <2>9 DEF NotBegun, pendingLogins, Logins
    <2>7. CallsKnow'
      <3>1. \A c \in calls : c[1] # new /\ c[1] \in Logins
        BY <1>3 DEF NotBegun, Logins
      <3>2. \A c \in calls : logins'[c[1]] = logins[c[1]] \/ (~logins'[c[1]].on /\ logins[c[1]].on)
        <4>1. \A s \in Logins \ {new} : logins'[s] = logins[s] \/ (~logins'[s].on /\ logins[s].on)
          BY <2>1 DEF pendingLogins
        <4> QED
          BY ONLY <3>1, <4>1
      <3>3. \A c \in calls : ~logins[c[1]].on => c[1] \notin endedLogins' \/ c[1] \in endedLogins
        BY <1>2 DEF pendingLogins
      <3>4. logins'[new] = fresh
        BY <1>3, <2>1
      <3>5. /\ \A c \in calls' :
                 /\ logins'[c[1]].on => c[3].owner = logins'[c[1]].owner
                 /\ c[2] = "begin" /\ logins'[c[1]].on => ~logins'[c[1]].device
                 /\ c[2] = "poll" /\ logins'[c[1]].on => logins'[c[1]].device /\ logins'[c[1]].polling
                 /\ c[2] = "exchange" => ~logins'[c[1]].on /\ c[1] \notin endedLogins'
        BY <1>1, <2>2, <2>9, <3>1, <3>2, <3>3, <3>4 DEF CallsKnow
      <3>6. \A c, d \in calls' : c[1] = d[1] /\ c[2] = d[2] /\ c[2] # "exchange" => c = d
        BY <2>2, <2>9, <3>1 DEF CallsKnow
      <3> QED
        BY <3>5, <3>6 DEF CallsKnow
    <2>8. OverOnce' /\ OwnersApart' /\ EndedExpired'
      BY <1>1, <1>2, <1>3, <1>5, <2>1 DEF OverOnce, OwnersApart, EndedExpired, NotBegun, pendingLogins, Logins
    <2> QED
      BY <2>4, <2>5, <2>6, <2>7, <2>8
  <1> QED
    BY <1>2, <1>4, <1>5

LEMMA NewEntries ==
  ASSUME NEW e \in Entry, NEW x \in Nat, NEW slow \in BOOLEAN
  PROVE  /\ [e EXCEPT !.device = TRUE, !.interval = PollTicks, !.wait = PollTicks, !.expires = x] \in Entry
         /\ [e EXCEPT !.device = TRUE, !.interval = PollTicks, !.wait = PollTicks, !.expires = x].owner = e.owner
         /\ [e EXCEPT !.polling = TRUE] \in Entry
         /\ [e EXCEPT !.polling = TRUE].owner = e.owner
         /\ [e EXCEPT !.polling = TRUE].polling
         /\ [e EXCEPT !.polling = TRUE].device = e.device
         /\ [e EXCEPT !.polling = TRUE].expires = e.expires
         /\ again(e, slow, x) \in Entry
         /\ again(e, slow, x).owner = e.owner
  BY OAuthAssumption DEF Entry, again

\* A login ends: it was in progress, so nothing came of it yet; a call of it finds it gone.
LEMMA LoginEndsOK ==
  ASSUME OAuthInv, NEW s \in Logins, logins[s].on, drop(s), endedLogins' = endedLogins \cup {s},
         UNCHANGED <<loginCount, calls, authorized, exchanges>>
  PROVE  OAuthInv'
  <1> USE DEF OAuthInv
  <1>1. NoLogin.on = FALSE
    BY DEF NoLogin
  <1>2. logins' = [logins EXCEPT ![s] = NoLogin]
    BY DEF drop
  <1>3. /\ logins' = [t \in Logins |-> logins'[t]]
        /\ logins'[s] = NoLogin /\ \A t \in Logins \ {s} : logins'[t] = logins[t]
        /\ \A t \in Logins : logins'[t] = NoLogin \/ logins'[t] \in Entry
        /\ OwnersApart' /\ PendingFew'
    BY <1>1, <1>2, OneLoginOK
  <1>4. \A t \in Logins : logins'[t] = logins[t] \/ ~logins'[t].on
    BY <1>1, <1>3
  <1>5. OAuthTypes'
    BY <1>3 DEF OAuthTypes
  <1>6. \A c \in calls : c[1] \in Logins
    BY DEF OAuthTypes
  <1>7. CallsKnow'
    BY <1>1, <1>3, <1>4, <1>6 DEF CallsKnow
  <1> QED
    BY <1>1, <1>3, <1>4, <1>5, <1>7 DEF NotBegun, OverOnce, EndedExpired

\* A call of a login in progress that is taken back, with what it leaves of the login.
LEMMA AnsweredOK ==
  ASSUME OAuthInv, NEW c \in calls, c[2] # "exchange", calls' = calls \ {c},
         NEW e, e = NoLogin \/ e \in Entry,
         e.on => /\ logins[c[1]].on /\ e.owner = logins[c[1]].owner
                 /\ c[1] \notin endedLogins,
         logins' = [logins EXCEPT ![c[1]] = e],
         \/ authorized' = authorized
         \/ authorized' = authorized \cup {c[1]} /\ e = NoLogin /\ logins[c[1]].on /\ c[1] \notin endedLogins,
         UNCHANGED <<loginCount, endedLogins, exchanges>>
  PROVE  OAuthInv'
  <1> USE DEF OAuthInv
  <1> DEFINE s == c[1]
  <1>1. s \in Logins /\ \A d \in calls : d[1] \in Logins /\ d[2] \in {"begin", "poll", "exchange"}
    BY DEF OAuthTypes
  <1> HIDE DEF s
  <1>2. NoLogin.on = FALSE
    BY DEF NoLogin
  <1>3. /\ logins' = [t \in Logins |-> logins'[t]]
        /\ logins'[s] = e /\ \A t \in Logins \ {s} : logins'[t] = logins[t]
        /\ \A t \in Logins : logins'[t] = NoLogin \/ logins'[t] \in Entry
        /\ OwnersApart' /\ PendingFew'
    BY <1>1, OneLoginOK DEF s
  <1>4. OAuthTypes'
    BY <1>1, <1>3 DEF OAuthTypes, s
  <1>5. CallsKnow'
    <2>1. e.on => \A d \in calls' : d[1] # s
      BY <1>1 DEF CallsKnow, s
    <2> QED
      BY <1>1, <1>2, <1>3, <2>1 DEF CallsKnow, s
  <1>6. NotBegun'
    BY <1>1, <1>2, <1>3 DEF NotBegun, s
  <1>7. OverOnce' /\ EndedExpired'
    BY <1>1, <1>2, <1>3 DEF OverOnce, EndedExpired, s
  <1> QED
    BY <1>3, <1>4, <1>5, <1>6, <1>7

LEMMA BeginDeviceOK ==
  ASSUME OAuthInv, NEW c \in calls, NEW ok \in BOOLEAN, NEW x \in 1..(Lifetime + 1), beginDevice(c, ok, x)
  PROVE  OAuthInv'
  <1> USE DEF OAuthInv
  <1>1. c[1] \in Logins /\ c[3] \in Entry /\ c[2] = "begin"
    BY DEF OAuthTypes, beginDevice
  <1>2. calls' = calls \ {c} /\ UNCHANGED <<loginCount, authorized, endedLogins, exchanges>>
    BY DEF beginDevice
  <1>3. CASE ~ok \/ ~liveLogin(c[1])
    <2>1. logins' = [logins EXCEPT ![c[1]] = NoLogin]
      BY <1>3 DEF beginDevice, drop
    <2>2. ~NoLogin.on
      BY DEF NoLogin
    <2> QED
      BY <1>1, <1>2, <2>1, <2>2, AnsweredOK
  <1>4. CASE ok /\ liveLogin(c[1])
    <2> DEFINE left == smaller(logins[c[1]].expires, x)
               e == [c[3] EXCEPT !.device = TRUE, !.interval = PollTicks, !.wait = PollTicks, !.expires = left]
    <2>1. logins[c[1]].on /\ logins[c[1]].expires > 0 /\ logins[c[1]] \in Entry
      BY <1>1, <1>4 DEF liveLogin, OAuthTypes, NoLogin
    <2>2. left \in Nat
      <3>1. x \in Nat
        BY OAuthAssumption
      <3>2. logins[c[1]].expires \in Nat
        BY <2>1 DEF Entry
      <3> QED
        BY <3>1, <3>2 DEF smaller
    <2> HIDE DEF left
    <2>3. e \in Entry /\ e.owner = c[3].owner
      BY <1>1, <2>2, NewEntries
    <2>4. logins' = [logins EXCEPT ![c[1]] = e]
      BY <1>4, Zenon DEF beginDevice, left
    <2> HIDE DEF e
    <2>5. e.owner = logins[c[1]].owner /\ c[1] \notin endedLogins
      BY <1>1, <2>1, <2>3 DEF CallsKnow, EndedExpired
    <2> QED
      BY <1>1, <1>2, <2>1, <2>3, <2>4, <2>5, AnsweredOK
  <1> QED
    BY <1>3, <1>4

\* A poll is asked of a login that nobody else polls.
LEMMA PollOK ==
  ASSUME OAuthInv, NEW o \in Sessions, NEW s \in Logins, PollDevice(o, s)
  PROVE  OAuthInv'
  <1> USE DEF OAuthInv
  <1>1. logins[s].on /\ UNCHANGED <<loginCount, authorized>>
    BY DEF PollDevice
  <1>2. CASE logins[s].expires = 0 \/ (logins[s].device /\ ~providerOn)
    BY <1>1, <1>2, LoginEndsOK DEF PollDevice
  <1>3. CASE ~(logins[s].expires = 0 \/ (logins[s].device /\ ~providerOn))
    <2> DEFINE e == [logins[s] EXCEPT !.polling = TRUE]
               call == <<s, "poll", e>>
    <2>1. /\ logins[s].device /\ ~logins[s].polling
          /\ logins' = [logins EXCEPT ![s].polling = TRUE]
          /\ calls' = calls \cup {call}
          /\ UNCHANGED <<endedLogins, exchanges>>
      BY <1>3, Zenon DEF PollDevice
    <2>2. logins[s] \in Entry /\ s \notin endedLogins
      BY <1>1, <1>3 DEF OAuthTypes, NoLogin, EndedExpired
    <2>3. e \in Entry /\ e.owner = logins[s].owner /\ e.polling /\ e.device = logins[s].device /\ e.expires = logins[s].expires
      BY ONLY <2>2, NewEntries, 0 \in Nat
    <2>4. logins' = [logins EXCEPT ![s] = e]
      BY <2>1
    <2>5. call \in Logins \X {"begin", "poll", "exchange"} \X Entry /\ call[1] = s /\ call[2] = "poll" /\ call[3] = e
      BY <2>3
    <2> HIDE DEF e, call
    <2>6. e.on
      BY <2>3 DEF Entry
    <2>7. /\ logins' = [t \in Logins |-> logins'[t]]
          /\ logins'[s] = e /\ \A t \in Logins \ {s} : logins'[t] = logins[t]
          /\ \A t \in Logins : logins'[t] = NoLogin \/ logins'[t] \in Entry
          /\ OwnersApart' /\ PendingFew'
      BY <1>1, <2>3, <2>4, OneLoginOK
    <2>8. OAuthTypes'
      BY <1>1, <2>1, <2>5, <2>7 DEF OAuthTypes
    <2>9. \A c \in calls : c[1] \in Logins /\ (c[1] = s => c[2] \notin {"poll", "begin", "exchange"})
      BY <1>1, <2>1 DEF CallsKnow, OAuthTypes
    <2>10. CallsKnow'
      BY <2>1, <2>3, <2>5, <2>6, <2>7, <2>9 DEF CallsKnow
    <2>11. NotBegun'
      BY <1>1, <2>1, <2>5, <2>7 DEF NotBegun
    <2>12. OverOnce' /\ EndedExpired'
      BY <1>1, <2>1, <2>2, <2>7 DEF OverOnce, EndedExpired
    <2> QED
      BY <2>7, <2>8, <2>10, <2>11, <2>12
  <1> QED
    BY <1>2, <1>3

LEMMA PollAnsweredOK ==
  ASSUME OAuthInv, NEW c \in calls, NEW answer, deviceAnswered(c, answer)
  PROVE  OAuthInv'
  <1> USE DEF OAuthInv
  <1>1. c[1] \in Logins /\ c[3] \in Entry /\ c[2] = "poll"
    BY DEF OAuthTypes, deviceAnswered
  <1>2. calls' = calls \ {c} /\ UNCHANGED <<loginCount, endedLogins, exchanges>>
    BY DEF deviceAnswered
  <1>3. ~NoLogin.on
    BY DEF NoLogin
  <1>4. CASE ~liveLogin(c[1])
    <2>1. logins' = [logins EXCEPT ![c[1]] = NoLogin] /\ authorized' = authorized
      BY <1>4 DEF deviceAnswered, drop
    <2> QED
      BY <1>1, <1>2, <1>3, <2>1, AnsweredOK
  <1>5. CASE liveLogin(c[1])
    <2>1. logins[c[1]].on /\ logins[c[1]].expires > 0 /\ logins[c[1]] \in Entry /\ c[1] \notin endedLogins
      BY <1>1, <1>5 DEF liveLogin, OAuthTypes, NoLogin, EndedExpired
    <2>2. CASE answer \in {"pending", "slow"}
      <3> DEFINE e == again(c[3], answer = "slow", logins[c[1]].expires)
      <3>1. logins' = [logins EXCEPT ![c[1]] = e] /\ authorized' = authorized
        BY <1>5, <2>2, Zenon DEF deviceAnswered
      <3>2. logins[c[1]].expires \in Nat
        BY <2>1 DEF Entry
      <3>3. (answer = "slow") \in BOOLEAN
        OBVIOUS
      <3>4. e \in Entry /\ e.owner = c[3].owner
        BY <1>1, <3>2, <3>3, NewEntries
      <3> HIDE DEF e
      <3>5. e.owner = logins[c[1]].owner
        BY <2>1, <3>4 DEF CallsKnow
      <3> QED
        BY <1>1, <1>2, <2>1, <3>1, <3>4, <3>5, AnsweredOK
    <2>3. CASE answer \notin {"pending", "slow"}
      <3>1. /\ logins' = [logins EXCEPT ![c[1]] = NoLogin]
            /\ authorized' = authorized \/ authorized' = authorized \cup {c[1]}
        BY <1>5, <2>3 DEF deviceAnswered, drop
      <3> QED
        BY <1>1, <1>2, <1>3, <2>1, <3>1, AnsweredOK
    <2> QED
      BY <2>2, <2>3
  <1> QED
    BY <1>4, <1>5

\* The code of a login in progress is exchanged after the login is over.
LEMMA FinishOK ==
  ASSUME OAuthInv, NEW o \in Sessions, NEW s \in Logins, NEW callback, Finish(o, s, callback)
  PROVE  OAuthInv'
  <1> USE DEF OAuthInv
  <1>1. logins[s].on /\ UNCHANGED <<loginCount, authorized>>
    BY DEF Finish
  <1>2. CASE logins[s].expires = 0 \/ ~providerOn
    BY <1>1, <1>2, LoginEndsOK DEF Finish
  <1>3. CASE ~(logins[s].expires = 0 \/ ~providerOn)
    <2> DEFINE call == <<s, "exchange", logins[s]>>
    <2>1. /\ logins' = [logins EXCEPT ![s] = NoLogin]
          /\ \/ calls' = calls /\ exchanges' = exchanges
             \/ calls' = calls \cup {call} /\ exchanges' = [exchanges EXCEPT ![s] = @ + 1]
          /\ UNCHANGED endedLogins
      BY <1>3 DEF Finish, drop
    <2>2. logins[s] \in Entry /\ s \notin endedLogins
      BY <1>1, <1>3 DEF OAuthTypes, NoLogin, EndedExpired
    <2>3. call \in Logins \X {"begin", "poll", "exchange"} \X Entry /\ call[1] = s /\ call[2] = "exchange"
      BY <2>2
    <2> HIDE DEF call
    <2>4. NoLogin.on = FALSE
      BY DEF NoLogin
    <2>5. /\ logins' = [t \in Logins |-> logins'[t]]
          /\ logins'[s] = NoLogin /\ \A t \in Logins \ {s} : logins'[t] = logins[t]
          /\ \A t \in Logins : logins'[t] = NoLogin \/ logins'[t] \in Entry
          /\ OwnersApart' /\ PendingFew'
      BY <2>1, <2>4, OneLoginOK
    <2>6. /\ exchanges' \in [Logins -> Nat] /\ exchanges'[s] <= 1
          /\ \A t \in Logins \ {s} : exchanges'[t] = exchanges[t]
      BY <1>1, <2>1 DEF OverOnce, OAuthTypes
    <2>7. OAuthTypes'
      BY <1>1, <2>1, <2>3, <2>5, <2>6 DEF OAuthTypes
    <2>8. CallsKnow'
      <3>1. \A c \in calls : c[1] \in Logins
        BY DEF OAuthTypes
      <3> QED
        BY <2>1, <2>2, <2>3, <2>4, <2>5, <3>1 DEF CallsKnow
    <2>9. NotBegun'
      BY <1>1, <2>1, <2>3, <2>4, <2>5, <2>6 DEF NotBegun
    <2>10. OverOnce' /\ EndedExpired'
      BY <1>1, <2>1, <2>4, <2>5, <2>6 DEF OverOnce, EndedExpired
    <2> QED
      BY <2>5, <2>7, <2>8, <2>9, <2>10
  <1> QED
    BY <1>2, <1>3

LEMMA ExchangedOK ==
  ASSUME OAuthInv, NEW c \in calls, NEW ok, exchanged(c, ok)
  PROVE  OAuthInv'
  <1> USE DEF OAuthInv
  <1>1. c[1] \in Logins /\ c[2] = "exchange"
    BY DEF OAuthTypes, exchanged
  <1>2. /\ calls' = calls \ {c} /\ UNCHANGED <<logins, loginCount, endedLogins, exchanges>>
        /\ authorized' = authorized \/ authorized' = authorized \cup {c[1]}
    BY DEF exchanged
  <1>3. pendingLogins' = pendingLogins
    BY <1>2 DEF pendingLogins
  <1>4. OAuthTypes' /\ PendingFew' /\ OwnersApart' /\ EndedExpired'
    BY <1>1, <1>2, <1>3 DEF OAuthTypes, PendingFew, OwnersApart, EndedExpired
  <1>5. CallsKnow' /\ NotBegun' /\ OverOnce'
    BY <1>1, <1>2 DEF CallsKnow, NotBegun, OverOnce
  <1> QED
    BY <1>4, <1>5

Nearer(e) == [e EXCEPT !.expires = nearer(@), !.wait = nearer(@)]

LEMMA NearerEntry ==
  ASSUME NEW e \in Entry
  PROVE  /\ Nearer(e) \in Entry /\ Nearer(e).owner = e.owner
         /\ Nearer(e).device = e.device /\ Nearer(e).polling = e.polling
         /\ Nearer(e).expires = nearer(e.expires) /\ Nearer(e).on
  <1>1. nearer(e.expires) \in Nat /\ nearer(e.wait) \in Nat
    BY DEF Entry, nearer
  <1>2. Nearer(e) = [e EXCEPT !.expires = nearer(e.expires), !.wait = nearer(e.wait)]
    BY DEF Nearer, Entry
  <1> QED
    BY <1>1, <1>2 DEF Entry

\* Time passes: a login that expires has ended.
LEMMA OAuthTickOK == ASSUME OAuthInv, oauthTick PROVE OAuthInv'
  <1> USE DEF OAuthInv
  <1>1. UNCHANGED <<loginCount, calls, authorized, exchanges>>
    BY DEF oauthTick
  <1>2. logins' = [s \in Logins |-> logins'[s]]
    BY DEF oauthTick
  <1>3. \A s \in Logins :
          IF ~logins[s].on THEN logins'[s] = logins[s]
          ELSE /\ logins'[s] \in Entry /\ logins'[s].owner = logins[s].owner /\ logins'[s].device = logins[s].device
               /\ logins'[s].polling = logins[s].polling /\ logins'[s].expires = nearer(logins[s].expires) /\ logins'[s].on
    <2> SUFFICES ASSUME NEW s \in Logins, logins[s].on
                 PROVE  /\ logins'[s] \in Entry /\ logins'[s].owner = logins[s].owner /\ logins'[s].device = logins[s].device
                        /\ logins'[s].polling = logins[s].polling /\ logins'[s].expires = nearer(logins[s].expires) /\ logins'[s].on
      BY DEF oauthTick
    <2>1. logins[s] \in Entry
      BY DEF OAuthTypes, NoLogin
    <2>2. logins'[s] = Nearer(logins[s])
      BY DEF oauthTick, Nearer
    <2> QED
      BY <2>1, <2>2, NearerEntry
  <1>4. endedLogins' = endedLogins \cup {s \in pendingLogins : logins[s].expires <= 1}
    BY DEF oauthTick
  <1>5. \A s \in Logins : logins[s].on => logins[s].expires \in Nat
    <2>1. \A s \in Logins : logins[s].on => logins[s] \in Entry
      BY DEF OAuthTypes, NoLogin
    <2>2. \A e \in Entry : e.expires \in Nat
      BY DEF Entry
    <2> QED
      BY ONLY <2>1, <2>2
  <1>6. pendingLogins' = pendingLogins
    BY <1>3 DEF pendingLogins
  <1>7. OAuthTypes' /\ PendingFew'
    BY <1>1, <1>2, <1>3, <1>4, <1>6 DEF OAuthTypes, PendingFew, pendingLogins
  <1>8. OwnersApart' /\ EndedExpired'
    BY <1>3, <1>4, <1>5 DEF OwnersApart, EndedExpired, pendingLogins, nearer
  <1>9. NotBegun' /\ OverOnce'
    BY <1>1, <1>3, <1>4 DEF NotBegun, OverOnce, pendingLogins
  <1>10. CallsKnow'
    <2>1. \A c \in calls : c[1] \in Logins
      BY DEF OAuthTypes
    <2> QED
      BY <1>1, <1>3, <1>4, <2>1 DEF CallsKnow, pendingLogins
  <1> QED
    BY <1>7, <1>8, <1>9, <1>10

LEMMA OAuthNextOK == OAuthInv /\ [OAuthNext]_oauthVars => OAuthInv'
  <1> SUFFICES ASSUME OAuthInv, [OAuthNext]_oauthVars PROVE OAuthInv'
    OBVIOUS
  <1>1. CASE UNCHANGED oauthVars \/ switchProvider
    <2>1. UNCHANGED <<logins, loginCount, calls, authorized, endedLogins, exchanges>>
      BY <1>1 DEF oauthVars, switchProvider
    <2> QED
      BY <2>1 DEF OAuthInv, OAuthTypes, NotBegun, CallsKnow, OverOnce, OwnersApart, EndedExpired, PendingFew, pendingLogins
  <1>2. ASSUME NEW o \in Sessions, NEW s \in Logins, Cancel(o, s) PROVE OAuthInv'
    BY <1>2, LoginEndsOK DEF Cancel
  <1> QED
    BY <1>1, <1>2, BeginOK, BeginDeviceOK, PollAnsweredOK, ExchangedOK, PollOK, FinishOK, OAuthTickOK DEF OAuthNext

\* What a login's late answers find: the invariant behind the next theorem.
THEOREM OAuthInvariance == OAuthSpec => []OAuthInv
  BY OAuthInitOK, OAuthNextOK, PTL DEF OAuthSpec

\* What a login has left and how long it has been in progress are together at most its Lifetime.
LifetimeKept ==
  \A s \in Logins :
    /\ ages[s] \in Nat
    /\ logins[s].on => ages[s] + logins[s].expires <= Lifetime
    /\ s > loginCount => ages[s] = 0

AgesTyped == ages = [s \in Logins |-> ages[s]]

LEMMA EntriesExpire ==
  ASSUME OAuthInv, NEW s \in Logins, logins[s].on
  PROVE  logins[s] \in Entry /\ logins[s].expires \in Nat
  <1>1. logins[s] \in Entry
    BY DEF OAuthInv, OAuthTypes, NoLogin
  <1> QED
    BY <1>1 DEF Entry

\* No time is added to a login that is in progress, and a login that begins has its Lifetime.
LEMMA NoTimeAdded ==
  ASSUME OAuthInv, LifetimeKept, UNCHANGED ages, loginCount' >= loginCount, loginCount' \in Nat,
         \A s \in Logins : logins'[s].on =>
            \/ logins[s].on /\ logins'[s].expires \in Nat /\ logins'[s].expires <= logins[s].expires
            \/ s > loginCount /\ logins'[s].expires = Lifetime
  PROVE  LifetimeKept'
  <1> SUFFICES ASSUME NEW s \in Logins
               PROVE  /\ ages[s] \in Nat
                      /\ logins'[s].on => ages[s] + logins'[s].expires <= Lifetime
                      /\ s > loginCount' => ages[s] = 0
    BY DEF LifetimeKept
  <1>1. /\ ages[s] \in Nat /\ s \in Nat /\ loginCount \in Nat /\ Lifetime \in Nat
        /\ (logins[s].on => ages[s] + logins[s].expires <= Lifetime /\ logins[s].expires \in Nat)
        /\ s > loginCount => ages[s] = 0
    BY OAuthAssumption, EntriesExpire DEF LifetimeKept, OAuthInv, OAuthTypes, Logins
  <1> QED
    BY <1>1

LEMMA LifetimeStep ==
  ASSUME OAuthInv, LifetimeKept, AgesTyped, [OAuthNext]_oauthVars
  PROVE  LifetimeKept' /\ AgesTyped'
  <1>1. /\ loginCount \in Nat /\ MaxLogins \in Nat /\ Lifetime \in Nat
        /\ (\A s \in Logins : logins[s].on => logins[s] \in Entry /\ logins[s].expires \in Nat)
        /\ \A c \in calls : c[1] \in Logins /\ c[3] \in Entry
        /\ NoLogin.on = FALSE
    <2>1. /\ loginCount \in Nat /\ MaxLogins \in Nat /\ Lifetime \in Nat
          /\ \A c \in calls : c[1] \in Logins /\ c[3] \in Entry
      BY OAuthAssumption DEF OAuthInv, OAuthTypes
    <2>2. NoLogin.on = FALSE
      BY DEF NoLogin
    <2> QED
      BY <2>1, <2>2, EntriesExpire
  <1>2. \A s \in Logins : (logins'[s] = logins[s] \/ ~logins'[s].on) =>
          (logins'[s].on => logins[s].on /\ logins'[s].expires \in Nat /\ logins'[s].expires <= logins[s].expires)
    BY <1>1
  <1>3. ASSUME UNCHANGED <<loginCount, ages>>, \A s \in Logins : logins'[s] = logins[s] \/ ~logins'[s].on
        PROVE  LifetimeKept' /\ AgesTyped'
    BY <1>1, <1>2, <1>3, NoTimeAdded DEF AgesTyped
  <1>4. CASE UNCHANGED oauthVars \/ switchProvider
    <2>1. UNCHANGED <<logins, loginCount, ages>>
      BY <1>4 DEF oauthVars, switchProvider
    <2> QED
      BY <1>3, <2>1
  <1>5. ASSUME NEW s \in Logins, drop(s) PROVE \A t \in Logins : logins'[t] = logins[t] \/ ~logins'[t].on
    BY <1>1, <1>5 DEF drop, OAuthInv, OAuthTypes
  <1>6. ASSUME NEW o \in Sessions, NEW s \in Logins, Cancel(o, s) PROVE LifetimeKept' /\ AgesTyped'
    BY <1>3, <1>5, <1>6 DEF Cancel
  <1>7. ASSUME NEW c \in calls, NEW ok \in BOOLEAN, exchanged(c, ok) PROVE LifetimeKept' /\ AgesTyped'
    BY <1>3, <1>7 DEF exchanged
  <1>8. ASSUME NEW o \in Sessions, NEW s \in Logins, NEW callback \in {"code", "refused"}, Finish(o, s, callback)
        PROVE  LifetimeKept' /\ AgesTyped'
    <2>1. drop(s) /\ UNCHANGED <<loginCount, ages>>
      BY <1>8 DEF Finish
    <2> QED
      BY <1>3, <1>5, <2>1
  <1>9. ASSUME UNCHANGED <<loginCount, ages>>, NEW s \in Logins, NEW e, logins' = [logins EXCEPT ![s] = e],
               e.on => logins[s].on /\ e.expires \in Nat /\ e.expires <= logins[s].expires
        PROVE  LifetimeKept' /\ AgesTyped'
    <2>1. logins'[s] = e /\ \A t \in Logins \ {s} : logins'[t] = logins[t]
      BY <1>9 DEF OAuthInv, OAuthTypes
    <2>2. \A t \in Logins : logins'[t].on => logins[t].on /\ logins'[t].expires \in Nat /\ logins'[t].expires <= logins[t].expires
      BY <1>1, <1>9, <2>1
    <2> QED
      BY <1>1, <1>9, <2>2, NoTimeAdded DEF AgesTyped
  <1>10. ASSUME NEW o \in Sessions, NEW s \in Logins, PollDevice(o, s) PROVE LifetimeKept' /\ AgesTyped'
    <2>1. UNCHANGED <<loginCount, ages>> /\ logins[s].on
      BY <1>10 DEF PollDevice
    <2>2. CASE drop(s)
      BY <1>3, <1>5, <2>1, <2>2
    <2>3. CASE logins' = [logins EXCEPT ![s].polling = TRUE]
      <3> DEFINE e == [logins[s] EXCEPT !.polling = TRUE]
      <3>1. logins[s] \in Entry /\ logins[s].expires \in Nat /\ logins' = [logins EXCEPT ![s] = e]
        BY <1>1, <2>1, <2>3
      <3>2. e.expires = logins[s].expires
        BY <3>1, 0 \in Nat, NewEntries
      <3>3. e.expires \in Nat /\ e.expires <= logins[s].expires
        BY ONLY <3>1, <3>2
      <3> HIDE DEF e
      <3> QED
        BY <1>9, <2>1, <3>1, <3>3
    <2> QED
      BY <1>10, <2>2, <2>3 DEF PollDevice
  <1>11. ASSUME NEW c \in calls, NEW answer, deviceAnswered(c, answer) PROVE LifetimeKept' /\ AgesTyped'
    <2>1. UNCHANGED <<loginCount, ages>>
      BY <1>11 DEF deviceAnswered
    <2>2. CASE drop(c[1])
      BY <1>1, <1>3, <1>5, <2>1, <2>2
    <2>3. CASE liveLogin(c[1]) /\ logins' = [logins EXCEPT ![c[1]] = again(c[3], answer = "slow", logins[c[1]].expires)]
      <3> DEFINE e == again(c[3], answer = "slow", logins[c[1]].expires)
      <3>1. logins[c[1]].on /\ logins[c[1]].expires \in Nat
        BY <1>1, <2>3 DEF liveLogin
      <3>2. e.expires = logins[c[1]].expires
        BY <1>1 DEF again, Entry
      <3>3. logins' = [logins EXCEPT ![c[1]] = e]
        BY <2>3
      <3> HIDE DEF e
      <3>4. e.expires \in Nat /\ e.expires <= logins[c[1]].expires /\ c[1] \in Logins
        BY <1>1, <3>1, <3>2
      <3> QED
        BY <1>9, <2>1, <3>1, <3>3, <3>4
    <2> QED
      BY <1>11, <2>2, <2>3 DEF deviceAnswered
  <1>12. ASSUME NEW c \in calls, NEW ok \in BOOLEAN, NEW x \in 1..(Lifetime + 1), beginDevice(c, ok, x)
         PROVE  LifetimeKept' /\ AgesTyped'
    <2>1. UNCHANGED <<loginCount, ages>>
      BY <1>12 DEF beginDevice
    <2>2. CASE drop(c[1])
      BY <1>1, <1>3, <1>5, <2>1, <2>2
    <2>3. CASE ~drop(c[1])
      <3> DEFINE left == smaller(logins[c[1]].expires, x)
                 e == [c[3] EXCEPT !.device = TRUE, !.interval = PollTicks, !.wait = PollTicks, !.expires = left]
      <3>1. logins[c[1]].on /\ logins[c[1]].expires \in Nat
        BY <1>1, <1>12, <2>3 DEF beginDevice, liveLogin
      <3>2. logins' = [logins EXCEPT ![c[1]] = e]
        BY <1>12, <2>3, Zenon DEF beginDevice, left
      <3>3. left \in Nat /\ left <= logins[c[1]].expires
        BY <1>1, <3>1 DEF smaller
      <3>4. e.expires = left
        BY <1>1 DEF Entry
      <3> HIDE DEF e, left
      <3> QED
        BY <1>1, <1>9, <2>1, <3>1, <3>2, <3>3, <3>4
    <2> QED
      BY <2>2, <2>3
  <1>13. ASSUME NEW o \in Sessions, NEW k \in Kinds, BeginProviderWithProxy(o, k) PROVE LifetimeKept' /\ AgesTyped'
    <2> DEFINE fresh == [on |-> TRUE, owner |-> o, kind |-> k, device |-> FALSE, polling |-> FALSE, wait |-> 0,
                         interval |-> 0, expires |-> Lifetime]
    <2>1. reserve(fresh) /\ UNCHANGED ages
      BY <1>13 DEF BeginProviderWithProxy
    <2>2. fresh.expires = Lifetime
      OBVIOUS
    <2> HIDE DEF fresh
    <2>3. loginCount' \in Nat /\ loginCount' >= loginCount
      BY <1>1, <2>1 DEF reserve
    <2>4. \A s \in Logins : logins'[s] = logins[s] \/ logins'[s] = NoLogin \/ (s > loginCount /\ logins'[s] = fresh)
      BY <2>1 DEF reserve
    <2>5. \A s \in Logins : logins'[s].on =>
            \/ logins[s].on /\ logins'[s].expires \in Nat /\ logins'[s].expires <= logins[s].expires
            \/ s > loginCount /\ logins'[s].expires = Lifetime
      BY <1>1, <2>2, <2>4
    <2> QED
      BY <2>1, <2>3, <2>5, NoTimeAdded DEF AgesTyped
  <1>14. CASE oauthTick
    <2>1. /\ UNCHANGED loginCount
          /\ ages' = [s \in Logins |-> IF ~logins[s].on THEN 0 ELSE IF liveLogin(s) THEN ages[s] + 1 ELSE ages[s]]
      BY <1>14 DEF oauthTick
    <2>2. \A s \in Logins : IF ~logins[s].on THEN logins'[s] = logins[s]
                             ELSE logins'[s].on /\ logins'[s].expires = nearer(logins[s].expires)
      <3> SUFFICES ASSUME NEW s \in Logins, logins[s].on
                   PROVE  logins'[s].on /\ logins'[s].expires = nearer(logins[s].expires)
        BY <1>14 DEF oauthTick
      <3>1. logins'[s] = Nearer(logins[s])
        BY <1>14 DEF oauthTick, Nearer
      <3> QED
        BY <1>1, <3>1, NearerEntry
    <2>3. LifetimeKept'
      <3> SUFFICES ASSUME NEW s \in Logins
                   PROVE  /\ ages'[s] \in Nat
                          /\ logins'[s].on => ages'[s] + logins'[s].expires <= Lifetime
                          /\ s > loginCount' => ages'[s] = 0
        BY DEF LifetimeKept
      <3>1. /\ ages[s] \in Nat /\ (logins[s].on => ages[s] + logins[s].expires <= Lifetime)
            /\ (s > loginCount => ages[s] = 0 /\ ~logins[s].on)
        BY DEF LifetimeKept, OAuthInv, NotBegun
      <3>2. ages'[s] = IF ~logins[s].on THEN 0 ELSE IF logins[s].expires > 0 THEN ages[s] + 1 ELSE ages[s]
        BY <2>1 DEF liveLogin
      <3>3. CASE ~logins[s].on
        BY <2>1, <2>2, <3>1, <3>2, <3>3
      <3>4. CASE logins[s].on
        <4>1. logins[s].expires \in Nat /\ Lifetime \in Nat /\ logins'[s].expires = nearer(logins[s].expires)
          BY <1>1, <2>2, <3>4
        <4>2. ages[s] \in Nat /\ ages[s] + logins[s].expires <= Lifetime
              /\ ages'[s] = IF logins[s].expires > 0 THEN ages[s] + 1 ELSE ages[s]
          BY <3>1, <3>2, <3>4
        <4>3. ages'[s] \in Nat /\ ages'[s] + logins'[s].expires <= Lifetime
          BY ONLY <4>1, <4>2 DEF nearer
        <4> QED
          BY <2>1, <3>1, <3>4, <4>3
      <3> QED
        BY <3>3, <3>4
    <2>4. AgesTyped'
      BY <2>1 DEF AgesTyped
    <2> QED
      BY <2>3, <2>4
  <1> QED
    BY <1>4, <1>6, <1>7, <1>8, <1>10, <1>11, <1>12, <1>13, <1>14 DEF OAuthNext

\* At most PendingLimit logins are in progress, one per session, and none for longer than its Lifetime; a code is
\* exchanged once, a device login is asked for by one poll at a time, and what was canceled, replaced or expired
\* never authorizes an account, for any number of sessions and logins and any lifetimes and intervals.
THEOREM LoginsAreOnce == OAuthSpec => []LoginsOnce
  <1>1. OAuthInv /\ LifetimeKept => LoginsOnce
    BY DEF OAuthInv, LoginsOnce, LoginsBounded, EndedLoginsNeverAuthorize, ExchangedOnce, PendingFew, OwnersApart,
           EndedExpired, OverOnce, CallsKnow, OAuthTypes, LifetimeKept, pendingLogins
  <1>2. OAuthInit => LifetimeKept /\ AgesTyped
    BY OAuthAssumption DEF OAuthInit, LifetimeKept, AgesTyped, NoLogin, Logins
  <1>3. OAuthInv /\ LifetimeKept /\ AgesTyped /\ [OAuthNext]_oauthVars => LifetimeKept' /\ AgesTyped'
    BY LifetimeStep
  <1> QED
    BY <1>1, <1>2, <1>3, OAuthInvariance, PTL DEF OAuthSpec
-----------------------------------------------------------------------------
(* The runtime of an account's models.                                        *)

Stored == [on : {TRUE}, lifecycle : Nat, resumed : Nat, version : Nat, cooldown : Nat, failures : 0..FailureCap,
           reason : {NoReason, "upstream_error", "rate_limited"}, window : Nat]

Health == [on : {TRUE}, stored : Stored, lastFailure : Nat, inFlight : Nat, persistFailed : BOOLEAN]

Lease == [on : {TRUE}, model : Models, check : BOOLEAN, own : BOOLEAN, sequence : Nat,
          lifecycle : Nat, resumed : Nat, probe : BOOLEAN]

ModelTypes ==
  /\ {lifecycle, resumed, sequence, modelClock} \subseteq Nat
  /\ modelRow = [m \in Models |-> modelRow[m]]
  /\ \A m \in Models : modelRow[m] = NoState \/ modelRow[m] \in Stored
  /\ modelHealth = [m \in Models |-> modelHealth[m]]
  /\ \A m \in Models : modelHealth[m] = NoState \/ modelHealth[m] \in Health
  /\ leases = [l \in Leases |-> leases[l]]
  /\ \A l \in Leases : leases[l] = NoLease \/ leases[l] \in Lease

\* A lease of this epoch shares the object of its model, which is of its epoch, and recovers while the lease is a probe.
SharesObject(l) ==
  /\ leases[l].lifecycle <= lifecycle /\ leases[l].resumed <= resumed
  /\ leases[l].lifecycle = lifecycle /\ leases[l].resumed = resumed => leases[l].own
  /\ leases[l].own =>
       /\ modelHealth[leases[l].model].on
       /\ modelHealth[leases[l].model].stored.lifecycle = leases[l].lifecycle
       /\ modelHealth[leases[l].model].stored.resumed = leases[l].resumed
       /\ leases[l].probe => /\ modelHealth[leases[l].model].stored.cooldown > 0
                             /\ modelHealth[leases[l].model].stored.failures > 0

LeasesShare == \A l \in Leases : leases[l].on => SharesObject(l)

Owners(ls, m) == {l \in Leases : ls[l].on /\ ls[l].own /\ ls[l].model = m}

Counted(ls, health) ==
  \A m \in Models : IF health[m].on THEN health[m].inFlight = Cardinality(Owners(ls, m)) ELSE Owners(ls, m) = {}

ModelInv == ModelTypes /\ LeasesShare /\ OneProbe /\ Counted(leases, modelHealth)

\* The leases of one model and its health change, and the others are counted as they were.
LEMMA CountedBut ==
  ASSUME NEW ls, NEW nls, NEW hs, NEW nhs, NEW m \in Models, Counted(ls, hs),
         \A n \in Models \ {m} : nhs[n] = hs[n] /\ Owners(nls, n) = Owners(ls, n),
         IF nhs[m].on THEN nhs[m].inFlight = Cardinality(Owners(nls, m)) ELSE Owners(nls, m) = {}
  PROVE  Counted(nls, nhs)
  BY DEF Counted

LEMMA OwnersFinite == ASSUME NEW ls, NEW m PROVE IsFiniteSet(Owners(ls, m)) /\ Cardinality(Owners(ls, m)) \in Nat
  BY RuntimeAssumption, FS_Subset, FS_CardinalityType DEF Owners

LEMMA ModelInitOK == ModelInit => ModelInv
  BY DEF ModelInit, ModelInv, ModelTypes, LeasesShare, OneProbe, Counted, Owners, NoState, NoLease

\* An object that is dropped leaves its leases their own; nobody shared it any more.
LEMMA Swept ==
  ASSUME ModelInv, NEW ls, ls = disowned({m \in Models : superseded(m)})
  PROVE  /\ ls = [l \in Leases |-> ls[l]]
         /\ \A l \in Leases : ls[l] = leases[l] \/ (/\ leases[l].on /\ superseded(leases[l].model)
                                                    /\ ls[l] = [leases[l] EXCEPT !.own = FALSE])
         /\ \A l \in Leases : leases[l].on /\ superseded(leases[l].model) => ls[l] = [leases[l] EXCEPT !.own = FALSE]
         /\ \A m \in Models : currentHealth[m] = IF superseded(m) THEN NoState ELSE modelHealth[m]
         /\ currentHealth = [m \in Models |-> currentHealth[m]]
  <1>1. \A l \in Leases : leases[l].on => leases[l].model \in Models
    <2>1. \A l \in Leases : leases[l].on => leases[l] \in Lease
      BY DEF ModelInv, ModelTypes, NoLease
    <2> QED
      BY <2>1 DEF Lease
  <1> QED
    BY <1>1, Zenon DEF disowned, currentHealth

\* What is left of a lease whose object was dropped.
LEMMA DisownedLease ==
  ASSUME NEW x \in Lease, NEW y, y = [x EXCEPT !.own = FALSE]
  PROVE  /\ y \in Lease /\ y.on /\ y.own = FALSE /\ y.model = x.model /\ y.probe = x.probe
         /\ y.lifecycle = x.lifecycle /\ y.resumed = x.resumed
  BY DEF Lease

LEMMA SweptLeases ==
  ASSUME ModelInv, NEW ls, ls = disowned({m \in Models : superseded(m)})
  PROVE  /\ \A l \in Leases : ls[l] = NoLease \/ ls[l] \in Lease
         /\ \A l \in Leases :
              /\ ls[l].on <=> leases[l].on
              /\ leases[l].on => /\ ls[l].model = leases[l].model /\ ls[l].probe = leases[l].probe
                                 /\ ls[l].lifecycle = leases[l].lifecycle /\ ls[l].resumed = leases[l].resumed
                                 /\ ls[l].own => leases[l].own /\ ~superseded(leases[l].model)
                                 /\ leases[l].own /\ ~superseded(leases[l].model) => ls[l].own
         /\ \A m \in Models : Owners(ls, m) = IF superseded(m) THEN {} ELSE Owners(leases, m)
  <1>1. \A l \in Leases : leases[l].on => leases[l] \in Lease
    BY DEF ModelInv, ModelTypes, NoLease
  <1>2. \A l \in Leases :
              /\ ls[l].on <=> leases[l].on
              /\ leases[l].on => /\ ls[l].model = leases[l].model /\ ls[l].probe = leases[l].probe
                                 /\ ls[l].lifecycle = leases[l].lifecycle /\ ls[l].resumed = leases[l].resumed
                                 /\ ls[l].own => leases[l].own /\ ~superseded(leases[l].model)
                                 /\ leases[l].own /\ ~superseded(leases[l].model) => ls[l].own
    <2> SUFFICES ASSUME NEW l \in Leases
                 PROVE  /\ ls[l].on <=> leases[l].on
                        /\ leases[l].on => /\ ls[l].model = leases[l].model /\ ls[l].probe = leases[l].probe
                                           /\ ls[l].lifecycle = leases[l].lifecycle /\ ls[l].resumed = leases[l].resumed
                                           /\ ls[l].own => leases[l].own /\ ~superseded(leases[l].model)
                                           /\ leases[l].own /\ ~superseded(leases[l].model) => ls[l].own
      OBVIOUS
    <2>1. CASE leases[l].on /\ superseded(leases[l].model)
      <3>1. ls[l] = [leases[l] EXCEPT !.own = FALSE]
        BY <2>1, Swept
      <3> QED
        BY <1>1, <2>1, <3>1, DisownedLease
    <2>2. CASE ~(leases[l].on /\ superseded(leases[l].model))
      <3>1. ls[l] = leases[l]
        BY <2>2, Swept
      <3> QED
        BY <2>2, <3>1
    <2> QED
      BY <2>1, <2>2
  <1>3. ASSUME NEW l \in Leases PROVE ls[l] = NoLease \/ ls[l] \in Lease
    <2>1. CASE ls[l] = leases[l]
      BY <2>1 DEF ModelInv, ModelTypes
    <2>2. CASE leases[l].on /\ ls[l] = [leases[l] EXCEPT !.own = FALSE]
      BY <1>1, <2>2, DisownedLease
    <2> QED
      BY <2>1, <2>2, Swept
  <1>4. \A m \in Models : Owners(ls, m) = IF superseded(m) THEN {} ELSE Owners(leases, m)
    BY <1>2 DEF Owners
  <1> QED
    BY <1>2, <1>3, <1>4

\* Dropping the objects of earlier epochs keeps what is known of the others.
LEMMA SweptInv ==
  ASSUME ModelInv, NEW ls, ls = disowned({m \in Models : superseded(m)})
  PROVE  /\ Counted(ls, currentHealth)
         /\ \A m \in Models : currentHealth[m] = NoState \/ currentHealth[m] \in Health
         /\ \A l \in Leases : leases[l].on /\ ls[l].own => currentHealth[leases[l].model] = modelHealth[leases[l].model]
         /\ \A l \in Leases : leases[l].on /\ leases[l].lifecycle = lifecycle /\ leases[l].resumed = resumed => ls[l].own
  <1> USE DEF ModelInv
  <1>1. Counted(ls, currentHealth)
    BY Swept, SweptLeases DEF Counted, NoState
  <1>2. \A m \in Models : currentHealth[m] = NoState \/ currentHealth[m] \in Health
    BY Swept DEF ModelTypes
  <1>3. \A l \in Leases : leases[l].on => leases[l].model \in Models
    <2>1. \A l \in Leases : leases[l].on => leases[l] \in Lease
      BY DEF ModelTypes, NoLease
    <2> QED
      BY <2>1 DEF Lease
  <1>4. \A l \in Leases : leases[l].on /\ ls[l].own => currentHealth[leases[l].model] = modelHealth[leases[l].model]
    BY <1>3, Swept, SweptLeases
  <1>5. \A l \in Leases : leases[l].on /\ leases[l].lifecycle = lifecycle /\ leases[l].resumed = resumed => ls[l].own
    <2> SUFFICES ASSUME NEW l \in Leases, leases[l].on, leases[l].lifecycle = lifecycle, leases[l].resumed = resumed
                 PROVE  ls[l].own
      OBVIOUS
    <2>1. /\ leases[l].own /\ leases[l].model \in Models
          /\ modelHealth[leases[l].model].on
          /\ modelHealth[leases[l].model].stored.lifecycle = lifecycle
          /\ modelHealth[leases[l].model].stored.resumed = resumed
      BY <1>3 DEF LeasesShare, SharesObject
    <2>2. modelHealth[leases[l].model] \in Health
      BY <2>1 DEF ModelTypes, NoState
    <2>3. modelHealth[leases[l].model].stored.on
      BY <2>2 DEF Health, Stored
    <2>4. ~superseded(leases[l].model)
      BY <2>1, <2>3 DEF superseded, inEpoch
    <2> QED
      BY <2>1, <2>4, SweptLeases
  <1> QED
    BY <1>1, <1>2, <1>4, <1>5

\* The rows that are left are rows.
LEMMA RowsLeft ==
  ASSUME ModelInv
  PROVE  /\ DeleteObsoleteModelRuntime = [m \in Models |-> DeleteObsoleteModelRuntime[m]]
         /\ \A m \in Models : DeleteObsoleteModelRuntime[m] = NoState \/ DeleteObsoleteModelRuntime[m] \in Stored
  BY DEF ModelInv, ModelTypes, DeleteObsoleteModelRuntime

LEMMA LoadOK == ASSUME ModelInv, loadRuntimeRows PROVE ModelInv'
  <1> USE DEF ModelInv
  <1> DEFINE ls == disowned({m \in Models : superseded(m)})
  <1>1. /\ modelRow' = DeleteObsoleteModelRuntime /\ modelHealth' = currentHealth /\ leases' = ls
        /\ UNCHANGED <<lifecycle, resumed, sequence, modelClock>>
    BY DEF loadRuntimeRows
  <1> HIDE DEF ls
  <1>2. /\ ls = [l \in Leases |-> ls[l]]
        /\ \A l \in Leases : ls[l] = NoLease \/ ls[l] \in Lease
        /\ \A l \in Leases :
             /\ ls[l].on <=> leases[l].on
             /\ leases[l].on => /\ ls[l].model = leases[l].model /\ ls[l].probe = leases[l].probe
                                /\ ls[l].lifecycle = leases[l].lifecycle /\ ls[l].resumed = leases[l].resumed
                                /\ ls[l].own => leases[l].own
    BY Swept, SweptLeases DEF ls
  <1>3. ModelTypes'
    BY <1>1, <1>2, Swept, SweptInv, RowsLeft DEF ModelTypes, ls
  <1>4. OneProbe'
    BY <1>1, <1>2 DEF OneProbe, sameEpoch
  <1>5. Counted(leases, modelHealth)'
    BY <1>1, SweptInv DEF Counted, Owners, ls
  <1>6. LeasesShare'
    <2> SUFFICES ASSUME NEW l \in Leases, ls[l].on PROVE SharesObject(l)'
      BY <1>1 DEF LeasesShare
    <2>1. SharesObject(l)
      BY <1>2 DEF LeasesShare
    <2>2. /\ ls[l].own => currentHealth[leases[l].model] = modelHealth[leases[l].model]
          /\ leases[l].lifecycle = lifecycle /\ leases[l].resumed = resumed => ls[l].own
      BY <1>2, SweptInv DEF ls
    <2> QED
      BY <1>1, <1>2, <2>1, <2>2 DEF SharesObject
  <1> QED
    BY <1>3, <1>4, <1>5, <1>6

\* What a lease finds of its model.
LEMMA ReadState ==
  ASSUME ModelInv, NEW m \in Models, NEW was, was = readModelRuntime(DeleteObsoleteModelRuntime, m)
  PROVE  /\ was \in Health /\ was.stored.lifecycle = lifecycle /\ was.stored.resumed = resumed
         /\ was.inFlight = IF currentHealth[m].on THEN currentHealth[m].inFlight ELSE 0
         /\ currentHealth[m].on => currentHealth[m] = was
  <1> USE DEF ModelInv
  <1>1. modelHealth[m] = NoState \/ modelHealth[m] \in Health
    BY DEF ModelTypes
  <1>2. CASE modelHealth[m].on /\ inEpoch(modelHealth[m].stored)
    <2>1. was = modelHealth[m] /\ modelHealth[m] \in Health /\ currentHealth[m] = modelHealth[m]
      BY <1>1, <1>2 DEF readModelRuntime, currentHealth, superseded, NoState
    <2> QED
      BY <1>2, <2>1 DEF inEpoch
  <1>3. CASE ~(modelHealth[m].on /\ inEpoch(modelHealth[m].stored))
    <2> DEFINE stored == GetAccountModelRuntime(DeleteObsoleteModelRuntime, m)
    <2>1. stored \in Stored /\ stored.lifecycle = lifecycle /\ stored.resumed = resumed
      <3>1. CASE inEpoch(DeleteObsoleteModelRuntime[m])
        BY <3>1, RowsLeft DEF GetAccountModelRuntime, inEpoch, NoState
      <3>2. CASE ~inEpoch(DeleteObsoleteModelRuntime[m])
        <4>1. stored = [on |-> TRUE, lifecycle |-> lifecycle, resumed |-> resumed, version |-> 0,
                        cooldown |-> 0, failures |-> 0, reason |-> NoReason, window |-> 0]
          BY <3>2 DEF GetAccountModelRuntime
        <4>2. 0 \in 0..FailureCap /\ lifecycle \in Nat /\ resumed \in Nat
          BY RuntimeAssumption DEF ModelTypes
        <4> HIDE DEF stored
        <4> QED
          BY ONLY <4>1, <4>2 DEF Stored
      <3> QED
        BY <3>1, <3>2
    <2>2. was = [on |-> TRUE, stored |-> stored, lastFailure |-> 0, inFlight |-> 0, persistFailed |-> FALSE]
      BY <1>3 DEF readModelRuntime
    <2> HIDE DEF stored
    <2>3. ~currentHealth[m].on
      BY <1>1, <1>3 DEF currentHealth, superseded, NoState
    <2> QED
      BY <2>1, <2>2, <2>3 DEF Health
  <1> QED
    BY <1>2, <1>3

\* One lease more or less changes the count of an object and nothing else.
LEMMA HealthCount ==
  ASSUME NEW h \in Health, NEW n \in Nat
  PROVE  /\ [h EXCEPT !.inFlight = n] \in Health
         /\ [h EXCEPT !.inFlight = n].on
         /\ [h EXCEPT !.inFlight = n].stored = h.stored
         /\ [h EXCEPT !.inFlight = n].inFlight = n
         /\ [h EXCEPT !.inFlight = n].persistFailed = h.persistFailed
  BY DEF Health

\* A new lease shares the object of its model, and is a probe only when nobody else shares it.
LEMMA LeaseOK ==
  ASSUME ModelInv, NEW l \in Leases, NEW m \in Models, NEW check \in BOOLEAN, modelLease(l, m, check)
  PROVE  ModelInv'
  <1> USE DEF ModelInv
  <1> DEFINE ls == disowned({n \in Models : superseded(n)})
             was == readModelRuntime(DeleteObsoleteModelRuntime, m)
             recovers == was.stored.cooldown > 0 /\ was.stored.failures > 0
             object == [was EXCEPT !.inFlight = @ + 1]
             new == [on |-> TRUE, model |-> m, check |-> check, own |-> TRUE, sequence |-> sequence + 1,
                     lifecycle |-> lifecycle, resumed |-> resumed, probe |-> recovers]
  <1>1. /\ ~leases[l].on
        /\ modelRow' = DeleteObsoleteModelRuntime
        /\ modelRuntimeAdmission(was)
        /\ modelHealth' = [currentHealth EXCEPT ![m] = object]
        /\ leases' = [ls EXCEPT ![l] = new]
        /\ sequence' = IF check THEN sequence ELSE sequence + 1
        /\ UNCHANGED <<lifecycle, resumed, modelClock>>
    BY Zenon DEF modelLease
  <1>2. recovers => was.inFlight <= 0 \/ was.inFlight \notin Nat
    BY <1>1 DEF modelRuntimeAdmission
  <1>3. recovers \in BOOLEAN
    OBVIOUS
  <1> HIDE DEF recovers
  <1>4. /\ new \in Lease /\ new.on /\ new.model = m /\ new.own = TRUE /\ new.probe = recovers
        /\ new.lifecycle = lifecycle /\ new.resumed = resumed
    <2>1. {sequence, lifecycle, resumed} \subseteq Nat
      BY DEF ModelTypes
    <2> QED
      BY <1>3, <2>1 DEF Lease
  <1> HIDE DEF new, was
  <1>5. /\ was \in Health /\ was.stored.lifecycle = lifecycle /\ was.stored.resumed = resumed
        /\ was.inFlight = IF currentHealth[m].on THEN currentHealth[m].inFlight ELSE 0
        /\ currentHealth[m].on => currentHealth[m] = was
    BY ReadState DEF was
  <1>6. object \in Health /\ object.stored = was.stored /\ object.inFlight = was.inFlight + 1 /\ object.on
    <2>1. was.inFlight + 1 \in Nat
      BY <1>5 DEF Health
    <2> QED
      BY <1>5, <2>1, HealthCount
  <1> HIDE DEF object, ls
  <1>7. /\ ls = [k \in Leases |-> ls[k]]
        /\ \A k \in Leases : ls[k] = NoLease \/ ls[k] \in Lease
        /\ \A k \in Leases :
             /\ ls[k].on <=> leases[k].on
             /\ leases[k].on => /\ ls[k].model = leases[k].model /\ ls[k].probe = leases[k].probe
                                /\ ls[k].lifecycle = leases[k].lifecycle /\ ls[k].resumed = leases[k].resumed
                                /\ ls[k].own => leases[k].own
    BY Swept, SweptLeases DEF ls
  <1>8. /\ Counted(ls, currentHealth)
        /\ \A n \in Models : currentHealth[n] = NoState \/ currentHealth[n] \in Health
        /\ \A k \in Leases : leases[k].on /\ ls[k].own => currentHealth[leases[k].model] = modelHealth[leases[k].model]
        /\ \A k \in Leases : leases[k].on /\ leases[k].lifecycle = lifecycle /\ leases[k].resumed = resumed => ls[k].own
        /\ currentHealth = [n \in Models |-> currentHealth[n]]
    BY Swept, SweptInv DEF ls
  <1>9. /\ leases' = [k \in Leases |-> leases'[k]] /\ leases'[l] = new /\ \A k \in Leases \ {l} : leases'[k] = ls[k]
        /\ modelHealth' = [n \in Models |-> modelHealth'[n]] /\ modelHealth'[m] = object
        /\ \A n \in Models \ {m} : modelHealth'[n] = currentHealth[n]
    BY <1>1, <1>7, <1>8
  <1>10. ModelTypes'
    <2>1. {lifecycle, resumed, sequence, modelClock}' \subseteq Nat
      BY <1>1 DEF ModelTypes
    <2> QED
      BY <1>1, <1>4, <1>6, <1>7, <1>8, <1>9, <2>1, RowsLeft DEF ModelTypes
  <1>11. Owners(leases', m) = Owners(ls, m) \cup {l} /\ \A n \in Models \ {m} : Owners(leases', n) = Owners(ls, n)
    BY <1>1, <1>4, <1>7, <1>9 DEF Owners
  <1>12. l \notin Owners(ls, m) /\ IsFiniteSet(Owners(ls, m))
    <2>1. l \notin Owners(ls, m)
      BY <1>1, <1>7 DEF Owners
    <2> QED
      BY <2>1, OwnersFinite
  <1>13. was.inFlight = Cardinality(Owners(ls, m))
    BY <1>5, <1>8, FS_EmptySet DEF Counted
  <1>14. Counted(leases, modelHealth)'
    <2>1. Cardinality(Owners(leases', m)) = Cardinality(Owners(ls, m)) + 1
      BY <1>11, <1>12, FS_AddElement
    <2>2. modelHealth'[m].inFlight = Cardinality(Owners(leases', m)) /\ modelHealth'[m].on
      BY <1>6, <1>9, <1>13, <2>1
    <2>3. Counted(ls, currentHealth)
      BY <1>8
    <2>4. \A n \in Models \ {m} : modelHealth'[n] = currentHealth[n] /\ Owners(leases', n) = Owners(ls, n)
      BY <1>9, <1>11
    <2>5. IF modelHealth'[m].on THEN modelHealth'[m].inFlight = Cardinality(Owners(leases', m)) ELSE Owners(leases', m) = {}
      BY <2>2
    <2>6. m \in Models
      BY <1>1
    <2>7. Counted(leases', modelHealth')
      BY ONLY <2>3, <2>4, <2>5, <2>6, CountedBut
    <2> QED
      BY <2>7 DEF Counted, Owners
  <1>15. ASSUME NEW k \in Leases \ {l}, ls[k].on, ls[k].model = m, ls[k].lifecycle = lifecycle, ls[k].resumed = resumed
         PROVE  ~recovers /\ ~ls[k].probe
    <2>1. ls[k].own /\ k \in Owners(ls, m)
      BY <1>7, <1>8, <1>15 DEF Owners
    <2>2. was.inFlight > 0 /\ was.inFlight \in Nat
      <3>1. Cardinality(Owners(ls, m)) # 0 /\ Cardinality(Owners(ls, m)) \in Nat
        BY <2>1, OwnersFinite, FS_EmptySet
      <3> QED
        BY <1>13, <3>1
    <2>3. ~recovers
      BY <1>2, <2>2
    <2>4. currentHealth[m] = was
      BY <1>5, <2>1, <1>8 DEF Counted
    <2>5. SharesObject(k) /\ leases[k].own /\ leases[k].model = m /\ currentHealth[m] = modelHealth[m]
      BY <1>7, <1>8, <1>15, <2>1 DEF LeasesShare
    <2> QED
      BY <1>7, <1>15, <2>3, <2>4, <2>5 DEF SharesObject, recovers
  <1>16. OneProbe'
    <2> SUFFICES ASSUME NEW a \in Leases, NEW b \in Leases, a # b, leases'[a].on, leases'[b].on,
                        leases'[a].model = leases'[b].model, leases'[a].lifecycle = leases'[b].lifecycle,
                        leases'[a].resumed = leases'[b].resumed
                 PROVE  ~leases'[a].probe
      BY DEF OneProbe, sameEpoch
    <2>1. CASE a # l /\ b # l
      BY <1>7, <1>9, <2>1 DEF OneProbe, sameEpoch
    <2>2. CASE a = l
      BY <1>4, <1>9, <1>15, <2>2
    <2>3. CASE b = l
      BY <1>4, <1>9, <1>15, <2>3
    <2> QED
      BY <2>1, <2>2, <2>3
  <1>17. LeasesShare'
    <2> SUFFICES ASSUME NEW k \in Leases, leases'[k].on PROVE SharesObject(k)'
      BY DEF LeasesShare
    <2>1. CASE k = l
      <3>1. lifecycle \in Nat /\ resumed \in Nat
        BY DEF ModelTypes
      <3>2. leases'[l].probe => modelHealth'[m].stored.cooldown > 0 /\ modelHealth'[m].stored.failures > 0
        BY <1>4, <1>6, <1>9, Zenon DEF recovers
      <3> QED
        BY <1>1, <1>4, <1>5, <1>6, <1>9, <2>1, <3>1, <3>2 DEF SharesObject
    <2>2. CASE k # l
      <3>1. SharesObject(k) /\ leases[k].on /\ leases'[k] = ls[k]
        BY <1>7, <1>9, <2>2 DEF LeasesShare
      <3>2. ls[k].own => leases[k].own /\ modelHealth'[leases[k].model].on
                         /\ modelHealth'[leases[k].model].stored = modelHealth[leases[k].model].stored
        <4>1. leases[k] \in Lease
          BY <3>1 DEF ModelTypes, NoLease
        <4>2. leases[k].model \in Models
          BY <4>1 DEF Lease
        <4>3. ls[k].own => /\ leases[k].own /\ modelHealth[leases[k].model].on
                           /\ currentHealth[leases[k].model] = modelHealth[leases[k].model]
          BY <1>7, <1>8, <3>1 DEF SharesObject
        <4> QED
          BY <1>5, <1>6, <1>9, <4>2, <4>3
      <3> QED
        BY <1>1, <1>7, <1>8, <3>1, <3>2 DEF SharesObject
    <2> QED
      BY <2>1, <2>2
  <1> QED
    BY <1>10, <1>14, <1>16, <1>17

\* A lease that ends leaves the object its count, or drops it when it was the last one; a probe is the only one.
LEMMA EndLeaseOK ==
  ASSUME ModelInv, NEW l \in Leases, leases[l].on, leases[l].own, NEW was \in Health,
         was.inFlight = modelHealth[leases[l].model].inFlight,
         was.stored.lifecycle = modelHealth[leases[l].model].stored.lifecycle,
         was.stored.resumed = modelHealth[leases[l].model].stored.resumed,
         endLease(l, was), UNCHANGED <<lifecycle, resumed>>, {sequence', modelClock'} \subseteq Nat,
         modelRow' = [m \in Models |-> modelRow'[m]],
         \A m \in Models : modelRow'[m] = NoState \/ modelRow'[m] \in Stored
  PROVE  ModelInv'
  <1> USE DEF ModelInv
  <1> DEFINE m == leases[l].model
             left == released([was EXCEPT !.inFlight = @ - 1])
  <1>1. leases' = [leases EXCEPT ![l] = NoLease] /\ modelHealth' = [modelHealth EXCEPT ![m] = left]
    BY DEF endLease
  <1>2. m \in Models
    <2>1. leases[l] \in Lease
      BY DEF ModelTypes, NoLease
    <2> QED
      BY <2>1 DEF Lease
  <1> HIDE DEF m
  <1>3. SharesObject(l) /\ modelHealth[m].on
    BY DEF LeasesShare, SharesObject, m
  <1>4. l \in Owners(leases, m) /\ was.inFlight = Cardinality(Owners(leases, m))
    BY <1>2, <1>3 DEF Counted, Owners, m
  <1>5. /\ Cardinality(Owners(leases, m) \ {l}) = was.inFlight - 1
        /\ was.inFlight - 1 \in Nat
    <2>1. IsFiniteSet(Owners(leases, m)) /\ IsFiniteSet(Owners(leases, m) \ {l})
      BY OwnersFinite, FS_Subset
    <2>2. Cardinality(Owners(leases, m) \ {l}) = Cardinality(Owners(leases, m)) - 1
      BY <1>4, <2>1, FS_RemoveElement
    <2> QED
      BY <1>4, <2>1, <2>2, FS_CardinalityType
  <1>6. IF left.on
        THEN /\ left \in Health /\ left.inFlight = was.inFlight - 1
             /\ left.stored.lifecycle = modelHealth[m].stored.lifecycle /\ left.stored.resumed = modelHealth[m].stored.resumed
        ELSE left = NoState /\ was.inFlight = 1
    <2> DEFINE less == [was EXCEPT !.inFlight = @ - 1]
    <2>1. less \in Health /\ less.on /\ less.stored = was.stored /\ less.inFlight = was.inFlight - 1
      BY <1>5, HealthCount
    <2>2. left = released(less)
      OBVIOUS
    <2> HIDE DEF less, left
    <2> QED
      <3>1. was.inFlight \in Nat
        BY DEF Health
      <3>2. was.stored.lifecycle = modelHealth[m].stored.lifecycle /\ was.stored.resumed = modelHealth[m].stored.resumed
        BY DEF m
      <3>3. left = less \/ (left = NoState /\ less.inFlight = 0)
        BY <2>2 DEF released
      <3>4. ~NoState.on
        BY DEF NoState
      <3> QED
        BY ONLY <2>1, <3>1, <3>2, <3>3, <3>4
  <1> HIDE DEF left
  <1>7. /\ leases' = [k \in Leases |-> leases'[k]] /\ leases'[l] = NoLease /\ \A k \in Leases \ {l} : leases'[k] = leases[k]
        /\ modelHealth' = [n \in Models |-> modelHealth'[n]] /\ modelHealth'[m] = left
        /\ \A n \in Models \ {m} : modelHealth'[n] = modelHealth[n]
    BY <1>1, <1>2 DEF ModelTypes
  <1>8. ~NoLease.on /\ ~NoState.on
    BY DEF NoLease, NoState
  <1>9. ModelTypes'
    <2>1. {lifecycle, resumed, sequence, modelClock}' \subseteq Nat
      BY DEF ModelTypes
    <2> QED
      BY <1>6, <1>7, <2>1 DEF ModelTypes
  <1>10. Owners(leases', m) = Owners(leases, m) \ {l} /\ \A n \in Models \ {m} : Owners(leases', n) = Owners(leases, n)
    BY <1>7, <1>8 DEF Owners, m
  <1>11. Counted(leases, modelHealth)'
    <2>1. ~left.on => Owners(leases', m) = {}
      <3>1. IsFiniteSet(Owners(leases', m))
        BY OwnersFinite
      <3>2. ~left.on => Cardinality(Owners(leases', m)) = 0
        BY <1>5, <1>6, <1>10
      <3> QED
        BY <3>1, <3>2, FS_EmptySet
    <2>2. IF modelHealth'[m].on THEN modelHealth'[m].inFlight = Cardinality(Owners(leases', m)) ELSE Owners(leases', m) = {}
      BY <1>5, <1>6, <1>7, <1>10, <2>1
    <2>3. \A n \in Models \ {m} : modelHealth'[n] = modelHealth[n] /\ Owners(leases', n) = Owners(leases, n)
      BY <1>7, <1>10
    <2>4. Counted(leases', modelHealth')
      BY <1>2, <2>2, <2>3, CountedBut
    <2> QED
      BY <2>4 DEF Counted, Owners
  <1>12. OneProbe'
    BY <1>7, <1>8 DEF OneProbe, sameEpoch
  <1>13. LeasesShare'
    <2> SUFFICES ASSUME NEW k \in Leases, leases'[k].on PROVE SharesObject(k)'
      BY DEF LeasesShare
    <2>1. k # l /\ leases'[k] = leases[k] /\ leases[k].on /\ SharesObject(k)
      BY <1>7, <1>8 DEF LeasesShare
    <2>2. leases[k].model \in Models
      <3>1. leases[k] \in Lease
        BY <2>1 DEF ModelTypes, NoLease
      <3> QED
        BY <3>1 DEF Lease
    <2>3. CASE leases[k].own /\ leases[k].model = m
      <3>1. ~leases[k].probe
        BY <1>3, <2>1, <2>3 DEF OneProbe, sameEpoch, SharesObject, m
      <3>2. left.on
        <4>1. k \in Owners(leases', m)
          BY <2>1, <2>3 DEF Owners
        <4>2. Cardinality(Owners(leases, m) \ {l}) # 0
          BY <1>10, <4>1, OwnersFinite, FS_EmptySet
        <4> QED
          BY <1>5, <1>6, <4>2
      <3> QED
        BY <1>6, <1>7, <2>1, <2>3, <3>1, <3>2 DEF SharesObject
    <2>4. CASE ~(leases[k].own /\ leases[k].model = m)
      BY <1>7, <2>1, <2>2, <2>4 DEF SharesObject
    <2> QED
      BY <2>3, <2>4
  <1> QED
    BY <1>9, <1>11, <1>12, <1>13

\* The lease of an object that nobody else sees ends, and with it the object.
LEMMA DisownedEndsOK ==
  ASSUME ModelInv, NEW l \in Leases, ~leases[l].own, leases' = [leases EXCEPT ![l] = NoLease],
         UNCHANGED <<lifecycle, resumed, modelRow, modelHealth, sequence, modelClock>>
  PROVE  ModelInv'
  <1> USE DEF ModelInv
  <1>1. leases' = [k \in Leases |-> leases'[k]] /\ leases'[l] = NoLease /\ \A k \in Leases \ {l} : leases'[k] = leases[k]
    BY DEF ModelTypes
  <1>2. ~NoLease.on
    BY DEF NoLease
  <1>3. \A m : Owners(leases', m) = Owners(leases, m)
    BY <1>1, <1>2 DEF Owners
  <1>4. Counted(leases', modelHealth')
    BY <1>3 DEF Counted
  <1>5. ModelTypes'
    BY <1>1 DEF ModelTypes
  <1>6. OneProbe' /\ LeasesShare'
    BY <1>1, <1>2 DEF OneProbe, sameEpoch, LeasesShare, SharesObject
  <1> QED
    BY <1>4, <1>5, <1>6 DEF Counted, Owners

\* The state after a failure is of the same epoch, and is saved as such.
LEMMA FailedState ==
  ASSUME ModelTypes, NEW st \in Stored, NEW reason \in {"upstream_error", "rate_limited"}, NEW delay \in Nat,
         NEW m \in Models
  PROVE  LET next == cooled(counted(st, reason), delay)
         IN  /\ next \in Stored /\ next.lifecycle = st.lifecycle /\ next.resumed = st.resumed
             /\ SaveAccountModelRuntime(m, next) \in Stored
             /\ SaveAccountModelRuntime(m, next).lifecycle = st.lifecycle
             /\ SaveAccountModelRuntime(m, next).resumed = st.resumed
  <1>1. modelClock \in Nat
    BY DEF ModelTypes
  <1> DEFINE more == counted(st, reason)
             many == minOf(FailureCap, (IF windowBegins(st, reason) THEN 0 ELSE st.failures) + 1)
             opened == IF windowBegins(st, reason) THEN modelClock ELSE st.window
             next == cooled(more, delay)
             saved == SaveAccountModelRuntime(m, next)
  <1>2. many \in 0..FailureCap /\ opened \in Nat
    <2>1. st.failures \in 0..FailureCap /\ st.window \in Nat
      BY DEF Stored
    <2> QED
      BY <1>1, <2>1, RuntimeAssumption DEF minOf
  <1>3. more = [st EXCEPT !.failures = many, !.window = opened, !.reason = reason]
    BY Zenon DEF counted
  <1> HIDE DEF many, opened, more
  <1>4. more \in Stored /\ more.lifecycle = st.lifecycle /\ more.resumed = st.resumed
    BY <1>2, <1>3 DEF Stored
  <1> DEFINE until == maxOf(more.cooldown, asked(more, delay))
  <1>5. until \in Nat
    <2>1. more.cooldown \in Nat /\ more.failures \in 0..FailureCap
      BY <1>4 DEF Stored
    <2>2. asked(more, delay) \in Nat
      BY <1>1, <2>1, RuntimeAssumption, DelaysAssumption DEF asked
    <2> QED
      BY <2>1, <2>2 DEF maxOf
  <1>6. next = [more EXCEPT !.cooldown = until]
    BY Zenon DEF cooled
  <1> HIDE DEF until, next
  <1>7. next \in Stored /\ next.lifecycle = st.lifecycle /\ next.resumed = st.resumed
    BY <1>4, <1>5, <1>6 DEF Stored
  <1> DEFINE version == IF modelRow[m].on THEN modelRow[m].version + 1 ELSE 1
  <1>8. version \in Nat
    <2>1. modelRow[m].on => modelRow[m] \in Stored
      BY DEF ModelTypes, NoState
    <2>2. modelRow[m].on => modelRow[m].version \in Nat
      BY <2>1 DEF Stored
    <2> QED
      BY <2>2
  <1>9. saved = [next EXCEPT !.version = version]
    BY Zenon DEF SaveAccountModelRuntime
  <1> HIDE DEF version, saved
  <1>10. saved \in Stored /\ saved.lifecycle = st.lifecycle /\ saved.resumed = st.resumed
    BY <1>7, <1>8, <1>9 DEF Stored
  <1> QED
    BY <1>7, <1>10, Zenon DEF next, saved, more

\* What may become of an object when a lease ends.
LEMMA ChangedHealth ==
  ASSUME NEW h \in Health, NEW failed \in BOOLEAN
  PROVE  /\ [h EXCEPT !.persistFailed = failed] \in Health
         /\ [h EXCEPT !.persistFailed = failed].stored = h.stored
         /\ [h EXCEPT !.persistFailed = failed].inFlight = h.inFlight
         /\ [h EXCEPT !.persistFailed = failed].lastFailure = h.lastFailure
         /\ [h EXCEPT !.persistFailed = failed].persistFailed = failed
  BY DEF Health

LEMMA ClearedStored ==
  ASSUME NEW st \in Stored
  PROVE  /\ [st EXCEPT !.failures = 0] \in Stored
         /\ [st EXCEPT !.failures = 0].failures = 0 /\ [st EXCEPT !.failures = 0].window = st.window
         /\ [st EXCEPT !.cooldown = 0].cooldown = 0 /\ [st EXCEPT !.cooldown = 0].window = st.window
         /\ [st EXCEPT !.cooldown = 0].failures = st.failures
         /\ [st EXCEPT !.failures = 0].lifecycle = st.lifecycle /\ [st EXCEPT !.failures = 0].resumed = st.resumed
         /\ [st EXCEPT !.cooldown = 0] \in Stored
         /\ [st EXCEPT !.cooldown = 0].lifecycle = st.lifecycle /\ [st EXCEPT !.cooldown = 0].resumed = st.resumed
  <1>1. 0 \in 0..FailureCap /\ 0 \in Nat
    BY RuntimeAssumption
  <1> QED
    BY <1>1 DEF Stored

LEMMA ClearedHealth ==
  ASSUME NEW h \in Health, NEW g, g = [h EXCEPT !.stored.failures = 0, !.stored.cooldown = 0, !.persistFailed = FALSE]
  PROVE  /\ g \in Health /\ g.inFlight = h.inFlight /\ g.lastFailure = h.lastFailure
         /\ g.stored.cooldown = 0 /\ g.stored.failures = 0 /\ g.stored.window = h.stored.window
         /\ g.stored.lifecycle = h.stored.lifecycle /\ g.stored.resumed = h.stored.resumed
  <1> DEFINE s1 == [h.stored EXCEPT !.failures = 0]
             h1 == [h EXCEPT !.stored = s1]
             s2 == [h1.stored EXCEPT !.cooldown = 0]
             h2 == [h1 EXCEPT !.stored = s2]
  <1>1. g = [h2 EXCEPT !.persistFailed = FALSE]
    OBVIOUS
  <1>2. h.stored \in Stored
    BY DEF Health
  <1>3. s1 \in Stored /\ s1.failures = 0 /\ s1.window = h.stored.window /\ s1.lifecycle = h.stored.lifecycle /\ s1.resumed = h.stored.resumed
    BY <1>2, ClearedStored
  <1> HIDE DEF s1
  <1>4. h1 \in Health /\ h1.inFlight = h.inFlight /\ h1.lastFailure = h.lastFailure /\ h1.stored = s1
    BY <1>3 DEF Health
  <1> HIDE DEF h1
  <1>5. s2 \in Stored /\ s2.failures = 0 /\ s2.cooldown = 0 /\ s2.window = h.stored.window /\ s2.lifecycle = h.stored.lifecycle /\ s2.resumed = h.stored.resumed
    BY <1>3, <1>4, ClearedStored
  <1> HIDE DEF s2
  <1>6. h2 \in Health /\ h2.inFlight = h.inFlight /\ h2.lastFailure = h.lastFailure /\ h2.stored = s2
    BY <1>4, <1>5 DEF Health
  <1> HIDE DEF h2
  <1> QED
    BY <1>1, <1>5, <1>6 DEF Health

\* The object that a lease shares.
LEMMA SharedHealth ==
  ASSUME ModelInv, NEW l \in Leases, leases[l].on, leases[l].own
  PROVE  /\ leases[l].model \in Models /\ modelHealth[leases[l].model] \in Health
         /\ modelHealth[leases[l].model].stored \in Stored
  <1>1. leases[l] \in Lease /\ SharesObject(l)
    BY DEF ModelInv, ModelTypes, NoLease, LeasesShare
  <1>2. leases[l].model \in Models
    BY <1>1 DEF Lease
  <1>3. modelHealth[leases[l].model] \in Health
    BY <1>1, <1>2 DEF ModelInv, ModelTypes, SharesObject, NoState
  <1> QED
    BY <1>2, <1>3 DEF Health

LEMMA CheckEndsOK == ASSUME ModelInv, NEW l \in Leases, leaseModelCheck(l) PROVE ModelInv'
  <1>1. leases[l].on /\ UNCHANGED <<lifecycle, resumed, modelRow, sequence, modelClock>>
    BY DEF leaseModelCheck
  <1>2. CASE leases[l].own
    <2>1. endLease(l, modelHealth[leases[l].model])
      BY <1>2 DEF leaseModelCheck
    <2>2. /\ {sequence', modelClock'} \subseteq Nat /\ modelRow' = [m \in Models |-> modelRow'[m]]
          /\ \A m \in Models : modelRow'[m] = NoState \/ modelRow'[m] \in Stored
      BY <1>1 DEF ModelInv, ModelTypes
    <2> QED
      BY <1>1, <1>2, <2>1, <2>2, SharedHealth, EndLeaseOK
  <1>3. CASE ~leases[l].own
    <2>1. leases' = [leases EXCEPT ![l] = NoLease] /\ modelHealth' = modelHealth
      BY <1>3 DEF leaseModelCheck
    <2> QED
      BY <1>1, <1>3, <2>1, DisownedEndsOK
  <1> QED
    BY <1>2, <1>3

\* A failure is kept by the object, and by the row when that can be written.
LEMMA FailedOK ==
  ASSUME ModelInv, NEW l \in Leases, NEW reason \in {"upstream_error", "rate_limited"}, NEW delay \in Nat,
         NEW ok \in BOOLEAN, finishFailed(l, reason, delay, ok)
  PROVE  ModelInv'
  <1> DEFINE m == leases[l].model
             was == modelHealth[m]
             next == cooled(counted(was.stored, reason), delay)
             saved == SaveAccountModelRuntime(m, next)
             kept == [was EXCEPT !.stored = next, !.lastFailure = sequence + 1, !.persistFailed = TRUE]
             written == [was EXCEPT !.stored = saved, !.lastFailure = sequence + 1, !.persistFailed = FALSE]
  <1>1. /\ leases[l].on /\ leases[l].own
        /\ sequence' = sequence + 1 /\ UNCHANGED <<lifecycle, resumed, modelClock>>
    BY DEF finishFailed
  <1>2. ModelTypes
    BY DEF ModelInv
  <1>3. m \in Models /\ was \in Health /\ was.stored \in Stored
    BY <1>1, SharedHealth
  <1>4. \/ endLease(l, kept) /\ modelRow' = modelRow
        \/ modelRow' = [modelRow EXCEPT ![m] = saved] /\ endLease(l, [was EXCEPT !.stored = modelRow'[m],
                                                    !.lastFailure = sequence + 1, !.persistFailed = FALSE])
        \/ endLease(l, was) /\ modelRow' = modelRow
    BY Zenon DEF finishFailed
  <1>5. modelRow' = [modelRow EXCEPT ![m] = saved] => modelRow'[m] = saved
    BY <1>2, <1>3 DEF ModelTypes
  <1>6. /\ next \in Stored /\ next.lifecycle = was.stored.lifecycle /\ next.resumed = was.stored.resumed
        /\ saved \in Stored /\ saved.lifecycle = was.stored.lifecycle /\ saved.resumed = was.stored.resumed
    BY <1>2, <1>3, FailedState
  <1> HIDE DEF next, saved
  <1>7. sequence + 1 \in Nat /\ {sequence', modelClock'} \subseteq Nat
    BY <1>1, <1>2 DEF ModelTypes
  <1>8. /\ modelRow' = modelRow \/ modelRow' = [modelRow EXCEPT ![m] = saved]
           => /\ modelRow' = [n \in Models |-> modelRow'[n]]
              /\ \A n \in Models : modelRow'[n] = NoState \/ modelRow'[n] \in Stored
    BY <1>2, <1>3, <1>6 DEF ModelTypes
  <1>9. /\ kept \in Health /\ kept.stored = next /\ kept.inFlight = was.inFlight
        /\ written \in Health /\ written.stored = saved /\ written.inFlight = was.inFlight
    <2> DEFINE changed(st, failed) == [was EXCEPT !.stored = st, !.lastFailure = sequence + 1, !.persistFailed = failed]
    <2>1. ASSUME NEW st \in Stored, NEW failed \in BOOLEAN
          PROVE  /\ changed(st, failed) \in Health /\ changed(st, failed).stored = st
                 /\ changed(st, failed).inFlight = was.inFlight
      <3> DEFINE last == sequence + 1
      <3>1. last \in Nat /\ was \in Health
        BY <1>3, <1>7
      <3>2. changed(st, failed) = [was EXCEPT !.stored = st, !.lastFailure = last, !.persistFailed = failed]
        BY Zenon
      <3> HIDE DEF last, was, changed
      <3>3. \A h \in Health : \A n \in Nat :
              /\ [h EXCEPT !.stored = st, !.lastFailure = n, !.persistFailed = failed] \in Health
              /\ [h EXCEPT !.stored = st, !.lastFailure = n, !.persistFailed = failed].stored = st
              /\ [h EXCEPT !.stored = st, !.lastFailure = n, !.persistFailed = failed].inFlight = h.inFlight
        <4> TAKE h \in Health, n \in Nat
        <4> QED
          BY <2>1 DEF Health
      <3> QED
        BY <3>1, <3>2, <3>3, Zenon
    <2>2. kept = changed(next, TRUE) /\ written = changed(saved, FALSE)
      BY Zenon
    <2> HIDE DEF kept, written, was, changed
    <2> QED
      BY <1>6, <2>1, <2>2
  <1>10. CASE endLease(l, kept) /\ modelRow' = modelRow
    <2> HIDE DEF kept
    <2> QED
      BY <1>1, <1>6, <1>7, <1>8, <1>9, <1>10, EndLeaseOK
  <1>11. CASE endLease(l, written) /\ modelRow' = [modelRow EXCEPT ![m] = saved]
    <2> HIDE DEF written
    <2> QED
      BY <1>1, <1>6, <1>7, <1>8, <1>9, <1>11, EndLeaseOK
  <1>12. CASE endLease(l, was) /\ modelRow' = modelRow
    BY <1>1, <1>3, <1>7, <1>8, <1>12, EndLeaseOK
  <1> QED
    BY <1>4, <1>5, <1>10, <1>11, <1>12, Zenon

LEMMA FinishModelOK ==
  ASSUME ModelInv, NEW l \in Leases, NEW ok \in BOOLEAN, finishModelRuntime(l, ok)
  PROVE  ModelInv'
  <1> DEFINE m == leases[l].model
             was == modelHealth[m]
             cleared == [was EXCEPT !.stored.failures = 0, !.stored.cooldown = 0, !.persistFailed = FALSE]
             kept == [was EXCEPT !.persistFailed = TRUE]
  <1>1. /\ leases[l].on /\ leases[l].own /\ UNCHANGED <<lifecycle, resumed, sequence, modelClock>>
    BY DEF finishModelRuntime
  <1>2. ModelTypes
    BY DEF ModelInv
  <1>3. m \in Models /\ was \in Health /\ was.stored \in Stored
    BY <1>1, SharedHealth
  <1>4. \/ endLease(l, cleared) /\ modelRow' = DeleteAccountModelLimit(m, was.stored)
        \/ endLease(l, kept) /\ modelRow' = modelRow
        \/ endLease(l, was) /\ modelRow' = modelRow
    BY Zenon DEF finishModelRuntime
  <1>5. /\ cleared \in Health /\ cleared.inFlight = was.inFlight
        /\ cleared.stored.lifecycle = was.stored.lifecycle /\ cleared.stored.resumed = was.stored.resumed
    BY <1>3, ClearedHealth
  <1> HIDE DEF cleared
  <1>6. kept \in Health /\ kept.stored = was.stored /\ kept.inFlight = was.inFlight
    <2>1. TRUE \in BOOLEAN
      OBVIOUS
    <2> QED
      BY <1>3, <2>1, ChangedHealth
  <1> HIDE DEF kept
  <1>7. {sequence', modelClock'} \subseteq Nat
    BY <1>1, <1>2 DEF ModelTypes
  <1>8. /\ modelRow' = [n \in Models |-> modelRow'[n]]
        /\ \A n \in Models : modelRow'[n] = NoState \/ modelRow'[n] \in Stored
    BY <1>2, <1>4 DEF ModelTypes, DeleteAccountModelLimit
  <1> QED
    BY <1>1, <1>3, <1>4, <1>5, <1>6, <1>7, <1>8, EndLeaseOK

\* A new epoch: no lease is of it yet.
LEMMA EpochOK == ASSUME ModelInv, authorizedAgain \/ Resume \/ modelRestart PROVE ModelInv'
  <1> USE DEF ModelInv
  <1>1. CASE authorizedAgain
    <2>1. /\ lifecycle' = lifecycle + 1
          /\ UNCHANGED <<resumed, modelRow, modelHealth, leases, sequence, modelClock>>
      BY <1>1 DEF authorizedAgain
    <2>2. lifecycle \in Nat /\ \A l \in Leases : leases[l].on => leases[l].lifecycle \in Nat /\ SharesObject(l)
      <3>1. \A l \in Leases : leases[l].on => leases[l] \in Lease /\ SharesObject(l)
        BY DEF ModelTypes, LeasesShare, NoLease
      <3>2. \A x \in Lease : x.lifecycle \in Nat
        BY DEF Lease
      <3> QED
        BY <3>1, <3>2 DEF ModelTypes
    <2>3. LeasesShare'
      BY <2>1, <2>2 DEF LeasesShare, SharesObject
    <2> QED
      BY <2>1, <2>3 DEF ModelTypes, OneProbe, sameEpoch, Counted, Owners
  <1>2. CASE Resume
    <2>1. /\ resumed' = resumed + 1 /\ leases' = disowned(Models)
          /\ modelRow' = [m \in Models |-> NoState] /\ modelHealth' = [m \in Models |-> NoState]
          /\ UNCHANGED <<lifecycle, sequence, modelClock>>
      BY <1>2 DEF Resume
    <2>2. \A l \in Leases : leases[l].on => leases[l] \in Lease
      BY DEF ModelTypes, NoLease
    <2>3. \A l \in Leases : leases[l].on => leases[l].model \in Models
      BY <2>2 DEF Lease
    <2>4. /\ leases' = [l \in Leases |-> leases'[l]]
          /\ \A l \in Leases : leases'[l] = IF leases[l].on THEN [leases[l] EXCEPT !.own = FALSE] ELSE leases[l]
      BY <2>1, <2>3, Zenon DEF disowned
    <2>5. \A l \in Leases :
            IF leases[l].on
            THEN /\ leases'[l] \in Lease /\ leases'[l].own = FALSE /\ leases'[l].model = leases[l].model
                 /\ leases'[l].probe = leases[l].probe
                 /\ leases'[l].lifecycle = leases[l].lifecycle /\ leases'[l].resumed = leases[l].resumed
            ELSE leases'[l] = leases[l]
      <3> TAKE l \in Leases
      <3>1. CASE leases[l].on
        <4>1. leases'[l] = [leases[l] EXCEPT !.own = FALSE] /\ leases[l] \in Lease
          BY <2>2, <2>4, <3>1
        <4> QED
          BY <3>1, <4>1, DisownedLease
      <3>2. CASE ~leases[l].on
        BY <2>4, <3>2
      <3> QED
        BY <3>1, <3>2
    <2>6. \A l \in Leases : leases'[l].on => /\ leases[l].on /\ leases[l].resumed <= resumed /\ leases[l].resumed \in Nat
                                             /\ leases[l].lifecycle <= lifecycle
      <3>1. \A l \in Leases : leases[l].on => SharesObject(l)
        BY DEF LeasesShare
      <3> QED
        BY <2>2, <2>5, <3>1 DEF SharesObject, Lease
    <2>7. ModelTypes'
      BY <2>1, <2>4, <2>5 DEF ModelTypes
    <2>8. LeasesShare'
      BY <2>1, <2>5, <2>6 DEF LeasesShare, SharesObject, ModelTypes
    <2>9. OneProbe'
      BY <2>5, <2>6 DEF OneProbe, sameEpoch
    <2>10. Counted(leases, modelHealth)'
      BY <2>1, <2>5, <2>6 DEF Counted, Owners, NoState
    <2> QED
      BY <2>7, <2>8, <2>9, <2>10
  <1>3. CASE modelRestart
    <2>1. /\ modelHealth' = [m \in Models |-> NoState] /\ leases' = [l \in Leases |-> NoLease] /\ sequence' = 0
          /\ UNCHANGED <<lifecycle, resumed, modelRow, modelClock>>
      BY <1>3 DEF modelRestart
    <2> QED
      BY <2>1 DEF ModelTypes, LeasesShare, OneProbe, Counted, Owners, NoState, NoLease
  <1> QED
    BY <1>1, <1>2, <1>3

LEMMA ModelNextOK == ModelInv /\ [ModelNext]_modelVars => ModelInv'
  <1> SUFFICES ASSUME ModelInv, [ModelNext]_modelVars PROVE ModelInv'
    OBVIOUS
  <1>1. CASE \/ modelTick \/ UNCHANGED modelVars \/ \E m \in Models : catalogChanges(m)
             \/ \E l \in Leases, success \in BOOLEAN : concludes(l, success)
    <2>1. /\ UNCHANGED <<lifecycle, resumed, modelRow, modelHealth, leases, sequence>>
          /\ modelClock' = modelClock \/ modelClock' = modelClock + 1
      BY <1>1 DEF modelTick, catalogChanges, concludes, modelVars
    <2> QED
      BY <2>1 DEF ModelInv, ModelTypes, LeasesShare, SharesObject, OneProbe, sameEpoch, Counted, Owners
  <1>2. ASSUME NEW l \in Leases, finishDisowned(l) PROVE ModelInv'
    BY <1>2, DisownedEndsOK DEF finishDisowned
  <1>3. ASSUME NEW l \in Leases, NEW ok \in BOOLEAN,
               finishFailed(l, "upstream_error", 0, ok) \/ \E delay \in RetryDelays : finishFailed(l, "rate_limited", delay, ok)
        PROVE  ModelInv'
    BY <1>3, FailedOK, RuntimeAssumption
  <1> QED
    BY <1>1, <1>2, <1>3, LoadOK, EpochOK, LeaseOK, CheckEndsOK, FinishModelOK DEF ModelNext

\* The leases of an epoch share the objects of it: the invariant behind the next theorem.
THEOREM ModelInvariance == ModelSpec => []ModelInv
  BY ModelInitOK, ModelNextOK, PTL DEF ModelSpec

\* While a model recovers from a failure one request at a time tries it, and an object in memory is dropped only
\* when no lease shares it, for any models, leases, delays and thresholds.
THEOREM ProbesAreAlone == ModelSpec => []ProbesAlone
  <1>1. ModelInv => ProbesAlone
    <2> SUFFICES ASSUME ModelInv PROVE LeasesCounted
      BY DEF ModelInv, ProbesAlone
    <2>1. \A m \in Models : Owners(leases, m) = {l \in Leases : leases[l].on /\ leases[l].own /\ leases[l].model = m}
      BY DEF Owners
    <2> QED
      BY <2>1, FS_EmptySet DEF ModelInv, Counted, LeasesCounted
  <1> QED
    BY <1>1, ModelInvariance, PTL

-----------------------------------------------------------------------------
(* What is remembered of the failures of a model.                             *)

lives(h) == h.on /\ inEpoch(h.stored)

Failure == [id : Nat, reason : {"upstream_error", "rate_limited"}, at : Nat, until : Nat, sequence : Nat]

\* Failures are numbered, and none is of a request that is still to come.
FailSet(fs, last) ==
  /\ IsFiniteSet(fs) /\ fs \subseteq Failure
  /\ \A f \in fs : f.sequence <= last /\ f.id < Cardinality(fs)
  /\ \A f, g \in fs : f.id = g.id => f = g

Within(fs, w) == {f \in fs : f.reason = "upstream_error" /\ f.at >= w}

\* Transient failures are not counted twice.
Enough(st, fs) == st.reason = "upstream_error" => st.failures <= Cardinality(Within(fs, st.window))

\* The object, or the row once the object is dropped, holds every wait that a failure asked for.
Weighed(h, r, fs) ==
  /\ \A f \in fs : f.until > modelClock =>
       /\ lives(h) => h.stored.cooldown >= f.until
       /\ (lives(h) /\ h.persistFailed) \/ (inEpoch(r) /\ r.cooldown >= f.until)
  /\ lives(h) /\ inEpoch(r) => h.stored.version = r.version /\ h.stored.cooldown >= r.cooldown
  /\ r.on => r.failures >= 1 /\ r.lifecycle <= lifecycle /\ r.window <= modelClock
  /\ h.on => h.stored.lifecycle <= lifecycle /\ h.stored.window <= modelClock
  /\ lives(h) => Enough(h.stored, fs)
  /\ inEpoch(r) => Enough(r, fs)

\* A request that shares an object was admitted after every failure that the object does not know.
Newer(x, h, fs) ==
  x.own /\ lives(h) => \A f \in fs : f.sequence <= h.lastFailure \/ f.sequence < x.sequence

NewerAll(ls, hs, fss) == \A l \in Leases : ls[l].on => Newer(ls[l], hs[ls[l].model], fss[ls[l].model])

FailInv ==
  /\ failuresSeen = [m \in Models |-> failuresSeen[m]]
  /\ \A m \in Models : FailSet(failuresSeen[m], sequence)
  /\ \A m \in Models : Weighed(modelHealth[m], modelRow[m], failuresSeen[m])
  /\ NewerAll(leases, modelHealth, failuresSeen)

Healths == {NoState} \cup Health
Rows == {NoState} \cup Stored

LEMMA ModelGiven ==
  ASSUME ModelInv, NEW m \in Models
  PROVE  /\ modelHealth[m] \in Healths /\ modelRow[m] \in Rows
         /\ modelClock \in Nat /\ sequence \in Nat /\ lifecycle \in Nat /\ resumed \in Nat
  BY DEF ModelInv, ModelTypes, Healths, Rows

LEMMA Offstate == ~NoState.on /\ \A h \in Health : h.on /\ h.stored \in Stored /\ h.stored.on
  BY DEF NoState, Health, Stored

LEMMA WithinGrows ==
  ASSUME NEW fs, IsFiniteSet(fs), NEW f, NEW w
  PROVE  /\ IsFiniteSet(Within(fs, w)) /\ Cardinality(Within(fs, w)) \in Nat
         /\ IsFiniteSet(Within(fs \cup {f}, w)) /\ Cardinality(Within(fs \cup {f}, w)) \in Nat
         /\ Cardinality(Within(fs, w)) <= Cardinality(Within(fs \cup {f}, w))
         /\ f.reason = "upstream_error" /\ f.at >= w /\ f \notin fs
              => Cardinality(Within(fs \cup {f}, w)) = Cardinality(Within(fs, w)) + 1
  <1>1. IsFiniteSet(fs \cup {f})
    BY FS_AddElement
  <1>2. Within(fs, w) \subseteq Within(fs \cup {f}, w) /\ Within(fs, w) \subseteq fs /\ Within(fs \cup {f}, w) \subseteq fs \cup {f}
    BY DEF Within
  <1>3. IsFiniteSet(Within(fs, w)) /\ IsFiniteSet(Within(fs \cup {f}, w))
    BY <1>1, <1>2, FS_Subset
  <1>4. Cardinality(Within(fs, w)) \in Nat /\ Cardinality(Within(fs \cup {f}, w)) \in Nat
        /\ Cardinality(Within(fs, w)) <= Cardinality(Within(fs \cup {f}, w))
    BY <1>2, <1>3, FS_Subset, FS_CardinalityType
  <1>5. ASSUME f.reason = "upstream_error", f.at >= w, f \notin fs
        PROVE  Cardinality(Within(fs \cup {f}, w)) = Cardinality(Within(fs, w)) + 1
    <2>1. Within(fs \cup {f}, w) = Within(fs, w) \cup {f} /\ f \notin Within(fs, w)
      BY <1>5 DEF Within
    <2> QED
      BY <1>3, <2>1, FS_AddElement
  <1> QED
    BY <1>3, <1>4, <1>5

\* What one failure more makes of the state of a model.
FailedNow(f, fs, reason, delay) ==
  /\ f \in Failure /\ f \notin fs /\ f.reason = reason /\ f.at = modelClock
  /\ f.until = IF reason = "rate_limited" THEN modelClock + delay ELSE 0

\* The state `next` of a model waits as long as it did and as failure f asks for, and counts f.
Advanced(next, st, fs, f) ==
  /\ next.cooldown \in Nat /\ next.cooldown >= st.cooldown /\ next.cooldown >= f.until
  /\ next.failures >= 1 /\ next.version = st.version /\ next.reason = f.reason /\ next.window <= modelClock
  /\ Enough(next, fs \cup {f})
  /\ f.reason = "upstream_error" /\ next.cooldown > st.cooldown
       => Cardinality({g \in fs \cup {f} : g.reason = "upstream_error" /\ g.at + TransientWindow > modelClock}) >= TransientThreshold

LEMMA NextFacts ==
  ASSUME ModelTypes, NEW st \in Stored, st.window <= modelClock,
         NEW reason \in {"upstream_error", "rate_limited"}, NEW delay \in Nat,
         NEW fs, IsFiniteSet(fs), fs \subseteq Failure, Enough(st, fs),
         NEW f, FailedNow(f, fs, reason, delay)
  PROVE  Advanced(cooled(counted(st, reason), delay), st, fs, f)
  <1> DEFINE next == cooled(counted(st, reason), delay)
  <1>0. /\ f \in Failure /\ f \notin fs /\ f.reason = reason /\ f.at = modelClock
        /\ f.until = IF reason = "rate_limited" THEN modelClock + delay ELSE 0
    BY DEF FailedNow
  <1>01. next = cooled(counted(st, reason), delay)
    OBVIOUS
  <1> HIDE DEF next
  <1>1. modelClock \in Nat
    BY DEF ModelTypes
  <1> DEFINE more == counted(st, reason)
             begins == windowBegins(st, reason)
             many == minOf(FailureCap, (IF begins THEN 0 ELSE st.failures) + 1)
             opened == IF begins THEN modelClock ELSE st.window
             until == maxOf(more.cooldown, asked(more, delay))
  <1>2. many \in 0..FailureCap /\ many >= 1 /\ many <= (IF begins THEN 0 ELSE st.failures) + 1 /\ opened \in Nat /\ opened <= modelClock
    <2>1. st.failures \in 0..FailureCap /\ st.window \in Nat
      BY DEF Stored
    <2> HIDE DEF begins
    <2> QED
      BY <1>1, <2>1, RuntimeAssumption DEF minOf
  <1>3. more = [st EXCEPT !.failures = many, !.window = opened, !.reason = reason]
    BY Zenon DEF counted
  <1>4. opened + TransientWindow > modelClock \/ reason # "upstream_error"
    <2>1. CASE begins
      BY <1>1, <2>1, RuntimeAssumption
    <2>2. CASE ~begins
      <3>1. reason = "upstream_error" => ~(modelClock - st.window >= TransientWindow)
        BY <2>2 DEF windowBegins
      <3>2. st.window \in Nat
        BY DEF Stored
      <3> QED
        BY <1>1, <2>2, <3>1, <3>2, RuntimeAssumption
    <2> QED
      BY <2>1, <2>2
  <1>5. many <= Cardinality(Within(fs \cup {f}, opened)) \/ reason # "upstream_error"
    <2> SUFFICES ASSUME reason = "upstream_error" PROVE many <= Cardinality(Within(fs \cup {f}, opened))
      OBVIOUS
    <2>1. f.at >= opened /\ f.reason = "upstream_error" /\ f \notin fs /\ IsFiniteSet(fs)
      BY <1>0, <1>2
    <2>2. Cardinality(Within(fs \cup {f}, opened)) = Cardinality(Within(fs, opened)) + 1 /\ Cardinality(Within(fs, opened)) \in Nat
      BY ONLY <2>1, WithinGrows
    <2>3. CASE begins
      <3>1. many <= 1
        BY <1>2, <2>3
      <3> QED
        BY <1>2, <2>2, <3>1
    <2>4. CASE ~begins
      <3>1. st.reason = reason /\ opened = st.window
        BY <2>4 DEF windowBegins
      <3>2. st.failures <= Cardinality(Within(fs, opened))
        BY <3>1 DEF Enough
      <3>3. st.failures \in 0..FailureCap
        BY DEF Stored
      <3>4. many <= st.failures + 1
        BY <1>2, <2>4
      <3> QED
        BY <1>2, <2>2, <3>2, <3>3, <3>4, RuntimeAssumption
    <2> QED
      BY <2>3, <2>4
  <1> HIDE DEF many, opened, begins, more
  <1>6. /\ more.cooldown = st.cooldown /\ more.failures = many /\ more.window = opened /\ more.reason = reason
        /\ more.version = st.version /\ more \in Stored
    BY <1>2, <1>3 DEF Stored
  <1>7. st.cooldown \in Nat
    BY DEF Stored
  <1>8. asked(more, delay) \in Nat /\ asked(more, delay) >= f.until
        /\ (reason = "upstream_error" /\ many < TransientThreshold => asked(more, delay) = 0)
    <2>0. "upstream_error" # "rate_limited"
      OBVIOUS
    <2>1. CASE reason = "rate_limited"
      BY <1>0, <1>1, <1>6, <2>0, <2>1 DEF asked
    <2>2. CASE reason # "rate_limited" /\ many >= TransientThreshold
      <3>1. many \in TransientThreshold..FailureCap
        BY <1>2, <2>2, RuntimeAssumption
      <3>2. transientDelay(many) \in Nat
        BY <3>1, DelaysAssumption
      <3>3. asked(more, delay) = modelClock + transientDelay(many)
        BY <1>6, <2>2 DEF asked
      <3>4. ~(many < TransientThreshold)
        BY <1>2, <2>2, RuntimeAssumption
      <3> QED
        BY <1>0, <1>1, <2>2, <3>2, <3>3, <3>4
    <2>3. CASE reason # "rate_limited" /\ ~(many >= TransientThreshold)
      <3>1. asked(more, delay) = 0
        BY <1>6, <2>3 DEF asked
      <3> QED
        BY <1>0, <2>3, <3>1
    <2> QED
      BY <2>1, <2>2, <2>3
  <1>9. next = [more EXCEPT !.cooldown = until]
    BY <1>01, Zenon DEF cooled, more
  <1>10. until \in Nat /\ until >= st.cooldown /\ until >= asked(more, delay) /\ (until = st.cooldown \/ until = asked(more, delay))
    BY <1>6, <1>7, <1>8 DEF maxOf
  <1> HIDE DEF until
  <1>11. next.cooldown = until /\ next.failures = many /\ next.window = opened /\ next.reason = reason /\ next.version = st.version
    BY <1>6, <1>9, <1>10 DEF Stored
  <1>12. Enough(next, fs \cup {f})
    BY <1>5, <1>11 DEF Enough
  <1>13. ASSUME reason = "upstream_error", next.cooldown > st.cooldown
         PROVE  Cardinality({g \in fs \cup {f} : g.reason = "upstream_error" /\ g.at + TransientWindow > modelClock}) >= TransientThreshold
    <2> DEFINE late == {g \in fs \cup {f} : g.reason = "upstream_error" /\ g.at + TransientWindow > modelClock}
    <2>1. ~(many < TransientThreshold)
      BY <1>7, <1>8, <1>10, <1>11, <1>13
    <2>2. Within(fs \cup {f}, opened) \subseteq late
      <3>1. \A g \in fs \cup {f} : g.at \in Nat
        BY <1>0 DEF Failure
      <3> QED
        BY <1>1, <1>2, <1>4, <1>13, <3>1, RuntimeAssumption DEF Within
    <2>3. IsFiniteSet(fs \cup {f}) /\ late \subseteq fs \cup {f}
      BY FS_AddElement
    <2>4. IsFiniteSet(late) /\ Cardinality(late) \in Nat
      BY <2>3, FS_Subset, FS_CardinalityType
    <2> HIDE DEF late
    <2>5. Cardinality(Within(fs \cup {f}, opened)) <= Cardinality(late) /\ Cardinality(Within(fs \cup {f}, opened)) \in Nat
      BY <2>2, <2>4, FS_Subset, WithinGrows
    <2>6. Cardinality(late) >= TransientThreshold
      BY <1>2, <1>5, <1>13, <2>1, <2>4, <2>5, RuntimeAssumption
    <2> QED
      BY <2>6 DEF late
  <1>14. next.cooldown \in Nat /\ next.cooldown >= st.cooldown /\ next.cooldown >= f.until
    <2>1. f.until \in Nat
      BY <1>0 DEF Failure
    <2> QED
      BY <1>7, <1>8, <1>10, <1>11, <2>1
  <1> QED
    BY <1>0, <1>2, <1>11, <1>12, <1>13, <1>14 DEF Advanced, next

LEMMA WeighedStands ==
  ASSUME UNCHANGED <<lifecycle, resumed, modelClock>>
  PROVE  \A h, r, fs : Weighed(h, r, fs)' <=> Weighed(h, r, fs)
  BY DEF Weighed, lives, inEpoch, Enough, Within

\* Only the state of an object is weighed, and whether it could be written.
LEMMA WeighedAlike ==
  ASSUME NEW h \in Health, NEW g \in Health, NEW r, NEW fs, Weighed(h, r, fs), g.stored = h.stored, h.persistFailed => g.persistFailed
  PROVE  Weighed(g, r, fs)
  BY Offstate DEF Weighed, lives

LEMMA WeighedDropped ==
  ASSUME NEW h, NEW r, NEW fs, Weighed(h, r, fs), ~lives(h) \/ ~h.persistFailed
  PROVE  Weighed(NoState, r, fs)
  BY Offstate DEF Weighed, lives

\* A row that is swept away has expired or was of an earlier epoch.
LEMMA WeighedSwept ==
  ASSUME NEW h, NEW r \in Rows, NEW fs, Weighed(h, r, fs), modelClock \in Nat, fs \subseteq Failure,
         NEW s, s = r \/ (s = NoState /\ (inEpoch(r) => r.cooldown <= modelClock))
  PROVE  Weighed(h, s, fs)
  <1>1. CASE s = r
    BY <1>1
  <1>2. CASE s = NoState /\ (inEpoch(r) => r.cooldown <= modelClock)
    <2>1. ~inEpoch(s) /\ ~s.on
      BY <1>2, Offstate DEF inEpoch
    <2>2. ASSUME NEW f \in fs, f.until > modelClock, ~(lives(h) /\ h.persistFailed) PROVE FALSE
      <3>1. inEpoch(r) /\ r.cooldown >= f.until
        BY <2>2 DEF Weighed
      <3>2. r.cooldown <= modelClock /\ r \in Stored
        BY <1>2, <3>1, Offstate DEF inEpoch, Rows
      <3>3. r.cooldown \in Nat /\ f.until \in Nat
        BY <3>2 DEF Stored, Failure
      <3> QED
        BY <2>2, <3>1, <3>2, <3>3
    <2> QED
      BY <2>1, <2>2 DEF Weighed
  <1> QED
    BY <1>1, <1>2

\* A new object says what the row says, or nothing.
LEMMA WeighedRead ==
  ASSUME NEW h, NEW r \in Rows, NEW fs, Weighed(h, r, fs), ~lives(h), lifecycle \in Nat, modelClock \in Nat, fs \subseteq Failure,
         IsFiniteSet(fs),
         NEW g \in Health, g.stored = IF inEpoch(r) THEN r ELSE
           [on |-> TRUE, lifecycle |-> lifecycle, resumed |-> resumed, version |-> 0,
            cooldown |-> 0, failures |-> 0, reason |-> NoReason, window |-> 0]
  PROVE  Weighed(g, r, fs)
  <1>1. CASE inEpoch(r)
    <2>1. g.stored = r /\ g.on /\ r \in Stored
      BY <1>1, Offstate DEF Rows, inEpoch
    <2>2. r.cooldown \in Nat
      BY <2>1 DEF Stored
    <2>3. r.on
      BY <1>1 DEF inEpoch
    <2> QED
      BY <1>1, <2>1, <2>2, <2>3 DEF Weighed, lives, inEpoch
  <1>2. CASE ~inEpoch(r)
    <2> DEFINE d == [on |-> TRUE, lifecycle |-> lifecycle, resumed |-> resumed, version |-> 0,
                     cooldown |-> 0, failures |-> 0, reason |-> NoReason, window |-> 0]
    <2>1. g.stored = d
      BY <1>2
    <2>2. d.lifecycle = lifecycle /\ d.window = 0 /\ d.reason = NoReason
      OBVIOUS
    <2> HIDE DEF d
    <2>3. Enough(d, fs)
      <3>1. NoReason # "upstream_error"
        BY DEF NoReason
      <3> QED
        BY <2>2, <3>1 DEF Enough
    <2> QED
      BY <1>2, <2>1, <2>2, <2>3 DEF Weighed
  <1> QED
    BY <1>1, <1>2

\* A failure that could not be written: the object holds it.
LEMMA WeighedFailed ==
  ASSUME ModelTypes, NEW h \in Health, NEW r \in Rows, NEW fs, Weighed(h, r, fs), lives(h),
         IsFiniteSet(fs), fs \subseteq Failure,
         NEW reason \in {"upstream_error", "rate_limited"}, NEW delay \in Nat,
         NEW f \in Failure, FailedNow(f, fs, reason, delay),
         NEW next \in Stored, next = cooled(counted(h.stored, reason), delay),
         next.lifecycle = h.stored.lifecycle, next.resumed = h.stored.resumed,
         NEW g \in Health, g.stored = next, g.persistFailed
  PROVE  Weighed(g, r, fs \cup {f})
  <1>0. h.stored \in Stored /\ h.on /\ inEpoch(h.stored) /\ h.stored.window <= modelClock /\ h.stored.lifecycle <= lifecycle
        /\ Enough(h.stored, fs)
    BY Offstate DEF lives, Weighed
  <1>1. /\ next.cooldown \in Nat /\ next.cooldown >= h.stored.cooldown /\ next.cooldown >= f.until
        /\ next.failures >= 1 /\ next.version = h.stored.version /\ next.window <= modelClock
        /\ Enough(next, fs \cup {f})
    <2>1. Advanced(next, h.stored, fs, f)
      BY <1>0, NextFacts
    <2> QED
      BY <2>1 DEF Advanced
  <1>2. h.stored.cooldown \in Nat /\ \A e \in fs \cup {f} : e.until \in Nat
    BY <1>0 DEF Stored, Failure
  <1>3. r.on => r.cooldown \in Nat /\ r.failures \in Nat
    <2>1. r.on => r \in Stored
      BY Offstate DEF Rows
    <2>2. \A x \in Stored : x.cooldown \in Nat /\ x.failures \in 0..FailureCap
      BY DEF Stored
    <2>3. \A x \in 0..FailureCap : x \in Nat
      BY RuntimeAssumption
    <2> QED
      BY ONLY <2>1, <2>2, <2>3
  <1>4. lives(g) /\ g.on
    BY <1>0, Offstate DEF lives, inEpoch
  <1>5. ASSUME NEW e \in fs \cup {f}, e.until > modelClock PROVE g.stored.cooldown >= e.until
    <2>1. CASE e = f
      BY <1>1, <2>1
    <2>2. CASE e \in fs
      <3>1. h.stored.cooldown >= e.until
        BY <1>5, <2>2 DEF Weighed
      <3> QED
        BY <1>1, <1>2, <3>1
    <2> QED
      BY <2>1, <2>2
  <1>6. inEpoch(r) => g.stored.version = r.version /\ g.stored.cooldown >= r.cooldown
    <2>1. inEpoch(r) => r.on /\ h.stored.version = r.version /\ h.stored.cooldown >= r.cooldown
      BY DEF Weighed, inEpoch
    <2> QED
      BY <1>1, <1>2, <1>3, <2>1
  <1>7. inEpoch(r) => Enough(r, fs \cup {f})
    <2>1. inEpoch(r) => Enough(r, fs) /\ r.on
      BY DEF Weighed, inEpoch
    <2>2. /\ Cardinality(Within(fs, r.window)) <= Cardinality(Within(fs \cup {f}, r.window))
          /\ Cardinality(Within(fs, r.window)) \in Nat /\ Cardinality(Within(fs \cup {f}, r.window)) \in Nat
      BY WithinGrows
    <2> QED
      BY <1>3, <2>1, <2>2 DEF Enough
  <1>8. /\ r.on => r.failures >= 1 /\ r.lifecycle <= lifecycle /\ r.window <= modelClock
        /\ g.stored.lifecycle <= lifecycle /\ g.stored.window <= modelClock /\ Enough(g.stored, fs \cup {f})
    BY <1>0, <1>1 DEF Weighed
  <1> QED
    BY <1>4, <1>5, <1>6, <1>7, <1>8 DEF Weighed

\* A failure that is written: the row holds it too.
LEMMA WeighedWritten ==
  ASSUME ModelTypes, NEW h \in Health, NEW r \in Rows, NEW fs, Weighed(h, r, fs), lives(h),
         IsFiniteSet(fs), fs \subseteq Failure,
         NEW reason \in {"upstream_error", "rate_limited"}, NEW delay \in Nat,
         NEW f \in Failure, FailedNow(f, fs, reason, delay),
         NEW next \in Stored, next = cooled(counted(h.stored, reason), delay),
         NEW saved \in Stored, saved.lifecycle = h.stored.lifecycle, saved.resumed = h.stored.resumed,
         saved.cooldown = next.cooldown, saved.failures = next.failures, saved.reason = next.reason, saved.window = next.window,
         NEW g \in Health, g.stored = saved
  PROVE  Weighed(g, saved, fs \cup {f})
  <1>0. h.stored \in Stored /\ h.on /\ inEpoch(h.stored) /\ h.stored.window <= modelClock /\ h.stored.lifecycle <= lifecycle
        /\ Enough(h.stored, fs)
    BY Offstate DEF lives, Weighed
  <1>1. /\ next.cooldown \in Nat /\ next.cooldown >= h.stored.cooldown /\ next.cooldown >= f.until
        /\ next.failures >= 1 /\ next.window <= modelClock
        /\ Enough(next, fs \cup {f})
    <2>1. Advanced(next, h.stored, fs, f)
      BY <1>0, NextFacts
    <2> QED
      BY <2>1 DEF Advanced
  <1>2. h.stored.cooldown \in Nat /\ \A e \in fs \cup {f} : e.until \in Nat
    BY <1>0 DEF Stored, Failure
  <1>4. lives(g) /\ g.on /\ inEpoch(saved) /\ saved.on
    <2>1. saved.on
      BY DEF Stored
    <2> QED
      BY <1>0, <2>1, Offstate DEF lives, inEpoch
  <1>5. ASSUME NEW e \in fs \cup {f}, e.until > modelClock PROVE saved.cooldown >= e.until
    <2>1. CASE e = f
      BY <1>1, <2>1
    <2>2. CASE e \in fs
      <3>1. h.stored.cooldown >= e.until
        BY <1>5, <2>2 DEF Weighed
      <3> QED
        BY <1>1, <1>2, <3>1
    <2> QED
      BY <2>1, <2>2
  <1>6. Enough(saved, fs \cup {f})
    BY <1>1 DEF Enough
  <1>7. saved.cooldown \in Nat /\ saved.lifecycle <= lifecycle
    BY <1>0, <1>1
  <1> QED
    BY <1>1, <1>4, <1>5, <1>6, <1>7 DEF Weighed

\* A success clears what has expired; its row is the one it was read from or of another epoch.
LEMMA WeighedCleared ==
  ASSUME NEW h \in Health, NEW r \in Rows, NEW fs, Weighed(h, r, fs), h.stored.cooldown <= modelClock, modelClock \in Nat,
         IsFiniteSet(fs), fs \subseteq Failure,
         NEW g \in Health, g.stored.lifecycle = h.stored.lifecycle, g.stored.resumed = h.stored.resumed,
         g.stored.window = h.stored.window, g.stored.cooldown = 0, g.stored.failures = 0,
         NEW s, s = IF inEpoch(r) /\ r.version = h.stored.version /\ inEpoch(h.stored) THEN NoState ELSE r
  PROVE  Weighed(g, s, fs)
  <1>0. h.on /\ g.on /\ h.stored \in Stored /\ g.stored \in Stored /\ h.stored.on /\ g.stored.on
    BY Offstate
  <1>1. lives(g) <=> lives(h)
    BY <1>0 DEF lives, inEpoch
  <1>2. h.stored.cooldown \in Nat /\ \A e \in fs : e.until \in Nat
    BY <1>0 DEF Stored, Failure
  <1>3. Enough(g.stored, fs)
    <2>1. Cardinality(Within(fs, g.stored.window)) \in Nat
      BY WithinGrows
    <2> QED
      BY <2>1 DEF Enough
  <1>4. g.stored.lifecycle <= lifecycle /\ g.stored.window <= modelClock
    BY <1>0 DEF Weighed
  <1>5. CASE lives(h)
    <2>1. \A e \in fs : ~(e.until > modelClock)
      BY <1>2, <1>5 DEF Weighed
    <2>2. ~inEpoch(s) /\ (s = NoState \/ s = r)
      <3>1. inEpoch(h.stored)
        BY <1>5 DEF lives
      <3>2. inEpoch(r) => r.version = h.stored.version
        BY <1>5 DEF Weighed
      <3>3. ~inEpoch(NoState)
        BY Offstate DEF inEpoch
      <3> QED
        BY <3>1, <3>2, <3>3
    <2>3. s.on => s.failures >= 1 /\ s.lifecycle <= lifecycle /\ s.window <= modelClock
      BY <2>2, Offstate DEF Weighed
    <2> QED
      BY <1>3, <1>4, <2>1, <2>2, <2>3 DEF Weighed
  <1>6. CASE ~lives(h)
    <2>1. ~inEpoch(h.stored) /\ s = r
      BY <1>0, <1>6 DEF lives
    <2> QED
      BY <1>1, <1>4, <1>6, <2>1 DEF Weighed
  <1> QED
    BY <1>5, <1>6

\* The parts of the invariant after a step that leaves the epoch and the clock.
LEMMA FailThen ==
  ASSUME UNCHANGED <<lifecycle, resumed, modelClock>>,
         failuresSeen' = [m \in Models |-> failuresSeen'[m]],
         \A m \in Models : FailSet(failuresSeen'[m], sequence'),
         \A m \in Models : Weighed(modelHealth'[m], modelRow'[m], failuresSeen'[m]),
         NewerAll(leases', modelHealth', failuresSeen')
  PROVE  FailInv'
  <1>1. (\A m \in Models : Weighed(modelHealth[m], modelRow[m], failuresSeen[m]))'
    BY DEF Weighed, lives, inEpoch, Enough, Within
  <1>2. NewerAll(leases, modelHealth, failuresSeen)'
    BY DEF NewerAll, Newer, lives, inEpoch
  <1>3. (\A m \in Models : FailSet(failuresSeen[m], sequence))'
    BY DEF FailSet
  <1> QED
    BY <1>1, <1>2, <1>3 DEF FailInv

LEMMA FailureIs ==
  ASSUME ModelInv, FailInv, NEW m \in Models, NEW reason \in {"upstream_error", "rate_limited"}, NEW delay \in Nat,
         NEW f, f = failure(m, reason, delay), NEW fs, fs = failuresSeen[m]
  PROVE  /\ f \in Failure /\ FailedNow(f, fs, reason, delay)
         /\ IsFiniteSet(fs) /\ fs \subseteq Failure
         /\ FailSet(fs \cup {f}, sequence + 1) /\ \A g \in fs \cup {f} : g.sequence <= sequence + 1
  <1>1. IsFiniteSet(fs) /\ fs \subseteq Failure /\ sequence \in Nat /\ modelClock \in Nat
        /\ (\A g \in fs : g.sequence <= sequence /\ g.id < Cardinality(fs))
        /\ (\A g, h \in fs : g.id = h.id => g = h)
    BY ModelGiven DEF FailInv, FailSet
  <1>2. Cardinality(fs) \in Nat
    BY <1>1, FS_CardinalityType
  <1> DEFINE wait == IF reason = "rate_limited" THEN modelClock + delay ELSE 0
  <1>3. wait \in Nat
    BY <1>1
  <1>4. f = [id |-> Cardinality(fs), reason |-> reason, at |-> modelClock, until |-> wait, sequence |-> sequence + 1]
    BY Zenon DEF failure
  <1>5. f \in Failure /\ f.id = Cardinality(fs) /\ f.sequence = sequence + 1 /\ f.reason = reason /\ f.at = modelClock /\ f.until = wait
    <2> HIDE DEF wait
    <2> QED
      BY <1>1, <1>2, <1>3, <1>4 DEF Failure
  <1>6. f \notin fs
    BY <1>1, <1>2, <1>5
  <1>7. FailedNow(f, fs, reason, delay)
    BY <1>5, <1>6 DEF FailedNow
  <1>8. IsFiniteSet(fs \cup {f}) /\ Cardinality(fs \cup {f}) = Cardinality(fs) + 1
    BY <1>1, <1>6, FS_AddElement
  <1>9. \A g \in fs : g.sequence \in Nat /\ g.id \in Nat
    BY <1>1 DEF Failure
  <1>10. \A g \in fs \cup {f} : g.sequence <= sequence + 1 /\ g.id < Cardinality(fs) + 1
    BY <1>1, <1>2, <1>5, <1>9
  <1>11. \A g, h \in fs \cup {f} : g.id = h.id => g = h
    BY <1>1, <1>2, <1>5, <1>9
  <1>12. FailSet(fs \cup {f}, sequence + 1)
    BY <1>1, <1>5, <1>8, <1>10, <1>11 DEF FailSet
  <1> QED
    BY <1>1, <1>5, <1>7, <1>10, <1>12

LEMMA FailSetLater == ASSUME NEW fs, NEW a \in Nat, NEW b \in Nat, a <= b, FailSet(fs, a) PROVE FailSet(fs, b)
  <1>1. \A f \in fs : f.sequence \in Nat
    BY DEF FailSet, Failure
  <1> QED
    BY <1>1 DEF FailSet

LEMMA HealthKnows == ASSUME NEW h \in Health, NEW n \in Nat PROVE [h EXCEPT !.inFlight = n].lastFailure = h.lastFailure
  BY DEF Health

\* What is left of an object when one of its leases ends.
LEMMA LeftIs ==
  ASSUME NEW was \in Health, was.inFlight - 1 \in Nat, NEW left, left = released([was EXCEPT !.inFlight = @ - 1])
  PROVE  \/ left = NoState /\ ~was.persistFailed
         \/ left \in Health /\ left.on /\ left.stored = was.stored /\ left.persistFailed = was.persistFailed
            /\ left.lastFailure = was.lastFailure
  <1> DEFINE less == [was EXCEPT !.inFlight = @ - 1]
  <1>1. /\ less \in Health /\ less.on /\ less.stored = was.stored /\ less.persistFailed = was.persistFailed
        /\ less.lastFailure = was.lastFailure
    BY HealthCount, HealthKnows
  <1>2. left = released(less)
    OBVIOUS
  <1> HIDE DEF less
  <1> QED
    BY <1>1, <1>2 DEF released

\* A lease ends with what it knows of its model.
EndsWith(l, was, fs, gs) ==
  /\ was.inFlight = modelHealth[leases[l].model].inFlight
  /\ Weighed(was, modelRow'[leases[l].model], gs)
  /\ \/ \A f \in gs : f.sequence <= was.lastFailure
     \/ ~lives(was)
     \/ gs = fs /\ was.lastFailure = modelHealth[leases[l].model].lastFailure
        /\ lives(modelHealth[leases[l].model])

LEMMA EndFine ==
  ASSUME ModelInv, FailInv, NEW l \in Leases, leases[l].on, leases[l].own, NEW was \in Health, endLease(l, was),
         UNCHANGED <<lifecycle, resumed, modelClock>>, sequence' \in {sequence, sequence + 1},
         NEW m, m = leases[l].model,
         EndsWith(l, was, failuresSeen[m], failuresSeen'[m]),
         failuresSeen' = [n \in Models |-> failuresSeen'[n]],
         FailSet(failuresSeen'[m], sequence'),
         \A n \in Models \ {m} : failuresSeen'[n] = failuresSeen[n] /\ modelRow'[n] = modelRow[n]
  PROVE  /\ FailInv'
         /\ \/ modelHealth'[m] = NoState /\ ~was.persistFailed
            \/ modelHealth'[m] \in Health /\ modelHealth'[m].stored = was.stored /\ modelHealth'[m].persistFailed = was.persistFailed
         /\ \A n \in Models \ {m} : modelHealth'[n] = modelHealth[n]
         /\ leases'[l] = NoLease /\ \A k \in Leases \ {l} : leases'[k] = leases[k]
  <1> DEFINE left == released([was EXCEPT !.inFlight = @ - 1])
  <1>1. leases' = [leases EXCEPT ![l] = NoLease] /\ modelHealth' = [modelHealth EXCEPT ![m] = left]
    BY DEF endLease
  <1>2. m \in Models /\ modelHealth[m] \in Health
    BY SharedHealth
  <1>3. was.inFlight - 1 \in Nat
    <2>1. modelHealth[m].on
      BY <1>2, Offstate
    <2>2. l \in Owners(leases, m) /\ modelHealth[m].inFlight = Cardinality(Owners(leases, m))
      BY <1>2, <2>1 DEF Counted, Owners, ModelInv
    <2>3. Cardinality(Owners(leases, m)) # 0 /\ Cardinality(Owners(leases, m)) \in Nat
      BY <2>2, OwnersFinite, FS_EmptySet
    <2>4. was.inFlight = modelHealth[m].inFlight
      BY DEF EndsWith
    <2> QED
      BY <2>2, <2>3, <2>4
  <1>4. \/ left = NoState /\ ~was.persistFailed
        \/ left \in Health /\ left.on /\ left.stored = was.stored /\ left.persistFailed = was.persistFailed
           /\ left.lastFailure = was.lastFailure
    BY <1>3, LeftIs
  <1> HIDE DEF left
  <1>5. /\ leases'[l] = NoLease /\ \A k \in Leases \ {l} : leases'[k] = leases[k]
        /\ modelHealth'[m] = left /\ \A n \in Models \ {m} : modelHealth'[n] = modelHealth[n]
    BY <1>1, <1>2 DEF ModelInv, ModelTypes
  <1>6. Weighed(left, modelRow'[m], failuresSeen'[m])
    <2>1. Weighed(was, modelRow'[m], failuresSeen'[m])
      BY DEF EndsWith
    <2>2. CASE left = NoState /\ ~was.persistFailed
      BY <2>1, <2>2, WeighedDropped
    <2>3. CASE left \in Health /\ left.stored = was.stored /\ left.persistFailed = was.persistFailed
      BY <2>1, <2>3, WeighedAlike
    <2> QED
      BY <1>4, <2>2, <2>3
  <1>7. \A n \in Models : Weighed(modelHealth'[n], modelRow'[n], failuresSeen'[n])
    <2>1. \A n \in Models : Weighed(modelHealth[n], modelRow[n], failuresSeen[n])
      BY DEF FailInv
    <2> QED
      BY <1>5, <1>6, <2>1
  <1>8. \A n \in Models : FailSet(failuresSeen'[n], sequence')
    <2> TAKE n \in Models
    <2>1. sequence \in Nat /\ sequence + 1 \in Nat /\ sequence <= sequence /\ sequence <= sequence + 1
      BY <1>2, ModelGiven
    <2>2. FailSet(failuresSeen[n], sequence)
      BY DEF FailInv
    <2>3. CASE n = m
      BY <2>3
    <2>4. CASE n # m
      BY <2>1, <2>2, <2>4, FailSetLater
    <2> QED
      BY <2>3, <2>4
  <1>9. NewerAll(leases', modelHealth', failuresSeen')
    <2> SUFFICES ASSUME NEW k \in Leases, leases'[k].on
                 PROVE  Newer(leases'[k], modelHealth'[leases'[k].model], failuresSeen'[leases'[k].model])
      BY DEF NewerAll
    <2>1. k # l /\ leases'[k] = leases[k]
      BY <1>5 DEF NoLease
    <2>2. leases[k].model \in Models
      <3>1. leases[k] \in Lease
        BY <2>1 DEF ModelInv, ModelTypes, NoLease
      <3> QED
        BY <3>1 DEF Lease
    <2>3. Newer(leases[k], modelHealth[leases[k].model], failuresSeen[leases[k].model])
      BY <2>1 DEF FailInv, NewerAll
    <2>4. CASE leases[k].model = m
      <3>1. CASE ~lives(left)
        BY <1>5, <2>1, <2>4, <3>1 DEF Newer
      <3>2. CASE lives(left)
        <4>1. left.stored = was.stored /\ left.lastFailure = was.lastFailure /\ lives(was)
          <5>1. left.on
            BY <3>2 DEF lives
          <5>2. left.stored = was.stored /\ left.lastFailure = was.lastFailure
            BY <1>4, <5>1, Offstate
          <5> QED
            BY <3>2, <5>2, Offstate DEF lives
        <4>2. CASE \A f \in failuresSeen'[m] : f.sequence <= was.lastFailure
          BY <1>5, <2>1, <2>4, <4>1, <4>2 DEF Newer
        <4>3. CASE failuresSeen'[m] = failuresSeen[m] /\ was.lastFailure = modelHealth[m].lastFailure /\ lives(modelHealth[m])
          BY <1>5, <2>1, <2>3, <2>4, <4>1, <4>3 DEF Newer
        <4> QED
          BY <4>1, <4>2, <4>3 DEF EndsWith
      <3> QED
        BY <3>1, <3>2
    <2>5. CASE leases[k].model # m
      BY <1>5, <2>1, <2>2, <2>3, <2>5
    <2> QED
      BY <2>4, <2>5
  <1>10. FailInv'
    BY <1>7, <1>8, <1>9, FailThen
  <1> QED
    BY <1>4, <1>5, <1>10

\* A lease that still shares an object is as it was when the others are disowned.
LEMMA SweptKeep ==
  ASSUME ModelInv, NEW ls, ls = disowned({m \in Models : superseded(m)}), NEW l \in Leases, ls[l].on
  PROVE  /\ leases[l].on /\ leases[l].model \in Models /\ ls[l].model = leases[l].model
         /\ ls[l].own => ls[l] = leases[l] /\ ~superseded(leases[l].model)
  <1>1. leases[l].on /\ ls[l].model = leases[l].model
    BY SweptLeases
  <1>2. leases[l] \in Lease
    BY <1>1 DEF ModelInv, ModelTypes, NoLease
  <1>3. leases[l].model \in Models
    BY <1>2 DEF Lease
  <1>4. CASE superseded(leases[l].model)
    <2>1. ls[l] = [leases[l] EXCEPT !.own = FALSE]
      BY <1>1, <1>4, Swept
    <2>2. ls[l].own = FALSE
      BY <1>2, <2>1, DisownedLease
    <2> QED
      BY <1>1, <1>3, <2>2
  <1>5. CASE ~superseded(leases[l].model)
    <2>1. ls[l] = leases[l]
      BY <1>5, Swept
    <2> QED
      BY <1>1, <1>3, <1>5, <2>1
  <1> QED
    BY <1>4, <1>5

\* What the sweep leaves of a model's row and object.
LEMMA SweptFine ==
  ASSUME ModelInv, FailInv, NEW m \in Models
  PROVE  /\ DeleteObsoleteModelRuntime[m] \in Rows
         /\ Weighed(modelHealth[m], DeleteObsoleteModelRuntime[m], failuresSeen[m])
         /\ Weighed(currentHealth[m], DeleteObsoleteModelRuntime[m], failuresSeen[m])
         /\ IsFiniteSet(failuresSeen[m]) /\ failuresSeen[m] \subseteq Failure
  <1> DEFINE s == DeleteObsoleteModelRuntime[m]
  <1>1. s = IF inEpoch(modelRow[m]) /\ (modelRow[m].cooldown > modelClock \/ m \in offered) THEN modelRow[m] ELSE NoState
    BY Zenon DEF DeleteObsoleteModelRuntime
  <1>2. modelHealth[m] \in Healths /\ modelRow[m] \in Rows /\ modelClock \in Nat
    BY ModelGiven
  <1>3. s = modelRow[m] \/ (s = NoState /\ (inEpoch(modelRow[m]) => modelRow[m].cooldown <= modelClock))
    <2>1. inEpoch(modelRow[m]) => modelRow[m].cooldown \in Nat
      <3>1. inEpoch(modelRow[m]) => modelRow[m] \in Stored
        BY <1>2, Offstate DEF Rows, inEpoch
      <3> QED
        BY <3>1 DEF Stored
    <2> QED
      BY <1>1, <1>2, <2>1
  <1>4. /\ Weighed(modelHealth[m], modelRow[m], failuresSeen[m])
        /\ IsFiniteSet(failuresSeen[m]) /\ failuresSeen[m] \subseteq Failure
    BY DEF FailInv, FailSet
  <1>5. s \in Rows
    BY <1>2, <1>3 DEF Rows
  <1> HIDE DEF s
  <1>6. Weighed(modelHealth[m], s, failuresSeen[m])
    BY <1>2, <1>3, <1>4, WeighedSwept
  <1>7. Weighed(currentHealth[m], s, failuresSeen[m])
    <2>1. CASE superseded(m)
      <3>1. currentHealth[m] = NoState
        BY <2>1 DEF currentHealth
      <3>2. ~lives(modelHealth[m])
        BY <2>1 DEF superseded, lives
      <3> QED
        BY <1>6, <3>1, <3>2, WeighedDropped
    <2>2. CASE ~superseded(m)
      BY <1>6, <2>2 DEF currentHealth
    <2> QED
      BY <2>1, <2>2
  <1> QED
    BY <1>4, <1>5, <1>6, <1>7 DEF s

\* What is known of a model: its object, or its row, or nothing.
Known(h, r) ==
  IF lives(h) THEN h.stored ELSE IF inEpoch(r) THEN r
  ELSE [on |-> TRUE, lifecycle |-> lifecycle, resumed |-> resumed, version |-> 0,
        cooldown |-> 0, failures |-> 0, reason |-> NoReason, window |-> 0]

LEMMA KnownIs == ASSUME NEW m PROVE knownState(m) = Known(modelHealth[m], modelRow[m])
  BY DEF knownState, readModelRuntime, GetAccountModelRuntime, Known, lives

LEMMA KnownThen ==
  ASSUME NEW m, UNCHANGED <<lifecycle, resumed>> PROVE (knownState(m))' = Known(modelHealth'[m], modelRow'[m])
  BY DEF knownState, readModelRuntime, GetAccountModelRuntime, Known, lives, inEpoch

(* What a step of an epoch makes of the row and of the object of a model.     *)

\* Nothing, or the last lease of an object whose row was written drops it.
Stays(m) ==
  /\ modelRow'[m] = modelRow[m]
  /\ \/ /\ lives(modelHealth[m]) /\ lives(modelHealth'[m]) /\ modelHealth'[m].stored = modelHealth[m].stored
        /\ modelHealth[m].persistFailed => modelHealth'[m].persistFailed
     \/ ~lives(modelHealth'[m]) /\ (lives(modelHealth[m]) => ~modelHealth[m].persistFailed)

\* The row is swept, and an object is read from it when there was none.
Sweeps(m) ==
  /\ modelRow'[m] = DeleteObsoleteModelRuntime[m]
  /\ IF lives(modelHealth[m])
     THEN /\ lives(modelHealth'[m]) /\ modelHealth'[m].stored = modelHealth[m].stored
          /\ modelHealth'[m].persistFailed = modelHealth[m].persistFailed
     ELSE lives(modelHealth'[m]) => modelHealth'[m].stored = Known(modelHealth[m], modelRow'[m])

\* A success ends what is known.
Clears(m) ==
  /\ clearedBySuccess(m) /\ modelRow'[m] \in {modelRow[m], NoState}
  /\ lives(modelHealth'[m]) => modelHealth'[m].stored.cooldown = 0

\* A failure is known, by the object when it could not be written.
Fails(m) ==
  /\ Known(modelHealth'[m], modelRow'[m]).failures > 0
  /\ inEpoch(modelRow[m]) => inEpoch(modelRow'[m]) /\ modelRow'[m].failures > 0
  /\ lives(modelHealth'[m]) => \/ modelHealth'[m].persistFailed
                               \/ inEpoch(modelRow'[m]) /\ modelHealth'[m].stored.cooldown <= modelRow'[m].cooldown

\* The process starts again and has no object.
Loses(m) == modelRow'[m] = modelRow[m] /\ ~lives(modelHealth'[m]) /\ sequence' = 0

Moves(m) ==
  IF UNCHANGED <<lifecycle, resumed>>
  THEN Stays(m) \/ Sweeps(m) \/ Clears(m) \/ Fails(m) \/ Loses(m)
  ELSE ~(lives(modelHealth[m]))'

LEMMA LoadFine == ASSUME ModelInv, FailInv, loadRuntimeRows PROVE FailInv' /\ \A m \in Models : Sweeps(m)
  <1> DEFINE ls == disowned({m \in Models : superseded(m)})
  <1>1. /\ modelRow' = DeleteObsoleteModelRuntime /\ modelHealth' = currentHealth /\ leases' = ls
        /\ UNCHANGED <<lifecycle, resumed, sequence, modelClock, failuresSeen>>
    BY DEF loadRuntimeRows
  <1>2. ls = disowned({m \in Models : superseded(m)})
    OBVIOUS
  <1> HIDE DEF ls
  <1>3. \A m \in Models : Weighed(modelHealth'[m], modelRow'[m], failuresSeen'[m])
    BY <1>1, SweptFine
  <1>4. NewerAll(leases', modelHealth', failuresSeen')
    <2> SUFFICES ASSUME NEW k \in Leases, ls[k].on
                 PROVE  Newer(ls[k], currentHealth[ls[k].model], failuresSeen[ls[k].model])
      BY <1>1 DEF NewerAll
    <2>1. /\ leases[k].on /\ leases[k].model \in Models /\ ls[k].model = leases[k].model
          /\ ls[k].own => ls[k] = leases[k] /\ ~superseded(leases[k].model)
      BY <1>2, SweptKeep
    <2>2. Newer(leases[k], modelHealth[leases[k].model], failuresSeen[leases[k].model])
      BY <2>1 DEF FailInv, NewerAll
    <2>3. CASE ls[k].own
      <3>1. currentHealth[leases[k].model] = modelHealth[leases[k].model]
        BY <2>1, <2>3 DEF currentHealth
      <3> QED
        BY <2>1, <2>2, <2>3, <3>1
    <2>4. CASE ~ls[k].own
      BY <2>4 DEF Newer
    <2> QED
      BY <2>3, <2>4
  <1>5. ASSUME NEW m \in Models PROVE Sweeps(m)
    <2>1. CASE superseded(m)
      BY <1>1, <2>1, Offstate DEF Sweeps, currentHealth, superseded, lives
    <2>2. CASE ~superseded(m)
      <3>1. modelHealth'[m] = modelHealth[m] /\ (lives(modelHealth[m]) \/ ~modelHealth[m].on)
        BY <1>1, <2>2 DEF currentHealth, superseded, lives
      <3> QED
        BY <1>1, <3>1 DEF Sweeps, lives
    <2> QED
      BY <2>1, <2>2
  <1> QED
    BY <1>1, <1>3, <1>4, <1>5, FailThen DEF FailInv

\* The object that a new lease shares weighs every failure, and waits for none of them.
LEMMA LeaseFine ==
  ASSUME ModelInv, FailInv, NEW l \in Leases, NEW m \in Models, NEW check \in BOOLEAN, modelLease(l, m, check)
  PROVE  /\ FailInv' /\ \A n \in Models : Sweeps(n)
         /\ \A f \in failuresSeen[m] : f.until <= modelClock
         /\ ~leases[l].on /\ leases'[l].model = m
         /\ \A k \in Leases \ {l} : leases'[k].on <=> leases[k].on
  <1> DEFINE ls == disowned({n \in Models : superseded(n)})
             was == readModelRuntime(DeleteObsoleteModelRuntime, m)
             recovers == was.stored.cooldown > 0 /\ was.stored.failures > 0
             object == [was EXCEPT !.inFlight = @ + 1]
             new == [on |-> TRUE, model |-> m, check |-> check, own |-> TRUE, sequence |-> sequence + 1,
                     lifecycle |-> lifecycle, resumed |-> resumed, probe |-> recovers]
             row == DeleteObsoleteModelRuntime[m]
  <1>1. /\ ~leases[l].on
        /\ modelRow' = DeleteObsoleteModelRuntime
        /\ modelRuntimeAdmission(was)
        /\ modelHealth' = [currentHealth EXCEPT ![m] = object]
        /\ leases' = [ls EXCEPT ![l] = new]
        /\ sequence' = IF check THEN sequence ELSE sequence + 1
        /\ UNCHANGED <<lifecycle, resumed, modelClock, failuresSeen>>
    BY Zenon DEF modelLease
  <1>2. was.stored.cooldown <= modelClock
    BY <1>1 DEF modelRuntimeAdmission
  <1>3. new.on /\ new.model = m /\ new.sequence = sequence + 1
    OBVIOUS
  <1>4. was = readModelRuntime(DeleteObsoleteModelRuntime, m) /\ ls = disowned({n \in Models : superseded(n)})
        /\ row = DeleteObsoleteModelRuntime[m]
    OBVIOUS
  <1> HIDE DEF new, was, ls, row
  <1>5. /\ was \in Health /\ was.stored.lifecycle = lifecycle /\ was.stored.resumed = resumed
        /\ was.inFlight = IF currentHealth[m].on THEN currentHealth[m].inFlight ELSE 0
        /\ currentHealth[m].on => currentHealth[m] = was
    BY <1>4, ReadState
  <1>6. object \in Health /\ object.stored = was.stored /\ object.on /\ object.persistFailed = was.persistFailed
        /\ object.lastFailure = was.lastFailure
    <2>1. was.inFlight + 1 \in Nat
      BY <1>5 DEF Health
    <2> QED
      BY <1>5, <2>1, HealthCount, HealthKnows
  <1> HIDE DEF object
  <1>7. /\ leases'[l] = new /\ \A k \in Leases \ {l} : leases'[k] = ls[k]
        /\ modelHealth'[m] = object /\ \A n \in Models \ {m} : modelHealth'[n] = currentHealth[n]
        /\ \A k \in Leases : ls[k].on <=> leases[k].on
    <2>1. ls = [k \in Leases |-> ls[k]] /\ currentHealth = [n \in Models |-> currentHealth[n]]
      BY <1>4, Swept
    <2>2. \A k \in Leases : ls[k].on <=> leases[k].on
      BY <1>4, SweptLeases
    <2> QED
      BY <1>1, <2>1, <2>2
  <1>8. sequence \in Nat /\ modelClock \in Nat /\ lifecycle \in Nat /\ modelHealth[m] \in Healths
    BY ModelGiven
  <1>9. /\ row \in Rows /\ Weighed(modelHealth[m], row, failuresSeen[m])
        /\ IsFiniteSet(failuresSeen[m]) /\ failuresSeen[m] \subseteq Failure
    BY <1>4, SweptFine
  <1>10. lives(object)
    BY <1>5, <1>6, Offstate DEF lives, inEpoch
  <1>11. Weighed(object, row, failuresSeen[m])
    <2>1. CASE lives(modelHealth[m])
      <3>1. was = modelHealth[m]
        BY <1>4, <2>1 DEF readModelRuntime, lives
      <3> QED
        BY <1>5, <1>6, <1>9, <3>1, WeighedAlike
    <2>2. CASE ~lives(modelHealth[m])
      <3>1. was.stored = GetAccountModelRuntime(DeleteObsoleteModelRuntime, m)
        BY <1>4, <2>2 DEF readModelRuntime, lives
      <3>2. object.stored = IF inEpoch(row) THEN row ELSE
              [on |-> TRUE, lifecycle |-> lifecycle, resumed |-> resumed, version |-> 0,
               cooldown |-> 0, failures |-> 0, reason |-> NoReason, window |-> 0]
        BY <1>4, <1>6, <3>1 DEF GetAccountModelRuntime
      <3> QED
        BY <1>6, <1>8, <1>9, <2>2, <3>2, WeighedRead
    <2> QED
      BY <2>1, <2>2
  <1>12. \A n \in Models : Weighed(modelHealth'[n], modelRow'[n], failuresSeen'[n])
    BY <1>1, <1>4, <1>7, <1>11, SweptFine
  <1>13. \A f \in failuresSeen[m] : f.until <= modelClock
    <2> SUFFICES ASSUME NEW f \in failuresSeen[m], f.until > modelClock PROVE FALSE
      <3>1. \A f \in failuresSeen[m] : f.until \in Nat
        BY <1>9 DEF Failure
      <3> QED
        BY <1>8, <3>1
    <2>1. object.stored.cooldown >= f.until
      BY <1>10, <1>11 DEF Weighed
    <2>2. object.stored.cooldown \in Nat /\ f.until \in Nat
      BY <1>5, <1>6, <1>9, Offstate DEF Stored, Failure
    <2> QED
      BY <1>2, <1>6, <1>8, <2>1, <2>2
  <1>14. NewerAll(leases', modelHealth', failuresSeen')
    <2> SUFFICES ASSUME NEW k \in Leases, leases'[k].on
                 PROVE  Newer(leases'[k], modelHealth'[leases'[k].model], failuresSeen[leases'[k].model])
      BY <1>1 DEF NewerAll
    <2>1. CASE k = l
      <3>1. \A f \in failuresSeen[m] : f.sequence <= sequence /\ f.sequence \in Nat
        BY <1>9 DEF FailInv, FailSet, Failure
      <3>2. \A f \in failuresSeen[m] : f.sequence < new.sequence
        BY <1>3, <1>8, <3>1
      <3> QED
        BY <1>3, <1>7, <2>1, <3>2 DEF Newer
    <2>2. CASE k # l
      <3>1. leases'[k] = ls[k] /\ ls[k].on
        BY <1>7, <2>2
      <3>2. /\ leases[k].on /\ leases[k].model \in Models /\ ls[k].model = leases[k].model
            /\ ls[k].own => ls[k] = leases[k] /\ ~superseded(leases[k].model)
        BY <1>4, <3>1, SweptKeep
      <3>3. Newer(leases[k], modelHealth[leases[k].model], failuresSeen[leases[k].model])
        BY <3>2 DEF FailInv, NewerAll
      <3>4. CASE ~ls[k].own
        BY <3>1, <3>4 DEF Newer
      <3>5. CASE ls[k].own
        <4>1. ls[k] = leases[k] /\ currentHealth[leases[k].model] = modelHealth[leases[k].model]
          BY <3>2, <3>5 DEF currentHealth
        <4>2. CASE leases[k].model # m
          BY <1>7, <3>1, <3>2, <3>3, <4>1, <4>2
        <4>3. CASE leases[k].model = m
          <5>1. currentHealth[m].on
            <6>1. SharesObject(k)
              BY <3>2 DEF ModelInv, LeasesShare
            <6> QED
              BY <3>5, <4>1, <4>3, <6>1 DEF SharesObject
          <5>2. lives(modelHealth[m]) /\ object.lastFailure = modelHealth[m].lastFailure
            BY <1>5, <1>6, <1>10, <4>1, <4>3, <5>1 DEF lives
          <5> QED
            BY <1>7, <3>1, <3>3, <4>1, <4>3, <5>2 DEF Newer
        <4> QED
          BY <4>2, <4>3
      <3> QED
        BY <3>4, <3>5
    <2> QED
      BY <2>1, <2>2
  <1>15. \A n \in Models : FailSet(failuresSeen'[n], sequence')
    <2> TAKE n \in Models
    <2>1. FailSet(failuresSeen[n], sequence) /\ sequence' \in {sequence, sequence + 1} /\ failuresSeen' = failuresSeen
      BY <1>1 DEF FailInv
    <2> QED
      BY <1>8, <2>1, FailSetLater
  <1>16. failuresSeen' = [n \in Models |-> failuresSeen'[n]]
    BY <1>1 DEF FailInv
  <1>17. FailInv'
    BY <1>1, <1>12, <1>14, <1>15, <1>16, FailThen
  <1>18. ASSUME NEW n \in Models PROVE Sweeps(n)
    <2>1. modelRow'[n] = DeleteObsoleteModelRuntime[n]
      BY <1>1
    <2>2. CASE n # m
      <3>1. CASE superseded(n)
        BY <1>7, <2>1, <2>2, <3>1, Offstate DEF Sweeps, currentHealth, superseded, lives
      <3>2. CASE ~superseded(n)
        <4>1. modelHealth'[n] = modelHealth[n] /\ (lives(modelHealth[n]) \/ ~modelHealth[n].on)
          BY <1>7, <2>2, <3>2 DEF currentHealth, superseded, lives
        <4> QED
          BY <2>1, <4>1 DEF Sweeps, lives
      <3> QED
        BY <3>1, <3>2
    <2>3. CASE n = m
      <3>1. modelHealth'[m].stored = was.stored /\ modelHealth'[m].persistFailed = was.persistFailed /\ lives(modelHealth'[m])
        BY <1>6, <1>7, <1>10
      <3>2. CASE lives(modelHealth[m])
        <4>1. was = modelHealth[m]
          BY <1>4, <3>2 DEF readModelRuntime, lives
        <4> QED
          BY <2>1, <2>3, <3>1, <3>2, <4>1 DEF Sweeps
      <3>3. CASE ~lives(modelHealth[m])
        <4>1. was.stored = GetAccountModelRuntime(DeleteObsoleteModelRuntime, m)
          BY <1>4, <3>3 DEF readModelRuntime, lives
        <4>2. was.stored = Known(modelHealth[m], DeleteObsoleteModelRuntime[m])
          BY <3>3, <4>1 DEF GetAccountModelRuntime, Known
        <4> QED
          BY <2>1, <2>3, <3>1, <3>3, <4>2 DEF Sweeps
      <3> QED
        BY <3>2, <3>3
    <2> QED
      BY <2>2, <2>3
  <1> QED
    BY <1>1, <1>3, <1>7, <1>13, <1>17, <1>18

\* A failure closes a model for longer.
Closed(m) ==
  /\ failuresSeen'[m] # failuresSeen[m] /\ (knownState(m))'.reason = "upstream_error"
  /\ (knownState(m))'.cooldown > knownState(m).cooldown

\* Where neither changes, and where only a lease of the object ends.
LEMMA SameStays ==
  ASSUME NEW m \in Models, modelRow'[m] = modelRow[m], modelHealth'[m] = modelHealth[m] PROVE Stays(m)
  BY DEF Stays

LEMMA AlikeStays ==
  ASSUME NEW m \in Models, modelRow'[m] = modelRow[m], modelHealth[m] \in Health,
         \/ modelHealth'[m] = NoState /\ ~modelHealth[m].persistFailed
         \/ /\ modelHealth'[m] \in Health /\ modelHealth'[m].stored = modelHealth[m].stored
            /\ modelHealth[m].persistFailed => modelHealth'[m].persistFailed
  PROVE  Stays(m)
  BY Offstate DEF Stays, lives

\* A row has failures.
LEMMA FailuresAre ==
  ASSUME ModelInv, FailInv, NEW m \in Models, inEpoch(modelRow[m]) PROVE modelRow[m].failures > 0
  <1>1. modelRow[m] \in Stored /\ modelRow[m].on
    BY ModelGiven, Offstate DEF Rows, inEpoch
  <1>2. modelRow[m].failures >= 1 /\ modelRow[m].failures \in 0..FailureCap
    BY <1>1 DEF FailInv, Weighed, Stored
  <1> QED
    BY <1>2, RuntimeAssumption

LEMMA FailSameSet == ASSUME ModelInv, FailInv, NEW m \in Models PROVE FailSet(failuresSeen[m], sequence) /\ sequence \in Nat
  BY ModelGiven DEF FailInv

\* A lease that ends without a word leaves what is known.
LEMMA CheckFine ==
  ASSUME ModelInv, FailInv, NEW l \in Leases, leaseModelCheck(l) \/ finishDisowned(l), NEW m, m = leases[l].model
  PROVE  /\ FailInv' /\ \A n \in Models : Stays(n)
         /\ leases'[l] = NoLease /\ \A k \in Leases \ {l} : leases'[k] = leases[k]
         /\ failuresSeen' = failuresSeen
  <1>1. leases[l].on /\ UNCHANGED <<lifecycle, resumed, modelRow, sequence, modelClock, failuresSeen>>
    BY DEF leaseModelCheck, finishDisowned
  <1>2. CASE leaseModelCheck(l) /\ leases[l].own
    <2> DEFINE was == modelHealth[m]
    <2>1. endLease(l, was)
      BY <1>2 DEF leaseModelCheck
    <2>2. m \in Models /\ was \in Health
      BY <1>1, <1>2, SharedHealth
    <2>3. EndsWith(l, was, failuresSeen[m], failuresSeen'[m])
      BY <1>1, <2>2 DEF EndsWith, FailInv
    <2>4. FailSet(failuresSeen'[m], sequence') /\ failuresSeen' = [n \in Models |-> failuresSeen'[n]]
      BY <1>1, <2>2 DEF FailInv
    <2> HIDE DEF was
    <2>5. /\ FailInv'
          /\ \/ modelHealth'[m] = NoState /\ ~was.persistFailed
             \/ modelHealth'[m] \in Health /\ modelHealth'[m].stored = was.stored /\ modelHealth'[m].persistFailed = was.persistFailed
          /\ \A n \in Models \ {m} : modelHealth'[n] = modelHealth[n]
          /\ leases'[l] = NoLease /\ \A k \in Leases \ {l} : leases'[k] = leases[k]
      BY <1>1, <1>2, <2>1, <2>2, <2>3, <2>4, EndFine
    <2>6. Stays(m)
      BY <1>1, <2>2, <2>5, AlikeStays DEF was
    <2>7. \A n \in Models : Stays(n)
      BY <1>1, <2>5, <2>6, SameStays
    <2> QED
      BY <1>1, <2>5, <2>7
  <1>3. CASE finishDisowned(l) \/ (leaseModelCheck(l) /\ ~leases[l].own)
    <2>1. leases' = [leases EXCEPT ![l] = NoLease] /\ modelHealth' = modelHealth
      BY <1>3 DEF leaseModelCheck, finishDisowned
    <2>2. leases'[l] = NoLease /\ \A k \in Leases \ {l} : leases'[k] = leases[k]
      BY <2>1 DEF ModelInv, ModelTypes
    <2>3. NewerAll(leases', modelHealth', failuresSeen')
      BY <1>1, <2>1, <2>2 DEF NewerAll, FailInv, NoLease
    <2>4. FailInv'
      BY <1>1, <2>1, <2>3, FailThen DEF FailInv
    <2>5. \A n \in Models : Stays(n)
      BY <1>1, <2>1, SameStays
    <2> QED
      BY <1>1, <2>2, <2>4, <2>5
  <1> QED
    BY <1>2, <1>3

\* A success clears the failures that its request came after, and nothing else ends them.
LEMMA FinishFine ==
  ASSUME ModelInv, FailInv, NEW l \in Leases, NEW ok \in BOOLEAN, finishModelRuntime(l, ok),
         NEW m, m = leases[l].model
  PROVE  /\ FailInv' /\ \A n \in Models : Stays(n) \/ Clears(n)
         /\ leases'[l] = NoLease /\ \A k \in Leases \ {l} : leases'[k] = leases[k]
         /\ failuresSeen' = failuresSeen
  <1> DEFINE was == modelHealth[m]
             cleared == [was EXCEPT !.stored.failures = 0, !.stored.cooldown = 0, !.persistFailed = FALSE]
             kept == [was EXCEPT !.persistFailed = TRUE]
             fs == failuresSeen[m]
  <1>1. /\ leases[l].on /\ leases[l].own /\ UNCHANGED <<lifecycle, resumed, sequence, modelClock, failuresSeen>>
    BY DEF finishModelRuntime
  <1>2. m \in Models /\ was \in Health /\ was.stored \in Stored
    BY <1>1, SharedHealth
  <1>3. \/ /\ endLease(l, cleared) /\ modelRow' = DeleteAccountModelLimit(m, was.stored) /\ clears(l, was)
           /\ l \in succeeded /\ ~leases[l].check
        \/ endLease(l, kept) /\ modelRow' = modelRow
        \/ endLease(l, was) /\ modelRow' = modelRow
    BY Zenon DEF finishModelRuntime
  <1>4. /\ cleared \in Health /\ cleared.inFlight = was.inFlight /\ cleared.lastFailure = was.lastFailure
        /\ cleared.stored.cooldown = 0 /\ cleared.stored.failures = 0 /\ cleared.stored.window = was.stored.window
        /\ cleared.stored.lifecycle = was.stored.lifecycle /\ cleared.stored.resumed = was.stored.resumed
    BY <1>2, ClearedHealth
  <1> HIDE DEF cleared
  <1>5. kept \in Health /\ kept.stored = was.stored /\ kept.inFlight = was.inFlight /\ kept.lastFailure = was.lastFailure
        /\ kept.persistFailed = TRUE
    <2>1. TRUE \in BOOLEAN
      OBVIOUS
    <2> QED
      BY <1>2, <2>1, ChangedHealth
  <1> HIDE DEF kept
  <1>6. /\ Weighed(was, modelRow[m], fs) /\ FailSet(fs, sequence) /\ IsFiniteSet(fs) /\ fs \subseteq Failure
        /\ failuresSeen' = [n \in Models |-> failuresSeen'[n]]
    BY <1>1, <1>2 DEF FailInv, FailSet
  <1>7. Newer(leases[l], was, fs)
    BY <1>1 DEF FailInv, NewerAll
  <1>8. modelRow[m] \in Rows /\ modelClock \in Nat
    BY <1>2, ModelGiven
  <1>9. failuresSeen'[m] = fs
    BY <1>1
  <1>10. was = modelHealth[m]
    OBVIOUS
  <1> HIDE DEF was, fs
  <1>11. CASE /\ endLease(l, cleared) /\ modelRow' = DeleteAccountModelLimit(m, was.stored) /\ clears(l, was)
              /\ l \in succeeded /\ ~leases[l].check
    <2>1. was.stored.cooldown <= modelClock /\ was.lastFailure < leases[l].sequence
      BY <1>11 DEF clears
    <2>2. modelRow'[m] = IF inEpoch(modelRow[m]) /\ modelRow[m].version = was.stored.version /\ inEpoch(was.stored)
                         THEN NoState ELSE modelRow[m]
      <3>1. modelRow = [n \in Models |-> modelRow[n]] /\ (inEpoch(modelRow[m]) => modelRow[m].on)
        BY DEF ModelInv, ModelTypes, inEpoch
      <3> QED
        BY <1>2, <1>11, <3>1 DEF DeleteAccountModelLimit
    <2>3. \A n \in Models \ {m} : modelRow'[n] = modelRow[n]
      BY <1>11 DEF DeleteAccountModelLimit, ModelInv, ModelTypes
    <2>4. Weighed(cleared, modelRow'[m], fs)
      BY <1>2, <1>4, <1>6, <1>8, <2>1, <2>2, WeighedCleared
    <2>5. lives(cleared) <=> lives(was)
      BY <1>2, <1>4, Offstate DEF lives, inEpoch
    <2>6. EndsWith(l, cleared, fs, failuresSeen'[m])
      BY <1>4, <1>9, <2>4, <2>5 DEF EndsWith, was
    <2>7. /\ FailInv'
          /\ \/ modelHealth'[m] = NoState
             \/ modelHealth'[m] \in Health /\ modelHealth'[m].stored = cleared.stored
          /\ \A n \in Models \ {m} : modelHealth'[n] = modelHealth[n]
          /\ leases'[l] = NoLease /\ \A k \in Leases \ {l} : leases'[k] = leases[k]
      BY <1>1, <1>4, <1>6, <1>9, <1>11, <2>3, <2>6, EndFine DEF fs
    <2>10. \A n \in Models \ {m} : Stays(n)
      BY <2>3, <2>7, SameStays
    <2>8. CASE lives(was)
      <3>1. \A f \in fs : f.sequence < leases[l].sequence
        <4>1. \A f \in fs : f.sequence <= was.lastFailure \/ f.sequence < leases[l].sequence
          BY <1>1, <1>7, <2>8 DEF Newer
        <4>2. \A f \in fs : f.sequence \in Nat
          BY <1>6 DEF Failure
        <4>3. was.lastFailure \in Nat /\ leases[l].sequence \in Nat
          <5>1. leases[l] \in Lease
            BY <1>1 DEF ModelInv, ModelTypes, NoLease
          <5> QED
            BY <1>2, <5>1 DEF Lease, Health
        <4> QED
          BY <2>1, <4>1, <4>2, <4>3
      <3>2. clearedBySuccess(m)
        BY <1>1, <1>11, <2>7, <3>1 DEF clearedBySuccess, fs, NoLease
      <3>3. Clears(m)
        BY <1>4, <2>2, <2>7, <3>2, Offstate DEF Clears, lives
      <3> QED
        BY <1>1, <2>7, <2>10, <3>3
    <2>9. CASE ~lives(was)
      <3>1. modelRow'[m] = modelRow[m]
        BY <1>2, <2>2, <2>9, Offstate DEF lives
      <3>2. ~lives(modelHealth'[m])
        BY <1>4, <2>5, <2>7, <2>9, Offstate DEF lives
      <3>3. Stays(m)
        BY <1>10, <2>9, <3>1, <3>2 DEF Stays
      <3> QED
        BY <1>1, <2>7, <2>10, <3>3
    <2> QED
      BY <2>8, <2>9
  <1>12. ASSUME NEW h \in Health, h = kept \/ h = was, endLease(l, h), modelRow' = modelRow
         PROVE  /\ FailInv' /\ \A n \in Models : Stays(n)
                /\ leases'[l] = NoLease /\ \A k \in Leases \ {l} : leases'[k] = leases[k]
    <2>1. h.stored = was.stored /\ h.inFlight = was.inFlight /\ h.lastFailure = was.lastFailure /\ (was.persistFailed => h.persistFailed)
      BY <1>5, <1>12
    <2>2. Weighed(h, modelRow'[m], fs)
      BY <1>2, <1>6, <1>12, <2>1, WeighedAlike
    <2>3. lives(h) <=> lives(was)
      BY <1>2, <2>1, Offstate DEF lives
    <2>4. EndsWith(l, h, fs, failuresSeen'[m])
      BY <1>9, <2>1, <2>2, <2>3 DEF EndsWith, was
    <2>5. /\ FailInv'
          /\ \/ modelHealth'[m] = NoState /\ ~h.persistFailed
             \/ modelHealth'[m] \in Health /\ modelHealth'[m].stored = h.stored /\ modelHealth'[m].persistFailed = h.persistFailed
          /\ \A n \in Models \ {m} : modelHealth'[n] = modelHealth[n]
          /\ leases'[l] = NoLease /\ \A k \in Leases \ {l} : leases'[k] = leases[k]
      BY <1>1, <1>6, <1>9, <1>12, <2>4, EndFine DEF fs
    <2>6. Stays(m)
      BY <1>2, <1>10, <1>12, <2>1, <2>5, AlikeStays
    <2>7. \A n \in Models \ {m} : Stays(n)
      BY <1>12, <2>5, SameStays
    <2>8. \A n \in Models : Stays(n)
      BY <2>6, <2>7
    <2> QED
      BY <2>5, <2>8
  <1> QED
    BY <1>1, <1>2, <1>3, <1>5, <1>11, <1>12

\* The state after a failure began its window by now and has counted it.
LEMMA NextCounts ==
  ASSUME ModelTypes, NEW st \in Stored, st.window <= modelClock, NEW reason, NEW delay,
         NEW next, next = cooled(counted(st, reason), delay)
  PROVE  next.window <= modelClock /\ next.failures >= 1
  <1> DEFINE more == counted(st, reason)
             many == minOf(FailureCap, (IF windowBegins(st, reason) THEN 0 ELSE st.failures) + 1)
             opened == IF windowBegins(st, reason) THEN modelClock ELSE st.window
             wait == maxOf(more.cooldown, asked(more, delay))
  <1>1. many \in 0..FailureCap /\ many >= 1 /\ opened <= modelClock
    <2>1. st.failures \in 0..FailureCap /\ st.window \in Nat
      BY DEF Stored
    <2>2. modelClock \in Nat
      BY DEF ModelTypes
    <2> QED
      BY <2>1, <2>2, RuntimeAssumption DEF minOf
  <1>2. more = [st EXCEPT !.failures = many, !.window = opened, !.reason = reason]
    BY Zenon DEF counted
  <1>3. next = [more EXCEPT !.cooldown = wait]
    BY Zenon DEF cooled
  <1> HIDE DEF many, opened, wait, more
  <1>4. more.failures = many /\ more.window = opened
    BY <1>2 DEF Stored
  <1>5. next.failures = more.failures /\ next.window = more.window
    <2>1. more = [k \in DOMAIN st |-> more[k]] /\ DOMAIN more = DOMAIN st
      BY <1>2 DEF Stored
    <2> QED
      BY <1>3 DEF Stored
  <1> QED
    BY <1>1, <1>4, <1>5

\* A row keeps the state that it saves.
LEMMA SavedIs ==
  ASSUME ModelTypes, NEW m \in Models, NEW next \in Stored, NEW saved, saved = SaveAccountModelRuntime(m, next)
  PROVE  /\ saved \in Stored /\ saved.cooldown = next.cooldown /\ saved.failures = next.failures
         /\ saved.reason = next.reason /\ saved.window = next.window
         /\ saved.lifecycle = next.lifecycle /\ saved.resumed = next.resumed
  <1> DEFINE version == IF modelRow[m].on THEN modelRow[m].version + 1 ELSE 1
  <1>1. version \in Nat
    <2>1. modelRow[m].on => modelRow[m] \in Stored
      BY DEF ModelTypes, NoState
    <2>2. modelRow[m].on => modelRow[m].version \in Nat
      BY <2>1 DEF Stored
    <2> QED
      BY <2>2
  <1>2. saved = [next EXCEPT !.version = version]
    BY Zenon DEF SaveAccountModelRuntime
  <1> HIDE DEF version
  <1> QED
    BY <1>1, <1>2 DEF Stored

\* An object after a failure that could not be written, and after one that was.
KeptAfter(h, st, last) == [h EXCEPT !.stored = st, !.lastFailure = last, !.persistFailed = TRUE]
WrittenAfter(h, st, last) == [h EXCEPT !.stored = st, !.lastFailure = last, !.persistFailed = FALSE]

LEMMA FailedHealth ==
  ASSUME NEW h \in Health, NEW st \in Stored, NEW last \in Nat
  PROVE  /\ KeptAfter(h, st, last) \in Health /\ KeptAfter(h, st, last).stored = st
         /\ KeptAfter(h, st, last).inFlight = h.inFlight /\ KeptAfter(h, st, last).lastFailure = last
         /\ KeptAfter(h, st, last).persistFailed
         /\ WrittenAfter(h, st, last) \in Health /\ WrittenAfter(h, st, last).stored = st
         /\ WrittenAfter(h, st, last).inFlight = h.inFlight /\ WrittenAfter(h, st, last).lastFailure = last
  BY DEF Health, KeptAfter, WrittenAfter

ManyLately(m) ==
  Cardinality({f \in failuresSeen'[m] : f.reason = "upstream_error" /\ f.at + TransientWindow > modelClock}) >= TransientThreshold

\* A failure is weighed by the object and by the row, and closes the model only when there were many.
LEMMA FailedFine ==
  ASSUME ModelInv, FailInv, NEW l \in Leases, NEW reason \in {"upstream_error", "rate_limited"}, NEW delay \in Nat,
         NEW ok \in BOOLEAN, finishFailed(l, reason, delay, ok),
         NEW m, m = leases[l].model
  PROVE  /\ FailInv' /\ \A n \in Models : (Stays(n) \/ Fails(n)) /\ (Closed(n) => ManyLately(n))
         /\ leases'[l] = NoLease /\ \A k \in Leases \ {l} : leases'[k] = leases[k]
  <1> DEFINE was == modelHealth[m]
             next == cooled(counted(was.stored, reason), delay)
             saved == SaveAccountModelRuntime(m, next)
             kept == [was EXCEPT !.stored = next, !.lastFailure = sequence + 1, !.persistFailed = TRUE]
             written == [was EXCEPT !.stored = saved, !.lastFailure = sequence + 1, !.persistFailed = FALSE]
             f == failure(m, reason, delay)
             fs == failuresSeen[m]
             gs == failuresSeen'[m]
  <1>1. /\ leases[l].on /\ leases[l].own
        /\ sequence' = sequence + 1 /\ UNCHANGED <<lifecycle, resumed, modelClock>>
    BY DEF finishFailed
  <1>2. ModelTypes
    BY DEF ModelInv
  <1>3. m \in Models /\ was \in Health /\ was.stored \in Stored
    BY <1>1, SharedHealth
  <1>4. /\ \/ endLease(l, kept) /\ modelRow' = modelRow
           \/ modelRow' = [modelRow EXCEPT ![m] = saved]
              /\ endLease(l, [was EXCEPT !.stored = modelRow'[m], !.lastFailure = sequence + 1, !.persistFailed = FALSE])
              /\ inEpoch(was.stored)
           \/ endLease(l, was) /\ modelRow' = modelRow /\ ~inEpoch(was.stored)
        /\ failuresSeen' = IF inEpoch(was.stored) THEN [failuresSeen EXCEPT ![m] = @ \cup {f}] ELSE failuresSeen
    BY Zenon DEF finishFailed
  <1>5. modelRow' = [modelRow EXCEPT ![m] = saved] => modelRow'[m] = saved /\ \A n \in Models \ {m} : modelRow'[n] = modelRow[n]
    BY <1>2, <1>3 DEF ModelTypes
  <1>6. next \in Stored /\ next.lifecycle = was.stored.lifecycle /\ next.resumed = was.stored.resumed
    BY <1>2, <1>3, FailedState
  <1>7. next = cooled(counted(was.stored, reason), delay) /\ saved = SaveAccountModelRuntime(m, next) /\ f = failure(m, reason, delay)
    OBVIOUS
  <1>8. sequence \in Nat /\ modelClock \in Nat /\ modelRow[m] \in Rows /\ sequence + 1 \in Nat /\ sequence' \in {sequence, sequence + 1}
    BY <1>1, <1>3, ModelGiven
  <1>9. failuresSeen = [n \in Models |-> failuresSeen[n]] /\ Weighed(was, modelRow[m], fs)
    BY <1>3 DEF FailInv
  <1>10. /\ failuresSeen' = [n \in Models |-> failuresSeen'[n]]
         /\ \A n \in Models \ {m} : failuresSeen'[n] = failuresSeen[n]
         /\ gs = IF inEpoch(was.stored) THEN fs \cup {f} ELSE fs
    BY <1>3, <1>4, <1>9, Zenon
  <1> HIDE DEF next, saved, f
  <1>11. /\ saved \in Stored /\ saved.cooldown = next.cooldown /\ saved.failures = next.failures
         /\ saved.reason = next.reason /\ saved.window = next.window
         /\ saved.lifecycle = next.lifecycle /\ saved.resumed = next.resumed
    BY <1>2, <1>3, <1>6, <1>7, SavedIs
  <1>12. /\ kept \in Health /\ kept.stored = next /\ kept.inFlight = was.inFlight /\ kept.lastFailure = sequence + 1 /\ kept.persistFailed
         /\ written \in Health /\ written.stored = saved /\ written.inFlight = was.inFlight /\ written.lastFailure = sequence + 1
    <2> HIDE DEF was
    <2> DEFINE last == sequence + 1
    <2>1. kept = KeptAfter(was, next, last) /\ written = WrittenAfter(was, saved, last) /\ last \in Nat
      BY <1>8, Zenon DEF KeptAfter, WrittenAfter
    <2> HIDE DEF kept, written, last
    <2>2. next \in Stored /\ saved \in Stored /\ was \in Health
      BY ONLY <1>3, <1>6, <1>11
    <2>3. /\ KeptAfter(was, next, last) \in Health /\ KeptAfter(was, next, last).stored = next
          /\ KeptAfter(was, next, last).inFlight = was.inFlight /\ KeptAfter(was, next, last).lastFailure = last
          /\ KeptAfter(was, next, last).persistFailed
      BY ONLY <2>1, <2>2, FailedHealth
    <2>4. /\ WrittenAfter(was, saved, last) \in Health /\ WrittenAfter(was, saved, last).stored = saved
          /\ WrittenAfter(was, saved, last).inFlight = was.inFlight /\ WrittenAfter(was, saved, last).lastFailure = last
      BY ONLY <2>1, <2>2, FailedHealth
    <2> QED
      BY <2>1, <2>3, <2>4, Zenon DEF last
  <1> HIDE DEF kept, written
  <1>13. /\ f \in Failure /\ FailedNow(f, fs, reason, delay)
         /\ IsFiniteSet(fs) /\ fs \subseteq Failure
         /\ FailSet(fs \cup {f}, sequence + 1) /\ \A g \in fs \cup {f} : g.sequence <= sequence + 1
    BY <1>3, <1>7, FailureIs
  <1>14. FailSet(gs, sequence') /\ \A g \in gs : g.sequence <= sequence + 1
    <2>1. FailSet(fs, sequence) /\ sequence <= sequence + 1
      BY <1>3, <1>8 DEF FailInv
    <2>2. FailSet(fs, sequence + 1)
      BY <1>8, <2>1, FailSetLater
    <2> HIDE DEF gs, fs, was
    <2> QED
      BY <1>1, <1>10, <1>13, <2>2
  <1>15. next.window <= modelClock /\ next.failures >= 1 /\ was.stored.window <= modelClock /\ was.stored.lifecycle <= lifecycle
    <2>1. was.stored.window <= modelClock /\ was.stored.lifecycle <= lifecycle
      BY <1>3, <1>9, Offstate DEF Weighed
    <2> QED
      BY <1>2, <1>3, <1>7, <2>1, NextCounts
  <1>16. lives(was) <=> inEpoch(was.stored)
    BY <1>3, Offstate DEF lives
  <1>17. lives(was) => Advanced(next, was.stored, fs, f)
    <2>1. lives(was) => Enough(was.stored, fs)
      BY <1>9 DEF Weighed
    <2> HIDE DEF was, fs
    <2> QED
      BY <1>2, <1>3, <1>7, <1>13, <1>15, <2>1, NextFacts
  <1>18. \A n \in Models \ {m} : ~Closed(n)
    BY <1>10 DEF Closed
  <1>19. was = modelHealth[m] /\ fs = failuresSeen[m] /\ gs = failuresSeen'[m]
    OBVIOUS
  <1> HIDE DEF was, fs, gs
  <1>20. ASSUME Closed(m), lives(was), (knownState(m))' = saved \/ (knownState(m))' = next
         PROVE  ManyLately(m)
    <2>1. knownState(m) = was.stored
      BY <1>19, <1>20, KnownIs DEF Known
    <2>2. next.cooldown > was.stored.cooldown /\ next.reason = "upstream_error"
      BY <1>11, <1>20, <2>1 DEF Closed
    <2>3. gs = fs \cup {f} /\ f.reason = "upstream_error" /\ Advanced(next, was.stored, fs, f)
      BY <1>10, <1>16, <1>17, <1>20, <2>2 DEF Advanced
    <2>4. Cardinality({g \in gs : g.reason = "upstream_error" /\ g.at + TransientWindow > modelClock}) >= TransientThreshold
      BY <2>2, <2>3 DEF Advanced
    <2> QED
      BY <1>19, <2>4 DEF ManyLately
  <1>21. CASE endLease(l, kept) /\ modelRow' = modelRow
    <2>1. lives(kept) <=> lives(was)
      BY <1>3, <1>6, <1>12, Offstate DEF lives, inEpoch
    <2>2. Weighed(kept, modelRow'[m], gs)
      <3>1. CASE lives(was)
        BY <1>2, <1>3, <1>6, <1>7, <1>8, <1>9, <1>10, <1>12, <1>13, <1>16, <1>19, <1>21, <3>1, WeighedFailed
      <3>2. CASE ~lives(was)
        <4>1. ~lives(kept) /\ gs = fs /\ kept.stored.lifecycle <= lifecycle /\ kept.stored.window <= modelClock
          BY <1>6, <1>10, <1>12, <1>15, <1>16, <2>1, <3>2
        <4>2. Weighed(was, modelRow'[m], fs)
          BY <1>9, <1>19, <1>21
        <4> QED
          BY <3>2, <4>1, <4>2 DEF Weighed
      <3> QED
        BY <3>1, <3>2
    <2>3. EndsWith(l, kept, fs, gs)
      BY <1>12, <1>14, <1>19, <2>2 DEF EndsWith
    <2>4. /\ FailInv'
          /\ modelHealth'[m] \in Health /\ modelHealth'[m].stored = next /\ modelHealth'[m].persistFailed
          /\ \A n \in Models \ {m} : modelHealth'[n] = modelHealth[n]
          /\ leases'[l] = NoLease /\ \A k \in Leases \ {l} : leases'[k] = leases[k]
      <3>1. FailSet(failuresSeen'[m], sequence') /\ EndsWith(l, kept, failuresSeen[m], failuresSeen'[m])
        BY <1>14, <1>19, <2>3
      <3>2. \A n \in Models \ {m} : failuresSeen'[n] = failuresSeen[n] /\ modelRow'[n] = modelRow[n]
        BY <1>10, <1>21
      <3>3. kept \in Health /\ kept.persistFailed /\ kept.stored = next /\ failuresSeen' = [n \in Models |-> failuresSeen'[n]]
        BY <1>10, <1>12
      <3> QED
        BY <1>1, <1>8, <1>21, <3>1, <3>2, <3>3, EndFine
    <2>5. (knownState(m))' = Known(modelHealth'[m], modelRow'[m]) /\ (lives(modelHealth'[m]) <=> lives(was))
          /\ modelRow'[m] = modelRow[m]
      BY <1>1, <1>12, <1>21, <2>1, <2>4, KnownThen, Offstate DEF lives
    <2>6. (Stays(m) \/ Fails(m)) /\ (Closed(m) => ManyLately(m))
      <3>1. CASE lives(was)
        <4>1. (knownState(m))' = next /\ Known(modelHealth'[m], modelRow'[m]) = next
          BY <2>4, <2>5, <3>1 DEF Known
        <4>2. inEpoch(modelRow[m]) => modelRow[m].failures > 0
          BY <1>3, FailuresAre
        <4>3. next.failures > 0
          BY <1>6, <1>15, RuntimeAssumption DEF Stored
        <4>4. Fails(m)
          BY <2>4, <2>5, <4>1, <4>2, <4>3 DEF Fails
        <4> QED
          BY <1>20, <3>1, <4>1, <4>4
      <3>2. CASE ~lives(was)
        <4>1. ~Closed(m)
          BY <1>10, <1>16, <1>19, <3>2 DEF Closed
        <4>2. Stays(m)
          BY <1>19, <2>5, <3>2 DEF Stays
        <4> QED
          BY <4>1, <4>2
      <3> QED
        BY <3>1, <3>2
    <2>7. \A n \in Models \ {m} : Stays(n)
      BY <1>21, <2>4, SameStays
    <2> QED
      BY <1>18, <2>4, <2>6, <2>7
  <1>22. CASE endLease(l, written) /\ modelRow' = [modelRow EXCEPT ![m] = saved] /\ inEpoch(was.stored)
    <2>1. modelRow'[m] = saved /\ \A n \in Models \ {m} : modelRow'[n] = modelRow[n]
      BY <1>5, <1>22
    <2>2. lives(was) /\ gs = fs \cup {f}
      BY <1>10, <1>16, <1>22
    <2>3. Weighed(written, saved, gs)
      BY <1>2, <1>3, <1>6, <1>7, <1>8, <1>9, <1>11, <1>12, <1>13, <2>2, WeighedWritten
    <2>4. EndsWith(l, written, fs, gs)
      BY <1>12, <1>14, <1>19, <2>1, <2>3 DEF EndsWith
    <2>5. /\ FailInv'
          /\ \/ modelHealth'[m] = NoState
             \/ modelHealth'[m] \in Health /\ modelHealth'[m].stored = saved
          /\ \A n \in Models \ {m} : modelHealth'[n] = modelHealth[n]
          /\ leases'[l] = NoLease /\ \A k \in Leases \ {l} : leases'[k] = leases[k]
      <3>1. FailSet(failuresSeen'[m], sequence') /\ EndsWith(l, written, failuresSeen[m], failuresSeen'[m])
        BY <1>14, <1>19, <2>4
      <3>2. \A n \in Models \ {m} : failuresSeen'[n] = failuresSeen[n] /\ modelRow'[n] = modelRow[n]
        BY <1>10, <2>1
      <3>3. written \in Health /\ written.stored = saved /\ failuresSeen' = [n \in Models |-> failuresSeen'[n]]
        BY <1>10, <1>12
      <3> QED
        BY <1>1, <1>8, <1>22, <3>1, <3>2, <3>3, EndFine
    <2>6. inEpoch(saved)
      BY <1>6, <1>11, <1>22 DEF inEpoch, Stored
    <2>7. (knownState(m))' = saved /\ Known(modelHealth'[m], modelRow'[m]) = saved
      <3>1. (knownState(m))' = Known(modelHealth'[m], modelRow'[m])
        BY <1>1, KnownThen
      <3>2. lives(modelHealth'[m]) => modelHealth'[m].stored = saved
        BY <2>5, Offstate DEF lives
      <3> QED
        BY <2>1, <2>6, <3>1, <3>2 DEF Known
    <2>8. Fails(m) /\ (Closed(m) => ManyLately(m))
      <3>1. lives(modelHealth'[m]) => modelHealth'[m].stored = saved
        BY <2>5, Offstate DEF lives
      <3>2. Fails(m)
        <4>1. saved.cooldown \in Nat
          BY <1>11 DEF Stored
        <4>2. saved.failures > 0
          BY <1>11, <1>15, RuntimeAssumption DEF Stored
        <4> QED
          BY <2>1, <2>6, <2>7, <3>1, <4>1, <4>2 DEF Fails
      <3> QED
        BY <1>20, <2>2, <2>7, <3>2
    <2>9. \A n \in Models \ {m} : Stays(n)
      BY <2>1, <2>5, SameStays
    <2> QED
      BY <1>18, <2>5, <2>8, <2>9
  <1>23. CASE endLease(l, was) /\ modelRow' = modelRow /\ ~inEpoch(was.stored)
    <2>1. gs = fs /\ ~lives(was)
      BY <1>10, <1>16, <1>23
    <2>2. EndsWith(l, was, fs, gs)
      BY <1>9, <1>19, <1>23, <2>1 DEF EndsWith
    <2>3. /\ FailInv'
          /\ \/ modelHealth'[m] = NoState
             \/ modelHealth'[m] \in Health /\ modelHealth'[m].stored = was.stored
          /\ \A n \in Models \ {m} : modelHealth'[n] = modelHealth[n]
          /\ leases'[l] = NoLease /\ \A k \in Leases \ {l} : leases'[k] = leases[k]
      BY <1>1, <1>3, <1>8, <1>10, <1>14, <1>19, <1>23, <2>2, EndFine
    <2>4. ~lives(modelHealth'[m]) /\ modelRow'[m] = modelRow[m]
      BY <1>3, <1>23, <2>1, <2>3, Offstate DEF lives
    <2>5. Stays(m) /\ \A n \in Models \ {m} : Stays(n)
      BY <1>19, <1>23, <2>1, <2>3, <2>4, SameStays DEF Stays
    <2>6. ~Closed(m)
      BY <1>19, <2>1 DEF Closed
    <2> QED
      BY <1>18, <2>3, <2>5, <2>6
  <1> QED
    BY <1>4, <1>5, <1>21, <1>22, <1>23, Zenon DEF written

\* Two sets that match one to one are as large.
LEMMA OneToOne ==
  ASSUME NEW S, IsFiniteSet(S), NEW T, NEW g \in [S -> T],
         \A a, b \in S : g[a] = g[b] => a = b, \A t \in T : \E a \in S : g[a] = t
  PROVE  IsFiniteSet(T) /\ Cardinality(T) = Cardinality(S)
  <1>1. g \in Surjection(S, T)
    BY DEF Surjection
  <1>2. g \in Injection(S, T)
    BY DEF Injection, IsInjective
  <1> QED
    BY <1>1, <1>2, FS_Surjection

\* What a restart leaves of a failure.
Rewritten(f, wait) == [f EXCEPT !.sequence = 0, !.until = wait]
Left(f, lost) == Rewritten(f, IF lost THEN 0 ELSE f.until)

LEMMA ChangedFailure ==
  ASSUME NEW f \in Failure, NEW wait \in Nat
  PROVE  /\ Rewritten(f, wait) \in Failure /\ Rewritten(f, wait).id = f.id /\ Rewritten(f, wait).reason = f.reason
         /\ Rewritten(f, wait).at = f.at /\ Rewritten(f, wait).sequence = 0 /\ Rewritten(f, wait).until = wait
  BY DEF Failure, Rewritten

LEMMA LeftFailure ==
  ASSUME NEW f \in Failure, NEW lost
  PROVE  /\ Left(f, lost) \in Failure /\ Left(f, lost).id = f.id /\ Left(f, lost).reason = f.reason
         /\ Left(f, lost).at = f.at /\ Left(f, lost).sequence = 0
         /\ Left(f, lost).until = IF lost THEN 0 ELSE f.until
  <1>1. 0 \in Nat /\ f.until \in Nat
    BY DEF Failure
  <1>2. CASE lost
    <2>1. Left(f, lost) = Rewritten(f, 0) /\ (IF lost THEN 0 ELSE f.until) = 0
      BY <1>2, Zenon DEF Left
    <2>2. /\ Rewritten(f, 0) \in Failure /\ Rewritten(f, 0).id = f.id /\ Rewritten(f, 0).reason = f.reason
          /\ Rewritten(f, 0).at = f.at /\ Rewritten(f, 0).sequence = 0 /\ Rewritten(f, 0).until = 0
      BY ONLY f \in Failure, <1>1, ChangedFailure
    <2> QED
      BY <2>1, <2>2, Zenon
  <1>3. CASE ~lost
    <2>1. Left(f, lost) = Rewritten(f, f.until) /\ (IF lost THEN 0 ELSE f.until) = f.until
      BY <1>3, Zenon DEF Left
    <2>2. /\ Rewritten(f, f.until) \in Failure /\ Rewritten(f, f.until).id = f.id /\ Rewritten(f, f.until).reason = f.reason
          /\ Rewritten(f, f.until).at = f.at /\ Rewritten(f, f.until).sequence = 0 /\ Rewritten(f, f.until).until = f.until
      BY ONLY f \in Failure, <1>1, ChangedFailure
    <2> QED
      BY <2>1, <2>2, Zenon
  <1> QED
    BY <1>2, <1>3

LEMMA FailuresLeft ==
  ASSUME NEW fs, NEW last, FailSet(fs, last), NEW lost, NEW gs, gs = {Left(f, lost) : f \in fs}, NEW w
  PROVE  FailSet(gs, 0) /\ Cardinality(Within(gs, w)) = Cardinality(Within(fs, w))
  <1>1. IsFiniteSet(fs) /\ fs \subseteq Failure /\ (\A f, g \in fs : f.id = g.id => f = g) /\ \A f \in fs : f.id < Cardinality(fs)
    BY DEF FailSet
  <1>2. \A f \in fs : /\ Left(f, lost) \in Failure /\ Left(f, lost).id = f.id /\ Left(f, lost).reason = f.reason
                      /\ Left(f, lost).at = f.at /\ Left(f, lost).sequence = 0
    BY <1>1, LeftFailure
  <1>3. \A f, g \in fs : Left(f, lost) = Left(g, lost) => f = g
    <2> SUFFICES ASSUME NEW f \in fs, NEW g \in fs, Left(f, lost) = Left(g, lost) PROVE f = g
      OBVIOUS
    <2>1. f.id = g.id
      BY <1>2
    <2> QED
      BY <1>1, <2>1
  <1>4. ASSUME NEW S, S \subseteq fs, NEW T, T = {Left(f, lost) : f \in S}
        PROVE  IsFiniteSet(T) /\ Cardinality(T) = Cardinality(S)
    <2> DEFINE map == [f \in S |-> Left(f, lost)]
    <2>1. IsFiniteSet(S)
      BY <1>1, <1>4, FS_Subset
    <2>2. map \in [S -> T] /\ (\A a, b \in S : map[a] = map[b] => a = b) /\ \A t \in T : \E a \in S : map[a] = t
      BY <1>3, <1>4
    <2> HIDE DEF map
    <2> QED
      BY <2>1, <2>2, OneToOne
  <1>5. IsFiniteSet(gs) /\ Cardinality(gs) = Cardinality(fs)
    BY <1>4
  <1>6. Cardinality(Within(gs, w)) = Cardinality(Within(fs, w))
    <2>1. Within(fs, w) \subseteq fs /\ Within(gs, w) = {Left(f, lost) : f \in Within(fs, w)}
      BY <1>2 DEF Within
    <2> QED
      BY <1>4, <2>1
  <1>7. gs \subseteq Failure /\ \A g \in gs : g.sequence <= 0 /\ g.id < Cardinality(gs)
    <2>1. \A f \in fs : Left(f, lost) \in Failure /\ Left(f, lost).sequence <= 0 /\ Left(f, lost).id < Cardinality(gs)
      BY <1>1, <1>2, <1>5
    <2> QED
      BY <2>1
  <1>8. \A f, g \in gs : f.id = g.id => f = g
    BY <1>1, <1>2
  <1> QED
    BY <1>5, <1>6, <1>7, <1>8 DEF FailSet

LEMMA RestartFine == ASSUME ModelInv, FailInv, modelRestart PROVE FailInv'
  <1>1. /\ modelHealth' = [m \in Models |-> NoState] /\ leases' = [l \in Leases |-> NoLease] /\ sequence' = 0
        /\ UNCHANGED <<lifecycle, resumed, modelRow, modelClock>>
    BY DEF modelRestart
  <1>2. failuresSeen' = [m \in Models |-> {Left(f, modelHealth[m].on /\ modelHealth[m].persistFailed) : f \in failuresSeen[m]}]
    BY Zenon DEF modelRestart, Left, Rewritten
  <1>3. \A m \in Models : FailSet(failuresSeen'[m], sequence')
    BY <1>1, <1>2, FailuresLeft DEF FailInv
  <1>4. ASSUME NEW m \in Models PROVE Weighed(NoState, modelRow[m], failuresSeen'[m])
    <2> DEFINE lost == modelHealth[m].on /\ modelHealth[m].persistFailed
               fs == failuresSeen[m]
               gs == failuresSeen'[m]
               r == modelRow[m]
    <2>1. /\ FailSet(fs, sequence) /\ Weighed(modelHealth[m], r, fs) /\ gs = {Left(f, lost) : f \in fs}
          /\ lives(modelHealth[m]) /\ modelHealth[m].persistFailed => lost
      BY <1>2 DEF FailInv, lives
    <2> HIDE DEF lost, fs, gs, r
    <2>2. \A f \in fs : Left(f, lost).until = IF lost THEN 0 ELSE f.until
      BY <2>1, LeftFailure DEF FailSet
    <2>3. ASSUME NEW g \in gs, g.until > modelClock PROVE inEpoch(r) /\ r.cooldown >= g.until
      <3>1. PICK f \in fs : g = Left(f, lost)
        BY <2>1
      <3>2. modelClock \in Nat
        BY ModelGiven
      <3>3. ~lost /\ g.until = f.until
        BY <2>2, <2>3, <3>1, <3>2
      <3> QED
        BY <2>1, <2>3, <3>3 DEF Weighed
    <2>4. inEpoch(r) => Enough(r, gs)
      <3>1. Cardinality(Within(gs, r.window)) = Cardinality(Within(fs, r.window))
        BY <2>1, FailuresLeft
      <3> QED
        BY <2>1, <3>1 DEF Weighed, Enough
    <2>5. ~NoState.on /\ ~lives(NoState)
      BY Offstate DEF lives
    <2>6. r.on => r.failures >= 1 /\ r.lifecycle <= lifecycle /\ r.window <= modelClock
      BY <2>1 DEF Weighed
    <2>7. Weighed(NoState, r, gs)
      BY <2>3, <2>4, <2>5, <2>6 DEF Weighed
    <2> QED
      BY <2>7 DEF r, gs
  <1>5. \A m \in Models : Weighed(modelHealth'[m], modelRow'[m], failuresSeen'[m])
    BY <1>1, <1>4
  <1>6. NewerAll(leases', modelHealth', failuresSeen')
    BY <1>1 DEF NewerAll, NoLease
  <1> QED
    BY <1>1, <1>2, <1>3, <1>5, <1>6, FailThen

\* A new epoch has no failures, and its models are what nothing is known of.
LEMMA EpochFine ==
  ASSUME ModelInv, FailInv, authorizedAgain \/ Resume
  PROVE  /\ FailInv' /\ \A m \in Models : ~lives(modelHealth[m])' /\ ~inEpoch(modelRow[m])'
         /\ \A l \in Leases : leases'[l].on <=> leases[l].on
  <1>0. lifecycle \in Nat /\ resumed \in Nat /\ sequence \in Nat
    BY DEF ModelInv, ModelTypes
  <1>1. failuresSeen' = [m \in Models |-> {}] /\ sequence' = sequence /\ modelClock' = modelClock
    BY DEF authorizedAgain, Resume
  <1>2. FailSet({}, sequence)
    BY <1>0, FS_EmptySet DEF FailSet
  <1>3. ASSUME NEW m \in Models
        PROVE  /\ ~lives(modelHealth[m])' /\ ~inEpoch(modelRow[m])'
               /\ Weighed(modelHealth[m], modelRow[m], failuresSeen[m])'
    <2>1. CASE authorizedAgain
      <3>1. lifecycle' = lifecycle + 1 /\ resumed' = resumed /\ modelRow' = modelRow /\ modelHealth' = modelHealth
        BY <2>1 DEF authorizedAgain
      <3>2. /\ modelRow[m].on => modelRow[m].failures >= 1 /\ modelRow[m].lifecycle <= lifecycle
                                 /\ modelRow[m].lifecycle \in Nat /\ modelRow[m].window <= modelClock
            /\ modelHealth[m].on => modelHealth[m].stored.lifecycle <= lifecycle
                                    /\ modelHealth[m].stored.lifecycle \in Nat /\ modelHealth[m].stored.window <= modelClock
        <4>1. Weighed(modelHealth[m], modelRow[m], failuresSeen[m])
          BY DEF FailInv
        <4>2. /\ modelRow[m].on => modelRow[m] \in Stored
              /\ modelHealth[m].on => modelHealth[m].stored \in Stored
          BY ModelGiven, Offstate DEF Rows, Healths
        <4>3. \A x \in Stored : x.lifecycle \in Nat
          BY DEF Stored
        <4> QED
          BY <4>1, <4>2, <4>3 DEF Weighed
      <3>3. ~lives(modelHealth[m])' /\ ~inEpoch(modelRow[m])'
        BY <1>0, <3>1, <3>2 DEF lives, inEpoch
      <3>4. failuresSeen'[m] = {}
        BY <1>1
      <3>5. /\ (modelRow[m].on => modelRow[m].failures >= 1 /\ modelRow[m].lifecycle <= lifecycle /\ modelRow[m].window <= modelClock)'
            /\ (modelHealth[m].on => modelHealth[m].stored.lifecycle <= lifecycle /\ modelHealth[m].stored.window <= modelClock)'
        BY <1>0, <1>1, <3>1, <3>2
      <3> QED
        BY <3>3, <3>4, <3>5 DEF Weighed
    <2>2. CASE Resume
      <3>1. modelRow'[m] = NoState /\ modelHealth'[m] = NoState /\ failuresSeen'[m] = {}
        BY <1>1, <2>2 DEF Resume
      <3>2. ~modelRow'[m].on /\ ~modelHealth'[m].on
        BY <3>1, Offstate
      <3>3. ~lives(modelHealth[m])' /\ ~inEpoch(modelRow[m])'
        BY <3>2 DEF lives, inEpoch
      <3> QED
        BY <3>1, <3>2, <3>3 DEF Weighed
    <2> QED
      BY <2>1, <2>2
  <1>4. \A l \in Leases : leases'[l].on => /\ leases[l].on /\ leases'[l].model = leases[l].model /\ leases[l].model \in Models
    <2>0. \A l \in Leases : leases[l].on => leases[l] \in Lease
      BY DEF ModelInv, ModelTypes, NoLease
    <2>1. \A l \in Leases : leases[l].on => leases[l].model \in Models
      BY <2>0 DEF Lease
    <2>2. CASE authorizedAgain
      BY <2>1, <2>2 DEF authorizedAgain
    <2>3. CASE Resume
      <3>1. \A l \in Leases : leases'[l] = IF leases[l].on THEN [leases[l] EXCEPT !.own = FALSE] ELSE leases[l]
        BY <2>1, <2>3, Zenon DEF Resume, disowned
      <3> SUFFICES ASSUME NEW l \in Leases, leases'[l].on
                   PROVE  leases[l].on /\ leases'[l].model = leases[l].model /\ leases[l].model \in Models
        OBVIOUS
      <3>2. leases[l].on
        BY <3>1
      <3> QED
        BY <2>0, <2>1, <3>1, <3>2, DisownedLease
    <2> QED
      BY <2>2, <2>3
  <1>5. \A l \in Leases : leases[l].on => leases'[l].on
    <2>0. \A l \in Leases : leases[l].on => leases[l] \in Lease
      BY DEF ModelInv, ModelTypes, NoLease
    <2>1. \A l \in Leases : leases[l].on => leases[l].model \in Models
      BY <2>0 DEF Lease
    <2>2. CASE authorizedAgain
      BY <2>2 DEF authorizedAgain
    <2>3. CASE Resume
      <3>1. \A l \in Leases : leases[l].on => leases'[l] = [leases[l] EXCEPT !.own = FALSE]
        BY <2>1, <2>3, Zenon DEF Resume, disowned
      <3> QED
        BY <2>0, <3>1, DisownedLease
    <2> QED
      BY <2>2, <2>3
  <1>6. NewerAll(leases, modelHealth, failuresSeen)'
    BY <1>1, <1>4 DEF NewerAll, Newer
  <1>7. (\A m \in Models : FailSet(failuresSeen[m], sequence))'
    BY <1>1, <1>2 DEF FailSet
  <1>8. (\A m \in Models : Weighed(modelHealth[m], modelRow[m], failuresSeen[m]))'
    BY <1>3
  <1> QED
    BY <1>1, <1>3, <1>4, <1>5, <1>6, <1>7, <1>8 DEF FailInv

\* Time passes, or the models that the account offers change.
LEMMA FrameFine ==
  ASSUME ModelInv, FailInv,
         UNCHANGED <<lifecycle, resumed, modelRow, modelHealth, leases, sequence, failuresSeen>>,
         modelClock' \in {modelClock, modelClock + 1}
  PROVE  FailInv'
  <1>1. ASSUME NEW m \in Models PROVE Weighed(modelHealth[m], modelRow[m], failuresSeen[m])'
    <2>1. Weighed(modelHealth[m], modelRow[m], failuresSeen[m])
      BY DEF FailInv
    <2>2. /\ modelRow[m].on => modelRow[m] \in Stored
          /\ modelHealth[m].on => modelHealth[m].stored \in Stored
          /\ modelClock \in Nat
      BY ModelGiven, Offstate DEF Rows, Healths
    <2>3. \A x \in Stored : x.window \in Nat
      BY DEF Stored
    <2>4. \A f \in failuresSeen[m] : f.until \in Nat
      BY DEF FailInv, FailSet, Failure
    <2>5. /\ modelRow[m].on => modelRow[m].window <= modelClock'
          /\ modelHealth[m].on => modelHealth[m].stored.window <= modelClock'
          /\ \A f \in failuresSeen[m] : f.until > modelClock' => f.until > modelClock
      BY <2>1, <2>2, <2>3, <2>4 DEF Weighed
    <2> QED
      BY <2>1, <2>5 DEF Weighed, lives, inEpoch, Enough, Within
  <1>2. NewerAll(leases, modelHealth, failuresSeen)'
    BY DEF FailInv, NewerAll, Newer, lives, inEpoch
  <1>3. (\A m \in Models : FailSet(failuresSeen[m], sequence))'
    BY DEF FailInv, FailSet
  <1>4. (failuresSeen = [m \in Models |-> failuresSeen[m]])'
    BY DEF FailInv
  <1> QED
    BY <1>1, <1>2, <1>3, <1>4 DEF FailInv

\* What a step does to the failures: none is waited for, forgotten or counted wrongly.
StepFine ==
  /\ FailInv' /\ modelClock' \in {modelClock, modelClock + 1}
  /\ \A l \in Leases : leased(l) => \A f \in failuresSeen[leases'[l].model] : f.until <= modelClock
  /\ \A m \in Models : Moves(m)
  /\ \A m \in Models : Closed(m) => ManyLately(m)

LEMMA Quiet ==
  ASSUME FailInv', modelClock' \in {modelClock, modelClock + 1}, UNCHANGED <<lifecycle, resumed>>,
         failuresSeen' = failuresSeen, \A l \in Leases : leases'[l].on <=> leases[l].on,
         \A m \in Models : Stays(m) \/ Sweeps(m)
  PROVE  StepFine
  BY DEF StepFine, leased, Moves, Closed

LEMMA EpochStep == ASSUME ModelInv, FailInv, authorizedAgain \/ Resume PROVE StepFine
  <1>1. /\ FailInv' /\ \A m \in Models : ~lives(modelHealth[m])' /\ ~inEpoch(modelRow[m])'
        /\ \A l \in Leases : leases'[l].on <=> leases[l].on
    BY EpochFine
  <1>2. \A m \in Models : ~Closed(m)
    <2> TAKE m \in Models
    <2>1. (knownState(m))' = (GetAccountModelRuntime(modelRow, m))'
      BY <1>1, Zenon DEF knownState, readModelRuntime, lives
    <2>2. (GetAccountModelRuntime(modelRow, m))'.reason = NoReason
      BY <1>1 DEF GetAccountModelRuntime
    <2>3. NoReason # "upstream_error"
      BY DEF NoReason
    <2> QED
      BY <2>1, <2>2, <2>3 DEF Closed
  <1>3. (lifecycle' # lifecycle \/ resumed' # resumed) /\ modelClock' = modelClock
    BY DEF authorizedAgain, Resume, ModelInv, ModelTypes
  <1> QED
    BY <1>1, <1>2, <1>3 DEF StepFine, leased, Moves

LEMMA RestartStep == ASSUME ModelInv, FailInv, modelRestart PROVE StepFine
  <1>1. /\ modelHealth' = [m \in Models |-> NoState] /\ leases' = [l \in Leases |-> NoLease] /\ sequence' = 0
        /\ UNCHANGED <<lifecycle, resumed, modelRow, modelClock>>
    BY DEF modelRestart
  <1>2. FailInv'
    BY RestartFine
  <1>3. \A m \in Models : ~lives(modelHealth'[m])
    BY <1>1, Offstate DEF lives
  <1>4. \A m \in Models : Moves(m)
    BY <1>1, <1>3 DEF Moves, Loses
  <1>5. \A m \in Models : ~Closed(m)
    <2> TAKE m \in Models
    <2>1. knownState(m) = Known(modelHealth[m], modelRow[m]) /\ (knownState(m))' = Known(modelHealth'[m], modelRow[m])
      BY <1>1, KnownIs, KnownThen
    <2>2. CASE inEpoch(modelRow[m])
      <3>1. Known(modelHealth'[m], modelRow[m]) = modelRow[m]
        BY <1>3, <2>2 DEF Known
      <3>2. Known(modelHealth[m], modelRow[m]).cooldown >= modelRow[m].cooldown
        <4>1. modelRow[m] \in Stored
          BY <2>2, ModelGiven, Offstate DEF Rows, inEpoch
        <4>2. modelRow[m].cooldown \in Nat
          BY <4>1 DEF Stored
        <4>3. lives(modelHealth[m]) => modelHealth[m].stored.cooldown >= modelRow[m].cooldown
          BY <2>2 DEF FailInv, Weighed
        <4> QED
          BY <2>2, <4>2, <4>3 DEF Known
      <3>3. Known(modelHealth[m], modelRow[m]).cooldown \in Nat /\ modelRow[m].cooldown \in Nat
        <4>1. modelRow[m] \in Stored /\ (lives(modelHealth[m]) => modelHealth[m].stored \in Stored)
          BY <2>2, ModelGiven, Offstate DEF Rows, Healths, inEpoch, lives
        <4> QED
          BY <2>2, <4>1 DEF Known, Stored
      <3> QED
        BY <2>1, <3>1, <3>2, <3>3 DEF Closed
    <2>3. CASE ~inEpoch(modelRow[m])
      <3>1. Known(modelHealth'[m], modelRow[m]).reason = NoReason
        BY <1>3, <2>3 DEF Known
      <3>2. NoReason # "upstream_error"
        BY DEF NoReason
      <3> QED
        BY <2>1, <3>1, <3>2 DEF Closed
    <2> QED
      BY <2>2, <2>3
  <1>6. \A l \in Leases : ~leased(l)
    BY <1>1 DEF leased, NoLease
  <1> QED
    BY <1>1, <1>2, <1>4, <1>5, <1>6 DEF StepFine

LEMMA LeaseStep ==
  ASSUME ModelInv, FailInv, NEW l \in Leases, NEW m \in Models, NEW check \in BOOLEAN, modelLease(l, m, check)
  PROVE  StepFine
  <1>1. /\ FailInv' /\ UNCHANGED <<failuresSeen, modelClock, lifecycle, resumed>>
        /\ \A n \in Models : Sweeps(n)
        /\ \A f \in failuresSeen[m] : f.until <= modelClock
        /\ ~leases[l].on /\ leases'[l].model = m
        /\ \A k \in Leases \ {l} : leases'[k].on <=> leases[k].on
    <2>1. UNCHANGED <<failuresSeen, modelClock, lifecycle, resumed>>
      BY Zenon DEF modelLease
    <2> QED
      BY <2>1, LeaseFine
  <1>2. \A k \in Leases : leased(k) => k = l
    BY <1>1 DEF leased
  <1>3. \A k \in Leases : leases[k].on => leases'[k].on
    BY <1>1
  <1> QED
    BY <1>1, <1>2, <1>3 DEF StepFine, Moves, Closed

\* A lease ends, whatever came of its request.
LEMMA EndStep ==
  ASSUME ModelInv, FailInv, NEW l \in Leases, NEW ok \in BOOLEAN, NEW delay \in Nat,
         \/ leaseModelCheck(l) \/ finishDisowned(l) \/ finishModelRuntime(l, ok)
         \/ finishFailed(l, "upstream_error", delay, ok) \/ finishFailed(l, "rate_limited", delay, ok)
  PROVE  StepFine
  <1>1. PICK m : m = leases[l].model
    OBVIOUS
  <1>2. /\ FailInv' /\ leases'[l] = NoLease /\ \A k \in Leases \ {l} : leases'[k] = leases[k]
        /\ \A n \in Models : Stays(n) \/ Clears(n) \/ Fails(n)
        /\ \A n \in Models : Closed(n) => ManyLately(n)
    <2>1. CASE leaseModelCheck(l) \/ finishDisowned(l)
      BY <1>1, <2>1, CheckFine DEF Closed
    <2>2. CASE finishModelRuntime(l, ok)
      BY <1>1, <2>2, FinishFine DEF Closed
    <2>3. CASE finishFailed(l, "upstream_error", delay, ok) \/ finishFailed(l, "rate_limited", delay, ok)
      BY <1>1, <2>3, FailedFine
    <2> QED
      BY <2>1, <2>2, <2>3
  <1>3. \A k \in Leases : ~leased(k)
    BY <1>2 DEF leased, NoLease
  <1>4. UNCHANGED <<lifecycle, resumed, modelClock>>
    BY DEF leaseModelCheck, finishDisowned, finishModelRuntime, finishFailed
  <1> QED
    BY <1>2, <1>3, <1>4 DEF StepFine, Moves

LEMMA FailNextOK == ASSUME ModelInv, FailInv, [ModelNext]_modelVars PROVE StepFine
  <1>1. CASE \/ modelTick \/ UNCHANGED modelVars \/ \E m \in Models : catalogChanges(m)
             \/ \E l \in Leases, success \in BOOLEAN : concludes(l, success)
    <2>1. /\ UNCHANGED <<lifecycle, resumed, modelRow, modelHealth, leases, sequence, failuresSeen>>
          /\ modelClock' \in {modelClock, modelClock + 1}
      BY <1>1 DEF modelTick, catalogChanges, concludes, modelVars
    <2>2. FailInv'
      BY <2>1, FrameFine
    <2>3. \A m \in Models : Stays(m)
      BY <2>1, SameStays
    <2> QED
      BY <2>1, <2>2, <2>3, Quiet
  <1>2. CASE loadRuntimeRows
    <2>1. /\ leases' = disowned({m \in Models : superseded(m)})
          /\ UNCHANGED <<failuresSeen, lifecycle, resumed, modelClock>>
      BY <1>2 DEF loadRuntimeRows
    <2>2. \A l \in Leases : leases'[l].on <=> leases[l].on
      BY <2>1, SweptLeases
    <2> QED
      BY <1>2, <2>1, <2>2, LoadFine, Quiet
  <1>3. ASSUME NEW l \in Leases, leaseModelCheck(l) \/ finishDisowned(l) PROVE StepFine
    BY <1>3, EndStep, 0 \in Nat, TRUE \in BOOLEAN
  <1>4. ASSUME NEW l \in Leases, NEW ok \in BOOLEAN, finishModelRuntime(l, ok) PROVE StepFine
    BY <1>4, EndStep, 0 \in Nat
  <1>5. ASSUME NEW l \in Leases, NEW ok \in BOOLEAN,
               finishFailed(l, "upstream_error", 0, ok) \/ \E delay \in RetryDelays : finishFailed(l, "rate_limited", delay, ok)
        PROVE  StepFine
    BY <1>5, EndStep, RuntimeAssumption, 0 \in Nat, TRUE \in BOOLEAN
  <1> QED
    BY <1>1, <1>2, <1>3, <1>4, <1>5, EpochStep, RestartStep, LeaseStep DEF ModelNext

LEMMA FailInitOK == ModelInit => FailInv
  <1> SUFFICES ASSUME ModelInit PROVE FailInv
    OBVIOUS
  <1>1. FailSet({}, 0)
    BY FS_EmptySet DEF FailSet
  <1>2. \A m \in Models : Weighed(NoState, NoState, {})
    BY Offstate DEF Weighed, lives, inEpoch
  <1> QED
    BY <1>1, <1>2 DEF ModelInit, FailInv, NewerAll, NoLease

LEMMA FailKept == ModelInv /\ FailInv /\ [ModelNext]_modelVars => FailInv'
  BY FailNextOK DEF StepFine

\* What is remembered of a model weighs every failure: the invariant behind the next theorem.
THEOREM FailureInvariance == ModelSpec => []FailInv
  BY ModelInvariance, FailInitOK, FailKept, PTL DEF ModelSpec

\* What an object holds and its row does not is over by now, unless it could not be written.
Persisted(h, r) ==
  lives(h) /\ ~h.persistFailed => IF inEpoch(r) THEN h.stored.cooldown <= r.cooldown ELSE h.stored.cooldown <= modelClock

KeepInv == \A m \in Models : Persisted(modelHealth[m], modelRow[m])

LEMMA KeepInitOK == ModelInit => KeepInv
  BY Offstate DEF ModelInit, KeepInv, Persisted, lives

\* The cooldowns of a model.
LEMMA CooldownsAre ==
  ASSUME ModelInv, NEW m \in Models
  PROVE  /\ modelClock \in Nat
         /\ lives(modelHealth[m]) => modelHealth[m].stored.cooldown \in Nat
         /\ inEpoch(modelRow[m]) => modelRow[m].cooldown \in Nat
  <1>1. modelClock \in Nat /\ (lives(modelHealth[m]) => modelHealth[m].stored \in Stored) /\ (inEpoch(modelRow[m]) => modelRow[m] \in Stored)
    BY ModelGiven, Offstate DEF Rows, Healths, lives, inEpoch
  <1> QED
    BY <1>1 DEF Stored

LEMMA SweptRow ==
  ASSUME NEW m \in Models
  PROVE  \/ DeleteObsoleteModelRuntime[m] = modelRow[m]
         \/ DeleteObsoleteModelRuntime[m] = NoState /\ ~inEpoch(modelRow[m])
         \/ /\ DeleteObsoleteModelRuntime[m] = NoState /\ inEpoch(modelRow[m])
            /\ ~(modelRow[m].cooldown > modelClock) /\ m \notin offered
  BY DEF DeleteObsoleteModelRuntime

LEMMA KeepNext == ASSUME ModelInv, KeepInv, StepFine PROVE KeepInv'
  <1> SUFFICES ASSUME NEW m \in Models PROVE Persisted(modelHealth[m], modelRow[m])'
    BY DEF KeepInv
  <1>1. Moves(m) /\ modelClock' \in {modelClock, modelClock + 1}
    BY DEF StepFine
  <1>2. CASE ~UNCHANGED <<lifecycle, resumed>>
    <2>1. ~(lives(modelHealth[m]))'
      BY <1>1, <1>2 DEF Moves
    <2> QED
      BY <2>1 DEF Persisted
  <1>3. CASE UNCHANGED <<lifecycle, resumed>>
    <2> DEFINE h == modelHealth[m]
               hh == modelHealth'[m]
               r == modelRow[m]
               rr == modelRow'[m]
    <2> SUFFICES ASSUME lives(hh), ~hh.persistFailed
                 PROVE  IF inEpoch(rr) THEN hh.stored.cooldown <= rr.cooldown ELSE hh.stored.cooldown <= modelClock'
      BY <1>3 DEF Persisted, lives, inEpoch
    <2>1. /\ modelClock \in Nat /\ modelClock' \in Nat /\ modelClock' >= modelClock
          /\ lives(h) => h.stored.cooldown \in Nat
          /\ inEpoch(r) => r.cooldown \in Nat
      BY <1>1, CooldownsAre
    <2>2. lives(h) /\ ~h.persistFailed => IF inEpoch(r) THEN h.stored.cooldown <= r.cooldown ELSE h.stored.cooldown <= modelClock
      BY DEF KeepInv, Persisted
    <2>3. ~inEpoch(NoState)
      BY Offstate DEF inEpoch
    <2>4. /\ Stays(m) => rr = r /\ lives(h) /\ hh.stored = h.stored /\ ~h.persistFailed
          /\ Sweeps(m) => /\ rr = DeleteObsoleteModelRuntime[m]
                          /\ IF lives(h) THEN hh.stored = h.stored /\ ~h.persistFailed ELSE hh.stored = Known(h, rr)
          /\ Clears(m) => rr \in {r, NoState} /\ hh.stored.cooldown = 0
          /\ Fails(m) => inEpoch(rr) /\ hh.stored.cooldown <= rr.cooldown
          /\ ~Loses(m)
      BY DEF Stays, Sweeps, Clears, Fails, Loses
    <2>5. Sweeps(m) => /\ rr = r \/ rr = NoState
                       /\ rr # r /\ inEpoch(r) => ~(r.cooldown > modelClock)
      BY <2>4, SweptRow
    <2> HIDE DEF h, hh, r, rr
    <2>6. CASE Stays(m)
      BY <2>1, <2>2, <2>4, <2>6
    <2>7. CASE Sweeps(m)
      <3>1. CASE lives(h)
        BY <2>1, <2>2, <2>3, <2>4, <2>5, <2>7, <3>1
      <3>2. CASE ~lives(h)
        <4>1. hh.stored = Known(h, rr)
          BY <2>4, <2>7, <3>2
        <4>2. CASE inEpoch(rr)
          <5>1. rr = r /\ hh.stored = rr
            BY <2>3, <2>5, <2>7, <3>2, <4>1, <4>2 DEF Known
          <5> QED
            BY <2>1, <4>2, <5>1
        <4>3. CASE ~inEpoch(rr)
          <5>1. hh.stored.cooldown = 0
            BY <3>2, <4>1, <4>3 DEF Known
          <5> QED
            BY <2>1, <4>3, <5>1
        <4> QED
          BY <4>2, <4>3
      <3> QED
        BY <3>1, <3>2
    <2>8. CASE Clears(m)
      BY <2>1, <2>3, <2>4, <2>8
    <2>9. CASE Fails(m)
      BY <2>4, <2>9
    <2> QED
      BY <1>1, <1>3, <2>4, <2>6, <2>7, <2>8, <2>9 DEF Moves
  <1> QED
    BY <1>2, <1>3

\* Why a step of an epoch may forget what is known of a model.
Excused(m) ==
  \/ clearedBySuccess(m)
  \/ inEpoch(modelRow[m]) /\ obsolete(m)
  \/ /\ ~inEpoch(modelRow[m])
     /\ IF modelHealth[m].persistFailed THEN sequence' = 0 ELSE knownState(m).cooldown <= modelClock

\* What ClearedByNewer asks of a step.
LEMMA ForgetsRightly ==
  ASSUME ModelInv, FailInv, KeepInv, StepFine, NEW m \in Models, UNCHANGED <<lifecycle, resumed>>,
         rowForgotten(m) \/ knownForgotten(m)
  PROVE  Excused(m)
  <1> DEFINE h == modelHealth[m]
             hh == modelHealth'[m]
             r == modelRow[m]
             rr == modelRow'[m]
  <1>1. Stays(m) \/ Sweeps(m) \/ Clears(m) \/ Fails(m) \/ Loses(m)
    BY DEF StepFine, Moves
  <1>2. knownState(m) = Known(h, r) /\ (knownState(m))' = Known(hh, rr)
    BY KnownIs, KnownThen
  <1>3. /\ rowForgotten(m) => inEpoch(r) /\ ~(inEpoch(rr) /\ rr.failures > 0)
        /\ knownForgotten(m) => Known(h, r).failures > 0 /\ Known(hh, rr).failures = 0
    BY <1>2 DEF rowForgotten, knownForgotten, inEpoch
  <1>4. inEpoch(r) => r.failures >= 1
    BY DEF FailInv, Weighed, inEpoch
  <1>5. lives(h) /\ ~h.persistFailed => IF inEpoch(r) THEN h.stored.cooldown <= r.cooldown ELSE h.stored.cooldown <= modelClock
    BY DEF KeepInv, Persisted
  <1>11. inEpoch(r) => r.failures > 0
    BY <1>4, FailuresAre
  <1>6. ASSUME rr = r, ~lives(hh) \/ (lives(h) /\ hh.stored = h.stored), lives(h) /\ ~lives(hh) => ~h.persistFailed \/ sequence' = 0
        PROVE  Excused(m)
    <2>1. knownForgotten(m)
      <3>1. inEpoch(r) => inEpoch(rr) /\ rr.failures > 0
        BY <1>6, <1>11
      <3> QED
        BY <1>3, <3>1
    <2>2. ~lives(hh)
      BY <1>3, <1>6, <2>1 DEF Known
    <2>3. ~inEpoch(r)
      BY <1>3, <1>4, <1>6, <2>1, <2>2 DEF Known
    <2>4. lives(h)
      BY <1>3, <1>6, <2>1, <2>3 DEF Known
    <2>5. CASE h.persistFailed
      BY <1>6, <2>2, <2>3, <2>4, <2>5 DEF Excused
    <2>6. CASE ~h.persistFailed
      BY <1>2, <1>5, <2>3, <2>4, <2>6 DEF Excused, Known
    <2> QED
      BY <2>5, <2>6
  <1>7. CASE Stays(m) \/ Loses(m)
    BY <1>6, <1>7 DEF Stays, Loses
  <1>8. CASE Sweeps(m)
    <2>1. CASE DeleteObsoleteModelRuntime[m] = r
      <3>1. Known(hh, rr) = Known(h, r)
        BY <1>8, <2>1 DEF Sweeps, Known
      <3>2. ~knownForgotten(m)
        BY <1>3, <3>1
      <3>3. rr = r
        BY <1>8, <2>1 DEF Sweeps
      <3>4. ~rowForgotten(m)
        BY <1>3, <1>11, <3>3
      <3> QED
        BY <3>2, <3>4
    <2>2. CASE rr = NoState /\ ~inEpoch(r)
      <3>1. Known(hh, rr) = Known(h, r)
        BY <1>8, <2>2, Offstate DEF Sweeps, Known, inEpoch
      <3> QED
        BY <1>3, <2>2, <3>1
    <2>3. CASE inEpoch(r) /\ ~(r.cooldown > modelClock) /\ m \notin offered
      <3>1. r.cooldown <= modelClock
        BY <2>3, CooldownsAre
      <3> QED
        BY <2>3, <3>1 DEF Excused, obsolete
    <2> QED
      BY <1>8, <2>1, <2>2, <2>3, SweptRow DEF Sweeps
  <1>9. CASE Clears(m)
    BY <1>9 DEF Clears, Excused
  <1>10. CASE Fails(m)
    <2>1. Known(hh, rr).failures > 0 /\ (inEpoch(r) => inEpoch(rr) /\ rr.failures > 0)
      BY <1>10 DEF Fails
    <2>2. Known(hh, rr).failures # 0
      BY <2>1
    <2> QED
      BY <1>3, <2>1, <2>2
  <1> QED
    BY <1>1, <1>7, <1>8, <1>9, <1>10

\* What an object knows and its row does not is over, unless it could not be written: with the two invariants above
\* it is what the next theorem needs.
THEOREM KeepInvariance == ModelSpec => []KeepInv
  <1>1. ModelInv /\ FailInv /\ KeepInv /\ [ModelNext]_modelVars => KeepInv'
    BY FailNextOK, KeepNext
  <1> QED
    BY <1>1, KeepInitOK, ModelInvariance, FailureInvariance, PTL DEF ModelSpec

\* No request is admitted before the end of a delay that some response of the epoch asked for, of which an hour is
\* kept; the failures of a model are forgotten only when a request succeeds that was admitted after the last of them,
\* or when they keep no request waiting and the model is no longer offered, what has no row also by a restart or with
\* its last lease; and transient failures close a model only when there were enough of them within one window: for any
\* models, leases, delays and thresholds.
THEOREM FailuresAreWeighed == ModelSpec => FailuresWeighed
  <1>1. ModelInv /\ FailInv /\ [ModelNext]_modelVars
          => [\A l \in Leases : leased(l) => \A f \in failuresSeen[leases'[l].model] : f.until <= modelClock]_modelVars
    BY FailNextOK DEF StepFine
  <1>2. ModelInv /\ FailInv /\ KeepInv /\ [ModelNext]_modelVars
          => [\A m \in Models : UNCHANGED <<lifecycle, resumed>> /\ (rowForgotten(m) \/ knownForgotten(m)) =>
                \/ clearedBySuccess(m)
                \/ inEpoch(modelRow[m]) /\ obsolete(m)
                \/ /\ ~inEpoch(modelRow[m])
                   /\ IF modelHealth[m].persistFailed THEN sequence' = 0 ELSE knownState(m).cooldown <= modelClock]_modelVars
    BY FailNextOK, ForgetsRightly DEF Excused
  <1>3. ModelInv /\ FailInv /\ [ModelNext]_modelVars
          => [\A m \in Models :
               /\ failuresSeen'[m] # failuresSeen[m] /\ (knownState(m))'.reason = "upstream_error"
               /\ (knownState(m))'.cooldown > knownState(m).cooldown
               => Cardinality({f \in failuresSeen'[m] : f.reason = "upstream_error" /\ f.at + TransientWindow > modelClock}) >= TransientThreshold]_modelVars
    BY FailNextOK DEF StepFine, Closed, ManyLately
  <1>4. ModelSpec => WaitsRespected
    BY <1>1, ModelInvariance, FailureInvariance, PTL DEF ModelSpec, WaitsRespected
  <1>5. ModelSpec => ClearedByNewer
    BY <1>2, ModelInvariance, FailureInvariance, KeepInvariance, PTL DEF ModelSpec, ClearedByNewer
  <1>6. ModelSpec => ThresholdWithinWindow
    BY <1>3, ModelInvariance, FailureInvariance, PTL DEF ModelSpec, ThresholdWithinWindow
  <1> QED
    BY <1>4, <1>5, <1>6 DEF FailuresWeighed
-----------------------------------------------------------------------------
(* The catalog of an account.                                                 *)

Contracts == {"v1", "v2"}
Catalogs == [on : BOOLEAN, updated : Nat, source : Contracts \cup {"none"}, authorization : Nat]
Entries == [on : BOOLEAN, revision : Nat, source : Contracts \cup {"none"}, observed : Nat,
            flight : Discoveries \cup {0}, retryAt : Nat, err : {"none", "busy", "failed"}]

DiscoveryType(x) ==
  \/ x = NoDiscovery
  \/ x \in [stage : {"asked"}, revision : Nat, orphan : BOOLEAN]
  \/ x \in [stage : {"answered"}, revision : Nat, orphan : BOOLEAN, source : Contracts, authorization : Nat]
  \/ x \in [stage : {"saving"}, revision : Nat, orphan : BOOLEAN, source : Contracts, authorization : Nat,
            observed : Nat \ {0}]
  \/ x \in [stage : {"done"}, ok : BOOLEAN, orphan : BOOLEAN, observed : Nat] /\ (x.ok => x.observed # 0)

Whys == {"read", "force", "join", "pool", "again"}

ReaderType(x) ==
  \/ x = Away
  \/ x \in [phase : {"rows"}, row : Catalogs, revision : Nat, kept : BOOLEAN]
  \/ x \in [phase : {"checked"}, why : Whys]
  \/ x \in [phase : {"reading"}, why : Whys, row : Catalogs, revision : Nat, kept : BOOLEAN]
  \/ x \in [phase : {"waiting"}, why : Whys, on : Discoveries]

CatalogTypes ==
  /\ account \in [enabled : BOOLEAN, expired : BOOLEAN, revision : Nat, authorization : Nat]
  /\ catalog \in Catalogs /\ (~catalog.on => catalog = Unknown)
  /\ contract \in Contracts /\ cached \in Entries
  /\ discovery = [d \in Discoveries |-> discovery[d]] /\ \A d \in Discoveries : DiscoveryType(discovery[d])
  /\ readerAt = [c \in Readers |-> readerAt[c]] /\ \A c \in Readers : ReaderType(readerAt[c])
  /\ catalogClock \in Nat \ {0}

\* A revision that something was read or asked under is not of the future.
RevisionsPast ==
  /\ cached.revision <= account.revision
  /\ \A d \in Discoveries : discovery[d].stage \in {"asked", "answered", "saving"} => discovery[d].revision <= account.revision
  /\ \A c \in Readers : readerAt[c].phase \in {"reading", "rows"} => readerAt[c].revision <= account.revision

\* What was discovered under the present revision was discovered with the present authorization.
AskedAsAuthorized ==
  \A d \in Discoveries :
    discovery[d].stage \in {"answered", "saving"} /\ discovery[d].revision = account.revision
    => discovery[d].authorization = account.authorization

\* A discovery whose entry was not replaced is the one that its entry knows.
EntryKnows ==
  \A d \in Discoveries :
    discovery[d].stage # "off" /\ ~discovery[d].orphan =>
      /\ cached.on /\ cached.flight = d
      /\ discovery[d].stage # "done" => cached.revision = discovery[d].revision

\* One reader holds the lock, none does once the cache is closing.
LockHeld ==
  /\ \A b, c \in Readers : readerAt[b].phase = "reading" /\ readerAt[c].phase = "reading" => b = c
  /\ cacheOpen # "open" => lockFree

\* A reader that read the row before its catalog was stored.
Overtaken(c) ==
  /\ readerAt[c].phase \in {"reading", "rows"} /\ readerAt[c].kept
  /\ readerAt[c].revision = account.revision
  /\ ~readerAt[c].row.on /\ catalog.on

\* The entry shows what such a reader missed.
MissedIsShown ==
  \A c \in Readers :
    /\ readerAt[c].phase \in {"reading", "rows"} /\ ~readerAt[c].row.on => readerAt[c].row = Unknown
    /\ Overtaken(c) => /\ cached.on /\ cached.revision = account.revision
                       /\ cached.flight # 0 \/ cached.err \in {"busy", "failed"} \/ cached.observed > 0

CatalogInv ==
  /\ CatalogTypes /\ RevisionsPast /\ AskedAsAuthorized /\ DiscoveredAsAuthorized
  /\ EntryKnows /\ LockHeld /\ ClosedQuietly /\ MissedIsShown

LEMMA CatalogInitOK == CatalogInit => CatalogInv
  <1> SUFFICES ASSUME CatalogInit PROVE CatalogInv
    OBVIOUS
  <1>1. CatalogTypes
    BY DEF CatalogInit, CatalogTypes, Catalogs, Entries, Contracts, Unknown, Uncached, DiscoveryType, ReaderType
  <1> QED
    BY <1>1 DEF CatalogInit, CatalogInv, RevisionsPast, AskedAsAuthorized, DiscoveredAsAuthorized, EntryKnows, LockHeld,
       lockFree, ClosedQuietly, MissedIsShown, Overtaken, Unknown, Uncached, NoDiscovery, Away

\* The reader's own steps that change nothing but where it is.
LEMMA ReaderMovesOK ==
  ASSUME CatalogInv, NEW c \in Readers, NEW x, readerAt' = [readerAt EXCEPT ![c] = x], ReaderType(x),
         x.phase \in {"reading", "rows"} => x.revision = account.revision /\ x.row = catalog,
         x.phase = "reading" => lockFree /\ cacheOpen = "open",
         UNCHANGED <<account, catalog, contract, cached, discovery, cacheOpen, catalogClock>>
  PROVE  CatalogInv'
  <1> USE DEF CatalogInv
  <1>3. /\ readerAt' = [b \in Readers |-> readerAt'[b]] /\ readerAt'[c] = x
        /\ \A b \in Readers \ {c} : readerAt'[b] = readerAt[b]
    BY DEF CatalogTypes
  <1>6. CatalogTypes'
    BY <1>3 DEF CatalogTypes
  <1>7. RevisionsPast' /\ AskedAsAuthorized' /\ DiscoveredAsAuthorized' /\ EntryKnows' /\ ClosedQuietly'
    BY <1>3 DEF RevisionsPast, AskedAsAuthorized, DiscoveredAsAuthorized, EntryKnows, ClosedQuietly, CatalogTypes
  <1>8. LockHeld'
    BY <1>3 DEF LockHeld, lockFree
  <1>9. MissedIsShown'
    BY <1>3 DEF MissedIsShown, Overtaken, CatalogTypes
  <1> QED
    BY <1>6, <1>7, <1>8, <1>9

LEMMA ReaderOK ==
  ASSUME CatalogInv, NEW c \in Readers,
         \/ \E why \in {"read", "force", "join", "pool"} : beginRead(c, why)
         \/ lockAndRead(c) \/ rereadCatalog(c) \/ groupCatalog(c)
  PROVE  CatalogInv'
  <1>1. UNCHANGED <<account, catalog, contract, cached, discovery, cacheOpen, catalogClock>>
    BY DEF beginRead, lockAndRead, rereadCatalog, groupCatalog
  <1>2. catalog \in Catalogs /\ account.revision \in Nat
    BY DEF CatalogInv, CatalogTypes
  <1>3. CASE readerAt' = [readerAt EXCEPT ![c] = Away]
    BY <1>1, <1>3, ReaderMovesOK DEF ReaderType, Away
  <1>4. ASSUME NEW why \in {"read", "force", "join", "pool"}, beginRead(c, why) PROVE CatalogInv'
    <2>1. CASE why = "pool"
      <3> DEFINE x == [phase |-> "rows", row |-> catalog, revision |-> account.revision, kept |-> TRUE]
      <3>1. ReaderType(x) /\ x.phase = "rows" /\ x.revision = account.revision /\ x.row = catalog
        BY <1>2 DEF ReaderType
      <3>2. readerAt' = [readerAt EXCEPT ![c] = x]
        BY <1>4, <2>1 DEF beginRead
      <3> HIDE DEF x
      <3> QED
        BY <1>1, <3>1, <3>2, ReaderMovesOK
    <2>2. CASE why # "pool"
      <3> DEFINE x == [phase |-> "checked", why |-> why]
      <3>1. ReaderType(x) /\ x.phase = "checked"
        BY <1>4 DEF ReaderType, Whys
      <3>2. readerAt' = [readerAt EXCEPT ![c] = x]
        BY <1>4, <2>2 DEF beginRead
      <3> HIDE DEF x
      <3> QED
        BY <1>1, <3>1, <3>2, ReaderMovesOK
    <2> QED
      BY <2>1, <2>2
  <1>5. CASE lockAndRead(c) /\ cacheOpen = "open"
    <2> DEFINE x == [phase |-> "reading", why |-> readerAt[c].why, row |-> catalog, revision |-> account.revision, kept |-> TRUE]
    <2>1. readerAt' = [readerAt EXCEPT ![c] = x] /\ lockFree /\ readerAt[c].phase = "checked"
      BY <1>5 DEF lockAndRead, openForReads
    <2>2. readerAt[c].why \in Whys
      BY <2>1 DEF CatalogInv, CatalogTypes, ReaderType, Away
    <2>3. ReaderType(x) /\ x.phase = "reading" /\ x.revision = account.revision /\ x.row = catalog
      BY <1>2, <2>2 DEF ReaderType
    <2> HIDE DEF x
    <2> QED
      BY <1>1, <1>5, <2>1, <2>3, ReaderMovesOK
  <1> QED
    BY <1>3, <1>4, <1>5 DEF lockAndRead, openForReads, rereadCatalog, groupCatalog

\* A discovery goes on; its entry knows it as before.
LEMMA DiscoveryMovesOK ==
  ASSUME CatalogInv, NEW d \in Discoveries, NEW x, discovery' = [discovery EXCEPT ![d] = x], DiscoveryType(x),
         discovery[d].stage # "off", x.stage # "off", x.orphan = discovery[d].orphan,
         x.stage \in {"asked", "answered", "saving"} =>
           discovery[d].stage \in {"asked", "answered", "saving"} /\ x.revision = discovery[d].revision,
         x.stage \in {"answered", "saving"} /\ x.revision = account.revision => x.authorization = account.authorization,
         UNCHANGED <<account, catalog, contract, cached, readerAt, cacheOpen, catalogClock>>
  PROVE  CatalogInv'
  <1> USE DEF CatalogInv
  <1>1. /\ discovery' = [e \in Discoveries |-> discovery'[e]] /\ discovery'[d] = x
        /\ \A e \in Discoveries \ {d} : discovery'[e] = discovery[e]
    BY DEF CatalogTypes
  <1>2. CatalogTypes'
    BY <1>1 DEF CatalogTypes
  <1>3. RevisionsPast' /\ AskedAsAuthorized' /\ DiscoveredAsAuthorized'
    BY <1>1 DEF RevisionsPast, AskedAsAuthorized, DiscoveredAsAuthorized
  <1>4. EntryKnows' /\ ClosedQuietly'
    <2>1. x.stage \in {"asked", "answered", "saving", "done"}
      BY DEF DiscoveryType, NoDiscovery
    <2>2. EntryKnows'
      BY <1>1, <2>1 DEF EntryKnows
    <2> QED
      BY <1>1, <2>2 DEF ClosedQuietly
  <1>5. LockHeld' /\ MissedIsShown'
    BY DEF LockHeld, lockFree, MissedIsShown, Overtaken
  <1> QED
    BY <1>2, <1>3, <1>4, <1>5

LEMMA DiscoverOK == ASSUME CatalogInv, NEW d \in Discoveries, NEW ok \in BOOLEAN, Discover(d, ok) PROVE CatalogInv'
  <1>1. discovery[d] \in [stage : {"asked"}, revision : Nat, orphan : BOOLEAN]
    <2>1. DiscoveryType(discovery[d]) /\ discovery[d].stage = "asked"
      BY DEF CatalogInv, CatalogTypes, Discover
    <2> QED
      BY <2>1 DEF DiscoveryType, NoDiscovery
  <1>2. account.authorization \in Nat /\ contract \in Contracts
    BY DEF CatalogInv, CatalogTypes
  <1> DEFINE answer == [stage |-> "answered", revision |-> discovery[d].revision, orphan |-> discovery[d].orphan,
                        source |-> contract, authorization |-> account.authorization]
             failed == [stage |-> "done", ok |-> FALSE, orphan |-> discovery[d].orphan, observed |-> 0]
  <1>3. /\ UNCHANGED <<account, catalog, contract, cached, readerAt, cacheOpen, catalogClock>>
        /\ discovery' = [discovery EXCEPT ![d] = IF ok THEN answer ELSE failed]
    BY Zenon DEF Discover
  <1>4. /\ DiscoveryType(answer) /\ answer.stage = "answered" /\ answer.orphan = discovery[d].orphan
        /\ answer.revision = discovery[d].revision /\ answer.authorization = account.authorization
        /\ DiscoveryType(failed) /\ failed.stage = "done" /\ failed.orphan = discovery[d].orphan
    BY <1>1, <1>2 DEF DiscoveryType
  <1> HIDE DEF answer, failed
  <1>5. discovery[d].stage = "asked"
    BY <1>1
  <1>6. CASE ok
    BY <1>3, <1>4, <1>5, <1>6, DiscoveryMovesOK
  <1>7. CASE ~ok
    BY <1>3, <1>4, <1>5, <1>7, DiscoveryMovesOK
  <1> QED
    BY <1>6, <1>7

LEMMA ObservedOK == ASSUME CatalogInv, NEW d \in Discoveries, observed(d) PROVE CatalogInv'
  <1>1. discovery[d] \in [stage : {"answered"}, revision : Nat, orphan : BOOLEAN, source : Contracts, authorization : Nat]
    <2>1. DiscoveryType(discovery[d]) /\ discovery[d].stage = "answered"
      BY DEF CatalogInv, CatalogTypes, observed
    <2> QED
      BY <2>1 DEF DiscoveryType, NoDiscovery
  <1>2. catalogClock \in Nat \ {0}
    BY DEF CatalogInv, CatalogTypes
  <1> DEFINE saving == [stage |-> "saving", revision |-> discovery[d].revision, orphan |-> discovery[d].orphan,
                        source |-> discovery[d].source, authorization |-> discovery[d].authorization,
                        observed |-> catalogClock]
             failed == [stage |-> "done", ok |-> FALSE, orphan |-> discovery[d].orphan, observed |-> 0]
  <1>3. /\ UNCHANGED <<account, catalog, contract, cached, readerAt, cacheOpen, catalogClock>>
        /\ discovery' = [discovery EXCEPT ![d] = IF discovery[d].source = contract THEN saving ELSE failed]
    BY Zenon DEF observed
  <1>4. /\ DiscoveryType(saving) /\ saving.stage = "saving" /\ saving.orphan = discovery[d].orphan
        /\ saving.revision = discovery[d].revision /\ saving.authorization = discovery[d].authorization
        /\ DiscoveryType(failed) /\ failed.stage = "done" /\ failed.orphan = discovery[d].orphan
    BY <1>1, <1>2 DEF DiscoveryType
  <1> HIDE DEF saving, failed
  <1>5. discovery[d].stage = "answered"
    BY <1>1
  <1>6. discovery[d].revision = account.revision => discovery[d].authorization = account.authorization
    BY <1>5 DEF CatalogInv, AskedAsAuthorized
  <1>7. CASE discovery[d].source = contract
    BY <1>3, <1>4, <1>5, <1>6, <1>7, DiscoveryMovesOK
  <1>8. CASE discovery[d].source # contract
    BY <1>3, <1>4, <1>5, <1>8, DiscoveryMovesOK
  <1> QED
    BY <1>7, <1>8

\* A reader that is unsettled keeps its row and is excepted.
LEMMA Unsettled ==
  ASSUME NEW readers, readers = [c \in Readers |-> readers[c]], \A c \in Readers : ReaderType(readers[c]),
         NEW phases, phases \subseteq {"reading", "rows"}
  PROVE  LET after == unsettled(readers, phases)
         IN  /\ after = [c \in Readers |-> after[c]]
             /\ \A c \in Readers :
                  /\ ReaderType(after[c]) /\ after[c].phase = readers[c].phase
                  /\ readers[c].phase \notin phases => after[c] = readers[c]
                  /\ readers[c].phase \in {"reading", "rows"} =>
                       /\ after[c].row = readers[c].row /\ after[c].revision = readers[c].revision
                       /\ after[c].kept => readers[c].kept /\ readers[c].phase \notin phases
                  /\ readers[c].phase = "reading" => after[c].why = readers[c].why
  <1> DEFINE after == unsettled(readers, phases)
  <1>1. after = [c \in Readers |-> IF readers[c].phase \in phases THEN [readers[c] EXCEPT !.kept = FALSE] ELSE readers[c]]
    BY Zenon DEF unsettled
  <1>2. after = [c \in Readers |-> after[c]]
    BY <1>1
  <1>3. ASSUME NEW c \in Readers
        PROVE  /\ ReaderType(after[c]) /\ after[c].phase = readers[c].phase
               /\ readers[c].phase \notin phases => after[c] = readers[c]
               /\ readers[c].phase \in {"reading", "rows"} =>
                    /\ after[c].row = readers[c].row /\ after[c].revision = readers[c].revision
                    /\ after[c].kept => readers[c].kept /\ readers[c].phase \notin phases
               /\ readers[c].phase = "reading" => after[c].why = readers[c].why
    <2>1. CASE readers[c].phase \notin phases
      BY <1>1, <2>1
    <2>2. CASE readers[c].phase \in phases
      <3>1. after[c] = [readers[c] EXCEPT !.kept = FALSE]
        BY <1>1, <2>2
      <3>2. CASE readers[c] \in [phase : {"rows"}, row : Catalogs, revision : Nat, kept : BOOLEAN]
        BY <2>2, <3>1, <3>2 DEF ReaderType
      <3>3. CASE readers[c] \in [phase : {"reading"}, why : Whys, row : Catalogs, revision : Nat, kept : BOOLEAN]
        BY <2>2, <3>1, <3>3 DEF ReaderType
      <3> QED
        BY <2>2, <3>2, <3>3 DEF ReaderType, Away
    <2> QED
      BY <2>1, <2>2
  <1> QED
    BY <1>2, <1>3, Zenon

\* A catalog is stored: whoever read the row before learns it from the entry, or is excepted.
LEMMA SaveCatalogOK == ASSUME CatalogInv, NEW d \in Discoveries, SaveCatalogSnapshot(d) PROVE CatalogInv'
  <1> DEFINE saved == SaveAccountCatalog(discovery[d].revision, discovery[d].observed)
             done == [stage |-> "done", ok |-> saved, orphan |-> discovery[d].orphan, observed |-> discovery[d].observed]
             found == [on |-> TRUE, updated |-> discovery[d].observed, source |-> discovery[d].source,
                       authorization |-> discovery[d].authorization]
             phases == IF saved /\ discovery[d].orphan THEN {"reading", "rows"} ELSE {}
  <1>1. /\ UNCHANGED <<account, contract, cached, cacheOpen, catalogClock>>
        /\ discovery' = [discovery EXCEPT ![d] = done] /\ catalog' = IF saved THEN found ELSE catalog
        /\ readerAt' = unsettled(readerAt, phases) /\ discovery[d].stage = "saving"
    BY Zenon DEF SaveCatalogSnapshot
  <1>2. discovery[d] \in [stage : {"saving"}, revision : Nat, orphan : BOOLEAN, source : Contracts,
                          authorization : Nat, observed : Nat \ {0}]
    <2>1. DiscoveryType(discovery[d])
      BY DEF CatalogInv, CatalogTypes
    <2> QED
      BY <1>1, <2>1 DEF DiscoveryType, NoDiscovery
  <1>3. saved \in BOOLEAN /\ (saved => discovery[d].revision = account.revision)
    BY DEF SaveAccountCatalog
  <1> HIDE DEF saved
  <1>4. DiscoveryType(done) /\ done.stage = "done" /\ done.orphan = discovery[d].orphan
    BY <1>2, <1>3 DEF DiscoveryType
  <1> HIDE DEF done
  <1>5. /\ readerAt' = [c \in Readers |-> readerAt'[c]]
        /\ \A c \in Readers :
             /\ ReaderType(readerAt'[c]) /\ readerAt'[c].phase = readerAt[c].phase
             /\ readerAt[c].phase \notin phases => readerAt'[c] = readerAt[c]
             /\ readerAt[c].phase \in {"reading", "rows"} =>
                  /\ readerAt'[c].row = readerAt[c].row /\ readerAt'[c].revision = readerAt[c].revision
                  /\ readerAt'[c].kept => readerAt[c].kept /\ readerAt[c].phase \notin phases
    <2>1. phases \subseteq {"reading", "rows"} /\ readerAt = [c \in Readers |-> readerAt[c]]
          /\ \A c \in Readers : ReaderType(readerAt[c])
      BY DEF CatalogInv, CatalogTypes
    <2> HIDE DEF phases
    <2> QED
      BY <1>1, <2>1, Unsettled
  <1>6. CASE ~saved
    <2>1. catalog' = catalog /\ readerAt' = readerAt
      BY <1>1, <1>5, <1>6 DEF CatalogInv, CatalogTypes
    <2> QED
      BY <1>1, <1>4, <2>1, DiscoveryMovesOK
  <1>7. CASE saved
    <2> USE DEF CatalogInv
    <2>1. catalog' = found /\ found \in Catalogs /\ found.on
      BY <1>1, <1>2, <1>7 DEF Catalogs
    <2>2. found.authorization = account.authorization
      BY <1>1, <1>3, <1>7 DEF AskedAsAuthorized
    <2> HIDE DEF found
    <2>3. /\ discovery' = [e \in Discoveries |-> discovery'[e]] /\ discovery'[d] = done
          /\ \A e \in Discoveries \ {d} : discovery'[e] = discovery[e]
      BY <1>1 DEF CatalogTypes
    <2>4. CatalogTypes'
      BY <1>1, <1>4, <1>5, <2>1, <2>3 DEF CatalogTypes
    <2>5. RevisionsPast' /\ AskedAsAuthorized' /\ DiscoveredAsAuthorized'
      BY <1>1, <1>4, <1>5, <2>1, <2>2, <2>3 DEF RevisionsPast, AskedAsAuthorized, DiscoveredAsAuthorized
    <2>6. EntryKnows' /\ ClosedQuietly'
      BY <1>1, <1>4, <2>3 DEF EntryKnows, ClosedQuietly
    <2>7. LockHeld'
      BY <1>1, <1>5 DEF LockHeld, lockFree
    <2>8. ASSUME NEW c \in Readers
          PROVE  /\ readerAt'[c].phase \in {"reading", "rows"} /\ ~readerAt'[c].row.on => readerAt'[c].row = Unknown
                 /\ Overtaken(c)' => /\ cached'.on /\ cached'.revision = account'.revision
                                     /\ cached'.flight # 0
      <3>1. readerAt'[c].phase \in {"reading", "rows"} /\ ~readerAt'[c].row.on => readerAt'[c].row = Unknown
        BY <1>5 DEF MissedIsShown
      <3>2. ASSUME Overtaken(c)' PROVE ~discovery[d].orphan
        BY <1>5, <1>7, <3>2 DEF Overtaken
      <3>3. ~discovery[d].orphan => cached.on /\ cached.flight = d /\ cached.revision = account.revision
        BY <1>1, <1>3, <1>7 DEF EntryKnows
      <3> QED
        BY <1>1, <3>1, <3>2, <3>3, CatalogAssumption
    <2>9. MissedIsShown'
      BY <2>8 DEF MissedIsShown
    <2> QED
      BY <2>4, <2>5, <2>6, <2>7, <2>9
  <1> QED
    BY <1>6, <1>7

\* An entry with a discovery, and one without a slot for it.
LEMMA AskedEntry ==
  ASSUME NEW e \in Entries, NEW d \in Discoveries, NEW at \in Nat
  PROVE  LET new == [e EXCEPT !.flight = d, !.retryAt = at]
         IN  /\ new \in Entries /\ new.on = e.on /\ new.revision = e.revision /\ new.flight = d
             /\ new.err = e.err /\ new.observed = e.observed
  BY DEF Entries

LEMMA BusyEntry ==
  ASSUME NEW e \in Entries, NEW at \in Nat
  PROVE  LET new == [e EXCEPT !.err = "busy", !.retryAt = at]
         IN  /\ new \in Entries /\ new.on = e.on /\ new.revision = e.revision /\ new.flight = e.flight
             /\ new.err = "busy" /\ new.observed = e.observed
  BY DEF Entries

\* A discovery ends: its entry says how, its waiters go on to read.
LEMMA FetchOK == ASSUME CatalogInv, NEW d \in Discoveries, fetchCatalog(d) PROVE CatalogInv'
  <1> USE DEF CatalogInv
  <1> DEFINE x == discovery[d]
             seen == IF x.ok THEN x.observed ELSE cached.observed
             err == IF x.ok THEN "none" ELSE "failed"
             at == catalogClock + (IF x.ok THEN CatalogCooldown ELSE CatalogBackoff)
             ended == [cached EXCEPT !.flight = 0, !.err = err, !.observed = seen, !.retryAt = at]
  <1>1. /\ UNCHANGED <<account, catalog, contract, cacheOpen, catalogClock>>
        /\ discovery' = [discovery EXCEPT ![d] = NoDiscovery] /\ x.stage = "done" /\ lockFree
    BY Zenon DEF fetchCatalog
  <1>2. cached' = IF x.orphan THEN cached ELSE ended
    BY DEF fetchCatalog
  <1>3. /\ x \in [stage : {"done"}, ok : BOOLEAN, orphan : BOOLEAN, observed : Nat] /\ (x.ok => x.observed # 0)
        /\ cached \in Entries /\ seen \in Nat /\ err \in {"none", "failed"} /\ at \in Nat
    <2>1. DiscoveryType(x) /\ cached \in Entries /\ catalogClock \in Nat
      BY DEF CatalogTypes
    <2>2. x \in [stage : {"done"}, ok : BOOLEAN, orphan : BOOLEAN, observed : Nat] /\ (x.ok => x.observed # 0)
      BY <1>1, <2>1 DEF DiscoveryType, NoDiscovery
    <2> QED
      BY <2>1, <2>2, CatalogAssumption DEF Entries
  <1>4. /\ ended \in Entries /\ ended.on = cached.on /\ ended.revision = cached.revision /\ ended.flight = 0
        /\ ended.err = err /\ ended.observed = seen
    <2>1. cached \in Entries /\ seen \in Nat /\ err \in {"none", "busy", "failed"} /\ at \in Nat
      BY <1>3
    <2> HIDE DEF x, seen, err, at
    <2> QED
      BY ONLY <2>1 DEF Entries, ended
  <1> HIDE DEF ended
  <1>5. ended.err = "failed" \/ ended.observed > 0
    BY <1>3, <1>4
  <1>6. /\ readerAt' = [c \in Readers |-> readerAt'[c]]
        /\ \A c \in Readers :
             /\ ReaderType(readerAt'[c])
             /\ readerAt[c].phase \in {"reading", "rows"} => readerAt'[c] = readerAt[c]
             /\ readerAt'[c].phase \in {"reading", "rows"} => readerAt'[c] = readerAt[c]
    <2>1. readerAt' = [c \in Readers |->
                         IF readerAt[c].phase = "waiting" /\ readerAt[c].on = d
                         THEN IF listed THEN [phase |-> "checked", why |-> IF readerAt[c].why = "force" THEN "again" ELSE "read"]
                              ELSE Away
                         ELSE readerAt[c]]
      BY DEF fetchCatalog
    <2>2. ASSUME NEW c \in Readers
          PROVE  /\ ReaderType(readerAt'[c])
                 /\ readerAt[c].phase \in {"reading", "rows"} => readerAt'[c] = readerAt[c]
                 /\ readerAt'[c].phase \in {"reading", "rows"} => readerAt'[c] = readerAt[c]
      <3>1. CASE readerAt[c].phase = "waiting"
        <4> DEFINE y == [phase |-> "checked", why |-> IF readerAt[c].why = "force" THEN "again" ELSE "read"]
        <4>1. ReaderType(y) /\ y.phase = "checked"
          BY DEF ReaderType, Whys
        <4>2. readerAt'[c] = y \/ readerAt'[c] = Away \/ readerAt'[c] = readerAt[c]
          BY <2>1
        <4> HIDE DEF y
        <4> QED
          BY <3>1, <4>1, <4>2 DEF CatalogTypes, ReaderType, Away
      <3>2. CASE readerAt[c].phase # "waiting"
        BY <2>1, <3>2 DEF CatalogTypes
      <3> QED
        BY <3>1, <3>2
    <2> QED
      BY <2>1, <2>2
  <1>7. /\ discovery' = [e \in Discoveries |-> discovery'[e]] /\ discovery'[d] = NoDiscovery
        /\ \A e \in Discoveries \ {d} : discovery'[e] = discovery[e]
    BY <1>1 DEF CatalogTypes
  <1>8. CatalogTypes'
    BY <1>1, <1>2, <1>3, <1>4, <1>6, <1>7 DEF CatalogTypes, DiscoveryType
  <1>9. RevisionsPast' /\ AskedAsAuthorized' /\ DiscoveredAsAuthorized'
    BY <1>1, <1>2, <1>4, <1>6, <1>7 DEF RevisionsPast, AskedAsAuthorized, DiscoveredAsAuthorized, NoDiscovery
  <1>10. EntryKnows' /\ ClosedQuietly'
    BY <1>1, <1>2, <1>7 DEF EntryKnows, ClosedQuietly, NoDiscovery
  <1>11. LockHeld'
    BY <1>1, <1>6 DEF LockHeld, lockFree
  <1>12. MissedIsShown'
    BY <1>1, <1>2, <1>4, <1>5, <1>6 DEF MissedIsShown, Overtaken
  <1> QED
    BY <1>8, <1>9, <1>10, <1>11, <1>12

\* The entry a reader consults is the present one or a new one without a discovery.
LEMMA EntryForIs ==
  ASSUME CatalogTypes, NEW row \in Catalogs, NEW revision \in Nat, NEW e, e = entryFor(row, revision)
  PROVE  /\ e \in Entries /\ e.on /\ e.revision = revision /\ e.source = contract
         /\ \/ e = cached
            \/ e.flight = 0 /\ e.err = "none" /\ e.observed = 0 /\ (sourceChanged(row) => e.retryAt = 0)
  <1>1. CASE cached.on /\ cached.revision = revision /\ cached.source = contract
    BY <1>1 DEF CatalogTypes, entryFor
  <1>2. CASE ~(cached.on /\ cached.revision = revision /\ cached.source = contract)
    <2> DEFINE at == IF sourceChanged(row) THEN 0 ELSE row.updated + CatalogCooldown
    <2>1. e = [on |-> TRUE, revision |-> revision, source |-> contract, observed |-> 0, flight |-> 0, err |-> "none",
               retryAt |-> at]
      BY <1>2 DEF entryFor
    <2>2. at \in Nat /\ contract \in Contracts
      BY CatalogAssumption DEF CatalogTypes, Catalogs
    <2>3. sourceChanged(row) => at = 0
      OBVIOUS
    <2> HIDE DEF at
    <2> QED
      BY <2>1, <2>2, <2>3 DEF Entries
  <1> QED
    BY <1>1, <1>2

\* What becomes of a discovery whose entry is replaced.
LEMMA OrphanIs ==
  ASSUME NEW x, DiscoveryType(x)
  PROVE  LET y == [x EXCEPT !.orphan = TRUE]
         IN  /\ DiscoveryType(y) /\ y.stage = x.stage
             /\ x.stage \in {"asked", "answered", "saving"} => y.revision = x.revision
             /\ x.stage \in {"answered", "saving"} => y.authorization = x.authorization
             /\ x.stage # "off" => y.orphan
  <1>1. CASE x = NoDiscovery
    BY <1>1 DEF DiscoveryType, NoDiscovery
  <1>2. ASSUME NEW r \in [stage : {"asked"}, revision : Nat, orphan : BOOLEAN], x = r
        PROVE  LET y == [r EXCEPT !.orphan = TRUE]
               IN  /\ y \in [stage : {"asked"}, revision : Nat, orphan : BOOLEAN] /\ y.orphan
                   /\ y.stage = r.stage /\ y.revision = r.revision
    OBVIOUS
  <1>3. ASSUME NEW r \in [stage : {"answered"}, revision : Nat, orphan : BOOLEAN, source : Contracts, authorization : Nat], x = r
        PROVE  LET y == [r EXCEPT !.orphan = TRUE]
               IN  /\ y \in [stage : {"answered"}, revision : Nat, orphan : BOOLEAN, source : Contracts, authorization : Nat]
                   /\ y.orphan /\ y.stage = r.stage /\ y.revision = r.revision /\ y.authorization = r.authorization
    OBVIOUS
  <1>4. ASSUME NEW r \in [stage : {"saving"}, revision : Nat, orphan : BOOLEAN, source : Contracts, authorization : Nat,
                          observed : Nat \ {0}], x = r
        PROVE  LET y == [r EXCEPT !.orphan = TRUE]
               IN  /\ y \in [stage : {"saving"}, revision : Nat, orphan : BOOLEAN, source : Contracts, authorization : Nat,
                             observed : Nat \ {0}]
                   /\ y.orphan /\ y.stage = r.stage /\ y.revision = r.revision /\ y.authorization = r.authorization
    OBVIOUS
  <1>5. ASSUME NEW r \in [stage : {"done"}, ok : BOOLEAN, orphan : BOOLEAN, observed : Nat], r.ok => r.observed # 0, x = r
        PROVE  LET y == [r EXCEPT !.orphan = TRUE]
               IN  /\ y \in [stage : {"done"}, ok : BOOLEAN, orphan : BOOLEAN, observed : Nat] /\ (y.ok => y.observed # 0)
                   /\ y.orphan /\ y.stage = r.stage
    BY <1>5
  <1> DEFINE y == [x EXCEPT !.orphan = TRUE]
  <1>6. \/ x = NoDiscovery
        \/ x \in [stage : {"asked"}, revision : Nat, orphan : BOOLEAN]
        \/ x \in [stage : {"answered"}, revision : Nat, orphan : BOOLEAN, source : Contracts, authorization : Nat]
        \/ x \in [stage : {"saving"}, revision : Nat, orphan : BOOLEAN, source : Contracts, authorization : Nat,
                  observed : Nat \ {0}]
        \/ x \in [stage : {"done"}, ok : BOOLEAN, orphan : BOOLEAN, observed : Nat] /\ (x.ok => x.observed # 0)
    BY DEF DiscoveryType
  <1> QED
    BY <1>1, <1>2, <1>3, <1>4, <1>5, <1>6, Zenon DEF DiscoveryType

\* The discovery of a replaced entry goes on as an orphan, and no discovery that runs is of a new entry.
LEMMA Orphaned ==
  ASSUME CatalogTypes, EntryKnows, NEW e, e = cached \/ e.flight = 0, NEW d \in Discoveries
  PROVE  /\ DiscoveryType(orphaned(e)[d]) /\ orphaned(e)[d].stage = discovery[d].stage
         /\ discovery[d].stage \in {"asked", "answered", "saving"} => orphaned(e)[d].revision = discovery[d].revision
         /\ discovery[d].stage \in {"answered", "saving"} => orphaned(e)[d].authorization = discovery[d].authorization
         /\ orphaned(e)[d].stage # "off" /\ ~orphaned(e)[d].orphan
            => cached.on /\ cached.flight = d /\ d = e.flight /\ orphaned(e)[d] = discovery[d]
  <1> DEFINE x == discovery[d]
             y == orphaned(e)[d]
  <1>1. y = IF d = cached.flight /\ d # e.flight THEN [x EXCEPT !.orphan = TRUE] ELSE x
    BY DEF orphaned
  <1>2. DiscoveryType(x)
    BY DEF CatalogTypes
  <1>3. CASE d = cached.flight /\ d # e.flight
    <2>1. y = [x EXCEPT !.orphan = TRUE]
      BY <1>1, <1>3
    <2> QED
      BY <1>2, <2>1, OrphanIs
  <1>4. CASE ~(d = cached.flight /\ d # e.flight)
    <2>1. y = x
      BY <1>1, <1>4
    <2>2. x.stage # "off" /\ ~x.orphan => cached.on /\ cached.flight = d
      BY DEF EntryKnows
    <2> QED
      BY <1>2, <1>4, <2>1, <2>2
  <1> QED
    BY <1>3, <1>4

\* What a discovery is, beside the entry that knows it.
DiscoveryKept(d, x, e) ==
  /\ DiscoveryType(x)
  /\ x.stage \in {"asked", "answered", "saving"} => x.revision <= account.revision
  /\ x.stage \in {"answered", "saving"} /\ x.revision = account.revision => x.authorization = account.authorization
  /\ x.stage # "off" /\ ~x.orphan => e.on /\ e.flight = d /\ (x.stage # "done" => e.revision = x.revision)

\* After a replacement the discoveries that are not orphans are the one that the entry knows.
LEMMA OrphanedKept ==
  ASSUME CatalogInv, NEW e \in Entries, e = cached \/ e.flight = 0, NEW d \in Discoveries
  PROVE  DiscoveryKept(d, orphaned(e)[d], e)
  <1> USE DEF CatalogInv
  <1>1. /\ DiscoveryType(orphaned(e)[d]) /\ orphaned(e)[d].stage = discovery[d].stage
        /\ discovery[d].stage \in {"asked", "answered", "saving"} => orphaned(e)[d].revision = discovery[d].revision
        /\ discovery[d].stage \in {"answered", "saving"} => orphaned(e)[d].authorization = discovery[d].authorization
        /\ orphaned(e)[d].stage # "off" /\ ~orphaned(e)[d].orphan
           => cached.on /\ cached.flight = d /\ d = e.flight /\ orphaned(e)[d] = discovery[d]
    BY Orphaned
  <1>2. ASSUME orphaned(e)[d].stage # "off", ~orphaned(e)[d].orphan
        PROVE  e.on /\ e.flight = d /\ (orphaned(e)[d].stage # "done" => e.revision = orphaned(e)[d].revision)
    <2>1. cached.on /\ cached.flight = d /\ d = e.flight /\ orphaned(e)[d] = discovery[d]
      BY <1>1, <1>2
    <2>2. e = cached
      BY <2>1, CatalogAssumption
    <2>3. discovery[d].stage # "off" /\ ~discovery[d].orphan
      BY <1>2, <2>1
    <2>4. discovery[d].stage # "done" => cached.revision = discovery[d].revision
      BY <2>3 DEF EntryKnows
    <2> QED
      BY <2>1, <2>2, <2>4
  <1>3. orphaned(e)[d].stage \in {"asked", "answered", "saving"} => orphaned(e)[d].revision <= account.revision
    BY <1>1 DEF RevisionsPast
  <1>4. orphaned(e)[d].stage \in {"answered", "saving"} /\ orphaned(e)[d].revision = account.revision
        => orphaned(e)[d].authorization = account.authorization
    BY <1>1 DEF AskedAsAuthorized
  <1> QED
    BY <1>1, <1>2, <1>3, <1>4, Zenon DEF DiscoveryKept

\* A discovery begins, or finds no slot.
LEMMA Discovering ==
  ASSUME CatalogInv, NEW e \in Entries, e.on, e.flight = 0, e.revision <= account.revision, discover(e)
  PROVE  /\ cached' \in Entries /\ cached'.on /\ cached'.revision = e.revision
         /\ cached'.flight # 0 \/ cached'.err = "busy"
         /\ discovery' = [d \in Discoveries |-> discovery'[d]]
         /\ \A d \in Discoveries : DiscoveryKept(d, discovery'[d], cached')
  <1>1. catalogClock \in Nat /\ catalogClock + CatalogCooldown \in Nat
    BY CatalogAssumption DEF CatalogInv, CatalogTypes
  <1>2. orphaned(e) = [d \in Discoveries |-> orphaned(e)[d]]
    BY DEF orphaned
  <1>3. \A d \in Discoveries : DiscoveryKept(d, orphaned(e)[d], e)
    BY OrphanedKept
  <1>4. ASSUME NEW d \in Discoveries, cached' = [e EXCEPT !.flight = d, !.retryAt = catalogClock + CatalogCooldown],
               discovery' = [orphaned(e) EXCEPT ![d] = [stage |-> "asked", revision |-> e.revision, orphan |-> FALSE]]
        PROVE  /\ cached' \in Entries /\ cached'.on /\ cached'.revision = e.revision
               /\ cached'.flight # 0 \/ cached'.err = "busy"
               /\ discovery' = [b \in Discoveries |-> discovery'[b]]
               /\ \A b \in Discoveries : DiscoveryKept(b, discovery'[b], cached')
    <2>1. cached' \in Entries /\ cached'.on /\ cached'.revision = e.revision /\ cached'.flight = d
      BY <1>1, <1>4 DEF Entries
    <2>2. d # 0
      BY CatalogAssumption
    <2> DEFINE begin == [stage |-> "asked", revision |-> e.revision, orphan |-> FALSE]
    <2>3. e.revision \in Nat
      BY DEF Entries
    <2>4. DiscoveryType(begin) /\ begin.stage = "asked" /\ begin.revision = e.revision
      BY <2>3 DEF DiscoveryType
    <2>5. discovery' = [orphaned(e) EXCEPT ![d] = begin]
      BY <1>4
    <2> HIDE DEF begin
    <2>6. /\ discovery' = [b \in Discoveries |-> discovery'[b]] /\ discovery'[d] = begin
          /\ \A b \in Discoveries \ {d} : discovery'[b] = orphaned(e)[b]
      BY <1>2, <2>5
    <2>7. DiscoveryKept(d, begin, cached')
      BY <2>1, <2>4 DEF DiscoveryKept
    <2>8. ASSUME NEW b \in Discoveries \ {d} PROVE DiscoveryKept(b, discovery'[b], cached')
      <3>1. DiscoveryKept(b, orphaned(e)[b], e) /\ b # 0
        BY <1>3, CatalogAssumption
      <3>2. DiscoveryKept(b, orphaned(e)[b], cached')
        BY <3>1 DEF DiscoveryKept
      <3> QED
        BY <2>6, <3>2
    <2> QED
      BY <2>1, <2>2, <2>6, <2>7, <2>8
  <1>5. CASE cached' = [e EXCEPT !.err = "busy", !.retryAt = catalogClock] /\ discovery' = orphaned(e)
    <2>1. cached' \in Entries /\ cached'.on /\ cached'.revision = e.revision /\ cached'.err = "busy" /\ cached'.flight = e.flight
      BY <1>1, <1>5 DEF Entries
    <2>2. ASSUME NEW b \in Discoveries PROVE DiscoveryKept(b, discovery'[b], cached')
      <3>1. DiscoveryKept(b, orphaned(e)[b], e) /\ discovery'[b] = orphaned(e)[b]
        BY <1>3, <1>5
      <3> QED
        BY <2>1, <3>1 DEF DiscoveryKept
    <2> QED
      BY <1>2, <1>5, <2>1, <2>2
  <1> QED
    BY <1>4, <1>5 DEF discover

\* What AccountCatalog leaves behind: the entry it consulted, or one that says that somebody asks.
LEMMA AccountCatalogIs ==
  ASSUME CatalogInv, NEW c \in Readers, AccountCatalog(c),
         NEW e, e = entryFor(readerAt[c].row, readerAt[c].revision)
  PROVE  /\ readerAt[c] \in [phase : {"reading"}, why : Whys, row : Catalogs, revision : Nat, kept : BOOLEAN]
         /\ readerAt[c].revision <= account.revision
         /\ cached' \in Entries /\ cached'.on /\ cached'.revision = readerAt[c].revision
         /\ \/ cached'.flight # 0 \/ cached'.err = "busy"
            \/ cached' = e /\ (e = cached \/ ~sourceChanged(readerAt[c].row))
         /\ discovery' = [d \in Discoveries |-> discovery'[d]]
         /\ \A d \in Discoveries : DiscoveryKept(d, discovery'[d], cached')
         /\ UNCHANGED <<account, catalog, contract, cacheOpen, catalogClock>>
  <1> USE DEF CatalogInv
  <1>1. /\ readerAt[c].phase = "reading" /\ UNCHANGED <<account, catalog, contract, cacheOpen, catalogClock>>
        /\ IF /\ e.flight = 0 /\ catalogClock >= e.retryAt
              /\ readerAt[c].why = "force" \/ state(readerAt[c].row, readerAt[c].revision, e).stale
           THEN discover(e) ELSE cached' = e /\ discovery' = orphaned(e)
    BY Zenon DEF AccountCatalog
  <1>2. readerAt[c] \in [phase : {"reading"}, why : Whys, row : Catalogs, revision : Nat, kept : BOOLEAN]
    <2>1. ReaderType(readerAt[c])
      BY DEF CatalogTypes
    <2> QED
      BY <1>1, <2>1 DEF ReaderType, Away
  <1>3. readerAt[c].row \in Catalogs /\ readerAt[c].revision \in Nat /\ readerAt[c].revision <= account.revision
    BY <1>1, <1>2 DEF RevisionsPast
  <1>4. /\ e \in Entries /\ e.on /\ e.revision = readerAt[c].revision
        /\ \/ e = cached
           \/ e.flight = 0 /\ (sourceChanged(readerAt[c].row) => e.retryAt = 0)
    BY <1>3, EntryForIs
  <1>5. CASE discover(e) /\ e.flight = 0
    BY <1>1, <1>2, <1>3, <1>4, <1>5, Discovering
  <1>6. CASE /\ cached' = e /\ discovery' = orphaned(e)
             /\ ~(/\ e.flight = 0 /\ catalogClock >= e.retryAt
                  /\ readerAt[c].why = "force" \/ state(readerAt[c].row, readerAt[c].revision, e).stale)
    <2>1. e = cached \/ ~sourceChanged(readerAt[c].row)
      <3> SUFFICES ASSUME e # cached, sourceChanged(readerAt[c].row) PROVE FALSE
        OBVIOUS
      <3>1. state(readerAt[c].row, readerAt[c].revision, e).stale
        BY DEF state
      <3>2. e.flight = 0 /\ catalogClock >= e.retryAt
        BY <1>4 DEF CatalogTypes
      <3> QED
        BY <1>6, <3>1, <3>2
    <2>2. \A d \in Discoveries : DiscoveryKept(d, discovery'[d], cached')
      BY <1>4, <1>6, OrphanedKept
    <2>3. discovery' = [d \in Discoveries |-> discovery'[d]]
      BY <1>6 DEF orphaned
    <2> QED
      BY <1>1, <1>2, <1>3, <1>4, <1>6, <2>1, <2>2, <2>3
  <1> QED
    BY <1>1, <1>5, <1>6

\* The reader has its answer or waits; readers of rows are excepted when the entry was replaced.
LEMMA AccountReaders ==
  ASSUME CatalogInv, NEW c \in Readers, AccountCatalog(c), cached' \in Entries,
         NEW e, e = entryFor(readerAt[c].row, readerAt[c].revision)
  PROVE  /\ readerAt' = [b \in Readers |-> readerAt'[b]]
         /\ ReaderType(readerAt'[c]) /\ readerAt'[c].phase \in {"waiting", "away"}
         /\ \A b \in Readers \ {c} :
              /\ ReaderType(readerAt'[b]) /\ readerAt'[b].phase = readerAt[b].phase
              /\ readerAt[b].phase \in {"reading", "rows"} =>
                   /\ readerAt'[b].row = readerAt[b].row /\ readerAt'[b].revision = readerAt[b].revision
                   /\ readerAt'[b].kept => readerAt[b].kept
                   /\ readerAt'[b].kept /\ readerAt[b].phase = "rows" /\ cached.on => e = cached
  <1> DEFINE y == waits(c, cached')
             readers == [readerAt EXCEPT ![c] = y]
             phases == IF cached.on /\ e # cached THEN {"rows"} ELSE {}
  <1>1. readerAt' = unsettled(readers, phases) /\ readerAt[c].phase = "reading"
    BY Zenon DEF AccountCatalog
  <1>2. ReaderType(readerAt[c])
    BY DEF CatalogInv, CatalogTypes
  <1>3. readerAt[c].why \in Whys
    BY <1>1, <1>2 DEF ReaderType, Away
  <1>4. ReaderType(y) /\ y.phase \in {"waiting", "away"}
    <2> DEFINE z == [phase |-> "waiting", why |-> readerAt[c].why, on |-> cached'.flight]
    <2>1. cached'.flight # 0 => ReaderType(z) /\ z.phase = "waiting"
      BY <1>3 DEF ReaderType, Entries
    <2>2. y = Away \/ (cached'.flight # 0 /\ y = z)
      BY DEF waits
    <2> HIDE DEF y, z
    <2> QED
      BY <2>1, <2>2 DEF ReaderType, Away
  <1> HIDE DEF y
  <1>5. /\ readers = [b \in Readers |-> readers[b]] /\ \A b \in Readers : ReaderType(readers[b])
        /\ readers[c] = y /\ \A b \in Readers \ {c} : readers[b] = readerAt[b]
    BY <1>4 DEF CatalogInv, CatalogTypes
  <1>6. phases \subseteq {"reading", "rows"} /\ (cached.on /\ e # cached => "rows" \in phases)
        /\ "waiting" \notin phases /\ "away" \notin phases
    OBVIOUS
  <1> HIDE DEF readers, phases
  <1>7. /\ readerAt' = [b \in Readers |-> readerAt'[b]]
        /\ \A b \in Readers :
             /\ ReaderType(readerAt'[b]) /\ readerAt'[b].phase = readers[b].phase
             /\ readers[b].phase \in {"reading", "rows"} =>
                  /\ readerAt'[b].row = readers[b].row /\ readerAt'[b].revision = readers[b].revision
                  /\ readerAt'[b].kept => readers[b].kept /\ readers[b].phase \notin phases
    BY <1>1, <1>5, <1>6, Unsettled
  <1> QED
    BY <1>4, <1>5, <1>6, <1>7

LEMMA AccountCatalogOK == ASSUME CatalogInv, NEW c \in Readers, AccountCatalog(c) PROVE CatalogInv'
  <1> DEFINE e == entryFor(readerAt[c].row, readerAt[c].revision)
  <1>1. /\ readerAt[c].phase = "reading" /\ readerAt[c].revision <= account.revision
        /\ cached' \in Entries /\ cached'.on /\ cached'.revision = readerAt[c].revision
        /\ \/ cached'.flight # 0 \/ cached'.err = "busy"
           \/ cached' = e
        /\ discovery' = [d \in Discoveries |-> discovery'[d]]
        /\ \A d \in Discoveries : DiscoveryKept(d, discovery'[d], cached')
        /\ UNCHANGED <<account, catalog, contract, cacheOpen, catalogClock>>
    BY AccountCatalogIs
  <1>2. /\ readerAt' = [b \in Readers |-> readerAt'[b]]
        /\ ReaderType(readerAt'[c]) /\ readerAt'[c].phase \in {"waiting", "away"}
        /\ \A b \in Readers \ {c} :
             /\ ReaderType(readerAt'[b]) /\ readerAt'[b].phase = readerAt[b].phase
             /\ readerAt[b].phase \in {"reading", "rows"} =>
                  /\ readerAt'[b].row = readerAt[b].row /\ readerAt'[b].revision = readerAt[b].revision
                  /\ readerAt'[b].kept => readerAt[b].kept
                  /\ readerAt'[b].kept /\ readerAt[b].phase = "rows" /\ cached.on => e = cached
    BY <1>1, AccountReaders
  <1>3. e = cached => e.revision = readerAt[c].revision
    <2>1. readerAt[c] \in [phase : {"reading"}, why : Whys, row : Catalogs, revision : Nat, kept : BOOLEAN]
      BY AccountCatalogIs
    <2>2. readerAt[c].row \in Catalogs /\ readerAt[c].revision \in Nat
      BY <2>1
    <2> QED
      BY <2>2, EntryForIs DEF CatalogInv
  <1> HIDE DEF e
  <1> USE DEF CatalogInv
  <1>4. CatalogTypes'
    BY <1>1, <1>2 DEF CatalogTypes, DiscoveryKept
  <1>5. RevisionsPast'
    BY <1>1, <1>2 DEF RevisionsPast, DiscoveryKept
  <1>6. AskedAsAuthorized' /\ DiscoveredAsAuthorized'
    BY <1>1 DEF AskedAsAuthorized, DiscoveredAsAuthorized, DiscoveryKept
  <1>7. EntryKnows'
    BY <1>1 DEF EntryKnows, DiscoveryKept
  <1>8. LockHeld' /\ ClosedQuietly'
    <2>1. cacheOpen = "open" /\ \A b \in Readers \ {c} : readerAt[b].phase # "reading"
      BY <1>1 DEF LockHeld, lockFree
    <2> QED
      BY <1>1, <1>2, <2>1 DEF LockHeld, lockFree, ClosedQuietly
  <1>9. MissedIsShown'
    <2> SUFFICES ASSUME NEW b \in Readers
                 PROVE  /\ readerAt'[b].phase \in {"reading", "rows"} /\ ~readerAt'[b].row.on => readerAt'[b].row = Unknown
                        /\ Overtaken(b)' => /\ cached'.on /\ cached'.revision = account'.revision
                                            /\ cached'.flight # 0 \/ cached'.err \in {"busy", "failed"} \/ cached'.observed > 0
      BY DEF MissedIsShown
    <2>1. readerAt'[b].phase \in {"reading", "rows"} =>
            /\ b # c /\ readerAt[b].phase = "rows" /\ readerAt'[b].row = readerAt[b].row /\ readerAt'[b].revision = readerAt[b].revision
            /\ readerAt'[b].kept => readerAt[b].kept /\ (cached.on => e = cached)
      BY <1>1, <1>2 DEF LockHeld
    <2>2. readerAt'[b].phase \in {"reading", "rows"} /\ ~readerAt'[b].row.on => readerAt'[b].row = Unknown
      BY <2>1 DEF MissedIsShown
    <2>3. ASSUME Overtaken(b)'
          PROVE  /\ cached'.on /\ cached'.revision = account'.revision
                 /\ cached'.flight # 0 \/ cached'.err \in {"busy", "failed"} \/ cached'.observed > 0
      <3>1. Overtaken(b)
        BY <1>1, <2>1, <2>3 DEF Overtaken
      <3>2. /\ cached.on /\ cached.revision = account.revision
            /\ cached.flight # 0 \/ cached.err \in {"busy", "failed"} \/ cached.observed > 0
        BY <3>1 DEF MissedIsShown
      <3>3. e = cached
        BY <2>1, <2>3, <3>2 DEF Overtaken
      <3> QED
        BY <1>1, <1>3, <3>2, <3>3
    <2> QED
      BY <2>2, <2>3
  <1> QED
    BY <1>4, <1>5, <1>6, <1>7, <1>8, <1>9

Accounts == [enabled : BOOLEAN, expired : BOOLEAN, revision : Nat, authorization : Nat]

LEMMA EditedAccount ==
  ASSUME NEW x \in BOOLEAN, NEW r \in Nat, NEW s \in Nat, account \in Accounts
  PROVE  /\ [account EXCEPT !.enabled = x, !.revision = r] \in Accounts
         /\ [account EXCEPT !.enabled = x, !.revision = r].revision = r
         /\ [account EXCEPT !.enabled = x, !.revision = r].authorization = account.authorization
         /\ [account EXCEPT !.expired = x] \in Accounts
         /\ [account EXCEPT !.expired = x].revision = account.revision
         /\ [account EXCEPT !.expired = x].authorization = account.authorization
         /\ [account EXCEPT !.expired = x, !.revision = r, !.authorization = s] \in Accounts
         /\ [account EXCEPT !.expired = x, !.revision = r, !.authorization = s].revision = r
  BY DEF Accounts

\* The account changes: what was read or asked before is of an earlier revision, or of a disabled account.
LEMMA AccountEditedOK == ASSUME CatalogInv, accountEdited PROVE CatalogInv'
  <1> USE DEF CatalogInv
  <1>1. UNCHANGED <<contract, cached, discovery, readerAt, cacheOpen, catalogClock>>
    BY DEF accountEdited
  <1> DEFINE a == [account EXCEPT !.enabled = ~account.enabled, !.revision = account.revision + 1]
             b == [account EXCEPT !.expired = TRUE]
             n == [account EXCEPT !.expired = FALSE, !.revision = account.revision + 1, !.authorization = account.authorization + 1]
  <1>2. account \in Accounts
    BY DEF CatalogTypes, Accounts
  <1>3. /\ (~account.enabled) \in BOOLEAN /\ TRUE \in BOOLEAN /\ FALSE \in BOOLEAN
        /\ account.revision + 1 \in Nat /\ account.authorization + 1 \in Nat
    BY <1>2 DEF Accounts
  <1>4. /\ a \in Accounts /\ a.revision = account.revision + 1 /\ a.authorization = account.authorization
        /\ b \in Accounts /\ b.revision = account.revision /\ b.authorization = account.authorization
        /\ n \in Accounts /\ n.revision = account.revision + 1
    <2>1. a \in Accounts /\ a.revision = account.revision + 1 /\ a.authorization = account.authorization
      BY <1>2, <1>3, EditedAccount, Zenon
    <2>2. b \in Accounts /\ b.revision = account.revision /\ b.authorization = account.authorization
      BY <1>2, <1>3, EditedAccount, Zenon
    <2>3. n \in Accounts /\ n.revision = account.revision + 1
      BY <1>2, <1>3, EditedAccount, Zenon
    <2> QED
      BY <2>1, <2>2, <2>3
  <1>13. \/ account' = a /\ catalog' = catalog
         \/ account' = b /\ catalog' = catalog
         \/ account' = n /\ catalog' = Unknown
    BY DEF accountEdited
  <1> HIDE DEF a, b, n
  <1>5. /\ account' \in Accounts
        /\ \/ account'.revision = account.revision /\ account'.authorization = account.authorization /\ catalog' = catalog
           \/ account'.revision = account.revision + 1 /\ account'.authorization = account.authorization /\ catalog' = catalog
           \/ account'.revision = account.revision + 1 /\ catalog' = Unknown
    BY <1>4, <1>13
  <1>6. CatalogTypes'
    <2>1. Unknown \in Catalogs /\ ~Unknown.on
      BY DEF Unknown, Catalogs
    <2>2. catalog' \in Catalogs /\ (~catalog'.on => catalog' = Unknown)
      BY <1>5, <2>1 DEF CatalogTypes
    <2> QED
      BY <1>1, <1>5, <2>2 DEF CatalogTypes, Accounts
  <1>7. cached.revision \in Nat /\ account.revision \in Nat /\ (\A d \in Discoveries : DiscoveryType(discovery[d]))
        /\ \A c \in Readers : readerAt[c].phase \in {"reading", "rows"} => readerAt[c].revision \in Nat
    BY DEF CatalogTypes, Entries, ReaderType, Away
  <1>8. \A d \in Discoveries : discovery[d].stage \in {"asked", "answered", "saving"} => discovery[d].revision \in Nat
    BY <1>7 DEF DiscoveryType, NoDiscovery
  <1>9. RevisionsPast'
    BY <1>1, <1>5, <1>7, <1>8 DEF RevisionsPast
  <1>10. AskedAsAuthorized' /\ DiscoveredAsAuthorized'
    BY <1>1, <1>5, <1>7, <1>8 DEF RevisionsPast, AskedAsAuthorized, DiscoveredAsAuthorized, Unknown
  <1>11. EntryKnows' /\ LockHeld' /\ ClosedQuietly'
    BY <1>1 DEF EntryKnows, LockHeld, lockFree, ClosedQuietly
  <1>12. MissedIsShown'
    BY <1>1, <1>5, <1>7 DEF RevisionsPast, MissedIsShown, Overtaken, Unknown
  <1> QED
    BY <1>6, <1>9, <1>10, <1>11, <1>12

LEMMA EvictOK == ASSUME CatalogInv, evictCatalog PROVE CatalogInv'
  <1> USE DEF CatalogInv
  <1>1. /\ UNCHANGED <<account, catalog, contract, discovery, cacheOpen, catalogClock>>
        /\ cached' = Uncached /\ readerAt' = unsettled(readerAt, {"rows"}) /\ lockFree /\ cached.flight = 0
    BY DEF evictCatalog
  <1>2. /\ readerAt' = [c \in Readers |-> readerAt'[c]]
        /\ \A c \in Readers :
             /\ ReaderType(readerAt'[c]) /\ readerAt'[c].phase = readerAt[c].phase
             /\ readerAt[c].phase \in {"reading", "rows"} =>
                  /\ readerAt'[c].row = readerAt[c].row /\ readerAt'[c].revision = readerAt[c].revision
                  /\ readerAt'[c].kept => readerAt[c].phase # "rows"
    <2>1. {"rows"} \subseteq {"reading", "rows"} /\ readerAt = [c \in Readers |-> readerAt[c]]
          /\ \A c \in Readers : ReaderType(readerAt[c])
      BY DEF CatalogTypes
    <2> QED
      BY <1>1, <2>1, Unsettled
  <1>3. Uncached \in Entries /\ account.revision \in Nat
    BY DEF CatalogTypes, Entries, Uncached
  <1>4. CatalogTypes'
    BY <1>1, <1>2, <1>3 DEF CatalogTypes
  <1>5. RevisionsPast' /\ AskedAsAuthorized' /\ DiscoveredAsAuthorized'
    BY <1>1, <1>2, <1>3 DEF RevisionsPast, AskedAsAuthorized, DiscoveredAsAuthorized, Uncached
  <1>6. EntryKnows' /\ LockHeld' /\ ClosedQuietly'
    BY <1>1, <1>2, CatalogAssumption DEF EntryKnows, LockHeld, lockFree, ClosedQuietly
  <1>7. MissedIsShown'
    BY <1>1, <1>2 DEF MissedIsShown, Overtaken, lockFree
  <1> QED
    BY <1>4, <1>5, <1>6, <1>7

LEMMA CatalogNextOK == CatalogInv /\ [CatalogNext]_catalogVars => CatalogInv'
  <1> SUFFICES ASSUME CatalogInv, [CatalogNext]_catalogVars PROVE CatalogInv'
    OBVIOUS
  <1>1. CASE contractChanges \/ closeCatalogs \/ catalogTick \/ UNCHANGED catalogVars
    <2>1. /\ UNCHANGED <<account, catalog, cached, discovery, readerAt>>
          /\ contract' \in Contracts
          /\ catalogClock' \in Nat \ {0}
          /\ \/ cacheOpen' = cacheOpen
             \/ cacheOpen' = "closing" /\ lockFree
             \/ cacheOpen' = "closed" /\ cacheOpen = "closing" /\ \A d \in Discoveries : discovery[d].stage = "off"
      BY <1>1 DEF contractChanges, closeCatalogs, catalogTick, catalogVars, Contracts, CatalogInv, CatalogTypes
    <2> QED
      BY <2>1 DEF CatalogInv, CatalogTypes, RevisionsPast, AskedAsAuthorized, DiscoveredAsAuthorized, EntryKnows, LockHeld,
         lockFree, ClosedQuietly, MissedIsShown, Overtaken
  <1> QED
    BY <1>1, ReaderOK, AccountCatalogOK, DiscoverOK, ObservedOK, SaveCatalogOK, FetchOK, AccountEditedOK, EvictOK DEF CatalogNext

\* The entry of an account knows its discovery and shows what a reader missed.
THEOREM CatalogInvariance == CatalogSpec => []CatalogInv
  BY CatalogInitOK, CatalogNextOK, PTL DEF CatalogSpec

\* What the answer to reader c would be, of the entry e, when it is not "unknown and idle" of a stored catalog.
Told(c, e) ==
  LET told == state(readerAt[c].row, readerAt[c].revision, e)
  IN  told.known \/ told.refreshing \/ told.failed \/ ~catalog.on

LEMMA ToldOf ==
  ASSUME NEW c \in Readers, NEW e,
         ~readerAt[c].row.on /\ catalog.on =>
           /\ e.on /\ e.revision = readerAt[c].revision
           /\ e.flight # 0 \/ e.err \in {"busy", "failed"} \/ readerAt[c].row.updated < e.observed
  PROVE  Told(c, e)
  BY DEF Told, state

\* The entry tells what a reader of the present revision missed.
LEMMA MissedIsTold ==
  ASSUME CatalogInv, NEW c \in Readers, readerAt[c].phase \in {"reading", "rows"},
         readerAt[c].revision = account.revision, readerAt[c].kept
  PROVE  /\ ~readerAt[c].row.on /\ catalog.on =>
              /\ cached.on /\ cached.revision = readerAt[c].revision
              /\ cached.flight # 0 \/ cached.err \in {"busy", "failed"} \/ readerAt[c].row.updated < cached.observed
         /\ Told(c, cached)
  <1>1. ASSUME ~readerAt[c].row.on, catalog.on
        PROVE  /\ cached.on /\ cached.revision = readerAt[c].revision
               /\ cached.flight # 0 \/ cached.err \in {"busy", "failed"} \/ readerAt[c].row.updated < cached.observed
    <2>1. Overtaken(c) /\ readerAt[c].row = Unknown
      BY <1>1 DEF CatalogInv, MissedIsShown, Overtaken
    <2> QED
      BY <2>1 DEF CatalogInv, MissedIsShown, Unknown
  <1>2. Told(c, cached)
    BY <1>1, ToldOf
  <1> QED
    BY <1>1, <1>2

\* An answer of AccountCatalog: a new entry is asked for at once when nothing is known.
LEMMA AccountTold ==
  ASSUME CatalogInv, NEW c \in Readers, AccountCatalog(c), readerAt[c].revision = account.revision, readerAt[c].kept
  PROVE  Told(c, cached')
  <1> DEFINE e == entryFor(readerAt[c].row, readerAt[c].revision)
  <1>1. /\ readerAt[c].phase = "reading" /\ cached'.on /\ cached'.revision = readerAt[c].revision
        /\ \/ cached'.flight # 0 \/ cached'.err = "busy"
           \/ cached' = e /\ (e = cached \/ ~sourceChanged(readerAt[c].row))
    BY AccountCatalogIs
  <1>2. contract \in Contracts /\ (~readerAt[c].row.on => readerAt[c].row = Unknown)
    BY <1>1 DEF CatalogInv, CatalogTypes, MissedIsShown
  <1>3. ~readerAt[c].row.on => sourceChanged(readerAt[c].row)
    BY <1>2 DEF sourceChanged, Unknown, Contracts
  <1> HIDE DEF e
  <1>4. ~readerAt[c].row.on /\ catalog.on =>
           cached'.flight # 0 \/ cached'.err \in {"busy", "failed"} \/ readerAt[c].row.updated < cached'.observed
    BY <1>1, <1>3, MissedIsTold
  <1> QED
    BY <1>1, <1>4, ToldOf

LEMMA AnswersAreTrue ==
  ASSUME CatalogInv, [CatalogNext]_catalogVars, NEW c \in Readers,
         readerAt[c].phase \in {"reading", "rows"}, readerAt'[c].phase # readerAt[c].phase,
         readerAt[c].revision = account.revision, readerAt[c].kept
  PROVE  Told(c, cached')
  <1>1. readerAt = [b \in Readers |-> readerAt[b]] /\ \A b \in Readers : ReaderType(readerAt[b])
    BY DEF CatalogInv, CatalogTypes
  <1>2. CASE UNCHANGED readerAt
    BY <1>2
  <1>3. ASSUME NEW b \in Readers, \E why \in {"read", "force", "join", "pool"} : beginRead(b, why) \/ lockAndRead(b)
        PROVE  FALSE
    <2>1. readerAt[b].phase \in {"away", "checked"} /\ \E x : readerAt' = [readerAt EXCEPT ![b] = x]
      BY <1>3 DEF beginRead, lockAndRead
    <2> QED
      BY <1>1, <2>1
  <1>4. ASSUME NEW b \in Readers, AccountCatalog(b) PROVE Told(c, cached')
    <2>1. cached' \in Entries
      BY <1>4, AccountCatalogIs
    <2>2. b = c
      BY <1>4, <2>1, AccountReaders
    <2> QED
      BY <1>4, <2>2, AccountTold
  <1>5. ASSUME NEW b \in Readers, rereadCatalog(b) \/ groupCatalog(b) PROVE Told(c, cached')
    BY <1>5, MissedIsTold DEF rereadCatalog, groupCatalog
  <1>6. ASSUME NEW d \in Discoveries, SaveCatalogSnapshot(d) \/ fetchCatalog(d) PROVE FALSE
    <2>1. ASSUME SaveCatalogSnapshot(d) PROVE FALSE
      <3> DEFINE phases == IF SaveAccountCatalog(discovery[d].revision, discovery[d].observed) /\ discovery[d].orphan
                           THEN {"reading", "rows"} ELSE {}
      <3>1. readerAt' = unsettled(readerAt, phases)
        BY <2>1, Zenon DEF SaveCatalogSnapshot
      <3>2. phases \subseteq {"reading", "rows"}
        OBVIOUS
      <3> HIDE DEF phases
      <3> QED
        BY <1>1, <3>1, <3>2, Unsettled
    <2>2. ASSUME fetchCatalog(d) PROVE FALSE
      BY <2>2 DEF fetchCatalog
    <2> QED
      BY <1>6, <2>1, <2>2
  <1>7. CASE evictCatalog
    <2>1. readerAt' = unsettled(readerAt, {"rows"}) /\ {"rows"} \subseteq {"reading", "rows"}
      BY <1>7 DEF evictCatalog
    <2> QED
      BY <1>1, <2>1, Unsettled
  <1>8. CASE \/ \E d \in Discoveries : (\E ok \in BOOLEAN : Discover(d, ok)) \/ observed(d)
             \/ accountEdited \/ contractChanges \/ closeCatalogs \/ catalogTick \/ UNCHANGED catalogVars
    <2>1. UNCHANGED readerAt
      BY <1>8 DEF Discover, observed, accountEdited, contractChanges, closeCatalogs, catalogTick, catalogVars
    <2> QED
      BY <1>2, <2>1
  <1> QED
    BY <1>3, <1>4, <1>5, <1>6, <1>7, <1>8 DEF CatalogNext

UnknownIsTrueStep ==
  \A c \in Readers :
    (/\ readerAt[c].phase \in {"reading", "rows"} /\ readerAt'[c].phase # readerAt[c].phase
     /\ readerAt[c].revision = account.revision /\ readerAt[c].kept)
    => LET told == state(readerAt[c].row, readerAt[c].revision, cached')
       IN  told.known \/ told.refreshing \/ told.failed \/ ~catalog.on

\* The stored catalog is of the present authorization, nobody is told that the models are unknown and that nobody
\* asks for them while they are stored, and nothing runs after Close (catalog.go, catalog.sql.go 80-85), for any readers
\* and discoveries, times to live and cooldowns.
THEOREM CatalogIsTrue == CatalogSpec => CatalogTrue
  <1>1. CatalogInv => DiscoveredAsAuthorized /\ ClosedQuietly
    BY DEF CatalogInv
  <1>2. CatalogInv /\ [CatalogNext]_catalogVars => [UnknownIsTrueStep]_catalogVars
    <2> SUFFICES ASSUME CatalogInv, [CatalogNext]_catalogVars PROVE UnknownIsTrueStep
      OBVIOUS
    <2>1. \A c \in Readers :
            (/\ readerAt[c].phase \in {"reading", "rows"} /\ readerAt'[c].phase # readerAt[c].phase
             /\ readerAt[c].revision = account.revision /\ readerAt[c].kept)
            => Told(c, cached')
      BY AnswersAreTrue
    <2> QED
      BY <2>1, Zenon DEF UnknownIsTrueStep, Told
  <1> QED
    BY <1>1, <1>2, CatalogInvariance, PTL DEF CatalogSpec, CatalogTrue, UnknownIsTrue, UnknownIsTrueStep

-----------------------------------------------------------------------------
(* UsageCache.                                                                *)

Readings ==
  {NoReading} \cup {x \in [on : BOOLEAN, started : Nat, updated : Nat, reset : Nat, used : Nat] : x.on}
UsageRows == [revision : Nat, reading : Readings]
UsageEntries ==
  {x \in [on : BOOLEAN, revision : Nat, reading : Readings, failed : BOOLEAN, flight : 0..UsageSlots, retryAt : Nat] : x.on}
UsagePolls ==
  {x \in [on : BOOLEAN, revision : Nat, started : Nat, answered : BOOLEAN, reset : Nat, used : Nat,
          orphan : BOOLEAN, seen : Readings] : x.on}
UsageRequests == {x \in [on : BOOLEAN, revision : Nat, started : Nat, quota : Readings] : x.on}

AccountTypes ==
  /\ usable \in BOOLEAN /\ usageRevision \in Nat /\ consumed \in Nat /\ usageClock \in Nat /\ since \in Nat
  /\ since <= usageClock /\ crossed \in BOOLEAN
  /\ redemption \in [phase : {"off", "called", "spent"}, slot : 0..UsageSlots]

WarmType ==
  \/ warm = [phase |-> "off"] \/ warm = [phase |-> "ask"]
  \/ warm \in [phase : {"read"}, row : UsageRows] /\ warm.row.revision <= usageRevision

UsageTypes ==
  /\ usageRow \in UsageRows /\ usageRow.revision <= usageRevision
  /\ entry \in {NoEntry} \cup UsageEntries /\ (entry.on => entry.revision <= usageRevision)
  /\ polls \in [Slots -> {NoPoll} \cup UsagePolls]
  /\ \A p \in Slots : polls[p].on => polls[p].revision <= usageRevision
  /\ requests \in [Requests -> {NoRequest} \cup UsageRequests]
  /\ \A r \in Requests : requests[r].on => requests[r].revision <= usageRevision
  /\ WarmType

\* What was read under the present revision was asked for under it, and is true of the window that is open.
Sound(revision, started, reset, used) ==
  revision = usageRevision =>
    /\ since <= started /\ reset <= windowEnd
    /\ reset > second /\ redemption.phase # "spent" => used <= consumed

Sourced(revision, x) == x.on => Sound(revision, x.started, x.reset, x.used)

PollSound(q) == q.on => Sound(q.revision, q.started, q.reset, q.used)
RequestSound(q) == q.on => Sourced(q.revision, q.quota) /\ Sound(q.revision, q.started, 0, 0)

Sources ==
  /\ Sourced(usageRow.revision, usageRow.reading)
  /\ entry.on => Sourced(entry.revision, entry.reading)
  /\ warm.phase = "read" => Sourced(warm.row.revision, warm.row.reading)
  /\ \A p \in Slots : PollSound(polls[p])
  /\ \A r \in Requests : RequestSound(requests[r])

\* The entry knows its poll; the poll of an entry that was replaced is of an earlier revision.
FlightsKnown ==
  /\ entry.on /\ entry.flight # 0
       => polls[entry.flight].on /\ ~polls[entry.flight].orphan /\ polls[entry.flight].revision = entry.revision
  /\ \A p \in Slots : polls[p].on /\ ~polls[p].orphan => entry.on /\ entry.flight = p
  /\ \A p \in Slots : polls[p].on => redemption.slot # p

OrphansOld == ~crossed => \A p \in Slots : polls[p].on /\ polls[p].orphan => polls[p].revision < usageRevision

UsageInv == AccountTypes /\ UsageTypes /\ Sources /\ FlightsKnown /\ OrphansOld /\ MemoryAsStored

LEMMA UsageGiven == {UsageSlots, UsageTTL, Cooldown, Backoff, Full} \subseteq Nat /\ WindowSeconds \in Nat \ {0}
  BY UsageAssumption DEF UsageAssumption

LEMMA SlotsAre == \A p \in Slots : p \in 0..UsageSlots /\ p # 0
  BY UsageGiven DEF Slots

\* The windows of the quota follow one another.
LEMMA DivGrows ==
  ASSUME NEW m \in Nat, NEW n \in Nat, m <= n, NEW d \in Nat \ {0}
  PROVE  m \div d \in Nat /\ n \div d \in Nat /\ m \div d <= n \div d
  OBVIOUS

LEMMA WindowGrows ==
  ASSUME NEW m \in Nat, NEW n \in Nat, m <= n, NEW w \in Nat \ {0}
  PROVE  (m \div w + 1) * w <= (n \div w + 1) * w /\ (m \div w + 1) * w \in Nat
  <1> DEFINE a == m \div w
             b == n \div w
  <1>1. a \in Nat /\ b \in Nat /\ a <= b
    BY DivGrows
  <1> HIDE DEF a, b
  <1>2. (a + 1) * w <= (b + 1) * w /\ (a + 1) * w \in Nat
    BY <1>1
  <1> QED
    BY <1>2 DEF a, b

LEMMA TimeGrows ==
  ASSUME usageClock \in Nat, usageClock' \in Nat, usageClock <= usageClock'
  PROVE  second \in Nat /\ second' \in Nat /\ windowEnd \in Nat /\ second <= second' /\ windowEnd <= windowEnd'
  <1>1. 2 \in Nat \ {0}
    OBVIOUS
  <1>2. second \in Nat /\ second' \in Nat /\ second <= second'
    BY <1>1, DivGrows DEF second
  <1> QED
    BY <1>2, WindowGrows, UsageGiven DEF windowEnd

LEMMA TimeIs == usageClock \in Nat => second \in Nat /\ windowEnd \in Nat
  <1> SUFFICES ASSUME usageClock \in Nat PROVE second \in Nat /\ windowEnd \in Nat
    OBVIOUS
  <1>1. 2 \in Nat \ {0} /\ usageClock <= usageClock
    OBVIOUS
  <1>2. second \in Nat /\ second <= second
    BY <1>1, DivGrows DEF second
  <1> QED
    BY <1>2, WindowGrows, UsageGiven DEF windowEnd

LEMMA StoredReading ==
  ASSUME UsageInv
  PROVE  /\ GetAccountUsage \in UsageRows /\ GetAccountUsage.revision = usageRevision
         /\ Sourced(usageRevision, GetAccountUsage.reading) /\ visible = GetAccountUsage.reading
         /\ visible.on => usageRow.revision = usageRevision /\ visible = usageRow.reading
         /\ usageRow.revision = usageRevision => visible = usageRow.reading
  <1>1. usageRow \in UsageRows /\ usageRevision \in Nat /\ Sourced(usageRow.revision, usageRow.reading)
    BY DEF UsageInv, UsageTypes, AccountTypes, Sources
  <1>2. NoReading \in Readings /\ NoReading.on = FALSE
    BY DEF Readings, NoReading
  <1>3. GetAccountUsage.reading = IF usageRow.revision = usageRevision THEN usageRow.reading ELSE NoReading
    BY DEF GetAccountUsage
  <1>4. GetAccountUsage.revision = usageRevision
    BY DEF GetAccountUsage
  <1>5. GetAccountUsage \in UsageRows
    BY <1>1, <1>2 DEF GetAccountUsage, UsageRows
  <1> QED
    BY <1>1, <1>2, <1>3, <1>4, <1>5 DEF Sourced, visible

\* What the fields of a changed entry are.
LEMMA ChangedEntry ==
  ASSUME NEW e \in UsageEntries, NEW x \in Readings, NEW f \in BOOLEAN, NEW p \in 0..UsageSlots, NEW t \in Nat
  PROVE  /\ LET d == [e EXCEPT !.flight = p] IN
              d \in UsageEntries /\ d.revision = e.revision /\ d.reading = e.reading /\ d.flight = p
         /\ LET d == [e EXCEPT !.retryAt = t] IN
              d \in UsageEntries /\ d.revision = e.revision /\ d.reading = e.reading /\ d.flight = e.flight
         /\ LET d == [e EXCEPT !.flight = p, !.retryAt = t] IN
              d \in UsageEntries /\ d.revision = e.revision /\ d.reading = e.reading /\ d.flight = p
         /\ LET d == [e EXCEPT !.failed = f, !.retryAt = t] IN
              d \in UsageEntries /\ d.revision = e.revision /\ d.reading = e.reading /\ d.flight = e.flight
         /\ LET d == [e EXCEPT !.reading = x, !.failed = f] IN
              d \in UsageEntries /\ d.revision = e.revision /\ d.reading = x /\ d.flight = e.flight
         /\ LET d == [e EXCEPT !.reading = x, !.failed = f, !.retryAt = t] IN
              d \in UsageEntries /\ d.revision = e.revision /\ d.reading = x /\ d.flight = e.flight
  <1>1. [e EXCEPT !.flight = p] \in UsageEntries /\ [e EXCEPT !.retryAt = t] \in UsageEntries
    BY DEF UsageEntries
  <1>2. [e EXCEPT !.flight = p, !.retryAt = t] \in UsageEntries /\ [e EXCEPT !.failed = f, !.retryAt = t] \in UsageEntries
    BY DEF UsageEntries
  <1>3. [e EXCEPT !.reading = x, !.failed = f] \in UsageEntries /\ [e EXCEPT !.reading = x, !.failed = f, !.retryAt = t] \in UsageEntries
    BY DEF UsageEntries
  <1> QED
    BY <1>1, <1>2, <1>3 DEF UsageEntries

\* The entry after load is the one there was, or a new one with what the row says.
LEMMA UsageLoadOK ==
  ASSUME UsageInv, NEW row \in UsageRows, row.revision <= usageRevision, Sourced(row.revision, row.reading)
  PROVE  LET e == load(row) IN
         /\ e \in UsageEntries /\ e.on /\ e.revision = row.revision /\ Sourced(e.revision, e.reading)
         /\ \/ e = entry /\ entry.on
            \/ e.flight = 0 /\ e.reading = row.reading /\ (entry.on => entry.revision # row.revision)
         /\ e.reading = row.reading \/ e = entry
  <1>1. CASE entry.on /\ entry.revision = row.revision
    <2>1. load(row) = entry
      BY <1>1 DEF load
    <2>2. entry \in UsageEntries
      BY <1>1 DEF UsageInv, UsageTypes, NoEntry
    <2> QED
      BY <1>1, <2>1, <2>2 DEF UsageInv, Sources
  <1>2. CASE ~(entry.on /\ entry.revision = row.revision)
    <2> DEFINE at == IF row.reading.on THEN 2 * row.reading.updated + Cooldown ELSE 0
               e == [on |-> TRUE, revision |-> row.revision, reading |-> row.reading, failed |-> FALSE, flight |-> 0,
                     retryAt |-> at]
    <2>1. load(row) = e
      BY <1>2 DEF load
    <2>2. row.reading \in Readings /\ row.revision \in Nat
      BY DEF UsageRows
    <2>3. at \in Nat
      BY <2>2, UsageGiven DEF Readings, NoReading
    <2> HIDE DEF at
    <2>4. e \in UsageEntries
      BY <2>2, <2>3, UsageGiven DEF UsageEntries
    <2>5. e.on /\ e.revision = row.revision /\ e.reading = row.reading /\ e.flight = 0
      OBVIOUS
    <2> HIDE DEF e
    <2> QED
      BY <1>2, <2>1, <2>4, <2>5
  <1> QED
    BY <1>1, <1>2

\* A poll outlives its entry, and knows what that entry held.
KeptFor(k, revision) ==
  /\ k \in [Slots -> {NoPoll} \cup UsagePolls]
  /\ \A p \in Slots :
       /\ k[p].on = polls[p].on
       /\ ~polls[p].on => k[p] = polls[p]
       /\ polls[p].on =>
            /\ k[p].revision = polls[p].revision /\ k[p].started = polls[p].started
            /\ k[p].reset = polls[p].reset /\ k[p].used = polls[p].used
            /\ k[p].orphan <=> polls[p].orphan \/ entry.revision # revision
       /\ PollSound(k[p])

LEMMA KeptByOK ==
  ASSUME UsageInv, NEW row
  PROVE  KeptFor(keptBy(row), row.revision)
  <1> DEFINE k == keptBy(row)
  <1>1. ASSUME NEW p \in Slots
        PROVE  /\ k[p] \in {NoPoll} \cup UsagePolls
               /\ k[p].on = polls[p].on
               /\ ~polls[p].on => k[p] = polls[p]
               /\ polls[p].on =>
                    /\ k[p].revision = polls[p].revision /\ k[p].started = polls[p].started
                    /\ k[p].reset = polls[p].reset /\ k[p].used = polls[p].used
                    /\ k[p].orphan <=> polls[p].orphan \/ entry.revision # row.revision
    <2> DEFINE q == polls[p]
               x == entry.reading
               o == [q EXCEPT !.orphan = TRUE, !.seen = x]
    <2>1. q \in {NoPoll} \cup UsagePolls
      BY DEF UsageInv, UsageTypes
    <2>2. CASE q.on /\ ~q.orphan /\ entry.revision # row.revision
      <3>1. k[p] = o
        BY <2>2 DEF keptBy
      <3>2. q \in UsagePolls
        BY <2>1, <2>2 DEF NoPoll
      <3>3. entry \in UsageEntries
        BY <2>2 DEF UsageInv, UsageTypes, FlightsKnown, NoEntry
      <3>4. x \in Readings
        BY <3>3 DEF UsageEntries
      <3> HIDE DEF q, x
      <3>5. /\ o \in UsagePolls /\ o.on = q.on /\ o.revision = q.revision /\ o.started = q.started
            /\ o.reset = q.reset /\ o.used = q.used /\ o.orphan = TRUE
        BY <3>2, <3>4 DEF UsagePolls
      <3> QED
        BY <2>2, <3>1, <3>5 DEF q
    <2>3. CASE ~(q.on /\ ~q.orphan /\ entry.revision # row.revision)
      <3>1. k[p] = q
        BY <2>3 DEF keptBy
      <3>2. q.on => q.orphan \in BOOLEAN
        BY <2>1 DEF NoPoll, UsagePolls
      <3> QED
        BY <2>1, <2>3, <3>1, <3>2
    <2> QED
      BY <2>2, <2>3
  <1>2. k = [p \in Slots |-> k[p]]
    BY DEF keptBy
  <1>3. \A p \in Slots : PollSound(polls[p])
    BY DEF UsageInv, Sources
  <1> HIDE DEF k
  <1>4. \A p \in Slots : PollSound(k[p])
    BY <1>1, <1>3 DEF PollSound
  <1> QED
    BY <1>1, <1>2, <1>4 DEF k, KeptFor

\* A step that changes no reading: of the account, of the provider or of the clock.
LEMMA AccountStep ==
  ASSUME UsageInv, AccountTypes', UNCHANGED <<usageRow, entry, polls, requests, warm, crossed>>,
         usageRevision <= usageRevision',
         usageRevision' = usageRevision =>
           \A revision \in Nat, started \in Nat, reset \in Nat, used \in Nat :
             Sound(revision, started, reset, used) => Sound(revision, started, reset, used)',
         \A p \in Slots : polls[p].on => redemption'.slot # p
  PROVE  UsageInv'
  <1> USE DEF UsageInv
  <1>1. UsageTypes'
    <2>1. \A p \in Slots : polls[p].on => polls[p].revision \in Nat
      BY DEF UsageTypes, UsagePolls, NoPoll
    <2>2. \A r \in Requests : requests[r].on => requests[r].revision \in Nat
      BY DEF UsageTypes, UsageRequests, NoRequest
    <2>3. entry.on => entry.revision \in Nat
      BY DEF UsageTypes, UsageEntries, NoEntry
    <2>4. usageRow.revision \in Nat /\ usageRevision \in Nat /\ usageRevision' \in Nat
      BY DEF UsageTypes, UsageRows, AccountTypes
    <2>5. WarmType'
      <3>1. warm \in [phase : {"read"}, row : UsageRows] => warm.row.revision \in Nat
        BY DEF UsageRows
      <3> QED
        BY <2>4, <3>1 DEF UsageTypes, WarmType
    <2> QED
      BY <2>1, <2>2, <2>3, <2>4, <2>5 DEF UsageTypes
  <1>2. ASSUME NEW revision \in Nat, revision <= usageRevision, NEW started \in Nat, NEW reset \in Nat, NEW used \in Nat,
               Sound(revision, started, reset, used)
        PROVE  Sound(revision, started, reset, used)'
    <2>1. CASE usageRevision' = usageRevision
      BY <1>2, <2>1
    <2>2. CASE usageRevision' # usageRevision
      <3>1. revision # usageRevision'
        BY <1>2, <2>2 DEF AccountTypes
      <3> QED
        BY <3>1 DEF Sound
    <2> QED
      BY <2>1, <2>2
  <1>3. ASSUME NEW revision \in Nat, revision <= usageRevision, NEW x \in Readings, Sourced(revision, x)
        PROVE  Sourced(revision, x)'
    <2>1. x.on => x.started \in Nat /\ x.reset \in Nat /\ x.used \in Nat
      BY DEF Readings, NoReading
    <2> QED
      BY <1>2, <1>3, <2>1 DEF Sourced
  <1>4. Sources'
    <2>1. usageRow.revision \in Nat /\ usageRow.revision <= usageRevision /\ usageRow.reading \in Readings
      BY DEF UsageTypes, UsageRows
    <2>2. Sourced(usageRow.revision, usageRow.reading)'
      <3>1. Sourced(usageRow.revision, usageRow.reading)
        BY DEF Sources
      <3> QED
        BY <1>3, <2>1, <3>1 DEF Sourced
    <2>3. ASSUME entry.on PROVE Sourced(entry.revision, entry.reading)'
      <3>1. entry.revision \in Nat /\ entry.revision <= usageRevision /\ entry.reading \in Readings
        BY <2>3 DEF UsageTypes, UsageEntries, NoEntry
      <3>2. Sourced(entry.revision, entry.reading)
        BY <2>3 DEF Sources
      <3> QED
        BY <1>3, <3>1, <3>2 DEF Sourced
    <2>4. ASSUME warm.phase = "read" PROVE Sourced(warm.row.revision, warm.row.reading)'
      <3>0. "off" # "read" /\ "ask" # "read"
        OBVIOUS
      <3>1. warm.row.revision \in Nat /\ warm.row.revision <= usageRevision /\ warm.row.reading \in Readings
        BY <2>4, <3>0 DEF UsageTypes, WarmType, UsageRows
      <3>2. Sourced(warm.row.revision, warm.row.reading)
        BY <2>4 DEF Sources
      <3> QED
        BY <1>3, <3>1, <3>2 DEF Sourced
    <2>5. ASSUME NEW p \in Slots PROVE PollSound(polls[p])'
      <3>1. polls[p].on => /\ polls[p].revision \in Nat /\ polls[p].revision <= usageRevision
                           /\ polls[p].started \in Nat /\ polls[p].reset \in Nat /\ polls[p].used \in Nat
        BY DEF UsageTypes, UsagePolls, NoPoll
      <3>2. PollSound(polls[p])
        BY DEF Sources
      <3> QED
        BY <1>2, <3>1, <3>2 DEF PollSound
    <2>6. ASSUME NEW r \in Requests PROVE RequestSound(requests[r])'
      <3>1. requests[r].on => /\ requests[r].revision \in Nat /\ requests[r].revision <= usageRevision
                              /\ requests[r].started \in Nat /\ requests[r].quota \in Readings
        BY DEF UsageTypes, UsageRequests, NoRequest
      <3>2. RequestSound(requests[r])
        BY DEF Sources
      <3>3. CASE ~requests[r].on
        BY <3>3 DEF RequestSound
      <3>4. CASE requests[r].on
        <4>1. Sourced(requests[r].revision, requests[r].quota)'
          BY <1>3, <3>1, <3>2, <3>4 DEF RequestSound, Sourced
        <4>2. Sound(requests[r].revision, requests[r].started, 0, 0)'
          BY <1>2, <3>1, <3>2, <3>4 DEF RequestSound
        <4> QED
          BY <4>1, <4>2 DEF RequestSound
      <3> QED
        BY <3>3, <3>4
    <2> QED
      BY <2>2, <2>3, <2>4, <2>5, <2>6 DEF Sources
  <1>5. FlightsKnown'
    BY DEF FlightsKnown
  <1>6. OrphansOld'
    <2>1. \A p \in Slots : polls[p].on => polls[p].revision \in Nat
      BY DEF UsageTypes, UsagePolls, NoPoll
    <2> QED
      BY <2>1 DEF OrphansOld, AccountTypes
  <1>7. MemoryAsStored'
    <2>1. CASE usageRevision' = usageRevision
      BY <2>1 DEF MemoryAsStored, visible, GetAccountUsage
    <2>2. CASE usageRevision' # usageRevision
      <3>1. entry.on => entry.revision # usageRevision'
        BY <2>2 DEF UsageTypes, UsageEntries, NoEntry, AccountTypes
      <3> QED
        BY <3>1 DEF MemoryAsStored
    <2> QED
      BY <2>1, <2>2
  <1> QED
    BY <1>1, <1>4, <1>5, <1>6, <1>7

\* The clock, the use of the quota, the account and the provider.
LEMMA AroundOK ==
  ASSUME UsageInv,
         \/ \E on \in BOOLEAN : accountChanges(on)
         \/ reauthRequired \/ beginRedeem \/ ConsumeResetCredit \/ RedeemResetCredit \/ use \/ usageTick
  PROVE  UsageInv'
  <1> USE DEF UsageInv
  <1>0. /\ AccountTypes /\ "off" # "spent" /\ "called" # "spent" /\ \A p \in Slots : p \in 0..UsageSlots /\ p # 0
    BY SlotsAre
  <1>01. redemption.phase \in {"off", "called", "spent"} /\ redemption.slot \in 0..UsageSlots
    BY DEF AccountTypes
  <1>02. \A p \in Slots : polls[p].on => redemption.slot # p
    BY DEF FlightsKnown
  <1>1. ASSUME NEW on \in BOOLEAN, accountChanges(on)
        PROVE  UsageInv'
    <2>1. usageRevision' = usageRevision + 1 /\ since' = usageClock /\ usable' = on
          /\ UNCHANGED <<usageRow, entry, polls, redemption, requests, warm, consumed, usageClock, crossed>>
      BY <1>1 DEF accountChanges, newRevision
    <2>2. AccountTypes' /\ usageRevision' # usageRevision /\ usageRevision <= usageRevision'
      BY <2>1 DEF AccountTypes
    <2> QED
      BY <1>02, <2>1, <2>2, AccountStep
  <1>2. CASE reauthRequired
    <2>1. UNCHANGED <<usageRevision, usageRow, entry, polls, redemption, requests, warm, consumed, usageClock, since, crossed>>
      BY <1>2 DEF reauthRequired
    <2>1a. usable' \in BOOLEAN
      BY <1>2 DEF reauthRequired
    <2>2. AccountTypes' /\ usageRevision <= usageRevision'
      BY <2>1, <2>1a DEF AccountTypes
    <2>3. \A revision \in Nat, started \in Nat, reset \in Nat, used \in Nat :
             Sound(revision, started, reset, used) => Sound(revision, started, reset, used)'
      BY <2>1 DEF Sound, windowEnd, second
    <2> QED
      BY <1>02, <2>1, <2>2, <2>3, AccountStep
  <1>3. CASE beginRedeem
    <2>1. PICK p \in Slots : /\ acquireUsage(p)
                             /\ redemption' = [phase |-> IF redemption.phase = "spent" THEN "spent" ELSE "called", slot |-> p]
      BY <1>3 DEF beginRedeem
    <2>2. UNCHANGED <<usable, usageRevision, usageRow, entry, polls, requests, warm, consumed, usageClock, since, crossed>>
      BY <1>3 DEF beginRedeem
    <2>3. redemption'.slot = p /\ (redemption'.phase # "spent" => redemption.phase # "spent")
          /\ redemption'.phase \in {"off", "called", "spent"}
      BY <1>0, <2>1
    <2>3a. redemption' \in [phase : {"off", "called", "spent"}, slot : 0..UsageSlots]
      BY <1>0, <2>1
    <2>4. AccountTypes' /\ usageRevision <= usageRevision'
      BY <2>2, <2>3a DEF AccountTypes
    <2>5. \A revision \in Nat, started \in Nat, reset \in Nat, used \in Nat :
             Sound(revision, started, reset, used) => Sound(revision, started, reset, used)'
      BY <2>2, <2>3 DEF Sound, windowEnd, second
    <2>6. \A q \in Slots : polls[q].on => redemption'.slot # q
      BY <2>1, <2>3 DEF acquireUsage
    <2> QED
      BY <2>2, <2>4, <2>5, <2>6, AccountStep
  <1>4. CASE ConsumeResetCredit
    <2>1. /\ redemption' = [redemption EXCEPT !.phase = "spent"] /\ consumed' = 0
          /\ UNCHANGED <<usable, usageRevision, usageRow, entry, polls, requests, warm, usageClock, since, crossed>>
      BY <1>4 DEF ConsumeResetCredit
    <2>2. redemption' \in [phase : {"off", "called", "spent"}, slot : 0..UsageSlots] /\ redemption'.phase = "spent"
          /\ redemption'.slot = redemption.slot
      BY <2>1 DEF AccountTypes
    <2>3. AccountTypes' /\ usageRevision <= usageRevision'
      BY <2>1, <2>2 DEF AccountTypes
    <2>4. \A revision \in Nat, started \in Nat, reset \in Nat, used \in Nat :
             Sound(revision, started, reset, used) => Sound(revision, started, reset, used)'
      BY <2>1, <2>2 DEF Sound, windowEnd, second
    <2> QED
      BY <1>02, <2>1, <2>2, <2>3, <2>4, AccountStep
  <1>5. CASE RedeemResetCredit
    <2>1. usageRevision' = usageRevision + 1 /\ since' = usageClock /\ redemption' = [phase |-> "off", slot |-> 0]
          /\ UNCHANGED <<usable, usageRow, entry, polls, requests, warm, consumed, usageClock, crossed>>
      BY <1>5 DEF RedeemResetCredit, newRevision
    <2>2. redemption' \in [phase : {"off", "called", "spent"}, slot : 0..UsageSlots] /\ redemption'.slot = 0
      BY <2>1, UsageGiven
    <2>3. AccountTypes' /\ usageRevision' # usageRevision /\ usageRevision <= usageRevision'
      BY <2>1, <2>2 DEF AccountTypes
    <2>4. \A q \in Slots : polls[q].on => redemption'.slot # q
      BY <1>0, <2>2
    <2> QED
      BY <2>1, <2>3, <2>4, AccountStep
  <1>6. CASE use
    <2>1. /\ consumed' = consumed + 1
          /\ UNCHANGED <<usable, usageRevision, usageRow, entry, polls, redemption, requests, warm, usageClock, since, crossed>>
      BY <1>6 DEF use
    <2>2. AccountTypes' /\ usageRevision <= usageRevision' /\ consumed \in Nat
      BY <2>1 DEF AccountTypes
    <2>3. second' = second /\ windowEnd' = windowEnd
      BY <2>1 DEF windowEnd, second
    <2>4. \A revision \in Nat, started \in Nat, reset \in Nat, used \in Nat :
             Sound(revision, started, reset, used) => Sound(revision, started, reset, used)'
      BY <2>1, <2>2, <2>3 DEF Sound
    <2> QED
      BY <1>02, <2>1, <2>2, <2>4, AccountStep
  <1>7. CASE usageTick
    <2>1. /\ usageClock' = usageClock + 1 /\ consumed' = IF second' >= windowEnd THEN 0 ELSE consumed
          /\ UNCHANGED <<usable, usageRevision, usageRow, entry, polls, redemption, requests, warm, since, crossed>>
      BY <1>7 DEF usageTick, second
    <2>2. AccountTypes' /\ usageRevision <= usageRevision' /\ usageClock \in Nat /\ usageClock' \in Nat
          /\ usageClock <= usageClock' /\ since \in Nat
      BY <2>1 DEF AccountTypes
    <2>3. second \in Nat /\ second' \in Nat /\ windowEnd \in Nat /\ windowEnd' \in Nat /\ second <= second' /\ windowEnd <= windowEnd'
      <3>1. usageClock' <= usageClock'
        BY <2>2
      <3>2. windowEnd' \in Nat
        <4>1. second' \in Nat
          BY <2>2, TimeGrows
        <4>2. second' <= second'
          BY <4>1
        <4> QED
          BY <4>1, <4>2, WindowGrows, UsageGiven DEF windowEnd
      <3> QED
        BY <2>2, <3>2, TimeGrows
    <2>4. ASSUME NEW revision \in Nat, NEW started \in Nat, NEW reset \in Nat, NEW used \in Nat,
                 Sound(revision, started, reset, used)
          PROVE  Sound(revision, started, reset, used)'
      <3>1. CASE revision # usageRevision
        BY <2>1, <3>1 DEF Sound
      <3>2. CASE revision = usageRevision
        <4>1. since <= started /\ reset <= windowEnd /\ (reset > second /\ redemption.phase # "spent" => used <= consumed)
          BY <2>4, <3>2 DEF Sound
        <4>2. reset <= windowEnd'
          BY <2>3, <4>1
        <4>3. reset > second' => reset > second /\ consumed' = consumed
          BY <2>1, <2>3, <4>1
        <4> QED
          BY <2>1, <4>1, <4>2, <4>3 DEF Sound
      <3> QED
        BY <3>1, <3>2
    <2> QED
      BY <1>02, <2>1, <2>2, <2>4, AccountStep
  <1> QED
    BY <1>1, <1>2, <1>3, <1>4, <1>5, <1>6, <1>7

-----------------------------------------------------------------------------
(* UsageCache: its steps.                                                     *)

accountVars == <<usable, usageRevision, redemption, consumed, usageClock, since>>

LEMMA SoundStands ==
  ASSUME UNCHANGED accountVars
  PROVE  \A revision, started, reset, used : Sound(revision, started, reset, used)' <=> Sound(revision, started, reset, used)
  BY DEF accountVars, Sound, windowEnd, second

RequestsFine ==
  /\ requests \in [Requests -> {NoRequest} \cup UsageRequests]
  /\ \A r \in Requests : requests[r].on => requests[r].revision <= usageRevision
  /\ \A r \in Requests : RequestSound(requests[r])

RowFine == usageRow \in UsageRows /\ usageRow.revision <= usageRevision /\ Sourced(usageRow.revision, usageRow.reading)

WarmFine == WarmType /\ (warm.phase = "read" => Sourced(warm.row.revision, warm.row.reading))

LEMMA FineNow == UsageInv => RequestsFine /\ RowFine /\ WarmFine
  BY DEF UsageInv, UsageTypes, Sources, RequestsFine, RowFine, WarmFine

\* What a step leaves alone while the account stands.
LEMMA FineStill ==
  ASSUME UsageInv, UNCHANGED accountVars
  PROVE  /\ crossed' \in BOOLEAN => AccountTypes'
         /\ UNCHANGED requests => RequestsFine'
         /\ UNCHANGED usageRow => RowFine' /\ visible' = visible
         /\ UNCHANGED warm => WarmFine'
         /\ warm' = [phase |-> "off"] => WarmFine'
         /\ warm' = [phase |-> "ask"] => WarmFine'
  <1>1. crossed' \in BOOLEAN => AccountTypes'
    BY DEF UsageInv, AccountTypes, accountVars
  <1>2. UNCHANGED usageRow => RowFine' /\ visible' = visible
    BY FineNow, SoundStands DEF RowFine, Sourced, visible, GetAccountUsage, accountVars
  <1>3. UNCHANGED requests => RequestsFine'
    BY FineNow, SoundStands DEF RequestsFine, RequestSound, Sourced, accountVars
  <1>4. UNCHANGED warm => WarmFine'
    BY FineNow, SoundStands DEF WarmFine, WarmType, Sourced, accountVars
  <1>5. "off" # "read" /\ "ask" # "read"
    OBVIOUS
  <1>6. (warm' = [phase |-> "off"] => WarmFine') /\ (warm' = [phase |-> "ask"] => WarmFine')
    BY <1>5 DEF WarmFine, WarmType
  <1> QED
    BY <1>1, <1>2, <1>3, <1>4, <1>6

\* The entry is loaded for a row and then perhaps written; its polls are kept by the row, and none begins.
LEMMA EntryStep ==
  ASSUME UsageInv, UNCHANGED accountVars, crossed' \in BOOLEAN, crossed => crossed', RequestsFine', RowFine', WarmFine',
         NEW row \in UsageRows, row.revision <= usageRevision, Sourced(row.revision, row.reading),
         NEW d \in UsageEntries, d.on, d.revision = row.revision, d.flight = load(row).flight, Sourced(d.revision, d.reading),
         entry' = d, polls' = keptBy(row), MemoryAsStored',
         crossed' \/ row.revision = usageRevision \/ entry' = entry
  PROVE  UsageInv'
  <1> USE DEF UsageInv
  <1> DEFINE e == load(row)
             k == keptBy(row)
  <1>1. /\ e \in UsageEntries /\ e.on /\ e.revision = row.revision /\ Sourced(e.revision, e.reading)
        /\ \/ e = entry /\ entry.on
           \/ e.flight = 0 /\ e.reading = row.reading /\ (entry.on => entry.revision # row.revision)
    BY UsageLoadOK
  <1>2. KeptFor(k, row.revision)
    BY KeptByOK
  <1>3. entry' = d /\ polls' = k /\ d.on /\ d.revision = row.revision /\ d.flight = e.flight
    OBVIOUS
  <1> HIDE DEF e, k
  <1> USE DEF KeptFor
  <1>4. AccountTypes'
    BY FineStill
  <1>5. UsageTypes'
    BY <1>1, <1>2, <1>3 DEF UsageTypes, accountVars, RequestsFine, RowFine, WarmFine
  <1>6. Sources'
    <2>1. Sourced(entry.revision, entry.reading)'
      BY <1>1, <1>3, SoundStands DEF Sourced
    <2>2. \A p \in Slots : PollSound(polls[p])'
      BY <1>2, <1>3, SoundStands DEF PollSound
    <2> QED
      BY <2>1, <2>2 DEF Sources, RequestsFine, RowFine, WarmFine
  <1>7. FlightsKnown'
    <2>1. \A p \in Slots : polls[p].on => redemption.slot # p
      BY DEF FlightsKnown
    <2>2. CASE e = entry /\ entry.on
      <3>1. e.flight \in 0..UsageSlots
        BY <1>1 DEF UsageEntries
      <3>2. e.flight # 0 => e.flight \in Slots
        BY <3>1, UsageGiven DEF Slots
      <3> QED
        BY <1>1, <1>2, <1>3, <2>1, <2>2, <3>2 DEF FlightsKnown, accountVars
    <2>3. CASE e.flight = 0 /\ (entry.on => entry.revision # row.revision)
      BY <1>1, <1>2, <1>3, <2>1, <2>3 DEF FlightsKnown, accountVars
    <2> QED
      BY <1>1, <2>2, <2>3
  <1>8. OrphansOld'
    <2> SUFFICES ASSUME ~crossed', NEW p \in Slots, k[p].on, k[p].orphan
                 PROVE  polls[p].revision < usageRevision
      BY <1>2, <1>3 DEF OrphansOld, accountVars
    <2>1. ~crossed /\ polls[p].on
      BY <1>2
    <2>2. CASE polls[p].orphan
      BY <2>1, <2>2 DEF OrphansOld
    <2>3. CASE ~polls[p].orphan
      <3>1. entry.on /\ entry.flight = p /\ entry.revision # row.revision
        BY <1>2, <2>1, <2>3 DEF FlightsKnown
      <3>2. p # 0
        BY SlotsAre
      <3>3. polls[p].revision = entry.revision
        BY <3>1, <3>2 DEF FlightsKnown
      <3>5. polls[p].revision # usageRevision
        BY <1>3, <3>1, <3>3
      <3>6. polls[p].revision \in Nat /\ polls[p].revision <= usageRevision /\ usageRevision \in Nat
        BY <2>1 DEF UsageTypes, UsagePolls, NoPoll, AccountTypes
      <3> QED
        BY <3>5, <3>6
    <2> QED
      BY <2>2, <2>3
  <1> QED
    BY <1>4, <1>5, <1>6, <1>7, <1>8

\* The entry shows what the row of the present revision says, or the step has crossed an older row.
LEMMA LoadStep ==
  ASSUME UsageInv, UNCHANGED <<accountVars, usageRow>>, crossed' \in BOOLEAN, crossed => crossed', RequestsFine', WarmFine',
         NEW row \in UsageRows, row.revision <= usageRevision, Sourced(row.revision, row.reading),
         NEW d \in UsageEntries, d.on, d.revision = row.revision, d.flight = load(row).flight, d.reading = load(row).reading,
         entry' = d, polls' = keptBy(row),
         crossed' \/ row = GetAccountUsage \/ entry' = entry
  PROVE  UsageInv'
  <1>1. /\ load(row).revision = row.revision /\ Sourced(load(row).revision, load(row).reading)
        /\ \/ load(row) = entry /\ entry.on
           \/ load(row).reading = row.reading /\ (entry.on => entry.revision # row.revision)
    BY UsageLoadOK
  <1>2. RowFine' /\ visible' = visible
    BY FineStill
  <1>3. Sourced(d.revision, d.reading)
    BY <1>1
  <1>4. MemoryAsStored'
    <2> SUFFICES ASSUME ~crossed', d.revision = usageRevision
                 PROVE  d.reading = visible
      BY <1>2 DEF MemoryAsStored, accountVars
    <2>1. CASE load(row) = entry /\ entry.on
      BY <1>1, <2>1 DEF MemoryAsStored, UsageInv
    <2>2. CASE load(row).reading = row.reading /\ (entry.on => entry.revision # row.revision)
      <3>1. row = GetAccountUsage
        BY <2>2
      <3> QED
        BY <2>2, <3>1, StoredReading
    <2> QED
      BY <1>1, <2>1, <2>2
  <1>5. crossed' \/ row.revision = usageRevision \/ entry' = entry
    BY StoredReading
  <1> QED
    BY <1>2, <1>3, <1>4, <1>5, EntryStep

\* A poll begins in a free slot, for an entry that has none.
LEMMA PollBegins ==
  ASSUME UsageInv, UNCHANGED <<accountVars, usageRow, requests, crossed>>, WarmFine',
         NEW e, e = load(GetAccountUsage), e.flight = 0, NEW p \in Slots, acquireUsage(p),
         entry' = [e EXCEPT !.flight = p, !.retryAt = usageClock + Cooldown],
         polls' = [keptBy(e) EXCEPT ![p] = [on |-> TRUE, revision |-> e.revision, started |-> usageClock, answered |-> FALSE,
                                            reset |-> 0, used |-> 0, orphan |-> FALSE, seen |-> NoReading]]
  PROVE  UsageInv'
  <1> USE DEF UsageInv
  <1> DEFINE d == [e EXCEPT !.flight = p, !.retryAt = usageClock + Cooldown]
             k == keptBy(e)
             q == [on |-> TRUE, revision |-> e.revision, started |-> usageClock, answered |-> FALSE,
                   reset |-> 0, used |-> 0, orphan |-> FALSE, seen |-> NoReading]
  <1>0. /\ GetAccountUsage \in UsageRows /\ GetAccountUsage.revision = usageRevision
        /\ Sourced(usageRevision, GetAccountUsage.reading) /\ visible = GetAccountUsage.reading
    BY StoredReading
  <1>01. usageRevision \in Nat /\ usageClock \in Nat /\ since <= usageClock /\ since \in Nat
    BY DEF AccountTypes
  <1>1. /\ e \in UsageEntries /\ e.on /\ e.revision = usageRevision /\ Sourced(e.revision, e.reading)
        /\ \/ e = entry /\ entry.on
           \/ e.reading = visible /\ (entry.on => entry.revision # usageRevision)
    BY <1>0, <1>01, UsageLoadOK
  <1>2. KeptFor(k, e.revision)
    BY KeptByOK
  <1>3. p \in 0..UsageSlots /\ usageClock + Cooldown \in Nat /\ p # 0
    BY <1>01, SlotsAre, UsageGiven
  <1>4. d \in UsageEntries /\ d.on /\ d.revision = usageRevision /\ d.reading = e.reading /\ d.flight = p
    BY <1>1, <1>3 DEF UsageEntries
  <1>5. q \in UsagePolls /\ q.on /\ q.revision = usageRevision /\ q.started = usageClock /\ q.reset = 0 /\ q.used = 0 /\ ~q.orphan
    BY <1>01, <1>1 DEF UsagePolls, Readings
  <1>6. PollSound(q)
    BY <1>01, <1>5, TimeIs DEF PollSound, Sound
  <1>7. entry' = d /\ polls' = [k EXCEPT ![p] = q]
    OBVIOUS
  <1> HIDE DEF d, k, q
  <1> USE DEF KeptFor
  <1>8. /\ polls' \in [Slots -> {NoPoll} \cup UsagePolls] /\ polls'[p] = q
        /\ \A x \in Slots \ {p} : polls'[x] = k[x]
    <2>1. k \in [Slots -> {NoPoll} \cup UsagePolls]
      BY <1>2
    <2>2. q \in {NoPoll} \cup UsagePolls /\ p \in Slots
      BY <1>5
    <2> QED
      BY ONLY <1>7, <2>1, <2>2
  <1>9. AccountTypes' /\ RequestsFine' /\ RowFine' /\ visible' = visible
    BY FineStill DEF AccountTypes
  <1>10. UsageTypes'
    <2>1. \A x \in Slots : polls'[x].on => polls'[x].revision <= usageRevision
      BY <1>01, <1>2, <1>5, <1>8 DEF UsageTypes
    <2> QED
      BY <1>01, <1>4, <1>7, <1>8, <1>9, <2>1 DEF UsageTypes, accountVars, RequestsFine, RowFine, WarmFine
  <1>11. Sources'
    <2>1. Sourced(entry.revision, entry.reading)'
      BY <1>1, <1>4, <1>7, SoundStands DEF Sourced
    <2>2. \A x \in Slots : PollSound(polls[x])'
      BY <1>2, <1>6, <1>8, SoundStands DEF PollSound
    <2> QED
      BY <1>9, <2>1, <2>2 DEF Sources, RequestsFine, RowFine, WarmFine
  <1>12. FlightsKnown'
    <2>1. ASSUME NEW x \in Slots \ {p}, polls'[x].on, ~polls'[x].orphan
          PROVE  FALSE
      <3>1. polls[x].on /\ ~polls[x].orphan /\ entry.revision = e.revision
        BY <1>2, <1>8, <2>1
      <3>2. entry.on /\ entry.flight = x
        BY <3>1 DEF FlightsKnown
      <3> QED
        BY <1>1, <3>1, <3>2, SlotsAre
    <2>2. \A x \in Slots : polls'[x].on => redemption.slot # x
      BY <1>2, <1>8 DEF FlightsKnown, acquireUsage
    <2>3. entry'.flight = p /\ entry'.revision = usageRevision
      BY <1>4, <1>7
    <2>4. polls'[p].on /\ ~polls'[p].orphan /\ polls'[p].revision = usageRevision /\ entry'.on
      BY <1>4, <1>5, <1>7, <1>8
    <2>5. redemption' = redemption
      BY DEF accountVars
    <2> QED
      BY <2>1, <2>2, <2>3, <2>4, <2>5 DEF FlightsKnown
  <1>13. OrphansOld'
    <2> SUFFICES ASSUME ~crossed, NEW x \in Slots \ {p}, k[x].on, k[x].orphan
                 PROVE  polls[x].revision < usageRevision
      BY <1>2, <1>5, <1>8 DEF OrphansOld, accountVars
    <2>1. polls[x].on
      BY <1>2
    <2>2. CASE polls[x].orphan
      BY <2>1, <2>2 DEF OrphansOld
    <2>3. CASE ~polls[x].orphan
      <3>1. entry.on /\ entry.flight = x /\ entry.revision # e.revision
        BY <1>2, <2>1, <2>3 DEF FlightsKnown
      <3>2. polls[x].revision = entry.revision
        BY <3>1, SlotsAre DEF FlightsKnown
      <3>3. polls[x].revision \in Nat /\ polls[x].revision <= usageRevision
        BY <2>1 DEF UsageTypes, UsagePolls, NoPoll
      <3> QED
        BY <1>01, <1>1, <3>1, <3>2, <3>3
    <2> QED
      BY <2>2, <2>3
  <1>14. MemoryAsStored'
    BY <1>1, <1>4, <1>7, <1>9 DEF MemoryAsStored, accountVars
  <1> QED
    BY <1>9, <1>10, <1>11, <1>12, <1>13, <1>14

LEMMA AskOK ==
  ASSUME UsageInv, NEW force, ask(force), UNCHANGED <<accountVars, usageRow, requests, crossed>>,
         warm' = warm \/ warm' = [phase |-> "off"]
  PROVE  UsageInv'
  <1> USE DEF UsageInv
  <1> DEFINE row == GetAccountUsage
             e == load(row)
  <1>0. row \in UsageRows /\ row.revision = usageRevision /\ Sourced(row.revision, row.reading)
    BY StoredReading
  <1>01. row.revision <= usageRevision /\ usageClock + Cooldown \in Nat /\ crossed' \in BOOLEAN
    BY <1>0, UsageGiven DEF AccountTypes
  <1>1. e \in UsageEntries /\ e.on /\ e.revision = row.revision
    BY <1>0, <1>01, UsageLoadOK
  <1>2. keptBy(e) = keptBy(row)
    BY <1>1 DEF keptBy
  <1>4. WarmFine' /\ RequestsFine'
    BY FineStill
  <1> DEFINE d == [e EXCEPT !.failed = TRUE, !.retryAt = usageClock + Cooldown]
  <1>5. \/ entry' = e /\ polls' = keptBy(e)
        \/ entry' = d /\ polls' = keptBy(e)
        \/ /\ e.flight = 0
           /\ \E p \in Slots :
                /\ acquireUsage(p) /\ entry' = [e EXCEPT !.flight = p, !.retryAt = usageClock + Cooldown]
                /\ polls' = [keptBy(e) EXCEPT ![p] =
                     [on |-> TRUE, revision |-> e.revision, started |-> usageClock, answered |-> FALSE,
                      reset |-> 0, used |-> 0, orphan |-> FALSE, seen |-> NoReading]]
    BY DEF ask, begun
  <1>6. d \in UsageEntries /\ d.on /\ d.revision = e.revision /\ d.reading = e.reading /\ d.flight = e.flight
    BY <1>01, <1>1 DEF UsageEntries
  <1>7. CASE entry' = e /\ polls' = keptBy(e)
    BY <1>0, <1>01, <1>1, <1>2, <1>4, <1>7, LoadStep
  <1>8. CASE entry' = d /\ polls' = keptBy(e)
    <2> HIDE DEF d
    <2> QED
      BY <1>0, <1>01, <1>1, <1>2, <1>4, <1>6, <1>8, LoadStep
  <1>9. ASSUME e.flight = 0, NEW p \in Slots, acquireUsage(p),
               entry' = [e EXCEPT !.flight = p, !.retryAt = usageClock + Cooldown],
               polls' = [keptBy(e) EXCEPT ![p] =
                     [on |-> TRUE, revision |-> e.revision, started |-> usageClock, answered |-> FALSE,
                      reset |-> 0, used |-> 0, orphan |-> FALSE, seen |-> NoReading]]
        PROVE  UsageInv'
    BY <1>4, <1>9, PollBegins
  <1> QED
    BY <1>5, <1>7, <1>8, <1>9

\* A step aside: of the requests and of the warm-up alone.
LEMMA AsideStep ==
  ASSUME UsageInv, UNCHANGED <<accountVars, usageRow, entry, polls, crossed>>, RequestsFine', WarmFine'
  PROVE  UsageInv'
  <1> USE DEF UsageInv
  <1>1. AccountTypes' /\ RowFine' /\ visible' = visible
    BY FineStill DEF AccountTypes
  <1>2. UsageTypes'
    BY <1>1 DEF UsageTypes, accountVars, RequestsFine, RowFine, WarmFine
  <1>3. Sources'
    <2>1. entry.on => Sourced(entry.revision, entry.reading)'
      BY SoundStands DEF Sources, Sourced
    <2>2. \A p \in Slots : PollSound(polls[p])'
      BY SoundStands DEF Sources, PollSound
    <2> QED
      BY <1>1, <2>1, <2>2 DEF Sources, RequestsFine, RowFine, WarmFine
  <1>4. FlightsKnown' /\ OrphansOld' /\ MemoryAsStored'
    BY <1>1 DEF FlightsKnown, OrphansOld, MemoryAsStored, accountVars
  <1> QED
    BY <1>1, <1>2, <1>3, <1>4

\* A poll ends, and the entry it was begun for, if it is still the one there is, takes what it says.
LEMMA PollEnds ==
  ASSUME UsageInv, UNCHANGED <<accountVars, requests, warm, crossed>>, NEW p \in Slots, polls[p].on,
         polls' = [polls EXCEPT ![p] = NoPoll], RowFine', MemoryAsStored',
         polls[p].orphan => entry' = entry,
         ~polls[p].orphan => /\ entry' \in UsageEntries /\ entry'.revision = entry.revision /\ entry'.flight = 0
                             /\ Sourced(entry'.revision, entry'.reading)
  PROVE  UsageInv'
  <1> USE DEF UsageInv
  <1>1. AccountTypes' /\ RequestsFine' /\ WarmFine'
    BY FineStill DEF AccountTypes
  <1>2. /\ polls' \in [Slots -> {NoPoll} \cup UsagePolls] /\ ~polls'[p].on
        /\ \A x \in Slots \ {p} : polls'[x] = polls[x]
    BY DEF UsageTypes, NoPoll
  <1>3. ~polls[p].orphan => entry.on /\ entry.flight = p
    BY DEF FlightsKnown
  <1>4. UsageTypes'
    BY <1>1, <1>2, <1>3 DEF UsageTypes, accountVars, RequestsFine, RowFine, WarmFine
  <1>5. Sources'
    <2>1. entry'.on => Sourced(entry.revision, entry.reading)'
      BY SoundStands DEF Sources, Sourced
    <2>2. \A x \in Slots : PollSound(polls[x])'
      BY <1>2, SoundStands DEF Sources, PollSound
    <2> QED
      BY <1>1, <2>1, <2>2 DEF Sources, RequestsFine, RowFine, WarmFine
  <1>6. FlightsKnown'
    <2>1. \A x \in Slots : polls'[x].on => redemption'.slot # x
      BY <1>2 DEF FlightsKnown, accountVars
    <2>2. CASE polls[p].orphan
      BY <1>2, <2>1, <2>2 DEF FlightsKnown
    <2>3. CASE ~polls[p].orphan
      <3>1. \A x \in Slots \ {p} : polls'[x].on => polls'[x].orphan
        BY <1>2, <1>3, <2>3 DEF FlightsKnown
      <3> QED
        BY <1>2, <2>1, <2>3, <3>1 DEF FlightsKnown
    <2> QED
      BY <2>2, <2>3
  <1>7. OrphansOld'
    BY <1>2 DEF OrphansOld, accountVars
  <1> QED
    BY <1>1, <1>4, <1>5, <1>6, <1>7

LEMMA UsageFetchOK ==
  ASSUME UsageInv, NEW p \in Slots, NEW ok \in BOOLEAN, fetchUsage(p, ok)
  PROVE  UsageInv'
  <1> USE DEF UsageInv
  <1> DEFINE q == polls[p]
             r == polled(p)
             later == usageClock + Cooldown
             never == usageClock + Backoff
  <1>1. UNCHANGED <<accountVars, requests, warm, crossed>> /\ q.on /\ polls' = [polls EXCEPT ![p] = NoPoll]
    BY DEF fetchUsage, accountVars
  <1>2. q \in UsagePolls /\ q.revision <= usageRevision /\ PollSound(q) /\ later \in Nat /\ never \in Nat
    BY <1>1, UsageGiven DEF UsageTypes, NoPoll, Sources, AccountTypes
  <1>3. ~q.orphan => entry \in UsageEntries /\ entry.on /\ entry.flight = p /\ entry.revision = q.revision
    BY <1>1, SlotsAre DEF FlightsKnown, UsageTypes, NoEntry
  <1>4. r \in Readings /\ r.on /\ Sourced(q.revision, r)
    <2>1. second \in Nat
      BY TimeIs DEF AccountTypes
    <2>2. q.started \in Nat /\ q.reset \in Nat /\ q.used \in Nat
      BY <1>2 DEF UsagePolls
    <2>3. r \in Readings /\ r.on
      BY <2>1, <2>2 DEF polled, Readings
    <2>4. r.started = q.started /\ r.reset = q.reset /\ r.used = q.used
      BY DEF polled
    <2> HIDE DEF r, q
    <2> QED
      BY <1>1, <1>2, <2>3, <2>4 DEF PollSound, Sourced
  <1>5. /\ 0 \in 0..UsageSlots /\ FALSE \in BOOLEAN /\ TRUE \in BOOLEAN
    BY UsageGiven
  <1> DEFINE a == [entry EXCEPT !.retryAt = later]
             b == [entry EXCEPT !.reading = r, !.failed = FALSE, !.retryAt = later]
             c == [entry EXCEPT !.failed = TRUE, !.retryAt = never]
             closed(e) == [e EXCEPT !.flight = 0]
  <1>6. ASSUME ~q.orphan
        PROVE  /\ closed(a) \in UsageEntries /\ closed(a).revision = entry.revision /\ closed(a).flight = 0 /\ closed(a).reading = entry.reading
               /\ closed(b) \in UsageEntries /\ closed(b).revision = entry.revision /\ closed(b).flight = 0 /\ closed(b).reading = r
               /\ closed(c) \in UsageEntries /\ closed(c).revision = entry.revision /\ closed(c).flight = 0 /\ closed(c).reading = entry.reading
    <2>1. entry \in UsageEntries /\ entry.reading \in Readings
      BY <1>3, <1>6 DEF UsageEntries
    <2> HIDE DEF r, later, never
    <2>2. a \in UsageEntries /\ a.revision = entry.revision /\ a.reading = entry.reading
      BY <1>2, <2>1 DEF UsageEntries
    <2>3. b \in UsageEntries /\ b.revision = entry.revision /\ b.reading = r
      BY <1>2, <1>4, <2>1 DEF UsageEntries
    <2>4. c \in UsageEntries /\ c.revision = entry.revision /\ c.reading = entry.reading
      BY <1>2, <2>1 DEF UsageEntries
    <2> HIDE DEF a, b, c
    <2>5. ASSUME NEW e \in UsageEntries
          PROVE  closed(e) \in UsageEntries /\ closed(e).revision = e.revision /\ closed(e).flight = 0 /\ closed(e).reading = e.reading
      BY <1>5 DEF UsageEntries
    <2> HIDE DEF closed
    <2> QED
      BY <2>2, <2>3, <2>4, <2>5
  <1>7. \/ /\ UNCHANGED usageRow
           /\ IF q.orphan THEN UNCHANGED entry ELSE entry' = closed(a) \/ entry' = closed(c)
        \/ /\ q.revision = usageRevision /\ usageRow' = [revision |-> q.revision, reading |-> r]
           /\ IF q.orphan THEN UNCHANGED entry ELSE entry' = closed(b)
    <2>1. \A e : landed(p, e) <=> IF q.orphan THEN UNCHANGED entry ELSE entry' = closed(e)
      BY DEF landed
    <2> HIDE DEF q, r, closed
    <2>2. \/ UNCHANGED usageRow /\ (landed(p, a) \/ landed(p, c))
          \/ /\ q.revision = usageRevision /\ usageRow' = [revision |-> q.revision, reading |-> r] /\ landed(p, b)
      BY Zenon DEF fetchUsage, SaveAccountUsage, q, r
    <2> HIDE DEF a, b, c
    <2> QED
      BY <2>1, <2>2
  <1> HIDE DEF r, a, b, c, closed, later, never
  <1>8. CASE /\ UNCHANGED usageRow
             /\ IF q.orphan THEN UNCHANGED entry ELSE entry' = closed(a) \/ entry' = closed(c)
    <2>1. RowFine' /\ visible' = visible
      BY <1>1, <1>8, FineStill
    <2>2. q.orphan => entry' = entry
      BY <1>8
    <2>3. ~q.orphan => entry' \in UsageEntries /\ entry'.revision = entry.revision /\ entry'.flight = 0 /\ entry'.reading = entry.reading
      BY <1>6, <1>8
    <2>4. ~q.orphan => Sourced(entry'.revision, entry'.reading)
      BY <1>3, <2>3 DEF Sources
    <2>5. MemoryAsStored'
      BY <1>1, <1>3, <2>1, <2>2, <2>3 DEF MemoryAsStored, accountVars
    <2> QED
      BY <1>1, <2>1, <2>2, <2>3, <2>4, <2>5, PollEnds
  <1>9. CASE /\ q.revision = usageRevision /\ usageRow' = [revision |-> q.revision, reading |-> r]
             /\ IF q.orphan THEN UNCHANGED entry ELSE entry' = closed(b)
    <2>0. usageRow'.revision = usageRevision /\ usageRow'.reading = r /\ usageRow' \in UsageRows
      BY <1>4, <1>9 DEF UsageRows, AccountTypes
    <2>1. RowFine'
      BY <1>1, <1>4, <1>9, <2>0, SoundStands DEF RowFine, Sourced, accountVars, AccountTypes
    <2>2. q.orphan => entry' = entry
      BY <1>9
    <2>3. ~q.orphan => entry' \in UsageEntries /\ entry'.revision = entry.revision /\ entry'.flight = 0 /\ entry'.reading = r
      BY <1>6, <1>9
    <2>4. ~q.orphan => Sourced(entry'.revision, entry'.reading)
      BY <1>3, <1>4, <2>3
    <2>5. visible' = r
      BY <1>1, <2>0 DEF visible, GetAccountUsage, accountVars
    <2>6. q.orphan => crossed
      <3>1. usageRevision \in Nat
        BY DEF AccountTypes
      <3> QED
        BY <1>1, <1>9, <3>1 DEF OrphansOld
    <2>7. MemoryAsStored'
      BY <1>1, <2>3, <2>5, <2>6 DEF MemoryAsStored
    <2> QED
      BY <1>1, <2>1, <2>2, <2>3, <2>4, <2>7, PollEnds
  <1> QED
    BY <1>7, <1>8, <1>9

LEMMA AnswerOK ==
  ASSUME UsageInv, NEW p \in Slots, usageAnswer(p)
  PROVE  UsageInv'
  <1> USE DEF UsageInv
  <1> DEFINE q == polls[p]
             z == windowEnd
             n == [q EXCEPT !.answered = TRUE, !.reset = z, !.used = consumed]
  <1>1. /\ UNCHANGED <<accountVars, usageRow, entry, requests, warm, crossed>> /\ q.on
        /\ polls' = [polls EXCEPT ![p].answered = TRUE, ![p].reset = z, ![p].used = consumed]
    BY DEF usageAnswer, accountVars
  <1>2. q \in UsagePolls /\ PollSound(q) /\ q.revision <= usageRevision
    BY <1>1 DEF UsageTypes, NoPoll, Sources
  <1>3. consumed \in Nat /\ z \in Nat
    BY TimeIs DEF AccountTypes
  <1>4. polls \in [Slots -> {NoPoll} \cup UsagePolls]
    BY DEF UsageTypes
  <1>40. polls' = [polls EXCEPT ![p] = n]
    BY <1>1, <1>4, Zenon
  <1>5. /\ n \in UsagePolls /\ n.on /\ n.revision = q.revision /\ n.started = q.started /\ n.reset = z /\ n.used = consumed
        /\ n.orphan = q.orphan
    <2> HIDE DEF q, z
    <2> QED
      BY <1>2, <1>3 DEF UsagePolls
  <1> HIDE DEF n
  <1>6. polls' \in [Slots -> {NoPoll} \cup UsagePolls] /\ polls'[p] = n /\ \A x \in Slots \ {p} : polls'[x] = polls[x]
    BY <1>4, <1>40, <1>5
  <1>7. AccountTypes' /\ RequestsFine' /\ RowFine' /\ WarmFine' /\ visible' = visible
    BY <1>1, FineStill DEF AccountTypes
  <1>8. UsageTypes'
    BY <1>1, <1>2, <1>5, <1>6, <1>7 DEF UsageTypes, accountVars, RequestsFine, RowFine, WarmFine
  <1>9. Sources'
    <2>1. entry.on => Sourced(entry.revision, entry.reading)'
      BY <1>1, SoundStands DEF Sources, Sourced
    <2>2. PollSound(n)
      <3>1. Sound(q.revision, q.started, q.reset, q.used)
        BY <1>1, <1>2 DEF PollSound
      <3>2. Sound(q.revision, q.started, z, consumed)
        BY <1>3, <3>1 DEF Sound
      <3> QED
        BY <1>5, <3>2 DEF PollSound
    <2>3. \A x \in Slots : PollSound(polls[x])'
      BY <1>1, <1>6, <2>2, SoundStands DEF Sources, PollSound
    <2> QED
      BY <1>1, <1>7, <2>1, <2>3 DEF Sources, RequestsFine, RowFine, WarmFine
  <1>10. FlightsKnown'
    <2>1. \A x \in Slots : /\ polls'[x].on = polls[x].on
                           /\ polls[x].on => polls'[x].orphan = polls[x].orphan /\ polls'[x].revision = polls[x].revision
      BY <1>1, <1>5, <1>6
    <2>2. entry.on => entry.flight \in 0..UsageSlots
      BY DEF UsageTypes, UsageEntries, NoEntry
    <2>3. entry.on /\ entry.flight # 0 => entry.flight \in Slots
      BY <2>2, UsageGiven DEF Slots
    <2> QED
      BY <1>1, <2>1, <2>3 DEF FlightsKnown, accountVars
  <1>11. OrphansOld' /\ MemoryAsStored'
    BY <1>1, <1>5, <1>6, <1>7 DEF OrphansOld, MemoryAsStored, accountVars
  <1> QED
    BY <1>7, <1>8, <1>9, <1>10, <1>11

LEMMA RequestsOK ==
  ASSUME UsageInv, NEW r \in Requests, openRequest(r) \/ QuotaEvent(r)
  PROVE  UsageInv'
  <1> USE DEF UsageInv
  <1>1. RequestsFine
    BY FineNow
  <1>2. /\ UNCHANGED <<accountVars, usageRow, entry, polls, crossed, warm>> /\ crossed' \in BOOLEAN
    BY DEF openRequest, QuotaEvent, accountVars, AccountTypes
  <1>3. WarmFine'
    BY <1>2, FineStill
  <1>4. /\ usageRevision \in Nat /\ usageClock \in Nat /\ since \in Nat /\ since <= usageClock /\ consumed \in Nat
        /\ second \in Nat /\ windowEnd \in Nat
    BY TimeIs DEF AccountTypes
  <1>5. CASE openRequest(r)
    <2> DEFINE n == [on |-> TRUE, revision |-> usageRevision, started |-> usageClock, quota |-> NoReading]
    <2>1. requests' = [requests EXCEPT ![r] = n]
      BY <1>5 DEF openRequest
    <2>2. n \in UsageRequests /\ n.on /\ n.revision = usageRevision /\ n.started = usageClock /\ n.quota = NoReading
      BY <1>4 DEF UsageRequests, Readings
    <2> HIDE DEF n
    <2>3. RequestSound(n)
      <3>1. ~NoReading.on
        BY DEF NoReading
      <3> QED
        BY <1>4, <2>2, <3>1 DEF RequestSound, Sourced, Sound
    <2>4. /\ requests' \in [Requests -> {NoRequest} \cup UsageRequests] /\ requests'[r] = n
          /\ \A x \in Requests \ {r} : requests'[x] = requests[x]
      BY <1>1, <2>1, <2>2 DEF RequestsFine
    <2>5. RequestsFine'
      BY <1>1, <1>2, <1>4, <2>2, <2>3, <2>4, SoundStands DEF RequestsFine, RequestSound, Sourced, accountVars
    <2> QED
      BY <1>2, <1>3, <2>5, AsideStep
  <1>6. CASE QuotaEvent(r)
    <2> DEFINE q == requests[r]
               z == windowEnd
               s == second
               x == [on |-> TRUE, started |-> q.started, updated |-> s, reset |-> z, used |-> consumed]
               n == [q EXCEPT !.quota = x]
    <2>1. q.on /\ requests' = [requests EXCEPT ![r].quota = x]
      BY <1>6 DEF QuotaEvent
    <2>2. q \in UsageRequests /\ q.revision <= usageRevision /\ RequestSound(q)
      BY <1>1, <2>1 DEF RequestsFine, NoRequest
    <2>3. x \in Readings /\ x.on /\ x.started = q.started /\ x.reset = z /\ x.used = consumed
      <3>1. q.started \in Nat
        BY <2>2 DEF UsageRequests
      <3> HIDE DEF q, z, s
      <3>2. z \in Nat /\ s \in Nat
        BY <1>4 DEF z, s
      <3> QED
        BY <1>4, <3>1, <3>2 DEF Readings
    <2> HIDE DEF x
    <2>4. requests' = [requests EXCEPT ![r] = n]
      BY <2>1, Zenon
    <2>5. n \in UsageRequests /\ n.on /\ n.revision = q.revision /\ n.started = q.started /\ n.quota = x
      <3> HIDE DEF q
      <3> QED
        BY <2>2, <2>3 DEF UsageRequests
    <2> HIDE DEF n
    <2>6. RequestSound(n)
      <3>1. Sound(q.revision, q.started, 0, 0)
        BY <2>1, <2>2 DEF RequestSound
      <3>2. Sound(q.revision, q.started, z, consumed)
        BY <1>4, <3>1 DEF Sound
      <3> QED
        BY <2>3, <2>5, <3>1, <3>2 DEF RequestSound, Sourced
    <2>7. /\ requests' \in [Requests -> {NoRequest} \cup UsageRequests] /\ requests'[r] = n
          /\ \A y \in Requests \ {r} : requests'[y] = requests[y]
      BY <1>1, <2>4, <2>5 DEF RequestsFine
    <2>8. RequestsFine'
      BY <1>1, <1>2, <1>4, <2>2, <2>5, <2>6, <2>7, SoundStands DEF RequestsFine, RequestSound, Sourced, accountVars
    <2> QED
      BY <1>2, <1>3, <2>8, AsideStep
  <1> QED
    BY <1>5, <1>6

LEMMA CloseOK ==
  ASSUME UsageInv, NEW r \in Requests, NEW ok \in BOOLEAN, closeRequest(r, ok)
  PROVE  UsageInv'
  <1> USE DEF UsageInv
  <1> DEFINE q == requests[r]
             v == q.quota
             row == GetAccountUsage
             e == load(row)
  <1>1. /\ UNCHANGED <<accountVars, crossed, warm>> /\ crossed' \in BOOLEAN /\ q.on
        /\ requests' = [requests EXCEPT ![r] = NoRequest]
        /\ \/ UNCHANGED <<entry, polls, usageRow>>
           \/ v.on /\ observeUsage(v, q.revision)
    BY DEF closeRequest, accountVars, AccountTypes
  <1>2. WarmFine'
    BY <1>1, FineStill
  <1>3. RequestsFine'
    <2>1. RequestsFine /\ usageRevision' = usageRevision
      BY <1>1, FineNow DEF accountVars
    <2>2. /\ requests' \in [Requests -> {NoRequest} \cup UsageRequests] /\ ~requests'[r].on
          /\ \A x \in Requests \ {r} : requests'[x] = requests[x]
      BY <1>1, <2>1 DEF RequestsFine, NoRequest
    <2> QED
      BY <1>1, <2>1, <2>2, SoundStands DEF RequestsFine, RequestSound, Sourced
  <1>4. /\ row \in UsageRows /\ row.revision = usageRevision /\ Sourced(row.revision, row.reading) /\ row.reading = visible
        /\ row.revision <= usageRevision
    BY StoredReading DEF AccountTypes
  <1>5. e \in UsageEntries /\ e.on /\ e.revision = row.revision /\ Sourced(e.revision, e.reading)
    BY <1>4, UsageLoadOK
  <1>6. CASE UNCHANGED <<entry, polls, usageRow>>
    BY <1>1, <1>2, <1>3, <1>6, AsideStep
  <1>7. CASE v.on /\ observeUsage(v, q.revision)
    <2>1. q \in UsageRequests /\ RequestSound(q)
      BY <1>1 DEF UsageTypes, Sources, NoRequest
    <2>2. v \in Readings /\ Sourced(q.revision, v)
      BY <1>1, <2>1 DEF UsageRequests, RequestSound
    <2> DEFINE d == [e EXCEPT !.reading = v, !.failed = FALSE]
    <2>3. /\ polls' = keptBy(e)
          /\ \/ entry' = e /\ UNCHANGED usageRow
             \/ /\ q.revision = usageRevision /\ entry' = d
                /\ usageRow' = [revision |-> q.revision, reading |-> v]
      BY <1>7 DEF observeUsage, SaveAccountUsage
    <2>4. keptBy(e) = keptBy(row)
      BY <1>5 DEF keptBy
    <2> HIDE DEF e, row, v
    <2>5. d \in UsageEntries /\ d.on /\ d.revision = e.revision /\ d.flight = e.flight /\ d.reading = v
      BY <1>5, <2>2 DEF UsageEntries
    <2> HIDE DEF d
    <2>6. CASE entry' = e /\ UNCHANGED usageRow
      BY <1>1, <1>2, <1>3, <1>4, <1>5, <2>3, <2>4, <2>6, LoadStep DEF e, row
    <2>7. CASE /\ q.revision = usageRevision /\ entry' = d
               /\ usageRow' = [revision |-> q.revision, reading |-> v]
      <3>1. usageRow'.revision = usageRevision /\ usageRow'.reading = v /\ usageRow' \in UsageRows
        BY <2>2, <2>7 DEF UsageRows, AccountTypes
      <3>2. RowFine'
        BY <1>1, <2>2, <2>7, <3>1, SoundStands DEF RowFine, Sourced, accountVars, AccountTypes
      <3>3. visible' = v
        BY <1>1, <3>1 DEF visible, GetAccountUsage, accountVars
      <3>4. MemoryAsStored'
        BY <2>5, <2>7, <3>3 DEF MemoryAsStored
      <3>5. Sourced(d.revision, d.reading) /\ d.revision = row.revision /\ d.flight = load(row).flight
        BY <1>4, <1>5, <2>2, <2>5, <2>7 DEF e
      <3> QED
        BY <1>1, <1>2, <1>3, <1>4, <2>3, <2>4, <2>5, <2>7, <3>2, <3>4, <3>5, EntryStep
    <2> QED
      BY <2>3, <2>6, <2>7
  <1> QED
    BY <1>1, <1>6, <1>7

LEMMA WarmOK ==
  ASSUME UsageInv, warmRead \/ warmLoad \/ warmUsage
  PROVE  UsageInv'
  <1> USE DEF UsageInv
  <1>0. crossed \in BOOLEAN /\ RequestsFine
    BY FineNow DEF AccountTypes
  <1>1. CASE warmRead
    <2>1. /\ UNCHANGED <<accountVars, usageRow, entry, polls, requests, crossed>>
          /\ warm' = [phase |-> "read", row |-> GetAccountUsage]
      BY <1>1 DEF warmRead, accountVars
    <2>2. RequestsFine'
      BY <2>1, FineStill
    <2>3. /\ GetAccountUsage \in UsageRows /\ GetAccountUsage.revision <= usageRevision
          /\ Sourced(GetAccountUsage.revision, GetAccountUsage.reading)
      BY StoredReading DEF AccountTypes
    <2> DEFINE row == GetAccountUsage
    <2>31. warm' = [phase |-> "read", row |-> row] /\ row \in UsageRows /\ row.revision <= usageRevision /\ Sourced(row.revision, row.reading)
      BY <2>1, <2>3
    <2> HIDE DEF row
    <2>32. usageRevision' = usageRevision /\ UNCHANGED accountVars
      BY <2>1 DEF accountVars
    <2>33. warm' \in [phase : {"read"}, row : UsageRows] /\ warm'.row = row
      BY <2>31
    <2>4. WarmFine'
      BY <2>31, <2>32, <2>33, SoundStands DEF WarmFine, WarmType, Sourced
    <2> QED
      BY <2>1, <2>2, <2>4, AsideStep
  <1>2. CASE warmLoad
    <2> DEFINE row == warm.row
    <2>1. /\ UNCHANGED <<accountVars, usageRow, requests>> /\ warm.phase = "read"
          /\ entry' = load(row) /\ polls' = keptBy(row)
          /\ crossed' = (crossed \/ (entry' # entry /\ row # GetAccountUsage))
          /\ warm' = [phase |-> "off"] \/ warm' = [phase |-> "ask"]
      BY <1>2 DEF warmLoad, accountVars
    <2>2. row \in UsageRows /\ row.revision <= usageRevision /\ Sourced(row.revision, row.reading)
      <3>1. "off" # "read" /\ "ask" # "read"
        OBVIOUS
      <3> QED
        BY <2>1, <3>1 DEF UsageTypes, WarmType, Sources
    <2>3. load(row) \in UsageEntries /\ load(row).on /\ load(row).revision = row.revision
      BY <2>2, UsageLoadOK
    <2>4. crossed' \in BOOLEAN /\ (crossed => crossed') /\ (crossed' \/ row = GetAccountUsage \/ entry' = entry)
      BY <1>0, <2>1
    <2>5. RequestsFine' /\ WarmFine'
      BY <2>1, FineStill
    <2> HIDE DEF row
    <2> QED
      BY <2>1, <2>2, <2>3, <2>4, <2>5, LoadStep
  <1>3. CASE warmUsage
    <2>1. /\ UNCHANGED <<accountVars, usageRow, requests, crossed>> /\ warm' = [phase |-> "off"]
          /\ ask(FALSE) \/ UNCHANGED <<entry, polls>>
      BY <1>3 DEF warmUsage, accountVars
    <2>2. RequestsFine' /\ WarmFine'
      BY <2>1, FineStill
    <2>3. ask(FALSE) => UsageInv'
      BY <2>1, AskOK
    <2>4. UNCHANGED <<entry, polls>> => UsageInv'
      BY <2>1, <2>2, AsideStep
    <2> QED
      BY <2>1, <2>3, <2>4
  <1> QED
    BY <1>1, <1>2, <1>3

LEMMA UsageEvictOK == UsageInv /\ evict => UsageInv'
  <1> SUFFICES ASSUME UsageInv, evict PROVE UsageInv'
    OBVIOUS
  <1> USE DEF UsageInv
  <1>1. /\ UNCHANGED <<accountVars, usageRow, polls, requests, warm, crossed>> /\ entry.on /\ entry.flight = 0 /\ entry' = NoEntry
    BY DEF evict, accountVars
  <1>2. ~NoEntry.on
    BY DEF NoEntry
  <1>3. AccountTypes' /\ RequestsFine' /\ RowFine' /\ WarmFine'
    BY <1>1, FineStill DEF AccountTypes
  <1>4. UsageTypes'
    BY <1>1, <1>2, <1>3 DEF UsageTypes, accountVars, RequestsFine, RowFine, WarmFine
  <1>5. Sources'
    <2>1. \A p \in Slots : PollSound(polls[p])'
      BY <1>1, SoundStands DEF Sources, PollSound
    <2> QED
      BY <1>1, <1>2, <1>3, <2>1 DEF Sources, RequestsFine, RowFine, WarmFine
  <1>6. FlightsKnown'
    BY <1>1, <1>2, SlotsAre DEF FlightsKnown, accountVars
  <1>7. OrphansOld' /\ MemoryAsStored'
    BY <1>1, <1>2 DEF OrphansOld, MemoryAsStored, accountVars
  <1> QED
    BY <1>3, <1>4, <1>5, <1>6, <1>7

LEMMA RestartOK == UsageInv /\ newUsageCache => UsageInv'
  <1> SUFFICES ASSUME UsageInv, newUsageCache PROVE UsageInv'
    OBVIOUS
  <1> USE DEF UsageInv
  <1>1. /\ UNCHANGED <<usable, usageRevision, usageRow, consumed, usageClock, since, crossed>>
        /\ entry' = NoEntry /\ polls' = [p \in Slots |-> NoPoll] /\ requests' = [r \in Requests |-> NoRequest]
        /\ warm' = [phase |-> "off"] /\ redemption' = [redemption EXCEPT !.slot = 0]
    BY DEF newUsageCache
  <1>2. ~NoEntry.on /\ ~NoPoll.on /\ ~NoRequest.on
    BY DEF NoEntry, NoPoll, NoRequest
  <1>3. redemption \in [phase : {"off", "called", "spent"}, slot : 0..UsageSlots]
    BY DEF AccountTypes
  <1>4. redemption' \in [phase : {"off", "called", "spent"}, slot : 0..UsageSlots] /\ redemption'.phase = redemption.phase
    BY <1>1, <1>3, UsageGiven
  <1>5. AccountTypes'
    BY <1>1, <1>4 DEF AccountTypes
  <1>6. WarmType' /\ warm'.phase # "read"
    <2>1. "off" # "read"
      OBVIOUS
    <2> QED
      BY <1>1, <2>1 DEF WarmType
  <1>7. UsageTypes'
    BY <1>1, <1>2, <1>6 DEF UsageTypes
  <1>8. Sourced(usageRow.revision, usageRow.reading)'
    <2>1. Sourced(usageRow.revision, usageRow.reading)
      BY DEF Sources
    <2>2. second' = second /\ windowEnd' = windowEnd
      BY <1>1 DEF second, windowEnd
    <2> QED
      BY <1>1, <1>4, <2>1, <2>2 DEF Sourced, Sound
  <1>9. Sources'
    BY <1>1, <1>2, <1>6, <1>8 DEF Sources, PollSound, RequestSound
  <1>10. FlightsKnown' /\ OrphansOld' /\ MemoryAsStored'
    BY <1>1, <1>2 DEF FlightsKnown, OrphansOld, MemoryAsStored
  <1> QED
    BY <1>5, <1>7, <1>9, <1>10

LEMMA UsageStart == UsageInit => UsageInv
  <1> SUFFICES ASSUME UsageInit PROVE UsageInv
    OBVIOUS
  <1>1. ~NoEntry.on /\ ~NoPoll.on /\ ~NoRequest.on /\ ~NoReading.on /\ NoReading \in Readings
    BY DEF NoEntry, NoPoll, NoRequest, NoReading, Readings
  <1>2. /\ usable = TRUE /\ usageRevision = 1 /\ usageRow = [revision |-> 0, reading |-> NoReading] /\ entry = NoEntry
        /\ polls = [p \in Slots |-> NoPoll] /\ redemption = [phase |-> "off", slot |-> 0]
        /\ requests = [r \in Requests |-> NoRequest] /\ warm = [phase |-> "off"]
        /\ consumed = 0 /\ usageClock = 0 /\ since = 0 /\ crossed = FALSE
    BY DEF UsageInit
  <1>3. "off" # "read"
    OBVIOUS
  <1>4. AccountTypes
    <2>1. redemption \in [phase : {"off", "called", "spent"}, slot : 0..UsageSlots]
      BY <1>2, UsageGiven
    <2>2. usable \in BOOLEAN /\ crossed \in BOOLEAN
      BY <1>2
    <2>3. usageRevision \in Nat /\ consumed \in Nat /\ usageClock \in Nat /\ since \in Nat /\ since <= usageClock
      BY <1>2
    <2> QED
      BY <2>1, <2>2, <2>3 DEF AccountTypes
  <1>5. WarmType
    BY <1>2 DEF WarmType
  <1>6. UsageTypes
    BY <1>1, <1>2, <1>5 DEF UsageTypes, UsageRows
  <1>7. Sources
    BY <1>1, <1>2, <1>3 DEF Sources, Sourced, PollSound, RequestSound
  <1>8. FlightsKnown /\ OrphansOld /\ MemoryAsStored
    BY <1>1, <1>2 DEF FlightsKnown, OrphansOld, MemoryAsStored
  <1> QED
    BY <1>4, <1>6, <1>7, <1>8 DEF UsageInv

LEMMA UsageStep == UsageInv /\ [UsageNext]_usageVars => UsageInv'
  <1> SUFFICES ASSUME UsageInv, [UsageNext]_usageVars PROVE UsageInv'
    OBVIOUS
  <1>1. ASSUME NEW force \in BOOLEAN, usageSnapshot(force) PROVE UsageInv'
    <2>1. UNCHANGED <<accountVars, usageRow, requests, crossed>> /\ warm' = warm /\ ask(force)
      BY <1>1 DEF usageSnapshot, accountVars
    <2> QED
      BY <2>1, AskOK
  <1>2. ASSUME UNCHANGED usageVars PROVE UsageInv'
    <2>1. UNCHANGED <<accountVars, usageRow, entry, polls, requests, warm, crossed>>
      BY <1>2 DEF usageVars, accountVars
    <2>2. RequestsFine' /\ WarmFine'
      BY <2>1, FineStill
    <2> QED
      BY <2>1, <2>2, AsideStep
  <1>3. ASSUME NEW p \in Slots, usageAnswer(p) \/ \E ok \in BOOLEAN : fetchUsage(p, ok) PROVE UsageInv'
    BY <1>3, AnswerOK, UsageFetchOK
  <1>4. warmRead \/ warmLoad \/ warmUsage \/ evict \/ newUsageCache => UsageInv'
    BY WarmOK, UsageEvictOK, RestartOK
  <1>5. ASSUME NEW r \in Requests, openRequest(r) \/ QuotaEvent(r) \/ \E ok \in BOOLEAN : closeRequest(r, ok) PROVE UsageInv'
    BY <1>5, RequestsOK, CloseOK
  <1>6. ASSUME NEW on \in BOOLEAN, accountChanges(on) PROVE UsageInv'
    BY <1>6, AroundOK
  <1>7. reauthRequired \/ beginRedeem \/ ConsumeResetCredit \/ RedeemResetCredit \/ use \/ usageTick => UsageInv'
    BY AroundOK
  <1> QED
    BY <1>1, <1>2, <1>3, <1>4, <1>5, <1>6, <1>7 DEF UsageNext

\* The inductive invariant: whatever of the present revision the row, the entry, a poll, a response or the
\* warm-up holds was begun under it and is true of the window that is open; the entry knows its poll, and a
\* poll that lost its entry is of an earlier revision.
THEOREM UsageInvariance == UsageSpec => []UsageInv
  <1> QED
    BY UsageStart, UsageStep, PTL DEF UsageSpec

LEMMA UsageSafe == UsageInv => UsageTrue
  <1> SUFFICES ASSUME UsageInv PROVE UsageTrue
    OBVIOUS
  <1>1. Sourced(usageRevision, visible) /\ GetAccountUsage \in UsageRows /\ visible = GetAccountUsage.reading
    BY StoredReading
  <1>2. visible \in Readings
    BY <1>1 DEF UsageRows
  <1>3. visible.on => visible.started \in Nat /\ visible.reset \in Nat /\ visible.used \in Nat
    BY <1>2 DEF Readings, NoReading
  <1>4. since \in Nat /\ consumed \in Nat /\ second \in Nat
    BY TimeIs DEF UsageInv, AccountTypes
  <1>5. ReadUnderRevision
    BY <1>1, <1>3, <1>4 DEF ReadUnderRevision, Sourced, Sound
  <1>6. ExhaustedIsTrue
    <2> SUFFICES ASSUME quotaStatus(visible) = "exhausted", redemption.phase # "spent"
                 PROVE  consumed >= Full
      BY DEF ExhaustedIsTrue
    <2>1. "unknown" # "exhausted" /\ "stale" # "exhausted" /\ "available" # "exhausted"
      OBVIOUS
    <2>2. visible.on /\ ~(visible.reset <= second) /\ visible.used >= Full
      <3> HIDE DEF visible
      <3> QED
        BY <2>1 DEF quotaStatus
    <2>3. visible.reset > second
      BY <1>3, <1>4, <2>2
    <2>4. visible.used <= consumed
      BY <1>1, <2>2, <2>3 DEF Sourced, Sound
    <2> QED
      BY <1>3, <1>4, <2>2, <2>4, UsageGiven
  <1>7. FlightsOwned
    BY DEF FlightsOwned, UsageInv, FlightsKnown
  <1> QED
    BY <1>5, <1>6, <1>7 DEF UsageTrue, UsageInv

\* What the gateway takes for an account's quota was asked for after the account last changed, is no more
\* exhausted than the quota is, and is what is stored; nobody waits for a poll that does not run.
THEOREM UsageIsTrue == UsageSpec => []UsageTrue
  BY UsageInvariance, UsageSafe, PTL

\* A response that is stored refreshes the reading that is.
LEMMA Raised ==
  ASSUME UsageInv, NEW v, NEW revision, observeUsage(v, revision), ~UNCHANGED usageRow,
         usageRow'.revision = usageRow.revision, usageRow.reading.on, ~crossed
  PROVE  /\ usageRow'.reading = v /\ v.started > usageRow.reading.started
         /\ v.reset = usageRow.reading.reset /\ v.used >= usageRow.reading.used
  <1> DEFINE e == load(GetAccountUsage)
  <1>1. refreshes(v, revision, e) /\ revision = usageRevision /\ usageRow' = [revision |-> revision, reading |-> v]
    BY DEF observeUsage, SaveAccountUsage
  <1>2. usageRow.revision = usageRevision
    BY <1>1
  <1>3. /\ visible = usageRow.reading /\ GetAccountUsage \in UsageRows /\ GetAccountUsage.revision = usageRevision
        /\ Sourced(usageRevision, GetAccountUsage.reading) /\ visible = GetAccountUsage.reading
    BY <1>2, StoredReading
  <1>40. GetAccountUsage.revision <= usageRevision
    BY <1>3 DEF UsageInv, AccountTypes
  <1>4. e.revision = usageRevision /\ (e.reading = visible \/ (e = entry /\ entry.on))
    BY <1>3, <1>40, UsageLoadOK
  <1>5. e.reading = usageRow.reading
    BY <1>3, <1>4 DEF UsageInv, MemoryAsStored
  <1> HIDE DEF e
  <1> QED
    BY <1>1, <1>5 DEF refreshes

LEMMA OthersStore ==
  ASSUME UsageNext
  PROVE  \/ UNCHANGED usageRow
         \/ \E p \in Slots : \E ok \in BOOLEAN : fetchUsage(p, ok)
         \/ \E r \in Requests : \E ok \in BOOLEAN : closeRequest(r, ok)
  BY Zenon DEF UsageNext, usageSnapshot, usageAnswer, warmRead, warmLoad, warmUsage, evict, openRequest, QuotaEvent,
     accountChanges, reauthRequired, beginRedeem, ConsumeResetCredit, RedeemResetCredit, use, usageTick, newUsageCache

\* What is stored in place of a reading of the same revision was begun no earlier.
LEMMA StoredInOrder ==
  ASSUME UsageInv, UsageNext, usageRow.revision = usageRow'.revision, usageRow.reading.on, ~crossed'
  PROVE  usageRow'.reading.started >= usageRow.reading.started
  <1>1. usageRow \in UsageRows /\ usageRow.reading \in Readings /\ usageRow.reading.started \in Nat
    BY DEF UsageInv, UsageTypes, UsageRows, Readings, NoReading
  <1>2. UNCHANGED usageRow => usageRow'.reading.started >= usageRow.reading.started
    BY <1>1
  <1>3. ASSUME NEW p \in Slots, NEW ok \in BOOLEAN, fetchUsage(p, ok)
        PROVE  usageRow'.reading.started >= usageRow.reading.started
    <2> DEFINE q == polls[p]
    <2>1. CASE UNCHANGED usageRow
      BY <1>2, <2>1
    <2>2. CASE ~UNCHANGED usageRow
      <3>1. /\ q.revision = usageRevision /\ usable /\ ~overtaken(p)
            /\ usageRow' = [revision |-> q.revision, reading |-> polled(p)]
        BY <1>3, <2>2, Zenon DEF fetchUsage, SaveAccountUsage
      <3>2. q.on /\ ~crossed
        BY <1>3 DEF fetchUsage
      <3>3. q.started \in Nat /\ q.orphan \in BOOLEAN
        BY <3>2 DEF UsageInv, UsageTypes, UsagePolls, NoPoll
      <3>4. ~q.orphan
        <4>1. usageRevision \in Nat
          BY DEF UsageInv, AccountTypes
        <4> QED
          BY <3>1, <3>2, <4>1 DEF UsageInv, OrphansOld
      <3>5. entry.on /\ entry.flight = p /\ entry.revision = usageRevision
        BY <3>1, <3>2, <3>4, SlotsAre DEF UsageInv, FlightsKnown
      <3>6. entry.reading = visible
        BY <3>2, <3>5 DEF UsageInv, MemoryAsStored
      <3>7. usageRow.revision = usageRevision
        BY <3>1
      <3>8. visible = usageRow.reading
        BY <3>7, StoredReading
      <3>9. ~(usageRow.reading.started > q.started)
        <4>1. held(p) = entry.reading
          BY <3>4 DEF held
        <4> QED
          BY <3>1, <3>6, <3>8, <4>1 DEF overtaken
      <3>10. usageRow'.reading.started = q.started
        BY <3>1 DEF polled
      <3> QED
        BY <1>1, <3>3, <3>9, <3>10
    <2> QED
      BY <2>1, <2>2
  <1>4. ASSUME NEW r \in Requests, NEW ok \in BOOLEAN, closeRequest(r, ok)
        PROVE  usageRow'.reading.started >= usageRow.reading.started
    <2>1. CASE UNCHANGED usageRow
      BY <1>2, <2>1
    <2>2. CASE ~UNCHANGED usageRow
      <3>1. observeUsage(requests[r].quota, requests[r].revision) /\ ~crossed /\ requests[r].on /\ requests[r].quota.on
        BY <1>4, <2>2 DEF closeRequest
      <3> DEFINE v == requests[r].quota
      <3>2. usageRow'.reading = v /\ v.started > usageRow.reading.started
        BY <2>2, <3>1, Raised
      <3>3. v.started \in Nat
        BY <3>1 DEF UsageInv, UsageTypes, UsageRequests, NoRequest, Readings, NoReading
      <3> QED
        BY <1>1, <3>2, <3>3
    <2> QED
      BY <2>1, <2>2
  <1>5. \/ UNCHANGED usageRow
        \/ \E p \in Slots : \E ok \in BOOLEAN : fetchUsage(p, ok)
        \/ \E r \in Requests : \E ok \in BOOLEAN : closeRequest(r, ok)
    BY OthersStore
  <1> QED
    BY <1>2, <1>3, <1>4, <1>5

\* The end of a response, or of the process, leaves the window and its use, or more of it.
LEMMA OnlyRaise ==
  ASSUME UsageInv, UsageNext
  PROVE  \A r \in Requests :
           requests[r].on /\ ~requests'[r].on /\ usageRow'.revision = usageRow.revision /\ usageRow.reading.on /\ ~crossed
           => usageRow'.reading.reset = usageRow.reading.reset /\ usageRow'.reading.used >= usageRow.reading.used
  <1> SUFFICES ASSUME NEW r \in Requests, requests[r].on, ~requests'[r].on, usageRow'.revision = usageRow.revision,
                      usageRow.reading.on, ~crossed
               PROVE  usageRow'.reading.reset = usageRow.reading.reset /\ usageRow'.reading.used >= usageRow.reading.used
    OBVIOUS
  <1>1. usageRow.reading.used \in Nat
    BY DEF UsageInv, UsageTypes, UsageRows, Readings, NoReading
  <1>2. CASE UNCHANGED usageRow
    BY <1>1, <1>2
  <1>3. ASSUME ~UNCHANGED usageRow, NEW x \in Requests, NEW ok \in BOOLEAN, closeRequest(x, ok)
        PROVE  usageRow'.reading.reset = usageRow.reading.reset /\ usageRow'.reading.used >= usageRow.reading.used
    <2>1. observeUsage(requests[x].quota, requests[x].revision)
      BY <1>3 DEF closeRequest
    <2> QED
      BY <1>3, <2>1, Raised
  <1>4. ~\E p \in Slots : \E ok \in BOOLEAN : fetchUsage(p, ok)
    BY DEF fetchUsage
  <1> QED
    BY <1>2, <1>3, <1>4, OthersStore

\* Readings replace one another in the order in which they were begun, and a response never lowers the use of
\* the window, nor begins one.
THEOREM ReadingsGoForward == UsageSpec => ReadingsForward
  <1>1. UsageInv /\ [UsageNext]_usageVars
          => [usageRow.revision = usageRow'.revision /\ usageRow.reading.on /\ ~crossed'
               => usageRow'.reading.started >= usageRow.reading.started]_usageVars
    BY StoredInOrder DEF usageVars
  <1>2. UsageInv /\ [UsageNext]_usageVars
          => [\A r \in Requests :
                requests[r].on /\ ~requests'[r].on /\ usageRow'.revision = usageRow.revision /\ usageRow.reading.on /\ ~crossed
                => usageRow'.reading.reset = usageRow.reading.reset /\ usageRow'.reading.used >= usageRow.reading.used]_usageVars
    BY OnlyRaise DEF usageVars
  <1> QED
    BY <1>1, <1>2, UsageInvariance, PTL DEF UsageSpec, ReadingsForward, ReadsInOrder, ResponsesOnlyRaise
-----------------------------------------------------------------------------
(* One exchange *)

LoopReaders ==
  [at : {"off", "read", "observe", "offer", "reply", "end", "stopped"},
   event : {"none", "delta", "completed", "incomplete", "failed"}, left : Nat,
   err : {"none", "interrupted", "canceled", "write", "limit"}, refused : BOOLEAN, downstream : BOOLEAN]

Results == {"success", "incomplete", "interrupted", "canceled", "timeout", "rejected", "write", "limit"}

ExchangeTypeOK ==
  /\ shape \in {"none", "stream", "collected", "whole"} /\ detached \in BOOLEAN
  /\ entryCtx \in {"live", "canceled", "deadline"} /\ upCtx \in {"live", "done", "released"}
  /\ body \in {"open", "closed"} /\ closer \in {"idle", "released", "bodyClosed", "done"}
  /\ loop \in {"off", "whole", "select", "yielding", "waiting", "draining", "closing", "returned", "completed", "over"}
  /\ reader \in LoopReaders /\ outcome \in Results
  /\ exchangeClosed \in BOOLEAN /\ tokens \in BOOLEAN

\* Before the response there is nothing to read, to close or to record.
Unbegun == shape = "none" => loop = "off" /\ reader.at = "off" /\ closer = "idle" /\ outcome = "canceled"

\* One thread closes: it releases the context, closes the body, and records with the lock held.
ClosedInOrder ==
  /\ closer = "idle" => upCtx # "released"
  /\ closer \in {"idle", "released"} => body = "open"
  /\ exchangeClosed <=> closer = "done"
  /\ record.on => exchangeClosed

\* A body that is read as a whole is neither a stream nor detached from its request.
WholeAttached == loop = "whole" => shape = "whole"

\* The reader comes to a good end only after a last event that the client took.
GoodEnd == reader.at = "end" /\ reader.err = "none" /\ ~reader.refused => terminal(reader.event)

GoodOutcome ==
  outcome \in {"success", "incomplete"} /\ shape # "whole"
    => terminal(reader.event) /\ ~reader.refused /\ reader.at = "stopped"

\* As long as the loop is with the stream, only the end of the detached context closes the exchange.
LoopUndisturbed ==
  loop \in {"select", "yielding", "waiting", "draining"} /\ detached /\ upCtx # "done" => closer = "idle"

ExchangeInv ==
  /\ ExchangeTypeOK /\ Unbegun /\ ClosedInOrder /\ WholeAttached /\ GoodEnd /\ GoodOutcome /\ LoopUndisturbed
  /\ RecordStands

LEMMA ExchangeInitial == ExchangeInit => ExchangeInv
  <1> SUFFICES ASSUME ExchangeInit PROVE ExchangeInv
    OBVIOUS
  <1>1. ExchangeTypeOK
    BY DeltasAssumption DEF ExchangeInit, ExchangeTypeOK, LoopReaders, Results
  <1>2. Unbegun /\ ClosedInOrder /\ WholeAttached /\ GoodEnd /\ GoodOutcome /\ LoopUndisturbed /\ RecordStands
    BY DEF ExchangeInit, Unbegun, ClosedInOrder, WholeAttached, GoodEnd, GoodOutcome, LoopUndisturbed, RecordStands, NoRecord
  <1> QED
    BY <1>1, <1>2 DEF ExchangeInv

\* What an error is called is never a success.
LEMMA ClassifyFails ==
  ASSUME ExchangeTypeOK, NEW err \in {"interrupted", "canceled", "deadline", "write", "limit"}
  PROVE  classify(err) \in Results \ {"success", "incomplete"}
  BY DEF ExchangeTypeOK, classify, Results

\* What becomes of the reader after an event.
LEMMA OnwardReader ==
  ASSUME NEW r \in LoopReaders
  PROVE  onward(r) \in LoopReaders /\ onward(r).event = r.event /\ (onward(r).at = "end" => terminal(r.event))
         /\ onward(r).at \in {"end", "read"}
  BY DEF onward, LoopReaders

LEMMA RefusedReader ==
  ASSUME reader \in LoopReaders, NEW err \in {"canceled", "write", "limit"}
  PROVE  refused(err) \in LoopReaders /\ refused(err).refused
  <1> DEFINE r == [reader EXCEPT !.refused = TRUE, !.downstream = TRUE, !.err = err]
             q == [reader EXCEPT !.refused = TRUE, !.at = "end", !.err = err]
  <1>1. r \in LoopReaders /\ r.refused /\ q \in LoopReaders /\ q.refused
    BY DEF LoopReaders
  <1>2. onward(r) \in LoopReaders /\ onward(r).refused
    <2>1. onward(r) \in LoopReaders
      BY <1>1, OnwardReader
    <2>2. onward(r) = [r EXCEPT !.at = "end"] \/ onward(r) = [r EXCEPT !.at = "read"]
      BY DEF onward
    <2> HIDE DEF r
    <2>3. onward(r).refused = r.refused
      BY <1>1, <2>2 DEF LoopReaders
    <2> QED
      BY <1>1, <2>1, <2>3
  <1>3. refused(err) = onward(r) \/ refused(err) = q
    BY DEF refused
  <1> HIDE DEF r, q
  <1> QED
    BY <1>1, <1>2, <1>3

\* Only contexts end.
LEMMA ContextsMove ==
  ASSUME ExchangeInv, ExchangeTypeOK', UNCHANGED <<shape, detached, body, reader, loop, closer, deciding>>,
         upCtx' = upCtx \/ upCtx' = "done"
  PROVE  ExchangeInv'
  BY DEF ExchangeInv, Unbegun, ClosedInOrder, WholeAttached, GoodEnd, GoodOutcome, LoopUndisturbed, RecordStands,
         deciding, terminal

\* The reader moves on, perhaps the loop with it; nothing good has been said of a stream that is not over.
LEMMA ReaderMoves ==
  ASSUME ExchangeInv, reader.at # "stopped", shape # "none", reader' \in LoopReaders, GoodEnd',
         UNCHANGED <<shape, detached, contexts, body, closer, outcome, exchangeClosed, record>>,
         UNCHANGED loop \/ (loop \in {"select", "yielding"} /\ loop' \in {"select", "yielding", "waiting"}),
         tokens' = tokens \/ (tokens' \in BOOLEAN /\ ~exchangeClosed)
  PROVE  ExchangeInv'
  BY DEF ExchangeInv, ExchangeTypeOK, Unbegun, ClosedInOrder, WholeAttached, GoodEnd, GoodOutcome,
         LoopUndisturbed, RecordStands, contexts, terminal

\* The loop moves on, perhaps with a verdict, and leaves the stream for good or to the reader.
LEMMA LoopMoves ==
  ASSUME ExchangeInv, shape # "none",
         UNCHANGED <<shape, detached, contexts, body, reader, closer, exchangeClosed, tokens, record>>,
         loop' \in {"closing", "returned", "completed"} \/ (loop = "select" /\ loop' = "draining"),
         UNCHANGED outcome \/ (~exchangeClosed /\ outcome' \in Results \ {"success", "incomplete"})
  PROVE  ExchangeInv'
  BY DEF ExchangeInv, ExchangeTypeOK, Unbegun, ClosedInOrder, WholeAttached, GoodEnd, GoodOutcome,
         LoopUndisturbed, RecordStands, contexts, terminal

\* Closing begins: because the context has ended, or after the loop has left the stream.
LEMMA ClosingBegins ==
  ASSUME ExchangeInv, shape # "none", closeBegins, UNCHANGED <<shape, detached, body, reader, deciding>>, entryCtx' = entryCtx,
         (UNCHANGED loop /\ (afterFunc \/ loop = "closing")) \/ loop' = "over"
  PROVE  ExchangeInv'
  BY DEF closeBegins, afterFunc, upstreamDone, deciding, ExchangeInv, ExchangeTypeOK, Unbegun, ClosedInOrder, WholeAttached, GoodEnd, GoodOutcome,
         LoopUndisturbed, RecordStands, terminal

\* An exchange that has begun: in every state a thread can act in.
LEMMA Begun ==
  ASSUME ExchangeInv, loop # "off" \/ reader.at # "off" \/ closer # "idle"
  PROVE  shape # "none"
  BY DEF ExchangeInv, Unbegun

LEMMA TrackStep ==
  ASSUME ExchangeInv, NEW s \in {"stream", "collected", "whole"}, NEW codex \in BOOLEAN, NEW ok \in BOOLEAN,
         trackExchange(s, codex, ok)
  PROVE  ExchangeInv'
  <1>1. reader \in LoopReaders
    BY DEF ExchangeInv, ExchangeTypeOK
  <1>2. reader' \in LoopReaders /\ reader'.at \in {"read", "stopped"}
    BY <1>1 DEF trackExchange, LoopReaders
  <1> QED
    BY <1>2 DEF trackExchange, contexts, ExchangeInv, ExchangeTypeOK, Unbegun, ClosedInOrder, WholeAttached, GoodEnd, GoodOutcome,
       LoopUndisturbed, RecordStands, Results, terminal

\* Contexts and clocks.
LEMMA ContextSteps ==
  ASSUME ExchangeInv,
         clientCancels \/ timeOver \/ deadline \/ stopRuntime \/ runtimeStopsEntry \/ upstreamEnds
  PROVE  ExchangeInv'
  <1>1. UNCHANGED <<shape, detached, body, reader, loop, closer, deciding>>
    BY DEF clientCancels, timeOver, deadline, clientEnds, stopRuntime, runtimeStopsEntry, upstreamEnds
  <1>2. upCtx' = upCtx \/ upCtx' = "done"
    BY DEF clientCancels, timeOver, deadline, clientEnds, stopRuntime, runtimeStopsEntry, upstreamEnds
  <1>3. entryCtx' \in {entryCtx, "canceled", "deadline"}
    BY DEF clientCancels, timeOver, deadline, clientEnds, stopRuntime, runtimeStopsEntry, upstreamEnds
  <1>4. ExchangeTypeOK'
    BY <1>1, <1>2, <1>3 DEF ExchangeInv, ExchangeTypeOK, deciding
  <1> QED
    BY <1>1, <1>2, <1>4, ContextsMove

\* Closing.
LEMMA CloseSteps ==
  ASSUME ExchangeInv, contextCloses \/ closeBody \/ close
  PROVE  ExchangeInv'
  <1>1. CASE contextCloses
    BY <1>1, ClosingBegins DEF contextCloses
  <1>2. CASE closeBody
    BY <1>2 DEF closeBody, contexts, deciding, ExchangeInv, ExchangeTypeOK, Unbegun, ClosedInOrder, WholeAttached, GoodEnd, GoodOutcome,
       LoopUndisturbed, RecordStands, terminal
  <1>3. CASE close
    <2>1. shape # "none"
      BY <1>3, Begun DEF close
    <2>2. outcome' = outcome \/ outcome' \in Results \ {"success", "incomplete"}
      <3>1. entryCtx # "live" => entryCtx \in {"canceled", "deadline"}
        BY DEF ExchangeInv, ExchangeTypeOK
      <3> QED
        BY <1>3, <3>1, ClassifyFails DEF close, ExchangeInv
    <2>3. record'.on /\ record'.outcome = outcome' /\ record'.tokens = tokens
      BY <1>3 DEF close, finish
    <2> QED
      BY <1>3, <2>1, <2>2, <2>3 DEF close, contexts, ExchangeInv, ExchangeTypeOK, Unbegun, ClosedInOrder, WholeAttached, GoodEnd, GoodOutcome,
       LoopUndisturbed, RecordStands, terminal
  <1> QED
    BY <1>1, <1>2, <1>3

\* The reader.
LEMMA ReadSteps ==
  ASSUME ExchangeInv,
         (\E event \in {"delta", "completed", "incomplete", "failed"} : readSSE(event)) \/ requireTerminal \/ readEvents
  PROVE  ExchangeInv'
  <1>1. reader \in LoopReaders
    BY DEF ExchangeInv, ExchangeTypeOK
  <1>2. ASSUME NEW event \in {"delta", "completed", "incomplete", "failed"}, readSSE(event) PROVE ExchangeInv'
    <2>1. reader.at = "read" /\ reader' \in LoopReaders /\ reader'.at = "observe"
      <3> DEFINE left == IF event = "delta" THEN reader.left - 1 ELSE reader.left
      <3>1. reader.at = "read" /\ (event = "delta" => reader.left > 0)
            /\ reader' = [reader EXCEPT !.at = "observe", !.event = event, !.left = left]
        BY <1>2 DEF readSSE
      <3>2. left \in Nat
        BY <1>1, <3>1 DEF LoopReaders
      <3> HIDE DEF left
      <3> QED
        BY <1>1, <3>1, <3>2 DEF LoopReaders
    <2> QED
      BY <1>2, <2>1, Begun, ReaderMoves DEF readSSE, deciding, GoodEnd
  <1>3. CASE requireTerminal
    <2>1. reader.at = "read" /\ reader' \in LoopReaders /\ reader'.err = "interrupted"
      BY <1>1, <1>3 DEF requireTerminal, LoopReaders
    <2> QED
      BY <1>3, <2>1, Begun, ReaderMoves DEF requireTerminal, deciding, GoodEnd
  <1>4. CASE readEvents
    <2>1. /\ reader.at = "observe" /\ tokens' = (tokens \/ observe)
          /\ UNCHANGED <<shape, detached, contexts, body, loop, closer, outcome, exchangeClosed, record>>
      BY <1>4 DEF readEvents
    <2>2. tokens' = tokens \/ (tokens' \in BOOLEAN /\ ~exchangeClosed)
      BY <2>1 DEF observe, ExchangeInv, ExchangeTypeOK
    <2>3. reader' \in LoopReaders /\ GoodEnd'
      <3>1. CASE reader.event = "failed"
        <4>1. reader' = [reader EXCEPT !.at = "end", !.err = "interrupted"]
          BY <1>4, <3>1 DEF readEvents
        <4> QED
          BY <1>1, <4>1 DEF LoopReaders, GoodEnd
      <3>2. CASE reader.event # "failed" /\ reader.downstream
        <4>1. reader' = onward(reader)
          BY <1>4, <3>2 DEF readEvents
        <4> QED
          BY <1>1, <4>1, OnwardReader DEF GoodEnd
      <3>3. CASE reader.event # "failed" /\ ~reader.downstream
        <4>1. reader' = [reader EXCEPT !.at = "offer"]
          BY <1>4, <3>3 DEF readEvents
        <4> QED
          BY <1>1, <4>1 DEF LoopReaders, GoodEnd
      <3> QED
        BY <3>1, <3>2, <3>3
    <2> QED
      BY <2>1, <2>2, <2>3, Begun, ReaderMoves
  <1> QED
    BY <1>2, <1>3, <1>4

\* What the client takes and refuses.
LEMMA DeliverySteps ==
  ASSUME ExchangeInv, yieldStopped \/ takeEvent \/ \E err \in {"none", "write", "limit"} : yield(err)
  PROVE  ExchangeInv'
  <1>1. reader \in LoopReaders
    BY DEF ExchangeInv, ExchangeTypeOK
  <1>2. \A err \in {"canceled", "write", "limit"} : refused(err) \in LoopReaders /\ refused(err).refused
    BY <1>1, RefusedReader
  <1>3. CASE yieldStopped
    <2>1. reader.at \in {"offer", "reply"} /\ reader' = refused("canceled")
      BY <1>3 DEF yieldStopped
    <2> QED
      BY <1>2, <1>3, <2>1, Begun, ReaderMoves DEF yieldStopped, deciding, GoodEnd
  <1>4. CASE takeEvent
    <2>1. reader.at = "offer" /\ loop = "select" /\ loop' \in {"yielding", "waiting"}
      BY <1>4 DEF takeEvent
    <2>2. reader' = refused("canceled") \/ reader' = [reader EXCEPT !.at = "reply"]
      BY <1>4 DEF takeEvent
    <2>3. reader' \in LoopReaders /\ GoodEnd'
      BY <1>1, <1>2, <2>2 DEF LoopReaders, GoodEnd
    <2> QED
      BY <1>4, <2>1, <2>3, Begun, ReaderMoves DEF takeEvent, deciding
  <1>5. ASSUME NEW err \in {"none", "write", "limit"}, yield(err) PROVE ExchangeInv'
    <2>1. /\ loop = "yielding" /\ loop' \in {"select", "waiting"}
          /\ UNCHANGED <<shape, detached, contexts, body, closer, deciding>>
      BY <1>5 DEF yield
    <2>2. CASE reader.at # "reply"
      BY <1>5, <2>1, <2>2 DEF yield, contexts, deciding, ExchangeInv, ExchangeTypeOK, Unbegun, ClosedInOrder, WholeAttached, GoodEnd, GoodOutcome,
       LoopUndisturbed, RecordStands, terminal
    <2>3. CASE reader.at = "reply"
      <3>1. reader' = IF err = "none" THEN onward(reader) ELSE refused(err)
        BY <1>5, <2>3 DEF yield
      <3>2. reader' \in LoopReaders /\ GoodEnd'
        <4>1. CASE err = "none"
          BY <1>1, <3>1, <4>1, OnwardReader DEF GoodEnd
        <4>2. CASE err # "none"
          BY <1>2, <1>5, <3>1, <4>2 DEF GoodEnd
        <4> QED
          BY <4>1, <4>2
      <3> QED
        BY <2>1, <2>3, <3>2, Begun, ReaderMoves DEF deciding
    <2> QED
      BY <2>2, <2>3
  <1> QED
    BY <1>3, <1>4, <1>5

\* The end of the stream gives the outcome, unless the exchange is closed.
LEMMA EventsStep ==
  ASSUME ExchangeInv, Events
  PROVE  ExchangeInv'
  <1>1. /\ reader.at = "end" /\ reader' = [reader EXCEPT !.at = "stopped"] /\ outcome' = settled
        /\ UNCHANGED <<shape, detached, contexts, body, loop, closer, exchangeClosed, tokens, record, fault>>
    BY DEF Events
  <1>2. reader \in LoopReaders
    BY DEF ExchangeInv, ExchangeTypeOK
  <1>3. /\ reader' \in LoopReaders /\ reader'.at = "stopped" /\ reader'.event = reader.event
        /\ reader'.refused = reader.refused
    BY <1>1, <1>2 DEF LoopReaders
  <1>4. /\ streamEnd \in Results
        /\ streamEnd \in {"success", "incomplete"} => terminal(reader.event) /\ ~reader.refused
    <2>1. CASE ~reader.refused /\ reader.err = "none"
      BY <1>1, <2>1 DEF streamEnd, ExchangeInv, GoodEnd, Results
    <2>2. CASE ~reader.refused /\ reader.err # "none"
      <3>1. reader.err \in {"interrupted", "canceled", "write", "limit"}
        BY <1>2, <2>2 DEF LoopReaders
      <3>2. classify(reader.err) \in Results \ {"success", "incomplete"}
        BY <3>1, ClassifyFails DEF ExchangeInv
      <3> QED
        BY <2>2, <3>2 DEF streamEnd
    <2>3. CASE reader.refused
      <3>1. entryCtx # "live" => classify(entryCtx) \in Results \ {"success", "incomplete"}
        BY ClassifyFails DEF ExchangeInv, ExchangeTypeOK
      <3>2. CASE entryCtx # "live"
        BY <2>3, <3>1, <3>2 DEF streamEnd
      <3>3. CASE entryCtx = "live"
        BY <2>3, <3>3 DEF streamEnd, Results
      <3> QED
        BY <3>2, <3>3
    <2> QED
      BY <1>2, <2>1, <2>2, <2>3 DEF LoopReaders
  <1>5. outcome' = IF exchangeClosed THEN outcome ELSE streamEnd
    BY <1>1 DEF settled
  <1>6. shape # "none"
    BY <1>1, Begun
  <1> HIDE DEF streamEnd
  <1> QED
    BY <1>1, <1>3, <1>4, <1>5, <1>6 DEF contexts, ExchangeInv, ExchangeTypeOK, Unbegun, ClosedInOrder, WholeAttached, GoodEnd, GoodOutcome,
       LoopUndisturbed, RecordStands, terminal

\* The loop and the handler.
LEMMA LoopSteps ==
  ASSUME ExchangeInv, loopDone \/ heartbeat \/ idle \/ contextDone
  PROVE  ExchangeInv'
  <1>1. loop # "off" /\ shape # "none"
    BY Begun DEF loopDone, heartbeat, idle, contextDone
  <1>2. classify("canceled") \in Results \ {"success", "incomplete"} /\ classify("deadline") \in Results \ {"success", "incomplete"}
    BY ClassifyFails DEF ExchangeInv
  <1>3. CASE loopDone
    BY <1>1, <1>3, LoopMoves DEF loopDone, deciding
  <1>4. CASE heartbeat
    BY <1>1, <1>2, <1>4, LoopMoves DEF heartbeat, gone, failExchange
  <1>5. CASE idle
    BY <1>1, <1>2, <1>5, LoopMoves DEF idle, failExchange
  <1>6. CASE contextDone
    BY <1>1, <1>2, <1>6, LoopMoves DEF contextDone, gone, failExchange
  <1> QED
    BY <1>3, <1>4, <1>5, <1>6

LEMMA CompleteStep ==
  ASSUME ExchangeInv, Complete
  PROVE  ExchangeInv'
  <1>1. shape # "none"
    BY Begun DEF Complete
  <1>2. classify("interrupted") \in Results \ {"success", "incomplete"}
    BY ClassifyFails DEF ExchangeInv
  <1> QED
    BY <1>1, <1>2, LoopMoves DEF Complete, failExchange

LEMMA WholeStep ==
  ASSUME ExchangeInv, NEW result \in {"success", "incomplete", "interrupted"}, AcceptWhole(result)
  PROVE  ExchangeInv'
  <1>1. /\ loop = "whole" /\ loop' = "returned" /\ shape = "whole"
        /\ UNCHANGED <<shape, detached, contexts, body, reader, closer, exchangeClosed, record>>
    BY DEF AcceptWhole, ExchangeInv, WholeAttached
  <1>2. classify("interrupted") \in Results
    BY ClassifyFails DEF ExchangeInv
  <1>3. outcome' = outcome \/ (~exchangeClosed /\ outcome' \in Results)
    BY <1>2 DEF AcceptWhole, failExchange, AcceptMessage, Results
  <1>4. tokens' = tokens \/ (tokens' \in BOOLEAN /\ ~exchangeClosed)
    BY DEF AcceptWhole, AcceptMessage, ExchangeInv, ExchangeTypeOK
  <1> QED
    BY <1>1, <1>3, <1>4 DEF contexts, ExchangeInv, ExchangeTypeOK, Unbegun, ClosedInOrder, WholeAttached, GoodEnd, GoodOutcome,
       LoopUndisturbed, RecordStands, terminal

LEMMA HandlerSteps ==
  ASSUME ExchangeInv, consumeEvents \/ handlerCloses
  PROVE  ExchangeInv'
  <1>1. shape # "none"
    BY Begun DEF consumeEvents, handlerCloses
  <1>2. CASE consumeEvents
    <2>1. CASE closeBegins /\ UNCHANGED loop
      BY <1>1, <1>2, <2>1, ClosingBegins DEF consumeEvents
    <2>2. CASE loop' = "returned" /\ UNCHANGED <<closer, upCtx>>
      BY <1>1, <1>2, <2>2 DEF consumeEvents, deciding, ExchangeInv, ExchangeTypeOK, Unbegun, ClosedInOrder, WholeAttached, GoodEnd, GoodOutcome,
       LoopUndisturbed, RecordStands, terminal
    <2> QED
      BY <1>2, <2>1, <2>2 DEF consumeEvents
  <1>3. CASE handlerCloses
    <2>1. CASE closeBegins
      BY <1>1, <1>3, <2>1, ClosingBegins DEF handlerCloses
    <2>2. CASE closer # "idle" /\ UNCHANGED <<closer, upCtx>>
      BY <1>1, <1>3, <2>2 DEF handlerCloses, deciding, ExchangeInv, ExchangeTypeOK, Unbegun, ClosedInOrder, WholeAttached, GoodEnd, GoodOutcome,
       LoopUndisturbed, RecordStands, terminal
    <2> QED
      BY <1>3, <2>1, <2>2 DEF handlerCloses
  <1> QED
    BY <1>2, <1>3

LEMMA ExchangeStep == ExchangeInv /\ [ExchangeNext]_exchangeVars => ExchangeInv'
  <1> SUFFICES ASSUME ExchangeInv, [ExchangeNext]_exchangeVars PROVE ExchangeInv'
    OBVIOUS
  <1>1. CASE UNCHANGED exchangeVars
    BY <1>1 DEF exchangeVars, ExchangeInv, ExchangeTypeOK, Unbegun, ClosedInOrder, WholeAttached, GoodEnd, GoodOutcome,
       LoopUndisturbed, RecordStands, terminal
  <1>2. CASE ExchangeNext
    BY <1>2, TrackStep, ContextSteps, CloseSteps, ReadSteps, DeliverySteps, EventsStep, LoopSteps, CompleteStep,
       WholeStep, HandlerSteps DEF ExchangeNext
  <1> QED
    BY <1>1, <1>2

\* What is recorded of a request and charged for it stands, a success is recorded only of a response that was
\* finished and taken to its end, and a drain is left alone until its grace, its deadline or the gateway ends it:
\* for any number of events and every order in which the reader, the loop, the contexts and the handler close
\* (close, Events, consumeEvents, drainingUpstreamContext).
THEOREM ExchangesAreWhole == ExchangeSpec => []ExchangeKept
  <1>1. ExchangeInv => ExchangeKept
    BY DEF ExchangeInv, ExchangeTypeOK, ClosedInOrder, GoodOutcome, LoopUndisturbed, RecordStands, SuccessIsWhole,
           DrainUndisturbed, ExchangeKept
  <1> QED
    BY <1>1, ExchangeInitial, ExchangeStep, PTL DEF ExchangeSpec

\* Where the reader and the loop can be together.  A reader that was refused never offers an event again, one that
\* is replied to has the loop at it, and the loop leaves the stream only after the reader.
Together ==
  /\ client \in {"live", "canceled", "deadline"} /\ expired \in BOOLEAN /\ shutdown \in BOOLEAN
  /\ client # "live" => entryCtx # "live"
  /\ shape # "none" => loop # "off" /\ reader.at # "off"
  /\ closer = "done" => record.on /\ body = "closed"
  /\ closer = "bodyClosed" => body = "closed"
  /\ reader.downstream => reader.at \notin {"offer", "reply"}
  /\ reader.refused => reader.downstream \/ reader.at \in {"end", "stopped"}
  /\ reader.at = "reply" => loop = "yielding"
  /\ loop = "yielding" => reader.at = "reply" \/ reader.refused
  /\ loop = "waiting" => reader.refused
  /\ loop \in {"whole", "returned", "completed", "over"} => reader.at = "stopped"

\* Before the response neither has begun.
LEMMA TogetherInitial == ExchangeInit => Together
  <1> SUFFICES ASSUME ExchangeInit PROVE Together
    OBVIOUS
  <1>1. reader.at = "off" /\ ~reader.refused /\ ~reader.downstream
    BY DEF ExchangeInit
  <1> QED
    BY <1>1 DEF ExchangeInit, Together

\* A reader that goes on ...
LEMMA OnwardGoes ==
  ASSUME NEW r \in LoopReaders
  PROVE  /\ onward(r).at \in {"end", "read"} /\ onward(r).refused = r.refused /\ onward(r).downstream = r.downstream
  <1>1. onward(r) = [r EXCEPT !.at = "end"] \/ onward(r) = [r EXCEPT !.at = "read"]
    BY DEF onward
  <1> QED
    BY <1>1 DEF LoopReaders

\* ... or was refused.
LEMMA RefusedGoes ==
  ASSUME reader \in LoopReaders, NEW err \in {"canceled", "write", "limit"}
  PROVE  /\ refused(err).at \in {"end", "read"} /\ refused(err).refused
         /\ refused(err).downstream \/ refused(err).at = "end"
  <1> DEFINE r == [reader EXCEPT !.refused = TRUE, !.downstream = TRUE, !.err = err]
             s == [reader EXCEPT !.refused = TRUE, !.at = "end", !.err = err]
  <1>1. r \in LoopReaders /\ r.refused /\ r.downstream /\ s.refused /\ s.at = "end"
    BY DEF LoopReaders
  <1>2. refused(err) = onward(r) \/ refused(err) = s
    BY DEF refused
  <1> HIDE DEF r, s
  <1> QED
    BY <1>1, <1>2, OnwardGoes

\* Every step of a thread leaves them together.
LEMMA TogetherStep == ExchangeInv /\ Together /\ [ExchangeNext]_exchangeVars => Together'
  <1> SUFFICES ASSUME ExchangeInv, Together, [ExchangeNext]_exchangeVars PROVE Together'
    OBVIOUS
  <1>15. reader \in LoopReaders
    BY DEF ExchangeInv, ExchangeTypeOK
  <1>16. closer \in {"idle", "released", "bodyClosed", "done"} /\ (closer \in {"idle", "released"} => body = "open")
    BY DEF ExchangeInv, ExchangeTypeOK, ClosedInOrder
  <1>1. CASE UNCHANGED exchangeVars
    BY <1>1 DEF exchangeVars, Together
  <1>2. ASSUME NEW s \in {"stream", "collected", "whole"}, NEW codex \in BOOLEAN, NEW ok \in BOOLEAN, trackExchange(s, codex, ok)
        PROVE  Together'
    <2>1. reader' = [reader EXCEPT !.at = IF ok /\ s # "whole" THEN "read" ELSE "stopped"]
      BY <1>2 DEF trackExchange
    <2>2. /\ reader'.at = (IF ok /\ s # "whole" THEN "read" ELSE "stopped")
          /\ reader'.refused = reader.refused /\ reader'.downstream = reader.downstream
      BY <1>15, <2>1 DEF LoopReaders
    <2>3. loop = "off" /\ reader.at = "off"
      BY <1>2 DEF trackExchange, ExchangeInv, Unbegun
    <2> QED
      BY <1>2, <2>2, <2>3 DEF trackExchange, contexts, Together
  <1>3. CASE clientCancels \/ deadline \/ timeOver \/ stopRuntime \/ runtimeStopsEntry \/ upstreamEnds
    BY <1>3 DEF clientCancels, deadline, clientEnds, timeOver, stopRuntime, runtimeStopsEntry, upstreamEnds, deciding, Together
  <1>4. CASE contextCloses \/ closeBody \/ close
    BY <1>4, <1>16 DEF contextCloses, closeBegins, closeBody, close, finish, contexts, deciding, Together
  <1>5. ASSUME NEW event \in {"delta", "completed", "incomplete", "failed"}, readSSE(event) PROVE Together'
    <2>1. reader.at = "read" /\ reader'.at = "observe" /\ reader'.refused = reader.refused /\ reader'.downstream = reader.downstream
      BY <1>5, <1>15 DEF readSSE, LoopReaders
    <2> QED
      BY <1>5, <2>1 DEF readSSE, contexts, deciding, Together
  <1>6. CASE requireTerminal
    <2>1. reader.at = "read" /\ reader'.at = "end" /\ reader'.refused = reader.refused /\ reader'.downstream = reader.downstream
      BY <1>6, <1>15 DEF requireTerminal, LoopReaders
    <2> QED
      BY <1>6, <2>1 DEF requireTerminal, contexts, deciding, Together
  <1>7. CASE readEvents
    <2>1. /\ reader.at = "observe" /\ reader'.refused = reader.refused /\ reader'.downstream = reader.downstream
          /\ reader'.at \in (IF reader.downstream THEN {"end", "read"} ELSE {"end", "offer"})
      <3>1. \/ reader' = [reader EXCEPT !.at = "end", !.err = "interrupted"]
            \/ reader.downstream /\ reader' = onward(reader)
            \/ ~reader.downstream /\ reader' = [reader EXCEPT !.at = "offer"]
        BY <1>7 DEF readEvents
      <3>2. reader.at = "observe"
        BY <1>7 DEF readEvents
      <3> QED
        BY <1>15, <3>1, <3>2, OnwardGoes DEF LoopReaders
    <2>2. ~reader.refused \/ reader.downstream
      BY <2>1 DEF Together
    <2> QED
      BY <1>7, <2>1, <2>2 DEF readEvents, contexts, deciding, Together
  <1>8. CASE yieldStopped
    <2>1. /\ reader'.at \in {"end", "read"} /\ reader'.refused /\ (reader'.downstream \/ reader'.at = "end")
          /\ reader.at \in {"offer", "reply"}
      BY <1>8, <1>15, RefusedGoes DEF yieldStopped
    <2> QED
      BY <1>8, <2>1 DEF yieldStopped, contexts, deciding, Together
  <1>9. CASE Events
    <2>1. reader'.at = "stopped" /\ reader'.refused = reader.refused /\ reader'.downstream = reader.downstream /\ reader.at = "end"
      BY <1>9, <1>15 DEF Events, LoopReaders
    <2> QED
      BY <1>9, <2>1 DEF Events, contexts, Together
  <1>10. CASE takeEvent
    <2>1. CASE client = "live"
      <3>1. reader'.at = "reply" /\ reader'.refused = reader.refused /\ reader'.downstream = reader.downstream /\ loop' = "yielding"
        BY <1>10, <1>15, <2>1 DEF takeEvent, LoopReaders
      <3>2. reader.at = "offer"
        BY <1>10 DEF takeEvent
      <3> QED
        BY <1>10, <2>1, <3>1, <3>2 DEF takeEvent, contexts, deciding, Together
    <2>2. CASE client # "live"
      <3>1. /\ reader'.at \in {"end", "read"} /\ reader'.refused /\ (reader'.downstream \/ reader'.at = "end")
            /\ loop' = "waiting"
        BY <1>10, <1>15, <2>2, RefusedGoes DEF takeEvent
      <3> QED
        BY <1>10, <3>1 DEF takeEvent, contexts, deciding, Together
    <2> QED
      BY <2>1, <2>2
  <1>11. ASSUME NEW err \in {"none", "write", "limit"}, yield(err) PROVE Together'
    <2>1. CASE reader.at # "reply"
      BY <1>11, <2>1 DEF yield, contexts, deciding, Together
    <2>2. CASE reader.at = "reply" /\ err = "none"
      <3>1. /\ reader'.at \in {"end", "read"} /\ reader'.refused = reader.refused /\ reader'.downstream = reader.downstream
            /\ loop' = "select"
        BY <1>11, <1>15, <2>2, OnwardGoes DEF yield
      <3>2. ~reader.refused \/ reader.downstream
        BY <2>2 DEF Together
      <3> QED
        BY <1>11, <3>1, <3>2 DEF yield, contexts, deciding, Together
    <2>3. CASE reader.at = "reply" /\ err # "none"
      <3>1. /\ reader'.at \in {"end", "read"} /\ reader'.refused /\ (reader'.downstream \/ reader'.at = "end")
            /\ loop' = "waiting"
        BY <1>11, <1>15, <2>3, RefusedGoes DEF yield
      <3> QED
        BY <1>11, <3>1 DEF yield, contexts, deciding, Together
    <2> QED
      BY <2>1, <2>2, <2>3
  <1>12. CASE loopDone \/ heartbeat \/ idle \/ contextDone
    BY <1>12 DEF loopDone, heartbeat, idle, contextDone, gone, contexts, deciding, Together
  <1>13. CASE consumeEvents \/ handlerCloses
    BY <1>13, <1>16 DEF consumeEvents, handlerCloses, closeBegins, deciding, Together
  <1>14. CASE (\E result \in {"success", "incomplete", "interrupted"} : AcceptWhole(result)) \/ Complete
    BY <1>14 DEF AcceptWhole, Complete, contexts, Together
  <1> QED
    BY <1>1, <1>2, <1>3, <1>4, <1>5, <1>6, <1>7, <1>8, <1>9, <1>10, <1>11, <1>12, <1>13, <1>14 DEF ExchangeNext

\* Wherever the reader and the loop can be, one of them can move until the loop is over.
LEMMA StopsOver == ExchangeInv /\ Together => StopsWhenOver
  <1> SUFFICES ASSUME ExchangeInv, Together, shape # "none", client # "live" \/ expired \/ shutdown, ~movable
               PROVE  record.on /\ loop = "over"
    BY DEF StopsWhenOver
  <1>1. entryCtx # "live"
    BY DEF movable, Together
  <1>2. upstreamDone
    BY <1>1 DEF movable, drainingUpstreamContext, upstreamDone, ExchangeInv, ExchangeTypeOK
  <1>3. closer = "done"
    BY <1>2 DEF movable, ExchangeInv, ExchangeTypeOK
  <1>4. record.on /\ body = "closed"
    BY <1>3 DEF Together
  <1>5. reader.at \in {"offer", "reply", "stopped"}
    <2>1. reader.at \in {"off", "read", "observe", "offer", "reply", "end", "stopped"}
      BY DEF ExchangeInv, ExchangeTypeOK, LoopReaders
    <2> QED
      BY <1>4, <2>1 DEF movable, Together
  <1>6. loop \in {"off", "whole", "select", "yielding", "waiting", "draining", "closing", "returned", "completed", "over"}
    BY DEF ExchangeInv, ExchangeTypeOK
  <1>7. reader.at = "stopped"
    <2>1. reader.at # "reply"
      BY DEF movable, Together
    <2>2. reader.at # "offer"
      BY <1>6 DEF movable, operationDone, Together
    <2> QED
      BY <1>5, <2>1, <2>2
  <1>8. loop = "over"
    BY <1>3, <1>6, <1>7 DEF movable, Together
  <1> QED
    BY <1>4, <1>8

\* However the client, the deadline and the shutdown fall, the reader, the loop, the closing callback and the
\* handler never wait for each other: an exchange that is to end and in which nothing can move has been recorded
\* (consumeEvents, Events, close).
THEOREM ExchangesEnd == ExchangeSpec => []StopsWhenOver
  <1>1. ExchangeInv /\ Together => StopsWhenOver
    BY StopsOver
  <1> QED
    BY <1>1, ExchangeInitial, ExchangeStep, TogetherInitial, TogetherStep, PTL DEF ExchangeSpec
=============================================================================
