------------------------------ MODULE Versions ------------------------------
(* The client version of one provider: internal/versions.                     *)
(*                                                                            *)
(* The version that requests announce is pinned by hand, or the newest        *)
(* release that a check found, or the built-in one.  At most one check runs;  *)
(* it asks for the newest release without the lock, while the settings change *)
(* and the service closes.  Versions are numbers in the order of `compare`,   *)
(* 0 is none.  Times are what is left of them, in ticks.  A check whose       *)
(* answer is not a stable version fails like one without an answer.           *)
EXTENDS Naturals

CONSTANTS
  LastVersion,                               \* versions are 1..LastVersion
  RetryTicks, FailTicks, SyncTicks,          \* manualCooldown, the wait after a failure, syncInterval
  MaxVersionEvents                           \* bound: saves, failures, releases and restarts together

ASSUME VersionAssumption == {LastVersion, RetryTicks, FailTicks, SyncTicks} \subseteq Nat

Versions == 1..LastVersion
Unset == 0
NoFlight == [on |-> FALSE]

VARIABLES
  stored,         \* the settings row: [manual, auto, latest, next, retry, failed]
  record,         \* Service.state
  current,        \* the version that is announced
  builtin,        \* the version this build was made with
  flight,         \* the running check
  generation,
  runtimeRetry, storageFailed,
  newest,         \* the newest release of the publisher
  quiet,          \* history: the wait that the last check asked for
  versionLeft     \* what is left of the bound

versionVars == <<stored, record, current, builtin, flight, generation, runtimeRetry, storageFailed, newest, quiet, versionLeft>>

NewRecord == [manual |-> Unset, auto |-> TRUE, latest |-> Unset, next |-> 0, retry |-> 0, failed |-> FALSE]

effective(value, fallback) ==
  IF value.manual # Unset THEN value.manual
  ELSE IF value.latest # Unset /\ value.latest >= fallback THEN value.latest
  ELSE fallback

VersionsInit ==
  /\ stored = NewRecord /\ record = NewRecord
  /\ builtin = 1 /\ current = 1 /\ newest = 1
  /\ flight = NoFlight /\ generation = 0
  /\ runtimeRetry = 0 /\ storageFailed = FALSE
  /\ quiet = 0
  /\ versionLeft = MaxVersionEvents

rare == versionLeft > 0 /\ versionLeft' = versionLeft - 1
larger(a, b) == IF a > b THEN a ELSE b

\* Publication follows the commit.
persist(value) ==
  /\ stored' = value
  /\ record' = value
  /\ current' = effective(value, builtin)
  /\ storageFailed' = FALSE /\ runtimeRetry' = 0

mSaveVersion(config) ==
  /\ rare
  /\ config # [manual |-> record.manual, auto |-> record.auto]
  /\ persist([record EXCEPT !.manual = config.manual, !.auto = config.auto])
  /\ IF ~config.auto /\ flight.on /\ ~flight.manual
     THEN flight' = [flight EXCEPT !.canceled = TRUE, !.off = TRUE]
     ELSE flight' = flight
  /\ quiet' = IF storageFailed THEN 0 ELSE quiet
  /\ UNCHANGED <<builtin, newest, generation>>

\* Switching automatic checks off cancels the automatic check that runs.
SaveVersion(config) ==
  /\ rare
  /\ config # [manual |-> record.manual, auto |-> record.auto]
  /\ persist([record EXCEPT !.manual = config.manual, !.auto = config.auto])
  /\ IF ~config.auto /\ flight.on /\ ~flight.manual
     THEN generation' = generation + 1 /\ flight' = [flight EXCEPT !.canceled = TRUE, !.off = TRUE]
     ELSE UNCHANGED <<generation, flight>>
  /\ quiet' = IF storageFailed THEN 0 ELSE quiet
  /\ UNCHANGED <<builtin, newest>>

\* A caller that finds a check running waits for it; one that asks too soon is refused.
Sync(manual) ==
  /\ manual \/ (record.auto /\ record.next = 0)
  /\ ~flight.on
  /\ larger(record.retry, runtimeRetry) = 0
  /\ flight' = [on |-> TRUE, manual |-> manual, generation |-> generation, canceled |-> FALSE, off |-> FALSE]
  /\ UNCHANGED <<stored, record, current, builtin, generation, runtimeRetry, storageFailed, newest, quiet, versionLeft>>

mChecked(value, latest) ==
  [value EXCEPT !.retry = RetryTicks, !.failed = FALSE, !.next = SyncTicks, !.latest = latest]

\* What a check writes: the answer and the next times, merged into the settings of this moment.
checked(value, latest) ==
  [value EXCEPT !.retry = RetryTicks, !.failed = FALSE, !.next = SyncTicks,
                !.latest = IF value.latest = Unset \/ latest > value.latest THEN latest ELSE @]

\* An answer that is an error may ask to wait.
releaseResponseError == {0, FailTicks + 1}

\* limit: what the publisher asked to wait, 0 when it did not.
checkFailed(value, limit) ==
  [value EXCEPT !.retry = larger(RetryTicks, limit), !.failed = TRUE,
                !.next = IF limit = 0 THEN FailTicks ELSE larger(FailTicks, larger(RetryTicks, limit))]

\* The newest stable release that the publisher lists.
Latest == newest

discarded == ~flight.manual /\ (~record.auto \/ flight.generation # generation)

\* The end of a check; storing what it found may fail, which leaves the settings and what is announced.
settle(value, saved) ==
  /\ quiet' = IF saved \/ value.retry < FailTicks THEN value.retry ELSE FailTicks
  /\ IF saved THEN persist(value)
     ELSE storageFailed' = TRUE /\ runtimeRetry' = FailTicks /\ UNCHANGED <<stored, record, current>>

check(answered, limit, saved) ==
  /\ flight.on
  /\ answered => ~flight.canceled /\ limit = 0
  /\ IF answered /\ saved THEN UNCHANGED versionLeft ELSE IF discarded THEN UNCHANGED versionLeft ELSE rare
  /\ flight' = NoFlight
  /\ IF discarded THEN UNCHANGED <<stored, record, current, runtimeRetry, storageFailed, quiet>>
     ELSE IF answered THEN settle(checked(record, Latest), saved)
     ELSE settle(checkFailed(record, limit), saved)
  /\ UNCHANGED <<builtin, generation, newest>>

\* Close waits for the check, which writes nothing any more; New reads the row again, in a build that may be newer.
NewForProvider(version) ==
  /\ rare
  /\ version >= builtin
  /\ builtin' = version
  /\ record' = stored /\ current' = effective(stored, version)
  /\ flight' = NoFlight /\ generation' = 0
  /\ runtimeRetry' = 0 /\ storageFailed' = FALSE
  /\ quiet' = stored.retry
  /\ UNCHANGED <<stored, newest>>

\* The publisher moves its release forward, or takes one back.
publishRelease(version) ==
  /\ rare /\ version # newest
  /\ newest' = version
  /\ UNCHANGED <<stored, record, current, builtin, flight, generation, runtimeRetry, storageFailed, quiet>>

sooner(n) == IF n = 0 THEN 0 ELSE n - 1
pass(value) == [value EXCEPT !.next = sooner(@), !.retry = sooner(@)]

versionTick ==
  /\ stored' = pass(stored) /\ record' = pass(record)
  /\ runtimeRetry' = sooner(runtimeRetry) /\ quiet' = sooner(quiet)
  /\ <<stored, record, runtimeRetry, quiet>>' # <<stored, record, runtimeRetry, quiet>>
  /\ UNCHANGED <<current, builtin, flight, generation, storageFailed, newest, versionLeft>>

VersionsNext ==
  \/ \E manual \in Versions \cup {Unset}, auto \in BOOLEAN : SaveVersion([manual |-> manual, auto |-> auto])
  \/ \E manual \in BOOLEAN : Sync(manual)
  \/ \E answered, saved \in BOOLEAN, limit \in releaseResponseError : check(answered, limit, saved)
  \/ \E v \in Versions : NewForProvider(v) \/ publishRelease(v)
  \/ versionTick

\* A check that is not canceled finds the release and stores it.
checkEnds == flight.on /\ check(~flight.canceled, 0, TRUE)

VersionsSpec == VersionsInit /\ [][VersionsNext]_versionVars
-----------------------------------------------------------------------------
(* Properties.                                                                *)

\* The record in memory is the stored one and what is announced is its version, whatever write failed and
\* whenever the service closed.
AnnouncedAsStored == record = stored /\ current = effective(stored, builtin)

\* The version announced goes back only when a pin is set or removed, although a release may be withdrawn
\* and checks may overlap with a change of the settings.
NoDowngrade == [][current' < current => record'.manual # record.manual]_versionVars

\* An automatic check that was switched off while it ran changes nothing when it ends, not even after the
\* automatic checks were switched on again.
SwitchedOffChecksDiscarded ==
  [][flight.on /\ flight.off /\ ~flight'.on => UNCHANGED <<stored, record>>]_versionVars

\* No check begins in the wait that the previous one asked for, even when that wait could not be stored: then
\* the process keeps its own, up to FailTicks of it, until it ends or the settings are saved.
ChecksSpaced == [][~flight.on /\ flight'.on => quiet = 0]_versionVars

\* What is announced is what is stored and does not go back by itself; checks keep their distance, and one
\* that was switched off changes nothing.
VersionsSound == []AnnouncedAsStored /\ NoDowngrade /\ SwitchedOffChecksDiscarded /\ ChecksSpaced
=============================================================================
