----------------------------- MODULE UsageCache -----------------------------
(* What the gateway knows of one account's quota: internal/gateway/usage.go,  *)
(* observation.go and quota.go.                                               *)
(*                                                                            *)
(* A reading comes from a poll of the provider, which runs without the lock,  *)
(* or from the response to a request.  It is kept in account_usage under the  *)
(* revision of the account, and in an entry of the cache that a later         *)
(* revision replaces, while the polls of the older entry go on.  The quota is *)
(* one window of one limit.  The clock counts ticks, two of them a second;    *)
(* readings are ordered by the tick they began at and dated in seconds.       *)
EXTENDS Naturals, FiniteSets

CONSTANTS
  UsageSlots,                              \* polls and redemptions at a time
  Requests,
  UsageTTL, WindowSeconds,                 \* in seconds
  Cooldown, Backoff,                       \* in ticks
  Full,                                    \* the quota
  MaxUsageTime,                            \* bound: the clock
  MaxUsageEvents                           \* bound: requests, use, changes of the account, warm-ups, failures and restarts

ASSUME UsageAssumption ==
  /\ {UsageSlots, UsageTTL, Cooldown, Backoff, Full, MaxUsageTime, MaxUsageEvents} \subseteq Nat
  /\ WindowSeconds \in Nat \ {0}

VARIABLES
  usable, usageRevision,    \* enabled and authorized; models_revision + usage_revision
  usageRow,                 \* account_usage
  entry,                    \* the cache's entry
  polls,                    \* fetchUsage, by slot
  redemption,               \* RedeemResetCredit
  requests,                 \* requests at the provider: their revision, their beginning, what their response reported
  warm,                     \* warmUsage: the row it read
  consumed,                 \* external: the use of the quota in this window
  usageClock,
  since,                    \* history: when this revision began
  usageLeft,                \* what is left of the bound
  crossed                   \* history: warmUsage put a row into the cache that had changed since it was read

usageVars == <<usable, usageRevision, usageRow, entry, polls, redemption, requests, warm, consumed, usageClock, since, usageLeft, crossed>>

NoReading == [on |-> FALSE]
NoEntry == [on |-> FALSE]
NoPoll == [on |-> FALSE]
NoRequest == [on |-> FALSE]
Slots == 1..UsageSlots

UsageInit ==
  /\ usable = TRUE /\ usageRevision = 1
  /\ usageRow = [revision |-> 0, reading |-> NoReading]
  /\ entry = NoEntry
  /\ polls = [p \in Slots |-> NoPoll]
  /\ redemption = [phase |-> "off", slot |-> 0]
  /\ requests = [r \in Requests |-> NoRequest]
  /\ warm = [phase |-> "off"]
  /\ consumed = 0 /\ usageClock = 0 /\ since = 0 /\ crossed = FALSE
  /\ usageLeft = MaxUsageEvents

spendUsage == usageLeft > 0 /\ usageLeft' = usageLeft - 1

second == usageClock \div 2
windowEnd == (second \div WindowSeconds + 1) * WindowSeconds
-----------------------------------------------------------------------------
(* The entry and the row.                                                     *)

mGetAccountUsage == [revision |-> usageRevision, reading |-> usageRow.reading]
GetAccountUsage ==
  [revision |-> usageRevision, reading |-> IF usageRow.revision = usageRevision THEN usageRow.reading ELSE NoReading]

\* The entry after load: an entry of another revision is replaced by what the row says.
load(row) ==
  IF entry.on /\ entry.revision = row.revision THEN entry
  ELSE [on |-> TRUE, revision |-> row.revision, reading |-> row.reading, failed |-> FALSE, flight |-> 0,
        retryAt |-> IF row.reading.on THEN 2 * row.reading.updated + Cooldown ELSE 0]

\* A poll keeps the entry it was begun for: `seen` is what that entry held when it was replaced.
keptBy(row) ==
  [p \in Slots |-> IF polls[p].on /\ ~polls[p].orphan /\ entry.revision # row.revision
                   THEN [polls[p] EXCEPT !.orphan = TRUE, !.seen = entry.reading] ELSE polls[p]]

expiresAt(reading) ==
  IF reading.reset > reading.updated /\ reading.reset < reading.updated + UsageTTL
  THEN reading.reset ELSE reading.updated + UsageTTL

snapshotState(e) == e.failed \/ second >= expiresAt(e.reading)

SaveAccountUsage(revision, reading) ==
  /\ usable /\ revision = usageRevision
  /\ usageRow.revision # revision \/ reading.updated >= usageRow.reading.updated

quotaStatus(reading) ==
  IF ~reading.on THEN "unknown"
  ELSE IF second >= expiresAt(reading) \/ reading.reset <= second THEN "stale"
  ELSE IF reading.used >= Full THEN "exhausted" ELSE "available"
-----------------------------------------------------------------------------
(* Polls.                                                                     *)

acquireUsage(p) == ~polls[p].on /\ redemption.slot # p

\* A poll begins, or the gateway or the cache has no slot for it.
begun(e) ==
  \/ \E p \in Slots :
       /\ acquireUsage(p) /\ \A q \in Slots : q < p => ~acquireUsage(q)
       /\ entry' = [e EXCEPT !.flight = p, !.retryAt = usageClock + Cooldown]
       /\ polls' = [keptBy(e) EXCEPT ![p] = [on |-> TRUE, revision |-> e.revision, started |-> usageClock, answered |-> FALSE,
                                             reset |-> 0, used |-> 0, orphan |-> FALSE, seen |-> NoReading]]
  \/ /\ entry' = [e EXCEPT !.failed = TRUE, !.retryAt = usageClock + Cooldown]
     /\ polls' = keptBy(e)

ask(force) ==
  \E e \in {load(GetAccountUsage)} :
    IF e.flight = 0 /\ (force \/ ~e.reading.on \/ snapshotState(e)) /\ usageClock >= e.retryAt
    THEN begun(e) ELSE entry' = e /\ polls' = keptBy(e)

usageSnapshot(force) ==
  /\ usable /\ ask(force)
  /\ UNCHANGED <<usable, usageRevision, usageRow, redemption, requests, warm, consumed, usageClock, since, usageLeft, crossed>>

\* The provider answers a poll.
usageAnswer(p) ==
  /\ polls[p].on /\ ~polls[p].answered
  /\ polls' = [polls EXCEPT ![p].answered = TRUE, ![p].reset = windowEnd, ![p].used = consumed]
  /\ UNCHANGED <<usable, usageRevision, usageRow, entry, redemption, requests, warm, consumed, usageClock, since, usageLeft, crossed>>

polled(p) == [on |-> TRUE, started |-> polls[p].started, updated |-> second, reset |-> polls[p].reset, used |-> polls[p].used]
held(p) == IF polls[p].orphan THEN polls[p].seen ELSE entry.reading
landed(p, e) == IF polls[p].orphan THEN UNCHANGED entry ELSE entry' = [e EXCEPT !.flight = 0]

mOvertaken(p) == FALSE
\* A response was read after this poll began.
overtaken(p) == held(p).on /\ held(p).started > polls[p].started

\* The end of a poll; `answered` may still be followed by an error, of the provider or of the database.
fetchUsage(p, ok) ==
  /\ polls[p].on /\ (ok => polls[p].answered)
  /\ IF ok THEN UNCHANGED usageLeft ELSE spendUsage
  /\ polls' = [polls EXCEPT ![p] = NoPoll]
  /\ IF ok /\ usable /\ overtaken(p)
     THEN landed(p, [entry EXCEPT !.retryAt = usageClock + Cooldown]) /\ UNCHANGED usageRow
     ELSE IF ok /\ SaveAccountUsage(polls[p].revision, polled(p))
     THEN /\ usageRow' = [revision |-> polls[p].revision, reading |-> polled(p)]
          /\ landed(p, [entry EXCEPT !.reading = polled(p), !.failed = FALSE, !.retryAt = usageClock + Cooldown])
     ELSE landed(p, [entry EXCEPT !.failed = TRUE, !.retryAt = usageClock + Backoff]) /\ UNCHANGED usageRow
  /\ UNCHANGED <<usable, usageRevision, redemption, requests, warm, consumed, usageClock, since, crossed>>

\* Traffic reads the rows of its pool before it takes the lock.
warmRead ==
  /\ warm.phase = "off" /\ usable /\ spendUsage
  /\ warm' = [phase |-> "read", row |-> GetAccountUsage]
  /\ UNCHANGED <<usable, usageRevision, usageRow, entry, polls, redemption, requests, consumed, usageClock, since, crossed>>

warmLoad ==
  /\ warm.phase = "read"
  /\ entry' = load(warm.row) /\ polls' = keptBy(warm.row)
  /\ crossed' = (crossed \/ (entry' # entry /\ warm.row # GetAccountUsage))
  /\ warm' = [phase |-> IF entry'.flight = 0 /\ usageClock >= entry'.retryAt /\ (~entry'.reading.on \/ snapshotState(entry'))
                        THEN "ask" ELSE "off"]
  /\ UNCHANGED <<usable, usageRevision, usageRow, redemption, requests, consumed, usageClock, since, usageLeft>>

warmUsage ==
  /\ warm.phase = "ask"
  /\ warm' = [phase |-> "off"]
  /\ IF usable THEN ask(FALSE) ELSE UNCHANGED <<entry, polls>>
  /\ UNCHANGED <<usable, usageRevision, usageRow, redemption, requests, consumed, usageClock, since, usageLeft, crossed>>

\* Other accounts push the entry out of the cache.
evict ==
  /\ entry.on /\ entry.flight = 0 /\ spendUsage
  /\ entry' = NoEntry
  /\ UNCHANGED <<usable, usageRevision, usageRow, polls, redemption, requests, warm, consumed, usageClock, since, crossed>>
-----------------------------------------------------------------------------
(* Responses.                                                                 *)

openRequest(r) ==
  /\ usable /\ ~requests[r].on /\ spendUsage
  /\ requests' = [requests EXCEPT ![r] = [on |-> TRUE, revision |-> usageRevision, started |-> usageClock, quota |-> NoReading]]
  /\ UNCHANGED <<usable, usageRevision, usageRow, entry, polls, redemption, warm, consumed, usageClock, since, crossed>>

\* Its headers or an event of its stream report the quota.
QuotaEvent(r) ==
  /\ requests[r].on
  /\ requests' = [requests EXCEPT ![r].quota =
       [on |-> TRUE, started |-> requests[r].started, updated |-> second, reset |-> windowEnd, used |-> consumed]]
  /\ UNCHANGED <<usable, usageRevision, usageRow, entry, polls, redemption, warm, consumed, usageClock, since, usageLeft, crossed>>

\* A response refreshes the reading of a window that is known and open; it never begins one.
refreshes(value, revision, e) ==
  /\ e.revision = revision /\ e.reading.on
  /\ value.started > e.reading.started /\ value.updated >= e.reading.updated
  /\ value.reset = e.reading.reset /\ value.reset > value.updated
  /\ value.used >= e.reading.used

observeUsage(value, revision) ==
  \E e \in {load(GetAccountUsage)} :
    /\ polls' = keptBy(e)
    /\ IF refreshes(value, revision, e) /\ SaveAccountUsage(revision, value)
       THEN entry' = [e EXCEPT !.reading = value, !.failed = FALSE] /\ usageRow' = [revision |-> revision, reading |-> value]
       ELSE entry' = e /\ UNCHANGED usageRow

closeRequest(r, ok) ==
  /\ requests[r].on
  /\ requests' = [requests EXCEPT ![r] = NoRequest]
  /\ IF ok /\ requests[r].quota.on THEN observeUsage(requests[r].quota, requests[r].revision)
     ELSE UNCHANGED <<entry, polls, usageRow>>
  /\ UNCHANGED <<usable, usageRevision, redemption, warm, consumed, usageClock, since, usageLeft, crossed>>
-----------------------------------------------------------------------------
(* The account and the provider.                                              *)

newRevision == usageRevision' = usageRevision + 1 /\ since' = usageClock

\* Switched on or off, authorized again, given another proxy.
accountChanges(on) ==
  /\ newRevision /\ usable' = on /\ spendUsage
  /\ UNCHANGED <<usageRow, entry, polls, redemption, requests, warm, consumed, usageClock, crossed>>

\* Its credential is refused: no new revision until it is authorized again.
reauthRequired ==
  /\ usable /\ usable' = FALSE /\ spendUsage
  /\ UNCHANGED <<usageRevision, usageRow, entry, polls, redemption, requests, warm, consumed, usageClock, since, crossed>>

\* A redemption, or the replay of one that a stop of the process cut off.
beginRedeem ==
  /\ usable /\ redemption.slot = 0 /\ spendUsage
  /\ \E p \in Slots :
       /\ acquireUsage(p) /\ \A q \in Slots : q < p => ~acquireUsage(q)
       /\ redemption' = [phase |-> IF redemption.phase = "spent" THEN "spent" ELSE "called", slot |-> p]
  /\ UNCHANGED <<usable, usageRevision, usageRow, entry, polls, requests, warm, consumed, usageClock, since, crossed>>

\* external: the provider resets the quota.
ConsumeResetCredit ==
  /\ redemption.phase = "called"
  /\ redemption' = [redemption EXCEPT !.phase = "spent"] /\ consumed' = 0
  /\ UNCHANGED <<usable, usageRevision, usageRow, entry, polls, requests, warm, usageClock, since, usageLeft, crossed>>

mRedeem ==
  /\ redemption.slot # 0
  /\ redemption' = [phase |-> "off", slot |-> 0]
  /\ UNCHANGED <<usable, usageRevision, since, usageRow, entry, polls, requests, warm, consumed, usageClock, usageLeft, crossed>>

\* Whatever the provider answered, what was read before is fenced off.
RedeemResetCredit ==
  /\ redemption.slot # 0
  /\ redemption' = [phase |-> "off", slot |-> 0]
  /\ newRevision
  /\ UNCHANGED <<usable, usageRow, entry, polls, requests, warm, consumed, usageClock, usageLeft, crossed>>

use ==
  /\ consumed < Full /\ consumed' = consumed + 1 /\ spendUsage
  /\ UNCHANGED <<usable, usageRevision, usageRow, entry, polls, redemption, requests, warm, usageClock, since, crossed>>

usageTick ==
  /\ usageClock < MaxUsageTime /\ usageClock' = usageClock + 1
  /\ consumed' = IF usageClock' \div 2 >= windowEnd THEN 0 ELSE consumed
  /\ UNCHANGED <<usable, usageRevision, usageRow, entry, polls, redemption, requests, warm, since, usageLeft, crossed>>

\* The process starts again: the rows stay.
newUsageCache ==
  /\ entry' = NoEntry /\ polls' = [p \in Slots |-> NoPoll] /\ requests' = [r \in Requests |-> NoRequest]
  /\ warm' = [phase |-> "off"] /\ redemption' = [redemption EXCEPT !.slot = 0]
  /\ spendUsage
  /\ UNCHANGED <<usable, usageRevision, usageRow, consumed, usageClock, since, crossed>>

UsageNext ==
  \/ \E force \in BOOLEAN : usageSnapshot(force)
  \/ \E p \in Slots : usageAnswer(p) \/ \E ok \in BOOLEAN : fetchUsage(p, ok)
  \/ warmRead \/ warmLoad \/ warmUsage \/ evict
  \/ \E r \in Requests : openRequest(r) \/ QuotaEvent(r) \/ \E ok \in BOOLEAN : closeRequest(r, ok)
  \/ \E on \in BOOLEAN : accountChanges(on)
  \/ reauthRequired \/ beginRedeem \/ ConsumeResetCredit \/ RedeemResetCredit
  \/ use \/ usageTick \/ newUsageCache

UsageSpec == UsageInit /\ [][UsageNext]_usageVars
-----------------------------------------------------------------------------
(* Properties.                                                                *)

visible == GetAccountUsage.reading

\* Whatever the gateway reads of an account now was asked for after the account last changed: no poll and no
\* response that was under way when it was authorized again or a reset credit was spent shows through.
ReadUnderRevision == visible.on => visible.started >= since

\* An account is passed over for its quota only while its quota is used up: neither the end of the window nor
\* a redeemed reset credit leaves it excluded, once the redemption, or its replay after a restart, has returned.
ExhaustedIsTrue ==
  quotaStatus(visible) = "exhausted" /\ redemption.phase # "spent" => consumed >= Full

\* What readers are shown is what is stored, so that a restart shows the same: a reading is published when it
\* is committed, and not before.  (warmUsage reads its rows before it takes the lock: once it has put an
\* outdated one into the cache, the entry may be behind the row and a second poll may run.)
MemoryAsStored ==
  entry.on /\ entry.revision = usageRevision /\ ~crossed => entry.reading = visible

\* Every poll holds a slot, and the entry knows its own poll: nobody waits for a poll that does not run.
FlightsOwned ==
  /\ entry.on /\ entry.flight # 0 => polls[entry.flight].on /\ ~polls[entry.flight].orphan /\ polls[entry.flight].revision = entry.revision
  /\ \A p \in Slots : polls[p].on => redemption.slot # p

\* Readings replace one another in the order in which they were begun, whatever the order in which they
\* arrive, unless warmUsage put an outdated row into the cache.
ReadsInOrder ==
  [][usageRow.revision = usageRow'.revision /\ usageRow.reading.on /\ ~crossed'
       => usageRow'.reading.started >= usageRow.reading.started]_usageVars

\* A response neither begins a window nor lowers its use: only a poll does, unless warmUsage put an outdated
\* row into the cache.
ResponsesOnlyRaise ==
  [][\A r \in Requests :
       requests[r].on /\ ~requests'[r].on /\ usageRow'.revision = usageRow.revision /\ usageRow.reading.on /\ ~crossed
       => usageRow'.reading.reset = usageRow.reading.reset /\ usageRow'.reading.used >= usageRow.reading.used]_usageVars

\* What the gateway takes for an account's quota is of the present revision, stored, and no more exhausted
\* than the quota is; and nobody waits for a poll that does not run.
UsageTrue == ReadUnderRevision /\ ExhaustedIsTrue /\ MemoryAsStored /\ FlightsOwned

\* Readings replace one another in the order they were begun, and a response only raises the use.
ReadingsForward == ReadsInOrder /\ ResponsesOnlyRaise
=============================================================================
