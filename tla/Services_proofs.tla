-------------------------- MODULE Services_proofs --------------------------
(* Theorems about the services beside the gateway: the client version of one  *)
(* provider (Versions), the price list and the rates it gives (Prices), the   *)
(* notifications of one workspace (Alerts) and the gateways of all workspaces *)
(* (Registry).                                                                *)
(*                                                                            *)
(* Versions: the wait that a check asked for is in the record or, when it     *)
(* could not be stored, in the process; a check that was switched off is of   *)
(* an earlier generation.  Prices: a body is fetched for the digest that is   *)
(* saved with it.  Alerts: what a check sends is the row it read, as long as  *)
(* the event of the row is the same; whatever the check did not see failing   *)
(* was seen well since it began; and no period is fired that is not past.     *)
(* Registry: OneGateway rests on the exact reference count (Counted), and     *)
(* that Close leaves nothing open on every runtime built being accounted for  *)
(* (Places) and on the order in which Close joins the reaper (Shutdown).      *)
EXTENDS Registry, Alerts, Versions, Prices, FiniteSetTheorems, TLAPS

(* The client version.                                                        *)

Settings == [manual : Nat, auto : BOOLEAN, latest : Nat, next : Nat, retry : Nat, failed : BOOLEAN]
Flights == [on : BOOLEAN, manual : BOOLEAN, generation : Nat, canceled : BOOLEAN, off : BOOLEAN]

VersionTypes ==
  /\ stored \in Settings /\ record \in Settings
  /\ current \in Nat /\ builtin \in Nat /\ newest \in Nat
  /\ generation \in Nat /\ runtimeRetry \in Nat /\ quiet \in Nat
  /\ storageFailed \in BOOLEAN
  /\ flight = NoFlight \/ flight \in Flights

\* A check that was switched off is of an earlier generation.
OffIsEarlier ==
  flight.on => /\ flight.generation <= generation
               /\ flight.off => ~flight.manual /\ flight.generation < generation

\* The wait is kept: in the record, or in the process when it could not be stored.
WaitIsKept ==
  /\ quiet <= larger(record.retry, runtimeRetry)
  /\ ~storageFailed => quiet <= record.retry

VersionsInv == VersionTypes /\ AnnouncedAsStored /\ OffIsEarlier /\ WaitIsKept

LEMMA VersionsInitOK == VersionsInit => VersionsInv
  <1> SUFFICES ASSUME VersionsInit PROVE VersionsInv
    OBVIOUS
  <1>1. NewRecord \in Settings
    BY DEF NewRecord, Settings, Unset
  <1>2. effective(NewRecord, 1) = 1 /\ NewRecord.retry = 0
    BY DEF effective, NewRecord, Unset
  <1>3. VersionTypes
    BY <1>1 DEF VersionsInit, VersionTypes
  <1>4. AnnouncedAsStored /\ OffIsEarlier
    BY <1>2 DEF VersionsInit, AnnouncedAsStored, OffIsEarlier, NoFlight
  <1>5. WaitIsKept
    BY <1>2 DEF VersionsInit, WaitIsKept, larger
  <1> QED
    BY <1>3, <1>4, <1>5 DEF VersionsInv

\* What a change of the settings, an answer, a failure and a tick make of the record.
LEMMA SavedRecord ==
  ASSUME NEW r \in Settings, NEW m \in Nat, NEW a \in BOOLEAN
  PROVE  LET new == [r EXCEPT !.manual = m, !.auto = a]
         IN  new \in Settings /\ new.manual = m /\ new.latest = r.latest /\ new.retry = r.retry
  BY DEF Settings

LEMMA CheckedRecord ==
  ASSUME NEW r \in Settings, NEW v \in Nat
  PROVE  /\ checked(r, v) \in Settings /\ checked(r, v).manual = r.manual
         /\ checked(r, v).latest = IF r.latest = Unset \/ v > r.latest THEN v ELSE r.latest
  BY VersionAssumption DEF Settings, checked

LEMMA FailedRecord ==
  ASSUME NEW r \in Settings, NEW limit \in releaseResponseError
  PROVE  checkFailed(r, limit) \in Settings /\ checkFailed(r, limit).manual = r.manual /\ checkFailed(r, limit).latest = r.latest
  <1> DEFINE retry == larger(RetryTicks, limit)
             next == IF limit = 0 THEN FailTicks ELSE larger(FailTicks, retry)
  <1>1. retry \in Nat /\ next \in Nat
    BY VersionAssumption DEF releaseResponseError, larger
  <1>2. checkFailed(r, limit) = [r EXCEPT !.retry = retry, !.failed = TRUE, !.next = next]
    BY DEF checkFailed
  <1> HIDE DEF retry, next
  <1> QED
    BY <1>1, <1>2 DEF Settings

LEMMA PassedRecord ==
  ASSUME NEW r \in Settings
  PROVE  /\ pass(r) \in Settings /\ pass(r).manual = r.manual /\ pass(r).latest = r.latest /\ pass(r).retry = sooner(r.retry)
  <1>1. sooner(r.retry) \in Nat /\ sooner(r.next) \in Nat
    BY DEF Settings, sooner
  <1>2. pass(r) = [r EXCEPT !.next = sooner(r.next), !.retry = sooner(r.retry)]
    BY DEF pass
  <1> HIDE DEF sooner
  <1> QED
    BY <1>1, <1>2 DEF Settings

LEMMA CanceledFlight ==
  ASSUME NEW f \in Flights, NEW yes \in BOOLEAN
  PROVE  /\ [f EXCEPT !.canceled = yes, !.off = yes] \in Flights
         /\ [f EXCEPT !.canceled = yes, !.off = yes].generation = f.generation
         /\ [f EXCEPT !.canceled = yes, !.off = yes].manual = f.manual
  BY DEF Flights

\* Storing a record announces its version.
LEMMA PersistOK ==
  ASSUME NEW value \in Settings, builtin \in Nat, persist(value)
  PROVE  /\ stored' = value /\ record' = value /\ current' = effective(value, builtin) /\ current' \in Nat
         /\ storageFailed' = FALSE /\ runtimeRetry' = 0
  BY DEF persist, effective, Settings

LEMMA SaveVersionOK ==
  ASSUME VersionsInv, NEW m \in Nat, NEW a \in BOOLEAN, SaveVersion([manual |-> m, auto |-> a])
  PROVE  VersionsInv' /\ (current' < current => record'.manual # record.manual)
  <1> USE DEF VersionsInv
  <1> DEFINE config == [manual |-> m, auto |-> a]
             new == [record EXCEPT !.manual = m, !.auto = a]
             off == [flight EXCEPT !.canceled = TRUE, !.off = TRUE]
  <1>1. /\ persist(new)
        /\ IF ~a /\ flight.on /\ ~flight.manual THEN generation' = generation + 1 /\ flight' = off
           ELSE UNCHANGED <<generation, flight>>
        /\ quiet' = (IF storageFailed THEN 0 ELSE quiet) /\ UNCHANGED <<builtin, newest>>
    BY DEF SaveVersion
  <1>2. new \in Settings /\ new.manual = m /\ new.latest = record.latest /\ new.retry = record.retry
    BY SavedRecord DEF VersionTypes
  <1> HIDE DEF new
  <1>3. /\ stored' = new /\ record' = new /\ current' = effective(new, builtin) /\ current' \in Nat
        /\ storageFailed' = FALSE /\ runtimeRetry' = 0
    BY <1>1, <1>2, PersistOK DEF VersionTypes
  <1>4. flight.on => off \in Flights /\ off.generation = flight.generation /\ off.manual = flight.manual
    <2>1. TRUE \in BOOLEAN /\ (flight.on => flight \in Flights)
      BY DEF VersionTypes, NoFlight
    <2> QED
      BY <2>1, CanceledFlight
  <1> HIDE DEF off
  <1>5. VersionTypes'
    <2>1. flight' = NoFlight \/ flight' \in Flights
      BY <1>1, <1>4 DEF VersionTypes
    <2>2. generation' \in Nat /\ quiet' \in Nat
      BY <1>1 DEF VersionTypes
    <2> QED
      BY <1>1, <1>2, <1>3, <2>1, <2>2 DEF VersionTypes
  <1>6. AnnouncedAsStored'
    BY <1>1, <1>3 DEF AnnouncedAsStored
  <1>7. flight.on => flight.generation \in Nat
    <2>1. flight.on => flight \in Flights
      BY DEF VersionTypes, NoFlight
    <2> QED
      BY <2>1 DEF Flights
  <1>8. OffIsEarlier'
    BY <1>1, <1>4, <1>7 DEF OffIsEarlier, VersionTypes
  <1>9. WaitIsKept'
    BY <1>1, <1>2, <1>3 DEF WaitIsKept, VersionTypes, Settings, larger
  <1>10. new.manual = record.manual => current' = current
    BY <1>2, <1>3 DEF AnnouncedAsStored, effective
  <1> QED
    BY <1>3, <1>5, <1>6, <1>8, <1>9, <1>10 DEF VersionTypes

LEMMA SyncOK ==
  ASSUME VersionsInv, NEW manual \in BOOLEAN, Sync(manual)
  PROVE  VersionsInv' /\ quiet = 0 /\ UNCHANGED <<current, record, stored>>
  <1> USE DEF VersionsInv
  <1> DEFINE new == [on |-> TRUE, manual |-> manual, generation |-> generation, canceled |-> FALSE, off |-> FALSE]
  <1>1. /\ flight' = new /\ larger(record.retry, runtimeRetry) = 0
        /\ UNCHANGED <<stored, record, current, builtin, generation, runtimeRetry, storageFailed, newest, quiet, versionLeft>>
    BY DEF Sync
  <1>2. new \in Flights /\ new.generation = generation /\ new.off = FALSE
    BY DEF VersionTypes, Flights
  <1> HIDE DEF new
  <1>3. VersionTypes'
    BY <1>1, <1>2 DEF VersionTypes
  <1>4. AnnouncedAsStored' /\ WaitIsKept' /\ OffIsEarlier'
    BY <1>1, <1>2 DEF AnnouncedAsStored, WaitIsKept, OffIsEarlier, VersionTypes
  <1>5. quiet = 0
    BY <1>1 DEF WaitIsKept, VersionTypes
  <1> QED
    BY <1>1, <1>3, <1>4, <1>5

\* The end of a check that is not discarded.
LEMMA SettleOK ==
  ASSUME VersionsInv, NEW value \in Settings, NEW saved \in BOOLEAN, settle(value, saved), flight' = NoFlight,
         value.manual = record.manual,
         value.latest = record.latest \/ value.latest > record.latest, UNCHANGED <<builtin, generation, newest>>
  PROVE  VersionsInv' /\ (current' < current => record'.manual # record.manual)
  <1> USE DEF VersionsInv
  <1>1. quiet' = (IF saved \/ value.retry < FailTicks THEN value.retry ELSE FailTicks) /\ quiet' \in Nat /\ value.retry \in Nat
    BY VersionAssumption DEF settle, Settings
  <1>2. CASE saved
    <2>1. /\ stored' = value /\ record' = value /\ current' = effective(value, builtin) /\ current' \in Nat
          /\ storageFailed' = FALSE /\ runtimeRetry' = 0
      BY <1>2, PersistOK DEF settle, VersionTypes
    <2>2. VersionTypes'
      BY <1>1, <2>1 DEF VersionTypes
    <2>3. AnnouncedAsStored' /\ OffIsEarlier' /\ WaitIsKept'
      BY <1>1, <1>2, <2>1 DEF AnnouncedAsStored, OffIsEarlier, NoFlight, WaitIsKept, larger
    <2>4. current <= current'
      BY <2>1 DEF AnnouncedAsStored, effective, VersionTypes, Settings, Unset
    <2> QED
      BY <2>1, <2>2, <2>3, <2>4 DEF VersionTypes
  <1>3. CASE ~saved
    <2>1. storageFailed' = TRUE /\ runtimeRetry' = FailTicks /\ UNCHANGED <<stored, record, current>>
      BY <1>3 DEF settle
    <2>2. VersionTypes'
      BY <1>1, <2>1, VersionAssumption DEF VersionTypes
    <2>3. AnnouncedAsStored' /\ OffIsEarlier'
      BY <2>1 DEF AnnouncedAsStored, OffIsEarlier, NoFlight
    <2>4. WaitIsKept'
      BY <1>1, <1>3, <2>1, VersionAssumption DEF WaitIsKept, larger, VersionTypes, Settings
    <2> QED
      BY <2>1, <2>2, <2>3, <2>4 DEF VersionTypes
  <1> QED
    BY <1>2, <1>3

LEMMA CheckOK ==
  ASSUME VersionsInv, NEW answered \in BOOLEAN, NEW saved \in BOOLEAN, NEW limit \in releaseResponseError,
         check(answered, limit, saved)
  PROVE  /\ VersionsInv' /\ (current' < current => record'.manual # record.manual)
         /\ flight.off => UNCHANGED <<stored, record>>
         /\ ~flight'.on
  <1> USE DEF VersionsInv
  <1>1. flight.on /\ flight' = NoFlight /\ UNCHANGED <<builtin, generation, newest>>
    BY DEF check
  <1>2. record \in Settings /\ newest \in Nat
    BY DEF VersionTypes
  <1>3. CASE discarded
    <2>1. UNCHANGED <<stored, record, current, runtimeRetry, storageFailed, quiet>>
      BY <1>3 DEF check
    <2> QED
      BY <1>1, <2>1 DEF VersionTypes, AnnouncedAsStored, OffIsEarlier, NoFlight, WaitIsKept
  <1>4. CASE ~discarded
    <2>1. ~flight.off
      BY <1>1, <1>4 DEF OffIsEarlier, discarded, VersionTypes, Flights, NoFlight
    <2>2. CASE answered
      <3>1. settle(checked(record, newest), saved)
        BY <1>4, <2>2 DEF check, Latest
      <3>2. /\ checked(record, newest) \in Settings /\ checked(record, newest).manual = record.manual
            /\ checked(record, newest).latest = IF record.latest = Unset \/ newest > record.latest THEN newest ELSE record.latest
        BY <1>2, CheckedRecord
      <3>3. checked(record, newest).latest = record.latest \/ checked(record, newest).latest > record.latest
        BY <1>2, <3>2 DEF Settings, Unset
      <3> QED
        BY <1>1, <2>1, <3>1, <3>2, <3>3, SettleOK DEF NoFlight
    <2>3. CASE ~answered
      <3>1. settle(checkFailed(record, limit), saved)
        BY <1>4, <2>3 DEF check
      <3>2. /\ checkFailed(record, limit) \in Settings /\ checkFailed(record, limit).manual = record.manual
            /\ checkFailed(record, limit).latest = record.latest
        BY <1>2, FailedRecord
      <3> QED
        BY <1>1, <2>1, <3>1, <3>2, SettleOK DEF NoFlight
    <2> QED
      BY <2>2, <2>3
  <1> QED
    BY <1>3, <1>4

LEMMA RestartOK ==
  ASSUME VersionsInv, NEW v \in Versions, NewForProvider(v)
  PROVE  VersionsInv' /\ current <= current' /\ ~flight'.on /\ UNCHANGED <<stored, record>>
  <1> USE DEF VersionsInv
  <1>1. /\ v >= builtin /\ builtin' = v /\ record' = stored /\ current' = effective(stored, v) /\ flight' = NoFlight
        /\ generation' = 0 /\ runtimeRetry' = 0 /\ storageFailed' = FALSE /\ quiet' = stored.retry /\ UNCHANGED <<stored, newest>>
    BY DEF NewForProvider
  <1>2. v \in Nat /\ stored.retry \in Nat /\ effective(stored, v) \in Nat
    BY VersionAssumption DEF Versions, VersionTypes, Settings, effective
  <1>3. VersionTypes'
    BY <1>1, <1>2 DEF VersionTypes
  <1>4. AnnouncedAsStored' /\ OffIsEarlier' /\ WaitIsKept'
    BY <1>1, <1>2 DEF AnnouncedAsStored, OffIsEarlier, NoFlight, WaitIsKept, larger
  <1>5. current <= current'
    BY <1>1, <1>2 DEF AnnouncedAsStored, VersionTypes, Settings, effective, Unset
  <1> QED
    BY <1>1, <1>3, <1>4, <1>5 DEF AnnouncedAsStored, NoFlight

LEMMA VersionTickOK == ASSUME VersionsInv, versionTick PROVE VersionsInv' /\ UNCHANGED <<current, flight>>
  <1> USE DEF VersionsInv
  <1>1. /\ stored' = pass(stored) /\ record' = pass(record) /\ runtimeRetry' = sooner(runtimeRetry) /\ quiet' = sooner(quiet)
        /\ UNCHANGED <<current, builtin, flight, generation, storageFailed, newest>>
    BY DEF versionTick
  <1>2. stored \in Settings /\ record = stored
    BY DEF VersionTypes, AnnouncedAsStored
  <1>3. /\ pass(stored) \in Settings /\ pass(stored).manual = stored.manual /\ pass(stored).latest = stored.latest
        /\ pass(stored).retry = sooner(stored.retry)
    BY <1>2, PassedRecord
  <1>4. VersionTypes'
    BY <1>1, <1>2, <1>3 DEF VersionTypes, sooner
  <1>5. AnnouncedAsStored' /\ OffIsEarlier'
    BY <1>1, <1>2, <1>3 DEF AnnouncedAsStored, OffIsEarlier, effective
  <1>6. WaitIsKept'
    BY <1>1, <1>2, <1>3 DEF WaitIsKept, VersionTypes, Settings, larger, sooner
  <1> QED
    BY <1>1, <1>4, <1>5, <1>6

NoDowngradeStep == current' < current => record'.manual # record.manual
DiscardedStep == flight.on /\ flight.off /\ ~flight'.on => UNCHANGED <<stored, record>>
SpacedStep == ~flight.on /\ flight'.on => quiet = 0

LEMMA VersionsNextOK ==
  ASSUME VersionsInv, [VersionsNext]_versionVars
  PROVE  VersionsInv' /\ NoDowngradeStep /\ DiscardedStep /\ SpacedStep
  <1> USE DEF NoDowngradeStep, DiscardedStep, SpacedStep
  <1>1. current \in Nat /\ (flight.on => flight \in Flights)
    BY DEF VersionsInv, VersionTypes, NoFlight
  <1>2. ASSUME NEW m \in Versions \cup {Unset}, NEW a \in BOOLEAN, SaveVersion([manual |-> m, auto |-> a])
        PROVE  VersionsInv' /\ NoDowngradeStep /\ DiscardedStep /\ SpacedStep
    <2>1. m \in Nat
      BY VersionAssumption DEF Versions, Unset
    <2>2. VersionsInv' /\ NoDowngradeStep
      BY <1>2, <2>1, SaveVersionOK
    <2>3. flight' = flight \/ (flight.on /\ flight' = [flight EXCEPT !.canceled = TRUE, !.off = TRUE])
      BY <1>2 DEF SaveVersion
    <2>4. flight'.on = flight.on
      BY <1>1, <2>3 DEF Flights
    <2> QED
      BY <2>2, <2>4
  <1>3. ASSUME NEW manual \in BOOLEAN, Sync(manual) PROVE VersionsInv' /\ NoDowngradeStep /\ DiscardedStep /\ SpacedStep
    BY <1>1, <1>3, SyncOK
  <1>4. ASSUME NEW answered \in BOOLEAN, NEW saved \in BOOLEAN, NEW limit \in releaseResponseError, check(answered, limit, saved)
        PROVE  VersionsInv' /\ NoDowngradeStep /\ DiscardedStep /\ SpacedStep
    BY <1>4, CheckOK
  <1>5. ASSUME NEW v \in Versions, NewForProvider(v) PROVE VersionsInv' /\ NoDowngradeStep /\ DiscardedStep /\ SpacedStep
    <2>1. VersionsInv' /\ current <= current' /\ ~flight'.on /\ UNCHANGED <<stored, record>>
      BY <1>5, RestartOK
    <2>2. current' \in Nat
      BY <2>1 DEF VersionsInv, VersionTypes
    <2> QED
      BY <1>1, <2>1, <2>2
  <1>6. CASE versionTick
    BY <1>1, <1>6, VersionTickOK
  <1>7. CASE UNCHANGED versionVars \/ \E v \in Versions : publishRelease(v)
    <2>1. /\ UNCHANGED <<stored, record, current, builtin, flight, generation, runtimeRetry, storageFailed, quiet>>
          /\ newest' \in Nat
      BY <1>7, VersionAssumption DEF publishRelease, versionVars, VersionsInv, VersionTypes, Versions
    <2>2. VersionsInv'
      BY <2>1 DEF VersionsInv, VersionTypes, AnnouncedAsStored, OffIsEarlier, WaitIsKept
    <2> QED
      BY <1>1, <2>1, <2>2
  <1> QED
    BY <1>2, <1>3, <1>4, <1>5, <1>6, <1>7 DEF VersionsNext

\* What is announced is stored, a wait is kept wherever it could be kept, and a check that was switched off is past.
THEOREM VersionsInvariance == VersionsSpec => []VersionsInv
  BY VersionsInitOK, VersionsNextOK, PTL DEF VersionsSpec

\* What is announced is what is stored and does not go back by itself; checks keep their distance, and one that was
\* switched off changes nothing (Service.check, Save, New), for any waits and any versions.
THEOREM VersionsAreSound == VersionsSpec => VersionsSound
  <1>1. VersionsInv => AnnouncedAsStored
    BY DEF VersionsInv
  <1>2. VersionsInv /\ [VersionsNext]_versionVars =>
          [NoDowngradeStep]_versionVars /\ [DiscardedStep]_versionVars /\ [SpacedStep]_versionVars
    BY VersionsNextOK
  <1> QED
    BY <1>1, <1>2, VersionsInvariance, PTL
    DEF VersionsSpec, VersionsSound, NoDowngrade, SwitchedOffChecksDiscarded, ChecksSpaced, NoDowngradeStep, DiscardedStep, SpacedStep
-----------------------------------------------------------------------------
(* The price list and the rates.                                              *)

\* A body is the one of the digest that is saved with it.
RefreshTypes ==
  \/ refresh = NoRefresh
  \/ \E h \in Documents \cup {NoDocument} : refresh = [phase |-> "hash", hash |-> h]
  \/ \E h \in Documents \cup {NoDocument}, p \in {"body", "cached"} : refresh = [phase |-> p, hash |-> h, body |-> h]

PricesInv == RefreshTypes /\ PricesOfOneDocument /\ digest \in Documents /\ published \in Documents

LEMMA PricesInitOK == PricesInit => PricesInv
  BY DEF PricesInit, PricesInv, RefreshTypes, PricesOfOneDocument

LEMMA PricesNextOK ==
  ASSUME PricesInv, [PricesNext]_priceVars
  PROVE  PricesInv'
  <1> USE DEF PricesInv
  <1>1. CASE fetchHash
    BY <1>1 DEF fetchHash, RefreshTypes, PricesOfOneDocument, publisher
  <1>2. CASE fetchBody
    BY <1>2 DEF fetchBody, RefreshTypes, PricesOfOneDocument, publisher, NoRefresh
  <1>3. CASE writeCache
    BY <1>3 DEF writeCache, RefreshTypes, PricesOfOneDocument, publisher, NoRefresh
  <1>4. CASE writeHash
    BY <1>4 DEF writeHash, RefreshTypes, PricesOfOneDocument, publisher, NoRefresh
  <1>5. CASE NewPrices
    BY <1>5 DEF NewPrices, RefreshTypes, PricesOfOneDocument, publisher
  <1>6. ASSUME NEW d \in Documents, publish(d) PROVE PricesInv'
    BY <1>6 DEF publish, RefreshTypes, PricesOfOneDocument
  <1>7. CASE refreshFails \/ publishDigest
    BY <1>7 DEF refreshFails, publishDigest, RefreshTypes, PricesOfOneDocument, publisher
  <1>8. CASE savePriced \/ startRevision \/ poolChanges \/ UNCHANGED priceVars
    <2>1. UNCHANGED <<published, digest, prices, cacheHash, refresh>>
      BY <1>8 DEF savePriced, startRevision, poolChanges, publisher, priceVars
    <2> QED
      BY <2>1 DEF RefreshTypes, PricesOfOneDocument
  <1> QED
    BY <1>1, <1>2, <1>3, <1>4, <1>5, <1>6, <1>7, <1>8 DEF PricesNext, refreshSteps

RatesKeptStep ==
  \A m \in Models :
    /\ nextRates' # nextRates /\ nextRates' # NoPrices
    /\ rates[m] # 0 \/ nextRates[m] # 0
    /\ m \in policy /\ \E a \in PoolAccounts : catalogs[a] = NotKnown \/ m \in catalogs[a]
    => nextRates'[m] # 0

\* A rate is kept by what applyPrices makes of the rates before, whatever the document and the catalogs say.
LEMMA RatesAreKept == ASSUME [PricesNext]_priceVars PROVE RatesKeptStep
  <1>1. CASE savePriced
    <2> SUFFICES ASSUME NEW m \in Models, rates[m] # 0 \/ nextRates[m] # 0, m \in policy,
                        NEW a \in PoolAccounts, catalogs[a] = NotKnown \/ m \in catalogs[a]
                 PROVE  nextRates'[m] # 0
      BY DEF RatesKeptStep
    <2> DEFINE previous == previousRates(rates, nextRates)
    <2>1. previous[m] # 0
      BY DEF previousRates
    <2>2. nextRates' = applyPrices(previous)
      BY <1>1 DEF savePriced
    <2> HIDE DEF previous
    <2>3. m \in loadPoolModelCatalog \/ unavailable
      <3>1. CASE catalogs[a] = NotKnown
        BY <3>1 DEF unavailable
      <3>2. CASE catalogs[a] # NotKnown
        <4>1. catalogs[a] \in {catalogs[b] : b \in {c \in PoolAccounts : catalogs[c] # NotKnown}} /\ m \in catalogs[a]
          BY <3>2
        <4>2. m \in UNION {catalogs[b] : b \in {c \in PoolAccounts : catalogs[c] # NotKnown}}
          BY <4>1, Zenon
        <4> QED
          BY <4>2, Zenon DEF loadPoolModelCatalog
      <3> QED
        BY <3>1, <3>2
    <2> QED
      BY <2>1, <2>2, <2>3 DEF applyPrices
  <1>2. CASE ~savePriced
    BY <1>2 DEF RatesKeptStep, PricesNext, refreshSteps, fetchHash, fetchBody, writeCache, writeHash, refreshFails, NewPrices,
       publish, publishDigest, startRevision, poolChanges, priceVars, pool
  <1> QED
    BY <1>1, <1>2

\* The prices in use are those of one document, and a saved rate outlives gaps in documents and catalogs
\* (pricing.refresh and New, applyPrices), for any documents, models and accounts.
THEOREM PricesAreSound == PricesSpec => PricesSound
  <1>1. PricesSpec => []PricesInv
    BY PricesInitOK, PricesNextOK, PTL DEF PricesSpec
  <1>2. PricesInv => PricesOfOneDocument
    BY DEF PricesInv
  <1>3. [PricesNext]_priceVars => [RatesKeptStep]_priceVars
    BY RatesAreKept
  <1> QED
    BY <1>1, <1>2, <1>3, PTL DEF PricesSpec, PricesSound, RatesKept, RatesKeptStep
-----------------------------------------------------------------------------
(* The notifications.                                                         *)

Rows == [event : Nat, active : BOOLEAN, delivered : BOOLEAN, attempts : 0..AttemptLimit, wait : 0..DelayLimit,
         failed : BOOLEAN, cycle : Nat]
Configs == [enabled : BOOLEAN, endpoint : Endpoints \cup {NoEndpoint}, seal : Nat, watch : BOOLEAN, tested : Nat]
Looking == [phase : {"looking"}, raw : Configs]
Looked == [phase : {"looked"}, raw : Configs, signals : SUBSET Keys, uncertain : SUBSET Keys, cycle : Nat]
Sends == [phase : {"sends"}, raw : Configs, sends : Nat, todo : SUBSET (Keys \X Rows)]
Sending == [phase : {"sending"}, raw : Configs, sends : Nat, todo : SUBSET (Keys \X Rows),
            key : Keys, row : Rows, answer : {"open", "ok", "failed"}, canceled : BOOLEAN]
TestFlights == [sending : BOOLEAN, endpoint : Endpoints, canceled : BOOLEAN]

CheckerType(x) == x = Idle \/ x \in Looking \/ x \in Looked \/ x \in Sends \/ x \in Sending

AlertTypes ==
  /\ alertConfig \in Configs /\ (alertConfig.enabled => alertConfig.endpoint \in Endpoints)
  /\ alertStates = [k \in Keys |-> alertStates[k]] /\ \A k \in Keys : alertStates[k] \in Rows
  /\ CheckerType(checker) /\ (testFlight = NoTest \/ testFlight \in TestFlights)
  /\ failing \subseteq Keys /\ unknown \subseteq CapacityKeys /\ cycle \in Nat /\ events \in Nat
  /\ told \in [Keys -> SUBSET Nat] /\ fired \in [Keys -> SUBSET Nat]

\* What a row of which nothing was ever sent says, and which periods were fired.
RowsPast ==
  \A k \in Keys :
    /\ alertStates[k].event = 0 => /\ ~alertStates[k].active /\ ~alertStates[k].delivered
                                   /\ alertStates[k].wait = 0 /\ alertStates[k].cycle = 0
    /\ alertStates[k].cycle <= cycle
    /\ \A n \in fired[k] : n <= alertStates[k].cycle

\* Two forms of a row of the same event.
SameEvent(r, s) == r.event = s.event /\ r.active = s.active /\ r.delivered = s.delivered /\ r.cycle = s.cycle

\* The row a check read is the row that is stored, or the rows were cleared since.
Follows(k, row) == SameEvent(row, alertStates[k]) \/ (alertStates[k].event = 0 /\ fired[k] = {})

Readable(k, row) == row.event # 0 /\ row.cycle <= cycle /\ (row.delivered => row.cycle \in told[k]) /\ Follows(k, row)

ToSend ==
  checker.phase \in {"sends", "sending"} =>
    /\ \A p \in checker.todo : Readable(p[1], p[2])
    /\ \A p, q \in checker.todo : p[1] = q[1] => p = q

OnItsWay ==
  checker.phase = "sending" =>
    /\ checker.row.event # 0 /\ Follows(checker.key, checker.row)
    /\ \A p \in checker.todo : p[1] # checker.key
    /\ checker.answer = "ok" /\ checker.row.active => checker.row.cycle \in told[checker.key]

\* What the check saw well was seen well since it began, and it looked in a period that is not of the future.
Evidence ==
  /\ checker.phase # "idle" => checker.raw.enabled /\ \A k \in Keys \ failing : k \in fine
  /\ checker.phase = "looked" =>
       /\ \A k \in Keys \ (checker.signals \cup checker.uncertain) :
            k \in fine \/ k \in BaseKeys \/ (k \in CapacityKeys /\ ~checker.raw.watch)
       /\ checker.cycle <= cycle /\ \A k \in Keys : alertStates[k].cycle <= checker.cycle

AlertsInv ==
  /\ AlertTypes /\ RowsPast /\ FlightsFollowSettings /\ AcknowledgedAsSent
  /\ ToSend /\ OnItsWay /\ Evidence

LEMMA CheckerIs ==
  ASSUME NEW x, CheckerType(x)
  PROVE  /\ x.phase \in {"idle", "looking", "looked", "sends", "sending"}
         /\ x.phase = "idle" => x = Idle
         /\ x.phase = "looking" => x \in Looking /\ x.raw \in Configs
         /\ x.phase = "looked" => x \in Looked /\ x.raw \in Configs /\ x.signals \in SUBSET Keys /\ x.uncertain \in SUBSET Keys /\ x.cycle \in Nat
         /\ x.phase = "sends" => x \in Sends /\ x.raw \in Configs /\ x.sends \in Nat /\ x.todo \in SUBSET (Keys \X Rows)
         /\ x.phase = "sending" =>
              /\ x \in Sending /\ x.raw \in Configs /\ x.sends \in Nat /\ x.todo \in SUBSET (Keys \X Rows)
              /\ x.key \in Keys /\ x.row \in Rows /\ x.answer \in {"open", "ok", "failed"} /\ x.canceled \in BOOLEAN
  BY DEF CheckerType, Idle, Looking, Looked, Sends, Sending

LEMMA NoRowIs == NoRow \in Rows /\ NoRow.event = 0 /\ ~NoRow.active /\ ~NoRow.delivered /\ NoRow.wait = 0 /\ NoRow.cycle = 0
  BY AlertsAssumption DEF NoRow, Rows

LEMMA AlertsInitOK == AlertsInit => AlertsInv
  <1> SUFFICES ASSUME AlertsInit PROVE AlertsInv
    OBVIOUS
  <1>1. AlertTypes
    BY NoRowIs DEF AlertsInit, AlertTypes, Configs, CheckerType
  <1>2. RowsPast /\ AcknowledgedAsSent
    BY NoRowIs DEF AlertsInit, RowsPast, AcknowledgedAsSent
  <1>3. FlightsFollowSettings /\ ToSend /\ OnItsWay /\ Evidence
    BY DEF AlertsInit, FlightsFollowSettings, ToSend, OnItsWay, Evidence, Idle, NoTest
  <1> QED
    BY <1>1, <1>2, <1>3 DEF AlertsInv

\* Inv is all that AlertsTrue says.
LEMMA AlertsInvIsTrue == AlertsInv => AlertsTrue
  <1> SUFFICES ASSUME AlertsInv PROVE AlertsTrue
    OBVIOUS
  <1>1. \A k \in Keys : alertStates[k].attempts \in 0..AttemptLimit /\ alertStates[k].wait \in 0..DelayLimit
    BY DEF AlertsInv, AlertTypes, Rows
  <1>2. \A k \in Keys : alertStates[k].event = 0 => alertStates[k].wait = 0 /\ ~pending(alertStates[k])
    <2>1. \A k \in Keys : alertStates[k].active \in BOOLEAN /\ alertStates[k].delivered \in BOOLEAN
      BY DEF AlertsInv, AlertTypes, Rows
    <2> QED
      BY <2>1 DEF AlertsInv, RowsPast, pending
  <1>3. checker.phase \in {"idle", "looking", "looked", "sends", "sending"}
    BY CheckerIs DEF AlertsInv, AlertTypes
  <1>4. alertConfig.enabled \in BOOLEAN /\ alertConfig.watch \in BOOLEAN /\ (alertConfig.enabled => alertConfig.endpoint \in Endpoints)
    BY DEF AlertsInv, AlertTypes, Configs
  <1> QED
    BY <1>1, <1>2, <1>3, <1>4 DEF AlertsInv, AlertsTrue, AlertsTypeOK

\* A check that begins, looks or ends.
LEMMA CheckerMovesOK ==
  ASSUME AlertsInv, NEW x, checker' = x, CheckerType(x), x.phase \in {"idle", "looking", "looked"},
         UNCHANGED <<alertConfig, alertStates, told, fired, failing, unknown, cycle, events>>,
         testFlight' = testFlight \/ testFlight' = NoTest, Evidence'
  PROVE  AlertsInv'
  <1> USE DEF AlertsInv
  <1>1. AlertTypes'
    BY DEF AlertTypes
  <1>2. RowsPast' /\ AcknowledgedAsSent'
    BY DEF RowsPast, AcknowledgedAsSent
  <1>3. FlightsFollowSettings' /\ ToSend' /\ OnItsWay'
    BY DEF FlightsFollowSettings, ToSend, OnItsWay, NoTest
  <1> QED
    BY <1>1, <1>2, <1>3

LEMMA BeginCheckOK == ASSUME AlertsInv, beginCheck PROVE AlertsInv'
  <1> DEFINE x == [phase |-> "looking", raw |-> alertConfig]
  <1>1. /\ checker' = x /\ alertConfig.enabled /\ fine' = Keys \ failing
        /\ UNCHANGED <<alertConfig, alertStates, testFlight, told, fired, failing, unknown, cycle, events>>
    BY DEF beginCheck, GetAlertConfig, world
  <1>2. CheckerType(x) /\ x.phase = "looking" /\ x.raw = alertConfig
    BY DEF CheckerType, Looking, AlertsInv, AlertTypes
  <1> HIDE DEF x
  <1>3. Evidence'
    BY <1>1, <1>2 DEF Evidence
  <1> QED
    BY <1>1, <1>2, <1>3, CheckerMovesOK

LEMMA LookOK == ASSUME AlertsInv, NEW f \in BOOLEAN, NEW g \in BOOLEAN, look(f, g) PROVE AlertsInv'
  <1> USE DEF AlertsInv
  <1> DEFINE c == observeCapacity(f)
             a == ThresholdAlerts(g)
             x == [phase |-> "looked", raw |-> checker.raw, signals |-> c.signals \cup a.signals,
                   uncertain |-> c.uncertain \cup a.uncertain, cycle |-> cycle]
  <1>1. /\ checker' = x /\ checker.phase = "looking"
        /\ UNCHANGED <<alertConfig, alertStates, testFlight, told, fired, fine, failing, unknown, cycle, events>>
    BY DEF look, world
  <1>2. checker.raw \in Configs /\ CapacityKeys \subseteq Keys /\ AllowanceKeys \subseteq Keys /\ failing \subseteq Keys /\ cycle \in Nat
    BY <1>1, CheckerIs DEF AlertTypes, Keys
  <1>3. /\ c.signals \subseteq Keys /\ c.uncertain \subseteq Keys /\ a.signals \subseteq Keys /\ a.uncertain \subseteq Keys
        /\ \A k \in CapacityKeys \ (c.signals \cup c.uncertain) : k \notin failing \/ ~checker.raw.watch
        /\ \A k \in AllowanceKeys \ (a.signals \cup a.uncertain) : k \notin failing
    BY <1>2 DEF observeCapacity, ThresholdAlerts
  <1> HIDE DEF c, a
  <1>4. /\ CheckerType(x) /\ x.phase = "looked" /\ x.raw = checker.raw /\ x.cycle = cycle
        /\ x.signals = c.signals \cup a.signals /\ x.uncertain = c.uncertain \cup a.uncertain
    BY <1>2, <1>3 DEF CheckerType, Looked
  <1> HIDE DEF x
  <1>5. \A k \in Keys \ (x.signals \cup x.uncertain) : k \in fine \/ k \in BaseKeys \/ (k \in CapacityKeys /\ ~checker.raw.watch)
    BY <1>1, <1>3, <1>4 DEF Evidence, Keys
  <1>6. Evidence'
    BY <1>1, <1>2, <1>4, <1>5 DEF Evidence, RowsPast
  <1> QED
    BY <1>1, <1>4, <1>6, CheckerMovesOK

LEMMA EndCheckOK == ASSUME AlertsInv, endCheck \/ Close PROVE AlertsInv'
  <1>1. /\ checker' = Idle
        /\ testFlight' = testFlight \/ testFlight' = NoTest
        /\ UNCHANGED <<alertConfig, alertStates, told, fired, failing, unknown, cycle, events>>
    BY DEF endCheck, Close, world
  <1>2. CheckerType(Idle) /\ Idle.phase = "idle"
    BY DEF CheckerType, Idle
  <1>3. Evidence'
    BY <1>1, <1>2 DEF Evidence
  <1> QED
    BY <1>1, <1>2, <1>3, CheckerMovesOK

\* The settings, the test message and what happens outside.
LEMMA TestOK == ASSUME AlertsInv, Test \/ testDone PROVE AlertsInv'
  <1> USE DEF AlertsInv
  <1>1. UNCHANGED <<alertStates, checker, failing, unknown, cycle, events, told, fired, fine>>
    BY DEF Test, testDone, world
  <1>2. /\ alertConfig' \in Configs /\ alertConfig'.enabled = alertConfig.enabled
        /\ alertConfig'.endpoint = alertConfig.endpoint /\ alertConfig'.seal = alertConfig.seal
    BY DEF Test, testDone, AlertTypes, Configs
  <1>3. \/ testFlight' = NoTest
        \/ testFlight' \in TestFlights /\ testFlight'.endpoint = alertConfig.endpoint
    <2> DEFINE x == [sending |-> TRUE, endpoint |-> alertConfig.endpoint, canceled |-> FALSE]
    <2>1. testFlight' = NoTest \/ (testFlight' = x /\ alertConfig.endpoint # NoEndpoint)
      BY DEF Test, testDone
    <2>2. alertConfig.endpoint # NoEndpoint => x \in TestFlights /\ x.endpoint = alertConfig.endpoint
      BY DEF AlertTypes, Configs, TestFlights
    <2> HIDE DEF x
    <2> QED
      BY <2>1, <2>2
  <1>4. AlertTypes'
    BY <1>1, <1>2, <1>3 DEF AlertTypes
  <1>5. RowsPast' /\ AcknowledgedAsSent' /\ ToSend' /\ OnItsWay' /\ Evidence'
    BY <1>1 DEF RowsPast, AcknowledgedAsSent, ToSend, OnItsWay, Readable, Follows, SameEvent, Evidence
  <1>6. FlightsFollowSettings'
    BY <1>1, <1>2, <1>3 DEF FlightsFollowSettings, NoTest
  <1> QED
    BY <1>4, <1>5, <1>6

LEMMA WorldOK == ASSUME AlertsInv, worldChanges PROVE AlertsInv'
  <1> USE DEF AlertsInv
  <1>1. /\ UNCHANGED <<alertConfig, alertStates, checker, testFlight, cooling, events, told, fired>>
        /\ fine' = fine \cup (Keys \ failing') /\ failing' \subseteq Keys /\ unknown' \subseteq CapacityKeys
        /\ cycle' = cycle \/ cycle' = cycle + 1
    BY DEF worldChanges, AlertTypes
  <1>2. cycle \in Nat /\ cycle' \in Nat /\ cycle <= cycle'
    BY <1>1 DEF AlertTypes
  <1>3. AlertTypes'
    BY <1>1, <1>2 DEF AlertTypes
  <1>4. \A k \in Keys : alertStates[k].cycle \in Nat
    BY DEF AlertTypes, Rows
  <1>5. RowsPast'
    BY <1>1, <1>2, <1>4 DEF RowsPast
  <1>6. FlightsFollowSettings' /\ AcknowledgedAsSent' /\ OnItsWay'
    BY <1>1 DEF FlightsFollowSettings, AcknowledgedAsSent, OnItsWay, Follows, SameEvent
  <1>7. checker.phase \in {"sends", "sending"} => \A p \in checker.todo : p[1] \in Keys /\ p[2] \in Rows
    BY CheckerIs DEF AlertTypes
  <1>8. ToSend'
    BY <1>1, <1>2, <1>7 DEF ToSend, Readable, Follows, SameEvent, Rows
  <1>9. checker.phase = "looked" => checker.cycle \in Nat
    BY CheckerIs DEF AlertTypes
  <1>10. Evidence'
    BY <1>1, <1>2, <1>9 DEF Evidence
  <1> QED
    BY <1>3, <1>5, <1>6, <1>8, <1>10

LEMMA UpdateOK ==
  ASSUME AlertsInv, NEW e \in BOOLEAN, NEW w \in BOOLEAN, NEW c \in BOOLEAN,
         NEW u \in Endpoints \cup {NoEndpoint, PrivateEndpoint}, Update(e, w, u, c)
  PROVE  AlertsInv'
  <1> USE DEF AlertsInv
  <1>1. UNCHANGED <<failing, unknown, cycle, events, told, fine>>
    BY DEF Update, world
  <1>2. alertConfig' \in Configs /\ (alertConfig'.enabled => alertConfig'.endpoint \in Endpoints)
    <2> DEFINE to == IF u # NoEndpoint THEN u ELSE IF c THEN NoEndpoint ELSE alertConfig.endpoint
               n == IF u = NoEndpoint THEN alertConfig.seal ELSE alertConfig.seal + 1
    <2>1. (e => to # NoEndpoint) /\ alertConfig' = [alertConfig EXCEPT !.enabled = e, !.watch = w, !.endpoint = to, !.seal = n]
          /\ (u # NoEndpoint => u \in Endpoints)
      BY DEF Update, ValidateDestination
    <2>2. alertConfig \in Configs /\ to \in Endpoints \cup {NoEndpoint} /\ n \in Nat
      BY <2>1 DEF AlertTypes, Configs
    <2> HIDE DEF to, n
    <2>3. alertConfig' \in Configs /\ alertConfig'.enabled = e /\ alertConfig'.endpoint = to
      BY <2>1, <2>2 DEF Configs
    <2> QED
      BY <2>1, <2>2, <2>3
  <1>3. \/ UNCHANGED <<alertStates, fired>>
        \/ alertStates' = [k \in Keys |-> NoRow] /\ fired' = [k \in Keys |-> {}]
    BY DEF Update, ClearAlertStates
  <1>4. \/ checker.phase # "sending" /\ checker' = checker
        \/ /\ checker.phase = "sending" /\ checker \in Sending /\ checker' \in Sending /\ checker'.phase = "sending"
           /\ checker'.raw = checker.raw /\ checker'.todo = checker.todo /\ checker'.key = checker.key
           /\ checker'.row = checker.row /\ checker'.answer = checker.answer /\ checker'.canceled = TRUE
    <2>1. checker' = IF checker.phase = "sending" THEN [checker EXCEPT !.canceled = TRUE] ELSE checker
      BY DEF Update
    <2>2. checker.phase = "sending" => checker \in Sending
      BY CheckerIs DEF AlertTypes
    <2> QED
      BY <2>1, <2>2 DEF Sending
  <1>5. \/ ~testFlight.sending /\ testFlight' = testFlight
        \/ testFlight' \in TestFlights /\ testFlight'.canceled = TRUE
    <2>1. testFlight' = IF testFlight.sending THEN [testFlight EXCEPT !.canceled = TRUE] ELSE testFlight
      BY DEF Update
    <2>2. testFlight.sending => testFlight \in TestFlights
      BY DEF AlertTypes, NoTest
    <2> QED
      BY <2>1, <2>2 DEF TestFlights
  <1>6. \A k \in Keys : \/ alertStates'[k] = alertStates[k] /\ fired'[k] = fired[k]
                        \/ alertStates'[k] = NoRow /\ fired'[k] = {}
    BY <1>3
  <1>7. AlertTypes'
    <2>1. alertStates' = [k \in Keys |-> alertStates'[k]] /\ \A k \in Keys : alertStates'[k] \in Rows
      BY <1>3, NoRowIs DEF AlertTypes
    <2>2. fired' \in [Keys -> SUBSET Nat]
      BY <1>3 DEF AlertTypes
    <2>3. CheckerType(checker') /\ (testFlight' = NoTest \/ testFlight' \in TestFlights)
      BY <1>4, <1>5 DEF AlertTypes, CheckerType
    <2> QED
      BY <1>1, <1>2, <2>1, <2>2, <2>3 DEF AlertTypes
  <1>8. RowsPast' /\ AcknowledgedAsSent'
    BY <1>1, <1>6, NoRowIs DEF RowsPast, AcknowledgedAsSent, AlertTypes
  <1>9. FlightsFollowSettings'
    BY <1>4, <1>5 DEF FlightsFollowSettings
  <1>10. \A k \in Keys, r \in Rows : Follows(k, r) => Follows(k, r)'
    BY <1>6, NoRowIs DEF Follows, SameEvent
  <1>11. \A k \in Keys, r \in Rows : Readable(k, r) => Readable(k, r)'
    BY <1>1, <1>10 DEF Readable
  <1>12. /\ checker.phase \in {"sends", "sending"} => \A p \in checker.todo : p[1] \in Keys /\ p[2] \in Rows
         /\ checker.phase = "sending" => checker.key \in Keys /\ checker.row \in Rows
    BY CheckerIs DEF AlertTypes
  <1>13. ToSend' /\ OnItsWay'
    BY <1>1, <1>4, <1>10, <1>11, <1>12 DEF ToSend, OnItsWay
  <1>14. checker.phase = "looked" => checker.cycle \in Nat
    BY CheckerIs DEF AlertTypes
  <1>15. Evidence'
    BY <1>1, <1>4, <1>6, <1>14, NoRowIs DEF Evidence
  <1> QED
    BY <1>7, <1>8, <1>9, <1>13, <1>15

\* A row with less to wait, one that is claimed, and the ends of a delivery.
LEMMA RestedRow ==
  ASSUME NEW r \in Rows
  PROVE  rested(r) \in Rows /\ SameEvent(rested(r), r) /\ (r.wait = 0 => rested(r).wait = 0)
  <1>1. less(r.wait) \in 0..DelayLimit /\ (r.wait = 0 => less(r.wait) = 0)
    BY AlertsAssumption DEF Rows, less
  <1>2. rested(r) = [r EXCEPT !.wait = less(r.wait)]
    BY DEF rested
  <1> HIDE DEF less
  <1> QED
    BY <1>1, <1>2 DEF Rows, SameEvent

LEMMA ClaimedRow ==
  ASSUME NEW r \in Rows
  PROVE  claimed(r) \in Rows /\ SameEvent(claimed(r), r)
  <1> DEFINE n == IF r.attempts + 1 < AttemptLimit THEN r.attempts + 1 ELSE AttemptLimit
  <1>1. n \in 1..AttemptLimit /\ n \in 0..AttemptLimit
    BY AlertsAssumption DEF Rows
  <1>2. backoff(n) \in 0..DelayLimit
    BY <1>1, BackoffAssumption
  <1>3. claimed(r) = [r EXCEPT !.attempts = n, !.wait = backoff(n)]
    BY DEF claimed
  <1> HIDE DEF n
  <1> QED
    BY <1>1, <1>2, <1>3 DEF Rows, SameEvent

LEMMA EndedDelivery ==
  ASSUME NEW r \in Rows
  PROVE  /\ FinishAlertDelivery(r) \in Rows /\ FinishAlertDelivery(r).event = r.event /\ FinishAlertDelivery(r).active = r.active
         /\ FinishAlertDelivery(r).delivered = r.active /\ FinishAlertDelivery(r).cycle = r.cycle
         /\ FinishAlertDelivery(r).wait = 0
         /\ FailAlertDelivery(r) \in Rows /\ SameEvent(FailAlertDelivery(r), r) /\ FailAlertDelivery(r).wait = r.wait
  <1>1. FALSE \in BOOLEAN /\ TRUE \in BOOLEAN /\ r.active \in BOOLEAN /\ 0 \in 0..AttemptLimit /\ 0 \in 0..DelayLimit
    BY AlertsAssumption DEF Rows
  <1> QED
    BY <1>1 DEF Rows, SameEvent, FinishAlertDelivery, FailAlertDelivery

\* Rows of the same events are as good as the rows before.
LEMMA SameEventsOK ==
  ASSUME AlertsInv, alertStates' = [k \in Keys |-> alertStates'[k]],
         \A k \in Keys : alertStates'[k] \in Rows /\ SameEvent(alertStates'[k], alertStates[k])
                         /\ (alertStates[k].wait = 0 => alertStates'[k].wait = 0),
         UNCHANGED <<cycle, fired, told>>
  PROVE  /\ RowsPast' /\ AcknowledgedAsSent'
         /\ \A k \in Keys, r, s \in Rows : /\ SameEvent(r, s) /\ Follows(k, r) => Follows(k, s)'
                                           /\ SameEvent(r, s) /\ Readable(k, r) => Readable(k, s)'
  BY DEF AlertsInv, RowsPast, AcknowledgedAsSent, SameEvent, Follows, Readable

LEMMA AlertTickOK == ASSUME AlertsInv, alertTick PROVE AlertsInv'
  <1> USE DEF AlertsInv
  <1> DEFINE todo == {<<p[1], rested(p[2])>> : p \in checker.todo}
  <1>1. /\ alertStates' = [k \in Keys |-> rested(alertStates[k])]
        /\ checker' = IF checker.phase \notin {"sends", "sending"} THEN checker ELSE [checker EXCEPT !.todo = todo]
        /\ UNCHANGED <<alertConfig, testFlight, failing, unknown, cycle, events, told, fired, fine>>
    BY DEF alertTick, world
  <1>2. /\ alertStates' = [k \in Keys |-> alertStates'[k]]
        /\ \A k \in Keys : /\ alertStates'[k] \in Rows /\ SameEvent(alertStates'[k], alertStates[k])
                           /\ alertStates[k].wait = 0 => alertStates'[k].wait = 0
    BY <1>1, RestedRow DEF AlertTypes
  <1>3. /\ RowsPast' /\ AcknowledgedAsSent'
        /\ \A k \in Keys, r, s \in Rows : /\ SameEvent(r, s) /\ Follows(k, r) => Follows(k, s)'
                                          /\ SameEvent(r, s) /\ Readable(k, r) => Readable(k, s)'
    BY <1>1, <1>2, SameEventsOK
  <1>4. CASE checker.phase \notin {"sends", "sending"}
    <2>1. checker' = checker
      BY <1>1, <1>4
    <2>2. AlertTypes'
      BY <1>1, <1>2, <2>1 DEF AlertTypes
    <2>3. FlightsFollowSettings' /\ ToSend' /\ OnItsWay'
      BY <1>1, <1>4, <2>1 DEF FlightsFollowSettings, ToSend, OnItsWay
    <2>4. Evidence'
      BY <1>1, <1>2, <2>1 DEF Evidence, SameEvent
    <2> QED
      BY <1>3, <2>2, <2>3, <2>4
  <1>5. CASE checker.phase \in {"sends", "sending"}
    <2>1. checker.todo \in SUBSET (Keys \X Rows)
      BY <1>5, CheckerIs DEF AlertTypes
    <2>2. \A p \in checker.todo : p[1] \in Keys /\ p[2] \in Rows /\ rested(p[2]) \in Rows /\ SameEvent(rested(p[2]), p[2])
      BY <2>1, RestedRow
    <2>3. todo \in SUBSET (Keys \X Rows)
      BY <2>2
    <2>4. \A q \in todo : \E p \in checker.todo : q[1] = p[1] /\ q[2] = rested(p[2]) /\ q = <<p[1], rested(p[2])>>
      BY DEF todo
    <2> HIDE DEF todo
    <2>5. /\ CheckerType(checker') /\ checker'.phase = checker.phase /\ checker'.raw = checker.raw /\ checker'.todo = todo
          /\ checker.phase = "sending" =>
               /\ checker'.key = checker.key /\ checker'.row = checker.row /\ checker'.answer = checker.answer
               /\ checker'.canceled = checker.canceled /\ checker.key \in Keys /\ checker.row \in Rows
      <3>1. checker' = [checker EXCEPT !.todo = todo]
        BY <1>1, <1>5
      <3>2. CASE checker.phase = "sends"
        <4>1. checker \in Sends
          BY <3>2, CheckerIs DEF AlertTypes
        <4> QED
          BY <2>3, <3>1, <3>2, <4>1 DEF Sends, CheckerType
      <3>3. CASE checker.phase = "sending"
        <4>1. checker \in Sending
          BY <3>3, CheckerIs DEF AlertTypes
        <4> QED
          BY <2>3, <3>1, <3>3, <4>1 DEF Sending, CheckerType
      <3> QED
        BY <1>5, <3>2, <3>3
    <2>6. AlertTypes'
      BY <1>1, <1>2, <2>5 DEF AlertTypes
    <2>7. FlightsFollowSettings'
      BY <1>1, <2>5 DEF FlightsFollowSettings
    <2>8. \A r, s : SameEvent(r, s) => SameEvent(s, r)
      BY DEF SameEvent
    <2>9. \A q \in todo : Readable(q[1], q[2])'
      <3> SUFFICES ASSUME NEW q \in todo PROVE Readable(q[1], q[2])'
        OBVIOUS
      <3>1. PICK p \in checker.todo : q[1] = p[1] /\ q[2] = rested(p[2])
        BY <2>4
      <3>2. Readable(p[1], p[2])
        BY <1>5 DEF ToSend
      <3> QED
        BY <1>3, <2>2, <2>8, <3>1, <3>2
    <2>10. \A p, q \in todo : p[1] = q[1] => p = q
      BY <1>5, <2>4 DEF ToSend
    <2>11. ToSend'
      BY <2>5, <2>9, <2>10 DEF ToSend
    <2>12. OnItsWay'
      <3>1. \A r : SameEvent(r, r)
        BY DEF SameEvent
      <3> QED
        BY <1>1, <1>3, <2>4, <2>5, <3>1 DEF OnItsWay
    <2>13. Evidence'
      BY <1>1, <1>5, <2>5 DEF Evidence
    <2> QED
      BY <1>3, <2>6, <2>7, <2>11, <2>12, <2>13
  <1> QED
    BY <1>4, <1>5

\* What observe makes of a row: the same row, or one of a new event with the state that was seen.
Seen(k, r, signals, uncertain, period, event, new) ==
  /\ new \in Rows
  /\ \/ new = r
     \/ /\ new.event = event /\ (new.active <=> k \in signals) /\ (k \in signals \/ k \notin uncertain)
        /\ \/ new.cycle = r.cycle /\ (new.delivered => r.delivered)
           \/ new.cycle = period /\ ~new.delivered
        /\ k \in AllowanceKeys /\ k \in signals /\ r.event # 0 => r.cycle # period /\ new.cycle = period

LEMMA ObservedRow ==
  ASSUME NEW k \in Keys, NEW r \in Rows, NEW signals \in SUBSET Keys, NEW uncertain \in SUBSET Keys,
         NEW period \in Nat, NEW event \in Nat
  PROVE  Seen(k, r, signals, uncertain, period, event, observed(k, r, signals, uncertain, period, event))
  <1> DEFINE new == observed(k, r, signals, uncertain, period, event)
  <1> DEFINE shows == k \in signals
             newCycle == k \in AllowanceKeys /\ shows /\ r.cycle # period
             same == \/ k \in uncertain /\ ~shows
                     \/ k \in AllowanceKeys /\ shows /\ r.cycle = period /\ r.event # 0
                     \/ r.event # 0 /\ r.active = shows /\ ~newCycle
                     \/ r.event = 0 /\ ~shows
             keeps == r.delivered /\ ~newCycle
             at == IF newCycle THEN period ELSE r.cycle
             made == [r EXCEPT !.active = shows, !.event = event, !.attempts = 0, !.wait = 0, !.failed = FALSE,
                               !.cycle = at, !.delivered = keeps]
  <1>1. new = IF same THEN r ELSE made
    BY DEF observed
  <1> SUFFICES Seen(k, r, signals, uncertain, period, event, new)
    OBVIOUS
  <1> HIDE DEF new
  <1>2. CASE same
    BY <1>1, <1>2 DEF Seen
  <1>3. CASE ~same
    <2>1. new = made
      BY <1>1, <1>3
    <2>2. shows \in BOOLEAN /\ keeps \in BOOLEAN /\ at \in Nat /\ 0 \in 0..AttemptLimit /\ 0 \in 0..DelayLimit /\ FALSE \in BOOLEAN
      BY AlertsAssumption DEF Rows
    <2>3. /\ k \in signals \/ k \notin uncertain
          /\ k \in AllowanceKeys /\ k \in signals /\ r.event # 0 => r.cycle # period /\ at = period
          /\ at = r.cycle \/ (at = period /\ ~keeps)
          /\ keeps => r.delivered
          /\ shows <=> k \in signals
      BY <1>3
    <2> HIDE DEF shows, keeps, at, same
    <2>4. made \in Rows /\ made.event = event /\ made.active = shows /\ made.cycle = at /\ made.delivered = keeps
      BY <2>2 DEF Rows
    <2> HIDE DEF made
    <2> QED
      BY <2>1, <2>2, <2>3, <2>4, Zenon DEF Seen
  <1> QED
    BY <1>2, <1>3

ResolvedStep ==
  \A k \in Keys : alertStates[k].active /\ alertStates[k]'.event > alertStates[k].event /\ ~alertStates[k]'.active
    => k \in fine \/ (k \in CapacityKeys /\ ~alertConfig.watch)

OnceStep ==
  \A k \in AllowanceKeys : alertStates[k]'.event > alertStates[k].event /\ alertStates[k]'.active /\ alertStates[k].event # 0
    => alertStates[k]'.cycle \notin fired[k]

LEMMA ObserveOK == ASSUME AlertsInv, observe PROVE AlertsInv' /\ ResolvedStep /\ OnceStep
  <1> USE DEF AlertsInv
  <1> DEFINE signals == checker.signals \cup ListAlertSignals
             period == checker.cycle
  <1>1. /\ checker.phase = "looked"
        /\ UNCHANGED <<alertConfig, testFlight, failing, unknown, cycle, told, fine>>
    BY DEF observe, world
  <1>2. CASE alertConfig # checker.raw
    <2>1. checker' = Idle /\ UNCHANGED <<alertStates, events, fired>>
      BY <1>2 DEF observe, GetAlertConfig
    <2>2. CheckerType(Idle) /\ Idle.phase = "idle"
      BY DEF CheckerType, Idle
    <2>3. Evidence'
      BY <1>1, <2>1, <2>2 DEF Evidence
    <2>4. AlertsInv'
      BY <1>1, <2>1, <2>2, <2>3, CheckerMovesOK
    <2>5. \A k \in Keys : alertStates[k].event \in Nat
      BY DEF AlertTypes, Rows
    <2> QED
      BY <2>1, <2>4, <2>5 DEF ResolvedStep, OnceStep, Keys
  <1>3. CASE alertConfig = checker.raw
    <2> DEFINE after == [k \in Keys |-> observed(k, alertStates[k], signals, checker.uncertain, period, events + 1)]
               todo == {p \in ListAlertStates' : pending(p[2])}
    <2>1. /\ alertStates' = after
          /\ fired' = [k \in Keys |-> IF after[k].event # alertStates[k].event /\ after[k].active
                                      THEN fired[k] \cup {after[k].cycle} ELSE fired[k]]
          /\ checker' = [phase |-> "sends", raw |-> checker.raw, sends |-> SendLimit, todo |-> todo]
          /\ events' = events \/ events' = events + 1
      BY <1>3 DEF observe, GetAlertConfig, saveObserved
    <2>2. /\ checker.signals \in SUBSET Keys /\ checker.uncertain \in SUBSET Keys /\ period \in Nat /\ checker.raw \in Configs
          /\ events \in Nat /\ signals \in SUBSET Keys
      BY <1>1, CheckerIs DEF AlertTypes, ListAlertSignals
    <2>3. \A k \in Keys :
            /\ alertStates[k] \in Rows /\ alertStates'[k] \in Rows /\ alertStates'[k] = after[k]
            /\ \/ alertStates'[k] = alertStates[k]
               \/ /\ alertStates'[k].event = events + 1 /\ (alertStates'[k].active <=> k \in signals)
                  /\ k \in signals \/ k \notin checker.uncertain
                  /\ \/ alertStates'[k].cycle = alertStates[k].cycle /\ (alertStates'[k].delivered => alertStates[k].delivered)
                     \/ alertStates'[k].cycle = period /\ ~alertStates'[k].delivered
                  /\ k \in AllowanceKeys /\ k \in signals /\ alertStates[k].event # 0
                     => alertStates[k].cycle # period /\ alertStates'[k].cycle = period
      <3> SUFFICES ASSUME NEW k \in Keys
                   PROVE  alertStates[k] \in Rows /\ Seen(k, alertStates[k], signals, checker.uncertain, period, events + 1, alertStates'[k])
        BY <2>1, Zenon DEF Seen
      <3>1. alertStates[k] \in Rows /\ events + 1 \in Nat
        BY <2>2 DEF AlertTypes
      <3>2. alertStates'[k] = observed(k, alertStates[k], signals, checker.uncertain, period, events + 1)
        BY <2>1
      <3> HIDE DEF after, signals, period
      <3> QED
        BY <2>2, <3>1, <3>2, ObservedRow
    <2>4. /\ alertStates' = [k \in Keys |-> alertStates'[k]]
          /\ fired' \in [Keys -> SUBSET Nat]
          /\ \A k \in Keys : \A n \in fired'[k] : n \in fired[k] \/ n = alertStates'[k].cycle
      <3>1. alertStates' = [k \in Keys |-> alertStates'[k]] /\ \A k \in Keys : after[k] = alertStates'[k]
        BY <2>1
      <3> HIDE DEF after
      <3>2. \A k \in Keys : fired'[k] = fired[k] \/ fired'[k] = fired[k] \cup {alertStates'[k].cycle}
        BY <2>1, <3>1
      <3>3. \A k \in Keys : alertStates'[k].cycle \in Nat /\ fired[k] \in SUBSET Nat
        BY <2>3 DEF Rows, AlertTypes
      <3> QED
        BY <2>1, <3>1, <3>2, <3>3
    <2>5. /\ todo \in SUBSET (Keys \X Rows)
          /\ \A p \in todo : p[1] \in Keys /\ p[2] = alertStates'[p[1]] /\ p[2].event # 0
          /\ \A p, q \in todo : p[1] = q[1] => p = q
      <3>1. \A p \in todo : \E k \in Keys : p = <<k, alertStates'[k]>> /\ alertStates'[k].event # 0
        BY DEF ListAlertStates
      <3> HIDE DEF todo
      <3>2. \A p \in todo : p[1] \in Keys /\ p[2] = alertStates'[p[1]] /\ p[2].event # 0 /\ p = <<p[1], alertStates'[p[1]]>>
        BY <3>1
      <3>3. \A p \in todo : p \in Keys \X Rows
        BY <2>3, <3>2
      <3> QED
        BY <3>2, <3>3
    <2> HIDE DEF after, todo
    <2>6. checker' \in Sends /\ checker'.phase = "sends" /\ checker'.raw = checker.raw /\ checker'.todo = todo
      BY <2>1, <2>2, <2>5, AlertsAssumption DEF Sends
    <2>7. AlertTypes'
      BY <1>1, <2>1, <2>2, <2>3, <2>4, <2>6 DEF AlertTypes, CheckerType
    <2>8. /\ period <= cycle /\ \A k \in Keys : alertStates[k].cycle <= period
          /\ cycle \in Nat /\ \A k \in Keys : alertStates[k].cycle \in Nat /\ alertStates[k].event \in Nat
      BY <1>1, <2>3 DEF Evidence, AlertTypes, Rows
    <2>9. \A k \in Keys : alertStates'[k].cycle <= cycle /\ alertStates[k].cycle <= alertStates'[k].cycle /\ alertStates'[k].cycle \in Nat
      BY <2>2, <2>3, <2>8 DEF Rows
    <2>10. RowsPast'
      <3> SUFFICES ASSUME NEW k \in Keys
                   PROVE  /\ alertStates'[k].event = 0 => /\ ~alertStates'[k].active /\ ~alertStates'[k].delivered
                                                          /\ alertStates'[k].wait = 0 /\ alertStates'[k].cycle = 0
                          /\ \A n \in fired'[k] : n <= alertStates'[k].cycle
        BY <1>1, <2>9 DEF RowsPast
      <3>1. events + 1 # 0
        BY <2>2
      <3>2. alertStates'[k].event = 0 => alertStates'[k] = alertStates[k]
        BY <2>3, <3>1
      <3>3. \A n \in fired'[k] : n \in Nat
        BY <2>4
      <3>4. \A n \in fired[k] : n <= alertStates[k].cycle
        BY DEF RowsPast
      <3>5. \A n \in fired'[k] : n <= alertStates'[k].cycle
        BY <2>4, <2>8, <2>9, <3>3, <3>4
      <3> QED
        BY <3>2, <3>5 DEF RowsPast
    <2>11. AcknowledgedAsSent'
      BY <1>1, <2>3 DEF AcknowledgedAsSent
    <2>12. FlightsFollowSettings' /\ OnItsWay' /\ Evidence'
      BY <1>1, <2>6 DEF FlightsFollowSettings, OnItsWay, Evidence
    <2>13. \A p \in todo : Readable(p[1], p[2])'
      BY <1>1, <2>5, <2>9, <2>11 DEF Readable, Follows, SameEvent, AcknowledgedAsSent
    <2>14. ToSend'
      BY <2>5, <2>6, <2>13 DEF ToSend
    <2>15. ResolvedStep
      <3> SUFFICES ASSUME NEW k \in Keys, alertStates'[k].event > alertStates[k].event, ~alertStates'[k].active
                   PROVE  k \in fine \/ (k \in CapacityKeys /\ ~alertConfig.watch)
        BY DEF ResolvedStep
      <3>1. alertStates'[k] # alertStates[k]
        BY <2>8
      <3>2. k \notin signals /\ k \notin checker.uncertain
        BY <2>3, <3>1
      <3>3. k \notin checker.signals /\ (k \in BaseKeys => k \notin failing)
        BY <3>2 DEF ListAlertSignals
      <3> QED
        BY <1>1, <1>3, <3>2, <3>3 DEF Evidence
    <2>16. OnceStep
      <3> SUFFICES ASSUME NEW k \in AllowanceKeys, alertStates'[k].event > alertStates[k].event, alertStates'[k].active,
                          alertStates[k].event # 0
                   PROVE  alertStates'[k].cycle \notin fired[k]
        BY DEF OnceStep
      <3>1. k \in Keys
        BY DEF Keys
      <3>2. alertStates'[k] # alertStates[k]
        BY <2>8, <3>1
      <3>3. alertStates[k].cycle # period /\ alertStates'[k].cycle = period
        BY <2>3, <3>1, <3>2
      <3>4. alertStates[k].cycle < period
        BY <2>2, <2>8, <3>1, <3>3
      <3>5. \A n \in fired[k] : n \in Nat /\ n <= alertStates[k].cycle
        BY <3>1 DEF RowsPast, AlertTypes
      <3> QED
        BY <2>2, <2>8, <3>1, <3>3, <3>4, <3>5
    <2> QED
      BY <2>7, <2>10, <2>11, <2>12, <2>14, <2>15, <2>16
  <1> QED
    BY <1>2, <1>3

\* A step that gives no row a new event.
LEMMA NoNewEvent ==
  ASSUME AlertsInv, \A k \in Keys : \/ alertStates'[k].event = alertStates[k].event
                                    \/ alertStates[k].event = 0
                                    \/ alertStates'[k].event = 0
  PROVE  ResolvedStep /\ OnceStep
  <1>1. \A k \in Keys : alertStates[k].event \in Nat /\ (alertStates[k].event = 0 => ~alertStates[k].active)
    BY DEF AlertsInv, AlertTypes, Rows, RowsPast
  <1> QED
    BY <1>1 DEF ResolvedStep, OnceStep, Keys

LEMMA ClaimOK == ASSUME AlertsInv, claim PROVE AlertsInv' /\ ResolvedStep /\ OnceStep
  <1> USE DEF AlertsInv
  <1>1. /\ checker.phase = "sends"
        /\ UNCHANGED <<alertConfig, testFlight, failing, unknown, cycle, events, told, fired, fine>>
    BY DEF claim, world
  <1>2. checker.todo \in SUBSET (Keys \X Rows) /\ checker.raw \in Configs /\ checker.sends \in Nat
    BY <1>1, CheckerIs DEF AlertTypes
  <1>3. PICK p \in checker.todo :
          /\ checker.sends > 0
          /\ IF alertConfig # checker.raw
             THEN checker' = Idle /\ UNCHANGED alertStates
             ELSE /\ alertStates' = [alertStates EXCEPT ![p[1]] = claimed(p[2])]
                  /\ checker' = [phase |-> "sending", raw |-> checker.raw, sends |-> checker.sends - 1,
                                 todo |-> checker.todo \ {p}, key |-> p[1], row |-> p[2], answer |-> "open", canceled |-> FALSE]
    BY DEF claim, GetAlertConfig, SaveAlertState
  <1>4. CASE alertConfig # checker.raw
    <2>1. checker' = Idle /\ UNCHANGED alertStates
      BY <1>3, <1>4
    <2>2. CheckerType(Idle) /\ Idle.phase = "idle"
      BY DEF CheckerType, Idle
    <2>3. Evidence'
      BY <1>1, <2>1, <2>2 DEF Evidence
    <2>4. AlertsInv'
      BY <1>1, <2>1, <2>2, <2>3, CheckerMovesOK
    <2> QED
      BY <2>1, <2>4, NoNewEvent
  <1>5. CASE alertConfig = checker.raw
    <2> DEFINE k == p[1]
               r == p[2]
               n == claimed(p[2])
    <2>1. k \in Keys /\ r \in Rows
      BY <1>2
    <2>2. n \in Rows /\ SameEvent(n, r)
      BY <2>1, ClaimedRow
    <2>3. Readable(k, r)
      BY <1>1 DEF ToSend
    <2>4. alertStates' = [alertStates EXCEPT ![k] = n]
      BY <1>3, <1>5
    <2>5. /\ checker' \in Sending /\ checker'.phase = "sending" /\ checker'.raw = checker.raw
          /\ checker'.todo = checker.todo \ {p} /\ checker'.key = k /\ checker'.row = r /\ checker'.answer = "open"
      <3> DEFINE left1 == checker.sends - 1
                 rest == checker.todo \ {p}
      <3>1. left1 \in Nat /\ rest \in SUBSET (Keys \X Rows) /\ FALSE \in BOOLEAN
        BY <1>2, <1>3
      <3>2. checker' = [phase |-> "sending", raw |-> checker.raw, sends |-> left1, todo |-> rest, key |-> k, row |-> r,
                        answer |-> "open", canceled |-> FALSE]
        BY <1>3, <1>5
      <3> HIDE DEF left1, rest, k, r
      <3>3. checker' \in Sending /\ checker'.phase = "sending" /\ checker'.raw = checker.raw
            /\ checker'.todo = rest /\ checker'.key = k /\ checker'.row = r /\ checker'.answer = "open"
        BY <1>2, <2>1, <3>1, <3>2 DEF Sending
      <3> QED
        BY <3>3 DEF rest
    <2>6. \A q \in checker.todo \ {p} : q[1] \in Keys /\ q[1] # k
      BY <1>1, <1>2 DEF ToSend
    <2> HIDE DEF k, r, n
    <2>7. /\ alertStates' = [j \in Keys |-> alertStates'[j]] /\ alertStates'[k] = n
          /\ \A j \in Keys \ {k} : alertStates'[j] = alertStates[j]
      BY <2>1, <2>4 DEF AlertTypes
    <2>8. AlertTypes'
      BY <1>1, <2>2, <2>5, <2>7 DEF AlertTypes, CheckerType
    <2>9. RowsPast'
      BY <1>1, <2>1, <2>2, <2>3, <2>7 DEF RowsPast, Readable, Follows, SameEvent
    <2>10. AcknowledgedAsSent'
      BY <1>1, <2>1, <2>2, <2>3, <2>7 DEF AcknowledgedAsSent, Readable, SameEvent
    <2>11. FlightsFollowSettings' /\ Evidence'
      BY <1>1, <1>5, <2>5 DEF FlightsFollowSettings, Evidence
    <2>12. ToSend'
      <3>1. \A q \in checker.todo \ {p} : Readable(q[1], q[2])
        BY <1>1 DEF ToSend
      <3>2. \A q \in checker.todo \ {p} : Readable(q[1], q[2])'
        BY <1>1, <2>6, <2>7, <3>1 DEF Readable, Follows
      <3>3. \A q, s \in checker.todo \ {p} : q[1] = s[1] => q = s
        BY <1>1 DEF ToSend
      <3> QED
        BY <2>5, <3>2, <3>3 DEF ToSend
    <2>13. OnItsWay'
      <3>1. r.event # 0 /\ Follows(k, r)'
        BY <2>2, <2>3, <2>7 DEF Readable, Follows, SameEvent
      <3> QED
        BY <2>5, <2>6, <3>1 DEF OnItsWay
    <2>14. \A j \in Keys : alertStates'[j].event = alertStates[j].event \/ alertStates[j].event = 0
      BY <2>2, <2>3, <2>7 DEF Readable, Follows, SameEvent
    <2> QED
      BY <2>8, <2>9, <2>10, <2>11, <2>12, <2>13, <2>14, NoNewEvent
  <1> QED
    BY <1>4, <1>5

\* An answer arrives, or is lost.
LEMMA AnswerOK ==
  ASSUME AlertsInv, checker.phase = "sending", checker.answer = "open", NEW a \in {"ok", "failed"},
         checker' = [checker EXCEPT !.answer = a], told' \in [Keys -> SUBSET Nat],
         \A k \in Keys : told[k] \subseteq told'[k],
         a = "ok" /\ checker.row.active => checker.row.cycle \in told'[checker.key],
         UNCHANGED <<alertConfig, alertStates, testFlight, failing, unknown, cycle, events, fired, fine>>
  PROVE  AlertsInv'
  <1> USE DEF AlertsInv
  <1>1. checker \in Sending /\ checker.key \in Keys /\ checker.row \in Rows /\ \A p \in checker.todo : p[1] \in Keys /\ p[2] \in Rows
    BY CheckerIs DEF AlertTypes
  <1>2. /\ checker' \in Sending /\ checker'.phase = "sending" /\ checker'.raw = checker.raw /\ checker'.todo = checker.todo
        /\ checker'.key = checker.key /\ checker'.row = checker.row /\ checker'.answer = a
    BY <1>1 DEF Sending
  <1>3. AlertTypes'
    BY <1>2 DEF AlertTypes, CheckerType
  <1>4. RowsPast' /\ AcknowledgedAsSent'
    BY DEF RowsPast, AcknowledgedAsSent
  <1>5. FlightsFollowSettings' /\ Evidence'
    BY <1>2 DEF FlightsFollowSettings, Evidence
  <1>6. \A k \in Keys, r \in Rows : Readable(k, r) => Readable(k, r)'
    BY DEF Readable, Follows
  <1>7. ToSend'
    BY <1>1, <1>2, <1>6 DEF ToSend
  <1>8. OnItsWay'
    BY <1>1, <1>2 DEF OnItsWay, Follows
  <1> QED
    BY <1>3, <1>4, <1>5, <1>7, <1>8

LEMMA DeliverOK == ASSUME AlertsInv, (\E lost \in BOOLEAN : deliver(lost)) \/ deliverFails PROVE AlertsInv'
  <1>1. ASSUME NEW lost \in BOOLEAN, deliver(lost) PROVE AlertsInv'
    <2> DEFINE a == IF lost THEN "failed" ELSE "ok"
    <2>1. /\ checker.phase = "sending" /\ checker.answer = "open" /\ checker' = [checker EXCEPT !.answer = a]
          /\ told' = IF checker.row.active THEN [told EXCEPT ![checker.key] = told[checker.key] \cup {checker.row.cycle}] ELSE told
          /\ UNCHANGED <<alertConfig, alertStates, testFlight, failing, unknown, cycle, events, fired, fine>>
      BY <1>1 DEF deliver, world
    <2>2. a \in {"ok", "failed"}
      OBVIOUS
    <2> HIDE DEF a
    <2>3. checker.key \in Keys /\ checker.row.cycle \in Nat
      BY <2>1, CheckerIs DEF AlertsInv, AlertTypes, Rows
    <2>4. /\ told' \in [Keys -> SUBSET Nat] /\ \A k \in Keys : told[k] \subseteq told'[k]
          /\ checker.row.active => checker.row.cycle \in told'[checker.key]
      BY <2>1, <2>3 DEF AlertsInv, AlertTypes
    <2> QED
      BY <2>1, <2>2, <2>4, AnswerOK
  <1>2. CASE deliverFails
    <2>1. /\ checker.phase = "sending" /\ checker.answer = "open" /\ checker' = [checker EXCEPT !.answer = "failed"] /\ told' = told
          /\ UNCHANGED <<alertConfig, alertStates, testFlight, failing, unknown, cycle, events, fired, fine>>
      BY <1>2 DEF deliverFails, world
    <2>2. told' \in [Keys -> SUBSET Nat] /\ \A k \in Keys : told[k] \subseteq told'[k]
      BY <2>1 DEF AlertsInv, AlertTypes
    <2> QED
      BY <2>1, <2>2, AnswerOK
  <1> QED
    BY <1>1, <1>2

LEMMA FinishSendOK == ASSUME AlertsInv, finishSend PROVE AlertsInv' /\ ResolvedStep /\ OnceStep
  <1> USE DEF AlertsInv
  <1> DEFINE k == checker.key
             row == alertStates[k]
             mine == alertStates[k].event = checker.row.event
  <1>1. /\ checker.phase = "sending" /\ checker.answer # "open"
        /\ alertStates' = [j \in Keys |->
             IF alertStates[j].event # checker.row.event THEN alertStates[j]
             ELSE IF j # checker.key THEN alertStates[j]
             ELSE IF checker.answer = "ok" THEN FinishAlertDelivery(alertStates[j]) ELSE FailAlertDelivery(alertStates[j])]
        /\ checker' = [phase |-> "sends", raw |-> checker.raw, sends |-> checker.sends, todo |-> checker.todo]
        /\ UNCHANGED <<alertConfig, testFlight, failing, unknown, cycle, events, told, fired, fine>>
    BY DEF finishSend, world
  <1>2. /\ checker.raw \in Configs /\ checker.sends \in Nat /\ checker.todo \in SUBSET (Keys \X Rows)
        /\ k \in Keys /\ checker.row \in Rows /\ checker.answer \in {"open", "ok", "failed"} /\ row \in Rows
    BY <1>1, CheckerIs DEF AlertTypes
  <1>3. \A p \in checker.todo : p[1] \in Keys /\ p[1] # k
    BY <1>1, <1>2 DEF OnItsWay
  <1>4. /\ checker' \in Sends /\ checker'.phase = "sends" /\ checker'.raw = checker.raw /\ checker'.todo = checker.todo
    BY <1>1, <1>2 DEF Sends
  <1>5. /\ alertStates' = [j \in Keys |-> alertStates'[j]]
        /\ \A j \in Keys \ {k} : alertStates'[j] = alertStates[j]
        /\ \/ alertStates'[k] = row
           \/ mine /\ checker.answer = "ok" /\ alertStates'[k] = FinishAlertDelivery(row)
           \/ mine /\ alertStates'[k] = FailAlertDelivery(row)
    BY <1>1, <1>2
  <1>6. mine => row.event # 0 /\ SameEvent(checker.row, row)
    BY <1>1 DEF OnItsWay, Follows
  <1>7. /\ alertStates'[k] \in Rows /\ alertStates'[k].event = row.event /\ alertStates'[k].cycle = row.cycle
        /\ alertStates'[k].active = row.active
        /\ row.event = 0 => alertStates'[k] = row
        /\ alertStates'[k].delivered => row.delivered \/ row.cycle \in told[k]
    <2>1. CASE alertStates'[k] = row
      BY <1>2, <2>1
    <2>2. CASE mine /\ checker.answer = "ok" /\ alertStates'[k] = FinishAlertDelivery(row)
      <3>1. /\ FinishAlertDelivery(row) \in Rows /\ FinishAlertDelivery(row).event = row.event
            /\ FinishAlertDelivery(row).active = row.active /\ FinishAlertDelivery(row).delivered = row.active
            /\ FinishAlertDelivery(row).cycle = row.cycle
        BY <1>2, EndedDelivery
      <3>2. row.event # 0 /\ (row.active => row.cycle \in told[k])
        BY <1>1, <1>6, <2>2 DEF OnItsWay, SameEvent
      <3> QED
        BY <2>2, <3>1, <3>2
    <2>3. CASE mine /\ alertStates'[k] = FailAlertDelivery(row)
      <3>1. FailAlertDelivery(row) \in Rows /\ SameEvent(FailAlertDelivery(row), row)
        BY <1>2, EndedDelivery
      <3> QED
        BY <1>6, <2>3, <3>1 DEF SameEvent
    <2> QED
      BY <1>5, <2>1, <2>2, <2>3
  <1> HIDE DEF k, row, mine
  <1>8. row = alertStates[k]
    BY DEF row
  <1>9. AlertTypes'
    BY <1>1, <1>4, <1>5, <1>7 DEF AlertTypes, CheckerType
  <1>10. RowsPast'
    BY <1>1, <1>2, <1>5, <1>7, <1>8 DEF RowsPast
  <1>11. AcknowledgedAsSent'
    BY <1>1, <1>2, <1>5, <1>7, <1>8 DEF AcknowledgedAsSent
  <1>12. FlightsFollowSettings' /\ Evidence' /\ OnItsWay'
    BY <1>1, <1>4 DEF FlightsFollowSettings, Evidence, OnItsWay
  <1>13. ToSend'
    <2>1. \A p \in checker.todo : Readable(p[1], p[2])
      BY <1>1 DEF ToSend
    <2>2. \A p \in checker.todo : Readable(p[1], p[2])'
      BY <1>1, <1>3, <1>5, <2>1 DEF Readable, Follows
    <2>3. \A p, q \in checker.todo : p[1] = q[1] => p = q
      BY <1>1 DEF ToSend
    <2> QED
      BY <1>4, <2>2, <2>3 DEF ToSend
  <1>14. \A j \in Keys : alertStates'[j].event = alertStates[j].event
    BY <1>5, <1>7, <1>8
  <1> QED
    BY <1>9, <1>10, <1>11, <1>12, <1>13, <1>14, NoNewEvent

LEMMA StillInv == ASSUME AlertsInv, UNCHANGED alertVars PROVE AlertsInv'
  <1> USE DEF alertVars, AlertsInv
  <1>1. AlertTypes'
    BY DEF AlertTypes
  <1>2. RowsPast' /\ AcknowledgedAsSent'
    BY DEF RowsPast, AcknowledgedAsSent
  <1>3. FlightsFollowSettings'
    BY DEF FlightsFollowSettings
  <1>4. ToSend' /\ OnItsWay'
    BY DEF ToSend, OnItsWay, Readable, Follows, SameEvent
  <1>5. Evidence'
    BY DEF Evidence
  <1> QED
    BY <1>1, <1>2, <1>3, <1>4, <1>5

LEMMA AlertsNextOK == ASSUME AlertsInv, [AlertsNext]_alertVars PROVE AlertsInv' /\ ResolvedStep /\ OnceStep
  <1>1. CASE observe \/ claim \/ finishSend
    BY <1>1, ObserveOK, ClaimOK, FinishSendOK
  <1>2. ASSUME NEW e \in BOOLEAN, NEW w \in BOOLEAN, NEW c \in BOOLEAN,
               NEW u \in Endpoints \cup {NoEndpoint, PrivateEndpoint}, Update(e, w, u, c)
        PROVE  AlertsInv' /\ ResolvedStep /\ OnceStep
    <2>1. alertStates' = alertStates \/ alertStates' = [k \in Keys |-> NoRow]
      BY <1>2 DEF Update, ClearAlertStates
    <2>2. \A k \in Keys : alertStates'[k].event = alertStates[k].event \/ alertStates'[k].event = 0
      BY <2>1, NoRowIs
    <2> QED
      BY <1>2, <2>2, UpdateOK, NoNewEvent
  <1>3. CASE alertTick
    <2>1. \A k \in Keys : alertStates[k] \in Rows /\ alertStates'[k] = rested(alertStates[k])
      BY <1>3 DEF alertTick, AlertsInv, AlertTypes
    <2>2. \A k \in Keys : alertStates'[k].event = alertStates[k].event
      BY <2>1, RestedRow DEF SameEvent
    <2> QED
      BY <1>3, <2>2, AlertTickOK, NoNewEvent
  <1>4. CASE \/ beginCheck \/ endCheck \/ Close \/ Test \/ testDone \/ worldChanges \/ deliverFails
             \/ \E c, a \in BOOLEAN : look(c, a)
             \/ \E lost \in BOOLEAN : deliver(lost)
             \/ UNCHANGED alertVars
    <2>1. UNCHANGED alertStates
      BY <1>4 DEF beginCheck, endCheck, Close, Test, testDone, worldChanges, deliverFails, look, deliver, alertVars
    <2>2. UNCHANGED alertVars => AlertsInv'
      BY StillInv
    <2>3. AlertsInv'
      BY <1>4, <2>2, BeginCheckOK, EndCheckOK, TestOK, WorldOK, DeliverOK, LookOK
    <2> QED
      BY <2>1, <2>3, NoNewEvent
  <1> QED
    BY <1>1, <1>2, <1>3, <1>4 DEF AlertsNext, checkSteps

\* A check sends the rows it read, on evidence it saw, for periods that were not fired: the invariant behind the next theorem.
THEOREM AlertsInvariance == AlertsSpec => []AlertsInv
  BY AlertsInitOK, AlertsNextOK, PTL DEF AlertsSpec

\* A message goes where the settings say and counts as sent only if it was received (Update, deliver), for any keys,
\* endpoints and limits.
THEOREM AlertsAreTrue == AlertsSpec => []AlertsTrue
  BY AlertsInvariance, AlertsInvIsTrue, PTL

\* An incident ends on evidence only, and a low balance fires once in an accounting period (observe), for any keys
\* and periods, although observers fail, settings change and the process stops.
THEOREM IncidentsAreEvidenced == AlertsSpec => IncidentsEvidenced
  <1>1. AlertsInv /\ [AlertsNext]_alertVars => [ResolvedStep]_alertVars /\ [OnceStep]_alertVars
    BY AlertsNextOK
  <1> QED
    BY <1>1, AlertsInvariance, PTL DEF AlertsSpec, IncidentsEvidenced, ResolvedOnEvidence, OncePerCycle, ResolvedStep, OnceStep

-----------------------------------------------------------------------------
(* Registry.                                                                  *)

\* A caller that takes or gives back a runtime moves its count by one.
LEMMA TakeCount ==
  ASSUME Counted, TypeOK, NEW c \in Callers, NEW i \in Instances, held[c] = None,
         held' = [held EXCEPT ![c] = i], active' = [active EXCEPT ![i] = active[i] + 1]
  PROVE  Counted'
  <1>1. ASSUME NEW j \in Instances PROVE active'[j] = Cardinality(Users(j)')
    <2>1. IsFiniteSet(Users(j))
      BY FS_Subset, ConstantsAssumption DEF Users
    <2>2. CASE j = i
      <3>1. c \notin Users(i) /\ Users(i)' = Users(i) \cup {c}
        BY DEF Users, TypeOK, None, Instances
      <3>2. Cardinality(Users(i)') = Cardinality(Users(i)) + 1
        BY <2>1, <2>2, <3>1, FS_AddElement
      <3> QED
        BY <2>2, <3>2 DEF Counted, TypeOK
    <2>3. CASE j # i
      <3>1. Users(j)' = Users(j)
        BY <2>3 DEF Users, TypeOK, None, Instances
      <3> QED
        BY <2>3, <3>1 DEF Counted, TypeOK
    <2> QED
      BY <2>2, <2>3
  <1> QED
    BY <1>1 DEF Counted

LEMMA GiveCount ==
  ASSUME Counted, TypeOK, NEW c \in Callers, NEW i \in Instances, held[c] = i,
         held' = [held EXCEPT ![c] = None], active' = [active EXCEPT ![i] = active[i] - 1]
  PROVE  Counted' /\ active[i] # 0
  <1>1. IsFiniteSet(Users(i))
    BY FS_Subset, ConstantsAssumption DEF Users
  <1>2. c \in Users(i) /\ Users(i)' = Users(i) \ {c}
    BY DEF Users, TypeOK, None, Instances
  <1>3. Cardinality(Users(i)') = Cardinality(Users(i)) - 1
    BY <1>1, <1>2, FS_RemoveElement
  <1>4. active[i] # 0
    BY <1>1, <1>2, FS_EmptySet DEF Counted
  <1>5. ASSUME NEW j \in Instances PROVE active'[j] = Cardinality(Users(j)')
    <2>1. CASE j = i
      BY <1>3, <2>1 DEF Counted, TypeOK
    <2>2. CASE j # i
      <3>1. Users(j)' = Users(j)
        BY <2>2 DEF Users, TypeOK, None, Instances
      <3> QED
        BY <2>2, <3>1 DEF Counted, TypeOK
    <2> QED
      BY <2>1, <2>2
  <1> QED
    BY <1>4, <1>5 DEF Counted

\* Without a change of the users or of the counts the count stays exact.
LEMMA SameCount ==
  ASSUME Counted, UNCHANGED <<held, active>>
  PROVE  Counted' /\ \A i \in Instances : Users(i)' = Users(i)
  BY DEF Counted, Users

LEMMA AcquireSharedStep ==
  ASSUME IInv, NEW c \in Callers, acquireShared(c)
  PROVE  IInv'
  <1> DEFINE i == runtimes[Tenant[c]]
  <1>1. /\ Tenant[c] \in Tenants /\ i \in Instances /\ held[c] = None /\ ~closed
        /\ active' = [active EXCEPT ![i] = active[i] + 1] /\ held' = [held EXCEPT ![c] = i]
        /\ UNCHANGED <<runtimes, idle, gateway, built, inside, closed, ended, reaper, retired, closer, closing, working>>
    BY ConstantsAssumption DEF acquireShared, mayCall, share, IInv, TypeOK
  <1>2. TypeOK'
    BY <1>1 DEF IInv, TypeOK
  <1>3. Counted'
    BY <1>1, TakeCount DEF IInv
  <1>4. i <= built /\ \A j \in Instances : j # i => Users(j)' = Users(j)
    BY <1>1 DEF IInv, TypeOK, Places, Users, None, Instances
  <1>5. Places'
    BY <1>1, <1>4 DEF IInv, TypeOK, Places, Instances
  <1>6. InsideOpen'
    BY <1>1 DEF IInv, TypeOK, InsideOpen
  <1>7. Shutdown'
    BY <1>1 DEF IInv, Shutdown
  <1>8. OneGateway'
    BY <1>1 DEF IInv, TypeOK, OneGateway
  <1> QED
    BY <1>2, <1>3, <1>5, <1>6, <1>7, <1>8 DEF IInv

LEMMA AcquireNewStep ==
  ASSUME IInv, NEW c \in Callers, NEW i, i = built + 1, NEW t, t = Tenant[c], acquireNew(c)
  PROVE  IInv'
  <1>1. /\ t \in Tenants /\ i \in Instances /\ held[c] = None /\ ~closed /\ runtimes[t] = None
        /\ built' = i /\ built \in Nat
        /\ runtimes' = [runtimes EXCEPT ![t] = i] /\ gateway' = [gateway EXCEPT ![i] = "open"]
        /\ active' = [active EXCEPT ![i] = 1] /\ idle' = [idle EXCEPT ![i] = 0]
        /\ held' = [held EXCEPT ![c] = i]
        /\ UNCHANGED <<inside, closed, ended, reaper, retired, closer, closing, working>>
    <2>1. t \in Tenants
      BY ConstantsAssumption
    <2>2. built < MaxRuntimes /\ built \in Nat /\ MaxRuntimes \in Nat
      BY ConstantsAssumption DEF acquireNew, IInv, TypeOK
    <2>3. i \in Instances
      BY <2>2 DEF Instances
    <2> QED
      BY <2>1, <2>2, <2>3 DEF acquireNew, mayCall
  <1>2. TypeOK'
    <2>1. built' \in 0..MaxRuntimes
      BY <1>1, ConstantsAssumption DEF Instances
    <2>2. idle' \in [Instances -> 0..IdleTimeout] /\ active' \in [Instances -> Nat]
      BY <1>1, ConstantsAssumption DEF IInv, TypeOK
    <2> QED
      BY <1>1, <2>1, <2>2 DEF IInv, TypeOK
  <1>3. gateway[i] = "unused" /\ Users(i) = {}
    BY <1>1 DEF IInv, Places
  <1>4. active[i] = 0
    BY <1>1, <1>3, FS_EmptySet DEF IInv, Counted
  <1>5. Counted'
    <2>1. active' = [active EXCEPT ![i] = active[i] + 1]
      BY <1>1, <1>4
    <2> QED
      BY <1>1, <2>1, TakeCount DEF IInv
  <1>6. \A j \in Instances : j # i => Users(j)' = Users(j)
    BY <1>1 DEF IInv, TypeOK, Users, None, Instances
  <1>7. \A s \in Tenants : runtimes[s] # i
    BY <1>1 DEF IInv, Places, Instances, None
  <1>8. i \notin retired \cup closing
    BY <1>1 DEF IInv, Places
  <1>9. \A s \in Tenants : runtimes'[s] = IF s = t THEN i ELSE runtimes[s]
    BY <1>1 DEF IInv, TypeOK
  <1>10. \A j \in Instances : gateway'[j] = IF j = i THEN "open" ELSE gateway[j]
    BY <1>1 DEF IInv, TypeOK
  <1>11. \A s \in Tenants : runtimes'[s] # None => runtimes'[s] <= built' /\ gateway'[runtimes'[s]] = "open"
    BY <1>1, <1>7, <1>9, <1>10 DEF IInv, TypeOK, Places, Instances, None
  <1>12. \A s, u \in Tenants : runtimes'[s] # None /\ runtimes'[s] = runtimes'[u] => s = u
    BY <1>7, <1>9 DEF IInv, Places
  <1>13. \A j \in (retired \cup closing)' : j <= built' /\ \A s \in Tenants : runtimes'[s] # j
    BY <1>1, <1>8, <1>9 DEF IInv, TypeOK, Places, Instances
  <1>14. \A j \in Instances : j > built' => gateway'[j] = "unused" /\ Users(j)' = {}
    BY <1>1, <1>6, <1>10 DEF IInv, Places, Instances
  <1>15. \A j \in Instances : j <= built' =>
           \/ gateway'[j] = "closed" \/ j \in retired' \/ j \in closing'
           \/ \E s \in Tenants : runtimes'[s] = j
    <2>1. TAKE j \in Instances
    <2>2. CASE j = i
      BY <1>1, <1>9, <2>2
    <2>3. CASE j # i /\ j <= built
      BY <1>1, <1>9, <1>10, <2>3 DEF IInv, Places, Instances, None
    <2> QED
      BY <1>1, <2>2, <2>3 DEF Instances
  <1>16. Places'
    BY <1>11, <1>12, <1>13, <1>14, <1>15 DEF Places
  <1>17. InsideOpen'
    BY <1>1, <1>3, <1>10 DEF IInv, TypeOK, InsideOpen
  <1>18. Shutdown'
    BY <1>1 DEF IInv, Shutdown
  <1>19. OneGateway'
    BY <1>1, <1>9, <1>7 DEF IInv, TypeOK, OneGateway
  <1> QED
    BY <1>2, <1>5, <1>16, <1>17, <1>18, <1>19 DEF IInv

LEMMA ReleaseStep ==
  ASSUME IInv, NEW c \in Callers, release(c)
  PROVE  IInv'
  <1>1. /\ held[c] \in Instances /\ held[c] # None /\ c \notin inside
        /\ active' = [active EXCEPT ![held[c]] = active[held[c]] - 1]
        /\ idle' = [idle EXCEPT ![held[c]] = 0] /\ held' = [held EXCEPT ![c] = None]
        /\ UNCHANGED <<runtimes, gateway, built, inside, closed, ended, reaper, retired, closer, closing, working>>
    BY DEF release, IInv, TypeOK
  <1>2. Counted' /\ active[held[c]] # 0
    <2>1. PICK i \in Instances : i = held[c]
      BY <1>1
    <2>2. active' = [active EXCEPT ![i] = active[i] - 1]
      BY <1>1, <2>1
    <2> QED
      BY <1>1, <2>1, <2>2, GiveCount DEF IInv
  <1>3. TypeOK'
    BY <1>1, <1>2, ConstantsAssumption DEF IInv, TypeOK
  <1>4. \A j \in Instances : Users(j)' \subseteq Users(j)
    BY <1>1 DEF IInv, TypeOK, Users, None, Instances
  <1>5. Places'
    BY <1>1, <1>4 DEF IInv, Places
  <1>6. InsideOpen'
    BY <1>1 DEF IInv, TypeOK, InsideOpen
  <1>7. Shutdown'
    BY <1>1 DEF IInv, Shutdown
  <1>8. OneGateway'
    BY <1>1 DEF IInv, TypeOK, OneGateway
  <1> QED
    BY <1>2, <1>3, <1>5, <1>6, <1>7, <1>8 DEF IInv

LEMMA BeginFinishStep ==
  ASSUME IInv, NEW c \in Callers, begin(c) \/ finish(c)
  PROVE  IInv'
  <1>1. UNCHANGED <<runtimes, active, idle, gateway, built, held, closed, ended, reaper, retired, closer, closing, working>>
    BY DEF begin, finish
  <1>2. inside' \subseteq Callers /\ InsideOpen'
    BY <1>1 DEF begin, finish, IInv, TypeOK, InsideOpen
  <1>3. Counted' /\ \A i \in Instances : Users(i)' = Users(i)
    BY <1>1, SameCount DEF IInv
  <1>4. Places'
    BY <1>1, <1>3 DEF IInv, Places
  <1> QED
    BY <1>1, <1>2, <1>3, <1>4 DEF IInv, TypeOK, Shutdown, OneGateway

\* A runtime out of the map moves from open to closing to closed.
LEMMA GatewayStep ==
  ASSUME IInv, NEW i \in Instances, i \in retired \cup closing,
         UNCHANGED <<runtimes, active, idle, built, held, inside, closed, ended, reaper, closer, working>>,
         retired' \subseteq retired, closing' \subseteq closing,
         \/ closeGateway(i) /\ UNCHANGED <<retired, closing>>
         \/ /\ drainGateway(i)
            /\ \A j \in Instances : j # i => (j \in retired => j \in retired') /\ (j \in closing => j \in closing')
  PROVE  IInv'
  <1>1. gateway' \in [Instances -> {"unused", "open", "closing", "closed"}]
    BY DEF IInv, TypeOK, closeGateway, drainGateway
  <1>2. \A j \in Instances : j # i => gateway'[j] = gateway[j]
    BY DEF IInv, TypeOK, closeGateway, drainGateway
  <1>3. TypeOK'
    BY <1>1 DEF IInv, TypeOK
  <1>4. Counted' /\ \A j \in Instances : Users(j)' = Users(j)
    BY SameCount DEF IInv
  <1>5. i <= built /\ \A t \in Tenants : runtimes[t] # i
    BY DEF IInv, Places
  <1>6. \A j \in Instances : j > built => gateway'[j] = "unused" /\ Users(j)' = {}
    BY <1>2, <1>4, <1>5 DEF IInv, TypeOK, Places, Instances
  <1>7. \A j \in Instances : j <= built =>
          \/ gateway'[j] = "closed" \/ j \in retired' \/ j \in closing'
          \/ \E t \in Tenants : runtimes[t] = j
    <2>1. TAKE j \in Instances
    <2>2. CASE j # i
      BY <1>2, <2>2 DEF IInv, Places
    <2>3. CASE j = i
      BY <2>3 DEF IInv, TypeOK, drainGateway
    <2> QED
      BY <2>2, <2>3
  <1>8. \A t \in Tenants : runtimes[t] # None => runtimes[t] <= built /\ gateway'[runtimes[t]] = "open"
    BY <1>2, <1>5 DEF IInv, TypeOK, Places
  <1>9. Places'
    BY <1>6, <1>7, <1>8 DEF IInv, Places
  <1>10. InsideOpen'
    BY <1>2 DEF IInv, TypeOK, InsideOpen, closeGateway, drainGateway
  <1>11. Shutdown'
    BY DEF IInv, Shutdown
  <1> QED
    BY <1>3, <1>4, <1>9, <1>10, <1>11 DEF IInv, OneGateway

LEMMA RetireStep ==
  ASSUME IInv, NEW i \in Instances, retire(i)
  PROVE  IInv'
  BY GatewayStep DEF retire

LEMMA CloseGatewaysStep ==
  ASSUME IInv, NEW i \in Instances, CloseGateways(i)
  PROVE  IInv'
  BY GatewayStep DEF CloseGateways

LEMMA ReapIdleStep ==
  ASSUME IInv, reapIdle
  PROVE  IInv'
  <1> DEFINE old == {t \in Tenants : runtimes[t] # None /\ reapable(runtimes[t])}
  <1>1. /\ reaper = "running" /\ retired = {} /\ ~closed
        /\ retired' = {runtimes[t] : t \in old}
        /\ runtimes' = [t \in Tenants |-> IF t \in old THEN None ELSE runtimes[t]]
        /\ UNCHANGED <<active, idle, gateway, built, held, inside, closed, ended, reaper, closer, closing, working>>
    BY DEF reapIdle
  <1>2. TypeOK'
    BY <1>1 DEF IInv, TypeOK
  <1>3. Counted' /\ \A i \in Instances : Users(i)' = Users(i)
    BY <1>1, SameCount DEF IInv
  <1>4. \A t \in Tenants : runtimes'[t] # None => runtimes'[t] = runtimes[t] /\ t \notin old
    BY <1>1
  <1>5. \A t \in old : runtimes[t] \in Instances /\ Users(runtimes[t]) = {}
    <2>1. TAKE t \in old
    <2>2. runtimes[t] \in Instances /\ active[runtimes[t]] = 0
      BY DEF IInv, TypeOK, reapable
    <2>3. IsFiniteSet(Users(runtimes[t])) /\ Cardinality(Users(runtimes[t])) = 0
      BY <2>2, FS_Subset, ConstantsAssumption DEF Users, IInv, Counted
    <2> QED
      BY <2>2, <2>3, FS_EmptySet
  <1>6. \A i \in retired' \cup closing' : i <= built' /\ \A t \in Tenants : runtimes'[t] # i
    <2>1. ASSUME NEW t \in old, NEW s \in Tenants PROVE runtimes'[s] # runtimes[t]
      BY <1>4, <2>1 DEF IInv, Places
    <2>2. ASSUME NEW i \in closing, NEW s \in Tenants PROVE runtimes'[s] # i
      BY <1>4, <2>2 DEF IInv, Places, TypeOK, Instances, None
    <2> QED
      BY <1>1, <2>1, <2>2 DEF IInv, Places
  <1>7. \A i \in Instances : i <= built' =>
          \/ gateway'[i] = "closed" \/ i \in retired' \/ i \in closing'
          \/ \E t \in Tenants : runtimes'[t] = i
    <2>1. SUFFICES ASSUME NEW i \in Instances, NEW t \in Tenants, runtimes[t] = i
                   PROVE  i \in retired' \/ \E s \in Tenants : runtimes'[s] = i
      BY <1>1 DEF IInv, Places
    <2>2. CASE t \in old
      BY <1>1, <2>1, <2>2
    <2>3. CASE t \notin old
      BY <1>1, <2>1, <2>3
    <2> QED
      BY <2>2, <2>3
  <1>8. Places'
    BY <1>1, <1>3, <1>4, <1>6, <1>7 DEF IInv, Places
  <1>9. InsideOpen'
    BY <1>1 DEF IInv, InsideOpen
  <1>10. Shutdown'
    BY <1>1 DEF IInv, Shutdown
  <1>11. OneGateway'
    <2>1. SUFFICES ASSUME NEW c \in Callers, held[c] # None
                   PROVE  runtimes'[Tenant[c]] = held[c]
      BY <1>1 DEF OneGateway
    <2>2. Tenant[c] \in Tenants /\ runtimes[Tenant[c]] = held[c] /\ c \in Users(held[c])
      BY <1>1, <2>1, ConstantsAssumption DEF IInv, OneGateway, Users
    <2>3. Tenant[c] \notin old
      BY <1>5, <2>2
    <2> QED
      BY <1>1, <2>2, <2>3
  <1> QED
    BY <1>2, <1>3, <1>8, <1>9, <1>10, <1>11 DEF IInv

LEMMA CloseRegistryStep ==
  ASSUME IInv, CloseRegistry
  PROVE  IInv'
  <1>1. /\ closed' = TRUE /\ closer = "resets" /\ closer' = "reaper"
        /\ closing' = {runtimes[t] : t \in Tenants} \ {None}
        /\ runtimes' = [t \in Tenants |-> None]
        /\ UNCHANGED <<active, idle, gateway, built, held, inside, ended, reaper, retired, working>>
    BY DEF CloseRegistry
  <1>2. closed' \in BOOLEAN
    BY <1>1
  <1>3. TypeOK'
    BY <1>1, <1>2 DEF IInv, TypeOK
  <1>4. Counted' /\ \A i \in Instances : Users(i)' = Users(i)
    BY <1>1, SameCount DEF IInv
  <1>5. ~closed
    BY <1>1 DEF IInv, Shutdown
  <1>6. \A i \in retired' \cup closing' : i <= built' /\ \A t \in Tenants : runtimes'[t] # i
    BY <1>1 DEF IInv, TypeOK, Places, Instances, None
  <1>7. \A i \in Instances : i <= built' => gateway'[i] = "closed" \/ i \in retired' \/ i \in closing'
    <2>1. SUFFICES ASSUME NEW i \in Instances, i <= built
                   PROVE  gateway[i] = "closed" \/ i \in retired \/ i \in closing'
      BY <1>1
    <2>2. i \notin closing
      BY <1>1, <1>5 DEF IInv, Shutdown
    <2> QED
      BY <1>1, <2>1, <2>2 DEF IInv, Places, Instances, None
  <1>8. Places'
    BY <1>1, <1>4, <1>6, <1>7 DEF IInv, Places
  <1>9. InsideOpen'
    BY <1>1 DEF IInv, InsideOpen
  <1>10. Shutdown'
    BY <1>1 DEF IInv, Shutdown
  <1>11. OneGateway'
    BY <1>1 DEF OneGateway
  <1> QED
    BY <1>3, <1>4, <1>8, <1>9, <1>10, <1>11 DEF IInv

\* The steps that leave the runtimes, their users and their gateways alone.
LEMMA QuietStep ==
  ASSUME IInv, UNCHANGED <<runtimes, active, gateway, built, held, inside, closed, retired, closing>>,
         TypeOK', Shutdown'
  PROVE  IInv'
  <1>1. Counted' /\ \A i \in Instances : Users(i)' = Users(i)
    BY SameCount DEF IInv
  <1>2. Places'
    BY <1>1 DEF IInv, Places
  <1> QED
    BY <1>1, <1>2 DEF IInv, InsideOpen, OneGateway

LEMMA LifecycleStep ==
  ASSUME IInv,
         \/ \E c \in ResetWorkers : work(c)
         \/ Start \/ reaperStops \/ CloseResets \/ CloseJoins \/ CloseReturns \/ End \/ Tick
  PROVE  IInv'
  <1>1. CASE Start
    <2>1. TypeOK' /\ Shutdown'
      BY <1>1 DEF Start, IInv, TypeOK, Shutdown
    <2> QED
      BY <1>1, <2>1, QuietStep DEF Start
  <1>2. CASE reaperStops
    <2>1. TypeOK' /\ Shutdown'
      BY <1>2 DEF reaperStops, IInv, TypeOK, Shutdown
    <2> QED
      BY <1>2, <2>1, QuietStep DEF reaperStops
  <1>3. CASE CloseResets
    <2>1. TypeOK' /\ Shutdown'
      BY <1>3 DEF CloseResets, IInv, TypeOK, Shutdown
    <2> QED
      BY <1>3, <2>1, QuietStep DEF CloseResets
  <1>4. CASE CloseJoins
    <2>1. TypeOK' /\ Shutdown'
      BY <1>4 DEF CloseJoins, reaperDone, IInv, TypeOK, Shutdown
    <2> QED
      BY <1>4, <2>1, QuietStep DEF CloseJoins
  <1>5. CASE CloseReturns
    <2>1. TypeOK' /\ Shutdown'
      BY <1>5 DEF CloseReturns, IInv, TypeOK, Shutdown
    <2> QED
      BY <1>5, <2>1, QuietStep DEF CloseReturns
  <1>6. CASE End
    <2>1. ended' \in BOOLEAN
      BY <1>6 DEF End
    <2>2. TypeOK' /\ Shutdown'
      BY <1>6, <2>1 DEF End, IInv, TypeOK, Shutdown
    <2> QED
      BY <1>6, <2>2, QuietStep DEF End
  <1>7. CASE Tick
    <2>1. idle' \in [Instances -> 0..IdleTimeout]
      BY <1>7, ConstantsAssumption DEF Tick, IInv, TypeOK
    <2>2. TypeOK' /\ Shutdown'
      BY <1>7, <2>1 DEF Tick, IInv, TypeOK, Shutdown
    <2> QED
      BY <1>7, <2>2, QuietStep DEF Tick
  <1>8. ASSUME NEW c \in ResetWorkers, work(c) PROVE IInv'
    <2>1. TypeOK' /\ Shutdown'
      BY <1>8 DEF work, IInv, TypeOK, Shutdown
    <2> QED
      BY <1>8, <2>1, QuietStep DEF work
  <1> QED
    BY <1>1, <1>2, <1>3, <1>4, <1>5, <1>6, <1>7, <1>8

LEMMA InitOK ==
  ASSUME Init
  PROVE  IInv
  <1>1. \A i \in Instances : Users(i) = {}
    BY DEF Init, Users, Instances, None
  <1>2. TypeOK
    <2>1. closed \in BOOLEAN /\ ended \in BOOLEAN
      BY DEF Init
    <2> QED
      BY <2>1, ConstantsAssumption DEF Init, TypeOK, None
  <1>3. Counted
    BY <1>1, FS_EmptySet DEF Init, Counted
  <1>4. Places
    BY <1>1 DEF Init, Places, None, Instances
  <1> QED
    BY <1>2, <1>3, <1>4 DEF Init, IInv, InsideOpen, Shutdown, OneGateway, None

LEMMA NextOK ==
  ASSUME IInv, [Next]_vars
  PROVE  IInv'
  <1>1. ASSUME NEW c \in Callers, acquireShared(c) \/ acquireNew(c) \/ release(c) \/ begin(c) \/ finish(c)
        PROVE  IInv'
    BY <1>1, AcquireSharedStep, AcquireNewStep, ReleaseStep, BeginFinishStep
  <1>2. ASSUME NEW i \in Instances, retire(i) \/ CloseGateways(i)
        PROVE  IInv'
    BY <1>2, RetireStep, CloseGatewaysStep
  <1>3. CASE UNCHANGED vars
    <2>1. TypeOK' /\ Shutdown'
      BY <1>3 DEF vars, IInv, TypeOK, Shutdown
    <2> QED
      BY <1>3, <2>1, QuietStep DEF vars
  <1> QED
    BY <1>1, <1>2, <1>3, ReapIdleStep, CloseRegistryStep, LifecycleStep DEF Next

\* Every reachable state satisfies the inductive invariant: the reference counts are
\* exact and every runtime built is accounted for.
THEOREM Invariance == Spec => []IInv
  BY InitOK, NextOK, PTL DEF Spec

\* However acquire, release and the reaper interleave, a request is never left on a
\* runtime that was retired while the registry is open.
THEOREM NoRetiredRuntimeInUse == Spec => []OneGateway
  <1>1. IInv => OneGateway
    BY DEF IInv
  <1> QED
    BY <1>1, Invariance, PTL

\* When Close returns, no gateway is open or closing and no request is inside one.
THEOREM ShutdownLeavesNothingOpen == Spec => []CloseComplete
  <1>1. ASSUME IInv PROVE CloseComplete
    <2>1. SUFFICES ASSUME closer = "done"
                   PROVE  inside = {} /\ \A i \in Instances : gateway[i] \in {"unused", "closed"}
      BY DEF CloseComplete
    <2>2. closed /\ closing = {} /\ retired = {} /\ \A t \in Tenants : runtimes[t] = None
      BY <1>1, <2>1 DEF IInv, Shutdown
    <2>3. \A i \in Instances : gateway[i] \in {"unused", "closed"}
      BY <1>1, <2>2 DEF IInv, TypeOK, Places, Instances, None
    <2>4. ASSUME NEW c \in inside PROVE FALSE
      <3>1. held[c] \in Instances /\ gateway[held[c]] # "closed" /\ c \in Users(held[c])
        BY <1>1, <2>4 DEF IInv, TypeOK, InsideOpen, Users
      <3>2. held[c] <= built
        BY <1>1, <3>1 DEF IInv, TypeOK, Places, Instances
      <3> QED
        BY <1>1, <2>2, <3>1, <3>2 DEF IInv, Places, Instances, None
    <2> QED
      BY <2>3, <2>4
  <1> QED
    BY <1>1, Invariance, PTL

\* No request is on a retired gateway, and nothing is open when Close returns.
THEOREM GatewaysAreSound == Spec => []GatewaysSound
  <1>1. IInv => TypeOK
    BY DEF IInv
  <1>2. TypeOK /\ OneGateway /\ CloseComplete => GatewaysSound
    BY DEF GatewaysSound
  <1> QED
    BY <1>1, <1>2, Invariance, NoRetiredRuntimeInUse, ShutdownLeavesNothingOpen, PTL
=============================================================================
