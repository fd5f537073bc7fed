# A TLA+ verification of SubLane

SubLane is a single-process gateway in Go that lets the members of a workspace
share AI subscription accounts. A request arrives with a member's API key, is
admitted to one of the accounts of a pool, is charged to the member's
allowance, and is forwarded with the account's credential. All state that
outlives the process is in one SQLite database with one connection
(`storage.Open`, `MaxOpenConns(1)`), so each transaction is atomic and
transactions never overlap. What is hard is between them: requests wait and
run without locks, providers answer late, twice or not at all, writes fail or
commit although an error is reported, and the process may stop anywhere.

This directory holds models of the parts where that matters, the TLC
configurations that check them, and TLAPS proofs.

## 1. Inventory

| Component | State | Operations | Hard behaviour | What makes it correct |
|---|---|---|---|---|
| Admission (`gateway/queue.go`, `runtime.go`, `history.go`, `members.go`) | leases per account, cooldown, failures, revision, failure sequence; waiters and a one-slot channel per pool; member counters and rates | `begin`, `leaseAccount`, `finish`, `notifyCapacity`, `SetConcurrency`, `Resume`, `Close` | goroutines sleep without the lock; late answers; coalesced wake-ups; shutdown | exact counters, one probe, cooldowns that hold, no stranded waiter, `Close` ends |
| Allowance (`allocations/`, `gateway/allocations.go`) | entries with state, revision, window, tokens and cost; request history; failed settlements in memory | `Begin`, `Finish`, `Settle`, recovery at start, `Prune`, scheme edits | failed and unseen commits, retries, crashes, edits under running requests | one charge per request, admissions see all charges, bounded overshoot |
| Reset credits (`resets/`, `gateway/resets.go`) | settings, schedule, attempts with key and card, per-account lock | `Run`, `Retry`, `Save`, worker | crash around provider IO, lost answers, two triggers, pruning | every spent card on record, one uncertain spend, limits |
| Credentials (`accounts/`, `Open`, `executeWithRetry`) | encrypted credential, status, backoff, one mutex | `Prepare`, `RefreshAfterRejection`, `RecordUse`, `Authorize`, `SetEnabled`, `Delete` | late 401s and successes, lost rotations, administrator writes during a refresh | no unfounded or lost status, stored credential is the latest, nothing served before it is stored |
| Selection and affinity (`selection.go`, `affinity.go`, `availability.go`, `groups/policy.go`) | bindings of conversations to accounts, rotation cursors, views of health, quota and catalogs | `selectAllocationAccount`, `rememberAffinity`, `Availability`, `WorkspaceCapacity` | accounts change under conversations; three places decide what is available | a conversation stays where its state is; shares follow weights; what is shown is what is chosen |
| Model runtime (`model_runtime.go`, `check.go`) | cooldown, failures and probe per account and model; rows and shared objects | `modelLease`, `finishModelRuntime`, `leaseModelCheck`, `Resume` | late failures during a probe, rows that cannot be written | one probe per model, waits respected, only a newer success clears |
| Exchange (`exchange.go`, `server/stream.go`, `upstream/stream.go`) | outcome, usage, closed flag, three contexts | events, `close`, `Fail`, `Complete`, heartbeat, drain | stream end, client cancel, deadline and shutdown race | one outcome that stands, no thread left waiting, drains undisturbed |
| Usage cache (`usage.go`, `observation.go`, `quota.go`) | reading per account and revision, poll in flight, retry time, two slots | `usageSnapshot`, `fetchUsage`, `observeUsage`, `warmUsage`, `RedeemResetCredit` | polls overtaken by responses, revisions, eviction, lost resets | readings in order, of the present revision, stored before shown |
| Catalog cache (`catalog.go`, `accounts/catalog.go`) | stored catalog, discovery in flight, retry time | `AccountCatalog`, `groupCatalog`, `fetchCatalog` | a read, a write and the end of a discovery at three moments; contract changes | of the present authorization, never "unknown and idle" when stored |
| Alerts (`alerts/`) | settings, one row per incident | `Update`, `Test`, `checkWorkspace`, `deliver` | settings change while a message is sent; lost answers; failing observers | told what happened, to whom the settings say, in the end |
| Registry (`cmd/sublane/tenants.go`) | runtime per workspace with reference count | `acquire`, `release`, `reapIdle`, `Close` | retirement against a new request | one gateway of a workspace has requests |
| Versions (`versions/`) | policy record, check in flight, waits | `Save`, `Sync`, `check`, `Close` | settings saved during a check, failed writes | announced as stored, no downgrade, switched-off checks discarded |
| OAuth flows (`oauth/`) | at most 8 logins in progress | `Begin`, `Finish`, `PollDevice`, `Cancel` | cancel, expiry or replacement during an exchange | single use, what ended a login wins |
| Authentication (`auth/`) | users, sessions, challenges, factors, passkeys, invitations | setup, login, password, factors, passkeys, invitations | verified before the transaction, with no lock | no session outlives what opened it, codes count once |
| Workspaces, pools, API keys (`tenants/`, `groups/`, `apikey/`) | memberships, links, pools, grants, keys, bindings | add, invite, register, remove, role, pool and key edits, `Authenticate` | roles read before the transaction; long sequences of legal edits | managers decide of everybody who has an account, new accounts join by a link or a manager's request, no key comes back, reserved pools are exclusive |
| Schemes (`allocations/changes.go`, `schedule.go`, `calendar.go`) | revisions, anchors, windows | `SaveScheme`, `updateScheme`, `UpdateMembers`, `ChangeSchedule`, `Preview` | the clock and the zone move inside a transaction; days the clock changes | committed as previewed, never retroactive, windows tile time |
| Pricing (`pricing/service.go`) | prices, two cache files | `Refresh`, `Lookup`, `applyPrices` | two downloads and two files that are not atomic | prices of one document, saved rates kept |
| Backup (`backup/`, `storage/backup.go`, `server/backup.go`) | archives, one web operation, target directory | scheduled run, export, upload, verify, restore | damage, ends of the process, racing restores | a good archive is kept, a restored instance is whole |
| Updates, conversations, statistics, content screening | mailbox file, per-connection text | - | external worker; text | not modelled |
| Upstream, server, storage, web console | protocol conversion, HTTP, SQL, UI | - | text and bytes | modelled where a component above uses them, else left to tests |

How they interact. The HTTP server obtains a workspace's gateway from the
registry. `Open` calls `begin`, then `leaseAccount`, which in one critical
section of `Service.mu` checks the member, retries failed settlements, selects
an account, leases it and its model and inserts the allowance entry; `Prepare`
then supplies the credential under the accounts service's own mutex; the
exchange reports the outcome to `finish`, which updates the health of account
and model, settles the entry and wakes waiters. Responses and polls feed the
usage cache, which selection reads, as it reads the catalogs. The alert and
reset workers call into the gateway of a workspace through the registry.
Administrators change everything at any time, with a role that was read when
their request arrived.

`PROJECT.json` lists every component with its status, and under `hazards` what
in this code is hard to test, by line, with the properties that cover it.

## 2. Modules

| Module | Models | Notes |
|---|---|---|
| `Admission` | one workspace's admission | with `MCAdmission`, `MCAdmissionPools`; `Admission_proofs` for it and `Selection` |
| `Ledger` | abstract: what accounting promises for each request | refined by `Allowance` |
| `Allowance` | one scheme's accounting | with `MCAllowance`, `MCSelection`, `Allowance_proofs` |
| `Schemes`, `Calendar` | the revisions of one allowance; its reset windows | pure operators checked at every instant, and the editors' transactions |
| `ResetCredits` | the reset cards of one account | with the two above in `MCQuotas`; `Quotas_proofs` for it and `Schemes` |
| `Credentials` | the credential of one account and its requests | with `MCCredentials`, `Credentials_proofs` |
| `Identity` | users, sessions, second factors, passkeys, invitations | in `MCConsole`; `Identity_proofs` |
| `Workspaces` | members, pools, grants, keys and reservations of one workspace | in `MCConsole`; `Workspaces_proofs` |
| `Registry` | the gateways of all workspaces | in `MCServices`; `Services_proofs` |
| `Alerts`, `Versions`, `Prices` | the background services of the same name | in `MCServices`; `Services_proofs` |
| `UsageCache`, `CatalogCache` | what the gateway knows of an account's quota and models | in `MCGateway`; `Gateway_proofs` |
| `ModelRuntime` | the health of an account's models | in `MCGateway`; `Gateway_proofs` |
| `Selection` | the choice of an account and the bindings of conversations | in `MCSelection`; `Admission_proofs` |
| `Exchange` | one request while its response is delivered | in `MCGateway`, `MCExchange`; `Gateway_proofs` |
| `OAuthLogins`, `Backup` | provider logins; archives and restores | in `MCGateway`; `Gateway_proofs` |

`MCQuotas`, `MCSelection`, `MCConsole`, `MCServices` and `MCGateway` each check several
components that do not share state: a behaviour picks one at the beginning (`part`) and the others
stay as they began, so their states add up and do not multiply.

A section of code under a mutex is one action; a wait, a provider call or a
sleep splits a handler into several. A database write is part of the action
that makes it, with alternatives for a write that fails and, where the code
cares, one that commits although its caller sees an error. Provider behaviour
is nondeterministic. Definitions whose names start with `m`, or that are
variants of a definition next to them (`BusyWithoutProbe`...),
are plausible mistakes: each is put in the place of its original to confirm
that a property notices.

### Admission

A request is an observation: `new`, `begun`, `waiting` (in the select of the
queue), `awake` (out of it, not yet holding the lock again), `leased`,
`refused`, `done`. `leaseAccount` is one pass of the loop under the mutex and
has one disjunct per way out: expired, settlements that could not be prepared,
member limit, no account available, queue full, wait, granted. The member
lease is taken on the first pass and kept while waiting; `LeaveQueue` is the
deferred decrement. `wakeTimer`, `wakeRetry` and `wakeToken` are the three
cases of the select: context or deadline, the policy ticker, and the pool's
channel, which holds one token. `finish` releases the member and account
leases, applies a penalty or a recovery, saves the account's row (or fails to)
and notifies the pools of the account. `Restart` loads the saved rows.

Time is relative (`cooldown`, `timeLeft` count down to 0), so the clock needs
no bound. The choice among eligible accounts is nondeterministic; `Eligible`
stands for policy, catalog, quota and affinity. `era` is a history variable:
whether a lease is older than the last failure or the last `Resume`. Not
modelled here: per-model cooldowns, transient failure thresholds, the
semaphore on all requests of a gateway (`Acquire`, which never waits), and the
read-only views.

### Allowance and Ledger

`Admit` is the part of `leaseAccount` that belongs to allowances: recovery if
this is the first call of the process, the retry of failed settlements, the
refusal if one of the member's own is still unwritten, the check of every
window, and the entry. `AdmitUnseen` is the commit that reports an error.
`Finish` reports the usage and writes it, or keeps the observation in
`failedSettlements`; a write may commit although it reports an error, and the
retry finds that out through the history row. `Settle` is the administrator's
correction. `PrepareAllocations` is the same recovery on behalf of an
administrator's page. `Crash` loses memory.

`Ledger` says what all of this must amount to: one reservation, one charge
that is the reported usage and never changes, an unknown usage that stays open
until corrected, and only charged requests forgotten. `LedgerKept` is that
`Allowance` implements it.

One anchor, one unit and one scheme; tokens serve as cost. The maximum of four
outstanding requests is the constant `MaxOutstanding`, and the 90 days of
retention the constant `Retention`; the checks use smaller values. The cap of
4096 rows per check and the deletion of request history after seven days are
not modelled: the models stay below both.

### ResetCredits

A call is `inspect`ing (it reads the provider's state), about to `reserve`
(the transaction that re-checks and inserts the attempt), `redeem`ing, or
about to `record` the answer. The attempt's key makes the provider's call
idempotent, which the code relies on; a call without an answer was executed or
dropped before its key is replayed. `Retry` replays the pending attempt with
its key and card. `SpendElsewhere` is a card used outside SubLane.
Days are the unit of time; one time zone; a weekly schedule is a daily one
with days left out. The throttle of checks (`ClaimResetCheck`) is left out: a
worker may check at any time.

### Credentials

A token is an access token and its refresh token. `Prepare` is `prepare` up to
the provider call, with its early ways out; a refresh keeps the mutex and ends
in `RefreshStored`, `RefreshNotStored`, `RefreshCanceled`, `RefreshFailed` or
`RefreshRefused`. A request's `held` is the variable `credential` of `Open`
and `used` the token that is really sent: `executeWithRetry` prepares a new
one inside its loop without telling `Open`. The provider's view (`issued`,
`renewable`, `denied`, `refused`) and the authorization a token descends from
(`root`, `latest`) exist to state the properties. A new authorization is of
the same identity (`sameIdentity` refuses others) and brings a token not seen
before. The kind of account never changes. Proxies and device metadata are left out.

Two consequences of the code that the model shows and no document contradicts:
a 401 for a token obtained inside the retry loop is reported with the older
one, so it is not followed by a refresh of the newer one in that request; and
a client that leaves during a refresh discards a rotation that came back
(`refresh.go:114`), so the next refresh presents a refresh token that has been
used up.

### Registry

A runtime is a number, handed out in the order in which they are built.
`acquireShared` and `acquireNew` are the two ways through `acquire`; a closed
registry changes nothing. Between `acquire` and `release` a caller may enter
the gateway (`begin`) and leave it (`finish`) any number of times.
`gateway.Close` is two steps: it refuses new requests, then waits for those
inside. `work` is the loop of a reset worker; a worker that is canceled inside
`Run` may still acquire a runtime. `idle` counts ticks since `lastUsed`, up to
the timeout. `Start` is called before `Close`, as in `main.go`.

### Schemes and Calendar

`Calendar` is pure: `DayStart`, `wallTime`, `Window` and `durationWindow` are
the code's searches, over zones whose offset changes finitely often; the run
has zones with no change, with one of one or two ticks in either direction at
several times of the day, and with two on the same or on neighbouring days. A
probe (`probes`) walks through all instants, so that the properties compare
neighbouring windows. The months are a table of where they begin in a year that
repeats. `Schemes` has
editors that preview a change, are shown the revisions and a time (`shown`),
and send them back as conditions. The change is one database transaction, and
nothing else writes meanwhile, but it reads the clock several times: its phases
are steps between which the clock ticks and the zone changes, and it may be
abandoned in each (`rollback`). `captured` remembers which revision a request
was admitted under. Validation of a configuration's fields is left out, the
editors send valid ones.

### Identity

`call[c]` is a call between what it verified without a lock (a password, a
signature, a link) and its transaction. Hashes, sessions, challenges, secrets
and recovery batches are fresh numbers. `spent` lists the codes that committed
transactions accepted, `signed` the counter of each passkey as its authenticator
counts it. The bound of parallel hashes (`acquire`) is `HashSlots`. A tick is
one step of the one-time codes. A call keeps the password's hash, the version of
the factors and whether the account was enabled, each as it read them;
`standsAsRead` says that they are still so when its transaction commits, and
`ChangeNotStale` asks it of every call that then changes an account, its
sessions or its challenges: logins, the five operations behind `withProof`,
enrolment, the use of passkeys and changes of the password.

### Workspaces

A console request is two steps: `requireUser` reads the membership, the
handler's transaction runs later. `term` numbers the memberships of a person, so
that a key can be told from one of an earlier membership. The queries that
decide what the console shows (`CanRestore`, `groupChoices`, `HasUsableKey`,
`CanRemove`) are written from their SQL, apart from the operations that accept
or refuse, and compared with them. A scheme is its recipients and whether it
has begun.

A row of `memberships` is written in two ways. Whoever has an account
(`registered`) gets, changes or loses a row in a transaction that asks
`CanManageTenant` again (`addMember`, `SetMemberRole`, `setMemberStatus`,
`RemoveMember`), and so does a new link (`issueInvitation`). A new account comes
with its row and without that question: `POST /members` (`memberCreated`)
relies on the role that `requireUser` read before the password was hashed,
and a registration (`registerInvitation`) on its link alone. `ManagersDecide`
states both: what needs a manager at the moment of the transaction, and what a
new account may bring, namely itself as an ordinary member with no grant, for a
request whose role was a manager's when it arrived, or for one unused link of a
workspace that is not suspended. `links` counts the unused and unexpired ones;
the two steps of a registration are in `Identity`.

### Alerts, Versions, Prices

`Alerts`: one check at a time looks, compares and sends; each send is outside
of the lock and may be received although its answer is lost. `told` and `fired`
record what the webhook received and which accounting periods an incident fired
in. `Versions`: versions are numbers, times are what is left of them. The check
runs without the lock (`flight`); `quiet` is the wait the last one asked for,
known to the model also when it could not be stored. `Prices`: a document is
a number and so is the price it gives; `writeCache` and `writeHash` are two
steps with a crash between them; the publisher replaces document and digest in
two steps as well.

### UsageCache and CatalogCache

Both share flights: a reader that finds the entry old begins a poll or joins
one. An entry belongs to a revision of the account (and, for catalogs, to a
contract); a later one replaces it while its flight goes on as an orphan. In
`UsageCache` the quota is one window of one limit and `consumed` the provider's
own count; `crossed` says that `warmUsage`, which reads its rows before it
takes the lock, has put an outdated row into the cache. In `CatalogCache` a
reader that looks at the row holds the cache's lock until it has answered,
except that a pool's rows are read before the lock is taken. `kept` says that
nothing replaced the entry, and no orphan was stored, since a read of the row.

### ModelRuntime

A model's state is a row and, while leases share it or it could not be
written, an object in memory. `failuresSeen` records the failures of the present
epoch (authorization and resume) as they were reported, each with the delay that
`retryDelay` made of it, an hour at most. `succeeded` holds the leases whose
request has succeeded and whose end is not yet recorded. `ClearedByNewer` is
about every step after which a row or the known state says less of a failure,
not only the ends of leases: it is such a success, admitted after all of the
failures, or the row had no cooldown left and the model is no longer offered.

### Selection

One member of one pool; the rest of the gateway is the `Conditions` an account
may be in. `schedule` is one selection: the bound account (`keepBound`), a move
to another (`moves`, `rebinds`), the parent's account, or the rotation.
`answered` records which account answered each model of a conversation, `turn`
how the rotation shared the requests since the candidates last changed. Where
the code walks the candidates and subtracts weights from a cursor, the model has
a set of `tickets`, one for each unit of weight, in the order of the candidates,
and the account that holds the ticket the cursor stands on.
`Availability` and `WorkspaceCapacity` are the console's and the alerts' views.
`AvailabilityAgrees` compares both with what a new request gets, and with each
other where the policy keeps no channel out; that they agree everywhere
(`CapacityAgrees`) is what the repository says and the code does not keep
(section 5).

### Exchange

The reader takes events from the provider, the loop hands them to the client;
the loop, the callback of a context and the handler may each close. Three
contexts end separately: the client's, the request's with its deadline, and
that of a detached stream, which has a timer of its own for the same deadline.
`movable` gathers what the threads wait for, and `StopsWhenOver` says that an
exchange that is to end and in which nothing is movable has been recorded;
`NobodyWaits` adds that `movable` is `ENABLED` of the threads.

### OAuthLogins and Backup

A call to the provider is in `calls` from its beginning to its answer, and its
login may be gone when it comes. `ages` is how long each login has been in
progress; with what is left of its time it never exceeds `Lifetime`, although
the provider may offer a device login more (`minTime`, `device.go:50`). `Backup` has archives named by the time they
were begun at, faults that only verification sees, and three actors on the
target directory: the console, the command line, and whoever takes a restored
instance away.

## 3. Runs

| Run | Checks | Bounds | States |
|---|---|---|---|
| `admission` | counters, queue, probe, recovery, cooldown, rate | 3 requests of one member, 1 account, queue of 1, delays 1 and 2, limits 1 and 2, member limit 1 or none, one Resume | 365 k |
| `admission_live` | no waiter stranded, waiters resolved, `Close` drains | 3 requests of 2 members, 2 pools that share an account, queue of 2 | 61 k |
| `requests` | ownership, refinement of `Ledger`, admission sees charges; selection | 3 requests of 2 members, one crash; selection below | 228 k |
| `allowance_windows` | types, overshoot, outstanding requests, pruning | 3 requests, windows of 1 and 3 ticks, 4 ticks | 1.39 M |
| `allowance_ratio` | overshoot of a shared quota | 4 requests of 2 members, one edit that moves shares | 456 k |
| `quotas` | reset cards; calendar; revisions of a scheme | 2 callers, 2 cards, 3 keys, 2 days, one crash; 8 zones, 24 instants; 2 locations saved in one order, 3 revisions, 2 open and 3 dialogs in all, 4 ticks, resets tabulated up to 16 | 867 k |
| `credentials` | founded and explicit reauthorization, authorization kept, served is current, fallback | codex and static key, 2 requests, 3 tokens, any restarts | 3.05 M |
| `console` | sessions, codes, passkeys, invitations, changes; who decides, keys, grants, reservations, what the console offers | 2 calls at a time. Identity: 4 users, 3 calls in all, 2 ticks; new and used installation. Workspace: 3 people of whom one has no account, 2 pools, 1 account and 1 channel, 2 keys, 4 steps | 736 k |
| `services` | registry with `Close`; alerts; versions; prices | 2 callers and a reset worker, 3 runtimes; 4 events of alerts; 4 of versions; 3 of prices | 106 k |
| `gateway` | usage, catalogs, models, exchange, logins, backups | see below | 956 k |
| `exchange_deadline` | the first finding of section 5 | one exchange with 2 events before the last | violated |
| `alerts_capacity` | the second finding of section 5 | those of `requests` | violated |

What a run checks is stated as a few named conjunctions, one per promise of a
component, of the parts that have a name and a comment of their own:

| Property | Run | Parts |
|---|---|---|
| `LeasesSound` | `admission` | `TypeOK`, `LeaseAccounting`, `MemberAccounting`, `QueueAccounting`, `SingleProbe` |
| `HealthByEvidence` | `admission` | `RecoveryByProbe`, `CooldownHolds` |
| `RequestsEnd` | `admission_live` | `NoStrandedWaiter`, `WaiterResolved`, `CloseDrains` |
| `SpendBounded` | `allowance_windows` | `TypeOK`, `OvershootBounded`, `OutstandingBounded`, `PruneKeepsUsage` |
| `CardsAccounted` | `quotas` | `TypeOK`, `SpendAccounted`, `ClaimedOnce` |
| `SpendsGuarded` | `quotas` | `NoSpendWhileUncertain`, `DailyLimitKept` |
| `ChangesAsShown` | `quotas` | `SchemesTypeOK`, `CommittedAsSeen`, `PreviewKept`, `RevisionsKept` |
| `RevisionsOrdered` | `quotas` | `OneSchedule`, `NotRetroactive`, `AnchorSchedule`, `WindowsWhole` |
| `CalendarSound` | `quotas` | `DayStartFirst`, `WallTimeFirst`, `WindowHolds`, `WindowsTile` |
| `AuthorizationSound` | `credentials` | `TypeOK`, `ReauthorizationFounded`, `AuthorizationKept` |
| `CredentialsSafe` | `credentials` | `ServedIsCurrent`, `ReauthorizationExplicit`, `FallbackUnrotated` |
| `SessionsSound` | `console` | `IdentityTypeOK`, `SessionsCurrent`, `FactorShown` |
| `UsedOnce` | `console` | `CodeSpentOnce`, `InvitationUsedOnce`, `OneOwner` |
| `ChangesInOrder` | `console` | `ChangeNotStale`, `CounterForward`, `NewSessionKept` |
| `MembershipGuarded` | `console` | `WorkspacesTypeOK`, `OwnerKept`, `ManagersDecide` |
| `KeysSound` | `console` | `KeyOfThisMembership`, `GrantsOfMembers`, `RevokedForEver` |
| `PoolsReserved` | `console` | `ReservedPoolExclusive`, `ReservedPoolKeys`, `BindingFollowsPool` |
| `ConsoleTrue` | `console` | `RestoreRestores`, `ChoicesUsable`, `ReadinessTrue`, `RemovalOffered` |
| `GatewaysSound` | `services` | `TypeOK`, `OneGateway`, `CloseComplete` |
| `AlertsTrue` | `services` | `AlertsTypeOK`, `FlightsFollowSettings`, `AcknowledgedAsSent` |
| `IncidentsEvidenced` | `services` | `ResolvedOnEvidence`, `OncePerCycle` |
| `VersionsSound` | `services` | `AnnouncedAsStored`, `NoDowngrade`, `SwitchedOffChecksDiscarded`, `ChecksSpaced` |
| `PricesSound` | `services` | `PricesOfOneDocument`, `RatesKept` |
| `ServicesSettle` | `services` | `CloseEnds`, `AlertsSettle`, `AutoCatchesUp`, `PricesCatchUp` |
| `UsageTrue` | `gateway` | `ReadUnderRevision`, `ExhaustedIsTrue`, `MemoryAsStored`, `FlightsOwned` |
| `ReadingsForward` | `gateway` | `ReadsInOrder`, `ResponsesOnlyRaise` |
| `CatalogTrue` | `gateway` | `DiscoveredAsAuthorized`, `ClosedQuietly`, `UnknownIsTrue` |
| `ProbesAlone` | `gateway` | `OneProbe`, `LeasesCounted` |
| `FailuresWeighed` | `gateway` | `WaitsRespected`, `ClearedByNewer`, `ThresholdWithinWindow` |
| `ExchangeKept` | `gateway` | `RecordStands`, `SuccessIsWhole`, `DrainUndisturbed` |
| `NobodyWaits` | `gateway` | `StopsWhenOver`, and `movable` is `ENABLED` |
| `ChoicesAsListed` | `requests` | `AvailabilityAgrees`, `SharesByWeight` |
| `ConversationsKept` | `requests` | `KeptOnAccount`, `StateStaysHome` |
| `LoginsOnce` | `gateway` | `LoginsBounded`, `EndedLoginsNeverAuthorize`, `ExchangedOnce` |
| `BackupsSafe` | `gateway` | `GoodArchiveKept`, `RestoredWhole`, `RestoredOnce`, `ExportsToAdmins` |

`RateChargedOnce`, `ActiveIsOwned`, `LedgerKept`, `AdmissionSeesCharges`
and `GroupOvershootBounded` have no parts.

Bounds of `gateway`. Usage: one request, 2 slots, 4 ticks, 2 changes by others.
Catalog: 2 readers, 2 discoveries, 2 ticks, 3 reads and changes together; 4 with
3 ticks were checked once, apart. Models: 2 leases, threshold of 2, 4 ticks, 4
events. Logins: 3 sessions, a limit of 2. Backups: 1 kept, 3 time stamps, 4
events. Selection, in `requests`: 4 accounts, 2 conversations, 6 policies, 12
conditions, 3 steps.

Why the bounds are enough to be of interest: two requests suffice for every
race between a late and a current answer, a third for a queue that is full or
a wake-up given to the wrong waiter; two delays for a shorter Retry-After after
a longer one; two windows for one that outlives the other; two calls with a
third after them for a change that was verified under an older state; one edit
or one crash for everything it can interrupt, since its effect does not depend
on how often it happened. For each property a plausible mistake in the code is
recorded that these bounds suffice to notice, and for many one for each part.
Where a theorem exists it holds for every bound.

The two runs about spending are of a process that keeps running (`SteadySpec`);
restarts of the ledger are in `requests`, and the theorems are about both.

Deadlock is checked in `admission`, `admission_live` and `quotas` (and in
`credentials`, where a restart is always possible). The others may stop: their
requests all end, their clock or their count of events stops at its bound, or, in the registry and the exchange, the
system has closed. That no thread of an exchange waits for another one for ever
is `NobodyWaits`, which lets it stop only when it is over.

Fairness. `admission_live` assumes that the queue's ticker fires again (every
250 ms, `queue.go:90`), that a goroutine that asks for the mutex gets it, which
Go's mutex guarantees, that shutdown cancels every request (`stopRuntime`
cancels the context all requests derive from), that a refused request finishes
(`Open`'s deferred `fail`), and that a canceled one finishes (the exchange's
`AfterFunc`). The clock may stand still, so no deadline helps `NoStrandedWaiter`;
`WaiterResolved` adds that time passes. A request that is neither canceled nor
answered is not assumed to end. The registry assumes that the goroutines of
`Start` and `Close` run, that a request inside a gateway that is being closed
ends (`stopRuntime` cancels it), and that a canceled reset worker releases its
runtime and leaves `Run`; the last two are strong fairness because a worker may
make further calls first, of which `Run` has finitely many. Nothing is assumed
of requests of open gateways. Alerts assume that the loop of `Start` runs a
check every minute and that a send ends within its timeout; versions that their
loop asks every minute and that a check ends within its timeout; prices that
`Refresh` runs at every interval and that the publisher completes what it
began. That an answer is received at all is bounded by the number of events, so
`AlertsSettle`, `AutoCatchesUp` and `PricesCatchUp` hold once failures stop.

## 4. Proofs

All proofs are for any numbers of requests, accounts, members, callers, cards,
tokens, users, pools, keys, models, leases, sessions and archives and any
limits, under the named assumptions on constants in the modules: bounds are
natural numbers, maps have the right domains, placeholders are no members of the
sets, and the sets whose members are counted (requests, leases, workspaces) are
finite; an allowance has some window lengths, finitely many and positive
(`allocations.go:200`), and the calendar windows tabulated for `Schemes` end
after every instant they hold, as `WindowHolds` states of `Window`. A limit that the code requires to be positive is positive
(`TransientWindow` and `FailureCap`, `tuning.go:28`; `MaxOwned`,
`tenants.go:25`; the slots, lifetimes and budgets of `Identity`). `DelaysAssumption` and
`BackoffAssumption` say that a computed delay is a natural number. Of the
calendar, `CalendarAssumption` says that the table of months increases,
`CalendarsAssumption` that a schedule by day or month passes
`validResetSchedule`, and `ZonesAssumption` that a zone has finitely many
changes, offsets of at most a day, and a civil date that never goes back: a
clock may be set back to the midnight before but not across it, as
Newfoundland's was, at 00:01, until 2011. TLC evaluates the assumptions for the
constants of its runs. One
assumption is about a bound of a model and not about the code: `Founded <=
MaxFresh` (the secrets an installation begins with are within the bound).

The invariants that carry the proofs, and why each is needed:

* `Admission_proofs`. `CountersExact` proves `LeaseAccounting`,
  `MemberAccounting` and `QueueAccounting`, which are inductive together with
  the fact that a queued request holds its member lease.
  `SingleProbe` needs `ProbeAlone` (a request admitted in probation is the
  account's only lease), and `RecoveryByProbe` needs `EraOrder`: sequence
  numbers and revisions handed out agree with the order of events, so the
  comparison `lastFailureSequence < sequence` of `finish` means what its
  comment says. `SavedWhenQuiet` ties the memory to the saved rows for
  `CooldownHolds`.
* `Admission_proofs`, selection. A conversation has one binding in a scope, dead
  ones included (`OneEach`), and as long as its last answer is remembered the
  binding lives and names the account and the model of that answer
  (`ServedBy`): a binding that was not renewed is at most the half hour of
  `TouchSlack` short. A binding that was never rebound has no other account
  behind it; of one that was, only the model it answered last is known to be of
  its account, which is why `stays` refuses a continuation of any other model.
  An automatic request that is served through the binding of another scope
  counts in both, and the two then agree.
  For `ChoicesAsListed` the invariant is short (`ChoiceInv`: conditions are
  possible ones, and `turn` counts what the cursor has passed); the argument is
  in the lemmas. Every ticket of a period is held by one candidate, since the
  tickets of a candidate are as many as it weighs and all of them together as
  many as the period, and a candidate of weight *w* gets *w* of any period's
  tickets wherever it starts: full rounds, and what is left of the last one. A
  listing is compared with a request of no conversation gate by gate, in the
  order in which both functions ask.
* `Allowance_proofs`. `Lifecycle` relates an observation, its history row and
  its entry, and `NothingBeforeRecovery` says nothing runs between a start and
  the first recovery; from them every step of `Allowance` is a step of
  `Ledger` or leaves it unchanged (`SettlementImplementsLedger`), and
  `AdmissionSeesCharges` and `ActiveIsOwned` follow.
  The bounds on spending (`SpendInv`) are about sums over sets of requests. A sum
  is counted unit by unit (`sumOf`), so that one more request, or one that
  settles, is one more set in a disjoint union and the library's theorems on
  cardinality apply. Every entry's member has a share of the revision it was
  admitted under, and its reset is no earlier than the end of any window it
  started in (`AdmittedUnder`); the longest of the windows decides that, and the
  greatest of finitely many lengths is found by the well-foundedness of strict
  subsets, without an induction over an operator. What a request may take is
  decided when it is admitted, against what is used and held then; afterwards
  its own part is at most what was reserved. Of the open requests only those
  with a limit are counted (`LimitedFew`): without one any number may be open.
  What was pruned is past its reset (`PrunedPast`), hence out of every window.
* `Quotas_proofs`, reset cards. `SpendAccounted` needs that the call between
  reservation and record works on the one pending row (`OnePending`,
  `Underway`), and that a refusal about to be recorded is the provider's own
  (`AnswerTruthful`); `DailyLimitKept` needs that pruned rows are of earlier
  days; `ClaimedOnce` that the schedule stays ahead of every occurrence on
  record.
* `Quotas_proofs`, calendar. A date that never goes back has one instant that
  reaches it first (`First`): the search by halving finds it because below it no
  date has reached, from it on all have, and a midnight is it exactly if an
  earlier date precedes it (`SearchFinds`, `DayStartIs`). Within a stretch of
  constant offset the wall clock reaches a time at once or at the candidate, so
  the least candidate inside its own stretch is the first instant of all
  (`SpanReaches`). A reset thus falls between the beginnings of its day and of
  the next, hence in its period, since a month has the day that was chosen or
  ends with its last (`ResetInPeriod`); resets rise with their periods
  (`ResetsRise`), and the window of an instant is between the two resets around
  it (`WindowBetween`), whichever side of its own period's reset it is on. The
  search is a recursive function; what it returns is proved by a least
  counterexample, not by induction.
* `Quotas_proofs`, revisions. The properties of `RevisionsOrdered` speak of what
  has been in effect; the invariant speaks of what nothing supersedes at its own
  time, scheduled or not (`Line`): all that is to come starts at one time
  (`OneAhead`), anchors rise with time (`Rising`), equal anchors mean equal
  windows (`SharedAnchors`), and each anchor ends a window of the one before
  (`Unbroken`) or, before it is in effect, of the revision in effect
  (`AheadWhole`, `FirstAhead`). Inserting at one of the proposed times, inserting
  now with the windows in effect, deleting what has not started and the passing
  of time each keep it (`LineAhead`, `LineNow`, `LineStarted`, `LinePasses`).
  A transaction prepares tables for a time at which it has yet to commit: what it
  has written is in line if the revision that was scheduled has still not started
  (`Written`), which is what `finishChange` asks and what keeps it so until the
  commit (`Finished`). The ids an editor sends back name the rows it was shown,
  since a row is never changed and an id never reused (`ShownRow`), and what a
  request captured is the last to have started by then (`Captures`).
* `Credentials_proofs`. While a refresh is under way the row is as it was read
  (`RefreshOwned`), tokens only move forward (`TokensForward`), so a request's
  token equals the stored one only if nothing replaced it, and each recorded
  rejection is the provider's denial of that token (`RejectionsFounded`).
* `Services_proofs`, registry. `OneGateway` needs the exact reference count
  (`Counted`): the reaper's test of `active` means that nobody uses the runtime.
  `CloseComplete` needs that every runtime built is in the map, with the
  reaper, with `Close`, or closed (`Places`), that a closed gateway has let
  everybody out (`InsideOpen`), and that `Close` has joined the reaper
  (`Shutdown`).
* `Services_proofs`, alerts. A row that a check read and has still to send is the
  stored row, or the rows were cleared since (`Follows`), and no key is sent
  twice (`ToSend`, `OnItsWay`); what a check calls recovered it saw well since it
  began, in a period that is not of the future (`Evidence`); and no row is of a
  later period than the current one, nor has a key fired in one later than its
  row's (`RowsPast`).
* `Services_proofs`, versions and prices. Beside what the run checks: a check that
  was switched off is automatic and of an earlier generation (`OffIsEarlier`);
  the wait between checks is kept in the record, or in the process when it could
  not be stored (`WaitIsKept`); and a refresh holds the body of the digest that is
  saved with it (`RefreshTypes`).
* `Identity_proofs`. Passwords, factors and codes are verified before the
  transaction that uses them, so what the transaction finds may have changed.
  The invariant says what it can find: an accepted code is one that its row
  accepts no more (`Used`), the secrets that wait in challenges are of no account
  and of no other challenge (`SecretsWaiting`), a spent code stays behind its
  factor's counter (`SpentPast`), rows keep secrets that have been handed out
  (`RowIn`), and a call that ends in a step is the one that acts (`Acting`).
* `Workspaces_proofs`. The role of a request is read before its transaction, so
  nothing about it can be part of the invariant. What every transaction keeps,
  whatever it read, are the `Tables`: one owner, who is the founder; rows are of people with an
  account; unrevoked keys belong to the user's present term; a key's binding is to its own pool;
  grants name members; reserved pools share no account and no channel. That a
  key of an earlier term cannot come back needs that terms are never reused,
  which `Counted` gives: a member's term and the requests under way account for
  the steps taken.
* `Gateway_proofs`, models. The leases of an epoch share its object and count it
  exactly (`LeasesShare`, `Counted`), so a probe's test of `inFlight` is a test
  that nobody else is on the model. For `FailuresWeighed`: the object, or the row
  once the object is dropped, holds every wait that a failure of the epoch asked
  for, has the version and at least the cooldown of the row, and counts no
  failure of its window twice (`Weighed`); and a request that shares an object
  came after every failure that the object does not know of (`Newer`), so the
  comparison with `lastFailure` means what it says; what no row keeps and no lease
  shares is gone only after a restart or with the last lease. A restart rewrites the
  failures of the history, so their number has to be shown unchanged
  (`FailuresLeft`).
* `Gateway_proofs`, usage. Every reading of the account's present revision,
  wherever it is (row, entry, poll, response, warm-up), was begun under that
  revision and is true of the open window (`Sources`); the entry knows the poll
  that is under way for it (`FlightsKnown`); and a poll that lost its entry is of
  an earlier revision, unless a warm-up has crossed it (`OrphansOld`), which is
  where the order of readings would be lost if a poll stored without comparing.
* `Gateway_proofs`, catalogs. The entry knows its discovery unless it was replaced
  (`EntryKnows`), and shows what a reader that read the row too early has missed
  (`MissedIsShown`); what was discovered under the present revision was discovered
  with the present authorization (`AskedAsAuthorized`).
* `Gateway_proofs`, logins. A call at the provider finds the login it was made for
  as it was, or gone (`CallsKnow`): a poll is the only one of its login, and an
  exchange took its login out of the table before it was made.
* `Gateway_proofs`, exchange. Closing releases the context, closes the body and
  records, in this order and once (`ClosedInOrder`); a stream ends without an
  error and without a refusal of the client only at a terminal event
  (`GoodEnd`), and a success is decided only by a loop that has read and
  delivered one (`GoodOutcome`), so a closing that comes from a context records
  no success that was not decided before; and while the loop is with a detached
  stream only the end of that stream's context closes it (`LoopUndisturbed`).
  `ExchangesEnd` needs to know where the threads can be at the same time
  (`Together`): a reader that waits for a reply has the loop at its event, a loop
  that waits for the reader has refused it an event, and the loop leaves the
  stream only after the reader has stopped.
* `Gateway_proofs`, backups. The run's archive is unique, is not verified until it
  is read back, and is not among those a rotation removes (`RunOwnsArchive`).

These theorems state the properties of the runs, part by part, for every value
of the constants: `LeasesAreSound`, `HealthIsByEvidence`, `RateIsChargedOnce` (admission);
`ConversationsAreKept`, `ChoicesAreAsListed` (selection);
`ActiveEntriesOwned`, `AdmissionComplete`, `SettlementImplementsLedger`,
`SpendIsBounded`, `GroupIsBounded` (allowance); `CardsAreAccounted`, `SpendsAreGuarded` (reset cards);
`CalendarIsSound` (calendar);
`ChangesAreAsShown`, `RevisionsAreOrdered` (revisions);
`AuthorizationIsSound`, `CredentialsAreSafe` (credentials); `SessionsAreSound`,
`UsesAreOnce`, `ChangesAreInOrder` (identity); `MembershipIsGuarded`,
`KeysAreSound`, `PoolsAreReserved`, `ConsoleIsTrue` (workspaces);
`GatewaysAreSound`, `AlertsAreTrue`, `IncidentsAreEvidenced`,
`VersionsAreSound`, `PricesAreSound` (services); `ProbesAreAlone`,
`FailuresAreWeighed`, `UsageIsTrue`, `ReadingsGoForward`, `CatalogIsTrue`,
`ExchangesAreWhole`, `LoginsAreOnce`, `BackupsAreSafe` (gateway).
`ExchangesEnd` states the first part of `NobodyWaits`. The accounts and the
conditions of `Selection` are assumed to be what the tables can hold: no two rows
of one account, weights that are natural numbers, and gates that the code knows
(`RowsAssumption`, `ConditionsAssumption`).

Only model-checked: the liveness properties (`RequestsEnd`, `ServicesSettle`),
since fairness is out of the prover's reach; and that `movable` is `ENABLED` of
the threads, the second part of `NobodyWaits`.

## 5. Findings and observations

First finding (`exchange_deadline`). `PRODUCT.md:95` says that request deadlines do
not penalize account health. A detached stream is read under a context with a
timer of its own for the same deadline (`gateway.go:309`). If that timer fires
before the request's, the read fails while the request is still live, and
`classify` (`exchange.go:179`) records an interruption by the provider, which
counts as a transient failure of the account's model. The idle limit and a
failed heartbeat may be recorded as an interruption for the same reason.

Second finding (`alerts_capacity`). The comment on the view
`routable_group_resources` (`016_resource_routing.sql:7`) says "Readiness and
alerts must apply the same explicit API fallback policy as admission", and
`PRODUCT.md:29` that discovery, availability, readiness and alerts apply the
same fallback policy. `WorkspaceCapacity` neither reads the view nor gives its
policy the pool's routing preference and fallback (`availability.go:233`). In a
subscription-first pool without fallback, in which every subscription that
offers a model has become unusable and a channel still offers it, requests are
refused and `Availability` calls the model unavailable, but the alerts call it
available and stay silent. TLC reaches this after three changes; in every pool
whose policy keeps no channel out the two agree, which `ChoicesAreAsListed`
proves.

What the models show besides:

* `POST /members` asks for the role when the request arrives and not again in
  the transaction that follows the hashing of the password
  (`auth/members.go:53`), other than the four operations on existing accounts:
  somebody who has lost the role meanwhile still adds a member, also to a
  workspace that was suspended meanwhile. The new member is an ordinary one with
  no grants.
* If the alert settings are changed and changed back between two sends of one
  check, the comparison with the settings it began under does not notice, and it
  saves a pending row again that the change had cleared (`alerts.go:385`).
* A rate limit of the release publisher that could not be stored is honoured for
  15 minutes only, and a manual sync that joins a check which is discarded
  because automatic checks were switched off reports success.
* `warmUsage` may replace a newer entry of the cache by the row it read earlier;
  until the next reading the cache is then behind the database.
* The cursor of the rotation is shared by models with different candidates, and
  advances when the limit on bindings then refuses the request. Requests with an
  explicit provider and automatic ones bind a conversation separately, and an
  automatic one may renew the model of the other's binding.
* A read of a pool's catalogs may say "unknown and idle" for an account whose
  entry was replaced or pushed out after the rows were read, or whose catalog
  was stored by a discovery of a contract that had changed. A forced refresh
  that waited for such a discovery answers what is stored without an error.
* The two consequences named under Credentials.

## 6. Plan

Done: the modules of section 2. Left, in this order:

1. Composition of `Selection` with `Admission` in place of `Eligible`, with the
   re-admission of `recheckAttempt`.
2. The merging of catalogs, software updates.

## 7. Not modelled

Protocol conversion and HTTP (`upstream`, most of `server`), migrations and
plain row access (`storage`), encryption (`vault`), the arithmetic of prices,
archive bytes, report sums, the extraction of a conversation from a request's
text, content screening, the demo instance, configuration, metrics, logging and
the web console: their difficulty is in bytes and text, not in the order of
events. Software updates hand a file to a worker that is not in this
repository. Bindings of conversations without a model, from before migration
17, the validation of submitted configurations, and proxies and priorities of
accounts are left out. `PROJECT.json` gives the reason for each component.
