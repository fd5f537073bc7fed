------------------------------ MODULE Admission ------------------------------
(***************************************************************************)
(* Admission of gateway requests to upstream accounts: one workspace's     *)
(* gateway.Service (internal/gateway).  A request begins, takes a member   *)
(* lease, selects an account and leases it, or waits in its pool's bounded *)
(* queue until capacity changes; it finishes once, releasing what it       *)
(* holds.  Everything between s.mu.Lock and s.mu.Unlock is one step, and   *)
(* the queue's select, which runs unlocked, is a separate one.             *)
(*                                                                         *)
(* Time is relative: cooldown[a] is CooldownUntil - now and timeLeft[r] is *)
(* deadline - now, both 0 once passed, so the clock needs no bound.        *)
(***************************************************************************)
EXTENDS Integers, FiniteSets

CONSTANTS
  Requests,      \* observations, each used once
  Accounts,      \* upstream accounts
  Groups,        \* pools
  Members,       \* users, the owners of requests
  Owner,         \* Owner[r]: the member a request belongs to
  Group,         \* Group[r]: the pool it is sent to
  Pool,          \* Pool[g]: the accounts listed in pool g
  Eligible,      \* Eligible[r]: accounts of its pool that policy, catalog and
                 \* affinity leave to r (a bound session has exactly one)
  QueueLimit,    \* policy.QueueLimit: waiters per pool
  WaitTimeout,   \* policy.QueueTimeout, in ticks
  Delays,        \* cooldowns retryDelay may return, in ticks (at least 1)
  Limits,        \* account limits an administrator sets (at least 1)
  MemberLimits,  \* member concurrency limits (0: unlimited)
  RateLimits,    \* member requests per minute (0: unlimited)
  MaxRevision    \* bound on the number of Resume calls per account

NoAccount == "none"

ASSUME SetsAssumption ==
  /\ IsFiniteSet(Requests)
  /\ NoAccount \notin Accounts
  /\ Owner \in [Requests -> Members]
  /\ Group \in [Requests -> Groups]
  /\ Pool \in [Groups -> SUBSET Accounts]
  /\ Eligible \in [Requests -> SUBSET Accounts]

ASSUME BoundsAssumption ==
  /\ QueueLimit \in Nat
  /\ WaitTimeout \in Nat \ {0}
  /\ Delays \subseteq Nat \ {0}
  /\ Limits \subseteq Nat \ {0}
  /\ MemberLimits \subseteq Nat
  /\ RateLimits \subseteq Nat
  /\ MaxRevision \in Nat

VARIABLES
  \* one observation
  phase,         \* where Open stands
  memberLeased,  \* observation.memberLeased
  account,       \* observation.record.AccountID once leased
  seq,           \* observation.sequence
  rev,           \* observation.revision
  canceled,      \* the request context is done
  timeLeft,      \* ticks to the queue deadline
  \* one account (gateway.Runtime)
  enabled, maxConcurrency, inFlight, cooldown, failures,
  lastFailureSequence, revision,
  saved,         \* the account_runtime row
  \* one member
  memberActive, memberMax, rateLimit, rate,
  \* one pool
  waiting, channel,
  \* the service
  sequence, closed,
  \* history: what has happened to the account since the request was admitted
  era

requestVars == <<phase, memberLeased, account, seq, rev, canceled, timeLeft>>
healthVars  == <<inFlight, cooldown, failures, lastFailureSequence, revision, saved>>
adminVars   == <<enabled, maxConcurrency, memberMax, rateLimit>>
memberVars  == <<memberActive, rate>>
queueVars   == <<waiting, channel>>
serviceVars == <<sequence, closed>>
vars == <<requestVars, healthVars, adminVars, memberVars, queueVars, serviceVars, era>>

Phases == {"new", "begun", "waiting", "awake", "refused", "leased", "done"}

TypeRequests ==
  /\ phase \in [Requests -> Phases]
  /\ memberLeased \in [Requests -> BOOLEAN]
  /\ account \in [Requests -> Accounts \cup {NoAccount}]
  /\ seq \in [Requests -> Nat]
  /\ rev \in [Requests -> Nat]
  /\ canceled \in [Requests -> BOOLEAN]
  /\ timeLeft \in [Requests -> Nat]
  /\ era \in [Requests -> {"fresh", "overtaken", "superseded"}]

TypeHealth ==
  /\ inFlight \in [Accounts -> Nat]
  /\ cooldown \in [Accounts -> Nat]
  /\ failures \in [Accounts -> 0..16]
  /\ lastFailureSequence \in [Accounts -> Nat]
  /\ revision \in [Accounts -> Nat]
  /\ saved \in [Accounts -> [cooldown : Nat, failures : 0..16, revision : Nat]]

TypeService ==
  /\ enabled \in [Accounts -> BOOLEAN]
  /\ maxConcurrency \in [Accounts -> Limits]
  /\ memberMax \in [Members -> MemberLimits]
  /\ rateLimit \in [Members -> RateLimits]
  /\ memberActive \in [Members -> Nat]
  /\ rate \in [Members -> Nat]
  /\ waiting \in [Groups -> Int]
  /\ channel \in [Groups -> {"none", "empty", "full"}]
  /\ sequence \in Nat
  /\ closed \in BOOLEAN

TypeOK == TypeRequests /\ TypeHealth /\ TypeService

-----------------------------------------------------------------------------

Init ==
  /\ phase = [r \in Requests |-> "new"]
  /\ memberLeased = [r \in Requests |-> FALSE]
  /\ account = [r \in Requests |-> NoAccount]
  /\ seq = [r \in Requests |-> 0]
  /\ rev = [r \in Requests |-> 0]
  /\ canceled = [r \in Requests |-> FALSE]
  /\ timeLeft = [r \in Requests |-> 0]
  /\ enabled = [a \in Accounts |-> TRUE]
  /\ maxConcurrency \in [Accounts -> Limits]
  /\ inFlight = [a \in Accounts |-> 0]
  /\ cooldown = [a \in Accounts |-> 0]
  /\ failures = [a \in Accounts |-> 0]
  /\ lastFailureSequence = [a \in Accounts |-> 0]
  /\ revision = [a \in Accounts |-> 0]
  /\ saved = [a \in Accounts |-> [cooldown |-> 0, failures |-> 0, revision |-> 0]]
  /\ memberActive = [u \in Members |-> 0]
  /\ memberMax \in [Members -> MemberLimits]
  /\ rateLimit \in [Members -> RateLimits]
  /\ rate = [u \in Members |-> 0]
  /\ waiting = [g \in Groups |-> 0]
  /\ channel = [g \in Groups |-> "none"]
  /\ sequence = 0
  /\ closed = FALSE
  /\ era = [r \in Requests |-> "fresh"]

-----------------------------------------------------------------------------
(* State formulae *)

Leases(a)  == {r \in Requests : phase[r] = "leased" /\ account[r] = a}
Holders(u) == {r \in Requests : Owner[r] = u /\ memberLeased[r]}
Waiters(g) == {r \in Requests : Group[r] = g /\ phase[r] \in {"waiting", "awake"}}

\* accountAdmission's three answers for an account that is not disabled.  In
\* probation (a cooldown that has passed) one lease at a time may probe it.
Probation(a) == failures[a] > 0
Cooling(a)   == cooldown[a] > 0

\* Mutant of Busy: an account back from its cooldown takes its full load at once.
BusyWithoutProbe(a) == ~Cooling(a) /\ inFlight[a] >= maxConcurrency[a]

Busy(a) == /\ ~Cooling(a)
           /\ \/ inFlight[a] >= maxConcurrency[a]
              \/ Probation(a) /\ inFlight[a] > 0

\* The accounts selectAllocationAccount may return: rotation, weights and rank
\* only choose among them.
Candidates(r) == {a \in Eligible[r] : enabled[a] /\ ~Cooling(a) /\ ~Busy(a)}
SomeBusy(r)   == \E a \in Eligible[r] : enabled[a] /\ Busy(a)

\* Mutant of Expired: the queue's timer is not looked at.
ExpiredByContext(r) == canceled[r] \/ closed

\* The checks at the head of leaseAccount's loop.
Expired(r) == canceled[r] \/ closed \/ (phase[r] = "awake" /\ timeLeft[r] = 0)

\* admitMember for a request without a member lease, recheckMember for a waiter
\* (which already holds one, so its own lease does not count against it).
MemberAdmits(r) ==
  LET u == Owner[r] IN
  IF memberLeased[r]
  THEN memberMax[u] = 0 \/ memberActive[u] <= memberMax[u]
  ELSE /\ memberMax[u] = 0 \/ memberActive[u] < memberMax[u]
       /\ rateLimit[u] = 0 \/ rate[u] < rateLimit[u]

-----------------------------------------------------------------------------
(* The request's steps *)

begin(r) ==
  /\ phase[r] = "new" /\ ~closed
  /\ phase' = [phase EXCEPT ![r] = "begun"]
  /\ UNCHANGED <<memberLeased, account, seq, rev, canceled, timeLeft, healthVars,
                 adminVars, memberVars, queueVars, serviceVars, era>>

\* Mutant of Cancel: shutdown does not reach a request that holds a lease.
CancelUnleased(r) ==
  /\ phase[r] \notin {"new", "done", "leased"} /\ ~canceled[r]
  /\ canceled' = [canceled EXCEPT ![r] = TRUE]
  /\ UNCHANGED <<phase, memberLeased, account, seq, rev, timeLeft, healthVars,
                 adminVars, memberVars, queueVars, serviceVars, era>>

\* The client leaves, or runContext's AfterFunc cancels the request on Close.
Cancel(r) ==
  /\ phase[r] \notin {"new", "done"} /\ ~canceled[r]
  /\ canceled' = [canceled EXCEPT ![r] = TRUE]
  /\ UNCHANGED <<phase, memberLeased, account, seq, rev, timeLeft, healthVars,
                 adminVars, memberVars, queueVars, serviceVars, era>>

\* Mutant of LeaveQueue: the clean-up is skipped on the loop's early returns.
LeaveQueueUnlessExpired(r) ==
  LET g == Group[r] IN
  IF phase[r] = "awake" /\ ~Expired(r)
  THEN /\ waiting' = [waiting EXCEPT ![g] = @ - 1]
       /\ channel' = [channel EXCEPT ![g] = IF waiting[g] = 1 THEN "none" ELSE @]
  ELSE UNCHANGED queueVars

\* leaseAccount's deferred clean-up: the last waiter removes the pool's channel.
LeaveQueue(r) ==
  LET g == Group[r] IN
  IF phase[r] = "awake"
  THEN /\ waiting' = [waiting EXCEPT ![g] = @ - 1]
       /\ channel' = [channel EXCEPT ![g] = IF waiting[g] = 1 THEN "none" ELSE @]
  ELSE UNCHANGED queueVars

\* Mutant of TakeMember: every pass through the loop takes a rate unit.
TakeMemberEveryPass(r) ==
  LET u == Owner[r] IN
  /\ memberLeased' = [memberLeased EXCEPT ![r] = TRUE]
  /\ memberActive' = [memberActive EXCEPT ![u] = IF memberLeased[r] THEN @ ELSE @ + 1]
  /\ rate' = [rate EXCEPT ![u] = IF rateLimit[u] = 0 THEN @ ELSE @ + 1]

\* admitMember's effect; a waiter keeps the lease and the rate unit it has.
TakeMember(r) ==
  LET u == Owner[r] IN
  /\ memberLeased' = [memberLeased EXCEPT ![r] = TRUE]
  /\ memberActive' = [memberActive EXCEPT ![u] = IF memberLeased[r] THEN @ ELSE @ + 1]
  /\ rate' = [rate EXCEPT ![u] = IF memberLeased[r] \/ rateLimit[u] = 0 THEN @ ELSE @ + 1]

InLease(r) == phase[r] \in {"begun", "awake"}

Refuse(r) ==
  /\ phase' = [phase EXCEPT ![r] = "refused"]
  /\ LeaveQueue(r)
  /\ UNCHANGED <<account, seq, rev, canceled, timeLeft, healthVars, adminVars,
                 serviceVars, era>>

\* Returns before the member is admitted: a done context, shutdown, a passed
\* deadline, a failed settlement or key check, or a member limit.
leaseRefusedEarly(r) ==
  /\ InLease(r)
  /\ Refuse(r)
  /\ UNCHANGED <<memberLeased, memberVars>>

leaseExpired(r) == Expired(r) /\ leaseRefusedEarly(r)

\* prepareAllocation or the member and key rows of other components refuse.
leaseUnprepared(r) == ~Expired(r) /\ leaseRefusedEarly(r)

leaseMemberLimited(r) == ~Expired(r) /\ ~MemberAdmits(r) /\ leaseRefusedEarly(r)

MemberPassed(r) == InLease(r) /\ ~Expired(r) /\ MemberAdmits(r) /\ TakeMember(r)

\* No account is admissible and none is merely busy (cooling, disabled), or the
\* model lease, the allowance reservation or a query fails after selection.
leaseUnavailable(r) ==
  /\ MemberPassed(r)
  /\ ~SomeBusy(r) \/ Candidates(r) # {}
  /\ Refuse(r)

leaseQueueFull(r) ==
  /\ MemberPassed(r)
  /\ Candidates(r) = {} /\ SomeBusy(r)
  /\ phase[r] = "begun" /\ waiting[Group[r]] >= QueueLimit
  /\ Refuse(r)

\* The timer is made on the first wait only.
Deadline(r) == IF phase[r] = "begun" THEN WaitTimeout ELSE timeLeft[r]

leaseWait(r) ==
  LET g == Group[r] IN
  /\ MemberPassed(r)
  /\ Candidates(r) = {} /\ SomeBusy(r)
  /\ phase[r] = "begun" => waiting[g] < QueueLimit
  /\ phase' = [phase EXCEPT ![r] = "waiting"]
  /\ timeLeft' = [timeLeft EXCEPT ![r] = Deadline(r)]
  /\ waiting' = [waiting EXCEPT ![g] = IF phase[r] = "begun" THEN @ + 1 ELSE @]
  /\ channel' = [channel EXCEPT ![g] = IF @ = "none" THEN "empty" ELSE @]
  /\ UNCHANGED <<account, seq, rev, canceled, healthVars, adminVars, serviceVars, era>>

leaseGranted(r) ==
  /\ MemberPassed(r)
  /\ \E a \in Candidates(r) :
       /\ phase' = [phase EXCEPT ![r] = "leased"]
       /\ account' = [account EXCEPT ![r] = a]
       /\ inFlight' = [inFlight EXCEPT ![a] = @ + 1]
       /\ sequence' = sequence + 1
       /\ seq' = [seq EXCEPT ![r] = sequence + 1]
       /\ rev' = [rev EXCEPT ![r] = revision[a]]
       /\ era' = [era EXCEPT ![r] = "fresh"]
  /\ LeaveQueue(r)
  /\ UNCHANGED <<canceled, timeLeft, cooldown, failures, lastFailureSequence, revision,
                 saved, adminVars, closed>>

leaseAccount(r) ==
  \/ leaseExpired(r)
  \/ leaseUnprepared(r)
  \/ leaseMemberLimited(r)
  \/ leaseUnavailable(r)
  \/ leaseQueueFull(r)
  \/ leaseWait(r)
  \/ leaseGranted(r)

-----------------------------------------------------------------------------
(* The queue's select *)

Wake(r) ==
  /\ phase[r] = "waiting"
  /\ phase' = [phase EXCEPT ![r] = "awake"]
  /\ UNCHANGED <<memberLeased, account, seq, rev, canceled, timeLeft, healthVars,
                 adminVars, memberVars, waiting, serviceVars, era>>

wakeTimer(r) == (canceled[r] \/ timeLeft[r] = 0) /\ Wake(r) /\ UNCHANGED channel

\* Mutant of wakeRetry: waiters rely on capacity notifications alone.
wakeRetryNever(r) == FALSE /\ Wake(r) /\ UNCHANGED channel

\* The 250 ms ticker.
wakeRetry(r) == Wake(r) /\ UNCHANGED channel

wakeToken(r) ==
  /\ channel[Group[r]] = "full"
  /\ Wake(r)
  /\ channel' = [channel EXCEPT ![Group[r]] = "empty"]

\* notifyCapacity: a full channel absorbs the token; when the lookup of the
\* account's pools fails, every waiting pool is told.
notifyCapacity(a) ==
  \E told \in {{g \in Groups : a \in Pool[g]}, Groups} :
    channel' = [g \in Groups |->
                  IF g \in told /\ channel[g] # "none" THEN "full" ELSE channel[g]]

-----------------------------------------------------------------------------
(* finish *)

\* Nothing reads a finished observation again.
Drop(r) ==
  /\ phase' = [phase EXCEPT ![r] = "done"]
  /\ account' = [account EXCEPT ![r] = NoAccount]
  /\ seq' = [seq EXCEPT ![r] = 0]
  /\ rev' = [rev EXCEPT ![r] = 0]
  /\ canceled' = [canceled EXCEPT ![r] = FALSE]
  /\ timeLeft' = [timeLeft EXCEPT ![r] = 0]

\* Mutant of ReleaseMember: a request refused an account keeps its member lease.
ReleaseMemberOfLease(r) ==
  /\ memberLeased' = [memberLeased EXCEPT ![r] = FALSE]
  /\ memberActive' = [memberActive EXCEPT ![Owner[r]] =
                        IF phase[r] = "leased" THEN (IF @ <= 1 THEN 0 ELSE @ - 1) ELSE @]
  /\ UNCHANGED rate

ReleaseMember(r) ==
  /\ memberLeased' = [memberLeased EXCEPT ![r] = FALSE]
  /\ memberActive' = [memberActive EXCEPT ![Owner[r]] =
                        IF memberLeased[r] THEN (IF @ <= 1 THEN 0 ELSE @ - 1) ELSE @]
  /\ UNCHANGED rate

\* Open returns an error before an account was leased.
finishRefused(r) ==
  /\ phase[r] \in {"begun", "refused"}
  /\ Drop(r)
  /\ ReleaseMember(r)
  /\ UNCHANGED <<healthVars, adminVars, queueVars, serviceVars, era>>

\* What finish does to the account's health.  persistRuntime may fail; the
\* state in memory is kept either way.
Persist(a) ==
  \/ saved' = [saved EXCEPT ![a] = [cooldown |-> cooldown'[a], failures |-> failures'[a],
                                    revision |-> revision[a]]]
  \/ UNCHANGED saved

\* Mutant of Extended: the latest Retry-After replaces the cooldown.
ExtendedToLatest(a, d) == d

Extended(a, d) == IF cooldown[a] > d THEN cooldown[a] ELSE d

Penalize(r, a) ==
  /\ failures' = [failures EXCEPT ![a] = IF @ >= 16 THEN 16 ELSE @ + 1]
  /\ sequence' = sequence + 1
  /\ lastFailureSequence' = [lastFailureSequence EXCEPT ![a] = sequence + 1]
  /\ \E d \in Delays : cooldown' = [cooldown EXCEPT ![a] = Extended(a, d)]
  /\ Persist(a)
  /\ era' = [q \in Requests |->
               IF q \in Leases(a) /\ era[q] = "fresh" THEN "overtaken" ELSE era[q]]

CurrentRevision(r, a) == revision[a] = rev[r]

\* Mutant of MayRecover: any success after the cooldown clears the failures.
MayRecoverInAnyOrder(r, a) == ~Cooling(a)

MayRecover(r, a) == lastFailureSequence[a] < seq[r] /\ ~Cooling(a)

Recover(r, a) ==
  /\ failures' = [failures EXCEPT ![a] = 0]
  /\ cooldown' = [cooldown EXCEPT ![a] = 0]
  /\ lastFailureSequence' = [lastFailureSequence EXCEPT ![a] = 0]
  /\ IF failures[a] # 0 THEN Persist(a) ELSE UNCHANGED saved
  /\ UNCHANGED <<sequence, era>>

KeepHealth == UNCHANGED <<failures, cooldown, lastFailureSequence, saved, sequence, era>>

\* Mutant of Released: only leases of the current revision are counted down.
ReleasedIfCurrent(r, a) == IF CurrentRevision(r, a) THEN inFlight[a] - 1 ELSE inFlight[a]

Released(r, a) == IF inFlight[a] = 0 THEN 0 ELSE inFlight[a] - 1

ReleaseLease(r, a) ==
  /\ phase[r] = "leased" /\ account[r] = a
  /\ Drop(r)
  /\ ReleaseMember(r)
  /\ inFlight' = [inFlight EXCEPT ![a] = Released(r, a)]
  /\ notifyCapacity(a)
  /\ UNCHANGED <<revision, adminVars, waiting, closed>>

\* A 429 for the account.
finishRateLimited(r, a) ==
  /\ ReleaseLease(r, a)
  /\ IF CurrentRevision(r, a) THEN Penalize(r, a) ELSE KeepHealth

\* Outcome success or incomplete.
finishSuccess(r, a) ==
  /\ ReleaseLease(r, a)
  /\ IF CurrentRevision(r, a) /\ MayRecover(r, a) THEN Recover(r, a) ELSE KeepHealth

\* Canceled, refused on retry, other upstream errors: no account penalty.
finishOther(r, a) == ReleaseLease(r, a) /\ KeepHealth

finish(r) ==
  \/ finishRefused(r)
  \/ \E a \in Accounts : \/ finishRateLimited(r, a)
                         \/ finishSuccess(r, a)
                         \/ finishOther(r, a)

-----------------------------------------------------------------------------
(* Administration, the clock, shutdown *)

SetConcurrency(a, n) ==
  /\ maxConcurrency' = [maxConcurrency EXCEPT ![a] = n]
  /\ notifyCapacity(a)
  /\ UNCHANGED <<requestVars, healthVars, enabled, memberMax, rateLimit, memberVars,
                 waiting, serviceVars, era>>

\* accounts.SetEnabled runs outside the gateway's lock and notifies nobody.
SetEnabled(a) ==
  /\ enabled' = [enabled EXCEPT ![a] = ~@]
  /\ UNCHANGED <<requestVars, healthVars, maxConcurrency, memberMax, rateLimit, memberVars,
                 queueVars, serviceVars, era>>

SetMemberLimits(u, n, m) ==
  /\ memberMax' = [memberMax EXCEPT ![u] = n]
  /\ rateLimit' = [rateLimit EXCEPT ![u] = m]
  /\ UNCHANGED <<requestVars, healthVars, enabled, maxConcurrency, memberVars, queueVars,
                 serviceVars, era>>

Resume(a) ==
  /\ revision[a] < MaxRevision
  /\ cooldown' = [cooldown EXCEPT ![a] = 0]
  /\ failures' = [failures EXCEPT ![a] = 0]
  /\ lastFailureSequence' = [lastFailureSequence EXCEPT ![a] = 0]
  /\ revision' = [revision EXCEPT ![a] = @ + 1]
  /\ saved' = [saved EXCEPT ![a] = [cooldown |-> 0, failures |-> 0,
                                    revision |-> revision[a] + 1]]
  /\ notifyCapacity(a)
  /\ era' = [q \in Requests |-> IF q \in Leases(a) THEN "superseded" ELSE era[q]]
  /\ UNCHANGED <<requestVars, inFlight, adminVars, memberVars, waiting, serviceVars>>

Less(n) == IF n = 0 THEN 0 ELSE n - 1

Tick ==
  /\ \/ \E r \in Requests : phase[r] \in {"waiting", "awake"} /\ timeLeft[r] > 0
     \/ \E a \in Accounts : cooldown[a] > 0 \/ saved[a].cooldown > 0
  /\ timeLeft' = [r \in Requests |-> Less(timeLeft[r])]
  /\ cooldown' = [a \in Accounts |-> Less(cooldown[a])]
  /\ saved' = [a \in Accounts |->
               [cooldown |-> Less(saved[a].cooldown), failures |-> saved[a].failures,
                revision |-> saved[a].revision]]
  /\ UNCHANGED <<phase, memberLeased, account, seq, rev, canceled, inFlight, failures,
                 lastFailureSequence, revision, adminVars, memberVars, queueVars,
                 serviceVars, era>>

\* A new minute starts every member's fixed rate window again.
NewMinute ==
  /\ rate' = [u \in Members |-> 0]
  /\ UNCHANGED <<requestVars, healthVars, adminVars, memberActive, queueVars, serviceVars, era>>

Close ==
  /\ closed' = TRUE
  /\ UNCHANGED <<requestVars, healthVars, adminVars, memberVars, queueVars, sequence, era>>

\* A crash, or the exit that follows Close: requests and in-memory state are
\* lost and the next loadRuntime reads each account's health row.
Restart ==
  /\ phase' = [r \in Requests |-> IF phase[r] = "new" THEN "new" ELSE "done"]
  /\ memberLeased' = [r \in Requests |-> FALSE]
  /\ account' = [r \in Requests |-> NoAccount]
  /\ seq' = [r \in Requests |-> 0]
  /\ rev' = [r \in Requests |-> 0]
  /\ canceled' = [r \in Requests |-> FALSE]
  /\ timeLeft' = [r \in Requests |-> 0]
  /\ inFlight' = [a \in Accounts |-> 0]
  /\ cooldown' = [a \in Accounts |-> saved[a].cooldown]
  /\ failures' = [a \in Accounts |-> saved[a].failures]
  /\ revision' = [a \in Accounts |-> saved[a].revision]
  /\ lastFailureSequence' = [a \in Accounts |-> 0]
  /\ memberActive' = [u \in Members |-> 0]
  /\ waiting' = [g \in Groups |-> 0]
  /\ channel' = [g \in Groups |-> "none"]
  /\ sequence' = 0
  /\ closed' = FALSE
  /\ UNCHANGED <<saved, adminVars, rate, era>>

Next ==
  \/ \E r \in Requests :
       \/ begin(r) \/ Cancel(r) \/ leaseAccount(r) \/ finish(r)
       \/ wakeTimer(r) \/ wakeRetry(r) \/ wakeToken(r)
  \/ \E a \in Accounts :
       SetEnabled(a) \/ Resume(a) \/ \E n \in Limits : SetConcurrency(a, n)
  \/ \E u \in Members, n \in MemberLimits, m \in RateLimits : SetMemberLimits(u, n, m)
  \/ Tick \/ NewMinute \/ Close \/ Restart

Spec == Init /\ [][Next]_vars

\* The ticker fires again and again and a woken goroutine gets the lock, although
\* the clock may stand still; shutdown cancels every request context; a canceled or
\* refused request finishes (Open's deferred fail, Exchange's AfterFunc).
Fairness ==
  \A r \in Requests :
    /\ WF_vars(wakeRetry(r)) /\ WF_vars(leaseAccount(r))
    /\ WF_vars(closed /\ Cancel(r))
    /\ WF_vars(finishRefused(r))
    /\ WF_vars(canceled[r] /\ phase[r] = "leased" /\ finish(r))

FairSpec == Spec /\ Fairness

-----------------------------------------------------------------------------
(* Properties *)

\* InFlight counts exactly the live leases of its account, whatever limits are
\* changed, runtimes resumed or requests canceled in between (finish, Resume).
LeaseAccounting == \A a \in Accounts : inFlight[a] = Cardinality(Leases(a))

\* memberActive counts exactly the requests of the member that hold a member
\* lease, queued and refused ones included, until finish returns it once.
MemberAccounting == \A u \in Members : memberActive[u] = Cardinality(Holders(u))

\* waiting counts exactly the goroutines in the pool's queue and never exceeds
\* QueueLimit; the pool's channel exists exactly while somebody waits on it.
QueueAccounting ==
  \A g \in Groups :
    /\ waiting[g] = Cardinality(Waiters(g))
    /\ waiting[g] <= QueueLimit
    /\ channel[g] = "none" <=> waiting[g] = 0

\* An account that failed and was not yet cleared is probed by one request at a
\* time: a request admitted after the failure is alone on the account, even if
\* leases from before the failure were still running when the cooldown ended.
SingleProbe ==
  \A a \in Accounts :
    Probation(a) => \A r \in Leases(a) : era[r] = "fresh" => inFlight[a] = 1

\* Only a request admitted after the last recorded failure, and after the last
\* Resume, clears an account's failures; a success that was already running
\* when the failure came in does not.
Restarted == sequence' < sequence
RecoveryByProbe ==
  [][\A a \in Accounts :
       failures[a] > 0 /\ failures'[a] = 0 /\ revision'[a] = revision[a] /\ ~Restarted
         => \E r \in Leases(a) : phase'[r] = "done" /\ era[r] = "fresh"]_vars

\* A running cooldown is shortened by nothing but time, an explicit Resume or,
\* on restart, a health row whose last write failed: not by a second 429 with a
\* smaller Retry-After, not by a success, not by a failed write.
CooldownHolds ==
  [][\A a \in Accounts :
       cooldown'[a] < cooldown[a]
         => \/ phase' = phase /\ cooldown'[a] = cooldown[a] - 1
            \/ revision'[a] # revision[a]
            \/ Restarted /\ saved[a].cooldown < cooldown[a]]_vars

\* Waiting costs one rate unit: a unit is taken only by a request that enters
\* with no member lease and leaves with one, never on a retry from the queue.
RateChargedOnce ==
  [][\A u \in Members :
       rate'[u] > rate[u]
         => /\ rate'[u] = rate[u] + 1
            /\ \E r \in Requests : /\ Owner[r] = u /\ phase[r] = "begun"
                                    /\ ~memberLeased[r] /\ memberLeased'[r]]_vars

-----------------------------------------------------------------------------
(* The inductive invariant: what the counters above rest on *)

\* A queued request holds its member lease.
QueuedHoldMember == \A r \in Requests : phase[r] \in {"waiting", "awake"} => memberLeased[r]

\* The numbers leaseAccount and finish give out agree with the order of events:
\* a lease overtaken by a failure precedes it, one superseded by a Resume has an
\* older revision.
EraOrder ==
  \A a \in Accounts :
    /\ lastFailureSequence[a] <= sequence
    /\ \A r \in Leases(a) :
         /\ 0 < seq[r] /\ seq[r] <= sequence
         /\ rev[r] <= revision[a]
         /\ era[r] = "superseded" => rev[r] < revision[a]
         /\ era[r] = "overtaken" /\ Probation(a) => seq[r] < lastFailureSequence[a]

\* A request admitted in probation is its account's only lease.
ProbeAlone ==
  \A a \in Accounts : Probation(a) =>
    \A r, q \in Leases(a) : era[r] = "fresh" => q = r

\* Until something is leased or fails, memory and the health rows agree.
SavedWhenQuiet ==
  sequence = 0 => \A a \in Accounts : /\ cooldown[a] = saved[a].cooldown
                                      /\ failures[a] = saved[a].failures

IInv ==
  /\ TypeOK
  /\ LeaseAccounting
  /\ MemberAccounting
  /\ QueueAccounting
  /\ QueuedHoldMember
  /\ EraOrder
  /\ ProbeAlone
  /\ SavedWhenQuiet

-----------------------------------------------------------------------------
(* Liveness *)

\* No waiter stays queued while an account it may use stays free, although
\* notifications are coalesced and wake one waiter per pool.
NoStrandedWaiter ==
  \A r \in Requests :
    ~<>[](phase[r] \in {"waiting", "awake"} /\ Candidates(r) # {})

\* If time passes, every queued request is answered: admitted, refused or timed out.
WaiterResolved ==
  WF_vars(Tick) => \A r \in Requests :
    phase[r] \in {"waiting", "awake"} ~> phase[r] \in {"leased", "refused", "done"}

\* Close terminates: its workers.Wait sees every request finish (or the process
\* is restarted).
CloseDrains == closed ~> ((\A r \in Requests : phase[r] \in {"new", "done"}) \/ ~closed)

\* The counters of accounts, members and queues are exact, and a recovering account is used by one
\* request at a time, through late answers, Resume, cancellation and changed limits.
LeasesSound == TypeOK /\ LeaseAccounting /\ MemberAccounting /\ QueueAccounting /\ SingleProbe

\* An account's failures end, and its cooldown shrinks, only for a reason that is newer than they are.
HealthByEvidence == RecoveryByProbe /\ CooldownHolds

\* Every request ends: no waiter is stranded by a coalesced wake-up, none outlasts its deadline, and none
\* keeps Close waiting.
RequestsEnd == NoStrandedWaiter /\ WaiterResolved /\ CloseDrains
=============================================================================
