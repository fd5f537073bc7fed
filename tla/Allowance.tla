------------------------------ MODULE Allowance ------------------------------
(***************************************************************************)
(* Allowance accounting of one scheme (internal/allocations with           *)
(* internal/gateway/allocations.go, history.go and queue.go).  A request   *)
(* is checked against its member's windows, inserts an active entry, and   *)
(* settles it when it finishes.  A settlement whose write fails is kept in *)
(* memory and retried before the next admission; a restart forgets memory  *)
(* and turns the entries left active into pending ones.                    *)
(*                                                                         *)
(* One accounting anchor (time 0) and unit: edits that change the schedule *)
(* or the unit start another.  Sections under s.mu are one step; a write   *)
(* may commit although its caller sees an error.                           *)
(***************************************************************************)
EXTENDS Integers, Sequences, FiniteSets, FiniteSetsExt

CONSTANTS
  Requests,        \* observations whose key is bound to the scheme
  Members,         \* users the scheme may list
  Owner,           \* Owner[r]: the member a request belongs to
  Mode,            \* Config.Mode: "tokens", "windows" or "ratio"
  Durations,       \* lengths of the accounting windows, in ticks
  Total,           \* Total[d]: the limit of the window (WindowCondition.Limit)
  Configs,         \* member sections an administrator saves
  Amounts,         \* tokens a request may use
  MaxOutstanding,  \* maxOutstandingRiskRequests (4 in the code)
  Retention,       \* ticks a settled entry outlives its window (90 days)
  MaxNow,          \* bound on time
  MaxRevisions,    \* bound on saved revisions
  MaxCrashes       \* bound on restarts

\* A member of a time-window scheme without an override for the duration.
Inherit == 0 - 1

ASSUME SetsAssumption ==
  /\ IsFiniteSet(Requests)
  /\ Owner \in [Requests -> Members]
  /\ Mode \in {"tokens", "windows", "ratio"}
  /\ Durations \subseteq Nat \ {0} /\ Durations # {} /\ IsFiniteSet(Durations)
  /\ Total \in [Durations -> Nat]
  /\ 0 \in Amounts /\ Amounts \subseteq Nat
  /\ \A c \in Configs : DOMAIN c \subseteq Members
       /\ \A m \in DOMAIN c : c[m] \in [Durations -> Nat \cup {Inherit}]

ASSUME BoundsAssumption ==
  /\ MaxOutstanding \in Nat \ {0}
  /\ {Retention, MaxNow, MaxRevisions, MaxCrashes} \subseteq Nat

VARIABLES
  now,         \* the clock, in ticks since the anchor
  revisions,   \* saved member sections, the last one current
  entry,       \* allocation_entries.state, "none" before and "pruned" after
  captured,    \* allocation_entries.revision_id
  startedAt,   \* allocation_entries.started_at
  resetAt,     \* allocation_entries.reset_at
  observed,    \* allocation_entries tokens
  cost,        \* allocation_entries.cost
  recorded,    \* requests with a row in the request history
  phase,       \* the observation: "new", "open", "done", or "lost" in a crash
  completion,  \* what the finished observation knows of its usage
  failed,      \* Service.failedSettlements
  ready,       \* Service.allocationsReady
  admin,       \* an administrator's call has passed allocationHTTP.available
  crashes      \* restarts so far

table == <<entry, captured, startedAt, resetAt, observed, cost>>
vars == <<now, revisions, table, recorded, phase, completion, failed, ready, admin, crashes>>

EntryStates == {"none", "active", "pending", "settled", "corrected", "pruned"}
Completions == [kind : {"none", "unbilled", "known", "unknown"}, tokens : Amounts]
NoCompletion == [kind |-> "none", tokens |-> 0]

\* What a finishing observation may know: nothing to bill (never dispatched,
\* or rejected by the provider), its final usage, or what it saw so far.
Outcomes ==
  {[kind |-> "unbilled", tokens |-> 0]}
    \cup [kind : {"known"}, tokens : Amounts \ {0}]
    \cup [kind : {"unknown"}, tokens : Amounts]

Init ==
  /\ now = 0
  /\ \E c \in Configs : revisions = <<c>>
  /\ entry = [r \in Requests |-> "none"]
  /\ captured = [r \in Requests |-> 1]
  /\ startedAt = [r \in Requests |-> 0]
  /\ resetAt = [r \in Requests |-> 0]
  /\ observed = [r \in Requests |-> 0]
  /\ cost = [r \in Requests |-> 0]
  /\ recorded = {}
  /\ phase = [r \in Requests |-> "new"]
  /\ completion = [r \in Requests |-> NoCompletion]
  /\ failed = {}
  /\ ready = FALSE
  /\ admin = FALSE
  /\ crashes = 0

Current == revisions[Len(revisions)]

-----------------------------------------------------------------------------
(* Windows and limits *)

windowStart(d) == (now \div d) * d
windowEnd(d) == windowStart(d) + d

inWindow(r, d) == startedAt[r] >= windowStart(d) /\ startedAt[r] < windowEnd(d)

\* The latest end, so cleanup of a short window keeps a longer one's usage.
mShortestWindow == Min({windowEnd(d) : d \in Durations})
effectiveWindow == Max({windowEnd(d) : d \in Durations})

memberLimit(config, m, d) ==
  CASE Mode = "ratio" -> (Total[d] * config[m][d]) \div 10000
    [] Mode = "windows" /\ config[m][d] = Inherit -> Total[d]
    [] OTHER -> config[m][d]

unlimited(limit) == Mode = "windows" /\ limit = 0

reservation(limit) == Max({1, (limit + 9) \div 10})

\* What r holds of window d while it is active: sized when it was admitted.
hold(r, d) ==
  LET limit == memberLimit(revisions[captured[r]], Owner[r], d)
  IN  IF unlimited(limit) THEN 0 ELSE reservation(limit)

\* The operators below take the table's states st and costs ct, so that an
\* admission can be checked against the settlements it has just retried.
entries(st, states, users, d) ==
  {r \in Requests : st[r] \in states /\ Owner[r] \in users /\ inWindow(r, d)}

Settled == {"settled", "corrected"}

\* The sum of a function to Nat, counted unit by unit: the provers know
\* cardinalities and not the induction behind a fold.
units(f) == UNION {{x} \X (1..f[x]) : x \in DOMAIN f}
sumOf(f) == Cardinality(units(f))

used(st, ct, users, d) == sumOf([r \in entries(st, Settled, users, d) |-> ct[r]])

held(st, users, d) == sumOf([r \in entries(st, {"active"}, users, d) |-> hold(r, d)])

mRiskOffByOne(st, ct, m, d, limit) ==
  LET perRequest == reservation(limit)
      room == limit + perRequest - used(st, ct, {m}, d) - held(st, {m}, d)
  IN  \/ Cardinality(entries(st, {"active"}, {m}, d)) > MaxOutstanding
      \/ Max({0, room}) < perRequest

riskLimited(st, ct, m, d, limit) ==
  LET perRequest == reservation(limit)
      room == limit + perRequest - used(st, ct, {m}, d) - held(st, {m}, d)
  IN  \/ Cardinality(entries(st, {"active"}, {m}, d)) >= MaxOutstanding
      \/ Max({0, room}) < perRequest

groupRoom(st, ct, d) ==
  Max({0, Total[d] + reservation(Total[d]) - used(st, ct, Members, d) - held(st, Members, d)})

mGroupUsedOnly(st, ct, d, limit) == used(st, ct, Members, d) < Total[d]

groupAllows(st, ct, d, limit) ==
  /\ used(st, ct, Members, d) < Total[d]
  /\ groupRoom(st, ct, d) >= reservation(limit)

\* Authorize and Check: every window has room for the member, and in a ratio
\* scheme for the pool.
Check(st, ct, m) ==
  /\ m \in DOMAIN Current
  /\ \A d \in Durations :
       LET limit == memberLimit(Current, m, d)
       IN  /\ ~unlimited(limit) =>
                used(st, ct, {m}, d) < limit /\ ~riskLimited(st, ct, m, d, limit)
           /\ Mode = "ratio" => groupAllows(st, ct, d, limit)

-----------------------------------------------------------------------------
(* Settlement: persistObservation, settleAllocation and Finish *)

mWritesAgain(st, r) == TRUE

\* The write does something only once: a recorded request is left alone (its
\* earlier commit succeeded), and so is an entry that is not active.
writes(st, r) == r \notin recorded /\ st[r] = "active"

\* A dispatched request that was neither rejected nor reported stays open.
finishState(c) == IF c.kind = "unknown" THEN "pending" ELSE "settled"

finishCost(c) == IF c.kind = "unknown" THEN 0 ELSE c.tokens

\* The table after the observations of W are written, from states st.
stateAfter(st, W, done) ==
  [r \in Requests |-> IF r \in W /\ writes(st, r) THEN finishState(done[r]) ELSE st[r]]
costAfter(st, W, done) ==
  [r \in Requests |-> IF r \in W /\ writes(st, r) THEN finishCost(done[r]) ELSE cost[r]]
observedAfter(st, W, done) ==
  [r \in Requests |-> IF r \in W /\ writes(st, r) THEN done[r].tokens ELSE observed[r]]

mRecoverNothing == entry

\* ensureAllocationsReady: only the first call after a start converts the
\* active entries, none of which has a live observation.
recoverable ==
  [r \in Requests |-> IF ~ready /\ entry[r] = "active" THEN "pending" ELSE entry[r]]

\* retryFailedSettlements: W are written, R still seen to fail.
retries(W, R) == W \subseteq failed /\ R \subseteq failed /\ failed \subseteq W \cup R

\* Recovery and retry, before whatever else the caller does.
prepared(W) == stateAfter(recoverable, W, completion)
preparedCost(W) == costAfter(recoverable, W, completion)

Prepare(W, R) ==
  /\ retries(W, R)
  /\ observed' = observedAfter(recoverable, W, completion)
  /\ recorded' = recorded \cup W
  /\ failed' = R
  /\ ready' = TRUE

-----------------------------------------------------------------------------
(* Requests *)

\* The insert of Begin, with the clock and the revision of admission.
Insert(r, W) ==
  /\ entry' = [prepared(W) EXCEPT ![r] = "active"]
  /\ cost' = preparedCost(W)
  /\ captured' = [captured EXCEPT ![r] = Len(revisions)]
  /\ startedAt' = [startedAt EXCEPT ![r] = now]
  /\ resetAt' = [resetAt EXCEPT ![r] = effectiveWindow]

mUnblocked(r, R) == TRUE

\* prepareAllocation: a settlement still failing refuses its own member only.
unblocked(r, R) == \A q \in R : Owner[q] # Owner[r]

\* leaseAccount of a tracked request: the entry is committed with the lease.
Admit(r) ==
  /\ phase[r] = "new"
  /\ \E W \in SUBSET failed, R \in SUBSET failed :
       /\ Prepare(W, R)
       /\ unblocked(r, R)
       /\ Check(prepared(W), preparedCost(W), Owner[r])
       /\ Insert(r, W)
  /\ phase' = [phase EXCEPT ![r] = "open"]
  /\ UNCHANGED <<now, revisions, completion, admin, crashes>>

\* The commit of Begin succeeds but its caller sees an error: the request is
\* refused untracked and its entry is left active.
AdmitUnseen(r) ==
  /\ phase[r] = "new"
  /\ \E W \in SUBSET failed, R \in SUBSET failed :
       /\ Prepare(W, R)
       /\ unblocked(r, R)
       /\ Check(prepared(W), preparedCost(W), Owner[r])
       /\ Insert(r, W)
  /\ phase' = [phase EXCEPT ![r] = "done"]
  /\ UNCHANGED <<now, revisions, completion, admin, crashes>>

\* Any refusal after prepareAllocation: blocked, over its allowance, no account.
Refuse(r) ==
  /\ phase[r] = "new"
  /\ \E W \in SUBSET failed, R \in SUBSET failed :
       /\ Prepare(W, R)
       /\ entry' = prepared(W)
       /\ cost' = preparedCost(W)
  /\ phase' = [phase EXCEPT ![r] = "done"]
  /\ UNCHANGED <<now, revisions, captured, startedAt, resetAt, completion, admin, crashes>>

\* observation.finish: written (and seen so), written unseen, or not written.
Finish(r) ==
  /\ phase[r] = "open"
  /\ phase' = [phase EXCEPT ![r] = "done"]
  /\ \E c \in Outcomes : completion' = [completion EXCEPT ![r] = c]
  /\ \E W \in SUBSET {r} :
       /\ entry' = stateAfter(entry, W, completion')
       /\ cost' = costAfter(entry, W, completion')
       /\ observed' = observedAfter(entry, W, completion')
       /\ recorded' = recorded \cup W
       /\ \/ W = {r} /\ UNCHANGED failed
          \/ failed' = failed \cup {r}
  /\ UNCHANGED <<now, revisions, captured, startedAt, resetAt, ready, admin, crashes>>

-----------------------------------------------------------------------------
(* Administration, maintenance and the environment *)

\* PrepareAllocations on behalf of a console page, which goes on only if every
\* failed settlement has been written.
PrepareAllocations ==
  /\ \E W \in SUBSET failed, R \in SUBSET failed :
       /\ Prepare(W, R)
       /\ entry' = prepared(W)
       /\ cost' = preparedCost(W)
       /\ admin' = (R = {})
  /\ UNCHANGED <<now, revisions, captured, startedAt, resetAt, phase, completion, crashes>>

\* Finish called manually: only a pending entry, never below what it observed.
correctable(r, n) == entry[r] = "pending" /\ n >= observed[r]

Settle(r) ==
  /\ admin
  /\ \E n \in Amounts :
       /\ correctable(r, n)
       /\ cost' = [cost EXCEPT ![r] = n]
       /\ observed' = [observed EXCEPT ![r] = n]
  /\ entry' = [entry EXCEPT ![r] = "corrected"]
  /\ admin' = FALSE
  /\ UNCHANGED <<now, revisions, captured, startedAt, resetAt, recorded, phase, completion,
                 failed, ready, crashes>>

\* checkFunding: once the pool is over-committed, nobody's share may grow.
funded(c) ==
  Mode = "ratio" =>
    \A d \in Durations :
      LET left(m) == Max({0, memberLimit(c, m, d) - used(entry, cost, {m}, d) - held(entry, {m}, d)})
          required == used(entry, cost, Members, d) + held(entry, Members, d)
                        + sumOf([m \in DOMAIN c |-> left(m)])
          before(m) == IF m \in DOMAIN Current THEN memberLimit(Current, m, d) ELSE 0
      IN  required > Total[d] => \A m \in DOMAIN c : memberLimit(c, m, d) <= before(m)

\* UpdateMembers and an ApplyNow edit: a new revision with the same anchor.
UpdateMembers ==
  /\ admin
  /\ Len(revisions) < MaxRevisions
  /\ \E c \in Configs : c # Current /\ funded(c) /\ revisions' = Append(revisions, c)
  /\ admin' = FALSE
  /\ UNCHANGED <<now, table, recorded, phase, completion, failed, ready, crashes>>

prunable(r) == entry[r] \in Settled /\ resetAt[r] < now - Retention

\* A batch of maintenance; the batches of one pass may be interleaved.
Prune ==
  /\ \E S \in SUBSET {r \in Requests : prunable(r)} :
       /\ S # {}
       /\ entry' = [r \in Requests |-> IF r \in S THEN "pruned" ELSE entry[r]]
  /\ UNCHANGED <<now, revisions, captured, startedAt, resetAt, observed, cost, recorded, phase,
                 completion, failed, ready, admin, crashes>>

\* The process stops: memory is lost, the table stays.
Crash ==
  /\ crashes < MaxCrashes
  /\ crashes' = crashes + 1
  /\ phase' = [r \in Requests |-> IF phase[r] = "open" THEN "lost" ELSE phase[r]]
  /\ failed' = {}
  /\ ready' = FALSE
  /\ admin' = FALSE
  /\ UNCHANGED <<now, revisions, table, recorded, completion>>

Tick ==
  /\ now < MaxNow
  /\ now' = now + 1
  /\ UNCHANGED <<revisions, table, recorded, phase, completion, failed, ready, admin, crashes>>

\* What happens while the process runs.
operations ==
  \/ \E r \in Requests : Admit(r) \/ AdmitUnseen(r) \/ Refuse(r) \/ Finish(r) \/ Settle(r)
  \/ PrepareAllocations \/ UpdateMembers \/ Prune \/ Tick

Next == operations \/ Crash

Spec == Init /\ [][Next]_vars

-----------------------------------------------------------------------------
(* Properties *)

\* What settlement reads and writes.
TypeSettlement ==
  /\ entry \in [Requests -> EntryStates]
  /\ observed \in [Requests -> Amounts]
  /\ cost \in [Requests -> Amounts]
  /\ recorded \subseteq Requests
  /\ phase \in [Requests -> {"new", "open", "done", "lost"}]
  /\ completion \in [Requests -> Completions]
  /\ failed \subseteq Requests
  /\ ready \in BOOLEAN

TypeOK ==
  /\ TypeSettlement
  /\ now \in Nat
  /\ revisions \in Seq(Configs) /\ Len(revisions) > 0
  /\ captured \in [Requests -> 1..Len(revisions)]
  /\ startedAt \in [Requests -> Nat]
  /\ resetAt \in [Requests -> Nat]
  /\ admin \in BOOLEAN
  /\ crashes \in Nat

\* What the ledger calls the usage of an observation.
ledgerUsage(r) ==
  [kind |-> IF completion[r].kind = "unbilled" THEN "known" ELSE completion[r].kind,
   tokens |-> completion[r].tokens]

ledger == INSTANCE Ledger WITH
  status <- entry,
  usage <- [r \in Requests |-> ledgerUsage(r)],
  noted <- observed,
  charge <- cost

\* Settlement (Finish, persistObservation, ensureAllocationsReady, Settle,
\* Prune) implements the ledger: through failed writes, commits whose caller
\* saw an error, retries and restarts, a request is charged at most once, by
\* the usage it reported, and an entry of unknown usage is closed by an
\* administrator only.
LedgerKept == ledger!Spec

\* An observation that has ended, whatever it holds in the table: finished
\* while tracked, or cut off by a restart.
Ended(r) == phase[r] = "lost" \/ completion[r] # NoCompletion

\* "Admission must not observe released leases before the token charge
\* commits" (history.go): when a request is admitted, no ended request of its
\* member is still an active entry, so all of them are charged or are open
\* for correction, although some of their writes failed or were cut off.
AdmissionSeesCharges ==
  [][\A r, q \in Requests :
       entry[r] = "none" /\ entry'[r] = "active" /\ Owner[q] = Owner[r] /\ Ended(q)
         => entry'[q] # "active"]_vars

\* What an entry admitted in window d took of the room it was admitted into:
\* its reservation while active, then no more than that however much it used.
taken(r, d) ==
  CASE entry[r] = "active" -> hold(r, d)
    [] entry[r] = "settled" -> Min({cost[r], hold(r, d)})
    [] OTHER -> 0

takenBy(users, d) ==
  sumOf([r \in {q \in Requests : Owner[q] \in users /\ inWindow(q, d)} |-> taken(r, d)])

capturedLimit(r, d) == memberLimit(revisions[captured[r]], Owner[r], d)

admitted(users, d) ==
  {r \in Requests : Owner[r] \in users /\ entry[r] # "none" /\ inWindow(r, d)}

\* Check and reservations: requests that stay within their reservation never
\* take a member more than one reservation past the limit, in any window and
\* however they overlap, settle late or outlive an edit of the limit; only
\* requests larger than their reservation and corrections can go further.
OvershootBounded ==
  \A m \in Members, d \in Durations :
    \/ takenBy({m}, d) = 0
    \/ \E r \in admitted({m}, d) :
         takenBy({m}, d) <= capturedLimit(r, d) + reservation(capturedLimit(r, d))

\* group: the members of a ratio scheme together stay within one reservation
\* of the pool's total, also while shares move between them (checkFunding).
GroupOvershootBounded ==
  Mode = "ratio" =>
    \A d \in Durations : takenBy(Members, d) <= Total[d] + reservation(Total[d])

\* Check: a member whose open requests were all admitted under a limit never
\* has more than maxOutstandingRiskRequests of them in one window.
OutstandingBounded ==
  \A m \in Members, d \in Durations :
    LET open == entries(entry, {"active"}, {m}, d)
    IN  (\A r \in open : ~unlimited(capturedLimit(r, d))) => Cardinality(open) <= MaxOutstanding

\* effectiveWindow and Prune: an entry whose usage still counts in some
\* window is never deleted.
PruneKeepsUsage ==
  \A r \in Requests : entry[r] = "pruned" => \A d \in Durations : ~inWindow(r, d)

\* ensureAllocationsReady: an active entry has a live owner: its observation
\* runs, waits in failedSettlements, or was refused after an unseen commit;
\* after a restart this holds from the first call on.
ActiveIsOwned ==
  ready => \A r \in Requests : entry[r] = "active" =>
    phase[r] = "open" \/ r \in failed \/ (phase[r] = "done" /\ completion[r] = NoCompletion)

-----------------------------------------------------------------------------
(* The inductive invariant of the proofs *)

\* An observation and what is kept of it: reported once, when it is done.
Lifecycle ==
  \A r \in Requests :
    /\ phase[r] = "new" => entry[r] = "none"
    /\ completion[r] # NoCompletion => phase[r] = "done"
    /\ r \in failed => completion[r].kind # "none"
    /\ completion[r].kind = "none" => completion[r] = NoCompletion
    /\ r \in recorded => completion[r].kind # "none" /\ entry[r] # "active"
    /\ entry[r] \in {"none", "active"} => cost[r] = 0 /\ observed[r] = 0

\* Nothing runs between a start and the first recovery.
NothingBeforeRecovery ==
  ready \/ (failed = {} /\ \A r \in Requests : phase[r] # "open")

IInv == TypeSettlement /\ Lifecycle /\ NothingBeforeRecovery /\ ActiveIsOwned

\* What members use beyond a limit, and how many requests of unknown cost they have running, stays within
\* one reservation and the configured count, whatever is edited and pruned meanwhile.
SpendBounded == TypeOK /\ OvershootBounded /\ OutstandingBounded /\ PruneKeepsUsage
=============================================================================
