--------------------------- MODULE Admission_proofs ---------------------------
(***************************************************************************)
(* Proofs about Admission, for any finite set of requests and any sets of  *)
(* accounts, pools and members; and about Selection, for any pool, any     *)
(* conversations and any requests.                                         *)
(***************************************************************************)
EXTENDS Admission, Selection, FiniteSetTheorems, TLAPS

-----------------------------------------------------------------------------
(* Types *)

\* The owner, the pool and the eligible accounts of a request.
LEMMA RouteTypes ==
  \A r \in Requests : Owner[r] \in Members /\ Group[r] \in Groups /\ Eligible[r] \subseteq Accounts
  BY SetsAssumption

\* penalties stop at sixteen.
LEMMA FailureCap == \A n \in 0..16 : (IF n >= 16 THEN 16 ELSE n + 1) \in 1..16
  OBVIOUS

\* The health row after persistRuntime.
LEMMA PersistType ==
  ASSUME NEW a \in Accounts, TypeHealth, Persist(a) \/ UNCHANGED saved,
         cooldown' \in [Accounts -> Nat], failures' \in [Accounts -> 0..16]
  PROVE  saved' \in [Accounts -> [cooldown : Nat, failures : 0..16, revision : Nat]]
  BY DEF TypeHealth, Persist

\* finish's two ways of changing the health of an account, and of keeping it.
LEMMA HealthStep ==
  ASSUME NEW r \in Requests, NEW a \in Accounts, TypeHealth, TypeService, TypeRequests,
         Penalize(r, a) \/ Recover(r, a) \/ KeepHealth,
         inFlight' \in [Accounts -> Nat], UNCHANGED revision
  PROVE  /\ TypeHealth' /\ sequence' \in Nat
         /\ era' \in [Requests -> {"fresh", "overtaken", "superseded"}]
<1>1. CASE Penalize(r, a)
  <2>1. PICK d \in Delays : cooldown' = [cooldown EXCEPT ![a] = Extended(a, d)]
    BY <1>1 DEF Penalize
  <2>2. cooldown' \in [Accounts -> Nat]
    BY <2>1, BoundsAssumption DEF Extended, TypeHealth
  <2>3. failures' \in [Accounts -> 0..16]
    BY <1>1, FailureCap DEF Penalize, TypeHealth
  <2>4. saved' \in [Accounts -> [cooldown : Nat, failures : 0..16, revision : Nat]]
    BY <1>1, <2>2, <2>3, PersistType DEF Penalize
  <2>5. era' \in [Requests -> {"fresh", "overtaken", "superseded"}]
    BY <1>1 DEF Penalize, TypeRequests
  <2>. QED
    BY <1>1, <2>2, <2>3, <2>4, <2>5 DEF Penalize, TypeHealth, TypeService
<1>2. CASE Recover(r, a)
  <2>1. cooldown' \in [Accounts -> Nat] /\ failures' \in [Accounts -> 0..16]
    BY <1>2 DEF Recover, TypeHealth
  <2>2. saved' \in [Accounts -> [cooldown : Nat, failures : 0..16, revision : Nat]]
    BY <1>2, <2>1, PersistType DEF Recover
  <2>. QED
    BY <1>2, <2>1, <2>2 DEF Recover, TypeHealth, TypeService, TypeRequests
<1>3. CASE KeepHealth
  BY <1>3 DEF KeepHealth, TypeHealth, TypeService, TypeRequests
<1>. QED
  BY <1>1, <1>2, <1>3

\* Releasing a lease, apart from the health of its account.
LEMMA ReleaseStep ==
  ASSUME NEW r \in Requests, NEW a \in Accounts, TypeOK, ReleaseLease(r, a),
         sequence' \in Nat, era' \in [Requests -> {"fresh", "overtaken", "superseded"}]
  PROVE  TypeRequests' /\ TypeService' /\ inFlight' \in [Accounts -> Nat] /\ UNCHANGED revision
<1>1. TypeRequests'
  BY DEF TypeOK, TypeRequests, ReleaseLease, Drop, ReleaseMember, Phases
<1>2. channel' \in [Groups -> {"none", "empty", "full"}]
  BY DEF TypeOK, TypeService, ReleaseLease, notifyCapacity
<1>3. memberActive' \in [Members -> Nat]
  <2>1. \A n \in Nat : (IF n <= 1 THEN 0 ELSE n - 1) \in Nat
    OBVIOUS
  <2>. QED
    BY <2>1, RouteTypes DEF TypeOK, TypeService, TypeRequests, ReleaseLease, ReleaseMember
<1>6. UNCHANGED <<enabled, maxConcurrency, memberMax, rateLimit, rate, waiting, closed>>
  BY DEF ReleaseLease, ReleaseMember, adminVars
<1>4. TypeService'
  BY <1>2, <1>3, <1>6 DEF TypeOK, TypeService
<1>5. inFlight' \in [Accounts -> Nat]
  <2>1. Released(r, a) \in Nat
    BY DEF TypeOK, TypeHealth, Released
  <2>2. inFlight' = [inFlight EXCEPT ![a] = Released(r, a)]
    BY DEF ReleaseLease
  <2>. QED
    BY <2>1, <2>2 DEF TypeOK, TypeHealth
<1>. QED
  BY <1>1, <1>4, <1>5 DEF ReleaseLease

\* Taking a member lease, leaving the queue.
LEMMA QueueStep ==
  ASSUME NEW r \in Requests, TypeOK
  PROVE  /\ TakeMember(r) => /\ memberLeased' \in [Requests -> BOOLEAN]
                             /\ memberActive' \in [Members -> Nat]
                             /\ rate' \in [Members -> Nat]
         /\ LeaveQueue(r) => /\ waiting' \in [Groups -> Int]
                             /\ channel' \in [Groups -> {"none", "empty", "full"}]
<1>1. ASSUME TakeMember(r)
      PROVE  /\ memberLeased' \in [Requests -> BOOLEAN]
             /\ memberActive' \in [Members -> Nat]
             /\ rate' \in [Members -> Nat]
  BY <1>1, RouteTypes DEF TypeOK, TypeRequests, TypeService, TakeMember
<1>2. ASSUME LeaveQueue(r)
      PROVE  /\ waiting' \in [Groups -> Int]
             /\ channel' \in [Groups -> {"none", "empty", "full"}]
  BY <1>2, RouteTypes DEF TypeOK, TypeService, LeaveQueue, queueVars
<1>. QED
  BY <1>1, <1>2

\* Every variable keeps its type in every action.
LEMMA TypeStep ==
  ASSUME TypeOK, [Next]_vars
  PROVE  TypeOK'
<1>. USE DEF TypeOK, TypeRequests, TypeHealth, TypeService, Phases, requestVars, healthVars,
             adminVars, memberVars, queueVars, serviceVars
<1>1. ASSUME NEW r \in Requests, begin(r)
      PROVE  TypeOK'
  BY <1>1 DEF begin
<1>2. ASSUME NEW r \in Requests, Cancel(r)
      PROVE  TypeOK'
  BY <1>2 DEF Cancel
<1>3. ASSUME NEW r \in Requests, leaseAccount(r)
      PROVE  TypeOK'
  <2>1. CASE leaseRefusedEarly(r)
    BY <2>1, QueueStep DEF leaseRefusedEarly, Refuse
  <2>2. CASE MemberPassed(r) /\ Refuse(r)
    BY <2>2, QueueStep DEF MemberPassed, Refuse
  <2>3. CASE leaseWait(r)
    <3>1. timeLeft' \in [Requests -> Nat]
      BY <2>3, BoundsAssumption DEF leaseWait, Deadline
    <3>2. /\ waiting' \in [Groups -> Int]
          /\ channel' \in [Groups -> {"none", "empty", "full"}]
      BY <2>3, RouteTypes DEF leaseWait
    <3>. QED
      BY <2>3, <3>1, <3>2, QueueStep DEF leaseWait, MemberPassed
  <2>4. CASE leaseGranted(r)
    <3>1. PICK a \in Accounts :
            /\ phase' = [phase EXCEPT ![r] = "leased"]
            /\ account' = [account EXCEPT ![r] = a]
            /\ inFlight' = [inFlight EXCEPT ![a] = @ + 1]
            /\ sequence' = sequence + 1
            /\ seq' = [seq EXCEPT ![r] = sequence + 1]
            /\ rev' = [rev EXCEPT ![r] = revision[a]]
            /\ era' = [era EXCEPT ![r] = "fresh"]
      BY <2>4, RouteTypes DEF leaseGranted, Candidates
    <3>2. /\ phase' \in [Requests -> Phases]
          /\ account' \in [Requests -> Accounts \cup {NoAccount}]
          /\ inFlight' \in [Accounts -> Nat]
          /\ sequence' \in Nat
          /\ seq' \in [Requests -> Nat]
          /\ rev' \in [Requests -> Nat]
          /\ era' \in [Requests -> {"fresh", "overtaken", "superseded"}]
      BY <3>1
    <3>3. UNCHANGED <<canceled, timeLeft, cooldown, failures, lastFailureSequence, revision,
                      saved, adminVars, closed>>
      BY <2>4 DEF leaseGranted
    <3>. QED
      BY <2>4, <3>2, <3>3, QueueStep DEF leaseGranted, MemberPassed
  <2>. QED
    BY <1>3, <2>1, <2>2, <2>3, <2>4
    DEF leaseAccount, leaseExpired, leaseUnprepared, leaseMemberLimited,
        leaseUnavailable, leaseQueueFull
<1>4. ASSUME NEW r \in Requests, finish(r)
      PROVE  TypeOK'
  <2>1. CASE finishRefused(r)
    <3>1. memberActive' \in [Members -> Nat]
      BY <2>1, RouteTypes DEF finishRefused, ReleaseMember
    <3>. QED
      BY <2>1, <3>1 DEF finishRefused, Drop, ReleaseMember
  <2>2. ASSUME NEW a \in Accounts, ReleaseLease(r, a),
               Penalize(r, a) \/ Recover(r, a) \/ KeepHealth
        PROVE  TypeOK'
    <3>. HIDE DEF TypeRequests, TypeHealth, TypeService
    <3>1. inFlight' \in [Accounts -> Nat] /\ UNCHANGED revision
      BY <2>2 DEF ReleaseLease, Released, TypeHealth
    <3>2. /\ TypeHealth' /\ sequence' \in Nat
          /\ era' \in [Requests -> {"fresh", "overtaken", "superseded"}]
      BY <2>2, <3>1, HealthStep
    <3>. QED
      BY <2>2, <3>2, ReleaseStep
  <2>. QED
    BY <1>4, <2>1, <2>2 DEF finish, finishRateLimited, finishSuccess, finishOther
<1>5. ASSUME NEW r \in Requests, wakeTimer(r) \/ wakeRetry(r) \/ wakeToken(r)
      PROVE  TypeOK'
  <2>1. Wake(r)
    BY <1>5 DEF wakeTimer, wakeRetry, wakeToken
  <2>2. channel' \in [Groups -> {"none", "empty", "full"}]
    BY <1>5 DEF wakeTimer, wakeRetry, wakeToken
  <2>. QED
    BY <2>1, <2>2 DEF Wake
<1>6. ASSUME NEW a \in Accounts, SetEnabled(a)
      PROVE  TypeOK'
  BY <1>6 DEF SetEnabled
<1>7. ASSUME NEW a \in Accounts, NEW n \in Limits, SetConcurrency(a, n)
      PROVE  TypeOK'
  BY <1>7 DEF SetConcurrency, notifyCapacity
<1>8. ASSUME NEW a \in Accounts, Resume(a)
      PROVE  TypeOK'
  BY <1>8 DEF Resume, notifyCapacity
<1>9. ASSUME NEW u \in Members, NEW n \in MemberLimits, NEW m \in RateLimits,
             SetMemberLimits(u, n, m)
      PROVE  TypeOK'
  BY <1>9 DEF SetMemberLimits
<1>10. CASE Tick
  <2>1. ASSUME NEW a \in Accounts
        PROVE  [cooldown |-> Less(saved[a].cooldown), failures |-> saved[a].failures,
                revision |-> saved[a].revision]
                 \in [cooldown : Nat, failures : 0..16, revision : Nat]
    BY DEF Less
  <2>2. saved' \in [Accounts -> [cooldown : Nat, failures : 0..16, revision : Nat]]
    BY <1>10, <2>1 DEF Tick
  <2>3. \A n \in Nat : Less(n) \in Nat
    BY DEF Less
  <2>4. timeLeft' \in [Requests -> Nat] /\ cooldown' \in [Accounts -> Nat]
    BY <1>10, <2>3 DEF Tick
  <2>. QED
    BY <1>10, <2>2, <2>4 DEF Tick
<1>11. CASE NewMinute
  BY <1>11 DEF NewMinute
<1>12. CASE Close
  BY <1>12 DEF Close
<1>13. CASE Restart
  <2>1. TypeRequests'
    BY <1>13 DEF Restart
  <2>2. TypeHealth'
    BY <1>13 DEF Restart
  <2>3. /\ memberActive' \in [Members -> Nat]
        /\ waiting' \in [Groups -> Int]
        /\ channel' \in [Groups -> {"none", "empty", "full"}]
        /\ sequence' \in Nat
    BY <1>13 DEF Restart
  <2>4. closed' \in BOOLEAN
    BY <1>13 DEF Restart
  <2>5. UNCHANGED <<enabled, maxConcurrency, memberMax, rateLimit, rate>>
    BY <1>13 DEF Restart
  <2>6. TypeService'
    BY <2>3, <2>4, <2>5
  <2>. QED
    BY <2>1, <2>2, <2>6 DEF TypeOK
<1>14. CASE UNCHANGED vars
  BY <1>14 DEF vars
<1>. QED
  BY <1>1, <1>2, <1>3, <1>4, <1>5, <1>6, <1>7, <1>8, <1>9, <1>10, <1>11, <1>12, <1>13,
     <1>14
  DEF Next

-----------------------------------------------------------------------------
(* What a step can do to the leases *)

\* No lease is granted or released, and no account's health is rewritten.
LeaseQuiet ==
  /\ \A r \in Requests : phase'[r] = "leased" <=> phase[r] = "leased"
  /\ \A r \in Requests : phase[r] = "leased" =>
       account'[r] = account[r] /\ seq'[r] = seq[r] /\ rev'[r] = rev[r]
  /\ UNCHANGED <<inFlight, failures, lastFailureSequence, revision, sequence, era>>
  /\ Tick \/ UNCHANGED <<cooldown, saved>>

\* A finish of request r on account a.
LeaseReleased(r, a) ==
  /\ ReleaseLease(r, a)
  /\ \/ CurrentRevision(r, a) /\ Penalize(r, a)
     \/ CurrentRevision(r, a) /\ MayRecover(r, a) /\ Recover(r, a)
     \/ KeepHealth

\* Every step leaves the leases alone, grants one (leaseAccount), releases one
\* (finish), resumes an account or restarts the process.
LEMMA LeaseSteps ==
  ASSUME TypeOK, [Next]_vars
  PROVE  \/ LeaseQuiet
         \/ \E r \in Requests : leaseGranted(r)
         \/ \E r \in Requests, a \in Accounts : LeaseReleased(r, a)
         \/ \E a \in Accounts : Resume(a)
         \/ Restart
<1>. USE DEF requestVars, healthVars, adminVars, memberVars, queueVars, serviceVars,
             TypeOK, TypeRequests
<1>1. ASSUME NEW r \in Requests, InLease(r) /\ Refuse(r)
      PROVE  LeaseQuiet
  BY <1>1 DEF Refuse, InLease, LeaseQuiet
<1>2. ASSUME NEW r \in Requests, leaseWait(r)
      PROVE  LeaseQuiet
  BY <1>2 DEF leaseWait, MemberPassed, InLease, LeaseQuiet
<1>3. ASSUME NEW r \in Requests, leaseAccount(r)
      PROVE  LeaseQuiet \/ leaseGranted(r)
  BY <1>1, <1>2, <1>3
  DEF leaseAccount, leaseExpired, leaseUnprepared, leaseMemberLimited, leaseRefusedEarly,
      leaseUnavailable, leaseQueueFull, MemberPassed
<1>4. ASSUME NEW r \in Requests, finish(r)
      PROVE  LeaseQuiet \/ \E a \in Accounts : LeaseReleased(r, a)
  <2>1. CASE finishRefused(r)
    BY <2>1 DEF finishRefused, Drop, LeaseQuiet
  <2>2. ASSUME NEW a \in Accounts,
               finishRateLimited(r, a) \/ finishSuccess(r, a) \/ finishOther(r, a)
        PROVE  LeaseReleased(r, a)
    BY <2>2 DEF finishRateLimited, finishSuccess, finishOther, LeaseReleased
  <2>. QED
    BY <1>4, <2>1, <2>2 DEF finish
<1>5. ASSUME NEW r \in Requests, wakeTimer(r) \/ wakeRetry(r) \/ wakeToken(r)
      PROVE  LeaseQuiet
  BY <1>5 DEF wakeTimer, wakeRetry, wakeToken, Wake, LeaseQuiet
<1>6. ASSUME NEW a \in Accounts, SetEnabled(a) \/ \E n \in Limits : SetConcurrency(a, n)
      PROVE  LeaseQuiet
  BY <1>6 DEF SetEnabled, SetConcurrency, LeaseQuiet
<1>7. ASSUME NEW u \in Members, NEW n \in MemberLimits, NEW m \in RateLimits,
             SetMemberLimits(u, n, m)
      PROVE  LeaseQuiet
  BY <1>7 DEF SetMemberLimits, LeaseQuiet
<1>8. CASE Tick
  BY <1>8 DEF Tick, LeaseQuiet
<1>9. CASE NewMinute \/ Close
  BY <1>9 DEF NewMinute, Close, LeaseQuiet
<1>10. CASE UNCHANGED vars
  BY <1>10 DEF vars, LeaseQuiet
<1>11. ASSUME NEW r \in Requests, begin(r) \/ Cancel(r)
       PROVE  LeaseQuiet
  BY <1>11 DEF begin, Cancel, LeaseQuiet
<1>. QED
  BY <1>11, <1>3, <1>4, <1>5, <1>6, <1>7, <1>8, <1>9, <1>10 DEF Next

\* The lease a granted request takes.
LEMMA GrantedLease ==
  ASSUME TypeOK, NEW r \in Requests, leaseGranted(r)
  PROVE  \E a \in Accounts :
           /\ phase[r] \in {"begun", "awake"}
           /\ ~Busy(a)
           /\ phase' = [phase EXCEPT ![r] = "leased"]
           /\ account' = [account EXCEPT ![r] = a]
           /\ inFlight' = [inFlight EXCEPT ![a] = @ + 1]
           /\ sequence' = sequence + 1
           /\ seq' = [seq EXCEPT ![r] = sequence + 1]
           /\ rev' = [rev EXCEPT ![r] = revision[a]]
           /\ era' = [era EXCEPT ![r] = "fresh"]
           /\ ~Cooling(a)
           /\ UNCHANGED <<failures, lastFailureSequence, revision, cooldown, saved>>
  BY RouteTypes DEF leaseGranted, Candidates, MemberPassed, InLease

\* Sets of requests are finite.
LEMMA RequestSets ==
  ASSUME NEW S \in SUBSET Requests
  PROVE  IsFiniteSet(S) /\ Cardinality(S) \in Nat
  BY SetsAssumption, FS_Subset, FS_CardinalityType

\* LeaseAccounting is preserved.
LEMMA LeaseAccountingStep ==
  ASSUME TypeOK, LeaseAccounting, [Next]_vars
  PROVE  LeaseAccounting'
<1>1. CASE LeaseQuiet
  <2>1. \A a \in Accounts : Leases(a)' = Leases(a)
    BY <1>1 DEF LeaseQuiet, Leases
  <2>. QED
    BY <1>1, <2>1 DEF LeaseQuiet, LeaseAccounting
<1>2. ASSUME NEW r \in Requests, leaseGranted(r)
      PROVE  LeaseAccounting'
  <2>1. PICK a \in Accounts :
          /\ phase[r] \in {"begun", "awake"}
          /\ phase' = [phase EXCEPT ![r] = "leased"]
          /\ account' = [account EXCEPT ![r] = a]
          /\ inFlight' = [inFlight EXCEPT ![a] = @ + 1]
    BY <1>2, GrantedLease
  <2>2. Leases(a)' = Leases(a) \cup {r} /\ r \notin Leases(a)
    BY <2>1 DEF Leases, TypeOK, TypeRequests
  <2>3. \A b \in Accounts \ {a} : Leases(b)' = Leases(b)
    BY <2>1 DEF Leases, TypeOK, TypeRequests
  <2>4. Cardinality(Leases(a)') = Cardinality(Leases(a)) + 1
    BY <2>2, FS_AddElement, RequestSets DEF Leases
  <2>. QED
    BY <2>1, <2>3, <2>4 DEF LeaseAccounting, TypeOK, TypeHealth
<1>3. ASSUME NEW r \in Requests, NEW a \in Accounts, ReleaseLease(r, a)
      PROVE  LeaseAccounting'
  <2>1. r \in Leases(a) /\ Leases(a)' = Leases(a) \ {r}
    BY <1>3 DEF Leases, ReleaseLease, Drop, TypeOK, TypeRequests
  <2>2. \A b \in Accounts \ {a} : Leases(b)' = Leases(b)
    BY <1>3, SetsAssumption DEF Leases, ReleaseLease, Drop, TypeOK, TypeRequests
  <2>3. /\ Cardinality(Leases(a)') = Cardinality(Leases(a)) - 1
        /\ Cardinality(Leases(a)') \in Nat
    BY <2>1, FS_RemoveElement, RequestSets DEF Leases
  <2>4. inFlight' = [inFlight EXCEPT ![a] = Released(r, a)]
    BY <1>3 DEF ReleaseLease
  <2>5. inFlight[a] = Cardinality(Leases(a)) /\ inFlight[a] \in Nat
    BY DEF LeaseAccounting, TypeOK, TypeHealth
  <2>6. Released(r, a) = Cardinality(Leases(a)')
    BY <2>3, <2>5 DEF Released
  <2>. QED
    BY <2>2, <2>4, <2>6 DEF LeaseAccounting, TypeOK, TypeHealth
<1>4. ASSUME NEW a \in Accounts, Resume(a)
      PROVE  LeaseAccounting'
  <2>1. UNCHANGED <<phase, account, inFlight>>
    BY <1>4 DEF Resume, requestVars
  <2>. QED
    BY <2>1 DEF LeaseAccounting, Leases
<1>5. CASE Restart
  <2>1. \A a \in Accounts : Leases(a)' = {} /\ inFlight'[a] = 0
    BY <1>5, SetsAssumption DEF Restart, Leases
  <2>. QED
    BY <2>1, FS_EmptySet DEF LeaseAccounting
<1>. QED
  BY <1>1, <1>2, <1>3, <1>4, <1>5, LeaseSteps DEF LeaseReleased

-----------------------------------------------------------------------------
(* The order of admissions, failures and resumes *)

\* EraOrder is preserved.
LEMMA EraOrderStep ==
  ASSUME TypeOK, EraOrder, [Next]_vars
  PROVE  EraOrder'
<1>. USE DEF TypeOK, TypeRequests, TypeHealth, TypeService
<1>1. CASE LeaseQuiet
  BY <1>1 DEF LeaseQuiet, EraOrder, Leases, Probation
<1>2. ASSUME NEW r \in Requests, leaseGranted(r)
      PROVE  EraOrder'
  <2>1. PICK a \in Accounts :
          /\ phase' = [phase EXCEPT ![r] = "leased"]
          /\ account' = [account EXCEPT ![r] = a]
          /\ sequence' = sequence + 1
          /\ seq' = [seq EXCEPT ![r] = sequence + 1]
          /\ rev' = [rev EXCEPT ![r] = revision[a]]
          /\ era' = [era EXCEPT ![r] = "fresh"]
          /\ UNCHANGED <<failures, lastFailureSequence, revision>>
    BY <1>2, GrantedLease
  <2>. QED
    BY <2>1 DEF EraOrder, Leases, Probation
<1>3. ASSUME NEW r \in Requests, NEW a \in Accounts, LeaseReleased(r, a)
      PROVE  EraOrder'
  <2>1. /\ \A b \in Accounts : Leases(b)' \subseteq Leases(b)
        /\ \A b \in Accounts : \A q \in Leases(b)' : seq'[q] = seq[q] /\ rev'[q] = rev[q]
        /\ revision' = revision
    BY <1>3, SetsAssumption DEF LeaseReleased, ReleaseLease, Drop, Leases
  <2>2. CASE Penalize(r, a)
    <3>1. /\ sequence' = sequence + 1
          /\ lastFailureSequence' = [lastFailureSequence EXCEPT ![a] = sequence + 1]
          /\ \A b \in Accounts \ {a} : failures'[b] = failures[b]
          /\ \A q \in Requests : era'[q] = IF q \in Leases(a) /\ era[q] = "fresh"
                                           THEN "overtaken" ELSE era[q]
      BY <2>2 DEF Penalize
    <3>2. \A b \in Accounts \ {a} : Leases(b) \cap Leases(a) = {}
      BY DEF Leases
    <3>3. \A b \in Accounts : Leases(b) \subseteq Requests
      BY DEF Leases
    <3>. QED
      BY <2>1, <3>1, <3>2, <3>3 DEF EraOrder, Probation
  <2>3. CASE Recover(r, a)
    <3>1. /\ sequence' = sequence /\ era' = era
          /\ lastFailureSequence' = [lastFailureSequence EXCEPT ![a] = 0]
          /\ failures' = [failures EXCEPT ![a] = 0]
      BY <2>3 DEF Recover
    <3>. QED
      BY <2>1, <3>1 DEF EraOrder, Probation
  <2>4. CASE KeepHealth
    BY <2>1, <2>4 DEF KeepHealth, EraOrder, Probation
  <2>. QED
    BY <1>3, <2>2, <2>3, <2>4 DEF LeaseReleased
<1>4. ASSUME NEW a \in Accounts, Resume(a)
      PROVE  EraOrder'
  <2>1. /\ UNCHANGED <<phase, account, seq, rev, sequence>>
        /\ revision' = [revision EXCEPT ![a] = @ + 1]
        /\ failures' = [failures EXCEPT ![a] = 0]
        /\ lastFailureSequence' = [lastFailureSequence EXCEPT ![a] = 0]
        /\ \A q \in Requests : era'[q] = IF q \in Leases(a) THEN "superseded" ELSE era[q]
    BY <1>4 DEF Resume, requestVars, serviceVars
  <2>2. \A b \in Accounts : Leases(b)' = Leases(b) /\ Leases(b) \subseteq Requests
    BY <2>1 DEF Leases
  <2>3. \A b \in Accounts \ {a} : Leases(b) \cap Leases(a) = {}
    BY DEF Leases
  <2>. QED
    BY <2>1, <2>2, <2>3 DEF EraOrder, Probation
<1>5. CASE Restart
  <2>1. \A a \in Accounts : Leases(a)' = {} /\ lastFailureSequence'[a] = 0
    BY <1>5, SetsAssumption DEF Restart, Leases
  <2>. QED
    BY <1>5, <2>1 DEF EraOrder, Restart
<1>. QED
  BY <1>1, <1>2, <1>3, <1>4, <1>5, LeaseSteps

\* ProbeAlone is preserved: a lease granted in probation finds the account empty,
\* and a new failure leaves no fresh lease behind.
LEMMA ProbeAloneStep ==
  ASSUME TypeOK, LeaseAccounting, ProbeAlone, [Next]_vars
  PROVE  ProbeAlone'
<1>. USE DEF TypeOK, TypeRequests, TypeHealth
<1>1. CASE LeaseQuiet
  BY <1>1 DEF LeaseQuiet, ProbeAlone, Leases, Probation
<1>2. ASSUME NEW r \in Requests, leaseGranted(r)
      PROVE  ProbeAlone'
  <2>1. PICK a \in Accounts :
          /\ phase[r] \in {"begun", "awake"}
          /\ ~Busy(a) /\ ~Cooling(a)
          /\ phase' = [phase EXCEPT ![r] = "leased"]
          /\ account' = [account EXCEPT ![r] = a]
          /\ era' = [era EXCEPT ![r] = "fresh"]
          /\ UNCHANGED failures
    BY <1>2, GrantedLease
  <2>2. Probation(a) => Leases(a) = {}
    <3>1. Probation(a) => inFlight[a] = 0
      BY <2>1 DEF Busy
    <3>. QED
      BY <3>1, FS_EmptySet, RequestSets DEF LeaseAccounting, Leases
  <2>3. Leases(a)' = Leases(a) \cup {r}
    BY <2>1 DEF Leases
  <2>4. \A b \in Accounts \ {a} : Leases(b)' = Leases(b) /\ r \notin Leases(b)
    BY <2>1 DEF Leases
  <2>5. \A b \in Accounts : Leases(b) \subseteq Requests
    BY DEF Leases
  <2>. QED
    BY <2>1, <2>2, <2>3, <2>4, <2>5 DEF ProbeAlone, Probation
<1>3. ASSUME NEW r \in Requests, NEW a \in Accounts, LeaseReleased(r, a)
      PROVE  ProbeAlone'
  <2>1. \A b \in Accounts : Leases(b)' \subseteq Leases(b) /\ Leases(b) \subseteq Requests
    BY <1>3, SetsAssumption DEF LeaseReleased, ReleaseLease, Drop, Leases
  <2>2. CASE Penalize(r, a)
    <3>1. /\ \A b \in Accounts \ {a} : failures'[b] = failures[b]
          /\ \A q \in Requests : era'[q] = IF q \in Leases(a) /\ era[q] = "fresh"
                                           THEN "overtaken" ELSE era[q]
      BY <2>2 DEF Penalize
    <3>2. \A b \in Accounts \ {a} : Leases(b) \cap Leases(a) = {}
      BY DEF Leases
    <3>. QED
      BY <2>1, <3>1, <3>2 DEF ProbeAlone, Probation
  <2>3. CASE Recover(r, a)
    <3>1. era' = era /\ failures' = [failures EXCEPT ![a] = 0]
      BY <2>3 DEF Recover
    <3>. QED
      BY <2>1, <3>1 DEF ProbeAlone, Probation
  <2>4. CASE KeepHealth
    BY <2>1, <2>4 DEF KeepHealth, ProbeAlone, Probation
  <2>. QED
    BY <1>3, <2>2, <2>3, <2>4 DEF LeaseReleased
<1>4. ASSUME NEW a \in Accounts, Resume(a)
      PROVE  ProbeAlone'
  <2>1. /\ UNCHANGED <<phase, account>>
        /\ failures' = [failures EXCEPT ![a] = 0]
        /\ \A q \in Requests : era'[q] = IF q \in Leases(a) THEN "superseded" ELSE era[q]
    BY <1>4 DEF Resume, requestVars
  <2>2. \A b \in Accounts : Leases(b)' = Leases(b) /\ Leases(b) \subseteq Requests
    BY <2>1 DEF Leases
  <2>. QED
    BY <2>1, <2>2 DEF ProbeAlone, Probation
<1>5. CASE Restart
  <2>1. \A a \in Accounts : Leases(a)' = {}
    BY <1>5, SetsAssumption DEF Restart, Leases
  <2>. QED
    BY <2>1 DEF ProbeAlone
<1>. QED
  BY <1>1, <1>2, <1>3, <1>4, <1>5, LeaseSteps

\* SavedWhenQuiet is preserved: whatever changes one of the two copies only has
\* already used the sequence counter.
LEMMA SavedWhenQuietStep ==
  ASSUME TypeOK, EraOrder, SavedWhenQuiet, [Next]_vars
  PROVE  SavedWhenQuiet'
<1>. USE DEF TypeOK, TypeRequests, TypeHealth, TypeService
<1>1. CASE LeaseQuiet
  <2>1. CASE UNCHANGED <<cooldown, saved>>
    BY <1>1, <2>1 DEF LeaseQuiet, SavedWhenQuiet
  <2>2. CASE Tick
    <3>1. /\ failures' = failures /\ sequence' = sequence
          /\ \A a \in Accounts : /\ cooldown'[a] = Less(cooldown[a])
                                 /\ saved'[a].cooldown = Less(saved[a].cooldown)
                                 /\ saved'[a].failures = saved[a].failures
      BY <2>2 DEF Tick, serviceVars
    <3>. QED
      BY <3>1 DEF SavedWhenQuiet
  <2>. QED
    BY <1>1, <2>1, <2>2 DEF LeaseQuiet
<1>2. ASSUME NEW r \in Requests, leaseGranted(r)
      PROVE  SavedWhenQuiet'
  <2>1. sequence' = sequence + 1
    BY <1>2 DEF leaseGranted
  <2>. QED
    BY <2>1 DEF SavedWhenQuiet
<1>3. ASSUME NEW r \in Requests, NEW a \in Accounts, LeaseReleased(r, a)
      PROVE  SavedWhenQuiet'
  <2>1. r \in Leases(a)
    BY <1>3 DEF LeaseReleased, ReleaseLease, Leases
  <2>2. sequence > 0
    BY <2>1 DEF EraOrder, Leases
  <2>3. sequence' >= sequence
    BY <1>3 DEF LeaseReleased, Penalize, Recover, KeepHealth
  <2>4. sequence' # 0
    BY <2>2, <2>3
  <2>. QED
    BY <2>4 DEF SavedWhenQuiet
<1>4. ASSUME NEW a \in Accounts, Resume(a)
      PROVE  SavedWhenQuiet'
  <2>1. /\ sequence' = sequence
        /\ cooldown' = [cooldown EXCEPT ![a] = 0]
        /\ failures' = [failures EXCEPT ![a] = 0]
        /\ saved' = [saved EXCEPT ![a] = [cooldown |-> 0, failures |-> 0,
                                          revision |-> revision[a] + 1]]
    BY <1>4 DEF Resume, serviceVars
  <2>2. saved'[a].cooldown = 0 /\ saved'[a].failures = 0
    BY <2>1
  <2>3. \A b \in Accounts \ {a} : saved'[b] = saved[b]
    BY <2>1
  <2>. QED
    BY <2>1, <2>2, <2>3 DEF SavedWhenQuiet
<1>5. CASE Restart
  BY <1>5 DEF Restart, SavedWhenQuiet
<1>. QED
  BY <1>1, <1>2, <1>3, <1>4, <1>5, LeaseSteps

-----------------------------------------------------------------------------
(* Member leases and the queue *)

\* What a step can do to member leases: nothing, take one (admitMember), give
\* one back (finish) or forget all (a restart).
LEMMA MemberSteps ==
  ASSUME TypeOK, [Next]_vars
  PROVE  \/ UNCHANGED <<memberLeased, memberActive>>
         \/ \E r \in Requests : TakeMember(r)
         \/ \E r \in Requests : ReleaseMember(r)
         \/ Restart
<1>. USE DEF requestVars, healthVars, adminVars, memberVars, queueVars, serviceVars
<1>1. ASSUME NEW r \in Requests, leaseAccount(r)
      PROVE  UNCHANGED <<memberLeased, memberActive>> \/ TakeMember(r)
  BY <1>1 DEF leaseAccount, leaseExpired, leaseUnprepared, leaseMemberLimited,
      leaseRefusedEarly, leaseUnavailable, leaseQueueFull, leaseWait, leaseGranted, MemberPassed
<1>2. ASSUME NEW r \in Requests, finish(r)
      PROVE  ReleaseMember(r)
  BY <1>2 DEF finish, finishRefused, finishRateLimited, finishSuccess, finishOther, ReleaseLease
<1>3. ASSUME NEW r \in Requests, begin(r) \/ Cancel(r) \/ wakeTimer(r) \/ wakeRetry(r) \/ wakeToken(r)
      PROVE  UNCHANGED <<memberLeased, memberActive>>
  BY <1>3 DEF begin, Cancel, wakeTimer, wakeRetry, wakeToken, Wake
<1>4. ASSUME NEW a \in Accounts, SetEnabled(a) \/ Resume(a) \/ \E n \in Limits : SetConcurrency(a, n)
      PROVE  UNCHANGED <<memberLeased, memberActive>>
  BY <1>4 DEF SetEnabled, Resume, SetConcurrency
<1>5. ASSUME NEW u \in Members, NEW n \in MemberLimits, NEW m \in RateLimits,
             SetMemberLimits(u, n, m)
      PROVE  UNCHANGED <<memberLeased, memberActive>>
  BY <1>5 DEF SetMemberLimits
<1>6. ASSUME Tick \/ NewMinute \/ Close \/ UNCHANGED vars
      PROVE  UNCHANGED <<memberLeased, memberActive>>
  BY <1>6 DEF Tick, NewMinute, Close, vars
<1>. QED
  BY <1>1, <1>2, <1>3, <1>4, <1>5, <1>6 DEF Next

\* The holders of a member's leases are finitely many.
LEMMA HolderSets ==
  \A u : /\ IsFiniteSet(Holders(u)) /\ Cardinality(Holders(u)) \in Nat
         /\ IsFiniteSet(Holders(u)') /\ Cardinality(Holders(u)') \in Nat
<1>1. \A u : Holders(u) \in SUBSET Requests /\ Holders(u)' \in SUBSET Requests
  BY DEF Holders
<1>. QED
  BY <1>1, RequestSets

\* MemberAccounting is preserved.
LEMMA MemberAccountingStep ==
  ASSUME TypeOK, MemberAccounting, [Next]_vars
  PROVE  MemberAccounting'
<1>. USE DEF TypeOK, TypeRequests, TypeService
<1>1. CASE UNCHANGED <<memberLeased, memberActive>>
  BY <1>1 DEF MemberAccounting, Holders
<1>2. ASSUME NEW r \in Requests, TakeMember(r)
      PROVE  MemberAccounting'
  <2>. DEFINE u == Owner[r]
  <2>1. Holders(u)' = Holders(u) \cup {r}
    BY <1>2, RouteTypes DEF TakeMember, Holders
  <2>2. \A v \in Members \ {u} : Holders(v)' = Holders(v) /\ memberActive'[v] = memberActive[v]
    BY <1>2, RouteTypes DEF TakeMember, Holders
  <2>3. r \in Holders(u) <=> memberLeased[r]
    BY DEF Holders
  <2>4. memberActive'[u] = IF memberLeased[r] THEN memberActive[u] ELSE memberActive[u] + 1
    BY <1>2, RouteTypes DEF TakeMember
  <2>5. Cardinality(Holders(u)') = IF r \in Holders(u) THEN Cardinality(Holders(u))
                                   ELSE Cardinality(Holders(u)) + 1
    <3>1. IsFiniteSet(Holders(u))
      BY HolderSets
    <3>2. Cardinality(Holders(u) \cup {r}) = IF r \in Holders(u) THEN Cardinality(Holders(u))
                                              ELSE Cardinality(Holders(u)) + 1
      BY <3>1, FS_AddElement
    <3>. QED
      BY <2>1, <3>2
  <2>6. memberActive[u] = Cardinality(Holders(u))
    BY RouteTypes DEF MemberAccounting
  <2>7. memberActive'[u] = Cardinality(Holders(u)')
    BY <2>3, <2>4, <2>5, <2>6
  <2>. QED
    BY <2>2, <2>7 DEF MemberAccounting
<1>3. ASSUME NEW r \in Requests, ReleaseMember(r)
      PROVE  MemberAccounting'
  <2>. DEFINE u == Owner[r]
  <2>1. Holders(u)' = Holders(u) \ {r}
    BY <1>3, RouteTypes DEF ReleaseMember, Holders
  <2>2. \A v \in Members \ {u} : Holders(v)' = Holders(v) /\ memberActive'[v] = memberActive[v]
    BY <1>3, RouteTypes DEF ReleaseMember, Holders
  <2>3. r \in Holders(u) <=> memberLeased[r]
    BY DEF Holders
  <2>4. memberActive'[u] = IF memberLeased[r]
                           THEN IF memberActive[u] <= 1 THEN 0 ELSE memberActive[u] - 1
                           ELSE memberActive[u]
    BY <1>3, RouteTypes DEF ReleaseMember
  <2>5. /\ Cardinality(Holders(u)') = IF r \in Holders(u) THEN Cardinality(Holders(u)) - 1
                                      ELSE Cardinality(Holders(u))
        /\ Cardinality(Holders(u)') \in Nat /\ Cardinality(Holders(u)) \in Nat
    BY <2>1, FS_RemoveElement, HolderSets
  <2>6. memberActive[u] = Cardinality(Holders(u))
    BY RouteTypes DEF MemberAccounting
  <2>7. memberActive'[u] = Cardinality(Holders(u)')
    BY <2>3, <2>4, <2>5, <2>6
  <2>. QED
    BY <2>2, <2>7 DEF MemberAccounting
<1>4. CASE Restart
  <2>1. \A v \in Members : Holders(v)' = {} /\ memberActive'[v] = 0
    BY <1>4 DEF Restart, Holders
  <2>. QED
    BY <2>1, FS_EmptySet DEF MemberAccounting
<1>. QED
  BY <1>1, <1>2, <1>3, <1>4, MemberSteps

\* Nobody enters or leaves a queue.
Queued(r) == phase[r] \in {"waiting", "awake"}
QueueQuiet ==
  /\ \A r \in Requests : Queued(r)' <=> Queued(r)
  /\ waiting' = waiting
  /\ \A g \in Groups : channel'[g] = "none" <=> channel[g] = "none"

\* leaseAccount returns, with or without a lease.
LeaseReturned(r) ==
  /\ InLease(r) /\ LeaveQueue(r)
  /\ \E p \in {"refused", "leased"} : phase' = [phase EXCEPT ![r] = p]

\* What a step can do to the queues.
LEMMA QueueSteps ==
  ASSUME TypeOK, [Next]_vars
  PROVE  \/ QueueQuiet
         \/ \E r \in Requests : LeaseReturned(r)
         \/ \E r \in Requests : leaseWait(r)
         \/ Restart
<1>. USE DEF TypeOK, TypeRequests, TypeService, requestVars, healthVars, adminVars, memberVars,
             queueVars, serviceVars, Queued
<1>1. ASSUME NEW r \in Requests, leaseAccount(r)
      PROVE  LeaseReturned(r) \/ leaseWait(r)
  <2>1. CASE leaseExpired(r) \/ leaseUnprepared(r) \/ leaseMemberLimited(r)
    BY <2>1 DEF leaseExpired, leaseUnprepared, leaseMemberLimited, leaseRefusedEarly, Refuse,
                LeaseReturned
  <2>2. CASE leaseUnavailable(r) \/ leaseQueueFull(r)
    BY <2>2 DEF leaseUnavailable, leaseQueueFull, Refuse, MemberPassed, LeaseReturned
  <2>3. CASE leaseGranted(r)
    BY <2>3 DEF leaseGranted, MemberPassed, LeaseReturned
  <2>. QED
    BY <1>1, <2>1, <2>2, <2>3 DEF leaseAccount
<1>2. \A a \in Accounts : notifyCapacity(a) =>
        \A g \in Groups : channel'[g] = "none" <=> channel[g] = "none"
  BY DEF notifyCapacity
<1>3. ASSUME NEW r \in Requests, finishRefused(r)
      PROVE  QueueQuiet
  BY <1>3 DEF finishRefused, Drop, QueueQuiet
<1>4. ASSUME NEW r \in Requests, NEW a \in Accounts, ReleaseLease(r, a)
      PROVE  QueueQuiet
  BY <1>4, <1>2 DEF ReleaseLease, Drop, QueueQuiet
<1>5. ASSUME NEW r \in Requests, finish(r)
      PROVE  QueueQuiet
  BY <1>3, <1>4, <1>5 DEF finish, finishRateLimited, finishSuccess, finishOther
<1>6. ASSUME NEW r \in Requests, begin(r) \/ Cancel(r)
      PROVE  QueueQuiet
  BY <1>6 DEF begin, Cancel, QueueQuiet
<1>7. ASSUME NEW r \in Requests, wakeTimer(r) \/ wakeRetry(r) \/ wakeToken(r)
      PROVE  QueueQuiet
  <2>1. Wake(r)
    BY <1>7 DEF wakeTimer, wakeRetry, wakeToken
  <2>2. \A g \in Groups : channel'[g] = "none" <=> channel[g] = "none"
    BY <1>7 DEF wakeTimer, wakeRetry, wakeToken
  <2>. QED
    BY <2>1, <2>2 DEF Wake, QueueQuiet
<1>8. ASSUME NEW a \in Accounts, SetEnabled(a) \/ Resume(a) \/ \E n \in Limits : SetConcurrency(a, n)
      PROVE  QueueQuiet
  BY <1>8, <1>2 DEF SetEnabled, Resume, SetConcurrency, QueueQuiet
<1>9. ASSUME NEW u \in Members, NEW n \in MemberLimits, NEW m \in RateLimits,
             SetMemberLimits(u, n, m)
      PROVE  QueueQuiet
  BY <1>9 DEF SetMemberLimits, QueueQuiet
<1>10. ASSUME Tick \/ NewMinute \/ Close \/ UNCHANGED vars
       PROVE  QueueQuiet
  BY <1>10 DEF Tick, NewMinute, Close, vars, QueueQuiet
<1>. QED
  BY <1>1, <1>5, <1>6, <1>7, <1>8, <1>9, <1>10 DEF Next

\* The waiters of a pool are finitely many.
LEMMA WaiterSets ==
  \A g : /\ IsFiniteSet(Waiters(g)) /\ Cardinality(Waiters(g)) \in Nat
         /\ IsFiniteSet(Waiters(g)') /\ Cardinality(Waiters(g)') \in Nat
<1>1. \A g : Waiters(g) \in SUBSET Requests /\ Waiters(g)' \in SUBSET Requests
  BY DEF Waiters
<1>. QED
  BY <1>1, RequestSets

\* QueueAccounting is preserved.
LEMMA QueueAccountingStep ==
  ASSUME TypeOK, QueueAccounting, [Next]_vars
  PROVE  QueueAccounting'
<1>. USE DEF TypeOK, TypeRequests, TypeService
<1>1. CASE QueueQuiet
  <2>1. \A g \in Groups : Waiters(g)' = Waiters(g)
    BY <1>1 DEF QueueQuiet, Queued, Waiters
  <2>. QED
    BY <1>1, <2>1 DEF QueueQuiet, QueueAccounting
<1>2. ASSUME NEW r \in Requests, LeaseReturned(r)
      PROVE  QueueAccounting'
  <2>. DEFINE g == Group[r]
  <2>1. Waiters(g)' = Waiters(g) \ {r}
    BY <1>2, RouteTypes DEF LeaseReturned, Waiters
  <2>2. \A h \in Groups \ {g} : /\ Waiters(h)' = Waiters(h)
                                /\ waiting'[h] = waiting[h]
                                /\ channel'[h] = channel[h]
    BY <1>2, RouteTypes DEF LeaseReturned, LeaveQueue, Waiters, queueVars
  <2>3. /\ r \in Waiters(g) <=> phase[r] = "awake"
        /\ waiting'[g] = IF phase[r] = "awake" THEN waiting[g] - 1 ELSE waiting[g]
        /\ channel'[g] = IF phase[r] = "awake" /\ waiting[g] = 1 THEN "none" ELSE channel[g]
    BY <1>2, RouteTypes DEF LeaseReturned, InLease, LeaveQueue, Waiters, queueVars
  <2>4. /\ Cardinality(Waiters(g)') = IF r \in Waiters(g) THEN Cardinality(Waiters(g)) - 1
                                      ELSE Cardinality(Waiters(g))
        /\ Cardinality(Waiters(g)') \in Nat
    BY <2>1, FS_RemoveElement, WaiterSets
  <2>5. /\ waiting[g] = Cardinality(Waiters(g)) /\ waiting[g] <= QueueLimit
        /\ channel[g] = "none" <=> waiting[g] = 0
        /\ waiting[g] \in Int /\ QueueLimit \in Nat
    BY RouteTypes, BoundsAssumption DEF QueueAccounting
  <2>6. /\ waiting'[g] = Cardinality(Waiters(g)')
        /\ waiting'[g] <= QueueLimit
        /\ channel'[g] = "none" <=> waiting'[g] = 0
    BY <2>3, <2>4, <2>5
  <2>. QED
    BY <2>2, <2>6 DEF QueueAccounting
<1>3. ASSUME NEW r \in Requests, leaseWait(r)
      PROVE  QueueAccounting'
  <2>. DEFINE g == Group[r]
  <2>1. Waiters(g)' = Waiters(g) \cup {r}
    BY <1>3, RouteTypes DEF leaseWait, Waiters
  <2>2. \A h \in Groups \ {g} : /\ Waiters(h)' = Waiters(h)
                                /\ waiting'[h] = waiting[h]
                                /\ channel'[h] = channel[h]
    BY <1>3, RouteTypes DEF leaseWait, Waiters
  <2>3. /\ r \in Waiters(g) <=> phase[r] # "begun"
        /\ waiting'[g] = IF phase[r] = "begun" THEN waiting[g] + 1 ELSE waiting[g]
        /\ channel'[g] # "none"
        /\ phase[r] = "begun" => waiting[g] < QueueLimit
    BY <1>3, RouteTypes DEF leaseWait, MemberPassed, InLease, Waiters
  <2>4. /\ Cardinality(Waiters(g)') = IF r \in Waiters(g) THEN Cardinality(Waiters(g))
                                      ELSE Cardinality(Waiters(g)) + 1
    <3>1. IsFiniteSet(Waiters(g))
      BY WaiterSets
    <3>2. Cardinality(Waiters(g) \cup {r}) = IF r \in Waiters(g) THEN Cardinality(Waiters(g))
                                              ELSE Cardinality(Waiters(g)) + 1
      BY <3>1, FS_AddElement
    <3>. QED
      BY <2>1, <3>2
  <2>5. /\ waiting[g] = Cardinality(Waiters(g)) /\ waiting[g] <= QueueLimit
        /\ Cardinality(Waiters(g)) \in Nat /\ QueueLimit \in Nat
    BY RouteTypes, BoundsAssumption, WaiterSets DEF QueueAccounting
  <2>6. Cardinality(Waiters(g)') # 0
    <3>1. Waiters(g)' # {} /\ IsFiniteSet(Waiters(g)')
      BY <2>1, WaiterSets
    <3>. QED
      BY <3>1, FS_EmptySet
  <2>7. /\ waiting'[g] = Cardinality(Waiters(g)')
        /\ waiting'[g] <= QueueLimit
        /\ channel'[g] = "none" <=> waiting'[g] = 0
    BY <2>3, <2>4, <2>5, <2>6
  <2>. QED
    BY <2>2, <2>7 DEF QueueAccounting
<1>4. CASE Restart
  <2>1. \A g \in Groups : Waiters(g)' = {} /\ waiting'[g] = 0 /\ channel'[g] = "none"
    BY <1>4 DEF Restart, Waiters
  <2>2. 0 <= QueueLimit /\ Cardinality({}) = 0
    BY BoundsAssumption, FS_EmptySet
  <2>. QED
    BY <2>1, <2>2 DEF QueueAccounting
<1>. QED
  BY <1>1, <1>2, <1>3, <1>4, QueueSteps

\* QueuedHoldMember is preserved.
LEMMA QueuedHoldMemberStep ==
  ASSUME TypeOK, QueuedHoldMember, [Next]_vars
  PROVE  QueuedHoldMember'
<1>. USE DEF TypeOK, TypeRequests, requestVars, healthVars, adminVars, memberVars, queueVars,
             serviceVars, QueuedHoldMember
<1>1. ASSUME NEW r \in Requests, leaseAccount(r)
      PROVE  QueuedHoldMember'
  <2>1. CASE leaseRefusedEarly(r)
    BY <2>1 DEF leaseRefusedEarly, Refuse
  <2>2. CASE MemberPassed(r) /\ Refuse(r)
    BY <2>2 DEF MemberPassed, TakeMember, Refuse
  <2>3. CASE leaseWait(r)
    BY <2>3 DEF leaseWait, MemberPassed, TakeMember
  <2>4. CASE leaseGranted(r)
    BY <2>4 DEF leaseGranted, MemberPassed, TakeMember
  <2>. QED
    BY <1>1, <2>1, <2>2, <2>3, <2>4
    DEF leaseAccount, leaseExpired, leaseUnprepared, leaseMemberLimited,
        leaseUnavailable, leaseQueueFull
<1>2. ASSUME NEW r \in Requests, Drop(r) /\ ReleaseMember(r)
      PROVE  QueuedHoldMember'
  BY <1>2 DEF Drop, ReleaseMember
<1>3. ASSUME NEW r \in Requests, finish(r)
      PROVE  QueuedHoldMember'
  BY <1>2, <1>3 DEF finish, finishRefused, finishRateLimited, finishSuccess, finishOther,
                    ReleaseLease
<1>4. ASSUME NEW r \in Requests, begin(r) \/ Cancel(r)
      PROVE  QueuedHoldMember'
  BY <1>4 DEF begin, Cancel
<1>5. ASSUME NEW r \in Requests, wakeTimer(r) \/ wakeRetry(r) \/ wakeToken(r)
      PROVE  QueuedHoldMember'
  BY <1>5 DEF wakeTimer, wakeRetry, wakeToken, Wake
<1>6. ASSUME NEW a \in Accounts, SetEnabled(a) \/ Resume(a) \/ \E n \in Limits : SetConcurrency(a, n)
      PROVE  QueuedHoldMember'
  BY <1>6 DEF SetEnabled, Resume, SetConcurrency
<1>7. ASSUME NEW u \in Members, NEW n \in MemberLimits, NEW m \in RateLimits,
             SetMemberLimits(u, n, m)
      PROVE  QueuedHoldMember'
  BY <1>7 DEF SetMemberLimits
<1>8. ASSUME Tick \/ NewMinute \/ Close \/ UNCHANGED vars
      PROVE  QueuedHoldMember'
  BY <1>8 DEF Tick, NewMinute, Close, vars
<1>9. CASE Restart
  BY <1>9 DEF Restart
<1>. QED
  BY <1>1, <1>3, <1>4, <1>5, <1>6, <1>7, <1>8, <1>9 DEF Next

-----------------------------------------------------------------------------
(* The invariant *)

\* The initial states.
LEMMA InitInv == Init => IInv
<1>. SUFFICES ASSUME Init PROVE IInv
  OBVIOUS
<1>1. TypeOK
  <2>1. TypeRequests
    BY DEF Init, TypeRequests, Phases
  <2>2. TypeHealth
    BY DEF Init, TypeHealth
  <2>3. closed \in BOOLEAN /\ enabled \in [Accounts -> BOOLEAN]
    BY DEF Init
  <2>4. TypeService
    BY <2>3 DEF Init, TypeService
  <2>. QED
    BY <2>1, <2>2, <2>4 DEF TypeOK
<1>2. /\ \A a \in Accounts : Leases(a) = {}
      /\ \A u \in Members : Holders(u) = {}
      /\ \A g \in Groups : Waiters(g) = {}
  BY DEF Init, Leases, Holders, Waiters
<1>3. LeaseAccounting /\ MemberAccounting
  BY <1>2, FS_EmptySet DEF Init, LeaseAccounting, MemberAccounting
<1>4. QueueAccounting
  <2>1. 0 <= QueueLimit /\ Cardinality({}) = 0
    BY BoundsAssumption, FS_EmptySet
  <2>2. \A g \in Groups : waiting[g] = 0 /\ channel[g] = "none"
    BY DEF Init
  <2>. QED
    BY <1>2, <2>1, <2>2 DEF QueueAccounting
<1>5. QueuedHoldMember /\ EraOrder /\ ProbeAlone
  BY <1>2 DEF Init, QueuedHoldMember, EraOrder, ProbeAlone
<1>6. SavedWhenQuiet
  BY DEF Init, SavedWhenQuiet
<1>. QED
  BY <1>1, <1>3, <1>4, <1>5, <1>6 DEF IInv

\* IInv is inductive, so it holds in every reachable state.
THEOREM Invariance == Spec => []IInv
<1>1. IInv /\ [Next]_vars => IInv'
  BY TypeStep, LeaseAccountingStep, MemberAccountingStep, QueueAccountingStep,
     QueuedHoldMemberStep, EraOrderStep, ProbeAloneStep, SavedWhenQuietStep
  DEF IInv
<1>. QED
  BY <1>1, InitInv, PTL DEF Spec

\* Every variable of the gateway's admission state keeps its type.
THEOREM TypeCorrectness == Spec => []TypeOK
<1>1. IInv => TypeOK
  BY DEF IInv
<1>. QED
  BY <1>1, Invariance, PTL

\* InFlight, memberActive and waiting count exactly the leases, member leases
\* and queued requests there are, for any number of requests and accounts.
THEOREM CountersExact == Spec => [](LeaseAccounting /\ MemberAccounting /\ QueueAccounting)
<1>1. IInv => LeaseAccounting /\ MemberAccounting /\ QueueAccounting
  BY DEF IInv
<1>. QED
  BY <1>1, Invariance, PTL

\* An account in probation carries at most one request admitted after its last
\* failure, and that request is then its only lease.
THEOREM ProbeIsSingle == Spec => []SingleProbe
<1>1. ASSUME IInv PROVE SingleProbe
  <2>1. SUFFICES ASSUME NEW a \in Accounts, Probation(a), NEW r \in Leases(a), era[r] = "fresh"
                 PROVE  inFlight[a] = 1
    BY DEF SingleProbe
  <2>2. Leases(a) = {r}
    BY <1>1, <2>1 DEF IInv, ProbeAlone
  <2>. QED
    BY <1>1, <2>2, FS_Singleton DEF IInv, LeaseAccounting
<1>. QED
  BY <1>1, Invariance, PTL

\* Only a request admitted after the last failure and the last Resume clears an
\* account's failures.
THEOREM RecoveryIsByProbe == Spec => RecoveryByProbe
<1>. DEFINE Step == \A a \in Accounts :
       failures[a] > 0 /\ failures'[a] = 0 /\ revision'[a] = revision[a] /\ ~Restarted
         => \E r \in Leases(a) : phase'[r] = "done" /\ era[r] = "fresh"
<1>1. ASSUME IInv, [Next]_vars PROVE Step
  <2>1. SUFFICES ASSUME NEW a \in Accounts, failures[a] > 0, failures'[a] = 0,
                        revision'[a] = revision[a], ~Restarted
                 PROVE  \E r \in Leases(a) : phase'[r] = "done" /\ era[r] = "fresh"
    OBVIOUS
  <2>. USE <1>1 DEF IInv, TypeOK, TypeRequests, TypeHealth, TypeService
  <2>2. ~LeaseQuiet
    BY <2>1 DEF LeaseQuiet
  <2>3. ~\E r \in Requests : leaseGranted(r)
    BY <2>1 DEF leaseGranted
  <2>4. ~\E b \in Accounts : Resume(b)
    BY <2>1 DEF Resume
  <2>5. ~Restart
    <3>1. SUFFICES ASSUME Restart PROVE FALSE
      OBVIOUS
    <3>2. sequence' = 0 /\ failures'[a] = saved[a].failures
      BY <3>1 DEF Restart
    <3>3. sequence = 0
      BY <2>1, <3>2 DEF Restarted
    <3>. QED
      BY <2>1, <3>2, <3>3 DEF SavedWhenQuiet
  <2>6. PICK r \in Requests, b \in Accounts : LeaseReleased(r, b)
    BY <2>2, <2>3, <2>4, <2>5, LeaseSteps
  <2>7. ~Penalize(r, b) /\ ~KeepHealth
    <3>1. ~KeepHealth
      BY <2>1 DEF KeepHealth
    <3>2. ~Penalize(r, b)
      <4>1. Penalize(r, b) =>
              failures' = [failures EXCEPT ![b] = IF @ >= 16 THEN 16 ELSE @ + 1]
        BY DEF Penalize
      <4>2. (IF failures[b] >= 16 THEN 16 ELSE failures[b] + 1) # 0
        <5>1. failures[b] \in 0..16
          OBVIOUS
        <5>. HIDE <1>1 DEF IInv, TypeOK, TypeHealth, TypeRequests, TypeService
        <5>. QED
          BY <5>1
      <4>3. failures \in [Accounts -> 0..16]
        OBVIOUS
      <4>. HIDE <1>1 DEF IInv, TypeOK, TypeHealth, TypeRequests, TypeService
      <4>. QED
        BY <2>1, <4>1, <4>2, <4>3
    <3>. QED
      BY <3>1, <3>2
  <2>8. CurrentRevision(r, b) /\ MayRecover(r, b) /\ Recover(r, b)
    BY <2>6, <2>7 DEF LeaseReleased
  <2>9. a = b
    BY <2>1, <2>8 DEF Recover
  <2>10. r \in Leases(a) /\ phase'[r] = "done"
    BY <2>6, <2>9 DEF LeaseReleased, ReleaseLease, Drop, Leases
  <2>11. era[r] \notin {"superseded", "overtaken"}
    BY <2>1, <2>8, <2>9, <2>10 DEF EraOrder, CurrentRevision, MayRecover, Probation
  <2>. QED
    BY <2>10, <2>11
<1>2. UNCHANGED vars => [Step]_vars
  OBVIOUS
<1>. QED
  BY <1>1, Invariance, PTL DEF Spec, RecoveryByProbe

\* A running cooldown is shortened only by time, Resume, or the restart of a
\* process whose last write of it failed.
THEOREM CooldownIsKept == Spec => CooldownHolds
<1>. DEFINE Step == \A a \in Accounts :
       cooldown'[a] < cooldown[a]
         => \/ phase' = phase /\ cooldown'[a] = cooldown[a] - 1
            \/ revision'[a] # revision[a]
            \/ Restarted /\ saved[a].cooldown < cooldown[a]
<1>1. ASSUME IInv, [Next]_vars PROVE Step
  <2>1. SUFFICES ASSUME NEW a \in Accounts, cooldown'[a] < cooldown[a], revision'[a] = revision[a]
                 PROVE  \/ phase' = phase /\ cooldown'[a] = cooldown[a] - 1
                        \/ Restarted /\ saved[a].cooldown < cooldown[a]
    OBVIOUS
  <2>. USE <1>1 DEF IInv, TypeOK, TypeHealth, TypeService
  <2>2. CASE Tick
    <3>1. phase' = phase /\ cooldown'[a] = Less(cooldown[a])
      BY <2>2 DEF Tick
    <3>. QED
      BY <2>1, <3>1 DEF Less
  <2>3. CASE Restart
    <3>1. sequence' = 0 /\ cooldown'[a] = saved[a].cooldown
      BY <2>3 DEF Restart
    <3>2. sequence # 0
      BY <2>1, <3>1 DEF SavedWhenQuiet
    <3>. QED
      BY <2>1, <3>1, <3>2 DEF Restarted
  <2>4. CASE LeaseQuiet /\ ~Tick
    BY <2>1, <2>4 DEF LeaseQuiet
  <2>5. CASE \E r \in Requests : leaseGranted(r)
    BY <2>1, <2>5 DEF leaseGranted
  <2>6. CASE \E b \in Accounts : Resume(b)
    BY <2>1, <2>6 DEF Resume
  <2>7. ASSUME NEW r \in Requests, NEW b \in Accounts, LeaseReleased(r, b)
        PROVE  FALSE
    <3>1. ~KeepHealth
      BY <2>1 DEF KeepHealth
    <3>2. ~Penalize(r, b)
      <4>1. SUFFICES ASSUME Penalize(r, b) PROVE FALSE
        OBVIOUS
      <4>2. PICK d \in Delays : cooldown' = [cooldown EXCEPT ![b] = Extended(b, d)]
        BY <4>1 DEF Penalize
      <4>3. Extended(b, d) >= cooldown[b] /\ Extended(b, d) \in Nat
        BY BoundsAssumption DEF Extended
      <4>. QED
        BY <2>1, <4>2, <4>3
    <3>3. ~(MayRecover(r, b) /\ Recover(r, b))
      BY <2>1 DEF MayRecover, Cooling, Recover
    <3>. QED
      BY <2>7, <3>1, <3>2, <3>3 DEF LeaseReleased
  <2>. QED
    BY <2>2, <2>3, <2>4, <2>5, <2>6, <2>7, LeaseSteps
<1>. QED
  BY <1>1, Invariance, PTL DEF Spec, CooldownHolds

-----------------------------------------------------------------------------
(* Rate units *)

\* What a step can do to the rates: nothing, charge an entry of leaseAccount, or
\* forget them (a new minute, a restart).
LEMMA RateSteps ==
  ASSUME TypeOK, [Next]_vars
  PROVE  \/ UNCHANGED rate
         \/ \E r \in Requests : InLease(r) /\ TakeMember(r)
         \/ NewMinute \/ Restart
<1>. USE DEF requestVars, healthVars, adminVars, memberVars, queueVars, serviceVars
<1>1. ASSUME NEW r \in Requests, leaseAccount(r)
      PROVE  UNCHANGED rate \/ (InLease(r) /\ TakeMember(r))
  BY <1>1 DEF leaseAccount, leaseExpired, leaseUnprepared, leaseMemberLimited,
      leaseRefusedEarly, leaseUnavailable, leaseQueueFull, leaseWait, leaseGranted, MemberPassed
<1>2. ASSUME NEW r \in Requests, finish(r)
      PROVE  UNCHANGED rate
  BY <1>2 DEF finish, finishRefused, finishRateLimited, finishSuccess, finishOther, ReleaseLease,
      ReleaseMember
<1>3. ASSUME NEW r \in Requests, begin(r) \/ Cancel(r) \/ wakeTimer(r) \/ wakeRetry(r) \/ wakeToken(r)
      PROVE  UNCHANGED rate
  BY <1>3 DEF begin, Cancel, wakeTimer, wakeRetry, wakeToken, Wake
<1>4. ASSUME NEW a \in Accounts, SetEnabled(a) \/ Resume(a) \/ \E n \in Limits : SetConcurrency(a, n)
      PROVE  UNCHANGED rate
  BY <1>4 DEF SetEnabled, Resume, SetConcurrency
<1>5. ASSUME NEW u \in Members, NEW n \in MemberLimits, NEW m \in RateLimits,
             SetMemberLimits(u, n, m)
      PROVE  UNCHANGED rate
  BY <1>5 DEF SetMemberLimits
<1>6. ASSUME Tick \/ Close \/ UNCHANGED vars
      PROVE  UNCHANGED rate
  BY <1>6 DEF Tick, Close, vars
<1>. QED
  BY <1>1, <1>2, <1>3, <1>4, <1>5, <1>6 DEF Next

\* Waiting costs one rate unit: a pass through admitMember's loop charges only a
\* request that has no member lease yet, and a waiter keeps the one it has.
THEOREM RateIsChargedOnce == Spec => RateChargedOnce
<1>. DEFINE Step == \A u \in Members :
       rate'[u] > rate[u]
         => /\ rate'[u] = rate[u] + 1
            /\ \E r \in Requests : /\ Owner[r] = u /\ phase[r] = "begun"
                                    /\ ~memberLeased[r] /\ memberLeased'[r]
<1>1. ASSUME IInv, [Next]_vars PROVE Step
  <2>1. SUFFICES ASSUME NEW u \in Members, rate'[u] > rate[u]
                 PROVE  /\ rate'[u] = rate[u] + 1
                        /\ \E r \in Requests : /\ Owner[r] = u /\ phase[r] = "begun"
                                                /\ ~memberLeased[r] /\ memberLeased'[r]
    OBVIOUS
  <2>. USE <1>1 DEF IInv, TypeOK, TypeRequests, TypeService
  <2>2. rate[u] \in Nat
    OBVIOUS
  <2>3. PICK r \in Requests : InLease(r) /\ TakeMember(r)
    <3>1. ~NewMinute /\ ~Restart
      BY <2>1, <2>2 DEF NewMinute, Restart
    <3>. QED
      BY <2>1, <3>1, RateSteps
  <2>4. rate' = [rate EXCEPT ![Owner[r]] =
                   IF memberLeased[r] \/ rateLimit[Owner[r]] = 0 THEN @ ELSE @ + 1]
    BY <2>3 DEF TakeMember
  <2>5. Owner[r] = u /\ ~memberLeased[r] /\ rate'[u] = rate[u] + 1
    BY <2>1, <2>2, <2>4, RouteTypes
  <2>6. memberLeased'[r]
    BY <2>3 DEF TakeMember
  <2>7. phase[r] = "begun"
    BY <2>3, <2>5 DEF InLease, QueuedHoldMember
  <2>. QED
    BY <2>5, <2>6, <2>7
<1>. QED
  BY <1>1, Invariance, PTL DEF Spec, RateChargedOnce

\* The counters that decide admission are exact in every reachable state, and an
\* account in probation carries a single probe.
THEOREM LeasesAreSound == Spec => []LeasesSound
<1>1. TypeOK /\ LeaseAccounting /\ MemberAccounting /\ QueueAccounting /\ SingleProbe => LeasesSound
  BY DEF LeasesSound
<1>. QED
  BY <1>1, TypeCorrectness, CountersExact, ProbeIsSingle, PTL

\* Failures end, and cooldowns shrink, only on evidence newer than they are.
THEOREM HealthIsByEvidence == Spec => HealthByEvidence
  BY RecoveryIsByProbe, CooldownIsKept DEF HealthByEvidence
-----------------------------------------------------------------------------
(* Bindings of conversations *)

BindingRow(b) ==
  /\ {"thread", "scope", "account", "model", "expires", "rebound"} \subseteq DOMAIN b
  /\ b.thread \in Threads /\ b.scope \in Scopes /\ b.model \in ChatModels /\ b.expires \in Int /\ b.rebound \in BOOLEAN

\* A conversation has one binding in a scope, dead ones included.
OneEach(bs) == \A b, c \in bs : b.thread = c.thread /\ b.scope = c.scope => b = c

Answered(h) ==
  /\ h.on \in BOOLEAN
  /\ h.on => /\ h.at \in Nat /\ h.model \in ChatModels
             /\ h.by = [m \in ChatModels |-> h.by[m]] /\ h.by[h.model] = h.account

\* The binding that serves a conversation as remembered: it lives as long as the memory, names the account
\* and the model that answered last, and if it was never rebound no other account answered anything.
ServedBy(b, h) ==
  /\ b.expires >= h.at + AffinityTTL - TouchSlack
  /\ b.account = h.account /\ b.model = h.model
  /\ ~b.rebound => \A m \in ChatModels : h.by[m] \in {"none", b.account}

SelectInv ==
  /\ selectClock \in Nat
  /\ answered = [t \in Threads |-> answered[t]] /\ \A t \in Threads : answered[t] = [s \in Scopes |-> answered[t][s]]
  /\ \A t \in Threads, s \in Scopes : Answered(answered[t][s])
  /\ IsFiniteSet(affinities) /\ (\A b \in affinities : BindingRow(b)) /\ OneEach(affinities)
  /\ \A t \in Threads, s \in Scopes :
       remembered(t, s) => \E b \in affinities : b.thread = t /\ b.scope = s /\ ServedBy(b, answered[t][s])

LEMMA SelectInitial == SelectInit => SelectInv
  <1> SUFFICES ASSUME SelectInit PROVE SelectInv
    OBVIOUS
  <1>1. answered = [t \in Threads |-> [s \in Scopes |-> Unheard]] /\ affinities = {} /\ selectClock = 0
    BY DEF SelectInit
  <1>2. \A t \in Threads, s \in Scopes : answered[t][s].on = FALSE
    BY <1>1 DEF Unheard
  <1>3. \A t \in Threads, s \in Scopes : ~remembered(t, s) /\ Answered(answered[t][s])
    BY <1>2 DEF remembered, Answered
  <1>4. answered = [t \in Threads |-> answered[t]] /\ \A t \in Threads : answered[t] = [s \in Scopes |-> answered[t][s]]
    <2> DEFINE none == [s \in Scopes |-> Unheard]
    <2>1. none = [s \in Scopes |-> none[s]]
      OBVIOUS
    <2> HIDE DEF none
    <2>2. answered = [t \in Threads |-> none]
      BY <1>1 DEF none
    <2> QED
      BY <2>1, <2>2
  <1> QED
    BY <1>1, <1>3, <1>4, FS_EmptySet DEF SelectInv, OneEach

LEMMA Durations == AffinityTTL \in Nat /\ TouchSlack \in Nat
  BY AffinityAssumption

LEMMA FiniteWith ==
  ASSUME NEW S, IsFiniteSet(S), NEW T \in SUBSET S, NEW a, NEW b
  PROVE  IsFiniteSet(T \cup {a}) /\ IsFiniteSet(T \cup {a, b})
  <1>1. IsFiniteSet(T) /\ IsFiniteSet({a}) /\ IsFiniteSet({b})
    BY FS_Subset, FS_Singleton
  <1>2. IsFiniteSet(T \cup {a})
    BY <1>1, FS_Union
  <1>3. IsFiniteSet((T \cup {a}) \cup {b})
    BY <1>1, <1>2, FS_Union
  <1>4. (T \cup {a}) \cup {b} = T \cup {a, b}
    OBVIOUS
  <1> QED
    BY <1>2, <1>3, <1>4

\* Where one binding decides, there is one.
LEMMA OneDecides ==
  ASSUME SelectInv, NEW t, NEW s, Cardinality(sessionBinding(t, s)) = 1,
         NEW b \in sessionBinding(t, s), NEW c \in sessionBinding(t, s)
  PROVE  b = c
  <1>1. sessionBinding(t, s) \subseteq affinities
    BY DEF sessionBinding
  <1>2. IsFiniteSet(sessionBinding(t, s))
    BY <1>1, FS_Subset DEF SelectInv
  <1>3. PICK x : sessionBinding(t, s) = {x}
    BY <1>2, FS_Singleton
  <1> QED
    BY <1>3

LEMMA AskedTypes ==
  ASSUME NEW r \in Asked
  PROVE  /\ r.thread \in Threads \cup {"none"} /\ r.model \in ChatModels /\ scopeOf(r) \in Scopes
         /\ r.affinity \in {"pinned", "portable", "continuation"}
  BY AskedAssumption DEF Request, scopeOf, Scopes

LEMMA NoScope == "none" \notin Scopes
  BY AffinityAssumption DEF Scopes

\* The bindings that decide are alive, and of the scope asked for unless it has none.
LEMMA Deciding ==
  ASSUME SelectInv, NEW t \in Threads, NEW s \in Scopes, NEW b \in sessionBinding(t, s)
  PROVE  /\ b \in affinities /\ b.thread = t /\ alive(b) /\ BindingRow(b)
         /\ remembered(t, s) => b.scope = s
         /\ b.scope # s => \A c \in affinities : c.thread = t /\ c.scope = s => ~alive(c)
         /\ remembered(t, b.scope) => ServedBy(b, answered[t][b.scope])
  <1>1. b \in affinities /\ b.thread = t /\ alive(b) /\ BindingRow(b)
    BY DEF sessionBinding, SelectInv
  <1>2. b.scope # s => \A c \in affinities : c.thread = t /\ c.scope = s => ~alive(c)
    BY DEF sessionBinding
  <1>3. ASSUME NEW u \in Scopes, remembered(t, u)
        PROVE  \E c \in affinities : c.thread = t /\ c.scope = u /\ ServedBy(c, answered[t][u]) /\ alive(c)
    <2>1. PICK c \in affinities : c.thread = t /\ c.scope = u /\ ServedBy(c, answered[t][u])
      BY <1>3 DEF SelectInv
    <2>2. answered[t][u].at \in Nat /\ selectClock < answered[t][u].at + AffinityTTL - TouchSlack
      BY <1>3 DEF SelectInv, remembered, Answered
    <2>3. c.expires \in Int /\ c.expires >= answered[t][u].at + AffinityTTL - TouchSlack
      BY <2>1 DEF SelectInv, BindingRow, ServedBy
    <2>4. alive(c)
      <3>1. selectClock \in Nat
        BY DEF SelectInv
      <3> QED
        BY <2>2, <2>3, <3>1, Durations DEF alive
    <2> QED
      BY <2>1, <2>4
  <1>4. remembered(t, s) => b.scope = s
    BY <1>2, <1>3
  <1>5. ASSUME remembered(t, b.scope) PROVE ServedBy(b, answered[t][b.scope])
    <2>1. b.scope \in Scopes
      BY <1>1 DEF BindingRow
    <2>2. PICK c \in affinities : c.thread = t /\ c.scope = b.scope /\ ServedBy(c, answered[t][b.scope])
      BY <1>3, <1>5, <2>1
    <2>3. c = b
      BY <1>1, <2>2 DEF SelectInv, OneEach
    <2> QED
      BY <2>2, <2>3
  <1> QED
    BY <1>1, <1>2, <1>4, <1>5

\* A conversation without a binding is not remembered.
LEMMA UnboundForgotten ==
  ASSUME SelectInv, NEW t \in Threads, NEW s \in Scopes, \A c \in affinities : c.thread = t /\ c.scope = s => ~alive(c)
  PROVE  ~remembered(t, s)
  <1> SUFFICES ASSUME remembered(t, s) PROVE FALSE
    OBVIOUS
  <1>1. PICK c \in affinities : c.thread = t /\ c.scope = s /\ ServedBy(c, answered[t][s])
    BY DEF SelectInv
  <1>2. answered[t][s].at \in Nat /\ selectClock < answered[t][s].at + AffinityTTL - TouchSlack
    BY DEF SelectInv, remembered, Answered
  <1>3. c.expires \in Int /\ c.expires >= answered[t][s].at + AffinityTTL - TouchSlack
    BY <1>1 DEF SelectInv, BindingRow, ServedBy
  <1>4. alive(c)
    <2>1. selectClock \in Nat
      BY DEF SelectInv
    <2> QED
      BY <1>2, <1>3, <2>1, Durations DEF alive
  <1> QED
    BY <1>1, <1>4

\* What a conversation has heard is a function of the models.
LEMMA HeardModels ==
  ASSUME SelectInv, NEW t \in Threads, NEW s \in Scopes, NEW from
  PROVE  heard(t, s, from) = [m \in ChatModels |-> heard(t, s, from)[m]]
  BY DEF heard, remembered, SelectInv, Answered

LEMMA SelectFrame ==
  ASSUME SelectInv, UNCHANGED <<affinities, answered>>, selectClock' \in Nat, selectClock <= selectClock'
  PROVE  SelectInv'
  <1>1. \A t \in Threads, s \in Scopes : remembered(t, s)' => remembered(t, s)
    <2> SUFFICES ASSUME NEW t \in Threads, NEW s \in Scopes, remembered(t, s)' PROVE remembered(t, s)
      OBVIOUS
    <2>1. answered[t][s].on /\ selectClock' < answered[t][s].at + AffinityTTL - TouchSlack
      BY DEF remembered
    <2>2. answered[t][s].at \in Nat /\ selectClock \in Nat
      BY <2>1 DEF SelectInv, Answered
    <2> QED
      BY <2>1, <2>2, Durations DEF remembered
  <1> QED
    BY <1>1 DEF SelectInv

\* An answer as it is remembered in scope s.
Remembering(r, chosen, from, s) ==
  [on |-> TRUE, at |-> selectClock, account |-> chosen, model |-> r.model, continued |-> r.affinity = "continuation",
   by |-> [heard(r.thread, s, from) EXCEPT ![r.model] = chosen]]

LEMMA AnswerIs ==
  ASSUME SelectInv, NEW r, r.thread \in Threads, r.thread # "none", NEW chosen, NEW from, NEW scopes,
         answer(r, chosen, from, scopes)
  PROVE  /\ answered' = [t \in Threads |-> answered'[t]]
         /\ \A t \in Threads : answered'[t] = [s \in Scopes |-> answered'[t][s]]
         /\ \A t \in Threads, s \in Scopes :
              answered'[t][s] = IF t = r.thread /\ s \in scopes THEN Remembering(r, chosen, from, s) ELSE answered[t][s]
  <1> DEFINE new == [s \in Scopes |-> IF s \notin scopes THEN answered[r.thread][s] ELSE Remembering(r, chosen, from, s)]
  <1>1. answered' = [answered EXCEPT ![r.thread] = new]
    BY DEF answer, Remembering
  <1>2. new = [s \in Scopes |-> new[s]]
    OBVIOUS
  <1>3. answered = [t \in Threads |-> answered[t]] /\ \A t \in Threads : answered[t] = [s \in Scopes |-> answered[t][s]]
    BY DEF SelectInv
  <1>4. \A s \in Scopes : new[s] = IF s \in scopes THEN Remembering(r, chosen, from, s) ELSE answered[r.thread][s]
    OBVIOUS
  <1> HIDE DEF new
  <1>5. answered' = [t \in Threads |-> IF t = r.thread THEN new ELSE answered[t]]
    BY <1>1, <1>3
  <1>6. \A t \in Threads : answered'[t] = IF t = r.thread THEN new ELSE answered[t]
    BY <1>5
  <1>7. answered' = [t \in Threads |-> answered'[t]]
    BY <1>5, <1>6
  <1>8. \A t \in Threads : answered'[t] = [s \in Scopes |-> answered'[t][s]]
    BY <1>2, <1>3, <1>6
  <1>9. \A t \in Threads, s \in Scopes :
          answered'[t][s] = IF t = r.thread /\ s \in scopes THEN Remembering(r, chosen, from, s) ELSE answered[t][s]
    BY <1>4, <1>6
  <1> QED
    BY <1>7, <1>8, <1>9

\* A request is answered: each scope it counts for is bound as it was answered, and the other bindings that
\* are alive are left.
LEMMA AnswerKeeps ==
  ASSUME SelectInv, NEW r \in Asked, r.thread # "none", NEW chosen, NEW from, NEW scopes \in SUBSET Scopes,
         answer(r, chosen, from, scopes), UNCHANGED selectClock,
         IsFiniteSet(affinities'), \A b \in affinities' : BindingRow(b), OneEach(affinities'),
         \A b \in affinities : alive(b) /\ ~(b.thread = r.thread /\ b.scope \in scopes) => b \in affinities',
         \A s \in scopes : \E b \in affinities' :
           /\ b.thread = r.thread /\ b.scope = s /\ b.expires >= selectClock + AffinityTTL - TouchSlack
           /\ b.account = chosen /\ b.model = r.model
           /\ ~b.rebound => \A m \in ChatModels : heard(r.thread, s, from)[m] \in {"none", chosen}
  PROVE  SelectInv'
  <1>1. r.thread \in Threads /\ r.model \in ChatModels /\ selectClock \in Nat
    BY AskedTypes DEF SelectInv
  <1>2. /\ answered' = [t \in Threads |-> answered'[t]]
        /\ \A t \in Threads : answered'[t] = [s \in Scopes |-> answered'[t][s]]
        /\ \A t \in Threads, s \in Scopes :
             answered'[t][s] = IF t = r.thread /\ s \in scopes THEN Remembering(r, chosen, from, s) ELSE answered[t][s]
    BY <1>1, AnswerIs
  <1>3. ASSUME NEW s \in scopes
        PROVE  LET h == Remembering(r, chosen, from, s) IN
               /\ h.on = TRUE /\ h.at = selectClock /\ h.account = chosen /\ h.model = r.model
               /\ h.by = [m \in ChatModels |-> h.by[m]] /\ h.by[r.model] = chosen
               /\ \A m \in ChatModels : h.by[m] = IF m = r.model THEN chosen ELSE heard(r.thread, s, from)[m]
    <2> DEFINE was == heard(r.thread, s, from)
               by == [was EXCEPT ![r.model] = chosen]
    <2>1. was = [m \in ChatModels |-> was[m]]
      BY <1>1, HeardModels
    <2> HIDE DEF was
    <2>2. \A m \in ChatModels : by[m] = IF m = r.model THEN chosen ELSE was[m]
      BY <1>1, <2>1
    <2>3. by = [m \in ChatModels |-> by[m]]
      BY <2>1
    <2> HIDE DEF by
    <2>4. Remembering(r, chosen, from, s).by = by
      BY DEF Remembering, by, was
    <2> QED
      BY <1>1, <2>2, <2>3, <2>4 DEF Remembering, was
  <1>4. ASSUME NEW t \in Threads, NEW s \in Scopes
        PROVE  Answered(answered'[t][s])
    <2>1. CASE t = r.thread /\ s \in scopes
      <3> DEFINE h == Remembering(r, chosen, from, s)
      <3>1. h.on = TRUE /\ h.at = selectClock /\ h.account = chosen /\ h.model = r.model
            /\ h.by = [m \in ChatModels |-> h.by[m]] /\ h.by[r.model] = chosen
        BY <1>3, <2>1
      <3> HIDE DEF h
      <3>2. Answered(h)
        BY <1>1, <3>1 DEF Answered
      <3> QED
        BY <1>2, <2>1, <3>2 DEF h
    <2>2. CASE ~(t = r.thread /\ s \in scopes)
      BY <1>2, <2>2 DEF SelectInv
    <2> QED
      BY <2>1, <2>2
  <1>5. ASSUME NEW t \in Threads, NEW s \in Scopes, remembered(t, s)'
        PROVE  \E b \in affinities' : b.thread = t /\ b.scope = s /\ ServedBy(b, answered'[t][s])
    <2>1. CASE t = r.thread /\ s \in scopes
      <3>1. PICK b \in affinities' :
              /\ b.thread = r.thread /\ b.scope = s /\ b.expires >= selectClock + AffinityTTL - TouchSlack
              /\ b.account = chosen /\ b.model = r.model
              /\ ~b.rebound => \A m \in ChatModels : heard(r.thread, s, from)[m] \in {"none", chosen}
        BY <2>1
      <3> DEFINE h == answered'[t][s]
      <3>2. h = Remembering(r, chosen, from, s)
        BY <1>2, <2>1
      <3> HIDE DEF h
      <3>3. /\ h.at = selectClock /\ h.account = chosen /\ h.model = r.model
            /\ \A m \in ChatModels : h.by[m] = IF m = r.model THEN chosen ELSE heard(r.thread, s, from)[m]
        BY <1>3, <2>1, <3>2
      <3>4. ServedBy(b, h)
        BY <3>1, <3>3 DEF ServedBy
      <3> QED
        BY <2>1, <3>1, <3>4 DEF h
    <2>2. CASE ~(t = r.thread /\ s \in scopes)
      <3>1. answered'[t][s] = answered[t][s]
        BY <1>2, <2>2
      <3>2. remembered(t, s)
        BY <1>5, <3>1 DEF remembered
      <3>3. PICK b \in affinities : b.thread = t /\ b.scope = s /\ ServedBy(b, answered[t][s])
        BY <3>2 DEF SelectInv
      <3>4. alive(b)
        <4>1. \A c \in affinities : c.thread = t /\ c.scope = s => c = b
          BY <3>3 DEF SelectInv, OneEach
        <4> QED
          BY <3>2, <4>1, UnboundForgotten
      <3>5. b \in affinities'
        BY <2>2, <3>3, <3>4
      <3> QED
        BY <3>1, <3>3, <3>5
    <2> QED
      BY <2>1, <2>2
  <1> QED
    BY <1>1, <1>2, <1>4, <1>5 DEF SelectInv

\* Bindings that are written.
LEMMA BindingIs ==
  ASSUME NEW r \in Asked, r.thread # "none", NEW chosen, NEW rebound \in BOOLEAN, selectClock \in Nat
  PROVE  LET b == Binding(r, chosen, rebound) IN
         /\ BindingRow(b) /\ b.thread = r.thread /\ b.scope = scopeOf(r) /\ b.account = chosen /\ b.model = r.model
         /\ b.rebound = rebound /\ b.expires = selectClock + AffinityTTL
  BY AskedTypes, Durations DEF Binding, BindingRow

LEMMA Touched ==
  ASSUME NEW b, {"model", "expires"} \subseteq DOMAIN b, NEW e, NEW m
  PROVE  LET c == [b EXCEPT !.expires = e, !.model = m] IN
         /\ DOMAIN c = DOMAIN b /\ c.thread = b.thread /\ c.scope = b.scope /\ c.account = b.account
         /\ c.rebound = b.rebound /\ c.expires = e /\ c.model = m
  OBVIOUS

LEMMA TouchIs ==
  ASSUME NEW b, BindingRow(b), NEW m \in ChatModels, selectClock \in Nat
  PROVE  LET c == TouchAccountAffinity(b, m) IN
         /\ BindingRow(c) /\ c.thread = b.thread /\ c.scope = b.scope /\ c.account = b.account
         /\ c.rebound = b.rebound /\ c.model = m /\ c.expires >= selectClock + AffinityTTL - TouchSlack
  <1> DEFINE d == [b EXCEPT !.expires = selectClock + AffinityTTL, !.model = m]
  <1>1. {"model", "expires"} \subseteq DOMAIN b
    BY DEF BindingRow
  <1>2. /\ DOMAIN d = DOMAIN b /\ d.thread = b.thread /\ d.scope = b.scope /\ d.account = b.account
        /\ d.rebound = b.rebound /\ d.expires = selectClock + AffinityTTL /\ d.model = m
    BY <1>1, Touched
  <1> HIDE DEF d
  <1>3. BindingRow(d)
    BY <1>2, Durations DEF BindingRow
  <1>4. CASE b.expires < selectClock + AffinityTTL - TouchSlack \/ b.model # m
    BY <1>2, <1>3, <1>4, Durations DEF TouchAccountAffinity, d
  <1>5. CASE ~(b.expires < selectClock + AffinityTTL - TouchSlack \/ b.model # m)
    BY <1>5, Durations DEF TouchAccountAffinity, BindingRow
  <1> QED
    BY <1>4, <1>5

\* What the two properties ask of a step.
KeepsAccounts ==
  \A t \in Threads, s \in Scopes :
       (remembered(t, s) /\ answered'[t][s].account # answered[t][s].account)
         => /\ answered'[t][s].model # answered[t][s].model
            /\ catalogSupports(answered[t][s].account, answered'[t][s].model) = "no"

KeepsState ==
  \A t \in Threads, s \in Scopes :
       \A b \in sessionBinding(t, s) :
         (answered'[t][s] # answered[t][s] /\ answered'[t][s].continued /\ heard(t, s, b.scope)[answered'[t][s].model] # "none")
           => answered'[t][s].account = heard(t, s, b.scope)[answered'[t][s].model]

LEMMA Unanswered == ASSUME UNCHANGED answered PROVE KeepsAccounts /\ KeepsState
  BY DEF KeepsAccounts, KeepsState

\* Only the conversation of the request, in the scopes it counts for, has anything new to remember.
LEMMA OnlyAnswered ==
  ASSUME SelectInv, NEW r \in Asked, r.thread # "none", NEW chosen, NEW from, NEW scopes \in SUBSET Scopes,
         answer(r, chosen, from, scopes),
         \A s \in scopes : remembered(r.thread, s) /\ chosen # answered[r.thread][s].account
           => /\ r.model # answered[r.thread][s].model
              /\ catalogSupports(answered[r.thread][s].account, r.model) = "no",
         \A s \in scopes : \A b \in sessionBinding(r.thread, s) :
           r.affinity = "continuation" /\ heard(r.thread, s, b.scope)[r.model] # "none"
             => chosen = heard(r.thread, s, b.scope)[r.model]
  PROVE  KeepsAccounts /\ KeepsState
  <1>1. r.thread \in Threads
    BY AskedTypes
  <1>2. \A t \in Threads, s \in Scopes :
          answered'[t][s] = IF t = r.thread /\ s \in scopes THEN Remembering(r, chosen, from, s) ELSE answered[t][s]
    BY <1>1, AnswerIs
  <1>3. \A s \in scopes : LET h == Remembering(r, chosen, from, s) IN
          h.account = chosen /\ h.model = r.model /\ h.continued = (r.affinity = "continuation")
    BY DEF Remembering
  <1>4. KeepsAccounts
    <2> SUFFICES ASSUME NEW t \in Threads, NEW s \in Scopes,
                        remembered(t, s), answered'[t][s].account # answered[t][s].account
                 PROVE  /\ answered'[t][s].model # answered[t][s].model
                        /\ catalogSupports(answered[t][s].account, answered'[t][s].model) = "no"
      BY DEF KeepsAccounts
    <2>1. t = r.thread /\ s \in scopes
      BY <1>2
    <2> QED
      BY <1>2, <1>3, <2>1
  <1>5. KeepsState
    <2> SUFFICES ASSUME NEW t \in Threads, NEW s \in Scopes, NEW b \in sessionBinding(t, s),
                        answered'[t][s] # answered[t][s], answered'[t][s].continued,
                        heard(t, s, b.scope)[answered'[t][s].model] # "none"
                 PROVE  answered'[t][s].account = heard(t, s, b.scope)[answered'[t][s].model]
      BY DEF KeepsState
    <2>1. t = r.thread /\ s \in scopes
      BY <1>2
    <2>2. answered'[t][s] = Remembering(r, chosen, from, s)
      BY <1>2, <2>1
    <2>3. answered'[t][s].account = chosen /\ answered'[t][s].model = r.model /\ r.affinity = "continuation"
      BY <1>3, <2>1, <2>2
    <2> QED
      BY <2>1, <2>3
  <1> QED
    BY <1>4, <1>5

\* A binding never rebound, and the model it answered last, have no other account behind them.
LEMMA HeardFrom ==
  ASSUME SelectInv, NEW t \in Threads, NEW s \in Scopes, NEW b \in sessionBinding(t, s)
  PROVE  /\ ~b.rebound => \A m \in ChatModels : heard(t, s, b.scope)[m] \in {"none", b.account}
         /\ heard(t, s, b.scope)[b.model] \in {"none", b.account}
  <1>1. /\ b.scope \in Scopes /\ b.model \in ChatModels
        /\ remembered(t, s) => b.scope = s
        /\ remembered(t, b.scope) => ServedBy(b, answered[t][b.scope])
    BY Deciding DEF BindingRow
  <1>2. CASE remembered(t, b.scope)
    <2>1. heard(t, s, b.scope) = answered[t][b.scope].by
      BY <1>1, <1>2 DEF heard
    <2>2. answered[t][b.scope].by[b.model] = b.account
      <3> DEFINE h == answered[t][b.scope]
      <3>1. h.on /\ Answered(h)
        BY <1>1, <1>2 DEF remembered, SelectInv
      <3>2. ServedBy(b, h)
        BY <1>1, <1>2
      <3> HIDE DEF h
      <3>3. h.by[b.model] = b.account
        BY <3>1, <3>2 DEF Answered, ServedBy
      <3> QED
        BY <3>3 DEF h
    <2> QED
      BY <1>1, <1>2, <2>1, <2>2 DEF ServedBy
  <1>3. CASE ~remembered(t, b.scope)
    <2>1. heard(t, s, b.scope) = [m \in ChatModels |-> "none"]
      BY <1>1, <1>3 DEF heard
    <2> QED
      BY <1>1, <2>1
  <1> QED
    BY <1>2, <1>3

LEMMA KeepBoundStep ==
  ASSUME SelectInv, NEW r \in Asked, keepBound(r)
  PROVE  SelectInv' /\ KeepsAccounts /\ KeepsState
  <1>1. /\ r.thread \in Threads /\ r.thread # "none" /\ r.model \in ChatModels /\ scopeOf(r) \in Scopes /\ selectClock \in Nat
        /\ UNCHANGED selectClock
    BY AskedTypes DEF keepBound, environment, SelectInv
  <1>2. PICK b \in sessionBinding(r.thread, scopeOf(r)) :
          /\ stays(b, r)
          /\ affinities' = IF b.scope = scopeOf(r) THEN (affinities \ {b}) \cup {TouchAccountAffinity(b, r.model)}
                           ELSE (pruned \ {b}) \cup {TouchAccountAffinity(b, r.model), Binding(r, b.account, b.rebound)}
          /\ answer(r, b.account, b.scope, {b.scope, scopeOf(r)})
    BY DEF keepBound
  <1>3. /\ b \in affinities /\ b.thread = r.thread /\ alive(b) /\ BindingRow(b)
        /\ remembered(r.thread, scopeOf(r)) => b.scope = scopeOf(r)
        /\ b.scope # scopeOf(r) => \A c \in affinities : c.thread = r.thread /\ c.scope = scopeOf(r) => ~alive(c)
        /\ remembered(r.thread, b.scope) => ServedBy(b, answered[r.thread][b.scope])
    BY <1>1, Deciding
  <1>4. b.scope \in Scopes /\ b.rebound \in BOOLEAN
    BY <1>3 DEF BindingRow
  <1> DEFINE touched == TouchAccountAffinity(b, r.model)
             bound == Binding(r, b.account, b.rebound)
             s0 == scopeOf(r)
  <1>5. /\ BindingRow(touched) /\ touched.thread = r.thread /\ touched.scope = b.scope /\ touched.account = b.account
        /\ touched.rebound = b.rebound /\ touched.model = r.model
        /\ touched.expires >= selectClock + AffinityTTL - TouchSlack
    BY <1>1, <1>3, TouchIs
  <1>6. /\ BindingRow(bound) /\ bound.thread = r.thread /\ bound.scope = s0 /\ bound.account = b.account
        /\ bound.model = r.model /\ bound.rebound = b.rebound
        /\ bound.expires >= selectClock + AffinityTTL - TouchSlack
    BY <1>1, <1>4, BindingIs, Durations
  <1> HIDE DEF touched, bound
  <1>7. affinities' = IF b.scope = s0 THEN (affinities \ {b}) \cup {touched} ELSE (pruned \ {b}) \cup {touched, bound}
    BY <1>2 DEF touched, bound
  <1>8. /\ \A c \in affinities : BindingRow(c)
        /\ \A c \in affinities : c.thread = r.thread /\ c.scope = b.scope => c = b
        /\ OneEach(affinities)
    BY <1>3 DEF SelectInv, OneEach
  <1>9. pruned \subseteq affinities /\ \A c \in affinities : alive(c) <=> c \in pruned
    BY DEF pruned
  <1>10. b.scope # s0 => \A c \in pruned : c.thread = r.thread => c.scope # s0
    BY <1>3, <1>9
  <1> HIDE DEF s0
  <1>11. \A c \in affinities' : BindingRow(c)
    BY <1>5, <1>6, <1>7, <1>8, <1>9
  <1>12. OneEach(affinities')
    <2>1. CASE b.scope = s0
      BY <1>5, <1>7, <1>8, <2>1 DEF OneEach
    <2>2. CASE b.scope # s0
      <3>1. affinities' = (pruned \ {b}) \cup {touched, bound}
        BY <1>7, <2>2
      <3>2. \A c \in pruned \ {b} : ~(c.thread = r.thread /\ c.scope \in {b.scope, s0})
        BY <1>8, <1>9, <1>10, <2>2
      <3> QED
        BY <1>5, <1>6, <1>8, <1>9, <2>2, <3>1, <3>2 DEF OneEach
    <2> QED
      BY <2>1, <2>2
  <1>13. \A c \in affinities : alive(c) /\ ~(c.thread = r.thread /\ c.scope \in {b.scope, s0}) => c \in affinities'
    BY <1>3, <1>7, <1>9
  <1>14. touched \in affinities' /\ (b.scope # s0 => bound \in affinities')
    BY <1>7
  \* In its own scope and in that of the request, the binding decides alike.
  <1>15. b \in sessionBinding(r.thread, s0) /\ b \in sessionBinding(r.thread, b.scope)
    BY <1>2, <1>3 DEF sessionBinding, s0
  <1>16. \A s \in {b.scope, s0} :
           /\ ~b.rebound => \A m \in ChatModels : heard(r.thread, s, b.scope)[m] \in {"none", b.account}
           /\ heard(r.thread, s, b.scope)[b.model] \in {"none", b.account}
    BY <1>1, <1>4, <1>15, HeardFrom DEF s0
  <1>17. s0 \in Scopes /\ {b.scope, s0} \in SUBSET Scopes
    BY <1>1, <1>4 DEF s0
  <1>18. \A s \in {b.scope, s0} : \E c \in affinities' :
           /\ c.thread = r.thread /\ c.scope = s /\ c.expires >= selectClock + AffinityTTL - TouchSlack
           /\ c.account = b.account /\ c.model = r.model
           /\ ~c.rebound => \A m \in ChatModels : heard(r.thread, s, b.scope)[m] \in {"none", b.account}
    BY <1>5, <1>6, <1>14, <1>16
  <1>19. answer(r, b.account, b.scope, {b.scope, s0})
    BY <1>2 DEF s0
  <1>20. IsFiniteSet(affinities')
    <2>1. IsFiniteSet(affinities)
      BY DEF SelectInv
    <2>2. affinities \ {b} \in SUBSET affinities /\ pruned \ {b} \in SUBSET affinities
      BY <1>9
    <2> QED
      BY <1>7, <2>1, <2>2, FiniteWith
  <1>21. SelectInv'
    BY <1>1, <1>20, <1>11, <1>12, <1>13, <1>17, <1>18, <1>19, AnswerKeeps
  <1>22. ASSUME NEW s \in {b.scope, s0}, remembered(r.thread, s)
         PROVE  answered[r.thread][s].account = b.account
    <2>1. s = b.scope
      BY <1>3, <1>22 DEF s0
    <2> QED
      BY <1>3, <1>22, <2>1 DEF ServedBy
  <1>23. ASSUME NEW s \in {b.scope, s0}, NEW c \in sessionBinding(r.thread, s), r.affinity = "continuation",
                heard(r.thread, s, c.scope)[r.model] # "none"
         PROVE  b.account = heard(r.thread, s, c.scope)[r.model]
    <2>1. c = b
      <3>1. c \in affinities /\ c.thread = r.thread /\ alive(c)
        BY <1>1, <1>17, <1>23, Deciding
      <3>2. CASE s = b.scope
        <4>1. c.scope = b.scope
          BY <1>3, <3>2 DEF sessionBinding
        <4> QED
          BY <1>8, <3>1, <4>1
      <3>3. CASE s # b.scope
        <4>1. s = s0 /\ Cardinality(sessionBinding(r.thread, s0)) = 1
          BY <1>23, <3>3 DEF keepBound, s0
        <4> QED
          BY <1>15, <1>23, <4>1, OneDecides
      <3> QED
        BY <3>2, <3>3
    <2>2. ~(b.rebound /\ r.model # b.model)
      BY <1>2, <1>23 DEF stays
    <2> QED
      BY <1>1, <1>16, <1>23, <2>1, <2>2
  <1>24. KeepsAccounts /\ KeepsState
    BY <1>1, <1>17, <1>19, <1>22, <1>23, OnlyAnswered
  <1> QED
    BY <1>21, <1>24

\* A conversation without a binding of its scope that is alive is given one, if there is room.
LEMMA RememberStep ==
  ASSUME SelectInv, NEW r \in Asked, r.thread # "none", NEW chosen, NEW from, NEW rebound \in BOOLEAN,
         UNCHANGED selectClock,
         \A c \in affinities : c.thread = r.thread /\ c.scope = scopeOf(r) => ~alive(c),
         ~rebound => \A m \in ChatModels : heard(r.thread, scopeOf(r), from)[m] \in {"none", chosen},
         \A b \in sessionBinding(r.thread, scopeOf(r)) : r.affinity # "continuation",
         remember(r, chosen, Binding(r, chosen, rebound), from)
  PROVE  SelectInv' /\ KeepsAccounts /\ KeepsState
  <1> DEFINE bound == Binding(r, chosen, rebound)
             s0 == scopeOf(r)
             scopes == {s0}
  <1>1. r.thread \in Threads /\ s0 \in Scopes /\ selectClock \in Nat /\ selectClock <= selectClock'
    BY AskedTypes DEF SelectInv
  <1>2. ~remembered(r.thread, s0)
    BY <1>1, UnboundForgotten
  <1>3. CASE UNCHANGED <<affinities, answered>>
    <2>1. selectClock' \in Nat
      BY <1>1
    <2>2. SelectInv'
      BY <1>1, <1>3, <2>1, SelectFrame
    <2> QED
      BY <1>3, <2>2, Unanswered
  <1>4. CASE affinities' = pruned \cup {bound} /\ answer(r, chosen, from, scopes)
    <2>1. /\ BindingRow(bound) /\ bound.thread = r.thread /\ bound.scope = s0 /\ bound.account = chosen
          /\ bound.model = r.model /\ bound.rebound = rebound
          /\ bound.expires >= selectClock + AffinityTTL - TouchSlack
      BY <1>1, BindingIs, Durations
    <2> HIDE DEF bound
    <2>2. pruned \subseteq affinities /\ \A c \in affinities : alive(c) <=> c \in pruned
      BY DEF pruned
    <2>3. IsFiniteSet(affinities) /\ (\A c \in affinities : BindingRow(c)) /\ OneEach(affinities)
      BY DEF SelectInv
    <2>4. IsFiniteSet(affinities')
      BY <1>4, <2>2, <2>3, FiniteWith
    <2>5. \A c \in affinities' : BindingRow(c)
      BY <1>4, <2>1, <2>2, <2>3
    <2>6. \A c \in pruned : ~(c.thread = r.thread /\ c.scope = s0)
      BY <2>2
    <2>7. OneEach(affinities')
      BY <1>4, <2>1, <2>2, <2>3, <2>6 DEF OneEach
    <2>8. \A c \in affinities : alive(c) /\ ~(c.thread = r.thread /\ c.scope \in scopes) => c \in affinities'
      BY <1>4, <2>2
    <2>9. \A s \in scopes : \E c \in affinities' :
            /\ c.thread = r.thread /\ c.scope = s /\ c.expires >= selectClock + AffinityTTL - TouchSlack
            /\ c.account = chosen /\ c.model = r.model
            /\ ~c.rebound => \A m \in ChatModels : heard(r.thread, s, from)[m] \in {"none", chosen}
      BY <1>4, <2>1
    <2>10. scopes \in SUBSET Scopes
      BY <1>1
    <2>11. \A s \in scopes : ~remembered(r.thread, s)
      BY <1>2
    <2>12. \A s \in scopes : \A b \in sessionBinding(r.thread, s) : r.affinity # "continuation"
      OBVIOUS
    <2> HIDE DEF s0, scopes
    <2>13. SelectInv'
      BY <1>1, <1>4, <2>4, <2>5, <2>7, <2>8, <2>9, <2>10, AnswerKeeps
    <2>14. KeepsAccounts /\ KeepsState
      BY <1>4, <2>11, <2>12, <2>10, OnlyAnswered
    <2> QED
      BY <2>13, <2>14
  <1> QED
    BY <1>3, <1>4 DEF remember

LEMMA ScheduleStep ==
  ASSUME SelectInv, NEW r \in Asked, schedule(r)
  PROVE  SelectInv' /\ KeepsAccounts /\ KeepsState
  <1>1. UNCHANGED selectClock
    BY DEF schedule, take, environment
  <1>2. CASE r.thread = "none"
    <2>1. UNCHANGED <<affinities, answered>>
      BY <1>2 DEF schedule
    <2>2. selectClock' \in Nat /\ selectClock <= selectClock'
      BY <1>1 DEF SelectInv
    <2> QED
      BY <2>1, <2>2, SelectFrame, Unanswered
  <1>3. CASE r.thread # "none"
    <2>1. PICK d \in {decision(r)} : remember(r, d.account, Binding(r, d.account, FALSE), "none")
      BY <1>3 DEF schedule
    <2>2. sessionBinding(r.thread, scopeOf(r)) = {}
      BY <1>3 DEF schedule
    <2>3. \A c \in affinities : c.thread = r.thread /\ c.scope = scopeOf(r) => ~alive(c)
      BY <2>2 DEF sessionBinding
    <2>4. r.thread \in Threads /\ scopeOf(r) \in Scopes
      BY <1>3, AskedTypes
    <2>5. ~remembered(r.thread, scopeOf(r))
      BY <2>3, <2>4, UnboundForgotten
    <2>6. heard(r.thread, scopeOf(r), "none") = [m \in ChatModels |-> "none"]
      BY <2>5, NoScope DEF heard
    <2>7. \A m \in ChatModels : heard(r.thread, scopeOf(r), "none")[m] \in {"none", d.account}
      BY <2>6
    <2>8. \A b \in sessionBinding(r.thread, scopeOf(r)) : r.affinity # "continuation"
      BY <2>2
    <2> QED
      BY <1>1, <1>3, <2>1, <2>3, <2>7, <2>8, RememberStep
  <1> QED
    BY <1>2, <1>3

LEMMA RescheduleStep ==
  ASSUME SelectInv, NEW r \in Asked, reschedule(r)
  PROVE  SelectInv' /\ KeepsAccounts /\ KeepsState
  <1>1. /\ r.thread \in Threads /\ r.thread # "none" /\ scopeOf(r) \in Scopes /\ selectClock \in Nat
        /\ UNCHANGED selectClock
    BY AskedTypes DEF reschedule, take, environment, SelectInv
  <1>2. PICK b \in sessionBinding(r.thread, scopeOf(r)), d \in {decision(r)} :
          /\ moves(b, r)
          /\ IF b.scope = scopeOf(r)
             THEN /\ affinities' = (affinities \ {b}) \cup {rebinds(b, r, d.account)}
                  /\ answer(r, d.account, b.scope, {scopeOf(r)})
             ELSE remember(r, d.account, rebinds(b, r, d.account), b.scope)
    BY DEF reschedule
  <1>3. /\ b \in affinities /\ b.thread = r.thread /\ alive(b) /\ BindingRow(b)
        /\ b.scope # scopeOf(r) => \A c \in affinities : c.thread = r.thread /\ c.scope = scopeOf(r) => ~alive(c)
        /\ remembered(r.thread, b.scope) => ServedBy(b, answered[r.thread][b.scope])
    BY <1>1, Deciding
  <1>4. r.affinity # "continuation" /\ r.model # b.model /\ catalogSupports(b.account, r.model) = "no"
    BY <1>2 DEF moves
  <1>5. CASE b.scope # scopeOf(r)
    <2>1. rebinds(b, r, d.account) = Binding(r, d.account, TRUE)
      BY <1>5 DEF rebinds
    <2>2. remember(r, d.account, Binding(r, d.account, TRUE), b.scope)
      BY <1>2, <1>5, <2>1
    <2> QED
      BY <1>1, <1>3, <1>4, <1>5, <2>2, RememberStep
  <1>6. CASE b.scope = scopeOf(r)
    <2> DEFINE rebound == b.rebound \/ b.account # d.account
               bound == Binding(r, d.account, rebound)
               s0 == scopeOf(r)
               scopes == {s0}
    <2>1. b.rebound \in BOOLEAN /\ rebound \in BOOLEAN
      BY <1>3 DEF BindingRow
    <2>2. rebinds(b, r, d.account) = bound
      BY <1>6, <2>1 DEF rebinds
    <2>3. affinities' = (affinities \ {b}) \cup {bound} /\ answer(r, d.account, s0, scopes)
      BY <1>2, <1>6, <2>2
    <2> HIDE DEF rebound
    <2>4. /\ BindingRow(bound) /\ bound.thread = r.thread /\ bound.scope = s0 /\ bound.account = d.account
          /\ bound.model = r.model /\ bound.rebound = rebound
          /\ bound.expires >= selectClock + AffinityTTL - TouchSlack
      BY <1>1, <2>1, BindingIs, Durations
    <2> HIDE DEF bound
    <2>5. IsFiniteSet(affinities) /\ (\A c \in affinities : BindingRow(c)) /\ OneEach(affinities)
      BY DEF SelectInv
    <2>6. IsFiniteSet(affinities')
      <3>1. affinities \ {b} \in SUBSET affinities
        OBVIOUS
      <3> QED
        BY <2>3, <2>5, <3>1, FiniteWith
    <2>7. \A c \in affinities' : BindingRow(c)
      BY <2>3, <2>4, <2>5
    <2>8. \A c \in affinities : c.thread = r.thread /\ c.scope = s0 => c = b
      BY <1>3, <1>6, <2>5 DEF OneEach
    <2>9. OneEach(affinities')
      BY <2>3, <2>4, <2>5, <2>8 DEF OneEach
    <2>10. \A c \in affinities : alive(c) /\ ~(c.thread = r.thread /\ c.scope \in scopes) => c \in affinities'
      BY <1>3, <1>6, <2>3
    <2>11. \A s \in scopes : ~rebound => \A m \in ChatModels : heard(r.thread, s, s0)[m] \in {"none", d.account}
      <3>1. ~b.rebound => \A m \in ChatModels : heard(r.thread, s0, b.scope)[m] \in {"none", b.account}
        BY <1>1, HeardFrom
      <3> QED
        BY <1>6, <3>1 DEF rebound
    <2>12. \A s \in scopes : \E c \in affinities' :
            /\ c.thread = r.thread /\ c.scope = s /\ c.expires >= selectClock + AffinityTTL - TouchSlack
            /\ c.account = d.account /\ c.model = r.model
            /\ ~c.rebound => \A m \in ChatModels : heard(r.thread, s, s0)[m] \in {"none", d.account}
      BY <2>3, <2>4, <2>11
    <2>13. scopes \in SUBSET Scopes
      BY <1>1
    <2>14. \A s \in scopes : remembered(r.thread, s)
             => /\ r.model # answered[r.thread][s].model
                /\ catalogSupports(answered[r.thread][s].account, r.model) = "no"
      BY <1>3, <1>4, <1>6 DEF ServedBy
    <2> HIDE DEF s0, scopes
    <2>15. SelectInv'
      BY <1>1, <2>3, <2>6, <2>7, <2>9, <2>10, <2>12, <2>13, AnswerKeeps
    <2>16. KeepsAccounts /\ KeepsState
      BY <1>1, <1>4, <2>3, <2>13, <2>14, OnlyAnswered
    <2> QED
      BY <2>15, <2>16
  <1> QED
    BY <1>5, <1>6

LEMMA SelectStep ==
  ASSUME SelectInv, [SelectNext]_selectVars
  PROVE  SelectInv' /\ KeepsAccounts /\ KeepsState
  <1>1. ASSUME UNCHANGED <<affinities, answered>>, selectClock' \in {selectClock, selectClock + 1}
        PROVE  SelectInv' /\ KeepsAccounts /\ KeepsState
    <2>1. selectClock' \in Nat /\ selectClock <= selectClock'
      BY <1>1 DEF SelectInv
    <2> QED
      BY <1>1, <2>1, SelectFrame, Unanswered
  <1>2. CASE \E r \in Asked : keepBound(r) \/ schedule(r) \/ reschedule(r)
    BY <1>2, KeepBoundStep, ScheduleStep, RescheduleStep
  <1>3. CASE \E a \in pool : \E c \in Conditions[a] : setCondition(a, c)
    BY <1>1, <1>3 DEF setCondition
  <1>4. CASE \E p \in PoolPolicies : setPolicy(p)
    BY <1>1, <1>4 DEF setPolicy
  <1>5. CASE selectTick
    BY <1>1, <1>5 DEF selectTick
  <1>6. CASE UNCHANGED selectVars
    BY <1>1, <1>6 DEF selectVars
  <1> QED
    BY <1>2, <1>3, <1>4, <1>5, <1>6 DEF SelectNext

\* A conversation stays on its account as long as its requests come often enough, unless the client changes to a
\* model which that account's catalog lacks (selection.go 138-160); and once it has been moved, a request that
\* continues one of its models goes to the account which answered that model last (140-144, 378): whatever the
\* other components make of the accounts and the policy meanwhile, and however the scopes of a conversation mix.
THEOREM ConversationsAreKept == SelectSpec => ConversationsKept
  <1>1. SelectInit => SelectInv
    BY SelectInitial
  <1>2. SelectInv /\ [SelectNext]_selectVars => SelectInv'
    BY SelectStep
  <1>3. SelectInv /\ [SelectNext]_selectVars =>
          [\A t \in Threads, s \in Scopes :
             (remembered(t, s) /\ answered'[t][s].account # answered[t][s].account)
               => /\ answered'[t][s].model # answered[t][s].model
                  /\ catalogSupports(answered[t][s].account, answered'[t][s].model) = "no"]_selectVars
    BY SelectStep DEF KeepsAccounts
  <1>4. SelectInv /\ [SelectNext]_selectVars =>
          [\A t \in Threads, s \in Scopes :
             \A b \in sessionBinding(t, s) :
               (answered'[t][s] # answered[t][s] /\ answered'[t][s].continued /\ heard(t, s, b.scope)[answered'[t][s].model] # "none")
                 => answered'[t][s].account = heard(t, s, b.scope)[answered'[t][s].model]]_selectVars
    BY SelectStep DEF KeepsState
  <1>5. SelectSpec => KeptOnAccount
    BY <1>1, <1>2, <1>3, PTL DEF SelectSpec, KeptOnAccount
  <1>6. SelectSpec => StateStaysHome
    BY <1>1, <1>2, <1>4, PTL DEF SelectSpec, StateStaysHome
  <1> QED
    BY <1>5, <1>6, PTL DEF ConversationsKept
-----------------------------------------------------------------------------
(* Choices *)

\* What the choice reads of a condition is of its type.
LEMMA ConditionTypes ==
  /\ Initially = [a \in pool |-> Initially[a]]
  /\ \A a \in pool : \A c \in Conditions[a] \cup {Initially[a]} :
       c.weight \in Nat /\ c.gate \in Gates /\ \A m \in ChatModels : c.lanes[m] \in Gates
  BY ConditionsAssumption

\* The tickets that go to an account, and the last m of them before the cursor came to c.
ticketsOf(ws, a) == {n \in 0..(period(ws) - 1) : ticketHolder(ws, n) = a}
lastTickets(ws, c, m) == {n \in 0..(period(ws) - 1) : (n < c /\ c - n <= m) \/ (n >= c /\ c + period(ws) - n <= m)}

\* A turn is some full rounds and the last tickets of the one that is not full yet.
Counted(ws, c, picks, of) ==
  \E rounds \in Nat, m \in 0..(period(ws) - 1) :
    /\ picks = rounds * period(ws) + m
    /\ \A a \in DOMAIN ws : of[a] = ws[a] * rounds + Cardinality(ticketsOf(ws, a) \cap lastTickets(ws, c, m))

\* Weights as weights(of) makes them, and conditions and histories of a turn as the code leaves them.
Weights(ws) == DOMAIN ws \subseteq pool /\ DOMAIN ws # {} /\ ws \in [DOMAIN ws -> Nat \ {0}]

ConditionsKnown ==
  condition = [a \in pool |-> condition[a]] /\ \A a \in pool : condition[a] \in Conditions[a] \cup {Initially[a]}

TurnTyped ==
  /\ \A k \in DOMAIN cursors : cursors[k] \in Nat
  /\ turn = [key |-> turn.key, picks |-> turn.picks, of |-> turn.of] /\ turn.picks \in Nat /\ turn.of \in [pool -> Nat]
  /\ turn.picks = 0 => turn.of = [a \in pool |-> 0]

\* The turn is as the cursor of its rank has it.
TurnCounted ==
  turn.picks > 0 =>
    \E k \in DOMAIN cursors : \E ws \in {turn.key[2]} :
      /\ turn.key = <<k, ws>> /\ Weights(ws) /\ cursors[k] \in 0..(period(ws) - 1)
      /\ Counted(ws, cursors[k], turn.picks, turn.of)

ChoiceInv == ConditionsKnown /\ TurnTyped /\ TurnCounted

-----------------------------------------------------------------------------
(* The rotation hands out every ticket once a round *)

\* Every account of the pool has one row, and the rows order it.
LEMMA RowOfAccount ==
  /\ RoutingRows \in [1..Len(RoutingRows) -> pool] /\ Len(RoutingRows) \in Nat
  /\ DOMAIN RoutingRows = 1..Len(RoutingRows)
  /\ \A a \in pool : \E i \in DOMAIN RoutingRows : RoutingRows[i] = a
  /\ \A i, j \in DOMAIN RoutingRows : RoutingRows[i] = RoutingRows[j] => i = j
  BY RowsAssumption DEF pool, ToSet

\* A pool is finite.
LEMMA PoolIsFinite == IsFiniteSet(pool)
  <1>1. RoutingRows \in Surjection(1..Len(RoutingRows), pool)
    BY RowOfAccount DEF Surjection
  <1>2. IsFiniteSet(1..Len(RoutingRows))
    BY RowOfAccount, FS_Interval
  <1> QED
    BY <1>1, <1>2, FS_Surjection

\* Of two accounts one is the newer, and all that is newer than it is newer than the other.
LEMMA NewerOrders ==
  ASSUME NEW of \in SUBSET pool, NEW a \in of, NEW b \in of, a # b
  PROVE  b \in newer(a, of) \/ a \in newer(b, of)
  <1>1. PICK i, j \in DOMAIN RoutingRows : RoutingRows[i] = a /\ RoutingRows[j] = b
    BY RowOfAccount
  <1>2. i \in Nat /\ j \in Nat /\ i # j
    BY <1>1, RowOfAccount
  <1>3. i < j \/ j < i
    BY <1>2
  <1> QED
    BY <1>1, <1>3 DEF newer

\* What is newer than a newer account is newer.
LEMMA NewerNests ==
  ASSUME NEW of \in SUBSET pool, NEW a \in of, NEW b \in newer(a, of)
  PROVE  newer(b, of) \subseteq newer(a, of) /\ b \in of /\ b \notin newer(b, of) /\ newer(b, of) \subseteq of
  <1>1. PICK i, j \in DOMAIN RoutingRows : i < j /\ RoutingRows[i] = b /\ RoutingRows[j] = a
    BY DEF newer
  <1>2. ASSUME NEW c \in newer(b, of) PROVE c \in newer(a, of) /\ c # b
    <2>1. PICK k, l \in DOMAIN RoutingRows : k < l /\ RoutingRows[k] = c /\ RoutingRows[l] = b
      BY DEF newer
    <2>2. l = i /\ k \in Nat /\ i \in Nat /\ j \in Nat
      BY <1>1, <2>1, RowOfAccount
    <2>3. k < j /\ k # i
      BY <1>1, <2>1, <2>2
    <2>4. c \in of
      BY DEF newer
    <2> QED
      BY <1>1, <2>1, <2>3, <2>4, RowOfAccount DEF newer
  <1> QED
    BY <1>2 DEF newer

\* No account but the others is newer.
LEMMA NewerThanNone == \A of : \A a : newer(a, of) \subseteq of
  BY DEF newer

LEMMA NotNewer ==
  ASSUME NEW of, NEW a PROVE a \notin newer(a, of)
  BY RowOfAccount DEF newer

\* The tickets of some of the accounts.
LEMMA TicketsAre ==
  ASSUME NEW ws, NEW of
  PROVE  \A t : t \in tickets(ws, of) <=> \E a \in of : \E u \in 1..ws[a] : t = <<a, u>>
  BY DEF tickets

\* The tickets of one account are as many as it weighs, and those of some are finitely many.
LEMMA OwnTickets ==
  ASSUME NEW a, NEW n \in Nat
  PROVE  IsFiniteSet({a} \X (1..n)) /\ Cardinality({a} \X (1..n)) = n
  <1>1. IsFiniteSet(1..n) /\ Cardinality(1..n) = IF 1 > n THEN 0 ELSE n - 1 + 1
    <2>1. 1 \in Int /\ n \in Int
      OBVIOUS
    <2> QED
      BY <2>1, FS_Interval
  <1>2. IsFiniteSet({a}) /\ Cardinality({a}) = 1
    BY FS_Singleton
  <1>3. IsFiniteSet({a} \X (1..n)) /\ Cardinality({a} \X (1..n)) = Cardinality({a}) * Cardinality(1..n)
    BY <1>1, <1>2, FS_Product
  <1> QED
    BY <1>1, <1>2, <1>3

LEMMA TicketsFinite ==
  ASSUME NEW ws, Weights(ws), NEW of \in SUBSET DOMAIN ws
  PROVE  IsFiniteSet(tickets(ws, of)) /\ Cardinality(tickets(ws, of)) \in Nat
  <1> DEFINE f == [a \in of |-> {a} \X (1..ws[a])]
             S == {{a} \X (1..ws[a]) : a \in of}
  <1>1. IsFiniteSet(of)
    BY PoolIsFinite, FS_Subset DEF Weights
  <1>2. f \in Surjection(of, S)
    BY DEF Surjection
  <1>3. IsFiniteSet(S)
    BY <1>1, <1>2, FS_Surjection
  <1>4. ASSUME NEW a \in of PROVE IsFiniteSet({a} \X (1..ws[a]))
    <2>1. ws[a] \in Nat
      BY DEF Weights
    <2> QED
      BY <2>1, OwnTickets
  <1>5. IsFiniteSet(UNION S)
    BY <1>3, <1>4, FS_UNION
  <1> QED
    BY <1>5, FS_CardinalityType DEF tickets

\* An account that joins others brings as many tickets as it weighs.
LEMMA TicketsJoin ==
  ASSUME NEW ws, Weights(ws), NEW of \in SUBSET DOMAIN ws, NEW a \in DOMAIN ws, a \notin of
  PROVE  Cardinality(tickets(ws, of \cup {a})) = Cardinality(tickets(ws, of)) + ws[a]
  <1> DEFINE own == {a} \X (1..ws[a])
  <1>1. ws[a] \in Nat
    BY DEF Weights
  <1>2. IsFiniteSet(own) /\ Cardinality(own) = ws[a]
    BY <1>1, OwnTickets
  <1>3. tickets(ws, of \cup {a}) = tickets(ws, of) \cup own
    BY DEF tickets
  <1>4. tickets(ws, of) \cap own = {}
    BY DEF tickets
  <1> HIDE DEF own
  <1>5. IsFiniteSet(tickets(ws, of)) /\ Cardinality(tickets(ws, of)) \in Nat
    BY TicketsFinite
  <1>6. Cardinality(tickets(ws, of) \cup own)
          = Cardinality(tickets(ws, of)) + Cardinality(own) - Cardinality(tickets(ws, of) \cap own)
    BY <1>2, <1>5, FS_Union
  <1>7. Cardinality(tickets(ws, of) \cap own) = 0
    BY <1>4, FS_EmptySet
  <1>8. Cardinality(tickets(ws, of \cup {a})) = Cardinality(tickets(ws, of) \cup own)
    BY <1>3
  <1>9. Cardinality(tickets(ws, of) \cup own) = Cardinality(tickets(ws, of)) + ws[a]
    BY <1>1, <1>2, <1>5, <1>6, <1>7
  <1> QED
    BY <1>8, <1>9

\* More accounts have no fewer tickets.
LEMMA TicketsMore ==
  ASSUME NEW ws, Weights(ws), NEW more \in SUBSET DOMAIN ws, NEW of \in SUBSET more
  PROVE  Cardinality(tickets(ws, of)) <= Cardinality(tickets(ws, more))
  <1>1. IsFiniteSet(tickets(ws, more))
    BY TicketsFinite
  <1>2. tickets(ws, of) \subseteq tickets(ws, more)
    BY DEF tickets
  <1> QED
    BY <1>1, <1>2, FS_Subset

\* The first ticket of an account, and the tickets that are its own.
before(ws, a) == Cardinality(tickets(ws, newer(a, DOMAIN ws)))

\* The shares of two accounts do not overlap, and all lie within the period.
LEMMA SharesApart ==
  ASSUME NEW ws, Weights(ws)
  PROVE  /\ period(ws) \in Nat
         /\ \A a \in DOMAIN ws : before(ws, a) \in Nat /\ ws[a] \in Nat \ {0} /\ before(ws, a) + ws[a] <= period(ws)
         /\ \A a, b \in DOMAIN ws : a # b => before(ws, b) + ws[b] <= before(ws, a) \/ before(ws, a) + ws[a] <= before(ws, b)
  <1>1. period(ws) \in Nat
    BY TicketsFinite DEF period
  <1>2. ASSUME NEW a \in DOMAIN ws
        PROVE  before(ws, a) \in Nat /\ ws[a] \in Nat \ {0} /\ before(ws, a) + ws[a] <= period(ws)
    <2>1. ws[a] \in Nat \ {0}
      BY DEF Weights
    <2> DEFINE older == newer(a, DOMAIN ws)
    <2>2. older \subseteq DOMAIN ws /\ a \notin older
      BY NewerThanNone, NotNewer
    <2> HIDE DEF older
    <2>3. before(ws, a) = Cardinality(tickets(ws, older))
      BY DEF before, older
    <2>4. Cardinality(tickets(ws, older)) \in Nat
      BY <2>2, TicketsFinite
    <2>5. Cardinality(tickets(ws, older \cup {a})) = Cardinality(tickets(ws, older)) + ws[a]
      BY <2>2, TicketsJoin
    <2>6. Cardinality(tickets(ws, older \cup {a})) <= Cardinality(tickets(ws, DOMAIN ws))
      BY <2>2, TicketsMore
    <2> QED
      BY <2>1, <2>3, <2>4, <2>5, <2>6 DEF period
  <1>3. ASSUME NEW a \in DOMAIN ws, NEW b \in newer(a, DOMAIN ws) PROVE before(ws, b) + ws[b] <= before(ws, a)
    <2> DEFINE older == newer(b, DOMAIN ws)
               young == newer(a, DOMAIN ws)
    <2>1. DOMAIN ws \subseteq pool
      BY DEF Weights
    <2>2. older \subseteq young /\ b \in DOMAIN ws /\ b \notin older /\ older \subseteq DOMAIN ws /\ young \subseteq DOMAIN ws
      BY <2>1, NewerNests, NewerThanNone
    <2>3. b \in young
      BY <1>3
    <2> HIDE DEF older, young
    <2>4. Cardinality(tickets(ws, older \cup {b})) = Cardinality(tickets(ws, older)) + ws[b]
      BY <2>2, TicketsJoin
    <2>5. older \cup {b} \in SUBSET young /\ young \in SUBSET DOMAIN ws
      BY <2>2, <2>3
    <2>6. Cardinality(tickets(ws, older \cup {b})) <= Cardinality(tickets(ws, young))
      BY <2>5, TicketsMore
    <2> QED
      BY <2>4, <2>6 DEF before, older, young
  <1>4. ASSUME NEW a \in DOMAIN ws, NEW b \in DOMAIN ws, a # b
        PROVE  before(ws, b) + ws[b] <= before(ws, a) \/ before(ws, a) + ws[a] <= before(ws, b)
    <2>1. DOMAIN ws \in SUBSET pool
      BY DEF Weights
    <2>2. b \in newer(a, DOMAIN ws) \/ a \in newer(b, DOMAIN ws)
      BY <1>4, <2>1, NewerOrders
    <2> QED
      BY <1>3, <2>2
  <1> QED
    BY <1>1, <1>2, <1>4

\* Numbers of two shares that do not overlap differ.
LEMMA SlotsApart ==
  \A p, q, w, x \in Nat : \A u \in 1..w, v \in 1..x :
    p + u - 1 = q + v - 1 => ~(q + x <= p \/ p + w <= q)
  OBVIOUS

\* There are as many tickets as numbers below the period, so that each number has a holder.
LEMMA EveryTicketHeld ==
  ASSUME NEW ws, Weights(ws), NEW n \in 0..(period(ws) - 1)
  PROVE  \E a \in DOMAIN ws : before(ws, a) <= n /\ n < before(ws, a) + ws[a]
  <1> DEFINE all == tickets(ws, DOMAIN ws)
             f == [t \in all |-> before(ws, t[1]) + t[2] - 1]
             numbers == 0..(period(ws) - 1)
  <1>1. \A t \in all : t = <<t[1], t[2]>> /\ t[1] \in DOMAIN ws /\ t[2] \in 1..ws[t[1]]
    BY TicketsAre
  <1>2. ASSUME NEW t \in all
        PROVE  f[t] \in numbers /\ before(ws, t[1]) <= f[t] /\ f[t] < before(ws, t[1]) + ws[t[1]]
    <2>1. t[1] \in DOMAIN ws /\ t[2] \in 1..ws[t[1]]
      BY <1>1, <1>2
    <2>2. period(ws) \in Nat /\ before(ws, t[1]) \in Nat /\ ws[t[1]] \in Nat /\ before(ws, t[1]) + ws[t[1]] <= period(ws)
      BY <2>1, SharesApart
    <2>3. f[t] = before(ws, t[1]) + t[2] - 1
      BY <1>2
    <2> HIDE DEF f, all
    <2> QED
      BY <2>1, <2>2, <2>3
  <1>3. ASSUME NEW s \in all, NEW t \in all, f[s] = f[t] PROVE s = t
    <2>1. /\ s = <<s[1], s[2]>> /\ t = <<t[1], t[2]>>
          /\ s[1] \in DOMAIN ws /\ t[1] \in DOMAIN ws /\ s[2] \in 1..ws[s[1]] /\ t[2] \in 1..ws[t[1]]
      BY <1>1, <1>3
    <2>2. /\ before(ws, s[1]) \in Nat /\ before(ws, t[1]) \in Nat /\ ws[s[1]] \in Nat /\ ws[t[1]] \in Nat
          /\ s[1] # t[1] => before(ws, t[1]) + ws[t[1]] <= before(ws, s[1]) \/ before(ws, s[1]) + ws[s[1]] <= before(ws, t[1])
      BY <2>1, SharesApart
    <2>3. f[s] = before(ws, s[1]) + s[2] - 1 /\ f[t] = before(ws, t[1]) + t[2] - 1
      BY <1>3
    <2>4. before(ws, s[1]) + s[2] - 1 = before(ws, t[1]) + t[2] - 1
      BY <1>3, <2>3
    <2>5. s[1] = t[1]
      BY <2>1, <2>2, <2>4, SlotsApart
    <2>6. before(ws, s[1]) = before(ws, t[1]) /\ s[2] \in Nat /\ t[2] \in Nat
      BY <2>1, <2>2, <2>5
    <2>7. s[2] = t[2]
      BY <2>2, <2>4, <2>6
    <2> QED
      BY <2>1, <2>5, <2>7
  <1>4. IsFiniteSet(numbers) /\ Cardinality(numbers) = period(ws)
    <2>1. period(ws) \in Nat
      BY SharesApart
    <2>2. 0 \in Int /\ period(ws) - 1 \in Int
      BY <2>1
    <2>3. IsFiniteSet(numbers) /\ Cardinality(numbers) = IF 0 > period(ws) - 1 THEN 0 ELSE period(ws) - 1 - 0 + 1
      BY <2>2, FS_Interval
    <2> QED
      BY <2>1, <2>3
  <1>5. f \in Injection(all, numbers)
    BY <1>2, <1>3 DEF Injection, IsInjective
  <1>6. Cardinality(all) = Cardinality(numbers)
    BY <1>4 DEF period
  <1> HIDE DEF f, all, numbers
  <1>7. f \in Surjection(all, numbers)
    BY <1>4, <1>5, <1>6, FS_Injection
  <1>8. PICK t \in all : f[t] = n
    BY <1>7 DEF Surjection, numbers
  <1> QED
    BY <1>1, <1>2, <1>8

\* An account holds as many tickets of a period as it weighs.
LEMMA TicketsByWeight ==
  ASSUME NEW ws, Weights(ws)
  PROVE  /\ \A n \in 0..(period(ws) - 1) : ticketHolder(ws, n) \in DOMAIN ws
         /\ \A a \in DOMAIN ws : IsFiniteSet(ticketsOf(ws, a)) /\ Cardinality(ticketsOf(ws, a)) = ws[a]
  <1>1. ASSUME NEW n \in 0..(period(ws) - 1)
        PROVE  /\ ticketHolder(ws, n) \in DOMAIN ws
               /\ before(ws, ticketHolder(ws, n)) <= n /\ n < before(ws, ticketHolder(ws, n)) + ws[ticketHolder(ws, n)]
    <2>1. \E a \in DOMAIN ws : before(ws, a) <= n /\ n < before(ws, a) + ws[a]
      BY EveryTicketHeld
    <2>2. ticketHolder(ws, n) = CHOOSE a \in DOMAIN ws : before(ws, a) <= n /\ n < before(ws, a) + ws[a]
      BY DEF ticketHolder, before
    <2> QED
      BY <2>1, <2>2
  <1>2. ASSUME NEW a \in DOMAIN ws PROVE ticketsOf(ws, a) = before(ws, a)..(before(ws, a) + ws[a] - 1)
    <2>1. /\ period(ws) \in Nat /\ before(ws, a) \in Nat /\ ws[a] \in Nat /\ before(ws, a) + ws[a] <= period(ws)
          /\ \A b \in DOMAIN ws : before(ws, b) \in Nat /\ ws[b] \in Nat
          /\ \A b \in DOMAIN ws :
               a # b => before(ws, b) + ws[b] <= before(ws, a) \/ before(ws, a) + ws[a] <= before(ws, b)
      BY <1>2, SharesApart
    <2>2. ASSUME NEW n \in ticketsOf(ws, a) PROVE n \in before(ws, a)..(before(ws, a) + ws[a] - 1)
      <3>1. n \in 0..(period(ws) - 1) /\ ticketHolder(ws, n) = a
        BY DEF ticketsOf
      <3> QED
        BY <1>1, <2>1, <3>1
    <2>3. ASSUME NEW n \in before(ws, a)..(before(ws, a) + ws[a] - 1) PROVE n \in ticketsOf(ws, a)
      <3>1. n \in 0..(period(ws) - 1) /\ before(ws, a) <= n /\ n < before(ws, a) + ws[a]
        BY <2>1
      <3> DEFINE b == ticketHolder(ws, n)
      <3>2. b \in DOMAIN ws /\ before(ws, b) <= n /\ n < before(ws, b) + ws[b]
        BY <1>1, <3>1
      <3> HIDE DEF b
      <3>3. b = a
        BY <2>1, <3>1, <3>2
      <3> QED
        BY <3>1, <3>3 DEF ticketsOf, b
    <2> QED
      BY <2>2, <2>3
  <1>3. ASSUME NEW a \in DOMAIN ws PROVE IsFiniteSet(ticketsOf(ws, a)) /\ Cardinality(ticketsOf(ws, a)) = ws[a]
    <2>1. before(ws, a) \in Nat /\ ws[a] \in Nat \ {0}
      BY SharesApart
    <2> DEFINE low == before(ws, a)
               high == before(ws, a) + ws[a] - 1
    <2>2. low \in Int /\ high \in Int /\ ~(low > high) /\ high - low + 1 = ws[a]
      BY <2>1
    <2> HIDE DEF low, high
    <2>3. IsFiniteSet(low..high) /\ Cardinality(low..high) = ws[a]
      BY <2>2, FS_Interval
    <2> QED
      BY <1>2, <2>3 DEF low, high
  <1> QED
    BY <1>1, <1>3

\* A number is so many periods and a remainder, in one way only.
LEMMA SomeRemainder ==
  ASSUME NEW t \in Nat, NEW d \in Nat \ {0}
  PROVE  t \div d \in Nat /\ t % d \in 0..(d - 1) /\ t = (t \div d) * d + (t % d)
  OBVIOUS

LEMMA OneRemainder ==
  ASSUME NEW d \in Nat \ {0}, NEW q \in Nat, NEW r \in 0..(d - 1)
  PROVE  (q * d + r) \div d = q /\ (q * d + r) % d = r
  <1> DEFINE t == q * d + r
             p == t \div d
             s == t % d
  <1>1. t \in Nat
    OBVIOUS
  <1>2. p \in Nat /\ s \in 0..(d - 1) /\ t = p * d + s
    BY <1>1, SomeRemainder
  <1>3. t = q * d + r
    OBVIOUS
  <1> HIDE DEF p, s, t
  <1>4. ASSUME NEW a \in Nat, NEW b \in Nat, a + 1 <= b PROVE a * d + d <= b * d
    <2>1. PICK k \in Nat : b = a + 1 + k
      BY <1>4, b - a - 1 \in Nat
    <2>2. b * d = a * d + d + k * d
      BY <2>1
    <2>3. k * d \in Nat /\ a * d \in Nat
      OBVIOUS
    <2> QED
      BY <2>2, <2>3
  <1>5. p * d \in Nat /\ q * d \in Nat
    BY <1>2
  <1>6. ~(p + 1 <= q)
    BY <1>2, <1>3, <1>4, <1>5
  <1>7. ~(q + 1 <= p)
    BY <1>2, <1>3, <1>4, <1>5
  <1>8. p = q
    BY <1>2, <1>6, <1>7
  <1>9. s = r
    BY <1>2, <1>3, <1>5, <1>8
  <1> QED
    BY <1>8, <1>9 DEF p, s, t

\* The cursor after its next step.
LEMMA NextTicket ==
  ASSUME NEW p \in Nat \ {0}, NEW c \in Nat
  PROVE  /\ c % p \in 0..(p - 1) /\ (c < p => c % p = c)
         /\ (c + 1) % p = IF (c % p) + 1 = p THEN 0 ELSE (c % p) + 1
  <1> DEFINE q == c \div p
             r == c % p
  <1>1. q \in Nat /\ r \in 0..(p - 1) /\ c = q * p + r
    BY SomeRemainder
  <1> HIDE DEF q, r
  <1>2. c < p => c % p = c
    <2>1. c < p => (0 * p + c) % p = c
      BY OneRemainder
    <2> QED
      BY <2>1
  <1>3. CASE r + 1 = p
    <2>1. c + 1 = (q + 1) * p + 0
      BY <1>1, <1>3
    <2>2. ((q + 1) * p + 0) % p = 0
      BY <1>1, OneRemainder, q + 1 \in Nat, 0 \in 0..(p - 1)
    <2> QED
      BY <1>1, <1>2, <1>3, <2>1, <2>2 DEF r
  <1>4. CASE r + 1 # p
    <2>1. c + 1 = q * p + (r + 1) /\ r + 1 \in 0..(p - 1)
      BY <1>1, <1>4
    <2>2. (q * p + (r + 1)) % p = r + 1
      BY <1>1, <2>1, OneRemainder
    <2> QED
      BY <1>1, <1>2, <1>4, <2>1, <2>2 DEF r
  <1> QED
    BY <1>3, <1>4

\* A period has a ticket.
LEMMA Positive ==
  ASSUME NEW ws, Weights(ws)
  PROVE  period(ws) \in Nat \ {0}
  <1>1. PICK a \in DOMAIN ws : TRUE
    BY DEF Weights
  <1> QED
    BY <1>1, SharesApart

\* One more ticket is handed out: the last m + 1 are the last m before it and this one, and if the round is full
\* they are all.
LEMMA LastTickets ==
  ASSUME NEW ws, Weights(ws), NEW c \in 0..(period(ws) - 1), NEW d \in Nat,
         d = (IF c + 1 = period(ws) THEN 0 ELSE c + 1), NEW m \in 0..(period(ws) - 1)
  PROVE  /\ lastTickets(ws, d, 0) = {}
         /\ c \notin lastTickets(ws, c, m)
         /\ m + 1 < period(ws) => lastTickets(ws, d, m + 1) = lastTickets(ws, c, m) \cup {c}
         /\ m + 1 = period(ws) => lastTickets(ws, c, m) \cup {c} = 0..(period(ws) - 1)
  <1> DEFINE p == period(ws)
  <1>1. p \in Nat \ {0}
    BY Positive
  <1>2. lastTickets(ws, c, m) = {n \in 0..(p - 1) : (n < c /\ c - n <= m) \/ (n >= c /\ c + p - n <= m)}
    BY DEF lastTickets
  <1>3. lastTickets(ws, d, m + 1) = {n \in 0..(p - 1) : (n < d /\ d - n <= m + 1) \/ (n >= d /\ d + p - n <= m + 1)}
    BY DEF lastTickets
  <1>4. lastTickets(ws, d, 0) = {n \in 0..(p - 1) : (n < d /\ d - n <= 0) \/ (n >= d /\ d + p - n <= 0)}
    BY DEF lastTickets
  <1>5. c \in 0..(p - 1) /\ m \in 0..(p - 1) /\ d = (IF c + 1 = p THEN 0 ELSE c + 1)
    OBVIOUS
  <1> HIDE DEF p
  <1>6. {n \in 0..(p - 1) : (n < d /\ d - n <= 0) \/ (n >= d /\ d + p - n <= 0)} = {}
    BY <1>1, <1>5
  <1>7. c \notin {n \in 0..(p - 1) : (n < c /\ c - n <= m) \/ (n >= c /\ c + p - n <= m)}
    BY <1>1, <1>5
  <1>8. m + 1 < p => {n \in 0..(p - 1) : (n < d /\ d - n <= m + 1) \/ (n >= d /\ d + p - n <= m + 1)}
                       = {n \in 0..(p - 1) : (n < c /\ c - n <= m) \/ (n >= c /\ c + p - n <= m)} \cup {c}
    BY <1>1, <1>5
  <1>9. m + 1 = p => {n \in 0..(p - 1) : (n < c /\ c - n <= m) \/ (n >= c /\ c + p - n <= m)} \cup {c} = 0..(p - 1)
    BY <1>1, <1>5
  <1> QED
    BY <1>2, <1>3, <1>4, <1>6, <1>7, <1>8, <1>9 DEF p

\* What one more ticket adds to the tickets of an account.
LEMMA OneTicketMore ==
  ASSUME NEW S, NEW T, IsFiniteSet(S), NEW c, c \notin T
  PROVE  /\ Cardinality(S \cap T) \in Nat /\ Cardinality(S \cap (T \cup {c})) \in Nat
         /\ Cardinality(S \cap (T \cup {c})) = IF c \in S THEN Cardinality(S \cap T) + 1 ELSE Cardinality(S \cap T)
  <1>1. IsFiniteSet(S \cap T) /\ IsFiniteSet(S \cap (T \cup {c}))
    BY FS_Intersection
  <1>2. Cardinality(S \cap T) \in Nat /\ Cardinality(S \cap (T \cup {c})) \in Nat
    BY <1>1, FS_CardinalityType
  <1>3. CASE c \in S
    <2>1. S \cap (T \cup {c}) = (S \cap T) \cup {c} /\ c \notin S \cap T
      BY <1>3
    <2> QED
      BY <1>1, <1>2, <1>3, <2>1, FS_AddElement
  <1>4. CASE c \notin S
    <2>1. S \cap (T \cup {c}) = S \cap T
      BY <1>4
    <2> QED
      BY <1>2, <1>4, <2>1
  <1> QED
    BY <1>3, <1>4

\* At the beginning of a turn nothing is handed out.
LEMMA NothingYet ==
  ASSUME NEW ws, Weights(ws), NEW c \in 0..(period(ws) - 1)
  PROVE  Counted(ws, c, 0, [a \in pool |-> 0])
  <1>1. period(ws) \in Nat \ {0}
    BY Positive
  <1>2. lastTickets(ws, c, 0) = {}
    <2>1. \A n \in 0..(period(ws) - 1) : ~((n < c /\ c - n <= 0) \/ (n >= c /\ c + period(ws) - n <= 0))
      BY <1>1
    <2> QED
      BY <2>1 DEF lastTickets
  <1>3. ASSUME NEW a \in DOMAIN ws
        PROVE  [b \in pool |-> 0][a] = ws[a] * 0 + Cardinality(ticketsOf(ws, a) \cap lastTickets(ws, c, 0))
    <2>1. a \in pool /\ ws[a] \in Nat
      BY DEF Weights
    <2>2. Cardinality(ticketsOf(ws, a) \cap lastTickets(ws, c, 0)) = 0
      BY <1>2, FS_EmptySet
    <2>3. ws[a] * 0 = 0
      BY <2>1
    <2> QED
      BY <2>1, <2>2, <2>3
  <1>4. 0 = 0 * period(ws) + 0 /\ 0 \in Nat /\ 0 \in 0..(period(ws) - 1)
    BY <1>1
  <1> QED
    BY <1>3, <1>4 DEF Counted

\* takeTurn and advanced: the holder of the ticket at the cursor is picked, and the cursor steps on.
LEMMA Picked ==
  ASSUME NEW ws, Weights(ws), NEW c \in 0..(period(ws) - 1), NEW picks \in Nat, NEW of \in [pool -> Nat],
         Counted(ws, c, picks, of)
  PROVE  Counted(ws, IF c + 1 = period(ws) THEN 0 ELSE c + 1, picks + 1, [of EXCEPT ![ticketHolder(ws, c)] = @ + 1])
  <1> DEFINE p == period(ws)
             d == IF c + 1 = period(ws) THEN 0 ELSE c + 1
             holder == ticketHolder(ws, c)
             of2 == [of EXCEPT ![holder] = @ + 1]
             mine(a) == ticketsOf(ws, a)
  <1>1. p \in Nat \ {0} /\ c \in 0..(p - 1) /\ d \in Nat
    BY Positive
  <1>0. d = (IF c + 1 = period(ws) THEN 0 ELSE c + 1)
    OBVIOUS
  <1> HIDE DEF d
  <1>2. PICK rounds \in Nat, m \in 0..(p - 1) :
          /\ picks = rounds * p + m
          /\ \A a \in DOMAIN ws : of[a] = ws[a] * rounds + Cardinality(mine(a) \cap lastTickets(ws, c, m))
    BY DEF Counted
  <1>3. /\ lastTickets(ws, d, 0) = {}
        /\ c \notin lastTickets(ws, c, m)
        /\ m + 1 < p => lastTickets(ws, d, m + 1) = lastTickets(ws, c, m) \cup {c}
        /\ m + 1 = p => lastTickets(ws, c, m) \cup {c} = 0..(p - 1)
    <2>1. Weights(ws) /\ c \in 0..(period(ws) - 1) /\ d \in Nat /\ m \in 0..(period(ws) - 1)
      BY <1>1
    <2> HIDE DEF of2, holder, p
    <2>2. /\ lastTickets(ws, d, 0) = {}
          /\ c \notin lastTickets(ws, c, m)
          /\ m + 1 < period(ws) => lastTickets(ws, d, m + 1) = lastTickets(ws, c, m) \cup {c}
          /\ m + 1 = period(ws) => lastTickets(ws, c, m) \cup {c} = 0..(period(ws) - 1)
      BY <1>0, <2>1, LastTickets
    <2> QED
      BY <2>2 DEF p
  <1>4. holder \in DOMAIN ws /\ DOMAIN ws \subseteq pool
    BY TicketsByWeight DEF Weights
  <1>5. ASSUME NEW a \in DOMAIN ws
        PROVE  of2[a] = ws[a] * rounds + Cardinality(mine(a) \cap (lastTickets(ws, c, m) \cup {c}))
    <2>1. c \in mine(a) <=> holder = a
      BY DEF ticketsOf
    <2>2. IsFiniteSet(mine(a)) /\ ws[a] \in Nat
      BY TicketsByWeight DEF Weights
    <2> DEFINE T == lastTickets(ws, c, m)
               M == mine(a)
    <2>3. of2[a] = (IF holder = a THEN of[a] + 1 ELSE of[a]) /\ of[a] \in Nat
      BY <1>4
    <2>4. of[a] = ws[a] * rounds + Cardinality(M \cap T)
      BY <1>2
    <2>5. c \notin T
      BY <1>3
    <2>6. IsFiniteSet(M)
      BY <2>2
    <2> HIDE DEF T, M
    <2>7. /\ Cardinality(M \cap T) \in Nat /\ Cardinality(M \cap (T \cup {c})) \in Nat
          /\ Cardinality(M \cap (T \cup {c})) = IF c \in M THEN Cardinality(M \cap T) + 1 ELSE Cardinality(M \cap T)
      BY <2>5, <2>6, OneTicketMore
    <2> DEFINE x == Cardinality(M \cap T)
               y == Cardinality(M \cap (T \cup {c}))
               z == ws[a] * rounds
    <2>8. z \in Nat
      BY <2>2
    <2>9. c \in M <=> holder = a
      BY <2>1 DEF M
    <2> HIDE DEF x, y, z, of2, holder
    <2>10. of2[a] = z + y
      BY <2>3, <2>4, <2>7, <2>8, <2>9 DEF x, y, z
    <2> QED
      BY <2>10 DEF y, z, M, T
  <1>6. ASSUME m + 1 < p PROVE Counted(ws, d, picks + 1, of2)
    <2>1. m + 1 \in 0..(p - 1) /\ picks + 1 = rounds * p + (m + 1)
      BY <1>1, <1>2, <1>6
    <2>2. \A a \in DOMAIN ws : of2[a] = ws[a] * rounds + Cardinality(mine(a) \cap lastTickets(ws, d, m + 1))
      BY <1>3, <1>5, <1>6
    <2> QED
      BY <2>1, <2>2 DEF Counted
  <1>7. ASSUME m + 1 = p PROVE Counted(ws, d, picks + 1, of2)
    <2>1. picks + 1 = (rounds + 1) * p + 0 /\ rounds + 1 \in Nat /\ 0 \in 0..(p - 1)
      BY <1>1, <1>2, <1>7
    <2>2. ASSUME NEW a \in DOMAIN ws
          PROVE  of2[a] = ws[a] * (rounds + 1) + Cardinality(mine(a) \cap lastTickets(ws, d, 0))
      <3>1. mine(a) \cap (lastTickets(ws, c, m) \cup {c}) = mine(a)
        BY <1>3, <1>7 DEF ticketsOf
      <3>2. of2[a] = ws[a] * rounds + ws[a]
        BY <1>5, <3>1, TicketsByWeight
      <3>3. Cardinality(mine(a) \cap lastTickets(ws, d, 0)) = 0
        BY <1>3, FS_EmptySet
      <3>4. ws[a] \in Nat
        BY DEF Weights
      <3>5. ws[a] * rounds + ws[a] = ws[a] * (rounds + 1) + 0
        BY <3>4
      <3> QED
        BY <3>2, <3>3, <3>5
    <2> QED
      BY <2>1, <2>2 DEF Counted
  <1>8. Counted(ws, d, picks + 1, of2)
    <2>1. m + 1 < p \/ m + 1 = p
      BY <1>1
    <2> QED
      BY <1>6, <1>7, <2>1
  <1> QED
    BY <1>8 DEF d
-----------------------------------------------------------------------------
(* The choices *)

\* At the start nothing has been picked.
LEMMA ChoiceInitial == SelectInit => ChoiceInv
  <1> SUFFICES ASSUME SelectInit PROVE ChoiceInv
    OBVIOUS
  <1>1. ConditionsKnown
    BY ConditionTypes DEF SelectInit, ConditionsKnown
  <1>2. cursors = <<>> /\ turn = [key |-> <<>>, picks |-> 0, of |-> [a \in pool |-> 0]]
    BY DEF SelectInit, NoTurn
  <1>3. TurnTyped
    BY <1>2 DEF TurnTyped
  <1>4. TurnCounted
    BY <1>2 DEF TurnCounted
  <1> QED
    BY <1>1, <1>3, <1>4 DEF ChoiceInv

\* Candidates are accounts of the pool.
LEMMA CandidatesListed ==
  ASSUME NEW r PROVE candidates(r) \subseteq pool
  BY DEF candidates, ranked, admittable, listed

\* Only positive weights are ever used.
LEMMA WeightsPositive ==
  ASSUME ConditionsKnown, NEW of \in SUBSET pool, of # {}
  PROVE  Weights(weights(of)) /\ DOMAIN weights(of) = of
  <1>1. \A a \in of : condition[a].weight \in Nat
    BY ConditionTypes DEF ConditionsKnown
  <1>2. CASE \A a \in of : condition[a].weight > 0
    <2>1. weights(of) = [a \in of |-> condition[a].weight] \/ weights(of) = [a \in of |-> 1]
      BY DEF weights
    <2> QED
      BY <1>1, <1>2, <2>1 DEF Weights
  <1>3. CASE ~\A a \in of : condition[a].weight > 0
    <2>1. weights(of) = [a \in of |-> 1]
      BY <1>3 DEF weights
    <2> QED
      BY <2>1 DEF Weights
  <1> QED
    BY <1>2, <1>3

\* A step that picks no account.
LEMMA UntakenStep ==
  ASSUME ChoiceInv, ConditionsKnown', UNCHANGED <<cursors, turn>>
  PROVE  ChoiceInv'
  BY DEF ChoiceInv, TurnTyped, TurnCounted

\* A step that picks one: take with the decision of schedule and reschedule.
LEMMA TakeStep ==
  ASSUME ChoiceInv, NEW r, candidates(r) # {}, take(decision(r))
  PROVE  ChoiceInv'
  <1> DEFINE ws == weights(candidates(r))
             k == cursorOf(r, candidates(r))
             p == period(ws)
             c == next(k) % p
             d == IF c + 1 = p THEN 0 ELSE c + 1
             holder == ticketHolder(ws, c)
             was == IF turn.key = <<k, ws>> THEN turn ELSE NoTurn
  <1>1. Weights(ws)
    BY CandidatesListed, WeightsPositive DEF ChoiceInv
  <1>2. /\ condition' = condition
        /\ cursors' = [x \in DOMAIN cursors \cup {k} |-> IF x = k THEN (next(x) + 1) % p ELSE cursors[x]]
        /\ turn' = [key |-> <<k, ws>>, picks |-> was.picks + 1, of |-> [was.of EXCEPT ![holder] = @ + 1]]
    BY DEF take, decision, environment, advanced, takeTurn
  <1>3. p \in Nat \ {0} /\ next(k) \in Nat
    BY <1>1, Positive DEF ChoiceInv, TurnTyped, next
  <1>4. c \in 0..(p - 1) /\ (next(k) < p => c = next(k)) /\ (next(k) + 1) % p = d
    BY <1>3, NextTicket
  <1>5. /\ was.picks \in Nat /\ was.of \in [pool -> Nat]
        /\ was.picks = 0 => was.of = [a \in pool |-> 0]
    BY DEF ChoiceInv, TurnTyped, NoTurn
  <1>6. Counted(ws, c, was.picks, was.of)
    <2>1. CASE was.picks = 0
      BY <1>1, <1>4, <1>5, <2>1, NothingYet
    <2>2. CASE was.picks # 0
      <3>1. turn.key = <<k, ws>> /\ was = turn
        BY <2>2 DEF NoTurn
      <3>2. turn.picks > 0
        BY <1>5, <2>2, <3>1
      <3>3. PICK x \in DOMAIN cursors : \E w \in {turn.key[2]} :
              turn.key = <<x, w>> /\ cursors[x] \in 0..(period(w) - 1) /\ Counted(w, cursors[x], turn.picks, turn.of)
        BY <3>2 DEF ChoiceInv, TurnCounted
      <3>4. x = k /\ cursors[k] \in 0..(p - 1) /\ Counted(ws, cursors[k], turn.picks, turn.of)
        BY <3>1, <3>3
      <3>5. next(k) = cursors[k]
        BY <3>3, <3>4 DEF next
      <3>6. c = cursors[k]
        BY <1>3, <1>4, <3>4, <3>5
      <3> QED
        BY <3>1, <3>4, <3>6
    <2> QED
      BY <2>1, <2>2
  <1> HIDE DEF ws, k, c, was
  <1>7. holder \in pool
    BY <1>1, <1>4, TicketsByWeight DEF Weights
  <1>8. Counted(ws, d, was.picks + 1, [was.of EXCEPT ![holder] = @ + 1])
    BY <1>1, <1>4, <1>5, <1>6, Picked
  <1>9. d \in 0..(p - 1)
    BY <1>3, <1>4
  <1>10. cursors'[k] = d /\ k \in DOMAIN cursors'
    BY <1>2, <1>4
  <1>11. turn'.key = <<k, ws>> /\ turn'.picks = was.picks + 1 /\ turn'.of = [was.of EXCEPT ![holder] = @ + 1]
    BY <1>2
  <1>12. TurnCounted'
    <2>1. turn'.key[2] = ws
      BY <1>11
    <2> HIDE DEF p, d, holder
    <2> QED
      BY <1>1, <1>8, <1>9, <1>10, <1>11, <2>1 DEF TurnCounted, p
  <1>13. TurnTyped'
    <2>1. \A x \in DOMAIN cursors' : cursors'[x] \in Nat
      <3>1. \A x \in DOMAIN cursors : cursors[x] \in Nat
        BY DEF ChoiceInv, TurnTyped
      <3>2. d \in Nat
        BY <1>3, <1>9
      <3> HIDE DEF d, p
      <3> QED
        BY <1>2, <1>4, <3>1, <3>2
    <2>2. turn'.picks \in Nat /\ turn'.picks # 0
      BY <1>5, <1>11
    <2>3. turn'.of \in [pool -> Nat]
      BY <1>5, <1>7, <1>11
    <2>4. turn' = [key |-> turn'.key, picks |-> turn'.picks, of |-> turn'.of]
      BY <1>2, <1>11
    <2> QED
      BY <2>1, <2>2, <2>3, <2>4 DEF TurnTyped
  <1>14. ConditionsKnown'
    BY <1>2 DEF ChoiceInv, ConditionsKnown
  <1> QED
    BY <1>12, <1>13, <1>14 DEF ChoiceInv

\* Every step keeps the count.
LEMMA ChoiceStep == ChoiceInv /\ [SelectNext]_selectVars => ChoiceInv'
  <1> SUFFICES ASSUME ChoiceInv, [SelectNext]_selectVars PROVE ChoiceInv'
    OBVIOUS
  <1>1. CASE UNCHANGED selectVars
    BY <1>1, UntakenStep DEF selectVars, ChoiceInv, ConditionsKnown
  <1>2. ASSUME NEW r \in Asked, keepBound(r) PROVE ChoiceInv'
    BY <1>2, UntakenStep DEF keepBound, environment, ChoiceInv, ConditionsKnown
  <1>3. ASSUME NEW r \in Asked, schedule(r) PROVE ChoiceInv'
    <2>1. candidates(r) # {} /\ take(decision(r))
      BY <1>3 DEF schedule
    <2> QED
      BY <2>1, TakeStep
  <1>4. ASSUME NEW r \in Asked, reschedule(r) PROVE ChoiceInv'
    <2>1. candidates(r) # {} /\ take(decision(r))
      BY <1>4 DEF reschedule
    <2> QED
      BY <2>1, TakeStep
  <1>5. ASSUME NEW a \in pool, NEW c \in Conditions[a], setCondition(a, c) PROVE ChoiceInv'
    <2>1. condition' = [condition EXCEPT ![a] = c] /\ UNCHANGED <<cursors, turn>>
      BY <1>5 DEF setCondition
    <2>2. ConditionsKnown'
      BY <2>1 DEF ChoiceInv, ConditionsKnown
    <2> QED
      BY <2>1, <2>2, UntakenStep
  <1>6. CASE (\E q \in PoolPolicies : setPolicy(q)) \/ selectTick
    BY <1>6, UntakenStep DEF setPolicy, selectTick, ChoiceInv, ConditionsKnown
  <1> QED
    BY <1>1, <1>2, <1>3, <1>4, <1>5, <1>6 DEF SelectNext

\* Full rounds are shared by weight.
LEMMA RoundsShared == ChoiceInv => SharesByWeight
  <1> SUFFICES ASSUME ChoiceInv, turn.picks > 0, turn.picks % period(turn.key[2]) = 0,
                      NEW a \in DOMAIN turn.key[2]
               PROVE  turn.of[a] = turn.key[2][a] * (turn.picks \div period(turn.key[2]))
    BY DEF SharesByWeight
  <1> DEFINE ws == turn.key[2]
             p == period(ws)
  <1>1. PICK k \in DOMAIN cursors :
          Weights(ws) /\ cursors[k] \in 0..(p - 1) /\ Counted(ws, cursors[k], turn.picks, turn.of)
    BY DEF ChoiceInv, TurnCounted
  <1>2. PICK rounds \in Nat, m \in 0..(p - 1) :
          turn.picks = rounds * p + m
          /\ turn.of[a] = ws[a] * rounds + Cardinality(ticketsOf(ws, a) \cap lastTickets(ws, cursors[k], m))
    BY <1>1 DEF Counted
  <1> HIDE DEF ws
  <1>3. p \in Nat \ {0}
    BY <1>1, Positive
  <1> HIDE DEF p
  <1>4. turn.picks \div p = rounds /\ turn.picks % p = m
    BY <1>2, <1>3, OneRemainder
  <1>5. m = 0
    BY <1>4 DEF p, ws
  <1>6. lastTickets(ws, cursors[k], 0) = {}
    <2> DEFINE c == cursors[k]
    <2>1. \A n \in 0..(p - 1) : ~((n < c /\ c - n <= 0) \/ (n >= c /\ c + p - n <= 0))
      BY <1>1, <1>3
    <2> HIDE DEF c
    <2>2. lastTickets(ws, c, 0) = {}
      BY <2>1 DEF lastTickets, p
    <2> QED
      BY <2>2 DEF c
  <1>7. Cardinality(ticketsOf(ws, a) \cap lastTickets(ws, cursors[k], m)) = 0
    BY <1>5, <1>6, FS_EmptySet
  <1>8. ws[a] \in Nat
    BY <1>1 DEF Weights, ws
  <1>9. turn.of[a] = ws[a] * rounds
    BY <1>2, <1>7, <1>8
  <1> QED
    BY <1>4, <1>9 DEF p, ws

\* A new request for a model, of a conversation of its own.
Fresh(m) ==
  [thread |-> "none", parent |-> "none", provider |-> "", model |-> m, kind |-> "responses", affinity |-> "pinned",
   refused |-> {}]

\* What the scheduler asks of an account for it.
LEMMA FreshEligible ==
  ASSUME NEW a, NEW m
  PROVE  /\ eligible(a, Fresh(m)) <=> condition[a].usable /\ AllowsResource(ProviderOf[a], m)
         /\ admits(a, Fresh(m)) <=> admission(a, m) = "open" /\ ~condition[a].spent
         /\ Allows(Fresh(m)) <=> rulesAllow("", m)
  BY DEF Fresh, eligible, permits, admits, Allows, AllowsResource

\* A reason is one of availability.go's own, or what keeps the account from admission.
LEMMA AvailableIsAdmittable ==
  ASSUME ConditionsKnown, NEW a \in pool, NEW m \in ChatModels, NEW permitted \in BOOLEAN
  PROVE  /\ reason(a, m, permitted) = "available"
              <=> condition[a].usable /\ permitted /\ catalogSupports(a, m) = "yes"
                  /\ admission(a, m) = "open" /\ ~condition[a].spent
         /\ condition[a].usable /\ permitted /\ catalogSupports(a, m) = "unknown"
              => reason(a, m, permitted) = "ErrCatalogUnavailable"
  <1>1. admission(a, m) \in Gates
    <2>1. condition[a].gate \in Gates /\ condition[a].lanes[m] \in Gates
      BY ConditionTypes DEF ConditionsKnown
    <2> QED
      BY <2>1 DEF admission
  <1>2. catalogSupports(a, m) \in {"yes", "no", "unknown"}
    BY DEF catalogSupports
  <1>3. admission(a, m) # "open" => admission(a, m) \notin {"available", "ErrCatalogUnavailable"}
    BY <1>1 DEF Gates
  <1> QED
    BY <1>2, <1>3 DEF reason

\* What the pool permits of a provider, a rule permits.
LEMMA ResourceAllowed ==
  \A provider, model : AllowsResource(provider, model) \in BOOLEAN /\ rulesAllow(provider, model) \in BOOLEAN
                       /\ (AllowsResource(provider, model) => rulesAllow(provider, model))
  BY DEF AllowsResource, rulesAllow

\* Whether a model is called available is whether a new request finds an account.
LEMMA ChoiceMatchesListing == ChoiceInv => AvailabilityAgrees
  <1> SUFFICES ASSUME ConditionsKnown, NEW m \in ChatModels
               PROVE  /\ Availability(m) = "available" <=> selectionError(Fresh(m)) = "none"
                      /\ selectionError(Fresh(m)) = "ErrCatalogUnavailable" => Availability(m) = "unknown"
                      /\ selectionError(Fresh(m)) = "none" => WorkspaceCapacity(m) = "available"
                      /\ (\A a \in listed : AllowsProvider(ProviderOf[a]))
                           => WorkspaceCapacity(m) \in {Availability(m), "unwatched"}
    BY DEF ChoiceInv, AvailabilityAgrees, Fresh
  <1> DEFINE r == Fresh(m)
             asked == {a \in listed : eligible(a, r)}
             shown == {reason(a, m, AllowsResource(ProviderOf[a], m)) : a \in listed}
             watched == {reason(a, m, rulesAllow(ProviderOf[a], m)) : a \in listed}
  <1>1. listed \subseteq pool
    BY DEF listed
  <1>2. ASSUME NEW a \in listed
        PROVE  /\ reason(a, m, AllowsResource(ProviderOf[a], m)) = "available" <=> a \in admittable(r)
               /\ a \in admittable(r) => reason(a, m, rulesAllow(ProviderOf[a], m)) = "available"
               /\ a \in asked /\ catalogSupports(a, m) = "unknown"
                    => reason(a, m, AllowsResource(ProviderOf[a], m)) = "ErrCatalogUnavailable"
    <2>1. a \in pool
      BY <1>1
    <2>2. a \in admittable(r) <=> eligible(a, r) /\ catalogSupports(a, m) = "yes" /\ admits(a, r)
      BY DEF admittable, Fresh
    <2> QED
      BY <2>1, <2>2, FreshEligible, AvailableIsAdmittable, ResourceAllowed
  <1>3. "available" \in shown <=> admittable(r) # {}
    <2>1. admittable(r) \subseteq listed
      BY DEF admittable
    <2> QED
      BY <1>2, <2>1
  <1>4. admittable(r) # {} => "available" \in watched
    <2>1. admittable(r) \subseteq listed
      BY DEF admittable
    <2> QED
      BY <1>2, <2>1
  <1>5. selectionError(r) = "none" <=> rulesAllow("", m) /\ admittable(r) # {}
    BY FreshEligible DEF selectionError
  <1>6. selectionError(r) = "ErrCatalogUnavailable"
          => rulesAllow("", m) /\ admittable(r) = {} /\ \E a \in asked : catalogSupports(a, m) = "unknown"
    <2>1. r.model = m
      BY DEF Fresh
    <2> HIDE DEF r
    <2>2. Allows(r) <=> rulesAllow("", m)
      BY FreshEligible DEF r
    <2> QED
      BY <2>1, <2>2 DEF selectionError
  <1>7. Availability(m) = modelAvailability(m, shown)
    BY DEF Availability
  <1>8. WorkspaceCapacity(m) \in {modelAvailability(m, watched), "unwatched"}
    BY DEF WorkspaceCapacity
  <1>9. selectionError(r) = "ErrCatalogUnavailable" => "ErrCatalogUnavailable" \in shown
    BY <1>2, <1>6
  <1>13. selectionError(r) = "none" => WorkspaceCapacity(m) = modelAvailability(m, watched)
    <2>1. ASSUME admittable(r) # {}
          PROVE  \E a \in listed : m \in condition[a].catalog.models
      <3>1. PICK a \in admittable(r) : TRUE
        BY <2>1
      <3>2. a \in listed /\ catalogSupports(a, m) = "yes"
        BY <3>1 DEF admittable, Fresh
      <3> QED
        BY <3>2 DEF catalogSupports
    <2>2. rulesAllow("", m) /\ poolPolicy.restricted => \E rule \in poolPolicy.rules : rule.model = m
      BY DEF rulesAllow
    <2>3. selectionError(r) = "none" =>
            IF poolPolicy.restricted THEN \E rule \in poolPolicy.rules : rule.model = m
            ELSE \E a \in listed : m \in condition[a].catalog.models
      BY <1>5, <2>1, <2>2
    <2> QED
      BY <2>3 DEF WorkspaceCapacity
  <1>14. (\A a \in listed : AllowsProvider(ProviderOf[a])) => shown = watched
    <2>1. (\A a \in listed : AllowsProvider(ProviderOf[a]))
            => \A a \in listed : reason(a, m, AllowsResource(ProviderOf[a], m)) = reason(a, m, rulesAllow(ProviderOf[a], m))
      <3> SUFFICES ASSUME NEW a \in listed, AllowsProvider(ProviderOf[a])
                   PROVE  AllowsResource(ProviderOf[a], m) = rulesAllow(ProviderOf[a], m)
        OBVIOUS
      <3> QED
        BY ResourceAllowed DEF AllowsResource
    <2> QED
      BY <2>1
  <1> HIDE DEF r, shown, watched, asked
  <1>10. Availability(m) = "available" <=> selectionError(r) = "none"
    BY <1>3, <1>5, <1>7 DEF modelAvailability
  <1>11. selectionError(r) = "ErrCatalogUnavailable" => Availability(m) = "unknown"
    BY <1>3, <1>6, <1>7, <1>9 DEF modelAvailability
  <1>12. selectionError(r) = "none" => WorkspaceCapacity(m) = "available"
    BY <1>4, <1>5, <1>13 DEF modelAvailability
  <1>15. (\A a \in listed : AllowsProvider(ProviderOf[a])) => WorkspaceCapacity(m) \in {Availability(m), "unwatched"}
    BY <1>7, <1>8, <1>14
  <1> QED
    BY <1>10, <1>11, <1>12, <1>15 DEF r

\* What the console and the alerts say of a model agrees with the choice a new request gets (modelAvailability,
\* WorkspaceCapacity, selectAllocationAccount), and full rounds are shared by weight: for any pool, conditions,
\* policies, weights and requests.
THEOREM ChoicesAreAsListed == SelectSpec => []ChoicesAsListed
  <1>1. ChoiceInv => ChoicesAsListed
    BY RoundsShared, ChoiceMatchesListing DEF ChoicesAsListed
  <1> QED
    BY <1>1, ChoiceInitial, ChoiceStep, PTL DEF SelectSpec
=============================================================================
