-------------------------- MODULE Allowance_proofs --------------------------
(***************************************************************************)
(* The settlement of an allowance implements the ledger, active entries    *)
(* always have a live owner, admission sees every ended request, and what  *)
(* is spent stays within the limits, for any number of requests, members,  *)
(* failures and restarts.                                                  *)
(***************************************************************************)
EXTENDS Allowance, FiniteSetTheorems, TLAPS

\* The constants settlement depends on.
LEMMA Constants ==
  0 \in Amounts /\ Amounts \subseteq Nat /\ Owner \in [Requests -> Members]
BY SetsAssumption

\* Every outcome a finishing observation may report is a completion.
LEMMA OutcomeTypes ==
  ASSUME NEW c \in Outcomes
  PROVE  /\ c \in Completions /\ c.kind # "none" /\ c.tokens \in Amounts
         /\ finishState(c) \in {"settled", "pending"} /\ finishCost(c) \in Amounts
BY Constants DEF Outcomes, Completions, finishState, finishCost

\* A completion that is not the empty one settles or suspends its entry.
LEMMA CompletionTypes ==
  ASSUME NEW c \in Completions
  PROVE  /\ finishState(c) \in {"settled", "pending"} /\ finishCost(c) \in Amounts
         /\ c.tokens \in Amounts
BY Constants DEF Completions, finishState, finishCost

\* Recovery and retry of W, entry by entry: recovery suspends the active
\* entries of an earlier run, a retry writes the active ones it covers, and
\* nothing else moves.
LEMMA PreparedEntry ==
  ASSUME IInv, NEW W \in SUBSET failed, NEW r \in Requests
  PROVE  /\ prepared(W)[r] =
              IF entry[r] # "active" THEN entry[r]
              ELSE IF ~ready THEN "pending"
              ELSE IF r \in W THEN finishState(completion[r]) ELSE "active"
         /\ preparedCost(W)[r] =
              IF entry[r] = "active" /\ ready /\ r \in W THEN finishCost(completion[r]) ELSE cost[r]
         /\ observedAfter(recoverable, W, completion)[r] =
              IF entry[r] = "active" /\ ready /\ r \in W THEN completion[r].tokens ELSE observed[r]
<1>1. r \in W => r \in failed /\ ready
  BY DEF IInv, NothingBeforeRecovery
<1>2. entry[r] = "active" => r \notin recorded
  BY DEF IInv, Lifecycle
<1>3. recoverable[r] = IF ~ready /\ entry[r] = "active" THEN "pending" ELSE entry[r]
  BY DEF recoverable
<1>4. writes(recoverable, r) <=> r \notin recorded /\ recoverable[r] = "active"
  BY DEF writes
<1>5. prepared(W)[r] = IF r \in W /\ writes(recoverable, r) THEN finishState(completion[r])
                       ELSE recoverable[r]
  BY DEF prepared, stateAfter
<1>6. preparedCost(W)[r] = IF r \in W /\ writes(recoverable, r) THEN finishCost(completion[r])
                           ELSE cost[r]
  BY DEF preparedCost, costAfter
<1>7. observedAfter(recoverable, W, completion)[r] =
        IF r \in W /\ writes(recoverable, r) THEN completion[r].tokens ELSE observed[r]
  BY DEF observedAfter
<1> QED
  BY <1>1, <1>2, <1>3, <1>4, <1>5, <1>6, <1>7, Zenon

\* The prepared columns are columns, with values of their types.
LEMMA PreparedTypes ==
  ASSUME IInv, NEW W \in SUBSET failed
  PROVE  /\ prepared(W) \in [Requests -> EntryStates]
         /\ preparedCost(W) \in [Requests -> Amounts]
         /\ observedAfter(recoverable, W, completion) \in [Requests -> Amounts]
<1>1. \A r \in Requests : completion[r] \in Completions /\ cost[r] \in Amounts
                          /\ observed[r] \in Amounts /\ entry[r] \in EntryStates
  BY DEF IInv, TypeSettlement
<1>2. \A r \in Requests : /\ finishState(completion[r]) \in EntryStates
                          /\ finishCost(completion[r]) \in Amounts
                          /\ completion[r].tokens \in Amounts
  BY <1>1, CompletionTypes DEF EntryStates
<1>3. \A r \in Requests : recoverable[r] \in EntryStates
  BY <1>1 DEF recoverable, EntryStates
<1> QED
  BY <1>1, <1>2, <1>3 DEF prepared, preparedCost, stateAfter, costAfter, observedAfter


-----------------------------------------------------------------------------
(* The inductive invariant *)

\* A step that recovers and retries, and then leaves a request alone, refuses
\* it or inserts its entry, keeps the invariant.
LEMMA PrepareKeeps ==
  ASSUME IInv, NEW W \in SUBSET failed, NEW R \in SUBSET failed, Prepare(W, R),
         entry' \in [Requests -> EntryStates],
         phase' \in [Requests -> {"new", "open", "done", "lost"}],
         cost' = preparedCost(W), completion' = completion,
         \A q \in Requests :
           \/ entry'[q] = prepared(W)[q] /\ phase'[q] = phase[q]
           \/ entry'[q] = prepared(W)[q] /\ phase[q] = "new" /\ phase'[q] = "done"
           \/ entry'[q] = "active" /\ phase[q] = "new" /\ phase'[q] \in {"open", "done"}
  PROVE  IInv'
<1>1. TypeSettlement'
  <2>1. cost' \in [Requests -> Amounts] /\ observed' \in [Requests -> Amounts]
    BY PreparedTypes DEF Prepare
  <2>2. recorded' \subseteq Requests /\ failed' \subseteq Requests
    BY DEF Prepare, IInv, TypeSettlement
  <2>3. completion' \in [Requests -> Completions]
    BY DEF IInv, TypeSettlement
  <2>4. ready' \in BOOLEAN
    BY DEF Prepare
  <2> QED
    BY <2>1, <2>2, <2>3, <2>4 DEF TypeSettlement
<1>2. SUFFICES ASSUME NEW q \in Requests
               PROVE  /\ phase'[q] = "new" => entry'[q] = "none"
                      /\ completion'[q] # NoCompletion => phase'[q] = "done"
                      /\ q \in failed' => completion'[q].kind # "none"
                      /\ completion'[q].kind = "none" => completion'[q] = NoCompletion
                      /\ q \in recorded' => completion'[q].kind # "none" /\ entry'[q] # "active"
                      /\ entry'[q] \in {"none", "active"} => cost'[q] = 0 /\ observed'[q] = 0
                      /\ entry'[q] = "active" =>
                           \/ phase'[q] = "open" \/ q \in failed'
                           \/ phase'[q] = "done" /\ completion'[q] = NoCompletion
  <2>1. ready'
    BY DEF Prepare
  <2> QED
    BY <1>1, <1>2, <2>1 DEF IInv, Lifecycle, NothingBeforeRecovery, ActiveIsOwned
<1>3. /\ phase[q] = "new" => entry[q] = "none"
      /\ completion[q] # NoCompletion => phase[q] = "done"
      /\ q \in failed => completion[q].kind # "none"
      /\ completion[q].kind = "none" => completion[q] = NoCompletion
      /\ q \in recorded => completion[q].kind # "none" /\ entry[q] # "active"
      /\ entry[q] \in {"none", "active"} => cost[q] = 0 /\ observed[q] = 0
  BY DEF IInv, Lifecycle
<1>4. ready /\ entry[q] = "active" =>
        phase[q] = "open" \/ q \in failed \/ (phase[q] = "done" /\ completion[q] = NoCompletion)
  BY DEF IInv, ActiveIsOwned
<1>5. recorded' = recorded \cup W /\ failed' = R /\ failed \subseteq W \cup R
  BY DEF Prepare, retries
<1>6. cost'[q] = IF entry[q] = "active" /\ ready /\ q \in W THEN finishCost(completion[q]) ELSE cost[q]
  BY PreparedEntry
<1>7. observed'[q] =
        IF entry[q] = "active" /\ ready /\ q \in W THEN completion[q].tokens ELSE observed[q]
  BY PreparedEntry DEF Prepare
<1>8. finishState(completion[q]) \in {"settled", "pending"}
  BY CompletionTypes DEF IInv, TypeSettlement
<1>9. prepared(W)[q] =
        IF entry[q] # "active" THEN entry[q]
        ELSE IF ~ready THEN "pending"
        ELSE IF q \in W THEN finishState(completion[q]) ELSE "active"
  BY PreparedEntry
<1>10. ~ready => W = {}
  BY DEF IInv, NothingBeforeRecovery
<1>11. NoCompletion.kind = "none"
  BY DEF NoCompletion
<1>12. CASE entry'[q] = prepared(W)[q] /\ phase'[q] = phase[q]
  BY <1>3, <1>4, <1>5, <1>6, <1>7, <1>8, <1>9, <1>10, <1>11, <1>12
<1>13. CASE entry'[q] = prepared(W)[q] /\ phase[q] = "new" /\ phase'[q] = "done"
  BY <1>3, <1>4, <1>5, <1>6, <1>7, <1>8, <1>9, <1>10, <1>11, <1>13
<1>14. CASE entry'[q] = "active" /\ phase[q] = "new" /\ phase'[q] \in {"open", "done"}
  BY <1>3, <1>4, <1>5, <1>6, <1>7, <1>8, <1>9, <1>10, <1>11, <1>14
<1> QED
  BY <1>12, <1>13, <1>14

\* The actions that begin by recovering and retrying.
LEMMA PreparingActions ==
  ASSUME IInv, NEW r \in Requests, Admit(r) \/ AdmitUnseen(r) \/ Refuse(r)
  PROVE  IInv'
<1>1. CASE Admit(r) \/ AdmitUnseen(r)
  <2>1. PICK W \in SUBSET failed, R \in SUBSET failed : Prepare(W, R) /\ Insert(r, W)
    BY <1>1 DEF Admit, AdmitUnseen
  <2>2. /\ phase[r] = "new" /\ completion' = completion
        /\ phase' = [phase EXCEPT ![r] = "open"] \/ phase' = [phase EXCEPT ![r] = "done"]
    BY <1>1 DEF Admit, AdmitUnseen
  <2>3. /\ entry' = [prepared(W) EXCEPT ![r] = "active"] /\ cost' = preparedCost(W)
        /\ prepared(W) \in [Requests -> EntryStates]
    BY <2>1, PreparedTypes DEF Insert
  <2>4. phase \in [Requests -> {"new", "open", "done", "lost"}]
    BY DEF IInv, TypeSettlement
  <2>5. /\ entry' \in [Requests -> EntryStates]
        /\ phase' \in [Requests -> {"new", "open", "done", "lost"}]
    BY <2>2, <2>3, <2>4 DEF EntryStates
  <2>6. \A q \in Requests : \/ entry'[q] = prepared(W)[q] /\ phase'[q] = phase[q]
                            \/ entry'[q] = "active" /\ phase[q] = "new" /\ phase'[q] \in {"open", "done"}
    BY <2>2, <2>3, <2>4
  <2> QED
    BY <2>1, <2>2, <2>3, <2>5, <2>6, PrepareKeeps
<1>2. CASE Refuse(r)
  <2>1. PICK W \in SUBSET failed, R \in SUBSET failed :
          Prepare(W, R) /\ entry' = prepared(W) /\ cost' = preparedCost(W)
    BY <1>2 DEF Refuse
  <2>2. completion' = completion /\ phase[r] = "new" /\ phase' = [phase EXCEPT ![r] = "done"]
    BY <1>2 DEF Refuse
  <2>3. entry' \in [Requests -> EntryStates]
    BY <2>1, PreparedTypes
  <2>4. phase \in [Requests -> {"new", "open", "done", "lost"}]
    BY DEF IInv, TypeSettlement
  <2>5. phase' \in [Requests -> {"new", "open", "done", "lost"}]
    BY <2>2, <2>4
  <2>6. \A q \in Requests : \/ entry'[q] = prepared(W)[q] /\ phase'[q] = phase[q]
                            \/ entry'[q] = prepared(W)[q] /\ phase[q] = "new" /\ phase'[q] = "done"
    BY <2>1, <2>2, <2>4
  <2> QED
    BY <2>1, <2>2, <2>3, <2>5, <2>6, PrepareKeeps
<1> QED
  BY <1>1, <1>2

LEMMA PagePrepares ==
  ASSUME IInv, PrepareAllocations
  PROVE  IInv'
<1>1. PICK W \in SUBSET failed, R \in SUBSET failed :
        Prepare(W, R) /\ entry' = prepared(W) /\ cost' = preparedCost(W)
  BY DEF PrepareAllocations
<1>2. completion' = completion /\ phase' = phase
  BY DEF PrepareAllocations
<1>3. /\ entry' \in [Requests -> EntryStates]
      /\ phase' \in [Requests -> {"new", "open", "done", "lost"}]
  BY <1>1, <1>2, PreparedTypes DEF IInv, TypeSettlement
<1> QED
  BY <1>1, <1>2, <1>3, PrepareKeeps

\* What a finishing request does to the table: it writes its own active entry
\* or leaves the table alone, and is remembered when the write was not seen.
LEMMA FinishEffect ==
  ASSUME IInv, NEW r \in Requests, Finish(r)
  PROVE  \E c \in Outcomes, W \in SUBSET {r} :
           /\ completion' = [completion EXCEPT ![r] = c]
           /\ entry' = [entry EXCEPT ![r] = IF r \in W /\ entry[r] = "active"
                                            THEN finishState(c) ELSE entry[r]]
           /\ cost' = [cost EXCEPT ![r] = IF r \in W /\ entry[r] = "active"
                                          THEN finishCost(c) ELSE cost[r]]
           /\ observed' = [observed EXCEPT ![r] = IF r \in W /\ entry[r] = "active"
                                                  THEN c.tokens ELSE observed[r]]
           /\ recorded' = recorded \cup W
           /\ (W = {r} /\ failed' = failed) \/ failed' = failed \cup {r}
<1>1. PICK c \in Outcomes : completion' = [completion EXCEPT ![r] = c]
  BY DEF Finish
<1>2. PICK W \in SUBSET {r} :
        /\ entry' = stateAfter(entry, W, completion')
        /\ cost' = costAfter(entry, W, completion')
        /\ observed' = observedAfter(entry, W, completion')
        /\ recorded' = recorded \cup W
        /\ (W = {r} /\ failed' = failed) \/ failed' = failed \cup {r}
  BY DEF Finish
<1>3. completion'[r] = c
  BY <1>1 DEF IInv, TypeSettlement
<1>4. writes(entry, r) <=> entry[r] = "active"
  BY DEF writes, IInv, Lifecycle
<1>5. /\ entry \in [Requests -> EntryStates] /\ cost \in [Requests -> Amounts]
      /\ observed \in [Requests -> Amounts]
  BY DEF IInv, TypeSettlement
<1>6. \A q \in Requests : q \in W => q = r
  OBVIOUS
<1>7. entry' = [entry EXCEPT ![r] = IF r \in W /\ entry[r] = "active"
                                    THEN finishState(c) ELSE entry[r]]
  BY <1>2, <1>3, <1>4, <1>5, <1>6 DEF stateAfter
<1>8. cost' = [cost EXCEPT ![r] = IF r \in W /\ entry[r] = "active"
                                  THEN finishCost(c) ELSE cost[r]]
  BY <1>2, <1>3, <1>4, <1>5, <1>6 DEF costAfter
<1>9. observed' = [observed EXCEPT ![r] = IF r \in W /\ entry[r] = "active"
                                          THEN c.tokens ELSE observed[r]]
  BY <1>2, <1>3, <1>4, <1>5, <1>6 DEF observedAfter
<1> QED
  BY <1>1, <1>2, <1>7, <1>8, <1>9

LEMMA FinishKeeps ==
  ASSUME IInv, NEW r \in Requests, Finish(r)
  PROVE  IInv'
<1>1. PICK c \in Outcomes, W \in SUBSET {r} :
        /\ completion' = [completion EXCEPT ![r] = c]
        /\ entry' = [entry EXCEPT ![r] = IF r \in W /\ entry[r] = "active"
                                         THEN finishState(c) ELSE entry[r]]
        /\ cost' = [cost EXCEPT ![r] = IF r \in W /\ entry[r] = "active"
                                       THEN finishCost(c) ELSE cost[r]]
        /\ observed' = [observed EXCEPT ![r] = IF r \in W /\ entry[r] = "active"
                                               THEN c.tokens ELSE observed[r]]
        /\ recorded' = recorded \cup W
        /\ (W = {r} /\ failed' = failed) \/ failed' = failed \cup {r}
  BY FinishEffect
<1>2. phase[r] = "open" /\ phase' = [phase EXCEPT ![r] = "done"] /\ ready' = ready
  BY DEF Finish
<1>3. /\ c \in Completions /\ c.kind # "none" /\ c.tokens \in Amounts
      /\ finishState(c) \in {"settled", "pending"} /\ finishCost(c) \in Amounts
  BY OutcomeTypes
<1>4. TypeSettlement
  BY DEF IInv
<1>5. ready
  BY <1>2 DEF IInv, NothingBeforeRecovery
<1>6. TypeSettlement'
  BY <1>1, <1>2, <1>3, <1>4 DEF TypeSettlement, EntryStates
<1>7. Lifecycle'
  <2> SUFFICES ASSUME NEW q \in Requests
               PROVE  /\ phase'[q] = "new" => entry'[q] = "none"
                      /\ completion'[q] # NoCompletion => phase'[q] = "done"
                      /\ q \in failed' => completion'[q].kind # "none"
                      /\ completion'[q].kind = "none" => completion'[q] = NoCompletion
                      /\ q \in recorded' => completion'[q].kind # "none" /\ entry'[q] # "active"
                      /\ entry'[q] \in {"none", "active"} => cost'[q] = 0 /\ observed'[q] = 0
    BY DEF Lifecycle
  <2>1. /\ phase[q] = "new" => entry[q] = "none"
        /\ completion[q] # NoCompletion => phase[q] = "done"
        /\ q \in failed => completion[q].kind # "none"
        /\ completion[q].kind = "none" => completion[q] = NoCompletion
        /\ q \in recorded => completion[q].kind # "none" /\ entry[q] # "active"
        /\ entry[q] \in {"none", "active"} => cost[q] = 0 /\ observed[q] = 0
    BY DEF IInv, Lifecycle
  <2>2. CASE q = r
    BY <1>1, <1>2, <1>3, <1>4, <2>1, <2>2 DEF TypeSettlement
  <2>3. CASE q # r
    BY <1>1, <1>2, <1>4, <2>1, <2>3 DEF TypeSettlement
  <2> QED
    BY <2>2, <2>3
<1>8. NothingBeforeRecovery' /\ ActiveIsOwned'
  <2> SUFFICES ASSUME NEW q \in Requests, entry'[q] = "active"
               PROVE  \/ phase'[q] = "open" \/ q \in failed'
                      \/ phase'[q] = "done" /\ completion'[q] = NoCompletion
    BY <1>2, <1>5 DEF NothingBeforeRecovery, ActiveIsOwned
  <2>1. CASE q = r
    BY <1>1, <1>3, <1>4, <2>1 DEF TypeSettlement
  <2>2. CASE q # r
    BY <1>1, <1>2, <1>4, <1>5, <2>2 DEF TypeSettlement, IInv, ActiveIsOwned
  <2> QED
    BY <2>1, <2>2
<1> QED
  BY <1>6, <1>7, <1>8 DEF IInv

\* A correction and a batch of cleanup touch entries nobody owns any more.
LEMMA SettleKeeps ==
  ASSUME IInv, NEW r \in Requests, Settle(r)
  PROVE  IInv'
<1>1. PICK n \in Amounts : /\ entry[r] = "pending"
                           /\ cost' = [cost EXCEPT ![r] = n]
                           /\ observed' = [observed EXCEPT ![r] = n]
  BY DEF Settle, correctable
<1>2. /\ entry' = [entry EXCEPT ![r] = "corrected"]
      /\ UNCHANGED <<recorded, phase, completion, failed, ready>>
  BY DEF Settle
<1>3. TypeSettlement'
  BY <1>1, <1>2 DEF IInv, TypeSettlement, EntryStates
<1>4. Lifecycle'
  BY <1>1, <1>2 DEF IInv, TypeSettlement, Lifecycle
<1>5. NothingBeforeRecovery' /\ ActiveIsOwned'
  BY <1>2 DEF IInv, TypeSettlement, NothingBeforeRecovery, ActiveIsOwned
<1> QED
  BY <1>3, <1>4, <1>5 DEF IInv

LEMMA PruneKeeps ==
  ASSUME IInv, Prune
  PROVE  IInv'
<1>1. PICK S \in SUBSET Requests :
        /\ \A r \in S : entry[r] \in {"settled", "corrected"}
        /\ entry' = [r \in Requests |-> IF r \in S THEN "pruned" ELSE entry[r]]
  BY DEF Prune, prunable, Settled
<1>2. UNCHANGED <<observed, cost, recorded, phase, completion, failed, ready>>
  BY DEF Prune
<1>3. TypeSettlement'
  BY <1>1, <1>2 DEF IInv, TypeSettlement, EntryStates
<1>4. Lifecycle'
  BY <1>1, <1>2 DEF IInv, TypeSettlement, Lifecycle
<1>5. NothingBeforeRecovery' /\ ActiveIsOwned'
  BY <1>1, <1>2 DEF IInv, TypeSettlement, NothingBeforeRecovery, ActiveIsOwned
<1> QED
  BY <1>3, <1>4, <1>5 DEF IInv

LEMMA CrashKeeps ==
  ASSUME IInv, Crash
  PROVE  IInv'
<1>1. /\ phase' = [r \in Requests |-> IF phase[r] = "open" THEN "lost" ELSE phase[r]]
      /\ failed' = {} /\ ready' = FALSE
      /\ UNCHANGED <<entry, observed, cost, recorded, completion>>
  BY DEF Crash, table
<1>2. TypeSettlement'
  BY <1>1 DEF IInv, TypeSettlement
<1>3. Lifecycle'
  BY <1>1 DEF IInv, TypeSettlement, Lifecycle
<1>4. NothingBeforeRecovery' /\ ActiveIsOwned'
  BY <1>1 DEF IInv, TypeSettlement, NothingBeforeRecovery, ActiveIsOwned
<1> QED
  BY <1>2, <1>3, <1>4 DEF IInv

\* Edits of the members, the clock and stuttering leave settlement alone.
LEMMA QuietKeeps ==
  ASSUME IInv, UpdateMembers \/ Tick \/ UNCHANGED vars
  PROVE  IInv'
<1>1. UNCHANGED <<entry, observed, cost, recorded, phase, completion, failed, ready>>
  BY DEF UpdateMembers, Tick, vars, table
<1> QED
  BY <1>1 DEF IInv, TypeSettlement, Lifecycle, NothingBeforeRecovery, ActiveIsOwned

LEMMA InitHolds == Init => IInv
<1> SUFFICES ASSUME Init PROVE IInv
  OBVIOUS
<1>1. TypeSettlement
  BY Constants DEF Init, TypeSettlement, EntryStates, Completions, NoCompletion
<1>2. Lifecycle
  BY DEF Init, Lifecycle, NoCompletion
<1>3. NothingBeforeRecovery /\ ActiveIsOwned
  BY DEF Init, NothingBeforeRecovery, ActiveIsOwned
<1> QED
  BY <1>1, <1>2, <1>3 DEF IInv

LEMMA StepKeeps ==
  ASSUME IInv, [Next]_vars
  PROVE  IInv'
<1>1. CASE \E r \in Requests : Admit(r) \/ AdmitUnseen(r) \/ Refuse(r)
  BY <1>1, PreparingActions
<1>2. CASE \E r \in Requests : Finish(r)
  BY <1>2, FinishKeeps
<1>3. CASE \E r \in Requests : Settle(r)
  BY <1>3, SettleKeeps
<1>4. CASE PrepareAllocations
  BY <1>4, PagePrepares
<1>5. CASE Prune
  BY <1>5, PruneKeeps
<1>6. CASE Crash
  BY <1>6, CrashKeeps
<1>7. CASE UpdateMembers \/ Tick \/ UNCHANGED vars
  BY <1>7, QuietKeeps
<1> QED
  BY <1>1, <1>2, <1>3, <1>4, <1>5, <1>6, <1>7 DEF Next, operations


-----------------------------------------------------------------------------
(* Theorems *)

\* IInv is an invariant of every behaviour: requests are reported once, a
\* recorded request has left the active state, and nothing runs or waits for
\* a retry between a start and its recovery.
THEOREM Invariance == Spec => []IInv
<1>1. Init => IInv
  BY InitHolds
<1>2. IInv /\ [Next]_vars => IInv'
  BY StepKeeps
<1> QED
  BY <1>1, <1>2, PTL DEF Spec

\* ensureAllocationsReady and failedSettlements: once recovered, an active
\* entry always has a running request, a settlement waiting to be retried, or
\* a commit its caller did not see.
THEOREM ActiveEntriesOwned == Spec => []ActiveIsOwned
<1>1. IInv => ActiveIsOwned
  BY DEF IInv
<1> QED
  BY <1>1, Invariance, PTL

\* Only an admission makes an entry active.
LEMMA AdmissionSteps ==
  ASSUME IInv, [Next]_vars, NEW r \in Requests, entry[r] = "none", entry'[r] = "active"
  PROVE  Admit(r) \/ AdmitUnseen(r)
<1>1. ASSUME NEW W \in SUBSET failed
      PROVE  prepared(W)[r] # "active"
  BY <1>1, PreparedEntry
<1>2. ASSUME NEW p \in Requests, p # r, Admit(p) \/ AdmitUnseen(p)
      PROVE  FALSE
  <2>1. PICK W \in SUBSET failed, R \in SUBSET failed : Insert(p, W)
    BY <1>2 DEF Admit, AdmitUnseen
  <2>2. prepared(W) \in [Requests -> EntryStates]
    BY PreparedTypes
  <2> QED
    BY <1>1, <1>2, <2>1, <2>2 DEF Insert
<1>3. ASSUME (\E p \in Requests : Refuse(p)) \/ PrepareAllocations
      PROVE  FALSE
  BY <1>1, <1>3 DEF Refuse, PrepareAllocations
<1>4. ASSUME NEW p \in Requests, Finish(p)
      PROVE  FALSE
  <2>1. PICK c \in Outcomes, W \in SUBSET {p} :
          entry' = [entry EXCEPT ![p] = IF p \in W /\ entry[p] = "active"
                                        THEN finishState(c) ELSE entry[p]]
    BY <1>4, FinishEffect
  <2> QED
    BY <2>1 DEF IInv, TypeSettlement
<1>5. ASSUME (\E p \in Requests : Settle(p)) \/ Prune \/ Crash \/ UpdateMembers \/ Tick
               \/ UNCHANGED vars
      PROVE  FALSE
  BY <1>5 DEF Settle, Prune, Crash, UpdateMembers, Tick, vars, table, IInv, TypeSettlement
<1> QED
  BY <1>2, <1>3, <1>4, <1>5 DEF Next, operations

\* The admission rule of prepareAllocation is enough for the comment in
\* finish: an admitted request never overlooks an ended request of its
\* member, whichever writes failed and wherever the process was restarted.
THEOREM AdmissionComplete == Spec => AdmissionSeesCharges
<1>1. ASSUME IInv, [Next]_vars, NEW r \in Requests, NEW q \in Requests,
             entry[r] = "none", entry'[r] = "active", Owner[q] = Owner[r], Ended(q)
      PROVE  entry'[q] # "active"
  <2>1. Admit(r) \/ AdmitUnseen(r)
    BY <1>1, AdmissionSteps
  <2>2. PICK W \in SUBSET failed, R \in SUBSET failed :
          Prepare(W, R) /\ unblocked(r, R) /\ Insert(r, W)
    BY <2>1 DEF Admit, AdmitUnseen
  <2>3. q # r
    BY <1>1, <2>1 DEF Ended, Admit, AdmitUnseen, IInv, Lifecycle
  <2>4. entry'[q] = prepared(W)[q]
    BY <1>1, <2>2, <2>3, PreparedTypes DEF Insert
  <2>5. prepared(W)[q] =
          IF entry[q] # "active" THEN entry[q]
          ELSE IF ~ready THEN "pending"
          ELSE IF q \in W THEN finishState(completion[q]) ELSE "active"
    BY <1>1, PreparedEntry
  <2>6. finishState(completion[q]) # "active"
    BY <1>1, CompletionTypes DEF IInv, TypeSettlement
  <2>7. ready /\ entry[q] = "active" => q \in failed
    BY <1>1 DEF IInv, ActiveIsOwned, Lifecycle, Ended
  <2>8. q \in failed => q \in W
    BY <1>1, <2>2 DEF Prepare, retries, unblocked
  <2> QED
    BY <2>4, <2>5, <2>6, <2>7, <2>8
<1>2. IInv /\ [Next]_vars =>
        [\A r, q \in Requests :
           entry[r] = "none" /\ entry'[r] = "active" /\ Owner[q] = Owner[r] /\ Ended(q)
             => entry'[q] # "active"]_vars
  BY <1>1
<1> QED
  BY <1>2, Invariance, PTL DEF Spec, AdmissionSeesCharges


-----------------------------------------------------------------------------
(* Refinement of the ledger *)

\* The ways one entry moves, in the columns of the table.
Stays(r) == entry'[r] = entry[r] /\ observed'[r] = observed[r] /\ cost'[r] = cost[r]
Reserved(r) == entry[r] = "none" /\ entry'[r] = "active" /\ cost'[r] = 0
Charged(r) ==
  /\ entry[r] = "active" /\ entry'[r] = "settled"
  /\ completion'[r].kind \in {"unbilled", "known"} /\ cost'[r] = completion'[r].tokens
Suspended(r) ==
  /\ entry[r] = "active" /\ entry'[r] = "pending" /\ cost'[r] = 0
  /\ \/ completion'[r].kind = "unknown" /\ observed'[r] = completion'[r].tokens
     \/ observed'[r] = 0
Corrected(r) ==
  /\ entry[r] = "pending" /\ entry'[r] = "corrected"
  /\ cost'[r] \in Amounts /\ cost'[r] >= observed[r]
Pruned(r) ==
  entry[r] \in {"settled", "corrected"} /\ entry'[r] = "pruned" /\ cost'[r] = cost[r]
Moves(r) ==
  Stays(r) \/ Reserved(r) \/ Charged(r) \/ Suspended(r) \/ Corrected(r) \/ Pruned(r)
Reported(r) ==
  \/ completion'[r] = completion[r]
  \/ completion[r] = NoCompletion /\ completion'[r] \in Completions

\* Recovery and retry move each entry as the ledger allows.
LEMMA PreparedMoves ==
  ASSUME IInv, NEW W \in SUBSET failed, NEW R \in SUBSET failed, Prepare(W, R),
         NEW r \in Requests, entry'[r] = prepared(W)[r], cost' = preparedCost(W),
         completion' = completion
  PROVE  Moves(r)
<1>1. entry[r] \in {"none", "active"} => cost[r] = 0 /\ observed[r] = 0
  BY DEF IInv, Lifecycle
<1>2. r \in W => completion[r].kind # "none"
  BY DEF IInv, Lifecycle
<1>3. completion[r] \in Completions
  BY DEF IInv, TypeSettlement
<1>4. completion[r].kind \in {"none", "unbilled", "known", "unknown"}
  BY <1>3 DEF Completions
<1>5. observed'[r] = observedAfter(recoverable, W, completion)[r]
  BY DEF Prepare
<1>6. CASE entry[r] # "active"
  BY <1>5, <1>6, PreparedEntry DEF Moves, Stays
<1>7. CASE entry[r] = "active" /\ ~ready
  BY <1>1, <1>5, <1>7, PreparedEntry DEF Moves, Suspended
<1>8. CASE entry[r] = "active" /\ ready /\ r \notin W
  BY <1>5, <1>8, PreparedEntry DEF Moves, Stays
<1>9. CASE entry[r] = "active" /\ ready /\ r \in W
  <2>1. /\ entry'[r] = finishState(completion[r]) /\ cost'[r] = finishCost(completion[r])
        /\ observed'[r] = completion[r].tokens
    BY <1>5, <1>9, PreparedEntry
  <2>2. CASE completion[r].kind = "unknown"
    BY <1>9, <2>1, <2>2 DEF Moves, Suspended, finishState, finishCost
  <2>3. CASE completion[r].kind \in {"unbilled", "known"}
    BY <1>9, <2>1, <2>3 DEF Moves, Charged, finishState, finishCost
  <2> QED
    BY <1>2, <1>4, <1>9, <2>2, <2>3
<1> QED
  BY <1>6, <1>7, <1>8, <1>9

\* Every step moves every entry as the ledger allows, and reports usage once.
LEMMA EntryMoves ==
  ASSUME IInv, [Next]_vars, NEW r \in Requests
  PROVE  Moves(r) /\ Reported(r)
<1>1. ASSUME NEW p \in Requests, Admit(p) \/ AdmitUnseen(p)
      PROVE  Moves(r) /\ Reported(r)
  <2>1. PICK W \in SUBSET failed, R \in SUBSET failed : Prepare(W, R) /\ Insert(p, W)
    BY <1>1 DEF Admit, AdmitUnseen
  <2>2. phase[p] = "new" /\ completion' = completion
    BY <1>1 DEF Admit, AdmitUnseen
  <2>3. /\ entry' = [prepared(W) EXCEPT ![p] = "active"] /\ cost' = preparedCost(W)
        /\ prepared(W) \in [Requests -> EntryStates]
    BY <2>1, PreparedTypes DEF Insert
  <2>4. CASE r = p
    <3>1. entry[r] = "none" /\ cost[r] = 0
      BY <2>2, <2>4 DEF IInv, Lifecycle
    <3>2. cost'[r] = 0
      BY <2>3, <3>1, PreparedEntry
    <3> QED
      BY <2>2, <2>3, <2>4, <3>1, <3>2 DEF Moves, Reserved, Reported
  <2>5. CASE r # p
    BY <2>1, <2>2, <2>3, <2>5, PreparedMoves DEF Reported
  <2> QED
    BY <2>4, <2>5
<1>2. ASSUME (\E p \in Requests : Refuse(p)) \/ PrepareAllocations
      PROVE  Moves(r) /\ Reported(r)
  <2>1. PICK W \in SUBSET failed, R \in SUBSET failed :
          Prepare(W, R) /\ entry' = prepared(W) /\ cost' = preparedCost(W)
    BY <1>2 DEF Refuse, PrepareAllocations
  <2>2. completion' = completion
    BY <1>2 DEF Refuse, PrepareAllocations
  <2> QED
    BY <2>1, <2>2, PreparedMoves DEF Reported
<1>3. ASSUME NEW p \in Requests, Finish(p)
      PROVE  Moves(r) /\ Reported(r)
  <2>1. PICK c \in Outcomes, W \in SUBSET {p} :
          /\ completion' = [completion EXCEPT ![p] = c]
          /\ entry' = [entry EXCEPT ![p] = IF p \in W /\ entry[p] = "active"
                                           THEN finishState(c) ELSE entry[p]]
          /\ cost' = [cost EXCEPT ![p] = IF p \in W /\ entry[p] = "active"
                                         THEN finishCost(c) ELSE cost[p]]
          /\ observed' = [observed EXCEPT ![p] = IF p \in W /\ entry[p] = "active"
                                                 THEN c.tokens ELSE observed[p]]
    BY <1>3, FinishEffect
  <2>2. TypeSettlement
    BY DEF IInv
  <2>3. completion[p] = NoCompletion
    BY <1>3 DEF Finish, IInv, Lifecycle
  <2>4. c \in Completions /\ c.kind \in {"unbilled", "known", "unknown"}
    BY OutcomeTypes DEF Outcomes
  <2>5. Reported(r)
    BY <2>1, <2>2, <2>3, <2>4 DEF Reported, TypeSettlement
  <2>6. CASE r # p \/ ~(p \in W /\ entry[p] = "active")
    BY <2>1, <2>2, <2>5, <2>6 DEF Moves, Stays, TypeSettlement
  <2>7. CASE r = p /\ p \in W /\ entry[p] = "active"
    <3>1. /\ entry'[r] = finishState(c) /\ cost'[r] = finishCost(c) /\ observed'[r] = c.tokens
          /\ completion'[r] = c
      BY <2>1, <2>2, <2>7 DEF TypeSettlement
    <3>2. CASE c.kind = "unknown"
      BY <2>5, <2>7, <3>1, <3>2 DEF Moves, Suspended, finishState, finishCost
    <3>3. CASE c.kind \in {"unbilled", "known"}
      BY <2>5, <2>7, <3>1, <3>3 DEF Moves, Charged, finishState, finishCost
    <3> QED
      BY <2>4, <3>2, <3>3
  <2> QED
    BY <2>5, <2>6, <2>7
<1>4. ASSUME NEW p \in Requests, Settle(p)
      PROVE  Moves(r) /\ Reported(r)
  <2>1. PICK n \in Amounts : /\ entry[p] = "pending" /\ n >= observed[p]
                             /\ cost' = [cost EXCEPT ![p] = n]
                             /\ observed' = [observed EXCEPT ![p] = n]
    BY <1>4 DEF Settle, correctable
  <2>2. entry' = [entry EXCEPT ![p] = "corrected"] /\ completion' = completion
    BY <1>4 DEF Settle
  <2>3. CASE r = p
    BY <2>1, <2>2, <2>3 DEF Moves, Corrected, Reported, IInv, TypeSettlement
  <2>4. CASE r # p
    BY <2>1, <2>2, <2>4 DEF Moves, Stays, Reported, IInv, TypeSettlement
  <2> QED
    BY <2>3, <2>4
<1>5. ASSUME Prune
      PROVE  Moves(r) /\ Reported(r)
  BY <1>5 DEF Prune, prunable, Settled, Moves, Stays, Pruned, Reported
<1>6. ASSUME Crash \/ UpdateMembers \/ Tick \/ UNCHANGED vars
      PROVE  Moves(r) /\ Reported(r)
  BY <1>6 DEF Crash, UpdateMembers, Tick, vars, table, Moves, Stays, Reported
<1> QED
  BY <1>1, <1>2, <1>3, <1>4, <1>5, <1>6 DEF Next, operations

\* Each way an entry moves is a move of its account.
LEMMA MovesMap ==
  ASSUME NEW r \in Requests, IInv, IInv', Moves(r), Reported(r)
  PROVE  ledger!Report(r) /\ ledger!Move(r)
<1>1. completion[r] \in Completions /\ completion'[r] \in Completions
  BY DEF IInv, TypeSettlement
<1>2. ledger!Report(r)
  <2>1. ledgerUsage(r)' \in ledger!Usages
    BY <1>1 DEF ledgerUsage, ledger!Usages, Completions
  <2>2. completion'[r] = completion[r] => ledgerUsage(r)' = ledgerUsage(r)
    BY DEF ledgerUsage
  <2>3. completion[r] = NoCompletion => ledgerUsage(r) = ledger!NoUsage
    BY DEF ledgerUsage, NoCompletion, ledger!NoUsage
  <2> QED
    BY <2>1, <2>2, <2>3 DEF Reported, ledger!Report
<1>3. CASE Stays(r)
  BY <1>2, <1>3 DEF Stays, ledger!Move, ledger!Keep
<1>4. CASE Reserved(r)
  BY <1>2, <1>4 DEF Reserved, ledger!Move, ledger!Reserve
<1>5. CASE Charged(r)
  BY <1>1, <1>2, <1>5 DEF Charged, ledgerUsage, ledger!Move, ledger!Charge
<1>6. CASE Suspended(r)
  BY <1>1, <1>2, <1>6 DEF Suspended, ledgerUsage, ledger!Move, ledger!Suspend
<1>7. CASE Corrected(r)
  BY <1>2, <1>7 DEF Corrected, ledger!Move, ledger!Correct
<1>8. CASE Pruned(r)
  BY <1>2, <1>8 DEF Pruned, ledger!Move, ledger!Forget
<1> QED
  BY <1>2, <1>3, <1>4, <1>5, <1>6, <1>7, <1>8 DEF Moves

\* Settlement implements the ledger: every request is reserved once and
\* charged at most once, by what it reported, whatever writes fail or are
\* retried and whenever the process restarts; what it could not report is
\* charged by a correction only, and only charged entries are deleted.
THEOREM SettlementImplementsLedger == Spec => LedgerKept
<1>1. Init => ledger!Init
  BY DEF Init, ledger!Init, ledgerUsage, NoCompletion, ledger!NoUsage
<1>2. IInv /\ IInv' /\ [Next]_vars => [ledger!Next]_(ledger!vars)
  BY EntryMoves, MovesMap DEF ledger!Next
<1> QED
  BY <1>1, <1>2, Invariance, PTL DEF Spec, LedgerKept, ledger!Spec

-----------------------------------------------------------------------------
(* Sums and greatest elements *)

\* The units of f are the pairs of an argument and a number up to its value.
LEMMA UnitsAre ==
  ASSUME NEW S, NEW f \in [S -> Nat]
  PROVE  /\ \A x, i : <<x, i>> \in units(f) <=> x \in S /\ i \in 1..f[x]
         /\ \A u \in units(f) : u = <<u[1], u[2]>>
  BY DEF units

\* A sum over a finite set is a number.
LEMMA UnitsFinite ==
  ASSUME NEW S, IsFiniteSet(S), NEW f \in [S -> Nat]
  PROVE  IsFiniteSet(units(f)) /\ sumOf(f) \in Nat
  <1> DEFINE of(x) == {x} \X (1..f[x])
             all == {of(x) : x \in S}
  <1>1. IsFiniteSet(all)
    <2> DEFINE F == [x \in S |-> of(x)]
    <2>1. F \in Surjection(S, all)
      BY DEF Surjection
    <2> QED
      BY <2>1, FS_Surjection
  <1>2. ASSUME NEW x \in S PROVE IsFiniteSet(of(x))
    <2>1. IsFiniteSet(1..f[x])
      BY FS_Interval
    <2> QED
      BY <2>1, FS_Singleton, FS_Product
  <1>3. units(f) = UNION all
    BY DEF units
  <1> HIDE DEF of
  <1>4. \A T \in all : IsFiniteSet(T)
    BY <1>2
  <1>5. IsFiniteSet(UNION all)
    BY <1>1, <1>4, FS_UNION
  <1> QED
    BY <1>3, <1>5, FS_CardinalityType DEF sumOf

\* A sum over less, or of less, is no greater.
LEMMA SumMonotone ==
  ASSUME NEW S, IsFiniteSet(S), NEW g \in [S -> Nat], NEW T, NEW f \in [T -> Nat],
         \A x \in T : f[x] = 0 \/ (x \in S /\ f[x] <= g[x])
  PROVE  sumOf(f) \in Nat /\ sumOf(f) <= sumOf(g)
  <1>1. units(f) \subseteq units(g)
    <2> SUFFICES ASSUME NEW u \in units(f) PROVE u \in units(g)
      OBVIOUS
    <2>1. PICK x \in T, i \in Nat : i \in 1..f[x] /\ u = <<x, i>>
      BY UnitsAre
    <2>2. x \in S /\ i \in 1..g[x]
      BY <2>1
    <2> QED
      BY <2>1, <2>2, UnitsAre
  <1> QED
    BY <1>1, UnitsFinite, FS_Subset, FS_CardinalityType DEF sumOf

\* A sum whose terms are covered by two others is no greater than theirs together.
LEMMA SumSplit ==
  ASSUME NEW S, IsFiniteSet(S), NEW T, IsFiniteSet(T),
         NEW f \in [S -> Nat], NEW g \in [T -> Nat], NEW U, NEW h \in [U -> Nat],
         \A x \in U : h[x] = 0 \/ (x \in S /\ h[x] <= f[x]) \/ (x \in T /\ h[x] <= g[x])
  PROVE  sumOf(h) <= sumOf(f) + sumOf(g)
  <1>1. units(h) \subseteq units(f) \cup units(g)
    <2> SUFFICES ASSUME NEW u \in units(h) PROVE u \in units(f) \/ u \in units(g)
      OBVIOUS
    <2>1. PICK x \in U, i \in Nat : i \in 1..h[x] /\ u = <<x, i>>
      BY UnitsAre
    <2>2. (x \in S /\ i \in 1..f[x]) \/ (x \in T /\ i \in 1..g[x])
      BY <2>1
    <2> QED
      BY <2>1, <2>2, UnitsAre
  <1>2. IsFiniteSet(units(f)) /\ IsFiniteSet(units(g))
    BY UnitsFinite
  <1>3. /\ IsFiniteSet(units(f) \cup units(g))
        /\ Cardinality(units(f) \cup units(g)) =
             Cardinality(units(f)) + Cardinality(units(g)) - Cardinality(units(f) \cap units(g))
    BY <1>2, FS_Union
  <1>4. Cardinality(units(f) \cap units(g)) \in Nat
    BY <1>2, FS_Intersection, FS_CardinalityType
  <1>5. Cardinality(units(h)) <= Cardinality(units(f) \cup units(g))
    BY <1>1, <1>3, FS_Subset
  <1>6. Cardinality(units(f)) \in Nat /\ Cardinality(units(g)) \in Nat
    BY <1>2, FS_CardinalityType
  <1>7. Cardinality(units(h)) \in Nat
    BY <1>1, <1>3, FS_Subset, FS_CardinalityType
  <1> QED
    BY <1>3, <1>4, <1>5, <1>6, <1>7 DEF sumOf

\* A sum over one argument is its value.
LEMMA SumOfOne ==
  ASSUME NEW x, NEW n \in Nat
  PROVE  sumOf([y \in {x} |-> n]) = n
  <1>1. units([y \in {x} |-> n]) = {x} \X (1..n)
    BY DEF units
  <1>2. IsFiniteSet({x}) /\ Cardinality({x}) = 1
    BY FS_Singleton
  <1>3. IsFiniteSet(1..n) /\ Cardinality(1..n) = n
    BY FS_Interval
  <1>4. Cardinality({x} \X (1..n)) = Cardinality({x}) * Cardinality(1..n)
    BY <1>2, <1>3, FS_Product
  <1>5. Cardinality({x} \X (1..n)) = n
    BY <1>2, <1>3, <1>4
  <1> QED
    BY <1>1, <1>5, Zenon DEF sumOf

\* A finite set of numbers that is not empty has a greatest element.
LEMMA FiniteMax ==
  ASSUME NEW S \in SUBSET Int, IsFiniteSet(S), S # {}
  PROVE  \E x \in S : \A y \in S : x >= y
  <1> DEFINE hasMax(T) == \E x \in T : \A y \in T : x >= y
             R == StrictSubsetOrdering(S)
             bad == {T \in FiniteSubsetsOf(S) : T # {} /\ ~hasMax(T)}
  <1>1. IsWellFoundedOn(R, FiniteSubsetsOf(S))
    BY FS_StrictSubsetOrderingWellFounded
  <1>2. SUFFICES bad = {}
    BY <1>2 DEF FiniteSubsetsOf
  <1>3. SUFFICES ASSUME bad # {} PROVE FALSE
    OBVIOUS
  <1>4. PICK T \in bad : \A U \in bad : ~(<<U, T>> \in R)
    <2>1. bad \subseteq FiniteSubsetsOf(S)
      OBVIOUS
    <2> HIDE DEF bad, R
    <2> QED
      BY <1>1, <1>3, <2>1, WFMin
  <1>5. PICK x \in T : TRUE
    OBVIOUS
  <1>6. T \in SUBSET S /\ IsFiniteSet(T) /\ ~hasMax(T)
    BY DEF FiniteSubsetsOf
  <1>7. IsFiniteSet(T \ {x})
    BY <1>6, FS_RemoveElement
  <1>8. T \ {x} # {}
    BY <1>5, <1>6
  <1>9. <<T \ {x}, T>> \in R
    BY <1>5, <1>6 DEF StrictSubsetOrdering
  <1>10. hasMax(T \ {x})
    BY <1>4, <1>6, <1>7, <1>8, <1>9 DEF FiniteSubsetsOf
  <1>11. PICK z \in T \ {x} : \A y \in T \ {x} : z >= y
    BY <1>10
  <1>12. x \in Int /\ z \in Int /\ T \subseteq Int
    BY <1>5, <1>6, <1>11
  <1>13. IF z >= x THEN \A y \in T : z >= y ELSE \A y \in T : x >= y
    BY <1>11, <1>12
  <1> QED
    BY <1>5, <1>6, <1>11, <1>13

-----------------------------------------------------------------------------
(* Windows *)

\* The multiples of d cut time in windows: a time is in one of them.
LEMMA OneWindow ==
  ASSUME NEW t \in Nat, NEW d \in Nat \ {0}
  PROVE  /\ t \div d \in Nat
         /\ (t \div d) * d \in Nat
         /\ (t \div d) * d <= t /\ t < (t \div d) * d + d
  OBVIOUS

\* ... and in no other.
LEMMA SameWindow ==
  ASSUME NEW t \in Nat, NEW d \in Nat \ {0}, NEW q \in Nat, q * d <= t, t < q * d + d
  PROVE  t \div d = q
  <1> DEFINE p == t \div d
  <1>1. p \in Nat /\ p * d <= t /\ t < p * d + d
    BY OneWindow
  <1> HIDE DEF p
  <1>2. ASSUME NEW a \in Nat, NEW b \in Nat, a + 1 <= b PROVE a * d + d <= b * d
    <2>1. PICK k \in Nat : b = a + 1 + k
      BY <1>2, b - a - 1 \in Nat
    <2>2. b * d = a * d + d + k * d
      BY <2>1
    <2>3. k * d \in Nat /\ a * d \in Nat
      OBVIOUS
    <2> QED
      BY <2>2, <2>3
  <1>3. ~(p + 1 <= q)
    BY <1>1, <1>2
  <1>4. ~(q + 1 <= p)
    BY <1>1, <1>2
  <1>5. p = q
    BY <1>1, <1>3, <1>4
  <1> QED
    BY <1>5 DEF p

\* What started by now is in the window of a later moment only if it was in the window of now.
LEMMA WindowsMove ==
  ASSUME NEW s \in Nat, NEW t \in Nat, NEW d \in Nat \ {0}, s <= t, ((t + 1) \div d) * d <= s
  PROVE  (t + 1) \div d = t \div d
  <1> DEFINE q == (t + 1) \div d
  <1>1. q \in Nat /\ q * d \in Nat /\ t + 1 < q * d + d
    BY OneWindow, t + 1 \in Nat
  <1>2. q * d <= s
    OBVIOUS
  <1> HIDE DEF q
  <1>3. t \div d = q
    BY <1>1, <1>2, SameWindow
  <1> QED
    BY <1>3 DEF q

\* The end of cleanup's window is none of the ends it outlives.
LEMMA LatestEnd ==
  ASSUME now \in Nat
  PROVE  effectiveWindow \in Nat /\ \A d \in Durations : windowEnd(d) <= effectiveWindow
  <1> DEFINE ends == {windowEnd(d) : d \in Durations}
  <1>1. \A d \in Durations : windowEnd(d) \in Nat
    BY SetsAssumption, OneWindow DEF windowEnd, windowStart
  <1>2. IsFiniteSet(ends) /\ ends # {}
    <2> DEFINE F == [d \in Durations |-> windowEnd(d)]
    <2>1. F \in Surjection(Durations, ends)
      BY DEF Surjection
    <2>2. IsFiniteSet(Durations) /\ \E d \in Durations : windowEnd(d) \in ends
      BY SetsAssumption
    <2> HIDE DEF F, ends
    <2>3. ends # {}
      BY <2>2
    <2> QED
      BY <2>1, <2>2, <2>3, FS_Surjection
  <1>3. ends \in SUBSET Int
    BY <1>1
  <1> HIDE DEF ends
  <1>4. \E x \in ends : \A y \in ends : x >= y
    BY <1>2, <1>3, FiniteMax
  <1>5. Max(ends) \in ends /\ \A y \in ends : Max(ends) >= y
    BY <1>4 DEF Max
  <1>6. Max(ends) \in Nat /\ \A d \in Durations : Max(ends) >= windowEnd(d)
    BY <1>1, <1>5 DEF ends
  <1> QED
    BY <1>1, <1>6 DEF effectiveWindow, ends

\* Limits are numbers, and what is reserved of one is at least a unit.
LEMMA LimitTypes ==
  ASSUME NEW c \in Configs, NEW m \in DOMAIN c, NEW d \in Durations
  PROVE  memberLimit(c, m, d) \in Int
  <1>1. c[m][d] \in Int
    BY SetsAssumption DEF Inherit
  <1>2. Total[d] \in Nat
    BY SetsAssumption
  <1>3. Total[d] * c[m][d] \in Int
    BY <1>1, <1>2
  <1>4. (Total[d] * c[m][d]) \div 10000 \in Int
    BY <1>3
  <1> QED
    BY <1>1, <1>2, <1>4 DEF memberLimit

\* A reservation is at least one unit.
LEMMA ReservationType == ASSUME NEW n \in Int PROVE reservation(n) \in Nat /\ reservation(n) >= 1
  <1> DEFINE part == (n + 9) \div 10
  <1>1. part \in Int
    OBVIOUS
  <1> HIDE DEF part
  <1>2. Max({1, part}) \in {1, part} /\ Max({1, part}) >= 1
    <2>1. \E x \in {1, part} : \A y \in {1, part} : x >= y
      BY <1>1
    <2> QED
      BY <1>1, <2>1 DEF Max
  <1>3. Max({1, part}) \in Nat
    BY <1>1, <1>2
  <1> QED
    BY <1>2, <1>3 DEF reservation, part

-----------------------------------------------------------------------------
(* What members spend: the invariant *)

\* What was admitted was admitted for a member of its revision, and is kept for as long as any of its windows.
AdmittedUnder ==
  \A r \in Requests :
    /\ startedAt[r] <= now
    /\ entry[r] # "none" =>
         /\ Owner[r] \in DOMAIN revisions[captured[r]]
         /\ \A d \in Durations : (startedAt[r] \div d) * d + d <= resetAt[r]

PrunedPast == \A r \in Requests : entry[r] = "pruned" => resetAt[r] < now

\* Requests of unlimited members do not count, whatever else the member has running.
limitedOpen(m, d) == {r \in entries(entry, {"active"}, {m}, d) : ~unlimited(capturedLimit(r, d))}
LimitedFew == \A m \in Members, d \in Durations : Cardinality(limitedOpen(m, d)) <= MaxOutstanding

SpendInv == TypeOK /\ AdmittedUnder /\ PrunedPast /\ LimitedFew /\ OvershootBounded /\ GroupOvershootBounded

\* What an admitted request may hold is a number.
LEMMA HoldType ==
  ASSUME TypeOK, AdmittedUnder, NEW r \in Requests, entry[r] # "none", NEW d \in Durations
  PROVE  capturedLimit(r, d) \in Int /\ hold(r, d) \in Nat
  <1>1. revisions[captured[r]] \in Configs
    BY DEF TypeOK
  <1>2. Owner[r] \in DOMAIN revisions[captured[r]]
    BY DEF AdmittedUnder
  <1>3. memberLimit(revisions[captured[r]], Owner[r], d) \in Int
    BY <1>1, <1>2, LimitTypes
  <1> QED
    BY <1>3, ReservationType DEF capturedLimit, hold

\* The lesser of two amounts.
LEMMA MinOfTwo == ASSUME NEW a \in Nat, NEW b \in Nat PROVE Min({a, b}) \in Nat /\ Min({a, b}) <= a /\ Min({a, b}) <= b
  <1>1. \E x \in {a, b} : \A y \in {a, b} : x <= y
    OBVIOUS
  <1> QED
    BY <1>1 DEF Min

\* What an entry takes, by its state.
LEMMA TakenType ==
  ASSUME TypeOK, AdmittedUnder, NEW r \in Requests, NEW d \in Durations
  PROVE  /\ taken(r, d) \in Nat
         /\ entry[r] \in {"active", "settled"} => taken(r, d) <= hold(r, d)
         /\ entry[r] = "active" => taken(r, d) = hold(r, d)
         /\ entry[r] = "settled" => taken(r, d) <= cost[r] /\ taken(r, d) = Min({cost[r], hold(r, d)})
         /\ entry[r] \notin {"active", "settled"} => taken(r, d) = 0
  <1>1. cost[r] \in Nat
    BY SetsAssumption DEF TypeOK, TypeSettlement
  <1>2. CASE entry[r] = "active"
    <2>1. taken(r, d) = hold(r, d)
      BY <1>2 DEF taken
    <2> QED
      BY <1>2, <2>1, HoldType
  <1>3. CASE entry[r] = "settled"
    <2>1. taken(r, d) = Min({cost[r], hold(r, d)})
      BY <1>3 DEF taken
    <2> QED
      BY <1>1, <1>3, <2>1, HoldType, MinOfTwo
  <1>4. CASE entry[r] \notin {"active", "settled"}
    <2>1. taken(r, d) = 0
      BY <1>4 DEF taken
    <2> QED
      BY <1>4, <2>1
  <1> QED
    BY <1>2, <1>3, <1>4

\* The requests that a sum is over, and the sum.
within(users, d) == {q \in Requests : Owner[q] \in users /\ inWindow(q, d)}

\* The sum of what is taken is a sum of numbers over a finite set.
LEMMA TakenByType ==
  ASSUME TypeOK, AdmittedUnder, NEW users, NEW d \in Durations
  PROVE  /\ [r \in within(users, d) |-> taken(r, d)] \in [within(users, d) -> Nat]
         /\ IsFiniteSet(within(users, d))
         /\ takenBy(users, d) = sumOf([r \in within(users, d) |-> taken(r, d)])
         /\ takenBy(users, d) \in Nat
  <1>1. [r \in within(users, d) |-> taken(r, d)] \in [within(users, d) -> Nat]
    BY TakenType DEF within
  <1>2. IsFiniteSet(within(users, d))
    BY SetsAssumption, FS_Subset DEF within
  <1>3. takenBy(users, d) = sumOf([r \in within(users, d) |-> taken(r, d)])
    BY DEF takenBy, within
  <1> HIDE DEF within
  <1>4. sumOf([r \in within(users, d) |-> taken(r, d)]) \in Nat
    BY <1>1, <1>2, UnitsFinite
  <1> QED
    BY <1>1, <1>2, <1>3, <1>4

\* The same of every sum, to say it of the next state.
TakenFine ==
  \A users \in SUBSET Members, d \in Durations :
    /\ \A r \in Requests :
         /\ taken(r, d) \in Nat
         /\ entry[r] \in {"active", "settled"} => taken(r, d) <= hold(r, d) /\ hold(r, d) \in Nat
         /\ entry[r] = "active" => taken(r, d) = hold(r, d)
         /\ entry[r] = "settled" => taken(r, d) <= cost[r] /\ taken(r, d) = Min({cost[r], hold(r, d)})
         /\ entry[r] \notin {"active", "settled"} => taken(r, d) = 0
    /\ [r \in within(users, d) |-> taken(r, d)] \in [within(users, d) -> Nat]
    /\ IsFiniteSet(within(users, d))
    /\ takenBy(users, d) = sumOf([r \in within(users, d) |-> taken(r, d)])
    /\ takenBy(users, d) \in Nat

LEMMA TakenTypes == TypeOK /\ AdmittedUnder => TakenFine
  <1> SUFFICES ASSUME TypeOK, AdmittedUnder, NEW users \in SUBSET Members, NEW d \in Durations
               PROVE  /\ \A r \in Requests :
                           /\ taken(r, d) \in Nat
                           /\ entry[r] \in {"active", "settled"} => taken(r, d) <= hold(r, d) /\ hold(r, d) \in Nat
                           /\ entry[r] = "active" => taken(r, d) = hold(r, d)
                           /\ entry[r] = "settled" => taken(r, d) <= cost[r] /\ taken(r, d) = Min({cost[r], hold(r, d)})
                           /\ entry[r] \notin {"active", "settled"} => taken(r, d) = 0
                      /\ [r \in within(users, d) |-> taken(r, d)] \in [within(users, d) -> Nat]
                      /\ IsFiniteSet(within(users, d))
                      /\ takenBy(users, d) = sumOf([r \in within(users, d) |-> taken(r, d)])
                      /\ takenBy(users, d) \in Nat
    BY DEF TakenFine
  <1>1. ASSUME NEW r \in Requests
        PROVE  /\ taken(r, d) \in Nat
               /\ entry[r] \in {"active", "settled"} => taken(r, d) <= hold(r, d) /\ hold(r, d) \in Nat
               /\ entry[r] = "active" => taken(r, d) = hold(r, d)
               /\ entry[r] = "settled" => taken(r, d) <= cost[r] /\ taken(r, d) = Min({cost[r], hold(r, d)})
               /\ entry[r] \notin {"active", "settled"} => taken(r, d) = 0
    BY <1>1, TakenType, HoldType
  <1> QED
    BY <1>1, TakenByType

LEMMA TakenTypesNext == TypeOK' /\ AdmittedUnder' => TakenFine'
  BY TakenTypes, PTL

\* What is taken falls, when each request either takes no more than it did or nothing.
LEMMA TakenFalls ==
  ASSUME TypeOK, AdmittedUnder, TypeOK', AdmittedUnder', NEW users \in SUBSET Members, NEW d \in Durations,
         \A r \in Requests : Owner[r] \in users /\ inWindow(r, d)' =>
           taken(r, d)' = 0 \/ (inWindow(r, d) /\ taken(r, d)' <= taken(r, d))
  PROVE  takenBy(users, d)' <= takenBy(users, d)
  <1> DEFINE S == within(users, d)
             g == [r \in S |-> taken(r, d)]
             T == within(users, d)'
             f == [r \in T |-> taken(r, d)']
  <1>1. g \in [S -> Nat] /\ IsFiniteSet(S) /\ takenBy(users, d) = sumOf(g)
    BY TakenTypes DEF TakenFine
  <1>2. f \in [T -> Nat] /\ takenBy(users, d)' = sumOf(f)
    BY TakenTypesNext DEF TakenFine
  <1>3. \A x \in T : f[x] = 0 \/ (x \in S /\ f[x] <= g[x])
    BY DEF within
  <1> HIDE DEF S, T, f, g
  <1>4. sumOf(f) <= sumOf(g)
    BY <1>1, <1>2, <1>3, SumMonotone
  <1> QED
    BY <1>1, <1>2, <1>4

-----------------------------------------------------------------------------
(* What members spend: the steps *)

Admits(r) == Admit(r) \/ AdmitUnseen(r)

\* The clock and the revisions go on.
Onwards ==
  /\ now' \in {now, now + 1}
  /\ revisions' \in Seq(Configs) /\ Len(revisions) <= Len(revisions')
  /\ \A i \in 1..Len(revisions) : revisions'[i] = revisions[i]

\* Time and revisions only go on.
LEMMA RevisionsGoOn ==
  ASSUME TypeOK, [Next]_vars
  PROVE  Onwards
  <1>1. CASE UpdateMembers
    <2>1. PICK c \in Configs : revisions' = Append(revisions, c)
      BY <1>1 DEF UpdateMembers
    <2>2. revisions \in Seq(Configs)
      BY DEF TypeOK
    <2>3. now' = now
      BY <1>1 DEF UpdateMembers
    <2> QED
      BY <2>1, <2>2, <2>3 DEF Onwards
  <1>2. CASE Tick
    BY <1>2 DEF Tick, Onwards, TypeOK
  <1>3. CASE UNCHANGED <<now, revisions>>
    BY <1>3 DEF Onwards, TypeOK
  <1> QED
    BY <1>1, <1>2, <1>3 DEF Next, operations, Admit, AdmitUnseen, Refuse, Finish, Settle, PrepareAllocations, Prune, Crash, vars

\* Steps that admit nothing leave what was admitted as it was.
LEMMA NothingAdmitted ==
  ASSUME IInv, [Next]_vars, ~\E r \in Requests : Admits(r)
  PROVE  /\ UNCHANGED <<captured, startedAt, resetAt>>
         /\ \A r \in Requests : entry'[r] # "none" => entry[r] # "none"
  <1>1. UNCHANGED <<captured, startedAt, resetAt>>
    BY DEF Next, operations, Admits, Refuse, Finish, Settle, PrepareAllocations, UpdateMembers, Prune, Crash, Tick, vars, table
  <1>2. ASSUME NEW r \in Requests, entry'[r] # "none", entry[r] = "none" PROVE FALSE
    <2>1. entry'[r] = "active"
      BY <1>2, EntryMoves DEF Moves, Stays, Reserved, Charged, Suspended, Corrected, Pruned
    <2> QED
      BY <1>2, <2>1, AdmissionSteps DEF Admits
  <1> QED
    BY <1>1, <1>2

\* An admission: one entry more, after the retries.
LEMMA OneAdmitted ==
  ASSUME IInv, NEW p \in Requests, Admits(p)
  PROVE  \E W \in SUBSET failed :
           /\ Check(prepared(W), preparedCost(W), Owner[p]) /\ Insert(p, W)
           /\ entry[p] = "none" /\ UNCHANGED <<now, revisions>>
  <1>1. PICK W \in SUBSET failed, R \in SUBSET failed : Check(prepared(W), preparedCost(W), Owner[p]) /\ Insert(p, W)
    BY DEF Admits, Admit, AdmitUnseen
  <1>2. phase[p] = "new" /\ UNCHANGED <<now, revisions>>
    BY DEF Admits, Admit, AdmitUnseen
  <1>3. entry[p] = "none"
    BY <1>2 DEF IInv, Lifecycle
  <1> QED
    BY <1>1, <1>2, <1>3

\* Only a batch of cleanup prunes, and only what is past.
LEMMA PrunedIsPast ==
  ASSUME IInv, TypeOK, [Next]_vars, NEW r \in Requests, entry'[r] = "pruned", entry[r] # "pruned"
  PROVE  resetAt[r] < now /\ UNCHANGED <<now, resetAt>>
  <1>1. ASSUME NEW W \in SUBSET failed PROVE prepared(W)[r] # "pruned"
    <2>1. finishState(completion[r]) \in {"settled", "pending"}
      BY CompletionTypes DEF IInv, TypeSettlement
    <2> QED
      BY <1>1, <2>1, PreparedEntry
  <1>2. ASSUME NEW p \in Requests, Admits(p) PROVE FALSE
    <2>1. PICK W \in SUBSET failed : Insert(p, W)
      BY <1>2, OneAdmitted
    <2>2. prepared(W) \in [Requests -> EntryStates]
      BY PreparedTypes
    <2> QED
      BY <1>1, <2>1, <2>2 DEF Insert
  <1>3. ASSUME (\E p \in Requests : Refuse(p)) \/ PrepareAllocations PROVE FALSE
    BY <1>1, <1>3 DEF Refuse, PrepareAllocations
  <1>4. ASSUME NEW p \in Requests, Finish(p) PROVE FALSE
    <2>1. PICK c \in Outcomes, W \in SUBSET {p} :
            entry' = [entry EXCEPT ![p] = IF p \in W /\ entry[p] = "active" THEN finishState(c) ELSE entry[p]]
      BY <1>4, FinishEffect
    <2>2. finishState(c) \in {"settled", "pending"}
      BY OutcomeTypes
    <2> QED
      BY <2>1, <2>2 DEF IInv, TypeSettlement
  <1>5. ASSUME (\E p \in Requests : Settle(p)) \/ Crash \/ UpdateMembers \/ Tick \/ UNCHANGED vars PROVE FALSE
    BY <1>5 DEF Settle, Crash, UpdateMembers, Tick, vars, table, IInv, TypeSettlement
  <1>6. CASE Prune
    <2>1. prunable(r) /\ UNCHANGED <<now, resetAt>>
      BY <1>6 DEF Prune
    <2>2. resetAt[r] \in Nat /\ now \in Nat /\ Retention \in Nat
      BY BoundsAssumption DEF TypeOK
    <2> QED
      BY <2>1, <2>2 DEF prunable
  <1> QED
    BY <1>2, <1>3, <1>4, <1>5, <1>6 DEF Next, operations, Admits

\* Types are kept.
LEMMA TypesStep ==
  ASSUME IInv, IInv', TypeOK, [Next]_vars
  PROVE  TypeOK'
  <1>1. Onwards
    BY RevisionsGoOn
  <1>2. now' \in Nat /\ revisions' \in Seq(Configs) /\ Len(revisions') > 0 /\ Len(revisions) \in 1..Len(revisions')
    BY <1>1 DEF Onwards, TypeOK
  <1>3. admin' \in BOOLEAN /\ crashes' \in Nat
    <2>1. admin' = admin \/ admin' \in {FALSE} \/ \E R \in SUBSET failed : admin' = (R = {})
      BY DEF Next, operations, Admit, AdmitUnseen, Refuse, Finish, Settle, PrepareAllocations, UpdateMembers, Prune, Crash, Tick, vars
    <2>2. admin' \in BOOLEAN
      BY <2>1, Zenon DEF TypeOK
    <2>3. crashes' = crashes \/ crashes' = crashes + 1
      BY DEF Next, operations, Admit, AdmitUnseen, Refuse, Finish, Settle, PrepareAllocations, UpdateMembers, Prune, Crash, Tick, vars
    <2> QED
      BY <2>2, <2>3 DEF TypeOK
  <1>4. /\ captured' \in [Requests -> 1..Len(revisions')]
        /\ startedAt' \in [Requests -> Nat] /\ resetAt' \in [Requests -> Nat]
    <2>1. CASE \E p \in Requests : Admits(p)
      <3>1. PICK p \in Requests, W \in SUBSET failed : Insert(p, W) /\ UNCHANGED <<now, revisions>>
        BY <2>1, OneAdmitted
      <3>2. effectiveWindow \in Nat
        BY LatestEnd DEF TypeOK
      <3> QED
        BY <3>1, <3>2, <1>2 DEF Insert, TypeOK
    <2>2. CASE ~\E p \in Requests : Admits(p)
      BY <1>2, <2>2, NothingAdmitted DEF TypeOK
    <2> QED
      BY <2>1, <2>2
  <1> QED
    BY <1>2, <1>3, <1>4 DEF TypeOK, IInv

\* What an entry was admitted under stays what it was.
LEMMA AdmittedUnderStep ==
  ASSUME IInv, TypeOK, AdmittedUnder, [Next]_vars
  PROVE  AdmittedUnder'
  <1>1. Onwards
    BY RevisionsGoOn
  <1>2. now \in Nat /\ \A r \in Requests : startedAt[r] \in Nat /\ captured[r] \in 1..Len(revisions)
    BY DEF TypeOK
  <1>3. CASE \E p \in Requests : Admits(p)
    <2>1. PICK p \in Requests, W \in SUBSET failed :
            /\ Check(prepared(W), preparedCost(W), Owner[p]) /\ Insert(p, W)
            /\ entry[p] = "none" /\ UNCHANGED <<now, revisions>>
      BY <1>3, OneAdmitted
    <2>2. /\ startedAt' = [startedAt EXCEPT ![p] = now] /\ captured' = [captured EXCEPT ![p] = Len(revisions)]
          /\ resetAt' = [resetAt EXCEPT ![p] = effectiveWindow]
          /\ entry' = [prepared(W) EXCEPT ![p] = "active"] /\ prepared(W) \in [Requests -> EntryStates]
      BY <2>1, PreparedTypes DEF Insert
    <2>3. /\ startedAt \in [Requests -> Nat] /\ captured \in [Requests -> 1..Len(revisions)] /\ resetAt \in [Requests -> Nat]
      BY DEF TypeOK
    <2>4. ASSUME NEW r \in Requests, r # p
          PROVE  /\ startedAt'[r] = startedAt[r] /\ captured'[r] = captured[r] /\ resetAt'[r] = resetAt[r]
                 /\ entry'[r] # "none" => entry[r] # "none"
      <3>1. entry'[r] = prepared(W)[r]
        BY <2>2, <2>4
      <3>2. prepared(W)[r] # "none" => entry[r] # "none"
        BY PreparedEntry
      <3> QED
        BY <2>2, <2>3, <2>4, <3>1, <3>2
    <2>5. startedAt'[p] = now /\ captured'[p] = Len(revisions) /\ resetAt'[p] = effectiveWindow
      BY <2>2, <2>3
    <2>6. Owner[p] \in DOMAIN revisions[Len(revisions)]
      BY <2>1 DEF Check, Current
    <2>7. \A d \in Durations : (now \div d) * d + d <= effectiveWindow
      BY <1>2, LatestEnd DEF windowEnd, windowStart
    <2>8. now' = now /\ revisions' = revisions
      BY <2>1
    <2>9. ASSUME NEW r \in Requests
          PROVE  /\ startedAt'[r] <= now'
                 /\ entry'[r] # "none" =>
                      /\ Owner[r] \in DOMAIN revisions'[captured'[r]]
                      /\ \A d \in Durations : (startedAt'[r] \div d) * d + d <= resetAt'[r]
      <3>1. CASE r = p
        BY <1>2, <2>5, <2>6, <2>7, <2>8, <3>1
      <3>2. CASE r # p
        BY <2>4, <2>8, <3>2 DEF AdmittedUnder
      <3> QED
        BY <3>1, <3>2
    <2> QED
      BY <2>9 DEF AdmittedUnder
  <1>4. CASE ~\E p \in Requests : Admits(p)
    <2>1. UNCHANGED <<captured, startedAt, resetAt>> /\ \A r \in Requests : entry'[r] # "none" => entry[r] # "none"
      BY <1>4, NothingAdmitted
    <2>2. \A r \in Requests : startedAt[r] <= now'
      BY <1>1, <1>2 DEF Onwards, AdmittedUnder
    <2>3. \A r \in Requests : revisions'[captured[r]] = revisions[captured[r]]
      BY <1>1, <1>2 DEF Onwards
    <2> QED
      BY <2>1, <2>2, <2>3 DEF AdmittedUnder
  <1> QED
    BY <1>3, <1>4

\* What was deleted stays past.
LEMMA PrunedPastStep ==
  ASSUME IInv, TypeOK, TypeOK', PrunedPast, [Next]_vars
  PROVE  PrunedPast'
  <1> SUFFICES ASSUME NEW r \in Requests, entry'[r] = "pruned" PROVE resetAt'[r] < now'
    BY DEF PrunedPast
  <1>1. CASE entry[r] # "pruned"
    BY <1>1, PrunedIsPast
  <1>2. CASE entry[r] = "pruned"
    <2>1. resetAt[r] < now
      BY <1>2 DEF PrunedPast
    <2>2. resetAt'[r] = resetAt[r]
      <3>1. CASE \E p \in Requests : Admits(p)
        <4>1. PICK p \in Requests, W \in SUBSET failed : Insert(p, W) /\ entry[p] = "none"
          BY <3>1, OneAdmitted
        <4> QED
          BY <1>2, <4>1 DEF Insert, TypeOK
      <3>2. CASE ~\E p \in Requests : Admits(p)
        BY <3>2, NothingAdmitted
      <3> QED
        BY <3>1, <3>2
    <2>3. now' \in {now, now + 1} /\ now \in Nat /\ resetAt[r] \in Nat
      BY RevisionsGoOn DEF Onwards, TypeOK
    <2> QED
      BY <2>1, <2>2, <2>3
  <1> QED
    BY <1>1, <1>2

\* An entry is never deleted while a window counts it.
LEMMA PrunedIsOver == TypeOK /\ AdmittedUnder /\ PrunedPast => PruneKeepsUsage
  <1> SUFFICES ASSUME TypeOK, AdmittedUnder, PrunedPast, NEW r \in Requests, entry[r] = "pruned", NEW d \in Durations, inWindow(r, d)
               PROVE  FALSE
    BY DEF PruneKeepsUsage
  <1>1. startedAt[r] \in Nat /\ now \in Nat /\ resetAt[r] \in Nat /\ d \in Nat \ {0}
    BY SetsAssumption DEF TypeOK
  <1>2. now \div d \in Nat /\ (now \div d) * d \in Nat /\ now < (now \div d) * d + d
    BY <1>1, OneWindow
  <1>3. (now \div d) * d <= startedAt[r] /\ startedAt[r] < (now \div d) * d + d
    BY DEF inWindow, windowStart, windowEnd
  <1>4. startedAt[r] \div d = now \div d
    BY <1>1, <1>2, <1>3, SameWindow
  <1>5. (now \div d) * d + d <= resetAt[r]
    BY <1>4 DEF AdmittedUnder
  <1>6. resetAt[r] < now
    BY DEF PrunedPast
  <1> QED
    BY <1>1, <1>2, <1>5, <1>6

\* Who is in a window of the next moment was in the same window now.
LEMMA WindowKept ==
  ASSUME TypeOK, AdmittedUnder, now' \in {now, now + 1}, NEW r \in Requests, startedAt'[r] = startedAt[r],
         NEW d \in Durations, inWindow(r, d)'
  PROVE  windowStart(d)' = windowStart(d) /\ inWindow(r, d)
  <1>1. startedAt[r] \in Nat /\ now \in Nat /\ d \in Nat \ {0} /\ startedAt[r] <= now
    BY SetsAssumption DEF TypeOK, AdmittedUnder
  <1>2. (now' \div d) * d <= startedAt[r] /\ startedAt[r] < (now' \div d) * d + d
    BY DEF inWindow, windowStart, windowEnd
  <1>3. now' \div d = now \div d
    BY <1>1, <1>2, WindowsMove
  <1> QED
    BY <1>2, <1>3 DEF inWindow, windowStart, windowEnd

\* While it is kept, an entry's limit is that of the revision it was admitted under.
LEMMA LimitKept ==
  ASSUME TypeOK, Onwards, NEW r \in Requests, captured'[r] = captured[r], NEW d \in Durations
  PROVE  capturedLimit(r, d)' = capturedLimit(r, d) /\ hold(r, d)' = hold(r, d)
  <1>1. revisions'[captured'[r]] = revisions[captured[r]]
    BY DEF TypeOK, Onwards
  <1> QED
    BY <1>1 DEF capturedLimit, hold

\* An entry that moves as the ledger allows, and is not new, takes no more than it did.
LEMMA TakesNoMore ==
  ASSUME TypeOK, AdmittedUnder, TypeOK', AdmittedUnder', Onwards,
         NEW r \in Requests, captured'[r] = captured[r], Moves(r), ~Reserved(r), NEW d \in Durations
  PROVE  taken(r, d)' <= taken(r, d)
  <1>1. /\ taken(r, d) \in Nat
        /\ entry[r] \in {"active", "settled"} => taken(r, d) <= hold(r, d) /\ hold(r, d) \in Nat
        /\ entry[r] = "active" => taken(r, d) = hold(r, d)
        /\ entry[r] = "settled" => taken(r, d) = Min({cost[r], hold(r, d)})
    BY TakenTypes DEF TakenFine
  <1>2. /\ taken(r, d)' \in Nat
        /\ entry'[r] \in {"active", "settled"} => taken(r, d)' <= hold(r, d)'
        /\ entry'[r] = "active" => taken(r, d)' = hold(r, d)'
        /\ entry'[r] = "settled" => taken(r, d)' = Min({cost'[r], hold(r, d)'})
        /\ entry'[r] \notin {"active", "settled"} => taken(r, d)' = 0
    BY TakenTypesNext DEF TakenFine
  <1>3. hold(r, d)' = hold(r, d)
    BY LimitKept
  <1>4. CASE entry'[r] = "active"
    <2>1. entry[r] = "active"
      BY <1>4 DEF Moves, Stays, Reserved, Charged, Suspended, Corrected, Pruned
    <2> QED
      BY <1>1, <1>2, <1>3, <1>4, <2>1
  <1>5. CASE entry'[r] = "settled"
    <2>1. (entry[r] = "settled" /\ cost'[r] = cost[r]) \/ entry[r] = "active"
      BY <1>5 DEF Moves, Stays, Reserved, Charged, Suspended, Corrected, Pruned
    <2>2. CASE entry[r] = "settled" /\ cost'[r] = cost[r]
      <3>1. Min({cost'[r], hold(r, d)'}) = Min({cost[r], hold(r, d)})
        BY <1>3, <2>2
      <3>2. taken(r, d)' = taken(r, d)
        BY <1>1, <1>2, <1>5, <2>2, <3>1
      <3> QED
        BY <1>1, <3>2
    <2>3. CASE entry[r] = "active"
      BY <1>1, <1>2, <1>3, <1>5, <2>3
    <2> QED
      BY <2>1, <2>2, <2>3
  <1>6. CASE entry'[r] \notin {"active", "settled"}
    BY <1>1, <1>2, <1>6
  <1> QED
    BY <1>4, <1>5, <1>6

\* What is still to be counted against a member after a step that lets nothing of this member in.
LEMMA OthersTakeNoMore ==
  ASSUME TypeOK, AdmittedUnder, TypeOK', AdmittedUnder', Onwards, NEW m \in Members, NEW d \in Durations,
         \A r \in Requests : Owner[r] = m =>
           startedAt'[r] = startedAt[r] /\ captured'[r] = captured[r] /\ Moves(r) /\ ~Reserved(r)
  PROVE  /\ takenBy({m}, d)' <= takenBy({m}, d)
         /\ (\E r \in admitted({m}, d) : takenBy({m}, d) <= capturedLimit(r, d) + reservation(capturedLimit(r, d)))
            => takenBy({m}, d)' = 0 \/
               \E r \in admitted({m}, d)' : takenBy({m}, d)' <= capturedLimit(r, d)' + reservation(capturedLimit(r, d)')
         /\ limitedOpen(m, d)' \subseteq limitedOpen(m, d)
  <1>1. now' \in {now, now + 1}
    BY DEF Onwards
  <1>2. \A r \in Requests : Owner[r] = m /\ inWindow(r, d)' =>
          inWindow(r, d) /\ windowStart(d)' = windowStart(d) /\ taken(r, d)' <= taken(r, d)
    BY <1>1, WindowKept, TakesNoMore
  <1>3. takenBy({m}, d)' <= takenBy({m}, d)
    BY <1>2, TakenFalls
  <1>4. takenBy({m}, d) \in Nat /\ takenBy({m}, d)' \in Nat
    BY TakenTypes, TakenTypesNext DEF TakenFine
  <1>5. ASSUME NEW r \in admitted({m}, d), takenBy({m}, d) <= capturedLimit(r, d) + reservation(capturedLimit(r, d))
        PROVE  takenBy({m}, d)' = 0 \/
               \E q \in admitted({m}, d)' : takenBy({m}, d)' <= capturedLimit(q, d)' + reservation(capturedLimit(q, d)')
    <2>1. r \in Requests /\ Owner[r] = m /\ entry[r] # "none" /\ inWindow(r, d)
      BY DEF admitted
    <2>2. capturedLimit(r, d)' = capturedLimit(r, d)
      BY <2>1, LimitKept
    <2>3. entry'[r] # "none"
      BY <2>1 DEF Moves, Stays, Reserved, Charged, Suspended, Corrected, Pruned
    <2>4. CASE inWindow(r, d)'
      <3>1. r \in admitted({m}, d)'
        BY <2>1, <2>3, <2>4 DEF admitted
      <3>2. capturedLimit(r, d) \in Int
        BY <2>1, HoldType
      <3>3. reservation(capturedLimit(r, d)) \in Nat
        BY <3>2, ReservationType
      <3>4. takenBy({m}, d)' <= capturedLimit(r, d)' + reservation(capturedLimit(r, d)')
        BY <1>3, <1>4, <1>5, <2>2, <3>2, <3>3
      <3> QED
        BY <3>1, <3>4
    <2>5. CASE ~inWindow(r, d)'
      <3>1. windowStart(d)' # windowStart(d)
        <4>1. startedAt'[r] = startedAt[r]
          BY <2>1
        <4> QED
          BY <2>1, <2>5, <4>1 DEF inWindow, windowEnd
      <3>2. within({m}, d)' = {}
        BY <1>2, <3>1 DEF within
      <3>3. takenBy({m}, d)' = 0
        <4>1. units([q \in {} |-> taken(q, d)']) = {}
          BY DEF units
        <4>2. sumOf([q \in {} |-> taken(q, d)']) = 0
          BY <4>1, FS_EmptySet DEF sumOf
        <4>3. takenBy({m}, d)' = sumOf([q \in within({m}, d)' |-> taken(q, d)'])
          BY TakenTypesNext DEF TakenFine
        <4> QED
          BY <3>2, <4>2, <4>3
      <3> QED
        BY <3>3
    <2> QED
      BY <2>4, <2>5
  <1>6. limitedOpen(m, d)' \subseteq limitedOpen(m, d)
    <2> SUFFICES ASSUME NEW r \in Requests, Owner[r] = m, entry'[r] = "active", inWindow(r, d)', ~unlimited(capturedLimit(r, d)')
                 PROVE  entry[r] = "active" /\ inWindow(r, d) /\ ~unlimited(capturedLimit(r, d))
      BY DEF limitedOpen, entries, unlimited
    <2>1. entry[r] = "active"
      BY DEF Moves, Stays, Reserved, Charged, Suspended, Corrected, Pruned
    <2>2. capturedLimit(r, d)' = capturedLimit(r, d)
      BY LimitKept
    <2> QED
      BY <1>2, <2>1, <2>2
  <1> QED
    BY <1>3, <1>5, <1>6

\* What an admission finds used and held, and what is taken after it.
LEMMA AdmissionTakes ==
  ASSUME IInv, TypeOK, AdmittedUnder, TypeOK', AdmittedUnder', NEW p \in Requests, NEW W \in SUBSET failed,
         Insert(p, W), entry[p] = "none", UNCHANGED <<now, revisions>>,
         NEW users \in SUBSET Members, Owner[p] \in users, NEW d \in Durations
  PROVE  /\ used(prepared(W), preparedCost(W), users, d) \in Nat /\ held(prepared(W), users, d) \in Nat
         /\ takenBy(users, d)' <= used(prepared(W), preparedCost(W), users, d) + held(prepared(W), users, d) + hold(p, d)'
  <1> DEFINE st == prepared(W)
             ct == preparedCost(W)
             S == entries(st, Settled, users, d)
             T == entries(st, {"active"}, users, d)
             f == [r \in S |-> ct[r]]
             g == [r \in T |-> hold(r, d)]
             U == within(users, d)'
             h == [r \in U |-> taken(r, d)']
             k == [r \in U \ {p} |-> taken(r, d)']
             one == [r \in {p} |-> hold(p, d)']
  <1>1. st \in [Requests -> EntryStates] /\ ct \in [Requests -> Nat]
    BY PreparedTypes, SetsAssumption
  <1>2. entry' = [st EXCEPT ![p] = "active"] /\ cost' = ct /\ startedAt' = [startedAt EXCEPT ![p] = now]
        /\ captured' = [captured EXCEPT ![p] = Len(revisions)]
    BY DEF Insert
  <1>3. \A r \in Requests : r # p => entry'[r] = st[r] /\ startedAt'[r] = startedAt[r] /\ captured'[r] = captured[r]
    BY <1>1, <1>2 DEF TypeOK
  <1>4. \A r \in Requests : st[r] # "none" => entry[r] # "none"
    BY PreparedEntry
  <1>5. \A r \in Requests : r # p => hold(r, d)' = hold(r, d) /\ inWindow(r, d)' = inWindow(r, d)
    BY <1>3 DEF hold, inWindow, windowStart, windowEnd
  <1>6. \A r \in Requests : st[r] = "active" => hold(r, d) \in Nat
    BY <1>4, HoldType
  <1>7. f \in [S -> Nat] /\ g \in [T -> Nat] /\ S \subseteq Requests /\ T \subseteq Requests
    BY <1>1, <1>6 DEF entries
  <1>8. IsFiniteSet(S) /\ IsFiniteSet(T)
    BY <1>7, SetsAssumption, FS_Subset
  <1>9. /\ h \in [U -> Nat] /\ takenBy(users, d)' = sumOf(h) /\ takenBy(users, d)' \in Nat
        /\ IsFiniteSet(U)
        /\ \A r \in Requests :
             /\ taken(r, d)' \in Nat
             /\ entry'[r] = "active" => taken(r, d)' = hold(r, d)'
             /\ entry'[r] = "settled" => taken(r, d)' <= cost'[r]
             /\ entry'[r] \notin {"active", "settled"} => taken(r, d)' = 0
    BY TakenTypesNext DEF TakenFine
  <1>10. entry'[p] = "active" /\ taken(p, d)' = hold(p, d)' /\ hold(p, d)' \in Nat
    <2>1. entry'[p] = "active"
      BY <1>1, <1>2
    <2> QED
      BY <1>9, <2>1
  <1>11. \A r \in U \ {p} : k[r] = 0 \/ (r \in S /\ k[r] <= f[r]) \/ (r \in T /\ k[r] <= g[r])
    <2> SUFFICES ASSUME NEW r \in Requests, r # p, Owner[r] \in users, inWindow(r, d)'
                 PROVE  \/ taken(r, d)' = 0
                        \/ r \in S /\ taken(r, d)' <= ct[r]
                        \/ r \in T /\ taken(r, d)' <= hold(r, d)
      BY DEF within
    <2>1. inWindow(r, d) /\ entry'[r] = st[r] /\ hold(r, d)' = hold(r, d)
      BY <1>3, <1>5
    <2>2. CASE st[r] = "active"
      BY <1>6, <1>9, <2>1, <2>2 DEF entries
    <2>3. CASE st[r] = "settled"
      BY <1>2, <1>9, <2>1, <2>3 DEF entries, Settled
    <2>4. CASE st[r] \notin {"active", "settled"}
      BY <1>9, <2>1, <2>4
    <2> QED
      BY <2>2, <2>3, <2>4
  <1>12. k \in [U \ {p} -> Nat] /\ IsFiniteSet(U \ {p})
    BY <1>9, FS_RemoveElement DEF within
  <1>13. one \in [{p} -> Nat] /\ IsFiniteSet({p}) /\ sumOf(one) = hold(p, d)'
    BY <1>10, SumOfOne, FS_Singleton
  <1>14. \A r \in U : (r \in U \ {p} /\ h[r] <= k[r]) \/ (r \in {p} /\ h[r] <= one[r])
    <2> SUFFICES ASSUME NEW r \in U PROVE (r # p /\ h[r] <= k[r]) \/ (r = p /\ h[r] <= one[r])
      OBVIOUS
    <2>1. r \in Requests
      BY DEF within
    <2>2. taken(r, d)' \in Nat
      BY <1>9, <2>1
    <2>3. CASE r = p
      BY <1>10, <2>2, <2>3
    <2>4. CASE r # p
      BY <2>2, <2>4
    <2> QED
      BY <2>3, <2>4
  <1>15. used(st, ct, users, d) = sumOf(f) /\ held(st, users, d) = sumOf(g)
    BY DEF used, held
  <1> HIDE DEF f, g, h, k, one, S, T, U, st, ct
  <1>16. sumOf(f) \in Nat /\ sumOf(g) \in Nat
    BY <1>7, <1>8, UnitsFinite
  <1>17. sumOf(k) <= sumOf(f) + sumOf(g)
    BY <1>7, <1>8, <1>11, <1>12, SumSplit
  <1>18. sumOf(h) <= sumOf(k) + sumOf(one)
    BY <1>9, <1>12, <1>13, <1>14, SumSplit
  <1>19. sumOf(k) \in Nat
    BY <1>12, UnitsFinite
  <1>20. sumOf(h) <= sumOf(f) + sumOf(g) + hold(p, d)'
    BY <1>9, <1>10, <1>13, <1>16, <1>17, <1>18, <1>19
  <1> QED
    BY <1>9, <1>15, <1>16, <1>20 DEF st, ct

\* Room is cut at zero.
LEMMA MaxOfTwo == ASSUME NEW n \in Int PROVE Max({0, n}) \in Nat /\ (Max({0, n}) = n \/ (Max({0, n}) = 0 /\ n <= 0))
  <1>1. \E x \in {0, n} : \A y \in {0, n} : x >= y
    OBVIOUS
  <1> QED
    BY <1>1 DEF Max

\* The request that is let in holds what its limit reserves, in every window of now.
LEMMA Entered ==
  ASSUME TypeOK, AdmittedUnder, NEW p \in Requests, NEW W \in SUBSET failed, IInv,
         Check(prepared(W), preparedCost(W), Owner[p]), Insert(p, W), UNCHANGED <<now, revisions>>, NEW d \in Durations
  PROVE  LET limit == memberLimit(Current, Owner[p], d) IN
         /\ limit \in Int /\ reservation(limit) \in Nat /\ reservation(limit) >= 1
         /\ capturedLimit(p, d)' = limit
         /\ hold(p, d)' = IF unlimited(limit) THEN 0 ELSE reservation(limit)
         /\ entry'[p] = "active" /\ inWindow(p, d)' /\ p \in admitted({Owner[p]}, d)'
  <1> DEFINE limit == memberLimit(Current, Owner[p], d)
  <1>1. revisions \in Seq(Configs) /\ Len(revisions) > 0 /\ now \in Nat /\ startedAt \in [Requests -> Nat]
        /\ captured \in [Requests -> 1..Len(revisions)]
    BY DEF TypeOK
  <1>2. Current \in Configs /\ Owner[p] \in DOMAIN Current
    BY <1>1 DEF Check, Current
  <1>3. limit \in Int
    BY <1>2, LimitTypes
  <1>4. captured'[p] = Len(revisions) /\ startedAt'[p] = now
    BY <1>1 DEF Insert
  <1>5. capturedLimit(p, d)' = limit
    BY <1>4 DEF capturedLimit, Current
  <1>6. hold(p, d)' = IF unlimited(limit) THEN 0 ELSE reservation(limit)
    BY <1>4 DEF hold, Current, unlimited
  <1>7. prepared(W) \in [Requests -> EntryStates]
    BY PreparedTypes
  <1>8. entry'[p] = "active"
    BY <1>7 DEF Insert
  <1>9. d \in Nat \ {0}
    BY SetsAssumption
  <1>10. (now \div d) * d <= now /\ now < (now \div d) * d + d
    BY <1>1, <1>9, OneWindow
  <1>11. inWindow(p, d)'
    BY <1>4, <1>10 DEF inWindow, windowStart, windowEnd
  <1>12. p \in admitted({Owner[p]}, d)'
    BY <1>8, <1>11 DEF admitted
  <1> QED
    BY <1>3, <1>5, <1>6, <1>8, <1>11, <1>12, ReservationType

\* After an admission, the member that was let in.
LEMMA MemberEntered ==
  ASSUME IInv, TypeOK, AdmittedUnder, TypeOK', AdmittedUnder', NEW p \in Requests, NEW W \in SUBSET failed,
         Check(prepared(W), preparedCost(W), Owner[p]), Insert(p, W), entry[p] = "none",
         UNCHANGED <<now, revisions>>, NEW d \in Durations,
         ~unlimited(memberLimit(Current, Owner[p], d))
  PROVE  /\ \E r \in admitted({Owner[p]}, d)' :
               takenBy({Owner[p]}, d)' <= capturedLimit(r, d)' + reservation(capturedLimit(r, d)')
         /\ Cardinality(limitedOpen(Owner[p], d)') <= MaxOutstanding
  <1> DEFINE m == Owner[p]
             limit == memberLimit(Current, m, d)
             res == reservation(limit)
             uses == used(prepared(W), preparedCost(W), {m}, d)
             holds == held(prepared(W), {m}, d)
             room == limit + res - uses - holds
             active == entries(prepared(W), {"active"}, {m}, d)
  <1>1. limit \in Int /\ res \in Nat /\ res >= 1 /\ capturedLimit(p, d)' = limit /\ hold(p, d)' = res
        /\ entry'[p] = "active" /\ p \in admitted({m}, d)'
    BY Entered
  <1>2. m \in Members
    BY SetsAssumption
  <1>3. uses \in Nat /\ holds \in Nat /\ takenBy({m}, d)' <= uses + holds + hold(p, d)'
    BY <1>2, AdmissionTakes
  <1>4. takenBy({m}, d)' \in Nat
    BY <1>2, TakenTypesNext DEF TakenFine
  <1>5. ~riskLimited(prepared(W), preparedCost(W), m, d, limit)
    BY DEF Check
  <1>6. ~(Cardinality(active) >= MaxOutstanding) /\ ~(Max({0, room}) < res)
    BY <1>5 DEF riskLimited
  <1>7. limitedOpen(m, d)' \subseteq active \cup {p}
    <2> SUFFICES ASSUME NEW r \in Requests, r # p, Owner[r] = m, entry'[r] = "active", inWindow(r, d)'
                 PROVE  prepared(W)[r] = "active" /\ inWindow(r, d)
      BY DEF limitedOpen, entries
    <2>1. prepared(W) \in [Requests -> EntryStates]
      BY PreparedTypes
    <2>2. startedAt'[r] = startedAt[r]
      BY DEF Insert, TypeOK
    <2> QED
      BY <2>1, <2>2 DEF Insert, inWindow, windowStart, windowEnd
  <1>8. IsFiniteSet(active)
    BY SetsAssumption, FS_Subset DEF entries
  <1> HIDE DEF uses, holds, res, limit, active, m
  <1>9. room \in Int
    BY <1>1, <1>3
  <1>10. Max({0, room}) \in Nat /\ (Max({0, room}) = room \/ (Max({0, room}) = 0 /\ room <= 0))
    BY <1>9, MaxOfTwo
  <1>11. uses + holds + res <= limit + res
    <2> HIDE DEF room
    <2>1. room >= res
      BY <1>1, <1>6, <1>9, <1>10
    <2> QED
      BY <1>1, <1>3, <2>1 DEF room
  <1>12. takenBy({m}, d)' <= capturedLimit(p, d)' + reservation(capturedLimit(p, d)')
    <2>1. takenBy({m}, d)' <= limit + res
      BY <1>1, <1>3, <1>4, <1>11
    <2> QED
      BY <1>1, <2>1 DEF res
  <1>13. Cardinality(active \cup {p}) <= MaxOutstanding /\ IsFiniteSet(active \cup {p})
    <2>1. /\ IsFiniteSet(active \cup {p}) /\ Cardinality(active) \in Nat
          /\ Cardinality(active \cup {p}) = IF p \in active THEN Cardinality(active) ELSE Cardinality(active) + 1
      BY <1>8, FS_AddElement, FS_CardinalityType
    <2> QED
      BY <1>6, <2>1, BoundsAssumption
  <1>14. Cardinality(limitedOpen(m, d)') <= Cardinality(active \cup {p}) /\ Cardinality(limitedOpen(m, d)') \in Nat
         /\ Cardinality(active \cup {p}) \in Nat
    BY <1>7, <1>13, FS_Subset, FS_CardinalityType
  <1>15. Cardinality(limitedOpen(m, d)') <= MaxOutstanding
    BY <1>13, <1>14, BoundsAssumption
  <1> QED
    BY <1>1, <1>12, <1>15 DEF m

\* A member without a limit takes nothing by being let in.
LEMMA UnlimitedEntered ==
  ASSUME IInv, TypeOK, AdmittedUnder, TypeOK', AdmittedUnder', NEW p \in Requests, NEW W \in SUBSET failed,
         Check(prepared(W), preparedCost(W), Owner[p]), Insert(p, W), entry[p] = "none",
         UNCHANGED <<now, revisions>>, NEW d \in Durations,
         unlimited(memberLimit(Current, Owner[p], d)), [Next]_vars
  PROVE  /\ takenBy({Owner[p]}, d)' <= takenBy({Owner[p]}, d)
         /\ (\E r \in admitted({Owner[p]}, d) :
               takenBy({Owner[p]}, d) <= capturedLimit(r, d) + reservation(capturedLimit(r, d)))
            => \E r \in admitted({Owner[p]}, d)' :
               takenBy({Owner[p]}, d)' <= capturedLimit(r, d)' + reservation(capturedLimit(r, d)')
         /\ limitedOpen(Owner[p], d)' \subseteq limitedOpen(Owner[p], d)
  <1> DEFINE m == Owner[p]
  <1>1. capturedLimit(p, d)' = memberLimit(Current, m, d) /\ hold(p, d)' = 0 /\ entry'[p] = "active"
    BY Entered
  <1>2. m \in Members /\ Onwards
    BY SetsAssumption, RevisionsGoOn
  <1>3. \A r \in Requests : r # p => /\ startedAt'[r] = startedAt[r] /\ captured'[r] = captured[r]
                                     /\ inWindow(r, d)' = inWindow(r, d)
    BY DEF Insert, TypeOK, inWindow, windowStart, windowEnd
  <1>4. ASSUME NEW r \in Requests, r # p PROVE Moves(r) /\ ~Reserved(r)
    <2>1. Moves(r)
      BY EntryMoves
    <2>2. entry'[r] = prepared(W)[r]
      BY <1>4, PreparedTypes DEF Insert
    <2> QED
      BY <2>1, <2>2, PreparedEntry DEF Reserved
  <1>5. \A r \in Requests : r # p => taken(r, d)' <= taken(r, d)
    BY <1>2, <1>3, <1>4, TakesNoMore
  <1>6. taken(p, d)' = 0
    BY <1>1, TakenTypesNext, <1>2 DEF TakenFine
  <1>7. \A r \in Requests : Owner[r] \in {m} /\ inWindow(r, d)' =>
          taken(r, d)' = 0 \/ (inWindow(r, d) /\ taken(r, d)' <= taken(r, d))
    BY <1>3, <1>5, <1>6
  <1>8. takenBy({m}, d)' <= takenBy({m}, d)
    BY <1>2, <1>7, TakenFalls
  <1>9. takenBy({m}, d) \in Nat /\ takenBy({m}, d)' \in Nat
    BY <1>2, TakenTypes, TakenTypesNext DEF TakenFine
  <1>10. ASSUME NEW r \in admitted({m}, d), takenBy({m}, d) <= capturedLimit(r, d) + reservation(capturedLimit(r, d))
         PROVE  \E q \in admitted({m}, d)' : takenBy({m}, d)' <= capturedLimit(q, d)' + reservation(capturedLimit(q, d)')
    <2>1. r \in Requests /\ Owner[r] = m /\ entry[r] # "none" /\ inWindow(r, d) /\ r # p
      BY DEF admitted
    <2>2. capturedLimit(r, d)' = capturedLimit(r, d)
      BY <1>2, <1>3, <2>1, LimitKept
    <2>3. entry'[r] # "none"
      BY <1>4, <2>1 DEF Moves, Stays, Reserved, Charged, Suspended, Corrected, Pruned
    <2>4. r \in admitted({m}, d)'
      BY <1>3, <2>1, <2>3 DEF admitted
    <2>5. capturedLimit(r, d) \in Int
      BY <2>1, HoldType
    <2>6. reservation(capturedLimit(r, d)) \in Nat
      BY <2>5, ReservationType
    <2>7. takenBy({m}, d)' <= capturedLimit(r, d)' + reservation(capturedLimit(r, d)')
      BY <1>8, <1>9, <1>10, <2>2, <2>5, <2>6
    <2> QED
      BY <2>4, <2>7
  <1>11. limitedOpen(m, d)' \subseteq limitedOpen(m, d)
    <2> SUFFICES ASSUME NEW r \in Requests, Owner[r] = m, entry'[r] = "active", inWindow(r, d)', ~unlimited(capturedLimit(r, d)')
                 PROVE  entry[r] = "active" /\ inWindow(r, d) /\ ~unlimited(capturedLimit(r, d))
      BY DEF limitedOpen, entries, unlimited
    <2>1. r # p
      BY <1>1
    <2>2. entry[r] = "active"
      BY <1>4, <2>1 DEF Moves, Stays, Reserved, Charged, Suspended, Corrected, Pruned
    <2>3. capturedLimit(r, d)' = capturedLimit(r, d)
      BY <1>2, <1>3, <2>1, LimitKept
    <2> QED
      BY <1>3, <2>1, <2>2, <2>3
  <1> QED
    BY <1>8, <1>10, <1>11

Bounded(m, d) ==
  \/ takenBy({m}, d) = 0
  \/ \E r \in admitted({m}, d) : takenBy({m}, d) <= capturedLimit(r, d) + reservation(capturedLimit(r, d))

\* A member in a step of any kind: let in under a limit, let in without one, or left alone.
LEMMA MemberStep ==
  ASSUME IInv, TypeOK, AdmittedUnder, TypeOK', AdmittedUnder', [Next]_vars, NEW m \in Members, NEW d \in Durations,
         Bounded(m, d), Cardinality(limitedOpen(m, d)) <= MaxOutstanding
  PROVE  Bounded(m, d)' /\ Cardinality(limitedOpen(m, d)') <= MaxOutstanding
  <1> DEFINE Alone == \A r \in Requests : Owner[r] = m =>
                        startedAt'[r] = startedAt[r] /\ captured'[r] = captured[r] /\ Moves(r) /\ ~Reserved(r)
  <1>1. IsFiniteSet(limitedOpen(m, d))
    BY SetsAssumption, FS_Subset DEF limitedOpen, entries
  <1>2. ASSUME limitedOpen(m, d)' \subseteq limitedOpen(m, d) PROVE Cardinality(limitedOpen(m, d)') <= MaxOutstanding
    <2>1. /\ Cardinality(limitedOpen(m, d)') <= Cardinality(limitedOpen(m, d))
          /\ Cardinality(limitedOpen(m, d)') \in Nat /\ Cardinality(limitedOpen(m, d)) \in Nat
      BY <1>1, <1>2, FS_Subset, FS_CardinalityType
    <2> QED
      BY <2>1, BoundsAssumption
  <1>3. takenBy({m}, d) \in Nat /\ takenBy({m}, d)' \in Nat
    BY TakenTypes, TakenTypesNext DEF TakenFine
  <1>4. CASE Alone
    <2>1. Onwards
      BY RevisionsGoOn
    <2>2. /\ takenBy({m}, d)' <= takenBy({m}, d)
          /\ (\E r \in admitted({m}, d) : takenBy({m}, d) <= capturedLimit(r, d) + reservation(capturedLimit(r, d)))
             => takenBy({m}, d)' = 0 \/
                \E r \in admitted({m}, d)' : takenBy({m}, d)' <= capturedLimit(r, d)' + reservation(capturedLimit(r, d)')
          /\ limitedOpen(m, d)' \subseteq limitedOpen(m, d)
      BY <1>4, <2>1, OthersTakeNoMore
    <2>3. takenBy({m}, d) = 0 => takenBy({m}, d)' = 0
      BY <1>3, <2>2
    <2> QED
      BY <1>2, <2>2, <2>3 DEF Bounded
  <1>5. CASE \E p \in Requests : Admits(p)
    <2>1. PICK p \in Requests : Admits(p)
      BY <1>5
    <2>2. PICK W \in SUBSET failed :
            /\ Check(prepared(W), preparedCost(W), Owner[p]) /\ Insert(p, W)
            /\ entry[p] = "none" /\ UNCHANGED <<now, revisions>>
      BY <2>1, OneAdmitted
    <2>3. CASE Owner[p] = m /\ ~unlimited(memberLimit(Current, m, d))
      BY <2>2, <2>3, MemberEntered DEF Bounded
    <2>4. CASE Owner[p] = m /\ unlimited(memberLimit(Current, m, d))
      <3>1. /\ takenBy({m}, d)' <= takenBy({m}, d)
            /\ (\E r \in admitted({m}, d) : takenBy({m}, d) <= capturedLimit(r, d) + reservation(capturedLimit(r, d)))
               => \E r \in admitted({m}, d)' : takenBy({m}, d)' <= capturedLimit(r, d)' + reservation(capturedLimit(r, d)')
            /\ limitedOpen(m, d)' \subseteq limitedOpen(m, d)
        BY <2>2, <2>4, UnlimitedEntered
      <3>2. takenBy({m}, d) = 0 => takenBy({m}, d)' = 0
        BY <1>3, <3>1
      <3> QED
        BY <1>2, <3>1, <3>2 DEF Bounded
    <2>5. CASE Owner[p] # m
      <3>1. ASSUME NEW r \in Requests, Owner[r] = m
            PROVE  startedAt'[r] = startedAt[r] /\ captured'[r] = captured[r] /\ Moves(r) /\ ~Reserved(r)
        <4>1. r # p /\ Moves(r)
          BY <2>5, <3>1, EntryMoves
        <4>2. startedAt'[r] = startedAt[r] /\ captured'[r] = captured[r]
          BY <2>2, <4>1 DEF Insert, TypeOK
        <4>3. entry'[r] = prepared(W)[r]
          BY <2>2, <4>1, PreparedTypes DEF Insert
        <4> QED
          BY <4>1, <4>2, <4>3, PreparedEntry DEF Reserved
      <3> QED
        BY <1>4, <3>1
    <2> QED
      BY <2>3, <2>4, <2>5
  <1>6. CASE ~\E p \in Requests : Admits(p)
    <2>1. UNCHANGED <<captured, startedAt, resetAt>> /\ \A r \in Requests : entry'[r] # "none" => entry[r] # "none"
      BY <1>6, NothingAdmitted
    <2>2. \A r \in Requests : Moves(r) /\ ~Reserved(r)
      BY <2>1, EntryMoves DEF Reserved
    <2> QED
      BY <1>4, <2>1, <2>2
  <1> QED
    BY <1>5, <1>6

\* The pool of a ratio scheme in a step of any kind.
LEMMA GroupStep ==
  ASSUME IInv, TypeOK, AdmittedUnder, TypeOK', AdmittedUnder', [Next]_vars, GroupOvershootBounded
  PROVE  GroupOvershootBounded'
  <1> SUFFICES ASSUME Mode = "ratio", NEW d \in Durations
               PROVE  takenBy(Members, d)' <= Total[d] + reservation(Total[d])
    BY DEF GroupOvershootBounded
  <1>1. takenBy(Members, d) \in Nat /\ takenBy(Members, d)' \in Nat
    BY TakenTypes, TakenTypesNext DEF TakenFine
  <1>2. Total[d] \in Nat /\ reservation(Total[d]) \in Nat
    BY SetsAssumption, ReservationType
  <1>3. takenBy(Members, d) <= Total[d] + reservation(Total[d])
    BY DEF GroupOvershootBounded
  <1>4. CASE \E p \in Requests : Admits(p)
    <2>1. PICK p \in Requests : Admits(p)
      BY <1>4
    <2>2. PICK W \in SUBSET failed :
            /\ Check(prepared(W), preparedCost(W), Owner[p]) /\ Insert(p, W)
            /\ entry[p] = "none" /\ UNCHANGED <<now, revisions>>
      BY <2>1, OneAdmitted
    <2> DEFINE limit == memberLimit(Current, Owner[p], d)
               res == reservation(limit)
               uses == used(prepared(W), preparedCost(W), Members, d)
               holds == held(prepared(W), Members, d)
               room == Total[d] + reservation(Total[d]) - uses - holds
    <2>3. res \in Nat /\ res >= 1 /\ hold(p, d)' = IF unlimited(limit) THEN 0 ELSE res
      BY <2>2, Entered
    <2>4. ~unlimited(limit)
      BY DEF unlimited
    <2>5. uses \in Nat /\ holds \in Nat /\ takenBy(Members, d)' <= uses + holds + hold(p, d)'
      <3>1. Owner[p] \in Members
        BY SetsAssumption
      <3> QED
        BY <2>2, <3>1, AdmissionTakes
    <2>6. groupAllows(prepared(W), preparedCost(W), d, limit)
      BY <2>2 DEF Check
    <2>7. Max({0, room}) >= res
      BY <2>6 DEF groupAllows, groupRoom
    <2> HIDE DEF limit, res, uses, holds
    <2>8. room \in Int
      BY <1>2, <2>5
    <2>9. room >= res
      <3> HIDE DEF room
      <3> QED
        BY <2>3, <2>7, <2>8, MaxOfTwo
    <2>10. uses + holds + res <= Total[d] + reservation(Total[d])
      BY <1>2, <2>3, <2>5, <2>9
    <2> QED
      BY <1>1, <1>2, <2>3, <2>4, <2>5, <2>10
  <1>5. CASE ~\E p \in Requests : Admits(p)
    <2>1. UNCHANGED <<captured, startedAt, resetAt>> /\ \A r \in Requests : entry'[r] # "none" => entry[r] # "none"
      BY <1>5, NothingAdmitted
    <2>2. \A r \in Requests : Moves(r) /\ ~Reserved(r)
      BY <2>1, EntryMoves DEF Reserved
    <2>3. Onwards /\ now' \in {now, now + 1}
      BY RevisionsGoOn DEF Onwards
    <2>4. \A r \in Requests : inWindow(r, d)' => inWindow(r, d) /\ taken(r, d)' <= taken(r, d)
      BY <2>1, <2>2, <2>3, WindowKept, TakesNoMore
    <2>5. takenBy(Members, d)' <= takenBy(Members, d)
      BY <2>4, TakenFalls
    <2> QED
      BY <1>1, <1>2, <1>3, <2>5
  <1> QED
    BY <1>4, <1>5

\* The invariant holds before the first request, and every step keeps it.
LEMMA SpendInit == Init => SpendInv
  <1> SUFFICES ASSUME Init PROVE SpendInv
    OBVIOUS
  <1>1. TypeOK
    <2>1. TypeSettlement
      BY InitHolds DEF IInv
    <2>2. PICK c \in Configs : revisions = <<c>>
      BY DEF Init
    <2>3. revisions \in Seq(Configs) /\ Len(revisions) = 1
      BY <2>2
    <2>4. captured \in [Requests -> 1..Len(revisions)]
      <3>1. captured = [r \in Requests |-> 1] /\ 1 \in 1..Len(revisions)
        BY <2>3 DEF Init
      <3> QED
        BY <3>1
    <2>5. now \in Nat /\ crashes \in Nat /\ startedAt \in [Requests -> Nat] /\ resetAt \in [Requests -> Nat]
      BY DEF Init
    <2>6. admin \in BOOLEAN
      BY DEF Init
    <2> QED
      BY <2>1, <2>3, <2>4, <2>5, <2>6 DEF TypeOK
  <1>2. AdmittedUnder /\ PrunedPast
    BY DEF Init, AdmittedUnder, PrunedPast
  <1>3. \A r \in Requests, d \in Durations : taken(r, d) = 0
    BY <1>1, <1>2, TakenTypes DEF TakenFine, Init
  <1>4. ASSUME NEW users \in SUBSET Members, NEW d \in Durations PROVE takenBy(users, d) = 0
    <2> DEFINE S == within(users, d)
               f == [r \in S |-> taken(r, d)]
               E == {}
               none == [r \in E |-> 0]
    <2>1. f \in [S -> Nat] /\ takenBy(users, d) = sumOf(f) /\ takenBy(users, d) \in Nat
      BY <1>1, <1>2, TakenTypes DEF TakenFine
    <2>2. none \in [E -> Nat] /\ IsFiniteSet(E)
      BY FS_EmptySet
    <2>3. \A x \in S : f[x] = 0
      BY <1>3 DEF within
    <2>4. sumOf(none) = 0
      <3>1. units(none) = {}
        BY DEF units
      <3> QED
        BY <3>1, FS_EmptySet DEF sumOf
    <2> HIDE DEF f, none, S, E
    <2>5. sumOf(f) <= sumOf(none)
      BY <2>1, <2>2, <2>3, SumMonotone
    <2> QED
      BY <2>1, <2>4, <2>5
  <1>5. OvershootBounded
    BY <1>4 DEF OvershootBounded
  <1>6. GroupOvershootBounded
    <2>1. \A d \in Durations : Total[d] \in Nat /\ reservation(Total[d]) \in Nat
      BY SetsAssumption, ReservationType
    <2> QED
      BY <1>4, <2>1 DEF GroupOvershootBounded
  <1>7. LimitedFew
    <2>1. \A m \in Members, d \in Durations : limitedOpen(m, d) = {}
      BY DEF Init, limitedOpen, entries
    <2> QED
      BY <2>1, FS_EmptySet, BoundsAssumption DEF LimitedFew
  <1> QED
    BY <1>1, <1>2, <1>5, <1>6, <1>7 DEF SpendInv

LEMMA SpendStep == IInv /\ IInv' /\ SpendInv /\ [Next]_vars => SpendInv'
  <1> SUFFICES ASSUME IInv, IInv', SpendInv, [Next]_vars PROVE SpendInv'
    OBVIOUS
  <1>1. TypeOK /\ AdmittedUnder /\ PrunedPast /\ LimitedFew /\ OvershootBounded /\ GroupOvershootBounded
    BY DEF SpendInv
  <1>2. TypeOK'
    BY <1>1, TypesStep
  <1>3. AdmittedUnder'
    BY <1>1, AdmittedUnderStep
  <1>4. PrunedPast'
    BY <1>1, <1>2, PrunedPastStep
  <1>5. ASSUME NEW m \in Members, NEW d \in Durations
        PROVE  Bounded(m, d)' /\ Cardinality(limitedOpen(m, d)') <= MaxOutstanding
    <2>1. Bounded(m, d) /\ Cardinality(limitedOpen(m, d)) <= MaxOutstanding
      BY <1>1 DEF OvershootBounded, Bounded, LimitedFew
    <2> QED
      BY <1>1, <1>2, <1>3, <2>1, MemberStep
  <1>6. OvershootBounded' /\ LimitedFew'
    BY <1>5 DEF OvershootBounded, Bounded, LimitedFew
  <1>7. GroupOvershootBounded'
    BY <1>1, <1>2, <1>3, GroupStep
  <1> QED
    BY <1>2, <1>3, <1>4, <1>6, <1>7 DEF SpendInv

\* What is used, what is held and what is running stay within the limits, however requests overlap, settle late
\* or outlive an edit of their limit (Check, reservations), and what cleanup deletes is past.
THEOREM SpendInvariance == Spec => []SpendInv
  <1>1. Init => SpendInv
    BY SpendInit
  <1>2. IInv /\ IInv' /\ SpendInv /\ [Next]_vars => SpendInv'
    BY SpendStep
  <1> QED
    BY <1>1, <1>2, Invariance, PTL DEF Spec

\* If all that a member has running was let in under a limit, it is what counts.
LEMMA OutstandingFew == LimitedFew => OutstandingBounded
  <1> SUFFICES ASSUME LimitedFew, NEW m \in Members, NEW d \in Durations,
                      \A r \in entries(entry, {"active"}, {m}, d) : ~unlimited(capturedLimit(r, d))
               PROVE  Cardinality(entries(entry, {"active"}, {m}, d)) <= MaxOutstanding
    BY DEF OutstandingBounded
  <1>1. limitedOpen(m, d) = entries(entry, {"active"}, {m}, d)
    BY DEF limitedOpen
  <1> QED
    BY <1>1 DEF LimitedFew

\* Members overshoot a limit by one reservation, have a bounded number of requests of unknown cost running
\* (member, Check), and cleanup deletes no entry that a window still counts (effectiveWindow, Prune): for any
\* limits, windows, retention, members and edits.
THEOREM SpendIsBounded == Spec => []SpendBounded
  <1>1. SpendInv => SpendBounded
    BY OutstandingFew, PrunedIsOver DEF SpendInv, SpendBounded
  <1> QED
    BY <1>1, SpendInvariance, PTL

\* The members of a ratio scheme together overshoot the pool by one reservation (group), while shares move between
\* them.
THEOREM GroupIsBounded == Spec => []GroupOvershootBounded
  <1>1. SpendInv => GroupOvershootBounded
    BY DEF SpendInv
  <1> QED
    BY <1>1, SpendInvariance, PTL
=============================================================================
