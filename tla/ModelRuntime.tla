---------------------------- MODULE ModelRuntime ----------------------------
(* What the gateway remembers of the models of one account that failed:       *)
(* internal/gateway/model_runtime.go with the parts of queue.go, check.go and *)
(* runtime.go that use it.                                                    *)
(*                                                                            *)
(* The state of a model is a row; while requests hold a lease on the model,   *)
(* or its row could not be written, it is also an object in memory that the   *)
(* leases share.  An object belongs to an epoch of the account: its lifecycle *)
(* (authorization) and its revision (resumes).  A lease of an earlier epoch   *)
(* keeps the object nobody else sees.  The clock never goes back.             *)
EXTENDS Naturals, FiniteSets

CONSTANTS
  Models, Leases,
  MaxModelRuntime,                         \* objects in memory
  RetryDelays,                             \* what retryDelay makes of a rate limit's Retry-After: at most an hour
  TransientThreshold, TransientWindow, TransientCooldown, MaxDelay,
  FailureCap,
  MaxModelTime,                            \* bound: the clock
  MaxModelEvents                           \* bound: leases, epochs, restarts, failed writes

ASSUME RuntimeAssumption ==
  /\ IsFiniteSet(Leases)
  /\ RetryDelays \subseteq Nat /\ TransientThreshold \in Nat
  /\ {TransientWindow, FailureCap} \subseteq Nat \ {0}

VARIABLES
  lifecycle, resumed,       \* models_revision; account_runtime.revision
  offered,                  \* models_snapshot
  modelRow,                 \* account_model_runtime
  modelHealth,              \* the objects
  leases,                   \* `own`: the lease's object is the one in modelHealth
  succeeded,                \* leases whose request has the outcome "success" or "incomplete"
  sequence, modelClock,
  failuresSeen,                     \* history: the failures of this epoch
  modelLeft                 \* what is left of the bound

modelVars == <<lifecycle, resumed, offered, modelRow, modelHealth, leases, succeeded, sequence, modelClock, failuresSeen, modelLeft>>

NoState == [on |-> FALSE]
NoLease == [on |-> FALSE]
NoReason == ""
minOf(a, b) == IF a < b THEN a ELSE b
maxOf(a, b) == IF a > b THEN a ELSE b

ModelInit ==
  /\ lifecycle = 0 /\ resumed = 0
  /\ offered = Models
  /\ modelRow = [m \in Models |-> NoState]
  /\ modelHealth = [m \in Models |-> NoState]
  /\ leases = [l \in Leases |-> NoLease] /\ succeeded = {}
  /\ sequence = 0 /\ modelClock = 1
  /\ failuresSeen = [m \in Models |-> {}]
  /\ modelLeft = MaxModelEvents

spendModel == modelLeft > 0 /\ modelLeft' = modelLeft - 1

inEpoch(x) == x.on /\ x.lifecycle = lifecycle /\ x.resumed = resumed

-----------------------------------------------------------------------------
(* Reading the state of a model.                                              *)

GetAccountModelRuntime(rows, m) ==
  IF inEpoch(rows[m]) THEN rows[m]
  ELSE [on |-> TRUE, lifecycle |-> lifecycle, resumed |-> resumed, version |-> 0,
        cooldown |-> 0, failures |-> 0, reason |-> NoReason, window |-> 0]

\* The object in memory when it is of this epoch, or else what the row says.
readModelRuntime(rows, m) ==
  IF modelHealth[m].on /\ inEpoch(modelHealth[m].stored) THEN modelHealth[m]
  ELSE [on |-> TRUE, stored |-> GetAccountModelRuntime(rows, m), lastFailure |-> 0, inFlight |-> 0, persistFailed |-> FALSE]

mModelRuntimeAdmission(state) == state.stored.cooldown <= modelClock

\* Not while it cools, and one request at a time while it recovers.
modelRuntimeAdmission(state) ==
  /\ state.stored.cooldown <= modelClock
  /\ ~(state.stored.cooldown > 0 /\ state.stored.failures > 0 /\ state.inFlight > 0)

mDeleteObsoleteModelRuntime ==
  [m \in Models |-> IF inEpoch(modelRow[m]) /\ modelRow[m].cooldown > modelClock THEN modelRow[m] ELSE NoState]

\* Rows of earlier epochs, and expired rows of models that are no longer offered.
DeleteObsoleteModelRuntime ==
  [m \in Models |->
     IF inEpoch(modelRow[m]) /\ (modelRow[m].cooldown > modelClock \/ m \in offered) THEN modelRow[m] ELSE NoState]

superseded(m) == modelHealth[m].on /\ ~inEpoch(modelHealth[m].stored)

\* The leases of an object that leaves modelHealth keep it to themselves.
disowned(gone) == [l \in Leases |-> IF leases[l].on /\ leases[l].model \in gone THEN [leases[l] EXCEPT !.own = FALSE] ELSE leases[l]]

currentHealth == [m \in Models |-> IF superseded(m) THEN NoState ELSE modelHealth[m]]

\* Every attempt to be admitted and the account page.
loadRuntimeRows ==
  /\ modelRow' = DeleteObsoleteModelRuntime
  /\ modelHealth' = currentHealth
  /\ leases' = disowned({m \in Models : superseded(m)})
  /\ UNCHANGED <<lifecycle, resumed, offered, succeeded, sequence, modelClock, failuresSeen, modelLeft>>
-----------------------------------------------------------------------------
(* A lease: a request's (queue.go), or an administrator's check of the model. *)

room(m) == currentHealth[m].on \/ Cardinality({n \in Models : currentHealth[n].on}) < MaxModelRuntime

modelLease(l, m, check) ==
  /\ ~leases[l].on /\ spendModel
  /\ m \in offered
  /\ modelRow' = DeleteObsoleteModelRuntime
  /\ \E state \in {readModelRuntime(DeleteObsoleteModelRuntime, m)} :
       /\ modelRuntimeAdmission(state) /\ room(m)
       /\ modelHealth' = [currentHealth EXCEPT ![m] = [state EXCEPT !.inFlight = @ + 1]]
       /\ leases' = [disowned({n \in Models : superseded(n)}) EXCEPT ![l] =
            [on |-> TRUE, model |-> m, check |-> check, own |-> TRUE, sequence |-> sequence + 1,
             lifecycle |-> lifecycle, resumed |-> resumed,
             probe |-> state.stored.cooldown > 0 /\ state.stored.failures > 0]]
  /\ sequence' = IF check THEN sequence ELSE sequence + 1
  /\ UNCHANGED <<lifecycle, resumed, offered, succeeded, modelClock, failuresSeen>>

\* An object is dropped with its last lease, unless its row could not be written.
released(state) == IF state.inFlight = 0 /\ ~state.persistFailed THEN NoState ELSE state

\* One lease less, and `state` for the object.
endLease(l, state) ==
  /\ leases' = [leases EXCEPT ![l] = NoLease]
  /\ modelHealth' = [modelHealth EXCEPT ![leases[l].model] = released([state EXCEPT !.inFlight = @ - 1])]

\* A check changes no cooldown.
leaseModelCheck(l) ==
  /\ leases[l].on /\ leases[l].check
  /\ IF leases[l].own THEN endLease(l, modelHealth[leases[l].model])
     ELSE leases' = [leases EXCEPT ![l] = NoLease] /\ UNCHANGED modelHealth
  /\ UNCHANGED <<lifecycle, resumed, offered, modelRow, succeeded, sequence, modelClock, failuresSeen, modelLeft>>
-----------------------------------------------------------------------------
(* The end of a request.                                                      *)

\* The exchange sets the outcome of its request, and may set it again until it closes.
concludes(l, success) ==
  /\ leases[l].on /\ ~leases[l].check
  /\ succeeded' = IF success THEN succeeded \cup {l} ELSE succeeded \ {l}
  /\ succeeded' # succeeded
  /\ UNCHANGED <<lifecycle, resumed, offered, modelRow, modelHealth, leases, sequence, modelClock, failuresSeen, modelLeft>>

\* Failures are counted from the first one of a window, and each reason anew.
windowBegins(stored, reason) ==
  \/ reason # stored.reason
  \/ reason = "upstream_error" /\ modelClock - stored.window >= TransientWindow

counted(stored, reason) ==
  [stored EXCEPT !.failures = minOf(FailureCap, (IF windowBegins(stored, reason) THEN 0 ELSE @) + 1),
                 !.window = IF windowBegins(stored, reason) THEN modelClock ELSE @,
                 !.reason = reason]

transientDelay(n) == minOf(MaxDelay, TransientCooldown * 2 ^ minOf(4, n - TransientThreshold))

ASSUME DelaysAssumption == \A n \in TransientThreshold..FailureCap : transientDelay(n) \in Nat

\* A rate limit cools for as long as it asked; transient failures once there are enough of them.
asked(next, delay) ==
  IF next.reason = "rate_limited" THEN modelClock + delay
  ELSE IF next.failures >= TransientThreshold THEN modelClock + transientDelay(next.failures) ELSE 0

mCooled(next, delay) == [next EXCEPT !.cooldown = asked(next, delay)]
cooled(next, delay) == [next EXCEPT !.cooldown = maxOf(@, asked(next, delay))]

SaveAccountModelRuntime(m, next) ==
  [next EXCEPT !.version = IF modelRow[m].on THEN modelRow[m].version + 1 ELSE 1]

\* A lease whose object was superseded only ends.
finishDisowned(l) ==
  /\ leases[l].on /\ ~leases[l].check /\ ~leases[l].own
  /\ leases' = [leases EXCEPT ![l] = NoLease] /\ succeeded' = succeeded \ {l}
  /\ UNCHANGED <<lifecycle, resumed, offered, modelRow, modelHealth, sequence, modelClock, failuresSeen, modelLeft>>

failure(m, reason, delay) ==
  [id |-> Cardinality(failuresSeen[m]), reason |-> reason, at |-> modelClock, until |-> IF reason = "rate_limited" THEN modelClock + delay ELSE 0, sequence |-> sequence + 1]

\* The save is refused when the account has moved on; when it fails, memory keeps the failure.
finishFailed(l, reason, delay, ok) ==
  /\ leases[l].on /\ ~leases[l].check /\ leases[l].own /\ l \notin succeeded
  /\ reason = "upstream_error" => TransientThreshold > 0
  /\ IF ok THEN UNCHANGED modelLeft ELSE spendModel
  /\ \E m \in {leases[l].model} : \E state \in {modelHealth[m]} :
       \E next \in {cooled(counted(state.stored, reason), delay)} :
         /\ IF ~ok
            THEN /\ endLease(l, [state EXCEPT !.stored = next, !.lastFailure = sequence + 1, !.persistFailed = TRUE])
                 /\ UNCHANGED modelRow
            ELSE IF inEpoch(state.stored)
            THEN /\ modelRow' = [modelRow EXCEPT ![m] = SaveAccountModelRuntime(m, next)]
                 /\ endLease(l, [state EXCEPT !.stored = modelRow'[m], !.lastFailure = sequence + 1, !.persistFailed = FALSE])
            ELSE endLease(l, state) /\ UNCHANGED modelRow
         /\ failuresSeen' = IF inEpoch(state.stored) THEN [failuresSeen EXCEPT ![m] = @ \cup {failure(m, reason, delay)}] ELSE failuresSeen
  /\ sequence' = sequence + 1
  /\ UNCHANGED <<lifecycle, resumed, offered, succeeded, modelClock>>

mClears(l, state) ==
  /\ state.stored.cooldown <= modelClock /\ state.stored.failures > 0

\* Only a request that was admitted after the last failure shows that it is over.
clears(l, state) ==
  /\ state.stored.cooldown <= modelClock /\ state.stored.failures > 0
  /\ state.lastFailure < leases[l].sequence

DeleteAccountModelLimit(m, stored) ==
  IF modelRow[m].on /\ inEpoch(modelRow[m]) /\ modelRow[m].version = stored.version /\ inEpoch(stored)
  THEN [modelRow EXCEPT ![m] = NoState] ELSE modelRow

mFinishModelRuntime(l, ok) ==
  /\ leases[l].on /\ ~leases[l].check /\ leases[l].own
  /\ IF ok THEN UNCHANGED modelLeft ELSE spendModel
  /\ \E m \in {leases[l].model} : \E state \in {modelHealth[m]} :
       IF clears(l, state)
       THEN IF ok THEN /\ modelRow' = DeleteAccountModelLimit(m, state.stored)
                       /\ endLease(l, [state EXCEPT !.stored.failures = 0, !.stored.cooldown = 0, !.persistFailed = FALSE])
            ELSE endLease(l, [state EXCEPT !.persistFailed = TRUE]) /\ UNCHANGED modelRow
       ELSE endLease(l, state) /\ UNCHANGED modelRow
  /\ succeeded' = succeeded \ {l}
  /\ UNCHANGED <<lifecycle, resumed, offered, sequence, modelClock, failuresSeen>>

\* Only a success clears the failures of the model.
finishModelRuntime(l, ok) ==
  /\ leases[l].on /\ ~leases[l].check /\ leases[l].own
  /\ IF ok THEN UNCHANGED modelLeft ELSE spendModel
  /\ \E m \in {leases[l].model} : \E state \in {modelHealth[m]} :
       IF l \in succeeded /\ clears(l, state)
       THEN IF ok THEN /\ modelRow' = DeleteAccountModelLimit(m, state.stored)
                       /\ endLease(l, [state EXCEPT !.stored.failures = 0, !.stored.cooldown = 0, !.persistFailed = FALSE])
            ELSE endLease(l, [state EXCEPT !.persistFailed = TRUE]) /\ UNCHANGED modelRow
       ELSE endLease(l, state) /\ UNCHANGED modelRow
  /\ succeeded' = succeeded \ {l}
  /\ UNCHANGED <<lifecycle, resumed, offered, sequence, modelClock, failuresSeen>>
-----------------------------------------------------------------------------
(* The account.                                                               *)

\* The account is authorized again, or its models change.
authorizedAgain ==
  /\ spendModel /\ lifecycle' = lifecycle + 1
  /\ failuresSeen' = [m \in Models |-> {}]
  /\ UNCHANGED <<resumed, offered, modelRow, modelHealth, leases, succeeded, sequence, modelClock>>

catalogChanges(m) ==
  /\ spendModel /\ offered' = IF m \in offered THEN offered \ {m} ELSE offered \cup {m}
  /\ UNCHANGED <<lifecycle, resumed, modelRow, modelHealth, leases, succeeded, sequence, modelClock, failuresSeen>>

\* An administrator ends every cooldown.
Resume ==
  /\ spendModel /\ resumed' = resumed + 1
  /\ modelRow' = [m \in Models |-> NoState]
  /\ modelHealth' = [m \in Models |-> NoState]
  /\ leases' = disowned(Models)
  /\ failuresSeen' = [m \in Models |-> {}]
  /\ UNCHANGED <<lifecycle, offered, succeeded, sequence, modelClock>>

\* The process starts again; what could not be written is forgotten.
modelRestart ==
  /\ spendModel
  /\ failuresSeen' = [m \in Models |-> {[f EXCEPT !.sequence = 0, !.until = IF modelHealth[m].on /\ modelHealth[m].persistFailed THEN 0 ELSE @]
                              : f \in failuresSeen[m]}]
  /\ modelHealth' = [m \in Models |-> NoState] /\ leases' = [l \in Leases |-> NoLease] /\ succeeded' = {} /\ sequence' = 0
  /\ UNCHANGED <<lifecycle, resumed, offered, modelRow, modelClock>>

modelTick ==
  /\ modelClock < MaxModelTime /\ modelClock' = modelClock + 1
  /\ UNCHANGED <<lifecycle, resumed, offered, modelRow, modelHealth, leases, succeeded, sequence, failuresSeen, modelLeft>>

ModelNext ==
  \/ loadRuntimeRows \/ authorizedAgain \/ Resume \/ modelRestart \/ modelTick
  \/ \E m \in Models : catalogChanges(m)
  \/ \E l \in Leases :
       \/ \E m \in Models, check \in BOOLEAN : modelLease(l, m, check)
       \/ leaseModelCheck(l)
       \/ finishDisowned(l)
       \/ \E success \in BOOLEAN : concludes(l, success)
       \/ \E ok \in BOOLEAN :
            \/ finishModelRuntime(l, ok)
            \/ finishFailed(l, "upstream_error", 0, ok)
            \/ \E delay \in RetryDelays : finishFailed(l, "rate_limited", delay, ok)

ModelSpec == ModelInit /\ [][ModelNext]_modelVars
-----------------------------------------------------------------------------
(* Properties.                                                                *)

knownState(m) == readModelRuntime(modelRow, m).stored
leased(l) == ~leases[l].on /\ leases'[l].on
sameEpoch(a, b) == leases[a].lifecycle = leases[b].lifecycle /\ leases[a].resumed = leases[b].resumed

\* A model that recovers from a failure is tried by one request at a time: while a probe runs nothing else of
\* its epoch runs on the model, however leases, checks, failures and failed writes are interleaved.
OneProbe ==
  \A a, b \in Leases :
    /\ leases[a].on /\ leases[b].on /\ a # b /\ leases[a].model = leases[b].model /\ sameEpoch(a, b)
    => ~leases[a].probe

\* The count that decides whether an object may be dropped is the number of leases that share it.
LeasesCounted ==
  \A m \in Models :
    LET owners == Cardinality({l \in Leases : leases[l].on /\ leases[l].own /\ leases[l].model = m})
    IN  IF modelHealth[m].on THEN modelHealth[m].inFlight = owners ELSE owners = 0

\* No request is admitted to a model before the end of the delay that some response of this epoch asked for,
\* of which retryDelay keeps at most an hour, whichever responses came after it and whether or not they could
\* be stored.
WaitsRespected ==
  [][\A l \in Leases : leased(l) => \A f \in failuresSeen[leases'[l].model] : f.until <= modelClock]_modelVars

\* The row of a model says nothing any more that admission heeds, and the model is no longer offered.
obsolete(m) == modelRow[m].cooldown <= modelClock /\ m \notin offered

\* The step ends a request that succeeded and was admitted after every failure of the model.
clearedBySuccess(m) ==
  \E l \in Leases :
    /\ leases[l].on /\ ~leases'[l].on /\ leases[l].model = m /\ ~leases[l].check /\ l \in succeeded
    /\ \A f \in failuresSeen[m] : f.sequence < leases[l].sequence

\* The step forgets what the row says, or what is known of the model: by its object, or by the row alone.
rowForgotten(m) ==
  inEpoch(modelRow[m]) /\ ~(modelRow'[m].on /\ modelRow'[m].lifecycle = lifecycle
                               /\ modelRow'[m].resumed = resumed /\ modelRow'[m].failures > 0)
knownForgotten(m) == knownState(m).failures > 0 /\ (knownState(m))'.failures = 0

\* Within an epoch, the failures of a model are forgotten only when a request succeeds that was admitted after
\* the last of them, or when they keep no request waiting and the model is no longer offered.  What has no row
\* is forgotten by a restart, when its row could not be written, or with its last lease, when the row was
\* obsolete (the end of finishModelRuntime, DeleteObsoleteModelRuntime).
ClearedByNewer ==
  [][\A m \in Models : UNCHANGED <<lifecycle, resumed>> /\ (rowForgotten(m) \/ knownForgotten(m)) =>
       \/ clearedBySuccess(m)
       \/ inEpoch(modelRow[m]) /\ obsolete(m)
       \/ /\ ~inEpoch(modelRow[m])
          /\ IF modelHealth[m].persistFailed THEN sequence' = 0 ELSE knownState(m).cooldown <= modelClock]_modelVars

\* Transient failures close a model only when there were enough of them within one window.
ThresholdWithinWindow ==
  [][\A m \in Models :
       /\ failuresSeen'[m] # failuresSeen[m] /\ (knownState(m))'.reason = "upstream_error"
       /\ (knownState(m))'.cooldown > knownState(m).cooldown
       => Cardinality({f \in failuresSeen'[m] : f.reason = "upstream_error" /\ f.at + TransientWindow > modelClock}) >= TransientThreshold]_modelVars

\* One probe at a time, and an object is dropped only when no lease shares it.
ProbesAlone == OneProbe /\ LeasesCounted

\* A model is closed for long enough and for enough failures, and opened only by what is newer.
FailuresWeighed == WaitsRespected /\ ClearedByNewer /\ ThresholdWithinWindow
=============================================================================
