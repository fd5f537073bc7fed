------------------------------- MODULE Alerts -------------------------------
(* The notifications of one workspace: internal/alerts.                       *)
(*                                                                            *)
(* One check at a time runs (the mutex `checking`): it reads the settings,    *)
(* asks the capacity and the allowance observers without the lock, compares   *)
(* what they saw with the rows of alert_states, and sends the rows that the   *)
(* webhook was not told of, one after the other, each send outside the lock.  *)
(* Meanwhile the settings change, a test message is sent and the process may  *)
(* stop.  Times are what is left of them, in ticks.  The workspace stays      *)
(* active; the order in which the pending rows are sent is left open.         *)
EXTENDS Naturals, FiniteSets

CONSTANTS
  BaseKeys,        \* incidents that ListAlertSignals reads from the database
  CapacityKeys,    \* model_unavailable and quota_low
  AllowanceKeys,   \* allowance_low: a member, a window and a threshold
  Endpoints,
  SendLimit,       \* deliveries per check
  AttemptLimit, DelayLimit, TestDelay,
  MaxAlertEvents   \* bound: changes of the settings and outside, tests, stops and lost answers together

ASSUME AlertsAssumption == AttemptLimit \in Nat \ {0} /\ DelayLimit \in Nat /\ SendLimit \in Nat

NoEndpoint == "none"
PrivateEndpoint == "private"   \* an address that is not public
Keys == BaseKeys \cup CapacityKeys \cup AllowanceKeys

VARIABLES
  alertConfig,   \* [enabled, endpoint, seal, watch, tested]: tenants.alert_config; watch: model alerts or a quota threshold
  alertStates,   \* alert_states: row by key
  checker,       \* the check that runs
  testFlight,    \* the test message being sent
  cooling,       \* what is left of the test cooldown
  failing, unknown, cycle,   \* the incidents, what cannot be observed, the accounting period
  events,        \* event ids issued
  told,          \* history: cycles for which the webhook received "firing", by key
  fired,         \* history: cycles for which a firing event was made since the states were cleared
  fine,          \* history: incidents seen absent since the check began
  left           \* what is left of the bound

alertVars == <<alertConfig, alertStates, checker, testFlight, cooling, failing, unknown, cycle, events, told, fired, fine, left>>
world == <<failing, unknown, cycle>>

NoRow == [event |-> 0, active |-> FALSE, delivered |-> FALSE, attempts |-> 0, wait |-> 0, failed |-> FALSE, cycle |-> 0]
Idle == [phase |-> "idle"]
NoTest == [sending |-> FALSE]

AlertsInit ==
  /\ alertConfig = [enabled |-> FALSE, endpoint |-> NoEndpoint, seal |-> 0, watch |-> TRUE, tested |-> 0]
  /\ alertStates = [k \in Keys |-> NoRow]
  /\ checker = Idle /\ testFlight = NoTest /\ cooling = 0
  /\ failing = {} /\ unknown = {} /\ cycle = 1
  /\ events = 0
  /\ told = [k \in Keys |-> {}] /\ fired = [k \in Keys |-> {}] /\ fine = {}
  /\ left = MaxAlertEvents

spend == left > 0 /\ left' = left - 1

pending(row) == row.active # row.delivered

GetAlertConfig == alertConfig
ListAlertStates == {<<k, alertStates[k]>> : k \in {k \in Keys : alertStates[k].event # 0}}
-----------------------------------------------------------------------------
(* Settings.                                                                  *)

ValidateDestination(url) == url \in Endpoints

ClearAlertStates ==
  /\ alertStates' = [k \in Keys |-> NoRow]
  /\ fired' = [k \in Keys |-> {}]

mUpdate(enabled, watch, url, clear) ==
  /\ spend
  /\ ~(clear /\ (enabled \/ url # NoEndpoint))
  /\ url # NoEndpoint => ValidateDestination(url)
  /\ \E endpoint \in {IF url # NoEndpoint THEN url ELSE IF clear THEN NoEndpoint ELSE alertConfig.endpoint} :
       /\ enabled => endpoint # NoEndpoint
       /\ alertConfig' = [alertConfig EXCEPT !.enabled = enabled, !.watch = watch, !.endpoint = endpoint,
                                                  !.seal = IF url = NoEndpoint THEN @ ELSE @ + 1]
  /\ IF url # NoEndpoint \/ clear \/ ~enabled THEN ClearAlertStates ELSE UNCHANGED <<alertStates, fired>>
  /\ UNCHANGED <<checker, testFlight, cooling, world, events, told, fine>>

\* An endpoint is sealed to new bytes each time: the same url saved again changes the settings.
Update(enabled, watch, url, clear) ==
  /\ spend
  /\ ~(clear /\ (enabled \/ url # NoEndpoint))
  /\ url # NoEndpoint => ValidateDestination(url)
  /\ \E endpoint \in {IF url # NoEndpoint THEN url ELSE IF clear THEN NoEndpoint ELSE alertConfig.endpoint} :
       /\ enabled => endpoint # NoEndpoint
       /\ alertConfig' = [alertConfig EXCEPT !.enabled = enabled, !.watch = watch, !.endpoint = endpoint,
                                                  !.seal = IF url = NoEndpoint THEN @ ELSE @ + 1]
  /\ IF url # NoEndpoint \/ clear \/ ~enabled THEN ClearAlertStates ELSE UNCHANGED <<alertStates, fired>>
  /\ checker' = IF checker.phase = "sending" THEN [checker EXCEPT !.canceled = TRUE] ELSE checker
  /\ testFlight' = IF testFlight.sending THEN [testFlight EXCEPT !.canceled = TRUE] ELSE testFlight
  /\ UNCHANGED <<cooling, world, events, told, fine>>

\* The cooldown is saved before the message is sent, so it outlives a failed send and a restart.
Test ==
  /\ spend
  /\ alertConfig.endpoint # NoEndpoint /\ cooling = 0 /\ ~testFlight.sending
  /\ alertConfig' = [alertConfig EXCEPT !.tested = @ + 1]
  /\ cooling' = TestDelay
  /\ testFlight' = [sending |-> TRUE, endpoint |-> alertConfig.endpoint, canceled |-> FALSE]
  /\ UNCHANGED <<alertStates, checker, world, events, told, fired, fine>>

testDone ==
  /\ testFlight.sending
  /\ testFlight' = NoTest
  /\ UNCHANGED <<alertConfig, alertStates, checker, cooling, world, events, told, fired, fine, left>>
-----------------------------------------------------------------------------
(* A check: checkWorkspace, observe, deliver.                                 *)

beginCheck ==
  /\ checker.phase = "idle" /\ GetAlertConfig.enabled
  /\ checker' = [phase |-> "looking", raw |-> GetAlertConfig]
  /\ fine' = Keys \ failing
  /\ UNCHANGED <<alertConfig, alertStates, testFlight, cooling, world, events, told, fired, left>>

\* What the observers say: the signals and what is uncertain.  Nothing is asked when nothing is watched.
observeCapacity(fails) ==
  IF ~checker.raw.watch THEN [signals |-> {}, uncertain |-> {}]
  ELSE IF fails THEN [signals |-> {}, uncertain |-> CapacityKeys]
  ELSE [signals |-> (failing \cap CapacityKeys) \ unknown, uncertain |-> unknown \cap CapacityKeys]

ThresholdAlerts(fails) ==
  IF fails THEN [signals |-> {}, uncertain |-> AllowanceKeys]
  ELSE [signals |-> failing \cap AllowanceKeys, uncertain |-> {}]

look(capacityFails, allowanceFails) ==
  /\ checker.phase = "looking"
  /\ \E c \in {observeCapacity(capacityFails)} : \E a \in {ThresholdAlerts(allowanceFails)} :
       checker' = [phase |-> "looked", raw |-> checker.raw, signals |-> c.signals \cup a.signals,
                   uncertain |-> c.uncertain \cup a.uncertain, cycle |-> cycle]
  /\ UNCHANGED <<alertConfig, alertStates, testFlight, cooling, world, events, told, fired, fine, left>>

\* The row that observe saves for a key, or the row as it is.
mObserve(k, row, signals, uncertain, period, event) ==
  LET active == k \in signals
      newCycle == k \in AllowanceKeys /\ active /\ row.cycle # period IN
  IF \/ k \in uncertain /\ ~active
     \/ k \in AllowanceKeys /\ active /\ row.cycle = period /\ row.event # 0
     \/ row.event # 0 /\ row.active = active /\ ~newCycle
     \/ row.event = 0 /\ ~active
  THEN row
  ELSE [row EXCEPT !.active = active, !.event = event, !.attempts = 0, !.wait = 0, !.failed = FALSE,
                   !.cycle = IF newCycle THEN period ELSE @]

mUncertain(k, row, signals, uncertain, period, event) ==
  LET active == k \in signals
      newCycle == k \in AllowanceKeys /\ active /\ row.cycle # period IN
  IF \/ k \in AllowanceKeys /\ active /\ row.cycle = period /\ row.event # 0
     \/ row.event # 0 /\ row.active = active /\ ~newCycle
     \/ row.event = 0 /\ ~active
  THEN row
  ELSE [row EXCEPT !.active = active, !.event = event, !.attempts = 0, !.wait = 0, !.failed = FALSE,
                   !.cycle = IF newCycle THEN period ELSE @, !.delivered = @ /\ ~newCycle]

observed(k, row, signals, uncertain, period, event) ==
  LET active == k \in signals
      newCycle == k \in AllowanceKeys /\ active /\ row.cycle # period IN
  IF \/ k \in uncertain /\ ~active
     \/ k \in AllowanceKeys /\ active /\ row.cycle = period /\ row.event # 0
     \/ row.event # 0 /\ row.active = active /\ ~newCycle
     \/ row.event = 0 /\ ~active
  THEN row
  ELSE [row EXCEPT !.active = active, !.event = event, !.attempts = 0, !.wait = 0, !.failed = FALSE,
                   !.cycle = IF newCycle THEN period ELSE @, !.delivered = @ /\ ~newCycle]

ListAlertSignals == failing \cap BaseKeys

saveObserved(after) ==
  /\ alertStates' = after
  /\ events' = IF after = alertStates THEN events ELSE events + 1
  /\ fired' = [k \in Keys |-> IF after[k].event # alertStates[k].event /\ after[k].active
                              THEN fired[k] \cup {after[k].cycle} ELSE fired[k]]
  /\ checker' = [phase |-> "sends", raw |-> checker.raw, sends |-> SendLimit,
                 todo |-> {p \in ListAlertStates' : pending(p[2])}]

observe ==
  /\ checker.phase = "looked"
  /\ IF GetAlertConfig # checker.raw
     THEN checker' = Idle /\ UNCHANGED <<alertStates, events, fired>>
     ELSE saveObserved([k \in Keys |-> observed(k, alertStates[k], checker.signals \cup ListAlertSignals,
                                                checker.uncertain, checker.cycle, events + 1)])
  /\ UNCHANGED <<alertConfig, testFlight, cooling, world, told, fine, left>>

backoff(attempts) == IF 2 ^ (attempts - 1) < DelayLimit THEN 2 ^ (attempts - 1) ELSE DelayLimit

\* The wait is a power of two up to the limit.
ASSUME BackoffAssumption == \A n \in 1..AttemptLimit : backoff(n) \in 0..DelayLimit

claimed(row) ==
  LET attempts == IF row.attempts + 1 < AttemptLimit THEN row.attempts + 1 ELSE AttemptLimit IN
  [row EXCEPT !.attempts = attempts, !.wait = backoff(attempts)]

SaveAlertState(k, row) == alertStates' = [alertStates EXCEPT ![k] = row]

\* The attempt is saved before the send; rows that wait are passed over, and changed settings end the check.
claim ==
  /\ checker.phase = "sends"
  /\ \E p \in checker.todo :
       /\ checker.sends > 0 /\ p[2].wait = 0
       /\ IF GetAlertConfig # checker.raw
          THEN checker' = Idle /\ UNCHANGED alertStates
          ELSE /\ SaveAlertState(p[1], claimed(p[2]))
               /\ checker' = [phase |-> "sending", raw |-> checker.raw, sends |-> checker.sends - 1, todo |-> checker.todo \ {p},
                              key |-> p[1], row |-> p[2], answer |-> "open", canceled |-> FALSE]
  /\ UNCHANGED <<alertConfig, testFlight, cooling, world, events, told, fired, fine, left>>

endCheck ==
  /\ checker.phase = "sends"
  /\ \A p \in checker.todo : checker.sends = 0 \/ p[2].wait > 0
  /\ checker' = Idle
  /\ UNCHANGED <<alertConfig, alertStates, testFlight, cooling, world, events, told, fired, fine, left>>

\* The webhook receives the event; its answer may still be lost.
deliver(lost) ==
  /\ checker.phase = "sending" /\ checker.answer = "open" /\ ~checker.canceled
  /\ told' = IF checker.row.active THEN [told EXCEPT ![checker.key] = @ \cup {checker.row.cycle}] ELSE told
  /\ checker' = [checker EXCEPT !.answer = IF lost THEN "failed" ELSE "ok"]
  /\ IF lost THEN spend ELSE UNCHANGED left
  /\ UNCHANGED <<alertConfig, alertStates, testFlight, cooling, world, events, fired, fine>>

\* The send is refused, runs out of time or was canceled.
deliverFails ==
  /\ checker.phase = "sending" /\ checker.answer = "open"
  /\ checker' = [checker EXCEPT !.answer = "failed"]
  /\ IF checker.canceled THEN UNCHANGED left ELSE spend
  /\ UNCHANGED <<alertConfig, alertStates, testFlight, cooling, world, events, told, fired, fine>>

mFinishAlertDelivery(row) == [row EXCEPT !.attempts = 0, !.wait = 0, !.failed = FALSE]
FinishAlertDelivery(row) == [row EXCEPT !.delivered = row.active, !.attempts = 0, !.wait = 0, !.failed = FALSE]
FailAlertDelivery(row) == [row EXCEPT !.failed = TRUE]

finishSend ==
  /\ checker.phase = "sending" /\ checker.answer # "open"
  /\ alertStates' = [k \in Keys |->
       IF alertStates[k].event # checker.row.event THEN alertStates[k]
       ELSE IF k # checker.key THEN alertStates[k]
       ELSE IF checker.answer = "ok" THEN FinishAlertDelivery(alertStates[k]) ELSE FailAlertDelivery(alertStates[k])]
  /\ checker' = [phase |-> "sends", raw |-> checker.raw, sends |-> checker.sends, todo |-> checker.todo]
  /\ UNCHANGED <<alertConfig, testFlight, cooling, world, events, told, fired, fine, left>>

\* Close, or a crash: what was in flight is forgotten, the rows stay.
Close ==
  /\ spend
  /\ checker.phase # "idle" \/ testFlight.sending
  /\ checker' = Idle /\ testFlight' = NoTest
  /\ UNCHANGED <<alertConfig, alertStates, cooling, world, events, told, fired, fine>>
-----------------------------------------------------------------------------
less(n) == IF n = 0 THEN 0 ELSE n - 1
rested(row) == [row EXCEPT !.wait = less(@)]

alertTick ==
  /\ cooling' = less(cooling)
  /\ alertStates' = [k \in Keys |-> rested(alertStates[k])]
  /\ <<cooling, alertStates>>' # <<cooling, alertStates>>
  /\ checker' = IF checker.phase \notin {"sends", "sending"} THEN checker
                ELSE [checker EXCEPT !.todo = {<<p[1], rested(p[2])>> : p \in @}]
  /\ UNCHANGED <<alertConfig, testFlight, world, events, told, fired, fine, left>>

worldChanges ==
  /\ spend
  /\ \/ \E k \in Keys : failing' = (failing \ {k}) \cup ({k} \ failing) /\ UNCHANGED <<unknown, cycle>>
     \/ \E k \in CapacityKeys : unknown' = (unknown \ {k}) \cup ({k} \ unknown) /\ UNCHANGED <<failing, cycle>>
     \/ cycle' = cycle + 1 /\ UNCHANGED <<failing, unknown>>
  /\ fine' = fine \cup (Keys \ failing')
  /\ UNCHANGED <<alertConfig, alertStates, checker, testFlight, cooling, events, told, fired>>

checkSteps ==
  \/ beginCheck \/ (\E c, a \in BOOLEAN : look(c, a)) \/ observe \/ claim \/ endCheck
  \/ deliver(FALSE) \/ finishSend

AlertsNext ==
  \/ checkSteps
  \/ \E e, w, c \in BOOLEAN, u \in Endpoints \cup {NoEndpoint, PrivateEndpoint} : Update(e, w, u, c)
  \/ Test \/ testDone \/ deliver(TRUE) \/ deliverFails \/ Close
  \/ alertTick \/ worldChanges

AlertsSpec == AlertsInit /\ [][AlertsNext]_alertVars
-----------------------------------------------------------------------------
(* Properties.                                                                *)

\* The settings, the rows and the check keep their types, and a check that sends has a destination.
AlertsTypeOK ==
  /\ alertConfig.enabled \in BOOLEAN /\ alertConfig.watch \in BOOLEAN
  /\ alertConfig.enabled => alertConfig.endpoint \in Endpoints
  /\ \A k \in Keys : alertStates[k].attempts \in 0..AttemptLimit /\ alertStates[k].wait \in 0..DelayLimit
  /\ \A k \in Keys : alertStates[k].event = 0 => alertStates[k].wait = 0 /\ ~pending(alertStates[k])
  /\ checker.phase \in {"idle", "looking", "looked", "sends", "sending"}

\* A message on its way goes to the webhook that is configured and switched on, or it was canceled: Update
\* cancels what is in flight, and a check that read older settings sends nothing more.
FlightsFollowSettings ==
  /\ (checker.phase = "sending" /\ checker.answer = "open" /\ ~checker.canceled) =>
       /\ alertConfig.enabled
       /\ <<alertConfig.endpoint, alertConfig.seal>> = <<checker.raw.endpoint, checker.raw.seal>>
  /\ (testFlight.sending /\ ~testFlight.canceled) => testFlight.endpoint = alertConfig.endpoint

\* A row says that the webhook knows of an incident only if the webhook received it for this accounting
\* period: neither a lost answer, a stop, a new period nor cleared rows make a notification count as sent.
AcknowledgedAsSent ==
  \A k \in Keys : alertStates[k].delivered => alertStates[k].cycle \in told[k]

\* An incident ends only when it was seen to be over while the check ran, or is no longer watched: an
\* observer that fails and an account whose state is unknown leave it active.
ResolvedOnEvidence ==
  [][\A k \in Keys : alertStates[k].active /\ alertStates[k]'.event > alertStates[k].event /\ ~alertStates[k]'.active
       => k \in fine \/ (k \in CapacityKeys /\ ~alertConfig.watch)]_alertVars

\* An allowance that is low fires once in an accounting period, however often it falls below its threshold
\* and rises again, until the rows are cleared.
OncePerCycle ==
  [][\A k \in AllowanceKeys : alertStates[k]'.event > alertStates[k].event /\ alertStates[k]'.active /\ alertStates[k].event # 0
       => alertStates[k]'.cycle \notin fired[k]]_alertVars

\* A message goes where the settings say, and counts as sent only if it was received.
AlertsTrue == AlertsTypeOK /\ FlightsFollowSettings /\ AcknowledgedAsSent

\* An incident ends on evidence only, and a low balance fires once in an accounting period.
IncidentsEvidenced == ResolvedOnEvidence /\ OncePerCycle
=============================================================================
