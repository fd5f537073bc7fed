----------------------------- MODULE MCQuotas -------------------------------
(* What is counted and given back over time: the reset calendar, the revisions *)
(* of an allowance, and the reset credits of an account.  None shares state    *)
(* with another; a behaviour is of one of them, chosen at the beginning.       *)
EXTENDS Schemes, ResetCredits, TLC

CONSTANTS c1, c2, card1, card2

S(mode, period, reset, resetDay, windows) ==
  [mode |-> mode, period |-> period, reset |-> reset, day |-> resetDay, windows |-> windows]
MCSchedules == {S("windows", "durations", 0, 0, {2}), S("tokens", "day", 1, 0, {})}
MCCalendars == {S("tokens", "day", r, 0, {}) : r \in 0..3} \cup {S("tokens", "month", r, d, {}) : r \in {0, 3}, d \in 0..3}
Z(changes) == [before |-> 0, changes |-> changes]
MCZones == {[order |-> 0] @@ Z(<<>>), [order |-> 1] @@ Z(3 :> 1)}
MCCivilZones ==
  {Z(<<>>), Z(7 :> 2), Z(10 :> 1), Z(5 :> -1), Z(11 :> -1), Z(6 :> -2), Z((5 :> -1) @@ (7 :> 1)), Z((6 :> 2) @@ (13 :> 0))}
MCMonths == <<0, 3, 5>>
MCResets == [z \in Zones |-> [c \in {s \in Schedules : s.period # "durations"} |->
               [t \in 0..LastReset |-> Window(t, c, z).end]]]

\* A daily schedule of reset credits, a one-time one, and a stricter or laxer limit.
MCConfigs ==
  {[scheduled |-> FALSE, exhausted |-> TRUE, date |-> 0, limit |-> 2],
   [scheduled |-> TRUE, exhausted |-> FALSE, date |-> 0, limit |-> 1],
   [scheduled |-> TRUE, exhausted |-> FALSE, date |-> 2, limit |-> 1]}

VARIABLE part   \* the component that runs, the others keep their first state

QuotaInit ==
  /\ part \in {"calendar", "schemes", "resets"}
  /\ Init /\ SchemesInit /\ CalendarInit

\* Only the reset credits must always have a next step; time ends for the others at their bounds.
QuotaNext ==
  /\ UNCHANGED part
  /\ \/ part = "calendar" /\ CalendarNext /\ UNCHANGED <<schemeVars, vars>>
     \/ part = "schemes" /\ SchemesNext /\ UNCHANGED <<calendarVars, vars>>
     \/ part = "resets" /\ Next /\ UNCHANGED <<calendarVars, schemeVars>>
     \/ part # "resets" /\ UNCHANGED <<calendarVars, schemeVars, vars>>

QuotaSpec == QuotaInit /\ [][QuotaNext]_<<part, schemeVars, calendarVars, vars>>

Symmetry == Permutations(MemberSets) \cup Permutations({c1, c2}) \cup Permutations({card1, card2})
=============================================================================
