------------------------------- MODULE Ledger -------------------------------
(***************************************************************************)
(* What allowance accounting promises for each admitted request, whatever  *)
(* fails or restarts: one reservation, then one charge that never changes. *)
(* The charge is the usage the provider reported; when that is unknown the *)
(* request stays open until an administrator corrects it, never below what *)
(* had been observed; only a charged request is ever forgotten.  A step    *)
(* may move several accounts, as the retry of failed settlements does.     *)
(***************************************************************************)
EXTENDS Integers

CONSTANTS Requests, Amounts

VARIABLES
  status,   \* status[r]: where the account of request r stands
  usage,    \* usage[r]: what the provider reported of r
  noted,    \* noted[r]: tokens kept with an open account
  charge    \* charge[r]: what the member pays for r

vars == <<status, usage, noted, charge>>

Statuses == {"none", "active", "pending", "settled", "corrected", "pruned"}
Usages == [kind : {"none", "unknown", "known"}, tokens : Amounts]
NoUsage == [kind |-> "none", tokens |-> 0]

Init ==
  /\ status = [r \in Requests |-> "none"]
  /\ usage = [r \in Requests |-> NoUsage]
  /\ noted = [r \in Requests |-> 0]
  /\ charge = [r \in Requests |-> 0]

Keep(r) == status'[r] = status[r] /\ noted'[r] = noted[r] /\ charge'[r] = charge[r]

Reserve(r) == status[r] = "none" /\ status'[r] = "active" /\ charge'[r] = 0

\* The charge is the usage, which may have been reported by the same step.
Charge(r) ==
  /\ status[r] = "active" /\ status'[r] = "settled"
  /\ usage'[r].kind = "known" /\ charge'[r] = usage'[r].tokens

\* Usage is unknown, or a restart has lost it.
Suspend(r) ==
  /\ status[r] = "active" /\ status'[r] = "pending" /\ charge'[r] = 0
  /\ \/ usage'[r].kind = "unknown" /\ noted'[r] = usage'[r].tokens
     \/ noted'[r] = 0

Correct(r) ==
  /\ status[r] = "pending" /\ status'[r] = "corrected"
  /\ charge'[r] \in Amounts /\ charge'[r] >= noted[r]

Forget(r) ==
  /\ status[r] \in {"settled", "corrected"} /\ status'[r] = "pruned"
  /\ charge'[r] = charge[r]

\* Usage is reported at most once.
Report(r) == usage'[r] = usage[r] \/ (usage[r] = NoUsage /\ usage'[r] \in Usages)

Move(r) == Keep(r) \/ Reserve(r) \/ Charge(r) \/ Suspend(r) \/ Correct(r) \/ Forget(r)

Next == \A r \in Requests : Report(r) /\ Move(r)

Spec == Init /\ [][Next]_vars
=============================================================================
