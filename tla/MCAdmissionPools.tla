--------------------------- MODULE MCAdmissionPools ---------------------------
(* Two pools that share an account, two members: "p" is in both pools, "q"   *)
(* only in the second.  The third request is bound to "p" by its session.    *)
EXTENDS Admission

MCOwner    == [r \in Requests |-> IF r = 2 THEN "v" ELSE "u"]
MCGroup    == [r \in Requests |-> IF r = 1 THEN "g" ELSE "h"]
MCPool     == [g \in Groups |-> IF g = "g" THEN {"p"} ELSE {"p", "q"}]
MCEligible == [r \in Requests |-> IF r = 2 THEN {"p", "q"} ELSE {"p"}]
=============================================================================
