----------------------------- MODULE MCAdmission -----------------------------
(* One pool, one account, any requests of one member: the lease, cooldown,   *)
(* probe and queue rules of a single account.                                *)
EXTENDS Admission, TLC

MCOwner    == [r \in Requests |-> CHOOSE u \in Members : TRUE]
MCGroup    == [r \in Requests |-> CHOOSE g \in Groups : TRUE]
MCPool     == [g \in Groups |-> Accounts]
MCEligible == [r \in Requests |-> Accounts]
MCSymmetry == Permutations(Requests)
=============================================================================
