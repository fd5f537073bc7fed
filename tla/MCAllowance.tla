---------------------------- MODULE MCAllowance ----------------------------
(***************************************************************************)
(* Instances of Allowance: two members share the first one's requests in   *)
(* the settlement run, one member uses overlapping windows, and a pool of  *)
(* two shares moves between its members.                                   *)
(***************************************************************************)
EXTENDS Allowance, TLC
CONSTANTS u1, u2, Later

\* The requests of the second member.
MCOwner == [r \in Requests |-> IF r \in Later THEN u2 ELSE u1]
PoolTotal == [d \in Durations |-> 2]
WindowTotal == [d \in Durations |-> IF d = 1 THEN 1 ELSE 2]
Uniform(share) == [d \in Durations |-> share]
\* A token scheme of small fixed limits.
TokenConfigs == {[m \in Members |-> Uniform(2)]}
\* The shared window limits, and a short window without a limit.
WindowConfigs ==
  {[m \in Members |-> Uniform(Inherit)],
   [m \in Members |-> [d \in Durations |-> IF d = 1 THEN 0 ELSE Inherit]]}
\* Equal shares, and the second member removed in favour of the first.
RatioConfigs ==
  {[m \in Members |-> Uniform(5000)], [m \in {u1} |-> Uniform(10000)]}
\* What is spent is bounded in a process that keeps running; Spec adds its restarts.
SteadySpec == Init /\ [][operations]_vars
\* Requests of one member are interchangeable.
MCSymmetry == Permutations(Requests \ Later) \cup Permutations(Later)
=============================================================================
