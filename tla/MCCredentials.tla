---------------------------- MODULE MCCredentials ----------------------------
(* Two requests share one account. *)
EXTENDS Credentials, TLC

CONSTANTS c1, c2

MCSymmetry == Permutations({c1, c2})
=============================================================================
