----------------------------- MODULE MCConsole -----------------------------
(* What the console's handlers write, with two of its requests in flight: the *)
(* accounts and sessions of the owner and three members (Identity), and the   *)
(* members, pools, keys and schemes of one workspace (Workspaces).            *)
(* They share no state here; a behaviour is of one of them, chosen at the     *)
(* beginning, and the state of the other stays as it began.                   *)
EXTENDS Identity, Workspaces, TLC

CONSTANTS m1, m2, m3,  \* the members: m1 is the one that a behaviour begins with
          p1, k1       \* the pool and the key that a behaviour begins with

Symmetry == Permutations(Calls)

-----------------------------------------------------------------------------
VARIABLE part

\* Who is the member and which are the pool and the key makes no difference.
ConsoleInit ==
  /\ part \in {"identity", "workspace"} /\ IdentityInit /\ WorkspacesInit
  /\ memberships[m1].role = "member" /\ account_groups[p1].exists /\ api_keys[k1].user = m1
  /\ freshInstall \/ (part = "identity" /\ users[m1].totp # none)

\* Nor does it who is the first of those without an account to be named by a call.
Newcomers == <<m1, m2, m3>>
named(u) == exists(u) \/ \E c \in Calls : call[c].user = u
inTurn ==
  \A i \in 2..Len(Newcomers), c \in Calls :
    call'[c].user = Newcomers[i] /\ ~named(Newcomers[i]) => named(Newcomers[i - 1])

ConsoleNext ==
  /\ UNCHANGED part
  /\ \/ part = "identity" /\ IdentityNext /\ inTurn /\ UNCHANGED wsVars
     \/ part = "workspace" /\ WorkspacesNext /\ UNCHANGED identityVars

ConsoleSpec == ConsoleInit /\ [][ConsoleNext]_<<part, identityVars, wsVars>>
=============================================================================
