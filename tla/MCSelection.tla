----------------------------- MODULE MCSelection -----------------------------
(* What a request meets before it is admitted.  Allowance: the token scheme   *)
(* and the ledger of two members' requests.  Selection: the account of a pool *)
(* of four for one member's requests and conversations; an account where the  *)
(* scheme has nothing left is refused.  They share no state here; a behaviour *)
(* is of one of them, chosen at the beginning.                                *)
EXTENDS MCAllowance, Selection

-----------------------------------------------------------------------------
(* The pool: two accounts of a subscription provider, one of another and one   *)
(* with an API key.  The first meets every condition that decides a choice.    *)
MCRows == <<"x1", "x2", "x3", "x4">>
MCProviderOf == ("x1" :> "codex") @@ ("x2" :> "codex") @@ ("x3" :> "claude") @@ ("x4" :> "openai")

Sound ==
  [pooled |-> TRUE, usable |-> TRUE, gate |-> "open", lanes |-> [m \in ChatModels |-> "open"], spent |-> FALSE,
   weight |-> 1, catalog |-> [fresh |-> TRUE, current |-> TRUE, models |-> ChatModels]]

AllConditions ==
  {[Sound EXCEPT !.pooled = FALSE], [Sound EXCEPT !.usable = FALSE], [Sound EXCEPT !.gate = "busy"],
   [Sound EXCEPT !.gate = "cooling"], [Sound EXCEPT !.lanes["p"] = "cooling"], [Sound EXCEPT !.spent = TRUE],
   [Sound EXCEPT !.weight = 2], [Sound EXCEPT !.weight = 0],
   [Sound EXCEPT !.catalog.fresh = FALSE],
   [Sound EXCEPT !.catalog.models = {"p"}],
   [Sound EXCEPT !.catalog.models = {"q"}],
   [Sound EXCEPT !.catalog.current = FALSE, !.catalog.models = {"q"}]}

MCConditions ==
  ("x1" :> AllConditions) @@ ("x2" :> {[Sound EXCEPT !.weight = 2], [Sound EXCEPT !.usable = FALSE]})
  @@ ("x3" :> {[Sound EXCEPT !.gate = "busy"]}) @@ ("x4" :> {[Sound EXCEPT !.pooled = FALSE]})

MCOffers == ("x1" :> {"p"}) @@ ("x2" :> {"p", "q"}) @@ ("x3" :> {"q"}) @@ ("x4" :> {"p", "q"})

MCInitially ==
  [a \in DOMAIN MCOffers |->
    [Sound EXCEPT !.catalog.models = MCOffers[a], !.weight = IF a = "x1" THEN 2 ELSE 1]]

Even == [preference |-> "protocol", fallback |-> FALSE, weighted |-> TRUE, restricted |-> FALSE, rules |-> {}]

MCPolicies ==
  {Even, [Even EXCEPT !.weighted = FALSE], [Even EXCEPT !.preference = "subscription_first"],
   [Even EXCEPT !.preference = "subscription_first", !.fallback = TRUE],
   [Even EXCEPT !.preference = "api_first"],
   [Even EXCEPT !.restricted = TRUE,
                !.rules = {[scope |-> "codex", model |-> "p"], [scope |-> "", model |-> "q"]}]}

Bare ==
  [thread |-> "t1", parent |-> "none", provider |-> "", model |-> "p", kind |-> "responses", affinity |-> "pinned",
   refused |-> {}]

\* Requests of one thread that may move or not, of a thread of its own, of a child of the thread, and of none.
MCAsked ==
  {[Bare EXCEPT !.provider = v, !.model = m, !.affinity = f] :
      v \in {"", "codex"}, m \in ChatModels, f \in {"portable", "continuation"}}
  \cup {[Bare EXCEPT !.provider = "claude", !.model = "q"]}
  \cup {[Bare EXCEPT !.thread = "none"], [Bare EXCEPT !.thread = "none", !.refused = {"x1"}],
        [Bare EXCEPT !.thread = "none", !.model = "q", !.kind = "messages"],
        [Bare EXCEPT !.thread = "none", !.model = "q", !.kind = "compact"]}
  \cup {[Bare EXCEPT !.thread = "t2", !.parent = "t1"], [Bare EXCEPT !.thread = "t2", !.model = "q"]}
-----------------------------------------------------------------------------
VARIABLE part

RequestsInit == part \in {"allowance", "selection"} /\ Init /\ SelectInit

RequestsNext ==
  /\ UNCHANGED part
  /\ \/ part = "allowance" /\ Next /\ UNCHANGED selectVars
     \/ part = "selection" /\ SelectNext /\ UNCHANGED vars

RequestsSpec == RequestsInit /\ [][RequestsNext]_<<part, vars, selectVars>>
=============================================================================
