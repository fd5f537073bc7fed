----------------------------- MODULE Selection -----------------------------
(* Which account of a pool serves a request: internal/gateway/selection.go,   *)
(* affinity.go and availability.go with groups/policy.go and resources.go.    *)
(*                                                                            *)
(* One member of one pool sends requests, some in a conversation (a session). *)
(* The first request of a conversation is given an account by rank and        *)
(* rotation and binds the conversation to it; the next ones go there, unless  *)
(* the client changes the model and its history can be carried elsewhere.     *)
(* What other components keep of the accounts (lifecycle, catalog, health,    *)
(* quota) changes at any time; a selection reads it in one transaction under  *)
(* the gateway's lock and is one step.                                        *)
EXTENDS Integers, Sequences, FiniteSets, SequencesExt

CONSTANTS
  RoutingRows,              \* ListRoutingAccounts: the accounts of the pool, the newest first
  ProviderOf,
  ChatModels, Threads,
  Initially,                \* the condition each account begins in
  Asked,                    \* the requests that may come
  PoolPolicies, Conditions, \* the policies the pool may be given, the conditions each account may come into
  AffinityTTL, TouchSlack,  \* 24 hours, and the half hour within which a binding is not renewed
  AffinityLimit,            \* 4096 bindings
  MaxSelectTime, MaxSelectEvents   \* bounds of the model

VARIABLES
  condition,                \* what the other components say of each account
  poolPolicy,
  affinities,               \* the table account_affinity
  cursors,                  \* Service.next
  selectClock, selectEvents,
  answered,                 \* history: per conversation and scope, which account answered what
  turn                      \* history: the picks made since the candidates changed

selectVars == <<condition, poolPolicy, affinities, cursors, selectClock, selectEvents, answered, turn>>

pool == ToSet(RoutingRows)
Scopes == {"auto"} \cup ({ProviderOf[a] : a \in pool} \ {"openai"})   \* a channel's models are never qualified
Unheard == [on |-> FALSE]
Gates == {"open", "busy", "cooling"}
NoTurn == [key |-> <<>>, picks |-> 0, of |-> [a \in pool |-> 0]]

\* A request: the member's session and its parent, the provider and model it names, the protocol, what
\* requestAffinity makes of its history, and the accounts where the member's scheme has nothing left.
Request ==
  [thread : Threads \cup {"none"}, parent : Threads \cup {"none"}, provider : {""} \cup Scopes, model : ChatModels,
   kind : {"responses", "messages", "compact"}, affinity : {"pinned", "portable", "continuation"}, refused : SUBSET pool]

ASSUME AskedAssumption == Asked \subseteq Request
\* No provider has the name of a placeholder, nor that of the automatic scope.
ASSUME AffinityAssumption ==
  {AffinityTTL, TouchSlack} \subseteq Nat /\ \A a \in pool : ProviderOf[a] \notin {"", "none", "auto"}

ASSUME RowsAssumption ==
  RoutingRows \in Seq(pool) /\ \A i, j \in DOMAIN RoutingRows : RoutingRows[i] = RoutingRows[j] => i = j

\* What the choice reads of a condition.
ASSUME ConditionsAssumption ==
  /\ Initially = [a \in pool |-> Initially[a]]
  /\ \A a \in pool : \A c \in Conditions[a] \cup {Initially[a]} :
       c.weight \in Nat /\ c.gate \in Gates /\ \A m \in ChatModels : c.lanes[m] \in Gates
-----------------------------------------------------------------------------
(* The pool's policy.                                                         *)

listed == {a \in pool : condition[a].pooled}

rulesAllow(provider, model) ==
  \/ ~poolPolicy.restricted
  \/ \E rule \in poolPolicy.rules : rule.model = model /\ (provider = "" \/ rule.scope \in {"", provider})
Allows(r) == rulesAllow(r.provider, r.model)

\* A pool of API channels alone is an explicit choice; a mixed one may keep them out.
AllowsProvider(provider) ==
  ~(/\ provider = "openai" /\ \E a \in listed : ProviderOf[a] # "openai"
    /\ poolPolicy.preference = "subscription_first" /\ ~poolPolicy.fallback)
AllowsResource(provider, model) == AllowsProvider(provider) /\ rulesAllow(provider, model)

preferredProvider(kind) == IF kind = "messages" THEN "claude" ELSE "codex"

Rank(provider, preferred) ==
  (IF \/ poolPolicy.preference = "subscription_first" /\ provider = "openai"
      \/ poolPolicy.preference = "api_first" /\ provider # "openai" THEN 2 ELSE 0)
  + (IF provider = preferred THEN 0 ELSE 1)
-----------------------------------------------------------------------------
(* What is known of an account.                                               *)

\* A catalog of an earlier source proves that a model is offered, never that it is not.
catalogSupports(a, model) ==
  IF condition[a].catalog.fresh /\ model \in condition[a].catalog.models THEN "yes"
  ELSE IF condition[a].catalog.fresh /\ condition[a].catalog.current THEN "no" ELSE "unknown"

\* accountAdmission and modelAdmission: "busy", "cooling" or "open".
admission(a, model) == IF condition[a].gate # "open" THEN condition[a].gate ELSE condition[a].lanes[model]
admits(a, r) == admission(a, r.model) = "open" /\ ~condition[a].spent /\ a \notin r.refused

permits(a, r) == AllowsProvider(ProviderOf[a]) /\ (r.kind = "compact" => ProviderOf[a] = "codex")

\* The accounts a new request may go to, were their capacity not asked.
eligible(a, r) ==
  /\ condition[a].usable /\ permits(a, r)
  /\ r.provider \in {"", ProviderOf[a]}
  /\ AllowsResource(ProviderOf[a], r.model)

admittable(r) == {a \in listed : eligible(a, r) /\ catalogSupports(a, r.model) = "yes" /\ admits(a, r)}

\* Why a new request finds no account: the reason that may pass by waiting comes first.
selectionError(r) ==
  LET asked == {a \in listed : eligible(a, r)}
      offering == {a \in asked : catalogSupports(a, r.model) = "yes"}
      waits(why) == \E a \in offering : condition[a].gate = why \/ (condition[a].gate = "open" /\ ~condition[a].spent /\ condition[a].lanes[r.model] = why)
  IN  IF ~Allows(r) THEN "ErrModelNotAllowed"
      ELSE IF admittable(r) # {} THEN "none"
      ELSE IF \E a \in offering \cap r.refused : admission(a, r.model) = "open" /\ ~condition[a].spent THEN "allowance"
      ELSE IF waits("busy") THEN "ErrAccountBusy"
      ELSE IF waits("cooling") THEN "CoolingError"
      ELSE IF \E a \in offering : condition[a].gate = "open" /\ condition[a].spent THEN "QuotaError"
      ELSE IF \E a \in asked : catalogSupports(a, r.model) = "unknown" THEN "ErrCatalogUnavailable"
      ELSE IF asked # {} THEN "ErrModelUnavailable" ELSE "ErrNoAccount"
-----------------------------------------------------------------------------
(* Availability: what the console and the alerts say of a model.              *)

reason(a, model, permitted) ==
  IF ~condition[a].usable THEN "unusable"
  ELSE IF ~permitted THEN "ErrModelNotAllowed"
  ELSE IF catalogSupports(a, model) = "unknown" THEN "ErrCatalogUnavailable"
  ELSE IF catalogSupports(a, model) = "no" THEN "ErrModelUnavailable"
  ELSE IF admission(a, model) # "open" THEN admission(a, model)
  ELSE IF condition[a].spent THEN "QuotaError" ELSE "available"

mModelAvailability(model, reasons) ==
  IF reasons \cap {"available", "QuotaError"} # {} THEN "available"
  ELSE IF "ErrCatalogUnavailable" \in reasons THEN "unknown" ELSE "unavailable"
modelAvailability(model, reasons) ==
  IF ~rulesAllow("", model) THEN "unavailable"
  ELSE IF "available" \in reasons THEN "available"
  ELSE IF "ErrCatalogUnavailable" \in reasons THEN "unknown" ELSE "unavailable"

Availability(model) ==
  modelAvailability(model, {reason(a, model, AllowsResource(ProviderOf[a], model)) : a \in listed})

\* The alerts watch the models that are named by a rule, or else in a catalog; of the policy they read
\* the rules alone.
WorkspaceCapacity(model) ==
  IF IF poolPolicy.restricted THEN \E rule \in poolPolicy.rules : rule.model = model
     ELSE \E a \in listed : model \in condition[a].catalog.models
  THEN modelAvailability(model, {reason(a, model, rulesAllow(ProviderOf[a], model)) : a \in listed})
  ELSE "unwatched"
-----------------------------------------------------------------------------
(* Bindings.                                                                  *)

scopeOf(r) == IF r.provider = "" THEN "auto" ELSE r.provider
alive(b) == b.expires > selectClock

\* The bindings that decide for a conversation: more than one is an ambiguity.
sessionBinding(thread, scope) ==
  LET mine == {b \in affinities : b.thread = thread /\ alive(b)}
      exact == {b \in mine : b.scope = scope}
  IN  IF exact # {} THEN exact ELSE IF scope = "auto" THEN mine ELSE {}

Binding(r, account, rebound) ==
  [thread |-> r.thread, scope |-> scopeOf(r), account |-> account, model |-> r.model,
   expires |-> selectClock + AffinityTTL, rebound |-> rebound]

pruned == {b \in affinities : alive(b)}
roomForAffinity == Cardinality(pruned) < AffinityLimit

TouchAccountAffinity(b, model) ==
  IF b.expires < selectClock + AffinityTTL - TouchSlack \/ b.model # model
  THEN [b EXCEPT !.expires = selectClock + AffinityTTL, !.model = model] ELSE b

\* The bound account serves the request.
stays(b, r) ==
  /\ condition[b.account].pooled /\ condition[b.account].usable /\ permits(b.account, r)
  /\ ~(r.affinity = "continuation" /\ b.rebound /\ r.model # b.model)
  /\ catalogSupports(b.account, r.model) = "yes" /\ AllowsResource(ProviderOf[b.account], r.model)
  /\ admits(b.account, r)

\* A model change with a history that can be carried over resumes scheduling.
moves(b, r) ==
  /\ condition[b.account].pooled /\ condition[b.account].usable /\ permits(b.account, r)
  /\ catalogSupports(b.account, r.model) = "no"
  /\ r.affinity = "portable" /\ r.model # b.model
-----------------------------------------------------------------------------
(* Rotation among the best candidates.                                        *)

\* The account of the parent conversation comes first, if it is a candidate.
parentAccount(r) ==
  IF r.parent # "none" /\ r.affinity # "continuation" /\ Cardinality(sessionBinding(r.parent, "auto")) = 1
  THEN {(CHOOSE b \in sessionBinding(r.parent, "auto") : TRUE).account} ELSE {}

rank(a, r, parents) == IF a \in parents THEN -1 ELSE Rank(ProviderOf[a], preferredProvider(r.kind))
ranked(of, r, parents) == {a \in of : \A b \in of : rank(a, r, parents) <= rank(b, r, parents)}
candidates(r) == ranked(admittable(r), r, parentAccount(r))

\* Percentages of two providers cannot be compared: then, as where there is one candidate, all weigh the same.
weights(of) ==
  IF /\ poolPolicy.weighted /\ Cardinality(of) > 1
     /\ \A a, b \in of : ProviderOf[a] = ProviderOf[b] /\ condition[a].weight > 0
  THEN [a \in of |-> condition[a].weight] ELSE [a \in of |-> 1]

\* The tickets of some candidates, each as many as it weighs.
tickets(ws, of) == UNION {{a} \X (1..ws[a]) : a \in of}
period(ws) == Cardinality(tickets(ws, DOMAIN ws))

cursorOf(r, of) ==
  <<scopeOf(r), poolPolicy.preference, preferredProvider(r.kind), rank(CHOOSE a \in of : TRUE, r, parentAccount(r))>>
next(key) == IF key \in DOMAIN cursors THEN cursors[key] ELSE 0

newer(a, of) == {b \in of : \E i, j \in DOMAIN RoutingRows : i < j /\ RoutingRows[i] = b /\ RoutingRows[j] = a}

\* The ticket counts down the weights of the candidates, the newest first.
ticketHolder(ws, ticket) ==
  CHOOSE a \in DOMAIN ws :
    \E before \in {Cardinality(tickets(ws, newer(a, DOMAIN ws)))} : before <= ticket /\ ticket < before + ws[a]

mAdvanced(key, ws) == [k \in DOMAIN cursors \cup {key} |-> IF k = key THEN (next(k) + 1) % Cardinality(DOMAIN ws) ELSE cursors[k]]
advanced(key, ws) == [k \in DOMAIN cursors \cup {key} |-> IF k = key THEN (next(k) + 1) % period(ws) ELSE cursors[k]]
-----------------------------------------------------------------------------
(* History.                                                                   *)

\* A gap in which a binding may have lapsed ends what the gateway owes the conversation.
remembered(thread, scope) ==
  /\ answered[thread][scope].on
  /\ selectClock < answered[thread][scope].at + AffinityTTL - TouchSlack

\* A conversation that comes to the automatic scope brings what its one other scope answered.
heard(thread, scope, from) ==
  IF remembered(thread, scope) THEN answered[thread][scope].by
  ELSE IF from \in Scopes /\ remembered(thread, from) THEN answered[thread][from].by
  ELSE [m \in ChatModels |-> "none"]

\* A request that is served through another scope's binding is a request of that scope as well.
answer(r, account, from, scopes) ==
  answered' = IF r.thread = "none" THEN answered
              ELSE [answered EXCEPT ![r.thread] = [s \in Scopes |->
                      IF s \notin scopes THEN @[s]
                      ELSE [on |-> TRUE, at |-> selectClock, account |-> account, model |-> r.model,
                            continued |-> r.affinity = "continuation",
                            by |-> [heard(r.thread, s, from) EXCEPT ![r.model] = account]]]]

takeTurn(key, ws, account) ==
  \E before \in {IF turn.key = <<key, ws>> THEN turn ELSE NoTurn} :
    turn' = [key |-> <<key, ws>>, picks |-> before.picks + 1, of |-> [before.of EXCEPT ![account] = @ + 1]]
-----------------------------------------------------------------------------
(* selectAllocationAccount.                                                   *)

SelectInit ==
  /\ condition = Initially
  /\ poolPolicy = [preference |-> "protocol", fallback |-> FALSE, weighted |-> TRUE, restricted |-> FALSE, rules |-> {}]
  /\ affinities = {} /\ cursors = <<>>
  /\ selectClock = 0 /\ selectEvents = 0
  /\ answered = [t \in Threads |-> [s \in Scopes |-> Unheard]] /\ turn = NoTurn

environment == <<condition, poolPolicy, selectClock>>
anotherEvent == selectEvents < MaxSelectEvents /\ selectEvents' = selectEvents + 1

\* A conversation that is bound in another scope is bound in the automatic one as well.
keepBound(r) ==
  /\ anotherEvent
  /\ Allows(r) /\ r.thread # "none"
  /\ Cardinality(sessionBinding(r.thread, scopeOf(r))) = 1
  /\ \E b \in sessionBinding(r.thread, scopeOf(r)) :
       /\ stays(b, r)
       /\ b.scope # scopeOf(r) => roomForAffinity
       /\ affinities' = IF b.scope = scopeOf(r) THEN (affinities \ {b}) \cup {TouchAccountAffinity(b, r.model)}
                        ELSE (pruned \ {b}) \cup {TouchAccountAffinity(b, r.model), Binding(r, b.account, b.rebound)}
       /\ answer(r, b.account, b.scope, {b.scope, scopeOf(r)})
  /\ UNCHANGED <<environment, cursors, turn>>

mRebinds(b, r, account) == Binding(r, account, FALSE)
\* ReplaceAccountAffinity, and the first automatic binding of a conversation bound elsewhere.
rebinds(b, r, account) == Binding(r, account, b.scope # scopeOf(r) \/ b.rebound \/ b.account # account)

\* The next of the best candidates, as the cursor of their rank has it.
decision(r) ==
  LET key == cursorOf(r, candidates(r))
      ws == weights(candidates(r))
  IN  [ws |-> ws, key |-> key, account |-> ticketHolder(ws, next(key) % period(ws))]

\* The cursor is memory: it has advanced even when the binding cannot be stored.
take(d) ==
  /\ cursors' = advanced(d.key, d.ws) /\ takeTurn(d.key, d.ws, d.account)
  /\ UNCHANGED environment

remember(r, account, bound, from) ==
  \/ roomForAffinity /\ affinities' = pruned \cup {bound} /\ answer(r, account, from, {scopeOf(r)})
  \/ ~roomForAffinity /\ UNCHANGED <<affinities, answered>>

\* Nothing binds the request: it has no session, or a new one.
schedule(r) ==
  /\ anotherEvent
  /\ Allows(r) /\ (r.thread = "none" \/ sessionBinding(r.thread, scopeOf(r)) = {})
  /\ candidates(r) # {}
  /\ \E d \in {decision(r)} :
       /\ take(d)
       /\ IF r.thread = "none" THEN UNCHANGED <<affinities, answered>>
          ELSE remember(r, d.account, Binding(r, d.account, FALSE), "none")

reschedule(r) ==
  /\ anotherEvent
  /\ Allows(r) /\ r.thread # "none" /\ Cardinality(sessionBinding(r.thread, scopeOf(r))) = 1
  /\ \E b \in sessionBinding(r.thread, scopeOf(r)) :
       /\ moves(b, r) /\ candidates(r) # {}
       /\ \E d \in {decision(r)} :
            /\ take(d)
            /\ IF b.scope = scopeOf(r)
               THEN /\ affinities' = (affinities \ {b}) \cup {rebinds(b, r, d.account)}
                    /\ answer(r, d.account, b.scope, {scopeOf(r)})
               ELSE remember(r, d.account, rebinds(b, r, d.account), b.scope)
-----------------------------------------------------------------------------
(* What the other components change meanwhile.                                *)

setCondition(a, c) ==
  /\ anotherEvent
  /\ c # condition[a] /\ condition' = [condition EXCEPT ![a] = c]
  /\ UNCHANGED <<poolPolicy, affinities, cursors, selectClock, answered, turn>>

setPolicy(p) ==
  /\ anotherEvent
  /\ p # poolPolicy /\ poolPolicy' = p
  /\ UNCHANGED <<condition, affinities, cursors, selectClock, answered, turn>>

selectTick ==
  /\ selectClock < MaxSelectTime /\ selectClock' = selectClock + 1
  /\ UNCHANGED <<condition, poolPolicy, affinities, cursors, selectEvents, answered, turn>>

SelectNext ==
  \/ \E r \in Asked : keepBound(r) \/ schedule(r) \/ reschedule(r)
  \/ \E a \in pool : \E c \in Conditions[a] : setCondition(a, c)
  \/ \E p \in PoolPolicies : setPolicy(p)
  \/ selectTick

SelectSpec == SelectInit /\ [][SelectNext]_selectVars
-----------------------------------------------------------------------------
(* Properties.                                                                *)

\* A conversation stays on its account as long as its requests come often enough: only a client that
\* changes the model, on an account whose catalog lacks it, is moved (selection.go 138-160).
KeptOnAccount ==
  [][\A t \in Threads, s \in Scopes :
       (remembered(t, s) /\ answered'[t][s].account # answered[t][s].account)
         => /\ answered'[t][s].model # answered[t][s].model
            /\ catalogSupports(answered[t][s].account, answered'[t][s].model) = "no"]_selectVars

\* State that only one account can read stays off the others: once a conversation has been moved, a
\* request that continues one of its models goes to the account which answered that model last, or is
\* refused (selection.go 140-144, 378).
StateStaysHome ==
  [][\A t \in Threads, s \in Scopes :
       \A b \in sessionBinding(t, s) :
         (answered'[t][s] # answered[t][s] /\ answered'[t][s].continued /\ heard(t, s, b.scope)[answered'[t][s].model] # "none")
           => answered'[t][s].account = heard(t, s, b.scope)[answered'[t][s].model]]_selectVars

\* The availability that the console reports is that of the scheduler: a model is called available
\* exactly when a new request for it finds an account, and unavailable only when no catalog is in doubt
\* (availability.go 100-203 decides apart from selection.go 215-335).  The alerts, which read the rules of
\* the policy alone (availability.go 207-272), watch every model a request finds and call it available,
\* and they agree with the console wherever the policy keeps no API channel out; where it does, they do
\* not (CapacityAgrees).
AvailabilityAgrees ==
  \A m \in ChatModels :
    LET fresh == [thread |-> "none", parent |-> "none", provider |-> "", model |-> m, kind |-> "responses",
                  affinity |-> "pinned", refused |-> {}]
        error == selectionError(fresh)
    IN  /\ Availability(m) = "available" <=> error = "none"
        /\ error = "ErrCatalogUnavailable" => Availability(m) = "unknown"
        /\ error = "none" => WorkspaceCapacity(m) = "available"
        /\ (\A a \in listed : AllowsProvider(ProviderOf[a]))
             => WorkspaceCapacity(m) \in {Availability(m), "unwatched"}

\* "Readiness and alerts must apply the same explicit API fallback policy as admission"
\* (016_resource_routing.sql 7; PRODUCT.md 29 says it of discovery, availability, readiness and alerts):
\* what the alerts say of a model they watch is what the console says of it.  The code does not keep this:
\* the policy of WorkspaceCapacity has no preference and no fallback (availability.go 233).
CapacityAgrees ==
  \A m \in ChatModels : WorkspaceCapacity(m) \in {Availability(m), "unwatched"}

\* As long as the candidates and their weights stay, every full round of the rotation gives each
\* account as many requests as it weighs, wherever the cursor was when they became the candidates.
SharesByWeight ==
  turn.picks > 0 =>
    LET ws == turn.key[2] IN
    turn.picks % period(ws) = 0 => \A a \in DOMAIN ws : turn.of[a] = ws[a] * (turn.picks \div period(ws))

\* What the console and the alerts say of a model agrees with the choice a new request gets, and the
\* choices follow the weights.
ChoicesAsListed == AvailabilityAgrees /\ SharesByWeight

\* A conversation stays on its account, and what only one account can read stays off the others.
ConversationsKept == KeptOnAccount /\ StateStaysHome
=============================================================================
