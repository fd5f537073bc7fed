---------------------------- MODULE Credentials ----------------------------
(***************************************************************************)
(* The credential of one subscription account (internal/accounts) and the  *)
(* requests that use it (Open, executeWithRetry, readAccount of            *)
(* internal/gateway).  One mutex covers prepare, with the refresh it may   *)
(* have to wait for, RecordUse and the administrator's writes; requests    *)
(* run their provider calls outside of it and report results that may be   *)
(* late.  The process may stop anywhere.                                   *)
(*                                                                         *)
(* A token stands for an access token and its refresh token.  A refresh    *)
(* uses the refresh token up, whether or not its answer arrives.  The      *)
(* length of the backoff, proxies and the identity metadata are left out.  *)
(***************************************************************************)
EXTENDS Integers

CONSTANTS
  Callers,    \* requests in flight
  Kinds,      \* of account: "codex", another subscription, or a static key
  MaxTokens   \* bound on the tokens the provider issues

Tokens == 1..MaxTokens
Nobody == "nobody"

ASSUME ConstantsAssumption ==
  /\ Nobody \notin Callers
  /\ Kinds \subseteq {"codex", "subscription", "static"}
  /\ MaxTokens \in Nat \ {0}

VARIABLES
  exists,     \* the account's row
  kind,       \* accounts.channel and what kind of credential it has
  enabled,    \* accounts.enabled
  status,     \* accounts.status
  token,      \* the stored credential
  rejected,   \* Credential.Rejected of the stored credential
  age,        \* of the stored credential: fresh, in the refresh margin, or expired
  backoff,    \* refreshes[id] while retryAt lies ahead: "fallback" or "closed"
  mu,         \* Service.mu: its holder
  request,    \* each request: where it stands (at), the value of Open's variable
              \* credential (held), the token it calls or refreshes with (used),
              \* and whether it has been through RefreshAfterRejection (second)
  issued,     \* the provider: tokens issued so far
  renewable,  \* the provider: tokens whose refresh token it accepts
  denied,     \* the provider: tokens it has answered 401 to
  refused,    \* the provider: tokens it has refused to refresh
  root,       \* the authorization each token descends from
  latest,     \* the last authorization
  returned    \* the last refresh brought a rotation back

row == <<exists, kind, enabled, status, token, rejected, age>>
provider == <<issued, renewable, denied, refused, root>>
vars == <<row, backoff, mu, request, provider, latest, returned>>

Idle == [at |-> "idle", held |-> 0, used |-> 0, second |-> FALSE]

Init ==
  /\ kind \in Kinds
  /\ exists = TRUE /\ enabled = TRUE /\ status = "unverified"
  /\ token = 1 /\ rejected = FALSE /\ age = "fresh"
  /\ backoff = "none"
  /\ mu = Nobody
  /\ request = [c \in Callers |-> Idle]
  /\ issued = 1 /\ renewable = {1}
  /\ denied = {} /\ refused = {}
  /\ root = [t \in Tokens |-> 1]
  /\ latest = 1
  /\ returned = FALSE
 

at(c) == request[c].at
Done(c) == request' = [request EXCEPT ![c] = Idle]

-----------------------------------------------------------------------------
(* prepare, up to a refresh *)

Begin(c) ==
  /\ at(c) = "idle"
  /\ request' = [request EXCEPT ![c].at = "prepare"]
  /\ UNCHANGED <<row, backoff, mu, provider, latest, returned>>

\* A request that may take the mutex for prepare.
entering(c) == at(c) \in {"prepare", "retry", "recover"} /\ mu = Nobody

\* The credential goes to the request.  A retry inside executeWithRetry uses it
\* without telling Open.
serve(c, t) ==
  request' = [request EXCEPT ![c] =
    [at |-> "call", used |-> t,
     held |-> IF at(c) \in {"retry", "refresh_retry"} THEN @.held ELSE t,
     second |-> @.second \/ at(c) \in {"recover", "refresh_recover"}]]

usable == exists /\ enabled /\ status # "reauth_required"

\* A late 401 must not reject a token another request has already rotated.
lateRejection(c) == at(c) = "recover" /\ request[c].held = token

\* refreshFallback: a codex token may outlive a failed early refresh.
fallbackAllowed(b, bad) == b = "fallback" /\ kind = "codex" /\ ~bad /\ age # "expired"

\* The account is not usable, the client has left, or a read or the first write
\* fails: nothing is changed.
PrepareFails(c) ==
  /\ entering(c)
  /\ Done(c)
  /\ UNCHANGED <<row, backoff, mu, provider, latest, returned>>

refreshFor(entry) ==
  IF entry = "retry" THEN "refresh_retry"
  ELSE IF entry = "recover" THEN "refresh_recover" ELSE "refresh"

\* The rejection is written; then the credential is served, refused for now, or
\* refreshed with the mutex held.
Prepare(c) ==
  LET bad == rejected \/ lateRejection(c)
      current == ~bad /\ (kind = "static" \/ age = "fresh")
      waiting == ~current /\ kind # "static" /\ backoff # "none"
  IN  /\ entering(c)
      /\ usable
      /\ rejected' = bad
      /\ \/ /\ current \/ (waiting /\ fallbackAllowed(backoff, bad))
            /\ serve(c, token)
            /\ UNCHANGED <<status, mu>>
         \/ /\ waiting /\ ~fallbackAllowed(backoff, bad)
            /\ Done(c)
            /\ UNCHANGED <<status, mu>>
         \/ /\ ~current /\ kind = "static"
            /\ status' = "reauth_required" \/ UNCHANGED status
            /\ Done(c)
            /\ UNCHANGED mu
         \/ /\ ~current /\ kind # "static" /\ ~waiting
            /\ mu' = c
            /\ request' = [request EXCEPT ![c] =
                 [at |-> refreshFor(@.at), held |-> @.held, used |-> token, second |-> @.second]]
            /\ UNCHANGED status
      /\ UNCHANGED <<exists, kind, enabled, token, age, backoff, provider, latest, returned>>

-----------------------------------------------------------------------------
(* The refresh *)

refreshing(c) == at(c) \in {"refresh", "refresh_retry", "refresh_recover"} /\ mu = c

\* The provider uses up the refresh token; what it issues may never be seen.
UseUp(c) ==
  /\ request[c].used \in renewable
  /\ renewable' = renewable \ {request[c].used}
  /\ UNCHANGED <<issued, denied, refused, root>>

\* The rotation arrives, is validated and persisted, and is then published.
RefreshStored(c) ==
  /\ refreshing(c)
  /\ request[c].used \in renewable /\ issued < MaxTokens
  /\ issued' = issued + 1
  /\ renewable' = (renewable \ {request[c].used}) \cup {issued + 1}
  /\ root' = [root EXCEPT ![issued + 1] = root[request[c].used]]
  /\ token' = issued + 1 /\ rejected' = FALSE /\ age' = "fresh" /\ status' = "ready"
  /\ backoff' = "none"
  /\ returned' = TRUE
  /\ mu' = Nobody
  /\ serve(c, issued + 1)
  /\ UNCHANGED <<exists, kind, enabled, denied, refused, latest>>

mDeferRotation == "fallback"
deferRotation == "closed"

\* The rotation arrives but is invalid or cannot be written: deferRefresh closes
\* the fallback.
RefreshNotStored(c) ==
  /\ refreshing(c)
  /\ UseUp(c)
  /\ backoff' = deferRotation
  /\ returned' = TRUE
  /\ mu' = Nobody
  /\ Done(c)
  /\ UNCHANGED <<row, latest>>

\* The client leaves: whatever the provider did, nothing is written.
RefreshCanceled(c) ==
  /\ refreshing(c)
  /\ \/ UseUp(c) /\ returned' = TRUE
     \/ UNCHANGED <<provider, returned>>
  /\ mu' = Nobody
  /\ Done(c)
  /\ UNCHANGED <<row, backoff, latest>>

\* No answer, or a temporary one: the attempt is deferred and the fallback open.
RefreshFailed(c) ==
  /\ refreshing(c)
  /\ UseUp(c) \/ UNCHANGED provider
  /\ backoff' = "fallback"
  /\ returned' = FALSE
  /\ mu' = Nobody
  /\ IF fallbackAllowed("fallback", rejected) THEN serve(c, request[c].used) ELSE Done(c)
  /\ UNCHANGED <<row, latest>>

\* The provider refuses the refresh token, and the account needs authorization.
RefreshRefused(c) ==
  /\ refreshing(c)
  /\ refused' = refused \cup {request[c].used}
  /\ renewable' = renewable \ {request[c].used}
  /\ \/ status' = "reauth_required" /\ backoff' = "none"
     \/ UNCHANGED <<status, backoff>>
  /\ returned' = FALSE
  /\ mu' = Nobody
  /\ Done(c)
  /\ UNCHANGED <<exists, kind, enabled, token, rejected, age, issued, denied, root, latest>>

-----------------------------------------------------------------------------
(* The provider's answer to a request, and RecordUse *)

Answered(c, where) ==
  request' = [request EXCEPT ![c] = [at |-> where, held |-> @.held, used |-> 0, second |-> @.second]]

\* A denied token stays denied; a temporary refusal is tried again after prepare.
Call(c) ==
  /\ at(c) = "call"
  /\ \/ request[c].used \notin denied /\ Answered(c, "accepted") /\ UNCHANGED denied
     \/ /\ denied' = denied \cup {request[c].used}
        /\ Answered(c, IF request[c].second THEN "rejected" ELSE "recover")
     \/ Answered(c, "retry") /\ UNCHANGED denied
     \/ Done(c) /\ UNCHANGED denied
  /\ UNCHANGED <<row, backoff, mu, issued, renewable, refused, root, latest, returned>>

mTokenMatches(c) == TRUE
tokenMatches(c) == token = request[c].held

mLateSuccess(c) == FALSE

\* A late success cannot repair a refresh token that requires authorization.
lateSuccess(c) == at(c) = "accepted" /\ status = "reauth_required"

\* RecordUse: the outcome of an older token is dropped; the write may fail.
RecordUse(c) ==
  /\ at(c) \in {"accepted", "rejected"}
  /\ mu = Nobody
  /\ \/ /\ exists /\ tokenMatches(c) /\ ~lateSuccess(c)
        /\ status' = IF at(c) = "accepted" THEN "ready" ELSE "reauth_required"
     \/ UNCHANGED status
  /\ Done(c)
  /\ UNCHANGED <<exists, kind, enabled, token, rejected, age, backoff, mu, provider, latest, returned>>

-----------------------------------------------------------------------------
(* The administrator, time and restarts *)

mUnowned == TRUE

\* Refresh and administrator writes share one owner.
unowned == mu = Nobody

\* save with an account to replace: a new authorization of the same identity.
Save ==
  /\ unowned /\ exists
  /\ issued < MaxTokens
  /\ issued' = issued + 1
  /\ renewable' = renewable \cup {issued + 1}
  /\ latest' = latest + 1
  /\ root' = [root EXCEPT ![issued + 1] = latest + 1]
  /\ token' = issued + 1 /\ rejected' = FALSE /\ age' = "fresh"
  /\ status' \in {"unverified", "ready"}
  /\ backoff' = "none"
  /\ UNCHANGED <<exists, kind, enabled, mu, request, denied, refused, returned>>

SetEnabled ==
  /\ unowned /\ exists
  /\ enabled' = ~enabled
  /\ UNCHANGED <<exists, kind, status, token, rejected, age, backoff, mu, request, provider, latest, returned>>

Delete ==
  /\ unowned /\ exists
  /\ exists' = FALSE
  /\ backoff' = "none"
  /\ UNCHANGED <<kind, enabled, status, token, rejected, age, mu, request, provider, latest, returned>>

\* retryAt passes.
BackoffEnds ==
  /\ backoff # "none"
  /\ backoff' = "none"
  /\ UNCHANGED <<row, mu, request, provider, latest, returned>>

Age ==
  /\ age # "expired"
  /\ age' = IF age = "fresh" THEN "early" ELSE "expired"
  /\ UNCHANGED <<exists, kind, enabled, status, token, rejected, backoff, mu, request, provider, latest, returned>>

\* The process stops; the row survives, the mutex and the backoff do not.
Restart ==
  /\ mu' = Nobody
  /\ backoff' = "none"
  /\ request' = [c \in Callers |-> Idle]
  /\ UNCHANGED <<row, provider, latest, returned>>

Next ==
  \/ \E c \in Callers :
       \/ Begin(c) \/ PrepareFails(c) \/ Prepare(c)
       \/ RefreshStored(c) \/ RefreshNotStored(c) \/ RefreshCanceled(c) \/ RefreshFailed(c)
       \/ RefreshRefused(c) \/ Call(c) \/ RecordUse(c)
  \/ Save \/ SetEnabled \/ Delete \/ BackoffEnds \/ Age \/ Restart

Spec == Init /\ [][Next]_vars

-----------------------------------------------------------------------------
(* Properties *)

TypeOK ==
  /\ kind \in Kinds
  /\ exists \in BOOLEAN /\ enabled \in BOOLEAN /\ rejected \in BOOLEAN /\ returned \in BOOLEAN
  /\ status \in {"unverified", "ready", "reauth_required"}
  /\ age \in {"fresh", "early", "expired"}
  /\ backoff \in {"none", "fallback", "closed"}
  /\ mu \in Callers \cup {Nobody}
  /\ request \in [Callers ->
       [at : {"idle", "prepare", "retry", "recover", "refresh", "refresh_retry", "refresh_recover", "call",
              "accepted", "rejected"},
        held : Tokens \cup {0}, used : Tokens \cup {0}, second : BOOLEAN]]
  /\ \A c \in Callers : at(c) = "call" => request[c].used \in Tokens
  /\ token \in Tokens /\ issued \in Tokens
  /\ renewable \subseteq Tokens /\ denied \subseteq Tokens /\ refused \subseteq Tokens
  /\ root \in [Tokens -> Nat] /\ latest \in Nat

\* ReauthorizationFounded: an account asks for authorization only because the
\* provider denied or refused to renew the very token that is stored now, never
\* because of the late failure of a token since replaced (RecordUse, prepare).
ReauthorizationFounded ==
  exists /\ status = "reauth_required" => token \in denied \cup refused

\* ReauthorizationExplicit: once an account asks for authorization, only a new
\* authorization ends that; no late success and no refresh does.
ReauthorizationExplicit ==
  [][exists /\ exists' /\ status = "reauth_required" /\ status' # "reauth_required"
       => latest' # latest]_vars

\* AuthorizationKept: the stored credential always descends from the latest
\* authorization: a refresh that began before an administrator's write never
\* overwrites it.
AuthorizationKept == root[token] = latest

\* ServedIsCurrent: a request is handed a credential only while the account is
\* usable, and exactly the one that is stored and not rejected: nothing is
\* published before it is persisted, and no change slips in during the refresh.
ServedIsCurrent ==
  [][\A c \in Callers : at(c) # "call" /\ at(c)' = "call" =>
       usable' /\ ~rejected' /\ request'[c].used = token']_vars

\* FallbackUnrotated: a token past its refresh margin is handed out only when the
\* last refresh brought no rotation back: a rotation that could not be stored never
\* turns into use of the old token on the next read (deferRefresh).
FallbackUnrotated ==
  [][\A c \in Callers : at(c) # "call" /\ at(c)' = "call" /\ kind # "static" /\ age' # "fresh" =>
       ~returned']_vars

\* The stored credential descends from the last authorization, and the account asks for a new one only for
\* a fault of the token that is stored.
AuthorizationSound == TypeOK /\ ReauthorizationFounded /\ AuthorizationKept

\* What requests are handed is current and unrotated, and only an authorization ends the need for one.
CredentialsSafe == ServedIsCurrent /\ ReauthorizationExplicit /\ FallbackUnrotated
=============================================================================
