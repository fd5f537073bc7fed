-------------------------- MODULE Credentials_proofs --------------------------
(***************************************************************************)
(* Proofs about Credentials, for any number of requests, tokens and        *)
(* restarts and every kind of account.  The inductive invariant says what  *)
(* the mutex protects while a refresh is under way (RefreshOwned), that    *)
(* tokens only move forward, so a request's token equals the stored one    *)
(* only if nothing replaced it meanwhile (TokensForward), and what each    *)
(* recorded fault rests on (RejectionsFounded, ReauthorizationFounded).    *)
(***************************************************************************)
EXTENDS Credentials, TLAPS

Places == {"idle", "prepare", "retry", "recover", "refresh", "refresh_retry", "refresh_recover", "call",
           "accepted", "rejected"}
Refreshes == {"refresh", "refresh_retry", "refresh_recover"}
Request == [at : Places, held : Tokens \cup {0}, used : Tokens \cup {0}, second : BOOLEAN]

\* The refresh under way holds the mutex, and the row is as it was read.
RefreshOwned ==
  \A c \in Callers : request[c].at \in Refreshes =>
    mu = c /\ usable /\ request[c].used = token /\ backoff = "none"

TokensForward ==
  /\ token <= issued
  /\ \A c \in Callers :
       /\ request[c].held <= token
       /\ request[c].at = "call" => request[c].held <= request[c].used /\ request[c].used <= token

\* A rejection, stored or about to be, is the provider's denial of that token.
RejectionsFounded ==
  /\ rejected => token \in denied
  /\ \A c \in Callers : request[c].at \in {"recover", "rejected"} /\ request[c].held = token =>
       token \in denied

FallbackOpen == backoff = "fallback" => ~returned

IInv ==
  TypeOK /\ RefreshOwned /\ TokensForward /\ RejectionsFounded /\ FallbackOpen
         /\ ReauthorizationFounded /\ AuthorizationKept

\* What holds of the row and the provider alone.
RowType ==
  /\ kind \in Kinds
  /\ exists \in BOOLEAN /\ enabled \in BOOLEAN /\ rejected \in BOOLEAN /\ returned \in BOOLEAN
  /\ status \in {"unverified", "ready", "reauth_required"}
  /\ age \in {"fresh", "early", "expired"}
  /\ backoff \in {"none", "fallback", "closed"}
  /\ mu \in Callers \cup {Nobody}
  /\ token \in Tokens /\ issued \in Tokens
  /\ renewable \subseteq Tokens /\ denied \subseteq Tokens /\ refused \subseteq Tokens
  /\ root \in [Tokens -> Nat] /\ latest \in Nat

RequestType ==
  /\ request \in [Callers -> Request]
  /\ \A c \in Callers : request[c].at = "call" => request[c].used \in Tokens

LEMMA TypeParts == TypeOK <=> RowType /\ RequestType
  BY DEF TypeOK, RowType, RequestType, Request, Places, at

\* What a request's own entry must satisfy.
EntryOK(r, c) ==
  /\ r \in Request
  /\ r.at = "call" => r.used \in Tokens /\ r.held <= r.used /\ r.used <= token
  /\ r.at \in Refreshes => mu = c /\ usable /\ r.used = token /\ backoff = "none"
  /\ r.held <= token
  /\ r.at \in {"recover", "rejected"} /\ r.held = token => token \in denied

RowOK ==
  /\ RowType /\ token <= issued /\ (rejected => token \in denied)
  /\ FallbackOpen /\ ReauthorizationFounded /\ AuthorizationKept

\* The invariant is one fact about the row and one about each request.
EntriesOK ==
  /\ request \in [Callers -> Request]
  /\ \A c \in Callers : EntryOK(request[c], c)

LEMMA Split == IInv <=> RowOK /\ EntriesOK
  <1> USE DEF EntriesOK, RequestType, EntryOK, RowOK, RefreshOwned, TokensForward, RejectionsFounded
  <1>1. ASSUME IInv
        PROVE  RowOK /\ EntriesOK
    BY <1>1, TypeParts DEF IInv
  <1>2. ASSUME RowOK, EntriesOK
        PROVE  IInv
    BY <1>2, TypeParts DEF IInv
  <1> QED
    BY <1>1, <1>2

-----------------------------------------------------------------------------
(* The steps *)

\* A request that does not move keeps its part of the invariant, unless the row
\* changes under a refresh.
LEMMA EntryKept ==
  ASSUME RowOK, RowOK', NEW d \in Callers, EntryOK(request[d], d), request'[d] = request[d],
         denied \subseteq denied', token' = token \/ token' = issued + 1,
         request[d].at \in Refreshes =>
           UNCHANGED <<mu, exists, enabled, status, token>> /\ backoff' \in {backoff, "none"}
  PROVE  EntryOK(request[d], d)'
  <1>1. token \in Nat /\ token' \in Nat /\ issued \in Nat /\ token <= issued /\ token <= token'
    BY DEF RowOK, RowType, Tokens
  <1>2. request[d].held \in Nat /\ request[d].used \in Nat
    BY DEF EntryOK, Request, Tokens
  <1>3. request[d].held <= token' /\ (request[d].held = token' => token' = token)
    BY <1>1, <1>2 DEF EntryOK
  <1>4. request[d].at = "call" => request[d].used <= token'
    BY <1>1, <1>2 DEF EntryOK
  <1> QED
    BY <1>3, <1>4 DEF EntryOK, usable

\* A step of one request.
LEMMA RequestStep ==
  ASSUME IInv, NEW c \in Callers, NEW r, request' = [request EXCEPT ![c] = r],
         RowOK', EntryOK(request[c], c)',
         denied \subseteq denied', token' = token \/ token' = issued + 1,
         \A d \in Callers : d # c /\ request[d].at \in Refreshes =>
           UNCHANGED <<mu, exists, enabled, status, token>> /\ backoff' \in {backoff, "none"}
  PROVE  IInv'
  <1>1. RowOK /\ request \in [Callers -> Request] /\ \A d \in Callers : EntryOK(request[d], d)
    BY Split DEF EntriesOK
  <1>2. request'[c] = r /\ \A d \in Callers : d # c => request'[d] = request[d]
    BY <1>1
  <1>3. r \in Request
    BY <1>2 DEF EntryOK
  <1>4. request' \in [Callers -> Request]
    BY <1>1, <1>3
  <1>5. \A d \in Callers : EntryOK(request[d], d)'
    BY <1>1, <1>2, EntryKept
  <1>6. EntriesOK'
    BY <1>4, <1>5 DEF EntriesOK
  <1> QED
    BY <1>6, Split, PTL

\* With the mutex free, or held by the request itself, no other is refreshing.
LEMMA OthersIdle ==
  ASSUME IInv, NEW c \in Callers, mu = Nobody \/ mu = c
  PROVE  \A d \in Callers : d # c => request[d].at \notin Refreshes
  BY ConstantsAssumption DEF IInv, RefreshOwned

LEMMA BeginStep ==
  ASSUME IInv, NEW c \in Callers, Begin(c)
  PROVE  IInv'
  <1>1. RowOK /\ request \in [Callers -> Request] /\ EntryOK(request[c], c)
    BY Split DEF EntriesOK
  <1>2. RowOK' /\ UNCHANGED <<mu, exists, enabled, status, token, denied, backoff>>
    BY <1>1 DEF Begin, row, provider, RowOK, RowType, FallbackOpen, ReauthorizationFounded, AuthorizationKept
  <1> DEFINE r == [request[c] EXCEPT !.at = "prepare"]
  <1>3. request' = [request EXCEPT ![c] = r]
    BY <1>1 DEF Begin
  <1>4. r \in Request /\ r.at = "prepare" /\ r.held = request[c].held
    BY <1>1 DEF Request, Places
  <1>5. request'[c] = r
    BY <1>1, <1>3
  <1>6. EntryOK(request[c], c)'
    BY <1>1, <1>2, <1>4, <1>5 DEF EntryOK, Refreshes
  <1> QED
    BY <1>2, <1>3, <1>6, RequestStep

\* A request that ends is of no concern.
LEMMA DoneEntry ==
  ASSUME IInv, NEW c \in Callers, Done(c), RowOK'
  PROVE  EntryOK(request[c], c)' /\ request' = [request EXCEPT ![c] = Idle]
  <1>1. request'[c] = Idle
    BY DEF Done, IInv, TypeOK
  <1>2. Idle \in Request /\ Idle.held <= token'
    BY DEF Idle, Request, Places, RowOK, RowType, Tokens
  <1> QED
    BY <1>1, <1>2 DEF EntryOK, Idle, Done, Refreshes, RowOK, RowType, Tokens

\* A request that is served the stored credential.
LEMMA ServeEntry ==
  ASSUME IInv, NEW c \in Callers, NEW t \in Tokens, serve(c, t), RowOK', t = token',
         token' = token \/ token' = issued + 1
  PROVE  /\ EntryOK(request[c], c)'
         /\ \E r : request' = [request EXCEPT ![c] = r]
         /\ request'[c].at = "call" /\ request'[c].used = t
  <1>1. RowOK /\ request \in [Callers -> Request] /\ EntryOK(request[c], c)
    BY Split DEF EntriesOK
  <1> DEFINE h == IF at(c) \in {"retry", "refresh_retry"} THEN request[c].held ELSE t
             r == [at |-> "call", used |-> t, held |-> h,
                   second |-> request[c].second \/ at(c) \in {"recover", "refresh_recover"}]
  <1>2. request' = [request EXCEPT ![c] = r]
    BY <1>1 DEF serve
  <1>3. token \in Nat /\ token' \in Nat /\ token <= token' /\ request[c].held \in Tokens \cup {0}
    BY <1>1 DEF RowOK, RowType, Tokens, Request
  <1>4. h \in Tokens \cup {0} /\ h <= t
    BY <1>1, <1>3 DEF EntryOK, Tokens
  <1>5. r \in Request
    BY <1>4 DEF Request, Places
  <1>6. request'[c] = r
    BY <1>1, <1>2
  <1>7. r.at = "call" /\ r.used = t /\ r.held = h
    OBVIOUS
  <1> HIDE DEF r, h
  <1>8. EntryOK(request[c], c)'
    BY <1>3, <1>4, <1>5, <1>6, <1>7 DEF EntryOK, Refreshes, Tokens
  <1> QED
    BY <1>2, <1>6, <1>7, <1>8

\* The row is left alone by a step that changes neither it nor what the provider
\* has said.
LEMMA RowKept ==
  ASSUME RowOK, UNCHANGED <<row, backoff, mu, provider, latest, returned>>
  PROVE  RowOK'
  BY DEF RowOK, RowType, FallbackOpen, ReauthorizationFounded, AuthorizationKept, row, provider

LEMMA PrepareFailsStep ==
  ASSUME IInv, NEW c \in Callers, PrepareFails(c)
  PROVE  IInv'
  <1>1. RowOK' /\ UNCHANGED <<mu, exists, enabled, status, token, denied, issued, backoff>>
    BY Split, RowKept DEF PrepareFails, row, provider
  <1> QED
    BY <1>1, DoneEntry, RequestStep DEF PrepareFails

LEMMA PrepareStep ==
  ASSUME IInv, NEW c \in Callers, Prepare(c)
  PROVE  IInv'
  <1>1. RowOK /\ request \in [Callers -> Request] /\ EntryOK(request[c], c)
    BY Split DEF EntriesOK
  <1>2. /\ entering(c) /\ usable /\ mu = Nobody
        /\ UNCHANGED <<exists, kind, enabled, token, age, backoff, issued, renewable, denied, refused, root, latest,
                       returned>>
    BY DEF Prepare, entering, provider
  <1>3. \A d \in Callers : d # c => request[d].at \notin Refreshes
    BY <1>2, OthersIdle
  <1>4. lateRejection(c) => token \in denied
    BY <1>1 DEF lateRejection, EntryOK, at
  <1>5. rejected' = (rejected \/ lateRejection(c))
    BY DEF Prepare
  <1>6. rejected' \in BOOLEAN /\ (rejected' => token \in denied)
    BY <1>1, <1>4, <1>5 DEF RowOK, RowType
  <1>7. status' = status \/ (status' = "reauth_required" /\ rejected')
    BY <1>5 DEF Prepare
  <1>8. ASSUME mu' \in Callers \cup {Nobody} PROVE RowOK'
    BY <1>1, <1>2, <1>6, <1>7, <1>8
    DEF RowOK, RowType, FallbackOpen, ReauthorizationFounded, AuthorizationKept
  <1>9. token \in Tokens
    BY <1>1 DEF RowOK, RowType
  <1>10. CASE serve(c, token) /\ UNCHANGED mu
    <2>1. RowOK'
      BY <1>2, <1>8, <1>10
    <2> QED
      BY <1>2, <1>3, <1>9, <1>10, <2>1, ServeEntry, RequestStep
  <1>11. CASE Done(c) /\ UNCHANGED mu
    <2>1. RowOK'
      BY <1>2, <1>8, <1>11
    <2> QED
      BY <1>2, <1>3, <1>11, <2>1, DoneEntry, RequestStep
  <1>12. CASE /\ mu' = c /\ UNCHANGED status /\ backoff = "none"
              /\ request' = [request EXCEPT ![c] =
                   [at |-> refreshFor(@.at), held |-> @.held, used |-> token, second |-> @.second]]
    <2> DEFINE r == [at |-> refreshFor(request[c].at), held |-> request[c].held, used |-> token,
                     second |-> request[c].second]
    <2>1. RowOK'
      BY <1>8, <1>12
    <2>2. request' = [request EXCEPT ![c] = r]
      BY <1>1, <1>12
    <2>3. refreshFor(request[c].at) \in Refreshes
      BY DEF refreshFor, Refreshes
    <2>4. r \in Request /\ r.at \in Refreshes /\ r.used = token /\ r.held = request[c].held
      BY <1>1, <1>9, <2>3 DEF Request, Places, Refreshes
    <2>5. request'[c] = r
      BY <1>1, <2>2
    <2>6. usable' /\ backoff' = "none"
      BY <1>2, <1>12 DEF usable
    <2> HIDE DEF r
    <2>7. EntryOK(request[c], c)'
      BY <1>1, <1>2, <1>12, <2>4, <2>5, <2>6 DEF EntryOK, Refreshes
    <2> QED
      BY <1>2, <1>3, <2>1, <2>2, <2>7, RequestStep
  <1> QED
    BY <1>10, <1>11, <1>12 DEF Prepare

LEMMA CallStep ==
  ASSUME IInv, NEW c \in Callers, Call(c)
  PROVE  IInv'
  <1>1. RowOK /\ request \in [Callers -> Request] /\ EntryOK(request[c], c)
    BY Split DEF EntriesOK
  <1>2. /\ at(c) = "call" /\ denied \subseteq denied'
        /\ UNCHANGED <<exists, kind, enabled, status, token, rejected, age, backoff, mu, issued, renewable, refused,
                       root, latest, returned>>
    BY DEF Call, row
  <1>3. denied' \subseteq Tokens
    BY <1>1, <1>2 DEF Call, RowOK, RowType, EntryOK, at
  <1>4. RowOK'
    BY <1>1, <1>2, <1>3 DEF RowOK, RowType, FallbackOpen, ReauthorizationFounded, AuthorizationKept
  <1>5. ASSUME NEW where \in {"accepted", "retry", "recover", "rejected"}, Answered(c, where),
               where \in {"recover", "rejected"} => request[c].used \in denied'
        PROVE  IInv'
    <2> DEFINE r == [at |-> where, held |-> request[c].held, used |-> 0, second |-> request[c].second]
    <2>1. request' = [request EXCEPT ![c] = r]
      BY <1>1, <1>5 DEF Answered
    <2>2. r \in Request /\ r.at = where /\ r.held = request[c].held
      BY <1>1, <1>5 DEF Request, Places
    <2>3. request'[c] = r
      BY <1>1, <2>1
    <2>4. request[c].held = token => request[c].used = token
      BY <1>1, <1>2 DEF EntryOK, at, Request, RowOK, RowType, Tokens
    <2> HIDE DEF r
    <2>5. EntryOK(request[c], c)'
      BY <1>1, <1>2, <1>5, <2>2, <2>3, <2>4 DEF EntryOK, Refreshes
    <2> QED
      BY <1>2, <1>4, <2>1, <2>5, RequestStep
  <1>6. CASE Done(c)
    BY <1>2, <1>4, <1>6, DoneEntry, RequestStep
  <1> QED
    BY <1>5, <1>6 DEF Call

LEMMA RecordUseStep ==
  ASSUME IInv, NEW c \in Callers, RecordUse(c)
  PROVE  IInv'
  <1>1. RowOK /\ request \in [Callers -> Request] /\ EntryOK(request[c], c)
    BY Split DEF EntriesOK
  <1>2. /\ mu = Nobody /\ Done(c)
        /\ UNCHANGED <<exists, kind, enabled, token, rejected, age, backoff, mu, issued, renewable, denied, refused,
                       root, latest, returned>>
        /\ \/ UNCHANGED status
           \/ status' = "ready"
           \/ status' = "reauth_required" /\ at(c) = "rejected" /\ token = request[c].held
    BY DEF RecordUse, provider, tokenMatches
  <1>3. status' = "reauth_required" => status = status' \/ token \in denied
    BY <1>1, <1>2 DEF EntryOK, at
  <1>4. RowOK'
    BY <1>1, <1>2, <1>3 DEF RowOK, RowType, FallbackOpen, ReauthorizationFounded, AuthorizationKept
  <1>5. \A d \in Callers : d # c => request[d].at \notin Refreshes
    BY <1>2, OthersIdle
  <1> QED
    BY <1>2, <1>4, <1>5, DoneEntry, RequestStep

-----------------------------------------------------------------------------
(* The refresh *)

\* What holds when a refresh ends.
LEMMA RefreshFacts ==
  ASSUME IInv, NEW c \in Callers, refreshing(c)
  PROVE  /\ RowOK /\ mu = c /\ usable /\ request[c].used = token /\ backoff = "none"
         /\ \A d \in Callers : d # c => request[d].at \notin Refreshes
  <1>1. RowOK /\ EntryOK(request[c], c)
    BY Split DEF EntriesOK
  <1>2. mu = c /\ request[c].at \in Refreshes
    BY DEF refreshing, at, Refreshes
  <1> QED
    BY <1>1, <1>2, OthersIdle DEF EntryOK

LEMMA RefreshStoredStep ==
  ASSUME IInv, NEW c \in Callers, RefreshStored(c)
  PROVE  IInv'
  <1>1. /\ RowOK /\ usable /\ request[c].used = token
        /\ \A d \in Callers : d # c => request[d].at \notin Refreshes
    BY RefreshFacts DEF RefreshStored
  <1>2. issued + 1 \in Tokens /\ token \in Tokens /\ token # issued + 1 /\ issued \in Nat
    BY <1>1, ConstantsAssumption DEF RefreshStored, RowOK, RowType, Tokens
  <1>3. root' \in [Tokens -> Nat] /\ root'[issued + 1] = root[token]
    BY <1>1, <1>2 DEF RefreshStored, RowOK, RowType
  <1>4. rejected' = FALSE /\ returned' = TRUE
    BY DEF RefreshStored
  <1>5. rejected' \in BOOLEAN /\ ~rejected' /\ returned' \in BOOLEAN
    BY <1>4
  <1>6. /\ token' = issued + 1 /\ issued' = issued + 1 /\ status' = "ready" /\ age' = "fresh"
        /\ backoff' = "none" /\ mu' = Nobody
        /\ UNCHANGED <<exists, kind, enabled, denied, refused, latest>>
        /\ renewable' = (renewable \ {request[c].used}) \cup {issued + 1}
        /\ serve(c, issued + 1)
    BY DEF RefreshStored
  <1>7. RowType'
    BY <1>1, <1>2, <1>3, <1>5, <1>6 DEF RowOK, RowType
  <1>8. RowOK'
    BY <1>1, <1>2, <1>3, <1>5, <1>6, <1>7
    DEF RowOK, FallbackOpen, ReauthorizationFounded, AuthorizationKept
  <1>9. EntryOK(request[c], c)' /\ \E r : request' = [request EXCEPT ![c] = r]
    BY <1>2, <1>6, <1>8, ServeEntry
  <1> QED
    BY <1>1, <1>6, <1>8, <1>9, RequestStep

LEMMA RefreshNotStoredStep ==
  ASSUME IInv, NEW c \in Callers, RefreshNotStored(c)
  PROVE  IInv'
  <1>1. /\ RowOK /\ \A d \in Callers : d # c => request[d].at \notin Refreshes
    BY RefreshFacts DEF RefreshNotStored
  <1>2. returned' = TRUE
    BY DEF RefreshNotStored
  <1>3. returned' \in BOOLEAN
    BY <1>2
  <1>4. /\ backoff' = "closed" /\ mu' = Nobody /\ Done(c)
        /\ UNCHANGED <<exists, kind, enabled, status, token, rejected, age, issued, denied, refused, root, latest>>
        /\ renewable' \subseteq renewable
    BY DEF RefreshNotStored, UseUp, deferRotation, row
  <1>5. RowOK'
    BY <1>1, <1>3, <1>4 DEF RowOK, RowType, FallbackOpen, ReauthorizationFounded, AuthorizationKept
  <1> QED
    BY <1>1, <1>4, <1>5, DoneEntry, RequestStep

LEMMA RefreshCanceledStep ==
  ASSUME IInv, NEW c \in Callers, RefreshCanceled(c)
  PROVE  IInv'
  <1>1. /\ RowOK /\ backoff = "none" /\ \A d \in Callers : d # c => request[d].at \notin Refreshes
    BY RefreshFacts DEF RefreshCanceled
  <1>2. returned' = TRUE \/ returned' = returned
    BY DEF RefreshCanceled
  <1>3. returned' \in BOOLEAN
    BY <1>1, <1>2 DEF RowOK, RowType
  <1>4. /\ mu' = Nobody /\ Done(c)
        /\ UNCHANGED <<exists, kind, enabled, status, token, rejected, age, backoff, issued, denied, refused, root,
                       latest>>
        /\ renewable' \subseteq renewable
    BY DEF RefreshCanceled, UseUp, row, provider
  <1>5. RowOK'
    BY <1>1, <1>3, <1>4 DEF RowOK, RowType, FallbackOpen, ReauthorizationFounded, AuthorizationKept
  <1> QED
    BY <1>1, <1>4, <1>5, DoneEntry, RequestStep

LEMMA RefreshFailedStep ==
  ASSUME IInv, NEW c \in Callers, RefreshFailed(c)
  PROVE  IInv'
  <1>1. /\ RowOK /\ request[c].used = token
        /\ \A d \in Callers : d # c => request[d].at \notin Refreshes
    BY RefreshFacts DEF RefreshFailed
  <1>2. returned' = FALSE
    BY DEF RefreshFailed
  <1>3. returned' \in BOOLEAN /\ ~returned'
    BY <1>2
  <1>4. /\ backoff' = "fallback" /\ mu' = Nobody
        /\ UNCHANGED <<exists, kind, enabled, status, token, rejected, age, issued, denied, refused, root, latest>>
        /\ renewable' \subseteq renewable
    BY DEF RefreshFailed, UseUp, row, provider
  <1>5. RowOK' /\ token \in Tokens
    BY <1>1, <1>3, <1>4 DEF RowOK, RowType, FallbackOpen, ReauthorizationFounded, AuthorizationKept
  <1>6. CASE serve(c, token)
    <2>1. EntryOK(request[c], c)' /\ \E r : request' = [request EXCEPT ![c] = r]
      BY <1>4, <1>5, <1>6, ServeEntry
    <2> QED
      BY <1>1, <1>4, <1>5, <2>1, RequestStep
  <1>7. CASE Done(c)
    BY <1>1, <1>4, <1>5, <1>7, DoneEntry, RequestStep
  <1> QED
    BY <1>1, <1>6, <1>7 DEF RefreshFailed

LEMMA RefreshRefusedStep ==
  ASSUME IInv, NEW c \in Callers, RefreshRefused(c)
  PROVE  IInv'
  <1>1. /\ RowOK /\ request[c].used = token /\ backoff = "none"
        /\ \A d \in Callers : d # c => request[d].at \notin Refreshes
    BY RefreshFacts DEF RefreshRefused
  <1>2. returned' = FALSE
    BY DEF RefreshRefused
  <1>3. returned' \in BOOLEAN /\ ~returned'
    BY <1>2
  <1>4. /\ mu' = Nobody /\ Done(c) /\ backoff' = "none"
        /\ refused' = refused \cup {token} /\ renewable' \subseteq renewable
        /\ status' = "reauth_required" \/ status' = status
        /\ UNCHANGED <<exists, kind, enabled, token, rejected, age, issued, denied, root, latest>>
    BY <1>1 DEF RefreshRefused
  <1>5. RowOK'
    BY <1>1, <1>3, <1>4 DEF RowOK, RowType, FallbackOpen, ReauthorizationFounded, AuthorizationKept
  <1> QED
    BY <1>1, <1>4, <1>5, DoneEntry, RequestStep

-----------------------------------------------------------------------------
(* Steps that are no request's *)

LEMMA OutsideStep ==
  ASSUME IInv, UNCHANGED request, RowOK', denied \subseteq denied', token' = token \/ token' = issued + 1,
         \A d \in Callers : request[d].at \in Refreshes =>
           UNCHANGED <<mu, exists, enabled, status, token>> /\ backoff' \in {backoff, "none"}
  PROVE  IInv'
  <1>1. RowOK /\ request \in [Callers -> Request] /\ \A d \in Callers : EntryOK(request[d], d)
    BY Split DEF EntriesOK
  <1>2. \A d \in Callers : EntryOK(request[d], d)'
    BY <1>1, EntryKept
  <1>3. EntriesOK'
    BY <1>1, <1>2 DEF EntriesOK
  <1> QED
    BY <1>3, Split, PTL

\* Administrator writes find no refresh under way.
LEMMA UnownedIdle ==
  ASSUME IInv, unowned
  PROVE  RowOK /\ \A d \in Callers : request[d].at \notin Refreshes
  BY Split, ConstantsAssumption DEF unowned, EntriesOK, EntryOK

LEMMA SaveStep ==
  ASSUME IInv, Save
  PROVE  IInv'
  <1>1. RowOK /\ \A d \in Callers : request[d].at \notin Refreshes
    BY UnownedIdle DEF Save
  <1>2. issued + 1 \in Tokens /\ issued \in Nat /\ latest \in Nat
    BY <1>1, ConstantsAssumption DEF Save, RowOK, RowType, Tokens
  <1>3. root' \in [Tokens -> Nat] /\ root'[issued + 1] = latest + 1
    BY <1>1, <1>2 DEF Save, RowOK, RowType
  <1>4. rejected' = FALSE
    BY DEF Save
  <1>5. rejected' \in BOOLEAN /\ ~rejected'
    BY <1>4
  <1>6. /\ token' = issued + 1 /\ issued' = issued + 1 /\ latest' = latest + 1
        /\ renewable' = renewable \cup {issued + 1} /\ age' = "fresh" /\ backoff' = "none"
        /\ status' \in {"unverified", "ready"}
        /\ UNCHANGED <<exists, kind, enabled, mu, request, denied, refused, returned>>
    BY DEF Save
  <1>7. RowType'
    BY <1>1, <1>2, <1>3, <1>5, <1>6 DEF RowOK, RowType
  <1>8. RowOK'
    BY <1>1, <1>2, <1>3, <1>5, <1>6, <1>7
    DEF RowOK, FallbackOpen, ReauthorizationFounded, AuthorizationKept
  <1> QED
    BY <1>1, <1>6, <1>8, OutsideStep

LEMMA SetEnabledStep ==
  ASSUME IInv, SetEnabled
  PROVE  IInv'
  <1>1. RowOK /\ \A d \in Callers : request[d].at \notin Refreshes
    BY UnownedIdle DEF SetEnabled
  <1>2. enabled' \in BOOLEAN
    BY DEF SetEnabled
  <1>3. UNCHANGED <<exists, kind, status, token, rejected, age, backoff, mu, request, issued, renewable, denied,
                    refused, root, latest, returned>>
    BY DEF SetEnabled, provider
  <1>4. RowOK'
    BY <1>1, <1>2, <1>3 DEF RowOK, RowType, FallbackOpen, ReauthorizationFounded, AuthorizationKept
  <1> QED
    BY <1>1, <1>3, <1>4, OutsideStep

LEMMA DeleteStep ==
  ASSUME IInv, Delete
  PROVE  IInv'
  <1>1. RowOK /\ \A d \in Callers : request[d].at \notin Refreshes
    BY UnownedIdle DEF Delete
  <1>2. exists' = FALSE
    BY DEF Delete
  <1>3. exists' \in BOOLEAN /\ ~exists'
    BY <1>2
  <1>4. backoff' = "none" /\ UNCHANGED <<kind, enabled, status, token, rejected, age, mu, request, issued, renewable,
                    denied, refused, root, latest, returned>>
    BY DEF Delete, provider
  <1>5. RowOK'
    BY <1>1, <1>3, <1>4 DEF RowOK, RowType, FallbackOpen, ReauthorizationFounded, AuthorizationKept
  <1> QED
    BY <1>1, <1>4, <1>5, OutsideStep

LEMMA BackoffEndsStep ==
  ASSUME IInv, BackoffEnds
  PROVE  IInv'
  <1>1. RowOK /\ backoff' = "none"
    BY Split DEF BackoffEnds
  <1>2. UNCHANGED <<exists, kind, enabled, status, token, rejected, age, mu, request, issued, renewable, denied,
                    refused, root, latest, returned>>
    BY DEF BackoffEnds, row, provider
  <1>3. RowOK'
    BY <1>1, <1>2 DEF RowOK, RowType, FallbackOpen, ReauthorizationFounded, AuthorizationKept
  <1> QED
    BY <1>1, <1>2, <1>3, OutsideStep

LEMMA AgeStep ==
  ASSUME IInv, Age
  PROVE  IInv'
  <1>1. RowOK /\ age' \in {"early", "expired"}
    BY Split DEF Age
  <1>2. UNCHANGED <<exists, kind, enabled, status, token, rejected, backoff, mu, request, issued, renewable, denied,
                    refused, root, latest, returned>>
    BY DEF Age, provider
  <1>3. RowOK'
    BY <1>1, <1>2 DEF RowOK, RowType, FallbackOpen, ReauthorizationFounded, AuthorizationKept
  <1> QED
    BY <1>1, <1>2, <1>3, OutsideStep

\* Every request starts anew.
LEMMA IdleOK ==
  RowOK /\ request = [c \in Callers |-> Idle] => EntriesOK
  <1> SUFFICES ASSUME RowOK, request = [c \in Callers |-> Idle]
               PROVE  EntriesOK
    OBVIOUS
  <1>1. Idle \in Request
    BY DEF Idle, Request, Places
  <1>2. Idle.at = "idle" /\ Idle.held = 0
    BY DEF Idle
  <1>3. token \in Nat /\ 0 < token
    BY DEF RowOK, RowType, Tokens
  <1>4. Idle.held <= token /\ Idle.at # "call" /\ Idle.at \notin Refreshes /\ Idle.at \notin {"recover", "rejected"}
    BY <1>2, <1>3 DEF Refreshes
  <1>5. \A c \in Callers : EntryOK(Idle, c)
    BY <1>1, <1>4 DEF EntryOK
  <1> QED
    BY <1>1, <1>5 DEF EntriesOK

LEMMA RestartStep ==
  ASSUME IInv, Restart
  PROVE  IInv'
  <1>1. RowOK
    BY Split
  <1>2. /\ mu' = Nobody /\ backoff' = "none"
        /\ request' = [c \in Callers |-> Idle]
        /\ UNCHANGED <<exists, kind, enabled, status, token, rejected, age, issued, renewable, denied, refused, root,
                       latest, returned>>
    BY DEF Restart, row, provider
  <1>3. RowOK'
    BY <1>1, <1>2 DEF RowOK, RowType, FallbackOpen, ReauthorizationFounded, AuthorizationKept
  <1>4. EntriesOK'
    <2>1. (request = [c \in Callers |-> Idle])'
      BY <1>2
    <2> QED
      BY <1>3, <2>1, IdleOK, PTL
  <1> QED
    BY <1>3, <1>4, Split, PTL

-----------------------------------------------------------------------------
(* The invariant *)

LEMMA InitOK == Init => IInv
  <1> SUFFICES ASSUME Init
               PROVE  IInv
    OBVIOUS
  <1>1. /\ kind \in Kinds /\ exists = TRUE /\ enabled = TRUE /\ rejected = FALSE /\ returned = FALSE
        /\ status = "unverified" /\ age = "fresh" /\ backoff = "none" /\ mu = Nobody
        /\ token = 1 /\ issued = 1 /\ renewable = {1} /\ denied = {} /\ refused = {}
        /\ root = [t \in Tokens |-> 1] /\ latest = 1
        /\ request = [c \in Callers |-> Idle]
    BY DEF Init
  <1>2. 1 \in Tokens
    BY ConstantsAssumption DEF Tokens
  <1>3. exists \in BOOLEAN /\ enabled \in BOOLEAN /\ rejected \in BOOLEAN /\ returned \in BOOLEAN /\ ~rejected
    BY <1>1
  <1>4. RowOK
    BY <1>1, <1>2, <1>3 DEF RowOK, RowType, FallbackOpen, ReauthorizationFounded, AuthorizationKept
  <1> QED
    BY <1>1, <1>4, IdleOK, Split

LEMMA NextOK == IInv /\ [Next]_vars => IInv'
  <1> SUFFICES ASSUME IInv, [Next]_vars
               PROVE  IInv'
    OBVIOUS
  <1>1. CASE UNCHANGED vars
    <2>1. UNCHANGED <<row, backoff, mu, request, provider, latest, returned>>
      BY <1>1 DEF vars
    <2>2. RowOK'
      BY <2>1, Split, RowKept
    <2> QED
      BY <2>1, <2>2, OutsideStep DEF row, provider
  <1>2. ASSUME NEW c \in Callers,
               \/ Begin(c) \/ PrepareFails(c) \/ Prepare(c) \/ RefreshStored(c) \/ RefreshNotStored(c)
               \/ RefreshCanceled(c) \/ RefreshFailed(c) \/ RefreshRefused(c) \/ Call(c) \/ RecordUse(c)
        PROVE  IInv'
    BY <1>2, BeginStep, PrepareFailsStep, PrepareStep, RefreshStoredStep, RefreshNotStoredStep,
       RefreshCanceledStep, RefreshFailedStep, RefreshRefusedStep, CallStep, RecordUseStep
  <1>3. CASE Save \/ SetEnabled \/ Delete \/ BackoffEnds \/ Age \/ Restart
    BY <1>3, SaveStep, SetEnabledStep, DeleteStep, BackoffEndsStep, AgeStep, RestartStep
  <1> QED
    BY <1>1, <1>2, <1>3 DEF Next

\* Invariance: the inductive invariant holds in every reachable state.
THEOREM Invariance == Spec => []IInv
  BY InitOK, NextOK, PTL DEF Spec

\* AccountAsksForGoodReason: ReauthorizationFounded for any number of concurrent
\* requests: RecordUse and prepare never charge the stored token with the failure of
\* one since replaced.
THEOREM AccountAsksForGoodReason == Spec => []ReauthorizationFounded
  <1>1. IInv => ReauthorizationFounded
    BY DEF IInv
  <1> QED
    BY <1>1, Invariance, PTL

\* LatestAuthorizationStored: AuthorizationKept for any number of requests,
\* rotations and restarts: no refresh overwrites an administrator's authorization.
THEOREM LatestAuthorizationStored == Spec => []AuthorizationKept
  <1>1. IInv => AuthorizationKept
    BY DEF IInv
  <1> QED
    BY <1>1, Invariance, PTL

-----------------------------------------------------------------------------
(* Action properties *)

\* The moment a request gets its credential.
Handed(c) == request[c].at # "call" /\ request'[c].at = "call"

\* Only a prepare that serves, a stored rotation and the fallback of a failed
\* refresh hand out a credential.
LEMMA HandingSteps ==
  ASSUME IInv, Next, NEW c \in Callers, Handed(c)
  PROVE  /\ Prepare(c) \/ RefreshStored(c) \/ RefreshFailed(c)
         /\ \E t : serve(c, t)
  <1>1. request \in [Callers -> Request]
    BY Split DEF EntriesOK
  <1>2. ASSUME NEW d \in Callers, Done(d) PROVE FALSE
    BY <1>1, <1>2 DEF Done, Idle, Handed
  <1>3. ASSUME NEW d \in Callers, NEW where \in {"accepted", "retry", "recover", "rejected"}, Answered(d, where)
        PROVE  FALSE
    BY <1>1, <1>3 DEF Answered, Handed
  <1>4. request' # request
    BY DEF Handed
  <1>5. ASSUME NEW d \in Callers, Begin(d) PROVE FALSE
    BY <1>1, <1>5 DEF Begin, Handed, Request
  <1>6. ASSUME NEW d \in Callers, NEW t, serve(d, t) PROVE d = c
    BY <1>1, <1>6 DEF serve, Handed
  <1>7. ~Restart
    BY DEF Restart, Idle, Handed
  <1>8. ASSUME NEW d \in Callers, Prepare(d) PROVE \E t : serve(d, t)
    <2>1. ASSUME request' = [request EXCEPT ![d] =
                   [at |-> refreshFor(@.at), held |-> @.held, used |-> token, second |-> @.second]]
          PROVE  FALSE
      <3>1. request'[d].at = refreshFor(request[d].at) /\ \A e \in Callers : e # d => request'[e] = request[e]
        BY <1>1, <2>1
      <3> QED
        BY <3>1 DEF refreshFor, Handed
    <2> QED
      BY <1>2, <1>8, <2>1 DEF Prepare
  <1>9. ASSUME NEW d \in Callers, Call(d) PROVE FALSE
    BY <1>2, <1>3, <1>9 DEF Call
  <1>10. ASSUME NEW d \in Callers,
                \/ Begin(d) \/ PrepareFails(d) \/ RefreshNotStored(d) \/ RefreshCanceled(d)
                \/ RefreshRefused(d) \/ Call(d) \/ RecordUse(d)
         PROVE  FALSE
    BY <1>2, <1>5, <1>9, <1>10 DEF PrepareFails, RefreshNotStored, RefreshCanceled, RefreshRefused, RecordUse
  <1>11. ~(Save \/ SetEnabled \/ Delete \/ BackoffEnds \/ Age)
    BY <1>4 DEF Save, SetEnabled, Delete, BackoffEnds, Age
  <1>12. PICK d \in Callers : Prepare(d) \/ RefreshStored(d) \/ RefreshFailed(d)
    BY <1>7, <1>10, <1>11 DEF Next
  <1>13. \E t : serve(d, t)
    BY <1>2, <1>8, <1>12 DEF RefreshStored, RefreshFailed
  <1> QED
    BY <1>6, <1>12, <1>13

\* What a request is handed, and when.
LEMMA HandedOK ==
  ASSUME IInv, IInv', Next, NEW c \in Callers, Handed(c)
  PROVE  /\ usable' /\ ~rejected' /\ request'[c].used = token'
         /\ kind # "static" /\ age' # "fresh" => ~returned'
  <1>1. RowOK /\ request \in [Callers -> Request]
    BY Split DEF EntriesOK
  <1>2. ASSUME NEW t, serve(c, t) PROVE request'[c].used = t
    BY <1>1, <1>2 DEF serve
  <1>3. CASE Prepare(c)
    <2>1. ~Done(c)
      BY <1>1 DEF Done, Idle, Handed
    <2>2. request' # [request EXCEPT ![c] =
                   [at |-> refreshFor(@.at), held |-> @.held, used |-> token, second |-> @.second]]
      BY <1>1 DEF refreshFor, Handed
    <2>3. /\ serve(c, token) /\ UNCHANGED <<exists, kind, enabled, status, token, age, backoff, returned>>
          /\ usable
      BY <1>3, <2>1, <2>2 DEF Prepare
    <2>4. ~rejected' /\ (kind # "static" /\ age # "fresh" => backoff = "fallback")
      BY <1>3, <2>1, <2>2 DEF Prepare, fallbackAllowed
    <2> QED
      BY <1>1, <1>2, <2>3, <2>4 DEF usable, RowOK, FallbackOpen
  <1>4. CASE RefreshStored(c)
    <2>1. usable
      BY <1>4, RefreshFacts DEF RefreshStored
    <2>2. /\ rejected' = FALSE /\ token' = issued + 1 /\ age' = "fresh" /\ status' = "ready"
          /\ UNCHANGED <<exists, kind, enabled>> /\ serve(c, issued + 1)
      BY <1>4 DEF RefreshStored
    <2> QED
      BY <1>2, <2>1, <2>2 DEF usable
  <1>5. CASE RefreshFailed(c)
    <2>1. usable /\ request[c].used = token
      BY <1>5, RefreshFacts DEF RefreshFailed
    <2>2. ~Done(c)
      BY <1>1 DEF Done, Idle, Handed
    <2>3. /\ serve(c, token) /\ fallbackAllowed("fallback", rejected) /\ returned' = FALSE
          /\ UNCHANGED <<exists, kind, enabled, status, token, rejected>>
      BY <1>5, <2>1, <2>2 DEF RefreshFailed, row
    <2> QED
      BY <1>2, <2>1, <2>3 DEF usable, fallbackAllowed
  <1> QED
    BY <1>3, <1>4, <1>5, HandingSteps

\* CredentialHandedIsCurrent: ServedIsCurrent for any number of requests.
THEOREM CredentialHandedIsCurrent == Spec => ServedIsCurrent
  <1> DEFINE Current == \A c \in Callers : at(c) # "call" /\ at(c)' = "call" =>
               usable' /\ ~rejected' /\ request'[c].used = token'
  <1>1. ASSUME IInv, IInv', [Next]_vars
        PROVE  [Current]_vars
    BY <1>1, HandedOK DEF Handed, at
  <1>2. IInv /\ IInv' /\ [Next]_vars => [Current]_vars
    BY <1>1
  <1> QED
    BY <1>2, Invariance, PTL DEF Spec, ServedIsCurrent

\* NoUseAfterLostRotation: FallbackUnrotated for any number of requests.
THEOREM NoUseAfterLostRotation == Spec => FallbackUnrotated
  <1> DEFINE Unrotated ==
        \A c \in Callers : at(c) # "call" /\ at(c)' = "call" /\ kind # "static" /\ age' # "fresh" =>
          ~returned'
  <1>1. ASSUME IInv, IInv', [Next]_vars
        PROVE  [Unrotated]_vars
    BY <1>1, HandedOK DEF Handed, at
  <1>2. IInv /\ IInv' /\ [Next]_vars => [Unrotated]_vars
    BY <1>1
  <1> QED
    BY <1>2, Invariance, PTL DEF Spec, FallbackUnrotated

\* OnlyAuthorizationEndsIt: ReauthorizationExplicit for any number of requests.  A
\* refresh under way is what might end it, and finds the account usable.
THEOREM OnlyAuthorizationEndsIt == Spec => ReauthorizationExplicit
  <1> DEFINE Explicit ==
        exists /\ exists' /\ status = "reauth_required" /\ status' # "reauth_required" => latest' # latest
  <1>1. ASSUME IInv, [Next]_vars
        PROVE  [Explicit]_vars
    <2> SUFFICES ASSUME Next, status = "reauth_required", status' # "reauth_required"
                 PROVE  latest' # latest
      BY <1>1
    <2>1. ASSUME NEW c \in Callers, RefreshStored(c) PROVE FALSE
      BY <1>1, <2>1, RefreshFacts DEF RefreshStored, usable
    <2>2. ASSUME NEW c \in Callers, RecordUse(c) PROVE FALSE
      BY <2>2 DEF RecordUse, lateSuccess
    <2>3. ASSUME NEW c \in Callers, Prepare(c) \/ RefreshRefused(c) PROVE FALSE
      BY <2>3 DEF Prepare, RefreshRefused
    <2>4. ASSUME NEW c \in Callers,
                 \/ Begin(c) \/ PrepareFails(c) \/ RefreshNotStored(c) \/ RefreshCanceled(c)
                 \/ RefreshFailed(c) \/ Call(c)
          PROVE  FALSE
      BY <2>4 DEF Begin, PrepareFails, RefreshNotStored, RefreshCanceled, RefreshFailed, Call, row
    <2>5. ASSUME SetEnabled \/ Delete \/ BackoffEnds \/ Age \/ Restart PROVE FALSE
      BY <2>5 DEF SetEnabled, Delete, BackoffEnds, Age, Restart, row
    <2>6. CASE Save
      BY <1>1, <2>6, Split DEF Save, RowOK, RowType
    <2> QED
      BY <2>1, <2>2, <2>3, <2>4, <2>5, <2>6 DEF Next
  <1>2. IInv /\ [Next]_vars => [Explicit]_vars
    BY <1>1
  <1> QED
    BY <1>2, Invariance, PTL DEF Spec, ReauthorizationExplicit

\* Authorization is asked for on good grounds, and a new one is never overwritten by
\* a refresh.
THEOREM AuthorizationIsSound == Spec => []AuthorizationSound
  <1>1. IInv => AuthorizationSound
    BY DEF IInv, AuthorizationSound
  <1> QED
    BY <1>1, Invariance, PTL

\* What a request is handed is current and unrotated, and only an authorization ends
\* the need for one.
THEOREM CredentialsAreSafe == Spec => CredentialsSafe
  BY CredentialHandedIsCurrent, NoUseAfterLostRotation, OnlyAuthorizationEndsIt DEF CredentialsSafe
=============================================================================
