---------------------------- MODULE OAuthLogins -----------------------------
(* Logins at a subscription provider: internal/oauth.                         *)
(*                                                                            *)
(* A session has one login in progress.  A callback login ends with a         *)
(* redirect that the user pastes; a device login is polled.  Both talk to the *)
(* provider without the lock, while the login is canceled, expires or is      *)
(* replaced by the next one of its session.  Times are what is left of them,  *)
(* in ticks.  What AuthorizeWithProxy does with a credential is in            *)
(* Credentials.                                                               *)
EXTENDS Naturals, FiniteSets

CONSTANTS
  Sessions,
  MaxLogins,       \* bound: logins begun, which are numbered
  PendingLimit,    \* logins in progress
  Lifetime, PollTicks, SlowTicks

ASSUME OAuthAssumption == MaxLogins \in Nat /\ {PendingLimit, Lifetime, PollTicks, SlowTicks} \subseteq Nat

Logins == 1..MaxLogins
Kinds == {"callback", "device"}

VARIABLES
  logins,        \* pending: the logins in progress, by their state token
  loginCount,         \* logins begun
  calls,         \* calls at the provider: <<login, what, the entry it was made with>>
  providerOn,       \* ProviderEnabled
  authorized,    \* history: logins whose credential was saved
  endedLogins,         \* history: logins canceled, expired or replaced while in progress
  exchanges,     \* history: how often each login's code was exchanged
  ages           \* history: how long each login in progress has lasted, until it expired

oauthVars == <<logins, loginCount, calls, providerOn, authorized, endedLogins, exchanges, ages>>

pendingLogins == {s \in Logins : logins[s].on}
NoLogin == [on |-> FALSE]

OAuthInit ==
  /\ logins = [s \in Logins |-> NoLogin]
  /\ loginCount = 0 /\ calls = {} /\ providerOn = TRUE
  /\ authorized = {} /\ endedLogins = {}
  /\ exchanges = [s \in Logins |-> 0] /\ ages = [s \in Logins |-> 0]

liveLogin(s) == logins[s].on /\ logins[s].expires > 0
drop(s) == logins' = [logins EXCEPT ![s] = NoLogin]

\* The previous login of the session and what has expired make room, also for a login that is then refused.
reserve(entry) ==
  /\ loginCount < MaxLogins
  /\ \E gone \in {{s \in pendingLogins : logins[s].expires = 0 \/ logins[s].owner = entry.owner}} :
       /\ loginCount' = IF Cardinality(pendingLogins \ gone) < PendingLimit THEN loginCount + 1 ELSE loginCount
       /\ logins' = [s \in Logins |-> IF s \in gone THEN NoLogin
                                     ELSE IF loginCount < s /\ s <= loginCount' THEN entry ELSE logins[s]]
       /\ endedLogins' = endedLogins \cup gone

BeginProviderWithProxy(session, kind) ==
  /\ providerOn
  /\ \E entry \in {[on |-> TRUE, owner |-> session, kind |-> kind, device |-> FALSE, polling |-> FALSE, wait |-> 0,
                    interval |-> 0, expires |-> Lifetime]} :
       /\ reserve(entry)
       /\ calls' = IF kind = "device" /\ loginCount' > loginCount THEN calls \cup {<<loginCount + 1, "begin", entry>>} ELSE calls
  /\ UNCHANGED <<providerOn, authorized, exchanges, ages>>

smaller(a, b) == IF a < b THEN a ELSE b

mBeginDevice(c, ok, expires) ==
  /\ c \in calls /\ c[2] = "begin"
  /\ calls' = calls \ {c}
  /\ IF ~ok \/ ~liveLogin(c[1]) THEN drop(c[1])
     ELSE logins' = [logins EXCEPT ![c[1]] =
            [c[3] EXCEPT !.device = TRUE, !.interval = PollTicks, !.wait = PollTicks, !.expires = expires]]
  /\ UNCHANGED <<loginCount, providerOn, authorized, endedLogins, exchanges, ages>>

\* The answer to a device login: it is lost when the login ended meanwhile, and never lasts longer than it.
beginDevice(c, ok, expires) ==
  /\ c \in calls /\ c[2] = "begin"
  /\ calls' = calls \ {c}
  /\ IF ~ok \/ ~liveLogin(c[1]) THEN drop(c[1])
     ELSE logins' = [logins EXCEPT ![c[1]] =
            [c[3] EXCEPT !.device = TRUE, !.interval = PollTicks, !.wait = PollTicks,
                         !.expires = smaller(logins[c[1]].expires, expires)]]
  /\ UNCHANGED <<loginCount, providerOn, authorized, endedLogins, exchanges, ages>>

\* A poll of a session's own device login: refused while another one runs, answered at once when it is too soon.
PollDevice(session, s) ==
  /\ logins[s].on /\ (logins[s].owner = session \/ logins[s].expires = 0)
  /\ IF logins[s].expires = 0 \/ (logins[s].device /\ ~providerOn)
     THEN drop(s) /\ endedLogins' = endedLogins \cup {s} /\ UNCHANGED <<calls, exchanges>>
     ELSE /\ logins[s].device /\ ~logins[s].polling /\ logins[s].wait = 0
          /\ logins' = [logins EXCEPT ![s].polling = TRUE]
          /\ calls' = calls \cup {<<s, "poll", [logins[s] EXCEPT !.polling = TRUE]>>}
          /\ UNCHANGED <<endedLogins, exchanges>>
  /\ UNCHANGED <<loginCount, providerOn, authorized, ages>>

again(entry, slow, expires) ==
  [entry EXCEPT !.polling = FALSE, !.expires = expires,
                !.interval = IF slow THEN SlowTicks ELSE @, !.wait = IF slow THEN SlowTicks ELSE entry.interval]

mPolled(c, answer) ==
  /\ c \in calls /\ c[2] = "poll"
  /\ calls' = calls \ {c}
  /\ IF answer \in {"pending", "slow"} THEN
       logins' = [logins EXCEPT ![c[1]] = again(c[3], answer = "slow", c[3].expires)] /\ UNCHANGED authorized
     ELSE drop(c[1]) /\ authorized' = IF answer = "granted" THEN authorized \cup {c[1]} ELSE authorized
  /\ UNCHANGED <<loginCount, providerOn, endedLogins, exchanges, ages>>

\* The provider's answer to a poll; a login that ended while the provider was asked authorizes nothing.
deviceAnswered(c, answer) ==
  /\ c \in calls /\ c[2] = "poll"
  /\ calls' = calls \ {c}
  /\ IF ~liveLogin(c[1]) THEN drop(c[1]) /\ UNCHANGED authorized
     ELSE IF answer \in {"pending", "slow"} THEN
       logins' = [logins EXCEPT ![c[1]] = again(c[3], answer = "slow", logins[c[1]].expires)] /\ UNCHANGED authorized
     ELSE drop(c[1]) /\ authorized' = IF answer = "granted" THEN authorized \cup {c[1]} ELSE authorized
  /\ UNCHANGED <<loginCount, providerOn, endedLogins, exchanges, ages>>

\* The pasted redirect: the login is taken out before its code is exchanged; a redirect that is not the
\* login's leaves it ("other" is not a step), a refusal ends it.
Finish(session, s, callback) ==
  /\ logins[s].on /\ (logins[s].owner = session \/ logins[s].expires = 0)
  /\ IF logins[s].expires = 0 \/ ~providerOn
     THEN drop(s) /\ endedLogins' = endedLogins \cup {s} /\ UNCHANGED <<calls, exchanges>>
     ELSE /\ logins[s].kind = "callback"
          /\ drop(s)
          /\ calls' = IF callback = "code" THEN calls \cup {<<s, "exchange", logins[s]>>} ELSE calls
          /\ exchanges' = IF callback = "code" THEN [exchanges EXCEPT ![s] = @ + 1] ELSE exchanges
          /\ UNCHANGED endedLogins
  /\ UNCHANGED <<loginCount, providerOn, authorized, ages>>

exchanged(c, ok) ==
  /\ c \in calls /\ c[2] = "exchange"
  /\ calls' = calls \ {c}
  /\ authorized' = IF ok THEN authorized \cup {c[1]} ELSE authorized
  /\ UNCHANGED <<logins, loginCount, providerOn, endedLogins, exchanges, ages>>

Cancel(session, s) ==
  /\ logins[s].on /\ logins[s].owner = session
  /\ drop(s) /\ endedLogins' = endedLogins \cup {s}
  /\ UNCHANGED <<loginCount, calls, providerOn, authorized, exchanges, ages>>

switchProvider ==
  /\ providerOn' = ~providerOn
  /\ UNCHANGED <<logins, loginCount, calls, authorized, endedLogins, exchanges, ages>>

nearer(n) == IF n = 0 THEN 0 ELSE n - 1

oauthTick ==
  /\ logins' = [s \in Logins |-> IF ~logins[s].on THEN logins[s]
                                ELSE [logins[s] EXCEPT !.expires = nearer(@), !.wait = nearer(@)]]
  /\ logins' # logins
  /\ endedLogins' = endedLogins \cup {s \in pendingLogins : logins[s].expires <= 1}
  /\ ages' = [s \in Logins |-> IF ~logins[s].on THEN 0 ELSE IF liveLogin(s) THEN ages[s] + 1 ELSE ages[s]]
  /\ UNCHANGED <<loginCount, calls, providerOn, authorized, exchanges>>

OAuthNext ==
  \/ \E o \in Sessions, k \in Kinds : BeginProviderWithProxy(o, k)
  \/ \E c \in calls : (\E ok \in BOOLEAN, x \in 1..(Lifetime + 1) : beginDevice(c, ok, x))
  \/ \E c \in calls : \E a \in {"pending", "slow", "denied", "granted"} : deviceAnswered(c, a)
  \/ \E c \in calls : \E ok \in BOOLEAN : exchanged(c, ok)
  \/ \E o \in Sessions, s \in Logins :
       PollDevice(o, s) \/ Cancel(o, s) \/ (\E callback \in {"code", "refused"} : Finish(o, s, callback))
  \/ switchProvider \/ oauthTick

OAuthSpec == OAuthInit /\ [][OAuthNext]_oauthVars
-----------------------------------------------------------------------------
(* Properties.                                                                *)

\* A session has one login in progress and there are at most PendingLimit.  None is in progress for longer
\* than its Lifetime, whatever time the provider gives a device login and whenever its answers come
\* (minTime), and an answer of the provider brings no replaced login back.
LoginsBounded ==
  /\ Cardinality(pendingLogins) <= PendingLimit
  /\ \A s \in pendingLogins : ages[s] + logins[s].expires <= Lifetime
  /\ \A s, t \in pendingLogins : logins[s].owner = logins[t].owner => s = t
  /\ \A s \in pendingLogins : s \in endedLogins => logins[s].expires = 0

\* A login that was canceled, replaced or expired while it was in progress never authorizes an account, even
\* when the provider granted it: what ended the login wins over the late answer.
EndedLoginsNeverAuthorize == authorized \cap endedLogins = {}

\* A code is exchanged once, however often its redirect is submitted, and a device login is asked for by
\* one poll at a time.
ExchangedOnce ==
  /\ \A s \in Logins : exchanges[s] <= 1
  /\ \A c, d \in calls : c[1] = d[1] /\ c[2] = "poll" /\ d[2] = "poll" => c = d

\* A login in progress is one of few, is exchanged once, and authorizes nothing once it has ended.
LoginsOnce == LoginsBounded /\ EndedLoginsNeverAuthorize /\ ExchangedOnce
=============================================================================
