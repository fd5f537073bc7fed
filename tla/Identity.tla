------------------------------ MODULE Identity ------------------------------
(* Accounts, their passwords, second factors, passkeys, sessions and          *)
(* invitations: internal/auth with the queries it runs.                       *)
(*                                                                            *)
(* SQLite has one connection, so a transaction is one step.  A call that      *)
(* hashes a password or verifies a signature does so before its transaction,  *)
(* with no lock: what it read then may be stale when the transaction runs.    *)
(* Such a call is a record call[c] between its two steps.  A password hash, a *)
(* session, a challenge, a TOTP secret, a batch of recovery codes and a       *)
(* passkey are fresh numbers (they are random in the code); a hash stands for *)
(* the password it was made from, which the caller is taken to know.          *)
(* A call that is refused before its transaction changes nothing and is not   *)
(* an action.  The tick is one TOTP step (30 seconds).                        *)
EXTENDS Integers, FiniteSets, Sequences, Functions

CONSTANTS
  Users,          \* rows of the users table, by username
  Admin,          \* user 1, the owner that Setup creates
  Calls,          \* concurrent calls
  HashSlots,      \* password hashes computed at once (2)
  MaxSessions,    \* sessions kept per user (5)
  SessionTTL, ChallengeTTL, InvitationTTL,
  MaxChallenges,  \* rows of auth_challenges (1000)
  MaxPasskeys,    \* passkeys per user (10)
  FactorBudget,   \* second-factor attempts per window (5)
  FactorWindow,   \* ticks of that window (1 minute)
  MaxWindows,     \* accounts tracked at once (1024)
  CodesPerBatch,  \* recovery codes generated at once (10)
  MaxCalls,       \* bound: operations begun in a behaviour
  MaxFresh,       \* bound: fresh values of a behaviour
  MaxNow          \* bound: the clock

Founded == 7  \* the fresh values of an installation in use (inUse)

ASSUME IdentityAssumption ==
  /\ Admin \in Users
  /\ {HashSlots, MaxSessions, MaxChallenges, MaxPasskeys, FactorBudget, FactorWindow,
      MaxWindows, SessionTTL, ChallengeTTL, InvitationTTL, MaxFresh} \subseteq Nat \ {0}
  /\ {CodesPerBatch, MaxNow} \subseteq Nat /\ Founded <= MaxFresh

VARIABLES
  users,        \* [Users -> row]
  sessions,     \* rows of sessions; hash and factor are what opened them
  challenges,   \* rows of auth_challenges
  invitations,  \* rows of invitations
  tenantActive, \* the inviting workspace is not suspended
  call,         \* [Calls -> the call between its two steps]
  started,      \* operations begun
  failures,     \* factorFailures, in memory
  signed,       \* [passkey -> signatures its authenticator has made]
  now,
  fresh,        \* the last fresh value
  spent,        \* history: second factors accepted by a committed transaction
  owners        \* history: Setup calls that committed

identityVars == <<users, sessions, challenges, invitations, tenantActive, call,
                  started, failures, signed, now, fresh, spent, owners>>

none == 0   \* NULL, and the empty password hash of a row that is not there
NoWindow == [count |-> 0, reset |-> 0]
Idle == [op |-> "idle", user |-> Admin, session |-> none, hash |-> none,
         version |-> 0, enabled |-> TRUE, key |-> none, previous |-> 0, counter |-> 0]
Absent == [hash |-> none, enabled |-> TRUE, totp |-> none, step |-> -1,
           version |-> 0, codes |-> {}, passkeys |-> [k \in {} |-> 0]]

exists(u) == users[u].hash # none
batch(n) == {[of |-> n, n |-> i] : i \in 1..CodesPerBatch}

-----------------------------------------------------------------------------
(* Reads.  A code is [of, n]: the TOTP of secret `of' at step n, or the n-th  *)
(* recovery code of batch `of'.                                               *)

HasAdministrator == exists(Admin)

GetSecurityUser(u) == exists(u) /\ users[u].enabled

\* securityUser: the session's row joined with its enabled user.
securityUser(s) == s \in sessions /\ s.expires > now /\ GetSecurityUser(s.user)

mTotpStep(secret, code, previous) ==
  code.of = secret /\ code.n \in (now - 1)..(now + 1) /\ code.n >= previous

totpStep(secret, code, previous) ==
  code.of = secret /\ code.n \in (now - 1)..(now + 1) /\ code.n > previous

purged == [u \in Users |-> IF now < failures[u].reset THEN failures[u] ELSE NoWindow]

\* factorAttempt: an account's budget, and room in the map for a new account.
mayAttempt(u) ==
  /\ purged[u].count < FactorBudget
  /\ purged[u].count = 0 =>
       Cardinality({v \in Users : purged[v].count > 0}) < MaxWindows

factorAttempt(u) ==
  [purged EXCEPT ![u] = [count |-> @.count + 1,
                         reset |-> IF @.count = 0 THEN now + FactorWindow ELSE @.reset]]

factorVerified(u) == [purged EXCEPT ![u] = NoWindow]

Codes(u) == [of : {users[u].totp}, n : (now - 1)..(now + 1)]
            \cup users[u].codes \cup UNION {batch(s[2].of) : s \in {s \in Range(spent) : s[1] = u}}

matches(u, code) ==
  \/ totpStep(users[u].totp, code, users[u].step)
  \/ code \in users[u].codes

\* verifyFactor accepts: AdvanceTOTPStep or ConsumeRecoveryCode on the row.
consumed(row, code) ==
  IF row.totp = none THEN row
  ELSE IF code.of = row.totp THEN [row EXCEPT !.step = code.n]
  ELSE [row EXCEPT !.codes = @ \ {code}]

verifyFactor(u, code) ==
  users[u].totp = none \/ (mayAttempt(u) /\ matches(u, code))

afterFactor(u) == IF users[u].totp = none THEN failures ELSE factorVerified(u)
record(u, code) == IF users[u].totp = none THEN spent ELSE Append(spent, <<u, code>>)

-----------------------------------------------------------------------------
(* Writes shared by several transactions.                                     *)

userSessions(u) == {s \in sessions : s.user = u}
userChallenges(u) == {ch \in challenges : ch.kind # "login" /\ ch.user = u}

\* TrimSessions: the new session and the newest others of its user.
TrimSessions(table, u, id) ==
  {s \in table : \/ s.user # u
                 \/ s.id = id
                 \/ Cardinality({o \in table : o.user = u /\ o.id # id /\ o.id > s.id})
                      < MaxSessions - 1}

\* createSession rechecks the enabled row and the hash the caller verified.
createSession(u, hash, row, opened) ==
  /\ row.enabled /\ row.hash = hash
  /\ fresh' = fresh + 1
  /\ LET s == [id |-> fresh + 1, user |-> u, expires |-> now + SessionTTL,
               hash |-> hash, factor |-> opened]
         unexpired == {o \in sessions : o.expires > now}
     IN sessions' = TrimSessions(unexpired \cup {s}, u, s.id)

\* newChallenge: expired rows and the session's earlier one of the kind go first.
newChallenge(kind, u, session, version, secret) ==
  LET kept == {ch \in challenges :
                 /\ ch.expires > now
                 /\ ~(session # none /\ ch.session = session /\ ch.kind = kind)}
  IN /\ Cardinality(kept) < MaxChallenges
     /\ challenges' = kept \cup {[id |-> fresh + 1, kind |-> kind, user |-> u,
          session |-> session, version |-> version, secret |-> secret,
          expires |-> now + ChallengeTTL]}

\* challenge: present, of the kind, unexpired, and this session's at this version.
challenge(ch, kind, s) ==
  /\ ch \in challenges /\ ch.kind = kind /\ ch.expires > now
  /\ securityUser(s) /\ s.user = ch.user /\ s.id = ch.session
  /\ users[s.user].version = ch.version

\* securityChanged: the version moves, only the caller's session survives.
securityChanged(row, u, id) ==
  /\ users' = [users EXCEPT ![u] = [row EXCEPT !.version = @ + 1]]
  /\ challenges' = challenges \ userChallenges(u)
  /\ sessions' = {s \in sessions : s.user # u \/ s.id = id}

-----------------------------------------------------------------------------
(* First steps: what a call reads before its transaction.                     *)

hashing == {c \in Calls : call[c].op \in {"setup", "member", "invited", "login", "proof", "replace"}}
acquire == Cardinality(hashing) < HashSlots
counted == started < MaxCalls /\ started' = started + 1
begin(c, state) == call[c] = Idle /\ counted /\ call' = [call EXCEPT ![c] = state]
resume(c, state) == call[c] = Idle /\ call' = [call EXCEPT ![c] = state] /\ UNCHANGED started
untouched == UNCHANGED <<users, sessions, challenges, invitations, tenantActive,
                         failures, signed, now, fresh, spent, owners>>
done(c) == call' = [call EXCEPT ![c] = Idle] /\ UNCHANGED started

Setup(c) ==
  /\ ~HasAdministrator /\ acquire
  /\ begin(c, [Idle EXCEPT !.op = "setup"]) /\ untouched

CreateMemberForTenant(c, u) ==
  /\ u # Admin /\ acquire
  /\ begin(c, [Idle EXCEPT !.op = "member", !.user = u]) /\ untouched

usable(i) == i \in invitations /\ i.expires > now /\ ~i.used /\ tenantActive

RegisterInvitation(c, i, u) ==
  /\ u # Admin /\ usable(i) /\ acquire
  /\ begin(c, [Idle EXCEPT !.op = "invited", !.user = u, !.key = i.id]) /\ untouched

LoginWithCode(c, u) ==
  /\ GetSecurityUser(u) /\ acquire
  /\ begin(c, [Idle EXCEPT !.op = "login", !.user = u,
               !.hash = users[u].hash, !.version = users[u].version])
  /\ untouched

\* withProof: session, password; then the transaction `proved'.
withProof(c, s) ==
  /\ securityUser(s) /\ acquire
  /\ begin(c, [Idle EXCEPT !.op = "proof", !.user = s.user, !.session = s.id,
               !.hash = users[s.user].hash, !.version = users[s.user].version])
  /\ untouched

\* ChangePassword by its user, ResetMemberPassword, RecoverAdministrator.
ChangePassword(c, u) ==
  /\ exists(u) /\ users[u].enabled /\ acquire
  /\ begin(c, [Idle EXCEPT !.op = "replace", !.user = u, !.hash = users[u].hash])
  /\ untouched

resetPassword(c, u) ==
  /\ exists(u) /\ acquire
  /\ begin(c, [Idle EXCEPT !.op = "replace", !.user = u, !.hash = users[u].hash,
               !.enabled = users[u].enabled, !.key = IF u = Admin THEN 1 ELSE none])
  /\ untouched

-----------------------------------------------------------------------------
(* Transactions.                                                              *)

CreateAdministrator == ~exists(Admin)

setupCommits(c) ==
  /\ call[c].op = "setup" /\ done(c)
  /\ IF CreateAdministrator
     THEN /\ users' = [users EXCEPT ![Admin] = [Absent EXCEPT !.hash = fresh + 1]]
          /\ createSession(Admin, fresh + 1, users'[Admin], none)
          /\ owners' = owners + 1
     ELSE UNCHANGED <<users, sessions, fresh, owners>>
  /\ UNCHANGED <<challenges, invitations, tenantActive, failures, signed, now, spent>>

memberCommits(c) ==
  LET u == call[c].user IN
  /\ call[c].op = "member" /\ done(c)
  /\ IF exists(u) THEN UNCHANGED <<users, fresh>>
     ELSE /\ users' = [users EXCEPT ![u] = [Absent EXCEPT !.hash = fresh + 1]]
          /\ fresh' = fresh + 1
  /\ UNCHANGED <<sessions, challenges, invitations, tenantActive, failures, signed, now, spent, owners>>

\* The link is looked up again after hashing, and consumed with the account.
stillUsable(i) == usable(i)
mConsume(i, u) == (invitations \ {i}) \cup {[i EXCEPT !.admitted = @ \cup {u}]}

ConsumeInvitation(i, u) == (invitations \ {i}) \cup {[i EXCEPT !.used = TRUE, !.admitted = @ \cup {u}]}

invitedCommits(c) ==
  LET u == call[c].user IN
  /\ call[c].op = "invited" /\ done(c)
  /\ \/ \E i \in invitations :
          /\ i.id = call[c].key /\ stillUsable(i) /\ ~exists(u)
          /\ users' = [users EXCEPT ![u] = [Absent EXCEPT !.hash = fresh + 1]]
          /\ invitations' = ConsumeInvitation(i, u)
          /\ createSession(u, fresh + 1, users'[u], none)
     \/ /\ \A i \in invitations : i.id = call[c].key => ~(stillUsable(i) /\ ~exists(u))
        /\ UNCHANGED <<users, invitations, sessions, fresh>>
  /\ UNCHANGED <<challenges, tenantActive, failures, signed, now, spent, owners>>

\* The row read in the transaction is the one the password was verified against.
mUnchangedSince(u, c) == GetSecurityUser(u) /\ users[u].hash = call[c].hash

unchangedSince(u, c) ==
  GetSecurityUser(u) /\ users[u].hash = call[c].hash /\ users[u].version = call[c].version

loginCommits(c, code) ==
  LET u == call[c].user
      row == consumed(users[u], code)
  IN
  /\ call[c].op = "login" /\ done(c)
  /\ unchangedSince(u, c) /\ verifyFactor(u, code)
  /\ users' = [users EXCEPT ![u] = row]
  /\ createSession(u, call[c].hash, row, row.totp)
  /\ failures' = afterFactor(u) /\ spent' = record(u, code)
  /\ UNCHANGED <<challenges, invitations, tenantActive, signed, now, owners>>

\* A stale row, a missing code, a canceled request or a failed query ends the
\* call with nothing written; a wrong code also costs an attempt.
callRefused(c) ==
  /\ call[c].op \in {"login", "proof"} /\ done(c)
  /\ UNCHANGED <<users, sessions, challenges, invitations, tenantActive, failures, signed, now,
                 fresh, spent, owners>>

factorRejected(c) ==
  LET u == call[c].user IN
  /\ call[c].op \in {"login", "proof"} /\ done(c)
  /\ unchangedSince(u, c) /\ users[u].totp # none /\ mayAttempt(u)
  /\ failures' = factorAttempt(u)
  /\ UNCHANGED <<users, sessions, challenges, invitations, tenantActive, signed, now, fresh, spent, owners>>

\* The commit fails after the code was accepted: memory keeps the reset budget.
commitFails(c) ==
  LET u == call[c].user IN
  /\ call[c].op \in {"login", "proof"} /\ done(c)
  /\ unchangedSince(u, c) /\ users[u].totp # none /\ mayAttempt(u)
  /\ \E code \in Codes(u) : matches(u, code)
  /\ failures' = factorVerified(u)
  /\ UNCHANGED <<users, sessions, challenges, invitations, tenantActive, signed, now, fresh, spent, owners>>

\* The transaction of withProof up to its apply function.
proved(c, code) ==
  LET u == call[c].user IN
  /\ call[c].op = "proof"
  /\ \E s \in sessions : s.id = call[c].session /\ securityUser(s)
  /\ unchangedSince(u, c) /\ verifyFactor(u, code)
  /\ failures' = afterFactor(u) /\ spent' = record(u, code)

BeginTOTP(c, code) ==
  LET u == call[c].user IN
  /\ proved(c, code) /\ done(c)
  /\ users[u].totp = none
  /\ newChallenge("totp", u, call[c].session, users[u].version, fresh + 2)
  /\ fresh' = fresh + 2
  /\ UNCHANGED <<users, sessions, invitations, tenantActive, signed, now, owners>>

DisableTOTP(c, code) ==
  LET u == call[c].user IN
  /\ proved(c, code) /\ done(c)
  /\ users[u].totp # none
  /\ securityChanged([users[u] EXCEPT !.totp = none, !.step = -1, !.codes = {}], u, call[c].session)
  /\ UNCHANGED <<invitations, tenantActive, signed, now, fresh, owners>>

RegenerateRecoveryCodes(c, code) ==
  LET u == call[c].user IN
  /\ proved(c, code) /\ done(c)
  /\ users[u].totp # none
  /\ fresh' = fresh + 1
  /\ securityChanged([consumed(users[u], code) EXCEPT !.codes = batch(fresh + 1)], u, call[c].session)
  /\ UNCHANGED <<invitations, tenantActive, signed, now, owners>>

DeletePasskey(c, code, k) ==
  LET u == call[c].user
      row == consumed(users[u], code)
  IN
  /\ proved(c, code) /\ done(c)
  /\ k \in DOMAIN row.passkeys
  /\ securityChanged([row EXCEPT !.passkeys = Restrict(@, DOMAIN @ \ {k})], u, call[c].session)
  /\ UNCHANGED <<invitations, tenantActive, signed, now, fresh, owners>>

\* BeginPasskeyRegistration: the proof commits before the ceremony is saved.
BeginPasskeyRegistration(c, code) ==
  LET u == call[c].user IN
  /\ proved(c, code)
  /\ users' = [users EXCEPT ![u] = consumed(@, code)]
  /\ call' = [call EXCEPT ![c].op = "ceremony"] /\ UNCHANGED started
  /\ UNCHANGED <<sessions, challenges, invitations, tenantActive, signed, now, fresh, owners>>

saveChallenge(c) ==
  LET u == call[c].user IN
  /\ call[c].op = "ceremony" /\ done(c)
  /\ IF /\ \E s \in sessions : s.id = call[c].session /\ securityUser(s)
        /\ users[u].version = call[c].version
        /\ Cardinality(DOMAIN users[u].passkeys) < MaxPasskeys
     THEN /\ newChallenge("register", u, call[c].session, users[u].version, none)
          /\ fresh' = fresh + 1
     ELSE UNCHANGED <<challenges, fresh>>
  /\ UNCHANGED <<users, sessions, invitations, tenantActive, failures, signed, now, spent, owners>>

mEnableTOTP(s, ch, code) ==
  LET u == ch.user IN
  /\ challenge(ch, "totp", s) /\ mayAttempt(u)
  /\ totpStep(ch.secret, code, -1)
  /\ fresh' = fresh + 1
  /\ users' = [users EXCEPT ![u] = [users[u] EXCEPT !.totp = ch.secret, !.step = code.n,
                 !.codes = batch(fresh + 1), !.version = @ + 1]]
  /\ challenges' = challenges \ userChallenges(u)
  /\ sessions' = (sessions \ {s}) \cup {[s EXCEPT !.factor = ch.secret]}
  /\ failures' = factorVerified(u) /\ spent' = Append(spent, <<u, code>>)
  /\ counted
  /\ UNCHANGED <<invitations, tenantActive, call, signed, now, owners>>

EnableTOTP(s, ch, code) ==
  LET u == ch.user IN
  /\ challenge(ch, "totp", s) /\ mayAttempt(u)
  /\ totpStep(ch.secret, code, -1)
  /\ fresh' = fresh + 1
  /\ users' = [users EXCEPT ![u] = [users[u] EXCEPT !.totp = ch.secret, !.step = code.n,
                 !.codes = batch(fresh + 1), !.version = @ + 1]]
  /\ challenges' = challenges \ userChallenges(u)
  \* securityChanged keeps the caller's session, which has just shown the code.
  /\ sessions' = {o \in sessions : o.user # u} \cup {[s EXCEPT !.factor = ch.secret]}
  /\ failures' = factorVerified(u) /\ spent' = Append(spent, <<u, code>>)
  /\ counted
  /\ UNCHANGED <<invitations, tenantActive, call, signed, now, owners>>

enableRejected(s, ch) ==
  /\ challenge(ch, "totp", s) /\ mayAttempt(ch.user)
  /\ failures' = factorAttempt(ch.user)
  /\ counted
  /\ UNCHANGED <<users, sessions, challenges, invitations, tenantActive, call, signed, now, fresh, spent, owners>>

mReplaceGuard(c) == users[call[c].user].enabled = call[c].enabled

\* ReplacePassword: the row is still the one the call read.
ReplacePassword(c) ==
  LET row == users[call[c].user] IN row.hash = call[c].hash /\ row.enabled = call[c].enabled

\* Local recovery of the owner (key = 1) also clears lost factors.
recovered(row) == [row EXCEPT !.totp = none, !.step = -1, !.codes = {}, !.passkeys = [k \in {} |-> 0]]

mReplacePassword(c) ==
  LET u == call[c].user IN
  /\ call[c].op = "replace" /\ done(c)
  /\ ReplacePassword(c)
  /\ users' = [users EXCEPT ![u] = [@ EXCEPT !.hash = fresh + 1, !.version = @ + 1]]
  /\ fresh' = fresh + 1
  /\ challenges' = challenges \ userChallenges(u)
  /\ UNCHANGED <<sessions, invitations, tenantActive, failures, signed, now, spent, owners>>

replacePassword(c) ==
  LET u == call[c].user
      row == IF call[c].key = 1 THEN recovered(users[u]) ELSE users[u]
  IN
  /\ call[c].op = "replace" /\ done(c)
  /\ IF ReplacePassword(c)
     THEN /\ users' = [users EXCEPT ![u] = [row EXCEPT !.hash = fresh + 1, !.version = @ + 1]]
          /\ fresh' = fresh + 1
          /\ challenges' = challenges \ userChallenges(u)
          /\ sessions' = sessions \ userSessions(u)
     ELSE UNCHANGED <<users, fresh, challenges, sessions>>
  /\ UNCHANGED <<invitations, tenantActive, failures, signed, now, spent, owners>>

SetMemberEnabled(u, enabled) ==
  /\ u # Admin /\ exists(u)
  /\ users' = [users EXCEPT ![u].enabled = enabled]
  /\ sessions' = IF enabled THEN sessions ELSE sessions \ userSessions(u)
  /\ counted
  /\ UNCHANGED <<challenges, invitations, tenantActive, call, failures, signed, now, fresh, spent, owners>>

Revoke(s) ==
  /\ sessions' = sessions \ {s}
  /\ counted
  /\ UNCHANGED <<users, challenges, invitations, tenantActive, call, failures, signed, now, fresh, spent, owners>>

CreateInvitation ==
  /\ GetSecurityUser(Admin) /\ tenantActive
  /\ fresh' = fresh + 1
  /\ invitations' = invitations \cup {[id |-> fresh + 1, expires |-> now + InvitationTTL, used |-> FALSE, admitted |-> {}]}
  /\ counted
  /\ UNCHANGED <<users, sessions, challenges, tenantActive, call, failures, signed, now, spent, owners>>

Suspend ==
  /\ tenantActive' = FALSE
  /\ counted
  /\ UNCHANGED <<users, sessions, challenges, invitations, call, failures, signed, now, fresh, spent, owners>>

-----------------------------------------------------------------------------
(* Passkey ceremonies: the challenge is deleted before the response is checked.*)

BeginPasskeyLogin ==
  /\ newChallenge("login", Admin, none, 0, none)
  /\ fresh' = fresh + 1
  /\ counted
  /\ UNCHANGED <<users, sessions, invitations, tenantActive, call, failures, signed, now, spent, owners>>

takeLogin(c, ch) ==
  /\ ch \in challenges /\ ch.kind = "login" /\ ch.expires > now
  /\ resume(c, [Idle EXCEPT !.op = "taken"])
  /\ challenges' = challenges \ {ch}
  /\ UNCHANGED <<users, sessions, invitations, tenantActive, failures, signed, now, fresh, spent, owners>>

\* FindPasskeyUser and GetSecurityUser, then (a later query) ListPasskeys.
passkeyUser(c, u) ==
  /\ call[c].op = "taken" /\ GetSecurityUser(u)
  /\ call' = [call EXCEPT ![c] = [@ EXCEPT !.op = "found", !.user = u,
                !.hash = users[u].hash, !.version = users[u].version]]
  /\ UNCHANGED started /\ untouched

\* The authenticator's counter must be ahead of the stored one (CloneWarning).
ValidatePasskeyLogin(c, k) ==
  LET row == users[call[c].user] IN
  /\ call[c].op = "found" /\ k \in DOMAIN row.passkeys
  /\ signed[k] + 1 > row.passkeys[k]
  /\ signed' = [signed EXCEPT ![k] = @ + 1]
  /\ call' = [call EXCEPT ![c] = [@ EXCEPT !.op = "assertion", !.key = k,
                !.previous = row.passkeys[k], !.counter = signed[k] + 1]]
  /\ UNCHANGED started
  /\ UNCHANGED <<users, sessions, challenges, invitations, tenantActive, failures, now, fresh, spent, owners>>

\* UpdatePasskey: the credential is still the one that was validated.
UpdatePasskey(row, c) ==
  call[c].key \in DOMAIN row.passkeys /\ row.passkeys[call[c].key] = call[c].previous

FinishPasskeyLogin(c) ==
  LET u == call[c].user
      row == [users[u] EXCEPT !.passkeys = [@ EXCEPT ![call[c].key] = call[c].counter]]
  IN
  /\ call[c].op = "assertion" /\ done(c)
  /\ IF GetSecurityUser(u) /\ users[u].version = call[c].version /\ UpdatePasskey(users[u], c)
     THEN /\ users' = [users EXCEPT ![u] = row]
          /\ createSession(u, call[c].hash, row, row.totp)
     ELSE UNCHANGED <<users, sessions, fresh>>
  /\ UNCHANGED <<challenges, invitations, tenantActive, failures, signed, now, spent, owners>>

\* A response that is not valid ends the ceremony; the challenge stays consumed.
ceremonyFails(c) ==
  /\ call[c].op \in {"taken", "found", "enrol", "ceremony"} /\ done(c)
  /\ untouched

takeRegistration(c, s, ch) ==
  /\ challenge(ch, "register", s)
  /\ resume(c, [Idle EXCEPT !.op = "enrol", !.user = ch.user, !.session = s.id, !.version = ch.version])
  /\ challenges' = challenges \ {ch}
  /\ UNCHANGED <<users, sessions, invitations, tenantActive, failures, signed, now, fresh, spent, owners>>

CreatePasskey(u) == Cardinality(DOMAIN users[u].passkeys) < MaxPasskeys

FinishPasskeyRegistration(c) ==
  LET u == call[c].user
      k == fresh + 1
  IN
  /\ call[c].op = "enrol" /\ done(c)
  /\ \E s \in sessions : s.id = call[c].session /\ securityUser(s)
  /\ users[u].version = call[c].version /\ CreatePasskey(u)
  /\ fresh' = k
  /\ signed' = [x \in DOMAIN signed \cup {k} |-> IF x = k THEN 0 ELSE signed[x]]
  /\ securityChanged([users[u] EXCEPT !.passkeys =
        [x \in DOMAIN @ \cup {k} |-> IF x = k THEN 0 ELSE @[x]]], u, call[c].session)
  /\ UNCHANGED <<invitations, tenantActive, failures, now, spent, owners>>

Tick ==
  /\ now < MaxNow /\ now' = now + 1
  /\ UNCHANGED <<users, sessions, challenges, invitations, tenantActive, call, started, failures, signed, fresh, spent, owners>>

-----------------------------------------------------------------------------
(* A new installation, and one in use: an owner, and a member with a second   *)
(* factor and a passkey, each signed in.                                      *)

Members == Users \ {Admin}

freshInstall ==
  /\ users = [u \in Users |-> Absent]
  /\ sessions = {} /\ signed = [k \in {} |-> 0]

inUse == \E m \in Members :
  /\ users = [u \in Users |->
       IF u = Admin THEN [Absent EXCEPT !.hash = 1]
       ELSE IF u # m THEN Absent
       ELSE [Absent EXCEPT !.hash = 2, !.totp = 3, !.step = 0, !.version = 1,
               !.codes = batch(4), !.passkeys = [k \in {5} |-> 0]]]
  /\ sessions = {[id |-> 6, user |-> Admin, expires |-> SessionTTL, hash |-> 1, factor |-> none],
                  [id |-> 7, user |-> m, expires |-> SessionTTL, hash |-> 2, factor |-> 3]}
  /\ signed = [k \in {5} |-> 0]

IdentityInit ==
  /\ freshInstall \/ inUse
  /\ challenges = {} /\ invitations = {} /\ tenantActive = TRUE
  /\ call = [c \in Calls |-> Idle] /\ started = 0
  /\ failures = [u \in Users |-> NoWindow]
  /\ now = 0 /\ fresh = Founded /\ spent = <<>>
  /\ owners = IF exists(Admin) THEN 1 ELSE 0

\* Steps that draw at most two fresh values.
issues ==
  \/ \E c \in Calls : setupCommits(c) \/ memberCommits(c) \/ invitedCommits(c)
                        \/ replacePassword(c) \/ saveChallenge(c)
                        \/ FinishPasskeyLogin(c) \/ FinishPasskeyRegistration(c)
  \/ \E c \in Calls : \E code \in Codes(call[c].user) :
       loginCommits(c, code) \/ BeginTOTP(c, code) \/ RegenerateRecoveryCodes(c, code)
  \/ \E s \in sessions, ch \in challenges : \E n \in (now - 1)..(now + 1) :
       EnableTOTP(s, ch, [of |-> ch.secret, n |-> n])
  \/ CreateInvitation \/ BeginPasskeyLogin

starts(c) ==
  \/ Setup(c)
  \/ \E u \in Users : CreateMemberForTenant(c, u) \/ LoginWithCode(c, u)
                       \/ ChangePassword(c, u) \/ resetPassword(c, u)
                       \/ \E i \in invitations : RegisterInvitation(c, i, u)
  \/ \E s \in sessions : withProof(c, s) \/ \E ch \in challenges : takeRegistration(c, s, ch)
  \/ \E ch \in challenges : takeLogin(c, ch)

continues(c) ==
  \/ callRefused(c) \/ factorRejected(c) \/ commitFails(c) \/ ceremonyFails(c)
  \/ \E u \in Users : passkeyUser(c, u)
  \/ \E k \in DOMAIN signed : ValidatePasskeyLogin(c, k)
  \/ \E code \in Codes(call[c].user) :
       \/ DisableTOTP(c, code) \/ BeginPasskeyRegistration(c, code)
       \/ \E k \in DOMAIN signed : DeletePasskey(c, code, k)

IdentityNext ==
  \/ fresh + 2 <= MaxFresh /\ issues
  \/ \E c \in Calls : starts(c) \/ continues(c)
  \/ \E s \in sessions : Revoke(s) \/ \E ch \in challenges : enableRejected(s, ch)
  \/ \E u \in Users, enabled \in BOOLEAN : SetMemberEnabled(u, enabled)
  \/ Suspend \/ Tick

IdentitySpec == IdentityInit /\ [][IdentityNext]_identityVars

-----------------------------------------------------------------------------
(* Properties.                                                                *)

\* The types of the tables, the calls and the in-memory windows.
IdentityTypeOK ==
  /\ \A u \in Users : /\ users[u].hash \in 0..MaxFresh /\ users[u].enabled \in BOOLEAN
                       /\ users[u].totp \in 0..MaxFresh /\ users[u].version \in Nat
                       /\ users[u].step \in -1..(MaxNow + 1)
                       /\ DOMAIN users[u].passkeys \subseteq DOMAIN signed
                       /\ failures[u].count \in 0..FactorBudget
  /\ \A s \in sessions : s.user \in Users /\ exists(s.user)
  /\ Cardinality(challenges) <= MaxChallenges
  /\ fresh \in Founded..MaxFresh /\ now \in 0..MaxNow
  /\ Cardinality(hashing) <= HashSlots

\* Every session in the table belongs to an enabled account and was opened under
\* the account's present password: replacing the password or disabling the
\* account leaves no session behind, nor one opened by a call that had verified
\* the earlier password (createSession, replacePassword, SetMemberEnabled).
SessionsCurrent ==
  \A s \in sessions : users[s.user].enabled /\ s.hash = users[s.user].hash

\* While an account has a second factor, each of its sessions has shown that
\* factor or a passkey (LoginWithCode, FinishPasskeyLogin), or is the session
\* that enabled it: no session from before the factor was enabled remains.
FactorShown ==
  \A s \in sessions : users[s.user].totp # none => s.factor = users[s.user].totp

\* No TOTP code and no recovery code is accepted by two committed transactions,
\* whichever calls race (verifyFactor inside the transaction that it authorises).
CodeSpentOnce == IsInjective(spent)

\* The session a transaction issues is in the table it leaves (TrimSessions
\* spares it, whatever its timestamp), so a login that succeeded is not undone.
NewSessionKept ==
  [][\A c \in Calls : call[c].op \in {"login", "assertion", "setup"} /\ fresh' # fresh /\ call'[c].op = "idle"
       => \E s \in sessions' : s.id = fresh' /\ s.user = call[c].user]_identityVars

\* Racing setups produce one owner (CreateAdministrator's guarded insert).
OneOwner == owners <= 1

\* A link admits one account, however many registrations hashed a password for it.
InvitationUsedOnce == \A i \in invitations : Cardinality(i.admitted) <= 1

\* A passkey's stored counter never goes back, even when two logins validated
\* the same stored credential and commit in the other order (UpdatePasskey).
CounterForward ==
  [][\A u \in Users : \A k \in DOMAIN users[u].passkeys \cap DOMAIN users'[u].passkeys :
       users'[u].passkeys[k] >= users[u].passkeys[k]]_identityVars

\* What the call read before its transaction is what its account's row still
\* says: the password it was verified against, the version of the factors, and
\* that the account is enabled (or, for a reset, as enabled as it was).
standsAsRead(c) ==
  LET row == users[call[c].user] IN
  /\ call[c].op \in {"login", "proof", "replace"} => row.hash = call[c].hash
  /\ call[c].op \in {"login", "proof", "ceremony", "enrol", "assertion"} => row.version = call[c].version
  /\ row.enabled \/ call[c].op \in {"ceremony", "enrol"} \/ (call[c].op = "replace" /\ ~call[c].enabled)

\* A transaction that changes an account, its sessions or its challenges runs on
\* what its call had verified before it: of two changes of the password or of
\* the factors that were verified together only one commits, and neither does a
\* login verified before them (the recheck of withProof and LoginWithCode, the
\* guarded update of replacePassword, the version of a passkey ceremony).
ChangeNotStale ==
  [][\A c \in Calls :
       /\ call[c].op \in {"login", "proof", "ceremony", "enrol", "assertion", "replace"} /\ call'[c] # call[c]
       /\ <<users', sessions', challenges'>> # <<users, sessions, challenges>>
       => standsAsRead(c)]_identityVars

\* No session outlives the password, the enabled account or the second factor it was opened under.
SessionsSound == IdentityTypeOK /\ SessionsCurrent /\ FactorShown

\* A code, a link and the first setup each count once, whichever calls race for them.
UsedOnce == CodeSpentOnce /\ InvitationUsedOnce /\ OneOwner

\* What was verified before a transaction still stands when it commits: no stale change, no passkey counter
\* that goes back, no login that another one undoes.
ChangesInOrder == ChangeNotStale /\ CounterForward /\ NewSessionKept
=============================================================================
