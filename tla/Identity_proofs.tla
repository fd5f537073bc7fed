--------------------------- MODULE Identity_proofs ---------------------------
(* Proofs about Identity: sessions, second factors, passkeys and invitations. *)
EXTENDS Identity, FiniteSetTheorems, TLAPS

CodeSet == [of : Nat, n : Int]
Counters == UNION {[D -> Nat] : D \in SUBSET Nat}
Rows == [hash : Nat, enabled : BOOLEAN, totp : Nat, step : Int, version : Nat,
         codes : SUBSET CodeSet, passkeys : Counters]
SessionRows == [id : Nat, user : Users, expires : Nat, hash : Nat, factor : Nat]
ChallengeRows == [id : Nat, kind : {"login", "totp", "register"}, user : Users, session : Nat,
                  version : Nat, secret : Nat, expires : Nat]
InvitationRows == [id : Nat, expires : Nat, used : BOOLEAN, admitted : SUBSET Users]
Operations == {"idle", "setup", "member", "invited", "login", "proof", "replace", "ceremony",
               "taken", "found", "assertion", "enrol"}
Hashing == {"setup", "member", "invited", "login", "proof", "replace"}
CallStates == [op : Operations, user : Users, session : Nat, hash : Nat, version : Nat,
               enabled : BOOLEAN, key : Nat, previous : Nat, counter : Nat]
Windows == [count : 0..FactorBudget, reset : Nat]

\* A row whose secrets are among the numbers up to f, and its passkeys among keys: the codes are of
\* another batch than the secret.
RowIn(row, f, keys) ==
  /\ row \in Rows /\ row.hash <= f /\ row.totp <= f /\ row.step \in -1..(MaxNow + 1)
  /\ \A code \in row.codes : code.of \in 1..f /\ code.of # row.totp
  /\ DOMAIN row.passkeys \subseteq keys

Tables ==
  /\ users \in [Users -> Rows] /\ \A u \in Users : RowIn(users[u], fresh, DOMAIN signed)
  /\ signed \in Counters /\ \A k \in DOMAIN signed : k <= fresh
  /\ fresh \in Founded..MaxFresh

Clocks == now \in 0..MaxNow /\ failures \in [Users -> Windows]

SessionsOpen ==
  /\ sessions \subseteq SessionRows /\ \A s \in sessions : exists(s.user)
  /\ SessionsCurrent /\ FactorShown

ChallengesBounded ==
  challenges \subseteq ChallengeRows /\ IsFiniteSet(challenges) /\ Cardinality(challenges) <= MaxChallenges

\* A secret that waits for its first code is of no account and of no other challenge.
SecretsWaiting ==
  /\ \A ch \in challenges : ch.kind = "totp" =>
       /\ ch.secret \in 1..fresh
       /\ \A u \in Users : users[u].totp # ch.secret /\ \A code \in users[u].codes : code.of # ch.secret
  /\ \A ch, d \in challenges : ch.kind = "totp" /\ d.kind = "totp" /\ ch.secret = d.secret => ch = d

\* A row accepts the code no more.
Used(row, code) == code \notin row.codes /\ (code.of = row.totp => code.n <= row.step)

SpentPast ==
  /\ spent \in Seq(Users \X CodeSet)
  /\ \A i \in DOMAIN spent :
       /\ spent[i][2].of \in 1..fresh /\ Used(users[spent[i][1]], spent[i][2])
       /\ \A ch \in challenges : ch.kind = "totp" => ch.secret # spent[i][2].of
  /\ CodeSpentOnce

CallsKnown ==
  /\ call \in [Calls -> CallStates]
  /\ IsFiniteSet(hashing) /\ Cardinality(hashing) <= HashSlots
  /\ \A c \in Calls : /\ call[c].op = "setup" => call[c].user = Admin
                      /\ call[c].op = "assertion" => call[c].counter > call[c].previous

OwnerOnce == owners \in 0..1 /\ (~exists(Admin) => owners = 0)

LinksOnce ==
  /\ invitations \subseteq InvitationRows
  /\ \A i \in invitations : IF i.used THEN \E u \in Users : i.admitted = {u} ELSE i.admitted = {}

IdentityInv ==
  /\ Tables /\ Clocks /\ SessionsOpen /\ ChallengesBounded /\ SecretsWaiting /\ SpentPast
  /\ CallsKnown /\ OwnerOnce /\ LinksOnce

-----------------------------------------------------------------------------
(* Rows.                                                                      *)

LEMMA Bounds ==
  /\ Admin \in Users
  /\ HashSlots \in Nat \ {0} /\ MaxSessions \in Nat \ {0} /\ MaxChallenges \in Nat \ {0} /\ MaxPasskeys \in Nat \ {0}
  /\ FactorBudget \in Nat \ {0} /\ FactorWindow \in Nat \ {0} /\ SessionTTL \in Nat \ {0}
  /\ ChallengeTTL \in Nat \ {0} /\ InvitationTTL \in Nat \ {0} /\ MaxFresh \in Nat /\ MaxFresh >= 7
  /\ CodesPerBatch \in Nat /\ MaxNow \in Nat
  BY IdentityAssumption DEF IdentityAssumption, Founded

LEMMA NoPasskeys == [k \in {} |-> 0] \in Counters /\ DOMAIN [k \in {} |-> 0] = {}
  <1>1. [k \in {} |-> 0] \in [{} -> Nat]
    OBVIOUS
  <1> QED
    BY <1>1 DEF Counters

LEMMA CounterIs ==
  ASSUME NEW f \in Counters
  PROVE  DOMAIN f \subseteq Nat /\ f = [k \in DOMAIN f |-> f[k]] /\ \A k \in DOMAIN f : f[k] \in Nat
  BY DEF Counters

LEMMA IsCounter ==
  ASSUME NEW D, D \subseteq Nat, NEW f \in [D -> Nat]
  PROVE  f \in Counters /\ DOMAIN f = D
  BY DEF Counters

LEMMA BatchIs ==
  ASSUME NEW n \in Nat
  PROVE  batch(n) \in SUBSET CodeSet /\ \A code \in batch(n) : code.of = n
  BY Bounds DEF batch, CodeSet

LEMMA AbsentRow == Absent \in Rows /\ Absent.hash = none /\ Absent.enabled = TRUE /\ Absent.totp = none /\ Absent.step = -1 /\ Absent.codes = {}
                   /\ DOMAIN Absent.passkeys = {}
  <1> DEFINE p == [k \in {} |-> 0]
             row == [hash |-> none, enabled |-> TRUE, totp |-> none, step |-> -1, version |-> 0, codes |-> {}, passkeys |-> p]
  <1>1. p \in Counters /\ DOMAIN p = {}
    BY NoPasskeys
  <1>2. Absent = row
    BY DEF Absent
  <1> HIDE DEF p
  <1>3. row \in Rows
    BY <1>1 DEF Rows, none
  <1> QED
    BY <1>1, <1>2, <1>3 DEF none

LEMMA HashedRow ==
  ASSUME NEW row \in Rows, NEW n \in Nat
  PROVE  /\ [row EXCEPT !.hash = n] \in Rows /\ [row EXCEPT !.hash = n].hash = n
         /\ [row EXCEPT !.hash = n].enabled = row.enabled /\ [row EXCEPT !.hash = n].totp = row.totp
         /\ [row EXCEPT !.hash = n].step = row.step /\ [row EXCEPT !.hash = n].codes = row.codes
         /\ [row EXCEPT !.hash = n].passkeys = row.passkeys
  BY DEF Rows

LEMMA NewRow ==
  ASSUME NEW n \in Nat
  PROVE  /\ [Absent EXCEPT !.hash = n] \in Rows /\ [Absent EXCEPT !.hash = n].hash = n
         /\ [Absent EXCEPT !.hash = n].enabled = TRUE /\ [Absent EXCEPT !.hash = n].totp = none
         /\ [Absent EXCEPT !.hash = n].step = -1 /\ [Absent EXCEPT !.hash = n].codes = {}
         /\ DOMAIN [Absent EXCEPT !.hash = n].passkeys = {}
  BY AbsentRow, HashedRow

\* The row a second factor leaves behind: its step or one code less.
LEMMA ConsumedRow ==
  ASSUME NEW row \in Rows, NEW code \in CodeSet
  PROVE  /\ consumed(row, code) \in Rows
         /\ consumed(row, code).hash = row.hash /\ consumed(row, code).enabled = row.enabled
         /\ consumed(row, code).totp = row.totp /\ consumed(row, code).version = row.version
         /\ consumed(row, code).passkeys = row.passkeys
         /\ consumed(row, code).codes \subseteq row.codes
         /\ row.totp # none /\ code.of = row.totp => consumed(row, code).step = code.n
         /\ row.totp = none \/ code.of # row.totp => consumed(row, code).step = row.step
         /\ row.totp # none /\ code.of # row.totp => code \notin consumed(row, code).codes
  <1>1. [row EXCEPT !.step = code.n] \in Rows /\ [row EXCEPT !.codes = @ \ {code}] \in Rows
    BY DEF Rows, CodeSet
  <1>2. CASE row.totp = none
    BY <1>2 DEF consumed, Rows
  <1>3. CASE row.totp # none /\ code.of = row.totp
    BY <1>1, <1>3 DEF consumed, Rows
  <1>4. CASE row.totp # none /\ code.of # row.totp
    BY <1>1, <1>4 DEF consumed, Rows
  <1> QED
    BY <1>2, <1>3, <1>4
-----------------------------------------------------------------------------
(* What a step of each kind keeps.                                            *)

\* The counters of a row's passkeys do not go back, its secret is dropped or kept with its last step, its codes
\* are the old ones or new, and it does not cease to exist.
After(old, row) ==
  /\ row.totp \in {old.totp, none} /\ (row.totp # none => row.step >= old.step)
  /\ \A code \in row.codes : code \in old.codes \/ code.of > fresh
  /\ \A k \in DOMAIN old.passkeys \cap DOMAIN row.passkeys : row.passkeys[k] >= old.passkeys[k]
  /\ old.hash # none => row.hash # none

Draws ==
  /\ fresh' \in fresh..MaxFresh /\ signed' \in Counters /\ DOMAIN signed \subseteq DOMAIN signed'
  /\ \A k \in DOMAIN signed' : k <= fresh'

Moves ==
  /\ Draws /\ users' \in [Users -> Rows]
  /\ \A v \in Users : \/ users'[v] = users[v]
                      \/ RowIn(users'[v], fresh', DOMAIN signed') /\ After(users[v], users'[v])

\* The challenges of a step are old ones, of another kind, or one with a new secret.
NewChallenges(d) ==
  \A ch \in challenges' : \/ ch \in challenges
                          \/ ch.kind # "totp"
                          \/ ch = d /\ d.secret \in (fresh + 1)..fresh' /\ users' = users

CounterStep ==
  \A u \in Users : \A k \in DOMAIN users[u].passkeys \cap DOMAIN users'[u].passkeys :
    users'[u].passkeys[k] >= users[u].passkeys[k]

LEMMA RowInMore ==
  ASSUME NEW row, NEW f \in Nat, NEW g \in Nat, f <= g, NEW keys, NEW more, keys \subseteq more, RowIn(row, f, keys)
  PROVE  RowIn(row, g, more)
  <1>1. row.hash \in Nat /\ row.totp \in Nat
    BY DEF RowIn, Rows
  <1> QED
    BY <1>1 DEF RowIn

LEMMA Same ==
  ASSUME IdentityInv, Draws, users' = users
  PROVE  Moves
  BY DEF Moves, IdentityInv, Tables

LEMMA OneRow ==
  ASSUME IdentityInv, Draws, NEW u \in Users, NEW row, RowIn(row, fresh', DOMAIN signed'), After(users[u], row),
         users' = [users EXCEPT ![u] = row]
  PROVE  Moves /\ users'[u] = row /\ \A v \in Users \ {u} : users'[v] = users[v]
  <1>1. row \in Rows
    BY DEF RowIn
  <1> QED
    BY <1>1 DEF Moves, IdentityInv, Tables

LEMMA NoDraw == ASSUME IdentityInv, UNCHANGED <<fresh, signed>> PROVE Draws
  BY Bounds DEF Draws, IdentityInv, Tables, Founded

LEMMA OneDraw == ASSUME IdentityInv, fresh < MaxFresh, fresh' = fresh + 1, signed' = signed PROVE Draws
  <1>1. \A k \in DOMAIN signed : k \in Nat
    BY CounterIs DEF IdentityInv, Tables
  <1> QED
    BY <1>1, Bounds DEF Draws, IdentityInv, Tables, Founded

LEMMA TablesKept ==
  ASSUME IdentityInv, Moves
  PROVE  Tables' /\ CounterStep
  <1>1. \A v \in Users : RowIn(users[v], fresh', DOMAIN signed')
    BY Bounds DEF IdentityInv, Tables, RowIn, Moves, Draws, Founded, Rows
  <1>2. \A v \in Users : RowIn(users'[v], fresh', DOMAIN signed')
    BY <1>1 DEF Moves
  <1>3. Tables'
    BY <1>2, Bounds DEF Tables, Moves, Draws, IdentityInv, Founded
  <1>4. ASSUME NEW v \in Users, NEW k \in DOMAIN users[v].passkeys \cap DOMAIN users'[v].passkeys
        PROVE  users'[v].passkeys[k] >= users[v].passkeys[k]
    <2>1. CASE users'[v] = users[v]
      <3>1. users[v].passkeys \in Counters
        BY DEF IdentityInv, Tables, Rows
      <3>2. users[v].passkeys[k] \in Nat
        BY <3>1, <1>4, CounterIs
      <3> QED
        BY <2>1, <3>2
    <2>2. CASE After(users[v], users'[v])
      BY <1>4, <2>2 DEF After
    <2> QED
      BY <2>1, <2>2 DEF Moves
  <1> QED
    BY <1>3, <1>4 DEF CounterStep

LEMMA SecretsKept ==
  ASSUME IdentityInv, Moves, NEW d, NewChallenges(d)
  PROVE  SecretsWaiting'
  <1> USE DEF IdentityInv
  <1>1. fresh \in Nat /\ fresh' \in Nat /\ fresh <= fresh'
    BY Bounds DEF Tables, Moves, Draws, Founded
  <1>2. ASSUME NEW v \in Users
        PROVE  users[v].totp \in 0..fresh /\ (\A code \in users[v].codes : code.of \in 1..fresh)
    BY <1>1 DEF Tables, RowIn, Rows
  <1>3. ASSUME NEW ch \in challenges', ch.kind = "totp"
        PROVE  /\ ch.secret \in 1..fresh'
               /\ \A u \in Users : users'[u].totp # ch.secret /\ \A code \in users'[u].codes : code.of # ch.secret
    <2>1. CASE ch \in challenges
      <3>1. ch.secret \in 1..fresh /\ \A u \in Users : users[u].totp # ch.secret /\ \A code \in users[u].codes : code.of # ch.secret
        BY <2>1, <1>3 DEF SecretsWaiting
      <3>2. ASSUME NEW u \in Users, After(users[u], users'[u])
            PROVE  users'[u].totp # ch.secret /\ \A code \in users'[u].codes : code.of # ch.secret
        BY <3>1, <3>2, <1>1 DEF After, none
      <3> QED
        BY <3>1, <3>2, <1>1 DEF Moves
    <2>2. CASE ch \notin challenges
      BY <1>1, <1>2, <1>3, <2>2 DEF NewChallenges
    <2> QED
      BY <2>1, <2>2
  <1>4. ASSUME NEW ch \in challenges', NEW b \in challenges', ch.kind = "totp", b.kind = "totp", ch.secret = b.secret
        PROVE  ch = b
    <2>1. \A x \in challenges : x.kind = "totp" => x.secret \in 1..fresh
      BY DEF SecretsWaiting
    <2> QED
      BY <1>1, <1>4, <2>1 DEF NewChallenges, SecretsWaiting
  <1> QED
    BY <1>3, <1>4 DEF SecretsWaiting

LEMMA UsedStays ==
  ASSUME IdentityInv, Moves, NEW v \in Users, NEW code \in CodeSet, code.of \in 1..fresh, Used(users[v], code)
  PROVE  Used(users'[v], code)
  <1>0. users[v] \in Rows /\ users'[v] \in Rows /\ fresh \in Nat
    BY Bounds DEF Moves, IdentityInv, Tables, Founded
  <1>1. CASE users'[v] = users[v]
    BY <1>1
  <1>2. CASE After(users[v], users'[v])
    BY <1>0, <1>2 DEF After, Used, none, Rows, CodeSet
  <1> QED
    BY <1>1, <1>2 DEF Moves

LEMMA SpentKept ==
  ASSUME IdentityInv, Moves, NEW d, NewChallenges(d), spent' = spent
  PROVE  SpentPast'
  <1> USE DEF IdentityInv
  <1>1. fresh \in Nat /\ fresh' \in Nat /\ fresh <= fresh'
    BY Bounds DEF Tables, Moves, Draws, Founded
  <1>2. ASSUME NEW i \in DOMAIN spent
        PROVE  /\ spent[i][2].of \in 1..fresh' /\ Used(users'[spent[i][1]], spent[i][2])
               /\ \A ch \in challenges' : ch.kind = "totp" => ch.secret # spent[i][2].of
    <2>1. spent[i] \in Users \X CodeSet
      BY DEF SpentPast
    <2>2. spent[i][2].of \in 1..fresh /\ Used(users[spent[i][1]], spent[i][2])
          /\ \A ch \in challenges : ch.kind = "totp" => ch.secret # spent[i][2].of
      BY DEF SpentPast
    <2>3. Used(users'[spent[i][1]], spent[i][2])
      BY <2>1, <2>2, UsedStays
    <2> QED
      BY <1>1, <2>2, <2>3 DEF NewChallenges
  <1> QED
    BY <1>2 DEF SpentPast, CodeSpentOnce

\* A code that is accepted: new, of the account's secret or of its codes.
Accepted(u, code) ==
  /\ code \in CodeSet /\ code.of \in 1..fresh
  /\ ~Used(users[u], code)
  /\ \A ch \in challenges : ch.kind = "totp" => ch.secret # code.of

LEMMA SpentAppended ==
  ASSUME IdentityInv, fresh' \in Nat, fresh <= fresh', NEW u \in Users, NEW code \in CodeSet,
         \A i \in DOMAIN spent : /\ spent[i] # <<u, code>> /\ Used(users'[spent[i][1]], spent[i][2])
                                /\ \A ch \in challenges' : ch.kind = "totp" => ch.secret # spent[i][2].of,
         code.of \in 1..fresh', Used(users'[u], code), \A ch \in challenges' : ch.kind = "totp" => ch.secret # code.of,
         spent' = Append(spent, <<u, code>>)
  PROVE  SpentPast'
  <1> USE DEF IdentityInv
  <1>1. fresh \in Nat
    BY Bounds DEF Tables, Founded
  <1>2. spent \in Seq(Users \X CodeSet) /\ <<u, code>> \in Users \X CodeSet
    BY DEF SpentPast
  <1>3. /\ spent' \in Seq(Users \X CodeSet) /\ DOMAIN spent' = 1..(Len(spent) + 1) /\ DOMAIN spent = 1..Len(spent)
        /\ Len(spent) \in Nat /\ spent'[Len(spent) + 1] = <<u, code>> /\ \A i \in 1..Len(spent) : spent'[i] = spent[i]
    BY <1>2
  <1>4. \A i \in 1..Len(spent) : spent[i][2].of \in 1..fresh'
    <2>1. ASSUME NEW i \in 1..Len(spent) PROVE spent[i][2].of \in 1..fresh
      BY <1>3 DEF SpentPast
    <2>2. \A x \in 1..fresh : x \in 1..fresh'
      BY <1>1
    <2> QED
      BY <2>1, <2>2
  <1>5. IsInjective(spent')
    <2>1. \A i, j \in 1..Len(spent) : spent[i] = spent[j] => i = j
      BY <1>3 DEF SpentPast, CodeSpentOnce, IsInjective
    <2>2. ASSUME NEW i \in 1..(Len(spent) + 1), NEW j \in 1..(Len(spent) + 1), spent'[i] = spent'[j]
          PROVE  i = j
      <3>1. (i \in 1..Len(spent) \/ i = Len(spent) + 1) /\ (j \in 1..Len(spent) \/ j = Len(spent) + 1)
        BY <1>3
      <3> QED
        BY <1>3, <2>1, <2>2, <3>1
    <2> QED
      BY <1>3, <2>2 DEF IsInjective
  <1>6. ASSUME NEW i \in DOMAIN spent'
        PROVE  /\ spent'[i][2].of \in 1..fresh' /\ Used(users'[spent'[i][1]], spent'[i][2])
               /\ \A ch \in challenges' : ch.kind = "totp" => ch.secret # spent'[i][2].of
    <2>1. CASE i = Len(spent) + 1
      BY <1>3, <2>1
    <2>2. CASE i \in 1..Len(spent)
      BY <1>3, <1>4, <2>2
    <2> QED
      BY <1>3, <2>1, <2>2
  <1> QED
    BY <1>3, <1>5, <1>6 DEF SpentPast, CodeSpentOnce

LEMMA SpentMore ==
  ASSUME IdentityInv, Moves, NEW d, NewChallenges(d), NEW u \in Users, NEW code, Accepted(u, code),
         Used(users'[u], code), spent' = Append(spent, <<u, code>>)
  PROVE  SpentPast'
  <1> USE DEF IdentityInv
  <1>1. fresh \in Nat /\ fresh' \in Nat /\ fresh <= fresh' /\ code \in CodeSet
    BY Bounds DEF Tables, Moves, Draws, Founded, Accepted
  <1>2. ASSUME NEW i \in DOMAIN spent
        PROVE  /\ spent[i] # <<u, code>> /\ Used(users'[spent[i][1]], spent[i][2])
               /\ \A ch \in challenges' : ch.kind = "totp" => ch.secret # spent[i][2].of
    <2>1. spent[i] \in Users \X CodeSet
      BY DEF SpentPast
    <2>2. spent[i][2].of \in 1..fresh /\ Used(users[spent[i][1]], spent[i][2])
          /\ \A ch \in challenges : ch.kind = "totp" => ch.secret # spent[i][2].of
      BY DEF SpentPast
    <2>3. Used(users'[spent[i][1]], spent[i][2])
      BY <2>1, <2>2, UsedStays
    <2> QED
      BY <1>1, <2>1, <2>2, <2>3 DEF NewChallenges, Accepted
  <1>3. /\ code.of \in 1..fresh' /\ \A ch \in challenges' : ch.kind = "totp" => ch.secret # code.of
    BY <1>1 DEF Accepted, NewChallenges
  <1> QED
    BY <1>1, <1>2, <1>3, SpentAppended

LEMMA OwnerKept == ASSUME IdentityInv, Moves, owners' = owners PROVE OwnerOnce'
  BY Bounds DEF IdentityInv, OwnerOnce, Moves, After, exists

\* The session fits its account's row, or the row did not change in what it was opened under.
Serves(s, row) == row.hash # none /\ row.enabled /\ s.hash = row.hash /\ (row.totp # none => s.factor = row.totp)
Keeps(old, row) == row.hash = old.hash /\ row.enabled = old.enabled /\ row.totp \in {old.totp, none}

LEMMA SessionsKept ==
  ASSUME IdentityInv, sessions' \subseteq SessionRows,
         \A s \in sessions' : (s \in sessions /\ Keeps(users[s.user], users'[s.user])) \/ Serves(s, users'[s.user])
  PROVE  SessionsOpen'
  <1>1. \A s \in sessions : Serves(s, users[s.user])
    BY DEF IdentityInv, SessionsOpen, SessionsCurrent, FactorShown, Serves, exists
  <1>2. \A s \in sessions' : Serves(s, users'[s.user])
    BY <1>1 DEF Serves, Keeps, none
  <1> QED
    BY <1>2 DEF SessionsOpen, SessionsCurrent, FactorShown, Serves, exists

LEMMA IdleState == Idle \in CallStates /\ Idle.op = "idle"
  BY Bounds DEF Idle, CallStates, Operations, none

LEMMA CallsKept ==
  ASSUME IdentityInv, NEW c \in Calls, NEW state \in CallStates, call' = [call EXCEPT ![c] = state],
         state.op \in Hashing => call[c].op \in Hashing \/ acquire,
         state.op = "setup" => state.user = Admin, state.op = "assertion" => state.counter > state.previous
  PROVE  CallsKnown'
  <1> USE DEF IdentityInv
  <1>1. call' \in [Calls -> CallStates] /\ call'[c] = state /\ \A b \in Calls \ {c} : call'[b] = call[b]
    BY DEF CallsKnown
  <1>2. hashing = {b \in Calls : call[b].op \in Hashing} /\ hashing' = {b \in Calls : call'[b].op \in Hashing}
    BY DEF hashing, Hashing
  <1>3. IsFiniteSet(hashing) /\ Cardinality(hashing) <= HashSlots /\ Cardinality(hashing) \in Nat /\ HashSlots \in Nat
    BY FS_CardinalityType, Bounds DEF CallsKnown
  <1>4. CASE state.op \in Hashing /\ call[c].op \notin Hashing
    <2>1. hashing' = hashing \cup {c} /\ c \notin hashing
      BY <1>1, <1>2, <1>4
    <2>2. Cardinality(hashing) < HashSlots
      BY <1>4 DEF acquire
    <2>3. IsFiniteSet(hashing') /\ Cardinality(hashing') = Cardinality(hashing) + 1
      BY <1>3, <2>1, FS_AddElement
    <2> QED
      BY <1>1, <1>3, <2>2, <2>3 DEF CallsKnown
  <1>5. CASE ~(state.op \in Hashing /\ call[c].op \notin Hashing)
    <2>1. hashing' \subseteq hashing
      BY <1>1, <1>2, <1>5
    <2>2. IsFiniteSet(hashing') /\ Cardinality(hashing') <= Cardinality(hashing) /\ Cardinality(hashing') \in Nat
      BY <1>3, <2>1, FS_Subset, FS_CardinalityType
    <2> QED
      BY <1>1, <1>3, <2>2 DEF CallsKnown
  <1> QED
    BY <1>4, <1>5

LEMMA CallsDone == ASSUME IdentityInv, NEW c \in Calls, done(c) PROVE CallsKnown'
  <1> DEFINE st == Idle
  <1>1. st \in CallStates /\ st.op \notin Hashing /\ st.op # "setup" /\ st.op # "assertion"
    BY IdleState DEF Hashing
  <1>2. call' = [call EXCEPT ![c] = st]
    BY DEF done
  <1> HIDE DEF st
  <1> QED
    BY <1>1, <1>2, CallsKept

LEMMA CallsSame == ASSUME IdentityInv, UNCHANGED call PROVE CallsKnown'
  BY DEF IdentityInv, CallsKnown, hashing

LEMMA NoUsersChange ==
  ASSUME IdentityInv, UNCHANGED <<users, signed, fresh, spent, owners>>, CallsKnown', Clocks', LinksOnce', ChallengesBounded',
         \A ch \in challenges' : ch \in challenges \/ ch.kind # "totp", sessions' \subseteq sessions
  PROVE  IdentityInv' /\ CounterStep
  <1>1. Moves /\ NewChallenges(0)
    BY NoDraw, Same DEF NewChallenges
  <1>2. SessionsOpen'
    BY SessionsKept DEF Keeps, IdentityInv, SessionsOpen
  <1> QED
    BY <1>1, <1>2, TablesKept, SecretsKept, SpentKept, OwnerKept DEF IdentityInv

LEMMA Untouched ==
  ASSUME IdentityInv, untouched, CallsKnown'
  PROVE  IdentityInv' /\ CounterStep
  <1>1. Clocks' /\ LinksOnce' /\ ChallengesBounded'
    BY DEF untouched, IdentityInv, Clocks, LinksOnce, ChallengesBounded
  <1> QED
    BY <1>1, NoUsersChange DEF untouched

-----------------------------------------------------------------------------
(* Second factors.                                                            *)

LEMMA WindowsKept ==
  ASSUME IdentityInv, NEW u \in Users
  PROVE  /\ purged \in [Users -> Windows] /\ factorVerified(u) \in [Users -> Windows] /\ afterFactor(u) \in [Users -> Windows]
         /\ mayAttempt(u) => factorAttempt(u) \in [Users -> Windows]
  <1>1. NoWindow \in Windows /\ failures \in [Users -> Windows] /\ now \in Nat
    BY Bounds DEF NoWindow, Windows, IdentityInv, Clocks
  <1>2. purged \in [Users -> Windows]
    BY <1>1 DEF purged
  <1>3. ASSUME mayAttempt(u)
        PROVE  factorAttempt(u) \in [Users -> Windows]
    <2> DEFINE w == [count |-> purged[u].count + 1, reset |-> IF purged[u].count = 0 THEN now + FactorWindow ELSE purged[u].reset]
    <2>1. purged[u] \in Windows /\ purged[u].count < FactorBudget
      BY <1>2, <1>3 DEF mayAttempt
    <2>2. w \in Windows
      BY <1>1, <2>1, Bounds DEF Windows
    <2>3. factorAttempt(u) = [purged EXCEPT ![u] = w]
      BY DEF factorAttempt
    <2> HIDE DEF w
    <2> QED
      BY <1>2, <2>2, <2>3
  <1> QED
    BY <1>1, <1>2, <1>3 DEF factorVerified, afterFactor

LEMMA CodesTyped == ASSUME IdentityInv, NEW u \in Users, NEW code \in Codes(u) PROVE code \in CodeSet
  <1> USE DEF IdentityInv
  <1>1. users[u].totp \in Nat /\ users[u].codes \in SUBSET CodeSet /\ now \in Nat
    BY Bounds DEF Tables, Rows, Clocks
  <1>2. CASE code \in [of : {users[u].totp}, n : (now - 1)..(now + 1)]
    BY <1>1, <1>2 DEF CodeSet
  <1>3. CASE \E s \in Range(spent) : code \in batch(s[2].of)
    <2>1. PICK i \in DOMAIN spent : code \in batch(spent[i][2].of)
      BY <1>3 DEF Range
    <2>2. spent[i] \in Users \X CodeSet
      BY DEF SpentPast
    <2>3. spent[i][2].of \in Nat
      BY <2>2 DEF CodeSet
    <2> QED
      BY <2>1, <2>3, BatchIs
  <1> QED
    BY <1>1, <1>2, <1>3 DEF Codes

LEMMA Matched ==
  ASSUME IdentityInv, NEW u \in Users, NEW code \in CodeSet, users[u].totp # none, matches(u, code)
  PROVE  /\ Accepted(u, code) /\ Used(consumed(users[u], code), code)
         /\ code.of = users[u].totp => code.n \in users[u].step..(now + 1)
  <1> USE DEF IdentityInv
  <1>1. /\ users[u] \in Rows /\ users[u].totp \in 1..fresh /\ users[u].step \in Int /\ now \in Nat /\ code.n \in Int /\ code.of \in Nat
        /\ \A x \in users[u].codes : x.of \in 1..fresh /\ x.of # users[u].totp
    BY Bounds DEF Tables, RowIn, Rows, Clocks, none, CodeSet, Founded
  <1>2. \A ch \in challenges : ch.kind = "totp" => users[u].totp # ch.secret /\ \A x \in users[u].codes : x.of # ch.secret
    BY DEF SecretsWaiting
  <1>3. CASE totpStep(users[u].totp, code, users[u].step)
    <2>1. code.of = users[u].totp /\ code.n \in (now - 1)..(now + 1) /\ code.n > users[u].step
      BY <1>3 DEF totpStep
    <2>2. consumed(users[u], code).step = code.n /\ consumed(users[u], code).codes \subseteq users[u].codes
      BY <1>1, <2>1, ConsumedRow DEF none
    <2> QED
      BY <1>1, <1>2, <2>1, <2>2 DEF Accepted, Used
  <1>4. CASE code \in users[u].codes
    <2>1. code.of # users[u].totp /\ code \notin consumed(users[u], code).codes /\ consumed(users[u], code).totp = users[u].totp
      BY <1>1, <1>4, ConsumedRow
    <2> QED
      BY <1>1, <1>2, <1>4, <2>1 DEF Accepted, Used
  <1> QED
    BY <1>3, <1>4 DEF matches

LEMMA ConsumedOK ==
  ASSUME IdentityInv, NEW u \in Users, NEW code \in Codes(u), verifyFactor(u, code)
  PROVE  /\ RowIn(consumed(users[u], code), fresh, DOMAIN signed) /\ After(users[u], consumed(users[u], code))
         /\ users[u].totp # none => Used(consumed(users[u], code), code) /\ Accepted(u, code)
         /\ consumed(users[u], code).hash = users[u].hash /\ consumed(users[u], code).enabled = users[u].enabled
         /\ consumed(users[u], code).totp = users[u].totp
  <1>1. code \in CodeSet
    BY CodesTyped
  <1>2. users[u] \in Rows /\ RowIn(users[u], fresh, DOMAIN signed) /\ now \in 0..MaxNow /\ users[u].step \in -1..(MaxNow + 1)
        /\ users[u].passkeys \in Counters
    BY DEF IdentityInv, Tables, RowIn, Clocks, Rows
  <1>3. users[u].totp # none => matches(u, code)
    BY DEF verifyFactor
  <1>4. users[u].totp # none => Accepted(u, code) /\ Used(consumed(users[u], code), code)
                                /\ (code.of = users[u].totp => code.n \in users[u].step..(now + 1))
    BY <1>1, <1>3, Matched
  <1> DEFINE row == consumed(users[u], code)
  <1>5. /\ row \in Rows /\ row.hash = users[u].hash /\ row.enabled = users[u].enabled /\ row.totp = users[u].totp
        /\ row.passkeys = users[u].passkeys /\ row.codes \subseteq users[u].codes
        /\ users[u].totp # none /\ code.of = users[u].totp => row.step = code.n
        /\ users[u].totp = none \/ code.of # users[u].totp => row.step = users[u].step
    BY <1>1, <1>2, ConsumedRow
  <1> HIDE DEF row
  <1>6. row.step \in -1..(MaxNow + 1) /\ row.step >= users[u].step
    BY <1>2, <1>4, <1>5, Bounds
  <1>7. RowIn(row, fresh, DOMAIN signed)
    BY <1>2, <1>5, <1>6 DEF RowIn
  <1>8. \A k \in DOMAIN users[u].passkeys : users[u].passkeys[k] \in Nat
    BY <1>2, CounterIs
  <1>9. After(users[u], row)
    BY <1>5, <1>6, <1>8 DEF After
  <1> QED
    BY <1>4, <1>5, <1>7, <1>9 DEF row

\* What a transaction under a verified factor keeps, whatever it then writes into the row.
LEMMA Authorized ==
  ASSUME IdentityInv, Moves, NEW d, NewChallenges(d), NEW u \in Users, NEW code \in Codes(u), verifyFactor(u, code),
         failures' = afterFactor(u), spent' = record(u, code), now' = now,
         users[u].totp # none => Used(users'[u], code)
  PROVE  SpentPast' /\ Clocks' /\ SecretsWaiting'
  <1>1. Clocks'
    BY WindowsKept DEF Clocks, IdentityInv
  <1>2. CASE users[u].totp = none
    BY <1>1, <1>2, SpentKept, SecretsKept DEF record
  <1>3. CASE users[u].totp # none
    BY <1>1, <1>3, ConsumedOK, SpentMore, SecretsKept DEF record
  <1> QED
    BY <1>2, <1>3

-----------------------------------------------------------------------------
(* First steps.                                                               *)

LEMMA Starts ==
  ASSUME IdentityInv, NEW c \in Calls, NEW state \in CallStates, state.op = "setup" => state.user = Admin,
         state.op # "assertion", begin(c, state), state.op \in Hashing => acquire, untouched
  PROVE  IdentityInv' /\ CounterStep
  <1>1. CallsKnown'
    BY CallsKept DEF begin
  <1> QED
    BY <1>1, Untouched

LEMMA StartsOK ==
  ASSUME IdentityInv, NEW c \in Calls,
         \/ Setup(c) \/ \E s \in sessions : withProof(c, s)
         \/ \E u \in Users : \/ CreateMemberForTenant(c, u) \/ LoginWithCode(c, u)
                             \/ ChangePassword(c, u) \/ resetPassword(c, u)
                             \/ \E i \in invitations : RegisterInvitation(c, i, u)
  PROVE  IdentityInv' /\ CounterStep
  <1>1. /\ \A u \in Users : users[u].hash \in Nat /\ users[u].version \in Nat /\ users[u].enabled \in BOOLEAN
        /\ \A s \in sessions : s.user \in Users /\ s.id \in Nat
        /\ \A i \in invitations : i.id \in Nat
        /\ Admin \in Users /\ TRUE \in BOOLEAN
    BY Bounds DEF IdentityInv, Tables, SessionsOpen, LinksOnce, Rows, SessionRows, InvitationRows
  <1>3. CASE Setup(c)
    <2> DEFINE st == [Idle EXCEPT !.op = "setup"]
    <2>1. st \in CallStates /\ st.op # "assertion" /\ st.user = Admin
      BY <1>1 DEF Idle, CallStates, Operations, none
    <2>2. begin(c, st) /\ acquire /\ untouched
      BY <1>3 DEF Setup
    <2> HIDE DEF st
    <2> QED
      BY <2>1, <2>2, Starts
  <1>4. ASSUME NEW u \in Users, CreateMemberForTenant(c, u)
        PROVE  IdentityInv' /\ CounterStep
    <2> DEFINE st == [Idle EXCEPT !.op = "member", !.user = u]
    <2>1. st \in CallStates /\ st.op # "assertion" /\ st.op # "setup"
      BY <1>1 DEF Idle, CallStates, Operations, none
    <2>2. begin(c, st) /\ acquire /\ untouched
      BY <1>4 DEF CreateMemberForTenant
    <2> HIDE DEF st
    <2> QED
      BY <2>1, <2>2, Starts
  <1>5. ASSUME NEW u \in Users, NEW i \in invitations, RegisterInvitation(c, i, u)
        PROVE  IdentityInv' /\ CounterStep
    <2> DEFINE st == [Idle EXCEPT !.op = "invited", !.user = u, !.key = i.id]
    <2>1. st \in CallStates /\ st.op # "assertion" /\ st.op # "setup"
      BY <1>1 DEF Idle, CallStates, Operations, none
    <2>2. begin(c, st) /\ acquire /\ untouched
      BY <1>5 DEF RegisterInvitation
    <2> HIDE DEF st
    <2> QED
      BY <2>1, <2>2, Starts
  <1>6. ASSUME NEW u \in Users, LoginWithCode(c, u)
        PROVE  IdentityInv' /\ CounterStep
    <2> DEFINE st == [Idle EXCEPT !.op = "login", !.user = u, !.hash = users[u].hash, !.version = users[u].version]
    <2>1. st \in CallStates /\ st.op # "assertion" /\ st.op # "setup"
      BY <1>1 DEF Idle, CallStates, Operations, none
    <2>2. begin(c, st) /\ acquire /\ untouched
      BY <1>6 DEF LoginWithCode
    <2> HIDE DEF st
    <2> QED
      BY <2>1, <2>2, Starts
  <1>7. ASSUME NEW s \in sessions, withProof(c, s)
        PROVE  IdentityInv' /\ CounterStep
    <2> DEFINE st == [Idle EXCEPT !.op = "proof", !.user = s.user, !.session = s.id,
                      !.hash = users[s.user].hash, !.version = users[s.user].version]
    <2>1. st \in CallStates /\ st.op # "assertion" /\ st.op # "setup"
      BY <1>1 DEF Idle, CallStates, Operations, none
    <2>2. begin(c, st) /\ acquire /\ untouched
      BY <1>7 DEF withProof
    <2> HIDE DEF st
    <2> QED
      BY <2>1, <2>2, Starts
  <1>8. ASSUME NEW u \in Users, ChangePassword(c, u)
        PROVE  IdentityInv' /\ CounterStep
    <2> DEFINE st == [Idle EXCEPT !.op = "replace", !.user = u, !.hash = users[u].hash]
    <2>1. st \in CallStates /\ st.op # "assertion" /\ st.op # "setup"
      BY <1>1 DEF Idle, CallStates, Operations, none
    <2>2. begin(c, st) /\ acquire /\ untouched
      BY <1>8 DEF ChangePassword
    <2> HIDE DEF st
    <2> QED
      BY <2>1, <2>2, Starts
  <1>9. ASSUME NEW u \in Users, resetPassword(c, u)
        PROVE  IdentityInv' /\ CounterStep
    <2> DEFINE st == [Idle EXCEPT !.op = "replace", !.user = u, !.hash = users[u].hash,
                      !.enabled = users[u].enabled, !.key = IF u = Admin THEN 1 ELSE none]
    <2>1. st \in CallStates /\ st.op # "assertion" /\ st.op # "setup"
      BY <1>1 DEF Idle, CallStates, Operations, none
    <2>2. begin(c, st) /\ acquire /\ untouched
      BY <1>9 DEF resetPassword
    <2> HIDE DEF st
    <2> QED
      BY <2>1, <2>2, Starts
  <1> QED
    BY <1>3, <1>4, <1>5, <1>6, <1>7, <1>8, <1>9

\* Ceremonies that take a challenge, read a row, or fail.
LEMMA CeremoniesOK ==
  ASSUME IdentityInv, NEW c \in Calls,
         \/ \E ch \in challenges : takeLogin(c, ch) \/ \E s \in sessions : takeRegistration(c, s, ch)
         \/ \E u \in Users : passkeyUser(c, u)
         \/ ceremonyFails(c) \/ callRefused(c)
  PROVE  IdentityInv' /\ CounterStep
  <1> USE DEF IdentityInv
  <1>1. ASSUME NEW ch \in challenges, NEW s \in sessions, takeRegistration(c, s, ch)
        PROVE  IdentityInv' /\ CounterStep
    <2> DEFINE st == [Idle EXCEPT !.op = "enrol", !.user = ch.user, !.session = s.id, !.version = ch.version]
    <2>0. ch \in ChallengeRows /\ s \in SessionRows
      BY DEF ChallengesBounded, SessionsOpen
    <2>1. st \in CallStates /\ st.op = "enrol"
      BY <2>0 DEF Idle, CallStates, Operations, none, SessionRows, ChallengeRows
    <2>2. st.op \notin Hashing /\ st.op # "setup" /\ st.op # "assertion"
      BY <2>1 DEF Hashing
    <2>3. call' = [call EXCEPT ![c] = st]
      BY <1>1 DEF takeRegistration, resume
    <2> HIDE DEF st
    <2>4. CallsKnown'
      BY <2>1, <2>2, <2>3, CallsKept
    <2>5. challenges' = challenges \ {ch} /\ UNCHANGED <<users, sessions, invitations, failures, signed, now, fresh, spent, owners>>
      BY <1>1 DEF takeRegistration
    <2>6. ChallengesBounded'
      BY <2>5, FS_Subset, FS_CardinalityType, Bounds DEF ChallengesBounded
    <2>7. Clocks' /\ LinksOnce'
      BY <2>5 DEF Clocks, LinksOnce
    <2> QED
      BY <2>4, <2>5, <2>6, <2>7, NoUsersChange
  <1>2. ASSUME NEW ch \in challenges, takeLogin(c, ch)
        PROVE  IdentityInv' /\ CounterStep
    <2> DEFINE st == [Idle EXCEPT !.op = "taken"]
    <2>1. st \in CallStates /\ st.op = "taken"
      BY Bounds DEF Idle, CallStates, Operations, none
    <2>2. st.op \notin Hashing /\ st.op # "setup" /\ st.op # "assertion"
      BY <2>1 DEF Hashing
    <2>3. call' = [call EXCEPT ![c] = st]
      BY <1>2 DEF takeLogin, resume
    <2> HIDE DEF st
    <2>4. CallsKnown'
      BY <2>1, <2>2, <2>3, CallsKept
    <2>5. challenges' = challenges \ {ch} /\ UNCHANGED <<users, sessions, invitations, failures, signed, now, fresh, spent, owners>>
      BY <1>2 DEF takeLogin
    <2>6. ChallengesBounded'
      BY <2>5, FS_Subset, FS_CardinalityType, Bounds DEF ChallengesBounded
    <2>7. Clocks' /\ LinksOnce'
      BY <2>5 DEF Clocks, LinksOnce
    <2> QED
      BY <2>4, <2>5, <2>6, <2>7, NoUsersChange
  <1>3. ASSUME NEW u \in Users, passkeyUser(c, u)
        PROVE  IdentityInv' /\ CounterStep
    <2> DEFINE st == [call[c] EXCEPT !.op = "found", !.user = u, !.hash = users[u].hash, !.version = users[u].version]
    <2>0. call[c] \in CallStates /\ users[u].hash \in Nat /\ users[u].version \in Nat
      BY DEF CallsKnown, Tables, Rows
    <2>1. st \in CallStates /\ st.op = "found"
      BY <2>0 DEF CallStates, Operations
    <2>2. st.op \notin Hashing /\ st.op # "setup" /\ st.op # "assertion"
      BY <2>1 DEF Hashing
    <2>3. call' = [call EXCEPT ![c] = st] /\ untouched
      BY <1>3 DEF passkeyUser
    <2> HIDE DEF st
    <2> QED
      BY <2>1, <2>2, <2>3, CallsKept, Untouched
  <1>4. CASE ceremonyFails(c) \/ callRefused(c)
    <2>1. untouched /\ done(c)
      BY <1>4 DEF ceremonyFails, callRefused, untouched
    <2> QED
      BY <2>1, CallsDone, Untouched
  <1> QED
    BY <1>1, <1>2, <1>3, <1>4

-----------------------------------------------------------------------------
(* Transactions that create accounts and sessions.                            *)

LEMMA CallOf ==
  ASSUME IdentityInv, NEW c \in Calls
  PROVE  /\ call[c] \in CallStates /\ call[c].user \in Users /\ call[c].session \in Nat /\ call[c].hash \in Nat
         /\ call[c].key \in Nat /\ call[c].previous \in Nat /\ call[c].counter \in Nat /\ call[c].op \in Operations
         /\ users[call[c].user] \in Rows /\ RowIn(users[call[c].user], fresh, DOMAIN signed)
         /\ fresh \in Nat /\ fresh >= 7 /\ MaxFresh \in Nat /\ now \in Nat
  BY Bounds DEF IdentityInv, CallsKnown, CallStates, Tables, Clocks, Founded

LEMMA AfterNew ==
  ASSUME NEW old, NEW row \in Rows, row.totp = none, row.step = -1, row.codes = {}, DOMAIN row.passkeys = {},
         NEW f \in Nat, row.hash \in 1..f, NEW keys
  PROVE  After(old, row) /\ RowIn(row, f, keys)
  <1>1. row.step \in -1..(MaxNow + 1)
    BY Bounds
  <1> QED
    BY <1>1 DEF After, RowIn, none

\* The transaction's new session is in the table, and every session in it fits its account.
LEMMA SessionIssued ==
  ASSUME IdentityInv, NEW u \in Users, NEW row \in Rows, NEW hash \in Nat, NEW opened \in Nat,
         createSession(u, hash, row, opened), row.hash # none, row.totp # none => opened = row.totp,
         users'[u] = row, \A v \in Users \ {u} : users'[v] = users[v], Keeps(users[u], row) \/ ~exists(u)
  PROVE  /\ SessionsOpen' /\ fresh' = fresh + 1
         /\ \E s \in sessions' : s.id = fresh' /\ s.user = u
  <1> DEFINE s == [id |-> fresh + 1, user |-> u, expires |-> now + SessionTTL, hash |-> hash, factor |-> opened]
             unexpired == {o \in sessions : o.expires > now}
  <1>1. row.enabled /\ row.hash = hash /\ fresh' = fresh + 1 /\ sessions' = TrimSessions(unexpired \cup {s}, u, s.id)
    BY DEF createSession
  <1>2. s \in SessionRows /\ s.user = u /\ s.id = fresh' /\ Serves(s, row)
    BY <1>1, Bounds DEF SessionRows, Serves, IdentityInv, Tables, Clocks, Founded
  <1> HIDE DEF s
  <1>3. sessions' \subseteq sessions \cup {s} /\ s \in sessions'
    BY <1>1 DEF TrimSessions
  <1>4. \A o \in sessions : o \in SessionRows /\ o.user \in Users /\ exists(o.user)
    BY DEF IdentityInv, SessionsOpen, SessionRows
  <1>5. \A o \in sessions : Keeps(users[o.user], users'[o.user])
    BY <1>4 DEF Keeps
  <1>6. SessionsOpen'
    BY <1>2, <1>3, <1>4, <1>5, SessionsKept
  <1> QED
    BY <1>1, <1>2, <1>3, <1>6

LEMMA SetupOK ==
  ASSUME IdentityInv, NEW c \in Calls, fresh < MaxFresh, setupCommits(c)
  PROVE  IdentityInv' /\ CounterStep
  <1> USE DEF IdentityInv
  <1>1. /\ CallsKnown' /\ Clocks' /\ LinksOnce' /\ ChallengesBounded'
        /\ UNCHANGED <<challenges, signed, spent>>
    BY CallsDone DEF setupCommits, Clocks, LinksOnce, ChallengesBounded
  <1>2. CASE CreateAdministrator
    <2> DEFINE row == [Absent EXCEPT !.hash = fresh + 1]
    <2>1. fresh \in Nat /\ fresh + 1 # none /\ fresh + 1 \in Nat
      BY CallOf DEF none
    <2>2. /\ row \in Rows /\ row.hash = fresh + 1 /\ row.totp = none /\ row.step = -1 /\ row.codes = {} /\ DOMAIN row.passkeys = {}
      BY <2>1, NewRow
    <2>3. /\ users' = [users EXCEPT ![Admin] = row] /\ createSession(Admin, fresh + 1, users'[Admin], none)
          /\ owners' = owners + 1 /\ ~exists(Admin)
      BY <1>2 DEF setupCommits, CreateAdministrator
    <2> HIDE DEF row
    <2>4. fresh' = fresh + 1
      BY <2>3 DEF createSession
    <2>5. Draws
      BY <1>1, <2>4, OneDraw
    <2>6. RowIn(row, fresh', DOMAIN signed') /\ After(users[Admin], row)
      <3>1. fresh' \in Nat /\ row.hash \in 1..fresh'
        BY <2>1, <2>2, <2>4
      <3> QED
        BY <2>2, <3>1, AfterNew
    <2>7. Moves /\ users'[Admin] = row /\ \A v \in Users \ {Admin} : users'[v] = users[v]
      BY <2>3, <2>5, <2>6, OneRow, Bounds
    <2>8. SessionsOpen'
      <3>1. createSession(Admin, fresh + 1, row, none)
        BY <2>3, <2>7 DEF createSession
      <3>2. none \in Nat /\ (row.totp # none => none = row.totp) /\ row.hash # none
        BY <2>1, <2>2 DEF none
      <3> QED
        BY <2>1, <2>2, <2>3, <2>7, <3>1, <3>2, SessionIssued, Bounds
    <2>9. NewChallenges(0)
      BY <1>1 DEF NewChallenges
    <2>10. OwnerOnce'
      BY <2>1, <2>2, <2>3, <2>7 DEF OwnerOnce, exists
    <2> QED
      BY <1>1, <2>7, <2>8, <2>9, <2>10, TablesKept, SecretsKept, SpentKept
  <1>3. CASE ~CreateAdministrator
    BY <1>1, <1>3, NoUsersChange DEF setupCommits
  <1> QED
    BY <1>2, <1>3

LEMMA MemberOK ==
  ASSUME IdentityInv, NEW c \in Calls, fresh < MaxFresh, memberCommits(c)
  PROVE  IdentityInv' /\ CounterStep
  <1> USE DEF IdentityInv
  <1> DEFINE u == call[c].user
             row == [Absent EXCEPT !.hash = fresh + 1]
  <1>1. /\ CallsKnown' /\ Clocks' /\ LinksOnce' /\ ChallengesBounded'
        /\ UNCHANGED <<sessions, challenges, signed, spent, owners>>
    BY CallsDone DEF memberCommits, Clocks, LinksOnce, ChallengesBounded
  <1>2. CASE ~exists(u)
    <2>1. fresh \in Nat /\ fresh + 1 # none /\ fresh + 1 \in Nat /\ u \in Users
      BY CallOf DEF none
    <2>2. /\ row \in Rows /\ row.hash = fresh + 1 /\ row.totp = none /\ row.step = -1 /\ row.codes = {} /\ DOMAIN row.passkeys = {}
      BY <2>1, NewRow
    <2>3. users' = [users EXCEPT ![u] = row] /\ fresh' = fresh + 1
      BY <1>2 DEF memberCommits
    <2> HIDE DEF row, u
    <2>5. Draws
      BY <1>1, <2>3, OneDraw
    <2>6. RowIn(row, fresh', DOMAIN signed') /\ After(users[u], row)
      <3>1. fresh' \in Nat /\ row.hash \in 1..fresh'
        BY <2>1, <2>2, <2>3
      <3> QED
        BY <2>2, <3>1, AfterNew
    <2>7. Moves /\ users'[u] = row /\ \A v \in Users \ {u} : users'[v] = users[v]
      BY <2>1, <2>3, <2>5, <2>6, OneRow
    <2>8. SessionsOpen'
      <3>1. \A s \in sessions : s \in SessionRows /\ s.user \in Users /\ s.user # u
        BY <1>2 DEF SessionsOpen, SessionRows
      <3>2. \A s \in sessions : Keeps(users[s.user], users'[s.user])
        BY <2>7, <3>1 DEF Keeps
      <3> QED
        BY <1>1, <3>1, <3>2, SessionsKept
    <2>9. NewChallenges(0)
      BY <1>1 DEF NewChallenges
    <2> QED
      BY <1>1, <2>7, <2>8, <2>9, TablesKept, SecretsKept, SpentKept, OwnerKept
  <1>3. CASE exists(u)
    BY <1>1, <1>3, NoUsersChange DEF memberCommits
  <1> QED
    BY <1>2, <1>3

LEMMA InvitedOK ==
  ASSUME IdentityInv, NEW c \in Calls, fresh < MaxFresh, invitedCommits(c)
  PROVE  IdentityInv' /\ CounterStep
  <1> USE DEF IdentityInv
  <1> DEFINE u == call[c].user
             row == [Absent EXCEPT !.hash = fresh + 1]
  <1>1. /\ CallsKnown' /\ Clocks' /\ ChallengesBounded' /\ UNCHANGED <<challenges, signed, spent, owners>>
    BY CallsDone DEF invitedCommits, Clocks, ChallengesBounded
  <1>2. ASSUME NEW i \in invitations, stillUsable(i), ~exists(u), users' = [users EXCEPT ![u] = row],
               invitations' = ConsumeInvitation(i, u), createSession(u, fresh + 1, users'[u], none)
        PROVE  IdentityInv' /\ CounterStep
    <2>1. fresh \in Nat /\ fresh + 1 # none /\ fresh + 1 \in Nat /\ u \in Users
      BY CallOf DEF none
    <2>2. /\ row \in Rows /\ row.hash = fresh + 1 /\ row.totp = none /\ row.step = -1 /\ row.codes = {} /\ DOMAIN row.passkeys = {}
      BY <2>1, NewRow
    <2> HIDE DEF row, u
    <2>4. fresh' = fresh + 1
      BY <1>2 DEF createSession
    <2>5. Draws
      BY <1>1, <2>4, OneDraw
    <2>6. RowIn(row, fresh', DOMAIN signed') /\ After(users[u], row)
      <3>1. fresh' \in Nat /\ row.hash \in 1..fresh'
        BY <2>1, <2>2, <2>4
      <3> QED
        BY <2>2, <3>1, AfterNew
    <2>7. Moves /\ users'[u] = row /\ \A v \in Users \ {u} : users'[v] = users[v]
      BY <1>2, <2>1, <2>5, <2>6, OneRow
    <2>8. SessionsOpen'
      <3>1. createSession(u, fresh + 1, row, none)
        BY <1>2, <2>7 DEF createSession
      <3>2. none \in Nat /\ (row.totp # none => none = row.totp) /\ row.hash # none
        BY <2>1, <2>2 DEF none
      <3> QED
        BY <1>2, <2>1, <2>2, <2>7, <3>1, <3>2, SessionIssued
    <2>9. NewChallenges(0)
      BY <1>1 DEF NewChallenges
    <2>10. LinksOnce'
      <3> DEFINE j == [i EXCEPT !.used = TRUE, !.admitted = @ \cup {u}]
      <3>1. i \in InvitationRows /\ ~i.used /\ i.admitted = {}
        BY <1>2 DEF LinksOnce, stillUsable, usable
      <3>2. j \in InvitationRows /\ j.used /\ j.admitted = {u}
        BY <2>1, <3>1 DEF InvitationRows
      <3>3. invitations' = (invitations \ {i}) \cup {j}
        BY <1>2 DEF ConsumeInvitation
      <3> HIDE DEF j
      <3> QED
        BY <2>1, <3>2, <3>3 DEF LinksOnce
    <2> QED
      BY <1>1, <2>7, <2>8, <2>9, <2>10, TablesKept, SecretsKept, SpentKept, OwnerKept
  <1>3. CASE UNCHANGED <<users, invitations, sessions, fresh>>
    <2>1. LinksOnce'
      BY <1>3 DEF LinksOnce
    <2> QED
      BY <1>1, <1>3, <2>1, NoUsersChange
  <1> QED
    BY <1>2, <1>3 DEF invitedCommits

LEMMA LoginOK ==
  ASSUME IdentityInv, NEW c \in Calls, NEW code \in Codes(call[c].user), fresh < MaxFresh, loginCommits(c, code)
  PROVE  IdentityInv' /\ CounterStep
  <1> USE DEF IdentityInv
  <1> DEFINE u == call[c].user
             row == consumed(users[u], code)
  <1>1. /\ CallsKnown' /\ LinksOnce' /\ ChallengesBounded' /\ UNCHANGED <<challenges, signed, owners, now>>
    BY CallsDone DEF loginCommits, LinksOnce, ChallengesBounded
  <1>2. /\ unchangedSince(u, c) /\ verifyFactor(u, code) /\ users' = [users EXCEPT ![u] = row]
        /\ createSession(u, call[c].hash, row, row.totp) /\ failures' = afterFactor(u) /\ spent' = record(u, code)
    BY DEF loginCommits
  <1>3. u \in Users /\ call[c].hash \in Nat /\ users[u].hash # none /\ fresh \in Nat /\ code \in Codes(u)
    BY <1>2, CallOf DEF unchangedSince, GetSecurityUser, exists
  <1> HIDE DEF u
  <1>4. /\ RowIn(row, fresh, DOMAIN signed) /\ After(users[u], row) /\ (users[u].totp # none => Used(row, code))
        /\ row.hash = users[u].hash /\ row.enabled = users[u].enabled /\ row.totp = users[u].totp
    BY <1>2, <1>3, ConsumedOK
  <1> HIDE DEF row
  <1>5. fresh' = fresh + 1 /\ row \in Rows
    BY <1>2, <1>4 DEF createSession, RowIn
  <1>6. Draws
    BY <1>1, <1>5, OneDraw
  <1>7. RowIn(row, fresh', DOMAIN signed')
    BY <1>1, <1>3, <1>4, <1>5 DEF RowIn, Rows
  <1>8. Moves /\ users'[u] = row /\ \A v \in Users \ {u} : users'[v] = users[v]
    BY <1>2, <1>3, <1>4, <1>6, <1>7, OneRow
  <1>9. NewChallenges(0)
    BY <1>1 DEF NewChallenges
  <1>10. SessionsOpen'
    <2>1. row.totp \in Nat /\ Keeps(users[u], row) /\ row.hash # none
      BY <1>3, <1>4, <1>5 DEF Rows, Keeps
    <2> QED
      BY <1>2, <1>3, <1>5, <1>8, <2>1, SessionIssued
  <1>11. SpentPast' /\ Clocks' /\ SecretsWaiting'
    BY <1>1, <1>2, <1>3, <1>4, <1>8, <1>9, Authorized
  <1> QED
    BY <1>1, <1>8, <1>10, <1>11, TablesKept, OwnerKept

-----------------------------------------------------------------------------
(* Transactions behind a proof.                                               *)

LEMMA VersionRow ==
  ASSUME NEW row \in Rows
  PROVE  LET next == [row EXCEPT !.version = @ + 1] IN
         /\ next \in Rows /\ next.hash = row.hash /\ next.enabled = row.enabled /\ next.totp = row.totp
         /\ next.step = row.step /\ next.codes = row.codes /\ next.passkeys = row.passkeys
  BY DEF Rows

LEMMA FewerChallenges ==
  ASSUME IdentityInv, challenges' \subseteq challenges
  PROVE  ChallengesBounded' /\ NewChallenges(0)
  <1>1. IsFiniteSet(challenges') /\ Cardinality(challenges') <= Cardinality(challenges)
    BY FS_Subset DEF IdentityInv, ChallengesBounded
  <1>2. Cardinality(challenges') \in Nat /\ Cardinality(challenges) \in Nat
    BY <1>1, FS_CardinalityType DEF IdentityInv, ChallengesBounded
  <1> QED
    BY <1>1, <1>2, Bounds DEF IdentityInv, ChallengesBounded, NewChallenges

LEMMA ChallengeAdded ==
  ASSUME IdentityInv, NEW kind \in {"login", "totp", "register"}, NEW u \in Users, NEW session \in Nat, NEW version \in Nat,
         NEW secret \in Nat, newChallenge(kind, u, session, version, secret)
  PROVE  /\ ChallengesBounded'
         /\ \E d : d.kind = kind /\ d.secret = secret /\ challenges' \subseteq challenges \cup {d}
  <1> DEFINE d == [id |-> fresh + 1, kind |-> kind, user |-> u, session |-> session, version |-> version,
                   secret |-> secret, expires |-> now + ChallengeTTL]
             kept == {ch \in challenges : ch.expires > now /\ ~(session # none /\ ch.session = session /\ ch.kind = kind)}
  <1>1. Cardinality(kept) < MaxChallenges /\ challenges' = kept \cup {d}
    BY DEF newChallenge
  <1>2. d \in ChallengeRows /\ d.kind = kind /\ d.secret = secret
    BY Bounds DEF ChallengeRows, IdentityInv, Tables, Clocks, Founded
  <1>3. kept \subseteq challenges
    OBVIOUS
  <1> HIDE DEF d, kept
  <1>4. IsFiniteSet(kept) /\ Cardinality(kept) \in Nat
    BY <1>3, FS_Subset, FS_CardinalityType DEF IdentityInv, ChallengesBounded
  <1>5. IsFiniteSet(challenges') /\ Cardinality(challenges') <= Cardinality(kept) + 1 /\ Cardinality(challenges') \in Nat
    <2>1. CASE d \in kept
      BY <1>1, <1>4, <2>1, FS_AddElement
    <2>2. CASE d \notin kept
      BY <1>1, <1>4, <2>2, FS_AddElement
    <2> QED
      BY <2>1, <2>2
  <1>6. ChallengesBounded'
    BY <1>1, <1>2, <1>3, <1>4, <1>5, Bounds DEF ChallengesBounded, IdentityInv
  <1> QED
    BY <1>1, <1>2, <1>3, <1>6

LEMMA SecurityKept ==
  ASSUME IdentityInv, NEW u \in Users, NEW row, NEW id, RowIn(row, fresh', DOMAIN signed'), After(users[u], row), Draws,
         row.hash = users[u].hash, row.enabled = users[u].enabled, securityChanged(row, u, id)
  PROVE  /\ Moves /\ SessionsOpen' /\ ChallengesBounded' /\ NewChallenges(0)
         /\ \A code \in CodeSet : Used(row, code) => Used(users'[u], code)
  <1> DEFINE next == [row EXCEPT !.version = @ + 1]
  <1>1. row \in Rows
    BY DEF RowIn
  <1>2. /\ next \in Rows /\ next.hash = row.hash /\ next.enabled = row.enabled /\ next.totp = row.totp
        /\ next.step = row.step /\ next.codes = row.codes /\ next.passkeys = row.passkeys
    BY <1>1, VersionRow
  <1>3. /\ users' = [users EXCEPT ![u] = next] /\ challenges' \subseteq challenges /\ sessions' \subseteq sessions
    BY DEF securityChanged
  <1> HIDE DEF next
  <1>4. RowIn(next, fresh', DOMAIN signed') /\ After(users[u], next)
    BY <1>2 DEF RowIn, After
  <1>5. Moves /\ users'[u] = next /\ \A v \in Users \ {u} : users'[v] = users[v]
    BY <1>3, <1>4, OneRow
  <1>6. SessionsOpen'
    <2>1. \A s \in sessions : s \in SessionRows /\ s.user \in Users
      BY DEF IdentityInv, SessionsOpen, SessionRows
    <2>2. \A s \in sessions : Keeps(users[s.user], users'[s.user])
      BY <1>2, <1>5, <2>1 DEF Keeps, After
    <2> QED
      BY <1>3, <2>1, <2>2, SessionsKept
  <1>7. \A code \in CodeSet : Used(row, code) => Used(users'[u], code)
    BY <1>2, <1>5 DEF Used
  <1> QED
    BY <1>3, <1>5, <1>6, <1>7, FewerChallenges

LEMMA RefusedFactorOK ==
  ASSUME IdentityInv, NEW c \in Calls, factorRejected(c) \/ commitFails(c)
  PROVE  IdentityInv' /\ CounterStep
  <1>1. CallsKnown' /\ LinksOnce' /\ ChallengesBounded'
    BY CallsDone DEF factorRejected, commitFails, IdentityInv, LinksOnce, ChallengesBounded
  <1>2. failures' \in [Users -> Windows] /\ now' = now
    BY CallOf, WindowsKept DEF factorRejected, commitFails
  <1>3. Clocks'
    BY <1>2 DEF Clocks, IdentityInv
  <1>4. UNCHANGED <<users, signed, fresh, spent, owners, challenges, sessions>>
    BY DEF factorRejected, commitFails
  <1> QED
    BY <1>1, <1>3, <1>4, NoUsersChange

LEMMA BeginTOTPOK ==
  ASSUME IdentityInv, NEW c \in Calls, NEW code \in Codes(call[c].user), fresh + 2 <= MaxFresh, BeginTOTP(c, code)
  PROVE  IdentityInv' /\ CounterStep
  <1> USE DEF IdentityInv
  <1> DEFINE u == call[c].user
  <1>1. /\ CallsKnown' /\ LinksOnce' /\ UNCHANGED <<users, sessions, signed, owners, now>> /\ fresh' = fresh + 2
    BY CallsDone DEF BeginTOTP, LinksOnce
  <1>2. /\ verifyFactor(u, code) /\ failures' = afterFactor(u) /\ spent' = record(u, code) /\ users[u].totp = none
        /\ newChallenge("totp", u, call[c].session, users[u].version, fresh + 2)
    BY DEF BeginTOTP, proved
  <1>3. u \in Users /\ call[c].session \in Nat /\ users[u].version \in Nat /\ fresh \in Nat /\ MaxFresh \in Nat /\ code \in Codes(u)
        /\ \A k \in DOMAIN signed : k \in Nat /\ k <= fresh
    BY CallOf, CounterIs DEF Rows, Tables
  <1> HIDE DEF u
  <1>4. Draws /\ Moves
    <2>1. Draws
      BY <1>1, <1>3 DEF Draws, Tables
    <2> QED
      BY <1>1, <2>1, Same
  <1>5. ChallengesBounded' /\ \E d : d.kind = "totp" /\ d.secret = fresh + 2 /\ challenges' \subseteq challenges \cup {d}
    BY <1>2, <1>3, ChallengeAdded
  <1>6. PICK d : d.kind = "totp" /\ d.secret = fresh + 2 /\ challenges' \subseteq challenges \cup {d}
    BY <1>5
  <1>7. NewChallenges(d)
    BY <1>1, <1>3, <1>6 DEF NewChallenges
  <1>8. SpentPast' /\ Clocks' /\ SecretsWaiting'
    BY <1>1, <1>2, <1>3, <1>4, <1>7, Authorized
  <1>9. SessionsOpen'
    BY <1>1, SessionsKept DEF Keeps, SessionsOpen
  <1> QED
    BY <1>1, <1>4, <1>5, <1>8, <1>9, TablesKept, OwnerKept

LEMMA PlainRow ==
  ASSUME NEW row \in Rows
  PROVE  LET next == [row EXCEPT !.totp = none, !.step = -1, !.codes = {}] IN
         /\ next \in Rows /\ next.hash = row.hash /\ next.enabled = row.enabled /\ next.totp = none
         /\ next.step = -1 /\ next.codes = {} /\ next.passkeys = row.passkeys
  <1> DEFINE m == -1
  <1>1. m \in Int /\ none \in Nat
    BY DEF none
  <1> HIDE DEF m
  <1>2. [row EXCEPT !.totp = none, !.step = m, !.codes = {}] \in Rows
    BY <1>1 DEF Rows
  <1> QED
    BY <1>2 DEF Rows, m

LEMMA DisableTOTPOK ==
  ASSUME IdentityInv, NEW c \in Calls, NEW code \in Codes(call[c].user), DisableTOTP(c, code)
  PROVE  IdentityInv' /\ CounterStep
  <1> USE DEF IdentityInv
  <1> DEFINE u == call[c].user
             row == [users[u] EXCEPT !.totp = none, !.step = -1, !.codes = {}]
  <1>1. /\ CallsKnown' /\ LinksOnce' /\ UNCHANGED <<signed, owners, now, fresh>>
    BY CallsDone DEF DisableTOTP, LinksOnce
  <1>2. /\ verifyFactor(u, code) /\ failures' = afterFactor(u) /\ spent' = record(u, code)
        /\ securityChanged(row, u, call[c].session)
    BY DEF DisableTOTP, proved
  <1>3. u \in Users /\ users[u] \in Rows /\ RowIn(users[u], fresh, DOMAIN signed) /\ users[u].passkeys \in Counters
    BY CallOf DEF Rows
  <1>4. /\ row \in Rows /\ row.hash = users[u].hash /\ row.enabled = users[u].enabled /\ row.totp = none /\ row.codes = {}
        /\ row.step = -1 /\ row.passkeys = users[u].passkeys
    BY <1>3, PlainRow
  <1> HIDE DEF row, u
  <1>5. RowIn(row, fresh', DOMAIN signed') /\ After(users[u], row)
    <2>1. \A k \in DOMAIN users[u].passkeys : users[u].passkeys[k] \in Nat
      BY <1>3, CounterIs
    <2>2. row.step \in -1..(MaxNow + 1) /\ fresh \in Nat
      BY <1>4, Bounds DEF Tables, Founded
    <2> QED
      BY <1>1, <1>3, <1>4, <2>1, <2>2 DEF RowIn, After, none
  <1>6. Draws
    BY <1>1, NoDraw
  <1>7. /\ Moves /\ SessionsOpen' /\ ChallengesBounded' /\ NewChallenges(0)
        /\ \A x \in CodeSet : Used(row, x) => Used(users'[u], x)
    BY <1>2, <1>3, <1>4, <1>5, <1>6, SecurityKept
  <1>8. users[u].totp # none => Used(users'[u], code)
    <2>1. code \in CodeSet /\ code \in Codes(u)
      BY <1>3, CodesTyped DEF u
    <2>2. users[u].totp # none => code.of # none
      BY <1>2, <1>3, <2>1, ConsumedOK DEF Accepted, none
    <2>3. users[u].totp # none => Used(row, code)
      BY <1>4, <2>2 DEF Used
    <2> QED
      BY <1>7, <2>1, <2>3
  <1>9. SpentPast' /\ Clocks' /\ SecretsWaiting'
    BY <1>1, <1>2, <1>3, <1>7, <1>8, Authorized DEF u
  <1> QED
    BY <1>1, <1>7, <1>9, TablesKept, OwnerKept

LEMMA RegenerateOK ==
  ASSUME IdentityInv, NEW c \in Calls, NEW code \in Codes(call[c].user), fresh < MaxFresh, RegenerateRecoveryCodes(c, code)
  PROVE  IdentityInv' /\ CounterStep
  <1> USE DEF IdentityInv
  <1> DEFINE u == call[c].user
             old == consumed(users[u], code)
             row == [old EXCEPT !.codes = batch(fresh + 1)]
  <1>1. /\ CallsKnown' /\ LinksOnce' /\ UNCHANGED <<signed, owners, now>> /\ fresh' = fresh + 1
    BY CallsDone DEF RegenerateRecoveryCodes, LinksOnce
  <1>2. /\ verifyFactor(u, code) /\ failures' = afterFactor(u) /\ spent' = record(u, code)
        /\ securityChanged(row, u, call[c].session)
    BY DEF RegenerateRecoveryCodes, proved
  <1>3. u \in Users /\ fresh \in Nat /\ users[u] \in Rows /\ code \in Codes(u) /\ code \in CodeSet
    BY CallOf, CodesTyped
  <1> HIDE DEF u
  <1>4. /\ RowIn(old, fresh, DOMAIN signed) /\ After(users[u], old) /\ (users[u].totp # none => Used(old, code) /\ Accepted(u, code))
        /\ old.hash = users[u].hash /\ old.enabled = users[u].enabled /\ old.totp = users[u].totp
    BY <1>2, <1>3, ConsumedOK
  <1> HIDE DEF old
  <1>5. batch(fresh + 1) \in SUBSET CodeSet /\ \A x \in batch(fresh + 1) : x.of = fresh + 1
    BY <1>3, BatchIs
  <1>6. old \in Rows
    BY <1>4 DEF RowIn
  <1>7. /\ row \in Rows /\ row.hash = old.hash /\ row.enabled = old.enabled /\ row.totp = old.totp /\ row.step = old.step
        /\ row.codes = batch(fresh + 1) /\ row.passkeys = old.passkeys
    BY <1>5, <1>6 DEF Rows
  <1> HIDE DEF row
  <1>8. RowIn(row, fresh', DOMAIN signed') /\ After(users[u], row)
    BY <1>1, <1>3, <1>4, <1>5, <1>7 DEF RowIn, After, Rows
  <1>9. Draws
    BY <1>1, OneDraw
  <1>10. /\ Moves /\ SessionsOpen' /\ ChallengesBounded' /\ NewChallenges(0)
         /\ \A x \in CodeSet : Used(row, x) => Used(users'[u], x)
    BY <1>2, <1>3, <1>4, <1>7, <1>8, <1>9, SecurityKept
  <1>11. users[u].totp # none => Used(users'[u], code)
    <2>1. users[u].totp # none => Used(row, code)
      BY <1>3, <1>4, <1>5, <1>7 DEF Used, Accepted
    <2> QED
      BY <1>3, <1>10, <2>1
  <1>12. SpentPast' /\ Clocks' /\ SecretsWaiting'
    BY <1>1, <1>2, <1>3, <1>10, <1>11, Authorized
  <1> QED
    BY <1>1, <1>10, <1>12, TablesKept, OwnerKept

LEMMA RestrictIs ==
  ASSUME NEW f \in Counters, NEW k
  PROVE  LET g == Restrict(f, DOMAIN f \ {k}) IN g \in Counters /\ DOMAIN g = DOMAIN f \ {k} /\ \A x \in DOMAIN g : g[x] = f[x]
  <1> DEFINE D == DOMAIN f \ {k}
             g == [x \in D |-> f[x]]
  <1>1. DOMAIN f \subseteq Nat /\ \A x \in DOMAIN f : f[x] \in Nat
    BY CounterIs
  <1>2. g \in [D -> Nat] /\ D \subseteq Nat
    BY <1>1
  <1>3. Restrict(f, D) = g
    BY DEF Restrict
  <1> HIDE DEF D
  <1>4. g \in Counters
    BY <1>2, IsCounter
  <1> QED
    BY <1>3, <1>4 DEF D

LEMMA DeletePasskeyOK ==
  ASSUME IdentityInv, NEW c \in Calls, NEW code \in Codes(call[c].user), NEW k, DeletePasskey(c, code, k)
  PROVE  IdentityInv' /\ CounterStep
  <1> USE DEF IdentityInv
  <1> DEFINE u == call[c].user
             old == consumed(users[u], code)
             g == Restrict(old.passkeys, DOMAIN old.passkeys \ {k})
             row == [old EXCEPT !.passkeys = g]
  <1>1. /\ CallsKnown' /\ LinksOnce' /\ UNCHANGED <<signed, owners, now, fresh>>
    BY CallsDone DEF DeletePasskey, LinksOnce
  <1>2. /\ verifyFactor(u, code) /\ failures' = afterFactor(u) /\ spent' = record(u, code)
        /\ securityChanged(row, u, call[c].session)
    BY DEF DeletePasskey, proved
  <1>3. u \in Users /\ users[u] \in Rows /\ code \in Codes(u) /\ code \in CodeSet /\ users[u].passkeys \in Counters
    BY CallOf, CodesTyped DEF Rows
  <1> HIDE DEF u
  <1>4. /\ RowIn(old, fresh, DOMAIN signed) /\ After(users[u], old) /\ (users[u].totp # none => Used(old, code))
        /\ old.hash = users[u].hash /\ old.enabled = users[u].enabled /\ old.totp = users[u].totp
    BY <1>2, <1>3, ConsumedOK
  <1>5. old.passkeys = users[u].passkeys
    BY <1>3, ConsumedRow
  <1> HIDE DEF old
  <1>6. g \in Counters /\ DOMAIN g \subseteq DOMAIN old.passkeys /\ \A x \in DOMAIN g : g[x] = old.passkeys[x]
    BY <1>3, <1>5, RestrictIs
  <1> HIDE DEF g
  <1>7. old \in Rows
    BY <1>4 DEF RowIn
  <1>8. /\ row \in Rows /\ row.hash = old.hash /\ row.enabled = old.enabled /\ row.totp = old.totp /\ row.step = old.step
        /\ row.codes = old.codes /\ row.passkeys = g
    BY <1>6, <1>7 DEF Rows
  <1> HIDE DEF row
  <1>9. RowIn(row, fresh', DOMAIN signed') /\ After(users[u], row)
    <2>1. RowIn(row, fresh', DOMAIN signed')
      BY <1>1, <1>4, <1>6, <1>8 DEF RowIn
    <2>2. \A x \in DOMAIN g : x \in DOMAIN users[u].passkeys /\ g[x] = users[u].passkeys[x] /\ g[x] \in Nat
      BY <1>3, <1>5, <1>6, CounterIs
    <2> QED
      BY <1>4, <1>8, <2>1, <2>2 DEF After
  <1>10. Draws
    BY <1>1, NoDraw
  <1>11. /\ Moves /\ SessionsOpen' /\ ChallengesBounded' /\ NewChallenges(0)
         /\ \A x \in CodeSet : Used(row, x) => Used(users'[u], x)
    BY <1>2, <1>3, <1>4, <1>8, <1>9, <1>10, SecurityKept
  <1>12. users[u].totp # none => Used(users'[u], code)
    BY <1>3, <1>4, <1>8, <1>11 DEF Used
  <1>13. SpentPast' /\ Clocks' /\ SecretsWaiting'
    BY <1>1, <1>2, <1>3, <1>11, <1>12, Authorized
  <1> QED
    BY <1>1, <1>11, <1>13, TablesKept, OwnerKept

LEMMA BeginPasskeyRegistrationOK ==
  ASSUME IdentityInv, NEW c \in Calls, NEW code \in Codes(call[c].user), BeginPasskeyRegistration(c, code)
  PROVE  IdentityInv' /\ CounterStep
  <1> USE DEF IdentityInv
  <1> DEFINE u == call[c].user
             row == consumed(users[u], code)
             st == [call[c] EXCEPT !.op = "ceremony"]
  <1>1. /\ UNCHANGED <<sessions, challenges, invitations, signed, now, fresh, owners>> /\ call' = [call EXCEPT ![c] = st]
        /\ verifyFactor(u, code) /\ failures' = afterFactor(u) /\ spent' = record(u, code)
        /\ users' = [users EXCEPT ![u] = row]
    BY DEF BeginPasskeyRegistration, proved
  <1>2. u \in Users /\ code \in Codes(u) /\ call[c] \in CallStates
    BY CallOf
  <1>3. st \in CallStates /\ st.op = "ceremony"
    BY <1>2 DEF CallStates, Operations
  <1>4. st.op \notin Hashing /\ st.op # "setup" /\ st.op # "assertion"
    BY <1>3 DEF Hashing
  <1> HIDE DEF st, u
  <1>5. CallsKnown'
    BY <1>1, <1>3, <1>4, CallsKept
  <1>6. /\ RowIn(row, fresh, DOMAIN signed) /\ After(users[u], row) /\ (users[u].totp # none => Used(row, code))
        /\ row.hash = users[u].hash /\ row.enabled = users[u].enabled /\ row.totp = users[u].totp
    BY <1>1, <1>2, ConsumedOK
  <1> HIDE DEF row
  <1>7. Draws
    BY <1>1, NoDraw
  <1>8. Moves /\ users'[u] = row /\ \A v \in Users \ {u} : users'[v] = users[v]
    BY <1>1, <1>2, <1>6, <1>7, OneRow
  <1>9. ChallengesBounded' /\ NewChallenges(0) /\ LinksOnce'
    BY <1>1, FewerChallenges DEF LinksOnce
  <1>10. SessionsOpen'
    <2>1. \A s \in sessions : s \in SessionRows /\ s.user \in Users
      BY DEF SessionsOpen, SessionRows
    <2>2. \A s \in sessions : Keeps(users[s.user], users'[s.user])
      BY <1>6, <1>8, <2>1 DEF Keeps
    <2> QED
      BY <1>1, <2>1, <2>2, SessionsKept
  <1>11. SpentPast' /\ Clocks' /\ SecretsWaiting'
    BY <1>1, <1>2, <1>6, <1>8, <1>9, Authorized
  <1> QED
    BY <1>1, <1>5, <1>8, <1>9, <1>10, <1>11, TablesKept, OwnerKept

\* A step that leaves the accounts as they are but draws a number.
LEMMA DrawOnly ==
  ASSUME IdentityInv, Draws, UNCHANGED <<users, spent, owners>>, CallsKnown', Clocks', LinksOnce', ChallengesBounded',
         \A ch \in challenges' : ch \in challenges \/ ch.kind # "totp", sessions' \subseteq sessions
  PROVE  IdentityInv' /\ CounterStep
  <1>1. Moves /\ NewChallenges(0)
    BY Same DEF NewChallenges
  <1>2. SessionsOpen'
    BY SessionsKept DEF Keeps, IdentityInv, SessionsOpen
  <1> QED
    BY <1>1, <1>2, TablesKept, SecretsKept, SpentKept, OwnerKept DEF IdentityInv

LEMMA SaveChallengeOK ==
  ASSUME IdentityInv, NEW c \in Calls, fresh < MaxFresh, saveChallenge(c)
  PROVE  IdentityInv' /\ CounterStep
  <1> DEFINE u == call[c].user
  <1>1. /\ CallsKnown' /\ LinksOnce' /\ Clocks' /\ UNCHANGED <<users, sessions, signed, spent, owners>>
    BY CallsDone DEF saveChallenge, IdentityInv, LinksOnce, Clocks
  <1>2. CASE UNCHANGED <<challenges, fresh>>
    BY <1>1, <1>2, NoUsersChange DEF IdentityInv, ChallengesBounded
  <1>3. CASE newChallenge("register", u, call[c].session, users[u].version, none) /\ fresh' = fresh + 1
    <2>1. u \in Users /\ call[c].session \in Nat /\ users[u].version \in Nat /\ none \in Nat
      BY CallOf DEF Rows, none
    <2> HIDE DEF u
    <2>2. ChallengesBounded' /\ \E d : d.kind = "register" /\ d.secret = none /\ challenges' \subseteq challenges \cup {d}
      BY <1>3, <2>1, ChallengeAdded
    <2>3. \A ch \in challenges' : ch \in challenges \/ ch.kind # "totp"
      BY <2>2
    <2>4. Draws
      BY <1>1, <1>3, OneDraw
    <2> QED
      BY <1>1, <2>2, <2>3, <2>4, DrawOnly
  <1> QED
    BY <1>2, <1>3 DEF saveChallenge

LEMMA BeginPasskeyLoginOK ==
  ASSUME IdentityInv, fresh < MaxFresh, BeginPasskeyLogin
  PROVE  IdentityInv' /\ CounterStep
  <1>1. /\ CallsKnown' /\ LinksOnce' /\ Clocks' /\ UNCHANGED <<users, sessions, signed, spent, owners>> /\ fresh' = fresh + 1
    BY CallsSame DEF BeginPasskeyLogin, IdentityInv, LinksOnce, Clocks
  <1>2. none \in Nat /\ 0 \in Nat /\ Admin \in Users /\ newChallenge("login", Admin, none, 0, none)
    BY Bounds DEF BeginPasskeyLogin, none
  <1>3. ChallengesBounded' /\ \E d : d.kind = "login" /\ d.secret = none /\ challenges' \subseteq challenges \cup {d}
    BY <1>2, ChallengeAdded
  <1>4. \A ch \in challenges' : ch \in challenges \/ ch.kind # "totp"
    BY <1>3
  <1>5. Draws
    BY <1>1, OneDraw
  <1> QED
    BY <1>1, <1>3, <1>4, <1>5, DrawOnly

LEMMA EnableRejectedOK ==
  ASSUME IdentityInv, NEW s \in sessions, NEW ch \in challenges, enableRejected(s, ch)
  PROVE  IdentityInv' /\ CounterStep
  <1>1. /\ LinksOnce' /\ ChallengesBounded' /\ UNCHANGED <<users, challenges, signed, fresh, spent, owners, call, sessions>>
    BY DEF enableRejected, IdentityInv, LinksOnce, ChallengesBounded
  <1>2. ch.user \in Users
    BY DEF IdentityInv, ChallengesBounded, ChallengeRows
  <1>3. Clocks'
    BY <1>2, WindowsKept DEF enableRejected, Clocks, IdentityInv
  <1> QED
    BY <1>1, <1>3, CallsSame, NoUsersChange

\* Steps of administrators and of time that touch no account.
LEMMA PlainStepsOK ==
  ASSUME IdentityInv, (\E s \in sessions : Revoke(s)) \/ Suspend \/ Tick
  PROVE  IdentityInv' /\ CounterStep
  <1>1. /\ LinksOnce' /\ ChallengesBounded' /\ Clocks' /\ UNCHANGED <<users, challenges, signed, fresh, spent, owners, call>>
        /\ sessions' \subseteq sessions
    BY Bounds DEF Revoke, Suspend, Tick, IdentityInv, LinksOnce, ChallengesBounded, Clocks
  <1> QED
    BY <1>1, CallsSame, NoUsersChange

LEMMA CreateInvitationOK ==
  ASSUME IdentityInv, fresh < MaxFresh, CreateInvitation
  PROVE  IdentityInv' /\ CounterStep
  <1>1. /\ ChallengesBounded' /\ Clocks' /\ UNCHANGED <<users, sessions, challenges, signed, spent, owners, call>> /\ fresh' = fresh + 1
    BY DEF CreateInvitation, IdentityInv, ChallengesBounded, Clocks
  <1>2. LinksOnce'
    <2> DEFINE i == [id |-> fresh + 1, expires |-> now + InvitationTTL, used |-> FALSE, admitted |-> {}]
    <2>1. i \in InvitationRows /\ ~i.used /\ i.admitted = {}
      BY Bounds DEF InvitationRows, IdentityInv, Tables, Clocks, Founded
    <2>2. invitations' = invitations \cup {i}
      BY DEF CreateInvitation
    <2> HIDE DEF i
    <2> QED
      BY <2>1, <2>2 DEF LinksOnce, IdentityInv
  <1>3. Draws
    BY <1>1, OneDraw
  <1> QED
    BY <1>1, <1>2, <1>3, CallsSame, DrawOnly

-----------------------------------------------------------------------------
(* A factor is enabled, a password replaced, an account disabled.             *)

LEMMA EnableTOTPOK ==
  ASSUME IdentityInv, NEW s \in sessions, NEW ch \in challenges, NEW n \in (now - 1)..(now + 1), fresh < MaxFresh,
         EnableTOTP(s, ch, [of |-> ch.secret, n |-> n])
  PROVE  IdentityInv' /\ CounterStep
  <1> USE DEF IdentityInv
  <1> DEFINE u == ch.user
             code == [of |-> ch.secret, n |-> n]
             version == users[u].version + 1
             row == [users[u] EXCEPT !.totp = ch.secret, !.step = code.n, !.codes = batch(fresh + 1), !.version = version]
             t == [s EXCEPT !.factor = ch.secret]
  <1>1. /\ LinksOnce' /\ UNCHANGED <<call, signed, owners, now>> /\ fresh' = fresh + 1
        /\ users' = [users EXCEPT ![u] = row] /\ challenges' = challenges \ userChallenges(u)
        /\ sessions' = {o \in sessions : o.user # u} \cup {t}
        /\ failures' = factorVerified(u) /\ spent' = Append(spent, <<u, code>>)
        /\ challenge(ch, "totp", s) /\ totpStep(ch.secret, code, -1)
    BY DEF EnableTOTP, LinksOnce
  <1>2. /\ ch \in ChallengeRows /\ u \in Users /\ ch.kind = "totp" /\ s \in SessionRows /\ s.user = u /\ n \in Int /\ n \in -1..(MaxNow + 1)
        /\ fresh \in Nat /\ MaxFresh \in Nat /\ users[u] \in Rows /\ RowIn(users[u], fresh, DOMAIN signed) /\ ch.secret \in Nat
    <2>1. n > -1 /\ ch.kind = "totp" /\ s.user = u
      BY <1>1 DEF totpStep, challenge
    <2> QED
      BY <2>1, Bounds DEF Clocks, ChallengesBounded, ChallengeRows, SessionsOpen, SessionRows, Tables, Founded
  <1>3. /\ ch.secret \in 1..fresh /\ \A d \in challenges : d.kind = "totp" /\ d.secret = ch.secret => d = ch
        /\ \A v \in Users : users[v].totp # ch.secret /\ \A x \in users[v].codes : x.of # ch.secret
    BY <1>2 DEF SecretsWaiting
  <1>4. batch(fresh + 1) \in SUBSET CodeSet /\ \A x \in batch(fresh + 1) : x.of = fresh + 1
    BY <1>2, BatchIs
  <1>5. code.n = n /\ code.of = ch.secret /\ code \in CodeSet
    BY <1>2 DEF CodeSet
  <1>5a. version \in Nat
    BY <1>2 DEF Rows
  <1> HIDE DEF code, version
  <1>6. /\ row \in Rows /\ row.hash = users[u].hash /\ row.enabled = users[u].enabled /\ row.totp = ch.secret
        /\ row.step = n /\ row.codes = batch(fresh + 1) /\ row.passkeys = users[u].passkeys
    <2> DEFINE a == users[u]
               b == batch(fresh + 1)
               m == code.n
               z == ch.secret
    <2>1. a \in Rows /\ z \in Nat /\ m \in Int /\ b \in SUBSET CodeSet /\ version \in Nat
      BY <1>2, <1>4, <1>5, <1>5a
    <2>2. row = [a EXCEPT !.totp = z, !.step = m, !.codes = b, !.version = version] /\ m = n
      BY <1>5
    <2> HIDE DEF a, b, m, z, row
    <2>3. /\ row \in Rows /\ row.hash = a.hash /\ row.enabled = a.enabled /\ row.totp = z
          /\ row.step = m /\ row.codes = b /\ row.passkeys = a.passkeys
      BY ONLY <2>1, <2>2 DEF Rows
    <2> QED
      BY <2>2, <2>3 DEF a, b, z
  <1>7. t \in SessionRows /\ t.user = u /\ t.hash = s.hash /\ t.factor = ch.secret
    BY <1>2 DEF SessionRows
  <1> HIDE DEF row, t
  <1>8. users'[u] = row /\ \A v \in Users \ {u} : users'[v] = users[v]
    BY <1>1, <1>2, <1>6 DEF Tables
  <1>9. RowIn(row, fresh', DOMAIN signed')
    <2>1. RowIn(row, fresh + 1, DOMAIN signed)
      BY <1>2, <1>3, <1>4, <1>6 DEF RowIn, Rows
    <2> QED
      BY <1>1, <2>1
  <1>10. Tables'
    <2>1. ASSUME NEW v \in Users PROVE RowIn(users[v], fresh', DOMAIN signed')
      <3>1. RowIn(users[v], fresh, DOMAIN signed) /\ users[v] \in Rows
        BY DEF Tables
      <3> QED
        BY <1>1, <1>2, <3>1, RowInMore
    <2>2. \A k \in DOMAIN signed : k \in Nat /\ k <= fresh
      BY CounterIs DEF Tables
    <2> QED
      BY <1>1, <1>2, <1>6, <1>8, <1>9, <2>1, <2>2 DEF Tables, Founded
  <1>11. CounterStep
    <2>1. \A v \in Users : users'[v].passkeys = users[v].passkeys /\ users[v].passkeys \in Counters
      BY <1>6, <1>8 DEF Tables, Rows
    <2> QED
      BY <2>1, CounterIs DEF CounterStep
  <1>12. \A d \in challenges' : d \in challenges /\ (d.kind = "totp" => d.secret # ch.secret)
    <2>1. ch \notin challenges'
      BY <1>1, <1>2 DEF userChallenges
    <2> QED
      BY <1>1, <1>3, <2>1
  <1>13. SecretsWaiting'
    <2>1. ASSUME NEW d \in challenges', d.kind = "totp"
          PROVE  d.secret \in 1..fresh' /\ \A v \in Users : users'[v].totp # d.secret /\ \A x \in users'[v].codes : x.of # d.secret
      <3>1. d.secret \in 1..fresh /\ \A v \in Users : users[v].totp # d.secret /\ \A x \in users[v].codes : x.of # d.secret
        BY <1>12, <2>1 DEF SecretsWaiting
      <3>2. row.totp # d.secret /\ \A x \in row.codes : x.of # d.secret
        BY <1>2, <1>4, <1>6, <1>12, <2>1, <3>1
      <3> QED
        BY <1>1, <1>2, <1>8, <3>1, <3>2
    <2> QED
      BY <1>12, <2>1 DEF SecretsWaiting
  <1>14. SpentPast'
    <2>1. ASSUME NEW i \in DOMAIN spent
          PROVE  /\ spent[i] # <<u, code>> /\ Used(users'[spent[i][1]], spent[i][2])
                 /\ \A d \in challenges' : d.kind = "totp" => d.secret # spent[i][2].of
      <3>1. spent[i] \in Users \X CodeSet
        BY DEF SpentPast
      <3>2. spent[i][2].of \in 1..fresh /\ Used(users[spent[i][1]], spent[i][2])
            /\ \A d \in challenges : d.kind = "totp" => d.secret # spent[i][2].of
        BY DEF SpentPast
      <3>3. spent[i][2].of # ch.secret
        BY <1>2, <3>2
      <3>4. Used(row, spent[i][2])
        BY <1>2, <1>4, <1>6, <3>2, <3>3 DEF Used
      <3>5. Used(users'[spent[i][1]], spent[i][2])
        BY <1>8, <3>1, <3>2, <3>4
      <3> QED
        BY <1>5, <1>12, <3>2, <3>3, <3>5
    <2>2. Used(users'[u], code) /\ code.of \in 1..fresh' /\ \A d \in challenges' : d.kind = "totp" => d.secret # code.of
      BY <1>1, <1>2, <1>3, <1>4, <1>5, <1>6, <1>8, <1>12 DEF Used
    <2>3. fresh' \in Nat /\ fresh <= fresh'
      BY <1>1, <1>2
    <2> QED
      BY <1>1, <1>2, <1>5, <2>1, <2>2, <2>3, SpentAppended
  <1>15. SessionsOpen'
    <2>1. Serves(t, row)
      BY <1>2, <1>6, <1>7 DEF Serves, SessionsOpen, SessionsCurrent, exists
    <2>2. \A o \in sessions : o.user \in Users
      BY DEF SessionsOpen, SessionRows
    <2>3. \A o \in sessions' : (o \in sessions /\ Keeps(users[o.user], users'[o.user])) \/ Serves(o, users'[o.user])
      BY <1>1, <1>7, <1>8, <2>1, <2>2 DEF Keeps
    <2>4. sessions' \subseteq SessionRows
      BY <1>1, <1>7 DEF SessionsOpen
    <2> QED
      BY <2>3, <2>4, SessionsKept
  <1>16. Clocks'
    BY <1>1, <1>2, WindowsKept DEF Clocks
  <1>17. ChallengesBounded'
    BY <1>12, FewerChallenges
  <1>18. OwnerOnce'
    BY <1>1, <1>6, <1>8, Bounds DEF OwnerOnce, exists
  <1> QED
    BY <1>1, <1>10, <1>11, <1>13, <1>14, <1>15, <1>16, <1>17, <1>18, CallsSame

LEMMA RecoveredRow ==
  ASSUME NEW row \in Rows
  PROVE  /\ recovered(row) \in Rows /\ recovered(row).hash = row.hash /\ recovered(row).enabled = row.enabled
         /\ recovered(row).totp = none /\ recovered(row).step = -1 /\ recovered(row).codes = {} /\ DOMAIN recovered(row).passkeys = {}
  <1> DEFINE p == [k \in {} |-> 0]
             m == -1
  <1>1. p \in Counters /\ DOMAIN p = {} /\ m \in Int /\ none \in Nat
    BY NoPasskeys DEF none
  <1>2. recovered(row) = [row EXCEPT !.totp = none, !.step = m, !.codes = {}, !.passkeys = p]
    BY DEF recovered
  <1> HIDE DEF p, m
  <1>3. [row EXCEPT !.totp = none, !.step = m, !.codes = {}, !.passkeys = p] \in Rows
    BY <1>1 DEF Rows
  <1> QED
    BY <1>1, <1>2, <1>3 DEF Rows, m

LEMMA ReplacePasswordOK ==
  ASSUME IdentityInv, NEW c \in Calls, fresh < MaxFresh, replacePassword(c)
  PROVE  IdentityInv' /\ CounterStep
  <1> USE DEF IdentityInv
  <1> DEFINE u == call[c].user
             base == IF call[c].key = 1 THEN recovered(users[u]) ELSE users[u]
             version == base.version + 1
             row == [base EXCEPT !.hash = fresh + 1, !.version = version]
  <1>1. /\ CallsKnown' /\ LinksOnce' /\ Clocks' /\ UNCHANGED <<signed, spent, owners>>
    BY CallsDone DEF replacePassword, LinksOnce, Clocks
  <1>2. CASE ReplacePassword(c)
    <2>1. /\ users' = [users EXCEPT ![u] = row] /\ fresh' = fresh + 1 /\ challenges' \subseteq challenges
          /\ sessions' = sessions \ userSessions(u)
      BY <1>2 DEF replacePassword
    <2>2. u \in Users /\ users[u] \in Rows /\ RowIn(users[u], fresh, DOMAIN signed) /\ fresh \in Nat /\ MaxFresh \in Nat
      BY CallOf
    <2> HIDE DEF u
    <2>3. /\ base \in Rows /\ base.totp \in {users[u].totp, none} /\ (base.totp # none => base.step = users[u].step)
          /\ base.step \in {-1, users[u].step}
          /\ base.codes \subseteq users[u].codes /\ (base.passkeys = users[u].passkeys \/ DOMAIN base.passkeys = {})
          /\ (base.totp = users[u].totp \/ base.codes = {})
      BY <2>2, RecoveredRow
    <2>3a. version \in Nat /\ fresh + 1 \in Nat
      BY <2>2, <2>3 DEF Rows
    <2> HIDE DEF base, version
    <2>4. /\ row \in Rows /\ row.hash = fresh + 1 /\ row.enabled = base.enabled /\ row.totp = base.totp
          /\ row.step = base.step /\ row.codes = base.codes /\ row.passkeys = base.passkeys
      <3> DEFINE m == fresh + 1
      <3>1. row = [base EXCEPT !.hash = m, !.version = version] /\ m \in Nat
        BY <2>3a
      <3> HIDE DEF m, row
      <3> QED
        BY ONLY <2>3, <2>3a, <3>1 DEF Rows, m
    <2> HIDE DEF row
    <2>5. RowIn(row, fresh', DOMAIN signed')
      <3>1. row.step \in -1..(MaxNow + 1) /\ row.totp <= fresh'
        BY <2>1, <2>2, <2>3, <2>4, Bounds DEF RowIn, none, Rows
      <3>2. \A x \in row.codes : x.of \in 1..fresh' /\ x.of # row.totp
        BY <2>1, <2>2, <2>3, <2>4 DEF RowIn
      <3> QED
        BY <1>1, <2>1, <2>2, <2>3, <2>4, <3>1, <3>2 DEF RowIn
    <2>6. After(users[u], row)
      <3>1. \A k \in DOMAIN users[u].passkeys : users[u].passkeys[k] \in Nat
        BY <2>2, CounterIs DEF Rows
      <3> QED
        BY <2>2, <2>3, <2>4, <3>1 DEF After, none, Rows
    <2>7. Draws
      BY <1>1, <2>1, OneDraw
    <2>8. Moves /\ users'[u] = row /\ \A v \in Users \ {u} : users'[v] = users[v]
      BY <2>1, <2>2, <2>5, <2>6, <2>7, OneRow
    <2>9. SessionsOpen'
      <3>1. \A s \in sessions' : s \in sessions /\ s.user \in Users /\ s.user # u
        BY <2>1 DEF userSessions, SessionsOpen, SessionRows
      <3>2. \A s \in sessions' : Keeps(users[s.user], users'[s.user])
        BY <2>8, <3>1 DEF Keeps
      <3> QED
        BY <3>1, <3>2, SessionsKept DEF SessionsOpen
    <2> QED
      BY <1>1, <2>1, <2>8, <2>9, FewerChallenges, TablesKept, SecretsKept, SpentKept, OwnerKept
  <1>3. CASE ~ReplacePassword(c)
    BY <1>1, <1>3, NoUsersChange DEF replacePassword, ChallengesBounded
  <1> QED
    BY <1>2, <1>3

LEMMA SetMemberEnabledOK ==
  ASSUME IdentityInv, NEW u \in Users, NEW enabled \in BOOLEAN, SetMemberEnabled(u, enabled)
  PROVE  IdentityInv' /\ CounterStep
  <1> USE DEF IdentityInv
  <1> DEFINE row == [users[u] EXCEPT !.enabled = enabled]
  <1>1. /\ LinksOnce' /\ Clocks' /\ UNCHANGED <<signed, fresh, spent, owners, challenges, call>> /\ users' = [users EXCEPT ![u] = row]
        /\ sessions' = IF enabled THEN sessions ELSE sessions \ userSessions(u)
    BY DEF SetMemberEnabled, LinksOnce, Clocks
  <1>2. users[u] \in Rows /\ RowIn(users[u], fresh, DOMAIN signed) /\ users[u].passkeys \in Counters
    BY DEF Tables, Rows
  <1>3. /\ row \in Rows /\ row.hash = users[u].hash /\ row.enabled = enabled /\ row.totp = users[u].totp
        /\ row.step = users[u].step /\ row.codes = users[u].codes /\ row.passkeys = users[u].passkeys
    BY <1>2 DEF Rows
  <1> HIDE DEF row
  <1>4. RowIn(row, fresh', DOMAIN signed') /\ After(users[u], row)
    <2>1. \A k \in DOMAIN users[u].passkeys : users[u].passkeys[k] \in Nat
      BY <1>2, CounterIs
    <2>2. users[u].step \in Int
      BY <1>2 DEF Rows
    <2> QED
      BY <1>1, <1>2, <1>3, <2>1, <2>2 DEF RowIn, After
  <1>5. Draws
    BY <1>1, NoDraw
  <1>6. Moves /\ users'[u] = row /\ \A v \in Users \ {u} : users'[v] = users[v]
    BY <1>1, <1>4, <1>5, OneRow
  <1>7. SessionsOpen'
    <2>1. \A s \in sessions : s \in SessionRows /\ s.user \in Users
      BY DEF SessionsOpen, SessionRows
    <2>2. CASE enabled
      <3>1. \A s \in sessions : s.user = u => users[u].enabled
        BY DEF SessionsOpen, SessionsCurrent
      <3>2. \A s \in sessions : Keeps(users[s.user], users'[s.user])
        BY <1>2, <1>3, <1>6, <2>1, <2>2, <3>1 DEF Keeps, Rows
      <3> QED
        BY <1>1, <2>1, <2>2, <3>2, SessionsKept
    <2>3. CASE ~enabled
      <3>1. \A s \in sessions' : s \in sessions /\ s.user \in Users /\ s.user # u
        BY <1>1, <2>1, <2>3 DEF userSessions
      <3>2. \A s \in sessions' : Keeps(users[s.user], users'[s.user])
        BY <1>6, <3>1 DEF Keeps
      <3> QED
        BY <2>1, <3>1, <3>2, SessionsKept
    <2> QED
      BY <2>2, <2>3
  <1> QED
    BY <1>1, <1>6, <1>7, CallsSame, FewerChallenges, TablesKept, SecretsKept, SpentKept, OwnerKept

-----------------------------------------------------------------------------
(* Passkeys.                                                                  *)

LEMMA PasskeyRow ==
  ASSUME NEW row \in Rows, NEW p \in Counters
  PROVE  /\ [row EXCEPT !.passkeys = p] \in Rows /\ [row EXCEPT !.passkeys = p].hash = row.hash
         /\ [row EXCEPT !.passkeys = p].enabled = row.enabled /\ [row EXCEPT !.passkeys = p].totp = row.totp
         /\ [row EXCEPT !.passkeys = p].step = row.step /\ [row EXCEPT !.passkeys = p].codes = row.codes
         /\ [row EXCEPT !.passkeys = p].passkeys = p
  BY DEF Rows

LEMMA CounterSet ==
  ASSUME NEW f \in Counters, NEW k \in DOMAIN f, NEW n \in Nat
  PROVE  /\ [f EXCEPT ![k] = n] \in Counters /\ DOMAIN [f EXCEPT ![k] = n] = DOMAIN f
         /\ [f EXCEPT ![k] = n][k] = n /\ \A x \in DOMAIN f \ {k} : [f EXCEPT ![k] = n][x] = f[x]
  <1> DEFINE D == DOMAIN f
             g == [f EXCEPT ![k] = n]
  <1>1. D \subseteq Nat /\ f \in [D -> Nat]
    BY CounterIs
  <1>2. g \in [D -> Nat] /\ g[k] = n /\ \A x \in D \ {k} : g[x] = f[x]
    BY <1>1
  <1> HIDE DEF D, g
  <1>3. g \in Counters /\ DOMAIN g = D
    BY <1>1, <1>2, IsCounter
  <1> QED
    BY <1>2, <1>3 DEF D, g

\* The counter map with one more key, as a new passkey and its authenticator have it.
LEMMA CounterNew ==
  ASSUME NEW f \in Counters, NEW k \in Nat
  PROVE  LET g == [x \in DOMAIN f \cup {k} |-> IF x = k THEN 0 ELSE f[x]] IN
         /\ g \in Counters /\ DOMAIN g = DOMAIN f \cup {k} /\ \A x \in DOMAIN f \ {k} : g[x] = f[x]
  <1> DEFINE D == DOMAIN f \cup {k}
             g == [x \in D |-> IF x = k THEN 0 ELSE f[x]]
  <1>1. DOMAIN f \subseteq Nat /\ \A x \in DOMAIN f : f[x] \in Nat
    BY CounterIs
  <1>2. g \in [D -> Nat] /\ D \subseteq Nat
    BY <1>1
  <1>3. \A x \in DOMAIN f \ {k} : g[x] = f[x]
    OBVIOUS
  <1> HIDE DEF g
  <1>4. g \in Counters /\ DOMAIN g = D
    BY <1>2, IsCounter
  <1> QED
    BY <1>3, <1>4 DEF g

LEMMA ValidatePasskeyLoginOK ==
  ASSUME IdentityInv, NEW c \in Calls, NEW k \in DOMAIN signed, ValidatePasskeyLogin(c, k)
  PROVE  IdentityInv' /\ CounterStep
  <1> USE DEF IdentityInv
  <1> DEFINE n == signed[k] + 1
             m == users[call[c].user].passkeys[k]
             st == [call[c] EXCEPT !.op = "assertion", !.key = k, !.previous = m, !.counter = n]
  <1>1. /\ UNCHANGED <<users, sessions, challenges, invitations, failures, now, fresh, spent, owners>>
        /\ call' = [call EXCEPT ![c] = st] /\ signed' = [signed EXCEPT ![k] = n]
        /\ n > m /\ k \in DOMAIN users[call[c].user].passkeys
    BY DEF ValidatePasskeyLogin
  <1>2. signed \in Counters /\ signed[k] \in Nat /\ k \in Nat /\ \A x \in DOMAIN signed : x <= fresh
    BY CounterIs DEF Tables
  <1>3. users[call[c].user].passkeys \in Counters /\ call[c] \in CallStates
    BY CallOf DEF Rows
  <1>4. m \in Nat /\ n \in Nat
    BY <1>1, <1>2, <1>3, CounterIs
  <1> HIDE DEF m, n
  <1>5. st \in CallStates /\ st.op = "assertion" /\ st.counter = n /\ st.previous = m
    BY <1>2, <1>3, <1>4 DEF CallStates, Operations
  <1>6. st.op \notin Hashing /\ st.op # "setup"
    BY <1>5 DEF Hashing
  <1> HIDE DEF st
  <1>7. CallsKnown'
    BY <1>1, <1>5, <1>6, CallsKept
  <1>8. Draws
    <2>1. signed' \in Counters /\ DOMAIN signed' = DOMAIN signed
      BY <1>1, <1>2, <1>4, CounterSet
    <2> QED
      BY <1>1, <1>2, <2>1, Bounds DEF Draws, Tables, Founded
  <1>9. Clocks' /\ LinksOnce' /\ ChallengesBounded'
    BY <1>1 DEF Clocks, LinksOnce, ChallengesBounded
  <1> QED
    BY <1>1, <1>7, <1>8, <1>9, DrawOnly

LEMMA FinishPasskeyLoginOK ==
  ASSUME IdentityInv, NEW c \in Calls, fresh < MaxFresh, FinishPasskeyLogin(c)
  PROVE  IdentityInv' /\ CounterStep
  <1> USE DEF IdentityInv
  <1> DEFINE u == call[c].user
             p == [users[u].passkeys EXCEPT ![call[c].key] = call[c].counter]
             row == [users[u] EXCEPT !.passkeys = p]
  <1>1. /\ CallsKnown' /\ LinksOnce' /\ Clocks' /\ ChallengesBounded' /\ UNCHANGED <<challenges, signed, spent, owners>>
        /\ call[c].op = "assertion"
    BY CallsDone DEF FinishPasskeyLogin, LinksOnce, Clocks, ChallengesBounded
  <1>2. CASE GetSecurityUser(u) /\ users[u].version = call[c].version /\ UpdatePasskey(users[u], c)
    <2>1. users' = [users EXCEPT ![u] = row] /\ createSession(u, call[c].hash, row, row.totp)
      BY <1>2 DEF FinishPasskeyLogin
    <2>2. /\ u \in Users /\ users[u] \in Rows /\ RowIn(users[u], fresh, DOMAIN signed) /\ users[u].passkeys \in Counters
          /\ call[c].counter \in Nat /\ call[c].previous \in Nat /\ call[c].counter > call[c].previous
          /\ fresh \in Nat /\ call[c].hash \in Nat
      BY <1>1, CallOf DEF Rows, CallsKnown
    <2>3. call[c].key \in DOMAIN users[u].passkeys /\ users[u].passkeys[call[c].key] = call[c].previous /\ users[u].hash # none
      BY <1>2 DEF UpdatePasskey, GetSecurityUser, exists
    <2> HIDE DEF u
    <2>4. /\ p \in Counters /\ DOMAIN p = DOMAIN users[u].passkeys /\ p[call[c].key] = call[c].counter
          /\ \A x \in DOMAIN users[u].passkeys \ {call[c].key} : p[x] = users[u].passkeys[x]
      BY <2>2, <2>3, CounterSet
    <2> HIDE DEF p
    <2>5. /\ row \in Rows /\ row.hash = users[u].hash /\ row.enabled = users[u].enabled /\ row.totp = users[u].totp
          /\ row.step = users[u].step /\ row.codes = users[u].codes /\ row.passkeys = p
      BY <2>2, <2>4, PasskeyRow
    <2> HIDE DEF row
    <2>6. After(users[u], row)
      <3>1. \A x \in DOMAIN users[u].passkeys : users[u].passkeys[x] \in Nat
        BY <2>2, CounterIs
      <3>2. \A x \in DOMAIN users[u].passkeys : p[x] >= users[u].passkeys[x]
        BY <2>2, <2>3, <2>4, <3>1
      <3>3. users[u].step \in Int
        BY <2>2 DEF Rows
      <3> QED
        BY <2>5, <3>2, <3>3 DEF After
    <2>7. fresh' = fresh + 1
      BY <2>1 DEF createSession
    <2>8. RowIn(row, fresh', DOMAIN signed')
      <3>1. RowIn(row, fresh, DOMAIN signed)
        BY <2>2, <2>4, <2>5 DEF RowIn
      <3> QED
        BY <1>1, <2>2, <2>7, <3>1, RowInMore
    <2>9. Draws
      BY <1>1, <2>7, OneDraw
    <2>10. Moves /\ users'[u] = row /\ \A v \in Users \ {u} : users'[v] = users[v]
      BY <2>1, <2>2, <2>6, <2>8, <2>9, OneRow
    <2>11. SessionsOpen'
      <3>1. Keeps(users[u], row) /\ row.totp \in Nat /\ row.hash # none
        BY <2>2, <2>3, <2>5 DEF Keeps, Rows
      <3> QED
        BY <2>1, <2>2, <2>5, <2>10, <3>1, SessionIssued
    <2>12. NewChallenges(0)
      BY <1>1 DEF NewChallenges
    <2> QED
      BY <1>1, <2>10, <2>11, <2>12, TablesKept, SecretsKept, SpentKept, OwnerKept
  <1>3. CASE UNCHANGED <<users, sessions, fresh>>
    BY <1>1, <1>3, NoUsersChange
  <1> QED
    BY <1>2, <1>3 DEF FinishPasskeyLogin

LEMMA FinishPasskeyRegistrationOK ==
  ASSUME IdentityInv, NEW c \in Calls, fresh < MaxFresh, FinishPasskeyRegistration(c)
  PROVE  IdentityInv' /\ CounterStep
  <1> USE DEF IdentityInv
  <1> DEFINE u == call[c].user
             k == fresh + 1
             q == users[u].passkeys
             p == [x \in DOMAIN q \cup {k} |-> IF x = k THEN 0 ELSE q[x]]
             row == [users[u] EXCEPT !.passkeys = p]
  <1>1. /\ CallsKnown' /\ LinksOnce' /\ Clocks' /\ UNCHANGED <<spent, owners>> /\ fresh' = k
        /\ signed' = [x \in DOMAIN signed \cup {k} |-> IF x = k THEN 0 ELSE signed[x]]
    BY CallsDone DEF FinishPasskeyRegistration, LinksOnce, Clocks
  <1>2. securityChanged(row, u, call[c].session)
    BY DEF FinishPasskeyRegistration
  <1>3. /\ u \in Users /\ users[u] \in Rows /\ RowIn(users[u], fresh, DOMAIN signed) /\ q \in Counters
        /\ signed \in Counters /\ k \in Nat /\ fresh \in Nat /\ MaxFresh \in Nat
        /\ \A x \in DOMAIN signed : x \in Nat /\ x <= fresh
    BY CallOf, CounterIs DEF Rows, Tables
  <1>4. signed' \in Counters /\ DOMAIN signed' = DOMAIN signed \cup {k}
    BY <1>1, <1>3, CounterNew
  <1>5. DOMAIN q \subseteq DOMAIN signed /\ k \notin DOMAIN q
    BY <1>3 DEF RowIn
  <1> HIDE DEF u
  <1> HIDE DEF q, k
  <1>6. p \in Counters /\ DOMAIN p = DOMAIN q \cup {k} /\ \A x \in DOMAIN q : p[x] = q[x] /\ q[x] \in Nat
    <2>1. p \in Counters /\ DOMAIN p = DOMAIN q \cup {k} /\ \A x \in DOMAIN q \ {k} : p[x] = q[x]
      BY <1>3, CounterNew
    <2>2. \A x \in DOMAIN q : q[x] \in Nat
      BY <1>3, CounterIs
    <2> QED
      BY <1>5, <2>1, <2>2
  <1> USE DEF q, k
  <1> HIDE DEF p
  <1>7. /\ row \in Rows /\ row.hash = users[u].hash /\ row.enabled = users[u].enabled /\ row.totp = users[u].totp
        /\ row.step = users[u].step /\ row.codes = users[u].codes /\ row.passkeys = p
    BY <1>3, <1>6, PasskeyRow
  <1> HIDE DEF row
  <1>8. After(users[u], row)
    <2>1. users[u].step \in Int
      BY <1>3 DEF Rows
    <2> QED
      BY <1>6, <1>7, <2>1 DEF After
  <1>9. RowIn(row, fresh', DOMAIN signed')
    <2>1. row.hash <= fresh' /\ row.totp <= fresh' /\ row.step \in -1..(MaxNow + 1)
      BY <1>1, <1>3, <1>7 DEF RowIn, Rows
    <2>2. \A code \in row.codes : code.of \in 1..fresh' /\ code.of # row.totp
      BY <1>1, <1>3, <1>7 DEF RowIn
    <2> QED
      BY <1>4, <1>5, <1>6, <1>7, <2>1, <2>2 DEF RowIn
  <1>10. Draws
    BY <1>1, <1>3, <1>4 DEF Draws, Tables
  <1>11. Moves /\ SessionsOpen' /\ ChallengesBounded' /\ NewChallenges(0)
    BY <1>2, <1>3, <1>7, <1>8, <1>9, <1>10, SecurityKept
  <1> QED
    BY <1>1, <1>11, TablesKept, SecretsKept, SpentKept, OwnerKept

-----------------------------------------------------------------------------
(* Theorems.                                                                  *)

LEMMA InitFresh ==
  ASSUME IdentityInit, freshInstall
  PROVE  IdentityInv
  <1> DEFINE empty == [k \in {} |-> 0]
  <1>1. /\ users = [u \in Users |-> Absent] /\ sessions = {} /\ signed = empty /\ fresh = 7 /\ now = 0 /\ challenges = {}
        /\ invitations = {} /\ call = [c \in Calls |-> Idle] /\ failures = [u \in Users |-> NoWindow] /\ spent = <<>>
        /\ owners = IF exists(Admin) THEN 1 ELSE 0
    BY DEF IdentityInit, freshInstall, Founded
  <1>2. empty \in Counters /\ DOMAIN empty = {}
    BY NoPasskeys
  <1> HIDE DEF empty
  <1>3. Tables
    <2>1. -1 \in -1..(MaxNow + 1)
      BY Bounds
    <2>2. RowIn(Absent, 7, {})
      BY <2>1, AbsentRow DEF RowIn, none
    <2> QED
      BY <1>1, <1>2, <2>2, AbsentRow, Bounds DEF Tables, Founded
  <1>4. Clocks
    BY <1>1, Bounds DEF Clocks, NoWindow, Windows
  <1>5. SessionsOpen /\ ChallengesBounded /\ SecretsWaiting
    BY <1>1, FS_EmptySet, Bounds DEF SessionsOpen, SessionsCurrent, FactorShown, ChallengesBounded, SecretsWaiting
  <1>6. SpentPast
    BY <1>1 DEF SpentPast, CodeSpentOnce, IsInjective
  <1>7. CallsKnown
    <2>1. hashing = {}
      BY <1>1, IdleState DEF hashing
    <2> QED
      BY <1>1, <2>1, IdleState, FS_EmptySet, Bounds DEF CallsKnown
  <1>8. OwnerOnce /\ LinksOnce
    <2>1. owners \in 0..1 /\ (~exists(Admin) => owners = 0)
      <3>1. (exists(Admin) => owners = 1) /\ (~exists(Admin) => owners = 0)
        BY <1>1, Zenon
      <3>2. owners \in {0, 1}
        BY <3>1
      <3>3. {0, 1} \subseteq 0..1
        OBVIOUS
      <3> QED
        BY <3>1, <3>2, <3>3, Zenon
    <2>2. LinksOnce
      BY <1>1 DEF LinksOnce
    <2> QED
      BY <2>1, <2>2 DEF OwnerOnce
  <1> QED
    BY <1>3, <1>4, <1>5, <1>6, <1>7, <1>8 DEF IdentityInv

LEMMA InitInUse ==
  ASSUME IdentityInit, inUse
  PROVE  IdentityInv
  <1> DEFINE p == [k \in {5} |-> 0]
             owner == [Absent EXCEPT !.hash = 1]
             member == [Absent EXCEPT !.hash = 2, !.totp = 3, !.step = 0, !.version = 1, !.codes = batch(4), !.passkeys = p]
             a == [id |-> 6, user |-> Admin, expires |-> SessionTTL, hash |-> 1, factor |-> none]
  <1>1. PICK m \in Members :
          /\ users = [u \in Users |-> IF u = Admin THEN owner ELSE IF u # m THEN Absent ELSE member]
          /\ sessions = {a, [id |-> 7, user |-> m, expires |-> SessionTTL, hash |-> 2, factor |-> 3]}
          /\ signed = p
    BY DEF inUse
  <1> DEFINE b == [id |-> 7, user |-> m, expires |-> SessionTTL, hash |-> 2, factor |-> 3]
  <1>2. m \in Users /\ m # Admin
    BY DEF Members
  <1>3. /\ fresh = 7 /\ now = 0 /\ challenges = {} /\ invitations = {} /\ call = [c \in Calls |-> Idle]
        /\ failures = [u \in Users |-> NoWindow] /\ spent = <<>> /\ owners = IF exists(Admin) THEN 1 ELSE 0
    BY DEF IdentityInit, Founded
  <1>4. p \in Counters /\ DOMAIN p = {5}
    <2>1. p \in [{5} -> Nat] /\ {5} \subseteq Nat
      OBVIOUS
    <2> HIDE DEF p
    <2> QED
      BY <2>1, IsCounter
  <1> HIDE DEF p
  <1>5. batch(4) \in SUBSET CodeSet /\ \A x \in batch(4) : x.of = 4
    BY BatchIs
  <1>6. RowIn(owner, 7, {5}) /\ owner.hash = 1 /\ owner.enabled /\ owner.totp = none
    <2>1. /\ owner \in Rows /\ owner.hash = 1 /\ owner.enabled = TRUE /\ owner.totp = none /\ owner.step = -1
          /\ owner.codes = {} /\ DOMAIN owner.passkeys = {}
      BY NewRow
    <2> HIDE DEF owner
    <2> QED
      BY <2>1, Bounds DEF RowIn, none
  <1>7. RowIn(member, 7, {5}) /\ member.hash = 2 /\ member.enabled /\ member.totp = 3
    <2> DEFINE z == batch(4)
               e == [k \in {} |-> 0]
               row == [hash |-> 2, enabled |-> TRUE, totp |-> 3, step |-> 0, version |-> 1, codes |-> z, passkeys |-> p]
    <2>1. z \in SUBSET CodeSet
      BY <1>5
    <2>2. /\ member = [Absent EXCEPT !.hash = 2, !.totp = 3, !.step = 0, !.version = 1, !.codes = z, !.passkeys = p]
          /\ Absent = [hash |-> none, enabled |-> TRUE, totp |-> none, step |-> -1, version |-> 0, codes |-> {}, passkeys |-> e]
      BY DEF Absent
    <2> HIDE DEF z, e, member, a, b, owner
    <2>3. member = row
      BY ONLY <2>2
    <2>3a. /\ member \in Rows /\ member.hash = 2 /\ member.enabled = TRUE /\ member.totp = 3 /\ member.step = 0
           /\ member.codes = z /\ member.passkeys = p
      BY <1>4, <2>1, <2>3 DEF Rows
    <2>4. 0 \in -1..(MaxNow + 1)
      BY Bounds
    <2>5. \A x \in z : x.of \in 1..7 /\ x.of # 3
      BY <1>5 DEF z
    <2> QED
      BY <1>4, <2>3a, <2>4, <2>5 DEF RowIn
  <1> HIDE DEF owner, member
  <1>8. RowIn(Absent, 7, {5})
    <2>1. -1 \in -1..(MaxNow + 1)
      BY Bounds
    <2> QED
      BY <2>1, AbsentRow DEF RowIn, none
  <1>9. Tables
    <2>1. \A u \in Users : RowIn(users[u], 7, {5}) /\ users[u] \in Rows
      BY <1>1, <1>6, <1>7, <1>8 DEF RowIn
    <2>2. users \in [Users -> Rows]
      BY <1>1, <2>1
    <2> QED
      BY <1>1, <1>3, <1>4, <2>1, <2>2, Bounds DEF Tables, Founded
  <1>10. Clocks
    BY <1>3, Bounds DEF Clocks, NoWindow, Windows
  <1>11. SessionsOpen
    <2>1. a \in SessionRows /\ a.user = Admin /\ a.hash = 1 /\ a.factor = none
      BY Bounds DEF SessionRows, none
    <2>2. b \in SessionRows /\ b.user = m /\ b.hash = 2 /\ b.factor = 3
      BY <1>2, Bounds DEF SessionRows
    <2>3. sessions = {a, b}
      BY <1>1
    <2> HIDE DEF a, b
    <2>4. users[Admin] = owner /\ users[m] = member
      BY <1>1, <1>2, Bounds
    <2> QED
      BY <1>6, <1>7, <2>1, <2>2, <2>3, <2>4 DEF SessionsOpen, SessionsCurrent, FactorShown, exists, none
  <1>12. ChallengesBounded /\ SecretsWaiting
    BY <1>3, FS_EmptySet, Bounds DEF ChallengesBounded, SecretsWaiting
  <1>13. SpentPast
    BY <1>3 DEF SpentPast, CodeSpentOnce, IsInjective
  <1>14. CallsKnown
    <2>1. hashing = {}
      BY <1>3, IdleState DEF hashing
    <2> QED
      BY <1>3, <2>1, IdleState, FS_EmptySet, Bounds DEF CallsKnown
  <1>15. OwnerOnce /\ LinksOnce
    <2>1. owners \in 0..1 /\ (~exists(Admin) => owners = 0)
      <3>1. (exists(Admin) => owners = 1) /\ (~exists(Admin) => owners = 0)
        BY <1>3, Zenon
      <3>2. owners \in {0, 1}
        BY <3>1
      <3>3. {0, 1} \subseteq 0..1
        OBVIOUS
      <3> QED
        BY <3>1, <3>2, <3>3, Zenon
    <2>2. LinksOnce
      BY <1>3 DEF LinksOnce
    <2> QED
      BY <2>1, <2>2 DEF OwnerOnce
  <1> QED
    BY <1>9, <1>10, <1>11, <1>12, <1>13, <1>14, <1>15 DEF IdentityInv

\* One step of the specification: each action keeps the invariant and moves no counter back.
LEMMA StepOK ==
  ASSUME IdentityInv, IdentityNext
  PROVE  IdentityInv' /\ CounterStep
  <1>1. CASE fresh + 2 <= MaxFresh /\ issues
    <2>1. fresh < MaxFresh
      BY <1>1, Bounds DEF IdentityInv, Tables, Founded
    <2>2. ASSUME NEW c \in Calls,
                 \/ setupCommits(c) \/ memberCommits(c) \/ invitedCommits(c) \/ replacePassword(c)
                 \/ saveChallenge(c) \/ FinishPasskeyLogin(c) \/ FinishPasskeyRegistration(c)
          PROVE  IdentityInv' /\ CounterStep
      BY <2>1, <2>2, SetupOK, MemberOK, InvitedOK, ReplacePasswordOK, SaveChallengeOK, FinishPasskeyLoginOK,
         FinishPasskeyRegistrationOK
    <2>3. ASSUME NEW c \in Calls, NEW code \in Codes(call[c].user),
                 loginCommits(c, code) \/ BeginTOTP(c, code) \/ RegenerateRecoveryCodes(c, code)
          PROVE  IdentityInv' /\ CounterStep
      BY <1>1, <2>1, <2>3, LoginOK, BeginTOTPOK, RegenerateOK
    <2>4. ASSUME NEW s \in sessions, NEW ch \in challenges, NEW n \in (now - 1)..(now + 1),
                 EnableTOTP(s, ch, [of |-> ch.secret, n |-> n])
          PROVE  IdentityInv' /\ CounterStep
      BY <2>1, <2>4, EnableTOTPOK
    <2>5. CASE CreateInvitation \/ BeginPasskeyLogin
      BY <2>1, <2>5, CreateInvitationOK, BeginPasskeyLoginOK
    <2> QED
      BY <1>1, <2>2, <2>3, <2>4, <2>5 DEF issues
  <1>2. ASSUME NEW c \in Calls, starts(c)
        PROVE  IdentityInv' /\ CounterStep
    BY <1>2, StartsOK, CeremoniesOK DEF starts
  <1>3. ASSUME NEW c \in Calls, continues(c)
        PROVE  IdentityInv' /\ CounterStep
    BY <1>3, CeremoniesOK, RefusedFactorOK, ValidatePasskeyLoginOK, DisableTOTPOK, BeginPasskeyRegistrationOK,
       DeletePasskeyOK DEF continues
  <1>4. ASSUME NEW s \in sessions, Revoke(s) \/ \E ch \in challenges : enableRejected(s, ch)
        PROVE  IdentityInv' /\ CounterStep
    BY <1>4, PlainStepsOK, EnableRejectedOK
  <1>5. ASSUME NEW u \in Users, NEW enabled \in BOOLEAN, SetMemberEnabled(u, enabled)
        PROVE  IdentityInv' /\ CounterStep
    BY <1>5, SetMemberEnabledOK
  <1>6. CASE Suspend \/ Tick
    BY <1>6, PlainStepsOK
  <1> QED
    BY <1>1, <1>2, <1>3, <1>4, <1>5, <1>6 DEF IdentityNext

LEMMA StutterOK ==
  ASSUME IdentityInv, UNCHANGED identityVars
  PROVE  IdentityInv'
  <1>1. CallsKnown' /\ Clocks' /\ LinksOnce' /\ ChallengesBounded'
    BY DEF IdentityInv, identityVars, CallsKnown, hashing, Clocks, LinksOnce, ChallengesBounded
  <1> QED
    BY <1>1, NoUsersChange DEF identityVars

\* What the lemmas say of one step holds of every state of every behaviour.
THEOREM IdentityInvariance == IdentitySpec => []IdentityInv
  <1>1. IdentityInit => IdentityInv
    BY InitFresh, InitInUse DEF IdentityInit
  <1>2. IdentityInv /\ [IdentityNext]_identityVars => IdentityInv'
    BY StepOK, StutterOK
  <1> QED
    BY <1>1, <1>2, PTL DEF IdentitySpec

LEMMA TypesHold == ASSUME IdentityInv PROVE IdentityTypeOK
  <1> USE DEF IdentityInv
  <1>1. ASSUME NEW u \in Users
        PROVE  /\ users[u].hash \in 0..MaxFresh /\ users[u].enabled \in BOOLEAN
               /\ users[u].totp \in 0..MaxFresh /\ users[u].version \in Nat
               /\ users[u].step \in -1..(MaxNow + 1)
               /\ DOMAIN users[u].passkeys \subseteq DOMAIN signed
               /\ failures[u].count \in 0..FactorBudget
    <2>1. users[u] \in Rows /\ RowIn(users[u], fresh, DOMAIN signed) /\ failures[u] \in Windows /\ fresh \in Founded..MaxFresh
      BY DEF Tables, Clocks
    <2>2. users[u].hash \in Nat /\ users[u].totp \in Nat /\ users[u].version \in Nat /\ users[u].enabled \in BOOLEAN
      BY <2>1 DEF Rows
    <2> QED
      BY <2>1, <2>2, Bounds DEF RowIn, Windows, Founded
  <1>2. \A s \in sessions : s.user \in Users /\ exists(s.user)
    BY DEF SessionsOpen, SessionRows
  <1> QED
    BY <1>1, <1>2 DEF IdentityTypeOK, ChallengesBounded, Tables, Clocks, CallsKnown

\* No session outlives the password, the enabled account or the second factor it was opened under, in any
\* number of accounts and calls: createSession rechecks the row, and every write to it ends the sessions.
THEOREM SessionsAreSound == IdentitySpec => []SessionsSound
  <1>1. IdentityInv => SessionsSound
    BY TypesHold DEF IdentityInv, SessionsSound, SessionsOpen
  <1> QED
    BY <1>1, IdentityInvariance, PTL

\* A code, a link and the first setup each count once: an accepted code is one its row accepts no more, in
\* this batch or secret or in any that follows (AdvanceTOTPStep, ConsumeRecoveryCode, ConsumeInvitation).
THEOREM UsesAreOnce == IdentitySpec => []UsedOnce
  <1>1. ASSUME IdentityInv
        PROVE  UsedOnce
    <2>1. ASSUME NEW i \in invitations
          PROVE  Cardinality(i.admitted) <= 1
      <3>1. CASE i.admitted = {}
        BY <3>1, FS_EmptySet
      <3>2. ASSUME NEW u \in Users, i.admitted = {u}
            PROVE  Cardinality(i.admitted) <= 1
        BY <3>2, FS_Singleton
      <3> QED
        BY <1>1, <3>1, <3>2 DEF IdentityInv, LinksOnce
    <2>2. OneOwner
      BY <1>1 DEF IdentityInv, OwnerOnce, OneOwner
    <2> QED
      BY <1>1, <2>1, <2>2 DEF UsedOnce, InvitationUsedOnce, IdentityInv, SpentPast
  <1> QED
    BY <1>1, IdentityInvariance, PTL

\* A call that is changed in a step is the one that acts in it.
LEMMA Acting ==
  ASSUME IdentityInv, IdentityNext, NEW c \in Calls, call'[c] # call[c],
         call[c].op \in {"setup", "login", "assertion", "proof", "ceremony", "enrol", "replace"}
  PROVE  \/ setupCommits(c) \/ replacePassword(c) \/ FinishPasskeyLogin(c)
         \/ saveChallenge(c) \/ FinishPasskeyRegistration(c)
         \/ callRefused(c) \/ factorRejected(c) \/ commitFails(c) \/ ceremonyFails(c)
         \/ \E code \in Codes(call[c].user) :
              \/ loginCommits(c, code) \/ BeginTOTP(c, code) \/ DisableTOTP(c, code)
              \/ RegenerateRecoveryCodes(c, code) \/ BeginPasskeyRegistration(c, code)
              \/ \E k : DeletePasskey(c, code, k)
  <1>1. /\ call \in [Calls -> CallStates] /\ Idle.op = "idle" /\ call[c] # Idle
        /\ call[c].op \notin {"idle", "member", "invited", "taken", "found"}
    BY IdleState DEF IdentityInv, CallsKnown
  <1>2. call' # call
    OBVIOUS
  <1>3. ASSUME NEW d \in Calls, NEW state, call' = [call EXCEPT ![d] = state]
        PROVE  d = c
    BY <1>1, <1>3
  <1>4. ASSUME NEW d \in Calls, done(d)
        PROVE  d = c
    BY <1>3, <1>4 DEF done
  <1>5. ASSUME NEW d \in Calls, NEW state, begin(d, state) \/ resume(d, state)
        PROVE  FALSE
    <2>1. call[d] = Idle /\ call' = [call EXCEPT ![d] = state]
      BY <1>5 DEF begin, resume
    <2> QED
      BY <1>1, <1>3, <2>1
  <1>6. CASE issues
    <2>1. ASSUME NEW d \in Calls,
                 \/ setupCommits(d) \/ memberCommits(d) \/ invitedCommits(d) \/ replacePassword(d)
                 \/ saveChallenge(d) \/ FinishPasskeyLogin(d) \/ FinishPasskeyRegistration(d)
          PROVE  \/ setupCommits(c) \/ replacePassword(c) \/ FinishPasskeyLogin(c) \/ saveChallenge(c)
                 \/ FinishPasskeyRegistration(c)
      <3>1. done(d) /\ (memberCommits(d) => call[d].op = "member") /\ (invitedCommits(d) => call[d].op = "invited")
        BY <2>1, Zenon DEF setupCommits, memberCommits, invitedCommits, replacePassword, saveChallenge, FinishPasskeyLogin,
           FinishPasskeyRegistration
      <3> QED
        BY <1>1, <1>4, <2>1, <3>1
    <2>2. ASSUME NEW d \in Calls, NEW code \in Codes(call[d].user),
                 loginCommits(d, code) \/ BeginTOTP(d, code) \/ RegenerateRecoveryCodes(d, code)
          PROVE  d = c
      BY <1>4, <2>2 DEF loginCommits, BeginTOTP, RegenerateRecoveryCodes
    <2>3. ASSUME \/ \E s \in sessions, ch \in challenges : \E n \in (now - 1)..(now + 1) :
                      EnableTOTP(s, ch, [of |-> ch.secret, n |-> n])
                 \/ CreateInvitation \/ BeginPasskeyLogin
          PROVE  call' = call
      BY <2>3, Zenon DEF EnableTOTP, CreateInvitation, BeginPasskeyLogin
    <2> QED
      BY <1>2, <1>6, <2>1, <2>2, <2>3, Zenon DEF issues
  <1>7. ASSUME NEW d \in Calls, starts(d)
        PROVE  FALSE
    BY <1>5, <1>7, Zenon DEF starts, Setup, CreateMemberForTenant, LoginWithCode, ChangePassword, resetPassword,
       RegisterInvitation, withProof, takeRegistration, takeLogin
  <1>8. ASSUME NEW d \in Calls, continues(d)
        PROVE  \/ callRefused(c) \/ factorRejected(c) \/ commitFails(c) \/ ceremonyFails(c)
               \/ \E code \in Codes(call[c].user) :
                    DisableTOTP(c, code) \/ BeginPasskeyRegistration(c, code) \/ \E k : DeletePasskey(c, code, k)
    <2>1. CASE callRefused(d) \/ factorRejected(d) \/ commitFails(d) \/ ceremonyFails(d)
      <3>1. done(d)
        BY <2>1, Zenon DEF callRefused, factorRejected, commitFails, ceremonyFails
      <3> QED
        BY <1>1, <1>4, <2>1, <3>1
    <2>2. ASSUME NEW u \in Users, passkeyUser(d, u)
          PROVE  FALSE
      <3>1. call[d].op = "taken" /\ d = c
        BY <1>3, <2>2 DEF passkeyUser
      <3> QED
        BY <1>1, <3>1
    <2>3. ASSUME NEW k \in DOMAIN signed, ValidatePasskeyLogin(d, k)
          PROVE  FALSE
      <3>1. call[d].op = "found" /\ d = c
        BY <1>3, <2>3 DEF ValidatePasskeyLogin
      <3> QED
        BY <1>1, <3>1
    <2>4. ASSUME NEW code \in Codes(call[d].user), DisableTOTP(d, code) \/ \E k \in DOMAIN signed : DeletePasskey(d, code, k)
          PROVE  d = c
      BY <1>4, <2>4 DEF DisableTOTP, DeletePasskey
    <2>5. ASSUME NEW code \in Codes(call[d].user), BeginPasskeyRegistration(d, code)
          PROVE  d = c
      <3> DEFINE st == [call[d] EXCEPT !.op = "ceremony"]
      <3>1. call' = [call EXCEPT ![d] = st]
        BY <2>5 DEF BeginPasskeyRegistration
      <3> HIDE DEF st
      <3> QED
        BY <1>3, <3>1
    <2> QED
      BY <1>8, <2>1, <2>2, <2>3, <2>4, <2>5, Zenon DEF continues
  <1>9. ASSUME \/ \E s \in sessions : Revoke(s) \/ \E ch \in challenges : enableRejected(s, ch)
               \/ \E u \in Users, enabled \in BOOLEAN : SetMemberEnabled(u, enabled)
               \/ Suspend \/ Tick
        PROVE  FALSE
    BY <1>2, <1>9, Zenon DEF Revoke, enableRejected, SetMemberEnabled, Suspend, Tick
  <1> QED
    BY <1>6, <1>7, <1>8, <1>9, Zenon DEF IdentityNext

LEMMA SessionThere ==
  ASSUME NEW u, NEW hash, NEW row, NEW opened, createSession(u, hash, row, opened)
  PROVE  \E s \in sessions' : s.id = fresh' /\ s.user = u
  <1> DEFINE s == [id |-> fresh + 1, user |-> u, expires |-> now + SessionTTL, hash |-> hash, factor |-> opened]
             unexpired == {o \in sessions : o.expires > now}
  <1>1. sessions' = TrimSessions(unexpired \cup {s}, u, s.id) /\ fresh' = fresh + 1
    BY DEF createSession
  <1>2. s.id = fresh' /\ s.user = u
    BY <1>1
  <1> HIDE DEF s
  <1>3. s \in sessions'
    BY <1>1 DEF TrimSessions
  <1> QED
    BY <1>2, <1>3

LEMMA NewSessionStays ==
  ASSUME IdentityInv, IdentityNext, NEW c \in Calls, call[c].op \in {"login", "assertion", "setup"}, fresh' # fresh,
         call'[c].op = "idle"
  PROVE  \E s \in sessions' : s.id = fresh' /\ s.user = call[c].user
  <1>1. /\ call[c].op \notin {"proof", "replace", "ceremony", "enrol", "taken", "found"} /\ call'[c] # call[c]
        /\ call[c].op \in {"setup", "login", "assertion", "proof", "ceremony", "enrol", "replace"}
    OBVIOUS
  <1>2. CASE setupCommits(c)
    <2>1. createSession(Admin, fresh + 1, users'[Admin], none) /\ call[c].op = "setup"
      BY <1>2 DEF setupCommits
    <2>2. call[c].user = Admin
      BY <2>1 DEF IdentityInv, CallsKnown
    <2> QED
      BY <2>1, <2>2, SessionThere
  <1>3. CASE FinishPasskeyLogin(c)
    <2> DEFINE u == call[c].user
               row == [users[u] EXCEPT !.passkeys = [@ EXCEPT ![call[c].key] = call[c].counter]]
    <2>1. createSession(u, call[c].hash, row, row.totp)
      BY <1>3 DEF FinishPasskeyLogin
    <2> HIDE DEF row
    <2> QED
      BY <2>1, SessionThere
  <1>4. ASSUME NEW code \in Codes(call[c].user), loginCommits(c, code)
        PROVE  \E s \in sessions' : s.id = fresh' /\ s.user = call[c].user
    <2>1. createSession(call[c].user, call[c].hash, consumed(users[call[c].user], code), consumed(users[call[c].user], code).totp)
      BY <1>4 DEF loginCommits
    <2> QED
      BY <2>1, SessionThere
  <1>5. /\ ~replacePassword(c) /\ ~saveChallenge(c) /\ ~FinishPasskeyRegistration(c)
        /\ ~callRefused(c) /\ ~factorRejected(c) /\ ~commitFails(c) /\ ~ceremonyFails(c)
    BY <1>1 DEF replacePassword, saveChallenge, FinishPasskeyRegistration, callRefused, factorRejected, commitFails,
                ceremonyFails, untouched
  <1>6. ASSUME NEW code, \/ BeginTOTP(c, code) \/ DisableTOTP(c, code) \/ RegenerateRecoveryCodes(c, code)
                         \/ BeginPasskeyRegistration(c, code) \/ \E k : DeletePasskey(c, code, k)
        PROVE  FALSE
    BY <1>1, <1>6 DEF BeginTOTP, DisableTOTP, RegenerateRecoveryCodes, BeginPasskeyRegistration, DeletePasskey, proved
  <1> QED
    BY <1>1, <1>2, <1>3, <1>4, <1>5, <1>6, Acting

\* A change finds the account as its call had read it: each transaction asks for it, or writes nothing.
LEMMA ChangeIsCurrent ==
  ASSUME IdentityInv, IdentityNext, NEW c \in Calls,
         call[c].op \in {"login", "proof", "ceremony", "enrol", "assertion", "replace"}, call'[c] # call[c],
         <<users', sessions', challenges'>> # <<users, sessions, challenges>>
  PROVE  standsAsRead(c)
  <1> USE DEF standsAsRead
  <1>1. /\ call[c].op # "setup"
        /\ call[c].op \in {"setup", "login", "assertion", "proof", "ceremony", "enrol", "replace"}
    OBVIOUS
  <1>2. CASE replacePassword(c)
    <2>1. call[c].op = "replace" /\ ReplacePassword(c)
      BY <1>2 DEF replacePassword
    <2> QED
      BY <2>1 DEF ReplacePassword
  <1>3. CASE FinishPasskeyLogin(c)
    <2>1. /\ call[c].op = "assertion" /\ GetSecurityUser(call[c].user)
          /\ users[call[c].user].version = call[c].version
      BY <1>3, Zenon DEF FinishPasskeyLogin
    <2> QED
      BY <2>1 DEF GetSecurityUser
  <1>4. CASE saveChallenge(c)
    <2>1. call[c].op = "ceremony" /\ users[call[c].user].version = call[c].version
      BY <1>4, Zenon DEF saveChallenge
    <2> QED
      BY <2>1
  <1>5. CASE FinishPasskeyRegistration(c)
    <2>1. call[c].op = "enrol" /\ users[call[c].user].version = call[c].version
      BY <1>5, Zenon DEF FinishPasskeyRegistration
    <2> QED
      BY <2>1
  <1>6. ~callRefused(c) /\ ~factorRejected(c) /\ ~commitFails(c) /\ ~ceremonyFails(c)
    BY DEF callRefused, factorRejected, commitFails, ceremonyFails, untouched
  <1>7. ASSUME unchangedSince(call[c].user, c), call[c].op \in {"login", "proof"}
        PROVE  standsAsRead(c)
    BY <1>7 DEF unchangedSince, GetSecurityUser
  <1>8. ASSUME NEW code, loginCommits(c, code)
        PROVE  standsAsRead(c)
    <2>1. unchangedSince(call[c].user, c) /\ call[c].op = "login"
      BY <1>8, Zenon DEF loginCommits
    <2> QED
      BY <1>7, <2>1
  <1>9. ASSUME NEW code, \/ BeginTOTP(c, code) \/ DisableTOTP(c, code) \/ RegenerateRecoveryCodes(c, code)
                         \/ BeginPasskeyRegistration(c, code) \/ \E k : DeletePasskey(c, code, k)
        PROVE  standsAsRead(c)
    <2>1. proved(c, code)
      BY <1>9, Zenon DEF BeginTOTP, DisableTOTP, RegenerateRecoveryCodes, BeginPasskeyRegistration, DeletePasskey
    <2>2. unchangedSince(call[c].user, c) /\ call[c].op = "proof"
      BY <2>1, Zenon DEF proved
    <2> QED
      BY <1>7, <2>2
  <1>10. ~setupCommits(c)
    BY <1>1 DEF setupCommits
  <1> HIDE DEF standsAsRead
  <1> QED
    BY <1>1, <1>2, <1>3, <1>4, <1>5, <1>6, <1>8, <1>9, <1>10, Acting

\* What was verified before a transaction still stands when it commits: a login and a change of the password
\* or of the factors run on the password, the version and the account they were verified against, a passkey's
\* counter never goes back, and the session that a login issues is in the table it leaves (withProof,
\* LoginWithCode, replacePassword, UpdatePasskey, TrimSessions).
THEOREM ChangesAreInOrder == IdentitySpec => ChangesInOrder
  <1>1. IdentityInv /\ [IdentityNext]_identityVars
        => [\A c \in Calls :
              /\ call[c].op \in {"login", "proof", "ceremony", "enrol", "assertion", "replace"} /\ call'[c] # call[c]
              /\ <<users', sessions', challenges'>> # <<users, sessions, challenges>>
              => standsAsRead(c)]_identityVars
    BY ChangeIsCurrent
  <1>2. IdentityInv /\ [IdentityNext]_identityVars
        => [\A u \in Users : \A k \in DOMAIN users[u].passkeys \cap DOMAIN users'[u].passkeys :
              users'[u].passkeys[k] >= users[u].passkeys[k]]_identityVars
    BY StepOK DEF CounterStep
  <1>3. IdentityInv /\ [IdentityNext]_identityVars
        => [\A c \in Calls : call[c].op \in {"login", "assertion", "setup"} /\ fresh' # fresh /\ call'[c].op = "idle"
              => \E s \in sessions' : s.id = fresh' /\ s.user = call[c].user]_identityVars
    BY NewSessionStays
  <1> QED
    BY <1>1, <1>2, <1>3, IdentityInvariance, PTL DEF IdentitySpec, ChangesInOrder, ChangeNotStale, CounterForward, NewSessionKept
=============================================================================
