-------------------------- MODULE Workspaces_proofs --------------------------
(* Theorems about Workspaces, for any numbers of people, pools, accounts,     *)
(* keys and requests.  The properties follow from what the tables hold        *)
(* (Tables): the founder is the one owner, grants name members, a key that is *)
(* not revoked is of its user's present term and bound to its own pool or to  *)
(* none, and a reserved pool shares no account.  Each transaction keeps it,   *)
(* whatever role the request that runs it had read.                           *)
EXTENDS Workspaces, FiniteSetTheorems, TLAPS

MemberRows == [role : {"none", "owner", "admin", "member"}, enabled : BOOLEAN, removed : BOOLEAN, term : Nat]
GroupRows == [exists : BOOLEAN, enabled : BOOLEAN, subscriptionOnly : BOOLEAN]
KeyRows == [user : People \cup {nobody}, pool : Pools \cup {noPool}, revoked : BOOLEAN, enabled : BOOLEAN,
            expiry : {"never", "later", "past"}, scheme : Pools \cup {noPool}, term : Nat]
SchemeRows == [exists : BOOLEAN, enabled : BOOLEAN, live : BOOLEAN, members : SUBSET People]

MembersKnown ==
  /\ memberships \in [People -> MemberRows]
  /\ \A u \in People : memberships[u].removed => ~memberships[u].enabled

\* A key that is not revoked is of its user's present term.
KeysOfTerm ==
  /\ api_keys \in [Keys -> KeyRows]
  /\ \A k \in Keys : api_keys[k].user # nobody /\ ~api_keys[k].revoked
                       => api_keys[k].term = memberships[api_keys[k].user].term

PoolsKnown ==
  /\ account_groups \in [Pools -> GroupRows] /\ group_accounts \in [Pools -> SUBSET Accounts]
  /\ group_members \subseteq People \X Pools /\ allocation_schemes \in [Pools -> SchemeRows]
  /\ accountState \in [Accounts -> {"ready", "attention", "gone"}]

\* Only someone with an account has a row, or is enabled.
Strangers == \A u \in People \ registered : memberships[u] = NoRow /\ ~userOn[u]

Around ==
  /\ registered \subseteq People /\ Founder \in registered /\ links \in Nat /\ Strangers
  /\ userOn \in [People -> BOOLEAN] /\ owned \in [People -> 0..MaxOwned] /\ suspended \in BOOLEAN

Tables ==
  /\ MembersKnown /\ OwnerKept /\ KeysOfTerm /\ BindingFollowsPool
  /\ PoolsKnown /\ GrantsOfMembers /\ ReservedPoolExclusive /\ Around

busy == {r \in Requests : requests[r] # Free}

\* Each new term was begun by a request of its own.
Counted ==
  /\ requests \in [Requests -> [actor : People \cup {nobody}, admin : BOOLEAN]]
  /\ \A r \in Requests : actor(r) = nobody => requests[r] = Free
  /\ steps \in 0..MaxSteps /\ IsFiniteSet(busy)
  /\ \A u \in People : memberships[u].term + Cardinality(busy) <= steps

WorkspacesInv == Tables /\ Counted

\* What a transaction may do to the members' terms.
TermsStep == \A u \in People : memberships'[u].term <= memberships[u].term + 1

-----------------------------------------------------------------------------
(* Members.                                                                   *)

LEMMA Given ==
  /\ Founder \in People /\ Channels \subseteq Accounts /\ nobody \notin People /\ noPool \notin Pools
  /\ MaxSteps \in Nat /\ MaxOwned \in Nat /\ MaxOwned >= 1
  BY WorkspacesAssumption DEF WorkspacesAssumption

\* What a step keeps that leaves the members' rows alone: their terms, and that terms step.
LEMMA TermsStand ==
  ASSUME Tables, UNCHANGED memberships
  PROVE  MembersKnown' /\ OwnerKept' /\ TermsStep
  <1>1. \A u \in People : memberships[u].term \in Nat
    BY DEF Tables, MembersKnown, MemberRows
  <1> QED
    BY <1>1 DEF Tables, MembersKnown, OwnerKept, TermsStep

\* A step that rewrites one member's row, the term aside, and touches no other table of its kind.
LEMMA MemberRow ==
  ASSUME Tables, NEW u \in People, NEW row \in MemberRows, memberships' = [memberships EXCEPT ![u] = row],
         row.removed => ~row.enabled, row.term = memberships[u].term,
         u # Founder, row.role \in {"admin", "member"}, ~row.removed, Around',
         UNCHANGED <<owned, suspended, account_groups, group_accounts, group_members, accountState,
                     api_keys, allocation_schemes>>
  PROVE  Tables' /\ TermsStep
  <1> USE DEF Tables
  <1>1. memberships' \in [People -> MemberRows] /\ memberships'[u] = row /\ \A v \in People \ {u} : memberships'[v] = memberships[v]
    BY DEF MembersKnown
  <1>2. \A v \in People : memberships[v].term \in Nat /\ memberships'[v].term = memberships[v].term
    BY <1>1 DEF MembersKnown, MemberRows
  <1>3. MembersKnown' /\ OwnerKept'
    BY <1>1, Given DEF MembersKnown, OwnerKept
  <1>4. \A k \in Keys : api_keys[k].user \in People \cup {nobody}
    BY DEF KeysOfTerm, KeyRows
  <1>5. KeysOfTerm' /\ BindingFollowsPool'
    BY <1>2, <1>4 DEF KeysOfTerm, BindingFollowsPool
  <1>6. GrantsOfMembers'
    BY <1>1 DEF GrantsOfMembers, PoolsKnown
  <1>7. PoolsKnown' /\ ReservedPoolExclusive'
    BY DEF PoolsKnown, ReservedPoolExclusive, sharedAccounts, GetPoolAllocation
  <1> QED
    BY <1>2, <1>3, <1>5, <1>6, <1>7 DEF TermsStep

\* The row of someone who has an account is written: nothing else around the workspace changes.
LEMMA RowAround ==
  ASSUME Tables, NEW u \in People, NEW row, memberships' = [memberships EXCEPT ![u] = row],
         u \in registered, UNCHANGED <<userOn, registered, links, owned, suspended>>
  PROVE  Around'
  <1>1. \A v \in People \ registered : memberships'[v] = memberships[v]
    BY DEF Tables, MembersKnown
  <1> QED
    BY <1>1 DEF Tables, Around, Strangers

\* Whoever has a row has an account.
LEMMA KnownMember ==
  ASSUME Tables, NEW u \in People, memberships[u].role # "none" \/ userOn[u]
  PROVE  u \in registered
  BY DEF Tables, Around, Strangers, NoRow

LEMMA AddMemberOK ==
  ASSUME Tables, NEW a, NEW u \in People, NEW role \in {"admin", "member"}, NEW byName \in BOOLEAN, addMember(a, u, role, byName)
  PROVE  Tables' /\ TermsStep
  <1> DEFINE row == [role |-> role, enabled |-> TRUE, removed |-> FALSE, term |-> memberships[u].term]
  <1>1. memberships[u].term \in Nat
    BY DEF Tables, MembersKnown, MemberRows
  <1>2. row \in MemberRows /\ row.role = role /\ row.removed = FALSE /\ row.term = memberships[u].term
    BY <1>1 DEF MemberRows
  <1>3. /\ memberships' = [memberships EXCEPT ![u] = row] /\ u # Founder
        /\ UNCHANGED <<userOn, registered, links, owned, suspended, account_groups, group_accounts, group_members, accountState,
                       api_keys, allocation_schemes>>
    BY DEF addMember, AddTenantMember
  <1>4. u \in registered
    BY KnownMember DEF addMember, AddTenantMember
  <1> HIDE DEF row
  <1>5. Around'
    BY <1>3, <1>4, RowAround
  <1> QED
    BY <1>2, <1>3, <1>5, MemberRow

\* A new account's row, for createMember and registerInvitation.
LEMMA AddNewMemberOK ==
  ASSUME Tables, NEW u \in People, AddNewMember(u), links' \in Nat
  PROVE  Tables' /\ TermsStep
  <1> DEFINE row == [role |-> "member", enabled |-> TRUE, removed |-> FALSE, term |-> memberships[u].term]
  <1>1. memberships[u].term \in Nat /\ u # Founder /\ u \notin registered
    BY DEF Tables, MembersKnown, MemberRows, Around, AddNewMember
  <1>2. row \in MemberRows /\ row.role = "member" /\ row.removed = FALSE /\ row.term = memberships[u].term
    BY <1>1 DEF MemberRows
  <1>3. /\ memberships' = [memberships EXCEPT ![u] = row]
        /\ registered' = registered \cup {u} /\ userOn' = [userOn EXCEPT ![u] = TRUE]
        /\ UNCHANGED <<owned, suspended, account_groups, group_accounts, group_members, accountState,
                       api_keys, allocation_schemes>>
    BY DEF AddNewMember
  <1> HIDE DEF row
  <1>4. \A v \in People \ registered' : memberships'[v] = memberships[v] /\ userOn'[v] = userOn[v]
    BY <1>3 DEF Tables, MembersKnown, Around
  <1>5. Around'
    BY <1>3, <1>4 DEF Tables, Around, Strangers
  <1> QED
    BY <1>1, <1>2, <1>3, <1>5, MemberRow

LEMMA LinksOK ==
  ASSUME Tables, NEW a, issueInvitation(a) \/ linkExpires
  PROVE  Tables' /\ TermsStep
  <1>1. links' \in Nat
    BY DEF Tables, Around, issueInvitation, linkExpires
  <1>2. UNCHANGED <<userOn, registered, owned, suspended, memberships, account_groups, group_accounts,
                    group_members, accountState, api_keys, allocation_schemes>>
    BY DEF issueInvitation, linkExpires
  <1>3. MembersKnown' /\ OwnerKept' /\ TermsStep
    BY <1>2, TermsStand
  <1>4. KeysOfTerm' /\ BindingFollowsPool' /\ GrantsOfMembers' /\ PoolsKnown' /\ ReservedPoolExclusive'
    BY <1>2 DEF Tables, KeysOfTerm, BindingFollowsPool, GrantsOfMembers, PoolsKnown, ReservedPoolExclusive,
                sharedAccounts, GetPoolAllocation
  <1>5. Around'
    BY <1>1, <1>2 DEF Tables, Around, Strangers
  <1> QED
    BY <1>3, <1>4, <1>5 DEF Tables

LEMMA SetMemberRoleOK ==
  ASSUME Tables, NEW a, NEW u \in People, NEW role \in {"admin", "member"}, SetMemberRole(a, u, role)
  PROVE  Tables' /\ TermsStep
  <1> DEFINE row == [memberships[u] EXCEPT !.role = role]
  <1>1. memberships[u] \in MemberRows /\ ~memberships[u].removed /\ u # Founder
    BY DEF Tables, MembersKnown, SetMemberRole, MemberExistsInTenant, OwnerKept
  <1>2. row \in MemberRows /\ row.role = role /\ row.removed = memberships[u].removed /\ row.term = memberships[u].term
    BY <1>1 DEF MemberRows
  <1>3. /\ memberships' = [memberships EXCEPT ![u] = row]
        /\ UNCHANGED <<userOn, registered, links, owned, suspended, account_groups, group_accounts, group_members, accountState,
                       api_keys, allocation_schemes>>
    BY DEF SetMemberRole, UpdateTenantMemberRole
  <1>4. u \in registered
    BY KnownMember DEF SetMemberRole, MemberExistsInTenant
  <1> HIDE DEF row
  <1>5. Around'
    BY <1>3, <1>4, RowAround
  <1> QED
    BY <1>1, <1>2, <1>3, <1>5, MemberRow

LEMMA SetMemberEnabledOK ==
  ASSUME Tables, NEW a, NEW u \in People, NEW enabled \in BOOLEAN, setMemberStatus(a, u, enabled)
  PROVE  Tables' /\ TermsStep
  <1> DEFINE row == [memberships[u] EXCEPT !.enabled = enabled]
  <1>1. memberships[u] \in MemberRows /\ ~memberships[u].removed /\ memberships[u].role = "member"
    BY DEF Tables, MembersKnown, setMemberStatus, SetTenantMemberEnabled, MemberExistsInTenant
  <1>2. u # Founder
    BY <1>1 DEF Tables, OwnerKept
  <1>3. row \in MemberRows /\ row.role = "member" /\ row.removed = memberships[u].removed /\ row.term = memberships[u].term
    BY <1>1 DEF MemberRows
  <1>4. /\ memberships' = [memberships EXCEPT ![u] = row]
        /\ UNCHANGED <<userOn, registered, links, owned, suspended, account_groups, group_accounts, group_members, accountState,
                       api_keys, allocation_schemes>>
    BY DEF setMemberStatus
  <1>5. u \in registered
    BY <1>1, KnownMember
  <1> HIDE DEF row
  <1>6. Around'
    BY <1>4, <1>5, RowAround
  <1> QED
    BY <1>1, <1>2, <1>3, <1>4, <1>6, MemberRow

LEMMA RemoveMemberOK ==
  ASSUME Tables, NEW a, NEW u \in People, RemoveMember(a, u)
  PROVE  Tables' /\ TermsStep
  <1> USE DEF Tables
  <1> DEFINE next == memberships[u].term + 1
             row == [memberships[u] EXCEPT !.enabled = FALSE, !.removed = TRUE, !.term = next]
  <1>1. memberships[u] \in MemberRows /\ u # Founder /\ memberships[u].role # "owner"
    BY DEF MembersKnown, RemoveMember, mayRemove, OwnerKept
  <1>1a. next \in Nat /\ next <= memberships[u].term + 1
    BY <1>1 DEF MemberRows
  <1>2. /\ memberships' = [memberships EXCEPT ![u] = row] /\ group_members' = ClearMemberGroups(u)
        /\ api_keys' = RevokeTenantMemberKeys(u)
        /\ UNCHANGED <<userOn, registered, links, owned, suspended, account_groups, group_accounts, accountState, allocation_schemes>>
    BY DEF RemoveMember, RemoveTenantMember
  <1> HIDE DEF next
  <1>3. row \in MemberRows /\ row.role = memberships[u].role /\ row.removed /\ ~row.enabled /\ row.term = next
    BY <1>1, <1>1a DEF MemberRows
  <1> HIDE DEF row
  <1>4. memberships' \in [People -> MemberRows] /\ memberships'[u] = row /\ \A v \in People \ {u} : memberships'[v] = memberships[v]
    BY <1>2, <1>3 DEF MembersKnown
  <1>5. TermsStep
    <2>1. \A v \in People : memberships[v].term \in Nat
      BY DEF MembersKnown, MemberRows
    <2> QED
      BY <1>1a, <1>3, <1>4, <2>1 DEF TermsStep
  <1>6. MembersKnown' /\ OwnerKept'
    BY <1>1, <1>3, <1>4, Given DEF MembersKnown, OwnerKept
  <1>7. ASSUME NEW k \in Keys
        PROVE  /\ api_keys'[k] \in KeyRows /\ api_keys'[k].user = api_keys[k].user /\ api_keys'[k].scheme = api_keys[k].scheme
               /\ api_keys'[k].pool = api_keys[k].pool /\ api_keys'[k].term = api_keys[k].term
               /\ api_keys'[k].revoked = (api_keys[k].user = u \/ api_keys[k].revoked)
    <2> DEFINE key == api_keys[k]
    <2>1. key \in KeyRows /\ api_keys'[k] = IF key.user = u THEN [key EXCEPT !.revoked = TRUE] ELSE key
      BY <1>2 DEF KeysOfTerm, RevokeTenantMemberKeys
    <2> HIDE DEF key
    <2>2. /\ [key EXCEPT !.revoked = TRUE] \in KeyRows /\ key.revoked \in BOOLEAN
          /\ [key EXCEPT !.revoked = TRUE].revoked = TRUE
          /\ [key EXCEPT !.revoked = TRUE].user = key.user /\ [key EXCEPT !.revoked = TRUE].scheme = key.scheme
          /\ [key EXCEPT !.revoked = TRUE].pool = key.pool /\ [key EXCEPT !.revoked = TRUE].term = key.term
      BY <2>1 DEF KeyRows
    <2>3. CASE key.user = u
      BY <2>1, <2>2, <2>3 DEF key
    <2>4. CASE key.user # u
      BY <2>1, <2>2, <2>4 DEF key
    <2> QED
      BY <2>3, <2>4
  <1>8. api_keys' \in [Keys -> KeyRows]
    <2>1. api_keys' = [k \in Keys |-> api_keys'[k]]
      BY <1>2 DEF RevokeTenantMemberKeys
    <2> QED
      BY <1>7, <2>1
  <1>9. KeysOfTerm' /\ BindingFollowsPool'
    <2>1. \A k \in Keys : api_keys[k].user \in People \cup {nobody}
      BY DEF KeysOfTerm, KeyRows
    <2>2. ASSUME NEW k \in Keys, api_keys'[k].user # nobody, ~api_keys'[k].revoked
          PROVE  api_keys'[k].term = memberships'[api_keys'[k].user].term
      <3>1. /\ api_keys[k].user \in People \ {u} /\ ~api_keys[k].revoked
            /\ api_keys'[k].user = api_keys[k].user /\ api_keys'[k].term = api_keys[k].term
        BY <1>7, <2>1, <2>2
      <3>2. api_keys[k].term = memberships[api_keys[k].user].term
        BY <3>1, Given DEF KeysOfTerm
      <3> QED
        BY <1>4, <3>1, <3>2
    <2>3. \A k \in Keys : api_keys'[k].scheme \in {noPool, api_keys'[k].pool}
      BY <1>7 DEF BindingFollowsPool
    <2> QED
      BY <1>8, <2>2, <2>3 DEF KeysOfTerm, BindingFollowsPool
  <1>10. GrantsOfMembers'
    BY <1>2, <1>4 DEF GrantsOfMembers, ClearMemberGroups, PoolsKnown
  <1>11. PoolsKnown' /\ ReservedPoolExclusive'
    BY <1>2 DEF PoolsKnown, ReservedPoolExclusive, sharedAccounts, GetPoolAllocation, ClearMemberGroups
  <1>12. u \in registered
    BY KnownMember DEF RemoveMember, mayRemove, MemberExistsInTenant
  <1>13. Around'
    BY <1>2, <1>12, RowAround
  <1> QED
    BY <1>5, <1>6, <1>9, <1>10, <1>11, <1>13

-----------------------------------------------------------------------------
(* Keys.                                                                      *)

\* One key's row is written: bound to its own pool or none, and of its user's term unless revoked.
LEMMA KeyRow ==
  ASSUME Tables, NEW k \in Keys, NEW row \in KeyRows, api_keys' = [api_keys EXCEPT ![k] = row],
         row.scheme \in {noPool, row.pool},
         row.user # nobody /\ ~row.revoked => row.term = memberships[row.user].term,
         UNCHANGED <<userOn, registered, links, owned, suspended, memberships, account_groups, group_accounts, group_members,
                     accountState, allocation_schemes>>
  PROVE  Tables' /\ TermsStep
  <1> USE DEF Tables
  <1>1. MembersKnown' /\ OwnerKept' /\ TermsStep
    BY TermsStand
  <1>2. api_keys' \in [Keys -> KeyRows] /\ api_keys'[k] = row /\ \A x \in Keys \ {k} : api_keys'[x] = api_keys[x]
    BY DEF KeysOfTerm
  <1>3. KeysOfTerm' /\ BindingFollowsPool'
    BY <1>2 DEF KeysOfTerm, BindingFollowsPool
  <1>4. PoolsKnown' /\ GrantsOfMembers' /\ ReservedPoolExclusive' /\ Around'
    BY DEF PoolsKnown, GrantsOfMembers, ReservedPoolExclusive, sharedAccounts, GetPoolAllocation, Around, Strangers
  <1> QED
    BY <1>1, <1>3, <1>4

LEMMA CreateOK ==
  ASSUME Tables, NEW u \in People, NEW k \in Keys, NEW p \in Pools, NEW inScheme \in BOOLEAN,
         NEW expiry \in {"never", "later"}, create(u, k, p, inScheme, expiry)
  PROVE  Tables' /\ TermsStep
  <1> DEFINE scheme == IF inScheme THEN p ELSE noPool
             row == [user |-> u, pool |-> p, revoked |-> FALSE, enabled |-> TRUE, expiry |-> expiry,
                     scheme |-> scheme, term |-> memberships[u].term]
  <1>1. CreateKey(u, p, inScheme, expiry) = row
    BY DEF CreateKey
  <1>2. memberships[u].term \in Nat
    BY DEF Tables, MembersKnown, MemberRows
  <1>3. scheme \in {noPool, p}
    OBVIOUS
  <1>4. /\ api_keys' = [api_keys EXCEPT ![k] = row]
        /\ UNCHANGED <<userOn, registered, links, owned, suspended, memberships, account_groups, group_accounts, group_members,
                       accountState, allocation_schemes>>
    BY <1>1 DEF create
  <1> HIDE DEF scheme
  <1>5. row \in KeyRows /\ row.scheme \in {noPool, row.pool} /\ row.user = u /\ row.term = memberships[u].term
    BY <1>2, <1>3 DEF KeyRows
  <1> HIDE DEF row
  <1> QED
    BY <1>4, <1>5, KeyRow

LEMMA UpdateOK ==
  ASSUME Tables, NEW u, NEW k \in Keys, NEW enabled \in BOOLEAN, NEW expiry \in {"never", "later", "past"},
         Update(u, k, enabled, expiry)
  PROVE  Tables' /\ TermsStep
  <1> DEFINE row == [api_keys[k] EXCEPT !.enabled = enabled, !.expiry = expiry]
  <1>1. /\ api_keys[k] \in KeyRows /\ api_keys[k].scheme \in {noPool, api_keys[k].pool}
        /\ api_keys[k].user # nobody /\ ~api_keys[k].revoked => api_keys[k].term = memberships[api_keys[k].user].term
    BY DEF Tables, KeysOfTerm, BindingFollowsPool
  <1>2. /\ row \in KeyRows /\ row.scheme = api_keys[k].scheme /\ row.pool = api_keys[k].pool
        /\ row.user = api_keys[k].user /\ row.term = api_keys[k].term /\ row.revoked = api_keys[k].revoked
    BY <1>1 DEF KeyRows
  <1>3. /\ api_keys' = [api_keys EXCEPT ![k] = row]
        /\ UNCHANGED <<userOn, registered, links, owned, suspended, memberships, account_groups, group_accounts, group_members,
                       accountState, allocation_schemes>>
    BY DEF Update, UpdateKey
  <1> HIDE DEF row
  <1> QED
    BY <1>1, <1>2, <1>3, KeyRow

LEMMA RevokeOK ==
  ASSUME Tables, NEW u, NEW k \in Keys, keyRevoke(u, k)
  PROVE  Tables' /\ TermsStep
  <1> DEFINE row == [api_keys[k] EXCEPT !.revoked = TRUE]
  <1>1. api_keys[k] \in KeyRows /\ api_keys[k].scheme \in {noPool, api_keys[k].pool}
    BY DEF Tables, KeysOfTerm, BindingFollowsPool
  <1>2. row \in KeyRows /\ row.scheme = api_keys[k].scheme /\ row.pool = api_keys[k].pool /\ row.revoked
    BY <1>1 DEF KeyRows
  <1>3. /\ api_keys' = [api_keys EXCEPT ![k] = row]
        /\ UNCHANGED <<userOn, registered, links, owned, suspended, memberships, account_groups, group_accounts, group_members,
                       accountState, allocation_schemes>>
    BY DEF keyRevoke, RevokeKey
  <1> HIDE DEF row
  <1> QED
    BY <1>1, <1>2, <1>3, KeyRow

LEMMA RebindOK ==
  ASSUME Tables, NEW u, NEW k \in Keys, NEW p \in Pools, Rebind(u, k, p)
  PROVE  Tables' /\ TermsStep
  <1> DEFINE scheme == IF GetPoolAllocation(p) THEN p ELSE noPool
             row == [api_keys[k] EXCEPT !.pool = p, !.scheme = scheme]
  <1>1. /\ api_keys[k] \in KeyRows
        /\ api_keys[k].user # nobody /\ ~api_keys[k].revoked => api_keys[k].term = memberships[api_keys[k].user].term
    BY DEF Tables, KeysOfTerm
  <1>2. scheme \in {noPool, p}
    OBVIOUS
  <1>3. /\ api_keys' = [api_keys EXCEPT ![k] = row]
        /\ UNCHANGED <<userOn, registered, links, owned, suspended, memberships, account_groups, group_accounts, group_members,
                       accountState, allocation_schemes>>
    BY DEF Rebind, RebindKeyGroup
  <1> HIDE DEF scheme
  <1>4. /\ row \in KeyRows /\ row.scheme = scheme /\ row.pool = p
        /\ row.user = api_keys[k].user /\ row.term = api_keys[k].term /\ row.revoked = api_keys[k].revoked
    BY <1>1, <1>2 DEF KeyRows
  <1> HIDE DEF row
  <1> QED
    BY <1>1, <1>2, <1>3, <1>4, KeyRow

LEMMA KeyExpiresOK ==
  ASSUME Tables, NEW k \in Keys, keyExpires(k)
  PROVE  Tables' /\ TermsStep
  <1> DEFINE row == [api_keys[k] EXCEPT !.expiry = "past"]
  <1>1. /\ api_keys[k] \in KeyRows /\ api_keys[k].scheme \in {noPool, api_keys[k].pool}
        /\ api_keys[k].user # nobody /\ ~api_keys[k].revoked => api_keys[k].term = memberships[api_keys[k].user].term
    BY DEF Tables, KeysOfTerm, BindingFollowsPool
  <1>2. /\ row \in KeyRows /\ row.scheme = api_keys[k].scheme /\ row.pool = api_keys[k].pool
        /\ row.user = api_keys[k].user /\ row.term = api_keys[k].term /\ row.revoked = api_keys[k].revoked
    BY <1>1 DEF KeyRows
  <1>3. /\ api_keys' = [api_keys EXCEPT ![k] = row]
        /\ UNCHANGED <<userOn, registered, links, owned, suspended, memberships, account_groups, group_accounts, group_members,
                       accountState, allocation_schemes>>
    BY DEF keyExpires
  <1> HIDE DEF row
  <1> QED
    BY <1>1, <1>2, <1>3, KeyRow

-----------------------------------------------------------------------------
(* Pools, schemes and what is around the workspace.                           *)

\* A step of the pools or of what is around: neither a member's row nor a key's is touched.
LEMMA PoolsStep ==
  ASSUME Tables, UNCHANGED <<memberships, api_keys>>, PoolsKnown', GrantsOfMembers', ReservedPoolExclusive', Around'
  PROVE  Tables' /\ TermsStep
  <1>1. KeysOfTerm' /\ BindingFollowsPool'
    BY DEF Tables, KeysOfTerm, BindingFollowsPool
  <1> QED
    BY <1>1, TermsStand DEF Tables

LEMMA CreateWorkspaceOK ==
  ASSUME Tables, NEW a \in People, Create(a)
  PROVE  Tables' /\ TermsStep
  <1>1. owned' \in [People -> 0..MaxOwned]
    <2>1. owned[a] + 1 \in 0..MaxOwned
      BY Given DEF Tables, Around, Create
    <2> QED
      BY <2>1 DEF Tables, Around, Create
  <1>2. Around'
    BY <1>1 DEF Tables, Around, Strangers, Create
  <1>3. PoolsKnown' /\ GrantsOfMembers' /\ ReservedPoolExclusive' /\ UNCHANGED <<memberships, api_keys>>
    BY DEF Tables, Create, PoolsKnown, GrantsOfMembers, ReservedPoolExclusive, sharedAccounts, GetPoolAllocation
  <1> QED
    BY <1>2, <1>3, PoolsStep

LEMMA SetMemberGroupsOK ==
  ASSUME Tables, NEW u \in People, NEW granted \in SUBSET Pools, SetMemberGroups(u, granted)
  PROVE  Tables' /\ TermsStep
  <1> USE DEF Tables, SetMemberGroups
  <1>1. group_members' \subseteq People \X Pools
    BY DEF PoolsKnown, ClearMemberGroups, GrantMemberGroup
  <1>2. \A g \in group_members' : g \in group_members \/ g[1] = u
    BY DEF ClearMemberGroups, GrantMemberGroup
  <1>3. GrantsOfMembers'
    BY <1>2 DEF GrantsOfMembers, MemberExistsInTenant
  <1>4. PoolsKnown' /\ ReservedPoolExclusive' /\ Around'
    BY <1>1 DEF PoolsKnown, ReservedPoolExclusive, sharedAccounts, GetPoolAllocation, Around, Strangers
  <1> QED
    BY <1>3, <1>4, PoolsStep

\* A reserved pool's accounts are written back as they were, any other takes none of them.
LEMMA SaveOK ==
  ASSUME Tables, NEW p \in Pools, NEW enabled \in BOOLEAN, NEW subscriptionOnly \in BOOLEAN,
         NEW chosen \in SUBSET Accounts, Save(p, enabled, subscriptionOnly, chosen)
  PROVE  Tables' /\ TermsStep
  <1> USE DEF Tables
  <1> DEFINE row == [exists |-> TRUE, enabled |-> enabled, subscriptionOnly |-> subscriptionOnly]
  <1>1. /\ account_groups' = [account_groups EXCEPT ![p] = row]
        /\ group_accounts' = [group_accounts EXCEPT ![p] = chosen]
        /\ UNCHANGED <<userOn, registered, links, owned, suspended, memberships, group_members, accountState, api_keys, allocation_schemes>>
        /\ IF GetPoolAllocation(p) THEN chosen = group_accounts[p] ELSE AddGroupAccount(p, chosen)
    BY DEF Save
  <1>2. row \in GroupRows
    BY DEF GroupRows
  <1> HIDE DEF row
  <1>3. PoolsKnown' /\ GrantsOfMembers' /\ Around'
    BY <1>1, <1>2 DEF PoolsKnown, GrantsOfMembers, Around, Strangers
  <1>4. /\ group_accounts'[p] = chosen /\ \A q \in Pools \ {p} : group_accounts'[q] = group_accounts[q]
        /\ \A q \in Pools : GetPoolAllocation(q)' <=> GetPoolAllocation(q)
    BY <1>1 DEF PoolsKnown, GetPoolAllocation
  <1>5. ReservedPoolExclusive'
    <2> SUFFICES ASSUME NEW q \in Pools, GetPoolAllocation(q)
                 PROVE  group_accounts'[q] # {} /\ \A x \in group_accounts'[q] : \A s \in Pools \ {q} : x \notin group_accounts'[s]
      BY <1>4 DEF ReservedPoolExclusive, sharedAccounts
    <2>1. group_accounts[q] # {} /\ \A x \in group_accounts[q] : \A s \in Pools \ {q} : x \notin group_accounts[s]
      BY DEF ReservedPoolExclusive, sharedAccounts
    <2>2. CASE GetPoolAllocation(p)
      BY <1>1, <1>4, <2>1, <2>2
    <2>3. CASE ~GetPoolAllocation(p)
      BY <1>1, <1>4, <2>1, <2>3 DEF AddGroupAccount
    <2> QED
      BY <2>2, <2>3
  <1> QED
    BY <1>1, <1>3, <1>5, PoolsStep

\* Reserving binds the unbound keys of the pool to it, and nothing else of them changes.
LEMMA SaveSchemeOK ==
  ASSUME Tables, NEW p \in Pools, NEW members \in SUBSET People, NEW enabled \in BOOLEAN, NEW startNext \in BOOLEAN,
         SaveScheme(p, members, enabled, startNext)
  PROVE  Tables' /\ TermsStep
  <1> USE DEF Tables
  <1> DEFINE row == [exists |-> TRUE, enabled |-> enabled, live |-> ~startNext, members |-> members]
  <1>1. /\ allocation_schemes' = [allocation_schemes EXCEPT ![p] = row]
        /\ api_keys' = BindExistingAllocationKeys(p, members) /\ mayReserve(p)
        /\ UNCHANGED <<userOn, registered, links, owned, suspended, memberships, account_groups, group_accounts, group_members, accountState>>
    BY DEF SaveScheme
  <1>2. row \in SchemeRows
    BY DEF SchemeRows
  <1> HIDE DEF row
  <1>3. PoolsKnown' /\ GrantsOfMembers' /\ Around'
    BY <1>1, <1>2 DEF PoolsKnown, GrantsOfMembers, Around, Strangers
  <1>4. ReservedPoolExclusive'
    BY <1>1 DEF ReservedPoolExclusive, sharedAccounts, GetPoolAllocation, mayReserve, PoolsKnown
  <1>5. ASSUME NEW k \in Keys
        PROVE  /\ api_keys'[k] \in KeyRows /\ api_keys'[k].user = api_keys[k].user
               /\ api_keys'[k].scheme \in {noPool, api_keys'[k].pool} /\ api_keys'[k].term = api_keys[k].term
               /\ api_keys'[k].revoked = api_keys[k].revoked
    <2> DEFINE key == api_keys[k]
    <2>1. /\ key \in KeyRows /\ key.scheme \in {noPool, key.pool}
          /\ \/ api_keys'[k] = [key EXCEPT !.scheme = p] /\ key.pool = p
             \/ api_keys'[k] = key
      BY <1>1 DEF KeysOfTerm, BindingFollowsPool, BindExistingAllocationKeys
    <2> HIDE DEF key
    <2>2. /\ [key EXCEPT !.scheme = p] \in KeyRows /\ [key EXCEPT !.scheme = p].scheme = p
          /\ [key EXCEPT !.scheme = p].user = key.user /\ [key EXCEPT !.scheme = p].pool = key.pool
          /\ [key EXCEPT !.scheme = p].term = key.term /\ [key EXCEPT !.scheme = p].revoked = key.revoked
      BY <2>1 DEF KeyRows
    <2>3. CASE api_keys'[k] = [key EXCEPT !.scheme = p] /\ key.pool = p
      BY <2>2, <2>3 DEF key
    <2>4. CASE api_keys'[k] = key
      BY <2>1, <2>4 DEF key
    <2> QED
      BY <2>1, <2>3, <2>4
  <1>6. api_keys' \in [Keys -> KeyRows]
    <2>1. api_keys' = [k \in Keys |-> api_keys'[k]]
      BY <1>1 DEF BindExistingAllocationKeys
    <2> QED
      BY <1>5, <2>1
  <1>7. KeysOfTerm' /\ BindingFollowsPool'
    BY <1>1, <1>5, <1>6 DEF KeysOfTerm, BindingFollowsPool
  <1> QED
    BY <1>1, <1>3, <1>4, <1>7, TermsStand

\* A scheme's row is written, as reserved as it was.
LEMMA SchemeRow ==
  ASSUME Tables, NEW p \in Pools, NEW row \in SchemeRows, allocation_schemes' = [allocation_schemes EXCEPT ![p] = row],
         row.exists = allocation_schemes[p].exists,
         UNCHANGED <<userOn, registered, links, owned, suspended, memberships, account_groups, group_accounts, group_members,
                     accountState, api_keys>>
  PROVE  Tables' /\ TermsStep
  <1> USE DEF Tables
  <1>1. PoolsKnown' /\ GrantsOfMembers' /\ Around'
    BY DEF PoolsKnown, GrantsOfMembers, Around, Strangers
  <1>2. \A q \in Pools : allocation_schemes'[q].exists = allocation_schemes[q].exists
    BY DEF PoolsKnown
  <1>3. ReservedPoolExclusive'
    BY <1>2 DEF ReservedPoolExclusive, sharedAccounts, GetPoolAllocation
  <1> QED
    BY <1>1, <1>3, PoolsStep

LEMMA SchemesOK ==
  ASSUME Tables, NEW p \in Pools, NEW members \in SUBSET People, NEW enabled \in BOOLEAN,
         UpdateMembers(p, members) \/ SetEnabled(p, enabled) \/ schemeStarts(p)
  PROVE  Tables' /\ TermsStep
  <1> DEFINE s == allocation_schemes[p]
             recipients == [s EXCEPT !.members = members]
             switched == [s EXCEPT !.enabled = enabled]
             started == [s EXCEPT !.live = TRUE]
  <1>1. s \in SchemeRows
    BY DEF Tables, PoolsKnown
  <1>2. \/ allocation_schemes' = [allocation_schemes EXCEPT ![p] = recipients]
        \/ allocation_schemes' = [allocation_schemes EXCEPT ![p] = switched]
        \/ allocation_schemes' = [allocation_schemes EXCEPT ![p] = started]
    BY DEF UpdateMembers, SetEnabled, schemeStarts
  <1>3. UNCHANGED <<userOn, registered, links, owned, suspended, memberships, account_groups, group_accounts, group_members, accountState, api_keys>>
    BY DEF UpdateMembers, SetEnabled, schemeStarts
  <1> HIDE DEF s
  <1>4. /\ recipients \in SchemeRows /\ switched \in SchemeRows /\ started \in SchemeRows
        /\ recipients.exists = s.exists /\ switched.exists = s.exists /\ started.exists = s.exists
    BY <1>1 DEF SchemeRows
  <1>5. s = allocation_schemes[p]
    BY DEF s
  <1> HIDE DEF recipients, switched, started
  <1>6. CASE allocation_schemes' = [allocation_schemes EXCEPT ![p] = recipients]
    BY <1>3, <1>4, <1>5, <1>6, SchemeRow
  <1>7. CASE allocation_schemes' = [allocation_schemes EXCEPT ![p] = switched]
    BY <1>3, <1>4, <1>5, <1>7, SchemeRow
  <1>8. CASE allocation_schemes' = [allocation_schemes EXCEPT ![p] = started]
    BY <1>3, <1>4, <1>5, <1>8, SchemeRow
  <1> QED
    BY <1>2, <1>6, <1>7, <1>8

\* An account a scheme holds is not deleted, so no reserved pool loses one.
LEMMA DeleteOK ==
  ASSUME Tables, NEW a \in Accounts, Delete(a)
  PROVE  Tables' /\ TermsStep
  <1> USE DEF Tables, Delete
  <1>1. \A p \in Pools : group_accounts'[p] = group_accounts[p] \ {a} /\ allocation_schemes'[p] = allocation_schemes[p]
    OBVIOUS
  <1>2. group_accounts' \in [Pools -> SUBSET Accounts] /\ accountState' \in [Accounts -> {"ready", "attention", "gone"}]
    BY DEF PoolsKnown
  <1>3. PoolsKnown' /\ GrantsOfMembers' /\ Around'
    BY <1>2 DEF PoolsKnown, GrantsOfMembers, Around, Strangers
  <1>4. \A p \in Pools : GetPoolAllocation(p) => a \notin group_accounts[p]
    BY DEF AccountHasAllocation
  <1>5. ReservedPoolExclusive'
    BY <1>1, <1>4 DEF ReservedPoolExclusive, sharedAccounts, GetPoolAllocation
  <1> QED
    BY <1>3, <1>5, PoolsStep

LEMMA SurroundingsOK ==
  ASSUME Tables, surroundings
  PROVE  Tables' /\ TermsStep
  <1> USE DEF Tables
  <1>1. ASSUME NEW u \in People, userSwitched(u)
        PROVE  Tables' /\ TermsStep
    <2>0. /\ userOn' = [userOn EXCEPT ![u] = ~userOn[u]] /\ u \in registered
          /\ UNCHANGED <<registered, links, owned, suspended, memberships>>
      BY <1>1 DEF userSwitched
    <2>1. Around'
      BY <2>0 DEF Around, Strangers
    <2>2. PoolsKnown' /\ GrantsOfMembers' /\ ReservedPoolExclusive' /\ UNCHANGED <<memberships, api_keys>>
      BY <1>1 DEF userSwitched, PoolsKnown, GrantsOfMembers, ReservedPoolExclusive, sharedAccounts, GetPoolAllocation
    <2> QED
      BY <2>1, <2>2, PoolsStep
  <1>2. CASE suspend
    <2>1. Around'
      BY <1>2 DEF suspend, Around, Strangers
    <2>2. PoolsKnown' /\ GrantsOfMembers' /\ ReservedPoolExclusive' /\ UNCHANGED <<memberships, api_keys>>
      BY <1>2 DEF suspend, PoolsKnown, GrantsOfMembers, ReservedPoolExclusive, sharedAccounts, GetPoolAllocation
    <2> QED
      BY <2>1, <2>2, PoolsStep
  <1>3. ASSUME NEW k \in Keys, keyExpires(k)
        PROVE  Tables' /\ TermsStep
    BY <1>3, KeyExpiresOK
  <1>4. ASSUME NEW p \in Pools, schemeStarts(p)
        PROVE  Tables' /\ TermsStep
    <2>1. {} \in SUBSET People /\ TRUE \in BOOLEAN
      OBVIOUS
    <2> QED
      BY <1>4, <2>1, SchemesOK
  <1>5. ASSUME NEW a \in Accounts, accountFails(a)
        PROVE  Tables' /\ TermsStep
    <2>1. PoolsKnown' /\ Around' /\ GrantsOfMembers' /\ ReservedPoolExclusive' /\ UNCHANGED <<memberships, api_keys>>
      BY <1>5 DEF accountFails, PoolsKnown, Around, Strangers, GrantsOfMembers, ReservedPoolExclusive, sharedAccounts, GetPoolAllocation
    <2> QED
      BY <2>1, PoolsStep
  <1>6. ASSUME NEW u \in People, registeredElsewhere(u)
        PROVE  Tables' /\ TermsStep
    <2>0. /\ userOn' = [userOn EXCEPT ![u] = TRUE] /\ registered' = registered \cup {u}
          /\ UNCHANGED <<links, owned, suspended, memberships>>
      BY <1>6 DEF registeredElsewhere
    <2>1. Around'
      BY <2>0 DEF Around, Strangers
    <2>2. PoolsKnown' /\ GrantsOfMembers' /\ ReservedPoolExclusive' /\ UNCHANGED <<memberships, api_keys>>
      BY <1>6 DEF registeredElsewhere, PoolsKnown, GrantsOfMembers, ReservedPoolExclusive, sharedAccounts, GetPoolAllocation
    <2> QED
      BY <2>1, <2>2, PoolsStep
  <1>7. ASSUME NEW u \in People, registerInvitation(u)
        PROVE  Tables' /\ TermsStep
    <2>1. links' \in Nat
      BY <1>7 DEF registerInvitation, Around
    <2> QED
      BY <1>7, <2>1, AddNewMemberOK DEF registerInvitation
  <1>8. CASE linkExpires
    BY <1>8, LinksOK
  <1> QED
    BY <1>1, <1>2, <1>3, <1>4, <1>5, <1>6, <1>7, <1>8 DEF surroundings

-----------------------------------------------------------------------------
(* The console.                                                               *)

\* A request under way is someone's.
LEMMA UnderWay ==
  ASSUME Counted, NEW r \in Requests, signedIn(r) \/ requireAdminRole(r)
  PROVE  requests[r] # Free /\ actor(r) \in People
  BY DEF Counted, signedIn, requireAdminRole, actor, Free

\* Whatever a request does, it is the one that does it and is then over.
LEMMA TransactionOK ==
  ASSUME WorkspacesInv, NEW r \in Requests, consoleStep(r), ~\E u \in People : requireUser(r, u)
  PROVE  requests[r] # Free /\ answered(r) /\ Tables' /\ TermsStep
  <1> USE DEF WorkspacesInv
  <1>1. CASE memberAdded(r)
    BY <1>1, UnderWay, AddMemberOK DEF memberAdded
  <1>2. CASE memberRole(r)
    BY <1>2, UnderWay, SetMemberRoleOK DEF memberRole
  <1>3. CASE memberStatus(r)
    BY <1>3, UnderWay, SetMemberEnabledOK DEF memberStatus
  <1>4. CASE removeMember(r)
    BY <1>4, UnderWay, RemoveMemberOK DEF removeMember
  <1>5. CASE workspaceCreated(r)
    BY <1>5, UnderWay, CreateWorkspaceOK DEF workspaceCreated
  <1>6. CASE setMemberGroups(r)
    BY <1>6, UnderWay, SetMemberGroupsOK DEF setMemberGroups
  <1>7. CASE groupSaved(r)
    BY <1>7, UnderWay, SaveOK DEF groupSaved
  <1>8. CASE schemeSaved(r)
    BY <1>8, UnderWay, SaveSchemeOK DEF schemeSaved
  <1>9. CASE recipientsChanged(r)
    <2>1. PICK p \in Pools, members \in SUBSET People : requireAdminRole(r) /\ UpdateMembers(p, members) /\ answered(r)
      BY <1>9 DEF recipientsChanged
    <2>2. TRUE \in BOOLEAN
      OBVIOUS
    <2>3. Tables' /\ TermsStep
      BY <2>1, <2>2, SchemesOK
    <2> QED
      BY <2>1, <2>3, UnderWay
  <1>10. CASE schemeEnabled(r)
    <2>1. PICK p \in Pools, enabled \in BOOLEAN : requireAdminRole(r) /\ SetEnabled(p, enabled) /\ answered(r)
      BY <1>10 DEF schemeEnabled
    <2>2. {} \in SUBSET People
      OBVIOUS
    <2>3. Tables' /\ TermsStep
      BY <2>1, <2>2, SchemesOK
    <2> QED
      BY <2>1, <2>3, UnderWay
  <1>11. CASE keyCreated(r)
    BY <1>11, UnderWay, CreateOK DEF keyCreated
  <1>12. CASE keyUpdated(r)
    BY <1>12, UnderWay, UpdateOK DEF keyUpdated
  <1>13. CASE keyRevoked(r)
    BY <1>13, UnderWay, RevokeOK DEF keyRevoked
  <1>14. CASE keyRebound(r)
    BY <1>14, UnderWay, RebindOK DEF keyRebound
  <1>15. CASE accountDeleted(r)
    BY <1>15, UnderWay, DeleteOK DEF accountDeleted
  <1>16. CASE requestEnds(r)
    <2>1. PoolsKnown' /\ GrantsOfMembers' /\ ReservedPoolExclusive' /\ Around' /\ UNCHANGED <<memberships, api_keys>>
      BY <1>16 DEF requestEnds, tables, Tables, PoolsKnown, GrantsOfMembers, ReservedPoolExclusive, sharedAccounts,
                   GetPoolAllocation, Around, Strangers
    <2> QED
      BY <1>16, <2>1, UnderWay, PoolsStep DEF requestEnds
  <1>17. CASE memberCreated(r)
    <2>1. PICK u \in People : requireAdminRole(r) /\ createMember(u) /\ answered(r)
      BY <1>17 DEF memberCreated
    <2>2. links' \in Nat /\ AddNewMember(u)
      BY <2>1 DEF createMember, Tables, Around
    <2> QED
      BY <2>1, <2>2, UnderWay, AddNewMemberOK
  <1>18. CASE invitationCreated(r)
    BY <1>18, UnderWay, LinksOK DEF invitationCreated
  <1> QED
    BY <1>1, <1>2, <1>3, <1>4, <1>5, <1>6, <1>7, <1>8, <1>9, <1>10, <1>11, <1>12, <1>13, <1>14, <1>15, <1>16, <1>17,
       <1>18
    DEF consoleStep

\* A request that is over has spent its step, on a member's new term or on nothing.
LEMMA AnsweredOK ==
  ASSUME WorkspacesInv, NEW r \in Requests, requests[r] # Free, answered(r), Tables', TermsStep
  PROVE  Counted'
  <1> USE DEF WorkspacesInv, Counted
  <1>1. requests' \in [Requests -> [actor : People \cup {nobody}, admin : BOOLEAN]]
    BY DEF answered, Free
  <1>2. \A x \in Requests : actor(x)' = nobody => requests'[x] = Free
    BY DEF answered, actor
  <1>3. r \in busy /\ busy' = busy \ {r}
    BY DEF busy, answered
  <1>4. IsFiniteSet(busy') /\ Cardinality(busy') = Cardinality(busy) - 1
    BY <1>3, FS_RemoveElement
  <1>5. Cardinality(busy) \in Nat
    BY FS_CardinalityType
  <1>6. ASSUME NEW u \in People
        PROVE  memberships'[u].term + Cardinality(busy') <= steps'
    <2>1. memberships[u].term \in Nat /\ memberships'[u].term \in Nat
      BY DEF Tables, MembersKnown, MemberRows
    <2>2. memberships'[u].term <= memberships[u].term + 1 /\ memberships[u].term + Cardinality(busy) <= steps
      BY DEF TermsStep
    <2>3. steps' = steps /\ steps \in Nat
      BY Given DEF answered
    <2> QED
      BY <1>4, <1>5, <2>1, <2>2, <2>3
  <1> QED
    BY <1>1, <1>2, <1>4, <1>6 DEF answered

LEMMA RequireUserOK ==
  ASSUME WorkspacesInv, NEW r \in Requests, NEW u \in People, requireUser(r, u)
  PROVE  WorkspacesInv'
  <1> USE DEF WorkspacesInv, requireUser
  <1>1. Tables'
    <2>1. PoolsKnown' /\ GrantsOfMembers' /\ ReservedPoolExclusive' /\ Around' /\ UNCHANGED <<memberships, api_keys>>
      BY DEF tables, Tables, PoolsKnown, GrantsOfMembers, ReservedPoolExclusive, sharedAccounts, GetPoolAllocation, Around, Strangers
    <2> QED
      BY <2>1, PoolsStep
  <1> USE DEF Counted
  <1>2. /\ requests' \in [Requests -> [actor : People \cup {nobody}, admin : BOOLEAN]]
        /\ requests'[r].actor = u /\ \A x \in Requests \ {r} : requests'[x] = requests[x]
    BY DEF stateForTenant
  <1>3. \A x \in Requests : actor(x)' = nobody => requests'[x] = Free
    BY <1>2, Given DEF actor
  <1>4. r \notin busy /\ busy' = busy \cup {r}
    BY <1>2, Given DEF busy, Free
  <1>5. Cardinality(busy) \in Nat /\ IsFiniteSet(busy') /\ Cardinality(busy') = Cardinality(busy) + 1
    BY <1>4, FS_CardinalityType, FS_AddElement
  <1>6. steps' = steps + 1 /\ steps' \in 0..MaxSteps /\ steps \in Nat
    BY Given DEF counts
  <1>7. ASSUME NEW v \in People
        PROVE  memberships'[v].term + Cardinality(busy') <= steps'
    <2>1. memberships'[v] = memberships[v] /\ memberships[v].term \in Nat
      BY DEF Tables, MembersKnown, MemberRows, tables
    <2> QED
      BY <1>5, <1>6, <2>1
  <1> QED
    BY <1>1, <1>2, <1>3, <1>5, <1>6, <1>7

LEMMA SurroundingsInv ==
  ASSUME WorkspacesInv, surroundings
  PROVE  WorkspacesInv'
  <1>1. Tables'
    BY SurroundingsOK DEF WorkspacesInv
  <1>2. UNCHANGED requests /\ counts
    BY DEF surroundings
  <1>2a. \A u \in People : memberships'[u].term = memberships[u].term
    <2>1. ASSUME NEW u \in People, registerInvitation(u), NEW v \in People
          PROVE  memberships'[v].term = memberships[v].term
      BY <2>1 DEF registerInvitation, AddNewMember, WorkspacesInv, Tables, MembersKnown
    <2>2. UNCHANGED memberships \/ \E u \in People : registerInvitation(u)
      BY DEF surroundings, userSwitched, registeredElsewhere, linkExpires, suspend, keyExpires, schemeStarts, accountFails
    <2> QED
      BY <2>1, <2>2
  <1>3. steps' = steps + 1 /\ steps' \in 0..MaxSteps /\ steps \in Nat
    BY <1>2, Given DEF counts, WorkspacesInv, Counted
  <1>4. busy' = busy /\ Cardinality(busy) \in Nat
    BY <1>2, FS_CardinalityType DEF busy, WorkspacesInv, Counted
  <1>5. \A u \in People : memberships[u].term \in Nat
    BY DEF WorkspacesInv, Tables, MembersKnown, MemberRows
  <1> HIDE DEF busy
  <1>6. \A u \in People : memberships'[u].term + Cardinality(busy') <= steps'
    BY <1>2a, <1>3, <1>4, <1>5 DEF WorkspacesInv, Counted
  <1>7. Counted'
    BY <1>2, <1>3, <1>4, <1>6 DEF WorkspacesInv, Counted, actor
  <1> QED
    BY <1>1, <1>7 DEF WorkspacesInv

LEMMA WorkspacesStep == WorkspacesInv /\ [WorkspacesNext]_wsVars => WorkspacesInv'
  <1> SUFFICES ASSUME WorkspacesInv, [WorkspacesNext]_wsVars
               PROVE  WorkspacesInv'
    OBVIOUS
  <1>1. ASSUME NEW r \in Requests, consoleStep(r)
        PROVE  WorkspacesInv'
    <2>1. CASE \E u \in People : requireUser(r, u)
      BY <2>1, RequireUserOK
    <2>2. CASE ~\E u \in People : requireUser(r, u)
      BY <1>1, <2>2, TransactionOK, AnsweredOK DEF WorkspacesInv
    <2> QED
      BY <2>1, <2>2
  <1>2. CASE UNCHANGED wsVars
    <2>1. PoolsKnown' /\ GrantsOfMembers' /\ ReservedPoolExclusive' /\ Around' /\ UNCHANGED <<memberships, api_keys, requests, steps>>
      BY <1>2 DEF wsVars, WorkspacesInv, Tables, PoolsKnown, GrantsOfMembers, ReservedPoolExclusive, sharedAccounts,
                  GetPoolAllocation, Around, Strangers
    <2>2. Tables'
      BY <2>1, PoolsStep DEF WorkspacesInv
    <2>3. Counted'
      BY <2>1 DEF WorkspacesInv, Counted, actor, busy
    <2> QED
      BY <2>2, <2>3 DEF WorkspacesInv
  <1> QED
    BY <1>1, <1>2, SurroundingsInv DEF WorkspacesNext

LEMMA WorkspacesStart == WorkspacesInit => WorkspacesInv
  <1> SUFFICES ASSUME WorkspacesInit PROVE WorkspacesInv
    OBVIOUS
  <1>1. PICK m \in People \ {Founder}, p \in Pools, a \in Accounts \ Channels, k \in Keys :
          /\ registered = {Founder, m} /\ userOn = [u \in People |-> u \in registered] /\ links = 0
          /\ owned = [u \in People |-> IF u = Founder THEN 1 ELSE 0]
          /\ suspended = FALSE
          /\ memberships = [u \in People |->
               IF u = m THEN [foundingRow(Founder) EXCEPT !.role = "member"] ELSE foundingRow(u)]
          /\ account_groups = [q \in Pools |-> [exists |-> q = p, enabled |-> q = p, subscriptionOnly |-> FALSE]]
          /\ group_accounts = [q \in Pools |-> IF q = p THEN {a} ELSE {}]
          /\ group_members = {<<m, p>>}
          /\ accountState = [x \in Accounts |-> "ready"]
          /\ api_keys = [x \in Keys |-> IF x = k THEN [NoKey EXCEPT !.user = m, !.pool = p] ELSE NoKey]
          /\ allocation_schemes = [q \in Pools |-> NoScheme]
          /\ requests = [r \in Requests |-> Free]
          /\ steps = 0
    BY DEF WorkspacesInit
  <1> DEFINE owner == foundingRow(Founder)
             member == [owner EXCEPT !.role = "member"]
             held == [NoKey EXCEPT !.user = m, !.pool = p]
  <1>2. /\ owner \in MemberRows /\ owner.role = "owner" /\ owner.enabled /\ owner.removed = FALSE /\ owner.term = 0
        /\ NoRow \in MemberRows /\ NoRow.role = "none" /\ NoRow.removed = FALSE /\ NoRow.term = 0
        /\ \A u \in People \ {Founder} : foundingRow(u) = NoRow
    BY DEF foundingRow, NoRow, MemberRows
  <1> HIDE DEF owner
  <1>2a. /\ member \in MemberRows /\ member.role = "member" /\ member.removed = FALSE /\ member.term = 0
    BY <1>2 DEF MemberRows
  <1> HIDE DEF member
  <1>2b. memberships = [u \in People |-> IF u = m THEN member ELSE foundingRow(u)]
    BY <1>1 DEF member, owner
  <1>3. ASSUME NEW u \in People
        PROVE  /\ memberships[u] \in MemberRows /\ memberships[u].term = 0 /\ memberships[u].removed = FALSE
               /\ u = Founder => memberships[u].role = "owner" /\ memberships[u].enabled
               /\ u # Founder => memberships[u].role # "owner"
               /\ u = m => memberships[u].role = "member"
               /\ u \notin registered => memberships[u] = NoRow
    <2>0. "member" # "owner" /\ "none" # "owner"
      OBVIOUS
    <2>1. CASE u = m
      <3>1. memberships[u] = member
        BY <1>2b, <2>1
      <3> QED
        BY <1>1, <1>2a, <2>0, <2>1, <3>1
    <2>2. CASE u = Founder
      <3>1. memberships[u] = owner
        BY <1>2b, <2>2 DEF owner
      <3> QED
        BY <1>1, <1>2, <2>2, <3>1
    <2>3. CASE u # m /\ u # Founder
      <3>1. memberships[u] = NoRow
        BY <1>2, <1>2b, <2>3
      <3> QED
        BY <1>2, <2>0, <2>3, <3>1
    <2> QED
      BY <2>1, <2>2, <2>3
  <1>4. MembersKnown /\ OwnerKept /\ GrantsOfMembers
    <2>1. memberships = [u \in People |-> memberships[u]]
      BY <1>1
    <2>2. \A g \in group_members : g[1] = m
      BY <1>1
    <2> QED
      BY <1>3, <2>1, <2>2, Given DEF MembersKnown, OwnerKept, GrantsOfMembers
  <1>5. NoKey \in KeyRows /\ NoKey.scheme = noPool /\ NoKey.term = 0
    BY DEF NoKey, KeyRows
  <1>5a. held \in KeyRows /\ held.scheme = noPool /\ held.term = 0
    BY <1>5 DEF KeyRows
  <1> HIDE DEF held
  <1>6. ASSUME NEW x \in Keys
        PROVE  api_keys[x] \in KeyRows /\ api_keys[x].scheme = noPool /\ api_keys[x].term = 0
    <2>1. api_keys[x] = held \/ api_keys[x] = NoKey
      BY <1>1 DEF held
    <2> QED
      BY <1>5, <1>5a, <2>1
  <1>7. KeysOfTerm /\ BindingFollowsPool
    <2>1. api_keys = [x \in Keys |-> api_keys[x]]
      BY <1>1
    <2>2. \A x \in Keys : api_keys[x].user \in People \cup {nobody}
      BY <1>6 DEF KeyRows
    <2> QED
      BY <1>3, <1>6, <2>1, <2>2 DEF KeysOfTerm, BindingFollowsPool
  <1>8. PoolsKnown /\ ReservedPoolExclusive
    <2>1. NoScheme \in SchemeRows /\ NoScheme.exists = FALSE
      BY DEF NoScheme, SchemeRows
    <2>2. \A q \in Pools : [exists |-> q = p, enabled |-> q = p, subscriptionOnly |-> FALSE] \in GroupRows
      BY DEF GroupRows
    <2> QED
      BY <1>1, <2>1, <2>2 DEF PoolsKnown, ReservedPoolExclusive, GetPoolAllocation
  <1>9. Around
    <2>1. \A u \in People : (IF u = Founder THEN 1 ELSE 0) \in 0..MaxOwned
      BY Given
    <2>2. owned \in [People -> 0..MaxOwned]
      BY <1>1, <2>1
    <2>3. registered = {Founder, m} /\ links = 0 /\ suspended = FALSE /\ userOn = [u \in People |-> u \in registered]
      BY <1>1
    <2>4. userOn \in [People -> BOOLEAN] /\ \A u \in People \ registered : ~userOn[u]
      <3>1. \A u \in People : (u \in registered) \in BOOLEAN
        OBVIOUS
      <3>2. userOn \in [People -> BOOLEAN]
        BY ONLY <2>3, <3>1, Zenon
      <3>3. \A u \in People \ registered : ~userOn[u]
        BY ONLY <2>3, Zenon
      <3> QED
        BY <3>2, <3>3
    <2>5. Strangers
      BY <1>3, <2>4 DEF Strangers
    <2>6. m \in People
      OBVIOUS
    <2> QED
      BY ONLY <2>2, <2>3, <2>4, <2>5, <2>6, Given DEF Around
  <1>10. Counted
    <2>1. busy = {}
      BY <1>1 DEF busy
    <2>2. IsFiniteSet(busy) /\ Cardinality(busy) = 0
      BY <2>1, FS_EmptySet
    <2>3. Free \in [actor : People \cup {nobody}, admin : BOOLEAN]
      BY DEF Free
    <2>4. \A r \in Requests : requests[r] = Free
      BY <1>1
    <2>5. requests \in [Requests -> [actor : People \cup {nobody}, admin : BOOLEAN]]
      BY <1>1, <2>3
    <2> HIDE DEF busy
    <2>6. \A u \in People : memberships[u].term + Cardinality(busy) <= steps
      <3>1. steps = 0
        BY <1>1
      <3>2. \A u \in People : memberships[u].term = 0
        BY <1>3
      <3>3. Cardinality(busy) = 0
        BY <2>2
      <3> QED
        BY ONLY <3>1, <3>2, <3>3
    <2> QED
      BY <1>1, <2>2, <2>4, <2>5, <2>6, Given DEF Counted
  <1> QED
    BY <1>4, <1>7, <1>8, <1>9, <1>10 DEF WorkspacesInv, Tables

\* For every number of people, pools, accounts, keys and requests: the tables
\* of a workspace keep what Tables says, and each request is counts once.
THEOREM WorkspacesInvariance == WorkspacesSpec => []WorkspacesInv
  BY WorkspacesStart, WorkspacesStep, PTL DEF WorkspacesSpec

-----------------------------------------------------------------------------
(* Who belongs to the workspace.                                              *)

LEMMA MembersTyped == WorkspacesInv => WorkspacesTypeOK /\ OwnerKept
  <1> SUFFICES ASSUME WorkspacesInv PROVE WorkspacesTypeOK /\ OwnerKept
    OBVIOUS
  <1> USE DEF WorkspacesInv, Tables
  <1>1. ASSUME NEW u \in People
        PROVE  memberships[u].term \in 0..MaxSteps
    <2>1. memberships[u].term \in Nat /\ Cardinality(busy) \in Nat
      BY FS_CardinalityType DEF MembersKnown, MemberRows, Counted
    <2>2. memberships[u].term + Cardinality(busy) <= steps /\ steps \in Nat /\ steps <= MaxSteps
      BY Given DEF Counted
    <2> QED
      BY <2>1, <2>2, Given
  <1>2. memberships \in [People -> [role : {"none", "owner", "admin", "member"}, enabled : BOOLEAN,
                                    removed : BOOLEAN, term : 0..MaxSteps]]
    BY <1>1 DEF MembersKnown, MemberRows
  <1>3. \A k \in Keys : api_keys[k].user \in People \cup {nobody} /\ api_keys[k].scheme \in Pools \cup {noPool}
    BY DEF KeysOfTerm, KeyRows
  <1>4. \A p \in Pools : allocation_schemes[p].members \subseteq People
    BY DEF PoolsKnown, SchemeRows
  <1>5. \A r \in Requests : actor(r) \in People \cup {nobody}
    BY DEF Counted, actor
  <1> QED
    BY <1>2, <1>3, <1>4, <1>5 DEF WorkspacesTypeOK, MembersKnown, PoolsKnown, GroupRows, Around, Strangers

\* Four transactions of managers write members' rows, two add a new account, and one issues links.
LEMMA RowsWritten ==
  ASSUME [WorkspacesNext]_wsVars, memberships' # memberships \/ links' # links
  PROVE  \/ \E r \in Requests : \/ memberAdded(r) \/ memberRole(r) \/ memberStatus(r) \/ removeMember(r)
                               \/ memberCreated(r) \/ invitationCreated(r)
         \/ (\E u \in People : registerInvitation(u)) \/ linkExpires
  <1>1. CASE surroundings
    BY <1>1 DEF surroundings, userSwitched, registeredElsewhere, suspend, keyExpires, schemeStarts, accountFails
  <1>2. ASSUME NEW r \in Requests, consoleStep(r)
        PROVE  memberAdded(r) \/ memberRole(r) \/ memberStatus(r) \/ removeMember(r) \/ memberCreated(r) \/ invitationCreated(r)
    <2>1. ~workspaceCreated(r) /\ ~setMemberGroups(r) /\ ~groupSaved(r) /\ ~schemeSaved(r) /\ ~recipientsChanged(r)
      BY DEF workspaceCreated, Create, setMemberGroups, SetMemberGroups, groupSaved, Save, schemeSaved, SaveScheme,
             recipientsChanged, UpdateMembers
    <2>2. ~schemeEnabled(r) /\ ~keyCreated(r) /\ ~keyUpdated(r) /\ ~keyRevoked(r)
      BY DEF schemeEnabled, SetEnabled, keyCreated, create, keyUpdated, Update, keyRevoked, keyRevoke
    <2>3. ~keyRebound(r) /\ ~accountDeleted(r) /\ ~requestEnds(r) /\ ~\E u \in People : requireUser(r, u)
      BY DEF keyRebound, Rebind, accountDeleted, Delete, requestEnds, requireUser, tables
    <2> QED
      BY <1>2, <2>1, <2>2, <2>3 DEF consoleStep
  <1> QED
    BY <1>1, <1>2 DEF WorkspacesNext, wsVars

\* Each of the five transactions of managers asks who they are in the transaction.
LEMMA AskedThen ==
  ASSUME WorkspacesInv, NEW r \in Requests,
         memberAdded(r) \/ memberRole(r) \/ memberStatus(r) \/ removeMember(r) \/ invitationCreated(r)
  PROVE  decided
  <1>1. CanManageTenant(actor(r)) /\ answered(r)
    BY DEF memberAdded, addMember, memberRole, SetMemberRole, memberStatus, setMemberStatus, removeMember,
           RemoveMember, mayRemove, invitationCreated, issueInvitation
  <1>2. signedIn(r) \/ requireAdminRole(r)
    BY DEF memberAdded, memberRole, memberStatus, removeMember, invitationCreated
  <1>3. actor(r) \in People /\ requests'[r] = Free
    BY <1>1, <1>2, UnderWay DEF WorkspacesInv, Counted, answered
  <1> QED
    BY <1>1, <1>3, Given DEF decided, signedIn

\* A new account's row is an ordinary member's, the only one that is written.
LEMMA NewcomerAlone ==
  ASSUME WorkspacesInv, NEW u \in People, AddNewMember(u), NEW v \in People, memberships'[v] # memberships[v]
  PROVE  /\ v = u /\ v \notin registered
         /\ memberships' = [memberships EXCEPT ![v] =
              [role |-> "member", enabled |-> TRUE, removed |-> FALSE, term |-> 0]]
         /\ UNCHANGED group_members
  <1>1. memberships[u].term = 0 /\ u \notin registered
    BY DEF WorkspacesInv, Tables, Around, Strangers, AddNewMember, NoRow
  <1>2. v = u
    BY DEF AddNewMember, WorkspacesInv, Tables, MembersKnown
  <1> QED
    BY <1>1, <1>2 DEF AddNewMember

\* A role is an administrator's only when it is read, and then its user manages the workspace.
LEMMA RolesRead ==
  ASSUME WorkspacesInv, [WorkspacesNext]_wsVars, NEW r \in Requests, requests'[r].admin, ~requests[r].admin
  PROVE  CanManageTenant(requests'[r].actor)
  <1> USE DEF WorkspacesInv, Counted
  <1>1. PICK x \in Requests : consoleStep(x)
    BY DEF WorkspacesNext, wsVars, surroundings
  <1>2. ASSUME answered(x)
        PROVE  FALSE
    BY <1>2 DEF answered, Free
  <1>3. PICK u \in People : requireUser(x, u)
    BY <1>1, <1>2, TransactionOK
  <1>4. x = r /\ requests'[r] = stateForTenant(u) /\ Membership(u)
    BY <1>3 DEF requireUser
  <1> QED
    BY <1>4 DEF stateForTenant, CanManageTenant

LEMMA ManagersOnly ==
  ASSUME WorkspacesInv, [WorkspacesNext]_wsVars
  PROVE  /\ \A u \in registered : memberships'[u] # memberships[u] => decided
         /\ links' > links => decided
         /\ \A r \in Requests : requests'[r].admin /\ ~requests[r].admin => CanManageTenant(requests'[r].actor)
         /\ \A u \in People \ registered : memberships'[u] # memberships[u] =>
              /\ memberships' = [memberships EXCEPT ![u] =
                   [role |-> "member", enabled |-> TRUE, removed |-> FALSE, term |-> 0]]
              /\ UNCHANGED group_members
              /\ \/ links' = links - 1 /\ ~suspended
                 \/ \E r \in Requests : requireAdminRole(r) /\ requests'[r] = Free
  <1>0. registered \subseteq People /\ links \in Nat
    BY DEF WorkspacesInv, Tables, Around
  <1>1. ASSUME NEW u \in registered, memberships'[u] # memberships[u]
        PROVE  decided
    <2>1. ASSUME NEW v \in People, AddNewMember(v)
          PROVE  FALSE
      BY <1>0, <1>1, <2>1, NewcomerAlone
    <2>2. ~linkExpires /\ ~\E v \in People : registerInvitation(v)
      BY <1>1, <2>1 DEF linkExpires, registerInvitation
    <2>3. ~\E r \in Requests : memberCreated(r)
      BY <2>1 DEF memberCreated, createMember
    <2> QED
      BY <1>1, <2>2, <2>3, RowsWritten, AskedThen
  <1>2. ASSUME links' > links
        PROVE  decided
    <2>1. PICK r \in Requests : invitationCreated(r)
      <3>1. links' # links /\ ~linkExpires /\ ~\E v \in People : registerInvitation(v)
        BY <1>0, <1>2 DEF linkExpires, registerInvitation
      <3>2. ASSUME NEW r \in Requests
            PROVE  ~memberAdded(r) /\ ~memberRole(r) /\ ~memberStatus(r) /\ ~removeMember(r) /\ ~memberCreated(r)
        BY <3>1 DEF memberAdded, addMember, memberRole, SetMemberRole, memberStatus, setMemberStatus, removeMember,
                    RemoveMember, memberCreated, createMember
      <3> QED
        BY <3>1, <3>2, RowsWritten
    <2> QED
      BY <2>1, AskedThen
  <1>3. ASSUME NEW u \in People \ registered, memberships'[u] # memberships[u]
        PROVE  /\ memberships' = [memberships EXCEPT ![u] =
                    [role |-> "member", enabled |-> TRUE, removed |-> FALSE, term |-> 0]]
               /\ UNCHANGED group_members
               /\ \/ links' = links - 1 /\ ~suspended
                  \/ \E r \in Requests : requireAdminRole(r) /\ requests'[r] = Free
    <2>1. memberships[u].role = "none" /\ ~userOn[u] /\ memberships[u].removed = FALSE
      BY DEF WorkspacesInv, Tables, Around, Strangers, NoRow
    <2>2. ASSUME NEW r \in Requests
          PROVE  ~memberAdded(r) /\ ~memberRole(r) /\ ~memberStatus(r) /\ ~removeMember(r) /\ ~invitationCreated(r)
      <3>1. memberships \in [People -> MemberRows]
        BY DEF WorkspacesInv, Tables, MembersKnown
      <3>2. ~memberAdded(r)
        BY <1>3, <2>1, <3>1 DEF memberAdded, addMember, AddTenantMember
      <3>3. ~memberRole(r) /\ ~memberStatus(r)
        BY <1>3, <2>1, <3>1 DEF memberRole, SetMemberRole, UpdateTenantMemberRole, memberStatus, setMemberStatus,
                                SetTenantMemberEnabled, MemberExistsInTenant
      <3>4. ~removeMember(r) /\ ~invitationCreated(r)
        BY <1>3, <2>1, <3>1 DEF removeMember, RemoveMember, mayRemove, RemoveTenantMember, MemberExistsInTenant,
                                invitationCreated, issueInvitation
      <3> QED
        BY <3>2, <3>3, <3>4
    <2>3. ASSUME NEW v \in People, registerInvitation(v)
          PROVE  AddNewMember(v) /\ links' = links - 1 /\ ~suspended
      BY <2>3 DEF registerInvitation
    <2>4. ASSUME NEW r \in Requests, memberCreated(r)
          PROVE  (\E v \in People : AddNewMember(v)) /\ requireAdminRole(r) /\ requests'[r] = Free
      BY <2>4 DEF memberCreated, createMember, answered, WorkspacesInv, Counted
    <2>5. ~linkExpires
      BY <1>3 DEF linkExpires
    <2> QED
      BY <1>3, <2>2, <2>3, <2>4, <2>5, RowsWritten, NewcomerAlone
  <1> QED
    BY <1>1, <1>2, <1>3, RolesRead

\* Who belongs to a workspace is decided by its managers, and its founder stays
\* its one owner, enabled.  A row of anybody with an account, and a link, is
\* written for a manager of that moment (addMember, SetMemberRole,
\* SetMemberEnabled, RemoveMember and CreateInvitation, whatever requireUser had
\* read); a new account joins as an ordinary member, for a role that was a
\* manager's when it was read (CreateMemberForTenant) or for a link
\* (RegisterInvitation).
THEOREM MembershipIsGuarded == WorkspacesSpec => MembershipGuarded
  <1>1. WorkspacesInv /\ [WorkspacesNext]_wsVars
          => [/\ \A u \in registered : memberships'[u] # memberships[u] => decided
              /\ links' > links => decided
              /\ \A r \in Requests : requests'[r].admin /\ ~requests[r].admin => CanManageTenant(requests'[r].actor)
              /\ \A u \in People \ registered : memberships'[u] # memberships[u] =>
                   /\ memberships' = [memberships EXCEPT ![u] =
                        [role |-> "member", enabled |-> TRUE, removed |-> FALSE, term |-> 0]]
                   /\ UNCHANGED group_members
                   /\ \/ links' = links - 1 /\ ~suspended
                      \/ \E r \in Requests : requireAdminRole(r) /\ requests'[r] = Free]_wsVars
    BY ManagersOnly
  <1> QED
    BY <1>1, MembersTyped, WorkspacesInvariance, PTL DEF WorkspacesSpec, MembershipGuarded, ManagersDecide

-----------------------------------------------------------------------------
(* Keys.                                                                      *)

\* A revoked key stays so: its row is new, not revoked, or written back as revoked.
LEMMA KeysStayRevoked ==
  ASSUME WorkspacesInv, [WorkspacesNext]_wsVars, NEW k \in Keys, api_keys[k].revoked
  PROVE  api_keys'[k].revoked
  <1>0. api_keys \in [Keys -> KeyRows] /\ api_keys[k] \in KeyRows
    BY DEF WorkspacesInv, Tables, KeysOfTerm
  <1>1. CASE UNCHANGED api_keys
    BY <1>1
  <1>3. ASSUME NEW a, NEW u \in People, RemoveMember(a, u)
        PROVE  api_keys'[k].revoked
    <2>1. \/ api_keys'[k] = [api_keys[k] EXCEPT !.revoked = TRUE]
          \/ api_keys'[k] = api_keys[k]
      BY <1>3 DEF RemoveMember, RevokeTenantMemberKeys
    <2> QED
      BY <1>0, <2>1 DEF KeyRows
  <1>4. ASSUME NEW p \in Pools, NEW members, NEW enabled, NEW startNext, SaveScheme(p, members, enabled, startNext)
        PROVE  api_keys'[k].revoked
    BY <1>0, <1>4 DEF SaveScheme, BindExistingAllocationKeys
  <1>5. ASSUME NEW u, NEW x \in Keys, NEW p, NEW inScheme, NEW expiry, create(u, x, p, inScheme, expiry)
        PROVE  api_keys'[k].revoked
    <2>1. x # k
      BY <1>5 DEF create, NoKey
    <2> QED
      BY <1>0, <1>5, <2>1 DEF create
  <1>6. ASSUME NEW u, NEW x \in Keys, NEW enabled, NEW expiry, Update(u, x, enabled, expiry)
        PROVE  api_keys'[k].revoked
    BY <1>0, <1>6 DEF Update, UpdateKey
  <1>7. ASSUME NEW u, NEW x \in Keys, keyRevoke(u, x)
        PROVE  api_keys'[k].revoked
    <2>1. CASE x = k
      <3>1. api_keys'[k] = [api_keys[k] EXCEPT !.revoked = TRUE]
        BY <1>0, <1>7, <2>1 DEF keyRevoke, RevokeKey
      <3> QED
        BY <1>0, <3>1 DEF KeyRows
    <2>2. CASE x # k
      BY <1>0, <1>7, <2>2 DEF keyRevoke, RevokeKey
    <2> QED
      BY <2>1, <2>2
  <1>8. ASSUME NEW u, NEW x \in Keys, NEW p, Rebind(u, x, p)
        PROVE  api_keys'[k].revoked
    BY <1>0, <1>8 DEF Rebind, mayRebind
  <1>9. ASSUME NEW x \in Keys, keyExpires(x)
        PROVE  api_keys'[k].revoked
    <2>1. api_keys'[k] = [api_keys[k] EXCEPT !.expiry = "past"] \/ api_keys'[k] = api_keys[k]
      BY <1>0, <1>9 DEF keyExpires
    <2> QED
      BY <1>0, <2>1 DEF KeyRows
  <1>10. CASE surroundings
    BY <1>1, <1>9, <1>10 DEF surroundings, userSwitched, registeredElsewhere, registerInvitation, AddNewMember,
                             linkExpires, suspend, schemeStarts, accountFails
  <1>11. ASSUME NEW r \in Requests, consoleStep(r), api_keys' # api_keys
         PROVE  api_keys'[k].revoked
    <2>1. \/ removeMember(r) \/ schemeSaved(r) \/ keyCreated(r) \/ keyUpdated(r) \/ keyRevoked(r)
          \/ keyRebound(r)
      <3>1. ~(\E u \in People : requireUser(r, u)) /\ ~requestEnds(r)
        BY <1>11 DEF requireUser, requestEnds, tables
      <3>2. /\ ~memberAdded(r) /\ ~memberRole(r) /\ ~memberStatus(r) /\ ~workspaceCreated(r) /\ ~memberCreated(r)
            /\ ~invitationCreated(r)
        BY <1>11 DEF memberAdded, addMember, memberRole, SetMemberRole, memberStatus, setMemberStatus,
                     workspaceCreated, Create, memberCreated, createMember, AddNewMember, invitationCreated,
                     issueInvitation
      <3>3. ~setMemberGroups(r) /\ ~groupSaved(r) /\ ~recipientsChanged(r) /\ ~schemeEnabled(r) /\ ~accountDeleted(r)
        BY <1>11 DEF setMemberGroups, SetMemberGroups, groupSaved, Save, recipientsChanged, UpdateMembers,
                     schemeEnabled, SetEnabled, accountDeleted, Delete
      <3> QED
        BY <1>11, <3>1, <3>2, <3>3 DEF consoleStep
    <2> QED
      BY <1>3, <1>4, <1>5, <1>6, <1>7, <1>8, <2>1
      DEF removeMember, schemeSaved, keyCreated, keyUpdated, keyRevoked, keyRebound
  <1> QED
    BY <1>1, <1>10, <1>11 DEF WorkspacesNext, wsVars

\* Neither a key nor a grant of an earlier membership comes back, and no
\* revoked key does (RemoveMember, AddTenantMember, SetMemberGroups and the
\* four operations on a key).
THEOREM KeysAreSound == WorkspacesSpec => KeysSound
  <1>1. WorkspacesInv => KeyOfThisMembership /\ GrantsOfMembers
    BY DEF WorkspacesInv, Tables, KeysOfTerm, KeyOfThisMembership, Authenticate, AuthenticateKey, keyActive
  <1>2. WorkspacesInv /\ [WorkspacesNext]_wsVars
          => [\A k \in Keys : api_keys[k].revoked => api_keys'[k].revoked]_wsVars
    BY KeysStayRevoked
  <1> QED
    BY <1>1, <1>2, WorkspacesInvariance, PTL DEF WorkspacesSpec, KeysSound, RevokedForEver

-----------------------------------------------------------------------------
(* Pools, and what the console says.                                          *)

\* A key is served in a reserved pool for its scheme's recipients alone.
LEMMA ReservedKeysOnly == ReservedPoolKeys
  BY DEF ReservedPoolKeys, Authenticate, KeyScheme, GetKeyAllocation, Authorize

\* A reserved pool serves the keys and the accounts of its scheme alone, and no
\* key is bound to another pool's (Save, SaveScheme, Delete and Rebind).
THEOREM PoolsAreReserved == WorkspacesSpec => []PoolsReserved
  <1>1. WorkspacesInv => PoolsReserved
    BY ReservedKeysOnly DEF WorkspacesInv, Tables, PoolsReserved
  <1> QED
    BY <1>1, WorkspacesInvariance, PTL

LEMMA ConsoleSound == WorkspacesInv => ConsoleTrue
  <1> SUFFICES ASSUME WorkspacesInv PROVE ConsoleTrue
    OBVIOUS
  <1>1. RestoreRestores
    BY DEF RestoreRestores, CanRestore, mayRebind, AuthenticateKey, GetKey, GetTenantGroup, CanUseGroup, keyActive
  <1>2. ChoicesUsable
    <2> SUFFICES ASSUME NEW u \in People, NEW p \in Pools
                 PROVE  p \in groupChoices(u) <=> \E inScheme \in BOOLEAN : keyScope(u, p, inScheme)
      BY DEF ChoicesUsable, groupChoices, ListAvailableGroups
    <2>1. (\E inScheme \in BOOLEAN : keyScope(u, p, inScheme))
            <=> userOn[u] /\ CanUseGroup(u, p) /\ (Authorize(p, u, p) \/ ~GetPoolAllocation(p))
      BY DEF keyScope
    <2>2. CanUseGroup(u, p) => userOn[u]
      BY DEF CanUseGroup, Membership
    <2>3. p \in groupChoices(u)
            <=> CanUseGroup(u, p) /\ (GetPoolAllocation(p) => p \in Own(u) /\ Available(p, u))
      BY DEF groupChoices, ListAvailableGroups
    <2>4. Authorize(p, u, p) <=> GetPoolAllocation(p) /\ p \in Own(u) /\ Available(p, u)
      BY DEF Authorize, Own, Available, CanUseAllocation
    <2> QED
      BY <2>1, <2>2, <2>3, <2>4
  <1>3. ReadinessTrue
    BY DEF ReadinessTrue, HasUsableKey, ListKeyReadinessCandidates, Authenticate, routable, AllowsProvider
  <1>4. RemovalOffered
    <2>1. \A u \in People : memberships[u].role \in {"none", "owner", "admin", "member"}
      BY DEF WorkspacesInv, Tables, MembersKnown, MemberRows
    <2> QED
      BY <2>1 DEF RemovalOffered, CanRemove, mayRemove, MemberExistsInTenant
  <1> QED
    BY <1>1, <1>2, <1>3, <1>4 DEF ConsoleTrue

\* What the console offers, or calls usable, is what the operations accept
\* (describeKey, groupChoices, listMembers and the readiness query).
THEOREM ConsoleIsTrue == WorkspacesSpec => []ConsoleTrue
  BY ConsoleSound, WorkspacesInvariance, PTL
=============================================================================
