----------------------------- MODULE Workspaces -----------------------------
(* One workspace: its members, the pools of accounts they may use, their API  *)
(* keys and the allowance scheme a pool may be reserved by.  internal/tenants,*)
(* internal/groups, internal/apikey and the binding half of                   *)
(* internal/allocations, with the queries they run and the handlers that call *)
(* them.                                                                      *)
(*                                                                            *)
(* Every service is built for one tenant and every query carries its id, so   *)
(* one workspace is modelled.  SQLite has one connection: a transaction is    *)
(* one step.  A console request is two: requireUser reads the membership and  *)
(* keeps the role in the request, the handler's transaction runs later, when  *)
(* the role may have changed.  A refused call changes nothing and is not an   *)
(* action.  A scheme's rules and revisions are in the module Schemes: here a  *)
(* scheme is its recipients and whether its first revision is in effect.      *)
EXTENDS Integers, FiniteSets

CONSTANTS
  People,         \* user names, with or without an account
  Founder,        \* the workspace's owner
  Pools, Accounts, Keys,
  Channels,       \* the accounts with provider "openai"
  Requests,       \* console requests in flight
  MaxGroups, MaxActiveKeys, MaxSchemes, MaxOwned,
  MaxSteps        \* bound: console requests and other events of a behaviour

nobody == "nobody"
noPool == "none"

ASSUME WorkspacesAssumption ==
  /\ Founder \in People /\ Channels \subseteq Accounts
  /\ {MaxGroups, MaxActiveKeys, MaxSchemes, MaxSteps} \subseteq Nat /\ MaxOwned \in Nat \ {0}
  /\ nobody \notin People /\ noPool \notin Pools

VARIABLES
  userOn,             \* [People -> users.enabled]
  registered,         \* people with an account
  links,              \* invitations of the workspace that are unused and unexpired
  owned,              \* [People -> workspaces they own]
  suspended,
  memberships,        \* [People -> row]
  account_groups,     \* [Pools -> row]
  group_accounts,     \* [Pools -> SUBSET Accounts]
  group_members,      \* grants, <<user, pool>>
  accountState,       \* [Accounts -> "ready", "attention", "gone"]
  api_keys,           \* [Keys -> row]; scheme is the row of allocation_keys
  allocation_schemes, \* [Pools -> row]: a scheme belongs to one pool for ever
  requests,           \* [Requests -> the request's user and the role read for it]
  steps

wsVars == <<userOn, registered, links, owned, suspended, memberships, account_groups, group_accounts,
            group_members, accountState, api_keys, allocation_schemes, requests, steps>>

Free == [actor |-> nobody, admin |-> FALSE]
NoRow == [role |-> "none", enabled |-> FALSE, removed |-> FALSE, term |-> 0]
NoKey == [user |-> nobody, pool |-> noPool, revoked |-> FALSE, enabled |-> TRUE,
          expiry |-> "never", scheme |-> noPool, term |-> 0]
NoScheme == [exists |-> FALSE, enabled |-> FALSE, live |-> FALSE, members |-> {}]

-----------------------------------------------------------------------------
(* Queries.                                                                   *)

\* A removed row is disabled (a CHECK of the table).
Membership(u) == ~suspended /\ memberships[u].enabled /\ userOn[u]

CanManageTenant(u) == Membership(u) /\ memberships[u].role \in {"owner", "admin"}

MemberExistsInTenant(u) == memberships[u].role # "none" /\ ~memberships[u].removed

\* The view effective_group_access.
CanUseGroup(u, p) ==
  /\ Membership(u)
  /\ account_groups[p].exists /\ account_groups[p].enabled
  /\ memberships[u].role \in {"owner", "admin"} \/ <<u, p>> \in group_members

GetTenantGroup(p) == account_groups[p].exists

GroupAccountExists(a) == accountState[a] # "gone"

GetPoolAllocation(p) == allocation_schemes[p].exists

GetKeyAllocation(k) == api_keys[k].scheme

CanUseAllocation(s, u) == allocation_schemes[s].enabled /\ CanUseGroup(u, s)

\* GetKey: the key's row, for its user only.
GetKey(u, k) == api_keys[k].user = u

CountActiveKeys(u) == Cardinality({k \in Keys : api_keys[k].user = u /\ ~api_keys[k].revoked})

keyActive(k) == ~api_keys[k].revoked /\ api_keys[k].enabled /\ api_keys[k].expiry # "past"

AuthenticateKey(k) ==
  api_keys[k].user # nobody /\ keyActive(k) /\ CanUseGroup(api_keys[k].user, api_keys[k].pool)

GroupHasSubscriptions(p) == \E a \in group_accounts[p] : a \notin Channels

mRoutable(p) == {a \in group_accounts[p] : a \notin Channels \/ ~account_groups[p].subscriptionOnly}

\* The view routable_group_resources.
routable(p) ==
  {a \in group_accounts[p] : a \notin Channels \/ ~account_groups[p].subscriptionOnly
                              \/ ~GroupHasSubscriptions(p)}

ListKeyReadinessCandidates(u) ==
  {k \in Keys : /\ api_keys[k].user = u /\ AuthenticateKey(k)
                /\ \E a \in routable(api_keys[k].pool) : accountState[a] = "ready"}

ListAvailableGroups(u) == {p \in Pools : CanUseGroup(u, p)}

\* AllocationPoolAccounts: an account of the pool that is in another pool too.
sharedAccounts(p) == {a \in group_accounts[p] : \E q \in Pools \ {p} : a \in group_accounts[q]}

CountGroups == Cardinality({p \in Pools : GetTenantGroup(p)})

ListAllocationSchemes == {p \in Pools : GetPoolAllocation(p)}

AccountHasAllocation(a) == \E p \in Pools : GetPoolAllocation(p) /\ a \in group_accounts[p]

-----------------------------------------------------------------------------
(* Reads of the services.                                                     *)

\* Current refuses a scheme whose first revision is still to come.
Authorize(s, u, p) ==
  /\ GetPoolAllocation(s) /\ s = p
  /\ CanUseAllocation(s, u)
  /\ allocation_schemes[s].live /\ u \in allocation_schemes[s].members

\* An unbound key is refused by a reserved pool.
KeyScheme(k) ==
  IF GetKeyAllocation(k) = noPool
  THEN ~GetPoolAllocation(api_keys[k].pool)
  ELSE Authorize(GetKeyAllocation(k), api_keys[k].user, api_keys[k].pool)

Authenticate(k) == AuthenticateKey(k) /\ KeyScheme(k)

\* CatalogGroup: model discovery for a key, without its secret.
CatalogGroup(u, k) ==
  GetKey(u, k) /\ keyActive(k) /\ KeyScheme(k) /\ CanUseGroup(u, api_keys[k].pool)

HasUsableKey(u) == \E k \in ListKeyReadinessCandidates(u) : KeyScheme(k)

mCanRestore(k) ==
  LET key == api_keys[k] IN
  /\ key.user # nobody /\ ~KeyScheme(k) /\ key.scheme = noPool
  /\ Authorize(key.pool, key.user, key.pool)

\* describeKey: a key left out of its pool's scheme that Rebind would bind.
CanRestore(k) ==
  LET key == api_keys[k] IN
  /\ key.user # nobody /\ ~KeyScheme(k) /\ key.scheme = noPool
  /\ CanUseGroup(key.user, key.pool) /\ keyActive(k)
  /\ Authorize(key.pool, key.user, key.pool)

\* AllowsProvider: what a request admitted to the pool may be sent to.
AllowsProvider(p, a) ==
  ~(a \in Channels /\ GroupHasSubscriptions(p) /\ account_groups[p].subscriptionOnly)

\* Detail: the scheme is offered to the member; Own lists those it finds.
Available(s, u) ==
  allocation_schemes[s].enabled /\ allocation_schemes[s].live /\ CanUseAllocation(s, u)

Own(u) == {s \in Pools : GetPoolAllocation(s) /\ CanUseAllocation(s, u)
                          /\ u \in allocation_schemes[s].members}

groupChoices(u) ==
  {p \in ListAvailableGroups(u) : GetPoolAllocation(p) => p \in Own(u) /\ Available(p, u)}

\* listMembers' can_remove, for the actor a.
CanRemove(a, u) ==
  /\ u # a /\ memberships[u].role # "owner"
  /\ memberships[u].role = "member" \/ memberships[a].role = "owner"

-----------------------------------------------------------------------------
(* Transactions of the services, for the user `a' that asks.                  *)

tables == <<userOn, registered, links, owned, suspended, memberships, account_groups, group_accounts,
            group_members, accountState, api_keys, allocation_schemes>>

\* AddTenantMember: a row that was removed starts a new term.
AddTenantMember(u, role) ==
  /\ userOn[u]
  /\ memberships' = [memberships EXCEPT ![u] =
       [role |-> role, enabled |-> TRUE, removed |-> FALSE, term |-> @.term]]

\* By user name the row must be new; by id it may exist and is updated.
addMember(a, u, role, byName) ==
  /\ CanManageTenant(a) /\ u # Founder
  /\ byName => ~MemberExistsInTenant(u)
  /\ AddTenantMember(u, role)
  /\ UNCHANGED <<userOn, registered, links, owned, suspended, account_groups, group_accounts, group_members,
                 accountState, api_keys, allocation_schemes>>

\* CreateMember and AddNewMember: an account and its row of memberships, in one transaction.
AddNewMember(u) ==
  /\ u \notin registered
  /\ registered' = registered \cup {u}
  /\ userOn' = [userOn EXCEPT ![u] = TRUE]
  /\ memberships' = [memberships EXCEPT ![u] =
       [role |-> "member", enabled |-> TRUE, removed |-> FALSE, term |-> @.term]]
  /\ UNCHANGED <<owned, suspended, account_groups, group_accounts, group_members, accountState, api_keys,
                 allocation_schemes>>

\* CreateMemberForTenant: unlike addMember's, its transaction asks for nobody's role.
createMember(u) == AddNewMember(u) /\ UNCHANGED links

\* CreateInvitation.
issueInvitation(a) ==
  /\ CanManageTenant(a)
  /\ links' = links + 1
  /\ UNCHANGED <<userOn, registered, owned, suspended, memberships, account_groups, group_accounts,
                 group_members, accountState, api_keys, allocation_schemes>>

mRegisterInvitation(u) == links > 0 /\ ~suspended /\ createMember(u)

\* RegisterInvitation, for anybody who holds a link; Identity has the two steps of the call.
registerInvitation(u) ==
  /\ links > 0 /\ ~suspended
  /\ AddNewMember(u)
  /\ links' = links - 1

UpdateTenantMemberRole(u, role) == [memberships EXCEPT ![u].role = role]

mSetMemberRole(a, u, role) ==
  /\ a # u /\ MemberExistsInTenant(u) /\ memberships[u].role # "owner"
  /\ memberships' = UpdateTenantMemberRole(u, role)
  /\ UNCHANGED <<userOn, registered, links, owned, suspended, account_groups, group_accounts, group_members,
                 accountState, api_keys, allocation_schemes>>

SetMemberRole(a, u, role) ==
  /\ a # u /\ CanManageTenant(a)
  /\ MemberExistsInTenant(u) /\ memberships[u].role # "owner"
  /\ role = "admin" => memberships[u].enabled /\ userOn[u]
  /\ memberships' = UpdateTenantMemberRole(u, role)
  /\ UNCHANGED <<userOn, registered, links, owned, suspended, account_groups, group_accounts, group_members,
                 accountState, api_keys, allocation_schemes>>

SetTenantMemberEnabled(u, enabled) == memberships[u].role = "member" /\ MemberExistsInTenant(u)

setMemberStatus(a, u, enabled) ==
  /\ CanManageTenant(a) /\ SetTenantMemberEnabled(u, enabled)
  /\ memberships' = [memberships EXCEPT ![u].enabled = enabled]
  /\ UNCHANGED <<userOn, registered, links, owned, suspended, account_groups, group_accounts, group_members,
                 accountState, api_keys, allocation_schemes>>

mRevokeTenantMemberKeys(u) == api_keys

RevokeTenantMemberKeys(u) ==
  [k \in Keys |-> IF api_keys[k].user = u THEN [api_keys[k] EXCEPT !.revoked = TRUE] ELSE api_keys[k]]

ClearMemberGroups(u) == {g \in group_members : g[1] # u}

\* The row is kept, disabled: allowance reports still name its user.
RemoveTenantMember(u) ==
  [memberships EXCEPT ![u] = [memberships[u] EXCEPT !.enabled = FALSE, !.removed = TRUE,
                                                     !.term = memberships[u].term + 1]]

mayRemove(a, u) ==
  /\ a # u /\ CanManageTenant(a) /\ MemberExistsInTenant(u)
  /\ memberships[u].role # "owner"
  /\ memberships[u].role = "admin" => memberships[a].role = "owner"

RemoveMember(a, u) ==
  /\ mayRemove(a, u)
  /\ memberships' = RemoveTenantMember(u)
  /\ group_members' = ClearMemberGroups(u)
  /\ api_keys' = RevokeTenantMemberKeys(u)
  /\ UNCHANGED <<userOn, registered, links, owned, suspended, account_groups, group_accounts, accountState,
                 allocation_schemes>>

\* Create: a further workspace of its owner.
Create(a) ==
  /\ userOn[a] /\ owned[a] < MaxOwned
  /\ owned' = [owned EXCEPT ![a] = @ + 1]
  /\ UNCHANGED <<userOn, registered, links, suspended, memberships, account_groups, group_accounts, group_members,
                 accountState, api_keys, allocation_schemes>>

GrantMemberGroup(u, granted) == {u} \X granted

SetMemberGroups(u, granted) ==
  /\ MemberExistsInTenant(u) /\ \A p \in granted : GetTenantGroup(p)
  /\ group_members' = ClearMemberGroups(u) \cup GrantMemberGroup(u, granted)
  /\ UNCHANGED <<userOn, registered, links, owned, suspended, memberships, account_groups, group_accounts,
                 accountState, api_keys, allocation_schemes>>

\* The trigger allocation_exclusive_account on the pool's new rows.
AddGroupAccount(p, chosen) ==
  \A q \in Pools \ {p} : GetPoolAllocation(q) => chosen \cap group_accounts[q] = {}

\* Save: a reserved pool keeps its accounts, any other replaces them.
Save(p, enabled, subscriptionOnly, chosen) ==
  /\ ~GetTenantGroup(p) => CountGroups < MaxGroups
  /\ \A a \in chosen : GroupAccountExists(a)
  /\ IF GetPoolAllocation(p) THEN chosen = group_accounts[p] ELSE AddGroupAccount(p, chosen)
  /\ account_groups' = [account_groups EXCEPT ![p] =
       [exists |-> TRUE, enabled |-> enabled, subscriptionOnly |-> subscriptionOnly]]
  /\ group_accounts' = [group_accounts EXCEPT ![p] = chosen]
  /\ UNCHANGED <<userOn, registered, links, owned, suspended, memberships, group_members, accountState, api_keys,
                 allocation_schemes>>

validateRecipients(p, members) == \A u \in members : CanUseGroup(u, p)

BindExistingAllocationKeys(p, members) ==
  [k \in Keys |->
     IF api_keys[k].pool = p /\ api_keys[k].user \in members /\ ~api_keys[k].revoked
        /\ GetKeyAllocation(k) = noPool
     THEN [api_keys[k] EXCEPT !.scheme = p] ELSE api_keys[k]]

mMayReserve(p) == group_accounts[p] # {}

\* SaveScheme: accounts of the pool serve no other pool.
mayReserve(p) == group_accounts[p] # {} /\ sharedAccounts(p) = {}

\* SaveScheme with no id: the pool is reserved and its recipients' keys bound.
SaveScheme(p, members, enabled, startNext) ==
  /\ GetTenantGroup(p) /\ ~GetPoolAllocation(p) /\ members # {}
  /\ validateRecipients(p, members) /\ mayReserve(p)
  /\ Cardinality(ListAllocationSchemes) < MaxSchemes
  /\ allocation_schemes' = [allocation_schemes EXCEPT ![p] =
       [exists |-> TRUE, enabled |-> enabled, live |-> ~startNext, members |-> members]]
  /\ api_keys' = BindExistingAllocationKeys(p, members)
  /\ UNCHANGED <<userOn, registered, links, owned, suspended, memberships, account_groups, group_accounts,
                 group_members, accountState>>

\* A change of recipients binds no key: describeKey offers its restoration.
UpdateMembers(p, members) ==
  /\ GetPoolAllocation(p) /\ allocation_schemes[p].live /\ members # {}
  /\ validateRecipients(p, members)
  /\ allocation_schemes' = [allocation_schemes EXCEPT ![p].members = members]
  /\ UNCHANGED <<userOn, registered, links, owned, suspended, memberships, account_groups, group_accounts,
                 group_members, accountState, api_keys>>

SetEnabled(p, enabled) ==
  /\ GetPoolAllocation(p)
  /\ allocation_schemes' = [allocation_schemes EXCEPT ![p].enabled = enabled]
  /\ UNCHANGED <<userOn, registered, links, owned, suspended, memberships, account_groups, group_accounts,
                 group_members, accountState, api_keys>>

mayCreateKey(u) == CountActiveKeys(u) < MaxActiveKeys

\* CreateWithExpiry for a pool, CreateInScheme for a scheme's pool.
keyScope(u, p, inScheme) ==
  /\ userOn[u] /\ CanUseGroup(u, p)
  /\ IF inScheme THEN Authorize(p, u, p) ELSE ~GetPoolAllocation(p)

CreateKey(u, p, inScheme, expiry) ==
  [user |-> u, pool |-> p, revoked |-> FALSE, enabled |-> TRUE, expiry |-> expiry,
   scheme |-> IF inScheme THEN p ELSE noPool, term |-> memberships[u].term]

create(u, k, p, inScheme, expiry) ==
  /\ api_keys[k] = NoKey
  /\ keyScope(u, p, inScheme) /\ GetTenantGroup(p) /\ mayCreateKey(u)
  /\ api_keys' = [api_keys EXCEPT ![k] = CreateKey(u, p, inScheme, expiry)]
  /\ UNCHANGED <<userOn, registered, links, owned, suspended, memberships, account_groups, group_accounts,
                 group_members, accountState, allocation_schemes>>

mUpdate(u, k, enabled, expiry) ==
  /\ GetKey(u, k)
  /\ expiry # "past"
  /\ api_keys' = [api_keys EXCEPT ![k] = [@ EXCEPT !.enabled = enabled, !.expiry = expiry, !.revoked = FALSE]]
  /\ UNCHANGED <<userOn, registered, links, owned, suspended, memberships, account_groups, group_accounts,
                 group_members, accountState, allocation_schemes>>

UpdateKey(k, enabled, expiry) ==
  [api_keys EXCEPT ![k] = [@ EXCEPT !.enabled = enabled, !.expiry = expiry]]

\* A deadline in the past is only kept, never set.
Update(u, k, enabled, expiry) ==
  /\ GetKey(u, k) /\ ~api_keys[k].revoked
  /\ expiry = "past" => api_keys[k].expiry = "past"
  /\ api_keys' = UpdateKey(k, enabled, expiry)
  /\ UNCHANGED <<userOn, registered, links, owned, suspended, memberships, account_groups, group_accounts,
                 group_members, accountState, allocation_schemes>>

RevokeKey(k) == [api_keys EXCEPT ![k].revoked = TRUE]

keyRevoke(u, k) ==
  /\ GetKey(u, k)
  /\ api_keys' = RevokeKey(k)
  /\ UNCHANGED <<userOn, registered, links, owned, suspended, memberships, account_groups, group_accounts,
                 group_members, accountState, allocation_schemes>>

\* Both bindings of the key are replaced.
RebindKeyGroup(k, p) ==
  [api_keys[k] EXCEPT !.pool = p, !.scheme = IF GetPoolAllocation(p) THEN p ELSE noPool]

mayRebind(u, k, p) ==
  /\ GetKey(u, k) /\ ~api_keys[k].revoked
  /\ GetTenantGroup(p) /\ CanUseGroup(u, p)
  /\ GetPoolAllocation(p) => Authorize(p, u, p)

Rebind(u, k, p) ==
  /\ mayRebind(u, k, p)
  /\ api_keys' = [api_keys EXCEPT ![k] = RebindKeyGroup(k, p)]
  /\ UNCHANGED <<userOn, registered, links, owned, suspended, memberships, account_groups, group_accounts,
                 group_members, accountState, allocation_schemes>>

\* accounts.Delete: the account leaves its pools, unless a scheme holds it.
Delete(a) ==
  /\ GroupAccountExists(a) /\ ~AccountHasAllocation(a)
  /\ accountState' = [accountState EXCEPT ![a] = "gone"]
  /\ group_accounts' = [p \in Pools |-> group_accounts[p] \ {a}]
  /\ UNCHANGED <<userOn, registered, links, owned, suspended, memberships, account_groups, group_members, api_keys,
                 allocation_schemes>>

-----------------------------------------------------------------------------
(* The console.                                                               *)

counts == steps < MaxSteps /\ steps' = steps + 1
actor(r) == requests[r].actor
answered(r) == requests' = [requests EXCEPT ![r] = Free] /\ UNCHANGED steps

\* stateForTenant: an owner or an administrator of the workspace is an admin.
stateForTenant(u) == [actor |-> u, admin |-> memberships[u].role \in {"owner", "admin"}]

requireUser(r, u) ==
  /\ requests[r] = Free /\ Membership(u)
  /\ requests' = [requests EXCEPT ![r] = stateForTenant(u)]
  /\ counts /\ UNCHANGED tables

signedIn(r) == actor(r) # nobody
requireAdminRole(r) == requests[r].admin

memberAdded(r) == signedIn(r) /\ \E u \in People, role \in {"admin", "member"}, byName \in BOOLEAN :
  addMember(actor(r), u, role, byName) /\ answered(r)

mMemberCreated(r) == signedIn(r) /\ \E u \in People : createMember(u) /\ answered(r)

\* The role is the one requireUser read, before the password was hashed.
memberCreated(r) == requireAdminRole(r) /\ \E u \in People : createMember(u) /\ answered(r)

invitationCreated(r) == requireAdminRole(r) /\ issueInvitation(actor(r)) /\ answered(r)

memberRole(r) == requireAdminRole(r) /\ \E u \in People, role \in {"admin", "member"} :
  SetMemberRole(actor(r), u, role) /\ answered(r)

memberStatus(r) == requireAdminRole(r) /\ \E u \in People, enabled \in BOOLEAN :
  setMemberStatus(actor(r), u, enabled) /\ answered(r)

removeMember(r) == requireAdminRole(r) /\ \E u \in People :
  RemoveMember(actor(r), u) /\ answered(r)

workspaceCreated(r) == signedIn(r) /\ Create(actor(r)) /\ answered(r)

setMemberGroups(r) == requireAdminRole(r) /\ \E u \in People, granted \in SUBSET Pools :
  SetMemberGroups(u, granted) /\ answered(r)

groupSaved(r) == requireAdminRole(r) /\ \E p \in Pools, enabled, subscriptionOnly \in BOOLEAN, chosen \in SUBSET Accounts :
  Save(p, enabled, subscriptionOnly, chosen) /\ answered(r)

schemeSaved(r) == requireAdminRole(r) /\ \E p \in Pools, members \in SUBSET People, enabled, startNext \in BOOLEAN :
  SaveScheme(p, members, enabled, startNext) /\ answered(r)

recipientsChanged(r) == requireAdminRole(r) /\ \E p \in Pools, members \in SUBSET People :
  UpdateMembers(p, members) /\ answered(r)

schemeEnabled(r) == requireAdminRole(r) /\ \E p \in Pools, enabled \in BOOLEAN :
  SetEnabled(p, enabled) /\ answered(r)

keyCreated(r) == signedIn(r) /\ \E k \in Keys, p \in Pools, inScheme \in BOOLEAN, expiry \in {"never", "later"} :
  create(actor(r), k, p, inScheme, expiry) /\ answered(r)

keyUpdated(r) == signedIn(r) /\ \E k \in Keys, enabled \in BOOLEAN, expiry \in {"never", "later", "past"} :
  Update(actor(r), k, enabled, expiry) /\ answered(r)

keyRevoked(r) == signedIn(r) /\ \E k \in Keys : keyRevoke(actor(r), k) /\ answered(r)

keyRebound(r) == signedIn(r) /\ \E k \in Keys, p \in Pools : Rebind(actor(r), k, p) /\ answered(r)

accountDeleted(r) == requireAdminRole(r) /\ \E a \in Accounts : Delete(a) /\ answered(r)

requestEnds(r) == signedIn(r) /\ answered(r) /\ UNCHANGED tables

-----------------------------------------------------------------------------
(* What happens around the workspace.                                         *)

\* The platform enables or disables a user (Identity's SetMemberEnabled).
userSwitched(u) ==
  /\ u # Founder /\ u \in registered
  /\ userOn' = [userOn EXCEPT ![u] = ~@]
  /\ UNCHANGED <<registered, links, owned, suspended, memberships, account_groups, group_accounts,
                 group_members, accountState, api_keys, allocation_schemes>>

\* An account made in another workspace.
registeredElsewhere(u) ==
  /\ u \notin registered
  /\ registered' = registered \cup {u} /\ userOn' = [userOn EXCEPT ![u] = TRUE]
  /\ UNCHANGED <<links, owned, suspended, memberships, account_groups, group_accounts, group_members,
                 accountState, api_keys, allocation_schemes>>

linkExpires ==
  /\ links > 0 /\ links' = links - 1
  /\ UNCHANGED <<userOn, registered, owned, suspended, memberships, account_groups, group_accounts,
                 group_members, accountState, api_keys, allocation_schemes>>

suspend ==
  /\ suspended' = TRUE
  /\ UNCHANGED <<userOn, registered, links, owned, memberships, account_groups, group_accounts, group_members,
                 accountState, api_keys, allocation_schemes>>

\* A key's deadline passes.
keyExpires(k) ==
  /\ api_keys[k].expiry = "later"
  /\ api_keys' = [api_keys EXCEPT ![k].expiry = "past"]
  /\ UNCHANGED <<userOn, registered, links, owned, suspended, memberships, account_groups, group_accounts,
                 group_members, accountState, allocation_schemes>>

schemeStarts(p) ==
  /\ GetPoolAllocation(p) /\ ~allocation_schemes[p].live
  /\ allocation_schemes' = [allocation_schemes EXCEPT ![p].live = TRUE]
  /\ UNCHANGED <<userOn, registered, links, owned, suspended, memberships, account_groups, group_accounts,
                 group_members, accountState, api_keys>>

accountFails(a) ==
  /\ accountState[a] = "ready"
  /\ accountState' = [accountState EXCEPT ![a] = "attention"]
  /\ UNCHANGED <<userOn, registered, links, owned, suspended, memberships, account_groups, group_accounts,
                 group_members, api_keys, allocation_schemes>>

surroundings ==
  /\ counts /\ UNCHANGED requests
  /\ \/ \E u \in People : userSwitched(u) \/ registeredElsewhere(u) \/ registerInvitation(u)
     \/ suspend \/ linkExpires
     \/ \E k \in Keys : keyExpires(k)
     \/ \E p \in Pools : schemeStarts(p)
     \/ \E a \in Accounts : accountFails(a)

-----------------------------------------------------------------------------
foundingRow(u) ==
  IF u = Founder THEN [role |-> "owner", enabled |-> TRUE, removed |-> FALSE, term |-> 0] ELSE NoRow

\* A workspace in use: one pool with one account, one member holding a key; nobody else has an account.
WorkspacesInit ==
  \E m \in People \ {Founder} : \E p \in Pools : \E a \in Accounts \ Channels : \E k \in Keys :
    /\ registered = {Founder, m} /\ userOn = [u \in People |-> u \in registered] /\ links = 0
    /\ owned = [u \in People |-> IF u = Founder THEN 1 ELSE 0]
    /\ suspended = FALSE
    /\ memberships = [u \in People |->
         IF u = m THEN [foundingRow(Founder) EXCEPT !.role = "member"] ELSE foundingRow(u)]
    /\ account_groups = [q \in Pools |-> [exists |-> q = p, enabled |-> q = p, subscriptionOnly |-> FALSE]]
    /\ group_accounts = [q \in Pools |-> IF q = p THEN {a} ELSE {}]
    /\ group_members = {<<m, p>>}
    /\ accountState = [x \in Accounts |-> "ready"]
    /\ api_keys = [x \in Keys |-> IF x = k THEN [NoKey EXCEPT !.user = m, !.pool = p] ELSE NoKey]
    /\ allocation_schemes = [q \in Pools |-> NoScheme]
    /\ requests = [r \in Requests |-> Free]
    /\ steps = 0

consoleStep(r) ==
  \/ \E u \in People : requireUser(r, u)
  \/ memberAdded(r) \/ memberRole(r) \/ memberStatus(r) \/ removeMember(r) \/ workspaceCreated(r)
  \/ memberCreated(r) \/ invitationCreated(r)
  \/ setMemberGroups(r) \/ groupSaved(r) \/ schemeSaved(r) \/ recipientsChanged(r) \/ schemeEnabled(r)
  \/ keyCreated(r) \/ keyUpdated(r) \/ keyRevoked(r) \/ keyRebound(r)
  \/ accountDeleted(r) \/ requestEnds(r)

WorkspacesNext == (\E r \in Requests : consoleStep(r)) \/ surroundings

WorkspacesSpec == WorkspacesInit /\ [][WorkspacesNext]_wsVars

-----------------------------------------------------------------------------
(* Properties.                                                                *)

\* The types of the tables; a removed row is disabled, as the table's CHECK says, and a row is someone's
\* who has an account.
WorkspacesTypeOK ==
  /\ registered \subseteq People /\ links \in Nat
  /\ \A u \in People \ registered : memberships[u] = NoRow /\ ~userOn[u]
  /\ userOn \in [People -> BOOLEAN] /\ owned \in [People -> 0..MaxOwned] /\ suspended \in BOOLEAN
  /\ memberships \in [People -> [role : {"none", "owner", "admin", "member"}, enabled : BOOLEAN,
                                  removed : BOOLEAN, term : 0..MaxSteps]]
  /\ \A u \in People : memberships[u].removed => ~memberships[u].enabled
  /\ account_groups \in [Pools -> [exists : BOOLEAN, enabled : BOOLEAN, subscriptionOnly : BOOLEAN]]
  /\ group_accounts \in [Pools -> SUBSET Accounts]
  /\ group_members \subseteq People \X Pools
  /\ accountState \in [Accounts -> {"ready", "attention", "gone"}]
  /\ \A k \in Keys : api_keys[k].user \in People \cup {nobody} /\ api_keys[k].scheme \in Pools \cup {noPool}
  /\ \A p \in Pools : allocation_schemes[p].members \subseteq People
  /\ \A r \in Requests : actor(r) \in People \cup {nobody}

\* The founder stays the workspace's only owner, enabled: no sequence of role
\* changes, additions by id, removals and status changes demotes, disables or
\* removes it or makes a second owner (addMember, SetMemberRole, RemoveMember).
OwnerKept ==
  /\ memberships[Founder].role = "owner" /\ memberships[Founder].enabled
  /\ \A u \in People \ {Founder} : memberships[u].role # "owner"

\* The step is taken for someone who manages the workspace at that moment.
decided == \E r \in Requests : signedIn(r) /\ requests'[r] = Free /\ CanManageTenant(actor(r))

\* Who belongs to the workspace, and as what.  The row of anybody who has an
\* account is written for someone who manages the workspace at that moment: a
\* role read by requireUser and lost before the transaction runs is not enough
\* (CanManageTenant in addMember, SetMemberRole, SetMemberEnabled and
\* RemoveMember), and neither is it for a link (CreateInvitation).  A new account
\* is not so guarded: it joins for a request whose role was read as a manager's,
\* which may have been lost while the password was hashed, or spends one link of
\* a workspace that is not suspended (RegisterInvitation).  But it joins alone,
\* as an ordinary member with no grant of a pool.
ManagersDecide ==
  [][/\ \A u \in registered : memberships'[u] # memberships[u] => decided
     /\ links' > links => decided
     /\ \A r \in Requests : requests'[r].admin /\ ~requests[r].admin => CanManageTenant(requests'[r].actor)
     /\ \A u \in People \ registered : memberships'[u] # memberships[u] =>
          /\ memberships' = [memberships EXCEPT ![u] =
               [role |-> "member", enabled |-> TRUE, removed |-> FALSE, term |-> 0]]
          /\ UNCHANGED group_members
          /\ \/ links' = links - 1 /\ ~suspended
             \/ \E r \in Requests : requireAdminRole(r) /\ requests'[r] = Free]_wsVars

\* A key authenticates only in the membership it was created in: removing a
\* member ends its keys for good, joining again revives none, and a creation
\* that was under way when the member was removed issues none.
KeyOfThisMembership ==
  \A k \in Keys : Authenticate(k) => api_keys[k].term = memberships[api_keys[k].user].term

\* A revoked key never authenticates again, whatever is updated, bound or granted.
RevokedForEver ==
  [][\A k \in Keys : api_keys[k].revoked => api_keys'[k].revoked]_wsVars

\* Grants name members only, so a member that joins again starts with none
\* (ClearMemberGroups on removal, MemberExistsInTenant before a grant).
GrantsOfMembers ==
  \A g \in group_members : memberships[g[1]].role # "none" /\ ~memberships[g[1]].removed

\* A pool reserved by a scheme keeps its accounts to itself and is never empty:
\* no order of pool edits, scheme creation and account deletion lets another
\* pool spend what the scheme divides (mayReserve, AddGroupAccount, Delete).
ReservedPoolExclusive ==
  \A p \in Pools : GetPoolAllocation(p) => group_accounts[p] # {} /\ sharedAccounts(p) = {}

\* In a reserved pool only a key bound to its scheme is served, for one of its
\* present recipients: a key from before the reservation does not slip past it.
ReservedPoolKeys ==
  \A k \in Keys : Authenticate(k) /\ GetPoolAllocation(api_keys[k].pool)
    => api_keys[k].scheme = api_keys[k].pool
       /\ api_keys[k].user \in allocation_schemes[api_keys[k].pool].members

\* A key's scheme is its pool's: moving a key leaves no binding to the scheme
\* of the pool it left, which would refuse it in every pool.
BindingFollowsPool == \A k \in Keys : api_keys[k].scheme \in {noPool, api_keys[k].pool}

\* When the console offers to restore a key (can_restore), rebinding it to its
\* own pool is accepted and leaves a key that authenticates.
RestoreRestores ==
  \A k \in Keys : CanRestore(k) =>
    /\ mayRebind(api_keys[k].user, k, api_keys[k].pool)
    /\ AuthenticateKey(k) /\ Authorize(api_keys[k].pool, api_keys[k].user, api_keys[k].pool)

\* The pools offered for a new key are those in which creating one is accepted.
ChoicesUsable ==
  \A u \in People : groupChoices(u) = {p \in Pools : \E inScheme \in BOOLEAN : keyScope(u, p, inScheme)}

\* "A usable key" on the setup page means a key that authenticates in a pool
\* with a ready account that routing would choose: the SQL view and the
\* gateway's AllowsProvider agree.
ReadinessTrue ==
  \A u \in People : HasUsableKey(u) <=>
    \E k \in Keys : /\ api_keys[k].user = u /\ Authenticate(k)
                    /\ \E a \in group_accounts[api_keys[k].pool] :
                         accountState[a] = "ready" /\ AllowsProvider(api_keys[k].pool, a)

\* can_remove is shown to a manager exactly for the rows RemoveMember accepts.
RemovalOffered ==
  \A a, u \in People : CanManageTenant(a) /\ MemberExistsInTenant(u)
    => (CanRemove(a, u) <=> mayRemove(a, u))

\* Who belongs to a workspace is decided by its managers, and its founder stays its owner.
MembershipGuarded == [](WorkspacesTypeOK /\ OwnerKept) /\ ManagersDecide

\* Neither a key nor a grant of an earlier membership, nor a revoked key, comes back.
KeysSound == []KeyOfThisMembership /\ []GrantsOfMembers /\ RevokedForEver

\* A reserved pool serves the keys and the accounts of its scheme alone.
PoolsReserved == ReservedPoolExclusive /\ ReservedPoolKeys /\ BindingFollowsPool

\* What the console offers, or calls usable, is what the operations accept.
ConsoleTrue == RestoreRestores /\ ChoicesUsable /\ ReadinessTrue /\ RemovalOffered
=============================================================================
