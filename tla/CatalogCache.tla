---------------------------- MODULE CatalogCache ----------------------------
(* The model catalog of one account: internal/gateway/catalog.go with         *)
(* internal/accounts/catalog.go and storage/db/catalog.sql.go.                *)
(*                                                                            *)
(* A catalog is stored with the account.  A reader that finds it stale starts *)
(* a discovery, which other readers join; a read of a pool looks at the rows  *)
(* first and at the cache later.  Meanwhile the account may be disabled,      *)
(* expire or be authorized anew (its revision grows), the contract of the     *)
(* discovery may change (the client version is part of it), other accounts    *)
(* may push the entry out of the cache, and the gateway may close.  A catalog *)
(* is what was asked with which authorization and contract, and when.         *)
EXTENDS Naturals, FiniteSets

CONSTANTS
  Readers, Discoveries,
  CatalogTTL, CatalogCooldown, CatalogBackoff,   \* 15 minutes, 5 and 30 seconds
  MaxCatalogTime, MaxCatalogEvents               \* bounds: ticks; readers and changes of the account together

ASSUME CatalogAssumption ==
  /\ Discoveries \subseteq Nat \ {0}
  /\ {CatalogTTL, CatalogCooldown, CatalogBackoff} \subseteq Nat

VARIABLES
  account,      \* [enabled, expired, revision, authorization]
  catalog,      \* accounts.models_snapshot: [on, updated, source, authorization]
  contract,     \* Client.CatalogSource
  cached,       \* catalogCache.entries[id]
  discovery,    \* the running fetchCatalog
  readerAt,
  cacheOpen,    \* "open", "closing" or "closed"
  catalogClock, catalogEvents

catalogVars == <<account, catalog, contract, cached, discovery, readerAt, cacheOpen, catalogClock, catalogEvents>>

Unknown == [on |-> FALSE, updated |-> 0, source |-> "none", authorization |-> 0]
Uncached == [on |-> FALSE, revision |-> 0, source |-> "none", observed |-> 0, flight |-> 0, retryAt |-> 0, err |-> "none"]
NoDiscovery == [stage |-> "off"]
Away == [phase |-> "away"]

CatalogInit ==
  /\ account = [enabled |-> TRUE, expired |-> FALSE, revision |-> 0, authorization |-> 0]
  /\ catalog = Unknown /\ contract = "v1" /\ cached = Uncached
  /\ discovery = [d \in Discoveries |-> NoDiscovery] /\ readerAt = [c \in Readers |-> Away]
  /\ cacheOpen = "open" /\ catalogClock = 1 /\ catalogEvents = 0

listed == account.enabled /\ ~account.expired
\* catalogCache.mu: a reader holds it from its read of the row to its answer.
lockFree == \A c \in Readers : readerAt[c].phase # "reading"
countCatalog == catalogEvents < MaxCatalogEvents /\ catalogEvents' = catalogEvents + 1
-----------------------------------------------------------------------------
(* What a reader is told.                                                     *)

sourceChanged(value) == value.source # contract
mState(value, revision, e) ==
  LET mine == e.on /\ e.revision = revision
  IN  [known |-> value.on,
       refreshing |-> mine /\ (e.flight # 0 \/ e.err = "busy"),
       failed |-> mine /\ e.err = "failed",
       stale |-> sourceChanged(value) \/ ~value.on \/ catalogClock - value.updated >= CatalogTTL \/ (mine /\ e.err = "failed")]

state(value, revision, e) ==
  LET mine == e.on /\ e.revision = revision
  IN  [known |-> value.on,
       refreshing |-> mine /\ (e.flight # 0 \/ e.err = "busy" \/ value.updated < e.observed),
       failed |-> mine /\ e.err = "failed",
       stale |-> sourceChanged(value) \/ ~value.on \/ catalogClock - value.updated >= CatalogTTL \/ (mine /\ e.err = "failed")]
-----------------------------------------------------------------------------
(* AccountCatalog.                                                            *)

\* The account is looked at before the lock is taken; a pool's rows are read without it.
beginRead(c, why) ==
  /\ readerAt[c].phase = "away" /\ listed /\ countCatalog
  /\ readerAt' = [readerAt EXCEPT ![c] = IF why = "pool" THEN [phase |-> "rows", row |-> catalog, revision |-> account.revision, kept |-> TRUE]
                                     ELSE [phase |-> "checked", why |-> why]]
  /\ UNCHANGED <<account, catalog, contract, cached, discovery, cacheOpen, catalogClock>>

openForReads == cacheOpen = "open"

lockAndRead(c) ==
  /\ readerAt[c].phase = "checked" /\ lockFree
  /\ readerAt' = [readerAt EXCEPT ![c] = IF openForReads
                                     THEN [phase |-> "reading", why |-> readerAt[c].why, row |-> catalog, revision |-> account.revision, kept |-> TRUE]
                                     ELSE Away]
  /\ UNCHANGED <<account, catalog, contract, cached, discovery, cacheOpen, catalogClock, catalogEvents>>

\* An entry of another revision or contract is replaced; a cooldown of another contract does not count.
entryFor(row, revision) ==
  IF cached.on /\ cached.revision = revision /\ cached.source = contract THEN cached
  ELSE [on |-> TRUE, revision |-> revision, source |-> contract, observed |-> 0, flight |-> 0, err |-> "none",
        retryAt |-> IF sourceChanged(row) THEN 0 ELSE row.updated + CatalogCooldown]

\* A discovery keeps the entry it was begun for.
orphaned(e) ==
  [d \in Discoveries |-> IF d = cached.flight /\ d # e.flight THEN [discovery[d] EXCEPT !.orphan = TRUE] ELSE discovery[d]]

\* A discovery begins, or neither the cache nor the gateway has a slot for it.
discover(e) ==
  \/ \E d \in Discoveries :
       /\ discovery[d].stage = "off" /\ \A other \in Discoveries : other < d => discovery[other].stage # "off"
       /\ cached' = [e EXCEPT !.flight = d, !.retryAt = catalogClock + CatalogCooldown]
       /\ discovery' = [orphaned(e) EXCEPT ![d] = [stage |-> "asked", revision |-> e.revision, orphan |-> FALSE]]
  \/ cached' = [e EXCEPT !.err = "busy", !.retryAt = catalogClock] /\ discovery' = orphaned(e)

\* Who forces a refresh, or meets the first one, waits for the discovery.
waits(c, e) ==
  IF e.flight # 0 /\ (readerAt[c].why = "force" \/ (readerAt[c].why = "join" /\ (~readerAt[c].row.on \/ sourceChanged(readerAt[c].row))))
  THEN [phase |-> "waiting", why |-> readerAt[c].why, on |-> e.flight] ELSE Away

\* History: between the read of a pool's rows and its answer the entry was replaced, or between any read and
\* its answer the discovery of a replaced entry was stored.
unsettled(readers, phases) ==
  [c \in Readers |-> IF readers[c].phase \in phases THEN [readers[c] EXCEPT !.kept = FALSE] ELSE readers[c]]

AccountCatalog(c) ==
  /\ readerAt[c].phase = "reading" /\ readerAt[c].why # "again"
  /\ \E e \in {entryFor(readerAt[c].row, readerAt[c].revision)} :
       /\ IF /\ e.flight = 0 /\ catalogClock >= e.retryAt
             /\ readerAt[c].why = "force" \/ state(readerAt[c].row, readerAt[c].revision, e).stale
          THEN discover(e) ELSE cached' = e /\ discovery' = orphaned(e)
       /\ readerAt' = unsettled([readerAt EXCEPT ![c] = waits(c, cached')], IF cached.on /\ e # cached THEN {"rows"} ELSE {})
  /\ UNCHANGED <<account, catalog, contract, cacheOpen, catalogClock, catalogEvents>>

\* A forced reader that waited reads the row once more; nothing is begun.
rereadCatalog(c) ==
  /\ readerAt[c].phase = "reading" /\ readerAt[c].why = "again"
  /\ readerAt' = [readerAt EXCEPT ![c] = Away]
  /\ UNCHANGED <<account, catalog, contract, cached, discovery, cacheOpen, catalogClock, catalogEvents>>

\* groupCatalog consults the cache after its transaction.
groupCatalog(c) ==
  /\ readerAt[c].phase = "rows" /\ lockFree
  /\ readerAt' = [readerAt EXCEPT ![c] = Away]
  /\ UNCHANGED <<account, catalog, contract, cached, discovery, cacheOpen, catalogClock, catalogEvents>>
-----------------------------------------------------------------------------
(* fetchCatalog.                                                              *)

\* The provider answers, or fails; the gateway's end cancels the call.
Discover(d, ok) ==
  /\ discovery[d].stage = "asked"
  /\ ok => listed /\ cacheOpen = "open"
  /\ discovery' = [discovery EXCEPT ![d] =
       IF ok THEN [stage |-> "answered", revision |-> @.revision, orphan |-> @.orphan, source |-> contract, authorization |-> account.authorization]
       ELSE [stage |-> "done", ok |-> FALSE, orphan |-> @.orphan, observed |-> 0]]
  /\ UNCHANGED <<account, catalog, contract, cached, readerAt, cacheOpen, catalogClock, catalogEvents>>

\* What was asked under a contract that is no longer valid is not stored.
observed(d) ==
  /\ discovery[d].stage = "answered"
  /\ discovery' = [discovery EXCEPT ![d] =
       IF @.source = contract
       THEN [stage |-> "saving", revision |-> @.revision, orphan |-> @.orphan, source |-> @.source,
             authorization |-> @.authorization, observed |-> catalogClock]
       ELSE [stage |-> "done", ok |-> FALSE, orphan |-> @.orphan, observed |-> 0]]
  /\ UNCHANGED <<account, catalog, contract, cached, readerAt, cacheOpen, catalogClock, catalogEvents>>

SaveAccountCatalog(revision, at) == revision = account.revision /\ listed /\ catalog.updated <= at

SaveCatalogSnapshot(d) ==
  /\ discovery[d].stage = "saving"
  /\ \E saved \in {SaveAccountCatalog(discovery[d].revision, discovery[d].observed)} :
       /\ catalog' = IF saved THEN [on |-> TRUE, updated |-> discovery[d].observed, source |-> discovery[d].source,
                                    authorization |-> discovery[d].authorization] ELSE catalog
       /\ discovery' = [discovery EXCEPT ![d] = [stage |-> "done", ok |-> saved, orphan |-> @.orphan, observed |-> @.observed]]
       /\ readerAt' = unsettled(readerAt, IF saved /\ discovery[d].orphan THEN {"reading", "rows"} ELSE {})
  /\ UNCHANGED <<account, contract, cached, cacheOpen, catalogClock, catalogEvents>>

\* The end of the discovery reaches its entry and whoever waits for it.
fetchCatalog(d) ==
  /\ discovery[d].stage = "done" /\ lockFree
  /\ discovery' = [discovery EXCEPT ![d] = NoDiscovery]
  /\ cached' = IF discovery[d].orphan THEN cached
               ELSE [cached EXCEPT !.flight = 0, !.err = IF discovery[d].ok THEN "none" ELSE "failed",
                                   !.observed = IF discovery[d].ok THEN discovery[d].observed ELSE @,
                                   !.retryAt = catalogClock + (IF discovery[d].ok THEN CatalogCooldown ELSE CatalogBackoff)]
  /\ readerAt' = [c \in Readers |->
       IF readerAt[c].phase = "waiting" /\ readerAt[c].on = d
       THEN IF listed THEN [phase |-> "checked", why |-> IF readerAt[c].why = "force" THEN "again" ELSE "read"] ELSE Away
       ELSE readerAt[c]]
  /\ UNCHANGED <<account, catalog, contract, cacheOpen, catalogClock, catalogEvents>>
-----------------------------------------------------------------------------
(* The account, the contract, the other accounts, the end.                    *)

\* SetAccountEnabled keeps the catalog and raises the revision; InvalidateAccountCatalog drops it.
accountEdited ==
  /\ countCatalog
  /\ \/ account' = [account EXCEPT !.enabled = ~@, !.revision = @ + 1] /\ UNCHANGED catalog
     \/ ~account.expired /\ account' = [account EXCEPT !.expired = TRUE] /\ UNCHANGED catalog
     \/ /\ account' = [account EXCEPT !.expired = FALSE, !.revision = @ + 1, !.authorization = @ + 1]
        /\ catalog' = Unknown
  /\ UNCHANGED <<contract, cached, discovery, readerAt, cacheOpen, catalogClock>>

contractChanges ==
  /\ countCatalog /\ contract' = IF contract = "v1" THEN "v2" ELSE "v1"
  /\ UNCHANGED <<account, catalog, cached, discovery, readerAt, cacheOpen, catalogClock>>

\* The hundred-and-first account takes the entry that was used the longest ago.
evictCatalog ==
  /\ cached.on /\ cached.flight = 0 /\ lockFree /\ countCatalog
  /\ cached' = Uncached /\ readerAt' = unsettled(readerAt, {"rows"})
  /\ UNCHANGED <<account, catalog, contract, discovery, cacheOpen, catalogClock>>

closeCatalogs ==
  \/ /\ cacheOpen = "open" /\ lockFree /\ countCatalog /\ cacheOpen' = "closing"
     /\ UNCHANGED <<account, catalog, contract, cached, discovery, readerAt, catalogClock>>
  \/ /\ cacheOpen = "closing" /\ \A d \in Discoveries : discovery[d].stage = "off"
     /\ cacheOpen' = "closed"
     /\ UNCHANGED <<account, catalog, contract, cached, discovery, readerAt, catalogClock, catalogEvents>>

catalogTick ==
  /\ catalogClock < MaxCatalogTime /\ catalogClock' = catalogClock + 1
  /\ UNCHANGED <<account, catalog, contract, cached, discovery, readerAt, cacheOpen, catalogEvents>>

CatalogNext ==
  \/ \E c \in Readers :
       \/ \E why \in {"read", "force", "join", "pool"} : beginRead(c, why)
       \/ lockAndRead(c) \/ AccountCatalog(c) \/ rereadCatalog(c) \/ groupCatalog(c)
  \/ \E d \in Discoveries :
       (\E ok \in BOOLEAN : Discover(d, ok)) \/ observed(d) \/ SaveCatalogSnapshot(d) \/ fetchCatalog(d)
  \/ accountEdited \/ contractChanges \/ evictCatalog \/ closeCatalogs \/ catalogTick

CatalogSpec == CatalogInit /\ [][CatalogNext]_catalogVars
-----------------------------------------------------------------------------
(* Properties.                                                                *)

\* The stored catalog is of the present authorization, although discoveries outlive the entries and the
\* authorizations they were begun under (catalog.sql.go 80-85).
DiscoveredAsAuthorized == catalog.on => catalog.authorization = account.authorization

\* Nobody is told that the models of an account are unknown and that nobody is asking for them while its
\* catalog is already stored: the read of the row, the write of the catalog and the end of the discovery
\* are three moments (catalog.go 83, 117).  A read is excepted when, after it read the row, the
\* account changed or the discovery of an entry replaced by a change of contract was stored, and the read of
\* a pool, which reads its rows without the lock, also when the entry was replaced.
UnknownIsTrue ==
  [][\A c \in Readers :
       (/\ readerAt[c].phase \in {"reading", "rows"} /\ readerAt'[c].phase # readerAt[c].phase
        /\ readerAt[c].revision = account.revision /\ readerAt[c].kept)
       => LET told == state(readerAt[c].row, readerAt[c].revision, cached')
          IN  told.known \/ told.refreshing \/ told.failed \/ ~catalog.on]_catalogVars

\* No discovery runs, and nothing is stored, once the cache has closed.
ClosedQuietly == cacheOpen = "closed" => \A d \in Discoveries : discovery[d].stage = "off"

\* Catalogs are of the present authorization, nobody is told "unknown and idle" of a stored one, and nothing
\* runs after Close.
CatalogTrue == []DiscoveredAsAuthorized /\ []ClosedQuietly /\ UnknownIsTrue
=============================================================================
