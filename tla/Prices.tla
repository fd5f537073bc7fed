------------------------------- MODULE Prices -------------------------------
(* Model prices: internal/pricing, and what internal/allocations makes of     *)
(* them when a priced allowance is saved.                                     *)
(*                                                                            *)
(* A price document and its digest are fetched one after the other from a     *)
(* publisher that replaces both, and kept in two files that are written one   *)
(* after the other; the process may end in between.  A document is a number;  *)
(* the price it gives a model is that number, 0 is no price, and a model that *)
(* the local files price has LocalPrice.  The publisher has a digest URL.     *)
EXTENDS Naturals

CONSTANTS
  Documents,       \* numbers above LocalPrice
  Models,
  Listed,          \* Listed[d]: the models that document d prices
  LocalModels,     \* models of the fallback and override files
  PoolAccounts,
  MaxPriceEvents   \* bound: publications, catalog and policy changes, saves and restarts together

LocalPrice == 1
NoDocument == 0
NoPrices == [m \in Models |-> 0]
NotKnown == {"unknown"}   \* in place of the models of an account whose catalog was not discovered

VARIABLES
  published, digest,          \* the publisher: its document, and the one its digest is of
  cacheFile, hashFile,        \* the cached document, and the document the saved digest is of
  prices, cacheHash,          \* what the service looks prices up in
  refresh,                    \* the refresh that runs
  catalogs, policy,           \* the pool: the models of each account, the models it allows
  rates, nextRates,           \* the current and the scheduled revision's rates
  pricesLeft

priceVars == <<published, digest, cacheFile, hashFile, prices, cacheHash, refresh, catalogs, policy, rates, nextRates, pricesLeft>>
files == <<cacheFile, hashFile>>
publisher == <<published, digest>>
pool == <<catalogs, policy, rates, nextRates>>

NoRefresh == [phase |-> "idle"]

\* The fallback and the override file are laid over a document.
mergeFile(document) ==
  [m \in Models |-> IF m \in LocalModels THEN LocalPrice
                    ELSE IF document # NoDocument /\ m \in Listed[document] THEN document ELSE 0]

PricesInit ==
  /\ \E d \in Documents : published = d /\ digest = d /\ \A e \in Documents : d <= e
  /\ cacheFile = NoDocument /\ hashFile = NoDocument
  /\ prices = mergeFile(NoDocument) /\ cacheHash = NoDocument
  /\ refresh = NoRefresh
  /\ catalogs = [a \in PoolAccounts |-> Models] /\ policy = Models
  /\ rates = NoPrices /\ nextRates = NoPrices
  /\ pricesLeft = MaxPriceEvents

counted == pricesLeft > 0 /\ pricesLeft' = pricesLeft - 1
-----------------------------------------------------------------------------
(* The service.                                                               *)

\* The digest is fetched; nothing more is done for the document that is in use.
fetchHash ==
  /\ refresh.phase = "idle"
  /\ ~(digest = cacheHash /\ prices # NoPrices)
  /\ refresh' = [phase |-> "hash", hash |-> digest]
  /\ UNCHANGED <<publisher, files, prices, cacheHash, pool, pricesLeft>>

\* The document that arrives must have the digest, and a price.
fetchBody ==
  /\ refresh.phase = "hash"
  /\ refresh' = IF published = refresh.hash /\ Listed[published] # {}
                THEN [phase |-> "body", hash |-> refresh.hash, body |-> published] ELSE NoRefresh
  /\ UNCHANGED <<publisher, files, prices, cacheHash, pool, pricesLeft>>

writeCache ==
  /\ refresh.phase = "body"
  /\ cacheFile' = refresh.body
  /\ refresh' = [refresh EXCEPT !.phase = "cached"]
  /\ UNCHANGED <<publisher, hashFile, prices, cacheHash, pool, pricesLeft>>

\* The digest is saved, then the merged prices are published with it.
writeHash ==
  /\ refresh.phase = "cached"
  /\ hashFile' = refresh.hash
  /\ prices' = mergeFile(refresh.body) /\ cacheHash' = refresh.hash
  /\ refresh' = NoRefresh
  /\ UNCHANGED <<publisher, cacheFile, pool, pricesLeft>>

\* A fetch or a write fails, which ends the refresh where it is.
refreshFails ==
  /\ refresh.phase # "idle" /\ counted
  /\ refresh' = NoRefresh
  /\ UNCHANGED <<publisher, files, prices, cacheHash, pool>>

mNewPrices ==
  /\ counted
  /\ refresh' = NoRefresh
  /\ cacheHash' = hashFile
  /\ prices' = mergeFile(cacheFile)
  /\ UNCHANGED <<publisher, files, pool>>

\* A restart: a cache and a digest that are not a pair are worth nothing.
NewPrices ==
  /\ counted
  /\ refresh' = NoRefresh
  /\ cacheHash' = IF cacheFile = hashFile THEN hashFile ELSE NoDocument
  /\ prices' = mergeFile(IF cacheFile = hashFile THEN cacheFile ELSE NoDocument)
  /\ UNCHANGED <<publisher, files, pool>>

\* The publisher replaces its document, and its digest a moment later.
publish(d) ==
  /\ counted /\ d # published /\ digest = published
  /\ published' = d
  /\ UNCHANGED <<digest, files, prices, cacheHash, refresh, pool>>

publishDigest ==
  /\ digest # published /\ digest' = published
  /\ UNCHANGED <<published, files, prices, cacheHash, refresh, pool, pricesLeft>>
-----------------------------------------------------------------------------
(* The rates of an allowance.                                                 *)

unavailable == \E a \in PoolAccounts : catalogs[a] = NotKnown
loadPoolModelCatalog == (UNION {catalogs[a] : a \in {b \in PoolAccounts : catalogs[b] # NotKnown}}) \cap policy

mPrevious(current, next) == current
previousRates(current, next) == [m \in Models |-> IF next[m] # 0 THEN next[m] ELSE current[m]]

Lookup(m) == prices[m]

\* The rates of a revision: the price of today, or the rate saved before; a model that cannot be discovered
\* for the moment keeps its rate.
applyPrices(previous) ==
  [m \in Models |->
     IF m \in loadPoolModelCatalog \/ (unavailable /\ previous[m] # 0 /\ m \in policy)
     THEN IF Lookup(m) # 0 THEN Lookup(m) ELSE previous[m]
     ELSE 0]

\* An edit of a priced allowance writes its next revision; one without any price is refused.
savePriced ==
  /\ counted
  /\ \E saved \in {applyPrices(previousRates(rates, nextRates))} :
       saved # NoPrices /\ nextRates' = saved
  /\ UNCHANGED <<publisher, files, prices, cacheHash, refresh, catalogs, policy, rates>>

\* The scheduled revision becomes the current one.
startRevision ==
  /\ nextRates # NoPrices
  /\ rates' = nextRates /\ nextRates' = NoPrices
  /\ UNCHANGED <<publisher, files, prices, cacheHash, refresh, catalogs, policy, pricesLeft>>

\* Discovery, a refused snapshot, and an edit of the pool's allowlist.
poolChanges ==
  /\ counted
  /\ \/ \E a \in PoolAccounts, models \in SUBSET Models \cup {NotKnown} :
          catalogs' = [catalogs EXCEPT ![a] = models] /\ UNCHANGED policy
     \/ \E allowed \in SUBSET Models : policy' = allowed /\ UNCHANGED catalogs
  /\ UNCHANGED <<publisher, files, prices, cacheHash, refresh, rates, nextRates>>

refreshSteps == fetchHash \/ fetchBody \/ writeCache \/ writeHash

PricesNext ==
  \/ refreshSteps \/ refreshFails \/ NewPrices
  \/ (\E d \in Documents : publish(d)) \/ publishDigest
  \/ savePriced \/ startRevision \/ poolChanges

PricesSpec == PricesInit /\ [][PricesNext]_priceVars
-----------------------------------------------------------------------------
(* Properties.                                                                *)

\* The prices in use are those of one document, the one whose digest the service holds, under the local
\* files: no torn pair of files after a restart and no document fetched beside its digest mixes into them.
PricesOfOneDocument == prices = mergeFile(cacheHash)

\* A model with a saved rate that some account of the pool serves, or may serve as far as anyone knows, and
\* that the pool allows keeps a rate in the next revision, although its price left the document, its
\* account's catalog is unknown for now, or another revision was scheduled in between.
RatesKept ==
  [][\A m \in Models :
       /\ nextRates' # nextRates /\ nextRates' # NoPrices
       /\ rates[m] # 0 \/ nextRates[m] # 0
       /\ m \in policy /\ \E a \in PoolAccounts : catalogs[a] = NotKnown \/ m \in catalogs[a]
       => nextRates'[m] # 0]_priceVars

\* The prices in use are those of one document, and a saved rate outlives gaps in documents and catalogs.
PricesSound == []PricesOfOneDocument /\ RatesKept
=============================================================================
