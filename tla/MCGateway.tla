------------------------------ MODULE MCGateway ------------------------------
(* What a gateway of one workspace keeps beside its admission, and the flows   *)
(* of the console around it: the caches of an account's usage and catalog, the *)
(* health of its models, one streamed exchange, the browser and device logins, *)
(* and the backups.                                                            *)
(* None shares state with another; a behaviour is of one of them, chosen at    *)
(* the beginning, and the state of the others stays as it began.               *)
EXTENDS UsageCache, CatalogCache, ModelRuntime, Exchange, OAuthLogins, Backup, TLC

-----------------------------------------------------------------------------
VARIABLE part

cacheVars == <<usageVars, catalogVars, modelVars>>
flowVars == <<oauthVars, backupVars>>
gatewayVars == <<cacheVars, exchangeVars, flowVars, part>>

GatewayInit ==
  /\ part \in {"usage", "catalog", "models", "exchange", "logins", "backup"}
  /\ UsageInit /\ CatalogInit /\ ModelInit /\ ExchangeInit /\ OAuthInit /\ BackupInit

GatewayNext ==
  /\ UNCHANGED part
  /\ \/ part = "usage" /\ UsageNext /\ UNCHANGED <<catalogVars, modelVars, exchangeVars, flowVars>>
     \/ part = "catalog" /\ CatalogNext /\ UNCHANGED <<usageVars, modelVars, exchangeVars, flowVars>>
     \/ part = "models" /\ ModelNext /\ UNCHANGED <<usageVars, catalogVars, exchangeVars, flowVars>>
     \/ part = "exchange" /\ ExchangeNext /\ UNCHANGED <<cacheVars, flowVars>>
     \/ part = "logins" /\ OAuthNext /\ UNCHANGED <<cacheVars, exchangeVars, backupVars>>
     \/ part = "backup" /\ BackupNext /\ UNCHANGED <<cacheVars, exchangeVars, oauthVars>>

GatewaySpec == GatewayInit /\ [][GatewayNext]_gatewayVars
=============================================================================
