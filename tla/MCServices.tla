----------------------------- MODULE MCServices -----------------------------
(* The services that run beside the gateway, none of which shares state with  *)
(* another: the registry of the workspaces' runtimes, the alerts of one       *)
(* workspace, the client version of one provider and the price list.  A       *)
(* behaviour is of one of them, chosen at the beginning; the state of the     *)
(* others stays as it began.                                                  *)
EXTENDS Registry, Alerts, Versions, Prices, TLC

MCTenant == [c \in Callers |-> IF c \in ResetWorkers THEN "t2" ELSE "t1"]
MCListed == (2 :> {"x"}) @@ (3 :> {"y", "z"})

VARIABLE part

serviceVars == <<vars, alertVars, versionVars, priceVars, part>>

ServicesInit ==
  /\ part \in {"registry", "alerts", "versions", "prices"}
  /\ Init /\ AlertsInit /\ VersionsInit /\ PricesInit

ServicesNext ==
  /\ UNCHANGED part
  /\ \/ part = "registry" /\ Next /\ UNCHANGED <<alertVars, versionVars, priceVars>>
     \/ part = "alerts" /\ AlertsNext /\ UNCHANGED <<vars, versionVars, priceVars>>
     \/ part = "versions" /\ VersionsNext /\ UNCHANGED <<vars, alertVars, priceVars>>
     \/ part = "prices" /\ PricesNext /\ UNCHANGED <<vars, alertVars, versionVars>>

\* The loop of Alerts.Start runs a check every minute, and a send ends within its timeout.
AlertsFairness ==
  /\ WF_alertVars(part = "alerts" /\ checkSteps)
  /\ WF_alertVars(part = "alerts" /\ alertTick) /\ WF_alertVars(part = "alerts" /\ deliverFails)

\* The loop of Versions.Start asks every minute, and a check ends within its timeout.
VersionsFairness ==
  /\ WF_versionVars(part = "versions" /\ Sync(FALSE))
  /\ WF_versionVars(part = "versions" /\ versionTick)
  /\ WF_versionVars(part = "versions" /\ checkEnds)

\* Refresh runs at every interval, and the publisher completes what it began.
PricesFairness ==
  /\ WF_priceVars(part = "prices" /\ refreshSteps)
  /\ WF_priceVars(part = "prices" /\ publishDigest)

\* Fairness is that of the registry, whose Init enables no fair step.
ServicesSpec ==
  /\ ServicesInit /\ [][ServicesNext]_serviceVars
  /\ Fairness /\ AlertsFairness /\ VersionsFairness /\ PricesFairness
-----------------------------------------------------------------------------
(* What the fairness brings about.                                            *)

\* Whatever the webhook was not told of is told in the end, once the answers arrive again, unless the
\* notifications are switched off.
AlertsSettle ==
  \A k \in Keys : (part = "alerts" /\ pending(alertStates[k])) ~> (~pending(alertStates[k]) \/ ~alertConfig.enabled)

\* A new release is found as long as the automatic checks are on.
AutoCatchesUp ==
  \A v \in Versions : (part = "versions" /\ newest = v /\ record.auto) ~> (record.latest >= v \/ newest # v \/ ~record.auto)

\* The service ends up with the document of the publisher, whatever failed or ended in the middle.
PricesCatchUp ==
  \A d \in Documents : (part = "prices" /\ published = d) ~> (published # d \/ cacheHash = d \/ Listed[d] = {})

\* Close ends, and what the webhook, the version and the prices are behind with is caught up with.
ServicesSettle == CloseEnds /\ AlertsSettle /\ AutoCatchesUp /\ PricesCatchUp
=============================================================================
