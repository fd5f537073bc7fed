------------------------------ MODULE Registry ------------------------------
(***************************************************************************)
(* The workspaces' runtimes (cmd/sublane/tenants.go).  A gateway is built  *)
(* when a workspace is first used, counted while it is in use, retired by  *)
(* the reaper once it has been idle long enough, and closed at shutdown.   *)
(* Sections under registry.mu are one step; gateways are closed outside of *)
(* it.  A new gateway recovers the allowance entries of its workspace as   *)
(* those of a dead process, so the old one must have no request left.      *)
(***************************************************************************)
EXTENDS Integers, FiniteSets

CONSTANTS
  Callers,      \* HTTP requests, alert checks and reset workers
  ResetWorkers, \* those that are workers of the reset service
  Tenants,      \* workspaces
  Tenant,       \* Tenant[c]: the workspace a caller uses
  IdleTimeout,  \* runtimeIdleTimeout, in ticks
  MaxRuntimes   \* bound on the runtimes built

None == 0
Instances == 1..MaxRuntimes

ASSUME ConstantsAssumption ==
  /\ IsFiniteSet(Callers)
  /\ ResetWorkers \subseteq Callers
  /\ Tenant \in [Callers -> Tenants]
  /\ IdleTimeout \in Nat /\ MaxRuntimes \in Nat

VARIABLES
  runtimes,  \* runtimes[t]: the runtime of the workspace, or None
  active,    \* tenantRuntime.active
  idle,      \* ticks since tenantRuntime.lastUsed
  gateway,   \* the runtime's gateway: unused, open, closing or closed
  built,     \* runtimes built so far
  held,      \* held[c]: the runtime the caller has acquired, or None
  inside,    \* callers that gateway.begin has let in and finish has not let out
  closed,    \* tenantRegistry.closed
  ended,     \* the process context is done
  reaper,    \* the goroutine of Start: off, running, or stopped (reapDone)
  retired,   \* runtimes reapIdle has removed and not closed yet
  closer,    \* where Close stands
  closing,   \* runtimes Close has removed and not closed yet
  working    \* reset workers inside Run

vars == <<runtimes, active, idle, gateway, built, held, inside, closed, ended, reaper, retired, closer,
          closing, working>>

Init ==
  /\ runtimes = [t \in Tenants |-> None]
  /\ active = [i \in Instances |-> 0]
  /\ idle = [i \in Instances |-> 0]
  /\ gateway = [i \in Instances |-> "unused"]
  /\ built = 0
  /\ held = [c \in Callers |-> None]
  /\ inside = {}
  /\ closed = FALSE
  /\ ended = FALSE
  /\ reaper = "off"
  /\ retired = {}
  /\ closer = "off"
  /\ closing = {}
  /\ working = {}

-----------------------------------------------------------------------------
(* Callers *)

\* The loop of a reset worker: it claims a check until it is canceled, and Run then
\* calls the gateway as often as it needs, also if it is canceled meanwhile.
work(c) ==
  /\ \/ /\ c \notin working /\ reaper # "off" /\ closer = "off" /\ ~ended
        /\ working' = working \cup {c}
     \/ /\ c \in working /\ held[c] = None
        /\ working' = working \ {c}
  /\ UNCHANGED <<runtimes, active, idle, gateway, built, held, inside, closed, ended, reaper, retired, closer, closing>>

mayCall(c) == held[c] = None /\ (c \in ResetWorkers => c \in working)

share(i) == [active EXCEPT ![i] = @ + 1]

acquireShared(c) ==
  LET i == runtimes[Tenant[c]]
  IN  /\ mayCall(c) /\ ~closed /\ i # None
      /\ active' = share(i)
      /\ held' = [held EXCEPT ![c] = i]
      /\ UNCHANGED <<runtimes, idle, gateway, built, inside, closed, ended, reaper, retired, closer, closing, working>>

acquireNew(c) ==
  LET i == built + 1
  IN  /\ mayCall(c) /\ ~closed /\ runtimes[Tenant[c]] = None
      /\ built < MaxRuntimes
      /\ built' = i
      /\ runtimes' = [runtimes EXCEPT ![Tenant[c]] = i]
      /\ gateway' = [gateway EXCEPT ![i] = "open"]
      /\ active' = [active EXCEPT ![i] = 1]
      /\ idle' = [idle EXCEPT ![i] = 0]
      /\ held' = [held EXCEPT ![c] = i]
      /\ UNCHANGED <<inside, closed, ended, reaper, retired, closer, closing, working>>

release(c) ==
  /\ held[c] # None /\ c \notin inside
  /\ active' = [active EXCEPT ![held[c]] = @ - 1]
  /\ idle' = [idle EXCEPT ![held[c]] = 0]
  /\ held' = [held EXCEPT ![c] = None]
  /\ UNCHANGED <<runtimes, gateway, built, inside, closed, ended, reaper, retired, closer, closing, working>>

\* gateway.begin refuses a closed gateway; finish lets the caller out.
begin(c) ==
  /\ held[c] # None /\ c \notin inside
  /\ gateway[held[c]] = "open"
  /\ inside' = inside \cup {c}
  /\ UNCHANGED <<runtimes, active, idle, gateway, built, held, closed, ended, reaper, retired, closer, closing, working>>

finish(c) ==
  /\ c \in inside
  /\ inside' = inside \ {c}
  /\ UNCHANGED <<runtimes, active, idle, gateway, built, held, closed, ended, reaper, retired, closer, closing, working>>

-----------------------------------------------------------------------------
(* gateway.Close refuses new requests and then waits for those inside. *)

closeGateway(i) == gateway[i] = "open" /\ gateway' = [gateway EXCEPT ![i] = "closing"]

drainGateway(i) ==
  /\ gateway[i] = "closing"
  /\ \A c \in inside : held[c] # i
  /\ gateway' = [gateway EXCEPT ![i] = "closed"]

-----------------------------------------------------------------------------
(* The reaper *)

Start ==
  /\ ~closed /\ reaper = "off" /\ closer = "off"
  /\ reaper' = "running"
  /\ UNCHANGED <<runtimes, active, idle, gateway, built, held, inside, closed, ended, retired, closer, closing, working>>

mReapable(i) == idle[i] >= IdleTimeout

reapable(i) == active[i] = 0 /\ idle[i] >= IdleTimeout

reapIdle ==
  LET old == {t \in Tenants : runtimes[t] # None /\ reapable(runtimes[t])}
  IN  /\ reaper = "running" /\ retired = {} /\ ~closed
      /\ old # {}
      /\ retired' = {runtimes[t] : t \in old}
      /\ runtimes' = [t \in Tenants |-> IF t \in old THEN None ELSE runtimes[t]]
      /\ UNCHANGED <<active, idle, gateway, built, held, inside, closed, ended, reaper, closer, closing, working>>

\* The gateways are closed one after the other.
retire(i) ==
  /\ i \in retired
  /\ \/ closeGateway(i) /\ (\A j \in retired : gateway[j] # "closing") /\ UNCHANGED retired
     \/ drainGateway(i) /\ retired' = retired \ {i}
  /\ UNCHANGED <<runtimes, active, idle, built, held, inside, closed, ended, reaper, closer, closing, working>>

mStopReap == ended

\* Close closes stopReap with the registry.
stopReap == closed \/ ended

reaperStops ==
  /\ reaper = "running" /\ retired = {} /\ stopReap
  /\ reaper' = "stopped"
  /\ UNCHANGED <<runtimes, active, idle, gateway, built, held, inside, closed, ended, retired, closer, closing, working>>

-----------------------------------------------------------------------------
(* Close *)

\* The reset service is closed first: it cancels its workers and waits for them.
CloseResets ==
  /\ closer = "off"
  /\ closer' = "resets"
  /\ UNCHANGED <<runtimes, active, idle, gateway, built, held, inside, closed, ended, reaper, retired, closing, working>>

CloseRegistry ==
  /\ closer = "resets"
  /\ working = {}
  /\ closed' = TRUE
  /\ closing' = {runtimes[t] : t \in Tenants} \ {None}
  /\ runtimes' = [t \in Tenants |-> None]
  /\ closer' = "reaper"
  /\ UNCHANGED <<active, idle, gateway, built, held, inside, ended, reaper, retired, working>>

reaperDone == reaper # "running"

CloseJoins ==
  /\ closer = "reaper"
  /\ reaperDone
  /\ closer' = "gateways"
  /\ UNCHANGED <<runtimes, active, idle, gateway, built, held, inside, closed, ended, reaper, retired, closing, working>>

CloseGateways(i) ==
  /\ closer = "gateways" /\ i \in closing
  /\ \/ closeGateway(i) /\ (\A j \in closing : gateway[j] # "closing") /\ UNCHANGED closing
     \/ drainGateway(i) /\ closing' = closing \ {i}
  /\ UNCHANGED <<runtimes, active, idle, built, held, inside, closed, ended, reaper, retired, closer, working>>

CloseReturns ==
  /\ closer = "gateways" /\ closing = {}
  /\ closer' = "done"
  /\ UNCHANGED <<runtimes, active, idle, gateway, built, held, inside, closed, ended, reaper, retired, closing, working>>

-----------------------------------------------------------------------------

\* The process is asked to stop.
End ==
  /\ ~ended
  /\ ended' = TRUE
  /\ UNCHANGED <<runtimes, active, idle, gateway, built, held, inside, closed, reaper, retired, closer, closing, working>>

Tick ==
  /\ \E i \in Instances : idle[i] < IdleTimeout
  /\ idle' = [i \in Instances |-> IF idle[i] < IdleTimeout THEN idle[i] + 1 ELSE idle[i]]
  /\ UNCHANGED <<runtimes, active, gateway, built, held, inside, closed, ended, reaper, retired, closer, closing, working>>

Next ==
  \/ \E c \in Callers : acquireShared(c) \/ acquireNew(c) \/ release(c) \/ begin(c) \/ finish(c)
  \/ \E c \in ResetWorkers : work(c)
  \/ \E i \in Instances : retire(i) \/ CloseGateways(i)
  \/ Start \/ reapIdle \/ reaperStops
  \/ CloseResets \/ CloseRegistry \/ CloseJoins \/ CloseReturns
  \/ End \/ Tick

Spec == Init /\ [][Next]_vars

\* The goroutines run.  Closing a gateway, or the reset service, cancels the calls
\* inside it, which then end; a canceled worker releases its runtime and leaves Run,
\* after a finite number of further calls.
Fairness ==
  /\ WF_vars(reaperStops)
  /\ WF_vars(CloseRegistry) /\ WF_vars(CloseJoins) /\ WF_vars(CloseReturns)
  /\ \A i \in Instances : WF_vars(retire(i)) /\ WF_vars(CloseGateways(i))
  /\ \A c \in Callers : WF_vars(held[c] # None /\ gateway[held[c]] = "closing" /\ finish(c))
  /\ \A c \in ResetWorkers :
       /\ WF_vars(closer = "resets" /\ finish(c))
       /\ SF_vars(closer = "resets" /\ release(c))
       /\ SF_vars(closer = "resets" /\ work(c))

FairSpec == Spec /\ Fairness

-----------------------------------------------------------------------------
(* Properties *)

TypeOK ==
  /\ runtimes \in [Tenants -> Instances \cup {None}]
  /\ active \in [Instances -> Nat]
  /\ idle \in [Instances -> 0..IdleTimeout]
  /\ gateway \in [Instances -> {"unused", "open", "closing", "closed"}]
  /\ built \in 0..MaxRuntimes
  /\ held \in [Callers -> Instances \cup {None}]
  /\ inside \subseteq Callers
  /\ closed \in BOOLEAN /\ ended \in BOOLEAN
  /\ reaper \in {"off", "running", "stopped"}
  /\ closer \in {"off", "resets", "reaper", "gateways", "done"}
  /\ retired \subseteq Instances /\ closing \subseteq Instances
  /\ working \subseteq ResetWorkers

\* OneGateway: until shutdown, every caller of a workspace is on the runtime that
\* the registry hands out for it: none is left on one that was retired, so a new
\* gateway never recovers the entries of a request that still runs (acquire,
\* release, reapIdle).
OneGateway ==
  \A c \in Callers : held[c] # None => closed \/ runtimes[Tenant[c]] = held[c]

\* CloseComplete: when Close has returned, every gateway ever built is closed and no
\* request is inside one, also those the reaper was closing meanwhile: the caller
\* goes on to close the database.
CloseComplete ==
  closer = "done" =>
    inside = {} /\ \A i \in Instances : gateway[i] \in {"unused", "closed"}

\* CloseEnds: Close returns, although it waits for the reset service, for the reaper
\* and for the requests of every gateway.
CloseEnds == closer = "resets" ~> closer = "done"

-----------------------------------------------------------------------------
(* The inductive invariant of the proofs *)

Users(i) == {c \in Callers : held[c] = i}

\* The count of a runtime is the number of its users.
Counted == \A i \in Instances : active[i] = Cardinality(Users(i))

\* Every runtime built is in the map, with the reaper, with Close, or closed.
Places ==
  /\ \A t \in Tenants : runtimes[t] # None => runtimes[t] <= built /\ gateway[runtimes[t]] = "open"
  /\ \A s, t \in Tenants : runtimes[s] # None /\ runtimes[s] = runtimes[t] => s = t
  /\ \A i \in retired \cup closing : i <= built /\ \A t \in Tenants : runtimes[t] # i
  /\ \A i \in Instances : i > built => gateway[i] = "unused" /\ Users(i) = {}
  /\ \A i \in Instances : i <= built =>
       \/ gateway[i] = "closed" \/ i \in retired \/ i \in closing
       \/ \E t \in Tenants : runtimes[t] = i

\* A gateway that is closed has let everybody out.
InsideOpen == \A c \in inside : held[c] # None /\ gateway[held[c]] # "closed"

Shutdown ==
  /\ closed <=> closer \in {"reaper", "gateways", "done"}
  /\ closed => \A t \in Tenants : runtimes[t] = None
  /\ closing # {} => closed
  /\ retired # {} => reaper = "running"
  /\ closer \in {"gateways", "done"} => reaper # "running"
  /\ closer = "done" => closing = {}

IInv == TypeOK /\ Counted /\ Places /\ InsideOpen /\ Shutdown /\ OneGateway

\* While the registry is open nobody is on a retired gateway, and when Close returns none is open.
GatewaysSound == TypeOK /\ OneGateway /\ CloseComplete
=============================================================================
