----------------------------- MODULE Lifecycle ------------------------------
(***************************************************************************)
(* start() and shutdown() of the three clients, called by the threads of   *)
(* an application: ClientImpl's half, which owns the name server resolver, *)
(* the client manager, the exporter and the route task, and the half of    *)
(* ProducerImpl, PushConsumerImpl and PullConsumerImpl.  Only the state_   *)
(* changes are atomic; client_manager_ is a plain pointer.                 *)
(***************************************************************************)
EXTENDS Naturals, FiniteSets

CONSTANTS
  Thread,
  MaxUse         \* bound: calls of start and shutdown

ASSUME LifecycleConstants == MaxUse \in Nat

Client == {"producer", "push", "pull"}

VARIABLES
  kind,        \* which client
  lifeState,   \* state_
  owns,        \* what runs: of "resolver", "manager", "routeTask", "observer", "scanTask"
  at,          \* thread -> where it is
  uses,        \* calls so far
  overlapped,  \* history: two calls of start and shutdown ran at the same time
  nullUse      \* client_manager_ was used while null

lifeVars == <<kind, lifeState, owns, at, uses, overlapped, nullUse>>

Part == {"resolver", "manager", "routeTask", "observer", "scanTask"}

LifecycleTypeOK ==
  /\ kind \in Client /\ owns \subseteq Part /\ uses \in 0 .. MaxUse
  /\ lifeState \in {"CREATED", "STARTING", "STARTED", "STOPPING", "STOPPED"}
  /\ at \in [Thread -> {"idle", "resolver", "base", "derived", "observe", "service",
                        "terminate", "scan", "stop", "reset"}]
  /\ overlapped \in BOOLEAN /\ nullUse \in BOOLEAN

LifecycleInit ==
  /\ kind = "producer" /\ lifeState = "CREATED" /\ owns = {} /\ at = [t \in Thread |-> "idle"]
  /\ uses = 0 /\ overlapped = FALSE /\ nullUse = FALSE

construct(k) ==
  /\ uses = 0 /\ kind = "producer" /\ k # kind /\ kind' = k
  /\ UNCHANGED <<lifeState, owns, at, uses, overlapped, nullUse>>

Go(t, pc) == at' = [at EXCEPT ![t] = pc]

(* A call begins: overlapping if another is under way. *)
Begin(t) ==
  /\ at[t] = "idle" /\ uses < MaxUse /\ uses' = uses + 1
  /\ overlapped' = (overlapped \/ \E u \in Thread : at[u] # "idle")

(* A use of client_manager_, which does pc or crashes. *)
UseManager(t, pc) ==
  /\ nullUse' = (nullUse \/ "manager" \notin owns)
  /\ Go(t, pc)

(* ClientImpl::start.  If the state is not CREATED it only returns, and    *)
(* the start() of the derived class goes on.                               *)
clientStart(t) ==
  /\ Begin(t)
  /\ IF lifeState = "CREATED" THEN lifeState' = "STARTING" /\ Go(t, "resolver")
                              ELSE lifeState' = lifeState /\ Go(t, "derived")
  /\ UNCHANGED <<kind, owns, nullUse>>

startResolver(t) ==
  /\ at[t] = "resolver" /\ owns' = owns \cup {"resolver"} /\ Go(t, "base")
  /\ UNCHANGED <<kind, lifeState, uses, overlapped, nullUse>>

startManager(t) ==
  /\ at[t] = "base" /\ owns' = owns \cup {"manager", "routeTask"} /\ Go(t, "derived")
  /\ UNCHANGED <<kind, lifeState, uses, overlapped, nullUse>>

(* ProducerImpl::start and PushConsumerImpl::start make the state STARTED; *)
(* PullConsumerImpl::start expects it to be, and returns.                  *)
derivedStart(t) ==
  /\ at[t] = "derived"
  /\ IF kind # "pull" /\ lifeState = "STARTING" THEN lifeState' = "STARTED" /\ Go(t, "observe")
     ELSE lifeState' = lifeState
          /\ Go(t, IF kind = "pull" /\ lifeState = "STARTED" THEN "observe" ELSE "idle")
  /\ UNCHANGED <<kind, owns, uses, overlapped, nullUse>>

addClientObserver(t) ==
  /\ at[t] = "observe" /\ UseManager(t, IF kind = "push" THEN "service" ELSE "idle")
  /\ owns' = owns \cup {"observer"}
  /\ UNCHANGED <<kind, lifeState, uses, overlapped>>

(* Fetch routes, start the consume service, heartbeat, scan periodically. *)
startService(t) ==
  /\ at[t] = "service" /\ UseManager(t, "idle") /\ owns' = owns \cup {"scanTask"}
  /\ UNCHANGED <<kind, lifeState, uses, overlapped>>

(* PullConsumerImpl::shutdown does not look at the state. *)
clientShutdown(t) ==
  /\ Begin(t)
  /\ lifeState' = IF kind # "pull" /\ lifeState = "STARTED" THEN "STOPPING" ELSE lifeState
  /\ Go(t, IF kind = "pull" THEN "terminate"
           ELSE IF lifeState # "STARTED" THEN "idle"
           ELSE IF kind = "producer" THEN "terminate" ELSE "scan")
  /\ UNCHANGED <<kind, owns, nullUse>>

(* notifyClientTermination calls every endpoint of the route table, which  *)
(* is empty unless there is a manager to fetch routes with.                *)
notifyTermination(t) ==
  /\ at[t] = "terminate" /\ Go(t, "stop")
  /\ UNCHANGED <<kind, lifeState, owns, uses, overlapped, nullUse>>

cancelScan(t) ==
  /\ at[t] = "scan"
  /\ IF "scanTask" \in owns THEN UseManager(t, "stop") ELSE Go(t, "stop") /\ UNCHANGED nullUse
  /\ owns' = owns \ {"scanTask"}
  /\ UNCHANGED <<kind, lifeState, uses, overlapped>>

(* ClientImpl::shutdown acts only in state STOPPING. *)
clientImplShutdown(t) ==
  /\ at[t] = "stop"
  /\ IF lifeState = "STOPPING"
     THEN lifeState' = "STOPPED" /\ owns' = owns \ {"resolver"} /\ Go(t, "reset")
     ELSE UNCHANGED <<lifeState, owns>> /\ Go(t, "idle")
  /\ UNCHANGED <<kind, uses, overlapped, nullUse>>

keepsManager(t) ==                \* mutant: the manager is not reset
  /\ at[t] = "reset"
  /\ IF "routeTask" \in owns THEN UseManager(t, "idle") ELSE Go(t, "idle") /\ UNCHANGED nullUse
  /\ owns' = owns \ {"routeTask"}
  /\ UNCHANGED <<kind, lifeState, uses, overlapped>>

(* Cancel the route task and drop the manager, with its observer list. *)
resetClientManager(t) ==
  /\ at[t] = "reset"
  /\ IF "routeTask" \in owns THEN UseManager(t, "idle") ELSE Go(t, "idle") /\ UNCHANGED nullUse
  /\ owns' = owns \ {"routeTask", "manager", "observer"}
  /\ UNCHANGED <<kind, lifeState, uses, overlapped>>

LifeStep(t) ==
  \/ clientStart(t) \/ startResolver(t) \/ startManager(t) \/ derivedStart(t)
  \/ addClientObserver(t) \/ startService(t)
  \/ clientShutdown(t) \/ notifyTermination(t) \/ cancelScan(t)
  \/ clientImplShutdown(t) \/ resetClientManager(t)

(* A null dereference ends the process. *)
LifecycleNext ==
  /\ ~nullUse
  /\ (\E k \in Client : construct(k)) \/ \E t \in Thread : LifeStep(t)

-----------------------------------------------------------------------------
(* Properties. *)

(* An application that calls start and shutdown one after the other, in    *)
(* any order and any number of times, never makes the client use a null    *)
(* client_manager_.  (Two calls at once may: a second start() passes       *)
(* ClientImpl::start before the first has made the manager; a shutdown()   *)
(* right after STARTED resets it before it is used.)                       *)
NullUseOnlyIfOverlapped == nullUse => overlapped

(* A shutdown that completed left nothing running, and a start that        *)
(* completed everything; but a pull consumer never gets past STARTING: it  *)
(* is not observed, so it has no heartbeat and no health check, and its    *)
(* shutdown stops nothing.                                                 *)
StateTellsOwned ==
  ~overlapped /\ (\A t \in Thread : at[t] = "idle") =>
    CASE lifeState = "CREATED" -> owns = {}
      [] lifeState = "STARTING" -> kind = "pull" /\ owns = {"resolver", "manager", "routeTask"}
      [] lifeState = "STARTED" -> owns = IF kind = "push" THEN Part ELSE Part \ {"scanTask"}
      [] lifeState = "STOPPED" -> owns = {} /\ kind # "pull"
      [] OTHER -> FALSE

(* Calls one after the other are safe, and leave what the state says. *)
LifecycleInv == LifecycleTypeOK /\ NullUseOnlyIfOverlapped /\ StateTellsOwned
=============================================================================
