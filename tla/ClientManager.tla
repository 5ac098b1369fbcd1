--------------------------- MODULE ClientManager ----------------------------
(***************************************************************************)
(* ClientManagerImpl and the client that owns it: asynchronous RPCs, from  *)
(* the call over the completion queue and the callback pool to the         *)
(* caller's callback; the RPC clients kept per host; the periodic health   *)
(* check and heartbeat; isolation of endpoints; and the end of the manager,*)
(* which is destroyed by whoever drops the last reference to it.           *)
(*                                                                         *)
(* External: gRPC.  It completes a call that has a deadline; it reports    *)
(* ok = true for Finish of a unary call; a completion queue that is shut   *)
(* down first delivers the calls still out.                                *)
(***************************************************************************)
EXTENDS RpcStatus, FiniteSets

CONSTANTS
  Host,
  Call,         \* bound: RPCs of the application at once
  Kind,         \* the RPCs the application makes
  Seen          \* the outcomes RPCs have

Task == {"healthCheck", "heartbeat"}

ASSUME ManagerConstants ==
  Host # {} /\ Call \cap Task = {} /\ Kind \subseteq Rpc /\ Seen \subseteq Outcome

(* Bound: a health check has one RPC out at a time; a heartbeat takes one  *)
(* of Call.                                                                *)
Slot(k) == IF k = "healthCheck" THEN {k} ELSE Call
AnyCall == Call \cup {"healthCheck"}

VARIABLES
  mgrState,    \* state_ of the manager
  ref,         \* client_manager_ of the client is set
  active,      \* ClientImpl::active()
  routed,      \* hosts of the client's route table
  rpcClient,   \* rpc_clients_: "none", "plain", or "heartbeat" if needHeartbeat
  isolated,    \* isolated_endpoints_
  call,        \* the RPCs
  task,        \* the periodic tasks of the scheduler
  stop,        \* where shutdown() is
  poolOpen,    \* the callback pool takes and runs tasks
  busyAtReset, \* history: the client dropped its reference while others were held
  mgrCrash     \* "no", "null" or "selfJoin"

clientVars == <<ref, active, routed, isolated, busyAtReset>>
mgrVars == <<mgrState, clientVars, rpcClient, call, task, stop, poolOpen, mgrCrash>>

FreeCall ==
  [pc |-> "free", rpc |-> "send", host |-> CHOOSE h \in Host : TRUE, outcome |-> "OK",
   garbled |-> FALSE, told |-> ""]

IdleTask == [pc |-> "idle", hosts |-> {}]

(* What a completion can tell its caller. *)
Tellable == {"", NoCallback, NoError} \cup {ErrorOf[p[1]][p[2]] : p \in Rpc \X Outcome}

CallRecord ==
  [pc : {"free", "sent", "queued", "running", "over", "leaked"}, rpc : Rpc, host : Host,
   outcome : Outcome, garbled : BOOLEAN, told : Tellable]

ManagerTypeOK ==
  /\ mgrState \in {"CREATED", "STARTED", "STOPPING", "STOPPED"}
  /\ ref \in BOOLEAN /\ active \in BOOLEAN /\ poolOpen \in BOOLEAN /\ busyAtReset \in BOOLEAN
  /\ routed \subseteq Host /\ isolated \subseteq Host
  /\ rpcClient \in [Host -> {"none", "plain", "heartbeat"}]
  /\ call \in [AnyCall -> CallRecord]
  /\ task \in [Task -> [pc : {"idle", "purge", "notify", "snapshot", "call"},
                        hosts : SUBSET Host]]
  /\ stop \in {"no", "pool", "join", "clients", "drain"}
  /\ mgrCrash \in {"no", "null", "selfJoin"}

ManagerInit ==
  /\ mgrState = "CREATED" /\ ref = TRUE /\ active = TRUE
  /\ routed = {} /\ isolated = {} /\ rpcClient = [h \in Host |-> "none"]
  /\ call = [c \in AnyCall |-> FreeCall] /\ task = [k \in Task |-> IdleTask]
  /\ stop = "no" /\ poolOpen = FALSE /\ busyAtReset = FALSE /\ mgrCrash = "no"

mgrStart ==
  /\ mgrState = "CREATED" /\ mgrState' = "STARTED" /\ poolOpen' = TRUE
  /\ UNCHANGED <<clientVars, rpcClient, call, task, stop, mgrCrash>>

-----------------------------------------------------------------------------
(* References.  A completion of send and a periodic task turn their weak   *)
(* pointer into a strong one while they run.                               *)
Holders ==
  {c \in AnyCall : call[c].pc = "running" /\ call[c].rpc = "send"}
  \cup {k \in Task : task[k].pc # "idle"}

Alive == ref \/ Holders # {}

releasesLast(x) ==                \* mutant: the client holds the manager weakly too
  mgrCrash' = IF Holders \subseteq {x} THEN "selfJoin" ELSE mgrCrash

(* A thread of the manager drops its reference.  If it is the last, the    *)
(* destructor runs shutdown() on that thread, which joins itself.          *)
Release(x) ==
  mgrCrash' = IF ~ref /\ Holders \subseteq {x} THEN "selfJoin" ELSE mgrCrash

(* Without heartbeat an existing client is used as it is; with it, marked. *)
getRpcClient(h, needHeartbeat) ==
  rpcClient' = [rpcClient EXCEPT ![h] = IF needHeartbeat THEN "heartbeat"
                                        ELSE IF @ = "none" THEN "plain" ELSE @]

(* Every RPC: fill an invocation context and start the call. *)
Invoke(c, rpc, h) ==
  /\ call[c].pc \in {"free", "over"}
  /\ call' = [call EXCEPT ![c] = [FreeCall EXCEPT !.pc = "sent", !.rpc = rpc, !.host = h]]
  /\ getRpcClient(h, rpc # "resolveRoute")

applicationCalls(c, rpc, h) ==
  /\ mgrState = "STARTED" /\ ref /\ active
  /\ Invoke(c, rpc, h)
  /\ UNCHANGED <<mgrState, clientVars, task, stop, poolOpen, mgrCrash>>

-----------------------------------------------------------------------------
(* The call ends and the thread of the completion queue submits it.  A     *)
(* closed pool drops the task, and the invocation context with it.  What   *)
(* the outcome is, is settled when the completion reads it.                *)
pollCompletionQueue(c) ==
  /\ call[c].pc = "sent"
  /\ call' = [call EXCEPT ![c].pc = IF poolOpen THEN "queued" ELSE "leaked"]
  /\ UNCHANGED <<mgrState, clientVars, rpcClient, task, stop, poolOpen, mgrCrash>>

(* What the completion tells the caller; garbled: a pulled message that    *)
(* does not decode.                                                        *)
Told(rpc, outcome, garbled) == IF garbled THEN NoCallback ELSE ErrorOf[rpc][outcome]

Over(c, outcome, garbled, told) ==
  call' = [call EXCEPT ![c].pc = "over", ![c].outcome = outcome, ![c].garbled = garbled,
                       ![c].told = told]

(* A pool thread runs the completion.  Only send looks at the manager:     *)
(* when it is gone or no longer STARTED the callback is dropped.           *)
onCompletion(c) ==
  /\ call[c].pc = "queued" /\ poolOpen
  /\ IF call[c].rpc = "send" /\ (~Alive \/ mgrState # "STARTED")
     THEN call' = [call EXCEPT ![c].pc = "over", ![c].told = NoCallback]
     ELSE call' = [call EXCEPT ![c].pc = "running"]
  /\ UNCHANGED <<mgrState, clientVars, rpcClient, task, stop, poolOpen, mgrCrash>>

(* The callback returns.  onHealthCheckResponse restores an endpoint that  *)
(* passed its health check.                                                *)
callbackReturns(c, outcome, garbled) ==
  LET k == call[c] IN
    /\ k.pc = "running"
    /\ garbled => k.rpc = "pullMessage" /\ outcome = "OK"
    /\ Over(c, outcome, garbled, Told(k.rpc, outcome, garbled))
    /\ isolated' = IF k.rpc = "healthCheck" /\ Told(k.rpc, outcome, garbled) = NoError
                   THEN isolated \ {k.host} ELSE isolated
    /\ IF k.rpc = "send" THEN Release(c) ELSE UNCHANGED mgrCrash
    /\ UNCHANGED <<mgrState, ref, active, routed, busyAtReset, rpcClient, task, stop, poolOpen>>

-----------------------------------------------------------------------------
(* The periodic tasks. *)
At(k, pc, hosts) == task' = [task EXCEPT ![k] = [pc |-> pc, hosts |-> hosts]]

(* A task begins by reading the endpoints in use: cleanOfflineRpcClients   *)
(* to tell which RPC clients to remove, ClientImpl::heartbeat of an active *)
(* client to call them.                                                    *)
taskBegins(k) ==
  /\ task[k].pc = "idle" /\ Alive /\ mgrState = "STARTED"
  /\ IF k = "healthCheck" THEN At(k, "purge", routed)
                          ELSE At(k, "call", IF active THEN routed ELSE {})
  /\ UNCHANGED <<mgrState, clientVars, rpcClient, call, stop, poolOpen, mgrCrash>>

keepsHealthy ==                   \* mutant: a client is kept while its endpoint is not isolated
  LET removed == {h \in Host : rpcClient[h] = "heartbeat" /\ h \notin task["healthCheck"].hosts
                               /\ h \in isolated}
  IN  /\ task["healthCheck"].pc = "purge"
      /\ rpcClient' = [h \in Host |-> IF h \in removed THEN "none" ELSE rpcClient[h]]
      /\ At("healthCheck", "notify", removed)
      /\ UNCHANGED <<mgrState, clientVars, call, stop, poolOpen, mgrCrash>>

(* Under another lock, the clients of other hosts are removed. *)
cleanOfflineRpcClients ==
  LET removed == {h \in Host : rpcClient[h] = "heartbeat" /\ h \notin task["healthCheck"].hosts}
  IN  /\ task["healthCheck"].pc = "purge"
      /\ rpcClient' = [h \in Host |-> IF h \in removed THEN "none" ELSE rpcClient[h]]
      /\ At("healthCheck", "notify", removed)
      /\ UNCHANGED <<mgrState, clientVars, call, stop, poolOpen, mgrCrash>>

(* onRemoteEndpointRemoval of a client that is active. *)
notifyRemoval ==
  /\ task["healthCheck"].pc = "notify"
  /\ isolated' = IF active THEN isolated \ task["healthCheck"].hosts ELSE isolated
  /\ At("healthCheck", IF active THEN "snapshot" ELSE "call", {})
  /\ UNCHANGED <<mgrState, ref, active, routed, busyAtReset, rpcClient, call, stop, poolOpen, mgrCrash>>

(* ClientImpl::healthCheck copies the endpoints to check. *)
snapshot ==
  /\ task["healthCheck"].pc = "snapshot"
  /\ At("healthCheck", "call", isolated)
  /\ UNCHANGED <<mgrState, clientVars, rpcClient, call, stop, poolOpen, mgrCrash>>

(* One call through client_manager_, which the client may have reset. *)
taskCalls(k, c, h) ==
  /\ task[k].pc = "call" /\ h \in task[k].hosts
  /\ IF ref
     THEN /\ Invoke(c, k, h) /\ At(k, "call", task[k].hosts \ {h})
          /\ UNCHANGED mgrCrash
     ELSE mgrCrash' = "null" /\ UNCHANGED <<call, rpcClient, task>>
  /\ UNCHANGED <<mgrState, clientVars, stop, poolOpen>>

taskEnds(k) ==
  /\ task[k].pc = "call" /\ task[k].hosts = {}
  /\ At(k, "idle", {}) /\ Release(k)
  /\ UNCHANGED <<mgrState, clientVars, rpcClient, call, stop, poolOpen>>

-----------------------------------------------------------------------------
(* The client: its route table, isolateEndpoint, and its shutdown. *)
routeChanges(hosts) ==
  /\ mgrState = "STARTED" /\ ref /\ active /\ routed' = hosts /\ hosts # routed
  /\ UNCHANGED <<mgrState, ref, active, isolated, busyAtReset, rpcClient, call, task, stop,
                 poolOpen, mgrCrash>>

isolateEndpoint(h) ==
  /\ mgrState = "STARTED" /\ ref /\ active /\ isolated' = isolated \cup {h} /\ h \notin isolated
  /\ UNCHANGED <<mgrState, ref, active, routed, busyAtReset, rpcClient, call, task, stop,
                 poolOpen, mgrCrash>>

clientStops ==
  /\ mgrState = "STARTED" /\ active /\ active' = FALSE
  /\ UNCHANGED <<mgrState, ref, routed, isolated, busyAtReset, rpcClient, call, task, stop,
                 poolOpen, mgrCrash>>

(* client_manager_.reset(): the destructor runs here if nobody else holds  *)
(* the manager.                                                            *)
resetManager ==
  /\ ref /\ ~active /\ ref' = FALSE
  /\ busyAtReset' = (Holders # {})
  /\ IF Holders = {} THEN mgrState' = "STOPPING" /\ stop' = "pool" ELSE UNCHANGED <<mgrState, stop>>
  /\ UNCHANGED <<active, routed, isolated, rpcClient, call, task, poolOpen, mgrCrash>>

(* ThreadPoolImpl::shutdown: queued tasks are discarded ... *)
poolStops ==
  /\ stop = "pool" /\ stop' = "join" /\ poolOpen' = FALSE
  /\ call' = [c \in AnyCall |-> IF call[c].pc = "queued" THEN [call[c] EXCEPT !.pc = "leaked"]
                                                        ELSE call[c]]
  /\ UNCHANGED <<mgrState, clientVars, rpcClient, task, mgrCrash>>

(* ... and the running ones awaited; then the scheduler is shut down. *)
poolJoined ==
  /\ stop = "join" /\ stop' = "clients"
  /\ \A c \in AnyCall : call[c].pc # "running"
  /\ UNCHANGED <<mgrState, clientVars, rpcClient, call, task, poolOpen, mgrCrash>>

clientsCleared ==
  /\ stop = "clients" /\ stop' = "drain"
  /\ \A k \in Task : task[k].pc = "idle"
  /\ rpcClient' = [h \in Host |-> "none"]
  /\ UNCHANGED <<mgrState, clientVars, call, task, poolOpen, mgrCrash>>

(* Join the thread of the completion queue, which ends once it is drained. *)
queueDrained ==
  /\ stop = "drain" /\ mgrState = "STOPPING"
  /\ \A c \in AnyCall : call[c].pc # "sent"
  /\ mgrState' = "STOPPED"
  /\ UNCHANGED <<clientVars, rpcClient, call, task, stop, poolOpen, mgrCrash>>

-----------------------------------------------------------------------------
shutdownStep == poolStops \/ poolJoined \/ clientsCleared \/ queueDrained

CompletionStep(c) ==
  onCompletion(c) \/ \E s \in Seen, g \in BOOLEAN : callbackReturns(c, s, g)

TaskStep(k) ==
  \/ k = "healthCheck" /\ (cleanOfflineRpcClients \/ notifyRemoval \/ snapshot)
  \/ \E c \in Slot(k), h \in Host : taskCalls(k, c, h)
  \/ taskEnds(k)

(* A crash ends the process. *)
ManagerNext ==
  /\ mgrCrash = "no"
  /\ \/ mgrStart \/ clientStops \/ resetManager \/ shutdownStep
     \/ \E c \in Call, rpc \in Kind, h \in Host : applicationCalls(c, rpc, h)
     \/ \E c \in AnyCall : pollCompletionQueue(c) \/ CompletionStep(c)
     \/ \E k \in Task : taskBegins(k) \/ TaskStep(k)
     \/ \E hosts \in SUBSET Host : routeChanges(hosts)
     \/ \E h \in Host : isolateEndpoint(h)

-----------------------------------------------------------------------------
(* Properties. *)

(* A caller is told the truth and is told: a success only if the server    *)
(* answered OK (pollCommand and the dead-letter RPC hand on the context    *)
(* instead), and nothing only when the manager was being shut down, when a *)
(* heartbeat got a status its switch does not list, or when a message of a *)
(* pulled batch did not decode.                                            *)
CallbackContract ==
  \A c \in AnyCall : LET k == call[c] IN
    /\ k.pc = "over" /\ k.told = NoError
         => k.outcome = "OK" \/ k.rpc \in {"pollCommand", "forwardMessageToDeadLetterQueue"}
    /\ k.pc = "leaked" \/ (k.pc = "over" /\ k.told = NoCallback)
         => ~ref \/ k.garbled \/ (k.rpc = "heartbeat" /\ k.outcome \notin DOMAIN Argued)

(* Isolation is temporary: an endpoint leaves isolated_endpoints_ through  *)
(* a health check that passes or because its RPC client was purged, again  *)
(* and again, however often it is isolated.                                *)
IsolationEnds ==
  \A h \in Host : []<>(h \notin isolated \/ ~active \/ mgrCrash # "no")

(* ClientManagerImpl.h, cleanOfflineRpcClients: clients of hosts that are  *)
(* absent from the route table are purged, unless the host comes back.     *)
OfflinePurged ==
  \A h \in Host :
    h \notin routed ~> h \in routed \/ rpcClient[h] # "heartbeat" \/ ~active \/ mgrCrash # "no"

(* The end of the manager.  If no task and no completion of a send was     *)
(* under way when the client dropped its reference, shutdown() runs on     *)
(* that thread and ends, unless a send, which has no deadline, is never    *)
(* answered: then the completion queue never drains.                       *)
ShutdownCompletes ==
  ~ref /\ ~busyAtReset ~>
    mgrState = "STOPPED" \/ \E c \in AnyCall : call[c].pc = "sent" /\ call[c].rpc = "send"

(* Neither crash happens without a task or completion that was under way   *)
(* when the client dropped its reference.                                  *)
CrashOnlyIfBusy == mgrCrash # "no" => busyAtReset

(* What the manager promises of every state: answers are honest, and it    *)
(* dies only if it was dropped while one of its own threads was at work.   *)
ManagerInv == ManagerTypeOK /\ CallbackContract /\ CrashOnlyIfBusy

(* What it promises to do in time: isolation ends, the RPC clients of      *)
(* hosts that left the routes are purged, and shutdown comes to an end.    *)
ManagerProgress == IsolationEnds /\ OfflinePurged /\ ShutdownCompletes
=============================================================================
