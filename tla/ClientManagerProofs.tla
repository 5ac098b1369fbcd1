------------------------ MODULE ClientManagerProofs -------------------------
(***************************************************************************)
(* Callers are told the truth, and the manager dies only if it was dropped *)
(* while one of its own threads was at work, for any hosts and calls.      *)
(* Then, on the ons:: layer above: what a factory makes clients of.  And   *)
(* what both stand on: name server discovery, session credentials, the     *)
(* latency histogram and the logger.                                       *)
(***************************************************************************)
EXTENDS ClientManager, OnsFacade, NameServer, Credentials, Histogram, Logging, TLAPS

ManagerSpec == ManagerInit /\ [][ManagerNext]_mgrVars

-----------------------------------------------------------------------------
(* The switches. *)

(* The cases of a switch report a success for OK only, and every one of    *)
(* them calls back.                                                        *)
Honest(listed) ==
  \A s \in DOMAIN listed : (listed[s] = NoError => s = "OK") /\ listed[s] # NoCallback

(* The codes of the switches are neither a success nor silence. *)
LEMMA Codes ==
  /\ NoCallback # NoError
  /\ \A c \in {"NotImplemented", "RequestTimeout", "BadRequest", "InternalServerError", "NotFound",
              "GatewayTimeout", "PreconditionRequired", "Unauthorized", "Forbidden"} :
       c # NoError /\ c # NoCallback
  BY Zenon DEF NoError, NoCallback

(* Honest cases make honest switches. *)
LEMMA HonestUnion ==
  ASSUME NEW f, NEW g, Honest(f), Honest(g) PROVE Honest(Also(f, g))
  BY Zenon DEF Honest, Also

(* What resolveRoute and pullMessage list beyond the common cases. *)
RouteCases == Also(Argued, [NOT_FOUND |-> "NotFound"])
PullCases ==
  Also(Polled, [NOT_FOUND |-> "NotFound", FAILED_PRECONDITION |-> "PreconditionRequired"])

(* The cases of the switches are honest. *)
LEMMA ListedHonest ==
  /\ Honest(Access) /\ Honest(Server) /\ Honest(Argued) /\ Honest(Polled)
  /\ Honest(RouteCases) /\ Honest(PullCases)
<1>1. Honest(Access)
  <2>1. DOMAIN Access = {"OK", "UNAUTHENTICATED", "PERMISSION_DENIED"}
    BY Zenon DEF Access
  <2>2. /\ Access["OK"] = NoError /\ Access["UNAUTHENTICATED"] = "Unauthorized"
        /\ Access["PERMISSION_DENIED"] = "Forbidden"
    BY Zenon DEF Access
  <2>3. QED
    BY <2>1, <2>2 DEF Honest, NoError, NoCallback
<1>2. Honest([INTERNAL |-> "InternalServerError"])
  <2>1. /\ [INTERNAL |-> "InternalServerError"]["INTERNAL"] = "InternalServerError"
        /\ DOMAIN [INTERNAL |-> "InternalServerError"] = {"INTERNAL"}
    BY Zenon
  <2>2. QED
    BY <2>1, Codes, Zenon DEF Honest
<1>3. Honest([INVALID_ARGUMENT |-> "BadRequest"])
  <2>1. /\ [INVALID_ARGUMENT |-> "BadRequest"]["INVALID_ARGUMENT"] = "BadRequest"
        /\ DOMAIN [INVALID_ARGUMENT |-> "BadRequest"] = {"INVALID_ARGUMENT"}
    BY Zenon
  <2>2. QED
    BY <2>1, Codes, Zenon DEF Honest
<1>4. Honest([DEADLINE_EXCEEDED |-> "GatewayTimeout"])
  <2>1. /\ [DEADLINE_EXCEEDED |-> "GatewayTimeout"]["DEADLINE_EXCEEDED"] = "GatewayTimeout"
        /\ DOMAIN [DEADLINE_EXCEEDED |-> "GatewayTimeout"] = {"DEADLINE_EXCEEDED"}
    BY Zenon
  <2>2. QED
    BY <2>1, Codes, Zenon DEF Honest
<1>5. Honest([NOT_FOUND |-> "NotFound"])
  <2>1. /\ [NOT_FOUND |-> "NotFound"]["NOT_FOUND"] = "NotFound"
        /\ DOMAIN [NOT_FOUND |-> "NotFound"] = {"NOT_FOUND"}
    BY Zenon
  <2>2. QED
    BY <2>1, Codes, Zenon DEF Honest
<1>6. Honest([NOT_FOUND |-> "NotFound", FAILED_PRECONDITION |-> "PreconditionRequired"])
  <2> DEFINE f == [NOT_FOUND |-> "NotFound", FAILED_PRECONDITION |-> "PreconditionRequired"]
  <2>1. /\ f["NOT_FOUND"] = "NotFound" /\ f["FAILED_PRECONDITION"] = "PreconditionRequired"
        /\ DOMAIN f = {"NOT_FOUND", "FAILED_PRECONDITION"}
    BY Zenon
  <2> HIDE DEF f
  <2>2. Honest(f)
    BY <2>1, Codes, Zenon DEF Honest
  <2>3. QED
    BY <2>2, Zenon DEF f
<1>7. Honest(Server)
  BY <1>1, <1>2, HonestUnion, Zenon DEF Server
<1>8. Honest(Argued)
  BY <1>3, <1>7, HonestUnion, Zenon DEF Argued
<1>9. Honest(Polled)
  BY <1>4, <1>8, HonestUnion, Zenon DEF Polled
<1>10. Honest(RouteCases)
  BY <1>5, <1>8, HonestUnion, Zenon DEF RouteCases
<1>11. Honest(PullCases)
  BY <1>6, <1>9, HonestUnion, Zenon DEF PullCases
<1>12. QED
  BY <1>1, <1>7, <1>8, <1>9, <1>10, <1>11, Zenon

(* A switch over honest cases. *)
LEMMA TableHonest ==
  ASSUME NEW e, NEW transport, NEW listed, NEW default, e = Table(transport, listed, default),
         Honest(listed), transport # NoError, transport # NoCallback, default # NoError
  PROVE  \A s \in Outcome :
           /\ e[s] = NoError => s = "OK"
           /\ e[s] = NoCallback => default = NoCallback /\ s \notin DOMAIN listed
  BY DEF Table, Honest

(* A switch whose default is NotImplemented always calls back. *)
LEMMA PlainHonest ==
  ASSUME NEW e, NEW listed, Honest(listed),
         \/ e = Table("RequestTimeout", listed, "NotImplemented")
         \/ e = Table("BadRequest", listed, "NotImplemented")
  PROVE  \A s \in Outcome : (e[s] = NoError => s = "OK") /\ e[s] # NoCallback
<1>1. /\ "NotImplemented" # NoError /\ "NotImplemented" # NoCallback
      /\ "RequestTimeout" # NoError /\ "RequestTimeout" # NoCallback
      /\ "BadRequest" # NoError /\ "BadRequest" # NoCallback
  BY Codes, Zenon
<1>2. CASE e = Table("RequestTimeout", listed, "NotImplemented")
  BY <1>1, <1>2, TableHonest, Zenon
<1>3. CASE e = Table("BadRequest", listed, "NotImplemented")
  BY <1>1, <1>3, TableHonest, Zenon
<1>4. QED
  BY <1>2, <1>3

(* Every RPC: a success is an OK, and only a heartbeat can be silent. *)
LEMMA ErrorHonest ==
  ASSUME NEW r \in Rpc, NEW s \in Outcome
  PROVE  /\ ErrorOf[r][s] = NoError
              => s = "OK" \/ r \in {"pollCommand", "forwardMessageToDeadLetterQueue"}
         /\ ErrorOf[r][s] = NoCallback => r = "heartbeat" /\ s \notin DOMAIN Argued
<1>1. CASE r = "heartbeat"
  <2>1. ErrorOf[r] = Table("RequestTimeout", Argued, NoCallback)
    BY <1>1, Zenon DEF ErrorOf, heartbeat
  <2>2. /\ Honest(Argued) /\ NoCallback # NoError
        /\ "RequestTimeout" # NoError /\ "RequestTimeout" # NoCallback
    BY ListedHonest, Codes, Zenon
  <2>3. \A x \in Outcome : (ErrorOf[r][x] = NoError => x = "OK")
                         /\ (ErrorOf[r][x] = NoCallback => x \notin DOMAIN Argued)
    BY <2>1, <2>2, TableHonest, Zenon
  <2>4. QED
    BY <1>1, <2>3, Zenon
<1>2. CASE r \in {"pollCommand", "forwardMessageToDeadLetterQueue"}
  <2>1. ErrorOf[r][s] \in {"failed", NoError}
    BY <1>2 DEF ErrorOf, pollCommand, forwardMessageToDeadLetterQueue
  <2>2. QED
    BY <1>2, <2>1 DEF NoError, NoCallback
<1>3. CASE r \notin {"heartbeat", "pollCommand", "forwardMessageToDeadLetterQueue"}
  <2>1. r \in {"healthCheck", "send", "resolveRoute", "queryAssignment", "receiveMessage", "ack",
               "nack", "endTransaction", "queryOffset", "pullMessage"}
    BY <1>3, Zenon DEF Rpc, ErrorOf
  <2>2. CASE r \in {"send", "queryAssignment", "ack"}
    <3>1. Honest(Argued)
      BY ListedHonest, Zenon
    <3>2. \/ ErrorOf[r] = Table("RequestTimeout", Argued, "NotImplemented")
          \/ ErrorOf[r] = Table("BadRequest", Argued, "NotImplemented")
      BY <2>2 DEF ErrorOf, send, queryAssignment, ack
    <3>3. QED
      BY <3>1, <3>2, PlainHonest, Zenon
  <2>3. CASE r \in {"healthCheck", "nack", "endTransaction", "queryOffset"}
    <3>1. Honest(Server)
      BY ListedHonest, Zenon
    <3>2. \/ ErrorOf[r] = Table("RequestTimeout", Server, "NotImplemented")
          \/ ErrorOf[r] = Table("BadRequest", Server, "NotImplemented")
      BY <2>3 DEF ErrorOf, healthCheck, nack, endTransaction, queryOffset
    <3>3. QED
      BY <3>1, <3>2, PlainHonest, Zenon
  <2>4. CASE r = "resolveRoute"
    <3>1. Honest(RouteCases)
      BY ListedHonest, Zenon
    <3>2. ErrorOf[r] = Table("RequestTimeout", RouteCases, "NotImplemented")
      BY <2>4, Zenon DEF ErrorOf, resolveRoute, RouteCases
    <3>3. QED
      BY <3>1, <3>2, PlainHonest, Zenon
  <2>5. CASE r = "receiveMessage"
    <3>1. Honest(Polled)
      BY ListedHonest, Zenon
    <3>2. \/ ErrorOf[r] = Table("RequestTimeout", Polled, "NotImplemented")
          \/ ErrorOf[r] = Table("BadRequest", Polled, "NotImplemented")
      BY <2>5, Zenon DEF ErrorOf, receiveMessage
    <3>3. QED
      BY <3>1, <3>2, PlainHonest, Zenon
  <2>6. CASE r = "pullMessage"
    <3>1. Honest(PullCases)
      BY ListedHonest, Zenon
    <3>2. ErrorOf[r] = Table("RequestTimeout", PullCases, "NotImplemented")
      BY <2>6, Zenon DEF ErrorOf, pullMessage, PullCases
    <3>3. QED
      BY <3>1, <3>2, PlainHonest, Zenon
  <2>7. QED
    BY <2>1, <2>2, <2>3, <2>4, <2>5, <2>6, Zenon
<1>4. QED
  BY <1>1, <1>2, <1>3, Zenon

-----------------------------------------------------------------------------
(* The end of the manager. *)

(* How far the client and the manager have come: until the client drops    *)
(* its reference the manager is up, and nothing is called before it is.    *)
Stages ==
  /\ ~ref => ~active
  /\ ~active => mgrState # "CREATED"
  /\ mgrState = "CREATED" =>
       (\A c \in AnyCall : call[c].pc = "free") /\ \A k \in Task : task[k].pc = "idle"
  /\ stop # "no" \/ mgrState \in {"STOPPING", "STOPPED"} => ~ref
  /\ ~poolOpen => mgrState = "CREATED" \/ ~ref

(* If nothing was under way when the reference was dropped, the destructor *)
(* runs, and nothing takes a reference again.                              *)
DroppedIdle ==
  ~ref /\ ~busyAtReset => mgrState \in {"STOPPING", "STOPPED"} /\ Holders = {}

(* The inductive invariant. *)
OwnerInv ==
  ManagerTypeOK /\ Stages /\ DroppedIdle /\ CallbackContract /\ CrashOnlyIfBusy

(* A fresh call. *)
LEMMA FreshCall ==
  ASSUME NEW r \in Rpc, NEW h \in Host
  PROVE  /\ [FreeCall EXCEPT !.pc = "sent", !.rpc = r, !.host = h] \in CallRecord
         /\ [FreeCall EXCEPT !.pc = "sent", !.rpc = r, !.host = h].pc = "sent"
         /\ FreeCall \in CallRecord /\ FreeCall.pc = "free"
<1>1. "send" \in Rpc
  BY Zenon DEF Rpc, ErrorOf
<1>2. (CHOOSE x \in Host : TRUE) \in Host
  BY ManagerConstants, Zenon
<1>3. "OK" \in Outcome /\ "" \in Tellable
  BY Zenon DEF Outcome, Tellable
<1>4. FreeCall \in CallRecord
  BY <1>1, <1>2, <1>3 DEF FreeCall, CallRecord
<1>5. /\ [FreeCall EXCEPT !.pc = "sent", !.rpc = r, !.host = h] \in CallRecord
      /\ [FreeCall EXCEPT !.pc = "sent", !.rpc = r, !.host = h].pc = "sent"
  BY <1>4, Zenon DEF CallRecord
<1>6. FreeCall.pc = "free"
  BY Zenon DEF FreeCall
<1>7. QED
  BY <1>4, <1>5, <1>6, Zenon

(* The RPCs the manager makes of its own accord. *)
LEMMA TaskRpc == Task \subseteq Rpc
  BY Zenon DEF Task, Rpc, ErrorOf

(* What a completion tells is something it can tell. *)
LEMMA ToldType ==
  ASSUME NEW r \in Rpc, NEW s \in Outcome, NEW g \in BOOLEAN
  PROVE  Told(r, s, g) \in Tellable
<1>1. CASE g
  BY <1>1, Zenon DEF Told, Tellable
<1>2. CASE ~g
  <2>1. <<r, s>> \in Rpc \X Outcome /\ ErrorOf[<<r, s>>[1]][<<r, s>>[2]] = ErrorOf[r][s]
    BY Zenon
  <2>2. Told(r, s, g) = ErrorOf[r][s]
    BY <1>2, Zenon DEF Told
  <2>3. QED
    BY <2>1, <2>2 DEF Tellable
<1>3. QED
  BY <1>1, <1>2, Zenon

(* A call that begins leaves types in order. *)
LEMMA InvokeType ==
  ASSUME ManagerTypeOK, NEW c \in AnyCall, NEW r \in Rpc, NEW h \in Host, Invoke(c, r, h)
  PROVE  /\ call' \in [AnyCall -> CallRecord] /\ call'[c].pc = "sent"
         /\ \A x \in AnyCall : x # c => call'[x] = call[x]
         /\ rpcClient' \in [Host -> {"none", "plain", "heartbeat"}]
<1>1. /\ [FreeCall EXCEPT !.pc = "sent", !.rpc = r, !.host = h] \in CallRecord
      /\ [FreeCall EXCEPT !.pc = "sent", !.rpc = r, !.host = h].pc = "sent"
  BY FreshCall, Zenon
<1>2. /\ call' \in [AnyCall -> CallRecord] /\ call'[c].pc = "sent"
      /\ \A x \in AnyCall : x # c => call'[x] = call[x]
  BY <1>1, Zenon DEF Invoke, ManagerTypeOK
<1>3. rpcClient' \in [Host -> {"none", "plain", "heartbeat"}]
  BY Zenon DEF Invoke, getRpcClient, ManagerTypeOK
<1>4. QED
  BY <1>2, <1>3, Zenon

(* The variables keep their types. *)
LEMMA ManagerTypeStep ==
  ManagerTypeOK /\ [ManagerNext]_mgrVars => ManagerTypeOK'
<1> SUFFICES ASSUME ManagerTypeOK, [ManagerNext]_mgrVars PROVE ManagerTypeOK'
  BY Zenon
<1> USE DEF ManagerTypeOK, clientVars
<1>1. CASE UNCHANGED mgrVars
  BY <1>1 DEF mgrVars
<1>2. CASE mgrStart \/ clientStops
  BY <1>2, Zenon DEF mgrStart, clientStops
<1>3. CASE resetManager
  <2>1. busyAtReset' \in BOOLEAN /\ ref' \in BOOLEAN
    BY <1>3, Zenon DEF resetManager
  <2>2. QED
    BY <1>3, <2>1, Zenon DEF resetManager
<1>4. CASE shutdownStep
  <2>1. CASE poolStops
    <3>1. call' \in [AnyCall -> CallRecord]
      BY <2>1 DEF poolStops, CallRecord
    <3>2. poolOpen' \in BOOLEAN
      BY <2>1, Zenon DEF poolStops
    <3>3. QED
      BY <2>1, <3>1, <3>2, Zenon DEF poolStops
  <2>2. CASE poolJoined \/ queueDrained
    BY <2>2 DEF poolJoined, queueDrained
  <2>3. CASE clientsCleared
    BY <2>3, Zenon DEF clientsCleared
  <2>4. QED
    BY <1>4, <2>1, <2>2, <2>3, Zenon DEF shutdownStep
<1>5. ASSUME NEW c \in Call, NEW rpc \in Kind, NEW h \in Host, applicationCalls(c, rpc, h)
      PROVE  ManagerTypeOK'
  <2>1. c \in AnyCall /\ rpc \in Rpc
    BY ManagerConstants, Zenon DEF AnyCall
  <2>2. QED
    BY <1>5, <2>1, InvokeType, Zenon DEF applicationCalls
<1>6. ASSUME NEW c \in AnyCall, pollCompletionQueue(c) PROVE ManagerTypeOK'
  BY <1>6 DEF pollCompletionQueue, CallRecord
<1>7. ASSUME NEW c \in AnyCall, onCompletion(c) PROVE ManagerTypeOK'
  <2>1. NoCallback \in Tellable /\ call[c] \in CallRecord
    BY Zenon DEF Tellable
  <2>2. call' \in [AnyCall -> CallRecord]
    <3>1. CASE call' = [call EXCEPT ![c].pc = "over", ![c].told = NoCallback]
      BY <2>1, <3>1, Zenon DEF CallRecord
    <3>2. CASE call' = [call EXCEPT ![c].pc = "running"]
      BY <3>2 DEF CallRecord
    <3>3. QED
      <4> DEFINE dropped == call[c].rpc = "send" /\ (~Alive \/ mgrState # "STARTED")
      <4>1. CASE dropped
        BY <1>7, <3>1, <4>1, Zenon DEF onCompletion
      <4>2. CASE ~dropped
        BY <1>7, <3>2, <4>2, Zenon DEF onCompletion
      <4>3. QED
        BY <4>1, <4>2, Zenon
  <2>3. QED
    BY <1>7, <2>2, Zenon DEF onCompletion
<1>8. ASSUME NEW c \in AnyCall, NEW s \in Seen, NEW g \in BOOLEAN, callbackReturns(c, s, g)
      PROVE  ManagerTypeOK'
  <2>1. s \in Outcome /\ call[c] \in CallRecord
    BY ManagerConstants, Zenon
  <2>2. Told(call[c].rpc, s, g) \in Tellable
    BY <2>1, ToldType, Zenon DEF CallRecord
  <2>3. call' \in [AnyCall -> CallRecord]
    BY <1>8, <2>1, <2>2, Zenon DEF callbackReturns, Over, CallRecord
  <2>4. mgrCrash' \in {"no", "null", "selfJoin"} /\ isolated' \subseteq Host
    BY <1>8, Zenon DEF callbackReturns, Release
  <2>5. QED
    BY <1>8, <2>3, <2>4, Zenon DEF callbackReturns
<1>9. ASSUME NEW k \in Task, taskBegins(k) PROVE ManagerTypeOK'
  BY <1>9 DEF taskBegins, At
<1>10. CASE cleanOfflineRpcClients \/ notifyRemoval \/ snapshot
  BY <1>10 DEF cleanOfflineRpcClients, notifyRemoval, snapshot, At, Task
<1>11. ASSUME NEW k \in Task, NEW c \in Slot(k), NEW h \in Host, taskCalls(k, c, h)
       PROVE  ManagerTypeOK'
  <2>1. c \in AnyCall /\ k \in Rpc
    BY TaskRpc, Zenon DEF Slot, AnyCall
  <2>2. CASE ref
    BY <1>11, <2>1, <2>2, InvokeType DEF taskCalls, At
  <2>3. CASE ~ref
    BY <1>11, <2>3, Zenon DEF taskCalls
  <2>4. QED
    BY <2>2, <2>3, Zenon
<1>12. ASSUME NEW k \in Task, taskEnds(k) PROVE ManagerTypeOK'
  BY <1>12, Zenon DEF taskEnds, At, Release
<1>13. ASSUME NEW hosts \in SUBSET Host, routeChanges(hosts) PROVE ManagerTypeOK'
  BY <1>13, Zenon DEF routeChanges
<1>14. ASSUME NEW h \in Host, isolateEndpoint(h) PROVE ManagerTypeOK'
  BY <1>14, Zenon DEF isolateEndpoint
<1>15. QED
  BY <1>1, <1>2, <1>3, <1>4, <1>5, <1>6, <1>7, <1>8, <1>9, <1>10, <1>11, <1>12, <1>13, <1>14, Zenon
     DEF ManagerNext, CompletionStep, TaskStep

(* CallbackContract of one call. *)
Contract(c) ==
  /\ call[c].pc = "over" /\ call[c].told = NoError
       => call[c].outcome = "OK" \/ call[c].rpc \in {"pollCommand", "forwardMessageToDeadLetterQueue"}
  /\ call[c].pc = "leaked" \/ (call[c].pc = "over" /\ call[c].told = NoCallback)
       => \/ ~ref \/ call[c].garbled
          \/ call[c].rpc = "heartbeat" /\ call[c].outcome \notin DOMAIN Argued

(* The contract is the contract of every call. *)
LEMMA ContractAll == CallbackContract <=> \A c \in AnyCall : Contract(c)
  BY Zenon DEF CallbackContract, Contract

(* The part of the invariant that is not about types. *)
Rest == Stages /\ DroppedIdle /\ CrashOnlyIfBusy

(* A call that begins, ends or fails does so while the client holds the    *)
(* manager, or holds nothing itself.                                       *)
LEMMA RestOfCall ==
  ASSUME ManagerTypeOK, Rest, UNCHANGED <<mgrState, clientVars, stop, poolOpen, mgrCrash>>,
         mgrState # "CREATED",
         ~ref /\ ~busyAtReset => Holders' \subseteq Holders
  PROVE  Rest'
  BY Zenon DEF Rest, Stages, DroppedIdle, CrashOnlyIfBusy, clientVars

(* Steps of the client and of shutdown() keep it. *)
LEMMA RestClientStep ==
  ASSUME ManagerTypeOK, Rest, mgrCrash = "no",
         \/ mgrStart \/ clientStops \/ resetManager \/ shutdownStep
         \/ \E hosts \in SUBSET Host : routeChanges(hosts)
         \/ \E h \in Host : isolateEndpoint(h)
  PROVE  Rest'
<1> USE DEF Rest, Stages, DroppedIdle, CrashOnlyIfBusy, ManagerTypeOK, clientVars
<1>1. CASE mgrStart
  BY <1>1, Zenon DEF mgrStart
<1>2. CASE clientStops
  BY <1>2, Zenon DEF clientStops, Holders
<1>3. CASE resetManager
  <2>1. CASE Holders = {}
    <3>1. Holders' = {} /\ mgrState' = "STOPPING" /\ ~ref' /\ ~active'
      BY <1>3, <2>1, Zenon DEF resetManager, Holders
    <3>2. UNCHANGED <<mgrCrash, poolOpen, call>> /\ ~active /\ ref
      BY <1>3, Zenon DEF resetManager
    <3>3. QED
      BY <3>1, <3>2, Zenon
  <2>2. CASE Holders # {}
    <3>1. busyAtReset' /\ ~ref' /\ UNCHANGED <<mgrState, active, stop, poolOpen, call, mgrCrash>>
      BY <1>3, <2>2, Zenon DEF resetManager
    <3>2. ~active /\ ref
      BY <1>3, Zenon DEF resetManager
    <3>3. QED
      BY <3>1, <3>2, Zenon
  <2>3. QED
    BY <2>1, <2>2, Zenon
<1>4. CASE poolStops
  <2>1. \A c \in AnyCall : call'[c].pc # "running" \/ call'[c] = call[c]
    BY <1>4, Zenon DEF poolStops, CallRecord
  <2>2. Holders' \subseteq Holders
    BY <1>4, <2>1, Zenon DEF poolStops, Holders
  <2>3. QED
    BY <1>4, <2>2, Zenon DEF poolStops
<1>5. CASE poolJoined \/ clientsCleared \/ queueDrained
  BY <1>5 DEF poolJoined, clientsCleared, queueDrained, Holders
<1>6. ASSUME NEW hosts \in SUBSET Host, routeChanges(hosts) PROVE Rest'
  BY <1>6, Zenon DEF routeChanges, Holders
<1>7. ASSUME NEW h \in Host, isolateEndpoint(h) PROVE Rest'
  BY <1>7, Zenon DEF isolateEndpoint, Holders
<1>8. QED
  BY <1>1, <1>2, <1>3, <1>4, <1>5, <1>6, <1>7, Zenon DEF shutdownStep

(* A thread that drops a reference crashes only if the client has dropped  *)
(* its own while the thread was at work.                                   *)
LEMMA RestOfRelease ==
  ASSUME Rest, NEW x \in Holders, Release(x),
         UNCHANGED <<mgrState, ref, active, busyAtReset, stop, poolOpen>>,
         mgrState # "CREATED", Holders' \subseteq Holders
  PROVE  Rest'
  BY Zenon DEF Release, Rest, Stages, DroppedIdle, CrashOnlyIfBusy

(* A task that runs holds the manager. *)
LEMMA TaskHolds ==
  ASSUME Rest, NEW k \in Task, task[k].pc # "idle"
  PROVE  k \in Holders /\ mgrState # "CREATED"
  BY Zenon DEF Rest, Stages, Holders

(* Steps of the health check up to its calls keep it. *)
LEMMA RestHealthCheck ==
  ASSUME ManagerTypeOK, Rest, cleanOfflineRpcClients \/ notifyRemoval \/ snapshot
  PROVE  Rest'
<1>1. "healthCheck" \in Task /\ task["healthCheck"].pc # "idle"
  BY Zenon DEF cleanOfflineRpcClients, notifyRemoval, snapshot, Task
<1>2. \A k \in Task : k # "healthCheck" => task'[k] = task[k]
  BY Zenon DEF cleanOfflineRpcClients, notifyRemoval, snapshot, At, ManagerTypeOK
<1>3. UNCHANGED call
  BY Zenon DEF cleanOfflineRpcClients, notifyRemoval, snapshot
<1>4. Holders' \subseteq Holders
  BY <1>1, <1>2, <1>3, TaskHolds, Zenon DEF Holders
<1>5. UNCHANGED <<mgrState, ref, active, busyAtReset, stop, poolOpen, mgrCrash>>
  BY Zenon DEF cleanOfflineRpcClients, notifyRemoval, snapshot, clientVars
<1>6. mgrState # "CREATED"
  BY <1>1, TaskHolds, Zenon
<1>7. QED
  BY <1>4, <1>5, <1>6, Zenon DEF Rest, Stages, DroppedIdle, CrashOnlyIfBusy

(* Steps of the periodic tasks keep it.  A task that crashes holds the     *)
(* manager, so the client's reference was dropped while it was at work.    *)
LEMMA RestTaskStep ==
  ASSUME ManagerTypeOK, Rest, mgrCrash = "no", NEW k \in Task, taskBegins(k) \/ TaskStep(k)
  PROVE  Rest'
<1>1. CASE taskBegins(k)
  <2>1. mgrState = "STARTED" /\ ~(~ref /\ ~busyAtReset)
    BY <1>1, Zenon DEF taskBegins, Rest, DroppedIdle
  <2>2. QED
    BY <1>1, <2>1, RestOfCall, Zenon DEF taskBegins
<1>2. ASSUME NEW c \in Slot(k), NEW h \in Host, taskCalls(k, c, h) PROVE Rest'
  <2>1. k \in Holders /\ mgrState # "CREATED"
    BY <1>2, TaskHolds, Zenon DEF taskCalls
  <2>2. CASE ref
    BY <1>2, <2>1, <2>2, RestOfCall, Zenon DEF taskCalls
  <2>3. CASE ~ref
    <3>1. busyAtReset /\ UNCHANGED <<mgrState, ref, active, busyAtReset, stop, poolOpen>>
      BY <1>2, <2>1, <2>3, Zenon DEF taskCalls, clientVars, Rest, DroppedIdle
    <3>2. QED
      BY <2>1, <3>1, Zenon DEF Rest, Stages, DroppedIdle, CrashOnlyIfBusy
  <2>4. QED
    BY <2>2, <2>3, Zenon
<1>3. CASE taskEnds(k)
  <2>1. k \in Holders /\ mgrState # "CREATED"
    BY <1>3, TaskHolds, Zenon DEF taskEnds
  <2>2. \A x \in Task : task'[x] = task[x] \/ task'[x].pc = "idle"
    BY <1>3, Zenon DEF taskEnds, At, ManagerTypeOK
  <2>3. Holders' \subseteq Holders
    BY <1>3, <2>2, Zenon DEF taskEnds, Holders
  <2>4. QED
    BY <1>3, <2>1, <2>3, RestOfRelease, Zenon DEF taskEnds, clientVars
<1>4. QED
  BY <1>1, <1>2, <1>3, RestHealthCheck, Zenon DEF TaskStep

(* Steps of the calls keep it. *)
LEMMA RestCallStep ==
  ASSUME ManagerTypeOK, Rest, mgrCrash = "no",
         \/ \E c \in Call, rpc \in Kind, h \in Host : applicationCalls(c, rpc, h)
         \/ \E c \in AnyCall : pollCompletionQueue(c) \/ CompletionStep(c)
  PROVE  Rest'
<1>1. ASSUME NEW c \in Call, NEW rpc \in Kind, NEW h \in Host, applicationCalls(c, rpc, h)
      PROVE  Rest'
  BY <1>1, RestOfCall, Zenon DEF applicationCalls, clientVars
<1>2. ASSUME NEW c \in AnyCall, call[c].pc # "free" PROVE mgrState # "CREATED"
  BY <1>2, Zenon DEF Rest, Stages
<1>3. ASSUME NEW c \in AnyCall, pollCompletionQueue(c) PROVE Rest'
  <2>1. \A x \in AnyCall : call'[x].pc # "running" \/ call'[x] = call[x]
    BY <1>3 DEF pollCompletionQueue, ManagerTypeOK, CallRecord
  <2>2. Holders' \subseteq Holders
    BY <1>3, <2>1, Zenon DEF pollCompletionQueue, Holders
  <2>3. mgrState # "CREATED"
    BY <1>2, <1>3, Zenon DEF pollCompletionQueue
  <2>4. QED
    BY <1>3, <2>2, <2>3, RestOfCall, Zenon DEF pollCompletionQueue
<1>4. ASSUME NEW c \in AnyCall, onCompletion(c) PROVE Rest'
  <2>1. mgrState # "CREATED"
    BY <1>2, <1>4, Zenon DEF onCompletion
  <2>2. ASSUME ~ref, ~busyAtReset PROVE Holders' \subseteq Holders
    <3>1. mgrState # "STARTED"
      BY <2>2, Zenon DEF Rest, DroppedIdle
    <3>2. \A x \in AnyCall : \/ call'[x] = call[x] \/ call'[x].pc # "running"
                            \/ call'[x].rpc # "send"
      BY <1>4, <3>1 DEF onCompletion, ManagerTypeOK, CallRecord
    <3>3. QED
      BY <1>4, <3>2, Zenon DEF onCompletion, Holders
  <2>3. QED
    BY <1>4, <2>1, <2>2, RestOfCall, Zenon DEF onCompletion
<1>5. ASSUME NEW c \in AnyCall, NEW s \in Seen, NEW g \in BOOLEAN, callbackReturns(c, s, g)
      PROVE  Rest'
  <2>1. \A x \in AnyCall : call'[x] = call[x] \/ call'[x].pc # "running"
    BY <1>5 DEF callbackReturns, Over, ManagerTypeOK, CallRecord
  <2>2. Holders' \subseteq Holders /\ mgrState # "CREATED"
    BY <1>2, <1>5, <2>1, Zenon DEF callbackReturns, Holders
  <2>3. CASE call[c].rpc = "send"
    <3>1. c \in Holders
      BY <1>5, <2>3, Zenon DEF callbackReturns, Holders
    <3>2. QED
      BY <1>5, <2>2, <2>3, <3>1, RestOfRelease, Zenon DEF callbackReturns
  <2>4. CASE call[c].rpc # "send"
    BY <1>5, <2>2, <2>4, Zenon DEF callbackReturns, Rest, Stages, DroppedIdle, CrashOnlyIfBusy
  <2>5. QED
    BY <2>3, <2>4, Zenon
<1>6. QED
  BY <1>1, <1>3, <1>4, <1>5, Zenon DEF CompletionStep

(* A step that leaves a call alone leaves its contract alone: a reference  *)
(* that was dropped is not taken again.                                    *)
LEMMA ContractKept ==
  ASSUME NEW c \in AnyCall, Contract(c), call'[c] = call[c], ref' => ref
  PROVE  Contract(c)'
  BY Zenon DEF Contract

(* Every step keeps the contract of every call. *)
LEMMA ContractStep ==
  ASSUME ManagerTypeOK, Rest, CallbackContract, [ManagerNext]_mgrVars, NEW x \in AnyCall
  PROVE  Contract(x)'
<1>1. Contract(x) /\ call[x] \in CallRecord
  BY ContractAll, Zenon DEF ManagerTypeOK
<1>2. CASE UNCHANGED <<call, ref>>
  BY <1>1, <1>2, ContractKept, Zenon
<1>3. CASE resetManager
  BY <1>1, <1>3, ContractKept, Zenon DEF resetManager
<1>4. CASE poolStops
  <2>1. ~ref /\ ~ref'
    BY <1>4, Zenon DEF poolStops, clientVars, Rest, Stages
  <2>2. call'[x] = call[x] \/ call'[x].pc = "leaked"
    BY <1>1, <1>4, Zenon DEF poolStops, CallRecord
  <2>3. CASE call'[x] = call[x]
    BY <1>1, <2>1, <2>3, ContractKept, Zenon
  <2>4. CASE call'[x].pc = "leaked"
    BY <2>1, <2>4, Zenon DEF Contract
  <2>5. QED
    BY <2>2, <2>3, <2>4, Zenon
<1>5. ASSUME NEW c \in AnyCall, NEW r \in Rpc, NEW h \in Host, Invoke(c, r, h), UNCHANGED ref
      PROVE  Contract(x)'
  <2>1. call'[c].pc = "sent" /\ (x # c => call'[x] = call[x])
    BY <1>5, InvokeType, Zenon
  <2>2. CASE x = c
    BY <2>1, <2>2, Zenon DEF Contract
  <2>3. CASE x # c
    BY <1>1, <1>5, <2>1, <2>3, ContractKept, Zenon
  <2>4. QED
    BY <2>2, <2>3, Zenon
<1>6. ASSUME NEW c \in AnyCall, pollCompletionQueue(c) PROVE Contract(x)'
  <2>1. UNCHANGED ref /\ (x # c => call'[x] = call[x])
    BY <1>6, Zenon DEF pollCompletionQueue, clientVars, ManagerTypeOK
  <2>2. CASE x # c
    BY <1>1, <2>1, <2>2, ContractKept, Zenon
  <2>3. CASE x = c
    <3>1. poolOpen \/ ~ref
      BY <1>6, Zenon DEF pollCompletionQueue, Rest, Stages
    <3>2. call'[x].pc = "queued" \/ (call'[x].pc = "leaked" /\ ~ref)
      BY <1>1, <1>6, <2>3, <3>1, Zenon DEF pollCompletionQueue, ManagerTypeOK, CallRecord
    <3>3. QED
      BY <2>1, <3>2, Zenon DEF Contract
  <2>4. QED
    BY <2>2, <2>3, Zenon
<1>7. ASSUME NEW c \in AnyCall, onCompletion(c) PROVE Contract(x)'
  <2>1. UNCHANGED ref /\ (x # c => call'[x] = call[x])
    BY <1>7, Zenon DEF onCompletion, clientVars, ManagerTypeOK
  <2>2. CASE x # c
    BY <1>1, <2>1, <2>2, ContractKept, Zenon
  <2>3. CASE x = c
    <3> DEFINE dropped == call[c].rpc = "send" /\ (~Alive \/ mgrState # "STARTED")
    <3>1. CASE dropped
      <4>1. ~ref
        BY <1>7, <3>1, Zenon DEF onCompletion, Alive, Rest, Stages, ManagerTypeOK
      <4>2. call'[x].pc = "over" /\ call'[x].told = NoCallback
        BY <1>1, <1>7, <2>3, <3>1 DEF onCompletion, ManagerTypeOK, CallRecord
      <4>3. QED
        BY <2>1, <4>1, <4>2, Codes, Zenon DEF Contract
    <3>2. CASE ~dropped
      <4>1. call'[x].pc = "running"
        BY <1>1, <1>7, <2>3, <3>2 DEF onCompletion, ManagerTypeOK, CallRecord
      <4>2. QED
        BY <4>1, Zenon DEF Contract
    <3>3. QED
      BY <3>1, <3>2, Zenon
  <2>4. QED
    BY <2>2, <2>3, Zenon
<1>8. ASSUME NEW c \in AnyCall, NEW s \in Seen, NEW g \in BOOLEAN, callbackReturns(c, s, g)
      PROVE  Contract(x)'
  <2>1. UNCHANGED ref /\ (x # c => call'[x] = call[x])
    BY <1>8, Zenon DEF callbackReturns, Over, ManagerTypeOK
  <2>2. CASE x # c
    BY <1>1, <2>1, <2>2, ContractKept, Zenon
  <2>3. CASE x = c
    <3>1. /\ call'[x].pc = "over" /\ call'[x].outcome = s /\ call'[x].rpc = call[x].rpc
          /\ call'[x].told = Told(call[x].rpc, s, g) /\ call'[x].garbled = g
      BY <1>1, <1>8, <2>3, Zenon DEF callbackReturns, Over, ManagerTypeOK, CallRecord
    <3>2. call[x].rpc \in Rpc /\ s \in Outcome
      BY <1>1, ManagerConstants, Zenon DEF CallRecord
    <3>3. CASE g
      BY <3>1, <3>3, Codes, Zenon DEF Contract, Told
    <3>4. CASE ~g
      <4>1. call'[x].told = ErrorOf[call[x].rpc][s]
        BY <3>1, <3>4, Zenon DEF Told
      <4>2. QED
        BY <3>1, <3>2, <4>1, ErrorHonest DEF Contract
    <3>5. QED
      BY <3>3, <3>4, Zenon
  <2>4. QED
    BY <2>2, <2>3, Zenon
<1>9. ASSUME NEW c \in Call, NEW rpc \in Kind, NEW h \in Host, applicationCalls(c, rpc, h)
      PROVE  Contract(x)'
  <2>1. c \in AnyCall /\ rpc \in Rpc
    BY ManagerConstants, Zenon DEF AnyCall
  <2>2. QED
    BY <1>5, <1>9, <2>1, Zenon DEF applicationCalls, clientVars
<1>10. ASSUME NEW k \in Task, NEW c \in Slot(k), NEW h \in Host, taskCalls(k, c, h)
       PROVE  Contract(x)'
  <2>1. c \in AnyCall /\ k \in Rpc
    BY TaskRpc, Zenon DEF Slot, AnyCall
  <2>2. CASE ref
    BY <1>5, <1>10, <2>1, <2>2, Zenon DEF taskCalls, clientVars
  <2>3. CASE ~ref
    BY <1>2, <1>10, <2>3, Zenon DEF taskCalls, clientVars
  <2>4. QED
    BY <2>2, <2>3, Zenon
<1>11. ASSUME NEW k \in Task, taskBegins(k) \/ TaskStep(k) PROVE Contract(x)'
  <2>1. CASE taskBegins(k) \/ taskEnds(k)
    BY <1>2, <2>1, Zenon DEF taskBegins, taskEnds, clientVars
  <2>2. CASE cleanOfflineRpcClients \/ notifyRemoval \/ snapshot
    BY <1>2, <2>2, Zenon DEF cleanOfflineRpcClients, notifyRemoval, snapshot, clientVars
  <2>3. QED
    BY <1>10, <1>11, <2>1, <2>2, Zenon DEF TaskStep
<1>12. CASE UNCHANGED mgrVars
  BY <1>2, <1>12, Zenon DEF mgrVars, clientVars
<1>13. CASE mgrStart \/ clientStops \/ poolJoined \/ clientsCleared \/ queueDrained
  BY <1>2, <1>13, Zenon DEF mgrStart, clientStops, poolJoined, clientsCleared, queueDrained, clientVars
<1>14. ASSUME NEW hosts \in SUBSET Host, routeChanges(hosts) PROVE Contract(x)'
  BY <1>2, <1>14, Zenon DEF routeChanges
<1>15. ASSUME NEW h \in Host, isolateEndpoint(h) PROVE Contract(x)'
  BY <1>2, <1>15, Zenon DEF isolateEndpoint
<1>16. ASSUME NEW c \in AnyCall, CompletionStep(c) PROVE Contract(x)'
  BY <1>7, <1>8, <1>16, Zenon DEF CompletionStep
<1>17. QED
  BY <1>3, <1>4, <1>6, <1>9, <1>11, <1>12, <1>13, <1>14, <1>15, <1>16, Zenon
     DEF ManagerNext, shutdownStep

(* For any hosts, calls and outcomes: an RPC reports success only if the   *)
(* server answered OK and is silent only in the cases CallbackContract     *)
(* names, and the manager crashes only if the client dropped it while a    *)
(* task or the completion of a send was under way.                         *)
THEOREM ManagerCorrect == ManagerSpec => []ManagerInv
<1>1. ManagerInit => OwnerInv
  <2> HAVE ManagerInit
  <2>1. FreeCall \in CallRecord /\ FreeCall.pc = "free"
    <3>1. "send" \in Rpc /\ \E h \in Host : TRUE
      BY ManagerConstants, Zenon DEF Rpc, ErrorOf
    <3>2. QED
      BY <3>1, FreshCall, Zenon
  <2>2. (\A c \in AnyCall : call[c] = FreeCall) /\ \A k \in Task : task[k].pc = "idle"
    BY Zenon DEF ManagerInit, IdleTask
  <2>3. ref /\ active /\ ~poolOpen /\ ~busyAtReset
    BY Zenon DEF ManagerInit
  <2>4. ref \in BOOLEAN /\ active \in BOOLEAN /\ poolOpen \in BOOLEAN /\ busyAtReset \in BOOLEAN
    BY Zenon DEF ManagerInit
  <2>5. ManagerTypeOK
    BY <2>1, <2>4, Zenon DEF ManagerInit, ManagerTypeOK, IdleTask
  <2>6. Stages /\ DroppedIdle /\ CrashOnlyIfBusy
    BY <2>1, <2>2, <2>3, Zenon DEF ManagerInit, Stages, DroppedIdle, CrashOnlyIfBusy
  <2>7. CallbackContract
    BY <2>1, <2>2, Zenon DEF CallbackContract
  <2>8. QED
    BY <2>5, <2>6, <2>7, Zenon DEF OwnerInv
<1>2. OwnerInv /\ [ManagerNext]_mgrVars => OwnerInv'
  <2> SUFFICES ASSUME OwnerInv, [ManagerNext]_mgrVars PROVE OwnerInv'
    BY Zenon
  <2>1. ManagerTypeOK /\ Rest /\ CallbackContract
    BY Zenon DEF OwnerInv, Rest
  <2>2. ManagerTypeOK'
    BY <2>1, ManagerTypeStep, Zenon
  <2>3. Rest'
    <3>1. CASE UNCHANGED mgrVars
      BY <2>1, <3>1, Zenon DEF mgrVars, clientVars, Rest, Stages, DroppedIdle, CrashOnlyIfBusy, Holders
    <3>2. CASE ManagerNext
      BY <2>1, <3>2, RestClientStep, RestCallStep, RestTaskStep, Zenon DEF ManagerNext
    <3>3. QED
      BY <3>1, <3>2, Zenon
  <2>4. CallbackContract'
    <3>1. \A x \in AnyCall : Contract(x)'
      BY <2>1, ContractStep, Zenon
    <3>2. QED
      BY <3>1, Zenon DEF CallbackContract, Contract
  <2>5. QED
    BY <2>2, <2>3, <2>4, Zenon DEF OwnerInv, Rest
<1>3. OwnerInv => ManagerInv
  BY Zenon DEF OwnerInv, ManagerInv
<1>4. QED
  BY <1>1, <1>2, <1>3, PTL DEF ManagerSpec

-----------------------------------------------------------------------------
(* The clients a factory makes. *)

FacadeSpec == FacadeInit /\ [][FacadeNext]_facadeVars

SecretKeys == {"AccessKey", "SecretKey"}

(* The keys of the INNER channel among the properties come from a client   *)
(* of that channel.                                                        *)
KeysInv ==
  /\ FacadeInv
  /\ \A k \in SecretKeys : property_map[k] = "DefaultKey" => inner

(* What FacadeInv says of a client. *)
ClientRight ==
  /\ getOnsChannel(property_map) = "ALIYUN" => made.keys[1] # "" /\ made.keys[2] # ""
  /\ "DefaultKey" \in {made.keys[1], made.keys[2]} => inner
  /\ made.resolver = "none" => property_map["NAMESRV_ADDR"] = "" /\ property_map["ONSAddr"] = ""
  /\ made.namespace # "" <=> made.resolver = "instance"
  /\ property_map["GroupId"] # "" => made.group = property_map["GroupId"]
  /\ made.kind \in {"OrderProducer", "TransactionProducer"} => made.group = property_map["GroupId"]

KeysFound == \A k \in SecretKeys : ~Empty(env, k) /\ Usable => property_map[k] # ""

KeysOwn == \A k \in SecretKeys : property_map[k] = "DefaultKey" => inner

LEMMA FacadeParts ==
  /\ KeysInv <=> FacadeInv /\ KeysOwn
  /\ FacadeInv <=> /\ DOMAIN property_map = Key /\ KeysFound
                   /\ IsClient => ClientRight
                   /\ made.kind = "consumed" /\ made.answer # "other" =>
                        (made.result = "SUCCESS" <=> made.answer = "good")
  BY Zenon DEF KeysInv, KeysOwn, SecretKeys, FacadeInv, KeysFound, ClientRight

(* Whatever is not a client and not an answer needs nothing. *)
LEMMA NoClientRight ==
  ASSUME NEW why, why \notin Kinds \cup {"consumed"}, made' = NoClient(why),
         (DOMAIN property_map = Key /\ KeysFound)', KeysOwn'
  PROVE  KeysInv'
<1>1. made'.kind = why
  BY Zenon DEF NoClient
<1> QED BY <1>1, FacadeParts, Zenon
          DEF KeysInv, KeysOwn, SecretKeys, FacadeInv, KeysFound, ClientRight, IsClient

(* The properties of a new factory. *)
LEMMA Constructed ==
  ASSUME NEW f \in Found, NEW e \in Found \cup {[k \in {} |-> ""]}, NEW k \in SecretKeys
  PROVE  LET p == parseEnvironmentVariables(loadConfigFile(Defaults, f), e)
         IN  p[k] # "DefaultKey" /\ (~Empty(e, k) => p[k] # "") /\ DOMAIN p = Key
<1> DEFINE l == loadConfigFile(Defaults, f)
<1>1. k \in Key /\ k \in Credential
  BY Zenon DEF SecretKeys, Key, Credential
<1>2. Defaults[k] = ""
  BY <1>1 DEF Defaults, SecretKeys
<1>3. l[k] # "DefaultKey"
  BY <1>1, <1>2, FacadeConstants, Zenon DEF loadConfigFile
<1>4. ~Empty(e, k) => e[k] # "DefaultKey" /\ e[k] # ""
  BY FacadeConstants, Zenon DEF Empty
<1> HIDE DEF l
<1>5. parseEnvironmentVariables(l, e)[k] = IF ~Empty(e, k) THEN e[k] ELSE l[k]
  BY <1>1, Zenon DEF parseEnvironmentVariables
<1>6. DOMAIN parseEnvironmentVariables(l, e) = Key
  BY Zenon DEF parseEnvironmentVariables
<1> QED BY <1>3, <1>4, <1>5, <1>6, Zenon DEF l

LEMMA FacadeStarts == FacadeInit => KeysInv
<1> SUFFICES ASSUME FacadeInit PROVE KeysInv
  OBVIOUS
<1> DEFINE fine == \A k \in {"AccessKey", "SecretKey"} \cap DOMAIN file : Valid(k, file[k])
<1>1. CASE fine
  <2>1. made = NoClient("none")
          /\ property_map = parseEnvironmentVariables(loadConfigFile(Defaults, file), env)
    BY <1>1, Zenon DEF FacadeInit
  <2>2. KeysOwn /\ KeysFound /\ DOMAIN property_map = Key
    <3>1. \A k \in SecretKeys : property_map[k] # "DefaultKey" /\ (~Empty(env, k) => property_map[k] # "")
                                /\ DOMAIN property_map = Key
      BY <2>1, Constructed, Zenon DEF FacadeInit
    <3>2. "AccessKey" \in SecretKeys
      BY Zenon DEF SecretKeys
    <3> QED BY <3>1, <3>2, Zenon DEF KeysOwn, KeysFound
  <2>3. made.kind = "none"
    BY <2>1, Zenon DEF NoClient
  <2> QED BY <2>2, <2>3, FacadeParts, Zenon DEF IsClient, Kinds
<1>2. CASE ~fine
  <2>1. made = NoClient("not constructed") /\ property_map = Defaults
    BY <1>2, Zenon DEF FacadeInit
  <2>2. made.kind = "not constructed"
    BY <2>1, Zenon DEF NoClient
  <2>3. DOMAIN property_map = Key /\ \A k \in SecretKeys : property_map[k] = ""
    BY <2>1 DEF Defaults, SecretKeys, Key
  <2> QED BY <2>2, <2>3, FacadeParts, Zenon DEF IsClient, Kinds, KeysOwn, KeysFound, Usable
<1> QED BY <1>1, <1>2, Zenon

LEMMA SettingStep ==
  ASSUME KeysInv, NEW s \in Setting, setFactoryProperty(s[1], s[2])
  PROVE  KeysInv'
<1> DEFINE key == s[1]
           value == s[2]
<1>1. setFactoryProperty(key, value) /\ key \in Key /\ value # "DefaultKey"
  BY FacadeConstants, Zenon
<1> HIDE DEF key, value
<1> DEFINE why == IF Valid(key, value) THEN "none" ELSE "invalid"
<1>2. why \notin Kinds \cup {"consumed"} /\ made' = NoClient(why)
  BY <1>1, Zenon DEF setFactoryProperty, Kinds
<1>3. DOMAIN property_map = Key /\ KeysFound /\ KeysOwn /\ Usable
  BY <1>1, FacadeParts, Zenon DEF setFactoryProperty
<1>4. DOMAIN property_map' = Key
  BY <1>1, <1>3 DEF setFactoryProperty
<1>5. \A k \in SecretKeys : property_map'[k] = property_map[k]
                             \/ (property_map'[k] = value /\ value # "")
  <2> SUFFICES ASSUME NEW k \in SecretKeys, Valid(key, value)
               PROVE  property_map'[k] = property_map[k] \/ (property_map'[k] = value /\ value # "")
    BY <1>1, Zenon DEF setFactoryProperty
  <2>1. property_map' = [property_map EXCEPT ![key] = value]
    BY <1>1, Zenon DEF setFactoryProperty
  <2>2. k \in Key
    BY Zenon DEF SecretKeys, Key
  <2>3. CASE k = key
    <3>1. value # ""
      BY <2>3, Zenon DEF Valid, SecretKeys
    <3> QED BY <1>3, <2>1, <2>2, <2>3, <3>1, Zenon
  <2>4. CASE k # key
    BY <1>3, <2>1, <2>2, <2>4, Zenon
  <2> QED BY <2>3, <2>4, Zenon
<1>6. KeysFound' /\ KeysOwn'
  <2>1. UNCHANGED <<env, inner>>
    BY <1>1, Zenon DEF setFactoryProperty
  <2>2. KeysFound'
    BY <1>3, <1>5, <2>1, Zenon DEF KeysFound, Empty
  <2>3. KeysOwn'
    BY <1>1, <1>3, <1>5, <2>1, Zenon DEF KeysOwn
  <2> QED BY <2>2, <2>3, Zenon
<1> QED BY <1>2, <1>4, <1>6, NoClientRight, Zenon

(* What a client is made of. *)
LEMMA ResolverNamed ==
  ASSUME NEW kind \in Kinds, NEW p
  PROVE  /\ resolverOf(kind, p) = "none" => p["NAMESRV_ADDR"] = "" /\ p["ONSAddr"] = ""
         /\ resolverOf(kind, p) = "instance" <=> isAccessPoint(p)
  BY DEF resolverOf, isAccessPoint

LEMMA GroupTaken ==
  ASSUME NEW kind \in Kinds, NEW p
  PROVE  /\ p["GroupId"] # "" => groupOf(kind, p) = p["GroupId"]
         /\ kind \in {"OrderProducer", "TransactionProducer"} => groupOf(kind, p) = p["GroupId"]
  BY DEF groupOf, Consumers

LEMMA CreateStep ==
  ASSUME KeysInv, NEW kind \in Kinds, NEW checker \in BOOLEAN, create(kind, checker)
  PROVE  KeysInv'
<1> DEFINE p == withInnerDefaults(property_map)
<1>1. DOMAIN property_map = Key /\ KeysFound /\ KeysOwn /\ Usable
  BY FacadeParts, Zenon DEF create
<1>2. property_map' = p /\ inner' = (inner \/ getOnsChannel(property_map) = "INNER") /\ UNCHANGED env
  BY Zenon DEF create
<1>3. DOMAIN p = Key
  BY <1>1 DEF withInnerDefaults
<1>4. KeysFound' /\ KeysOwn'
  <2>1. CASE getOnsChannel(property_map) = "INNER"
    <3>1. inner'
      BY <1>2, <2>1, Zenon
    <3>2. \A k \in SecretKeys : p[k] = "DefaultKey"
      BY <1>1, <2>1 DEF withInnerDefaults, SecretKeys, Key
    <3> QED BY <1>2, <3>1, <3>2, Zenon DEF KeysFound, KeysOwn
  <2>2. CASE getOnsChannel(property_map) # "INNER"
    <3>1. property_map' = property_map
      BY <1>2, <2>2, Zenon DEF withInnerDefaults
    <3> QED BY <1>1, <1>2, <3>1, Zenon DEF KeysFound, KeysOwn, Empty
  <2> QED BY <2>1, <2>2, Zenon
<1> HIDE DEF p
<1>5. \/ \E why \in {"incomplete", "no checker", "not a number"} : made' = NoClient(why)
      \/ complete(p) /\ made' = ClientOf(kind, p)
  <2>1. made' = CASE ~complete(p) -> NoClient("incomplete")
                  [] complete(p) /\ kind = "TransactionProducer" /\ ~checker -> NoClient("no checker")
                  [] stoiThrows(kind, p) -> NoClient("not a number")
                  [] OTHER -> ClientOf(kind, p)
    BY Zenon DEF create, p
  <2> HIDE DEF p
  <2>2. \/ made' \in {NoClient("incomplete"), NoClient("no checker"), NoClient("not a number")}
        \/ complete(p) /\ made' = ClientOf(kind, p)
    BY <2>1, Zenon
  <2> QED BY <2>2, Zenon
<1>6. CASE \E why \in {"incomplete", "no checker", "not a number"} : made' = NoClient(why)
  <2>1. PICK why \in {"incomplete", "no checker", "not a number"} : made' = NoClient(why)
    BY <1>6
  <2>2. why \notin Kinds \cup {"consumed"}
    BY DEF Kinds
  <2> QED BY <1>2, <1>3, <1>4, <2>1, <2>2, NoClientRight, Zenon
<1>7. CASE complete(p) /\ made' = ClientOf(kind, p)
  <2>1. /\ made'.kind = kind /\ made'.group = groupOf(kind, p) /\ made'.resolver = resolverOf(kind, p)
        /\ made'.namespace = (IF isAccessPoint(p) THEN "instance" ELSE "")
        /\ made'.keys = <<p["AccessKey"], p["SecretKey"]>>
    BY <1>7, Zenon DEF ClientOf
  <2>2. made'.keys[1] = p["AccessKey"] /\ made'.keys[2] = p["SecretKey"]
    <3> DEFINE x == p["AccessKey"]
               y == p["SecretKey"]
    <3>1. made'.keys = <<x, y>>
      BY <2>1, Zenon
    <3> HIDE DEF x, y
    <3>2. made'.keys[1] = x /\ made'.keys[2] = y
      BY <3>1
    <3> QED BY <3>2, Zenon DEF x, y
  <2>3. getOnsChannel(p) = "ALIYUN" => made'.keys[1] # "" /\ made'.keys[2] # ""
    BY <1>7, <2>2, Zenon DEF complete
  <2>4. "DefaultKey" \in {made'.keys[1], made'.keys[2]} => inner'
    BY <1>2, <1>4, <2>2, Zenon DEF KeysOwn, SecretKeys
  <2>5. ClientRight'
    BY <1>2, <2>1, <2>3, <2>4, ResolverNamed, GroupTaken, Zenon DEF ClientRight, getOnsChannel
  <2>6. made'.kind # "consumed"
    BY <2>1, Zenon DEF Kinds
  <2> QED BY <1>2, <1>3, <1>4, <2>5, <2>6, FacadeParts, Zenon
            DEF KeysInv, KeysOwn, SecretKeys, FacadeInv, KeysFound, ClientRight
<1> QED BY <1>5, <1>6, <1>7, Zenon

LEMMA FacadeStep == KeysInv /\ [FacadeNext]_facadeVars => KeysInv'
<1> SUFFICES ASSUME KeysInv, [FacadeNext]_facadeVars PROVE KeysInv'
  OBVIOUS
<1> USE DEF KeysInv, FacadeInv, Usable, IsClient, Empty, getOnsChannel
<1>1. CASE UNCHANGED facadeVars
  BY <1>1, Zenon DEF facadeVars
<1>2. ASSUME NEW s \in Setting, setFactoryProperty(s[1], s[2]) PROVE KeysInv'
  BY <1>2, SettingStep, Zenon
<1>3. ASSUME NEW k \in Kinds, NEW checker \in BOOLEAN, create(k, checker) PROVE KeysInv'
  BY <1>3, CreateStep, Zenon
<1>4. ASSUME NEW c \in Callback, sendAsync(c) PROVE KeysInv'
  BY <1>4, Zenon DEF sendAsync
<1>5. ASSUME NEW k \in Consumers, NEW a \in {"good", "again", "other"}, consumeMessage(k, a)
      PROVE  KeysInv'
  <2>1. made'.kind = "consumed" /\ made'.answer = a
    BY <1>5, Zenon DEF consumeMessage
  <2>2. a = "good" => made'.result = "SUCCESS"
    BY <1>5 DEF consumeMessage
  <2>3. a = "again" => made'.result = "FAILURE"
    BY <1>5 DEF consumeMessage
  <2>4. made.kind # "not constructed"
    BY <1>5, Zenon DEF consumeMessage, Consumers
  <2> QED BY <1>5, <2>1, <2>2, <2>3, <2>4, Zenon DEF consumeMessage, Kinds
<1> QED BY <1>1, <1>2, <1>3, <1>4, <1>5, Zenon DEF FacadeNext

(* A client of Aliyun has keys, which come from the INNER channel only if  *)
(* a client of that channel was made of the same properties, a name server *)
(* if one is named and the group it was given; a listener's answer is      *)
(* taken for what it says.  This holds for whatever an application sets,   *)
(* in any order with the clients it makes.                                 *)
THEOREM FacadeCorrect == FacadeSpec => []FacadeInv
<1>1. KeysInv => FacadeInv
  BY Zenon DEF KeysInv
<1> QED BY <1>1, FacadeStarts, FacadeStep, PTL DEF FacadeSpec

-----------------------------------------------------------------------------
(* Name servers. *)

NameServerSpec == NameServerInit /\ [][NameServerNext]_nameServerVars

(* The inductive invariant: the list at hand is one of those taken over,   *)
(* and there is one as soon as any was.                                    *)
ListInv ==
  /\ NameServerInv
  /\ name_server_list = <<>> => accepted = {}
  /\ name_server_list # <<>> => name_server_list \in accepted
  /\ \A r \in Resolver : known[r] => accepted # {}

LEMMA FetchedStep ==
  ASSUME ListInv, NEW f \in Resolver \cup {Timer}, onNameServerListFetched(f)
  PROVE  ListInv'
<1>1. /\ answer[f] \in Body \cup {Failed} /\ UNCHANGED <<address, known>>
      /\ answer' = [answer EXCEPT ![f] = None]
      /\ resolving' = [r \in Resolver |-> IF r = f THEN "read" ELSE resolving[r]]
      /\ accepted' = accepted \cup ({answer[f]} \cap Body)
  BY Zenon DEF onNameServerListFetched, ListInv, NameServerInv, NameServerTypeOK
<1>2. \A b \in Body : b # <<>>
  BY NameServerConstants, Zenon
<1>3. CASE answer[f] = Failed
  <2>1. accepted' = accepted /\ UNCHANGED <<name_server_list, ip_domain_map>>
    BY <1>1, <1>2, <1>3, Zenon DEF onNameServerListFetched, Failed
  <2> QED BY <1>1, <2>1, Zenon DEF ListInv, NameServerInv, NameServerTypeOK
<1>4. CASE answer[f] = name_server_list /\ answer[f] # Failed
  <2>1. accepted' = accepted /\ UNCHANGED <<name_server_list, ip_domain_map>>
    BY <1>1, <1>4, Zenon DEF onNameServerListFetched, Failed, ListInv
  <2> QED BY <1>1, <2>1, Zenon DEF ListInv, NameServerInv, NameServerTypeOK
<1>5. CASE answer[f] \notin {Failed, name_server_list}
  <2>1. /\ answer[f] \in Body /\ answer[f] # <<>> /\ accepted' = accepted \cup {answer[f]}
        /\ name_server_list' = answer[f] /\ dnsResolve(answer[f])
    BY <1>1, <1>2, <1>5, Zenon DEF onNameServerListFetched
  <2>2. PICK found \in [Ipv4 -> Domains(answer[f]) \cup {None}] :
          ip_domain_map' = [i \in Ipv4 |-> IF ip_domain_map[i] # None THEN ip_domain_map[i]
                                           ELSE found[i]]
    BY <2>1, Zenon DEF dnsResolve
  <2>3. Domains(answer[f]) \subseteq Domain
    BY Zenon DEF Domains
  <2>4. NameServerTypeOK'
    BY <1>1, <2>1, <2>2, <2>3, Zenon DEF ListInv, NameServerInv, NameServerTypeOK
  <2>5. \A i \in Ipv4 : ip_domain_map'[i] # None
                          => \E b \in accepted' : ip_domain_map'[i] \in Domains(b)
    BY <2>1, <2>2, Zenon DEF ListInv, NameServerInv
  <2> QED BY <1>1, <2>1, <2>4, <2>5, Zenon DEF ListInv, NameServerInv, NameServerTypeOK
<1> QED BY <1>3, <1>4, <1>5, Zenon

LEMMA ListStep ==
  ASSUME ListInv, [NameServerNext]_nameServerVars
  PROVE  ListInv'
<1>1. CASE UNCHANGED nameServerVars
  BY <1>1, Zenon DEF nameServerVars, ListInv, NameServerInv, NameServerTypeOK
<1>2. ASSUME NEW f \in Resolver \cup {Timer}, NEW b \in Body \cup {Failed},
             fetchNameServerAddresses(f, b)
      PROVE  ListInv'
  BY <1>2, Zenon DEF fetchNameServerAddresses, ListInv, NameServerInv, NameServerTypeOK
<1>3. ASSUME NEW r \in Resolver, resolveBegins(r) PROVE ListInv'
  BY <1>3, Zenon DEF resolveBegins, ListInv, NameServerInv, NameServerTypeOK
<1>4. ASSUME NEW r \in Resolver, resolveReturns(r) PROVE ListInv'
  <2>1. NameServerTypeOK'
    BY <1>4, Zenon DEF resolveReturns, ListInv, NameServerInv, NameServerTypeOK
  <2> QED BY <1>4, <2>1, Zenon DEF resolveReturns, ListInv, NameServerInv, NameServerTypeOK
<1> QED BY <1>1, <1>2, <1>3, <1>4, FetchedStep, Zenon DEF NameServerNext

(* A list once known is not lost, for any lists, any number of resolvers   *)
(* and any outcome of their requests: resolve() returns an address, and    *)
(* the domains of addresses come from published lists.                     *)
THEOREM NameServerCorrect == NameServerSpec => []NameServerInv
<1>1. NameServerInit => ListInv
  BY Zenon DEF NameServerInit, ListInv, NameServerInv, NameServerTypeOK
<1>2. ListInv => NameServerInv
  BY Zenon DEF ListInv
<1> QED BY <1>1, <1>2, ListStep, PTL DEF NameServerSpec

-----------------------------------------------------------------------------
(* Session credentials. *)

CredentialsSpec == CredentialsInit /\ [][CredentialsNext]_credentialsVars

(* The inductive invariant: the stored expiration is what the real one     *)
(* parses to, and what a call is about to return is valid, looks valid, or *)
(* is what its failed refresh left.                                        *)
ServedInv ==
  /\ CredentialsInv
  /\ expiration = ParseTime(validUntil)
  /\ \A c \in Caller :
       /\ asked[c] <= now
       /\ calling[c] = "read" /\ outcome[c] # "failed"
            => validUntil > asked[c] \/ ParseTime(validUntil) > validUntil

LEMMA Dates ==
  /\ DayEnd \in Nat /\ DayEnd > 0 /\ ParseTime(0) = 0
  /\ \A i \in Time : Parses(i) => ParseTime(i) \in Time
<1>1. HoursPerDay \in Nat /\ MinutesPerHour \in Nat /\ HoursPerDay > 0 /\ MinutesPerHour > 0
  BY CredentialsConstants
<1>2. DayEnd \in Nat /\ DayEnd > 0
  BY <1>1 DEF DayEnd
<1>3. ParseTime(0) = 0
  <2>1. 0 % MinutesPerHour = 0
    BY <1>1
  <2> QED BY <1>1, <2>1 DEF ParseTime
<1>4. ASSUME NEW i \in Time, Parses(i) PROVE ParseTime(i) \in Time
  <2> DEFINE h == i % MinutesPerHour
  <2>1. h \in Nat /\ h < HoursPerDay
    BY <1>1, <1>2, <1>4 DEF Time, Parses
  <2> HIDE DEF h
  <2>2. h * MinutesPerHour \in Nat /\ h * MinutesPerHour <= HoursPerDay * MinutesPerHour
    BY <1>1, <2>1
  <2> QED BY <1>2, <2>2 DEF h, ParseTime, Time, DayEnd
<1> QED BY <1>2, <1>3, <1>4, Zenon

LEMMA ServedStep ==
  ASSUME ServedInv, [CredentialsNext]_credentialsVars
  PROVE  ServedInv'
<1>1. DayEnd \in Nat /\ DayEnd > 0 /\ Time \subseteq Nat
  BY Dates DEF Time
<1>2. /\ now \in Time /\ expiration \in Time /\ validUntil \in Time /\ now \in Nat
      /\ \A c \in Caller : asked[c] \in Nat /\ served[c] \in Nat /\ asked[c] \in Time
  BY <1>1, Zenon DEF ServedInv, CredentialsInv, CredentialsTypeOK
<1> USE DEF ServedInv, CredentialsInv, CredentialsTypeOK
<1>3. CASE UNCHANGED credentialsVars
  BY <1>3, Zenon DEF credentialsVars
<1>4. CASE clockTicks
  <2>1. now' \in Time /\ \A c \in Caller : asked[c] <= now'
    BY <1>1, <1>2, <1>4 DEF clockTicks, Time
  <2> QED BY <1>4, <2>1, Zenon DEF clockTicks
<1>5. ASSUME NEW c \in Caller, getCredentials(c) PROVE ServedInv'
  <2>1. now < expiration => now < ParseTime(validUntil)
    BY Zenon
  <2>2. \A p \in Nat : now < p => validUntil > now \/ p > validUntil
    BY <1>1, <1>2
  <2> QED BY <1>1, <1>2, <1>5, <2>1, <2>2 DEF getCredentials
<1>6. ASSUME NEW c \in Caller, getCredentialsReturns(c) PROVE ServedInv'
  BY <1>1, <1>2, <1>6 DEF getCredentialsReturns
<1>7. ASSUME NEW c \in Caller, NEW instant \in Time, NEW ok \in BOOLEAN,
             refreshAnswered(c, instant, ok)
      PROVE  ServedInv'
  <2>1. CASE ok /\ Parses(instant)
    BY <1>1, <1>2, <1>7, <2>1, Dates DEF refreshAnswered
  <2>2. CASE ~(ok /\ Parses(instant))
    BY <1>1, <1>2, <1>7, <2>2, Zenon DEF refreshAnswered
  <2> QED BY <2>1, <2>2, Zenon
<1> QED BY <1>3, <1>4, <1>5, <1>6, <1>7, Zenon DEF CredentialsNext

(* For any clock and any number of callers: getCredentials() returns       *)
(* credentials that had expired when it was called only if its own refresh *)
(* failed, or if their expiration was misread as a later one.              *)
THEOREM CredentialsCorrect == CredentialsSpec => []CredentialsInv
<1>1. CredentialsInit => ServedInv
  BY Dates, CredentialsConstants
     DEF CredentialsInit, ServedInv, CredentialsInv, CredentialsTypeOK, Time
<1>2. ServedInv => CredentialsInv
  BY Zenon DEF ServedInv
<1> QED BY <1>1, <1>2, ServedStep, PTL DEF CredentialsSpec

-----------------------------------------------------------------------------
(* The latency histogram. *)

HistogramSpec == HistogramInit /\ [][HistogramNext]_histogramVars

(* The inductive invariant: a bucket holds at least what was loaded from   *)
(* it and not yet subtracted.                                              *)
BucketsInv ==
  /\ data \in [labels_ -> Nat] /\ counted \in [labels_ -> Nat] /\ reported \in [labels_ -> Nat]
  /\ values \in Seq(Nat) /\ cleared \in 0 .. Capacity
  /\ Len(values) \in {cleared, cleared + 1} /\ Len(values) <= Capacity
  /\ Len(values) = cleared + 1 => values[cleared + 1] <= data[cleared + 1]
  /\ CountsKept

LEMMA BucketsStep ==
  ASSUME BucketsInv, [HistogramNext]_histogramVars
  PROVE  BucketsInv'
<1>1. /\ Capacity \in Nat /\ Capacity # 0 /\ cleared \in Nat /\ cleared <= Capacity /\ Len(values) \in Nat
      /\ \A i \in labels_ : data[i] \in Nat /\ counted[i] \in Nat /\ reported[i] \in Nat
      /\ \A i \in 1 .. Len(values) : values[i] \in Nat
  BY HistogramConstants DEF BucketsInv
<1>2. CASE UNCHANGED histogramVars
  BY <1>2, Zenon DEF histogramVars, BucketsInv, CountsKept
<1>3. ASSUME NEW grade \in Grade, countIn(grade) PROVE BucketsInv'
  <2>1. CASE grade = Negative
    BY <1>3, <2>1, Zenon DEF countIn, BucketsInv, CountsKept
  <2>2. CASE grade # Negative
    <3> DEFINE b == Bucket(grade)
    <3>1. b \in labels_
      BY <1>1, <2>2 DEF Bucket, Grade, Negative, labels_
    <3>2. /\ data' = [data EXCEPT ![b] = @ + 1] /\ counted' = [counted EXCEPT ![b] = @ + 1]
          /\ UNCHANGED <<values, cleared, reported>>
      BY <1>3, <2>2, Zenon DEF countIn
    <3> HIDE DEF b
    <3>a. \A n \in Nat : n + 1 \in Nat /\ n + 0 = n
      OBVIOUS
    <3>3. /\ data' \in [labels_ -> Nat] /\ counted' \in [labels_ -> Nat]
          /\ \A i \in labels_ : /\ data'[i] = data[i] + (IF i = b THEN 1 ELSE 0)
                               /\ counted'[i] = counted[i] + (IF i = b THEN 1 ELSE 0)
      BY <1>1, <3>1, <3>2, <3>a, Zenon DEF BucketsInv
    <3>4. ASSUME NEW i \in labels_
          PROVE  /\ data'[i] >= data[i]
                 /\ counted'[i] = data'[i] + reported[i] + (IF i <= cleared THEN values[i] ELSE 0)
      <4>1. counted[i] = data[i] + reported[i] + (IF i <= cleared THEN values[i] ELSE 0)
        BY Zenon DEF BucketsInv, CountsKept
      <4>2. i <= cleared => i \in 1 .. Len(values)
        BY <1>1 DEF BucketsInv, labels_
      <4> DEFINE v == IF i <= cleared THEN values[i] ELSE 0
                 e == IF i = b THEN 1 ELSE 0
      <4>3. v \in Nat /\ e \in Nat
        BY <1>1, <4>2, Zenon
      <4>4. /\ data'[i] = data[i] + e /\ counted'[i] = counted[i] + e
            /\ counted[i] = data[i] + reported[i] + v
        BY <3>3, <4>1, Zenon
      <4> HIDE DEF v, e
      <4>5. data'[i] >= data[i] /\ counted'[i] = data'[i] + reported[i] + v
        BY <1>1, <4>3, <4>4
      <4> QED BY <4>5, Zenon DEF v
    <3>5. Len(values) = cleared + 1 => values[cleared + 1] <= data'[cleared + 1]
      <4>1. Len(values) = cleared + 1 => cleared + 1 \in labels_ /\ cleared + 1 \in 1 .. Len(values)
        BY <1>1 DEF BucketsInv, labels_
      <4> QED BY <1>1, <3>3, <3>4, <4>1 DEF BucketsInv
    <3> QED BY <3>2, <3>3, <3>4, <3>5, Zenon DEF BucketsInv, CountsKept
  <2> QED BY <2>1, <2>2, Zenon
<1>4. CASE load
  <2>1. /\ Len(values) = cleared /\ cleared < Capacity /\ values' = Append(values, data[cleared + 1])
        /\ UNCHANGED <<data, cleared, counted, reported>> /\ cleared + 1 \in labels_
    BY <1>1, <1>4 DEF load, labels_
  <2>2. /\ values' \in Seq(Nat) /\ Len(values') = cleared + 1 /\ Len(values') <= Capacity
        /\ values'[cleared + 1] = data[cleared + 1]
        /\ \A i \in 1 .. cleared : values'[i] = values[i]
    BY <1>1, <2>1 DEF BucketsInv
  <2>3. ASSUME NEW i \in labels_
        PROVE  (IF i <= cleared THEN values'[i] ELSE 0) = IF i <= cleared THEN values[i] ELSE 0
    BY <1>1, <2>2 DEF labels_
  <2>4. values'[cleared + 1] <= data[cleared + 1] /\ Len(values') \in {cleared, cleared + 1}
    BY <1>1, <2>1, <2>2
  <2>5. CountsKept'
    <3> SUFFICES ASSUME NEW i \in labels_
                 PROVE  counted[i] = data[i] + reported[i] + (IF i <= cleared THEN values'[i] ELSE 0)
      BY <2>1, Zenon DEF CountsKept
    <3> QED BY <2>3, Zenon DEF BucketsInv, CountsKept
  <2> QED BY <2>1, <2>2, <2>4, <2>5, Zenon DEF BucketsInv
<1>5. CASE fetchSub
  <2> DEFINE b == cleared + 1
  <2>1. /\ cleared < Len(values) /\ cleared' = b /\ data' = [data EXCEPT ![b] = @ - values[b]]
        /\ UNCHANGED <<values, counted, reported>>
    BY <1>5, Zenon DEF fetchSub
  <2>a. Len(values) \in {cleared, cleared + 1} /\ Len(values) <= Capacity
    BY Zenon DEF BucketsInv
  <2>2. /\ Len(values) = b /\ Len(values) # b + 1
        /\ b \in labels_ /\ b \in 1 .. Len(values) /\ b \in 0 .. Capacity
    BY <1>1, <2>1, <2>a DEF labels_
  <2>3. values[b] <= data[b] /\ values[b] \in Nat /\ data[b] \in Nat
    BY <1>1, <2>2, Zenon DEF BucketsInv
  <2>4. data[b] - values[b] \in Nat
    BY <2>3
  <2>5. /\ data' \in [labels_ -> Nat]
        /\ \A i \in labels_ : data'[i] = IF i = b THEN data[b] - values[b] ELSE data[i]
    BY <2>1, <2>2, <2>4, Zenon DEF BucketsInv
  <2>6. CountsKept'
    <3> SUFFICES ASSUME NEW i \in labels_
                 PROVE  counted[i] = data'[i] + reported[i] + (IF i <= b THEN values[i] ELSE 0)
      BY <2>1, Zenon DEF CountsKept
    <3>1. counted[i] = data[i] + reported[i] + (IF i <= cleared THEN values[i] ELSE 0)
      BY Zenon DEF BucketsInv, CountsKept
    <3>2. CASE i = b
      <4>1. ~(b <= cleared) /\ b <= b
        BY <1>1
      <4>2. counted[b] = data[b] + reported[b] + 0 /\ reported[b] \in Nat
        BY <1>1, <2>2, <3>1, <3>2, <4>1, Zenon
      <4>3. data[b] + reported[b] + 0 = (data[b] - values[b]) + reported[b] + values[b]
        BY <2>3, <4>2
      <4> QED BY <2>5, <3>2, <4>1, <4>2, <4>3, Zenon
    <3>3. CASE i # b
      <4>1. i <= b <=> i <= cleared
        BY <1>1, <3>3 DEF labels_
      <4> QED BY <2>5, <3>1, <3>3, <4>1, Zenon
    <3> QED BY <3>2, <3>3, Zenon
  <2> QED BY <2>1, <2>2, <2>5, <2>6, Zenon DEF BucketsInv
<1>6. CASE reportAndReset
  <2>1. /\ cleared = Capacity /\ reported' = [i \in labels_ |-> reported[i] + values[i]]
        /\ values' = <<>> /\ cleared' = 0 /\ UNCHANGED <<data, counted>>
    BY <1>6, Zenon DEF reportAndReset
  <2>2. \A i \in labels_ : i \in 1 .. Len(values) /\ i <= cleared /\ ~(i <= 0) /\ values[i] \in Nat
    BY <1>1, <2>1 DEF BucketsInv, labels_
  <2>3. \A i \in labels_ : reported'[i] = reported[i] + values[i] /\ reported'[i] \in Nat
    BY <1>1, <2>1, <2>2
  <2>4. ASSUME NEW i \in labels_
        PROVE  counted[i] = data[i] + reported'[i] + (IF i <= 0 THEN values'[i] ELSE 0)
    <3>1. counted[i] = data[i] + reported[i] + values[i]
      BY <2>2, Zenon DEF BucketsInv, CountsKept
    <3> QED BY <1>1, <2>2, <2>3, <3>1
  <2>5. values' \in Seq(Nat) /\ Len(values') = 0 /\ 0 \in 0 .. Capacity /\ 0 <= Capacity /\ ~(0 = 0 + 1)
    BY <1>1, <2>1
  <2>6. reported' \in [labels_ -> Nat]
    BY <2>1, <2>3, Zenon
  <2> QED BY <2>1, <2>4, <2>5, <2>6, Zenon DEF BucketsInv, CountsKept
<1> QED BY <1>2, <1>3, <1>4, <1>5, <1>6, Zenon DEF HistogramNext

(* No count is lost between two reports, for any number of buckets and     *)
(* however the counting threads interleave with the report.                *)
THEOREM HistogramCorrect == HistogramSpec => []CountsKept
<1>1. HistogramInit => BucketsInv
  BY HistogramConstants DEF HistogramInit, BucketsInv, CountsKept, labels_
<1>2. BucketsInv => CountsKept
  BY Zenon DEF BucketsInv
<1> QED BY <1>1, <1>2, BucketsStep, PTL DEF HistogramSpec

-----------------------------------------------------------------------------
(* The logger. *)

LogSpec == LogInit /\ [][LogNext]_logVars

(* The inductive invariant: the console's sink follows its setter, and     *)
(* nothing has happened before init.                                       *)
LogInv ==
  /\ level_ \in LogLevel /\ console_level_ \in LogLevel
  /\ logger \in LogLevel /\ file_sink \in LogLevel /\ console_sink \in LogLevel
  /\ late \in BOOLEAN /\ dumped \in BOOLEAN
  /\ initialised # "yes" => ~late /\ ~dumped
  /\ initialised = "yes" => console_sink = console_level_
  /\ LevelsHonoured

LEMMA LogStep ==
  ASSUME LogInv, [LogNext]_logVars
  PROVE  LogInv'
<1> USE DEF LogInv, LevelsHonoured, LogLevel, Trace, Debug, Info, Warn, Error, Coarser, Finer
<1>1. CASE UNCHANGED logVars
  BY <1>1, Zenon DEF logVars
<1>2. CASE init
  BY <1>2 DEF init
<1>3. CASE Intercept
  <2>1. dumped' \in BOOLEAN /\ (dumped' => file_sink <= Debug)
    BY <1>3, Zenon DEF Intercept
  <2> QED BY <1>3, <2>1, Zenon DEF Intercept
<1>4. ASSUME NEW l \in LogLevel, setLevel(l) PROVE LogInv'
  <2>1. late' \in BOOLEAN /\ (initialised = "yes" => late') /\ (initialised # "yes" => late' = late)
    BY <1>4, Zenon DEF setLevel
  <2>2. /\ level_' = l /\ logger' = IF initialised = "yes" THEN l ELSE logger
        /\ UNCHANGED <<console_level_, initialised, file_sink, console_sink, dumped>>
    BY <1>4, Zenon DEF setLevel
  <2> QED BY <2>1, <2>2
<1>5. ASSUME NEW l \in LogLevel, setConsoleLevel(l) PROVE LogInv'
  <2>1. late' \in BOOLEAN /\ (initialised = "yes" => late') /\ (initialised # "yes" => late' = late)
    BY <1>5, Zenon DEF setConsoleLevel
  <2>2. /\ console_level_' = l /\ console_sink' = IF initialised = "yes" THEN l ELSE console_sink
        /\ UNCHANGED <<level_, initialised, logger, file_sink, dumped>>
    BY <1>5, Zenon DEF setConsoleLevel
  <2> QED BY <2>1, <2>2
<1> QED BY <1>1, <1>2, <1>3, <1>4, <1>5, Zenon DEF LogNext

(* Whatever the order of the setters, of init() and of the calls that the  *)
(* interceptor sees, no sink writes more than the last level asked for.    *)
THEOREM LoggingCorrect == LogSpec => []LevelsHonoured
<1>1. LogInit => LogInv
  <2>1. Info \in LogLevel /\ Warn \in LogLevel
    BY DEF LogLevel, Trace, Info, Warn, Error
  <2> QED BY <2>1, Zenon DEF LogInit, LogInv, LevelsHonoured
<1>2. LogInv => LevelsHonoured
  BY Zenon DEF LogInv
<1> QED BY <1>1, <1>2, LogStep, PTL DEF LogSpec
=============================================================================
