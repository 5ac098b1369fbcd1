----------------------------- MODULE AdminServer ----------------------------
(***************************************************************************)
(* The admin server of the client library, which changes the log level: a  *)
(* gRPC server with one completion queue and one loop thread, and a chain  *)
(* of ServerCall objects, each of which waits for one request and creates  *)
(* its successor when the request comes.                                   *)
(***************************************************************************)
EXTENDS Naturals, FiniteSets

CONSTANTS
  ServerCall,   \* bound: the objects that may be created
  Word          \* what may be given to the admin client as a level

ASSUME AdminConstants == IsFiniteSet(ServerCall)

Level == {"trace", "debug", "info", "warn", "error"}

VARIABLES
  adminState,   \* state_; "STARTING" is not told apart from CREATED
  loop,         \* the loop thread: "none", "begin", "next" or "gone"
  status,       \* per object: "none", "PROCESS", "FINISH", "deleted" or "leaked"
  events,       \* completion queue: <<object, ok>>
  queueOpen,    \* the completion queue has not been shut down
  level,        \* of the logger
  lateCall      \* history: a ServerCall was created on a queue already shut down

adminVars == <<adminState, loop, status, events, queueOpen, level, lateCall>>

Waiting(s) == status[s] = "PROCESS" /\ \A ok \in BOOLEAN : <<s, ok>> \notin events

AdminTypeOK ==
  /\ adminState \in {"CREATED", "STARTED", "STOPPING", "STOPPED"}
  /\ loop \in {"none", "begin", "next", "gone"}
  /\ status \in [ServerCall -> {"none", "PROCESS", "FINISH", "deleted", "leaked"}]
  /\ events \subseteq ServerCall \X BOOLEAN /\ queueOpen \in BOOLEAN /\ level \in Level
  /\ lateCall \in BOOLEAN

AdminInit ==
  /\ adminState = "CREATED" /\ loop = "none" /\ status = [s \in ServerCall |-> "none"]
  /\ events = {} /\ queueOpen = TRUE /\ level = "info" /\ lateCall = FALSE

(* start(): the loop thread itself sets STARTED.  (WaitNotify has the wait *)
(* of the caller.)                                                         *)
start ==
  /\ adminState = "CREATED" /\ adminState' = "STARTED" /\ loop' = "begin"
  /\ UNCHANGED <<status, events, queueOpen, level, lateCall>>

(* The constructor of ServerCall asks for the next request.                *)
Created(s, before) ==
  /\ status[s] = "none" /\ status' = [before EXCEPT ![s] = "PROCESS"]
  /\ lateCall' = (lateCall \/ ~queueOpen)

loopBegins(s) ==
  /\ loop = "begin" /\ loop' = "next" /\ Created(s, status)
  /\ UNCHANGED <<adminState, events, queueOpen, level>>

(* A client calls; or the server shuts down, which ends the wait.          *)
requestArrives(s) ==
  /\ adminState = "STARTED" /\ Waiting(s) /\ events' = events \cup {<<s, TRUE>>}
  /\ UNCHANGED <<adminState, loop, status, queueOpen, level, lateCall>>

finished(s, ok) ==      \* external: the answer is out, or the client has gone
  /\ status[s] = "FINISH" /\ {<<s, TRUE>>, <<s, FALSE>>} \cap events = {}
  /\ events' = events \cup {<<s, ok>>}
  /\ UNCHANGED <<adminState, loop, status, queueOpen, level, lateCall>>

(* The admin client leaves the level of the request unset, which is TRACE, *)
(* when it does not know the word; the server sets what it gets.           *)
wrapChangeLogLevelRequest(word) == IF word \in Level THEN word ELSE "trace"

applyChange(word) == level' = wrapChangeLogLevelRequest(word)

deletesEarly(s, next, word) ==     \* mutant: no successor is created
  /\ loop = "next" /\ <<s, TRUE>> \in events /\ status[s] = "PROCESS"
  /\ events' = events \ {<<s, TRUE>>} /\ status' = [status EXCEPT ![s] = "FINISH"]
  /\ applyChange(word)
  /\ UNCHANGED <<adminState, loop, queueOpen, lateCall>>

(* ServerCall::proceed with a request: a successor, then the answer.       *)
proceed(s, next, word) ==
  /\ loop = "next" /\ <<s, TRUE>> \in events /\ status[s] = "PROCESS" /\ next # s
  /\ events' = events \ {<<s, TRUE>>} /\ Created(next, [status EXCEPT ![s] = "FINISH"])
  /\ applyChange(word)
  /\ UNCHANGED <<adminState, loop, queueOpen>>

proceedFinished(s) ==
  /\ loop = "next" /\ <<s, TRUE>> \in events /\ status[s] = "FINISH"
  /\ events' = events \ {<<s, TRUE>>} /\ status' = [status EXCEPT ![s] = "deleted"]
  /\ UNCHANGED <<adminState, loop, queueOpen, level, lateCall>>

(* An event that is not ok ends the loop, whatever it was about.           *)
loopBreaks(s) ==
  /\ loop = "next" /\ <<s, FALSE>> \in events /\ loop' = "gone"
  /\ events' = events \ {<<s, FALSE>>} /\ status' = [status EXCEPT ![s] = "deleted"]
  /\ UNCHANGED <<adminState, queueOpen, level, lateCall>>

(* stop(): the calls that wait are ended, then the queue is shut down ...  *)
stopBegins ==
  /\ adminState = "STARTED" /\ adminState' = "STOPPING" /\ queueOpen' = FALSE
  /\ events' = events \cup {<<s, FALSE>> : s \in {t \in ServerCall : Waiting(t)}}
  /\ UNCHANGED <<loop, status, level, lateCall>>

(* ... and drained, in competition with the loop: what stop() takes out is *)
(* never deleted.                                                          *)
stopDrains(s, ok) ==
  /\ adminState = "STOPPING" /\ <<s, ok>> \in events
  /\ events' = events \ {<<s, ok>>} /\ status' = [status EXCEPT ![s] = "leaked"]
  /\ UNCHANGED <<adminState, loop, queueOpen, level, lateCall>>

loopEnds ==         \* Next() of a queue that is shut down and empty
  /\ loop = "next" /\ ~queueOpen /\ events = {} /\ \A s \in ServerCall : status[s] # "FINISH"
  /\ loop' = "gone"
  /\ UNCHANGED <<adminState, status, events, queueOpen, level, lateCall>>

stopEnds ==
  /\ adminState = "STOPPING" /\ loop = "gone" /\ events = {}
  /\ \A s \in ServerCall : status[s] # "FINISH"
  /\ adminState' = "STOPPED"
  /\ UNCHANGED <<loop, status, events, queueOpen, level, lateCall>>

AdminNext ==
  \/ start \/ stopBegins \/ loopEnds \/ stopEnds
  \/ \E s \in ServerCall :
       \/ loopBegins(s) \/ requestArrives(s) \/ proceedFinished(s) \/ loopBreaks(s)
       \/ \E next \in ServerCall, word \in Word : proceed(s, next, word)
       \/ \E ok \in BOOLEAN : finished(s, ok) \/ stopDrains(s, ok)

-----------------------------------------------------------------------------
(* Properties. *)

(* While the loop runs and nobody stops the server, exactly one ServerCall *)
(* waits for a request or is about to get one: no request finds the server *)
(* without a call.  A call is created on a queue that is shut down, which  *)
(* gRPC does not allow, only by a request or a start in progress while     *)
(* stop() runs; after stop() no call waits for a request it cannot get,    *)
(* unless it was created that late.                                        *)
AdminInv ==
  /\ AdminTypeOK
  /\ loop = "next" /\ adminState = "STARTED"
       => Cardinality({s \in ServerCall : status[s] = "PROCESS"}) = 1
  /\ lateCall => adminState \in {"STOPPING", "STOPPED"}
  /\ adminState = "STOPPED" => lateCall \/ \A s \in ServerCall : status[s] # "PROCESS"
=============================================================================
