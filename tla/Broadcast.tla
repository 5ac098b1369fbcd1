----------------------------- MODULE Broadcast ------------------------------
(***************************************************************************)
(* A push consumer in BROADCASTING mode with a FIFO listener, for one      *)
(* message queue: every consumer pulls all messages by offset, starting    *)
(* with the end of the queue.  Pulled messages go into a deque, which one  *)
(* BroadcastTask at a time drains into the listener on the consume pool.   *)
(***************************************************************************)
EXTENDS Integers, Sequences

CONSTANTS
  MaxOffset,          \* bound: messages of the queue
  BatchSize,          \* receiveBatchSize
  MaxCachedQuantity   \* maxCachedMessageQuantity

ASSUME BroadcastConstants ==
  MaxOffset \in Nat /\ BatchSize \in Nat \ {0} /\ MaxCachedQuantity \in Nat \ {0}

VARIABLES
  maxOffset,   \* end of the queue at the broker
  nextOffset,  \* next_offset_ of the process queue
  cycle,       \* "new", "query", "pull", "later" (the 1 s timer) or "dead"
  deque,       \* broadcast_messages_: offsets
  cachedCount, \* cached_message_quantity_
  taskQueued,  \* process() calls waiting in the consume pool
  worker,      \* "idle", "loop", "handle" or "leave"
  handled,     \* the message the listener has or had last, -1: none
  failedPull   \* history: a pull of this process queue has failed

broadcastVars == <<maxOffset, nextOffset, cycle, deque, cachedCount, taskQueued, worker, handled,
                   failedPull>>

runnable == worker # "idle"    \* runnable_ of the BroadcastTask

BroadcastTypeOK ==
  /\ maxOffset \in 0 .. MaxOffset /\ nextOffset \in -1 .. MaxOffset
  /\ cycle \in {"new", "query", "pull", "later", "dead"}
  /\ deque \in Seq(0 .. MaxOffset) /\ Len(deque) <= MaxCachedQuantity + BatchSize
  /\ cachedCount \in 0 .. MaxCachedQuantity + BatchSize /\ taskQueued \in 0 .. 2
  /\ worker \in {"idle", "loop", "handle", "leave"} /\ handled \in -1 .. MaxOffset
  /\ failedPull \in BOOLEAN

BroadcastInit ==
  /\ maxOffset = 0 /\ nextOffset = -1 /\ cycle = "new" /\ deque = <<>> /\ cachedCount = 0
  /\ taskQueued = 0 /\ worker = "idle" /\ handled = -1 /\ failedPull = FALSE

brokerStores ==
  /\ maxOffset < MaxOffset /\ maxOffset' = maxOffset + 1
  /\ UNCHANGED <<nextOffset, cycle, deque, cachedCount, taskQueued, worker, handled, failedPull>>

(* PushConsumerImpl::receiveMessage: ask for the end of the queue unless   *)
(* an offset is known.                                                     *)
startReceiving ==
  /\ cycle = "new" /\ cycle' = IF nextOffset < 0 THEN "query" ELSE "pull"
  /\ UNCHANGED <<maxOffset, nextOffset, deque, cachedCount, taskQueued, worker, handled, failedPull>>

(* The callback of queryOffset; an error is only logged. *)
onQueryOffset(ok) ==
  /\ cycle = "query"
  /\ cycle' = IF ok THEN "pull" ELSE "dead"
  /\ nextOffset' = IF ok THEN maxOffset ELSE nextOffset
  /\ UNCHANGED <<maxOffset, deque, cachedCount, taskQueued, worker, handled, failedPull>>

Throttled(quantity) == quantity >= MaxCachedQuantity

resubmitsNever(batch) ==          \* mutant: an empty batch is not dispatched
  /\ deque' = deque \o batch /\ cachedCount' = cachedCount + Len(batch)
  /\ taskQueued' = IF runnable \/ batch = <<>> THEN taskQueued ELSE taskQueued + 1
  /\ cycle' = IF Throttled(cachedCount + Len(batch)) THEN "later" ELSE "pull"

(* The batch is accounted, put into the deque and, unless the task runs,   *)
(* a run of it submitted; then the next receive, now or later.             *)
Dispatch(batch) ==
  /\ deque' = deque \o batch /\ cachedCount' = cachedCount + Len(batch)
  /\ taskQueued' = IF runnable THEN taskQueued ELSE taskQueued + 1
  /\ cycle' = IF Throttled(cachedCount + Len(batch)) THEN "later" ELSE "pull"

Least(a, b) == IF a < b THEN a ELSE b

skipsOne ==                       \* mutant: the next offset is one too far
  LET n == Least(BatchSize, maxOffset - nextOffset)
  IN  /\ cycle = "pull" /\ taskQueued < 2
      /\ nextOffset' = Least(nextOffset + n + 1, MaxOffset)
      /\ Dispatch([i \in 1 .. n |-> nextOffset + i - 1])
      /\ UNCHANGED <<maxOffset, worker, handled, failedPull>>

(* A pull that succeeds, perhaps with no message.  Bound: process() calls. *)
onPull ==
  LET n == Least(BatchSize, maxOffset - nextOffset)
  IN  /\ cycle = "pull" /\ taskQueued < 2
      /\ nextOffset' = nextOffset + n
      /\ Dispatch([i \in 1 .. n |-> nextOffset + i - 1])
      /\ UNCHANGED <<maxOffset, worker, handled, failedPull>>

(* A pull that fails: the offset is taken from the result all the same,    *)
(* which holds zero, or what the broker put into an error response.        *)
onPullFailed(offset) ==
  /\ cycle = "pull" /\ cycle' = "later" /\ failedPull' = TRUE
  /\ offset \in {0, nextOffset} /\ nextOffset' = offset
  /\ UNCHANGED <<maxOffset, deque, cachedCount, taskQueued, worker, handled>>

(* A batch with a message that does not decode: no callback at all. *)
onPullGarbled ==
  /\ cycle = "pull" /\ maxOffset > nextOffset /\ cycle' = "dead"
  /\ UNCHANGED <<maxOffset, nextOffset, deque, cachedCount, taskQueued, worker, handled, failedPull>>

checkThrottleThenReceive ==
  /\ cycle = "later" /\ cycle' = IF Throttled(cachedCount) THEN "later" ELSE "pull"
  /\ UNCHANGED <<maxOffset, nextOffset, deque, cachedCount, taskQueued, worker, handled, failedPull>>

(* A dead cycle leaves the process queue idle: after two minutes a scan    *)
(* replaces it by a new one, and its deque and counters with it.           *)
(* Bound: not while a task drains it.                                      *)
processQueueExpires ==
  /\ cycle = "dead" /\ worker = "idle"
  /\ nextOffset' = -1 /\ cycle' = "new" /\ deque' = <<>> /\ cachedCount' = 0 /\ taskQueued' = 0
  /\ handled' = -1 /\ failedPull' = FALSE
  /\ UNCHANGED <<maxOffset, worker>>

(* BroadcastTask::process: a pool thread enters if no other is inside ...  *)
processBegins ==
  /\ taskQueued > 0 /\ taskQueued' = taskQueued - 1
  /\ worker' = IF runnable THEN worker ELSE "loop"
  /\ UNCHANGED <<maxOffset, nextOffset, cycle, deque, cachedCount, handled, failedPull>>

(* ... takes messages, one by one, until the deque is empty ...            *)
dequeBroadcastMessage ==
  /\ worker = "loop"
  /\ IF deque = <<>> THEN worker' = "leave" /\ UNCHANGED <<deque, handled>>
     ELSE worker' = "handle" /\ handled' = Head(deque) /\ deque' = Tail(deque)
  /\ UNCHANGED <<maxOffset, nextOffset, cycle, cachedCount, taskQueued, failedPull>>

(* ... hands each to the listener, and releases its quota ...              *)
listenerReturns ==
  /\ worker = "handle" /\ worker' = "loop" /\ cachedCount' = cachedCount - 1
  /\ UNCHANGED <<maxOffset, nextOffset, cycle, deque, taskQueued, handled, failedPull>>

(* ... and leaves.  What was dispatched since it saw the deque empty was   *)
(* not submitted.                                                          *)
processEnds ==
  /\ worker = "leave" /\ worker' = "idle"
  /\ UNCHANGED <<maxOffset, nextOffset, cycle, deque, cachedCount, taskQueued, handled, failedPull>>

WorkerStep == processBegins \/ dequeBroadcastMessage \/ listenerReturns \/ processEnds
CycleProgress ==
  startReceiving \/ checkThrottleThenReceive \/ processQueueExpires
  \/ \E ok \in BOOLEAN : onQueryOffset(ok)

BroadcastNext ==
  \/ brokerStores \/ onPull \/ onPullGarbled \/ CycleProgress \/ WorkerStep
  \/ \E o \in 0 .. MaxOffset : onPullFailed(o)

-----------------------------------------------------------------------------
(* Properties. *)

(* What is on its way, oldest first: the last message the listener got,    *)
(* the deque, and the offset to pull next.                                 *)
Pipeline ==
  (IF handled >= 0 THEN <<handled>> ELSE <<>>) \o deque
  \o (IF nextOffset >= 0 THEN <<nextOffset>> ELSE <<>>)

(* The quota counts exactly the messages in the deque and the one the      *)
(* listener has.  No message is skipped while a process queue lives: the   *)
(* offsets on their way follow one another, and only a pull that failed    *)
(* makes them start again, at the first message of the queue.              *)
BroadcastInv ==
  /\ BroadcastTypeOK
  /\ cachedCount = Len(deque) + IF worker = "handle" THEN 1 ELSE 0
  /\ \A i \in 1 .. Len(Pipeline) - 1 :
       Pipeline[i + 1] = Pipeline[i] + 1 \/ (failedPull /\ Pipeline[i + 1] = 0)

(* Messages that were dispatched while the task was leaving, and are       *)
(* therefore in no task, get one with the next pull that succeeds.  Only   *)
(* if they fill the quota does no pull follow, and the queue stays stuck.  *)
StrandedIsRescued ==
  deque # <<>> /\ ~runnable /\ taskQueued = 0 /\ ~Throttled(cachedCount)
    ~> taskQueued > 0 \/ cycle = "dead" \/ Throttled(cachedCount)
=============================================================================
