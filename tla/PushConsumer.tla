---------------------------- MODULE PushConsumer ----------------------------
(***************************************************************************)
(* The push consumer in CLUSTERING mode, for one message queue: the        *)
(* process-queue table and its rebalancing (PushConsumerImpl), the pop     *)
(* cycles that receive messages (AsyncReceiveMessageCallback), the quota   *)
(* of a process queue (ProcessQueueImpl) and the consume tasks that the    *)
(* thread pool runs (ConsumeMessageServiceImpl, ConsumeTask).              *)
(*                                                                         *)
(* Deliveries are numbered in the order they arrive, so a received batch   *)
(* is an interval of numbers and the messages_ vector of a consume task is *)
(* head..hi; a message the broker delivers again is a new delivery.  A     *)
(* task is named by its first delivery.                                    *)
(*                                                                         *)
(* A ProcessQueueImpl lives as long as somebody holds a shared_ptr to it:  *)
(* the table, or a thread inside checkThrottleThenReceive.  Consume tasks, *)
(* timers and RPCs in flight hold weak_ptrs.                               *)
(***************************************************************************)
EXTENDS Integers, FiniteSets

CONSTANTS
  PQ,            \* identities of ProcessQueueImpl objects
  NoPQ,          \* the table has no entry for the queue
  Cycle,         \* bound: request/response cycles that may run at once
  Syncer,        \* bound: assignment responses processed at once
  MaxDelivery,   \* bound: deliveries
  Bytes,         \* Bytes[n]: total body size of the first n deliveries
  Threshold,     \* maxCachedMessageQuantity()
  MemThreshold,  \* maxCachedMessageMemory(); 0 means no limit
  BatchSize,     \* receiveBatchSize()
  Listener,      \* type of the message listener
  RpcMayFail,    \* may an ack or a nack come back with an error?
  UintMax        \* largest value of the unsigned cache counters

Delivery == 1..MaxDelivery

ASSUME ConsumerConstants ==
  /\ NoPQ \notin PQ
  /\ IsFiniteSet(Cycle)
  /\ MaxDelivery \in Nat /\ BatchSize \in Nat \ {0}
  /\ Threshold \in Nat \ {0} /\ MemThreshold \in Nat
  /\ Bytes \in [0..MaxDelivery -> Nat] /\ Bytes[0] = 0
  /\ \A m, n \in 0..MaxDelivery : m <= n => Bytes[m] <= Bytes[n]
  /\ Listener \in {"FIFO", "STANDARD"} /\ RpcMayFail \in BOOLEAN
  /\ UintMax \in Nat /\ UintMax > MaxDelivery

VARIABLES
  state,      \* state_ of the client; "CLEARED" is STOPPING with the table cleared
  table,      \* process_queue_table_ entry of the message queue
  born,       \* process queues created so far
  expired,    \* idle_since_ is older than the expiration threshold
  quantity,   \* cached_message_quantity_
  memory,     \* cached_message_memory_
  cyc,        \* the receive cycles: where each is, and on which process queue
  sync,       \* threads in syncProcessQueue between unlock and receiveMessage
  delivered,  \* number of deliveries so far
  task,       \* the consume tasks
  result,     \* what the listener last said of a delivery
  broker,     \* what the broker knows of a delivery
  settled,    \* deliveries whose ack or nack was reported successful
  crashed     \* a null client_manager_ has been dereferenced

tableVars == <<state, table, born, expired, sync>>
quotaVars == <<quantity, memory>>
taskVars  == <<delivered, task, result, broker, settled>>
vars == <<tableVars, quotaVars, cyc, taskVars, crashed>>

NoTask == [pq |-> NoPQ, head |-> 1, hi |-> 0, step |-> "Consume", pc |-> "none"]
NoCycle == [pc |-> "none", pq |-> NoPQ]

TaskRecord ==
  [pq : PQ \cup {NoPQ}, head : Nat, hi : Nat, step : {"Consume", "Ack", "Nack"},
   pc : {"none", "queued", "running", "acking", "nacking", "dropped", "done"}]

CycleRecord ==
  [pc : {"none", "pop", "check", "later", "immediate"}, pq : PQ \cup {NoPQ}]

TypeOK ==
  /\ state \in {"STARTED", "STOPPING", "CLEARED", "STOPPED"}
  /\ table \in PQ \cup {NoPQ} /\ born \in SUBSET PQ
  /\ expired \in [PQ -> BOOLEAN]
  /\ quantity \in [PQ -> 0..UintMax] /\ memory \in [PQ -> Int]
  /\ cyc \in [Cycle -> CycleRecord]
  /\ sync \in [Syncer -> {"idle", "start"}]
  /\ delivered \in 0..MaxDelivery
  /\ task \in [Delivery -> TaskRecord]
  /\ result \in [Delivery -> {"none", "SUCCESS", "FAILURE"}]
  /\ broker \in [Delivery -> {"inflight", "acked", "nacked"}]
  /\ settled \in SUBSET Delivery
  /\ crashed \in BOOLEAN

(* start() has run: the first assignment scan is 100 ms away. *)
Init ==
  /\ state = "STARTED" /\ table = NoPQ /\ born = {}
  /\ expired = [pq \in PQ |-> FALSE]
  /\ quantity = [pq \in PQ |-> 0] /\ memory = [pq \in PQ |-> 0]
  /\ cyc = [c \in Cycle |-> NoCycle]
  /\ sync = [s \in Syncer |-> "idle"]
  /\ delivered = 0
  /\ task = [t \in Delivery |-> NoTask]
  /\ result = [d \in Delivery |-> "none"]
  /\ broker = [d \in Delivery |-> "inflight"]
  /\ settled = {}
  /\ crashed = FALSE

Active == state = "STARTED"

NoCrash == ~crashed /\ UNCHANGED crashed

Holds(c, pq) == cyc[c].pc \in {"check", "immediate"} /\ cyc[c].pq = pq

Alive(pq) == table = pq \/ \E c \in Cycle : Holds(c, pq)

-----------------------------------------------------------------------------
(* ProcessQueueImpl: the quota. *)

throttlesOneLate(pq) ==         \* mutant: > for >=
  quantity[pq] > Threshold

shouldThrottle(pq) ==
  \/ quantity[pq] >= Threshold
  \/ MemThreshold # 0 /\ memory[pq] >= MemThreshold

accountCache(pq, k) ==
  /\ quantity' = [quantity EXCEPT ![pq] = @ + k]
  /\ memory' = [memory EXCEPT ![pq] = @ + Bytes[delivered + k] - Bytes[delivered]]

(* Unsigned subtraction: below zero the counter wraps. *)
FetchSub(n, k) == IF n >= k THEN n - k ELSE n - k + UintMax + 1

forgetsMemory(pq, d) ==         \* mutant: only the message count is released
  quantity' = [quantity EXCEPT ![pq] = FetchSub(@, 1)] /\ UNCHANGED memory

forgetsRelease(pq, d) ==        \* mutant: the quota is never given back
  UNCHANGED quotaVars

release(pq, d) ==
  /\ quantity' = [quantity EXCEPT ![pq] = FetchSub(@, 1)]
  /\ memory' = [memory EXCEPT ![pq] = FetchSub(@, Bytes[d] - Bytes[d - 1])]

-----------------------------------------------------------------------------
(* PushConsumerImpl: rebalancing. *)

(* Under the table's lock: the queue's entry, or a new process queue. *)
getOrCreateProcessQueue(pq) ==
  /\ IF table = NoPQ THEN pq \notin born ELSE pq = table
  /\ table' = pq /\ born' = born \cup {pq}

(* A pop request of cycle c is on its way; idle_since_ is refreshed. *)
popMessage(c, pq) ==
  /\ expired' = [expired EXCEPT ![pq] = FALSE]
  /\ cyc' = [cyc EXCEPT ![c] = [pc |-> "pop", pq |-> pq]]

(* receiveMessage on behalf of cycle c.  The active() that counts is the   *)
(* one getOrCreateProcessQueue asks under the lock.                        *)
receiveMessage(c) ==
  IF Active
  THEN \E pq \in PQ : getOrCreateProcessQueue(pq) /\ popMessage(c, pq)
  ELSE cyc' = [cyc EXCEPT ![c] = NoCycle] /\ UNCHANGED <<table, born, expired>>

(* syncProcessQueue up to the unlock: a response of the load balancer that *)
(* lists this queue (assigned) or only other queues of the topic.          *)
syncProcessQueue(s, assigned) ==
  LET kept == assigned /\ table # NoPQ /\ ~expired[table]
  IN  /\ sync[s] = "idle"
      /\ kept \/ PQ \ born # {}     \* bound: the last process queue is never erased
      /\ table' = IF kept THEN table ELSE NoPQ
      /\ sync' = [sync EXCEPT ![s] = IF assigned /\ ~kept THEN "start" ELSE "idle"]
      /\ UNCHANGED <<state, born, expired, quotaVars, cyc, taskVars>> /\ NoCrash

(* The rest of syncProcessQueue: a new cycle for a queue that had none. *)
syncReceive(s, c) ==
  /\ sync[s] = "start" /\ cyc[c] = NoCycle
  /\ receiveMessage(c)
  /\ sync' = [sync EXCEPT ![s] = "idle"]
  /\ UNCHANGED <<state, quotaVars, taskVars>> /\ NoCrash

(* 120 s pass without a pop request or a throttle check of the queue. *)
idleTooLong ==
  /\ table # NoPQ /\ ~expired[table]
  /\ expired' = [expired EXCEPT ![table] = TRUE]
  /\ UNCHANGED <<state, table, born, sync, quotaVars, cyc, taskVars>> /\ NoCrash

(* shutdown(): the state changes first, then the table is cleared under    *)
(* its lock, then ClientImpl::shutdown resets client_manager_.  In between *)
(* the consume service's shutdown does nothing: it expects STOPPING, a     *)
(* state the service never enters.                                         *)
shutdownBegin ==
  /\ state = "STARTED" /\ state' = "STOPPING"
  /\ UNCHANGED <<table, born, expired, sync, quotaVars, cyc, taskVars>> /\ NoCrash

shutdownClear ==
  /\ state = "STOPPING" /\ state' = "CLEARED" /\ table' = NoPQ
  /\ UNCHANGED <<born, expired, sync, quotaVars, cyc, taskVars>> /\ NoCrash

shutdownParent ==
  /\ state = "CLEARED" /\ state' = "STOPPED"
  /\ UNCHANGED <<table, born, expired, sync, quotaVars, cyc, taskVars>> /\ NoCrash
-----------------------------------------------------------------------------
(* ConsumeMessageServiceImpl::dispatch of k messages: one task per message *)
(* for a standard listener, one task for the whole batch for a FIFO one.   *)
(* An empty batch makes a FIFO task that returns at once.                  *)
dispatch(pq, k) ==
  LET first == delivered + 1
      last  == delivered + k
      heads == IF Listener = "FIFO" THEN {first} \cap (first..last) ELSE first..last
      tail(t) == IF Listener = "FIFO" THEN last ELSE t
  IN  /\ last <= MaxDelivery
      /\ accountCache(pq, k)
      /\ delivered' = last
      /\ task' = [t \in Delivery |->
                    IF t \in heads
                    THEN [pq |-> pq, head |-> t, hi |-> tail(t),
                          step |-> "Consume", pc |-> "queued"]
                    ELSE task[t]]

(* AsyncReceiveMessageCallback: the response to a pop request. *)
onCompletion(c, k) ==
  LET pq == cyc[c].pq
  IN  /\ cyc[c].pc = "pop" /\ Alive(pq) /\ Active
      /\ dispatch(pq, k)
      /\ cyc' = [cyc EXCEPT ![c].pc = "check"]
      /\ UNCHANGED <<tableVars, result, broker, settled>> /\ NoCrash

errorEndsCycle(c) ==            \* mutant: no receiveMessageLater after an error
  /\ cyc[c].pc = "pop" /\ Alive(cyc[c].pq) /\ Active
  /\ cyc' = [cyc EXCEPT ![c] = NoCycle]
  /\ UNCHANGED <<tableVars, quotaVars, taskVars>> /\ NoCrash

onCompletionError(c) ==
  /\ cyc[c].pc = "pop" /\ Alive(cyc[c].pq) /\ Active
  /\ cyc' = [cyc EXCEPT ![c].pc = "later"]
  /\ UNCHANGED <<tableVars, quotaVars, taskVars>> /\ NoCrash

(* The process queue is gone or the consumer stopped: the cycle ends. *)
onCompletionStop(c) ==
  /\ cyc[c].pc = "pop" /\ ~(Alive(cyc[c].pq) /\ Active)
  /\ cyc' = [cyc EXCEPT ![c] = NoCycle]
  /\ UNCHANGED <<tableVars, quotaVars, taskVars>> /\ NoCrash

(* The one-second timer of receiveMessageLater. *)
receiveLater(c) ==
  /\ cyc[c].pc = "later"
  /\ cyc' = [cyc EXCEPT ![c] = IF Alive(@.pq) THEN [@ EXCEPT !.pc = "check"] ELSE NoCycle]
  /\ UNCHANGED <<tableVars, quotaVars, taskVars>> /\ NoCrash

checkThrottleThenReceive(c) ==
  LET pq == cyc[c].pq
      throttle == shouldThrottle(pq)
  IN  /\ cyc[c].pc = "check"
      /\ cyc' = [cyc EXCEPT ![c].pc = IF throttle THEN "later" ELSE "immediate"]
      /\ expired' = [expired EXCEPT ![pq] = IF throttle THEN FALSE ELSE @]
      /\ UNCHANGED <<state, table, born, sync, quotaVars, taskVars>> /\ NoCrash

(* receiveMessageImmediately: whatever process queue the table has now. *)
receiveMessageImmediately(c) ==
  /\ cyc[c].pc = "immediate"
  /\ receiveMessage(c)
  /\ UNCHANGED <<state, sync, quotaVars, taskVars>> /\ NoCrash

-----------------------------------------------------------------------------
(* ConsumeTask. *)

Fifo(t) == task[t].hi > t    \* fifo_: the task was built from several messages

(* The task goes on with its messages from head on. *)
goOn(t, head, step, pc) ==
  task' = [task EXCEPT ![t] = [pq |-> @.pq, head |-> head, hi |-> @.hi, step |-> step, pc |-> pc]]

(* A pool thread enters process(). *)
process(t) ==
  /\ task[t].pc = "queued"
  /\ goOn(t, task[t].head, task[t].step,
          IF task[t].head > task[t].hi THEN "done"
          ELSE CASE task[t].step = "Consume" -> "running"
                 [] task[t].step = "Ack"     -> "acking"
                 [] task[t].step = "Nack"    -> "nacking")
  /\ UNCHANGED <<tableVars, quotaVars, cyc, delivered, result, broker, settled>> /\ NoCrash

nacksFifo(t, r) ==              \* mutant: fifo_ is not asked
  LET next == IF r = "SUCCESS" THEN "acking" ELSE "nacking"
  IN  /\ task[t].pc = "running"
      /\ result' = [result EXCEPT ![task[t].head] = r]
      /\ goOn(t, task[t].head, task[t].step, next)
      /\ ~crashed /\ crashed' = (state = "STOPPED")
      /\ UNCHANGED <<tableVars, quotaVars, cyc, delivered, broker, settled>>

(* The listener returns.  SUCCESS sends an ack, FAILURE a nack, through    *)
(* client_manager_; a FIFO task that failed is handed to schedule, which   *)
(* has an empty body, so nothing refers to the task any more.              *)
listenerReturns(t, r) ==
  LET next == CASE r = "SUCCESS" -> "acking"
                [] r = "FAILURE" /\ ~Fifo(t) -> "nacking"
                [] OTHER -> "dropped"
  IN  /\ task[t].pc = "running"
      /\ result' = [result EXCEPT ![task[t].head] = r]
      /\ goOn(t, task[t].head, task[t].step, next)
      /\ ~crashed /\ crashed' = (next # "dropped" /\ state = "STOPPED")
      /\ UNCHANGED <<tableVars, quotaVars, cyc, delivered, broker, settled>>

popsWithoutQueue(t) ==          \* mutant: messages_ is popped, no quota to release
  /\ goOn(t, task[t].head + 1, "Consume", "queued")
  /\ IF Alive(task[t].pq) THEN release(task[t].pq, task[t].head) ELSE UNCHANGED quotaVars

(* pop(): nothing happens when the process queue is gone. *)
pop(t) ==
  IF Alive(task[t].pq)
  THEN /\ release(task[t].pq, task[t].head)
       /\ goOn(t, task[t].head + 1, "Consume", "queued")
  ELSE /\ goOn(t, task[t].head, "Consume", "queued")
       /\ UNCHANGED quotaVars

(* onAck and onNack differ in the state they wait in, the step they leave  *)
(* for a retry and what the broker has learnt.                             *)
onReply(t, waiting, retry, told) ==
  LET d == task[t].head
  IN  /\ task[t].pc = waiting
      /\ \/ /\ broker' = [broker EXCEPT ![d] = told]
            /\ settled' = settled \cup {d}
            /\ pop(t)
         \/ /\ RpcMayFail
            /\ \E b \in {broker[d], told} : broker' = [broker EXCEPT ![d] = b]
            /\ goOn(t, d, retry, "dropped")
            /\ UNCHANGED <<settled, quotaVars>>
      /\ UNCHANGED <<tableVars, cyc, delivered, result>> /\ NoCrash

onAck(t)  == onReply(t, "acking", "Ack", "acked")
onNack(t) == onReply(t, "nacking", "Nack", "nacked")

-----------------------------------------------------------------------------
Rebalance ==
  \/ \E s \in Syncer : \/ \E assigned \in BOOLEAN : syncProcessQueue(s, assigned)
                       \/ \E c \in Cycle : syncReceive(s, c)
  \/ idleTooLong

Shutdown == shutdownBegin \/ shutdownClear \/ shutdownParent

CycleStep(c) ==
  \/ \E k \in 0..BatchSize : onCompletion(c, k)
  \/ onCompletionError(c)
  \/ onCompletionStop(c)
  \/ receiveLater(c)
  \/ checkThrottleThenReceive(c)
  \/ receiveMessageImmediately(c)

TaskStep(t) ==
  \/ process(t)
  \/ \E r \in {"SUCCESS", "FAILURE"} : listenerReturns(t, r)
  \/ onAck(t)
  \/ onNack(t)

(* A consumer that is not being shut down. *)
Running ==
  \/ Rebalance
  \/ \E c \in Cycle : CycleStep(c)
  \/ \E t \in Delivery : TaskStep(t)

Next == Running \/ Shutdown

Spec == Init /\ [][Next]_vars

RunningSpec == Init /\ [][Running]_vars

(* What the runtime provides: gRPC completes a request by its deadline,    *)
(* the scheduler fires a timer, pool threads take tasks, callbacks run on. *)
(* A listener is assumed to return.                                        *)
FairSpec ==
  /\ RunningSpec
  /\ \A c \in Cycle : WF_vars(CycleStep(c))
  /\ \A t \in Delivery : WF_vars(TaskStep(t))
  /\ \A s \in Syncer : WF_vars(\E c \in Cycle : syncReceive(s, c))

-----------------------------------------------------------------------------
(* Properties. *)

(* The messages of the tasks of a process queue that pop() has not removed. *)
Outstanding(pq) ==
  {d \in Delivery : \E t \in Delivery : task[t].pq = pq /\ d \in task[t].head..task[t].hi}

CyclesOn(pq) == {c \in Cycle : cyc[c].pq = pq}

Settled(t, d) ==
  /\ d \in settled
  /\ \/ result[d] = "SUCCESS" /\ broker[d] = "acked"
     \/ result[d] = "FAILURE" /\ broker[d] = "nacked" /\ ~Fifo(t)

(* The quota counter of every process queue is exactly the number of       *)
(* messages its tasks still hold: accountCache and release, run by         *)
(* different threads, neither lose nor repeat a message and the unsigned   *)
(* counter never wraps.                                                    *)
QuotaExact == \A pq \in PQ : quantity[pq] = Cardinality(Outstanding(pq))

(* The bytes of a delivery's body, numbered in the order they arrive. *)
Body(d) == (Bytes[d - 1] + 1)..Bytes[d]

OutstandingBytes(pq) == UNION {Body(d) : d \in Outstanding(pq)}

(* The memory counter is the total body size of the messages the tasks of  *)
(* a process queue still hold: accountCache and release agree on sizes,    *)
(* and the unsigned counter never wraps.                                   *)
MemoryExact == \A pq \in PQ : memory[pq] = Cardinality(OutstandingBytes(pq))

(* Back-pressure: the throttle check is made before a request, the batch   *)
(* arrives after it.  So each cycle running on a process queue may push it *)
(* one batch past the threshold, and nothing pushes it further, whatever   *)
(* the interleaving of checks, responses, releases and rebalancing.        *)
ThrottleBound ==
  (Active /\ table # NoPQ) =>
    quantity[table] <= Threshold - 1 + BatchSize * Cardinality(CyclesOn(table))

(* pop() removes a message only once the broker has been told of it: it    *)
(* was consumed with SUCCESS and acked, or with FAILURE and nacked.  In a  *)
(* FIFO task only the former, so a message reaches the listener only when  *)
(* all the messages before it have been acked.                             *)
ReleasedIsSettled ==
  \A t \in Delivery : task[t].pc # "none" =>
    \A d \in t..(task[t].head - 1) : Settled(t, d)

(* A process queue in the table of an active consumer always has a cycle   *)
(* running on it; syncProcessQueue would not start one, as the queue is in *)
(* "current".                                                              *)
QueueHasCycle == (Active /\ table # NoPQ) => CyclesOn(table) # {}

(* getOrCreateProcessQueue checks active() under the lock that shutdown()  *)
(* takes to clear the table, so no process queue enters the table later.   *)
ClearedForGood == state \in {"CLEARED", "STOPPED"} => table = NoPQ

(* A throttled or failed cycle goes on once messages are settled, unless   *)
(* its process queue goes away.                                            *)
ThrottledCycleResumes ==
  \A c \in Cycle : cyc[c].pc = "later" ~> cyc[c].pc \in {"pop", "none"}

(* ProcessQueueImpl.h: "Once messages are processed by user-passed-in      *)
(* callback, their quota will be released".                                *)
ProcessedIsReleased ==
  \A d \in Delivery :
    result[d] # "none" ~> \A pq \in PQ : Alive(pq) => d \notin Outstanding(pq)

-----------------------------------------------------------------------------
(* The inductive invariant behind the safety properties. *)

(* A task holds head..hi of the interval t..hi it was created with; the    *)
(* intervals of different tasks are disjoint.  A thread or an RPC working  *)
(* on a task has a message to work on (the asserts of pop() and onNack()), *)
(* and waits for the RPC that the listener's result calls for.             *)
TaskOK(t) ==
  LET k == task[t]
  IN  /\ k.pc # "none" /\ k.pq \in born
      /\ t <= k.head /\ k.head <= k.hi + 1 /\ t <= k.hi /\ k.hi <= delivered
      /\ \A u \in (t + 1)..k.hi : task[u] = NoTask
      /\ k.pc \in {"queued", "running", "acking", "nacking"} => k.step = "Consume"
      /\ k.pc \in {"running", "acking", "nacking", "dropped"} => k.head <= k.hi
      /\ k.pc = "acking" => result[k.head] = "SUCCESS"
      /\ k.pc = "nacking" => result[k.head] = "FAILURE" /\ ~Fifo(t)

TaskInv == \A t \in Delivery : task[t] = NoTask \/ TaskOK(t)

(* What is in use has been created, and a new process queue is empty. *)
BornInv ==
  /\ table \in born \cup {NoPQ}
  /\ \A c \in Cycle : cyc[c] = NoCycle \/ (cyc[c].pc # "none" /\ cyc[c].pq \in born)
  /\ \A pq \in PQ \ born : quantity[pq] = 0

(* Cycles that have not passed a throttle check since their last response. *)
Unchecked(pq) == {c \in Cycle : cyc[c].pq = pq /\ cyc[c].pc \in {"check", "later"}}

(* Why ThrottleBound holds: only a batch brought by a cycle that has not   *)
(* passed a check since is beyond the threshold.                           *)
ThrottleInv ==
  (Active /\ table # NoPQ) =>
    quantity[table] <= Threshold - 1 + BatchSize * Cardinality(Unchecked(table))

Inv ==
  /\ TypeOK /\ TaskInv /\ BornInv
  /\ QuotaExact /\ ThrottleInv /\ ReleasedIsSettled /\ QueueHasCycle /\ ClearedForGood
=============================================================================
