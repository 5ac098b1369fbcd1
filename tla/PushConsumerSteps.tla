------------------------- MODULE PushConsumerSteps --------------------------
(***************************************************************************)
(* Lemmas for the proofs about PushConsumer: the counting of messages and  *)
(* cycles, and the steps that change the table, a cycle or a consume task, *)
(* each of which keeps the inductive invariant.                            *)
(***************************************************************************)
EXTENDS PushConsumer, FiniteSetTheorems, TLAPS

(* The numbers among the constants. *)
LEMMA NatConstants ==
  /\ MaxDelivery \in Nat /\ UintMax \in Nat /\ UintMax > MaxDelivery
  /\ Threshold \in Nat /\ Threshold >= 1 /\ BatchSize \in Nat
  BY ConsumerConstants

(* The body size of a delivery is a difference of two totals. *)
LEMMA BytesType == \A d \in Delivery : Bytes[d] \in Int /\ Bytes[d - 1] \in Int
<1> SUFFICES ASSUME NEW d \in Delivery PROVE Bytes[d] \in Int /\ Bytes[d - 1] \in Int
  BY Zenon
<1>1. MaxDelivery \in Nat /\ Bytes \in [0..MaxDelivery -> Nat]
  BY ConsumerConstants, Zenon
<1>2. d \in 0..MaxDelivery /\ d - 1 \in 0..MaxDelivery
  BY <1>1 DEF Delivery
<1>3. Bytes[d] \in Nat /\ Bytes[d - 1] \in Nat
  BY <1>1, <1>2, Zenon
<1> QED BY <1>3

(* A task with a pc is a task. *)
LEMMA NotNone == \A k : k.pc # "none" => k # NoTask
  BY DEF NoTask

(* A new task starts with its first message. *)
LEMMA NewTaskHead ==
  \A k, p, a, b :
    k = [pq |-> p, head |-> a, hi |-> b, step |-> "Consume", pc |-> "queued"] => k.head = a
  OBVIOUS

(* There are MaxDelivery deliveries. *)
LEMMA DeliveryFinite == IsFiniteSet(Delivery) /\ Cardinality(Delivery) = MaxDelivery
<1>1. MaxDelivery \in Int /\ 1 \in Int
  BY ConsumerConstants
<1>2. /\ IsFiniteSet(1..MaxDelivery)
      /\ Cardinality(1..MaxDelivery) = IF 1 > MaxDelivery THEN 0 ELSE MaxDelivery - 1 + 1
  BY <1>1, FS_Interval, Zenon
<1> QED
  BY <1>2, ConsumerConstants DEF Delivery

(* The unconsumed messages of a process queue are at most the deliveries. *)
LEMMA OutstandingFinite ==
  ASSUME NEW pq
  PROVE  /\ IsFiniteSet(Outstanding(pq)) /\ Cardinality(Outstanding(pq)) \in Nat
         /\ Cardinality(Outstanding(pq)) <= MaxDelivery
         /\ Cardinality(Outstanding(pq)') \in Nat
         /\ Cardinality(Outstanding(pq)') <= MaxDelivery
<1>1. Outstanding(pq) \subseteq Delivery /\ Outstanding(pq)' \subseteq Delivery
  BY Zenon DEF Outstanding
<1> QED
  BY <1>1, DeliveryFinite, FS_Subset, FS_CardinalityType, ConsumerConstants, Zenon

(* The cycles that have not passed a check are finitely many, before and   *)
(* after a step.                                                           *)
LEMMA UncheckedFinite ==
  ASSUME NEW pq
  PROVE  /\ IsFiniteSet(Unchecked(pq)) /\ Cardinality(Unchecked(pq)) \in Nat
         /\ IsFiniteSet(Unchecked(pq)') /\ Cardinality(Unchecked(pq)') \in Nat
<1>1. Unchecked(pq) \subseteq Cycle /\ Unchecked(pq)' \subseteq Cycle
  BY Zenon DEF Unchecked
<1> QED
  BY <1>1, FS_Subset, FS_CardinalityType, ConsumerConstants, Zenon

(* Multiplying by the batch size is monotone. *)
LEMMA BatchMonotone ==
  ASSUME NEW m \in Nat, NEW n \in Nat
  PROVE  /\ m <= n => BatchSize * m <= BatchSize * n
         /\ n = m + 1 => BatchSize * n = BatchSize * m + BatchSize
         /\ BatchSize * m \in Nat
  BY ConsumerConstants, SMT

(* A step that adds no message to the process queue in the table and lets  *)
(* no cycle through the check keeps the throttle bound.                    *)
LEMMA ThrottleKept ==
  ASSUME TypeOK, TypeOK', ThrottleInv, Active' => Active, table' \in {table, NoPQ},
         table # NoPQ => /\ quantity'[table] <= quantity[table]
                         /\ Unchecked(table) \subseteq Unchecked(table)'
  PROVE  ThrottleInv'
<1> SUFFICES ASSUME Active', table' # NoPQ PROVE
      quantity'[table] <= Threshold - 1 + BatchSize * Cardinality(Unchecked(table)')
  BY Zenon DEF ThrottleInv
<1>1. Active /\ table # NoPQ /\ table \in PQ /\ table' = table
  BY Zenon DEF TypeOK
<1>2. Cardinality(Unchecked(table)) <= Cardinality(Unchecked(table)')
  BY <1>1, UncheckedFinite, FS_Subset, Zenon
<1>3. BatchSize * Cardinality(Unchecked(table)) <= BatchSize * Cardinality(Unchecked(table)')
  BY <1>2, UncheckedFinite, BatchMonotone, Zenon
<1>4. quantity[table] <= Threshold - 1 + BatchSize * Cardinality(Unchecked(table))
  BY <1>1, Zenon DEF ThrottleInv
<1>5. quantity[table] \in Nat /\ quantity'[table] \in Nat
  BY <1>1, ConsumerConstants DEF TypeOK
<1>6. /\ BatchSize * Cardinality(Unchecked(table)) \in Nat
      /\ BatchSize * Cardinality(Unchecked(table)') \in Nat
  BY UncheckedFinite, BatchMonotone, Zenon
<1> QED
  BY <1>1, <1>3, <1>4, <1>5, <1>6, ConsumerConstants

(* The parts of TypeOK that the provers need most, one by one. *)
LEMMA DeliveryType ==
  /\ MaxDelivery \in Nat
  /\ \A d \in Delivery : d \in Nat /\ d \in Int /\ 1 <= d /\ d <= MaxDelivery
  /\ \A d \in Int : 1 <= d /\ d <= MaxDelivery => d \in Delivery
  BY ConsumerConstants DEF Delivery

LEMMA TaskType ==
  ASSUME TypeOK, NEW t \in Delivery
  PROVE  /\ task[t].head \in Nat /\ task[t].hi \in Nat /\ task[t].pq \in PQ \cup {NoPQ}
         /\ task[t] = [pq |-> task[t].pq, head |-> task[t].head, hi |-> task[t].hi,
                       step |-> task[t].step, pc |-> task[t].pc]
  BY Zenon DEF TypeOK, TaskRecord

(* The update of the pc of a cycle, as a record. *)
LEMMA CycleExcept ==
  ASSUME TypeOK, NEW c \in Cycle, NEW p
  PROVE  /\ cyc[c] = [pc |-> cyc[c].pc, pq |-> cyc[c].pq] /\ cyc[c].pq \in PQ \cup {NoPQ}
         /\ [cyc[c] EXCEPT !.pc = p] = [pc |-> p, pq |-> cyc[c].pq]
         /\ [cyc EXCEPT ![c].pc = p] = [cyc EXCEPT ![c] = [pc |-> p, pq |-> cyc[c].pq]]
<1>1. cyc[c] = [pc |-> cyc[c].pc, pq |-> cyc[c].pq] /\ cyc[c].pq \in PQ \cup {NoPQ}
  BY Zenon DEF TypeOK, CycleRecord
<1>2. [cyc[c] EXCEPT !.pc = p] = [pc |-> p, pq |-> cyc[c].pq]
  BY <1>1
<1>3. [cyc EXCEPT ![c].pc = p] = [cyc EXCEPT ![c] = [cyc[c] EXCEPT !.pc = p]]
  BY Zenon
<1> QED BY <1>1, <1>2, <1>3, Zenon

(* Tasks hold disjoint sets of deliveries, none beyond the last one. *)
LEMMA TasksDisjoint ==
  ASSUME TypeOK, TaskInv, NEW t \in Delivery, NEW u \in Delivery,
         NEW d \in Int, t <= d, d <= task[t].hi, task[t] # NoTask,
         u <= d, d <= task[u].hi, task[u] # NoTask
  PROVE  t = u /\ d <= delivered /\ d \in Delivery
<1>1. t \in Int /\ u \in Int /\ delivered \in 0..MaxDelivery /\ task[t].hi \in Nat /\ task[u].hi \in Nat
  <2>1. task[t].hi \in Nat /\ task[u].hi \in Nat
    BY TaskType, Zenon
  <2> QED BY <2>1, DeliveryType, Zenon DEF TypeOK
<1>2. task[t].hi <= delivered /\ \A v \in (t + 1)..task[t].hi : task[v] = NoTask
  BY Zenon DEF TaskInv, TaskOK
<1>3. \A v \in (u + 1)..task[u].hi : task[v] = NoTask
  BY Zenon DEF TaskInv, TaskOK
<1>4. ~(t < u)
  BY <1>1, <1>2
<1>5. ~(u < t)
  BY <1>1, <1>3
<1> QED
  BY <1>1, <1>2, <1>4, <1>5, ConsumerConstants DEF Delivery

(* A step that leaves the intervals of all tasks alone leaves the          *)
(* outstanding messages alone.                                             *)
LEMMA OutstandingSame ==
  ASSUME \A u \in Delivery : /\ task'[u].pq = task[u].pq
                             /\ task'[u].head = task[u].head
                             /\ task'[u].hi = task[u].hi,
         NEW pq
  PROVE  Outstanding(pq)' = Outstanding(pq)
  BY Zenon DEF Outstanding

(* pop() takes the head out of the outstanding messages of its process     *)
(* queue and of no other.                                                  *)
LEMMA OutstandingPop ==
  ASSUME TypeOK, TaskInv, NEW t \in Delivery,
         task[t] # NoTask, task[t].head <= task[t].hi,
         \A u \in Delivery \ {t} : task'[u] = task[u],
         task'[t].pq = task[t].pq, task'[t].hi = task[t].hi,
         task'[t].head = task[t].head + 1,
         NEW pq
  PROVE  /\ pq = task[t].pq => /\ task[t].head \in Outstanding(pq)
                               /\ Outstanding(pq)' = Outstanding(pq) \ {task[t].head}
         /\ pq # task[t].pq => Outstanding(pq)' = Outstanding(pq)
<1> DEFINE h == task[t].head
<1>1. /\ t \in Int /\ h \in Nat /\ task[t].hi \in Nat /\ t <= h /\ h <= task[t].hi
      /\ \A u \in Delivery : task[u].head \in Nat /\ task[u].hi \in Nat
  <2>1. ASSUME NEW u \in Delivery PROVE u \in Int /\ task[u].head \in Nat /\ task[u].hi \in Nat
    <3>1. u \in Int BY DeliveryType, Zenon
    <3>2. task[u].head \in Nat BY TaskType, Zenon
    <3>3. task[u].hi \in Nat BY TaskType, Zenon
    <3> QED BY <3>1, <3>2, <3>3, Zenon
  <2>2. t <= h
    BY Zenon DEF TaskInv, TaskOK
  <2> QED BY <2>1, <2>2, Zenon
<1>2. h \in Delivery
  BY <1>1, TasksDisjoint
<1>3. ASSUME NEW u \in Delivery, h \in task[u].head..task[u].hi
      PROVE  u = t
  <2>1. task[u] # NoTask
    BY <1>1, <1>3 DEF NoTask
  <2>2. u <= task[u].head
    BY <2>1, Zenon DEF TaskInv, TaskOK
  <2> QED
    BY <1>1, <1>3, <2>1, <2>2, TasksDisjoint DEF Delivery
<1>4. CASE pq = task[t].pq
  <2>1. h \in Outstanding(pq)
    BY <1>1, <1>2, <1>4 DEF Outstanding
  <2>2. ASSUME NEW d \in Delivery PROVE d \in Outstanding(pq)' <=> d \in Outstanding(pq) /\ d # h
    <3>1. ASSUME NEW u \in Delivery
          PROVE  (task'[u].pq = pq /\ d \in task'[u].head..task'[u].hi)
                   <=> (task[u].pq = pq /\ d \in task[u].head..task[u].hi /\ d # h)
      <4>1. CASE u = t
        BY <1>1, <1>4, <4>1 DEF Delivery
      <4>2. CASE u # t
        BY <1>3, <4>2, Zenon
      <4> QED BY <4>1, <4>2, Zenon
    <3> QED BY <3>1, Zenon DEF Outstanding
  <2>3. Outstanding(pq)' \subseteq Delivery /\ Outstanding(pq) \subseteq Delivery
    BY Zenon DEF Outstanding
  <2> QED BY <1>4, <2>1, <2>2, <2>3, Zenon
<1>5. CASE pq # task[t].pq
  <2>1. ASSUME NEW u \in Delivery
        PROVE  (task'[u].pq = pq /\ TRUE) <=> (task[u].pq = pq)
    BY <1>5, Zenon
  <2>2. ASSUME NEW u \in Delivery, task[u].pq = pq PROVE task'[u] = task[u]
    BY <1>5, <2>2, Zenon
  <2> QED BY <1>5, <2>1, <2>2, Zenon DEF Outstanding
<1> QED BY <1>4, <1>5, Zenon

(* A task that exists starts at a delivery that was made. *)
LEMMA TaskStart ==
  ASSUME TypeOK, TaskInv, NEW t \in Delivery, t > delivered
  PROVE  task[t] = NoTask
<1>1. t \in Int /\ task[t].hi \in Nat /\ delivered \in Nat
  BY DeliveryType, TaskType DEF TypeOK
<1> QED
  BY <1>1 DEF TaskInv, TaskOK

(* dispatch() adds exactly the messages of the batch to the outstanding    *)
(* messages of the process queue they were received for.                   *)
LEMMA OutstandingDispatch ==
  ASSUME TypeOK, TaskInv, NEW pq \in PQ, NEW k \in Nat, dispatch(pq, k), NEW q \in PQ
  PROVE  /\ q = pq => /\ Outstanding(q)' = Outstanding(q) \cup (delivered + 1)..(delivered + k)
                      /\ Outstanding(q) \cap (delivered + 1)..(delivered + k) = {}
         /\ q # pq => Outstanding(q)' = Outstanding(q)
<1> DEFINE first == delivered + 1
           last  == delivered + k
           heads == IF Listener = "FIFO" THEN {first} \cap (first..last) ELSE first..last
           tail(t) == IF Listener = "FIFO" THEN last ELSE t
<1>1. /\ delivered \in Nat /\ first \in Nat /\ last \in Nat /\ last <= MaxDelivery
      /\ Listener \in {"FIFO", "STANDARD"} /\ NoPQ \notin PQ
  BY ConsumerConstants DEF TypeOK, dispatch
<1>2. /\ \A t \in Delivery \ heads : task'[t] = task[t]
      /\ \A t \in Delivery : t \in heads =>
           task'[t] = [pq |-> pq, head |-> t, hi |-> tail(t), step |-> "Consume", pc |-> "queued"]
  BY Zenon DEF dispatch
<1>3. \A t \in Delivery : t \in heads => task[t] = NoTask
  <2> TAKE t \in Delivery
  <2>1. t \in heads => t > delivered
    BY <1>1, DeliveryType
  <2> QED BY <2>1, TaskStart, Zenon
<1>4. ASSUME NEW d \in Delivery, d \in Outstanding(q)
      PROVE  d \in Outstanding(q)' /\ d \notin first..last
  <2>1. PICK u \in Delivery : task[u].pq = q /\ d \in task[u].head..task[u].hi
    BY <1>4, Zenon DEF Outstanding
  <2>2. task[u] # NoTask
    BY <1>1, <2>1 DEF NoTask
  <2>3. task'[u] = task[u]
    BY <1>2, <1>3, <2>2, Zenon
  <2>4. task[u].head \in Nat /\ task[u].hi \in Nat /\ d \in Int
    BY TaskType, DeliveryType, Zenon
  <2>5. task[u].hi <= delivered
    BY <2>2, Zenon DEF TaskInv, TaskOK
  <2>6. d <= task[u].hi /\ task[u].hi <= delivered /\ task[u].hi \in Nat /\ d \in Int
    BY <2>1, <2>4, <2>5
  <2>7. d \notin first..last
    BY <1>1, <2>6
  <2>8. task'[u].pq = q /\ d \in task'[u].head..task'[u].hi
    BY <2>1, <2>3, Zenon
  <2> QED BY <2>7, <2>8, Zenon DEF Outstanding
<1>5. ASSUME NEW d \in Delivery, d \in Outstanding(q)', d \notin Outstanding(q)
      PROVE  q = pq /\ d \in first..last
  <2>1. PICK u \in Delivery : task'[u].pq = q /\ d \in task'[u].head..task'[u].hi
    BY <1>5, Zenon DEF Outstanding
  <2>2. u \in heads
    BY <1>2, <1>5, <2>1, Zenon DEF Outstanding
  <2>3. task'[u] = [pq |-> pq, head |-> u, hi |-> tail(u), step |-> "Consume", pc |-> "queued"]
    BY <1>2, <2>2, Zenon
  <2>4. q = pq /\ d \in u..tail(u)
    BY <2>1, <2>3
  <2>5. d \in first..last
    BY <1>1, <2>2, <2>4, DeliveryType
  <2> QED BY <2>4, <2>5, Zenon
<1>6. ASSUME NEW d \in first..last, q = pq
      PROVE  d \in Outstanding(q)'
  <2>1. d \in Int /\ first <= d /\ d <= last /\ d \in Delivery
    BY <1>1, DeliveryType
  <2>2. CASE Listener = "FIFO"
    <3>1. first \in Delivery /\ first \in heads
      BY <1>1, <2>1, <2>2, DeliveryType
    <3>2. task'[first] = [pq |-> pq, head |-> first, hi |-> last, step |-> "Consume", pc |-> "queued"]
      BY <1>2, <2>2, <3>1, Zenon
    <3>3. task'[first].pq = q /\ d \in task'[first].head..task'[first].hi
      BY <1>6, <3>2
    <3> QED BY <2>1, <3>1, <3>3, Zenon DEF Outstanding
  <2>3. CASE Listener # "FIFO"
    <3>1. task'[d] = [pq |-> pq, head |-> d, hi |-> d, step |-> "Consume", pc |-> "queued"]
      BY <1>2, <2>1, <2>3, Zenon
    <3>2. task'[d].pq = q /\ d \in task'[d].head..task'[d].hi
      BY <1>6, <2>1, <3>1
    <3> QED BY <2>1, <3>2, Zenon DEF Outstanding
  <2> QED BY <2>2, <2>3, Zenon
<1>7. Outstanding(q) \subseteq Delivery /\ Outstanding(q)' \subseteq Delivery
  BY Zenon DEF Outstanding
<1>8. \A d \in first..last : d \in Delivery
  BY <1>1, DeliveryType
<1> QED
  BY <1>4, <1>5, <1>6, <1>7, <1>8, Zenon

-----------------------------------------------------------------------------
(* The initial state satisfies the invariant. *)
LEMMA InitInv == Init => Inv
<1> SUFFICES ASSUME Init PROVE Inv
  BY Zenon
<1>1. TypeOK
  <2>1. NoTask \in TaskRecord /\ NoCycle \in CycleRecord
    BY Zenon DEF NoTask, NoCycle, TaskRecord, CycleRecord
  <2>2. 0 \in 0..UintMax /\ 0 \in 0..MaxDelivery
    BY ConsumerConstants
  <2>3. crashed \in BOOLEAN /\ expired \in [PQ -> BOOLEAN]
    BY Zenon DEF Init
  <2> QED BY <2>1, <2>2, <2>3 DEF Init, TypeOK
<1>2. TaskInv /\ BornInv
  BY Zenon DEF Init, TaskInv, BornInv
<1>3. ReleasedIsSettled
  BY Zenon DEF Init, ReleasedIsSettled, NoTask
<1>4. QuotaExact
  <2>1. \A pq \in PQ : Outstanding(pq) = {}
    BY ConsumerConstants, Zenon DEF Init, Outstanding, NoTask
  <2> QED BY <2>1, FS_EmptySet, Zenon DEF Init, QuotaExact
<1> QED
  BY <1>1, <1>2, <1>3, <1>4, Zenon DEF Inv, Init, ThrottleInv, QueueHasCycle, ClearedForGood

(* Steps of the rebalancer and of a cycle that receive nothing: tasks and  *)
(* counters are as they were.                                              *)
LEMMA TaskSideKept ==
  ASSUME Inv, UNCHANGED <<quotaVars, taskVars>>, born \subseteq born'
  PROVE  TaskInv' /\ QuotaExact' /\ ReleasedIsSettled'
<1> USE DEF quotaVars, taskVars
<1>1. TaskInv'
  BY Zenon DEF Inv, TaskInv, TaskOK, Fifo
<1>2. QuotaExact'
  <2>1. \A pq \in PQ : Outstanding(pq)' = Outstanding(pq)
    BY OutstandingSame, Zenon
  <2> QED BY <2>1, Zenon DEF Inv, QuotaExact
<1>3. ReleasedIsSettled'
  BY Zenon DEF Inv, ReleasedIsSettled, Settled, Fifo
<1> QED BY <1>1, <1>2, <1>3, Zenon

(* Steps of a task: the table and the cycles are as they were. *)
LEMMA TableSideKept ==
  ASSUME Inv, UNCHANGED <<tableVars, cyc>>, \A pq \in PQ \ born : quantity'[pq] = quantity[pq]
  PROVE  BornInv' /\ QueueHasCycle' /\ ClearedForGood'
  BY Zenon DEF Inv, tableVars, BornInv, QueueHasCycle, CyclesOn, ClearedForGood, Active

(* receiveMessage moves an unchecked cycle c to the process queue of the   *)
(* table, or creates a new and empty one.                                  *)
LEMMA ReceiveMessageInv ==
  ASSUME Inv, NEW c \in Cycle, cyc[c].pc \in {"none", "immediate"}, receiveMessage(c),
         UNCHANGED <<state, quotaVars, taskVars>>, sync' \in [Syncer -> {"idle", "start"}],
         UNCHANGED crashed
  PROVE  Inv'
<1> USE DEF quotaVars, taskVars
<1>1. CASE ~Active
  <2>1. cyc' = [cyc EXCEPT ![c] = NoCycle] /\ UNCHANGED <<table, born, expired>>
    BY <1>1, Zenon DEF receiveMessage
  <2>2. TypeOK'
    BY <2>1, Zenon DEF Inv, TypeOK, CycleRecord, NoCycle
  <2>3. BornInv'
    BY <2>1, Zenon DEF Inv, BornInv, TypeOK
  <2>4. ThrottleInv' /\ QueueHasCycle' /\ ClearedForGood'
    BY <1>1, <2>1, Zenon DEF Inv, ThrottleInv, QueueHasCycle, ClearedForGood, Active
  <2>5. born \subseteq born'
    BY <2>1, Zenon
  <2> QED BY <2>2, <2>3, <2>4, <2>5, TaskSideKept, Zenon DEF Inv
<1>2. CASE Active
  <2>1. PICK pq \in PQ :
          /\ IF table = NoPQ THEN pq \notin born ELSE pq = table
          /\ table' = pq /\ born' = born \cup {pq}
          /\ expired' = [expired EXCEPT ![pq] = FALSE]
          /\ cyc' = [cyc EXCEPT ![c] = [pc |-> "pop", pq |-> pq]]
    BY <1>2, Zenon DEF receiveMessage, getOrCreateProcessQueue, popMessage
  <2>2. pq \in PQ /\ table' # NoPQ
    BY <2>1, ConsumerConstants, Zenon DEF Inv, TypeOK
  <2>3. TypeOK'
    BY <2>1, <2>2, Zenon DEF Inv, TypeOK, CycleRecord
  <2>4. BornInv'
    BY <2>1, <2>2, Zenon DEF Inv, BornInv, TypeOK
  <2>5. QueueHasCycle'
    <3>1. cyc'[c].pq = table'
      BY <2>1, Zenon DEF Inv, TypeOK
    <3> QED BY <3>1, Zenon DEF QueueHasCycle, CyclesOn
  <2>6. ClearedForGood'
    BY <1>2, Zenon DEF ClearedForGood, Active
  <2>7. ThrottleInv'
    <3>1. CASE table = NoPQ
      <4>1. quantity'[pq] = 0
        BY <2>1, <3>1, Zenon DEF Inv, BornInv
      <4>2. BatchSize * Cardinality(Unchecked(pq)') \in Nat
        BY UncheckedFinite, BatchMonotone, Zenon
      <4>3. 0 <= Threshold - 1 + BatchSize * Cardinality(Unchecked(pq)')
        BY <4>2, ConsumerConstants
      <4> QED BY <2>1, <4>1, <4>3, Zenon DEF ThrottleInv
    <3>2. CASE table # NoPQ
      <4>1. table' = table
        BY <2>1, <3>2, Zenon
      <4>2. Unchecked(table) \subseteq Unchecked(table)'
        BY <2>1, <4>1, Zenon DEF Inv, TypeOK, Unchecked
      <4>3. quantity'[table] <= quantity[table]
        BY <2>2, <4>1, ConsumerConstants DEF Inv, TypeOK
      <4>4. Active' => Active
        BY <1>2, Zenon
      <4> QED BY <2>3, <4>1, <4>2, <4>3, <4>4, ThrottleKept, Zenon DEF Inv
    <3> QED BY <3>1, <3>2, Zenon
  <2>8. born \subseteq born'
    BY <2>1, Zenon
  <2> QED BY <2>3, <2>4, <2>5, <2>6, <2>7, <2>8, TaskSideKept, Zenon DEF Inv
<1> QED BY <1>1, <1>2, Zenon

(* A step in which a cycle that stays on its process queue, or one whose   *)
(* process queue is not in the table of an active consumer, moves on.      *)
CycleMove(c, r) ==
  /\ cyc[c] # NoCycle
  /\ cyc' = [cyc EXCEPT ![c] = r]
  /\ \/ r.pc # "none" /\ r.pq = cyc[c].pq
     \/ r = NoCycle /\ (Active => table # cyc[c].pq)
  /\ Active /\ table # NoPQ /\ c \in Unchecked(table) =>
       r.pc \in {"check", "later"} \/ quantity[table] <= Threshold - 1
  /\ UNCHANGED <<state, table, born, sync, quotaVars, taskVars, crashed>>
  /\ expired' \in [PQ -> BOOLEAN]

LEMMA CycleMoveInv ==
  ASSUME Inv, NEW c \in Cycle, NEW r \in CycleRecord, CycleMove(c, r)
  PROVE  Inv'
<1>1. /\ UNCHANGED <<state, table, born, sync, quotaVars, taskVars, crashed>>
      /\ UNCHANGED <<quantity, memory>> /\ cyc[c] # NoCycle
      /\ \/ r.pc # "none" /\ r.pq = cyc[c].pq
         \/ r = NoCycle /\ (Active => table # cyc[c].pq)
  BY Zenon DEF CycleMove, quotaVars
<1>2. cyc'[c] = r /\ \A e \in Cycle \ {c} : cyc'[e] = cyc[e]
  BY Zenon DEF Inv, TypeOK, CycleMove
<1>3. TypeOK'
  <2>1. cyc' \in [Cycle -> CycleRecord] /\ expired' \in [PQ -> BOOLEAN]
    BY Zenon DEF Inv, TypeOK, CycleMove
  <2> QED BY <1>1, <2>1, Zenon DEF Inv, TypeOK, quotaVars, taskVars
<1>4. BornInv'
  BY <1>1, <1>2, Zenon DEF Inv, BornInv
<1>5. QueueHasCycle'
  <2>1. SUFFICES ASSUME Active, table # NoPQ PROVE \E e \in Cycle : cyc'[e].pq = table
    BY <1>1, Zenon DEF QueueHasCycle, Active, CyclesOn
  <2>2. PICK e \in Cycle : cyc[e].pq = table
    BY <2>1, Zenon DEF Inv, QueueHasCycle, CyclesOn
  <2>3. cyc'[e].pq = table
    BY <1>1, <1>2, <2>1, <2>2, Zenon
  <2> QED BY <2>3, Zenon DEF CyclesOn
<1>6. ThrottleInv'
  <2>1. SUFFICES ASSUME Active, table # NoPQ
        PROVE  quantity[table] <= Threshold - 1 + BatchSize * Cardinality(Unchecked(table)')
    BY <1>1, Zenon DEF ThrottleInv, Active
  <2>2. CASE quantity[table] <= Threshold - 1
    <3>1. BatchSize * Cardinality(Unchecked(table)') \in Nat
      BY UncheckedFinite, BatchMonotone, Zenon
    <3>2. quantity[table] \in Nat
      BY <2>1, ConsumerConstants DEF Inv, TypeOK
    <3> QED BY <2>2, <3>1, <3>2, ConsumerConstants
  <2>3. CASE ~(quantity[table] <= Threshold - 1)
    <3>1. ASSUME NEW e \in Unchecked(table) PROVE e \in Unchecked(table)'
      <4>1. e \in Cycle /\ cyc[e].pq = table /\ cyc[e].pc \in {"check", "later"}
        BY <3>1, Zenon DEF Unchecked
      <4>2. CASE e # c
        BY <1>1, <1>2, <4>1, <4>2, Zenon DEF Unchecked
      <4>3. CASE e = c
        <5>1. r.pc \in {"check", "later"}
          BY <2>1, <2>3, <3>1, <4>3, Zenon DEF CycleMove
        <5>2. r.pq = table
          BY <1>1, <2>1, <4>1, <4>3, Zenon
        <5> QED BY <1>1, <1>2, <4>1, <4>3, <5>1, <5>2, Zenon DEF Unchecked
      <4> QED BY <4>2, <4>3, Zenon
    <3>2. quantity'[table] <= quantity[table]
      BY <1>1, <2>1, ConsumerConstants DEF Inv, TypeOK
    <3>3. Unchecked(table) \subseteq Unchecked(table)' /\ (Active' => Active)
      BY <1>1, <3>1, <2>1, Zenon DEF Active
    <3>4. ThrottleInv'
      BY <1>1, <1>3, <2>1, <3>2, <3>3, ThrottleKept, Zenon DEF Inv
    <3> QED BY <1>1, <2>1, <3>4, Zenon DEF ThrottleInv, Active
  <2> QED BY <2>2, <2>3, Zenon
<1>7. ClearedForGood'
  BY <1>1, Zenon DEF Inv, ClearedForGood
<1> QED BY <1>1, <1>3, <1>4, <1>5, <1>6, <1>7, TaskSideKept, Zenon DEF Inv

(* Steps that leave the cycles alone and at most erase the table's entry. *)
LEMMA TableStepInv ==
  ASSUME Inv, UNCHANGED <<cyc, born, quotaVars, taskVars, crashed>>,
         table' \in {table, NoPQ}, Active' => Active,
         state' \in {"STARTED", "STOPPING", "CLEARED", "STOPPED"},
         ClearedForGood', sync' \in [Syncer -> {"idle", "start"}],
         expired' \in [PQ -> BOOLEAN]
  PROVE  Inv'
<1> USE DEF quotaVars, taskVars
<1>1. TypeOK'
  BY Zenon DEF Inv, TypeOK
<1>2. BornInv'
  BY Zenon DEF Inv, BornInv
<1>3. QueueHasCycle'
  BY Zenon DEF Inv, QueueHasCycle, CyclesOn
<1>4. ThrottleInv'
  <2>1. table # NoPQ => quantity'[table] <= quantity[table]
    BY ConsumerConstants DEF Inv, TypeOK
  <2>2. CASE table' = table
    <3>1. Unchecked(table) \subseteq Unchecked(table)'
      BY <2>2, Zenon DEF Unchecked
    <3> QED BY <1>1, <2>1, <3>1, ThrottleKept, Zenon DEF Inv
  <2>3. CASE table' = NoPQ
    BY <2>3, Zenon DEF ThrottleInv
  <2> QED BY <2>2, <2>3, Zenon
<1> QED BY <1>1, <1>2, <1>3, <1>4, TaskSideKept, Zenon DEF Inv

-----------------------------------------------------------------------------
(* Consume tasks. *)


(* A step in which a task changes what it is doing and holds on to its     *)
(* messages.                                                               *)
TaskMove(t, k) ==
  /\ task[t] # NoTask
  /\ task' = [task EXCEPT ![t] = k]
  /\ k.pq = task[t].pq /\ k.head = task[t].head /\ k.hi = task[t].hi /\ k.pc # "none"
  /\ k.pc \in {"queued", "running", "acking", "nacking"} => k.step = "Consume"
  /\ k.pc \in {"running", "acking", "nacking", "dropped"} => k.head <= k.hi
  /\ k.pc = "acking" => result'[k.head] = "SUCCESS"
  /\ k.pc = "nacking" => result'[k.head] = "FAILURE" /\ ~(k.hi > t)
  /\ \A d \in Delivery : d # task[t].head => result'[d] = result[d] /\ broker'[d] = broker[d]
  /\ task[t].head > task[t].hi => UNCHANGED <<result, broker>>
  /\ result' \in [Delivery -> {"none", "SUCCESS", "FAILURE"}]
  /\ broker' \in [Delivery -> {"inflight", "acked", "nacked"}]
  /\ settled \subseteq settled' /\ settled' \in SUBSET Delivery
  /\ crashed' \in BOOLEAN
  /\ UNCHANGED <<tableVars, quotaVars, cyc, delivered>>

LEMMA TaskMoveInv ==
  ASSUME Inv, NEW t \in Delivery, NEW k \in TaskRecord, TaskMove(t, k)
  PROVE  Inv'
<1>1. /\ task'[t] = k /\ \A u \in Delivery \ {t} : task'[u] = task[u]
      /\ task[t] # NoTask
      /\ k.pq = task[t].pq /\ k.head = task[t].head /\ k.hi = task[t].hi /\ k.pc # "none"
      /\ UNCHANGED <<born, delivered>> /\ settled \subseteq settled'
  BY DEF Inv, TypeOK, TaskMove, tableVars
<1>2. TypeOK'
  BY Zenon DEF Inv, TypeOK, TaskMove, tableVars, quotaVars
<1>3. /\ t \in Int /\ task[t].head \in Nat /\ task[t].hi \in Nat
      /\ t <= task[t].head /\ task[t].head <= task[t].hi + 1 /\ t <= task[t].hi
      /\ task[t].hi <= delivered /\ \A u \in (t + 1)..task[t].hi : task[u] = NoTask
      /\ task[t].pq \in born
  <2>1. task[t].head \in Nat /\ task[t].hi \in Nat
    BY TaskType, Zenon DEF Inv
  <2>2. t \in Int
    BY DeliveryType, Zenon
  <2> QED BY <1>1, <2>1, <2>2, Zenon DEF Inv, TaskInv, TaskOK
<1>4. ASSUME NEW u \in Delivery, u # t, task[u] # NoTask, NEW d \in u..task[u].hi
      PROVE  result'[d] = result[d] /\ broker'[d] = broker[d]
  <2>1. u \in Int /\ d \in Int /\ u <= d /\ d <= task[u].hi
    BY DeliveryType, TaskType DEF Inv
  <2>2. d \in Delivery
    BY <1>4, <2>1, TasksDisjoint, Zenon DEF Inv
  <2>3. CASE task[t].head <= task[t].hi
    <3>1. d # task[t].head
      BY <1>1, <1>3, <1>4, <2>1, <2>3, TasksDisjoint DEF Inv
    <3> QED BY <2>2, <3>1, Zenon DEF TaskMove
  <2>4. CASE task[t].head > task[t].hi
    BY <2>4, Zenon DEF TaskMove
  <2> QED BY <1>3, <2>3, <2>4
<1>5. TaskInv'
  <2> SUFFICES ASSUME NEW u \in Delivery, task'[u] # NoTask PROVE TaskOK(u)'
    BY Zenon DEF TaskInv
  <2>1. CASE u = t
    <3>1. \A v \in (t + 1)..task[t].hi : v # t /\ task'[v] = NoTask
      <4> TAKE v \in (t + 1)..task[t].hi
      <4>1. v \in Int /\ v > t /\ task[v] = NoTask
        BY <1>3
      <4>2. v \in Delivery
        BY <1>3, <4>1, DeliveryType DEF Inv, TypeOK
      <4> QED BY <1>1, <4>1, <4>2, Zenon
    <3> QED BY <1>1, <1>3, <2>1, <3>1 DEF TaskOK, Fifo, TaskMove
  <2>2. CASE u # t
    <3>1. task'[u] = task[u] /\ task[u] # NoTask
      BY <1>1, <2>2, Zenon
    <3>2. TaskOK(u)
      BY <3>1, Zenon DEF Inv, TaskInv
    <3>3. \A v \in (u + 1)..task[u].hi : task'[v] = NoTask
      <4> TAKE v \in (u + 1)..task[u].hi
      <4>1. task[v] = NoTask /\ task[u].hi <= delivered
        BY <3>2, Zenon DEF TaskOK
      <4>2. u \in Int /\ task[u].hi \in Nat
        BY DeliveryType, TaskType, Zenon DEF Inv
      <4>3. v \in Delivery
        BY <4>1, <4>2, DeliveryType DEF Inv, TypeOK
      <4> QED BY <1>1, <4>1, <4>3, Zenon
    <3>4. task[u].head <= task[u].hi => result'[task[u].head] = result[task[u].head]
      <4>1. u \in Int /\ task[u].hi \in Nat /\ task[u].head \in Nat
        BY DeliveryType, TaskType, ZenonT(60) DEF Inv
      <4>2. u <= task[u].head
        BY <3>2, Zenon DEF TaskOK
      <4> QED BY <1>4, <2>2, <3>1, <4>1, <4>2
    <3> QED BY <1>1, <3>1, <3>2, <3>3, <3>4, Zenon DEF TaskOK, Fifo
  <2> QED BY <2>1, <2>2, Zenon
<1>6. ReleasedIsSettled'
  <2> SUFFICES ASSUME NEW u \in Delivery, task'[u].pc # "none", NEW d \in u..(task'[u].head - 1)
      PROVE  Settled(u, d)'
    BY Zenon DEF ReleasedIsSettled
  <2>1. /\ task'[u].head = task[u].head /\ task'[u].hi = task[u].hi
        /\ task[u] # NoTask /\ task[u].pc # "none"
    <3>1. CASE u = t
      BY <1>1, <3>1, Zenon DEF Inv, TaskInv, TaskOK
    <3>2. CASE u # t
      <4>1. task'[u] = task[u]
        BY <1>1, <3>2, Zenon
      <4> QED BY <4>1, NotNone, Zenon
    <3> QED BY <3>1, <3>2, ZenonT(60)
  <2>2. Settled(u, d)
    BY <2>1, Zenon DEF Inv, ReleasedIsSettled
  <2>3. u \in Int /\ task[u].head \in Nat /\ task[u].hi \in Nat
    BY DeliveryType, TaskType, Zenon DEF Inv
  <2>4. task[u].head <= task[u].hi + 1
    BY <2>1, Zenon DEF Inv, TaskInv, TaskOK
  <2>5. d \in Int /\ u <= d /\ d < task[u].head /\ d <= task[u].hi
    BY <2>1, <2>3, <2>4
  <2>6. result'[d] = result[d] /\ broker'[d] = broker[d]
    <3>1. CASE u = t
      <4>1. d \in Delivery
        BY <2>2, Zenon DEF Inv, TypeOK, Settled
      <4> QED BY <2>5, <3>1, <4>1, <2>3 DEF TaskMove
    <3>2. CASE u # t
      <4>1. d \in u..task[u].hi
        BY <2>3, <2>5
      <4> QED BY <1>4, <2>1, <3>2, <4>1, Zenon
    <3> QED BY <3>1, <3>2, Zenon
  <2> QED BY <1>1, <2>1, <2>2, <2>6, Zenon DEF Settled, Fifo
<1>7. QuotaExact'
  <2>1. \A u \in Delivery : /\ task'[u].pq = task[u].pq
                            /\ task'[u].head = task[u].head /\ task'[u].hi = task[u].hi
    BY <1>1, Zenon
  <2>2. \A pq \in PQ : Outstanding(pq)' = Outstanding(pq)
    BY <2>1, OutstandingSame, Zenon
  <2> QED BY <2>2 DEF Inv, QuotaExact, TaskMove, quotaVars
<1>8. ThrottleInv'
  BY Zenon DEF Inv, ThrottleInv, Active, Unchecked, TaskMove, tableVars, quotaVars
<1>9. UNCHANGED <<tableVars, cyc>> /\ \A pq \in PQ \ born : quantity'[pq] = quantity[pq]
  BY Zenon DEF TaskMove, quotaVars
<1> QED BY <1>2, <1>5, <1>6, <1>7, <1>8, <1>9, TableSideKept, Zenon DEF Inv

(* pop() of a task whose process queue is alive: the head is released. *)
PopStep(t, k) ==
  /\ task[t] # NoTask /\ task[t].head <= task[t].hi
  /\ task' = [task EXCEPT ![t] = k]
  /\ k.pq = task[t].pq /\ k.head = task[t].head + 1 /\ k.hi = task[t].hi
  /\ k.step = "Consume" /\ k.pc = "queued"
  /\ release(task[t].pq, task[t].head)
  /\ settled' = settled \cup {task[t].head}
  /\ broker' \in [Delivery -> {"inflight", "acked", "nacked"}]
  /\ \A d \in Delivery : d # task[t].head => broker'[d] = broker[d]
  /\ \/ result[task[t].head] = "SUCCESS" /\ broker'[task[t].head] = "acked"
     \/ result[task[t].head] = "FAILURE" /\ broker'[task[t].head] = "nacked" /\ ~Fifo(t)
  /\ UNCHANGED <<tableVars, cyc, delivered, result, crashed>>

LEMMA PopInv ==
  ASSUME Inv, NEW t \in Delivery, NEW k \in TaskRecord, PopStep(t, k),
         NEW h, NEW p, h = task[t].head, p = task[t].pq
  PROVE  Inv'
<1>1. /\ TypeOK /\ TaskInv /\ TaskOK(t) /\ task[t] # NoTask /\ h <= task[t].hi
      /\ UNCHANGED <<state, table, born, cyc, delivered, result>>
  BY Zenon DEF Inv, TaskInv, PopStep, tableVars
<1>2. /\ t \in Int /\ h \in Nat /\ task[t].hi \in Nat /\ t <= h /\ h <= task[t].hi
      /\ task[t].hi <= delivered /\ p \in born /\ p \in PQ
  <2>1. t \in Int BY DeliveryType, Zenon
  <2>2. h \in Nat /\ task[t].hi \in Nat BY <1>1, TaskType, Zenon
  <2>3. p \in PQ BY <1>1, Zenon DEF TaskOK, TypeOK
  <2> QED BY <1>1, <2>1, <2>2, <2>3, Zenon DEF TaskOK
<1>3. h \in Delivery
  BY <1>1, <1>2, TasksDisjoint
<1>4. task'[t] = k /\ \A u \in Delivery \ {t} : task'[u] = task[u]
  BY <1>1, Zenon DEF TypeOK, PopStep
<1>5. /\ task'[t].pq = p /\ task'[t].hi = task[t].hi /\ task'[t].head = h + 1
      /\ task'[t].pc = "queued" /\ task'[t].step = "Consume"
  BY <1>4, Zenon DEF PopStep
<1>6. task' \in [Delivery -> TaskRecord]
  BY <1>1, Zenon DEF TypeOK, PopStep
<1>7. ASSUME NEW pq \in PQ
      PROVE  /\ pq = p => h \in Outstanding(pq) /\ Outstanding(pq)' = Outstanding(pq) \ {h}
             /\ pq # p => Outstanding(pq)' = Outstanding(pq)
  BY <1>1, <1>4, <1>5, OutstandingPop, Zenon
<1>8. /\ Cardinality(Outstanding(p)') = quantity[p] - 1
      /\ quantity[p] \in Nat /\ quantity[p] >= 1 /\ quantity[p] <= MaxDelivery
  <2>1. Outstanding(p)' = Outstanding(p) \ {h} /\ h \in Outstanding(p)
    BY <1>1, <1>4, <1>5, OutstandingPop, Zenon
  <2>2. /\ Cardinality(Outstanding(p)') = Cardinality(Outstanding(p)) - 1
        /\ quantity[p] = Cardinality(Outstanding(p))
    <3>1. Cardinality(Outstanding(p) \ {h}) = Cardinality(Outstanding(p)) - 1
      BY <2>1, OutstandingFinite, FS_RemoveElement, ZenonT(60)
    <3>2. quantity[p] = Cardinality(Outstanding(p))
      BY <1>2, Zenon DEF Inv, QuotaExact
    <3> QED BY <2>1, <3>1, <3>2, Zenon
  <2>3. Cardinality(Outstanding(p)) \in Nat /\ Cardinality(Outstanding(p)) <= MaxDelivery
    BY OutstandingFinite, Zenon
  <2>4. Cardinality(Outstanding(p)') \in Nat
    BY OutstandingFinite, Zenon
  <2> QED BY <2>2, <2>3, <2>4
<1>9. /\ quantity' = [quantity EXCEPT ![p] = quantity[p] - 1]
      /\ memory' = [memory EXCEPT ![p] = FetchSub(memory[p], Bytes[h] - Bytes[h - 1])]
  BY <1>8, Zenon DEF release, FetchSub, PopStep
<1>10. TypeOK'
  <2>1. quantity' \in [PQ -> 0..UintMax]
    <3>1. \A n \in Nat : n >= 1 /\ n <= MaxDelivery => n - 1 \in 0..UintMax
      BY NatConstants
    <3>2. quantity[p] - 1 \in 0..UintMax
      BY <1>8, <3>1, Zenon
    <3> QED BY <1>1, <1>9, <3>2, Zenon DEF TypeOK
  <2>2. Bytes[h] \in Int /\ Bytes[h - 1] \in Int
    BY <1>3, BytesType, Zenon
  <2>3. FetchSub(memory[p], Bytes[h] - Bytes[h - 1]) \in Int
    <3>1. memory[p] \in Int
      BY <1>1, <1>2, Zenon DEF TypeOK
    <3>2. \A m \in Int, n \in Int : FetchSub(m, n) \in Int
      BY NatConstants DEF FetchSub
    <3>3. Bytes[h] - Bytes[h - 1] \in Int
      BY <2>2
    <3> QED BY <3>1, <3>2, <3>3, Zenon
  <2>4. memory' \in [PQ -> Int]
    BY <1>1, <1>9, <2>3, Zenon DEF TypeOK
  <2>5. settled' \in SUBSET Delivery
    BY <1>1, <1>3, Zenon DEF TypeOK, PopStep
  <2> QED BY <1>1, <1>6, <2>1, <2>4, <2>5 DEF TypeOK, PopStep, tableVars
<1>11. TaskInv'
  <2> SUFFICES ASSUME NEW u \in Delivery, task'[u] # NoTask PROVE TaskOK(u)'
    BY Zenon DEF TaskInv
  <2>1. ASSUME NEW v \in Delivery, task[v] = NoTask PROVE task'[v] = NoTask
    BY <1>1, <1>4, <2>1, Zenon
  <2>2. task[u] # NoTask
    BY <2>1, Zenon
  <2>3. TaskOK(u) /\ u \in Int /\ task[u].hi \in Nat
    BY <1>1, <2>2, DeliveryType, TaskType, Zenon DEF TaskInv
  <2>4. \A v \in (u + 1)..task[u].hi : task'[v] = NoTask
    <3> TAKE v \in (u + 1)..task[u].hi
    <3>1. task[v] = NoTask /\ v \in Delivery
      BY <1>1, <2>3, DeliveryType DEF TaskOK, TypeOK
    <3> QED BY <2>1, <3>1, Zenon
  <2>5. CASE u = t
    <3>1. task[t].hi + 1 >= h + 1 /\ t <= h + 1
      BY <1>2
    <3>2. t <= task[t].hi
      BY <1>2
    <3> QED BY <1>1, <1>2, <1>5, <2>4, <2>5, <3>1, <3>2, Zenon DEF TaskOK, Fifo
  <2>6. CASE u # t
    <3>1. task'[u] = task[u]
      BY <1>4, <2>6, Zenon
    <3> QED BY <1>1, <2>3, <2>4, <3>1, Zenon DEF TaskOK, Fifo
  <2> QED BY <2>5, <2>6, Zenon
<1>12. ReleasedIsSettled'
  <2> SUFFICES ASSUME NEW u \in Delivery, task'[u].pc # "none", NEW d \in u..(task'[u].head - 1)
      PROVE  Settled(u, d)'
    BY Zenon DEF ReleasedIsSettled
  <2>1. u \in Int /\ task[u].head \in Nat /\ task[u].hi \in Nat
    BY <1>1, DeliveryType, TaskType, Zenon
  <2>2. task[u].pc # "none" /\ task'[u].hi = task[u].hi
    BY <1>1, <1>4, <1>5, ZenonT(60) DEF TaskOK
  <2>3. CASE u = t /\ d = h
    BY <1>1, <1>5, <2>3, Zenon DEF Settled, Fifo, PopStep
  <2>4. CASE ~(u = t /\ d = h)
    <3>1. d \in u..(task[u].head - 1)
      <4>1. CASE u = t
        BY <1>2, <1>5, <2>4, <4>1
      <4>2. CASE u # t
        BY <1>4, <4>2, Zenon
      <4> QED BY <4>1, <4>2, Zenon
    <3>2. Settled(u, d)
      BY <2>2, <3>1, Zenon DEF Inv, ReleasedIsSettled
    <3>3. d # h
      <4>1. CASE u = t
        BY <2>4, <4>1, Zenon
      <4>2. CASE u # t
        <5>1. TaskOK(u) /\ task[u] # NoTask
          BY <1>1, <2>2, NotNone, Zenon DEF TaskInv
        <5>2. u <= d /\ d <= task[u].hi /\ d \in Int
          BY <2>1, <3>1, <5>1 DEF TaskOK
        <5> QED BY <1>1, <1>2, <4>2, <5>1, <5>2, TasksDisjoint, ZenonT(60)
      <4> QED BY <4>1, <4>2, Zenon
    <3>4. d \in Delivery
      BY <1>1, <3>2, Zenon DEF Settled, TypeOK
    <3> QED BY <1>1, <2>2, <3>2, <3>3, <3>4, Zenon DEF Settled, Fifo, PopStep
  <2> QED BY <2>3, <2>4, Zenon
<1>13. QuotaExact'
  <2> SUFFICES ASSUME NEW pq \in PQ PROVE quantity'[pq] = Cardinality(Outstanding(pq)')
    BY Zenon DEF QuotaExact
  <2>1. CASE pq = p
    <3>1. quantity'[p] = quantity[p] - 1
      BY <1>1, <1>2, <1>9, Zenon DEF TypeOK
    <3> QED BY <1>8, <2>1, <3>1, Zenon
  <2>2. CASE pq # p
    <3>1. Outstanding(pq)' = Outstanding(pq)
      BY <1>7, <2>2, Zenon
    <3> QED BY <1>1, <1>9, <2>2, <3>1, Zenon DEF Inv, QuotaExact, TypeOK
  <2> QED BY <2>1, <2>2, Zenon
<1>14. ThrottleInv'
  <2>1. table # NoPQ => quantity'[table] <= quantity[table]
    <3>1. CASE table = p
      BY <1>1, <1>2, <1>8, <1>9, <3>1 DEF TypeOK
    <3>2. CASE table # p /\ table # NoPQ
      <4>1. quantity'[table] = quantity[table] /\ quantity[table] \in 0..UintMax
        BY <1>1, <1>9, <3>2, Zenon DEF TypeOK
      <4>2. \A n \in 0..UintMax : n <= n
        BY NatConstants
      <4> QED BY <4>1, <4>2, Zenon
    <3> QED BY <3>1, <3>2, Zenon
  <2>2. Unchecked(table) \subseteq Unchecked(table)'
    BY <1>1, ZenonT(60) DEF Unchecked
  <2>3. Active' => Active
    BY <1>1, Zenon DEF Active
  <2> QED BY <1>1, <1>10, <2>1, <2>2, <2>3, ThrottleKept, Zenon DEF Inv
<1>15. \A pq \in PQ \ born : quantity'[pq] = quantity[pq]
  BY <1>1, <1>2, <1>9, Zenon DEF TypeOK
<1>16. UNCHANGED <<tableVars, cyc>>
  BY Zenon DEF PopStep
<1> QED BY <1>10, <1>11, <1>12, <1>13, <1>14, <1>15, <1>16, TableSideKept, Zenon DEF Inv
=============================================================================
