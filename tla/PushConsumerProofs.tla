------------------------- MODULE PushConsumerProofs -------------------------
(***************************************************************************)
(* Proofs of the safety properties of PushConsumer for every number of     *)
(* process queues, cycles and deliveries, every threshold and batch size,  *)
(* and both listener types.                                                *)
(***************************************************************************)
EXTENDS PushConsumerSteps

(* The response to a pop request: a batch is dispatched and its cycle is   *)
(* one that has not passed a check.                                        *)
LEMMA OnCompletionInv ==
  ASSUME Inv, NEW c \in Cycle, NEW k \in 0..BatchSize, onCompletion(c, k),
         NEW p, p = cyc[c].pq
  PROVE  Inv'
<1> DEFINE batch == (delivered + 1)..(delivered + k)
<1> USE DEF tableVars
<1>1. /\ TypeOK /\ TaskInv /\ BornInv /\ QuotaExact /\ ThrottleInv
      /\ k \in Nat /\ k <= BatchSize /\ BatchSize \in Nat
  BY ConsumerConstants DEF Inv
<1>2. /\ cyc[c].pc = "pop" /\ Active /\ dispatch(p, k)
      /\ cyc' = [cyc EXCEPT ![c].pc = "check"]
      /\ UNCHANGED <<tableVars, result, broker, settled, crashed>>
  BY Zenon DEF onCompletion, NoCrash
<1>3. p \in born /\ p \in PQ
  BY <1>1, <1>2 DEF BornInv, NoCycle, TypeOK
<1>4. /\ delivered \in Nat /\ delivered + k \in 0..MaxDelivery /\ delivered' = delivered + k
      /\ \A t \in Delivery : t > delivered => task[t] = NoTask
  BY <1>1, <1>2, TaskStart DEF dispatch, TypeOK
<1>5. ASSUME NEW t \in Delivery
      PROVE  \/ task'[t] = task[t]
             \/ \E hi \in Nat : /\ task[t] = NoTask /\ t <= hi /\ hi <= delivered'
                                /\ task'[t] = [pq |-> p, head |-> t, hi |-> hi,
                                                step |-> "Consume", pc |-> "queued"]
                                /\ \A u \in (t + 1)..hi : task'[u] = NoTask
  <2>1. t \in Int /\ 1 <= t /\ t <= MaxDelivery
    BY DeliveryType, Zenon
  <2>2. CASE Listener = "FIFO"
    <3>1. CASE t = delivered + 1 /\ k # 0
      <4>1. task'[t] = [pq |-> p, head |-> t, hi |-> delivered + k, step |-> "Consume", pc |-> "queued"]
        BY <1>1, <1>2, <1>4, <2>2, <3>1 DEF dispatch
      <4>2. \A u \in (t + 1)..(delivered + k) : task'[u] = NoTask
        <5> TAKE u \in (t + 1)..(delivered + k)
        <5>1. u \in Delivery /\ u # t /\ u > delivered
          BY <1>1, <1>4, <2>1, <3>1, DeliveryType
        <5>2. task'[u] = task[u]
          BY <1>2, <2>2, <3>1, <5>1, Zenon DEF dispatch
        <5> QED BY <1>4, <5>1, <5>2, Zenon
      <4>3. task[t] = NoTask /\ t <= delivered + k /\ delivered + k \in Nat
        BY <1>1, <1>4, <2>1, <3>1
      <4>4. delivered + k <= delivered'
        BY <1>4, <4>3
      <4> QED BY <4>1, <4>2, <4>3, <4>4, Zenon
    <3>2. CASE ~(t = delivered + 1 /\ k # 0)
      <4>1. t \notin {delivered + 1} \cap batch
        BY <1>1, <1>4, <2>1, <3>2
      <4> QED BY <1>2, <2>2, <4>1, Zenon DEF dispatch
    <3> QED BY <3>1, <3>2, Zenon
  <2>3. CASE Listener # "FIFO"
    <3>1. CASE t \in batch
      <4>1. task'[t] = [pq |-> p, head |-> t, hi |-> t, step |-> "Consume", pc |-> "queued"]
        BY <1>2, <2>3, <3>1, Zenon DEF dispatch
      <4>2. task[t] = NoTask /\ t \in Nat /\ t <= delivered'
        BY <1>1, <1>4, <2>1, <3>1
      <4>3. (t + 1)..t = {}
        BY <2>1
      <4> QED BY <2>1, <4>1, <4>2, <4>3
    <3>2. CASE t \notin batch
      BY <1>2, <2>3, <3>2, Zenon DEF dispatch
    <3> QED BY <3>1, <3>2, Zenon
  <2> QED BY <2>2, <2>3, Zenon
<1>6. \A t \in Delivery : task[t] # NoTask => task'[t] = task[t]
  BY <1>5, Zenon
<1>7. \A t \in Delivery : task'[t] \in TaskRecord
  <2> TAKE t \in Delivery
  <2>1. t \in Nat
    BY DeliveryType, Zenon
  <2>2. \A hi \in Nat : [pq |-> p, head |-> t, hi |-> hi, step |-> "Consume", pc |-> "queued"]
                          \in TaskRecord
    BY <1>3, <2>1, Zenon DEF TaskRecord
  <2>3. task[t] \in TaskRecord
    BY <1>1, Zenon DEF TypeOK
  <2> QED BY <1>5, <2>2, <2>3, Zenon
<1>8. \A pq \in PQ : quantity'[pq] = Cardinality(Outstanding(pq)')
  <2> TAKE pq \in PQ
  <2>1. quantity[pq] = Cardinality(Outstanding(pq))
    BY <1>1, Zenon DEF QuotaExact
  <2>2. quantity' = [quantity EXCEPT ![p] = @ + k]
    BY <1>2, Zenon DEF dispatch, accountCache
  <2>3. CASE pq # p
    <3>1. Outstanding(pq)' = Outstanding(pq)
      BY <1>1, <1>2, <1>3, <2>3, OutstandingDispatch, Zenon
    <3>2. quantity'[pq] = quantity[pq]
      BY <1>1, <2>2, <2>3, Zenon DEF TypeOK
    <3> QED BY <2>1, <3>1, <3>2, Zenon
  <2>4. CASE pq = p
    <3>1. Outstanding(pq)' = Outstanding(pq) \cup batch /\ Outstanding(pq) \cap batch = {}
      BY <1>1, <1>2, <1>3, <2>4, OutstandingDispatch, Zenon
    <3>2. IsFiniteSet(batch) /\ Cardinality(batch) = k
      <4>1. delivered + 1 \in Int /\ delivered + k \in Int
        BY <1>1, <1>4
      <4>2. /\ IsFiniteSet(batch)
            /\ Cardinality(batch) = IF delivered + 1 > delivered + k THEN 0
                                    ELSE (delivered + k) - (delivered + 1) + 1
        BY <4>1, FS_Interval, Zenon
      <4> QED BY <1>1, <1>4, <4>2
    <3>3. Cardinality(Outstanding(pq) \cup batch)
            = Cardinality(Outstanding(pq)) + Cardinality(batch) - Cardinality(Outstanding(pq) \cap batch)
      BY <3>2, OutstandingFinite, FS_Union, Zenon
    <3>4. Cardinality(Outstanding(pq) \cap batch) = 0
      BY <3>1, FS_EmptySet, Zenon
    <3>5. Cardinality(Outstanding(pq)') = quantity[pq] + k
      BY <1>1, <2>1, <3>1, <3>2, <3>3, <3>4, OutstandingFinite
    <3>6. quantity'[pq] = quantity[pq] + k
      BY <1>1, <2>2, <2>4, Zenon DEF TypeOK
    <3> QED BY <3>5, <3>6, Zenon
  <2> QED BY <2>3, <2>4, Zenon
<1>9. /\ cyc'[c] = [pc |-> "check", pq |-> p] /\ cyc' \in [Cycle -> CycleRecord]
      /\ \A e \in Cycle \ {c} : cyc'[e] = cyc[e]
  BY <1>1, <1>2, Zenon DEF TypeOK, CycleRecord
<1>10. TypeOK'
  <2>1. quantity' \in [PQ -> 0..UintMax]
    <3>1. \A pq \in PQ : quantity'[pq] \in 0..UintMax
      BY <1>8, OutstandingFinite, ConsumerConstants
    <3>2. quantity' = [quantity EXCEPT ![p] = quantity[p] + k]
      BY <1>2, Zenon DEF dispatch, accountCache
    <3>3. DOMAIN quantity' = PQ /\ quantity' = [x \in DOMAIN quantity' |-> quantity'[x]]
      BY <1>1, <3>2, Zenon DEF TypeOK
    <3> QED BY <3>1, <3>3, Zenon
  <2>2. memory' \in [PQ -> Int]
    <3>1. memory' = [memory EXCEPT ![p] = memory[p] + Bytes[delivered + k] - Bytes[delivered]]
      BY <1>2, Zenon DEF dispatch, accountCache
    <3>2. Bytes[delivered + k] \in Nat /\ Bytes[delivered] \in Nat
      BY <1>1, <1>4, ConsumerConstants, Zenon DEF TypeOK
    <3>3. memory[p] + Bytes[delivered + k] - Bytes[delivered] \in Int
      BY <1>1, <1>3, <3>2 DEF TypeOK
    <3> QED BY <1>1, <3>1, <3>3, Zenon DEF TypeOK
  <2>3. task' \in [Delivery -> TaskRecord]
    <3>1. task' = [t \in Delivery |-> task'[t]]
      BY <1>2, Zenon DEF dispatch
    <3> QED BY <1>7, <3>1, Zenon
  <2> QED BY <1>1, <1>2, <1>4, <1>9, <2>1, <2>2, <2>3, Zenon DEF TypeOK
<1>11. TaskInv'
  <2> SUFFICES ASSUME NEW t \in Delivery, task'[t] # NoTask PROVE TaskOK(t)'
    BY Zenon DEF TaskInv
  <2>1. t \in Nat
    BY DeliveryType, Zenon
  <2>2. CASE task'[t] = task[t]
    <3>1. TaskOK(t) /\ task[t].hi \in Nat
      BY <1>1, <2>2, TaskType, Zenon DEF TaskInv
    <3>2. \A u \in (t + 1)..task[t].hi : task'[u] = NoTask
      <4> TAKE u \in (t + 1)..task[t].hi
      <4>1. u \in Int /\ u <= delivered /\ task[u] = NoTask /\ u \in Delivery
        BY <1>4, <2>1, <3>1, DeliveryType DEF TaskOK
      <4>2. task'[u] = task[u]
        <5>1. u \notin batch
          BY <1>1, <1>4, <4>1
        <5> QED BY <1>2, <4>1, <5>1, Zenon DEF dispatch
      <4> QED BY <4>1, <4>2, Zenon
    <3>3. task[t].hi <= delivered'
      BY <1>1, <1>4, <3>1 DEF TaskOK
    <3> QED BY <1>2, <2>2, <3>1, <3>2, <3>3, Zenon DEF TaskOK, Fifo
  <2>3. CASE task'[t] # task[t]
    <3>1. PICK hi \in Nat : /\ task[t] = NoTask /\ t <= hi /\ hi <= delivered'
                            /\ task'[t] = [pq |-> p, head |-> t, hi |-> hi,
                                            step |-> "Consume", pc |-> "queued"]
                            /\ \A u \in (t + 1)..hi : task'[u] = NoTask
      BY <1>5, <2>3, Zenon
    <3>2. t <= t /\ t <= hi + 1
      <4>1. \A m, n \in Nat : m <= n => m <= m /\ m <= n + 1
        OBVIOUS
      <4> QED BY <2>1, <3>1, <4>1, Zenon
    <3> QED BY <1>2, <1>3, <3>1, <3>2 DEF TaskOK, Fifo
  <2> QED BY <2>2, <2>3, Zenon
<1>12. ReleasedIsSettled'
  <2> SUFFICES ASSUME NEW t \in Delivery, task'[t].pc # "none", NEW d \in t..(task'[t].head - 1)
      PROVE  Settled(t, d)'
    BY Zenon DEF ReleasedIsSettled
  <2>1. CASE task'[t] = task[t]
    <3>1. Settled(t, d)
      BY <2>1, Zenon DEF Inv, ReleasedIsSettled
    <3> QED BY <1>2, <2>1, <3>1, Zenon DEF Settled, Fifo
  <2>2. CASE task'[t] # task[t]
    <3>1. PICK hi \in Nat : task'[t] = [pq |-> p, head |-> t, hi |-> hi,
                                        step |-> "Consume", pc |-> "queued"]
      BY <1>5, <2>2, Zenon
    <3>2. task'[t].head = t
      BY <3>1, NewTaskHead, ZenonT(60)
    <3> QED BY <3>2, DeliveryType
  <2> QED BY <2>1, <2>2, Zenon
<1>13. QuotaExact'
  BY <1>8, Zenon DEF QuotaExact
<1>14. ThrottleInv'
  <2> DEFINE n == Cardinality(Unchecked(table))
             m == Cardinality(Unchecked(table)')
  <2> SUFFICES ASSUME table # NoPQ PROVE quantity'[table] <= Threshold - 1 + BatchSize * m
    BY <1>2, Zenon DEF ThrottleInv
  <2>1. /\ quantity[table] <= Threshold - 1 + BatchSize * n
        /\ table \in PQ /\ quantity[table] \in Nat
    <3>1. quantity[table] <= Threshold - 1 + BatchSize * n
      BY <1>1, <1>2, Zenon DEF ThrottleInv
    <3> QED BY <1>1, <3>1, ConsumerConstants DEF TypeOK
  <2>2. n \in Nat /\ m \in Nat /\ BatchSize * n \in Nat /\ BatchSize * m \in Nat
    BY UncheckedFinite, BatchMonotone, Zenon
  <2>3. quantity' = [quantity EXCEPT ![p] = @ + k]
    BY <1>2, Zenon DEF dispatch, accountCache
  <2>4. CASE table = p
    <3>1. Unchecked(table)' = Unchecked(table) \cup {c} /\ c \notin Unchecked(table)
      BY <1>2, <1>9, <2>4 DEF Unchecked
    <3>2. m = n + 1
      BY <3>1, UncheckedFinite, FS_AddElement, ZenonT(60)
    <3>3. BatchSize * m = BatchSize * n + BatchSize
      BY <2>2, <3>2, BatchMonotone, Zenon
    <3>4. quantity'[table] = quantity[table] + k
      BY <1>1, <2>1, <2>3, <2>4, Zenon DEF TypeOK
    <3>5. ASSUME NEW q \in Nat, NEW x \in Nat, q <= Threshold - 1 + x
          PROVE  q + k <= Threshold - 1 + (x + BatchSize)
      BY <1>1, <3>5, ConsumerConstants
    <3>6. quantity[table] + k <= Threshold - 1 + (BatchSize * n + BatchSize)
      BY <2>1, <2>2, <3>5, Zenon
    <3> QED BY <3>3, <3>4, <3>6, Zenon
  <2>5. CASE table # p
    <3>1. Unchecked(table)' = Unchecked(table)
      BY <1>2, <1>9, <2>5, ZenonT(60) DEF Unchecked
    <3>2. quantity'[table] = quantity[table]
      BY <1>1, <2>1, <2>3, <2>5, Zenon DEF TypeOK
    <3> QED BY <2>1, <3>1, <3>2, Zenon
  <2> QED BY <2>4, <2>5, Zenon
<1>15. BornInv'
  <2>1. \A pq \in PQ \ born : quantity'[pq] = quantity[pq]
    BY <1>1, <1>2, <1>3, Zenon DEF dispatch, accountCache, TypeOK
  <2> QED BY <1>1, <1>2, <1>3, <1>9, <2>1 DEF BornInv
<1>16. QueueHasCycle'
  <2>1. \A e \in Cycle : cyc'[e].pq = cyc[e].pq
    BY <1>9
  <2> QED BY <1>2, <2>1, Zenon DEF Inv, QueueHasCycle, CyclesOn
<1>17. ClearedForGood'
  BY <1>2, Zenon DEF Inv, ClearedForGood
<1> QED BY <1>10, <1>11, <1>12, <1>13, <1>14, <1>15, <1>16, <1>17, Zenon DEF Inv

-----------------------------------------------------------------------------
(* Every step of the consumer preserves the invariant. *)
LEMMA NextInv == Inv /\ [Next]_vars => Inv'
<1> SUFFICES ASSUME Inv, [Next]_vars PROVE Inv'
  BY Zenon
<1>1. TypeOK /\ TaskInv /\ BornInv /\ ClearedForGood
  BY Zenon DEF Inv
<1>2. ASSUME NEW s \in Syncer, NEW assigned \in BOOLEAN, syncProcessQueue(s, assigned)
      PROVE  Inv'
  <2>1. /\ table' \in {table, NoPQ} /\ UNCHANGED <<state, born, expired, quotaVars, cyc, taskVars>>
        /\ sync' \in [Syncer -> {"idle", "start"}] /\ UNCHANGED crashed
    BY <1>1, <1>2, Zenon DEF syncProcessQueue, NoCrash, TypeOK
  <2>2. ClearedForGood'
    BY <1>1, <2>1, Zenon DEF ClearedForGood
  <2>3. Active' => Active
    BY <2>1, Zenon DEF Active
  <2>4. expired' \in [PQ -> BOOLEAN]
    BY <1>1, <2>1, Zenon DEF TypeOK
  <2> QED BY <1>1, <2>1, <2>2, <2>3, <2>4, TableStepInv, Zenon DEF TypeOK
<1>3. ASSUME NEW s \in Syncer, NEW c \in Cycle, syncReceive(s, c)
      PROVE  Inv'
  <2>1. /\ cyc[c].pc \in {"none", "immediate"} /\ receiveMessage(c)
        /\ UNCHANGED <<state, quotaVars, taskVars>> /\ UNCHANGED crashed
    BY <1>3 DEF syncReceive, NoCycle, NoCrash
  <2>2. sync' \in [Syncer -> {"idle", "start"}]
    BY <1>1, <1>3, Zenon DEF syncReceive, TypeOK
  <2> QED BY <2>1, <2>2, ReceiveMessageInv, Zenon
<1>4. CASE idleTooLong
  <2>1. UNCHANGED <<state, table, born, sync, quotaVars, cyc, taskVars, crashed>>
    BY <1>4, Zenon DEF idleTooLong, NoCrash
  <2>2. expired' \in [PQ -> BOOLEAN]
    BY <1>1, <1>4, Zenon DEF idleTooLong, TypeOK
  <2>3. ClearedForGood' /\ (Active' => Active)
    BY <1>1, <2>1, Zenon DEF ClearedForGood, Active
  <2> QED BY <1>1, <2>1, <2>2, <2>3, TableStepInv, Zenon DEF TypeOK
<1>5. CASE Shutdown
  <2>1. /\ UNCHANGED <<born, expired, sync, quotaVars, cyc, taskVars, crashed>>
        /\ table' \in {table, NoPQ} /\ ~Active'
        /\ state' \in {"STARTED", "STOPPING", "CLEARED", "STOPPED"}
    BY <1>5, Zenon DEF Shutdown, shutdownBegin, shutdownClear, shutdownParent, NoCrash, Active
  <2>2. ClearedForGood'
    BY <1>1, <1>5, Zenon DEF Shutdown, shutdownBegin, shutdownClear, shutdownParent, ClearedForGood
  <2>3. expired' \in [PQ -> BOOLEAN]
    BY <1>1, <2>1, Zenon DEF TypeOK
  <2>4. sync' \in [Syncer -> {"idle", "start"}]
    BY <1>1, <2>1, Zenon DEF TypeOK
  <2> QED BY <2>1, <2>2, <2>3, <2>4, TableStepInv, Zenon
<1>6. ASSUME NEW c \in Cycle, CycleStep(c)
      PROVE  Inv'
  <2>1. ASSUME NEW k \in 0..BatchSize, onCompletion(c, k) PROVE Inv'
    BY <2>1, OnCompletionInv, Zenon
  <2>2. CASE onCompletionError(c)
    <3> DEFINE r == [pc |-> "later", pq |-> cyc[c].pq]
    <3>1. /\ cyc[c].pc = "pop" /\ cyc' = [cyc EXCEPT ![c] = r] /\ r \in CycleRecord
          /\ UNCHANGED <<tableVars, quotaVars, taskVars, crashed>>
      BY <1>1, <2>2, CycleExcept, Zenon DEF onCompletionError, NoCrash, CycleRecord
    <3>2. UNCHANGED <<state, table, born, sync, quotaVars, taskVars, crashed>> /\ UNCHANGED expired
      BY <3>1, Zenon DEF tableVars
    <3>3. expired' \in [PQ -> BOOLEAN] /\ cyc[c] # NoCycle
      BY <1>1, <3>1, <3>2 DEF TypeOK, NoCycle
    <3>4. r.pc # "none" /\ r.pq = cyc[c].pq /\ r.pc \in {"check", "later"}
      BY Zenon
    <3> QED BY <3>1, <3>2, <3>3, <3>4, CycleMoveInv, Zenon DEF CycleMove
  <2>3. CASE onCompletionStop(c)
    <3>1. /\ cyc[c].pc = "pop" /\ cyc' = [cyc EXCEPT ![c] = NoCycle] /\ NoCycle \in CycleRecord
          /\ UNCHANGED <<tableVars, quotaVars, taskVars, crashed>>
          /\ ~(Alive(cyc[c].pq) /\ Active)
      BY <2>3, Zenon DEF onCompletionStop, NoCrash, NoCycle, CycleRecord
    <3>2. UNCHANGED <<state, table, born, sync, quotaVars, taskVars, crashed>> /\ UNCHANGED expired
      BY <3>1, Zenon DEF tableVars
    <3>3. expired' \in [PQ -> BOOLEAN] /\ cyc[c] # NoCycle
      BY <1>1, <3>1, <3>2 DEF TypeOK, NoCycle
    <3>4. Active => table # cyc[c].pq
      BY <3>1, Zenon DEF Alive
    <3>5. c \notin Unchecked(table)
      BY <3>1, Zenon DEF Unchecked
    <3> QED BY <3>1, <3>2, <3>3, <3>4, <3>5, CycleMoveInv, Zenon DEF CycleMove
  <2>4. CASE receiveLater(c)
    <3> DEFINE r == IF Alive(cyc[c].pq) THEN [pc |-> "check", pq |-> cyc[c].pq] ELSE NoCycle
    <3>1. /\ cyc[c].pc = "later" /\ cyc' = [cyc EXCEPT ![c] = r] /\ r \in CycleRecord
          /\ UNCHANGED <<tableVars, quotaVars, taskVars, crashed>>
      BY <1>1, <2>4, CycleExcept, Zenon DEF receiveLater, NoCrash, CycleRecord, NoCycle
    <3>2. UNCHANGED <<state, table, born, sync, quotaVars, taskVars, crashed>> /\ UNCHANGED expired
      BY <3>1, Zenon DEF tableVars
    <3>3. expired' \in [PQ -> BOOLEAN] /\ cyc[c] # NoCycle
      BY <1>1, <3>1, <3>2 DEF TypeOK, NoCycle
    <3>4. \/ r.pc # "none" /\ r.pq = cyc[c].pq /\ r.pc \in {"check", "later"}
          \/ r = NoCycle /\ table # cyc[c].pq
      BY Zenon DEF Alive
    <3>5. c \in Unchecked(table) => r.pc \in {"check", "later"}
      BY <3>4, Zenon DEF Unchecked
    <3> QED BY <3>1, <3>2, <3>3, <3>4, <3>5, CycleMoveInv, Zenon DEF CycleMove
  <2>5. CASE checkThrottleThenReceive(c)
    <3> DEFINE r == [pc |-> IF shouldThrottle(cyc[c].pq) THEN "later" ELSE "immediate",
                     pq |-> cyc[c].pq]
    <3>1. /\ cyc[c].pc = "check" /\ cyc' = [cyc EXCEPT ![c] = r] /\ r \in CycleRecord
          /\ UNCHANGED <<state, table, born, sync, quotaVars, taskVars, crashed>>
      BY <1>1, <2>5, CycleExcept, Zenon DEF checkThrottleThenReceive, NoCrash, CycleRecord
    <3>2. expired' \in [PQ -> BOOLEAN] /\ cyc[c] # NoCycle
      <4>1. cyc[c] # NoCycle
        BY <3>1 DEF NoCycle
      <4>2. \A pq \in PQ : expired[pq] \in BOOLEAN
        BY <1>1, Zenon DEF TypeOK
      <4>3. expired' = [expired EXCEPT ![cyc[c].pq] = IF shouldThrottle(cyc[c].pq) THEN FALSE
                                                      ELSE expired[cyc[c].pq]]
        BY <2>5, Zenon DEF checkThrottleThenReceive
      <4>4. CASE shouldThrottle(cyc[c].pq)
        BY <1>1, <4>1, <4>3, <4>4, Zenon DEF TypeOK
      <4>5. CASE ~shouldThrottle(cyc[c].pq)
        BY <1>1, <4>1, <4>3, <4>5, Zenon DEF TypeOK
      <4> QED BY <4>4, <4>5, Zenon
    <3>3. Active /\ table # NoPQ /\ c \in Unchecked(table) =>
            r.pc \in {"check", "later"} \/ quantity[table] <= Threshold - 1
      <4> SUFFICES ASSUME table # NoPQ, c \in Unchecked(table), ~shouldThrottle(cyc[c].pq)
          PROVE  quantity[table] <= Threshold - 1
        BY Zenon
      <4>1. cyc[c].pq = table
        BY Zenon DEF Unchecked
      <4>2. quantity[table] \in Nat
        BY <1>1, ConsumerConstants DEF TypeOK
      <4> QED BY <4>1, <4>2, ConsumerConstants DEF shouldThrottle
    <3>4. r.pc # "none" /\ r.pq = cyc[c].pq
      BY Zenon
    <3> QED BY <3>1, <3>2, <3>3, <3>4, CycleMoveInv, Zenon DEF CycleMove
  <2>6. CASE receiveMessageImmediately(c)
    <3>1. /\ cyc[c].pc \in {"none", "immediate"} /\ receiveMessage(c)
          /\ UNCHANGED <<state, quotaVars, taskVars>> /\ UNCHANGED crashed /\ UNCHANGED sync
      BY <2>6, Zenon DEF receiveMessageImmediately, NoCrash
    <3>2. sync' \in [Syncer -> {"idle", "start"}]
      BY <1>1, <3>1, Zenon DEF TypeOK
    <3> QED BY <3>1, <3>2, ReceiveMessageInv, Zenon
  <2> QED BY <1>6, <2>1, <2>2, <2>3, <2>4, <2>5, <2>6, Zenon DEF CycleStep
<1>7. ASSUME NEW t \in Delivery, TaskStep(t)
      PROVE  Inv'
  <2> DEFINE h == task[t].head
             With(step, pc) == [pq |-> task[t].pq, head |-> h, hi |-> task[t].hi,
                                step |-> step, pc |-> pc]
  <2>1. /\ task[t] = With(task[t].step, task[t].pc)
        /\ \A step \in {"Consume", "Ack", "Nack"} :
             \A pc \in {"queued", "running", "acking", "nacking", "dropped", "done"} :
               With(step, pc) \in TaskRecord
    BY <1>1, Zenon DEF TypeOK, TaskRecord
  <2>2. task[t].pc # "none"
    BY <1>7, Zenon DEF TaskStep, process, listenerReturns, onAck, onNack, onReply
  <2>3. task[t] # NoTask /\ TaskOK(t)
    <3>1. task[t] # NoTask
      BY <2>2, NotNone, Zenon
    <3> QED BY <1>1, <3>1, Zenon DEF TaskInv
  <2>4. h \in Nat /\ task[t].hi \in Nat /\ t \in Int
    BY <1>1, TaskType, DeliveryType, Zenon
  <2>5. h <= task[t].hi => h \in Delivery
    <3>1. t <= h
      BY <2>3, Zenon DEF TaskOK
    <3> QED BY <1>1, <2>3, <2>4, <3>1, TasksDisjoint
  <2>6. CASE process(t)
    <3> DEFINE k == With("Consume", IF h > task[t].hi THEN "done" ELSE "running")
    <3>1. task[t].step = "Consume" /\ task[t].pc = "queued"
      BY <2>3, <2>6, Zenon DEF process, TaskOK
    <3>2. /\ goOn(t, h, task[t].step, IF h > task[t].hi THEN "done" ELSE "running")
          /\ UNCHANGED <<tableVars, quotaVars, cyc, delivered, result, broker, settled, crashed>>
      BY <2>6, <3>1, Zenon DEF process, NoCrash
    <3>3. task' = [task EXCEPT ![t] = k]
      BY <3>1, <3>2, Zenon DEF goOn
    <3>4. k \in TaskRecord /\ k.pq = task[t].pq /\ k.head = h /\ k.hi = task[t].hi
          /\ k.step = "Consume" /\ k.pc \in {"done", "running"}
          /\ (k.pc = "running" => k.head <= k.hi)
      <4>1. k \in TaskRecord
        BY <2>1, Zenon
      <4>2. h > task[t].hi \/ h <= task[t].hi
        BY <2>4
      <4> QED BY <4>1, <4>2, Zenon
    <3> HIDE DEF k
    <3> QED BY <1>1, <2>3, <3>2, <3>3, <3>4, TaskMoveInv, Zenon DEF TypeOK, TaskMove
  <2>7. ASSUME NEW r \in {"SUCCESS", "FAILURE"}, listenerReturns(t, r)
        PROVE  Inv'
    <3> DEFINE next == IF r = "SUCCESS" THEN "acking" ELSE IF ~Fifo(t) THEN "nacking" ELSE "dropped"
               k == With("Consume", next)
    <3>1. task[t].pc = "running" /\ task[t].step = "Consume" /\ h <= task[t].hi /\ h \in Delivery
      BY <2>3, <2>5, <2>7, Zenon DEF listenerReturns, TaskOK
    <3>2. /\ goOn(t, h, task[t].step, next) /\ result' = [result EXCEPT ![h] = r]
          /\ UNCHANGED <<tableVars, quotaVars, cyc, delivered, broker, settled>>
      BY <2>7, Zenon DEF listenerReturns
    <3>3. crashed' \in BOOLEAN
      BY <2>7, Zenon DEF listenerReturns
    <3>4. task' = [task EXCEPT ![t] = k]
      BY <3>1, <3>2, Zenon DEF goOn
    <3>5. /\ k \in TaskRecord /\ k.pq = task[t].pq /\ k.head = h /\ k.hi = task[t].hi
          /\ k.step = "Consume" /\ k.pc \in {"acking", "nacking", "dropped"}
          /\ (k.pc = "acking" => r = "SUCCESS") /\ (k.pc = "nacking" => r = "FAILURE" /\ ~Fifo(t))
      BY <2>1, Zenon
    <3>6. /\ result' \in [Delivery -> {"none", "SUCCESS", "FAILURE"}] /\ result'[h] = r
          /\ \A d \in Delivery : d # h => result'[d] = result[d]
      BY <1>1, <3>1, <3>2, Zenon DEF TypeOK
    <3> HIDE DEF k, next
    <3>7. k.pc = "nacking" => ~(k.hi > t)
      BY <3>5, Zenon DEF Fifo
    <3>8. ~(task[t].head > task[t].hi)
      BY <2>4, <3>1
    <3> QED BY <1>1, <2>3, <3>1, <3>2, <3>3, <3>4, <3>5, <3>6, <3>7, <3>8,
           TaskMoveInv, ZenonT(60) DEF TypeOK, TaskMove
  <2>8. ASSUME NEW waiting, NEW retry, NEW told, onReply(t, waiting, retry, told),
               \/ waiting = "acking" /\ retry = "Ack" /\ told = "acked"
               \/ waiting = "nacking" /\ retry = "Nack" /\ told = "nacked"
        PROVE  Inv'
    <3>1. /\ task[t].pc = waiting /\ task[t].step = "Consume" /\ h <= task[t].hi /\ h \in Delivery
          /\ \/ told = "acked" /\ result[h] = "SUCCESS"
             \/ told = "nacked" /\ result[h] = "FAILURE" /\ ~Fifo(t)
      BY <2>3, <2>5, <2>8, Zenon DEF onReply, TaskOK
    <3>2. UNCHANGED <<tableVars, cyc, delivered, result, crashed>>
      BY <2>8, Zenon DEF onReply, NoCrash
    <3>3. ASSUME NEW b \in {broker[h], told}, broker' = [broker EXCEPT ![h] = b]
          PROVE  /\ broker' \in [Delivery -> {"inflight", "acked", "nacked"}] /\ broker'[h] = b
                 /\ \A d \in Delivery : d # h => broker'[d] = broker[d]
      BY <1>1, <2>8, <3>1, <3>3, Zenon DEF TypeOK
    <3>4. ~(task[t].head > task[t].hi)
      BY <2>4, <3>1
    <3>5. CASE /\ broker' = [broker EXCEPT ![h] = told]
               /\ settled' = settled \cup {h}
               /\ pop(t)
      <4>1. /\ broker' \in [Delivery -> {"inflight", "acked", "nacked"}] /\ broker'[h] = told
            /\ \A d \in Delivery : d # h => broker'[d] = broker[d]
            /\ settled' \in SUBSET Delivery /\ settled \subseteq settled'
        BY <1>1, <3>1, <3>3, <3>5, Zenon DEF TypeOK
      <4>2. CASE Alive(task[t].pq)
        <5> DEFINE k == [pq |-> task[t].pq, head |-> h + 1, hi |-> task[t].hi,
                         step |-> "Consume", pc |-> "queued"]
        <5>1. /\ release(task[t].pq, h)
              /\ goOn(t, h + 1, "Consume", "queued")
          BY <3>5, <4>2, Zenon DEF pop
        <5>2. task' = [task EXCEPT ![t] = k]
          BY <5>1, Zenon DEF goOn
        <5>3. k \in TaskRecord /\ k.pq = task[t].pq /\ k.head = h + 1 /\ k.hi = task[t].hi
              /\ k.step = "Consume" /\ k.pc = "queued"
          BY <1>1, <2>4 DEF TypeOK, TaskRecord
        <5> HIDE DEF k
        <5> QED BY <2>3, <3>1, <3>2, <3>5, <4>1, <5>1, <5>2, <5>3, PopInv, Zenon DEF PopStep
      <4>3. CASE ~Alive(task[t].pq)
        <5> DEFINE k == With("Consume", "queued")
        <5>1. /\ UNCHANGED quotaVars
              /\ goOn(t, h, "Consume", "queued")
          BY <3>5, <4>3, Zenon DEF pop
        <5>2. task' = [task EXCEPT ![t] = k]
          BY <5>1, Zenon DEF goOn
        <5>3. k \in TaskRecord /\ k.pq = task[t].pq /\ k.head = h /\ k.hi = task[t].hi
              /\ k.step = "Consume" /\ k.pc = "queued"
          BY <2>1, Zenon
        <5> HIDE DEF k
        <5> QED BY <1>1, <2>3, <3>1, <3>2, <3>4, <4>1, <5>1, <5>2, <5>3, TaskMoveInv, ZenonT(60) DEF TypeOK, TaskMove
      <4> QED BY <4>2, <4>3, Zenon
    <3>6. CASE /\ \E b \in {broker[h], told} : broker' = [broker EXCEPT ![h] = b]
               /\ goOn(t, h, retry, "dropped")
               /\ UNCHANGED <<settled, quotaVars>>
      <4> DEFINE k == With(retry, "dropped")
      <4>1. /\ broker' \in [Delivery -> {"inflight", "acked", "nacked"}]
            /\ \A d \in Delivery : d # h => broker'[d] = broker[d]
        BY <3>3, <3>6, Zenon
      <4>2. task' = [task EXCEPT ![t] = k]
        BY <3>6, Zenon DEF goOn
      <4>3. k \in TaskRecord /\ k.pq = task[t].pq /\ k.head = h /\ k.hi = task[t].hi
            /\ k.pc = "dropped"
        BY <2>1, <2>8, Zenon
      <4> HIDE DEF k
      <4> QED BY <1>1, <2>3, <3>1, <3>2, <3>4, <3>6, <4>1, <4>2, <4>3, TaskMoveInv, ZenonT(60) DEF TypeOK, TaskMove
    <3> QED BY <2>8, <3>5, <3>6, Zenon DEF onReply
  <2>9. CASE onAck(t)
    BY <2>8, <2>9, Zenon DEF onAck
  <2>10. CASE onNack(t)
    BY <2>8, <2>10, Zenon DEF onNack
  <2> QED BY <1>7, <2>6, <2>7, <2>9, <2>10, Zenon DEF TaskStep
<1>8. CASE UNCHANGED vars
  <2>1. /\ UNCHANGED <<born, expired, sync, quotaVars, cyc, taskVars, crashed>>
        /\ UNCHANGED <<state, table>>
    BY <1>8, Zenon DEF vars, tableVars
  <2>2. ClearedForGood' /\ (Active' => Active)
    BY <1>1, <2>1, Zenon DEF ClearedForGood, Active
  <2>3. expired' \in [PQ -> BOOLEAN]
    BY <1>1, <2>1, Zenon DEF TypeOK
  <2> QED BY <1>1, <2>1, <2>2, <2>3, TableStepInv, Zenon DEF TypeOK
<1> QED
  BY <1>2, <1>3, <1>4, <1>5, <1>6, <1>7, <1>8, Zenon DEF Next, Running, Rebalance

-----------------------------------------------------------------------------
(* Inv holds in every reachable state. *)
THEOREM Invariance == Spec => []Inv
<1>1. Init => Inv
  BY InitInv, Zenon
<1>2. Inv /\ [Next]_vars => Inv'
  BY NextInv, Zenon
<1> QED BY <1>1, <1>2, PTL DEF Spec

(* The variables keep their types; in particular the unsigned message      *)
(* counter of ProcessQueueImpl neither wraps nor overflows.                *)
THEOREM TypeCorrect == Spec => []TypeOK
<1>1. Inv => TypeOK
  BY Zenon DEF Inv
<1> QED BY <1>1, Invariance, PTL

(* accountCache and release keep cached_message_quantity_ equal to the     *)
(* number of messages the consume tasks hold.                              *)
THEOREM QuotaCorrect == Spec => []QuotaExact
<1>1. Inv => QuotaExact
  BY Zenon DEF Inv
<1> QED BY <1>1, Invariance, PTL

(* checkThrottleThenReceive bounds the cached messages, whatever the       *)
(* number of cycles that rebalancing has left on the process queue.        *)
THEOREM ThrottleCorrect == Spec => []ThrottleBound
<1>1. Inv => ThrottleBound
  <2> SUFFICES ASSUME Inv, Active, table # NoPQ
      PROVE  quantity[table] <= Threshold - 1 + BatchSize * Cardinality(CyclesOn(table))
    BY Zenon DEF ThrottleBound
  <2>1. Unchecked(table) \subseteq CyclesOn(table) /\ CyclesOn(table) \subseteq Cycle
    BY Zenon DEF Unchecked, CyclesOn
  <2>2. /\ Cardinality(Unchecked(table)) <= Cardinality(CyclesOn(table))
        /\ Cardinality(CyclesOn(table)) \in Nat
    BY <2>1, FS_Subset, FS_CardinalityType, ConsumerConstants, Zenon
  <2>3. BatchSize * Cardinality(Unchecked(table)) <= BatchSize * Cardinality(CyclesOn(table))
    BY <2>2, UncheckedFinite, BatchMonotone, Zenon
  <2>4. quantity[table] <= Threshold - 1 + BatchSize * Cardinality(Unchecked(table))
    BY Zenon DEF Inv, ThrottleInv
  <2>5. quantity[table] \in Nat
    BY ConsumerConstants DEF Inv, TypeOK
  <2>6. /\ BatchSize * Cardinality(Unchecked(table)) \in Nat
        /\ BatchSize * Cardinality(CyclesOn(table)) \in Nat
    BY <2>2, UncheckedFinite, BatchMonotone, Zenon
  <2> QED BY <2>3, <2>4, <2>5, <2>6, ConsumerConstants
<1> QED BY <1>1, Invariance, PTL

(* pop() lets go of a message only after the broker knows its fate; a FIFO *)
(* task goes on only after an ack.                                         *)
THEOREM ReleaseCorrect == Spec => []ReleasedIsSettled
<1>1. Inv => ReleasedIsSettled
  BY Zenon DEF Inv
<1> QED BY <1>1, Invariance, PTL

(* syncProcessQueue never leaves a process queue in the table without a    *)
(* request/response cycle.                                                 *)
THEOREM CycleCorrect == Spec => []QueueHasCycle
<1>1. Inv => QueueHasCycle
  BY Zenon DEF Inv
<1> QED BY <1>1, Invariance, PTL

(* No process queue enters the table after shutdown() has cleared it. *)
THEOREM ShutdownCorrect == Spec => []ClearedForGood
<1>1. Inv => ClearedForGood
  BY Zenon DEF Inv
<1> QED BY <1>1, Invariance, PTL

-----------------------------------------------------------------------------
(* cached_message_memory_.  A sum of sizes is a number of bytes: the       *)
(* bodies of the deliveries are disjoint intervals of bytes.               *)

(* A set of naturals that holds zero and with each number the next one     *)
(* holds all of them.                                                      *)
LEMMA Induction ==
  ASSUME NEW S, 0 \in S, \A n \in Nat : n \in S => n + 1 \in S
  PROVE  \A n \in Nat : n \in S
<1> DEFINE T == Nat \ S
<1> SUFFICES ASSUME T # {} PROVE FALSE
  BY Zenon
<1>1. PICK x \in T : \A y \in T : ~(<<y, x>> \in OpToRel(<, Nat))
  BY NatLessThanWellFounded, WFMin, Zenon
<1>2. x \in Nat /\ x # 0 /\ x \notin S
  BY Zenon
<1>3. x - 1 \in Nat /\ x - 1 < x /\ x - 1 + 1 = x
  BY <1>2
<1>4. x - 1 \notin T
  BY <1>1, <1>2, <1>3, Zenon DEF OpToRel
<1> QED BY <1>2, <1>3, <1>4, Zenon

(* Bytes is a running total. *)
LEMMA BytesGrow ==
  ASSUME NEW m \in 0..MaxDelivery, NEW n \in 0..MaxDelivery
  PROVE  Bytes[m] \in Nat /\ Bytes[n] \in Nat /\ (m <= n => Bytes[m] <= Bytes[n])
  BY ConsumerConstants, Zenon

(* Every byte that arrived between two deliveries is of one of them. *)
LEMMA ByteOfBody ==
  ASSUME NEW a \in 0..MaxDelivery, NEW k \in Nat, a + k <= MaxDelivery
  PROVE  UNION {Body(d) : d \in (a + 1)..(a + k)} = (Bytes[a] + 1)..Bytes[a + k]
<1> DEFINE Between(n) == UNION {Body(d) : d \in (a + 1)..(a + n)}
           S == {n \in Nat : a + n <= MaxDelivery => Between(n) = (Bytes[a] + 1)..Bytes[a + n]}
<1>1. 0 \in S
  <2>1. (a + 1)..(a + 0) = {} /\ a + 0 = a
    OBVIOUS
  <2>2. (Bytes[a] + 1)..Bytes[a] = {}
    BY BytesGrow
  <2> QED BY <2>1, <2>2
<1>2. ASSUME NEW n \in Nat, n \in S PROVE n + 1 \in S
  <2> SUFFICES ASSUME a + (n + 1) <= MaxDelivery
      PROVE  Between(n + 1) = (Bytes[a] + 1)..Bytes[a + (n + 1)]
    OBVIOUS
  <2> DEFINE b == a + n   e == a + (n + 1)
  <2>1. /\ b \in 0..MaxDelivery /\ e \in 0..MaxDelivery /\ a <= b /\ b <= e /\ e - 1 = b
        /\ (a + 1)..e = ((a + 1)..b) \cup {e} /\ b <= MaxDelivery
    BY NatConstants
  <2>2. Between(n) = (Bytes[a] + 1)..Bytes[b]
    BY <1>2, <2>1, Zenon
  <2>3. Body(e) = (Bytes[b] + 1)..Bytes[e]
    BY <2>1, Zenon DEF Body
  <2>4. Between(n + 1) = Between(n) \cup Body(e)
    <3> HIDE DEF b, e
    <3> QED BY <2>1, Zenon DEF b, e
  <2>5. /\ Bytes[a] \in Nat /\ Bytes[b] \in Nat /\ Bytes[e] \in Nat
        /\ Bytes[a] <= Bytes[b] /\ Bytes[b] <= Bytes[e]
    BY <2>1, BytesGrow, Zenon
  <2> HIDE DEF b, e, Between
  <2>6. ((Bytes[a] + 1)..Bytes[b]) \cup ((Bytes[b] + 1)..Bytes[e]) = (Bytes[a] + 1)..Bytes[e]
    BY <2>5
  <2> QED BY <2>2, <2>3, <2>4, <2>6, Zenon DEF e
<1>3. k \in S
  <2> HIDE DEF S
  <2> QED BY <1>1, <1>2, Induction, Zenon
<1> QED BY <1>3, Zenon

(* The bodies of different deliveries share no byte. *)
LEMMA BodiesDisjoint ==
  ASSUME NEW d \in Delivery, NEW e \in Delivery, d # e
  PROVE  Body(d) \cap Body(e) = {}
<1>1. /\ d \in 0..MaxDelivery /\ d - 1 \in 0..MaxDelivery
      /\ e \in 0..MaxDelivery /\ e - 1 \in 0..MaxDelivery
      /\ d <= e - 1 \/ e <= d - 1
  BY NatConstants DEF Delivery
<1>2. /\ Bytes[d] \in Nat /\ Bytes[d - 1] \in Nat /\ Bytes[e] \in Nat /\ Bytes[e - 1] \in Nat
      /\ Bytes[d] <= Bytes[e - 1] \/ Bytes[e] <= Bytes[d - 1]
  BY <1>1, BytesGrow, Zenon
<1> QED BY <1>2 DEF Body

(* The size of a body, and of all the bytes a process queue holds. *)
LEMMA BodySize ==
  ASSUME NEW d \in Delivery
  PROVE  /\ IsFiniteSet(Body(d)) /\ Cardinality(Body(d)) = Bytes[d] - Bytes[d - 1]
         /\ Bytes[d] - Bytes[d - 1] \in Nat
<1>1. d \in 0..MaxDelivery /\ d - 1 \in 0..MaxDelivery /\ d - 1 <= d
  BY NatConstants DEF Delivery
<1>2. Bytes[d] \in Nat /\ Bytes[d - 1] \in Nat /\ Bytes[d - 1] <= Bytes[d]
  BY <1>1, BytesGrow, Zenon
<1>3. Bytes[d - 1] + 1 \in Int /\ Bytes[d] \in Int
  BY <1>2
<1>4. /\ IsFiniteSet(Body(d))
      /\ Cardinality(Body(d)) = IF Bytes[d - 1] + 1 > Bytes[d] THEN 0
                                ELSE Bytes[d] - (Bytes[d - 1] + 1) + 1
  BY <1>3, FS_Interval, Zenon DEF Body
<1> QED BY <1>2, <1>4

LEMMA OutstandingBytesFinite ==
  ASSUME NEW pq
  PROVE  IsFiniteSet(OutstandingBytes(pq)) /\ Cardinality(OutstandingBytes(pq)) \in Nat
<1>1. OutstandingBytes(pq) \subseteq UNION {Body(d) : d \in 1..MaxDelivery}
  BY Zenon DEF OutstandingBytes, Outstanding, Delivery
<1>2. UNION {Body(d) : d \in (0 + 1)..(0 + MaxDelivery)} = (Bytes[0] + 1)..Bytes[0 + MaxDelivery]
  <2>1. 0 \in 0..MaxDelivery /\ 0 + MaxDelivery <= MaxDelivery /\ MaxDelivery \in Nat
    BY NatConstants
  <2> QED BY <2>1, ByteOfBody, Zenon
<1>3. 0 + 1 = 1 /\ 0 + MaxDelivery = MaxDelivery /\ 0 \in 0..MaxDelivery /\ MaxDelivery \in 0..MaxDelivery
  BY NatConstants
<1>4. Bytes[0] \in Nat /\ Bytes[MaxDelivery] \in Nat
  BY <1>3, BytesGrow, Zenon
<1>5. Bytes[0] + 1 \in Int /\ Bytes[MaxDelivery] \in Int
  BY <1>4
<1>6. IsFiniteSet((Bytes[0] + 1)..Bytes[MaxDelivery])
  BY <1>5, FS_Interval, Zenon
<1>7. IsFiniteSet(OutstandingBytes(pq))
  BY <1>1, <1>2, <1>3, <1>6, FS_Subset, Zenon
<1> QED BY <1>7, FS_CardinalityType, Zenon

(* release() subtracts the size of the body that pop() lets go of. *)
LEMMA MemoryPop ==
  ASSUME NEW pq \in PQ, NEW h \in Outstanding(pq),
         memory[pq] = Cardinality(OutstandingBytes(pq)),
         Outstanding(pq)' = Outstanding(pq) \ {h}
  PROVE  FetchSub(memory[pq], Bytes[h] - Bytes[h - 1]) = Cardinality(OutstandingBytes(pq)')
<1>1. h \in Delivery /\ \A d \in Outstanding(pq) : d \in Delivery
  BY Zenon DEF Outstanding
<1>2. Body(h) \subseteq OutstandingBytes(pq)
  BY Zenon DEF OutstandingBytes
<1>3. OutstandingBytes(pq)' = OutstandingBytes(pq) \ Body(h)
  <2>1. OutstandingBytes(pq)' = UNION {Body(d) : d \in Outstanding(pq) \ {h}}
    BY Zenon DEF OutstandingBytes, Body
  <2>2. \A d \in Outstanding(pq) \ {h} : Body(d) \cap Body(h) = {}
    BY <1>1, BodiesDisjoint, Zenon
  <2> QED BY <2>1, <2>2, Zenon DEF OutstandingBytes
<1>4. Cardinality(OutstandingBytes(pq) \ Body(h))
        = Cardinality(OutstandingBytes(pq)) - Cardinality(OutstandingBytes(pq) \cap Body(h))
  BY OutstandingBytesFinite, FS_Difference, Zenon
<1>5. OutstandingBytes(pq) \cap Body(h) = Body(h)
  BY <1>2, Zenon
<1>6. Cardinality(Body(h)) <= Cardinality(OutstandingBytes(pq))
  BY <1>2, OutstandingBytesFinite, FS_Subset, Zenon
<1>7. /\ Cardinality(Body(h)) = Bytes[h] - Bytes[h - 1] /\ Bytes[h] - Bytes[h - 1] \in Nat
      /\ Cardinality(OutstandingBytes(pq)) \in Nat
  BY <1>1, BodySize, OutstandingBytesFinite, Zenon
<1>8. Cardinality(OutstandingBytes(pq)') = memory[pq] - (Bytes[h] - Bytes[h - 1])
  BY <1>3, <1>4, <1>5, <1>7, Zenon
<1>9. \A m, n \in Nat : n <= m => FetchSub(m, n) = m - n
  BY DEF FetchSub
<1> QED BY <1>6, <1>7, <1>8, <1>9, Zenon

(* accountCache() adds the size of the batch. *)
LEMMA MemoryDispatch ==
  ASSUME NEW pq \in PQ, NEW k \in Nat, delivered \in Nat, delivered + k <= MaxDelivery,
         memory[pq] = Cardinality(OutstandingBytes(pq)),
         Outstanding(pq)' = Outstanding(pq) \cup (delivered + 1)..(delivered + k),
         Outstanding(pq) \cap (delivered + 1)..(delivered + k) = {}
  PROVE  memory[pq] + Bytes[delivered + k] - Bytes[delivered] = Cardinality(OutstandingBytes(pq)')
<1> DEFINE batch == (delivered + 1)..(delivered + k)
           new == (Bytes[delivered] + 1)..Bytes[delivered + k]
<1>1. delivered \in 0..MaxDelivery /\ delivered + k \in 0..MaxDelivery /\ delivered <= delivered + k
  BY NatConstants
<1>2. UNION {Body(d) : d \in batch} = new
  BY <1>1, ByteOfBody, Zenon
<1>3. OutstandingBytes(pq)' = OutstandingBytes(pq) \cup new
  <2>1. OutstandingBytes(pq)' = UNION {Body(d) : d \in Outstanding(pq) \cup batch}
    BY Zenon DEF OutstandingBytes, Body
  <2>2. OutstandingBytes(pq)' = OutstandingBytes(pq) \cup UNION {Body(d) : d \in batch}
    <3> HIDE DEF batch
    <3> QED BY <2>1, Zenon DEF OutstandingBytes
  <2> QED BY <1>2, <2>2, Zenon
<1>4. OutstandingBytes(pq) \cap new = {}
  <2>1. \A d \in Outstanding(pq) : d \in Delivery
    BY Zenon DEF Outstanding
  <2>2. \A e \in batch : e \in Delivery
    BY NatConstants DEF Delivery
  <2>3. \A d \in Outstanding(pq), e \in batch : Body(d) \cap Body(e) = {}
    <3> HIDE DEF batch
    <3>1. \A d \in Outstanding(pq), e \in batch : d # e
      BY Zenon DEF batch
    <3> QED BY <2>1, <2>2, <3>1, BodiesDisjoint, Zenon
  <2>4. OutstandingBytes(pq) \cap UNION {Body(d) : d \in batch} = {}
    <3> HIDE DEF batch
    <3> SUFFICES ASSUME NEW x \in OutstandingBytes(pq), NEW e \in batch, x \in Body(e) PROVE FALSE
      BY Zenon
    <3>1. PICK d \in Outstanding(pq) : x \in Body(d)
      BY Zenon DEF OutstandingBytes
    <3> QED BY <2>3, <3>1, Zenon
  <2> QED BY <1>2, <2>4, Zenon
<1>5. Bytes[delivered] \in Nat /\ Bytes[delivered + k] \in Nat /\ Bytes[delivered] <= Bytes[delivered + k]
  BY <1>1, BytesGrow, Zenon
<1>6. IsFiniteSet(new) /\ Cardinality(new) = Bytes[delivered + k] - Bytes[delivered]
  <2>1. Bytes[delivered] + 1 \in Int /\ Bytes[delivered + k] \in Int
    BY <1>5
  <2>2. /\ IsFiniteSet(new)
        /\ Cardinality(new) = IF Bytes[delivered] + 1 > Bytes[delivered + k] THEN 0
                              ELSE Bytes[delivered + k] - (Bytes[delivered] + 1) + 1
    BY <2>1, FS_Interval, Zenon
  <2> QED BY <1>5, <2>2
<1>7. Cardinality(OutstandingBytes(pq) \cup new)
        = Cardinality(OutstandingBytes(pq)) + Cardinality(new) - Cardinality({})
  <2> HIDE DEF new
  <2>1. Cardinality(OutstandingBytes(pq) \cup new)
          = Cardinality(OutstandingBytes(pq)) + Cardinality(new) - Cardinality(OutstandingBytes(pq) \cap new)
    BY <1>6, OutstandingBytesFinite, FS_Union, Zenon
  <2> QED BY <1>4, <2>1, Zenon
<1>8. Cardinality({}) = 0 /\ Cardinality(OutstandingBytes(pq)) \in Nat
  BY FS_EmptySet, OutstandingBytesFinite, Zenon
<1> HIDE DEF new
<1> QED BY <1>3, <1>5, <1>6, <1>7, <1>8

(* A step that neither moves a task on nor touches the counter. *)
LEMMA MemorySame ==
  ASSUME MemoryExact, UNCHANGED memory,
         \A u \in Delivery : /\ task'[u].pq = task[u].pq
                             /\ task'[u].head = task[u].head
                             /\ task'[u].hi = task[u].hi
  PROVE  MemoryExact'
<1>1. \A pq \in PQ : Outstanding(pq)' = Outstanding(pq)
  BY OutstandingSame, Zenon
<1> QED BY <1>1, Zenon DEF MemoryExact, OutstandingBytes, Body

LEMMA MemoryStep ==
  ASSUME Inv, MemoryExact, [Next]_vars
  PROVE  MemoryExact'
<1>1. TypeOK /\ TaskInv /\ BornInv
  BY Zenon DEF Inv
<1> DEFINE Same == /\ UNCHANGED memory
                   /\ \A u \in Delivery : /\ task'[u].pq = task[u].pq
                                          /\ task'[u].head = task[u].head
                                          /\ task'[u].hi = task[u].hi
<1>2. Same => MemoryExact'
  BY MemorySame, Zenon
<1> HIDE DEF Same
<1>3. UNCHANGED <<memory, task>> => Same
  BY Zenon DEF Same
<1>4. CASE Shutdown \/ Rebalance \/ UNCHANGED vars
  <2>1. UNCHANGED <<memory, task>>
    BY <1>4, ZenonT(60) DEF Shutdown, shutdownBegin, shutdownClear, shutdownParent, Rebalance, syncProcessQueue,
       syncReceive, idleTooLong, vars, quotaVars, taskVars
  <2> QED BY <1>2, <1>3, <2>1, Zenon
<1>5. ASSUME NEW c \in Cycle, CycleStep(c) PROVE MemoryExact'
  <2>1. CASE onCompletionError(c) \/ onCompletionStop(c) \/ receiveLater(c)
             \/ checkThrottleThenReceive(c) \/ receiveMessageImmediately(c)
    <3>1. UNCHANGED <<memory, task>>
      BY <2>1, ZenonT(60) DEF onCompletionError, onCompletionStop, receiveLater,
         checkThrottleThenReceive, receiveMessageImmediately, quotaVars, taskVars
    <3> QED BY <1>2, <1>3, <3>1, Zenon
  <2>2. ASSUME NEW k \in 0..BatchSize, onCompletion(c, k) PROVE MemoryExact'
    <3> DEFINE p == cyc[c].pq
    <3>1. dispatch(p, k) /\ cyc[c].pc = "pop"
      BY <2>2, Zenon DEF onCompletion
    <3>2. p \in PQ
      BY <1>1, <3>1 DEF BornInv, NoCycle, TypeOK
    <3>3. k \in Nat /\ delivered \in Nat
      BY <1>1, NatConstants DEF TypeOK
    <3>4. /\ delivered + k <= MaxDelivery
          /\ memory' = [memory EXCEPT ![p] = @ + Bytes[delivered + k] - Bytes[delivered]]
      BY <3>1, Zenon DEF dispatch, accountCache
    <3> SUFFICES ASSUME NEW pq \in PQ PROVE memory'[pq] = Cardinality(OutstandingBytes(pq)')
      BY Zenon DEF MemoryExact
    <3>5. CASE pq = p
      <4>1. /\ Outstanding(pq)' = Outstanding(pq) \cup (delivered + 1)..(delivered + k)
            /\ Outstanding(pq) \cap (delivered + 1)..(delivered + k) = {}
        BY <1>1, <3>1, <3>2, <3>3, <3>5, OutstandingDispatch, Zenon
      <4>2. memory[pq] + Bytes[delivered + k] - Bytes[delivered] = Cardinality(OutstandingBytes(pq)')
        BY <3>3, <3>4, <4>1, MemoryDispatch, Zenon DEF MemoryExact
      <4> QED BY <1>1, <3>4, <3>5, <4>2, Zenon DEF TypeOK
    <3>6. CASE pq # p
      <4>1. Outstanding(pq)' = Outstanding(pq)
        BY <1>1, <3>1, <3>2, <3>3, <3>6, OutstandingDispatch, Zenon
      <4>2. memory'[pq] = memory[pq]
        BY <1>1, <3>4, <3>6, Zenon DEF TypeOK
      <4> QED BY <4>1, <4>2, Zenon DEF MemoryExact, OutstandingBytes, Body
    <3> QED BY <3>5, <3>6, Zenon
  <2> QED BY <1>5, <2>1, <2>2, Zenon DEF CycleStep
<1>6. ASSUME NEW t \in Delivery, TaskStep(t) PROVE MemoryExact'
  <2> DEFINE h == task[t].head
  <2>1. ASSUME NEW step, NEW pc, goOn(t, h, step, pc), UNCHANGED memory PROVE MemoryExact'
    <3>1. Same
      BY <1>1, <2>1, Zenon DEF Same, goOn, TypeOK
    <3> QED BY <1>2, <3>1, Zenon
  <2>2. CASE process(t) \/ \E r \in {"SUCCESS", "FAILURE"} : listenerReturns(t, r)
    BY <2>1, <2>2, Zenon DEF process, listenerReturns, quotaVars
  <2>3. ASSUME NEW waiting \in {"acking", "nacking"}, NEW retry, NEW told,
               onReply(t, waiting, retry, told)
        PROVE  MemoryExact'
    <3>1. CASE goOn(t, h, retry, "dropped") /\ UNCHANGED quotaVars
      BY <2>1, <3>1, Zenon DEF quotaVars
    <3>2. CASE pop(t) /\ ~Alive(task[t].pq)
      BY <2>1, <3>2, Zenon DEF pop, quotaVars
    <3>3. CASE pop(t) /\ Alive(task[t].pq)
      <4> DEFINE p == task[t].pq
      <4>1. task[t].pc = waiting
        BY <2>3, Zenon DEF onReply
      <4>2. task[t] # NoTask /\ TaskOK(t) /\ h <= task[t].hi /\ p \in PQ
        <5>1. task[t].pc # "none"
          BY <4>1, Zenon
        <5>2. task[t] # NoTask
          BY <5>1, NotNone, Zenon
        <5>3. TaskOK(t)
          BY <1>1, <5>2, Zenon DEF TaskInv
        <5> QED BY <1>1, <4>1, <5>2, <5>3, Zenon DEF TaskOK, TypeOK
      <4>3. release(p, h) /\ goOn(t, h + 1, "Consume", "queued")
        BY <3>3, Zenon DEF pop
      <4>4. /\ \A u \in Delivery \ {t} : task'[u] = task[u]
            /\ task'[t].pq = p /\ task'[t].hi = task[t].hi /\ task'[t].head = h + 1
        BY <1>1, <4>3, Zenon DEF goOn, TypeOK
      <4>5. memory' = [memory EXCEPT ![p] = FetchSub(@, Bytes[h] - Bytes[h - 1])]
        BY <4>3, Zenon DEF release
      <4> SUFFICES ASSUME NEW pq \in PQ PROVE memory'[pq] = Cardinality(OutstandingBytes(pq)')
        BY Zenon DEF MemoryExact
      <4>6. CASE pq = p
        <5>1. h \in Outstanding(pq) /\ Outstanding(pq)' = Outstanding(pq) \ {h}
          BY <1>1, <4>2, <4>4, <4>6, OutstandingPop, Zenon
        <5>2. FetchSub(memory[pq], Bytes[h] - Bytes[h - 1]) = Cardinality(OutstandingBytes(pq)')
          BY <5>1, MemoryPop, Zenon DEF MemoryExact
        <5> QED BY <1>1, <4>5, <4>6, <5>2, Zenon DEF TypeOK
      <4>7. CASE pq # p
        <5>1. Outstanding(pq)' = Outstanding(pq)
          BY <1>1, <4>2, <4>4, <4>7, OutstandingPop, Zenon
        <5>2. memory'[pq] = memory[pq]
          BY <1>1, <4>5, <4>7, Zenon DEF TypeOK
        <5> QED BY <5>1, <5>2, Zenon DEF MemoryExact, OutstandingBytes, Body
      <4> QED BY <4>6, <4>7, Zenon
    <3> QED BY <2>3, <3>1, <3>2, <3>3, Zenon DEF onReply
  <2> QED BY <1>6, <2>2, <2>3, Zenon DEF TaskStep, onAck, onNack
<1> QED BY <1>4, <1>5, <1>6, Zenon DEF Next, Running

(* accountCache and release keep cached_message_memory_ equal to the total *)
(* body size of the messages the consume tasks hold, and it never wraps.   *)
THEOREM MemoryCorrect == Spec => []MemoryExact
<1>1. Init => MemoryExact
  <2> SUFFICES ASSUME Init, NEW pq \in PQ PROVE memory[pq] = Cardinality(OutstandingBytes(pq))
    BY Zenon DEF MemoryExact
  <2>1. Outstanding(pq) = {}
    BY ConsumerConstants, Zenon DEF Init, Outstanding, NoTask
  <2>2. OutstandingBytes(pq) = {}
    BY <2>1, Zenon DEF OutstandingBytes
  <2> QED BY <2>2, FS_EmptySet, Zenon DEF Init
<1>2. Inv /\ MemoryExact /\ [Next]_vars => MemoryExact'
  BY MemoryStep, Zenon
<1> QED BY <1>1, <1>2, Invariance, PTL DEF Spec
=============================================================================
