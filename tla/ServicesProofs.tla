--------------------------- MODULE ServicesProofs ---------------------------
(***************************************************************************)
(* Proofs about the services of a client that count: the timer, the admin  *)
(* server and the permits of the rate limiter, for every number of tasks,  *)
(* threads, partitions and permits, and counts of any width.  They share   *)
(* no state and have a specification each.                                 *)
(***************************************************************************)
EXTENDS Scheduler, AdminServer, RateLimiter, FiniteSetTheorems, TLAPS

-----------------------------------------------------------------------------
(* Timer tasks. *)

SchedulerSpec == SchedulerInit /\ [][SchedulerNext]_schedulerVars

(* The tasks that have an id. *)
Known == {t \in Task : id[t] > 0}

(* No count that was read or written exceeds the ids given: this bounds    *)
(* the counter however the schedulers race for it.                         *)
Counted ==
  task_id <= Cardinality(Known) /\ \A t \in Task : seen[t] <= Cardinality(Known)

(* The life of one task. *)
Life(t) ==
  /\ seen[t] >= 0 => id[t] = 0
  /\ t \in tasks => id[t] > 0
  /\ id[t] = 0 => runs[t] = 0
  /\ t \in running => runs[t] > 0
  /\ cancelled[t] >= 0 => t \notin tasks /\ id[t] > 0 /\ runs[t] = cancelled[t]
  /\ t \in Once => runs[t] <= 1 /\ (t \in timer => runs[t] = 0)
  /\ state[SchedulerOf[t]] = "STOPPED" => t \notin running
  /\ id[t] > 0 /\ state[SchedulerOf[t]] = "STARTED" /\ cancelled[t] < 0 /\ ~Finished(t)
       => t \in tasks \/ mixedUp

(* Unless schedulers raced, one call of schedule() at a time has read the  *)
(* counter, what it read is current, and no id was given twice.            *)
Distinct ==
  ~mixedUp =>
    /\ \A t \in Task : id[t] <= task_id /\ (seen[t] >= 0 => seen[t] = task_id)
    /\ \A t, u \in Task : seen[t] >= 0 /\ seen[u] >= 0 => t = u
    /\ \A t, u \in Task : id[t] > 0 /\ id[t] = id[u] => t = u

(* The inductive invariant. *)
TimerInv == SchedulerTypeOK /\ Counted /\ Distinct /\ \A t \in Task : Life(t)

(* There are finitely many tasks, so Cardinality is a number. *)
LEMMA TaskFinite ==
  /\ IsFiniteSet(Task) /\ Cardinality(Task) \in Nat
  /\ \A S \in SUBSET Task :
       /\ Cardinality(S) \in Nat /\ Cardinality(S) <= Cardinality(Task)
       /\ \A t \in Task \ S : Cardinality(S \cup {t}) = Cardinality(S) + 1
<1>1. IsFiniteSet(Task)
  BY SchedulerConstants, Zenon DEF Task
<1>2. ASSUME NEW S \in SUBSET Task
      PROVE  IsFiniteSet(S) /\ Cardinality(S) \in Nat /\ Cardinality(S) <= Cardinality(Task)
  BY <1>1, FS_Subset, FS_CardinalityType, Zenon
<1>3. ASSUME NEW S \in SUBSET Task, NEW t \in Task \ S
      PROVE  Cardinality(S \cup {t}) = Cardinality(S) + 1
  BY <1>2, <1>3, FS_AddElement, Zenon
<1>4. QED
  BY <1>1, <1>2, <1>3, FS_CardinalityType, Zenon

(* The scheduler of a task is one of Schedulers. *)
LEMMA OwnScheduler == \A t \in Task : SchedulerOf[t] \in Schedulers
  BY Zenon DEF Schedulers

(* Steps that leave the counter and the ids alone keep what is known of    *)
(* them.                                                                   *)
LEMMA CounterKept ==
  ASSUME TimerInv, UNCHANGED <<task_id, seen, id, mixedUp>>
  PROVE  Counted' /\ Distinct'
  BY Zenon DEF TimerInv, Counted, Distinct, Known

(* The variables keep their types; the bound on the counter is Counted. *)
LEMMA SchedulerTypeStep ==
  TimerInv /\ [SchedulerNext]_schedulerVars => SchedulerTypeOK'
<1> SUFFICES ASSUME TimerInv, [SchedulerNext]_schedulerVars PROVE SchedulerTypeOK'
  BY Zenon
<1> USE SchedulerConstants, TaskFinite DEF TimerInv, SchedulerTypeOK
<1>1. CASE UNCHANGED schedulerVars
  BY <1>1, Zenon DEF schedulerVars
<1>2. ASSUME NEW t \in Task, scheduleReads(t) PROVE SchedulerTypeOK'
  BY <1>2 DEF scheduleReads
<1>3. ASSUME NEW t \in Task, scheduleInserts(t) PROVE SchedulerTypeOK'
  <2>1. seen[t] + 1 \in 0 .. Cardinality(Task)
    <3>1. t \notin Known /\ Known \in SUBSET Task
      BY <1>3 DEF scheduleInserts, Life, Known
    <3>2. Cardinality(Known \cup {t}) = Cardinality(Known) + 1
          /\ Cardinality(Known \cup {t}) <= Cardinality(Task) /\ Cardinality(Known) \in Nat
      BY <3>1, Zenon
    <3>3. QED
      BY <1>3, <3>2 DEF scheduleInserts, Counted
  <2>2. QED
    BY <1>3, <2>1 DEF scheduleInserts
<1>4. ASSUME NEW t \in Task, cancel(t) PROVE SchedulerTypeOK'
  BY <1>4 DEF cancel, Erase
<1>5. ASSUME NEW t \in Task, executeBegins(t) PROVE SchedulerTypeOK'
  BY <1>5 DEF executeBegins
<1>6. ASSUME NEW t \in Task, executeEnds(t) PROVE SchedulerTypeOK'
  BY <1>6, Zenon DEF executeEnds, Erase
<1>7. ASSUME NEW s \in Schedulers, shutdownBegins(s) \/ shutdownEnds(s) PROVE SchedulerTypeOK'
  BY <1>7, Zenon DEF shutdownBegins, shutdownEnds, Erase
<1>8. QED
  BY <1>1, <1>2, <1>3, <1>4, <1>5, <1>6, <1>7, Zenon DEF SchedulerNext

(* A step keeps what is known of the counter and the ids. *)
LEMMA CounterStep ==
  TimerInv /\ [SchedulerNext]_schedulerVars => Counted' /\ Distinct'
<1> SUFFICES ASSUME TimerInv, [SchedulerNext]_schedulerVars PROVE Counted' /\ Distinct'
  BY Zenon
<1>1. CASE UNCHANGED schedulerVars
  BY <1>1, CounterKept, Zenon DEF schedulerVars
<1>2. ASSUME NEW t \in Task, scheduleReads(t) PROVE Counted' /\ Distinct'
  <2>1. Counted'
    BY <1>2, Zenon DEF scheduleReads, TimerInv, SchedulerTypeOK, Counted, Known
  <2>2. Distinct'
    BY <1>2, TaskFinite, Zenon DEF scheduleReads, TimerInv, SchedulerTypeOK, Distinct
  <2>3. QED
    BY <2>1, <2>2, Zenon
<1>3. ASSUME NEW t \in Task, scheduleInserts(t) PROVE Counted' /\ Distinct'
  <2>1. id[t] = 0 /\ seen[t] >= 0 /\ seen[t] \in Int
    BY <1>3, TaskFinite DEF scheduleInserts, TimerInv, SchedulerTypeOK, Life
  <2>2. Known' = Known \cup {t} /\ t \notin Known /\ Known \in SUBSET Task
    BY <1>3, <2>1 DEF scheduleInserts, TimerInv, SchedulerTypeOK, Known
  <2>3. Cardinality(Known') = Cardinality(Known) + 1 /\ Cardinality(Known) \in Nat
    BY <2>2, TaskFinite, Zenon
  <2>4. Counted'
    BY <1>3, <2>1, <2>3, TaskFinite DEF scheduleInserts, TimerInv, SchedulerTypeOK, Counted
  <2>5. Distinct'
    <3> SUFFICES ASSUME ~mixedUp PROVE Distinct'
      BY <1>3, Zenon DEF scheduleInserts, Distinct
    <3>1. seen[t] = task_id /\ \A u \in Task : u # t => seen[u] < 0
      BY <2>1, TaskFinite DEF TimerInv, Distinct, SchedulerTypeOK
    <3>2. \A u \in Task : seen'[u] < 0
      BY <1>3, <3>1 DEF scheduleInserts, TimerInv, SchedulerTypeOK
    <3>3. task_id' = task_id + 1
          /\ \A u \in Task : id'[u] = IF u = t THEN task_id + 1 ELSE id[u]
      BY <1>3, <3>1, Zenon DEF scheduleInserts, TimerInv, SchedulerTypeOK
    <3>4. task_id \in Nat /\ \A u \in Task : id[u] \in Nat /\ id[u] <= task_id
      BY TaskFinite DEF TimerInv, SchedulerTypeOK, Distinct
    <3>5. \A u \in Task : id'[u] <= task_id'
      BY <3>3, <3>4
    <3>6. \A u, w \in Task : id'[u] > 0 /\ id'[u] = id'[w] => u = w
      BY <3>3, <3>4 DEF TimerInv, Distinct
    <3>7. \A u \in Task : seen'[u] \in Int
      BY <1>3, TaskFinite DEF scheduleInserts, TimerInv, SchedulerTypeOK
    <3>8. QED
      BY <3>2, <3>5, <3>6, <3>7 DEF Distinct
  <2>6. QED
    BY <2>4, <2>5, Zenon
<1>4. ASSUME NEW t \in Task, cancel(t) \/ executeBegins(t) \/ executeEnds(t)
      PROVE  Counted' /\ Distinct'
  BY <1>4, CounterKept, Zenon DEF cancel, executeBegins, executeEnds
<1>5. ASSUME NEW s \in Schedulers, shutdownBegins(s) \/ shutdownEnds(s)
      PROVE  Counted' /\ Distinct'
  BY <1>5, CounterKept, Zenon DEF shutdownBegins, shutdownEnds
<1>6. QED
  BY <1>1, <1>2, <1>3, <1>4, <1>5, Zenon DEF SchedulerNext

(* The types the steps of a life use, without the bounds. *)
LEMMA Numbers ==
  ASSUME SchedulerTypeOK
  PROVE  \A t \in Task : /\ seen[t] \in Int /\ id[t] \in Nat /\ runs[t] \in Nat
                         /\ cancelled[t] \in Int
  BY TaskFinite, SchedulerConstants DEF SchedulerTypeOK

(* Every step keeps the life of every task. *)
LEMMA LifeStep ==
  ASSUME TimerInv, [SchedulerNext]_schedulerVars, NEW x \in Task
  PROVE  Life(x)'
<1>1. /\ Life(x) /\ SchedulerTypeOK /\ seen[x] \in Int /\ id[x] \in Nat /\ runs[x] \in Nat
      /\ cancelled[x] \in Int /\ SchedulerOf[x] \in Schedulers
  BY Numbers, OwnScheduler, Zenon DEF TimerInv
<1>2. CASE UNCHANGED schedulerVars
  BY <1>1, <1>2, Zenon DEF schedulerVars, Life, Finished
<1>3. ASSUME NEW t \in Task, scheduleReads(t) PROVE Life(x)'
  BY <1>1, <1>3, Zenon DEF scheduleReads, Life, Finished, SchedulerTypeOK
<1>4. ASSUME NEW t \in Task, scheduleInserts(t) PROVE Life(x)'
  <2>1. ~mixedUp => ~\E u \in Peers(t) \cap tasks : id[u] = seen[t] + 1
    BY <1>4, Numbers DEF scheduleInserts, TimerInv, Distinct, Peers, SchedulerTypeOK
  <2>2. CASE x # t
    BY <1>1, <1>4, <2>2, Zenon DEF scheduleInserts, Life, Finished, SchedulerTypeOK
  <2>3. CASE x = t
    <3>1. id[x] = 0 /\ runs[x] = 0 /\ x \notin tasks /\ cancelled[x] < 0 /\ x \notin running
      BY <1>1, <1>4, <2>3 DEF scheduleInserts, Life
    <3>2. id'[x] = seen[x] + 1 /\ seen[x] >= 0 /\ seen'[x] = -1 /\ (~mixedUp => x \in tasks')
      BY <1>1, <1>4, <2>1, <2>3, Zenon DEF scheduleInserts, SchedulerTypeOK
    <3>3. UNCHANGED <<running, runs, state, cancelled, mixedUp>>
      BY <1>4, Zenon DEF scheduleInserts
    <3>4. QED
      BY <1>1, <3>1, <3>2, <3>3 DEF Life, Finished
  <2>4. QED
    BY <2>2, <2>3, Zenon
<1>5. ASSUME NEW t \in Task, cancel(t) PROVE Life(x)'
  <2>1. CASE x # t
    <3>1. x \in SameId(t) => mixedUp
      BY <1>5, <2>1, Zenon DEF cancel, SameId, Peers, TimerInv, Distinct
    <3>2. QED
      BY <1>1, <1>5, <2>1, <3>1, Zenon DEF cancel, Erase, Life, Finished, SchedulerTypeOK
  <2>2. CASE x = t
    <3>1. x \in tasks => x \in SameId(t)
      BY <2>2, Zenon DEF SameId, Peers
    <3>2. QED
      BY <1>1, <1>5, <2>2, <3>1 DEF cancel, Erase, Life, Finished, SchedulerTypeOK
  <2>3. QED
    BY <2>1, <2>2, Zenon
<1>6. ASSUME NEW t \in Task, executeBegins(t) PROVE Life(x)'
  <2>1. CASE x # t
    BY <1>1, <1>6, <2>1, Zenon DEF executeBegins, Life, Finished, SchedulerTypeOK
  <2>2. CASE x = t
    BY <1>1, <1>6, <2>2 DEF executeBegins, Life, Finished, SchedulerTypeOK
  <2>3. QED
    BY <2>1, <2>2, Zenon
<1>7. ASSUME NEW t \in Task, executeEnds(t) PROVE Life(x)'
  <2>1. CASE t \in Repeated
    <3>1. t \notin Once
      BY <2>1, SchedulerConstants, Zenon
    <3>2. QED
      BY <1>1, <1>7, <2>1, <3>1, Zenon DEF executeEnds, Life, Finished, SchedulerTypeOK
  <2>2. CASE t \notin Repeated
    <3>1. t \in Once /\ Finished(t) /\ id[t] > 0
      <4>1. t \in Once
        BY <2>2, Zenon DEF Task
      <4>2. t \in running
        BY <1>7, Zenon DEF executeEnds
      <4>3. Life(t) /\ id[t] \in Nat /\ runs[t] \in Nat
        BY Numbers, Zenon DEF TimerInv
      <4>4. QED
        BY <4>1, <4>2, <4>3 DEF Life, Finished
    <3>2. x # t /\ x \in SameId(t) => mixedUp
      BY <3>1, Zenon DEF SameId, Peers, TimerInv, Distinct
    <3>3. QED
      BY <1>1, <1>7, <2>2, <3>1, <3>2, Zenon DEF executeEnds, Erase, Life, Finished, SchedulerTypeOK
  <2>3. QED
    BY <2>1, <2>2, Zenon
<1>8. ASSUME NEW s \in Schedulers, shutdownBegins(s) PROVE Life(x)'
  BY <1>1, <1>8, Zenon DEF shutdownBegins, Erase, Life, Finished, SchedulerTypeOK
<1>9. ASSUME NEW s \in Schedulers, shutdownEnds(s) PROVE Life(x)'
  BY <1>1, <1>9, Zenon DEF shutdownEnds, Life, Finished, SchedulerTypeOK
<1>10. QED
  BY <1>2, <1>3, <1>4, <1>5, <1>6, <1>7, <1>8, <1>9, Zenon DEF SchedulerNext

(* For any tasks and schedulers: a task without interval runs at most once,*)
(* none begins after its cancel() or is in progress after shutdown(), and  *)
(* unless schedule() ran on two schedulers at once every other task is     *)
(* still owned by its scheduler.                                           *)
THEOREM SchedulerCorrect == SchedulerSpec => []SchedulerInv
<1>1. SchedulerInit => TimerInv
  <2> SUFFICES ASSUME SchedulerInit PROVE TimerInv
    BY Zenon
  <2>1. mixedUp \in BOOLEAN
    BY Zenon DEF SchedulerInit
  <2>2. SchedulerTypeOK
    BY <2>1, TaskFinite, SchedulerConstants DEF SchedulerInit, SchedulerTypeOK
  <2>3. Counted
    <3>1. Known \in SUBSET Task
      BY Zenon DEF Known
    <3>2. Cardinality(Known) \in Nat
      BY <3>1, TaskFinite, Zenon
    <3>3. QED
      BY <3>2 DEF SchedulerInit, Counted
  <2>4. Distinct
    BY DEF SchedulerInit, Distinct
  <2>5. \A t \in Task : Life(t)
    BY OwnScheduler DEF SchedulerInit, Life
  <2>6. QED
    BY <2>2, <2>3, <2>4, <2>5, Zenon DEF TimerInv
<1>2. TimerInv /\ [SchedulerNext]_schedulerVars => TimerInv'
  BY SchedulerTypeStep, CounterStep, LifeStep, Zenon DEF TimerInv
<1>3. TimerInv => SchedulerInv
  BY Zenon DEF TimerInv, Life, SchedulerInv, Task
<1>4. QED
  BY <1>1, <1>2, <1>3, PTL DEF SchedulerSpec

-----------------------------------------------------------------------------
(* The admin server. *)

AdminSpec == AdminInit /\ [][AdminNext]_adminVars

Stopping == adminState \in {"STOPPING", "STOPPED"}
InProcess == {s \in ServerCall : status[s] = "PROCESS"}
Told(s) == \E ok \in BOOLEAN : <<s, ok>> \in events

(* The inductive invariant: before the loop begins there is no call; while *)
(* the server runs one call is in process; and once stop() has begun each  *)
(* such call has an event coming, unless it was created too late.          *)
ChainInv ==
  /\ AdminTypeOK
  /\ queueOpen <=> ~Stopping
  /\ lateCall => Stopping
  /\ adminState = "CREATED" => loop = "none"
  /\ loop \in {"none", "begin"} => InProcess = {}
  /\ loop = "next" /\ adminState = "STARTED" => \E s \in ServerCall : InProcess = {s}
  /\ Stopping /\ ~lateCall => \A s \in InProcess : Told(s)
  /\ adminState = "STOPPED" =>
       loop = "gone" /\ events = {} /\ \A s \in ServerCall : status[s] # "FINISH"

LEMMA EventAdded ==
  ASSUME AdminTypeOK, NEW s \in ServerCall, NEW ok \in BOOLEAN, events' = events \cup {<<s, ok>>}
  PROVE  events' \subseteq ServerCall \X BOOLEAN
<1>1. events \subseteq ServerCall \X BOOLEAN
  BY Zenon DEF AdminTypeOK
<1>2. <<s, ok>> \in ServerCall \X BOOLEAN
  BY Zenon
<1> QED BY <1>1, <1>2, Zenon

LEMMA ChainStep ==
  ASSUME ChainInv, [AdminNext]_adminVars
  PROVE  ChainInv'
<1> USE DEF ChainInv, AdminTypeOK, Stopping, InProcess, Told
<1>1. CASE UNCHANGED adminVars
  BY <1>1, Zenon DEF adminVars
<1>2. CASE start
  BY <1>2, Zenon DEF start
<1>3. CASE stopBegins
  <2>1. /\ adminState' = "STOPPING" /\ queueOpen' = FALSE /\ UNCHANGED <<loop, status, level, lateCall>>
        /\ events' = events \cup {<<s, FALSE>> : s \in {t \in ServerCall : Waiting(t)}}
        /\ ~lateCall
    BY <1>3, Zenon DEF stopBegins
  <2>2. events' \in SUBSET (ServerCall \X BOOLEAN)
    <3>1. \A t \in ServerCall : <<t, FALSE>> \in ServerCall \X BOOLEAN
      BY Zenon
    <3>2. events \subseteq ServerCall \X BOOLEAN
      BY Zenon
    <3> HIDE DEF ChainInv, AdminTypeOK, Stopping, InProcess, Told
    <3> QED BY <2>1, <3>1, <3>2, Zenon
  <2>3. ASSUME NEW s \in InProcess PROVE Told(s)'
    <3>1. CASE Waiting(s)
      BY <2>1, <3>1, Zenon
    <3>2. CASE ~Waiting(s)
      BY <2>1, <3>2, Zenon DEF Waiting
    <3> QED BY <3>1, <3>2, Zenon
  <2> QED BY <2>1, <2>2, <2>3, Zenon
<1>4. CASE loopEnds
  BY <1>4, Zenon DEF loopEnds
<1>5. CASE stopEnds
  BY <1>5, Zenon DEF stopEnds
<1>6. ASSUME NEW s \in ServerCall, loopBegins(s) PROVE ChainInv'
  BY <1>6, Zenon DEF loopBegins, Created
<1>7. ASSUME NEW s \in ServerCall, requestArrives(s) PROVE ChainInv'
  <2>1. /\ events' = events \cup {<<s, TRUE>>} /\ adminState = "STARTED"
        /\ UNCHANGED <<adminState, loop, status, queueOpen, level, lateCall>>
    BY <1>7, Zenon DEF requestArrives
  <2>2. AdminTypeOK' /\ InProcess' = InProcess
    BY <2>1, EventAdded, Zenon
  <2> QED
    <3> HIDE DEF AdminTypeOK, InProcess, Told
    <3> QED BY <2>1, <2>2, Zenon
<1>8. ASSUME NEW s \in ServerCall, proceedFinished(s) PROVE ChainInv'
  <2>1. InProcess' = InProcess /\ \A t \in InProcess : Told(t) => Told(t)'
    BY <1>8, Zenon DEF proceedFinished
  <2>2. AdminTypeOK' /\ adminState # "STOPPED" /\ UNCHANGED <<adminState, loop, queueOpen, lateCall>>
    BY <1>8, Zenon DEF proceedFinished
  <2> QED
    <3> HIDE DEF AdminTypeOK, InProcess, Told
    <3> QED BY <2>1, <2>2, Zenon
<1>9. ASSUME NEW s \in ServerCall, loopBreaks(s) PROVE ChainInv'
  BY <1>9, Zenon DEF loopBreaks
<1>10. ASSUME NEW s \in ServerCall, NEW n \in ServerCall, NEW word \in Word, proceed(s, n, word)
       PROVE  ChainInv'
  <2>1. /\ loop = "next" /\ status[s] = "PROCESS" /\ n # s /\ status[n] = "none"
        /\ events' \subseteq events /\ status' = [[status EXCEPT ![s] = "FINISH"] EXCEPT ![n] = "PROCESS"]
        /\ lateCall' = (lateCall \/ ~queueOpen) /\ UNCHANGED <<adminState, loop, queueOpen>>
        /\ level' \in Level
    BY <1>10, Zenon DEF proceed, Created, applyChange, wrapChangeLogLevelRequest, Level
  <2>2. AdminTypeOK' /\ adminState # "STOPPED" /\ (Stopping' => lateCall') /\ (lateCall' => Stopping')
    BY <2>1, Zenon
  <2>3. InProcess = {s} => InProcess' = {n}
    <3>1. ASSUME InProcess = {s}, NEW t \in ServerCall PROVE status'[t] = "PROCESS" <=> t = n
      BY <2>1, <3>1, Zenon
    <3> QED BY <3>1, Zenon
  <2>4. s \in InProcess
    BY <2>1, Zenon
  <2> QED
    <3> HIDE DEF AdminTypeOK, InProcess, Told
    <3> QED BY <2>1, <2>2, <2>3, <2>4, Zenon
<1>11. ASSUME NEW s \in ServerCall, NEW ok \in BOOLEAN, finished(s, ok) PROVE ChainInv'
  <2>1. /\ events' = events \cup {<<s, ok>>} /\ status[s] = "FINISH"
        /\ UNCHANGED <<adminState, loop, status, queueOpen, level, lateCall>>
    BY <1>11, Zenon DEF finished
  <2>2. AdminTypeOK' /\ InProcess' = InProcess
    BY <2>1, EventAdded, Zenon
  <2>3. adminState # "STOPPED" /\ \A t \in InProcess : Told(t) => Told(t)'
    BY <2>1, Zenon
  <2> QED
    <3> HIDE DEF AdminTypeOK, InProcess, Told
    <3> QED BY <2>1, <2>2, <2>3, Zenon
<1>12. ASSUME NEW s \in ServerCall, NEW ok \in BOOLEAN, stopDrains(s, ok) PROVE ChainInv'
  BY <1>12, Zenon DEF stopDrains
<1> QED
  <2> HIDE DEF ChainInv, AdminTypeOK, Stopping, InProcess, Told
  <2> QED BY <1>1, <1>2, <1>3, <1>4, <1>5, <1>6, <1>7, <1>8, <1>9, <1>10, <1>11, <1>12, Zenon
          DEF AdminNext

(* The chain of ServerCall objects does not break, for any number of       *)
(* objects: while the loop runs and nobody stops the server, exactly one   *)
(* waits for a request or is about to get one; calls are created too late  *)
(* only by what stop() overtakes, and no other is left waiting by it.      *)
THEOREM AdminCorrect == AdminSpec => []AdminInv
<1>1. AdminInit => ChainInv
  BY Zenon DEF AdminInit, ChainInv, AdminTypeOK, Stopping, InProcess, Told, Level
<1>2. ChainInv => AdminInv
  <2> SUFFICES ASSUME ChainInv PROVE AdminInv
    BY Zenon
  <2>1. loop = "next" /\ adminState = "STARTED" => Cardinality(InProcess) = 1
    BY FS_Singleton, Zenon DEF ChainInv
  <2> QED BY <2>1, Zenon DEF ChainInv, AdminInv, InProcess, Stopping, Told
<1> QED BY <1>1, <1>2, ChainStep, PTL DEF AdminSpec

-----------------------------------------------------------------------------
(* The rate limiter: who decrements a count. *)

RateSpec == RateInit /\ [][RateNext]_rateVars

(* A thread that decrements a count of zero woke in another slot. *)
OnlyAfterTheClock == \A t \in Acquirer : takes(t) => permits[slot] > 0 \/ slot # idx[t]

(* The inductive invariant: one thread at a time holds the mutex, and the  *)
(* slot it woke in still has a permit.                                     *)
WokenInv ==
  /\ acquiring \in [Acquirer -> {"none", "locking", "waiting", "woken"}]
  /\ idx \in [Acquirer -> SlotIndex] /\ slot \in SlotIndex
  /\ \A t \in Acquirer : acquiring[t] = "woken" =>
       permits[idx[t]] > 0 /\ \A u \in Acquirer : acquiring[u] = "woken" => u = t
  /\ wrapped # "yes"

LEMMA SlotInRange == 0 \in SlotIndex /\ \A s \in SlotIndex : (s + 1) % PARTITION \in SlotIndex
<1>1. PARTITION \in Nat /\ PARTITION > 0
  BY RateLimiterConstants, Zenon
<1> QED BY <1>1 DEF SlotIndex

LEMMA WokenStep ==
  ASSUME WokenInv, [RateNext]_rateVars
  PROVE  WokenInv'
<1> USE DEF WokenInv
<1>1. CASE UNCHANGED rateVars
  BY <1>1, Zenon DEF rateVars
<1>2. CASE clockAdvances
  BY <1>2, SlotInRange, Zenon DEF clockAdvances
<1>3. CASE tickReadsSlot
  BY <1>3, Zenon DEF tickReadsSlot
<1>4. CASE tick
  BY <1>4, Zenon DEF tick, mtxFree
<1>5. ASSUME NEW t \in Acquirer, acquire(t) PROVE WokenInv'
  <2>1. mtxFree /\ Returns(t) /\ UNCHANGED <<slot, wrapped>>
    BY <1>5, ZenonT(60) DEF acquire
  <2> QED BY <2>1, SlotInRange, Zenon DEF mtxFree, Returns
<1>6. ASSUME NEW t \in Acquirer, acquireOne(t) PROVE WokenInv'
  <2>1. CASE HasPermit(idx[t]) = {}
    BY <1>6, <2>1, ZenonT(60) DEF acquireOne, mtxFree
  <2>2. CASE HasPermit(idx[t]) # {}
    <3>1. mtxFree /\ Returns(t) /\ UNCHANGED <<slot, wrapped>>
      BY <1>6, <2>2, Zenon DEF acquireOne
    <3> QED BY <3>1, SlotInRange, Zenon DEF mtxFree, Returns
  <2> QED BY <2>1, <2>2, Zenon
<1>7. ASSUME NEW t \in Acquirer, wakes(t) PROVE WokenInv'
  BY <1>7, Zenon DEF wakes, mtxFree
<1>8. ASSUME NEW t \in Acquirer, takes(t) PROVE WokenInv'
  <2>1. /\ acquiring[t] = "woken" /\ Returns(t) /\ UNCHANGED slot
        /\ wrapped' = IF permits[slot] > 0 \/ wrapped = "yes" THEN wrapped
                      ELSE IF idx[t] # slot THEN "slipped" ELSE "yes"
    BY <1>8, Zenon DEF takes
  <2>2. wrapped' # "yes"
    BY <2>1, Zenon
  <2> QED BY <2>1, <2>2, SlotInRange, Zenon DEF Returns
<1>9. ASSUME NEW t \in Acquirer, NEW n \in 0 .. MaxWant, acquireReadsSlot(t, n) PROVE WokenInv'
  BY <1>9, Zenon DEF acquireReadsSlot
<1> QED BY <1>1, <1>2, <1>3, <1>4, <1>5, <1>6, <1>7, <1>8, <1>9, Zenon DEF RateNext

(* For any number of threads, partitions and permits: a thread of          *)
(* acquire() decrements a count of zero, and wraps it round, only if the   *)
(* clock moved on between its wake-up and its second reading of the slot.  *)
THEOREM RateLimiterWraps == RateSpec => [](wrapped # "yes") /\ [][OnlyAfterTheClock]_rateVars
<1>1. RateInit => WokenInv
  BY SlotInRange, Zenon DEF RateInit, WokenInv
<1>2. WokenInv => wrapped # "yes"
  BY Zenon DEF WokenInv
<1>3. WokenInv => OnlyAfterTheClock
  BY Zenon DEF WokenInv, OnlyAfterTheClock, takes
<1> QED BY <1>1, <1>2, <1>3, WokenStep, PTL DEF RateSpec

-----------------------------------------------------------------------------
(* The rate limiter: how many permits there are. *)

(* Induction, for a set of numbers. *)
LEMMA Induction ==
  ASSUME NEW S, 0 \in S, \A n \in Nat : n \in S => n + 1 \in S
  PROVE  \A n \in Nat : n \in S
<1> DEFINE T == Nat \ S
<1> SUFFICES ASSUME T # {} PROVE FALSE
  BY Zenon
<1>1. PICK x \in T : \A y \in T : ~(<<y, x>> \in OpToRel(<, Nat))
  BY NatLessThanWellFounded, WFMin, Zenon
<1>2. x \in Nat /\ x # 0 /\ x \notin S
  BY Zenon
<1>3. x - 1 \in Nat /\ x - 1 < x /\ x - 1 + 1 = x
  BY <1>2
<1>4. x - 1 \notin T
  BY <1>1, <1>2, <1>3, Zenon DEF OpToRel
<1> QED BY <1>2, <1>3, <1>4, Zenon

(* Division with a remainder. *)
LEMMA DivMod ==
  ASSUME NEW a \in Nat, NEW n \in Nat \ {0}
  PROVE  a % n \in 0 .. (n - 1) /\ a \div n \in Nat /\ a = (n * (a \div n)) + (a % n)
  OBVIOUS

LEMMA ModUnique ==
  ASSUME NEW a \in Nat, NEW n \in Nat \ {0}, NEW q \in Nat, NEW r \in 0 .. (n - 1), a = n * q + r
  PROVE  a % n = r
  OBVIOUS

(* The permits of a slot are as many as its count says. *)
LEMMA ColumnSize ==
  ASSUME NEW i, NEW n \in Nat
  PROVE  IsFiniteSet({i} \X (1 .. n)) /\ Cardinality({i} \X (1 .. n)) = n
<1>1. IsFiniteSet({i}) /\ Cardinality({i}) = 1
  BY FS_Singleton, Zenon
<1>2. IsFiniteSet(1 .. n) /\ Cardinality(1 .. n) = n
  <2>1. IsFiniteSet(1 .. n) /\ Cardinality(1 .. n) = IF 1 > n THEN 0 ELSE n - 1 + 1
    BY FS_Interval
  <2> QED BY <2>1
<1>3. /\ IsFiniteSet({i} \X (1 .. n))
      /\ Cardinality({i} \X (1 .. n)) = Cardinality({i}) * Cardinality(1 .. n)
  BY <1>1, <1>2, FS_Product, Zenon
<1> QED BY <1>1, <1>2, <1>3

(* A permit is a slot and a number up to its count. *)
LEMMA InPool ==
  ASSUME NEW f, NEW x
  PROVE  x \in Pool(f) <=> \E i \in SlotIndex : \E k \in 1 .. f[i] : x = <<i, k>>
  BY DEF Pool

LEMMA PoolFinite ==
  ASSUME NEW f \in [SlotIndex -> Nat]
  PROVE  IsFiniteSet(Pool(f)) /\ Total(f) \in Nat
<1> DEFINE C == {{i} \X (1 .. f[i]) : i \in SlotIndex}
           g == [i \in SlotIndex |-> {i} \X (1 .. f[i])]
<1>1. IsFiniteSet(SlotIndex)
  <2>1. PARTITION \in Nat
    BY RateLimiterConstants, Zenon
  <2> QED BY <2>1, FS_Interval DEF SlotIndex
<1>2. g \in Surjection(SlotIndex, C)
  BY Zenon DEF Surjection
<1>3. IsFiniteSet(C)
  BY <1>1, <1>2, FS_Surjection, Zenon
<1>4. ASSUME NEW c \in C PROVE IsFiniteSet(c)
  <2>1. PICK i \in SlotIndex : c = {i} \X (1 .. f[i])
    BY <1>4, Zenon
  <2>2. f[i] \in Nat
    BY Zenon
  <2>3. IsFiniteSet({i} \X (1 .. f[i]))
    BY <2>2, ColumnSize, Zenon
  <2> QED BY <2>1, <2>3
<1>5. IsFiniteSet(UNION C)
  BY <1>3, <1>4, FS_UNION, Zenon
<1>6. IsFiniteSet(Pool(f))
  BY <1>5, Zenon DEF Pool
<1> QED BY <1>6, FS_CardinalityType, Zenon DEF Total

(* What a change to one slot's count does to the number of permits. *)
LEMMA TotalExcept ==
  ASSUME NEW f \in [SlotIndex -> Nat], NEW i \in SlotIndex, NEW v \in Nat
  PROVE  Total([f EXCEPT ![i] = v]) + f[i] = Total(f) + v
<1> DEFINE g == [f EXCEPT ![i] = v]
           Old == {i} \X (1 .. f[i])
           New == {i} \X (1 .. v)
           Rest == Pool(f) \ Old
<1>1. g \in [SlotIndex -> Nat] /\ g[i] = v /\ \A k \in SlotIndex : k # i => g[k] = f[k]
  BY Zenon
<1> HIDE DEF g
<1>2. Pool(g) = Rest \cup New
  <2>1. ASSUME NEW x \in Pool(g) PROVE x \in Rest \cup New
    <3>1. PICK k \in SlotIndex : \E n \in 1 .. g[k] : x = <<k, n>>
      BY <2>1, InPool
    <3>2. PICK n \in 1 .. g[k] : x = <<k, n>>
      BY <3>1, Zenon
    <3>3. CASE k = i
      BY <3>2, <3>3, <1>1, Zenon
    <3>4. CASE k # i
      <4>1. x \in Pool(f)
        BY <3>2, <3>4, <1>1, InPool, Zenon
      <4> QED BY <4>1, <3>2, <3>4, Zenon
    <3> QED BY <3>3, <3>4, Zenon
  <2>2. ASSUME NEW x \in New PROVE x \in Pool(g)
    BY <2>2, <1>1, InPool
  <2>3. ASSUME NEW x \in Rest PROVE x \in Pool(g)
    <3>1. PICK k \in SlotIndex : \E n \in 1 .. f[k] : x = <<k, n>>
      BY <2>3, InPool
    <3>2. k # i
      BY <3>1, <2>3
    <3> QED BY <3>1, <3>2, <1>1, InPool, Zenon
  <2> QED BY <2>1, <2>2, <2>3, Zenon
<1>3. f[i] \in Nat
  BY Zenon
<1>4. IsFiniteSet(Old) /\ Cardinality(Old) = f[i] /\ IsFiniteSet(New) /\ Cardinality(New) = v
  BY <1>3, ColumnSize, Zenon
<1>5. Pool(f) \cap Old = Old
  <2>1. ASSUME NEW x \in Old PROVE x \in Pool(f)
    BY <2>1, InPool
  <2> QED BY <2>1, Zenon
<1>6. IsFiniteSet(Rest) /\ Cardinality(Rest) = Cardinality(Pool(f)) - Cardinality(Pool(f) \cap Old)
  BY PoolFinite, <1>4, FS_Difference, Zenon
<1>7. Rest \cap New = {}
  <2> SUFFICES ASSUME NEW x \in Rest, x \in New PROVE FALSE
    BY Zenon
  <2>1. PICK k \in SlotIndex : \E n \in 1 .. f[k] : x = <<k, n>>
    BY InPool
  <2>2. k # i
    BY <2>1
  <2> QED BY <2>1, <2>2
<1> HIDE DEF Old, New, Rest
<1>8. /\ IsFiniteSet(Rest \cup New)
      /\ Cardinality(Rest \cup New) = Cardinality(Rest) + Cardinality(New) - Cardinality(Rest \cap New)
  BY <1>4, <1>6, FS_Union, Zenon
<1>9. Cardinality({}) = 0
  BY FS_EmptySet, Zenon
<1>10. Total(g) = Cardinality(Rest) + Cardinality(New) - 0
  BY <1>2, <1>7, <1>8, <1>9, Zenon DEF Total
<1>11. Cardinality(Rest) = Total(f) - f[i]
  BY <1>4, <1>5, <1>6, Zenon DEF Total
<1>12. Total(g) = (Total(f) - f[i]) + v - 0 /\ Total(f) \in Nat
  BY <1>4, <1>10, <1>11, PoolFinite, Zenon
<1>13. Total(g) + f[i] = Total(f) + v
  BY <1>3, <1>12
<1> QED BY <1>13, Zenon DEF g

LEMMA Partitions == PARTITION \in Nat \ {0} /\ Range32 \in Nat /\ Permit \in Nat /\ Permit < Range32
  BY RateLimiterConstants

(* The partitions that get one permit more: as many as remain, and evenly  *)
(* spaced.                                                                 *)
LEMMA SpacedSize ==
  ASSUME NEW r \in 1 .. (PARTITION - 1), NEW q \in Nat, q = PARTITION \div r,
         NEW E, E = {k * q : k \in 0 .. r - 1}
  PROVE  E \subseteq SlotIndex /\ IsFiniteSet(E) /\ Cardinality(E) = r
<1>1. r \in Nat \ {0} /\ r < PARTITION
  BY Partitions
<1>2. PARTITION = r * q + (PARTITION % r) /\ PARTITION % r \in 0 .. (r - 1)
  BY <1>1, Partitions, DivMod, Zenon
<1>3. q # 0
  BY <1>1, <1>2, Partitions
<1>4. r * q <= PARTITION /\ (r - 1) * q < PARTITION
  BY <1>1, <1>2, <1>3, Partitions
<1>5. ASSUME NEW k \in 0 .. r - 1 PROVE k * q \in SlotIndex
  <2>1. k * q \in Nat /\ k * q <= (r - 1) * q /\ (r - 1) * q \in Nat
    BY <1>1
  <2> QED BY <2>1, <1>4, Partitions DEF SlotIndex
<1> DEFINE f == [k \in 0 .. r - 1 |-> k * q]
<1>6. ASSUME NEW k \in 0 .. r - 1, NEW m \in 0 .. r - 1, k * q = m * q PROVE k = m
  BY <1>6, <1>1, <1>3
<1>7. f \in Bijection(0 .. r - 1, E)
  <2>1. f \in [0 .. r - 1 -> E]
    BY Zenon
  <2>2. \A k, m \in 0 .. r - 1 : f[k] = f[m] => k = m
    BY <1>6, Zenon
  <2>3. \A e \in E : \E k \in 0 .. r - 1 : f[k] = e
    BY Zenon
  <2> QED BY <2>1, <2>2, <2>3, Zenon DEF Bijection, Injection, Surjection, IsInjective
<1>8. IsFiniteSet(0 .. r - 1) /\ Cardinality(0 .. r - 1) = r
  <2>1. 0 \in Int /\ r - 1 \in Int
    BY <1>1
  <2>2. IsFiniteSet(0 .. r - 1) /\ Cardinality(0 .. r - 1) = IF 0 > r - 1 THEN 0 ELSE r - 1 - 0 + 1
    BY <2>1, FS_Interval, Zenon
  <2> QED BY <2>2, <1>1
<1> HIDE DEF f
<1>9. IsFiniteSet(E) /\ Cardinality(E) = r
  BY <1>7, <1>8, FS_Bijection, Zenon DEF ExistsBijection
<1> QED BY <1>5, <1>9, Zenon

LEMMA SlotsFinite == IsFiniteSet(SlotIndex) /\ Cardinality(SlotIndex) = PARTITION
<1>1. /\ IsFiniteSet(SlotIndex)
      /\ Cardinality(SlotIndex) = IF 0 > PARTITION - 1 THEN 0 ELSE PARTITION - 1 - 0 + 1
  BY Partitions, FS_Interval DEF SlotIndex
<1> QED BY <1>1, Partitions

(* The constructor hands out the permits it is given, whatever is left     *)
(* over by the division.                                                   *)
LEMMA QuotasAddUp ==
  ASSUME NEW p \in Nat
  PROVE  Total(partitionOf(p)) = p /\ partitionOf(p) \in [SlotIndex -> 0 .. p]
<1> DEFINE avg == p \div PARTITION
           r == p % PARTITION
           q == PARTITION \div r
           E == {k * q : k \in 0 .. r - 1}
           Even == SlotIndex \X (1 .. avg)
           More == E \X {avg + 1}
<1>1. avg \in Nat /\ r \in 0 .. (PARTITION - 1) /\ p = PARTITION * avg + r
  BY Partitions, DivMod, Zenon
<1>2. partitionOf(p) = [i \in SlotIndex |-> IF r > 0 /\ i \in E THEN avg + 1 ELSE avg]
  BY Zenon DEF partitionOf
<1>3. r > 0 => q \in Nat /\ E \subseteq SlotIndex /\ IsFiniteSet(E) /\ Cardinality(E) = r
  <2> HAVE r > 0
  <2>1. r \in 1 .. (PARTITION - 1) /\ r \in Nat \ {0}
    BY <1>1, Partitions
  <2>2. q \in Nat
    BY <2>1, Partitions, DivMod, Zenon
  <2> QED BY <2>1, <2>2, SpacedSize, Zenon
<1> HIDE DEF avg, r, q, E
<1>4. IsFiniteSet(1 .. avg) /\ Cardinality(1 .. avg) = avg
  <2>1. IsFiniteSet(1 .. avg) /\ Cardinality(1 .. avg) = IF 1 > avg THEN 0 ELSE avg - 1 + 1
    BY <1>1, FS_Interval
  <2> QED BY <2>1, <1>1
<1>5. IsFiniteSet(Even) /\ Cardinality(Even) = PARTITION * avg
  <2>1. IsFiniteSet(Even) /\ Cardinality(Even) = Cardinality(SlotIndex) * Cardinality(1 .. avg)
    BY <1>4, SlotsFinite, FS_Product, Zenon
  <2> QED BY <2>1, <1>4, SlotsFinite
<1>6. avg <= PARTITION * avg
  BY <1>1, Partitions
<1>7. CASE r = 0
  <2>1. partitionOf(p) = [i \in SlotIndex |-> avg]
    BY <1>2, <1>7
  <2>2. Pool(partitionOf(p)) = Even
    <3>1. \A x : x \in Pool(partitionOf(p)) <=> x \in Even
      BY <2>1, InPool
    <3> QED BY <3>1, Zenon
  <2>3. Total(partitionOf(p)) = p
    <3>1. Total(partitionOf(p)) = PARTITION * avg
      BY <2>2, <1>5, Zenon DEF Total
    <3> QED BY <3>1, <1>1, <1>7, Partitions
  <2>4. avg \in 0 .. p
    BY <1>1, <1>6, <1>7, Partitions
  <2> QED BY <2>1, <2>3, <2>4
<1>8. CASE r > 0
  <2>1. partitionOf(p) = [i \in SlotIndex |-> IF i \in E THEN avg + 1 ELSE avg]
    BY <1>2, <1>8
  <2>2. Pool(partitionOf(p)) = Even \cup More
    <3>1. ASSUME NEW x \in Pool(partitionOf(p)) PROVE x \in Even \cup More
      <4>1. PICK i \in SlotIndex : \E k \in 1 .. partitionOf(p)[i] : x = <<i, k>>
        BY <3>1, InPool
      <4>2. PICK k \in 1 .. partitionOf(p)[i] : x = <<i, k>>
        BY <4>1, Zenon
      <4> QED BY <4>2, <2>1, <1>1
    <3>2. ASSUME NEW x \in Even PROVE x \in Pool(partitionOf(p))
      <4>1. PICK i \in SlotIndex, k \in 1 .. avg : x = <<i, k>>
        BY <3>2
      <4>2. k \in 1 .. partitionOf(p)[i]
        BY <2>1, <1>1
      <4> QED BY <4>1, <4>2, InPool, Zenon
    <3>3. ASSUME NEW x \in More PROVE x \in Pool(partitionOf(p))
      <4>1. PICK i \in E : x = <<i, avg + 1>>
        BY <3>3
      <4>2. i \in SlotIndex /\ avg + 1 \in 1 .. partitionOf(p)[i]
        BY <2>1, <1>1, <1>3, <1>8
      <4> QED BY <4>1, <4>2, InPool, Zenon
    <3> QED BY <3>1, <3>2, <3>3, Zenon
  <2>3. IsFiniteSet(More) /\ Cardinality(More) = r
    <3>1. IsFiniteSet({avg + 1}) /\ Cardinality({avg + 1}) = 1
      BY FS_Singleton, Zenon
    <3>2. IsFiniteSet(More) /\ Cardinality(More) = Cardinality(E) * Cardinality({avg + 1})
      BY <3>1, <1>3, <1>8, FS_Product
    <3> QED BY <3>1, <3>2, <1>1, <1>3, <1>8
  <2>4. Even \cap More = {}
    BY <1>1
  <2>5. Cardinality(Even \cup More) = Cardinality(Even) + Cardinality(More) - Cardinality(Even \cap More)
    BY <1>5, <2>3, FS_Union, Zenon
  <2>6. Cardinality({}) = 0
    BY FS_EmptySet, Zenon
  <2>7. Total(partitionOf(p)) = PARTITION * avg + r - 0
    BY <1>5, <2>2, <2>3, <2>4, <2>5, <2>6, Zenon DEF Total
  <2>8. Total(partitionOf(p)) = p
    BY <2>7, <1>1, Partitions
  <2>9. avg \in 0 .. p /\ avg + 1 \in 0 .. p
    BY <1>1, <1>6, <1>8, Partitions
  <2> QED BY <2>1, <2>8, <2>9
<1> QED BY <1>1, <1>7, <1>8

LEMMA Half == HalfCycle \in Nat /\ HalfCycle < PARTITION
  BY Partitions DEF HalfCycle

LEMMA PastIs ==
  ASSUME NEW i \in SlotIndex, NEW j \in 0 .. HalfCycle
  PROVE  Past(i, j) = (IF j <= i THEN i - j ELSE i + PARTITION - j) /\ Past(i, j) \in SlotIndex
<1>1. i \in 0 .. PARTITION - 1 /\ j \in Nat /\ j < PARTITION /\ PARTITION \in Nat \ {0}
  BY Half, Partitions DEF SlotIndex
<1>2. CASE j <= i
  <2>1. i + PARTITION - j = PARTITION * 1 + (i - j) /\ i - j \in 0 .. (PARTITION - 1)
        /\ i + PARTITION - j \in Nat
    BY <1>1, <1>2
  <2>2. (i + PARTITION - j) % PARTITION = i - j
    BY <2>1, <1>1, ModUnique
  <2> QED BY <2>1, <2>2, <1>2 DEF Past, SlotIndex
<1>3. CASE ~(j <= i)
  <2>1. /\ i + PARTITION - j = PARTITION * 0 + (i + PARTITION - j)
        /\ i + PARTITION - j \in 0 .. (PARTITION - 1) /\ i + PARTITION - j \in Nat
    BY <1>1, <1>3
  <2>2. (i + PARTITION - j) % PARTITION = i + PARTITION - j
    BY <2>1, <1>1, ModUnique
  <2> QED BY <2>1, <2>2, <1>3 DEF Past, SlotIndex
<1> QED BY <1>2, <1>3, Zenon

(* Half a cycle back no partition is met twice. *)
LEMMA PastDiffers ==
  ASSUME NEW i \in SlotIndex, NEW j \in 0 .. HalfCycle, NEW k \in 0 .. HalfCycle, Past(i, j) = Past(i, k)
  PROVE  j = k
<1>1. i \in 0 .. PARTITION - 1 /\ j \in Nat /\ k \in Nat /\ j < PARTITION /\ k < PARTITION
      /\ PARTITION \in Nat
  BY Half, Partitions DEF SlotIndex
<1>2. /\ Past(i, j) = IF j <= i THEN i - j ELSE i + PARTITION - j
      /\ Past(i, k) = IF k <= i THEN i - k ELSE i + PARTITION - k
  BY PastIs, Zenon
<1>3. (IF j <= i THEN i - j ELSE i + PARTITION - j) = (IF k <= i THEN i - k ELSE i + PARTITION - k)
  BY <1>2, Zenon
<1> QED BY <1>1, <1>3

LEMMA PastNone == \A i \in SlotIndex : Past(i, 0) = i
<1> TAKE i \in SlotIndex
<1>1. i \in Nat /\ 0 \in 0 .. HalfCycle
  BY Half DEF SlotIndex
<1>2. Past(i, 0) = IF 0 <= i THEN i - 0 ELSE i + PARTITION - 0
  BY <1>1, PastIs, Zenon
<1> QED BY <1>1, <1>2

LEMMA PermitsPast ==
  ASSUME permits \in [SlotIndex -> 0 .. Range32 - 1], NEW i \in SlotIndex, NEW j \in 0 .. HalfCycle
  PROVE  permits[Past(i, j)] \in Nat
<1>1. permits[Past(i, j)] \in 0 .. Range32 - 1
  BY PastIs, Zenon
<1> QED BY <1>1, Partitions

LEMMA GrabBounds ==
  ASSUME permits \in [SlotIndex -> 0 .. Range32 - 1],
         NEW i \in SlotIndex, NEW n \in Nat, NEW s \in Nat, NEW j \in 0 .. HalfCycle
  PROVE  /\ Grab(i, n, s, j) \in 0 .. permits[Past(i, j)]
         /\ n > s => s + Grab(i, n, s, j) <= n
         /\ ~(n > s) => Grab(i, n, s, j) <= 1
<1>1. permits[Past(i, j)] \in Nat
  BY PermitsPast, Zenon
<1> QED BY <1>1 DEF Grab, Least

(* The loop of acquire(n), unfolded: after no partition, and after each. *)
LEMMA AcquiredIs ==
  ASSUME permits \in [SlotIndex -> 0 .. Range32 - 1], NEW i \in SlotIndex, NEW n \in Nat
  PROVE  /\ Acquired(i, n) \in [0 .. HalfCycle -> Nat]
         /\ Acquired(i, n)[0] = permits[i]
         /\ \A j \in 1 .. HalfCycle :
              Acquired(i, n)[j] = Acquired(i, n)[j - 1] + Grab(i, n, Acquired(i, n)[j - 1], j)
<1> DEFINE H == HalfCycle
           Next(g, j) == IF j = 0 THEN permits[i] ELSE g[j - 1] + Grab(i, n, g[j - 1], j)
           S == {m \in Nat : m <= H => \E g \in [0 .. H -> Nat] : \A j \in 0 .. m : g[j] = Next(g, j)}
<1>1. permits[i] \in Nat /\ H \in Nat
  BY Half, Partitions
<1>2. 0 \in S
  <2> DEFINE z == [j \in 0 .. H |-> permits[i]]
  <2>1. z \in [0 .. H -> Nat]
    BY <1>1, Zenon
  <2>2. \A j \in 0 .. 0 : z[j] = Next(z, j)
    BY <1>1
  <2> QED BY <2>1, <2>2, Zenon
<1>3. ASSUME NEW m \in Nat, m \in S PROVE m + 1 \in S
  <2> SUFFICES ASSUME m + 1 <= H
               PROVE  \E g \in [0 .. H -> Nat] : \A j \in 0 .. m + 1 : g[j] = Next(g, j)
    <3>1. m + 1 \in Nat
      OBVIOUS
    <3> QED BY <3>1, Zenon
  <2>1. m <= H /\ m \in 0 .. H /\ m + 1 \in 0 .. H
    BY <1>1
  <2>2. PICK g \in [0 .. H -> Nat] : \A j \in 0 .. m : g[j] = Next(g, j)
    BY <1>3, <2>1, Zenon
  <2> DEFINE v == g[m] + Grab(i, n, g[m], m + 1)
             h == [g EXCEPT ![m + 1] = v]
  <2>3. g[m] \in Nat
    BY <2>1, Zenon
  <2>4. permits[Past(i, m + 1)] \in Nat /\ Grab(i, n, g[m], m + 1) \in 0 .. permits[Past(i, m + 1)]
    BY <2>1, <2>3, PermitsPast, GrabBounds, Zenon
  <2>5. v \in Nat
    BY <2>3, <2>4
  <2> HIDE DEF v
  <2>6. h \in [0 .. H -> Nat] /\ h[m + 1] = v /\ \A j \in 0 .. H : j # m + 1 => h[j] = g[j]
    BY <2>1, <2>5, Zenon
  <2> HIDE DEF h
  <2>7. ASSUME NEW j \in 0 .. m + 1 PROVE h[j] = Next(h, j)
    <3>1. CASE j = m + 1
      <4>1. j # 0 /\ j - 1 = m /\ m # m + 1
        BY <3>1
      <4>2. h[j - 1] = g[m]
        BY <4>1, <2>1, <2>6, Zenon
      <4>3. Next(h, j) = g[m] + Grab(i, n, g[m], m + 1)
        BY <4>1, <4>2, <3>1, Zenon
      <4> QED BY <4>3, <3>1, <2>6, Zenon DEF v
    <3>2. CASE j # m + 1
      <4>1. j \in 0 .. m /\ j \in 0 .. H /\ (j # 0 => j - 1 \in 0 .. H /\ j - 1 # m + 1)
        BY <3>2, <2>1, <1>1
      <4>2. h[j] = g[j] /\ (j # 0 => h[j - 1] = g[j - 1])
        BY <4>1, <3>2, <2>6, Zenon
      <4>3. Next(h, j) = Next(g, j)
        BY <4>2, Zenon
      <4> QED BY <4>1, <4>2, <4>3, <2>2, Zenon
    <3> QED BY <3>1, <3>2, Zenon
  <2> QED BY <2>6, <2>7, Zenon
<1>4. H \in S
  <2> HIDE DEF S
  <2> QED BY <1>1, <1>2, <1>3, Induction, Zenon
<1>5. PICK g \in [0 .. H -> Nat] : \A j \in 0 .. H : g[j] = Next(g, j)
  <2>1. H <= H
    BY <1>1
  <2> QED BY <2>1, <1>4, Zenon
<1>6. g = [j \in 0 .. H |-> IF j = 0 THEN permits[i] ELSE g[j - 1] + Grab(i, n, g[j - 1], j)]
  BY <1>5, Zenon
<1>7. Acquired(i, n) =
        [j \in 0 .. H |-> IF j = 0 THEN permits[i]
                          ELSE Acquired(i, n)[j - 1] + Grab(i, n, Acquired(i, n)[j - 1], j)]
  BY <1>6, Zenon DEF Acquired
<1> DEFINE a == Acquired(i, n)
<1> HIDE DEF a
<1>8. a = [j \in 0 .. H |-> Next(a, j)]
  BY <1>7, Zenon DEF a
<1>9. \A j \in 0 .. H : a[j] = Next(a, j)
  BY <1>8, Zenon
<1> DEFINE U == {m \in Nat : m <= H => a[m] \in Nat}
<1>10. 0 \in U
  <2>1. 0 \in 0 .. H
    BY <1>1
  <2>2. a[0] = permits[i]
    BY <2>1, <1>9, Zenon
  <2> QED BY <2>2, <1>1
<1>11. ASSUME NEW m \in Nat, m \in U PROVE m + 1 \in U
  <2> SUFFICES ASSUME m + 1 <= H PROVE a[m + 1] \in Nat
    <3>1. m + 1 \in Nat
      OBVIOUS
    <3> QED BY <3>1, Zenon
  <2>1. a[m] \in Nat /\ m + 1 \in 0 .. H /\ m + 1 # 0 /\ (m + 1) - 1 = m
    BY <1>11, <1>1
  <2>2. a[m + 1] = a[m] + Grab(i, n, a[m], m + 1)
    BY <2>1, <1>9, Zenon
  <2>3. permits[Past(i, m + 1)] \in Nat /\ Grab(i, n, a[m], m + 1) \in 0 .. permits[Past(i, m + 1)]
    BY <2>1, PermitsPast, GrabBounds, Zenon
  <2> QED BY <2>1, <2>2, <2>3
<1>12. \A m \in Nat : m \in U
  <2> HIDE DEF U
  <2> QED BY <1>10, <1>11, Induction, Zenon
<1>13. \A j \in 0 .. H : j \in Nat /\ j <= H
  BY <1>1
<1>14. \A j \in 0 .. H : a[j] \in Nat
  BY <1>12, <1>13, Zenon
<1>15. a \in [0 .. H -> Nat]
  BY <1>8, <1>9, <1>14, Zenon
<1>16. 0 \in 0 .. H /\ \A j \in 1 .. H : j \in 0 .. H /\ j # 0
  BY <1>1
<1>17. a[0] = permits[i] /\ \A j \in 1 .. H : a[j] = a[j - 1] + Grab(i, n, a[j - 1], j)
  BY <1>9, <1>16, Zenon
<1> QED BY <1>15, <1>17, Zenon DEF a

(* A call that finds too little in its slot gets at most one permit too    *)
(* many from each partition but the first.                                 *)
LEMMA AcquiredBound ==
  ASSUME permits \in [SlotIndex -> 0 .. Range32 - 1], NEW i \in SlotIndex, NEW n \in Nat, permits[i] < n
  PROVE  Acquired(i, n)[HalfCycle] <= n + (Most(HalfCycle, 1) - 1)
<1> DEFINE a == Acquired(i, n)
           S == {m \in Nat : m <= HalfCycle => a[m] <= n + (Most(m, 1) - 1) /\ (m = 0 => a[m] < n)}
<1>1. /\ a \in [0 .. HalfCycle -> Nat] /\ a[0] = permits[i]
      /\ \A j \in 1 .. HalfCycle : a[j] = a[j - 1] + Grab(i, n, a[j - 1], j)
  BY AcquiredIs, Zenon
<1> HIDE DEF a
<1>2. 0 \in S
  BY <1>1, Partitions DEF Most
<1>3. ASSUME NEW m \in Nat, m \in S PROVE m + 1 \in S
  <2> SUFFICES ASSUME m + 1 <= HalfCycle PROVE a[m + 1] <= n + (Most(m + 1, 1) - 1)
    BY <1>3
  <2>1. m \in 0 .. HalfCycle /\ m + 1 \in 1 .. HalfCycle /\ m + 1 \in 0 .. HalfCycle /\ (m + 1) - 1 = m
    BY Half
  <2>2. a[m] \in Nat /\ a[m + 1] = a[m] + Grab(i, n, a[m], m + 1)
    BY <2>1, <1>1, Zenon
  <2>3. /\ Grab(i, n, a[m], m + 1) \in 0 .. permits[Past(i, m + 1)]
        /\ n > a[m] => a[m] + Grab(i, n, a[m], m + 1) <= n
        /\ ~(n > a[m]) => Grab(i, n, a[m], m + 1) <= 1
    BY <2>1, <2>2, GrabBounds, Zenon
  <2>4. permits[Past(i, m + 1)] \in Nat
    BY <2>1, PermitsPast, Zenon
  <2>5. a[m] <= n + (Most(m, 1) - 1) /\ (m = 0 => a[m] < n)
    BY <1>3, <2>1
  <2> DEFINE g == Grab(i, n, a[m], m + 1)
  <2>6. g \in Nat
    BY <2>3, <2>4
  <2> HIDE DEF g
  <2>7. a[m + 1] = a[m] + g /\ (n > a[m] => a[m] + g <= n) /\ (~(n > a[m]) => g <= 1)
    BY <2>2, <2>3, Zenon DEF g
  <2> QED BY <2>2, <2>5, <2>6, <2>7 DEF Most
<1>4. HalfCycle \in S
  <2> HIDE DEF S
  <2> QED BY <1>2, <1>3, Half, Induction, Zenon
<1>5. a[HalfCycle] <= n + (Most(HalfCycle, 1) - 1)
  BY <1>4, Half
<1> QED BY <1>5, Zenon DEF a

(* What a call of acquire(n) leaves and what it takes were there before. *)
Left(i, n) ==
  LET sum == Acquired(i, n)
  IN  [k \in SlotIndex |->
         IF k = i THEN 0
         ELSE IF \E j \in 1 .. HalfCycle : k = Past(i, j)
              THEN LET j == CHOOSE j \in 1 .. HalfCycle : k = Past(i, j)
                   IN  permits[k] - (sum[j] - sum[j - 1])
              ELSE permits[k]]

LEMMA AcquireKeepsTotal ==
  ASSUME permits \in [SlotIndex -> 0 .. Range32 - 1], NEW i \in SlotIndex, NEW n \in Nat
  PROVE  /\ Left(i, n) \in [SlotIndex -> 0 .. Range32 - 1]
         /\ Total(Left(i, n)) + Acquired(i, n)[HalfCycle] = Total(permits)
<1> DEFINE a == Acquired(i, n)
           H == HalfCycle
           At(k) == CHOOSE j \in 1 .. H : k = Past(i, j)
           Rest(k) == permits[k] - (a[At(k)] - a[At(k) - 1])
           L(m) == [k \in SlotIndex |-> IF k = i THEN 0
                                        ELSE IF \E j \in 1 .. m : k = Past(i, j) THEN Rest(k)
                                             ELSE permits[k]]
           S == {m \in Nat : m <= H => Total(L(m)) + a[m] = Total(permits)}
<1>1. /\ a \in [0 .. H -> Nat] /\ a[0] = permits[i]
      /\ \A j \in 1 .. H : a[j] = a[j - 1] + Grab(i, n, a[j - 1], j)
  BY AcquiredIs, Zenon
<1>2. H \in Nat /\ H < PARTITION /\ PARTITION \in Nat \ {0} /\ Range32 \in Nat
  BY Half, Partitions, Zenon
<1>3. \A k \in SlotIndex : permits[k] \in 0 .. Range32 - 1 /\ permits[k] \in Nat
  BY <1>2
<1>4. Left(i, n) = L(H)
  BY Zenon DEF Left
<1> HIDE DEF a
<1>5. ASSUME NEW j \in 1 .. H
      PROVE  /\ At(Past(i, j)) = j /\ Past(i, j) # i
             /\ Rest(Past(i, j)) \in 0 .. permits[Past(i, j)]
             /\ a[j] + Rest(Past(i, j)) = a[j - 1] + permits[Past(i, j)]
             /\ a[j - 1] \in Nat /\ a[j] \in Nat
  <2>1. j \in 0 .. H /\ j - 1 \in 0 .. H /\ 0 \in 0 .. H /\ j # 0 /\ \A k \in 1 .. H : k \in 0 .. H
    BY <1>2
  <2>2. At(Past(i, j)) = j
    BY <2>1, PastDiffers, Zenon
  <2>3. Past(i, j) # i
    BY <2>1, PastDiffers, PastNone, Zenon
  <2>4. a[j - 1] \in Nat /\ a[j] \in Nat /\ Past(i, j) \in SlotIndex
    BY <2>1, <1>1, PastIs, Zenon
  <2> DEFINE g == Grab(i, n, a[j - 1], j)
  <2>5. g \in 0 .. permits[Past(i, j)]
    BY <2>1, <2>4, GrabBounds, Zenon
  <2>6. a[j] = a[j - 1] + g
    BY <1>1, Zenon
  <2> HIDE DEF g
  <2>7. Rest(Past(i, j)) = permits[Past(i, j)] - (a[j] - a[j - 1])
    BY <2>2, Zenon
  <2>8. permits[Past(i, j)] \in Nat
    BY <2>4, <1>3, Zenon
  <2>9. /\ permits[Past(i, j)] - (a[j] - a[j - 1]) \in 0 .. permits[Past(i, j)]
        /\ a[j] + (permits[Past(i, j)] - (a[j] - a[j - 1])) = a[j - 1] + permits[Past(i, j)]
    BY <2>4, <2>5, <2>6, <2>8
  <2> QED BY <2>2, <2>3, <2>4, <2>7, <2>9, Zenon
<1> HIDE DEF At, Rest
<1>6. ASSUME NEW m \in Nat, m <= H PROVE L(m) \in [SlotIndex -> 0 .. Range32 - 1]
  <2>1. ASSUME NEW k \in SlotIndex PROVE L(m)[k] \in 0 .. Range32 - 1
    <3>1. CASE k = i
      <4>1. 0 \in 0 .. Range32 - 1
        BY Partitions
      <4> QED BY <3>1, <4>1, Zenon
    <3>2. CASE k # i /\ \E j \in 1 .. m : k = Past(i, j)
      <4>1. PICK j \in 1 .. m : k = Past(i, j)
        BY <3>2, Zenon
      <4>2. j \in 1 .. H
        BY <1>6, <1>2
      <4>3. Rest(k) \in 0 .. permits[k]
        BY <4>1, <4>2, <1>5, Zenon
      <4>4. permits[k] \in 0 .. Range32 - 1
        BY <1>3, Zenon
      <4>5. Rest(k) \in 0 .. Range32 - 1
        BY <4>3, <4>4, <1>2
      <4> QED BY <4>5, <3>2, Zenon
    <3>3. CASE k # i /\ ~\E j \in 1 .. m : k = Past(i, j)
      BY <3>3, <1>3, Zenon
    <3> QED BY <3>1, <3>2, <3>3, Zenon
  <2> QED BY <2>1, Zenon
<1>7. ASSUME NEW m \in Nat, m <= H PROVE L(m) \in [SlotIndex -> Nat]
  BY <1>6, <1>7, <1>2
<1>8. permits \in [SlotIndex -> Nat]
  BY <1>3, Zenon
<1>9. 0 \in S
  <2>1. L(0) = [permits EXCEPT ![i] = 0]
    <3>1. \A j \in 1 .. 0 : FALSE
      OBVIOUS
    <3> QED BY <3>1, Zenon
  <2>2. Total([permits EXCEPT ![i] = 0]) + permits[i] = Total(permits) + 0
    BY <1>8, TotalExcept, Zenon
  <2>3. Total(permits) + 0 = Total(permits)
    BY <1>8, PoolFinite
  <2> QED BY <2>1, <2>2, <2>3, <1>1, Zenon
<1>10. ASSUME NEW m \in Nat, m \in S PROVE m + 1 \in S
  <2> SUFFICES ASSUME m + 1 <= H PROVE Total(L(m + 1)) + a[m + 1] = Total(permits)
    <3>1. m + 1 \in Nat
      OBVIOUS
    <3> QED BY <3>1, Zenon
  <2> DEFINE p == Past(i, m + 1)
  <2>1. m <= H /\ m + 1 \in 1 .. H /\ (m + 1) - 1 = m /\ m + 1 \in Nat /\ m + 1 \in 0 .. H
    BY <1>2
  <2>2. /\ p # i /\ Rest(p) \in 0 .. permits[p] /\ a[m + 1] + Rest(p) = a[m] + permits[p]
        /\ a[m] \in Nat /\ a[m + 1] \in Nat
    BY <2>1, <1>5, Zenon
  <2>3. p \in SlotIndex /\ permits[p] \in Nat
    BY <2>1, PastIs, <1>3, Zenon
  <2>4. ~\E j \in 1 .. m : p = Past(i, j)
    <3>1. \A j \in 1 .. m : j \in 0 .. H /\ j # m + 1
      BY <1>2
    <3> QED BY <3>1, <2>1, PastDiffers, Zenon
  <2>5. L(m)[p] = permits[p]
    BY <2>2, <2>3, <2>4, Zenon
  <2>6. L(m + 1) = [L(m) EXCEPT ![p] = Rest(p)]
    <3> DEFINE E == [L(m) EXCEPT ![p] = Rest(p)]
    <3>1. ASSUME NEW k \in SlotIndex PROVE L(m + 1)[k] = E[k]
      <4>1. CASE k = p
        <5>1. \E j \in 1 .. m + 1 : k = Past(i, j)
          <6>1. m + 1 \in 1 .. m + 1
            OBVIOUS
          <6> QED BY <6>1, <4>1, Zenon
        <5> QED BY <5>1, <4>1, <2>2, Zenon
      <4>2. CASE k # p
        <5>1. (\E j \in 1 .. m + 1 : k = Past(i, j)) <=> \E j \in 1 .. m : k = Past(i, j)
          <6>1. \A j : j \in 1 .. m + 1 <=> j \in 1 .. m \/ j = m + 1
            OBVIOUS
          <6> QED BY <6>1, <4>2, Zenon
        <5> QED BY <5>1, <4>2, Zenon
      <4> QED BY <4>1, <4>2, Zenon
    <3> QED BY <3>1, Zenon
  <2>7. Rest(p) \in Nat
    BY <2>2, <2>3
  <2>8. Total([L(m) EXCEPT ![p] = Rest(p)]) + L(m)[p] = Total(L(m)) + Rest(p)
    <3>1. L(m) \in [SlotIndex -> Nat]
      BY <2>1, <1>7, Zenon
    <3> HIDE DEF L, p
    <3> QED BY <3>1, <2>3, <2>7, TotalExcept, Zenon
  <2>9. Total(L(m)) \in Nat /\ Total(L(m + 1)) \in Nat /\ Total(permits) \in Nat
    <3>1. L(m) \in [SlotIndex -> Nat] /\ L(m + 1) \in [SlotIndex -> Nat]
      BY <2>1, <1>7, Zenon
    <3> HIDE DEF L
    <3> QED BY <3>1, <1>8, PoolFinite, Zenon
  <2>10. Total(L(m)) + a[m] = Total(permits)
    BY <1>10, <2>1, Zenon
  <2>11. Total(L(m + 1)) + permits[p] = Total(L(m)) + Rest(p)
    BY <2>5, <2>6, <2>8, Zenon
  <2> HIDE DEF L, p
  <2> QED BY <2>2, <2>3, <2>7, <2>9, <2>10, <2>11
<1>11. H \in S
  <2> HIDE DEF S
  <2> QED BY <1>2, <1>9, <1>10, Induction, Zenon
<1>12. H <= H
  BY <1>2
<1> QED BY <1>2, <1>4, <1>6, <1>11, <1>12, Zenon DEF a

(* The inductive invariant of the counts. *)
PermitsInv ==
  /\ RateTypeOK
  /\ wrapped = "no" => granted + Total(permits) <= refilled
  /\ excess <= Most(HalfCycle, 1) - 1

LEMMA PermitsCounted ==
  ASSUME RateTypeOK
  PROVE  permits \in [SlotIndex -> Nat] /\ Total(permits) \in Nat
<1>1. permits \in [SlotIndex -> Nat]
  BY Partitions DEF RateTypeOK
<1> QED BY <1>1, PoolFinite, Zenon

LEMMA PermitTaken ==
  ASSUME RateTypeOK, NEW i \in SlotIndex, NEW n \in Nat, n <= permits[i]
  PROVE  LET p == [permits EXCEPT ![i] = permits[i] - n]
         IN  p \in [SlotIndex -> 0 .. Range32 - 1] /\ Total(p) \in Nat /\ Total(p) + n = Total(permits)
<1> DEFINE v == permits[i] - n
           p == [permits EXCEPT ![i] = v]
<1>1. permits[i] \in 0 .. Range32 - 1 /\ permits[i] \in Nat
  BY PermitsCounted, Zenon DEF RateTypeOK
<1>2. v \in 0 .. Range32 - 1 /\ v \in Nat /\ v + n = permits[i]
  BY <1>1, Partitions
<1> HIDE DEF v
<1>3. p \in [SlotIndex -> 0 .. Range32 - 1] /\ p \in [SlotIndex -> Nat]
  BY <1>2, PermitsCounted, Zenon DEF RateTypeOK
<1>4. Total(p) + permits[i] = Total(permits) + v
  BY <1>2, PermitsCounted, TotalExcept, Zenon
<1>5. Total(p) \in Nat /\ Total(permits) \in Nat
  BY <1>3, PermitsCounted, PoolFinite, Zenon
<1> HIDE DEF p
<1>6. Total(p) + n = Total(permits)
  BY <1>1, <1>2, <1>4, <1>5
<1> QED BY <1>3, <1>5, <1>6, Zenon DEF p, v

LEMMA PermitsStep ==
  ASSUME PermitsInv, [RateNext]_rateVars
  PROVE  PermitsInv'
<1>0. RateTypeOK /\ Total(permits) \in Nat /\ permits \in [SlotIndex -> Nat]
  BY PermitsCounted, Zenon DEF PermitsInv
<1>types. /\ slot \in SlotIndex /\ ticker \in 0 .. PARTITION /\ permits \in [SlotIndex -> 0 .. Range32 - 1]
          /\ acquiring \in [Acquirer -> {"none", "locking", "waiting", "woken"}]
          /\ idx \in [Acquirer -> SlotIndex] /\ want \in [Acquirer -> 0 .. MaxWant]
          /\ granted \in Nat /\ refilled \in Nat /\ excess \in Nat /\ wrapped \in {"no", "slipped", "yes"}
  BY <1>0, Zenon DEF RateTypeOK
<1>inv. (wrapped = "no" => granted + Total(permits) <= refilled) /\ excess <= Most(HalfCycle, 1) - 1
  BY Zenon DEF PermitsInv
<1>w. 0 \in 0 .. MaxWant
  BY RateLimiterConstants
<1>1. CASE UNCHANGED rateVars
  BY <1>1, <1>types, <1>inv, Zenon DEF rateVars, PermitsInv, RateTypeOK, Total, Pool
<1>2. CASE clockAdvances
  BY <1>2, <1>types, <1>inv, SlotInRange, Zenon DEF clockAdvances, PermitsInv, RateTypeOK, Total, Pool
<1>3. CASE tickReadsSlot
  <2>1. slot \in 0 .. PARTITION
    BY <1>types, Partitions DEF SlotIndex
  <2> QED BY <1>3, <2>1, <1>types, <1>inv, Zenon DEF tickReadsSlot, PermitsInv, RateTypeOK, Total, Pool
<1>4. CASE tick
  <2> DEFINE quota == partitionOf(Permit)[ticker]
  <2>1. /\ ticker < PARTITION /\ permits' = [permits EXCEPT ![ticker] = quota]
        /\ ticker' = PARTITION /\ refilled' = refilled + quota
        /\ UNCHANGED <<slot, acquiring, idx, want, granted, excess, wrapped>>
    BY <1>4, Zenon DEF tick
  <2>2. ticker \in SlotIndex /\ PARTITION \in 0 .. PARTITION
    BY <2>1, <1>types, Partitions DEF SlotIndex
  <2>3. quota \in 0 .. Permit
    BY <2>2, Partitions, QuotasAddUp, Zenon
  <2> HIDE DEF quota
  <2>4. quota \in 0 .. Range32 - 1 /\ quota \in Nat /\ refilled + quota \in Nat
    BY <2>3, Partitions, <1>types
  <2>5. permits' \in [SlotIndex -> 0 .. Range32 - 1] /\ permits' \in [SlotIndex -> Nat]
    BY <2>1, <2>4, <1>types, <1>0, Zenon
  <2>6. Total(permits') + permits[ticker] = Total(permits) + quota
    BY <2>1, <2>2, <2>4, <1>0, TotalExcept, Zenon
  <2>7. Total(permits') \in Nat /\ permits[ticker] \in Nat
    BY <2>2, <2>5, <1>0, PoolFinite, Zenon
  <2>8. wrapped' = "no" => granted' + Total(permits') <= refilled'
    BY <2>1, <2>4, <2>6, <2>7, <1>types, <1>inv, <1>0
  <2> QED BY <2>1, <2>2, <2>4, <2>5, <2>8, <1>types, <1>inv, Zenon DEF PermitsInv, RateTypeOK, Total, Pool
<1>5. ASSUME NEW t \in Acquirer, acquire(t) PROVE PermitsInv'
  <2> DEFINE i == idx[t]
             n == want[t]
             all == Acquired(i, n)[HalfCycle]
  <2>1. Returns(t) /\ UNCHANGED <<slot, ticker, refilled, wrapped>>
    BY <1>5, ZenonT(60) DEF acquire
  <2>2. i \in SlotIndex /\ n \in Nat /\ permits[i] \in Nat
    BY <1>types, <1>0, RateLimiterConstants
  <2>3. IF permits[i] >= n
        THEN permits' = [permits EXCEPT ![i] = permits[i] - n] /\ granted' = granted + n /\ UNCHANGED excess
        ELSE /\ permits' = Left(i, n) /\ granted' = granted + all
             /\ excess' = Most(excess, IF all > n THEN all - n ELSE 0)
    BY <1>5, ZenonT(60) DEF acquire, Left
  <2> HIDE DEF i, n, all
  <2>4. CASE permits[i] >= n
    <3>1. permits' = [permits EXCEPT ![i] = permits[i] - n] /\ granted' = granted + n /\ UNCHANGED excess
      BY <2>3, <2>4, Zenon
    <3>2. n <= permits[i] /\ granted + n \in Nat
      BY <2>2, <2>4, <1>types
    <3>3. permits' \in [SlotIndex -> 0 .. Range32 - 1] /\ Total(permits') \in Nat
          /\ Total(permits') + n = Total(permits)
      BY <3>1, <3>2, <2>2, <1>0, PermitTaken, Zenon
    <3>4. wrapped' = "no" => granted' + Total(permits') <= refilled'
      BY <2>1, <2>2, <3>1, <3>3, <1>types, <1>inv, <1>0
    <3> QED BY <2>1, <3>1, <3>2, <3>3, <3>4, <1>types, <1>inv, <1>w, SlotInRange, Zenon
            DEF Returns, PermitsInv, RateTypeOK, Total, Pool
  <2>5. CASE ~(permits[i] >= n)
    <3>1. /\ permits' = Left(i, n) /\ granted' = granted + all
          /\ excess' = Most(excess, IF all > n THEN all - n ELSE 0)
      BY <2>3, <2>5, Zenon
    <3>2. permits[i] < n
      BY <2>2, <2>5
    <3>3. all \in Nat /\ HalfCycle \in Nat
      <4>1. HalfCycle \in 0 .. HalfCycle /\ HalfCycle \in Nat
        BY Half
      <4> QED BY <4>1, <2>2, <1>types, AcquiredIs, Zenon DEF all
    <3>4. permits' \in [SlotIndex -> 0 .. Range32 - 1] /\ Total(permits') + all = Total(permits)
      BY <3>1, <2>2, <1>types, AcquireKeepsTotal, Zenon DEF all
    <3>5. Total(permits') \in Nat
      <4>1. permits' \in [SlotIndex -> Nat]
        BY <3>4, Partitions
      <4> QED BY <4>1, PoolFinite, Zenon
    <3>6. all <= n + (Most(HalfCycle, 1) - 1)
      BY <3>2, <2>2, <1>types, AcquiredBound, Zenon DEF all
    <3>7. wrapped' = "no" => granted' + Total(permits') <= refilled'
      BY <2>1, <3>1, <3>3, <3>4, <3>5, <1>types, <1>inv, <1>0
    <3>8. granted' \in Nat /\ excess' \in Nat /\ excess' <= Most(HalfCycle, 1) - 1
      BY <2>2, <3>1, <3>3, <3>6, <1>types, <1>inv DEF Most
    <3> QED BY <2>1, <3>4, <3>7, <3>8, <1>types, <1>inv, <1>w, SlotInRange, Zenon
            DEF Returns, PermitsInv, RateTypeOK, Total, Pool
  <2> QED BY <2>4, <2>5, Zenon
<1>6. ASSUME NEW t \in Acquirer, acquireOne(t) PROVE PermitsInv'
  <2>1. UNCHANGED <<slot, ticker, refilled, excess, wrapped>>
    BY <1>6, Zenon DEF acquireOne
  <2>2. CASE HasPermit(idx[t]) = {}
    <3>1. acquiring' = [acquiring EXCEPT ![t] = "waiting"] /\ UNCHANGED <<permits, granted, idx, want>>
      BY <1>6, <2>2, Zenon DEF acquireOne
    <3> QED BY <2>1, <3>1, <1>types, <1>inv, Zenon DEF PermitsInv, RateTypeOK, Total, Pool
  <2>3. CASE HasPermit(idx[t]) # {}
    <3> DEFINE j == CHOOSE j \in HasPermit(idx[t]) : \A k \in HasPermit(idx[t]) : j <= k
               i == Past(idx[t], j)
    <3>1. /\ permits' = [permits EXCEPT ![i] = permits[i] - 1] /\ granted' = granted + 1 /\ Returns(t)
      BY <1>6, <2>3, Zenon DEF acquireOne
    <3>2. \A k \in HasPermit(idx[t]) : k \in Nat
      BY Half DEF HasPermit
    <3>3. \E k \in HasPermit(idx[t]) : \A m \in HasPermit(idx[t]) : k <= m
      <4> DEFINE T == HasPermit(idx[t])
      <4>1. T \subseteq Nat /\ T # {}
        BY <3>2, <2>3, Zenon
      <4> HIDE DEF T
      <4>2. PICK k \in T : \A m \in T : ~(<<m, k>> \in OpToRel(<, Nat))
        BY <4>1, NatLessThanWellFounded, WFMin, Zenon
      <4>3. \A m \in T : ~(m < k)
        BY <4>1, <4>2, Zenon DEF OpToRel
      <4>4. \A m \in T : k <= m
        BY <4>1, <4>3
      <4> QED BY <4>4, Zenon DEF T
    <3>4. j \in HasPermit(idx[t])
      BY <3>3, Zenon
    <3>5. idx[t] \in SlotIndex
      BY <1>types, Zenon
    <3> HIDE DEF j
    <3>6. j \in 0 .. HalfCycle /\ permits[i] > 0
      BY <3>4, Zenon DEF HasPermit
    <3>7. i \in SlotIndex
      BY <3>5, <3>6, PastIs, Zenon
    <3> HIDE DEF i
    <3>8. permits[i] \in Nat
      BY <3>7, <1>0, Zenon
    <3>9. 1 <= permits[i] /\ 1 \in Nat /\ granted + 1 \in Nat
      BY <3>6, <3>8, <1>types
    <3>10. permits' \in [SlotIndex -> 0 .. Range32 - 1] /\ Total(permits') \in Nat
           /\ Total(permits') + 1 = Total(permits)
      BY <3>1, <3>7, <3>9, <1>0, PermitTaken, Zenon
    <3>11. wrapped' = "no" => granted' + Total(permits') <= refilled'
      BY <2>1, <3>1, <3>10, <1>types, <1>inv, <1>0
    <3> QED BY <2>1, <3>1, <3>9, <3>10, <3>11, <1>types, <1>inv, <1>w, SlotInRange, Zenon
            DEF Returns, PermitsInv, RateTypeOK, Total, Pool
  <2> QED BY <2>2, <2>3, Zenon
<1>7. ASSUME NEW t \in Acquirer, wakes(t) PROVE PermitsInv'
  BY <1>7, <1>types, <1>inv, Zenon DEF wakes, PermitsInv, RateTypeOK, Total, Pool
<1>8. ASSUME NEW t \in Acquirer, takes(t) PROVE PermitsInv'
  <2>1. /\ Returns(t) /\ UNCHANGED <<slot, ticker, refilled, excess>>
        /\ permits' = [permits EXCEPT ![slot] = (permits[slot] + Range32 - 1) % Range32]
        /\ granted' = granted + 1
        /\ wrapped' = IF permits[slot] > 0 \/ wrapped = "yes" THEN wrapped
                      ELSE IF idx[t] # slot THEN "slipped" ELSE "yes"
    BY <1>8, Zenon DEF takes
  <2>2. permits[slot] \in 0 .. Range32 - 1 /\ permits[slot] \in Nat
    BY <1>types, <1>0, Zenon
  <2> DEFINE v == (permits[slot] + Range32 - 1) % Range32
  <2>3. v \in 0 .. Range32 - 1
    <3>1. Range32 \in Nat \ {0} /\ permits[slot] + Range32 - 1 \in Nat
      BY <2>2, Partitions
    <3> QED BY <3>1, DivMod, Zenon
  <2>4. permits[slot] > 0 => v = permits[slot] - 1
    <3> HAVE permits[slot] > 0
    <3>1. /\ Range32 \in Nat \ {0} /\ permits[slot] + Range32 - 1 \in Nat
          /\ permits[slot] - 1 \in 0 .. (Range32 - 1)
          /\ permits[slot] + Range32 - 1 = Range32 * 1 + (permits[slot] - 1)
      BY <2>2, Partitions
    <3> QED BY <3>1, ModUnique
  <2> HIDE DEF v
  <2>5. permits' = [permits EXCEPT ![slot] = v]
    BY <2>1, Zenon DEF v
  <2>6. permits' \in [SlotIndex -> 0 .. Range32 - 1]
    BY <2>3, <2>5, <1>types, Zenon
  <2>7. wrapped' \in {"no", "slipped", "yes"} /\ granted + 1 \in Nat
    BY <2>1, <1>types
  <2>8. wrapped' = "no" => granted' + Total(permits') <= refilled'
    <3> HAVE wrapped' = "no"
    <3>1. wrapped = "no" /\ permits[slot] > 0
      BY <2>1, Zenon
    <3>2. 1 <= permits[slot] /\ 1 \in Nat
      BY <3>1, <2>2
    <3>3. permits' = [permits EXCEPT ![slot] = permits[slot] - 1]
      BY <3>1, <2>4, <2>5, Zenon
    <3>4. Total(permits') \in Nat /\ Total(permits') + 1 = Total(permits)
      BY <3>2, <3>3, <1>types, <1>0, PermitTaken, Zenon
    <3> QED BY <2>1, <3>1, <3>4, <1>types, <1>inv, <1>0
  <2> QED BY <2>1, <2>6, <2>7, <2>8, <1>types, <1>inv, <1>w, SlotInRange, Zenon
          DEF Returns, PermitsInv, RateTypeOK, Total, Pool
<1>9. ASSUME NEW t \in Acquirer, NEW n \in 0 .. MaxWant, acquireReadsSlot(t, n) PROVE PermitsInv'
  BY <1>9, <1>types, <1>inv, Zenon DEF acquireReadsSlot, PermitsInv, RateTypeOK, Total, Pool
<1> QED BY <1>1, <1>2, <1>3, <1>4, <1>5, <1>6, <1>7, <1>8, <1>9, Zenon DEF RateNext

(* For any number of threads, partitions and permits, and with counts that *)
(* wrap round: the constructor distributes exactly the permits it is       *)
(* given; threads get no more than ticks have put in, as long as no count  *)
(* fell below zero, which takes a clock that moved on between a wake-up    *)
(* and the decrement; and acquire(n) gets at most one permit too many from *)
(* each past partition but the first.                                      *)
THEOREM RateLimiterCorrect == RateSpec => []RateLimiterInv
<1>1. RateInit => PermitsInv
  <2> SUFFICES ASSUME RateInit PROVE PermitsInv
    BY Zenon
  <2>1. Pool(permits) = {}
    <3>1. \A i \in SlotIndex : permits[i] = 0
      BY Zenon DEF RateInit
    <3> QED BY <3>1 DEF Pool
  <2>2. Total(permits) = 0
    BY <2>1, FS_EmptySet, Zenon DEF Total
  <2>3. RateTypeOK
    BY Partitions, RateLimiterConstants DEF RateInit, RateTypeOK, SlotIndex
  <2>4. granted + Total(permits) <= refilled /\ excess <= Most(HalfCycle, 1) - 1
    BY <2>2, Half DEF RateInit, Most
  <2> QED BY <2>3, <2>4, Zenon DEF PermitsInv
<1>2. QuotasExact
  <2>1. \A p \in 0 .. Range32 : p \in Nat
    BY Partitions
  <2> QED BY <2>1, QuotasAddUp, Zenon DEF QuotasExact
<1>3. PermitsInv /\ wrapped # "yes" => RateLimiterInv
  BY <1>2, Zenon DEF PermitsInv, RateLimiterInv
<1>4. RateInit => WokenInv
  BY SlotInRange, Zenon DEF RateInit, WokenInv
<1>5. WokenInv => wrapped # "yes"
  BY Zenon DEF WokenInv
<1> QED BY <1>1, <1>3, <1>4, <1>5, PermitsStep, WokenStep, PTL DEF RateSpec
=============================================================================
