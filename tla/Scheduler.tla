----------------------------- MODULE Scheduler ------------------------------
(***************************************************************************)
(* SchedulerImpl: timer tasks in a map by id, which owns them; the timers  *)
(* hold weak references.  The id counter is a function-local static, so it *)
(* is shared by all schedulers of the process, while each guards it with a *)
(* mutex of its own: an increment is a read and a write.                   *)
(***************************************************************************)
EXTENDS Integers, FiniteSets

CONSTANTS
  Once, Repeated,   \* tasks without and with an interval
  SchedulerOf,      \* the scheduler a task is given to
  MaxRuns           \* bound: runs of a task

Task == Once \cup Repeated
Schedulers == {SchedulerOf[t] : t \in Task}

ASSUME SchedulerConstants ==
  Once \cap Repeated = {} /\ IsFiniteSet(Once \cup Repeated) /\ MaxRuns \in Nat \ {0, 1}

VARIABLES
  task_id,     \* the static counter
  seen,        \* the count a schedule() that holds its mutex has read, -1: none
  id,          \* ids given, 0: not yet scheduled
  tasks,       \* the tasks in the tasks_ of their scheduler
  timer,       \* tasks with an armed timer
  running,     \* tasks whose callback runs
  runs,        \* runs begun
  state,       \* of each scheduler: STARTED, STOPPING or STOPPED
  cancelled,   \* history: runs begun when the task was cancelled, -1: it was not
  mixedUp      \* history: schedule() has run on two schedulers at the same time

schedulerVars == <<task_id, seen, id, tasks, timer, running, runs, state, cancelled, mixedUp>>

Peers(t) == {u \in Task : SchedulerOf[u] = SchedulerOf[t]}
MutexFree(t) == \A u \in Peers(t) : seen[u] < 0
SameId(t) == {u \in Peers(t) \cap tasks : id[u] = id[t]}

SchedulerTypeOK ==
  /\ task_id \in 0 .. Cardinality(Task) /\ seen \in [Task -> -1 .. Cardinality(Task)]
  /\ id \in [Task -> 0 .. Cardinality(Task)]
  /\ tasks \subseteq Task /\ timer \subseteq tasks /\ running \subseteq Task
  /\ runs \in [Task -> 0 .. MaxRuns] /\ cancelled \in [Task -> -1 .. MaxRuns]
  /\ state \in [Schedulers -> {"STARTED", "STOPPING", "STOPPED"}] /\ mixedUp \in BOOLEAN

SchedulerInit ==
  /\ task_id = 0 /\ seen = [t \in Task |-> -1] /\ id = [t \in Task |-> 0]
  /\ tasks = {} /\ timer = {} /\ running = {} /\ runs = [t \in Task |-> 0]
  /\ state = [s \in Schedulers |-> "STARTED"] /\ cancelled = [t \in Task |-> -1]
  /\ mixedUp = FALSE

scheduleReads(t) ==
  /\ id[t] = 0 /\ MutexFree(t)
  /\ seen' = [seen EXCEPT ![t] = task_id]
  /\ mixedUp' = (mixedUp \/ \E u \in Task : seen[u] >= 0)
  /\ UNCHANGED <<task_id, id, tasks, timer, running, runs, state, cancelled>>

(* insert() keeps the task that has the id already; the new one then dies  *)
(* with the return of schedule(), and its timer with it.                   *)
scheduleInserts(t) ==
  LET n     == seen[t] + 1
      taken == \E u \in Peers(t) \cap tasks : id[u] = n
  IN  /\ seen[t] >= 0 /\ seen' = [seen EXCEPT ![t] = -1]
      /\ task_id' = n /\ id' = [id EXCEPT ![t] = n]
      /\ tasks' = IF taken THEN tasks ELSE tasks \cup {t}
      /\ timer' = IF taken THEN timer ELSE timer \cup {t}
      /\ UNCHANGED <<running, runs, state, cancelled, mixedUp>>

Erase(gone) == tasks' = tasks \ gone /\ timer' = timer \ gone

cancel(t) ==
  /\ id[t] > 0 /\ cancelled[t] < 0 /\ MutexFree(t)
  /\ cancelled' = [cancelled EXCEPT ![t] = runs[t]]
  /\ Erase(SameId(t))
  /\ UNCHANGED <<task_id, seen, id, running, runs, state, mixedUp>>

(* A timer fires on a worker and finds its task alive. *)
executeBegins(t) ==
  /\ t \in timer /\ state[SchedulerOf[t]] # "STOPPED" /\ runs[t] < MaxRuns
  /\ timer' = timer \ {t} /\ running' = running \cup {t} /\ runs' = [runs EXCEPT ![t] = @ + 1]
  /\ UNCHANGED <<task_id, seen, id, tasks, state, cancelled, mixedUp>>

rearmsFirst(t) ==                 \* mutant: a cancelled task's timer is armed again
  /\ t \in running /\ running' = running \ {t} /\ MutexFree(t)
  /\ IF t \in Repeated THEN tasks' = tasks \cup {t} /\ timer' = timer \cup {t}
     ELSE Erase(SameId(t))
  /\ UNCHANGED <<task_id, seen, id, runs, state, cancelled, mixedUp>>

(* After the callback: a repeated task arms its timer again, which is to   *)
(* no avail if it was cancelled meanwhile; another cancels its own id.     *)
executeEnds(t) ==
  /\ t \in running /\ running' = running \ {t} /\ MutexFree(t)
  /\ IF t \in Repeated THEN timer' = timer \cup ({t} \cap tasks) /\ UNCHANGED tasks
     ELSE Erase(SameId(t))
  /\ UNCHANGED <<task_id, seen, id, runs, state, cancelled, mixedUp>>

(* shutdown0: no owner is left; then the context stops and the workers are *)
(* joined, each after the callback it is in.                               *)
shutdownBegins(s) ==
  /\ state[s] = "STARTED" /\ state' = [state EXCEPT ![s] = "STOPPING"]
  /\ \A t \in Task : SchedulerOf[t] = s => seen[t] < 0
  /\ Erase({t \in Task : SchedulerOf[t] = s})
  /\ UNCHANGED <<task_id, seen, id, running, runs, cancelled, mixedUp>>

shutdownEnds(s) ==
  /\ state[s] = "STOPPING" /\ state' = [state EXCEPT ![s] = "STOPPED"]
  /\ \A t \in running : SchedulerOf[t] # s
  /\ UNCHANGED <<task_id, seen, id, tasks, timer, running, runs, cancelled, mixedUp>>

SchedulerNext ==
  \/ \E t \in Task : scheduleReads(t) \/ scheduleInserts(t) \/ cancel(t)
                     \/ executeBegins(t) \/ executeEnds(t)
  \/ \E s \in Schedulers : shutdownBegins(s) \/ shutdownEnds(s)

-----------------------------------------------------------------------------
(* Properties. *)

Finished(t) == t \in Once /\ runs[t] = 1

(* A task without interval runs at most once.  No run begins after         *)
(* cancel() has returned, whatever the callback was doing meanwhile, nor   *)
(* is any in progress once shutdown() has.  A task that was neither        *)
(* cancelled nor is finished is still owned by its running scheduler,      *)
(* unless schedulers raced for the counter: then an id may be given twice, *)
(* and one of the tasks is lost.                                           *)
SchedulerInv ==
  /\ SchedulerTypeOK
  /\ \A t \in Once : runs[t] <= 1
  /\ \A t \in Task :
       /\ cancelled[t] >= 0 => runs[t] = cancelled[t]
       /\ state[SchedulerOf[t]] = "STOPPED" => t \notin running
       /\ id[t] > 0 /\ state[SchedulerOf[t]] = "STARTED" /\ cancelled[t] < 0 /\ ~Finished(t)
            => t \in tasks \/ mixedUp
=============================================================================
