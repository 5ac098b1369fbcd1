----------------------------- MODULE WaitNotify -----------------------------
(***************************************************************************)
(* The places where a thread waits on a condition variable for another     *)
(* thread: the starts of the thread pool, the scheduler, the trace         *)
(* exporter and the admin server, CountdownLatch::await, the synchronous   *)
(* pull, listMessageQueue and fetchRoutes.                                 *)
(***************************************************************************)
EXTENDS Naturals, FiniteSets

CONSTANTS
  Protocol,  \* the protocols to look at
  Count      \* workers of a pool, initial count of a latch, topics to fetch

(* How a wait and its notification are written: whether the flag is set    *)
(* before the lock is taken to signal, whether the waiter looks at the     *)
(* flag under the lock it sleeps with, whether it looks again once woken,  *)
(* and whether every notifier signals or only the last one.                *)
Wait(setsOutside, checksUnder, looksAgain, each) ==
  [setsOutside |-> setsOutside, checksUnder |-> checksUnder, looksAgain |-> looksAgain,
   each |-> each]

poolStart == Wait(TRUE, TRUE, FALSE, FALSE)
schedulerStart == Wait(TRUE, TRUE, FALSE, FALSE)
exporterStart == Wait(FALSE, FALSE, FALSE, FALSE)
latchAwait == Wait(FALSE, TRUE, TRUE, FALSE)
pullAwait == Wait(FALSE, TRUE, TRUE, FALSE)
listMessageQueue == Wait(FALSE, FALSE, TRUE, FALSE)
fetchRoutes == Wait(FALSE, FALSE, TRUE, TRUE)
adminStart == Wait(TRUE, TRUE, TRUE, FALSE)

Written ==
  [pool |-> poolStart, scheduler |-> schedulerStart, exporter |-> exporterStart,
   latch |-> latchAwait, pull |-> pullAwait, listMessageQueue |-> listMessageQueue,
   fetchRoutes |-> fetchRoutes, admin |-> adminStart]

ASSUME WaitConstants == Protocol \subseteq DOMAIN Written /\ Count \in Nat \ {0}

VARIABLES
  protocol,   \* the one of this behaviour
  waiter,     \* "check" the flag, "gap": saw it unset outside the lock, "asleep", "back"
  pending,    \* notifier threads (pool workers, countdowns) that have not begun
  notifying,  \* one of them has set the flag and not yet signalled
  flag,       \* state STARTED, completed, or the count reached zero
  stopped,    \* admin: stop() has been called
  missed      \* history: the last signal came in the gap

waitVars == <<protocol, waiter, pending, notifying, flag, stopped, missed>>

WaitTypeOK ==
  /\ protocol \in Protocol /\ waiter \in {"check", "gap", "asleep", "back"}
  /\ pending \in 0 .. Count /\ notifying \in BOOLEAN /\ flag \in BOOLEAN /\ stopped \in BOOLEAN
  /\ missed \in BOOLEAN

(* start() spawns its workers before it waits; asyncPublishInfo and pull   *)
(* have been called.  The exporter never looks at a flag.                  *)
WaitInit ==
  /\ protocol \in Protocol
  /\ waiter = IF protocol = "exporter" THEN "gap" ELSE "check"
  /\ pending = IF protocol \in {"pool", "scheduler", "latch", "fetchRoutes"} THEN Count ELSE 1
  /\ notifying = FALSE /\ flag = FALSE /\ stopped = FALSE /\ missed = FALSE

how == Written[protocol]

Wake == IF waiter # "asleep" THEN waiter ELSE IF how.looksAgain THEN "check" ELSE "back"

noteMissed == missed' = (waiter = "gap")

(* AwaitPullCallback::onSuccess, the callbacks of listMessageQueue and of  *)
(* fetchRoutes, the poller of the exporter, CountdownLatch::countdown.     *)
notifyAtOnce ==
  /\ ~how.setsOutside /\ pending > 0 /\ pending' = pending - 1
  /\ flag' = (pending = 1)
  /\ waiter' = IF pending = 1 \/ how.each THEN Wake ELSE waiter
  /\ IF pending = 1 THEN noteMissed ELSE UNCHANGED missed
  /\ UNCHANGED <<protocol, notifying, stopped>>

(* A worker of ThreadPoolImpl or SchedulerImpl: the first one moves the    *)
(* state; the loop thread of AdminServerImpl.                              *)
workerSets ==
  /\ how.setsOutside /\ pending > 0 /\ pending' = pending - 1
  /\ notifying' = (notifying \/ ~flag) /\ flag' = TRUE
  /\ UNCHANGED <<protocol, waiter, stopped, missed>>

workerSignals ==
  /\ notifying /\ notifying' = FALSE /\ waiter' = Wake /\ noteMissed
  /\ UNCHANGED <<protocol, pending, flag, stopped>>

looksFirst ==                     \* mutant: the flag is read before the lock is taken
  /\ waiter = "check"
  /\ waiter' = IF flag THEN "back" ELSE "gap"
  /\ UNCHANGED <<protocol, pending, notifying, flag, stopped, missed>>

(* The waiter looks and, under the lock, goes to sleep. *)
waiterChecks ==
  /\ waiter = "check"
  /\ waiter' = IF flag /\ ~stopped THEN "back"
               ELSE IF how.checksUnder THEN "asleep" ELSE "gap"
  /\ UNCHANGED <<protocol, pending, notifying, flag, stopped, missed>>

waiterSleeps ==
  /\ waiter = "gap" /\ waiter' = "asleep"
  /\ UNCHANGED <<protocol, pending, notifying, flag, stopped, missed>>

(* AdminServerImpl::stop by another thread: the state leaves STARTED. *)
adminStop ==
  /\ protocol = "admin" /\ flag /\ ~stopped /\ stopped' = TRUE
  /\ UNCHANGED <<protocol, waiter, pending, notifying, flag, missed>>

WaitStep == notifyAtOnce \/ workerSets \/ workerSignals \/ waiterChecks \/ waiterSleeps
WaitNext == WaitStep \/ adminStop

-----------------------------------------------------------------------------
(* Properties. *)

(* Whoever waits comes back once the last notifier has begun: no signal is *)
(* lost where the look at the flag and the sleep share a critical section, *)
(* whatever the order of setting it and signalling.  The three that do not *)
(* (the start of the exporter, listMessageQueue, fetchRoutes) sleep on if  *)
(* the last signal comes between look and sleep, and the start of the      *)
(* admin server if the server is stopped before its starter has looked.    *)
WaitersReturn ==
  pending = 0 ~> \/ waiter = "back"
                 \/ ~how.checksUnder /\ missed
                 \/ stopped
=============================================================================
