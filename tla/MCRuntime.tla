----------------------------- MODULE MCRuntime ------------------------------
(***************************************************************************)
(* The runtime of a client for TLC: the manager, the command cycles, the   *)
(* ending of transactions, the lifecycle, a broadcasting consumer and the  *)
(* threads that wait for one another.  The six share no state; a behaviour *)
(* is one of part's, the others stay in their initial states.              *)
(***************************************************************************)
EXTENDS ClientManager, PollCommand, Transaction, Lifecycle, Broadcast, WaitNotify

CONSTANT t1

VARIABLE part

vars == <<part, mgrVars, pollVars, txnVars, lifeVars, broadcastVars, waitVars>>

EnderValue == {<<t1, "application">>, <<t1, "orphan">>}

(* The inputs of a part that does not move are fixed. *)
Init ==
  /\ part \in {"manager", "poll", "transaction", "lifecycle", "broadcast", "wait"}
  /\ part # "wait" => protocol = "pull"
  /\ ManagerInit /\ PollInit /\ TransactionInit /\ LifecycleInit /\ BroadcastInit /\ WaitInit

(* The rest of the process while one part moves. *)
Only(name) ==
  /\ part = name /\ UNCHANGED part
  /\ name # "manager" => UNCHANGED mgrVars
  /\ name # "poll" => UNCHANGED pollVars
  /\ name # "transaction" => UNCHANGED txnVars
  /\ name # "lifecycle" => UNCHANGED lifeVars
  /\ name # "broadcast" => UNCHANGED broadcastVars
  /\ name # "wait" => UNCHANGED waitVars

Next ==
  \/ Only("manager") /\ ManagerNext
  \/ Only("poll") /\ PollNext
  \/ Only("transaction") /\ TransactionNext
  \/ Only("lifecycle") /\ LifecycleNext
  \/ Only("broadcast") /\ BroadcastNext
  \/ Only("wait") /\ WaitNext

(* The manager's threads go on while the process lives: shutdown, the      *)
(* completions (of calls with a deadline, so not of send) and the health   *)
(* check, which a reachable endpoint passes again and again.  A pool       *)
(* thread runs its task to the end, a pull is answered again and again,    *)
(* and the threads that wait and notify run.                               *)
Manager(step) == part = "manager" /\ mgrCrash = "no" /\ step

Fairness ==
  /\ WF_mgrVars(Manager(shutdownStep))
  /\ \A c \in AnyCall :
       WF_mgrVars(Manager(CompletionStep(c) \/ (call[c].rpc # "send" /\ pollCompletionQueue(c))))
  /\ SF_mgrVars(Manager(callbackReturns("healthCheck", "OK", FALSE)))
  /\ WF_mgrVars(Manager(taskBegins("healthCheck") \/ TaskStep("healthCheck")))
  /\ \A e \in Ender : WF_txnVars(part = "transaction" /\ EnderStep(e))
  /\ WF_broadcastVars(part = "broadcast" /\ WorkerStep)
  /\ WF_broadcastVars(part = "broadcast" /\ CycleProgress)
  /\ SF_broadcastVars(part = "broadcast" /\ onPull)
  /\ WF_waitVars(part = "wait" /\ WaitStep)

Spec == Init /\ [][Next]_vars /\ Fairness
=============================================================================
