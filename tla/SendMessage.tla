----------------------------- MODULE SendMessage ----------------------------
(***************************************************************************)
(* A producer sending messages: ProducerImpl::send in its synchronous and  *)
(* asynchronous form, send0 and sendImpl, the retries of RetrySendCallback,*)
(* the AwaitSendCallback a synchronous send waits on, the completion of a  *)
(* send RPC in ClientManagerImpl, and the producer's shutdown.             *)
(*                                                                         *)
(* A request may reach the broker after the client has given up on it.     *)
(***************************************************************************)
EXTENDS Naturals, Sequences, FiniteSets

CONSTANTS
  Send,          \* the sends
  Sync,          \* those that are synchronous
  Broker,
  Lists,         \* candidate lists that queue selection may return
  MaxAttempts    \* max_attempt_times_

(* takeMessageQueues lists no two queues of a broker; a message with a     *)
(* group or a queue of its own has one candidate.                          *)
ASSUME SendConstants ==
  /\ Sync \subseteq Send
  /\ MaxAttempts \in Nat \ {0}
  /\ Lists \subseteq Seq(Broker) /\ <<>> \notin Lists
  /\ \A l \in Lists : \A i, j \in 1..Len(l) : l[i] = l[j] => i = j

VARIABLES
  state,     \* of the producer; "GONE" when it has been destructed
  pc,        \* where each send is
  list,      \* candidates_
  attempt,   \* attempt_times_
  sent,      \* the brokers that requests of the send went to, in order
  stored,    \* the requests whose message the broker has stored
  calls,     \* invocations of the send's callback
  flag,      \* AwaitSendCallback: completed_
  err,       \* AwaitSendCallback: ec_ is set
  thread,    \* the thread of a synchronous send
  ret,       \* what the synchronous send returned
  crashed    \* a null client_manager_ has been dereferenced

rpcVars == <<list, attempt, sent, stored>>
awaitVars == <<flag, err, thread, ret>>
vars == <<state, pc, rpcVars, calls, awaitVars, crashed>>

PC == {"idle", "lookup", "rpc", "ok", "error", "setEc", "signal", "over", "lost"}

TypeOK ==
  /\ state \in {"STARTED", "STOPPING", "STOPPED", "GONE"}
  /\ pc \in [Send -> PC]
  /\ list \in [Send -> Lists \cup {<<>>}]
  /\ attempt \in [Send -> 0..MaxAttempts]
  /\ sent \in [Send -> Seq(Broker)]
  /\ stored \in [Send -> SUBSET (1..MaxAttempts)]
  /\ calls \in [Send -> Seq({"success", "failure"})]
  /\ flag \in [Send -> BOOLEAN] /\ err \in [Send -> BOOLEAN]
  /\ thread \in [Send -> {"out", "await", "asleep", "read"}]
  /\ ret \in [Send -> {"none", "success", "failure"}]
  /\ crashed \in BOOLEAN

Init ==
  /\ state = "STARTED"
  /\ pc = [s \in Send |-> "idle"]
  /\ list = [s \in Send |-> <<>>]
  /\ attempt = [s \in Send |-> 0]
  /\ sent = [s \in Send |-> <<>>]
  /\ stored = [s \in Send |-> {}]
  /\ calls = [s \in Send |-> <<>>]
  /\ flag = [s \in Send |-> FALSE] /\ err = [s \in Send |-> FALSE]
  /\ thread = [s \in Send |-> "out"]
  /\ ret = [s \in Send |-> "none"]
  /\ crashed = FALSE

goTo(s, at) == pc' = [pc EXCEPT ![s] = at]

NoCrash == ~crashed /\ UNCHANGED crashed

(* client_manager_ is used: it is null once ClientImpl::shutdown is through. *)
UsesManager == ~crashed /\ crashed' = (state = "STOPPED")

invoke(s, verdict) == calls' = [calls EXCEPT ![s] = Append(@, verdict)]

-----------------------------------------------------------------------------
(* send: the check of the state.  The asynchronous form reports the        *)
(* failure to its callback and goes on all the same.                       *)
send(s) ==
  /\ pc[s] = "idle" /\ state # "GONE"
  /\ IF state = "STARTED" THEN goTo(s, "lookup") /\ UNCHANGED <<calls, ret>>
     ELSE IF s \in Sync
          THEN /\ goTo(s, "over") /\ ret' = [ret EXCEPT ![s] = "failure"]
               /\ UNCHANGED calls
          ELSE goTo(s, "lookup") /\ invoke(s, "failure") /\ UNCHANGED ret
  /\ UNCHANGED <<state, rpcVars, flag, err, thread>> /\ NoCrash

(* No publish info, no candidate, or a message that does not validate. *)
sendRejected(s) ==
  /\ pc[s] = "lookup" /\ goTo(s, "over")
  /\ IF s \in Sync THEN ret' = [ret EXCEPT ![s] = "failure"] /\ UNCHANGED calls
                   ELSE invoke(s, "failure") /\ UNCHANGED ret
  /\ UNCHANGED <<state, rpcVars, flag, err, thread>> /\ NoCrash

firstCandidate(s, k, candidates) ==      \* mutant: messageQueue() is candidates_[0]
  /\ goTo(s, "rpc")
  /\ sent' = [sent EXCEPT ![s] = Append(@, candidates[1])]
  /\ UsesManager

(* sendImpl and ClientManagerImpl::send, after k failed attempts: a request *)
(* for messageQueue() is on its way.                                       *)
sendImpl(s, k, candidates) ==
  /\ goTo(s, "rpc")
  /\ sent' = [sent EXCEPT ![s] = Append(@, candidates[(k % Len(candidates)) + 1])]
  /\ UsesManager

(* send0; a synchronous send goes on to wait. *)
send0(s) ==
  /\ pc[s] = "lookup"
  /\ \E candidates \in Lists : /\ list' = [list EXCEPT ![s] = candidates]
                              /\ sendImpl(s, 0, candidates)
  /\ thread' = [thread EXCEPT ![s] = IF s \in Sync THEN "await" ELSE "out"]
  /\ UNCHANGED <<state, attempt, stored, calls, flag, err, ret>>

(* The broker stores the message of the k-th request. *)
brokerStores(s, k) ==
  /\ k \in 1..Len(sent[s]) /\ k \notin stored[s]
  /\ stored' = [stored EXCEPT ![s] = @ \cup {k}]
  /\ UNCHANGED <<state, pc, list, attempt, sent, calls, awaitVars>> /\ NoCrash

(* A send RPC completes on a pool thread.  When the client manager is no   *)
(* longer STARTED the completion is dropped.                               *)
sendCompletes(s, ok) ==
  /\ pc[s] = "rpc" /\ (ok => Len(sent[s]) \in stored[s])
  /\ goTo(s, IF state \in {"STOPPED", "GONE"} THEN "lost" ELSE IF ok THEN "ok" ELSE "error")
  /\ UNCHANGED <<state, rpcVars, calls, awaitVars>> /\ NoCrash

(* The user's callback, or AwaitSendCallback, gets the verdict.  On a      *)
(* failure AwaitSendCallback sets completed_ first and ec_ afterwards.     *)
lastCallback(s, verdict, next) ==
  /\ invoke(s, verdict)
  /\ goTo(s, IF s \in Sync THEN next ELSE "over")
  /\ flag' = IF s \in Sync THEN [flag EXCEPT ![s] = TRUE] ELSE flag

dropsResult(s) ==                \* mutant: an RPC without response counts as success
  /\ pc[s] \in {"ok", "error"}
  /\ lastCallback(s, "success", "signal")
  /\ UNCHANGED <<state, rpcVars, err, thread, ret>> /\ NoCrash

onSuccess(s) ==
  /\ pc[s] = "ok"
  /\ lastCallback(s, "success", "signal")
  /\ UNCHANGED <<state, rpcVars, err, thread, ret>> /\ NoCrash

retriesOnceMore(s) ==            \* mutant: attempt_times_++ for ++attempt_times_
  /\ pc[s] = "error"
  /\ attempt' = [attempt EXCEPT ![s] = @ + 1]
  /\ IF attempt[s] >= MaxAttempts \/ state = "GONE"
     THEN lastCallback(s, "failure", "setEc") /\ UNCHANGED sent /\ NoCrash
     ELSE sendImpl(s, attempt[s] + 1, list[s]) /\ UNCHANGED <<calls, flag>>
  /\ UNCHANGED <<state, list, stored, err, thread, ret>>

neverRetries(s) ==               \* mutant: the first failure is final
  /\ pc[s] = "error"
  /\ attempt' = [attempt EXCEPT ![s] = @ + 1]
  /\ lastCallback(s, "failure", "setEc")
  /\ UNCHANGED <<state, list, sent, stored, err, thread, ret>> /\ NoCrash

forgetsCallback(s) ==            \* mutant: the last failure is only logged
  /\ pc[s] = "error"
  /\ attempt' = [attempt EXCEPT ![s] = @ + 1]
  /\ IF attempt[s] + 1 >= MaxAttempts \/ state = "GONE"
     THEN goTo(s, "over") /\ UNCHANGED <<calls, flag, sent>> /\ NoCrash
     ELSE sendImpl(s, attempt[s] + 1, list[s]) /\ UNCHANGED <<calls, flag>>
  /\ UNCHANGED <<state, list, stored, err, thread, ret>>

reportsEveryFailure(s) ==        \* mutant: the callback is told of every failed attempt
  /\ pc[s] = "error"
  /\ attempt' = [attempt EXCEPT ![s] = @ + 1]
  /\ IF attempt[s] + 1 >= MaxAttempts \/ state = "GONE"
     THEN lastCallback(s, "failure", "setEc") /\ UNCHANGED sent /\ NoCrash
     ELSE sendImpl(s, attempt[s] + 1, list[s]) /\ invoke(s, "failure") /\ UNCHANGED flag
  /\ UNCHANGED <<state, list, stored, err, thread, ret>>

(* RetrySendCallback::onFailure: try the next candidate, unless attempts   *)
(* are used up or the producer has been destructed.                        *)
onFailure(s) ==
  /\ pc[s] = "error"
  /\ attempt' = [attempt EXCEPT ![s] = @ + 1]
  /\ IF attempt[s] + 1 >= MaxAttempts \/ state = "GONE"
     THEN lastCallback(s, "failure", "setEc") /\ UNCHANGED sent /\ NoCrash
     ELSE sendImpl(s, attempt[s] + 1, list[s]) /\ UNCHANGED <<calls, flag>>
  /\ UNCHANGED <<state, list, stored, err, thread, ret>>

-----------------------------------------------------------------------------
(* AwaitSendCallback. *)

setEc(s) ==
  /\ pc[s] = "setEc" /\ goTo(s, "signal")
  /\ err' = [err EXCEPT ![s] = TRUE]
  /\ UNCHANGED <<state, rpcVars, calls, flag, thread, ret>> /\ NoCrash

signalsNobody(s) ==              \* mutant: no SignalAll
  /\ pc[s] = "signal" /\ goTo(s, "over")
  /\ UNCHANGED <<state, rpcVars, calls, awaitVars>> /\ NoCrash

signal(s) ==
  /\ pc[s] = "signal" /\ goTo(s, "over")
  /\ thread' = [thread EXCEPT ![s] = IF @ = "asleep" THEN "await" ELSE @]
  /\ UNCHANGED <<state, rpcVars, calls, flag, err, ret>> /\ NoCrash

(* await() tests completed_ and waits under one hold of the mutex. *)
await(s) ==
  /\ thread[s] = "await"
  /\ thread' = [thread EXCEPT ![s] = IF flag[s] THEN "read" ELSE "asleep"]
  /\ UNCHANGED <<state, pc, rpcVars, calls, flag, err, ret>> /\ NoCrash

spuriousWakeup(s) ==
  /\ thread[s] = "asleep"
  /\ thread' = [thread EXCEPT ![s] = "await"]
  /\ UNCHANGED <<state, pc, rpcVars, calls, flag, err, ret>> /\ NoCrash

(* The synchronous send looks at ec_ and returns. *)
sendReturns(s) ==
  /\ thread[s] = "read"
  /\ thread' = [thread EXCEPT ![s] = "out"]
  /\ ret' = [ret EXCEPT ![s] = IF err[s] THEN "failure" ELSE "success"]
  /\ UNCHANGED <<state, pc, rpcVars, calls, flag, err>> /\ NoCrash

-----------------------------------------------------------------------------
shutdown ==
  /\ \/ state = "STARTED" /\ state' = "STOPPING"
     \/ state = "STOPPING" /\ state' = "STOPPED"
  /\ UNCHANGED <<pc, rpcVars, calls, awaitVars>> /\ NoCrash

(* The application drops its producer, with no thread inside it. *)
destruct ==
  /\ state \in {"STARTED", "STOPPED"} /\ state' = "GONE"
  /\ \A s \in Send : pc[s] # "lookup" /\ thread[s] = "out"
  /\ UNCHANGED <<pc, rpcVars, calls, awaitVars>> /\ NoCrash

Client(s) == send(s) \/ sendRejected(s) \/ send0(s)

Handler(s) == onSuccess(s) \/ onFailure(s) \/ setEc(s) \/ signal(s)

Completion(s) == \E ok \in BOOLEAN : sendCompletes(s, ok)

Waiter(s) == await(s) \/ sendReturns(s)

Running ==
  \E s \in Send :
    \/ Client(s) \/ Handler(s) \/ Completion(s) \/ Waiter(s)
    \/ spuriousWakeup(s)
    \/ \E k \in 1..Len(sent[s]) : brokerStores(s, k)

Next == Running \/ shutdown \/ destruct

Spec == Init /\ [][Next]_vars

(* A producer that is not shut down. *)
RunningSpec == Init /\ [][Running]_vars

(* Threads run on.  Nothing is said of the completion of a send RPC, as    *)
(* ClientManagerImpl::send sets no deadline.                               *)
ThreadFairness ==
  \A s \in Send : WF_vars(Handler(s)) /\ WF_vars(Waiter(s)) /\ WF_vars(Client(s))

(* What happens when brokers answer, or their connections break. *)
FairSpec == RunningSpec /\ ThreadFairness /\ \A s \in Send : WF_vars(Completion(s))

-----------------------------------------------------------------------------
(* Properties. *)

(* A callback told of a success is right: some broker stored the message,  *)
(* whatever mixture of lost requests, lost responses and retries preceded. *)
SuccessIsStored ==
  \A s \in Send : \A i \in 1..Len(calls[s]) : calls[s][i] = "success" => stored[s] # {}

(* A send that got as far as a broker is reported as failed only after     *)
(* MaxAttempts attempts ("Number of attempts before claiming a send action *)
(* as failure", DefaultMQProducer.h), or because the producer is gone.     *)
FailureIsFinal ==
  \A s \in Send : list[s] # <<>> /\ state = "STARTED" /\ calls[s] = <<"failure">>
                    => attempt[s] = MaxAttempts

(* Retries go elsewhere: no broker gets a second request before every      *)
(* candidate got one ("Once the first publish attempt failed, the          *)
(* following routable message queues are employed", SendCallbacks.h).      *)
RetriesElsewhere ==
  \A s \in Send : \A i, j \in 1..Len(sent[s]) :
    sent[s][i] = sent[s][j] => i % Len(list[s]) = j % Len(list[s])

(* A callback is invoked at most once, whatever shutdown and destruction   *)
(* do in between, with one exception: an asynchronous send on a producer   *)
(* that is no longer STARTED reports this failure and goes on, so that its *)
(* callback may be invoked again.                                          *)
SecondCallbackOnlyStopped ==
  \A s \in Send :
    \/ Len(calls[s]) <= 1
    \/ /\ Len(calls[s]) = 2 /\ calls[s][1] = "failure"
       /\ s \notin Sync /\ state # "STARTED"

(* What a send's callback has been told, seen as a send of the contract. *)
Outcome(s) ==
  IF pc[s] = "idle" THEN "idle"
  ELSE IF calls[s] # <<>> THEN calls[s][1]
  ELSE IF list[s] = <<>> /\ ret[s] = "failure" THEN "failure" ELSE "pending"

Contract == INSTANCE SendContract WITH
  outcome <- [s \in Send |-> Outcome(s)],
  copies  <- [s \in Send |-> Cardinality(stored[s])]

(* A running producer implements the contract: one outcome per send, a     *)
(* success only if stored, at most MaxAttempts copies.                     *)
ContractSpec == Contract!Spec

(* A synchronous send returns when its RPCs complete: no wake-up is lost   *)
(* between AwaitSendCallback's unlocked completed_ and the waiting thread. *)
SyncSendReturns == \A s \in Sync : thread[s] = "await" ~> ret[s] # "none"

(* ons/Producer.h: "Sending can be regarded as success if no exception is  *)
(* raised".                                                                *)
ReturnedIsStored == \A s \in Sync : ret[s] = "success" => stored[s] # {}

-----------------------------------------------------------------------------
(* The inductive invariant. *)

(* The callback has been invoked n times at most, or once more: then first *)
(* with the failure of a send that found its producer stopped.             *)
Told(s, n) ==
  \/ Len(calls[s]) <= n
  \/ Len(calls[s]) = n + 1 /\ calls[s][1] = "failure" /\ s \notin Sync /\ state # "STARTED"

(* Attempt after attempt goes round the candidates. *)
RoundRobin(s) ==
  \A i \in 1..Len(sent[s]) : sent[s][i] = list[s][((i - 1) % Len(list[s])) + 1]

(* Where a send is determines what has been done for it.  A send that was  *)
(* rejected early has an empty list.                                       *)
SendOK(s) ==
  /\ Len(sent[s]) <= MaxAttempts /\ stored[s] \subseteq 1..Len(sent[s])
  /\ RoundRobin(s)
  /\ list[s] = <<>> => sent[s] = <<>>
  /\ pc[s] = "idle" => calls[s] = <<>>
  /\ pc[s] \in {"idle", "lookup"} =>
       list[s] = <<>> /\ sent[s] = <<>> /\ attempt[s] = 0 /\ ret[s] = "none" /\ Told(s, 0)
  /\ pc[s] \in {"rpc", "ok", "error"} =>
       list[s] # <<>> /\ Told(s, 0) /\ Len(sent[s]) = attempt[s] + 1
  /\ pc[s] = "ok" => Len(sent[s]) \in stored[s]
  /\ pc[s] \in {"setEc", "signal", "over"} =>
       calls[s] # <<>> \/ (list[s] = <<>> /\ ret[s] = "failure")
  /\ pc[s] = "lost" => state \in {"STOPPED", "GONE"}
  /\ Told(s, 1)
  /\ \A i \in 1..Len(calls[s]) : calls[s][i] = "success" => stored[s] # {}
  /\ thread[s] # "out" => list[s] # <<>>
  /\ list[s] # <<>> /\ calls[s] = <<"failure">> /\ state = "STARTED" => attempt[s] = MaxAttempts

(* ... of a producer, whatever becomes of it ...                           *)
SendInv ==
  /\ TypeOK /\ (crashed => state = "STOPPED")
  /\ \A s \in Send : SendOK(s)

(* ... and of one that is not shut down.                                   *)
RunningInv == SendInv /\ state = "STARTED"
=============================================================================
