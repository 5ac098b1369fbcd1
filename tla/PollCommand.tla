---------------------------- MODULE PollCommand -----------------------------
(***************************************************************************)
(* The command cycles of ClientImpl.  For every endpoint of its route      *)
(* table a client keeps a long poll at the broker; the answer may carry a  *)
(* command, and the next poll follows.  A cycle ends when its endpoint has *)
(* left the route table and begins when updateRouteCache sees a new one.   *)
(* The commands are: print a stack trace, verify that a message can be     *)
(* consumed, and recover an orphaned transaction (see Transaction).        *)
(***************************************************************************)
EXTENDS Naturals, Sequences, FiniteSets

CONSTANTS
  Endpoint,
  MaxCycle,      \* bound: cycles of one endpoint, the route table stops changing above it
  Listener       \* the listener of the client: "none", "FIFO" or "STANDARD"

ASSUME PollConstants ==
  MaxCycle \in Nat \ {0} /\ Listener \subseteq {"none", "FIFO", "STANDARD"} /\ Listener # {}

VARIABLES
  inUse,       \* endpoints of the route table
  starting,    \* endpoints updateRouteCache is about to poll, with multiplicity
  polls,       \* endpoint -> long polls at the broker
  delayed,     \* endpoint -> Poll-Command-Later timers
  handling,    \* endpoint -> answers found in use and not yet followed by a poll
  listener,
  verify,      \* the verify command: "none", "submitted" or "done"
  reports      \* what the broker was told of it, in order

pollVars == <<inUse, starting, polls, delayed, handling, listener, verify, reports>>
countVars == <<starting, polls, delayed, handling>>

PollTypeOK ==
  /\ inUse \subseteq Endpoint /\ listener \in Listener
  /\ \A f \in {starting, polls, delayed, handling} : f \in [Endpoint -> 0 .. MaxCycle + 1]
  /\ verify \in {"none", "submitted", "done"}
  /\ reports \in Seq({"INVALID_ARGUMENT", "FAILED_PRECONDITION", "OK", "INTERNAL"})

Zero == [e \in Endpoint |-> 0]

PollInit ==
  /\ inUse = {} /\ starting = Zero /\ polls = Zero /\ delayed = Zero /\ handling = Zero
  /\ listener = (CHOOSE l \in Listener : TRUE) /\ verify = "none" /\ reports = <<>>

setListener(l) ==
  /\ inUse = {} /\ listener' = l /\ l # listener
  /\ UNCHANGED <<inUse, countVars, verify, reports>>

Inc(f, e) == [f EXCEPT ![e] = @ + 1]
Dec(f, e) == [f EXCEPT ![e] = @ - 1]
Cycles(e) == starting[e] + polls[e] + delayed[e] + handling[e]

(* A route, never an empty one, changes the table.  The hosts to poll are  *)
(* the difference of two hash sets taken with std::set_difference, which   *)
(* wants sorted ranges: every new host is among them, any other may be.    *)
routeUpdated(hosts, started) ==
  /\ hosts # {} /\ inUse' = hosts
  /\ hosts \ inUse \subseteq started /\ started \subseteq hosts
  /\ \A e \in started : Cycles(e) < MaxCycle
  /\ starting' = [e \in Endpoint |-> starting[e] + IF e \in started THEN 1 ELSE 0]
  /\ UNCHANGED <<polls, delayed, handling, listener, verify, reports>>

(* pollCommand: from updateRouteCache, from the timer ... *)
pollStarts(e) ==
  /\ starting[e] > 0 /\ starting' = Dec(starting, e) /\ polls' = Inc(polls, e)
  /\ UNCHANGED <<inUse, delayed, handling, listener, verify, reports>>

pollLater(e) ==
  /\ delayed[e] > 0 /\ delayed' = Dec(delayed, e) /\ polls' = Inc(polls, e)
  /\ UNCHANGED <<inUse, starting, handling, listener, verify, reports>>

givesUp(e, ok) ==                 \* mutant: a poll that failed is not repeated
  /\ polls[e] > 0 /\ polls' = Dec(polls, e)
  /\ handling' = IF e \in inUse /\ ok THEN Inc(handling, e) ELSE handling
  /\ delayed' = delayed
  /\ UNCHANGED <<inUse, starting, listener, verify, reports>>

(* onPollCommandResponse: the cycle breaks if the endpoint is absent from  *)
(* the route table, and waits three seconds after a failed call.           *)
onPollCommandResponse(e, ok) ==
  /\ polls[e] > 0 /\ polls' = Dec(polls, e)
  /\ handling' = IF e \in inUse /\ ok THEN Inc(handling, e) ELSE handling
  /\ delayed' = IF e \in inUse /\ ~ok THEN Inc(delayed, e) ELSE delayed
  /\ UNCHANGED <<inUse, starting, listener, verify, reports>>

NextPoll(e) == handling[e] > 0 /\ handling' = Dec(handling, e) /\ polls' = Inc(polls, e)

(* A no-op, a stack trace, an orphan that is handed to the pool, or an     *)
(* unknown command.                                                        *)
otherCommand(e) ==
  /\ NextPoll(e)
  /\ UNCHANGED <<inUse, starting, delayed, listener, verify, reports>>

(* Data that does not decode is reported, and then verified nevertheless.  *)
(* Bound: one verify command.                                              *)
verifyMessageConsumption(e, corrupted) ==
  /\ NextPoll(e) /\ verify = "none"
  /\ reports' = (IF corrupted THEN <<"INVALID_ARGUMENT">> ELSE <<>>)
                \o (IF listener = "STANDARD" THEN <<>> ELSE <<"FAILED_PRECONDITION">>)
  /\ verify' = IF listener = "STANDARD" THEN "submitted" ELSE "done"
  /\ UNCHANGED <<inUse, starting, delayed, listener>>

doVerify(consumed) ==
  /\ verify = "submitted" /\ verify' = "done"
  /\ reports' = Append(reports, IF consumed THEN "OK" ELSE "INTERNAL")
  /\ UNCHANGED <<inUse, countVars, listener>>

CycleStep(e) ==
  \/ pollStarts(e) \/ pollLater(e) \/ otherCommand(e)
  \/ \E ok \in BOOLEAN : onPollCommandResponse(e, ok)
  \/ \E c \in BOOLEAN : verifyMessageConsumption(e, c)

PollNext ==
  \/ \E l \in Listener : setListener(l)
  \/ \E hosts \in SUBSET Endpoint : \E started \in SUBSET hosts : routeUpdated(hosts, started)
  \/ \E e \in Endpoint : CycleStep(e)
  \/ \E consumed \in BOOLEAN : doVerify(consumed)

-----------------------------------------------------------------------------
(* Properties. *)

(* No endpoint in use is without a command cycle, however routes, failed   *)
(* polls and the read of the route table interleave.  (There may be more   *)
(* than one: an endpoint that leaves the table and returns while its poll  *)
(* is out gets a second cycle, and set_difference adds others.)            *)
InUseIsPolled == \A e \in inUse : Cycles(e) > 0

(* A verify command is answered once, with the outcome; only a message     *)
(* that did not decode is answered twice, and the answer that comes last   *)
(* is the verdict on what was decoded of it.                               *)
VerifyAnswered ==
  verify = "done" =>
    \/ Len(reports) = 1 /\ reports[1] # "INVALID_ARGUMENT"
    \/ Len(reports) = 2 /\ reports[1] = "INVALID_ARGUMENT" /\ reports[2] # "INVALID_ARGUMENT"

(* Every endpoint in use has a command cycle, and every verify command its *)
(* answer.                                                                 *)
PollInv == PollTypeOK /\ InUseIsPolled /\ VerifyAnswered
=============================================================================
