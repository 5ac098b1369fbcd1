---------------------------- MODULE SendContract ----------------------------
(***************************************************************************)
(* What a producer promises of a send: it ends once, in a success only if  *)
(* a broker has stored the message, and it leaves at most MaxAttempts      *)
(* copies of the message behind (delivery is at least once: a failed send  *)
(* may have been stored, even after it was reported).                      *)
(***************************************************************************)
EXTENDS Naturals

CONSTANTS Send, MaxAttempts

VARIABLES
  outcome,   \* of each send: "idle", "pending", "success" or "failure"
  copies     \* number of copies of its message that brokers have stored

Init ==
  /\ outcome = [s \in Send |-> "idle"]
  /\ copies = [s \in Send |-> 0]

Begin(s) ==
  /\ outcome[s] = "idle"
  /\ outcome' = [outcome EXCEPT ![s] = "pending"]
  /\ UNCHANGED copies

Store(s) ==
  /\ outcome[s] # "idle" /\ copies[s] < MaxAttempts
  /\ copies' = [copies EXCEPT ![s] = @ + 1]
  /\ UNCHANGED outcome

Succeed(s) ==
  /\ outcome[s] = "pending" /\ copies[s] > 0
  /\ outcome' = [outcome EXCEPT ![s] = "success"]
  /\ UNCHANGED copies

Fail(s) ==
  /\ outcome[s] = "pending"
  /\ outcome' = [outcome EXCEPT ![s] = "failure"]
  /\ UNCHANGED copies

Next == \E s \in Send : Begin(s) \/ Store(s) \/ Succeed(s) \/ Fail(s)

Spec == Init /\ [][Next]_<<outcome, copies>>
=============================================================================
