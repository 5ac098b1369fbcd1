---------------------------- MODULE Transaction -----------------------------
(***************************************************************************)
(* Ending a transaction.  The application's thread ends it through         *)
(* TransactionImpl; a broker that hears nothing asks, and the answer to    *)
(* that question is computed on the callback pool, in                      *)
(* resolveOrphanedTransactionalMessage.  Both go through endTransaction0,  *)
(* which waits for its response on a condition variable, without looking   *)
(* whether the response is already there.  The response is handled by the  *)
(* same callback pool.                                                     *)
(*                                                                         *)
(* External: the broker keeps the first resolution it gets and refuses the *)
(* other one; answers get lost.  The prepare is in SendMessage.            *)
(***************************************************************************)
EXTENDS Naturals, FiniteSets

CONSTANTS
  Txn,
  Ender,         \* who ends a transaction, each at most once
  PoolSize       \* threads of the callback pool

ASSUME TransactionConstants ==
  Ender \subseteq Txn \X {"application", "orphan"} /\ PoolSize \in Nat \ {0}

Resolution == {"COMMIT", "ROLLBACK"}

VARIABLES
  broker,      \* transaction -> "PREPARED" or its resolution
  ender,       \* the calls of endTransaction0
  poolUp,      \* the callback pool runs tasks
  producerUp   \* the producer is not destroyed

txnVars == <<broker, ender, poolUp, producerUp>>

IdleEnder == [pc |-> "idle", asked |-> "COMMIT", rpc |-> "none", ec |-> FALSE,
              success |-> FALSE, lost |-> FALSE]

EnderRecord ==
  [pc : {"idle", "submitted", "called", "waiting", "returned"}, asked : Resolution, ec : BOOLEAN,
   success : BOOLEAN, lost : BOOLEAN, rpc : {"none", "sent", "queued", "running", "done"}]

TransactionTypeOK ==
  /\ broker \in [Txn -> {"PREPARED"} \cup Resolution]
  /\ ender \in [Ender -> EnderRecord]
  /\ poolUp \in BOOLEAN /\ producerUp \in BOOLEAN

TransactionInit ==
  /\ broker = [t \in Txn |-> "PREPARED"] /\ ender = [e \in Ender |-> IdleEnder]
  /\ poolUp = TRUE /\ producerUp = TRUE

(* Pool threads that wait in endTransaction0, and all that are busy. *)
Blocked == {e \in Ender : e[2] = "orphan" /\ ender[e].pc \in {"called", "waiting"}}
Busy == Cardinality(Blocked) + Cardinality({e \in Ender : ender[e].rpc = "running"})

Set(e, r) == ender' = [ender EXCEPT ![e] = r]

(* TransactionImpl::commit and rollback; false if the producer is gone. *)
endTransaction0(e, resolution) ==
  LET r == ender[e] IN
    /\ e[2] = "application" /\ r.pc = "idle"
    /\ Set(e, IF producerUp THEN [r EXCEPT !.pc = "called", !.asked = resolution, !.rpc = "sent"]
              ELSE [r EXCEPT !.pc = "returned", !.asked = resolution])
    /\ UNCHANGED <<broker, poolUp, producerUp>>

(* The broker asks for a transaction it has no resolution of. *)
recoverOrphan(e) ==
  /\ e[2] = "orphan" /\ ender[e].pc = "idle" /\ broker[e[1]] = "PREPARED" /\ poolUp
  /\ Set(e, [ender[e] EXCEPT !.pc = "submitted"])
  /\ UNCHANGED <<broker, poolUp, producerUp>>

resolveOrphanedTransactionalMessage(e, state) ==
  /\ ender[e].pc = "submitted" /\ poolUp /\ Busy < PoolSize
  /\ Set(e, [ender[e] EXCEPT !.pc = "called", !.asked = state, !.rpc = "sent"])
  /\ UNCHANGED <<broker, poolUp, producerUp>>

(* The broker handles the request, or it or the answer is lost; the        *)
(* completion is queued.  Every call has a deadline.                       *)
brokerAnswers(e, handled, lostAnswer) ==
  LET r == ender[e]
      accepted == handled /\ broker[e[1]] \in {"PREPARED", r.asked}
  IN  /\ r.rpc = "sent"
      /\ broker' = IF accepted THEN [broker EXCEPT ![e[1]] = r.asked] ELSE broker
      /\ Set(e, [r EXCEPT !.rpc = IF poolUp THEN "queued" ELSE "done",
                          !.ec = ~accepted \/ lostAnswer])
      /\ UNCHANGED <<poolUp, producerUp>>

completesEarly(e) ==              \* mutant: success is what the request got, not its answer
  LET r == ender[e] IN
    /\ r.rpc = "queued" /\ poolUp /\ Busy < PoolSize
    /\ Set(e, [r EXCEPT !.rpc = "running", !.success = TRUE])
    /\ UNCHANGED <<broker, poolUp, producerUp>>

(* The callback sets completed and success, without the mutex ... *)
callbackSets(e) ==
  LET r == ender[e] IN
    /\ r.rpc = "queued" /\ poolUp /\ Busy < PoolSize
    /\ Set(e, [r EXCEPT !.rpc = "running", !.success = ~r.ec])
    /\ UNCHANGED <<broker, poolUp, producerUp>>

signalsNobody(e) ==               \* mutant: a failed callback does not signal
  LET r == ender[e] IN
    /\ r.rpc = "running"
    /\ Set(e, IF r.pc = "waiting" /\ ~r.ec THEN [r EXCEPT !.rpc = "done", !.pc = "returned"]
              ELSE [r EXCEPT !.rpc = "done", !.lost = (r.pc = "called")])
    /\ UNCHANGED <<broker, poolUp, producerUp>>

(* ... and signals under it: lost if nobody waits yet. *)
callbackSignals(e) ==
  LET r == ender[e] IN
    /\ r.rpc = "running"
    /\ Set(e, IF r.pc = "waiting" THEN [r EXCEPT !.rpc = "done", !.pc = "returned"]
              ELSE [r EXCEPT !.rpc = "done", !.lost = TRUE])
    /\ UNCHANGED <<broker, poolUp, producerUp>>

endTransactionWaits(e) ==
  /\ ender[e].pc = "called" /\ Set(e, [ender[e] EXCEPT !.pc = "waiting"])
  /\ UNCHANGED <<broker, poolUp, producerUp>>

(* Shutdown of the producer: the pool drops what is queued. *)
poolShutsDown ==
  /\ poolUp /\ poolUp' = FALSE
  /\ ender' = [e \in Ender |-> IF ender[e].rpc = "queued" THEN [ender[e] EXCEPT !.rpc = "done"]
                                                          ELSE ender[e]]
  /\ UNCHANGED <<broker, producerUp>>

producerDestroyed ==
  /\ ~poolUp /\ producerUp /\ producerUp' = FALSE
  /\ \A e \in Ender : ender[e].pc \notin {"called", "waiting"}
  /\ UNCHANGED <<broker, ender, poolUp>>

EnderStep(e) ==
  \/ \E s \in Resolution : resolveOrphanedTransactionalMessage(e, s)
  \/ \E h, l \in BOOLEAN : brokerAnswers(e, h, l)
  \/ callbackSets(e) \/ callbackSignals(e) \/ endTransactionWaits(e)

TransactionNext ==
  \/ \E e \in Ender : recoverOrphan(e) \/ EnderStep(e)
                      \/ \E r \in Resolution : endTransaction0(e, r)
  \/ poolShutsDown \/ producerDestroyed

-----------------------------------------------------------------------------
(* Properties. *)

(* commit() and rollback() that return true were obeyed: the broker has    *)
(* that resolution, whatever the check-back of the same transaction said.  *)
ResolutionHonest ==
  \A e \in Ender : ender[e].pc = "returned" /\ ender[e].success => broker[e[1]] = ender[e].asked

(* The wait of endTransaction0 ends, or it is one of three hangs: the      *)
(* response came before the wait; the pool was shut down; or every pool    *)
(* thread sits in endTransaction0 for an orphan, waiting for responses     *)
(* that only those threads could handle.                                   *)
EndTransactionReturns ==
  \A e \in Ender :
    ender[e].pc = "called" ~>
      \/ ender[e].pc = "returned" \/ ender[e].lost \/ ~poolUp
      \/ Cardinality(Blocked) = PoolSize

(* Types, and the honesty of commit() and rollback(). *)
TransactionInv == TransactionTypeOK /\ ResolutionHonest
=============================================================================
