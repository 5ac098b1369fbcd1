-------------------------- MODULE SendMessageProofs -------------------------
(***************************************************************************)
(* What callbacks are told is true, retries go elsewhere, and a running    *)
(* producer implements SendContract, for any number of sends, candidate    *)
(* lists and attempts.                                                     *)
(***************************************************************************)
EXTENDS SendMessage, FiniteSetTheorems, TLAPS

(* Only send s changes. *)
Only(s) ==
  \A u \in Send \ {s} :
    /\ pc'[u] = pc[u] /\ list'[u] = list[u] /\ attempt'[u] = attempt[u]
    /\ sent'[u] = sent[u] /\ stored'[u] = stored[u] /\ calls'[u] = calls[u]
    /\ thread'[u] = thread[u] /\ ret'[u] = ret[u]

(* The step of one send. *)
Step(s) ==
  \/ Client(s) \/ Handler(s) \/ Completion(s) \/ Waiter(s) \/ spuriousWakeup(s)
  \/ \E k \in 1..Len(sent[s]) : brokerStores(s, k)

LEMMA AttemptsNat == MaxAttempts \in Nat \ {0}
  BY SendConstants, Zenon

(* The candidate that messageQueue() picks exists. *)
LEMMA Candidate ==
  ASSUME NEW l \in Lists, NEW k \in Nat
  PROVE  l[(k % Len(l)) + 1] \in Broker
<1>1. l \in Seq(Broker) /\ l # <<>>
  BY SendConstants, Zenon
<1>2. Len(l) \in Nat /\ Len(l) > 0
  BY <1>1
<1>3. k % Len(l) \in 0..(Len(l) - 1)
  BY <1>2
<1>4. (k % Len(l)) + 1 \in 1..Len(l)
  BY <1>2, <1>3
<1> QED BY <1>1, <1>4

(* Numbers with the same remainder have successors with the same. *)
LEMMA DivMod ==
  ASSUME NEW a \in Nat, NEW n \in Nat \ {0}
  PROVE  a % n \in 0..(n - 1) /\ a \div n \in Nat /\ a = (n * (a \div n)) + (a % n)
  OBVIOUS

LEMMA ModUnique ==
  ASSUME NEW a \in Nat, NEW n \in Nat \ {0}, NEW q \in Nat, NEW r \in 0..(n - 1), a = n * q + r
  PROVE  a % n = r
  OBVIOUS

LEMMA ModNext ==
  ASSUME NEW a \in Nat, NEW b \in Nat, NEW n \in Nat \ {0}, a % n = b % n
  PROVE  (a + 1) % n = (b + 1) % n
<1>1. ASSUME NEW c \in Nat PROVE (c + 1) % n = IF (c % n) + 1 = n THEN 0 ELSE (c % n) + 1
  <2> DEFINE q == c \div n
             r == c % n
  <2>1. q \in Nat /\ r \in 0..(n - 1) /\ c = n * q + r
    BY DivMod, Zenon
  <2> HIDE DEF q, r
  <2>2. c + 1 \in Nat
    OBVIOUS
  <2>3. CASE r + 1 = n
    <3>1. c + 1 = n * (q + 1) + 0 /\ 0 \in 0..(n - 1) /\ q + 1 \in Nat
      BY <2>1, <2>3
    <3>2. (c + 1) % n = 0
      BY <2>2, <3>1, ModUnique, Zenon
    <3> QED BY <2>3, <3>2, Zenon DEF r
  <2>4. CASE r + 1 # n
    <3>1. c + 1 = n * q + (r + 1) /\ r + 1 \in 0..(n - 1)
      BY <2>1, <2>4
    <3>2. (c + 1) % n = r + 1
      BY <2>1, <2>2, <3>1, ModUnique, Zenon
    <3> QED BY <2>4, <3>2, Zenon DEF r
  <2> QED BY <2>3, <2>4, Zenon
<1> QED BY <1>1, Zenon

(* What a step of send s establishes. *)
Good(s) ==
  TypeOK' /\ Only(s) /\ SendOK(s)' /\ state' = state /\ (crashed' => state' = "STOPPED")

LEMMA RoundKept ==
  ASSUME NEW s \in Send, RoundRobin(s), sent'[s] = sent[s], list'[s] = list[s]
  PROVE  RoundRobin(s)'
  BY Zenon DEF RoundRobin

LEMMA InitOK == Init => SendInv
<1> SUFFICES ASSUME Init PROVE SendInv
  BY Zenon
<1>1. TypeOK
  <2>1. <<>> \in Seq(Broker) /\ <<>> \in Seq({"success", "failure"}) /\ 0 \in 0..MaxAttempts
    BY SendConstants
  <2> QED BY <2>1, Zenon DEF Init, TypeOK, PC
<1>2. \A s \in Send : SendOK(s)
  BY SendConstants DEF Init, SendOK, Told, RoundRobin
<1> QED BY <1>1, <1>2, Zenon DEF Init, SendInv

-----------------------------------------------------------------------------
(* The invariant is preserved. *)

(* A callback that has been told of nothing but a stopped producer hears   *)
(* a verdict.                                                              *)
LEMMA Verdict ==
  ASSUME NEW s \in Send, SendInv, Told(s, 0), NEW v \in {"success", "failure"},
         calls' = [calls EXCEPT ![s] = Append(@, v)], state' = state
  PROVE  /\ calls' \in [Send -> Seq({"success", "failure"})]
         /\ calls'[s] # <<>> /\ Told(s, 1)'
         /\ \A i \in 1..Len(calls'[s]) : calls'[s][i] = "success" => v = "success"
         /\ state = "STARTED" => calls[s] = <<>> /\ calls'[s] = <<v>>
<1>1. calls \in [Send -> Seq({"success", "failure"})]
  BY Zenon DEF SendInv, TypeOK
<1>2. calls'[s] = Append(calls[s], v) /\ calls[s] \in Seq({"success", "failure"})
  BY <1>1, Zenon
<1>3. calls[s] = <<>> \/ (Len(calls[s]) = 1 /\ calls[s][1] = "failure" /\ s \notin Sync
                          /\ state # "STARTED")
  BY <1>2 DEF Told
<1>4. CASE calls[s] = <<>>
  <2>1. calls'[s] = <<v>>
    BY <1>2, <1>4
  <2> QED BY <1>1, <1>4, <2>1 DEF Told
<1>5. CASE /\ Len(calls[s]) = 1 /\ calls[s][1] = "failure" /\ s \notin Sync
           /\ state # "STARTED"
  <2>1. Len(calls'[s]) = 2 /\ calls'[s][1] = "failure" /\ calls'[s][2] = v
    BY <1>2, <1>5
  <2> QED BY <1>1, <1>2, <1>5, <2>1 DEF Told
<1> QED BY <1>3, <1>4, <1>5, Zenon

LEMMA NothingTold ==
  ASSUME NEW s \in Send, SendInv, Told(s, 0), calls' = calls, state' = state
  PROVE  /\ Told(s, 0)' /\ Told(s, 1)' /\ (state' = "STARTED" => calls'[s] # <<"failure">>)
         /\ \A i \in 1..Len(calls'[s]) : calls'[s][i] # "success"
<1>1. calls[s] \in Seq({"success", "failure"})
  BY Zenon DEF SendInv, TypeOK
<1>2. calls[s] = <<>> \/ (Len(calls[s]) = 1 /\ calls[s][1] = "failure" /\ state # "STARTED")
  BY <1>1 DEF Told
<1>3. CASE calls[s] = <<>>
  BY <1>3 DEF Told
<1>4. CASE Len(calls[s]) = 1 /\ calls[s][1] = "failure" /\ state # "STARTED"
  BY <1>4 DEF Told
<1> QED BY <1>2, <1>3, <1>4, Zenon

LEMMA SendStepOK ==
  ASSUME NEW s \in Send, SendInv, send(s)
  PROVE  Good(s)
<1>1. /\ pc[s] = "idle" /\ UNCHANGED <<state, list, attempt, sent, stored, flag, err, thread>>
      /\ UNCHANGED crashed /\ TypeOK /\ SendOK(s)
  BY Zenon DEF send, rpcVars, NoCrash, SendInv
<1>2. /\ calls[s] = <<>> /\ list[s] = <<>> /\ sent[s] = <<>> /\ attempt[s] = 0
      /\ ret[s] = "none" /\ Told(s, 0) /\ thread[s] = "out" /\ stored[s] = {}
  BY <1>1 DEF SendOK
<1>3. CASE state = "STARTED"
  <2>1. pc' = [pc EXCEPT ![s] = "lookup"] /\ UNCHANGED <<calls, ret>>
    BY <1>3, Zenon DEF send, goTo
  <2>2. TypeOK' /\ Only(s) /\ pc'[s] = "lookup"
    BY <1>1, <2>1, Zenon DEF TypeOK, PC, Only
  <2>3. SendOK(s)'
    BY <1>1, <1>2, <2>1, <2>2, RoundKept, SendConstants, Zenon DEF SendOK, Told
  <2> QED BY <1>1, <2>2, <2>3, Zenon DEF Good, SendInv
<1>4. CASE state # "STARTED" /\ s \in Sync
  <2>1. pc' = [pc EXCEPT ![s] = "over"] /\ ret' = [ret EXCEPT ![s] = "failure"] /\ UNCHANGED calls
    BY <1>4, Zenon DEF send, goTo
  <2>2. TypeOK' /\ Only(s) /\ pc'[s] = "over" /\ ret'[s] = "failure"
    BY <1>1, <2>1, Zenon DEF TypeOK, PC, Only
  <2>3. SendOK(s)'
    BY <1>1, <1>2, <2>1, <2>2, RoundKept, SendConstants, Zenon DEF SendOK, Told
  <2> QED BY <1>1, <2>2, <2>3, Zenon DEF Good, SendInv
<1>5. CASE state # "STARTED" /\ s \notin Sync
  <2>1. /\ pc' = [pc EXCEPT ![s] = "lookup"] /\ UNCHANGED ret
        /\ calls' = [calls EXCEPT ![s] = Append(@, "failure")]
    BY <1>5, Zenon DEF send, goTo, invoke
  <2>2. calls' \in [Send -> Seq({"success", "failure"})]
    BY <1>1, <1>2, <2>1, Verdict, Zenon
  <2>3. TypeOK' /\ Only(s) /\ pc'[s] = "lookup" /\ calls'[s] = <<"failure">>
    BY <1>1, <1>2, <2>1, <2>2 DEF TypeOK, PC, Only
  <2>4. SendOK(s)'
    BY <1>1, <1>2, <1>5, <2>1, <2>3, RoundKept, SendConstants DEF SendOK, Told
  <2> QED BY <1>1, <2>3, <2>4, Zenon DEF Good, SendInv
<1> QED BY <1>3, <1>4, <1>5, Zenon

LEMMA RejectedOK ==
  ASSUME NEW s \in Send, SendInv, sendRejected(s)
  PROVE  Good(s)
<1>1. /\ pc[s] = "lookup" /\ pc' = [pc EXCEPT ![s] = "over"]
      /\ UNCHANGED <<state, list, attempt, sent, stored, flag, err, thread>>
      /\ UNCHANGED crashed /\ TypeOK /\ SendOK(s)
  BY Zenon DEF sendRejected, goTo, rpcVars, NoCrash, SendInv
<1>2. /\ list[s] = <<>> /\ sent[s] = <<>> /\ attempt[s] = 0
      /\ ret[s] = "none" /\ Told(s, 0) /\ thread[s] = "out" /\ stored[s] = {}
  BY <1>1 DEF SendOK
<1>3. CASE s \in Sync
  <2>1. ret' = [ret EXCEPT ![s] = "failure"] /\ UNCHANGED calls
    BY <1>3, Zenon DEF sendRejected
  <2>2. TypeOK' /\ Only(s) /\ pc'[s] = "over" /\ ret'[s] = "failure"
    BY <1>1, <2>1, ZenonT(60) DEF TypeOK, PC, Only
  <2>3. SendOK(s)'
    BY <1>1, <1>2, <2>1, <2>2, RoundKept, Zenon DEF SendOK, Told
  <2> QED BY <1>1, <2>2, <2>3, Zenon DEF Good, SendInv
<1>4. CASE s \notin Sync
  <2>1. calls' = [calls EXCEPT ![s] = Append(@, "failure")] /\ UNCHANGED ret
    BY <1>4, Zenon DEF sendRejected, invoke
  <2>2. /\ calls' \in [Send -> Seq({"success", "failure"})] /\ calls'[s] # <<>> /\ Told(s, 1)'
        /\ \A i \in 1..Len(calls'[s]) : calls'[s][i] # "success"
    BY <1>1, <1>2, <2>1, Verdict, Zenon
  <2>3. TypeOK' /\ Only(s) /\ pc'[s] = "over"
    BY <1>1, <2>1, <2>2, ZenonT(60) DEF TypeOK, PC, Only
  <2>4. SendOK(s)'
    BY <1>1, <1>2, <2>1, <2>2, <2>3, RoundKept, Zenon DEF SendOK
  <2> QED BY <1>1, <2>3, <2>4, Zenon DEF Good, SendInv
<1> QED BY <1>3, <1>4, Zenon

LEMMA Send0OK ==
  ASSUME NEW s \in Send, SendInv, send0(s)
  PROVE  Good(s)
<1>1. PICK l \in Lists : list' = [list EXCEPT ![s] = l] /\ sendImpl(s, 0, l)
  BY Zenon DEF send0
<1>2. /\ pc[s] = "lookup" /\ pc' = [pc EXCEPT ![s] = "rpc"]
      /\ sent' = [sent EXCEPT ![s] = Append(@, l[(0 % Len(l)) + 1])]
      /\ crashed' = (state = "STOPPED")
      /\ thread' = [thread EXCEPT ![s] = IF s \in Sync THEN "await" ELSE "out"]
      /\ UNCHANGED <<state, attempt, stored, calls, flag, err, ret>>
  BY <1>1, Zenon DEF send0, sendImpl, goTo, UsesManager
<1>3. l # <<>> /\ l[(0 % Len(l)) + 1] \in Broker
  BY Candidate, SendConstants, Zenon
<1>4. TypeOK /\ SendOK(s)
  BY Zenon DEF SendInv
<1>5. /\ sent[s] = <<>> /\ attempt[s] = 0 /\ Told(s, 0) /\ ret[s] = "none"
      /\ stored[s] = {}
  BY <1>2, <1>4 DEF SendOK
<1>6. TypeOK'
  <2>1. sent' \in [Send -> Seq(Broker)]
    BY <1>2, <1>3, <1>4 DEF TypeOK
  <2>2. list' \in [Send -> Lists \cup {<<>>}] /\ pc' \in [Send -> PC]
    BY <1>1, <1>2, <1>4, Zenon DEF TypeOK, PC
  <2>3. thread' \in [Send -> {"out", "await", "asleep", "read"}]
    BY <1>2, <1>4, Zenon DEF TypeOK
  <2> QED BY <1>2, <1>4, <2>1, <2>2, <2>3, ZenonT(60) DEF TypeOK
<1>7. Only(s)
  BY <1>1, <1>2, <1>4, Zenon DEF TypeOK, Only
<1>8. /\ sent'[s] = <<l[((1 - 1) % Len(l)) + 1]>> /\ list'[s] = l /\ pc'[s] = "rpc"
  BY <1>1, <1>2, <1>3, <1>4, <1>5 DEF TypeOK
<1>9. SendOK(s)'
  <2>1. Len(sent'[s]) = 1 /\ sent'[s] # <<>>
    BY <1>8
  <2>2. Len(sent'[s]) <= MaxAttempts /\ Len(sent'[s]) = attempt'[s] + 1
    BY <1>2, <1>5, <2>1, SendConstants
  <2>3. RoundRobin(s)'
    BY <1>8 DEF RoundRobin
  <2>4. pc'[s] = "rpc" /\ list'[s] # <<>> /\ stored'[s] = {}
    BY <1>2, <1>3, <1>5, <1>8, Zenon
  <2>5. /\ Told(s, 0)' /\ Told(s, 1)' /\ (state' = "STARTED" => calls'[s] # <<"failure">>)
        /\ \A i \in 1..Len(calls'[s]) : calls'[s][i] # "success"
    BY <1>2, <1>5, NothingTold, Zenon
  <2> QED BY <2>2, <2>3, <2>4, <2>5, Zenon DEF SendOK
<1> QED BY <1>2, <1>6, <1>7, <1>9, Zenon DEF Good

LEMMA StoresOK ==
  ASSUME NEW s \in Send, SendInv, NEW k \in 1..Len(sent[s]), brokerStores(s, k)
  PROVE  Good(s)
<1>1. /\ stored' = [stored EXCEPT ![s] = @ \cup {k}]
      /\ UNCHANGED <<state, pc, list, attempt, sent, calls, flag, err, thread, ret>>
      /\ UNCHANGED crashed /\ TypeOK /\ SendOK(s)
  BY Zenon DEF brokerStores, NoCrash, awaitVars, SendInv
<1>2. sent[s] \in Seq(Broker) /\ stored[s] \subseteq 1..Len(sent[s])
  BY <1>1, Zenon DEF TypeOK, SendOK
<1>3. k \in 1..MaxAttempts
  BY <1>1, <1>2, SendConstants DEF SendOK
<1>4. TypeOK'
  BY <1>1, <1>3, Zenon DEF TypeOK, PC
<1>5. Only(s) /\ stored'[s] = stored[s] \cup {k}
  BY <1>1, ZenonT(60) DEF TypeOK, Only
<1>6. SendOK(s)'
  BY <1>1, <1>2, <1>5, RoundKept, Zenon DEF SendOK, Told
<1> QED BY <1>1, <1>4, <1>5, <1>6, Zenon DEF Good, SendInv

LEMMA CompletesOK ==
  ASSUME NEW s \in Send, SendInv, NEW ok \in BOOLEAN, sendCompletes(s, ok)
  PROVE  Good(s)
<1>1. /\ pc[s] = "rpc" /\ (ok => Len(sent[s]) \in stored[s])
      /\ pc' = [pc EXCEPT ![s] = IF state \in {"STOPPED", "GONE"} THEN "lost"
                                 ELSE IF ok THEN "ok" ELSE "error"]
      /\ UNCHANGED <<state, list, attempt, sent, stored, calls, flag, err, thread, ret>>
      /\ UNCHANGED crashed /\ TypeOK /\ SendOK(s)
  BY Zenon DEF sendCompletes, goTo, NoCrash, rpcVars, awaitVars, SendInv
<1>2. TypeOK' /\ Only(s)
  BY <1>1, Zenon DEF TypeOK, PC, Only
<1>3. pc'[s] = IF state \in {"STOPPED", "GONE"} THEN "lost" ELSE IF ok THEN "ok" ELSE "error"
  BY <1>1, ZenonT(60) DEF TypeOK
<1>4. SendOK(s)'
  BY <1>1, <1>3, RoundKept DEF SendOK, Told
<1> QED BY <1>1, <1>2, <1>4, Zenon DEF Good, SendInv

LEMMA SuccessOK ==
  ASSUME NEW s \in Send, SendInv, onSuccess(s)
  PROVE  Good(s)
<1>1. /\ pc[s] = "ok" /\ pc' = [pc EXCEPT ![s] = IF s \in Sync THEN "signal" ELSE "over"]
      /\ calls' = [calls EXCEPT ![s] = Append(@, "success")]
      /\ flag' = IF s \in Sync THEN [flag EXCEPT ![s] = TRUE] ELSE flag
      /\ UNCHANGED <<state, list, attempt, sent, stored, err, thread, ret>>
      /\ UNCHANGED crashed /\ TypeOK /\ SendOK(s)
  BY Zenon DEF onSuccess, lastCallback, goTo, invoke, NoCrash, rpcVars, SendInv
<1>2. Told(s, 0) /\ list[s] # <<>> /\ stored[s] # {}
  BY <1>1, Zenon DEF SendOK
<1>3. /\ calls' \in [Send -> Seq({"success", "failure"})] /\ calls'[s] # <<>> /\ Told(s, 1)'
      /\ state = "STARTED" => calls'[s] = <<"success">>
  BY <1>1, <1>2, Verdict, Zenon
<1>4. TypeOK' /\ Only(s) /\ pc'[s] \in {"signal", "over"}
  BY <1>1, <1>3, ZenonT(60) DEF TypeOK, PC, Only
<1>5. SendOK(s)'
  BY <1>1, <1>2, <1>3, <1>4, RoundKept DEF SendOK
<1> QED BY <1>1, <1>4, <1>5, Zenon DEF Good, SendInv

(* The last attempt has failed, or the producer has been destructed. *)
LEMMA LastFailureOK ==
  ASSUME NEW s \in Send, SendInv, onFailure(s), attempt[s] + 1 >= MaxAttempts \/ state = "GONE"
  PROVE  Good(s)
<1>1. /\ pc[s] = "error" /\ attempt' = [attempt EXCEPT ![s] = @ + 1]
      /\ pc' = [pc EXCEPT ![s] = IF s \in Sync THEN "setEc" ELSE "over"]
      /\ calls' = [calls EXCEPT ![s] = Append(@, "failure")]
      /\ flag' = IF s \in Sync THEN [flag EXCEPT ![s] = TRUE] ELSE flag
      /\ UNCHANGED <<state, list, sent, stored, err, thread, ret>>
      /\ UNCHANGED crashed /\ TypeOK /\ SendOK(s)
  BY Zenon DEF onFailure, lastCallback, goTo, invoke, NoCrash, SendInv
<1>2. /\ Told(s, 0) /\ list[s] # <<>> /\ Len(sent[s]) = attempt[s] + 1
      /\ attempt[s] \in Nat /\ attempt[s] + 1 <= MaxAttempts
  BY <1>1 DEF SendOK, TypeOK
<1>3. /\ calls' \in [Send -> Seq({"success", "failure"})] /\ calls'[s] # <<>> /\ Told(s, 1)'
      /\ \A i \in 1..Len(calls'[s]) : calls'[s][i] # "success"
  BY <1>1, <1>2, Verdict, Zenon
<1>4. TypeOK'
  <2>1. attempt' \in [Send -> 0..MaxAttempts] /\ pc' \in [Send -> PC]
    BY <1>1, <1>2, AttemptsNat DEF TypeOK, PC
  <2>2. flag' \in [Send -> BOOLEAN]
    BY <1>1, Zenon DEF TypeOK
  <2> QED BY <1>1, <1>3, <2>1, <2>2, Zenon DEF TypeOK
<1>5. Only(s) /\ pc'[s] \in {"setEc", "over"} /\ attempt'[s] = attempt[s] + 1
  BY <1>1, Zenon DEF TypeOK, Only
<1>6. state = "STARTED" => attempt'[s] = MaxAttempts
  BY <1>2, <1>5, AttemptsNat
<1>7. SendOK(s)'
  BY <1>1, <1>2, <1>3, <1>5, <1>6, RoundKept, Zenon DEF SendOK
<1> QED BY <1>1, <1>4, <1>5, <1>7, Zenon DEF Good, SendInv

(* Another attempt is made, with the next candidate. *)
LEMMA RetryOK ==
  ASSUME NEW s \in Send, SendInv, onFailure(s), ~(attempt[s] + 1 >= MaxAttempts \/ state = "GONE")
  PROVE  Good(s)
<1> DEFINE n == attempt[s] + 1
           b == list[s][(n % Len(list[s])) + 1]
<1>1. /\ pc[s] = "error" /\ attempt' = [attempt EXCEPT ![s] = @ + 1]
      /\ pc' = [pc EXCEPT ![s] = "rpc"] /\ sent' = [sent EXCEPT ![s] = Append(@, b)]
      /\ UNCHANGED <<state, list, stored, calls, flag, err, thread, ret>>
      /\ crashed' = (state = "STOPPED")
  BY Zenon DEF onFailure, sendImpl, UsesManager, goTo
<1>2. TypeOK /\ SendOK(s)
  BY Zenon DEF SendInv
<1>3. /\ Told(s, 0) /\ list[s] # <<>> /\ list[s] \in Lists /\ Len(sent[s]) = n
      /\ attempt[s] \in Nat /\ sent[s] \in Seq(Broker) /\ n < MaxAttempts /\ n \in Nat
  BY <1>1, <1>2, SendConstants DEF SendOK, TypeOK
<1>4. b \in Broker
  BY <1>3, Candidate, Zenon
<1> HIDE DEF n, b
<1>5. TypeOK'
  <2>1. sent' \in [Send -> Seq(Broker)]
    BY <1>1, <1>2, <1>4 DEF TypeOK
  <2>2. attempt[s] + 1 \in 0..MaxAttempts
    BY <1>3, SendConstants DEF n
  <2>3. attempt' \in [Send -> 0..MaxAttempts] /\ pc' \in [Send -> PC]
    BY <1>1, <1>2, <2>2, Zenon DEF TypeOK, PC
  <2> QED BY <1>1, <1>2, <2>1, <2>3, Zenon DEF TypeOK
<1>6. Only(s) /\ sent'[s] = Append(sent[s], b) /\ pc'[s] = "rpc" /\ attempt'[s] = n
  BY <1>1, <1>2, Zenon DEF TypeOK, Only, n
<1>7. /\ Len(sent'[s]) = n + 1 /\ sent'[s][n + 1] = b
      /\ \A i \in 1..n : sent'[s][i] = sent[s][i]
  BY <1>3, <1>4, <1>6
<1>8. RoundRobin(s)'
  <2> SUFFICES ASSUME NEW i \in 1..n + 1
      PROVE  sent'[s][i] = list[s][((i - 1) % Len(list[s])) + 1]
    BY <1>1, <1>7, Zenon DEF RoundRobin
  <2>1. CASE i = n + 1
    <3>1. i - 1 = n
      BY <1>3, <2>1
    <3> QED BY <1>7, <2>1, <3>1, Zenon DEF b
  <2>2. CASE i # n + 1
    <3>1. i \in 1..n
      BY <1>3, <2>2
    <3> QED BY <1>2, <1>3, <1>7, <3>1, Zenon DEF SendOK, RoundRobin
  <2> QED BY <2>1, <2>2, Zenon
<1>9. stored[s] \subseteq 1..Len(sent'[s]) /\ Len(sent'[s]) <= MaxAttempts
  BY <1>2, <1>3, <1>7, SendConstants DEF SendOK
<1>10. SendOK(s)'
  <2>1. pc'[s] = "rpc" /\ list'[s] # <<>> /\ Len(sent'[s]) = attempt'[s] + 1 /\ stored'[s] = stored[s]
    BY <1>1, <1>3, <1>6, <1>7, Zenon
  <2>2. /\ Told(s, 0)' /\ Told(s, 1)' /\ (state' = "STARTED" => calls'[s] # <<"failure">>)
        /\ \A i \in 1..Len(calls'[s]) : calls'[s][i] # "success"
    BY <1>1, <1>3, NothingTold, Zenon
  <2> QED BY <1>8, <1>9, <2>1, <2>2, Zenon DEF SendOK
<1> QED BY <1>1, <1>5, <1>6, <1>10, Zenon DEF Good

(* setEc, signal, await, a spurious wake-up and the return of a            *)
(* synchronous send touch neither the RPCs nor the callback.               *)
LEMMA AwaitOK ==
  ASSUME NEW s \in Send, SendInv,
         setEc(s) \/ signal(s) \/ await(s) \/ spuriousWakeup(s) \/ sendReturns(s)
  PROVE  Good(s)
<1>1. /\ UNCHANGED <<state, list, attempt, sent, stored, calls, crashed>>
      /\ TypeOK /\ SendOK(s)
  BY Zenon DEF setEc, signal, await, spuriousWakeup, sendReturns, NoCrash, rpcVars, SendInv
<1>2. TypeOK' /\ Only(s)
  <2>1. CASE setEc(s)
    BY <1>1, <2>1, Zenon DEF setEc, goTo, TypeOK, PC, Only
  <2>2. CASE signal(s)
    BY <1>1, <2>2, Zenon DEF signal, goTo, TypeOK, PC, Only
  <2>3. CASE await(s) \/ spuriousWakeup(s)
    BY <1>1, <2>3, Zenon DEF await, spuriousWakeup, TypeOK, Only
  <2>4. CASE sendReturns(s)
    BY <1>1, <2>4, Zenon DEF sendReturns, TypeOK, Only
  <2> QED BY <2>1, <2>2, <2>3, <2>4, Zenon
<1>3. /\ pc'[s] = pc[s] \/ (pc[s] \in {"setEc", "signal"} /\ pc'[s] \in {"signal", "over"})
      /\ thread'[s] # "out" => thread[s] # "out"
      /\ ret'[s] = ret[s] \/ thread[s] # "out"
  BY <1>1, ZenonT(60) DEF setEc, signal, await, spuriousWakeup, sendReturns, goTo, TypeOK
<1>4. SendOK(s)'
  BY <1>1, <1>3, RoundKept, ZenonT(60) DEF SendOK, Told
<1> QED BY <1>1, <1>2, <1>4, Zenon DEF Good, SendInv

LEMMA OthersOK ==
  ASSUME NEW s \in Send, NEW u \in Send, u # s, Only(s), SendOK(u), state' = state
  PROVE  SendOK(u)'
<1>1. /\ pc'[u] = pc[u] /\ list'[u] = list[u] /\ attempt'[u] = attempt[u]
      /\ sent'[u] = sent[u] /\ stored'[u] = stored[u] /\ calls'[u] = calls[u]
      /\ thread'[u] = thread[u] /\ ret'[u] = ret[u]
  BY Zenon DEF Only
<1> QED BY <1>1, RoundKept, ZenonT(60) DEF SendOK, Told

LEMMA StepOK ==
  ASSUME NEW s \in Send, SendInv, Step(s)
  PROVE  SendInv' /\ Only(s) /\ state' = state
<1>1. Good(s)
  BY SendStepOK, RejectedOK, Send0OK, StoresOK, CompletesOK, SuccessOK, LastFailureOK, RetryOK,
     AwaitOK, Zenon
     DEF Step, Client, Handler, Completion, Waiter
<1>2. \A u \in Send : SendOK(u)'
  BY <1>1, OthersOK, Zenon DEF Good, SendInv
<1> QED BY <1>1, <1>2, Zenon DEF SendInv, Good

(* shutdown() and the destruction of the producer change its state only. *)
LEMMA StopOK == SendInv /\ (shutdown \/ destruct) => SendInv'
<1> SUFFICES ASSUME SendInv, shutdown \/ destruct PROVE SendInv'
  BY ZenonT(60)
<1>1. /\ UNCHANGED <<pc, list, attempt, sent, stored, calls, flag, err, thread, ret, crashed>>
      /\ ~crashed /\ state' \in {"STOPPING", "STOPPED", "GONE"}
      /\ state \in {"STOPPED", "GONE"} => state' \in {"STOPPED", "GONE"}
  BY Zenon DEF shutdown, destruct, rpcVars, awaitVars, NoCrash
<1>2. TypeOK'
  BY <1>1, Zenon DEF SendInv, TypeOK
<1>3. ASSUME NEW s \in Send PROVE SendOK(s)'
  BY <1>1, <1>3, RoundKept, ZenonT(60) DEF SendInv, SendOK, Told
<1> QED BY <1>1, <1>2, <1>3, Zenon DEF SendInv

LEMMA StutterOK == SendInv /\ UNCHANGED vars => SendInv' /\ UNCHANGED state
  BY RoundKept DEF SendInv, vars, rpcVars, awaitVars, TypeOK, SendOK, Told

(* The inductive invariant: what the callback has been told, how many      *)
(* requests have been sent, to whom, and what has been stored are          *)
(* determined by where RetrySendCallback is, whatever shutdown() and the   *)
(* destructor do meanwhile.                                                *)
THEOREM SendInvariance == Spec => []SendInv
<1>1. SendInv /\ [Next]_vars => SendInv'
  <2> SUFFICES ASSUME SendInv, Next PROVE SendInv'
    BY StutterOK, Zenon
  <2>1. CASE Running
    <3>1. PICK s \in Send : Step(s)
      BY <2>1, Zenon DEF Running, Step
    <3> QED BY <3>1, StepOK, Zenon
  <2> QED BY <2>1, StopOK, Zenon DEF Next
<1> QED BY <1>1, InitOK, PTL DEF Spec

(* A callback told of a success is right, with shutdown and destruction    *)
(* racing retries and late completions.                                    *)
THEOREM SuccessCorrect == Spec => []SuccessIsStored
<1>1. SendInv => SuccessIsStored
  BY Zenon DEF SendInv, SendOK, SuccessIsStored
<1> QED BY <1>1, SendInvariance, PTL

(* Only the asynchronous send of a stopped producer invokes its callback   *)
(* twice, and its first verdict is a failure.                              *)
THEOREM CallbackCorrect == Spec => []SecondCallbackOnlyStopped
<1>1. SendInv => SecondCallbackOnlyStopped
  BY DEF SendInv, SendOK, Told, SecondCallbackOnlyStopped
<1> QED BY <1>1, SendInvariance, PTL

(* Retries go round the candidates: two requests of a send that went to    *)
(* the same broker are a multiple of the number of candidates apart.       *)
THEOREM RetryCorrect == Spec => []RetriesElsewhere
<1>1. SendInv => RetriesElsewhere
  <2> SUFFICES ASSUME SendInv, NEW s \in Send, NEW i \in 1..Len(sent[s]),
                      NEW j \in 1..Len(sent[s]), sent[s][i] = sent[s][j]
               PROVE  i % Len(list[s]) = j % Len(list[s])
    BY Zenon DEF RetriesElsewhere
  <2> DEFINE n == Len(list[s])
  <2>1. sent[s] \in Seq(Broker) /\ list[s] \in Lists \cup {<<>>} /\ SendOK(s)
    BY Zenon DEF SendInv, TypeOK
  <2>2. list[s] \in Lists /\ i - 1 \in Nat /\ j - 1 \in Nat
    BY <2>1 DEF SendOK
  <2>3. n \in Nat \ {0}
    BY <2>2, SendConstants
  <2>4. (i - 1) % n \in 0..(n - 1) /\ (j - 1) % n \in 0..(n - 1)
    BY <2>2, <2>3, DivMod, Zenon
  <2>5. list[s][((i - 1) % n) + 1] = list[s][((j - 1) % n) + 1]
    BY <2>1, Zenon DEF SendOK, RoundRobin
  <2> HIDE DEF n
  <2>6. ((i - 1) % n) + 1 \in 1..n /\ ((j - 1) % n) + 1 \in 1..n
    BY <2>3, <2>4
  <2>7. ((i - 1) % n) + 1 = ((j - 1) % n) + 1
    BY <2>2, <2>5, <2>6, SendConstants, Zenon DEF n
  <2>8. (i - 1) % n = (j - 1) % n
    BY <2>4, <2>7
  <2>9. ((i - 1) + 1) % n = ((j - 1) + 1) % n
    BY <2>2, <2>3, <2>8, ModNext, Zenon
  <2>10. (i - 1) + 1 = i /\ (j - 1) + 1 = j
    BY <2>2
  <2> QED BY <2>9, <2>10, Zenon DEF n
<1> QED BY <1>1, SendInvariance, PTL

(* The same of a producer that is not shut down. *)
THEOREM RunningInvariance == RunningSpec => []RunningInv
<1>1. Init => RunningInv
  BY InitOK, Zenon DEF Init, RunningInv
<1>2. RunningInv /\ [Running]_vars => RunningInv'
  <2> SUFFICES ASSUME RunningInv, Running PROVE RunningInv'
    BY StutterOK, Zenon DEF RunningInv
  <2>1. PICK s \in Send : Step(s)
    BY Zenon DEF Running, Step
  <2> QED BY <2>1, StepOK, Zenon DEF RunningInv
<1> QED BY <1>1, <1>2, PTL DEF RunningSpec

(* A running producer reports a failure only after MaxAttempts attempts.   *)
THEOREM FailureCorrect == RunningSpec => []FailureIsFinal
<1>1. RunningInv => FailureIsFinal
  BY Zenon DEF RunningInv, SendInv, SendOK, FailureIsFinal
<1> QED BY <1>1, RunningInvariance, PTL

-----------------------------------------------------------------------------
(* Refinement. *)

(* What a step of send s is in the contract. *)
Begins(s) == Outcome(s) = "idle" /\ Outcome(s)' = "pending" /\ stored'[s] = stored[s]

Ends(s) ==
  /\ Outcome(s) = "pending" /\ stored'[s] = stored[s]
  /\ \/ Outcome(s)' = "failure"
     \/ Outcome(s)' = "success" /\ stored[s] # {}

Stores(s) ==
  /\ Outcome(s) # "idle" /\ Outcome(s)' = Outcome(s)
  /\ \E k \in (1..MaxAttempts) \ stored[s] : stored'[s] = stored[s] \cup {k}

Stutters(s) == Outcome(s)' = Outcome(s) /\ stored'[s] = stored[s]

(* What the invariant says of a send of a running producer. *)
Calm(s) ==
  /\ TypeOK /\ state = "STARTED" /\ pc[s] # "lost"
  /\ Len(sent[s]) <= MaxAttempts /\ stored[s] \subseteq 1..Len(sent[s])
  /\ pc[s] \in {"idle", "lookup"} =>
       list[s] = <<>> /\ sent[s] = <<>> /\ calls[s] = <<>> /\ ret[s] = "none"
  /\ pc[s] \in {"rpc", "ok", "error"} => list[s] # <<>> /\ calls[s] = <<>>
  /\ pc[s] = "ok" => stored[s] # {}
  /\ thread[s] # "out" => list[s] # <<>>

LEMMA RunningCalm ==
  ASSUME RunningInv, NEW s \in Send
  PROVE  Calm(s)
<1>1. TypeOK /\ state = "STARTED" /\ SendOK(s) /\ calls[s] \in Seq({"success", "failure"})
  BY Zenon DEF RunningInv, SendInv, TypeOK
<1>2. Told(s, 0) => calls[s] = <<>>
  BY <1>1 DEF Told
<1> QED BY <1>1, <1>2, Zenon DEF SendOK, Calm

LEMMA VerdictNotIdle ==
  ASSUME NEW verdicts \in Seq({"success", "failure"}), verdicts # <<>>
  PROVE  verdicts[1] # "idle"
<1>1. Len(verdicts) \in Nat /\ Len(verdicts) # 0
  OBVIOUS
<1>2. 1 \in 1..Len(verdicts)
  BY <1>1
<1> QED BY <1>2

LEMMA ClientMaps ==
  ASSUME NEW s \in Send, RunningInv, Client(s)
  PROVE  Begins(s) \/ Ends(s) \/ Stutters(s)
<1>1. TypeOK /\ state = "STARTED" /\ Calm(s)
  BY RunningCalm, Zenon DEF Calm
<1>2. CASE send(s)
  <2>1. pc[s] = "idle" /\ pc'[s] = "lookup" /\ UNCHANGED <<calls, ret, list, stored>>
    BY <1>1, <1>2, Zenon DEF send, goTo, rpcVars, TypeOK
  <2> QED BY <1>1, <2>1, Zenon DEF Begins, Outcome, Calm
<1>3. CASE sendRejected(s)
  <2>1. pc[s] = "lookup" /\ pc'[s] = "over" /\ UNCHANGED <<list, stored>>
    BY <1>1, <1>3, Zenon DEF sendRejected, goTo, rpcVars, TypeOK
  <2>2. calls[s] = <<>> /\ list[s] = <<>> /\ ret[s] = "none"
    BY <1>1, <2>1, Zenon DEF Calm
  <2>3. \/ calls' = calls /\ ret'[s] = "failure"
        \/ calls'[s] = <<"failure">>
    BY <1>1, <1>3, <2>2 DEF sendRejected, invoke, TypeOK
  <2>4. Outcome(s) = "pending" /\ Outcome(s)' = "failure"
    BY <2>1, <2>2, <2>3 DEF Outcome
  <2> QED BY <2>1, <2>4, Zenon DEF Ends
<1>4. CASE send0(s)
  <2>1. pc[s] = "lookup" /\ pc'[s] = "rpc" /\ UNCHANGED <<calls, ret, stored>>
    BY <1>1, <1>4, Zenon DEF send0, sendImpl, goTo, TypeOK
  <2>2. calls[s] = <<>> /\ ret[s] = "none"
    BY <1>1, <2>1, Zenon DEF Calm
  <2> QED BY <2>1, <2>2, Zenon DEF Stutters, Outcome
<1> QED BY <1>2, <1>3, <1>4, Zenon DEF Client

LEMMA SuccessMaps ==
  ASSUME NEW s \in Send, RunningInv, onSuccess(s)
  PROVE  Ends(s)
<1>1. TypeOK /\ Calm(s)
  BY RunningCalm, Zenon DEF Calm
<1>2. pc[s] = "ok" /\ pc'[s] \in {"signal", "over"} /\ UNCHANGED <<list, stored, ret>>
  BY <1>1, Zenon DEF onSuccess, lastCallback, goTo, rpcVars, TypeOK
<1>3. calls[s] = <<>> /\ list[s] # <<>> /\ stored[s] # {}
  BY <1>1, <1>2, Zenon DEF Calm
<1>4. calls'[s] = <<"success">>
  BY <1>1, <1>3 DEF onSuccess, lastCallback, invoke, TypeOK
<1>5. Outcome(s) = "pending" /\ Outcome(s)' = "success"
  BY <1>2, <1>3, <1>4 DEF Outcome
<1> QED BY <1>2, <1>3, <1>5, Zenon DEF Ends

LEMMA FailureMaps ==
  ASSUME NEW s \in Send, RunningInv, onFailure(s)
  PROVE  Ends(s) \/ Stutters(s)
<1>1. TypeOK /\ Calm(s)
  BY RunningCalm, Zenon DEF Calm
<1>2. pc[s] = "error" /\ pc'[s] # "idle" /\ UNCHANGED <<list, stored, ret>>
  BY <1>1, Zenon DEF onFailure, lastCallback, sendImpl, goTo, TypeOK
<1>3. calls[s] = <<>> /\ list[s] # <<>>
  BY <1>1, <1>2, Zenon DEF Calm
<1>4. calls' = calls \/ calls'[s] = <<"failure">>
  BY <1>1, <1>3 DEF onFailure, lastCallback, invoke, TypeOK
<1> QED BY <1>2, <1>3, <1>4 DEF Ends, Stutters, Outcome

LEMMA OtherMaps ==
  ASSUME NEW s \in Send, RunningInv,
         \/ setEc(s) \/ signal(s) \/ Completion(s) \/ Waiter(s) \/ spuriousWakeup(s)
  PROVE  Stutters(s)
<1>1. TypeOK /\ Calm(s)
  BY RunningCalm, Zenon DEF Calm
<1>2. UNCHANGED <<calls, list, stored>> /\ (pc'[s] = "idle" <=> pc[s] = "idle")
  BY <1>1, ZenonT(60)
     DEF setEc, signal, Completion, sendCompletes, Waiter, await, sendReturns,
         spuriousWakeup, goTo, rpcVars, awaitVars, TypeOK
<1>3. ret' = ret \/ list[s] # <<>>
  BY <1>1, Zenon DEF setEc, signal, Completion, sendCompletes, Waiter, await, sendReturns,
              spuriousWakeup, awaitVars, Calm
<1> QED BY <1>2, <1>3, Zenon DEF Stutters, Outcome

LEMMA StoreMaps ==
  ASSUME NEW s \in Send, RunningInv, NEW k \in 1..Len(sent[s]), brokerStores(s, k)
  PROVE  Stores(s)
<1>1. TypeOK /\ Calm(s)
  BY RunningCalm, Zenon DEF Calm
<1>2. /\ UNCHANGED <<pc, calls, list, ret>> /\ k \notin stored[s]
      /\ stored'[s] = stored[s] \cup {k}
  BY <1>1, Zenon DEF brokerStores, awaitVars, TypeOK
<1>3. k \in 1..MaxAttempts
  BY <1>1, AttemptsNat DEF Calm, TypeOK
<1>4. pc[s] # "idle"
  BY <1>1 DEF Calm
<1>5. Outcome(s)' = Outcome(s) /\ Outcome(s) # "idle"
  <2>1. Outcome(s)' = Outcome(s)
    BY <1>2, Zenon DEF Outcome
  <2>2. calls[s] # <<>> => calls[s][1] # "idle"
    BY <1>1, VerdictNotIdle, Zenon DEF TypeOK
  <2> QED BY <1>4, <2>1, <2>2, ZenonT(60) DEF Outcome
<1> QED BY <1>2, <1>3, <1>5, Zenon DEF Stores

LEMMA CountAfterStore ==
  ASSUME NEW D \in SUBSET (1..MaxAttempts), NEW k \in (1..MaxAttempts) \ D
  PROVE  /\ Cardinality(D) < MaxAttempts
         /\ Cardinality(D \cup {k}) = Cardinality(D) + 1
<1>1. IsFiniteSet(1..MaxAttempts) /\ Cardinality(1..MaxAttempts) = MaxAttempts
  BY FS_Interval, SendConstants
<1>2. IsFiniteSet(D) /\ Cardinality(D) \in Nat
  BY <1>1, FS_Subset, FS_CardinalityType, Zenon
<1>3. Cardinality(D \cup {k}) = Cardinality(D) + 1
  BY <1>2, FS_AddElement, Zenon
<1>4. D \cup {k} \in SUBSET (1..MaxAttempts)
  BY Zenon
<1>5. Cardinality(D \cup {k}) <= MaxAttempts
  BY <1>1, <1>4, FS_Subset, Zenon
<1> QED BY <1>2, <1>3, <1>5, SendConstants

LEMMA CountPositive ==
  ASSUME NEW D \in SUBSET (1..MaxAttempts), D # {}
  PROVE  Cardinality(D) > 0
<1>1. IsFiniteSet(1..MaxAttempts)
  BY FS_Interval, SendConstants
<1>2. IsFiniteSet(D)
  BY <1>1, FS_Subset, ZenonT(60)
<1> QED BY <1>2, FS_CardinalityType, FS_EmptySet

LEMMA StepMaps ==
  ASSUME NEW s \in Send, RunningInv, Step(s)
  PROVE  Contract!Next \/ UNCHANGED <<[u \in Send |-> Outcome(u)],
                                      [u \in Send |-> Cardinality(stored[u])]>>
<1> DEFINE outcome == [u \in Send |-> Outcome(u)]
           copies == [u \in Send |-> Cardinality(stored[u])]
<1>1. Begins(s) \/ Ends(s) \/ Stores(s) \/ Stutters(s)
  BY ClientMaps, SuccessMaps, FailureMaps, OtherMaps, StoreMaps, ZenonT(60) DEF Step, Handler
<1>2. \A u \in Send \ {s} : Outcome(u)' = Outcome(u) /\ stored'[u] = stored[u]
  BY StepOK DEF RunningInv, Only, Outcome
<1>3. stored[s] \in SUBSET (1..MaxAttempts) /\ SendInv
  BY Zenon DEF RunningInv, SendInv, TypeOK
<1>4. stored'[s] = stored[s] => copies' = copies
  BY <1>2, Zenon
<1>5. ASSUME NEW v, Outcome(s)' = v
      PROVE  outcome' = [outcome EXCEPT ![s] = v]
  BY <1>2, <1>5, ZenonT(60)
<1>6. CASE Begins(s)
  BY <1>4, <1>5, <1>6, ZenonT(60) DEF Begins, Contract!Next, Contract!Begin
<1>7. CASE Ends(s)
  <2>1. CASE Outcome(s)' = "failure"
    BY <1>4, <1>5, <1>7, <2>1, ZenonT(60) DEF Ends, Contract!Next, Contract!Fail
  <2>2. CASE Outcome(s)' = "success" /\ stored[s] # {}
    BY <1>3, <1>4, <1>5, <1>7, <2>2, CountPositive, Zenon DEF Ends, Contract!Next, Contract!Succeed
  <2> QED BY <1>7, <2>1, <2>2, ZenonT(60) DEF Ends
<1>8. CASE Stores(s)
  <2>1. PICK k \in (1..MaxAttempts) \ stored[s] : stored'[s] = stored[s] \cup {k}
    BY <1>8, Zenon DEF Stores
  <2>2. /\ Cardinality(stored[s]) < MaxAttempts
        /\ Cardinality(stored'[s]) = Cardinality(stored[s]) + 1
    BY <1>3, <2>1, CountAfterStore, Zenon
  <2>3. outcome' = outcome /\ outcome[s] # "idle"
    BY <1>2, <1>8, Zenon DEF Stores
  <2>4. copies' = [copies EXCEPT ![s] = @ + 1]
    BY <1>2, <2>2, Zenon
  <2> QED BY <2>2, <2>3, <2>4, ZenonT(60) DEF Contract!Next, Contract!Store
<1>9. CASE Stutters(s)
  BY <1>2, <1>4, <1>9, Zenon DEF Stutters
<1> QED BY <1>1, <1>6, <1>7, <1>8, <1>9, Zenon

(* A running producer implements SendContract: every step of the retry     *)
(* machinery is a step of one send of the contract, or invisible.          *)
THEOREM Refinement == RunningSpec => ContractSpec
<1>1. Init => Contract!Init
  BY FS_EmptySet, Zenon DEF Init, Contract!Init, Outcome
<1>2. RunningInv /\ [Running]_vars
      => [Contract!Next]_<<[s \in Send |-> Outcome(s)],
                           [s \in Send |-> Cardinality(stored[s])]>>
  <2>1. CASE UNCHANGED vars
    BY <2>1, Zenon DEF vars, rpcVars, awaitVars, Outcome
  <2>2. ASSUME RunningInv, Running
        PROVE  Contract!Next \/ UNCHANGED <<[s \in Send |-> Outcome(s)],
                                            [s \in Send |-> Cardinality(stored[s])]>>
    <3>1. PICK s \in Send : Step(s)
      BY <2>2, Zenon DEF Running, Step
    <3> QED BY <2>2, <3>1, StepMaps, Zenon
  <2> QED BY <2>1, <2>2, Zenon
<1> QED BY <1>1, <1>2, RunningInvariance, PTL DEF RunningSpec, ContractSpec, Contract!Spec
=============================================================================
