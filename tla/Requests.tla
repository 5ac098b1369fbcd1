------------------------------ MODULE Requests ------------------------------
(***************************************************************************)
(* What consumers tell brokers: the subscriptions of a push consumer, the  *)
(* requests its process queues make of them, its heartbeats and commands,  *)
(* the requests of a pull consumer, and the headers all of them carry.     *)
(* Group, namespace and client id go along everywhere and are left out.    *)
(***************************************************************************)
EXTENDS Integers, FiniteSets

CONSTANTS
  Topic,
  Tag,              \* contents of expressions; "" is one an application may pass
  Offset,           \* offsets a pull consumer asks for
  Millis,           \* times it waits, in milliseconds
  MillisPerSecond, NanosPerMilli,   \* scaled down
  Naming            \* name server addresses: [scheme, items], an item [host, port]

None == "none"

ASSUME RequestConstants ==
  /\ Millis \subseteq Nat /\ MillisPerSecond \in Nat \ {0} /\ NanosPerMilli \in Nat \ {0}

ExpressionType == {"TAG", "SQL92"}
Wildcard == [content |-> "*", type |-> "TAG"]

VARIABLES
  table,       \* topic_filter_expression_table_: topic -> expression, or NoExpression
  queues,      \* topics the consumer has a process queue of
  told,        \* what the broker last heard from a heartbeat: topic -> expression
  changed,     \* history: topics (un)subscribed since that heartbeat
  credentials, \* what the provider gives: subset of {"key", "secret", "token"}, or None
  request      \* the last request made

requestVars == <<table, queues, told, changed, credentials, request>>

NoExpression == [content |-> "", type |-> None]
Expression == [content : Tag \cup {"*"}, type : ExpressionType]

RequestsTypeOK ==
  /\ table \in [Topic -> Expression \cup {NoExpression}]
  /\ told \in [Topic -> Expression \cup {NoExpression}]
  /\ queues \subseteq Topic /\ changed \subseteq Topic

RequestsInit ==
  /\ table = [t \in Topic |-> NoExpression] /\ told = [t \in Topic |-> NoExpression]
  /\ queues = {} /\ changed = {} /\ request = [kind |-> None, headers |-> {}]
  /\ credentials \in SUBSET {"key", "secret", "token"} \cup {{None}}

(* Signature::sign: a signature takes a key and a secret, and a session    *)
(* token goes only along with one.                                         *)
sign ==
  {"language", "version", "protocol", "date"}
  \cup (IF {"key", "secret"} \subseteq credentials THEN {"authorization"} ELSE {})
  \cup (IF {"key", "secret", "token"} \subseteq credentials THEN {"token"} ELSE {})

Subscribed == {t \in Topic : table[t] # NoExpression}

-----------------------------------------------------------------------------
(* FilterExpression: an empty tag stands for all. *)
FilterExpression(content, type) ==
  [content |-> IF type = "TAG" /\ content = "" THEN "*" ELSE content, type |-> type]

(* PushConsumerImpl::subscribe: a topic keeps its first expression. *)
subscribe(t, content, type) ==
  /\ table' = IF t \in Subscribed THEN table
              ELSE [table EXCEPT ![t] = FilterExpression(content, type)]
  /\ changed' = IF t \in Subscribed THEN changed ELSE changed \cup {t}
  /\ UNCHANGED <<queues, told, credentials, request>>

unsubscribe(t) ==
  /\ table' = [table EXCEPT ![t] = NoExpression]
  /\ changed' = IF t \in Subscribed THEN changed \cup {t} ELSE changed
  /\ UNCHANGED <<queues, told, credentials, request>>

(* scanAssignments looks at subscribed topics only, so the process queues  *)
(* of another stay as they are.                                            *)
scanAssignments ==
  /\ queues' = queues \cup Subscribed
  /\ UNCHANGED <<table, told, changed, credentials, request>>

asksForAll(t) == Wildcard     \* mutant: the subscription is not looked up

(* wrapFilterExpression: a topic no longer subscribed is read in full. *)
wrapFilterExpression(t) == IF t \in Subscribed THEN table[t] ELSE Wildcard

Duration(ms) ==
  [sec |-> ms \div MillisPerSecond, nanos |-> (ms % MillisPerSecond) * NanosPerMilli]

(* wrapPopMessageRequest names the broker of the queue and not its id. *)
wrapPopMessageRequest(t, listener, invisible) ==
  /\ t \in queues
  /\ request' = [kind |-> "pop", topic |-> t, filter |-> wrapFilterExpression(t),
                 fifo |-> listener = "FIFO", time |-> Duration(invisible), millis |-> invisible,
                 headers |-> sign]
  /\ UNCHANGED <<table, queues, told, changed, credentials>>

wrapPullMessageRequest(t) ==
  /\ t \in queues
  /\ request' = [kind |-> "pull", topic |-> t, filter |-> wrapFilterExpression(t),
                 headers |-> sign]
  /\ UNCHANGED <<table, queues, told, changed, credentials>>

(* prepareHeartbeatData and its delivery. *)
heartbeat(listener) ==
  /\ told' = table /\ changed' = {}
  /\ request' = [kind |-> "heartbeat", fifo |-> listener = "FIFO", headers |-> sign]
  /\ UNCHANGED <<table, queues, credentials>>

(* resourceBundle, which every command poll carries. *)
resourceBundle ==
  /\ request' = [kind |-> "poll", topics |-> Subscribed, headers |-> sign]
  /\ UNCHANGED <<table, queues, told, changed, credentials>>

(* setAccessPoint: items without a port are left out. *)
AccessPoint(n) ==
  [scheme |-> n.scheme, hosts |-> {x \in n.items : n.scheme # None /\ x.port # None}]

wrapQueryAssignmentRequest(t, n) ==
  /\ t \in Subscribed
  /\ request' = [kind |-> "assignment", topic |-> t, naming |-> n, access |-> AccessPoint(n),
                 headers |-> sign]
  /\ UNCHANGED <<table, queues, told, changed, credentials>>

(* PullConsumerImpl::queryOffset and pull: the only filter is the topic. *)
queryOffset(policy, ms) ==
  /\ request' = [kind |-> "offset", policy |-> policy,
                 time |-> IF policy = "TIME_POINT" THEN Duration(ms) ELSE Duration(0),
                 millis |-> IF policy = "TIME_POINT" THEN ms ELSE 0, headers |-> sign]
  /\ UNCHANGED <<table, queues, told, changed, credentials>>

pull(offset, ms) ==
  /\ request' = [kind |-> "pull at", offset |-> offset, time |-> Duration(ms), millis |-> ms,
                 headers |-> sign]
  /\ UNCHANGED <<table, queues, told, changed, credentials>>

RequestsNext ==
  \/ \E t \in Topic :
       \/ \E c \in Tag, e \in ExpressionType : subscribe(t, c, e)
       \/ unsubscribe(t) \/ wrapPullMessageRequest(t)
       \/ \E l \in {"FIFO", "STANDARD"}, ms \in Millis : wrapPopMessageRequest(t, l, ms)
       \/ \E n \in Naming : wrapQueryAssignmentRequest(t, n)
  \/ scanAssignments \/ resourceBundle
  \/ \E l \in {"FIFO", "STANDARD"} : heartbeat(l)
  \/ \E ms \in Millis :
       \/ \E p \in {"BEGINNING", "END", "TIME_POINT"} : queryOffset(p, ms)
       \/ \E o \in Offset : pull(o, ms)

-----------------------------------------------------------------------------
(* Properties. *)

(* A topic that is read for the consumer is read with the expression the   *)
(* broker heard of in the last heartbeat, unless it was subscribed or      *)
(* unsubscribed since; a topic that heartbeat did not mention is read in   *)
(* full, as a process queue outlives its subscription.  Times arrive to    *)
(* the millisecond; a request is signed exactly if the credentials are     *)
(* complete, and no session token goes unsigned; and the access point      *)
(* lists every name server with a port.                                    *)
RequestsInv ==
  /\ RequestsTypeOK
  /\ request.kind \in {"pop", "pull"} =>
       LET t == request.topic
       IN  t \notin changed => request.filter = (IF told[t] = NoExpression THEN Wildcard ELSE told[t])
  /\ request.kind \in {"pop", "offset", "pull at"} =>
       /\ request.time.sec * MillisPerSecond * NanosPerMilli + request.time.nanos
            = request.millis * NanosPerMilli
       /\ request.time.nanos < MillisPerSecond * NanosPerMilli
  /\ request.kind = "assignment" /\ request.naming.scheme # None =>
       {x.host : x \in request.access.hosts} = {x.host : x \in {y \in request.naming.items : y.port # None}}
  /\ "authorization" \in request.headers <=> request.kind # None /\ {"key", "secret"} \subseteq credentials
  /\ "token" \in request.headers => "authorization" \in request.headers
=============================================================================
