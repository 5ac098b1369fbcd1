---------------------------- MODULE MCTranslation ----------------------------
(***************************************************************************)
(* The layers that translate, for TLC: messages to the wire and back, a    *)
(* route to the queues a client uses, subscriptions to requests, ONS       *)
(* properties to clients, spans to what a collector receives.  They share  *)
(* no state; a behaviour is one of part's, the others stay in their        *)
(* initial states.                                                         *)
(***************************************************************************)
EXTENDS MessageCodec, QueueChoice, Requests, OnsFacade, Tracing, SequencesExt

VARIABLE part

vars == <<part, codecVars, queueVars, requestVars, facadeVars, tracingVars>>

DraftValue ==
  [topic : {"legal", "illegal"}, tag : {"", "t"}, keys : {{}, {"k"}},
   props : {[n \in {} |-> 0], [n \in {"colour"} |-> "red"], [n \in {"colour", "__TAG"} |-> "red"]},
   length : {0, 1, 3, 4}, start : {0, 2}]

MomentValue == [sec : {1}, nanos : {0, 3}]

(* A partition on the wire. *)
W(b, i, m, p, s, h) ==
  [broker |-> b, id |-> i, master |-> m, permission |-> p, scheme |-> s, hosts |-> h]
W1 == W(1, 0, TRUE, "READ_WRITE", "IPv4", <<1, 2>>)
W2 == W(1, 1, TRUE, "WRITE", "IPv4", <<2, 1>>)
W3 == W(2, 0, TRUE, "NONE", "DOMAIN_NAME", <<3>>)
W4 == W(2, 1, FALSE, "READ", "IPv6", <<3>>)
W5 == W(3, 0, TRUE, "READ", "IPv4", <<>>)
W6 == W(2, 0, TRUE, "READ_WRITE", "OTHER", <<1, 3>>)

ResponseValue ==
  UNION {SetToSeqs(S) : S \in {{W1}, {W4, W5}, {W5}, {W1, W6}, {W1, W2, W3}, {W2, W4, W6}}}

DnsValue ==
  {[h \in 1 .. 3 |-> "no"], [h \in 1 .. 3 |-> "d"], [h \in 1 .. 3 |-> IF h = 1 THEN "d" ELSE "no"]}

NamingValue ==
  [scheme : {"dns", "none"},
   items : SUBSET {[host |-> "a", port |-> "none"], [host |-> "b", port |-> "8080"]}]

SettingValue ==
  {<<"AccessKey", "">>, <<"AccessKey", "a">>, <<"SecretKey", "s">>, <<"GroupId", "g">>,
   <<"ProducerId", "p">>, <<"ConsumerId", "c">>, <<"NAMESRV_ADDR", "endpoint">>,
   <<"NAMESRV_ADDR", "address">>, <<"ONSAddr", "address">>, <<"OnsChannel", "INNER">>,
   <<"OnsChannel", "ALIYUN">>, <<"SendMsgRetryTimes", "junk">>}

FoundValue ==
  {[k \in {} |-> ""], [k \in {"AccessKey"} |-> ""], [k \in {"AccessKey", "GroupId"} |-> "f"]}

TracedValue ==
  {[keys |-> <<>>, type |-> "FIFO", delivery |-> 0],
   [keys |-> << <<"a">>, <<"b">> >>, type |-> "NORMAL", delivery |-> 1],
   [keys |-> << <<"a">>, <<"b", "c">> >>, type |-> "NORMAL", delivery |-> 0]}

ExtraValue ==
  {[await |-> FALSE, notes |-> 0, events |-> 1, links |-> 0, ok |-> FALSE],
   [await |-> TRUE, notes |-> 1, events |-> 0, links |-> 0, ok |-> TRUE],
   [await |-> TRUE, notes |-> 2, events |-> 0, links |-> 1, ok |-> TRUE]}

(* The inputs of the parts that do not move are fixed. *)
Init ==
  /\ part \in {"codec", "queue", "request", "facade", "trace"}
  /\ part # "codec" => draft = CHOOSE x \in Draft : TRUE
  /\ part # "queue" => dns = CHOOSE x \in Dns : TRUE
  /\ part # "request" => credentials = {None}
  /\ part # "facade" => file = CHOOSE x \in Found : TRUE
  /\ part # "facade" => env = CHOOSE x \in Found : TRUE
  /\ part # "trace" => mode_ = "Off" /\ provider = TRUE
  /\ CodecInit /\ QueueInit /\ RequestsInit /\ FacadeInit /\ TracingInit

(* The rest while one part moves. *)
Only(name) ==
  /\ part = name /\ UNCHANGED part
  /\ name # "codec" => UNCHANGED codecVars
  /\ name # "queue" => UNCHANGED queueVars
  /\ name # "request" => UNCHANGED requestVars
  /\ name # "facade" => UNCHANGED facadeVars
  /\ name # "trace" => UNCHANGED tracingVars

Next ==
  \/ Only("codec") /\ CodecNext
  \/ Only("queue") /\ QueueNext
  \/ Only("request") /\ RequestsNext
  \/ Only("facade") /\ FacadeNext
  \/ Only("trace") /\ TracingNext

Spec == Init /\ [][Next]_vars
=============================================================================
