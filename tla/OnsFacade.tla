----------------------------- MODULE OnsFacade -----------------------------
(***************************************************************************)
(* The ons:: layer over the client: the properties an application sets, or *)
(* leaves to a file or the environment, the clients a factory makes of     *)
(* them, the callbacks of asynchronous sends and what a listener's answer  *)
(* is taken for.  A text is one of the kinds the code tells apart: ""      *)
(* (absent), "number", "big" (over 1024 threads), "junk", an "endpoint" of *)
(* an instance ("http://MQ_INST_...", with a dot) or another "address".    *)
(***************************************************************************)
EXTENDS Naturals, FiniteSets

CONSTANTS
  Setting,     \* what an application may set: <<key, value>>
  Found,       \* what a file or the environment may hold: functions from keys to values
  Callback     \* callbacks of the application

Key == {"AccessKey", "SecretKey", "GroupId", "ProducerId", "ConsumerId", "NAMESRV_ADDR",
        "ONSAddr", "OnsChannel", "MessageModel", "SendMsgTimeoutMillis", "SendMsgRetryTimes",
        "ConsumeThreadNums", "OnsTraceSwitch"}

Kinds == {"Producer", "OrderProducer", "TransactionProducer", "PushConsumer", "OrderConsumer"}
Consumers == {"PushConsumer", "OrderConsumer"}

(* No application, file or environment holds the keys that the client has  *)
(* for the INNER channel.                                                  *)
ASSUME FacadeConstants ==
  /\ \A s \in Setting : s[1] \in Key /\ s[2] # "DefaultKey"
  /\ \A f \in Found : \A k \in DOMAIN f : f[k] # "DefaultKey"

VARIABLES
  property_map,   \* key -> text
  file, env,      \* history: what the file and the environment held
  inner,          \* history: a client of the INNER channel was made of these properties
  made,           \* what came of the last call: a client, or why there is none
  callbacks_      \* wrappers a producer keeps, by callback

facadeVars == <<property_map, file, env, inner, made, callbacks_>>

NoClient(why) == [kind |-> why]
Empty(f, k) == k \notin DOMAIN f \/ f[k] = ""

(* setDefaults *)
Defaults ==
  [k \in Key |-> CASE k = "MessageModel" -> "CLUSTERING"
                   [] k = "SendMsgTimeoutMillis" -> "number"
                   [] k = "OnsTraceSwitch" -> "true"
                   [] OTHER -> ""]

Credential == {"AccessKey", "SecretKey", "NAMESRV_ADDR", "GroupId"}

(* loadConfigFile takes what the file has of these keys. *)
loadConfigFile(props, f) ==
  [k \in Key |-> IF k \in Credential \cap DOMAIN f THEN f[k] ELSE props[k]]

(* parseEnvironmentVariables takes what is set and not empty. *)
parseEnvironmentVariables(props, e) ==
  [k \in Key |-> IF k \in Credential /\ ~Empty(e, k) THEN e[k] ELSE props[k]]

(* validate *)
Valid(key, value) ==
  /\ key \in {"AccessKey", "SecretKey"} => value # ""
  /\ key = "MessageModel" => value \in {"BROADCASTING", "CLUSTERING"}

(* The constructors: an empty key in the file is an exception. *)
FacadeInit ==
  /\ file \in Found /\ env \in Found \cup {[k \in {} |-> ""]}
  /\ callbacks_ = [c \in {} |-> c] /\ inner = FALSE
  /\ LET fine == \A k \in {"AccessKey", "SecretKey"} \cap DOMAIN file : Valid(k, file[k])
     IN  /\ made = NoClient(IF fine THEN "none" ELSE "not constructed")
         /\ property_map = IF fine
                           THEN parseEnvironmentVariables(loadConfigFile(Defaults, file), env)
                           ELSE Defaults

Usable == made.kind # "not constructed"

setFactoryProperty(key, value) ==
  /\ Usable
  /\ property_map' = IF Valid(key, value) THEN [property_map EXCEPT ![key] = value] ELSE property_map
  /\ made' = NoClient(IF Valid(key, value) THEN "none" ELSE "invalid")
  /\ UNCHANGED <<file, env, inner, callbacks_>>

-----------------------------------------------------------------------------
(* getOnsChannel: an unknown channel is ALIYUN. *)
getOnsChannel(props) ==
  IF props["OnsChannel"] \in {"CLOUD", "ALL", "LOCAL", "INNER"} THEN props["OnsChannel"] ELSE "ALIYUN"

(* A client of the INNER channel gets keys and an address of its own, for  *)
(* good: the application's properties are changed.                         *)
withInnerDefaults(props) ==
  IF getOnsChannel(props) # "INNER" THEN props
  ELSE [props EXCEPT !["OnsTraceSwitch"] = "false", !["AccessKey"] = "DefaultKey",
                     !["SecretKey"] = "DefaultKey", !["NAMESRV_ADDR"] = "address"]

needsNothing(props) == TRUE        \* mutant: a client of Aliyun may lack keys

(* operator bool *)
complete(props) ==
  getOnsChannel(props) = "ALIYUN" => props["AccessKey"] # "" /\ props["SecretKey"] # ""

(* getProducerId, getConsumerId; the other producers take the group only. *)
groupOf(kind, props) ==
  CASE props["GroupId"] # "" -> props["GroupId"]
    [] props["GroupId"] = "" /\ kind = "Producer" -> props["ProducerId"]
    [] props["GroupId"] = "" /\ kind \in Consumers -> props["ConsumerId"]
    [] OTHER -> ""

(* AccessPoint::operator bool *)
isAccessPoint(props) == props["NAMESRV_ADDR"] = "endpoint"

(* The name server of a client: that of its instance, addresses, or a      *)
(* place to discover them; a consumer without any gets an empty list.      *)
resolverOf(kind, props) ==
  CASE isAccessPoint(props) -> "instance"
    [] ~isAccessPoint(props) /\ props["NAMESRV_ADDR"] # "" -> "static"
    [] props["NAMESRV_ADDR"] = "" /\ props["ONSAddr"] # "" -> "discovery"
    [] OTHER -> IF kind \in Consumers THEN "empty list" ELSE "none"

(* stoi throws at a text that is no number; SimpleAtoi falls back. *)
stoiThrows(kind, props) ==
  IF kind \in Consumers THEN props["ConsumeThreadNums"] = "junk"
  ELSE props["SendMsgRetryTimes"] = "junk"

(* The constructors of the clients.  The order producer and the            *)
(* transaction producer say nothing of tracing, and the transaction        *)
(* producer nothing of its checker; the limit of a thousand threads comes  *)
(* after the count is set.                                                 *)
ClientOf(kind, props) ==
  [kind |-> kind, group |-> groupOf(kind, props), resolver |-> resolverOf(kind, props),
   namespace |-> IF isAccessPoint(props) THEN "instance" ELSE "",
   keys |-> <<props["AccessKey"], props["SecretKey"]>>,
   timeout |-> IF props["SendMsgTimeoutMillis"] = "number" THEN "number" ELSE "default",
   attempts |-> IF kind \notin Consumers /\ props["SendMsgRetryTimes"] # "" THEN "set" ELSE "default",
   threads |-> IF kind \in Consumers /\ props["ConsumeThreadNums"] # ""
               THEN props["ConsumeThreadNums"] ELSE "default",
   model |-> IF kind \in Consumers THEN props["MessageModel"] ELSE "CLUSTERING",
   tracing |-> IF kind \in {"OrderProducer", "TransactionProducer"} THEN "default"
               ELSE props["OnsTraceSwitch"],
   checker |-> FALSE]

(* ONSFactoryInstance::create... *)
create(kind, checker) ==
  LET props == withInnerDefaults(property_map)
  IN  /\ Usable
      /\ property_map' = props /\ inner' = (inner \/ getOnsChannel(property_map) = "INNER")
      /\ made' = CASE ~complete(props) -> NoClient("incomplete")
                   [] complete(props) /\ kind = "TransactionProducer" /\ ~checker -> NoClient("no checker")
                   [] stoiThrows(kind, props) -> NoClient("not a number")
                   [] OTHER -> ClientOf(kind, props)
      /\ UNCHANGED <<file, env, callbacks_>>

(* ProducerImpl::sendAsync wraps a callback once and keeps the wrapper. *)
sendAsync(c) ==
  /\ made.kind = "Producer"
  /\ callbacks_' = [x \in DOMAIN callbacks_ \cup {c} |-> x]
  /\ UNCHANGED <<property_map, file, env, inner, made>>

(* MessageListenerWrapper and OrderListenerWrapper: an answer that is none *)
(* of those named is a failure to one and a success to the other.          *)
consumeMessage(kind, answer) ==
  /\ made.kind = kind /\ kind \in Consumers
  /\ made' = [kind |-> "consumed", listener |-> kind, answer |-> answer,
              result |-> CASE answer = "good" -> "SUCCESS"
                           [] answer = "again" -> "FAILURE"
                           [] OTHER -> IF kind = "PushConsumer" THEN "FAILURE" ELSE "SUCCESS"]
  /\ UNCHANGED <<property_map, file, env, inner, callbacks_>>

FacadeNext ==
  \/ \E s \in Setting : setFactoryProperty(s[1], s[2])
  \/ \E k \in Kinds, checker \in BOOLEAN : create(k, checker)
  \/ \E c \in Callback : sendAsync(c)
  \/ \E k \in Consumers, a \in {"good", "again", "other"} : consumeMessage(k, a)

-----------------------------------------------------------------------------
(* Properties. *)

IsClient == made.kind \in Kinds

(* A client the factory makes has keys if it belongs to Aliyun, and what   *)
(* the application, the environment or the file says (in that order of     *)
(* preference); it knows a name server if any is named, and the instance's *)
(* namespace only with the instance's address.  Its group may be empty     *)
(* only if GroupId is, and then an order or transaction producer's is,     *)
(* whatever ProducerId says.  The keys of the INNER channel reach another  *)
(* client only if one of that channel was made of the same properties.     *)
FacadeInv ==
  /\ DOMAIN property_map = Key
  /\ \A k \in {"AccessKey", "SecretKey"} : ~Empty(env, k) /\ Usable => property_map[k] # ""
  /\ IsClient =>
       /\ getOnsChannel(property_map) = "ALIYUN" => made.keys[1] # "" /\ made.keys[2] # ""
       /\ "DefaultKey" \in {made.keys[1], made.keys[2]} => inner
       /\ made.resolver = "none" => property_map["NAMESRV_ADDR"] = "" /\ property_map["ONSAddr"] = ""
       /\ made.namespace # "" <=> made.resolver = "instance"
       /\ property_map["GroupId"] # "" => made.group = property_map["GroupId"]
       /\ made.kind \in {"OrderProducer", "TransactionProducer"} => made.group = property_map["GroupId"]
  /\ made.kind = "consumed" /\ made.answer # "other" =>
       (made.result = "SUCCESS" <=> made.answer = "good")
=============================================================================
