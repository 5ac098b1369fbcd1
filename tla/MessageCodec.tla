---------------------------- MODULE MessageCodec ----------------------------
(***************************************************************************)
(* The way of one message: the application's ons::Message, the MQMessage   *)
(* made of it, the request that carries it, what the broker stores, the    *)
(* MQMessageExt that a consumer decodes, and the ons::Message its listener *)
(* gets.  A body is its length, whether it is packed (deflated) and        *)
(* whether it is as it was; other attributes are members of small sets.    *)
(***************************************************************************)
EXTENDS Naturals, Functions

CONSTANTS
  Draft,                  \* the messages an application makes
  Group,                  \* message groups (sharding keys)
  Now,                    \* time of sending, in seconds
  CompressBodyThreshold, MaxMessageBodySize,
  Digest, Encoding,       \* what a broker may mark a message with
  NanosPerMicro, MicrosPerSecond,   \* a thousand and a million, scaled down
  Moment                  \* times a broker may mark a message with: [sec, nanos]

ASSUME CodecConstants ==
  /\ {Now, CompressBodyThreshold, MaxMessageBodySize} \subseteq Nat
  /\ {"GZIP", "IDENTITY"} \subseteq Encoding
  /\ NanosPerMicro \in Nat \ {0} /\ MicrosPerSecond \in Nat \ {0}
  /\ \A d \in Draft : d.length \in Nat

VARIABLES
  stage,   \* "ons", "mq", "request", "stored", "ext", "listener"; or "rejected", "dropped"
  msg,     \* the message in its form of that stage
  draft,   \* history: the message as the application made it
  stored   \* history: what the broker did with it

codecVars == <<stage, msg, draft, stored>>

ReservedKeys == {"__TAG", "__MSGID", "__RECONSUMETIMES", "__STARTDELIVERTIME"}
Unreserved(props) == Restrict(props, DOMAIN props \ ReservedKeys)
WithProperty(props, name, value) ==
  [n \in DOMAIN props \cup {name} |-> IF n = name THEN value ELSE props[n]]

Untouched ==
  [digest |-> "none", encoding |-> "IDENTITY", added |-> "none", moment |-> [sec |-> 0, nanos |-> 0]]

CodecTypeOK ==
  /\ stage \in {"ons", "mq", "request", "stored", "ext", "listener", "rejected", "dropped"}
  /\ draft \in Draft
  /\ msg.body.length \in Nat /\ msg.body.packed \in BOOLEAN /\ msg.body.intact \in BOOLEAN
  /\ stored.digest \in Digest \cup {"none"} /\ stored.encoding \in Encoding

(* The constructors of Message and MQMessage: an MQMessage has an id from  *)
(* the start and the type NORMAL.                                          *)
CodecInit ==
  /\ stage = "ons" /\ draft \in Draft /\ stored = Untouched
  /\ msg = [topic |-> draft.topic, tag |-> draft.tag, keys |-> draft.keys, props |-> draft.props,
            body |-> [length |-> draft.length, packed |-> FALSE, intact |-> TRUE],
            start |-> draft.start, id |-> "own", type |-> "NORMAL", group |-> "",
            deliverAt |-> 0, attempt |-> 0, born |-> 0]

(* ONSUtil::msgConvert(Message): properties that look like the system's    *)
(* are left out, and a delivery time to come becomes one.                  *)
toMQMessage(m) ==
  [m EXCEPT !.start = 0,
            !.props = IF m.start > Now
                      THEN WithProperty(Unreserved(@), "__STARTDELIVERTIME", m.start)
                      ELSE Unreserved(@)]

msgConvert ==
  /\ stage = "ons" /\ stage' = "mq" /\ msg' = toMQMessage(msg) /\ UNCHANGED <<draft, stored>>

(* MQMessage::bindMessageGroup, by the ordered producer. *)
bindMessageGroup(group) ==
  /\ stage = "mq" /\ msg.group = ""
  /\ msg' = [msg EXCEPT !.group = group, !.type = "FIFO"] /\ UNCHANGED <<stage, draft, stored>>

(* MixAll::validate *)
validate(m) == m.topic = "legal" /\ m.body.length \in 1 .. MaxMessageBodySize

compress(body) == [body EXCEPT !.packed = TRUE]
Compressed(m) == m.body.length >= CompressBodyThreshold

packsAbove(m) ==                  \* mutant: the body at the threshold itself is not deflated
  [m EXCEPT !.body = IF @.length > CompressBodyThreshold THEN compress(@) ELSE @]

(* ProducerImpl::wrapSendMessageRequest.  Group, id, type and properties   *)
(* go along; a delivery time goes into the field of the delivery attempt.  *)
wrapSendMessageRequest(m) ==
  [m EXCEPT !.body = IF Compressed(m) THEN compress(@) ELSE @,
            !.attempt = m.deliverAt, !.deliverAt = 0]

send ==
  /\ stage = "mq"
  /\ stage' = IF validate(msg) THEN "request" ELSE "rejected"
  /\ msg' = IF validate(msg) THEN wrapSendMessageRequest(msg) ELSE msg
  /\ stored' = [stored EXCEPT !.encoding = IF Compressed(msg) THEN "GZIP" ELSE "IDENTITY"]
  /\ UNCHANGED draft

(* External: a broker adds a digest, a property of the system's and times, *)
(* perhaps damages the body or marks it with an encoding of its own.       *)
brokerStores(digest, damaged, encoding, added, moment) ==
  /\ stage = "request" /\ stage' = "stored"
  /\ encoding \in {stored.encoding, "OTHER"} \cap Encoding
  /\ stored' = [digest |-> digest, encoding |-> encoding, added |-> added, moment |-> moment]
  /\ msg' = [msg EXCEPT !.body.intact = ~damaged, !.born = moment, !.deliverAt = moment,
                        !.props = IF added = "none" THEN @ ELSE WithProperty(@, added, "broker's")]
  /\ UNCHANGED draft

(* wrapMessage: a digest is computed over the body as it came, and only if *)
(* there is one; an unknown kind of digest passes.                         *)
digestMatches(m) ==
  \/ m.body.length = 0
  \/ stored.digest \notin {"CRC32", "MD5", "SHA1"}
  \/ m.body.intact

(* UtilAll::uncompress, whose failure nobody notices: what came out until  *)
(* then is the body.                                                       *)
uncompress(body) == [body EXCEPT !.packed = FALSE, !.intact = @ /\ body.packed]

(* An encoding the client does not know leaves the body empty. *)
decodedBody(m) ==
  CASE stored.encoding = "GZIP" -> uncompress(m.body)
    [] stored.encoding = "IDENTITY" -> m.body
    [] OTHER -> [m.body EXCEPT !.length = 0]

micros(moment) == moment.sec * MicrosPerSecond + moment.nanos \div NanosPerMicro

(* The remaining attributes.  The message group is not among them, and the *)
(* nanoseconds of the delivery time are taken for microseconds.            *)
decodedAttributes(m) ==
  [m EXCEPT !.group = "", !.born = micros(@),
            !.deliverAt = @.sec * MicrosPerSecond + @.nanos]

wrapMessage ==
  /\ stage = "stored"
  /\ stage' = IF digestMatches(msg) THEN "ext" ELSE "dropped"
  /\ msg' = IF digestMatches(msg) THEN [decodedAttributes(msg) EXCEPT !.body = decodedBody(msg)]
            ELSE msg
  /\ UNCHANGED <<draft, stored>>

(* ONSUtil::msgConvert(MQMessageExt): a property of the system's sets the  *)
(* attribute it stands for.                                                *)
msgConvertBack ==
  /\ stage = "ext" /\ stage' = "listener"
  /\ msg' = [msg EXCEPT !.tag = IF "__TAG" \in DOMAIN msg.props THEN msg.props["__TAG"] ELSE @,
                        !.id = IF "__MSGID" \in DOMAIN msg.props THEN msg.props["__MSGID"] ELSE @,
                        !.props = Unreserved(@)]
  /\ UNCHANGED <<draft, stored>>

CodecNext ==
  \/ msgConvert \/ send \/ wrapMessage \/ msgConvertBack
  \/ \E g \in Group : bindMessageGroup(g)
  \/ \E d \in Digest, damaged \in BOOLEAN, e \in Encoding,
        added \in ReservedKeys \cup {"none"}, m \in Moment : brokerStores(d, damaged, e, added, m)

-----------------------------------------------------------------------------
(* Properties. *)

(* What the listener gets is what the application sent: topic, keys, tag,  *)
(* id and every property of its own, whatever their names; the body too,   *)
(* bit by bit, if the broker marks it with a digest the client knows and   *)
(* with the encoding it came in.  A property of the system's reaches the   *)
(* listener only if the broker set it.  The times are exact, but for the   *)
(* delivery time, which is right only if it has no nanoseconds; no message *)
(* group and no delivery time of the sender's comes back.                  *)
MessageSurvives ==
  /\ CodecTypeOK
  /\ stage = "listener" =>
       /\ msg.topic = draft.topic /\ msg.keys = draft.keys
       /\ msg.props = Unreserved(draft.props)
       /\ msg.tag = (IF stored.added = "__TAG" THEN "broker's" ELSE draft.tag)
       /\ msg.id = (IF stored.added = "__MSGID" THEN "broker's" ELSE "own")
       /\ stored.digest \in {"CRC32", "MD5", "SHA1"} /\ stored.encoding # "OTHER"
            => msg.body = [length |-> draft.length, packed |-> FALSE, intact |-> TRUE]
       /\ msg.group = "" /\ msg.start = 0
       /\ msg.born = micros(stored.moment)
       /\ stored.moment.nanos = 0 => msg.deliverAt = micros(stored.moment)
=============================================================================
