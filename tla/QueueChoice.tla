---------------------------- MODULE QueueChoice ----------------------------
(***************************************************************************)
(* From the route a server answers to the queues the client uses: decoding *)
(* the route, the queues a producer may write to, the choice of one for a  *)
(* message, the broker asked for an assignment, and the queues a consumer  *)
(* is assigned.  A thread that chooses comes with its own counter, which   *)
(* may have any value.                                                     *)
(***************************************************************************)
EXTENDS Lists

CONSTANTS
  Response,    \* route answers: sequences of [broker, id, master, permission, scheme, hosts]
  Dns,         \* what the resolver may know: functions from hosts to domains or NoDomain
  NoDomain, NotMade,
  CounterRange,  \* 2^32, scaled down: the counters are uint32_t
  MaxAttempt   \* most queues a send asks for

NoRoute == <<>>

QueueOf(p) == [broker |-> p.broker, id |-> p.id]

ASSUME QueueConstants ==
  /\ CounterRange \in Nat \ {0} /\ MaxAttempt \in Nat \ {0}
  /\ \A r \in Response :
       /\ r \in Seq(Range(r)) /\ Len(r) <= CounterRange
       /\ \A p \in Range(r) : p.broker \in Nat /\ p.id \in Nat /\ p.hosts \in Seq(Range(p.hosts))
       /\ \A i, j \in DOMAIN r : QueueOf(r[i]) = QueueOf(r[j]) => i = j

VARIABLES
  dns,             \* host -> domain
  response,        \* history: the last answer of the server
  route,           \* topic_route_table_ for the topic: decoded partitions
  partition_list,  \* TopicPublishInfo, or NotMade
  choice           \* the last choice made

queueVars == <<dns, response, route, partition_list, choice>>

NoChoice == [how |-> "none", queues |-> <<>>]

-----------------------------------------------------------------------------
(* A sort of host names. *)
SortedHosts(hosts) ==
  CHOOSE t \in [DOMAIN hosts -> Range(hosts)] :
    /\ \A i, j \in DOMAIN t : i < j => t[i] <= t[j]
    /\ \A h \in Range(hosts) :
         Cardinality({i \in DOMAIN t : t[i] = h}) = Cardinality({i \in DOMAIN t : hosts[i] = h})

(* resolveRoute's callback: the address of a broker is a domain if every   *)
(* host of it is known to belong to that domain.  ServiceAddress sorts.    *)
ServiceAddress(p) ==
  LET domains == {dns[h] : h \in Range(p.hosts)}
  IN  IF NoDomain \notin domains /\ \E d \in domains : domains = {d}
      THEN [scheme |-> "DOMAIN_NAME", hosts |-> <<CHOOSE d \in domains : TRUE>>]
      ELSE [scheme |-> IF p.scheme \in {"IPv6", "DOMAIN_NAME"} THEN p.scheme ELSE "IPv4",
            hosts |-> SortedHosts(p.hosts)]

(* A permission the client does not know, NONE among them, reads as        *)
(* READ_WRITE.                                                             *)
Permission(p) == IF p.permission \in {"READ", "WRITE"} THEN p.permission ELSE "READ_WRITE"

Decoded(p) ==
  [broker |-> p.broker, id |-> p.id, master |-> p.master,
   permission |-> Permission(p), address |-> ServiceAddress(p)]

(* Partition::operator<, TopicRouteData *)
Before(p, q) == p.broker < q.broker \/ (p.broker = q.broker /\ p.id < q.id)

(* A sort of partitions: of different queues, so each has its own place.   *)
Rank(p, S) == Cardinality({q \in S : Before(q, p)})
Sorted(s) == [k \in DOMAIN s |-> CHOOSE p \in Range(s) : Rank(p, Range(s)) = k - 1]

TopicRouteData(r) == Sorted([i \in DOMAIN r |-> Decoded(r[i])])

(* operator== of TopicRouteData, Partition and Broker: neither the address *)
(* nor the role of a broker counts.                                        *)
SameRoute(r, s) ==
  /\ Len(r) = Len(s)
  /\ \A i \in DOMAIN r : QueueOf(r[i]) = QueueOf(s[i]) /\ r[i].permission = s[i].permission

(* ClientImpl::updateRouteCache *)
updateRoute(r) ==
  /\ response' = r /\ choice' = NoChoice
  /\ route' = IF r # <<>> /\ (route = NoRoute \/ ~SameRoute(route, TopicRouteData(r)))
              THEN TopicRouteData(r) ELSE route
  /\ UNCHANGED <<dns, partition_list>>

-----------------------------------------------------------------------------
(* updatePublishInfo: partitions of masters that may be written to. *)
takesAny(r) == r                   \* mutant: a slave's or read-only partition is used as well
Writable(r) == Picked(r, {p \in Range(r) : p.permission # "READ" /\ p.master})

(* asyncPublishInfo: the publish info of a topic is made of the route of   *)
(* its first use, and stays, even if it lists nothing.                     *)
PublishInfo == IF partition_list = NotMade THEN Writable(route) ELSE partition_list

Choose(c) ==
  /\ route # NoRoute
  /\ choice' = c /\ partition_list' = PublishInfo
  /\ UNCHANGED <<dns, response, route>>

(* getMessageQueueList.  No address text is empty, so none is skipped. *)
MessageQueueList(list) == Sorted(list)

(* The partitions n rounds of a loop look at, from a counter on. *)
Visits(list, index, n) ==
  [i \in 1 .. n |-> list[(((index + i - 1) % CounterRange) % Len(list)) + 1]]

Brokers(list) == {p.broker : p \in Range(list)}

(* takeMessageQueues: up to so many queues, no two of a broker and none of *)
(* an isolated address.                                                    *)
Take(taken, p, isolated, count) ==
  IF Len(taken) >= count \/ p.address \in isolated \/ p.broker \in Brokers(taken)
  THEN taken ELSE Append(taken, p)

takeMessageQueues(list, index, isolated, count) ==
  LET taken[k \in 0 .. Len(list)] ==
        IF k = 0 THEN <<>>
        ELSE Take(taken[k - 1], Visits(list, index, Len(list))[k], isolated, count)
  IN  taken[Len(list)]

(* ProducerImpl::send of a message that says nothing of its queue. *)
sendAnywhere(index, isolated, count) ==
  Choose([how |-> "anywhere", index |-> index, isolated |-> isolated, count |-> count,
          queues |-> takeMessageQueues(PublishInfo, index, isolated, count)])

(* ... of one with a message group: the remainder by the length of an      *)
(* empty list is a crash.                                                  *)
sendToGroup(hash) ==
  LET list == MessageQueueList(PublishInfo)
  IN  Choose([how |-> IF list = <<>> THEN "crash" ELSE "group", hash |-> hash,
              queues |-> IF list = <<>> THEN <<>> ELSE <<list[(hash % Len(list)) + 1]>>])

(* ... of one bound to a queue. *)
Bound(list, q) == Picked(list, {p \in Range(list) : QueueOf(p) = q})

sendToQueue(q) ==
  Choose([how |-> "queue", asked |-> q,
          queues |-> Bound(MessageQueueList(PublishInfo), q)])

(* withServiceAddress: a queue the topic does not have is replaced by the  *)
(* first it has.                                                           *)
withServiceAddress(q) ==
  LET list == MessageQueueList(PublishInfo)
      found == Bound(list, q)
  IN  Choose([how |-> "address", asked |-> q,
              queues |-> IF found # <<>> \/ list = <<>> THEN found ELSE <<list[1]>>])

-----------------------------------------------------------------------------
Chosen(c) == choice' = c /\ UNCHANGED <<dns, response, route, partition_list>>

Reachable == {p \in Range(route) : p.master /\ p.address.hosts # <<>>}

(* PushConsumerImpl::selectBroker.  The bound of its loop is a size_t, so  *)
(* a uint32_t counter that wraps never reaches it: the loop ends only with *)
(* a broker.                                                               *)
selectBroker(index) ==
  LET n == Len(route)
      wraps == index + n >= CounterRange
      seen == Picked(Visits(route, index, IF wraps THEN CounterRange - index + n ELSE n), Reachable)
  IN  /\ route # NoRoute
      /\ Chosen([how |-> CASE seen # <<>> -> "broker"
                           [] wraps /\ seen = <<>> -> "spins"
                           [] OTHER -> "nobody",
                 queues |-> IF seen = <<>> THEN <<>> ELSE <<seen[1]>>])

(* queryAssignment when broadcasting: every partition of the route, and an *)
(* error is passed on before the absent route is used all the same.        *)
assignAll == route # NoRoute /\ Chosen([how |-> "all", queues |-> route])
assignFails == route = NoRoute /\ Chosen([how |-> "crash", queues |-> <<>>])

(* TopicAssignment.  The first host decides: a domain it is known to       *)
(* belong to, or one it is, is all of the address.  With a scheme the      *)
(* client does not know, a variable nobody has set says whether the hosts  *)
(* are listed.                                                             *)
AssignedAddresses(p) ==
  LET first == p.hosts[1]
  IN  CASE p.scheme = "IPv4" /\ dns[first] # NoDomain
             -> {[scheme |-> "DOMAIN_NAME", hosts |-> <<dns[first]>>]}
        [] p.scheme = "IPv4" /\ dns[first] = NoDomain -> {[scheme |-> "IPv4", hosts |-> p.hosts]}
        [] p.scheme = "IPv6" -> {[scheme |-> "IPv6", hosts |-> p.hosts]}
        [] p.scheme = "DOMAIN_NAME" -> {[scheme |-> "DOMAIN_NAME", hosts |-> <<first>>]}
        [] OTHER -> {[scheme |-> "", hosts |-> <<>>], [scheme |-> "", hosts |-> p.hosts]}

Readable(r) ==
  Picked(r, {p \in Range(r) : p.permission \in {"READ", "READ_WRITE"} /\ p.hosts # <<>>})

(* The broker assigns the partitions it lists in the route. *)
topicAssignment ==
  LET given == Sorted(Readable(response))
  IN  \E addresses \in [DOMAIN given -> UNION {AssignedAddresses(given[i]) : i \in DOMAIN given}] :
        /\ \A i \in DOMAIN given : addresses[i] \in AssignedAddresses(given[i])
        /\ Chosen([how |-> "assigned",
                   queues |-> [i \in DOMAIN given |->
                                 [broker |-> given[i].broker, id |-> given[i].id,
                                  permission |-> given[i].permission, wire |-> given[i],
                                  address |-> addresses[i]]]])

(* PullConsumerImpl::queuesFor lists the partitions of the route.  *)
queuesFor == route # NoRoute /\ Chosen([how |-> "listed", queues |-> route])

QueueInit ==
  /\ dns \in Dns /\ response = <<>> /\ route = NoRoute /\ partition_list = NotMade
  /\ choice = NoChoice

Queues == UNION {{QueueOf(r[i]) : i \in DOMAIN r} : r \in Response}
Addresses == {p.address : p \in Range(route)}

QueueNext ==
  /\ choice.how \notin {"crash", "spins"}
  /\ \/ \E r \in Response : updateRoute(r)
     \/ \E i \in 0 .. CounterRange - 1 :
          \/ \E isolated \in SUBSET Addresses, n \in 1 .. MaxAttempt : sendAnywhere(i, isolated, n)
          \/ sendToGroup(i) \/ selectBroker(i)
     \/ \E q \in Queues : sendToQueue(q) \/ withServiceAddress(q)
     \/ topicAssignment \/ assignAll \/ assignFails \/ queuesFor

-----------------------------------------------------------------------------
(* Properties. *)

Active(list, isolated) == {p.broker : p \in {x \in Range(list) : x.address \notin isolated}}
Wraps(list) == choice.index + Len(list) > CounterRange

(* The queues of one send: of different brokers, none isolated, writable   *)
(* partitions of masters in the route the topic was first used with; and   *)
(* as many as were asked for, or one of every active broker if there are   *)
(* fewer, unless the thread's counter wraps on the way.                    *)
SpreadOverBrokers ==
  choice.how = "anywhere" =>
    LET taken == choice.queues
    IN  /\ \A i, j \in DOMAIN taken : taken[i].broker = taken[j].broker => i = j
        /\ Brokers(taken) \subseteq Active(partition_list, choice.isolated)
        /\ Len(taken) <= choice.count
        /\ ~Wraps(partition_list) =>
             \/ Len(taken) = choice.count
             \/ Brokers(taken) = Active(partition_list, choice.isolated)

(* Messages of a group go to one queue, whichever producer sends them: it  *)
(* depends on the set of partitions, not on the order they are listed in.  *)
GroupSticks ==
  choice.how = "group" =>
    \A r \in Response :
      LET list == MessageQueueList(Writable(TopicRouteData(r)))
      IN  Range(list) = Range(partition_list) =>
            choice.queues[1] = list[(choice.hash % Len(list)) + 1]

(* A queue assigned by the load balancer is read at the address its broker *)
(* has in the route (where heartbeats go), as long as its hosts come in    *)
(* order, with one host if it is a domain, and the resolver knows all of   *)
(* them to belong to one domain or does not know the first.                *)
AssignedWhereRouted ==
  choice.how = "assigned" =>
    \A i \in DOMAIN choice.queues :
      LET q == choice.queues[i]
          p == q.wire
      IN  /\ q.permission \in {"READ", "READ_WRITE"}
          /\ \/ q.address = ServiceAddress(p)
             \/ p.hosts # SortedHosts(p.hosts)
             \/ p.scheme = "DOMAIN_NAME" /\ Len(p.hosts) > 1
             \/ p.scheme \notin {"IPv4", "IPv6", "DOMAIN_NAME"}
             \/ Cardinality({dns[h] : h \in Range(p.hosts)}) > 1
             \/ p.scheme # "IPv4" /\ dns[p.hosts[1]] # NoDomain

(* A producer's choice is among the queues of its publish info, of a       *)
(* master and not read-only; the broker a consumer asks is an addressable  *)
(* master of the route, and there is none if nobody is found; a crash      *)
(* takes a topic without writable partitions or a broadcast without a      *)
(* route.                                                                  *)
QueueChoiceInv ==
  /\ SpreadOverBrokers /\ GroupSticks /\ AssignedWhereRouted
  /\ choice.how \in {"anywhere", "group", "queue", "address"} =>
       /\ Range(choice.queues) \subseteq Range(partition_list)
       /\ \A p \in Range(choice.queues) : p.master /\ p.permission # "READ"
  /\ choice.how = "queue" => \A p \in Range(choice.queues) : QueueOf(p) = choice.asked
  /\ choice.how = "broker" => Range(choice.queues) \subseteq Reachable
  /\ choice.how \in {"nobody", "spins"} => Reachable = {}
  /\ choice.how = "crash" => route = NoRoute \/ Range(partition_list) = {}
=============================================================================
