----------------------------- MODULE TopicRoute -----------------------------
(***************************************************************************)
(* How a client learns the route of a topic: the route table and the       *)
(* single-flight queries of ClientImpl (getRouteFor, fetchRouteFor,        *)
(* onTopicRouteReady, updateRouteCache, updateRouteInfo), and the producer *)
(* threads that wait for a route in getPublishInfo.                        *)
(*                                                                         *)
(* Responses are handled by the threads of a pool, so the handlers of two  *)
(* queries interleave; each takes the locks of the table and of the        *)
(* inflight map separately.                                                *)
(***************************************************************************)
EXTENDS Naturals, FiniteSets

CONSTANTS
  Topic,
  Caller,        \* producer threads
  Query,         \* bound: route queries being sent or handled at once
  Route,         \* routes with at least one partition
  Partitions,    \* what operator== sees of each route: its partitions by name, id and permission
  EmptyRoute,    \* an OK response without partitions
  Failed,        \* an error: the RPC failed or its status is not OK
  NoRoute,       \* no entry in a table; no answer yet
  MayLackServer, \* may resolve() return no name server?
  MaxRefresh,    \* bound: refreshing queries at once
  MaxChange      \* bound: changes of the route a name server serves

Reply == Route \cup {EmptyRoute, Failed}

ASSUME RouteConstants ==
  /\ {EmptyRoute, Failed, NoRoute} \cap Route = {}
  /\ EmptyRoute # Failed /\ NoRoute \notin {EmptyRoute, Failed}
  /\ DOMAIN Partitions = Route
  /\ MayLackServer \in BOOLEAN /\ MaxRefresh \in Nat /\ MaxChange \in Nat

VARIABLES
  served,    \* what the name servers say of each topic
  changes,   \* number of changes of served
  lacked,    \* topics whose first query found no name server (history)
  table,     \* topic_route_table_
  info,      \* topic_publish_info_table_
  inflight,  \* inflight_route_requests_: {} when the topic has no entry
  query,     \* the route queries
  pc,        \* where each caller is
  want,      \* the topic it asks for
  answer     \* what its callback was given

serverVars == <<served, changes, lacked>>
callerVars == <<pc, want, answer>>
vars == <<serverVars, table, info, inflight, query, callerVars>>

NoQuery(t) ==
  [pc |-> "free", topic |-> t, first |-> FALSE, reply |-> Failed, pending |-> {}]

QueryType ==
  [pc : {"free", "sent", "update", "take", "apply"}, topic : Topic, first : BOOLEAN,
   reply : Reply, pending : SUBSET Caller]

TypeOK ==
  /\ served \in [Topic -> Route \cup {EmptyRoute}] /\ changes \in 0..MaxChange
  /\ lacked \in SUBSET Topic
  /\ table \in [Topic -> Route \cup {NoRoute}]
  /\ info \in [Topic -> Route \cup {EmptyRoute, NoRoute}]
  /\ inflight \in [Topic -> SUBSET Caller]
  /\ query \in [Query -> QueryType]
  /\ pc \in [Caller -> {"idle", "lookup", "miss", "fetch", "test", "park", "asleep", "done"}]
  /\ want \in [Caller -> Topic]
  /\ answer \in [Caller -> Reply \cup {NoRoute}]

Init ==
  /\ served \in [Topic -> Route \cup {EmptyRoute}] /\ changes = 0 /\ lacked = {}
  /\ table = [t \in Topic |-> NoRoute]
  /\ info = [t \in Topic |-> NoRoute]
  /\ inflight = [t \in Topic |-> {}]
  /\ \E t \in Topic : /\ query = [q \in Query |-> NoQuery(t)]
                      /\ want = [c \in Caller |-> t]
  /\ pc = [c \in Caller |-> "idle"]
  /\ answer = [c \in Caller |-> NoRoute]

-----------------------------------------------------------------------------
(* The callback asyncPublishInfo makes for caller c: a route becomes the   *)
(* topic's publish info, with or without partitions.                       *)
complete(c, reply) ==
  /\ answer' = [answer EXCEPT ![c] = reply]
  /\ info' = IF reply = Failed THEN info ELSE [info EXCEPT ![want[c]] = reply]

goTo(c, at) == pc' = [pc EXCEPT ![c] = at]

asyncPublishInfo(c, t) ==
  /\ pc[c] = "idle"
  /\ want' = [want EXCEPT ![c] = t]
  /\ answer' = [answer EXCEPT ![c] = info[t]]
  /\ goTo(c, IF info[t] # NoRoute THEN "test" ELSE "lookup")
  /\ UNCHANGED <<serverVars, table, info, inflight, query>>

(* getRouteFor under the lock of the table ... *)
getRouteFor(c) ==
  LET route == table[want[c]]
  IN  /\ pc[c] = "lookup"
      /\ IF route # NoRoute
         THEN complete(c, route) /\ goTo(c, "test")
         ELSE goTo(c, "miss") /\ UNCHANGED <<info, answer>>
      /\ UNCHANGED <<serverVars, table, inflight, query, want>>

alwaysFetches(c) ==              \* mutant: a prior request is not reused
  LET t == want[c]
  IN  /\ pc[c] = "miss"
      /\ IF table[t] # NoRoute
         THEN complete(c, table[t]) /\ goTo(c, "test") /\ UNCHANGED inflight
         ELSE /\ inflight' = [inflight EXCEPT ![t] = @ \cup {c}]
              /\ goTo(c, "fetch") /\ UNCHANGED <<info, answer>>
      /\ UNCHANGED <<serverVars, table, query, want>>

(* ... and, on a miss, again under both locks: the callback joins the      *)
(* topic's inflight request, or creates one.                               *)
getRouteForLocked(c) ==
  LET t == want[c]
  IN  /\ pc[c] = "miss"
      /\ IF table[t] # NoRoute
         THEN complete(c, table[t]) /\ goTo(c, "test") /\ UNCHANGED inflight
         ELSE /\ inflight' = [inflight EXCEPT ![t] = @ \cup {c}]
              /\ goTo(c, IF inflight[t] = {} THEN "fetch" ELSE "test")
              /\ UNCHANGED <<info, answer>>
      /\ UNCHANGED <<serverVars, table, query, want>>

(* Send a query; without a name server fetchRouteFor returns silently. *)
fetchRouteFor(t, first) ==
  \/ \E q \in Query :
       /\ query[q].pc = "free"
       /\ query' = [query EXCEPT ![q] = [pc |-> "sent", topic |-> t, first |-> first,
                                         reply |-> Failed, pending |-> {}]]
       /\ UNCHANGED lacked
  \/ /\ MayLackServer
     /\ lacked' = IF first THEN lacked \cup {t} ELSE lacked
     /\ UNCHANGED query

fetchFirst(c) ==
  /\ pc[c] = "fetch" /\ goTo(c, "test")
  /\ fetchRouteFor(want[c], TRUE)
  /\ UNCHANGED <<served, changes, table, info, inflight, want, answer>>

(* One topic of the periodic updateRouteInfo. *)
updateRouteInfo(t) ==
  /\ table[t] # NoRoute
  /\ Cardinality({q \in Query : query[q].pc # "free" /\ ~query[q].first}) < MaxRefresh
  /\ fetchRouteFor(t, FALSE)
  /\ UNCHANGED <<served, changes, table, info, inflight, callerVars>>

-----------------------------------------------------------------------------
(* The loop of getPublishInfo.  "complete" is tested before the mutex is   *)
(* taken and cv.Wait called.                                               *)
test(c) ==
  /\ pc[c] = "test"
  /\ goTo(c, IF answer[c] # NoRoute THEN "done" ELSE "park")
  /\ UNCHANGED <<serverVars, table, info, inflight, query, want, answer>>

cvWait(c) ==
  /\ pc[c] = "park" /\ goTo(c, "asleep")
  /\ UNCHANGED <<serverVars, table, info, inflight, query, want, answer>>

spuriousWakeup(c) ==
  /\ pc[c] = "asleep" /\ goTo(c, "test")
  /\ UNCHANGED <<serverVars, table, info, inflight, query, want, answer>>

(* The thread has its publish info and may come back for another. *)
again(c) ==
  /\ pc[c] = "done" /\ goTo(c, "idle")
  /\ answer' = [answer EXCEPT ![c] = NoRoute]
  /\ UNCHANGED <<serverVars, table, info, inflight, query, want>>

-----------------------------------------------------------------------------
(* The name server. *)
serveAnother(t, route) ==
  /\ changes < MaxChange /\ changes' = changes + 1
  /\ route # served[t]
  /\ served' = [served EXCEPT ![t] = route]
  /\ UNCHANGED <<lacked, table, info, inflight, query, callerVars>>

(* resolveRoute's callback is about to run with what the server said. *)
replyWith(q, reply) ==
  /\ query[q].pc = "sent"
  /\ query' = [query EXCEPT ![q].pc = "update", ![q].reply = reply]
  /\ UNCHANGED <<serverVars, table, info, inflight, callerVars>>

resolveRoute(q) == replyWith(q, served[query[q].topic])

resolveRouteError(q) == replyWith(q, Failed)

(* TopicRouteData::operator!= : brokers are compared by name alone, so a   *)
(* route that only moves a broker to another address is not another one.   *)
Differs(t, route) == table[t] = NoRoute \/ Partitions[table[t]] # Partitions[route]

keepsFirstRoute(q) ==            \* mutant: a topic's entry is never replaced
  LET k == query[q]
  IN  /\ k.pc = "update"
      /\ table' = IF k.reply \in Route /\ table[k.topic] = NoRoute
                  THEN [table EXCEPT ![k.topic] = k.reply] ELSE table
      /\ query' = [query EXCEPT ![q] = IF k.first THEN [@ EXCEPT !.pc = "take"]
                                                  ELSE NoQuery(k.topic)]
      /\ UNCHANGED <<serverVars, info, inflight, callerVars>>

(* Errors, routes without partitions and routes that compare equal leave   *)
(* the table alone.  A refresh ends here; for a first query                *)
(* onTopicRouteReady goes on.                                              *)
updateRouteCache(q) ==
  LET k == query[q]
  IN  /\ k.pc = "update"
      /\ table' = IF k.reply \in Route /\ Differs(k.topic, k.reply)
                  THEN [table EXCEPT ![k.topic] = k.reply] ELSE table
      /\ query' = [query EXCEPT ![q] = IF k.first THEN [@ EXCEPT !.pc = "take"]
                                                  ELSE NoQuery(k.topic)]
      /\ UNCHANGED <<serverVars, info, inflight, callerVars>>

returnsOnError(q) ==             \* mutant: callbacks are taken only when there is a route
  LET t == query[q].topic
  IN  /\ query[q].pc = "take"
      /\ IF query[q].reply = Failed
         THEN query' = [query EXCEPT ![q] = NoQuery(t)] /\ UNCHANGED inflight
         ELSE /\ query' = [query EXCEPT ![q].pc = "apply", ![q].pending = inflight[t]]
              /\ inflight' = [inflight EXCEPT ![t] = {}]
      /\ UNCHANGED <<serverVars, table, info, callerVars>>

(* onTopicRouteReady: take all pending callbacks ... *)
onTopicRouteReady(q) ==
  LET t == query[q].topic
  IN  /\ query[q].pc = "take"
      /\ query' = [query EXCEPT ![q].pc = "apply", ![q].pending = inflight[t]]
      /\ inflight' = [inflight EXCEPT ![t] = {}]
      /\ UNCHANGED <<serverVars, table, info, callerVars>>

(* ... and invoke them one by one.  The callback wakes a waiting caller. *)
applyCallback(q, c) ==
  /\ query[q].pc = "apply" /\ c \in query[q].pending
  /\ complete(c, query[q].reply)
  /\ goTo(c, IF pc[c] = "asleep" THEN "test" ELSE pc[c])
  /\ query' = [query EXCEPT ![q].pending = @ \ {c}]
  /\ UNCHANGED <<serverVars, table, inflight, want>>

queryHandled(q) ==
  /\ query[q].pc = "apply" /\ query[q].pending = {}
  /\ query' = [query EXCEPT ![q] = NoQuery(@.topic)]
  /\ UNCHANGED <<serverVars, table, info, inflight, callerVars>>

-----------------------------------------------------------------------------
(* What a caller does by itself before it has to wait. *)
CallerStep(c) ==
  getRouteFor(c) \/ getRouteForLocked(c) \/ fetchFirst(c) \/ test(c) \/ cvWait(c) \/ again(c)

(* What a callback thread does with a response. *)
HandlerStep(q) ==
  \/ updateRouteCache(q)
  \/ onTopicRouteReady(q)
  \/ \E c \in Caller : applyCallback(q, c)
  \/ queryHandled(q)

Next ==
  \/ \E c \in Caller : \/ \E t \in Topic : asyncPublishInfo(c, t)
                       \/ CallerStep(c)
                       \/ spuriousWakeup(c)
  \/ \E t \in Topic : \/ updateRouteInfo(t)
                      \/ \E r \in Route \cup {EmptyRoute} : serveAnother(t, r)
  \/ \E q \in Query : resolveRoute(q) \/ resolveRouteError(q) \/ HandlerStep(q)

Spec == Init /\ [][Next]_vars

(* Threads run, and a query completes by the deadline resolveRoute sets. *)
FairSpec ==
  /\ Spec
  /\ \A c \in Caller : WF_vars(CallerStep(c))
  /\ \A q \in Query : WF_vars(HandlerStep(q)) /\ WF_vars(resolveRoute(q) \/ resolveRouteError(q))

(* In addition the scheduler fires the refresh, a name server is found     *)
(* again and again, and of the queries that are sent again and again not   *)
(* every one fails.                                                        *)
RefreshSpec ==
  /\ FairSpec
  /\ \A q \in Query : SF_vars(resolveRoute(q))
  /\ \A t \in Topic : SF_vars(updateRouteInfo(t) /\ query' # query)

-----------------------------------------------------------------------------
(* Properties. *)

(* q will run the pending callbacks of topic t. *)
Serves(q, t) ==
  /\ query[q].first /\ query[q].topic = t
  /\ query[q].pc \in {"sent", "update", "take"}

Waiting(c) == pc[c] \in {"test", "park", "asleep"} /\ answer[c] = NoRoute

(* No caller is forgotten: whoever waits for a route has its callback in   *)
(* the hands of a response handler, or in the inflight entry of a topic    *)
(* for which a query is under way or about to be sent.  getRouteFor looks  *)
(* at the table and at the inflight map while onTopicRouteReady updates    *)
(* the one and then the other.  The one exception is a topic whose first   *)
(* query was not sent for want of a name server: fetchRouteFor returns and *)
(* the inflight entry stays behind.                                        *)
NoCallerStranded ==
  \A c \in Caller : Waiting(c) /\ want[c] \notin lacked =>
    \/ \E q \in Query : c \in query[q].pending
    \/ /\ c \in inflight[want[c]]
       /\ \/ \E q \in Query : Serves(q, want[c])
          \/ \E d \in Caller : pc[d] = "fetch" /\ want[d] = want[c]

(* A callback is invoked once: it is kept in one place only, and only as   *)
(* long as its caller has no answer.                                       *)
PendingOnce ==
  /\ \A t \in Topic : \A c \in inflight[t] :
       want[c] = t /\ answer[c] = NoRoute /\ pc[c] \in {"fetch", "test", "park", "asleep"}
  /\ \A q \in Query : \A c \in query[q].pending :
       /\ Waiting(c) /\ c \notin inflight[want[c]]
       /\ \A r \in Query \ {q} : c \notin query[r].pending

(* The assertion of onTopicRouteReady: the topic of a first response has   *)
(* an inflight entry.  So there is one first query per topic at a time.    *)
InflightAtResponse ==
  \A q \in Query : query[q].pc = "take" => inflight[query[q].topic] # {}

(* Refreshes bring the table up to date: when the name servers stop        *)
(* changing a route that is cached, the table ends up with the partitions  *)
(* they serve, although responses to earlier queries may be handled late.  *)
(* Addresses are another matter: operator== does not see them.             *)
RouteFollowsServer ==
  \A t \in Topic :
    <>[](served[t] \in Route /\ changes = MaxChange)
      => <>[](table[t] # NoRoute /\ served[t] \in Route
               => Partitions[table[t]] = Partitions[served[t]])

(* Every caller of asyncPublishInfo gets its callback: ClientImpl.h says   *)
(* of fetchRouteFor that "Once request/response is completed, either       *)
(* timeout or response arrival in time, callback would get invoked".       *)
(* Only a topic whose request could not be sent is left without.           *)
CallbackInvoked ==
  \A c \in Caller : pc[c] = "lookup" ~> answer[c] # NoRoute \/ want[c] \in lacked

(* ProducerImpl.cpp, getPublishInfo: "Wait till acquiring topic publish    *)
(* info completes".  A caller that waits returns.                          *)
WaitEnds == \A c \in Caller : pc[c] = "lookup" ~> pc[c] = "done"
-----------------------------------------------------------------------------
(* The inductive invariant. *)

(* The caller that created an inflight entry is the only one to send a     *)
(* query for it, and no query has been sent yet.                           *)
OneFetch ==
  \A c \in Caller : pc[c] = "fetch" =>
    /\ c \in inflight[want[c]]
    /\ \A q \in Query : ~Serves(q, want[c])
    /\ \A d \in Caller : pc[d] = "fetch" /\ want[d] = want[c] => d = c

(* At most one query serves a topic, and only while it has an entry. *)
OneServer ==
  \A q \in Query : Serves(q, query[q].topic) =>
    /\ inflight[query[q].topic] # {}
    /\ \A r \in Query : Serves(r, query[q].topic) => r = q

(* Single flight: the invariant behind NoCallerStranded, PendingOnce and   *)
(* InflightAtResponse.                                                     *)
Inv ==
  /\ TypeOK /\ OneFetch /\ OneServer /\ PendingOnce
  /\ \A q \in Query : /\ query[q].pending # {} => query[q].pc = "apply"
                      /\ query[q].pc = "take" => query[q].first
  /\ \A c \in Caller : pc[c] \in {"idle", "lookup", "miss", "fetch"} => answer[c] = NoRoute
  /\ NoCallerStranded
=============================================================================
