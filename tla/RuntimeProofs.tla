---------------------------- MODULE RuntimeProofs ---------------------------
(***************************************************************************)
(* Proofs about the runtime of a client: single flight of route queries,   *)
(* for every number of topics, callers, queries and routes; the command    *)
(* cycles, for every number of endpoints and commands; the ending of       *)
(* transactions, for every number of transactions and threads; calls of    *)
(* start() and shutdown() one after the other, for every number of         *)
(* threads; and a broadcasting consumer, for every batch size and quota.   *)
(***************************************************************************)
EXTENDS TopicRoute, PollCommand, Transaction, Lifecycle, Broadcast, TLAPS

-----------------------------------------------------------------------------
(* Route queries. *)

(* The two conjuncts of Inv that have no name. *)
QueryOK ==
  \A q \in Query : /\ query[q].pending # {} => query[q].pc = "apply"
                   /\ query[q].pc = "take" => query[q].first

AnswerOK ==
  \A c \in Caller : pc[c] \in {"idle", "lookup", "miss", "fetch"} => answer[c] = NoRoute

LEMMA InvSplit ==
  Inv <=> /\ TypeOK /\ OneFetch /\ OneServer /\ PendingOnce /\ QueryOK /\ AnswerOK
          /\ NoCallerStranded
  BY Zenon DEF Inv, QueryOK, AnswerOK

LEMMA InitInv == Init => Inv
<1> SUFFICES ASSUME Init PROVE Inv
  BY Zenon
<1>1. PICK t \in Topic : query = [q \in Query |-> NoQuery(t)] /\ want = [c \in Caller |-> t]
  BY Zenon DEF Init
<1>2. NoQuery(t) \in QueryType
  BY Zenon DEF NoQuery, QueryType, Reply
<1>3. TypeOK
  BY <1>1, <1>2, RouteConstants DEF Init, TypeOK
<1>4. \A q \in Query : query[q].pc = "free" /\ query[q].pending = {}
  BY <1>1, Zenon DEF NoQuery
<1>5. OneFetch /\ OneServer /\ PendingOnce /\ NoCallerStranded
  BY <1>4, Zenon DEF Init, OneFetch, OneServer, PendingOnce, NoCallerStranded, Serves, Waiting
<1> QED BY <1>3, <1>4, <1>5, Zenon DEF Init, Inv

-----------------------------------------------------------------------------
(* The steps of a caller. *)

(* Steps that leave the inflight map and the queries alone, do not touch   *)
(* who fetches and keep a waiting caller waiting or give it its answer.    *)
LEMMA CallerMoves ==
  ASSUME NEW c \in Caller, Inv, TypeOK', UNCHANGED <<inflight, query, lacked>>,
         \A d \in Caller \ {c} : pc'[d] = pc[d] /\ want'[d] = want[d] /\ answer'[d] = answer[d],
         pc[c] # "fetch", pc'[c] # "fetch",
         \/ /\ pc[c] \in {"idle", "lookup", "miss", "done"} \/ answer[c] # NoRoute
            /\ pc'[c] \in {"idle", "lookup", "miss"} => answer'[c] = NoRoute
            /\ ~Waiting(c)'
         \/ /\ pc[c] \in {"test", "park", "asleep"} /\ pc'[c] \in {"test", "park", "asleep"}
            /\ want'[c] = want[c] /\ answer'[c] = answer[c]
  PROVE  Inv'
<1> USE InvSplit
<1>1. OneFetch'
  BY DEF OneFetch, Serves
<1>2. OneServer'
  BY Zenon DEF OneServer, Serves
<1>3. PendingOnce'
  <2>1. ASSUME NEW t \in Topic, NEW d \in inflight[t]
        PROVE  want'[d] = t /\ answer'[d] = NoRoute /\ pc'[d] \in {"fetch", "test", "park", "asleep"}
    <3>1. d \in Caller /\ want[d] = t /\ answer[d] = NoRoute
          /\ pc[d] \in {"fetch", "test", "park", "asleep"}
      BY <2>1, Zenon DEF PendingOnce, TypeOK
    <3> QED BY <3>1, Zenon
  <2>2. ASSUME NEW q \in Query, NEW d \in query[q].pending
        PROVE  /\ Waiting(d)' /\ d \notin inflight[want'[d]]
               /\ \A r \in Query \ {q} : d \notin query[r].pending
    <3>1. /\ d \in Caller /\ Waiting(d) /\ d \notin inflight[want[d]]
          /\ \A r \in Query \ {q} : d \notin query[r].pending
      BY <2>2, Zenon DEF PendingOnce, TypeOK, QueryType
    <3>2. Waiting(d)' /\ want'[d] = want[d]
      BY <3>1, Zenon DEF Waiting
    <3> QED BY <3>1, <3>2, Zenon
  <2> QED BY <2>1, <2>2, Zenon DEF PendingOnce
<1>4. QueryOK' /\ AnswerOK'
  BY Zenon DEF QueryOK, AnswerOK
<1>5. NoCallerStranded => NoCallerStranded'
  <2> SUFFICES ASSUME NoCallerStranded, NEW d \in Caller, Waiting(d)', want'[d] \notin lacked
               PROVE  \/ \E q \in Query : d \in query[q].pending
                      \/ /\ d \in inflight[want'[d]]
                         /\ \/ \E q \in Query : Serves(q, want'[d])
                            \/ \E e \in Caller : pc'[e] = "fetch" /\ want'[e] = want'[d]
    BY Zenon DEF NoCallerStranded, Serves
  <2>1. Waiting(d) /\ want'[d] = want[d]
    BY Zenon DEF Waiting
  <2>2. \A e \in Caller : pc[e] = "fetch" => pc'[e] = "fetch" /\ want'[e] = want[e]
    BY Zenon
  <2> QED BY <2>1, <2>2 DEF NoCallerStranded
<1> QED BY <1>1, <1>2, <1>3, <1>4, <1>5, Zenon DEF Inv, QueryOK, AnswerOK

LEMMA AsksInv == ASSUME NEW c \in Caller, NEW t \in Topic, Inv, asyncPublishInfo(c, t) PROVE Inv'
<1> USE DEF asyncPublishInfo, goTo
<1>1. TypeOK /\ answer[c] = NoRoute
  BY Zenon DEF Inv
<1>2. TypeOK'
  BY <1>1, RouteConstants, Zenon DEF TypeOK, Reply, serverVars
<1> QED BY <1>1, <1>2, CallerMoves DEF TypeOK, Waiting, serverVars

LEMMA GetRouteInv == ASSUME NEW c \in Caller, Inv, getRouteFor(c) PROVE Inv'
<1> USE DEF getRouteFor, goTo, complete
<1>1. TypeOK /\ answer[c] = NoRoute
  BY Zenon DEF Inv
<1>2. TypeOK'
  BY <1>1, RouteConstants DEF TypeOK, Reply, serverVars
<1> QED BY <1>1, <1>2, CallerMoves DEF TypeOK, Waiting, serverVars

LEMMA WaitInv ==
  ASSUME NEW c \in Caller, Inv, test(c) \/ cvWait(c) \/ spuriousWakeup(c) \/ again(c)
  PROVE  Inv'
<1>1. TypeOK
  BY Zenon DEF Inv
<1>2. CASE test(c)
  <2> USE <1>2 DEF test, goTo
  <2>1. TypeOK'
    BY <1>1, Zenon DEF TypeOK, serverVars
  <2> QED BY <1>1, <2>1, CallerMoves DEF TypeOK, Waiting, serverVars
<1>3. CASE cvWait(c)
  <2> USE <1>3 DEF cvWait, goTo
  <2>1. TypeOK'
    BY <1>1, Zenon DEF TypeOK, serverVars
  <2> QED BY <1>1, <2>1, CallerMoves DEF TypeOK, Waiting, serverVars
<1>4. CASE spuriousWakeup(c)
  <2> USE <1>4 DEF spuriousWakeup, goTo
  <2>1. TypeOK'
    BY <1>1, Zenon DEF TypeOK, serverVars
  <2> QED BY <1>1, <2>1, CallerMoves DEF TypeOK, Waiting, serverVars
<1>5. CASE again(c)
  <2> USE <1>5 DEF again, goTo
  <2>1. TypeOK'
    BY <1>1, Zenon DEF TypeOK, serverVars
  <2> QED BY <1>1, <2>1, CallerMoves DEF TypeOK, Waiting, serverVars
<1> QED BY <1>2, <1>3, <1>4, <1>5, Zenon

(* An inflight entry is served, or about to be, unless no name server was  *)
(* known when its creator asked for one.                                   *)
LEMMA EntryIsServed ==
  ASSUME Inv, NoCallerStranded, NEW t \in Topic \ lacked, inflight[t] # {}
  PROVE  \/ \E q \in Query : Serves(q, t)
         \/ \E d \in Caller : pc[d] = "fetch" /\ want[d] = t
<1>1. PICK e \in inflight[t] : TRUE
  BY Zenon
<1>2. /\ e \in Caller /\ want[e] = t /\ answer[e] = NoRoute
      /\ pc[e] \in {"fetch", "test", "park", "asleep"}
  BY <1>1 DEF Inv, TypeOK, PendingOnce
<1>3. CASE pc[e] = "fetch"
  BY <1>2, <1>3, Zenon
<1>4. CASE pc[e] # "fetch"
  <2>1. Waiting(e)
    BY <1>2, <1>4, Zenon DEF Waiting
  <2>2. \A q \in Query : e \notin query[q].pending
    BY <1>1, <1>2, Zenon DEF Inv, PendingOnce
  <2> QED BY <1>2, <2>1, <2>2, Zenon DEF NoCallerStranded
<1> QED BY <1>3, <1>4, Zenon

LEMMA JoinsInv ==
  ASSUME NEW c \in Caller, NEW t, t = want[c], Inv, TypeOK', pc[c] = "miss",
         inflight' = [inflight EXCEPT ![t] = @ \cup {c}],
         pc' = [pc EXCEPT ![c] = IF inflight[t] = {} THEN "fetch" ELSE "test"],
         UNCHANGED <<query, want, answer, lacked>>
  PROVE  Inv'
<1> USE DEF Inv
<1>1. /\ t \in Topic /\ answer[c] = NoRoute
      /\ inflight'[t] = inflight[t] \cup {c} /\ inflight[t] \subseteq Caller
      /\ \A u \in Topic \ {t} : inflight'[u] = inflight[u]
      /\ pc'[c] = IF inflight[t] = {} THEN "fetch" ELSE "test"
      /\ \A d \in Caller \ {c} : pc'[d] = pc[d]
  BY DEF TypeOK
<1>2. \A q \in Query : \A u : Serves(q, u)' <=> Serves(q, u)
  BY Zenon DEF Serves
<1>3. inflight[t] = {} => \A q \in Query : ~Serves(q, t)
  BY Zenon DEF OneServer, Serves
<1>4. \A d \in Caller : pc[d] = "fetch" /\ want[d] = t => inflight[t] # {}
  BY Zenon DEF OneFetch
<1>5. \A d \in Caller : want[d] \in Topic
  BY Zenon DEF TypeOK
<1>6. OneFetch'
  <2> SUFFICES ASSUME NEW d \in Caller, pc'[d] = "fetch"
               PROVE  /\ d \in inflight'[want[d]]
                      /\ \A q \in Query : ~Serves(q, want[d])
                      /\ \A e \in Caller : pc'[e] = "fetch" /\ want[e] = want[d] => e = d
    BY <1>2, Zenon DEF OneFetch
  <2>1. CASE d = c
    BY <1>1, <1>3, <1>4, <2>1
  <2>2. CASE d # c
    <3>1. /\ pc[d] = "fetch" /\ d \in inflight[want[d]]
          /\ \A q \in Query : ~Serves(q, want[d])
          /\ \A e \in Caller : pc[e] = "fetch" /\ want[e] = want[d] => e = d
      BY <1>1, <2>2 DEF OneFetch
    <3> QED BY <1>1, <1>4, <1>5, <2>2, <3>1
  <2> QED BY <2>1, <2>2, Zenon
<1>7. OneServer'
  <2>1. \A u \in Topic : inflight[u] # {} => inflight'[u] # {}
    BY <1>1, Zenon
  <2>2. \A q \in Query : query[q].topic \in Topic
    BY Zenon DEF TypeOK, QueryType
  <2> QED BY <1>2, <2>1, <2>2, Zenon DEF OneServer
<1>8. PendingOnce'
  <2>1. ASSUME NEW u \in Topic, NEW d \in inflight'[u]
        PROVE  want[d] = u /\ answer[d] = NoRoute /\ pc'[d] \in {"fetch", "test", "park", "asleep"}
    <3>1. CASE d = c
      <4>1. u = t
        BY <1>1, <2>1, <3>1 DEF PendingOnce
      <4> QED BY <1>1, <3>1, <4>1, Zenon
    <3>2. CASE d # c
      <4>1. d \in inflight[u] /\ d \in Caller
        BY <1>1, <2>1, <3>2 DEF TypeOK
      <4> QED BY <1>1, <3>2, <4>1 DEF PendingOnce
    <3> QED BY <3>1, <3>2, Zenon
  <2>2. ASSUME NEW q \in Query, NEW d \in query[q].pending
        PROVE  /\ Waiting(d)' /\ d \notin inflight'[want[d]]
               /\ \A r \in Query \ {q} : d \notin query[r].pending
    <3>1. /\ d \in Caller /\ Waiting(d) /\ d \notin inflight[want[d]]
          /\ \A r \in Query \ {q} : d \notin query[r].pending
      BY <2>2, Zenon DEF PendingOnce, TypeOK, QueryType
    <3>2. d # c
      BY <3>1, Zenon DEF Waiting
    <3> QED BY <1>1, <1>5, <3>1, <3>2 DEF Waiting
  <2> QED BY <2>1, <2>2 DEF PendingOnce
<1>9. QueryOK' /\ AnswerOK'
  <2>1. QueryOK /\ AnswerOK
    BY InvSplit, Zenon
  <2> QED BY <1>1, <2>1, Zenon DEF QueryOK, AnswerOK
<1>10. NoCallerStranded => NoCallerStranded'
  <2> SUFFICES ASSUME NoCallerStranded, NEW d \in Caller, Waiting(d)', want[d] \notin lacked
               PROVE  \/ \E q \in Query : d \in query[q].pending
                      \/ /\ d \in inflight'[want[d]]
                         /\ \/ \E q \in Query : Serves(q, want[d])
                            \/ \E e \in Caller : pc'[e] = "fetch" /\ want[e] = want[d]
    BY <1>2 DEF NoCallerStranded
  <2>1. \A e \in Caller : pc[e] = "fetch" => pc'[e] = "fetch"
    BY <1>1, Zenon
  <2>2. CASE d = c
    <3>1. inflight[t] # {}
      BY <1>1, <2>2 DEF Waiting
    <3> QED BY <1>1, <2>1, <2>2, <3>1, EntryIsServed
  <2>3. CASE d # c
    <3>1. Waiting(d)
      BY <1>1, <2>3, Zenon DEF Waiting
    <3> QED BY <1>1, <1>5, <2>1, <2>3, <3>1 DEF NoCallerStranded
  <2> QED BY <2>2, <2>3, Zenon
<1> QED BY <1>6, <1>7, <1>8, <1>9, <1>10, Zenon DEF QueryOK, AnswerOK

LEMMA LockedInv == ASSUME NEW c \in Caller, Inv, getRouteForLocked(c) PROVE Inv'
<1> USE DEF getRouteForLocked, goTo, complete
<1>1. TypeOK /\ answer[c] = NoRoute
  BY Zenon DEF Inv
<1>2. TypeOK'
  BY <1>1, RouteConstants DEF TypeOK, Reply, serverVars
<1>3. CASE table[want[c]] # NoRoute
  BY <1>1, <1>2, <1>3, CallerMoves DEF TypeOK, Waiting, serverVars
<1>4. CASE table[want[c]] = NoRoute
  <2>1. /\ pc[c] = "miss"
        /\ inflight' = [inflight EXCEPT ![want[c]] = @ \cup {c}]
        /\ pc' = [pc EXCEPT ![c] = IF inflight[want[c]] = {} THEN "fetch" ELSE "test"]
        /\ UNCHANGED <<query, want, answer, lacked>>
    BY <1>4, Zenon DEF serverVars
  <2> QED BY <1>2, <2>1, JoinsInv, Zenon
<1> QED BY <1>3, <1>4, Zenon

-----------------------------------------------------------------------------
(* The steps of a query. *)

(* Steps of queries that neither start nor end the service of a topic and  *)
(* hold on to the same callbacks.                                          *)
LEMMA QueryMoves ==
  ASSUME Inv, TypeOK', UNCHANGED <<inflight, callerVars, lacked>>, QueryOK',
         \A r \in Query : query'[r].pending = query[r].pending,
         \A r \in Query, u \in Topic : Serves(r, u)' <=> Serves(r, u)
  PROVE  Inv'
<1> USE DEF callerVars, Inv
<1>1. \A c \in Caller : want[c] \in Topic
  BY Zenon DEF TypeOK
<1>2. OneFetch'
  BY <1>1, Zenon DEF OneFetch
<1>3. OneServer'
  <2> SUFFICES ASSUME NEW q \in Query, NEW u, u = query'[q].topic, Serves(q, u)'
               PROVE  /\ inflight[u] # {}
                      /\ \A r \in Query : Serves(r, u)' => r = q
    BY Zenon DEF OneServer
  <2>1. u \in Topic /\ Serves(q, u)
    BY Zenon DEF TypeOK, QueryType
  <2>2. u = query[q].topic
    BY <2>1, Zenon DEF Serves
  <2> QED BY <2>1, <2>2, Zenon DEF OneServer
<1>4. PendingOnce'
  BY Zenon DEF PendingOnce, Waiting
<1>5. AnswerOK'
  BY Zenon DEF AnswerOK
<1>6. NoCallerStranded => NoCallerStranded'
  BY <1>1, Zenon DEF NoCallerStranded, Waiting
<1> QED BY <1>2, <1>3, <1>4, <1>5, <1>6, Zenon DEF QueryOK, AnswerOK

LEMMA ServeAnotherInv ==
  ASSUME NEW t \in Topic, NEW r \in Route \cup {EmptyRoute}, Inv, serveAnother(t, r)
  PROVE  Inv'
<1> USE DEF serveAnother, callerVars
<1>1. TypeOK'
  BY RouteConstants DEF Inv, TypeOK
<1>2. QueryOK'
  BY InvSplit, Zenon DEF QueryOK
<1> QED BY <1>1, <1>2, QueryMoves, Zenon DEF Serves

LEMMA RefreshInv == ASSUME NEW t \in Topic, Inv, updateRouteInfo(t) PROVE Inv'
<1> DEFINE k == [pc |-> "sent", topic |-> t, first |-> FALSE, reply |-> Failed, pending |-> {}]
<1>1. TypeOK /\ QueryOK
  BY InvSplit, Zenon
<1>2. UNCHANGED <<served, changes, lacked, table, info, inflight, callerVars>>
  BY Zenon DEF updateRouteInfo, fetchRouteFor
<1>3. k \in QueryType /\ k.pc = "sent" /\ ~k.first /\ k.pending = {}
  BY Zenon DEF QueryType, Reply
<1>4. CASE UNCHANGED query
  <2>1. TypeOK' /\ QueryOK'
    BY <1>1, <1>2, <1>4, Zenon DEF TypeOK, QueryOK, callerVars
  <2> QED BY <1>2, <1>4, <2>1, QueryMoves, Zenon DEF Serves
<1>5. CASE \E q \in Query : query[q].pc = "free" /\ query' = [query EXCEPT ![q] = k]
  <2>1. PICK q \in Query : query[q].pc = "free" /\ query' = [query EXCEPT ![q] = k]
    BY <1>5, Zenon
  <2> HIDE DEF k
  <2>2. query'[q] = k /\ \A r \in Query \ {q} : query'[r] = query[r]
    BY <1>1, <2>1, Zenon DEF TypeOK
  <2>3. TypeOK'
    BY <1>1, <1>2, <1>3, <2>1, Zenon DEF TypeOK, callerVars
  <2>4. QueryOK' /\ \A r \in Query : query'[r].pending = query[r].pending
    BY <1>1, <1>3, <2>1, <2>2, Zenon DEF QueryOK
  <2>5. \A r \in Query, u \in Topic : Serves(r, u)' <=> Serves(r, u)
    BY <1>3, <2>1, <2>2, Zenon DEF Serves
  <2> QED BY <1>2, <2>3, <2>4, <2>5, QueryMoves, Zenon
<1> QED BY <1>4, <1>5, Zenon DEF updateRouteInfo, fetchRouteFor

LEMMA Answered ==
  ASSUME NEW k \in QueryType, NEW reply \in Reply, NEW l,
         l = [k EXCEPT !.pc = "update", !.reply = reply]
  PROVE  /\ l \in QueryType /\ l.pc = "update" /\ l.topic = k.topic
         /\ l.first = k.first /\ l.pending = k.pending
<1>1. l.pc = "update" /\ l.topic = k.topic /\ l.first = k.first /\ l.pending = k.pending
  BY Zenon DEF QueryType
<1>2. l \in QueryType
  BY Zenon DEF QueryType
<1> QED BY <1>1, <1>2, Zenon

LEMMA ReplyInv ==
  ASSUME NEW q \in Query, NEW reply \in Reply, Inv, replyWith(q, reply)
  PROVE  Inv'
<1>1. TypeOK /\ QueryOK
  BY InvSplit, Zenon
<1>2. /\ UNCHANGED <<served, changes, lacked, table, info, inflight, callerVars>>
      /\ query[q].pc = "sent"
      /\ query' = [query EXCEPT ![q].pc = "update", ![q].reply = reply]
  BY Zenon DEF replyWith, serverVars
<1>3. /\ query'[q] = [query[q] EXCEPT !.pc = "update", !.reply = reply]
      /\ \A r \in Query \ {q} : query'[r] = query[r]
  BY <1>1, <1>2, Zenon DEF TypeOK
<1>4. /\ query'[q] \in QueryType /\ query'[q].pc = "update"
      /\ query'[q].topic = query[q].topic /\ query'[q].first = query[q].first
      /\ query'[q].pending = query[q].pending
  <2>1. query[q] \in QueryType
    BY <1>1, Zenon DEF TypeOK
  <2>2. PICK k : k = query[q]
    BY Zenon
  <2>3. PICK l : l = query'[q]
    BY Zenon
  <2>4. k \in QueryType /\ l = [k EXCEPT !.pc = "update", !.reply = reply]
    BY <1>3, <2>1, <2>2, <2>3, Zenon
  <2>5. /\ l \in QueryType /\ l.pc = "update" /\ l.topic = k.topic
        /\ l.first = k.first /\ l.pending = k.pending
    BY <2>4, Answered, ZenonT(60)
  <2> QED BY <2>2, <2>3, <2>5, Zenon
<1>5. TypeOK'
  BY <1>1, <1>2, <1>3, <1>4, Zenon DEF TypeOK, callerVars
<1>6. QueryOK' /\ \A r \in Query : query'[r].pending = query[r].pending
  BY <1>1, <1>2, <1>3, <1>4, ZenonT(60) DEF QueryOK
<1>7. \A r \in Query, u \in Topic : Serves(r, u)' <=> Serves(r, u)
  <2>1. \A u \in Topic : Serves(q, u)' <=> Serves(q, u)
    BY <1>2, <1>4, Zenon DEF Serves
  <2>2. \A r \in Query \ {q} : \A u \in Topic : Serves(r, u)' <=> Serves(r, u)
    BY <1>3, Zenon DEF Serves
  <2> QED BY <2>1, <2>2, Zenon
<1> QED BY <1>2, <1>5, <1>6, <1>7, QueryMoves, Zenon

LEMMA ResolveInv ==
  ASSUME NEW q \in Query, Inv, resolveRoute(q) \/ resolveRouteError(q) PROVE Inv'
<1>1. served[query[q].topic] \in Reply /\ Failed \in Reply
  BY Zenon DEF Inv, TypeOK, QueryType, Reply
<1>2. PICK reply \in Reply : replyWith(q, reply)
  BY <1>1, Zenon DEF resolveRoute, resolveRouteError
<1> QED BY <1>2, ReplyInv, Zenon

LEMMA CacheInv == ASSUME NEW q \in Query, Inv, updateRouteCache(q) PROVE Inv'
<1>1. TypeOK /\ QueryOK
  BY InvSplit, Zenon
<1> DEFINE k == IF query[q].first THEN [query[q] EXCEPT !.pc = "take"]
                                  ELSE NoQuery(query[q].topic)
<1>2. /\ UNCHANGED <<served, changes, lacked, info, inflight, callerVars>>
      /\ query[q].pc = "update" /\ query' = [query EXCEPT ![q] = k]
      /\ table' = IF query[q].reply \in Route /\ Differs(query[q].topic, query[q].reply)
                  THEN [table EXCEPT ![query[q].topic] = query[q].reply] ELSE table
  BY Zenon DEF updateRouteCache, serverVars
<1>3. query'[q] = k /\ \A r \in Query \ {q} : query'[r] = query[r]
  BY <1>1, <1>2, Zenon DEF TypeOK
<1>4. query[q].pending = {}
  BY <1>1, <1>2, Zenon DEF QueryOK
<1>5. /\ k \in QueryType /\ k.pending = {} /\ k.topic = query[q].topic
      /\ k.first = query[q].first /\ k.pc = IF k.first THEN "take" ELSE "free"
  <2>1. query[q] \in QueryType
    BY <1>1, Zenon DEF TypeOK
  <2>2. CASE query[q].first
    BY <1>4, <2>1, <2>2, Zenon DEF QueryType
  <2>3. CASE ~query[q].first
    BY <2>1, <2>3, Zenon DEF QueryType, NoQuery, Reply
  <2> QED BY <2>2, <2>3, Zenon
<1> HIDE DEF k
<1>6. TypeOK'
  <2>1. query' \in [Query -> QueryType]
    BY <1>1, <1>2, <1>5, Zenon DEF TypeOK
  <2>2. table' \in [Topic -> Route \cup {NoRoute}]
    BY <1>1, <1>2, Zenon DEF TypeOK, QueryType
  <2> QED BY <1>1, <1>2, <2>1, <2>2, Zenon DEF TypeOK, callerVars
<1>7. QueryOK' /\ \A r \in Query : query'[r].pending = query[r].pending
  BY <1>1, <1>3, <1>4, <1>5, ZenonT(60) DEF QueryOK
<1>8. \A r \in Query, u \in Topic : Serves(r, u)' <=> Serves(r, u)
  BY <1>2, <1>3, <1>5 DEF Serves
<1> QED BY <1>2, <1>6, <1>7, <1>8, QueryMoves, Zenon

LEMMA HandledInv == ASSUME NEW q \in Query, Inv, queryHandled(q) PROVE Inv'
<1>1. TypeOK /\ QueryOK
  BY InvSplit, Zenon
<1>2. /\ UNCHANGED <<served, changes, lacked, table, info, inflight, callerVars>>
      /\ query[q].pc = "apply" /\ query[q].pending = {}
      /\ query' = [query EXCEPT ![q] = NoQuery(query[q].topic)]
  BY Zenon DEF queryHandled, serverVars
<1>3. query'[q] = NoQuery(query[q].topic) /\ \A r \in Query \ {q} : query'[r] = query[r]
  BY <1>1, <1>2, Zenon DEF TypeOK
<1>4. query'[q] \in QueryType /\ query'[q].pc = "free" /\ query'[q].pending = {}
  BY <1>1, <1>3 DEF TypeOK, QueryType, NoQuery, Reply
<1>5. TypeOK'
  BY <1>1, <1>2, <1>3, <1>4, Zenon DEF TypeOK, callerVars
<1>6. QueryOK' /\ \A r \in Query : query'[r].pending = query[r].pending
  BY <1>1, <1>2, <1>3, <1>4, Zenon DEF QueryOK
<1>7. \A r \in Query, u \in Topic : Serves(r, u)' <=> Serves(r, u)
  BY <1>2, <1>3, <1>4 DEF Serves
<1> QED BY <1>2, <1>5, <1>6, <1>7, QueryMoves, Zenon

LEMMA FetchInv == ASSUME NEW c \in Caller, Inv, fetchFirst(c) PROVE Inv'
<1>1. TypeOK /\ OneFetch /\ OneServer /\ PendingOnce /\ QueryOK /\ AnswerOK
  BY InvSplit, Zenon
<1>2. PICK t \in Topic : t = want[c]
  BY <1>1, Zenon DEF TypeOK
<1>3. /\ UNCHANGED <<served, changes, table, info, inflight, want, answer>>
      /\ pc[c] = "fetch" /\ pc' = [pc EXCEPT ![c] = "test"]
  BY Zenon DEF fetchFirst, goTo
<1>4. pc'[c] = "test" /\ \A d \in Caller \ {c} : pc'[d] = pc[d]
  BY <1>1, <1>3, Zenon DEF TypeOK
<1>5. /\ c \in inflight[t] /\ answer[c] = NoRoute
      /\ \A q \in Query : ~Serves(q, t)
      /\ \A d \in Caller : pc[d] = "fetch" /\ want[d] = t => d = c
  BY <1>1, <1>2, <1>3, Zenon DEF OneFetch, AnswerOK
<1>6. AnswerOK'
  BY <1>1, <1>3, <1>4, Zenon DEF AnswerOK
<1>7. ASSUME \A q \in Query : query'[q].pending = query[q].pending
      PROVE  PendingOnce'
  <2>1. \A d \in Caller : Waiting(d) => Waiting(d)'
    BY <1>3, <1>4, Zenon DEF Waiting
  <2>2. \A u \in Topic : \A d \in inflight'[u] :
          d \in Caller /\ want'[d] = u /\ answer'[d] = NoRoute /\ pc'[d] \in {"fetch", "test", "park", "asleep"}
    BY <1>1, <1>3, <1>4 DEF PendingOnce, TypeOK
  <2>3. \A q \in Query : \A d \in query'[q].pending :
          /\ d \in Caller /\ Waiting(d) /\ d \notin inflight[want[d]]
          /\ \A r \in Query \ {q} : d \notin query'[r].pending
    BY <1>1, <1>7 DEF PendingOnce, TypeOK, QueryType
  <2> QED BY <1>3, <2>1, <2>2, <2>3 DEF PendingOnce
<1>8. CASE lacked' = lacked \cup {t} /\ UNCHANGED query
  <2>1. TypeOK'
    BY <1>1, <1>3, <1>8, Zenon DEF TypeOK
  <2>2. OneFetch'
    BY <1>1, <1>3, <1>4, <1>8 DEF OneFetch, Serves
  <2>3. OneServer'
    BY <1>1, <1>3, <1>8, Zenon DEF OneServer, Serves
  <2>4. PendingOnce' /\ QueryOK'
    BY <1>1, <1>7, <1>8, Zenon DEF QueryOK
  <2>5. NoCallerStranded => NoCallerStranded'
    <3> SUFFICES ASSUME NoCallerStranded, NEW d \in Caller, Waiting(d)', want[d] \notin lacked, want[d] # t
                 PROVE  \/ \E r \in Query : d \in query[r].pending
                        \/ /\ d \in inflight[want[d]]
                           /\ \/ \E r \in Query : Serves(r, want[d])
                              \/ \E e \in Caller : pc'[e] = "fetch" /\ want[e] = want[d]
      BY <1>3, <1>8, Zenon DEF NoCallerStranded, Serves
    <3>1. Waiting(d)
      BY <1>2, <1>3, <1>4, Zenon DEF Waiting
    <3>2. \A e \in Caller : want[e] = want[d] => pc'[e] = pc[e]
      BY <1>2, <1>4, Zenon
    <3> QED BY <3>1, <3>2 DEF NoCallerStranded
  <2> QED BY InvSplit, <1>6, <1>8, <2>1, <2>2, <2>3, <2>4, <2>5, Zenon DEF Inv, QueryOK, AnswerOK
<1> DEFINE k == [pc |-> "sent", topic |-> t, first |-> TRUE, reply |-> Failed, pending |-> {}]
<1>9. CASE /\ UNCHANGED lacked
           /\ \E q \in Query : query[q].pc = "free" /\ query' = [query EXCEPT ![q] = k]
  <2>1. PICK q \in Query : query[q].pc = "free" /\ query' = [query EXCEPT ![q] = k]
    BY <1>9, Zenon
  <2>2. k \in QueryType /\ k.pc = "sent" /\ k.first /\ k.pending = {} /\ k.topic = t
    BY Zenon DEF QueryType, Reply
  <2> HIDE DEF k
  <2>3. query'[q] = k /\ \A r \in Query \ {q} : query'[r] = query[r]
    BY <1>1, <2>1, Zenon DEF TypeOK
  <2>4. TypeOK'
    BY <1>1, <1>3, <1>9, <2>1, <2>2, Zenon DEF TypeOK
  <2>5. query[q].pending = {} /\ QueryOK' /\ \A r \in Query : query'[r].pending = query[r].pending
    BY <1>1, <2>1, <2>2, <2>3, ZenonT(60) DEF QueryOK
  <2>6. /\ \A u : Serves(q, u)' <=> u = t
        /\ \A r \in Query \ {q} : \A u : Serves(r, u)' <=> Serves(r, u)
    BY <2>2, <2>3, Zenon DEF Serves
  <2>7. \A u : ~Serves(q, u)
    BY <2>1, Zenon DEF Serves
  <2>8. OneFetch'
    BY <1>1, <1>3, <1>4, <1>5, <2>6 DEF OneFetch
  <2>9. OneServer'
    <3> SUFFICES ASSUME NEW r \in Query, NEW u, u = query'[r].topic, Serves(r, u)'
                 PROVE  inflight[u] # {} /\ \A v \in Query : Serves(v, u)' => v = r
      BY <1>3, Zenon DEF OneServer
    <3>1. CASE r = q
      BY <1>5, <2>6, <3>1, Zenon
    <3>2. CASE r # q
      <4>1. u = query[r].topic /\ Serves(r, u)
        BY <2>3, <2>6, <3>2, Zenon
      <4> QED BY <1>1, <1>5, <2>6, <3>2, <4>1 DEF OneServer
    <3> QED BY <3>1, <3>2, Zenon
  <2>10. PendingOnce'
    BY <1>7, <2>5, Zenon
  <2>11. NoCallerStranded => NoCallerStranded'
    <3> SUFFICES ASSUME NoCallerStranded, NEW d \in Caller, Waiting(d)', NEW w, w = want[d], w \notin lacked
                 PROVE  \/ \E r \in Query : d \in query'[r].pending
                        \/ /\ d \in inflight[w]
                           /\ \/ \E r \in Query : Serves(r, w)'
                              \/ \E e \in Caller : pc'[e] = "fetch" /\ want[e] = want[d]
      BY <1>3, <1>9 DEF NoCallerStranded, Serves
    <3>1. Serves(q, t)'
      BY <2>6, Zenon
    <3>2. CASE want[d] = t
      <4>1. CASE d = c
        BY <1>5, <3>1, <3>2, <4>1, Zenon
      <4>2. CASE d # c
        <5>1. Waiting(d)
          BY <1>3, <1>4, <4>2, Zenon DEF Waiting
        <5> QED BY <2>5, <3>1, <3>2, <5>1, Zenon DEF NoCallerStranded
      <4> QED BY <4>1, <4>2, Zenon
    <3>3. CASE want[d] # t
      <4>1. Waiting(d) /\ d # c
        BY <1>2, <1>3, <1>4, <3>3, Zenon DEF Waiting
      <4>2. \A r \in Query : Serves(r, want[d]) => r # q
        BY <2>7, Zenon
      <4>3. \A e \in Caller : want[e] = want[d] => pc'[e] = pc[e]
        BY <1>2, <1>4, <3>3, Zenon
      <4>4. \/ \E r \in Query : d \in query[r].pending
            \/ /\ d \in inflight[want[d]]
               /\ \/ \E r \in Query : Serves(r, want[d])
                  \/ \E e \in Caller : pc[e] = "fetch" /\ want[e] = want[d]
        BY <4>1, Zenon DEF NoCallerStranded
      <4>5. ASSUME NEW r \in Query, Serves(r, want[d]) PROVE Serves(r, w)'
        BY <2>6, <4>2, <4>5, Zenon
      <4>6. \A e \in Caller : pc[e] = "fetch" /\ want[e] = want[d] => pc'[e] = "fetch"
        BY <4>3, Zenon
      <4> QED BY <2>5, <4>4, <4>5, <4>6, Zenon
    <3> QED BY <3>2, <3>3, Zenon
  <2> QED BY <1>6, <2>4, <2>5, <2>8, <2>9, <2>10, <2>11, Zenon DEF Inv, QueryOK, AnswerOK
<1>10. \/ lacked' = lacked \cup {t} /\ UNCHANGED query
       \/ /\ UNCHANGED lacked
          /\ \E q \in Query : query[q].pc = "free" /\ query' = [query EXCEPT ![q] = k]
  BY <1>2, Zenon DEF fetchFirst, fetchRouteFor
<1> QED BY <1>8, <1>9, <1>10, Zenon

LEMMA TakeInv == ASSUME NEW q \in Query, Inv, onTopicRouteReady(q) PROVE Inv'
<1>1. TypeOK /\ OneFetch /\ OneServer /\ PendingOnce /\ QueryOK /\ AnswerOK
  BY InvSplit, Zenon
<1>2. PICK t \in Topic : t = query[q].topic
  BY <1>1, Zenon DEF TypeOK, QueryType
<1>3. /\ UNCHANGED <<served, changes, lacked, table, info, pc, want, answer>>
      /\ query[q].pc = "take"
      /\ query' = [query EXCEPT ![q].pc = "apply", ![q].pending = inflight[t]]
      /\ inflight' = [inflight EXCEPT ![t] = {}]
  BY <1>2, Zenon DEF onTopicRouteReady, serverVars, callerVars
<1>4. /\ query'[q] = [query[q] EXCEPT !.pc = "apply", !.pending = inflight[t]]
      /\ \A r \in Query \ {q} : query'[r] = query[r]
  BY <1>1, <1>3, Zenon DEF TypeOK
<1>5. query'[q] \in QueryType /\ query'[q].pc = "apply" /\ query'[q].pending = inflight[t]
  <2>1. query[q] \in QueryType /\ inflight[t] \in SUBSET Caller
    BY <1>1, Zenon DEF TypeOK
  <2> QED BY <1>4, <2>1, Zenon DEF QueryType
<1>6. inflight'[t] = {} /\ \A u \in Topic \ {t} : inflight'[u] = inflight[u]
  BY <1>1, <1>3, Zenon DEF TypeOK
<1>7. query[q].pending = {} /\ Serves(q, t)
  BY <1>1, <1>2, <1>3, Zenon DEF QueryOK, Serves
<1>8. /\ \A r \in Query : Serves(r, t) => r = q
      /\ \A c \in Caller : pc[c] = "fetch" => want[c] # t
  BY <1>1, <1>2, <1>7, Zenon DEF OneServer, OneFetch
<1>9. /\ \A u : ~Serves(q, u)'
      /\ \A r \in Query \ {q} : \A u : Serves(r, u)' <=> Serves(r, u)
  BY <1>4, <1>5, Zenon DEF Serves
<1>10. \A d \in inflight[t] : d \in Caller /\ want[d] = t /\ Waiting(d)
  BY <1>1, <1>8 DEF PendingOnce, Waiting, TypeOK
<1>11. \A d \in Caller : want[d] \in Topic
  BY <1>1, Zenon DEF TypeOK
<1>12. TypeOK'
  <2>1. query' \in [Query -> QueryType]
    BY <1>1, <1>3, <1>4, <1>5, Zenon DEF TypeOK
  <2> QED BY <1>1, <1>3, <2>1, Zenon DEF TypeOK
<1>13. OneFetch'
  BY <1>1, <1>3, <1>6, <1>8, <1>9, <1>11 DEF OneFetch
<1>14. OneServer'
  <2> SUFFICES ASSUME NEW r \in Query, NEW u, u = query'[r].topic, Serves(r, u)'
               PROVE  inflight'[u] # {} /\ \A v \in Query : Serves(v, u)' => v = r
    BY Zenon DEF OneServer
  <2>1. r # q /\ u = query[r].topic /\ Serves(r, u)
    BY <1>4, <1>9, Zenon
  <2>2. u # t /\ u \in Topic
    BY <1>1, <1>8, <2>1, Zenon DEF TypeOK, QueryType
  <2> QED BY <1>1, <1>6, <1>9, <2>1, <2>2, Zenon DEF OneServer
<1>15. PendingOnce'
  <2>1. \A u \in Topic : inflight'[u] \subseteq inflight[u]
    BY <1>6, Zenon
  <2>2. \A u \in Topic : \A d \in inflight'[u] :
          want'[d] = u /\ answer'[d] = NoRoute /\ pc'[d] \in {"fetch", "test", "park", "asleep"}
    BY <1>1, <1>3, <2>1, Zenon DEF PendingOnce
  <2>3. ASSUME NEW r \in Query, NEW d \in query'[r].pending
        PROVE  /\ Waiting(d)' /\ d \notin inflight'[want'[d]]
               /\ \A v \in Query \ {r} : d \notin query'[v].pending
    <3>1. CASE r = q
      <4>1. d \in inflight[t] /\ want[d] = t /\ Waiting(d)
        BY <1>5, <1>10, <2>3, <3>1, Zenon
      <4>2. \A v \in Query : d \notin query[v].pending
        BY <1>1, <4>1, Zenon DEF PendingOnce
      <4>3. Waiting(d)' /\ want'[d] = t
        BY <1>3, <4>1, Zenon DEF Waiting
      <4> QED BY <1>4, <1>6, <3>1, <4>2, <4>3, Zenon
    <3>2. CASE r # q
      <4>1. d \in query[r].pending
        BY <1>4, <2>3, <3>2, Zenon
      <4>2. /\ d \in Caller /\ Waiting(d) /\ d \notin inflight[want[d]]
            /\ \A v \in Query \ {r} : d \notin query[v].pending
        BY <1>1, <4>1, Zenon DEF PendingOnce, TypeOK, QueryType
      <4>3. d \notin inflight[t]
        BY <1>10, <4>2, Zenon
      <4> QED BY <1>3, <1>4, <1>5, <1>11, <2>1, <4>2, <4>3, ZenonT(60) DEF Waiting
    <3> QED BY <3>1, <3>2, Zenon
  <2> QED BY <2>2, <2>3, Zenon DEF PendingOnce
<1>16. QueryOK' /\ AnswerOK'
  BY <1>1, <1>3, <1>4, <1>5, ZenonT(60) DEF QueryOK, AnswerOK
<1>17. NoCallerStranded => NoCallerStranded'
  <2>0. \A d \in Caller : Waiting(d)' <=> Waiting(d)
    BY <1>3, Zenon DEF Waiting
  <2> SUFFICES ASSUME NoCallerStranded, NEW d \in Caller, Waiting(d), NEW w, w = want[d], w \notin lacked
               PROVE  \/ \E r \in Query : d \in query'[r].pending
                      \/ /\ d \in inflight'[w]
                         /\ \/ \E r \in Query : Serves(r, w)'
                            \/ \E e \in Caller : pc[e] = "fetch" /\ want[e] = w
    BY <1>3, <2>0, ZenonT(60) DEF NoCallerStranded
  <2>1. CASE \E r \in Query : d \in query[r].pending
    BY <1>4, <1>7, <2>1, Zenon
  <2>2. CASE ~\E r \in Query : d \in query[r].pending
    <3>1. /\ d \in inflight[w] /\ w \in Topic
          /\ \/ \E r \in Query : Serves(r, w)
             \/ \E e \in Caller : pc[e] = "fetch" /\ want[e] = w
      BY <1>11, <2>2, Zenon DEF NoCallerStranded
    <3>2. CASE w = t
      BY <1>5, <3>1, <3>2, Zenon
    <3>3. CASE w # t
      <4>1. ~Serves(q, w)
        BY <1>2, <3>3, Zenon DEF Serves
      <4> QED BY <1>6, <1>9, <3>1, <3>3, <4>1, Zenon
    <3> QED BY <3>2, <3>3, Zenon
  <2> QED BY <2>1, <2>2, Zenon
<1> QED BY <1>12, <1>13, <1>14, <1>15, <1>16, <1>17, Zenon DEF Inv, QueryOK, AnswerOK

LEMMA ApplyInv ==
  ASSUME NEW q \in Query, NEW c \in Caller, Inv, applyCallback(q, c)
  PROVE  Inv'
<1>1. TypeOK /\ OneFetch /\ OneServer /\ PendingOnce /\ QueryOK /\ AnswerOK
  BY InvSplit, Zenon
<1>2. /\ UNCHANGED <<served, changes, lacked, table, inflight, want>>
      /\ query[q].pc = "apply" /\ c \in query[q].pending
      /\ answer' = [answer EXCEPT ![c] = query[q].reply]
      /\ info' = IF query[q].reply = Failed THEN info ELSE [info EXCEPT ![want[c]] = query[q].reply]
      /\ pc' = [pc EXCEPT ![c] = IF pc[c] = "asleep" THEN "test" ELSE pc[c]]
      /\ query' = [query EXCEPT ![q].pending = @ \ {c}]
  BY Zenon DEF applyCallback, complete, goTo, serverVars
<1>3. /\ query'[q] = [query[q] EXCEPT !.pending = @ \ {c}]
      /\ \A r \in Query \ {q} : query'[r] = query[r]
  BY <1>1, <1>2, Zenon DEF TypeOK
<1>4. /\ query'[q] \in QueryType /\ query'[q].pc = "apply"
      /\ query'[q].pending = query[q].pending \ {c}
  <2>1. query[q] \in QueryType
    BY <1>1, Zenon DEF TypeOK
  <2> QED BY <1>2, <1>3, <2>1 DEF QueryType
<1>5. query[q].reply \in Reply /\ query[q].reply # NoRoute
  BY <1>1, RouteConstants, Zenon DEF TypeOK, QueryType, Reply
<1>6. /\ Waiting(c) /\ c \notin inflight[want[c]]
      /\ \A r \in Query \ {q} : c \notin query[r].pending
  BY <1>1, <1>2, Zenon DEF PendingOnce
<1>7. /\ answer'[c] # NoRoute /\ pc[c] # "fetch" /\ pc'[c] \notin {"idle", "lookup", "miss", "fetch"}
      /\ \A d \in Caller \ {c} : answer'[d] = answer[d] /\ pc'[d] = pc[d]
  BY <1>1, <1>2, <1>5, <1>6, Zenon DEF TypeOK, Waiting
<1>8. \A r \in Query : \A u : Serves(r, u)' <=> Serves(r, u)
  BY <1>2, <1>3, <1>4 DEF Serves
<1>9. TypeOK'
  <2>1. query' \in [Query -> QueryType]
    BY <1>1, <1>2, <1>3, <1>4, Zenon DEF TypeOK
  <2>2. info' \in [Topic -> Route \cup {EmptyRoute, NoRoute}]
    BY <1>1, <1>2, <1>5, Zenon DEF TypeOK, Reply
  <2>3. answer' \in [Caller -> Reply \cup {NoRoute}]
    BY <1>1, <1>2, <1>5, Zenon DEF TypeOK
  <2> QED BY <1>1, <1>2, <2>1, <2>2, <2>3, Zenon DEF TypeOK
<1>10. OneFetch'
  BY <1>1, <1>2, <1>7, <1>8 DEF OneFetch
<1>11. OneServer'
  <2> SUFFICES ASSUME NEW r \in Query, NEW u, u = query'[r].topic, Serves(r, u)'
               PROVE  inflight[u] # {} /\ \A v \in Query : Serves(v, u)' => v = r
    BY <1>2, Zenon DEF OneServer
  <2>1. u = query[r].topic /\ Serves(r, u)
    BY <1>8, Zenon DEF Serves
  <2> QED BY <1>1, <1>8, <2>1, Zenon DEF OneServer
<1>12. PendingOnce'
  <2>1. ASSUME NEW u \in Topic, NEW d \in inflight[u]
        PROVE  want[d] = u /\ answer'[d] = NoRoute /\ pc'[d] \in {"fetch", "test", "park", "asleep"}
    <3>1. /\ d \in Caller /\ want[d] = u /\ answer[d] = NoRoute
          /\ pc[d] \in {"fetch", "test", "park", "asleep"}
      BY <1>1, <2>1 DEF PendingOnce, TypeOK
    <3>2. d # c
      BY <1>6, <2>1, <3>1, Zenon
    <3> QED BY <1>7, <3>1, <3>2, Zenon
  <2>2. ASSUME NEW r \in Query, NEW d \in query'[r].pending
        PROVE  /\ Waiting(d)' /\ d \notin inflight[want[d]]
               /\ \A v \in Query \ {r} : d \notin query'[v].pending
    <3>1. d \in query[r].pending /\ d # c
      BY <1>3, <1>4, <1>6, <2>2, Zenon
    <3>2. /\ d \in Caller /\ Waiting(d) /\ d \notin inflight[want[d]]
          /\ \A v \in Query \ {r} : d \notin query[v].pending
      BY <1>1, <3>1, Zenon DEF PendingOnce, TypeOK, QueryType
    <3>3. Waiting(d)'
      BY <1>7, <3>1, <3>2, Zenon DEF Waiting
    <3> QED BY <1>3, <1>4, <3>2, <3>3, Zenon
  <2> QED BY <1>2, <2>1, <2>2 DEF PendingOnce
<1>13. QueryOK' /\ AnswerOK'
  BY <1>1, <1>3, <1>4, <1>7, ZenonT(60) DEF QueryOK, AnswerOK
<1>14. NoCallerStranded => NoCallerStranded'
  <2> SUFFICES ASSUME NoCallerStranded, NEW d \in Caller, Waiting(d)', NEW w, w = want[d], w \notin lacked
               PROVE  \/ \E r \in Query : d \in query'[r].pending
                      \/ /\ d \in inflight[w]
                         /\ \/ \E r \in Query : Serves(r, w)'
                            \/ \E e \in Caller : pc'[e] = "fetch" /\ want[e] = w
    BY <1>2 DEF NoCallerStranded
  <2>1. d # c /\ Waiting(d)
    BY <1>7, Zenon DEF Waiting
  <2>2. \A e \in Caller : pc[e] = "fetch" => pc'[e] = "fetch"
    BY <1>7, Zenon
  <2>3. \A r \in Query : d \in query[r].pending => d \in query'[r].pending
    BY <1>3, <1>4, <2>1, Zenon
  <2> QED BY <1>8, <2>1, <2>2, <2>3, Zenon DEF NoCallerStranded
<1> QED BY <1>9, <1>10, <1>11, <1>12, <1>13, <1>14, Zenon DEF Inv, QueryOK, AnswerOK

-----------------------------------------------------------------------------
LEMMA StepInv == Inv /\ [Next]_vars => Inv'
<1>1. ASSUME Inv, UNCHANGED vars PROVE Inv'
  <2>1. UNCHANGED <<served, changes, lacked, table, info, inflight, query, pc, want, answer>>
    BY <1>1, Zenon DEF vars, serverVars, callerVars
  <2>2. TypeOK'
    BY <1>1, <2>1, Zenon DEF Inv, TypeOK
  <2>3. OneFetch' /\ OneServer'
    BY <1>1, <2>1, Zenon DEF Inv, OneFetch, OneServer, Serves
  <2>4. PendingOnce'
    BY <1>1, <2>1 DEF Inv, PendingOnce, Waiting
  <2>5. NoCallerStranded => NoCallerStranded'
    BY <2>1, Zenon DEF NoCallerStranded, Serves, Waiting
  <2> QED BY <1>1, <2>1, <2>2, <2>3, <2>4, <2>5, Zenon DEF Inv
<1>2. ASSUME Inv, NEW c \in Caller, CallerStep(c) PROVE Inv'
  BY <1>2, GetRouteInv, LockedInv, FetchInv, WaitInv, Zenon DEF CallerStep
<1>3. ASSUME Inv, NEW q \in Query, HandlerStep(q) PROVE Inv'
  BY <1>3, CacheInv, TakeInv, ApplyInv, HandledInv, Zenon DEF HandlerStep
<1>4. Inv /\ Next => Inv'
  BY <1>2, <1>3, AsksInv, WaitInv, RefreshInv, ServeAnotherInv, ResolveInv, Zenon DEF Next
<1> QED BY <1>1, <1>4, Zenon

(* Single flight: route queries, their handlers and the callers of         *)
(* getRouteFor keep the invariant in every interleaving.                   *)
THEOREM RouteInvariance == Spec => []Inv
  BY InitInv, StepInv, PTL DEF Spec

(* A route callback is held in one place, and only until it is invoked. *)
THEOREM InvokedOnce == Spec => []PendingOnce
<1>1. Inv => PendingOnce
  BY Zenon DEF Inv
<1> QED BY <1>1, RouteInvariance, PTL

(* The assertion in onTopicRouteReady holds. *)
THEOREM AssertionHolds == Spec => []InflightAtResponse
<1>1. Inv => InflightAtResponse
  BY Zenon DEF Inv, InflightAtResponse, OneServer, Serves
<1> QED BY <1>1, RouteInvariance, PTL

(* No caller of getRouteFor is ever forgotten, as long as there was a name *)
(* server to send the topic's first query to.                              *)
THEOREM CallersAreServed == Spec => []NoCallerStranded
<1>1. Inv => NoCallerStranded
  BY Zenon DEF Inv
<1> QED BY <1>1, RouteInvariance, PTL

-----------------------------------------------------------------------------
(* The command cycles. *)

PollSpec == PollInit /\ [][PollNext]_pollVars

Counts == [Endpoint -> Nat]

(* The cycles of an endpoint, wherever they are: bounded, and at least one *)
(* while the endpoint is in use.                                           *)
Cycled ==
  /\ starting \in Counts /\ polls \in Counts /\ delayed \in Counts /\ handling \in Counts
  /\ \A e \in Endpoint : Cycles(e) <= MaxCycle /\ (e \in inUse => Cycles(e) > 0)

Report == {"INVALID_ARGUMENT", "FAILED_PRECONDITION", "OK", "INTERNAL"}
Verdict == Report \ {"INVALID_ARGUMENT"}

(* What was reported when the verify command has got as far as verify. *)
Reported ==
  /\ verify \in {"none", "submitted", "done"} /\ reports \in Seq(Report)
  /\ verify = "submitted" => Len(reports) = 0 \/ (Len(reports) = 1 /\ reports[1] = "INVALID_ARGUMENT")
  /\ verify = "done" =>
       \/ Len(reports) = 1 /\ reports[1] \in Verdict
       \/ Len(reports) = 2 /\ reports[1] = "INVALID_ARGUMENT" /\ reports[2] \in Verdict

(* The inductive invariant. *)
CommandInv ==
  inUse \subseteq Endpoint /\ listener \in Listener /\ Cycled /\ Reported

(* A poll, an answer or a timer moves a cycle of e from one place to       *)
(* another: the count of its cycles stays.                                 *)
LEMMA CycleMoves ==
  ASSUME Cycled, NEW e \in Endpoint, NEW f \in Counts, NEW g \in Counts, f[e] > 0
  PROVE  /\ Dec(f, e) \in Counts /\ Inc(g, e) \in Counts
         /\ Dec(f, e)[e] = f[e] - 1 /\ Inc(g, e)[e] = g[e] + 1
         /\ \A x \in Endpoint : x # e => Dec(f, e)[x] = f[x] /\ Inc(g, e)[x] = g[x]
  BY DEF Counts, Dec, Inc

(* The numbers of cycles of an endpoint. *)
LEMMA CountsNat ==
  ASSUME Cycled
  PROVE  \A e \in Endpoint : /\ starting[e] \in Nat /\ polls[e] \in Nat
                             /\ delayed[e] \in Nat /\ handling[e] \in Nat
  BY Zenon DEF Cycled, Counts

(* Steps of the cycles keep their counts: a cycle ends only where its      *)
(* endpoint has left the route table.                                      *)
LEMMA CycledStep ==
  ASSUME CommandInv, [PollNext]_pollVars
  PROVE  Cycled'
<1> USE PollConstants DEF CommandInv
<1>1. CASE UNCHANGED <<inUse, countVars>>
  BY <1>1, Zenon DEF Cycled, Cycles, countVars
<1>2. ASSUME NEW hosts \in SUBSET Endpoint, NEW started \in SUBSET hosts,
             routeUpdated(hosts, started)
      PROVE  Cycled'
  <2>1. \A e \in Endpoint : starting'[e] = starting[e] + IF e \in started THEN 1 ELSE 0
    BY <1>2, Zenon DEF routeUpdated
  <2>2. starting' \in Counts
    BY <1>2, CountsNat DEF routeUpdated, Counts
  <2>3. ASSUME NEW e \in Endpoint
        PROVE  Cycles(e)' <= MaxCycle /\ (e \in inUse' => Cycles(e)' > 0)
    <3>1. Cycles(e) \in Nat /\ Cycles(e)' = Cycles(e) + IF e \in started THEN 1 ELSE 0
      BY <1>2, <2>1, CountsNat DEF routeUpdated, Cycles
    <3>2. CASE e \in started
      BY <1>2, <3>1, <3>2 DEF routeUpdated
    <3>3. CASE e \notin started
      BY <1>2, <3>1, <3>3 DEF routeUpdated, Cycled
    <3>4. QED
      BY <3>2, <3>3, Zenon
  <2>4. QED
    BY <1>2, <2>2, <2>3, Zenon DEF routeUpdated, Cycled
<1>3. ASSUME NEW e \in Endpoint, pollStarts(e) PROVE Cycled'
  BY <1>3, CycleMoves, CountsNat DEF pollStarts, Cycled, Cycles
<1>4. ASSUME NEW e \in Endpoint, pollLater(e) PROVE Cycled'
  BY <1>4, CycleMoves, CountsNat DEF pollLater, Cycled, Cycles
<1>5. ASSUME NEW e \in Endpoint, NextPoll(e), UNCHANGED <<inUse, starting, delayed>> PROVE Cycled'
  <2>1. /\ handling' \in Counts /\ polls' \in Counts
        /\ handling'[e] = handling[e] - 1 /\ polls'[e] = polls[e] + 1
        /\ \A x \in Endpoint : x # e => handling'[x] = handling[x] /\ polls'[x] = polls[x]
    BY <1>5, CycleMoves DEF NextPoll, Cycled
  <2>2. \A x \in Endpoint : Cycles(x)' = Cycles(x)
    BY <1>5, <2>1, CountsNat DEF Cycles
  <2>3. QED
    BY <1>5, <2>1, <2>2, Zenon DEF Cycled
<1>6. ASSUME NEW e \in Endpoint, NEW ok \in BOOLEAN, onPollCommandResponse(e, ok) PROVE Cycled'
  <2>1. CASE e \in inUse /\ ok
    <3>1. /\ polls' \in Counts /\ handling' \in Counts
          /\ polls'[e] = polls[e] - 1 /\ handling'[e] = handling[e] + 1
          /\ \A x \in Endpoint : x # e => polls'[x] = polls[x] /\ handling'[x] = handling[x]
          /\ UNCHANGED <<inUse, starting, delayed>>
      BY <1>6, <2>1, CycleMoves DEF onPollCommandResponse, Cycled
    <3>2. \A x \in Endpoint : Cycles(x)' = Cycles(x)
      BY <3>1, CountsNat DEF Cycles
    <3>3. QED
      BY <3>1, <3>2, Zenon DEF Cycled
  <2>2. CASE e \in inUse /\ ~ok
    BY <1>6, <2>2, CycleMoves, CountsNat DEF onPollCommandResponse, Cycled, Cycles
  <2>3. CASE e \notin inUse
    BY <1>6, <2>3, CycleMoves, CountsNat DEF onPollCommandResponse, Cycled, Cycles
  <2>4. QED
    BY <2>1, <2>2, <2>3, Zenon
<1>7. ASSUME NEW e \in Endpoint, CycleStep(e) PROVE Cycled'
  <2>1. CASE otherCommand(e)
    BY <1>5, <2>1, Zenon DEF otherCommand
  <2>2. ASSUME NEW c \in BOOLEAN, verifyMessageConsumption(e, c) PROVE Cycled'
    BY <1>5, <2>2, Zenon DEF verifyMessageConsumption
  <2>3. QED
    BY <1>3, <1>4, <1>6, <1>7, <2>1, <2>2, Zenon DEF CycleStep
<1>8. CASE (\E l \in Listener : setListener(l)) \/ \E c \in BOOLEAN : doVerify(c)
  BY <1>1, <1>8, Zenon DEF setListener, doVerify
<1>9. CASE UNCHANGED pollVars
  BY <1>1, <1>9, Zenon DEF pollVars, countVars
<1>10. QED
  BY <1>2, <1>7, <1>8, <1>9, Zenon DEF PollNext

(* Steps of the verify command keep its reports in order. *)
LEMMA ReportedStep ==
  ASSUME CommandInv, [PollNext]_pollVars
  PROVE  Reported'
<1>1. CASE UNCHANGED <<verify, reports>>
  BY <1>1, Zenon DEF CommandInv, Reported
<1>2. ASSUME NEW e \in Endpoint, NEW c \in BOOLEAN, verifyMessageConsumption(e, c) PROVE Reported'
  <2>1. CASE listener = "STANDARD"
    <3>1. verify' = "submitted" /\ reports' = IF c THEN <<"INVALID_ARGUMENT">> ELSE <<>>
      BY <1>2, <2>1 DEF verifyMessageConsumption
    <3>2. CASE c
      <4>1. reports' = <<"INVALID_ARGUMENT">> /\ "INVALID_ARGUMENT" \in Report
        BY <3>1, <3>2, Zenon DEF Report
      <4>2. QED
        BY <3>1, <4>1 DEF Reported
    <3>3. CASE ~c
      BY <3>1, <3>3 DEF Reported
    <3>4. QED
      BY <3>2, <3>3, Zenon
  <2>2. CASE listener # "STANDARD"
    <3>1. /\ verify' = "done"
          /\ reports' = IF c THEN <<"INVALID_ARGUMENT", "FAILED_PRECONDITION">>
                             ELSE <<"FAILED_PRECONDITION">>
      BY <1>2, <2>2 DEF verifyMessageConsumption
    <3>2. CASE c
      <4>1. reports' = <<"INVALID_ARGUMENT", "FAILED_PRECONDITION">>
            /\ "INVALID_ARGUMENT" \in Report /\ "FAILED_PRECONDITION" \in Report \cap Verdict
        BY <3>1, <3>2, Zenon DEF Report, Verdict
      <4>2. QED
        BY <3>1, <4>1 DEF Reported
    <3>3. CASE ~c
      <4>1. reports' = <<"FAILED_PRECONDITION">> /\ "FAILED_PRECONDITION" \in Report \cap Verdict
        BY <3>1, <3>3, Zenon DEF Report, Verdict
      <4>2. QED
        BY <3>1, <4>1 DEF Reported
    <3>4. QED
      BY <3>2, <3>3, Zenon
  <2>3. QED
    BY <2>1, <2>2, Zenon
<1>3. ASSUME NEW c \in BOOLEAN, doVerify(c) PROVE Reported'
  <2>1. PICK v \in Verdict : reports' = Append(reports, v) /\ verify' = "done"
    BY <1>3, Zenon DEF doVerify, Verdict, Report
  <2>2. /\ reports \in Seq(Report)
        /\ Len(reports) = 0 \/ (Len(reports) = 1 /\ reports[1] = "INVALID_ARGUMENT")
    BY <1>3, Zenon DEF CommandInv, Reported, doVerify
  <2>3. /\ reports' \in Seq(Report) /\ Len(reports') = Len(reports) + 1
        /\ reports'[Len(reports) + 1] = v
        /\ Len(reports) = 1 => reports'[1] = reports[1]
    BY <2>1, <2>2 DEF Verdict
  <2>4. QED
    BY <2>1, <2>2, <2>3 DEF Reported
<1>4. ASSUME NEW e \in Endpoint, CycleStep(e) PROVE Reported'
  BY <1>1, <1>2, <1>4, Zenon
     DEF CycleStep, pollStarts, pollLater, otherCommand, onPollCommandResponse
<1>5. CASE (\E l \in Listener : setListener(l)) \/ UNCHANGED pollVars
  BY <1>1, <1>5, Zenon DEF setListener, pollVars
<1>6. ASSUME NEW hosts \in SUBSET Endpoint, NEW started \in SUBSET hosts,
             routeUpdated(hosts, started)
      PROVE  Reported'
  BY <1>1, <1>6, Zenon DEF routeUpdated
<1>7. QED
  BY <1>3, <1>4, <1>5, <1>6, Zenon DEF PollNext

(* The route table holds endpoints, and the listener is one of Listener. *)
LEMMA TableStep ==
  ASSUME CommandInv, [PollNext]_pollVars
  PROVE  inUse' \subseteq Endpoint /\ listener' \in Listener
  BY Zenon DEF CommandInv, PollNext, CycleStep, pollStarts, pollLater, otherCommand, NextPoll,
         onPollCommandResponse, verifyMessageConsumption, doVerify, setListener, routeUpdated,
         pollVars

(* For any set of endpoints and any number of cycles: every endpoint of    *)
(* the route table has a command cycle, however route updates, failed      *)
(* polls and answers interleave; and a verify command that is done was     *)
(* answered with one verdict, after at most one report of corrupted data.  *)
THEOREM PollCorrect == PollSpec => []PollInv
<1>1. PollInit => CommandInv
  <2> SUFFICES ASSUME PollInit PROVE CommandInv
    BY Zenon
  <2>1. listener \in Listener
    BY PollConstants, Zenon DEF PollInit
  <2>2. Cycled
    BY PollConstants DEF PollInit, Cycled, Cycles, Counts, Zero
  <2>3. QED
    BY <2>1, <2>2 DEF PollInit, CommandInv, Reported
<1>2. CommandInv /\ [PollNext]_pollVars => CommandInv'
  BY CycledStep, ReportedStep, TableStep, Zenon DEF CommandInv
<1>3. CommandInv => PollInv
  <2> SUFFICES ASSUME CommandInv PROVE PollInv
    BY Zenon
  <2>1. \A f \in {starting, polls, delayed, handling} : f \in [Endpoint -> 0 .. MaxCycle + 1]
    BY CountsNat, PollConstants DEF CommandInv, Cycled, Cycles, Counts
  <2>2. reports \in Seq(Report) /\ verify \in {"none", "submitted", "done"}
    BY Zenon DEF CommandInv, Reported
  <2>3. PollTypeOK
    BY <2>1, <2>2, Zenon DEF CommandInv, PollTypeOK, Report
  <2>4. InUseIsPolled
    BY Zenon DEF CommandInv, Cycled, InUseIsPolled
  <2>5. VerifyAnswered
    BY Zenon DEF CommandInv, Reported, Verdict, VerifyAnswered
  <2>6. QED
    BY <2>3, <2>4, <2>5, Zenon DEF PollInv
<1>4. QED
  BY <1>1, <1>2, <1>3, PTL DEF PollSpec

-----------------------------------------------------------------------------
TransactionSpec == TransactionInit /\ [][TransactionNext]_txnVars

(* A call that the broker accepted and that heard of it, or is about to:   *)
(* the resolution it asked for is the broker's.  A call not yet made has   *)
(* nothing.                                                                *)
Truthful(e) ==
  LET r == ender[e] IN
    /\ r.pc \in {"idle", "submitted"} => r.rpc = "none"
    /\ r.success => r.rpc \in {"running", "done"} /\ broker[e[1]] = r.asked
    /\ r.rpc = "queued" /\ ~r.ec => broker[e[1]] = r.asked

(* The inductive invariant. *)
Answers == \A e \in Ender : Truthful(e)

(* The transaction of a call is one of Txn. *)
LEMMA EnderTxn == ASSUME NEW e \in Ender PROVE e[1] \in Txn
  BY TransactionConstants, Zenon

(* A step of one call that leaves the broker alone. *)
LEMMA OneCall ==
  ASSUME TransactionTypeOK, Answers, NEW e \in Ender, NEW r, Set(e, r), UNCHANGED broker,
         Truthful(e)'
  PROVE  Answers'
<1> SUFFICES ASSUME NEW x \in Ender, x # e PROVE Truthful(x)'
  BY Zenon DEF Answers
<1>1. ender'[x] = ender[x]
  BY Zenon DEF Set, TransactionTypeOK
<1>2. QED
  BY <1>1, Zenon DEF Answers, Truthful

(* A step of one call leaves types in order. *)
LEMMA OneCallType ==
  ASSUME TransactionTypeOK, NEW e \in Ender, NEW r \in EnderRecord, Set(e, r),
         broker' \in [Txn -> {"PREPARED"} \cup Resolution], UNCHANGED <<poolUp, producerUp>>
  PROVE  TransactionTypeOK'
  BY Zenon DEF TransactionTypeOK, Set

(* The variables keep their types. *)
LEMMA TransactionTypeStep ==
  TransactionTypeOK /\ [TransactionNext]_txnVars => TransactionTypeOK'
<1> SUFFICES ASSUME TransactionTypeOK, [TransactionNext]_txnVars PROVE TransactionTypeOK'
  BY Zenon
<1>1. CASE UNCHANGED txnVars
  BY <1>1, Zenon DEF txnVars, TransactionTypeOK
<1>2. CASE poolShutsDown
  <2>1. \A e \in Ender : [ender[e] EXCEPT !.rpc = "done"] \in EnderRecord
    BY DEF TransactionTypeOK, EnderRecord
  <2>2. ender' \in [Ender -> EnderRecord]
    BY <1>2, <2>1, Zenon DEF poolShutsDown, TransactionTypeOK
  <2>3. poolUp' \in BOOLEAN
    BY <1>2, Zenon DEF poolShutsDown
  <2>4. QED
    BY <1>2, <2>2, <2>3, Zenon DEF poolShutsDown, TransactionTypeOK
<1>3. CASE producerDestroyed
  BY <1>3, Zenon DEF producerDestroyed, TransactionTypeOK
<1> SUFFICES ASSUME NEW e \in Ender,
                    recoverOrphan(e) \/ EnderStep(e) \/ \E r \in Resolution : endTransaction0(e, r)
             PROVE  TransactionTypeOK'
  BY <1>1, <1>2, <1>3, Zenon DEF TransactionNext
<1>4. ender[e] \in EnderRecord /\ broker \in [Txn -> {"PREPARED"} \cup Resolution]
  BY Zenon DEF TransactionTypeOK
<1>5. CASE recoverOrphan(e)
  <2>1. [ender[e] EXCEPT !.pc = "submitted"] \in EnderRecord
    BY <1>4, Zenon DEF EnderRecord
  <2>2. QED
    BY <1>4, <1>5, <2>1, OneCallType, Zenon DEF recoverOrphan
<1>6. ASSUME NEW r \in Resolution, endTransaction0(e, r) PROVE TransactionTypeOK'
  <2>1. /\ [ender[e] EXCEPT !.pc = "called", !.asked = r, !.rpc = "sent"] \in EnderRecord
        /\ [ender[e] EXCEPT !.pc = "returned", !.asked = r] \in EnderRecord
    BY <1>4, Zenon DEF EnderRecord
  <2>2. QED
    BY <1>4, <1>6, <2>1, OneCallType, Zenon DEF endTransaction0
<1>7. ASSUME NEW s \in Resolution, resolveOrphanedTransactionalMessage(e, s)
      PROVE  TransactionTypeOK'
  <2>1. [ender[e] EXCEPT !.pc = "called", !.asked = s, !.rpc = "sent"] \in EnderRecord
    BY <1>4, Zenon DEF EnderRecord
  <2>2. QED
    BY <1>4, <1>7, <2>1, OneCallType, Zenon DEF resolveOrphanedTransactionalMessage
<1>8. ASSUME NEW h \in BOOLEAN, NEW l \in BOOLEAN, brokerAnswers(e, h, l) PROVE TransactionTypeOK'
  <2>1. broker' \in [Txn -> {"PREPARED"} \cup Resolution]
    <3>1. ender[e].asked \in Resolution
      BY <1>4, Zenon DEF EnderRecord
    <3>2. QED
      BY <1>4, <1>8, <3>1, EnderTxn, Zenon DEF brokerAnswers
  <2>2. PICK c \in {"queued", "done"}, f \in BOOLEAN :
          Set(e, [ender[e] EXCEPT !.rpc = c, !.ec = f])
    BY <1>8, Zenon DEF brokerAnswers
  <2>3. [ender[e] EXCEPT !.rpc = c, !.ec = f] \in EnderRecord
    BY <1>4, Zenon DEF EnderRecord
  <2>4. QED
    BY <1>8, <2>1, <2>2, <2>3, OneCallType, Zenon DEF brokerAnswers
<1>9. CASE callbackSets(e)
  <2>1. PICK f \in BOOLEAN : Set(e, [ender[e] EXCEPT !.rpc = "running", !.success = f])
    BY <1>9, Zenon DEF callbackSets
  <2>2. [ender[e] EXCEPT !.rpc = "running", !.success = f] \in EnderRecord
    BY <1>4, Zenon DEF EnderRecord
  <2>3. QED
    BY <1>4, <1>9, <2>1, <2>2, OneCallType, Zenon DEF callbackSets
<1>10. CASE callbackSignals(e)
  <2>1. /\ [ender[e] EXCEPT !.rpc = "done", !.pc = "returned"] \in EnderRecord
        /\ [ender[e] EXCEPT !.rpc = "done", !.lost = TRUE] \in EnderRecord
    BY <1>4, Zenon DEF EnderRecord
  <2>2. QED
    BY <1>4, <1>10, <2>1, OneCallType, Zenon DEF callbackSignals
<1>11. CASE endTransactionWaits(e)
  <2>1. [ender[e] EXCEPT !.pc = "waiting"] \in EnderRecord
    BY <1>4, Zenon DEF EnderRecord
  <2>2. QED
    BY <1>4, <1>11, <2>1, OneCallType, Zenon DEF endTransactionWaits
<1>12. QED
  BY <1>5, <1>6, <1>7, <1>8, <1>9, <1>10, <1>11, Zenon DEF EnderStep

(* Every step keeps the invariant: what the broker once accepted it keeps, *)
(* whoever asks next.                                                      *)
LEMMA AnswersStep ==
  TransactionTypeOK /\ Answers /\ [TransactionNext]_txnVars => Answers'
<1> SUFFICES ASSUME TransactionTypeOK, Answers, [TransactionNext]_txnVars PROVE Answers'
  BY Zenon
<1>1. CASE UNCHANGED txnVars
  BY <1>1, Zenon DEF txnVars, Answers, Truthful
<1>2. CASE poolShutsDown
  <2> SUFFICES ASSUME NEW e \in Ender PROVE Truthful(e)'
    BY Zenon DEF Answers
  <2>1. Truthful(e)
    BY Zenon DEF Answers
  <2>2. QED
    BY <1>2, <2>1, Zenon DEF poolShutsDown, Truthful, TransactionTypeOK, EnderRecord
<1>3. CASE producerDestroyed
  BY <1>3, Zenon DEF producerDestroyed, Answers, Truthful
<1> SUFFICES ASSUME NEW e \in Ender,
                    recoverOrphan(e) \/ EnderStep(e) \/ \E r \in Resolution : endTransaction0(e, r)
             PROVE  Answers'
  BY <1>1, <1>2, <1>3, Zenon DEF TransactionNext
<1>4. Truthful(e)
  BY Zenon DEF Answers
<1>5. CASE recoverOrphan(e)
  <2>1. Truthful(e)'
    BY <1>4, <1>5, Zenon DEF recoverOrphan, Truthful, TransactionTypeOK, EnderRecord, Set
  <2>2. QED
    BY <1>5, <2>1, OneCall, Zenon DEF recoverOrphan
<1>6. ASSUME NEW r \in Resolution, endTransaction0(e, r) PROVE Answers'
  <2>1. PICK c \in {"called", "returned"}, w \in {"none", "sent"} :
          Set(e, [ender[e] EXCEPT !.pc = c, !.asked = r, !.rpc = w])
    <3>1. CASE producerUp
      BY <1>6, <3>1, Zenon DEF endTransaction0
    <3>2. CASE ~producerUp
      <4>1. ender[e].rpc = "none"
        BY <1>4, <1>6, Zenon DEF endTransaction0, Truthful
      <4>2. [ender[e] EXCEPT !.pc = "returned", !.asked = r]
              = [ender[e] EXCEPT !.pc = "returned", !.asked = r, !.rpc = "none"]
        BY <4>1, Zenon DEF TransactionTypeOK, EnderRecord
      <4>3. QED
        BY <1>6, <3>2, <4>2, Zenon DEF endTransaction0
    <3>3. QED
      BY <3>1, <3>2, Zenon
  <2>2. ~ender[e].success
    BY <1>4, <1>6, Zenon DEF endTransaction0, Truthful
  <2>3. Truthful(e)'
    BY <2>1, <2>2, Zenon DEF Set, Truthful, TransactionTypeOK, EnderRecord
  <2>4. QED
    BY <1>6, <2>1, <2>3, OneCall, Zenon DEF endTransaction0
<1>7. ASSUME NEW s \in Resolution, resolveOrphanedTransactionalMessage(e, s) PROVE Answers'
  <2>1. Truthful(e)'
    BY <1>4, <1>7, Zenon DEF resolveOrphanedTransactionalMessage, Truthful, TransactionTypeOK, EnderRecord, Set
  <2>2. QED
    BY <1>7, <2>1, OneCall, Zenon DEF resolveOrphanedTransactionalMessage
<1>8. ASSUME NEW h \in BOOLEAN, NEW l \in BOOLEAN, brokerAnswers(e, h, l) PROVE Answers'
  <2> SUFFICES ASSUME NEW x \in Ender PROVE Truthful(x)'
    BY Zenon DEF Answers
  <2>1. Truthful(x) /\ x[1] \in Txn /\ e[1] \in Txn
    BY EnderTxn, Zenon DEF Answers
  <2>2. broker[x[1]] \in Resolution => broker'[x[1]] = broker[x[1]]
    BY <1>8, <2>1, Zenon DEF brokerAnswers, TransactionTypeOK, Resolution
  <2>3. CASE x = e
    BY <1>4, <1>8, <2>1, <2>3 DEF brokerAnswers, Truthful, TransactionTypeOK, EnderRecord, Set
  <2>4. CASE x # e
    <3>1. ender'[x] = ender[x] /\ ender[x].asked \in Resolution
      BY <1>8, <2>4, Zenon DEF brokerAnswers, Set, TransactionTypeOK, EnderRecord
    <3>2. QED
      BY <2>1, <2>2, <3>1, Zenon DEF Truthful
  <2>5. QED
    BY <2>3, <2>4, Zenon
<1>9. CASE callbackSets(e)
  <2>1. Truthful(e)'
    BY <1>4, <1>9, Zenon DEF callbackSets, Truthful, TransactionTypeOK, EnderRecord, Set
  <2>2. QED
    BY <1>9, <2>1, OneCall, Zenon DEF callbackSets
<1>10. CASE callbackSignals(e)
  <2>1. Truthful(e)'
    BY <1>4, <1>10, Zenon DEF callbackSignals, Truthful, TransactionTypeOK, EnderRecord, Set
  <2>2. QED
    BY <1>10, <2>1, OneCall, Zenon DEF callbackSignals
<1>11. CASE endTransactionWaits(e)
  <2>1. Truthful(e)'
    BY <1>4, <1>11, Zenon DEF endTransactionWaits, Truthful, TransactionTypeOK, EnderRecord, Set
  <2>2. QED
    BY <1>11, <2>1, OneCall, Zenon DEF endTransactionWaits
<1>12. QED
  BY <1>5, <1>6, <1>7, <1>8, <1>9, <1>10, <1>11, Zenon DEF EnderStep

(* For any transactions, any calls that end them and any pool size: when   *)
(* commit() or rollback() returns true the broker has the resolution the   *)
(* call asked for, whichever way the call raced the broker's check-back,   *)
(* lost answers and the shutdown of the callback pool.                     *)
THEOREM TransactionCorrect == TransactionSpec => []TransactionInv
<1>1. TransactionInit => TransactionTypeOK /\ Answers
  <2> SUFFICES ASSUME TransactionInit PROVE TransactionTypeOK /\ Answers
    BY Zenon
  <2>1. poolUp \in BOOLEAN /\ producerUp \in BOOLEAN
    BY Zenon DEF TransactionInit
  <2>2. TransactionTypeOK
    BY <2>1, Zenon DEF TransactionInit, TransactionTypeOK, EnderRecord, IdleEnder, Resolution
  <2>3. Answers
    BY Zenon DEF TransactionInit, Answers, Truthful, IdleEnder
  <2>4. QED
    BY <2>2, <2>3, Zenon
<1>2. TransactionTypeOK /\ Answers /\ [TransactionNext]_txnVars => TransactionTypeOK' /\ Answers'
  BY TransactionTypeStep, AnswersStep, Zenon
<1>3. TransactionTypeOK /\ Answers => TransactionInv
  BY Zenon DEF TransactionInv, ResolutionHonest, Answers, Truthful
<1>4. QED
  BY <1>1, <1>2, <1>3, PTL DEF TransactionSpec

-----------------------------------------------------------------------------
LifecycleSpec == LifecycleInit /\ [][LifecycleNext]_lifeVars

Base == {"resolver", "manager", "routeTask"}

(* What is true of state_ and the parts between two calls. *)
Rest ==
  \/ lifeState = "CREATED" /\ owns = {}
  \/ lifeState = "STARTING" /\ kind = "pull" /\ owns = Base
  \/ lifeState = "STARTED" /\ kind = "push" /\ owns = Part
  \/ lifeState = "STARTED" /\ kind = "producer" /\ owns = Part \ {"scanTask"}
  \/ lifeState = "STOPPED" /\ kind # "pull" /\ owns = {}

(* ... and when the only call under way has got to point. *)
During(point) ==
  /\ point = "resolver" => lifeState = "STARTING" /\ owns = {}
  /\ point = "base" => lifeState = "STARTING" /\ owns = {"resolver"}
  /\ point = "derived" => (lifeState = "STARTING" /\ owns = Base) \/ (lifeState # "CREATED" /\ Rest)
  /\ point = "observe" => lifeState = "STARTED" /\ kind # "pull" /\ owns = Base
  /\ point = "service" => lifeState = "STARTED" /\ kind = "push" /\ owns = Base \cup {"observer"}
  /\ point = "terminate" /\ kind = "pull" => Rest
  /\ point = "terminate" /\ kind # "pull" =>
       lifeState = "STOPPING" /\ kind = "producer" /\ owns = Part \ {"scanTask"}
  /\ point = "scan" => lifeState = "STOPPING" /\ kind = "push" /\ owns = Part
  /\ point = "stop" /\ kind = "pull" => Rest
  /\ point = "stop" /\ kind # "pull" => lifeState = "STOPPING" /\ owns = Part \ {"scanTask"}
  /\ point = "reset" =>
       lifeState = "STOPPED" /\ kind # "pull" /\ owns = {"manager", "routeTask", "observer"}

(* The inductive invariant: the calls that never overlapped are one at a   *)
(* time, and the state tells what runs at every point of them.             *)
CallsInv ==
  /\ uses = 0 => lifeState = "CREATED" /\ owns = {} /\ \A t \in Thread : at[t] = "idle"
  /\ nullUse => overlapped
  /\ ~overlapped =>
       /\ \A t, u \in Thread : at[t] # "idle" /\ at[u] # "idle" => t = u
       /\ (\A t \in Thread : at[t] = "idle") => Rest
       /\ \A t \in Thread : During(at[t])

(* The variables keep their types. *)
LEMMA LifecycleTypeStep ==
  LifecycleTypeOK /\ [LifecycleNext]_lifeVars => LifecycleTypeOK'
<1> SUFFICES ASSUME LifecycleTypeOK, [LifecycleNext]_lifeVars PROVE LifecycleTypeOK'
  BY Zenon
<1> USE LifecycleConstants DEF LifecycleTypeOK, Go, Begin, UseManager, Part, Client
<1>1. CASE UNCHANGED lifeVars
  BY <1>1, Zenon DEF lifeVars
<1>2. ASSUME NEW k \in Client, construct(k) PROVE LifecycleTypeOK'
  BY <1>2, Zenon DEF construct
<1>3. ASSUME NEW t \in Thread, clientStart(t) PROVE LifecycleTypeOK'
  BY <1>3 DEF clientStart
<1>4. ASSUME NEW t \in Thread, startResolver(t) \/ startManager(t) PROVE LifecycleTypeOK'
  BY <1>4, Zenon DEF startResolver, startManager
<1>5. ASSUME NEW t \in Thread, derivedStart(t) PROVE LifecycleTypeOK'
  BY <1>5, Zenon DEF derivedStart
<1>6. ASSUME NEW t \in Thread, addClientObserver(t) \/ startService(t) PROVE LifecycleTypeOK'
  BY <1>6, Zenon DEF addClientObserver, startService
<1>7. ASSUME NEW t \in Thread, clientShutdown(t) PROVE LifecycleTypeOK'
  BY <1>7 DEF clientShutdown
<1>8. ASSUME NEW t \in Thread, notifyTermination(t) \/ cancelScan(t) PROVE LifecycleTypeOK'
  BY <1>8, Zenon DEF notifyTermination, cancelScan
<1>9. ASSUME NEW t \in Thread, clientImplShutdown(t) \/ resetClientManager(t)
      PROVE LifecycleTypeOK'
  BY <1>9, Zenon DEF clientImplShutdown, resetClientManager
<1>10. QED
  BY <1>1, <1>2, <1>3, <1>4, <1>5, <1>6, <1>7, <1>8, <1>9, Zenon DEF LifecycleNext, LifeStep

(* A step of the one call under way keeps the description of it: the other *)
(* threads stay idle.                                                      *)
LEMMA OnlyCallMoves ==
  ASSUME LifecycleTypeOK, NEW t \in Thread, NEW point, Go(t, point), at[t] # "idle",
         \A x, u \in Thread : at[x] # "idle" /\ at[u] # "idle" => x = u
  PROVE  /\ \A u \in Thread : at'[u] = IF u = t THEN point ELSE "idle"
         /\ at'[t] = point
BY Zenon DEF LifecycleTypeOK, Go

(* The description follows for a call that got to point or returned. *)
LEMMA OnlyCall ==
  ASSUME NEW t \in Thread, NEW point,
         \A u \in Thread : at'[u] = IF u = t THEN point ELSE "idle",
         point = "idle" => Rest', During(point)'
  PROVE  /\ \A x, u \in Thread : at'[x] # "idle" /\ at'[u] # "idle" => x = u
         /\ (\A u \in Thread : at'[u] = "idle") => Rest'
         /\ \A u \in Thread : During(at[u])'
<1>1. During("idle")'
  BY Zenon DEF During
<1>2. QED
  BY <1>1, Zenon

(* So the invariant is kept by a step of a call that leaves the manager    *)
(* alone or uses it while it is there.                                     *)
LEMMA MovesOn ==
  ASSUME LifecycleTypeOK, CallsInv, NEW t \in Thread, NEW point, Go(t, point), at[t] # "idle",
         UNCHANGED <<uses, overlapped>>,
         ~overlapped => ~nullUse' /\ (point = "idle" => Rest') /\ During(point)'
  PROVE  CallsInv'
<1>1. uses' # 0
  BY Zenon DEF CallsInv
<1>2. CASE overlapped
  BY <1>1, <1>2, Zenon DEF CallsInv
<1>3. CASE ~overlapped
  <2>1. \A u \in Thread : at'[u] = IF u = t THEN point ELSE "idle"
    BY <1>3, OnlyCallMoves, Zenon DEF CallsInv
  <2>2. /\ \A x, u \in Thread : at'[x] # "idle" /\ at'[u] # "idle" => x = u
        /\ (\A u \in Thread : at'[u] = "idle") => Rest'
        /\ \A u \in Thread : During(at[u])'
    BY <1>3, <2>1, OnlyCall, Zenon
  <2>3. QED
    BY <1>1, <1>3, <2>2, Zenon DEF CallsInv
<1>4. QED
  BY <1>2, <1>3, Zenon

(* A call begins: if nothing overlaps, it is the only one. *)
LEMMA BeginsAlone ==
  ASSUME LifecycleTypeOK, CallsInv, NEW t \in Thread, NEW point, Begin(t), Go(t, point), ~nullUse,
         UNCHANGED nullUse,
         ~overlapped /\ Rest => (point = "idle" => Rest') /\ During(point)'
  PROVE  CallsInv'
<1>1. uses' # 0
  BY LifecycleConstants DEF Begin, LifecycleTypeOK
<1>2. CASE overlapped'
  BY <1>1, <1>2, Zenon DEF CallsInv
<1>3. CASE ~overlapped'
  <2>1. ~overlapped /\ \A u \in Thread : at[u] = "idle"
    BY <1>3, Zenon DEF Begin
  <2>2. \A u \in Thread : at'[u] = IF u = t THEN point ELSE "idle"
    BY <2>1, Zenon DEF Go, LifecycleTypeOK
  <2>3. Rest
    BY <2>1, Zenon DEF CallsInv
  <2>4. /\ \A x, u \in Thread : at'[x] # "idle" /\ at'[u] # "idle" => x = u
        /\ (\A u \in Thread : at'[u] = "idle") => Rest'
        /\ \A u \in Thread : During(at[u])'
    BY <2>1, <2>2, <2>3, OnlyCall, Zenon
  <2>5. QED
    BY <1>1, <1>3, <2>4, Zenon DEF CallsInv
<1>4. QED
  BY <1>2, <1>3, Zenon

(* Every step keeps the invariant. *)
LEMMA CallsStep ==
  LifecycleTypeOK /\ CallsInv /\ [LifecycleNext]_lifeVars => CallsInv'
<1> SUFFICES ASSUME LifecycleTypeOK, CallsInv, [LifecycleNext]_lifeVars PROVE CallsInv'
  BY Zenon
<1>1. CASE UNCHANGED lifeVars
  BY <1>1 DEF lifeVars, CallsInv, Rest, During
<1>2. ASSUME NEW k \in Client, construct(k) PROVE CallsInv'
  BY <1>2, Zenon DEF construct, CallsInv, Rest, During
<1> SUFFICES ASSUME ~nullUse, NEW t \in Thread, LifeStep(t) PROVE CallsInv'
  BY <1>1, <1>2, Zenon DEF LifecycleNext
<1>3. ~overlapped => During(at[t])
  BY Zenon DEF CallsInv
<1> USE DEF Rest, During, Base, Part
<1>4. CASE clientStart(t)
  <2>1. CASE lifeState = "CREATED"
    BY <1>4, <2>1, BeginsAlone, Zenon DEF clientStart
  <2>2. CASE lifeState # "CREATED"
    BY <1>4, <2>2, BeginsAlone, Zenon DEF clientStart
  <2>3. QED
    BY <2>1, <2>2, Zenon
<1>5. CASE startResolver(t)
  BY <1>3, <1>5, MovesOn, Zenon DEF startResolver
<1>6. CASE startManager(t)
  BY <1>3, <1>6, MovesOn, Zenon DEF startManager
<1>7. CASE derivedStart(t)
  <2>1. CASE kind # "pull" /\ lifeState = "STARTING"
    BY <1>3, <1>7, <2>1, MovesOn, Zenon DEF derivedStart
  <2>2. CASE kind = "pull" /\ lifeState = "STARTED"
    BY <1>3, <1>7, <2>2, MovesOn, Zenon DEF derivedStart
  <2>3. CASE ~(kind # "pull" /\ lifeState = "STARTING") /\ ~(kind = "pull" /\ lifeState = "STARTED")
    BY <1>3, <1>7, <2>3, MovesOn, Zenon DEF derivedStart, LifecycleTypeOK, Client
  <2>4. QED
    BY <2>1, <2>2, <2>3, Zenon
<1>8. CASE addClientObserver(t)
  <2>1. CASE kind = "push"
    BY <1>3, <1>8, <2>1, MovesOn, Zenon DEF addClientObserver, UseManager
  <2>2. CASE kind # "push"
    BY <1>3, <1>8, <2>2, MovesOn, Zenon DEF addClientObserver, UseManager, LifecycleTypeOK, Client
  <2>3. QED
    BY <2>1, <2>2, Zenon
<1>9. CASE startService(t)
  BY <1>3, <1>9, MovesOn, Zenon DEF startService, UseManager
<1>10. CASE clientShutdown(t)
  <2>1. CASE kind = "pull"
    BY <1>10, <2>1, BeginsAlone, Zenon DEF clientShutdown
  <2>2. CASE kind # "pull" /\ lifeState # "STARTED"
    BY <1>10, <2>2, BeginsAlone, Zenon DEF clientShutdown
  <2>3. CASE kind = "producer" /\ lifeState = "STARTED"
    BY <1>10, <2>3, BeginsAlone, Zenon DEF clientShutdown
  <2>4. CASE kind = "push" /\ lifeState = "STARTED"
    BY <1>10, <2>4, BeginsAlone, Zenon DEF clientShutdown
  <2>5. QED
    BY <2>1, <2>2, <2>3, <2>4, Zenon DEF LifecycleTypeOK, Client
<1>11. CASE notifyTermination(t)
  BY <1>3, <1>11, MovesOn, Zenon DEF notifyTermination
<1>12. CASE cancelScan(t)
  BY <1>3, <1>12, MovesOn, Zenon DEF cancelScan, UseManager
<1>13. CASE clientImplShutdown(t)
  <2>1. CASE lifeState = "STOPPING"
    BY <1>3, <1>13, <2>1, MovesOn, Zenon DEF clientImplShutdown
  <2>2. CASE lifeState # "STOPPING"
    BY <1>3, <1>13, <2>2, MovesOn, Zenon DEF clientImplShutdown
  <2>3. QED
    BY <2>1, <2>2, Zenon
<1>14. CASE resetClientManager(t)
  BY <1>3, <1>14, MovesOn, Zenon DEF resetClientManager, UseManager
<1>15. QED
  BY <1>4, <1>5, <1>6, <1>7, <1>8, <1>9, <1>10, <1>11, <1>12, <1>13, <1>14, Zenon DEF LifeStep

(* The invariant tells what the application may rely on between calls. *)
LEMMA CallsInvImplies ==
  LifecycleTypeOK /\ CallsInv => LifecycleInv
<1> SUFFICES ASSUME LifecycleTypeOK, CallsInv PROVE LifecycleInv
  BY Zenon
<1>1. NullUseOnlyIfOverlapped
  BY Zenon DEF CallsInv, NullUseOnlyIfOverlapped
<1>2. ASSUME ~overlapped, \A t \in Thread : at[t] = "idle" PROVE StateTellsOwned
  <2>1. Rest
    BY <1>2, Zenon DEF CallsInv
  <2>2. CASE lifeState = "CREATED"
    BY <2>1, <2>2, Zenon DEF Rest, StateTellsOwned
  <2>3. CASE lifeState = "STARTING"
    BY <2>1, <2>3, Zenon DEF Rest, Base, StateTellsOwned
  <2>4. CASE lifeState = "STARTED"
    BY <2>1, <2>4, Zenon DEF Rest, StateTellsOwned
  <2>5. CASE lifeState = "STOPPED"
    BY <2>1, <2>5, Zenon DEF Rest, StateTellsOwned
  <2>6. QED
    BY <2>1, <2>2, <2>3, <2>4, <2>5, Zenon DEF Rest
<1>3. QED
  BY <1>1, <1>2, Zenon DEF LifecycleInv, StateTellsOwned

(* For any set of threads and any number of calls: as long as the calls of *)
(* start and shutdown of ClientImpl and the class derived from it do not   *)
(* overlap, client_manager_ is never used while null, and between calls    *)
(* state_ tells exactly which parts run.                                   *)
THEOREM LifecycleCorrect == LifecycleSpec => []LifecycleInv
<1>1. LifecycleInit => LifecycleTypeOK /\ CallsInv
  <2> SUFFICES ASSUME LifecycleInit PROVE LifecycleTypeOK /\ CallsInv
    BY Zenon
  <2>1. LifecycleTypeOK
    <3>1. overlapped \in BOOLEAN /\ nullUse \in BOOLEAN
      BY Zenon DEF LifecycleInit
    <3>2. uses \in 0 .. MaxUse
      BY LifecycleConstants DEF LifecycleInit
    <3>3. QED
      BY <3>1, <3>2, Zenon DEF LifecycleInit, LifecycleTypeOK, Client
  <2>2. (\A t \in Thread : at[t] = "idle") /\ lifeState = "CREATED" /\ owns = {}
    BY Zenon DEF LifecycleInit
  <2>3. ~nullUse
    BY Zenon DEF LifecycleInit
  <2>4. Rest /\ \A t \in Thread : During(at[t])
    BY <2>2, Zenon DEF Rest, During
  <2>5. CallsInv
    BY <2>2, <2>3, <2>4, Zenon DEF CallsInv
  <2>6. QED
    BY <2>1, <2>5, Zenon
<1>2. LifecycleTypeOK /\ CallsInv /\ [LifecycleNext]_lifeVars => LifecycleTypeOK' /\ CallsInv'
  BY LifecycleTypeStep, CallsStep, Zenon
<1>3. LifecycleTypeOK /\ CallsInv => LifecycleInv
  BY CallsInvImplies, Zenon
<1>4. QED
  BY <1>1, <1>2, <1>3, PTL DEF LifecycleSpec

-----------------------------------------------------------------------------
BroadcastSpec == BroadcastInit /\ [][BroadcastNext]_broadcastVars

(* Offset b may come after offset a. *)
Follows(a, b) == b = a + 1 \/ (failedPull /\ b = 0)

(* The last message handled, the deque and the next offset are a chain. *)
Linked ==
  /\ \A i \in 1 .. Len(deque) - 1 : Follows(deque[i], deque[i + 1])
  /\ deque # <<>> =>
       /\ nextOffset >= 0 /\ Follows(deque[Len(deque)], nextOffset)
       /\ handled >= 0 => Follows(handled, deque[1])
  /\ deque = <<>> /\ handled >= 0 => nextOffset >= 0 /\ Follows(handled, nextOffset)

(* The inductive invariant: a process queue is empty until its first       *)
(* offset is known, and a pull is under way only below the quota.          *)
BroadcastChain ==
  /\ BroadcastTypeOK /\ Linked
  /\ cachedCount = Len(deque) + IF worker = "handle" THEN 1 ELSE 0
  /\ nextOffset <= maxOffset
  /\ cycle \in {"new", "query"} =>
       deque = <<>> /\ cachedCount = 0 /\ handled = -1 /\ nextOffset = -1
  /\ cycle \in {"pull", "later"} => nextOffset >= 0
  /\ cycle = "pull" => cachedCount < MaxCachedQuantity

LEMMA ChainImplies == BroadcastChain => BroadcastInv
<1> SUFFICES ASSUME BroadcastChain
             PROVE  \A i \in 1 .. Len(Pipeline) - 1 : Follows(Pipeline[i], Pipeline[i + 1])
  BY Zenon DEF BroadcastChain, BroadcastInv, Follows
<1>1. deque \in Seq(0 .. MaxOffset) /\ Len(deque) \in Nat /\ handled \in Int /\ nextOffset \in Int
  BY BroadcastConstants DEF BroadcastChain, BroadcastTypeOK
<1>2. CASE nextOffset < 0
  <2>1. deque = <<>> /\ ~(handled >= 0)
    BY <1>1, <1>2 DEF BroadcastChain, Linked
  <2>2. Pipeline = <<>>
    BY <1>1, <1>2, <2>1 DEF Pipeline
  <2> QED BY <2>2
<1>3. CASE nextOffset >= 0 /\ ~(handled >= 0)
  <2> DEFINE P == deque \o <<nextOffset>>
  <2>1. Pipeline = P
    BY <1>1, <1>3 DEF Pipeline
  <2>2. /\ Len(P) = Len(deque) + 1 /\ P[Len(deque) + 1] = nextOffset
        /\ \A i \in 1 .. Len(deque) : P[i] = deque[i]
    BY <1>1
  <2> HIDE DEF P
  <2> SUFFICES ASSUME NEW i \in 1 .. Len(deque) PROVE Follows(P[i], P[i + 1])
    BY <1>1, <2>1, <2>2
  <2>3. CASE i = Len(deque)
    <3>1. deque # <<>> /\ P[i] = deque[i] /\ P[i + 1] = nextOffset
      BY <1>1, <2>2, <2>3
    <3> QED BY <2>3, <3>1, Zenon DEF BroadcastChain, Linked
  <2>4. CASE i # Len(deque)
    <3>1. i \in 1 .. Len(deque) - 1 /\ i + 1 \in 1 .. Len(deque)
      BY <1>1, <2>4
    <3> QED BY <2>2, <3>1, Zenon DEF BroadcastChain, Linked
  <2> QED BY <2>3, <2>4, Zenon
<1>4. CASE nextOffset >= 0 /\ handled >= 0
  <2> DEFINE P == <<handled>> \o deque \o <<nextOffset>>
  <2>1. Pipeline = P
    BY <1>4, Zenon DEF Pipeline
  <2>2. /\ Len(P) = Len(deque) + 2 /\ P[1] = handled /\ P[Len(deque) + 2] = nextOffset
        /\ \A i \in 1 .. Len(deque) : P[i + 1] = deque[i]
    BY <1>1
  <2> HIDE DEF P
  <2> SUFFICES ASSUME NEW i \in 0 .. Len(deque) PROVE Follows(P[i + 1], P[i + 2])
    <3>1. ASSUME NEW j \in 1 .. Len(deque) + 1
          PROVE  j - 1 \in 0 .. Len(deque) /\ (j - 1) + 1 = j /\ (j - 1) + 2 = j + 1
      BY <1>1
    <3>2. Len(Pipeline) - 1 = Len(deque) + 1
      BY <1>1, <2>1, <2>2
    <3> QED BY <2>1, <3>1, <3>2, Zenon
  <2>3. CASE i = 0
    <3>1. P[i + 1] = handled /\ i + 2 = 2
      BY <2>2, <2>3
    <3>2. CASE deque = <<>>
      <4>1. Len(deque) + 2 = 2
        BY <3>2
      <4> QED BY <1>4, <2>2, <3>1, <3>2, <4>1, Zenon DEF BroadcastChain, Linked
    <3>3. CASE deque # <<>>
      <4>1. 1 \in 1 .. Len(deque) /\ 1 + 1 = 2
        BY <1>1, <3>3
      <4> QED BY <1>4, <2>2, <3>1, <3>3, <4>1, Zenon DEF BroadcastChain, Linked
    <3> QED BY <3>2, <3>3, Zenon
  <2>4. CASE i \in 1 .. Len(deque) - 1
    <3>1. i \in 1 .. Len(deque) /\ i + 1 \in 1 .. Len(deque) /\ (i + 1) + 1 = i + 2
      BY <1>1, <2>4
    <3> QED BY <2>2, <2>4, <3>1, Zenon DEF BroadcastChain, Linked
  <2>5. CASE i = Len(deque) /\ i # 0
    <3>1. i \in 1 .. Len(deque) /\ deque # <<>>
      BY <1>1, <2>5
    <3> QED BY <2>2, <2>5, <3>1, Zenon DEF BroadcastChain, Linked
  <2> QED BY <1>1, <2>3, <2>4, <2>5
<1> QED BY <1>1, <1>2, <1>3, <1>4

(* A process queue that is new. *)
LEMMA NewQueue ==
  ASSUME NEW d, d = <<>>
  PROVE  /\ d \in Seq(0 .. MaxOffset) /\ Len(d) = 0
         /\ Len(d) <= MaxCachedQuantity + BatchSize /\ 0 = Len(d) + 0
         /\ 0 \in 0 .. MaxCachedQuantity + BatchSize /\ 0 \in 0 .. MaxOffset
         /\ -1 \in -1 .. MaxOffset /\ ~(-1 >= 0) /\ 0 \in 0 .. 2
         /\ \A m \in 0 .. MaxOffset : -1 <= m
         /\ \A i \in 1 .. Len(d) - 1 : FALSE
<1>1. MaxOffset \in Nat /\ BatchSize \in Nat /\ MaxCachedQuantity \in Nat
  BY BroadcastConstants, Zenon
<1>2. Len(d) = 0 /\ d \in Seq(0 .. MaxOffset)
  OBVIOUS
<1> QED BY <1>1, <1>2

(* A batch of n messages joins the deque. *)
LEMMA PullKeeps ==
  ASSUME BroadcastChain, onPull
  PROVE  BroadcastChain'
<1> DEFINE n == Least(BatchSize, maxOffset - nextOffset)
           batch == [i \in 1 .. n |-> nextOffset + i - 1]
<1>1. /\ cycle = "pull" /\ taskQueued < 2 /\ nextOffset' = nextOffset + n /\ Dispatch(batch)
      /\ UNCHANGED <<maxOffset, worker, handled, failedPull>>
  BY Zenon DEF onPull
<1>2. /\ deque \in Seq(0 .. MaxOffset) /\ Len(deque) \in Nat /\ BatchSize \in Nat \ {0}
      /\ MaxCachedQuantity \in Nat \ {0} /\ MaxOffset \in Nat /\ maxOffset \in 0 .. MaxOffset
      /\ nextOffset \in 0 .. maxOffset /\ cachedCount \in Nat /\ cachedCount < MaxCachedQuantity
      /\ Len(deque) <= cachedCount /\ taskQueued \in 0 .. 2 /\ handled \in Int
  BY <1>1, BroadcastConstants DEF BroadcastChain, BroadcastTypeOK
<1>3. n \in 0 .. BatchSize /\ nextOffset + n <= maxOffset
  BY <1>2 DEF Least
<1> HIDE DEF n
<1>4. batch \in Seq(0 .. MaxOffset) /\ Len(batch) = n /\ \A i \in 1 .. n : batch[i] = nextOffset + i - 1
  <2>1. \A i \in 1 .. n : nextOffset + i - 1 \in 0 .. MaxOffset
    BY <1>2, <1>3
  <2> QED BY <1>3, <2>1
<1> HIDE DEF batch
<1>5. /\ deque' = deque \o batch /\ cachedCount' = cachedCount + n
      /\ taskQueued' \in {taskQueued, taskQueued + 1}
      /\ cycle' = IF Throttled(cachedCount + n) THEN "later" ELSE "pull"
  BY <1>1, <1>4, Zenon DEF Dispatch
<1>6. /\ deque' \in Seq(0 .. MaxOffset) /\ Len(deque') = Len(deque) + n
      /\ \A i \in 1 .. Len(deque) : deque'[i] = deque[i]
      /\ \A i \in 1 .. n : deque'[Len(deque) + i] = nextOffset + i - 1
  BY <1>2, <1>3, <1>4, <1>5
<1>7. BroadcastTypeOK'
  BY <1>1, <1>2, <1>3, <1>5, <1>6 DEF BroadcastChain, BroadcastTypeOK
<1>8. Linked'
  <2>1. CASE n = 0
    <3>1. deque' = deque /\ nextOffset' = nextOffset
      BY <1>1, <1>2, <1>5, <1>6, <1>4, <2>1
    <3> QED BY <1>1, <3>1, Zenon DEF BroadcastChain, Linked, Follows
  <2>2. CASE n # 0
    <3>1. deque' # <<>> /\ deque'[Len(deque')] = nextOffset + n - 1
      <4>1. Len(deque) + n = Len(deque') /\ n \in 1 .. n
        BY <1>3, <1>6, <2>2
      <4>2. deque'[Len(deque')] = nextOffset + n - 1
        BY <1>6, <4>1, Zenon
      <4> QED BY <1>2, <1>3, <1>6, <2>2, <4>2
    <3>2. \A i \in 1 .. Len(deque') - 1 : Follows(deque'[i], deque'[i + 1])
      <4> SUFFICES ASSUME NEW i \in 1 .. Len(deque') - 1 PROVE Follows(deque'[i], deque'[i + 1])
        BY Zenon
      <4>1. CASE i < Len(deque)
        <5>1. i \in 1 .. Len(deque) - 1 /\ i \in 1 .. Len(deque) /\ i + 1 \in 1 .. Len(deque)
          BY <1>2, <4>1
        <5> QED BY <1>6, <5>1, Zenon DEF BroadcastChain, Linked
      <4>2. CASE i = Len(deque)
        <5>1. i \in 1 .. Len(deque) /\ 1 \in 1 .. n /\ deque # <<>>
          BY <1>2, <1>3, <4>2, <2>2
        <5>2. deque'[i] = deque[Len(deque)] /\ deque'[i + 1] = nextOffset + 1 - 1
          BY <1>6, <4>2, <5>1, Zenon
        <5>3. nextOffset + 1 - 1 = nextOffset
          BY <1>2
        <5> QED BY <5>1, <5>2, <5>3, Zenon DEF BroadcastChain, Linked
      <4>3. CASE i > Len(deque)
        <5> DEFINE k == i - Len(deque)
        <5>1. /\ k \in 1 .. n /\ k + 1 \in 1 .. n /\ i = Len(deque) + k
              /\ i + 1 = Len(deque) + (k + 1)
          BY <1>2, <1>3, <1>6, <4>3
        <5>2. deque'[i] = nextOffset + k - 1 /\ deque'[i + 1] = nextOffset + (k + 1) - 1
          BY <1>6, <5>1, Zenon
        <5> HIDE DEF k
        <5> QED BY <1>2, <5>1, <5>2 DEF Follows
      <4> QED BY <1>2, <1>6, <4>1, <4>2, <4>3
    <3>3. handled >= 0 => Follows(handled, deque'[1])
      <4>1. CASE deque = <<>>
        <5>1. 1 \in 1 .. n /\ nextOffset + 1 - 1 = nextOffset /\ Len(deque) + 1 = 1
          BY <1>2, <1>3, <2>2, <4>1
        <5>2. deque'[1] = nextOffset
          BY <1>6, <5>1, Zenon
        <5> QED BY <4>1, <5>2, Zenon DEF BroadcastChain, Linked
      <4>2. CASE deque # <<>>
        <5>1. 1 \in 1 .. Len(deque)
          BY <1>2, <4>2
        <5> QED BY <1>6, <4>2, <5>1, Zenon DEF BroadcastChain, Linked
      <4> QED BY <4>1, <4>2, Zenon
    <3>4. nextOffset' >= 0 /\ Follows(deque'[Len(deque')], nextOffset')
      BY <1>1, <1>2, <1>3, <3>1 DEF Follows
    <3> QED BY <1>1, <3>1, <3>2, <3>3, <3>4, Zenon DEF Linked, Follows
  <2> QED BY <2>1, <2>2, Zenon
<1>9. /\ nextOffset' <= maxOffset' /\ nextOffset' >= 0 /\ cycle' \in {"pull", "later"}
      /\ cycle' = "pull" => cachedCount' < MaxCachedQuantity
      /\ cachedCount' = Len(deque') + IF worker' = "handle" THEN 1 ELSE 0
  <2>1. cachedCount = Len(deque) + IF worker = "handle" THEN 1 ELSE 0
    BY Zenon DEF BroadcastChain
  <2>2. Len(deque') = Len(deque) + n
    BY <1>6, Zenon
  <2>3. nextOffset' <= maxOffset' /\ nextOffset' >= 0
    BY <1>1, <1>2, <1>3
  <2>4. cachedCount' = Len(deque') + IF worker' = "handle" THEN 1 ELSE 0
    BY <1>1, <1>2, <1>3, <1>5, <2>1, <2>2
  <2>5. cycle' \in {"pull", "later"} /\ (cycle' = "pull" => cachedCount' < MaxCachedQuantity)
    BY <1>2, <1>3, <1>5 DEF Throttled
  <2> QED BY <2>3, <2>4, <2>5, Zenon
<1> QED BY <1>7, <1>8, <1>9, Zenon DEF BroadcastChain

(* A message moves from the deque to the listener. *)
LEMMA DequeueKeeps ==
  ASSUME BroadcastChain, dequeBroadcastMessage
  PROVE  BroadcastChain'
<1>1. /\ worker = "loop" /\ UNCHANGED <<maxOffset, nextOffset, cycle, cachedCount, taskQueued, failedPull>>
      /\ deque \in Seq(0 .. MaxOffset) /\ BroadcastTypeOK /\ cachedCount = Len(deque)
      /\ MaxOffset \in Nat /\ Len(deque) \in Nat
  BY BroadcastConstants DEF dequeBroadcastMessage, BroadcastChain, BroadcastTypeOK
<1>2. CASE deque = <<>>
  <2>1. worker' = "leave" /\ UNCHANGED <<deque, handled>>
    BY <1>2, Zenon DEF dequeBroadcastMessage
  <2> QED BY <1>1, <2>1, Zenon DEF BroadcastChain, BroadcastTypeOK, Linked, Follows
<1>3. CASE deque # <<>>
  <2>1. worker' = "handle" /\ handled' = deque[1] /\ deque' = Tail(deque)
    BY <1>3 DEF dequeBroadcastMessage
  <2>2. /\ deque' \in Seq(0 .. MaxOffset) /\ Len(deque') = Len(deque) - 1 /\ handled' \in 0 .. MaxOffset
        /\ \A i \in 1 .. Len(deque) - 1 : deque'[i] = deque[i + 1]
    BY <1>1, <1>3, <2>1
  <2>3. BroadcastTypeOK'
    BY <1>1, <2>1, <2>2, BroadcastConstants DEF BroadcastTypeOK
  <2>4. Linked'
    <3>1. \A i \in 1 .. Len(deque') - 1 : Follows(deque'[i], deque'[i + 1])
      <4> SUFFICES ASSUME NEW i \in 1 .. Len(deque') - 1 PROVE Follows(deque'[i], deque'[i + 1])
        BY Zenon
      <4>1. i \in 1 .. Len(deque) - 1 /\ i + 1 \in 1 .. Len(deque) - 1
        BY <1>1, <2>2
      <4> QED BY <2>2, <4>1, Zenon DEF BroadcastChain, Linked
    <3>2. nextOffset >= 0 /\ Follows(deque[Len(deque)], nextOffset)
      BY <1>3, Zenon DEF BroadcastChain, Linked
    <3>3. CASE deque' = <<>>
      <4>1. Len(deque') = 0 /\ Len(deque') = Len(deque) - 1
        BY <2>2, <3>3, Zenon
      <4>2. Len(deque) = 1
        <5>1. \A n \in Nat : n - 1 = 0 => n = 1
          OBVIOUS
        <5> QED BY <1>1, <4>1, <5>1, Zenon
      <4> QED BY <1>1, <2>1, <3>1, <3>2, <3>3, <4>2, Zenon DEF Linked, Follows
    <3>4. CASE deque' # <<>>
      <4>1. /\ 1 \in 1 .. Len(deque) - 1 /\ Len(deque') \in 1 .. Len(deque) - 1
            /\ Len(deque') + 1 = Len(deque)
        BY <1>1, <2>2, <3>4
      <4>2. deque'[Len(deque')] = deque[Len(deque)] /\ Follows(deque[1], deque'[1])
        BY <2>2, <4>1, Zenon DEF BroadcastChain, Linked
      <4> QED BY <1>1, <2>1, <3>1, <3>2, <3>4, <4>2, Zenon DEF Linked, Follows
    <3> QED BY <3>3, <3>4, Zenon
  <2> QED BY <1>1, <1>3, <2>1, <2>2, <2>3, <2>4 DEF BroadcastChain
<1> QED BY <1>2, <1>3, Zenon

(* A new process queue takes the place of one that expired. *)
LEMMA ExpiryKeeps ==
  ASSUME BroadcastChain, processQueueExpires
  PROVE  BroadcastChain'
<1>1. /\ deque' = <<>> /\ nextOffset' = -1 /\ cycle' = "new" /\ cachedCount' = 0 /\ taskQueued' = 0
      /\ handled' = -1 /\ failedPull' = FALSE /\ worker' = "idle" /\ maxOffset' \in 0 .. MaxOffset
  BY Zenon DEF processQueueExpires, BroadcastChain, BroadcastTypeOK
<1>2. /\ deque' \in Seq(0 .. MaxOffset) /\ Len(deque') = 0
      /\ Len(deque') <= MaxCachedQuantity + BatchSize
      /\ 0 \in 0 .. MaxCachedQuantity + BatchSize
      /\ -1 \in -1 .. MaxOffset /\ ~(-1 >= 0) /\ 0 \in 0 .. 2
      /\ \A i \in 1 .. Len(deque') - 1 : FALSE
  BY <1>1, NewQueue, Zenon
<1>3. BroadcastTypeOK'
  BY <1>1, <1>2, Zenon DEF BroadcastTypeOK
<1>4. Linked'
  BY <1>1, <1>2, Zenon DEF Linked, Follows
<1> QED BY <1>1, <1>2, <1>3, <1>4 DEF BroadcastChain

(* Every other step leaves the deque alone, or empties it. *)
LEMMA OthersKeep ==
  ASSUME BroadcastChain,
         \/ brokerStores \/ onPullGarbled \/ CycleProgress
         \/ processBegins \/ listenerReturns \/ processEnds
         \/ \E o \in 0 .. MaxOffset : onPullFailed(o)
  PROVE  BroadcastChain'
<1>1. /\ MaxOffset \in Nat /\ BatchSize \in Nat \ {0} /\ MaxCachedQuantity \in Nat \ {0}
      /\ Len(deque) \in Nat
  BY BroadcastConstants DEF BroadcastChain, BroadcastTypeOK
<1> USE DEF BroadcastChain, BroadcastTypeOK, Linked, Follows
<1>2. CASE brokerStores
  BY <1>1, <1>2 DEF brokerStores
<1>3. CASE onPullGarbled
  BY <1>1, <1>3, Zenon DEF onPullGarbled
<1>4. CASE startReceiving
  BY <1>1, <1>4 DEF startReceiving
<1>5. CASE checkThrottleThenReceive
  BY <1>1, <1>5 DEF checkThrottleThenReceive, Throttled
<1>6. CASE processQueueExpires
  BY <1>6, ExpiryKeeps, Zenon
<1>7. ASSUME NEW ok \in BOOLEAN, onQueryOffset(ok) PROVE BroadcastChain'
  <2>1. CASE ok
    BY <1>1, <1>7, <2>1 DEF onQueryOffset
  <2>2. CASE ~ok
    BY <1>1, <1>7, <2>2, Zenon DEF onQueryOffset
  <2> QED BY <2>1, <2>2, Zenon
<1>8. CASE processBegins
  BY <1>1, <1>8 DEF processBegins, runnable
<1>9. CASE listenerReturns
  BY <1>1, <1>9 DEF listenerReturns
<1>10. CASE processEnds
  BY <1>1, <1>10, Zenon DEF processEnds
<1>11. ASSUME NEW o \in 0 .. MaxOffset, onPullFailed(o) PROVE BroadcastChain'
  BY <1>1, <1>11 DEF onPullFailed
<1> QED BY <1>2, <1>3, <1>4, <1>5, <1>6, <1>7, <1>8, <1>9, <1>10, <1>11, Zenon DEF CycleProgress

(* The quota of a broadcasting consumer counts the messages it holds, and  *)
(* no message is skipped while a process queue lives, whatever the order   *)
(* in which pulls, the drain task and the listener come.                   *)
THEOREM BroadcastCorrect == BroadcastSpec => []BroadcastInv
<1>1. BroadcastInit => BroadcastChain
  <2> SUFFICES ASSUME BroadcastInit PROVE BroadcastChain
    BY Zenon
  <2> QED BY NewQueue, Zenon DEF BroadcastInit, BroadcastChain, BroadcastTypeOK, Linked
<1>2. BroadcastChain /\ UNCHANGED broadcastVars => BroadcastChain'
  BY DEF broadcastVars, BroadcastChain, BroadcastTypeOK, Linked, Follows
<1>3. BroadcastChain /\ [BroadcastNext]_broadcastVars => BroadcastChain'
  BY <1>2, PullKeeps, DequeueKeeps, OthersKeep, Zenon DEF BroadcastNext, WorkerStep
<1> QED BY <1>1, <1>3, ChainImplies, PTL DEF BroadcastSpec
=============================================================================
