------------------------------ MODULE Tracing ------------------------------
(***************************************************************************)
(* Spans and their export: the span made for a message, its conversion     *)
(* from OpenCensus to OpenTelemetry, and the clients of the exporter,      *)
(* which follow the hosts of the routes.  A key of a message is the        *)
(* sequence of its words, as keys are joined and split at blanks.          *)
(***************************************************************************)
EXTENDS Lists

CONSTANTS
  Host,
  Traced,     \* messages: [keys, type, delivery]
  Extra       \* what may become of a span: [await, notes, events, links, ok]

Words(m) == UNION {Range(key) : key \in Range(m.keys)}

ASSUME TracingConstants ==
  /\ \A m \in Traced : m.delivery \in Nat /\ m.keys \in Seq(Seq(Words(m)))
  /\ \A x \in Extra : x.notes \in Nat

VARIABLES
  mode_,      \* TraceMode: "Off" or "Grpc" (nobody sets "Develop")
  provider,   \* whether the client has a credentials provider
  hosts_,     \* of the exporter
  routed,     \* history: hosts of the routes
  clients_map,
  manager,    \* whether the client manager lives
  span,       \* the span under way, or NoSpan
  exported    \* the last export: [target, told, source, item], or NoExport

tracingVars == <<mode_, provider, hosts_, routed, clients_map, manager, span, exported>>

NoSpan == [stage |-> "none"]
NoExport == [target |-> "none"]

TracingInit ==
  /\ mode_ \in {"Off", "Grpc"} /\ provider \in BOOLEAN /\ manager = TRUE
  /\ hosts_ = {} /\ routed = {} /\ clients_map = {} /\ span = NoSpan /\ exported = NoExport

(* ClientImpl::updateTraceHosts and OtlpExporter::updateHosts: no hosts at *)
(* all leave the list as it is.                                            *)
updateHosts(h) ==
  /\ routed' = h
  /\ hosts_' = IF h = {} THEN hosts_ ELSE h
  /\ UNCHANGED <<mode_, provider, clients_map, manager, span, exported>>

managerGone ==
  /\ manager /\ manager' = FALSE
  /\ UNCHANGED <<mode_, provider, hosts_, routed, clients_map, span, exported>>

(* TracingUtility::addUniversalSpanAttributes.  The access key is asked of *)
(* a credentials provider that a client need not have.                     *)
universalAttributes(m) ==
  {"id", "size", "tag", "system", "destination", "protocol", "namespace", "client", "group",
   "access key", m.type}
  \cup (IF m.delivery > 0 THEN {"delivery"} ELSE {})

addUniversalSpanAttributes(m) ==
  /\ span.stage = "none"
  /\ span' = IF ~provider THEN [stage |-> "crash"]
             ELSE [stage |-> "open", message |-> m, traceId |-> "own", start |-> "started",
                   attributes |-> universalAttributes(m),
                   notes |-> IF m.keys = <<>> THEN <<>>
                             ELSE <<[description |-> "keys", words |-> Joined(m.keys)]>>]
  /\ exported' = NoExport
  /\ UNCHANGED <<mode_, provider, hosts_, routed, clients_map, manager>>

(* The span gets further annotations (a consumer's, of the time a message  *)
(* waited, among them), events and links, and ends.                        *)
spanEnds(x) ==
  /\ span.stage = "open"
  /\ span' = [stage |-> "ended", message |-> span.message, traceId |-> span.traceId,
              start |-> span.start, attributes |-> span.attributes, ok |-> x.ok,
              events |-> x.events, links |-> x.links,
              notes |-> span.notes
                        \o (IF x.await THEN <<[description |-> "await"]>> ELSE <<>>)
                        \o [i \in 1 .. x.notes |-> [description |-> "note"]]]
  /\ UNCHANGED <<mode_, provider, hosts_, routed, clients_map, manager, exported>>

Described(s, d) == Picked(s.notes, {n \in Range(s.notes) : n.description = d})

(* Export's conversion.  Message events are made and not added; an         *)
(* annotation becomes an event; the ids of a link go to the span itself.   *)
Converted(s) ==
  [traceId |-> IF s.links = 0 THEN s.traceId ELSE "of a link",
   start |-> IF Described(s, "await") # <<>> THEN "waited" ELSE s.start,
   attributes |-> s.attributes,
   keys |-> IF Described(s, "keys") = <<>> THEN <<>> ELSE Described(s, "keys")[1].words,
   events |-> Len(Described(s, "note")),
   links |-> s.links, ok |-> s.ok]

addsOnly ==                     \* mutant: clients of hosts no longer in a route stay
  clients_map \cup (IF manager THEN hosts_ ELSE {})

(* syncExportClients *)
syncExportClients ==
  (clients_map \cap hosts_) \cup (IF manager THEN hosts_ ELSE {})

(* OtlpExporterHandler::Export, to the next client in turn. *)
Export ==
  /\ span.stage = "ended" /\ mode_ = "Grpc"
  /\ clients_map' = syncExportClients
  /\ \/ /\ clients_map' = {} /\ exported' = NoExport
     \/ \E h \in clients_map' :
          exported' = [target |-> h, told |-> hosts_, source |-> span, item |-> Converted(span)]
  /\ span' = NoSpan
  /\ UNCHANGED <<mode_, provider, hosts_, routed, manager>>

exportNothing ==
  /\ span.stage = "ended" /\ mode_ # "Grpc"
  /\ span' = NoSpan
  /\ UNCHANGED <<mode_, provider, hosts_, routed, clients_map, manager, exported>>

TracingNext ==
  \/ \E h \in SUBSET Host : updateHosts(h)
  \/ managerGone \/ Export \/ exportNothing
  \/ \E m \in Traced : addUniversalSpanAttributes(m)
  \/ \E x \in Extra : spanEnds(x)

-----------------------------------------------------------------------------
(* Properties. *)

(* Spans go to a host the exporter was last told of and only when tracing  *)
(* is on; the last hosts stay when the routes have none.  What is exported *)
(* has the attributes, status and annotations of the span, the keys of its *)
(* message if none of them has a blank, the waiting time of a message as   *)
(* its start, and its own trace id unless it has links.  Message events    *)
(* are lost.  A client without credentials cannot trace at all.            *)
TracingInv ==
  /\ clients_map \subseteq Host /\ hosts_ \subseteq Host
  /\ hosts_ # routed => routed = {}
  /\ exported # NoExport =>
       LET s == exported.source
           item == exported.item
       IN  /\ mode_ = "Grpc" /\ exported.target \in exported.told
           /\ item.attributes = universalAttributes(s.message) /\ item.ok = s.ok
           /\ (\A i \in DOMAIN s.message.keys : Len(s.message.keys[i]) = 1)
                => item.keys = Joined(s.message.keys) /\ Len(item.keys) = Len(s.message.keys)
           /\ item.events = Cardinality({i \in DOMAIN s.notes : s.notes[i].description = "note"})
           /\ item.start = "waited" <=> (\E i \in DOMAIN s.notes : s.notes[i].description = "await")
           /\ item.traceId = "own" <=> (s.links = 0)
  /\ span.stage = "crash" => ~provider
=============================================================================
