----------------------------- MODULE NameServer -----------------------------
(***************************************************************************)
(* DynamicNameServerResolver: the list of name servers is fetched over     *)
(* HTTP, by a timer and by resolve() when there is none yet, and turned    *)
(* into a gRPC target by NamingScheme::buildAddress.  A list is a sequence *)
(* of segments: members of Ipv4 or Domain, each with a port, or of Junk    *)
(* (an IPv6 address has too many colons to be taken for host and port, and *)
(* an empty body is one empty segment).                                    *)
(***************************************************************************)
EXTENDS Naturals, Sequences, Functions

CONSTANTS
  Ipv4, Domain, Junk,   \* kinds of segments
  Body,                 \* lists the addressing service may answer with
  Resolver,             \* threads in resolve()
  Timer, None           \* the refresh timer; no body, no domain

ASSUME NameServerConstants == Body \subseteq Seq(Ipv4 \cup Domain \cup Junk) \ {<<>>}

Failed == <<>>          \* an answer that is not 200

VARIABLES
  name_server_list,   \* name_server_list_
  answer,             \* what a request was answered with and not yet applied, or None
  resolving,          \* per resolver: "none", "fetch" or "read"
  address,            \* what resolve() returned last
  ip_domain_map,      \* DnsResolver: the domain an address was resolved from, or None
  accepted,           \* history: the lists taken over so far
  known               \* history: a list was known when this resolve() began

nameServerVars == <<name_server_list, answer, resolving, address, ip_domain_map, accepted, known>>

Domains(list) == Range(list) \cap Domain

(* The first domain, else all the IPv4 addresses, else the empty string.   *)
buildAddress(list) ==
  LET domains == SelectSeq(list, LAMBDA s : s \in Domain)
      hosts   == Range(list) \cap Ipv4
  IN  IF domains # <<>> THEN <<"dns", {Head(domains)}>>
      ELSE IF hosts # {} THEN <<"ipv4", hosts>> ELSE <<"", {}>>

NameServerTypeOK ==
  /\ name_server_list \in Body \cup {<<>>} /\ accepted \subseteq Body
  /\ answer \in [Resolver \cup {Timer} -> Body \cup {Failed, None}]
  /\ resolving \in [Resolver -> {"none", "fetch", "read"}] /\ known \in [Resolver -> BOOLEAN]
  /\ address \in [Resolver -> {buildAddress(b) : b \in Body \cup {<<>>}} \cup {None}]
  /\ ip_domain_map \in [Ipv4 -> Domain \cup {None}]

NameServerInit ==
  /\ name_server_list = <<>> /\ accepted = {}
  /\ answer = [f \in Resolver \cup {Timer} |-> None]
  /\ resolving = [r \in Resolver |-> "none"] /\ known = [r \in Resolver |-> FALSE]
  /\ address = [r \in Resolver |-> None] /\ ip_domain_map = [i \in Ipv4 |-> None]

(* TopAddressing and HttpClientImpl: a synchronous GET, answered with the  *)
(* list of the moment or with an error.                                    *)
fetchNameServerAddresses(f, body) ==
  /\ answer[f] = None /\ f \in Resolver => resolving[f] = "fetch"
  /\ answer' = [answer EXCEPT ![f] = body]
  /\ UNCHANGED <<name_server_list, resolving, address, ip_domain_map, accepted, known>>

(* DnsResolver::resolve: what the domains of the list resolve to is kept,  *)
(* but an address known already keeps its first domain.                    *)
dnsResolve(list) ==
  \E found \in [Ipv4 -> Domains(list) \cup {None}] :
    ip_domain_map' = [i \in Ipv4 |-> IF ip_domain_map[i] # None THEN ip_domain_map[i] ELSE found[i]]

forgetsOnFailure(f) ==            \* mutant: the result of a failed request is taken over
  /\ answer[f] # None
  /\ answer' = [answer EXCEPT ![f] = None]
  /\ resolving' = [r \in Resolver |-> IF r = f THEN "read" ELSE resolving[r]]
  /\ name_server_list' = answer[f]
  /\ accepted' = accepted \cup ({answer[f]} \cap Body)
  /\ UNCHANGED <<address, ip_domain_map, known>>

(* The callback of fetch(), which takes over a list that is not empty.     *)
onNameServerListFetched(f) ==
  /\ answer[f] # None
  /\ answer' = [answer EXCEPT ![f] = None]
  /\ resolving' = [r \in Resolver |-> IF r = f THEN "read" ELSE resolving[r]]
  /\ IF answer[f] \in {Failed, name_server_list} THEN UNCHANGED <<name_server_list, ip_domain_map>>
     ELSE name_server_list' = answer[f] /\ dnsResolve(answer[f])
  /\ accepted' = accepted \cup ({answer[f]} \cap Body)
  /\ UNCHANGED <<address, known>>

(* resolve(): look, perhaps fetch, look again. *)
resolveBegins(r) ==
  /\ resolving[r] = "none"
  /\ resolving' = [resolving EXCEPT ![r] = IF name_server_list = <<>> THEN "fetch" ELSE "read"]
  /\ known' = [known EXCEPT ![r] = accepted # {}]
  /\ UNCHANGED <<name_server_list, answer, address, ip_domain_map, accepted>>

resolveReturns(r) ==
  /\ resolving[r] = "read"
  /\ resolving' = [resolving EXCEPT ![r] = "none"]
  /\ address' = [address EXCEPT ![r] = buildAddress(name_server_list)]
  /\ UNCHANGED <<name_server_list, answer, ip_domain_map, accepted, known>>

NameServerNext ==
  \/ \E f \in Resolver \cup {Timer} :
       onNameServerListFetched(f)
       \/ \E b \in Body \cup {Failed} : fetchNameServerAddresses(f, b)
  \/ \E r \in Resolver : resolveBegins(r) \/ resolveReturns(r)

-----------------------------------------------------------------------------
(* Properties. *)

(* A resolve() that begins when a list is known returns an address,        *)
(* whatever the timer's requests and other resolvers do meanwhile and      *)
(* however their requests end, unless the service itself published a list  *)
(* without a usable segment (an empty body is one).  An address's domain,  *)
(* which routes name their brokers by, is one of a published list.         *)
NameServerInv ==
  /\ NameServerTypeOK
  /\ \A r \in Resolver :
       known[r] /\ resolving[r] = "none" /\ address[r] = buildAddress(<<>>)
         => \E b \in accepted : buildAddress(b) = buildAddress(<<>>)
  /\ \A i \in Ipv4 : ip_domain_map[i] # None => \E b \in accepted : ip_domain_map[i] \in Domains(b)
=============================================================================
