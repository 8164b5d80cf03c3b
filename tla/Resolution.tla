----------------------------- MODULE Resolution -----------------------------
(***************************************************************************)
(* What the builder looks up for its routes (crates/builder/src/lib.rs):    *)
(* Services and the pods behind them, TLS Secrets, exposed ports, and which *)
(* names and paths Sozu can load.                                           *)
(*                                                                         *)
(* The caches are one sequence of objects, in the order the reflectors list *)
(* them; an object has a kind, a namespace and a name.  A hostname is a     *)
(* sequence of labels, <<>> for none.                                       *)
(***************************************************************************)
EXTENDS RoutingIR

CONSTANTS
  Exposure,      \* BuildConfig::exposure, a sequence of [proto, port, bind, owner]
  DefaultCheck   \* HealthCheckDefault::enabled

ASSUME CheckAssumption == DefaultCheck \in BOOLEAN

-----------------------------------------------------------------------------
(* The caches *)

OfKind(objs, kind) == Filtered(objs, {o \in Range(objs) : o.kind = kind})

(* Index: at most one object has the name. *)
Named(objs, kind, ns, name) ==
  {o \in Range(objs) : o.kind = kind /\ o.ns = ns /\ o.name = name}

The(S) == CHOOSE o \in S : TRUE

(* The first entry of s that satisfies P, none or one. *)
FirstOf(s, P(_)) ==
  {s[i] : i \in {j \in DOMAIN s : P(s[j]) /\ \A k \in 1..(j - 1) : ~P(s[k])}}

-----------------------------------------------------------------------------
(* Exposed ports *)

BindFor(proto) == The(FirstOf(Exposure, LAMBDA e : e.proto = proto)).bind

Exposed(proto, port) == FirstOf(Exposure, LAMBDA e : e.proto = proto /\ e.port = port)

-----------------------------------------------------------------------------
(* What Sozu can load *)

(* hostname_refusal: a label that is no domain name, a wildcard that does not lead, and a leading *)
(* wildcard over a right-to-left label, under which other names are fine.                         *)
HostnameRefusal(host) ==
  /\ host # <<"*">>
  /\ \/ "!" \in Range(host)
     \/ \E i \in 2..Len(host) : host[i] = "*"
     \/ Head(host) = "*" /\ "rtl" \in Range(host)

(* sozu_regex_refusal, of a user's regex *)
RegexRefusal(value) == "(" \in Range(value)

(* path_match, canonical_prefix: an empty path is the root; a Prefix loses its trailing slashes, *)
(* the root keeps its own.                                                                       *)
OrRoot(value) == IF value = <<>> THEN <<Slash>> ELSE value

PathMatch(path) == [path EXCEPT !.value = OrRoot(IF path.kind = "Prefix" THEN Trimmed(@) ELSE @)]

(* admit_path: a literal is escaped, but may be too long to compile. *)
PathRefusal(path) ==
  \/ path.kind = "Regex" /\ RegexRefusal(path.value)
  \/ SozuRule(path)[1] = "R" /\ "huge" \in Range(path.value)

(* tls_covers, wildcard_covers: a wildcard covers one label. *)
WildcardCovers(wildcard, host) ==
  /\ Len(wildcard) > 1 /\ Head(wildcard) = "*"
  /\ Len(host) = Len(wildcard) /\ Tail(host) = Tail(wildcard)

TlsCovers(hosts, host) == host \in hosts \/ \E h \in hosts : WildcardCovers(h, host)

-----------------------------------------------------------------------------
(* Services and pods *)

(* How a route names a Service's port; 0 and "" for none. *)
PortRef(by, port, name) == [by |-> by, port |-> port, name |-> name]

(* service_port: an HTTP route takes the TCP entry of a number exposed twice. *)
ServicePort(svc, ref) ==
  LET numbered == FirstOf(svc.ports, LAMBDA p : p.port = ref.port)
      tcp == FirstOf(svc.ports, LAMBDA p : p.port = ref.port /\ p.proto = "TCP")
  IN CASE ref.by = "Number" -> numbered
       [] ref.by = "HttpNumber" -> IF tcp # {} THEN tcp ELSE numbered
       [] ref.by = "Name" -> FirstOf(svc.ports, LAMBDA p : p.name = ref.name)

(* The first entry with a number keeps the bare id, its twin has the protocol appended. *)
ClusterId(svc, port) ==
  LET first == The(FirstOf(svc.ports, LAMBDA p : p.port = port.port))
  IN <<svc.ns, svc.name, port.port>> \o (IF first.proto = port.proto THEN <<>> ELSE <<port.proto>>)

(* slice_port: by name; a slice's only port where it could be this one. *)
SlicePort(slice, port) ==
  LET named == FirstOf(slice.ports, LAMBDA p : p.name = port.name)
      sole == FirstOf(slice.ports, LAMBDA p : p.name = "" /\ p.proto = port.proto)
  IN IF named # {} THEN named ELSE IF Len(slice.ports) = 1 THEN sole ELSE {}

Slices(objs, svc) ==
  {o \in Range(objs) : o.kind = "EndpointSlice" /\ o.ns = svc.ns /\ o.service = svc.name}

(* resolve_backends: the addresses of a Service port; unknown readiness counts as ready. *)
Addresses(objs, svc, port) ==
  UNION {{<<e.ip, p.port>> : e \in {d \in slice.endpoints : d.ready # "no"},
                             p \in SlicePort(slice, port)} :
           slice \in {s \in Slices(objs, svc) : ~s.fqdn}}

(* service_health_check: the annotation, else the default; the timing is read when it is on. *)
HealthCheck(svc) ==
  CASE svc.check \notin {None, "tcp", "off"} -> "invalid"
    [] svc.check = "off" -> None
    [] svc.check = None /\ ~DefaultCheck -> None
    [] OTHER -> IF svc.timing = "bad" THEN "invalid" ELSE "tcp"

AsksForCheck(svc) == svc.check = "tcp"

Unrouted(why) == [err |-> why, id |-> NoCluster, svc |-> {}, port |-> {}, warn |-> {}]

PortRoute(objs, svc, port) ==
  [err |-> {}, id |-> ClusterId(svc, port), svc |-> {svc}, port |-> {port},
   warn |-> (IF \E s \in Slices(objs, svc) : s.fqdn THEN {"FqdnEndpoints"} ELSE {})
            \cup (IF HealthCheck(svc) = "invalid" THEN {"InvalidHealthCheck"} ELSE {})
            \cup (IF Addresses(objs, svc, port) = {} THEN {"NoReadyEndpoints"} ELSE {})]

(* add_service_route: why nothing is programmed, or the cluster, and what is worth reporting, of *)
(* the Service and the port found, none or one.                                                  *)
RouteOf(objs, svcs, ports) ==
  IF svcs = {} THEN Unrouted({"ServiceNotFound"})
  ELSE IF ports = {} THEN Unrouted({"ServicePortNotFound"})
  ELSE PortRoute(objs, The(svcs), The(ports))

PortsOf(svcs, ref) == UNION {ServicePort(svc, ref) : svc \in svcs}

ServiceRoute(objs, ns, name, ref) ==
  RouteOf(objs, Named(objs, "Service", ns, name), PortsOf(Named(objs, "Service", ns, name), ref))

(* HttpBackendProtocol: h2c is honoured, wss reported. *)
AppProtocol(route) == {p.app : p \in route.port}

AppProblem(route) == IF "wss" \in AppProtocol(route) THEN {"UnsupportedAppProtocol"} ELSE {}

(* The clusters and backends of the routes resolved; http are those of HTTP routes, which alone *)
(* read the application protocol.                                                               *)
Clusters(all, http) ==
  {[id |-> r.id, config |-> The(r.svc).config,
    check |-> IF HealthCheck(The(r.svc)) = "tcp" THEN "tcp" ELSE None,
    http2 |-> \E q \in http : q.id = r.id /\ "h2c" \in AppProtocol(q)] : r \in all}

Backends(objs, all) ==
  UNION {{[cluster |-> r.id, id |-> a] : a \in Addresses(objs, The(r.svc), The(r.port))} : r \in all}

-----------------------------------------------------------------------------
(* Certificates *)

(* extract_cert: material that does not load is refused here; names are inferred where none are *)
(* asked for.  Of the PEM texts, the place among them in their order is kept.                   *)
CertNames(secret, names) == IF names = {} THEN secret.names ELSE names

CertRefused(secret, names) == ~secret.valid \/ CertNames(secret, names) = {}

Certificate(secret, names, bind, source) ==
  [listener |-> bind, fp |-> secret.fp, chain |-> secret.chain, pem |-> secret.pem,
   names |-> CertNames(secret, names), secret |-> secret.name, source |-> source]

-----------------------------------------------------------------------------
(* Who asks *)

NoRef == [ns |-> None, gateway |-> None, section |-> None, port |-> 0]

(* FrontendSource, with the claim of the object (OwnerClaim): its creation time, NoStamp for none, *)
(* and its place among the namespace/name spellings.                                               *)
Source(o, ref) ==
  [kind |-> o.kind, ns |-> o.ns, name |-> o.name, at |-> o.at, text |-> o.text, ref |-> ref]

NoStamp == 0

Owner(source) == <<source.kind, source.ns, source.name>>

KindRank(kind) == [Ingress |-> 0, HTTPRoute |-> 1, Gateway |-> 2, TCPRoute |-> 3, UDPRoute |-> 3][kind]

(* Mutant of Older: the spelling alone. *)
OlderByName(s, t) == s.text < t.text

(* The older claim: an object without a creation time comes last, one second is told by name. *)
Older(s, t) ==
  \/ s.at # NoStamp /\ (t.at = NoStamp \/ s.at < t.at)
  \/ s.at = t.at /\ s.text < t.text

(* The oldest claim first, equal ones as they come. *)
ClaimOrder(claims) ==
  {p \in (DOMAIN claims) \X (DOMAIN claims) :
     LET s == claims[p[1]]  t == claims[p[2]]
     IN Older(s, t) \/ (~Older(t, s) /\ p[1] < p[2])}

(* reference_granted *)
Granted(objs, toNs, toKind, toName, fromNs, fromKind) ==
  \/ toNs = fromNs
  \/ \E g \in Range(objs) :
       /\ g.kind = "ReferenceGrant" /\ g.ns = toNs
       /\ [kind |-> fromKind, ns |-> fromNs] \in g.from
       /\ \E t \in g.to : t.kind = toKind /\ t.name \in {None, toName}
=============================================================================
