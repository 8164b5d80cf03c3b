----------------------------- MODULE MCBuilder -----------------------------
(* Families of objects that meet: on route keys, header matches, SNI names, sockets and *)
(* clusters, and at a Gateway's door.                                                    *)
EXTENDS Builder

Obj(kind, ns, name, text) == [kind |-> kind, ns |-> ns, name |-> name, text |-> text, at |-> NoStamp]

HttpPort == [name |-> "web", port |-> 80, proto |-> "TCP", app |-> None]

Svc(ns, name, ports, check) ==
  Obj("Service", ns, name, 0) @@ [ports |-> ports, check |-> check, timing |-> "ok", config |-> "plain"]

Slice(ns, svc, ports, endpoints) ==
  Obj("EndpointSlice", ns, svc, 0)
  @@ [service |-> svc, fqdn |-> FALSE, ports |-> ports, endpoints |-> endpoints]

WebSvc(ns, name) == Svc(ns, name, <<HttpPort>>, None)

WebSlice(ns, svc) ==
  Slice(ns, svc, <<[name |-> "web", proto |-> "TCP", port |-> 8080]>>, {[ip |-> svc, ready |-> "yes"]})

Class == Obj("GatewayClass", None, "sozu", 0) @@ [ours |-> TRUE]

NoSelector == [missing |-> FALSE, terms |-> {}]

Door(name, proto, port, host) ==
  [name |-> name, proto |-> proto, port |-> port, host |-> host, from |-> "All", selector |-> NoSelector,
   kinds |-> {}, mode |-> IF proto = "HTTPS" THEN "Terminate" ELSE None, refs |-> <<>>]

Gw(ns, name, text, listeners) ==
  Obj("Gateway", ns, name, text)
  @@ [class |-> "sozu", params |-> FALSE, unsupported |-> FALSE, listeners |-> listeners]

ParentRef(ns, gw, section) ==
  [kind |-> "Gateway", ns |-> ns, gateway |-> gw, section |-> section, port |-> 0]

Ref(name, port) ==
  [kind |-> "Service", ns |-> None, name |-> name, port |-> port, weight |-> 1, filtered |-> FALSE]

Path(kind, value) == [kind |-> kind, value |-> value]

Match(path, method, headers) == [path |-> path, method |-> method, headers |-> headers, query |-> FALSE]

Rule(matches, refs, filters) ==
  [matches |-> matches, refs |-> refs, filters |-> filters, timeouts |-> FALSE]

Http(ns, name, text, parents, hosts, rules) ==
  Obj("HTTPRoute", ns, name, text)
  @@ [parents |-> parents, hostless |-> hosts = <<>>, hosts |-> hosts, rules |-> rules]

L4(kind, ns, name, text, parents, refs) == Obj(kind, ns, name, text) @@ [parents |-> parents, refs |-> refs]

Ing(ns, name, text, tls, rules) ==
  Obj("Ingress", ns, name, text)
  @@ [class |-> "ours", legacy |-> None, tls |-> tls, rules |-> rules, redirect |-> TRUE, defaultBackend |-> FALSE]

IngPath(path, svc) == [path |-> path, svc |-> svc, port |-> 80, portName |-> None]

Secret(ns, name, fp, chain, pem) ==
  Obj("Secret", ns, name, 0)
  @@ [fp |-> fp, chain |-> chain, pem |-> pem, names |-> {<<"x", "io">>}, valid |-> TRUE]

X == <<"x", "io">>
Y == <<"y", "io">>
SlashX == <<"/", "x">>
ExactX == Path("Exact", SlashX)
PrefixX == Path("Prefix", SlashX \o <<"/">>)
Root == Path("Prefix", <<"/">>)

-----------------------------------------------------------------------------
(* Route keys: two Ingresses and a route with two parentRefs to one Gateway want /x. *)

Header(name, values) ==
  [name |-> name, kind |-> IF Cardinality(values) = 1 THEN "Exact" ELSE "Regex", value |-> values]

H(v) == <<Header("h", {v})>>

(* A user regex that reads as the exact path does once compiled, and with a method or a header *)
(* predicate after it.                                                                          *)
CompiledX == <<"^", "/", "x", "(?:?.*)?$">>
RegexX == Path("Regex", CompiledX)
RegexGet == Path("Regex", CompiledX \o <<";", "GET">>)
RegexH == Path("Regex", CompiledX \o <<";H", "Exact", "h", "1">>)

KeyBase ==
  <<Class, WebSvc("a", "s"), WebSlice("a", "s"), WebSvc("b", "s"), WebSlice("b", "s"),
    Gw("a", "gw", 5, <<Door("http", "HTTP", 80, <<>>)>>)>>

KeyRoute(rules) ==
  Http("a", "r", 2, <<ParentRef(None, "gw", None), ParentRef(None, "gw", "http")>>, <<X>>, rules)

(* The namespace spelled out and left out. *)
Twins(rules) ==
  Http("a", "r", 2, <<ParentRef("a", "gw", "http"), ParentRef(None, "gw", "http")>>, <<X>>, rules)

KeyPool ==
  {Ing("a", "i", 1, <<>>, <<[host |-> X, paths |-> <<IngPath(PrefixX, "s"), IngPath(ExactX, "s")>>]>>),
   Ing("b", "i", 3, <<>>, <<[host |-> X, paths |-> <<IngPath(Path("Prefix", SlashX), "s")>>]>>),
   Ing("b", "i", 3, <<>>, <<[host |-> X, paths |-> <<IngPath(RegexX, "s")>>]>>),
   Ing("b", "i", 3, <<>>, <<[host |-> <<"!">>, paths |-> <<IngPath(Root, "s")>>],
                            [host |-> <<>>, paths |-> <<IngPath(Path("Exact", <<"huge">>), "s"), IngPath(Root, None),
                                                         [IngPath(Root, "s") EXCEPT !.port = 0]>>]>>),
   KeyRoute(<<Rule(<<Match(PrefixX, None, <<>>)>>, <<Ref("s", 80)>>, <<>>)>>),
   Twins(<<Rule(<<Match(PrefixX, None, <<>>)>>, <<Ref("s", 80)>>, <<>>)>>),
   KeyRoute(<<Rule(<<Match(ExactX, "GET", <<>>)>>, <<Ref("s", 80)>>, <<>>),
              Rule(<<Match(RegexGet, None, <<>>)>>, <<Ref("s", 80)>>, <<>>)>>),
   KeyRoute(<<Rule(<<Match(RegexH, None, <<>>)>>, <<Ref("s", 80)>>, <<>>),
              Rule(<<Match(ExactX, None, H("1"))>>, <<Ref("s", 80)>>, <<>>)>>),
   KeyRoute(<<Rule(<<Match(ExactX, None, <<>>), Match(PrefixX, None, <<>>)>>, <<>>,
                   <<[type |-> "RequestRedirect",
                      redirect |-> [scheme |-> "https", status |-> 0, host |-> None, pathType |-> None,
                                    path |-> None, port |-> 443]]>>)>>)}

-----------------------------------------------------------------------------
(* Header matches above and below plain routes of one hostname. *)

Edit(op, value) == [type |-> "ResponseHeaderModifier", edits |-> <<[op |-> op, key |-> "k", value |-> value]>>]

HeaderBase ==
  <<Class, WebSvc("a", "s"), WebSlice("a", "s"), WebSvc("a", "t"), WebSlice("a", "t"),
    Gw("a", "gw", 5, <<Door("http", "HTTP", 80, <<>>)>>)>>

HeaderRoute(name, text, svc, hosts, matches, filters) ==
  Http("a", name, text, <<ParentRef(None, "gw", "http")>>, hosts, <<Rule(matches, <<Ref(svc, 80)>>, filters)>>)

HeaderPool ==
  {HeaderRoute("p", 1, "s", <<X>>, <<Match(Root, None, H("1"))>>, <<>>),
   HeaderRoute("p", 1, "s", <<X>>, <<Match(Root, "GET", H("1")), Match(PrefixX, None, H("1"))>>, <<>>),
   HeaderRoute("p", 1, "s", <<>>, <<Match(Root, None, H("1"))>>, <<Edit("set", "v")>>),
   HeaderRoute("q", 2, "t", <<X>>, <<Match(ExactX, None, <<>>)>>, <<>>),
   HeaderRoute("q", 2, "t", <<X>>, <<Match(ExactX, "GET", <<>>), Match(PrefixX, None, <<>>)>>, <<Edit("add", "v")>>),
   HeaderRoute("q", 2, "t", <<>>, <<Match(Root, None, <<Header("h", {"1", "2"})>>), Match(ExactX, None, <<>>)>>, <<>>),
   HeaderRoute("q", 2, "t", <<X>>, <<Match(Root, None, <<Header("g", {"1"})>>)>>, <<>>),
   HeaderRoute("r", 3, "s", <<X>>, <<Match(Root, None, H("1"))>>, <<>>),
   HeaderRoute("r", 3, "s", <<X>>, <<Match(ExactX, "PUT", <<>>)>>, <<>>),
   HeaderRoute("r", 3, "t", <<X>>, <<Match(Root, None, <<Header("g", {"1"}), Header("g", {"2"})>>)>>, <<>>),
   HeaderRoute("r", 3, "s", <<X>>, <<Match(RegexH, None, <<>>)>>, <<>>),
   HeaderRoute("r", 3, "t", <<X>>, <<Match(Path("Regex", <<"any">>), None, H("2"))>>, <<>>)}

-----------------------------------------------------------------------------
(* SNI names: Secrets that share a leaf, two Ingresses and a Gateway. *)

CertBase ==
  <<Class, WebSvc("a", "s"), WebSvc("b", "s"), Secret("a", "c1", "f1", 1, 1), Secret("b", "c2", "f1", 2, 3),
    Secret("b", "c3", "f2", 1, 4), Secret("b", "c4", "f1", 2, 2)>>

CertRef(ns, name) == [kind |-> "Secret", ns |-> ns, name |-> name]

Tls(secret, hosts) == [secret |-> secret, hosts |-> hosts]

TlsGw(host, refs) == Gw("a", "gw", 2, <<[Door("https", "HTTPS", 443, host) EXCEPT !.refs = refs]>>)

CertPool ==
  {Ing("a", "i", 1, <<Tls("c1", {X})>>, <<[host |-> X, paths |-> <<IngPath(Root, "s")>>]>>),
   Ing("a", "i", 1, <<Tls("c1", {X, Y}), Tls("gone", {X}), Tls(None, {X}), Tls("c1", {})>>,
       <<[host |-> X, paths |-> <<IngPath(Root, "s")>>]>>),
   Ing("b", "i", 3, <<Tls("c2", {Y}), Tls("c3", {X})>>, <<[host |-> Y, paths |-> <<IngPath(Root, "s")>>]>>),
   Ing("b", "i", 3, <<Tls("c2", {X, Y}), Tls("c4", {X})>>, <<[host |-> X, paths |-> <<IngPath(Root, "s")>>]>>),
   TlsGw(<<>>, <<CertRef("b", "c3")>>),
   TlsGw(Y, <<CertRef(None, "c1"), CertRef("b", "c2")>>),
   Obj("ReferenceGrant", "b", "g", 0)
     @@ [from |-> {[kind |-> "Gateway", ns |-> "a"]}, to |-> {[kind |-> "Secret", name |-> None]}]}

-----------------------------------------------------------------------------
(* Sockets and health checks: a Service on one number over TCP and UDP. *)

DnsPort(proto) == [name |-> proto, port |-> 53, proto |-> proto, app |-> None]

Dns(check, ports) == Svc("a", "dns", ports, check)

SockBase ==
  <<Class, Slice("a", "dns", <<[name |-> "TCP", proto |-> "TCP", port |-> 53], [name |-> "UDP", proto |-> "UDP", port |-> 53]>>,
                 {[ip |-> "d", ready |-> "unknown"]}),
    WebSvc("a", "s"), WebSlice("a", "s"),
    Gw("a", "gw", 5, <<Door("tcp", "TCP", 53, <<>>), Door("udp", "UDP", 53, <<>>), Door("http", "HTTP", 80, <<>>)>>)>>

SockRef(section) == <<ParentRef(None, "gw", section)>>

SockPool ==
  {Dns(None, <<DnsPort("TCP"), DnsPort("UDP")>>),
   Dns("tcp", <<DnsPort("UDP"), DnsPort("TCP")>>),
   L4("TCPRoute", "a", "t", 1, SockRef(None), <<Ref("dns", 53)>>),
   L4("TCPRoute", "a", "t", 1, SockRef("tcp") \o SockRef(None), <<Ref("s", 80)>>),
   L4("TCPRoute", "a", "w", 3, SockRef("tcp"), <<Ref("dns", 53)>>),
   L4("UDPRoute", "a", "u", 2, SockRef("udp"), <<Ref("dns", 53)>>),
   Http("a", "r", 4, SockRef("http"), <<>>, <<Rule(<<>>, <<Ref("dns", 53)>>, <<>>)>>)}

SockPool2 ==
  {o \in SockPool : o.name # "w"}
  \cup {Ing("a", "i", 3, <<>>, <<[host |-> <<>>, paths |-> <<[IngPath(Root, "dns") EXCEPT !.port = 53]>>]>>)}

-----------------------------------------------------------------------------
(* A Gateway's door: listeners, namespaces, grants and what a route may ask. *)

Ns(name, labels) == Obj("Namespace", None, name, 0) @@ [labels |-> labels]

Term(op, values) == [key |-> "team", op |-> op, values |-> values]

Chosen1(terms) == [missing |-> FALSE, terms |-> terms]

DoorBase == <<Ns("b", {<<"team", "red">>}), WebSvc("b", "s"), WebSlice("b", "s"), WebSvc("a", "s"), WebSlice("a", "s")>>

DoorGw(l) == Gw("a", "gw", 1, <<l>>)

WildHttp == Door("http", "HTTP", 80, <<"*", "io">>)

DoorRoute(hosts, rules) ==
  Http("b", "r", 2, <<ParentRef("a", "gw", "http"), ParentRef("a", "gw", None)>>, hosts, rules)

Go(filters) == Rule(<<>>, <<Ref("s", 80)>>, filters)

Redir(f) == <<[type |-> "RequestRedirect", redirect |->
               f @@ [scheme |-> None, status |-> 302, host |-> None, pathType |-> None, path |-> None, port |-> 0]]>>

DoorPool ==
  {Class, [Class EXCEPT !.ours = FALSE],
   DoorGw(WildHttp), [DoorGw(WildHttp) EXCEPT !.params = TRUE],
   DoorGw([WildHttp EXCEPT !.from = "Same"]),
   DoorGw([WildHttp EXCEPT !.from = "Selector", !.selector = Chosen1({Term("In", {"red"})})]),
   DoorGw([WildHttp EXCEPT !.from = "Selector", !.selector = Chosen1({Term("NotIn", {"red"}), Term("Exists", {})})]),
   DoorGw([WildHttp EXCEPT !.from = "Selector", !.selector = Chosen1({Term("In", {})})]),
   DoorGw([WildHttp EXCEPT !.kinds = {"TCPRoute"}]), DoorGw([WildHttp EXCEPT !.port = 81]),
   DoorGw([WildHttp EXCEPT !.host = <<"*", "rtl">>]), DoorGw([WildHttp EXCEPT !.proto = "TLS"]),
   DoorGw([Door("http", "TCP", 54, <<>>) EXCEPT !.kinds = {}]),
   DoorGw([Door("http", "HTTPS", 443, <<>>) EXCEPT !.mode = "Passthrough"]), DoorGw(Door("http", "HTTPS", 443, <<>>))}
  \cup
  {DoorRoute(hosts, <<Go(<<>>)>>) : hosts \in {<<>>, <<X, <<"*", "io">>>>, <<<<"!", "io">>, X>>, <<<<"*", "rtl">>>>, <<<<"z", "rtl">>>>}}

(* What the rules of a route may ask for. *)
RuleBase == DoorBase \o <<Class, DoorGw(WildHttp)>>

RulePool ==
  {DoorRoute(<<X>>, <<Go(<<>>), r>>) : r \in
     {Rule(<<Match(ExactX, None, <<>>)>>, refs, <<>>) : refs \in
        {<<>>, <<Ref("s", 80), Ref("s", 80)>>, <<[Ref("s", 80) EXCEPT !.weight = 0]>>, <<[Ref("s", 80) EXCEPT !.ns = "a"]>>,
         <<[Ref("s", 80) EXCEPT !.kind = "Other"]>>, <<Ref("s", 0)>>, <<Ref("s", 81)>>, <<Ref("gone", 80)>>}}
     \cup
     {Rule(<<Match(Path("Exact", <<>>), None, <<>>)>>, <<Ref("s", 80)>>, <<>>)}
     \cup
     {Rule(<<Match(ExactX, None, headers)>>, <<Ref("s", 80)>>, <<>>) : headers \in
        {<<Header("host", {"1"})>>, <<[Header("h", {"1"}) EXCEPT !.kind = "Unknown"]>>, <<Header("h", {""})>>}}
     \cup
     {Rule(<<Match(ExactX, None, <<>>)>>, <<>>, filters) : filters \in
        {Redir([status |-> 307]), Redir([status |-> 0]), Redir([scheme |-> "http", port |-> 80, status |-> 308]),
         Redir([host |-> "$"]), Redir([pathType |-> "ReplaceFullPath", path |-> "p"]),
         Redir([port |-> 70000]), Redir([port |-> 8080]) \o <<[type |-> "URLRewrite"]>>, <<[type |-> "CORS"]>>,
         <<[type |-> "RequestMirror"]>>, <<Edit("set", "")>>}}}
  \cup
  {Obj("ReferenceGrant", "a", "g", 0)
     @@ [from |-> {[kind |-> "HTTPRoute", ns |-> "b"]}, to |-> {[kind |-> "Service", name |-> "s"]}]}

-----------------------------------------------------------------------------
Times == {NoStamp, 1, 2}

MCFamilies ==
  {[base |-> KeyBase, pool |-> KeyPool, stamps |-> Times], [base |-> HeaderBase, pool |-> HeaderPool, stamps |-> {1, 2}],
   [base |-> CertBase, pool |-> CertPool, stamps |-> Times], [base |-> SockBase, pool |-> SockPool, stamps |-> {1, 2}],
   [base |-> SockBase, pool |-> SockPool2, stamps |-> {1, 2}], [base |-> DoorBase, pool |-> DoorPool, stamps |-> {1}],
   [base |-> RuleBase, pool |-> RulePool, stamps |-> {1}]}

MCExposure ==
  <<[proto |-> "HTTP", port |-> 80, bind |-> 8080, owner |-> None],
    [proto |-> "HTTPS", port |-> 443, bind |-> 8443, owner |-> None],
    [proto |-> "TCP", port |-> 53, bind |-> 5353, owner |-> None],
    [proto |-> "UDP", port |-> 53, bind |-> 5353, owner |-> None],
    [proto |-> "TCP", port |-> 54, bind |-> 5454, owner |-> "b"]>>

MCRequests ==
  [target : {<<"/">>, SlashX, SlashX \o <<"/", "y">>, SlashX \o <<"?">>}, method : {"GET", "PUT"},
   headers : [{"h", "g"} -> {"absent", "1", "2"}]]
=============================================================================
