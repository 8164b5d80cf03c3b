--------------------------- MODULE GatewayBuilder ---------------------------
(***************************************************************************)
(* The Gateway API half of the builder (crates/builder/src/gateway.rs,      *)
(* selector.rs): listeners and their certificates, HTTPRoutes and the rules *)
(* that become frontends, TCPRoutes and UDPRoutes and the sockets they      *)
(* share.                                                                   *)
(***************************************************************************)
EXTENDS Resolution

-----------------------------------------------------------------------------
(* Namespace selectors *)

(* NamespaceSelector::parse: what it cannot evaluate admits nothing. *)
Unevaluable(selector) ==
  \/ selector.missing
  \/ \E t \in selector.terms :
       \/ t.op \notin {"In", "NotIn", "Exists", "DoesNotExist"}
       \/ t.op \in {"In", "NotIn"} /\ t.values = {}
       \/ t.op \in {"Exists", "DoesNotExist"} /\ t.values # {}

(* A namespace's labels are a set of <<key, value>>. *)
Satisfied(t, labels) ==
  LET values == {l[2] : l \in {k \in labels : k[1] = t.key}}
  IN CASE t.op = "In" -> values \cap t.values # {}
       [] t.op = "NotIn" -> values \cap t.values = {}
       [] t.op = "Exists" -> values # {}
       [] t.op = "DoesNotExist" -> values = {}

(* AllowedFrom::admits *)
AdmitsNamespace(objs, l, routeNs, gwNs) ==
  CASE l.from = "All" -> TRUE
    [] l.from = "Same" -> routeNs = gwNs
    [] l.from = "Selector" ->
         /\ ~Unevaluable(l.selector)
         /\ \E n \in Range(objs) : /\ n.kind = "Namespace" /\ n.name = routeNs
                                   /\ \A t \in l.selector.terms : Satisfied(t, n.labels)

-----------------------------------------------------------------------------
(* Listeners *)

L4Protocols == {"TCP", "UDP"}

Protocols == {"HTTP", "HTTPS"} \cup L4Protocols

RouteKind(proto) ==
  [HTTP |-> "HTTPRoute", HTTPS |-> "HTTPRoute", TCP |-> "TCPRoute", UDP |-> "UDPRoute"][proto]

(* Why a listener is not accepted: a name beneath a wildcard may parse where the wildcard does not. *)
ListenerRefusal(gw, l) ==
  LET entry == Exposed(l.proto, l.port)
      suffix == IF Len(l.host) > 1 /\ Head(l.host) = "*" THEN Tail(l.host) ELSE l.host
  IN CASE l.proto \notin Protocols -> {"UnsupportedProtocol"}
       [] l.proto \in Protocols /\ entry = {} -> {"PortNotExposed"}
       [] l.proto \in L4Protocols /\ \E e \in entry : e.owner \notin {None, gw.ns} ->
            {"ListenerPortNotOwned"}
       [] l.proto \in {"HTTP", "HTTPS"} /\ entry # {} /\ l.host # <<>> /\ HostnameRefusal(suffix) ->
            {"InvalidHostname"}
       [] OTHER -> {}

SelectorInvalid(l) == l.proto \in Protocols /\ l.from = "Selector" /\ Unevaluable(l.selector)

(* load_listener_certs: what is wrong with one reference. *)
CertRefProblem(objs, gw, l, ref) ==
  LET ns == IF ref.ns = None THEN gw.ns ELSE ref.ns
      names == IF l.host = <<>> THEN {} ELSE {l.host}
      secrets == Named(objs, "Secret", ns, ref.name)
  IN CASE ref.kind # "Secret" -> {"InvalidCertificate"}
       [] ref.kind = "Secret" /\ ~Granted(objs, ns, "Secret", ref.name, gw.ns, "Gateway") ->
            {"BackendRefNotPermitted"}
       [] OTHER -> IF secrets = {} THEN {"SecretNotFound"}
                   ELSE IF CertRefused(The(secrets), names) THEN {"InvalidCertificate"} ELSE {}

ListenerCerts(objs, gw, l, bind) ==
  {LET ns == IF ref.ns = None THEN gw.ns ELSE ref.ns
       names == IF l.host = <<>> THEN {} ELSE {l.host}
       from == [NoRef EXCEPT !.section = l.name]
   IN Certificate(The(Named(objs, "Secret", ns, ref.name)), names, bind, Source(gw, from)) :
     ref \in {r \in Range(l.refs) : CertRefProblem(objs, gw, l, r) = {}}}

(* The TLS part of build_listener: the certificates of a listener that opens, and what is wrong. *)
ListenerTls(objs, gw, l, bind, opens) ==
  IF ~opens \/ l.proto # "HTTPS" THEN [terminates |-> FALSE, certs |-> {}, problems |-> {}]
  ELSE [terminates |-> TRUE,
        certs |-> IF l.mode = "Terminate" THEN ListenerCerts(objs, gw, l, bind) ELSE {},
        problems |-> CASE l.mode = "Passthrough" -> {"UnsupportedTlsMode"}
                       [] l.mode = None -> {"TlsEntryWithoutSecret"}
                       [] OTHER -> UNION {CertRefProblem(objs, gw, l, r) : r \in Range(l.refs)}]

(* listener_supported_kinds *)
OwnKinds(proto) == IF proto \in Protocols THEN {RouteKind(proto)} ELSE {}

(* build_listener, listener_kinds (not reached with a protocol nobody serves), and what a Gateway *)
(* with parameters loses.                                                                          *)
ListenerUnless(objs, gw, l, refusal) ==
  LET bind == IF refusal = {} THEN The(Exposed(l.proto, l.port)).bind ELSE 0
      opens == refusal = {} /\ ~SelectorInvalid(l)
      tls == ListenerTls(objs, gw, l, bind, opens)
      loaded == l.proto = "HTTPS" => tls.certs # {}
  IN [name |-> l.name, host |-> l.host, proto |-> l.proto, port |-> l.port, bind |-> bind,
      from |-> l.from, selector |-> l.selector, routable |-> l.proto \in Protocols,
      accepted |-> refusal = {} /\ ~gw.params,
      programmed |-> opens /\ loaded /\ ~gw.params,
      resolved |-> l.proto \in Protocols =>
                     (tls.terminates => loaded) /\ l.kinds \subseteq {RouteKind(l.proto)},
      kinds |-> OwnKinds(l.proto) \cap (IF l.kinds = {} THEN OwnKinds(l.proto) ELSE l.kinds),
      certs |-> IF gw.params THEN {} ELSE tls.certs,
      problems |-> refusal \cup tls.problems
                   \cup (IF SelectorInvalid(l) THEN {"NamespaceSelectorInvalid"} ELSE {})]

Listener(objs, gw, l) == ListenerUnless(objs, gw, l, ListenerRefusal(gw, l))

(* The Gateways of a class this controller owns. *)
OurGateways(objs) ==
  LET ours == {c.name : c \in {d \in Range(objs) : d.kind = "GatewayClass" /\ d.ours}}
  IN {g \in Range(objs) : g.kind = "Gateway" /\ g.class \in ours}

(* build_gateway: the Gateways with their listeners as built; routes are attached to these. *)
BuiltGateways(objs) ==
  {[g EXCEPT !.listeners = [i \in DOMAIN @ |-> Listener(objs, g, @[i])]] : g \in OurGateways(objs)}

GatewayProblems(gw) ==
  (UNION {l.problems : l \in Range(gw.listeners)})
  \cup (IF gw.params THEN {"GatewayParametersUnsupported"} ELSE {})
  \cup (IF gw.unsupported THEN {"GatewaySpecUnsupported"} ELSE {})

-----------------------------------------------------------------------------
(* Filters and header matches *)

NoFilters == [redirect |-> {}, mods |-> <<>>]

(* push_header_value: set deletes, then appends; an empty value cannot be told from a removal. *)
HeaderMods(on, edits) ==
  LET mod(key, value) == [on |-> on, key |-> key, value |-> value]
  IN FlatMap(SelectSeq(edits, LAMBDA e : e.op = "remove" \/ e.value # ""),
             LAMBDA e : CASE e.op = "set" -> <<mod(e.key, None), mod(e.key, e.value)>>
                          [] e.op = "add" -> <<mod(e.key, e.value)>>
                          [] e.op = "remove" -> <<mod(e.key, None)>>)

EmptyEdit(edits) == \E e \in Range(edits) : e.op # "remove" /\ e.value = ""

(* The port a redirect names, 0 where its scheme implies it. *)
RedirectPort(r) == IF <<r.scheme, r.port>> \in {<<"https", 443>>, <<"http", 80>>} THEN 0 ELSE r.port

RedirectRefusal(r) ==
  \/ r.status \notin {0, 301, 302, 308}
  \/ r.pathType = "ReplacePrefixMatch"
  \/ r.pathType = "ReplaceFullPath" /\ r.path = None
  \/ "$" \in {r.host, r.path}
  \/ r.port > 65535
  \/ r.scheme = None /\ r.host = None /\ r.pathType = None /\ RedirectPort(r) = 0

Redirect(r) ==
  [scheme |-> r.scheme, status |-> IF r.status = 0 THEN 302 ELSE r.status, host |-> r.host,
   path |-> r.path, port |-> RedirectPort(r)]

(* parse_filters: a rule with a filter that decides the response and cannot be honoured is refused. *)
ParseFilters(filters) ==
  FoldLeft(
    LAMBDA acc, f :
      CASE f.type \in {"RequestHeaderModifier", "ResponseHeaderModifier"} ->
             [acc EXCEPT !.filters.mods = @ \o HeaderMods(f.type, f.edits),
                         !.refused = @ \/ EmptyEdit(f.edits)]
        [] f.type = "RequestRedirect" ->
             IF RedirectRefusal(f.redirect) THEN [acc EXCEPT !.refused = TRUE]
             ELSE [acc EXCEPT !.filters.redirect = {Redirect(f.redirect)}]
        [] f.type = "URLRewrite" ->
             [acc EXCEPT !.refused = @ \/ acc.filters.redirect # {}, !.dropped = TRUE]
        [] f.type \in {"CORS", "Unknown"} -> [acc EXCEPT !.refused = TRUE]
        [] f.type \in {"RequestMirror", "ExtensionRef"} -> [acc EXCEPT !.dropped = TRUE],
    [filters |-> NoFilters, refused |-> FALSE, dropped |-> FALSE],
    filters)

(* header_matches: names are lower-cased, later entries of a name ignored. *)
Counted(headers) ==
  {headers[i] : i \in {j \in DOMAIN headers : \A k \in 1..(j - 1) : headers[k].name # headers[j].name}}

(* What Sozu refuses, rewrites before it routes, or could never match. *)
HeaderRefusal(h) ==
  \/ h.kind = "Unknown"
  \/ h.name \in {"host", "cookie", "x-forwarded-proto"}
  \/ h.kind = "Exact" /\ h.value \cap {"", " padded "} # {}
  \/ h.kind = "Regex" /\ RegexRefusal(<<The(h.value)>>)

(* The first header refused says whether the route reads UnsupportedValue. *)
HeaderProblem(headers) ==
  LET first == FirstOf(headers, LAMBDA h : h \in Counted(headers) /\ HeaderRefusal(h))
  IN IF first = {} THEN {} ELSE IF The(first).kind = "Unknown" THEN {"UnsupportedValue"}
     ELSE {"HeaderMatchRefused"}

-----------------------------------------------------------------------------
(* Backends *)

(* resolve_l4_backend, and the backend of an HTTPRoute rule, which may redirect without one. *)
Backend(objs, o, refs, by, redirects) ==
  LET ref == Head(refs)
      ns == IF ref.ns = None THEN o.ns ELSE ref.ns
  IN IF refs = <<>> THEN Unrouted(IF redirects THEN {} ELSE {"NoReadyEndpoints"})
     ELSE IF Len(refs) > 1 THEN Unrouted({"WeightedBackendsUnsupported"})
     ELSE IF ref.kind # "Service" THEN Unrouted({"NonServiceBackend"})
     ELSE IF ref.weight = 0 THEN Unrouted({"ZeroWeightBackendUnsupported"})
     ELSE IF ~Granted(objs, ns, "Service", ref.name, o.ns, o.kind) THEN Unrouted({"BackendRefNotPermitted"})
     ELSE IF ref.port = 0 THEN Unrouted({"ServicePortNotFound"})
     ELSE ServiceRoute(objs, ns, ref.name, PortRef(by, ref.port, ""))

RuleBackend(objs, o, rule, parsed) ==
  Backend(objs, o, rule.refs, "HttpNumber", parsed.filters.redirect # {})

-----------------------------------------------------------------------------
(* Parents *)

ParentNs(o, ref) == IF ref.ns = None THEN o.ns ELSE ref.ns

(* The parentRefs that name a Gateway of ours, by their index. *)
OurParents(gws, o) ==
  {i \in DOMAIN o.parents :
     /\ o.parents[i].kind = "Gateway"
     /\ \E g \in gws : g.ns = ParentNs(o, o.parents[i]) /\ g.name = o.parents[i].gateway}

ParentsInOrder(gws, o) == Filtered([i \in DOMAIN o.parents |-> i], OurParents(gws, o))

ParentGateway(gws, o, ref) ==
  The({g \in gws : g.ns = ParentNs(o, ref) /\ g.name = ref.gateway})

Addressable(gws, o, ref) ==
  LET listeners == ParentGateway(gws, o, ref).listeners
  IN Filtered(listeners, {l \in Range(listeners) : /\ l.routable /\ ref.section \in {None, l.name}
                                                   /\ ref.port \in {0, l.port}})

Admitting(objs, gws, o, ref) ==
  LET listeners == Addressable(gws, o, ref)
  IN Filtered(listeners, {l \in Range(listeners) : /\ l.accepted /\ o.kind \in l.kinds
                                                   /\ AdmitsNamespace(objs, l, o.ns, ParentNs(o, ref))})

(* host_intersection: the narrower of two names, none or one. *)
HostIntersection(host, listener) ==
  IF host = listener \/ WildcardCovers(listener, host) THEN <<host>>
  ELSE IF WildcardCovers(host, listener) THEN <<listener>> ELSE <<>>

(* effective_hostnames; hostless when the route has no list of names. *)
EffectiveHostnames(route, l) ==
  IF route.hostless THEN <<IF l.host = <<>> THEN <<"*">> ELSE l.host>>
  ELSE IF l.host = <<>> THEN route.hosts
  ELSE FlatMap(route.hosts, LAMBDA h : HostIntersection(h, l.host))

Matching(objs, gws, o, ref) ==
  LET listeners == Admitting(objs, gws, o, ref)
  IN Filtered(listeners, {l \in Range(listeners) : EffectiveHostnames(o, l) # <<>>})

ParentSource(o, ref) ==
  Source(o, [ns |-> ParentNs(o, ref), gateway |-> ref.gateway, section |-> ref.section, port |-> ref.port])

-----------------------------------------------------------------------------
(* HTTPRoutes *)

EveryRequest == [path |-> [kind |-> "Prefix", value |-> <<Slash>>], method |-> None,
                 headers |-> <<>>, query |-> FALSE]

RuleMatches(rule) == IF rule.matches = <<>> THEN <<EveryRequest>> ELSE rule.matches

(* Why a match is skipped. *)
MatchProblem(m) ==
  IF m.query THEN {"QueryMatchUnsupported"}
  ELSE IF HeaderProblem(m.headers) # {} THEN HeaderProblem(m.headers)
  ELSE IF PathRefusal(PathMatch(m.path)) THEN {"InvalidPath"} ELSE {}

(* A rule as attach_rule reads it: its filters and what is behind it. *)
BuiltRule(objs, o, rule, parsed) ==
  [matches |-> RuleMatches(rule), refs |-> rule.refs, timeouts |-> rule.timeouts, parsed |-> parsed,
   backend |-> RuleBackend(objs, o, rule, parsed)]

BuiltRules(objs, o) ==
  [i \in DOMAIN o.rules |-> BuiltRule(objs, o, o.rules[i], ParseFilters(o.rules[i].filters))]

(* A rule with nothing behind it programs nothing. *)
Programs(r) == ~r.parsed.refused /\ r.backend.err = {}

(* The names a listener serves the route under that Sozu can parse. *)
EmittedHosts(o, l) ==
  LET hosts == EffectiveHostnames(o, l) IN Filtered(hosts, {h \in Range(hosts) : ~HostnameRefusal(h)})

Programmed(listeners) == Filtered(listeners, {l \in Range(listeners) : l.programmed})

(* The matches that are not skipped. *)
Matched(r) == Filtered(r.matches, {m \in Range(r.matches) : MatchProblem(m) = {}})

RuleFrontend(a, r, m, l, host) ==
  [frontend |-> [host |-> host, path |-> PathMatch(m.path), method |-> m.method, headers |-> Counted(m.headers),
                 tls |-> l.proto = "HTTPS", listener |-> l.bind, cluster |-> r.backend.id,
                 filters |-> r.parsed.filters],
   source |-> ParentSource(a.route, a.ref)]

(* The frontends of one rule (attach_rule): per match, programmed listener and name. *)
RuleFrontends(a, r) ==
  IF ~Programs(r) THEN <<>>
  ELSE FlatMap(Matched(r), LAMBDA m : FlatMap(Programmed(a.matching),
         LAMBDA l : FlatMap(EmittedHosts(a.route, l), LAMBDA host : <<RuleFrontend(a, r, m, l, host)>>)))

(* A listener would serve the route under a name that Sozu cannot parse. *)
Unparsed(a) ==
  \E l \in Range(Programmed(a.matching)) : \E h \in Range(EffectiveHostnames(a.route, l)) : HostnameRefusal(h)

RuleProblems(a, r) ==
  LET filtered == /\ Len(r.refs) = 1 /\ Head(r.refs).filtered
                  /\ r.backend.err \cap {"NonServiceBackend", "ZeroWeightBackendUnsupported"} = {}
  IN (IF r.parsed.refused \/ r.parsed.dropped \/ filtered THEN {"FilterUnsupported"} ELSE {})
     \cup IF r.parsed.refused THEN {}
          ELSE (IF r.timeouts THEN {"TimeoutsUnsupported"} ELSE {})
               \cup r.backend.err \cup r.backend.warn \cup AppProblem(r.backend)
               \cup IF r.backend.err # {} THEN {}
                    ELSE (UNION {MatchProblem(m) : m \in Range(r.matches)})
                         \cup (IF Unparsed(a) /\ \E m \in Range(r.matches) : MatchProblem(m) = {}
                               THEN {"InvalidHostname"} ELSE {})

(* The rule takes the parent's Accepted away. *)
Overrides(r) ==
  r.parsed.refused \/ (Programs(r) /\ \E m \in Range(r.matches) : MatchProblem(m) = {"UnsupportedValue"})

Parent(a, reason, resolved, problems) ==
  [source |-> ParentSource(a.route, a.ref), index |-> a.index, accepted |-> reason = "Accepted",
   reason |-> reason, resolved |-> resolved, problems |-> problems]

(* An HTTPRoute at a parentRef; its rules are looked at where a listener shares a name with it. *)
HttpParent(a) ==
  IF a.addressable = <<>> THEN Parent(a, "NoMatchingParent", TRUE, {})
  ELSE IF a.admitting = <<>> THEN Parent(a, "NotAllowedByListeners", TRUE, {})
  ELSE IF a.matching = <<>> THEN Parent(a, "NoMatchingListenerHostname", TRUE, {})
  ELSE Parent(a, IF \E r \in Range(a.rules) : Overrides(r) THEN "UnsupportedValue" ELSE "Accepted",
              \A r \in Range(a.rules) : ~r.parsed.refused => r.backend.err \cup AppProblem(r.backend) = {},
              UNION {RuleProblems(a, r) : r \in Range(a.rules)})

(* A route at one of its parentRefs. *)
HttpAttachment(objs, gws, o, i) ==
  LET ref == o.parents[i] IN
  [route |-> o, index |-> i, ref |-> ref, addressable |-> Addressable(gws, o, ref),
   admitting |-> Admitting(objs, gws, o, ref), matching |-> Matching(objs, gws, o, ref),
   rules |-> BuiltRules(objs, o)]

(* The oldest route first, then parentRefs in their order. *)
HttpAttachments(objs, gws) ==
  FlatMap(Sorted(OfKind(objs, "HTTPRoute"), ClaimOrder(OfKind(objs, "HTTPRoute"))),
    LAMBDA o : FlatMap(ParentsInOrder(gws, o), LAMBDA i : <<HttpAttachment(objs, gws, o, i)>>))

HttpFrontends(attachments) ==
  FlatMap(attachments, LAMBDA a : FlatMap(a.rules, LAMBDA r : RuleFrontends(a, r)))

(* The Service ports HTTPRoutes resolved. *)
HttpServices(attachments) ==
  UNION {{r.backend : r \in {q \in Range(a.rules) : Programs(q) /\ q.refs # <<>>}} :
         a \in {b \in Range(attachments) : b.matching # <<>>}}

AttachedTo(a, l, by) ==
  [gateway |-> <<ParentNs(a.route, a.ref), a.ref.gateway>>, listener |-> l.name,
   by |-> <<a.route.kind, a.route.ns, a.route.name>> \o by]

(* A listener's attachedRoutes counts an HTTPRoute for every accepted parentRef. *)
HttpAttached(attachments) ==
  UNION {{AttachedTo(a, l, <<a.index>>) : l \in Range(a.matching)} :
         a \in {b \in Range(attachments) : HttpParent(b).accepted}}

-----------------------------------------------------------------------------
(* TCPRoutes and UDPRoutes *)

L4Routes(objs) == OfKind(objs, "TCPRoute") \o OfKind(objs, "UDPRoute")

L4Attachment(objs, gws, o, i) ==
  LET ref == o.parents[i] IN
  [route |-> o, index |-> i, ref |-> ref, addressable |-> Addressable(gws, o, ref),
   admitting |-> Admitting(objs, gws, o, ref), backend |-> Backend(objs, o, o.refs, "Number", FALSE)]

L4Attachments(objs, gws) ==
  FlatMap(L4Routes(objs),
    LAMBDA o : FlatMap(ParentsInOrder(gws, o), LAMBDA i : <<L4Attachment(objs, gws, o, i)>>))

L4Parent(a) ==
  IF a.addressable = <<>> THEN Parent(a, "NoMatchingParent", TRUE, {})
  ELSE IF a.admitting = <<>> THEN Parent(a, "NotAllowedByListeners", TRUE, {})
  ELSE Parent(a, "Accepted", a.backend.err = {}, a.backend.err \cup a.backend.warn)

L4Claim(a, l) ==
  [proto |-> l.proto, addr |-> l.bind, cluster |-> a.backend.id,
   asks |-> AsksForCheck(The(a.backend.svc)), index |-> a.index, source |-> ParentSource(a.route, a.ref)]

(* One claim per parent and socket of a programmed listener, in the order they are made. *)
L4Claims(attachments) ==
  FlatMap(Filtered(attachments, {a \in Range(attachments) : a.backend.err = {}}),
    LAMBDA a : FlatMap(Programmed(a.admitting), LAMBDA l : <<L4Claim(a, l)>>))

(* Mutant of Holder: every claim holds its socket. *)
EveryClaim(claims, i) == i

(* Whose claim on the socket comes first: the oldest, then the first made. *)
Holder(claims, i) ==
  CHOOSE j \in DOMAIN claims :
    /\ L4Key(claims[j]) = L4Key(claims[i])
    /\ \A k \in DOMAIN claims : L4Key(claims[k]) = L4Key(claims[i]) =>
         \/ Older(claims[j].source, claims[k].source)
         \/ ~Older(claims[k].source, claims[j].source) /\ j <= k

(* The claims that end up routing: the holder's and those that ask for the same. *)
L4Carriers(claims) ==
  {claims[i] : i \in {j \in DOMAIN claims : claims[Holder(claims, j)].cluster = claims[j].cluster}}

L4Frontends(claims) ==
  {[proto |-> claims[i].proto, addr |-> claims[i].addr, cluster |-> claims[i].cluster] :
     i \in {j \in DOMAIN claims : Holder(claims, j) = j}}

(* A lost socket is reported, the route stays accepted. *)
L4Settled(attachments, losers) ==
  {[p EXCEPT !.problems = @ \cup
      IF \E c \in losers : c.source = p.source /\ c.index = p.index THEN {"L4RouteConflict"} ELSE {}] :
     p \in {L4Parent(a) : a \in Range(attachments)}}

L4Services(attachments) ==
  {a.backend : a \in {b \in Range(attachments) : b.admitting # <<>> /\ b.backend.err = {}}}

(* A layer-4 route counts once per listener. *)
L4Attached(attachments) ==
  UNION {{AttachedTo(a, l, <<>>) : l \in Range(a.admitting)} : a \in Range(attachments)}

-----------------------------------------------------------------------------
(* Certificates and results *)

GatewayCerts(gws) == UNION {UNION {l.certs : l \in Range(g.listeners)} : g \in gws}

(* The status of each listener. *)
GatewayResult(g, attached) ==
  LET count(l) == Cardinality({a \in attached : a.gateway = <<g.ns, g.name>> /\ a.listener = l.name})
  IN [ns |-> g.ns, name |-> g.name, at |-> g.at, text |-> g.text,
      accepted |-> ~g.params /\ \E l \in Range(g.listeners) : l.accepted,
      programmed |-> \E l \in Range(g.listeners) : l.programmed,
      problems |-> GatewayProblems(g),
      listeners |-> [i \in DOMAIN g.listeners |->
        [name |-> g.listeners[i].name, accepted |-> g.listeners[i].accepted,
         programmed |-> g.listeners[i].programmed, resolved |-> g.listeners[i].resolved,
         attached |-> count(g.listeners[i])]]]
=============================================================================
