------------------------------ MODULE Builder ------------------------------
(***************************************************************************)
(* The builder (crates/builder/src/lib.rs, build): what the caches hold is  *)
(* compiled into the IR, and what cannot be is reported on the object that  *)
(* asked for it.  Ingresses and Gateway API routes share hostnames, ports,  *)
(* certificates and clusters; whoever asked first keeps them.               *)
(*                                                                         *)
(* The state is what the reflectors hold, a set, the order they list it in  *)
(* and the last build of it; a build follows every change.                  *)
(***************************************************************************)
EXTENDS GatewayBuilder, HeaderLift

CONSTANTS
  ClassIsDefault,   \* BuildConfig::class_is_default
  Families,         \* sets of objects that may meet, and their creation times: [base, pool, stamps]
  Requests          \* sampled requests: [target, method, headers], the headers by name

ASSUME ClassAssumption == ClassIsDefault \in BOOLEAN

(* The kinds whose creation time is read. *)
DatedKinds == {"Ingress", "HTTPRoute", "Gateway", "TCPRoute", "UDPRoute"}

(* A path match, and the parts of the objects that are lists, as the API server admits them. *)
PathKinds == {"Regex", "Exact", "Prefix"}

IsPath(path) ==
  path = [kind |-> path.kind, value |-> path.value] /\ path.kind \in PathKinds /\ IsList(path.value)

IngressLists(o) ==
  IsList(o.rules) /\ \A rule \in Range(o.rules) :
    IsList(rule.paths) /\ \A p \in Range(rule.paths) : IsPath(p.path)

HttpRouteLists(o) ==
  IsList(o.hosts) /\ IsList(o.rules) /\ \A rule \in Range(o.rules) :
    IsList(rule.matches) /\ \A m \in Range(rule.matches) :
      IsPath(m.path) /\ IsList(m.headers) /\ \A h \in Range(m.headers) : IsFiniteSet(h.value)

(* An object as the API server has it: dated, placed among the namespace/name spellings. *)
WellFormed(o) ==
  /\ {"kind", "ns", "name", "at", "text"} \subseteq DOMAIN o
  /\ o.at \in Nat /\ o.text \in Nat
  /\ o.kind = "Secret" => {"chain", "pem"} \subseteq DOMAIN o /\ o.chain \in Nat /\ o.pem \in Nat
  /\ o.kind = "Gateway" => "listeners" \in DOMAIN o /\ IsList(o.listeners)
  /\ o.kind \in {"HTTPRoute", "TCPRoute", "UDPRoute"} => "parents" \in DOMAIN o /\ IsList(o.parents)
  /\ o.kind = "Ingress" => "rules" \in DOMAIN o /\ IngressLists(o)
  /\ o.kind = "HTTPRoute" => {"hosts", "rules"} \subseteq DOMAIN o /\ HttpRouteLists(o)

Ident(o) == <<o.kind, o.ns, o.name>>

(* An ident and, of what is dated, a spelling is one object's, and a listing shows each object once; *)
(* the pool has several versions of some.                                                            *)
ASSUME FamiliesAssumption ==
  \A f \in Families : LET objects == Range(f.base) \cup f.pool IN
    /\ f.base \in Seq(objects) /\ IsInjective(f.base) /\ f.stamps \subseteq Nat
    /\ \A o \in objects : WellFormed(o)
    /\ \A o, p \in {q \in objects : q.kind \in DatedKinds} :
         o.text = p.text => o.ns = p.ns /\ o.name = p.name
    /\ \A o \in Range(f.base), p \in objects : Ident(o) = Ident(p) => o = p /\ o \notin f.pool

VARIABLES
  family,   \* the objects of this run
  held,     \* the objects in the reflector caches
  flipped,  \* the order they are listed in
  out       \* BuildOutput of the last pass

vars == <<family, held, flipped, out>>

-----------------------------------------------------------------------------
(* Ingresses *)

IsOurs(o) ==
  /\ o.kind = "Ingress"
  /\ IF o.class # None THEN o.class = "ours"
     ELSE IF o.legacy # None THEN o.legacy = "ours" ELSE ClassIsDefault

OurIngresses(objs) == Filtered(objs, {o \in Range(objs) : IsOurs(o)})

TlsProblem(objs, o, t) ==
  LET secrets == Named(objs, "Secret", o.ns, t.secret)
  IN IF t.secret = None THEN {"TlsEntryWithoutSecret"}
     ELSE IF t.hosts = {} THEN {"TlsEntryWithoutHosts"}
     ELSE IF secrets = {} THEN {"SecretNotFound"}
     ELSE IF CertRefused(The(secrets), t.hosts) THEN {"InvalidCertificate"} ELSE {}

LoadedTls(objs, o) == {t \in Range(o.tls) : TlsProblem(objs, o, t) = {}}

RuleHost(rule) == IF rule.host = <<>> THEN AnyHost ELSE rule.host

IngressBackend(objs, o, p) ==
  ServiceRoute(objs, o.ns, p.svc, PortRef(IF p.port # 0 THEN "HttpNumber" ELSE "Name", p.port, p.portName))

(* Why a path programs nothing. *)
IngressPathError(p, backend) ==
  IF PathRefusal(PathMatch(p.path)) THEN {"InvalidPath"}
  ELSE IF p.svc = None THEN {"NonServiceBackend"}
  ELSE IF p.port = 0 /\ p.portName = None THEN {"ServicePortNotFound"}
  ELSE backend.err

BuiltPath(rule, p, backend) ==
  [host |-> RuleHost(rule), path |-> PathMatch(p.path), backend |-> backend,
   err |-> IngressPathError(p, backend)]

AdmittedRules(o) == Filtered(o.rules, {rule \in Range(o.rules) : ~HostnameRefusal(RuleHost(rule))})

(* An Ingress with the TLS entries that load and the paths of its rules. *)
BuiltIngress(objs, o) ==
  [ingress |-> o, tls |-> LoadedTls(objs, o),
   tlsProblems |-> UNION {TlsProblem(objs, o, t) : t \in Range(o.tls)},
   paths |-> FlatMap(AdmittedRules(o), LAMBDA rule : FlatMap(rule.paths,
               LAMBDA p : <<BuiltPath(rule, p, IngressBackend(objs, o, p))>>))]

BuiltIngresses(objs) ==
  LET ours == OurIngresses(objs) IN [i \in DOMAIN ours |-> BuiltIngress(objs, ours[i])]

IngressCerts(objs) ==
  UNION {{Certificate(The(Named(objs, "Secret", o.ns, t.secret)), t.hosts, BindFor("HTTPS"),
                      Source(o, NoRef)) : t \in LoadedTls(objs, o)} :
         o \in {p \in Range(objs) : IsOurs(p)}}

(* A name that goes to an older claimant's certificate is HTTPS all the same. *)
TlsReady(b) == UNION {t.hosts : t \in b.tls}

HttpsRedirect ==
  [NoFilters EXCEPT !.redirect =
     {[scheme |-> "https", status |-> 301, host |-> None, path |-> None, port |-> 0]}]

PathFrontend(b, p, tls, filters) ==
  [frontend |-> [host |-> p.host, path |-> p.path, method |-> None, headers |-> {}, tls |-> tls,
                 listener |-> BindFor(IF tls THEN "HTTPS" ELSE "HTTP"),
                 cluster |-> p.backend.id, filters |-> filters],
   source |-> Source(b.ingress, NoRef)]

(* One path: plain HTTP, or a redirect to the HTTPS frontend of a host with a certificate. *)
PathFrontends(b, p) ==
  LET secure == TlsCovers(TlsReady(b), p.host)
  IN IF p.err # {} THEN <<>>
     ELSE <<PathFrontend(b, p, FALSE, IF secure /\ b.ingress.redirect THEN HttpsRedirect ELSE NoFilters)>>
          \o (IF secure THEN <<PathFrontend(b, p, TRUE, NoFilters)>> ELSE <<>>)

IngressFrontends(built) == FlatMap(built, LAMBDA b : FlatMap(b.paths, LAMBDA p : PathFrontends(b, p)))

IngressServices(built) ==
  UNION {{p.backend : p \in {q \in Range(b.paths) : q.err = {}}} : b \in Range(built)}

IngressResult(b) ==
  [source |-> Source(b.ingress, NoRef), index |-> 1,
   problems |-> b.tlsProblems
     \cup (IF b.ingress.defaultBackend THEN {"DefaultBackendUnsupported"} ELSE {})
     \cup (IF AdmittedRules(b.ingress) # b.ingress.rules THEN {"InvalidHostname"} ELSE {})
     \cup UNION {p.err \cup IF p.err # {} THEN {} ELSE p.backend.warn \cup AppProblem(p.backend) :
                 p \in Range(b.paths)}]

-----------------------------------------------------------------------------
(* Route keys *)

Numbered(frontends) ==
  [i \in DOMAIN frontends |-> [n |-> i, frontend |-> frontends[i].frontend, source |-> frontends[i].source]]

(* Mutant of ByClaim: the order they were emitted in. *)
ByEmission(frontends) == Numbered(frontends)

(* The oldest claimant first, an object's own frontends in the order it emits them. *)
ByClaim(frontends) ==
  Sorted(Numbered(frontends), ClaimOrder([i \in DOMAIN frontends |-> frontends[i].source]))

(* Who keeps the route key of s. *)
Winner(sorted, s) ==
  The(FirstOf(sorted, LAMBDA t : RouteKey(t.frontend) = RouteKey(s.frontend)))

Kept(sorted) == Filtered(sorted, {s \in Range(sorted) : Winner(sorted, s) = s})

(* A frontend that loses its key to one that is not its own and does something else, or that *)
(* matches something else and only shares the spelling of Sozu's key.                         *)
Collides(sorted, s) ==
  LET w == Winner(sorted, s)
  IN ~(SameMatch(w.frontend, s.frontend)
       /\ (Owner(w.source) = Owner(s.source) \/ SameEffect(w.frontend, s.frontend)))

Collisions(sorted) == {s.source : s \in {t \in Range(sorted) : Collides(sorted, t)}}

(* Mutant of Folded: what another source asked for too is forgotten. *)
FoldedForgotten(sorted) == {}

(* Identical to the one kept, from another source: its traffic is theirs too. *)
Folded(sorted) ==
  {s \in Range(sorted) :
     LET w == Winner(sorted, s)
     IN /\ SameMatch(w.frontend, s.frontend) /\ SameEffect(w.frontend, s.frontend)
        /\ s.source # w.source}

(* The sources of the header matches that were given up, those folded into them included. *)
SkipSources(kept, folded, skipped) ==
  {kept[i].source : i \in skipped}
  \cup {s.source : s \in {t \in folded : \E i \in skipped : RouteKey(t.frontend) = RouteKey(kept[i].frontend)}}

-----------------------------------------------------------------------------
(* SNI names *)

(* Ahead in the arbitration: older, then by kind. *)
Ahead(s, t) == Older(s, t) \/ (~Older(t, s) /\ KindRank(s.kind) < KindRank(t.kind))

Naming(certs, bind, name) == {c \in certs : c.listener = bind /\ name \in c.names}

Claimant(certs, bind, name) ==
  LET rivals == Naming(certs, bind, name)
  IN Owner((CHOOSE c \in rivals : \A d \in rivals :
              Owner(c.source) = Owner(d.source) \/ Ahead(c.source, d.source)).source)

(* Mutant of KeptNames: a certificate keeps every name of a leaf the claimant loaded for any. *)
NamesOfLeaf(certs, c) ==
  {name \in c.names : \E d \in certs :
     /\ d.listener = c.listener /\ d.fp = c.fp
     /\ \E n \in d.names : Owner(d.source) = Claimant(certs, c.listener, n)}

(* arbitrate_certificate_names: a name stays on the certificates its oldest claimant loaded for it. *)
KeptNames(certs, c) ==
  {name \in c.names : \E d \in Naming(certs, c.listener, name) :
     d.fp = c.fp /\ Owner(d.source) = Claimant(certs, c.listener, name)}

LostNames(certs) == {c.source : c \in {d \in certs : KeptNames(certs, d) # d.names}}

(* The entries of one leaf, those left without a name included. *)
Leaf(certs, c) == {d \in certs : d.listener = c.listener /\ d.fp = c.fp}

LongestChain(leaf) == Max({d.chain : d \in leaf})

(* served_first: the smallest text of the longest chains. *)
FirstPem(leaf) == Min({d.pem : d \in {e \in leaf : e.chain = LongestChain(leaf)}})

(* merge_certificates: one entry per leaf. *)
MergedCerts(certs) ==
  LET merged == {[listener |-> c.listener, fp |-> c.fp,
                  names |-> UNION {KeptNames(certs, d) : d \in Leaf(certs, c)},
                  chain |-> LongestChain(Leaf(certs, c)), pem |-> FirstPem(Leaf(certs, c))] : c \in certs}
  IN {c \in merged : c.names # {}}

-----------------------------------------------------------------------------
(* Health checks *)

(* The frontends that send a request to their cluster. *)
Proxied(served) ==
  {[cluster |-> s.frontend.cluster, source |-> s.source] :
     s \in {t \in served : t.frontend.filters.redirect = {} /\ t.frontend.cluster # NoCluster}}

CarriedBy(carriers, proto) == {c.cluster : c \in {d \in carriers : d.proto = proto}}

(* The sources told that a check does not run: a UDP route took the cluster. *)
CheckReports(clusters, proxied, carriers) ==
  LET checked == {c.id : c \in {d \in clusters : d.check # None}}
      lost == CarriedBy(carriers, "UDP") \cap checked
      shared == CarriedBy(carriers, "TCP") \cup {p.cluster : p \in proxied}
  IN {<<c.source, c.index>> : c \in {d \in carriers :
        d.cluster \in lost /\ (d.proto = "TCP" \/ d.cluster \in shared \/ d.asks)}}
     \cup {<<p.source, 0>> : p \in {q \in proxied : q.cluster \in lost}}

(* settle_health_checks: a check stays where TCP traffic goes, and no datagram. *)
SettledClusters(clusters, proxied, carriers) ==
  LET probed == (CarriedBy(carriers, "TCP") \cup {p.cluster : p \in proxied}) \ CarriedBy(carriers, "UDP")
  IN {[c EXCEPT !.check = IF c.id \in probed THEN @ ELSE None] : c \in clusters}

-----------------------------------------------------------------------------
(* The build *)

(* A report goes to the first result with the source; index 0 leaves the parent open. *)
Told(reports, result, results) ==
  \/ <<result.source, result.index>> \in reports
  \/ <<result.source, 0>> \in reports
     /\ ~\E r \in results : r.source = result.source /\ r.index < result.index

Reported(result, results, skips, checks) ==
  [result EXCEPT !.problems = @
     \cup (IF Told(skips, result, results) THEN {"HeaderMatchSkipped"} ELSE {})
     \cup (IF Told(checks, result, results) THEN {"HealthCheckNotApplied"} ELSE {})]

AnyParent(sources) == {<<s, 0>> : s \in sources}

(* A route that lost a key to another stops reading accepted. *)
Downgraded(result, results, collisions) ==
  IF ~Told(AnyParent(collisions), result, results) THEN result
  ELSE [result EXCEPT !.problems = @ \cup {"RouteCollision"}, !.accepted = FALSE, !.reason = "RouteCollision"]

(* What the objects ask for, before they meet. *)
Collected(objs, gws, ingresses, http, l4, claims) ==
  [frontends |-> IngressFrontends(ingresses) \o HttpFrontends(http),
   certs |-> IngressCerts(objs) \cup GatewayCerts(gws),
   claims |-> claims,
   http |-> IngressServices(ingresses) \cup HttpServices(http),
   l4 |-> L4Services(l4),
   ingresses |-> {IngressResult(b) : b \in Range(ingresses)},
   parents |-> {HttpParent(a) : a \in Range(http)} \cup L4Settled(l4, Range(claims) \ L4Carriers(claims)),
   gateways |-> {GatewayResult(g, HttpAttached(http) \cup L4Attached(l4)) : g \in gws}]

(* The routes that stay, what they are copied to, and whom it costs something. *)
Routed(kept, folded, collisions, lifted) ==
  LET served == {kept[i] : i \in DOMAIN kept \ lifted.skipped}
      order == Filtered(kept, served)
  IN [served |-> served, collisions |-> collisions,
      frontends |-> [i \in DOMAIN order |-> order[i].frontend]
                    \o AsSequence({e.rule : e \in lifted.copies}),
      proxied |-> Proxied(served \cup {s \in folded : \E t \in served : RouteKey(t.frontend) = RouteKey(s.frontend)}),
      skips |-> AnyParent(SkipSources(kept, folded, lifted.skipped))]

Arbitrated(sorted, kept) ==
  Routed(kept, Folded(sorted), Collisions(sorted), Lift([i \in DOMAIN kept |-> kept[i].frontend]))

(* The IR, and every problem on the object it belongs to. *)
Output(objs, c, routes, clusters, carriers, lost) ==
  LET checks == CheckReports(clusters, routes.proxied, carriers)
      told(r, results) == Reported(r, results, routes.skips, checks)
  IN [ir |-> [clusters |-> SettledClusters(clusters, routes.proxied, carriers),
              backends |-> Backends(objs, c.http \cup c.l4),
              frontends |-> routes.frontends,
              l4 |-> L4Frontends(c.claims),
              certs |-> MergedCerts(c.certs)],
      ingresses |-> {[told(r, c.ingresses) EXCEPT !.problems = @
                        \cup (IF r.source \in routes.collisions THEN {"RouteCollision"} ELSE {})
                        \cup (IF r.source \in lost THEN {"CertificateNameClaimed"} ELSE {})] : r \in c.ingresses},
      parents |-> {Downgraded(told(r, c.parents), c.parents, routes.collisions) : r \in c.parents},
      gateways |-> {[g EXCEPT !.problems = @ \cup
                       (IF \E s \in lost : s.kind = "Gateway" /\ s.ns = g.ns /\ s.name = g.name
                        THEN {"CertificateNameClaimed"} ELSE {})] : g \in c.gateways},
      asked |-> Range(c.frontends), certs |-> c.certs, carriers |-> carriers, claims |-> Range(c.claims),
      served |-> {[frontend |-> s.frontend, source |-> s.source] : s \in routes.served}]

Settled(objs, c, sorted) ==
  Output(objs, c, Arbitrated(sorted, Kept(sorted)), Clusters(c.http \cup c.l4, c.http),
         L4Carriers(c.claims), LostNames(c.certs))

Arbitrate(objs, c) == Settled(objs, c, ByClaim(c.frontends))

Attached(objs, gws, http, l4) ==
  Arbitrate(objs, Collected(objs, gws, BuiltIngresses(objs), http, l4, L4Claims(l4)))

BuildOn(objs, gws) == Attached(objs, gws, HttpAttachments(objs, gws), L4Attachments(objs, gws))

Build(objs) == BuildOn(objs, BuiltGateways(objs))

-----------------------------------------------------------------------------
(* The caches change, in any order: watches of different kinds are not synchronised. *)

(* The stores are hash maps: a listing and its reverse show every two objects in both orders. *)
Listed(objs, reversed) ==
  LET listing == family.base \o AsSequence(objs)
  IN IF reversed THEN Reverse(listing) ELSE listing

live == Listed(held, flipped)

(* The pass that follows a change. *)
Rebuild ==
  /\ out' = Build(Listed(held', flipped'))
  /\ UNCHANGED family

(* An object appears, with the time the API server gave it. *)
Observe ==
  /\ \E o \in family.pool : \E at \in IF o.kind \in DatedKinds THEN family.stamps ELSE {NoStamp} :
       /\ \A h \in held : Ident(h) # Ident(o)
       /\ held' = held \cup {[o EXCEPT !.at = at]}
  /\ UNCHANGED flipped
  /\ Rebuild

(* An object is edited and keeps its creation time. *)
Modify ==
  /\ \E o \in family.pool, h \in held :
       /\ Ident(h) = Ident(o) /\ h # [o EXCEPT !.at = h.at]
       /\ held' = (held \ {h}) \cup {[o EXCEPT !.at = h.at]}
  /\ UNCHANGED flipped
  /\ Rebuild

Disappear ==
  /\ \E h \in held : held' = held \ {h}
  /\ UNCHANGED flipped
  /\ Rebuild

(* A relist hands the same objects out in another order. *)
Relist ==
  /\ flipped' = ~flipped
  /\ UNCHANGED held
  /\ Rebuild

Init ==
  /\ family \in Families
  /\ held = {} /\ flipped = FALSE
  /\ out = Build(family.base)

Next == Observe \/ Modify \/ Disappear \/ Relist

Spec == Init /\ [][Next]_vars

-----------------------------------------------------------------------------
(* Properties *)

Healthy(p) == p.accepted /\ p.resolved /\ p.problems = {}

(* The attachment a parent reports on. *)
AttachmentOf(attachments, p) ==
  The({a \in Range(attachments) : a.index = p.index /\ ParentSource(a.route, a.ref) = p.source})

(* What the frontend of a match would look like, whatever it does. *)
Matches(f, m, l, host) ==
  /\ f.host = host /\ f.listener = l.bind /\ f.tls = (l.proto = "HTTPS")
  /\ SozuRule(f.path) = SozuRule(PathMatch(m.path)) /\ f.method = m.method /\ f.headers = Counted(m.headers)

DoesAs(f, r) == f.cluster = r.backend.id /\ f.filters = r.parsed.filters

(* The status of the listener says that nothing is behind it. *)
Unprogrammed(a, l) ==
  \E g \in out.gateways : /\ g.ns = ParentNs(a.route, a.ref) /\ g.name = a.ref.gateway
                          /\ \E k \in Range(g.listeners) : k.name = l.name /\ ~k.programmed /\ ~k.resolved

(* An HTTPRoute at a parent: every match of every rule, under every name it shares with a listener *)
(* that admits it, does what the rule says, or what another rule of that route with the same match *)
(* says; or the listener itself reads unprogrammed.                                                *)
RouteServed(a) ==
  \A rule \in Range(a.rules) : \A m \in Range(rule.matches) : \A l \in Range(a.matching) :
    Unprogrammed(a, l) \/ \A host \in Range(EffectiveHostnames(a.route, l)) :
      \E f \in Range(out.ir.frontends) :
        /\ Matches(f, m, l, host)
        /\ \E r \in Range(a.rules) : DoesAs(f, r) /\ \E n \in Range(r.matches) : Matches(f, n, l, host)

IngressServed(o) ==
  \A rule \in Range(o.rules) : \A p \in Range(rule.paths) :
    \E f \in Range(out.ir.frontends) :
      /\ f.host = RuleHost(rule) /\ SozuRule(f.path) = SozuRule(PathMatch(p.path))
      /\ ~f.tls /\ f.method = None /\ f.headers = {}
      /\ \E q \in UNION {Range(d.paths) : d \in Range(o.rules)} : f.cluster = IngressBackend(live, o, q).id

SocketServed(a) ==
  \A l \in Range(a.admitting) :
    \E f \in out.ir.l4 : f.proto = l.proto /\ f.addr = l.bind /\ f.cluster = a.backend.id

ParentServed(p) ==
  IF p.source.kind = "HTTPRoute"
  THEN RouteServed(AttachmentOf(HttpAttachments(live, BuiltGateways(live)), p))
  ELSE SocketServed(AttachmentOf(L4Attachments(live, BuiltGateways(live)), p))

(* A parentRef of an HTTPRoute that spells an earlier one otherwise: both have one source, and what *)
(* is lost is reported on the earlier one.                                                          *)
Twin(p) ==
  p.source.kind = "HTTPRoute" /\ \E q \in out.parents : q.source = p.source /\ q.index < p.index

(* Nothing is dropped in silence: what reads healthy is in the IR, after collisions with other     *)
(* objects, skipped header matches, lost sockets and unparseable names, or its listener says that  *)
(* it is not programmed (build; gateway.rs attach_rule "so the route never reads healthy while     *)
(* nothing is programmed").  A parentRef that is another's twin is excepted.                        *)
HealthyMeansServed ==
  /\ \A p \in out.parents : Healthy(p) /\ ~Twin(p) => ParentServed(p)
  /\ \A r \in out.ingresses : r.problems = {} =>
       IngressServed(The(Named(live, "Ingress", r.source.ns, r.source.name)))

(* The comments on the report of a collision, "the loser must be the parent that produced the      *)
(* colliding frontend, not the first match" and "A losing route must not read fully healthy", say  *)
(* it of twins too (build).                                                                         *)
LosersReadUnhealthy == \A p \in out.parents : Healthy(p) => ParentServed(p)

(* Translation is all or nothing: no set of objects makes an IR that Sozu or the translator     *)
(* refuses (attach_l4_routes, admit_path, admit_hostname, resolve_frontend_collisions).         *)
BuildTranslates ==
  LET F == out.ir.frontends IN
  /\ ~L4Conflict(out.ir) /\ ~UnknownCluster(out.ir)
  /\ \A i, j \in DOMAIN F : RouteKey(F[i]) = RouteKey(F[j]) => i = j
  /\ \A i \in DOMAIN F : ~HostnameRefusal(F[i].host) /\ ~PathRefusal(F[i].path)

(* The order the caches list their objects in decides nothing: what Sozu holds and what every   *)
(* status says is the same after a relist, or they would flip between passes.                   *)
RelistChangesNothing == [][held' = held => out' = out]_vars

(* Who holds a route key, an SNI name and a socket, and who asks for it. *)
KeyHolders == {[what |-> <<"key", RouteKey(s.frontend)>>, by |-> s.source] : s \in out.served}

SniHolders ==
  {[what |-> <<"sni", c[1].listener, c[2]>>, by |-> c[1].source] :
     c \in {d \in out.certs \X UNION {e.names : e \in out.certs} :
              d[2] \in d[1].names /\ Owner(d[1].source) = Claimant(out.certs, d[1].listener, d[2])
              /\ \E m \in out.ir.certs : m.listener = d[1].listener /\ m.fp = d[1].fp /\ d[2] \in m.names}}

SocketHolders ==
  {[what |-> <<"socket", L4Key(f)>>, by |-> (CHOOSE c \in out.carriers :
      L4Key(c) = L4Key(f) /\ \A d \in out.carriers : L4Key(d) = L4Key(f) => ~Older(d.source, c.source)).source] :
     f \in out.ir.l4}

Holdings == KeyHolders \cup SniHolders \cup SocketHolders

Asks ==
  {[what |-> <<"key", RouteKey(s.frontend)>>, by |-> s.source] : s \in out.asked}
  \cup {[what |-> <<"sni", c[1].listener, c[2]>>, by |-> c[1].source] :
          c \in {d \in out.certs \X UNION {e.names : e \in out.certs} : d[2] \in d[1].names}}
  \cup {[what |-> <<"socket", L4Key(c)>>, by |-> c.source] : c \in out.claims}

(* Created later, as far as the API server dates them. *)
Newer(s, t) == t.at # NoStamp /\ (s.at = NoStamp \/ s.at > t.at)

(* No newcomer takes what an older object has and still asks for, whatever is observed or edited *)
(* in between and whatever its backend, its name or its certificate (OwnerClaim "so no tenant    *)
(* can take a host+path from an older one").                                                      *)
NewcomerTakesNothing ==
  [][\A h \in Holdings, g \in Holdings' :
       /\ h.what = g.what /\ Owner(h.by) # Owner(g.by)
       /\ [what |-> h.what, by |-> h.by] \in Asks'
       => ~Newer(g.by, h.by)]_vars

(* For every name some certificate was loaded for, the certificates that carry it are the ones   *)
(* one claimant loaded for it, and a leaf is served with the longest chain any Secret has for it, *)
(* of those the first in the order of their texts (arbitrate_certificate_names, served_first).    *)
NamesOwned ==
  /\ \A c \in out.certs : \A name \in c.names :
       /\ \E m \in out.ir.certs : m.listener = c.listener /\ name \in m.names
       /\ \E owner \in {Owner(d.source) : d \in Naming(out.certs, c.listener, name)} :
            \A m \in out.ir.certs : m.listener = c.listener /\ name \in m.names =>
              \E d \in Naming(out.certs, c.listener, name) : d.fp = m.fp /\ Owner(d.source) = owner
  /\ \A m \in out.ir.certs, c \in out.certs :
       m.listener = c.listener /\ m.fp = c.fp =>
         m.chain > c.chain \/ (m.chain = c.chain /\ m.pem <= c.pem)

(* The Service behind a cluster wants a check. *)
WantsCheck(id) ==
  \E s \in Range(OfKind(live, "Service")) :
    s.ns = id[1] /\ s.name = id[2] /\ HealthCheck(s) = "tcp"

(* A check runs only where TCP traffic goes, and an object whose requests go unchecked though    *)
(* its Service wants them checked is told so, also when another object's identical route is the  *)
(* one Sozu holds (settle_health_checks).                                                         *)
ChecksSettled ==
  LET unchecked == {c.id : c \in {d \in out.ir.clusters : d.check = None /\ WantsCheck(d.id)}}
      sends(f) == f.filters.redirect = {} /\ f.cluster \in unchecked
      results == out.parents \cup out.ingresses
      told(source) == \E r \in results : r.source = source /\ "HealthCheckNotApplied" \in r.problems
  IN /\ \A c \in out.ir.clusters : c.check # None =>
          /\ \/ \E i \in DOMAIN out.ir.frontends :
                  out.ir.frontends[i].cluster = c.id /\ out.ir.frontends[i].filters.redirect = {}
             \/ \E f \in out.ir.l4 : f.cluster = c.id /\ f.proto = "TCP"
          /\ ~\E f \in out.ir.l4 : f.cluster = c.id /\ f.proto = "UDP"
     /\ \A a \in out.asked : sends(a.frontend)
          /\ (\E s \in out.served : SameMatch(s.frontend, a.frontend) /\ SameEffect(s.frontend, a.frontend))
          => told(a.source)
     /\ \A c \in out.carriers : c.proto = "TCP" /\ c.cluster \in unchecked => told(c.source)

-----------------------------------------------------------------------------
(* Requests *)

(* The user regexes of the model: one that matches everything, and texts that read like a compiled *)
(* Exact path, which match as it does, or go on after its anchor and match nothing.                 *)
RegexMeets(value, target) ==
  \/ value = <<"any">>
  \/ \E n \in 0..Len(target) : LET exact == SubSeq(target, 1, n) IN
       /\ <<"R">> \o value = SozuRule([kind |-> "Exact", value |-> exact])
       /\ target = exact \/ Queried(target, exact)

(* Whether a frontend matches a request. *)
Meets(f, r) ==
  /\ CASE f.path.kind = "Exact" -> r.target = f.path.value \/ Queried(r.target, f.path.value)
       [] f.path.kind = "Prefix" -> PrefixCovers(f.path.value, r.target)
       [] f.path.kind = "Regex" -> RegexMeets(f.path.value, r.target)
  /\ f.method \in {None, r.method}
  /\ \A h \in f.headers : r.headers[h.name] \in h.value

(* Which of the predicated frontends S, all matching, Sozu serves in some order it may hold them: *)
(* the first of a list, a regex that names the method at once, else the last regex or root prefix *)
(* that is no shorter than what was found before.                                                  *)
MayServe(F, S, host, target) ==
  LET as(kind) == {i \in S : TreeOffer(F[i]).as = kind}
  IN IF host = AnyHost THEN S
     ELSE IF as("RegexWithMethod") # {} THEN as("RegexWithMethod")
     ELSE IF as("Regex") # {} /\ Len(target) > 1 THEN as("Regex")
     ELSE S

(* Whatever the order Sozu holds its routes in, a request that meets a header match is served as *)
(* the Gateway API ranks the routes that were kept: path, method, number of header matches, age  *)
(* (lift_header_matches).                                                                         *)
PrecedenceHeld ==
  LET F == out.ir.frontends
      own == 1..Cardinality(out.served)
      before(i, j) == GwPrecedence(F[i], F[j]) > 0 \/ (GwPrecedence(F[i], F[j]) = 0 /\ i < j)
  IN \A g \in Groups(F), r \in Requests :
       LET met == {i \in Members(F, g) : Meets(F[i], r)}
       IN \A c \in MayServe(F, HeaderMatched(F, met), g[3], r.target) :
            \E i \in met \cap own :
              /\ SameEffect(F[i], F[c])
              /\ \A j \in met \cap own : before(j, i) => SameEffect(F[j], F[c])
=============================================================================
