----------------------------- MODULE Translator -----------------------------
(***************************************************************************)
(* The translator (crates/translator/src/lib.rs and replay.rs): the batch   *)
(* of requests that leads from one IR to another, the order it is sent in,  *)
(* and the baseline after a batch stopped part-way.  The batch meets a      *)
(* Sozu (ConfigState of 2.3.2) that refuses what comes at the wrong time.   *)
(*                                                                         *)
(* An IR is a record of sets of objects; its frontends are a sequence,      *)
(* since the first of two on one key wins.  A chain is a number, larger for *)
(* a longer one.  The JSON text requests are sorted by within a rank is any *)
(* order.                                                                  *)
(***************************************************************************)
EXTENDS RoutingIR

CONSTANTS
  IRs,       \* the states the builder may ask for
  MaxStops   \* bound: batches that stop part-way

ASSUME StopsAssumption == MaxStops \in Nat

BackendKey(b) == <<b.cluster, b.id>>

(* What the builder emits has its frontends in sequence, one cluster to an id, which is not empty, *)
(* one backend to a key, and finitely many certificates.                                           *)
ASSUME IRsAssumption ==
  \A ir \in IRs :
    /\ ir.frontends \in Seq(Range(ir.frontends))
    /\ \A c \in ir.clusters : c.id # NoCluster /\ \A d \in ir.clusters : c.id = d.id => c = d
    /\ \A b, d \in ir.backends : BackendKey(b) = BackendKey(d) => b = d
    /\ IsFiniteSet(ir.certs)

-----------------------------------------------------------------------------
(* IR element -> request payloads *)

(* cluster_request: datagrams take no per-IP cap and no health check. *)
ClusterPayload(c, udp) ==
  [id |-> c.id, config |-> c.config, check |-> IF udp THEN None ELSE c.check, udp |-> udp]

ClusterPayloads(ir) ==
  LET udp == {f.cluster : f \in {g \in ir.l4 : g.proto = "Udp"}}
  IN {ClusterPayload(c, c.id \in udp) : c \in ir.clusters}

(* frontend_payload, under the key Sozu files it by *)
FrontendPayload(f) == [key |-> RouteKey(f), cluster |-> f.cluster, filters |-> f.filters]

(* Mutant of UniqueFrontends: every frontend is sent. *)
EveryFrontend(ir) == {FrontendPayload(ir.frontends[i]) : i \in DOMAIN ir.frontends}

(* unique_frontends, http_frontend_requests: the first on a key wins. *)
UniqueFrontends(ir) ==
  {FrontendPayload(ir.frontends[i]) :
     i \in {j \in DOMAIN ir.frontends :
              \A k \in 1..(j - 1) : RouteKey(ir.frontends[k]) # RouteKey(ir.frontends[j])}}

(* keyed_certs: one entry per listener and fingerprint, with the names of all of its entries *)
(* and the longest chain.                                                                     *)
SameCert(c, d) == c.listener = d.listener /\ c.fp = d.fp

KeyedCerts(certs) ==
  {LET group == {d \in certs : SameCert(c, d)}
   IN [listener |-> c.listener, fp |-> c.fp, names |-> UNION {d.names : d \in group},
       chain |-> Max({d.chain : d \in group})] : c \in certs}

-----------------------------------------------------------------------------
(* Sozu's ConfigState *)

(* routing_state: the state an IR describes. *)
RoutingState(ir) ==
  [clusters |-> ClusterPayloads(ir), backends |-> ir.backends, routes |-> UniqueFrontends(ir),
   l4 |-> ir.l4, listeners |-> {L4Key(f) : f \in ir.l4}, active |-> {L4Key(f) : f \in ir.l4}]

Request(verb, obj) == [verb |-> verb, obj |-> obj, old |-> None]
Replace(cert, old) == [verb |-> "ReplaceCertificate", obj |-> cert, old |-> old]

(* What S stores in the slot of request r, in the set the request is about. *)
Held(S, r) ==
  CASE r.verb \in {"AddCluster", "RemoveCluster"} -> {c \in S.clusters : c.id = r.obj.id}
    [] r.verb \in {"AddBackend", "RemoveBackend"} ->
         {b \in S.backends : BackendKey(b) = BackendKey(r.obj)}
    [] r.verb \in {"AddFrontend", "RemoveFrontend"} -> {f \in S.routes : f.key = r.obj.key}
    [] r.verb \in {"AddL4", "RemoveL4"} -> {f \in S.l4 : L4Key(f) = L4Key(r.obj)}
    [] r.verb \in {"AddListener", "ActivateListener", "DeactivateListener", "RemoveListener"} ->
         S.listeners \cap {r.obj}

(* Why ConfigState::dispatch refuses r, None when it takes it. *)
Refusal(S, r) ==
  CASE r.verb \in {"AddFrontend", "AddL4", "AddListener"} /\ Held(S, r) # {} -> "Exists"
    [] r.verb = "AddBackend" /\ \A c \in S.clusters : c.id # r.obj.cluster -> "ClusterNotFound"
    [] r.verb \in {"RemoveFrontend", "RemoveL4"}
         /\ \A f \in Held(S, r) : f.cluster # r.obj.cluster -> "NotFound"
    [] r.verb \in {"RemoveCluster", "RemoveBackend", "ActivateListener", "DeactivateListener",
                   "RemoveListener"} /\ Held(S, r) = {} -> "NotFound"
    [] OTHER -> None

(* What a routing request makes of S; a cluster takes along what names it. *)
Dispatched(S, r) ==
  LET held == Held(S, r) IN
  CASE r.verb = "AddCluster" -> [S EXCEPT !.clusters = (@ \ held) \cup {r.obj}]
    [] r.verb = "AddBackend" -> [S EXCEPT !.backends = (@ \ held) \cup {r.obj}]
    [] r.verb = "AddFrontend" -> [S EXCEPT !.routes = @ \cup {r.obj}]
    [] r.verb = "AddL4" -> [S EXCEPT !.l4 = @ \cup {r.obj}]
    [] r.verb = "AddListener" -> [S EXCEPT !.listeners = @ \cup {r.obj}]
    [] r.verb = "ActivateListener" -> [S EXCEPT !.active = @ \cup {r.obj}]
    [] r.verb = "RemoveBackend" -> [S EXCEPT !.backends = @ \ held]
    [] r.verb = "RemoveFrontend" -> [S EXCEPT !.routes = @ \ held]
    [] r.verb = "RemoveL4" -> [S EXCEPT !.l4 = @ \ held]
    [] r.verb = "DeactivateListener" -> [S EXCEPT !.active = @ \ {r.obj}]
    [] r.verb = "RemoveListener" -> [S EXCEPT !.listeners = @ \ {r.obj}, !.active = @ \ {r.obj}]
    [] r.verb = "RemoveCluster" ->
         LET others(objects) == {o \in objects : o.cluster # r.obj.id}
         IN [S EXCEPT !.clusters = @ \ held, !.backends = others(@), !.routes = others(@),
                      !.l4 = others(@)]

(* evict: what another cluster stores under the key goes. *)
Evicted(S, r) ==
  CASE r.verb \in {"AddFrontend", "RemoveFrontend"} -> [S EXCEPT !.routes = @ \ Held(S, r)]
    [] r.verb \in {"AddL4", "RemoveL4"} -> [S EXCEPT !.l4 = @ \ Held(S, r)]
    [] OTHER -> S

Teardowns ==
  {"RemoveCluster", "RemoveBackend", "RemoveFrontend", "RemoveL4", "RemoveListener",
   "DeactivateListener"}

(* settle: whether the agent gets r acknowledged, by itself or by what it does about a refusal. *)
Settles(S, r) ==
  LET refusal == Refusal(S, r) IN
  \/ refusal = None
  \/ refusal = "NotFound" /\ r.verb \in Teardowns
  \/ refusal = "Exists"

Settled(S, r) ==
  LET refusal == Refusal(S, r) IN
  CASE refusal = None -> Dispatched(S, r)
    [] refusal = "NotFound" -> Evicted(S, r)
    [] refusal = "Exists" /\ r.verb = "AddListener" -> S
    [] refusal = "Exists" /\ r.verb # "AddListener" -> Dispatched(Evicted(S, r), r)
-----------------------------------------------------------------------------
(* The routing half of a batch *)

Requests(verb, objects) == {Request(verb, o) : o \in objects}

RemovedClusters(from, to) ==
  {c \in from.clusters : \A d \in to.clusters : d.id # c.id}

(* ConfigState::diff: a cluster's removal stands for the removal of what names it, and what *)
(* changed in place is removed and added.                                                    *)
ConfigDiff(from, to) ==
  LET gone == {c.id : c \in RemovedClusters(from, to)}
      kept(objects) == {o \in objects : o.cluster \notin gone}
  IN Requests("RemoveCluster", RemovedClusters(from, to))
     \cup Requests("AddCluster", to.clusters \ from.clusters)
     \cup Requests("RemoveBackend", kept(from.backends \ to.backends))
     \cup Requests("AddBackend", to.backends \ from.backends)
     \cup Requests("RemoveFrontend", kept(from.routes \ to.routes))
     \cup Requests("AddFrontend", to.routes \ from.routes)
     \cup Requests("RemoveL4", kept(from.l4 \ to.l4))
     \cup Requests("AddL4", to.l4 \ from.l4)
     \cup Requests("DeactivateListener", from.listeners \ to.listeners)
     \cup Requests("RemoveListener", from.listeners \ to.listeners)
     \cup Requests("AddListener", to.listeners \ from.listeners)
     \cup Requests("ActivateListener", to.listeners \ from.listeners)

(* Mutant of ExpandClusterRemovals: the cascade is left to do its work. *)
ExpandNothing(from, batch) == batch

(* expand_cluster_removals: what a removed cluster takes along is removed before it. *)
ExpandClusterRemovals(from, batch) ==
  LET gone == {r.obj.id : r \in {s \in batch : s.verb = "RemoveCluster"}}
      owned(objects) == {o \in objects : o.cluster \in gone}
  IN batch \cup Requests("RemoveBackend", owned(from.backends))
           \cup Requests("RemoveFrontend", owned(from.routes))
           \cup Requests("RemoveL4", owned(from.l4))

(* drop_superseded_backend_removes: an add is an upsert, the removal of its key stale. *)
DropSuperseded(batch) ==
  LET added == {BackendKey(r.obj) : r \in {s \in batch : s.verb = "AddBackend"}}
  IN {r \in batch : ~(r.verb = "RemoveBackend" /\ BackendKey(r.obj) \in added)}

Tiers ==
  [AddListener |-> 0, ActivateListener |-> 1, AddCluster |-> 2, AddBackend |-> 3,
   AddCertificate |-> 4, ReplaceCertificate |-> 4, RemoveFrontend |-> 5, RemoveL4 |-> 5,
   AddFrontend |-> 6, AddL4 |-> 6, RemoveBackend |-> 7, RemoveCertificate |-> 9,
   DeactivateListener |-> 10, RemoveListener |-> 11, RemoveCluster |-> 12]

(* Mutant of Tier: clusters go as soon as their backends have. *)
TierClustersEarly(verb) == IF verb = "RemoveCluster" THEN 8 ELSE Tiers[verb]

(* tier *)
Tier(verb) == Tiers[verb]

-----------------------------------------------------------------------------
(* The certificate half *)

(* In-place replacements: of each certificate kept, what it is given and what is taken off it. *)
Updates(from, to) ==
  {[cert |-> p[2], gives |-> p[2].names \ p[1].names, takes |-> p[1].names \ p[2].names] :
     p \in {q \in KeyedCerts(from) \X KeyedCerts(to) : SameCert(q[1], q[2]) /\ q[1] # q[2]}}

Trades(from, to) == {u \in Updates(from, to) : u.gives # {} /\ u.takes # {}}

(* A name moves from u to t: t gives what u takes. *)
Feeds(t, u) == t.cert.listener = u.cert.listener /\ t.gives \cap u.takes # {}

(* Transfers lead from t to u: what gives to t gives, by way of others, to u too. *)
Reaches(trades, t, u) ==
  \A X \in SUBSET trades :
    t \in X /\ (\A a \in X, b \in trades : Feeds(a, b) => b \in X) => u \in X

(* Trades whose transfers form a cycle with t's (strongly_connected). *)
OnCycleWith(trades, t) == {u \in trades : Reaches(trades, t, u) /\ Reaches(trades, u, t)}

Components(trades) == {OnCycleWith(trades, t) : t \in trades}

(* The components that wait for none of the others left. *)
Ready(rest) == {c \in rest : \A d \in rest \ {c} : \A t \in d, u \in c : ~Feeds(t, u)}

(* The JSON place of a component's first trade. *)
Priority(text, c) == Min({text[t] : t \in c})

Popped(text, rest) ==
  CHOOSE c \in Ready(rest) : \A d \in Ready(rest) : Priority(text, c) <= Priority(text, d)

(* The components left after n of them have run. *)
Left(trades, text) ==
  LET left[n \in 0..Cardinality(Components(trades))] ==
        IF n = 0 THEN Components(trades) ELSE left[n - 1] \ {Popped(text, left[n - 1])}
  IN left

(* t runs before u: its component does, or its text comes first in theirs. *)
RunsBefore(waiting, text, t, u) ==
  \/ \E n \in DOMAIN waiting : u \in waiting[n] /\ t \notin waiting[n]
  \/ text[t] < text[u] /\ \A n \in DOMAIN waiting : t \in waiting[n] <=> u \in waiting[n]

(* Mutant of TransferOrder: the JSON order alone. *)
TransferByText(trades, text) == text

(* transfer_order: each trade's position, that of the components in an order that gives each  *)
(* name before it is taken, the one whose text comes first of those that may go.               *)
TransferOrder(trades, text) ==
  LET left == Left(trades, text)
      waiting == [n \in DOMAIN left |-> UNION left[n]]
  IN [t \in trades |-> 1 + Cardinality({u \in trades : RunsBefore(waiting, text, u, t)})]

(* Rotations: an added and a removed certificate of one listener and the same names, paired    *)
(* until either side has none left.                                                            *)
Rotations(added, removed) ==
  LET pairs == {p \in added \X removed : p[1].listener = p[2].listener /\ p[1].names = p[2].names}
      apart(M) == \A p, q \in M : p # q => p[1] # q[1] /\ p[2] # q[2]
  IN {M \in SUBSET pairs : apart(M) /\ \A p \in pairs \ M : ~apart(M \cup {p})}

(* A request at its rank in its tier: CertRank, 0 for Gains. *)
At(rank, r) == [tier |-> Tier(r.verb), rank |-> rank, req |-> r]

Unpaired(certs, others) == {c \in certs : \A d \in others : ~SameCert(c, d)}

(* In place: what takes no name away, a trade at its position, and last what only takes. *)
CertRank(trades, position, u) ==
  IF u.takes = {} THEN 0 ELSE IF u \in trades THEN position[u] ELSE Cardinality(trades) + 1

InPlace(updates, trades, position) ==
  {At(CertRank(trades, position, u), Replace(u.cert, u.cert.fp)) : u \in updates}

(* Certificates that come and go, those paired by M at once. *)
ComeAndGo(added, removed, M, last) ==
  {At(0, Replace(p[1], p[2].fp)) : p \in M}
  \cup {At(0, Request("AddCertificate", c)) : c \in added \ {p[1] : p \in M}}
  \cup {At(last, Request("RemoveCertificate", c)) : c \in removed \ {p[2] : p \in M}}

(* certificate_requests, for each pairing and each order the texts may have *)
CertificateBatches(from, to) ==
  LET added == Unpaired(KeyedCerts(to), KeyedCerts(from))
      removed == Unpaired(KeyedCerts(from), KeyedCerts(to))
      trades == Trades(from, to)
  IN {InPlace(Updates(from, to), trades, TransferOrder(trades, text))
      \cup ComeAndGo(added, removed, M, Cardinality(trades) + 1) :
        text \in Bijection(trades, 1..Cardinality(trades)), M \in Rotations(added, removed)}

-----------------------------------------------------------------------------
(* reconcile *)

(* Whether reconcile returns a batch: an error fails the pass. *)
Translates(from, to) ==
  /\ ~UnknownCluster(to) /\ ~L4Conflict(to) /\ ~L4Conflict(from)
  /\ {b.cluster : b \in from.backends} \subseteq {c.id : c \in from.clusters}

RoutingBatch(from, to) ==
  DropSuperseded(ExpandClusterRemovals(RoutingState(from),
                                       ConfigDiff(RoutingState(from), RoutingState(to))))

(* reconcile: the batches it may return, as sets of requests with their place in the order. *)
Reconcile(from, to) ==
  {{At(0, r) : r \in RoutingBatch(from, to)} \cup certs :
     certs \in CertificateBatches(from.certs, to.certs)}

(* canonicalize_ranked: tier, then rank, then text. *)
Precedes(a, b) == a.tier < b.tier \/ (a.tier = b.tier /\ a.rank < b.rank)

Firsts(batch) == {a \in batch : \A b \in batch : ~Precedes(b, a)}

(* Requests of one tier and rank are about different keys: one order stands for all. *)
InOrder(sent) ==
  LET head[n \in 0..Cardinality(sent)] ==
        IF n = 0 THEN <<>>
        ELSE Append(head[n - 1], CHOOSE a \in Firsts(sent \ Range(head[n - 1])) : TRUE)
      sorted == head[Cardinality(sent)]
  IN [i \in DOMAIN sorted |-> sorted[i].req]

-----------------------------------------------------------------------------
(* apply_acknowledged: the acknowledged head replayed onto the IR it was diffed from. *)

(* Keyed::set: what the desired state has under a key takes the group's place. *)
Regroup(objects, group, wanted) == IF wanted = {} THEN objects ELSE (objects \ group) \cup wanted

OnKey(s, key) == {f \in Range(s) : RouteKey(f) = key}

Ungroup(s, key) == Filtered(s, Range(s) \ OnKey(s, key))

RegroupSeq(s, key, wanted) ==
  LET group == Filtered(wanted, OnKey(wanted, key))
  IN IF group = <<>> THEN s ELSE Ungroup(s, key) \o group

(* A layer-4 frontend is remembered when it goes: its listener is spelled through it only. *)
Remember(objects) == {[front |-> f, held |-> TRUE] : f \in objects}

Begun(ir) == [clusters |-> ir.clusters, backends |-> ir.backends, frontends |-> ir.frontends,
              l4 |-> Remember(ir.l4), gone |-> {}]

LetGo(l4, gone) == {[e EXCEPT !.held = @ /\ e.front \notin gone] : e \in l4}

(* Replay::apply, of a routing request *)
Rerouted(R, want, r) ==
  LET clustersOf(objects) == {c \in objects : c.id = r.obj.id}
      backendsOf(objects) == {b \in objects : BackendKey(b) = BackendKey(r.obj)}
      onAddr(l4) == {e \in l4 : L4Key(e.front) = L4Key(r.obj)}
      ofCluster(objects) == {o \in objects : o.cluster = r.obj.id}
      fronts == {e.front : e \in R.l4}
  IN CASE r.verb = "AddCluster" ->
            [R EXCEPT !.clusters = Regroup(@, clustersOf(@), clustersOf(want.clusters))]
       [] r.verb = "RemoveCluster" ->
            [R EXCEPT !.clusters = @ \ clustersOf(@),
                      !.backends = @ \ ofCluster(@),
                      !.frontends = Filtered(@, Range(@) \ ofCluster(Range(@))),
                      !.l4 = LetGo(@, ofCluster(fronts))]
       [] r.verb = "AddBackend" ->
            [R EXCEPT !.backends = Regroup(@, backendsOf(@), backendsOf(want.backends))]
       [] r.verb = "RemoveBackend" -> [R EXCEPT !.backends = @ \ backendsOf(@)]
       [] r.verb = "AddFrontend" -> [R EXCEPT !.frontends = RegroupSeq(@, r.obj.key, want.frontends)]
       [] r.verb = "RemoveFrontend" -> [R EXCEPT !.frontends = Ungroup(@, r.obj.key)]
       [] r.verb = "AddL4" ->
            [R EXCEPT !.l4 = Regroup(@, onAddr(@), onAddr(Remember(want.l4)))]
       [] r.verb = "RemoveL4" -> [R EXCEPT !.l4 = LetGo(@, {e.front : e \in onAddr(@)})]
       [] r.verb = "AddListener" -> [R EXCEPT !.gone = @ \ {r.obj}]
       [] r.verb = "RemoveListener" -> [R EXCEPT !.gone = @ \cup {r.obj}]
       [] OTHER -> R

IsCertificateRequest(r) ==
  r.verb \in {"AddCertificate", "ReplaceCertificate", "RemoveCertificate"}

(* Replay::apply, of a certificate request *)
Recertified(certs, wanted, r) ==
  LET group == {c \in wanted : SameCert(c, r.obj)}
      rotated(c) == c.listener = r.obj.listener /\ c.fp = r.old /\ r.old # r.obj.fp
      without == {c \in certs : ~(r.verb = "ReplaceCertificate" /\ rotated(c))}
      others == {c \in without : ~SameCert(c, r.obj)}
  IN IF r.verb = "RemoveCertificate" THEN others
     ELSE IF group = {} THEN without ELSE others \cup group

(* The replay after each request of the head. *)
Replayed(base, want, acked) ==
  LET after[n \in 0..Len(acked)] ==
        IF n = 0 THEN [routing |-> Begun(base), certs |-> base.certs]
        ELSE IF IsCertificateRequest(acked[n])
             THEN [after[n - 1] EXCEPT !.certs = Recertified(@, want.certs, acked[n])]
             ELSE [after[n - 1] EXCEPT !.routing = Rerouted(@, want, acked[n])]
  IN after[Len(acked)]

(* Replay::finish: a frontend that went while its listener stays is kept. *)
Spelled(R) ==
  LET heldOn(key) == \E e \in R.l4 : e.held /\ L4Key(e.front) = key
  IN {e.front : e \in {d \in R.l4 : \/ d.held
                                    \/ ~heldOn(L4Key(d.front)) /\ L4Key(d.front) \notin R.gone}}

ApplyAcknowledged(base, want, acked) ==
  LET replayed == Replayed(base, want, acked)
      R == replayed.routing
  IN [clusters |-> R.clusters, backends |-> R.backends, frontends |-> R.frontends,
      l4 |-> Spelled(R), certs |-> replayed.certs]

(* simulate: what the routing requests of the head leave in a Sozu that held the old baseline. *)
Simulated(base, acked) ==
  LET after[n \in 0..Len(acked)] ==
        IF n = 0 THEN [ok |-> TRUE, state |-> RoutingState(base)]
        ELSE IF IsCertificateRequest(acked[n]) THEN after[n - 1]
        ELSE IF Settles(after[n - 1].state, acked[n])
             THEN [after[n - 1] EXCEPT !.state = Settled(@, acked[n])]
             ELSE [after[n - 1] EXCEPT !.ok = FALSE]
  IN after[Len(acked)]

(* Mutant of ReplayIfExact: the replay is adopted unchecked. *)
ReplayUnchecked(base, want, acked) == ApplyAcknowledged(base, want, acked)

(* replay_if_exact: the baseline a batch that stopped leaves; the old one where the replay does *)
(* not describe what the head left.                                                             *)
ReplayIfExact(base, want, acked) ==
  LET replayed == ApplyAcknowledged(base, want, acked)
      simulated == Simulated(base, acked)
      exact == simulated.ok /\ ~L4Conflict(replayed) /\ RoutingState(replayed) = simulated.state
  IN IF acked # <<>> /\ exact THEN replayed ELSE base

-----------------------------------------------------------------------------
(* A batch at work *)

VARIABLES
  base,     \* the IR the next batch is diffed from
  want,     \* the IR asked for
  sozu,     \* the routing state the main process holds
  tls,      \* its certificates
  pc,       \* "idle" or "sending"
  batch,    \* requests not yet sent
  acked,    \* requests acknowledged
  exact,    \* the batch was diffed from what Sozu held
  sound,    \* it was, or it repeats one that was
  stopped,  \* the IR of the last batch, if it was sound and stopped
  stops

vars == <<base, want, sozu, tls, pc, batch, acked, exact, sound, stopped, stops>>

NoIR == [clusters |-> {}, backends |-> {}, frontends |-> <<>>, l4 |-> {}, certs |-> {}]

(* Sozu holds what ir describes. *)
Matches(ir) == sozu = RoutingState(ir) /\ tls = KeyedCerts(ir.certs)

Init ==
  /\ base \in {ir \in IRs : Translates(NoIR, ir)} /\ want = base
  /\ sozu = RoutingState(base) /\ tls = KeyedCerts(base.certs)
  /\ pc = "idle" /\ batch = {} /\ acked = {}
  /\ exact = TRUE /\ sound = TRUE /\ stopped = NoIR /\ stops = 0

(* The builder asks for another state, and the difference is translated. *)
Submit ==
  /\ pc = "idle"
  /\ want' \in IRs /\ Translates(base, want')
  /\ batch' \in Reconcile(base, want')
  /\ pc' = "sending" /\ acked' = {}
  /\ exact' = Matches(base)
  /\ sound' = (Matches(base) \/ (stopped # NoIR /\ stopped = want'))
  /\ stopped' = NoIR
  /\ UNCHANGED <<base, sozu, tls, stops>>

(* The state asked for cannot be translated: the pass fails and nothing is sent. *)
Untranslatable ==
  /\ pc = "idle"
  /\ want' \in {ir \in IRs : ~Translates(base, ir)}
  /\ UNCHANGED <<base, sozu, tls, pc, batch, acked, exact, sound, stopped, stops>>

(* What a certificate request makes of the certificates held: an add of one held changes nothing. *)
Loaded(held, r) ==
  LET others == {c \in held : ~SameCert(c, r.obj)}
      without == {c \in others : ~(c.listener = r.obj.listener /\ c.fp = r.old)}
  IN CASE r.verb = "AddCertificate" -> IF others = held THEN held \cup {r.obj} ELSE held
       [] r.verb = "RemoveCertificate" -> others
       [] r.verb = "ReplaceCertificate" -> without \cup {r.obj}

(* The agent gets the next request acknowledged. *)
Send(a) ==
  /\ pc = "sending" /\ a \in Firsts(batch)
  /\ batch' = batch \ {a} /\ acked' = acked \cup {a}
  /\ IF IsCertificateRequest(a.req)
     THEN tls' = Loaded(tls, a.req) /\ UNCHANGED sozu
     ELSE Settles(sozu, a.req) /\ sozu' = Settled(sozu, a.req) /\ UNCHANGED tls
  /\ UNCHANGED <<base, want, pc, exact, sound, stopped, stops>>

(* The batch fails at its next request, which did not reach Sozu or which Sozu refused. *)
Fail ==
  /\ base' = ReplayIfExact(base, want, InOrder(acked))
  /\ stopped' = IF sound THEN want ELSE NoIR
  /\ pc' = "idle" /\ batch' = {} /\ acked' = {}
  /\ UNCHANGED <<want, sozu, tls, exact, sound>>

Stop ==
  /\ pc = "sending" /\ batch # {}
  /\ stops < MaxStops /\ stops' = stops + 1
  /\ Fail

Refused(a) ==
  /\ pc = "sending" /\ a \in Firsts(batch)
  /\ ~IsCertificateRequest(a.req) /\ ~Settles(sozu, a.req)
  /\ Fail
  /\ UNCHANGED stops

Finish ==
  /\ pc = "sending" /\ batch = {}
  /\ base' = want /\ pc' = "idle" /\ acked' = {} /\ stopped' = NoIR
  /\ UNCHANGED <<want, sozu, tls, batch, exact, sound, stops>>

Next ==
  \/ Submit \/ Untranslatable \/ Stop \/ Finish
  \/ \E a \in batch : Send(a)
  \/ \E a \in batch : Refused(a)

Spec == Init /\ [][Next]_vars

-----------------------------------------------------------------------------
(* Properties *)

(* A batch diffed from what Sozu holds is taken as it is: no routing request is refused when its *)
(* turn comes, nothing being added before what it depends on, or on a key still held (tier,      *)
(* expand_cluster_removals).  Certificate requests are not asked about: Refusal is that of the   *)
(* routing state, and what they leave is the subject of the properties below.                    *)
BatchAccepted ==
  pc = "sending" /\ exact =>
    \A a \in Firsts(batch) : IsCertificateRequest(a.req) \/ Refusal(sozu, a.req) = None

(* The whole batch leaves what the desired IR describes, also when it repeats one that stopped  *)
(* part-way and whose baseline was kept (reconcile, replay_if_exact).                           *)
DesiredReached == pc = "sending" /\ sound /\ batch = {} => Matches(want)

(* Trades on a cycle with t that t gives a name to. *)
Rivals(trades, t) == {u \in OnCycleWith(trades, t) : Feeds(t, u)}

(* The names that move between trades on a cycle: no order gives each of them first.            *)
Swapped(trades) ==
  UNION {{<<t.cert.listener, name>> : name \in t.gives \cap UNION {u.takes : u \in Rivals(trades, t)}} :
           t \in trades}

(* The names of certificates, as Sozu's resolver keys them. *)
Names(certs) == UNION {{<<c.listener, name>> : name \in c.names} : c \in certs}

(* What both the baseline and the desired state have is never missing in between: routes,       *)
(* layer-4 frontends, the keys of backends and the ids of clusters                              *)
(* (drop_superseded_backend_removes, expand_cluster_removals).                                  *)
RoutingKept ==
  pc = "sending" /\ exact =>
    LET before == RoutingState(base)
        after == RoutingState(want)
        keys(backends) == {BackendKey(b) : b \in backends}
        ids(clusters) == {c.id : c \in clusters}
    IN /\ before.routes \cap after.routes \subseteq sozu.routes
       /\ before.l4 \cap after.l4 \subseteq sozu.l4
       /\ keys(before.backends) \cap keys(after.backends) \subseteq keys(sozu.backends)
       /\ ids(before.clusters) \cap ids(after.clusters) \subseteq ids(sozu.clusters)

(* Nor is a certificate for a name that both have, whichever serves it, unless it moves on a    *)
(* cycle of transfers ("only a name on a cycle can fall back": CertRank, transfer_order).       *)
NamesServed ==
  pc = "sending" /\ exact =>
    \A name \in Names(base.certs) \cap Names(want.certs) :
      name \in Names(tls) \/ name \in Swapped(Trades(base.certs, want.certs))

(* Nothing that stays is missing meanwhile, neither routing state nor a name's certificate.     *)
NothingMissingMeanwhile == RoutingKept /\ NamesServed

(* A baseline adopted after a batch stopped describes what Sozu holds, certificates included,   *)
(* which the check in replay_if_exact leaves out.                                               *)
AdoptedExact ==
  [][pc = "sending" /\ pc' = "idle" /\ exact /\ base' # base => Matches(base)']_vars

(* A cluster with UDP affinity that no UDP frontend names any more: no IR spells it. *)
StrandedAffinity ==
  \E c \in sozu.clusters : c.udp /\ \A f \in sozu.l4 : f.proto = "Udp" => f.cluster # c.id

(* Wherever a batch diffed from what Sozu held stops, the baseline it leaves lists no cluster   *)
(* that Sozu lost: a new backend of it would be refused for ever (RemoveCluster's tier).        *)
(* Except when it stops between two cluster removals, the second of a cluster with UDP affinity. *)
ClustersHeld ==
  pc = "idle" /\ exact =>
    \/ {c.id : c \in base.clusters} \subseteq {c.id : c \in sozu.clusters}
    \/ StrandedAffinity
=============================================================================
