---------------------------- MODULE StatusWriter ----------------------------
(***************************************************************************)
(* The status half of a pass (controller/src/status.rs, events.rs, scope.rs *)
(* and the end of reconcile in main.rs): instances with separate scopes     *)
(* report on one route, each on its own Gateway, and the default one on the *)
(* GatewayClass and an Ingress.  Every write is a GET, a decision and a     *)
(* PATCH, with the apiserver free to change anything in between.            *)
(*                                                                         *)
(* The conditions of an object are one record: verdict is all that          *)
(* lastTransitionTime depends on (status, reason, message), gen the         *)
(* observedGeneration, stamp the time, which is only ever compared with the *)
(* one it replaces.  A resourceVersion is only ever compared with the one   *)
(* read: fresh holds the instances whose last read is still current.        *)
(***************************************************************************)
EXTENDS Lists, FiniteSets

CONSTANTS
  Workers,       \* controller instances
  Scope,         \* [Workers -> [ingress_only, gateway_scope, exclude_gateway]]
  GatewayUid,    \* [Workers -> the Gateway instance it was provisioned for, or None]
  Gateways,      \* Gateway names, as numbers
  RouteSpecs,    \* what a route may say: the parents it refers to, one perhaps twice, whether its
                 \* backends resolve, and the parents where another route has taken its place
  GatewaySpecs,  \* what a Gateway may say
  Services,      \* [Workers -> what its publish Service may look like]
  MaxEdits       \* bound: changes made by others, and failing calls

(* --gateway-uid requires --gateway-scope, which excludes --ingress-only. *)
ASSUME WorkersAssumption ==
  /\ MaxEdits \in Nat /\ Gateways \subseteq Nat
  /\ \A w \in Workers :
       /\ GatewayUid[w] # 0 => Scope[w].gateway_scope # 0
       /\ Scope[w].gateway_scope # 0 => ~Scope[w].ingress_only /\ Scope[w].gateway_scope \in Gateways
ASSUME RouteSpecsAssumption ==
  \A s \in RouteSpecs : s.refs \in Seq([gateway : Nat, section : Nat])

None == 0
Ours == "sozu-gateway"
Foreign == "other"

VARIABLES
  class,      \* the GatewayClass
  gates,      \* the Gateways
  route,      \* a route
  ingress,    \* the address published on an Ingress
  svc,        \* the publish Service of each instance
  cache,      \* what each instance's reflectors hold of the route and the Gateways
  decision,   \* what its pass decided, Idle between passes
  todo,       \* objects its pass has still to write
  patch,      \* the PATCH it is about to send, NoPatch before its GET
  conflicts,  \* 409 answers to the route it is writing
  fresh,      \* instances whose last GET is still current
  seen,       \* problems of its last pass (ProblemEvents)
  events,     \* flips when Events are published
  edits

vars == <<class, gates, route, ingress, svc, cache, decision, todo, patch, conflicts, fresh, seen,
          events, edits>>

Idle == [pc |-> "idle"]
(* The objects a pass writes *)
Target(kind, g) == [kind |-> kind, gateway |-> g]
TheClass == Target("class", None)
TheRoute == Target("route", None)
TheIngress == Target("ingress", None)

NoPatch == [target |-> Target("none", None)]
NoConditions == [verdict |-> <<>>, gen |-> 0, stamp |-> 0]

-----------------------------------------------------------------------------
(* scope.rs *)

IsDefault(w) == Scope[w].gateway_scope = None

OwnsGateway(w, g) ==
  /\ ~Scope[w].ingress_only
  /\ IF IsDefault(w) THEN g \notin Scope[w].exclude_gateway ELSE g = Scope[w].gateway_scope

Owned(w) == {g \in Gateways : OwnsGateway(w, g)}

(* verify_gateway_identity: the Gateway it was provisioned for is still there. *)
Identified(w) == GatewayUid[w] # None => gates[Scope[w].gateway_scope].uid = GatewayUid[w]

-----------------------------------------------------------------------------
(* Conditions *)

(* now(), which is only ever compared with a time it replaces: one that those are not. *)
Now(stamps) == CHOOSE n \in 0..Cardinality(stamps) : n \notin stamps

(* build_conditions: the time moves with the verdict, not with the generation. *)
BuildConditions(verdict, current, gen, now) ==
  [verdict |-> verdict, gen |-> gen,
   stamp |-> IF current.verdict = verdict THEN current.stamp ELSE now]

(* gateway_addresses, lb_points: as a set, since both are sorted. *)
Addresses(s) ==
  IF s.points = {} /\ s.type = "ClusterIP" THEN s.clusterIps ELSE s.points

(* publication *)
Publication(s) ==
  CASE s.type = "unset" -> [state |-> "NotPublished", addresses |-> {}]
    [] s.type = "missing" -> [state |-> "Pending", addresses |-> {}]
    [] s.type \in {"LoadBalancer", "ClusterIP"} ->
         [state |-> IF Addresses(s) = {} THEN "Pending" ELSE "Ready", addresses |-> Addresses(s)]
    [] OTHER -> [state |-> "NotPublished", addresses |-> {}]

PublishedBy(w) == UNION {s.points \cup s.clusterIps : s \in Services[w]}

(* An address stands for the instance whose Service has it, which is all that is asked of it. *)
ASSUME ServicesAssumption ==
  \A w \in Workers :
    /\ \E s \in Services[w] : Publication(s).state = "Ready" <=> ~IsDefault(w)
    /\ \A v \in Workers \ {w} : PublishedBy(v) \cap PublishedBy(w) = {}

(* write_gatewayclass: the conditions, and the feature list, published once though empty. *)
ClassStatus(current) ==
  [current EXCEPT !.cond = BuildConditions(<<"Accepted">>, current.cond, current.gen, Now({current.cond.stamp})),
                  !.features = "published"]

(* build_gateway_conditions, build_listeners_status and the rest of write_gateway's status: an *)
(* address is replaced, never withdrawn.                                                        *)
GatewayStatus(current, result, published) ==
  [current EXCEPT
     !.cond = BuildConditions(<<result.spec, published.state = "Pending">>, current.cond, current.gen,
                              Now({current.cond.stamp})),
     !.addresses = IF published.addresses = {} THEN @ ELSE published.addresses]

RefPrecedes(p, q) ==
  \/ p.ref.gateway < q.ref.gateway
  \/ p.ref.gateway = q.ref.gateway /\ p.ref.section < q.ref.section

(* sort_by on the reference: entries for one parent stay in their order. *)
RefOrder(entries) ==
  {b \in (DOMAIN entries) \X (DOMAIN entries) :
     \/ RefPrecedes(entries[b[1]], entries[b[2]])
     \/ entries[b[1]].ref = entries[b[2]].ref /\ b[1] < b[2]}

(* Bound, entries is evaluated once. *)
ByRef(entries) == CHOOSE t \in {Sorted(e, RefOrder(e)) : e \in {entries}} : TRUE

Mine(w, p) == p.controller = Ours /\ OwnsGateway(w, p.ref.gateway)

(* The entries of ours for a parent. *)
Entries(parents, ref) == {p \in Range(parents) : p.controller = Ours /\ p.ref = ref}

(* The entries a result gives the parents it owns.  Each is compared with the first one there is  *)
(* for its parent, so that a parent named twice has one entry to compare two verdicts with.       *)
OwnEntries(w, result, current, gen) ==
  LET prior(ref) ==
        IF Entries(current, ref) = {} THEN NoConditions
        ELSE Filtered(current, Entries(current, ref))[1].cond
      now(ref) == Now({p.cond.stamp : p \in Entries(current, ref)})
  IN [i \in DOMAIN result.parents |->
        LET p == result.parents[i]
        IN [controller |-> Ours, ref |-> p.ref,
            cond |-> BuildConditions(p.verdict, prior(p.ref), gen, now(p.ref))]]

(* The entries of other controllers, in the order they have. *)
Foreigns(parents) == Filtered(parents, {p \in Range(parents) : p.controller # Ours})

(* The entries of the project's other instances. *)
Siblings(w, parents) == {p \in Range(parents) : p.controller = Ours /\ ~Mine(w, p)}

(* Mutant of RouteParents: the instance's own entries come last, whoever else's are there. *)
RouteParentsUnsorted(w, result, current, gen) ==
  SelectSeq(current, LAMBDA p : ~Mine(w, p)) \o ByRef(OwnEntries(w, result, current, gen))

(* route_parents: everybody else's entries as they are, the project's own sorted. *)
RouteParents(w, result, current, gen) ==
  Foreigns(current)
  \o ByRef(Filtered(current, Siblings(w, current)) \o OwnEntries(w, result, current, gen))

-----------------------------------------------------------------------------
(* The parts of the cached objects that a pass looks at; of a route's entries, whether one is the *)
(* instance's own (has_owned_parent).                                                             *)
CachedRoute(w) ==
  [uid |-> route.uid, gen |-> route.gen, spec |-> route.spec,
   owned |-> \E p \in Range(route.parents) : Mine(w, p)]

CachedGates == [g \in Gateways |-> [uid |-> gates[g].uid, spec |-> gates[g].spec]]

Init ==
  /\ class = [gen |-> 1, cond |-> NoConditions, features |-> "none"]
  /\ gates = [g \in Gateways |-> [uid |-> 1, gen |-> 1, spec |-> CHOOSE s \in GatewaySpecs : TRUE,
                                  cond |-> NoConditions, addresses |-> {}]]
  /\ \E s \in {t \in RouteSpecs : t.resolved} : route = [uid |-> 1, gen |-> 1, spec |-> s, parents |-> <<>>]
  /\ ingress = {}
  /\ svc = [w \in Workers |-> CHOOSE s \in Services[w] : Publication(s).state = "Ready" <=> ~IsDefault(w)]
  /\ cache = [w \in Workers |-> [route |-> CachedRoute(w), gates |-> CachedGates]]
  /\ decision = [w \in Workers |-> Idle]
  /\ todo = [w \in Workers |-> <<>>]
  /\ patch = [w \in Workers |-> NoPatch]
  /\ conflicts = [w \in Workers |-> 0]
  /\ fresh = {} /\ seen = [w \in Workers |-> {}] /\ events = 0 /\ edits = 0

-----------------------------------------------------------------------------
(* A pass *)

(* build's outcome for the parents that are Gateways of the instance: whether the backends        *)
(* resolve, what the Gateway has of it, and whether another route took its place.  That one is     *)
(* told to the first of the parents that read alike (build's find).                      *)
ParentResults(w, spec, gs) ==
  LET results(attached) ==
        [i \in DOMAIN attached |->
           [ref |-> attached[i],
            verdict |-> <<spec.resolved, gs[attached[i].gateway].spec,
                          /\ attached[i] \in spec.loses
                          /\ \A j \in DOMAIN attached : attached[j] = attached[i] => i <= j>>]]
  IN CHOOSE r \in {results(attached) : attached \in
                     {Filtered(spec.refs, {ref \in Range(spec.refs) : ref.gateway \in Owned(w)})}} : TRUE

RouteResult(w) ==
  LET r == cache[w].route
  IN [uid |-> r.uid, gen |-> r.gen, parents |-> ParentResults(w, r.spec, cache[w].gates)]

(* Mutant of Reported: a route that lost its last parent is forgotten. *)
ReportedIfAttached(w, result) == result.parents # <<>>

(* route_updates: a route without a result is kept while an entry of the instance is on it. *)
Reported(w, result) ==
  result.parents # <<>> \/ cache[w].route.owned

(* collect_problems, for the route: the problems of an instance of it. *)
CollectProblems(result) ==
  {[uid |-> result.uid, reason |-> "unresolved"] : p \in {q \in Range(result.parents) : ~q.verdict[1]}}
  \cup {[uid |-> result.uid, reason |-> "RouteCollision"] : p \in {q \in Range(result.parents) : q.verdict[3]}}

(* write_status and write_ingress_status: what a pass writes, in order. *)
Targets(w, d) ==
  (IF IsDefault(w) THEN <<TheClass>> ELSE <<>>)
  \o SetToSeq({Target("gateway", g) : g \in Owned(w)})
  \o (IF d.reported THEN <<TheRoute>> ELSE <<>>)
  \o (IF IsDefault(w) /\ d.points # {} THEN <<TheIngress>> ELSE <<>>)

(* reconcile up to its second identity check: the pass is bound to the Gateway it was provisioned *)
(* for, live and cached, and its new problems are published (publish_new).                        *)
Build(w) ==
  LET result == RouteResult(w)
      problems == CollectProblems(result)
  IN /\ decision[w] = Idle
     /\ Identified(w)
     /\ GatewayUid[w] # None => cache[w].gates[Scope[w].gateway_scope].uid = GatewayUid[w]
     /\ decision' = [decision EXCEPT ![w] =
          [pc |-> "built", route |-> result, reported |-> Reported(w, result),
           gates |-> [g \in Owned(w) |-> cache[w].gates[g]],
           published |-> Publication(svc[w]),
           points |-> IF svc[w].type \in {"unset", "missing"} THEN {} ELSE svc[w].points]]
     /\ seen' = [seen EXCEPT ![w] = problems]
     /\ events' = IF problems \subseteq seen[w] THEN events ELSE 1 - events
     /\ UNCHANGED <<class, gates, route, ingress, svc, cache, todo, patch, conflicts, fresh, edits>>

(* The second identity check: a replaced Gateway fails the pass. *)
Fence(w) ==
  /\ decision[w].pc = "built"
  /\ IF Identified(w)
     THEN /\ decision' = [decision EXCEPT ![w].pc = "writing"]
          /\ todo' = [todo EXCEPT ![w] = Targets(w, decision[w])]
     ELSE decision' = [decision EXCEPT ![w] = Idle] /\ UNCHANGED todo
  /\ UNCHANGED <<class, gates, route, ingress, svc, cache, patch, conflicts, fresh, seen, events, edits>>

Writing(w, target) == decision[w].pc = "writing" /\ todo[w] # <<>> /\ Head(todo[w]) = target

(* On to the next object, or the pass is over. *)
Done(w) ==
  /\ todo' = [todo EXCEPT ![w] = Tail(@)]
  /\ decision' = IF Len(todo[w]) = 1 THEN [decision EXCEPT ![w] = Idle] ELSE decision
  /\ patch' = [patch EXCEPT ![w] = NoPatch]
  /\ conflicts' = [conflicts EXCEPT ![w] = 0]

(* A GET: nothing to do, or the PATCH that makes the object desired. *)
Get(w, target, current, desired, skip) ==
  /\ Writing(w, target) /\ patch[w] = NoPatch
  /\ IF skip \/ desired = current
     THEN Done(w) /\ UNCHANGED fresh
     ELSE /\ patch' = [patch EXCEPT ![w] = [target |-> target, status |-> desired]]
          /\ fresh' = fresh \cup {w}
          /\ UNCHANGED <<decision, todo, conflicts>>
  /\ UNCHANGED <<class, gates, route, ingress, svc, cache, seen, events, edits>>

(* Mutant of OtherGateway: the name is enough. *)
AnyGateway(g, result) == FALSE

(* write_gateway: a Gateway recreated after the build belongs to another instance. *)
OtherGateway(g, result) == gates[g].uid # result.uid

GetGateway(w, g) ==
  LET result == decision[w].gates[g] IN
  /\ Writing(w, Target("gateway", g))
  /\ Get(w, Target("gateway", g), gates[g],
         GatewayStatus(gates[g], result, decision[w].published), OtherGateway(g, result))

(* Mutant of StaleRoute: generations are compared across instances of the route. *)
StaleGeneration(result) == route.gen # result.gen

(* write_route: the route changed or was recreated, and the watch will rebuild it. *)
StaleRoute(result) == route.gen # result.gen \/ route.uid # result.uid

GetRoute(w) ==
  LET result == decision[w].route IN
  /\ Writing(w, TheRoute)
  /\ Get(w, TheRoute, route,
         [route EXCEPT !.parents = RouteParents(w, result, route.parents, result.gen)],
         StaleRoute(result))

(* A write to target: what was read of it before is outdated. *)
Touched(target) == {v \in fresh : patch[v].target # target}

(* write_gatewayclass and write_one_ingress, GET and PATCH in one step: nobody else writes these  *)
(* statuses, no version is sent and no check lies between, so a PATCH of what was read before an  *)
(* edit is one made before the edit.                                                              *)
WriteClass(w) ==
  /\ Writing(w, TheClass)
  /\ class' = ClassStatus(class)
  /\ Done(w)
  /\ UNCHANGED <<gates, route, ingress, svc, cache, fresh, seen, events, edits>>

WriteIngress(w) ==
  /\ Writing(w, TheIngress)
  /\ ingress' = decision[w].points
  /\ Done(w)
  /\ UNCHANGED <<class, gates, route, svc, cache, fresh, seen, events, edits>>

(* A PATCH on the uid and the resourceVersion read; a refused one is left to the next pass. *)
PatchGateway(w, g) ==
  /\ Writing(w, Target("gateway", g)) /\ patch[w] # NoPatch
  /\ IF w \in fresh
     THEN gates' = [gates EXCEPT ![g] = patch[w].status] /\ fresh' = Touched(Target("gateway", g))
     ELSE UNCHANGED <<gates, fresh>>
  /\ Done(w)
  /\ UNCHANGED <<class, route, ingress, svc, cache, seen, events, edits>>

(* Mutant of PatchRoute: no resourceVersion is sent. *)
PatchRouteBlindly(w) ==
  /\ Writing(w, TheRoute) /\ patch[w] # NoPatch
  /\ route' = [route EXCEPT !.parents = patch[w].status.parents]
  /\ fresh' = Touched(TheRoute) /\ Done(w)
  /\ UNCHANGED <<class, gates, ingress, svc, cache, seen, events, edits>>

(* write_route's PATCH: on a conflict it reads and merges again, three times in all. *)
PatchRoute(w) ==
  /\ Writing(w, TheRoute) /\ patch[w] # NoPatch
  /\ CASE w \in fresh -> route' = patch[w].status /\ fresh' = Touched(TheRoute) /\ Done(w)
       [] w \notin fresh /\ conflicts[w] < 2 ->
            /\ conflicts' = [conflicts EXCEPT ![w] = @ + 1]
            /\ patch' = [patch EXCEPT ![w] = NoPatch]
            /\ UNCHANGED <<route, fresh, todo, decision>>
       [] w \notin fresh /\ conflicts[w] = 2 -> Done(w) /\ UNCHANGED <<route, fresh>>
  /\ UNCHANGED <<class, gates, ingress, svc, cache, seen, events, edits>>

-----------------------------------------------------------------------------
(* The cluster *)

(* The reflectors catch up, each kind by itself; a pass reads them once, when it starts. *)
ObserveRoute(w) ==
  /\ decision[w] = Idle
  /\ cache' = [cache EXCEPT ![w].route = CachedRoute(w)]
  /\ UNCHANGED <<class, gates, route, ingress, svc, decision, todo, patch, conflicts, fresh, seen,
                 events, edits>>

ObserveGateways(w) ==
  /\ decision[w] = Idle
  /\ cache' = [cache EXCEPT ![w].gates = CachedGates]
  /\ UNCHANGED <<class, gates, route, ingress, svc, decision, todo, patch, conflicts, fresh, seen,
                 events, edits>>

Edit == edits < MaxEdits /\ edits' = edits + 1

(* A GET or a PATCH fails: it is logged, and the pass goes on. *)
CallFails(w) ==
  /\ Edit /\ decision[w].pc = "writing" /\ todo[w] # <<>>
  /\ Done(w)
  /\ UNCHANGED <<class, gates, route, ingress, svc, cache, fresh, seen, events>>

EditRoute(spec) ==
  /\ Edit /\ spec # route.spec
  /\ route' = [route EXCEPT !.spec = spec, !.gen = @ + 1]
  /\ fresh' = Touched(TheRoute)
  /\ UNCHANGED <<class, gates, ingress, svc, cache, decision, todo, patch, conflicts, seen, events>>

RecreateRoute(spec) ==
  /\ Edit
  /\ route' = [uid |-> route.uid + 1, gen |-> 1, spec |-> spec, parents |-> <<>>]
  /\ fresh' = Touched(TheRoute)
  /\ UNCHANGED <<class, gates, ingress, svc, cache, decision, todo, patch, conflicts, seen, events>>

(* Another controller's entry on the route comes, or changes. *)
ForeignWrites ==
  LET parents == route.parents
      others == {i \in DOMAIN parents : parents[i].controller = Foreign}
      entry == [controller |-> Foreign, ref |-> [gateway |-> 0, section |-> 0],
                cond |-> BuildConditions(<<"Accepted">>, NoConditions, route.gen, 1)]
  IN /\ Edit
     /\ route' = [route EXCEPT !.parents =
          IF others = {} THEN Append(parents, entry)
          ELSE [i \in DOMAIN parents |->
                  IF i \in others THEN [parents[i] EXCEPT !.cond.stamp = 1 - @] ELSE parents[i]]]
     /\ fresh' = Touched(TheRoute)
     /\ UNCHANGED <<class, gates, ingress, svc, cache, decision, todo, patch, conflicts, seen, events>>

EditGateway(g, spec) ==
  /\ Edit /\ spec # gates[g].spec
  /\ gates' = [gates EXCEPT ![g].spec = spec, ![g].gen = @ + 1]
  /\ fresh' = Touched(Target("gateway", g))
  /\ UNCHANGED <<class, route, ingress, svc, cache, decision, todo, patch, conflicts, seen, events>>

RecreateGateway(g, spec) ==
  /\ Edit
  /\ gates' = [gates EXCEPT ![g] = [uid |-> @.uid + 1, gen |-> 1, spec |-> spec,
                                    cond |-> NoConditions, addresses |-> {}]]
  /\ fresh' = Touched(Target("gateway", g))
  /\ UNCHANGED <<class, route, ingress, svc, cache, decision, todo, patch, conflicts, seen, events>>

EditClass ==
  /\ Edit
  /\ class' = [class EXCEPT !.gen = @ + 1]
  /\ UNCHANGED <<gates, route, ingress, svc, cache, decision, todo, patch, conflicts, fresh, seen, events>>

EditService(w, s) ==
  /\ Edit /\ s \in Services[w] \ {svc[w]}
  /\ svc' = [svc EXCEPT ![w] = s]
  /\ UNCHANGED <<class, gates, route, ingress, cache, decision, todo, patch, conflicts, fresh, seen, events>>

-----------------------------------------------------------------------------
Pass(w) ==
  \/ Build(w) \/ Fence(w)
  \/ WriteClass(w) \/ WriteIngress(w)
  \/ GetRoute(w) \/ PatchRoute(w)
  \/ \E g \in Gateways : GetGateway(w, g) \/ PatchGateway(w, g)

Cluster ==
  \/ ForeignWrites \/ EditClass
  \/ \E s \in RouteSpecs : EditRoute(s) \/ RecreateRoute(s)
  \/ \E g \in Gateways, s \in GatewaySpecs : EditGateway(g, s)
  \/ \E g \in Gateways, s \in GatewaySpecs : RecreateGateway(g, s)
  \/ \E w \in Workers : CallFails(w)
  \/ \E w \in Workers, s \in UNION Range(Services) : EditService(w, s)

Next ==
  \/ \E w \in Workers : Pass(w)
  \/ \E w \in Workers : ObserveRoute(w) \/ ObserveGateways(w)
  \/ Cluster

Spec == Init /\ [][Next]_vars

(* The resync timer starts a pass again and again, calls end, and watches deliver: within        *)
(* finitely many passes, since a delivery is only modelled between two of them.                  *)
FairSpec ==
  /\ Spec
  /\ \A w \in Workers : WF_vars(Pass(w)) /\ SF_vars(ObserveRoute(w) \/ ObserveGateways(w))

-----------------------------------------------------------------------------
(* Properties *)

(* No entry of ours claims to have observed the route's current generation with a decision made *)
(* from another one, or for a parent it no longer names, whatever is edited or recreated between *)
(* the build, the GET and the PATCH (RouteStatusUpdate, write_route).                            *)
RouteObserved ==
  \A p \in Range(route.parents) :
    p.controller = Ours /\ p.cond.gen = route.gen =>
      p.ref \in Range(route.spec.refs) /\ p.cond.verdict[1] = route.spec.resolved

(* A write of one instance loses no entry of another instance or of another controller, though   *)
(* each patches the whole list (write_route's resourceVersion, route_parents).                   *)
OthersKept ==
  [][\A w \in Workers :
       todo'[w] # todo[w] /\ route' # route =>
         /\ Foreigns(route'.parents) = Foreigns(route.parents)
         /\ Siblings(w, route'.parents) = Siblings(w, route.parents)]_vars

(* A Gateway never shows the address of the data plane of an earlier Gateway of its name: the    *)
(* identity checks and the uid in write_gateway.                                                 *)
OwnAddress ==
  \A w \in Workers :
    GatewayUid[w] # None /\ gates[Scope[w].gateway_scope].uid # GatewayUid[w] =>
      gates[Scope[w].gateway_scope].addresses \cap PublishedBy(w) = {}

(* Of a parent named twice, the instance says two things: the second entry is compared with the  *)
(* first one's conditions, and its time moves on every pass.                                      *)
Rewrites(w) ==
  /\ Identified(w)
  /\ \E p, q \in Range(ParentResults(w, route.spec, gates)) : p.ref = q.ref /\ p.verdict # q.verdict

(* The route's entries of an instance are what the instance would write again. *)
RouteReported(w) ==
  {<<p.ref, p.cond.verdict, p.cond.gen>> : p \in {q \in Range(route.parents) : Mine(w, q)}} =
    {<<p.ref, p.verdict, route.gen>> : p \in Range(ParentResults(w, route.spec, gates))}

(* Everything says what it should.  Of the route this is not promised while another instance      *)
(* rewrites it on every pass: three conflicts in each of its own may keep an instance out.        *)
Reports(w) ==
  /\ \A g \in Owned(w) :
       gates[g] = GatewayStatus(gates[g], gates[g], Publication(svc[w]))
  /\ RouteReported(w) \/ \E v \in Workers \ {w} : Rewrites(v)
  /\ IsDefault(w) => class = ClassStatus(class)

(* Once others stop editing, every status comes to describe the spec and stays so: a late write  *)
(* of an instance whose Gateway was replaced is undone, an entry of a lost parent is pruned.     *)
StatusSettles == <>[](\A w \in Workers : Identified(w) => Reports(w))

(* The times of our entries are all that changes, and only of one whose verdict is not that of   *)
(* the first entry for its parent.                                                               *)
Restamped(old, new) ==
  /\ DOMAIN new = DOMAIN old
  /\ \A i \in DOMAIN old :
       \/ new[i] = old[i]
       \/ /\ new[i] = [old[i] EXCEPT !.cond.stamp = new[i].cond.stamp]
          /\ old[i].controller = Ours
          /\ \E j \in 1..(i - 1) : old[j].controller = Ours /\ old[j].ref = old[i].ref
                                   /\ old[j].cond.verdict # old[i].cond.verdict

(* ... and nobody writes any more: instances do not undo each other's order, and a status that   *)
(* is right is not written again (route_parents: "feeding this function its own output must be a *)
(* fixed point, or the controller re-patches on every reconcile").  The one exception is the     *)
(* instance that Rewrites a parent named twice, and then only the time of the second entry moves.*)
WritesCease ==
  <>[][/\ UNCHANGED <<class, gates, ingress, events>>
       /\ UNCHANGED route \/ Restamped(route.parents, route'.parents)]_vars
=============================================================================
