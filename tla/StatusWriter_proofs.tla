------------------------- MODULE StatusWriter_proofs -------------------------
(***************************************************************************)
(* That the entries of the project tell the truth about the route, that a   *)
(* Gateway shows no earlier Gateway's address, and that a write keeps what  *)
(* others wrote, for any number of instances, Gateways and edits.           *)
(*                                                                         *)
(* None of the three is inductive: each is about the objects, and what is   *)
(* written to them next depends on what instances read and decided some     *)
(* steps ago.  Inv adds that: what a reflector holds is the route or an     *)
(* earlier one, a decision is true of the route it was made for, and a      *)
(* PATCH whose read is still current would leave the object truthful and    *)
(* everybody else's entries where they are.  The last needs to know what    *)
(* route_parents computes (MergeIsCareful), which is proved first.          *)
(***************************************************************************)
EXTENDS StatusWriter, Lists_proofs, TLAPS

-----------------------------------------------------------------------------
(* What route_parents makes of a list. *)

Refs == [gateway : Nat, section : Nat]

(* The entries of the project. *)
OursOf(s) == {p \in Range(s) : p.controller = Ours}

(* Entries that can be sorted. *)
Sortable(e) == \A p \in Range(e) : p.ref \in Refs

(* Sorting loses no entry and makes up none. *)
LEMMA ByRefFacts ==
  ASSUME NEW e, IsList(e), Sortable(e)
  PROVE  IsList(ByRef(e)) /\ Range(ByRef(e)) = Range(e)
<1> DEFINE D == DOMAIN e
           before == RefOrder(e)
<1>1. D \subseteq Nat /\ \A i \in D : e[i].ref \in Refs
  BY ListFields DEF Sortable
<1>2. \A i, j \in D : <<i, j>> \in before <=>
        RefPrecedes(e[i], e[j]) \/ (e[i].ref = e[j].ref /\ i < j)
  BY DEF RefOrder
<1>3. \A i \in D : e[i].ref.gateway \in Nat /\ e[i].ref.section \in Nat
  BY <1>1 DEF Refs
<1>4. \A i, j \in D : e[i].ref = e[j].ref <=>
        e[i].ref.gateway = e[j].ref.gateway /\ e[i].ref.section = e[j].ref.section
  BY <1>1 DEF Refs
<1> HIDE DEF D, before
<1>5. ASSUME NEW i \in D PROVE <<i, i>> \notin before
  BY <1>1, <1>2, <1>3 DEF RefPrecedes
<1>6. ASSUME NEW i \in D, NEW j \in D, NEW k \in D, <<i, j>> \in before, <<j, k>> \in before
      PROVE  <<i, k>> \in before
  <2>1. i \in Nat /\ j \in Nat /\ k \in Nat
    BY <1>1
  <2> QED
    BY <1>2, <1>3, <1>4, <1>6, <2>1 DEF RefPrecedes
<1>7. ASSUME NEW i \in D, NEW j \in D, i # j PROVE <<i, j>> \in before \/ <<j, i>> \in before
  <2>1. i < j \/ j < i
    BY <1>1, <1>7
  <2> QED
    BY <1>2, <1>3, <1>4, <2>1 DEF RefPrecedes
<1>8. TotalOrder(before, D)
  BY <1>5, <1>6, <1>7 DEF TotalOrder
<1>9. ByRef(e) = Sorted(e, before)
  BY DEF ByRef, before
<1> QED
  BY <1>8, <1>9, SortedList DEF D

(* Foreigns lists the entries of other controllers. *)
LEMMA ForeignsFacts ==
  ASSUME NEW s, IsList(s)
  PROVE  IsList(Foreigns(s)) /\ Range(Foreigns(s)) = {p \in Range(s) : p.controller # Ours}
<1> DEFINE K == {p \in Range(s) : p.controller # Ours}
<1>1. IsList(Filtered(s, K)) /\ Range(Filtered(s, K)) = Range(s) \cap K
  <2> HIDE DEF K
  <2> QED
    BY FilteredList
<1> QED
  BY <1>1 DEF Foreigns

(* route_parents' list: the entries of others as they were, then those given. *)
LEMMA JoinFacts ==
  ASSUME NEW s, IsList(s), NEW e, IsList(e), Sortable(e), \A p \in Range(e) : p.controller = Ours
  PROVE  LET t == Foreigns(s) \o ByRef(e)
         IN /\ IsList(t) /\ OursOf(t) = Range(e)
            /\ \A p \in Range(t) : p \in Range(e) \/ p \in Range(s)
            /\ Foreigns(t) = Foreigns(s)
<1> DEFINE f == Foreigns(s)
           g == ByRef(e)
           t == f \o g
           K == {p \in Range(t) : p.controller # Ours}
<1>1. IsList(f) /\ Range(f) = {p \in Range(s) : p.controller # Ours}
  BY ForeignsFacts
<1>2. IsList(g) /\ Range(g) = Range(e)
  BY ByRefFacts
<1> HIDE DEF f, g
<1>3. IsList(t) /\ Range(t) = Range(f) \cup Range(g)
  BY <1>1, <1>2, ListsJoined
<1>4. Filtered(t, K) = f
  <2>1. Range(f) \subseteq K /\ Range(g) \cap K = {}
    <3> HIDE DEF t
    <3> QED
      BY <1>1, <1>2, <1>3
  <2> HIDE DEF K
  <2> QED
    BY <1>1, <1>2, <2>1, KeptPart
<1>5. Foreigns(t) = f
  BY <1>4 DEF Foreigns
<1> HIDE DEF t
<1>6. OursOf(t) = Range(e) /\ \A p \in Range(t) : p \in Range(e) \/ p \in Range(s)
  BY <1>1, <1>2, <1>3 DEF OursOf
<1> QED
  BY <1>3, <1>5, <1>6 DEF t, f, g

-----------------------------------------------------------------------------
(* What the route, the decisions about it and the PATCHes under way have in common. *)

(* Our entries: none ahead of the route, and those that claim to have observed it are right *)
(* about it.                                                                                 *)
Truthful(parents, gen, spec) ==
  /\ IsList(parents)
  /\ \A p \in Range(parents) : "controller" \in DOMAIN p
  /\ \A p \in OursOf(parents) :
       /\ p.ref \in Refs
       /\ p.cond.gen \in Nat /\ p.cond.gen <= gen
       /\ p.cond.gen = gen => p.ref \in Range(spec.refs) /\ p.cond.verdict[1] = spec.resolved

IsRoute(r) ==
  /\ r = [uid |-> r.uid, gen |-> r.gen, spec |-> r.spec, parents |-> r.parents]
  /\ r.uid \in Nat /\ r.gen \in Nat /\ r.spec \in RouteSpecs
  /\ Truthful(r.parents, r.gen, r.spec)

(* c was read of the route, or of an earlier one. *)
ReadOf(c, r) ==
  /\ c.uid \in Nat /\ c.gen \in Nat /\ c.spec \in RouteSpecs
  /\ c.uid <= r.uid
  /\ c.uid = r.uid => c.gen <= r.gen
  /\ c.uid = r.uid /\ c.gen = r.gen => c.spec = r.spec

(* A result of w: it is about parents of w, and about the route as it was at some generation. *)
Judged(w, result, r) ==
  /\ IsList(result.parents)
  /\ \A p \in Range(result.parents) : p.ref \in Refs /\ OwnsGateway(w, p.ref.gateway)
  /\ result.uid \in Nat /\ result.gen \in Nat
  /\ result.uid <= r.uid
  /\ result.uid = r.uid => result.gen <= r.gen
  /\ result.uid = r.uid /\ result.gen = r.gen =>
       \A p \in Range(result.parents) :
         p.ref \in Range(r.spec.refs) /\ p.verdict[1] = r.spec.resolved

(* new is the route old but for entries that are w's to write. *)
Keeps(w, new, old) ==
  /\ new.uid = old.uid /\ new.gen = old.gen /\ new.spec = old.spec
  /\ Foreigns(new.parents) = Foreigns(old.parents)
  /\ Siblings(w, new.parents) = Siblings(w, old.parents)

Bound(v, g) == GatewayUid[v] # None /\ Scope[v].gateway_scope = g

(* A Gateway g without the address of an instance provisioned for another one. *)
IsGate(g, gate) ==
  /\ gate = [uid |-> gate.uid, gen |-> gate.gen, spec |-> gate.spec, cond |-> gate.cond,
             addresses |-> gate.addresses]
  /\ \A v \in Workers :
       Bound(v, g) /\ gate.uid # GatewayUid[v] => gate.addresses \cap PublishedBy(v) = {}

Decided(w, d, r) ==
  /\ {"route", "gates", "published"} \subseteq DOMAIN d
  /\ Judged(w, d.route, r)
  /\ d.published.addresses \subseteq PublishedBy(w)
  /\ GatewayUid[w] # None => d.gates[Scope[w].gateway_scope].uid = GatewayUid[w]

Shape ==
  /\ DOMAIN gates = Gateways
  /\ DOMAIN cache = Workers /\ DOMAIN decision = Workers /\ DOMAIN todo = Workers
  /\ DOMAIN patch = Workers /\ DOMAIN conflicts = Workers /\ DOMAIN svc = Workers
  /\ \A w \in Workers :
       /\ svc[w] \in Services[w] /\ {"route", "gates"} \subseteq DOMAIN cache[w]
       /\ conflicts[w] \in 0..2

(* The PATCH of w is of what w is writing, and as long as its read is current it changes nothing *)
(* but what is w's.                                                                              *)
Careful(w) ==
  patch[w] # NoPatch =>
    /\ Writing(w, patch[w].target)
    /\ w \in fresh =>
         /\ patch[w].target = TheRoute => IsRoute(patch[w].status) /\ Keeps(w, patch[w].status, route)
         /\ \A g \in Gateways :
              patch[w].target = Target("gateway", g) =>
                IsGate(g, patch[w].status) /\ patch[w].status.uid = gates[g].uid

Inv ==
  /\ Shape
  /\ IsRoute(route)
  /\ \A g \in Gateways : IsGate(g, gates[g])
  /\ \A w \in Workers : ReadOf(cache[w].route, route)
  /\ \A w \in Workers : decision[w] # Idle => Decided(w, decision[w], route)
  /\ \A w \in Workers : Careful(w)

-----------------------------------------------------------------------------
(* What GetRoute makes of the list it read. *)

(* The entries of a result: one for each of its parents, at its generation, with its verdict. *)
LEMMA OwnEntriesFacts ==
  ASSUME NEW w, NEW result, NEW current, NEW gen, IsList(result.parents)
  PROVE  LET E == OwnEntries(w, result, current, gen)
         IN /\ IsList(E)
            /\ \A e \in Range(E) :
                 /\ e.controller = Ours /\ "controller" \in DOMAIN e /\ e.cond.gen = gen
                 /\ \E p \in Range(result.parents) : e.ref = p.ref /\ e.cond.verdict = p.verdict
<1> DEFINE ps == result.parents
           n == Len(ps)
           prior(ref) == IF Entries(current, ref) = {} THEN NoConditions
                         ELSE Filtered(current, Entries(current, ref))[1].cond
           stamp(p) == IF prior(p.ref).verdict = p.verdict THEN prior(p.ref).stamp
                       ELSE Now({q.cond.stamp : q \in Entries(current, p.ref)})
           entry(p) == [controller |-> Ours, ref |-> p.ref,
                        cond |-> [verdict |-> p.verdict, gen |-> gen, stamp |-> stamp(p)]]
           E == OwnEntries(w, result, current, gen)
<1>1. n \in Nat /\ DOMAIN ps = 1..n /\ \A i \in 1..n : ps[i] \in Range(ps)
  BY ListFields
<1>2. E = [i \in 1..n |-> entry(ps[i])]
  BY <1>1 DEF OwnEntries, BuildConditions
<1> HIDE DEF E, stamp
<1>3. \A p : /\ entry(p).controller = Ours /\ "controller" \in DOMAIN entry(p) /\ entry(p).cond.gen = gen
             /\ entry(p).ref = p.ref /\ entry(p).cond.verdict = p.verdict
  OBVIOUS
<1> HIDE DEF entry
<1>4. E = [i \in 1..n |-> E[i]] /\ \A i \in 1..n : E[i] = entry(ps[i])
  BY <1>2
<1>5. IsList(E) /\ DOMAIN E = 1..n
  BY <1>1, <1>4, IndexedList
<1>6. ASSUME NEW e \in Range(E)
      PROVE  /\ e.controller = Ours /\ "controller" \in DOMAIN e /\ e.cond.gen = gen
             /\ \E p \in Range(ps) : e.ref = p.ref /\ e.cond.verdict = p.verdict
  <2>1. PICK i \in 1..n : e = E[i]
    BY <1>5, ListFields
  <2>2. e = entry(ps[i]) /\ ps[i] \in Range(ps)
    BY <1>1, <1>4, <2>1
  <2>3. /\ e.controller = Ours /\ "controller" \in DOMAIN e /\ e.cond.gen = gen
        /\ e.ref = ps[i].ref /\ e.cond.verdict = ps[i].verdict
    BY <1>3, <2>2
  <2> QED
    BY <2>2, <2>3
<1> QED
  BY <1>5, <1>6 DEF E

(* What an instance makes of the route it judged is a route whose entries are truthful, with *)
(* everybody else's entries where they were.                                                  *)
LEMMA MergeIsCareful ==
  ASSUME NEW w, NEW r, IsRoute(r), NEW result, Judged(w, result, r),
         result.uid = r.uid, result.gen = r.gen
  PROVE  LET n == [r EXCEPT !.parents = RouteParents(w, result, r.parents, result.gen)]
         IN IsRoute(n) /\ Keeps(w, n, r)
<1> DEFINE S == Siblings(w, r.parents)
           F == Filtered(r.parents, S)
           O == OwnEntries(w, result, r.parents, result.gen)
           e == F \o O
           t == RouteParents(w, result, r.parents, result.gen)
           n == [r EXCEPT !.parents = t]
<1>1. Truthful(r.parents, r.gen, r.spec) /\ IsList(r.parents)
  BY DEF IsRoute, Truthful
<1>2. /\ S \in SUBSET OursOf(r.parents) /\ S \subseteq Range(r.parents)
      /\ \A p \in S : p.controller = Ours /\ ~OwnsGateway(w, p.ref.gateway)
  BY DEF Siblings, OursOf, Mine
<1>3. /\ IsList(O)
      /\ \A x \in Range(O) :
           /\ x.controller = Ours /\ "controller" \in DOMAIN x /\ x.cond.gen = r.gen
           /\ \E p \in Range(result.parents) : x.ref = p.ref /\ x.cond.verdict = p.verdict
  BY OwnEntriesFacts DEF Judged
<1> HIDE DEF S, O
<1>4. IsList(F) /\ Range(F) = S
  BY <1>1, <1>2, FilteredList
<1> HIDE DEF F
<1>5. IsList(e) /\ Range(e) = S \cup Range(O)
  BY <1>3, <1>4, ListsJoined
<1>6. t = Foreigns(r.parents) \o ByRef(e)
  BY DEF RouteParents, e, F, S, O
<1> HIDE DEF e, t
<1>7. ASSUME NEW p \in S
      PROVE  /\ p.ref \in Refs /\ p.cond.gen \in Nat /\ p.cond.gen <= r.gen
             /\ p.cond.gen = r.gen => p.ref \in Range(r.spec.refs) /\ p.cond.verdict[1] = r.spec.resolved
  BY <1>1, <1>2 DEF Truthful
<1>8. ASSUME NEW x \in Range(O)
      PROVE  /\ x.ref \in Refs /\ x.cond.gen \in Nat /\ x.cond.gen <= r.gen
             /\ OwnsGateway(w, x.ref.gateway)
             /\ x.ref \in Range(r.spec.refs) /\ x.cond.verdict[1] = r.spec.resolved
  <2>1. PICK p \in Range(result.parents) : x.ref = p.ref /\ x.cond.verdict = p.verdict
    BY <1>3
  <2>2. p.ref \in Refs /\ OwnsGateway(w, p.ref.gateway)
        /\ p.ref \in Range(r.spec.refs) /\ p.verdict[1] = r.spec.resolved
    BY DEF Judged
  <2>3. x.cond.gen = r.gen /\ r.gen \in Nat
    BY <1>3 DEF IsRoute
  <2> QED
    BY <2>1, <2>2, <2>3
<1>9. Sortable(e) /\ \A p \in Range(e) : p.controller = Ours
  BY <1>2, <1>3, <1>5, <1>7, <1>8 DEF Sortable
<1>10. /\ IsList(t) /\ OursOf(t) = Range(e)
       /\ \A p \in Range(t) : p \in Range(e) \/ p \in Range(r.parents)
       /\ Foreigns(t) = Foreigns(r.parents)
  BY <1>1, <1>5, <1>6, <1>9, JoinFacts
<1>11. Siblings(w, t) = S
  <2>1. Siblings(w, t) = {p \in OursOf(t) : ~Mine(w, p)}
    BY DEF Siblings, OursOf
  <2>2. \A p \in S : ~Mine(w, p)
    BY <1>2 DEF Mine
  <2>3. \A p \in Range(O) : Mine(w, p)
    BY <1>3, <1>8 DEF Mine
  <2> QED
    BY <1>5, <1>10, <2>1, <2>2, <2>3
<1>12. Truthful(t, r.gen, r.spec)
  <2>1. \A p \in Range(t) : "controller" \in DOMAIN p
    BY <1>1, <1>2, <1>3, <1>5, <1>10 DEF Truthful
  <2> QED
    BY <1>5, <1>7, <1>8, <1>10, <2>1 DEF Truthful
<1>13. n = [uid |-> r.uid, gen |-> r.gen, spec |-> r.spec, parents |-> t]
  BY DEF IsRoute
<1> HIDE DEF n
<1>14. IsRoute(n) /\ Keeps(w, n, r)
  BY <1>10, <1>11, <1>12, <1>13 DEF IsRoute, Keeps, S
<1> QED
  BY <1>14 DEF n, t

-----------------------------------------------------------------------------
(* The invariant. *)

(* The route is the one it was, at this generation or the next, or a new one. *)
Later(new, old) ==
  \/ new.uid = old.uid /\ new.gen = old.gen /\ new.spec = old.spec
  \/ new.uid = old.uid /\ new.gen = old.gen + 1
  \/ new.uid = old.uid + 1

(* What was read of a route was read of it or of an earlier one when the route moves on. *)
LEMMA StillRead ==
  ASSUME NEW c, NEW r, NEW new, ReadOf(c, r), Later(new, r), IsRoute(r), IsRoute(new)
  PROVE  ReadOf(c, new)
BY DEF ReadOf, Later, IsRoute

(* ... and what was decided is still true of the route it is about. *)
LEMMA StillDecided ==
  ASSUME NEW w, NEW d, NEW r, NEW new, Decided(w, d, r), Later(new, r), IsRoute(r), IsRoute(new)
  PROVE  Decided(w, d, new)
<1>1. Judged(w, d.route, new)
  BY DEF Decided, Judged, Later, IsRoute
<1> QED
  BY <1>1 DEF Decided

(* w goes on with what it read, and where it counts on it, that has not changed. *)
Undisturbed(w) ==
  /\ patch'[w] = patch[w] /\ todo'[w] = todo[w] /\ decision'[w] = decision[w]
  /\ w \in fresh' =>
       /\ w \in fresh
       /\ patch[w].target = TheRoute => route' = route
       /\ \A g \in Gateways : patch[w].target = Target("gateway", g) => gates'[g] = gates[g]

(* A PATCH under way stays careful when nothing it counts on changes. *)
LEMMA StillCareful ==
  ASSUME NEW w \in Workers, Careful(w), Undisturbed(w)
  PROVE  Careful(w)'
<1> SUFFICES ASSUME patch'[w] # NoPatch
             PROVE  /\ Writing(w, patch[w].target)'
                    /\ w \in fresh' =>
                         /\ patch'[w].target = TheRoute =>
                              IsRoute(patch'[w].status) /\ Keeps(w, patch'[w].status, route')
                         /\ \A g \in Gateways :
                              patch'[w].target = Target("gateway", g) =>
                                IsGate(g, patch'[w].status) /\ patch'[w].status.uid = gates'[g].uid
  BY DEF Careful
<1>1. Writing(w, patch[w].target)'
  BY DEF Careful, Undisturbed, Writing
<1> QED
  BY <1>1 DEF Careful, Undisturbed

(* What each step has to show. *)
LEMMA StepKeepsInv ==
  ASSUME Inv, Shape', IsRoute(route'), Later(route', route),
         \A g \in Gateways : IsGate(g, gates'[g]),
         \A w \in Workers : cache'[w].route = cache[w].route \/ ReadOf(cache'[w].route, route'),
         \A w \in Workers : \/ decision'[w] = Idle \/ decision'[w] = decision[w]
                            \/ Decided(w, decision'[w], route'),
         \A w \in Workers : patch'[w] = NoPatch \/ Undisturbed(w) \/ Careful(w)'
  PROVE  Inv'
<1>1. \A w \in Workers : ReadOf(cache'[w].route, route')
  BY StillRead DEF Inv
<1>2. \A w \in Workers : decision'[w] # Idle => Decided(w, decision'[w], route')
  BY StillDecided DEF Inv
<1>3. \A w \in Workers : Careful(w)'
  <2> SUFFICES ASSUME NEW w \in Workers PROVE Careful(w)'
    OBVIOUS
  <2>1. CASE patch'[w] = NoPatch
    BY <2>1 DEF Careful
  <2>2. CASE Undisturbed(w)
    BY <2>2, StillCareful DEF Inv
  <2> QED
    BY <2>1, <2>2
<1> QED
  BY <1>1, <1>2, <1>3 DEF Inv

(* Done's effect, instance by instance. *)
LEMMA DoneFacts ==
  ASSUME Inv, NEW w \in Workers, Done(w)
  PROVE  /\ DOMAIN todo' = Workers /\ DOMAIN decision' = Workers
         /\ DOMAIN patch' = Workers /\ DOMAIN conflicts' = Workers
         /\ patch'[w] = NoPatch /\ conflicts'[w] = 0
         /\ decision'[w] = Idle \/ decision'[w] = decision[w]
         /\ \A v \in Workers \ {w} :
              /\ todo'[v] = todo[v] /\ decision'[v] = decision[v]
              /\ patch'[v] = patch[v] /\ conflicts'[v] = conflicts[v]
<1>1. /\ DOMAIN todo = Workers /\ DOMAIN decision = Workers
      /\ DOMAIN patch = Workers /\ DOMAIN conflicts = Workers
  BY DEF Inv, Shape
<1> QED
  BY <1>1 DEF Done

(* An instance goes on to its next object, having written nothing that is read. *)
LEMMA DoneKeepsInv ==
  ASSUME Inv, NEW w \in Workers, Done(w), UNCHANGED <<gates, route, svc, cache>>, fresh' \subseteq fresh
  PROVE  Inv'
<1>1. Shape' /\ \A v \in Workers : patch'[v] = NoPatch \/ Undisturbed(v)
  BY DoneFacts DEF Inv, Shape, Undisturbed
<1>2. Later(route', route)
  BY DEF Later
<1>3. \A v \in Workers : decision'[v] = Idle \/ decision'[v] = decision[v]
  BY DoneFacts
<1> QED
  BY <1>1, <1>2, <1>3, StepKeepsInv DEF Inv

(* A change to the route, made by others, that leaves what instances do alone. *)
LEMMA RouteChangeKeepsInv ==
  ASSUME Inv, IsRoute(route'), Later(route', route), fresh' = Touched(TheRoute),
         UNCHANGED <<gates, svc, cache, decision, todo, patch, conflicts>>
  PROVE  Inv'
<1>1. Shape' /\ \A w \in Workers : Undisturbed(w)
  BY DEF Inv, Shape, Undisturbed, Touched
<1> QED
  BY <1>1, StepKeepsInv DEF Inv

(* ... and to a Gateway. *)
LEMMA GatewayChangeKeepsInv ==
  ASSUME Inv, NEW g \in Gateways, NEW gate, gates' = [gates EXCEPT ![g] = gate], IsGate(g, gate),
         fresh' = Touched(Target("gateway", g)),
         UNCHANGED <<route, svc, cache, decision, todo, patch, conflicts>>
  PROVE  Inv'
<1>1. DOMAIN gates = Gateways
  BY DEF Inv, Shape
<1>2. Shape' /\ \A w \in Workers : Undisturbed(w)
  BY <1>1 DEF Inv, Shape, Undisturbed, Touched
<1>3. \A h \in Gateways : IsGate(h, gates'[h])
  BY <1>1 DEF Inv
<1>4. Later(route', route)
  BY DEF Later
<1> QED
  BY <1>2, <1>3, <1>4, StepKeepsInv DEF Inv

(* No instance has read, decided or written anything yet. *)
LEMMA InitEstablishesInv == Init => Inv
<1> SUFFICES ASSUME Init PROVE Inv
  OBVIOUS
<1>1. PICK s \in RouteSpecs : route = [uid |-> 1, gen |-> 1, spec |-> s, parents |-> <<>>]
  BY DEF Init
<1>2. IsRoute(route)
  <2>1. IsList(<<>>) /\ Range(<<>>) = {}
    BY DEF IsList, Range
  <2>2. Truthful(<<>>, 1, s)
    BY <2>1 DEF Truthful, OursOf
  <2> QED
    BY <1>1, <2>2 DEF IsRoute
<1>3. \A w \in Workers : svc[w] \in Services[w]
  <2> SUFFICES ASSUME NEW w \in Workers PROVE svc[w] \in Services[w]
    OBVIOUS
  <2>1. \E x \in Services[w] : Publication(x).state = "Ready" <=> ~IsDefault(w)
    BY ServicesAssumption
  <2>2. svc[w] = CHOOSE x \in Services[w] : Publication(x).state = "Ready" <=> ~IsDefault(w)
    BY DEF Init
  <2> QED
    BY <2>1, <2>2
<1>4. Shape
  BY <1>3 DEF Init, Shape
<1>5. \A g \in Gateways : IsGate(g, gates[g])
  BY DEF Init, IsGate
<1>6. \A w \in Workers : ReadOf(cache[w].route, route)
  BY <1>1 DEF Init, ReadOf, CachedRoute
<1>7. \A w \in Workers : decision[w] = Idle /\ Careful(w)
  BY DEF Init, Careful
<1> QED
  BY <1>2, <1>4, <1>5, <1>6, <1>7 DEF Inv

(* A result has parents of the route that are the instance's, with what the route says. *)
LEMMA ParentResultsFacts ==
  ASSUME NEW w, NEW spec \in RouteSpecs, NEW gs
  PROVE  /\ IsList(ParentResults(w, spec, gs))
         /\ \A p \in Range(ParentResults(w, spec, gs)) :
              /\ p.ref \in Refs /\ p.ref \in Range(spec.refs) /\ OwnsGateway(w, p.ref.gateway)
              /\ p.verdict[1] = spec.resolved
<1> DEFINE K == {ref \in Range(spec.refs) : ref.gateway \in Owned(w)}
           a == Filtered(spec.refs, K)
           n == Len(a)
           lost(i) == /\ a[i] \in spec.loses
                      /\ \A j \in DOMAIN a : a[j] = a[i] => i <= j
           ps == ParentResults(w, spec, gs)
<1>1. spec.refs \in Seq(Refs)
  BY RouteSpecsAssumption DEF Refs
<1>2. DOMAIN spec.refs = 1..Len(spec.refs) /\ Len(spec.refs) \in Nat /\ \A i \in 1..Len(spec.refs) : spec.refs[i] \in Refs
  BY <1>1
<1>3. IsList(spec.refs) /\ \A ref \in Range(spec.refs) : ref \in Refs
  <2>1. spec.refs = [i \in 1..Len(spec.refs) |-> spec.refs[i]]
    BY <1>1
  <2>2. IsList(spec.refs)
    BY <1>2, <2>1, IndexedList
  <2> QED
    BY <1>2, <2>2 DEF Range
<1>4. IsList(a) /\ Range(a) = Range(spec.refs) \cap K
  <2> HIDE DEF K
  <2> QED
    BY <1>3, FilteredList
<1>5. ps = [i \in DOMAIN a |-> [ref |-> a[i], verdict |-> <<spec.resolved, gs[a[i].gateway].spec, lost(i)>>]]
  BY DEF ParentResults
<1> HIDE DEF a, ps, lost
<1>6. n \in Nat /\ DOMAIN a = 1..n /\ \A i \in 1..n : a[i] \in Range(a)
  BY <1>4, ListFields
<1>7. \A i \in 1..n : ps[i].ref = a[i] /\ ps[i].verdict[1] = spec.resolved
  BY <1>5, <1>6
<1>8. ps = [i \in 1..n |-> ps[i]]
  BY <1>5, <1>6
<1>9. IsList(ps) /\ DOMAIN ps = 1..n
  BY <1>6, <1>8, IndexedList
<1>10. \A ref \in Range(a) : ref \in Refs /\ ref \in Range(spec.refs) /\ OwnsGateway(w, ref.gateway)
  BY <1>3, <1>4 DEF Owned
<1>11. \A p \in Range(ps) : /\ p.ref \in Refs /\ p.ref \in Range(spec.refs) /\ OwnsGateway(w, p.ref.gateway)
                             /\ p.verdict[1] = spec.resolved
  BY <1>6, <1>7, <1>9, <1>10 DEF Range
<1> QED
  BY <1>9, <1>11 DEF ps

(* A pass decides from what it has read of the route. *)
LEMMA BuildKeepsInv ==
  ASSUME Inv, NEW w \in Workers, Build(w)
  PROVE  Inv'
<1> DEFINE c == cache[w].route
           d == decision'[w]
<1>1. UNCHANGED <<gates, route, svc, cache, todo, patch, conflicts, fresh>> /\ DOMAIN decision = Workers
  BY DEF Build, Inv, Shape
<1>2. ReadOf(c, route) /\ svc[w] \in Services[w]
  BY DEF Inv, Shape
<1>3. /\ DOMAIN decision' = Workers
      /\ \A v \in Workers \ {w} : decision'[v] = decision[v]
      /\ d = [pc |-> "built", route |-> RouteResult(w), reported |-> Reported(w, RouteResult(w)),
              gates |-> [g \in Owned(w) |-> cache[w].gates[g]],
              published |-> Publication(svc[w]),
              points |-> IF svc[w].type \in {"unset", "missing"} THEN {} ELSE svc[w].points]
  BY <1>1 DEF Build
<1>4. Judged(w, RouteResult(w), route)
  <2> DEFINE R == RouteResult(w)
             ps == ParentResults(w, c.spec, cache[w].gates)
  <2>1. R = [uid |-> c.uid, gen |-> c.gen, parents |-> ps]
    BY DEF RouteResult
  <2>2. c.spec \in RouteSpecs
    BY <1>2 DEF ReadOf
  <2>3. /\ IsList(ps)
        /\ \A p \in Range(ps) :
             /\ p.ref \in Refs /\ p.ref \in Range(c.spec.refs) /\ OwnsGateway(w, p.ref.gateway)
             /\ p.verdict[1] = c.spec.resolved
    <3> HIDE DEF c
    <3> QED
      BY <2>2, ParentResultsFacts
  <2> HIDE DEF ps
  <2>4. R.uid = c.uid /\ R.gen = c.gen /\ R.parents = ps
    BY <2>1
  <2> HIDE DEF R
  <2> QED
    BY <1>2, <2>3, <2>4 DEF Judged, ReadOf, R
<1>5. Publication(svc[w]).addresses \subseteq PublishedBy(w)
  <2>1. svc[w].points \subseteq PublishedBy(w) /\ svc[w].clusterIps \subseteq PublishedBy(w)
    BY <1>2 DEF PublishedBy
  <2>2. Addresses(svc[w]) \subseteq PublishedBy(w)
    BY <2>1 DEF Addresses
  <2> QED
    BY <2>2 DEF Publication
<1>6. GatewayUid[w] # None => d.gates[Scope[w].gateway_scope].uid = GatewayUid[w]
  <2> SUFFICES ASSUME GatewayUid[w] # None
               PROVE  d.gates[Scope[w].gateway_scope].uid = GatewayUid[w]
    OBVIOUS
  <2>1. Scope[w].gateway_scope \in Owned(w)
    BY WorkersAssumption DEF Owned, OwnsGateway, IsDefault, None
  <2>2. cache[w].gates[Scope[w].gateway_scope].uid = GatewayUid[w]
    BY DEF Build
  <2>3. d.gates = [g \in Owned(w) |-> cache[w].gates[g]]
    BY <1>3
  <2> QED
    BY <2>1, <2>2, <2>3
<1>7. Decided(w, d, route)
  <2>1. d.route = RouteResult(w) /\ d.published = Publication(svc[w])
        /\ {"route", "gates", "published"} \subseteq DOMAIN d
    BY <1>3
  <2> HIDE DEF d
  <2> QED
    BY <1>4, <1>5, <1>6, <2>1 DEF Decided
<1>8. \A v \in Workers : patch'[v] = NoPatch \/ Undisturbed(v)
  <2>1. patch[w] = NoPatch
    BY DEF Build, Inv, Careful, Writing, Idle
  <2> QED
    BY <1>1, <1>3, <2>1 DEF Undisturbed
<1>9. Shape' /\ Later(route', route)
  BY <1>1, <1>3 DEF Inv, Shape, Later
<1>10. \A v \in Workers : decision'[v] = decision[v] \/ Decided(v, decision'[v], route')
  BY <1>1, <1>3, <1>7
<1> QED
  BY <1>1, <1>8, <1>9, <1>10, StepKeepsInv DEF Inv

(* The second identity check changes neither what was decided nor what is being written. *)
LEMMA FenceKeepsInv ==
  ASSUME Inv, NEW w \in Workers, Fence(w)
  PROVE  Inv'
<1>1. UNCHANGED <<gates, route, svc, cache, patch, conflicts, fresh>>
      /\ DOMAIN decision = Workers /\ DOMAIN todo = Workers
  BY DEF Fence, Inv, Shape
<1>2. decision[w].pc = "built" /\ decision[w] # Idle
  BY DEF Fence, Idle
<1>3. Decided(w, decision[w], route)
  BY <1>2 DEF Inv
<1>4. /\ DOMAIN decision' = Workers /\ DOMAIN todo' = Workers
      /\ \A v \in Workers \ {w} : decision'[v] = decision[v] /\ todo'[v] = todo[v]
      /\ decision'[w] = Idle \/ decision'[w] = [decision[w] EXCEPT !.pc = "writing"]
  BY <1>1 DEF Fence
<1>5. Decided(w, [decision[w] EXCEPT !.pc = "writing"], route)
  <2> DEFINE d == decision[w]
             e == [d EXCEPT !.pc = "writing"]
  <2>1. {"route", "gates", "published"} \subseteq DOMAIN d
    BY <1>3 DEF Decided
  <2>2. DOMAIN e = DOMAIN d /\ e.route = d.route /\ e.gates = d.gates /\ e.published = d.published
    BY <2>1
  <2> HIDE DEF e
  <2>3. Decided(w, e, route)
    BY <1>3, <2>2 DEF Decided
  <2> QED
    BY <2>3 DEF e
<1>6. \A v \in Workers : patch'[v] = NoPatch \/ Undisturbed(v)
  <2>1. patch[w] = NoPatch
    BY <1>2 DEF Inv, Careful, Writing
  <2> QED
    BY <1>1, <1>4, <2>1 DEF Undisturbed
<1>7. Shape' /\ Later(route', route)
  BY <1>1, <1>4 DEF Inv, Shape, Later
<1>8. \A v \in Workers : decision'[v] = Idle \/ decision'[v] = decision[v] \/ Decided(v, decision'[v], route')
  BY <1>1, <1>4, <1>5
<1> QED
  BY <1>1, <1>6, <1>7, <1>8, StepKeepsInv DEF Inv

(* A GET that finds something to write: the PATCH it prepares must be careful. *)
LEMMA GetKeepsInv ==
  ASSUME Inv, NEW w \in Workers, NEW target, NEW current, NEW desired, NEW skip \in BOOLEAN,
         Get(w, target, current, desired, skip),
         ~skip => /\ target = TheRoute => IsRoute(desired) /\ Keeps(w, desired, route)
                  /\ \A g \in Gateways : target = Target("gateway", g) =>
                       IsGate(g, desired) /\ desired.uid = gates[g].uid
  PROVE  Inv'
<1>1. CASE skip \/ desired = current
  <2>1. Done(w) /\ UNCHANGED fresh /\ UNCHANGED <<gates, route, svc, cache>>
    BY <1>1 DEF Get
  <2> QED
    BY <2>1, DoneKeepsInv
<1>2. CASE ~(skip \/ desired = current)
  <2>1. /\ UNCHANGED <<gates, route, svc, cache, decision, todo, conflicts>>
        /\ fresh' = fresh \cup {w} /\ Writing(w, target)
        /\ patch' = [patch EXCEPT ![w] = [target |-> target, status |-> desired]]
    BY <1>2 DEF Get
  <2>2. DOMAIN patch = Workers
    BY DEF Inv, Shape
  <2>3. /\ DOMAIN patch' = Workers
        /\ patch'[w].target = target /\ patch'[w].status = desired
        /\ \A v \in Workers \ {w} : patch'[v] = patch[v]
    BY <2>1, <2>2
  <2>4. Careful(w)'
    <3>1. Writing(w, patch[w].target)'
      BY <2>1, <2>3 DEF Writing
    <3> QED
      BY <1>2, <2>1, <2>3, <3>1 DEF Careful
  <2>5. \A v \in Workers \ {w} : Undisturbed(v)
    BY <2>1, <2>3 DEF Undisturbed
  <2>6. Shape' /\ Later(route', route)
    BY <2>1, <2>3 DEF Inv, Shape, Later
  <2> QED
    BY <2>1, <2>4, <2>5, <2>6, StepKeepsInv DEF Inv
<1> QED
  BY <1>1, <1>2

(* write_route reads the route its decision is about. *)
LEMMA GetRouteKeepsInv ==
  ASSUME Inv, NEW w \in Workers, GetRoute(w)
  PROVE  Inv'
<1> DEFINE result == decision[w].route
           desired == [route EXCEPT !.parents = RouteParents(w, result, route.parents, result.gen)]
           skip == StaleRoute(result)
<1>1. Get(w, TheRoute, route, desired, skip) /\ Writing(w, TheRoute)
  BY DEF GetRoute
<1>2. IsRoute(route) /\ Judged(w, result, route)
  BY <1>1 DEF Inv, Decided, Writing, Idle
<1>3. ~skip => result.uid = route.uid /\ result.gen = route.gen
  BY DEF StaleRoute
<1>4. ~skip => IsRoute(desired) /\ Keeps(w, desired, route)
  <2> HIDE DEF result, skip
  <2> QED
    BY <1>2, <1>3, MergeIsCareful
<1>5. \A g : TheRoute # Target("gateway", g)
  BY DEF TheRoute, Target
<1>6. skip \in BOOLEAN
  BY DEF StaleRoute
<1> HIDE DEF result, desired, skip
<1> QED
  BY <1>1, <1>4, <1>5, <1>6, GetKeepsInv

(* write_gateway reads the Gateway of its build, and publishes the instance's own addresses. *)
LEMMA GetGatewayKeepsInv ==
  ASSUME Inv, NEW w \in Workers, NEW g \in Gateways, GetGateway(w, g)
  PROVE  Inv'
<1> DEFINE result == decision[w].gates[g]
           published == decision[w].published
           gate == gates[g]
           desired == GatewayStatus(gate, result, published)
           skip == OtherGateway(g, result)
<1>1. Get(w, Target("gateway", g), gate, desired, skip) /\ Writing(w, Target("gateway", g))
  BY DEF GetGateway
<1>2. Decided(w, decision[w], route)
  BY <1>1 DEF Inv, Writing, Idle
<1>3. IsGate(g, gate)
  BY DEF Inv
<1>4. /\ desired.uid = gate.uid
      /\ desired.addresses = gate.addresses \/ desired.addresses = published.addresses
      /\ desired = [uid |-> desired.uid, gen |-> desired.gen, spec |-> desired.spec,
                    cond |-> desired.cond, addresses |-> desired.addresses]
  <2> DEFINE cond == BuildConditions(<<result.spec, published.state = "Pending">>, gate.cond, gate.gen,
                                     Now({gate.cond.stamp}))
             addresses == IF published.addresses = {} THEN gate.addresses ELSE published.addresses
  <2>1. gate = [uid |-> gate.uid, gen |-> gate.gen, spec |-> gate.spec, cond |-> gate.cond,
                addresses |-> gate.addresses]
    BY <1>3 DEF IsGate
  <2>2. desired = [gate EXCEPT !.cond = cond, !.addresses = addresses]
    BY DEF GatewayStatus
  <2> HIDE DEF gate, cond, desired
  <2>3. desired = [uid |-> gate.uid, gen |-> gate.gen, spec |-> gate.spec, cond |-> cond,
                   addresses |-> addresses]
    BY <2>1, <2>2
  <2> QED
    BY <2>3
<1>5. ASSUME ~skip PROVE IsGate(g, desired)
  <2> SUFFICES ASSUME NEW v \in Workers, Bound(v, g), gate.uid # GatewayUid[v]
               PROVE  desired.addresses \cap PublishedBy(v) = {}
    BY <1>4 DEF IsGate
  <2>1. CASE desired.addresses = gate.addresses
    BY <1>3, <2>1 DEF IsGate
  <2>2. CASE desired.addresses = published.addresses
    <3>1. v # w
      BY <1>2, <1>5 DEF Bound, Decided, OtherGateway
    <3>2. published.addresses \subseteq PublishedBy(w)
      BY <1>2 DEF Decided
    <3>3. PublishedBy(v) \cap PublishedBy(w) = {}
      BY <3>1, ServicesAssumption
    <3> QED
      BY <2>2, <3>2, <3>3
  <2> QED
    BY <1>4, <2>1, <2>2
<1>6. Target("gateway", g) # TheRoute
      /\ \A h \in Gateways : Target("gateway", g) = Target("gateway", h) => h = g
  BY DEF TheRoute, Target
<1>7. skip \in BOOLEAN
  BY DEF OtherGateway
<1>8. ~skip => \A h \in Gateways : Target("gateway", g) = Target("gateway", h) =>
                 IsGate(h, desired) /\ desired.uid = gates[h].uid
  BY <1>4, <1>5, <1>6
<1> HIDE DEF result, desired, skip
<1> QED
  BY <1>1, <1>6, <1>7, <1>8, GetKeepsInv

(* What a PATCH of the route sends, when it is not refused. *)
LEMMA PatchRouteFacts ==
  ASSUME Inv, NEW w \in Workers, PatchRoute(w), w \in fresh
  PROVE  /\ route' = patch[w].status /\ fresh' = Touched(TheRoute) /\ Done(w)
         /\ UNCHANGED <<gates, svc, cache>>
         /\ IsRoute(patch[w].status) /\ Keeps(w, patch[w].status, route)
<1>1. route' = patch[w].status /\ fresh' = Touched(TheRoute) /\ Done(w) /\ UNCHANGED <<gates, svc, cache>>
  BY DEF PatchRoute
<1>2. patch[w].target = TheRoute /\ patch[w] # NoPatch
  BY DEF PatchRoute, Inv, Careful, Writing
<1> QED
  BY <1>1, <1>2 DEF Inv, Careful

(* The PATCH of the route, taken or refused. *)
LEMMA PatchRouteKeepsInv ==
  ASSUME Inv, NEW w \in Workers, PatchRoute(w)
  PROVE  Inv'
<1>1. CASE w \in fresh
  <2>1. /\ IsRoute(route') /\ Keeps(w, route', route) /\ fresh' = Touched(TheRoute)
        /\ UNCHANGED <<gates, svc, cache>> /\ Done(w)
    BY <1>1, PatchRouteFacts
  <2>2. Later(route', route)
    BY <2>1 DEF Keeps, Later
  <2>3. Shape' /\ \A v \in Workers : patch'[v] = NoPatch \/ Undisturbed(v)
    BY <2>1, DoneFacts DEF Inv, Shape, Undisturbed, Touched
  <2>4. \A v \in Workers : decision'[v] = Idle \/ decision'[v] = decision[v]
    BY <2>1, DoneFacts
  <2> QED
    BY <2>1, <2>2, <2>3, <2>4, StepKeepsInv DEF Inv
<1>2. CASE w \notin fresh /\ UNCHANGED <<gates, route, svc, cache, fresh, todo, decision>>
           /\ conflicts' = [conflicts EXCEPT ![w] = @ + 1] /\ patch' = [patch EXCEPT ![w] = NoPatch]
           /\ conflicts[w] < 2
  <2>1. DOMAIN patch = Workers /\ DOMAIN conflicts = Workers /\ conflicts[w] \in 0..2
    BY DEF Inv, Shape
  <2>2. /\ DOMAIN patch' = Workers /\ DOMAIN conflicts' = Workers /\ patch'[w] = NoPatch
        /\ conflicts'[w] \in 0..2
        /\ \A v \in Workers \ {w} : patch'[v] = patch[v] /\ conflicts'[v] = conflicts[v]
    BY <1>2, <2>1
  <2>3. Shape' /\ \A v \in Workers : patch'[v] = NoPatch \/ Undisturbed(v)
    BY <1>2, <2>2 DEF Inv, Shape, Undisturbed
  <2>4. Later(route', route)
    BY <1>2 DEF Later
  <2> QED
    BY <1>2, <2>3, <2>4, StepKeepsInv DEF Inv
<1>3. CASE w \notin fresh /\ Done(w) /\ UNCHANGED <<gates, route, svc, cache, fresh>>
  BY <1>3, DoneKeepsInv
<1>4. conflicts[w] < 2 \/ conflicts[w] = 2
  BY DEF Inv, Shape
<1> QED
  BY <1>1, <1>2, <1>3, <1>4 DEF PatchRoute

(* write_gateway's PATCH *)
LEMMA PatchGatewayKeepsInv ==
  ASSUME Inv, NEW w \in Workers, NEW g \in Gateways, PatchGateway(w, g)
  PROVE  Inv'
<1>1. CASE w \notin fresh
  BY <1>1, DoneKeepsInv DEF PatchGateway
<1>2. CASE w \in fresh
  <2>1. /\ gates' = [gates EXCEPT ![g] = patch[w].status] /\ fresh' = Touched(Target("gateway", g))
        /\ Done(w) /\ UNCHANGED <<route, svc, cache>>
    BY <1>2 DEF PatchGateway
  <2>2. patch[w].target = Target("gateway", g) /\ patch[w] # NoPatch
    BY DEF PatchGateway, Inv, Careful, Writing
  <2>3. IsGate(g, patch[w].status)
    BY <1>2, <2>2 DEF Inv, Careful
  <2>4. DOMAIN gates = Gateways
    BY DEF Inv, Shape
  <2>5. DOMAIN gates' = Gateways /\ \A h \in Gateways \ {g} : gates'[h] = gates[h]
    BY <2>1, <2>4
  <2>6. \A h \in Gateways : IsGate(h, gates'[h])
    BY <2>1, <2>3, <2>4 DEF Inv
  <2>7. Shape'
    BY <2>1, <2>5, DoneFacts DEF Inv, Shape
  <2>8. \A v \in Workers : patch'[v] = NoPatch \/ Undisturbed(v)
    BY <2>1, <2>5, DoneFacts DEF Undisturbed, Touched
  <2>9. Later(route', route) /\ \A v \in Workers : decision'[v] = Idle \/ decision'[v] = decision[v]
    BY <2>1, DoneFacts DEF Later
  <2> QED
    BY <2>1, <2>6, <2>7, <2>8, <2>9, StepKeepsInv DEF Inv
<1> QED
  BY <1>1, <1>2

(* A watch delivers. *)
LEMMA ObserveKeepsInv ==
  ASSUME Inv, NEW w \in Workers, ObserveRoute(w) \/ ObserveGateways(w)
  PROVE  Inv'
<1>1. UNCHANGED <<gates, route, svc, decision, todo, patch, conflicts, fresh>>
  BY DEF ObserveRoute, ObserveGateways
<1>2. DOMAIN cache = Workers /\ {"route", "gates"} \subseteq DOMAIN cache[w]
  BY DEF Inv, Shape
<1>3. /\ DOMAIN cache' = Workers /\ DOMAIN cache'[w] = DOMAIN cache[w]
      /\ \A v \in Workers \ {w} : cache'[v] = cache[v]
      /\ cache'[w].route = cache[w].route \/ cache'[w].route = CachedRoute(w)
  BY <1>2 DEF ObserveRoute, ObserveGateways
<1>4. ReadOf(CachedRoute(w), route)
  BY DEF Inv, IsRoute, ReadOf, CachedRoute
<1>5. Shape' /\ Later(route', route) /\ \A v \in Workers : Undisturbed(v)
  BY <1>1, <1>2, <1>3 DEF Inv, Shape, Later, Undisturbed
<1>6. \A v \in Workers : cache'[v].route = cache[v].route \/ ReadOf(cache'[v].route, route')
  BY <1>1, <1>3, <1>4
<1> QED
  BY <1>1, <1>5, <1>6, StepKeepsInv DEF Inv

(* An edit or a new route: entries written before it claim nothing about it. *)
LEMMA NewSpecKeepsInv ==
  ASSUME Inv, NEW s \in RouteSpecs, EditRoute(s) \/ RecreateRoute(s)
  PROVE  Inv'
<1>1. /\ fresh' = Touched(TheRoute)
      /\ UNCHANGED <<gates, svc, cache, decision, todo, patch, conflicts>>
  BY DEF EditRoute, RecreateRoute
<1>2. IsRoute(route)
  BY DEF Inv
<1>3. CASE EditRoute(s)
  <2>1. route' = [uid |-> route.uid, gen |-> route.gen + 1, spec |-> s, parents |-> route.parents]
    BY <1>2, <1>3 DEF EditRoute, IsRoute
  <2>2. Truthful(route.parents, route.gen + 1, s)
    <3>1. route.gen \in Nat /\ Truthful(route.parents, route.gen, route.spec)
      BY <1>2 DEF IsRoute
    <3>2. \A p \in OursOf(route.parents) :
            p.cond.gen \in Nat /\ p.cond.gen <= route.gen + 1 /\ p.cond.gen # route.gen + 1
      BY <3>1 DEF Truthful
    <3> QED
      BY <3>1, <3>2 DEF Truthful
  <2>3. IsRoute(route') /\ Later(route', route)
    BY <1>2, <2>1, <2>2 DEF IsRoute, Later
  <2> QED
    BY <1>1, <2>3, RouteChangeKeepsInv
<1>4. CASE RecreateRoute(s)
  <2>1. route' = [uid |-> route.uid + 1, gen |-> 1, spec |-> s, parents |-> <<>>]
    BY <1>4 DEF RecreateRoute
  <2>2. IsList(<<>>) /\ Range(<<>>) = {}
    BY DEF IsList, Range
  <2>3. Truthful(<<>>, 1, s)
    BY <2>2 DEF Truthful, OursOf
  <2>4. IsRoute(route') /\ Later(route', route)
    BY <1>2, <2>1, <2>3 DEF IsRoute, Later
  <2> QED
    BY <1>1, <2>4, RouteChangeKeepsInv
<1> QED
  BY <1>3, <1>4

(* Another controller's write leaves our entries alone. *)
LEMMA ForeignWritesKeepsInv ==
  ASSUME Inv, ForeignWrites
  PROVE  Inv'
<1> DEFINE ps == route.parents
           others == {i \in DOMAIN ps : ps[i].controller = Foreign}
           entry == [controller |-> Foreign, ref |-> [gateway |-> 0, section |-> 0],
                     cond |-> BuildConditions(<<"Accepted">>, NoConditions, route.gen, 1)]
           touched == [i \in DOMAIN ps |->
                         IF i \in others THEN [ps[i] EXCEPT !.cond.stamp = 1 - @] ELSE ps[i]]
           new == IF others = {} THEN Append(ps, entry) ELSE touched
<1>1. /\ fresh' = Touched(TheRoute)
      /\ UNCHANGED <<gates, svc, cache, decision, todo, patch, conflicts>>
      /\ route' = [route EXCEPT !.parents = new]
  BY DEF ForeignWrites
<1>2. IsRoute(route) /\ Truthful(ps, route.gen, route.spec) /\ IsList(ps)
  BY DEF Inv, IsRoute, Truthful
<1>3. Len(ps) \in Nat /\ DOMAIN ps = 1..Len(ps)
  BY <1>2, ListFields
<1>4. \A i \in DOMAIN ps : "controller" \in DOMAIN ps[i]
  BY <1>2 DEF Truthful, Range
<1>5. Foreign # Ours
  BY DEF Foreign, Ours
<1>6. IsList(new) /\ OursOf(new) = OursOf(ps) /\ \A p \in Range(new) : "controller" \in DOMAIN p
  <2>1. CASE others = {}
    <3> DEFINE a == Append(ps, entry)
               n == Len(ps)
    <3>1. entry.controller = Foreign /\ "controller" \in DOMAIN entry
      OBVIOUS
    <3> HIDE DEF entry
    <3>2. ps \in Seq(Range(ps) \cup {entry})
      BY <1>2 DEF IsList
    <3>3. /\ a \in Seq(Range(ps) \cup {entry}) /\ Len(a) = n + 1 /\ DOMAIN a = 1..(n + 1)
          /\ a[n + 1] = entry
          /\ \A i \in 1..n : a[i] = ps[i]
      BY <3>2
    <3>4. IsList(a)
      <4>1. n + 1 \in Nat /\ a = [i \in 1..(n + 1) |-> a[i]]
        BY <1>3, <3>3
      <4> HIDE DEF a
      <4> QED
        BY <4>1, IndexedList
    <3> HIDE DEF a, ps
    <3>5. \A i \in DOMAIN a : (i \in DOMAIN ps /\ a[i] = ps[i]) \/ (i = n + 1 /\ a[i] = entry)
      BY <1>3, <3>3 DEF n
    <3>6. \A i \in DOMAIN ps : i \in DOMAIN a /\ a[i] = ps[i]
      BY <1>3, <3>3 DEF n
    <3>7. OursOf(a) = OursOf(ps) /\ \A p \in Range(a) : "controller" \in DOMAIN p
      BY <1>4, <1>5, <3>1, <3>5, <3>6 DEF OursOf, Range
    <3> QED
      BY <2>1, <3>4, <3>7 DEF a
  <2>2. CASE others # {}
    <3>1. DOMAIN touched = DOMAIN ps
      OBVIOUS
    <3>2. ASSUME NEW i \in DOMAIN ps
          PROVE  /\ i \in others => touched[i].controller = Foreign /\ ps[i].controller = Foreign
                 /\ i \notin others => touched[i] = ps[i]
                 /\ "controller" \in DOMAIN touched[i]
      BY <1>4
    <3> HIDE DEF others
    <3>3. IsList(touched)
      <4>1. touched = [i \in 1..Len(ps) |-> touched[i]]
        BY <1>3
      <4> HIDE DEF touched
      <4> QED
        BY <1>3, <4>1, IndexedList
    <3> HIDE DEF touched
    <3>4. OursOf(touched) = OursOf(ps) /\ \A p \in Range(touched) : "controller" \in DOMAIN p
      BY <1>5, <3>1, <3>2 DEF OursOf, Range
    <3> QED
      BY <2>2, <3>3, <3>4
  <2> QED
    BY <2>1, <2>2
<1> HIDE DEF new
<1>7. Truthful(new, route.gen, route.spec)
  BY <1>2, <1>6 DEF Truthful
<1>8. route' = [uid |-> route.uid, gen |-> route.gen, spec |-> route.spec, parents |-> new]
  BY <1>1, <1>2 DEF IsRoute
<1>9. IsRoute(route') /\ Later(route', route)
  BY <1>2, <1>7, <1>8 DEF IsRoute, Later
<1> QED
  BY <1>1, <1>9, RouteChangeKeepsInv

(* A Gateway is edited, or replaced by one that has no address yet. *)
LEMMA NewGatewayKeepsInv ==
  ASSUME Inv, NEW g \in Gateways, NEW s, EditGateway(g, s) \/ RecreateGateway(g, s)
  PROVE  Inv'
<1>1. IsGate(g, gates[g]) /\ DOMAIN gates = Gateways
  BY DEF Inv, Shape
<1>2. CASE EditGateway(g, s)
  <2> DEFINE old == gates[g]
             new == gates'[g]
             gate == [uid |-> old.uid, gen |-> new.gen, spec |-> s, cond |-> old.cond,
                      addresses |-> old.addresses]
  <2>1. gates' = [gates EXCEPT ![g] = new] /\ new = [old EXCEPT !.spec = s, !.gen = @ + 1]
    BY <1>1, <1>2 DEF EditGateway
  <2>2. new = gate
    <3>1. old = [uid |-> old.uid, gen |-> old.gen, spec |-> old.spec, cond |-> old.cond,
                 addresses |-> old.addresses]
      BY <1>1 DEF IsGate
    <3> HIDE DEF old, new
    <3> QED
      BY <2>1, <3>1
  <2> HIDE DEF new
  <2>3. IsGate(g, gate)
    BY <1>1 DEF IsGate
  <2>4. gates' = [gates EXCEPT ![g] = gate]
    BY <2>1, <2>2
  <2> HIDE DEF gate
  <2> QED
    BY <1>2, <2>3, <2>4, GatewayChangeKeepsInv DEF EditGateway
<1>3. CASE RecreateGateway(g, s)
  <2> DEFINE gate == [uid |-> gates[g].uid + 1, gen |-> 1, spec |-> s, cond |-> NoConditions,
                      addresses |-> {}]
  <2>1. gates' = [gates EXCEPT ![g] = gate]
    BY <1>3 DEF RecreateGateway
  <2>2. IsGate(g, gate)
    BY DEF IsGate
  <2> HIDE DEF gate
  <2> QED
    BY <1>3, <2>1, <2>2, GatewayChangeKeepsInv DEF RecreateGateway
<1> QED
  BY <1>2, <1>3

(* What an instance's Service may become is one of its Services. *)
LEMMA EditServiceKeepsInv ==
  ASSUME Inv, NEW w \in Workers, NEW s, EditService(w, s)
  PROVE  Inv'
<1>1. DOMAIN svc = Workers
  BY DEF Inv, Shape
<1>2. DOMAIN svc' = Workers /\ \A v \in Workers : svc'[v] \in Services[v]
  BY <1>1 DEF EditService, Inv, Shape
<1>3. UNCHANGED <<gates, route, cache, decision, todo, patch, conflicts, fresh>>
  BY DEF EditService
<1>4. Shape' /\ Later(route', route) /\ \A v \in Workers : Undisturbed(v)
  BY <1>2, <1>3 DEF Inv, Shape, Later, Undisturbed
<1> QED
  BY <1>3, <1>4, StepKeepsInv DEF Inv

(* Steps that change nothing Inv is about. *)
LEMMA NothingRead ==
  ASSUME Inv, UNCHANGED <<gates, route, svc, cache, decision, todo, patch, conflicts, fresh>>
  PROVE  Inv'
<1>1. Shape' /\ Later(route', route) /\ \A v \in Workers : Undisturbed(v)
  BY DEF Inv, Shape, Later, Undisturbed
<1> QED
  BY <1>1, StepKeepsInv DEF Inv

(* Every step keeps the invariant. *)
LEMMA NextKeepsInv == Inv /\ [Next]_vars => Inv'
<1> SUFFICES ASSUME Inv, [Next]_vars PROVE Inv'
  OBVIOUS
<1>1. ASSUME NEW w \in Workers, Pass(w) PROVE Inv'
  <2>1. CASE Build(w)
    BY <2>1, BuildKeepsInv
  <2>2. CASE Fence(w)
    BY <2>2, FenceKeepsInv
  <2>3. CASE WriteClass(w)
    BY <2>3, DoneKeepsInv DEF WriteClass
  <2>4. CASE WriteIngress(w)
    BY <2>4, DoneKeepsInv DEF WriteIngress
  <2>5. CASE GetRoute(w)
    BY <2>5, GetRouteKeepsInv
  <2>6. CASE PatchRoute(w)
    BY <2>6, PatchRouteKeepsInv
  <2>7. ASSUME NEW g \in Gateways, GetGateway(w, g) \/ PatchGateway(w, g) PROVE Inv'
    BY <2>7, GetGatewayKeepsInv, PatchGatewayKeepsInv
  <2> QED
    BY <1>1, <2>1, <2>2, <2>3, <2>4, <2>5, <2>6, <2>7 DEF Pass
<1>2. ASSUME Cluster PROVE Inv'
  <2>1. CASE ForeignWrites
    BY <2>1, ForeignWritesKeepsInv
  <2>2. CASE EditClass
    BY <2>2, NothingRead DEF EditClass
  <2>3. ASSUME NEW s \in RouteSpecs, EditRoute(s) \/ RecreateRoute(s) PROVE Inv'
    BY <2>3, NewSpecKeepsInv
  <2>4. ASSUME NEW g \in Gateways, NEW s \in GatewaySpecs, EditGateway(g, s) \/ RecreateGateway(g, s)
        PROVE  Inv'
    BY <2>4, NewGatewayKeepsInv
  <2>5. ASSUME NEW w \in Workers, CallFails(w) PROVE Inv'
    BY <2>5, DoneKeepsInv DEF CallFails
  <2>6. ASSUME NEW w \in Workers, NEW s, EditService(w, s) PROVE Inv'
    BY <2>6, EditServiceKeepsInv
  <2> QED
    BY <1>2, <2>1, <2>2, <2>3, <2>4, <2>5, <2>6 DEF Cluster
<1>3. ASSUME UNCHANGED vars PROVE Inv'
  BY <1>3, NothingRead DEF vars
<1> QED
  BY <1>1, <1>2, <1>3, ObserveKeepsInv DEF Next

(* What is read, decided and about to be sent agrees with the objects, through every pass, edit, *)
(* re-creation and failing call.                                                                  *)
THEOREM Consistent == Spec => []Inv
<1> QED
  BY InitEstablishesInv, NextKeepsInv, PTL DEF Spec

(* No entry of ours claims to have observed the route's generation with another one's verdict, or *)
(* for a parent it does not name: write_route's checks of uid and generation, and of the version. *)
THEOREM DecisionsAreObserved == Spec => []RouteObserved
<1>1. Inv => RouteObserved
  BY DEF Inv, IsRoute, Truthful, OursOf, RouteObserved
<1> QED
  BY <1>1, Consistent, PTL

(* A Gateway shows no address of an instance provisioned for an earlier Gateway of its name, *)
(* whichever of them is still running: the identity checks and the uid in write_gateway.      *)
THEOREM AddressesAreOwn == Spec => []OwnAddress
<1>1. Inv => OwnAddress
  <2> SUFFICES ASSUME Inv, NEW w \in Workers, GatewayUid[w] # None,
                      gates[Scope[w].gateway_scope].uid # GatewayUid[w]
               PROVE  gates[Scope[w].gateway_scope].addresses \cap PublishedBy(w) = {}
    BY DEF OwnAddress
  <2>1. Scope[w].gateway_scope \in Gateways
    BY WorkersAssumption DEF None
  <2> QED
    BY <2>1 DEF Inv, IsGate, Bound
<1> QED
  BY <1>1, Consistent, PTL

(* A write of the route keeps the entries of other controllers, in their order, and those of the *)
(* project's other instances: write_route's resourceVersion and route_parents.                    *)
THEOREM OthersAreKept == Spec => OthersKept
<1> DEFINE Kept == \A w \in Workers :
              todo'[w] # todo[w] /\ route' # route =>
                /\ Foreigns(route'.parents) = Foreigns(route.parents)
                /\ Siblings(w, route'.parents) = Siblings(w, route.parents)
<1>1. ASSUME Inv, [Next]_vars PROVE [Kept]_vars
  <2> SUFFICES ASSUME NEW w \in Workers, todo'[w] # todo[w], route' # route
               PROVE  /\ Foreigns(route'.parents) = Foreigns(route.parents)
                      /\ Siblings(w, route'.parents) = Siblings(w, route.parents)
    OBVIOUS
  <2>1. PICK v \in Workers : PatchRoute(v) /\ v \in fresh
    <3>1. ASSUME NEW v \in Workers, PatchRoute(v) PROVE v \in fresh
      <4>1. conflicts[v] < 2 \/ conflicts[v] = 2
        BY <1>1 DEF Inv, Shape
      <4> QED
        BY <3>1, <4>1 DEF PatchRoute
    <3>2. \E v \in Workers : PatchRoute(v)
      BY <1>1 DEF Next, Pass, Cluster, Build, Fence, WriteClass, WriteIngress, GetRoute, GetGateway, Get,
                  PatchGateway, ObserveRoute, ObserveGateways, ForeignWrites, EditClass, EditRoute,
                  RecreateRoute, EditGateway, RecreateGateway, CallFails, EditService, vars
    <3> QED
      BY <3>1, <3>2
  <2>2. route' = patch[v].status /\ Keeps(v, patch[v].status, route) /\ Done(v)
    BY <1>1, <2>1, PatchRouteFacts
  <2>3. v = w
    BY <1>1, <2>2, DoneFacts
  <2> QED
    BY <2>2, <2>3 DEF Keeps
<1>2. Inv /\ [Next]_vars => [Kept]_vars
  BY <1>1
<1> QED
  BY <1>2, Consistent, PTL DEF Spec, OthersKept
=============================================================================
