----------------------------- MODULE HeaderLift -----------------------------
(***************************************************************************)
(* lift_header_matches (crates/builder/src/lib.rs): Sozu serves a frontend  *)
(* with header predicates ahead of every plain one of its hostname, the     *)
(* Gateway API weighs the path first.  Plain routes that outrank a header   *)
(* match are copied above it; a header match that Sozu would not order the  *)
(* same way in whatever order it holds its routes is skipped.               *)
(*                                                                         *)
(* F is the sequence of frontends that collision resolution left, the       *)
(* oldest claimant first; frontends are named by their index in it.  A path *)
(* is a sequence of tokens; a header match accepts a set of values.         *)
(***************************************************************************)
EXTENDS RoutingIR

CONSTANTS
  MaxHeaderMatches,   \* MAX_HEADER_MATCHES_PER_HOSTNAME
  MaxLifted           \* MAX_LIFTED_PER_HOSTNAME

ASSUME LiftAssumption == MaxHeaderMatches \in Nat /\ MaxLifted \in Nat

(* The hostname of a route without any: Sozu's list, not its tree. *)
AnyHost == <<"*">>

-----------------------------------------------------------------------------
(* What two frontends can match *)

SameEffect(f, g) == f.cluster = g.cluster /\ f.filters = g.filters

SameMatch(f, g) ==
  /\ f.tls = g.tls /\ f.listener = g.listener /\ f.host = g.host
  /\ SozuRule(f.path) = SozuRule(g.path) /\ f.method = g.method /\ f.headers = g.headers

(* prefix_covers: an element-boundary prefix, trimmed, and a request target. *)
Covers(body, target) ==
  /\ IsPrefix(body, target)
  /\ body = <<>> \/ Len(target) = Len(body) \/ target[Len(body) + 1] \in {Slash, "?"}

PrefixCovers(prefix, target) == Covers(Trimmed(prefix), target)

Queried(target, exact) ==
  IsStrictPrefix(exact, target) /\ target[Len(exact) + 1] = "?"

(* paths_meet: a regex is taken to match anything. *)
PathsMeet(p, q) ==
  LET ofPrefix(prefix, exact) ==
        PrefixCovers(prefix, exact) \/ Queried(Trimmed(prefix), exact)
  IN CASE "Regex" \in {p.kind, q.kind} -> TRUE
       [] p.kind = "Prefix" /\ q.kind = "Prefix" ->
            PrefixCovers(p.value, Trimmed(q.value)) \/ PrefixCovers(q.value, Trimmed(p.value))
       [] p.kind = "Exact" /\ q.kind = "Prefix" -> ofPrefix(q.value, p.value)
       [] p.kind = "Prefix" /\ q.kind = "Exact" -> ofPrefix(p.value, q.value)
       [] p.kind = "Exact" /\ q.kind = "Exact" ->
            p.value = q.value \/ Queried(p.value, q.value) \/ Queried(q.value, p.value)

MethodsMeet(f, g) == f.method = g.method \/ None \in {f.method, g.method}

(* can_meet: two regexes on one header are taken to share a value. *)
CanMeet(f, g) ==
  /\ MethodsMeet(f, g) /\ PathsMeet(f.path, g.path)
  /\ \A x \in f.headers, y \in g.headers :
       x.name = y.name =>
         (x.kind = "Regex" /\ y.kind = "Regex") \/ x.value \cap y.value # {}

-----------------------------------------------------------------------------
(* Gateway API precedence *)

Bit(b) == IF b THEN 1 ELSE 0

PathLength(path) == IF path.kind = "Prefix" THEN Len(Trimmed(path.value)) ELSE Len(path.value)

(* How the paths of f and g compare, and then their methods and header matches. *)
PathOrder(f, g) ==
  IF "Regex" \in {f.path.kind, g.path.kind} THEN Bit(f.headers # {}) - Bit(g.headers # {})
  ELSE IF f.path.kind # g.path.kind THEN IF f.path.kind = "Exact" THEN 1 ELSE -1
  ELSE IF f.path.kind = "Prefix" THEN PathLength(f.path) - PathLength(g.path)
  ELSE 0

FirstTelling(path, method, headers) ==
  IF path # 0 THEN path ELSE IF method # 0 THEN method ELSE headers

(* gw_precedence: positive when f comes first. *)
GwPrecedence(f, g) ==
  FirstTelling(PathOrder(f, g), Bit(f.method # None) - Bit(g.method # None),
               Cardinality(f.headers) - Cardinality(g.headers))

(* Whether plain frontend u wins over header match p for some request. *)
Outranks(u, p) == MethodsMeet(u, p) /\ PathsMeet(u.path, p.path) /\ GwPrecedence(u, p) > 0

(* Mutant of LiftedCopy: the copy of a route without a method has none. *)
CopyForEveryMethod(u, p) == [u EXCEPT !.headers = p.headers]

(* lifted_copy: u under p's header matches, and its method where u names none. *)
LiftedCopy(u, p) ==
  [u EXCEPT !.headers = p.headers, !.method = IF @ = None THEN p.method ELSE @]

-----------------------------------------------------------------------------
(* Sozu's selection within a class of a hostname *)

(* tree_offer: the root prefix, a regex that names a method, a regex that does not and the *)
(* length of the shortest target it matches.                                                *)
TreeOffer(f) ==
  CASE f.path.kind = "Prefix" /\ Trimmed(f.path.value) = <<>> -> [as |-> "Root", shortest |-> 1]
    [] OTHER ->
         [as |-> IF f.method = None THEN "Regex" ELSE "RegexWithMethod",
          shortest |-> IF f.path.kind = "Regex" THEN 0 ELSE PathLength(f.path)]

(* unsettled: Sozu's own rules do not put high before low whatever the order it holds them in. *)
Unsettled(host, high, low) ==
  CASE host = AnyHost -> TRUE
    [] host # AnyHost /\ high.as = "RegexWithMethod" -> low.as = "RegexWithMethod"
    [] host # AnyHost /\ high.as = "Regex" -> ~(low.as = "Root" /\ high.shortest > 1)
    [] host # AnyHost /\ high.as = "Root" -> TRUE

-----------------------------------------------------------------------------
(* The plan of one hostname *)

GroupOf(f) == <<f.tls, f.listener, f.host>>

Groups(F) == {GroupOf(F[i]) : i \in DOMAIN F}

Members(F, group) == {i \in DOMAIN F : GroupOf(F[i]) = group}

HeaderMatched(F, S) == {i \in S : F[i].headers # {}}

(* The header matches past the cap: the youngest. *)
PastCap(F, S) ==
  {i \in HeaderMatched(F, S) :
     Cardinality({j \in HeaderMatched(F, S) : j < i}) >= MaxHeaderMatches}

(* The plain routes to copy above p: a regex path is neither lifted nor lifted above. *)
Candidates(F, S, p) ==
  {u \in S : F[u].headers = {} /\ F[u].path.kind # "Regex" /\ F[p].path.kind # "Regex"
             /\ Outranks(F[u], F[p])}

(* A copy and what it stands for: the frontend whose precedence it carries and the header match *)
(* it stands or falls with.                                                                     *)
Entry(rule, ranksAs, owner) == [rule |-> rule, ranksAs |-> ranksAs, owner |-> owner]

(* Who holds the key of a copy. *)
Holders(F, standing, copy) == {h \in standing : RouteKey(F[h]) = RouteKey(copy)}

(* serves_first: the Gateway API serves what both match with a rather than b. *)
ServesFirst(F, a, b) ==
  \/ GwPrecedence(F[a.ranksAs], F[b.ranksAs]) > 0
  \/ /\ GwPrecedence(F[a.ranksAs], F[b.ranksAs]) = 0
     /\ a.ranksAs < b.ranksAs \/ (a.ranksAs = b.ranksAs /\ a.owner < b.owner)

(* One per key, of the route that comes first. *)
Best(F, copies) ==
  {e \in copies : \A d \in copies \ {e} :
     RouteKey(d.rule) = RouteKey(e.rule) => ServesFirst(F, e, d)}

(* The copies one header match of a round needs above it. *)
Chosen(F, standing, brought, copies) ==
  {e \in Best(F, {d \in copies : Holders(F, standing, d.rule) = {}}) : RouteKey(e.rule) \notin brought}

(* Another route holds the key of a copy. *)
KeyTaken(F, standing, copies) ==
  \E e \in copies : \E h \in Holders(F, standing, e.rule) : ~SameMatch(F[h], e.rule)

(* p joins the class with its copies, or is blocked: a key is taken, or the budget is spent. *)
Joined(F, acc, p, taken, chosen) ==
  IF taken \/ Cardinality(acc.brought) + Cardinality(chosen) > MaxLifted THEN [acc EXCEPT !.blocked = p]
  ELSE [acc EXCEPT !.entries = @ \cup {Entry(F[p], p, p)} \cup chosen,
                   !.brought = @ \cup {RouteKey(e.rule) : e \in chosen}]

Join(F, standing, acc, p, copies) ==
  Joined(F, acc, p, KeyTaken(F, standing, copies), Chosen(F, standing, acc.brought, copies))

(* The predicated class of a round: the header matches not skipped, oldest first, each with its *)
(* copies, until one is blocked.                                                                *)
Tier(F, S, skipped) ==
  LET tier[n \in 0..Len(F)] ==
        IF n = 0 THEN [entries |-> {}, brought |-> {}, blocked |-> 0]
        ELSE LET acc == tier[n - 1]
             IN IF acc.blocked # 0 \/ n \notin HeaderMatched(F, S) \ skipped THEN acc
                ELSE Join(F, S \ skipped, acc, n,
                          {Entry(LiftedCopy(F[u], F[n]), u, n) : u \in Candidates(F, S, n)})
  IN tier[Len(F)]

(* conflict *)
Conflict(F, high, low) ==
  /\ ~SameEffect(high.rule, low.rule)
  /\ ServesFirst(F, high, low)
  /\ Unsettled(high.rule.host, TreeOffer(high.rule), TreeOffer(low.rule))
  /\ CanMeet(high.rule, low.rule)

(* precedence_key, from the most significant part *)
PrecedenceKey(F, e) ==
  LET f == F[e.ranksAs] IN
  <<CASE f.path.kind = "Exact" -> 2 [] f.path.kind = "Prefix" -> 1 [] OTHER -> 0,
    IF f.path.kind = "Regex" THEN 0 ELSE PathLength(f.path),
    Bit(f.method # None), Cardinality(f.headers), 0 - e.ranksAs, 0 - e.owner>>

Above(k, l) ==
  \E i \in DOMAIN k : k[i] > l[i] /\ \A j \in 1..(i - 1) : k[j] = l[j]

(* first_unsettled, overlap_problem: the header match to give up for the highest pair that is *)
(* not settled; of several lower ones, the one first in the class.                            *)
Highest(F, S) ==
  CHOOSE e \in S : \A d \in S \ {e} : Above(PrecedenceKey(F, e), PrecedenceKey(F, d))

OwnerBelow(pairs, high) == Min({p[2].owner : p \in {q \in pairs : q[1] = high}})

GivenUpFor(F, pairs) == IF pairs = {} THEN 0 ELSE OwnerBelow(pairs, Highest(F, {p[1] : p \in pairs}))

ToSkip(F, entries) == GivenUpFor(F, {p \in entries \X entries : Conflict(F, p[1], p[2])})

(* plan_group: rounds, each without the header matches given up before. *)
GiveUp(F, tier) == IF tier.blocked # 0 THEN tier.blocked ELSE ToSkip(F, tier.entries)

Round(F, tier) == [entries |-> tier.entries, gives |-> GiveUp(F, tier)]

PlanFrom(rounds, pastCap) ==
  LET plan[skipped \in DOMAIN rounds] ==
        LET round == rounds[skipped] IN
        IF round.gives = 0 THEN [skipped |-> skipped, entries |-> round.entries]
        ELSE plan[skipped \cup {round.gives}]
  IN plan[pastCap]

PlanGroup(F, S) ==
  PlanFrom([skipped \in SUBSET S |-> Round(F, Tier(F, S, skipped))], PastCap(F, S))

(* lift_header_matches: what is given up, and what is added after the rest. *)
Lifted(plans) ==
  [skipped |-> UNION {p.skipped : p \in plans},
   copies |-> UNION {{e \in p.entries : e.ranksAs # e.owner} : p \in plans}]

Lift(F) == Lifted({PlanGroup(F, Members(F, g)) : g \in Groups(F)})
=============================================================================
