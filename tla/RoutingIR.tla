----------------------------- MODULE RoutingIR -----------------------------
(***************************************************************************)
(* The intermediate representation (crates/ir/src/lib.rs): routing objects  *)
(* and the key Sozu files a route under.  Text is a sequence of tokens, so  *)
(* that a joined key can read the same for two different routes.            *)
(***************************************************************************)
EXTENDS Lists

None == "none"

(* Cluster ids are sequences of name parts; a frontend that only redirects has no cluster. *)
NoCluster == <<>>

Slash == "/"

(* A Prefix match is trimmed of its trailing slashes. *)
Trimmed(path) == SubSeq(path, 1, Max({0} \cup {i \in 1..Len(path) : path[i] # Slash}))

PrefixRule(body) ==
  IF body = <<>> THEN <<"P", Slash>> ELSE <<"R", "^">> \o body \o <<"(?:[/?].*)?$">>

(* PathMatch::sozu_rule: Exact and Prefix are compiled to anchored regexes. *)
SozuRule(path) ==
  CASE path.kind = "Regex" -> <<"R">> \o path.value
    [] path.kind = "Exact" -> <<"R", "^">> \o path.value \o <<"(?:?.*)?$">>
    [] path.kind = "Prefix" -> PrefixRule(Trimmed(path.value))

(* A header predicate as the key spells it; the values a regex accepts stand for its text. *)
Predicate(h) == <<";H", h.kind, h.name>> \o AsSequence(h.value)

(* Frontend::sozu_route_key: everything Sozu tells two routes apart by, joined into one string, the *)
(* predicates in an order of their own (HeaderMatch::canonical).  A path can spell what follows it: *)
(* a method or a predicate.                                                                          *)
RouteKey(f) ==
  [https |-> f.tls,
   key |-> <<f.listener, ";", f.host, ";">> \o SozuRule(f.path)
           \o (IF f.method = None THEN <<>> ELSE <<";", f.method>>)
           \o FlatMap(AsSequence(f.headers), Predicate)]

L4Key(f) == [proto |-> f.proto, addr |-> f.addr]

(* check_l4_conflicts: an address routes to one cluster. *)
L4Conflict(ir) == \E f, g \in ir.l4 : f # g /\ L4Key(f) = L4Key(g)

(* check_cluster_references *)
UnknownCluster(ir) ==
  LET named == {b.cluster : b \in ir.backends} \cup {f.cluster : f \in ir.l4}
               \cup ({ir.frontends[i].cluster : i \in DOMAIN ir.frontends} \ {NoCluster})
  IN ~(named \subseteq {c.id : c \in ir.clusters})
=============================================================================
