--------------------------- MODULE MCStatusWriter ---------------------------
(* StatusWriter for TLC: the default instance with Gateway 1, and two instances provisioned for *)
(* Gateway 2, one after the other.                                                               *)
EXTENDS StatusWriter

MCWorkers == {"default", "first", "second"}

MCScope ==
  [w \in MCWorkers |->
     [ingress_only |-> FALSE, gateway_scope |-> IF w = "default" THEN 0 ELSE 2,
      exclude_gateway |-> IF w = "default" THEN {2} ELSE {}]]

MCGatewayUid == [default |-> 0, first |-> 1, second |-> 2]

Ref(g, s) == [gateway |-> g, section |-> s]

(* A parent is named twice in two of them; in the last, one of the two has lost to another route. *)
MCRouteSpecs ==
  {[refs |-> <<Ref(1, 0), Ref(2, 2), Ref(2, 1), Ref(2, 2)>>, resolved |-> TRUE, loses |-> {}],
   [refs |-> <<Ref(2, 2)>>, resolved |-> FALSE, loses |-> {}],
   [refs |-> <<Ref(2, 2), Ref(2, 2)>>, resolved |-> FALSE, loses |-> {Ref(2, 2)}]}

LoadBalancer(points) == [type |-> "LoadBalancer", points |-> points, clusterIps |-> {}]

MCServices == [w \in MCWorkers |-> {LoadBalancer({}), LoadBalancer({w})}]
=============================================================================
