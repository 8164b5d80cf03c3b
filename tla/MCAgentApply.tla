---------------------------- MODULE MCAgentApply ----------------------------
(* AgentApply for TLC: one route key that two clusters take turns at, one    *)
(* layer-4 listener, a certificate and the one that replaces it, and one of   *)
(* another HTTPS listener that stays.                                        *)
EXTENDS AgentApply

NoCluster == "-"
Cluster(c) == [kind |-> "cluster", key |-> c, cluster |-> c]
Route(c) == [kind |-> "route", key |-> "k", cluster |-> c]
Backend(c) == [kind |-> "backend", key |-> "a", cluster |-> c]
Cert(f, l) == [kind |-> "cert", key |-> f, cluster |-> NoCluster, listener |-> l, names |-> {"a"}]
Listener == [kind |-> "listener", key |-> "l", cluster |-> NoCluster]

MCObjects ==
  {Cluster("c1"), Cluster("c2"), Route("c1"), Route("c2"), Listener,
   Cert("x", "h1"), Cert("y", "h1"), Cert("z", "h2")}

(* The route moves from one cluster to the other and goes; so do the rest. *)
MCWanted ==
  {{Cluster("c1"), Cluster("c2"), Route("c1"), Listener, Cert("x", "h1"), Cert("z", "h2")},
   {Cluster("c1"), Cluster("c2"), Route("c2"), Cert("y", "h1"), Cert("z", "h2")},
   {Cluster("c2"), Cert("z", "h2")}}

(* A cluster that goes and comes back with a new backend. *)
ClusterObjects == {Cluster("c1"), Backend("c1")}
ClusterWanted == {{Cluster("c1")}, {}, ClusterObjects}
=============================================================================
