---------------------------- MODULE MCTranslator ----------------------------
(* Translator for TLC: states that differ in their routes, and states that differ in their *)
(* certificates; a batch's two halves meet in its tiers only.                               *)
EXTENDS Translator

Prefix(value) == [kind |-> "Prefix", value |-> value]
Regex(value) == [kind |-> "Regex", value |-> value]

Route(path, method, cluster) ==
  [host |-> "h", path |-> path, method |-> method, headers |-> {}, tls |-> FALSE,
   listener |-> "l", cluster |-> cluster, filters |-> None]

Cluster(id, config) == [id |-> id, config |-> config, check |-> "on"]
Backend(cluster, weight) == [cluster |-> cluster, id |-> "b", weight |-> weight]
L4(proto, addr, cluster) == [proto |-> proto, addr |-> addr, cluster |-> cluster]

IR(clusters, backends, frontends, l4) ==
  [clusters |-> clusters, backends |-> backends, frontends |-> frontends, l4 |-> l4, certs |-> {}]

A == Cluster(<<"a">>, 1)
A2 == Cluster(<<"a">>, 2)
B == Cluster(<<"b">>, 1)
Tcp(c) == L4("Tcp", "p", c)
Udp(c) == L4("Udp", "p", c)
X(c) == Route(Prefix(<<"/", "x">>), None, c)

Routing ==
  {IR({}, {}, <<>>, {}),
   IR({A}, {Backend(<<"a">>, 1)}, <<X(<<"a">>)>>, {}),
   IR({A}, {Backend(<<"a">>, 2)}, <<X(<<"a">>)>>, {Udp(<<"a">>)}),
   IR({A2}, {Backend(<<"a">>, 1)}, <<>>, {Udp(<<"a">>)}),
   IR({A2}, {Backend(<<"a">>, 1)}, <<>>, {}),
   IR({B}, {Backend(<<"b">>, 1)}, <<X(<<"b">>)>>, {Udp(<<"b">>)}),
   IR({A, B}, {Backend(<<"a">>, 1), Backend(<<"b">>, 1)}, <<X(<<"b">>)>>, {Tcp(<<"a">>), Udp(<<"b">>)}),
   IR({A, B}, {Backend(<<"a">>, 1), Backend(<<"b">>, 1)}, <<X(NoCluster)>>, {Tcp(<<"b">>)}),
   \* two spellings of one key, in either order
   IR({A, B}, {Backend(<<"b">>, 1)}, <<X(<<"a">>), Route(Prefix(<<"/", "x", "/">>), None, <<"b">>)>>, {}),
   IR({A, B}, {Backend(<<"b">>, 1)},
      <<Route(Regex(<<"x">>), "GET", <<"b">>), Route(Regex(<<"x", ";", "GET">>), None, <<"a">>), X(<<"a">>)>>,
      {Tcp(<<"b">>)}),
   \* what the builder must not let through
   IR({A, B}, {}, <<>>, {Tcp(<<"a">>), Tcp(<<"b">>)})}

Cert(fp, names) == [listener |-> "l", fp |-> fp, names |-> names, chain |-> 1]

WithCerts(certs) ==
  [clusters |-> {}, backends |-> {}, frontends |-> <<>>, l4 |-> {}, certs |-> certs]

(* Names that move between three certificates, in chains and in cycles; certificates that come, *)
(* go, are rotated, get another chain or are listed twice.                                      *)
Certificates ==
  {WithCerts(certs) : certs \in
    {{Cert(1, {"x"}), Cert(2, {"y"}), Cert(3, {"z"})},
     {Cert(1, {"y"}), Cert(2, {"z"}), Cert(3, {"x"})},
     {Cert(1, {"y"}), Cert(2, {"x"}), Cert(3, {"z"})},
     {Cert(1, {"y"}), Cert(2, {"z"}), Cert(3, {"w"})},
     {Cert(1, {"x", "y"}), Cert(2, {"z"})},
     {Cert(1, {"x"}), Cert(4, {"x"})},
     {Cert(4, {"x"}), Cert(5, {"x"}), Cert(1, {"y"})},
     {Cert(1, {"x"}), [Cert(1, {"y"}) EXCEPT !.chain = 2]}}}

MCIRs == Routing \cup Certificates
=============================================================================
