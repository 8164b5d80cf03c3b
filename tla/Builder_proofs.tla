---- MODULE Builder_proofs ----
(***************************************************************************)
(* Proofs about Builder, for any families of well-formed objects.          *)
(***************************************************************************)
EXTENDS Builder, FiniteSetTheorems, Lists_proofs, TLAPS

-----------------------------------------------------------------------------
(* The arbitration of names. *)

(* A certificate whose source can be told from others by age, spelling and kind. *)
Claiming(c) ==
  /\ c.source.at \in Nat /\ c.source.text \in Nat
  /\ c.source.kind \in {"Ingress", "Gateway"}

Claims(certs) ==
  /\ \A c \in certs : Claiming(c)
  /\ \A c, d \in certs : c.source.text = d.source.text /\ c.source.kind = d.source.kind =>
       Owner(c.source) = Owner(d.source)

(* The dated come before the undated, then the lower date, spelling and kind: some claim has *)
(* nothing before it but claims of its own object.                                           *)
LEMMA FirstClaim ==
  ASSUME NEW certs, Claims(certs), certs # {}
  PROVE  \E c \in certs : \A d \in certs : Owner(c.source) = Owner(d.source) \/ Ahead(c.source, d.source)
<1> DEFINE dated == {c \in certs : c.source.at # NoStamp}
           pool == IF dated # {} THEN dated ELSE certs
           ats == {c.source.at : c \in pool}
<1>0. \A c \in certs : c.source.at \in Nat /\ c.source.text \in Nat
  BY DEF Claims, Claiming
<1>1. pool # {} /\ pool \subseteq certs
  OBVIOUS
<1>2. PICK c1 \in pool : \A d \in pool : ~(d.source.at < c1.source.at)
  <2>1. ats \in SUBSET Nat /\ ats # {}
    BY <1>0, <1>1
  <2>2. PICK x \in ats : \A y \in ats : ~(y < x)
    <3> HIDE DEF ats
    <3> QED
      BY <2>1, LeastNat
  <2> QED
    BY <2>2
<1> HIDE DEF ats
<1> DEFINE second == {c \in pool : c.source.at = c1.source.at}
           texts == {c.source.text : c \in second}
<1>3. second # {} /\ second \subseteq pool
  OBVIOUS
<1>4. PICK c2 \in second : \A d \in second : ~(d.source.text < c2.source.text)
  <2>1. texts \in SUBSET Nat /\ texts # {}
    BY <1>0, <1>1, <1>3
  <2>2. PICK x \in texts : \A y \in texts : ~(y < x)
    <3> HIDE DEF texts
    <3> QED
      BY <2>1, LeastNat
  <2> QED
    BY <2>2
<1> HIDE DEF texts
<1> DEFINE third == {c \in second : c.source.text = c2.source.text}
<1>5. PICK c3 \in third : c3.source.kind = "Ingress" \/ \A d \in third : d.source.kind # "Ingress"
  OBVIOUS
<1>6. c3 \in certs /\ c3.source.at = c1.source.at /\ c3.source.text = c2.source.text
  BY <1>1
<1> SUFFICES ASSUME NEW d \in certs, Owner(c3.source) # Owner(d.source)
             PROVE  Ahead(c3.source, d.source)
  BY <1>6
<1>7. CASE d \notin pool
  <2>1. c3.source.at # NoStamp /\ d.source.at = NoStamp
    BY <1>7, <1>3
  <2> QED
    BY <2>1 DEF Ahead, Older
<1>8. CASE d \in pool /\ d \notin second
  <2>1. c3.source.at < d.source.at
    BY <1>0, <1>2, <1>6, <1>8
  <2>2. c3.source.at # NoStamp
    <3>1. CASE dated # {}
      BY <1>3, <3>1
    <3>2. CASE dated = {}
      BY <1>6, <1>8, <2>1, <3>2 DEF NoStamp
    <3> QED
      BY <3>1, <3>2
  <2> QED
    BY <2>1, <2>2 DEF Ahead, Older
<1>9. CASE d \in second /\ d \notin third
  <2>1. c3.source.text < d.source.text /\ c3.source.at = d.source.at
    BY <1>0, <1>4, <1>6, <1>9
  <2> QED
    BY <2>1 DEF Ahead, Older
<1>10. CASE d \in third
  <2>1. c3.source.at = d.source.at /\ c3.source.text = d.source.text
    BY <1>10, <1>6
  <2>2. c3.source.kind # d.source.kind
    BY <1>6, <2>1 DEF Claims
  <2>3. c3.source.kind = "Ingress" /\ d.source.kind = "Gateway"
    BY <1>5, <1>6, <1>10, <2>2 DEF Claims, Claiming
  <2>4. KindRank(c3.source.kind) < KindRank(d.source.kind)
    BY <2>3 DEF KindRank
  <2>5. ~Older(d.source, c3.source)
    BY <1>0, <1>6, <2>1 DEF Older
  <2> QED
    BY <2>4, <2>5 DEF Ahead
<1> QED
  BY <1>7, <1>8, <1>9, <1>10

(* Every name has one claimant, who loaded a certificate for it. *)
LEMMA ClaimantLoads ==
  ASSUME NEW certs, Claims(certs), NEW c \in certs, NEW name \in c.names
  PROVE  \E d \in Naming(certs, c.listener, name) : Owner(d.source) = Claimant(certs, c.listener, name)
<1> DEFINE rivals == Naming(certs, c.listener, name)
<1>1. rivals # {} /\ rivals \subseteq certs
  BY DEF Naming
<1>2. Claims(rivals)
  BY <1>1 DEF Claims
<1>3. \E d \in rivals : \A e \in rivals : Owner(d.source) = Owner(e.source) \/ Ahead(d.source, e.source)
  <2> HIDE DEF rivals
  <2> QED
    BY <1>1, <1>2, FirstClaim
<1> QED
  BY <1>3 DEF Claimant

(* A certificate keeps the names its claimants loaded some entry of its leaf for; merged, every  *)
(* name stays served, by certificates of its claimant's, and a leaf has the first text of the      *)
(* longest of its chains.                                                                          *)
LEMMA ArbitrationOwns ==
  ASSUME NEW certs, Claims(certs),
         \A c \in certs : c.chain \in Nat /\ c.pem \in Nat, IsFiniteSet({c.chain : c \in certs})
  PROVE  /\ \A c \in certs : \A name \in c.names :
              /\ \E m \in MergedCerts(certs) : m.listener = c.listener /\ name \in m.names
              /\ \A m \in MergedCerts(certs) : m.listener = c.listener /\ name \in m.names =>
                   \E d \in Naming(certs, c.listener, name) :
                     d.fp = m.fp /\ Owner(d.source) = Claimant(certs, c.listener, name)
         /\ \A m \in MergedCerts(certs), c \in certs :
              m.listener = c.listener /\ m.fp = c.fp =>
                m.chain > c.chain \/ (m.chain = c.chain /\ m.pem <= c.pem)
<1> DEFINE leaf(c) == Leaf(certs, c)
           merged(c) == [listener |-> c.listener, fp |-> c.fp,
                         names |-> UNION {KeptNames(certs, d) : d \in leaf(c)},
                         chain |-> LongestChain(leaf(c)), pem |-> FirstPem(leaf(c))]
<1>1. \A m : m \in MergedCerts(certs) <=> \E c \in certs : m = merged(c) /\ m.names # {}
  BY DEF MergedCerts
<1>2. ASSUME NEW c \in certs, NEW name \in c.names
      PROVE  \E m \in MergedCerts(certs) : m.listener = c.listener /\ name \in m.names
  <2>1. PICK d \in Naming(certs, c.listener, name) : Owner(d.source) = Claimant(certs, c.listener, name)
    BY ClaimantLoads
  <2>2. d \in certs /\ d.listener = c.listener /\ name \in d.names
    BY <2>1 DEF Naming
  <2>3. name \in KeptNames(certs, d)
    BY <2>1, <2>2 DEF KeptNames
  <2>4. d \in leaf(d)
    BY <2>2 DEF Leaf
  <2>5. name \in merged(d).names /\ merged(d).listener = c.listener
    BY <2>2, <2>3, <2>4
  <2> HIDE DEF merged
  <2> QED
    BY <1>1, <2>2, <2>5
<1>3. ASSUME NEW c \in certs, NEW name \in c.names, NEW m \in MergedCerts(certs),
             m.listener = c.listener, name \in m.names
      PROVE  \E d \in Naming(certs, c.listener, name) :
               d.fp = m.fp /\ Owner(d.source) = Claimant(certs, c.listener, name)
  <2>1. PICK b \in certs : m = merged(b)
    <3> HIDE DEF merged
    <3> QED
      BY <1>1
  <2>2. m.listener = b.listener /\ m.fp = b.fp /\ m.names = UNION {KeptNames(certs, d) : d \in leaf(b)}
    BY <2>1
  <2>3. PICK d \in leaf(b) : name \in KeptNames(certs, d)
    BY <1>3, <2>2
  <2>4. d.listener = c.listener /\ d.fp = m.fp
    BY <1>3, <2>2, <2>3 DEF Leaf
  <2> QED
    BY <2>3, <2>4 DEF KeptNames
<1>4. ASSUME NEW m \in MergedCerts(certs), NEW c \in certs, m.listener = c.listener, m.fp = c.fp
      PROVE  m.chain > c.chain \/ (m.chain = c.chain /\ m.pem <= c.pem)
  <2>1. PICK b \in certs : m = merged(b)
    <3> HIDE DEF merged
    <3> QED
      BY <1>1
  <2> DEFINE chains == {d.chain : d \in leaf(b)}
             longest == {d \in leaf(b) : d.chain = LongestChain(leaf(b))}
             pems == {d.pem : d \in longest}
  <2>2. /\ m.chain = Max(chains) /\ m.pem = Min(pems) /\ m.listener = b.listener /\ m.fp = b.fp
        /\ LongestChain(leaf(b)) = Max(chains)
    BY <2>1 DEF LongestChain, FirstPem
  <2>3. c \in leaf(b) /\ leaf(b) \subseteq certs
    BY <1>4, <2>2 DEF Leaf
  <2>4. c.chain \in chains /\ chains \subseteq Nat /\ chains \subseteq {d.chain : d \in certs}
    BY <2>3
  <2>5. Max(chains) \in Nat /\ Max(chains) >= c.chain
    <3>1. IsFiniteSet(chains)
      <4> HIDE DEF chains
      <4> QED
        BY <2>4, FS_Subset
    <3> HIDE DEF chains
    <3> QED
      BY <2>4, <3>1, LargestNat
  <2>6. ASSUME c.chain = Max(chains) PROVE Min(pems) <= c.pem
    <3>1. c.pem \in pems /\ pems \in SUBSET Nat
      BY <2>2, <2>3, <2>6
    <3> HIDE DEF pems
    <3> QED
      BY <3>1, SmallestNat
  <2> HIDE DEF chains, pems
  <2>7. c.chain \in Nat
    OBVIOUS
  <2> QED
    BY <2>2, <2>5, <2>6, <2>7
<1> QED
  BY <1>2, <1>3, <1>4

-----------------------------------------------------------------------------
(* The certificates loaded. *)

(* Objects of the caches, each read as it was created; no two have one kind and name, or spell *)
(* their names alike.                                                                           *)
Cached(objs) ==
  /\ IsList(objs) /\ IsFiniteSet(Range(objs))
  /\ \A o \in Range(objs) : WellFormed(o)
  /\ \A o, p \in {q \in Range(objs) : q.kind \in DatedKinds} :
       o.text = p.text => o.ns = p.ns /\ o.name = p.name
  /\ \A o, p \in Range(objs) : Ident(o) = Ident(p) => o = p

(* An object and the Secret it loaded. *)
LoadedBy(objs, c) ==
  \E o, s \in Range(objs) :
    /\ o.kind \in {"Ingress", "Gateway"} /\ s.kind = "Secret" /\ c.chain = s.chain /\ c.pem = s.pem
    /\ c.source.kind = o.kind /\ c.source.ns = o.ns /\ c.source.name = o.name
    /\ c.source.at = o.at /\ c.source.text = o.text

(* A Secret that is found is one. *)
LEMMA NamedIsThere ==
  ASSUME NEW objs, NEW kind, NEW ns, NEW name, Named(objs, kind, ns, name) # {}
  PROVE  The(Named(objs, kind, ns, name)) \in Range(objs) /\ The(Named(objs, kind, ns, name)).kind = kind
BY DEF Named, The

(* A certificate made of a Secret, for an object. *)
LEMMA CertificateLoadedBy ==
  ASSUME NEW objs, NEW o \in Range(objs), o.kind \in {"Ingress", "Gateway"},
         NEW s \in Range(objs), s.kind = "Secret", NEW names, NEW bind, NEW ref
  PROVE  LoadedBy(objs, Certificate(s, names, bind, Source(o, ref)))
BY DEF LoadedBy, Certificate, Source

(* The certificates of an Ingress's TLS entries are loaded from Secrets. *)
LEMMA IngressCertsLoaded ==
  ASSUME NEW objs, NEW c \in IngressCerts(objs)
  PROVE  LoadedBy(objs, c)
<1>1. PICK o \in Range(objs) : IsOurs(o) /\ \E t \in LoadedTls(objs, o) :
             c = Certificate(The(Named(objs, "Secret", o.ns, t.secret)), t.hosts, BindFor("HTTPS"), Source(o, NoRef))
  BY DEF IngressCerts
<1>2. PICK t \in LoadedTls(objs, o) :
             c = Certificate(The(Named(objs, "Secret", o.ns, t.secret)), t.hosts, BindFor("HTTPS"), Source(o, NoRef))
  BY <1>1
<1>3. Named(objs, "Secret", o.ns, t.secret) # {}
  BY <1>2 DEF LoadedTls, TlsProblem
<1>4. o.kind = "Ingress"
  BY <1>1 DEF IsOurs
<1> QED
  BY <1>2, <1>3, <1>4, NamedIsThere, CertificateLoadedBy

(* And those of a listener's references. *)
LEMMA ListenerCertsLoaded ==
  ASSUME NEW objs, NEW gw \in Range(objs), gw.kind = "Gateway", NEW l, NEW bind,
         NEW c \in ListenerCerts(objs, gw, l, bind)
  PROVE  LoadedBy(objs, c)
<1> DEFINE ns(ref) == IF ref.ns = None THEN gw.ns ELSE ref.ns
           names == IF l.host = <<>> THEN {} ELSE {l.host}
<1>1. PICK ref \in Range(l.refs) :
        /\ CertRefProblem(objs, gw, l, ref) = {}
        /\ c = Certificate(The(Named(objs, "Secret", ns(ref), ref.name)), names, bind,
                           Source(gw, [NoRef EXCEPT !.section = l.name]))
  BY DEF ListenerCerts
<1>2. Named(objs, "Secret", ns(ref), ref.name) # {}
  <2> SUFFICES ASSUME Named(objs, "Secret", ns(ref), ref.name) = {} PROVE CertRefProblem(objs, gw, l, ref) # {}
    BY <1>1
  <2>1. CASE ref.kind # "Secret"
    BY <2>1 DEF CertRefProblem
  <2>2. CASE ref.kind = "Secret" /\ ~Granted(objs, ns(ref), "Secret", ref.name, gw.ns, "Gateway")
    BY <2>2 DEF CertRefProblem
  <2>3. CASE ref.kind = "Secret" /\ Granted(objs, ns(ref), "Secret", ref.name, gw.ns, "Gateway")
    BY <2>3 DEF CertRefProblem
  <2> QED
    BY <2>1, <2>2, <2>3
<1> HIDE DEF ns, names
<1> QED
  BY <1>1, <1>2, NamedIsThere, CertificateLoadedBy

(* And those of the Gateways. *)
LEMMA GatewayCertsLoaded ==
  ASSUME NEW objs, \A o \in Range(objs) : WellFormed(o), NEW c \in GatewayCerts(BuiltGateways(objs))
  PROVE  LoadedBy(objs, c)
<1>1. PICK h \in BuiltGateways(objs) : \E l \in Range(h.listeners) : c \in l.certs
  BY DEF GatewayCerts
<1>2. PICK g \in OurGateways(objs) :
        h = [g EXCEPT !.listeners = [i \in DOMAIN @ |-> Listener(objs, g, @[i])]]
  BY <1>1 DEF BuiltGateways
<1>3. g \in Range(objs) /\ g.kind = "Gateway"
  BY <1>2 DEF OurGateways
<1>4. h.listeners = [i \in DOMAIN g.listeners |-> Listener(objs, g, g.listeners[i])]
  BY <1>2, <1>3 DEF WellFormed
<1>5. PICK i \in DOMAIN g.listeners : c \in Listener(objs, g, g.listeners[i]).certs
  BY <1>1, <1>4 DEF Range
<1>6. PICK bind : c \in ListenerCerts(objs, g, g.listeners[i], bind)
  BY <1>5 DEF Listener, ListenerUnless, ListenerTls
<1> QED
  BY <1>3, <1>6, ListenerCertsLoaded

(* The certificates that meet in the arbitration. *)
LoadedCerts(objs) == IngressCerts(objs) \cup GatewayCerts(BuiltGateways(objs))

(* What is loaded can be arbitrated. *)
LEMMA LoadedCertsClaim ==
  ASSUME NEW objs, Cached(objs)
  PROVE  LET certs == LoadedCerts(objs) IN
         /\ Claims(certs) /\ \A c \in certs : c.chain \in Nat /\ c.pem \in Nat
         /\ IsFiniteSet({c.chain : c \in certs})
<1> DEFINE certs == LoadedCerts(objs)
           secrets == {o \in Range(objs) : o.kind = "Secret"}
           chains == {o.chain : o \in secrets}
<1>1. \A c \in certs : LoadedBy(objs, c)
  BY IngressCertsLoaded, GatewayCertsLoaded DEF LoadedCerts, Cached
<1> HIDE DEF certs
<1>2. \A c \in certs : Claiming(c)
  BY <1>1 DEF Claiming, LoadedBy, Cached, WellFormed
<1>3. ASSUME NEW c \in certs, NEW d \in certs, c.source.text = d.source.text, c.source.kind = d.source.kind
      PROVE  Owner(c.source) = Owner(d.source)
  <2>1. PICK o \in Range(objs) :
          /\ o.kind \in {"Ingress", "Gateway"} /\ c.source.kind = o.kind /\ c.source.ns = o.ns
          /\ c.source.name = o.name /\ c.source.text = o.text
    BY <1>1 DEF LoadedBy
  <2>2. PICK p \in Range(objs) :
          /\ p.kind \in {"Ingress", "Gateway"} /\ d.source.kind = p.kind /\ d.source.ns = p.ns
          /\ d.source.name = p.name /\ d.source.text = p.text
    BY <1>1 DEF LoadedBy
  <2>3. o.ns = p.ns /\ o.name = p.name
    <3>1. o \in {q \in Range(objs) : q.kind \in DatedKinds} /\ p \in {q \in Range(objs) : q.kind \in DatedKinds}
      BY <2>1, <2>2 DEF DatedKinds
    <3>2. o.text = p.text
      BY <1>3, <2>1, <2>2
    <3> QED
      BY <3>1, <3>2 DEF Cached
  <2> QED
    BY <1>3, <2>1, <2>2, <2>3 DEF Owner
<1>4. \A c \in certs : c.chain \in chains /\ c.chain \in Nat /\ c.pem \in Nat
  BY <1>1 DEF LoadedBy, Cached, WellFormed
<1>5. IsFiniteSet({c.chain : c \in certs})
  <2>1. IsFiniteSet(secrets)
    <3>1. secrets \subseteq Range(objs)
      OBVIOUS
    <3> HIDE DEF secrets
    <3> QED
      BY <3>1, FS_Subset DEF Cached
  <2>2. IsFiniteSet(chains)
    <3> DEFINE f == [o \in secrets |-> o.chain]
    <3>1. f \in Surjection(secrets, chains)
      BY DEF Surjection
    <3> HIDE DEF f, secrets, chains
    <3> QED
      BY <2>1, <3>1, FS_Surjection
  <2>3. {c.chain : c \in certs} \subseteq chains
    BY <1>4
  <2> HIDE DEF chains
  <2> QED
    BY <2>2, <2>3, FS_Subset
<1>6. Claims(certs)
  BY <1>2, <1>3 DEF Claims
<1> QED
  BY <1>4, <1>5, <1>6 DEF certs

-----------------------------------------------------------------------------
(* Header matches and the copies above them. *)

(* A frontend as the builder makes it. *)
IsFrontend(f) ==
  /\ f = [host |-> f.host, path |-> f.path, method |-> f.method, headers |-> f.headers, tls |-> f.tls,
          listener |-> f.listener, cluster |-> f.cluster, filters |-> f.filters]
  /\ IsPath(f.path) /\ IsFiniteSet(f.headers) /\ \A h \in f.headers : IsFiniteSet(h.value)

Frontends(F) == IsList(F) /\ \A i \in DOMAIN F : IsFrontend(F[i])

(* Where a path is cut: after the last token that is no slash. *)
LEMMA TrimmedAt ==
  ASSUME NEW path, IsList(path)
  PROVE  \E m \in 0..Len(path) :
           /\ Trimmed(path) = SubSeq(path, 1, m) /\ (m # 0 => path[m] # Slash)
           /\ \A i \in 1..Len(path) : path[i] # Slash => i <= m
<1> DEFINE S == {0} \cup {i \in 1..Len(path) : path[i] # Slash}
           m == Max(S)
<1>1. Len(path) \in Nat
  BY ListFields
<1>2. IsFiniteSet(S)
  <2>1. IsFiniteSet(0..Len(path))
    BY <1>1, FS_Interval
  <2>2. S \in SUBSET (0..Len(path))
    BY <1>1
  <2> HIDE DEF S
  <2> QED
    BY <2>1, <2>2, FS_Subset
<1>3. S \subseteq 0..Len(path) /\ S \subseteq Nat /\ S # {}
  BY <1>1
<1>4. m \in S /\ \A x \in S : m >= x
  <2> HIDE DEF S
  <2> QED
    BY <1>2, <1>3, LargestNat
<1>5. Trimmed(path) = SubSeq(path, 1, m)
  BY DEF Trimmed
<1> HIDE DEF m
<1>6. m \in 0..Len(path) /\ (m # 0 => path[m] # Slash)
  BY <1>3, <1>4
<1>7. \A i \in 1..Len(path) : path[i] # Slash => i <= m
  BY <1>4
<1> QED
  BY <1>5, <1>6, <1>7

(* What is left of a path is a list. *)
LEMMA TrimmedList ==
  ASSUME NEW path, IsList(path)
  PROVE  IsList(Trimmed(path)) /\ Len(Trimmed(path)) \in Nat
<1> DEFINE t == Trimmed(path)
<1>1. Len(path) \in Nat /\ path \in Seq(Range(path))
  BY ListFields DEF IsList
<1>2. PICK m \in 0..Len(path) : t = SubSeq(path, 1, m)
  BY TrimmedAt
<1> HIDE DEF t
<1>3. t \in Seq(Range(path)) /\ Len(t) \in Nat
  BY <1>1, <1>2
<1>4. t \in [1..Len(t) -> Range(t)]
  BY <1>3 DEF Range
<1> QED
  BY <1>3, <1>4 DEF IsList, t

(* A rule is a sequence, and says something. *)
LEMMA RuleIsText ==
  ASSUME NEW path, IsPath(path)
  PROVE  \E X : SozuRule(path) \in Seq(X)
<1>0. path.kind \in PathKinds /\ path.value \in Seq(Range(path.value))
  BY DEF IsPath, IsList
<1>1. CASE path.kind = "Regex"
  <2> DEFINE X == Range(path.value) \cup {"R"}
  <2>1. path.value \in Seq(X) /\ <<"R">> \in Seq(X)
    BY <1>0
  <2>2. SozuRule(path) = <<"R">> \o path.value
    BY <1>1 DEF SozuRule
  <2> HIDE DEF X
  <2>3. SozuRule(path) \in Seq(X)
    BY <2>1, <2>2
  <2> QED
    BY <2>3
<1>2. CASE path.kind = "Exact"
  <2> DEFINE X == Range(path.value) \cup {"R", "^", "(?:?.*)?$"}
  <2>1. path.value \in Seq(X) /\ <<"R", "^">> \in Seq(X) /\ <<"(?:?.*)?$">> \in Seq(X)
    BY <1>0
  <2>2. SozuRule(path) = <<"R", "^">> \o path.value \o <<"(?:?.*)?$">>
    BY <1>2 DEF SozuRule
  <2> HIDE DEF X
  <2>3. SozuRule(path) \in Seq(X)
    BY <2>1, <2>2
  <2> QED
    BY <2>3
<1>3. CASE path.kind = "Prefix"
  <2> DEFINE body == Trimmed(path.value)
             X == Range(body) \cup {"R", "^", "(?:[/?].*)?$", "P", Slash}
  <2>1. body \in Seq(X) /\ <<"R", "^">> \in Seq(X) /\ <<"(?:[/?].*)?$">> \in Seq(X) /\ <<"P", Slash>> \in Seq(X)
    <3>1. IsList(body)
      BY TrimmedList DEF IsPath
    <3> HIDE DEF body
    <3> QED
      BY <3>1 DEF IsList
  <2>2. SozuRule(path) = PrefixRule(body)
    BY <1>3 DEF SozuRule
  <2> HIDE DEF X, body
  <2>3. PrefixRule(body) \in Seq(X)
    BY <2>1 DEF PrefixRule
  <2> QED
    BY <2>2, <2>3
<1> QED
  BY <1>0, <1>1, <1>2, <1>3 DEF PathKinds

(* What a sequence starts with stays when another is appended. *)
LEMMA StartsAs ==
  ASSUME NEW X, NEW a \in Seq(X), NEW b \in Seq(X), NEW i \in 1..Len(a)
  PROVE  a \o b \in Seq(X) /\ (a \o b)[i] = a[i] /\ Len(a \o b) = Len(a) + Len(b) /\ Len(b) \in Nat
OBVIOUS

(* A set listed is a list. *)
LEMMA ListedSet ==
  ASSUME NEW S, IsFiniteSet(S)
  PROVE  IsList(AsSequence(S)) /\ Range(AsSequence(S)) = S
<1> DEFINE q == AsSequence(S)
<1>1. q \in Seq(S) /\ \A x \in S : \E i \in 1..Len(q) : q[i] = x
  BY AsSequenceLists DEF Lists
<1> HIDE DEF q
<1>2. Range(q) = S
  BY <1>1 DEF Range
<1> QED
  BY <1>1, <1>2 DEF IsList, q

(* The predicates of a key are text. *)
LEMMA PredicatesAreText ==
  ASSUME NEW headers, IsFiniteSet(headers), \A h \in headers : IsFiniteSet(h.value)
  PROVE  IsList(FlatMap(AsSequence(headers), Predicate))
<1> DEFINE s == AsSequence(headers)
           parts == [i \in DOMAIN s |-> Predicate(s[i])]
<1>1. IsList(s) /\ Range(s) = headers
  BY ListedSet
<1>2. ASSUME NEW h \in headers PROVE IsList(Predicate(h))
  <2> DEFINE a == <<";H", h.kind, h.name>>
             b == AsSequence(h.value)
  <2>1. IsList(a)
    <3>1. a = [i \in 1..3 |-> a[i]]
      OBVIOUS
    <3> HIDE DEF a
    <3> QED
      BY <3>1, IndexedList
  <2>2. IsList(b)
    BY ListedSet
  <2> HIDE DEF a, b
  <2>3. IsList(a \o b)
    BY <2>1, <2>2, ListsJoined
  <2> QED
    BY <2>3 DEF Predicate, a, b
<1> HIDE DEF s
<1>3. \A i \in DOMAIN s : s[i] \in headers
  BY <1>1, ListFields
<1>4. Len(s) \in Nat /\ DOMAIN s = 1..Len(s)
  BY <1>1, ListFields
<1>5. IsList(parts)
  <2>1. parts = [i \in 1..Len(s) |-> parts[i]]
    BY <1>4
  <2> HIDE DEF parts
  <2> QED
    BY <1>4, <2>1, IndexedList
<1>6. \A i \in DOMAIN parts : IsList(parts[i])
  BY <1>2, <1>3
<1>7. FlatMap(s, Predicate) = FlattenSeq(parts)
  BY DEF FlatMap
<1> HIDE DEF parts
<1>8. IsList(FlattenSeq(parts))
  BY <1>5, <1>6, FlattenList
<1> QED
  BY <1>7, <1>8 DEF s

(* Routes with one key are of one hostname on one listener. *)
LEMMA KeyOfGroup ==
  ASSUME NEW f, NEW g, IsFrontend(f), IsFrontend(g), RouteKey(f) = RouteKey(g)
  PROVE  GroupOf(f) = GroupOf(g)
<1> DEFINE Method(h) == IF h.method = None THEN <<>> ELSE <<";", h.method>>
           Predicates(h) == FlatMap(AsSequence(h.headers), Predicate)
           Text(h) == <<h.listener, ";", h.host, ";">> \o SozuRule(h.path) \o Method(h) \o Predicates(h)
<1>1. ASSUME NEW h, IsFrontend(h)
      PROVE  Text(h)[1] = h.listener /\ Text(h)[3] = h.host
  <2>1. PICK X : SozuRule(h.path) \in Seq(X)
    BY <1>1, RuleIsText DEF IsFrontend
  <2> DEFINE a == <<h.listener, ";", h.host, ";">>
             b == SozuRule(h.path)
             c == Method(h)
             e == Predicates(h)
             Y == X \cup {h.listener, ";", h.host, h.method} \cup Range(e)
  <2>2. a \in Seq(Y) /\ b \in Seq(Y) /\ c \in Seq(Y) /\ Len(a) = 4 /\ a[1] = h.listener /\ a[3] = h.host
    <3>1. a \in Seq(Y) /\ Len(a) = 4 /\ a[1] = h.listener /\ a[3] = h.host
      OBVIOUS
    <3>2. b \in Seq(Y)
      <4>1. b \in Seq(X) /\ X \subseteq Y
        BY <2>1
      <4> HIDE DEF Y, b
      <4> QED
        BY <4>1
    <3>3. c \in Seq(Y)
      <4>1. <<>> \in Seq(Y) /\ <<";", h.method>> \in Seq(Y)
        OBVIOUS
      <4> HIDE DEF Y
      <4> QED
        BY <4>1, Zenon
    <3> QED
      BY <3>1, <3>2, <3>3
  <2>6. e \in Seq(Y)
    <3>1. IsList(e) /\ Range(e) \subseteq Y
      BY <1>1, PredicatesAreText DEF IsFrontend
    <3> HIDE DEF e, Y
    <3>2. e \in Seq(Range(e))
      BY <3>1 DEF IsList
    <3> QED
      BY <3>1, <3>2
  <2> HIDE DEF a, b, c, e, Y
  <2>0. 1 \in 1..Len(a) /\ 3 \in 1..Len(a)
    BY <2>2
  <2> DEFINE d == a \o b
             g1 == d \o c
  <2>3. d \in Seq(Y) /\ Len(d) = 4 + Len(b) /\ d[1] = a[1] /\ d[3] = a[3] /\ Len(b) \in Nat
    <3>1. \A i \in 1..Len(a) : d \in Seq(Y) /\ d[i] = a[i] /\ Len(d) = Len(a) + Len(b) /\ Len(b) \in Nat
      BY <2>2, StartsAs
    <3> HIDE DEF d
    <3> QED
      BY <2>0, <2>2, <3>1
  <2> HIDE DEF d
  <2>5. 1 \in 1..Len(d) /\ 3 \in 1..Len(d)
    BY <2>3
  <2>4. g1 \in Seq(Y) /\ Len(g1) = Len(d) + Len(c) /\ Len(c) \in Nat /\ g1[1] = a[1] /\ g1[3] = a[3]
    <3>1. \A i \in 1..Len(d) : g1 \in Seq(Y) /\ g1[i] = d[i] /\ Len(g1) = Len(d) + Len(c) /\ Len(c) \in Nat
      BY <2>2, <2>3, StartsAs
    <3> HIDE DEF g1
    <3> QED
      BY <2>3, <2>5, <3>1
  <2> HIDE DEF g1
  <2>7. 1 \in 1..Len(g1) /\ 3 \in 1..Len(g1)
    BY <2>3, <2>4
  <2>8. (g1 \o e)[1] = a[1] /\ (g1 \o e)[3] = a[3]
    BY <2>4, <2>6, <2>7, StartsAs
  <2> QED
    BY <2>2, <2>8 DEF a, b, c, d, e, g1
<1>2. RouteKey(f).https = f.tls /\ RouteKey(g).https = g.tls
  BY DEF RouteKey
<1>3. RouteKey(f).key = Text(f) /\ RouteKey(g).key = Text(g)
  BY DEF RouteKey
<1> HIDE DEF Text
<1> QED
  BY <1>1, <1>2, <1>3 DEF GroupOf

(* A copy differs in its headers and its method only. *)
LEMMA CopyFields ==
  ASSUME NEW u, NEW p, IsFrontend(u), IsFrontend(p)
  PROVE  LET c == LiftedCopy(u, p) IN
         /\ IsFrontend(c) /\ c.host = u.host /\ c.path = u.path /\ c.tls = u.tls /\ c.listener = u.listener
         /\ c.cluster = u.cluster /\ c.filters = u.filters /\ GroupOf(c) = GroupOf(u)
<1> DEFINE c == LiftedCopy(u, p)
           v == [u EXCEPT !.headers = p.headers]
           m == IF u.method = None THEN p.method ELSE u.method
<1>2. v = [host |-> u.host, path |-> u.path, method |-> u.method, headers |-> p.headers, tls |-> u.tls,
           listener |-> u.listener, cluster |-> u.cluster, filters |-> u.filters]
  BY DEF IsFrontend
<1>3. c = [v EXCEPT !.method = m]
  <2>1. v.method = u.method
    BY <1>2
  <2> QED
    BY <2>1, Zenon DEF LiftedCopy
<1> HIDE DEF v, m, c
<1>1. c = [host |-> u.host, path |-> u.path, method |-> m, headers |-> p.headers, tls |-> u.tls,
           listener |-> u.listener, cluster |-> u.cluster, filters |-> u.filters]
  BY <1>2, <1>3
<1>4. IsFrontend(c) /\ GroupOf(c) = GroupOf(u)
  BY <1>1 DEF IsFrontend, GroupOf
<1> QED
  BY <1>1, <1>4 DEF c

(* The length a path is ranked by is a number. *)
LEMMA PathLengthNat ==
  ASSUME NEW path, IsPath(path)
  PROVE  PathLength(path) \in Nat
BY TrimmedList, ListFields DEF PathLength, IsPath

(* What one puts first the other does not. *)
LEMMA PrecedenceOpposite ==
  ASSUME NEW f, NEW g, IsFrontend(f), IsFrontend(g)
  PROVE  GwPrecedence(f, g) \in Int /\ GwPrecedence(g, f) = 0 - GwPrecedence(f, g)
<1>1. PathOrder(f, g) \in Int /\ PathOrder(g, f) = 0 - PathOrder(f, g)
  <2>0. f.path.kind \in PathKinds /\ g.path.kind \in PathKinds /\ PathLength(f.path) \in Nat /\ PathLength(g.path) \in Nat
    BY PathLengthNat DEF IsFrontend, IsPath
  <2>1. CASE "Regex" \in {f.path.kind, g.path.kind}
    <3> DEFINE b == IF f.headers # {} THEN 1 ELSE 0
               c == IF g.headers # {} THEN 1 ELSE 0
    <3>1. PathOrder(f, g) = b - c
      BY <2>1 DEF PathOrder, Bit
    <3>2. PathOrder(g, f) = c - b
      BY <2>1 DEF PathOrder, Bit
    <3> QED
      BY <3>1, <3>2
  <2>2. CASE f.path.kind = "Exact" /\ g.path.kind = "Prefix"
    BY <2>2 DEF PathOrder
  <2>3. CASE f.path.kind = "Prefix" /\ g.path.kind = "Exact"
    BY <2>3 DEF PathOrder
  <2>4. CASE f.path.kind = "Prefix" /\ g.path.kind = "Prefix"
    <3>1. PathOrder(f, g) = PathLength(f.path) - PathLength(g.path)
      BY <2>4 DEF PathOrder
    <3>2. PathOrder(g, f) = PathLength(g.path) - PathLength(f.path)
      BY <2>4 DEF PathOrder
    <3> QED
      BY <2>0, <3>1, <3>2
  <2>5. CASE f.path.kind = "Exact" /\ g.path.kind = "Exact"
    BY <2>5 DEF PathOrder
  <2> QED
    BY <2>0, <2>1, <2>2, <2>3, <2>4, <2>5 DEF PathKinds
<1>2. Cardinality(f.headers) \in Nat /\ Cardinality(g.headers) \in Nat
  BY FS_CardinalityType DEF IsFrontend
<1>3. /\ Bit(f.method # None) \in Int /\ Bit(g.method # None) \in Int
  BY DEF Bit
<1> QED
  BY <1>1, <1>2, <1>3 DEF GwPrecedence, FirstTelling

(* What the Gateway API serves first it does not serve second. *)
LEMMA ServesOneFirst ==
  ASSUME NEW F, Frontends(F), NEW a, NEW b, a.ranksAs \in DOMAIN F, b.ranksAs \in DOMAIN F,
         a.owner \in Nat, b.owner \in Nat, ServesFirst(F, a, b)
  PROVE  ~ServesFirst(F, b, a)
<1>1. a.ranksAs \in Nat /\ b.ranksAs \in Nat
  BY ListFields DEF Frontends
<1>2. IsFrontend(F[a.ranksAs]) /\ IsFrontend(F[b.ranksAs])
  BY DEF Frontends
<1> DEFINE x == GwPrecedence(F[a.ranksAs], F[b.ranksAs])
           y == GwPrecedence(F[b.ranksAs], F[a.ranksAs])
<1>3. x \in Int /\ y = 0 - x
  BY <1>2, PrecedenceOpposite
<1>4. x > 0 \/ (x = 0 /\ (a.ranksAs < b.ranksAs \/ (a.ranksAs = b.ranksAs /\ a.owner < b.owner)))
  BY DEF ServesFirst
<1>5. ServesFirst(F, b, a) => y > 0 \/ (y = 0 /\ (b.ranksAs < a.ranksAs \/ (b.ranksAs = a.ranksAs /\ b.owner < a.owner)))
  BY DEF ServesFirst
<1> HIDE DEF x, y
<1> QED
  BY <1>1, <1>3, <1>4, <1>5

(* The copies header match p asks for. *)
CopiesFor(F, S, p) == {Entry(LiftedCopy(F[u], F[p]), u, p) : u \in Candidates(F, S, p)}

(* A header match that stands, or the copy of route u above it. *)
EntryOf(F, u, p) == IF u = p THEN Entry(F[p], p, p) ELSE Entry(LiftedCopy(F[u], F[p]), u, p)

Standing(F, S, skipped) == HeaderMatched(F, S) \ skipped

Made(F, S, skipped) == {EntryOf(F, u, p) : u \in S, p \in Standing(F, S, skipped)}

IsCopy(e) == e.ranksAs # e.owner

(* A class under construction: its copies have keys of their own, which no route left has. *)
TierInv(F, S, skipped, acc) ==
  /\ acc = [entries |-> acc.entries, brought |-> acc.brought, blocked |-> acc.blocked]
  /\ acc.entries \subseteq Made(F, S, skipped)
  /\ acc.blocked \in {0} \cup Standing(F, S, skipped)
  /\ \A e \in acc.entries : IsCopy(e) =>
       RouteKey(e.rule) \in acc.brought /\ Holders(F, S \ skipped, e.rule) = {}
  /\ \A e, d \in acc.entries :
       IsCopy(e) /\ IsCopy(d) /\ RouteKey(e.rule) = RouteKey(d.rule) => e = d

(* What is chosen above a header match has keys of its own, that no one holds. *)
LEMMA ChosenApart ==
  ASSUME NEW F, Frontends(F), NEW S \in SUBSET DOMAIN F, NEW standing, NEW brought, NEW p \in DOMAIN F
  PROVE  LET chosen == Chosen(F, standing, brought, CopiesFor(F, S, p)) IN
         /\ chosen \subseteq CopiesFor(F, S, p)
         /\ \A e \in chosen : RouteKey(e.rule) \notin brought /\ Holders(F, standing, e.rule) = {}
         /\ \A e, d \in chosen : RouteKey(e.rule) = RouteKey(d.rule) => e = d
<1> DEFINE free == {d \in CopiesFor(F, S, p) : Holders(F, standing, d.rule) = {}}
           chosen == Chosen(F, standing, brought, CopiesFor(F, S, p))
<1>0. p \in Nat
  BY ListFields DEF Frontends
<1>1. \A e \in free : e.ranksAs \in DOMAIN F /\ e.owner \in Nat
  BY <1>0 DEF CopiesFor, Candidates, Entry
<1>2. chosen = {e \in Best(F, free) : RouteKey(e.rule) \notin brought}
  BY DEF Chosen
<1>3. free \subseteq CopiesFor(F, S, p) /\ \A e \in free : Holders(F, standing, e.rule) = {}
  OBVIOUS
<1> HIDE DEF free, chosen
<1>4. \A e, d \in Best(F, free) : RouteKey(e.rule) = RouteKey(d.rule) => e = d
  BY <1>1, ServesOneFirst DEF Best
<1>5. Best(F, free) \subseteq free
  BY DEF Best
<1> QED
  BY <1>2, <1>3, <1>4, <1>5 DEF chosen

(* A copy for p is made for it, and is a copy. *)
LEMMA CopiesAreMade ==
  ASSUME NEW F, NEW S, NEW skipped, NEW p \in Standing(F, S, skipped), NEW e \in CopiesFor(F, S, p)
  PROVE  e \in Made(F, S, skipped) /\ IsCopy(e)
<1>1. PICK u \in Candidates(F, S, p) : e = Entry(LiftedCopy(F[u], F[p]), u, p)
  BY DEF CopiesFor
<1>2. u \in S /\ F[u].headers = {} /\ F[p].headers # {}
  BY DEF Candidates, Standing, HeaderMatched
<1>3. u # p
  BY <1>2
<1>4. e = EntryOf(F, u, p)
  BY <1>1, <1>3 DEF EntryOf
<1>5. e.ranksAs = u /\ e.owner = p
  BY <1>1 DEF Entry
<1> QED
  BY <1>2, <1>3, <1>4, <1>5 DEF Made, IsCopy

(* A header match joins, with copies that keep apart, or is blocked. *)
LEMMA JoinKeeps ==
  ASSUME NEW F, Frontends(F), NEW S \in SUBSET DOMAIN F, NEW skipped, NEW acc, TierInv(F, S, skipped, acc),
         NEW p \in Standing(F, S, skipped)
  PROVE  TierInv(F, S, skipped, Join(F, S \ skipped, acc, p, CopiesFor(F, S, p)))
<1> DEFINE chosen == Chosen(F, S \ skipped, acc.brought, CopiesFor(F, S, p))
           next == Join(F, S \ skipped, acc, p, CopiesFor(F, S, p))
           keys == {RouteKey(e.rule) : e \in chosen}
<1>0. p \in DOMAIN F /\ p \in S
  BY DEF Standing, HeaderMatched
<1>1. /\ chosen \subseteq CopiesFor(F, S, p)
      /\ \A e \in chosen : RouteKey(e.rule) \notin acc.brought /\ Holders(F, S \ skipped, e.rule) = {}
      /\ \A e, d \in chosen : RouteKey(e.rule) = RouteKey(d.rule) => e = d
  BY <1>0, ChosenApart
<1>2. \A e \in chosen : e \in Made(F, S, skipped) /\ IsCopy(e)
  BY <1>1, CopiesAreMade
<1>3. \/ next = [entries |-> acc.entries, brought |-> acc.brought, blocked |-> p]
      \/ next = [entries |-> acc.entries \cup {Entry(F[p], p, p)} \cup chosen,
                 brought |-> acc.brought \cup keys, blocked |-> acc.blocked]
  <2> DEFINE taken == KeyTaken(F, S \ skipped, CopiesFor(F, S, p))
             m == taken \/ Cardinality(acc.brought) + Cardinality(chosen) > MaxLifted
  <2>1. next = IF m THEN [acc EXCEPT !.blocked = p]
               ELSE [acc EXCEPT !.entries = @ \cup {Entry(F[p], p, p)} \cup chosen, !.brought = @ \cup keys]
    BY Zenon DEF Join, Joined
  <2> HIDE DEF m, chosen, keys, next
  <2> QED
    BY <2>1 DEF TierInv
<1>4. Entry(F[p], p, p) \in Made(F, S, skipped) /\ ~IsCopy(Entry(F[p], p, p))
  BY <1>0 DEF Made, EntryOf, IsCopy, Entry
<1>5. \A e \in chosen : RouteKey(e.rule) \in keys
  OBVIOUS
<1> HIDE DEF chosen, next, keys
<1>6. CASE next = [entries |-> acc.entries, brought |-> acc.brought, blocked |-> p]
  <2>1. TierInv(F, S, skipped, next)
    BY <1>6 DEF TierInv
  <2> QED
    BY <2>1 DEF next
<1>7. CASE next = [entries |-> acc.entries \cup {Entry(F[p], p, p)} \cup chosen,
                   brought |-> acc.brought \cup keys, blocked |-> acc.blocked]
  <2>0. /\ next.entries = acc.entries \cup {Entry(F[p], p, p)} \cup chosen
        /\ next.brought = acc.brought \cup keys /\ next.blocked = acc.blocked
        /\ next = [entries |-> next.entries, brought |-> next.brought, blocked |-> next.blocked]
    BY <1>7
  <2>1. next.entries \subseteq Made(F, S, skipped)
    BY <1>2, <1>4, <2>0 DEF TierInv
  <2>2. \A e \in next.entries : IsCopy(e) => e \in acc.entries \/ e \in chosen
    BY <1>4, <2>0
  <2>3. \A e \in next.entries : IsCopy(e) =>
          RouteKey(e.rule) \in next.brought /\ Holders(F, S \ skipped, e.rule) = {}
    BY <1>1, <1>5, <2>0, <2>2 DEF TierInv
  <2>4. \A e, d \in next.entries :
          IsCopy(e) /\ IsCopy(d) /\ RouteKey(e.rule) = RouteKey(d.rule) => e = d
    <3> SUFFICES ASSUME NEW e \in next.entries, NEW d \in next.entries, IsCopy(e), IsCopy(d),
                        RouteKey(e.rule) = RouteKey(d.rule)
                 PROVE  e = d
      OBVIOUS
    <3>1. (e \in acc.entries => RouteKey(e.rule) \in acc.brought) /\ (d \in acc.entries => RouteKey(d.rule) \in acc.brought)
      BY DEF TierInv
    <3>2. e \in acc.entries /\ d \in acc.entries => e = d
      BY DEF TierInv
    <3> QED
      BY <1>1, <2>2, <3>1, <3>2
  <2>5. TierInv(F, S, skipped, next)
    BY <2>0, <2>1, <2>3, <2>4 DEF TierInv
  <2> QED
    BY <2>5 DEF next
<1> QED
  BY <1>3, <1>6, <1>7

NoTier == [entries |-> {}, brought |-> {}, blocked |-> 0]

TierStep(F, S, skipped, acc, n) ==
  IF acc.blocked # 0 \/ n \notin Standing(F, S, skipped) THEN acc
  ELSE Join(F, S \ skipped, acc, n, CopiesFor(F, S, n))

TierRun(t, F, S, skipped, n) ==
  t = [i \in 0..n |-> IF i = 0 THEN NoTier ELSE TierStep(F, S, skipped, t[i - 1], i)]

(* The run over the header matches is defined. *)
LEMMA TierRunExists ==
  ASSUME NEW F, NEW S, NEW skipped, NEW n \in Nat
  PROVE  \E t : TierRun(t, F, S, skipped, n)
<1> DEFINE T == {m \in Nat : \E t : TierRun(t, F, S, skipped, m)}
           step(a, i) == TierStep(F, S, skipped, a, i)
<1>1. 0 \in T
  <2>1. TierRun([i \in 0..0 |-> NoTier], F, S, skipped, 0)
    BY DEF TierRun
  <2> QED
    BY <2>1
<1>2. ASSUME NEW m \in T PROVE m + 1 \in T
  <2>1. PICK f : TierRun(f, F, S, skipped, m)
    OBVIOUS
  <2>0. \A i \in 0..m : f[i] = IF i = 0 THEN NoTier ELSE step(f[i - 1], i)
    BY <2>1 DEF TierRun
  <2> HIDE DEF step
  <2> DEFINE g == [i \in 0..(m + 1) |-> IF i = m + 1 THEN step(f[m], m + 1) ELSE f[i]]
  <2>2. \A i \in 0..m : g[i] = f[i]
    OBVIOUS
  <2>3. \A i \in 0..(m + 1) : g[i] = IF i = 0 THEN NoTier ELSE step(g[i - 1], i)
    <3> SUFFICES ASSUME NEW i \in 0..(m + 1)
                 PROVE  g[i] = IF i = 0 THEN NoTier ELSE step(g[i - 1], i)
      OBVIOUS
    <3>1. CASE i = m + 1
      BY <2>2, <3>1
    <3>2. CASE i \in 0..m
      <4>1. f[i] = IF i = 0 THEN NoTier ELSE step(f[i - 1], i)
        BY <2>0, <3>2
      <4>2. i # 0 => i - 1 \in 0..m
        BY <3>2
      <4> HIDE DEF g
      <4> QED
        BY <2>2, <3>2, <4>1, <4>2
    <3> QED
      BY <3>1, <3>2
  <2>4. TierRun(g, F, S, skipped, m + 1)
    BY <2>3 DEF TierRun, step
  <2> QED
    BY <2>4
<1>3. T = Nat
  <2>1. T \in SUBSET Nat
    OBVIOUS
  <2> HIDE DEF T
  <2> QED
    BY <1>1, <1>2, <2>1, NatSetInduction
<1> QED
  BY <1>3

(* A class, once made, keeps its copies apart. *)
LEMMA TierHolds ==
  ASSUME NEW F, Frontends(F), NEW S \in SUBSET DOMAIN F, NEW skipped
  PROVE  TierInv(F, S, skipped, Tier(F, S, skipped))
<1> DEFINE n == Len(F)
           f == CHOOSE t : t = [i \in 0..n |-> IF i = 0 THEN NoTier ELSE TierStep(F, S, skipped, t[i - 1], i)]
<1>0. n \in Nat
  BY ListFields DEF Frontends
<1>1. \E t : t = [i \in 0..n |-> IF i = 0 THEN NoTier ELSE TierStep(F, S, skipped, t[i - 1], i)]
  <2>1. \E t : TierRun(t, F, S, skipped, n)
    BY <1>0, TierRunExists
  <2> QED
    BY <2>1, Zenon DEF TierRun
<1>2. TierRun(f, F, S, skipped, n)
  BY <1>1, Zenon DEF TierRun
<1>3. Tier(F, S, skipped) = f[n]
  BY Zenon DEF Tier, NoTier, TierStep, Standing, CopiesFor
<1> HIDE DEF f
<1>4. \A i \in 0..n : f[i] = IF i = 0 THEN NoTier ELSE TierStep(F, S, skipped, f[i - 1], i)
  BY <1>2 DEF TierRun
<1> DEFINE T == {m \in Nat : m <= n => TierInv(F, S, skipped, f[m])}
<1>5. 0 \in T
  <2>1. f[0] = NoTier
    BY <1>0, <1>4
  <2>2. TierInv(F, S, skipped, NoTier)
    BY DEF TierInv, NoTier
  <2> QED
    BY <2>1, <2>2
<1>6. ASSUME NEW m \in T PROVE m + 1 \in T
  <2> SUFFICES ASSUME m + 1 <= n PROVE TierInv(F, S, skipped, f[m + 1])
    OBVIOUS
  <2>1. m \in Nat /\ m <= n /\ m + 1 \in 0..n /\ (m + 1) - 1 = m /\ m + 1 # 0
    BY <1>0
  <2>2. TierInv(F, S, skipped, f[m])
    BY <2>1
  <2>3. f[m + 1] = TierStep(F, S, skipped, f[m], m + 1)
    BY <1>4, <2>1
  <2> HIDE DEF T
  <2> QED
    BY <2>2, <2>3, JoinKeeps DEF TierStep
<1>7. T = Nat
  <2>1. T \in SUBSET Nat
    OBVIOUS
  <2> HIDE DEF T
  <2> QED
    BY <1>5, <1>6, <2>1, NatSetInduction
<1> QED
  BY <1>0, <1>3, <1>7

(* Tuples of as many numbers: of two, one is above the other, and what is above it is above the rest. *)
LEMMA AboveOrders ==
  ASSUME NEW n \in Nat
  PROVE  /\ \A k, l \in [1..n -> Int] : k # l => Above(k, l) \/ Above(l, k)
         /\ \A k, l, m \in [1..n -> Int] : Above(k, l) /\ Above(l, m) => Above(k, m)
<1>1. ASSUME NEW k \in [1..n -> Int], NEW l \in [1..n -> Int], k # l
      PROVE  Above(k, l) \/ Above(l, k)
  <2> DEFINE D == {i \in 1..n : k[i] # l[i]}
  <2>1. D \in SUBSET Nat /\ D # {}
    BY <1>1
  <2>2. PICK i \in D : \A j \in D : ~(j < i)
    <3> HIDE DEF D
    <3> QED
      BY <2>1, LeastNat
  <2>3. i \in 1..n /\ \A j \in 1..(i - 1) : k[j] = l[j]
    BY <2>2
  <2>4. k[i] > l[i] \/ l[i] > k[i]
    BY <2>2
  <2> QED
    BY <2>3, <2>4 DEF Above
<1>2. ASSUME NEW k \in [1..n -> Int], NEW l \in [1..n -> Int], NEW m \in [1..n -> Int],
             Above(k, l), Above(l, m)
      PROVE  Above(k, m)
  <2>1. PICK i \in 1..n : k[i] > l[i] /\ \A j \in 1..(i - 1) : k[j] = l[j]
    BY <1>2 DEF Above
  <2>2. PICK h \in 1..n : l[h] > m[h] /\ \A j \in 1..(h - 1) : l[j] = m[j]
    BY <1>2 DEF Above
  <2> DEFINE b == IF i <= h THEN i ELSE h
  <2>3. b \in 1..n /\ k[b] > m[b]
    BY <2>1, <2>2
  <2>4. \A j \in 1..(b - 1) : k[j] = m[j]
    BY <2>1, <2>2
  <2> HIDE DEF b
  <2> QED
    BY <2>3, <2>4 DEF Above
<1> QED
  BY <1>1, <1>2

(* The entries of a class that may be made are finitely many, and a place in the order has one. *)
LEMMA MadeApart ==
  ASSUME NEW F, Frontends(F), NEW S \in SUBSET DOMAIN F, NEW skipped
  PROVE  /\ IsFiniteSet(Made(F, S, skipped))
         /\ \A e \in Made(F, S, skipped) :
              /\ e.ranksAs \in S /\ e.owner \in Standing(F, S, skipped)
              /\ e = EntryOf(F, e.ranksAs, e.owner)
<1>1. DOMAIN F = 1..Len(F) /\ Len(F) \in Nat
  BY ListFields DEF Frontends
<1>2. IsFiniteSet(S) /\ IsFiniteSet(Standing(F, S, skipped))
  <2>1. IsFiniteSet(1..Len(F))
    BY <1>1, FS_Interval
  <2>2. Standing(F, S, skipped) \subseteq S
    BY DEF Standing, HeaderMatched
  <2> QED
    BY <1>1, <2>1, <2>2, FS_Subset
<1> DEFINE P == S \X Standing(F, S, skipped)
           f == [q \in P |-> EntryOf(F, q[1], q[2])]
<1>3. IsFiniteSet(P)
  BY <1>2, FS_Product
<1>4. Made(F, S, skipped) = {f[q] : q \in P}
  <2>1. \A e \in Made(F, S, skipped) : e \in {f[q] : q \in P}
    <3> SUFFICES ASSUME NEW u \in S, NEW p \in Standing(F, S, skipped)
                 PROVE  EntryOf(F, u, p) \in {f[q] : q \in P}
      BY DEF Made
    <3>1. <<u, p>> \in P /\ f[<<u, p>>] = EntryOf(F, u, p)
      OBVIOUS
    <3> HIDE DEF f, P
    <3> QED
      BY <3>1
  <2>2. \A q \in P : f[q] \in Made(F, S, skipped)
    BY DEF Made
  <2> HIDE DEF f, P
  <2> QED
    BY <2>1, <2>2
<1>5. IsFiniteSet({f[q] : q \in P})
  <2>1. f \in Surjection(P, {f[q] : q \in P})
    BY DEF Surjection
  <2> HIDE DEF f, P
  <2> QED
    BY <1>3, <2>1, FS_Surjection
<1>6. \A e \in Made(F, S, skipped) :
        /\ e.ranksAs \in S /\ e.owner \in Standing(F, S, skipped)
        /\ e = EntryOf(F, e.ranksAs, e.owner)
  <2> SUFFICES ASSUME NEW u \in S, NEW p \in Standing(F, S, skipped)
               PROVE  EntryOf(F, u, p).ranksAs = u /\ EntryOf(F, u, p).owner = p
    BY DEF Made
  <2> QED
    BY DEF EntryOf, Entry
<1> QED
  BY <1>4, <1>5, <1>6

(* The place of an entry is told by the numbers of its key. *)
LEMMA KeysTell ==
  ASSUME NEW F, Frontends(F), NEW e, e.ranksAs \in DOMAIN F, e.owner \in DOMAIN F
  PROVE  /\ PrecedenceKey(F, e) \in [1..6 -> Int]
         /\ PrecedenceKey(F, e)[5] = 0 - e.ranksAs /\ PrecedenceKey(F, e)[6] = 0 - e.owner
<1> DEFINE f == F[e.ranksAs]
           a == CASE f.path.kind = "Exact" -> 2 [] f.path.kind = "Prefix" -> 1 [] OTHER -> 0
           b == IF f.path.kind = "Regex" THEN 0 ELSE PathLength(f.path)
           c == IF f.method # None THEN 1 ELSE 0
           d == Cardinality(f.headers)
<1>1. IsFrontend(f) /\ e.ranksAs \in Nat /\ e.owner \in Nat
  BY ListFields DEF Frontends
<1>2. a \in Int
  OBVIOUS
<1>3. b \in Int
  BY <1>1, PathLengthNat DEF IsFrontend
<1>4. c \in Int
  OBVIOUS
<1>5. d \in Int
  BY <1>1, FS_CardinalityType DEF IsFrontend
<1>6. PrecedenceKey(F, e) = <<a, b, c, d, 0 - e.ranksAs, 0 - e.owner>>
  BY DEF PrecedenceKey, Bit
<1> HIDE DEF a, b, c, d
<1> QED
  BY <1>1, <1>2, <1>3, <1>4, <1>5, <1>6

(* Of the entries of a class one is the highest. *)
LEMMA HighestThere ==
  ASSUME NEW F, Frontends(F), NEW S \in SUBSET DOMAIN F, NEW skipped,
         NEW X \in SUBSET Made(F, S, skipped), X # {}
  PROVE  Highest(F, X) \in X
<1> DEFINE K(e) == PrecedenceKey(F, e)
           above == {q \in X \X X : Above(K(q[1]), K(q[2]))}
<1>0. DOMAIN F \subseteq Nat
  BY ListFields DEF Frontends
<1>1. IsFiniteSet(X)
  BY MadeApart, FS_Subset
<1>2. \A e \in X : e.ranksAs \in DOMAIN F /\ e.owner \in DOMAIN F /\ e = EntryOf(F, e.ranksAs, e.owner)
  <2>1. Standing(F, S, skipped) \subseteq S
    BY DEF Standing, HeaderMatched
  <2> QED
    BY <2>1, MadeApart
<1>3. \A e \in X : K(e) \in [1..6 -> Int] /\ K(e)[5] = 0 - e.ranksAs /\ K(e)[6] = 0 - e.owner
  BY <1>2, KeysTell
<1>4. \A e, d \in X : e # d => K(e) # K(d)
  <2> SUFFICES ASSUME NEW e \in X, NEW d \in X, K(e) = K(d) PROVE e = d
    OBVIOUS
  <2>1. 0 - e.ranksAs = 0 - d.ranksAs /\ 0 - e.owner = 0 - d.owner
    BY <1>3
  <2>2. e.ranksAs \in Nat /\ d.ranksAs \in Nat /\ e.owner \in Nat /\ d.owner \in Nat
    BY <1>0, <1>2
  <2>3. e.ranksAs = d.ranksAs /\ e.owner = d.owner
    BY <2>1, <2>2
  <2> QED
    BY <1>2, <2>3
<1> HIDE DEF K
<1>5. \A d, e \in X : d # e => <<d, e>> \in above \/ <<e, d>> \in above
  BY <1>3, <1>4, AboveOrders
<1>6. \A c, d, e \in X : <<c, d>> \in above /\ <<d, e>> \in above => <<c, e>> \in above
  <2>1. \A c, d, e \in X : Above(K(c), K(d)) /\ Above(K(d), K(e)) => Above(K(c), K(e))
    BY <1>3, AboveOrders
  <2> QED
    BY <2>1
<1>7. \A c, d : <<c, d>> \in above => Above(K(c), K(d))
  OBVIOUS
<1>8. \E e \in X : \A d \in X \ {e} : <<e, d>> \in above
  <2> HIDE DEF above
  <2> QED
    BY <1>1, <1>5, <1>6, GreatestExists
<1>9. \E e \in X : \A d \in X \ {e} : Above(K(e), K(d))
  <2> HIDE DEF above
  <2> QED
    BY <1>7, <1>8
<1> QED
  BY <1>9 DEF Highest, K

(* What is given up is a header match that stands. *)
LEMMA SkipStands ==
  ASSUME NEW F, Frontends(F), NEW S \in SUBSET DOMAIN F, NEW skipped,
         NEW entries \in SUBSET Made(F, S, skipped)
  PROVE  ToSkip(F, entries) \in {0} \cup Standing(F, S, skipped)
<1> DEFINE pairs == {p \in entries \X entries : Conflict(F, p[1], p[2])}
           X == {p[1] : p \in pairs}
           high == Highest(F, X)
           owners == {p[2].owner : p \in {q \in pairs : q[1] = high}}
<1>1. ToSkip(F, entries) = IF pairs = {} THEN 0 ELSE Min(owners)
  BY DEF ToSkip, GivenUpFor, OwnerBelow
<1>2. \A p \in pairs : p[1] \in entries /\ p[2] \in entries
  OBVIOUS
<1> HIDE DEF pairs
<1> SUFFICES ASSUME pairs # {} PROVE Min(owners) \in Standing(F, S, skipped)
  BY <1>1
<1>3. X # {} /\ X \in SUBSET Made(F, S, skipped)
  BY <1>2
<1>4. high \in X
  <2> HIDE DEF X
  <2> QED
    BY <1>3, HighestThere
<1>5. owners # {}
  BY <1>4
<1>6. \A o \in owners : o \in Standing(F, S, skipped)
  BY <1>2, MadeApart
<1>7. Standing(F, S, skipped) \subseteq Nat
  BY ListFields DEF Standing, HeaderMatched, Frontends
<1> HIDE DEF owners
<1> QED
  BY <1>5, <1>6, <1>7, SmallestNat

LastRound(rounds, s) == [skipped |-> s, entries |-> rounds[s].entries]

PlanRun(pl, D, rounds) ==
  pl = [s \in D |-> IF rounds[s].gives = 0 THEN LastRound(rounds, s)
                    ELSE pl[s \cup {rounds[s].gives}]]

(* The sets of S that leave at most n out. *)
Lacking(S, n) == {s \in SUBSET S : Cardinality(S \ s) <= n}

(* The next round gives up one more. *)
LEMMA RoundGivesUp ==
  ASSUME NEW S, IsFiniteSet(S), NEW n \in Nat, NEW s \in SUBSET S, NEW g \in S \ s, Cardinality(S \ s) <= n
  PROVE  n # 0 /\ s \cup {g} \in Lacking(S, n - 1)
<1> DEFINE R == S \ s
<1>1. IsFiniteSet(R) /\ g \in R
  BY FS_Subset
<1>2. S \ (s \cup {g}) = R \ {g} /\ Cardinality(R) <= n
  OBVIOUS
<1> HIDE DEF R
<1>3. Cardinality(R \ {g}) = Cardinality(R) - 1 /\ IsFiniteSet(R \ {g})
  BY <1>1, FS_RemoveElement
<1>4. Cardinality(R \ {g}) \in Nat /\ Cardinality(R) \in Nat
  BY <1>1, <1>3, FS_CardinalityType
<1>5. Cardinality(S \ (s \cup {g})) <= n - 1
  BY <1>2, <1>3, <1>4
<1> QED
  BY <1>2, <1>3, <1>4, <1>5 DEF Lacking

(* What a planned round is planned to. *)
LEMMA PlanRunAt ==
  ASSUME NEW D, NEW rounds, NEW f, PlanRun(f, D, rounds), NEW s \in D
  PROVE  f[s] = IF rounds[s].gives = 0 THEN LastRound(rounds, s) ELSE f[s \cup {rounds[s].gives}]
BY DEF PlanRun

(* The rounds end: each gives up a header match that none before it did. *)
LEMMA PlanRunExists ==
  ASSUME NEW S, IsFiniteSet(S), NEW rounds, \A s \in SUBSET S : rounds[s].gives \in {0} \cup (S \ s),
         NEW n \in Nat
  PROVE  \E pl : PlanRun(pl, Lacking(S, n), rounds)
<1> DEFINE T == {m \in Nat : \E pl : PlanRun(pl, Lacking(S, m), rounds)}
<1>1. 0 \in T
  <2> DEFINE pl == [s \in Lacking(S, 0) |-> LastRound(rounds, s)]
  <2>1. \A s \in Lacking(S, 0) : rounds[s].gives = 0
    <3> SUFFICES ASSUME NEW s \in Lacking(S, 0), rounds[s].gives # 0 PROVE FALSE
      OBVIOUS
    <3>1. s \in SUBSET S /\ Cardinality(S \ s) <= 0
      BY DEF Lacking
    <3>2. rounds[s].gives \in S \ s
      BY <3>1
    <3> DEFINE g == rounds[s].gives
    <3>3. g \in S \ s
      BY <3>2
    <3> HIDE DEF g
    <3> QED
      BY <3>1, <3>3, RoundGivesUp
  <2>2. PlanRun(pl, Lacking(S, 0), rounds)
    BY <2>1 DEF PlanRun
  <2> QED
    BY <2>2
<1>2. ASSUME NEW m \in T PROVE m + 1 \in T
  <2>1. PICK f : PlanRun(f, Lacking(S, m), rounds)
    OBVIOUS
  <2>0. m \in Nat /\ m + 1 \in Nat /\ (m + 1) - 1 = m
    OBVIOUS
  <2>9. SUFFICES \E pl : PlanRun(pl, Lacking(S, m + 1), rounds)
    BY <2>0
  <2> HIDE DEF T
  <2>2. \A s \in Lacking(S, m) : f[s] = IF rounds[s].gives = 0 THEN LastRound(rounds, s) ELSE f[s \cup {rounds[s].gives}]
    BY <2>1, PlanRunAt
  <2>3. \A s \in Lacking(S, m) : s \in Lacking(S, m + 1)
    <3> SUFFICES ASSUME NEW s \in Lacking(S, m) PROVE s \in Lacking(S, m + 1)
      OBVIOUS
    <3>1. IsFiniteSet(S \ s)
      BY FS_Subset
    <3>2. Cardinality(S \ s) \in Nat
      BY <3>1, FS_CardinalityType
    <3> QED
      BY <2>0, <3>2 DEF Lacking
  <2>4. \A s \in Lacking(S, m + 1) : rounds[s].gives # 0 => s \cup {rounds[s].gives} \in Lacking(S, m)
    <3> SUFFICES ASSUME NEW s \in Lacking(S, m + 1), rounds[s].gives # 0
                 PROVE  s \cup {rounds[s].gives} \in Lacking(S, m)
      OBVIOUS
    <3>1. s \in SUBSET S /\ Cardinality(S \ s) <= m + 1 /\ rounds[s].gives \in S \ s
      BY DEF Lacking
    <3> QED
      BY <2>0, <3>1, RoundGivesUp
  <2> DEFINE g == [s \in Lacking(S, m + 1) |-> IF rounds[s].gives = 0 THEN LastRound(rounds, s)
                                               ELSE f[s \cup {rounds[s].gives}]]
  <2>5. \A s \in Lacking(S, m) : g[s] = f[s]
    BY <2>2, <2>3
  <2>6. \A s \in Lacking(S, m + 1) : g[s] = IF rounds[s].gives = 0 THEN LastRound(rounds, s) ELSE g[s \cup {rounds[s].gives}]
    <3>1. \A s \in Lacking(S, m + 1) : g[s] = IF rounds[s].gives = 0 THEN LastRound(rounds, s) ELSE f[s \cup {rounds[s].gives}]
      OBVIOUS
    <3> HIDE DEF g
    <3> QED
      BY <2>4, <2>5, <3>1
  <2>7. g = [s \in Lacking(S, m + 1) |-> IF rounds[s].gives = 0 THEN LastRound(rounds, s) ELSE g[s \cup {rounds[s].gives}]]
    <3>1. g = [s \in Lacking(S, m + 1) |-> g[s]]
      OBVIOUS
    <3> HIDE DEF g
    <3> DEFINE D == Lacking(S, m + 1)
               val(s) == IF rounds[s].gives = 0 THEN LastRound(rounds, s) ELSE g[s \cup {rounds[s].gives}]
    <3>2. \A s \in D : g[s] = val(s)
      BY <2>6
    <3>3. g = [s \in D |-> val(s)]
      <4> HIDE DEF val, D
      <4> QED
        BY <3>1, <3>2 DEF D
    <3> QED
      BY <3>3
  <2>8. PlanRun(g, Lacking(S, m + 1), rounds)
    <3> HIDE DEF g
    <3> QED
      BY <2>7, Zenon DEF PlanRun
  <2> QED
    BY <2>8
<1>3. T = Nat
  <2>1. T \in SUBSET Nat
    OBVIOUS
  <2> HIDE DEF T
  <2> QED
    BY <1>1, <1>2, <2>1, NatSetInduction
<1> QED
  BY <1>3

(* A plan is the class of some round. *)
LEMMA PlanEnds ==
  ASSUME NEW S, IsFiniteSet(S), NEW rounds, DOMAIN rounds = SUBSET S,
         \A s \in SUBSET S : rounds[s].gives \in {0} \cup (S \ s), NEW past \in SUBSET S
  PROVE  \E t \in SUBSET S : PlanFrom(rounds, past) = LastRound(rounds, t)
<1> DEFINE n == Cardinality(S)
           f == CHOOSE pl : PlanRun(pl, SUBSET S, rounds)
<1>0. n \in Nat /\ \A s \in SUBSET S : Cardinality(S \ s) \in Nat /\ Cardinality(S \ s) <= n
  BY FS_CardinalityType, FS_Subset
<1>1. Lacking(S, n) = SUBSET S
  BY <1>0 DEF Lacking
<1>2. PlanRun(f, SUBSET S, rounds)
  <2> HIDE DEF n
  <2>1. \E pl : PlanRun(pl, SUBSET S, rounds)
    <3>1. \E pl : PlanRun(pl, Lacking(S, n), rounds)
      BY <1>0, PlanRunExists
    <3> QED
      BY <1>1, <3>1
  <2> QED
    BY <2>1, Zenon
<1>3. PlanFrom(rounds, past) = f[past]
  BY Zenon DEF PlanFrom, PlanRun, LastRound
<1> HIDE DEF f
<1>4. \A s \in SUBSET S : f[s] = IF rounds[s].gives = 0 THEN LastRound(rounds, s) ELSE f[s \cup {rounds[s].gives}]
  BY <1>2 DEF PlanRun
<1> DEFINE T == {m \in Nat : \A s \in Lacking(S, m) : \E t \in SUBSET S : f[s] = LastRound(rounds, t)}
<1>5. 0 \in T
  <2> SUFFICES ASSUME NEW s \in Lacking(S, 0) PROVE f[s] = LastRound(rounds, s) /\ s \in SUBSET S
    OBVIOUS
  <2>1. s \in SUBSET S /\ Cardinality(S \ s) <= 0
    BY DEF Lacking
  <2>2. rounds[s].gives = 0
    <3> SUFFICES ASSUME rounds[s].gives # 0 PROVE FALSE
      OBVIOUS
    <3>1. rounds[s].gives \in S \ s
      BY <2>1
    <3> QED
      BY <2>1, <3>1, RoundGivesUp
  <2> QED
    BY <1>4, <2>1, <2>2
<1>6. ASSUME NEW m \in T PROVE m + 1 \in T
  <2>0. m \in Nat /\ m + 1 \in Nat /\ (m + 1) - 1 = m
    OBVIOUS
  <2> SUFFICES ASSUME NEW s \in Lacking(S, m + 1) PROVE \E t \in SUBSET S : f[s] = LastRound(rounds, t)
    BY <2>0
  <2>1. s \in SUBSET S /\ Cardinality(S \ s) <= m + 1
    BY DEF Lacking
  <2>2. rounds[s].gives # 0 => s \cup {rounds[s].gives} \in Lacking(S, m)
    <3> SUFFICES ASSUME rounds[s].gives # 0 PROVE s \cup {rounds[s].gives} \in Lacking(S, m)
      OBVIOUS
    <3>1. rounds[s].gives \in S \ s
      BY <2>1
    <3> QED
      BY <2>0, <2>1, <3>1, RoundGivesUp
  <2>3. f[s] = IF rounds[s].gives = 0 THEN LastRound(rounds, s) ELSE f[s \cup {rounds[s].gives}]
    BY <1>4, <2>1
  <2> QED
    BY <2>1, <2>2, <2>3
<1>7. T = Nat
  <2>1. T \in SUBSET Nat
    OBVIOUS
  <2> HIDE DEF T
  <2> QED
    BY <1>5, <1>6, <2>1, NatSetInduction
<1> QED
  BY <1>0, <1>1, <1>3, <1>7

(* The plan of a hostname: its copies are of its routes, with keys of their own that no route it *)
(* keeps has.                                                                                    *)
LEMMA GroupPlanned ==
  ASSUME NEW F, Frontends(F), NEW S \in SUBSET DOMAIN F
  PROVE  LET plan == PlanGroup(F, S) IN
         /\ plan.skipped \subseteq S
         /\ \A e \in plan.entries : IsCopy(e) =>
              /\ \E u, p \in S : e.rule = LiftedCopy(F[u], F[p])
              /\ Holders(F, S \ plan.skipped, e.rule) = {}
         /\ \A e, d \in plan.entries :
              IsCopy(e) /\ IsCopy(d) /\ RouteKey(e.rule) = RouteKey(d.rule) => e = d
<1> DEFINE rounds == [skipped \in SUBSET S |-> Round(F, Tier(F, S, skipped))]
           plan == PlanGroup(F, S)
<1>1. IsFiniteSet(S)
  <2>1. DOMAIN F = 1..Len(F) /\ Len(F) \in Nat
    BY ListFields DEF Frontends
  <2>2. IsFiniteSet(1..Len(F))
    BY <2>1, FS_Interval
  <2> QED
    BY <2>1, <2>2, FS_Subset
<1>2. \A s \in SUBSET S : TierInv(F, S, s, Tier(F, S, s))
  BY TierHolds
<1>3. \A s \in SUBSET S : Standing(F, S, s) \subseteq S \ s
  BY DEF Standing, HeaderMatched
<1>4. \A s \in SUBSET S : rounds[s].gives \in {0} \cup (S \ s) /\ rounds[s].entries = Tier(F, S, s).entries
  <2> SUFFICES ASSUME NEW s \in SUBSET S
               PROVE  rounds[s].gives \in {0} \cup (S \ s) /\ rounds[s].entries = Tier(F, S, s).entries
    OBVIOUS
  <2> DEFINE tier == Tier(F, S, s)
  <2>0. TierInv(F, S, s, tier)
    BY <1>2
  <2> HIDE DEF tier
  <2>1. ToSkip(F, tier.entries) \in {0} \cup Standing(F, S, s)
    BY <2>0, SkipStands DEF TierInv
  <2>2. GiveUp(F, tier) \in {0} \cup Standing(F, S, s)
    BY <2>0, <2>1 DEF GiveUp, TierInv
  <2>3. rounds[s] = [entries |-> tier.entries, gives |-> GiveUp(F, tier)]
    BY DEF Round, tier
  <2> HIDE DEF rounds
  <2> QED
    BY <1>3, <2>2, <2>3 DEF tier
<1>5. DOMAIN rounds = SUBSET S /\ PastCap(F, S) \in SUBSET S
  BY DEF PastCap, HeaderMatched
<1>6. plan = PlanFrom(rounds, PastCap(F, S))
  BY Zenon DEF PlanGroup
<1> HIDE DEF rounds, plan
<1>7. PICK t \in SUBSET S : plan = [skipped |-> t, entries |-> rounds[t].entries]
  <2> DEFINE past == PastCap(F, S)
  <2>1. \A s \in SUBSET S : rounds[s].gives \in {0} \cup (S \ s)
    BY <1>4
  <2>2. past \in SUBSET S
    BY <1>5
  <2> HIDE DEF past
  <2>3. \E t \in SUBSET S : PlanFrom(rounds, past) = LastRound(rounds, t)
    BY <1>1, <1>5, <2>1, <2>2, PlanEnds
  <2> QED
    BY <1>6, <2>3 DEF past, LastRound
<1> DEFINE tier == Tier(F, S, t)
<1>8. plan.skipped = t /\ plan.entries = tier.entries /\ TierInv(F, S, t, tier)
  BY <1>2, <1>4, <1>7
<1> HIDE DEF tier
<1>9. \A e \in tier.entries : IsCopy(e) => \E u, p \in S : e.rule = LiftedCopy(F[u], F[p])
  <2> SUFFICES ASSUME NEW e \in tier.entries, IsCopy(e) PROVE \E u, p \in S : e.rule = LiftedCopy(F[u], F[p])
    OBVIOUS
  <2>1. e \in Made(F, S, t)
    BY <1>8 DEF TierInv
  <2>2. PICK u \in S, p \in Standing(F, S, t) : e = EntryOf(F, u, p)
    BY <2>1 DEF Made
  <2>3. p \in S
    BY <1>3
  <2>4. u # p
    BY <2>2 DEF IsCopy, EntryOf, Entry
  <2>5. e.rule = LiftedCopy(F[u], F[p])
    BY <2>2, <2>4 DEF EntryOf, Entry
  <2> QED
    BY <2>3, <2>5
<1> QED
  BY <1>8, <1>9 DEF TierInv, plan

(* A copy in the plan of a hostname is of two of its routes. *)
LEMMA CopiesOfGroup ==
  ASSUME NEW F, Frontends(F), NEW S \in SUBSET DOMAIN F
  PROVE  \A e \in PlanGroup(F, S).entries : IsCopy(e) => \E u, p \in S : e.rule = LiftedCopy(F[u], F[p])
<1> DEFINE plan == PlanGroup(F, S)
<1>1. \A e \in plan.entries : IsCopy(e) =>
        /\ \E u, p \in S : e.rule = LiftedCopy(F[u], F[p])
        /\ Holders(F, S \ plan.skipped, e.rule) = {}
  BY GroupPlanned
<1> HIDE DEF plan
<1>2. \A e \in plan.entries : IsCopy(e) => \E u, p \in S : e.rule = LiftedCopy(F[u], F[p])
  BY <1>1
<1> QED
  BY <1>2 DEF plan

(* All hostnames together: copies are of routes of one hostname, finitely many, and their keys *)
(* are neither another copy's nor a kept route's.                                               *)
LEMMA LiftApart ==
  ASSUME NEW F, Frontends(F)
  PROVE  LET lifted == Lift(F)
             rules == {e.rule : e \in lifted.copies}
         IN /\ \A c \in rules : \E u, p \in DOMAIN F : c = LiftedCopy(F[u], F[p])
            /\ IsFiniteSet(rules)
            /\ \A c, d \in rules : RouteKey(c) = RouteKey(d) => c = d
            /\ \A c \in rules, i \in DOMAIN F \ lifted.skipped : RouteKey(F[i]) # RouteKey(c)
<1>0. \A S \in SUBSET DOMAIN F : \A e \in PlanGroup(F, S).entries : IsCopy(e) =>
        \E u, p \in S : e.rule = LiftedCopy(F[u], F[p])
  BY CopiesOfGroup
<1> DEFINE lifted == Lift(F)
           rules == {e.rule : e \in lifted.copies}
           D == DOMAIN F
<1>1. \A e \in lifted.copies : \E g \in Groups(F) : e \in PlanGroup(F, Members(F, g)).entries /\ IsCopy(e)
  BY DEF Lift, Lifted, IsCopy
<1>2. \A g \in Groups(F) : PlanGroup(F, Members(F, g)).skipped \subseteq lifted.skipped
  BY DEF Lift, Lifted
<1> HIDE DEF lifted
<1>3. \A g \in Groups(F) : Members(F, g) \in SUBSET D /\ \A i \in D : i \in Members(F, g) <=> GroupOf(F[i]) = g
  BY DEF Members
<1>4. \A i \in D : IsFrontend(F[i])
  BY DEF Frontends
<1>5. ASSUME NEW e \in lifted.copies
      PROVE  \E g \in Groups(F) :
               /\ e \in PlanGroup(F, Members(F, g)).entries /\ IsCopy(e)
               /\ IsFrontend(e.rule) /\ GroupOf(e.rule) = g
               /\ \E u, p \in D : e.rule = LiftedCopy(F[u], F[p])
  <2>1. PICK g \in Groups(F) : e \in PlanGroup(F, Members(F, g)).entries /\ IsCopy(e)
    BY <1>1
  <2>2. PICK u, p \in Members(F, g) : e.rule = LiftedCopy(F[u], F[p])
    BY <1>0, <1>3, <2>1
  <2>3. u \in D /\ p \in D /\ GroupOf(F[u]) = g /\ IsFrontend(F[u]) /\ IsFrontend(F[p])
    BY <1>3, <1>4
  <2>4. IsFrontend(e.rule) /\ GroupOf(e.rule) = GroupOf(F[u])
    BY <2>2, <2>3, CopyFields
  <2> QED
    BY <2>1, <2>2, <2>3, <2>4
<1>6. \A c \in rules : \E u, p \in D : c = LiftedCopy(F[u], F[p])
  BY <1>5
<1>7. IsFiniteSet(rules)
  <2> DEFINE all == {LiftedCopy(F[q[1]], F[q[2]]) : q \in D \X D}
             f == [q \in D \X D |-> LiftedCopy(F[q[1]], F[q[2]])]
  <2>1. IsFiniteSet(D)
    <3>1. D = 1..Len(F) /\ Len(F) \in Nat
      BY ListFields DEF Frontends
    <3> QED
      BY <3>1, FS_Interval
  <2>2. IsFiniteSet(D \X D)
    BY <2>1, FS_Product
  <2>3. f \in Surjection(D \X D, all)
    BY DEF Surjection
  <2>4. IsFiniteSet(all)
    <3> HIDE DEF f, all, D
    <3> QED
      BY <2>2, <2>3, FS_Surjection
  <2>5. rules \subseteq all
    <3> SUFFICES ASSUME NEW c \in rules PROVE c \in all
      OBVIOUS
    <3>1. PICK u, p \in D : c = LiftedCopy(F[u], F[p])
      BY <1>6
    <3>2. <<u, p>> \in D \X D /\ <<u, p>>[1] = u /\ <<u, p>>[2] = p
      OBVIOUS
    <3> QED
      BY <3>1, <3>2
  <2> HIDE DEF all, rules
  <2> QED
    BY <2>4, <2>5, FS_Subset
<1>8. \A c, d \in rules : RouteKey(c) = RouteKey(d) => c = d
  <2> SUFFICES ASSUME NEW e \in lifted.copies, NEW d \in lifted.copies, RouteKey(e.rule) = RouteKey(d.rule)
               PROVE  e.rule = d.rule
    OBVIOUS
  <2>1. PICK g \in Groups(F) : /\ e \in PlanGroup(F, Members(F, g)).entries /\ IsCopy(e)
                               /\ IsFrontend(e.rule) /\ GroupOf(e.rule) = g
    BY <1>5
  <2>2. PICK h \in Groups(F) : /\ d \in PlanGroup(F, Members(F, h)).entries /\ IsCopy(d)
                               /\ IsFrontend(d.rule) /\ GroupOf(d.rule) = h
    BY <1>5
  <2>3. g = h
    BY <2>1, <2>2, KeyOfGroup
  <2>4. e = d
    BY <1>3, <2>1, <2>2, <2>3, GroupPlanned
  <2> QED
    BY <2>4
<1>9. \A c \in rules, i \in D \ lifted.skipped : RouteKey(F[i]) # RouteKey(c)
  <2> SUFFICES ASSUME NEW e \in lifted.copies, NEW i \in D \ lifted.skipped, RouteKey(F[i]) = RouteKey(e.rule)
               PROVE  FALSE
    OBVIOUS
  <2>1. PICK g \in Groups(F) : /\ e \in PlanGroup(F, Members(F, g)).entries /\ IsCopy(e)
                               /\ IsFrontend(e.rule) /\ GroupOf(e.rule) = g
    BY <1>5
  <2>2. GroupOf(F[i]) = g
    BY <1>4, <2>1, KeyOfGroup
  <2>3. i \in Members(F, g) \ PlanGroup(F, Members(F, g)).skipped
    BY <1>2, <1>3, <2>2
  <2>4. Holders(F, Members(F, g) \ PlanGroup(F, Members(F, g)).skipped, e.rule) = {}
    BY <1>3, <2>1, GroupPlanned
  <2> QED
    BY <2>3, <2>4 DEF Holders
<1> QED
  BY <1>6, <1>7, <1>8, <1>9 DEF lifted

-----------------------------------------------------------------------------
(* Who keeps a route key. *)

(* A claim that can be dated and spelled. *)
IsClaim(s) == s.at \in Nat /\ s.text \in Nat

(* Older orders claims, but for those of one time and spelling. *)
LEMMA OlderGoesOn ==
  ASSUME NEW a, NEW b, NEW c, IsClaim(a), IsClaim(b), IsClaim(c)
  PROVE  /\ Older(a, b) /\ Older(b, c) => Older(a, c)
         /\ Older(a, b) /\ ~Older(c, b) => Older(a, c)
         /\ ~Older(b, a) /\ Older(b, c) => Older(a, c)
         /\ ~Older(b, a) /\ ~Older(c, b) => ~Older(c, a)
BY DEF Older, NoStamp, IsClaim

(* Claims by age and spelling, equal ones as they come, are in a total order. *)
LEMMA ClaimOrderTotal ==
  ASSUME NEW claims, NEW n \in Nat, DOMAIN claims = 1..n, \A i \in 1..n : IsClaim(claims[i])
  PROVE  TotalOrder(ClaimOrder(claims), 1..n)
<1>0. \A i, j \in 1..n : <<i, j>> \in ClaimOrder(claims) <=>
        Older(claims[i], claims[j]) \/ (~Older(claims[j], claims[i]) /\ i < j)
  BY DEF ClaimOrder
<1>1. \A i \in 1..n : ~Older(claims[i], claims[i]) /\ claims[i].at \in Nat /\ claims[i].text \in Nat
  BY DEF Older, IsClaim, NoStamp
<1>2. \A i \in 1..n : <<i, i>> \notin ClaimOrder(claims)
  BY <1>0, <1>1
<1>3. \A i, j \in 1..n : i # j => <<i, j>> \in ClaimOrder(claims) \/ <<j, i>> \in ClaimOrder(claims)
  BY <1>0
<1>4. \A i, j, k \in 1..n : <<i, j>> \in ClaimOrder(claims) /\ <<j, k>> \in ClaimOrder(claims) =>
        <<i, k>> \in ClaimOrder(claims)
  <2> SUFFICES ASSUME NEW i \in 1..n, NEW j \in 1..n, NEW k \in 1..n,
                      <<i, j>> \in ClaimOrder(claims), <<j, k>> \in ClaimOrder(claims)
               PROVE  Older(claims[i], claims[k]) \/ (~Older(claims[k], claims[i]) /\ i < k)
    BY <1>0
  <2>1. Older(claims[i], claims[j]) \/ (~Older(claims[j], claims[i]) /\ i < j)
    BY <1>0
  <2>2. Older(claims[j], claims[k]) \/ (~Older(claims[k], claims[j]) /\ j < k)
    BY <1>0
  <2>3. IsClaim(claims[i]) /\ IsClaim(claims[j]) /\ IsClaim(claims[k])
    OBVIOUS
  <2> QED
    BY <2>1, <2>2, <2>3, OlderGoesOn
<1> QED
  BY <1>2, <1>3, <1>4 DEF TotalOrder

(* A frontend and who asks for it. *)
IsSourced(s) == IsFrontend(s.frontend) /\ IsClaim(s.source)

(* Sorted, the frontends are the ones asked for, each once. *)
LEMMA ByClaimList ==
  ASSUME NEW fs, IsList(fs), \A s \in Range(fs) : IsSourced(s)
  PROVE  /\ IsList(ByClaim(fs)) /\ IsInjective(ByClaim(fs))
         /\ \A s \in Range(ByClaim(fs)) : \E t \in Range(fs) : s.frontend = t.frontend /\ s.source = t.source
<1> DEFINE q == Numbered(fs)
           n == Len(fs)
           claims == [i \in DOMAIN fs |-> fs[i].source]
<1>1. n \in Nat /\ DOMAIN fs = 1..n /\ \A i \in 1..n : fs[i] \in Range(fs)
  BY ListFields
<1>2. DOMAIN claims = 1..n /\ \A i \in 1..n : IsClaim(claims[i])
  BY <1>1 DEF IsSourced
<1>3. /\ DOMAIN q = 1..n
      /\ \A i \in 1..n : q[i].n = i /\ q[i].frontend = fs[i].frontend /\ q[i].source = fs[i].source
      /\ q = [i \in 1..n |-> q[i]]
  BY <1>1 DEF Numbered
<1>4. ByClaim(fs) = Sorted(q, ClaimOrder(claims))
  BY DEF ByClaim
<1> HIDE DEF q, claims, n
<1>5. IsList(q)
  BY <1>1, <1>3, IndexedList
<1>6. IsInjective(q)
  BY <1>3 DEF IsInjective
<1>7. TotalOrder(ClaimOrder(claims), DOMAIN q)
  BY <1>1, <1>2, <1>3, ClaimOrderTotal
<1>8. \A s \in Range(q) : \E t \in Range(fs) : s.frontend = t.frontend /\ s.source = t.source
  BY <1>1, <1>3 DEF Range
<1> QED
  BY <1>4, <1>5, <1>6, <1>7, <1>8, SortedList

(* Who keeps a key is told by the key. *)
LEMMA WinnerOfKey ==
  ASSUME NEW sorted, NEW s, NEW t, RouteKey(s.frontend) = RouteKey(t.frontend)
  PROVE  Winner(sorted, s) = Winner(sorted, t)
<1> DEFINE W(key) == The({sorted[i] : i \in {j \in DOMAIN sorted :
                       /\ RouteKey(sorted[j].frontend) = key
                       /\ \A k \in 1..(j - 1) : ~(RouteKey(sorted[k].frontend) = key)}})
<1>1. Winner(sorted, s) = W(RouteKey(s.frontend)) /\ Winner(sorted, t) = W(RouteKey(t.frontend))
  BY DEF Winner, FirstOf
<1> HIDE DEF W
<1> QED
  BY <1>1

(* What is kept has one frontend per key. *)
LEMMA KeptApart ==
  ASSUME NEW sorted, IsList(sorted), IsInjective(sorted)
  PROVE  /\ IsList(Kept(sorted)) /\ IsInjective(Kept(sorted)) /\ Range(Kept(sorted)) \subseteq Range(sorted)
         /\ \A s, t \in Range(Kept(sorted)) : RouteKey(s.frontend) = RouteKey(t.frontend) => s = t
<1> DEFINE won == {s \in Range(sorted) : Winner(sorted, s) = s}
<1>1. Kept(sorted) = Filtered(sorted, won)
  BY DEF Kept
<1>2. \A s \in won : Winner(sorted, s) = s
  OBVIOUS
<1> HIDE DEF won
<1>3. /\ IsList(Kept(sorted)) /\ IsInjective(Kept(sorted))
      /\ Range(Kept(sorted)) = Range(sorted) \cap won
  BY <1>1, FilteredList
<1>4. ASSUME NEW s \in won, NEW t \in won, RouteKey(s.frontend) = RouteKey(t.frontend)
      PROVE  s = t
  <2>1. Winner(sorted, s) = Winner(sorted, t)
    BY <1>4, WinnerOfKey
  <2> QED
    BY <1>2, <2>1
<1> QED
  BY <1>3, <1>4

(* The frontends of the IR, those kept and the copies above them, have a key each, and a host, *)
(* a path and a cluster that some object asked for.                                             *)
LEMMA RoutesApart ==
  ASSUME NEW fs, IsList(fs), \A s \in Range(fs) : IsSourced(s)
  PROVE  LET G == Arbitrated(ByClaim(fs), Kept(ByClaim(fs))).frontends IN
         /\ \A i, j \in DOMAIN G : RouteKey(G[i]) = RouteKey(G[j]) => i = j
         /\ \A i \in DOMAIN G : \E s \in Range(fs) :
              G[i].host = s.frontend.host /\ G[i].path = s.frontend.path /\ G[i].cluster = s.frontend.cluster
<1> DEFINE sorted == ByClaim(fs)
           kept == Kept(sorted)
           F == [i \in DOMAIN kept |-> kept[i].frontend]
           lifted == Lift(F)
           served == {kept[i] : i \in DOMAIN kept \ lifted.skipped}
           order == Filtered(kept, served)
           A == [i \in DOMAIN order |-> order[i].frontend]
           rules == {e.rule : e \in lifted.copies}
           B == AsSequence(rules)
           G == Arbitrated(sorted, kept).frontends
<1>1. G = A \o B
  BY DEF Arbitrated, Routed
<1>2. /\ IsList(sorted) /\ IsInjective(sorted)
      /\ \A s \in Range(sorted) : \E t \in Range(fs) : s.frontend = t.frontend /\ s.source = t.source
  BY ByClaimList
<1> HIDE DEF sorted
<1>3. /\ IsList(kept) /\ IsInjective(kept) /\ Range(kept) \subseteq Range(sorted)
      /\ \A s, t \in Range(kept) : RouteKey(s.frontend) = RouteKey(t.frontend) => s = t
  BY <1>2, KeptApart
<1> HIDE DEF kept
<1>4. /\ Len(kept) \in Nat /\ DOMAIN kept = 1..Len(kept)
      /\ \A i \in 1..Len(kept) : kept[i] \in Range(kept)
  BY <1>3, ListFields
<1>5. \A s \in Range(kept) : IsFrontend(s.frontend) /\ \E t \in Range(fs) : s.frontend = t.frontend
  BY <1>2, <1>3 DEF IsSourced
<1>6. DOMAIN F = DOMAIN kept /\ \A i \in DOMAIN kept : F[i] = kept[i].frontend
  OBVIOUS
<1>7. Frontends(F)
  <2>1. F = [i \in 1..Len(kept) |-> F[i]]
    BY <1>4
  <2>2. \A i \in DOMAIN F : IsFrontend(F[i])
    BY <1>4, <1>5, <1>6
  <2> HIDE DEF F
  <2>3. IsList(F)
    BY <1>4, <2>1 DEF IsList, Range
  <2> QED
    BY <2>2, <2>3 DEF Frontends
<1> HIDE DEF F
<1>8. /\ \A c \in rules : \E u, p \in DOMAIN F : c = LiftedCopy(F[u], F[p])
      /\ IsFiniteSet(rules)
      /\ \A c, d \in rules : RouteKey(c) = RouteKey(d) => c = d
      /\ \A c \in rules, i \in DOMAIN F \ lifted.skipped : RouteKey(F[i]) # RouteKey(c)
  BY <1>7, LiftApart
<1>9. \A s \in served : \E i \in DOMAIN F \ lifted.skipped : s = kept[i] /\ s.frontend = F[i]
  BY <1>6
<1> HIDE DEF lifted, rules, served
<1>10. IsList(order) /\ IsInjective(order) /\ Range(order) = Range(kept) \cap served
  BY <1>3, FilteredList
<1> HIDE DEF order
<1>11. /\ Len(order) \in Nat /\ DOMAIN order = 1..Len(order)
       /\ \A i \in 1..Len(order) : order[i] \in Range(kept) /\ order[i] \in served
       /\ \A i, j \in 1..Len(order) : order[i] = order[j] => i = j
  BY <1>10, ListFields DEF IsInjective
<1>12. A = [i \in 1..Len(order) |-> A[i]] /\ \A i \in 1..Len(order) : A[i] = order[i].frontend
  BY <1>11
<1> HIDE DEF A
<1>13. IsList(A) /\ Len(A) = Len(order)
  BY <1>11, <1>12 DEF IsList, Range
<1>14. B \in Seq(rules) /\ \A i, j \in 1..Len(B) : B[i] = B[j] => i = j
  BY <1>8, AsSequenceLists DEF Lists
<1> HIDE DEF B
<1>15. /\ Len(B) \in Nat /\ \A i \in 1..Len(B) : B[i] \in rules
       /\ DOMAIN (A \o B) = 1..(Len(A) + Len(B))
       /\ \A i \in 1..Len(A) : (A \o B)[i] = A[i]
       /\ \A i \in (Len(A) + 1)..(Len(A) + Len(B)) : (A \o B)[i] = B[i - Len(A)]
  <2> DEFINE X == Range(A) \cup rules
  <2>1. A \in Seq(X) /\ B \in Seq(X)
    BY <1>13, <1>14 DEF IsList
  <2> HIDE DEF X
  <2> QED
    BY <1>14, <2>1
<1> DEFINE a == Len(A)
           b == Len(B)
<1>16. a \in Nat /\ b \in Nat
  BY <1>11, <1>13, <1>15
<1>17. ASSUME NEW i \in 1..a, NEW j \in 1..a, RouteKey(A[i]) = RouteKey(A[j])
       PROVE  i = j
  BY <1>3, <1>11, <1>12, <1>13, <1>17
<1>18. ASSUME NEW i \in 1..b, NEW j \in 1..b, RouteKey(B[i]) = RouteKey(B[j])
       PROVE  i = j
  BY <1>8, <1>14, <1>15, <1>18
<1>19. ASSUME NEW i \in 1..a, NEW j \in 1..b
       PROVE  RouteKey(A[i]) # RouteKey(B[j])
  BY <1>8, <1>9, <1>11, <1>12, <1>13, <1>15, <1>19
<1>20. /\ DOMAIN G = 1..(a + b) /\ \A i \in 1..a : G[i] = A[i]
       /\ \A i \in (a + 1)..(a + b) : G[i] = B[i - a] /\ i - a \in 1..b
  BY <1>1, <1>15, <1>16
<1> HIDE DEF G, a, b
<1>21. \A i, j \in DOMAIN G : RouteKey(G[i]) = RouteKey(G[j]) => i = j
  <2> SUFFICES ASSUME NEW i \in 1..(a + b), NEW j \in 1..(a + b), RouteKey(G[i]) = RouteKey(G[j])
               PROVE  i = j
    BY <1>20
  <2>0. (i \in 1..a \/ i \in (a + 1)..(a + b)) /\ (j \in 1..a \/ j \in (a + 1)..(a + b))
    BY <1>16
  <2>1. CASE i \in 1..a /\ j \in 1..a
    BY <1>17, <1>20, <2>1
  <2>2. CASE i \in 1..a /\ j \in (a + 1)..(a + b)
    BY <1>19, <1>20, <2>2
  <2>3. CASE i \in (a + 1)..(a + b) /\ j \in 1..a
    BY <1>19, <1>20, <2>3
  <2>4. CASE i \in (a + 1)..(a + b) /\ j \in (a + 1)..(a + b)
    <3>1. i - a = j - a
      BY <1>18, <1>20, <2>4
    <3> QED
      BY <1>16, <2>4, <3>1
  <2> QED
    BY <2>0, <2>1, <2>2, <2>3, <2>4
<1>22. ASSUME NEW i \in DOMAIN G
       PROVE  \E s \in Range(fs) :
                G[i].host = s.frontend.host /\ G[i].path = s.frontend.path /\ G[i].cluster = s.frontend.cluster
  <2>1. CASE i \in 1..a
    <3>1. G[i] = order[i].frontend /\ order[i] \in Range(kept)
      BY <1>11, <1>12, <1>13, <1>20, <2>1 DEF a
    <3> QED
      BY <1>5, <3>1
  <2>2. CASE i \in (a + 1)..(a + b)
    <3>1. G[i] \in rules
      BY <1>15, <1>20, <2>2 DEF b
    <3>2. PICK u, p \in DOMAIN F : G[i] = LiftedCopy(F[u], F[p])
      BY <1>8, <3>1
    <3>3. IsFrontend(F[u]) /\ IsFrontend(F[p])
      BY <1>7 DEF Frontends
    <3>4. G[i].host = F[u].host /\ G[i].path = F[u].path /\ G[i].cluster = F[u].cluster
      BY <3>2, <3>3, CopyFields
    <3>5. \E t \in Range(fs) : F[u] = t.frontend
      BY <1>4, <1>5, <1>6
    <3> QED
      BY <3>4, <3>5
  <2> QED
    BY <1>16, <1>20, <2>1, <2>2
<1> QED
  BY <1>21, <1>22 DEF G, kept, sorted

-----------------------------------------------------------------------------
(* The frontends the objects ask for. *)

(* The results of a sequence, one after the other. *)
LEMMA FlatRange ==
  ASSUME NEW s, IsList(s), NEW m, m = [i \in DOMAIN s |-> m[i]], NEW all,
         \A i \in DOMAIN s : IsList(m[i]) /\ Range(m[i]) = all[s[i]]
  PROVE  /\ IsList(FlattenSeq(m))
         /\ \A y : y \in Range(FlattenSeq(m)) <=> \E x \in Range(s) : y \in all[x]
<1>1. /\ DOMAIN s = 1..Len(s) /\ Len(s) \in Nat /\ \A i \in DOMAIN s : s[i] \in Range(s)
      /\ \A x \in Range(s) : \E i \in DOMAIN s : x = s[i]
  BY ListFields
<1>2. IsList(m) /\ DOMAIN m = DOMAIN s
  BY <1>1, IndexedList
<1>3. /\ IsList(FlattenSeq(m))
      /\ \A x : x \in Range(FlattenSeq(m)) <=> \E i \in DOMAIN s : x \in Range(m[i])
  BY <1>2, FlattenList
<1> QED
  BY <1>1, <1>3

(* A list of one. *)
LEMMA Single ==
  ASSUME NEW x
  PROVE  IsList(<<x>>) /\ Range(<<x>>) = {x}
BY DEF IsList, Range

(* A list of nothing. *)
LEMMA Nothing == IsList(<<>>) /\ Range(<<>>) = {}
BY DEF IsList, Range

(* One result for each entry. *)
LEMMA FlatImage ==
  ASSUME NEW s, IsList(s), NEW m, m = [i \in DOMAIN s |-> m[i]], NEW image,
         \A i \in DOMAIN s : m[i] = <<image[s[i]]>>
  PROVE  /\ IsList(FlattenSeq(m))
         /\ \A y : y \in Range(FlattenSeq(m)) <=> \E x \in Range(s) : y = image[x]
<1> DEFINE all == [x \in Range(s) |-> {image[x]}]
<1>1. \A i \in DOMAIN s : s[i] \in Range(s)
  BY ListFields
<1>2. \A i \in DOMAIN s : IsList(m[i]) /\ Range(m[i]) = all[s[i]]
  BY <1>1, Single
<1>3. \A x \in Range(s) : \A y : y \in all[x] <=> y = image[x]
  OBVIOUS
<1> HIDE DEF all
<1> QED
  BY <1>2, <1>3, FlatRange

(* The path of a route is one still once its prefix is trimmed, and an empty one the root. *)
LEMMA MatchIsPath ==
  ASSUME NEW path, IsPath(path)
  PROVE  IsPath(PathMatch(path))
<1>1. path = [kind |-> path.kind, value |-> path.value] /\ path.kind \in PathKinds /\ IsList(path.value)
  BY DEF IsPath
<1> DEFINE v == OrRoot(IF path.kind = "Prefix" THEN Trimmed(path.value) ELSE path.value)
<1>2. IsList(v)
  BY <1>1, TrimmedList, Single DEF OrRoot
<1>3. PathMatch(path) = [path EXCEPT !.value = v]
  BY DEF PathMatch
<1> HIDE DEF v
<1>4. PathMatch(path) = [kind |-> path.kind, value |-> v]
  BY <1>1, <1>3
<1> QED
  BY <1>1, <1>2, <1>4 DEF IsPath

(* What an object asks for that Sozu and the translator take. *)
Loadable(s, services) ==
  /\ IsSourced(s) /\ ~HostnameRefusal(s.frontend.host) /\ ~PathRefusal(s.frontend.path)
  /\ s.frontend.cluster \in {NoCluster} \cup {r.id : r \in services}

(* A path of an Ingress as it was built. *)
IsBuiltPath(p) == IsPath(p.path) /\ ~HostnameRefusal(p.host) /\ (p.err = {} => ~PathRefusal(p.path))

(* The rules of an Ingress whose name can be parsed. *)
LEMMA RulesAdmitted ==
  ASSUME NEW o, IngressLists(o)
  PROVE  /\ IsList(AdmittedRules(o))
         /\ Range(AdmittedRules(o)) = {rule \in Range(o.rules) : ~HostnameRefusal(RuleHost(rule))}
<1> DEFINE kept == {rule \in Range(o.rules) : ~HostnameRefusal(RuleHost(rule))}
<1>1. IsList(Filtered(o.rules, kept)) /\ Range(Filtered(o.rules, kept)) = Range(o.rules) \cap kept
  BY FilteredList DEF IngressLists
<1> QED
  BY <1>1 DEF AdmittedRules

(* A path of a rule, built. *)
PathOf(objs, o, rule, p) == BuiltPath(rule, p, IngressBackend(objs, o, p))

PathsOf(objs, o) ==
  UNION {{PathOf(objs, o, rule, p) : p \in Range(rule.paths)} : rule \in Range(AdmittedRules(o))}

(* The paths of an Ingress are of the rules whose name can be parsed. *)
LEMMA BuiltPaths ==
  ASSUME NEW objs, NEW o, IngressLists(o)
  PROVE  LET paths == BuiltIngress(objs, o).paths IN
         IsList(paths) /\ Range(paths) = PathsOf(objs, o)
<1> DEFINE rules == AdmittedRules(o)
           one(rule) == [i \in DOMAIN rule.paths |-> <<PathOf(objs, o, rule, rule.paths[i])>>]
           m == [i \in DOMAIN rules |-> FlattenSeq(one(rules[i]))]
           all == [rule \in Range(rules) |-> {PathOf(objs, o, rule, p) : p \in Range(rule.paths)}]
<1>1. BuiltIngress(objs, o).paths = FlattenSeq(m)
  BY DEF BuiltIngress, FlatMap, PathOf
<1>2. IsList(rules) /\ \A rule \in Range(rules) : IsList(rule.paths)
  BY RulesAdmitted DEF IngressLists
<1> HIDE DEF rules
<1>3. ASSUME NEW rule \in Range(rules)
      PROVE  IsList(FlattenSeq(one(rule))) /\ Range(FlattenSeq(one(rule))) = all[rule]
  <2> DEFINE s == rule.paths
             q == one(rule)
             image == [p \in Range(s) |-> PathOf(objs, o, rule, p)]
  <2>1. q = [i \in DOMAIN s |-> q[i]] /\ \A i \in DOMAIN s : q[i] = <<PathOf(objs, o, rule, s[i])>>
    OBVIOUS
  <2>2. IsList(s) /\ \A i \in DOMAIN s : s[i] \in Range(s)
    BY <1>2, ListFields
  <2>3. \A i \in DOMAIN s : q[i] = <<image[s[i]]>>
    BY <2>1, <2>2
  <2>4. \A y : y \in all[rule] <=> \E p \in Range(s) : y = image[p]
    OBVIOUS
  <2> HIDE DEF q, image, s, all
  <2>5. IsList(FlattenSeq(q)) /\ \A y : y \in Range(FlattenSeq(q)) <=> \E p \in Range(s) : y = image[p]
    BY <2>1, <2>2, <2>3, FlatImage
  <2> QED
    BY <2>4, <2>5 DEF q
<1> HIDE DEF one
<1>4. \A i \in DOMAIN rules : rules[i] \in Range(rules)
  BY <1>2, ListFields
<1>5. m = [i \in DOMAIN rules |-> m[i]] /\ \A i \in DOMAIN rules : IsList(m[i]) /\ Range(m[i]) = all[rules[i]]
  BY <1>3, <1>4
<1>6. \A y : y \in PathsOf(objs, o) <=> \E rule \in Range(rules) : y \in all[rule]
  BY DEF PathsOf, rules
<1> HIDE DEF all, m
<1>7. IsList(FlattenSeq(m)) /\ \A y : y \in Range(FlattenSeq(m)) <=> \E rule \in Range(rules) : y \in all[rule]
  BY <1>2, <1>5, FlatRange
<1> QED
  BY <1>1, <1>6, <1>7

(* What is built of a path. *)
LEMMA PathBuilt ==
  ASSUME NEW objs, NEW o, NEW rule, NEW p, IsPath(p.path), ~HostnameRefusal(RuleHost(rule))
  PROVE  IsBuiltPath(PathOf(objs, o, rule, p))
<1> DEFINE b == PathOf(objs, o, rule, p)
<1>1. /\ b.host = RuleHost(rule) /\ b.path = PathMatch(p.path)
      /\ b.err = IngressPathError(p, IngressBackend(objs, o, p))
  BY DEF PathOf, BuiltPath
<1>2. IngressPathError(p, IngressBackend(objs, o, p)) = {} => ~PathRefusal(PathMatch(p.path))
  BY DEF IngressPathError
<1> QED
  BY <1>1, <1>2, MatchIsPath DEF IsBuiltPath

(* One path's frontends: on plain HTTP, and on HTTPS where a certificate covers its name. *)
LEMMA PathFrontendsAre ==
  ASSUME NEW b, NEW p
  PROVE  /\ IsList(PathFrontends(b, p))
         /\ \A s \in Range(PathFrontends(b, p)) : p.err = {} /\ \E tls, filters : s = PathFrontend(b, p, tls, filters)
         /\ p.err = {} => \E filters : PathFrontend(b, p, FALSE, filters) \in Range(PathFrontends(b, p))
<1>0. CASE p.err # {}
  BY <1>0, Nothing DEF PathFrontends
<1>1. CASE p.err = {}
  <2> DEFINE secure == TlsCovers(TlsReady(b), p.host)
             plain == IF secure /\ b.ingress.redirect THEN HttpsRedirect ELSE NoFilters
             x == PathFrontend(b, p, FALSE, plain)
             y == PathFrontend(b, p, TRUE, NoFilters)
  <2>1. PathFrontends(b, p) = <<x>> \o (IF secure THEN <<y>> ELSE <<>>)
    BY <1>1, Zenon DEF PathFrontends
  <2>2. \A s \in {x, y} : \E tls, filters : s = PathFrontend(b, p, tls, filters)
    BY Zenon
  <2>3. IsList(<<x>>) /\ Range(<<x>>) = {x} /\ IsList(<<y>>) /\ Range(<<y>>) = {y}
    BY Single, Zenon
  <2> HIDE DEF secure, plain, y
  <2>4. IsList(PathFrontends(b, p)) /\ Range(PathFrontends(b, p)) \subseteq {x, y} /\ x \in Range(PathFrontends(b, p))
    <3> HIDE DEF x
    <3>1. CASE secure
      <4>1. PathFrontends(b, p) = <<x>> \o <<y>>
        BY <2>1, <3>1
      <4> QED
        BY <2>3, <4>1, ListsJoined
    <3>2. CASE ~secure
      <4>1. PathFrontends(b, p) = <<x>> \o <<>>
        BY <2>1, <3>2
      <4>2. IsList(<<x>> \o <<>>) /\ Range(<<x>> \o <<>>) = Range(<<x>>) \cup Range(<<>>)
        BY <2>3, Nothing, ListsJoined
      <4> QED
        BY <2>3, <4>1, <4>2, Nothing
    <3> QED
      BY <3>1, <3>2
  <2>5. \E filters : PathFrontend(b, p, FALSE, filters) \in Range(PathFrontends(b, p))
    BY <2>4, Zenon
  <2> QED
    BY <1>1, <2>2, <2>4, <2>5, Zenon
<1> QED
  BY <1>0, <1>1

(* What a path's frontend is. *)
LEMMA PathFrontendFields ==
  ASSUME NEW b, NEW p, NEW tls, NEW filters
  PROVE  LET s == PathFrontend(b, p, tls, filters) IN
         /\ s.frontend.host = p.host /\ s.frontend.path = p.path /\ s.frontend.method = None
         /\ s.frontend.headers = {} /\ s.frontend.tls = tls /\ s.frontend.cluster = p.backend.id
         /\ s.source = Source(b.ingress, NoRef)
BY DEF PathFrontend

(* It can be loaded. *)
LEMMA PathFrontendLoads ==
  ASSUME NEW b, NEW p, IsBuiltPath(p), p.err = {}, IsClaim(b.ingress), NEW services, p.backend \in services,
         NEW tls, NEW filters
  PROVE  Loadable(PathFrontend(b, p, tls, filters), services)
<1> DEFINE s == PathFrontend(b, p, tls, filters)
<1>1. /\ s.frontend = [host |-> p.host, path |-> p.path, method |-> None, headers |-> {}, tls |-> tls,
                       listener |-> s.frontend.listener, cluster |-> p.backend.id, filters |-> filters]
      /\ s.source = Source(b.ingress, NoRef)
  BY DEF PathFrontend
<1> HIDE DEF s
<1>2. IsClaim(s.source)
  BY <1>1 DEF Source, IsClaim
<1>3. IsFrontend(s.frontend)
  BY <1>1, FS_EmptySet DEF IsFrontend, IsBuiltPath
<1>4. s.frontend.host = p.host /\ s.frontend.path = p.path /\ s.frontend.cluster = p.backend.id
  BY <1>1
<1>5. Loadable(s, services)
  BY <1>2, <1>3, <1>4 DEF Loadable, IsSourced, IsBuiltPath
<1> QED
  BY <1>5 DEF s

(* The Ingresses built are those of our class. *)
LEMMA IngressesBuilt ==
  ASSUME NEW objs, Cached(objs)
  PROVE  /\ IsList(BuiltIngresses(objs))
         /\ \A b : b \in Range(BuiltIngresses(objs)) <=> \E o \in Range(objs) : IsOurs(o) /\ b = BuiltIngress(objs, o)
<1> DEFINE ours == OurIngresses(objs)
           built == BuiltIngresses(objs)
<1>1. IsList(ours) /\ \A o : o \in Range(ours) <=> o \in Range(objs) /\ IsOurs(o)
  <2> DEFINE mine == {o \in Range(objs) : IsOurs(o)}
  <2>1. IsList(Filtered(objs, mine)) /\ Range(Filtered(objs, mine)) = Range(objs) \cap mine
    BY FilteredList DEF Cached
  <2> QED
    BY <2>1 DEF OurIngresses
<1>2. built = [i \in DOMAIN ours |-> built[i]] /\ \A i \in DOMAIN ours : built[i] = BuiltIngress(objs, ours[i])
  BY DEF BuiltIngresses
<1> HIDE DEF ours, built
<1>3. /\ Len(ours) \in Nat /\ DOMAIN ours = 1..Len(ours) /\ \A i \in DOMAIN ours : ours[i] \in Range(ours)
      /\ \A o \in Range(ours) : \E i \in DOMAIN ours : o = ours[i]
  BY <1>1, ListFields
<1>4. IsList(built) /\ DOMAIN built = DOMAIN ours
  BY <1>2, <1>3, IndexedList
<1>5. \A b : b \in Range(built) <=> \E i \in DOMAIN ours : b = BuiltIngress(objs, ours[i])
  BY <1>2, <1>4 DEF Range
<1> QED
  BY <1>1, <1>3, <1>4, <1>5 DEF built

(* An Ingress of ours, and what is built of it. *)
LEMMA IngressParts ==
  ASSUME NEW objs, Cached(objs), NEW o \in Range(objs), IsOurs(o)
  PROVE  LET b == BuiltIngress(objs, o) IN
         /\ b.ingress = o /\ IsClaim(o) /\ o.kind = "Ingress" /\ IngressLists(o)
         /\ IsList(b.paths) /\ Range(b.paths) = PathsOf(objs, o)
         /\ \A p \in Range(b.paths) : IsBuiltPath(p)
<1>1. IsClaim(o) /\ IngressLists(o) /\ o.kind = "Ingress"
  BY DEF Cached, WellFormed, IsOurs, IsClaim
<1>2. BuiltIngress(objs, o).ingress = o
  BY DEF BuiltIngress
<1>3. LET paths == BuiltIngress(objs, o).paths IN IsList(paths) /\ Range(paths) = PathsOf(objs, o)
  BY <1>1, BuiltPaths
<1>4. ASSUME NEW x \in PathsOf(objs, o) PROVE IsBuiltPath(x)
  <2>1. PICK rule \in Range(AdmittedRules(o)) : \E p \in Range(rule.paths) : x = PathOf(objs, o, rule, p)
    BY DEF PathsOf
  <2>2. PICK p \in Range(rule.paths) : x = PathOf(objs, o, rule, p)
    BY <2>1
  <2>3. rule \in Range(o.rules) /\ ~HostnameRefusal(RuleHost(rule))
    BY <1>1, RulesAdmitted
  <2>4. IsPath(p.path)
    BY <1>1, <2>3 DEF IngressLists
  <2> QED
    BY <2>2, <2>3, <2>4, PathBuilt
<1> QED
  BY <1>1, <1>2, <1>3, <1>4

(* The frontends of Ingresses are those of their paths. *)
LEMMA IngressFrontendsAre ==
  ASSUME NEW objs, Cached(objs)
  PROVE  LET built == BuiltIngresses(objs)
             fs == IngressFrontends(built)
         IN /\ IsList(fs)
            /\ \A s : s \in Range(fs) <=> \E b \in Range(built) : \E p \in Range(b.paths) : s \in Range(PathFrontends(b, p))
<1> DEFINE built == BuiltIngresses(objs)
           one(b) == [i \in DOMAIN b.paths |-> PathFrontends(b, b.paths[i])]
           m == [i \in DOMAIN built |-> FlattenSeq(one(built[i]))]
           all == [b \in Range(built) |-> UNION {Range(PathFrontends(b, p)) : p \in Range(b.paths)}]
<1>1. IngressFrontends(built) = FlattenSeq(m)
  BY DEF IngressFrontends, FlatMap
<1>2. IsList(built) /\ \A b \in Range(built) : IsList(b.paths)
  BY IngressesBuilt, IngressParts
<1> HIDE DEF built
<1>3. ASSUME NEW b \in Range(built)
      PROVE  IsList(FlattenSeq(one(b))) /\ Range(FlattenSeq(one(b))) = all[b]
  <2> DEFINE s == b.paths
             q == one(b)
             its == [p \in Range(s) |-> Range(PathFrontends(b, p))]
  <2>1. q = [i \in DOMAIN s |-> q[i]] /\ \A i \in DOMAIN s : q[i] = PathFrontends(b, s[i])
    OBVIOUS
  <2>2. IsList(s) /\ \A i \in DOMAIN s : s[i] \in Range(s)
    BY <1>2, ListFields
  <2>3. \A i \in DOMAIN s : IsList(q[i]) /\ Range(q[i]) = its[s[i]]
    BY <2>1, <2>2, PathFrontendsAre
  <2>4. \A y : y \in all[b] <=> \E p \in Range(s) : y \in its[p]
    OBVIOUS
  <2> HIDE DEF q, its, s, all
  <2>5. IsList(FlattenSeq(q)) /\ \A y : y \in Range(FlattenSeq(q)) <=> \E p \in Range(s) : y \in its[p]
    BY <2>1, <2>2, <2>3, FlatRange
  <2> QED
    BY <2>4, <2>5 DEF q
<1> HIDE DEF one
<1>4. \A i \in DOMAIN built : built[i] \in Range(built)
  BY <1>2, ListFields
<1>5. m = [i \in DOMAIN built |-> m[i]] /\ \A i \in DOMAIN built : IsList(m[i]) /\ Range(m[i]) = all[built[i]]
  BY <1>3, <1>4
<1>6. \A b \in Range(built) : \A y : y \in all[b] <=> \E p \in Range(b.paths) : y \in Range(PathFrontends(b, p))
  OBVIOUS
<1> HIDE DEF all, m
<1>7. IsList(FlattenSeq(m)) /\ \A y : y \in Range(FlattenSeq(m)) <=> \E b \in Range(built) : y \in all[b]
  BY <1>2, <1>5, FlatRange
<1> QED
  BY <1>1, <1>6, <1>7 DEF built

(* Every frontend of an Ingress can be loaded, and is sourced at the Ingress. *)
LEMMA IngressFrontendsLoad ==
  ASSUME NEW objs, Cached(objs), NEW s \in Range(IngressFrontends(BuiltIngresses(objs)))
  PROVE  /\ Loadable(s, IngressServices(BuiltIngresses(objs)))
         /\ \E b \in Range(BuiltIngresses(objs)) : s.source = Source(b.ingress, NoRef)
<1> DEFINE built == BuiltIngresses(objs)
<1>1. PICK b \in Range(built) : \E p \in Range(b.paths) : s \in Range(PathFrontends(b, p))
  BY IngressFrontendsAre
<1>2. PICK p \in Range(b.paths) : s \in Range(PathFrontends(b, p))
  BY <1>1
<1>3. PICK o \in Range(objs) : IsOurs(o) /\ b = BuiltIngress(objs, o)
  BY IngressesBuilt
<1>4. IsClaim(b.ingress) /\ IsBuiltPath(p)
  BY <1>3, IngressParts
<1>5. p.err = {} /\ \E tls, filters : s = PathFrontend(b, p, tls, filters)
  BY <1>2, PathFrontendsAre
<1>6. p.backend \in IngressServices(built)
  BY <1>5 DEF IngressServices
<1>7. PICK tls, filters : s = PathFrontend(b, p, tls, filters)
  BY <1>5
<1> HIDE DEF built
<1>8. Loadable(s, IngressServices(built))
  BY <1>4, <1>5, <1>6, <1>7, PathFrontendLoads
<1>9. s.source = Source(b.ingress, NoRef)
  BY <1>7, PathFrontendFields
<1> QED
  BY <1>8, <1>9 DEF built

(* The listeners of a Gateway as built are a list. *)
LEMMA BuiltListeners ==
  ASSUME NEW objs, Cached(objs), NEW g \in BuiltGateways(objs)
  PROVE  IsList(g.listeners)
<1>1. PICK h \in OurGateways(objs) : g = [h EXCEPT !.listeners = [i \in DOMAIN @ |-> Listener(objs, h, @[i])]]
  BY DEF BuiltGateways
<1>2. "listeners" \in DOMAIN h /\ IsList(h.listeners)
  BY DEF OurGateways, Cached, WellFormed
<1> DEFINE q == [i \in DOMAIN h.listeners |-> Listener(objs, h, h.listeners[i])]
<1>3. g.listeners = q /\ q = [i \in DOMAIN h.listeners |-> q[i]]
  BY <1>1, <1>2
<1> HIDE DEF q
<1>4. Len(h.listeners) \in Nat /\ DOMAIN h.listeners = 1..Len(h.listeners)
  BY <1>2, ListFields
<1> QED
  BY <1>3, <1>4, IndexedList

(* The listeners at a parentRef are a list, whatever is asked of them. *)
LEMMA ParentListeners ==
  ASSUME NEW objs, Cached(objs), NEW o, NEW i \in OurParents(BuiltGateways(objs), o)
  PROVE  LET gws == BuiltGateways(objs)
             ref == o.parents[i]
         IN IsList(Admitting(objs, gws, o, ref)) /\ IsList(Matching(objs, gws, o, ref))
<1> DEFINE gws == BuiltGateways(objs)
           ref == o.parents[i]
           its == {g \in gws : g.ns = ParentNs(o, ref) /\ g.name = ref.gateway}
<1>1. its # {}
  BY DEF OurParents
<1>2. ParentGateway(gws, o, ref) \in its
  BY <1>1 DEF ParentGateway, The
<1> DEFINE listeners == ParentGateway(gws, o, ref).listeners
<1>3. IsList(listeners)
  BY <1>2, BuiltListeners
<1>4. IsList(Addressable(gws, o, ref))
  <2> HIDE DEF listeners
  <2>1. \A kept : IsList(Filtered(listeners, kept))
    BY <1>3, FilteredList
  <2> QED
    BY <2>1 DEF Addressable, listeners
<1> DEFINE addressable == Addressable(gws, o, ref)
<1>5. IsList(Admitting(objs, gws, o, ref))
  <2>0. IsList(addressable)
    BY <1>4
  <2> HIDE DEF addressable
  <2>1. \A kept : IsList(Filtered(addressable, kept))
    BY <2>0, FilteredList
  <2> QED
    BY <2>1 DEF Admitting, addressable
<1> DEFINE admitting == Admitting(objs, gws, o, ref)
<1>6. IsList(Matching(objs, gws, o, ref))
  <2>0. IsList(admitting)
    BY <1>5
  <2> HIDE DEF admitting
  <2>1. \A kept : IsList(Filtered(admitting, kept))
    BY <2>0, FilteredList
  <2> QED
    BY <2>1 DEF Matching, admitting
<1> QED
  BY <1>5, <1>6

(* The parentRefs that name a Gateway of ours. *)
LEMMA ParentsList ==
  ASSUME NEW gws, NEW o, IsList(o.parents)
  PROVE  IsList(ParentsInOrder(gws, o)) /\ Range(ParentsInOrder(gws, o)) = OurParents(gws, o)
<1> DEFINE q == [i \in DOMAIN o.parents |-> i]
<1>1. Len(o.parents) \in Nat /\ DOMAIN o.parents = 1..Len(o.parents)
  BY ListFields
<1>2. q = [i \in DOMAIN o.parents |-> q[i]] /\ Range(q) = DOMAIN o.parents
  BY DEF Range
<1>3. ParentsInOrder(gws, o) = Filtered(q, OurParents(gws, o))
  BY DEF ParentsInOrder
<1>4. OurParents(gws, o) \subseteq DOMAIN o.parents
  BY DEF OurParents
<1> HIDE DEF q
<1>5. IsList(q)
  BY <1>1, <1>2, IndexedList
<1>6. IsList(ParentsInOrder(gws, o)) /\ Range(ParentsInOrder(gws, o)) = Range(q) \cap OurParents(gws, o)
  BY <1>3, <1>5, FilteredList
<1> QED
  BY <1>2, <1>4, <1>6

(* The names a listener serves a route under are a list. *)
LEMMA HostsList ==
  ASSUME NEW o, IsList(o.hosts), NEW l
  PROVE  /\ IsList(EmittedHosts(o, l))
         /\ \A h : h \in Range(EmittedHosts(o, l)) <=> h \in Range(EffectiveHostnames(o, l)) /\ ~HostnameRefusal(h)
<1> DEFINE hosts == EffectiveHostnames(o, l)
<1>1. IsList(hosts)
  <2> DEFINE x == IF l.host = <<>> THEN <<"*">> ELSE l.host
             m == [i \in DOMAIN o.hosts |-> HostIntersection(o.hosts[i], l.host)]
             all == [h \in Range(o.hosts) |-> Range(HostIntersection(h, l.host))]
  <2>1. hosts = IF o.hostless THEN <<x>> ELSE IF l.host = <<>> THEN o.hosts ELSE FlattenSeq(m)
    BY DEF EffectiveHostnames, FlatMap
  <2>2. m = [i \in DOMAIN o.hosts |-> m[i]] /\ \A i \in DOMAIN o.hosts : m[i] = HostIntersection(o.hosts[i], l.host)
    OBVIOUS
  <2>3. \A i \in DOMAIN o.hosts : o.hosts[i] \in Range(o.hosts)
    BY ListFields
  <2> HIDE DEF hosts, x, m
  <2>4. \A i \in DOMAIN o.hosts : IsList(m[i]) /\ Range(m[i]) = all[o.hosts[i]]
    BY <2>2, <2>3, Single, Nothing DEF HostIntersection
  <2> HIDE DEF all
  <2>5. IsList(FlattenSeq(m)) /\ IsList(<<x>>)
    BY <2>2, <2>4, FlatRange, Single
  <2> QED
    BY <2>1, <2>5
<1> DEFINE parsed == {h \in Range(hosts) : ~HostnameRefusal(h)}
<1>2. EmittedHosts(o, l) = Filtered(hosts, parsed)
  BY DEF EmittedHosts
<1>3. IsList(Filtered(hosts, parsed)) /\ Range(Filtered(hosts, parsed)) = Range(hosts) \cap parsed
  BY <1>1, FilteredList
<1> QED
  BY <1>2, <1>3

(* Header matches are finitely many. *)
LEMMA CountedFinite ==
  ASSUME NEW headers, IsList(headers)
  PROVE  IsFiniteSet(Counted(headers)) /\ Counted(headers) \subseteq Range(headers)
<1> DEFINE D == {j \in DOMAIN headers : \A k \in 1..(j - 1) : headers[k].name # headers[j].name}
           f == [i \in D |-> headers[i]]
<1>1. DOMAIN headers = 1..Len(headers) /\ Len(headers) \in Nat
  BY ListFields
<1>2. IsFiniteSet(D)
  <2>1. IsFiniteSet(1..Len(headers))
    BY <1>1, FS_Interval
  <2>2. D \subseteq 1..Len(headers)
    BY <1>1
  <2> HIDE DEF D
  <2> QED
    BY <2>1, <2>2, FS_Subset
<1>3. Counted(headers) = {headers[i] : i \in D}
  BY DEF Counted
<1> HIDE DEF D
<1>4. f \in Surjection(D, {headers[i] : i \in D})
  BY DEF Surjection
<1>5. {headers[i] : i \in D} \subseteq Range(headers)
  BY ListFields DEF D
<1> HIDE DEF f
<1> QED
  BY <1>2, <1>3, <1>4, <1>5, FS_Surjection

(* A rule as attach_rule has it. *)
RuleLists(r) ==
  IsList(r.matches) /\ \A m \in Range(r.matches) :
    IsPath(m.path) /\ IsList(m.headers) /\ \A h \in Range(m.headers) : IsFiniteSet(h.value)

(* The matches that are not skipped. *)
LEMMA MatchedList ==
  ASSUME NEW r, RuleLists(r)
  PROVE  IsList(Matched(r)) /\ \A m : m \in Range(Matched(r)) <=> m \in Range(r.matches) /\ MatchProblem(m) = {}
<1> DEFINE kept == {m \in Range(r.matches) : MatchProblem(m) = {}}
<1>1. IsList(Filtered(r.matches, kept)) /\ Range(Filtered(r.matches, kept)) = Range(r.matches) \cap kept
  BY FilteredList DEF RuleLists
<1> QED
  BY <1>1 DEF Matched

(* The listeners that are programmed. *)
LEMMA ProgrammedList ==
  ASSUME NEW ls, IsList(ls)
  PROVE  IsList(Programmed(ls)) /\ Range(Programmed(ls)) = {l \in Range(ls) : l.programmed}
<1> DEFINE kept == {l \in Range(ls) : l.programmed}
<1>1. IsList(Filtered(ls, kept)) /\ Range(Filtered(ls, kept)) = Range(ls) \cap kept
  BY FilteredList
<1> QED
  BY <1>1 DEF Programmed

(* One rule's frontends: one for each match that is not skipped, programmed listener and name. *)
LEMMA RuleFrontendsAre ==
  ASSUME NEW a, NEW r, IsList(a.route.hosts), IsList(a.matching), RuleLists(r)
  PROVE  /\ IsList(RuleFrontends(a, r))
         /\ \A s : s \in Range(RuleFrontends(a, r)) <=>
              /\ Programs(r)
              /\ \E m \in Range(Matched(r)) : \E l \in Range(Programmed(a.matching)) :
                   \E h \in Range(EmittedHosts(a.route, l)) : s = RuleFrontend(a, r, m, l, h)
<1>1. CASE ~Programs(r)
  BY <1>1, Nothing DEF RuleFrontends
<1>2. CASE Programs(r)
  <2> DEFINE named(m, l) == [i \in DOMAIN EmittedHosts(a.route, l) |-> <<RuleFrontend(a, r, m, l, EmittedHosts(a.route, l)[i])>>]
             matched == Matched(r)
             listeners == Programmed(a.matching)
             on(m) == [i \in DOMAIN listeners |-> FlattenSeq(named(m, listeners[i]))]
             all == [i \in DOMAIN matched |-> FlattenSeq(on(matched[i]))]
             Of(m, l) == {RuleFrontend(a, r, m, l, h) : h \in Range(EmittedHosts(a.route, l))}
             atAll == [m \in Range(matched) |-> UNION {Of(m, l) : l \in Range(listeners)}]
  <2>1. RuleFrontends(a, r) = FlattenSeq(all)
    BY <1>2 DEF RuleFrontends, FlatMap
  <2>2. IsList(matched)
    BY MatchedList
  <2>3. IsList(listeners)
    BY ProgrammedList
  <2> HIDE DEF matched, listeners
  <2>4. ASSUME NEW m, NEW l
        PROVE  IsList(FlattenSeq(named(m, l))) /\ \A s : s \in Range(FlattenSeq(named(m, l))) <=> s \in Of(m, l)
    <3> DEFINE hosts == EmittedHosts(a.route, l)
               q == named(m, l)
               image == [h \in Range(hosts) |-> RuleFrontend(a, r, m, l, h)]
    <3>1. IsList(hosts) /\ \A i \in DOMAIN hosts : hosts[i] \in Range(hosts)
      BY HostsList, ListFields
    <3>2. q = [i \in DOMAIN hosts |-> q[i]] /\ \A i \in DOMAIN hosts : q[i] = <<image[hosts[i]]>>
      BY <3>1
    <3>3. \A s : s \in Of(m, l) <=> \E h \in Range(hosts) : s = image[h]
      OBVIOUS
    <3> HIDE DEF hosts, q, image, Of
    <3>4. IsList(FlattenSeq(q)) /\ \A s : s \in Range(FlattenSeq(q)) <=> \E h \in Range(hosts) : s = image[h]
      BY <3>1, <3>2, FlatImage
    <3> QED
      BY <3>3, <3>4 DEF q
  <2>5. \A s : (\E m \in Range(matched) : s \in atAll[m]) <=>
          \E m \in Range(matched) : \E l \in Range(listeners) :
            \E h \in Range(EmittedHosts(a.route, l)) : s = RuleFrontend(a, r, m, l, h)
    OBVIOUS
  <2>6. \A m \in Range(matched) : \A s : s \in atAll[m] <=> \E l \in Range(listeners) : s \in Of(m, l)
    OBVIOUS
  <2> HIDE DEF named, Of, atAll
  <2>7. ASSUME NEW m \in Range(matched)
        PROVE  IsList(FlattenSeq(on(m))) /\ Range(FlattenSeq(on(m))) = atAll[m]
    <3> DEFINE q == on(m)
               its == [l \in Range(listeners) |-> Range(FlattenSeq(named(m, l)))]
    <3>1. \A i \in DOMAIN listeners : listeners[i] \in Range(listeners)
      BY <2>3, ListFields
    <3>2. /\ q = [i \in DOMAIN listeners |-> q[i]]
          /\ \A i \in DOMAIN listeners : IsList(q[i]) /\ Range(q[i]) = its[listeners[i]]
      BY <2>4, <3>1
    <3>3. \A l \in Range(listeners) : \A s : s \in its[l] <=> s \in Of(m, l)
      BY <2>4
    <3> HIDE DEF q, its
    <3>4. IsList(FlattenSeq(q)) /\ \A s : s \in Range(FlattenSeq(q)) <=> \E l \in Range(listeners) : s \in its[l]
      BY <2>3, <3>2, FlatRange
    <3>5. \A s : s \in Range(FlattenSeq(q)) <=> s \in atAll[m]
      BY <2>6, <3>3, <3>4
    <3>6. Range(FlattenSeq(q)) = atAll[m]
      BY <3>5
    <3> QED
      BY <3>4, <3>6 DEF q
  <2> HIDE DEF on
  <2>8. \A i \in DOMAIN matched : matched[i] \in Range(matched)
    BY <2>2, ListFields
  <2>9. all = [i \in DOMAIN matched |-> all[i]] /\ \A i \in DOMAIN matched : IsList(all[i]) /\ Range(all[i]) = atAll[matched[i]]
    BY <2>7, <2>8
  <2> HIDE DEF all
  <2>10. IsList(FlattenSeq(all)) /\ \A s : s \in Range(FlattenSeq(all)) <=> \E m \in Range(matched) : s \in atAll[m]
    BY <2>2, <2>9, FlatRange
  <2> QED
    BY <1>2, <2>1, <2>5, <2>10 DEF matched, listeners
<1> QED
  BY <1>1, <1>2

(* What a rule's frontend is. *)
LEMMA RuleFrontendFields ==
  ASSUME NEW a, NEW r, NEW m, NEW l, NEW host
  PROVE  LET s == RuleFrontend(a, r, m, l, host) IN
         /\ s.frontend.host = host /\ s.frontend.path = PathMatch(m.path) /\ s.frontend.method = m.method
         /\ s.frontend.headers = Counted(m.headers) /\ s.frontend.tls = (l.proto = "HTTPS")
         /\ s.frontend.listener = l.bind /\ s.frontend.cluster = r.backend.id
         /\ s.frontend.filters = r.parsed.filters /\ s.source = ParentSource(a.route, a.ref)
<1> DEFINE b == l.proto = "HTTPS"
           s == RuleFrontend(a, r, m, l, host)
<1>1. s = [frontend |-> [host |-> host, path |-> PathMatch(m.path), method |-> m.method,
                         headers |-> Counted(m.headers), tls |-> b, listener |-> l.bind,
                         cluster |-> r.backend.id, filters |-> r.parsed.filters],
           source |-> ParentSource(a.route, a.ref)]
  BY Zenon DEF RuleFrontend
<1> HIDE DEF b, s
<1>2. /\ s.frontend.host = host /\ s.frontend.path = PathMatch(m.path) /\ s.frontend.method = m.method
      /\ s.frontend.headers = Counted(m.headers) /\ s.frontend.tls = b
      /\ s.frontend.listener = l.bind /\ s.frontend.cluster = r.backend.id
      /\ s.frontend.filters = r.parsed.filters /\ s.source = ParentSource(a.route, a.ref)
  BY <1>1
<1> QED
  BY <1>2 DEF b, s

(* It can be loaded. *)
LEMMA RuleFrontendLoads ==
  ASSUME NEW a, NEW r, IsClaim(a.route), NEW services, r.backend.id \in {NoCluster} \cup {q.id : q \in services},
         NEW m, IsPath(m.path), IsList(m.headers), \A h \in Range(m.headers) : IsFiniteSet(h.value),
         MatchProblem(m) = {}, NEW l, NEW host, ~HostnameRefusal(host)
  PROVE  Loadable(RuleFrontend(a, r, m, l, host), services)
<1> DEFINE b == l.proto = "HTTPS"
           s == RuleFrontend(a, r, m, l, host)
<1>1. /\ s.frontend = [host |-> host, path |-> PathMatch(m.path), method |-> m.method,
                       headers |-> Counted(m.headers), tls |-> b, listener |-> l.bind,
                       cluster |-> r.backend.id, filters |-> r.parsed.filters]
      /\ s.source = ParentSource(a.route, a.ref)
  <2> HIDE DEF b
  <2>1. s = [frontend |-> [host |-> host, path |-> PathMatch(m.path), method |-> m.method,
                           headers |-> Counted(m.headers), tls |-> b, listener |-> l.bind,
                           cluster |-> r.backend.id, filters |-> r.parsed.filters],
             source |-> ParentSource(a.route, a.ref)]
    BY Zenon DEF RuleFrontend, b
  <2> HIDE DEF s
  <2> QED
    BY <2>1
<1> HIDE DEF b, s
<1>2. IsClaim(s.source)
  BY <1>1 DEF ParentSource, Source, IsClaim
<1>3. /\ IsPath(PathMatch(m.path)) /\ IsFiniteSet(Counted(m.headers))
      /\ \A h \in Counted(m.headers) : IsFiniteSet(h.value)
  BY MatchIsPath, CountedFinite
<1>4. ~PathRefusal(PathMatch(m.path))
  BY DEF MatchProblem
<1>5. /\ s.frontend.host = host /\ s.frontend.path = PathMatch(m.path) /\ s.frontend.cluster = r.backend.id
      /\ IsFrontend(s.frontend)
  BY <1>1, <1>3 DEF IsFrontend
<1>6. Loadable(s, services)
  BY <1>2, <1>4, <1>5 DEF Loadable, IsSourced
<1> QED
  BY <1>6 DEF s

(* The routes of a kind. *)
LEMMA RoutesOfKind ==
  ASSUME NEW objs, Cached(objs), NEW kind
  PROVE  IsList(OfKind(objs, kind)) /\ \A o : o \in Range(OfKind(objs, kind)) <=> o \in Range(objs) /\ o.kind = kind
<1> DEFINE those == {o \in Range(objs) : o.kind = kind}
<1>1. IsList(Filtered(objs, those)) /\ Range(Filtered(objs, those)) = Range(objs) \cap those
  BY FilteredList DEF Cached
<1> QED
  BY <1>1 DEF OfKind

(* HTTPRoutes at their parentRefs. *)
LEMMA HttpAttachmentsMade ==
  ASSUME NEW objs, Cached(objs)
  PROVE  LET gws == BuiltGateways(objs)
             all == HttpAttachments(objs, gws)
         IN /\ IsList(all)
            /\ \A a : a \in Range(all) <=> \E o \in Range(objs) : \E i \in OurParents(gws, o) :
                 o.kind = "HTTPRoute" /\ a = HttpAttachment(objs, gws, o, i)
<1> DEFINE gws == BuiltGateways(objs)
           routes == OfKind(objs, "HTTPRoute")
           sorted == Sorted(routes, ClaimOrder(routes))
           one(o) == [j \in DOMAIN ParentsInOrder(gws, o) |-> <<HttpAttachment(objs, gws, o, ParentsInOrder(gws, o)[j])>>]
           m == [k \in DOMAIN sorted |-> FlattenSeq(one(sorted[k]))]
           all == [o \in Range(sorted) |-> {HttpAttachment(objs, gws, o, i) : i \in OurParents(gws, o)}]
<1>1. HttpAttachments(objs, gws) = FlattenSeq(m)
  BY DEF HttpAttachments, FlatMap
<1>2. IsList(routes) /\ \A o : o \in Range(routes) <=> o \in Range(objs) /\ o.kind = "HTTPRoute"
  BY RoutesOfKind
<1>3. \A o \in Range(routes) : IsClaim(o) /\ IsList(o.parents)
  BY <1>2 DEF Cached, WellFormed, IsClaim
<1> HIDE DEF routes
<1>4. /\ Len(routes) \in Nat /\ DOMAIN routes = 1..Len(routes)
      /\ \A i \in 1..Len(routes) : routes[i] \in Range(routes)
  BY <1>2, ListFields
<1>5. TotalOrder(ClaimOrder(routes), DOMAIN routes)
  BY <1>3, <1>4, ClaimOrderTotal
<1>6. IsList(sorted) /\ Range(sorted) = Range(routes)
  BY <1>2, <1>5, SortedList
<1> HIDE DEF sorted, gws
<1>7. ASSUME NEW o \in Range(sorted)
      PROVE  IsList(FlattenSeq(one(o))) /\ Range(FlattenSeq(one(o))) = all[o]
  <2> DEFINE s == ParentsInOrder(gws, o)
             q == one(o)
             image == [i \in Range(s) |-> HttpAttachment(objs, gws, o, i)]
  <2>1. IsList(s) /\ Range(s) = OurParents(gws, o) /\ \A j \in DOMAIN s : s[j] \in Range(s)
    BY <1>3, <1>6, ParentsList, ListFields
  <2>2. q = [j \in DOMAIN s |-> q[j]] /\ \A j \in DOMAIN s : q[j] = <<image[s[j]]>>
    BY <2>1
  <2>3. \A y : y \in all[o] <=> \E i \in Range(s) : y = image[i]
    BY <2>1
  <2> HIDE DEF s, q, image, all
  <2>4. IsList(FlattenSeq(q)) /\ \A y : y \in Range(FlattenSeq(q)) <=> \E i \in Range(s) : y = image[i]
    BY <2>1, <2>2, FlatImage
  <2> QED
    BY <2>3, <2>4 DEF q
<1> HIDE DEF one
<1>8. \A k \in DOMAIN sorted : sorted[k] \in Range(sorted)
  BY <1>6, ListFields
<1>9. m = [k \in DOMAIN sorted |-> m[k]] /\ \A k \in DOMAIN sorted : IsList(m[k]) /\ Range(m[k]) = all[sorted[k]]
  BY <1>7, <1>8
<1>10. \A o \in Range(sorted) : \A a : a \in all[o] <=> \E i \in OurParents(gws, o) : a = HttpAttachment(objs, gws, o, i)
  OBVIOUS
<1> HIDE DEF m, all
<1>11. IsList(FlattenSeq(m)) /\ \A a : a \in Range(FlattenSeq(m)) <=> \E o \in Range(sorted) : a \in all[o]
  BY <1>6, <1>9, FlatRange
<1>12. \A o : o \in Range(sorted) <=> o \in Range(objs) /\ o.kind = "HTTPRoute"
  BY <1>2, <1>6
<1>13. \A a : a \in Range(FlattenSeq(m)) <=> \E o \in Range(objs) : \E i \in OurParents(gws, o) :
         o.kind = "HTTPRoute" /\ a = HttpAttachment(objs, gws, o, i)
  BY <1>10, <1>11, <1>12
<1> QED
  BY <1>1, <1>11, <1>13 DEF gws

(* The rules of a route as built. *)
LEMMA BuiltRulesList ==
  ASSUME NEW objs, NEW o, HttpRouteLists(o)
  PROVE  LET rules == BuiltRules(objs, o) IN
         /\ IsList(rules)
         /\ \A r \in Range(rules) : RuleLists(r) /\ (r.refs = <<>> => r.backend.id = NoCluster)
<1> DEFINE rules == BuiltRules(objs, o)
           built(rule) == BuiltRule(objs, o, rule, ParseFilters(rule.filters))
<1>1. /\ IsList(o.rules) /\ Len(o.rules) \in Nat /\ DOMAIN o.rules = 1..Len(o.rules)
      /\ \A i \in DOMAIN o.rules : o.rules[i] \in Range(o.rules)
  BY ListFields DEF HttpRouteLists
<1>2. rules = [i \in DOMAIN o.rules |-> rules[i]] /\ \A i \in DOMAIN o.rules : rules[i] = built(o.rules[i])
  BY DEF BuiltRules
<1>3. ASSUME NEW rule \in Range(o.rules)
      PROVE  RuleLists(built(rule)) /\ (built(rule).refs = <<>> => built(rule).backend.id = NoCluster)
  <2> DEFINE parsed == ParseFilters(rule.filters)
             x == RuleBackend(objs, o, rule, parsed)
             r == built(rule)
  <2>1. r.matches = RuleMatches(rule) /\ r.refs = rule.refs /\ r.backend = x
    BY DEF BuiltRule
  <2> HIDE DEF parsed, r
  <2>2. rule.refs = <<>> => x.id = NoCluster
    <3> SUFFICES ASSUME rule.refs = <<>> PROVE x.id = NoCluster
      OBVIOUS
    <3>1. \E why : x = Unrouted(why)
      BY DEF RuleBackend, Backend
    <3> QED
      BY <3>1 DEF Unrouted
  <2>3. /\ IsList(RuleMatches(rule))
        /\ \A m \in Range(RuleMatches(rule)) :
             IsPath(m.path) /\ IsList(m.headers) /\ \A h \in Range(m.headers) : IsFiniteSet(h.value)
    <3>1. CASE rule.matches = <<>>
      <4>1. RuleMatches(rule) = <<EveryRequest>>
        BY <3>1 DEF RuleMatches
      <4>2. /\ IsPath(EveryRequest.path) /\ IsList(EveryRequest.headers)
            /\ \A h \in Range(EveryRequest.headers) : IsFiniteSet(h.value)
        <5>1. IsList(<<Slash>>)
          BY Single
        <5> QED
          BY <5>1, Nothing DEF EveryRequest, IsPath, PathKinds
      <4> QED
        BY <4>1, <4>2, Single
    <3>2. CASE rule.matches # <<>>
      BY <1>3, <3>2 DEF RuleMatches, HttpRouteLists
    <3> QED
      BY <3>1, <3>2
  <2> HIDE DEF x
  <2>4. RuleLists(r) /\ (r.refs = <<>> => r.backend.id = NoCluster)
    BY <2>1, <2>2, <2>3 DEF RuleLists
  <2> QED
    BY <2>4 DEF r
<1> HIDE DEF rules, built
<1>4. IsList(rules) /\ DOMAIN rules = DOMAIN o.rules
  BY <1>1, <1>2, IndexedList
<1>5. \A r \in Range(rules) : \E i \in DOMAIN o.rules : r = built(o.rules[i])
  BY <1>2, <1>4 DEF Range
<1> QED
  BY <1>1, <1>3, <1>4, <1>5 DEF rules

(* What an attachment of an HTTPRoute is made of. *)
LEMMA HttpAttachmentParts ==
  ASSUME NEW objs, Cached(objs), NEW a \in Range(HttpAttachments(objs, BuiltGateways(objs)))
  PROVE  /\ a.route \in Range(objs) /\ a.route.kind = "HTTPRoute" /\ IsClaim(a.route) /\ HttpRouteLists(a.route)
         /\ IsList(a.route.parents) /\ a.index \in DOMAIN a.route.parents /\ a.ref = a.route.parents[a.index]
         /\ IsList(a.matching) /\ IsList(a.rules) /\ a.rules = BuiltRules(objs, a.route)
         /\ a = HttpAttachment(objs, BuiltGateways(objs), a.route, a.index)
         /\ \A r \in Range(a.rules) : RuleLists(r) /\ (r.refs = <<>> => r.backend.id = NoCluster)
<1> DEFINE gws == BuiltGateways(objs)
<1>1. PICK o \in Range(objs) : \E i \in OurParents(gws, o) :
        o.kind = "HTTPRoute" /\ a = HttpAttachment(objs, gws, o, i)
  BY HttpAttachmentsMade
<1>2. PICK i \in OurParents(gws, o) : o.kind = "HTTPRoute" /\ a = HttpAttachment(objs, gws, o, i)
  BY <1>1
<1>3. /\ a.route = o /\ a.index = i /\ a.ref = o.parents[i]
      /\ a.matching = Matching(objs, gws, o, o.parents[i]) /\ a.rules = BuiltRules(objs, o)
  BY <1>2 DEF HttpAttachment
<1>4. IsClaim(o) /\ HttpRouteLists(o) /\ IsList(o.parents)
  BY <1>2 DEF Cached, WellFormed, IsClaim
<1>5. i \in DOMAIN o.parents
  BY DEF OurParents
<1>6. IsList(Matching(objs, gws, o, o.parents[i]))
  BY ParentListeners
<1>7. LET rules == BuiltRules(objs, o) IN
      IsList(rules) /\ \A r \in Range(rules) : RuleLists(r) /\ (r.refs = <<>> => r.backend.id = NoCluster)
  BY <1>4, BuiltRulesList
<1> HIDE DEF gws
<1>8. a = HttpAttachment(objs, gws, a.route, a.index)
  BY <1>2, <1>3
<1> QED
  BY <1>2, <1>3, <1>4, <1>5, <1>6, <1>7, <1>8 DEF gws

(* The frontends of HTTPRoutes are those of their rules. *)
LEMMA HttpFrontendsAre ==
  ASSUME NEW objs, Cached(objs)
  PROVE  LET http == HttpAttachments(objs, BuiltGateways(objs))
             fs == HttpFrontends(http)
         IN /\ IsList(fs)
            /\ \A s : s \in Range(fs) <=> \E a \in Range(http) : \E r \in Range(a.rules) : s \in Range(RuleFrontends(a, r))
<1> DEFINE http == HttpAttachments(objs, BuiltGateways(objs))
           one(a) == [i \in DOMAIN a.rules |-> RuleFrontends(a, a.rules[i])]
           m == [k \in DOMAIN http |-> FlattenSeq(one(http[k]))]
           all == [a \in Range(http) |-> UNION {Range(RuleFrontends(a, r)) : r \in Range(a.rules)}]
<1>1. HttpFrontends(http) = FlattenSeq(m)
  BY DEF HttpFrontends, FlatMap
<1>2. IsList(http)
  BY HttpAttachmentsMade
<1>3. \A a \in Range(http) : IsList(a.rules) /\ \A r \in Range(a.rules) : IsList(RuleFrontends(a, r))
  BY HttpAttachmentParts, RuleFrontendsAre DEF HttpRouteLists
<1> HIDE DEF http
<1>4. ASSUME NEW a \in Range(http)
      PROVE  IsList(FlattenSeq(one(a))) /\ Range(FlattenSeq(one(a))) = all[a]
  <2> DEFINE s == a.rules
             q == one(a)
             its == [r \in Range(s) |-> Range(RuleFrontends(a, r))]
  <2>1. q = [i \in DOMAIN s |-> q[i]] /\ \A i \in DOMAIN s : q[i] = RuleFrontends(a, s[i])
    OBVIOUS
  <2>2. IsList(s) /\ \A i \in DOMAIN s : s[i] \in Range(s)
    BY <1>3, ListFields
  <2>3. \A i \in DOMAIN s : IsList(q[i]) /\ Range(q[i]) = its[s[i]]
    BY <1>3, <2>1, <2>2
  <2>4. \A y : y \in all[a] <=> \E r \in Range(s) : y \in its[r]
    OBVIOUS
  <2> HIDE DEF q, its, s, all
  <2>5. IsList(FlattenSeq(q)) /\ \A y : y \in Range(FlattenSeq(q)) <=> \E r \in Range(s) : y \in its[r]
    BY <2>1, <2>2, <2>3, FlatRange
  <2> QED
    BY <2>4, <2>5 DEF q
<1> HIDE DEF one
<1>5. \A i \in DOMAIN http : http[i] \in Range(http)
  BY <1>2, ListFields
<1>6. m = [i \in DOMAIN http |-> m[i]] /\ \A i \in DOMAIN http : IsList(m[i]) /\ Range(m[i]) = all[http[i]]
  BY <1>4, <1>5
<1>7. \A a \in Range(http) : \A y : y \in all[a] <=> \E r \in Range(a.rules) : y \in Range(RuleFrontends(a, r))
  OBVIOUS
<1> HIDE DEF all, m
<1>8. IsList(FlattenSeq(m)) /\ \A y : y \in Range(FlattenSeq(m)) <=> \E a \in Range(http) : y \in all[a]
  BY <1>2, <1>6, FlatRange
<1> QED
  BY <1>1, <1>7, <1>8 DEF http

(* Every frontend of an HTTPRoute can be loaded, and is sourced at one of its parentRefs. *)
LEMMA HttpFrontendsLoad ==
  ASSUME NEW objs, Cached(objs), NEW s \in Range(HttpFrontends(HttpAttachments(objs, BuiltGateways(objs))))
  PROVE  LET http == HttpAttachments(objs, BuiltGateways(objs)) IN
         Loadable(s, HttpServices(http)) /\ \E a \in Range(http) : s.source = ParentSource(a.route, a.ref)
<1> DEFINE http == HttpAttachments(objs, BuiltGateways(objs))
           services == HttpServices(http)
<1>1. PICK a \in Range(http) : \E r \in Range(a.rules) : s \in Range(RuleFrontends(a, r))
  BY HttpFrontendsAre
<1>2. PICK r \in Range(a.rules) : s \in Range(RuleFrontends(a, r))
  BY <1>1
<1>3. /\ IsClaim(a.route) /\ IsList(a.route.hosts) /\ IsList(a.matching)
      /\ RuleLists(r) /\ (r.refs = <<>> => r.backend.id = NoCluster)
  BY HttpAttachmentParts DEF HttpRouteLists
<1>4. /\ Programs(r)
      /\ \E m \in Range(Matched(r)) : \E l \in Range(Programmed(a.matching)) :
           \E h \in Range(EmittedHosts(a.route, l)) : s = RuleFrontend(a, r, m, l, h)
  BY <1>2, <1>3, RuleFrontendsAre
<1>5. PICK m \in Range(Matched(r)) : \E l \in Range(Programmed(a.matching)) :
           \E h \in Range(EmittedHosts(a.route, l)) : s = RuleFrontend(a, r, m, l, h)
  BY <1>4
<1>6. PICK l \in Range(Programmed(a.matching)) : \E h \in Range(EmittedHosts(a.route, l)) : s = RuleFrontend(a, r, m, l, h)
  BY <1>5
<1>7. PICK h \in Range(EmittedHosts(a.route, l)) : s = RuleFrontend(a, r, m, l, h)
  BY <1>6
<1>8. /\ ~HostnameRefusal(h) /\ m \in Range(r.matches) /\ MatchProblem(m) = {} /\ IsPath(m.path)
      /\ IsList(m.headers) /\ \A x \in Range(m.headers) : IsFiniteSet(x.value)
  BY <1>3, HostsList, MatchedList DEF RuleLists
<1>9. a.matching # <<>>
  BY <1>3, ProgrammedList, Nothing
<1>10. r.backend.id \in {NoCluster} \cup {q.id : q \in services}
  <2>1. r.refs # <<>> => r.backend \in services
    BY <1>4, <1>9 DEF HttpServices
  <2> QED
    BY <1>3, <2>1
<1> HIDE DEF services
<1>11. Loadable(s, services)
  BY <1>3, <1>7, <1>8, <1>10, RuleFrontendLoads
<1>12. s.source = ParentSource(a.route, a.ref)
  BY <1>7, RuleFrontendFields
<1> QED
  BY <1>11, <1>12 DEF services

-----------------------------------------------------------------------------
(* Sockets and clusters. *)

(* The layer-4 routes. *)
LEMMA L4RoutesAre ==
  ASSUME NEW objs, Cached(objs)
  PROVE  /\ IsList(L4Routes(objs))
         /\ \A o : o \in Range(L4Routes(objs)) <=> o \in Range(objs) /\ o.kind \in {"TCPRoute", "UDPRoute"}
<1> DEFINE tcp == OfKind(objs, "TCPRoute")
           udp == OfKind(objs, "UDPRoute")
<1>1. /\ IsList(tcp) /\ \A o : o \in Range(tcp) <=> o \in Range(objs) /\ o.kind = "TCPRoute"
      /\ IsList(udp) /\ \A o : o \in Range(udp) <=> o \in Range(objs) /\ o.kind = "UDPRoute"
  BY RoutesOfKind
<1>2. L4Routes(objs) = tcp \o udp
  BY DEF L4Routes
<1> HIDE DEF tcp, udp
<1>3. IsList(tcp \o udp) /\ Range(tcp \o udp) = Range(tcp) \cup Range(udp)
  BY <1>1, ListsJoined
<1> QED
  BY <1>1, <1>2, <1>3

(* Layer-4 routes at their parentRefs. *)
LEMMA L4AttachmentsMade ==
  ASSUME NEW objs, Cached(objs)
  PROVE  LET gws == BuiltGateways(objs)
             all == L4Attachments(objs, gws)
         IN /\ IsList(all)
            /\ \A a : a \in Range(all) <=> \E o \in Range(objs) : \E i \in OurParents(gws, o) :
                 o.kind \in {"TCPRoute", "UDPRoute"} /\ a = L4Attachment(objs, gws, o, i)
<1> DEFINE gws == BuiltGateways(objs)
           routes == L4Routes(objs)
           one(o) == [j \in DOMAIN ParentsInOrder(gws, o) |-> <<L4Attachment(objs, gws, o, ParentsInOrder(gws, o)[j])>>]
           m == [k \in DOMAIN routes |-> FlattenSeq(one(routes[k]))]
           all == [o \in Range(routes) |-> {L4Attachment(objs, gws, o, i) : i \in OurParents(gws, o)}]
<1>1. L4Attachments(objs, gws) = FlattenSeq(m)
  BY DEF L4Attachments, FlatMap
<1>2. IsList(routes) /\ \A o : o \in Range(routes) <=> o \in Range(objs) /\ o.kind \in {"TCPRoute", "UDPRoute"}
  BY L4RoutesAre
<1>3. \A o \in Range(routes) : IsList(o.parents)
  BY <1>2 DEF Cached, WellFormed
<1> HIDE DEF routes, gws
<1>4. ASSUME NEW o \in Range(routes)
      PROVE  IsList(FlattenSeq(one(o))) /\ Range(FlattenSeq(one(o))) = all[o]
  <2> DEFINE s == ParentsInOrder(gws, o)
             q == one(o)
             image == [i \in Range(s) |-> L4Attachment(objs, gws, o, i)]
  <2>1. IsList(s) /\ Range(s) = OurParents(gws, o) /\ \A j \in DOMAIN s : s[j] \in Range(s)
    BY <1>3, ParentsList, ListFields
  <2>2. q = [j \in DOMAIN s |-> q[j]] /\ \A j \in DOMAIN s : q[j] = <<image[s[j]]>>
    BY <2>1
  <2>3. \A y : y \in all[o] <=> \E i \in Range(s) : y = image[i]
    BY <2>1
  <2> HIDE DEF s, q, image, all
  <2>4. IsList(FlattenSeq(q)) /\ \A y : y \in Range(FlattenSeq(q)) <=> \E i \in Range(s) : y = image[i]
    BY <2>1, <2>2, FlatImage
  <2> QED
    BY <2>3, <2>4 DEF q
<1> HIDE DEF one
<1>5. \A k \in DOMAIN routes : routes[k] \in Range(routes)
  BY <1>2, ListFields
<1>6. m = [k \in DOMAIN routes |-> m[k]] /\ \A k \in DOMAIN routes : IsList(m[k]) /\ Range(m[k]) = all[routes[k]]
  BY <1>4, <1>5
<1>7. \A o \in Range(routes) : \A a : a \in all[o] <=> \E i \in OurParents(gws, o) : a = L4Attachment(objs, gws, o, i)
  OBVIOUS
<1> HIDE DEF m, all
<1>8. IsList(FlattenSeq(m)) /\ \A a : a \in Range(FlattenSeq(m)) <=> \E o \in Range(routes) : a \in all[o]
  BY <1>2, <1>6, FlatRange
<1>9. \A a : a \in Range(FlattenSeq(m)) <=> \E o \in Range(objs) : \E i \in OurParents(gws, o) :
        o.kind \in {"TCPRoute", "UDPRoute"} /\ a = L4Attachment(objs, gws, o, i)
  BY <1>2, <1>7, <1>8
<1> QED
  BY <1>1, <1>8, <1>9 DEF gws

(* What an attachment of a layer-4 route is made of. *)
LEMMA L4AttachmentParts ==
  ASSUME NEW objs, Cached(objs), NEW a \in Range(L4Attachments(objs, BuiltGateways(objs)))
  PROVE  /\ a.route \in Range(objs) /\ a.route.kind \in {"TCPRoute", "UDPRoute"} /\ IsClaim(a.route)
         /\ IsList(a.route.parents) /\ a.index \in DOMAIN a.route.parents /\ a.ref = a.route.parents[a.index]
         /\ IsList(a.admitting) /\ a.backend = Backend(objs, a.route, a.route.refs, "Number", FALSE)
         /\ a = L4Attachment(objs, BuiltGateways(objs), a.route, a.index)
<1> DEFINE gws == BuiltGateways(objs)
<1>1. PICK o \in Range(objs) : \E i \in OurParents(gws, o) :
        o.kind \in {"TCPRoute", "UDPRoute"} /\ a = L4Attachment(objs, gws, o, i)
  BY L4AttachmentsMade
<1>2. PICK i \in OurParents(gws, o) : o.kind \in {"TCPRoute", "UDPRoute"} /\ a = L4Attachment(objs, gws, o, i)
  BY <1>1
<1>3. /\ a.route = o /\ a.index = i /\ a.ref = o.parents[i]
      /\ a.admitting = Admitting(objs, gws, o, o.parents[i]) /\ a.backend = Backend(objs, o, o.refs, "Number", FALSE)
  BY <1>2 DEF L4Attachment
<1>4. IsClaim(o) /\ IsList(o.parents)
  BY <1>2 DEF Cached, WellFormed, IsClaim
<1>5. i \in DOMAIN o.parents
  BY DEF OurParents
<1>6. IsList(Admitting(objs, gws, o, o.parents[i]))
  BY ParentListeners
<1> HIDE DEF gws
<1>7. a = L4Attachment(objs, gws, a.route, a.index)
  BY <1>2, <1>3
<1> QED
  BY <1>2, <1>3, <1>4, <1>5, <1>6, <1>7 DEF gws

(* The claims on sockets: one for each attachment with a backend and each listener programmed. *)
LEMMA ClaimsAre ==
  ASSUME NEW l4, IsList(l4), \A a \in Range(l4) : IsList(a.admitting)
  PROVE  /\ IsList(L4Claims(l4))
         /\ \A c : c \in Range(L4Claims(l4)) <=> \E a \in Range(l4) : a.backend.err = {} /\
              \E l \in Range(Programmed(a.admitting)) : c = L4Claim(a, l)
<1> DEFINE good == {a \in Range(l4) : a.backend.err = {}}
           s == Filtered(l4, good)
           one(a) == [i \in DOMAIN Programmed(a.admitting) |-> <<L4Claim(a, Programmed(a.admitting)[i])>>]
           m == [k \in DOMAIN s |-> FlattenSeq(one(s[k]))]
           all == [a \in Range(s) |-> {L4Claim(a, l) : l \in Range(Programmed(a.admitting))}]
<1>1. L4Claims(l4) = FlattenSeq(m)
  BY DEF L4Claims, FlatMap
<1>2. IsList(s) /\ \A a : a \in Range(s) <=> a \in Range(l4) /\ a.backend.err = {}
  <2>1. IsList(s) /\ Range(s) = Range(l4) \cap good
    BY FilteredList
  <2> QED
    BY <2>1
<1> HIDE DEF s
<1>3. ASSUME NEW a \in Range(s)
      PROVE  IsList(FlattenSeq(one(a))) /\ Range(FlattenSeq(one(a))) = all[a]
  <2> DEFINE ls == Programmed(a.admitting)
             q == one(a)
             image == [l \in Range(ls) |-> L4Claim(a, l)]
  <2>1. IsList(ls) /\ \A j \in DOMAIN ls : ls[j] \in Range(ls)
    BY <1>2, ProgrammedList, ListFields
  <2>2. q = [j \in DOMAIN ls |-> q[j]] /\ \A j \in DOMAIN ls : q[j] = <<image[ls[j]]>>
    BY <2>1
  <2>3. \A y : y \in all[a] <=> \E l \in Range(ls) : y = image[l]
    OBVIOUS
  <2> HIDE DEF ls, q, image, all
  <2>4. IsList(FlattenSeq(q)) /\ \A y : y \in Range(FlattenSeq(q)) <=> \E l \in Range(ls) : y = image[l]
    BY <2>1, <2>2, FlatImage
  <2> QED
    BY <2>3, <2>4 DEF q
<1> HIDE DEF one
<1>4. \A k \in DOMAIN s : s[k] \in Range(s)
  BY <1>2, ListFields
<1>5. m = [k \in DOMAIN s |-> m[k]] /\ \A k \in DOMAIN s : IsList(m[k]) /\ Range(m[k]) = all[s[k]]
  BY <1>3, <1>4
<1>6. \A a \in Range(s) : \A y : y \in all[a] <=> \E l \in Range(Programmed(a.admitting)) : y = L4Claim(a, l)
  OBVIOUS
<1> HIDE DEF m, all
<1>7. IsList(FlattenSeq(m)) /\ \A y : y \in Range(FlattenSeq(m)) <=> \E a \in Range(s) : y \in all[a]
  BY <1>2, <1>5, FlatRange
<1> QED
  BY <1>1, <1>2, <1>6, <1>7

(* What a claim says. *)
LEMMA ClaimFields ==
  ASSUME NEW a, NEW l
  PROVE  LET c == L4Claim(a, l) IN
         /\ c.proto = l.proto /\ c.addr = l.bind /\ c.cluster = a.backend.id /\ c.index = a.index
         /\ c.source = ParentSource(a.route, a.ref)
BY DEF L4Claim

(* The claims of the caches. *)
ClaimsOf(objs) == L4Claims(L4Attachments(objs, BuiltGateways(objs)))

(* Every claim is an attachment's, to a cluster of a Service that was resolved. *)
LEMMA ClaimsResolved ==
  ASSUME NEW objs, Cached(objs)
  PROVE  LET l4 == L4Attachments(objs, BuiltGateways(objs)) IN
         /\ IsList(ClaimsOf(objs))
         /\ \A c \in Range(ClaimsOf(objs)) :
              /\ IsClaim(c.source) /\ c.cluster \in {r.id : r \in L4Services(l4)}
              /\ \E a \in Range(l4) : c.source = ParentSource(a.route, a.ref) /\ c.index = a.index
<1> DEFINE l4 == L4Attachments(objs, BuiltGateways(objs))
<1>1. IsList(l4) /\ \A a \in Range(l4) : IsList(a.admitting) /\ IsClaim(a.route)
  BY L4AttachmentsMade, L4AttachmentParts
<1> HIDE DEF l4
<1>2. /\ IsList(L4Claims(l4))
      /\ \A c : c \in Range(L4Claims(l4)) <=> \E a \in Range(l4) : a.backend.err = {} /\
           \E l \in Range(Programmed(a.admitting)) : c = L4Claim(a, l)
  BY <1>1, ClaimsAre
<1>3. ASSUME NEW c \in Range(L4Claims(l4))
      PROVE  /\ IsClaim(c.source) /\ c.cluster \in {r.id : r \in L4Services(l4)}
             /\ \E a \in Range(l4) : c.source = ParentSource(a.route, a.ref) /\ c.index = a.index
  <2>1. PICK a \in Range(l4) : a.backend.err = {} /\ \E l \in Range(Programmed(a.admitting)) : c = L4Claim(a, l)
    BY <1>2
  <2>2. PICK l \in Range(Programmed(a.admitting)) : c = L4Claim(a, l)
    BY <2>1
  <2>3. c.cluster = a.backend.id /\ c.index = a.index /\ c.source = ParentSource(a.route, a.ref)
    BY <2>2, ClaimFields
  <2>4. IsClaim(c.source)
    BY <1>1, <2>3 DEF IsClaim, ParentSource, Source
  <2>5. a.admitting # <<>>
    BY <1>1, ProgrammedList, Nothing
  <2>6. a.backend \in L4Services(l4)
    BY <2>1, <2>5 DEF L4Services
  <2> QED
    BY <2>3, <2>4, <2>6
<1> QED
  BY <1>2, <1>3 DEF ClaimsOf, l4

(* Who holds a socket is told by its address. *)
LEMMA HolderOfKey ==
  ASSUME NEW claims, NEW i, NEW j, L4Key(claims[i]) = L4Key(claims[j])
  PROVE  Holder(claims, i) = Holder(claims, j)
<1> DEFINE H(key) ==
      CHOOSE h \in DOMAIN claims :
        /\ L4Key(claims[h]) = key
        /\ \A k \in DOMAIN claims : L4Key(claims[k]) = key =>
             \/ Older(claims[h].source, claims[k].source)
             \/ ~Older(claims[k].source, claims[h].source) /\ h <= k
<1>1. Holder(claims, i) = H(L4Key(claims[i])) /\ Holder(claims, j) = H(L4Key(claims[j]))
  BY DEF Holder
<1> HIDE DEF H
<1> QED
  BY <1>1

(* A socket has a holder, and nobody who claims it is older. *)
LEMMA HolderHolds ==
  ASSUME NEW claims, IsList(claims), \A c \in Range(claims) : IsClaim(c.source), NEW i \in DOMAIN claims
  PROVE  LET j == Holder(claims, i) IN
         /\ j \in DOMAIN claims /\ L4Key(claims[j]) = L4Key(claims[i]) /\ Holder(claims, j) = j
         /\ \A k \in DOMAIN claims : L4Key(claims[k]) = L4Key(claims[i]) => ~Older(claims[k].source, claims[j].source)
<1> DEFINE n == Len(claims)
           sources == [k \in DOMAIN claims |-> claims[k].source]
           S == {k \in DOMAIN claims : L4Key(claims[k]) = L4Key(claims[i])}
           above == ClaimOrder(sources)
           First(j) == /\ L4Key(claims[j]) = L4Key(claims[i])
                       /\ \A k \in DOMAIN claims : L4Key(claims[k]) = L4Key(claims[i]) =>
                            \/ Older(claims[j].source, claims[k].source)
                            \/ ~Older(claims[k].source, claims[j].source) /\ j <= k
<1>1. n \in Nat /\ DOMAIN claims = 1..n /\ \A k \in 1..n : claims[k] \in Range(claims)
  BY ListFields
<1>2. DOMAIN sources = 1..n /\ \A k \in 1..n : IsClaim(sources[k]) /\ sources[k] = claims[k].source
  BY <1>1
<1>3. \A k, l \in 1..n : <<k, l>> \in above <=>
        Older(claims[k].source, claims[l].source) \/ (~Older(claims[l].source, claims[k].source) /\ k < l)
  BY <1>1 DEF ClaimOrder
<1> HIDE DEF sources, n
<1>4. TotalOrder(above, 1..n)
  BY <1>1, <1>2, ClaimOrderTotal
<1>5. IsFiniteSet(S) /\ S # {} /\ S \subseteq 1..n
  <2>1. IsFiniteSet(1..n)
    BY <1>1, FS_Interval
  <2>2. S \subseteq 1..n /\ i \in S
    BY <1>1
  <2> HIDE DEF S
  <2> QED
    BY <2>1, <2>2, FS_Subset
<1>6. \A k \in 1..n : ~Older(claims[k].source, claims[k].source)
  BY <1>1, <1>2 DEF Older, IsClaim, NoStamp
<1>7. \E e \in DOMAIN claims : First(e)
  <2>1. /\ \A d, e \in S : d # e => <<d, e>> \in above \/ <<e, d>> \in above
        /\ \A c, d, e \in S : <<c, d>> \in above /\ <<d, e>> \in above => <<c, e>> \in above
    BY <1>4, <1>5 DEF TotalOrder
  <2>2. \E e \in S : \A d \in S \ {e} : <<e, d>> \in above
    <3> HIDE DEF S, above
    <3> QED
      BY <1>5, <2>1, GreatestExists
  <2>3. PICK e \in S : \A d \in S \ {e} : <<e, d>> \in above
    BY <2>2
  <2>4. ASSUME NEW k \in DOMAIN claims, L4Key(claims[k]) = L4Key(claims[i])
        PROVE  \/ Older(claims[e].source, claims[k].source)
               \/ ~Older(claims[k].source, claims[e].source) /\ e <= k
    <3>0. e \in 1..n /\ k \in 1..n
      BY <1>1, <1>5
    <3>1. CASE k = e
      BY <1>1, <1>6, <3>0, <3>1
    <3>2. CASE k # e
      <4>1. <<e, k>> \in above
        BY <2>3, <2>4, <3>2
      <4> QED
        BY <1>1, <1>3, <3>0, <4>1
    <3> QED
      BY <3>1, <3>2
  <2> QED
    BY <2>4
<1> DEFINE j == Holder(claims, i)
<1>8. j \in DOMAIN claims /\ First(j)
  <2>1. j = CHOOSE e \in DOMAIN claims : First(e)
    BY DEF Holder
  <2> HIDE DEF First, j
  <2> QED
    BY <1>7, <2>1
<1> HIDE DEF j
<1>9. ASSUME NEW k \in DOMAIN claims, L4Key(claims[k]) = L4Key(claims[i])
      PROVE  ~Older(claims[k].source, claims[j].source)
  <2>1. IsClaim(claims[j].source) /\ IsClaim(claims[k].source)
    BY <1>1, <1>8
  <2>2. ~(Older(claims[j].source, claims[k].source) /\ Older(claims[k].source, claims[j].source))
    BY <2>1 DEF Older, IsClaim, NoStamp
  <2> QED
    BY <1>8, <1>9, <2>2
<1>10. Holder(claims, j) = j
  BY <1>8, HolderOfKey DEF j
<1> QED
  BY <1>8, <1>9, <1>10 DEF j

(* A socket routes to one cluster. *)
LEMMA SocketsApart ==
  ASSUME NEW claims, NEW f \in L4Frontends(claims), NEW g \in L4Frontends(claims), L4Key(f) = L4Key(g)
  PROVE  f = g
<1> DEFINE made(i) == [proto |-> claims[i].proto, addr |-> claims[i].addr, cluster |-> claims[i].cluster]
<1>1. PICK i \in DOMAIN claims : f = made(i) /\ Holder(claims, i) = i
  BY DEF L4Frontends
<1>2. PICK j \in DOMAIN claims : g = made(j) /\ Holder(claims, j) = j
  BY DEF L4Frontends
<1>3. L4Key(f) = L4Key(claims[i]) /\ L4Key(g) = L4Key(claims[j])
  BY <1>1, <1>2 DEF L4Key
<1>4. i = j
  BY <1>1, <1>2, <1>3, HolderOfKey
<1> QED
  BY <1>1, <1>2, <1>4

-----------------------------------------------------------------------------
(* What a build is made of. *)

(* What the caches ask for, and the Services it resolves to. *)
FrontendsOf(objs) == IngressFrontends(BuiltIngresses(objs)) \o HttpFrontends(HttpAttachments(objs, BuiltGateways(objs)))

WebServices(objs) == IngressServices(BuiltIngresses(objs)) \cup HttpServices(HttpAttachments(objs, BuiltGateways(objs)))

AllServices(objs) == WebServices(objs) \cup L4Services(L4Attachments(objs, BuiltGateways(objs)))

RoutesOf(objs) == Arbitrated(ByClaim(FrontendsOf(objs)), Kept(ByClaim(FrontendsOf(objs))))

ClustersBuilt(objs) == Clusters(AllServices(objs), WebServices(objs))

(* The parts of the output that arbitration decides. *)
LEMMA BuildParts ==
  ASSUME NEW objs
  PROVE  LET b == Build(objs) IN
         /\ b.ir.frontends = RoutesOf(objs).frontends /\ b.ir.l4 = L4Frontends(ClaimsOf(objs))
         /\ b.ir.backends = Backends(objs, AllServices(objs))
         /\ b.ir.clusters = SettledClusters(ClustersBuilt(objs), RoutesOf(objs).proxied, L4Carriers(ClaimsOf(objs)))
         /\ b.asked = Range(FrontendsOf(objs)) /\ b.claims = Range(ClaimsOf(objs))
         /\ b.carriers = L4Carriers(ClaimsOf(objs))
         /\ b.served = {[frontend |-> s.frontend, source |-> s.source] : s \in RoutesOf(objs).served}
BY Zenon DEF Build, BuildOn, Attached, Arbitrate, Settled, Output, Collected, FrontendsOf, WebServices, AllServices,
   RoutesOf, ClustersBuilt, ClaimsOf

(* What is asked for can be loaded, and an Ingress or a route at a parentRef asks for it. *)
LEMMA FrontendsLoad ==
  ASSUME NEW objs, Cached(objs)
  PROVE  LET http == HttpAttachments(objs, BuiltGateways(objs)) IN
         /\ IsList(FrontendsOf(objs))
         /\ \A s \in Range(FrontendsOf(objs)) :
              /\ Loadable(s, AllServices(objs)) /\ IsSourced(s)
              /\ \/ \E b \in Range(BuiltIngresses(objs)) : s.source = Source(b.ingress, NoRef)
                 \/ \E a \in Range(http) : s.source = ParentSource(a.route, a.ref)
         /\ \A s : s \in Range(FrontendsOf(objs)) <=>
              \/ s \in Range(IngressFrontends(BuiltIngresses(objs))) \/ s \in Range(HttpFrontends(http))
<1> DEFINE http == HttpAttachments(objs, BuiltGateways(objs))
           built == BuiltIngresses(objs)
           x == IngressFrontends(built)
           y == HttpFrontends(http)
           all == AllServices(objs)
<1>1. /\ IsList(x)
      /\ \A s \in Range(x) : Loadable(s, IngressServices(built)) /\ \E b \in Range(built) : s.source = Source(b.ingress, NoRef)
  BY IngressFrontendsAre, IngressFrontendsLoad
<1>2. /\ IsList(y)
      /\ \A s \in Range(y) : Loadable(s, HttpServices(http)) /\ \E a \in Range(http) : s.source = ParentSource(a.route, a.ref)
  BY HttpFrontendsAre, HttpFrontendsLoad
<1>3. IngressServices(built) \subseteq all /\ HttpServices(http) \subseteq all
  BY DEF AllServices, WebServices
<1>4. FrontendsOf(objs) = x \o y
  BY DEF FrontendsOf
<1> HIDE DEF x, y, all, built, http
<1>5. \A s, few : few \subseteq all /\ Loadable(s, few) => Loadable(s, all)
  BY DEF Loadable
<1>6. \A s : Loadable(s, all) => IsSourced(s)
  BY DEF Loadable
<1>7. IsList(x \o y) /\ Range(x \o y) = Range(x) \cup Range(y)
  BY <1>1, <1>2, ListsJoined
<1> QED
  BY <1>1, <1>2, <1>3, <1>4, <1>5, <1>6, <1>7 DEF x, y, all, built, http

(* The clusters of the IR are those of the Services resolved, with the check they keep. *)
LEMMA ClustersOf ==
  ASSUME NEW all, NEW http, NEW proxied, NEW carriers
  PROVE  LET probed == (CarriedBy(carriers, "TCP") \cup {p.cluster : p \in proxied}) \ CarriedBy(carriers, "UDP")
             settled == SettledClusters(Clusters(all, http), proxied, carriers)
         IN /\ \A r \in all : r.id \in {c.id : c \in settled}
            /\ \A c \in settled : \E r \in all :
                 /\ c.id = r.id
                 /\ c.check = IF c.id \in probed /\ HealthCheck(The(r.svc)) = "tcp" THEN "tcp" ELSE None
<1> DEFINE probed == (CarriedBy(carriers, "TCP") \cup {p.cluster : p \in proxied}) \ CarriedBy(carriers, "UDP")
           settled == SettledClusters(Clusters(all, http), proxied, carriers)
           http2(r) == \E q \in http : q.id = r.id /\ "h2c" \in AppProtocol(q)
           check(r) == IF HealthCheck(The(r.svc)) = "tcp" THEN "tcp" ELSE None
           made(r) == [id |-> r.id, config |-> The(r.svc).config, check |-> check(r), http2 |-> http2(r)]
           settle(c) == [c EXCEPT !.check = IF c.id \in probed THEN c.check ELSE None]
<1>1. /\ \A r \in all : settle(made(r)) \in settled
      /\ \A c \in settled : \E r \in all : c = settle(made(r))
  <2>1. Clusters(all, http) = {made(r) : r \in all}
    BY DEF Clusters
  <2>2. settled = {settle(c) : c \in Clusters(all, http)}
    BY Zenon DEF SettledClusters
  <2> HIDE DEF made, settle, settled
  <2> QED
    BY <2>1, <2>2
<1> HIDE DEF check, http2, probed
<1>2. \A r : settle(made(r)).id = r.id /\ settle(made(r)).check = IF r.id \in probed THEN check(r) ELSE None
  OBVIOUS
<1> HIDE DEF made, settle, settled
<1>3. \A r \in all : r.id \in {c.id : c \in settled}
  BY <1>1, <1>2
<1>4. ASSUME NEW c \in settled
      PROVE  \E r \in all : c.id = r.id /\ c.check = IF c.id \in probed /\ HealthCheck(The(r.svc)) = "tcp" THEN "tcp" ELSE None
  <2>1. PICK r \in all : c = settle(made(r))
    BY <1>1
  <2>2. c.id = r.id /\ c.check = IF r.id \in probed THEN check(r) ELSE None
    BY <1>2, <2>1
  <2> QED
    BY <2>2 DEF check
<1> QED
  BY <1>3, <1>4 DEF probed, settled

(* Any build translates. *)
LEMMA BuildLoads ==
  ASSUME NEW objs, Cached(objs)
  PROVE  LET ir == Build(objs).ir
             F == ir.frontends
         IN /\ ~L4Conflict(ir) /\ ~UnknownCluster(ir)
            /\ \A i, j \in DOMAIN F : RouteKey(F[i]) = RouteKey(F[j]) => i = j
            /\ \A i \in DOMAIN F : ~HostnameRefusal(F[i].host) /\ ~PathRefusal(F[i].path)
<1> DEFINE fs == FrontendsOf(objs)
           all == AllServices(objs)
           claims == ClaimsOf(objs)
           ir == Build(objs).ir
           F == ir.frontends
<1>1. /\ ir.frontends = Arbitrated(ByClaim(fs), Kept(ByClaim(fs))).frontends
      /\ ir.l4 = L4Frontends(claims) /\ ir.backends = Backends(objs, all)
      /\ ir.clusters = SettledClusters(Clusters(all, WebServices(objs)), RoutesOf(objs).proxied, L4Carriers(claims))
  BY BuildParts DEF RoutesOf, ClustersBuilt
<1>2. IsList(fs) /\ \A s \in Range(fs) : Loadable(s, all) /\ IsSourced(s)
  BY FrontendsLoad
<1>3. IsList(claims) /\ \A c \in Range(claims) : c.cluster \in {r.id : r \in all}
  BY ClaimsResolved DEF AllServices
<1> HIDE DEF fs, all, claims, ir
<1>4. /\ \A i, j \in DOMAIN F : RouteKey(F[i]) = RouteKey(F[j]) => i = j
      /\ \A i \in DOMAIN F : \E s \in Range(fs) :
           F[i].host = s.frontend.host /\ F[i].path = s.frontend.path /\ F[i].cluster = s.frontend.cluster
  BY <1>1, <1>2, RoutesApart
<1> HIDE DEF F
<1>5. \A i \in DOMAIN F : ~HostnameRefusal(F[i].host) /\ ~PathRefusal(F[i].path)
                          /\ F[i].cluster \in {NoCluster} \cup {r.id : r \in all}
  BY <1>2, <1>4 DEF Loadable
<1>6. ~L4Conflict(ir)
  BY <1>1, SocketsApart DEF L4Conflict
<1> DEFINE ids == {c.id : c \in ir.clusters}
<1>7. {r.id : r \in all} \subseteq ids
  BY <1>1, ClustersOf
<1> HIDE DEF ids
<1>8. {f.cluster : f \in ir.l4} \subseteq ids
  <2>1. \A f \in L4Frontends(claims) : \E i \in DOMAIN claims : f.cluster = claims[i].cluster
    BY DEF L4Frontends
  <2>2. \A i \in DOMAIN claims : claims[i] \in Range(claims)
    BY <1>3, ListFields
  <2> QED
    BY <1>1, <1>3, <1>7, <2>1, <2>2
<1>9. {b.cluster : b \in ir.backends} \subseteq ids
  <2>1. \A b \in ir.backends : b.cluster \in {r.id : r \in all}
    BY <1>1 DEF Backends
  <2> QED
    BY <1>7, <2>1
<1>10. {F[i].cluster : i \in DOMAIN F} \ {NoCluster} \subseteq ids
  BY <1>5, <1>7
<1>11. ~UnknownCluster(ir)
  BY <1>8, <1>9, <1>10 DEF UnknownCluster, F, ids
<1> QED
  BY <1>4, <1>5, <1>6, <1>11 DEF F, ir

-----------------------------------------------------------------------------
(* Who keeps what is asked for twice. *)

(* Two claims are not older than each other. *)
LEMMA OlderOneWay ==
  ASSUME NEW a, NEW b, IsClaim(a), IsClaim(b), Older(a, b)
  PROVE  ~Older(b, a)
BY DEF Older, NoStamp, IsClaim

(* Sorted, all that is asked for is there, and nobody comes before an older one. *)
LEMMA ByClaimOrder ==
  ASSUME NEW fs, IsList(fs), \A s \in Range(fs) : IsSourced(s)
  PROVE  LET sorted == ByClaim(fs) IN
         /\ \A t \in Range(fs) : \E s \in Range(sorted) : s.frontend = t.frontend /\ s.source = t.source
         /\ \A s \in Range(sorted) : IsSourced(s)
         /\ \A i, k \in DOMAIN sorted : i < k => ~Older(sorted[k].source, sorted[i].source)
<1> DEFINE q == Numbered(fs)
           n == Len(fs)
           claims == [i \in DOMAIN fs |-> fs[i].source]
           sorted == ByClaim(fs)
<1>1. n \in Nat /\ DOMAIN fs = 1..n /\ \A i \in 1..n : fs[i] \in Range(fs)
  BY ListFields
<1>2. DOMAIN claims = 1..n /\ \A i \in 1..n : IsClaim(claims[i]) /\ claims[i] = fs[i].source
  BY <1>1 DEF IsSourced
<1>3. /\ DOMAIN q = 1..n
      /\ \A i \in 1..n : q[i].frontend = fs[i].frontend /\ q[i].source = fs[i].source
      /\ q = [i \in 1..n |-> q[i]]
  BY <1>1 DEF Numbered
<1>4. sorted = Sorted(q, ClaimOrder(claims))
  BY DEF ByClaim
<1>5. /\ IsList(sorted)
      /\ \A s \in Range(sorted) : \E t \in Range(fs) : s.frontend = t.frontend /\ s.source = t.source
  BY ByClaimList
<1> HIDE DEF q, claims, n, sorted
<1>6. IsList(q)
  BY <1>1, <1>3, IndexedList
<1>7. TotalOrder(ClaimOrder(claims), DOMAIN q)
  BY <1>1, <1>2, <1>3, ClaimOrderTotal
<1>8. Range(sorted) = Range(q) /\ DOMAIN sorted = 1..n
  <2>1. DOMAIN sorted = DOMAIN q
    BY <1>4 DEF Sorted
  <2> QED
    BY <1>3, <1>4, <1>6, <1>7, <2>1, SortedList
<1>9. \A t \in Range(fs) : \E s \in Range(sorted) : s.frontend = t.frontend /\ s.source = t.source
  <2>1. \A i \in DOMAIN q : q[i] \in Range(q)
    BY <1>6, ListFields
  <2>2. \A t \in Range(fs) : \E i \in 1..n : t = fs[i]
    BY ListFields DEF n
  <2> QED
    BY <1>3, <1>8, <2>1, <2>2
<1>10. PICK at : /\ \A k \in 1..n : at[k] \in 1..n /\ sorted[k] = q[at[k]]
                 /\ \A i, k \in 1..n : i < k => <<at[i], at[k]>> \in ClaimOrder(claims)
  BY <1>3, <1>4, <1>6, <1>7, SortedInOrder
<1>11. ASSUME NEW i \in 1..n, NEW k \in 1..n, i < k
       PROVE  ~Older(sorted[k].source, sorted[i].source)
  <2>1. sorted[k].source = claims[at[k]] /\ sorted[i].source = claims[at[i]]
    BY <1>2, <1>3, <1>10
  <2>2. <<at[i], at[k]>> \in ClaimOrder(claims)
    BY <1>10, <1>11
  <2>3. Older(claims[at[i]], claims[at[k]]) \/ ~Older(claims[at[k]], claims[at[i]])
    BY <2>2 DEF ClaimOrder
  <2> QED
    BY <1>2, <1>10, <2>1, <2>3, OlderOneWay
<1>12. \A s \in Range(sorted) : IsSourced(s)
  BY <1>5 DEF IsSourced
<1> QED
  BY <1>8, <1>9, <1>11, <1>12 DEF sorted

(* A key goes to one that asks for it, and to nobody before someone older. *)
LEMMA WinnerWins ==
  ASSUME NEW fs, IsList(fs), \A s \in Range(fs) : IsSourced(s), NEW s \in Range(ByClaim(fs))
  PROVE  LET sorted == ByClaim(fs)
             w == Winner(sorted, s)
         IN /\ w \in Range(Kept(sorted)) /\ w \in Range(sorted) /\ RouteKey(w.frontend) = RouteKey(s.frontend)
            /\ \A t \in Range(sorted) : RouteKey(t.frontend) = RouteKey(s.frontend) => ~Older(t.source, w.source)
<1> DEFINE sorted == ByClaim(fs)
           w == Winner(sorted, s)
           T == {j \in DOMAIN sorted : RouteKey(sorted[j].frontend) = RouteKey(s.frontend)}
           first == {sorted[i] : i \in {j \in DOMAIN sorted :
                       /\ RouteKey(sorted[j].frontend) = RouteKey(s.frontend)
                       /\ \A k \in 1..(j - 1) : ~(RouteKey(sorted[k].frontend) = RouteKey(s.frontend))}}
<1>1. IsList(sorted) /\ IsInjective(sorted)
  BY ByClaimList
<1>2. /\ \A t \in Range(sorted) : IsSourced(t)
      /\ \A i, k \in DOMAIN sorted : i < k => ~Older(sorted[k].source, sorted[i].source)
  BY ByClaimOrder
<1>3. w = CHOOSE x \in first : TRUE
  BY DEF Winner, FirstOf, The
<1> HIDE DEF sorted
<1>4. /\ Len(sorted) \in Nat /\ DOMAIN sorted = 1..Len(sorted)
      /\ \A i \in 1..Len(sorted) : sorted[i] \in Range(sorted)
      /\ \A t \in Range(sorted) : \E i \in 1..Len(sorted) : t = sorted[i]
  BY <1>1, ListFields
<1>5. T \in SUBSET Nat /\ T # {}
  BY <1>4 DEF sorted
<1>6. PICK j \in T : \A k \in T : ~(k < j)
  <2> HIDE DEF T
  <2> QED
    BY <1>5, LeastNat
<1>7. sorted[j] \in first
  <2>1. \A k \in 1..(j - 1) : k \in DOMAIN sorted /\ k < j
    BY <1>4, <1>6
  <2>2. \A k \in 1..(j - 1) : ~(RouteKey(sorted[k].frontend) = RouteKey(s.frontend))
    BY <1>6, <2>1
  <2> QED
    BY <1>6, <2>2
<1>8. w \in first
  <2> HIDE DEF first, w
  <2> QED
    BY <1>3, <1>7
<1>9. PICK i \in DOMAIN sorted : /\ w = sorted[i] /\ RouteKey(sorted[i].frontend) = RouteKey(s.frontend)
                                 /\ \A k \in 1..(i - 1) : ~(RouteKey(sorted[k].frontend) = RouteKey(s.frontend))
  BY <1>8
<1>10. Winner(sorted, w) = w
  BY <1>9, WinnerOfKey DEF w
<1> HIDE DEF w, first, T
<1>11. w \in Range(sorted) /\ w \in Range(Kept(sorted))
  <2> DEFINE won == {t \in Range(sorted) : Winner(sorted, t) = t}
  <2>1. w \in Range(sorted) /\ w \in won
    BY <1>4, <1>9, <1>10
  <2>2. Kept(sorted) = Filtered(sorted, won)
    BY DEF Kept
  <2> HIDE DEF won
  <2> QED
    BY <1>1, <2>1, <2>2, FilteredList
<1>12. ASSUME NEW t \in Range(sorted), RouteKey(t.frontend) = RouteKey(s.frontend)
       PROVE  ~Older(t.source, w.source)
  <2>1. PICK k \in DOMAIN sorted : t = sorted[k]
    BY <1>4
  <2>2. k \notin 1..(i - 1)
    BY <1>9, <1>12, <2>1
  <2>3. k = i \/ i < k
    BY <1>4, <2>2
  <2>4. IsClaim(w.source)
    BY <1>2, <1>11 DEF IsSourced
  <2>5. ~Older(w.source, w.source)
    BY <2>4, OlderOneWay
  <2> QED
    BY <1>2, <1>9, <2>1, <2>3, <2>5
<1> QED
  BY <1>9, <1>11, <1>12 DEF w, sorted

(* What is kept won its key. *)
LEMMA KeptWon ==
  ASSUME NEW sorted, IsList(sorted), NEW s \in Range(Kept(sorted))
  PROVE  s \in Range(sorted) /\ Winner(sorted, s) = s
<1> DEFINE won == {t \in Range(sorted) : Winner(sorted, t) = t}
<1>1. Kept(sorted) = Filtered(sorted, won)
  BY DEF Kept
<1>2. \A t \in won : Winner(sorted, t) = t
  OBVIOUS
<1> HIDE DEF won
<1>3. s \in Range(sorted) \cap won
  BY <1>1, FilteredList
<1> QED
  BY <1>2, <1>3

(* What is served was kept. *)
LEMMA ServedKept ==
  ASSUME NEW objs, Cached(objs), NEW s \in RoutesOf(objs).served
  PROVE  s \in Range(Kept(ByClaim(FrontendsOf(objs))))
<1> DEFINE sorted == ByClaim(FrontendsOf(objs))
           kept == Kept(sorted)
           lifted == Lift([i \in DOMAIN kept |-> kept[i].frontend])
<1>1. IsList(sorted) /\ IsInjective(sorted)
  BY FrontendsLoad, ByClaimList
<1>2. RoutesOf(objs).served = {kept[i] : i \in DOMAIN kept \ lifted.skipped}
  BY DEF RoutesOf, Arbitrated, Routed
<1> HIDE DEF sorted
<1>3. IsList(kept)
  BY <1>1, KeptApart
<1> HIDE DEF kept, lifted
<1>4. \A i \in DOMAIN kept : kept[i] \in Range(kept)
  BY <1>3, ListFields
<1> QED
  BY <1>2, <1>4 DEF kept, sorted

(* Nobody older asks for a key that is served. *)
LEMMA KeyHeld ==
  ASSUME NEW objs, Cached(objs), NEW s \in RoutesOf(objs).served, NEW t \in Range(FrontendsOf(objs)),
         RouteKey(s.frontend) = RouteKey(t.frontend)
  PROVE  ~Older(t.source, s.source)
<1> DEFINE fs == FrontendsOf(objs)
           sorted == ByClaim(fs)
<1>1. IsList(fs) /\ \A u \in Range(fs) : IsSourced(u)
  BY FrontendsLoad
<1>2. s \in Range(Kept(sorted))
  BY ServedKept
<1>3. IsList(sorted)
  BY <1>1, ByClaimList
<1>4. s \in Range(sorted) /\ Winner(sorted, s) = s
  BY <1>2, <1>3, KeptWon
<1> HIDE DEF fs
<1>5. PICK u \in Range(sorted) : u.frontend = t.frontend /\ u.source = t.source
  BY <1>1, ByClaimOrder DEF fs
<1>6. ~Older(u.source, s.source)
  BY <1>1, <1>4, <1>5, WinnerWins
<1> QED
  BY <1>5, <1>6

(* Nobody older loaded a certificate for a name than its claimant. *)
LEMMA NameHeld ==
  ASSUME NEW objs, Cached(objs), NEW c \in LoadedCerts(objs), NEW d \in LoadedCerts(objs),
         NEW name \in c.names, name \in d.names, c.listener = d.listener,
         Owner(c.source) = Claimant(LoadedCerts(objs), c.listener, name), Owner(c.source) # Owner(d.source)
  PROVE  ~Older(d.source, c.source)
<1> DEFINE certs == LoadedCerts(objs)
           rivals == Naming(certs, c.listener, name)
           First(e) == \A r \in rivals : Owner(e.source) = Owner(r.source) \/ Ahead(e.source, r.source)
           e == CHOOSE x \in rivals : First(x)
<1>1. Claims(certs) /\ rivals \subseteq certs /\ c \in rivals /\ d \in rivals
  BY LoadedCertsClaim DEF Naming
<1>2. Claims(rivals)
  BY <1>1 DEF Claims
<1>3. \E x \in rivals : First(x)
  <2> HIDE DEF rivals
  <2> QED
    BY <1>1, <1>2, FirstClaim
<1>4. e \in rivals /\ First(e)
  <2> HIDE DEF rivals, First
  <2> QED
    BY <1>3
<1>5. Claimant(certs, c.listener, name) = Owner(e.source)
  BY DEF Claimant
<1> HIDE DEF e
<1>6. Ahead(e.source, d.source)
  BY <1>1, <1>4, <1>5
<1> HIDE DEF rivals
<1>7. IsClaim(e.source) /\ IsClaim(d.source)
  BY <1>1, <1>4 DEF Claims, Claiming, IsClaim
<1>8. ~Older(d.source, e.source)
  BY <1>6, <1>7, OlderOneWay DEF Ahead
<1>9. LoadedBy(objs, c) /\ LoadedBy(objs, e)
  BY <1>1, <1>4, IngressCertsLoaded, GatewayCertsLoaded DEF LoadedCerts, Cached
<1>10. PICK o \in Range(objs) : /\ c.source.kind = o.kind /\ c.source.ns = o.ns /\ c.source.name = o.name
                                /\ c.source.at = o.at /\ c.source.text = o.text
  BY <1>9 DEF LoadedBy
<1>11. PICK p \in Range(objs) : /\ e.source.kind = p.kind /\ e.source.ns = p.ns /\ e.source.name = p.name
                                /\ e.source.at = p.at /\ e.source.text = p.text
  BY <1>9 DEF LoadedBy
<1>12. Owner(c.source) = Owner(e.source)
  BY <1>5
<1>13. Ident(o) = Ident(p)
  BY <1>10, <1>11, <1>12 DEF Owner, Ident
<1>14. o = p
  BY <1>13 DEF Cached
<1> QED
  BY <1>8, <1>10, <1>11, <1>14 DEF Older

(* Whom a socket is read to belong to. *)
Carrier(carriers, f) ==
  CHOOSE c \in carriers :
    L4Key(c) = L4Key(f) /\ \A d \in carriers : L4Key(d) = L4Key(f) => ~Older(d.source, c.source)

(* Nobody older claims a socket than a carrier of it. *)
LEMMA SocketHeld ==
  ASSUME NEW objs, Cached(objs), NEW f \in L4Frontends(ClaimsOf(objs)), NEW t \in Range(ClaimsOf(objs)),
         L4Key(f) = L4Key(t)
  PROVE  ~Older(t.source, Carrier(L4Carriers(ClaimsOf(objs)), f).source)
<1> DEFINE claims == ClaimsOf(objs)
           carriers == L4Carriers(claims)
           Eldest(c) == L4Key(c) = L4Key(f) /\ \A d \in carriers : L4Key(d) = L4Key(f) => ~Older(d.source, c.source)
           h == Carrier(carriers, f)
<1>1. IsList(claims) /\ \A c \in Range(claims) : IsClaim(c.source)
  BY ClaimsResolved
<1> HIDE DEF claims
<1>2. /\ Len(claims) \in Nat /\ DOMAIN claims = 1..Len(claims)
      /\ \A i \in DOMAIN claims : claims[i] \in Range(claims)
      /\ \A c \in Range(claims) : \E i \in DOMAIN claims : c = claims[i]
  BY <1>1, ListFields
<1>3. PICK i \in DOMAIN claims : /\ Holder(claims, i) = i
                                 /\ f = [proto |-> claims[i].proto, addr |-> claims[i].addr, cluster |-> claims[i].cluster]
  BY DEF L4Frontends, claims
<1>4. L4Key(f) = L4Key(claims[i])
  BY <1>3 DEF L4Key
<1>5. \A k \in DOMAIN claims : L4Key(claims[k]) = L4Key(f) => ~Older(claims[k].source, claims[i].source)
  BY <1>1, <1>3, <1>4, HolderHolds
<1>6. claims[i] \in carriers /\ carriers \subseteq Range(claims)
  BY <1>2, <1>3 DEF L4Carriers
<1> HIDE DEF carriers
<1>7. Eldest(claims[i])
  BY <1>2, <1>4, <1>5, <1>6
<1>8. h \in carriers /\ Eldest(h)
  <2>1. h = CHOOSE c \in carriers : Eldest(c)
    BY DEF Carrier
  <2> HIDE DEF Eldest, h
  <2> QED
    BY <1>6, <1>7, <2>1
<1> HIDE DEF h
<1>9. PICK k \in DOMAIN claims : t = claims[k]
  BY <1>2 DEF claims
<1>10. ~Older(t.source, claims[i].source) /\ ~Older(claims[i].source, h.source)
  BY <1>4, <1>5, <1>6, <1>8, <1>9
<1>11. IsClaim(t.source) /\ IsClaim(claims[i].source) /\ IsClaim(h.source)
  BY <1>1, <1>2, <1>6, <1>8, <1>9
<1> QED
  BY <1>10, <1>11, OlderGoesOn DEF h, carriers, claims

-----------------------------------------------------------------------------
(* The caches and the last build. *)

(* An object of the family, with a time of its own. *)
Dated(f) == {[o EXCEPT !.at = at] : o \in f.pool, at \in Nat}

(* What the reflectors hold are objects of the family, each once, and the build is of what they hold. *)
CacheInv ==
  /\ family \in Families /\ IsFiniteSet(held) /\ held \subseteq Dated(family)
  /\ \A g, h \in held : Ident(g) = Ident(h) => g = h
  /\ out = Build(live)

(* A listing, or its reverse, is a sequence of what the base and the set have. *)
LEMMA ListedAll ==
  ASSUME NEW objs, IsFiniteSet(objs), NEW reversed, family \in Families
  PROVE  LET l == Listed(objs, reversed)
             all == Range(family.base) \cup objs
         IN l \in Seq(all) /\ Range(l) = all /\ IsFiniteSet(all)
<1> DEFINE all == Range(family.base) \cup objs
           b == family.base
           q == AsSequence(objs)
           l == b \o q
           r == Reverse(l)
<1>1. b \in Seq(all) /\ Len(b) \in Nat /\ DOMAIN b = 1..Len(b) /\ \A i \in 1..Len(b) : b[i] \in all
  <2>1. PICK X : b \in Seq(X)
    BY FamiliesAssumption
  <2>2. Len(b) \in Nat /\ DOMAIN b = 1..Len(b) /\ b \in [1..Len(b) -> X]
    BY <2>1
  <2>3. \A i \in 1..Len(b) : b[i] \in all
    BY <2>2 DEF Range
  <2>4. b \in [1..Len(b) -> all]
    BY <2>2, <2>3
  <2> QED
    BY <2>2, <2>3, <2>4
<1>2. q \in Seq(objs) /\ Len(q) \in Nat /\ \A x \in objs : \E i \in 1..Len(q) : q[i] = x
  BY AsSequenceLists DEF Lists
<1>3. q \in Seq(all) /\ \A i \in 1..Len(q) : q[i] \in objs
  BY <1>2
<1> HIDE DEF b, q
<1>4. /\ l \in Seq(all) /\ Len(l) = Len(b) + Len(q)
      /\ \A i \in 1..Len(b) : l[i] = b[i]
      /\ \A i \in 1..Len(q) : l[Len(b) + i] = q[i]
  BY <1>1, <1>2, <1>3
<1>5. DOMAIN l = 1..Len(l) /\ Len(l) \in Nat /\ \A i \in 1..Len(l) : l[i] \in all
  BY <1>4
<1> HIDE DEF l
<1>6. Range(l) = all
  <2>1. Range(l) \subseteq all
    BY <1>5 DEF Range
  <2>2. ASSUME NEW x \in Range(b) PROVE x \in Range(l)
    <3>1. PICK i \in 1..Len(b) : x = b[i]
      BY <1>1 DEF Range
    <3>2. i \in 1..Len(l) /\ l[i] = x
      BY <1>1, <1>2, <1>4, <3>1
    <3> QED
      BY <1>5, <3>2 DEF Range
  <2>3. ASSUME NEW x \in objs PROVE x \in Range(l)
    <3>1. PICK i \in 1..Len(q) : q[i] = x
      BY <1>2
    <3>2. Len(b) + i \in 1..Len(l)
      BY <1>1, <1>2, <1>4
    <3>3. l[Len(b) + i] = x
      BY <1>4, <3>1
    <3> QED
      BY <1>5, <3>2, <3>3 DEF Range
  <2> QED
    BY <2>1, <2>2, <2>3 DEF b
<1>7. IsFiniteSet(all)
  <2>1. IsFiniteSet(1..Len(b))
    BY <1>1, FS_Interval
  <2>2. b \in Surjection(1..Len(b), Range(b))
    <3>0. b \in [1..Len(b) -> all]
      BY <1>1
    <3>1. b \in [1..Len(b) -> Range(b)]
      BY <1>1, <3>0 DEF Range
    <3>2. \A x \in Range(b) : \E i \in 1..Len(b) : b[i] = x
      BY <1>1 DEF Range
    <3> QED
      BY <3>1, <3>2 DEF Surjection
  <2>3. IsFiniteSet(Range(b))
    BY <2>1, <2>2, FS_Surjection
  <2> QED
    BY <2>3, FS_Union DEF b
<1>8. r \in Seq(all) /\ Range(r) = all
  <2>1. r = [i \in 1..Len(l) |-> l[(Len(l) - i) + 1]]
    BY DEF Reverse
  <2>2. \A i \in 1..Len(l) : (Len(l) - i) + 1 \in 1..Len(l) /\ (Len(l) - ((Len(l) - i) + 1)) + 1 = i
    BY <1>5
  <2>3. \A i \in 1..Len(l) : r[i] \in all
    BY <1>5, <2>1, <2>2
  <2>4. r \in [1..Len(l) -> all]
    BY <2>1, <2>3
  <2>5. r \in Seq(all)
    BY <1>5, <2>4
  <2>6. \A i \in 1..Len(l) : \E j \in 1..Len(l) : r[j] = l[i]
    BY <2>1, <2>2
  <2>7. DOMAIN r = 1..Len(l)
    BY <2>1
  <2> HIDE DEF r
  <2>8. all \subseteq Range(r)
    BY <1>5, <1>6, <2>6, <2>7 DEF Range
  <2>9. Range(r) \subseteq all
    BY <2>3, <2>7 DEF Range
  <2> QED
    BY <2>5, <2>8, <2>9
<1> QED
  BY <1>4, <1>6, <1>7, <1>8 DEF Listed, l, b, q, r

(* An object keeps what it is when it is given its time. *)
LEMMA DatedFields ==
  ASSUME NEW o, WellFormed(o), NEW at \in Nat
  PROVE  LET p == [o EXCEPT !.at = at] IN
         /\ WellFormed(p) /\ p.at = at
         /\ p.kind = o.kind /\ p.ns = o.ns /\ p.name = o.name /\ p.text = o.text
<1> DEFINE p == [o EXCEPT !.at = at]
<1>1. DOMAIN p = DOMAIN o /\ p.at = at /\ \A k \in DOMAIN o : k # "at" => p[k] = o[k]
  BY DEF WellFormed
<1>2. p.kind = o.kind /\ p.ns = o.ns /\ p.name = o.name /\ p.text = o.text
  BY <1>1 DEF WellFormed
<1> HIDE DEF p
<1>3. WellFormed(p)
  <2>1. p.kind = "Secret" => {"chain", "pem"} \subseteq DOMAIN p /\ p.chain \in Nat /\ p.pem \in Nat
    BY <1>1, <1>2 DEF WellFormed
  <2>2. p.kind = "Gateway" => "listeners" \in DOMAIN p /\ IsList(p.listeners)
    BY <1>1, <1>2 DEF WellFormed
  <2>3. p.kind \in {"HTTPRoute", "TCPRoute", "UDPRoute"} => "parents" \in DOMAIN p /\ IsList(p.parents)
    BY <1>1, <1>2 DEF WellFormed
  <2>4. p.kind = "Ingress" => "rules" \in DOMAIN p /\ IngressLists(p)
    <3>1. o.kind = "Ingress" => "rules" \in DOMAIN o /\ IngressLists(o)
      BY DEF WellFormed
    <3> QED
      BY <1>1, <1>2, <3>1 DEF IngressLists
  <2>5. p.kind = "HTTPRoute" => {"hosts", "rules"} \subseteq DOMAIN p /\ HttpRouteLists(p)
    <3>1. o.kind = "HTTPRoute" => {"hosts", "rules"} \subseteq DOMAIN o /\ HttpRouteLists(o)
      BY DEF WellFormed
    <3> QED
      BY <1>1, <1>2, <3>1 DEF HttpRouteLists
  <2>6. {"kind", "ns", "name", "at", "text"} \subseteq DOMAIN p /\ p.at \in Nat /\ p.text \in Nat
    BY <1>1, <1>2 DEF WellFormed
  <2> QED
    BY <2>1, <2>2, <2>3, <2>4, <2>5, <2>6 DEF WellFormed
<1> QED
  BY <1>1, <1>2, <1>3 DEF p

(* What the caches list can be built from. *)
LEMMA CachesAreCached ==
  ASSUME CacheInv
  PROVE  Cached(live)
<1> DEFINE objects == Range(family.base) \cup family.pool
           all == Range(family.base) \cup held
<1>0. /\ \A o \in objects : WellFormed(o)
      /\ \A o, p \in objects : o.kind \in DatedKinds /\ p.kind \in DatedKinds /\ o.text = p.text =>
           o.ns = p.ns /\ o.name = p.name
  BY FamiliesAssumption DEF CacheInv
<1>1. Range(live) = all /\ IsFiniteSet(all) /\ IsList(live)
  BY ListedAll DEF CacheInv, live, IsList
<1>2. \A o \in all : \E p \in objects :
        WellFormed(o) /\ o.kind = p.kind /\ o.ns = p.ns /\ o.name = p.name /\ o.text = p.text
  <2> SUFFICES ASSUME NEW o \in held
               PROVE  \E p \in objects :
                        WellFormed(o) /\ o.kind = p.kind /\ o.ns = p.ns /\ o.name = p.name /\ o.text = p.text
    BY <1>0
  <2>1. PICK p \in family.pool, at \in Nat : o = [p EXCEPT !.at = at]
    BY DEF CacheInv, Dated
  <2> QED
    BY <1>0, <2>1, DatedFields
<1> HIDE DEF all, objects
<1>3. \A o \in Range(live) : WellFormed(o)
  BY <1>1, <1>2
<1>4. \A o, p \in {q \in Range(live) : q.kind \in DatedKinds} :
       o.text = p.text => o.ns = p.ns /\ o.name = p.name
  BY <1>0, <1>1, <1>2
<1>5. ASSUME NEW o \in Range(live), NEW p \in Range(live), Ident(o) = Ident(p)
      PROVE  o = p
  <2>1. \A q \in held : \E v \in family.pool : Ident(v) = Ident(q)
    <3> SUFFICES ASSUME NEW q \in held
                 PROVE  \E v \in family.pool : Ident(v) = Ident(q)
      OBVIOUS
    <3>1. PICK v \in family.pool, at \in Nat : q = [v EXCEPT !.at = at]
      BY DEF CacheInv, Dated
    <3>2. q.kind = v.kind /\ q.ns = v.ns /\ q.name = v.name
      BY <1>0, <3>1, DatedFields DEF objects
    <3> QED
      BY <3>2 DEF Ident
  <2>2. \A q \in Range(family.base), v \in objects : Ident(q) = Ident(v) => q = v /\ q \notin family.pool
    BY FamiliesAssumption DEF CacheInv, objects
  <2>3. o \in Range(family.base) \cup held /\ p \in Range(family.base) \cup held
    BY <1>1 DEF all
  <2> QED
    BY <1>5, <2>1, <2>2, <2>3 DEF CacheInv, objects
<1> QED
  BY <1>1, <1>3, <1>4, <1>5 DEF Cached

(* At first they hold the base, and the build is of it. *)
LEMMA CacheInit ==
  ASSUME Init
  PROVE  CacheInv
<1>1. family \in Families /\ held = {} /\ flipped = FALSE /\ out = Build(family.base)
  BY DEF Init
<1>2. PICK X : family.base \in Seq(X)
  BY <1>1, FamiliesAssumption
<1>3. AsSequence({}) = <<>>
  <2>1. AsSequence({}) \in Seq({})
    BY FS_EmptySet, AsSequenceLists DEF Lists
  <2> QED
    BY <2>1
<1>4. live = family.base
  BY <1>1, <1>2, <1>3 DEF live, Listed
<1> QED
  BY <1>1, <1>4, FS_EmptySet DEF CacheInv

(* Every event rebuilds from what is held after it. *)
LEMMA CacheStep ==
  ASSUME CacheInv, [Next]_vars
  PROVE  CacheInv'
<1>1. CASE UNCHANGED vars
  BY <1>1 DEF CacheInv, vars, live, Listed
<1>2. ASSUME Rebuild, IsFiniteSet(held'), held' \subseteq Dated(family),
             \A g, h \in held' : Ident(g) = Ident(h) => g = h
      PROVE  CacheInv'
  <2>1. family' = family /\ out' = Build(Listed(held', flipped'))
    BY <1>2 DEF Rebuild
  <2>2. live' = Listed(held', flipped')
    BY <2>1 DEF live, Listed
  <2> QED
    BY <1>2, <2>1, <2>2 DEF CacheInv
<1>0. /\ family.stamps \subseteq Nat /\ NoStamp \in Nat
      /\ \A o \in family.pool : WellFormed(o)
  BY FamiliesAssumption DEF CacheInv, NoStamp
<1>3. CASE Observe
  <2>1. PICK o \in family.pool, at \in Nat :
          held' = held \cup {[o EXCEPT !.at = at]} /\ \A h \in held : Ident(h) # Ident(o)
    BY <1>0, <1>3 DEF Observe
  <2>4. Ident([o EXCEPT !.at = at]) = Ident(o)
    BY <1>0, DatedFields DEF Ident
  <2>5. \A g, h \in held' : Ident(g) = Ident(h) => g = h
    BY <2>1, <2>4 DEF CacheInv
  <2>2. IsFiniteSet(held')
    BY <2>1, FS_AddElement DEF CacheInv
  <2>3. held' \subseteq Dated(family)
    BY <2>1 DEF CacheInv, Dated
  <2> QED
    BY <1>2, <1>3, <2>2, <2>3, <2>5 DEF Observe
<1>4. CASE Modify
  <2>1. PICK o \in family.pool, h \in held :
          held' = (held \ {h}) \cup {[o EXCEPT !.at = h.at]} /\ Ident(h) = Ident(o)
    BY <1>4 DEF Modify
  <2>5. PICK q \in family.pool, at \in Nat : h = [q EXCEPT !.at = at]
    BY DEF CacheInv, Dated
  <2>2. h.at \in Nat
    BY <1>0, <2>5, DatedFields
  <2>3. held' \subseteq Dated(family)
    BY <2>1, <2>2 DEF CacheInv, Dated
  <2>4. IsFiniteSet(held')
    BY <2>1, FS_AddElement, FS_RemoveElement DEF CacheInv
  <2>6. Ident([o EXCEPT !.at = h.at]) = Ident(o)
    BY <1>0, <2>2, DatedFields DEF Ident
  <2>7. \A g, e \in held' : Ident(g) = Ident(e) => g = e
    BY <2>1, <2>6 DEF CacheInv
  <2> QED
    BY <1>2, <1>4, <2>3, <2>4, <2>7 DEF Modify
<1>5. CASE Disappear
  <2>1. PICK h \in held : held' = held \ {h}
    BY <1>5 DEF Disappear
  <2> QED
    BY <1>2, <1>5, <2>1, FS_RemoveElement DEF Disappear, CacheInv
<1>6. CASE Relist
  BY <1>2, <1>6 DEF Relist, CacheInv
<1> QED
  BY <1>1, <1>3, <1>4, <1>5, <1>6 DEF Next

(* The caches hold objects of the family and the last build is of them. *)
LEMMA BuildFollowsCaches == Spec => []CacheInv
<1>1. Init => CacheInv
  BY CacheInit
<1>2. CacheInv /\ [Next]_vars => CacheInv'
  BY CacheStep
<1> QED
  BY <1>1, <1>2, PTL DEF Spec

(* What a build says of certificates. *)
LEMMA BuildCerts ==
  ASSUME NEW objs
  PROVE  /\ Build(objs).certs = LoadedCerts(objs)
         /\ Build(objs).ir.certs = MergedCerts(LoadedCerts(objs))
BY DEF Build, BuildOn, Attached, Arbitrate, Settled, Output, Collected, LoadedCerts

(* Every SNI name some certificate was loaded for is served, by certificates that one claimant *)
(* loaded for it, and a leaf with the longest chain any Secret has for it, whatever objects    *)
(* meet (arbitrate_certificate_names, merge_certificates).                                      *)
THEOREM NamesAreOwned == Spec => []NamesOwned
<1>1. ASSUME CacheInv PROVE NamesOwned
  <2> DEFINE certs == LoadedCerts(live)
  <2>1. out.certs = certs /\ out.ir.certs = MergedCerts(certs)
    BY <1>1, BuildCerts DEF CacheInv
  <2>2. /\ Claims(certs) /\ \A c \in certs : c.chain \in Nat /\ c.pem \in Nat
        /\ IsFiniteSet({c.chain : c \in certs})
    BY <1>1, CachesAreCached, LoadedCertsClaim
  <2> HIDE DEF certs
  <2>3. /\ \A c \in certs : \A name \in c.names :
             /\ \E m \in MergedCerts(certs) : m.listener = c.listener /\ name \in m.names
             /\ \A m \in MergedCerts(certs) : m.listener = c.listener /\ name \in m.names =>
                  \E d \in Naming(certs, c.listener, name) :
                    d.fp = m.fp /\ Owner(d.source) = Claimant(certs, c.listener, name)
        /\ \A m \in MergedCerts(certs), c \in certs :
             m.listener = c.listener /\ m.fp = c.fp =>
               m.chain > c.chain \/ (m.chain = c.chain /\ m.pem <= c.pem)
    BY <2>2, ArbitrationOwns
  <2>4. \A c \in certs : \A name \in c.names :
          Claimant(certs, c.listener, name) \in {Owner(d.source) : d \in Naming(certs, c.listener, name)}
    BY <2>2, ClaimantLoads
  <2> QED
    BY <2>1, <2>3, <2>4 DEF NamesOwned
<1> QED
  BY <1>1, BuildFollowsCaches, PTL

(* Every build translates: no two frontends have one route key, no two sockets one address, every *)
(* cluster a frontend, socket or backend names is there, and Sozu refuses no hostname and no path *)
(* (build_ir hands the translator an IR it can serve whatever objects the caches hold).           *)
THEOREM BuildsTranslate == Spec => []BuildTranslates
<1>1. ASSUME CacheInv PROVE BuildTranslates
  <2>1. Cached(live) /\ out = Build(live)
    BY <1>1, CachesAreCached DEF CacheInv
  <2> QED
    BY <2>1, BuildLoads DEF BuildTranslates
<1> QED
  BY <1>1, BuildFollowsCaches, PTL

-----------------------------------------------------------------------------
(* Who holds what is asked for twice. *)

(* Nobody holds a key, a name or a socket that someone who came earlier asks for. *)
OldestHolds ==
  \A g \in Holdings, a \in Asks : g.what = a.what /\ Owner(g.by) # Owner(a.by) => ~Newer(g.by, a.by)

(* What a build holds, the oldest who asks for it holds. *)
LEMMA OldestHold ==
  ASSUME CacheInv
  PROVE  OldestHolds
<1> DEFINE fs == FrontendsOf(live)
           certs == LoadedCerts(live)
           claims == ClaimsOf(live)
           carriers == L4Carriers(claims)
<1>1. Cached(live) /\ out = Build(live)
  BY CachesAreCached DEF CacheInv
<1>2. /\ out.asked = Range(fs) /\ out.certs = certs /\ out.claims = Range(claims) /\ out.carriers = carriers
      /\ out.ir.l4 = L4Frontends(claims)
      /\ out.served = {[frontend |-> s.frontend, source |-> s.source] : s \in RoutesOf(live).served}
  BY <1>1, BuildParts, BuildCerts
<1>3. \A s, t : Newer(s, t) => Older(t, s)
  BY DEF Newer, Older
<1> HIDE DEF fs, certs, claims, carriers
<1> SUFFICES ASSUME NEW g \in Holdings, NEW a \in Asks, g.what = a.what, Owner(g.by) # Owner(a.by)
             PROVE  ~Older(a.by, g.by)
  BY <1>3 DEF OldestHolds
<1>4. \/ \E s \in Range(fs) : a = [what |-> <<"key", RouteKey(s.frontend)>>, by |-> s.source]
      \/ \E c \in certs : \E name \in c.names : a = [what |-> <<"sni", c.listener, name>>, by |-> c.source]
      \/ \E c \in Range(claims) : a = [what |-> <<"socket", L4Key(c)>>, by |-> c.source]
  BY <1>2 DEF Asks
<1>5. CASE g \in KeyHolders
  <2>1. PICK s \in RoutesOf(live).served : g = [what |-> <<"key", RouteKey(s.frontend)>>, by |-> s.source]
    BY <1>2, <1>5 DEF KeyHolders
  <2>2. g.what[1] = "key" /\ g.what[2] = RouteKey(s.frontend) /\ g.by = s.source
    BY <2>1
  <2>3. PICK t \in Range(fs) : a = [what |-> <<"key", RouteKey(t.frontend)>>, by |-> t.source]
    BY <1>4, <2>2
  <2>4. RouteKey(s.frontend) = RouteKey(t.frontend) /\ a.by = t.source
    BY <2>2, <2>3
  <2> QED
    BY <1>1, <2>2, <2>4, KeyHeld DEF fs
<1>6. CASE g \in SniHolders
  <2>1. PICK c \in certs : \E name \in c.names :
          /\ g = [what |-> <<"sni", c.listener, name>>, by |-> c.source]
          /\ Owner(c.source) = Claimant(certs, c.listener, name)
    BY <1>2, <1>6 DEF SniHolders
  <2>2. PICK name \in c.names : /\ g = [what |-> <<"sni", c.listener, name>>, by |-> c.source]
                                /\ Owner(c.source) = Claimant(certs, c.listener, name)
    BY <2>1
  <2>3. g.what[1] = "sni" /\ g.what[2] = c.listener /\ g.what[3] = name /\ g.by = c.source
    BY <2>2
  <2>4. PICK d \in certs : \E n \in d.names : a = [what |-> <<"sni", d.listener, n>>, by |-> d.source]
    BY <1>4, <2>3
  <2>5. PICK n \in d.names : a = [what |-> <<"sni", d.listener, n>>, by |-> d.source]
    BY <2>4
  <2>6. d.listener = c.listener /\ n = name /\ a.by = d.source
    BY <2>3, <2>5
  <2> QED
    BY <1>1, <2>2, <2>3, <2>6, NameHeld DEF certs
<1>7. CASE g \in SocketHolders
  <2>1. PICK f \in L4Frontends(claims) : g = [what |-> <<"socket", L4Key(f)>>, by |-> Carrier(carriers, f).source]
    BY <1>2, <1>7 DEF SocketHolders, Carrier
  <2>2. g.what[1] = "socket" /\ g.what[2] = L4Key(f) /\ g.by = Carrier(carriers, f).source
    BY <2>1
  <2>3. PICK c \in Range(claims) : a = [what |-> <<"socket", L4Key(c)>>, by |-> c.source]
    BY <1>4, <2>2
  <2>4. L4Key(f) = L4Key(c) /\ a.by = c.source
    BY <2>2, <2>3
  <2> QED
    BY <1>1, <2>2, <2>4, SocketHeld DEF claims, carriers
<1> QED
  BY <1>5, <1>6, <1>7 DEF Holdings

(* No newcomer takes a route key, an SNI name or a socket from an older object that still asks for *)
(* it, whatever is observed, edited or relisted in between (OwnerClaim).                           *)
THEOREM NewcomersTakeNothing == Spec => NewcomerTakesNothing
<1>1. CacheInv => OldestHolds
  BY OldestHold
<1>2. ASSUME OldestHolds'
      PROVE  \A h \in Holdings, g \in Holdings' :
               /\ h.what = g.what /\ Owner(h.by) # Owner(g.by)
               /\ [what |-> h.what, by |-> h.by] \in Asks'
               => ~Newer(g.by, h.by)
  BY <1>2 DEF OldestHolds
<1>3. OldestHolds' => [\A h \in Holdings, g \in Holdings' :
               /\ h.what = g.what /\ Owner(h.by) # Owner(g.by)
               /\ [what |-> h.what, by |-> h.by] \in Asks'
               => ~Newer(g.by, h.by)]_vars
  BY <1>2
<1> QED
  BY <1>1, <1>3, BuildFollowsCaches, PTL DEF NewcomerTakesNothing

-----------------------------------------------------------------------------
(* What the routes resolved to, and what was reported. *)

(* The route is to a port of a Service of the caches. *)
Resolved(objs, r) ==
  \E svc \in Range(objs) :
    svc.kind = "Service" /\ r.svc = {svc} /\ r.id[1] = svc.ns /\ r.id[2] = svc.name /\ r.id # NoCluster

(* A cluster id starts with the namespace and the name of its Service. *)
LEMMA IdOfService ==
  ASSUME NEW svc, NEW port
  PROVE  LET id == ClusterId(svc, port) IN id[1] = svc.ns /\ id[2] = svc.name /\ id # NoCluster
<1> DEFINE first == The(FirstOf(svc.ports, LAMBDA p : p.port = port.port))
           head == <<svc.ns, svc.name, port.port>>
           tail == IF first.proto = port.proto THEN <<>> ELSE <<port.proto>>
           X == {svc.ns, svc.name, port.port, port.proto}
<1>1. ClusterId(svc, port) = head \o tail
  BY DEF ClusterId
<1> HIDE DEF first
<1>2. /\ head \in Seq(X) /\ Len(head) = 3 /\ head[1] = svc.ns /\ head[2] = svc.name
      /\ 1 \in 1..Len(head) /\ 2 \in 1..Len(head)
  OBVIOUS
<1>5. tail \in Seq(X)
  <2>1. <<>> \in Seq(X) /\ <<port.proto>> \in Seq(X)
    OBVIOUS
  <2> HIDE DEF X
  <2> QED
    BY <2>1
<1> HIDE DEF head, tail, X
<1>3. /\ (head \o tail)[1] = svc.ns /\ (head \o tail)[2] = svc.name /\ Len(head \o tail) = Len(head) + Len(tail)
      /\ Len(tail) \in Nat
  BY <1>2, <1>5, StartsAs
<1>4. head \o tail # <<>>
  BY <1>2, <1>3
<1> QED
  BY <1>1, <1>3, <1>4 DEF NoCluster

(* A Service port that was found. *)
LEMMA ServiceRouteResolved ==
  ASSUME NEW objs, NEW ns, NEW name, NEW ref, ServiceRoute(objs, ns, name, ref).err = {}
  PROVE  Resolved(objs, ServiceRoute(objs, ns, name, ref))
<1> DEFINE svcs == Named(objs, "Service", ns, name)
           ports == PortsOf(svcs, ref)
           r == ServiceRoute(objs, ns, name, ref)
           svc == The(svcs)
<1>1. r = RouteOf(objs, svcs, ports)
  BY DEF ServiceRoute
<1>2. Unrouted({"ServiceNotFound"}).err # {} /\ Unrouted({"ServicePortNotFound"}).err # {}
  BY DEF Unrouted
<1> HIDE DEF svcs, ports, r
<1>3. svcs # {} /\ r = PortRoute(objs, svc, The(ports))
  <2>0. r.err = {}
    BY DEF r
  <2> HIDE DEF svc
  <2> QED
    BY <1>1, <1>2, <2>0 DEF RouteOf, svc
<1>4. svc \in Range(objs) /\ svc.kind = "Service"
  BY <1>3, NamedIsThere DEF svcs
<1> HIDE DEF svc
<1>5. r.svc = {svc} /\ r.id = ClusterId(svc, The(ports))
  BY <1>3 DEF PortRoute
<1> QED
  BY <1>4, <1>5, IdOfService DEF Resolved, r

(* A backendRef that was found. *)
LEMMA BackendResolved ==
  ASSUME NEW objs, NEW o, NEW refs, NEW by, NEW redirects, Backend(objs, o, refs, by, redirects).err = {},
         refs # <<>> \/ redirects = FALSE
  PROVE  Resolved(objs, Backend(objs, o, refs, by, redirects))
<1> DEFINE b == Backend(objs, o, refs, by, redirects)
           ref == Head(refs)
           ns == IF ref.ns = None THEN o.ns ELSE ref.ns
           r == ServiceRoute(objs, ns, ref.name, PortRef(by, ref.port, ""))
<1>1. \A why : Unrouted(why).err = why
  BY DEF Unrouted
<1>2. b = IF refs = <<>> THEN Unrouted(IF redirects THEN {} ELSE {"NoReadyEndpoints"})
          ELSE IF Len(refs) > 1 THEN Unrouted({"WeightedBackendsUnsupported"})
          ELSE IF ref.kind # "Service" THEN Unrouted({"NonServiceBackend"})
          ELSE IF ref.weight = 0 THEN Unrouted({"ZeroWeightBackendUnsupported"})
          ELSE IF ~Granted(objs, ns, "Service", ref.name, o.ns, o.kind) THEN Unrouted({"BackendRefNotPermitted"})
          ELSE IF ref.port = 0 THEN Unrouted({"ServicePortNotFound"})
          ELSE r
  BY DEF Backend
<1>3. b.err = {}
  OBVIOUS
<1> HIDE DEF b, r, ref
<1>4. b = r
  BY <1>1, <1>2, <1>3
<1>5. Resolved(objs, r)
  BY <1>3, <1>4, ServiceRouteResolved DEF r
<1> QED
  BY <1>4, <1>5 DEF b

(* Every route counted among the Services was found. *)
LEMMA ServicesResolved ==
  ASSUME NEW objs, Cached(objs), NEW r \in AllServices(objs)
  PROVE  Resolved(objs, r)
<1> DEFINE built == BuiltIngresses(objs)
           http == HttpAttachments(objs, BuiltGateways(objs))
           l4 == L4Attachments(objs, BuiltGateways(objs))
<1>1. CASE r \in IngressServices(built)
  <2>1. PICK b \in Range(built) : \E p \in Range(b.paths) : p.err = {} /\ r = p.backend
    BY <1>1 DEF IngressServices
  <2>2. PICK p \in Range(b.paths) : p.err = {} /\ r = p.backend
    BY <2>1
  <2>3. PICK o \in Range(objs) : IsOurs(o) /\ b = BuiltIngress(objs, o)
    BY IngressesBuilt
  <2>4. p \in PathsOf(objs, o)
    BY <2>2, <2>3, IngressParts
  <2>5. PICK rule, q : p = BuiltPath(rule, q, IngressBackend(objs, o, q))
    BY <2>4 DEF PathsOf, PathOf
  <2>6. r = IngressBackend(objs, o, q) /\ IngressPathError(q, IngressBackend(objs, o, q)) = {}
    BY <2>2, <2>5 DEF BuiltPath
  <2>7. r.err = {}
    BY <2>6 DEF IngressPathError
  <2> QED
    BY <2>6, <2>7, ServiceRouteResolved DEF IngressBackend
<1>2. CASE r \in HttpServices(http)
  <2>1. PICK a \in Range(http) : \E q \in Range(a.rules) : Programs(q) /\ q.refs # <<>> /\ r = q.backend
    BY <1>2 DEF HttpServices
  <2>2. PICK q \in Range(a.rules) : Programs(q) /\ q.refs # <<>> /\ r = q.backend
    BY <2>1
  <2>3. a.rules = BuiltRules(objs, a.route) /\ IsList(a.rules)
    BY HttpAttachmentParts
  <2>4. PICK i \in DOMAIN BuiltRules(objs, a.route) : q = BuiltRules(objs, a.route)[i]
    BY <2>2, <2>3, ListFields
  <2>5. q = BuiltRule(objs, a.route, a.route.rules[i], ParseFilters(a.route.rules[i].filters))
    BY <2>4 DEF BuiltRules
  <2> DEFINE rule == a.route.rules[i]
             parsed == ParseFilters(a.route.rules[i].filters)
             redirects == parsed.filters.redirect # {}
  <2> HIDE DEF rule, parsed
  <2>6. q.refs = rule.refs /\ q.backend = Backend(objs, a.route, rule.refs, "HttpNumber", redirects)
    BY <2>5 DEF BuiltRule, RuleBackend, rule, parsed
  <2> HIDE DEF redirects
  <2>7. q.backend.err = {}
    BY <2>2 DEF Programs
  <2> QED
    BY <2>2, <2>6, <2>7, BackendResolved
<1>3. CASE r \in L4Services(l4)
  <2>1. PICK a \in Range(l4) : a.backend.err = {} /\ r = a.backend
    BY <1>3 DEF L4Services
  <2>2. a.backend = Backend(objs, a.route, a.route.refs, "Number", FALSE)
    BY L4AttachmentParts
  <2> QED
    BY <2>1, <2>2, BackendResolved
<1> QED
  BY <1>1, <1>2, <1>3 DEF AllServices, WebServices

(* What is asked for, the oldest first. *)
SortedOf(objs) == ByClaim(FrontendsOf(objs))

(* The sorted list: what is asked for and no more, each with who asks for it. *)
LEMMA SortedParts ==
  ASSUME NEW objs, Cached(objs)
  PROVE  LET sorted == SortedOf(objs) IN
         /\ IsList(sorted) /\ IsInjective(sorted)
         /\ \A s \in Range(sorted) : \E t \in Range(FrontendsOf(objs)) : s.frontend = t.frontend /\ s.source = t.source
         /\ \A t \in Range(FrontendsOf(objs)) : \E s \in Range(sorted) : s.frontend = t.frontend /\ s.source = t.source
BY FrontendsLoad, ByClaimList, ByClaimOrder DEF SortedOf

(* What is served is in the IR. *)
LEMMA ServedInIr ==
  ASSUME NEW objs, Cached(objs), NEW s \in RoutesOf(objs).served
  PROVE  \E i \in DOMAIN RoutesOf(objs).frontends : RoutesOf(objs).frontends[i] = s.frontend
<1> DEFINE sorted == SortedOf(objs)
           kept == Kept(sorted)
           F == [i \in DOMAIN kept |-> kept[i].frontend]
           lifted == Lift(F)
           served == {kept[i] : i \in DOMAIN kept \ lifted.skipped}
           order == Filtered(kept, served)
           A == [i \in DOMAIN order |-> order[i].frontend]
           rules == {e.rule : e \in lifted.copies}
           B == AsSequence(rules)
<1>1. RoutesOf(objs).frontends = A \o B /\ RoutesOf(objs).served = served
  BY DEF RoutesOf, Arbitrated, Routed, SortedOf
<1>2. IsList(sorted) /\ IsInjective(sorted)
  BY SortedParts
<1>3. \A t \in Range(sorted) : IsFrontend(t.frontend)
  BY FrontendsLoad, SortedParts DEF IsSourced
<1> HIDE DEF sorted
<1>4. IsList(kept) /\ Range(kept) \subseteq Range(sorted)
  BY <1>2, KeptApart
<1> HIDE DEF kept
<1>5. /\ Len(kept) \in Nat /\ DOMAIN kept = 1..Len(kept)
      /\ \A i \in 1..Len(kept) : kept[i] \in Range(kept)
  BY <1>4, ListFields
<1>6. Frontends(F)
  <2>1. F = [i \in 1..Len(kept) |-> F[i]] /\ DOMAIN F = 1..Len(kept)
    BY <1>5
  <2>2. \A i \in DOMAIN F : IsFrontend(F[i])
    BY <1>3, <1>4, <1>5
  <2> HIDE DEF F
  <2>3. IsList(F)
    BY <1>5, <2>1, IndexedList
  <2> QED
    BY <2>2, <2>3 DEF Frontends
<1> HIDE DEF F
<1>7. IsFiniteSet(rules)
  BY <1>6, LiftApart
<1>8. s \in Range(kept) /\ s \in served
  BY <1>1, <1>5
<1> HIDE DEF lifted, rules, served
<1>9. IsList(order) /\ Range(order) = Range(kept) \cap served
  BY <1>4, FilteredList
<1> HIDE DEF order
<1>10. /\ Len(order) \in Nat /\ DOMAIN order = 1..Len(order)
       /\ \A i \in 1..Len(order) : order[i] \in Range(order)
       /\ \A t \in Range(order) : \E i \in 1..Len(order) : t = order[i]
  BY <1>9, ListFields
<1>11. PICK i \in 1..Len(order) : s = order[i]
  BY <1>8, <1>9, <1>10
<1>12. A = [k \in 1..Len(order) |-> A[k]] /\ A[i] = s.frontend
  BY <1>10, <1>11
<1> HIDE DEF A
<1>13. IsList(A) /\ Len(A) = Len(order)
  BY <1>10, <1>12, IndexedList
<1>14. B \in Seq(rules)
  BY <1>7, AsSequenceLists DEF Lists
<1> HIDE DEF B
<1>15. i \in DOMAIN (A \o B) /\ (A \o B)[i] = A[i]
  <2> DEFINE X == Range(A) \cup rules
  <2>1. A \in Seq(X) /\ B \in Seq(X)
    BY <1>13, <1>14 DEF IsList
  <2> HIDE DEF X
  <2> QED
    BY <1>10, <1>13, <2>1
<1> QED
  BY <1>1, <1>12, <1>15

(* One that is served keeps its key from all who ask for it. *)
LEMMA ServedWon ==
  ASSUME NEW objs, Cached(objs), NEW t \in RoutesOf(objs).served
  PROVE  /\ t \in Range(SortedOf(objs))
         /\ \A s : RouteKey(s.frontend) = RouteKey(t.frontend) => Winner(SortedOf(objs), s) = t
<1>1. t \in Range(Kept(SortedOf(objs))) /\ IsList(SortedOf(objs))
  BY ServedKept, SortedParts DEF SortedOf
<1>2. t \in Range(SortedOf(objs)) /\ Winner(SortedOf(objs), t) = t
  BY <1>1, KeptWon
<1> QED
  BY <1>2, WinnerOfKey

(* The same match has the same key. *)
LEMMA MatchTellsKey ==
  ASSUME NEW f, NEW g, SameMatch(f, g)
  PROVE  RouteKey(f) = RouteKey(g)
BY DEF SameMatch, RouteKey

(* The requests of a source that reach a cluster. *)
LEMMA ProxiedAre ==
  ASSUME NEW objs, Cached(objs)
  PROVE  /\ \A p \in RoutesOf(objs).proxied : \E i \in DOMAIN RoutesOf(objs).frontends :
              LET f == RoutesOf(objs).frontends[i] IN f.cluster = p.cluster /\ f.filters.redirect = {}
         /\ \A s \in Range(FrontendsOf(objs)), t \in RoutesOf(objs).served :
              /\ SameMatch(t.frontend, s.frontend) /\ SameEffect(t.frontend, s.frontend)
              /\ s.frontend.filters.redirect = {} /\ s.frontend.cluster # NoCluster
              => \E p \in RoutesOf(objs).proxied : p.cluster = s.frontend.cluster /\ p.source = s.source
<1> DEFINE R == RoutesOf(objs)
           sorted == SortedOf(objs)
           joined == {s \in Folded(sorted) : \E t \in R.served : RouteKey(t.frontend) = RouteKey(s.frontend)}
           passed == R.served \cup joined
           item(s) == [cluster |-> s.frontend.cluster, source |-> s.source]
<1>1. R.proxied = Proxied(passed)
  BY DEF RoutesOf, Arbitrated, Routed, SortedOf
<1>2. /\ \A p \in Proxied(passed) : \E s \in passed : p = item(s) /\ s.frontend.filters.redirect = {}
      /\ \A s \in passed : s.frontend.filters.redirect = {} /\ s.frontend.cluster # NoCluster => item(s) \in Proxied(passed)
  <2> HIDE DEF passed
  <2> QED
    BY DEF Proxied
<1>3. \A s : item(s).cluster = s.frontend.cluster /\ item(s).source = s.source
  OBVIOUS
<1>4. \A s \in joined : /\ s \in Range(sorted) /\ SameEffect(Winner(sorted, s).frontend, s.frontend)
                        /\ \E t \in R.served : RouteKey(t.frontend) = RouteKey(s.frontend)
  BY DEF Folded
<1>5. \A s \in Range(sorted), t \in R.served :
        /\ RouteKey(t.frontend) = RouteKey(s.frontend) /\ SameMatch(t.frontend, s.frontend)
        /\ SameEffect(t.frontend, s.frontend) /\ Winner(sorted, s) = t /\ s.source # t.source
        => s \in joined
  BY DEF Folded
<1> HIDE DEF item, joined, R, sorted
<1>6. ASSUME NEW p \in R.proxied
      PROVE  \E i \in DOMAIN R.frontends : R.frontends[i].cluster = p.cluster /\ R.frontends[i].filters.redirect = {}
  <2>1. PICK s \in passed : p = item(s) /\ s.frontend.filters.redirect = {}
    BY <1>1, <1>2
  <2>2. PICK t \in R.served : SameEffect(t.frontend, s.frontend)
    <3>1. CASE s \in R.served
      BY <3>1 DEF SameEffect
    <3>2. CASE s \in joined
      <4>1. PICK t \in R.served : RouteKey(t.frontend) = RouteKey(s.frontend)
        BY <1>4, <3>2
      <4>2. Winner(sorted, s) = t
        BY <4>1, ServedWon DEF sorted, R
      <4> QED
        BY <1>4, <3>2, <4>2
    <3> QED
      BY <3>1, <3>2
  <2>3. PICK i \in DOMAIN R.frontends : R.frontends[i] = t.frontend
    BY ServedInIr DEF R
  <2> QED
    BY <1>3, <2>1, <2>2, <2>3 DEF SameEffect
<1>7. ASSUME NEW s \in Range(FrontendsOf(objs)), NEW t \in R.served,
             SameMatch(t.frontend, s.frontend), SameEffect(t.frontend, s.frontend),
             s.frontend.filters.redirect = {}, s.frontend.cluster # NoCluster
      PROVE  \E p \in R.proxied : p.cluster = s.frontend.cluster /\ p.source = s.source
  <2>1. PICK u \in Range(sorted) : u.frontend = s.frontend /\ u.source = s.source
    BY SortedParts DEF sorted
  <2>2. RouteKey(t.frontend) = RouteKey(u.frontend)
    BY <1>7, <2>1, MatchTellsKey
  <2>3. Winner(sorted, u) = t
    BY <2>2, ServedWon DEF sorted, R
  <2>4. CASE u.source = t.source
    <3>1. t.frontend.filters.redirect = {} /\ t.frontend.cluster = s.frontend.cluster
      BY <1>7 DEF SameEffect
    <3>2. item(t) \in R.proxied
      BY <1>1, <1>2, <1>7, <3>1
    <3> QED
      BY <1>3, <2>1, <2>4, <3>1, <3>2
  <2>5. CASE u.source # t.source
    <3>1. u \in joined
      BY <1>5, <1>7, <2>1, <2>2, <2>3, <2>5
    <3>2. item(u) \in R.proxied
      BY <1>1, <1>2, <1>7, <2>1, <3>1
    <3> QED
      BY <1>3, <2>1, <3>2
  <2> QED
    BY <2>4, <2>5
<1> QED
  BY <1>6, <1>7 DEF R

(* The results before anything is arbitrated, and what is reported on them after. *)
IngressesOf(objs) == {IngressResult(b) : b \in Range(BuiltIngresses(objs))}

ParentsOf(objs) ==
  {HttpParent(a) : a \in Range(HttpAttachments(objs, BuiltGateways(objs)))}
  \cup L4Settled(L4Attachments(objs, BuiltGateways(objs)), Range(ClaimsOf(objs)) \ L4Carriers(ClaimsOf(objs)))

ChecksOf(objs) == CheckReports(ClustersBuilt(objs), RoutesOf(objs).proxied, L4Carriers(ClaimsOf(objs)))

ToldIngress(objs, r) == Reported(r, IngressesOf(objs), RoutesOf(objs).skips, ChecksOf(objs))

ToldParent(objs, r) == Reported(r, ParentsOf(objs), RoutesOf(objs).skips, ChecksOf(objs))

Collided(objs, r) ==
  [ToldIngress(objs, r) EXCEPT !.problems = @
     \cup (IF r.source \in RoutesOf(objs).collisions THEN {"RouteCollision"} ELSE {})
     \cup (IF r.source \in LostNames(LoadedCerts(objs)) THEN {"CertificateNameClaimed"} ELSE {})]

(* The results of a build. *)
LEMMA BuildResults ==
  ASSUME NEW objs
  PROVE  /\ Build(objs).ingresses = {Collided(objs, r) : r \in IngressesOf(objs)}
         /\ Build(objs).parents = {Downgraded(ToldParent(objs, r), ParentsOf(objs), RoutesOf(objs).collisions) :
                                     r \in ParentsOf(objs)}
<1> DEFINE gws == BuiltGateways(objs)
           built == BuiltIngresses(objs)
           http == HttpAttachments(objs, gws)
           l4 == L4Attachments(objs, gws)
           c == Collected(objs, gws, built, http, l4, L4Claims(l4))
<1>1. /\ c.ingresses = IngressesOf(objs) /\ c.parents = ParentsOf(objs) /\ c.frontends = FrontendsOf(objs)
      /\ c.http = WebServices(objs) /\ c.http \cup c.l4 = AllServices(objs) /\ c.claims = ClaimsOf(objs)
      /\ c.certs = LoadedCerts(objs)
  BY Zenon DEF Collected, FrontendsOf, WebServices, AllServices, ClaimsOf, IngressesOf, ParentsOf, LoadedCerts
<1>2. Build(objs) = Output(objs, c, Arbitrated(ByClaim(c.frontends), Kept(ByClaim(c.frontends))),
                           Clusters(c.http \cup c.l4, c.http), L4Carriers(c.claims), LostNames(c.certs))
  BY DEF Build, BuildOn, Attached, Arbitrate, Settled
<1> HIDE DEF c
<1>3. Build(objs) = Output(objs, c, RoutesOf(objs), ClustersBuilt(objs), L4Carriers(ClaimsOf(objs)),
                           LostNames(LoadedCerts(objs)))
  BY <1>1, <1>2 DEF RoutesOf, ClustersBuilt
<1> DEFINE told(r, results) == Reported(r, results, RoutesOf(objs).skips, ChecksOf(objs))
           final(r, results) ==
             [told(r, results) EXCEPT !.problems = @
                \cup (IF r.source \in RoutesOf(objs).collisions THEN {"RouteCollision"} ELSE {})
                \cup (IF r.source \in LostNames(LoadedCerts(objs)) THEN {"CertificateNameClaimed"} ELSE {})]
           down(r, results) == Downgraded(told(r, results), results, RoutesOf(objs).collisions)
<1>4. /\ Build(objs).ingresses = {final(r, c.ingresses) : r \in c.ingresses}
      /\ Build(objs).parents = {down(r, c.parents) : r \in c.parents}
  <2> DEFINE o == Output(objs, c, RoutesOf(objs), ClustersBuilt(objs), L4Carriers(ClaimsOf(objs)),
                         LostNames(LoadedCerts(objs)))
  <2>1. o.ingresses = {final(r, c.ingresses) : r \in c.ingresses}
    BY DEF Output, ChecksOf
  <2>2. o.parents = {down(r, c.parents) : r \in c.parents}
    BY DEF Output, ChecksOf
  <2> HIDE DEF o, final, down
  <2> QED
    BY <1>3, <2>1, <2>2 DEF o
<1>5. \A r : final(r, IngressesOf(objs)) = Collided(objs, r)
  <2>1. \A r : told(r, IngressesOf(objs)) = ToldIngress(objs, r)
    BY DEF ToldIngress
  <2> HIDE DEF told
  <2> QED
    BY <2>1 DEF Collided
<1>6. \A r : down(r, ParentsOf(objs)) = Downgraded(ToldParent(objs, r), ParentsOf(objs), RoutesOf(objs).collisions)
  BY Zenon DEF ToldParent
<1> HIDE DEF final, down
<1>7. Build(objs).ingresses = {final(r, IngressesOf(objs)) : r \in IngressesOf(objs)}
  <2>1. c.ingresses = IngressesOf(objs)
    BY <1>1
  <2>2. Build(objs).ingresses = {final(r, c.ingresses) : r \in c.ingresses}
    BY <1>4
  <2> QED
    BY <2>1, <2>2, Zenon
<1>8. Build(objs).parents = {down(r, ParentsOf(objs)) : r \in ParentsOf(objs)}
  <2>1. c.parents = ParentsOf(objs)
    BY <1>1
  <2>2. Build(objs).parents = {down(r, c.parents) : r \in c.parents}
    BY <1>4
  <2> QED
    BY <2>1, <2>2, Zenon
<1> QED
  BY <1>5, <1>6, <1>7, <1>8

(* A result has these fields, a parent's some more. *)
IsResult(r) == {"source", "index", "problems"} \subseteq DOMAIN r

IsParentResult(r) == {"source", "index", "problems", "accepted", "reason", "resolved"} \subseteq DOMAIN r

(* What the results are made from. *)
LEMMA IngressResults ==
  ASSUME NEW objs, NEW r \in IngressesOf(objs)
  PROVE  IsResult(r) /\ r.index = 1 /\ \E b \in Range(BuiltIngresses(objs)) : r = IngressResult(b) /\ r.source = Source(b.ingress, NoRef)
<1>1. PICK b \in Range(BuiltIngresses(objs)) : r = IngressResult(b)
  BY DEF IngressesOf
<1>2. r.index = 1 /\ r.source = Source(b.ingress, NoRef) /\ IsResult(r)
  BY <1>1 DEF IngressResult, IsResult
<1> QED
  BY <1>1, <1>2

(* A parent as it is first read. *)
LEMMA ParentFields ==
  ASSUME NEW a, NEW reason, NEW resolved, NEW problems
  PROVE  LET p == Parent(a, reason, resolved, problems) IN
         /\ IsParentResult(p) /\ p.source = ParentSource(a.route, a.ref) /\ p.index = a.index
         /\ p.accepted = (reason = "Accepted") /\ p.resolved = resolved /\ p.problems = problems
BY DEF Parent, IsParentResult

(* An HTTPRoute's parent. *)
LEMMA HttpParentFields ==
  ASSUME NEW a
  PROVE  IsParentResult(HttpParent(a)) /\ HttpParent(a).source = ParentSource(a.route, a.ref) /\ HttpParent(a).index = a.index
<1> DEFINE reason == IF \E r \in Range(a.rules) : Overrides(r) THEN "UnsupportedValue" ELSE "Accepted"
           resolved == \A r \in Range(a.rules) : ~r.parsed.refused => r.backend.err \cup AppProblem(r.backend) = {}
           problems == UNION {RuleProblems(a, r) : r \in Range(a.rules)}
<1>1. HttpParent(a) =
        IF a.addressable = <<>> THEN Parent(a, "NoMatchingParent", TRUE, {})
        ELSE IF a.admitting = <<>> THEN Parent(a, "NotAllowedByListeners", TRUE, {})
        ELSE IF a.matching = <<>> THEN Parent(a, "NoMatchingListenerHostname", TRUE, {})
        ELSE Parent(a, reason, resolved, problems)
  BY DEF HttpParent
<1> HIDE DEF reason, resolved, problems
<1>2. \A why, found, said : LET p == Parent(a, why, found, said) IN
        IsParentResult(p) /\ p.source = ParentSource(a.route, a.ref) /\ p.index = a.index
  BY ParentFields
<1> QED
  BY <1>1, <1>2, Zenon

(* A parent that lost a socket is told so. *)
LostBy(p, losers) == \E c \in losers : c.source = p.source /\ c.index = p.index

AfterLoss(p, losers) == [p EXCEPT !.problems = @ \cup IF LostBy(p, losers) THEN {"L4RouteConflict"} ELSE {}]

(* The parent of a socket route. *)
LEMMA L4ParentFields ==
  ASSUME NEW a
  PROVE  IsParentResult(L4Parent(a)) /\ L4Parent(a).source = ParentSource(a.route, a.ref) /\ L4Parent(a).index = a.index
<1> DEFINE p == L4Parent(a)
           found == a.backend.err = {}
           said == a.backend.err \cup a.backend.warn
<1>1. p = IF a.addressable = <<>> THEN Parent(a, "NoMatchingParent", TRUE, {})
          ELSE IF a.admitting = <<>> THEN Parent(a, "NotAllowedByListeners", TRUE, {})
          ELSE Parent(a, "Accepted", found, said)
  BY DEF L4Parent
<1> HIDE DEF found, said, p
<1>2. \A why, ok, words : LET q == Parent(a, why, ok, words) IN
        IsParentResult(q) /\ q.source = ParentSource(a.route, a.ref) /\ q.index = a.index
  BY ParentFields
<1>3. IsParentResult(p) /\ p.source = ParentSource(a.route, a.ref) /\ p.index = a.index
  BY <1>1, <1>2, Zenon
<1> QED
  BY <1>3 DEF p

(* Being told changes nothing else, and nothing for who lost nothing. *)
LEMMA LossFields ==
  ASSUME NEW p, IsParentResult(p), NEW losers
  PROVE  LET q == AfterLoss(p, losers) IN
         /\ IsParentResult(q) /\ q.source = p.source /\ q.index = p.index
         /\ q.accepted = p.accepted /\ q.resolved = p.resolved
         /\ q.problems = {} => p.problems = {} /\ ~LostBy(p, losers)
BY DEF AfterLoss, IsParentResult

(* Every parent is an attachment's. *)
LEMMA ParentResults ==
  ASSUME NEW objs
  PROVE  LET http == HttpAttachments(objs, BuiltGateways(objs))
             l4 == L4Attachments(objs, BuiltGateways(objs))
             losers == Range(ClaimsOf(objs)) \ L4Carriers(ClaimsOf(objs))
         IN /\ \A r \in ParentsOf(objs) :
                 /\ IsParentResult(r)
                 /\ \/ \E a \in Range(http) : r = HttpParent(a) /\ r.source = ParentSource(a.route, a.ref) /\ r.index = a.index
                    \/ \E a \in Range(l4) :
                         /\ r.source = ParentSource(a.route, a.ref) /\ r.index = a.index
                         /\ r.accepted = L4Parent(a).accepted /\ r.resolved = L4Parent(a).resolved
                         /\ r.problems = {} => /\ L4Parent(a).problems = {}
                                               /\ ~\E c \in losers : c.source = r.source /\ c.index = r.index
            /\ \A a \in Range(http) : HttpParent(a) \in ParentsOf(objs)
            /\ \A a \in Range(l4) : \E r \in ParentsOf(objs) : r.source = ParentSource(a.route, a.ref) /\ r.index = a.index
<1> DEFINE http == HttpAttachments(objs, BuiltGateways(objs))
           l4 == L4Attachments(objs, BuiltGateways(objs))
           losers == Range(ClaimsOf(objs)) \ L4Carriers(ClaimsOf(objs))
<1>1. /\ \A r \in ParentsOf(objs) :
           (\E a \in Range(http) : r = HttpParent(a)) \/ \E a \in Range(l4) : r = AfterLoss(L4Parent(a), losers)
      /\ \A a \in Range(http) : HttpParent(a) \in ParentsOf(objs)
      /\ \A a \in Range(l4) : AfterLoss(L4Parent(a), losers) \in ParentsOf(objs)
  <2>1. L4Settled(l4, losers) = {AfterLoss(p, losers) : p \in {L4Parent(a) : a \in Range(l4)}}
    BY DEF L4Settled, AfterLoss, LostBy
  <2>2. ParentsOf(objs) = {HttpParent(a) : a \in Range(http)} \cup L4Settled(l4, losers)
    BY DEF ParentsOf
  <2> HIDE DEF http, l4, losers
  <2> QED
    BY <2>1, <2>2
<1> HIDE DEF http, l4, losers
<1>2. ASSUME NEW a
      PROVE  LET p == L4Parent(a)
                 q == AfterLoss(p, losers)
             IN /\ q.source = ParentSource(a.route, a.ref) /\ q.index = a.index /\ IsParentResult(q)
                /\ q.accepted = p.accepted /\ q.resolved = p.resolved
                /\ q.problems = {} => p.problems = {} /\ ~\E c \in losers : c.source = q.source /\ c.index = q.index
  <2>1. /\ IsParentResult(L4Parent(a)) /\ L4Parent(a).source = ParentSource(a.route, a.ref) /\ L4Parent(a).index = a.index
    BY L4ParentFields
  <2> QED
    BY <2>1, LossFields DEF LostBy
<1>3. ASSUME NEW r \in ParentsOf(objs)
      PROVE  /\ IsParentResult(r)
             /\ \/ \E a \in Range(http) : r = HttpParent(a) /\ r.source = ParentSource(a.route, a.ref) /\ r.index = a.index
                \/ \E a \in Range(l4) :
                     /\ r.source = ParentSource(a.route, a.ref) /\ r.index = a.index
                     /\ r.accepted = L4Parent(a).accepted /\ r.resolved = L4Parent(a).resolved
                     /\ r.problems = {} => /\ L4Parent(a).problems = {}
                                           /\ ~\E c \in losers : c.source = r.source /\ c.index = r.index
  <2>1. CASE \E a \in Range(http) : r = HttpParent(a)
    BY <2>1, HttpParentFields
  <2>2. CASE \E a \in Range(l4) : r = AfterLoss(L4Parent(a), losers)
    <3>1. PICK a \in Range(l4) : r = AfterLoss(L4Parent(a), losers)
      BY <2>2
    <3> QED
      BY <1>2, <3>1
  <2> QED
    BY <1>1, <2>1, <2>2
<1>4. \A a \in Range(l4) : \E r \in ParentsOf(objs) : r.source = ParentSource(a.route, a.ref) /\ r.index = a.index
  BY <1>1, <1>2
<1> QED
  BY <1>1, <1>3, <1>4 DEF http, l4, losers

(* What a report leaves on a result. *)
LEMMA ReportedFields ==
  ASSUME NEW r, IsResult(r), NEW results, NEW skips, NEW checks
  PROVE  LET q == Reported(r, results, skips, checks) IN
         /\ DOMAIN q = DOMAIN r /\ q.source = r.source /\ q.index = r.index
         /\ IsParentResult(r) => q.accepted = r.accepted /\ q.resolved = r.resolved
         /\ Told(checks, r, results) => "HealthCheckNotApplied" \in q.problems
         /\ q.problems = {} => r.problems = {} /\ ~Told(skips, r, results) /\ ~Told(checks, r, results)
<1> DEFINE s == Told(skips, r, results)
           c == Told(checks, r, results)
<1>1. Reported(r, results, skips, checks) = [r EXCEPT !.problems = @
        \cup (IF s THEN {"HeaderMatchSkipped"} ELSE {}) \cup (IF c THEN {"HealthCheckNotApplied"} ELSE {})]
  BY DEF Reported
<1> HIDE DEF s, c
<1>2. LET q == [r EXCEPT !.problems = @
        \cup (IF s THEN {"HeaderMatchSkipped"} ELSE {}) \cup (IF c THEN {"HealthCheckNotApplied"} ELSE {})]
      IN /\ DOMAIN q = DOMAIN r /\ q.source = r.source /\ q.index = r.index
         /\ IsParentResult(r) => q.accepted = r.accepted /\ q.resolved = r.resolved
         /\ c => "HealthCheckNotApplied" \in q.problems
         /\ q.problems = {} => r.problems = {} /\ ~s /\ ~c
  BY DEF IsResult, IsParentResult
<1> QED
  BY <1>1, <1>2 DEF s, c

(* What a collision leaves on a parent. *)
LEMMA DowngradedFields ==
  ASSUME NEW r, IsParentResult(r), NEW results, NEW collisions
  PROVE  LET q == Downgraded(r, results, collisions) IN
         /\ q.source = r.source /\ q.index = r.index /\ r.problems \subseteq q.problems
         /\ q.problems = {} => q = r /\ ~Told(AnyParent(collisions), r, results)
BY DEF Downgraded, IsParentResult

(* What is told of a result does not depend on its problems. *)
LEMMA ToldSame ==
  ASSUME NEW reports, NEW q, NEW r, NEW results, q.source = r.source, q.index = r.index
  PROVE  Told(reports, q, results) <=> Told(reports, r, results)
BY DEF Told

(* The parents of a build: a parent of the routes, with what arbitration reports of it. *)
LEMMA ParentTold ==
  ASSUME NEW objs
  PROVE  /\ \A r \in ParentsOf(objs) : \E p \in Build(objs).parents :
              /\ p.source = r.source /\ p.index = r.index
              /\ Told(ChecksOf(objs), r, ParentsOf(objs)) => "HealthCheckNotApplied" \in p.problems
         /\ \A p \in Build(objs).parents : \E r \in ParentsOf(objs) :
              /\ p.source = r.source /\ p.index = r.index
              /\ p.problems = {} =>
                   /\ r.problems = {} /\ p.accepted = r.accepted /\ p.resolved = r.resolved
                   /\ ~Told(RoutesOf(objs).skips, r, ParentsOf(objs))
                   /\ ~Told(AnyParent(RoutesOf(objs).collisions), r, ParentsOf(objs))
<1> DEFINE final(r) == Downgraded(ToldParent(objs, r), ParentsOf(objs), RoutesOf(objs).collisions)
<1>1. Build(objs).parents = {final(r) : r \in ParentsOf(objs)}
  BY BuildResults
<1>2. ASSUME NEW r \in ParentsOf(objs)
      PROVE  /\ final(r).source = r.source /\ final(r).index = r.index
             /\ Told(ChecksOf(objs), r, ParentsOf(objs)) => "HealthCheckNotApplied" \in final(r).problems
             /\ final(r).problems = {} =>
                  /\ r.problems = {} /\ final(r).accepted = r.accepted /\ final(r).resolved = r.resolved
                  /\ ~Told(RoutesOf(objs).skips, r, ParentsOf(objs))
                  /\ ~Told(AnyParent(RoutesOf(objs).collisions), r, ParentsOf(objs))
  <2> DEFINE q == ToldParent(objs, r)
             d == final(r)
  <2>1. IsParentResult(r) /\ IsResult(r)
    BY ParentResults DEF IsParentResult, IsResult
  <2>2. /\ DOMAIN q = DOMAIN r /\ q.source = r.source /\ q.index = r.index
        /\ q.accepted = r.accepted /\ q.resolved = r.resolved
        /\ Told(ChecksOf(objs), r, ParentsOf(objs)) => "HealthCheckNotApplied" \in q.problems
        /\ q.problems = {} => r.problems = {} /\ ~Told(RoutesOf(objs).skips, r, ParentsOf(objs))
    BY <2>1, ReportedFields DEF ToldParent
  <2> HIDE DEF q
  <2>3. IsParentResult(q)
    BY <2>1, <2>2 DEF IsParentResult
  <2>4. /\ d.source = q.source /\ d.index = q.index /\ q.problems \subseteq d.problems
        /\ d.problems = {} => d = q /\ ~Told(AnyParent(RoutesOf(objs).collisions), q, ParentsOf(objs))
    BY <2>3, DowngradedFields DEF q
  <2>5. Told(AnyParent(RoutesOf(objs).collisions), q, ParentsOf(objs))
          <=> Told(AnyParent(RoutesOf(objs).collisions), r, ParentsOf(objs))
    BY <2>2, ToldSame
  <2> HIDE DEF d
  <2> QED
    BY <2>2, <2>4, <2>5 DEF d
<1> HIDE DEF final
<1> QED
  BY <1>1, <1>2

(* The same of Ingresses. *)
LEMMA IngressTold ==
  ASSUME NEW objs
  PROVE  /\ \A r \in IngressesOf(objs) : \E p \in Build(objs).ingresses :
              /\ p.source = r.source
              /\ Told(ChecksOf(objs), r, IngressesOf(objs)) => "HealthCheckNotApplied" \in p.problems
         /\ \A p \in Build(objs).ingresses : \E r \in IngressesOf(objs) :
              /\ p.source = r.source
              /\ p.problems = {} =>
                   /\ r.problems = {} /\ ~Told(RoutesOf(objs).skips, r, IngressesOf(objs))
                   /\ r.source \notin RoutesOf(objs).collisions
<1>1. Build(objs).ingresses = {Collided(objs, r) : r \in IngressesOf(objs)}
  BY BuildResults
<1>2. ASSUME NEW r \in IngressesOf(objs)
      PROVE  /\ Collided(objs, r).source = r.source
             /\ Told(ChecksOf(objs), r, IngressesOf(objs)) => "HealthCheckNotApplied" \in Collided(objs, r).problems
             /\ Collided(objs, r).problems = {} =>
                  /\ r.problems = {} /\ ~Told(RoutesOf(objs).skips, r, IngressesOf(objs))
                  /\ r.source \notin RoutesOf(objs).collisions
  <2> DEFINE q == ToldIngress(objs, r)
             hit == r.source \in RoutesOf(objs).collisions
             claimed == r.source \in LostNames(LoadedCerts(objs))
  <2>1. IsResult(r)
    BY IngressResults
  <2>2. /\ DOMAIN q = DOMAIN r /\ q.source = r.source
        /\ Told(ChecksOf(objs), r, IngressesOf(objs)) => "HealthCheckNotApplied" \in q.problems
        /\ q.problems = {} => r.problems = {} /\ ~Told(RoutesOf(objs).skips, r, IngressesOf(objs))
    BY <2>1, ReportedFields DEF ToldIngress
  <2>3. Collided(objs, r) = [q EXCEPT !.problems = @ \cup (IF hit THEN {"RouteCollision"} ELSE {})
                                                     \cup (IF claimed THEN {"CertificateNameClaimed"} ELSE {})]
    BY DEF Collided
  <2> HIDE DEF q, hit, claimed
  <2>4. LET d == [q EXCEPT !.problems = @ \cup (IF hit THEN {"RouteCollision"} ELSE {})
                                          \cup (IF claimed THEN {"CertificateNameClaimed"} ELSE {})]
        IN d.source = q.source /\ q.problems \subseteq d.problems /\ (d.problems = {} => q.problems = {} /\ ~hit)
    BY <2>1, <2>2 DEF IsResult
  <2> QED
    BY <2>2, <2>3, <2>4 DEF hit
<1> QED
  BY <1>1, <1>2

(* A report that leaves the parent open reaches a result of its source. *)
LEMMA ReportReaches ==
  ASSUME NEW objs, Cached(objs), NEW reports, NEW source, <<source, 0>> \in reports
  PROVE  /\ \A r \in IngressesOf(objs) : r.source = source => Told(reports, r, IngressesOf(objs))
         /\ (\E r \in ParentsOf(objs) : r.source = source) =>
              \E r \in ParentsOf(objs) : r.source = source /\ Told(reports, r, ParentsOf(objs))
<1>1. \A r \in IngressesOf(objs) : r.source = source => Told(reports, r, IngressesOf(objs))
  <2>1. \A r \in IngressesOf(objs) : r.index = 1
    BY IngressResults
  <2> QED
    BY <2>1 DEF Told
<1>2. \A r \in ParentsOf(objs) : r.index \in Nat
  <2> SUFFICES ASSUME NEW r \in ParentsOf(objs) PROVE r.index \in Nat
    OBVIOUS
  <2>1. CASE \E a \in Range(HttpAttachments(objs, BuiltGateways(objs))) : r.index = a.index
    <3>1. PICK a \in Range(HttpAttachments(objs, BuiltGateways(objs))) : r.index = a.index
      BY <2>1
    <3>2. IsList(a.route.parents) /\ a.index \in DOMAIN a.route.parents
      BY HttpAttachmentParts
    <3>3. Len(a.route.parents) \in Nat /\ DOMAIN a.route.parents = 1..Len(a.route.parents)
      BY <3>2, ListFields
    <3> QED
      BY <3>1, <3>2, <3>3
  <2>2. CASE \E a \in Range(L4Attachments(objs, BuiltGateways(objs))) : r.index = a.index
    <3>1. PICK a \in Range(L4Attachments(objs, BuiltGateways(objs))) : r.index = a.index
      BY <2>2
    <3>2. IsList(a.route.parents) /\ a.index \in DOMAIN a.route.parents
      BY L4AttachmentParts
    <3>3. Len(a.route.parents) \in Nat /\ DOMAIN a.route.parents = 1..Len(a.route.parents)
      BY <3>2, ListFields
    <3> QED
      BY <3>1, <3>2, <3>3
  <2> QED
    BY <2>1, <2>2, ParentResults
<1>3. ASSUME \E r \in ParentsOf(objs) : r.source = source
      PROVE  \E r \in ParentsOf(objs) : r.source = source /\ Told(reports, r, ParentsOf(objs))
  <2> DEFINE own == {r \in ParentsOf(objs) : r.source = source}
             T == {r.index : r \in own}
  <2>1. T \in SUBSET Nat /\ T # {}
    BY <1>2, <1>3
  <2>2. PICK n \in T : \A k \in T : ~(k < n)
    <3> HIDE DEF T
    <3> QED
      BY <2>1, LeastNat
  <2>3. PICK r \in own : r.index = n
    BY <2>2
  <2>4. ~\E q \in ParentsOf(objs) : q.source = r.source /\ q.index < r.index
    BY <2>2, <2>3
  <2> QED
    BY <2>3, <2>4 DEF Told
<1> QED
  BY <1>1, <1>3

-----------------------------------------------------------------------------
(* Health checks. *)

(* A socket's frontend stands for the claims that carry it. *)
LEMMA CarriersServed ==
  ASSUME NEW objs, Cached(objs)
  PROVE  LET claims == ClaimsOf(objs) IN
         /\ L4Carriers(claims) \subseteq Range(claims)
         /\ \A c \in L4Carriers(claims) : \E f \in L4Frontends(claims) :
              L4Key(f) = L4Key(c) /\ f.cluster = c.cluster /\ f.proto = c.proto
         /\ \A f \in L4Frontends(claims) : \E c \in L4Carriers(claims) : f.cluster = c.cluster /\ f.proto = c.proto
<1> DEFINE claims == ClaimsOf(objs)
           made(i) == [proto |-> claims[i].proto, addr |-> claims[i].addr, cluster |-> claims[i].cluster]
<1>1. IsList(claims) /\ \A c \in Range(claims) : IsClaim(c.source)
  BY ClaimsResolved
<1> HIDE DEF claims
<1>2. \A i \in DOMAIN claims : claims[i] \in Range(claims)
  BY <1>1, ListFields
<1>3. L4Carriers(claims) \subseteq Range(claims)
  BY <1>2 DEF L4Carriers
<1>4. ASSUME NEW c \in L4Carriers(claims)
      PROVE  \E f \in L4Frontends(claims) : L4Key(f) = L4Key(c) /\ f.cluster = c.cluster /\ f.proto = c.proto
  <2>1. PICK i \in DOMAIN claims : c = claims[i] /\ claims[Holder(claims, i)].cluster = claims[i].cluster
    BY DEF L4Carriers
  <2> DEFINE j == Holder(claims, i)
  <2>2. j \in DOMAIN claims /\ L4Key(claims[j]) = L4Key(claims[i]) /\ Holder(claims, j) = j
    BY <1>1, HolderHolds
  <2> HIDE DEF j
  <2>3. made(j) \in L4Frontends(claims)
    BY <2>2 DEF L4Frontends
  <2>4. L4Key(made(j)) = L4Key(c) /\ made(j).cluster = claims[j].cluster /\ made(j).proto = c.proto
    BY <2>1, <2>2 DEF L4Key
  <2>5. made(j).cluster = c.cluster
    BY <2>1, <2>4 DEF j
  <2> HIDE DEF made
  <2> QED
    BY <2>3, <2>4, <2>5
<1>5. ASSUME NEW f \in L4Frontends(claims)
      PROVE  \E c \in L4Carriers(claims) : f.cluster = c.cluster /\ f.proto = c.proto
  <2>1. PICK i \in DOMAIN claims : f = made(i) /\ Holder(claims, i) = i
    BY DEF L4Frontends
  <2>2. claims[i] \in L4Carriers(claims)
    BY <2>1 DEF L4Carriers
  <2> QED
    BY <2>1, <2>2
<1> QED
  BY <1>3, <1>4, <1>5 DEF claims

(* The clusters as they were built are those of the IR, with the check their Service wants. *)
LEMMA ClustersWant ==
  ASSUME NEW all, NEW http, NEW r \in all, HealthCheck(The(r.svc)) = "tcp"
  PROVE  \E c \in Clusters(all, http) : c.id = r.id /\ c.check # None
<1> DEFINE http2 == \E q \in http : q.id = r.id /\ "h2c" \in AppProtocol(q)
           c == [id |-> r.id, config |-> The(r.svc).config, check |-> "tcp", http2 |-> http2]
<1>1. c \in Clusters(all, http)
  BY Zenon DEF Clusters
<1> HIDE DEF http2
<1>2. c.id = r.id /\ c.check # None
  BY DEF None
<1> QED
  BY <1>1, <1>2

(* The ids of clusters whose traffic a check can follow, and of those a datagram reaches. *)
Streamed(objs) ==
  CarriedBy(L4Carriers(ClaimsOf(objs)), "TCP") \cup {p.cluster : p \in RoutesOf(objs).proxied}

Datagrams(objs) == CarriedBy(L4Carriers(ClaimsOf(objs)), "UDP")

(* The clusters of a build. *)
LEMMA BuiltClusters ==
  ASSUME NEW objs, NEW c \in Build(objs).ir.clusters
  PROVE  \E r \in AllServices(objs) :
           /\ c.id = r.id
           /\ c.check = IF c.id \in Streamed(objs) \ Datagrams(objs) /\ HealthCheck(The(r.svc)) = "tcp" THEN "tcp" ELSE None
BY BuildParts, ClustersOf DEF ClustersBuilt, Streamed, Datagrams

(* A check that runs follows requests or connections, and no datagram. *)
LEMMA CheckRuns ==
  ASSUME NEW objs, Cached(objs), NEW c \in Build(objs).ir.clusters, c.check # None
  PROVE  LET ir == Build(objs).ir IN
         /\ \/ \E i \in DOMAIN ir.frontends : ir.frontends[i].cluster = c.id /\ ir.frontends[i].filters.redirect = {}
            \/ \E f \in ir.l4 : f.cluster = c.id /\ f.proto = "TCP"
         /\ ~\E f \in ir.l4 : f.cluster = c.id /\ f.proto = "UDP"
<1> DEFINE carriers == L4Carriers(ClaimsOf(objs))
<1>1. c.id \in Streamed(objs) /\ c.id \notin Datagrams(objs)
  BY BuiltClusters
<1>2. Build(objs).ir.frontends = RoutesOf(objs).frontends /\ Build(objs).ir.l4 = L4Frontends(ClaimsOf(objs))
  BY BuildParts
<1>3. ~\E f \in Build(objs).ir.l4 : f.cluster = c.id /\ f.proto = "UDP"
  <2> SUFFICES ASSUME NEW f \in L4Frontends(ClaimsOf(objs)), f.cluster = c.id, f.proto = "UDP"
               PROVE  FALSE
    BY <1>2
  <2>1. PICK d \in carriers : f.cluster = d.cluster /\ f.proto = d.proto
    BY CarriersServed
  <2> QED
    BY <1>1, <2>1 DEF Datagrams, CarriedBy
<1>4. \/ \E i \in DOMAIN Build(objs).ir.frontends :
           Build(objs).ir.frontends[i].cluster = c.id /\ Build(objs).ir.frontends[i].filters.redirect = {}
      \/ \E f \in Build(objs).ir.l4 : f.cluster = c.id /\ f.proto = "TCP"
  <2>1. CASE c.id \in CarriedBy(carriers, "TCP")
    <3>1. PICK d \in carriers : d.proto = "TCP" /\ d.cluster = c.id
      BY <2>1 DEF CarriedBy
    <3>2. \E f \in L4Frontends(ClaimsOf(objs)) : f.cluster = d.cluster /\ f.proto = d.proto
      BY CarriersServed
    <3> QED
      BY <1>2, <3>1, <3>2
  <2>2. CASE c.id \in {p.cluster : p \in RoutesOf(objs).proxied}
    <3>1. PICK p \in RoutesOf(objs).proxied : c.id = p.cluster
      BY <2>2
    <3>2. PICK i \in DOMAIN RoutesOf(objs).frontends :
            /\ RoutesOf(objs).frontends[i].cluster = p.cluster
            /\ RoutesOf(objs).frontends[i].filters.redirect = {}
      BY ProxiedAre
    <3> QED
      BY <1>2, <3>1, <3>2
  <2> QED
    BY <1>1, <2>1, <2>2 DEF Streamed
<1> QED
  BY <1>3, <1>4

(* Where a check that a Service wants does not run though there is what it could follow, it was *)
(* lost to a datagram.                                                                           *)
LEMMA CheckLost ==
  ASSUME NEW objs, Cached(objs), NEW c \in Build(objs).ir.clusters, c.check = None,
         NEW svc \in Range(objs), svc.kind = "Service", svc.ns = c.id[1], svc.name = c.id[2], HealthCheck(svc) = "tcp"
  PROVE  /\ c.id # NoCluster
         /\ c.id \in Streamed(objs) =>
              /\ c.id \in Datagrams(objs)
              /\ \E d \in ClustersBuilt(objs) : d.id = c.id /\ d.check # None
<1>1. PICK r \in AllServices(objs) :
        /\ c.id = r.id
        /\ c.check = IF c.id \in Streamed(objs) \ Datagrams(objs) /\ HealthCheck(The(r.svc)) = "tcp" THEN "tcp" ELSE None
  BY BuiltClusters
<1>2. PICK s \in Range(objs) :
        s.kind = "Service" /\ r.svc = {s} /\ r.id[1] = s.ns /\ r.id[2] = s.name /\ r.id # NoCluster
  BY ServicesResolved DEF Resolved
<1>3. Ident(s) = Ident(svc)
  BY <1>1, <1>2 DEF Ident
<1>4. s = svc
  BY <1>3 DEF Cached
<1>5. The(r.svc) = svc
  BY <1>2, <1>4 DEF The
<1>6. \E d \in ClustersBuilt(objs) : d.id = c.id /\ d.check # None
  BY <1>1, <1>5, ClustersWant DEF ClustersBuilt
<1> QED
  BY <1>1, <1>2, <1>5, <1>6 DEF None

(* A source that sends requests to a cluster whose check a datagram took is told. *)
LEMMA SenderTold ==
  ASSUME NEW objs, Cached(objs), NEW s \in Range(FrontendsOf(objs)), NEW p \in RoutesOf(objs).proxied,
         p.source = s.source, p.cluster \in Datagrams(objs),
         \E d \in ClustersBuilt(objs) : d.id = p.cluster /\ d.check # None
  PROVE  \E r \in Build(objs).parents \cup Build(objs).ingresses :
           r.source = s.source /\ "HealthCheckNotApplied" \in r.problems
<1>1. <<s.source, 0>> \in ChecksOf(objs)
  BY DEF ChecksOf, CheckReports, Datagrams
<1>2. CASE \E b \in Range(BuiltIngresses(objs)) : s.source = Source(b.ingress, NoRef)
  <2>1. PICK b \in Range(BuiltIngresses(objs)) : s.source = Source(b.ingress, NoRef)
    BY <1>2
  <2>2. IngressResult(b) \in IngressesOf(objs) /\ IngressResult(b).source = s.source
    BY <2>1 DEF IngressesOf, IngressResult
  <2>3. Told(ChecksOf(objs), IngressResult(b), IngressesOf(objs))
    BY <1>1, <2>2, ReportReaches
  <2> QED
    BY <2>2, <2>3, IngressTold
<1>3. CASE \E a \in Range(HttpAttachments(objs, BuiltGateways(objs))) : s.source = ParentSource(a.route, a.ref)
  <2>1. PICK a \in Range(HttpAttachments(objs, BuiltGateways(objs))) : s.source = ParentSource(a.route, a.ref)
    BY <1>3
  <2>2. HttpParent(a) \in ParentsOf(objs) /\ HttpParent(a).source = s.source
    BY <2>1, ParentResults, HttpParentFields
  <2>3. PICK r \in ParentsOf(objs) : r.source = s.source /\ Told(ChecksOf(objs), r, ParentsOf(objs))
    BY <1>1, <2>2, ReportReaches
  <2> QED
    BY <2>3, ParentTold
<1> QED
  BY <1>2, <1>3, FrontendsLoad

(* A TCP route whose cluster lost its check to a datagram is told. *)
LEMMA CarrierTold ==
  ASSUME NEW objs, Cached(objs), NEW c \in L4Carriers(ClaimsOf(objs)), c.proto = "TCP", c.cluster \in Datagrams(objs),
         \E d \in ClustersBuilt(objs) : d.id = c.cluster /\ d.check # None
  PROVE  \E r \in Build(objs).parents : r.source = c.source /\ "HealthCheckNotApplied" \in r.problems
<1>1. <<c.source, c.index>> \in ChecksOf(objs)
  BY DEF ChecksOf, CheckReports, Datagrams
<1>2. c \in Range(ClaimsOf(objs))
  BY CarriersServed
<1>3. PICK a \in Range(L4Attachments(objs, BuiltGateways(objs))) :
        c.source = ParentSource(a.route, a.ref) /\ c.index = a.index
  BY <1>2, ClaimsResolved
<1>4. PICK r \in ParentsOf(objs) : r.source = c.source /\ r.index = c.index
  BY <1>3, ParentResults
<1>5. Told(ChecksOf(objs), r, ParentsOf(objs))
  BY <1>1, <1>4 DEF Told
<1> QED
  BY <1>4, <1>5, ParentTold

(* A check runs only where TCP traffic goes and no datagram, and whoever's requests go unchecked *)
(* though their Service wants them checked is told, also when another object's identical route   *)
(* is the one Sozu holds (settle_health_checks).                                                  *)
THEOREM ChecksAreSettled == Spec => []ChecksSettled
<1>1. ASSUME CacheInv PROVE ChecksSettled
  <2>1. Cached(live) /\ out = Build(live)
    BY <1>1, CachesAreCached DEF CacheInv
  <2> DEFINE Unchecked(id) == \E c \in out.ir.clusters : c.check = None /\ WantsCheck(c.id) /\ id = c.id
             Told3(source) == \E r \in out.parents \cup out.ingresses : r.source = source /\ "HealthCheckNotApplied" \in r.problems
  <2>2. ASSUME NEW id, Unchecked(id)
        PROVE  /\ id # NoCluster
               /\ id \in Streamed(live) => id \in Datagrams(live) /\ \E d \in ClustersBuilt(live) : d.id = id /\ d.check # None
    <3>1. PICK c \in out.ir.clusters : c.check = None /\ WantsCheck(c.id) /\ id = c.id
      BY <2>2
    <3>2. PICK svc \in Range(OfKind(live, "Service")) :
            svc.ns = c.id[1] /\ svc.name = c.id[2] /\ HealthCheck(svc) = "tcp"
      BY <3>1 DEF WantsCheck
    <3>3. svc \in Range(live) /\ svc.kind = "Service"
      BY <2>1, RoutesOfKind
    <3> QED
      BY <2>1, <3>1, <3>2, <3>3, CheckLost
  <2>3. /\ out.asked = Range(FrontendsOf(live)) /\ out.carriers = L4Carriers(ClaimsOf(live))
        /\ out.served = {[frontend |-> s.frontend, source |-> s.source] : s \in RoutesOf(live).served}
    BY <2>1, BuildParts
  <2>4. ASSUME NEW a \in out.asked, a.frontend.filters.redirect = {}, Unchecked(a.frontend.cluster),
               NEW t \in out.served, SameMatch(t.frontend, a.frontend), SameEffect(t.frontend, a.frontend)
        PROVE  Told3(a.source)
    <3>1. PICK s \in RoutesOf(live).served : t.frontend = s.frontend
      BY <2>3
    <3>2. a.frontend.cluster # NoCluster
      BY <2>2, <2>4
    <3>3. PICK p \in RoutesOf(live).proxied : p.cluster = a.frontend.cluster /\ p.source = a.source
      BY <2>1, <2>3, <2>4, <3>1, <3>2, ProxiedAre
    <3>4. a.frontend.cluster \in Streamed(live)
      BY <3>3 DEF Streamed
    <3>5. p.cluster \in Datagrams(live) /\ \E d \in ClustersBuilt(live) : d.id = p.cluster /\ d.check # None
      BY <2>2, <2>4, <3>3, <3>4
    <3>6. a \in Range(FrontendsOf(live))
      BY <2>3
    <3> QED
      BY <2>1, <3>3, <3>5, <3>6, SenderTold
  <2>5. ASSUME NEW c \in out.carriers, c.proto = "TCP", Unchecked(c.cluster)
        PROVE  Told3(c.source)
    <3>1. c \in L4Carriers(ClaimsOf(live))
      BY <2>3
    <3>2. c.cluster \in Streamed(live)
      BY <2>5, <3>1 DEF Streamed, CarriedBy
    <3>3. c.cluster \in Datagrams(live) /\ \E d \in ClustersBuilt(live) : d.id = c.cluster /\ d.check # None
      BY <2>2, <2>5, <3>2
    <3> QED
      BY <2>1, <2>5, <3>1, <3>3, CarrierTold
  <2>6. ASSUME NEW c \in out.ir.clusters, c.check # None
        PROVE  /\ \/ \E i \in DOMAIN out.ir.frontends :
                       out.ir.frontends[i].cluster = c.id /\ out.ir.frontends[i].filters.redirect = {}
                  \/ \E f \in out.ir.l4 : f.cluster = c.id /\ f.proto = "TCP"
               /\ ~\E f \in out.ir.l4 : f.cluster = c.id /\ f.proto = "UDP"
    BY <2>1, <2>6, CheckRuns
  <2> DEFINE unchecked == {c.id : c \in {d \in out.ir.clusters : d.check = None /\ WantsCheck(d.id)}}
  <2>7. \A id \in unchecked : Unchecked(id)
    OBVIOUS
  <2> HIDE DEF Unchecked, Told3, unchecked
  <2>8. \A a \in out.asked :
          /\ a.frontend.filters.redirect = {} /\ a.frontend.cluster \in unchecked
          /\ (\E s \in out.served : SameMatch(s.frontend, a.frontend) /\ SameEffect(s.frontend, a.frontend))
          => Told3(a.source)
    BY <2>4, <2>7
  <2>9. \A c \in out.carriers : c.proto = "TCP" /\ c.cluster \in unchecked => Told3(c.source)
    BY <2>5, <2>7
  <2> QED
    BY <2>6, <2>8, <2>9 DEF ChecksSettled, Told3, unchecked
<1> QED
  BY <1>1, BuildFollowsCaches, PTL

-----------------------------------------------------------------------------
(* What reads healthy is served. *)

(* A frontend that is kept is in the IR, or all who ask for it are told that it was given up. *)
LEMMA KeptOutcome ==
  ASSUME NEW objs, Cached(objs), NEW w \in Range(Kept(SortedOf(objs)))
  PROVE  \/ w.frontend \in Range(RoutesOf(objs).frontends)
         \/ \A v \in Range(FrontendsOf(objs)) :
              SameMatch(w.frontend, v.frontend) /\ SameEffect(w.frontend, v.frontend) =>
                <<v.source, 0>> \in RoutesOf(objs).skips
<1> DEFINE sorted == SortedOf(objs)
           kept == Kept(sorted)
           lifted == Lift([i \in DOMAIN kept |-> kept[i].frontend])
<1>1. IsList(sorted) /\ IsInjective(sorted)
  BY SortedParts
<1>2. /\ RoutesOf(objs).served = {kept[i] : i \in DOMAIN kept \ lifted.skipped}
      /\ RoutesOf(objs).skips = AnyParent(SkipSources(kept, Folded(sorted), lifted.skipped))
  BY DEF RoutesOf, Arbitrated, Routed, SortedOf
<1>3. IsList(kept) /\ Winner(sorted, w) = w
  BY <1>1, KeptApart, KeptWon
<1>4. PICK i \in DOMAIN kept : w = kept[i]
  <2> HIDE DEF kept
  <2> QED
    BY <1>3, ListFields DEF kept, sorted
<1> HIDE DEF kept, lifted, sorted
<1>5. CASE i \notin lifted.skipped
  <2>1. w \in RoutesOf(objs).served
    BY <1>2, <1>4, <1>5
  <2>2. PICK k \in DOMAIN RoutesOf(objs).frontends : RoutesOf(objs).frontends[k] = w.frontend
    BY <2>1, ServedInIr
  <2> QED
    BY <2>2 DEF Range
<1>6. CASE i \in lifted.skipped
  <2> SUFFICES ASSUME NEW v \in Range(FrontendsOf(objs)),
                      SameMatch(w.frontend, v.frontend), SameEffect(w.frontend, v.frontend)
               PROVE  v.source \in SkipSources(kept, Folded(sorted), lifted.skipped)
    BY <1>2 DEF AnyParent
  <2>1. PICK u \in Range(sorted) : u.frontend = v.frontend /\ u.source = v.source
    BY SortedParts DEF sorted
  <2>2. CASE u.source = w.source
    BY <1>4, <1>6, <2>1, <2>2 DEF SkipSources
  <2>3. CASE u.source # w.source
    <3>1. RouteKey(u.frontend) = RouteKey(w.frontend)
      BY <2>1, MatchTellsKey
    <3>2. Winner(sorted, u) = w
      BY <1>3, <3>1, WinnerOfKey
    <3>3. u \in Folded(sorted)
      BY <2>1, <2>3, <3>2 DEF Folded
    <3> QED
      BY <1>4, <1>6, <2>1, <3>1, <3>3 DEF SkipSources
  <2> QED
    BY <2>2, <2>3
<1> QED
  BY <1>5, <1>6

(* Who asks for something and has no collision to report: its key went to the same match, that does *)
(* the same or is its own.                                                                           *)
LEMMA AskedWon ==
  ASSUME NEW objs, Cached(objs), NEW t \in Range(FrontendsOf(objs)), t.source \notin RoutesOf(objs).collisions
  PROVE  \E w \in Range(Kept(SortedOf(objs))), s \in Range(FrontendsOf(objs)) :
           /\ s.frontend = w.frontend /\ s.source = w.source /\ SameMatch(w.frontend, t.frontend)
           /\ Owner(w.source) = Owner(t.source) \/ SameEffect(w.frontend, t.frontend)
<1> DEFINE sorted == SortedOf(objs)
<1>1. RoutesOf(objs).collisions = Collisions(sorted)
  BY DEF RoutesOf, Arbitrated, Routed, SortedOf
<1>2. PICK u \in Range(sorted) : u.frontend = t.frontend /\ u.source = t.source
  BY SortedParts
<1> DEFINE w == Winner(sorted, u)
<1>3. w \in Range(Kept(sorted)) /\ w \in Range(sorted)
  BY FrontendsLoad, WinnerWins DEF SortedOf
<1>4. PICK s \in Range(FrontendsOf(objs)) : s.frontend = w.frontend /\ s.source = w.source
  BY <1>3, SortedParts
<1>5. ~Collides(sorted, u)
  BY <1>1, <1>2 DEF Collisions
<1> QED
  BY <1>2, <1>3, <1>4, <1>5 DEF Collides

(* A parent that is accepted and has nothing to say has no rule with something to say. *)
LEMMA HealthyRules ==
  ASSUME NEW a, HttpParent(a).accepted, HttpParent(a).problems = {}, NEW rule \in Range(a.rules)
  PROVE  /\ Programs(rule)
         /\ \A m \in Range(rule.matches) : MatchProblem(m) = {} /\ ~Unparsed(a)
<1> DEFINE reason == IF \E r \in Range(a.rules) : Overrides(r) THEN "UnsupportedValue" ELSE "Accepted"
           resolved == \A r \in Range(a.rules) : ~r.parsed.refused => r.backend.err \cup AppProblem(r.backend) = {}
           problems == UNION {RuleProblems(a, r) : r \in Range(a.rules)}
<1>1. HttpParent(a) =
        IF a.addressable = <<>> THEN Parent(a, "NoMatchingParent", TRUE, {})
        ELSE IF a.admitting = <<>> THEN Parent(a, "NotAllowedByListeners", TRUE, {})
        ELSE IF a.matching = <<>> THEN Parent(a, "NoMatchingListenerHostname", TRUE, {})
        ELSE Parent(a, reason, resolved, problems)
  BY DEF HttpParent
<1>2. \A why, ok, said : Parent(a, why, ok, said).accepted = (why = "Accepted") /\ Parent(a, why, ok, said).problems = said
  BY ParentFields
<1> HIDE DEF reason, resolved, problems
<1>3. HttpParent(a) = Parent(a, reason, resolved, problems)
  <2>1. ~Parent(a, "NoMatchingParent", TRUE, {}).accepted
    BY <1>2
  <2>2. ~Parent(a, "NotAllowedByListeners", TRUE, {}).accepted
    BY <1>2
  <2>3. ~Parent(a, "NoMatchingListenerHostname", TRUE, {}).accepted
    BY <1>2
  <2> QED
    BY <1>1, <2>1, <2>2, <2>3, Zenon
<1>4. problems = {}
  <2>1. Parent(a, reason, resolved, problems).problems = problems
    BY <1>2
  <2> QED
    BY <1>3, <2>1
<1>5. RuleProblems(a, rule) = {}
  BY <1>4 DEF problems
<1> DEFINE filtered == /\ Len(rule.refs) = 1 /\ Head(rule.refs).filtered
                       /\ rule.backend.err \cap {"NonServiceBackend", "ZeroWeightBackendUnsupported"} = {}
           found == UNION {MatchProblem(m) : m \in Range(rule.matches)}
           said == IF Unparsed(a) /\ \E m \in Range(rule.matches) : MatchProblem(m) = {} THEN {"InvalidHostname"} ELSE {}
           rest == IF rule.backend.err # {} THEN {} ELSE found \cup said
           late == IF rule.timeouts THEN {"TimeoutsUnsupported"} ELSE {}
           more == late \cup rule.backend.err \cup rule.backend.warn \cup AppProblem(rule.backend) \cup rest
<1>6. RuleProblems(a, rule) =
        (IF rule.parsed.refused \/ rule.parsed.dropped \/ filtered THEN {"FilterUnsupported"} ELSE {})
        \cup IF rule.parsed.refused THEN {} ELSE more
  BY Zenon DEF RuleProblems
<1> HIDE DEF filtered, more
<1>7. ~rule.parsed.refused /\ more = {}
  BY <1>5, <1>6
<1> HIDE DEF late, rest
<1>8. rule.backend.err = {} /\ rest = {}
  BY <1>7 DEF more
<1> HIDE DEF found, said
<1>9. found = {} /\ said = {}
  BY <1>8 DEF rest
<1>10. \A m \in Range(rule.matches) : MatchProblem(m) = {}
  BY <1>9 DEF found
<1>11. \A m \in Range(rule.matches) : ~Unparsed(a)
  BY <1>9, <1>10 DEF said
<1> QED
  BY <1>7, <1>8, <1>10, <1>11 DEF Programs

(* So it asks for a frontend for every match, listener and name. *)
LEMMA HealthyAsks ==
  ASSUME NEW objs, Cached(objs), NEW a \in Range(HttpAttachments(objs, BuiltGateways(objs))),
         HttpParent(a).accepted, HttpParent(a).problems = {}, NEW rule \in Range(a.rules), NEW m \in Range(rule.matches),
         NEW l \in Range(Programmed(a.matching)), NEW host \in Range(EffectiveHostnames(a.route, l))
  PROVE  RuleFrontend(a, rule, m, l, host) \in Range(FrontendsOf(objs))
<1> DEFINE s == RuleFrontend(a, rule, m, l, host)
           http == HttpAttachments(objs, BuiltGateways(objs))
<1>1. Programs(rule) /\ MatchProblem(m) = {} /\ ~Unparsed(a)
  BY HealthyRules
<1>2. ~HostnameRefusal(host)
  BY <1>1 DEF Unparsed
<1>3. IsList(a.route.hosts) /\ IsList(a.matching) /\ RuleLists(rule)
  BY HttpAttachmentParts DEF HttpRouteLists
<1>4. m \in Range(Matched(rule))
  BY <1>1, <1>3, MatchedList
<1>5. host \in Range(EmittedHosts(a.route, l))
  BY <1>2, <1>3, HostsList
<1> HIDE DEF s
<1>6. s \in Range(RuleFrontends(a, rule))
  <2>1. \E n \in Range(Matched(rule)) : \E k \in Range(Programmed(a.matching)) :
          \E h \in Range(EmittedHosts(a.route, k)) : s = RuleFrontend(a, rule, n, k, h)
    BY <1>4, <1>5 DEF s
  <2> QED
    BY <1>1, <1>3, <2>1, RuleFrontendsAre
<1>7. s \in Range(HttpFrontends(http))
  BY <1>6, HttpFrontendsAre
<1> QED
  BY <1>7, FrontendsLoad DEF s

(* What is asked for in the name of an HTTPRoute is one of its rules. *)
LEMMA RouteAsks ==
  ASSUME NEW objs, Cached(objs), NEW s \in Range(FrontendsOf(objs)), s.source.kind = "HTTPRoute"
  PROVE  \E a \in Range(HttpAttachments(objs, BuiltGateways(objs))) : \E r \in Range(a.rules) :
           \E n \in Range(r.matches) : \E l, h : s = RuleFrontend(a, r, n, l, h)
<1> DEFINE http == HttpAttachments(objs, BuiltGateways(objs))
<1>1. s \notin Range(IngressFrontends(BuiltIngresses(objs)))
  <2> SUFFICES ASSUME s \in Range(IngressFrontends(BuiltIngresses(objs))) PROVE FALSE
    OBVIOUS
  <2>1. PICK b \in Range(BuiltIngresses(objs)) : s.source = Source(b.ingress, NoRef)
    BY IngressFrontendsLoad
  <2>2. PICK o \in Range(objs) : IsOurs(o) /\ b = BuiltIngress(objs, o)
    BY IngressesBuilt
  <2>3. b.ingress = o /\ o.kind = "Ingress"
    BY <2>2, IngressParts
  <2>4. s.source.kind = "Ingress"
    BY <2>1, <2>3 DEF Source
  <2> QED
    BY <2>4
<1>2. s \in Range(HttpFrontends(http))
  BY <1>1, FrontendsLoad
<1>3. PICK a \in Range(http) : \E r \in Range(a.rules) : s \in Range(RuleFrontends(a, r))
  BY <1>2, HttpFrontendsAre
<1>4. PICK r \in Range(a.rules) : s \in Range(RuleFrontends(a, r))
  BY <1>3
<1>5. IsList(a.route.hosts) /\ IsList(a.matching) /\ RuleLists(r)
  BY HttpAttachmentParts DEF HttpRouteLists
<1>6. PICK n \in Range(Matched(r)) : \E l \in Range(Programmed(a.matching)) :
        \E h \in Range(EmittedHosts(a.route, l)) : s = RuleFrontend(a, r, n, l, h)
  BY <1>4, <1>5, RuleFrontendsAre
<1>7. n \in Range(r.matches)
  BY <1>5, MatchedList
<1> QED
  BY <1>6, <1>7

(* One owner is one object. *)
LEMMA OneOwner ==
  ASSUME NEW objs, Cached(objs), NEW o \in Range(objs), NEW p \in Range(objs), NEW x, NEW y,
         Owner(Source(o, x)) = Owner(Source(p, y))
  PROVE  o = p
<1>1. Source(o, x).kind = o.kind /\ Source(o, x).ns = o.ns /\ Source(o, x).name = o.name
  BY DEF Source
<1>2. Source(p, y).kind = p.kind /\ Source(p, y).ns = p.ns /\ Source(p, y).name = p.name
  BY DEF Source
<1>3. Ident(o) = Ident(p)
  BY <1>1, <1>2 DEF Owner, Ident
<1> QED
  BY <1>3 DEF Cached

(* What a rule asks for is what matches it and does what it says. *)
LEMMA RuleFrontendMatches ==
  ASSUME NEW a, NEW r, NEW m, NEW l, NEW host, NEW f, SameMatch(f, RuleFrontend(a, r, m, l, host).frontend)
  PROVE  /\ Matches(f, m, l, host)
         /\ SameEffect(f, RuleFrontend(a, r, m, l, host).frontend) => DoesAs(f, r)
<1> DEFINE s == RuleFrontend(a, r, m, l, host)
<1>1. /\ s.frontend.host = host /\ s.frontend.path = PathMatch(m.path) /\ s.frontend.method = m.method
      /\ s.frontend.headers = Counted(m.headers) /\ s.frontend.tls = (l.proto = "HTTPS")
      /\ s.frontend.listener = l.bind /\ s.frontend.cluster = r.backend.id
      /\ s.frontend.filters = r.parsed.filters
  BY RuleFrontendFields
<1> HIDE DEF s
<1>3. SameMatch(f, s.frontend) => Matches(f, m, l, host)
  BY <1>1 DEF SameMatch, Matches
<1>4. SameEffect(f, s.frontend) => DoesAs(f, r)
  BY <1>1 DEF SameEffect, DoesAs
<1> QED
  BY <1>3, <1>4 DEF s

(* A parent that was told nothing is served, every match on every listener under every name. *)
LEMMA RouteIsServed ==
  ASSUME NEW objs, Cached(objs), NEW a \in Range(HttpAttachments(objs, BuiltGateways(objs))),
         HttpParent(a).accepted, HttpParent(a).problems = {},
         ParentSource(a.route, a.ref) \notin RoutesOf(objs).collisions,
         <<ParentSource(a.route, a.ref), 0>> \notin RoutesOf(objs).skips,
         NEW rule \in Range(a.rules), NEW m \in Range(rule.matches),
         NEW l \in Range(Programmed(a.matching)), NEW host \in Range(EffectiveHostnames(a.route, l))
  PROVE  \E f \in Range(RoutesOf(objs).frontends) :
           /\ Matches(f, m, l, host)
           /\ \E r \in Range(a.rules) : DoesAs(f, r) /\ \E n \in Range(r.matches) : Matches(f, n, l, host)
<1> DEFINE t == RuleFrontend(a, rule, m, l, host)
<1>1. t \in Range(FrontendsOf(objs)) /\ t.source = ParentSource(a.route, a.ref)
  BY HealthyAsks, RuleFrontendFields
<1>2. PICK w \in Range(Kept(SortedOf(objs))) : \E s \in Range(FrontendsOf(objs)) :
         /\ s.frontend = w.frontend /\ s.source = w.source /\ SameMatch(w.frontend, t.frontend)
         /\ Owner(w.source) = Owner(t.source) \/ SameEffect(w.frontend, t.frontend)
  <2> HIDE DEF t
  <2> QED
    BY <1>1, AskedWon
<1>3. PICK s \in Range(FrontendsOf(objs)) :
         /\ s.frontend = w.frontend /\ s.source = w.source /\ SameMatch(w.frontend, t.frontend)
         /\ Owner(w.source) = Owner(t.source) \/ SameEffect(w.frontend, t.frontend)
  BY <1>2
<1> DEFINE f == w.frontend
<1>4. /\ a.route \in Range(objs) /\ a.route.kind = "HTTPRoute" /\ a.rules = BuiltRules(objs, a.route)
      /\ \A r \in Range(a.rules) : \A n \in Range(r.matches) : IsPath(n.path)
  BY HttpAttachmentParts DEF RuleLists
<1>5. Matches(f, m, l, host) /\ (SameEffect(f, t.frontend) => DoesAs(f, rule))
  BY <1>3, <1>4, RuleFrontendMatches
<1> HIDE DEF t, f
<1>6. PICK r \in Range(a.rules) : \E n \in Range(r.matches) : DoesAs(f, r) /\ Matches(f, n, l, host)
  <2>1. CASE SameEffect(w.frontend, t.frontend)
    BY <1>5, <2>1 DEF f
  <2>2. CASE Owner(w.source) = Owner(t.source)
    <3>1. s.source.kind = "HTTPRoute"
      <4>1. t.source.kind = "HTTPRoute"
        BY <1>1, <1>4 DEF ParentSource, Source
      <4> QED
        BY <1>3, <2>2, <4>1 DEF Owner
    <3>2. PICK b \in Range(HttpAttachments(objs, BuiltGateways(objs))) : \E r \in Range(b.rules) :
             \E n \in Range(r.matches) : \E k, h : s = RuleFrontend(b, r, n, k, h)
      BY <3>1, RouteAsks
    <3>3. PICK r \in Range(b.rules) : \E n \in Range(r.matches) : \E k, h : s = RuleFrontend(b, r, n, k, h)
      BY <3>2
    <3>4. PICK n \in Range(r.matches) : \E k, h : s = RuleFrontend(b, r, n, k, h)
      BY <3>3
    <3>5. PICK k, h : s = RuleFrontend(b, r, n, k, h)
      BY <3>4
    <3>6. s.source = ParentSource(b.route, b.ref)
      BY <3>5, RuleFrontendFields
    <3>7. b.route \in Range(objs) /\ b.rules = BuiltRules(objs, b.route)
      BY HttpAttachmentParts
    <3>8. b.rules = a.rules
      BY <1>1, <1>3, <1>4, <2>2, <3>6, <3>7, OneOwner DEF ParentSource
    <3>9. SameMatch(f, s.frontend) /\ SameEffect(f, s.frontend)
      BY <1>3 DEF SameMatch, SameEffect, f
    <3>10. Matches(f, n, k, h) /\ DoesAs(f, r)
      BY <1>4, <3>5, <3>8, <3>9, RuleFrontendMatches
    <3>11. Matches(f, n, l, host)
      BY <1>5, <3>10 DEF Matches
    <3> QED
      BY <3>8, <3>10, <3>11
  <2> QED
    BY <1>3, <2>1, <2>2
<1>7. PICK n \in Range(r.matches) : DoesAs(f, r) /\ Matches(f, n, l, host)
  BY <1>6
<1>8. f \in Range(RoutesOf(objs).frontends)
  <2> DEFINE v == RuleFrontend(a, r, n, l, host)
  <2>1. v \in Range(FrontendsOf(objs))
    BY HealthyAsks
  <2>2. /\ v.frontend.host = host /\ v.frontend.path = PathMatch(n.path) /\ v.frontend.method = n.method
        /\ v.frontend.headers = Counted(n.headers) /\ v.frontend.tls = (l.proto = "HTTPS")
        /\ v.frontend.listener = l.bind /\ v.frontend.cluster = r.backend.id
        /\ v.frontend.filters = r.parsed.filters /\ v.source = ParentSource(a.route, a.ref)
    BY RuleFrontendFields
  <2> HIDE DEF v
  <2>4. SameMatch(f, v.frontend)
    BY <1>7, <2>2 DEF Matches, SameMatch
  <2>5. SameEffect(f, v.frontend)
    BY <1>7, <2>2 DEF DoesAs, SameEffect
  <2>6. <<v.source, 0>> \notin RoutesOf(objs).skips
    BY <2>2
  <2> QED
    BY <2>1, <2>4, <2>5, <2>6, KeptOutcome DEF f
<1> QED
  BY <1>5, <1>7, <1>8

(* What is built of a path. *)
LEMMA PathOfFields ==
  ASSUME NEW objs, NEW o, NEW rule, NEW p
  PROVE  LET b == PathOf(objs, o, rule, p) IN
         b.host = RuleHost(rule) /\ b.path = PathMatch(p.path) /\ b.backend = IngressBackend(objs, o, p)
BY DEF PathOf, BuiltPath

(* An Ingress with nothing to say asks for a frontend for every path. *)
LEMMA IngressAsks ==
  ASSUME NEW objs, Cached(objs), NEW o \in Range(objs), IsOurs(o), IngressResult(BuiltIngress(objs, o)).problems = {},
         NEW rule \in Range(o.rules), NEW p \in Range(rule.paths)
  PROVE  \E filters : PathFrontend(BuiltIngress(objs, o), PathOf(objs, o, rule, p), FALSE, filters) \in Range(FrontendsOf(objs))
<1> DEFINE b == BuiltIngress(objs, o)
           q == PathOf(objs, o, rule, p)
           said == {"InvalidHostname"}
           errs == {x.err \cup IF x.err # {} THEN {} ELSE x.backend.warn \cup AppProblem(x.backend) : x \in Range(b.paths)}
<1>1. b.ingress = o /\ IngressLists(o) /\ Range(b.paths) = PathsOf(objs, o)
  BY IngressParts
<1>2. b \in Range(BuiltIngresses(objs))
  BY IngressesBuilt
<1> HIDE DEF b
<1>3. /\ (IF AdmittedRules(b.ingress) # b.ingress.rules THEN said ELSE {}) \subseteq IngressResult(b).problems
      /\ UNION errs \subseteq IngressResult(b).problems
  BY DEF IngressResult
<1>4. AdmittedRules(o) = o.rules /\ UNION errs = {}
  BY <1>1, <1>3 DEF b
<1> HIDE DEF q
<1>5. q \in Range(b.paths)
  BY <1>1, <1>4 DEF PathsOf, q
<1>6. q.err = {}
  BY <1>4, <1>5
<1>7. PICK filters : PathFrontend(b, q, FALSE, filters) \in Range(PathFrontends(b, q))
  BY <1>6, PathFrontendsAre
<1> DEFINE s == PathFrontend(b, q, FALSE, filters)
<1> HIDE DEF s
<1>8. s \in Range(IngressFrontends(BuiltIngresses(objs)))
  <2>1. s \in Range(PathFrontends(b, q))
    BY <1>7 DEF s
  <2> QED
    BY <1>2, <1>5, <2>1, IngressFrontendsAre
<1>9. s \in Range(FrontendsOf(objs))
  BY <1>8, FrontendsLoad
<1> QED
  BY <1>9 DEF s, b, q

(* What is asked for in the name of an Ingress is one of its paths. *)
LEMMA IngressAskedFor ==
  ASSUME NEW objs, Cached(objs), NEW s \in Range(FrontendsOf(objs)), s.source.kind = "Ingress"
  PROVE  \E o \in Range(objs) : \E rule \in Range(o.rules) : \E p \in Range(rule.paths) : \E tls, filters :
           IsOurs(o) /\ s = PathFrontend(BuiltIngress(objs, o), PathOf(objs, o, rule, p), tls, filters)
<1> DEFINE http == HttpAttachments(objs, BuiltGateways(objs))
<1>1. s \notin Range(HttpFrontends(http))
  <2> SUFFICES ASSUME s \in Range(HttpFrontends(http)) PROVE FALSE
    OBVIOUS
  <2>1. PICK a \in Range(http) : s.source = ParentSource(a.route, a.ref)
    BY HttpFrontendsLoad
  <2>2. a.route.kind = "HTTPRoute"
    BY HttpAttachmentParts
  <2>3. s.source.kind = "HTTPRoute"
    BY <2>1, <2>2 DEF ParentSource, Source
  <2> QED
    BY <2>3
<1>2. s \in Range(IngressFrontends(BuiltIngresses(objs)))
  BY <1>1, FrontendsLoad
<1>3. PICK b \in Range(BuiltIngresses(objs)) : \E q \in Range(b.paths) : s \in Range(PathFrontends(b, q))
  BY <1>2, IngressFrontendsAre
<1>4. PICK q \in Range(b.paths) : s \in Range(PathFrontends(b, q))
  BY <1>3
<1>5. PICK o \in Range(objs) : IsOurs(o) /\ b = BuiltIngress(objs, o)
  BY IngressesBuilt
<1>6. IngressLists(o) /\ Range(b.paths) = PathsOf(objs, o)
  BY <1>5, IngressParts
<1>7. PICK rule \in Range(AdmittedRules(o)) : \E p \in Range(rule.paths) : q = PathOf(objs, o, rule, p)
  BY <1>4, <1>6 DEF PathsOf
<1>8. PICK p \in Range(rule.paths) : q = PathOf(objs, o, rule, p)
  BY <1>7
<1>9. rule \in Range(o.rules)
  BY <1>6, RulesAdmitted
<1>10. PICK tls, filters : s = PathFrontend(b, q, tls, filters)
  BY <1>4, PathFrontendsAre
<1> QED
  BY <1>5, <1>8, <1>9, <1>10

(* An Ingress that was told nothing is served, every path of every rule. *)
LEMMA IngressIsServed ==
  ASSUME NEW objs, Cached(objs), NEW o \in Range(objs), IsOurs(o), IngressResult(BuiltIngress(objs, o)).problems = {},
         Source(o, NoRef) \notin RoutesOf(objs).collisions, <<Source(o, NoRef), 0>> \notin RoutesOf(objs).skips,
         NEW rule \in Range(o.rules), NEW p \in Range(rule.paths)
  PROVE  \E f \in Range(RoutesOf(objs).frontends) :
           /\ f.host = RuleHost(rule) /\ SozuRule(f.path) = SozuRule(PathMatch(p.path))
           /\ ~f.tls /\ f.method = None /\ f.headers = {}
           /\ \E d \in Range(o.rules) : \E q \in Range(d.paths) : f.cluster = IngressBackend(objs, o, q).id
<1> DEFINE b == BuiltIngress(objs, o)
           q == PathOf(objs, o, rule, p)
<1>1. PICK filters : PathFrontend(b, q, FALSE, filters) \in Range(FrontendsOf(objs))
  BY IngressAsks
<1>2. b.ingress = o /\ o.kind = "Ingress" /\ IngressLists(o)
  BY IngressParts
<1>3. q.host = RuleHost(rule) /\ q.path = PathMatch(p.path) /\ q.backend = IngressBackend(objs, o, p)
  BY PathOfFields
<1> HIDE DEF b, q
<1> DEFINE plain == FALSE
           t == PathFrontend(b, q, plain, filters)
<1>6. t \in Range(FrontendsOf(objs))
  BY <1>1, Zenon
<1> HIDE DEF plain
<1>7. /\ t.frontend.host = q.host /\ t.frontend.path = q.path /\ t.frontend.method = None
      /\ t.frontend.headers = {} /\ t.frontend.tls = plain /\ t.frontend.cluster = q.backend.id
      /\ t.source = Source(b.ingress, NoRef)
  BY PathFrontendFields
<1> HIDE DEF t
<1>8. t.source \notin RoutesOf(objs).collisions
  BY <1>2, <1>7
<1>9. PICK w \in Range(Kept(SortedOf(objs))) : \E s \in Range(FrontendsOf(objs)) :
         /\ s.frontend = w.frontend /\ s.source = w.source /\ SameMatch(w.frontend, t.frontend)
         /\ Owner(w.source) = Owner(t.source) \/ SameEffect(w.frontend, t.frontend)
  BY <1>6, <1>8, AskedWon
<1>10. PICK s \in Range(FrontendsOf(objs)) :
         /\ s.frontend = w.frontend /\ s.source = w.source /\ SameMatch(w.frontend, t.frontend)
         /\ Owner(w.source) = Owner(t.source) \/ SameEffect(w.frontend, t.frontend)
  BY <1>9
<1> DEFINE f == w.frontend
<1> HIDE DEF f
<1>11. /\ f.host = RuleHost(rule) /\ SozuRule(f.path) = SozuRule(PathMatch(p.path))
       /\ ~f.tls /\ f.method = None /\ f.headers = {}
  BY <1>3, <1>7, <1>10 DEF SameMatch, f, plain
<1>12. ASSUME NEW v \in Range(FrontendsOf(objs)), v.source = t.source, SameMatch(f, v.frontend), SameEffect(f, v.frontend)
       PROVE  f \in Range(RoutesOf(objs).frontends)
  <2>1. <<v.source, 0>> \notin RoutesOf(objs).skips
    BY <1>2, <1>7, <1>12
  <2> QED
    BY <1>12, <2>1, KeptOutcome DEF f
<1>13. CASE SameEffect(w.frontend, t.frontend)
  <2>1. f \in Range(RoutesOf(objs).frontends)
    BY <1>6, <1>10, <1>12, <1>13 DEF f
  <2>2. f.cluster = IngressBackend(objs, o, p).id
    BY <1>3, <1>7, <1>13 DEF SameEffect, f
  <2> QED
    BY <1>11, <2>1, <2>2
<1>14. CASE Owner(w.source) = Owner(t.source)
  <2>1. s.source.kind = "Ingress"
    <3>1. t.source.kind = "Ingress"
      BY <1>2, <1>7 DEF Source
    <3> QED
      BY <1>10, <1>14, <3>1 DEF Owner
  <2>2. PICK e \in Range(objs) : \E d \in Range(e.rules) : \E x \in Range(d.paths) : \E tls, fil :
          IsOurs(e) /\ s = PathFrontend(BuiltIngress(objs, e), PathOf(objs, e, d, x), tls, fil)
    BY <2>1, IngressAskedFor
  <2>3. PICK d \in Range(e.rules) : \E x \in Range(d.paths) : \E tls, fil :
          IsOurs(e) /\ s = PathFrontend(BuiltIngress(objs, e), PathOf(objs, e, d, x), tls, fil)
    BY <2>2
  <2>4. PICK x \in Range(d.paths) : \E tls, fil :
          IsOurs(e) /\ s = PathFrontend(BuiltIngress(objs, e), PathOf(objs, e, d, x), tls, fil)
    BY <2>3
  <2>5. PICK tls, fil : IsOurs(e) /\ s = PathFrontend(BuiltIngress(objs, e), PathOf(objs, e, d, x), tls, fil)
    BY <2>4
  <2>6. /\ s.source = Source(BuiltIngress(objs, e).ingress, NoRef)
        /\ s.frontend.cluster = PathOf(objs, e, d, x).backend.id
    BY <2>5, PathFrontendFields
  <2>7. BuiltIngress(objs, e).ingress = e /\ PathOf(objs, e, d, x).backend = IngressBackend(objs, e, x)
    BY <2>5, IngressParts, PathOfFields
  <2>8. e = o
    BY <1>2, <1>7, <1>10, <1>14, <2>6, <2>7, OneOwner
  <2>9. s.source = t.source
    BY <1>2, <1>7, <2>6, <2>7, <2>8
  <2>10. SameMatch(f, s.frontend) /\ SameEffect(f, s.frontend)
    BY <1>10 DEF SameMatch, SameEffect, f
  <2>11. f \in Range(RoutesOf(objs).frontends)
    BY <1>12, <2>9, <2>10
  <2>12. f.cluster = IngressBackend(objs, o, x).id /\ d \in Range(o.rules)
    BY <1>10, <2>6, <2>7, <2>8 DEF f
  <2> QED
    BY <1>11, <2>11, <2>12
<1> QED
  BY <1>10, <1>13, <1>14

(* A socket route that was told nothing is served on every listener. *)
LEMMA SocketIsServed ==
  ASSUME NEW objs, Cached(objs), NEW a \in Range(L4Attachments(objs, BuiltGateways(objs))),
         L4Parent(a).accepted, L4Parent(a).problems = {},
         ~\E c \in Range(ClaimsOf(objs)) \ L4Carriers(ClaimsOf(objs)) :
            c.source = ParentSource(a.route, a.ref) /\ c.index = a.index,
         NEW l \in Range(Programmed(a.admitting))
  PROVE  \E f \in L4Frontends(ClaimsOf(objs)) : f.proto = l.proto /\ f.addr = l.bind /\ f.cluster = a.backend.id
<1> DEFINE l4 == L4Attachments(objs, BuiltGateways(objs))
           resolved == a.backend.err = {}
           problems == a.backend.err \cup a.backend.warn
<1>1. L4Parent(a) =
        IF a.addressable = <<>> THEN Parent(a, "NoMatchingParent", TRUE, {})
        ELSE IF a.admitting = <<>> THEN Parent(a, "NotAllowedByListeners", TRUE, {})
        ELSE Parent(a, "Accepted", resolved, problems)
  BY DEF L4Parent
<1>2. \A why, ok, said : Parent(a, why, ok, said).accepted = (why = "Accepted") /\ Parent(a, why, ok, said).problems = said
  BY ParentFields
<1> HIDE DEF resolved, problems
<1>3. L4Parent(a) = Parent(a, "Accepted", resolved, problems)
  <2>1. ~Parent(a, "NoMatchingParent", TRUE, {}).accepted
    BY <1>2
  <2>2. ~Parent(a, "NotAllowedByListeners", TRUE, {}).accepted
    BY <1>2
  <2> QED
    BY <1>1, <2>1, <2>2, Zenon
<1>4. problems = {}
  <2>1. Parent(a, "Accepted", resolved, problems).problems = problems
    BY <1>2
  <2> QED
    BY <1>3, <2>1
<1>5. a.backend.err = {}
  BY <1>4 DEF problems
<1> DEFINE c == L4Claim(a, l)
<1>6. /\ c.proto = l.proto /\ c.addr = l.bind /\ c.cluster = a.backend.id /\ c.index = a.index
      /\ c.source = ParentSource(a.route, a.ref)
  BY ClaimFields
<1> HIDE DEF c
<1>7. c \in Range(ClaimsOf(objs))
  <2>1. IsList(l4) /\ \A b \in Range(l4) : IsList(b.admitting)
    BY L4AttachmentsMade, L4AttachmentParts
  <2> HIDE DEF l4
  <2>2. a \in Range(l4)
    BY DEF l4
  <2> QED
    BY <1>5, <2>1, <2>2, ClaimsAre DEF ClaimsOf, c, l4
<1>8. c \in L4Carriers(ClaimsOf(objs))
  BY <1>6, <1>7
<1>9. PICK f \in L4Frontends(ClaimsOf(objs)) : L4Key(f) = L4Key(c) /\ f.cluster = c.cluster /\ f.proto = c.proto
  BY <1>8, CarriersServed
<1>10. f.addr = c.addr
  BY <1>9 DEF L4Key
<1> QED
  BY <1>6, <1>9, <1>10

(* A parent's source and place tell the attachment. *)
LEMMA OneAttachment ==
  ASSUME NEW objs, Cached(objs)
  PROVE  /\ \A a, b \in Range(HttpAttachments(objs, BuiltGateways(objs))) :
              a.index = b.index /\ ParentSource(a.route, a.ref) = ParentSource(b.route, b.ref) => a = b
         /\ \A a, b \in Range(L4Attachments(objs, BuiltGateways(objs))) :
              a.index = b.index /\ ParentSource(a.route, a.ref) = ParentSource(b.route, b.ref) => a = b
<1>1. ASSUME NEW a \in Range(HttpAttachments(objs, BuiltGateways(objs))),
             NEW b \in Range(HttpAttachments(objs, BuiltGateways(objs))),
             a.index = b.index, ParentSource(a.route, a.ref) = ParentSource(b.route, b.ref)
      PROVE  a = b
  <2>1. a.route \in Range(objs) /\ b.route \in Range(objs)
    BY HttpAttachmentParts
  <2>2. a.route = b.route
    BY <1>1, <2>1, OneOwner DEF ParentSource
  <2> QED
    BY <1>1, <2>2, HttpAttachmentParts
<1>2. ASSUME NEW a \in Range(L4Attachments(objs, BuiltGateways(objs))),
             NEW b \in Range(L4Attachments(objs, BuiltGateways(objs))),
             a.index = b.index, ParentSource(a.route, a.ref) = ParentSource(b.route, b.ref)
      PROVE  a = b
  <2>1. a.route \in Range(objs) /\ b.route \in Range(objs)
    BY L4AttachmentParts
  <2>2. a.route = b.route
    BY <1>2, <2>1, OneOwner DEF ParentSource
  <2>3. /\ a = L4Attachment(objs, BuiltGateways(objs), a.route, a.index)
        /\ b = L4Attachment(objs, BuiltGateways(objs), b.route, b.index)
    BY L4AttachmentParts
  <2> QED
    BY <1>2, <2>2, <2>3
<1> QED
  BY <1>1, <1>2

(* So AttachmentOf finds it. *)
LEMMA AttachmentFound ==
  ASSUME NEW all, NEW a \in Range(all), NEW p, p.index = a.index, p.source = ParentSource(a.route, a.ref),
         \A b \in Range(all) : a.index = b.index /\ ParentSource(a.route, a.ref) = ParentSource(b.route, b.ref) => b = a
  PROVE  AttachmentOf(all, p) = a
<1>1. {b \in Range(all) : b.index = p.index /\ ParentSource(b.route, b.ref) = p.source} = {a}
  OBVIOUS
<1> QED
  BY <1>1 DEF AttachmentOf, The

(* A listener as built that admits routes is programmed, or waits for a certificate and says so. *)
Opened(l) == l.programmed \/ (l.proto = "HTTPS" /\ ~l.resolved)

LEMMA ListenerOpened ==
  ASSUME NEW objs, NEW g, NEW k, NEW routeNs, NEW gwNs, Listener(objs, g, k).accepted,
         Listener(objs, g, k).routable, AdmitsNamespace(objs, Listener(objs, g, k), routeNs, gwNs)
  PROVE  Opened(Listener(objs, g, k))
<1> DEFINE refusal == ListenerRefusal(g, k)
           l == Listener(objs, g, k)
           opens == refusal = {} /\ ~SelectorInvalid(k)
           bind == IF refusal = {} THEN The(Exposed(k.proto, k.port)).bind ELSE 0
           tls == ListenerTls(objs, g, k, bind, opens)
           loaded == k.proto = "HTTPS" => tls.certs # {}
<1>1. /\ l.accepted = (refusal = {} /\ ~g.params) /\ l.routable = (k.proto \in Protocols)
      /\ l.programmed = (opens /\ loaded /\ ~g.params) /\ l.proto = k.proto
      /\ l.resolved = (k.proto \in Protocols => (tls.terminates => loaded) /\ k.kinds \subseteq {RouteKind(k.proto)})
      /\ l.from = k.from /\ l.selector = k.selector
  BY DEF Listener, ListenerUnless
<1>2. opens => k.proto # "HTTPS" \/ tls.terminates
  BY DEF ListenerTls
<1> HIDE DEF l, tls, bind, refusal
<1>3. refusal = {} /\ ~g.params /\ k.proto \in Protocols
  BY <1>1 DEF l
<1>4. ~SelectorInvalid(k)
  <2> SUFFICES ASSUME SelectorInvalid(k) PROVE FALSE
    OBVIOUS
  <2>1. l.from = "Selector" /\ Unevaluable(l.selector)
    BY <1>1 DEF SelectorInvalid
  <2>2. ~AdmitsNamespace(objs, l, routeNs, gwNs)
    BY <2>1 DEF AdmitsNamespace
  <2> QED
    BY <2>2 DEF l
<1>5. Opened(l)
  BY <1>1, <1>2, <1>3, <1>4 DEF Opened
<1> QED
  BY <1>5 DEF l

(* A listener that admits a route is one of the Gateway the parentRef names. *)
LEMMA AdmittingOpened ==
  ASSUME NEW objs, Cached(objs), NEW o, NEW i \in OurParents(BuiltGateways(objs), o),
         NEW l \in Range(Admitting(objs, BuiltGateways(objs), o, o.parents[i]))
  PROVE  /\ Opened(l) /\ o.kind \in l.kinds
         /\ \E g \in BuiltGateways(objs) :
              g.ns = ParentNs(o, o.parents[i]) /\ g.name = o.parents[i].gateway /\ l \in Range(g.listeners)
<1> DEFINE gws == BuiltGateways(objs)
           ref == o.parents[i]
           its == {g \in gws : g.ns = ParentNs(o, ref) /\ g.name = ref.gateway}
           g == ParentGateway(gws, o, ref)
<1>1. g \in its
  BY DEF OurParents, ParentGateway, The
<1>2. IsList(g.listeners)
  BY <1>1, BuiltListeners
<1> DEFINE all == g.listeners
           some == Addressable(gws, o, ref)
           reach == {k \in Range(all) : k.routable /\ ref.section \in {None, k.name} /\ ref.port \in {0, k.port}}
           admit == {k \in Range(some) : k.accepted /\ o.kind \in k.kinds
                                          /\ AdmitsNamespace(objs, k, o.ns, ParentNs(o, ref))}
<1>3. some = Filtered(all, reach) /\ Admitting(objs, gws, o, ref) = Filtered(some, admit)
  BY DEF Addressable, Admitting
<1>4. \A k \in reach : k.routable /\ k \in Range(all)
  OBVIOUS
<1>5. \A k \in admit : k.accepted /\ o.kind \in k.kinds /\ AdmitsNamespace(objs, k, o.ns, ParentNs(o, ref))
  OBVIOUS
<1> HIDE DEF reach, admit, all, some, g
<1>6. IsList(some) /\ Range(some) = Range(all) \cap reach
  BY <1>2, <1>3, FilteredList DEF all
<1>7. Range(Filtered(some, admit)) = Range(some) \cap admit
  BY <1>6, FilteredList
<1>8. l \in Range(all) /\ l \in reach /\ l \in admit
  BY <1>3, <1>6, <1>7
<1>9. PICK h \in OurGateways(objs) : g = [h EXCEPT !.listeners = [j \in DOMAIN @ |-> Listener(objs, h, @[j])]]
  BY <1>1 DEF BuiltGateways
<1>10. "listeners" \in DOMAIN h
  BY DEF OurGateways, Cached, WellFormed
<1>11. all = [j \in DOMAIN h.listeners |-> Listener(objs, h, h.listeners[j])]
  BY <1>9, <1>10 DEF all
<1>12. PICK j \in DOMAIN h.listeners : l = Listener(objs, h, h.listeners[j])
  BY <1>8, <1>11 DEF Range
<1>13. Opened(l)
  BY <1>4, <1>5, <1>8, <1>12, ListenerOpened
<1> QED
  BY <1>1, <1>5, <1>8, <1>13 DEF all

(* The place of an attachment is a parentRef of ours. *)
LEMMA AttachedAtParent ==
  ASSUME NEW objs, Cached(objs)
  PROVE  /\ \A a \in Range(HttpAttachments(objs, BuiltGateways(objs))) :
              a.index \in OurParents(BuiltGateways(objs), a.route)
         /\ \A a \in Range(L4Attachments(objs, BuiltGateways(objs))) :
              a.index \in OurParents(BuiltGateways(objs), a.route)
<1> DEFINE gws == BuiltGateways(objs)
<1>1. ASSUME NEW a \in Range(HttpAttachments(objs, gws)) PROVE a.index \in OurParents(gws, a.route)
  <2>1. PICK o \in Range(objs) : \E i \in OurParents(gws, o) : a = HttpAttachment(objs, gws, o, i)
    BY HttpAttachmentsMade
  <2>2. PICK i \in OurParents(gws, o) : a = HttpAttachment(objs, gws, o, i)
    BY <2>1
  <2>3. a.route = o /\ a.index = i
    BY <2>2 DEF HttpAttachment
  <2> QED
    BY <2>3
<1>2. ASSUME NEW a \in Range(L4Attachments(objs, gws)) PROVE a.index \in OurParents(gws, a.route)
  <2>1. PICK o \in Range(objs) : \E i \in OurParents(gws, o) : a = L4Attachment(objs, gws, o, i)
    BY L4AttachmentsMade
  <2>2. PICK i \in OurParents(gws, o) : a = L4Attachment(objs, gws, o, i)
    BY <2>1
  <2>3. a.route = o /\ a.index = i
    BY <2>2 DEF L4Attachment
  <2> QED
    BY <2>3
<1> QED
  BY <1>1, <1>2

(* A listener that admits a layer-4 route is programmed. *)
LEMMA SocketProgrammed ==
  ASSUME NEW objs, Cached(objs), NEW a \in Range(L4Attachments(objs, BuiltGateways(objs))),
         NEW l \in Range(a.admitting)
  PROVE  l \in Range(Programmed(a.admitting))
<1>1. /\ a.route.kind \in {"TCPRoute", "UDPRoute"} /\ a.ref = a.route.parents[a.index] /\ IsList(a.admitting)
      /\ a = L4Attachment(objs, BuiltGateways(objs), a.route, a.index)
  BY L4AttachmentParts
<1>2. a.admitting = Admitting(objs, BuiltGateways(objs), a.route, a.route.parents[a.index])
  BY <1>1 DEF L4Attachment
<1>3. Opened(l) /\ a.route.kind \in l.kinds /\ \E g \in BuiltGateways(objs) : l \in Range(g.listeners)
  BY <1>2, AttachedAtParent, AdmittingOpened
<1>4. l.proto # "HTTPS"
  <2>1. PICK g \in BuiltGateways(objs) : l \in Range(g.listeners)
    BY <1>3
  <2>2. PICK h \in OurGateways(objs) : g = [h EXCEPT !.listeners = [j \in DOMAIN @ |-> Listener(objs, h, @[j])]]
    BY <2>1 DEF BuiltGateways
  <2>3. "listeners" \in DOMAIN h
    BY DEF OurGateways, Cached, WellFormed
  <2>4. g.listeners = [j \in DOMAIN h.listeners |-> Listener(objs, h, h.listeners[j])]
    BY <2>2, <2>3
  <2>5. PICK j \in DOMAIN h.listeners : l = Listener(objs, h, h.listeners[j])
    BY <2>1, <2>4 DEF Range
  <2>6. l.kinds \subseteq OwnKinds(l.proto)
    BY <2>5 DEF Listener, ListenerUnless
  <2>7. OwnKinds("HTTPS") = {"HTTPRoute"}
    BY DEF OwnKinds, RouteKind, Protocols
  <2> QED
    BY <1>1, <1>3, <2>6, <2>7
<1> QED
  BY <1>1, <1>3, <1>4, ProgrammedList DEF Opened

(* What the statuses of the Gateways say of their listeners is what was built. *)
LEMMA ListenerStatus ==
  ASSUME NEW objs, Cached(objs), NEW g \in BuiltGateways(objs), NEW l \in Range(g.listeners)
  PROVE  \E r \in Build(objs).gateways :
           /\ r.ns = g.ns /\ r.name = g.name
           /\ \E k \in Range(r.listeners) : k.name = l.name /\ k.programmed = l.programmed /\ k.resolved = l.resolved
<1> DEFINE http == HttpAttachments(objs, BuiltGateways(objs))
           l4 == L4Attachments(objs, BuiltGateways(objs))
           attached == HttpAttached(http) \cup L4Attached(l4)
           lost == LostNames(LoadedCerts(objs))
           final(r) == [r EXCEPT !.problems = @ \cup
                          (IF \E s \in lost : s.kind = "Gateway" /\ s.ns = r.ns /\ s.name = r.name
                           THEN {"CertificateNameClaimed"} ELSE {})]
           r == GatewayResult(g, attached)
<1>1. Build(objs).gateways = {final(h) : h \in {GatewayResult(k, attached) : k \in BuiltGateways(objs)}}
  BY Zenon DEF Build, BuildOn, Attached, Arbitrate, Settled, Output, Collected, LoadedCerts
<1>2. final(r) \in Build(objs).gateways
  <2>1. r \in {GatewayResult(k, attached) : k \in BuiltGateways(objs)}
    OBVIOUS
  <2> HIDE DEF r, final, attached
  <2> QED
    BY <1>1, <2>1
<1>3. /\ r.ns = g.ns /\ r.name = g.name
      /\ DOMAIN r.listeners = DOMAIN g.listeners
      /\ \A i \in DOMAIN g.listeners :
           /\ r.listeners[i].name = g.listeners[i].name /\ r.listeners[i].programmed = g.listeners[i].programmed
           /\ r.listeners[i].resolved = g.listeners[i].resolved
  BY DEF GatewayResult
<1>4. final(r).ns = r.ns /\ final(r).name = r.name /\ final(r).listeners = r.listeners
  <2>1. {"ns", "name", "listeners"} \subseteq DOMAIN r
    BY DEF GatewayResult
  <2> HIDE DEF r
  <2> QED
    BY <2>1
<1> HIDE DEF r, final
<1>5. PICK i \in DOMAIN g.listeners : l = g.listeners[i]
  BY DEF Range
<1>6. r.listeners[i] \in Range(final(r).listeners)
  BY <1>3, <1>4 DEF Range
<1> QED
  BY <1>2, <1>3, <1>4, <1>5, <1>6

(* A listener that admits a route without serving it reads unprogrammed. *)
LEMMA ReadsUnprogrammed ==
  ASSUME Cached(live), out = Build(live), NEW a \in Range(HttpAttachments(live, BuiltGateways(live))),
         NEW l \in Range(a.matching), l \notin Range(Programmed(a.matching))
  PROVE  Unprogrammed(a, l)
<1> DEFINE gws == BuiltGateways(live)
           admitting == Admitting(live, gws, a.route, a.ref)
           named == {k \in Range(admitting) : EffectiveHostnames(a.route, k) # <<>>}
<1>1. /\ a.ref = a.route.parents[a.index] /\ IsList(a.matching)
      /\ a = HttpAttachment(live, gws, a.route, a.index) /\ a.index \in OurParents(gws, a.route)
  BY HttpAttachmentParts, AttachedAtParent
<1>2. a.matching = Filtered(admitting, named)
  BY <1>1 DEF HttpAttachment, Matching
<1>3. IsList(admitting)
  BY <1>1, ParentListeners
<1> HIDE DEF admitting, named
<1>4. l \in Range(admitting)
  BY <1>2, <1>3, FilteredList
<1>5. /\ Opened(l)
      /\ \E g \in gws : g.ns = ParentNs(a.route, a.ref) /\ g.name = a.ref.gateway /\ l \in Range(g.listeners)
  BY <1>1, <1>4, AdmittingOpened DEF admitting
<1>6. ~l.programmed /\ ~l.resolved
  BY <1>1, <1>5, ProgrammedList DEF Opened
<1>7. PICK g \in gws : g.ns = ParentNs(a.route, a.ref) /\ g.name = a.ref.gateway /\ l \in Range(g.listeners)
  BY <1>5
<1>8. PICK r \in out.gateways :
        /\ r.ns = g.ns /\ r.name = g.name
        /\ \E k \in Range(r.listeners) : k.name = l.name /\ k.programmed = l.programmed /\ k.resolved = l.resolved
  BY <1>7, ListenerStatus
<1> QED
  BY <1>6, <1>7, <1>8 DEF Unprogrammed

(* A parent that reads healthy is served. *)
LEMMA HealthyParent ==
  ASSUME Cached(live), out = Build(live), NEW p \in out.parents, Healthy(p), ~Twin(p)
  PROVE  ParentServed(p)
<1> DEFINE http == HttpAttachments(live, BuiltGateways(live))
           l4 == L4Attachments(live, BuiltGateways(live))
           losers == Range(ClaimsOf(live)) \ L4Carriers(ClaimsOf(live))
<1>1. out.ir.frontends = RoutesOf(live).frontends /\ out.ir.l4 = L4Frontends(ClaimsOf(live))
  BY BuildParts
<1>2. PICK r \in ParentsOf(live) :
        /\ p.source = r.source /\ p.index = r.index
        /\ r.problems = {} /\ r.accepted
        /\ ~Told(RoutesOf(live).skips, r, ParentsOf(live))
        /\ ~Told(AnyParent(RoutesOf(live).collisions), r, ParentsOf(live))
  BY ParentTold DEF Healthy
<1>3. \/ \E a \in Range(http) : r = HttpParent(a) /\ r.source = ParentSource(a.route, a.ref) /\ r.index = a.index
      \/ \E a \in Range(l4) :
           /\ r.source = ParentSource(a.route, a.ref) /\ r.index = a.index
           /\ r.accepted = L4Parent(a).accepted
           /\ r.problems = {} => /\ L4Parent(a).problems = {}
                                 /\ ~\E c \in losers : c.source = r.source /\ c.index = r.index
  BY ParentResults
<1>4. ASSUME NEW a \in Range(http), r = HttpParent(a), r.source = ParentSource(a.route, a.ref), r.index = a.index
      PROVE  p.source.kind = "HTTPRoute" /\ RouteServed(AttachmentOf(http, p))
  <2>1. a.route.kind = "HTTPRoute" /\ AttachmentOf(http, p) = a
    BY <1>2, <1>4, HttpAttachmentParts, OneAttachment, AttachmentFound
  <2>5. p.source.kind = "HTTPRoute"
    BY <1>2, <1>4, <2>1 DEF ParentSource, Source
  <2>2. ~\E s \in ParentsOf(live) : s.source = r.source /\ s.index < r.index
    <3> SUFFICES ASSUME NEW s \in ParentsOf(live), s.source = r.source, s.index < r.index PROVE FALSE
      OBVIOUS
    <3>1. PICK q \in out.parents : q.source = s.source /\ q.index = s.index
      BY ParentTold
    <3> QED
      BY <1>2, <2>5, <3>1 DEF Twin
  <2>3. <<r.source, 0>> \notin RoutesOf(live).skips /\ r.source \notin RoutesOf(live).collisions
    BY <1>2, <2>2 DEF Told, AnyParent
  <2>4. RouteServed(a)
    <3>1. ASSUME NEW rule \in Range(a.rules), NEW m \in Range(rule.matches), NEW l \in Range(a.matching),
                 ~Unprogrammed(a, l), NEW host \in Range(EffectiveHostnames(a.route, l))
          PROVE  \E f \in Range(out.ir.frontends) :
                   /\ Matches(f, m, l, host)
                   /\ \E q \in Range(a.rules) : DoesAs(f, q) /\ \E n \in Range(q.matches) : Matches(f, n, l, host)
      <4>1. l \in Range(Programmed(a.matching))
        BY <3>1, ReadsUnprogrammed
      <4> QED
        BY <1>1, <1>2, <1>4, <2>3, <4>1, RouteIsServed
    <3> QED
      BY <3>1 DEF RouteServed
  <2> QED
    BY <2>1, <2>4, <2>5
<1>5. ASSUME NEW a \in Range(l4), r.source = ParentSource(a.route, a.ref), r.index = a.index,
             L4Parent(a).accepted, L4Parent(a).problems = {},
             ~\E c \in losers : c.source = r.source /\ c.index = r.index
      PROVE  p.source.kind # "HTTPRoute" /\ SocketServed(AttachmentOf(l4, p))
  <2>1. a.route.kind \in {"TCPRoute", "UDPRoute"}
    BY L4AttachmentParts
  <2>2. AttachmentOf(l4, p) = a
    BY <1>2, <1>5, OneAttachment, AttachmentFound
  <2>3. SocketServed(a)
    BY <1>1, <1>5, SocketIsServed, SocketProgrammed DEF SocketServed
  <2>4. p.source.kind # "HTTPRoute"
    BY <1>2, <1>5, <2>1 DEF ParentSource, Source
  <2> QED
    BY <2>2, <2>3, <2>4
<1>6. CASE \E a \in Range(http) : r = HttpParent(a) /\ r.source = ParentSource(a.route, a.ref) /\ r.index = a.index
  BY <1>4, <1>6 DEF ParentServed
<1>7. CASE \E a \in Range(l4) :
             /\ r.source = ParentSource(a.route, a.ref) /\ r.index = a.index
             /\ r.accepted = L4Parent(a).accepted
             /\ r.problems = {} => /\ L4Parent(a).problems = {}
                                   /\ ~\E c \in losers : c.source = r.source /\ c.index = r.index
  BY <1>2, <1>5, <1>7 DEF ParentServed
<1> QED
  BY <1>3, <1>6, <1>7

(* An Ingress without a problem is served. *)
LEMMA OursServed ==
  ASSUME Cached(live), out = Build(live), NEW p \in out.ingresses, p.problems = {}
  PROVE  IngressServed(The(Named(live, "Ingress", p.source.ns, p.source.name)))
<1>1. out.ir.frontends = RoutesOf(live).frontends
  BY BuildParts
<1>2. PICK r \in IngressesOf(live) :
        /\ p.source = r.source /\ r.problems = {} /\ ~Told(RoutesOf(live).skips, r, IngressesOf(live))
        /\ r.source \notin RoutesOf(live).collisions
  BY IngressTold
<1>3. PICK b \in Range(BuiltIngresses(live)) : r = IngressResult(b) /\ r.source = Source(b.ingress, NoRef)
  BY IngressResults
<1>4. PICK o \in Range(live) : IsOurs(o) /\ b = BuiltIngress(live, o)
  BY IngressesBuilt
<1>5. b.ingress = o /\ o.kind = "Ingress"
  BY <1>4, IngressParts
<1>6. The(Named(live, "Ingress", p.source.ns, p.source.name)) = o
  <2>1. p.source.ns = o.ns /\ p.source.name = o.name
    BY <1>2, <1>3, <1>5 DEF Source
  <2>2. Named(live, "Ingress", o.ns, o.name) = {o}
    <3>1. \A q \in Range(live) : q.kind = o.kind /\ q.ns = o.ns /\ q.name = o.name => q = o
      BY DEF Cached, Ident
    <3> QED
      BY <1>5, <3>1 DEF Named
  <2> QED
    BY <2>1, <2>2 DEF The
<1>7. <<Source(o, NoRef), 0>> \notin RoutesOf(live).skips
  BY <1>2, <1>3, <1>5, ReportReaches
<1>8. IngressServed(o)
  <2>1. IngressResult(BuiltIngress(live, o)).problems = {} /\ Source(o, NoRef) \notin RoutesOf(live).collisions
    BY <1>2, <1>3, <1>4, <1>5
  <2> DEFINE paths == UNION {Range(d.paths) : d \in Range(o.rules)}
  <2>2. \A d \in Range(o.rules) : \A q \in Range(d.paths) : q \in paths
    OBVIOUS
  <2>3. IngressServed(o) <=>
          \A rule \in Range(o.rules) : \A x \in Range(rule.paths) : \E f \in Range(out.ir.frontends) :
            /\ f.host = RuleHost(rule) /\ SozuRule(f.path) = SozuRule(PathMatch(x.path))
            /\ ~f.tls /\ f.method = None /\ f.headers = {}
            /\ \E q \in paths : f.cluster = IngressBackend(live, o, q).id
    BY Zenon DEF IngressServed
  <2> HIDE DEF paths
  <2>4. ASSUME NEW rule \in Range(o.rules), NEW x \in Range(rule.paths)
        PROVE  \E f \in Range(out.ir.frontends) :
                 /\ f.host = RuleHost(rule) /\ SozuRule(f.path) = SozuRule(PathMatch(x.path))
                 /\ ~f.tls /\ f.method = None /\ f.headers = {}
                 /\ \E q \in paths : f.cluster = IngressBackend(live, o, q).id
    <3>1. PICK f \in Range(RoutesOf(live).frontends) :
             /\ f.host = RuleHost(rule) /\ SozuRule(f.path) = SozuRule(PathMatch(x.path))
             /\ ~f.tls /\ f.method = None /\ f.headers = {}
             /\ \E d \in Range(o.rules) : \E q \in Range(d.paths) : f.cluster = IngressBackend(live, o, q).id
      BY <1>4, <1>7, <2>1, IngressIsServed
    <3>2. \E q \in paths : f.cluster = IngressBackend(live, o, q).id
      BY <2>2, <3>1
    <3>3. f \in Range(out.ir.frontends)
      BY <1>1
    <3> QED
      BY <3>1, <3>2, <3>3
  <2> QED
    BY <2>3, <2>4
<1> QED
  BY <1>6, <1>8

(* Nothing is dropped in silence: what reads healthy is served, after whatever collisions, skipped   *)
(* header matches and lost sockets, or its listener reads unprogrammed; a parentRef that is a twin of  *)
(* an earlier one is excepted by name, the code tells a collision to the first parentRef with the      *)
(* loser's fields only (lib.rs 4061).                                                                  *)
THEOREM HealthyAreServed == Spec => []HealthyMeansServed
<1>1. ASSUME CacheInv PROVE HealthyMeansServed
  <2>1. Cached(live) /\ out = Build(live)
    BY <1>1, CachesAreCached DEF CacheInv
  <2>2. \A p \in out.parents : Healthy(p) /\ ~Twin(p) => ParentServed(p)
    BY <2>1, HealthyParent
  <2>3. \A r \in out.ingresses : r.problems = {} =>
          IngressServed(The(Named(live, "Ingress", r.source.ns, r.source.name)))
    BY <2>1, OursServed
  <2> QED
    BY <2>2, <2>3 DEF HealthyMeansServed
<1> QED
  BY <1>1, BuildFollowsCaches, PTL

-----------------------------------------------------------------------------
(* The order of a listing. *)

(* What is looked up among the same objects is found whatever order they are listed in. *)
LEMMA SameLookups ==
  ASSUME NEW L, NEW M, Range(L) = Range(M)
  PROVE  /\ \A kind, ns, name : Named(L, kind, ns, name) = Named(M, kind, ns, name)
         /\ \A svc : Slices(L, svc) = Slices(M, svc)
         /\ \A toNs, toKind, toName, fromNs, fromKind :
              Granted(L, toNs, toKind, toName, fromNs, fromKind) <=> Granted(M, toNs, toKind, toName, fromNs, fromKind)
         /\ \A l, routeNs, gwNs : AdmitsNamespace(L, l, routeNs, gwNs) = AdmitsNamespace(M, l, routeNs, gwNs)
<1>1. \A kind, ns, name : Named(L, kind, ns, name) = Named(M, kind, ns, name)
  BY DEF Named
<1>2. \A svc : Slices(L, svc) = Slices(M, svc)
  BY DEF Slices
<1>3. \A toNs, toKind, toName, fromNs, fromKind :
              Granted(L, toNs, toKind, toName, fromNs, fromKind) <=> Granted(M, toNs, toKind, toName, fromNs, fromKind)
  BY DEF Granted
<1>4. \A l, routeNs, gwNs : AdmitsNamespace(L, l, routeNs, gwNs) = AdmitsNamespace(M, l, routeNs, gwNs)
  BY DEF AdmitsNamespace
<1> QED
  BY <1>1, <1>2, <1>3, <1>4

(* Services resolve to the same. *)
LEMMA SameRoutes ==
  ASSUME NEW L, NEW M, Range(L) = Range(M)
  PROVE  /\ \A svc, port : Addresses(L, svc, port) = Addresses(M, svc, port)
         /\ \A ns, name, ref : ServiceRoute(L, ns, name, ref) = ServiceRoute(M, ns, name, ref)
         /\ \A o, refs, by, redirects : Backend(L, o, refs, by, redirects) = Backend(M, o, refs, by, redirects)
         /\ \A all : Backends(L, all) = Backends(M, all)
<1>1. \A svc, port : Addresses(L, svc, port) = Addresses(M, svc, port)
  BY SameLookups DEF Addresses
<1>2. \A svc, port : PortRoute(L, svc, port) = PortRoute(M, svc, port)
  BY <1>1, SameLookups DEF PortRoute
<1>3. \A ns, name, ref : ServiceRoute(L, ns, name, ref) = ServiceRoute(M, ns, name, ref)
  BY <1>2, SameLookups DEF ServiceRoute, RouteOf
<1>4. \A o, refs, by, redirects : Backend(L, o, refs, by, redirects) = Backend(M, o, refs, by, redirects)
  <2> SUFFICES ASSUME NEW o, NEW refs, NEW by, NEW redirects
               PROVE  Backend(L, o, refs, by, redirects) = Backend(M, o, refs, by, redirects)
    OBVIOUS
  <2> DEFINE ref == Head(refs)
             ns == IF ref.ns = None THEN o.ns ELSE ref.ns
  <2>1. Granted(L, ns, "Service", ref.name, o.ns, o.kind) <=> Granted(M, ns, "Service", ref.name, o.ns, o.kind)
    BY SameLookups
  <2>2. ServiceRoute(L, ns, ref.name, PortRef(by, ref.port, "")) = ServiceRoute(M, ns, ref.name, PortRef(by, ref.port, ""))
    BY <1>3
  <2> QED
    BY <2>1, <2>2 DEF Backend
<1>5. \A all : Backends(L, all) = Backends(M, all)
  BY <1>1 DEF Backends
<1> QED
  BY <1>1, <1>3, <1>4, <1>5

(* So are Gateways built the same. *)
LEMMA SameGateways ==
  ASSUME NEW L, NEW M, Range(L) = Range(M)
  PROVE  BuiltGateways(L) = BuiltGateways(M)
<1>1. \A gw, l, ref : CertRefProblem(L, gw, l, ref) = CertRefProblem(M, gw, l, ref)
  BY SameLookups DEF CertRefProblem
<1>2. \A gw, l, bind : ListenerCerts(L, gw, l, bind) = ListenerCerts(M, gw, l, bind)
  BY <1>1, SameLookups DEF ListenerCerts
<1>3. \A gw, l, bind, opens : ListenerTls(L, gw, l, bind, opens) = ListenerTls(M, gw, l, bind, opens)
  BY <1>1, <1>2 DEF ListenerTls
<1>4. \A gw, l : Listener(L, gw, l) = Listener(M, gw, l)
  BY <1>3 DEF Listener, ListenerUnless
<1>5. OurGateways(L) = OurGateways(M)
  BY DEF OurGateways
<1> QED
  BY <1>4, <1>5 DEF BuiltGateways

(* And Ingresses. *)
LEMMA SameIngress ==
  ASSUME NEW L, NEW M, Range(L) = Range(M)
  PROVE  /\ \A o : BuiltIngress(L, o) = BuiltIngress(M, o)
         /\ IngressCerts(L) = IngressCerts(M)
<1>1. \A o, t : TlsProblem(L, o, t) = TlsProblem(M, o, t)
  BY SameLookups DEF TlsProblem
<1>2. \A o : LoadedTls(L, o) = LoadedTls(M, o)
  BY <1>1 DEF LoadedTls
<1>3. \A o, p : IngressBackend(L, o, p) = IngressBackend(M, o, p)
  BY SameRoutes DEF IngressBackend
<1>4. \A o : BuiltIngress(L, o) = BuiltIngress(M, o)
  BY <1>1, <1>2, <1>3 DEF BuiltIngress, FlatMap
<1>5. IngressCerts(L) = IngressCerts(M)
  BY <1>2, SameLookups DEF IngressCerts
<1> QED
  BY <1>4, <1>5

(* And attachments. *)
LEMMA SameAttachment ==
  ASSUME NEW L, NEW M, Range(L) = Range(M), NEW gws
  PROVE  /\ \A o, i : HttpAttachment(L, gws, o, i) = HttpAttachment(M, gws, o, i)
         /\ \A o, i : L4Attachment(L, gws, o, i) = L4Attachment(M, gws, o, i)
<1>1. \A o, ref : Admitting(L, gws, o, ref) = Admitting(M, gws, o, ref)
  BY SameLookups DEF Admitting
<1>2. \A o, ref : Matching(L, gws, o, ref) = Matching(M, gws, o, ref)
  BY <1>1 DEF Matching
<1>3. \A o : BuiltRules(L, o) = BuiltRules(M, o)
  BY SameRoutes DEF BuiltRules, BuiltRule, RuleBackend
<1>4. \A o, i : HttpAttachment(L, gws, o, i) = HttpAttachment(M, gws, o, i)
  BY <1>1, <1>2, <1>3, Zenon DEF HttpAttachment
<1>5. \A o : Backend(L, o, o.refs, "Number", FALSE) = Backend(M, o, o.refs, "Number", FALSE)
  <2>1. \A o, refs, by, redirects : Backend(L, o, refs, by, redirects) = Backend(M, o, refs, by, redirects)
    BY SameRoutes
  <2> QED
    BY <2>1, Zenon
<1>6. \A o, i : L4Attachment(L, gws, o, i) = L4Attachment(M, gws, o, i)
  BY <1>1, <1>5, Zenon DEF L4Attachment
<1> QED
  BY <1>4, <1>6

(* Two listings of the same caches. *)
Relisted(L, M) == Cached(L) /\ Cached(M) /\ IsInjective(L) /\ IsInjective(M) /\ Range(L) = Range(M)

(* Neither of two claims is older: they are of one time and one spelling. *)
LEMMA EquallyOld ==
  ASSUME NEW a, NEW b, IsClaim(a), IsClaim(b), ~Older(a, b), ~Older(b, a)
  PROVE  a.at = b.at /\ a.text = b.text
BY DEF IsClaim, Older, NoStamp

(* What is kept of two listings is the same, in some other order. *)
LEMMA KeptRelisted ==
  ASSUME NEW L, NEW M, Relisted(L, M), NEW kept
  PROVE  LET s == Filtered(L, kept)
             t == Filtered(M, kept)
         IN /\ IsList(s) /\ IsList(t) /\ IsInjective(s) /\ IsInjective(t)
            /\ Range(s) = Range(L) \cap kept /\ Range(t) = Range(s)
            /\ Len(s) \in Nat /\ DOMAIN s = 1..Len(s) /\ DOMAIN t = 1..Len(s) /\ Rearranged(s, t)
<1> DEFINE s == Filtered(L, kept)
           t == Filtered(M, kept)
<1>1. IsList(s) /\ Range(s) = Range(L) \cap kept /\ IsInjective(s)
  BY FilteredList DEF Relisted, Cached
<1>2. IsList(t) /\ Range(t) = Range(M) \cap kept /\ IsInjective(t)
  BY FilteredList DEF Relisted, Cached
<1>3. Range(L) = Range(M)
  BY DEF Relisted
<1> HIDE DEF s, t
<1>4. Rearranged(s, t)
  BY <1>1, <1>2, <1>3, ListsRearranged
<1>5. DOMAIN s = 1..Len(s) /\ DOMAIN t = 1..Len(s)
  BY <1>1, <1>2, <1>4, ListFields DEF Rearranged
<1>6. Len(s) \in Nat
  BY <1>4 DEF Rearranged
<1> QED
  BY <1>1, <1>2, <1>3, <1>4, <1>5, <1>6 DEF s, t

(* Routes by age come in one order. *)
LEMMA SameByAge ==
  ASSUME NEW L, NEW M, Relisted(L, M), NEW kind \in DatedKinds
  PROVE  Sorted(OfKind(L, kind), ClaimOrder(OfKind(L, kind))) = Sorted(OfKind(M, kind), ClaimOrder(OfKind(M, kind)))
<1> DEFINE kept == {o \in Range(L) : o.kind = kind}
           s == Filtered(L, kept)
           t == Filtered(M, kept)
           n == Len(s)
<1>1. OfKind(L, kind) = s /\ OfKind(M, kind) = t
  BY DEF OfKind, Relisted
<1>2. /\ IsInjective(s) /\ Range(s) = Range(L) \cap kept /\ Range(t) = Range(s)
      /\ IsList(s) /\ IsList(t) /\ n \in Nat /\ DOMAIN s = 1..n /\ DOMAIN t = 1..n /\ Rearranged(s, t)
  BY KeptRelisted
<1>3. \A o \in Range(s) : o \in Range(L) /\ o.kind = kind /\ IsClaim(o)
  <2>1. \A o \in Range(L) : o.at \in Nat /\ o.text \in Nat
    BY DEF Relisted, Cached, WellFormed
  <2> QED
    BY <1>2, <2>1 DEF IsClaim
<1>4. \A o, p \in Range(s) : o.text = p.text => o = p
  <2> SUFFICES ASSUME NEW o \in Range(s), NEW p \in Range(s), o.text = p.text PROVE o = p
    OBVIOUS
  <2>1. o.ns = p.ns /\ o.name = p.name
    BY <1>3 DEF Relisted, Cached
  <2>2. Ident(o) = Ident(p)
    BY <1>3, <2>1 DEF Ident
  <2> QED
    BY <1>3, <2>2 DEF Relisted, Cached
<1> HIDE DEF s, t, n, kept
<1>5. \A i \in 1..n : s[i] \in Range(s) /\ t[i] \in Range(s) /\ IsClaim(s[i]) /\ IsClaim(t[i])
  <2>1. \A i \in 1..n : s[i] \in Range(s) /\ t[i] \in Range(t)
    BY <1>2 DEF Range
  <2> QED
    BY <1>2, <1>3, <2>1
<1>6. PICK pi : Rearranges(pi, n) /\ \A i \in 1..n : s[i] = t[pi[i]]
  BY <1>2 DEF Rearranged, n
<1>7. \A i \in 1..n : pi[i] \in 1..n
  BY <1>6 DEF Rearranges
<1>8. TotalOrder(ClaimOrder(s), 1..n) /\ TotalOrder(ClaimOrder(t), 1..n)
  BY <1>2, <1>5, ClaimOrderTotal
<1>9. ASSUME NEW i \in 1..n, NEW j \in 1..n
      PROVE  <<i, j>> \in ClaimOrder(s) <=> <<pi[i], pi[j]>> \in ClaimOrder(t)
  <2>1. <<i, j>> \in ClaimOrder(s) <=> Older(s[i], s[j]) \/ (~Older(s[j], s[i]) /\ i < j)
    BY <1>2 DEF ClaimOrder
  <2>2. <<pi[i], pi[j]>> \in ClaimOrder(t) <=> Older(s[i], s[j]) \/ (~Older(s[j], s[i]) /\ pi[i] < pi[j])
    BY <1>2, <1>6, <1>7 DEF ClaimOrder
  <2>3. CASE Older(s[i], s[j])
    BY <2>1, <2>2, <2>3
  <2>4. CASE Older(s[j], s[i])
    BY <1>5, <2>1, <2>2, <2>4, OlderOneWay
  <2>5. CASE ~Older(s[i], s[j]) /\ ~Older(s[j], s[i])
    <3>1. s[i].text = s[j].text
      BY <1>5, <2>5, EquallyOld
    <3>2. i = j
      BY <1>2, <1>4, <1>5, <3>1 DEF IsInjective
    <3>3. ~(i < j) /\ ~(pi[i] < pi[j])
      BY <1>2, <1>7, <3>2
    <3> QED
      BY <2>1, <2>2, <2>5, <3>3
  <2> QED
    BY <2>3, <2>4, <2>5
<1>10. SortAlike(s, t, ClaimOrder(s), ClaimOrder(t), pi, n)
  <2>1. OrdersAgree(ClaimOrder(s), ClaimOrder(t), pi, n)
    BY <1>9 DEF OrdersAgree
  <2> QED
    BY <1>2, <1>6, <1>8, <2>1, SortedAlike
<1>11. \A k \in 1..n : Sorted(s, ClaimOrder(s))[k] = Sorted(t, ClaimOrder(t))[k]
  BY <1>6, <1>10 DEF SortAlike
<1> DEFINE a == Sorted(s, ClaimOrder(s))
           b == Sorted(t, ClaimOrder(t))
<1>12. a = [k \in 1..n |-> a[k]] /\ b = [k \in 1..n |-> b[k]]
  BY <1>2 DEF Sorted
<1> HIDE DEF a, b
<1>13. a = b
  BY <1>11, <1>12 DEF a, b
<1> QED
  BY <1>1, <1>13 DEF a, b

(* So HTTPRoutes are attached in one order. *)
LEMMA SameHttpAttachments ==
  ASSUME NEW L, NEW M, Relisted(L, M)
  PROVE  HttpAttachments(L, BuiltGateways(L)) = HttpAttachments(M, BuiltGateways(M))
<1>1. Range(L) = Range(M)
  BY DEF Relisted
<1>2. BuiltGateways(L) = BuiltGateways(M)
  BY <1>1, SameGateways
<1>3. \A gws, o, i : HttpAttachment(L, gws, o, i) = HttpAttachment(M, gws, o, i)
  BY <1>1, SameAttachment
<1>4. Sorted(OfKind(L, "HTTPRoute"), ClaimOrder(OfKind(L, "HTTPRoute")))
      = Sorted(OfKind(M, "HTTPRoute"), ClaimOrder(OfKind(M, "HTTPRoute")))
  BY SameByAge DEF DatedKinds
<1> QED
  BY <1>2, <1>3, <1>4 DEF HttpAttachments, FlatMap

(* The frontends of one Ingress. *)
OneIngress(b) == FlattenSeq([i \in DOMAIN b.paths |-> PathFrontends(b, b.paths[i])])

(* They are all sourced at it. *)
LEMMA OneIngressFrontends ==
  ASSUME NEW objs, Cached(objs), NEW o \in Range(objs), IsOurs(o)
  PROVE  LET b == BuiltIngress(objs, o) IN
         IsList(OneIngress(b)) /\ \A s \in Range(OneIngress(b)) : s.source = Source(o, NoRef)
<1> DEFINE b == BuiltIngress(objs, o)
           s == b.paths
           q == [i \in DOMAIN s |-> PathFrontends(b, s[i])]
           its == [p \in Range(s) |-> Range(PathFrontends(b, p))]
<1>1. b.ingress = o /\ IsList(s)
  BY IngressParts
<1> HIDE DEF b
<1>2. q = [i \in DOMAIN s |-> q[i]] /\ \A i \in DOMAIN s : q[i] = PathFrontends(b, s[i])
  OBVIOUS
<1>3. \A i \in DOMAIN s : s[i] \in Range(s)
  BY <1>1, ListFields
<1>4. \A i \in DOMAIN s : IsList(q[i]) /\ Range(q[i]) = its[s[i]]
  BY <1>2, <1>3, PathFrontendsAre
<1>5. OneIngress(b) = FlattenSeq(q)
  BY DEF OneIngress
<1>6. \A p \in Range(s) : its[p] = Range(PathFrontends(b, p))
  OBVIOUS
<1> HIDE DEF q, its, s
<1>7. IsList(FlattenSeq(q)) /\ \A y : y \in Range(FlattenSeq(q)) <=> \E p \in Range(s) : y \in its[p]
  BY <1>1, <1>2, <1>4, FlatRange
<1>8. ASSUME NEW y \in Range(FlattenSeq(q)) PROVE y.source = Source(o, NoRef)
  <2>1. PICK p \in Range(s) : y \in Range(PathFrontends(b, p))
    BY <1>6, <1>7
  <2>2. PICK tls, filters : y = PathFrontend(b, p, tls, filters)
    BY <2>1, PathFrontendsAre
  <2> QED
    BY <1>1, <2>2, PathFrontendFields
<1> QED
  BY <1>5, <1>7, <1>8 DEF b

(* Rearranged, but what one Ingress asks for comes in its order. *)
OwnOrderKept(f, g) ==
  /\ Len(f) = Len(g)
  /\ \E pi : /\ Rearranges(pi, Len(f))
             /\ \A i \in 1..Len(f) : f[i] = g[pi[i]]
             /\ \A i, j \in 1..Len(f) : f[i].source.text = f[j].source.text => (i < j <=> pi[i] < pi[j])

(* The frontends of Ingresses in two listings: rearranged, but those of one Ingress in their order. *)
LEMMA IngressesRearranged ==
  ASSUME NEW L, NEW M, Relisted(L, M)
  PROVE  LET f == IngressFrontends(BuiltIngresses(L))
             g == IngressFrontends(BuiltIngresses(M))
         IN IsList(f) /\ IsList(g) /\ OwnOrderKept(f, g)
<1> DEFINE kept == {o \in Range(L) : IsOurs(o)}
           s == Filtered(L, kept)
           t == Filtered(M, kept)
           n == Len(s)
           S == [i \in 1..n |-> OneIngress(BuiltIngress(L, s[i]))]
           T == [i \in 1..n |-> OneIngress(BuiltIngress(M, t[i]))]
           f == IngressFrontends(BuiltIngresses(L))
           g == IngressFrontends(BuiltIngresses(M))
<1>0. Cached(L) /\ Cached(M) /\ Range(L) = Range(M)
  BY DEF Relisted
<1>1. OurIngresses(L) = s /\ OurIngresses(M) = t
  BY <1>0 DEF OurIngresses
<1>2. /\ IsInjective(s) /\ Range(s) = Range(L) \cap kept /\ Range(t) = Range(s)
      /\ IsList(s) /\ IsList(t) /\ n \in Nat /\ DOMAIN s = 1..n /\ DOMAIN t = 1..n /\ Rearranged(s, t)
  BY KeptRelisted
<1>3. \A o \in Range(s) : o \in Range(L) /\ o \in Range(M) /\ IsOurs(o)
  BY <1>0, <1>2
<1> HIDE DEF s, t, n, kept
<1>4. f = FlattenSeq(S) /\ g = FlattenSeq(T)
  <2>1. /\ BuiltIngresses(L) = [i \in 1..n |-> BuiltIngress(L, s[i])]
        /\ BuiltIngresses(M) = [i \in 1..n |-> BuiltIngress(M, t[i])]
    BY <1>1, <1>2 DEF BuiltIngresses
  <2> QED
    BY <2>1 DEF IngressFrontends, FlatMap, OneIngress
<1>5. \A i \in 1..n : s[i] \in Range(s) /\ t[i] \in Range(s)
  <2>1. \A i \in 1..n : s[i] \in Range(s) /\ t[i] \in Range(t)
    BY <1>2 DEF Range
  <2> QED
    BY <1>2, <2>1
<1>6. PICK sigma : Rearranges(sigma, n) /\ \A i \in 1..n : s[i] = t[sigma[i]]
  BY <1>2 DEF Rearranged, n
<1>7. \A i \in 1..n : sigma[i] \in 1..n
  BY <1>6 DEF Rearranges
<1>8. /\ S = [i \in 1..n |-> S[i]] /\ T = [i \in 1..n |-> T[i]]
      /\ \A i \in 1..n : S[i] = OneIngress(BuiltIngress(L, s[i])) /\ T[i] = OneIngress(BuiltIngress(M, t[i]))
  OBVIOUS
<1> HIDE DEF S, T, f, g
<1>9. IsList(S) /\ IsList(T) /\ Len(S) = n /\ Len(T) = n
  BY <1>2, <1>8, IndexedList
<1>10. \A i \in 1..n : IsList(S[i]) /\ IsList(T[i]) /\ \A x \in Range(S[i]) : x.source = Source(s[i], NoRef)
  BY <1>0, <1>3, <1>5, <1>8, OneIngressFrontends
<1>11. \A i \in 1..n : S[i] = T[sigma[i]]
  <2>1. \A o : BuiltIngress(L, o) = BuiltIngress(M, o)
    BY <1>0, SameIngress
  <2> QED
    BY <1>6, <1>7, <1>8, <2>1
<1>12. PartsRearranged(f, g, S, n)
  BY <1>2, <1>4, <1>6, <1>9, <1>10, <1>11, FlatRearranged
<1>13. PICK pi : /\ Rearranges(pi, Len(f))
                 /\ \A i \in 1..Len(f) : f[i] = g[pi[i]]
                 /\ \A i, j \in 1..Len(f) : \E b, c \in 1..n :
                      /\ f[i] \in Range(S[b]) /\ f[j] \in Range(S[c])
                      /\ b = c => (i < j <=> pi[i] < pi[j])
  BY <1>12 DEF PartsRearranged
<1>14. ASSUME NEW i \in 1..Len(f), NEW j \in 1..Len(f), f[i].source.text = f[j].source.text
       PROVE  i < j <=> pi[i] < pi[j]
  <2>1. PICK b \in 1..n, c \in 1..n : /\ f[i] \in Range(S[b]) /\ f[j] \in Range(S[c])
                                      /\ b = c => (i < j <=> pi[i] < pi[j])
    BY <1>13
  <2>2. f[i].source = Source(s[b], NoRef) /\ f[j].source = Source(s[c], NoRef)
    BY <1>10, <2>1
  <2>3. s[b].text = s[c].text
    BY <1>14, <2>2 DEF Source
  <2>4. s[b] \in Range(L) /\ s[c] \in Range(L) /\ s[b].kind = "Ingress" /\ s[c].kind = "Ingress"
    BY <1>3, <1>5 DEF IsOurs
  <2>5. s[b].ns = s[c].ns /\ s[b].name = s[c].name
    BY <1>0, <2>3, <2>4 DEF Cached, DatedKinds
  <2>6. s[b] = s[c]
    BY <1>0, <2>4, <2>5 DEF Cached, Ident
  <2>7. b = c
    BY <1>2, <2>6 DEF IsInjective
  <2> QED
    BY <2>1, <2>7
<1>15. IsList(f) /\ IsList(g) /\ Len(f) = Len(g)
  BY <1>12 DEF PartsRearranged
<1>16. OwnOrderKept(f, g)
  BY <1>13, <1>14, <1>15 DEF OwnOrderKept
<1> QED
  BY <1>15, <1>16 DEF f, g

(* What follows both keeps its place. *)
LEMMA JoinedInOwnOrder ==
  ASSUME NEW f, NEW g, NEW h, IsList(f), IsList(g), IsList(h), OwnOrderKept(f, g)
  PROVE  OwnOrderKept(f \o h, g \o h)
<1> DEFINE m == Len(f)
           n == m + Len(h)
           F == f \o h
           G == g \o h
<1>1. m \in Nat /\ Len(h) \in Nat /\ Len(g) = m /\ DOMAIN f = 1..m /\ DOMAIN g = 1..m /\ DOMAIN h = 1..Len(h)
  BY ListFields DEF OwnOrderKept
<1>2. PICK pi : /\ Rearranges(pi, m)
                /\ \A i \in 1..m : f[i] = g[pi[i]]
                /\ \A i, j \in 1..m : f[i].source.text = f[j].source.text => (i < j <=> pi[i] < pi[j])
  BY DEF OwnOrderKept
<1>3. /\ Len(F) = n /\ Len(G) = n
      /\ \A i \in 1..n : F[i] = IF i <= m THEN f[i] ELSE h[i - m]
      /\ \A i \in 1..n : G[i] = IF i <= m THEN g[i] ELSE h[i - m]
  <2>1. PICK X, Y, Z : f \in Seq(X) /\ g \in Seq(Y) /\ h \in Seq(Z)
    BY DEF IsList
  <2>2. f \in Seq(X \cup Y \cup Z) /\ g \in Seq(X \cup Y \cup Z) /\ h \in Seq(X \cup Y \cup Z)
    BY <2>1
  <2> QED
    BY <1>1, <2>2
<1> DEFINE rho == [i \in 1..n |-> IF i <= m THEN pi[i] ELSE i]
<1> HIDE DEF m, F, G
<1>4. \A i \in 1..m : pi[i] \in 1..m
  BY <1>2 DEF Rearranges
<1>5. n \in Nat /\ \A i \in 1..n : i \in 1..m \/ i \in (m + 1)..n
  BY <1>1
<1>6. /\ \A i \in 1..m : i \in 1..n /\ rho[i] = pi[i] /\ i <= m /\ pi[i] <= m /\ pi[i] \in 1..n /\ pi[i] \in Nat
      /\ \A i \in (m + 1)..n : i \in 1..n /\ rho[i] = i /\ ~(i <= m) /\ i > m
  BY <1>1, <1>4
<1> HIDE DEF rho, n
<1>7. Rearranges(rho, n)
  <2>1. rho \in [1..n -> 1..n]
    <3>1. rho = [i \in 1..n |-> rho[i]] /\ \A i \in 1..n : rho[i] \in 1..n
      BY <1>5, <1>6 DEF rho
    <3> QED
      BY <3>1
  <2>2. ASSUME NEW i \in 1..n, NEW j \in 1..n, rho[i] = rho[j] PROVE i = j
    <3>1. CASE i \in 1..m /\ j \in 1..m
      BY <1>2, <1>6, <2>2, <3>1 DEF Rearranges
    <3>2. CASE ~(i \in 1..m /\ j \in 1..m)
      BY <1>1, <1>5, <1>6, <2>2, <3>2
    <3> QED
      BY <3>1, <3>2
  <2>3. ASSUME NEW k \in 1..n PROVE \E i \in 1..n : rho[i] = k
    <3>1. CASE k \in 1..m
      BY <1>2, <1>6, <3>1 DEF Rearranges
    <3>2. CASE k \in (m + 1)..n
      BY <1>6, <3>2
    <3> QED
      BY <1>5, <3>1, <3>2
  <2> QED
    BY <2>1, <2>2, <2>3 DEF Rearranges
<1>8. ASSUME NEW i \in 1..n PROVE F[i] = G[rho[i]]
  <2>1. CASE i \in 1..m
    BY <1>2, <1>3, <1>6, <2>1
  <2>2. CASE i \in (m + 1)..n
    BY <1>3, <1>6, <2>2
  <2> QED
    BY <1>5, <2>1, <2>2
<1>9. ASSUME NEW i \in 1..n, NEW j \in 1..n, F[i].source.text = F[j].source.text
      PROVE  i < j <=> rho[i] < rho[j]
  <2>1. CASE i \in 1..m /\ j \in 1..m
    BY <1>2, <1>3, <1>6, <1>9, <2>1
  <2>2. CASE i \in 1..m /\ j \in (m + 1)..n
    BY <1>1, <1>6, <2>2
  <2>3. CASE i \in (m + 1)..n /\ j \in 1..m
    BY <1>1, <1>6, <2>3
  <2>4. CASE i \in (m + 1)..n /\ j \in (m + 1)..n
    BY <1>1, <1>6, <2>4
  <2> QED
    BY <1>5, <2>1, <2>2, <2>3, <2>4
<1>10. OwnOrderKept(F, G)
  <2>1. \A i \in 1..n : F[i] = G[rho[i]]
    BY <1>8
  <2>2. \A i, j \in 1..n : F[i].source.text = F[j].source.text => (i < j <=> rho[i] < rho[j])
    BY <1>9
  <2>3. Len(F) = n /\ Len(F) = Len(G)
    BY <1>3
  <2> QED
    BY <1>7, <2>1, <2>2, <2>3 DEF OwnOrderKept
<1> QED
  BY <1>10 DEF F, G

(* Sorted lists that say the same at every place. *)
Alike(s, t) ==
  /\ IsList(s) /\ IsList(t) /\ IsInjective(s) /\ IsInjective(t) /\ Len(s) = Len(t)
  /\ \A k \in 1..Len(s) : s[k].frontend = t[k].frontend /\ s[k].source = t[k].source

(* Sorted by claim, arrangements that keep each one's own order read alike. *)
LEMMA ByClaimAlike ==
  ASSUME NEW f, NEW g, IsList(f), IsList(g), OwnOrderKept(f, g),
         \A s \in Range(f) : IsSourced(s), \A s \in Range(g) : IsSourced(s)
  PROVE  Alike(ByClaim(f), ByClaim(g))
<1> DEFINE n == Len(f)
           p == Numbered(f)
           q == Numbered(g)
           a == [i \in DOMAIN f |-> f[i].source]
           b == [i \in DOMAIN g |-> g[i].source]
<1>1. n \in Nat /\ Len(g) = n /\ DOMAIN f = 1..n /\ DOMAIN g = 1..n
  BY ListFields DEF OwnOrderKept
<1>2. \A i \in 1..n : f[i] \in Range(f) /\ g[i] \in Range(g)
  BY <1>1, ListFields
<1>3. PICK pi : /\ Rearranges(pi, n)
                /\ \A i \in 1..n : f[i] = g[pi[i]]
                /\ \A i, j \in 1..n : f[i].source.text = f[j].source.text => (i < j <=> pi[i] < pi[j])
  BY DEF OwnOrderKept
<1>4. \A i \in 1..n : pi[i] \in 1..n
  BY <1>3 DEF Rearranges
<1>5. /\ DOMAIN p = 1..n /\ DOMAIN q = 1..n
      /\ \A i \in 1..n : p[i].frontend = f[i].frontend /\ p[i].source = f[i].source
      /\ \A i \in 1..n : q[i].frontend = g[i].frontend /\ q[i].source = g[i].source
  BY <1>1 DEF Numbered
<1>6. /\ DOMAIN a = 1..n /\ DOMAIN b = 1..n
      /\ \A i \in 1..n : a[i] = f[i].source /\ b[i] = g[i].source /\ IsClaim(a[i]) /\ IsClaim(b[i])
  BY <1>1, <1>2 DEF IsSourced
<1>7. ByClaim(f) = Sorted(p, ClaimOrder(a)) /\ ByClaim(g) = Sorted(q, ClaimOrder(b))
  BY DEF ByClaim
<1> HIDE DEF n, p, q, a, b
<1>8. TotalOrder(ClaimOrder(a), 1..n) /\ TotalOrder(ClaimOrder(b), 1..n)
  BY <1>1, <1>6, ClaimOrderTotal
<1>9. ASSUME NEW i \in 1..n, NEW j \in 1..n
      PROVE  <<i, j>> \in ClaimOrder(a) <=> <<pi[i], pi[j]>> \in ClaimOrder(b)
  <2>1. <<i, j>> \in ClaimOrder(a) <=> Older(a[i], a[j]) \/ (~Older(a[j], a[i]) /\ i < j)
    BY <1>6 DEF ClaimOrder
  <2>0. b[pi[i]] = a[i] /\ b[pi[j]] = a[j]
    BY <1>3, <1>4, <1>6
  <2>2. <<pi[i], pi[j]>> \in ClaimOrder(b) <=> Older(a[i], a[j]) \/ (~Older(a[j], a[i]) /\ pi[i] < pi[j])
    BY <1>4, <1>6, <2>0 DEF ClaimOrder
  <2>3. CASE Older(a[i], a[j])
    BY <2>1, <2>2, <2>3
  <2>4. CASE Older(a[j], a[i])
    BY <1>6, <2>1, <2>2, <2>4, OlderOneWay
  <2>5. CASE ~Older(a[i], a[j]) /\ ~Older(a[j], a[i])
    <3>1. a[i].text = a[j].text
      BY <1>6, <2>5, EquallyOld
    <3>2. i < j <=> pi[i] < pi[j]
      BY <1>3, <1>6, <3>1
    <3> QED
      BY <2>1, <2>2, <2>5, <3>2
  <2> QED
    BY <2>3, <2>4, <2>5
<1>10. SortAlike(p, q, ClaimOrder(a), ClaimOrder(b), pi, n)
  <2>1. OrdersAgree(ClaimOrder(a), ClaimOrder(b), pi, n)
    BY <1>9 DEF OrdersAgree
  <2> QED
    BY <1>1, <1>3, <1>5, <1>8, <2>1, SortedAlike
<1> DEFINE s == ByClaim(f)
           t == ByClaim(g)
<1>11. \A k \in 1..n : s[k].frontend = t[k].frontend /\ s[k].source = t[k].source
  <2> SUFFICES ASSUME NEW k \in 1..n PROVE s[k].frontend = t[k].frontend /\ s[k].source = t[k].source
    OBVIOUS
  <2>1. PICK i \in 1..n : s[k] = p[i] /\ t[k] = q[pi[i]]
    BY <1>7, <1>10 DEF SortAlike
  <2> QED
    BY <1>3, <1>4, <1>5, <2>1
<1>12. IsList(s) /\ IsInjective(s) /\ IsList(t) /\ IsInjective(t)
  BY ByClaimList
<1>13. DOMAIN s = 1..n /\ DOMAIN t = 1..n
  BY <1>5, <1>7 DEF Sorted
<1> HIDE DEF s, t
<1>14. Len(s) = n /\ Len(t) = n
  BY <1>1, <1>12, <1>13, ListFields
<1> QED
  BY <1>11, <1>12, <1>14 DEF Alike, s, t

(* So do the frontends of two listings. *)
LEMMA FrontendsAlike ==
  ASSUME NEW L, NEW M, Relisted(L, M)
  PROVE  Alike(ByClaim(FrontendsOf(L)), ByClaim(FrontendsOf(M)))
<1> DEFINE f == IngressFrontends(BuiltIngresses(L))
           g == IngressFrontends(BuiltIngresses(M))
           h == HttpFrontends(HttpAttachments(L, BuiltGateways(L)))
<1>1. IsList(f) /\ IsList(g) /\ OwnOrderKept(f, g)
  BY IngressesRearranged
<1>2. Cached(L) /\ Cached(M)
  BY DEF Relisted
<1>3. IsList(h)
  BY <1>2, HttpFrontendsAre
<1>4. FrontendsOf(L) = f \o h /\ FrontendsOf(M) = g \o h
  BY SameHttpAttachments DEF FrontendsOf
<1> HIDE DEF f, g, h
<1>5. OwnOrderKept(FrontendsOf(L), FrontendsOf(M))
  BY <1>1, <1>3, <1>4, JoinedInOwnOrder
<1>6. /\ IsList(FrontendsOf(L)) /\ \A s \in Range(FrontendsOf(L)) : IsSourced(s)
      /\ IsList(FrontendsOf(M)) /\ \A s \in Range(FrontendsOf(M)) : IsSourced(s)
  <2>1. ASSUME NEW objs, Cached(objs)
        PROVE  IsList(FrontendsOf(objs)) /\ \A s \in Range(FrontendsOf(objs)) : IsSourced(s)
    BY <2>1, FrontendsLoad
  <2> QED
    BY <1>2, <2>1
<1> QED
  BY <1>5, <1>6, ByClaimAlike

(* What reading alike says of the places of both. *)
LEMMA AlikeFields ==
  ASSUME NEW s, NEW t, Alike(s, t)
  PROVE  /\ Alike(t, s) /\ IsList(s) /\ IsList(t) /\ IsInjective(s) /\ IsInjective(t)
         /\ Len(s) \in Nat /\ Len(t) = Len(s) /\ DOMAIN s = 1..Len(s) /\ DOMAIN t = 1..Len(s)
         /\ \A i \in 1..Len(s) : s[i] \in Range(s) /\ t[i] \in Range(t)
         /\ \A x \in Range(s) : \E i \in 1..Len(s) : x = s[i]
         /\ \A x \in Range(t) : \E i \in 1..Len(s) : x = t[i]
         /\ \A i, j \in 1..Len(s) : (s[i] = s[j] => i = j) /\ (t[i] = t[j] => i = j)
         /\ \A k \in 1..Len(s) : s[k].frontend = t[k].frontend /\ s[k].source = t[k].source
<1>1. /\ IsList(s) /\ IsList(t) /\ IsInjective(s) /\ IsInjective(t) /\ Len(t) = Len(s)
      /\ \A k \in 1..Len(s) : s[k].frontend = t[k].frontend /\ s[k].source = t[k].source
  BY DEF Alike
<1>2. /\ Len(s) \in Nat /\ DOMAIN s = 1..Len(s) /\ DOMAIN t = 1..Len(s)
      /\ \A i \in 1..Len(s) : s[i] \in Range(s) /\ t[i] \in Range(t)
      /\ \A x \in Range(s) : \E i \in 1..Len(s) : x = s[i]
      /\ \A x \in Range(t) : \E i \in 1..Len(s) : x = t[i]
  BY <1>1, ListFields
<1>3. \A i, j \in 1..Len(s) : (s[i] = s[j] => i = j) /\ (t[i] = t[j] => i = j)
  BY <1>1, <1>2 DEF IsInjective
<1>4. Alike(t, s)
  BY <1>1 DEF Alike
<1> QED
  BY <1>1, <1>2, <1>3, <1>4

(* The first with a key keeps it. *)
LEMMA FirstKeeps ==
  ASSUME NEW s, IsList(s), NEW x, NEW w \in 1..Len(s), RouteKey(s[w].frontend) = RouteKey(x.frontend),
         \A k \in 1..(w - 1) : ~(RouteKey(s[k].frontend) = RouteKey(x.frontend))
  PROVE  Winner(s, x) = s[w]
<1> DEFINE has(j) == RouteKey(s[j].frontend) = RouteKey(x.frontend)
           at == {j \in DOMAIN s : has(j) /\ \A k \in 1..(j - 1) : ~has(k)}
           first == {s[i] : i \in at}
<1>1. Winner(s, x) = CHOOSE y \in first : TRUE
  BY DEF Winner, FirstOf, The
<1>2. Len(s) \in Nat /\ DOMAIN s = 1..Len(s)
  BY ListFields
<1>3. ASSUME NEW j \in DOMAIN s, has(j), \A k \in 1..(j - 1) : ~has(k) PROVE j = w
  <2>1. ~(j \in 1..(w - 1)) /\ ~(w \in 1..(j - 1))
    BY <1>3
  <2> QED
    BY <1>2, <2>1
<1>4. w \in at /\ \A j \in at : j = w
  BY <1>2, <1>3
<1>5. first = {s[w]}
  <2> HIDE DEF at
  <2> QED
    BY <1>4
<1> HIDE DEF first
<1> QED
  BY <1>1, <1>5

(* The same place keeps it in lists that read alike. *)
WonAt(s, t, i, w) ==
  /\ w \in 1..Len(s) /\ Winner(s, s[i]) = s[w] /\ Winner(t, t[i]) = t[w]

(* Every key is kept at one place of both. *)
LEMMA WonAlike ==
  ASSUME NEW s, NEW t, Alike(s, t), NEW i \in 1..Len(s)
  PROVE  \E w : WonAt(s, t, i, w)
<1> DEFINE T == {j \in 1..Len(s) : RouteKey(s[j].frontend) = RouteKey(s[i].frontend)}
<1>1. /\ IsList(s) /\ IsList(t) /\ Len(s) \in Nat /\ Len(t) = Len(s)
      /\ \A k \in 1..Len(s) : s[k].frontend = t[k].frontend
  BY AlikeFields
<1>2. T \in SUBSET Nat /\ T # {}
  BY <1>1
<1>3. PICK w \in T : \A k \in T : ~(k < w)
  <2> HIDE DEF T
  <2> QED
    BY <1>2, LeastNat
<1>4. \A k \in 1..(w - 1) : k \in 1..Len(s) /\ k \notin T
  BY <1>1, <1>3
<1>5. w \in 1..Len(s) /\ RouteKey(s[w].frontend) = RouteKey(s[i].frontend)
  BY <1>3
<1>6. \A k \in 1..(w - 1) : ~(RouteKey(s[k].frontend) = RouteKey(s[i].frontend))
  BY <1>4
<1>7. RouteKey(t[w].frontend) = RouteKey(t[i].frontend)
  BY <1>1, <1>5
<1>8. \A k \in 1..(w - 1) : ~(RouteKey(t[k].frontend) = RouteKey(t[i].frontend))
  BY <1>1, <1>4, <1>6
<1>9. Winner(s, s[i]) = s[w]
  BY <1>1, <1>5, <1>6, FirstKeeps
<1>10. Winner(t, t[i]) = t[w]
  BY <1>1, <1>5, <1>7, <1>8, FirstKeeps
<1> QED
  BY <1>5, <1>9, <1>10 DEF WonAt

(* Sets that say the same. *)
Mirrors(A, B) == \A x \in A : \E y \in B : x.frontend = y.frontend /\ x.source = y.source

(* What is kept reads alike. *)
LEMMA KeptAlike ==
  ASSUME NEW s, NEW t, Alike(s, t)
  PROVE  Alike(Kept(s), Kept(t))
<1> DEFINE keepS == {x \in Range(s) : Winner(s, x) = x}
           keepT == {x \in Range(t) : Winner(t, x) = x}
<1>1. /\ IsList(s) /\ IsList(t) /\ IsInjective(s) /\ IsInjective(t) /\ Len(t) = Len(s)
      /\ \A i \in 1..Len(s) : s[i] \in Range(s) /\ t[i] \in Range(t)
      /\ \A i, j \in 1..Len(s) : (s[i] = s[j] => i = j) /\ (t[i] = t[j] => i = j)
      /\ \A k \in 1..Len(s) : s[k].frontend = t[k].frontend /\ s[k].source = t[k].source
  BY AlikeFields
<1>2. ASSUME NEW i \in 1..Len(s) PROVE s[i] \in keepS <=> t[i] \in keepT
  <2>1. PICK w : WonAt(s, t, i, w)
    BY WonAlike
  <2>2. s[i] \in keepS <=> s[w] = s[i]
    BY <1>1, <2>1 DEF WonAt
  <2>3. t[i] \in keepT <=> t[w] = t[i]
    BY <1>1, <2>1 DEF WonAt
  <2> QED
    BY <1>1, <2>1, <2>2, <2>3 DEF WonAt
<1>3. Kept(s) = Filtered(s, keepS) /\ Kept(t) = Filtered(t, keepT)
  BY DEF Kept
<1> HIDE DEF keepS, keepT
<1>4. SamePlaces(s, t, Kept(s), Kept(t))
  BY <1>1, <1>2, <1>3, FilteredAlike
<1>5. /\ IsList(Kept(s)) /\ IsInjective(Kept(s)) /\ IsList(Kept(t)) /\ IsInjective(Kept(t))
  BY <1>1, KeptApart
<1>6. \A k \in 1..Len(Kept(s)) :
        Kept(s)[k].frontend = Kept(t)[k].frontend /\ Kept(s)[k].source = Kept(t)[k].source
  BY <1>1, <1>4 DEF SamePlaces
<1>7. Len(Kept(s)) = Len(Kept(t))
  BY <1>4 DEF SamePlaces
<1> QED
  BY <1>5, <1>6, <1>7 DEF Alike

(* Who loses a key, and who is folded into the one that has it. *)
LEMMA LostAlike ==
  ASSUME NEW s, NEW t, Alike(s, t)
  PROVE  Collisions(s) \subseteq Collisions(t) /\ Mirrors(Folded(s), Folded(t))
<1>1. /\ \A i \in 1..Len(s) : s[i] \in Range(s) /\ t[i] \in Range(t)
      /\ \A x \in Range(s) : \E i \in 1..Len(s) : x = s[i]
      /\ \A k \in 1..Len(s) : s[k].frontend = t[k].frontend /\ s[k].source = t[k].source
  BY AlikeFields
<1>2. ASSUME NEW i \in 1..Len(s)
      PROVE  (Collides(s, s[i]) => Collides(t, t[i])) /\ (s[i] \in Folded(s) => t[i] \in Folded(t))
  <2>1. PICK w : WonAt(s, t, i, w)
    BY WonAlike
  <2>2. s[w].frontend = t[w].frontend /\ s[w].source = t[w].source
    BY <1>1, <2>1 DEF WonAt
  <2>3. s[i].frontend = t[i].frontend /\ s[i].source = t[i].source
    BY <1>1
  <2>4. Winner(s, s[i]) = s[w] /\ Winner(t, t[i]) = t[w]
    BY <2>1 DEF WonAt
  <2>5. Collides(s, s[i]) => Collides(t, t[i])
    BY <2>2, <2>3, <2>4 DEF Collides
  <2>6. s[i] \in Folded(s) => t[i] \in Folded(t)
    BY <1>1, <2>2, <2>3, <2>4 DEF Folded
  <2> QED
    BY <2>5, <2>6
<1>3. Collisions(s) \subseteq Collisions(t)
  <2> SUFFICES ASSUME NEW x \in Range(s), Collides(s, x) PROVE \E y \in Range(t) : Collides(t, y) /\ x.source = y.source
    BY DEF Collisions
  <2> QED
    BY <1>1, <1>2
<1>4. Mirrors(Folded(s), Folded(t))
  <2> SUFFICES ASSUME NEW x \in Folded(s) PROVE \E y \in Folded(t) : x.frontend = y.frontend /\ x.source = y.source
    BY DEF Mirrors
  <2>1. x \in Range(s)
    BY DEF Folded
  <2> QED
    BY <1>1, <1>2, <2>1
<1> QED
  BY <1>3, <1>4

(* The frontends served, and those folded into one of them. *)
WithFolded(served, folded) ==
  served \cup {s \in folded : \E t \in served : RouteKey(t.frontend) = RouteKey(s.frontend)}

(* Sets that say the same send the same requests on. *)
LEMMA ProxiedAlike ==
  ASSUME NEW A, NEW B, NEW C, NEW D, Mirrors(A, B), Mirrors(C, D)
  PROVE  Proxied(WithFolded(A, C)) \subseteq Proxied(WithFolded(B, D))
<1> DEFINE X == WithFolded(A, C)
           Y == WithFolded(B, D)
<1>1. ASSUME NEW x \in X PROVE \E y \in Y : x.frontend = y.frontend /\ x.source = y.source
  <2>1. CASE x \in A
    BY <2>1 DEF Mirrors, WithFolded
  <2>2. CASE x \notin A
    <3>1. PICK t \in A : RouteKey(t.frontend) = RouteKey(x.frontend)
      BY <1>1, <2>2 DEF WithFolded
    <3>2. PICK u \in B : t.frontend = u.frontend
      BY DEF Mirrors
    <3>3. PICK y \in D : x.frontend = y.frontend /\ x.source = y.source
      BY <1>1, <2>2 DEF Mirrors, WithFolded
    <3>4. RouteKey(u.frontend) = RouteKey(y.frontend)
      BY <3>1, <3>2, <3>3
    <3> QED
      BY <3>2, <3>3, <3>4 DEF WithFolded
  <2> QED
    BY <2>1, <2>2
<1> HIDE DEF X, Y
<1>2. Proxied(X) \subseteq Proxied(Y)
  <2> SUFFICES ASSUME NEW p \in Proxied(X) PROVE p \in Proxied(Y)
    OBVIOUS
  <2>1. PICK x \in X : /\ p = [cluster |-> x.frontend.cluster, source |-> x.source]
                       /\ x.frontend.filters.redirect = {} /\ x.frontend.cluster # NoCluster
    BY DEF Proxied
  <2>2. PICK y \in Y : x.frontend = y.frontend /\ x.source = y.source
    BY <1>1
  <2>3. /\ p = [cluster |-> y.frontend.cluster, source |-> y.source]
        /\ y.frontend.filters.redirect = {} /\ y.frontend.cluster # NoCluster
    BY <2>1, <2>2
  <2> QED
    BY <2>3 DEF Proxied
<1> QED
  BY <1>2 DEF X, Y

(* Header matches given up at the same places cost the same sources. *)
LEMMA SkipsAlike ==
  ASSUME NEW s, NEW t, Alike(s, t), NEW C, NEW D, Mirrors(C, D), NEW skipped, skipped \subseteq DOMAIN s
  PROVE  SkipSources(s, C, skipped) \subseteq SkipSources(t, D, skipped)
<1>1. /\ \A k \in skipped : s[k].frontend = t[k].frontend /\ s[k].source = t[k].source
  BY AlikeFields
<1>2. ASSUME NEW x \in C, NEW i \in skipped, RouteKey(x.frontend) = RouteKey(s[i].frontend)
      PROVE  \E y \in D : x.source = y.source /\ \E j \in skipped : RouteKey(y.frontend) = RouteKey(t[j].frontend)
  <2>1. PICK y \in D : x.frontend = y.frontend /\ x.source = y.source
    BY DEF Mirrors
  <2>2. RouteKey(y.frontend) = RouteKey(t[i].frontend)
    BY <1>1, <1>2, <2>1
  <2> QED
    BY <2>1, <2>2
<1> SUFFICES ASSUME NEW z \in SkipSources(s, C, skipped) PROVE z \in SkipSources(t, D, skipped)
  OBVIOUS
<1>3. CASE z \in {s[i].source : i \in skipped}
  BY <1>1, <1>3 DEF SkipSources
<1>4. CASE z \in {x.source : x \in {y \in C : \E i \in skipped : RouteKey(y.frontend) = RouteKey(s[i].frontend)}}
  BY <1>2, <1>4 DEF SkipSources
<1> QED
  BY <1>3, <1>4 DEF SkipSources

(* What is given up was there. *)
LEMMA SkippedThere ==
  ASSUME NEW F, Frontends(F)
  PROVE  Lift(F).skipped \subseteq DOMAIN F
<1>1. \A g \in Groups(F) : Members(F, g) \in SUBSET DOMAIN F
  BY DEF Members
<1>2. \A g \in Groups(F) : PlanGroup(F, Members(F, g)).skipped \subseteq Members(F, g)
  BY <1>1, GroupPlanned
<1>3. Lift(F).skipped = UNION {p.skipped : p \in {PlanGroup(F, Members(F, g)) : g \in Groups(F)}}
  BY DEF Lift, Lifted
<1> QED
  BY <1>1, <1>2, <1>3

(* Two arbitrations that come to the same. *)
RoutedSame(A, B) ==
  /\ A.collisions = B.collisions /\ A.frontends = B.frontends /\ A.proxied = B.proxied /\ A.skips = B.skips
  /\ Mirrors(A.served, B.served) /\ Mirrors(B.served, A.served)

(* What is not given up, and its frontends in their order. *)
LeftOf(s, skipped) == {s[i] : i \in DOMAIN s \ skipped}

FrontendsLeft(s, skipped) ==
  LET order == Filtered(s, LeftOf(s, skipped)) IN [i \in DOMAIN order |-> order[i].frontend]

(* What is not given up of lists that read alike. *)
LEMMA ServedAlike ==
  ASSUME NEW s, NEW t, Alike(s, t), NEW skipped
  PROVE  Mirrors(LeftOf(s, skipped), LeftOf(t, skipped)) /\ FrontendsLeft(s, skipped) = FrontendsLeft(t, skipped)
<1> DEFINE A == LeftOf(s, skipped)
           B == LeftOf(t, skipped)
           a == Filtered(s, A)
           b == Filtered(t, B)
<1>1. /\ IsList(s) /\ IsList(t) /\ Len(t) = Len(s) /\ DOMAIN s = 1..Len(s) /\ DOMAIN t = 1..Len(s)
      /\ \A i, j \in 1..Len(s) : (s[i] = s[j] => i = j) /\ (t[i] = t[j] => i = j)
      /\ \A k \in 1..Len(s) : s[k].frontend = t[k].frontend /\ s[k].source = t[k].source
  BY AlikeFields
<1>2. Mirrors(A, B)
  BY <1>1 DEF Mirrors, LeftOf
<1>3. \A i \in 1..Len(s) : (s[i] \in A <=> i \notin skipped) /\ (t[i] \in B <=> i \notin skipped)
  BY <1>1 DEF LeftOf
<1> HIDE DEF A, B
<1>4. SamePlaces(s, t, a, b)
  BY <1>1, <1>3, FilteredAlike
<1>5. IsList(a) /\ IsList(b)
  BY <1>1, FilteredList
<1> HIDE DEF a, b
<1>6. DOMAIN a = 1..Len(a) /\ DOMAIN b = 1..Len(a)
  BY <1>4, <1>5, ListFields DEF SamePlaces
<1>7. \A j \in 1..Len(a) : a[j].frontend = b[j].frontend
  BY <1>1, <1>4 DEF SamePlaces
<1>8. [i \in DOMAIN a |-> a[i].frontend] = [i \in DOMAIN b |-> b[i].frontend]
  BY <1>6, <1>7
<1> QED
  BY <1>2, <1>8 DEF A, B, a, b, FrontendsLeft

(* Lists that read alike are arbitrated alike. *)
LEMMA ArbitratedAlike ==
  ASSUME NEW s, NEW t, Alike(s, t), \A x \in Range(s) : IsFrontend(x.frontend)
  PROVE  RoutedSame(Arbitrated(s, Kept(s)), Arbitrated(t, Kept(t)))
<1> DEFINE j == Kept(s)
           k == Kept(t)
           F == [i \in DOMAIN j |-> j[i].frontend]
           G == [i \in DOMAIN k |-> k[i].frontend]
           out1 == Arbitrated(s, j)
           out2 == Arbitrated(t, k)
           lifted == Lift(F)
           A == LeftOf(j, lifted.skipped)
           B == LeftOf(k, lifted.skipped)
           a == FrontendsLeft(j, lifted.skipped)
           b == FrontendsLeft(k, lifted.skipped)
           copies == AsSequence({e.rule : e \in lifted.copies})
<1>1. Alike(j, k) /\ Alike(t, s)
  BY KeptAlike, AlikeFields
<1>2. Range(j) \subseteq Range(s)
  BY KeptApart, AlikeFields
<1> HIDE DEF j, k
<1>3. /\ IsList(j) /\ Len(j) \in Nat /\ DOMAIN j = 1..Len(j) /\ DOMAIN k = 1..Len(j)
      /\ \A i \in 1..Len(j) : j[i] \in Range(j) /\ j[i].frontend = k[i].frontend
      /\ Alike(k, j)
  BY <1>1, AlikeFields
<1>4. F = G
  BY <1>3
<1>5. Frontends(F)
  <2>1. F = [i \in 1..Len(j) |-> F[i]] /\ DOMAIN F = 1..Len(j) /\ \A i \in 1..Len(j) : F[i] = j[i].frontend
    BY <1>3
  <2> HIDE DEF F
  <2>2. IsList(F)
    BY <1>3, <2>1, IndexedList
  <2>3. \A i \in DOMAIN F : IsFrontend(F[i])
    BY <1>2, <1>3, <2>1
  <2> QED
    BY <2>2, <2>3 DEF Frontends
<1>6. lifted.skipped \subseteq DOMAIN j
  BY <1>5, SkippedThere
<1>7. /\ out1.served = A /\ out1.collisions = Collisions(s) /\ out1.frontends = a \o copies
      /\ out1.proxied = Proxied(WithFolded(A, Folded(s)))
      /\ out1.skips = AnyParent(SkipSources(j, Folded(s), lifted.skipped))
  BY DEF Arbitrated, Routed, LeftOf, FrontendsLeft, WithFolded
<1>8. /\ out2.served = B /\ out2.collisions = Collisions(t) /\ out2.frontends = b \o copies
      /\ out2.proxied = Proxied(WithFolded(B, Folded(t)))
      /\ out2.skips = AnyParent(SkipSources(k, Folded(t), lifted.skipped))
  <2>1. Lift(G) = lifted
    BY <1>4
  <2>2. out2 = Routed(k, Folded(t), Collisions(t), lifted)
    BY <2>1 DEF Arbitrated
  <2> HIDE DEF lifted, out2
  <2> QED
    BY <2>2 DEF Routed, LeftOf, FrontendsLeft, WithFolded
<1> HIDE DEF lifted, F, G, out1, out2, copies
<1>9. Mirrors(A, B) /\ a = b
  BY <1>1, ServedAlike
<1>10. Mirrors(B, A)
  BY <1>3, ServedAlike
<1> HIDE DEF A, B, a, b
<1>11. /\ Collisions(s) \subseteq Collisions(t) /\ Mirrors(Folded(s), Folded(t))
       /\ Collisions(t) \subseteq Collisions(s) /\ Mirrors(Folded(t), Folded(s))
  BY <1>1, LostAlike
<1>12. out1.proxied = out2.proxied
  <2>1. out1.proxied \subseteq out2.proxied
    BY <1>7, <1>8, <1>9, <1>11, ProxiedAlike
  <2>2. out2.proxied \subseteq out1.proxied
    BY <1>7, <1>8, <1>10, <1>11, ProxiedAlike
  <2> QED
    BY <2>1, <2>2
<1>13. SkipSources(j, Folded(s), lifted.skipped) = SkipSources(k, Folded(t), lifted.skipped)
  <2>1. SkipSources(j, Folded(s), lifted.skipped) \subseteq SkipSources(k, Folded(t), lifted.skipped)
    BY <1>1, <1>6, <1>11, SkipsAlike
  <2>2. lifted.skipped \subseteq DOMAIN k
    BY <1>3, <1>6
  <2>3. SkipSources(k, Folded(t), lifted.skipped) \subseteq SkipSources(j, Folded(s), lifted.skipped)
    BY <1>3, <1>11, <2>2, SkipsAlike
  <2> QED
    BY <2>1, <2>3
<1>14. out1.skips = out2.skips
  BY <1>7, <1>8, <1>13
<1>15. out1.collisions = out2.collisions
  <2>1. Collisions(s) = Collisions(t)
    BY <1>11
  <2> QED
    BY <1>7, <1>8, <2>1
<1>16. out1.frontends = out2.frontends
  BY <1>7, <1>8, <1>9
<1>17. RoutedSame(out1, out2)
  <2>1. out1.served = A /\ out2.served = B
    BY <1>7, <1>8
  <2>2. Mirrors(out1.served, out2.served) /\ Mirrors(out2.served, out1.served)
    BY <1>9, <1>10, <2>1
  <2> QED
    BY <1>12, <1>14, <1>15, <1>16, <2>2 DEF RoutedSame
<1> QED
  BY <1>17 DEF out1, out2, j, k

(* The routes of two listings. *)
LEMMA RoutesRelisted ==
  ASSUME NEW L, NEW M, Relisted(L, M)
  PROVE  RoutedSame(RoutesOf(L), RoutesOf(M)) /\ Range(FrontendsOf(L)) = Range(FrontendsOf(M))
<1> DEFINE f == FrontendsOf(L)
           g == FrontendsOf(M)
<1>1. Cached(L) /\ Cached(M)
  BY DEF Relisted
<1>2. Alike(ByClaim(f), ByClaim(g))
  BY FrontendsAlike
<1>3. IsList(f) /\ \A s \in Range(f) : IsSourced(s)
  <2>1. ASSUME NEW objs, Cached(objs)
        PROVE  IsList(FrontendsOf(objs)) /\ \A s \in Range(FrontendsOf(objs)) : IsSourced(s)
    BY <2>1, FrontendsLoad
  <2> QED
    BY <1>1, <2>1
<1>4. Range(f) = Range(g)
  <2> DEFINE x == IngressFrontends(BuiltIngresses(L))
             y == IngressFrontends(BuiltIngresses(M))
             h == HttpFrontends(HttpAttachments(L, BuiltGateways(L)))
  <2>1. IsList(x) /\ IsList(y) /\ OwnOrderKept(x, y)
    BY IngressesRearranged
  <2>2. IsList(h)
    BY <1>1, HttpFrontendsAre
  <2>3. f = x \o h /\ g = y \o h
    BY SameHttpAttachments DEF FrontendsOf
  <2> HIDE DEF x, y, h
  <2>4. PICK pi : /\ Rearranges(pi, Len(x)) /\ \A i \in 1..Len(x) : x[i] = y[pi[i]]
    BY <2>1 DEF OwnOrderKept
  <2>5. Len(x) = Len(y)
    BY <2>1 DEF OwnOrderKept
  <2>6. Range(x) = Range(y)
    <3>1. /\ \A i \in 1..Len(x) : x[i] \in Range(x) /\ y[i] \in Range(y)
          /\ \A z \in Range(x) : \E i \in 1..Len(x) : z = x[i]
          /\ \A z \in Range(y) : \E i \in 1..Len(x) : z = y[i]
      BY <2>1, <2>5, ListFields
    <3>2. \A i \in 1..Len(x) : pi[i] \in 1..Len(x)
      BY <2>4 DEF Rearranges
    <3>3. \A k \in 1..Len(x) : \E i \in 1..Len(x) : pi[i] = k
      BY <2>4 DEF Rearranges
    <3>4. Range(x) \subseteq Range(y)
      BY <2>4, <3>1, <3>2
    <3>5. ASSUME NEW z \in Range(y) PROVE z \in Range(x)
      <4>1. PICK k \in 1..Len(x) : z = y[k]
        BY <3>1
      <4>2. PICK i \in 1..Len(x) : pi[i] = k
        BY <3>3
      <4> QED
        BY <2>4, <3>1, <4>1, <4>2
    <3> QED
      BY <3>4, <3>5
  <2>7. Range(x \o h) = Range(x) \cup Range(h) /\ Range(y \o h) = Range(y) \cup Range(h)
    BY <2>1, <2>2, ListsJoined
  <2> QED
    BY <2>3, <2>6, <2>7
<1> HIDE DEF f, g
<1>5. \A x \in Range(ByClaim(f)) : IsFrontend(x.frontend)
  BY <1>3, ByClaimList DEF IsSourced
<1>6. RoutedSame(Arbitrated(ByClaim(f), Kept(ByClaim(f))), Arbitrated(ByClaim(g), Kept(ByClaim(g))))
  BY <1>2, <1>5, ArbitratedAlike
<1> QED
  BY <1>4, <1>6 DEF RoutesOf, f, g

(* A listener admits routes of the one kind its protocol has. *)
LEMMA AdmittedKind ==
  ASSUME NEW objs, Cached(objs), NEW o, NEW i \in OurParents(BuiltGateways(objs), o),
         NEW l \in Range(Admitting(objs, BuiltGateways(objs), o, o.parents[i]))
  PROVE  o.kind = RouteKind(l.proto)
<1> DEFINE gws == BuiltGateways(objs)
           ref == o.parents[i]
           its == {g \in gws : g.ns = ParentNs(o, ref) /\ g.name = ref.gateway}
           g == ParentGateway(gws, o, ref)
<1>1. its # {}
  BY DEF OurParents
<1>2. g \in its
  BY <1>1 DEF ParentGateway, The
<1>3. g \in gws
  BY <1>2
<1>4. IsList(g.listeners)
  BY <1>3, BuiltListeners
<1> DEFINE addressable == Addressable(gws, o, ref)
<1>5. IsList(addressable) /\ Range(addressable) \subseteq Range(g.listeners)
  <2> DEFINE listeners == g.listeners
  <2>0. IsList(listeners)
    BY <1>4
  <2>1. \A kept : IsList(Filtered(listeners, kept)) /\ Range(Filtered(listeners, kept)) \subseteq Range(listeners)
    <3> HIDE DEF listeners
    <3> QED
      BY <2>0, FilteredList
  <2> QED
    BY <2>1 DEF Addressable
<1>6. l \in Range(addressable) /\ o.kind \in l.kinds
  <2> DEFINE kept == {x \in Range(addressable) : /\ x.accepted /\ o.kind \in x.kinds
                                                 /\ AdmitsNamespace(objs, x, o.ns, ParentNs(o, ref))}
  <2>1. Admitting(objs, gws, o, ref) = Filtered(addressable, kept)
    BY DEF Admitting
  <2>2. \A x \in kept : x \in Range(addressable) /\ o.kind \in x.kinds
    OBVIOUS
  <2> HIDE DEF kept, addressable
  <2>3. Range(Filtered(addressable, kept)) = Range(addressable) \cap kept
    BY <1>5, FilteredList
  <2> QED
    BY <2>1, <2>2, <2>3
<1> HIDE DEF addressable
<1>7. PICK h \in OurGateways(objs) : g = [h EXCEPT !.listeners = [k \in DOMAIN @ |-> Listener(objs, h, @[k])]]
  <2> HIDE DEF g
  <2> QED
    BY <1>3 DEF BuiltGateways
<1>8. "listeners" \in DOMAIN h
  BY DEF OurGateways, Cached, WellFormed
<1>9. g.listeners = [k \in DOMAIN h.listeners |-> Listener(objs, h, h.listeners[k])]
  <2> HIDE DEF g
  <2> QED
    BY <1>7, <1>8
<1>10. PICK k \in DOMAIN h.listeners : l = Listener(objs, h, h.listeners[k])
  <2> HIDE DEF g
  <2>1. l \in Range(g.listeners)
    BY <1>5, <1>6
  <2> QED
    BY <1>9, <2>1 DEF Range
<1>11. l.proto = h.listeners[k].proto /\ l.kinds \subseteq OwnKinds(h.listeners[k].proto)
  BY <1>10 DEF Listener, ListenerUnless
<1> QED
  BY <1>6, <1>11 DEF OwnKinds

(* The layer-4 attachments and claims of two listings. *)
LEMMA SocketsRelisted ==
  ASSUME NEW L, NEW M, Relisted(L, M)
  PROVE  /\ Range(L4Attachments(L, BuiltGateways(L))) = Range(L4Attachments(M, BuiltGateways(M)))
         /\ Range(ClaimsOf(L)) = Range(ClaimsOf(M))
<1> DEFINE gws == BuiltGateways(L)
           a == L4Attachments(L, gws)
           b == L4Attachments(M, gws)
<1>0. Cached(L) /\ Cached(M) /\ Range(L) = Range(M)
  BY DEF Relisted
<1>1. BuiltGateways(M) = gws
  BY <1>0, SameGateways
<1>2. \A o, i : L4Attachment(L, gws, o, i) = L4Attachment(M, gws, o, i)
  BY <1>0, SameAttachment
<1>3. /\ IsList(a)
      /\ \A x : x \in Range(a) <=> \E o \in Range(L) : \E i \in OurParents(gws, o) :
           o.kind \in {"TCPRoute", "UDPRoute"} /\ x = L4Attachment(L, gws, o, i)
  BY <1>0, L4AttachmentsMade
<1>4. /\ IsList(b)
      /\ \A x : x \in Range(b) <=> \E o \in Range(M) : \E i \in OurParents(gws, o) :
           o.kind \in {"TCPRoute", "UDPRoute"} /\ x = L4Attachment(M, gws, o, i)
  BY <1>0, <1>1, L4AttachmentsMade
<1>5. (\A x \in Range(a) : IsList(x.admitting)) /\ \A x \in Range(b) : IsList(x.admitting)
  BY <1>0, <1>1, L4AttachmentParts
<1> HIDE DEF gws, a, b
<1>6. \A x : x \in Range(a) <=> x \in Range(b)
  BY <1>0, <1>2, <1>3, <1>4
<1>7. Range(a) = Range(b)
  BY <1>6
<1>8. \A c : c \in Range(L4Claims(a)) <=> \E x \in Range(a) : x.backend.err = {} /\
              \E l \in Range(Programmed(x.admitting)) : c = L4Claim(x, l)
  BY <1>3, <1>5, ClaimsAre
<1>9. \A c : c \in Range(L4Claims(b)) <=> \E x \in Range(b) : x.backend.err = {} /\
              \E l \in Range(Programmed(x.admitting)) : c = L4Claim(x, l)
  BY <1>4, <1>5, ClaimsAre
<1>10. \A c : c \in Range(L4Claims(a)) <=> c \in Range(L4Claims(b))
  BY <1>7, <1>8, <1>9
<1>11. Range(L4Claims(a)) = Range(L4Claims(b))
  BY <1>10
<1> QED
  BY <1>1, <1>7, <1>11 DEF ClaimsOf, a, b, gws

(* Claims on a socket that are equally old go to one cluster. *)
Undisputed(claims) ==
  \A c, d \in Range(claims) :
    L4Key(c) = L4Key(d) /\ c.source.text = d.source.text => c.cluster = d.cluster

(* One spelling and one protocol are one route, which has one backend. *)
LEMMA ClaimsUndisputed ==
  ASSUME NEW objs, Cached(objs)
  PROVE  Undisputed(ClaimsOf(objs))
<1> DEFINE gws == BuiltGateways(objs)
           l4 == L4Attachments(objs, gws)
<1>1. IsList(l4) /\ \A a \in Range(l4) : IsList(a.admitting)
  BY L4AttachmentsMade, L4AttachmentParts
<1>2. \A c : c \in Range(L4Claims(l4)) <=> \E a \in Range(l4) : a.backend.err = {} /\
              \E l \in Range(Programmed(a.admitting)) : c = L4Claim(a, l)
  <2> HIDE DEF l4
  <2> QED
    BY <1>1, ClaimsAre
<1>3. ASSUME NEW c \in Range(L4Claims(l4))
      PROVE  \E o \in Range(objs) :
               /\ o.kind \in {"TCPRoute", "UDPRoute"} /\ o.kind = RouteKind(c.proto) /\ c.source.text = o.text
               /\ c.cluster = Backend(objs, o, o.refs, "Number", FALSE).id
  <2>1. PICK a \in Range(l4) : \E l \in Range(Programmed(a.admitting)) : c = L4Claim(a, l)
    BY <1>2
  <2>2. PICK l \in Range(Programmed(a.admitting)) : c = L4Claim(a, l)
    BY <2>1
  <2>3. PICK o \in Range(objs) : \E i \in OurParents(gws, o) :
          o.kind \in {"TCPRoute", "UDPRoute"} /\ a = L4Attachment(objs, gws, o, i)
    BY L4AttachmentsMade
  <2>4. PICK i \in OurParents(gws, o) : o.kind \in {"TCPRoute", "UDPRoute"} /\ a = L4Attachment(objs, gws, o, i)
    BY <2>3
  <2>5. /\ a.route = o /\ a.admitting = Admitting(objs, gws, o, o.parents[i])
        /\ a.backend = Backend(objs, o, o.refs, "Number", FALSE)
    BY <2>4 DEF L4Attachment
  <2>6. l \in Range(a.admitting)
    BY <1>1, ProgrammedList
  <2>7. o.kind = RouteKind(l.proto)
    BY <2>4, <2>5, <2>6, AdmittedKind
  <2>8. c.proto = l.proto /\ c.cluster = a.backend.id /\ c.source = ParentSource(a.route, a.ref)
    BY <2>2, ClaimFields
  <2>9. c.source.text = o.text
    BY <2>5, <2>8 DEF ParentSource, Source
  <2>10. c.cluster = Backend(objs, o, o.refs, "Number", FALSE).id
    BY <2>5, <2>8
  <2> QED
    BY <2>4, <2>7, <2>8, <2>9, <2>10
<1>4. ASSUME NEW c \in Range(L4Claims(l4)), NEW d \in Range(L4Claims(l4)),
             L4Key(c) = L4Key(d), c.source.text = d.source.text
      PROVE  c.cluster = d.cluster
  <2>1. PICK o \in Range(objs) :
               /\ o.kind \in {"TCPRoute", "UDPRoute"} /\ o.kind = RouteKind(c.proto) /\ c.source.text = o.text
               /\ c.cluster = Backend(objs, o, o.refs, "Number", FALSE).id
    BY <1>3
  <2>2. PICK p \in Range(objs) :
               /\ p.kind \in {"TCPRoute", "UDPRoute"} /\ p.kind = RouteKind(d.proto) /\ d.source.text = p.text
               /\ d.cluster = Backend(objs, p, p.refs, "Number", FALSE).id
    BY <1>3
  <2>3. c.proto = d.proto
    BY <1>4 DEF L4Key
  <2>4. o.kind = p.kind /\ o.text = p.text
    BY <1>4, <2>1, <2>2, <2>3
  <2>5. o.ns = p.ns /\ o.name = p.name
    BY <2>1, <2>2, <2>4 DEF Cached, DatedKinds
  <2>6. o = p
    BY <2>4, <2>5 DEF Cached, Ident
  <2> QED
    BY <2>1, <2>2, <2>6, Zenon
<1> QED
  BY <1>4 DEF Undisputed, ClaimsOf

(* Whoever holds a socket, it goes to one cluster. *)
LEMMA OneHolding ==
  ASSUME NEW c, NEW d, IsList(c), IsList(d), Range(c) = Range(d), \A x \in Range(c) : IsClaim(x.source),
         Undisputed(c), NEW i \in DOMAIN c, NEW j \in DOMAIN d, L4Key(c[i]) = L4Key(d[j])
  PROVE  c[Holder(c, i)].cluster = d[Holder(d, j)].cluster
<1> DEFINE h == Holder(c, i)
           k == Holder(d, j)
<1>1. /\ h \in DOMAIN c /\ L4Key(c[h]) = L4Key(c[i])
      /\ \A m \in DOMAIN c : L4Key(c[m]) = L4Key(c[i]) => ~Older(c[m].source, c[h].source)
  BY HolderHolds
<1>2. \A x \in Range(d) : IsClaim(x.source)
  OBVIOUS
<1>3. /\ k \in DOMAIN d /\ L4Key(d[k]) = L4Key(d[j])
      /\ \A m \in DOMAIN d : L4Key(d[m]) = L4Key(d[j]) => ~Older(d[m].source, d[k].source)
  BY <1>2, HolderHolds
<1> HIDE DEF h, k
<1>4. c[h] \in Range(c) /\ d[k] \in Range(d)
  BY <1>1, <1>3, ListFields
<1>10. (\A x \in Range(c) : \E m \in DOMAIN c : c[m] = x) /\ \A x \in Range(d) : \E m \in DOMAIN d : d[m] = x
  BY DEF Range
<1>5. PICK m \in DOMAIN c : c[m] = d[k]
  BY <1>4, <1>10
<1>6. PICK n \in DOMAIN d : d[n] = c[h]
  BY <1>4, <1>10
<1>7. ~Older(d[k].source, c[h].source) /\ ~Older(c[h].source, d[k].source)
  BY <1>1, <1>3, <1>5, <1>6
<1>8. c[h].source.text = d[k].source.text
  BY <1>4, <1>7, EquallyOld
<1>9. L4Key(c[h]) = L4Key(d[k]) /\ c[h] \in Range(c) /\ d[k] \in Range(c)
  BY <1>1, <1>3, <1>4
<1> QED
  BY <1>8, <1>9 DEF Undisputed, h, k

(* So the order of claims decides neither the sockets nor who carries them. *)
LEMMA CarriersWithin ==
  ASSUME NEW c, NEW d, IsList(c), IsList(d), Range(c) = Range(d), \A x \in Range(c) : IsClaim(x.source),
         Undisputed(c)
  PROVE  L4Carriers(c) \subseteq L4Carriers(d) /\ L4Frontends(c) \subseteq L4Frontends(d)
<1>0. /\ \A i \in DOMAIN c : c[i] \in Range(c) /\ \E j \in DOMAIN d : d[j] = c[i]
  BY ListFields
<1>1. ASSUME NEW x \in L4Carriers(c) PROVE x \in L4Carriers(d)
  <2>1. PICK i \in DOMAIN c : x = c[i] /\ c[Holder(c, i)].cluster = c[i].cluster
    BY DEF L4Carriers
  <2>2. PICK j \in DOMAIN d : d[j] = c[i]
    BY <1>0
  <2>3. c[Holder(c, i)].cluster = d[Holder(d, j)].cluster
    BY <2>2, OneHolding
  <2>4. d[Holder(d, j)].cluster = d[j].cluster
    BY <2>1, <2>2, <2>3
  <2> QED
    BY <2>1, <2>2, <2>4 DEF L4Carriers
<1>2. ASSUME NEW f \in L4Frontends(c) PROVE f \in L4Frontends(d)
  <2>1. PICK i \in DOMAIN c : /\ f = [proto |-> c[i].proto, addr |-> c[i].addr, cluster |-> c[i].cluster]
                              /\ Holder(c, i) = i
    BY DEF L4Frontends
  <2>2. PICK j \in DOMAIN d : d[j] = c[i]
    BY <1>0
  <2> DEFINE k == Holder(d, j)
  <2>3. c[Holder(c, i)].cluster = d[k].cluster
    BY <2>2, OneHolding
  <2>4. \A x \in Range(d) : IsClaim(x.source)
    OBVIOUS
  <2>5. k \in DOMAIN d /\ L4Key(d[k]) = L4Key(d[j]) /\ Holder(d, k) = k
    BY <2>4, HolderHolds
  <2> HIDE DEF k
  <2>6. d[k].proto = c[i].proto /\ d[k].addr = c[i].addr
    BY <2>2, <2>5 DEF L4Key
  <2>7. f = [proto |-> d[k].proto, addr |-> d[k].addr, cluster |-> d[k].cluster]
    BY <2>1, <2>3, <2>6
  <2> QED
    BY <2>5, <2>7 DEF L4Frontends
<1> QED
  BY <1>1, <1>2

(* The sockets of two listings go to the same clusters, carried by the same routes. *)
LEMMA CarriersRelisted ==
  ASSUME NEW L, NEW M, Relisted(L, M)
  PROVE  /\ L4Carriers(ClaimsOf(L)) = L4Carriers(ClaimsOf(M))
         /\ L4Frontends(ClaimsOf(L)) = L4Frontends(ClaimsOf(M))
<1>1. Cached(L) /\ Cached(M)
  BY DEF Relisted
<1>2. ASSUME NEW objs, Cached(objs)
      PROVE  /\ IsList(ClaimsOf(objs)) /\ Undisputed(ClaimsOf(objs))
             /\ \A c \in Range(ClaimsOf(objs)) : IsClaim(c.source)
  BY <1>2, ClaimsResolved, ClaimsUndisputed
<1>3. Range(ClaimsOf(L)) = Range(ClaimsOf(M))
  BY SocketsRelisted
<1>4. /\ IsList(ClaimsOf(L)) /\ Undisputed(ClaimsOf(L)) /\ \A c \in Range(ClaimsOf(L)) : IsClaim(c.source)
      /\ IsList(ClaimsOf(M)) /\ Undisputed(ClaimsOf(M)) /\ \A c \in Range(ClaimsOf(M)) : IsClaim(c.source)
  BY <1>1, <1>2
<1>5. /\ L4Carriers(ClaimsOf(L)) \subseteq L4Carriers(ClaimsOf(M))
      /\ L4Frontends(ClaimsOf(L)) \subseteq L4Frontends(ClaimsOf(M))
  BY <1>3, <1>4, CarriersWithin
<1>6. /\ L4Carriers(ClaimsOf(M)) \subseteq L4Carriers(ClaimsOf(L))
      /\ L4Frontends(ClaimsOf(M)) \subseteq L4Frontends(ClaimsOf(L))
  BY <1>3, <1>4, CarriersWithin
<1> QED
  BY <1>5, <1>6

(* The routes counted at listeners. *)
AttachedRoutes(objs) ==
  HttpAttached(HttpAttachments(objs, BuiltGateways(objs))) \cup L4Attached(L4Attachments(objs, BuiltGateways(objs)))

(* What a build but for its routes is made from is the same for two listings. *)
LEMMA PartsRelisted ==
  ASSUME NEW L, NEW M, Relisted(L, M)
  PROVE  /\ WebServices(L) = WebServices(M) /\ AllServices(L) = AllServices(M)
         /\ IngressesOf(L) = IngressesOf(M) /\ ParentsOf(L) = ParentsOf(M)
         /\ LoadedCerts(L) = LoadedCerts(M) /\ AttachedRoutes(L) = AttachedRoutes(M)
         /\ Backends(L, AllServices(L)) = Backends(M, AllServices(M))
<1>0. Cached(L) /\ Cached(M) /\ Range(L) = Range(M)
  BY DEF Relisted
<1>1. BuiltGateways(L) = BuiltGateways(M)
  BY <1>0, SameGateways
<1>2. HttpAttachments(L, BuiltGateways(L)) = HttpAttachments(M, BuiltGateways(M))
  BY SameHttpAttachments
<1>3. Range(BuiltIngresses(L)) = Range(BuiltIngresses(M))
  <2>1. \A o : BuiltIngress(L, o) = BuiltIngress(M, o)
    BY <1>0, SameIngress
  <2>2. \A b : b \in Range(BuiltIngresses(L)) <=> \E o \in Range(L) : IsOurs(o) /\ b = BuiltIngress(L, o)
    BY <1>0, IngressesBuilt
  <2>3. \A b : b \in Range(BuiltIngresses(M)) <=> \E o \in Range(M) : IsOurs(o) /\ b = BuiltIngress(M, o)
    BY <1>0, IngressesBuilt
  <2>4. \A b : b \in Range(BuiltIngresses(L)) <=> b \in Range(BuiltIngresses(M))
    BY <1>0, <2>1, <2>2, <2>3
  <2> QED
    BY <2>4
<1>4. /\ Range(L4Attachments(L, BuiltGateways(L))) = Range(L4Attachments(M, BuiltGateways(M)))
      /\ Range(ClaimsOf(L)) = Range(ClaimsOf(M)) /\ L4Carriers(ClaimsOf(L)) = L4Carriers(ClaimsOf(M))
  BY SocketsRelisted, CarriersRelisted
<1>5. /\ L4Services(L4Attachments(L, BuiltGateways(L))) = L4Services(L4Attachments(M, BuiltGateways(M)))
      /\ L4Attached(L4Attachments(L, BuiltGateways(L))) = L4Attached(L4Attachments(M, BuiltGateways(M)))
      /\ \A losers : L4Settled(L4Attachments(L, BuiltGateways(L)), losers)
                     = L4Settled(L4Attachments(M, BuiltGateways(M)), losers)
  <2> DEFINE a == L4Attachments(L, BuiltGateways(L))
             b == L4Attachments(M, BuiltGateways(M))
  <2>0. Range(a) = Range(b)
    BY <1>4
  <2> HIDE DEF a, b
  <2>1. L4Services(a) = L4Services(b)
    BY <2>0 DEF L4Services
  <2>2. L4Attached(a) = L4Attached(b)
    BY <2>0 DEF L4Attached
  <2>3. \A losers : L4Settled(a, losers) = L4Settled(b, losers)
    BY <2>0, Zenon DEF L4Settled
  <2> QED
    BY <2>1, <2>2, <2>3 DEF a, b
<1>6. IngressServices(BuiltIngresses(L)) = IngressServices(BuiltIngresses(M))
  BY <1>3 DEF IngressServices
<1>7. WebServices(L) = WebServices(M)
  BY <1>2, <1>6 DEF WebServices
<1>8. AllServices(L) = AllServices(M)
  BY <1>5, <1>7 DEF AllServices
<1>9. IngressesOf(L) = IngressesOf(M)
  BY <1>3 DEF IngressesOf
<1>10. ParentsOf(L) = ParentsOf(M)
  BY <1>2, <1>4, <1>5 DEF ParentsOf
<1>11. LoadedCerts(L) = LoadedCerts(M)
  BY <1>0, <1>1, SameIngress DEF LoadedCerts
<1>12. AttachedRoutes(L) = AttachedRoutes(M)
  BY <1>2, <1>5 DEF AttachedRoutes
<1>13. Backends(L, AllServices(L)) = Backends(M, AllServices(M))
  BY <1>0, <1>8, SameRoutes
<1> QED
  BY <1>7, <1>8, <1>9, <1>10, <1>11, <1>12, <1>13

(* An output is its parts. *)
LEMMA OutputShape ==
  ASSUME NEW objs, NEW c, NEW routes, NEW clusters, NEW carriers, NEW lost
  PROVE  LET b == Output(objs, c, routes, clusters, carriers, lost) IN
         b = [ir |-> [clusters |-> b.ir.clusters, backends |-> b.ir.backends, frontends |-> b.ir.frontends,
                      l4 |-> b.ir.l4, certs |-> b.ir.certs],
              ingresses |-> b.ingresses, parents |-> b.parents, gateways |-> b.gateways,
              asked |-> b.asked, certs |-> b.certs, carriers |-> b.carriers, claims |-> b.claims,
              served |-> b.served]
BY Zenon DEF Output

(* A Gateway's status, with the names it lost. *)
GatewayTold(g, lost) ==
  [g EXCEPT !.problems = @ \cup
     (IF \E s \in lost : s.kind = "Gateway" /\ s.ns = g.ns /\ s.name = g.name THEN {"CertificateNameClaimed"} ELSE {})]

(* The statuses of all of them. *)
GatewaysOf(gws, attached, lost) ==
  {GatewayTold(g, lost) : g \in {GatewayResult(h, attached) : h \in gws}}

(* A build is its parts, and what it says of Gateways. *)
LEMMA BuildShape ==
  ASSUME NEW objs
  PROVE  LET b == Build(objs) IN
         /\ b = [ir |-> [clusters |-> b.ir.clusters, backends |-> b.ir.backends, frontends |-> b.ir.frontends,
                         l4 |-> b.ir.l4, certs |-> b.ir.certs],
                 ingresses |-> b.ingresses, parents |-> b.parents, gateways |-> b.gateways,
                 asked |-> b.asked, certs |-> b.certs, carriers |-> b.carriers, claims |-> b.claims,
                 served |-> b.served]
         /\ b.gateways = GatewaysOf(BuiltGateways(objs), AttachedRoutes(objs), LostNames(LoadedCerts(objs)))
<1> DEFINE gws == BuiltGateways(objs)
           http == HttpAttachments(objs, gws)
           l4 == L4Attachments(objs, gws)
           c == Collected(objs, gws, BuiltIngresses(objs), http, l4, L4Claims(l4))
           routes == Arbitrated(ByClaim(c.frontends), Kept(ByClaim(c.frontends)))
           clusters == Clusters(c.http \cup c.l4, c.http)
<1>1. Build(objs) = Output(objs, c, routes, clusters, L4Carriers(c.claims), LostNames(c.certs))
  BY DEF Build, BuildOn, Attached, Arbitrate, Settled
<1>2. /\ c.gateways = {GatewayResult(h, AttachedRoutes(objs)) : h \in gws}
      /\ c.certs = LoadedCerts(objs)
  BY Zenon DEF Collected, LoadedCerts, AttachedRoutes
<1> HIDE DEF c, routes, clusters
<1> DEFINE b == Output(objs, c, routes, clusters, L4Carriers(c.claims), LostNames(c.certs))
<1>3. b.gateways = {GatewayTold(g, LostNames(c.certs)) : g \in c.gateways}
  BY DEF Output, GatewayTold
<1>4. b = [ir |-> [clusters |-> b.ir.clusters, backends |-> b.ir.backends, frontends |-> b.ir.frontends,
                         l4 |-> b.ir.l4, certs |-> b.ir.certs],
                 ingresses |-> b.ingresses, parents |-> b.parents, gateways |-> b.gateways,
                 asked |-> b.asked, certs |-> b.certs, carriers |-> b.carriers, claims |-> b.claims,
                 served |-> b.served]
  BY OutputShape
<1> HIDE DEF b
<1>5. b.gateways = GatewaysOf(gws, AttachedRoutes(objs), LostNames(LoadedCerts(objs)))
  BY <1>2, <1>3, Zenon DEF GatewaysOf
<1> QED
  BY <1>1, <1>4, <1>5, Zenon DEF b

(* Two listings of the same caches are built alike. *)
LEMMA BuildRelisted ==
  ASSUME NEW L, NEW M, Relisted(L, M)
  PROVE  Build(L) = Build(M)
<1> DEFINE a == Build(L)
           b == Build(M)
<1>0. Range(L) = Range(M)
  BY DEF Relisted
<1>1. /\ WebServices(L) = WebServices(M) /\ AllServices(L) = AllServices(M)
      /\ IngressesOf(L) = IngressesOf(M) /\ ParentsOf(L) = ParentsOf(M)
      /\ LoadedCerts(L) = LoadedCerts(M) /\ AttachedRoutes(L) = AttachedRoutes(M)
      /\ Backends(L, AllServices(L)) = Backends(M, AllServices(M))
  BY PartsRelisted
<1>2. BuiltGateways(L) = BuiltGateways(M)
  BY <1>0, SameGateways
<1>3. RoutedSame(RoutesOf(L), RoutesOf(M)) /\ Range(FrontendsOf(L)) = Range(FrontendsOf(M))
  BY RoutesRelisted
<1>4. /\ RoutesOf(L).collisions = RoutesOf(M).collisions /\ RoutesOf(L).frontends = RoutesOf(M).frontends
      /\ RoutesOf(L).proxied = RoutesOf(M).proxied /\ RoutesOf(L).skips = RoutesOf(M).skips
      /\ Mirrors(RoutesOf(L).served, RoutesOf(M).served) /\ Mirrors(RoutesOf(M).served, RoutesOf(L).served)
  BY <1>3 DEF RoutedSame
<1>5. /\ Range(ClaimsOf(L)) = Range(ClaimsOf(M)) /\ L4Carriers(ClaimsOf(L)) = L4Carriers(ClaimsOf(M))
      /\ L4Frontends(ClaimsOf(L)) = L4Frontends(ClaimsOf(M))
  BY SocketsRelisted, CarriersRelisted
<1>6. ClustersBuilt(L) = ClustersBuilt(M)
  BY <1>1 DEF ClustersBuilt
<1>7. ChecksOf(L) = ChecksOf(M)
  BY <1>4, <1>5, <1>6 DEF ChecksOf
<1>8. /\ a.ir.frontends = b.ir.frontends /\ a.ir.l4 = b.ir.l4 /\ a.ir.backends = b.ir.backends
      /\ a.ir.clusters = b.ir.clusters /\ a.asked = b.asked /\ a.claims = b.claims /\ a.carriers = b.carriers
  BY <1>1, <1>3, <1>4, <1>5, <1>6, BuildParts
<1>9. a.served = b.served
  <2>1. /\ a.served = {[frontend |-> s.frontend, source |-> s.source] : s \in RoutesOf(L).served}
        /\ b.served = {[frontend |-> s.frontend, source |-> s.source] : s \in RoutesOf(M).served}
    BY BuildParts
  <2> HIDE DEF a, b
  <2> QED
    BY <1>4, <2>1 DEF Mirrors
<1>10. a.certs = b.certs /\ a.ir.certs = b.ir.certs
  BY <1>1, BuildCerts
<1>11. a.ingresses = b.ingresses
  <2>1. \A r : ToldIngress(L, r) = ToldIngress(M, r)
    BY <1>1, <1>4, <1>7 DEF ToldIngress
  <2>2. \A r : Collided(L, r) = Collided(M, r)
    BY <1>1, <1>4, <2>1 DEF Collided
  <2>3. a.ingresses = {Collided(L, r) : r \in IngressesOf(L)} /\ b.ingresses = {Collided(M, r) : r \in IngressesOf(M)}
    BY BuildResults
  <2> QED
    BY <1>1, <2>2, <2>3
<1>12. a.parents = b.parents
  <2>1. \A r : ToldParent(L, r) = ToldParent(M, r)
    BY <1>1, <1>4, <1>7 DEF ToldParent
  <2>2. \A r : Downgraded(ToldParent(L, r), ParentsOf(L), RoutesOf(L).collisions)
               = Downgraded(ToldParent(M, r), ParentsOf(M), RoutesOf(M).collisions)
    BY <1>1, <1>4, <2>1
  <2>3. /\ a.parents = {Downgraded(ToldParent(L, r), ParentsOf(L), RoutesOf(L).collisions) : r \in ParentsOf(L)}
        /\ b.parents = {Downgraded(ToldParent(M, r), ParentsOf(M), RoutesOf(M).collisions) : r \in ParentsOf(M)}
    BY BuildResults
  <2> QED
    BY <1>1, <2>2, <2>3
<1>13. a.gateways = b.gateways
  <2>1. /\ a.gateways = GatewaysOf(BuiltGateways(L), AttachedRoutes(L), LostNames(LoadedCerts(L)))
        /\ b.gateways = GatewaysOf(BuiltGateways(M), AttachedRoutes(M), LostNames(LoadedCerts(M)))
    BY BuildShape
  <2> QED
    BY <1>1, <1>2, <2>1
<1> DEFINE whole(x) ==
      [ir |-> [clusters |-> x.ir.clusters, backends |-> x.ir.backends, frontends |-> x.ir.frontends,
               l4 |-> x.ir.l4, certs |-> x.ir.certs],
       ingresses |-> x.ingresses, parents |-> x.parents, gateways |-> x.gateways,
       asked |-> x.asked, certs |-> x.certs, carriers |-> x.carriers, claims |-> x.claims,
       served |-> x.served]
<1>14. a = whole(a) /\ b = whole(b)
  BY BuildShape
<1> HIDE DEF a, b
<1>15. whole(a) = whole(b)
  BY <1>8, <1>9, <1>10, <1>11, <1>12, <1>13
<1> HIDE DEF whole
<1>16. a = b
  BY <1>14, <1>15
<1> QED
  BY <1>16 DEF a, b

(* A listing shows each object once. *)
LEMMA ListedOnce ==
  ASSUME NEW objs, IsFiniteSet(objs), NEW reversed, family \in Families,
         \A o \in objs : o \notin Range(family.base)
  PROVE  IsInjective(Listed(objs, reversed))
<1> DEFINE b == family.base
           q == AsSequence(objs)
           l == b \o q
           r == Reverse(l)
<1>1. PICK X : b \in Seq(X)
  BY FamiliesAssumption
<1>2. IsInjective(b)
  BY FamiliesAssumption
<1>3. q \in Seq(objs) /\ \A i, j \in 1..Len(q) : q[i] = q[j] => i = j
  BY AsSequenceLists DEF Lists
<1> HIDE DEF b, q
<1>4. b \in Seq(X \cup objs) /\ q \in Seq(X \cup objs)
  BY <1>1, <1>3
<1>5. /\ Len(b) \in Nat /\ Len(q) \in Nat /\ Len(l) = Len(b) + Len(q) /\ DOMAIN l = 1..Len(l) /\ DOMAIN b = 1..Len(b)
      /\ \A i \in 1..Len(b) : l[i] = b[i]
      /\ \A i \in (Len(b) + 1)..Len(l) : l[i] = q[i - Len(b)]
  BY <1>4
<1>6. \A i \in 1..Len(l) : i \in 1..Len(b) \/ (i \in (Len(b) + 1)..Len(l) /\ i - Len(b) \in 1..Len(q))
  BY <1>5
<1>7. /\ \A i \in 1..Len(b) : b[i] \in Range(b)
      /\ \A i \in 1..Len(q) : q[i] \in objs
  BY <1>3, <1>5 DEF Range
<1> HIDE DEF l
<1>8. \A i, j \in 1..Len(l) : l[i] = l[j] => i = j
  <2> SUFFICES ASSUME NEW i \in 1..Len(l), NEW j \in 1..Len(l), l[i] = l[j] PROVE i = j
    OBVIOUS
  <2>1. CASE i \in 1..Len(b) /\ j \in 1..Len(b)
    BY <1>2, <1>5, <2>1 DEF IsInjective
  <2>2. CASE i \in 1..Len(b) /\ j \in (Len(b) + 1)..Len(l) /\ j - Len(b) \in 1..Len(q)
    BY <1>5, <1>7, <2>2 DEF b
  <2>3. CASE j \in 1..Len(b) /\ i \in (Len(b) + 1)..Len(l) /\ i - Len(b) \in 1..Len(q)
    BY <1>5, <1>7, <2>3 DEF b
  <2>4. CASE /\ i \in (Len(b) + 1)..Len(l) /\ i - Len(b) \in 1..Len(q)
             /\ j \in (Len(b) + 1)..Len(l) /\ j - Len(b) \in 1..Len(q)
    <3>1. i - Len(b) = j - Len(b)
      BY <1>3, <1>5, <2>4
    <3> QED
      BY <1>5, <3>1
  <2> QED
    BY <1>6, <2>1, <2>2, <2>3, <2>4
<1>9. IsInjective(l)
  BY <1>5, <1>8 DEF IsInjective
<1>10. IsInjective(r)
  <2>1. r = [i \in 1..Len(l) |-> l[(Len(l) - i) + 1]]
    BY DEF Reverse
  <2>2. Len(l) \in Nat /\ \A i \in 1..Len(l) : (Len(l) - i) + 1 \in 1..Len(l)
    BY <1>5
  <2>3. ASSUME NEW i \in 1..Len(l), NEW j \in 1..Len(l), r[i] = r[j] PROVE i = j
    <3>1. (Len(l) - i) + 1 = (Len(l) - j) + 1
      BY <1>8, <2>1, <2>2, <2>3
    <3> QED
      BY <2>2, <3>1
  <2>4. DOMAIN r = 1..Len(l)
    BY <2>1
  <2> HIDE DEF r
  <2> QED
    BY <2>3, <2>4 DEF IsInjective
<1> QED
  BY <1>9, <1>10 DEF Listed, l, r, b, q

(* What the caches list, each object once. *)
LiveInv == Cached(live) /\ IsInjective(live) /\ Range(live) = Range(family.base) \cup held

(* It is what the invariant of the caches gives. *)
LEMMA LiveListed ==
  ASSUME CacheInv
  PROVE  LiveInv
<1>1. family \in Families /\ IsFiniteSet(held) /\ held \subseteq Dated(family)
  BY DEF CacheInv
<1>2. ASSUME NEW o \in held PROVE o \notin Range(family.base)
  <2>1. PICK p \in family.pool, at \in Nat : o = [p EXCEPT !.at = at]
    BY <1>1 DEF Dated
  <2>2. WellFormed(p)
    BY <1>1, FamiliesAssumption
  <2>3. Ident(o) = Ident(p)
    BY <2>1, <2>2, DatedFields DEF Ident
  <2>4. \A q \in Range(family.base), v \in Range(family.base) \cup family.pool :
          Ident(q) = Ident(v) => q = v /\ q \notin family.pool
    BY <1>1, FamiliesAssumption
  <2> QED
    BY <2>3, <2>4
<1>3. IsInjective(live)
  BY <1>1, <1>2, ListedOnce DEF live
<1>4. Range(live) = Range(family.base) \cup held
  BY <1>1, ListedAll DEF live
<1> QED
  BY <1>3, <1>4, CachesAreCached DEF LiveInv

(* The order the caches list their objects in decides nothing: a relist changes neither what Sozu *)
(* is sent nor any status (the sorts of build by OwnerClaim, the stores being hash maps).          *)
THEOREM RelistIsNothing == Spec => RelistChangesNothing
<1>1. ASSUME CacheInv, CacheInv', LiveInv, LiveInv', [Next]_vars, held' = held
      PROVE  out' = out
  <2>1. family' = family
    BY <1>1 DEF Next, Observe, Modify, Disappear, Relist, Rebuild, vars
  <2>2. Relisted(live', live)
    BY <1>1, <2>1 DEF Relisted, LiveInv
  <2>3. out = Build(live) /\ out' = Build(live')
    BY <1>1 DEF CacheInv
  <2> QED
    BY <2>2, <2>3, BuildRelisted
<1>2. CacheInv /\ CacheInv' /\ LiveInv /\ LiveInv' /\ [Next]_vars => [held' = held => out' = out]_vars
  BY <1>1
<1>3. CacheInv => LiveInv
  BY LiveListed
<1> QED
  BY <1>2, <1>3, BuildFollowsCaches, PTL DEF Spec, RelistChangesNothing
=============================================================================
