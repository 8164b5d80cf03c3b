---------------------------- MODULE Lists_proofs ----------------------------
(***************************************************************************)
(* Induction over the naturals, stated for a set instead of a predicate:   *)
(* to show P(n) for every n, take T = {n \in Nat : P(n)}.  It follows from *)
(* the least-element principle of well-founded relations.  What filters,   *)
(* flat maps, sorts and listings of sets return follows by it.             *)
(***************************************************************************)
EXTENDS Lists, FiniteSetTheorems, WellFoundedInduction, TLAPS

(* A set of naturals that is not empty has a least element. *)
LEMMA LeastNat ==
  ASSUME NEW T \in SUBSET Nat, T # {}
  PROVE  \E x \in T : \A y \in T : ~(y < x)
<1> DEFINE R == {pair \in Nat \X Nat : pair[1] < pair[2]}
<1>1. IsWellFoundedOn(R, Nat)
  BY NatLessThanWellFounded DEF OpToRel
<1>2. \E x \in T : \A y \in T : <<y, x>> \notin R
  <2> HIDE DEF R
  <2> QED
    BY <1>1, WFMin
<1> QED
  BY <1>2

(* A set of naturals that holds 0 and the successor of each of its members holds them all. *)
LEMMA NatSetInduction ==
  ASSUME NEW T \in SUBSET Nat, 0 \in T, \A n \in T : n + 1 \in T
  PROVE  T = Nat
<1> SUFFICES ASSUME T # Nat PROVE FALSE
  OBVIOUS
<1>1. PICK x \in Nat \ T : \A y \in Nat \ T : ~(y < x)
  <2>1. (Nat \ T) \in SUBSET Nat /\ Nat \ T # {}
    OBVIOUS
  <2> QED
    BY <2>1, LeastNat
<1>2. x # 0 /\ x - 1 \in Nat /\ x - 1 < x /\ (x - 1) + 1 = x
  BY <1>1
<1>3. x - 1 \in T
  BY <1>1, <1>2
<1> QED
  BY <1>1, <1>2, <1>3

(* A finite set of naturals has an upper bound, and its least upper bound is its maximum. *)
LEMMA LargestNat ==
  ASSUME NEW S, IsFiniteSet(S), S \subseteq Nat, S # {}
  PROVE  Max(S) \in S /\ \A x \in S : Max(S) >= x
<1>0. PICK n \in Nat : ExistsSurjection(1..n, S)
  BY FS_NatSurjection
<1>1. PICK f : f \in Surjection(1..n, S)
  BY <1>0 DEF ExistsSurjection
<1>2. /\ \A i \in 1..n : f[i] \in S
      /\ \A x \in S : \E i \in 1..n : f[i] = x
  BY <1>1 DEF Surjection
<1> DEFINE T == {k \in Nat : k <= n => \E b \in Nat : \A i \in 1..k : f[i] <= b}
<1>3. 0 \in T
  OBVIOUS
<1>4. ASSUME NEW k \in T PROVE k + 1 \in T
  <2> SUFFICES ASSUME k + 1 <= n PROVE \E b \in Nat : \A i \in 1..(k + 1) : f[i] <= b
    OBVIOUS
  <2>1. PICK b \in Nat : \A i \in 1..k : f[i] <= b
    OBVIOUS
  <2>0. k + 1 \in 1..n /\ \A i \in 1..k : i \in 1..n
    OBVIOUS
  <2>2. f[k + 1] \in Nat /\ \A i \in 1..k : f[i] \in Nat
    BY <1>2, <2>0
  <2>3. \A i \in 1..(k + 1) : f[i] <= b + f[k + 1]
    <3> SUFFICES ASSUME NEW i \in 1..(k + 1) PROVE f[i] <= b + f[k + 1]
      OBVIOUS
    <3>1. CASE i \in 1..k
      BY <2>1, <2>2, <3>1
    <3>2. CASE i = k + 1
      BY <2>2, <3>2
    <3> QED
      BY <3>1, <3>2
  <2>4. b + f[k + 1] \in Nat
    BY <2>2
  <2> QED
    BY <2>3, <2>4
<1>5. T = Nat
  <2>1. T \in SUBSET Nat
    OBVIOUS
  <2> HIDE DEF T
  <2> QED
    BY <1>3, <1>4, <2>1, NatSetInduction
<1> DEFINE B == {b \in Nat : \A x \in S : x <= b}
<1>6. B \in SUBSET Nat /\ B # {}
  BY <1>2, <1>5
<1>7. PICK m \in B : \A b \in B : ~(b < m)
  <2> HIDE DEF B
  <2> QED
    BY <1>6, LeastNat
<1>8. m \in S
  <2> SUFFICES ASSUME m \notin S PROVE FALSE
    OBVIOUS
  <2>1. m \in Nat /\ \A x \in S : x \in Nat /\ x < m
    BY <1>7
  <2>3. m # 0
    <3>1. PICK x \in S : TRUE
      OBVIOUS
    <3> QED
      BY <2>1, <3>1
  <2>2. m - 1 \in Nat /\ m - 1 < m /\ \A x \in S : x <= m - 1
    BY <2>1, <2>3
  <2> QED
    BY <1>7, <2>2
<1>9. \A x \in S : m >= x
  BY <1>7
<1> QED
  BY <1>8, <1>9 DEF Max

(* A set of naturals that is not empty has a minimum. *)
LEMMA SmallestNat ==
  ASSUME NEW S \in SUBSET Nat, S # {}
  PROVE  Min(S) \in S /\ \A x \in S : Min(S) <= x
<1>1. PICK m \in S : \A x \in S : ~(x < m)
  BY LeastNat
<1>2. \A x \in S : m <= x
  BY <1>1
<1> QED
  BY <1>2 DEF Min

(* A finite set that is not empty has an element above all others, where above is a total order. *)
LEMMA GreatestExists ==
  ASSUME NEW S, IsFiniteSet(S), S # {}, NEW above,
         \A d, e \in S : d # e => <<d, e>> \in above \/ <<e, d>> \in above,
         \A c, d, e \in S : <<c, d>> \in above /\ <<d, e>> \in above => <<c, e>> \in above
  PROVE  \E e \in S : \A d \in S \ {e} : <<e, d>> \in above
<1>0. PICK n \in Nat : ExistsSurjection(1..n, S)
  BY FS_NatSurjection
<1>1. PICK f : f \in Surjection(1..n, S)
  BY <1>0 DEF ExistsSurjection
<1>2. /\ \A i \in 1..n : f[i] \in S
      /\ \A x \in S : \E i \in 1..n : f[i] = x
  BY <1>1 DEF Surjection
<1>3. n # 0
  BY <1>2
<1> DEFINE Top(k) == \E e \in S : \A i \in 1..k : f[i] = e \/ <<e, f[i]>> \in above
           T == {k \in Nat : k <= n => Top(k)}
<1>4. 0 \in T
  OBVIOUS
<1>5. ASSUME NEW k \in T PROVE k + 1 \in T
  <2> SUFFICES ASSUME k + 1 <= n PROVE Top(k + 1)
    OBVIOUS
  <2>1. PICK e \in S : \A i \in 1..k : f[i] = e \/ <<e, f[i]>> \in above
    OBVIOUS
  <2>2. k + 1 \in 1..n /\ (\A i \in 1..k : i \in 1..n) /\ 1..(k + 1) = 1..k \cup {k + 1}
    OBVIOUS
  <2>3. f[k + 1] \in S /\ \A i \in 1..k : f[i] \in S
    BY <1>2, <2>2
  <2>4. CASE f[k + 1] = e \/ <<e, f[k + 1]>> \in above
    <3>1. \A i \in 1..(k + 1) : f[i] = e \/ <<e, f[i]>> \in above
      BY <2>1, <2>2, <2>4
    <3> QED
      BY <3>1
  <2>5. CASE f[k + 1] # e /\ <<f[k + 1], e>> \in above
    <3> DEFINE d == f[k + 1]
    <3>1. \A i \in 1..k : <<d, f[i]>> \in above
      BY <2>1, <2>3, <2>5
    <3>2. \A i \in 1..(k + 1) : f[i] = d \/ <<d, f[i]>> \in above
      BY <2>2, <3>1
    <3> QED
      BY <2>3, <3>2
  <2> QED
    BY <2>3, <2>4, <2>5
<1>6. T = Nat
  <2>1. T \in SUBSET Nat
    OBVIOUS
  <2> HIDE DEF T
  <2> QED
    BY <1>4, <1>5, <2>1, NatSetInduction
<1>7. Top(n)
  BY <1>6
<1> QED
  BY <1>2, <1>7

-----------------------------------------------------------------------------
(* Filters. *)

FilterStep(s, kept, g, n) == IF s[n] \in kept THEN Append(g, s[n]) ELSE g

FilterRun(some, s, kept, n) ==
  some = [i \in 0..n |-> IF i = 0 THEN <<>> ELSE FilterStep(s, kept, some[i - 1], i)]

(* g is what is kept of the first n elements, and e where they come from. *)
Picks(s, kept, n, g, e) ==
  /\ g \in Seq(Range(s)) /\ Len(g) \in Nat
  /\ \A j \in 1..Len(g) : e[j] \in 1..n /\ g[j] = s[e[j]] /\ s[e[j]] \in kept
  /\ \A i, j \in 1..Len(g) : i < j => e[i] < e[j]
  /\ \A i \in 1..n : s[i] \in kept => \E j \in 1..Len(g) : e[j] = i

(* The elements of a sequence. *)
LEMMA ListFields ==
  ASSUME NEW s, IsList(s)
  PROVE  /\ Len(s) \in Nat /\ DOMAIN s = 1..Len(s)
         /\ \A i \in 1..Len(s) : s[i] \in Range(s)
         /\ \A f \in Range(s) : \E i \in 1..Len(s) : f = s[i]
<1>1. s \in Seq(Range(s))
  BY DEF IsList
<1>2. Len(s) \in Nat /\ DOMAIN s = 1..Len(s)
  BY <1>1
<1> QED
  BY <1>2 DEF Range

(* What is indexed from 1 to n is a list. *)
LEMMA IndexedList ==
  ASSUME NEW n \in Nat, NEW q, q = [i \in 1..n |-> q[i]]
  PROVE  IsList(q) /\ Len(q) = n /\ DOMAIN q = 1..n
<1>1. DOMAIN q = 1..n
  OBVIOUS
<1>2. q \in [1..n -> Range(q)]
  BY <1>1 DEF Range
<1>3. q \in Seq(Range(q)) /\ Len(q) = n
  BY <1>2
<1> QED
  BY <1>1, <1>3 DEF IsList

(* One step more. *)
LEMMA PicksOn ==
  ASSUME NEW s, IsList(s), NEW kept, NEW n \in Nat, n + 1 <= Len(s), NEW g, NEW e, Picks(s, kept, n, g, e)
  PROVE  \E d : Picks(s, kept, n + 1, FilterStep(s, kept, g, n + 1), d)
<1>0. /\ g \in Seq(Range(s)) /\ Len(g) \in Nat
      /\ \A j \in 1..Len(g) : e[j] \in 1..n /\ g[j] = s[e[j]] /\ s[e[j]] \in kept
      /\ \A i, j \in 1..Len(g) : i < j => e[i] < e[j]
      /\ \A i \in 1..n : s[i] \in kept => \E j \in 1..Len(g) : e[j] = i
  BY DEF Picks
<1>1. n + 1 \in 1..Len(s) /\ s[n + 1] \in Range(s)
  BY ListFields
<1>2. 1..(n + 1) = 1..n \cup {n + 1}
  OBVIOUS
<1>3. CASE s[n + 1] \notin kept
  <2>1. Picks(s, kept, n + 1, g, e)
    BY <1>0, <1>2, <1>3 DEF Picks
  <2> QED
    BY <1>3, <2>1 DEF FilterStep
<1>4. CASE s[n + 1] \in kept
  <2> DEFINE m == Len(g)
             h == Append(g, s[n + 1])
             d == [j \in 1..(m + 1) |-> IF j = m + 1 THEN n + 1 ELSE e[j]]
  <2>1. h \in Seq(Range(s)) /\ Len(h) = m + 1 /\ h[m + 1] = s[n + 1] /\ \A j \in 1..m : h[j] = g[j]
    BY <1>0, <1>1
  <2>2. d[m + 1] = n + 1 /\ \A j \in 1..m : d[j] = e[j]
    BY <1>0
  <2>3. 1..(m + 1) = 1..m \cup {m + 1} /\ m + 1 \in Nat /\ m + 1 \in 1..(m + 1)
    BY <1>0
  <2>4. m \in Nat /\ \A j \in 1..m : e[j] \in 1..n /\ j < m + 1
    BY <1>0
  <2> HIDE DEF d, h, m
  <2>5. \A j \in 1..(m + 1) : d[j] \in 1..(n + 1) /\ h[j] = s[d[j]] /\ s[d[j]] \in kept
    BY <1>0, <1>2, <1>4, <2>1, <2>2, <2>3 DEF m
  <2>6. ASSUME NEW i \in 1..(m + 1), NEW j \in 1..(m + 1), i < j PROVE d[i] < d[j]
    <3>1. i \in 1..m
      BY <2>4, <2>6
    <3>2. CASE j = m + 1
      BY <2>2, <2>4, <3>1, <3>2
    <3>3. CASE j \in 1..m
      BY <1>0, <2>2, <2>6, <3>1, <3>3 DEF m
    <3> QED
      BY <2>3, <3>2, <3>3
  <2>7. \A i \in 1..(n + 1) : s[i] \in kept => \E j \in 1..(m + 1) : d[j] = i
    BY <1>0, <1>2, <2>2, <2>3 DEF m
  <2>8. Picks(s, kept, n + 1, h, d)
    BY <2>1, <2>3, <2>5, <2>6, <2>7 DEF Picks
  <2> QED
    BY <1>4, <2>8 DEF FilterStep, h
<1> QED
  BY <1>3, <1>4

(* The run of a filter is defined. *)
LEMMA FilterRunExists ==
  ASSUME NEW s, NEW kept, NEW n \in Nat
  PROVE  \E some : FilterRun(some, s, kept, n)
<1> DEFINE T == {m \in Nat : \E f : FilterRun(f, s, kept, m)}
<1>1. 0 \in T
  <2>1. FilterRun([i \in 0..0 |-> <<>>], s, kept, 0)
    BY DEF FilterRun
  <2> QED
    BY <2>1
<1>2. ASSUME NEW m \in T PROVE m + 1 \in T
  <2>1. PICK f : FilterRun(f, s, kept, m)
    OBVIOUS
  <2>0. \A i \in 0..m : f[i] = IF i = 0 THEN <<>> ELSE FilterStep(s, kept, f[i - 1], i)
    BY <2>1 DEF FilterRun
  <2> DEFINE g == [i \in 0..(m + 1) |-> IF i = m + 1 THEN FilterStep(s, kept, f[m], m + 1) ELSE f[i]]
  <2>2. \A i \in 0..m : g[i] = f[i]
    OBVIOUS
  <2>3. \A i \in 0..(m + 1) : g[i] = IF i = 0 THEN <<>> ELSE FilterStep(s, kept, g[i - 1], i)
    <3> SUFFICES ASSUME NEW i \in 0..(m + 1)
                 PROVE  g[i] = IF i = 0 THEN <<>> ELSE FilterStep(s, kept, g[i - 1], i)
      OBVIOUS
    <3>1. CASE i = m + 1
      BY <2>2, <3>1
    <3>2. CASE i \in 0..m
      <4>1. f[i] = IF i = 0 THEN <<>> ELSE FilterStep(s, kept, f[i - 1], i)
        BY <2>0, <3>2
      <4>2. i # 0 => i - 1 \in 0..m
        BY <3>2
      <4> HIDE DEF g
      <4> QED
        BY <2>2, <3>2, <4>1, <4>2
    <3> QED
      BY <3>1, <3>2
  <2>4. FilterRun(g, s, kept, m + 1)
    BY <2>3 DEF FilterRun
  <2> QED
    BY <2>4
<1>3. T = Nat
  <2>1. T \in SUBSET Nat
    OBVIOUS
  <2> HIDE DEF T
  <2> QED
    BY <1>1, <1>2, <2>1, NatSetInduction
<1> QED
  BY <1>3

(* What is kept of a sequence is a part of it, in its order. *)
LEMMA FilteredPicks ==
  ASSUME NEW s, IsList(s), NEW kept
  PROVE  \E e : Picks(s, kept, Len(s), Filtered(s, kept), e)
<1> DEFINE n == Len(s)
           f == CHOOSE some : some = [i \in 0..n |->
                  IF i = 0 THEN <<>>
                  ELSE IF s[i] \in kept THEN Append(some[i - 1], s[i]) ELSE some[i - 1]]
<1>0. n \in Nat
  BY ListFields
<1>1. \E some : some = [i \in 0..n |->
                  IF i = 0 THEN <<>>
                  ELSE IF s[i] \in kept THEN Append(some[i - 1], s[i]) ELSE some[i - 1]]
  <2>1. \E some : FilterRun(some, s, kept, n)
    BY <1>0, FilterRunExists
  <2> QED
    BY <2>1 DEF FilterRun, FilterStep
<1>2. FilterRun(f, s, kept, n)
  BY <1>1 DEF FilterRun, FilterStep
<1>3. Filtered(s, kept) = f[n]
  <2>1. Filtered(s, kept) = FilterFrom(s, kept)
    BY DEF Filtered
  <2> QED
    BY <2>1 DEF FilterFrom
<1> HIDE DEF f
<1>4. \A i \in 0..n : f[i] = IF i = 0 THEN <<>> ELSE FilterStep(s, kept, f[i - 1], i)
  BY <1>2 DEF FilterRun
<1> DEFINE T == {m \in Nat : m <= n => \E e : Picks(s, kept, m, f[m], e)}
<1>5. 0 \in T
  <2>1. f[0] = <<>>
    BY <1>0, <1>4
  <2>2. Picks(s, kept, 0, <<>>, <<>>)
    BY DEF Picks
  <2> QED
    BY <2>1, <2>2
<1>6. ASSUME NEW m \in T PROVE m + 1 \in T
  <2> SUFFICES ASSUME m + 1 <= n PROVE \E e : Picks(s, kept, m + 1, f[m + 1], e)
    OBVIOUS
  <2>1. m \in Nat /\ m <= n /\ m + 1 \in 0..n /\ (m + 1) - 1 = m /\ m + 1 # 0
    BY <1>0
  <2>2. PICK e : Picks(s, kept, m, f[m], e)
    BY <2>1
  <2>3. f[m + 1] = FilterStep(s, kept, f[m], m + 1)
    BY <1>4, <2>1
  <2> QED
    BY <2>1, <2>2, <2>3, PicksOn
<1>7. T = Nat
  <2>1. T \in SUBSET Nat
    OBVIOUS
  <2> HIDE DEF T
  <2> QED
    BY <1>5, <1>6, <2>1, NatSetInduction
<1> QED
  BY <1>0, <1>3, <1>7
(* What is kept of a list is a list, of what was kept, and as short on repetitions. *)
LEMMA FilteredList ==
  ASSUME NEW s, IsList(s), NEW kept
  PROVE  /\ IsList(Filtered(s, kept)) /\ Range(Filtered(s, kept)) = Range(s) \cap kept
         /\ IsInjective(s) => IsInjective(Filtered(s, kept))
<1> DEFINE g == Filtered(s, kept)
           n == Len(s)
           m == Len(g)
<1>0. n \in Nat /\ DOMAIN s = 1..n /\ \A x : x \in Range(s) <=> \E i \in 1..n : x = s[i]
  BY ListFields
<1>1. PICK e : Picks(s, kept, n, g, e)
  BY FilteredPicks
<1> HIDE DEF g, n
<1>2. /\ g \in Seq(Range(s)) /\ m \in Nat
      /\ \A j \in 1..m : e[j] \in 1..n /\ g[j] = s[e[j]] /\ s[e[j]] \in kept
      /\ \A i, j \in 1..m : i < j => e[i] < e[j]
      /\ \A i \in 1..n : s[i] \in kept => \E j \in 1..m : e[j] = i
  BY <1>1 DEF Picks
<1>3. DOMAIN g = 1..m
  BY <1>2
<1> HIDE DEF m
<1>4. \A x : x \in Range(g) <=> \E j \in 1..m : x = g[j]
  BY <1>3 DEF Range
<1>5. \A x \in Range(g) : x \in Range(s) /\ x \in kept
  BY <1>0, <1>2, <1>4
<1>6. ASSUME NEW x \in Range(s), x \in kept PROVE x \in Range(g)
  <2>1. PICK i \in 1..n : x = s[i]
    BY <1>0
  <2>2. PICK j \in 1..m : e[j] = i
    BY <1>2, <1>6, <2>1
  <2>3. g[j] = x
    BY <1>2, <2>1, <2>2
  <2> QED
    BY <1>4, <2>3
<1>7. IsList(g)
  <2>1. \A j \in 1..m : g[j] \in Range(g)
    BY <1>4
  <2>2. g \in [1..m -> Range(s)]
    BY <1>2, <1>3
  <2>3. g \in [1..m -> Range(g)]
    BY <2>1, <2>2
  <2> QED
    BY <1>2, <2>3 DEF IsList
<1>8. ASSUME IsInjective(s), NEW i \in 1..m, NEW j \in 1..m, g[i] = g[j] PROVE i = j
  <2>1. e[i] = e[j]
    BY <1>0, <1>2, <1>8 DEF IsInjective
  <2>2. e[i] \in 1..n /\ i \in Nat /\ j \in Nat
    BY <1>2
  <2>3. ~(i < j) /\ ~(j < i)
    BY <1>0, <1>2, <2>1, <2>2
  <2> QED
    BY <2>2, <2>3
<1>9. IsInjective(s) => IsInjective(g)
  BY <1>3, <1>8 DEF IsInjective
<1> QED
  BY <1>5, <1>6, <1>7, <1>9 DEF g

-----------------------------------------------------------------------------
(* Flat maps. *)

(* The run of FlattenSeq. *)
FlatRun(f, seqs, n) == f = [i \in 1..n |-> IF i = 1 THEN seqs[i] ELSE f[i - 1] \o seqs[i]]

(* The partial concatenations are defined. *)
LEMMA FlatRunExists ==
  ASSUME NEW seqs, NEW n \in Nat
  PROVE  \E f : FlatRun(f, seqs, n)
<1> DEFINE T == {m \in Nat : \E f : FlatRun(f, seqs, m)}
<1>1. 0 \in T
  <2>1. FlatRun([i \in 1..0 |-> <<>>], seqs, 0)
    BY DEF FlatRun
  <2> QED
    BY <2>1
<1>2. ASSUME NEW m \in T PROVE m + 1 \in T
  <2>1. PICK f : FlatRun(f, seqs, m)
    OBVIOUS
  <2>0. \A i \in 1..m : f[i] = IF i = 1 THEN seqs[i] ELSE f[i - 1] \o seqs[i]
    BY <2>1 DEF FlatRun
  <2> DEFINE last == IF m = 0 THEN seqs[1] ELSE f[m] \o seqs[m + 1]
             g == [i \in 1..(m + 1) |-> IF i = m + 1 THEN last ELSE f[i]]
  <2>2. \A i \in 1..m : g[i] = f[i]
    OBVIOUS
  <2>3. \A i \in 1..(m + 1) : g[i] = IF i = 1 THEN seqs[i] ELSE g[i - 1] \o seqs[i]
    <3> SUFFICES ASSUME NEW i \in 1..(m + 1)
                 PROVE  g[i] = IF i = 1 THEN seqs[i] ELSE g[i - 1] \o seqs[i]
      OBVIOUS
    <3>1. CASE i = m + 1
      <4>1. g[i] = last
        BY <3>1
      <4>2. CASE m = 0
        BY <3>1, <4>1, <4>2
      <4>3. CASE m # 0
        <5>1. m \in 1..m /\ i - 1 = m /\ i # 1
          BY <3>1, <4>3
        <5>2. g[m] = f[m]
          BY <2>2, <5>1
        <5> HIDE DEF g
        <5> QED
          BY <3>1, <4>1, <4>3, <5>1, <5>2
      <4> QED
        BY <4>2, <4>3
    <3>2. CASE i \in 1..m
      <4>1. f[i] = IF i = 1 THEN seqs[i] ELSE f[i - 1] \o seqs[i]
        BY <2>0, <3>2
      <4>2. i # 1 => i - 1 \in 1..m
        BY <3>2
      <4> HIDE DEF g
      <4> QED
        BY <2>2, <3>2, <4>1, <4>2
    <3> QED
      BY <3>1, <3>2
  <2>4. FlatRun(g, seqs, m + 1)
    BY <2>3 DEF FlatRun
  <2> QED
    BY <2>4
<1>3. T = Nat
  <2>1. T \in SUBSET Nat
    OBVIOUS
  <2> HIDE DEF T
  <2> QED
    BY <1>1, <1>2, <2>1, NatSetInduction
<1> QED
  BY <1>3

(* Two lists, one after the other. *)
LEMMA ListsJoined ==
  ASSUME NEW s, NEW t, IsList(s), IsList(t)
  PROVE  IsList(s \o t) /\ Range(s \o t) = Range(s) \cup Range(t)
<1> DEFINE r == s \o t
<1>1. /\ Len(s) \in Nat /\ DOMAIN s = 1..Len(s) /\ Len(t) \in Nat /\ DOMAIN t = 1..Len(t)
      /\ \A x : x \in Range(s) <=> \E i \in 1..Len(s) : x = s[i]
      /\ \A x : x \in Range(t) <=> \E i \in 1..Len(t) : x = t[i]
  BY ListFields
<1>2. s \in Seq(Range(s) \cup Range(t)) /\ t \in Seq(Range(s) \cup Range(t))
  BY DEF IsList
<1>3. /\ r \in Seq(Range(s) \cup Range(t)) /\ Len(r) = Len(s) + Len(t)
      /\ \A i \in 1..Len(s) : r[i] = s[i]
      /\ \A i \in 1..Len(t) : r[Len(s) + i] = t[i]
  BY <1>2
<1>4. DOMAIN r = 1..Len(r) /\ \A i \in 1..Len(r) : r[i] \in Range(s) \cup Range(t)
  BY <1>3
<1> HIDE DEF r
<1>5. \A x : x \in Range(r) <=> \E i \in 1..Len(r) : x = r[i]
  BY <1>4 DEF Range
<1>6. \A x \in Range(r) : x \in Range(s) \cup Range(t)
  BY <1>4, <1>5
<1>7. ASSUME NEW x \in Range(s) PROVE x \in Range(r)
  <2>1. PICK i \in 1..Len(s) : x = s[i]
    BY <1>1
  <2>2. i \in 1..Len(r)
    BY <1>1, <1>3
  <2> QED
    BY <1>3, <1>5, <2>1, <2>2
<1>8. ASSUME NEW x \in Range(t) PROVE x \in Range(r)
  <2>1. PICK i \in 1..Len(t) : x = t[i]
    BY <1>1
  <2>2. Len(s) + i \in 1..Len(r)
    BY <1>1, <1>3
  <2>3. r[Len(s) + i] = x
    BY <1>3, <2>1
  <2> QED
    BY <1>5, <2>2, <2>3
<1>9. Range(r) = Range(s) \cup Range(t)
  BY <1>6, <1>7, <1>8
<1> QED
  BY <1>3, <1>9 DEF IsList, r

(* A list of lists, one after the other. *)
LEMMA FlattenList ==
  ASSUME NEW seqs, IsList(seqs), \A i \in DOMAIN seqs : IsList(seqs[i])
  PROVE  /\ IsList(FlattenSeq(seqs))
         /\ \A x : x \in Range(FlattenSeq(seqs)) <=> \E i \in DOMAIN seqs : x \in Range(seqs[i])
<1> DEFINE n == Len(seqs)
           f == CHOOSE g : g = [i \in 1..n |-> IF i = 1 THEN seqs[i] ELSE g[i - 1] \o seqs[i]]
<1>0. n \in Nat /\ DOMAIN seqs = 1..n /\ seqs \in Seq(Range(seqs))
  BY ListFields DEF IsList
<1>1. CASE n = 0
  <2>1. FlattenSeq(seqs) = seqs
    BY <1>1 DEF FlattenSeq
  <2>2. DOMAIN seqs = {}
    BY <1>0, <1>1
  <2>3. Range(seqs) = {}
    BY <2>2 DEF Range
  <2> QED
    BY <2>1, <2>2, <2>3
<1>2. CASE n # 0
  <2>1. \E g : g = [i \in 1..n |-> IF i = 1 THEN seqs[i] ELSE g[i - 1] \o seqs[i]]
    BY <1>0, FlatRunExists DEF FlatRun
  <2>2. f = [i \in 1..n |-> IF i = 1 THEN seqs[i] ELSE f[i - 1] \o seqs[i]]
    BY <2>1
  <2>3. FlattenSeq(seqs) = f[n]
    BY <1>2 DEF FlattenSeq
  <2> HIDE DEF f
  <2>4. \A i \in 1..n : f[i] = IF i = 1 THEN seqs[i] ELSE f[i - 1] \o seqs[i]
    BY <2>2
  <2> DEFINE Holds(m) == IsList(f[m]) /\ \A x : x \in Range(f[m]) <=> \E i \in 1..m : x \in Range(seqs[i])
             T == {m \in Nat : m + 1 <= n => Holds(m + 1)}
  <2>5. 0 \in T
    <3>1. 1 \in 1..n /\ f[1] = seqs[1]
      BY <1>0, <1>2, <2>4
    <3>2. \A i \in 1..1 : i = 1
      OBVIOUS
    <3>3. Holds(1)
      BY <1>0, <3>1, <3>2
    <3> QED
      BY <3>3
  <2>6. ASSUME NEW m \in T PROVE m + 1 \in T
    <3> DEFINE k == m + 1
    <3> SUFFICES ASSUME k + 1 <= n PROVE Holds(k + 1)
      OBVIOUS
    <3>1. k \in 1..n /\ k + 1 \in 1..n /\ k + 1 # 1 /\ (k + 1) - 1 = k /\ m \in Nat /\ k <= n
      BY <1>0
    <3>2. Holds(k)
      BY <3>1
    <3>3. f[k + 1] = f[k] \o seqs[k + 1]
      BY <2>4, <3>1
    <3>4. IsList(seqs[k + 1])
      BY <1>0, <3>1
    <3>5. IsList(f[k + 1]) /\ Range(f[k + 1]) = Range(f[k]) \cup Range(seqs[k + 1])
      BY <3>2, <3>3, <3>4, ListsJoined
    <3>6. 1..(k + 1) = 1..k \cup {k + 1}
      BY <3>1
    <3> HIDE DEF k
    <3> QED
      BY <3>2, <3>5, <3>6
  <2>7. T = Nat
    <3>1. T \in SUBSET Nat
      OBVIOUS
    <3> HIDE DEF T
    <3> QED
      BY <2>5, <2>6, <3>1, NatSetInduction
  <2>8. n - 1 \in Nat /\ (n - 1) + 1 = n
    BY <1>0, <1>2
  <2>9. Holds(n)
    <3>1. n - 1 \in T
      BY <2>7, <2>8
    <3> HIDE DEF Holds
    <3> QED
      BY <1>0, <2>8, <3>1
  <2> QED
    BY <1>0, <2>3, <2>9
<1> QED
  BY <1>1, <1>2

-----------------------------------------------------------------------------
(* Sorts. *)

(* A strict total order of the indexes D. *)
TotalOrder(before, D) ==
  /\ \A i \in D : <<i, i>> \notin before
  /\ \A i, j, k \in D : <<i, j>> \in before /\ <<j, k>> \in before => <<i, k>> \in before
  /\ \A i, j \in D : i # j => <<i, j>> \in before \/ <<j, i>> \in before

(* Every rank is held by one index: they are as many as the indexes and no two share one. *)
LEMMA RanksHeld ==
  ASSUME NEW n \in Nat, NEW before, TotalOrder(before, 1..n)
  PROVE  LET rank == [i \in 1..n |-> Cardinality({j \in 1..n : <<j, i>> \in before}) + 1] IN
         /\ \A i \in 1..n : rank[i] \in 1..n
         /\ \A i, j \in 1..n : rank[i] = rank[j] => i = j
         /\ \A i, j \in 1..n : <<i, j>> \in before => rank[i] < rank[j]
         /\ \A k \in 1..n : \E i \in 1..n : rank[i] = k
<1> DEFINE D == 1..n
           A(i) == {j \in D : <<j, i>> \in before}
           rank == [i \in D |-> Cardinality(A(i)) + 1]
<1>1. IsFiniteSet(D) /\ Cardinality(D) = n
  BY FS_Interval
<1>2. \A i \in D : A(i) \in SUBSET D /\ i \notin A(i)
  BY DEF TotalOrder
<1>3. \A i \in D : rank[i] = Cardinality(A(i)) + 1
  OBVIOUS
<1>4. \A i, j \in D : <<i, j>> \in before => A(i) \in SUBSET A(j) /\ i \in A(j)
  BY DEF TotalOrder
<1> HIDE DEF A, D, rank
<1>5. \A i \in D : IsFiniteSet(A(i)) /\ Cardinality(A(i)) \in Nat
  BY <1>1, <1>2, FS_Subset, FS_CardinalityType
<1>6. ASSUME NEW i \in D PROVE rank[i] \in D
  <2>0. A(i) \in SUBSET D /\ A(i) # D
    BY <1>2
  <2>1. Cardinality(A(i)) <= Cardinality(D) /\ (Cardinality(D) = Cardinality(A(i)) => D = A(i))
    BY <1>1, <2>0, FS_Subset
  <2>2. Cardinality(A(i)) # n /\ Cardinality(A(i)) <= n
    BY <1>1, <2>0, <2>1
  <2> QED
    BY <1>3, <1>5, <2>1, <2>2 DEF D
<1>7. ASSUME NEW i \in D, NEW j \in D, <<i, j>> \in before PROVE rank[i] < rank[j]
  <2>1. A(i) \in SUBSET A(j) /\ A(i) # A(j)
    BY <1>2, <1>4, <1>7
  <2>2. Cardinality(A(i)) <= Cardinality(A(j)) /\ Cardinality(A(i)) # Cardinality(A(j))
    BY <1>5, <2>1, FS_Subset
  <2> QED
    BY <1>3, <1>5, <2>2
<1>8. \A i, j \in D : rank[i] = rank[j] => i = j
  <2>1. \A i \in D : rank[i] \in Nat
    BY <1>3, <1>5
  <2>3. \A i, j \in D : i # j => <<i, j>> \in before \/ <<j, i>> \in before
    BY DEF TotalOrder, D
  <2>2. ASSUME NEW i \in D, NEW j \in D, i # j PROVE rank[i] # rank[j]
    <3>1. rank[i] < rank[j] \/ rank[j] < rank[i]
      BY <1>7, <2>2, <2>3
    <3> QED
      BY <2>1, <3>1
  <2> QED
    BY <2>2
<1>9. rank \in Injection(D, D)
  <2>1. rank \in [D -> D]
    BY <1>6 DEF rank
  <2> QED
    BY <1>8, <2>1 DEF Injection, IsInjective
<1>10. rank \in Surjection(D, D)
  BY <1>1, <1>9, FS_Injection
<1>11. \A k \in D : \E i \in D : rank[i] = k
  BY <1>10 DEF Surjection
<1> QED
  BY <1>6, <1>7, <1>8, <1>11 DEF rank, A, D

(* A list that is sorted has what it had. *)
LEMMA SortedList ==
  ASSUME NEW s, IsList(s), NEW before, TotalOrder(before, DOMAIN s)
  PROVE  /\ IsList(Sorted(s, before)) /\ Range(Sorted(s, before)) = Range(s)
         /\ IsInjective(s) => IsInjective(Sorted(s, before))
<1> DEFINE n == Len(s)
           rank == [i \in 1..n |-> Cardinality({j \in 1..n : <<j, i>> \in before}) + 1]
           at(k) == CHOOSE i \in 1..n : rank[i] = k
           g == [k \in 1..n |-> s[at(k)]]
<1>0. n \in Nat /\ DOMAIN s = 1..n /\ \A x : x \in Range(s) <=> \E i \in 1..n : x = s[i]
  BY ListFields
<1>1. Sorted(s, before) = g
  BY <1>0 DEF Sorted
<1>2. /\ \A i \in 1..n : rank[i] \in 1..n
      /\ \A i, j \in 1..n : rank[i] = rank[j] => i = j
      /\ \A k \in 1..n : \E i \in 1..n : rank[i] = k
  <2>1. TotalOrder(before, 1..n)
    BY <1>0
  <2> QED
    BY <1>0, <2>1, RanksHeld, ZenonT(30)
<1> HIDE DEF rank, n
<1>3. \A k \in 1..n : at(k) \in 1..n /\ rank[at(k)] = k
  BY <1>2
<1>4. DOMAIN g = 1..n /\ \A k \in 1..n : g[k] = s[at(k)]
  OBVIOUS
<1> HIDE DEF at, g
<1>5. \A x : x \in Range(g) <=> \E k \in 1..n : x = g[k]
  BY <1>4 DEF Range
<1>6. \A x \in Range(g) : x \in Range(s)
  BY <1>0, <1>3, <1>4, <1>5
<1>7. ASSUME NEW x \in Range(s) PROVE x \in Range(g)
  <2>1. PICK i \in 1..n : x = s[i]
    BY <1>0
  <2>3. rank[i] \in 1..n
    BY <1>2
  <2>4. at(rank[i]) \in 1..n /\ rank[at(rank[i])] = rank[i]
    BY <1>3, <2>3
  <2>2. rank[i] \in 1..n /\ at(rank[i]) = i
    BY <1>2, <2>3, <2>4
  <2> QED
    BY <1>4, <1>5, <2>1, <2>2
<1>8. IsList(g)
  <2>1. g \in [1..n -> Range(g)]
    BY <1>4, <1>5 DEF g
  <2> QED
    BY <1>0, <2>1 DEF IsList
<1>9. IsInjective(s) => IsInjective(g)
  BY <1>0, <1>3, <1>4 DEF IsInjective
<1> QED
  BY <1>1, <1>6, <1>7, <1>8, <1>9

(* What comes first in a sorted list came before. *)
LEMMA SortedInOrder ==
  ASSUME NEW s, IsList(s), NEW before, TotalOrder(before, DOMAIN s)
  PROVE  \E at : /\ \A k \in DOMAIN s : at[k] \in DOMAIN s /\ Sorted(s, before)[k] = s[at[k]]
                 /\ \A i, k \in DOMAIN s : i < k => <<at[i], at[k]>> \in before
<1> DEFINE n == Len(s)
           rank == [i \in 1..n |-> Cardinality({j \in 1..n : <<j, i>> \in before}) + 1]
           at == [k \in 1..n |-> CHOOSE i \in 1..n : rank[i] = k]
<1>0. n \in Nat /\ DOMAIN s = 1..n
  BY ListFields
<1>1. \A k \in 1..n : Sorted(s, before)[k] = s[at[k]]
  BY <1>0 DEF Sorted
<1>2. /\ \A i, j \in 1..n : <<i, j>> \in before => rank[i] < rank[j]
      /\ \A k \in 1..n : \E i \in 1..n : rank[i] = k
  <2>1. TotalOrder(before, 1..n)
    BY <1>0
  <2> QED
    BY <1>0, <2>1, RanksHeld
<1> HIDE DEF rank, n
<1>3. \A k \in 1..n : at[k] \in 1..n /\ rank[at[k]] = k
  BY <1>2
<1> HIDE DEF at
<1>4. ASSUME NEW i \in 1..n, NEW k \in 1..n, i < k
      PROVE  <<at[i], at[k]>> \in before
  <2>1. at[i] # at[k]
    BY <1>0, <1>3, <1>4
  <2>2. <<at[k], at[i]>> \notin before
    <3>1. <<at[k], at[i]>> \in before => rank[at[k]] < rank[at[i]]
      BY <1>2, <1>3
    <3> QED
      BY <1>0, <1>3, <1>4, <3>1
  <2> QED
    BY <1>0, <1>3, <2>1, <2>2 DEF TotalOrder
<1> QED
  BY <1>0, <1>1, <1>3, <1>4

-----------------------------------------------------------------------------
(* A set as a sequence. *)

(* The sequence has every element of S, once. *)
Lists(q, S) ==
  /\ q \in Seq(S) /\ \A x \in S : \E i \in 1..Len(q) : q[i] = x
  /\ \A i, j \in 1..Len(q) : q[i] = q[j] => i = j

(* The element taken first. *)
Taken(S) == CHOOSE x \in S : TRUE

(* The run of AsSequence over the subsets in D. *)
Listing(it, D) ==
  it = [s \in D |-> IF s = {} THEN <<>> ELSE Append(it[s \ {Taken(s)}], Taken(s))]

Upto(S, n) == {s \in SUBSET S : Cardinality(s) <= n}

(* What is left of a subset once an element is taken. *)
LEMMA TakenFrom ==
  ASSUME NEW S, IsFiniteSet(S), NEW n \in Nat, NEW s \in Upto(S, n + 1), s # {}
  PROVE  /\ Taken(s) \in s /\ s \ {Taken(s)} \in Upto(S, n) /\ Taken(s) \notin s \ {Taken(s)}
<1>1. Taken(s) \in s
  BY DEF Taken
<1>2. s \subseteq S /\ Cardinality(s) <= n + 1
  BY DEF Upto
<1>3. IsFiniteSet(s)
  BY <1>2, FS_Subset
<1>4. Cardinality(s \ {Taken(s)}) = Cardinality(s) - 1 /\ Cardinality(s) \in Nat
  BY <1>1, <1>3, FS_RemoveElement, FS_CardinalityType
<1> QED
  BY <1>1, <1>2, <1>4 DEF Upto

(* A finite set has a listing. *)
LEMMA ListingExists ==
  ASSUME NEW S, IsFiniteSet(S), NEW n \in Nat
  PROVE  \E it : Listing(it, Upto(S, n))
<1> DEFINE T == {m \in Nat : \E it : Listing(it, Upto(S, m))}
<1>1. 0 \in T
  <2>1. \A s \in Upto(S, 0) : s = {}
    <3> SUFFICES ASSUME NEW s \in Upto(S, 0), s # {} PROVE FALSE
      OBVIOUS
    <3>1. s \subseteq S /\ Cardinality(s) <= 0
      BY DEF Upto
    <3> QED
      BY <3>1, FS_Subset, FS_EmptySet, FS_CardinalityType
  <2>2. Listing([s \in Upto(S, 0) |-> <<>>], Upto(S, 0))
    BY <2>1 DEF Listing
  <2> QED
    BY <2>2
<1>2. ASSUME NEW m \in T PROVE m + 1 \in T
  <2>1. PICK f : Listing(f, Upto(S, m))
    OBVIOUS
  <2> DEFINE step(it, s) == IF s = {} THEN <<>> ELSE Append(it[s \ {Taken(s)}], Taken(s))
             g == [s \in Upto(S, m + 1) |-> step(f, s)]
  <2>2. \A s \in Upto(S, m) : f[s] = step(f, s)
    BY <2>1 DEF Listing
  <2>3. Upto(S, m) \subseteq Upto(S, m + 1)
    <3> SUFFICES ASSUME NEW s \in Upto(S, m) PROVE s \in Upto(S, m + 1)
      OBVIOUS
    <3>1. s \subseteq S /\ Cardinality(s) <= m
      BY DEF Upto
    <3>2. Cardinality(s) \in Nat
      BY <3>1, FS_Subset, FS_CardinalityType
    <3> QED
      BY <3>1, <3>2 DEF Upto
  <2>4. \A s \in Upto(S, m) : g[s] = f[s]
    <3> HIDE DEF step
    <3> QED
      BY <2>2, <2>3
  <2>5. \A s \in Upto(S, m + 1) : step(f, s) = step(g, s)
    <3> SUFFICES ASSUME NEW s \in Upto(S, m + 1), s # {} PROVE f[s \ {Taken(s)}] = g[s \ {Taken(s)}]
      <4> HIDE DEF g
      <4> QED
        OBVIOUS
    <3>1. s \ {Taken(s)} \in Upto(S, m)
      BY TakenFrom
    <3> HIDE DEF g
    <3> QED
      BY <2>4, <3>1
  <2>6. g = [s \in Upto(S, m + 1) |-> step(g, s)]
    <3>1. \A h : (\A s \in Upto(S, m + 1) : step(f, s) = step(h, s)) =>
                  [s \in Upto(S, m + 1) |-> step(f, s)] = [s \in Upto(S, m + 1) |-> step(h, s)]
      <4> HIDE DEF step
      <4> QED
        OBVIOUS
    <3>2. g = [s \in Upto(S, m + 1) |-> step(f, s)]
      OBVIOUS
    <3> HIDE DEF g, step
    <3> QED
      BY <2>5, <3>1, <3>2
  <2>7. Listing(g, Upto(S, m + 1))
    <3> HIDE DEF g
    <3> QED
      BY <2>6 DEF Listing
  <2> QED
    BY <2>7
<1>3. T = Nat
  <2>1. T \in SUBSET Nat
    OBVIOUS
  <2> HIDE DEF T
  <2> QED
    BY <1>1, <1>2, <2>1, NatSetInduction
<1> QED
  BY <1>3

(* One more element is listed. *)
LEMMA ListsOn ==
  ASSUME NEW S, NEW x, x \notin S, NEW q, Lists(q, S)
  PROVE  Lists(Append(q, x), S \cup {x})
<1> DEFINE r == Append(q, x)
           n == Len(q)
<1>1. q \in Seq(S) /\ n \in Nat
  BY DEF Lists
<1>2. q \in Seq(S \cup {x})
  BY <1>1
<1>3. r \in Seq(S \cup {x}) /\ Len(r) = n + 1 /\ r[n + 1] = x /\ \A i \in 1..n : r[i] = q[i]
  BY <1>2
<1>4. \A i \in 1..n : r[i] \in S
  BY <1>1, <1>3
<1> HIDE DEF r
<1>5. \A i \in 1..(n + 1) : i \in 1..n \/ i = n + 1
  BY <1>1
<1>6. \A y \in S : \E i \in 1..n : r[i] = y
  BY <1>3 DEF Lists
<1>7. \A i \in 1..n : i \in 1..(n + 1)
  BY <1>1
<1>8. \A y \in S \cup {x} : \E i \in 1..(n + 1) : r[i] = y
  BY <1>1, <1>3, <1>6, <1>7
<1>9. \A i, j \in 1..(n + 1) : r[i] = r[j] => i = j
  BY <1>3, <1>4, <1>5 DEF Lists
<1> QED
  BY <1>3, <1>8, <1>9 DEF Lists, r

(* The listing chosen is one. *)
LEMMA AsSequenceLists ==
  ASSUME NEW S, IsFiniteSet(S)
  PROVE  Lists(AsSequence(S), S)
<1> DEFINE f == CHOOSE it : it = [s \in SUBSET S |-> IF s = {} THEN <<>> ELSE Append(it[s \ {Taken(s)}], Taken(s))]
<1>1. Upto(S, Cardinality(S)) = SUBSET S
  BY FS_Subset DEF Upto
<1>2. \E it : it = [s \in SUBSET S |-> IF s = {} THEN <<>> ELSE Append(it[s \ {Taken(s)}], Taken(s))]
  <2>1. \E it : Listing(it, Upto(S, Cardinality(S)))
    BY FS_CardinalityType, ListingExists
  <2> QED
    BY <1>1, <2>1 DEF Listing
<1>3. f = [s \in SUBSET S |-> IF s = {} THEN <<>> ELSE Append(f[s \ {Taken(s)}], Taken(s))]
  BY <1>2
<1>4. AsSequence(S) = f[S]
  BY DEF AsSequence, FoldSet, MapThenFoldSet, Taken
<1> HIDE DEF f
<1>5. \A s \in SUBSET S : f[s] = IF s = {} THEN <<>> ELSE Append(f[s \ {Taken(s)}], Taken(s))
  BY <1>3
<1> DEFINE T == {n \in Nat : \A s \in Upto(S, n) : Lists(f[s], s)}
<1>6. 0 \in T
  <2> SUFFICES ASSUME NEW s \in Upto(S, 0) PROVE Lists(f[s], s)
    OBVIOUS
  <2>1. s \subseteq S /\ Cardinality(s) <= 0
    BY DEF Upto
  <2>2. s = {}
    BY <2>1, FS_Subset, FS_EmptySet, FS_CardinalityType
  <2>3. f[s] = <<>>
    BY <1>5, <2>1, <2>2
  <2> QED
    BY <2>2, <2>3 DEF Lists
<1>7. ASSUME NEW n \in T PROVE n + 1 \in T
  <2> SUFFICES ASSUME NEW s \in Upto(S, n + 1) PROVE Lists(f[s], s)
    OBVIOUS
  <2>0. s \in SUBSET S
    BY DEF Upto
  <2>1. CASE s = {}
    <3>1. f[s] = <<>>
      BY <1>5, <2>0, <2>1
    <3> QED
      BY <2>1, <3>1 DEF Lists
  <2>2. CASE s # {}
    <3>1. Taken(s) \in s /\ s \ {Taken(s)} \in Upto(S, n) /\ Taken(s) \notin s \ {Taken(s)}
      BY <2>2, TakenFrom
    <3>2. Lists(f[s \ {Taken(s)}], s \ {Taken(s)})
      BY <3>1
    <3>3. (s \ {Taken(s)}) \cup {Taken(s)} = s
      BY <3>1
    <3>4. f[s] = Append(f[s \ {Taken(s)}], Taken(s))
      BY <1>5, <2>0, <2>2
    <3>5. Lists(Append(f[s \ {Taken(s)}], Taken(s)), (s \ {Taken(s)}) \cup {Taken(s)})
      BY <3>1, <3>2, ListsOn
    <3> QED
      BY <3>3, <3>4, <3>5
  <2> QED
    BY <2>1, <2>2
<1>8. T = Nat
  <2>1. T \in SUBSET Nat
    OBVIOUS
  <2> HIDE DEF T
  <2> QED
    BY <1>6, <1>7, <2>1, NatSetInduction
<1> QED
  BY <1>1, <1>4, <1>8, FS_CardinalityType

-----------------------------------------------------------------------------
(* Rearranging a list. *)

(* Where the elements of a concatenation come from: the part and the place in it, in order. *)
Placed(flat, seqs, n, part, place) ==
  /\ IsList(flat)
  /\ \A i \in DOMAIN flat :
       part[i] \in 1..n /\ place[i] \in DOMAIN seqs[part[i]] /\ flat[i] = seqs[part[i]][place[i]]
  /\ \A i, j \in DOMAIN flat :
       i < j => part[i] < part[j] \/ (part[i] = part[j] /\ place[i] < place[j])
  /\ \A b \in 1..n : \A k \in DOMAIN seqs[b] : \E i \in DOMAIN flat : part[i] = b /\ place[i] = k

(* One more part. *)
LEMMA PlacedOn ==
  ASSUME NEW flat, NEW seqs, NEW n \in Nat, NEW part, NEW place, Placed(flat, seqs, n, part, place),
         IsList(seqs[n + 1])
  PROVE  \E p, q : Placed(flat \o seqs[n + 1], seqs, n + 1, p, q)
<1> DEFINE s == seqs[n + 1]
           r == flat \o s
           p == [i \in 1..(Len(flat) + Len(s)) |-> IF i <= Len(flat) THEN part[i] ELSE n + 1]
           q == [i \in 1..(Len(flat) + Len(s)) |-> IF i <= Len(flat) THEN place[i] ELSE i - Len(flat)]
<1>1. IsList(flat) /\ Len(flat) \in Nat /\ DOMAIN flat = 1..Len(flat)
  BY ListFields DEF Placed
<1>2. Len(s) \in Nat /\ DOMAIN s = 1..Len(s)
  BY ListFields
<1>3. IsList(r)
  BY <1>1, ListsJoined
<1>4. /\ DOMAIN r = 1..(Len(flat) + Len(s))
      /\ \A i \in 1..Len(flat) : r[i] = flat[i]
      /\ \A i \in 1..Len(s) : r[Len(flat) + i] = s[i]
  <2>1. flat \in Seq(Range(flat) \cup Range(s)) /\ s \in Seq(Range(flat) \cup Range(s))
    BY <1>1 DEF IsList
  <2> QED
    BY <2>1
<1>5. ASSUME NEW i \in DOMAIN r PROVE \/ i \in 1..Len(flat) /\ p[i] = part[i] /\ q[i] = place[i]
                                      \/ /\ i > Len(flat) /\ i - Len(flat) \in 1..Len(s) /\ p[i] = n + 1 /\ q[i] = i - Len(flat)
                                         /\ i = Len(flat) + (i - Len(flat))
  BY <1>1, <1>2, <1>4
<1>6. \A i \in 1..Len(flat) : part[i] \in 1..n /\ place[i] \in DOMAIN seqs[part[i]] /\ flat[i] = seqs[part[i]][place[i]]
  BY <1>1 DEF Placed
<1> HIDE DEF p, q, r
<1>7. ASSUME NEW i \in DOMAIN r PROVE p[i] \in 1..(n + 1) /\ q[i] \in DOMAIN seqs[p[i]] /\ r[i] = seqs[p[i]][q[i]]
  <2>1. CASE i \in 1..Len(flat) /\ p[i] = part[i] /\ q[i] = place[i]
    <3>1. 1..n \subseteq 1..(n + 1)
      OBVIOUS
    <3> QED
      BY <1>4, <1>6, <2>1, <3>1
  <2>2. CASE i > Len(flat) /\ i - Len(flat) \in 1..Len(s) /\ p[i] = n + 1 /\ q[i] = i - Len(flat) /\ i = Len(flat) + (i - Len(flat))
    <3>1. n + 1 \in 1..(n + 1) /\ q[i] \in DOMAIN s /\ r[i] = s[q[i]]
      BY <1>2, <1>4, <2>2
    <3> QED
      BY <2>2, <3>1
  <2> QED
    BY <1>5, <2>1, <2>2
<1>8. ASSUME NEW i \in DOMAIN r, NEW j \in DOMAIN r, i < j
      PROVE  p[i] < p[j] \/ (p[i] = p[j] /\ q[i] < q[j])
  <2>0. i \in Nat /\ j \in Nat
    BY <1>1, <1>2, <1>4
  <2>1. CASE j \in 1..Len(flat)
    <3>1. i \in 1..Len(flat)
      BY <1>1, <1>2, <1>4, <2>0, <2>1, <1>8
    <3>2. p[i] = part[i] /\ q[i] = place[i] /\ p[j] = part[j] /\ q[j] = place[j]
      BY <1>1, <1>5, <2>1, <3>1
    <3>3. part[i] < part[j] \/ (part[i] = part[j] /\ place[i] < place[j])
      BY <1>1, <1>8, <2>1, <3>1 DEF Placed
    <3> QED
      BY <3>2, <3>3
  <2>2. CASE j \notin 1..Len(flat)
    <3>1. p[j] = n + 1 /\ q[j] = j - Len(flat)
      BY <1>5, <2>2
    <3>2. CASE i \in 1..Len(flat)
      <4>1. p[i] = part[i] /\ part[i] \in 1..n
        BY <1>1, <1>5, <1>6, <3>2
      <4> QED
        BY <3>1, <4>1
    <3>3. CASE i \notin 1..Len(flat)
      <4>1. p[i] = n + 1 /\ q[i] = i - Len(flat)
        BY <1>5, <3>3
      <4> QED
        BY <1>1, <1>8, <2>0, <3>1, <4>1
    <3> QED
      BY <3>2, <3>3
  <2> QED
    BY <2>1, <2>2
<1>9. ASSUME NEW b \in 1..(n + 1), NEW k \in DOMAIN seqs[b] PROVE \E i \in DOMAIN r : p[i] = b /\ q[i] = k
  <2>1. CASE b \in 1..n
    <3>1. PICK i \in DOMAIN flat : part[i] = b /\ place[i] = k
      BY <2>1 DEF Placed
    <3>2. i \in 1..Len(flat) /\ i \in DOMAIN r
      BY <1>1, <1>2, <1>4
    <3>3. p[i] = part[i] /\ q[i] = place[i]
      BY <1>1, <1>5, <3>2
    <3> QED
      BY <3>1, <3>2, <3>3
  <2>2. CASE b = n + 1
    <3>1. k \in 1..Len(s)
      BY <1>2, <2>2
    <3>2. Len(flat) + k \in DOMAIN r /\ Len(flat) + k \notin 1..Len(flat) /\ (Len(flat) + k) - Len(flat) = k
      BY <1>1, <1>2, <1>4, <3>1
    <3>3. p[Len(flat) + k] = n + 1 /\ q[Len(flat) + k] = k
      BY <1>5, <3>2
    <3> QED
      BY <2>2, <3>2, <3>3
  <2> QED
    BY <2>1, <2>2
<1>10. Placed(r, seqs, n + 1, p, q)
  BY <1>3, <1>7, <1>8, <1>9 DEF Placed
<1> QED
  BY <1>10 DEF r

(* The elements of a flattened list of lists are those of its parts, in order. *)
LEMMA FlattenPlaced ==
  ASSUME NEW seqs, IsList(seqs), \A i \in DOMAIN seqs : IsList(seqs[i])
  PROVE  \E p, q : Placed(FlattenSeq(seqs), seqs, Len(seqs), p, q)
<1> DEFINE n == Len(seqs)
           f == CHOOSE g : g = [i \in 1..n |-> IF i = 1 THEN seqs[i] ELSE g[i - 1] \o seqs[i]]
<1>0. n \in Nat /\ DOMAIN seqs = 1..n
  BY ListFields
<1>1. CASE n = 0
  <2>1. FlattenSeq(seqs) = seqs
    BY <1>1 DEF FlattenSeq
  <2>2. DOMAIN seqs = {} /\ 1..n = {}
    BY <1>0, <1>1
  <2>3. Placed(seqs, seqs, n, seqs, seqs)
    BY <2>2 DEF Placed
  <2> QED
    BY <2>1, <2>3
<1>2. CASE n # 0
  <2>1. \E g : g = [i \in 1..n |-> IF i = 1 THEN seqs[i] ELSE g[i - 1] \o seqs[i]]
    BY <1>0, FlatRunExists DEF FlatRun
  <2>2. f = [i \in 1..n |-> IF i = 1 THEN seqs[i] ELSE f[i - 1] \o seqs[i]]
    BY <2>1
  <2>3. FlattenSeq(seqs) = f[n]
    BY <1>2 DEF FlattenSeq
  <2> HIDE DEF f
  <2>4. \A i \in 1..n : f[i] = IF i = 1 THEN seqs[i] ELSE f[i - 1] \o seqs[i]
    BY <2>2
  <2> DEFINE Holds(m) == \E p, q : Placed(f[m], seqs, m, p, q)
             T == {m \in Nat : m + 1 <= n => Holds(m + 1)}
  <2>5. 0 \in T
    <3> DEFINE s == seqs[1]
               p == [i \in DOMAIN s |-> 1]
               q == [i \in DOMAIN s |-> i]
    <3>1. 1 \in 1..n /\ f[1] = s /\ IsList(s)
      BY <1>0, <1>2, <2>4
    <3>2. /\ \A i \in DOMAIN s : p[i] = 1 /\ q[i] = i
          /\ 1..1 = {1} /\ 1 \in 1..1
      OBVIOUS
    <3> HIDE DEF p, q
    <3>3. Placed(s, seqs, 1, p, q)
      BY <3>1, <3>2 DEF Placed
    <3>4. Holds(1)
      BY <3>1, <3>3
    <3> QED
      BY <3>4
  <2>6. ASSUME NEW m \in T PROVE m + 1 \in T
    <3> DEFINE k == m + 1
    <3> SUFFICES ASSUME k + 1 <= n PROVE Holds(k + 1)
      OBVIOUS
    <3>1. k \in 1..n /\ k + 1 \in 1..n /\ k + 1 # 1 /\ (k + 1) - 1 = k /\ m \in Nat /\ k <= n /\ k \in Nat
      BY <1>0
    <3>2. Holds(k)
      BY <3>1
    <3>3. f[k + 1] = f[k] \o seqs[k + 1]
      BY <2>4, <3>1
    <3>4. IsList(seqs[k + 1])
      BY <1>0, <3>1
    <3> HIDE DEF k
    <3>5. PICK p, q : Placed(f[k], seqs, k, p, q)
      BY <3>2
    <3> QED
      BY <3>1, <3>3, <3>4, <3>5, PlacedOn
  <2>7. T = Nat
    <3>1. T \in SUBSET Nat
      OBVIOUS
    <3> HIDE DEF T
    <3> QED
      BY <2>5, <2>6, <3>1, NatSetInduction
  <2>8. n - 1 \in Nat /\ (n - 1) + 1 = n
    BY <1>0, <1>2
  <2>9. Holds(n)
    <3>1. n - 1 \in T
      BY <2>7, <2>8
    <3> HIDE DEF Holds
    <3> QED
      BY <1>0, <2>8, <3>1
  <2> QED
    BY <2>3, <2>9
<1> QED
  BY <1>1, <1>2

(* The run of a filter over a list. *)
LEMMA FilterRunOf ==
  ASSUME NEW s, IsList(s), NEW kept
  PROVE  \E f : /\ Filtered(s, kept) = f[Len(s)]
                /\ \A i \in 0..Len(s) : f[i] = IF i = 0 THEN <<>> ELSE FilterStep(s, kept, f[i - 1], i)
<1> DEFINE n == Len(s)
           f == CHOOSE some : some = [i \in 0..n |->
                  IF i = 0 THEN <<>>
                  ELSE IF s[i] \in kept THEN Append(some[i - 1], s[i]) ELSE some[i - 1]]
<1>0. n \in Nat
  BY ListFields
<1>1. \E some : some = [i \in 0..n |->
                  IF i = 0 THEN <<>>
                  ELSE IF s[i] \in kept THEN Append(some[i - 1], s[i]) ELSE some[i - 1]]
  <2>1. \E some : FilterRun(some, s, kept, n)
    BY <1>0, FilterRunExists
  <2> QED
    BY <2>1 DEF FilterRun, FilterStep
<1>2. FilterRun(f, s, kept, n)
  BY <1>1 DEF FilterRun, FilterStep
<1>3. Filtered(s, kept) = f[n]
  <2>1. Filtered(s, kept) = FilterFrom(s, kept)
    BY DEF Filtered
  <2> QED
    BY <2>1 DEF FilterFrom
<1> HIDE DEF f
<1>4. \A i \in 0..n : f[i] = IF i = 0 THEN <<>> ELSE FilterStep(s, kept, f[i - 1], i)
  BY <1>2 DEF FilterRun
<1> QED
  BY <1>3, <1>4

(* Of two lists joined, a filter that keeps the one and nothing of the other keeps the one. *)
LEMMA KeptPart ==
  ASSUME NEW f, NEW g, IsList(f), IsList(g), NEW kept, Range(f) \subseteq kept, Range(g) \cap kept = {}
  PROVE  Filtered(f \o g, kept) = f
<1> DEFINE r == f \o g
           n == Len(f)
           m == Len(g)
           part(i) == [j \in 1..i |-> f[j]]
<1>1. /\ n \in Nat /\ DOMAIN f = 1..n /\ \A i \in 1..n : f[i] \in Range(f)
      /\ m \in Nat /\ DOMAIN g = 1..m /\ \A i \in 1..m : g[i] \in Range(g)
  BY ListFields
<1>2. f \in Seq(Range(f) \cup Range(g)) /\ g \in Seq(Range(f) \cup Range(g))
  BY DEF IsList
<1>3. /\ Len(r) = n + m
      /\ \A i \in 1..n : r[i] = f[i]
      /\ \A i \in 1..m : r[n + i] = g[i]
  BY <1>2
<1>4. IsList(r)
  BY ListsJoined
<1> HIDE DEF r
<1>5. PICK h : /\ Filtered(r, kept) = h[Len(r)]
               /\ \A i \in 0..Len(r) : h[i] = IF i = 0 THEN <<>> ELSE FilterStep(r, kept, h[i - 1], i)
  BY <1>4, FilterRunOf
<1>6. h[0] = <<>>
  BY <1>1, <1>3, <1>5
<1>7. ASSUME NEW i \in Nat, i + 1 <= n + m
      PROVE  h[i + 1] = FilterStep(r, kept, h[i], i + 1)
  <2>1. i + 1 \in 0..Len(r) /\ i + 1 # 0 /\ (i + 1) - 1 = i
    BY <1>1, <1>3, <1>7
  <2> QED
    BY <1>5, <2>1
<1> DEFINE T == {i \in Nat : i <= n => h[i] = part(i)}
           U == {i \in Nat : i <= m => h[n + i] = f}
<1>8. T = Nat
  <2>1. 0 \in T
    <3>1. part(0) = <<>>
      OBVIOUS
    <3> QED
      BY <1>6, <3>1
  <2>2. ASSUME NEW i \in T PROVE i + 1 \in T
    <3> SUFFICES ASSUME i + 1 <= n PROVE h[i + 1] = part(i + 1)
      OBVIOUS
    <3>1. i \in Nat /\ i <= n /\ h[i] = part(i) /\ i + 1 \in 1..n /\ i + 1 <= n + m
      BY <1>1
    <3>2. r[i + 1] = f[i + 1] /\ r[i + 1] \in kept
      BY <1>1, <1>3, <3>1
    <3>3. h[i + 1] = Append(part(i), f[i + 1])
      BY <1>7, <3>1, <3>2 DEF FilterStep
    <3>4. part(i) \in Seq(Range(f)) /\ Len(part(i)) = i
      <4>1. part(i) \in [1..i -> Range(f)]
        BY <1>1, <3>1
      <4> QED
        BY <3>1, <4>1
    <3>5. Append(part(i), f[i + 1]) = part(i + 1)
      <4> DEFINE a == Append(part(i), f[i + 1])
      <4>1. f[i + 1] \in Range(f)
        BY <1>1, <3>1
      <4>2. /\ a \in Seq(Range(f)) /\ Len(a) = i + 1 /\ a[i + 1] = f[i + 1]
            /\ \A j \in 1..i : a[j] = part(i)[j]
        BY <3>1, <3>4, <4>1
      <4>3. a = [j \in 1..(i + 1) |-> a[j]]
        BY <4>2
      <4>4. \A j \in 1..(i + 1) : a[j] = f[j]
        BY <3>1, <4>2
      <4> HIDE DEF a
      <4>5. a = part(i + 1)
        BY <4>3, <4>4
      <4> QED
        BY <4>5 DEF a
    <3> QED
      BY <3>3, <3>5
  <2> HIDE DEF T
  <2>3. T \in SUBSET Nat
    BY DEF T
  <2> QED
    BY <2>1, <2>2, <2>3, NatSetInduction
<1>9. h[n] = f
  <2>1. h[n] = part(n)
    BY <1>1, <1>8
  <2>2. f = part(n)
    BY <1>1, <1>2
  <2> QED
    BY <2>1, <2>2
<1>10. U = Nat
  <2>1. 0 \in U
    BY <1>1, <1>9
  <2>2. ASSUME NEW i \in U PROVE i + 1 \in U
    <3> SUFFICES ASSUME i + 1 <= m PROVE h[n + (i + 1)] = f
      OBVIOUS
    <3>1. i \in Nat /\ h[n + i] = f /\ i + 1 \in 1..m /\ n + i \in Nat /\ (n + i) + 1 <= n + m
          /\ n + (i + 1) = (n + i) + 1
      BY <1>1
    <3>2. r[(n + i) + 1] = g[i + 1] /\ g[i + 1] \notin kept
      BY <1>1, <1>3, <3>1
    <3> QED
      BY <1>7, <3>1, <3>2 DEF FilterStep
  <2> HIDE DEF U
  <2>3. U \in SUBSET Nat
    BY DEF U
  <2> QED
    BY <2>1, <2>2, <2>3, NatSetInduction
<1>11. h[n + m] = f
  <2>1. m \in U
    BY <1>1, <1>10
  <2>2. m <= m
    BY <1>1
  <2> QED
    BY <2>1, <2>2
<1> QED
  BY <1>3, <1>5, <1>11 DEF r

(* Of two lists, the elements at the same places. *)
SamePlaces(s, t, a, b) ==
  /\ a \in Seq(Range(s)) /\ b \in Seq(Range(t)) /\ Len(a) = Len(b) /\ Len(a) \in Nat
  /\ \A j \in 1..Len(a) : \E i \in 1..Len(s) : a[j] = s[i] /\ b[j] = t[i]

(* Two filters that keep the same places. *)
LEMMA FilteredAlike ==
  ASSUME NEW s, IsList(s), NEW t, IsList(t), Len(s) = Len(t), NEW keepS, NEW keepT,
         \A i \in 1..Len(s) : s[i] \in keepS <=> t[i] \in keepT
  PROVE  SamePlaces(s, t, Filtered(s, keepS), Filtered(t, keepT))
<1> DEFINE n == Len(s)
<1>0. n \in Nat /\ n = Len(t) /\ \A i \in 1..n : s[i] \in Range(s) /\ t[i] \in Range(t)
  BY ListFields
<1>1. PICK f : /\ Filtered(s, keepS) = f[n]
               /\ \A i \in 0..n : f[i] = IF i = 0 THEN <<>> ELSE FilterStep(s, keepS, f[i - 1], i)
  BY FilterRunOf
<1>2. PICK g : /\ Filtered(t, keepT) = g[n]
               /\ \A i \in 0..n : g[i] = IF i = 0 THEN <<>> ELSE FilterStep(t, keepT, g[i - 1], i)
  BY <1>0, FilterRunOf
<1> DEFINE T == {m \in Nat : m <= n => SamePlaces(s, t, f[m], g[m])}
<1>3. 0 \in T
  <2>1. f[0] = <<>> /\ g[0] = <<>>
    BY <1>0, <1>1, <1>2
  <2>2. SamePlaces(s, t, <<>>, <<>>)
    BY DEF SamePlaces
  <2> QED
    BY <2>1, <2>2
<1>4. ASSUME NEW m \in T PROVE m + 1 \in T
  <2> DEFINE k == m + 1
  <2> SUFFICES ASSUME k <= n PROVE SamePlaces(s, t, f[k], g[k])
    OBVIOUS
  <2>1. m \in Nat /\ m <= n /\ k \in 0..n /\ k - 1 = m /\ k # 0 /\ k \in 1..n
    BY <1>0
  <2>2. SamePlaces(s, t, f[m], g[m])
    BY <2>1
  <2>3. f[k] = FilterStep(s, keepS, f[m], k) /\ g[k] = FilterStep(t, keepT, g[m], k)
    BY <1>1, <1>2, <2>1
  <2> HIDE DEF k
  <2>4. CASE s[k] \in keepS
    <3>1. t[k] \in keepT
      BY <2>1, <2>4
    <3>2. f[k] = Append(f[m], s[k]) /\ g[k] = Append(g[m], t[k])
      BY <2>3, <2>4, <3>1 DEF FilterStep
    <3>3. f[m] \in Seq(Range(s)) /\ g[m] \in Seq(Range(t)) /\ Len(f[m]) = Len(g[m]) /\ Len(f[m]) \in Nat
      BY <2>2 DEF SamePlaces
    <3>4. s[k] \in Range(s) /\ t[k] \in Range(t)
      BY <1>0, <2>1
    <3>5. /\ f[k] \in Seq(Range(s)) /\ g[k] \in Seq(Range(t)) /\ Len(f[k]) = Len(f[m]) + 1 /\ Len(g[k]) = Len(g[m]) + 1
          /\ \A j \in 1..Len(f[m]) : f[k][j] = f[m][j] /\ g[k][j] = g[m][j]
          /\ f[k][Len(f[m]) + 1] = s[k] /\ g[k][Len(f[m]) + 1] = t[k]
      BY <3>2, <3>3, <3>4
    <3>6. ASSUME NEW j \in 1..Len(f[k]) PROVE \E i \in 1..n : f[k][j] = s[i] /\ g[k][j] = t[i]
      <4>1. CASE j \in 1..Len(f[m])
        BY <2>2, <3>5, <4>1 DEF SamePlaces
      <4>2. CASE j = Len(f[m]) + 1
        BY <2>1, <3>5, <4>2
      <4> QED
        BY <3>3, <3>5, <4>1, <4>2
    <3>7. Len(f[k]) = Len(g[k]) /\ Len(f[k]) \in Nat
      BY <3>3, <3>5
    <3> QED
      BY <3>5, <3>6, <3>7 DEF SamePlaces
  <2>5. CASE s[k] \notin keepS
    <3>1. t[k] \notin keepT
      BY <2>1, <2>5
    <3>2. f[k] = f[m] /\ g[k] = g[m]
      BY <2>3, <2>5, <3>1 DEF FilterStep
    <3> QED
      BY <2>2, <3>2
  <2> QED
    BY <2>4, <2>5
<1>5. T = Nat
  <2>1. T \in SUBSET Nat
    OBVIOUS
  <2> HIDE DEF T
  <2> QED
    BY <1>3, <1>4, <2>1, NatSetInduction
<1> QED
  BY <1>0, <1>1, <1>2, <1>5

(* A way to go through the places 1..n once. *)
Rearranges(pi, n) ==
  /\ pi \in [1..n -> 1..n]
  /\ \A i, j \in 1..n : pi[i] = pi[j] => i = j
  /\ \A k \in 1..n : \E i \in 1..n : pi[i] = k

(* Two lists with the same elements, as often. *)
Rearranged(s, t) ==
  /\ Len(s) = Len(t) /\ Len(s) \in Nat
  /\ \E pi : Rearranges(pi, Len(s)) /\ \A i \in 1..Len(s) : s[i] = t[pi[i]]

(* Two orders of the places 1..n that agree after rearranging them. *)
OrdersAgree(b, c, pi, n) == \A i, j \in 1..n : <<i, j>> \in b <=> <<pi[i], pi[j]>> \in c

(* Two sorts that go through two arrangements alike. *)
SortAlike(s, t, b, c, pi, n) ==
  \A k \in 1..n : \E i \in 1..n : Sorted(s, b)[k] = s[i] /\ Sorted(t, c)[k] = t[pi[i]]

(* Sorts of two arrangements, by orders that agree, go through them alike. *)
LEMMA SortedAlike ==
  ASSUME NEW n \in Nat, NEW s, NEW t, DOMAIN s = 1..n, DOMAIN t = 1..n,
         NEW b, NEW c, TotalOrder(b, 1..n), TotalOrder(c, 1..n), NEW pi, Rearranges(pi, n),
         OrdersAgree(b, c, pi, n)
  PROVE  SortAlike(s, t, b, c, pi, n)
<1> DEFINE D == 1..n
           rankB == [i \in D |-> Cardinality({j \in D : <<j, i>> \in b}) + 1]
           rankC == [i \in D |-> Cardinality({j \in D : <<j, i>> \in c}) + 1]
<1>1. /\ \A k \in D : Sorted(s, b)[k] = s[CHOOSE i \in D : rankB[i] = k]
      /\ \A k \in D : Sorted(t, c)[k] = t[CHOOSE i \in D : rankC[i] = k]
  BY DEF Sorted
<1>2. /\ \A i, j \in D : rankB[i] = rankB[j] => i = j
      /\ \A k \in D : \E i \in D : rankB[i] = k
  BY RanksHeld
<1>3. /\ \A i, j \in D : rankC[i] = rankC[j] => i = j
      /\ \A k \in D : \E i \in D : rankC[i] = k
  BY RanksHeld
<1>4. pi \in [D -> D] /\ (\A i, j \in D : pi[i] = pi[j] => i = j) /\ \A k \in D : \E i \in D : pi[i] = k
  BY DEF Rearranges
<1>5. IsFiniteSet(D) /\ \A i, j \in D : <<i, j>> \in b <=> <<pi[i], pi[j]>> \in c
  BY FS_Interval DEF OrdersAgree
<1>6. ASSUME NEW i \in D PROVE rankB[i] = rankC[pi[i]]
  <2> DEFINE A == {j \in D : <<j, i>> \in b}
             C == {j \in D : <<j, pi[i]>> \in c}
             f == [j \in A |-> pi[j]]
  <2>1. f \in [A -> C]
    BY <1>4, <1>5
  <2>2. \A j, k \in A : f[j] = f[k] => j = k
    BY <1>4
  <2>3. ASSUME NEW k \in C PROVE \E j \in A : f[j] = k
    <3>1. PICK j \in D : pi[j] = k
      BY <1>4
    <3>2. j \in A
      BY <1>5, <3>1
    <3> QED
      BY <3>1, <3>2
  <2>4. IsFiniteSet(A)
    BY <1>5, FS_Subset
  <2>5. rankB[i] = Cardinality(A) + 1 /\ rankC[pi[i]] = Cardinality(C) + 1
    BY <1>4
  <2> HIDE DEF A, C, f
  <2>6. f \in Bijection(A, C)
    BY <2>1, <2>2, <2>3 DEF Bijection, Injection, Surjection, IsInjective
  <2>7. Cardinality(C) = Cardinality(A)
    BY <2>4, <2>6, FS_Bijection DEF ExistsBijection
  <2> QED
    BY <2>5, <2>7
<1> HIDE DEF rankB, rankC, D
<1>7. ASSUME NEW k \in D PROVE \E i \in D : Sorted(s, b)[k] = s[i] /\ Sorted(t, c)[k] = t[pi[i]]
  <2>1. PICK i \in D : rankB[i] = k
    BY <1>2
  <2>2. (CHOOSE j \in D : rankB[j] = k) = i
    BY <1>2, <2>1
  <2>3. pi[i] \in D /\ rankC[pi[i]] = k
    BY <1>4, <1>6, <2>1
  <2>4. (CHOOSE j \in D : rankC[j] = k) = pi[i]
    BY <1>3, <2>3
  <2> QED
    BY <1>1, <2>2, <2>4
<1> QED
  BY <1>7 DEF D, SortAlike

(* The numbers up to n. *)
LEMMA UptoCounted ==
  ASSUME NEW n \in Nat
  PROVE  IsFiniteSet(1..n) /\ Cardinality(1..n) = n
BY FS_Interval

(* Places in a concatenation are told apart by their part and their place in it. *)
LEMMA PlacedApart ==
  ASSUME NEW flat, NEW seqs, NEW n \in Nat, NEW p, NEW q, Placed(flat, seqs, n, p, q),
         \A b \in 1..n : IsList(seqs[b]), NEW i \in DOMAIN flat, NEW j \in DOMAIN flat, p[i] = p[j]
  PROVE  (q[i] = q[j] => i = j) /\ (i < j <=> q[i] < q[j])
<1>1. IsList(flat) /\ Len(flat) \in Nat /\ DOMAIN flat = 1..Len(flat)
  BY ListFields DEF Placed
<1>2. p[i] \in 1..n /\ q[i] \in DOMAIN seqs[p[i]] /\ q[j] \in DOMAIN seqs[p[i]]
  BY DEF Placed
<1>3. q[i] \in Nat /\ q[j] \in Nat /\ p[i] \in Nat
  <2>1. DOMAIN seqs[p[i]] = 1..Len(seqs[p[i]]) /\ Len(seqs[p[i]]) \in Nat
    BY <1>2, ListFields
  <2> QED
    BY <1>2, <2>1
<1>4. (i < j => q[i] < q[j]) /\ (j < i => q[j] < q[i])
  <2>1. i < j => p[i] < p[j] \/ (p[i] = p[j] /\ q[i] < q[j])
    BY DEF Placed
  <2>2. j < i => p[j] < p[i] \/ (p[j] = p[i] /\ q[j] < q[i])
    BY DEF Placed
  <2> QED
    BY <1>3, <2>1, <2>2
<1>5. i \in Nat /\ j \in Nat
  BY <1>1
<1> QED
  BY <1>3, <1>4, <1>5

(* The concatenations of n parts and of their rearrangement: as long, and rearranged so that the *)
(* elements of a part stay in their order.                                                        *)
PartsRearranged(f, g, S, n) ==
  /\ IsList(f) /\ IsList(g) /\ Len(f) = Len(g)
  /\ \E pi : /\ Rearranges(pi, Len(f))
             /\ \A i \in 1..Len(f) : f[i] = g[pi[i]]
             /\ \A i, j \in 1..Len(f) : \E b, c \in 1..n :
                  /\ f[i] \in Range(S[b]) /\ f[j] \in Range(S[c])
                  /\ b = c => (i < j <=> pi[i] < pi[j])

(* When the parts of a concatenation are put into another order, its elements are, and those of a *)
(* part stay in their order.                                                                      *)
LEMMA FlatRearranged ==
  ASSUME NEW n \in Nat, NEW S, NEW T, IsList(S), IsList(T), Len(S) = n, Len(T) = n,
         \A b \in 1..n : IsList(S[b]) /\ IsList(T[b]),
         NEW sigma, Rearranges(sigma, n), \A b \in 1..n : S[b] = T[sigma[b]]
  PROVE  PartsRearranged(FlattenSeq(S), FlattenSeq(T), S, n)
<1> DEFINE f == FlattenSeq(S)
           g == FlattenSeq(T)
<1>1. DOMAIN S = 1..n /\ DOMAIN T = 1..n
  BY ListFields
<1>2. PICK p, q : Placed(f, S, n, p, q)
  BY <1>1, FlattenPlaced
<1>3. PICK u, v : Placed(g, T, n, u, v)
  BY <1>1, FlattenPlaced
<1>4. /\ IsList(f) /\ Len(f) \in Nat /\ DOMAIN f = 1..Len(f)
      /\ IsList(g) /\ Len(g) \in Nat /\ DOMAIN g = 1..Len(g)
  BY <1>2, <1>3, ListFields DEF Placed
<1> HIDE DEF f, g
<1> DEFINE Df == DOMAIN f
           Dg == DOMAIN g
<1>5. \A i \in Df : p[i] \in 1..n /\ q[i] \in DOMAIN S[p[i]] /\ f[i] = S[p[i]][q[i]]
  BY <1>2 DEF Placed
<1>6. \A k \in Dg : u[k] \in 1..n /\ v[k] \in DOMAIN T[u[k]] /\ g[k] = T[u[k]][v[k]]
  BY <1>3 DEF Placed
<1>7. \A i, j \in Df : p[i] = p[j] => (q[i] = q[j] => i = j) /\ (i < j <=> q[i] < q[j])
  BY <1>2, PlacedApart
<1>8. \A i, j \in Dg : u[i] = u[j] => (v[i] = v[j] => i = j) /\ (i < j <=> v[i] < v[j])
  BY <1>3, PlacedApart
<1>9. /\ \A b \in 1..n : sigma[b] \in 1..n
      /\ \A b, c \in 1..n : sigma[b] = sigma[c] => b = c
      /\ \A c \in 1..n : \E b \in 1..n : sigma[b] = c
  BY DEF Rearranges
<1> DEFINE pi == [i \in Df |-> CHOOSE k \in Dg : u[k] = sigma[p[i]] /\ v[k] = q[i]]
<1>10. ASSUME NEW i \in Df PROVE pi[i] \in Dg /\ u[pi[i]] = sigma[p[i]] /\ v[pi[i]] = q[i]
  <2>1. sigma[p[i]] \in 1..n /\ q[i] \in DOMAIN T[sigma[p[i]]]
    BY <1>5, <1>9
  <2>2. \E k \in Dg : u[k] = sigma[p[i]] /\ v[k] = q[i]
    BY <1>3, <2>1 DEF Placed
  <2> QED
    BY <2>2
<1>11. DOMAIN pi = Df
  OBVIOUS
<1>12. pi \in [Df -> Dg]
  BY <1>10
<1> HIDE DEF pi, Df, Dg
<1>13. \A i, j \in Df : pi[i] = pi[j] => i = j
  <2> SUFFICES ASSUME NEW i \in Df, NEW j \in Df, pi[i] = pi[j] PROVE i = j
    OBVIOUS
  <2>1. sigma[p[i]] = sigma[p[j]] /\ q[i] = q[j]
    BY <1>10
  <2>2. p[i] = p[j]
    BY <1>5, <1>9, <2>1
  <2> QED
    BY <1>7, <2>1, <2>2
<1>14. ASSUME NEW k \in Dg PROVE \E i \in Df : pi[i] = k
  <2>1. PICK b \in 1..n : sigma[b] = u[k]
    BY <1>6, <1>9
  <2>2. v[k] \in DOMAIN S[b]
    BY <1>6, <2>1
  <2>3. PICK i \in Df : p[i] = b /\ q[i] = v[k]
    BY <1>2, <2>2 DEF Placed, Df
  <2>4. u[pi[i]] = u[k] /\ v[pi[i]] = v[k] /\ pi[i] \in Dg
    BY <1>10, <2>1, <2>3
  <2> QED
    BY <1>8, <2>3, <2>4
<1>15. Len(f) = Len(g)
  <2>1. pi \in Bijection(Df, Dg)
    BY <1>12, <1>13, <1>14 DEF Bijection, Injection, Surjection, IsInjective
  <2>2. IsFiniteSet(Df) /\ Cardinality(Df) = Len(f) /\ Cardinality(Dg) = Len(g)
    BY <1>4, UptoCounted DEF Df, Dg
  <2>3. Cardinality(Df) = Cardinality(Dg)
    BY <2>1, <2>2, FS_Bijection DEF ExistsBijection
  <2> QED
    BY <2>2, <2>3
<1>16. Df = 1..Len(f) /\ Dg = 1..Len(f)
  BY <1>4, <1>15 DEF Df, Dg
<1>17. Rearranges(pi, Len(f))
  BY <1>12, <1>13, <1>14, <1>16 DEF Rearranges
<1>18. ASSUME NEW i \in Df PROVE f[i] = g[pi[i]]
  <2>1. g[pi[i]] = T[sigma[p[i]]][q[i]]
    BY <1>6, <1>10
  <2> QED
    BY <1>5, <2>1
<1>19. ASSUME NEW i \in Df, NEW j \in Df
       PROVE  \E b, c \in 1..n : /\ f[i] \in Range(S[b]) /\ f[j] \in Range(S[c])
                                 /\ b = c => (i < j <=> pi[i] < pi[j])
  <2>1. p[i] \in 1..n /\ p[j] \in 1..n /\ f[i] \in Range(S[p[i]]) /\ f[j] \in Range(S[p[j]])
    BY <1>5 DEF Range
  <2>2. ASSUME p[i] = p[j] PROVE i < j <=> pi[i] < pi[j]
    <3>1. i < j <=> q[i] < q[j]
      BY <1>7, <2>2
    <3>2. u[pi[i]] = u[pi[j]] /\ pi[i] \in Dg /\ pi[j] \in Dg
      BY <1>10, <2>2
    <3>3. pi[i] < pi[j] <=> v[pi[i]] < v[pi[j]]
      BY <1>8, <3>2
    <3>4. v[pi[i]] = q[i] /\ v[pi[j]] = q[j]
      BY <1>10
    <3> QED
      BY <3>1, <3>3, <3>4
  <2> QED
    BY <2>1, <2>2
<1> QED
  BY <1>4, <1>15, <1>16, <1>17, <1>18, <1>19 DEF f, g, PartsRearranged

(* Two lists that hold the same, each once, are arrangements of each other. *)
LEMMA ListsRearranged ==
  ASSUME NEW s, NEW t, IsList(s), IsList(t), IsInjective(s), IsInjective(t), Range(s) = Range(t)
  PROVE  Rearranged(s, t)
<1> DEFINE D == 1..Len(s)
           E == 1..Len(t)
           pi == [i \in D |-> CHOOSE k \in E : t[k] = s[i]]
<1>1. /\ Len(s) \in Nat /\ DOMAIN s = D /\ Len(t) \in Nat /\ DOMAIN t = E
      /\ (\A i \in D : s[i] \in Range(s)) /\ (\A x \in Range(s) : \E i \in D : x = s[i])
      /\ (\A i \in E : t[i] \in Range(t)) /\ (\A x \in Range(t) : \E i \in E : x = t[i])
  BY ListFields
<1>2. \A i, j \in D : s[i] = s[j] => i = j
  BY <1>1 DEF IsInjective
<1>3. \A i, j \in E : t[i] = t[j] => i = j
  BY <1>1 DEF IsInjective
<1>4. ASSUME NEW i \in D PROVE pi[i] \in E /\ t[pi[i]] = s[i]
  <2>1. \E k \in E : t[k] = s[i]
    BY <1>1
  <2> QED
    BY <2>1
<1>5. pi \in [D -> E]
  BY <1>4
<1> HIDE DEF pi, D, E
<1>6. \A i, j \in D : pi[i] = pi[j] => i = j
  BY <1>2, <1>4
<1>7. ASSUME NEW k \in E PROVE \E i \in D : pi[i] = k
  <2>1. PICK i \in D : t[k] = s[i]
    BY <1>1
  <2> QED
    BY <1>3, <1>4, <2>1
<1>8. Len(s) = Len(t)
  <2>1. pi \in Bijection(D, E)
    BY <1>5, <1>6, <1>7 DEF Bijection, Injection, Surjection, IsInjective
  <2>2. IsFiniteSet(D) /\ Cardinality(D) = Len(s) /\ Cardinality(E) = Len(t)
    BY <1>1, UptoCounted DEF D, E
  <2>3. Cardinality(D) = Cardinality(E)
    BY <2>1, <2>2, FS_Bijection DEF ExistsBijection
  <2> QED
    BY <2>2, <2>3
<1>9. E = D
  BY <1>8 DEF D, E
<1>10. Rearranges(pi, Len(s))
  BY <1>5, <1>6, <1>7, <1>9 DEF Rearranges, D
<1> QED
  BY <1>1, <1>4, <1>8, <1>10 DEF D, Rearranged
=============================================================================
