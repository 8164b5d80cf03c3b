-------------------------- MODULE Translator_proofs --------------------------
(***************************************************************************)
(* Proofs about Translator, for any IRs that are keyed (IRsAssumption) and *)
(* any bound: a batch diffed from what Sozu holds is accepted request by   *)
(* request, takes away nothing that stays and leaves what was asked for;   *)
(* so does the batch that repeats one that stopped, and the baseline that  *)
(* is adopted after a stop describes what Sozu holds.                      *)
(*                                                                         *)
(* With the requests P of the batch still to go, Sozu holds the baseline   *)
(* less what has left and with what has come (Stage, and CertsAt of the    *)
(* certificates).  A request of the lowest tier finds all earlier tiers    *)
(* done: the clusters of a backend are there, the key of a route is free,  *)
(* nothing names a cluster that goes.  So it is taken as it is and leaves  *)
(* the next stage, one lemma per verb.  Sozu's maps stay maps (Keyed)      *)
(* whatever is sent.                                                       *)
(*                                                                         *)
(* A Sozu that a batch left part-way is Ahead of where the next one takes  *)
(* it to be: each set holds what both the expected one and the goal hold,  *)
(* and nothing that neither has.  Settling a request keeps it so, refused  *)
(* or not, and what is ahead of the goal is the goal.                      *)
(*                                                                         *)
(* The acknowledged head, put in order and simulated, leaves the stage the *)
(* batch had come to, and its replay follows it (Tracks).  Clusters go     *)
(* last: until one has, all their ids are held, and from then on the       *)
(* replay spells exactly what is held, stranded affinities aside.          *)
(***************************************************************************)
EXTENDS Translator, FiniteSetTheorems, Lists_proofs, TLAPS


-----------------------------------------------------------------------------
(* The order of transfers. *)

(* Transfers lead from a trade to itself, and on from where they lead. *)
LEMMA ReachesOn ==
  ASSUME NEW trades
  PROVE  /\ \A t \in trades : Reaches(trades, t, t)
         /\ \A t, u, v \in trades : Reaches(trades, t, u) /\ Feeds(u, v) => Reaches(trades, t, v)
         /\ \A t, u, v \in trades : Reaches(trades, t, u) /\ Reaches(trades, u, v) => Reaches(trades, t, v)
BY DEF Reaches

(* Two trades that reach each other are on a cycle with the same ones. *)
LEMMA OneComponent ==
  ASSUME NEW trades, NEW t \in trades, NEW u \in trades
  PROVE  /\ t \in OnCycleWith(trades, t)
         /\ u \in OnCycleWith(trades, t) => OnCycleWith(trades, u) = OnCycleWith(trades, t)
<1>1. t \in OnCycleWith(trades, t)
  BY ReachesOn DEF OnCycleWith
<1>2. ASSUME u \in OnCycleWith(trades, t)
      PROVE  OnCycleWith(trades, u) = OnCycleWith(trades, t)
  <2>1. Reaches(trades, t, u) /\ Reaches(trades, u, t)
    BY <1>2 DEF OnCycleWith
  <2>2. \A v \in trades : /\ Reaches(trades, u, v) <=> Reaches(trades, t, v)
                          /\ Reaches(trades, v, u) <=> Reaches(trades, v, t)
    BY <2>1, ReachesOn
  <2> QED
    BY <2>2 DEF OnCycleWith
<1> QED
  BY <1>1, <1>2

(* A component is that of each of its trades. *)
LEMMA ComponentOf ==
  ASSUME NEW trades, NEW c \in Components(trades), NEW t \in c
  PROVE  t \in trades /\ c = OnCycleWith(trades, t)
<1>1. PICK u \in trades : c = OnCycleWith(trades, u)
  BY DEF Components
<1>2. t \in trades
  BY <1>1 DEF OnCycleWith
<1> QED
  BY <1>1, <1>2, OneComponent

(* The trades that lead to t, fewer for a trade that feeds t from another component. *)
Sources(trades, t) == {u \in trades : Reaches(trades, u, t)}

(* A trade that leads to t, and t not to it, has fewer sources. *)
LEMMA FewerSources ==
  ASSUME NEW trades, IsFiniteSet(trades), NEW t \in trades, NEW v \in trades,
         Reaches(trades, v, t), ~Reaches(trades, t, v)
  PROVE  Cardinality(Sources(trades, v)) < Cardinality(Sources(trades, t))
<1>1. Sources(trades, v) \subseteq Sources(trades, t)
  BY ReachesOn DEF Sources
<1>2. t \in Sources(trades, t) /\ t \notin Sources(trades, v)
  BY ReachesOn DEF Sources
<1>3. IsFiniteSet(Sources(trades, t))
  <2>1. Sources(trades, t) \in SUBSET trades
    BY DEF Sources
  <2> QED
    BY <2>1, FS_Subset
<1>4. /\ Sources(trades, v) \in SUBSET Sources(trades, t)
      /\ Sources(trades, v) # Sources(trades, t)
  BY <1>1, <1>2
<1>5. /\ IsFiniteSet(Sources(trades, v))
      /\ Cardinality(Sources(trades, v)) <= Cardinality(Sources(trades, t))
      /\ Cardinality(Sources(trades, t)) # Cardinality(Sources(trades, v))
  BY <1>3, <1>4, FS_Subset
<1>6. Cardinality(Sources(trades, v)) \in Nat /\ Cardinality(Sources(trades, t)) \in Nat
  BY <1>3, <1>5, FS_CardinalityType
<1> QED
  BY <1>5, <1>6

(* Of the components left, one waits for none of the others: the heap never runs dry early. *)
LEMMA SomeReady ==
  ASSUME NEW trades, IsFiniteSet(trades), NEW rest \in SUBSET Components(trades), rest # {}
  PROVE  Ready(rest) # {}
<1> DEFINE T == {Cardinality(Sources(trades, t)) : t \in UNION rest}
<1>1. UNION rest \subseteq trades /\ UNION rest # {}
  <2>1. PICK c \in rest : TRUE
    OBVIOUS
  <2>2. c # {}
    BY <2>1, OneComponent DEF Components
  <2> QED
    BY <2>1, <2>2, ComponentOf
<1>2. \A t \in trades : Cardinality(Sources(trades, t)) \in Nat
  <2> SUFFICES ASSUME NEW t \in trades PROVE Cardinality(Sources(trades, t)) \in Nat
    OBVIOUS
  <2>1. Sources(trades, t) \in SUBSET trades
    BY DEF Sources
  <2> QED
    BY <2>1, FS_Subset, FS_CardinalityType
<1>3. T \in SUBSET Nat /\ T # {}
  BY <1>1, <1>2
<1>4. PICK t \in UNION rest : \A v \in UNION rest :
        ~(Cardinality(Sources(trades, v)) < Cardinality(Sources(trades, t)))
  <2>1. \E x \in T : \A y \in T : ~(y < x)
    <3> HIDE DEF T
    <3> QED
      BY <1>3, LeastNat
  <2> QED
    BY <2>1
<1>5. PICK c \in rest : t \in c
  BY <1>4
<1>6. c \in Ready(rest)
  <2> SUFFICES ASSUME NEW d \in rest \ {c}, NEW v \in d, NEW u \in c, Feeds(v, u)
               PROVE  FALSE
    BY DEF Ready
  <2>1. t \in trades /\ u \in trades /\ v \in trades
    BY <1>1, <1>5
  <2>2. c = OnCycleWith(trades, t) /\ d = OnCycleWith(trades, v)
    BY <1>5, ComponentOf
  <2>3. Reaches(trades, u, t)
    BY <2>2 DEF OnCycleWith
  <2>4. Reaches(trades, v, t)
    BY <2>1, <2>3, ReachesOn
  <2>5. ~Reaches(trades, t, v)
    <3> SUFFICES ASSUME Reaches(trades, t, v) PROVE FALSE
      OBVIOUS
    <3>1. v \in OnCycleWith(trades, t)
      BY <2>1, <2>4 DEF OnCycleWith
    <3> QED
      BY <2>1, <2>2, <3>1, OneComponent
  <2>6. Cardinality(Sources(trades, v)) < Cardinality(Sources(trades, t))
    BY <2>1, <2>4, <2>5, FewerSources
  <2> QED
    BY <1>4, <2>6
<1> QED
  BY <1>6

(* The one popped is ready. *)
LEMMA PoppedReady ==
  ASSUME NEW trades, IsFiniteSet(trades), NEW text \in [trades -> Nat],
         NEW rest \in SUBSET Components(trades), rest # {}
  PROVE  Popped(text, rest) \in Ready(rest)
<1> DEFINE T == {Priority(text, c) : c \in Ready(rest)}
<1>1. \A c \in Components(trades) : Priority(text, c) \in Nat
  <2> SUFFICES ASSUME NEW c \in Components(trades) PROVE Priority(text, c) \in Nat
    OBVIOUS
  <2> DEFINE places == {text[t] : t \in c}
  <2>1. places \in SUBSET Nat /\ places # {}
    <3>1. c \subseteq trades /\ c # {}
      BY ComponentOf, OneComponent DEF Components
    <3> QED
      BY <3>1
  <2>2. \E x \in places : \A y \in places : x <= y
    <3> HIDE DEF places
    <3>1. \E x \in places : \A y \in places : ~(y < x)
      BY <2>1, LeastNat
    <3> QED
      BY <2>1, <3>1
  <2>3. Priority(text, c) \in places
    <3>1. Priority(text, c) = CHOOSE x \in places : \A y \in places : x <= y
      BY DEF Priority, Min
    <3> HIDE DEF places
    <3> QED
      BY <2>2, <3>1
  <2> QED
    BY <2>1, <2>3
<1>2. Ready(rest) # {} /\ Ready(rest) \subseteq Components(trades)
  BY SomeReady DEF Ready
<1>3. T \in SUBSET Nat /\ T # {}
  BY <1>1, <1>2
<1>4. \E c \in Ready(rest) : \A d \in Ready(rest) : Priority(text, c) <= Priority(text, d)
  <2>1. \E x \in T : \A y \in T : ~(y < x)
    <3> HIDE DEF T
    <3> QED
      BY <1>3, LeastNat
  <2>2. PICK c \in Ready(rest) : \A d \in Ready(rest) : ~(Priority(text, d) < Priority(text, c))
    BY <2>1
  <2> QED
    BY <1>1, <1>2, <2>2
<1> QED
  BY <1>4 DEF Popped

(* A run of the heap, of n components. *)
Pops(left, all, text, n) ==
  left = [i \in 0..n |-> IF i = 0 THEN all ELSE left[i - 1] \ {Popped(text, left[i - 1])}]

(* The run of the heap is defined. *)
LEMMA PopsExist ==
  ASSUME NEW all, NEW text, NEW n \in Nat
  PROVE  \E left : Pops(left, all, text, n)
<1> DEFINE T == {m \in Nat : \E f : Pops(f, all, text, m)}
<1>1. 0 \in T
  <2>1. Pops([i \in 0..0 |-> all], all, text, 0)
    BY DEF Pops
  <2> QED
    BY <2>1
<1>2. ASSUME NEW m \in T PROVE m + 1 \in T
  <2>1. PICK f : Pops(f, all, text, m)
    OBVIOUS
  <2> DEFINE g == [i \in 0..(m + 1) |-> IF i = m + 1 THEN f[m] \ {Popped(text, f[m])} ELSE f[i]]
  <2>2. \A i \in 0..m : g[i] = f[i]
    OBVIOUS
  <2>3. \A i \in 0..(m + 1) : g[i] = IF i = 0 THEN all ELSE g[i - 1] \ {Popped(text, g[i - 1])}
    <3> SUFFICES ASSUME NEW i \in 0..(m + 1)
                 PROVE  g[i] = IF i = 0 THEN all ELSE g[i - 1] \ {Popped(text, g[i - 1])}
      OBVIOUS
    <3>1. CASE i = m + 1
      BY <2>2, <3>1
    <3>2. CASE i \in 0..m
      <4>1. f[i] = IF i = 0 THEN all ELSE f[i - 1] \ {Popped(text, f[i - 1])}
        BY <2>1, <3>2 DEF Pops
      <4> HIDE DEF g
      <4> QED
        <5>1. i # 0 => i - 1 \in 0..m
          BY <3>2
        <5> QED
          BY <2>2, <3>2, <4>1, <5>1
    <3> QED
      BY <3>1, <3>2
  <2>4. Pops(g, all, text, m + 1)
    BY <2>3 DEF Pops
  <2> QED
    BY <2>4
<1>3. T = Nat
  <2>1. T \in SUBSET Nat
    OBVIOUS
  <2> HIDE DEF T
  <2> QED
    BY <1>1, <1>2, <2>1, NatSetInduction
<1> QED
  BY <1>3

(* Left is one. *)
LEMMA LeftPops ==
  ASSUME NEW trades, NEW text, Cardinality(Components(trades)) \in Nat
  PROVE  Pops(Left(trades, text), Components(trades), text, Cardinality(Components(trades)))
<1> DEFINE N == Cardinality(Components(trades))
           f == CHOOSE left : left = [n \in 0..N |->
                  IF n = 0 THEN Components(trades) ELSE left[n - 1] \ {Popped(text, left[n - 1])}]
<1>1. \E left : left = [n \in 0..N |->
                  IF n = 0 THEN Components(trades) ELSE left[n - 1] \ {Popped(text, left[n - 1])}]
  <2>1. \E left : Pops(left, Components(trades), text, N)
    BY PopsExist
  <2> QED
    BY <2>1 DEF Pops
<1>2. f = [n \in 0..N |-> IF n = 0 THEN Components(trades) ELSE f[n - 1] \ {Popped(text, f[n - 1])}]
  BY <1>1
<1>3. Left(trades, text) = f
  BY DEF Left
<1> QED
  BY <1>2, <1>3 DEF Pops

(* The components of finitely many trades. *)
LEMMA FewComponents ==
  ASSUME NEW trades, IsFiniteSet(trades)
  PROVE  IsFiniteSet(Components(trades)) /\ Cardinality(Components(trades)) \in Nat
<1> DEFINE f == [t \in trades |-> OnCycleWith(trades, t)]
<1>1. f \in Surjection(trades, Components(trades))
  BY DEF Surjection, Components
<1>2. IsFiniteSet(Components(trades))
  BY <1>1, FS_Surjection
<1> QED
  BY <1>2, FS_CardinalityType

(* One component runs at a time, and none is left in the end. *)
LEMMA LeftCount ==
  ASSUME NEW trades, IsFiniteSet(trades), NEW text \in [trades -> Nat],
         NEW n \in 0..Cardinality(Components(trades))
  PROVE  /\ Left(trades, text)[n] \in SUBSET Components(trades)
         /\ IsFiniteSet(Left(trades, text)[n])
         /\ Cardinality(Left(trades, text)[n]) = Cardinality(Components(trades)) - n
<1> DEFINE N == Cardinality(Components(trades))
           left == Left(trades, text)
           T == {m \in Nat : m <= N => /\ left[m] \in SUBSET Components(trades)
                                       /\ IsFiniteSet(left[m])
                                       /\ Cardinality(left[m]) = N - m}
<1>1. N \in Nat /\ IsFiniteSet(Components(trades))
  BY FewComponents
<1>2. \A m \in 0..N : left[m] = IF m = 0 THEN Components(trades) ELSE left[m - 1] \ {Popped(text, left[m - 1])}
  <2> DEFINE all == Components(trades)
  <2>1. Pops(left, all, text, N)
    BY <1>1, LeftPops
  <2> HIDE DEF left, N, all
  <2>2. \A k \in 0..N : left[k] = IF k = 0 THEN all ELSE left[k - 1] \ {Popped(text, left[k - 1])}
    BY <2>1 DEF Pops
  <2> QED
    BY <2>2 DEF all
<1> HIDE DEF left, N
<1>3. 0 \in T
  <2>1. 0 \in 0..N /\ 0 <= N
    BY <1>1
  <2>2. left[0] = Components(trades)
    BY <1>2, <2>1
  <2>3. Cardinality(left[0]) = N - 0
    BY <1>1, <2>2 DEF N
  <2> QED
    BY <1>1, <2>2, <2>3
<1>4. ASSUME NEW m \in T PROVE m + 1 \in T
  <2> SUFFICES ASSUME m + 1 <= N
               PROVE  /\ left[m + 1] \in SUBSET Components(trades)
                      /\ IsFiniteSet(left[m + 1])
                      /\ Cardinality(left[m + 1]) = N - (m + 1)
    OBVIOUS
  <2>1. left[m] \in SUBSET Components(trades) /\ IsFiniteSet(left[m]) /\ Cardinality(left[m]) = N - m
    BY <1>1
  <2>2. left[m + 1] = left[m] \ {Popped(text, left[m])}
    <3>1. m + 1 \in 0..N /\ m + 1 # 0 /\ (m + 1) - 1 = m
      BY <1>1
    <3> QED
      BY <1>2, <3>1
  <2>3. left[m] # {}
    BY <1>1, <2>1, FS_EmptySet
  <2>4. Popped(text, left[m]) \in left[m]
    BY <2>1, <2>3, PoppedReady DEF Ready
  <2>5. /\ IsFiniteSet(left[m] \ {Popped(text, left[m])})
        /\ Cardinality(left[m] \ {Popped(text, left[m])}) = Cardinality(left[m]) - 1
    BY <2>1, <2>4, FS_RemoveElement
  <2> QED
    BY <1>1, <2>1, <2>2, <2>5
<1>5. T = Nat
  <2>1. T \in SUBSET Nat
    OBVIOUS
  <2> HIDE DEF T
  <2> QED
    BY <1>3, <1>4, <2>1, NatSetInduction
<1>6. n \in T /\ n <= N
  BY <1>1, <1>5 DEF N
<1> QED
  BY <1>6 DEF left, N

(* What has run does not come back. *)
LEMMA LeftShrinks ==
  ASSUME NEW trades, IsFiniteSet(trades), NEW text,
         NEW n \in 0..Cardinality(Components(trades)), NEW m \in 0..Cardinality(Components(trades)), n <= m
  PROVE  Left(trades, text)[m] \subseteq Left(trades, text)[n]
<1> DEFINE N == Cardinality(Components(trades))
           left == Left(trades, text)
           T == {k \in Nat : n + k <= N => left[n + k] \subseteq left[n]}
<1>1. N \in Nat
  BY FewComponents
<1>2. \A k \in 0..N : left[k] = IF k = 0 THEN Components(trades) ELSE left[k - 1] \ {Popped(text, left[k - 1])}
  <2> DEFINE all == Components(trades)
  <2>1. Pops(left, all, text, N)
    BY <1>1, LeftPops
  <2> HIDE DEF left, N, all
  <2>2. \A k \in 0..N : left[k] = IF k = 0 THEN all ELSE left[k - 1] \ {Popped(text, left[k - 1])}
    BY <2>1 DEF Pops
  <2> QED
    BY <2>2 DEF all
<1> HIDE DEF left, N
<1>3. 0 \in T
  BY <1>1
<1>4. ASSUME NEW k \in T PROVE k + 1 \in T
  <2> SUFFICES ASSUME n + (k + 1) <= N PROVE left[n + (k + 1)] \subseteq left[n]
    OBVIOUS
  <2>1. n + k \in 0..N /\ n + (k + 1) \in 0..N /\ (n + (k + 1)) - 1 = n + k /\ n + (k + 1) # 0
    BY <1>1
  <2>2. left[n + (k + 1)] \subseteq left[n + k]
    BY <1>2, <2>1
  <2>3. left[n + k] \subseteq left[n]
    BY <2>1
  <2> QED
    BY <2>2, <2>3
<1>5. T = Nat
  <2>1. T \in SUBSET Nat
    OBVIOUS
  <2> HIDE DEF T
  <2> QED
    BY <1>3, <1>4, <2>1, NatSetInduction
<1>6. m - n \in Nat /\ n + (m - n) = m /\ m <= N
  BY <1>1 DEF N
<1>7. left[m] \subseteq left[n]
  BY <1>5, <1>6
<1> QED
  BY <1>7 DEF left

(* Every component has its turn, when it waits for none of those left. *)
LEMMA EachHasItsTurn ==
  ASSUME NEW trades, IsFiniteSet(trades), NEW text \in [trades -> Nat], NEW c \in Components(trades)
  PROVE  \E n \in 0..Cardinality(Components(trades)) : c \in Ready(Left(trades, text)[n])
<1> DEFINE N == Cardinality(Components(trades))
           left == Left(trades, text)
           T == {m \in 0..N : c \notin left[m]}
<1>1. N \in Nat
  BY FewComponents
<1>2. \A m \in 0..N : left[m] = IF m = 0 THEN Components(trades) ELSE left[m - 1] \ {Popped(text, left[m - 1])}
  <2> DEFINE all == Components(trades)
  <2>1. Pops(left, all, text, N)
    BY <1>1, LeftPops
  <2> HIDE DEF left, N, all
  <2>2. \A k \in 0..N : left[k] = IF k = 0 THEN all ELSE left[k - 1] \ {Popped(text, left[k - 1])}
    BY <2>1 DEF Pops
  <2> QED
    BY <2>2 DEF all
<1>3. \A m \in 0..N : left[m] \in SUBSET Components(trades)
  BY LeftCount
<1>4. left[N] = {}
  <2>1. IsFiniteSet(left[N]) /\ Cardinality(left[N]) = N - N
    BY <1>1, LeftCount
  <2> QED
    BY <1>1, <2>1, FS_EmptySet
<1> HIDE DEF left, N
<1>5. PICK m \in T : \A k \in T : ~(k < m)
  <2>1. T \in SUBSET Nat /\ T # {}
    BY <1>1, <1>4
  <2> HIDE DEF T
  <2> QED
    BY <2>1, LeastNat
<1>6. m # 0 /\ m - 1 \in 0..N /\ m \in 0..N /\ c \notin left[m]
  <2>1. m \in 0..N /\ c \notin left[m]
    BY <1>5
  <2>2. 0 \in 0..N
    BY <1>1
  <2>3. m # 0
    BY <1>2, <2>1, <2>2
  <2> QED
    BY <1>1, <2>1, <2>3
<1>7. c \in left[m - 1]
  <2>1. m - 1 < m
    BY <1>1, <1>6
  <2> QED
    BY <1>5, <1>6, <2>1
<1>8. c = Popped(text, left[m - 1])
  BY <1>2, <1>6, <1>7
<1>9. c \in Ready(left[m - 1])
  BY <1>3, <1>6, <1>7, <1>8, PoppedReady
<1> QED
  BY <1>6, <1>9 DEF left, N

(* The trades left after n components have run. *)
Waiting(trades, text) == [n \in DOMAIN Left(trades, text) |-> UNION Left(trades, text)[n]]

Earlier(trades, text, t) == {u \in trades : RunsBefore(Waiting(trades, text), text, u, t)}

(* A trade waits as long as its component does. *)
LEMMA WaitsWith ==
  ASSUME NEW trades, IsFiniteSet(trades), NEW text \in [trades -> Nat]
  PROVE  /\ DOMAIN Waiting(trades, text) = 0..Cardinality(Components(trades))
         /\ \A n \in 0..Cardinality(Components(trades)) : \A t \in trades :
              t \in Waiting(trades, text)[n] <=> OnCycleWith(trades, t) \in Left(trades, text)[n]
<1> DEFINE N == Cardinality(Components(trades))
           left == Left(trades, text)
<1>1. N \in Nat
  BY FewComponents
<1>2. DOMAIN left = 0..N
  <2>1. Pops(left, Components(trades), text, N)
    BY <1>1, LeftPops
  <2> HIDE DEF left, N
  <2> QED
    BY <2>1 DEF Pops
<1>3. \A n \in 0..N : left[n] \in SUBSET Components(trades)
  BY LeftCount
<1>4. \A n \in 0..N : Waiting(trades, text)[n] = UNION left[n]
  BY <1>2 DEF Waiting
<1> HIDE DEF left
<1>5. ASSUME NEW n \in 0..N, NEW t \in trades
      PROVE  t \in UNION left[n] <=> OnCycleWith(trades, t) \in left[n]
  <2>1. t \in OnCycleWith(trades, t)
    BY OneComponent
  <2>2. \A c \in left[n] : t \in c => c = OnCycleWith(trades, t)
    BY <1>3, ComponentOf
  <2> QED
    BY <2>1, <2>2
<1> QED
  BY <1>2, <1>4, <1>5 DEF Waiting, left

(* What is earlier than a trade are others, of finitely many. *)
LEMMA EarlierOthers ==
  ASSUME NEW trades, IsFiniteSet(trades), NEW text \in [trades -> Nat], NEW t \in trades
  PROVE  /\ t \notin Earlier(trades, text, t)
         /\ IsFiniteSet(Earlier(trades, text, t)) /\ Cardinality(Earlier(trades, text, t)) \in Nat
         /\ Cardinality(Earlier(trades, text, t)) < Cardinality(trades)
         /\ TransferOrder(trades, text)[t] = 1 + Cardinality(Earlier(trades, text, t))
<1>1. ~(text[t] < text[t])
  <2>1. text[t] \in Nat
    OBVIOUS
  <2> QED
    BY <2>1
<1>2. t \notin Earlier(trades, text, t)
  BY <1>1 DEF Earlier, RunsBefore
<1>3. Earlier(trades, text, t) \in SUBSET trades /\ Earlier(trades, text, t) # trades
  BY <1>2 DEF Earlier
<1>4. /\ IsFiniteSet(Earlier(trades, text, t))
      /\ Cardinality(Earlier(trades, text, t)) <= Cardinality(trades)
      /\ Cardinality(trades) # Cardinality(Earlier(trades, text, t))
  BY <1>3, FS_Subset
<1>5. Cardinality(Earlier(trades, text, t)) \in Nat /\ Cardinality(trades) \in Nat
  BY <1>4, FS_CardinalityType
<1>6. TransferOrder(trades, text)[t] = 1 + Cardinality(Earlier(trades, text, t))
  BY DEF TransferOrder, Earlier, Waiting
<1> QED
  BY <1>2, <1>4, <1>5, <1>6

(* The positions are those of a list. *)
LEMMA Positions ==
  ASSUME NEW trades, IsFiniteSet(trades), NEW text \in [trades -> Nat], NEW t \in trades
  PROVE  /\ TransferOrder(trades, text)[t] \in 1..Cardinality(trades)
         /\ Cardinality(trades) \in Nat
BY EarlierOthers, FS_CardinalityType

(* A trade that gives what another takes comes first, unless they are on a cycle. *)
LEMMA GivenFirst ==
  ASSUME NEW trades, IsFiniteSet(trades), NEW text \in [trades -> Nat],
         NEW v \in trades, NEW u \in trades, Feeds(v, u), u \notin OnCycleWith(trades, v)
  PROVE  TransferOrder(trades, text)[v] < TransferOrder(trades, text)[u]
<1> DEFINE N == Cardinality(Components(trades))
           left == Left(trades, text)
           waiting == Waiting(trades, text)
           c == OnCycleWith(trades, u)
           d == OnCycleWith(trades, v)
<1>1. DOMAIN waiting = 0..N /\ \A n \in 0..N : \A t \in trades :
              t \in waiting[n] <=> OnCycleWith(trades, t) \in left[n]
  BY WaitsWith
<1>2. c \in Components(trades) /\ d \in Components(trades) /\ u \in c /\ v \in d /\ c # d
  BY OneComponent DEF Components
<1>3. PICK k \in 0..N : c \in Ready(left[k])
  BY <1>2, EachHasItsTurn
<1>4. c \in left[k] /\ d \notin left[k]
  BY <1>2, <1>3 DEF Ready
<1>5. u \in waiting[k] /\ v \notin waiting[k]
  BY <1>1, <1>4
<1>6. \A n \in 0..N : n <= k => left[k] \subseteq left[n]
  BY LeftShrinks
<1>7. \A n \in 0..N : k <= n => left[n] \subseteq left[k]
  BY LeftShrinks
<1>8. \A n \in 0..N : d \in left[n] => left[k] \subseteq left[n]
  <2> SUFFICES ASSUME NEW n \in 0..N, d \in left[n] PROVE left[k] \subseteq left[n]
    OBVIOUS
  <2>1. N \in Nat
    BY FewComponents
  <2>2. n <= k \/ k <= n
    BY <2>1
  <2> QED
    BY <1>4, <1>6, <1>7, <2>2
<1>9. \A w \in trades : RunsBefore(waiting, text, w, v) => RunsBefore(waiting, text, w, u)
  <2> SUFFICES ASSUME NEW w \in trades, RunsBefore(waiting, text, w, v)
               PROVE  \E n \in DOMAIN waiting : u \in waiting[n] /\ w \notin waiting[n]
    BY DEF RunsBefore
  <2>1. CASE \E n \in DOMAIN waiting : v \in waiting[n] /\ w \notin waiting[n]
    <3>1. PICK n \in 0..N : v \in waiting[n] /\ w \notin waiting[n]
      BY <1>1, <2>1
    <3>2. d \in left[n]
      BY <1>1, <3>1
    <3>3. u \in waiting[n]
      BY <1>1, <1>4, <1>8, <3>2
    <3> QED
      BY <1>1, <3>1, <3>3
  <2>2. CASE \A n \in DOMAIN waiting : w \in waiting[n] <=> v \in waiting[n]
    BY <1>1, <1>5, <2>2
  <2> QED
    BY <2>1, <2>2 DEF RunsBefore
<1>10. RunsBefore(waiting, text, v, u)
  BY <1>1, <1>5 DEF RunsBefore
<1>11. Earlier(trades, text, v) \in SUBSET Earlier(trades, text, u) /\ v \in Earlier(trades, text, u)
  BY <1>9, <1>10 DEF Earlier
<1>12. v \notin Earlier(trades, text, v) /\ IsFiniteSet(Earlier(trades, text, u))
  BY EarlierOthers
<1>13. /\ Cardinality(Earlier(trades, text, v)) <= Cardinality(Earlier(trades, text, u))
       /\ Cardinality(Earlier(trades, text, v)) # Cardinality(Earlier(trades, text, u))
  BY <1>11, <1>12, FS_Subset
<1>14. /\ Cardinality(Earlier(trades, text, v)) \in Nat /\ Cardinality(Earlier(trades, text, u)) \in Nat
       /\ TransferOrder(trades, text)[v] = 1 + Cardinality(Earlier(trades, text, v))
       /\ TransferOrder(trades, text)[u] = 1 + Cardinality(Earlier(trades, text, u))
  BY EarlierOthers
<1> QED
  BY <1>13, <1>14

-----------------------------------------------------------------------------
(* Certificates under way. *)

OneCert(K) == \A c, d \in K : SameCert(c, d) => c = d

Brings(r, d) == r.verb # "RemoveCertificate" /\ r.obj = d

TakesOff(r, c) ==
  \/ r.verb = "RemoveCertificate" /\ r.obj = c
  \/ r.verb = "ReplaceCertificate" /\ r.obj.listener = c.listener /\ r.old = c.fp

(* What a certificate request of a batch from K to L is about. *)
Certifies(K, L, r) ==
  \/ r.verb = "AddCertificate" /\ r.obj \in Unpaired(L, K)
  \/ r.verb = "RemoveCertificate" /\ r.obj \in Unpaired(K, L)
  \/ /\ r.verb = "ReplaceCertificate" /\ r.obj \in L \ K
     /\ \E c \in K \ L : /\ TakesOff(r, c)
                         /\ \/ SameCert(c, r.obj)
                            \/ c.names = r.obj.names /\ r.obj \in Unpaired(L, K) /\ c \in Unpaired(K, L)

(* Each certificate is brought and taken off once. *)
Once(K, W) ==
  /\ \A r, s \in W : \A d : Brings(r, d) /\ Brings(s, d) => r = s
  /\ \A r, s \in W : \A c \in K : TakesOff(r, c) /\ TakesOff(s, c) => r = s

CertBetween(K, L, W) ==
  /\ OneCert(K) /\ OneCert(L) /\ \A r \in W : Certifies(K, L, r)
  /\ Once(K, W)

(* Every certificate that differs is. *)
CertComplete(K, L, W) ==
  /\ \A d \in L \ K : \E r \in W : Brings(r, d)
  /\ \A c \in K \ L : \E r \in W : TakesOff(r, c)

(* The certificates held on the way, with the requests P to go. *)
CertsAt(K, L, P) ==
  {c \in K : c \in L \/ \E r \in P : TakesOff(r, c)} \cup {d \in L : d \in K \/ \A r \in P : ~Brings(r, d)}

(* To be under one listener and fingerprint is an equivalence. *)
LEMMA SameCertEq ==
  /\ \A c : SameCert(c, c)
  /\ \A c, d : SameCert(c, d) => SameCert(d, c)
  /\ \A c, d, e : SameCert(c, d) /\ SameCert(d, e) => SameCert(c, e)
BY DEF SameCert

(* A certificate that is added. *)
LEMMA AddCertificateGoesOn ==
  ASSUME NEW K, NEW L, NEW P, CertBetween(K, L, P), NEW r \in P, r.verb = "AddCertificate"
  PROVE  Loaded(CertsAt(K, L, P), r) = CertsAt(K, L, P \ {r})
<1> DEFINE H == CertsAt(K, L, P)
<1>1. r.obj \in L /\ \A c \in K : ~SameCert(c, r.obj)
  BY SameCertEq DEF CertBetween, Certifies, Unpaired
<1>2. r.obj \notin K
  BY <1>1, SameCertEq
<1>3. Brings(r, r.obj) /\ \A c : ~TakesOff(r, c)
  BY DEF Brings, TakesOff
<1>4. \A c \in H : ~SameCert(c, r.obj)
  BY <1>1, <1>2, <1>3 DEF CertsAt, CertBetween, OneCert
<1>5. Loaded(H, r) = H \cup {r.obj}
  <2>1. {c \in H : ~SameCert(c, r.obj)} = H
    BY <1>4
  <2> HIDE DEF H
  <2> QED
    BY <2>1 DEF Loaded
<1>6. \A d \in L : (\A s \in P \ {r} : ~Brings(s, d)) <=> (\A s \in P : ~Brings(s, d)) \/ d = r.obj
  <2> SUFFICES ASSUME NEW d \in L
               PROVE  (\A s \in P \ {r} : ~Brings(s, d)) <=> (\A s \in P : ~Brings(s, d)) \/ d = r.obj
    OBVIOUS
  <2>1. CASE d = r.obj
    BY <1>3, <2>1 DEF CertBetween, Once
  <2>2. CASE d # r.obj
    BY <2>2 DEF Brings
  <2> QED
    BY <2>1, <2>2
<1>7. CertsAt(K, L, P \ {r}) = H \cup {r.obj}
  BY <1>1, <1>3, <1>6 DEF CertsAt
<1> QED
  BY <1>5, <1>7

(* A certificate that is removed. *)
LEMMA RemoveCertificateGoesOn ==
  ASSUME NEW K, NEW L, NEW P, CertBetween(K, L, P), NEW r \in P, r.verb = "RemoveCertificate"
  PROVE  Loaded(CertsAt(K, L, P), r) = CertsAt(K, L, P \ {r})
<1> DEFINE H == CertsAt(K, L, P)
<1>1. r.obj \in K /\ \A d \in L : ~SameCert(d, r.obj)
  BY SameCertEq DEF CertBetween, Certifies, Unpaired
<1>2. r.obj \notin L
  BY <1>1, SameCertEq
<1>3. TakesOff(r, r.obj) /\ (\A c : TakesOff(r, c) => c = r.obj) /\ \A d : ~Brings(r, d)
  BY DEF Brings, TakesOff
<1>4. \A c \in H : SameCert(c, r.obj) <=> c = r.obj
  BY <1>1, SameCertEq DEF CertsAt, CertBetween, OneCert
<1>5. Loaded(H, r) = H \ {r.obj}
  <2>1. {c \in H : ~SameCert(c, r.obj)} = H \ {r.obj}
    BY <1>4
  <2> HIDE DEF H
  <2> QED
    BY <2>1 DEF Loaded
<1>6. \A c \in K : (\E s \in P \ {r} : TakesOff(s, c)) <=> (\E s \in P : TakesOff(s, c)) /\ c # r.obj
  <2> SUFFICES ASSUME NEW c \in K
               PROVE  (\E s \in P \ {r} : TakesOff(s, c)) <=> (\E s \in P : TakesOff(s, c)) /\ c # r.obj
    OBVIOUS
  <2>1. CASE c = r.obj
    BY <1>3, <2>1 DEF CertBetween, Once
  <2>2. CASE c # r.obj
    BY <1>3, <2>2
  <2> QED
    BY <2>1, <2>2
<1>7. CertsAt(K, L, P \ {r}) = H \ {r.obj}
  BY <1>1, <1>2, <1>3, <1>6 DEF CertsAt
<1> QED
  BY <1>5, <1>7

(* A certificate that takes the place of another, of its own fingerprint or not. *)
LEMMA ReplaceCertificateGoesOn ==
  ASSUME NEW K, NEW L, NEW P, CertBetween(K, L, P), NEW r \in P, r.verb = "ReplaceCertificate"
  PROVE  Loaded(CertsAt(K, L, P), r) = CertsAt(K, L, P \ {r})
<1> DEFINE H == CertsAt(K, L, P)
<1>1. PICK c \in K \ L : /\ TakesOff(r, c)
                         /\ \/ SameCert(c, r.obj)
                            \/ r.obj \in Unpaired(L, K) /\ c \in Unpaired(K, L)
  BY DEF CertBetween, Certifies
<1>2. r.obj \in L \ K /\ Brings(r, r.obj) /\ (\A d : Brings(r, d) => d = r.obj)
  BY DEF CertBetween, Certifies, Brings
<1>3. OneCert(K) /\ OneCert(L) /\ r.obj.listener = c.listener /\ r.old = c.fp
  BY <1>1 DEF CertBetween, TakesOff
<1>4. \A e \in K : TakesOff(r, e) <=> e = c
  BY <1>1, <1>3 DEF TakesOff, OneCert, SameCert
<1>5. r.obj \notin H /\ c \in H
  BY <1>1, <1>2 DEF CertsAt
<1>6. \A e \in H : SameCert(e, r.obj) \/ (e.listener = r.obj.listener /\ e.fp = r.old) <=> e = c
  <2>1. \A e \in K : (e.listener = r.obj.listener /\ e.fp = r.old) <=> e = c
    BY <1>3, <1>1 DEF OneCert, SameCert
  <2>2. \A e \in K : SameCert(e, r.obj) => e = c
    BY <1>1, <1>3, SameCertEq DEF OneCert, Unpaired
  <2>3. \A e \in L : SameCert(e, r.obj) => e = r.obj
    BY <1>2, <1>3 DEF OneCert
  <2>4. \A e \in L : (e.listener = r.obj.listener /\ e.fp = r.old) => SameCert(e, c)
    BY <1>3 DEF SameCert
  <2>5. \A e \in L : SameCert(e, c) => e = r.obj
    BY <1>1, <1>2, <1>3, SameCertEq DEF OneCert, Unpaired
  <2>6. \A e \in H : e \in K \/ (e \in L /\ e # r.obj)
    BY <1>5 DEF CertsAt
  <2> QED
    BY <2>1, <2>2, <2>3, <2>4, <2>5, <2>6
<1>7. Loaded(H, r) = (H \ {c}) \cup {r.obj}
  <2>1. {e \in {f \in H : ~SameCert(f, r.obj)} : ~(e.listener = r.obj.listener /\ e.fp = r.old)} = H \ {c}
    BY <1>6
  <2> HIDE DEF H
  <2> QED
    BY <2>1 DEF Loaded
<1>8. \A e \in K : (\E s \in P \ {r} : TakesOff(s, e)) <=> (\E s \in P : TakesOff(s, e)) /\ e # c
  <2> SUFFICES ASSUME NEW e \in K
               PROVE  (\E s \in P \ {r} : TakesOff(s, e)) <=> (\E s \in P : TakesOff(s, e)) /\ e # c
    OBVIOUS
  <2>1. CASE e = c
    BY <1>1, <2>1 DEF CertBetween, Once
  <2>2. CASE e # c
    BY <1>4, <2>2
  <2> QED
    BY <2>1, <2>2
<1>9. \A d \in L : (\A s \in P \ {r} : ~Brings(s, d)) <=> (\A s \in P : ~Brings(s, d)) \/ d = r.obj
  <2> SUFFICES ASSUME NEW d \in L
               PROVE  (\A s \in P \ {r} : ~Brings(s, d)) <=> (\A s \in P : ~Brings(s, d)) \/ d = r.obj
    OBVIOUS
  <2>1. CASE d = r.obj
    BY <1>2, <2>1 DEF CertBetween, Once
  <2>2. CASE d # r.obj
    BY <1>2, <2>2
  <2> QED
    BY <2>1, <2>2
<1>10. CertsAt(K, L, P \ {r}) = (H \ {c}) \cup {r.obj}
  BY <1>1, <1>2, <1>8, <1>9 DEF CertsAt
<1> QED
  BY <1>7, <1>10

(* Every certificate request leaves the next stage. *)
LEMMA CertificateGoesOn ==
  ASSUME NEW K, NEW L, NEW P, CertBetween(K, L, P), NEW r \in P
  PROVE  Loaded(CertsAt(K, L, P), r) = CertsAt(K, L, P \ {r})
<1>1. r.verb \in {"AddCertificate", "RemoveCertificate", "ReplaceCertificate"}
  BY DEF CertBetween, Certifies
<1> QED
  BY <1>1, AddCertificateGoesOn, RemoveCertificateGoesOn, ReplaceCertificateGoesOn

(* A part of a batch of certificates is one. *)
LEMMA CertBetweenLess ==
  ASSUME NEW K, NEW L, NEW W, CertBetween(K, L, W), NEW P \in SUBSET W
  PROVE  CertBetween(K, L, P)
BY DEF CertBetween, Once

(* A batch begins with what is held, and ends with what is wanted. *)
LEMMA CertEnds ==
  ASSUME NEW K, NEW L
  PROVE  /\ \A W : CertComplete(K, L, W) => CertsAt(K, L, W) = K
         /\ CertsAt(K, L, {}) = L
BY DEF CertComplete, CertsAt

-----------------------------------------------------------------------------
(* The certificate half of a batch. *)

(* keyed_certs leaves one certificate to a listener and fingerprint ... *)
LEMMA KeyedOnce ==
  ASSUME NEW certs
  PROVE  OneCert(KeyedCerts(certs))
<1> DEFINE group(c) == {d \in certs : SameCert(c, d)}
           keyed(c) == [listener |-> c.listener, fp |-> c.fp, names |-> UNION {d.names : d \in group(c)},
                        chain |-> Max({d.chain : d \in group(c)})]
<1>1. KeyedCerts(certs) = {keyed(c) : c \in certs}
  BY DEF KeyedCerts
<1>2. \A c, d \in certs : SameCert(c, d) => group(c) = group(d) /\ c.listener = d.listener /\ c.fp = d.fp
  BY DEF SameCert
<1>3. \A c, d \in certs : SameCert(c, d) => keyed(c) = keyed(d)
  BY <1>2
<1>4. \A c \in certs : keyed(c).listener = c.listener /\ keyed(c).fp = c.fp
  OBVIOUS
<1> HIDE DEF keyed
<1> QED
  BY <1>1, <1>3, <1>4 DEF OneCert, SameCert

(* ... with all of its names, and finitely many of finitely many. *)
LEMMA KeyedNames ==
  ASSUME NEW certs
  PROVE  /\ Names(KeyedCerts(certs)) = Names(certs)
         /\ IsFiniteSet(certs) => IsFiniteSet(KeyedCerts(certs))
<1> DEFINE group(c) == {d \in certs : SameCert(c, d)}
           keyed(c) == [listener |-> c.listener, fp |-> c.fp, names |-> UNION {d.names : d \in group(c)},
                        chain |-> Max({d.chain : d \in group(c)})]
<1>1. KeyedCerts(certs) = {keyed(c) : c \in certs}
  BY DEF KeyedCerts
<1>2. \A c \in certs : keyed(c).listener = c.listener /\ keyed(c).names = UNION {d.names : d \in group(c)}
  OBVIOUS
<1>3. \A c \in certs : \A d \in group(c) : d \in certs /\ d.listener = c.listener
  BY DEF SameCert
<1>4. \A c \in certs : c \in group(c)
  BY DEF SameCert
<1> HIDE DEF keyed, group
<1>5. ASSUME NEW c \in certs, NEW name
      PROVE  /\ name \in c.names => name \in keyed(c).names
             /\ name \in keyed(c).names => \E d \in certs : d.listener = c.listener /\ name \in d.names
  BY <1>2, <1>3, <1>4
<1>6. Names(KeyedCerts(certs)) \subseteq Names(certs)
  <2> SUFFICES ASSUME NEW c \in certs, NEW name \in keyed(c).names
               PROVE  <<keyed(c).listener, name>> \in Names(certs)
    BY <1>1 DEF Names
  <2>1. PICK d \in certs : d.listener = c.listener /\ name \in d.names
    BY <1>5
  <2> QED
    BY <1>2, <2>1 DEF Names
<1>7. Names(certs) \subseteq Names(KeyedCerts(certs))
  <2> SUFFICES ASSUME NEW c \in certs, NEW name \in c.names
               PROVE  <<c.listener, name>> \in Names(KeyedCerts(certs))
    BY DEF Names
  <2>1. keyed(c) \in KeyedCerts(certs) /\ name \in keyed(c).names /\ keyed(c).listener = c.listener
    BY <1>1, <1>2, <1>5
  <2> QED
    BY <2>1 DEF Names
<1>8. ASSUME IsFiniteSet(certs) PROVE IsFiniteSet(KeyedCerts(certs))
  <2> DEFINE f == [c \in certs |-> keyed(c)]
  <2>1. f \in Surjection(certs, KeyedCerts(certs))
    BY <1>1 DEF Surjection
  <2> QED
    BY <1>8, <2>1, FS_Surjection
<1> QED
  BY <1>6, <1>7, <1>8

(* An update is about a certificate held and wanted. *)
LEMMA UpdateOf ==
  ASSUME NEW from, NEW to, NEW u \in Updates(from, to)
  PROVE  \E c \in KeyedCerts(from) : /\ u.cert \in KeyedCerts(to) /\ SameCert(c, u.cert) /\ c # u.cert
                                     /\ u = [cert |-> u.cert, gives |-> u.cert.names \ c.names,
                                             takes |-> c.names \ u.cert.names]
<1>1. PICK p \in KeyedCerts(from) \X KeyedCerts(to) :
        /\ SameCert(p[1], p[2]) /\ p[1] # p[2]
        /\ u = [cert |-> p[2], gives |-> p[2].names \ p[1].names, takes |-> p[1].names \ p[2].names]
  BY DEF Updates
<1>2. p[1] \in KeyedCerts(from) /\ p[2] \in KeyedCerts(to) /\ u.cert = p[2]
  BY <1>1
<1> QED
  BY <1>1, <1>2

(* A certificate held and wanted, but not the same, has an update. *)
LEMMA UpdateMade ==
  ASSUME NEW from, NEW to, NEW c \in KeyedCerts(from), NEW d \in KeyedCerts(to), SameCert(c, d), c # d
  PROVE  \E u \in Updates(from, to) : u.cert = d
<1> DEFINE p == <<c, d>>
           u == [cert |-> p[2], gives |-> p[2].names \ p[1].names, takes |-> p[1].names \ p[2].names]
<1>1. p \in {q \in KeyedCerts(from) \X KeyedCerts(to) : SameCert(q[1], q[2]) /\ q[1] # q[2]}
  OBVIOUS
<1>2. u \in Updates(from, to)
  BY <1>1 DEF Updates
<1> QED
  BY <1>2

(* One update to a certificate, and finitely many. *)
LEMMA UpdatesApart ==
  ASSUME NEW from, NEW to
  PROVE  /\ \A u, v \in Updates(from, to) : u.cert = v.cert => u = v
         /\ IsFiniteSet(KeyedCerts(to)) => IsFiniteSet(Trades(from, to))
<1>1. \A u, v \in Updates(from, to) : u.cert = v.cert => u = v
  <2> SUFFICES ASSUME NEW u \in Updates(from, to), NEW v \in Updates(from, to), u.cert = v.cert
               PROVE  u = v
    OBVIOUS
  <2>1. PICK c \in KeyedCerts(from) : SameCert(c, u.cert)
          /\ u = [cert |-> u.cert, gives |-> u.cert.names \ c.names, takes |-> c.names \ u.cert.names]
    BY UpdateOf
  <2>2. PICK d \in KeyedCerts(from) : SameCert(d, v.cert)
          /\ v = [cert |-> v.cert, gives |-> v.cert.names \ d.names, takes |-> d.names \ v.cert.names]
    BY UpdateOf
  <2>3. c = d
    BY <2>1, <2>2, KeyedOnce, SameCertEq DEF OneCert
  <2> QED
    BY <2>1, <2>2, <2>3
<1>2. ASSUME IsFiniteSet(KeyedCerts(to)) PROVE IsFiniteSet(Trades(from, to))
  <2> DEFINE f == [u \in Trades(from, to) |-> u.cert]
  <2>1. f \in Injection(Trades(from, to), KeyedCerts(to))
    BY <1>1, UpdateOf DEF Injection, IsInjective, Trades
  <2> QED
    BY <1>2, <2>1, FS_Injection
<1> QED
  BY <1>1, <1>2

(* The pairs of a rotation. *)
LEMMA RotationOf ==
  ASSUME NEW added, NEW removed, NEW M \in Rotations(added, removed)
  PROVE  /\ \A p \in M : /\ p[1] \in added /\ p[2] \in removed
                         /\ p[1].listener = p[2].listener /\ p[1].names = p[2].names
         /\ \A p, q \in M : p[1] = q[1] \/ p[2] = q[2] => p = q
BY DEF Rotations

(* The certificate half for one order of the texts and one pairing. *)
CertHalf(from, to, text, M) ==
  InPlace(Updates(from, to), Trades(from, to), TransferOrder(Trades(from, to), text))
  \cup ComeAndGo(Unpaired(KeyedCerts(to), KeyedCerts(from)), Unpaired(KeyedCerts(from), KeyedCerts(to)), M,
                 Cardinality(Trades(from, to)) + 1)

(* Every certificate half is that of some order of the texts and some pairing. *)
LEMMA HalfOf ==
  ASSUME NEW from, NEW to, NEW certs \in CertificateBatches(from, to)
  PROVE  \E text \in Bijection(Trades(from, to), 1..Cardinality(Trades(from, to))) :
           \E M \in Rotations(Unpaired(KeyedCerts(to), KeyedCerts(from)),
                              Unpaired(KeyedCerts(from), KeyedCerts(to))) :
             certs = CertHalf(from, to, text, M)
BY DEF CertificateBatches, CertHalf

(* The four kinds of request in it. *)
IsUpdate(from, to, text, a) ==
  \E u \in Updates(from, to) :
    a = At(CertRank(Trades(from, to), TransferOrder(Trades(from, to), text), u), Replace(u.cert, u.cert.fp))

IsRotation(M, a) == \E p \in M : a = At(0, Replace(p[1], p[2].fp))

IsAddition(from, to, M, a) ==
  \E c \in Unpaired(KeyedCerts(to), KeyedCerts(from)) :
    (\A p \in M : p[1] # c) /\ a = At(0, Request("AddCertificate", c))

IsRemoval(from, to, M, a) ==
  \E c \in Unpaired(KeyedCerts(from), KeyedCerts(to)) :
    /\ \A p \in M : p[2] # c
    /\ a = At(Cardinality(Trades(from, to)) + 1, Request("RemoveCertificate", c))

(* A request of the half is of one of the four kinds. *)
LEMMA InHalf ==
  ASSUME NEW from, NEW to, NEW text, NEW M, NEW a
  PROVE  a \in CertHalf(from, to, text, M) <=>
           \/ IsUpdate(from, to, text, a) \/ IsRotation(M, a)
           \/ IsAddition(from, to, M, a) \/ IsRemoval(from, to, M, a)
<1> DEFINE added == Unpaired(KeyedCerts(to), KeyedCerts(from))
           removed == Unpaired(KeyedCerts(from), KeyedCerts(to))
           last == Cardinality(Trades(from, to)) + 1
<1>1. a \in InPlace(Updates(from, to), Trades(from, to), TransferOrder(Trades(from, to), text))
        <=> IsUpdate(from, to, text, a)
  BY DEF InPlace, IsUpdate
<1>2. a \in {At(0, Replace(p[1], p[2].fp)) : p \in M} <=> IsRotation(M, a)
  BY DEF IsRotation
<1>3. a \in {At(0, Request("AddCertificate", c)) : c \in added \ {p[1] : p \in M}}
        <=> IsAddition(from, to, M, a)
  BY DEF IsAddition
<1>4. a \in {At(last, Request("RemoveCertificate", c)) : c \in removed \ {p[2] : p \in M}}
        <=> IsRemoval(from, to, M, a)
  BY DEF IsRemoval
<1> HIDE DEF added, removed, last
<1>5. a \in ComeAndGo(added, removed, M, last) <=>
        IsRotation(M, a) \/ IsAddition(from, to, M, a) \/ IsRemoval(from, to, M, a)
  BY <1>2, <1>3, <1>4 DEF ComeAndGo
<1> QED
  BY <1>1, <1>5 DEF CertHalf, added, removed, last

(* The fields of certificate requests in their place. *)
LEMMA CertFields ==
  ASSUME NEW k, NEW cert, NEW old
  PROVE  /\ Replace(cert, old).verb = "ReplaceCertificate" /\ Replace(cert, old).obj = cert
         /\ Replace(cert, old).old = old
         /\ Request("AddCertificate", cert).verb = "AddCertificate"
         /\ Request("AddCertificate", cert).obj = cert
         /\ Request("RemoveCertificate", cert).verb = "RemoveCertificate"
         /\ Request("RemoveCertificate", cert).obj = cert
         /\ \A r : At(k, r).req = r /\ At(k, r).rank = k /\ At(k, r).tier = Tier(r.verb)
BY DEF Replace, Request, At

(* What each kind of request is about. *)
LEMMA KindOfRequest ==
  ASSUME NEW from, NEW to, NEW text,
         NEW M \in Rotations(Unpaired(KeyedCerts(to), KeyedCerts(from)),
                             Unpaired(KeyedCerts(from), KeyedCerts(to))),
         NEW a
  PROVE  /\ IsUpdate(from, to, text, a) =>
              \E u \in Updates(from, to) : \E c \in KeyedCerts(from) :
                /\ a.req = Replace(u.cert, u.cert.fp) /\ u.cert \in KeyedCerts(to)
                /\ SameCert(c, u.cert) /\ c # u.cert /\ c \notin KeyedCerts(to) /\ u.cert \notin KeyedCerts(from)
                /\ TakesOff(a.req, c)
         /\ IsRotation(M, a) =>
              \E p \in M : /\ a.req = Replace(p[1], p[2].fp)
                           /\ p[1] \in Unpaired(KeyedCerts(to), KeyedCerts(from))
                           /\ p[2] \in Unpaired(KeyedCerts(from), KeyedCerts(to))
                           /\ p[1].names = p[2].names /\ TakesOff(a.req, p[2])
<1> DEFINE K == KeyedCerts(from)
           L == KeyedCerts(to)
<1>1. ASSUME IsUpdate(from, to, text, a)
      PROVE  \E u \in Updates(from, to) : \E c \in K :
                /\ a.req = Replace(u.cert, u.cert.fp) /\ u.cert \in L
                /\ SameCert(c, u.cert) /\ c # u.cert /\ c \notin L /\ u.cert \notin K
                /\ TakesOff(a.req, c)
  <2>1. PICK u \in Updates(from, to) : a.req = Replace(u.cert, u.cert.fp)
    BY <1>1, CertFields DEF IsUpdate
  <2>2. PICK c \in K : u.cert \in L /\ SameCert(c, u.cert) /\ c # u.cert
    BY UpdateOf
  <2>3. c \notin L /\ u.cert \notin K
    BY <2>2, KeyedOnce DEF OneCert
  <2>4. TakesOff(a.req, c)
    BY <2>1, <2>2, CertFields DEF TakesOff, SameCert
  <2> QED
    BY <2>1, <2>2, <2>3, <2>4
<1>2. ASSUME IsRotation(M, a)
      PROVE  \E p \in M : /\ a.req = Replace(p[1], p[2].fp)
                          /\ p[1] \in Unpaired(L, K) /\ p[2] \in Unpaired(K, L)
                          /\ p[1].names = p[2].names /\ TakesOff(a.req, p[2])
  <2>1. PICK p \in M : a.req = Replace(p[1], p[2].fp)
    BY <1>2, CertFields DEF IsRotation
  <2>2. p[1] \in Unpaired(L, K) /\ p[2] \in Unpaired(K, L) /\ p[1].listener = p[2].listener
        /\ p[1].names = p[2].names
    BY RotationOf
  <2>3. TakesOff(a.req, p[2])
    BY <2>1, <2>2, CertFields DEF TakesOff
  <2> QED
    BY <2>1, <2>2, <2>3
<1> QED
  BY <1>1, <1>2

(* What is only added, or only removed, is in no pair. *)
LEMMA KindOfOther ==
  ASSUME NEW from, NEW to, NEW M, NEW a
  PROVE  /\ IsAddition(from, to, M, a) =>
              \E c \in Unpaired(KeyedCerts(to), KeyedCerts(from)) :
                (\A p \in M : p[1] # c) /\ a.req = Request("AddCertificate", c)
         /\ IsRemoval(from, to, M, a) =>
              \E c \in Unpaired(KeyedCerts(from), KeyedCerts(to)) :
                (\A p \in M : p[2] # c) /\ a.req = Request("RemoveCertificate", c)
BY CertFields DEF IsAddition, IsRemoval

(* A certificate request is about a certificate that differs. *)
LEMMA HalfCertifies ==
  ASSUME NEW from, NEW to, NEW text,
         NEW M \in Rotations(Unpaired(KeyedCerts(to), KeyedCerts(from)),
                             Unpaired(KeyedCerts(from), KeyedCerts(to))),
         NEW a \in CertHalf(from, to, text, M)
  PROVE  Certifies(KeyedCerts(from), KeyedCerts(to), a.req)
<1> DEFINE K == KeyedCerts(from)
           L == KeyedCerts(to)
<1>1. CASE IsUpdate(from, to, text, a)
  <2>1. PICK u \in Updates(from, to) : \E c \in K :
                /\ a.req = Replace(u.cert, u.cert.fp) /\ u.cert \in L
                /\ SameCert(c, u.cert) /\ c # u.cert /\ c \notin L /\ u.cert \notin K
                /\ TakesOff(a.req, c)
    BY <1>1, KindOfRequest
  <2> QED
    BY <2>1, CertFields DEF Certifies
<1>2. CASE IsRotation(M, a)
  <2>1. PICK p \in M : /\ a.req = Replace(p[1], p[2].fp)
                       /\ p[1] \in Unpaired(L, K) /\ p[2] \in Unpaired(K, L)
                       /\ p[1].names = p[2].names /\ TakesOff(a.req, p[2])
    BY <1>2, KindOfRequest
  <2>2. p[1] \in L \ K /\ p[2] \in K \ L
    BY <2>1, SameCertEq DEF Unpaired
  <2> QED
    BY <2>1, <2>2, CertFields DEF Certifies
<1>3. CASE IsAddition(from, to, M, a)
  BY <1>3, KindOfOther, CertFields DEF Certifies
<1>4. CASE IsRemoval(from, to, M, a)
  BY <1>4, KindOfOther, CertFields DEF Certifies
<1> QED
  BY <1>1, <1>2, <1>3, <1>4, InHalf

(* Each certificate that differs has its request. *)
LEMMA HalfComplete ==
  ASSUME NEW from, NEW to, NEW text,
         NEW M \in Rotations(Unpaired(KeyedCerts(to), KeyedCerts(from)),
                             Unpaired(KeyedCerts(from), KeyedCerts(to)))
  PROVE  CertComplete(KeyedCerts(from), KeyedCerts(to), {a.req : a \in CertHalf(from, to, text, M)})
<1> DEFINE K == KeyedCerts(from)
           L == KeyedCerts(to)
           half == CertHalf(from, to, text, M)
<1>1. ASSUME NEW c \in K, NEW d \in L, SameCert(c, d), c # d
      PROVE  \E a \in half : Brings(a.req, d) /\ TakesOff(a.req, c)
  <2>1. PICK u \in Updates(from, to) : u.cert = d
    BY <1>1, UpdateMade
  <2> DEFINE a == At(CertRank(Trades(from, to), TransferOrder(Trades(from, to), text), u),
                     Replace(u.cert, u.cert.fp))
  <2>2. a \in half
    BY InHalf DEF IsUpdate
  <2>3. a.req = Replace(d, d.fp)
    BY <2>1, CertFields
  <2> HIDE DEF a
  <2>4. Brings(a.req, d) /\ TakesOff(a.req, c)
    BY <1>1, <2>3, CertFields DEF Brings, TakesOff, SameCert
  <2> QED
    BY <2>2, <2>4
<1>2. ASSUME NEW p \in M
      PROVE  \E a \in half : Brings(a.req, p[1]) /\ TakesOff(a.req, p[2])
  <2> DEFINE a == At(0, Replace(p[1], p[2].fp))
  <2>1. a \in half
    BY InHalf DEF IsRotation
  <2>2. a.req = Replace(p[1], p[2].fp) /\ p[1].listener = p[2].listener
    BY CertFields, RotationOf
  <2> HIDE DEF a
  <2>3. Brings(a.req, p[1]) /\ TakesOff(a.req, p[2])
    BY <2>2, CertFields DEF Brings, TakesOff
  <2> QED
    BY <2>1, <2>3
<1>3. ASSUME NEW d \in Unpaired(L, K), \A p \in M : p[1] # d
      PROVE  \E a \in half : Brings(a.req, d)
  <2> DEFINE a == At(0, Request("AddCertificate", d))
  <2>1. a \in half
    BY <1>3, InHalf DEF IsAddition
  <2>2. Brings(a.req, d)
    BY CertFields DEF Brings
  <2> QED
    BY <2>1, <2>2
<1>4. ASSUME NEW c \in Unpaired(K, L), \A p \in M : p[2] # c
      PROVE  \E a \in half : TakesOff(a.req, c)
  <2> DEFINE a == At(Cardinality(Trades(from, to)) + 1, Request("RemoveCertificate", c))
  <2>1. a \in half
    BY <1>4, InHalf DEF IsRemoval
  <2>2. TakesOff(a.req, c)
    BY CertFields DEF TakesOff
  <2> QED
    BY <2>1, <2>2
<1> HIDE DEF half
<1>5. \A d \in L \ K : \E a \in half : Brings(a.req, d)
  <2> SUFFICES ASSUME NEW d \in L \ K PROVE \E a \in half : Brings(a.req, d)
    OBVIOUS
  <2>1. CASE d \in Unpaired(L, K)
    BY <1>2, <1>3, <2>1
  <2>2. CASE d \notin Unpaired(L, K)
    <3>1. PICK c \in K : SameCert(c, d) /\ c # d
      BY <2>2, SameCertEq DEF Unpaired
    <3> QED
      BY <1>1, <3>1
  <2> QED
    BY <2>1, <2>2
<1>6. \A c \in K \ L : \E a \in half : TakesOff(a.req, c)
  <2> SUFFICES ASSUME NEW c \in K \ L PROVE \E a \in half : TakesOff(a.req, c)
    OBVIOUS
  <2>1. CASE c \in Unpaired(K, L)
    BY <1>2, <1>4, <2>1
  <2>2. CASE c \notin Unpaired(K, L)
    <3>1. PICK d \in L : SameCert(c, d) /\ c # d
      BY <2>2 DEF Unpaired
    <3> QED
      BY <1>1, <3>1
  <2> QED
    BY <2>1, <2>2
<1> QED
  BY <1>5, <1>6 DEF CertComplete, half

(* The place of an update. *)
UpdateAt(from, to, text, u) ==
  At(CertRank(Trades(from, to), TransferOrder(Trades(from, to), text), u), Replace(u.cert, u.cert.fp))

(* What brings a certificate follows from the certificate. *)
LEMMA BroughtBy ==
  ASSUME NEW from, NEW to, NEW text,
         NEW M \in Rotations(Unpaired(KeyedCerts(to), KeyedCerts(from)),
                             Unpaired(KeyedCerts(from), KeyedCerts(to))),
         NEW a \in CertHalf(from, to, text, M), NEW d, Brings(a.req, d)
  PROVE  \/ /\ d \notin Unpaired(KeyedCerts(to), KeyedCerts(from))
            /\ \E u \in Updates(from, to) : u.cert = d /\ a = UpdateAt(from, to, text, u)
         \/ /\ d \in Unpaired(KeyedCerts(to), KeyedCerts(from))
            /\ \E p \in M : p[1] = d /\ a = At(0, Replace(p[1], p[2].fp))
         \/ /\ d \in Unpaired(KeyedCerts(to), KeyedCerts(from))
            /\ (\A p \in M : p[1] # d) /\ a = At(0, Request("AddCertificate", d))
<1> DEFINE K == KeyedCerts(from)
           L == KeyedCerts(to)
<1>0. a.req.verb # "RemoveCertificate" /\ a.req.obj = d
  BY DEF Brings
<1>1. CASE IsUpdate(from, to, text, a)
  <2>1. PICK u \in Updates(from, to) : a = UpdateAt(from, to, text, u)
    BY <1>1 DEF IsUpdate, UpdateAt
  <2>2. u.cert = d
    BY <1>0, <2>1, CertFields DEF UpdateAt
  <2>3. PICK c \in K : u.cert \in L /\ SameCert(c, u.cert)
    BY UpdateOf
  <2>4. d \notin Unpaired(L, K)
    BY <2>2, <2>3, SameCertEq DEF Unpaired
  <2> QED
    BY <2>1, <2>2, <2>4
<1>2. CASE IsRotation(M, a)
  <2>1. PICK p \in M : a = At(0, Replace(p[1], p[2].fp))
    BY <1>2 DEF IsRotation
  <2>2. p[1] = d /\ p[1] \in Unpaired(L, K)
    BY <1>0, <2>1, CertFields, RotationOf
  <2> QED
    BY <2>1, <2>2
<1>3. CASE IsAddition(from, to, M, a)
  BY <1>0, <1>3, CertFields DEF IsAddition
<1>4. CASE IsRemoval(from, to, M, a)
  <2>1. PICK c : a = At(Cardinality(Trades(from, to)) + 1, Request("RemoveCertificate", c))
    BY <1>4 DEF IsRemoval
  <2>2. a.req.verb = "RemoveCertificate"
    BY <2>1, CertFields
  <2> QED
    BY <1>0, <2>2
<1> QED
  BY <1>1, <1>2, <1>3, <1>4, InHalf

(* And so does what takes it off. *)
LEMMA TakenOffBy ==
  ASSUME NEW from, NEW to, NEW text,
         NEW M \in Rotations(Unpaired(KeyedCerts(to), KeyedCerts(from)),
                             Unpaired(KeyedCerts(from), KeyedCerts(to))),
         NEW a \in CertHalf(from, to, text, M), NEW c \in KeyedCerts(from), TakesOff(a.req, c)
  PROVE  \/ /\ c \notin Unpaired(KeyedCerts(from), KeyedCerts(to))
            /\ \E u \in Updates(from, to) : SameCert(c, u.cert) /\ a = UpdateAt(from, to, text, u)
         \/ /\ c \in Unpaired(KeyedCerts(from), KeyedCerts(to))
            /\ \E p \in M : p[2] = c /\ a = At(0, Replace(p[1], p[2].fp))
         \/ /\ c \in Unpaired(KeyedCerts(from), KeyedCerts(to))
            /\ \A p \in M : p[2] # c
            /\ a = At(Cardinality(Trades(from, to)) + 1, Request("RemoveCertificate", c))
<1> DEFINE K == KeyedCerts(from)
           L == KeyedCerts(to)
<1>1. CASE IsUpdate(from, to, text, a)
  <2>1. PICK u \in Updates(from, to) : a = UpdateAt(from, to, text, u)
    BY <1>1 DEF IsUpdate, UpdateAt
  <2>2. a.req = Replace(u.cert, u.cert.fp)
    BY <2>1, CertFields DEF UpdateAt
  <2>3. SameCert(c, u.cert)
    BY <2>2, CertFields DEF TakesOff, SameCert
  <2>4. u.cert \in L
    BY UpdateOf
  <2>5. c \notin Unpaired(K, L)
    BY <2>3, <2>4 DEF Unpaired
  <2> QED
    BY <2>1, <2>3, <2>5
<1>2. CASE IsRotation(M, a)
  <2>1. PICK p \in M : a = At(0, Replace(p[1], p[2].fp))
    BY <1>2 DEF IsRotation
  <2>2. p[2] \in Unpaired(K, L) /\ p[1].listener = p[2].listener
    BY RotationOf
  <2>3. a.req = Replace(p[1], p[2].fp)
    BY <2>1, CertFields
  <2>4. SameCert(p[2], c)
    BY <2>2, <2>3, CertFields DEF TakesOff, SameCert
  <2>5. p[2] = c
    BY <2>2, <2>4, KeyedOnce DEF Unpaired, OneCert
  <2> QED
    BY <2>1, <2>2, <2>5
<1>3. CASE IsAddition(from, to, M, a)
  <2>1. a.req.verb = "AddCertificate"
    BY <1>3, CertFields DEF IsAddition
  <2> QED
    BY <2>1 DEF TakesOff
<1>4. CASE IsRemoval(from, to, M, a)
  <2>1. PICK e \in Unpaired(K, L) :
          /\ \A p \in M : p[2] # e
          /\ a = At(Cardinality(Trades(from, to)) + 1, Request("RemoveCertificate", e))
    BY <1>4 DEF IsRemoval
  <2>2. a.req.verb = "RemoveCertificate" /\ a.req.obj = e
    BY <2>1, CertFields
  <2>3. e = c
    BY <2>2 DEF TakesOff
  <2> QED
    BY <2>1, <2>3
<1> QED
  BY <1>1, <1>2, <1>3, <1>4, InHalf

(* Requests that bring or take off one certificate are one request, in one place. *)
LEMMA HalfApart ==
  ASSUME NEW from, NEW to, NEW text,
         NEW M \in Rotations(Unpaired(KeyedCerts(to), KeyedCerts(from)),
                             Unpaired(KeyedCerts(from), KeyedCerts(to))),
         NEW a \in CertHalf(from, to, text, M), NEW b \in CertHalf(from, to, text, M)
  PROVE  /\ \A d : Brings(a.req, d) /\ Brings(b.req, d) => a = b
         /\ \A c \in KeyedCerts(from) : TakesOff(a.req, c) /\ TakesOff(b.req, c) => a = b
<1>1. ASSUME NEW d, Brings(a.req, d), Brings(b.req, d) PROVE a = b
  <2> DEFINE lone == d \in Unpaired(KeyedCerts(to), KeyedCerts(from))
             upd(x) == ~lone /\ \E u \in Updates(from, to) : u.cert = d /\ x = UpdateAt(from, to, text, u)
             rot(x) == lone /\ \E p \in M : p[1] = d /\ x = At(0, Replace(p[1], p[2].fp))
             add(x) == lone /\ (\A p \in M : p[1] # d) /\ x = At(0, Request("AddCertificate", d))
  <2>1. upd(a) \/ rot(a) \/ add(a)
    BY <1>1, BroughtBy
  <2>2. upd(b) \/ rot(b) \/ add(b)
    BY <1>1, BroughtBy
  <2>3. upd(a) /\ upd(b) => a = b
    BY UpdatesApart
  <2>4. rot(a) /\ rot(b) => a = b
    BY RotationOf
  <2> QED
    BY <2>1, <2>2, <2>3, <2>4
<1>2. ASSUME NEW c \in KeyedCerts(from), TakesOff(a.req, c), TakesOff(b.req, c) PROVE a = b
  <2> DEFINE lone == c \in Unpaired(KeyedCerts(from), KeyedCerts(to))
             upd(x) == ~lone /\ \E u \in Updates(from, to) : SameCert(c, u.cert) /\ x = UpdateAt(from, to, text, u)
             rot(x) == lone /\ \E p \in M : p[2] = c /\ x = At(0, Replace(p[1], p[2].fp))
             rem(x) == /\ lone /\ \A p \in M : p[2] # c
                       /\ x = At(Cardinality(Trades(from, to)) + 1, Request("RemoveCertificate", c))
  <2>1. upd(a) \/ rot(a) \/ rem(a)
    BY <1>2, TakenOffBy
  <2>2. upd(b) \/ rot(b) \/ rem(b)
    BY <1>2, TakenOffBy
  <2>3. upd(a) /\ upd(b) => a = b
    <3>1. \A u, v \in Updates(from, to) : SameCert(c, u.cert) /\ SameCert(c, v.cert) => u = v
      BY UpdateOf, UpdatesApart, KeyedOnce, SameCertEq DEF OneCert
    <3> QED
      BY <3>1
  <2>4. rot(a) /\ rot(b) => a = b
    BY RotationOf
  <2> QED
    BY <2>1, <2>2, <2>3, <2>4
<1> QED
  BY <1>1, <1>2

(* The certificate half is a batch between the certificates held and wanted. *)
LEMMA HalfBetween ==
  ASSUME NEW from, NEW to, NEW certs \in CertificateBatches(from, to)
  PROVE  /\ CertBetween(KeyedCerts(from), KeyedCerts(to), {a.req : a \in certs})
         /\ CertComplete(KeyedCerts(from), KeyedCerts(to), {a.req : a \in certs})
         /\ \A a, b \in certs : a.req = b.req => a = b
<1> DEFINE K == KeyedCerts(from)
           L == KeyedCerts(to)
<1>0. PICK text : \E M \in Rotations(Unpaired(L, K), Unpaired(K, L)) : certs = CertHalf(from, to, text, M)
  BY HalfOf
<1>1. PICK M \in Rotations(Unpaired(L, K), Unpaired(K, L)) : certs = CertHalf(from, to, text, M)
  BY <1>0
<1>2. \A a \in certs : Certifies(K, L, a.req)
  BY <1>1, HalfCertifies
<1>3. \A a, b \in certs : /\ \A d : Brings(a.req, d) /\ Brings(b.req, d) => a = b
                          /\ \A c \in K : TakesOff(a.req, c) /\ TakesOff(b.req, c) => a = b
  BY <1>1, HalfApart
<1>4. \A a \in certs : (\E d : Brings(a.req, d)) \/ (\E c \in K : TakesOff(a.req, c))
  BY <1>2 DEF Certifies, Brings, TakesOff, Unpaired
<1>5. OneCert(K) /\ OneCert(L)
  BY KeyedOnce
<1>6. CertComplete(K, L, {a.req : a \in certs})
  <2>1. CertComplete(K, L, {a.req : a \in CertHalf(from, to, text, M)})
    BY HalfComplete
  <2> QED
    BY <1>1, <2>1
<1> HIDE DEF K, L
<1>7. CertBetween(K, L, {a.req : a \in certs})
  BY <1>2, <1>3, <1>5 DEF CertBetween, Once
<1>8. \A a, b \in certs : a.req = b.req => a = b
  BY <1>3, <1>4
<1> QED
  BY <1>6, <1>7, <1>8 DEF K, L

(* The rank of an update. *)
LEMMA RankOf ==
  ASSUME NEW from, NEW to, IsFiniteSet(Trades(from, to)),
         NEW text \in Bijection(Trades(from, to), 1..Cardinality(Trades(from, to))),
         NEW u \in Updates(from, to)
  PROVE  LET a == UpdateAt(from, to, text, u)
             last == Cardinality(Trades(from, to)) + 1
         IN /\ a.tier = 4 /\ last \in Nat /\ text \in [Trades(from, to) -> Nat]
            /\ u.takes = {} => a.rank = 0
            /\ u \in Trades(from, to) =>
                 a.rank = TransferOrder(Trades(from, to), text)[u] /\ a.rank \in 1..Cardinality(Trades(from, to))
            /\ u.takes # {} /\ u \notin Trades(from, to) => a.rank = last
<1> DEFINE trades == Trades(from, to)
           n == Cardinality(trades)
<1>1. n \in Nat
  BY FS_CardinalityType
<1>2. text \in [trades -> Nat]
  BY <1>1 DEF Bijection, Injection, Surjection
<1>3. u \in trades => u.takes # {} /\ TransferOrder(trades, text)[u] \in 1..n
  BY <1>2, Positions DEF Trades
<1>4. /\ UpdateAt(from, to, text, u).rank = CertRank(trades, TransferOrder(trades, text), u)
      /\ UpdateAt(from, to, text, u).tier = Tier("ReplaceCertificate")
  BY CertFields DEF UpdateAt
<1>5. Tier("ReplaceCertificate") = 4
  BY DEF Tier, Tiers
<1> QED
  BY <1>1, <1>2, <1>3, <1>4, <1>5 DEF CertRank

(* A name that goes to another certificate is given before it is taken, unless on a cycle. *)
LEMMA GivenBeforeTaken ==
  ASSUME NEW from, NEW to, IsFiniteSet(Trades(from, to)),
         NEW certs \in CertificateBatches(from, to),
         NEW c \in KeyedCerts(from), NEW d \in KeyedCerts(to), c.listener = d.listener,
         NEW name \in c.names \cap d.names, <<c.listener, name>> \notin Swapped(Trades(from, to)),
         NEW a \in certs, TakesOff(a.req, c), \A e : Brings(a.req, e) => name \notin e.names,
         NEW b \in certs, Brings(b.req, d), \A e \in KeyedCerts(from) : TakesOff(b.req, e) => name \notin e.names
  PROVE  Precedes(b, a)
<1> DEFINE K == KeyedCerts(from)
           L == KeyedCerts(to)
           trades == Trades(from, to)
           last == Cardinality(trades) + 1
<1>1. PICK text \in Bijection(trades, 1..Cardinality(trades)) :
        \E M \in Rotations(Unpaired(L, K), Unpaired(K, L)) : certs = CertHalf(from, to, text, M)
  BY HalfOf
<1>2. PICK M \in Rotations(Unpaired(L, K), Unpaired(K, L)) : certs = CertHalf(from, to, text, M)
  BY <1>1
<1>0. Cardinality(trades) \in Nat
  BY FS_CardinalityType
<1>3. last \in Nat /\ last = Cardinality(trades) + 1
  BY <1>0
<1> HIDE DEF last
<1>4. \/ \E v \in Updates(from, to) : v.cert = d /\ b = UpdateAt(from, to, text, v)
      \/ b.tier = 4 /\ b.rank = 0
  <2>1. Tier("ReplaceCertificate") = 4 /\ Tier("AddCertificate") = 4
    BY DEF Tier, Tiers
  <2>2. \A r : At(0, r).rank = 0 /\ At(0, r).tier = Tier(r.verb)
    BY CertFields
  <2>3. \A x, y : Replace(x, y).verb = "ReplaceCertificate" /\ Request("AddCertificate", x).verb = "AddCertificate"
    BY CertFields
  <2>4. \/ \E u \in Updates(from, to) : u.cert = d /\ b = UpdateAt(from, to, text, u)
        \/ \E p \in M : b = At(0, Replace(p[1], p[2].fp))
        \/ b = At(0, Request("AddCertificate", d))
    BY <1>2, BroughtBy
  <2> QED
    BY <2>1, <2>2, <2>3, <2>4
<1>5. \A v \in Updates(from, to) : v.cert = d /\ b = UpdateAt(from, to, text, v) =>
        name \in v.gives /\ b.tier = 4 /\ b.rank < last
        /\ (v.takes = {} => b.rank = 0)
        /\ (v.takes # {} => v \in trades /\ b.rank = TransferOrder(trades, text)[v])
  <2> SUFFICES ASSUME NEW v \in Updates(from, to), v.cert = d, b = UpdateAt(from, to, text, v)
               PROVE  name \in v.gives /\ b.tier = 4 /\ b.rank < last
                      /\ (v.takes = {} => b.rank = 0)
                      /\ (v.takes # {} => v \in trades /\ b.rank = TransferOrder(trades, text)[v])
    OBVIOUS
  <2>1. PICK e \in K : SameCert(e, v.cert) /\ v.gives = v.cert.names \ e.names
    <3>1. PICK e \in K : SameCert(e, v.cert) /\
            v = [cert |-> v.cert, gives |-> v.cert.names \ e.names, takes |-> e.names \ v.cert.names]
      BY UpdateOf
    <3> QED
      BY <3>1
  <2>2. b.req = Replace(v.cert, v.cert.fp)
    BY CertFields DEF UpdateAt
  <2>3. TakesOff(b.req, e)
    BY <2>1, <2>2, CertFields DEF TakesOff, SameCert
  <2>4. name \in v.gives
    BY <2>1, <2>3
  <2>5. v.takes # {} => v \in trades
    BY <2>4 DEF Trades
  <2>6. /\ b.tier = 4 /\ (v.takes = {} => b.rank = 0)
        /\ v \in trades => b.rank = TransferOrder(trades, text)[v] /\ b.rank \in 1..Cardinality(trades)
    BY RankOf
  <2>7. 0 < last /\ \A i \in 1..Cardinality(trades) : i < last
    BY <1>0, <1>3
  <2> QED
    BY <2>4, <2>5, <2>6, <2>7
<1>6. b.tier = 4 /\ b.rank < last
  <2>1. 0 < last
    BY <1>0, <1>3
  <2> QED
    BY <1>4, <1>5, <2>1
<1>7. CASE \E u \in Updates(from, to) : SameCert(c, u.cert) /\ a = UpdateAt(from, to, text, u)
  <2>1. PICK u \in Updates(from, to) : SameCert(c, u.cert) /\ a = UpdateAt(from, to, text, u)
    BY <1>7
  <2>2. a.req = Replace(u.cert, u.cert.fp)
    BY <2>1, CertFields DEF UpdateAt
  <2>3. name \notin u.cert.names
    BY <2>2, CertFields DEF Brings
  <2>4. name \in u.takes
    <3>1. PICK e \in K : SameCert(e, u.cert) /\
            u = [cert |-> u.cert, gives |-> u.cert.names \ e.names, takes |-> e.names \ u.cert.names]
      BY UpdateOf
    <3>2. e = c
      BY <2>1, <3>1, KeyedOnce, SameCertEq DEF OneCert
    <3>3. u.takes = c.names \ u.cert.names
      BY <3>1, <3>2
    <3> QED
      BY <2>3, <3>3
  <2>5. u.cert.listener = c.listener
    BY <2>1 DEF SameCert
  <2>6. a.tier = 4 /\ (u \notin trades => a.rank = last)
    BY <2>1, <2>4, RankOf DEF last
  <2>7. CASE u \notin trades
    BY <1>6, <2>6, <2>7 DEF Precedes
  <2>8. CASE u \in trades
    <3>1. a.rank = TransferOrder(trades, text)[u] /\ a.rank \in 1..Cardinality(trades)
      BY <2>1, <2>8, RankOf
    <3>2. CASE b.rank = 0
      BY <1>6, <2>6, <3>1, <3>2 DEF Precedes
    <3>3. ASSUME NEW v \in trades, v.cert = d, name \in v.gives, b.rank = TransferOrder(trades, text)[v]
          PROVE  Precedes(b, a)
      <4>1. Feeds(v, u)
        BY <2>4, <2>5, <3>3 DEF Feeds
      <4>2. u \notin OnCycleWith(trades, v)
        <5> SUFFICES ASSUME u \in OnCycleWith(trades, v) PROVE FALSE
          OBVIOUS
        <5>1. u \in Rivals(trades, v)
          BY <4>1 DEF Rivals
        <5>2. <<v.cert.listener, name>> \in Swapped(trades)
          BY <2>4, <3>3, <5>1 DEF Swapped
        <5> QED
          BY <3>3, <5>2
      <4>3. text \in [trades -> Nat]
        BY RankOf
      <4>4. TransferOrder(trades, text)[v] < TransferOrder(trades, text)[u]
        BY <2>8, <4>1, <4>2, <4>3, GivenFirst
      <4> QED
        BY <1>6, <2>6, <3>1, <3>3, <4>4 DEF Precedes
    <3> QED
      BY <1>4, <1>5, <3>2, <3>3
  <2> QED
    BY <2>7, <2>8
<1>8. CASE \E p \in M : p[2] = c /\ a = At(0, Replace(p[1], p[2].fp))
  <2>1. PICK p \in M : p[2] = c /\ a = At(0, Replace(p[1], p[2].fp))
    BY <1>8
  <2>2. Brings(a.req, p[1]) /\ p[1].names = c.names
    BY <2>1, CertFields, RotationOf DEF Brings
  <2> QED
    BY <2>2
<1> USE DEF last
<1>9. CASE a = At(last, Request("RemoveCertificate", c))
  <2>1. a.tier = Tier("RemoveCertificate")
    BY <1>9, CertFields
  <2>2. Tier("RemoveCertificate") = 9
    BY DEF Tier, Tiers
  <2> QED
    BY <1>6, <2>1, <2>2 DEF Precedes
<1> QED
  BY <1>2, <1>7, <1>8, <1>9, TakenOffBy

-----------------------------------------------------------------------------
(* Names that stay. *)

(* A name that is held and wanted is served on the way, unless it moves on a cycle. *)
LEMMA ServedOnTheWay ==
  ASSUME NEW from, NEW to, IsFiniteSet(Trades(from, to)),
         NEW certs \in CertificateBatches(from, to), NEW pending \in SUBSET certs,
         \A a \in certs \ pending : \A b \in pending : ~Precedes(b, a),
         NEW key \in Names(KeyedCerts(from)) \cap Names(KeyedCerts(to)), key \notin Swapped(Trades(from, to))
  PROVE  key \in Names(CertsAt(KeyedCerts(from), KeyedCerts(to), {a.req : a \in pending}))
<1> DEFINE K == KeyedCerts(from)
           L == KeyedCerts(to)
           P == {a.req : a \in pending}
           W == {a.req : a \in certs}
           H == CertsAt(K, L, P)
<1> SUFFICES ASSUME key \notin Names(H) PROVE FALSE
  OBVIOUS
<1>0. PICK c \in K : \E name \in c.names : key = <<c.listener, name>>
  BY DEF Names
<1>1. PICK name \in c.names : key = <<c.listener, name>>
  BY <1>0
<1>2. PICK d \in L : key[1] = d.listener /\ key[2] \in d.names
  BY DEF Names
<1>3. c.listener = d.listener /\ name \in d.names
  BY <1>1, <1>2
<1>4. \A e \in H : e.listener = c.listener => name \notin e.names
  <2> HIDE DEF H
  <2> SUFFICES ASSUME NEW e \in H, e.listener = c.listener, name \in e.names PROVE key \in Names(H)
    OBVIOUS
  <2>1. key \in {<<e.listener, n>> : n \in e.names}
    BY <1>1
  <2> QED
    BY <2>1 DEF Names
<1>5. CertBetween(K, L, W) /\ CertComplete(K, L, W) /\ \A a, b \in certs : a.req = b.req => a = b
  BY HalfBetween
<1>6. c \notin H /\ d \notin H
  BY <1>1, <1>3, <1>4
<1>7. c \in K \ L /\ \A r \in P : ~TakesOff(r, c)
  BY <1>6 DEF CertsAt
<1>8. d \in L \ K /\ \E r \in P : Brings(r, d)
  BY <1>6 DEF CertsAt
<1>9. PICK a \in certs : TakesOff(a.req, c)
  BY <1>5, <1>7 DEF CertComplete
<1>10. a.req \notin P
  BY <1>7, <1>9
<1>11. PICK b \in pending : Brings(b.req, d)
  BY <1>8
<1>12. \A e : Brings(a.req, e) => name \notin e.names
  <2> SUFFICES ASSUME NEW e, Brings(a.req, e), name \in e.names PROVE FALSE
    OBVIOUS
  <2>1. e \in L /\ e.listener = c.listener
    <3>1. Certifies(K, L, a.req)
      BY <1>5 DEF CertBetween
    <3> HIDE DEF K, L
    <3> QED
      BY <1>9, <3>1 DEF Certifies, Brings, TakesOff
  <2>2. \A r \in P : ~Brings(r, e)
    BY <1>5, <1>10 DEF CertBetween, Once
  <2>3. e \in H
    BY <2>1, <2>2 DEF CertsAt
  <2> QED
    BY <1>4, <2>1, <2>3
<1>13. \A e \in K : TakesOff(b.req, e) => name \notin e.names
  <2> SUFFICES ASSUME NEW e \in K, TakesOff(b.req, e), name \in e.names PROVE FALSE
    OBVIOUS
  <2>1. e \in H
    BY <1>11 DEF CertsAt
  <2>2. e.listener = c.listener
    BY <1>3, <1>11 DEF TakesOff, Brings
  <2> QED
    BY <1>4, <2>1, <2>2
<1>14. Precedes(b, a)
  <2>1. b \in certs /\ name \in c.names \cap d.names /\ <<c.listener, name>> \notin Swapped(Trades(from, to))
    BY <1>1, <1>3
  <2> QED
    BY <1>3, <1>9, <1>11, <1>12, <1>13, <2>1, GivenBeforeTaken
<1> QED
  BY <1>10, <1>11, <1>14

-----------------------------------------------------------------------------
(* States, and requests under way. *)

IsState(S) ==
  S = [clusters |-> S.clusters, backends |-> S.backends, routes |-> S.routes, l4 |-> S.l4,
       listeners |-> S.listeners, active |-> S.active]

(* Sozu's maps: one object to a key. *)
Keyed(S) ==
  /\ \A c \in S.clusters : c.id # NoCluster /\ \A d \in S.clusters : c.id = d.id => c = d
  /\ \A b, d \in S.backends : BackendKey(b) = BackendKey(d) => b = d
  /\ \A f, g \in S.routes : f.key = g.key => f = g
  /\ \A f, g \in S.l4 : L4Key(f) = L4Key(g) => f = g

(* The objects of a state name clusters of it. *)
Whole(S) ==
  /\ \A b \in S.backends : \E c \in S.clusters : c.id = b.cluster
  /\ \A f \in S.routes : f.cluster = NoCluster \/ \E c \in S.clusters : c.id = f.cluster
  /\ \A f \in S.l4 : \E c \in S.clusters : c.id = f.cluster

(* The objects that requests of P with this verb are about. *)
Pend(P, verb) == {r.obj : r \in {q \in P : q.verb = verb}}

Plain(P) == \A r \in P : r = Request(r.verb, r.obj)

RoutingVerbs ==
  {"AddCluster", "RemoveCluster", "AddBackend", "RemoveBackend", "AddFrontend", "RemoveFrontend",
   "AddL4", "RemoveL4", "AddListener", "ActivateListener", "DeactivateListener", "RemoveListener"}

(* A batch between F and T removes and adds what differs, objects of one key at most once. *)
Between(F, T, P) ==
  /\ Plain(P) /\ \A r \in P : r.verb \in RoutingVerbs
  /\ Pend(P, "RemoveCluster") \subseteq RemovedClusters(F, T)
  /\ Pend(P, "AddCluster") \subseteq T.clusters \ F.clusters
  /\ Pend(P, "RemoveBackend") \subseteq
       {b \in F.backends \ T.backends : \A d \in T.backends \ F.backends : BackendKey(d) # BackendKey(b)}
  /\ Pend(P, "AddBackend") \subseteq T.backends \ F.backends
  /\ Pend(P, "RemoveFrontend") \subseteq F.routes \ T.routes
  /\ Pend(P, "AddFrontend") \subseteq T.routes \ F.routes
  /\ Pend(P, "RemoveL4") \subseteq F.l4 \ T.l4
  /\ Pend(P, "AddL4") \subseteq T.l4 \ F.l4
  /\ Pend(P, "DeactivateListener") \subseteq F.listeners \ T.listeners
  /\ Pend(P, "RemoveListener") \subseteq F.listeners \ T.listeners
  /\ Pend(P, "AddListener") \subseteq T.listeners \ F.listeners
  /\ Pend(P, "ActivateListener") \subseteq T.listeners \ F.listeners

(* What is there on the way: the old less what has left, and the new that has come. *)
Mid(from, to, leaving, coming) ==
  {o \in from : o \in to \/ o \in leaving} \cup {o \in to : o \in from \/ o \notin coming}

(* What an addition still to come will replace. *)
ReplacedClusters(F, P) == {c \in F.clusters : \E d \in Pend(P, "AddCluster") : d.id = c.id}
ReplacedBackends(F, P) ==
  {b \in F.backends : \E d \in Pend(P, "AddBackend") : BackendKey(d) = BackendKey(b)}

(* What is there on the way from F to T with the requests P to go. *)
ClustersAt(F, T, P) ==
  Mid(F.clusters, T.clusters, Pend(P, "RemoveCluster") \cup ReplacedClusters(F, P),
      Pend(P, "AddCluster"))
BackendsAt(F, T, P) ==
  Mid(F.backends, T.backends, Pend(P, "RemoveBackend") \cup ReplacedBackends(F, P),
      Pend(P, "AddBackend"))
RoutesAt(F, T, P) == Mid(F.routes, T.routes, Pend(P, "RemoveFrontend"), Pend(P, "AddFrontend"))
L4At(F, T, P) == Mid(F.l4, T.l4, Pend(P, "RemoveL4"), Pend(P, "AddL4"))
ListenersAt(F, T, P) ==
  Mid(F.listeners, T.listeners, Pend(P, "RemoveListener"), Pend(P, "AddListener"))
ActiveAt(F, T, P) ==
  Mid(F.listeners, T.listeners, Pend(P, "DeactivateListener"), Pend(P, "ActivateListener"))

(* S is the state on the way. *)
Stage(F, T, P, S) ==
  /\ S.clusters = ClustersAt(F, T, P) /\ S.backends = BackendsAt(F, T, P)
  /\ S.routes = RoutesAt(F, T, P) /\ S.l4 = L4At(F, T, P)
  /\ S.listeners = ListenersAt(F, T, P) /\ S.active = ActiveAt(F, T, P)
  /\ Pend(P, "DeactivateListener") \subseteq Pend(P, "RemoveListener")

(* The next request: none of an earlier tier is to go. *)
NextOf(P, r) == r \in P /\ \A q \in P : ~(Tier(q.verb) < Tier(r.verb))

-----------------------------------------------------------------------------
(* Requests to go. *)

(* A request that is done is no longer to go, and the others are. *)
LEMMA PendLess ==
  ASSUME NEW P, Plain(P), NEW r \in P
  PROVE  /\ Pend(P \ {r}, r.verb) = Pend(P, r.verb) \ {r.obj}
         /\ \A verb : verb # r.verb => Pend(P \ {r}, verb) = Pend(P, verb)
         /\ Plain(P \ {r})
<1>1. \A q \in P : q.verb = r.verb /\ q.obj = r.obj => q = r
  BY DEF Plain
<1>2. Pend(P \ {r}, r.verb) = Pend(P, r.verb) \ {r.obj}
  BY <1>1 DEF Pend
<1>3. \A verb : verb # r.verb => Pend(P \ {r}, verb) = Pend(P, verb)
  BY DEF Pend
<1> QED
  BY <1>2, <1>3 DEF Plain

(* Nothing of an earlier tier is to go. *)
LEMMA EarlierDone ==
  ASSUME NEW P, NEW r, NextOf(P, r), NEW verb, Tier(verb) < Tier(r.verb)
  PROVE  Pend(P, verb) = {}
BY DEF NextOf, Pend

-----------------------------------------------------------------------------
(* The requests, one by one: each is taken, and leaves the next stage. *)

Going(F, T, P, S, r) ==
  /\ IsState(S) /\ Keyed(F) /\ Keyed(T) /\ Keyed(S) /\ Whole(T)
  /\ Between(F, T, P) /\ Stage(F, T, P, S) /\ NextOf(P, r)

GoesOn(F, T, P, S, r) == Refusal(S, r) = None /\ Stage(F, T, P \ {r}, Dispatched(S, r))

(* A set less one object, left folded where only its name matters. *)
Less(objects, o) == objects \ {o}

(* r is about an object that is to go, and the only request to go that is. *)
LEMMA Pending ==
  ASSUME NEW F, NEW T, NEW P, NEW S, NEW r, Going(F, T, P, S, r), NEW verb, verb = r.verb
  PROVE  r.obj \in Pend(P, verb) /\ Pend(P \ {r}, verb) = Less(Pend(P, verb), r.obj)
<1>1. r \in P /\ r.obj \in Pend(P, r.verb) /\ Plain(P)
  BY DEF Going, NextOf, Between, Pend
<1> QED
  BY <1>1, PendLess DEF Less

(* The requests of another verb are as before. *)
LEMMA Unmoved ==
  ASSUME NEW F, NEW T, NEW P, NEW S, NEW r, Going(F, T, P, S, r), NEW verb, verb # r.verb
  PROVE  Pend(P \ {r}, verb) = Pend(P, verb)
<1>1. Plain(P) /\ r \in P
  BY DEF Going, NextOf, Between
<1> QED
  BY <1>1, PendLess

(* A request moves only what it is about: clusters, *)
LEMMA ClustersSteady ==
  ASSUME NEW F, NEW T, NEW P, NEW S, NEW r, Going(F, T, P, S, r),
         r.verb # "AddCluster", r.verb # "RemoveCluster"
  PROVE  ClustersAt(F, T, P \ {r}) = ClustersAt(F, T, P)
<1>1. Pend(P \ {r}, "AddCluster") = Pend(P, "AddCluster")
  BY Unmoved
<1>2. Pend(P \ {r}, "RemoveCluster") = Pend(P, "RemoveCluster")
  BY Unmoved
<1>3. ReplacedClusters(F, P \ {r}) = ReplacedClusters(F, P)
  BY <1>1 DEF ReplacedClusters
<1> QED
  BY <1>1, <1>2, <1>3 DEF ClustersAt

(* backends, *)
LEMMA BackendsSteady ==
  ASSUME NEW F, NEW T, NEW P, NEW S, NEW r, Going(F, T, P, S, r),
         r.verb # "AddBackend", r.verb # "RemoveBackend"
  PROVE  BackendsAt(F, T, P \ {r}) = BackendsAt(F, T, P)
<1>1. Pend(P \ {r}, "AddBackend") = Pend(P, "AddBackend")
  BY Unmoved
<1>2. Pend(P \ {r}, "RemoveBackend") = Pend(P, "RemoveBackend")
  BY Unmoved
<1>3. ReplacedBackends(F, P \ {r}) = ReplacedBackends(F, P)
  BY <1>1 DEF ReplacedBackends
<1> QED
  BY <1>1, <1>2, <1>3 DEF BackendsAt

(* routes, *)
LEMMA RoutesSteady ==
  ASSUME NEW F, NEW T, NEW P, NEW S, NEW r, Going(F, T, P, S, r),
         r.verb # "AddFrontend", r.verb # "RemoveFrontend"
  PROVE  RoutesAt(F, T, P \ {r}) = RoutesAt(F, T, P)
<1>1. Pend(P \ {r}, "AddFrontend") = Pend(P, "AddFrontend")
  BY Unmoved
<1>2. Pend(P \ {r}, "RemoveFrontend") = Pend(P, "RemoveFrontend")
  BY Unmoved
<1> QED
  BY <1>1, <1>2 DEF RoutesAt

(* layer-4 frontends, *)
LEMMA L4Steady ==
  ASSUME NEW F, NEW T, NEW P, NEW S, NEW r, Going(F, T, P, S, r),
         r.verb # "AddL4", r.verb # "RemoveL4"
  PROVE  L4At(F, T, P \ {r}) = L4At(F, T, P)
<1>1. Pend(P \ {r}, "AddL4") = Pend(P, "AddL4")
  BY Unmoved
<1>2. Pend(P \ {r}, "RemoveL4") = Pend(P, "RemoveL4")
  BY Unmoved
<1> QED
  BY <1>1, <1>2 DEF L4At

(* listeners, *)
LEMMA ListenersSteady ==
  ASSUME NEW F, NEW T, NEW P, NEW S, NEW r, Going(F, T, P, S, r),
         r.verb # "AddListener", r.verb # "RemoveListener"
  PROVE  ListenersAt(F, T, P \ {r}) = ListenersAt(F, T, P)
<1>1. Pend(P \ {r}, "AddListener") = Pend(P, "AddListener")
  BY Unmoved
<1>2. Pend(P \ {r}, "RemoveListener") = Pend(P, "RemoveListener")
  BY Unmoved
<1> QED
  BY <1>1, <1>2 DEF ListenersAt

(* active listeners. *)
LEMMA ActiveSteady ==
  ASSUME NEW F, NEW T, NEW P, NEW S, NEW r, Going(F, T, P, S, r),
         r.verb # "ActivateListener", r.verb # "DeactivateListener"
  PROVE  ActiveAt(F, T, P \ {r}) = ActiveAt(F, T, P)
<1>1. Pend(P \ {r}, "ActivateListener") = Pend(P, "ActivateListener")
  BY Unmoved
<1>2. Pend(P \ {r}, "DeactivateListener") = Pend(P, "DeactivateListener")
  BY Unmoved
<1> QED
  BY <1>1, <1>2 DEF ActiveAt

(* A listener that is to be deactivated stays one that is to be removed. *)
LEMMA DeactivationsSteady ==
  ASSUME NEW F, NEW T, NEW P, NEW S, NEW r, Going(F, T, P, S, r), r.verb # "RemoveListener"
  PROVE  Pend(P \ {r}, "DeactivateListener") \subseteq Pend(P \ {r}, "RemoveListener")
<1>1. Pend(P \ {r}, "RemoveListener") = Pend(P, "RemoveListener")
  BY Unmoved
<1>2. Pend(P \ {r}, "DeactivateListener") \subseteq Pend(P, "DeactivateListener")
  BY DEF Pend
<1>3. Pend(P, "DeactivateListener") \subseteq Pend(P, "RemoveListener")
  BY DEF Going, Stage
<1> QED
  BY <1>1, <1>2, <1>3

(* AddFrontend: what was on the key has gone, and nothing new is on it. *)
LEMMA AddFrontendGoesOn ==
  ASSUME NEW F, NEW T, NEW P, NEW S, NEW r, Going(F, T, P, S, r), r.verb = "AddFrontend"
  PROVE  GoesOn(F, T, P, S, r)
<1> DEFINE o == r.obj
           U == Dispatched(S, r)
<1>0. /\ IsState(S) /\ Keyed(F) /\ Keyed(T) /\ Keyed(S) /\ Whole(T)
      /\ Between(F, T, P) /\ Stage(F, T, P, S) /\ NextOf(P, r)
  BY DEF Going
<1>1. o \in Pend(P, "AddFrontend") /\ o \in T.routes \ F.routes
  <2>1. o \in Pend(P, "AddFrontend")
    BY Pending
  <2> QED
    BY <2>1, <1>0 DEF Between
<1>2. Pend(P, "RemoveFrontend") = {}
  BY <1>0, EarlierDone DEF Tier, Tiers
<1>3. S.routes = Mid(F.routes, T.routes, {}, Pend(P, "AddFrontend"))
  BY <1>0, <1>2 DEF Stage, RoutesAt
<1>4. Held(S, r) = {f \in S.routes : f.key = o.key}
  BY DEF Held
<1>5. Held(S, r) = {}
  BY <1>0, <1>1, <1>3, <1>4 DEF Mid, Keyed
<1>6. Refusal(S, r) = None
  BY <1>5 DEF Refusal
<1>7. U = [S EXCEPT !.routes = @ \cup {o}]
  BY DEF Dispatched
<1>8. /\ U.clusters = S.clusters /\ U.backends = S.backends /\ U.l4 = S.l4
      /\ U.listeners = S.listeners /\ U.active = S.active
      /\ U.routes = S.routes \cup {o}
  BY <1>0, <1>7 DEF IsState
<1>9. Stage(F, T, P \ {r}, U)
  <2>1. U.clusters = ClustersAt(F, T, P \ {r})
    BY <1>0, <1>8, ClustersSteady DEF Stage
  <2>2. U.backends = BackendsAt(F, T, P \ {r})
    BY <1>0, <1>8, BackendsSteady DEF Stage
  <2>3. U.routes = RoutesAt(F, T, P \ {r})
    <3>1. Pend(P \ {r}, "AddFrontend") = Less(Pend(P, "AddFrontend"), o)
      BY Pending
    <3>2. Pend(P \ {r}, "RemoveFrontend") = Pend(P, "RemoveFrontend")
      BY Unmoved
    <3>3. RoutesAt(F, T, P \ {r}) = RoutesAt(F, T, P) \cup {o}
      BY <3>1, <3>2, <1>1 DEF RoutesAt, Less, Mid
    <3> QED
      BY <1>0, <1>8, <3>3 DEF Stage
  <2>4. U.l4 = L4At(F, T, P \ {r})
    BY <1>0, <1>8, L4Steady DEF Stage
  <2>5. U.listeners = ListenersAt(F, T, P \ {r})
    BY <1>0, <1>8, ListenersSteady DEF Stage
  <2>6. U.active = ActiveAt(F, T, P \ {r})
    BY <1>0, <1>8, ActiveSteady DEF Stage
  <2>7. Pend(P \ {r}, "DeactivateListener") \subseteq Pend(P \ {r}, "RemoveListener")
    BY DeactivationsSteady
  <2> QED
    BY <2>1, <2>2, <2>3, <2>4, <2>5, <2>6, <2>7 DEF Stage
<1> QED
  BY <1>6, <1>9 DEF GoesOn

(* RemoveFrontend: the key holds a route of the cluster, and no other. *)
LEMMA RemoveFrontendGoesOn ==
  ASSUME NEW F, NEW T, NEW P, NEW S, NEW r, Going(F, T, P, S, r), r.verb = "RemoveFrontend"
  PROVE  GoesOn(F, T, P, S, r)
<1> DEFINE o == r.obj
           U == Dispatched(S, r)
<1>0. /\ IsState(S) /\ Keyed(F) /\ Keyed(T) /\ Keyed(S) /\ Whole(T)
      /\ Between(F, T, P) /\ Stage(F, T, P, S) /\ NextOf(P, r)
  BY DEF Going
<1>1. o \in Pend(P, "RemoveFrontend") /\ o \in F.routes \ T.routes
  <2>1. o \in Pend(P, "RemoveFrontend")
    BY Pending
  <2> QED
    BY <2>1, <1>0 DEF Between
<1>3. o \in S.routes
  BY <1>0, <1>1 DEF Stage, RoutesAt, Mid
<1>4. Held(S, r) = {f \in S.routes : f.key = o.key}
  BY DEF Held
<1>5. Held(S, r) = {o}
  BY <1>0, <1>3, <1>4 DEF Keyed
<1>6. Refusal(S, r) = None
  BY <1>5 DEF Refusal
<1>7. U = [S EXCEPT !.routes = @ \ Held(S, r)]
  BY DEF Dispatched
<1>8. /\ U.clusters = S.clusters /\ U.backends = S.backends /\ U.l4 = S.l4
      /\ U.listeners = S.listeners /\ U.active = S.active
      /\ U.routes = S.routes \ Held(S, r)
  BY <1>0, <1>7 DEF IsState
<1>9. Stage(F, T, P \ {r}, U)
  <2>1. U.clusters = ClustersAt(F, T, P \ {r})
    BY <1>0, <1>8, ClustersSteady DEF Stage
  <2>2. U.backends = BackendsAt(F, T, P \ {r})
    BY <1>0, <1>8, BackendsSteady DEF Stage
  <2>3. U.routes = RoutesAt(F, T, P \ {r})
    <3>1. Pend(P \ {r}, "RemoveFrontend") = Less(Pend(P, "RemoveFrontend"), o)
      BY Pending
    <3>2. Pend(P \ {r}, "AddFrontend") = Pend(P, "AddFrontend")
      BY Unmoved
    <3>3. RoutesAt(F, T, P \ {r}) = RoutesAt(F, T, P) \ {o}
      BY <3>1, <3>2, <1>1 DEF RoutesAt, Less, Mid
    <3> QED
      BY <1>0, <1>8, <1>5, <3>3 DEF Stage
  <2>4. U.l4 = L4At(F, T, P \ {r})
    BY <1>0, <1>8, L4Steady DEF Stage
  <2>5. U.listeners = ListenersAt(F, T, P \ {r})
    BY <1>0, <1>8, ListenersSteady DEF Stage
  <2>6. U.active = ActiveAt(F, T, P \ {r})
    BY <1>0, <1>8, ActiveSteady DEF Stage
  <2>7. Pend(P \ {r}, "DeactivateListener") \subseteq Pend(P \ {r}, "RemoveListener")
    BY DeactivationsSteady
  <2> QED
    BY <2>1, <2>2, <2>3, <2>4, <2>5, <2>6, <2>7 DEF Stage
<1> QED
  BY <1>6, <1>9 DEF GoesOn

(* AddL4: what was on the key has gone, and nothing new is on it. *)
LEMMA AddL4GoesOn ==
  ASSUME NEW F, NEW T, NEW P, NEW S, NEW r, Going(F, T, P, S, r), r.verb = "AddL4"
  PROVE  GoesOn(F, T, P, S, r)
<1> DEFINE o == r.obj
           U == Dispatched(S, r)
<1>0. /\ IsState(S) /\ Keyed(F) /\ Keyed(T) /\ Keyed(S) /\ Whole(T)
      /\ Between(F, T, P) /\ Stage(F, T, P, S) /\ NextOf(P, r)
  BY DEF Going
<1>1. o \in Pend(P, "AddL4") /\ o \in T.l4 \ F.l4
  <2>1. o \in Pend(P, "AddL4")
    BY Pending
  <2> QED
    BY <2>1, <1>0 DEF Between
<1>2. Pend(P, "RemoveL4") = {}
  BY <1>0, EarlierDone DEF Tier, Tiers
<1>3. S.l4 = Mid(F.l4, T.l4, {}, Pend(P, "AddL4"))
  BY <1>0, <1>2 DEF Stage, L4At
<1>4. Held(S, r) = {f \in S.l4 : L4Key(f) = L4Key(o)}
  BY DEF Held
<1>5. Held(S, r) = {}
  BY <1>0, <1>1, <1>3, <1>4 DEF Mid, Keyed
<1>6. Refusal(S, r) = None
  BY <1>5 DEF Refusal
<1>7. U = [S EXCEPT !.l4 = @ \cup {o}]
  BY DEF Dispatched
<1>8. /\ U.clusters = S.clusters /\ U.backends = S.backends /\ U.routes = S.routes
      /\ U.listeners = S.listeners /\ U.active = S.active
      /\ U.l4 = S.l4 \cup {o}
  BY <1>0, <1>7 DEF IsState
<1>9. Stage(F, T, P \ {r}, U)
  <2>1. U.clusters = ClustersAt(F, T, P \ {r})
    BY <1>0, <1>8, ClustersSteady DEF Stage
  <2>2. U.backends = BackendsAt(F, T, P \ {r})
    BY <1>0, <1>8, BackendsSteady DEF Stage
  <2>3. U.routes = RoutesAt(F, T, P \ {r})
    BY <1>0, <1>8, RoutesSteady DEF Stage
  <2>4. U.l4 = L4At(F, T, P \ {r})
    <3>1. Pend(P \ {r}, "AddL4") = Less(Pend(P, "AddL4"), o)
      BY Pending
    <3>2. Pend(P \ {r}, "RemoveL4") = Pend(P, "RemoveL4")
      BY Unmoved
    <3>3. L4At(F, T, P \ {r}) = L4At(F, T, P) \cup {o}
      BY <3>1, <3>2, <1>1 DEF L4At, Less, Mid
    <3> QED
      BY <1>0, <1>8, <3>3 DEF Stage
  <2>5. U.listeners = ListenersAt(F, T, P \ {r})
    BY <1>0, <1>8, ListenersSteady DEF Stage
  <2>6. U.active = ActiveAt(F, T, P \ {r})
    BY <1>0, <1>8, ActiveSteady DEF Stage
  <2>7. Pend(P \ {r}, "DeactivateListener") \subseteq Pend(P \ {r}, "RemoveListener")
    BY DeactivationsSteady
  <2> QED
    BY <2>1, <2>2, <2>3, <2>4, <2>5, <2>6, <2>7 DEF Stage
<1> QED
  BY <1>6, <1>9 DEF GoesOn

(* RemoveL4: the key holds a layer-4 frontend of the cluster, and no other. *)
LEMMA RemoveL4GoesOn ==
  ASSUME NEW F, NEW T, NEW P, NEW S, NEW r, Going(F, T, P, S, r), r.verb = "RemoveL4"
  PROVE  GoesOn(F, T, P, S, r)
<1> DEFINE o == r.obj
           U == Dispatched(S, r)
<1>0. /\ IsState(S) /\ Keyed(F) /\ Keyed(T) /\ Keyed(S) /\ Whole(T)
      /\ Between(F, T, P) /\ Stage(F, T, P, S) /\ NextOf(P, r)
  BY DEF Going
<1>1. o \in Pend(P, "RemoveL4") /\ o \in F.l4 \ T.l4
  <2>1. o \in Pend(P, "RemoveL4")
    BY Pending
  <2> QED
    BY <2>1, <1>0 DEF Between
<1>3. o \in S.l4
  BY <1>0, <1>1 DEF Stage, L4At, Mid
<1>4. Held(S, r) = {f \in S.l4 : L4Key(f) = L4Key(o)}
  BY DEF Held
<1>5. Held(S, r) = {o}
  BY <1>0, <1>3, <1>4 DEF Keyed
<1>6. Refusal(S, r) = None
  BY <1>5 DEF Refusal
<1>7. U = [S EXCEPT !.l4 = @ \ Held(S, r)]
  BY DEF Dispatched
<1>8. /\ U.clusters = S.clusters /\ U.backends = S.backends /\ U.routes = S.routes
      /\ U.listeners = S.listeners /\ U.active = S.active
      /\ U.l4 = S.l4 \ Held(S, r)
  BY <1>0, <1>7 DEF IsState
<1>9. Stage(F, T, P \ {r}, U)
  <2>1. U.clusters = ClustersAt(F, T, P \ {r})
    BY <1>0, <1>8, ClustersSteady DEF Stage
  <2>2. U.backends = BackendsAt(F, T, P \ {r})
    BY <1>0, <1>8, BackendsSteady DEF Stage
  <2>3. U.routes = RoutesAt(F, T, P \ {r})
    BY <1>0, <1>8, RoutesSteady DEF Stage
  <2>4. U.l4 = L4At(F, T, P \ {r})
    <3>1. Pend(P \ {r}, "RemoveL4") = Less(Pend(P, "RemoveL4"), o)
      BY Pending
    <3>2. Pend(P \ {r}, "AddL4") = Pend(P, "AddL4")
      BY Unmoved
    <3>3. L4At(F, T, P \ {r}) = L4At(F, T, P) \ {o}
      BY <3>1, <3>2, <1>1 DEF L4At, Less, Mid
    <3> QED
      BY <1>0, <1>8, <1>5, <3>3 DEF Stage
  <2>5. U.listeners = ListenersAt(F, T, P \ {r})
    BY <1>0, <1>8, ListenersSteady DEF Stage
  <2>6. U.active = ActiveAt(F, T, P \ {r})
    BY <1>0, <1>8, ActiveSteady DEF Stage
  <2>7. Pend(P \ {r}, "DeactivateListener") \subseteq Pend(P \ {r}, "RemoveListener")
    BY DeactivationsSteady
  <2> QED
    BY <2>1, <2>2, <2>3, <2>4, <2>5, <2>6, <2>7 DEF Stage
<1> QED
  BY <1>6, <1>9 DEF GoesOn

(* AddListener: the address has no listener yet. *)
LEMMA AddListenerGoesOn ==
  ASSUME NEW F, NEW T, NEW P, NEW S, NEW r, Going(F, T, P, S, r), r.verb = "AddListener"
  PROVE  GoesOn(F, T, P, S, r)
<1> DEFINE o == r.obj
           U == Dispatched(S, r)
<1>0. /\ IsState(S) /\ Keyed(F) /\ Keyed(T) /\ Keyed(S) /\ Whole(T)
      /\ Between(F, T, P) /\ Stage(F, T, P, S) /\ NextOf(P, r)
  BY DEF Going
<1>1. o \in Pend(P, "AddListener") /\ o \in T.listeners \ F.listeners
  <2>1. o \in Pend(P, "AddListener")
    BY Pending
  <2> QED
    BY <2>1, <1>0 DEF Between
<1>5. Held(S, r) = {}
  <2>1. o \notin S.listeners
    BY <1>0, <1>1 DEF Stage, ListenersAt, Mid
  <2> QED
    BY <2>1 DEF Held
<1>6. Refusal(S, r) = None
  BY <1>5 DEF Refusal
<1>7. U = [S EXCEPT !.listeners = @ \cup {o}]
  BY DEF Dispatched
<1>8. /\ U.clusters = S.clusters /\ U.backends = S.backends /\ U.routes = S.routes /\ U.l4 = S.l4
      /\ U.active = S.active
      /\ U.listeners = S.listeners \cup {o}
  BY <1>0, <1>7 DEF IsState
<1>9. Stage(F, T, P \ {r}, U)
  <2>1. U.clusters = ClustersAt(F, T, P \ {r})
    BY <1>0, <1>8, ClustersSteady DEF Stage
  <2>2. U.backends = BackendsAt(F, T, P \ {r})
    BY <1>0, <1>8, BackendsSteady DEF Stage
  <2>3. U.routes = RoutesAt(F, T, P \ {r})
    BY <1>0, <1>8, RoutesSteady DEF Stage
  <2>4. U.l4 = L4At(F, T, P \ {r})
    BY <1>0, <1>8, L4Steady DEF Stage
  <2>5. U.listeners = ListenersAt(F, T, P \ {r})
    <3>1. Pend(P \ {r}, "AddListener") = Less(Pend(P, "AddListener"), o)
      BY Pending
    <3>2. Pend(P \ {r}, "RemoveListener") = Pend(P, "RemoveListener")
      BY Unmoved
    <3>3. ListenersAt(F, T, P \ {r}) = ListenersAt(F, T, P) \cup {o}
      BY <3>1, <3>2, <1>1 DEF ListenersAt, Less, Mid
    <3> QED
      BY <1>0, <1>8, <3>3 DEF Stage
  <2>6. U.active = ActiveAt(F, T, P \ {r})
    BY <1>0, <1>8, ActiveSteady DEF Stage
  <2>7. Pend(P \ {r}, "DeactivateListener") \subseteq Pend(P \ {r}, "RemoveListener")
    BY DeactivationsSteady
  <2> QED
    BY <2>1, <2>2, <2>3, <2>4, <2>5, <2>6, <2>7 DEF Stage
<1> QED
  BY <1>6, <1>9 DEF GoesOn

(* ActivateListener: every listener to come has. *)
LEMMA ActivateListenerGoesOn ==
  ASSUME NEW F, NEW T, NEW P, NEW S, NEW r, Going(F, T, P, S, r), r.verb = "ActivateListener"
  PROVE  GoesOn(F, T, P, S, r)
<1> DEFINE o == r.obj
           U == Dispatched(S, r)
<1>0. /\ IsState(S) /\ Keyed(F) /\ Keyed(T) /\ Keyed(S) /\ Whole(T)
      /\ Between(F, T, P) /\ Stage(F, T, P, S) /\ NextOf(P, r)
  BY DEF Going
<1>1. o \in Pend(P, "ActivateListener") /\ o \in T.listeners \ F.listeners
  <2>1. o \in Pend(P, "ActivateListener")
    BY Pending
  <2> QED
    BY <2>1, <1>0 DEF Between
<1>2. Pend(P, "AddListener") = {}
  BY <1>0, EarlierDone DEF Tier, Tiers
<1>5. Held(S, r) # {}
  <2>1. o \in S.listeners
    BY <1>0, <1>1, <1>2 DEF Stage, ListenersAt, Mid
  <2> QED
    BY <2>1 DEF Held
<1>6. Refusal(S, r) = None
  BY <1>5 DEF Refusal
<1>7. U = [S EXCEPT !.active = @ \cup {o}]
  BY DEF Dispatched
<1>8. /\ U.clusters = S.clusters /\ U.backends = S.backends /\ U.routes = S.routes /\ U.l4 = S.l4
      /\ U.listeners = S.listeners
      /\ U.active = S.active \cup {o}
  BY <1>0, <1>7 DEF IsState
<1>9. Stage(F, T, P \ {r}, U)
  <2>1. U.clusters = ClustersAt(F, T, P \ {r})
    BY <1>0, <1>8, ClustersSteady DEF Stage
  <2>2. U.backends = BackendsAt(F, T, P \ {r})
    BY <1>0, <1>8, BackendsSteady DEF Stage
  <2>3. U.routes = RoutesAt(F, T, P \ {r})
    BY <1>0, <1>8, RoutesSteady DEF Stage
  <2>4. U.l4 = L4At(F, T, P \ {r})
    BY <1>0, <1>8, L4Steady DEF Stage
  <2>5. U.listeners = ListenersAt(F, T, P \ {r})
    BY <1>0, <1>8, ListenersSteady DEF Stage
  <2>6. U.active = ActiveAt(F, T, P \ {r})
    <3>1. Pend(P \ {r}, "ActivateListener") = Less(Pend(P, "ActivateListener"), o)
      BY Pending
    <3>2. Pend(P \ {r}, "DeactivateListener") = Pend(P, "DeactivateListener")
      BY Unmoved
    <3>3. ActiveAt(F, T, P \ {r}) = ActiveAt(F, T, P) \cup {o}
      BY <3>1, <3>2, <1>1 DEF ActiveAt, Less, Mid
    <3> QED
      BY <1>0, <1>8, <3>3 DEF Stage
  <2>7. Pend(P \ {r}, "DeactivateListener") \subseteq Pend(P \ {r}, "RemoveListener")
    BY DeactivationsSteady
  <2> QED
    BY <2>1, <2>2, <2>3, <2>4, <2>5, <2>6, <2>7 DEF Stage
<1> QED
  BY <1>6, <1>9 DEF GoesOn

(* DeactivateListener: a listener is deactivated before it is removed. *)
LEMMA DeactivateListenerGoesOn ==
  ASSUME NEW F, NEW T, NEW P, NEW S, NEW r, Going(F, T, P, S, r), r.verb = "DeactivateListener"
  PROVE  GoesOn(F, T, P, S, r)
<1> DEFINE o == r.obj
           U == Dispatched(S, r)
<1>0. /\ IsState(S) /\ Keyed(F) /\ Keyed(T) /\ Keyed(S) /\ Whole(T)
      /\ Between(F, T, P) /\ Stage(F, T, P, S) /\ NextOf(P, r)
  BY DEF Going
<1>1. o \in Pend(P, "DeactivateListener") /\ o \in F.listeners \ T.listeners
  <2>1. o \in Pend(P, "DeactivateListener")
    BY Pending
  <2> QED
    BY <2>1, <1>0 DEF Between
<1>5. Held(S, r) # {}
  <2>1. o \in S.listeners
    BY <1>0, <1>1 DEF Stage, ListenersAt, Mid
  <2> QED
    BY <2>1 DEF Held
<1>6. Refusal(S, r) = None
  BY <1>5 DEF Refusal
<1>7. U = [S EXCEPT !.active = @ \ {o}]
  BY DEF Dispatched
<1>8. /\ U.clusters = S.clusters /\ U.backends = S.backends /\ U.routes = S.routes /\ U.l4 = S.l4
      /\ U.listeners = S.listeners
      /\ U.active = S.active \ {o}
  BY <1>0, <1>7 DEF IsState
<1>9. Stage(F, T, P \ {r}, U)
  <2>1. U.clusters = ClustersAt(F, T, P \ {r})
    BY <1>0, <1>8, ClustersSteady DEF Stage
  <2>2. U.backends = BackendsAt(F, T, P \ {r})
    BY <1>0, <1>8, BackendsSteady DEF Stage
  <2>3. U.routes = RoutesAt(F, T, P \ {r})
    BY <1>0, <1>8, RoutesSteady DEF Stage
  <2>4. U.l4 = L4At(F, T, P \ {r})
    BY <1>0, <1>8, L4Steady DEF Stage
  <2>5. U.listeners = ListenersAt(F, T, P \ {r})
    BY <1>0, <1>8, ListenersSteady DEF Stage
  <2>6. U.active = ActiveAt(F, T, P \ {r})
    <3>1. Pend(P \ {r}, "DeactivateListener") = Less(Pend(P, "DeactivateListener"), o)
      BY Pending
    <3>2. Pend(P \ {r}, "ActivateListener") = Pend(P, "ActivateListener")
      BY Unmoved
    <3>3. ActiveAt(F, T, P \ {r}) = ActiveAt(F, T, P) \ {o}
      BY <3>1, <3>2, <1>1 DEF ActiveAt, Less, Mid
    <3> QED
      BY <1>0, <1>8, <3>3 DEF Stage
  <2>7. Pend(P \ {r}, "DeactivateListener") \subseteq Pend(P \ {r}, "RemoveListener")
    BY DeactivationsSteady
  <2> QED
    BY <2>1, <2>2, <2>3, <2>4, <2>5, <2>6, <2>7 DEF Stage
<1> QED
  BY <1>6, <1>9 DEF GoesOn

(* RemoveListener: the listener is there, no longer active. *)
LEMMA RemoveListenerGoesOn ==
  ASSUME NEW F, NEW T, NEW P, NEW S, NEW r, Going(F, T, P, S, r), r.verb = "RemoveListener"
  PROVE  GoesOn(F, T, P, S, r)
<1> DEFINE o == r.obj
           U == Dispatched(S, r)
<1>0. /\ IsState(S) /\ Keyed(F) /\ Keyed(T) /\ Keyed(S) /\ Whole(T)
      /\ Between(F, T, P) /\ Stage(F, T, P, S) /\ NextOf(P, r)
  BY DEF Going
<1>1. o \in Pend(P, "RemoveListener") /\ o \in F.listeners \ T.listeners
  <2>1. o \in Pend(P, "RemoveListener")
    BY Pending
  <2> QED
    BY <2>1, <1>0 DEF Between
<1>2. Pend(P, "DeactivateListener") = {}
  BY <1>0, EarlierDone DEF Tier, Tiers
<1>3. o \notin S.active
  BY <1>0, <1>1, <1>2 DEF Stage, ActiveAt, Mid
<1>5. Held(S, r) # {}
  <2>1. o \in S.listeners
    BY <1>0, <1>1 DEF Stage, ListenersAt, Mid
  <2> QED
    BY <2>1 DEF Held
<1>6. Refusal(S, r) = None
  BY <1>5 DEF Refusal
<1>7. U = [S EXCEPT !.listeners = @ \ {o}, !.active = @ \ {o}]
  BY DEF Dispatched
<1>8. /\ U.clusters = S.clusters /\ U.backends = S.backends /\ U.routes = S.routes /\ U.l4 = S.l4
      /\ U.listeners = S.listeners \ {o}
      /\ U.active = S.active \ {o}
  BY <1>0, <1>7 DEF IsState
<1>9. Stage(F, T, P \ {r}, U)
  <2>1. U.clusters = ClustersAt(F, T, P \ {r})
    BY <1>0, <1>8, ClustersSteady DEF Stage
  <2>2. U.backends = BackendsAt(F, T, P \ {r})
    BY <1>0, <1>8, BackendsSteady DEF Stage
  <2>3. U.routes = RoutesAt(F, T, P \ {r})
    BY <1>0, <1>8, RoutesSteady DEF Stage
  <2>4. U.l4 = L4At(F, T, P \ {r})
    BY <1>0, <1>8, L4Steady DEF Stage
  <2>5. U.listeners = ListenersAt(F, T, P \ {r})
    <3>1. Pend(P \ {r}, "RemoveListener") = Less(Pend(P, "RemoveListener"), o)
      BY Pending
    <3>2. Pend(P \ {r}, "AddListener") = Pend(P, "AddListener")
      BY Unmoved
    <3>3. ListenersAt(F, T, P \ {r}) = ListenersAt(F, T, P) \ {o}
      BY <3>1, <3>2, <1>1 DEF ListenersAt, Less, Mid
    <3> QED
      BY <1>0, <1>8, <3>3 DEF Stage
  <2>6. U.active = ActiveAt(F, T, P \ {r})
    <3>1. ActiveAt(F, T, P \ {r}) = S.active
      BY <1>0, ActiveSteady DEF Stage
    <3> QED
      BY <1>3, <1>8, <3>1
  <2>7. Pend(P \ {r}, "DeactivateListener") \subseteq Pend(P \ {r}, "RemoveListener")
    <3>1. Pend(P \ {r}, "DeactivateListener") = {}
      BY <1>2, Unmoved
    <3> QED
      BY <3>1
  <2> QED
    BY <2>1, <2>2, <2>3, <2>4, <2>5, <2>6, <2>7 DEF Stage
<1> QED
  BY <1>6, <1>9 DEF GoesOn

(* AddBackend: its cluster has come, and it takes the place of what its key holds. *)
LEMMA AddBackendGoesOn ==
  ASSUME NEW F, NEW T, NEW P, NEW S, NEW r, Going(F, T, P, S, r), r.verb = "AddBackend"
  PROVE  GoesOn(F, T, P, S, r)
<1> DEFINE o == r.obj
           U == Dispatched(S, r)
<1>0. /\ IsState(S) /\ Keyed(F) /\ Keyed(T) /\ Keyed(S) /\ Whole(T)
      /\ Between(F, T, P) /\ Stage(F, T, P, S) /\ NextOf(P, r)
  BY DEF Going
<1>1. o \in Pend(P, "AddBackend") /\ o \in T.backends \ F.backends
  <2>1. o \in Pend(P, "AddBackend")
    BY Pending
  <2> QED
    BY <2>1, <1>0 DEF Between
<1>2. Pend(P, "AddCluster") = {}
  BY <1>0, EarlierDone DEF Tier, Tiers
<1>3. T.clusters \subseteq S.clusters
  BY <1>0, <1>2 DEF Stage, ClustersAt, Mid
<1>4. \E c \in S.clusters : c.id = o.cluster
  BY <1>0, <1>1, <1>3 DEF Whole
<1>5. Held(S, r) = {b \in S.backends : BackendKey(b) = BackendKey(o)}
  BY DEF Held
<1>6. Refusal(S, r) = None
  BY <1>4 DEF Refusal
<1>7. U = [S EXCEPT !.backends = (@ \ Held(S, r)) \cup {o}]
  BY DEF Dispatched
<1>8. /\ U.clusters = S.clusters /\ U.routes = S.routes /\ U.l4 = S.l4
      /\ U.listeners = S.listeners /\ U.active = S.active
      /\ U.backends = (S.backends \ Held(S, r)) \cup {o}
  BY <1>0, <1>7 DEF IsState
<1>9. Stage(F, T, P \ {r}, U)
  <2>1. U.clusters = ClustersAt(F, T, P \ {r})
    BY <1>0, <1>8, ClustersSteady DEF Stage
  <2>2. U.backends = BackendsAt(F, T, P \ {r})
    <3>1. Pend(P \ {r}, "AddBackend") = Less(Pend(P, "AddBackend"), o)
      BY Pending
    <3>2. Pend(P \ {r}, "RemoveBackend") = Pend(P, "RemoveBackend")
      BY Unmoved
    <3> DEFINE A == Pend(P, "AddBackend")
               R == Pend(P, "RemoveBackend")
    <3>3. /\ A \subseteq T.backends /\ \A b, d \in T.backends : BackendKey(b) = BackendKey(d) => b = d
          /\ \A b \in R : b \notin T.backends /\ BackendKey(o) # BackendKey(b)
      BY <1>0, <1>1 DEF Between, Keyed
    <3>4. S.backends = Mid(F.backends, T.backends, R \cup ReplacedBackends(F, P), A)
      BY <1>0 DEF Stage, BackendsAt
    <3>5. BackendsAt(F, T, P \ {r}) =
            Mid(F.backends, T.backends, R \cup ReplacedBackends(F, P \ {r}), Less(A, o))
      BY <3>1, <3>2 DEF BackendsAt
    <3>6. /\ ReplacedBackends(F, P) = {b \in F.backends : \E d \in A : BackendKey(d) = BackendKey(b)}
          /\ ReplacedBackends(F, P \ {r}) =
               {b \in F.backends : \E d \in Less(A, o) : BackendKey(d) = BackendKey(b)}
      BY <3>1 DEF ReplacedBackends
    <3> HIDE DEF A, R
    <3>7. ASSUME NEW b
          PROVE  b \in BackendsAt(F, T, P \ {r}) <=> b \in (S.backends \ Held(S, r)) \cup {o}
      BY <1>1, <1>5, <3>3, <3>4, <3>5, <3>6 DEF Mid, Less
    <3> QED
      BY <1>8, <3>7
  <2>3. U.routes = RoutesAt(F, T, P \ {r})
    BY <1>0, <1>8, RoutesSteady DEF Stage
  <2>4. U.l4 = L4At(F, T, P \ {r})
    BY <1>0, <1>8, L4Steady DEF Stage
  <2>5. U.listeners = ListenersAt(F, T, P \ {r})
    BY <1>0, <1>8, ListenersSteady DEF Stage
  <2>6. U.active = ActiveAt(F, T, P \ {r})
    BY <1>0, <1>8, ActiveSteady DEF Stage
  <2>7. Pend(P \ {r}, "DeactivateListener") \subseteq Pend(P \ {r}, "RemoveListener")
    BY DeactivationsSteady
  <2> QED
    BY <2>1, <2>2, <2>3, <2>4, <2>5, <2>6, <2>7 DEF Stage
<1> QED
  BY <1>6, <1>9 DEF GoesOn

(* RemoveBackend: every addition is done, and none was on its key. *)
LEMMA RemoveBackendGoesOn ==
  ASSUME NEW F, NEW T, NEW P, NEW S, NEW r, Going(F, T, P, S, r), r.verb = "RemoveBackend"
  PROVE  GoesOn(F, T, P, S, r)
<1> DEFINE o == r.obj
           U == Dispatched(S, r)
<1>0. /\ IsState(S) /\ Keyed(F) /\ Keyed(T) /\ Keyed(S) /\ Whole(T)
      /\ Between(F, T, P) /\ Stage(F, T, P, S) /\ NextOf(P, r)
  BY DEF Going
<1>1. o \in Pend(P, "RemoveBackend") /\ o \in F.backends \ T.backends
  <2>1. o \in Pend(P, "RemoveBackend")
    BY Pending
  <2> QED
    BY <2>1, <1>0 DEF Between
<1>2. Pend(P, "AddBackend") = {}
  BY <1>0, EarlierDone DEF Tier, Tiers
<1>3. o \in S.backends
  BY <1>0, <1>1 DEF Stage, BackendsAt, Mid
<1>4. Held(S, r) = {b \in S.backends : BackendKey(b) = BackendKey(o)}
  BY DEF Held
<1>5. Held(S, r) = {o}
  BY <1>0, <1>3, <1>4 DEF Keyed
<1>6. Refusal(S, r) = None
  BY <1>5 DEF Refusal
<1>7. U = [S EXCEPT !.backends = @ \ Held(S, r)]
  BY DEF Dispatched
<1>8. /\ U.clusters = S.clusters /\ U.routes = S.routes /\ U.l4 = S.l4
      /\ U.listeners = S.listeners /\ U.active = S.active
      /\ U.backends = S.backends \ Held(S, r)
  BY <1>0, <1>7 DEF IsState
<1>9. Stage(F, T, P \ {r}, U)
  <2>1. U.clusters = ClustersAt(F, T, P \ {r})
    BY <1>0, <1>8, ClustersSteady DEF Stage
  <2>2. U.backends = BackendsAt(F, T, P \ {r})
    <3>1. Pend(P \ {r}, "RemoveBackend") = Less(Pend(P, "RemoveBackend"), o)
      BY Pending
    <3>2. Pend(P \ {r}, "AddBackend") = {}
      BY <1>2, Unmoved
    <3>3. ReplacedBackends(F, P) = {} /\ ReplacedBackends(F, P \ {r}) = {}
      BY <1>2, <3>2 DEF ReplacedBackends
    <3>4. S.backends = Mid(F.backends, T.backends, Pend(P, "RemoveBackend") \cup {}, {})
      BY <1>0, <1>2, <3>3 DEF Stage, BackendsAt
    <3>5. BackendsAt(F, T, P \ {r}) =
            Mid(F.backends, T.backends, Less(Pend(P, "RemoveBackend"), o) \cup {}, {})
      BY <3>1, <3>2, <3>3 DEF BackendsAt
    <3> QED
      BY <1>1, <1>5, <1>8, <3>4, <3>5 DEF Mid, Less
  <2>3. U.routes = RoutesAt(F, T, P \ {r})
    BY <1>0, <1>8, RoutesSteady DEF Stage
  <2>4. U.l4 = L4At(F, T, P \ {r})
    BY <1>0, <1>8, L4Steady DEF Stage
  <2>5. U.listeners = ListenersAt(F, T, P \ {r})
    BY <1>0, <1>8, ListenersSteady DEF Stage
  <2>6. U.active = ActiveAt(F, T, P \ {r})
    BY <1>0, <1>8, ActiveSteady DEF Stage
  <2>7. Pend(P \ {r}, "DeactivateListener") \subseteq Pend(P \ {r}, "RemoveListener")
    BY DeactivationsSteady
  <2> QED
    BY <2>1, <2>2, <2>3, <2>4, <2>5, <2>6, <2>7 DEF Stage
<1> QED
  BY <1>6, <1>9 DEF GoesOn

(* AddCluster: it takes the place of what its id holds. *)
LEMMA AddClusterGoesOn ==
  ASSUME NEW F, NEW T, NEW P, NEW S, NEW r, Going(F, T, P, S, r), r.verb = "AddCluster"
  PROVE  GoesOn(F, T, P, S, r)
<1> DEFINE o == r.obj
           U == Dispatched(S, r)
<1>0. /\ IsState(S) /\ Keyed(F) /\ Keyed(T) /\ Keyed(S) /\ Whole(T)
      /\ Between(F, T, P) /\ Stage(F, T, P, S) /\ NextOf(P, r)
  BY DEF Going
<1>1. o \in Pend(P, "AddCluster") /\ o \in T.clusters \ F.clusters
  <2>1. o \in Pend(P, "AddCluster")
    BY Pending
  <2> QED
    BY <2>1, <1>0 DEF Between
<1>5. Held(S, r) = {c \in S.clusters : c.id = o.id}
  BY DEF Held
<1>6. Refusal(S, r) = None
  BY DEF Refusal
<1>7. U = [S EXCEPT !.clusters = (@ \ Held(S, r)) \cup {o}]
  BY DEF Dispatched
<1>8. /\ U.backends = S.backends /\ U.routes = S.routes /\ U.l4 = S.l4
      /\ U.listeners = S.listeners /\ U.active = S.active
      /\ U.clusters = (S.clusters \ Held(S, r)) \cup {o}
  BY <1>0, <1>7 DEF IsState
<1>9. Stage(F, T, P \ {r}, U)
  <2>1. U.clusters = ClustersAt(F, T, P \ {r})
    <3>1. Pend(P \ {r}, "AddCluster") = Less(Pend(P, "AddCluster"), o)
      BY Pending
    <3>2. Pend(P \ {r}, "RemoveCluster") = Pend(P, "RemoveCluster")
      BY Unmoved
    <3> DEFINE A == Pend(P, "AddCluster")
               R == Pend(P, "RemoveCluster")
    <3>3. /\ A \subseteq T.clusters /\ \A c, d \in T.clusters : c.id = d.id => c = d
          /\ \A c \in R : c \notin T.clusters /\ o.id # c.id
      BY <1>0, <1>1 DEF Between, Keyed, RemovedClusters
    <3>4. S.clusters = Mid(F.clusters, T.clusters, R \cup ReplacedClusters(F, P), A)
      BY <1>0 DEF Stage, ClustersAt
    <3>5. ClustersAt(F, T, P \ {r}) =
            Mid(F.clusters, T.clusters, R \cup ReplacedClusters(F, P \ {r}), Less(A, o))
      BY <3>1, <3>2 DEF ClustersAt
    <3>6. /\ ReplacedClusters(F, P) = {c \in F.clusters : \E d \in A : d.id = c.id}
          /\ ReplacedClusters(F, P \ {r}) = {c \in F.clusters : \E d \in Less(A, o) : d.id = c.id}
      BY <3>1 DEF ReplacedClusters
    <3> HIDE DEF A, R
    <3>7. ASSUME NEW c
          PROVE  c \in ClustersAt(F, T, P \ {r}) <=> c \in (S.clusters \ Held(S, r)) \cup {o}
      BY <1>1, <1>5, <3>3, <3>4, <3>5, <3>6, ZenonT(30) DEF Mid, Less
    <3> QED
      BY <1>8, <3>7
  <2>2. U.backends = BackendsAt(F, T, P \ {r})
    BY <1>0, <1>8, BackendsSteady DEF Stage
  <2>3. U.routes = RoutesAt(F, T, P \ {r})
    BY <1>0, <1>8, RoutesSteady DEF Stage
  <2>4. U.l4 = L4At(F, T, P \ {r})
    BY <1>0, <1>8, L4Steady DEF Stage
  <2>5. U.listeners = ListenersAt(F, T, P \ {r})
    BY <1>0, <1>8, ListenersSteady DEF Stage
  <2>6. U.active = ActiveAt(F, T, P \ {r})
    BY <1>0, <1>8, ActiveSteady DEF Stage
  <2>7. Pend(P \ {r}, "DeactivateListener") \subseteq Pend(P \ {r}, "RemoveListener")
    BY DeactivationsSteady
  <2> QED
    BY <2>1, <2>2, <2>3, <2>4, <2>5, <2>6, <2>7 DEF Stage
<1> QED
  BY <1>6, <1>9 DEF GoesOn

(* Nothing names the cluster. *)
Unnamed(S, id) == \A o \in S.backends \cup S.routes \cup S.l4 : o.cluster # id

(* When a cluster goes, everything else has, and nothing names it. *)
LEMMA ClusterGoesLast ==
  ASSUME NEW F, NEW T, NEW P, NEW S, NEW r, Going(F, T, P, S, r), r.verb = "RemoveCluster"
  PROVE  /\ S.backends = T.backends /\ S.routes = T.routes /\ S.l4 = T.l4
         /\ Unnamed(T, r.obj.id) /\ Unnamed(S, r.obj.id)
<1> DEFINE o == r.obj
<1>0. /\ Keyed(F) /\ Whole(T) /\ Between(F, T, P) /\ Stage(F, T, P, S) /\ NextOf(P, r)
  BY DEF Going
<1>1. o \in F.clusters /\ \A d \in T.clusters : d.id # o.id
  <2>1. o \in Pend(P, "RemoveCluster")
    BY Pending
  <2> QED
    BY <2>1, <1>0 DEF Between, RemovedClusters
<1>2. \A verb \in RoutingVerbs \ {"RemoveCluster"} : Pend(P, verb) = {}
  <2> SUFFICES ASSUME NEW verb \in RoutingVerbs, verb # "RemoveCluster"
               PROVE  Pend(P, verb) = {}
    OBVIOUS
  <2>1. Tier(verb) < Tier(r.verb)
    BY DEF Tier, Tiers, RoutingVerbs
  <2> QED
    BY <1>0, <2>1, EarlierDone
<1>3. S.backends = T.backends /\ S.routes = T.routes /\ S.l4 = T.l4
  <2>1. /\ Pend(P, "AddBackend") = {} /\ Pend(P, "RemoveBackend") = {}
        /\ Pend(P, "AddFrontend") = {} /\ Pend(P, "RemoveFrontend") = {}
        /\ Pend(P, "AddL4") = {} /\ Pend(P, "RemoveL4") = {}
    BY <1>2 DEF RoutingVerbs
  <2>2. ReplacedBackends(F, P) = {}
    BY <2>1 DEF ReplacedBackends
  <2>3. BackendsAt(F, T, P) = T.backends
    BY <2>1, <2>2 DEF BackendsAt, Mid
  <2>4. RoutesAt(F, T, P) = T.routes
    BY <2>1 DEF RoutesAt, Mid
  <2>5. L4At(F, T, P) = T.l4
    BY <2>1 DEF L4At, Mid
  <2> QED
    BY <1>0, <2>3, <2>4, <2>5 DEF Stage
<1>4. o.id # NoCluster
  BY <1>0, <1>1 DEF Keyed
<1>5. Unnamed(T, o.id)
  BY <1>0, <1>1, <1>4 DEF Whole, Unnamed
<1> QED
  BY <1>3, <1>5 DEF Unnamed

(* RemoveCluster: all that named it has gone, and it takes nothing along. *)
LEMMA RemoveClusterGoesOn ==
  ASSUME NEW F, NEW T, NEW P, NEW S, NEW r, Going(F, T, P, S, r), r.verb = "RemoveCluster"
  PROVE  GoesOn(F, T, P, S, r)
<1> DEFINE o == r.obj
           U == Dispatched(S, r)
<1>0. /\ IsState(S) /\ Keyed(F) /\ Keyed(T) /\ Keyed(S) /\ Whole(T)
      /\ Between(F, T, P) /\ Stage(F, T, P, S) /\ NextOf(P, r)
  BY DEF Going
<1>1. o \in Pend(P, "RemoveCluster") /\ o \in F.clusters /\ \A d \in T.clusters : d.id # o.id
  <2>1. o \in Pend(P, "RemoveCluster")
    BY Pending
  <2> QED
    BY <2>1, <1>0 DEF Between, RemovedClusters
<1>2. \A verb \in RoutingVerbs \ {"RemoveCluster"} : Pend(P, verb) = {}
  <2> SUFFICES ASSUME NEW verb \in RoutingVerbs, verb # "RemoveCluster"
               PROVE  Pend(P, verb) = {}
    OBVIOUS
  <2>1. Tier(verb) < Tier(r.verb)
    BY DEF Tier, Tiers, RoutingVerbs
  <2> QED
    BY <1>0, <2>1, EarlierDone
<1>3. Unnamed(S, o.id)
  BY ClusterGoesLast
<1>4. Held(S, r) = {c \in S.clusters : c.id = o.id}
  BY DEF Held
<1>5. Held(S, r) = {o}
  <2>1. o \in S.clusters
    BY <1>0, <1>1 DEF Stage, ClustersAt, Mid
  <2> QED
    BY <1>0, <1>4, <2>1 DEF Keyed
<1>6. Refusal(S, r) = None
  BY <1>5 DEF Refusal
<1>7. U = [S EXCEPT !.clusters = @ \ Held(S, r), !.backends = {x \in @ : x.cluster # o.id},
                        !.routes = {x \in @ : x.cluster # o.id}, !.l4 = {x \in @ : x.cluster # o.id}]
  BY DEF Dispatched
<1>8. /\ U.listeners = S.listeners /\ U.active = S.active
      /\ U.clusters = S.clusters \ Held(S, r)
      /\ U.backends = {x \in S.backends : x.cluster # o.id}
      /\ U.routes = {x \in S.routes : x.cluster # o.id}
      /\ U.l4 = {x \in S.l4 : x.cluster # o.id}
  BY <1>0, <1>7 DEF IsState
<1>9. Stage(F, T, P \ {r}, U)
  <2>1. U.clusters = ClustersAt(F, T, P \ {r})
    <3>1. Pend(P \ {r}, "RemoveCluster") = Less(Pend(P, "RemoveCluster"), o)
      BY Pending
    <3>2. Pend(P \ {r}, "AddCluster") = {} /\ Pend(P, "AddCluster") = {}
      BY <1>2, Unmoved DEF RoutingVerbs
    <3>3. ReplacedClusters(F, P) = {} /\ ReplacedClusters(F, P \ {r}) = {}
      BY <3>2 DEF ReplacedClusters
    <3>4. S.clusters = Mid(F.clusters, T.clusters, Pend(P, "RemoveCluster") \cup {}, {})
      BY <1>0, <3>2, <3>3 DEF Stage, ClustersAt
    <3>5. ClustersAt(F, T, P \ {r}) =
            Mid(F.clusters, T.clusters, Less(Pend(P, "RemoveCluster"), o) \cup {}, {})
      BY <3>1, <3>2, <3>3 DEF ClustersAt
    <3> QED
      BY <1>1, <1>5, <1>8, <3>4, <3>5 DEF Mid, Less
  <2>2. U.backends = BackendsAt(F, T, P \ {r})
    <3>1. U.backends = S.backends
      BY <1>3, <1>8 DEF Unnamed
    <3> QED
      BY <1>0, <3>1, BackendsSteady DEF Stage
  <2>3. U.routes = RoutesAt(F, T, P \ {r})
    <3>1. U.routes = S.routes
      BY <1>3, <1>8 DEF Unnamed
    <3> QED
      BY <1>0, <3>1, RoutesSteady DEF Stage
  <2>4. U.l4 = L4At(F, T, P \ {r})
    <3>1. U.l4 = S.l4
      BY <1>3, <1>8 DEF Unnamed
    <3> QED
      BY <1>0, <3>1, L4Steady DEF Stage
  <2>5. U.listeners = ListenersAt(F, T, P \ {r})
    BY <1>0, <1>8, ListenersSteady DEF Stage
  <2>6. U.active = ActiveAt(F, T, P \ {r})
    BY <1>0, <1>8, ActiveSteady DEF Stage
  <2>7. Pend(P \ {r}, "DeactivateListener") \subseteq Pend(P \ {r}, "RemoveListener")
    BY DeactivationsSteady
  <2> QED
    BY <2>1, <2>2, <2>3, <2>4, <2>5, <2>6, <2>7 DEF Stage
<1> QED
  BY <1>6, <1>9 DEF GoesOn

(* Whatever the next request is about. *)
LEMMA RequestGoesOn ==
  ASSUME NEW F, NEW T, NEW P, NEW S, NEW r, Going(F, T, P, S, r)
  PROVE  GoesOn(F, T, P, S, r)
<1>1. r.verb \in RoutingVerbs
  BY DEF Going, NextOf, Between
<1> QED
  BY <1>1, AddClusterGoesOn, RemoveClusterGoesOn, AddBackendGoesOn, RemoveBackendGoesOn,
     AddFrontendGoesOn, RemoveFrontendGoesOn, AddL4GoesOn, RemoveL4GoesOn, AddListenerGoesOn,
     RemoveListenerGoesOn, ActivateListenerGoesOn, DeactivateListenerGoesOn
     DEF RoutingVerbs

-----------------------------------------------------------------------------
(* The batch between two states. *)

(* RoutingBatch, of states. *)
Diffed(F, T) == DropSuperseded(ExpandClusterRemovals(F, ConfigDiff(F, T)))

GoneIds(F, T) == {c.id : c \in RemovedClusters(F, T)}

(* What goes: what differs, and what a removed cluster takes along. *)
Leaving(F, T, from, to) ==
  {o \in from \ to : o.cluster \notin GoneIds(F, T)} \cup {o \in from : o.cluster \in GoneIds(F, T)}

(* What a request of the batch asks for. *)
Asked(F, T, r) ==
  \/ r.verb = "RemoveCluster" /\ r.obj \in RemovedClusters(F, T)
  \/ r.verb = "AddCluster" /\ r.obj \in T.clusters \ F.clusters
  \/ /\ r.verb = "RemoveBackend" /\ r.obj \in Leaving(F, T, F.backends, T.backends)
     /\ \A d \in T.backends \ F.backends : BackendKey(d) # BackendKey(r.obj)
  \/ r.verb = "AddBackend" /\ r.obj \in T.backends \ F.backends
  \/ r.verb = "RemoveFrontend" /\ r.obj \in Leaving(F, T, F.routes, T.routes)
  \/ r.verb = "AddFrontend" /\ r.obj \in T.routes \ F.routes
  \/ r.verb = "RemoveL4" /\ r.obj \in Leaving(F, T, F.l4, T.l4)
  \/ r.verb = "AddL4" /\ r.obj \in T.l4 \ F.l4
  \/ r.verb \in {"DeactivateListener", "RemoveListener"} /\ r.obj \in F.listeners \ T.listeners
  \/ r.verb \in {"AddListener", "ActivateListener"} /\ r.obj \in T.listeners \ F.listeners

(* The fields of a request. *)
LEMMA RequestFields ==
  ASSUME NEW v, NEW o
  PROVE  Request(v, o).verb = v /\ Request(v, o).obj = o
BY DEF Request

(* What is in a set of requests of one verb. *)
LEMMA InRequests ==
  ASSUME NEW r, NEW v, NEW X
  PROVE  r \in Requests(v, X) <=> r = Request(v, r.obj) /\ r.obj \in X
BY RequestFields DEF Requests

(* What ConfigState::diff asks for. *)
LEMMA InConfigDiff ==
  ASSUME NEW F, NEW T, NEW r
  PROVE  r \in ConfigDiff(F, T) <=>
           \/ r = Request("RemoveCluster", r.obj) /\ r.obj \in RemovedClusters(F, T)
           \/ r = Request("AddCluster", r.obj) /\ r.obj \in T.clusters \ F.clusters
           \/ /\ r = Request("RemoveBackend", r.obj)
              /\ r.obj \in {o \in F.backends \ T.backends : o.cluster \notin GoneIds(F, T)}
           \/ r = Request("AddBackend", r.obj) /\ r.obj \in T.backends \ F.backends
           \/ /\ r = Request("RemoveFrontend", r.obj)
              /\ r.obj \in {o \in F.routes \ T.routes : o.cluster \notin GoneIds(F, T)}
           \/ r = Request("AddFrontend", r.obj) /\ r.obj \in T.routes \ F.routes
           \/ /\ r = Request("RemoveL4", r.obj)
              /\ r.obj \in {o \in F.l4 \ T.l4 : o.cluster \notin GoneIds(F, T)}
           \/ r = Request("AddL4", r.obj) /\ r.obj \in T.l4 \ F.l4
           \/ r = Request("DeactivateListener", r.obj) /\ r.obj \in F.listeners \ T.listeners
           \/ r = Request("RemoveListener", r.obj) /\ r.obj \in F.listeners \ T.listeners
           \/ r = Request("AddListener", r.obj) /\ r.obj \in T.listeners \ F.listeners
           \/ r = Request("ActivateListener", r.obj) /\ r.obj \in T.listeners \ F.listeners
<1>1. \A v, X : r \in Requests(v, X) <=> r = Request(v, r.obj) /\ r.obj \in X
  BY InRequests
<1> QED
  BY <1>1 DEF ConfigDiff, GoneIds

(* What expand_cluster_removals adds to it. *)
LEMMA InExpanded ==
  ASSUME NEW F, NEW T, NEW r
  PROVE  r \in ExpandClusterRemovals(F, ConfigDiff(F, T)) <=>
           \/ r \in ConfigDiff(F, T)
           \/ /\ r = Request("RemoveBackend", r.obj)
              /\ r.obj \in {o \in F.backends : o.cluster \in GoneIds(F, T)}
           \/ /\ r = Request("RemoveFrontend", r.obj)
              /\ r.obj \in {o \in F.routes : o.cluster \in GoneIds(F, T)}
           \/ /\ r = Request("RemoveL4", r.obj)
              /\ r.obj \in {o \in F.l4 : o.cluster \in GoneIds(F, T)}
<1> DEFINE B == ConfigDiff(F, T)
           gone == {q.obj.id : q \in {s \in B : s.verb = "RemoveCluster"}}
<1>1. ASSUME NEW q \in B, q.verb = "RemoveCluster"
      PROVE  q.obj \in RemovedClusters(F, T)
  BY <1>1, InConfigDiff, RequestFields
<1>2. ASSUME NEW c \in RemovedClusters(F, T)
      PROVE  Request("RemoveCluster", c) \in B
  BY InConfigDiff, RequestFields
<1>3. gone = GoneIds(F, T)
  <2>1. ASSUME NEW i \in gone PROVE i \in GoneIds(F, T)
    BY <2>1, <1>1 DEF GoneIds
  <2>2. ASSUME NEW i \in GoneIds(F, T) PROVE i \in gone
    BY <2>2, <1>2, RequestFields DEF GoneIds
  <2> QED
    BY <2>1, <2>2
<1>4. ExpandClusterRemovals(F, B) =
        B \cup Requests("RemoveBackend", {o \in F.backends : o.cluster \in gone})
          \cup Requests("RemoveFrontend", {o \in F.routes : o.cluster \in gone})
          \cup Requests("RemoveL4", {o \in F.l4 : o.cluster \in gone})
  BY DEF ExpandClusterRemovals
<1> HIDE DEF B, gone
<1>5. \A v, X : r \in Requests(v, X) <=> r = Request(v, r.obj) /\ r.obj \in X
  BY InRequests
<1> QED
  BY <1>3, <1>4, <1>5 DEF B

(* What the batch asks for. *)
LEMMA InDiffed ==
  ASSUME NEW F, NEW T, NEW r
  PROVE  r \in Diffed(F, T) <=> r = Request(r.verb, r.obj) /\ Asked(F, T, r)
<1> DEFINE E == ExpandClusterRemovals(F, ConfigDiff(F, T))
           added == {BackendKey(q.obj) : q \in {s \in E : s.verb = "AddBackend"}}
<1>1. \A v : r = Request(v, r.obj) <=> r = Request(r.verb, r.obj) /\ r.verb = v
  BY RequestFields
<1>2. ASSUME NEW q \in E, q.verb = "AddBackend"
      PROVE  q.obj \in T.backends \ F.backends
  BY <1>2, InExpanded, InConfigDiff, RequestFields
<1>3. ASSUME NEW d \in T.backends \ F.backends
      PROVE  Request("AddBackend", d) \in E
  BY InExpanded, InConfigDiff, RequestFields
<1>4. added = {BackendKey(d) : d \in T.backends \ F.backends}
  <2>1. ASSUME NEW k \in added PROVE k \in {BackendKey(d) : d \in T.backends \ F.backends}
    BY <2>1, <1>2
  <2>2. ASSUME NEW k \in {BackendKey(d) : d \in T.backends \ F.backends} PROVE k \in added
    BY <2>2, <1>3, RequestFields
  <2> QED
    BY <2>1, <2>2
<1>5. Diffed(F, T) = {q \in E : ~(q.verb = "RemoveBackend" /\ BackendKey(q.obj) \in added)}
  BY DEF Diffed, DropSuperseded
<1> HIDE DEF E, added
<1>6. r \in Diffed(F, T) <=>
        r \in E /\ (r.verb = "RemoveBackend" =>
                       \A d \in T.backends \ F.backends : BackendKey(d) # BackendKey(r.obj))
  BY <1>4, <1>5
<1>7. r \in E <=> \/ r \in ConfigDiff(F, T)
                  \/ /\ r = Request("RemoveBackend", r.obj)
                     /\ r.obj \in {o \in F.backends : o.cluster \in GoneIds(F, T)}
                  \/ /\ r = Request("RemoveFrontend", r.obj)
                     /\ r.obj \in {o \in F.routes : o.cluster \in GoneIds(F, T)}
                  \/ /\ r = Request("RemoveL4", r.obj)
                     /\ r.obj \in {o \in F.l4 : o.cluster \in GoneIds(F, T)}
  BY InExpanded DEF E
<1> QED
  BY <1>1, <1>6, <1>7, InConfigDiff DEF Asked, Leaving

(* Between whole states, what goes is what differs. *)
LEMMA LeavingDiffers ==
  ASSUME NEW F, NEW T, Keyed(F), Whole(T)
  PROVE  /\ Leaving(F, T, F.backends, T.backends) = F.backends \ T.backends
         /\ Leaving(F, T, F.routes, T.routes) = F.routes \ T.routes
         /\ Leaving(F, T, F.l4, T.l4) = F.l4 \ T.l4
<1>1. \A i \in GoneIds(F, T) : i # NoCluster /\ \A d \in T.clusters : d.id # i
  BY DEF GoneIds, RemovedClusters, Keyed
<1>2. \A b \in T.backends : b.cluster \notin GoneIds(F, T)
  BY <1>1 DEF Whole
<1>3. \A f \in T.routes : f.cluster \notin GoneIds(F, T)
  BY <1>1 DEF Whole
<1>4. \A f \in T.l4 : f.cluster \notin GoneIds(F, T)
  BY <1>1 DEF Whole
<1> QED
  BY <1>2, <1>3, <1>4 DEF Leaving

(* The objects the requests of the batch are about. *)
LEMMA PendDiffed ==
  ASSUME NEW F, NEW T, NEW verb, NEW o
  PROVE  o \in Pend(Diffed(F, T), verb) <=> Asked(F, T, Request(verb, o))
<1>1. ASSUME NEW q \in Diffed(F, T), q.verb = verb, q.obj = o
      PROVE  Asked(F, T, Request(verb, o))
  BY <1>1, InDiffed
<1>2. ASSUME Asked(F, T, Request(verb, o))
      PROVE  Request(verb, o) \in Diffed(F, T)
  BY <1>2, InDiffed, RequestFields
<1> QED
  BY <1>1, <1>2, RequestFields DEF Pend

(* The batch removes and adds what differs. *)
LEMMA BatchBetween ==
  ASSUME NEW F, NEW T, Keyed(F), Whole(T)
  PROVE  Between(F, T, Diffed(F, T))
<1> DEFINE D == Diffed(F, T)
<1>1. \A r \in D : r = Request(r.verb, r.obj) /\ Asked(F, T, r)
  BY InDiffed
<1>2. Plain(D) /\ \A r \in D : r.verb \in RoutingVerbs
  BY <1>1 DEF Plain, Asked, RoutingVerbs
<1>3. \A verb, o : o \in Pend(D, verb) => Asked(F, T, Request(verb, o))
  BY PendDiffed
<1> HIDE DEF D
<1>4. \A o : /\ o \in Pend(D, "RemoveCluster") => o \in RemovedClusters(F, T)
             /\ o \in Pend(D, "AddCluster") => o \in T.clusters \ F.clusters
             /\ o \in Pend(D, "AddBackend") => o \in T.backends \ F.backends
             /\ o \in Pend(D, "AddFrontend") => o \in T.routes \ F.routes
             /\ o \in Pend(D, "AddL4") => o \in T.l4 \ F.l4
             /\ o \in Pend(D, "DeactivateListener") => o \in F.listeners \ T.listeners
             /\ o \in Pend(D, "RemoveListener") => o \in F.listeners \ T.listeners
             /\ o \in Pend(D, "AddListener") => o \in T.listeners \ F.listeners
             /\ o \in Pend(D, "ActivateListener") => o \in T.listeners \ F.listeners
  BY <1>3, RequestFields DEF Asked
<1>5. \A o : /\ o \in Pend(D, "RemoveBackend") =>
                  o \in {b \in F.backends \ T.backends :
                           \A d \in T.backends \ F.backends : BackendKey(d) # BackendKey(b)}
             /\ o \in Pend(D, "RemoveFrontend") => o \in F.routes \ T.routes
             /\ o \in Pend(D, "RemoveL4") => o \in F.l4 \ T.l4
  BY <1>3, RequestFields, LeavingDiffers DEF Asked
<1> QED
  BY <1>2, <1>4, <1>5 DEF Between, D

(* With the whole batch to go, Sozu has what it was diffed from. *)
LEMMA BatchBegins ==
  ASSUME NEW F, NEW T, Keyed(F), Whole(T), F.active = F.listeners
  PROVE  Stage(F, T, Diffed(F, T), F)
<1> DEFINE D == Diffed(F, T)
<1>1. \A verb, o : o \in Pend(D, verb) <=> Asked(F, T, Request(verb, o))
  BY PendDiffed
<1> HIDE DEF D
<1>2. \A o : /\ o \in Pend(D, "RemoveCluster") <=> o \in RemovedClusters(F, T)
             /\ o \in Pend(D, "AddCluster") <=> o \in T.clusters \ F.clusters
             /\ o \in Pend(D, "AddBackend") <=> o \in T.backends \ F.backends
             /\ o \in Pend(D, "AddFrontend") <=> o \in T.routes \ F.routes
             /\ o \in Pend(D, "AddL4") <=> o \in T.l4 \ F.l4
             /\ o \in Pend(D, "DeactivateListener") <=> o \in F.listeners \ T.listeners
             /\ o \in Pend(D, "RemoveListener") <=> o \in F.listeners \ T.listeners
             /\ o \in Pend(D, "AddListener") <=> o \in T.listeners \ F.listeners
             /\ o \in Pend(D, "ActivateListener") <=> o \in T.listeners \ F.listeners
  BY <1>1, RequestFields DEF Asked
<1>3. \A o : /\ o \in Pend(D, "RemoveBackend") <=>
                  /\ o \in F.backends \ T.backends
                  /\ \A d \in T.backends \ F.backends : BackendKey(d) # BackendKey(o)
             /\ o \in Pend(D, "RemoveFrontend") <=> o \in F.routes \ T.routes
             /\ o \in Pend(D, "RemoveL4") <=> o \in F.l4 \ T.l4
  BY <1>1, RequestFields, LeavingDiffers DEF Asked
<1>4. F.clusters = ClustersAt(F, T, D)
  <2>1. \A c \in F.clusters \ T.clusters :
          c \in Pend(D, "RemoveCluster") \/ c \in ReplacedClusters(F, D)
    <3> SUFFICES ASSUME NEW c \in F.clusters, c \notin T.clusters, c \notin RemovedClusters(F, T)
                 PROVE  c \in ReplacedClusters(F, D)
      BY <1>2
    <3>1. PICK d \in T.clusters : d.id = c.id
      BY DEF RemovedClusters
    <3>2. d \in T.clusters \ F.clusters
      BY <3>1 DEF Keyed
    <3> QED
      BY <3>1, <3>2, <1>2 DEF ReplacedClusters
  <2> QED
    BY <1>2, <2>1 DEF ClustersAt, Mid
<1>5. F.backends = BackendsAt(F, T, D)
  <2>1. \A b \in F.backends \ T.backends :
          b \in Pend(D, "RemoveBackend") \/ b \in ReplacedBackends(F, D)
    BY <1>2, <1>3 DEF ReplacedBackends
  <2> QED
    BY <1>2, <2>1 DEF BackendsAt, Mid
<1>6. F.routes = RoutesAt(F, T, D)
  BY <1>2, <1>3 DEF RoutesAt, Mid
<1>7. F.l4 = L4At(F, T, D)
  BY <1>2, <1>3 DEF L4At, Mid
<1>8. F.listeners = ListenersAt(F, T, D)
  BY <1>2 DEF ListenersAt, Mid
<1>9. F.active = ActiveAt(F, T, D)
  BY <1>2 DEF ActiveAt, Mid
<1>10. Pend(D, "DeactivateListener") \subseteq Pend(D, "RemoveListener")
  BY <1>2
<1> QED
  BY <1>4, <1>5, <1>6, <1>7, <1>8, <1>9, <1>10 DEF Stage, D

(* With nothing to go, it has what was asked for. *)
LEMMA BatchEnds ==
  ASSUME NEW F, NEW T, NEW S, IsState(S), IsState(T), T.active = T.listeners, Stage(F, T, {}, S)
  PROVE  S = T
<1>1. \A verb : Pend({}, verb) = {}
  BY DEF Pend
<1>2. ReplacedClusters(F, {}) = {} /\ ReplacedBackends(F, {}) = {}
  BY <1>1 DEF ReplacedClusters, ReplacedBackends
<1>3. ClustersAt(F, T, {}) = T.clusters
  BY <1>1, <1>2 DEF ClustersAt, Mid
<1>4. BackendsAt(F, T, {}) = T.backends
  BY <1>1, <1>2 DEF BackendsAt, Mid
<1>5. RoutesAt(F, T, {}) = T.routes
  BY <1>1 DEF RoutesAt, Mid
<1>6. L4At(F, T, {}) = T.l4
  BY <1>1 DEF L4At, Mid
<1>7. ListenersAt(F, T, {}) = T.listeners
  BY <1>1 DEF ListenersAt, Mid
<1>8. ActiveAt(F, T, {}) = T.listeners
  BY <1>1 DEF ActiveAt, Mid
<1>9. /\ S.clusters = T.clusters /\ S.backends = T.backends /\ S.routes = T.routes
      /\ S.l4 = T.l4 /\ S.listeners = T.listeners /\ S.active = T.active
  BY <1>3, <1>4, <1>5, <1>6, <1>7, <1>8 DEF Stage
<1> QED
  BY <1>9 DEF IsState

(* A batch that began somewhere is a batch between, whatever of it is done. *)
LEMMA BetweenLess ==
  ASSUME NEW F, NEW T, NEW P, NEW Q, Between(F, T, P), Q \subseteq P
  PROVE  Between(F, T, Q)
<1>1. \A verb : Pend(Q, verb) \subseteq Pend(P, verb)
  BY DEF Pend
<1>2. Plain(Q) /\ \A r \in Q : r.verb \in RoutingVerbs
  BY DEF Between, Plain
<1> QED
  BY <1>1, <1>2 DEF Between

-----------------------------------------------------------------------------
(* Sozu's maps hold one object to a key, whatever it is sent. *)

(* What may be sent: a cluster that is added has an id. *)
Sendable(r) == r.verb \in RoutingVerbs /\ (r.verb = "AddCluster" => r.obj.id # NoCluster)

(* Taking away leaves a map a map. *)
LEMMA SubKeyed ==
  ASSUME NEW S, NEW U, Keyed(S), U.clusters \subseteq S.clusters, U.backends \subseteq S.backends,
         U.routes \subseteq S.routes, U.l4 \subseteq S.l4
  PROVE  Keyed(U)
BY DEF Keyed

(* A request that is taken leaves maps. *)
LEMMA DispatchedKeyed ==
  ASSUME NEW S, NEW r, IsState(S), Keyed(S), Sendable(r),
         r.verb \in {"AddFrontend", "AddL4"} => Held(S, r) = {}
  PROVE  IsState(Dispatched(S, r)) /\ Keyed(Dispatched(S, r))
<1> DEFINE U == Dispatched(S, r)
           o == r.obj
<1>1. CASE r.verb = "AddCluster"
  <2>1. U = [S EXCEPT !.clusters = (@ \ Held(S, r)) \cup {o}]
    BY <1>1 DEF Dispatched
  <2>2. /\ IsState(U) /\ U.clusters = (S.clusters \ Held(S, r)) \cup {o}
        /\ U.backends = S.backends
        /\ U.routes = S.routes /\ U.l4 = S.l4
    BY <2>1 DEF IsState
  <2>3. Held(S, r) = {x \in S.clusters : x.id = o.id}
    BY <1>1 DEF Held
  <2>4. \A x \in S.clusters \ Held(S, r) : x.id # o.id
    BY <2>3
  <2> HIDE DEF U
  <2>5. Keyed(U)
    BY <1>1, <2>2, <2>4 DEF Keyed, Sendable
  <2> QED
    BY <2>2, <2>5 DEF U
<1>2. CASE r.verb = "AddBackend"
  <2>1. U = [S EXCEPT !.backends = (@ \ Held(S, r)) \cup {o}]
    BY <1>2 DEF Dispatched
  <2>2. /\ IsState(U) /\ U.clusters = S.clusters
        /\ U.backends = (S.backends \ Held(S, r)) \cup {o}
        /\ U.routes = S.routes /\ U.l4 = S.l4
    BY <2>1 DEF IsState
  <2>3. Held(S, r) = {x \in S.backends : BackendKey(x) = BackendKey(o)}
    BY <1>2 DEF Held
  <2>4. \A x \in S.backends \ Held(S, r) : BackendKey(x) # BackendKey(o)
    BY <2>3
  <2> HIDE DEF U
  <2>5. Keyed(U)
    BY <1>2, <2>2, <2>4 DEF Keyed, Sendable
  <2> QED
    BY <2>2, <2>5 DEF U
<1>3. CASE r.verb = "AddFrontend"
  <2>1. U = [S EXCEPT !.routes = @ \cup {o}]
    BY <1>3 DEF Dispatched
  <2>2. /\ IsState(U) /\ U.clusters = S.clusters
        /\ U.backends = S.backends
        /\ U.routes = S.routes \cup {o} /\ U.l4 = S.l4
    BY <2>1 DEF IsState
  <2>3. Held(S, r) = {x \in S.routes : x.key = o.key}
    BY <1>3 DEF Held
  <2>4. \A x \in S.routes \ Held(S, r) : x.key # o.key
    BY <2>3
  <2> HIDE DEF U
  <2>5. Keyed(U)
    BY <1>3, <2>2, <2>4 DEF Keyed
  <2> QED
    BY <2>2, <2>5 DEF U
<1>4. CASE r.verb = "AddL4"
  <2>1. U = [S EXCEPT !.l4 = @ \cup {o}]
    BY <1>4 DEF Dispatched
  <2>2. /\ IsState(U) /\ U.clusters = S.clusters
        /\ U.backends = S.backends
        /\ U.routes = S.routes /\ U.l4 = S.l4 \cup {o}
    BY <2>1 DEF IsState
  <2>3. Held(S, r) = {x \in S.l4 : L4Key(x) = L4Key(o)}
    BY <1>4 DEF Held
  <2>4. \A x \in S.l4 \ Held(S, r) : L4Key(x) # L4Key(o)
    BY <2>3
  <2> HIDE DEF U
  <2>5. Keyed(U)
    BY <1>4, <2>2, <2>4 DEF Keyed
  <2> QED
    BY <2>2, <2>5 DEF U
<1>5. CASE r.verb = "AddListener"
  <2>1. U = [S EXCEPT !.listeners = @ \cup {o}]
    BY <1>5 DEF Dispatched
  <2>2. /\ IsState(U) /\ U.clusters = S.clusters
        /\ U.backends = S.backends
        /\ U.routes = S.routes /\ U.l4 = S.l4
    BY <2>1 DEF IsState
  <2> HIDE DEF U
  <2>3. Keyed(U)
    BY <2>2, SubKeyed
  <2> QED
    BY <2>2, <2>3 DEF U
<1>6. CASE r.verb = "ActivateListener"
  <2>1. U = [S EXCEPT !.active = @ \cup {o}]
    BY <1>6 DEF Dispatched
  <2>2. /\ IsState(U) /\ U.clusters = S.clusters
        /\ U.backends = S.backends
        /\ U.routes = S.routes /\ U.l4 = S.l4
    BY <2>1 DEF IsState
  <2> HIDE DEF U
  <2>3. Keyed(U)
    BY <2>2, SubKeyed
  <2> QED
    BY <2>2, <2>3 DEF U
<1>7. CASE r.verb = "RemoveBackend"
  <2>1. U = [S EXCEPT !.backends = @ \ Held(S, r)]
    BY <1>7 DEF Dispatched
  <2>2. /\ IsState(U) /\ U.clusters = S.clusters
        /\ U.backends = S.backends \ Held(S, r)
        /\ U.routes = S.routes /\ U.l4 = S.l4
    BY <2>1 DEF IsState
  <2> HIDE DEF U
  <2>3. Keyed(U)
    BY <2>2, SubKeyed
  <2> QED
    BY <2>2, <2>3 DEF U
<1>8. CASE r.verb = "RemoveFrontend"
  <2>1. U = [S EXCEPT !.routes = @ \ Held(S, r)]
    BY <1>8 DEF Dispatched
  <2>2. /\ IsState(U) /\ U.clusters = S.clusters
        /\ U.backends = S.backends
        /\ U.routes = S.routes \ Held(S, r) /\ U.l4 = S.l4
    BY <2>1 DEF IsState
  <2> HIDE DEF U
  <2>3. Keyed(U)
    BY <2>2, SubKeyed
  <2> QED
    BY <2>2, <2>3 DEF U
<1>9. CASE r.verb = "RemoveL4"
  <2>1. U = [S EXCEPT !.l4 = @ \ Held(S, r)]
    BY <1>9 DEF Dispatched
  <2>2. /\ IsState(U) /\ U.clusters = S.clusters
        /\ U.backends = S.backends
        /\ U.routes = S.routes /\ U.l4 = S.l4 \ Held(S, r)
    BY <2>1 DEF IsState
  <2> HIDE DEF U
  <2>3. Keyed(U)
    BY <2>2, SubKeyed
  <2> QED
    BY <2>2, <2>3 DEF U
<1>10. CASE r.verb = "DeactivateListener"
  <2>1. U = [S EXCEPT !.active = @ \ {o}]
    BY <1>10 DEF Dispatched
  <2>2. /\ IsState(U) /\ U.clusters = S.clusters
        /\ U.backends = S.backends
        /\ U.routes = S.routes /\ U.l4 = S.l4
    BY <2>1 DEF IsState
  <2> HIDE DEF U
  <2>3. Keyed(U)
    BY <2>2, SubKeyed
  <2> QED
    BY <2>2, <2>3 DEF U
<1>11. CASE r.verb = "RemoveListener"
  <2>1. U = [S EXCEPT !.listeners = @ \ {o}, !.active = @ \ {o}]
    BY <1>11 DEF Dispatched
  <2>2. /\ IsState(U) /\ U.clusters = S.clusters
        /\ U.backends = S.backends
        /\ U.routes = S.routes /\ U.l4 = S.l4
    BY <2>1 DEF IsState
  <2> HIDE DEF U
  <2>3. Keyed(U)
    BY <2>2, SubKeyed
  <2> QED
    BY <2>2, <2>3 DEF U
<1>12. CASE r.verb = "RemoveCluster"
  <2>1. U = [S EXCEPT !.clusters = @ \ Held(S, r), !.backends = {x \in @ : x.cluster # o.id},
                        !.routes = {x \in @ : x.cluster # o.id}, !.l4 = {x \in @ : x.cluster # o.id}]
    BY <1>12 DEF Dispatched
  <2>2. /\ IsState(U) /\ U.clusters = S.clusters \ Held(S, r)
        /\ U.backends = {x \in S.backends : x.cluster # o.id}
        /\ U.routes = {x \in S.routes : x.cluster # o.id} /\ U.l4 = {x \in S.l4 : x.cluster # o.id}
    BY <2>1 DEF IsState
  <2> HIDE DEF U
  <2>3. Keyed(U)
    BY <2>2, SubKeyed
  <2> QED
    BY <2>2, <2>3 DEF U
<1> QED
  BY <1>1, <1>2, <1>3, <1>4, <1>5, <1>6, <1>7, <1>8, <1>9, <1>10, <1>11, <1>12
     DEF Sendable, RoutingVerbs

(* evict only takes away, all that the key holds. *)
LEMMA EvictedKeyed ==
  ASSUME NEW S, NEW r, IsState(S), Keyed(S)
  PROVE  /\ IsState(Evicted(S, r)) /\ Keyed(Evicted(S, r))
         /\ r.verb \in {"AddFrontend", "AddL4"} => Held(Evicted(S, r), r) = {}
<1> DEFINE U == Evicted(S, r)
<1>1. CASE r.verb \in {"AddFrontend", "RemoveFrontend"}
  <2>1. U = [S EXCEPT !.routes = @ \ Held(S, r)]
    BY <1>1 DEF Evicted
  <2>2. IsState(U) /\ U.clusters = S.clusters /\ U.backends = S.backends /\ U.l4 = S.l4
        /\ U.routes = S.routes \ Held(S, r)
    BY <2>1 DEF IsState
  <2>3. /\ Held(S, r) = {f \in S.routes : f.key = r.obj.key}
        /\ Held(U, r) = {f \in U.routes : f.key = r.obj.key}
    BY <1>1 DEF Held
  <2> HIDE DEF U
  <2>4. Keyed(U)
    BY <2>2, SubKeyed
  <2>5. Held(U, r) = {}
    BY <2>2, <2>3
  <2> QED
    BY <2>2, <2>4, <2>5 DEF U
<1>2. CASE r.verb \in {"AddL4", "RemoveL4"}
  <2>1. U = [S EXCEPT !.l4 = @ \ Held(S, r)]
    BY <1>2 DEF Evicted
  <2>2. IsState(U) /\ U.clusters = S.clusters /\ U.backends = S.backends /\ U.routes = S.routes
        /\ U.l4 = S.l4 \ Held(S, r)
    BY <2>1 DEF IsState
  <2>3. /\ Held(S, r) = {f \in S.l4 : L4Key(f) = L4Key(r.obj)}
        /\ Held(U, r) = {f \in U.l4 : L4Key(f) = L4Key(r.obj)}
    BY <1>2 DEF Held
  <2> HIDE DEF U
  <2>4. Keyed(U)
    BY <2>2, SubKeyed
  <2>5. Held(U, r) = {}
    BY <2>2, <2>3
  <2> QED
    BY <2>2, <2>4, <2>5 DEF U
<1>3. CASE r.verb \notin {"AddFrontend", "RemoveFrontend", "AddL4", "RemoveL4"}
  <2>1. U = S
    BY <1>3 DEF Evicted
  <2> QED
    BY <1>3, <2>1
<1> QED
  BY <1>1, <1>2, <1>3

(* So does whatever the agent does about a request. *)
LEMMA SettledKeyed ==
  ASSUME NEW S, NEW r, IsState(S), Keyed(S), Sendable(r), Settles(S, r)
  PROVE  IsState(Settled(S, r)) /\ Keyed(Settled(S, r))
<1>1. CASE Refusal(S, r) = None
  <2>1. r.verb \in {"AddFrontend", "AddL4"} => Held(S, r) = {}
    <3> SUFFICES ASSUME r.verb \in {"AddFrontend", "AddL4"}, Held(S, r) # {}
                 PROVE  FALSE
      OBVIOUS
    <3>1. Refusal(S, r) = "Exists"
      BY DEF Refusal
    <3> QED
      BY <1>1, <3>1 DEF None
  <2>2. Settled(S, r) = Dispatched(S, r)
    BY <1>1 DEF Settled, None
  <2> QED
    BY <2>1, <2>2, DispatchedKeyed
<1>2. CASE Refusal(S, r) = "NotFound"
  <2>1. Settled(S, r) = Evicted(S, r)
    BY <1>2 DEF Settled, None
  <2> QED
    BY <2>1, EvictedKeyed
<1>3. CASE Refusal(S, r) = "Exists" /\ r.verb = "AddListener"
  <2>1. Settled(S, r) = S
    BY <1>3 DEF Settled, None
  <2> QED
    BY <2>1
<1>4. CASE Refusal(S, r) = "Exists" /\ r.verb # "AddListener"
  <2>1. Settled(S, r) = Dispatched(Evicted(S, r), r)
    BY <1>4 DEF Settled, None
  <2> QED
    BY <2>1, EvictedKeyed, DispatchedKeyed
<1> QED
  BY <1>1, <1>2, <1>3, <1>4 DEF Settles

-----------------------------------------------------------------------------
(* The states IRs describe, and the batches of certificates. *)

(* The fields of the state an IR describes. *)
LEMMA RoutingStateFields ==
  ASSUME NEW ir
  PROVE  /\ IsState(RoutingState(ir))
         /\ RoutingState(ir).clusters = ClusterPayloads(ir) /\ RoutingState(ir).backends = ir.backends
         /\ RoutingState(ir).routes = UniqueFrontends(ir) /\ RoutingState(ir).l4 = ir.l4
         /\ RoutingState(ir).active = RoutingState(ir).listeners
BY DEF RoutingState, IsState

(* The first frontend on a key wins: one is left to a key. *)
LEMMA FirstWins ==
  ASSUME NEW ir \in IRs
  PROVE  \A f, g \in UniqueFrontends(ir) : f.key = g.key => f = g
<1> DEFINE fs == ir.frontends
           firsts == {j \in DOMAIN fs : \A k \in 1..(j - 1) : RouteKey(fs[k]) # RouteKey(fs[j])}
<1>1. DOMAIN fs \subseteq Nat \ {0}
  BY IRsAssumption
<1>2. UniqueFrontends(ir) = {FrontendPayload(fs[i]) : i \in firsts}
  BY DEF UniqueFrontends
<1>3. \A i, j \in firsts : RouteKey(fs[i]) = RouteKey(fs[j]) => i = j
  <2> SUFFICES ASSUME NEW i \in firsts, NEW j \in firsts, RouteKey(fs[i]) = RouteKey(fs[j]), i < j
               PROVE  FALSE
    BY <1>1
  <2>1. i \in 1..(j - 1)
    BY <1>1
  <2> QED
    BY <2>1
<1>4. \A i \in firsts : FrontendPayload(fs[i]).key = RouteKey(fs[i])
  BY DEF FrontendPayload
<1> HIDE DEF firsts
<1> QED
  BY <1>2, <1>3, <1>4

(* What may be asked for describes maps, in which nothing names a cluster that is not there. *)
LEMMA WantedWhole ==
  ASSUME NEW ir \in IRs, ~UnknownCluster(ir), ~L4Conflict(ir)
  PROVE  Keyed(RoutingState(ir)) /\ Whole(RoutingState(ir))
<1> DEFINE S == RoutingState(ir)
           udp == {f.cluster : f \in {g \in ir.l4 : g.proto = "Udp"}}
<1>1. S.clusters = ClusterPayloads(ir) /\ S.backends = ir.backends
      /\ S.routes = UniqueFrontends(ir) /\ S.l4 = ir.l4
  BY RoutingStateFields
<1>2. S.clusters = {ClusterPayload(c, c.id \in udp) : c \in ir.clusters}
  BY <1>1 DEF ClusterPayloads
<1>3. \A c, u : ClusterPayload(c, u).id = c.id
  BY DEF ClusterPayload
<1> HIDE DEF udp, S
<1>4. \A c \in S.clusters : c.id # NoCluster /\ \A d \in S.clusters : c.id = d.id => c = d
  BY <1>2, <1>3, IRsAssumption
<1>5. \A c \in ir.clusters : \E d \in S.clusters : d.id = c.id
  BY <1>2, <1>3
<1>6. \A b, d \in S.backends : BackendKey(b) = BackendKey(d) => b = d
  BY <1>1, IRsAssumption
<1>7. \A f, g \in S.routes : f.key = g.key => f = g
  BY <1>1, FirstWins
<1>8. \A f, g \in S.l4 : L4Key(f) = L4Key(g) => f = g
  BY <1>1 DEF L4Conflict
<1>9. Keyed(S)
  BY <1>4, <1>6, <1>7, <1>8 DEF Keyed
<1>10. /\ \A b \in ir.backends : \E c \in ir.clusters : c.id = b.cluster
       /\ \A f \in ir.l4 : \E c \in ir.clusters : c.id = f.cluster
       /\ \A i \in DOMAIN ir.frontends :
            ir.frontends[i].cluster = NoCluster \/ \E c \in ir.clusters : c.id = ir.frontends[i].cluster
  BY DEF UnknownCluster
<1>11. \A f \in S.routes : \E i \in DOMAIN ir.frontends : f.cluster = ir.frontends[i].cluster
  BY <1>1 DEF UniqueFrontends, FrontendPayload
<1>12. Whole(S)
  BY <1>1, <1>5, <1>10, <1>11 DEF Whole
<1> QED
  BY <1>9, <1>12 DEF S

(* The fields of a request in its place. *)
LEMMA AtFields ==
  ASSUME NEW k, NEW r
  PROVE  At(k, r).req = r /\ At(k, r).tier = Tier(r.verb)
BY DEF At

-----------------------------------------------------------------------------
(* What a Sozu that held F holds with the requests P of a batch to T to go. *)
StageOf(F, T, P) ==
  [clusters |-> ClustersAt(F, T, P), backends |-> BackendsAt(F, T, P), routes |-> RoutesAt(F, T, P),
   l4 |-> L4At(F, T, P), listeners |-> ListenersAt(F, T, P), active |-> ActiveAt(F, T, P)]

(* A set on the way to another at least as far as a third one is. *)
Nearer(held, behind, to) == behind \cap to \subseteq held /\ held \subseteq behind \cup to

(* The same of a state. *)
Ahead(S, H, T) ==
  /\ Nearer(S.clusters, H.clusters, T.clusters) /\ Nearer(S.backends, H.backends, T.backends)
  /\ Nearer(S.routes, H.routes, T.routes) /\ Nearer(S.l4, H.l4, T.l4)
  /\ Nearer(S.listeners, H.listeners, T.listeners) /\ Nearer(S.active, H.active, T.active)
  /\ S.active \subseteq S.listeners

(* What settling r makes of a state, whether Sozu takes it or refuses it. *)
Moved(S, r) ==
  CASE r.verb = "AddCluster" -> [S EXCEPT !.clusters = {c \in @ : c.id # r.obj.id} \cup {r.obj}]
    [] r.verb = "AddBackend" ->
         [S EXCEPT !.backends = {b \in @ : BackendKey(b) # BackendKey(r.obj)} \cup {r.obj}]
    [] r.verb = "AddFrontend" -> [S EXCEPT !.routes = {f \in @ : f.key # r.obj.key} \cup {r.obj}]
    [] r.verb = "AddL4" -> [S EXCEPT !.l4 = {f \in @ : L4Key(f) # L4Key(r.obj)} \cup {r.obj}]
    [] r.verb = "AddListener" -> [S EXCEPT !.listeners = @ \cup {r.obj}]
    [] r.verb = "ActivateListener" -> [S EXCEPT !.active = @ \cup {r.obj}]
    [] r.verb = "RemoveBackend" -> [S EXCEPT !.backends = {b \in @ : BackendKey(b) # BackendKey(r.obj)}]
    [] r.verb = "RemoveFrontend" -> [S EXCEPT !.routes = {f \in @ : f.key # r.obj.key}]
    [] r.verb = "RemoveL4" -> [S EXCEPT !.l4 = {f \in @ : L4Key(f) # L4Key(r.obj)}]
    [] r.verb = "DeactivateListener" -> [S EXCEPT !.active = @ \ {r.obj}]
    [] r.verb = "RemoveListener" -> [S EXCEPT !.listeners = @ \ {r.obj}, !.active = @ \ {r.obj}]
    [] r.verb = "RemoveCluster" -> [S EXCEPT !.clusters = {c \in @ : c.id # r.obj.id}]

(* What is there and is set to what it is stays as it is. *)
LEMMA SetToItself ==
  ASSUME NEW S, IsState(S)
  PROVE  /\ [S EXCEPT !.clusters = S.clusters] = S /\ [S EXCEPT !.backends = S.backends] = S
         /\ [S EXCEPT !.routes = S.routes] = S /\ [S EXCEPT !.l4 = S.l4] = S
         /\ [S EXCEPT !.listeners = S.listeners] = S /\ [S EXCEPT !.active = S.active] = S
         /\ [S EXCEPT !.listeners = S.listeners, !.active = S.active] = S
BY DEF IsState

(* A request that is taken. *)
LEMMA DispatchedMoves ==
  ASSUME NEW S, IsState(S), NEW r, r.verb \in RoutingVerbs, Refusal(S, r) = None,
         r.verb = "RemoveCluster" => Unnamed(S, r.obj.id)
  PROVE  Dispatched(S, r) = Moved(S, r)
<1>1. CASE r.verb = "AddCluster"
  BY <1>1 DEF Dispatched, Moved, Held
<1>2. CASE r.verb = "AddBackend"
  BY <1>2 DEF Dispatched, Moved, Held
<1>3. CASE r.verb = "AddFrontend"
  <2>1. {f \in S.routes : f.key # r.obj.key} = S.routes
    BY <1>3 DEF Refusal, Held, None
  <2> QED
    BY <1>3, <2>1 DEF Dispatched, Moved
<1>4. CASE r.verb = "AddL4"
  <2>1. {f \in S.l4 : L4Key(f) # L4Key(r.obj)} = S.l4
    BY <1>4 DEF Refusal, Held, None
  <2> QED
    BY <1>4, <2>1 DEF Dispatched, Moved
<1>5. CASE r.verb = "RemoveBackend"
  BY <1>5 DEF Dispatched, Moved, Held
<1>6. CASE r.verb = "RemoveFrontend"
  BY <1>6 DEF Dispatched, Moved, Held
<1>7. CASE r.verb = "RemoveL4"
  BY <1>7 DEF Dispatched, Moved, Held
<1>8. CASE r.verb = "RemoveCluster"
  <2>1. /\ {b \in S.backends : b.cluster # r.obj.id} = S.backends
        /\ {f \in S.routes : f.cluster # r.obj.id} = S.routes
        /\ {f \in S.l4 : f.cluster # r.obj.id} = S.l4
    BY <1>8 DEF Unnamed
  <2>2. S.clusters \ Held(S, r) = {c \in S.clusters : c.id # r.obj.id}
    BY <1>8 DEF Held
  <2>3. Dispatched(S, r) =
          [S EXCEPT !.clusters = @ \ Held(S, r), !.backends = {x \in @ : x.cluster # r.obj.id},
                    !.routes = {x \in @ : x.cluster # r.obj.id}, !.l4 = {x \in @ : x.cluster # r.obj.id}]
    BY <1>8 DEF Dispatched
  <2>4. Moved(S, r) = [S EXCEPT !.clusters = {c \in @ : c.id # r.obj.id}]
    BY <1>8 DEF Moved
  <2> DEFINE C == {c \in S.clusters : c.id # r.obj.id}
  <2>5. Dispatched(S, r) = [S EXCEPT !.clusters = C, !.backends = S.backends, !.routes = S.routes, !.l4 = S.l4]
    BY <2>1, <2>2, <2>3
  <2> HIDE DEF C
  <2>6. [S EXCEPT !.clusters = C, !.backends = S.backends, !.routes = S.routes, !.l4 = S.l4]
          = [S EXCEPT !.clusters = C]
    BY DEF IsState
  <2> QED
    BY <2>4, <2>5, <2>6 DEF C
<1>9. CASE r.verb \in {"AddListener", "ActivateListener", "DeactivateListener", "RemoveListener"}
  BY <1>9 DEF Dispatched, Moved
<1> QED
  BY <1>1, <1>2, <1>3, <1>4, <1>5, <1>6, <1>7, <1>8, <1>9 DEF RoutingVerbs

(* A request that is refused, and that the agent settles. *)
LEMMA SettledMoves ==
  ASSUME NEW S, IsState(S), S.active \subseteq S.listeners, NEW r, r.verb \in RoutingVerbs, Settles(S, r),
         r.verb = "RemoveCluster" => Unnamed(S, r.obj.id)
  PROVE  Settled(S, r) = Moved(S, r)
<1>1. CASE Refusal(S, r) = None
  BY <1>1, DispatchedMoves DEF Settled, None
<1>2. CASE Refusal(S, r) = "NotFound"
  <2>0. Settled(S, r) = Evicted(S, r) /\ r.verb \in Teardowns
    BY <1>2 DEF Settled, Settles, None
  <2>1. CASE r.verb = "RemoveCluster"
    <3>1. {c \in S.clusters : c.id # r.obj.id} = S.clusters
      BY <1>2, <2>1 DEF Refusal, Held, None
    <3> QED
      BY <2>0, <2>1, <3>1, SetToItself DEF Evicted, Moved
  <2>2. CASE r.verb = "RemoveBackend"
    <3>1. {b \in S.backends : BackendKey(b) # BackendKey(r.obj)} = S.backends
      BY <1>2, <2>2 DEF Refusal, Held, None
    <3> QED
      BY <2>0, <2>2, <3>1, SetToItself DEF Evicted, Moved
  <2>3. CASE r.verb = "RemoveFrontend"
    BY <2>0, <2>3 DEF Evicted, Moved, Held
  <2>4. CASE r.verb = "RemoveL4"
    BY <2>0, <2>4 DEF Evicted, Moved, Held
  <2>5. CASE r.verb = "RemoveListener"
    <3>1. S.listeners \ {r.obj} = S.listeners /\ S.active \ {r.obj} = S.active
      BY <1>2, <2>5 DEF Refusal, Held, None
    <3> QED
      BY <2>0, <2>5, <3>1, SetToItself DEF Evicted, Moved
  <2>6. CASE r.verb = "DeactivateListener"
    <3>1. S.active \ {r.obj} = S.active
      BY <1>2, <2>6 DEF Refusal, Held, None
    <3> QED
      BY <2>0, <2>6, <3>1, SetToItself DEF Evicted, Moved
  <2> QED
    BY <2>0, <2>1, <2>2, <2>3, <2>4, <2>5, <2>6 DEF Teardowns
<1>3. CASE Refusal(S, r) = "Exists"
  <2>0. r.verb \in {"AddFrontend", "AddL4", "AddListener"} /\ Held(S, r) # {}
    BY <1>3 DEF Refusal, None
  <2>1. CASE r.verb = "AddListener"
    <3>1. S.listeners \cup {r.obj} = S.listeners
      BY <2>0, <2>1 DEF Held
    <3>2. Settled(S, r) = S
      BY <1>3, <2>1 DEF Settled, None
    <3> QED
      BY <2>1, <3>1, <3>2, SetToItself DEF Moved
  <2>2. CASE r.verb = "AddFrontend"
    <3> DEFINE V == Evicted(S, r)
    <3>1. V = [S EXCEPT !.routes = {f \in @ : f.key # r.obj.key}]
      BY <2>2 DEF Evicted, Held
    <3>2. Settled(S, r) = [V EXCEPT !.routes = @ \cup {r.obj}]
      BY <1>3, <2>2 DEF Settled, None, Dispatched
    <3>3. Moved(S, r) = [S EXCEPT !.routes = {f \in @ : f.key # r.obj.key} \cup {r.obj}]
      BY <2>2 DEF Moved
    <3> QED
      BY <3>1, <3>2, <3>3 DEF IsState
  <2>3. CASE r.verb = "AddL4"
    <3> DEFINE V == Evicted(S, r)
    <3>1. V = [S EXCEPT !.l4 = {f \in @ : L4Key(f) # L4Key(r.obj)}]
      BY <2>3 DEF Evicted, Held
    <3>2. Settled(S, r) = [V EXCEPT !.l4 = @ \cup {r.obj}]
      BY <1>3, <2>3 DEF Settled, None, Dispatched
    <3>3. Moved(S, r) = [S EXCEPT !.l4 = {f \in @ : L4Key(f) # L4Key(r.obj)} \cup {r.obj}]
      BY <2>3 DEF Moved
    <3> QED
      BY <3>1, <3>2, <3>3 DEF IsState
  <2> QED
    BY <2>0, <2>1, <2>2, <2>3
<1> QED
  BY <1>1, <1>2, <1>3 DEF Settles

(* A state that moves with the one it is ahead of stays ahead. *)
LEMMA MovedAhead ==
  ASSUME NEW S, NEW H, NEW T, IsState(S), IsState(H), Ahead(S, H, T), NEW r, r.verb \in RoutingVerbs,
         r.verb = "ActivateListener" => r.obj \in S.listeners
  PROVE  Ahead(Moved(S, r), Moved(H, r), T)
<1> DEFINE U == Moved(S, r)
           V == Moved(H, r)
<1> SUFFICES Ahead(U, V, T)
  OBVIOUS
<1>0. /\ Nearer(S.clusters, H.clusters, T.clusters) /\ Nearer(S.backends, H.backends, T.backends)
      /\ Nearer(S.routes, H.routes, T.routes) /\ Nearer(S.l4, H.l4, T.l4)
      /\ Nearer(S.listeners, H.listeners, T.listeners) /\ Nearer(S.active, H.active, T.active)
      /\ S.active \subseteq S.listeners
  BY DEF Ahead
<1>1. CASE r.verb \in {"AddCluster", "RemoveCluster"}
  <2>1. /\ U.backends = S.backends /\ U.routes = S.routes /\ U.l4 = S.l4
        /\ U.listeners = S.listeners /\ U.active = S.active
        /\ V.backends = H.backends /\ V.routes = H.routes /\ V.l4 = H.l4
        /\ V.listeners = H.listeners /\ V.active = H.active
    BY <1>1 DEF Moved, IsState
  <2> DEFINE A == {c \in S.clusters : c.id # r.obj.id}
             B == {c \in H.clusters : c.id # r.obj.id}
  <2>2. \/ U.clusters = A /\ V.clusters = B
        \/ U.clusters = A \cup {r.obj} /\ V.clusters = B \cup {r.obj}
    BY <1>1 DEF Moved, IsState
  <2>3. Nearer(A, B, T.clusters)
    BY <1>0 DEF Nearer
  <2> HIDE DEF A, B, U, V
  <2>4. Nearer(A \cup {r.obj}, B \cup {r.obj}, T.clusters)
    BY <2>3 DEF Nearer
  <2>5. Nearer(U.clusters, V.clusters, T.clusters)
    BY <2>2, <2>3, <2>4
  <2> QED
    BY <1>0, <2>1, <2>5 DEF Ahead
<1>2. CASE r.verb \in {"AddBackend", "RemoveBackend"}
  <2>1. /\ U.clusters = S.clusters /\ U.routes = S.routes /\ U.l4 = S.l4
        /\ U.listeners = S.listeners /\ U.active = S.active
        /\ V.clusters = H.clusters /\ V.routes = H.routes /\ V.l4 = H.l4
        /\ V.listeners = H.listeners /\ V.active = H.active
    BY <1>2 DEF Moved, IsState
  <2> DEFINE A == {b \in S.backends : BackendKey(b) # BackendKey(r.obj)}
             B == {b \in H.backends : BackendKey(b) # BackendKey(r.obj)}
  <2>2. \/ U.backends = A /\ V.backends = B
        \/ U.backends = A \cup {r.obj} /\ V.backends = B \cup {r.obj}
    BY <1>2 DEF Moved, IsState
  <2>3. Nearer(A, B, T.backends)
    BY <1>0 DEF Nearer
  <2> HIDE DEF A, B, U, V
  <2>4. Nearer(A \cup {r.obj}, B \cup {r.obj}, T.backends)
    BY <2>3 DEF Nearer
  <2>5. Nearer(U.backends, V.backends, T.backends)
    BY <2>2, <2>3, <2>4
  <2> QED
    BY <1>0, <2>1, <2>5 DEF Ahead
<1>3. CASE r.verb \in {"AddFrontend", "RemoveFrontend"}
  <2>1. /\ U.clusters = S.clusters /\ U.backends = S.backends /\ U.l4 = S.l4
        /\ U.listeners = S.listeners /\ U.active = S.active
        /\ V.clusters = H.clusters /\ V.backends = H.backends /\ V.l4 = H.l4
        /\ V.listeners = H.listeners /\ V.active = H.active
    BY <1>3 DEF Moved, IsState
  <2> DEFINE A == {f \in S.routes : f.key # r.obj.key}
             B == {f \in H.routes : f.key # r.obj.key}
  <2>2. \/ U.routes = A /\ V.routes = B
        \/ U.routes = A \cup {r.obj} /\ V.routes = B \cup {r.obj}
    BY <1>3 DEF Moved, IsState
  <2>3. Nearer(A, B, T.routes)
    BY <1>0 DEF Nearer
  <2> HIDE DEF A, B, U, V
  <2>4. Nearer(A \cup {r.obj}, B \cup {r.obj}, T.routes)
    BY <2>3 DEF Nearer
  <2>5. Nearer(U.routes, V.routes, T.routes)
    BY <2>2, <2>3, <2>4
  <2> QED
    BY <1>0, <2>1, <2>5 DEF Ahead
<1>4. CASE r.verb \in {"AddL4", "RemoveL4"}
  <2>1. /\ U.clusters = S.clusters /\ U.backends = S.backends /\ U.routes = S.routes
        /\ U.listeners = S.listeners /\ U.active = S.active
        /\ V.clusters = H.clusters /\ V.backends = H.backends /\ V.routes = H.routes
        /\ V.listeners = H.listeners /\ V.active = H.active
    BY <1>4 DEF Moved, IsState
  <2> DEFINE A == {f \in S.l4 : L4Key(f) # L4Key(r.obj)}
             B == {f \in H.l4 : L4Key(f) # L4Key(r.obj)}
  <2>2. \/ U.l4 = A /\ V.l4 = B
        \/ U.l4 = A \cup {r.obj} /\ V.l4 = B \cup {r.obj}
    BY <1>4 DEF Moved, IsState
  <2>3. Nearer(A, B, T.l4)
    BY <1>0 DEF Nearer
  <2> HIDE DEF A, B, U, V
  <2>4. Nearer(A \cup {r.obj}, B \cup {r.obj}, T.l4)
    BY <2>3 DEF Nearer
  <2>5. Nearer(U.l4, V.l4, T.l4)
    BY <2>2, <2>3, <2>4
  <2> QED
    BY <1>0, <2>1, <2>5 DEF Ahead
<1>5. CASE r.verb \in {"AddListener", "ActivateListener", "DeactivateListener", "RemoveListener"}
  <2>1. /\ U.clusters = S.clusters /\ U.backends = S.backends /\ U.routes = S.routes /\ U.l4 = S.l4
        /\ V.clusters = H.clusters /\ V.backends = H.backends /\ V.routes = H.routes /\ V.l4 = H.l4
    BY <1>5 DEF Moved, IsState
  <2>3. CASE r.verb = "AddListener"
    <3>1. /\ U.listeners = S.listeners \cup {r.obj} /\ V.listeners = H.listeners \cup {r.obj}
          /\ U.active = S.active /\ V.active = H.active
      BY <2>3 DEF Moved, IsState
    <3> HIDE DEF U, V
    <3>2. Nearer(U.listeners, V.listeners, T.listeners) /\ Nearer(U.active, V.active, T.active)
      BY <1>0, <3>1 DEF Nearer
    <3> QED
      BY <1>0, <2>1, <3>1, <3>2 DEF Ahead
  <2>4. CASE r.verb = "ActivateListener"
    <3>1. /\ U.listeners = S.listeners /\ V.listeners = H.listeners
          /\ U.active = S.active \cup {r.obj} /\ V.active = H.active \cup {r.obj}
      BY <2>4 DEF Moved, IsState
    <3> HIDE DEF U, V
    <3>2. Nearer(U.listeners, V.listeners, T.listeners) /\ Nearer(U.active, V.active, T.active)
      BY <1>0, <3>1 DEF Nearer
    <3> QED
      BY <1>0, <2>1, <2>4, <3>1, <3>2 DEF Ahead
  <2>5. CASE r.verb = "DeactivateListener"
    <3>1. /\ U.listeners = S.listeners /\ V.listeners = H.listeners
          /\ U.active = S.active \ {r.obj} /\ V.active = H.active \ {r.obj}
      BY <2>5 DEF Moved, IsState
    <3> HIDE DEF U, V
    <3>2. Nearer(U.listeners, V.listeners, T.listeners) /\ Nearer(U.active, V.active, T.active)
      BY <1>0, <3>1 DEF Nearer
    <3> QED
      BY <1>0, <2>1, <3>1, <3>2 DEF Ahead
  <2>6. CASE r.verb = "RemoveListener"
    <3>1. /\ U.listeners = S.listeners \ {r.obj} /\ V.listeners = H.listeners \ {r.obj}
          /\ U.active = S.active \ {r.obj} /\ V.active = H.active \ {r.obj}
      BY <2>6 DEF Moved, IsState
    <3> HIDE DEF U, V
    <3>2. Nearer(U.listeners, V.listeners, T.listeners) /\ Nearer(U.active, V.active, T.active)
      BY <1>0, <3>1 DEF Nearer
    <3> QED
      BY <1>0, <2>1, <3>1, <3>2 DEF Ahead
  <2> QED
    BY <1>5, <2>3, <2>4, <2>5, <2>6
<1> QED
  BY <1>1, <1>2, <1>3, <1>4, <1>5 DEF RoutingVerbs

(* What Sozu holds, ahead of what a batch expects it to hold, stays so when a request is settled. *)
LEMMA StaysAhead ==
  ASSUME NEW F, NEW T, NEW P, NEW H, NEW r, Going(F, T, P, H, r),
         NEW S, IsState(S), Ahead(S, H, T), Settles(S, r)
  PROVE  Ahead(Settled(S, r), Dispatched(H, r), T)
<1>1. r.verb \in RoutingVerbs /\ IsState(H)
  BY DEF Going, NextOf, Between
<1>2. r.verb = "RemoveCluster" => Unnamed(H, r.obj.id)
  BY ClusterGoesLast
<1>3. r.verb = "RemoveCluster" => Unnamed(S, r.obj.id)
  <2> SUFFICES ASSUME r.verb = "RemoveCluster" PROVE Unnamed(S, r.obj.id)
    OBVIOUS
  <2>1. /\ H.backends = T.backends /\ H.routes = T.routes /\ H.l4 = T.l4 /\ Unnamed(T, r.obj.id)
    BY ClusterGoesLast
  <2>2. S.backends \subseteq T.backends /\ S.routes \subseteq T.routes /\ S.l4 \subseteq T.l4
    BY <2>1 DEF Ahead, Nearer
  <2> QED
    BY <2>1, <2>2 DEF Unnamed
<1>4. Refusal(H, r) = None
  BY RequestGoesOn DEF GoesOn
<1>5. Dispatched(H, r) = Moved(H, r)
  BY <1>1, <1>2, <1>4, DispatchedMoves
<1>6. Settled(S, r) = Moved(S, r)
  BY <1>1, <1>3, SettledMoves DEF Ahead
<1>7. r.verb = "ActivateListener" => r.obj \in S.listeners
  BY DEF Settles, Refusal, Held, Teardowns, None
<1> QED
  BY <1>1, <1>5, <1>6, <1>7, MovedAhead

-----------------------------------------------------------------------------
(* A stage is that state, and no other. *)
LEMMA StageIs ==
  ASSUME NEW F, NEW T, NEW P
  PROVE  /\ IsState(StageOf(F, T, P))
         /\ \A S : IsState(S) /\ Stage(F, T, P, S) => S = StageOf(F, T, P)
         /\ Pend(P, "DeactivateListener") \subseteq Pend(P, "RemoveListener") =>
              Stage(F, T, P, StageOf(F, T, P))
BY DEF StageOf, IsState, Stage

(* What is ahead of a stage is ahead of where the batch began. *)
LEMMA AheadOfBegin ==
  ASSUME NEW F, NEW T, NEW P, NEW S, Ahead(S, StageOf(F, T, P), T),
         F.active = F.listeners, T.active = T.listeners
  PROVE  Ahead(S, F, T)
<1> DEFINE H == StageOf(F, T, P)
<1>1. /\ H.clusters = ClustersAt(F, T, P) /\ H.backends = BackendsAt(F, T, P)
      /\ H.routes = RoutesAt(F, T, P) /\ H.l4 = L4At(F, T, P)
      /\ H.listeners = ListenersAt(F, T, P) /\ H.active = ActiveAt(F, T, P)
  BY DEF StageOf
<1>2. \A held, from, to, leaving, coming :
        Nearer(held, Mid(from, to, leaving, coming), to) => Nearer(held, from, to)
  BY DEF Nearer, Mid
<1> HIDE DEF H
<1>3. Nearer(S.clusters, F.clusters, T.clusters)
  BY <1>1, <1>2 DEF Ahead, ClustersAt, H
<1>4. Nearer(S.backends, F.backends, T.backends)
  BY <1>1, <1>2 DEF Ahead, BackendsAt, H
<1>5. Nearer(S.routes, F.routes, T.routes)
  BY <1>1, <1>2 DEF Ahead, RoutesAt, H
<1>6. Nearer(S.l4, F.l4, T.l4)
  BY <1>1, <1>2 DEF Ahead, L4At, H
<1>7. Nearer(S.listeners, F.listeners, T.listeners)
  BY <1>1, <1>2 DEF Ahead, ListenersAt, H
<1>8. Nearer(S.active, F.active, T.active)
  BY <1>1, <1>2 DEF Ahead, ActiveAt, H
<1> QED
  BY <1>3, <1>4, <1>5, <1>6, <1>7, <1>8 DEF Ahead

(* What is ahead of the goal is the goal. *)
LEMMA AheadOfEnd ==
  ASSUME NEW S, NEW T, IsState(S), IsState(T), Ahead(S, T, T)
  PROVE  S = T
<1>1. \A held, to : Nearer(held, to, to) => held = to
  BY DEF Nearer
<1>2. /\ S.clusters = T.clusters /\ S.backends = T.backends /\ S.routes = T.routes /\ S.l4 = T.l4
      /\ S.listeners = T.listeners /\ S.active = T.active
  BY <1>1 DEF Ahead
<1> QED
  BY <1>2 DEF IsState

(* A state is ahead of itself. *)
LEMMA AheadOfItself ==
  ASSUME NEW S, NEW T, S.active \subseteq S.listeners
  PROVE  Ahead(S, S, T)
BY DEF Ahead, Nearer

-----------------------------------------------------------------------------
(* The same of certificates. *)

(* What is to be added is not held under another form. *)
LEMMA AddedAnew ==
  ASSUME NEW K, NEW L, NEW P, CertBetween(K, L, P), NEW r \in P, r.verb = "AddCertificate"
  PROVE  r.obj \in L /\ \A c \in CertsAt(K, L, P) : ~SameCert(c, r.obj)
<1>1. r.obj \in L /\ \A c \in K : ~SameCert(c, r.obj)
  BY SameCertEq DEF CertBetween, Certifies, Unpaired
<1>2. r.obj \notin K
  BY <1>1, SameCertEq
<1>3. Brings(r, r.obj) /\ \A c : ~TakesOff(r, c)
  BY DEF Brings, TakesOff
<1> QED
  BY <1>1, <1>2, <1>3 DEF CertsAt, CertBetween, OneCert

(* Certificates held, ahead of what a batch expects, stay so when a request is loaded. *)
LEMMA CertsStayAhead ==
  ASSUME NEW K, NEW L, NEW P, CertBetween(K, L, P), NEW r \in P,
         NEW held, Nearer(held, CertsAt(K, L, P), L)
  PROVE  Nearer(Loaded(held, r), CertsAt(K, L, P \ {r}), L)
<1> DEFINE H == CertsAt(K, L, P)
<1>0. Nearer(held, H, L)
  OBVIOUS
<1>1. SUFFICES Nearer(Loaded(held, r), Loaded(H, r), L)
  BY CertificateGoesOn
<1>2. r.verb \in {"AddCertificate", "RemoveCertificate", "ReplaceCertificate"}
  BY DEF CertBetween, Certifies
<1>3. CASE r.verb = "AddCertificate"
  <2>1. r.obj \in L /\ \A c \in H : ~SameCert(c, r.obj)
    BY <1>3, AddedAnew
  <2>2. OneCert(L)
    BY DEF CertBetween
  <2> HIDE DEF H
  <2>3. {c \in H : ~SameCert(c, r.obj)} = H
    BY <2>1
  <2>4. Loaded(H, r) = H \cup {r.obj}
    BY <1>3, <2>3 DEF Loaded
  <2>5. Loaded(held, r) = held \cup {r.obj}
    <3>1. CASE {c \in held : ~SameCert(c, r.obj)} = held
      BY <1>3, <3>1 DEF Loaded
    <3>2. CASE {c \in held : ~SameCert(c, r.obj)} # held
      <4>1. PICK c \in held : SameCert(c, r.obj)
        BY <3>2
      <4>2. c \in L
        BY <1>0, <2>1, <4>1 DEF Nearer
      <4>3. c = r.obj
        BY <2>1, <2>2, <4>1, <4>2 DEF OneCert
      <4>4. Loaded(held, r) = held
        BY <1>3, <3>2 DEF Loaded
      <4> QED
        BY <4>1, <4>3, <4>4
    <3> QED
      BY <3>1, <3>2
  <2> QED
    BY <1>0, <2>4, <2>5 DEF Nearer
<1>4. CASE r.verb = "RemoveCertificate"
  <2> HIDE DEF H
  <2>1. \A X : Loaded(X, r) = {c \in X : ~SameCert(c, r.obj)}
    BY <1>4 DEF Loaded
  <2> QED
    BY <1>0, <2>1 DEF Nearer
<1>5. CASE r.verb = "ReplaceCertificate"
  <2> HIDE DEF H
  <2>1. \A X : Loaded(X, r) = {c \in {d \in X : ~SameCert(d, r.obj)} :
                                 ~(c.listener = r.obj.listener /\ c.fp = r.old)} \cup {r.obj}
    BY <1>5 DEF Loaded
  <2> QED
    BY <1>0, <2>1 DEF Nearer
<1> QED
  BY <1>2, <1>3, <1>4, <1>5

(* What is ahead of a stage is ahead of where it began; ahead of the goal, it is the goal. *)
LEMMA CertsAheadOf ==
  ASSUME NEW K, NEW L, NEW P, NEW held
  PROVE  /\ Nearer(held, CertsAt(K, L, P), L) => Nearer(held, K, L)
         /\ Nearer(held, L, L) => held = L
         /\ Nearer(K, K, L)
BY DEF Nearer, CertsAt

-----------------------------------------------------------------------------
(* The order a batch is sent in. *)

(* Requests with a place in the order. *)
Ranked(requests) == \A a \in requests : a.tier \in Nat /\ a.rank \in Nat

(* Of requests to send, some may be sent first. *)
LEMMA SomeFirst ==
  ASSUME NEW requests, Ranked(requests), requests # {}
  PROVE  Firsts(requests) # {}
<1> DEFINE tiers == {a.tier : a \in requests}
<1>1. PICK t \in tiers : \A u \in tiers : ~(u < t)
  <2>1. tiers \in SUBSET Nat /\ tiers # {}
    BY DEF Ranked
  <2> HIDE DEF tiers
  <2> QED
    BY <2>1, LeastNat
<1> DEFINE ranks == {a.rank : a \in {b \in requests : b.tier = t}}
<1>2. PICK k \in ranks : \A l \in ranks : ~(l < k)
  <2>1. ranks \in SUBSET Nat /\ ranks # {}
    BY DEF Ranked
  <2> HIDE DEF ranks
  <2> QED
    BY <2>1, LeastNat
<1>3. PICK a \in requests : a.tier = t /\ a.rank = k
  OBVIOUS
<1>4. \A b \in requests : ~Precedes(b, a)
  BY <1>1, <1>2, <1>3 DEF Precedes
<1> QED
  BY <1>4 DEF Firsts

(* What the next request of a head is: one of those that may be sent first. *)
Following(sent, head) == CHOOSE a \in Firsts(sent \ Range(head)) : TRUE

Sorts(heads, sent, n) ==
  heads = [i \in 0..n |-> IF i = 0 THEN <<>> ELSE Append(heads[i - 1], Following(sent, heads[i - 1]))]

(* The heads of the order are defined. *)
LEMMA SortsExist ==
  ASSUME NEW sent, NEW n \in Nat
  PROVE  \E heads : Sorts(heads, sent, n)
<1> DEFINE T == {m \in Nat : \E f : Sorts(f, sent, m)}
<1>1. 0 \in T
  <2>1. Sorts([i \in 0..0 |-> <<>>], sent, 0)
    BY DEF Sorts
  <2> QED
    BY <2>1
<1>2. ASSUME NEW m \in T PROVE m + 1 \in T
  <2>1. PICK f : Sorts(f, sent, m)
    OBVIOUS
  <2> DEFINE step(h) == Append(h, Following(sent, h))
  <2>0. \A i \in 0..m : f[i] = IF i = 0 THEN <<>> ELSE step(f[i - 1])
    BY <2>1 DEF Sorts
  <2> HIDE DEF step
  <2> DEFINE g == [i \in 0..(m + 1) |-> IF i = m + 1 THEN step(f[m]) ELSE f[i]]
  <2>2. \A i \in 0..m : g[i] = f[i]
    OBVIOUS
  <2>3. \A i \in 0..(m + 1) : g[i] = IF i = 0 THEN <<>> ELSE step(g[i - 1])
    <3> SUFFICES ASSUME NEW i \in 0..(m + 1)
                 PROVE  g[i] = IF i = 0 THEN <<>> ELSE step(g[i - 1])
      OBVIOUS
    <3>1. CASE i = m + 1
      BY <2>2, <3>1
    <3>2. CASE i \in 0..m
      <4>1. f[i] = IF i = 0 THEN <<>> ELSE step(f[i - 1])
        BY <2>0, <3>2
      <4>2. i # 0 => i - 1 \in 0..m
        BY <3>2
      <4> HIDE DEF g
      <4> QED
        BY <2>2, <3>2, <4>1, <4>2
    <3> QED
      BY <3>1, <3>2
  <2>4. Sorts(g, sent, m + 1)
    BY <2>3 DEF Sorts, step
  <2> QED
    BY <2>4
<1>3. T = Nat
  <2>1. T \in SUBSET Nat
    OBVIOUS
  <2> HIDE DEF T
  <2> QED
    BY <1>1, <1>2, <2>1, NatSetInduction
<1> QED
  BY <1>3

(* A head of n requests: different ones of sent, each sent before those that are left. *)
HeadOf(head, sent, n) ==
  /\ head \in Seq(sent) /\ Len(head) = n
  /\ IsFiniteSet(Range(head)) /\ Cardinality(Range(head)) = n
  /\ \A i, j \in 1..n : head[i] = head[j] => i = j
  /\ \A i \in 1..n : \A b \in sent : (\A k \in 1..i : b # head[k]) => ~Precedes(b, head[i])

(* A head grows by one that may be sent first. *)
LEMMA HeadGrows ==
  ASSUME NEW sent, IsFiniteSet(sent), Ranked(sent), NEW n \in Nat, n < Cardinality(sent),
         NEW head, HeadOf(head, sent, n)
  PROVE  HeadOf(Append(head, Following(sent, head)), sent, n + 1)
<1> DEFINE rest == sent \ Range(head)
           a == Following(sent, head)
           h == Append(head, a)
<1>0. Cardinality(sent) \in Nat
  BY FS_CardinalityType
<1>1. head \in Seq(sent) /\ Len(head) = n /\ Cardinality(Range(head)) = n /\ IsFiniteSet(Range(head))
  BY DEF HeadOf
<1>2. Range(head) = {head[i] : i \in 1..n}
  BY <1>1 DEF Range
<1>3. rest # {}
  <2>1. Range(head) \subseteq sent
    BY <1>1, <1>2
  <2>2. Range(head) # sent
    BY <1>0, <1>1
  <2> QED
    BY <2>1, <2>2
<1>4. a \in Firsts(rest)
  <2>1. Ranked(rest)
    BY DEF Ranked
  <2>2. Firsts(rest) # {}
    BY <1>3, <2>1, SomeFirst
  <2> HIDE DEF rest
  <2> QED
    BY <2>2 DEF Following, rest
<1>5. a \in sent /\ a \notin Range(head) /\ \A b \in rest : ~Precedes(b, a)
  BY <1>4 DEF Firsts
<1> HIDE DEF a
<1>6. h \in Seq(sent) /\ Len(h) = n + 1 /\ h[n + 1] = a /\ \A i \in 1..n : h[i] = head[i]
  BY <1>1, <1>5
<1>7. 1..(n + 1) = 1..n \cup {n + 1}
  OBVIOUS
<1>8. Range(h) = Range(head) \cup {a}
  <2>1. Range(h) = {h[i] : i \in 1..(n + 1)}
    BY <1>6 DEF Range
  <2> HIDE DEF h
  <2> QED
    BY <1>2, <1>6, <1>7, <2>1
<1>9. IsFiniteSet(Range(h)) /\ Cardinality(Range(h)) = n + 1
  <2>1. /\ IsFiniteSet(Range(head) \cup {a})
        /\ Cardinality(Range(head) \cup {a}) = Cardinality(Range(head)) + 1
    BY <1>1, <1>5, FS_AddElement
  <2> QED
    BY <1>1, <1>8, <2>1
<1>10. \A i \in 1..n : head[i] \in Range(head)
  BY <1>2
<1> HIDE DEF h
<1>11. \A i, j \in 1..(n + 1) : h[i] = h[j] => i = j
  <2>1. \A i, j \in 1..n : head[i] = head[j] => i = j
    BY DEF HeadOf
  <2> QED
    BY <1>5, <1>6, <1>7, <1>10, <2>1
<1>12. ASSUME NEW i \in 1..(n + 1), NEW b \in sent, \A k \in 1..i : b # h[k]
       PROVE  ~Precedes(b, h[i])
  <2>1. CASE i \in 1..n
    <3>1. \A k \in 1..i : k \in 1..n /\ h[k] = head[k]
      BY <1>6, <2>1
    <3>2. \A k \in 1..i : b # head[k]
      BY <1>12, <3>1
    <3>3. ~Precedes(b, head[i])
      BY <2>1, <3>2 DEF HeadOf
    <3> QED
      BY <1>6, <2>1, <3>3
  <2>2. CASE i = n + 1
    <3>1. \A k \in 1..n : k \in 1..i /\ h[k] = head[k]
      BY <1>6, <2>2
    <3>2. b \notin Range(head)
      BY <1>2, <1>12, <3>1
    <3> QED
      BY <1>5, <1>6, <2>2, <3>2
  <2> QED
    BY <1>7, <2>1, <2>2
<1> QED
  BY <1>6, <1>9, <1>11, <1>12 DEF HeadOf, h, a

(* InOrder lists the requests of a head that holds them all. *)
LEMMA OrderOf ==
  ASSUME NEW sent, IsFiniteSet(sent), Ranked(sent)
  PROVE  \E order : /\ HeadOf(order, sent, Cardinality(sent)) /\ Range(order) = sent
                    /\ InOrder(sent) = [i \in 1..Cardinality(sent) |-> order[i].req]
<1> DEFINE N == Cardinality(sent)
           f == CHOOSE heads : heads = [n \in 0..N |->
                  IF n = 0 THEN <<>>
                  ELSE Append(heads[n - 1], CHOOSE a \in Firsts(sent \ Range(heads[n - 1])) : TRUE)]
<1>0. N \in Nat
  BY FS_CardinalityType
<1>1. \E heads : heads = [n \in 0..N |->
                  IF n = 0 THEN <<>>
                  ELSE Append(heads[n - 1], CHOOSE a \in Firsts(sent \ Range(heads[n - 1])) : TRUE)]
  <2>1. \E heads : Sorts(heads, sent, N)
    BY <1>0, SortsExist
  <2> QED
    BY <2>1 DEF Sorts, Following
<1>2. f = [n \in 0..N |->
             IF n = 0 THEN <<>>
             ELSE Append(f[n - 1], CHOOSE a \in Firsts(sent \ Range(f[n - 1])) : TRUE)]
  BY <1>1
<1>3. InOrder(sent) = [i \in DOMAIN f[N] |-> f[N][i].req]
  BY DEF InOrder
<1> HIDE DEF f, N
<1>4. \A n \in 0..N : f[n] = IF n = 0 THEN <<>> ELSE Append(f[n - 1], Following(sent, f[n - 1]))
  BY <1>2 DEF Following
<1> DEFINE T == {n \in Nat : n <= N => HeadOf(f[n], sent, n)}
<1>5. 0 \in T
  <2>1. f[0] = <<>>
    BY <1>0, <1>4
  <2>2. Range(<<>>) = {}
    BY DEF Range
  <2>3. HeadOf(<<>>, sent, 0)
    BY <2>2, FS_EmptySet DEF HeadOf
  <2> QED
    BY <2>1, <2>3
<1>6. ASSUME NEW n \in T PROVE n + 1 \in T
  <2> SUFFICES ASSUME n + 1 <= N PROVE HeadOf(f[n + 1], sent, n + 1)
    OBVIOUS
  <2>1. n \in Nat /\ n < N /\ n + 1 \in 0..N /\ (n + 1) - 1 = n /\ n + 1 # 0
    BY <1>0
  <2>2. HeadOf(f[n], sent, n)
    BY <1>0, <2>1
  <2>3. f[n + 1] = Append(f[n], Following(sent, f[n]))
    BY <1>4, <2>1
  <2> QED
    BY <2>1, <2>2, <2>3, HeadGrows DEF N
<1>7. T = Nat
  <2>1. T \in SUBSET Nat
    OBVIOUS
  <2> HIDE DEF T
  <2> QED
    BY <1>5, <1>6, <2>1, NatSetInduction
<1>8. HeadOf(f[N], sent, N)
  BY <1>0, <1>7
<1> DEFINE order == f[N]
<1> HIDE DEF order
<1>9. order \in Seq(sent) /\ Len(order) = N /\ Cardinality(Range(order)) = N
  BY <1>8 DEF HeadOf, order
<1>10. DOMAIN order = 1..N
  BY <1>9
<1>11. Range(order) = sent
  <2>1. Range(order) \in SUBSET sent
    BY <1>9, <1>10 DEF Range
  <2> QED
    BY <1>9, <2>1, FS_Subset DEF N
<1> QED
  BY <1>3, <1>8, <1>10, <1>11 DEF order, N

-----------------------------------------------------------------------------
(* Certificates replayed. *)

CertKey(c) == <<c.listener, c.fp>>

Outside(certs, keys) == {c \in certs : CertKey(c) \notin keys}

(* What keyed_certs makes of a certificate and those of its key. *)
KeyedCert(certs, c) ==
  [listener |-> c.listener, fp |-> c.fp, names |-> UNION {d.names : d \in {e \in certs : SameCert(c, e)}},
   chain |-> Max({d.chain : d \in {e \in certs : SameCert(c, e)}})]

(* keyed_certs, certificate by certificate. *)
LEMMA KeyedEach ==
  ASSUME NEW certs
  PROVE  /\ KeyedCerts(certs) = {KeyedCert(certs, c) : c \in certs}
         /\ \A c : CertKey(KeyedCert(certs, c)) = CertKey(c)
         /\ \A c : SameCert(KeyedCert(certs, c), c)
<1>1. \A c : KeyedCert(certs, c).listener = c.listener /\ KeyedCert(certs, c).fp = c.fp
  BY DEF KeyedCert
<1>2. KeyedCerts(certs) = {KeyedCert(certs, c) : c \in certs}
  BY DEF KeyedCerts, KeyedCert
<1> QED
  BY <1>1, <1>2 DEF CertKey, SameCert

(* Same key, same listener and fingerprint. *)
LEMMA SameKey ==
  ASSUME NEW c, NEW d
  PROVE  SameCert(c, d) <=> CertKey(c) = CertKey(d)
BY DEF SameCert, CertKey

(* Certificates of other keys are keyed without those that go. *)
LEMMA KeyedOutside ==
  ASSUME NEW certs, NEW keys
  PROVE  KeyedCerts(Outside(certs, keys)) = Outside(KeyedCerts(certs), keys)
<1> DEFINE rest == Outside(certs, keys)
<1>1. ASSUME NEW c \in rest PROVE KeyedCert(rest, c) = KeyedCert(certs, c)
  <2>1. {e \in rest : SameCert(c, e)} = {e \in certs : SameCert(c, e)}
    BY SameKey DEF Outside
  <2> HIDE DEF rest
  <2> QED
    BY <2>1 DEF KeyedCert
<1>2. KeyedCerts(rest) = {KeyedCert(certs, c) : c \in rest}
  <2>1. KeyedCerts(rest) = {KeyedCert(rest, c) : c \in rest}
    BY KeyedEach
  <2> HIDE DEF rest
  <2> QED
    BY <1>1, <2>1
<1>3. Outside(KeyedCerts(certs), keys) = {KeyedCert(certs, c) : c \in rest}
  <2>1. KeyedCerts(certs) = {KeyedCert(certs, c) : c \in certs} /\ \A c : CertKey(KeyedCert(certs, c)) = CertKey(c)
    BY KeyedEach
  <2> QED
    BY <2>1 DEF Outside
<1> QED
  BY <1>2, <1>3

(* Certificates of different keys are keyed apart. *)
LEMMA KeyedApart ==
  ASSUME NEW A, NEW B, \A c \in A, d \in B : ~SameCert(c, d)
  PROVE  KeyedCerts(A \cup B) = KeyedCerts(A) \cup KeyedCerts(B)
<1>1. ASSUME NEW c \in A PROVE KeyedCert(A \cup B, c) = KeyedCert(A, c)
  <2>1. {e \in A \cup B : SameCert(c, e)} = {e \in A : SameCert(c, e)}
    OBVIOUS
  <2> QED
    BY <2>1 DEF KeyedCert
<1>2. ASSUME NEW c \in B PROVE KeyedCert(A \cup B, c) = KeyedCert(B, c)
  <2>1. {e \in A \cup B : SameCert(c, e)} = {e \in B : SameCert(c, e)}
    BY SameCertEq
  <2> QED
    BY <2>1 DEF KeyedCert
<1>3. KeyedCerts(A \cup B) = {KeyedCert(A \cup B, c) : c \in A \cup B}
  BY KeyedEach
<1>4. KeyedCerts(A) = {KeyedCert(A, c) : c \in A}
  BY KeyedEach
<1>5. KeyedCerts(B) = {KeyedCert(B, c) : c \in B}
  BY KeyedEach
<1> QED
  BY <1>1, <1>2, <1>3, <1>4, <1>5

(* The group a wanted certificate stands for is keyed as that certificate. *)
LEMMA KeyedGroup ==
  ASSUME NEW wanted, NEW cert \in KeyedCerts(wanted)
  PROVE  LET group == {c \in wanted : SameCert(c, cert)}
         IN group # {} /\ KeyedCerts(group) = {cert}
<1> DEFINE group == {c \in wanted : SameCert(c, cert)}
<1>1. PICK c \in wanted : cert = KeyedCert(wanted, c)
  BY KeyedEach
<1>2. SameCert(cert, c)
  BY <1>1, KeyedEach
<1>3. c \in group
  BY <1>2, SameCertEq
<1>4. ASSUME NEW d \in group PROVE KeyedCert(group, d) = cert
  <2>1. SameCert(d, c) /\ d.listener = c.listener /\ d.fp = c.fp
    BY <1>2, SameCertEq DEF SameCert
  <2>2. {e \in group : SameCert(d, e)} = {e \in wanted : SameCert(c, e)}
    BY <1>2, <2>1, SameCertEq
  <2> HIDE DEF group
  <2> QED
    BY <1>1, <2>1, <2>2 DEF KeyedCert
<1>5. KeyedCerts(group) = {KeyedCert(group, d) : d \in group}
  BY KeyedEach
<1> HIDE DEF group
<1>6. KeyedCerts(group) = {cert}
  BY <1>3, <1>4, <1>5
<1> QED
  BY <1>3, <1>6 DEF group

(* A certificate request replayed onto certificates makes of them what Sozu makes of theirs. *)
LEMMA RecertifiedLoads ==
  ASSUME NEW K, NEW wanted, NEW P, CertBetween(K, KeyedCerts(wanted), P), NEW r \in P,
         NEW certs, KeyedCerts(certs) = CertsAt(K, KeyedCerts(wanted), P)
  PROVE  KeyedCerts(Recertified(certs, wanted, r)) = Loaded(KeyedCerts(certs), r)
<1> DEFINE L == KeyedCerts(wanted)
           held == KeyedCerts(certs)
           group == {c \in wanted : SameCert(c, r.obj)}
           k == CertKey(r.obj)
<1>1. r.verb \in {"AddCertificate", "RemoveCertificate", "ReplaceCertificate"}
  BY DEF CertBetween, Certifies
<1>2. r.verb # "RemoveCertificate" => r.obj \in L
  BY DEF CertBetween, Certifies, Unpaired
<1>3. r.verb # "RemoveCertificate" => group # {} /\ KeyedCerts(group) = {r.obj}
  BY <1>2, KeyedGroup
<1>4. \A keys : k \in keys => KeyedCerts(Outside(certs, keys) \cup group) = Outside(held, keys) \cup KeyedCerts(group)
  <2> SUFFICES ASSUME NEW keys, k \in keys
               PROVE  KeyedCerts(Outside(certs, keys) \cup group) = Outside(held, keys) \cup KeyedCerts(group)
    OBVIOUS
  <2>1. \A c \in Outside(certs, keys), d \in group : ~SameCert(c, d)
    BY SameKey DEF Outside
  <2>2. KeyedCerts(Outside(certs, keys) \cup group) = KeyedCerts(Outside(certs, keys)) \cup KeyedCerts(group)
    BY <2>1, KeyedApart
  <2> QED
    BY <2>2, KeyedOutside
<1>5. CASE r.verb = "RemoveCertificate"
  <2>1. Recertified(certs, wanted, r) = Outside(certs, {k})
    BY <1>5, SameKey DEF Recertified, Outside
  <2>2. Loaded(held, r) = Outside(held, {k})
    <3> HIDE DEF held
    <3> QED
      BY <1>5, SameKey DEF Loaded, Outside
  <2> QED
    BY <2>1, <2>2, KeyedOutside
<1>6. CASE r.verb = "AddCertificate"
  <2>1. Recertified(certs, wanted, r) = Outside(certs, {k}) \cup group
    BY <1>3, <1>6, SameKey DEF Recertified, Outside
  <2>2. \A c \in held : ~SameCert(c, r.obj)
    BY <1>6, AddedAnew
  <2>3. Loaded(held, r) = Outside(held, {k}) \cup {r.obj}
    <3> HIDE DEF held
    <3>1. {c \in held : ~SameCert(c, r.obj)} = held
      BY <2>2
    <3>2. Outside(held, {k}) = held
      BY <2>2, SameKey DEF Outside
    <3> QED
      BY <1>6, <3>1, <3>2 DEF Loaded
  <2> QED
    BY <1>3, <1>4, <1>6, <2>1, <2>3
<1>7. CASE r.verb = "ReplaceCertificate"
  <2> DEFINE keys == {k, <<r.obj.listener, r.old>>}
  <2>1. Recertified(certs, wanted, r) = Outside(certs, keys) \cup group
    BY <1>3, <1>7 DEF Recertified, Outside, CertKey, SameCert
  <2>2. Loaded(held, r) = Outside(held, keys) \cup {r.obj}
    <3> HIDE DEF held
    <3> QED
      BY <1>7 DEF Loaded, Outside, CertKey, SameCert
  <2>3. KeyedCerts(Outside(certs, keys) \cup group) = Outside(held, keys) \cup KeyedCerts(group)
    BY <1>4
  <2> QED
    BY <1>3, <1>7, <2>1, <2>2, <2>3
<1> QED
  BY <1>1, <1>5, <1>6, <1>7

-----------------------------------------------------------------------------
(* The two halves of a batch. *)

RoutingHalf(requests) == {a.req : a \in {b \in requests : ~IsCertificateRequest(b.req)}}

CertificateHalf(requests) == {a.req : a \in {b \in requests : IsCertificateRequest(b.req)}}

(* The state asked for can be translated. *)
Wanted(ir) == ir \in IRs /\ ~UnknownCluster(ir) /\ ~L4Conflict(ir)

(* A request is in its place. *)
InPlaceOf(a) == a.tier = Tier(a.req.verb) /\ a.tier \in Nat /\ a.rank \in Nat

(* A routing request of the difference can be sent. *)
LEMMA BatchSendable ==
  ASSUME NEW F, NEW T, Keyed(T), NEW r \in Diffed(F, T)
  PROVE  Sendable(r) /\ ~IsCertificateRequest(r)
<1>1. r = Request(r.verb, r.obj) /\ Asked(F, T, r)
  BY InDiffed
<1> QED
  BY <1>1 DEF Asked, Sendable, RoutingVerbs, Keyed, IsCertificateRequest

(* Finitely many names are traded. *)
LEMMA FewTrades ==
  ASSUME NEW from, NEW ir \in IRs
  PROVE  IsFiniteSet(Trades(from, ir.certs))
<1>1. IsFiniteSet(ir.certs)
  BY IRsAssumption
<1>2. IsFiniteSet(KeyedCerts(ir.certs))
  BY <1>1, KeyedNames
<1> QED
  BY <1>2, UpdatesApart

(* The certificate half holds certificate requests only, each in its place. *)
LEMMA CertificatesOnly ==
  ASSUME NEW from, NEW to, IsFiniteSet(Trades(from, to)),
         NEW certs \in CertificateBatches(from, to), NEW a \in certs
  PROVE  IsCertificateRequest(a.req) /\ InPlaceOf(a)
<1> DEFINE added == Unpaired(KeyedCerts(to), KeyedCerts(from))
           removed == Unpaired(KeyedCerts(from), KeyedCerts(to))
           last == Cardinality(Trades(from, to)) + 1
<1>0. PICK text \in Bijection(Trades(from, to), 1..Cardinality(Trades(from, to))) :
        \E M \in Rotations(added, removed) : certs = CertHalf(from, to, text, M)
  BY HalfOf
<1>1. PICK M \in Rotations(added, removed) : certs = CertHalf(from, to, text, M)
  BY <1>0
<1>2. /\ \A cert, old : Replace(cert, old).verb = "ReplaceCertificate"
      /\ \A cert : /\ Request("AddCertificate", cert).verb = "AddCertificate"
                   /\ Request("RemoveCertificate", cert).verb = "RemoveCertificate"
      /\ \A k, r : At(k, r).req = r /\ At(k, r).rank = k /\ At(k, r).tier = Tier(r.verb)
  BY CertFields
<1>3. last \in Nat
  BY FS_CardinalityType
<1>4. Tier("ReplaceCertificate") \in Nat /\ Tier("AddCertificate") \in Nat /\ Tier("RemoveCertificate") \in Nat
  BY DEF Tier, Tiers
<1>5. CASE IsUpdate(from, to, text, a)
  <2>1. PICK u \in Updates(from, to) : a = UpdateAt(from, to, text, u)
    BY <1>5 DEF IsUpdate, UpdateAt
  <2>2. a.req.verb = "ReplaceCertificate" /\ a.tier = Tier("ReplaceCertificate")
    BY <1>2, <2>1 DEF UpdateAt
  <2>3. a.rank \in Nat
    <3>1. /\ u.takes = {} => a.rank = 0
          /\ u \in Trades(from, to) => a.rank \in 1..Cardinality(Trades(from, to))
          /\ u.takes # {} /\ u \notin Trades(from, to) => a.rank = last
      BY <2>1, RankOf
    <3> QED
      BY <1>3, <3>1
  <2> QED
    BY <1>4, <2>2, <2>3 DEF IsCertificateRequest, InPlaceOf
<1>6. CASE IsRotation(M, a)
  <2>1. a.req.verb = "ReplaceCertificate" /\ a.tier = Tier("ReplaceCertificate") /\ a.rank = 0
    BY <1>2, <1>6 DEF IsRotation
  <2> QED
    BY <1>4, <2>1 DEF IsCertificateRequest, InPlaceOf
<1>7. CASE IsAddition(from, to, M, a)
  <2>1. a.req.verb = "AddCertificate" /\ a.tier = Tier("AddCertificate") /\ a.rank = 0
    BY <1>2, <1>7 DEF IsAddition
  <2> QED
    BY <1>4, <2>1 DEF IsCertificateRequest, InPlaceOf
<1>8. CASE IsRemoval(from, to, M, a)
  <2>1. a.req.verb = "RemoveCertificate" /\ a.tier = Tier("RemoveCertificate") /\ a.rank = last
    BY <1>2, <1>8 DEF IsRemoval
  <2> QED
    BY <1>3, <1>4, <2>1 DEF IsCertificateRequest, InPlaceOf
<1> QED
  BY <1>1, <1>5, <1>6, <1>7, <1>8, InHalf

(* A batch is the difference of the routing states, and a certificate half. *)
LEMMA BatchParts ==
  ASSUME NEW from, NEW to, Wanted(to), NEW W \in Reconcile(from, to)
  PROVE  /\ {a \in W : IsCertificateRequest(a.req)} \in CertificateBatches(from.certs, to.certs)
         /\ RoutingHalf(W) = Diffed(RoutingState(from), RoutingState(to))
         /\ \A a \in W : InPlaceOf(a)
         /\ \A a, b \in W : a.req = b.req => a = b
<1> DEFINE F == RoutingState(from)
           T == RoutingState(to)
           routing == {At(0, r) : r \in Diffed(F, T)}
<1>1. PICK certs \in CertificateBatches(from.certs, to.certs) : W = routing \cup certs
  BY DEF Reconcile, RoutingBatch, Diffed
<1>2. \A a \in certs : IsCertificateRequest(a.req) /\ InPlaceOf(a)
  BY CertificatesOnly, FewTrades DEF Wanted
<1>3. \A r \in Diffed(F, T) : ~IsCertificateRequest(r) /\ Tier(r.verb) \in Nat
  <2>1. Keyed(T)
    BY WantedWhole DEF Wanted
  <2>2. \A r \in Diffed(F, T) : Sendable(r) /\ ~IsCertificateRequest(r)
    BY <2>1, BatchSendable
  <2> QED
    BY <2>2 DEF Sendable, RoutingVerbs, Tier, Tiers
<1>4. \A r : At(0, r).req = r /\ At(0, r).rank = 0 /\ At(0, r).tier = Tier(r.verb)
  BY DEF At
<1> HIDE DEF F, T
<1>5. \A a \in routing : /\ a.req \in Diffed(F, T) /\ ~IsCertificateRequest(a.req) /\ InPlaceOf(a)
                         /\ a = At(0, a.req)
  BY <1>3, <1>4 DEF InPlaceOf
<1>6. \A r \in Diffed(F, T) : \E a \in routing : a.req = r
  BY <1>4
<1> HIDE DEF routing
<1>7. {a \in W : IsCertificateRequest(a.req)} = certs
  BY <1>1, <1>2, <1>5
<1>8. RoutingHalf(W) = Diffed(F, T)
  BY <1>1, <1>2, <1>5, <1>6 DEF RoutingHalf
<1>9. \A a \in W : InPlaceOf(a)
  BY <1>1, <1>2, <1>5
<1>10. \A a, b \in W : a.req = b.req => a = b
  <2>1. \A a, b \in certs : a.req = b.req => a = b
    BY HalfBetween
  <2> QED
    BY <1>1, <1>2, <1>5, <2>1
<1> QED
  BY <1>7, <1>8, <1>9, <1>10 DEF F, T

(* A stage a batch passes. *)
Staged(F, T, P) ==
  /\ Keyed(StageOf(F, T, P))
  /\ Pend(P, "DeactivateListener") \subseteq Pend(P, "RemoveListener")

(* With the requests R of a batch to go, the first of them is taken where the batch expects Sozu *)
(* to be, and leaves it there.                                                                  *)
LEMMA BatchGoesOn ==
  ASSUME NEW from, NEW to, Wanted(to), Keyed(RoutingState(from)), NEW W \in Reconcile(from, to),
         NEW R \in SUBSET W, Staged(RoutingState(from), RoutingState(to), RoutingHalf(R)),
         NEW a \in Firsts(R), ~IsCertificateRequest(a.req)
  PROVE  LET F == RoutingState(from)
             T == RoutingState(to)
             H == StageOf(F, T, RoutingHalf(R))
         IN /\ Going(F, T, RoutingHalf(R), H, a.req) /\ Refusal(H, a.req) = None /\ Sendable(a.req)
            /\ Dispatched(H, a.req) = StageOf(F, T, RoutingHalf(R \ {a}))
            /\ Staged(F, T, RoutingHalf(R \ {a}))
<1> DEFINE F == RoutingState(from)
           T == RoutingState(to)
           P == RoutingHalf(R)
           H == StageOf(F, T, P)
<1>1. Keyed(T) /\ Whole(T)
  BY WantedWhole DEF Wanted
<1>2. /\ RoutingHalf(W) = Diffed(F, T) /\ (\A b \in W : InPlaceOf(b))
      /\ \A b, c \in W : b.req = c.req => b = c
  BY BatchParts
<1>3. P \subseteq Diffed(F, T)
  BY <1>2 DEF RoutingHalf
<1>4. a \in R /\ (\A b \in R : ~Precedes(b, a)) /\ a.req \in P
  BY DEF Firsts, RoutingHalf
<1>5. NextOf(P, a.req)
  <2>1. \A b \in R : ~(Tier(b.req.verb) < Tier(a.req.verb))
    BY <1>2, <1>4 DEF InPlaceOf, Precedes
  <2> QED
    BY <1>4, <2>1 DEF NextOf, RoutingHalf
<1> HIDE DEF F, T, P
<1>6. Between(F, T, P)
  <2>1. Keyed(F)
    BY DEF F
  <2> QED
    BY <1>1, <1>3, <2>1, BatchBetween, BetweenLess
<1>7. IsState(H) /\ Stage(F, T, P, H) /\ Keyed(H)
  BY StageIs DEF Staged, F, T, P
<1>8. Going(F, T, P, H, a.req)
  BY <1>1, <1>5, <1>6, <1>7 DEF Going, F
<1>9. Refusal(H, a.req) = None /\ Stage(F, T, P \ {a.req}, Dispatched(H, a.req))
  BY <1>8, RequestGoesOn DEF GoesOn
<1>10. Sendable(a.req)
  BY <1>1, <1>3, <1>4, BatchSendable
<1>11. IsState(Dispatched(H, a.req)) /\ Keyed(Dispatched(H, a.req))
  <2>1. Settles(H, a.req) /\ Settled(H, a.req) = Dispatched(H, a.req)
    BY <1>9 DEF Settles, Settled, None
  <2>2. IsState(Settled(H, a.req)) /\ Keyed(Settled(H, a.req))
    BY <1>7, <1>10, <2>1, SettledKeyed
  <2> QED
    BY <2>1, <2>2
<1>12. RoutingHalf(R \ {a}) = P \ {a.req}
  BY <1>2, <1>4 DEF RoutingHalf, P
<1> HIDE DEF H
<1>13. Dispatched(H, a.req) = StageOf(F, T, P \ {a.req})
  BY <1>9, <1>11, StageIs
<1>14. Staged(F, T, P \ {a.req})
  BY <1>9, <1>11, <1>13 DEF Staged, Stage
<1> QED
  BY <1>8, <1>9, <1>10, <1>12, <1>13, <1>14 DEF F, T, P, H

(* What a request a of R is to the certificate half of a batch. *)
InCertificates(from, to, R, a) ==
  /\ IsCertificateRequest(a.req) =>
       /\ RoutingHalf(R \ {a}) = RoutingHalf(R) /\ a.req \in CertificateHalf(R)
       /\ CertificateHalf(R \ {a}) = CertificateHalf(R) \ {a.req}
  /\ ~IsCertificateRequest(a.req) => CertificateHalf(R \ {a}) = CertificateHalf(R)
  /\ CertBetween(KeyedCerts(from.certs), KeyedCerts(to.certs), CertificateHalf(R))

(* A certificate request leaves the routing half as it is, and is one of the certificate half. *)
LEMMA CertGoesOn ==
  ASSUME NEW from, NEW to, Wanted(to), NEW W \in Reconcile(from, to), NEW R \in SUBSET W, NEW a \in R
  PROVE  InCertificates(from, to, R, a)
<1>1. \A b, c \in W : b.req = c.req => b = c
  BY BatchParts
<1>2. ASSUME IsCertificateRequest(a.req)
      PROVE  /\ RoutingHalf(R \ {a}) = RoutingHalf(R) /\ a.req \in CertificateHalf(R)
             /\ CertificateHalf(R \ {a}) = CertificateHalf(R) \ {a.req}
  BY <1>1, <1>2 DEF RoutingHalf, CertificateHalf
<1>3. ASSUME ~IsCertificateRequest(a.req) PROVE CertificateHalf(R \ {a}) = CertificateHalf(R)
  BY <1>3 DEF CertificateHalf
<1> DEFINE certs == {b \in W : IsCertificateRequest(b.req)}
<1>4. certs \in CertificateBatches(from.certs, to.certs)
  BY BatchParts
<1>5. CertBetween(KeyedCerts(from.certs), KeyedCerts(to.certs), {b.req : b \in certs})
  BY <1>4, HalfBetween
<1>6. CertificateHalf(R) \subseteq {b.req : b \in certs}
  BY DEF CertificateHalf
<1>7. CertBetween(KeyedCerts(from.certs), KeyedCerts(to.certs), CertificateHalf(R))
  BY <1>5, <1>6, CertBetweenLess
<1> QED
  BY <1>2, <1>3, <1>7 DEF InCertificates

-----------------------------------------------------------------------------
(* Frontends in sequence, as the replay keeps them. *)

(* The first on its key. *)
FirstOnKey(s, i) == i \in DOMAIN s /\ \A k \in 1..(i - 1) : RouteKey(s[k]) # RouteKey(s[i])

(* What is sent of a sequence of frontends. *)
Uniques(s) == {FrontendPayload(s[i]) : i \in {j \in DOMAIN s : FirstOnKey(s, j)}}

(* Every key of a sequence has a first. *)
LEMMA FirstExists ==
  ASSUME NEW s, IsList(s), NEW i \in 1..Len(s)
  PROVE  \E m \in 1..i : FirstOnKey(s, m) /\ RouteKey(s[m]) = RouteKey(s[i])
<1>0. Len(s) \in Nat /\ DOMAIN s = 1..Len(s)
  BY ListFields
<1> DEFINE T == {k \in 1..Len(s) : RouteKey(s[k]) = RouteKey(s[i])}
<1>1. T \in SUBSET Nat /\ T # {}
  BY <1>0
<1>2. PICK m \in T : \A k \in T : ~(k < m)
  <2> HIDE DEF T
  <2> QED
    BY <1>1, LeastNat
<1>3. m \in 1..i
  BY <1>0, <1>2
<1>4. \A k \in 1..(m - 1) : k \in 1..Len(s) /\ k < m
  BY <1>0, <1>2
<1>5. \A k \in 1..(m - 1) : RouteKey(s[k]) # RouteKey(s[m])
  BY <1>2, <1>4
<1> QED
  BY <1>0, <1>2, <1>3, <1>5 DEF FirstOnKey

(* A payload is filed under the key of its frontend, and names its cluster. *)
LEMMA PayloadFields ==
  ASSUME NEW f
  PROVE  FrontendPayload(f).key = RouteKey(f) /\ FrontendPayload(f).cluster = f.cluster
BY DEF FrontendPayload

(* A filter that keeps the first of each key it keeps anything of. *)
LEMMA UniquesFiltered ==
  ASSUME NEW s, IsList(s), NEW kept,
         \A i, j \in 1..Len(s) : s[i] \in kept /\ FirstOnKey(s, j) /\ RouteKey(s[j]) = RouteKey(s[i]) => s[j] \in kept
  PROVE  /\ IsList(Filtered(s, kept)) /\ Range(Filtered(s, kept)) = Range(s) \cap kept
         /\ \A x : x \in Uniques(Filtered(s, kept)) <=>
                     \E i \in 1..Len(s) : FirstOnKey(s, i) /\ s[i] \in kept /\ x = FrontendPayload(s[i])
<1> DEFINE g == Filtered(s, kept)
           n == Len(s)
           m == Len(g)
<1>0. n \in Nat /\ DOMAIN s = 1..n
  BY ListFields
<1>1. PICK e : Picks(s, kept, n, g, e)
  BY FilteredPicks
<1> HIDE DEF g, n
<1>2. /\ g \in Seq(Range(s)) /\ m \in Nat
      /\ \A j \in 1..m : e[j] \in 1..n /\ g[j] = s[e[j]] /\ s[e[j]] \in kept
      /\ \A i, j \in 1..m : i < j => e[i] < e[j]
      /\ \A i \in 1..n : s[i] \in kept => \E j \in 1..m : e[j] = i
  BY <1>1 DEF Picks
<1>3. DOMAIN g = 1..m
  BY <1>2
<1> HIDE DEF m
<1>4. Range(g) = Range(s) \cap kept
  <2>1. \A f : f \in Range(g) <=> \E j \in 1..m : f = g[j]
    BY <1>3 DEF Range
  <2>2. \A f : f \in Range(s) <=> \E i \in 1..n : f = s[i]
    BY <1>0 DEF Range
  <2>3. \A f \in Range(g) : f \in Range(s) /\ f \in kept
    BY <1>2, <2>1, <2>2
  <2>4. \A f \in Range(s) : f \in kept => f \in Range(g)
    <3> SUFFICES ASSUME NEW i \in 1..n, s[i] \in kept PROVE s[i] \in Range(g)
      BY <2>2
    <3>1. PICK j \in 1..m : e[j] = i
      BY <1>2
    <3>2. g[j] = s[i]
      BY <1>2, <3>1
    <3> QED
      BY <2>1, <3>2
  <2> QED
    BY <2>3, <2>4
<1>5. IsList(g)
  <2>1. \A j \in 1..m : g[j] \in Range(g)
    BY <1>3 DEF Range
  <2>2. g = [j \in 1..m |-> g[j]]
    BY <1>2, <1>3
  <2>3. [j \in 1..m |-> g[j]] \in Seq(Range(g))
    BY <1>2, <2>1
  <2> QED
    BY <2>2, <2>3 DEF IsList
<1>6. ASSUME NEW i \in 1..n, FirstOnKey(s, i), s[i] \in kept
      PROVE  \E j \in 1..m : FirstOnKey(g, j) /\ g[j] = s[i]
  <2>1. PICK j \in 1..m : e[j] = i
    BY <1>2, <1>6
  <2>2. \A k \in 1..(j - 1) : k \in 1..m /\ k < j
    BY <1>2, <2>1
  <2>3. \A k \in 1..(j - 1) : e[k] \in 1..(i - 1)
    BY <1>0, <1>2, <2>1, <2>2
  <2>4. \A k \in 1..(j - 1) : RouteKey(s[e[k]]) # RouteKey(s[i])
    BY <1>6, <2>3 DEF FirstOnKey
  <2>5. g[j] = s[i] /\ \A k \in 1..(j - 1) : g[k] = s[e[k]]
    BY <1>2, <2>1, <2>2
  <2>6. \A k \in 1..(j - 1) : RouteKey(g[k]) # RouteKey(g[j])
    BY <2>4, <2>5
  <2>7. FirstOnKey(g, j)
    BY <1>3, <2>6 DEF FirstOnKey
  <2> QED
    BY <2>5, <2>7
<1>7. ASSUME NEW j \in 1..m, FirstOnKey(g, j)
      PROVE  FirstOnKey(s, e[j])
  <2> DEFINE i == e[j]
  <2>1. i \in 1..n /\ g[j] = s[i] /\ s[i] \in kept
    BY <1>2
  <2> HIDE DEF i
  <2>2. PICK f \in 1..i : FirstOnKey(s, f) /\ RouteKey(s[f]) = RouteKey(s[i])
    BY <2>1, FirstExists DEF n
  <2>3. f \in 1..n /\ s[f] \in kept
    BY <1>0, <2>1, <2>2 DEF n
  <2>4. PICK k \in 1..m : e[k] = f
    BY <1>2, <2>3
  <2>5. ~(j < k)
    BY <1>2, <2>1, <2>2, <2>4 DEF i
  <2>6. ~(k < j)
    <3> SUFFICES ASSUME k < j PROVE FALSE
      OBVIOUS
    <3>1. k \in 1..(j - 1)
      BY <1>2
    <3>2. RouteKey(g[k]) # RouteKey(g[j])
      BY <1>7, <3>1 DEF FirstOnKey
    <3>3. g[k] = s[f]
      BY <1>2, <2>4
    <3> QED
      BY <2>1, <2>2, <3>2, <3>3
  <2>7. k = j
    BY <1>2, <2>5, <2>6
  <2> QED
    BY <2>2, <2>4, <2>7 DEF i
<1>8. ASSUME NEW x
      PROVE  x \in Uniques(g) <=>
               \E i \in 1..n : FirstOnKey(s, i) /\ s[i] \in kept /\ x = FrontendPayload(s[i])
  <2>1. ASSUME x \in Uniques(g)
        PROVE  \E i \in 1..n : FirstOnKey(s, i) /\ s[i] \in kept /\ x = FrontendPayload(s[i])
    <3>1. PICK j \in 1..m : FirstOnKey(g, j) /\ x = FrontendPayload(g[j])
      BY <1>3, <2>1 DEF Uniques
    <3> QED
      BY <1>2, <1>7, <3>1
  <2>2. ASSUME NEW i \in 1..n, FirstOnKey(s, i), s[i] \in kept, x = FrontendPayload(s[i])
        PROVE  x \in Uniques(g)
    <3>1. PICK j \in 1..m : FirstOnKey(g, j) /\ g[j] = s[i]
      BY <1>6, <2>2
    <3> QED
      BY <1>3, <2>2, <3>1 DEF Uniques
  <2> QED
    BY <2>1, <2>2
<1> QED
  BY <1>4, <1>5, <1>8 DEF g, n

(* What is sent of a sequence, with its frontends. *)
LEMMA InUniques ==
  ASSUME NEW s, IsList(s), NEW x
  PROVE  x \in Uniques(s) <=> \E i \in 1..Len(s) : FirstOnKey(s, i) /\ x = FrontendPayload(s[i])
<1>1. DOMAIN s = 1..Len(s)
  BY ListFields
<1> QED
  BY <1>1 DEF Uniques

(* Sequences of different keys, one after the other. *)
LEMMA UniquesJoined ==
  ASSUME NEW s, NEW g, IsList(s), IsList(g), \A f \in Range(s), h \in Range(g) : RouteKey(f) # RouteKey(h)
  PROVE  IsList(s \o g) /\ Uniques(s \o g) = Uniques(s) \cup Uniques(g)
<1> DEFINE t == s \o g
           n == Len(s)
           m == Len(g)
<1>1. /\ n \in Nat /\ m \in Nat
      /\ \A i \in 1..n : s[i] \in Range(s)
      /\ \A j \in 1..m : g[j] \in Range(g)
  BY ListFields
<1>2. s \in Seq(Range(s) \cup Range(g)) /\ g \in Seq(Range(s) \cup Range(g))
  BY DEF IsList
<1>3. /\ t \in Seq(Range(s) \cup Range(g)) /\ Len(t) = n + m /\ DOMAIN t = 1..(n + m)
      /\ \A i \in 1..n : t[i] = s[i]
      /\ \A j \in 1..m : t[n + j] = g[j]
  BY <1>1, <1>2
<1> HIDE DEF t, n, m
<1>4. IsList(t)
  <2>1. \A j \in 1..(n + m) : t[j] \in Range(t)
    BY <1>3 DEF Range
  <2>2. t = [j \in 1..(n + m) |-> t[j]]
    BY <1>3
  <2>3. [j \in 1..(n + m) |-> t[j]] \in Seq(Range(t))
    BY <1>1, <2>1
  <2> QED
    BY <2>2, <2>3 DEF IsList
<1>5. DOMAIN s = 1..n /\ DOMAIN g = 1..m
  BY ListFields DEF n, m
<1>6. ASSUME NEW i \in 1..n PROVE FirstOnKey(t, i) <=> FirstOnKey(s, i)
  <2>1. \A k \in 1..(i - 1) : k \in 1..n
    BY <1>1
  <2>2. i \in 1..(n + m)
    BY <1>1
  <2> QED
    BY <1>3, <1>5, <2>1, <2>2 DEF FirstOnKey
<1>7. ASSUME NEW j \in 1..m PROVE FirstOnKey(t, n + j) <=> FirstOnKey(g, j)
  <2>1. n + j \in 1..(n + m) /\ n + j \in DOMAIN t /\ t[n + j] = g[j]
    BY <1>1, <1>3
  <2>2. \A k \in 1..(j - 1) : k \in 1..m /\ n + k \in 1..((n + j) - 1)
    BY <1>1
  <2>3. ASSUME NEW k \in 1..((n + j) - 1)
        PROVE  k \in 1..n \/ (k - n \in 1..(j - 1) /\ k = n + (k - n))
    BY <1>1
  <2>4. ASSUME FirstOnKey(t, n + j) PROVE FirstOnKey(g, j)
    BY <1>3, <1>5, <2>1, <2>2, <2>4 DEF FirstOnKey
  <2>5. ASSUME FirstOnKey(g, j) PROVE FirstOnKey(t, n + j)
    <3> SUFFICES ASSUME NEW k \in 1..((n + j) - 1) PROVE RouteKey(t[k]) # RouteKey(t[n + j])
      BY <2>1 DEF FirstOnKey
    <3>1. CASE k \in 1..n
      BY <1>1, <1>3, <2>1, <3>1
    <3>2. CASE k - n \in 1..(j - 1) /\ k = n + (k - n)
      <4>1. t[k] = g[k - n]
        BY <1>3, <2>2, <3>2
      <4> QED
        BY <2>1, <2>5, <3>2, <4>1 DEF FirstOnKey
    <3> QED
      BY <2>3, <3>1, <3>2
  <2> QED
    BY <2>4, <2>5
<1>8. \A i \in 1..(n + m) : i \in 1..n \/ (i - n \in 1..m /\ i = n + (i - n))
  BY <1>1
<1>9. (\A i \in 1..n : i \in 1..(n + m)) /\ \A j \in 1..m : n + j \in 1..(n + m)
  BY <1>1
<1>10. ASSUME NEW x PROVE x \in Uniques(t) <=> x \in Uniques(s) \/ x \in Uniques(g)
  <2>1. x \in Uniques(t) <=> \E i \in 1..(n + m) : FirstOnKey(t, i) /\ x = FrontendPayload(t[i])
    BY <1>3 DEF Uniques
  <2>2. x \in Uniques(s) <=> \E i \in 1..n : FirstOnKey(s, i) /\ x = FrontendPayload(s[i])
    BY <1>5 DEF Uniques
  <2>3. x \in Uniques(g) <=> \E i \in 1..m : FirstOnKey(g, i) /\ x = FrontendPayload(g[i])
    BY <1>5 DEF Uniques
  <2>4. ASSUME NEW i \in 1..(n + m), FirstOnKey(t, i), x = FrontendPayload(t[i])
        PROVE  x \in Uniques(s) \/ x \in Uniques(g)
    <3>1. CASE i \in 1..n
      BY <1>3, <1>6, <2>2, <2>4, <3>1
    <3>2. CASE i - n \in 1..m /\ i = n + (i - n)
      <4>1. t[i] = g[i - n]
        BY <1>3, <3>2
      <4>2. FirstOnKey(g, i - n)
        BY <1>7, <2>4, <3>2
      <4> QED
        BY <2>3, <2>4, <3>2, <4>1, <4>2
    <3> QED
      BY <1>8, <3>1, <3>2
  <2>5. ASSUME NEW i \in 1..n, FirstOnKey(s, i), x = FrontendPayload(s[i]) PROVE x \in Uniques(t)
    BY <1>3, <1>6, <1>9, <2>1, <2>5
  <2>6. ASSUME NEW j \in 1..m, FirstOnKey(g, j), x = FrontendPayload(g[j]) PROVE x \in Uniques(t)
    BY <1>3, <1>7, <1>9, <2>1, <2>6
  <2> QED
    BY <2>1, <2>2, <2>3, <2>4, <2>5, <2>6
<1> QED
  BY <1>4, <1>10 DEF t

(* What is sent of g: what is sent of s, less a key, *)
Unkeyed(g, s, key) == \A x : x \in Uniques(g) <=> x \in Uniques(s) /\ x.key # key

(* and with what is sent of w under it. *)
Rekeyed(g, s, w, key) ==
  \A x : x \in Uniques(g) <=> (x \in Uniques(s) /\ x.key # key) \/ (x \in Uniques(w) /\ x.key = key)

(* A key taken off a sequence. *)
LEMMA UniquesUngrouped ==
  ASSUME NEW s, IsList(s), NEW key
  PROVE  /\ IsList(Ungroup(s, key)) /\ \A f \in Range(Ungroup(s, key)) : RouteKey(f) # key
         /\ Unkeyed(Ungroup(s, key), s, key)
<1> DEFINE kept == Range(s) \ OnKey(s, key)
<1>1. \A i \in 1..Len(s) : s[i] \in kept <=> RouteKey(s[i]) # key
  BY ListFields DEF OnKey
<1>2. /\ IsList(Filtered(s, kept)) /\ Range(Filtered(s, kept)) = Range(s) \cap kept
      /\ \A x : x \in Uniques(Filtered(s, kept)) <=>
                  \E i \in 1..Len(s) : FirstOnKey(s, i) /\ s[i] \in kept /\ x = FrontendPayload(s[i])
  <2> HIDE DEF kept
  <2> QED
    BY <1>1, UniquesFiltered
<1>3. Ungroup(s, key) = Filtered(s, kept)
  BY DEF Ungroup
<1>4. \A f \in Range(s) \cap kept : RouteKey(f) # key
  BY DEF OnKey
<1> HIDE DEF kept
<1>5. \A x : x \in Uniques(Ungroup(s, key)) <=> x \in Uniques(s) /\ x.key # key
  BY <1>1, <1>2, <1>3, InUniques, PayloadFields
<1>6. Unkeyed(Ungroup(s, key), s, key)
  BY <1>5 DEF Unkeyed
<1> QED
  BY <1>2, <1>3, <1>4, <1>6

(* A key set to what is wanted under it. *)
LEMMA UniquesRegrouped ==
  ASSUME NEW s, NEW w, IsList(s), IsList(w), NEW key, \E o \in Uniques(w) : o.key = key
  PROVE  /\ IsList(RegroupSeq(s, key, w))
         /\ Rekeyed(RegroupSeq(s, key, w), s, w, key)
<1> DEFINE kept == OnKey(w, key)
           group == Filtered(w, kept)
           rest == Ungroup(s, key)
<1>1. \A i \in 1..Len(w) : w[i] \in kept <=> RouteKey(w[i]) = key
  BY ListFields DEF OnKey
<1>2. /\ IsList(group) /\ Range(group) = Range(w) \cap kept
      /\ \A x : x \in Uniques(group) <=>
                  \E i \in 1..Len(w) : FirstOnKey(w, i) /\ w[i] \in kept /\ x = FrontendPayload(w[i])
  <2> HIDE DEF kept
  <2> QED
    BY <1>1, UniquesFiltered
<1>3. \A f \in Range(w) \cap kept : RouteKey(f) = key
  BY DEF OnKey
<1> HIDE DEF kept, group
<1>4. \A x : x \in Uniques(group) <=> x \in Uniques(w) /\ x.key = key
  BY <1>1, <1>2, InUniques, PayloadFields
<1>5. group # <<>>
  <2>1. \E o : o \in Uniques(group)
    BY <1>4
  <2> QED
    BY <2>1 DEF Uniques
<1>6. RegroupSeq(s, key, w) = rest \o group
  BY <1>5 DEF RegroupSeq, group, kept
<1>7. /\ IsList(rest) /\ (\A f \in Range(rest) : RouteKey(f) # key)
      /\ Unkeyed(rest, s, key)
  BY UniquesUngrouped
<1> HIDE DEF rest
<1>8. IsList(rest \o group) /\ Uniques(rest \o group) = Uniques(rest) \cup Uniques(group)
  BY <1>2, <1>3, <1>7, UniquesJoined
<1>9. \A x : x \in Uniques(rest \o group) <=>
              (x \in Uniques(s) /\ x.key # key) \/ (x \in Uniques(w) /\ x.key = key)
  BY <1>4, <1>7, <1>8 DEF Unkeyed
<1> QED
  BY <1>6, <1>8, <1>9 DEF Rekeyed

(* Frontends of a cluster taken off, none of which was sent. *)
LEMMA UniquesUnnamed ==
  ASSUME NEW s, IsList(s), NEW id, \A x \in Uniques(s) : x.cluster # id
  PROVE  LET g == Filtered(s, Range(s) \ {f \in Range(s) : f.cluster = id})
         IN IsList(g) /\ Uniques(g) = Uniques(s)
<1> DEFINE kept == Range(s) \ {f \in Range(s) : f.cluster = id}
<1>1. \A i \in 1..Len(s) : s[i] \in kept <=> s[i].cluster # id
  BY ListFields
<1>2. \A i \in 1..Len(s) : FirstOnKey(s, i) => s[i] \in kept
  BY <1>1, InUniques, PayloadFields
<1> HIDE DEF kept
<1>3. /\ IsList(Filtered(s, kept))
      /\ \A x : x \in Uniques(Filtered(s, kept)) <=>
                  \E i \in 1..Len(s) : FirstOnKey(s, i) /\ s[i] \in kept /\ x = FrontendPayload(s[i])
  BY <1>2, UniquesFiltered
<1>4. \A x : x \in Uniques(Filtered(s, kept)) <=> x \in Uniques(s)
  BY <1>2, <1>3, InUniques
<1> QED
  BY <1>3, <1>4 DEF kept
-----------------------------------------------------------------------------
(* The replay next to the state it describes. *)

(* Clusters, whose affinity the replay does not record. *)
ClustersTrack(clusters, payloads) ==
  /\ \A c \in clusters : \E h \in payloads : h = ClusterPayload(c, h.udp)
  /\ \A h \in payloads : \E c \in clusters : h = ClusterPayload(c, h.udp)

(* Layer-4 frontends, those that went and are remembered among them. *)
L4Track(entries, l4, keys) ==
  /\ \A e \in entries : e = [front |-> e.front, held |-> e.held] /\ e.held \in BOOLEAN /\ L4Key(e.front) \in keys
  /\ \A f : f \in l4 <=> \E e \in entries : e.held /\ e.front = f

(* The replay R describes H, on the way from F to T. *)
Tracks(R, H, F, T) ==
  /\ R = [clusters |-> R.clusters, backends |-> R.backends, frontends |-> R.frontends, l4 |-> R.l4,
          gone |-> R.gone]
  /\ ClustersTrack(R.clusters, H.clusters)
  /\ R.backends = H.backends
  /\ IsList(R.frontends) /\ Uniques(R.frontends) = H.routes
  /\ L4Track(R.l4, H.l4, F.listeners \cup T.listeners)
  /\ F.listeners \ H.listeners \subseteq R.gone

(* The frontends sent are the first of each key. *)
LEMMA UniquesAre ==
  ASSUME NEW ir
  PROVE  UniqueFrontends(ir) = Uniques(ir.frontends)
BY DEF UniqueFrontends, Uniques, FirstOnKey

(* The listeners of an IR are those of its layer-4 frontends. *)
LEMMA ListenersOf ==
  ASSUME NEW ir
  PROVE  \A k : k \in RoutingState(ir).listeners <=> \E f \in ir.l4 : k = L4Key(f)
BY DEF RoutingState

(* A payload spells its cluster, and whether it is a cluster of datagrams. *)
LEMMA ClusterFields ==
  ASSUME NEW c, NEW u
  PROVE  ClusterPayload(c, u).id = c.id /\ ClusterPayload(c, u).udp = u
BY DEF ClusterPayload

(* The replay begins at the baseline. *)
LEMMA TracksBegin ==
  ASSUME NEW from, NEW to, IsList(from.frontends)
  PROVE  Tracks(Begun(from), RoutingState(from), RoutingState(from), RoutingState(to))
<1> DEFINE R == Begun(from)
           F == RoutingState(from)
           T == RoutingState(to)
           udp == {f.cluster : f \in {g \in from.l4 : g.proto = "Udp"}}
<1>1. /\ R = [clusters |-> R.clusters, backends |-> R.backends, frontends |-> R.frontends, l4 |-> R.l4,
              gone |-> R.gone]
      /\ R.clusters = from.clusters /\ R.backends = from.backends /\ R.frontends = from.frontends
      /\ R.l4 = Remember(from.l4)
  BY DEF Begun
<1>2. F.clusters = ClusterPayloads(from) /\ F.backends = from.backends /\ F.routes = UniqueFrontends(from) /\ F.l4 = from.l4
  BY RoutingStateFields
<1>3. ClustersTrack(R.clusters, F.clusters)
  <2>1. F.clusters = {ClusterPayload(c, c.id \in udp) : c \in from.clusters}
    BY <1>2 DEF ClusterPayloads
  <2> HIDE DEF udp
  <2> QED
    BY <1>1, <2>1, ClusterFields DEF ClustersTrack
<1>4. \A f \in from.l4 : L4Key(f) \in F.listeners
  BY ListenersOf
<1>5. L4Track(R.l4, F.l4, F.listeners \cup T.listeners)
  <2>1. R.l4 = {[front |-> f, held |-> TRUE] : f \in from.l4}
    BY <1>1 DEF Remember
  <2> DEFINE E == R.l4
  <2> HIDE DEF F, T, R
  <2>2. \A e : e \in E <=> \E f \in from.l4 : e = [front |-> f, held |-> TRUE]
    BY <2>1
  <2> HIDE DEF E
  <2>3. \A e \in E : /\ e.front \in from.l4 /\ e.held = TRUE
                    /\ e = [front |-> e.front, held |-> e.held] /\ e.held \in BOOLEAN
    <3> SUFFICES ASSUME NEW e \in E
                 PROVE  /\ e.front \in from.l4 /\ e.held = TRUE
                        /\ e = [front |-> e.front, held |-> e.held] /\ e.held \in BOOLEAN
      OBVIOUS
    <3>1. PICK f \in from.l4 : e = [front |-> f, held |-> TRUE]
      BY <2>2
    <3>2. e.front = f /\ e.held = TRUE
      BY <3>1
    <3> QED
      BY <3>1, <3>2
  <2>4. \A f \in from.l4 : \E e \in E : e.held /\ e.front = f
    <3> SUFFICES ASSUME NEW f \in from.l4 PROVE \E e \in E : e.held /\ e.front = f
      OBVIOUS
    <3>1. [front |-> f, held |-> TRUE] \in E
      BY <2>2
    <3> QED
      BY <3>1
  <2>5. \A e \in E : L4Key(e.front) \in F.listeners \cup T.listeners
    BY <1>4, <2>3
  <2>6. \A f : f \in from.l4 <=> \E e \in E : e.held /\ e.front = f
    BY <2>3, <2>4
  <2>7. L4Track(E, from.l4, F.listeners \cup T.listeners)
    BY <2>3, <2>5, <2>6 DEF L4Track
  <2> QED
    BY <1>2, <2>7 DEF E
<1>6. Uniques(R.frontends) = F.routes
  BY <1>1, <1>2, UniquesAre
<1> HIDE DEF R, F, T
<1>7. Tracks(R, F, F, T)
  BY <1>1, <1>2, <1>3, <1>5, <1>6 DEF Tracks
<1> QED
  BY <1>7 DEF R, F, T

(* A cluster is set. *)
LEMMA TracksAddCluster ==
  ASSUME NEW R, NEW H, NEW F, NEW to, Wanted(to), IsState(H), NEW r, r.verb = "AddCluster",
         r.obj \in RoutingState(to).clusters, Tracks(R, H, F, RoutingState(to))
  PROVE  Tracks(Rerouted(R, to, r), Moved(H, r), F, RoutingState(to))
<1> DEFINE o == r.obj
           held == {c \in R.clusters : c.id = o.id}
           wanted == {c \in to.clusters : c.id = o.id}
           C == Regroup(R.clusters, held, wanted)
           K == {h \in H.clusters : h.id # o.id} \cup {o}
           udp == {f.cluster : f \in {g \in to.l4 : g.proto = "Udp"}}
<1>1. Rerouted(R, to, r) = [R EXCEPT !.clusters = C]
  BY DEF Rerouted
<1>2. Moved(H, r) = [H EXCEPT !.clusters = K]
  BY DEF Moved
<1>3. PICK c0 \in to.clusters : o = ClusterPayload(c0, c0.id \in udp)
  <2>1. RoutingState(to).clusters = {ClusterPayload(c, c.id \in udp) : c \in to.clusters}
    BY RoutingStateFields DEF ClusterPayloads
  <2> QED
    BY <2>1
<1> HIDE DEF udp
<1>4. o.id = c0.id /\ o.udp = (c0.id \in udp)
  BY <1>3, ClusterFields
<1>5. wanted = {c0}
  BY <1>4, IRsAssumption DEF Wanted
<1>6. C = {c \in R.clusters : c.id # o.id} \cup {c0}
  BY <1>5 DEF Regroup
<1>7. ClustersTrack(R.clusters, H.clusters)
  BY DEF Tracks
<1> HIDE DEF C, K, o
<1>8. ClustersTrack(C, K)
  <2>1. \A c, u : ClusterPayload(c, u).id = c.id
    BY ClusterFields
  <2>2. o = ClusterPayload(c0, o.udp)
    BY <1>3, <1>4
  <2> QED
    BY <1>4, <1>6, <1>7, <2>1, <2>2 DEF ClustersTrack, K
<1>9. /\ [R EXCEPT !.clusters = C].clusters = C /\ [H EXCEPT !.clusters = K].clusters = K
  BY DEF Tracks, IsState
<1> QED
  BY <1>1, <1>2, <1>8, <1>9 DEF Tracks, IsState

(* A cluster goes that nothing names. *)
LEMMA TracksRemoveCluster ==
  ASSUME NEW R, NEW H, NEW F, NEW T, NEW to, IsState(H), NEW r, r.verb = "RemoveCluster",
         Unnamed(H, r.obj.id), Tracks(R, H, F, T)
  PROVE  Tracks(Rerouted(R, to, r), Moved(H, r), F, T)
<1> DEFINE id == r.obj.id
           C == R.clusters \ {c \in R.clusters : c.id = id}
           B == R.backends \ {o \in R.backends : o.cluster = id}
           N == Filtered(R.frontends, Range(R.frontends) \ {o \in Range(R.frontends) : o.cluster = id})
           named == {o \in {e.front : e \in R.l4} : o.cluster = id}
           E == {[e EXCEPT !.held = @ /\ e.front \notin named] : e \in R.l4}
           K == {h \in H.clusters : h.id # id}
<1>1. Rerouted(R, to, r) = [R EXCEPT !.clusters = C, !.backends = B, !.frontends = N, !.l4 = E]
  BY DEF Rerouted, LetGo
<1>2. Moved(H, r) = [H EXCEPT !.clusters = K]
  BY DEF Moved
<1>3. /\ ClustersTrack(R.clusters, H.clusters) /\ R.backends = H.backends
      /\ IsList(R.frontends) /\ Uniques(R.frontends) = H.routes
      /\ L4Track(R.l4, H.l4, F.listeners \cup T.listeners)
      /\ F.listeners \ H.listeners \subseteq R.gone
      /\ R = [clusters |-> R.clusters, backends |-> R.backends, frontends |-> R.frontends, l4 |-> R.l4,
              gone |-> R.gone]
  BY DEF Tracks
<1>4. /\ \A b \in H.backends : b.cluster # id
      /\ \A x \in H.routes : x.cluster # id
      /\ \A f \in H.l4 : f.cluster # id
  BY DEF Unnamed
<1>5. ClustersTrack(C, K)
  <2>1. \A c, u : ClusterPayload(c, u).id = c.id
    BY ClusterFields
  <2> QED
    BY <1>3, <2>1 DEF ClustersTrack
<1>6. B = H.backends
  BY <1>3, <1>4
<1>7. IsList(N) /\ Uniques(N) = H.routes
  BY <1>3, <1>4, UniquesUnnamed, ZenonT(30)
<1>8. L4Track(E, H.l4, F.listeners \cup T.listeners)
  <2>1. \A e \in R.l4 : e = [front |-> e.front, held |-> e.held] /\ e.held \in BOOLEAN
    BY <1>3 DEF L4Track
  <2>2. \A e \in R.l4 : e.held => e.front \notin named
    BY <1>3, <1>4 DEF L4Track
  <2> HIDE DEF named
  <2>3. \A e \in R.l4 : [e EXCEPT !.held = @ /\ e.front \notin named] = e
    <3> SUFFICES ASSUME NEW e \in R.l4 PROVE [e EXCEPT !.held = @ /\ e.front \notin named] = e
      OBVIOUS
    <3>1. (e.held /\ e.front \notin named) = e.held
      BY <2>1, <2>2
    <3> QED
      BY <2>1, <3>1
  <2>4. E = R.l4
    BY <2>3
  <2> HIDE DEF E
  <2> QED
    BY <1>3, <2>4
<1> HIDE DEF C, B, N, E, K
<1> DEFINE Q == Rerouted(R, to, r)
           G == Moved(H, r)
<1>9. /\ Q = [clusters |-> C, backends |-> B, frontends |-> N, l4 |-> E, gone |-> R.gone]
      /\ G.clusters = K /\ G.backends = H.backends /\ G.routes = H.routes /\ G.l4 = H.l4
      /\ G.listeners = H.listeners
  BY <1>1, <1>2, <1>3 DEF IsState
<1> HIDE DEF Q, G
<1>10. Tracks(Q, G, F, T)
  BY <1>3, <1>5, <1>6, <1>7, <1>8, <1>9 DEF Tracks
<1> QED
  BY <1>10 DEF Q, G

(* Backends are set and removed by their keys. *)
LEMMA TracksBackend ==
  ASSUME NEW R, NEW H, NEW F, NEW to, Wanted(to), IsState(H), NEW r,
         \/ r.verb = "AddBackend" /\ r.obj \in RoutingState(to).backends
         \/ r.verb = "RemoveBackend",
         Tracks(R, H, F, RoutingState(to))
  PROVE  Tracks(Rerouted(R, to, r), Moved(H, r), F, RoutingState(to))
<1> DEFINE held == {b \in R.backends : BackendKey(b) = BackendKey(r.obj)}
           wanted == {b \in to.backends : BackendKey(b) = BackendKey(r.obj)}
           T == RoutingState(to)
<1>0. /\ R.backends = H.backends
      /\ R = [clusters |-> R.clusters, backends |-> R.backends, frontends |-> R.frontends, l4 |-> R.l4,
              gone |-> R.gone]
  BY DEF Tracks
<1>1. \E B : Rerouted(R, to, r) = [R EXCEPT !.backends = B] /\ Moved(H, r) = [H EXCEPT !.backends = B]
  <2>1. CASE r.verb = "AddBackend"
    <3>1. Rerouted(R, to, r) = [R EXCEPT !.backends = Regroup(R.backends, held, wanted)]
      BY <2>1 DEF Rerouted
    <3>2. Moved(H, r) = [H EXCEPT !.backends = {b \in H.backends : BackendKey(b) # BackendKey(r.obj)} \cup {r.obj}]
      BY <2>1 DEF Moved
    <3>3. r.obj \in to.backends
      BY <2>1, RoutingStateFields
    <3>4. wanted = {r.obj}
      BY <3>3, IRsAssumption DEF Wanted
    <3>5. Regroup(R.backends, held, wanted) = {b \in H.backends : BackendKey(b) # BackendKey(r.obj)} \cup {r.obj}
      BY <1>0, <3>4 DEF Regroup
    <3> QED
      BY <3>1, <3>2, <3>5
  <2>2. CASE r.verb = "RemoveBackend"
    <3>1. Rerouted(R, to, r) = [R EXCEPT !.backends = R.backends \ held]
      BY <2>2 DEF Rerouted
    <3>2. Moved(H, r) = [H EXCEPT !.backends = {b \in H.backends : BackendKey(b) # BackendKey(r.obj)}]
      BY <2>2 DEF Moved
    <3>3. R.backends \ held = {b \in H.backends : BackendKey(b) # BackendKey(r.obj)}
      BY <1>0
    <3> QED
      BY <3>1, <3>2, <3>3
  <2> QED
    BY <2>1, <2>2
<1>2. PICK B : Rerouted(R, to, r) = [R EXCEPT !.backends = B] /\ Moved(H, r) = [H EXCEPT !.backends = B]
  BY <1>1
<1> HIDE DEF T
<1> QED
  BY <1>0, <1>2 DEF Tracks, IsState, T

(* So are frontends. *)
LEMMA TracksFrontend ==
  ASSUME NEW R, NEW H, NEW F, NEW to, Wanted(to), IsState(H), NEW r,
         \/ r.verb = "AddFrontend" /\ r.obj \in RoutingState(to).routes
         \/ r.verb = "RemoveFrontend",
         Tracks(R, H, F, RoutingState(to))
  PROVE  Tracks(Rerouted(R, to, r), Moved(H, r), F, RoutingState(to))
<1> DEFINE T == RoutingState(to)
<1>0. /\ IsList(R.frontends) /\ Uniques(R.frontends) = H.routes
      /\ R = [clusters |-> R.clusters, backends |-> R.backends, frontends |-> R.frontends, l4 |-> R.l4,
              gone |-> R.gone]
  BY DEF Tracks
<1>1. \E N : Rerouted(R, to, r) = [R EXCEPT !.frontends = N] /\ IsList(N) /\ Moved(H, r) = [H EXCEPT !.routes = Uniques(N)]
  <2>1. CASE r.verb = "AddFrontend"
    <3> DEFINE N == RegroupSeq(R.frontends, r.obj.key, to.frontends)
    <3>1. Rerouted(R, to, r) = [R EXCEPT !.frontends = N]
      BY <2>1 DEF Rerouted
    <3>2. Moved(H, r) = [H EXCEPT !.routes = {f \in H.routes : f.key # r.obj.key} \cup {r.obj}]
      BY <2>1 DEF Moved
    <3>3. T.routes = Uniques(to.frontends) /\ r.obj \in Uniques(to.frontends)
      BY <2>1, RoutingStateFields, UniquesAre
    <3>4. IsList(to.frontends)
      BY IRsAssumption DEF Wanted, IsList
    <3>5. {x \in Uniques(to.frontends) : x.key = r.obj.key} = {r.obj}
      <4>1. \A f, g \in UniqueFrontends(to) : f.key = g.key => f = g
        BY FirstWins DEF Wanted
      <4> QED
        BY <3>3, <4>1, UniquesAre
    <3> DEFINE key == r.obj.key
               S == R.frontends
               W == to.frontends
    <3>6. IsList(S) /\ IsList(W) /\ (\E o \in Uniques(W) : o.key = key) /\ N = RegroupSeq(S, key, W)
      BY <1>0, <3>3, <3>4
    <3>7. {x \in Uniques(W) : x.key = key} = {r.obj} /\ Uniques(S) = H.routes
      BY <1>0, <3>5
    <3> HIDE DEF N, key, S, W
    <3>8. IsList(N) /\ Rekeyed(N, S, W, key)
      BY <3>6, UniquesRegrouped
    <3>9. Uniques(N) = {f \in H.routes : f.key # key} \cup {r.obj}
      BY <3>7, <3>8 DEF Rekeyed
    <3> QED
      BY <3>1, <3>2, <3>8, <3>9 DEF key
  <2>2. CASE r.verb = "RemoveFrontend"
    <3> DEFINE N == Ungroup(R.frontends, r.obj.key)
    <3>1. Rerouted(R, to, r) = [R EXCEPT !.frontends = N]
      BY <2>2 DEF Rerouted
    <3>2. Moved(H, r) = [H EXCEPT !.routes = {f \in H.routes : f.key # r.obj.key}]
      BY <2>2 DEF Moved
    <3>3. IsList(N) /\ Unkeyed(N, R.frontends, r.obj.key)
      BY <1>0, UniquesUngrouped
    <3> HIDE DEF N
    <3>4. Uniques(N) = {f \in H.routes : f.key # r.obj.key}
      BY <1>0, <3>3 DEF Unkeyed
    <3> QED
      BY <3>1, <3>2, <3>3, <3>4
  <2> QED
    BY <2>1, <2>2
<1>2. PICK N : Rerouted(R, to, r) = [R EXCEPT !.frontends = N] /\ IsList(N) /\ Moved(H, r) = [H EXCEPT !.routes = Uniques(N)]
  BY <1>1
<1> HIDE DEF T
<1> QED
  BY <1>0, <1>2 DEF Tracks, IsState, T
-----------------------------------------------------------------------------
(* A remembered frontend that is held. *)
LEMMA EntryFields ==
  ASSUME NEW f, NEW h
  PROVE  [front |-> f, held |-> h].front = f /\ [front |-> f, held |-> h].held = h
OBVIOUS

(* A layer-4 frontend is set on its address. *)
LEMMA L4Set ==
  ASSUME NEW E, NEW l4, NEW keys, L4Track(E, l4, keys), NEW o, L4Key(o) \in keys
  PROVE  L4Track({e \in E : L4Key(e.front) # L4Key(o)} \cup {[front |-> o, held |-> TRUE]},
                 {f \in l4 : L4Key(f) # L4Key(o)} \cup {o}, keys)
<1> DEFINE new == [front |-> o, held |-> TRUE]
           D == {e \in E : L4Key(e.front) # L4Key(o)} \cup {new}
           m == {f \in l4 : L4Key(f) # L4Key(o)} \cup {o}
<1>1. new.front = o /\ new.held = TRUE /\ new = [front |-> new.front, held |-> new.held]
  BY EntryFields
<1> HIDE DEF new
<1>2. /\ \A e \in E : e = [front |-> e.front, held |-> e.held] /\ e.held \in BOOLEAN /\ L4Key(e.front) \in keys
      /\ \A f : f \in l4 <=> \E e \in E : e.held /\ e.front = f
  BY DEF L4Track
<1>3. \A e \in D : e = [front |-> e.front, held |-> e.held] /\ e.held \in BOOLEAN /\ L4Key(e.front) \in keys
  BY <1>1, <1>2
<1>4. \A e : e \in D <=> (e \in E /\ L4Key(e.front) # L4Key(o)) \/ e = new
  OBVIOUS
<1>5. \A f : f \in m <=> (f \in l4 /\ L4Key(f) # L4Key(o)) \/ f = o
  OBVIOUS
<1> HIDE DEF D, m
<1>6. \A f : f \in m <=> \E e \in D : e.held /\ e.front = f
  BY <1>1, <1>2, <1>4, <1>5
<1>7. L4Track(D, m, keys)
  BY <1>3, <1>6 DEF L4Track
<1> QED
  BY <1>7 DEF D, m, new

(* What is on an address is let go. *)
LEMMA L4LetGo ==
  ASSUME NEW E, NEW l4, NEW keys, L4Track(E, l4, keys), NEW key
  PROVE  L4Track(LetGo(E, {e.front : e \in {d \in E : L4Key(d.front) = key}}),
                 {f \in l4 : L4Key(f) # key}, keys)
<1> DEFINE gone == {e.front : e \in {d \in E : L4Key(d.front) = key}}
           D == LetGo(E, gone)
           m == {f \in l4 : L4Key(f) # key}
<1>1. \A e \in E : e.front \in gone <=> L4Key(e.front) = key
  OBVIOUS
<1>2. /\ \A e \in E : e = [front |-> e.front, held |-> e.held] /\ e.held \in BOOLEAN /\ L4Key(e.front) \in keys
      /\ \A f : f \in l4 <=> \E e \in E : e.held /\ e.front = f
  BY DEF L4Track
<1> DEFINE still(e) == e.held /\ L4Key(e.front) # key
           entry(e) == [front |-> e.front, held |-> still(e)]
           let(e) == [e EXCEPT !.held = @ /\ e.front \notin gone]
<1> HIDE DEF gone
<1>3. \A e \in E : let(e) = entry(e)
  <2> SUFFICES ASSUME NEW e \in E PROVE let(e) = entry(e)
    OBVIOUS
  <2>1. e = [front |-> e.front, held |-> e.held]
    BY <1>2
  <2>2. (e.held /\ e.front \notin gone) = still(e)
    BY <1>1
  <2>3. let(e) = [e EXCEPT !.held = still(e)]
    BY <2>2
  <2> HIDE DEF still
  <2> QED
    BY <2>1, <2>3
<1>4. D = {let(e) : e \in E}
  BY DEF LetGo
<1>5. \A e \in E : still(e) \in BOOLEAN /\ (still(e) <=> e.held /\ L4Key(e.front) # key)
  OBVIOUS
<1> HIDE DEF D, still, let
<1>6. \A e : entry(e).front = e.front /\ entry(e).held = still(e) /\ entry(e) = [front |-> entry(e).front, held |-> entry(e).held]
  OBVIOUS
<1> HIDE DEF entry
<1>7. \A d : d \in D <=> \E e \in E : d = entry(e)
  BY <1>3, <1>4
<1>8. \A d \in D : d = [front |-> d.front, held |-> d.held] /\ d.held \in BOOLEAN /\ L4Key(d.front) \in keys
  <2> SUFFICES ASSUME NEW d \in D
               PROVE  d = [front |-> d.front, held |-> d.held] /\ d.held \in BOOLEAN /\ L4Key(d.front) \in keys
    OBVIOUS
  <2>1. PICK e \in E : d = entry(e)
    BY <1>7
  <2> QED
    BY <1>2, <1>5, <1>6, <2>1
<1> HIDE DEF m
<1>9. \A f : f \in m <=> \E d \in D : d.held /\ d.front = f
  <2>1. \A f : f \in m <=> f \in l4 /\ L4Key(f) # key
    BY DEF m
  <2>2. ASSUME NEW f \in m PROVE \E d \in D : d.held /\ d.front = f
    <3>1. PICK e \in E : e.held /\ e.front = f
      BY <1>2, <2>1
    <3>2. entry(e) \in D /\ entry(e).front = f /\ entry(e).held = still(e)
      BY <1>6, <1>7, <3>1
    <3>3. still(e)
      BY <1>5, <2>1, <3>1
    <3> QED
      BY <3>2, <3>3
  <2>3. ASSUME NEW d \in D, d.held PROVE d.front \in m
    <3>1. PICK e \in E : d = entry(e)
      BY <1>7
    <3>2. still(e) /\ d.front = e.front
      BY <1>6, <2>3, <3>1
    <3>3. e.held /\ L4Key(e.front) # key
      BY <1>5, <3>2
    <3> QED
      BY <1>2, <2>1, <3>2, <3>3
  <2> QED
    BY <2>2, <2>3
<1>10. L4Track(D, m, keys)
  BY <1>8, <1>9 DEF L4Track
<1> QED
  BY <1>10 DEF D, m, gone

(* Layer-4 frontends are set and let go by their addresses. *)
LEMMA TracksL4 ==
  ASSUME NEW R, NEW H, NEW F, NEW to, Wanted(to), IsState(H), NEW r,
         \/ r.verb = "AddL4" /\ r.obj \in RoutingState(to).l4
         \/ r.verb = "RemoveL4",
         Tracks(R, H, F, RoutingState(to))
  PROVE  Tracks(Rerouted(R, to, r), Moved(H, r), F, RoutingState(to))
<1> DEFINE T == RoutingState(to)
           keys == F.listeners \cup T.listeners
           o == r.obj
<1>0. /\ L4Track(R.l4, H.l4, keys)
      /\ R = [clusters |-> R.clusters, backends |-> R.backends, frontends |-> R.frontends, l4 |-> R.l4,
              gone |-> R.gone]
  BY DEF Tracks
<1>1. \E E, m : Rerouted(R, to, r) = [R EXCEPT !.l4 = E] /\ L4Track(E, m, keys) /\ Moved(H, r) = [H EXCEPT !.l4 = m]
  <2>1. CASE r.verb = "AddL4"
    <3> DEFINE held == {e \in R.l4 : L4Key(e.front) = L4Key(o)}
               wanted == {e \in Remember(to.l4) : L4Key(e.front) = L4Key(o)}
               E == {e \in R.l4 : L4Key(e.front) # L4Key(o)} \cup {[front |-> o, held |-> TRUE]}
               m == {f \in H.l4 : L4Key(f) # L4Key(o)} \cup {o}
    <3>1. Rerouted(R, to, r) = [R EXCEPT !.l4 = Regroup(R.l4, held, wanted)]
      BY <2>1 DEF Rerouted
    <3>2. Moved(H, r) = [H EXCEPT !.l4 = m]
      BY <2>1 DEF Moved
    <3>3. o \in to.l4 /\ L4Key(o) \in T.listeners
      BY <2>1, RoutingStateFields, ListenersOf
    <3>4. \A f \in to.l4 : L4Key(f) = L4Key(o) => f = o
      <4>1. Keyed(T)
        BY WantedWhole DEF Wanted
      <4> QED
        BY <3>3, <4>1, RoutingStateFields DEF Keyed
    <3>5. wanted = {[front |-> o, held |-> TRUE]}
      <4> DEFINE M == Remember(to.l4)
      <4>1. \A e : e \in M <=> \E f \in to.l4 : e = [front |-> f, held |-> TRUE]
        BY DEF Remember
      <4> HIDE DEF M, o
      <4>2. \A e : e \in M /\ L4Key(e.front) = L4Key(o) <=> e = [front |-> o, held |-> TRUE]
        BY <3>3, <3>4, <4>1, EntryFields
      <4> QED
        BY <4>2 DEF M
    <3> HIDE DEF o
    <3>6. Regroup(R.l4, held, wanted) = E
      BY <3>5 DEF Regroup
    <3>7. L4Track(E, m, keys)
      BY <1>0, <3>3, L4Set
    <3> HIDE DEF E, m
    <3> QED
      BY <3>1, <3>2, <3>6, <3>7
  <2>2. CASE r.verb = "RemoveL4"
    <3> DEFINE E == LetGo(R.l4, {e.front : e \in {d \in R.l4 : L4Key(d.front) = L4Key(o)}})
               m == {f \in H.l4 : L4Key(f) # L4Key(o)}
    <3>1. Rerouted(R, to, r) = [R EXCEPT !.l4 = E]
      BY <2>2 DEF Rerouted
    <3>2. Moved(H, r) = [H EXCEPT !.l4 = m]
      BY <2>2 DEF Moved
    <3> DEFINE key == L4Key(o)
    <3> HIDE DEF o, key
    <3>3. L4Track(E, m, keys)
      <4>1. L4Track(LetGo(R.l4, {e.front : e \in {d \in R.l4 : L4Key(d.front) = key}}),
                    {f \in H.l4 : L4Key(f) # key}, keys)
        BY <1>0, L4LetGo, ZenonT(30)
      <4> QED
        BY <4>1 DEF key
    <3> HIDE DEF E, m
    <3> QED
      BY <3>1, <3>2, <3>3
  <2> QED
    BY <2>1, <2>2
<1>2. PICK E, m : Rerouted(R, to, r) = [R EXCEPT !.l4 = E] /\ L4Track(E, m, keys) /\ Moved(H, r) = [H EXCEPT !.l4 = m]
  BY <1>1
<1> HIDE DEF T
<1> QED
  BY <1>0, <1>2 DEF Tracks, IsState, T

(* A listener that goes is noted, and one that comes is not gone. *)
LEMMA TracksListener ==
  ASSUME NEW R, NEW H, NEW F, NEW T, NEW to, IsState(H), NEW r,
         r.verb \in {"AddListener", "ActivateListener", "DeactivateListener", "RemoveListener"},
         Tracks(R, H, F, T)
  PROVE  Tracks(Rerouted(R, to, r), Moved(H, r), F, T)
<1>1. CASE r.verb = "AddListener"
  <2>1. Rerouted(R, to, r) = [R EXCEPT !.gone = @ \ {r.obj}] /\ Moved(H, r) = [H EXCEPT !.listeners = @ \cup {r.obj}]
    BY <1>1 DEF Rerouted, Moved
  <2> QED
    BY <2>1 DEF Tracks, IsState
<1>2. CASE r.verb = "RemoveListener"
  <2>1. /\ Rerouted(R, to, r) = [R EXCEPT !.gone = @ \cup {r.obj}]
        /\ Moved(H, r) = [H EXCEPT !.listeners = @ \ {r.obj}, !.active = @ \ {r.obj}]
    BY <1>2 DEF Rerouted, Moved
  <2> QED
    BY <2>1 DEF Tracks, IsState
<1>3. CASE r.verb \in {"ActivateListener", "DeactivateListener"}
  <2>1. Rerouted(R, to, r) = R /\ \E A : Moved(H, r) = [H EXCEPT !.active = A]
    BY <1>3 DEF Rerouted, Moved
  <2> QED
    BY <2>1 DEF Tracks, IsState
<1> QED
  BY <1>1, <1>2, <1>3

(* The next request of a batch, replayed. *)
LEMMA TracksOn ==
  ASSUME NEW R, NEW F, NEW to, Wanted(to), NEW P, NEW H, NEW r, Going(F, RoutingState(to), P, H, r),
         Refusal(H, r) = None, Tracks(R, H, F, RoutingState(to))
  PROVE  Tracks(Rerouted(R, to, r), Dispatched(H, r), F, RoutingState(to))
<1> DEFINE T == RoutingState(to)
<1>0. IsState(H) /\ Between(F, T, P) /\ r \in P /\ r.verb \in RoutingVerbs
  BY DEF Going, NextOf, Between
<1>1. r.verb = "RemoveCluster" => Unnamed(H, r.obj.id)
  BY ClusterGoesLast
<1>2. Dispatched(H, r) = Moved(H, r)
  BY <1>0, <1>1, DispatchedMoves
<1>3. \A verb : verb = r.verb => r.obj \in Pend(P, verb)
  BY <1>0 DEF Pend
<1>4. /\ r.verb = "AddCluster" => r.obj \in T.clusters
      /\ r.verb = "AddBackend" => r.obj \in T.backends
      /\ r.verb = "AddFrontend" => r.obj \in T.routes
      /\ r.verb = "AddL4" => r.obj \in T.l4
  BY <1>0, <1>3 DEF Between
<1> SUFFICES Tracks(Rerouted(R, to, r), Moved(H, r), F, T)
  BY <1>2
<1>5. CASE r.verb = "AddCluster"
  BY <1>0, <1>4, <1>5, TracksAddCluster
<1>6. CASE r.verb = "RemoveCluster"
  BY <1>0, <1>1, <1>6, TracksRemoveCluster
<1>7. CASE r.verb \in {"AddBackend", "RemoveBackend"}
  BY <1>0, <1>4, <1>7, TracksBackend
<1>8. CASE r.verb \in {"AddFrontend", "RemoveFrontend"}
  BY <1>0, <1>4, <1>8, TracksFrontend
<1>9. CASE r.verb \in {"AddL4", "RemoveL4"}
  BY <1>0, <1>4, <1>9, TracksL4
<1>10. CASE r.verb \in {"AddListener", "ActivateListener", "DeactivateListener", "RemoveListener"}
  BY <1>0, <1>10, TracksListener
<1> QED
  BY <1>0, <1>5, <1>6, <1>7, <1>8, <1>9, <1>10 DEF RoutingVerbs

-----------------------------------------------------------------------------
(* The head of a batch that stopped, simulated and replayed. *)

(* simulate and Replay::apply, of one request. *)
SimStep(s, r) ==
  IF IsCertificateRequest(r) THEN s
  ELSE IF Settles(s.state, r) THEN [s EXCEPT !.state = Settled(@, r)] ELSE [s EXCEPT !.ok = FALSE]

ReplayStep(to, s, r) ==
  IF IsCertificateRequest(r) THEN [s EXCEPT !.certs = Recertified(@, to.certs, r)]
  ELSE [s EXCEPT !.routing = Rerouted(@, to, r)]

SimRun(after, from, head, n) ==
  after = [i \in 0..n |-> IF i = 0 THEN [ok |-> TRUE, state |-> RoutingState(from)]
                          ELSE SimStep(after[i - 1], head[i])]

ReplayRun(after, from, to, head, n) ==
  after = [i \in 0..n |-> IF i = 0 THEN [routing |-> Begun(from), certs |-> from.certs]
                          ELSE ReplayStep(to, after[i - 1], head[i])]

(* Both runs are defined. *)
LEMMA SimRunExists ==
  ASSUME NEW from, NEW head, NEW n \in Nat
  PROVE  \E after : SimRun(after, from, head, n)
<1> DEFINE begin == [ok |-> TRUE, state |-> RoutingState(from)]
<1> HIDE DEF begin
<1> DEFINE T == {m \in Nat : \E f : SimRun(f, from, head, m)}
<1>1. 0 \in T
  <2>1. SimRun([i \in 0..0 |-> begin], from, head, 0)
    BY DEF SimRun, begin
  <2> QED
    BY <2>1
<1>2. ASSUME NEW m \in T PROVE m + 1 \in T
  <2>1. PICK f : SimRun(f, from, head, m)
    OBVIOUS
  <2>0. \A i \in 0..m : f[i] = IF i = 0 THEN begin ELSE SimStep(f[i - 1], head[i])
    BY <2>1 DEF SimRun, begin
  <2> DEFINE g == [i \in 0..(m + 1) |-> IF i = m + 1 THEN SimStep(f[m], head[m + 1]) ELSE f[i]]
  <2>2. \A i \in 0..m : g[i] = f[i]
    OBVIOUS
  <2>3. \A i \in 0..(m + 1) : g[i] = IF i = 0 THEN begin ELSE SimStep(g[i - 1], head[i])
    <3> SUFFICES ASSUME NEW i \in 0..(m + 1)
                 PROVE  g[i] = IF i = 0 THEN begin ELSE SimStep(g[i - 1], head[i])
      OBVIOUS
    <3>1. CASE i = m + 1
      BY <2>2, <3>1
    <3>2. CASE i \in 0..m
      <4>1. f[i] = IF i = 0 THEN begin ELSE SimStep(f[i - 1], head[i])
        BY <2>0, <3>2
      <4>2. i # 0 => i - 1 \in 0..m
        BY <3>2
      <4> HIDE DEF g
      <4> QED
        BY <2>2, <3>2, <4>1, <4>2
    <3> QED
      BY <3>1, <3>2
  <2>4. SimRun(g, from, head, m + 1)
    BY <2>3 DEF SimRun, begin
  <2> QED
    BY <2>4
<1>3. T = Nat
  <2>1. T \in SUBSET Nat
    OBVIOUS
  <2> HIDE DEF T
  <2> QED
    BY <1>1, <1>2, <2>1, NatSetInduction
<1> QED
  BY <1>3

(* The replay's too. *)
LEMMA ReplayRunExists ==
  ASSUME NEW from, NEW to, NEW head, NEW n \in Nat
  PROVE  \E after : ReplayRun(after, from, to, head, n)
<1> DEFINE begin == [routing |-> Begun(from), certs |-> from.certs]
<1> HIDE DEF begin
<1> DEFINE T == {m \in Nat : \E f : ReplayRun(f, from, to, head, m)}
<1>1. 0 \in T
  <2>1. ReplayRun([i \in 0..0 |-> begin], from, to, head, 0)
    BY DEF ReplayRun, begin
  <2> QED
    BY <2>1
<1>2. ASSUME NEW m \in T PROVE m + 1 \in T
  <2>1. PICK f : ReplayRun(f, from, to, head, m)
    OBVIOUS
  <2>0. \A i \in 0..m : f[i] = IF i = 0 THEN begin ELSE ReplayStep(to, f[i - 1], head[i])
    BY <2>1 DEF ReplayRun, begin
  <2> DEFINE g == [i \in 0..(m + 1) |-> IF i = m + 1 THEN ReplayStep(to, f[m], head[m + 1]) ELSE f[i]]
  <2>2. \A i \in 0..m : g[i] = f[i]
    OBVIOUS
  <2>3. \A i \in 0..(m + 1) : g[i] = IF i = 0 THEN begin ELSE ReplayStep(to, g[i - 1], head[i])
    <3> SUFFICES ASSUME NEW i \in 0..(m + 1)
                 PROVE  g[i] = IF i = 0 THEN begin ELSE ReplayStep(to, g[i - 1], head[i])
      OBVIOUS
    <3>1. CASE i = m + 1
      BY <2>2, <3>1
    <3>2. CASE i \in 0..m
      <4>1. f[i] = IF i = 0 THEN begin ELSE ReplayStep(to, f[i - 1], head[i])
        BY <2>0, <3>2
      <4>2. i # 0 => i - 1 \in 0..m
        BY <3>2
      <4> HIDE DEF g
      <4> QED
        BY <2>2, <3>2, <4>1, <4>2
    <3> QED
      BY <3>1, <3>2
  <2>4. ReplayRun(g, from, to, head, m + 1)
    BY <2>3 DEF ReplayRun, begin
  <2> QED
    BY <2>4
<1>3. T = Nat
  <2>1. T \in SUBSET Nat
    OBVIOUS
  <2> HIDE DEF T
  <2> QED
    BY <1>1, <1>2, <2>1, NatSetInduction
<1> QED
  BY <1>3

(* They are what simulate and the replay run. *)
LEMMA RunsOf ==
  ASSUME NEW from, NEW to, NEW head, Len(head) \in Nat
  PROVE  /\ \E after : SimRun(after, from, head, Len(head)) /\ Simulated(from, head) = after[Len(head)]
         /\ \E after : /\ ReplayRun(after, from, to, head, Len(head))
                       /\ Replayed(from, to, head) = after[Len(head)]
<1> DEFINE n == Len(head)
           f == CHOOSE after : after = [i \in 0..n |->
                  IF i = 0 THEN [ok |-> TRUE, state |-> RoutingState(from)]
                  ELSE IF IsCertificateRequest(head[i]) THEN after[i - 1]
                  ELSE IF Settles(after[i - 1].state, head[i])
                       THEN [after[i - 1] EXCEPT !.state = Settled(@, head[i])]
                       ELSE [after[i - 1] EXCEPT !.ok = FALSE]]
           g == CHOOSE after : after = [i \in 0..n |->
                  IF i = 0 THEN [routing |-> Begun(from), certs |-> from.certs]
                  ELSE IF IsCertificateRequest(head[i])
                       THEN [after[i - 1] EXCEPT !.certs = Recertified(@, to.certs, head[i])]
                       ELSE [after[i - 1] EXCEPT !.routing = Rerouted(@, to, head[i])]]
<1>1. \E after : after = [i \in 0..n |->
                  IF i = 0 THEN [ok |-> TRUE, state |-> RoutingState(from)]
                  ELSE IF IsCertificateRequest(head[i]) THEN after[i - 1]
                  ELSE IF Settles(after[i - 1].state, head[i])
                       THEN [after[i - 1] EXCEPT !.state = Settled(@, head[i])]
                       ELSE [after[i - 1] EXCEPT !.ok = FALSE]]
  <2>1. \E after : SimRun(after, from, head, n)
    BY SimRunExists
  <2> QED
    BY <2>1 DEF SimRun, SimStep
<1>2. \E after : after = [i \in 0..n |->
                  IF i = 0 THEN [routing |-> Begun(from), certs |-> from.certs]
                  ELSE IF IsCertificateRequest(head[i])
                       THEN [after[i - 1] EXCEPT !.certs = Recertified(@, to.certs, head[i])]
                       ELSE [after[i - 1] EXCEPT !.routing = Rerouted(@, to, head[i])]]
  <2>1. \E after : ReplayRun(after, from, to, head, n)
    BY ReplayRunExists
  <2> QED
    BY <2>1 DEF ReplayRun, ReplayStep
<1>3. SimRun(f, from, head, n)
  BY <1>1 DEF SimRun, SimStep
<1>4. ReplayRun(g, from, to, head, n)
  BY <1>2 DEF ReplayRun, ReplayStep
<1>5. Simulated(from, head) = f[n]
  BY DEF Simulated
<1>6. Replayed(from, to, head) = g[n]
  BY DEF Replayed
<1> QED
  BY <1>3, <1>4, <1>5, <1>6

-----------------------------------------------------------------------------
(* A batch begins where it was diffed from. *)
LEMMA BatchAtBegin ==
  ASSUME NEW from, NEW to, Wanted(to), Keyed(RoutingState(from)), NEW W \in Reconcile(from, to)
  PROVE  /\ StageOf(RoutingState(from), RoutingState(to), RoutingHalf(W)) = RoutingState(from)
         /\ Staged(RoutingState(from), RoutingState(to), RoutingHalf(W))
         /\ CertsAt(KeyedCerts(from.certs), KeyedCerts(to.certs), CertificateHalf(W)) = KeyedCerts(from.certs)
<1> DEFINE F == RoutingState(from)
           T == RoutingState(to)
           certs == {a \in W : IsCertificateRequest(a.req)}
<1>1. RoutingHalf(W) = Diffed(F, T) /\ certs \in CertificateBatches(from.certs, to.certs)
  BY BatchParts
<1>2. Keyed(F) /\ Whole(T) /\ IsState(F) /\ F.active = F.listeners
  BY WantedWhole, RoutingStateFields DEF Wanted
<1> HIDE DEF F, T
<1>3. Stage(F, T, Diffed(F, T), F)
  BY <1>2, BatchBegins
<1>4. F = StageOf(F, T, Diffed(F, T)) /\ Staged(F, T, Diffed(F, T))
  <2>1. F = StageOf(F, T, Diffed(F, T))
    BY <1>2, <1>3, StageIs
  <2> QED
    BY <1>2, <1>3, <2>1 DEF Staged, Stage
<1>5. CertComplete(KeyedCerts(from.certs), KeyedCerts(to.certs), {a.req : a \in certs})
  BY <1>1, HalfBetween
<1>6. CertificateHalf(W) = {a.req : a \in certs}
  BY DEF CertificateHalf
<1>7. CertsAt(KeyedCerts(from.certs), KeyedCerts(to.certs), CertificateHalf(W)) = KeyedCerts(from.certs)
  BY <1>5, <1>6, CertEnds
<1> QED
  BY <1>1, <1>4, <1>7 DEF F, T

(* Requests acknowledged, and those to go after them. *)
Parted(from, to, done, todo) ==
  /\ Wanted(to) /\ Keyed(RoutingState(from)) /\ IsList(from.frontends)
  /\ done \cup todo \in Reconcile(from, to)
  /\ done \cap todo = {} /\ IsFiniteSet(done)
  /\ \A a \in done, b \in todo : ~Precedes(b, a)

(* What a batch expects with the requests R to go. *)
Expects(from, to, R) == StageOf(RoutingState(from), RoutingState(to), RoutingHalf(R))
ExpectsCerts(from, to, R) == CertsAt(KeyedCerts(from.certs), KeyedCerts(to.certs), CertificateHalf(R))

(* What the simulation and the replay hold with the requests R to go. *)
HeadLeft(from, to, s, p, R) ==
  /\ s = [ok |-> TRUE, state |-> Expects(from, to, R)]
  /\ Staged(RoutingState(from), RoutingState(to), RoutingHalf(R))
  /\ KeyedCerts(p.certs) = ExpectsCerts(from, to, R)
  /\ p = [routing |-> p.routing, certs |-> p.certs]
  /\ Tracks(p.routing, Expects(from, to, R), RoutingState(from), RoutingState(to))

(* A certificate request of the head, replayed. *)
LEMMA CertStep ==
  ASSUME NEW from, NEW to, Wanted(to), NEW W \in Reconcile(from, to), NEW R \in SUBSET W, NEW a \in R,
         IsCertificateRequest(a.req), NEW s, NEW p, HeadLeft(from, to, s, p, R)
  PROVE  HeadLeft(from, to, SimStep(s, a.req), ReplayStep(to, p, a.req), R \ {a})
<1>0. /\ RoutingHalf(R \ {a}) = RoutingHalf(R) /\ a.req \in CertificateHalf(R)
      /\ CertificateHalf(R \ {a}) = CertificateHalf(R) \ {a.req}
      /\ CertBetween(KeyedCerts(from.certs), KeyedCerts(to.certs), CertificateHalf(R))
  <2>1. InCertificates(from, to, R, a)
    BY CertGoesOn
  <2> QED
    BY <2>1 DEF InCertificates
<1> DEFINE r == a.req
           K == KeyedCerts(from.certs)
           L == KeyedCerts(to.certs)
           q == ReplayStep(to, p, r)
<1>1. /\ RoutingHalf(R \ {a}) = RoutingHalf(R) /\ r \in CertificateHalf(R)
      /\ CertificateHalf(R \ {a}) = CertificateHalf(R) \ {r} /\ CertBetween(K, L, CertificateHalf(R))
  BY <1>0
<1>2. SimStep(s, r) = s
  BY DEF SimStep
<1>3. q = [p EXCEPT !.certs = Recertified(p.certs, to.certs, r)]
  BY DEF ReplayStep
<1>4. p = [routing |-> p.routing, certs |-> p.certs] /\ KeyedCerts(p.certs) = CertsAt(K, L, CertificateHalf(R))
  BY DEF HeadLeft, ExpectsCerts
<1> HIDE DEF q, r
<1>5. /\ q.certs = Recertified(p.certs, to.certs, r) /\ q = [routing |-> q.routing, certs |-> q.certs]
      /\ q.routing = p.routing
  BY <1>3, <1>4
<1>6. KeyedCerts(q.certs) = Loaded(KeyedCerts(p.certs), r)
  BY <1>1, <1>4, <1>5, RecertifiedLoads
<1>7. Loaded(CertsAt(K, L, CertificateHalf(R)), r) = CertsAt(K, L, CertificateHalf(R) \ {r})
  BY <1>1, CertificateGoesOn
<1>8. KeyedCerts(q.certs) = ExpectsCerts(from, to, R \ {a})
  BY <1>1, <1>4, <1>6, <1>7 DEF ExpectsCerts
<1>9. HeadLeft(from, to, s, q, R \ {a})
  BY <1>1, <1>5, <1>8 DEF HeadLeft, Expects
<1> QED
  BY <1>2, <1>9 DEF q, r

(* A routing request of the head, simulated. *)
LEMMA RoutingStep ==
  ASSUME NEW from, NEW to, Wanted(to), Keyed(RoutingState(from)), NEW W \in Reconcile(from, to),
         NEW R \in SUBSET W, NEW a \in Firsts(R), ~IsCertificateRequest(a.req),
         NEW s, NEW p, HeadLeft(from, to, s, p, R)
  PROVE  HeadLeft(from, to, SimStep(s, a.req), ReplayStep(to, p, a.req), R \ {a})
<1> DEFINE r == a.req
           H == Expects(from, to, R)
           q == ReplayStep(to, p, r)
<1>0. /\ s = [ok |-> TRUE, state |-> H] /\ Staged(RoutingState(from), RoutingState(to), RoutingHalf(R))
      /\ p = [routing |-> p.routing, certs |-> p.certs] /\ KeyedCerts(p.certs) = ExpectsCerts(from, to, R)
      /\ Tracks(p.routing, H, RoutingState(from), RoutingState(to))
  BY DEF HeadLeft
<1>1. /\ Going(RoutingState(from), RoutingState(to), RoutingHalf(R), H, r)
      /\ Refusal(H, r) = None /\ Dispatched(H, r) = Expects(from, to, R \ {a})
      /\ Staged(RoutingState(from), RoutingState(to), RoutingHalf(R \ {a}))
  BY <1>0, BatchGoesOn DEF Expects
<1>2. CertificateHalf(R \ {a}) = CertificateHalf(R)
  BY DEF CertificateHalf
<1> HIDE DEF H
<1>3. Settles(H, r) /\ Settled(H, r) = Dispatched(H, r)
  BY <1>1 DEF Settles, Settled, None
<1>4. SimStep(s, r) = [s EXCEPT !.state = Settled(H, r)]
  BY <1>0, <1>3 DEF SimStep
<1>5. SimStep(s, r) = [ok |-> TRUE, state |-> Expects(from, to, R \ {a})]
  BY <1>0, <1>1, <1>3, <1>4
<1>6. q = [p EXCEPT !.routing = Rerouted(p.routing, to, r)]
  BY DEF ReplayStep
<1> HIDE DEF q
<1>7. /\ q.certs = p.certs /\ q.routing = Rerouted(p.routing, to, r)
      /\ q = [routing |-> q.routing, certs |-> q.certs]
  BY <1>0, <1>6
<1>8. KeyedCerts(q.certs) = ExpectsCerts(from, to, R \ {a})
  BY <1>0, <1>2, <1>7 DEF ExpectsCerts
<1> HIDE DEF r
<1>9. Tracks(q.routing, Dispatched(H, r), RoutingState(from), RoutingState(to))
  BY <1>0, <1>1, <1>7, TracksOn
<1>10. HeadLeft(from, to, SimStep(s, r), q, R \ {a})
  BY <1>1, <1>5, <1>7, <1>8, <1>9 DEF HeadLeft
<1> QED
  BY <1>10 DEF q, r

(* The head that was acknowledged, simulated and replayed, leaves what the batch expects. *)
LEMMA HeadLeaves ==
  ASSUME NEW from, NEW to, NEW done, NEW todo, Parted(from, to, done, todo)
  PROVE  /\ Simulated(from, InOrder(done)) = [ok |-> TRUE, state |-> Expects(from, to, todo)]
         /\ KeyedCerts(Replayed(from, to, InOrder(done)).certs) = ExpectsCerts(from, to, todo)
         /\ Tracks(Replayed(from, to, InOrder(done)).routing, Expects(from, to, todo),
                   RoutingState(from), RoutingState(to))
         /\ done # {} => InOrder(done) # <<>>
<1> DEFINE W == done \cup todo
           N == Cardinality(done)
           head == InOrder(done)
           F == RoutingState(from)
           T == RoutingState(to)
<1>0. /\ Wanted(to) /\ Keyed(F) /\ W \in Reconcile(from, to) /\ done \cap todo = {} /\ IsFiniteSet(done)
      /\ \A a \in done, b \in todo : ~Precedes(b, a)
      /\ IsList(from.frontends)
  BY DEF Parted
<1>1. \A a \in W : InPlaceOf(a)
  BY <1>0, BatchParts
<1>2. Ranked(done)
  BY <1>1 DEF Ranked, InPlaceOf
<1>3. N \in Nat
  BY <1>0, FS_CardinalityType
<1>4. PICK order : HeadOf(order, done, N) /\ Range(order) = done /\ head = [i \in 1..N |-> order[i].req]
  BY <1>0, <1>2, OrderOf
<1> HIDE DEF head, N
<1>5. Len(head) = N
  BY <1>3, <1>4
<1>6. PICK sim : SimRun(sim, from, head, N) /\ Simulated(from, head) = sim[N]
  BY <1>3, <1>5, RunsOf
<1>7. PICK rep : ReplayRun(rep, from, to, head, N) /\ Replayed(from, to, head) = rep[N]
  BY <1>3, <1>5, RunsOf
<1> DEFINE left(n) == W \ {order[i] : i \in 1..n}
           S == {n \in Nat : n <= N => HeadLeft(from, to, sim[n], rep[n], left(n))}
<1>8. 0 \in S
  <2>1. left(0) = W
    OBVIOUS
  <2>2. 0 \in 0..N
    BY <1>3
  <2>3. sim[0] = [ok |-> TRUE, state |-> F]
    BY <1>6, <2>2 DEF SimRun
  <2>4. rep[0] = [routing |-> Begun(from), certs |-> from.certs]
    BY <1>7, <2>2 DEF ReplayRun
  <2>5. /\ Expects(from, to, W) = F /\ Staged(F, T, RoutingHalf(W))
        /\ ExpectsCerts(from, to, W) = KeyedCerts(from.certs)
    BY <1>0, BatchAtBegin DEF Expects, ExpectsCerts
  <2>6. Tracks(Begun(from), F, F, T)
    BY <1>0, TracksBegin
  <2> HIDE DEF left, W, F, T
  <2>7. /\ rep[0].routing = Begun(from) /\ rep[0].certs = from.certs
        /\ rep[0] = [routing |-> rep[0].routing, certs |-> rep[0].certs]
    BY <2>4
  <2>8. HeadLeft(from, to, sim[0], rep[0], W)
    BY <2>3, <2>5, <2>6, <2>7 DEF HeadLeft, F, T
  <2> QED
    BY <2>1, <2>8
<1>9. ASSUME NEW n \in S PROVE n + 1 \in S
  <2> SUFFICES ASSUME n + 1 <= N PROVE HeadLeft(from, to, sim[n + 1], rep[n + 1], left(n + 1))
    OBVIOUS
  <2>1. n \in Nat /\ n <= N /\ n + 1 \in 1..N /\ n + 1 \in 0..N /\ (n + 1) - 1 = n /\ n + 1 # 0
    BY <1>3
  <2> DEFINE a == order[n + 1]
             R == left(n)
  <2>2. HeadLeft(from, to, sim[n], rep[n], R)
    BY <2>1
  <2>3. order \in Seq(done) /\ Len(order) = N /\ \A i, j \in 1..N : order[i] = order[j] => i = j
    BY <1>4 DEF HeadOf
  <2>4. a \in done
    BY <2>1, <2>3
  <2>5. 1..(n + 1) = 1..n \cup {n + 1}
    BY <2>1
  <2>6. a \in R /\ left(n + 1) = R \ {a}
    <3>1. \A i \in 1..n : i \in 1..N /\ i # n + 1
      BY <2>1, <1>3
    <3>2. \A i \in 1..n : order[i] # a
      BY <2>1, <2>3, <3>1
    <3> QED
      BY <2>4, <2>5, <3>2
  <2>7. a \in Firsts(R)
    <3> SUFFICES ASSUME NEW b \in R PROVE ~Precedes(b, a)
      BY <2>6 DEF Firsts
    <3>1. CASE b = a
      BY <1>1, <2>4, <3>1 DEF Precedes, InPlaceOf
    <3>2. CASE b \in todo
      BY <1>0, <2>4, <3>2
    <3>3. CASE b \in done /\ b # a
      <4>1. \A k \in 1..(n + 1) : b # order[k]
        BY <2>5, <3>3
      <4> QED
        BY <1>4, <2>1, <3>3, <4>1 DEF HeadOf
    <3> QED
      BY <3>1, <3>2, <3>3
  <2>8. head[n + 1] = a.req
    BY <1>4, <2>1
  <2>9. sim[n + 1] = SimStep(sim[n], a.req)
    BY <1>6, <2>1, <2>8 DEF SimRun
  <2>10. rep[n + 1] = ReplayStep(to, rep[n], a.req)
    BY <1>7, <2>1, <2>8 DEF ReplayRun
  <2>11. R \in SUBSET W
    OBVIOUS
  <2> HIDE DEF R, a, left, W
  <2>12. HeadLeft(from, to, SimStep(sim[n], a.req), ReplayStep(to, rep[n], a.req), R \ {a})
    BY <1>0, <2>2, <2>6, <2>7, <2>11, CertStep, RoutingStep
  <2> QED
    BY <2>6, <2>9, <2>10, <2>12
<1>10. S = Nat
  <2>1. S \in SUBSET Nat
    OBVIOUS
  <2> HIDE DEF S
  <2> QED
    BY <1>8, <1>9, <2>1, NatSetInduction
<1>11. HeadLeft(from, to, sim[N], rep[N], left(N))
  <2>1. N \in S
    BY <1>3, <1>10
  <2> HIDE DEF left
  <2> QED
    BY <1>3, <2>1
<1>12. left(N) = todo
  <2>1. {order[i] : i \in 1..N} = done
    BY <1>4 DEF HeadOf, Range
  <2> QED
    BY <1>0, <2>1
<1> HIDE DEF left
<1>13. done # {} => head # <<>>
  <2> SUFFICES ASSUME NEW a \in done, head = <<>> PROVE FALSE
    OBVIOUS
  <2>1. N = 0
    BY <1>5
  <2>2. order \in Seq(done) /\ Len(order) = 0
    BY <1>4, <2>1 DEF HeadOf
  <2>3. DOMAIN order = {}
    BY <2>2
  <2> QED
    BY <1>4, <2>3 DEF Range
<1> QED
  BY <1>6, <1>7, <1>11, <1>12, <1>13 DEF head, HeadLeft

-----------------------------------------------------------------------------
(* The replay of a batch of which only clusters are left to go. *)

(* All that is to go is clusters. *)
ClustersLeft(P) == \A verb \in RoutingVerbs \ {"RemoveCluster"} : Pend(P, verb) = {}

(* A cluster with UDP affinity that no UDP frontend names. *)
Stranded(S) == \E c \in S.clusters : c.udp /\ \A f \in S.l4 : f.proto = "Udp" => f.cluster # c.id

(* Everything else is as it is wanted. *)
LEMMA ClustersAlone ==
  ASSUME NEW F, NEW T, NEW P, ClustersLeft(P), Between(F, T, P), NEW H, H = StageOf(F, T, P)
  PROVE  /\ H.backends = T.backends /\ H.routes = T.routes /\ H.l4 = T.l4
         /\ H.listeners = T.listeners /\ H.active = T.listeners
         /\ \A h \in H.clusters : h \in T.clusters \/ h \in RemovedClusters(F, T)
<1>1. /\ Pend(P, "AddBackend") = {} /\ Pend(P, "RemoveBackend") = {}
      /\ Pend(P, "AddFrontend") = {} /\ Pend(P, "RemoveFrontend") = {}
      /\ Pend(P, "AddL4") = {} /\ Pend(P, "RemoveL4") = {}
      /\ Pend(P, "AddCluster") = {}
  BY DEF ClustersLeft, RoutingVerbs
<1>2. /\ Pend(P, "AddListener") = {} /\ Pend(P, "RemoveListener") = {}
      /\ Pend(P, "ActivateListener") = {} /\ Pend(P, "DeactivateListener") = {}
  BY DEF ClustersLeft, RoutingVerbs
<1>3. ReplacedBackends(F, P) = {} /\ ReplacedClusters(F, P) = {}
  BY <1>1 DEF ReplacedBackends, ReplacedClusters
<1>4. BackendsAt(F, T, P) = T.backends
  BY <1>1, <1>3 DEF BackendsAt, Mid
<1>5. RoutesAt(F, T, P) = T.routes /\ L4At(F, T, P) = T.l4
  BY <1>1 DEF RoutesAt, L4At, Mid
<1>6. ListenersAt(F, T, P) = T.listeners /\ ActiveAt(F, T, P) = T.listeners
  BY <1>2 DEF ListenersAt, ActiveAt, Mid
<1>7. \A h \in ClustersAt(F, T, P) : h \in T.clusters \/ h \in RemovedClusters(F, T)
  BY <1>1, <1>3 DEF ClustersAt, Mid, Between
<1> QED
  BY <1>4, <1>5, <1>6, <1>7 DEF StageOf

(* What Replay::finish spells of layer 4 is what is wanted there: a frontend that went is kept only *)
(* where its listener stays with nothing on it.                                                     *)
LEMMA SpelledWanted ==
  ASSUME NEW R, NEW H, NEW F, NEW to, Tracks(R, H, F, RoutingState(to)),
         H.l4 = to.l4, H.listeners = RoutingState(to).listeners
  PROVE  Spelled(R) = to.l4
<1> DEFINE T == RoutingState(to)
           heldOn(key) == \E e \in R.l4 : e.held /\ L4Key(e.front) = key
           spelled(d) == d.held \/ (~heldOn(L4Key(d.front)) /\ L4Key(d.front) \notin R.gone)
<1>1. /\ \A e \in R.l4 : e.held \in BOOLEAN /\ L4Key(e.front) \in F.listeners \cup T.listeners
      /\ \A f : f \in to.l4 <=> \E e \in R.l4 : e.held /\ e.front = f
      /\ F.listeners \ T.listeners \subseteq R.gone
  BY DEF Tracks, L4Track
<1>2. \A k : k \in T.listeners => heldOn(k)
  <2> SUFFICES ASSUME NEW k \in T.listeners PROVE heldOn(k)
    OBVIOUS
  <2>1. PICK f \in to.l4 : k = L4Key(f)
    BY ListenersOf
  <2> QED
    BY <1>1, <2>1
<1>3. Spelled(R) = {e.front : e \in {d \in R.l4 : spelled(d)}}
  BY DEF Spelled
<1> HIDE DEF T
<1>4. \A d \in R.l4 : spelled(d) <=> d.held
  <2> HIDE DEF heldOn
  <2> QED
    BY <1>1, <1>2
<1> HIDE DEF spelled
<1>5. \A f : f \in Spelled(R) <=> \E e \in R.l4 : e.held /\ e.front = f
  BY <1>3, <1>4
<1> QED
  BY <1>1, <1>5

(* Clusters as they are spelled where those of udp have UDP frontends. *)
Payloads(clusters, udp) == {ClusterPayload(c, c.id \in udp) : c \in clusters}

(* Payloads that have their affinity from such frontends. *)
Affine(payloads, udp) == \A h \in payloads : h.udp = (h.id \in udp)

(* The clusters replayed, spelled with the affinity wanted, are those held, unless one is stranded. *)
LEMMA ClustersSpelled ==
  ASSUME NEW C, NEW K, ClustersTrack(C, K), NEW udp, Affine(K, udp)
  PROVE  Payloads(C, udp) = K
<1>1. \A c, u : ClusterPayload(c, u).id = c.id
  BY ClusterFields
<1>2. ASSUME NEW c \in C PROVE ClusterPayload(c, c.id \in udp) \in K
  <2>1. PICK h \in K : h = ClusterPayload(c, h.udp)
    BY DEF ClustersTrack
  <2>2. h.id = c.id
    BY <1>1, <2>1
  <2>3. h.udp = (c.id \in udp)
    BY <2>2 DEF Affine
  <2> QED
    BY <2>1, <2>3
<1>3. ASSUME NEW h \in K PROVE \E c \in C : h = ClusterPayload(c, c.id \in udp)
  <2>1. PICK c \in C : h = ClusterPayload(c, h.udp)
    BY DEF ClustersTrack
  <2>2. h.id = c.id
    BY <1>1, <2>1
  <2>3. h.udp = (c.id \in udp)
    BY <2>2 DEF Affine
  <2> QED
    BY <2>1, <2>3
<1> QED
  BY <1>2, <1>3 DEF Payloads

(* The affinity of a cluster held is the one that the wanted frontends give it, unless one is      *)
(* stranded.                                                                                       *)
LEMMA AffinityWanted ==
  ASSUME NEW from, NEW to, Wanted(to), NEW h,
         h \in RoutingState(to).clusters \/ h \in RemovedClusters(RoutingState(from), RoutingState(to)),
         ~(h.udp /\ \A f \in to.l4 : f.proto = "Udp" => f.cluster # h.id)
  PROVE  h.udp = (h.id \in {f.cluster : f \in {g \in to.l4 : g.proto = "Udp"}})
<1> DEFINE F == RoutingState(from)
           T == RoutingState(to)
           udp == {f.cluster : f \in {g \in to.l4 : g.proto = "Udp"}}
           was == {f.cluster : f \in {g \in from.l4 : g.proto = "Udp"}}
<1>1. T.clusters = {ClusterPayload(c, c.id \in udp) : c \in to.clusters}
  BY RoutingStateFields DEF ClusterPayloads
<1>2. F.clusters = {ClusterPayload(c, c.id \in was) : c \in from.clusters}
  BY RoutingStateFields DEF ClusterPayloads
<1>3. T.l4 = to.l4 /\ Whole(T)
  BY RoutingStateFields, WantedWhole DEF Wanted
<1>4. \A f \in to.l4 : f.proto = "Udp" => f.cluster \in udp
  OBVIOUS
<1>5. \A k \in udp : \E f \in to.l4 : f.proto = "Udp" /\ f.cluster = k
  OBVIOUS
<1> HIDE DEF udp, was, F, T
<1>6. CASE h \in T.clusters
  <2>1. PICK c \in to.clusters : h = ClusterPayload(c, c.id \in udp)
    BY <1>1, <1>6
  <2> QED
    BY <2>1, ClusterFields DEF udp
<1>7. CASE h \in RemovedClusters(F, T)
  <2>1. h \in F.clusters /\ \A d \in T.clusters : d.id # h.id
    BY <1>7 DEF RemovedClusters
  <2>2. h.udp \in BOOLEAN
    <3>1. PICK c \in from.clusters : h = ClusterPayload(c, c.id \in was)
      BY <1>2, <2>1
    <3>2. h.udp = (c.id \in was)
      BY <3>1, ClusterFields
    <3>3. (c.id \in was) \in BOOLEAN
      OBVIOUS
    <3> QED
      BY <3>2, <3>3
  <2>3. \A f \in to.l4 : f.cluster # h.id
    BY <1>3, <2>1 DEF Whole
  <2>4. h.id \notin udp
    BY <1>5, <2>3
  <2>5. h.udp = FALSE
    BY <2>2, <2>3
  <2>6. (h.id \in udp) = FALSE
    BY <2>4
  <2>7. h.udp = (h.id \in udp)
    BY <2>5, <2>6
  <2> QED
    BY <2>7 DEF udp
<1> QED
  BY <1>6, <1>7 DEF F, T

(* Once only clusters are left to go, the replayed head describes what Sozu holds, affinities      *)
(* that nothing spells any more aside: replay_if_exact adopts it.                                  *)
LEMMA ReplayIsExact ==
  ASSUME NEW from, NEW to, NEW done, NEW todo, Parted(from, to, done, todo), done # {},
         ClustersLeft(RoutingHalf(todo)), Between(RoutingState(from), RoutingState(to), RoutingHalf(todo)),
         ~Stranded(Expects(from, to, todo))
  PROVE  RoutingState(ReplayIfExact(from, to, InOrder(done))) = Expects(from, to, todo)
<1> DEFINE head == InOrder(done)
           H == Expects(from, to, todo)
           F == RoutingState(from)
           T == RoutingState(to)
           R == Replayed(from, to, head).routing
           ir == ApplyAcknowledged(from, to, head)
           udp == {f.cluster : f \in {g \in to.l4 : g.proto = "Udp"}}
<1>1. /\ Simulated(from, head) = [ok |-> TRUE, state |-> H] /\ Tracks(R, H, F, T) /\ head # <<>>
  BY HeadLeaves
<1>2. /\ H.backends = T.backends /\ H.routes = T.routes /\ H.l4 = T.l4
      /\ H.listeners = T.listeners /\ H.active = T.listeners
      /\ \A h \in H.clusters : h \in T.clusters \/ h \in RemovedClusters(F, T)
  BY ClustersAlone DEF Expects
<1>3. IsState(H)
  BY StageIs DEF Expects
<1>4. Wanted(to) /\ T.l4 = to.l4
  BY RoutingStateFields DEF Parted
<1>5. /\ ir.clusters = R.clusters /\ ir.backends = R.backends /\ ir.frontends = R.frontends
      /\ ir.l4 = Spelled(R)
  BY DEF ApplyAcknowledged
<1>6. ~(\E c \in H.clusters : c.udp /\ \A f \in H.l4 : f.proto = "Udp" => f.cluster # c.id)
  BY DEF Stranded
<1> HIDE DEF head, H, R, ir
<1>7. Spelled(R) = to.l4
  BY <1>1, <1>2, <1>4, SpelledWanted
<1>8. Affine(H.clusters, udp)
  BY <1>2, <1>4, <1>6, AffinityWanted DEF Affine
<1>9. ClusterPayloads(ir) = H.clusters
  <2>1. ClusterPayloads(ir) = Payloads(R.clusters, udp)
    BY <1>5, <1>7 DEF ClusterPayloads, Payloads
  <2>2. ClustersTrack(R.clusters, H.clusters)
    BY <1>1 DEF Tracks
  <2> HIDE DEF udp
  <2> QED
    BY <1>8, <2>1, <2>2, ClustersSpelled
<1>10. ir.backends = H.backends /\ UniqueFrontends(ir) = H.routes /\ ir.l4 = to.l4
  BY <1>1, <1>5, <1>7, UniquesAre DEF Tracks
<1>11. RoutingState(ir).listeners = T.listeners /\ RoutingState(ir).active = T.listeners
  BY <1>10 DEF RoutingState, T
<1> HIDE DEF T, F
<1>12. RoutingState(ir) = H
  <2> DEFINE S == RoutingState(ir)
  <2>1. /\ IsState(S) /\ S.clusters = H.clusters /\ S.backends = H.backends /\ S.routes = H.routes /\ S.l4 = H.l4
        /\ S.listeners = H.listeners /\ S.active = H.active
    BY <1>2, <1>4, <1>9, <1>10, <1>11, RoutingStateFields
  <2> HIDE DEF S
  <2>2. S = H
    BY <1>3, <2>1 DEF IsState
  <2> QED
    BY <2>2 DEF S
<1>13. ~L4Conflict(ir)
  BY <1>4, <1>10 DEF Wanted, L4Conflict
<1>14. ReplayIfExact(from, to, head) = ir
  BY <1>1, <1>12, <1>13 DEF ReplayIfExact, ir
<1> QED
  BY <1>12, <1>14 DEF head, H

-----------------------------------------------------------------------------
(* The invariant of a batch at work. *)

(* What has been sent of a batch and what has not, with Sozu's maps still maps in between. *)
Underway(from, to, done, todo) ==
  Parted(from, to, done, todo) /\ Staged(RoutingState(from), RoutingState(to), RoutingHalf(todo))

(* Sozu is where the batch expects it to be. *)
AtStage(from, to, todo, S, held) == S = Expects(from, to, todo) /\ held = ExpectsCerts(from, to, todo)

(* Sozu is there, or further on the way. *)
PastStage(from, to, todo, S, held) ==
  /\ Ahead(S, Expects(from, to, todo), RoutingState(to))
  /\ Nearer(held, ExpectsCerts(from, to, todo), KeyedCerts(to.certs))

(* Sozu is somewhere on the way. *)
OnWay(from, to, S, held) ==
  /\ Ahead(S, RoutingState(from), RoutingState(to))
  /\ Nearer(held, KeyedCerts(from.certs), KeyedCerts(to.certs))

(* A batch that is exact finds Sozu at its stage, one that is sound at least there; a batch that  *)
(* was sound and stopped left it on the way from the baseline.                                    *)
Inv ==
  /\ IsState(sozu) /\ Keyed(sozu) /\ Keyed(RoutingState(base)) /\ IsList(base.frontends)
  /\ pc = "sending" => /\ Underway(base, want, acked, batch)
                       /\ exact => AtStage(base, want, batch, sozu, tls)
                       /\ sound => PastStage(base, want, batch, sozu, tls)
  /\ pc = "idle" /\ stopped # NoIR => OnWay(base, stopped, sozu, tls)

(* Once all has been sent, what is expected is what was asked for. *)
LEMMA LastStage ==
  ASSUME NEW from, NEW to
  PROVE  Expects(from, to, {}) = RoutingState(to) /\ ExpectsCerts(from, to, {}) = KeyedCerts(to.certs)
<1> DEFINE F == RoutingState(from)
           T == RoutingState(to)
<1>1. IsState(T) /\ T.active = T.listeners
  BY RoutingStateFields
<1>2. RoutingHalf({}) = {} /\ CertificateHalf({}) = {}
  BY DEF RoutingHalf, CertificateHalf
<1>3. ExpectsCerts(from, to, {}) = KeyedCerts(to.certs)
  BY <1>2, CertEnds DEF ExpectsCerts
<1>4. Pend({}, "DeactivateListener") \subseteq Pend({}, "RemoveListener")
  BY DEF Pend
<1> HIDE DEF F, T
<1>5. IsState(StageOf(F, T, {})) /\ Stage(F, T, {}, StageOf(F, T, {}))
  BY <1>4, StageIs
<1>6. StageOf(F, T, {}) = T
  BY <1>1, <1>5, BatchEnds
<1> QED
  BY <1>2, <1>3, <1>6 DEF Expects, F, T

(* What is past a stage is on the way, and what is past the last one has arrived. *)
LEMMA StagesInTurn ==
  ASSUME NEW from, NEW to, NEW todo, NEW S, NEW held, IsState(S), PastStage(from, to, todo, S, held)
  PROVE  /\ OnWay(from, to, S, held)
         /\ todo = {} => S = RoutingState(to) /\ held = KeyedCerts(to.certs)
<1> DEFINE F == RoutingState(from)
           T == RoutingState(to)
<1>1. IsState(T) /\ F.active = F.listeners /\ T.active = T.listeners
  BY RoutingStateFields
<1>2. OnWay(from, to, S, held)
  <2>1. Ahead(S, StageOf(F, T, RoutingHalf(todo)), T)
    BY DEF PastStage, Expects
  <2>2. Ahead(S, F, T)
    BY <1>1, <2>1, AheadOfBegin
  <2>3. Nearer(held, KeyedCerts(from.certs), KeyedCerts(to.certs))
    BY CertsAheadOf DEF PastStage, ExpectsCerts
  <2> QED
    BY <2>2, <2>3 DEF OnWay
<1>3. ASSUME todo = {} PROVE S = T /\ held = KeyedCerts(to.certs)
  <2>1. Ahead(S, T, T) /\ Nearer(held, KeyedCerts(to.certs), KeyedCerts(to.certs))
    BY <1>3, LastStage DEF PastStage
  <2> HIDE DEF T
  <2>2. S = T
    BY <1>1, <2>1, AheadOfEnd
  <2>3. held = KeyedCerts(to.certs)
    BY <2>1, CertsAheadOf
  <2> QED
    BY <2>2, <2>3
<1> QED
  BY <1>2, <1>3

(* Sozu starts out with the baseline, and nothing is being sent. *)
LEMMA InitInv == Init => Inv
<1> SUFFICES ASSUME Init PROVE Inv
  OBVIOUS
<1>1. /\ base \in IRs /\ ~UnknownCluster(base) /\ ~L4Conflict(base)
      /\ sozu = RoutingState(base) /\ pc = "idle" /\ stopped = NoIR
  BY DEF Init, Translates
<1>2. IsList(base.frontends)
  BY <1>1, IRsAssumption DEF IsList
<1> QED
  BY <1>1, <1>2, RoutingStateFields, WantedWhole DEF Inv

(* A batch begins where it was diffed from, and one that repeats another past that. *)
LEMMA SubmitInv == Inv /\ Submit => Inv'
<1> SUFFICES ASSUME Inv, Submit PROVE Inv'
  OBVIOUS
<1>0. IsState(sozu) /\ Keyed(sozu) /\ Keyed(RoutingState(base)) /\ IsList(base.frontends)
  BY DEF Inv
<1>1. /\ pc = "idle" /\ pc' = "sending" /\ acked' = {} /\ base' = base /\ sozu' = sozu /\ tls' = tls
      /\ batch' \in Reconcile(base, want') /\ Wanted(want')
  BY DEF Submit, Translates, Wanted
<1>2. /\ exact' = Matches(base)
      /\ sound' = (Matches(base) \/ (stopped # NoIR /\ stopped = want'))
  BY DEF Submit
<1>3. /\ Expects(base, want', batch') = RoutingState(base)
      /\ Staged(RoutingState(base), RoutingState(want'), RoutingHalf(batch'))
      /\ ExpectsCerts(base, want', batch') = KeyedCerts(base.certs)
  BY <1>0, <1>1, BatchAtBegin DEF Expects, ExpectsCerts
<1>4. Underway(base, want', {}, batch')
  <2>1. {} \cup batch' = batch' /\ {} \cap batch' = {} /\ IsFiniteSet({})
    BY FS_EmptySet
  <2> QED
    BY <1>0, <1>1, <1>3, <2>1 DEF Underway, Parted
<1>5. ASSUME Matches(base)
      PROVE  AtStage(base, want', batch', sozu, tls) /\ PastStage(base, want', batch', sozu, tls)
  <2>1. sozu = RoutingState(base) /\ tls = KeyedCerts(base.certs)
    BY <1>5 DEF Matches
  <2>2. RoutingState(base).active = RoutingState(base).listeners
    BY RoutingStateFields
  <2>3. Ahead(RoutingState(base), RoutingState(base), RoutingState(want'))
    BY <2>2, AheadOfItself
  <2>4. Nearer(KeyedCerts(base.certs), KeyedCerts(base.certs), KeyedCerts(want'.certs))
    BY CertsAheadOf
  <2> QED
    BY <1>3, <2>1, <2>3, <2>4 DEF AtStage, PastStage
<1>6. ASSUME stopped # NoIR, stopped = want'
      PROVE  PastStage(base, want', batch', sozu, tls)
  <2>1. OnWay(base, want', sozu, tls)
    BY <1>1, <1>6 DEF Inv
  <2> QED
    BY <1>3, <2>1 DEF OnWay, PastStage
<1> QED
  BY <1>0, <1>1, <1>2, <1>4, <1>5, <1>6 DEF Inv

(* A request sent is one more acknowledged, and none of those left goes before it. *)
LEMMA SendParts ==
  ASSUME NEW from, NEW to, NEW done, NEW todo, Parted(from, to, done, todo), NEW a \in Firsts(todo)
  PROVE  Parted(from, to, done \cup {a}, todo \ {a})
<1>1. a \in todo /\ \A b \in todo : ~Precedes(b, a)
  BY DEF Firsts
<1>2. (done \cup {a}) \cup (todo \ {a}) = done \cup todo
  BY <1>1
<1>3. IsFiniteSet(done \cup {a})
  BY FS_AddElement DEF Parted
<1> QED
  BY <1>1, <1>2, <1>3 DEF Parted

(* A request sent leaves the next stage. *)
LEMMA SendInv == ASSUME NEW a \in batch PROVE Inv /\ Send(a) => Inv'
<1> SUFFICES ASSUME Inv, Send(a) PROVE Inv'
  OBVIOUS
<1> DEFINE F == RoutingState(base)
           T == RoutingState(want)
           H == Expects(base, want, batch)
           W == acked \cup batch
<1>0. IsState(sozu) /\ Keyed(sozu) /\ Keyed(F) /\ IsList(base.frontends)
  BY DEF Inv
<1>1. /\ pc = "sending" /\ pc' = pc /\ a \in Firsts(batch) /\ batch' = batch \ {a}
      /\ acked' = acked \cup {a}
      /\ base' = base /\ want' = want /\ exact' = exact /\ sound' = sound
  BY DEF Send
<1>2. /\ Parted(base, want, acked, batch) /\ Staged(F, T, RoutingHalf(batch))
      /\ exact => AtStage(base, want, batch, sozu, tls)
      /\ sound => PastStage(base, want, batch, sozu, tls)
  BY <1>1 DEF Inv, Underway
<1>3. Parted(base, want, acked', batch')
  BY <1>1, <1>2, SendParts
<1>4. Wanted(want) /\ W \in Reconcile(base, want) /\ batch \in SUBSET W
  BY <1>2 DEF Parted
<1>5. InCertificates(base, want, batch, a)
  BY <1>4, CertGoesOn
<1>6. CASE IsCertificateRequest(a.req)
  <2> DEFINE K == KeyedCerts(base.certs)
             L == KeyedCerts(want.certs)
             P == CertificateHalf(batch)
             r == a.req
  <2>1. sozu' = sozu /\ tls' = Loaded(tls, r)
    BY <1>6 DEF Send
  <2>2. /\ RoutingHalf(batch') = RoutingHalf(batch) /\ r \in P /\ CertificateHalf(batch') = P \ {r}
        /\ CertBetween(K, L, P)
    BY <1>1, <1>5, <1>6 DEF InCertificates
  <2>3. Expects(base, want, batch') = H /\ Staged(F, T, RoutingHalf(batch'))
    BY <1>2, <2>2 DEF Expects
  <2>4. ExpectsCerts(base, want, batch') = CertsAt(K, L, P \ {r}) /\ ExpectsCerts(base, want, batch) = CertsAt(K, L, P)
    BY <2>2 DEF ExpectsCerts
  <2> HIDE DEF K, L, P, r, H
  <2>5. Loaded(CertsAt(K, L, P), r) = CertsAt(K, L, P \ {r})
    BY <2>2, CertificateGoesOn
  <2>6. exact => AtStage(base, want, batch', sozu', tls')
    BY <1>2, <2>1, <2>3, <2>4, <2>5 DEF AtStage, H
  <2>7. Nearer(tls, CertsAt(K, L, P), L) => Nearer(tls', CertsAt(K, L, P \ {r}), L)
    BY <2>1, <2>2, CertsStayAhead
  <2>8. sound => PastStage(base, want, batch', sozu', tls')
    BY <1>2, <2>1, <2>3, <2>4, <2>7 DEF PastStage, H, L
  <2> QED
    BY <1>0, <1>1, <1>3, <2>1, <2>3, <2>6, <2>8 DEF Inv, Underway
<1>7. CASE ~IsCertificateRequest(a.req)
  <2>1. Settles(sozu, a.req) /\ sozu' = Settled(sozu, a.req) /\ tls' = tls
    BY <1>7 DEF Send
  <2>2. /\ Going(F, T, RoutingHalf(batch), H, a.req) /\ Refusal(H, a.req) = None /\ Sendable(a.req)
        /\ Dispatched(H, a.req) = Expects(base, want, batch')
        /\ Staged(F, T, RoutingHalf(batch'))
    BY <1>0, <1>1, <1>2, <1>4, <1>7, BatchGoesOn DEF Expects
  <2>3. ExpectsCerts(base, want, batch') = ExpectsCerts(base, want, batch)
    BY <1>1, <1>5, <1>7 DEF InCertificates, ExpectsCerts
  <2> HIDE DEF H, F, T
  <2>4. IsState(sozu') /\ Keyed(sozu')
    BY <1>0, <2>1, <2>2, SettledKeyed
  <2>5. Settled(H, a.req) = Dispatched(H, a.req)
    BY <2>2 DEF Settled, None
  <2>6. exact => AtStage(base, want, batch', sozu', tls')
    BY <1>2, <2>1, <2>2, <2>3, <2>5 DEF AtStage, H
  <2>7. Ahead(sozu, H, T) => Ahead(sozu', Expects(base, want, batch'), T)
    BY <1>0, <2>1, <2>2, StaysAhead
  <2>8. sound => PastStage(base, want, batch', sozu', tls')
    BY <1>2, <2>1, <2>3, <2>7 DEF PastStage, H, T
  <2> QED
    BY <1>0, <1>1, <1>3, <2>2, <2>4, <2>6, <2>8 DEF Inv, Underway, F, T
<1> QED
  BY <1>6, <1>7

(* The baseline a batch that stopped leaves is the one it had, or what Sozu is expected to hold.  *)
(* replay_if_exact compares the routing state only: the certificates are right as well.           *)
LEMMA FailAdopts ==
  ASSUME NEW from, NEW to, NEW done, NEW todo, Parted(from, to, done, todo),
         NEW left, left = ReplayIfExact(from, to, InOrder(done)), left # from
  PROVE  /\ RoutingState(left) = Expects(from, to, todo) /\ KeyedCerts(left.certs) = ExpectsCerts(from, to, todo)
         /\ IsList(left.frontends)
<1> DEFINE head == InOrder(done)
           replayed == ApplyAcknowledged(from, to, head)
           simulated == Simulated(from, head)
<1>1. /\ simulated = [ok |-> TRUE, state |-> Expects(from, to, todo)]
      /\ KeyedCerts(Replayed(from, to, head).certs) = ExpectsCerts(from, to, todo)
      /\ IsList(Replayed(from, to, head).routing.frontends)
  BY HeadLeaves DEF Tracks
<1>2. left = replayed /\ RoutingState(replayed) = simulated.state
  BY DEF ReplayIfExact
<1>3. /\ replayed.certs = Replayed(from, to, head).certs
      /\ replayed.frontends = Replayed(from, to, head).routing.frontends
  BY DEF ApplyAcknowledged
<1> HIDE DEF replayed, simulated
<1> QED
  BY <1>1, <1>2, <1>3

(* A batch that fails leaves Sozu on the way from the baseline it leaves. *)
LEMMA FailInv == Inv /\ pc = "sending" /\ Fail => Inv'
<1> SUFFICES ASSUME Inv, pc = "sending", Fail PROVE Inv'
  OBVIOUS
<1>0. IsState(sozu) /\ Keyed(sozu) /\ Keyed(RoutingState(base)) /\ IsList(base.frontends)
  BY DEF Inv
<1>1. /\ Parted(base, want, acked, batch) /\ Staged(RoutingState(base), RoutingState(want), RoutingHalf(batch))
      /\ sound => PastStage(base, want, batch, sozu, tls)
  BY DEF Inv, Underway
<1>2. /\ base' = ReplayIfExact(base, want, InOrder(acked)) /\ pc' = "idle" /\ sozu' = sozu /\ tls' = tls
      /\ stopped' = IF sound THEN want ELSE NoIR
  BY DEF Fail
<1>3. CASE base' = base
  <2>1. sound => OnWay(base, want, sozu, tls)
    BY <1>0, <1>1, StagesInTurn
  <2> QED
    BY <1>0, <1>2, <1>3, <2>1 DEF Inv
<1>4. CASE base' # base
  <2>1. /\ RoutingState(base') = Expects(base, want, batch)
        /\ KeyedCerts(base'.certs) = ExpectsCerts(base, want, batch) /\ IsList(base'.frontends)
    BY <1>1, <1>2, <1>4, FailAdopts
  <2>2. Keyed(RoutingState(base'))
    BY <1>1, <2>1 DEF Staged, Expects
  <2>3. sound => OnWay(base', want, sozu, tls)
    BY <1>1, <2>1 DEF PastStage, OnWay
  <2> QED
    BY <1>0, <1>2, <2>1, <2>2, <2>3 DEF Inv
<1> QED
  BY <1>3, <1>4

(* Every step keeps the invariant. *)
LEMMA NextInv == Inv /\ [Next]_vars => Inv'
<1> SUFFICES ASSUME Inv, [Next]_vars PROVE Inv'
  OBVIOUS
<1>1. CASE Submit
  BY <1>1, SubmitInv
<1>2. CASE Untranslatable
  BY <1>2 DEF Untranslatable, Inv
<1>3. CASE Stop
  BY <1>3, FailInv DEF Stop
<1>4. CASE Finish
  <2>1. /\ base' = want /\ pc = "sending" /\ pc' = "idle" /\ stopped' = NoIR /\ sozu' = sozu
    BY <1>4 DEF Finish
  <2>2. Wanted(want)
    BY <2>1 DEF Inv, Underway, Parted
  <2>3. Keyed(RoutingState(want)) /\ IsList(want.frontends)
    BY <2>2, WantedWhole, IRsAssumption DEF Wanted, IsList
  <2> QED
    BY <2>1, <2>3 DEF Inv
<1>5. ASSUME NEW a \in batch, Send(a) PROVE Inv'
  BY <1>5, SendInv
<1>6. ASSUME NEW a \in batch, Refused(a) PROVE Inv'
  BY <1>6, FailInv DEF Refused
<1>7. CASE UNCHANGED vars
  BY <1>7 DEF vars, Inv
<1> QED
  BY <1>1, <1>2, <1>3, <1>4, <1>5, <1>6, <1>7 DEF Next

(* Inv holds throughout: reconcile's batches, sent by apply, with any stops and refusals. *)
THEOREM OnTheWay == Spec => []Inv
BY InitInv, NextInv, PTL DEF Spec

-----------------------------------------------------------------------------
(* The theorems. *)

(* No routing request of a batch diffed from what Sozu holds is refused when its turn comes. *)
THEOREM BatchIsAccepted == Spec => []BatchAccepted
<1>1. Inv => BatchAccepted
  <2> SUFFICES ASSUME Inv, pc = "sending", exact, NEW a \in Firsts(batch), ~IsCertificateRequest(a.req)
               PROVE  Refusal(sozu, a.req) = None
    BY DEF BatchAccepted
  <2>1. /\ Keyed(RoutingState(base)) /\ Parted(base, want, acked, batch)
        /\ Staged(RoutingState(base), RoutingState(want), RoutingHalf(batch))
        /\ sozu = Expects(base, want, batch)
    BY DEF Inv, Underway, AtStage
  <2> DEFINE W == acked \cup batch
  <2>2. Wanted(want) /\ W \in Reconcile(base, want) /\ batch \in SUBSET W
    BY <2>1 DEF Parted
  <2> HIDE DEF W
  <2>3. /\ Refusal(Expects(base, want, batch), a.req) = None
        /\ Dispatched(Expects(base, want, batch), a.req) = Expects(base, want, batch \ {a})
    BY <2>1, <2>2, BatchGoesOn DEF Expects
  <2> QED
    BY <2>1, <2>3
<1> QED
  BY <1>1, OnTheWay, PTL

(* What both the baseline and the desired state have stays in Sozu while the batch is sent. *)
LEMMA RoutingStays == Inv => RoutingKept
<1> SUFFICES ASSUME Inv, pc = "sending", exact
             PROVE  RoutingKept
  BY DEF RoutingKept
<1> DEFINE F == RoutingState(base)
           T == RoutingState(want)
           P == RoutingHalf(batch)
<1>1. sozu = StageOf(F, T, P) /\ Staged(F, T, P)
  BY DEF Inv, Underway, AtStage, Expects
<1> HIDE DEF F, T, P
<1>2. Stage(F, T, P, sozu)
  BY <1>1, StageIs DEF Staged
<1>3. F.routes \cap T.routes \subseteq sozu.routes /\ F.l4 \cap T.l4 \subseteq sozu.l4
  BY <1>2 DEF Stage, RoutesAt, L4At, Mid
<1>4. \A b \in F.backends, d \in T.backends :
        BackendKey(b) = BackendKey(d) => b \in sozu.backends \/ d \in sozu.backends
  BY <1>2 DEF Stage, BackendsAt, Mid, ReplacedBackends
<1>5. \A c \in F.clusters, d \in T.clusters :
        c.id = d.id => c \in sozu.clusters \/ d \in sozu.clusters
  BY <1>2 DEF Stage, ClustersAt, Mid, ReplacedClusters
<1>6. {BackendKey(b) : b \in F.backends} \cap {BackendKey(b) : b \in T.backends}
        \subseteq {BackendKey(b) : b \in sozu.backends}
  BY <1>4
<1>7. {c.id : c \in F.clusters} \cap {c.id : c \in T.clusters} \subseteq {c.id : c \in sozu.clusters}
  BY <1>5
<1> QED
  BY <1>3, <1>6, <1>7 DEF RoutingKept, F, T

(* A name both have is served meanwhile, unless it moves on a cycle of transfers. *)
LEMMA NamesStay == Inv => NamesServed
<1> SUFFICES ASSUME Inv, pc = "sending", exact,
                    NEW name \in Names(base.certs) \cap Names(want.certs),
                    name \notin Swapped(Trades(base.certs, want.certs))
             PROVE  name \in Names(tls)
  BY DEF NamesServed
<1> DEFINE W == acked \cup batch
           certs == {a \in W : IsCertificateRequest(a.req)}
           pending == {a \in batch : IsCertificateRequest(a.req)}
<1>1. /\ Parted(base, want, acked, batch) /\ tls = ExpectsCerts(base, want, batch)
  BY DEF Inv, Underway, AtStage
<1>2. /\ Wanted(want) /\ W \in Reconcile(base, want)
      /\ \A a \in acked, b \in batch : ~Precedes(b, a)
  BY <1>1 DEF Parted
<1>3. certs \in CertificateBatches(base.certs, want.certs)
  BY <1>2, BatchParts
<1>4. IsFiniteSet(Trades(base.certs, want.certs))
  BY <1>2, FewTrades DEF Wanted
<1>5. pending \in SUBSET certs /\ \A a \in certs \ pending : \A b \in pending : ~Precedes(b, a)
  BY <1>2
<1>6. CertificateHalf(batch) = {a.req : a \in pending}
  BY DEF CertificateHalf
<1>7. name \in Names(KeyedCerts(base.certs)) \cap Names(KeyedCerts(want.certs))
  BY KeyedNames
<1> HIDE DEF certs, pending
<1>8. name \in Names(CertsAt(KeyedCerts(base.certs), KeyedCerts(want.certs), {a.req : a \in pending}))
  BY <1>3, <1>4, <1>5, <1>7, ServedOnTheWay
<1> QED
  BY <1>1, <1>6, <1>8 DEF ExpectsCerts

(* Nothing that stays is missing while a batch is sent. *)
THEOREM NothingIsMissing == Spec => []NothingMissingMeanwhile
<1>1. Inv => NothingMissingMeanwhile
  BY RoutingStays, NamesStay DEF NothingMissingMeanwhile
<1> QED
  BY <1>1, OnTheWay, PTL

(* A batch sent to its end has reached the state asked for. *)
LEMMA SentReaches == Inv => DesiredReached
<1> SUFFICES ASSUME Inv, pc = "sending", sound, batch = {} PROVE Matches(want)
  BY DEF DesiredReached
<1>1. IsState(sozu) /\ PastStage(base, want, {}, sozu, tls)
  BY DEF Inv
<1>2. sozu = RoutingState(want) /\ tls = KeyedCerts(want.certs)
  BY <1>1, StagesInTurn
<1> QED
  BY <1>2 DEF Matches

(* A batch sent to its end leaves what the desired IR describes, one that repeats a batch that    *)
(* stopped too.                                                                                   *)
THEOREM DesiredIsReached == Spec => []DesiredReached
<1>1. Inv => DesiredReached
  BY SentReaches
<1> QED
  BY <1>1, OnTheWay, PTL

(* A baseline adopted after a batch stopped describes what Sozu holds. *)
THEOREM AdoptedIsExact == Spec => AdoptedExact
<1> DEFINE Adopts == pc = "sending" /\ pc' = "idle" /\ exact /\ base' # base => Matches(base)'
<1>1. Inv /\ [Next]_vars => [Adopts]_vars
  <2> SUFFICES ASSUME Inv, Next, pc = "sending", pc' = "idle", exact, base' # base
               PROVE  sozu' = RoutingState(base') /\ tls' = KeyedCerts(base'.certs)
    BY DEF Matches
  <2>1. Parted(base, want, acked, batch) /\ AtStage(base, want, batch, sozu, tls)
    BY DEF Inv, Underway
  <2>2. CASE Fail
    <3>1. base' = ReplayIfExact(base, want, InOrder(acked)) /\ sozu' = sozu /\ tls' = tls
      BY <2>2 DEF Fail
    <3>2. /\ RoutingState(base') = Expects(base, want, batch)
          /\ KeyedCerts(base'.certs) = ExpectsCerts(base, want, batch)
      BY <2>1, <3>1, FailAdopts
    <3> QED
      BY <2>1, <3>1, <3>2 DEF AtStage
  <2>3. CASE Finish
    <3>1. base' = want /\ sozu' = sozu /\ tls' = tls /\ batch = {}
      BY <2>3 DEF Finish
    <3>2. sozu = Expects(base, want, {}) /\ tls = ExpectsCerts(base, want, {})
      BY <2>1, <3>1 DEF AtStage
    <3>3. Expects(base, want, {}) = RoutingState(want) /\ ExpectsCerts(base, want, {}) = KeyedCerts(want.certs)
      BY LastStage
    <3> QED
      BY <3>1, <3>2, <3>3
  <2>4. Fail \/ Finish
    BY DEF Next, Submit, Untranslatable, Stop, Send, Refused
  <2> QED
    BY <2>2, <2>3, <2>4
<1> QED
  BY <1>1, OnTheWay, PTL DEF Spec, AdoptedExact

-----------------------------------------------------------------------------
(* The clusters of the baseline. *)

(* The ids of the clusters of an IR, and of a state, are the same where it describes the state. *)
LEMMA IdsSpelled ==
  ASSUME NEW ir, NEW S, RoutingState(ir) = S
  PROVE  {c.id : c \in ir.clusters} \subseteq {c.id : c \in S.clusters}
<1> DEFINE udp == {f.cluster : f \in {g \in ir.l4 : g.proto = "Udp"}}
<1>1. S.clusters = {ClusterPayload(c, c.id \in udp) : c \in ir.clusters}
  BY RoutingStateFields DEF ClusterPayloads
<1> HIDE DEF udp
<1>2. \A c \in ir.clusters : \E h \in S.clusters : h.id = c.id
  BY <1>1, ClusterFields
<1> QED
  BY <1>2

(* As long as no cluster has gone, every id is there: a cluster that changes is replaced in place. *)
LEMMA IdsStay ==
  ASSUME NEW F, NEW T, NEW P, RemovedClusters(F, T) \subseteq Pend(P, "RemoveCluster")
  PROVE  {c.id : c \in F.clusters} \subseteq {c.id : c \in StageOf(F, T, P).clusters}
<1>1. StageOf(F, T, P).clusters = ClustersAt(F, T, P)
  BY DEF StageOf
<1>2. ASSUME NEW c \in F.clusters PROVE \E h \in ClustersAt(F, T, P) : h.id = c.id
  <2>1. CASE c \in RemovedClusters(F, T)
    BY <2>1 DEF ClustersAt, Mid
  <2>2. CASE c \notin RemovedClusters(F, T)
    <3>1. PICK d \in T.clusters : d.id = c.id
      BY <2>2 DEF RemovedClusters
    <3>2. CASE d \in Pend(P, "AddCluster")
      BY <3>1, <3>2 DEF ClustersAt, Mid, ReplacedClusters
    <3>3. CASE d \notin Pend(P, "AddCluster")
      BY <3>1, <3>3 DEF ClustersAt, Mid
    <3> QED
      BY <3>2, <3>3
  <2> QED
    BY <2>1, <2>2
<1> QED
  BY <1>1, <1>2

(* Clusters go last: until one has gone all are to go, and then nothing else is. *)
LEMMA ClustersGoLast ==
  ASSUME NEW from, NEW to, NEW done, NEW todo, Parted(from, to, done, todo)
  PROVE  LET F == RoutingState(from)
             T == RoutingState(to)
         IN /\ Between(F, T, RoutingHalf(todo))
            /\ \/ RemovedClusters(F, T) \subseteq Pend(RoutingHalf(todo), "RemoveCluster")
               \/ done # {} /\ ClustersLeft(RoutingHalf(todo))
<1> DEFINE F == RoutingState(from)
           T == RoutingState(to)
           W == done \cup todo
           P == RoutingHalf(todo)
<1>1. /\ Wanted(to) /\ Keyed(F) /\ W \in Reconcile(from, to)
      /\ \A a \in done, b \in todo : ~Precedes(b, a)
  BY DEF Parted
<1>2. RoutingHalf(W) = Diffed(F, T) /\ \A b \in W : InPlaceOf(b)
  BY <1>1, BatchParts
<1>3. Keyed(T) /\ Whole(T)
  BY <1>1, WantedWhole DEF Wanted
<1>4. P \subseteq Diffed(F, T)
  BY <1>2 DEF RoutingHalf
<1>5. \A c \in RemovedClusters(F, T) : c \in Pend(RoutingHalf(W), "RemoveCluster")
  <2> SUFFICES ASSUME NEW c \in RemovedClusters(F, T) PROVE c \in Pend(Diffed(F, T), "RemoveCluster")
    BY <1>2
  <2>1. Asked(F, T, Request("RemoveCluster", c))
    BY RequestFields DEF Asked
  <2> HIDE DEF F, T
  <2> QED
    BY <2>1, PendDiffed
<1> HIDE DEF F, T
<1>6. Between(F, T, P)
  BY <1>1, <1>3, <1>4, BatchBetween, BetweenLess
<1>7. CASE \E a \in done : ~IsCertificateRequest(a.req) /\ a.req.verb = "RemoveCluster"
  <2>1. PICK a \in done : a.req.verb = "RemoveCluster"
    BY <1>7
  <2>2. a.tier = 12
    BY <1>2, <2>1 DEF InPlaceOf, Tier, Tiers
  <2>3. ASSUME NEW verb \in RoutingVerbs, verb # "RemoveCluster" PROVE Pend(P, verb) = {}
    <3> SUFFICES ASSUME NEW b \in todo, b.req.verb = verb PROVE FALSE
      BY DEF Pend, RoutingHalf
    <3>1. b.tier = Tier(verb)
      BY <1>2, <2>3 DEF InPlaceOf
    <3>2. Tier(verb) < 12
      BY <2>3 DEF RoutingVerbs, Tier, Tiers
    <3> QED
      BY <1>1, <2>2, <3>1, <3>2 DEF Precedes
  <2>4. ClustersLeft(P)
    BY <2>3 DEF ClustersLeft
  <2> QED
    BY <1>6, <2>1, <2>4 DEF F, T
<1>8. CASE ~\E a \in done : ~IsCertificateRequest(a.req) /\ a.req.verb = "RemoveCluster"
  <2>1. ASSUME NEW c \in RemovedClusters(F, T) PROVE c \in Pend(P, "RemoveCluster")
    <3>1. PICK q \in RoutingHalf(W) : q.verb = "RemoveCluster" /\ q.obj = c
      BY <1>5 DEF Pend
    <3>2. PICK a \in W : ~IsCertificateRequest(a.req) /\ a.req = q
      BY DEF RoutingHalf
    <3>3. a \in todo
      BY <1>8, <3>1, <3>2
    <3> QED
      BY <3>1, <3>2, <3>3 DEF Pend, RoutingHalf
  <2> QED
    BY <1>6, <2>1 DEF F, T
<1> QED
  BY <1>7, <1>8

(* Wherever a batch that was exact stops, the baseline it leaves lists no cluster that has gone. *)
LEMMA FailHolds == Inv /\ pc = "sending" /\ exact /\ Fail => ClustersHeld'
<1> SUFFICES ASSUME Inv, pc = "sending", exact, Fail PROVE ClustersHeld'
  OBVIOUS
<1> DEFINE F == RoutingState(base)
           T == RoutingState(want)
           P == RoutingHalf(batch)
<1>1. /\ Parted(base, want, acked, batch) /\ sozu = Expects(base, want, batch)
  BY DEF Inv, Underway, AtStage
<1>2. base' = ReplayIfExact(base, want, InOrder(acked)) /\ sozu' = sozu
  BY DEF Fail
<1> SUFFICES \/ {c.id : c \in base'.clusters} \subseteq {c.id : c \in sozu'.clusters}
             \/ Stranded(sozu')
  BY DEF ClustersHeld, StrandedAffinity, Stranded
<1>3. CASE RoutingState(base') = sozu
  BY <1>2, <1>3, IdsSpelled
<1>4. CASE base' = base /\ RemovedClusters(F, T) \subseteq Pend(P, "RemoveCluster")
  <2>1. {c.id : c \in F.clusters} \subseteq {c.id : c \in sozu.clusters}
    BY <1>1, <1>4, IdsStay DEF Expects
  <2>2. {c.id : c \in base.clusters} \subseteq {c.id : c \in F.clusters}
    BY IdsSpelled
  <2> QED
    BY <1>2, <1>4, <2>1, <2>2
<1>5. CASE acked # {} /\ ClustersLeft(P)
  <2>1. Between(F, T, P)
    BY <1>1, ClustersGoLast
  <2>2. CASE Stranded(sozu)
    BY <1>2, <2>2
  <2>3. CASE ~Stranded(sozu)
    <3>1. RoutingState(base') = sozu
      BY <1>1, <1>2, <1>5, <2>1, <2>3, ReplayIsExact
    <3> QED
      BY <1>3, <3>1
  <2> QED
    BY <2>2, <2>3
<1>6. base' # base => RoutingState(base') = sozu
  BY <1>1, <1>2, FailAdopts
<1>7. \/ RemovedClusters(F, T) \subseteq Pend(P, "RemoveCluster")
      \/ acked # {} /\ ClustersLeft(P)
  BY <1>1, ClustersGoLast
<1> QED
  BY <1>3, <1>4, <1>5, <1>6, <1>7

(* Wherever a batch diffed from what Sozu held stops, the baseline it leaves lists no cluster that *)
(* Sozu lost, unless a cluster that is still to go is stranded with its UDP affinity.              *)
THEOREM ClustersAreHeld == Spec => []ClustersHeld
<1>1. Init => ClustersHeld
  <2> SUFFICES ASSUME Init PROVE {c.id : c \in base.clusters} \subseteq {c.id : c \in sozu.clusters}
    BY DEF ClustersHeld
  <2> QED
    BY IdsSpelled DEF Init
<1>2. Inv /\ ClustersHeld /\ [Next]_vars => ClustersHeld'
  <2> SUFFICES ASSUME Inv, ClustersHeld, [Next]_vars, pc' = "idle", exact' PROVE ClustersHeld'
    BY DEF ClustersHeld
  <2>1. CASE Submit
    BY <2>1 DEF Submit
  <2>2. CASE Untranslatable
    BY <2>2 DEF Untranslatable, ClustersHeld, StrandedAffinity
  <2>3. CASE pc = "sending" /\ Fail
    BY <2>3, FailHolds DEF Fail
  <2>4. CASE Finish
    <3>1. /\ pc = "sending" /\ exact /\ batch = {} /\ base' = want /\ sozu' = sozu
      BY <2>4 DEF Finish
    <3>2. sozu = Expects(base, want, {})
      BY <3>1 DEF Inv, AtStage
    <3>3. RoutingState(base') = sozu'
      BY <3>1, <3>2, LastStage
    <3>4. {c.id : c \in base'.clusters} \subseteq {c.id : c \in sozu'.clusters}
      BY <3>3, IdsSpelled
    <3> QED
      BY <3>4 DEF ClustersHeld
  <2>5. ASSUME NEW a \in batch, Send(a) PROVE ClustersHeld'
    BY <2>5 DEF Send
  <2>6. CASE UNCHANGED vars
    BY <2>6 DEF vars, ClustersHeld, StrandedAffinity
  <2> QED
    BY <2>1, <2>2, <2>3, <2>4, <2>5, <2>6 DEF Next, Stop, Refused
<1> QED
  BY <1>1, <1>2, OnTheWay, PTL DEF Spec
=============================================================================
