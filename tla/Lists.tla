------------------------------- MODULE Lists -------------------------------
(***************************************************************************)
(* Sequences as the code's iterators and sorts go through them: filter,    *)
(* flat_map, a stable sort, and a set in some order.                       *)
(***************************************************************************)
EXTENDS Naturals, SequencesExt

IsList(s) == s \in Seq(Range(s))

FilterFrom(s, kept) ==
  LET some[n \in 0..Len(s)] ==
        IF n = 0 THEN <<>>
        ELSE IF s[n] \in kept THEN Append(some[n - 1], s[n]) ELSE some[n - 1]
  IN some[Len(s)]

(* The elements of a sequence that are kept, in their order; bound, s and kept are evaluated once. *)
Filtered(s, kept) == CHOOSE g \in {FilterFrom(q, k) : q \in {s}, k \in {kept}} : TRUE

FlatMap(s, Op(_)) == FlattenSeq([i \in DOMAIN s |-> Op(s[i])])

(* The elements by rank: before has <<i, j>> where s[i] comes before s[j]. *)
Sorted(s, before) ==
  LET rank == [i \in DOMAIN s |-> Cardinality({j \in DOMAIN s : <<j, i>> \in before}) + 1]
  IN [k \in DOMAIN s |-> s[CHOOSE i \in DOMAIN s : rank[i] = k]]

AsSequence(S) == FoldSet(LAMBDA x, acc : Append(acc, x), <<>>, S)
=============================================================================
