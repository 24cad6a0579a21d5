------------------------------ MODULE Sorting ------------------------------
(***************************************************************************)
(* Ordered, bounded lists: the ORDER BY and LIMIT of the store's queries,  *)
(* the sort and truncate of vectors, and the order of a BTreeMap.          *)
(***************************************************************************)
EXTENDS Naturals, Sequences, FiniteSets

(* The members of a finite set as a sequence, sorted by a strict order: at *)
(* position i the one with i - 1 others before it.                         *)
Sorted(S, order) ==
    [i \in 1 .. Cardinality(S) |->
        CHOOSE e \in S : Cardinality({f \in S : <<f, e>> \in order}) = i - 1]

(* Numbers in increasing order.                                            *)
Ascending(S) == Sorted(S, {p \in S \X S : p[1] < p[2]})

(* The first n elements, or all.                                           *)
FirstOf(s, n) == SubSeq(s, 1, IF n < Len(s) THEN n ELSE Len(s))
=============================================================================
