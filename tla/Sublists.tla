------------------------------ MODULE Sublists ------------------------------
(***************************************************************************)
(* What comprehensions, deduplications, sorts and slices make of a list.   *)
(* Unlike SelectSeq and SortSeq these are defined by sets of places, so    *)
(* that the proofs can take them apart.                                    *)
(***************************************************************************)
EXTENDS Integers, Sequences, FiniteSets, Functions

IsList(s) == s \in Seq(Range(s))

(* The entries at some places, in their order.                             *)
UpTo(I, i) == {j \in I : j <= i}
Nth(I, k) == CHOOSE i \in I : Cardinality(UpTo(I, i)) = k
Sublist(list, I) == [k \in 1..Cardinality(I) |-> list[Nth(I, k)]]

(* The least of some places; 0 if there is none.                           *)
FirstPlace(I) == IF I = {} THEN 0 ELSE CHOOSE i \in I : \A j \in I : i <= j

(* The first entry of every class; classes[i] is the class of list[i].     *)
Firsts(classes) == {i \in DOMAIN classes : \A j \in DOMAIN classes : j < i => classes[j] # classes[i]}
FirstOfEach(classes, list) == Sublist(list, Firsts(classes))

(* Stable, best first; keys[i] is the key of list[i], four integers.       *)
Precedes(a, b) ==
    \/ a[1] > b[1]
    \/ a[1] = b[1] /\ a[2] > b[2]
    \/ a[1] = b[1] /\ a[2] = b[2] /\ a[3] > b[3]
    \/ a[1] = b[1] /\ a[2] = b[2] /\ a[3] = b[3] /\ a[4] > b[4]
Ahead(keys, i, j) == Precedes(keys[i], keys[j]) \/ (keys[i] = keys[j] /\ i < j)
AheadOf(keys, i) == {j \in DOMAIN keys : Ahead(keys, j, i)}
SortedPlace(keys, k) == CHOOSE i \in DOMAIN keys : Cardinality(AheadOf(keys, i)) = k - 1
SortedBy(keys, list) == [k \in DOMAIN keys |-> list[SortedPlace(keys, k)]]

Take(list, n) == SubSeq(list, 1, IF n <= Len(list) THEN n ELSE Len(list))
=============================================================================
