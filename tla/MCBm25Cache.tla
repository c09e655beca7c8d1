----------------------------- MODULE MCBm25Cache -----------------------------
(* Small instances of Bm25Cache. *)
EXTENDS Bm25Cache, TLC

CONSTANTS d1, d2, notice, tuition

\* One document in each category.
OneEach == (d1 :> notice) @@ (d2 :> tuition)

\* Both in one category: the file of the other category never exists.
SameCategory == (d1 :> notice) @@ (d2 :> notice)

Symmetry == Permutations(Query)
=============================================================================
