---------------------------- MODULE MCIngestion ----------------------------
(* Small instances of Ingestion. *)
EXTENDS Ingestion, TLC

\* How many chunks each content of a page has.
OneChunkEach == <<1, 1>>
TwoThenOne == <<2, 1>>

FullRun == [start |-> DISCOVER, end |-> INDEX, force |-> FALSE]
ParseOnly == [start |-> PARSE, end |-> PARSE, force |-> FALSE]
IndexOnly == [start |-> INDEX, end |-> INDEX, force |-> FALSE]

UnforcedRuns == {FullRun, ParseOnly, IndexOnly}
CacheRuns == {FullRun, ParseOnly}
FullRuns == {FullRun}

AllTargets == {Doc}

\* The UUIDs no state mentions are interchangeable, so of the steps that store
\* a document the one that takes the lowest of them stands for all.
LowestFree ==
    \A d \in Doc : rows'[d] # rows[d] =>
        \A c \in rows'[d], free \in (Chunk \ InUse) \ rows'[d] : c < free

Symmetry == Permutations(Doc)
=============================================================================
