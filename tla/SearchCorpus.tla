---------------------------- MODULE SearchCorpus ----------------------------
(***************************************************************************)
(* What an ingestion round promises the retriever, with no processes,      *)
(* locks, batches or failures in sight.  Three things exist: the chunks    *)
(* the database stores for each document, the chunks a semantic search can *)
(* return (HybridRetriever.search_chroma returns a hit only if its vector  *)
(* is in the collection and its row is in the database), and the chunks in *)
(* the keyword index.                                                      *)
(*                                                                         *)
(* A document is replaced as a whole; a searchable chunk stays searchable  *)
(* until its document is replaced; the keyword index is only ever          *)
(* overwritten with the complete corpus of that moment.                    *)
(***************************************************************************)
CONSTANTS Doc, Chunk

VARIABLES
    stored,       \* stored[d]: chunks of the current content of d
    searchable,   \* chunks a semantic search can return
    keywordIndex  \* chunks the BM25 file lists

vars == <<stored, searchable, keywordIndex>>

Corpus == UNION {stored[d] : d \in Doc}

Init ==
    /\ stored = [d \in Doc |-> {}]
    /\ searchable = {}
    /\ keywordIndex = {}

\* New content of d: its old chunks leave the search, none of the new is in it.
Replace(d) ==
    /\ \E new \in SUBSET Chunk :
         /\ new \intersect (Corpus \union keywordIndex) = {}
         /\ stored' = [stored EXCEPT ![d] = new]
    /\ searchable' = searchable \ stored[d]
    /\ UNCHANGED keywordIndex

\* Some stored chunks become searchable; none is lost.
Publish ==
    /\ \E chunks \in SUBSET Corpus : searchable' = searchable \union chunks
    /\ UNCHANGED <<stored, keywordIndex>>

\* The keyword index is rebuilt from the whole corpus.
Rebuild ==
    /\ keywordIndex' = Corpus
    /\ UNCHANGED <<stored, searchable>>

Next == (\E d \in Doc : Replace(d)) \/ Publish \/ Rebuild

Spec == Init /\ [][Next]_vars
=============================================================================
