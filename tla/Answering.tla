----------------------------- MODULE Answering -----------------------------
(***************************************************************************)
(* From a question to its answer: retrieve_with_status, whose searches and *)
(* look-ups are statements of their own while documents come and go, then  *)
(* the evidence, the LLM's draft with its one repair, and the response     *)
(* assembled from both (services/retriever.py, services/rag.py).           *)
(*                                                                         *)
(* What the index, the embeddings and the LLM return is left open: any     *)
(* rows, any hits, any draft.                                              *)
(***************************************************************************)
EXTENDS Ranking

CONSTANTS Chunks, QuestionSet,
          KeywordRows,   \* what the BM25 index may make of the question
          SemanticHits,  \* what Chroma may find for it
          Drafts,        \* what the LLM may write
          Bm25TopN, NoPin

Documents == {c.doc : c \in Chunks}

(* Up to this rank the scores of neighbours are two millionths apart and   *)
(* more, and equal boosts keep them apart; twenty are asked for            *)
(* (config.py:23).                                                         *)
RankMax == 600

(* Chunks have a primary key; the index has a row for a chunk once; the    *)
(* searches are asked for a number of hits.                                *)
ASSUME AnsweringAssumption ==
    /\ NoChunk \notin Chunks /\ NoPin \notin Documents /\ Bm25TopN \in 0..RankMax
    /\ \A c, d \in Chunks : c.id = d.id => c = d
    /\ \A c \in Chunks : c.at \in Nat /\ c.crawled \in Int
    /\ \A q \in QuestionSet : IsFiniteSet(q.words)
    /\ \A rows \in KeywordRows :
         /\ rows \in Seq([chunk : Chunks, raw : Int, overlap : Nat])
         /\ \A i, j \in DOMAIN rows : rows[i].chunk = rows[j].chunk => i = j
    /\ \A found \in SemanticHits :
         found \in Seq([chunk : Chunks \cup {NoChunk}, distance : Int]) /\ Len(found) <= RankMax
    /\ \A written \in Drafts :
         /\ written.answerability \in {"answerable", "partial", "insufficient"}
         /\ written.numbers \in Seq(Int)

VARIABLES stage, question,
          stored,      \* the chunks of active documents in the database
          keyword,     \* hits of the BM25 index
          semantic,    \* hits of Chroma that the database still has
          up,          \* which of the two searches worked
          merged,      \* merge_ranked_results
          results,     \* what retrieve_with_status returns
          candidates,  \* the evidence
          draft,       \* what the LLM wrote
          response     \* the answer; NoResponse before there is one

answeringVars == <<stage, question, stored, keyword, semantic, up, merged, results,
          candidates, draft, response>>

NoResponse == [answerability |-> "none"]
NoDraft == [answerability |-> "none", numbers |-> <<>>, steps |-> FALSE, notes |-> FALSE]

AnsweringInit ==
    /\ stage = "keyword"
    /\ question \in QuestionSet
    /\ stored = Chunks
    /\ keyword = <<>> /\ semantic = <<>> /\ up = {}
    /\ merged = <<>> /\ results = <<>> /\ candidates = <<>>
    /\ draft = NoDraft /\ response = NoResponse

(* A crawl round parses a document again, to no chunk (persist_document).  *)
LoseChunks(doc) ==
    /\ stored = Chunks /\ stage # "answered"
    /\ stored' = {c \in stored : c.doc # doc}
    /\ UNCHANGED <<stage, question, keyword, semantic, up, merged, results, candidates, draft, response>>

(* The index is the one in memory: it may list what is gone since.         *)
SearchKeywords ==
    /\ stage = "keyword"
    /\ \/ /\ \E rows \in KeywordRows : keyword' = Bm25Search(rows, Bm25TopN)
          /\ up' = up \cup {"bm25"}
       \/ UNCHANGED <<keyword, up>>
    /\ stage' = "semantic"
    /\ UNCHANGED <<question, stored, semantic, merged, results, candidates, draft, response>>

(* Any error of the search is caught.                                      *)
SearchSemantic ==
    /\ stage = "semantic"
    /\ \/ /\ \E found \in SemanticHits : semantic' = SemanticSearch(found, stored)
          /\ up' = up \cup {"semantic"}
       \/ UNCHANGED <<semantic, up>>
    /\ stage' = "merge"
    /\ UNCHANGED <<question, stored, keyword, merged, results, candidates, draft, response>>

Merge ==
    /\ stage = "merge"
    /\ merged' = MergeRanked(semantic, keyword, question)
    /\ results' = merged'
    /\ stage' = "expand"
    /\ UNCHANGED <<question, stored, keyword, semantic, up, candidates, draft, response>>

Expand ==
    /\ stage = "expand"
    /\ results' = DedupRanked(ExpandDetail(results, question, stored))
    /\ stage' = "pin"
    /\ UNCHANGED <<question, stored, keyword, semantic, up, merged, candidates, draft, response>>

Pinned(asked, found, active) ==
    IF asked.pin = NoPin THEN found ELSE ApplyBestBets(asked, found, active)

(* The candidates follow in the same run of the event loop.                *)
PinAndFilter ==
    /\ stage = "pin"
    /\ results' = Pinned(question, results, stored)
    /\ candidates' = EvidenceCandidates(question, results')
    /\ stage' = "draft"
    /\ UNCHANGED <<question, stored, keyword, semantic, up, merged, draft, response>>

(* insufficient_response: no evidence, no call of the LLM.                 *)
Insufficient == [answerability |-> "insufficient", sources |-> <<>>,
                 steps |-> FALSE, notes |-> FALSE]

AnswerWithoutEvidence ==
    /\ stage = "draft" /\ candidates = <<>>
    /\ response' = Insufficient
    /\ stage' = "answered"
    /\ UNCHANGED <<question, stored, keyword, semantic, up, merged, results, candidates, draft>>

(* validate_used_source_numbers: numbers of candidates, each once, in the  *)
(* order the draft names them.                                             *)
UsedNumbers(written, count) ==
    IF written.answerability = "insufficient" THEN <<>>
    ELSE LET inRange == Sublist(written.numbers, {i \in DOMAIN written.numbers : written.numbers[i] \in 1..count})
         IN  FirstOfEach(inRange, inRange)

\* Variant: an answer is not downgraded when none of its numbers is valid.
AssembleAsDrafted(written, evidence) ==
    LET used == UsedNumbers(written, Len(evidence))
    IN  [answerability |-> written.answerability,
         sources |-> [i \in DOMAIN used |-> evidence[used[i]].display.chunk.id],
         steps |-> written.steps, notes |-> written.notes]

(* assemble_chat_response: an answer no valid number supports is           *)
(* downgraded, and an insufficient one keeps neither steps nor notes.      *)
Assemble(written, evidence) ==
    LET used == UsedNumbers(written, Len(evidence))
    IN  IF used = <<>> THEN Insufficient
        ELSE [answerability |-> written.answerability,
              sources |-> [i \in DOMAIN used |-> evidence[used[i]].display.chunk.id],
              steps |-> written.steps, notes |-> written.notes]

(* generate_answer_draft: a draft that does not validate is asked for once *)
(* more, then the request fails.                                           *)
Draft ==
    /\ stage \in {"draft", "repair"} /\ candidates # <<>>
    /\ draft' \in Drafts
    /\ response' = Assemble(draft', candidates)
    /\ stage' = "answered"
    /\ UNCHANGED <<question, stored, keyword, semantic, up, merged, results, candidates>>

DraftInvalid ==
    /\ stage \in {"draft", "repair"} /\ candidates # <<>>
    /\ stage' = IF stage = "draft" THEN "repair" ELSE "answered"
    /\ UNCHANGED <<question, stored, keyword, semantic, up, merged, results, candidates,
                   draft, response>>

AnsweringNext ==
    \/ \E doc \in Documents : LoseChunks(doc)
    \/ SearchKeywords \/ SearchSemantic \/ Merge \/ Expand \/ PinAndFilter
    \/ AnswerWithoutEvidence \/ Draft \/ DraftInvalid

AnsweringSpec == AnsweringInit /\ [][AnsweringNext]_answeringVars
-----------------------------------------------------------------------------
(* _used_source_numbers_for_log: the log works the candidates out again    *)
(* and finds each source's number by its chunk.                            *)
UsedNumbersForLog(found, answer) ==
    LET again == EvidenceCandidates(question, found)
        place(id) == FirstPlace({i \in DOMAIN again : again[i].display.chunk.id = id})
        places == [i \in DOMAIN answer.sources |-> place(answer.sources[i])]
        numbers == Sublist(places, {i \in DOMAIN places : places[i] # 0})
    IN  IF answer.answerability = "insufficient" THEN <<>> ELSE FirstOfEach(numbers, numbers)
-----------------------------------------------------------------------------
Ids(s) == {s[i].chunk.id : i \in DOMAIN s}
Docs(s) == {s[i].chunk.doc : i \in DOMAIN s}
Texts(s) == {s[i].chunk.text : i \in DOMAIN s}
Searched == stage \notin {"keyword", "semantic", "merge"}
Ready == stage \in {"draft", "repair", "answered"}

(* Of two chunks with the same boost, one that neither list places behind  *)
(* the other comes first (merge_ranked_results, apply_intent_boost).       *)
NotBehind(i, j) == j = 0 \/ (i # 0 /\ i <= j)
AgreementWins ==
    Searched =>
      \A i, j \in DOMAIN merged :
        LET c == merged[i].chunk
            d == merged[j].chunk
        IN  (/\ c.id # d.id
             /\ NotBehind(Rank(c, semantic), Rank(d, semantic))
             /\ NotBehind(Rank(c, keyword), Rank(d, keyword))
             /\ Factor(c, question) = Factor(d, question)) => i < j

(* The merged list repeats no document and no text, and while it has room  *)
(* it speaks for every hit: it has the document of a hit with the same     *)
(* text.  That is as much as holds: the two deduplications in a row can    *)
(* lose the document and the text of a hit (retriever.py:362).             *)
MergedSpeaksForEveryHit ==
    Searched =>
      /\ Cardinality(Docs(merged)) = Len(merged) /\ Cardinality(Texts(merged)) = Len(merged)
      /\ Len(merged) < TopK =>
           \A c \in Chunks :
             c.id \in Ids(semantic) \cup Ids(keyword) =>
               \E other \in Chunks : /\ other.id \in Ids(semantic) \cup Ids(keyword)
                                     /\ other.text = c.text /\ other.doc \in Docs(merged)

(* Rank fusion honours agreement, and loses no hit it has room for         *)
(* (merge_ranked_results, apply_intent_boost).                             *)
FusionIsFair == AgreementWins /\ MergedSpeaksForEveryHit

(* A table added for details stands right behind the heading it belongs    *)
(* to, with its score, unless that heading is dropped for the text of a    *)
(* table added before; the best result stays, and a table costs at most    *)
(* two others: the last one, for which there is no room, and the one of    *)
(* its own text.  It may cost both, for the list is cut to final_top_k     *)
(* before it is deduplicated again (expand_detail_context,                 *)
(* retriever.py:655).                                                      *)
Added(i) == results[i].chunk.id \notin Ids(merged)
HeadingOf(i, m) ==
    /\ merged[m].chunk.heading /\ merged[m].chunk.doc = results[i].chunk.doc
    /\ merged[m].chunk.at < results[i].chunk.at /\ merged[m].score = results[i].score
Extended == {i \in DOMAIN merged : FollowingTables(merged, i, Chunks) # {}}
TablesFollowTheirHeadings ==
    stage = "pin" =>
      /\ \A i \in {k \in DOMAIN results : Added(k)} :
           \E m \in DOMAIN merged :
             /\ HeadingOf(i, m)
             /\ \/ i > 1 /\ results[i - 1] = merged[m]
                \/ \E j \in 1..i - 1 : Added(j) /\ results[j].chunk.text = merged[m].chunk.text
      /\ merged # <<>> => results # <<>> /\ results[1] = merged[1]
      /\ Cardinality(Ids(merged) \ Ids(results)) <=
           IF question.detail THEN 2 * Cardinality(Extended) ELSE 0

(* While the document of a best bet is stored it is source number one,     *)
(* whatever either search found and however full the list is               *)
(* (apply_best_bets, filter_evidence_candidates).                          *)
PinnedComesFirst ==
    Ready /\ question.pin \in {c.doc : c \in stored} =>
      candidates # <<>> /\ candidates[1].display.chunk.doc = question.pin

(* Evidence is one candidate per document, shown by the best and resting   *)
(* on all of its results, the best document first                          *)
(* (filter_evidence_candidates).                                           *)
OneCandidatePerDocument ==
    \A i, j \in DOMAIN candidates :
      /\ i < j => /\ candidates[i].display.chunk.doc # candidates[j].display.chunk.doc
                  /\ candidates[i].display.score >= candidates[j].display.score
      /\ Docs(candidates[i].context) = {candidates[i].display.chunk.doc}

(* The keyword search alone is no evidence: what only it found, and shares *)
(* no academic keyword with the question, passes the gate only if its      *)
(* boost makes up for the weight of that search: with the configured       *)
(* three tenths one of more than a sixth (merge_ranked_results,            *)
(* _is_accepted_evidence).                                                 *)
KeywordsAloneAreNoEvidence ==
    \A i \in DOMAIN candidates :
      \A k \in DOMAIN candidates[i].context :
        LET r == candidates[i].context[k]
        IN  (/\ r.chunk.id \in Ids(merged) \ Ids(semantic)
             /\ Overlap(r, question) = 0 /\ r.chunk.doc # question.pin)
            => Bm25Weight * Factor(r.chunk, question) >= EvidenceMinScore

(* What the answer may rest on: the best bet first, one candidate per      *)
(* document in the order of their scores, none found by keywords alone     *)
(* (apply_best_bets, filter_evidence_candidates, _is_accepted_evidence).   *)
EvidenceIsInOrder == PinnedComesFirst /\ OneCandidatePerDocument /\ KeywordsAloneAreNoEvidence

(* An answer names its sources: it is what the draft says it is only if    *)
(* the draft names a candidate, its sources are exactly the candidates     *)
(* named, and an insufficient answer shows no steps and no notes           *)
(* (assemble_chat_response, validate_used_source_numbers).                 *)
SourcesAreNamed ==
    LET named == {draft.numbers[i] : i \in DOMAIN draft.numbers} \cap DOMAIN candidates
        shown == {response.sources[i] : i \in DOMAIN response.sources}
    IN  /\ response.answerability \in {"answerable", "partial"} =>
             /\ shown # {} /\ draft.answerability = response.answerability
             /\ shown = {candidates[n].display.chunk.id : n \in named}
        /\ response.answerability = "insufficient" =>
             shown = {} /\ ~response.steps /\ ~response.notes

(* The numbers in the query log are those the answer was assembled from,   *)
(* although the log works them out again from the retrieval results        *)
(* (_used_source_numbers_for_log).                                         *)
LoggedNumbersAreTheDrafts ==
    stage = "answered" /\ response # NoResponse /\ draft # NoDraft =>
      UsedNumbersForLog(results, response) = UsedNumbers(draft, Len(candidates))

(* An answer rests on the candidates its draft names, on the screen and in *)
(* the log (assemble_chat_response, _used_source_numbers_for_log).         *)
AnswerRestsOnEvidence == SourcesAreNamed /\ LoggedNumbersAreTheDrafts
=============================================================================
