------------------------------ MODULE Ranking ------------------------------
(***************************************************************************)
(* The pure part of the hybrid retriever: merging of the two result lists, *)
(* intent boost, deduplication, detail tables, the pinned result and the   *)
(* choice of evidence (services/retriever.py).                             *)
(*                                                                         *)
(* A chunk is the record of what these functions look at.  Scores are      *)
(* integers: similarities in thousandths, RRF scores in millionths, boost  *)
(* factors in hundredths; the last digits that Python rounds are cut.      *)
(***************************************************************************)
EXTENDS Sublists, FiniteSetsExt

CONSTANTS SemanticWeight, Bm25Weight,  \* in tenths (config.py:26)
          TopK,                        \* retriever_final_top_k
          MaxCandidates,               \* EVIDENCE_MAX_CANDIDATES
          NoChunk                      \* what a hit of Chroma without a chunk id names

ASSUME RankingAssumption ==
    /\ SemanticWeight \in 0..10 /\ Bm25Weight \in 0..10
    /\ TopK \in Nat \ {0} /\ MaxCandidates \in Nat \ {0}

(* A chunk, as row_to_retrieval_result joins it with its document:         *)
(*   id, doc, at     the chunk, its document and its index there           *)
(*   table, long     a table; of DETAIL_TABLE_MIN_CHARS or more            *)
(*   heading         only a heading or a short text                        *)
(*   text            what _dedup_signature makes of its content            *)
(*   page, general   page_kind; source_scope = "general_academic"          *)
(*   curriculum      a DepartmentCurriculum page                           *)
(*   crawled         when the document was crawled                         *)
(*   words, title    academic keywords in all its text; in the title       *)
(*   phone           names a telephone number or an inquiry                *)
(* A question: intent, words, certificate, detail (asks for a figure, a    *)
(* period...), and pin, the document of its best bet, if any.              *)

MaxOf(a, b) == IF a >= b THEN a ELSE b
MinOf(a, b) == IF a <= b THEN a ELSE b

\* FALSE < TRUE.
Bit(b) == IF b THEN 1 ELSE 0

Hit(chunk, score) == [chunk |-> chunk, score |-> score]

(* BM25Index.search.  A row is what the index makes of a chunk: its raw    *)
(* score, which a small index may leave at zero or below, and how many     *)
(* tokens it shares with the question.                                     *)
Bm25Search(rows, topN) ==
    LET ranked == Take(SortedBy([i \in DOMAIN rows |-> <<rows[i].raw, rows[i].overlap, 0, 0>>],
                                rows), topN)
        hits == [i \in DOMAIN ranked |->
                   Hit(ranked[i].chunk, IF ranked[i].raw > 0 THEN ranked[i].raw
                                        ELSE 1000 * ranked[i].overlap)]
    IN  Sublist(hits, {i \in DOMAIN hits : hits[i].score > 0})

(* _distance_to_score, of a distance in thousandths.                       *)
DistanceScore(distance) == IF distance < 0 THEN 0 ELSE 1000000 \div (1000 + distance)

(* The hits of which _extract_chunk_id finds an id, each chunk once.       *)
Named(found) ==
    LET named == Sublist(found, {i \in DOMAIN found : found[i].chunk # NoChunk})
    IN  FirstOfEach([i \in DOMAIN named |-> named[i].chunk], named)

(* search_chroma, in the order of Chroma; hits without a row are dropped.  *)
SemanticSearch(found, stored) ==
    LET named == Named(found)
        rows == Sublist(named, {i \in DOMAIN named : named[i].chunk \in stored})
    IN  [i \in DOMAIN rows |-> Hit(rows[i].chunk, DistanceScore(rows[i].distance))]

(* normalize_scores: a list whose best is below one is left as it is.      *)
NormalizeScores(hits) ==
    LET best == Max({1000} \cup {hits[i].score : i \in DOMAIN hits})
    IN  [i \in DOMAIN hits |-> Hit(hits[i].chunk, (hits[i].score * 1000) \div best)]

Rank(chunk, hits) == FirstPlace({i \in DOMAIN hits : hits[i].chunk.id = chunk.id})

RrfK == 60
One == 1000000  \* 1.0 as an RRF score
Rrf(chunk, hits) ==
    IF Rank(chunk, hits) = 0 THEN 0 ELSE One \div (RrfK + Rank(chunk, hits))

FusedScore(chunk, sem, key) == Rrf(chunk, sem) + Rrf(chunk, key)

Similarity(chunk, hits, weight) ==
    IF Rank(chunk, hits) = 0 THEN 0 ELSE (hits[Rank(chunk, hits)].score * weight) \div 10

(* The multiplicative boosts.                                              *)
Times(a, b) == (a * b) \div 100
FactorMin == 70
FactorMax == 140
Clamp(factor) == MinOf(MaxOf(factor, FactorMin), FactorMax)

IntentFactor(chunk, question) ==
    LET when(condition, factor) == IF condition THEN factor ELSE 100
        byIntent ==
          CASE question.intent = "requirement" ->
                 Times(when(chunk.page = "academic", 115), when(chunk.page = "schedule", 70))
            [] question.intent = "deadline" ->
                 Times(when(chunk.page = "schedule", 115), when(chunk.curriculum, 70))
            [] question.intent = "contact" ->
                 IF chunk.page = "contact" THEN 140 ELSE when(chunk.phone, 120)
            [] OTHER -> 100
        certificate == when(question.certificate /\ chunk.page = "certificate", 115)
        general == when(question.intent \in {"procedure", "factual"} /\ chunk.general, 110)
        notice == when(chunk.page = "notice", 90)
    IN  Clamp(Times(Times(byIntent, certificate), Times(general, notice)))

TitleFactor(chunk, question) ==
    IF question.words \cap chunk.title # {} THEN 120 ELSE 100

Factor(chunk, question) ==
    Clamp(Times(IntentFactor(chunk, question), TitleFactor(chunk, question)))

Result(chunk, score, relevance) ==
    [chunk |-> chunk, score |-> score, relevance |-> relevance]

(* apply_intent_boost changes the score and the relevance alike.           *)
Boosted(chunk, score, relevance, question) ==
    Result(chunk, Times(score, Factor(chunk, question)),
                  Times(relevance, Factor(chunk, question)))

MergeKey(r) == <<r.score, Bit(r.chunk.general), r.chunk.crawled, Bit(r.chunk.table)>>

Text(r) == r.chunk.text
Document(r) == r.chunk.doc
DedupRanked(results) ==
    FirstOfEach([i \in DOMAIN results |-> Text(results[i])], results)
DedupByDocument(results) ==
    FirstOfEach([i \in DOMAIN results |-> Document(results[i])], results)

(* Both lists in one, before anything is dropped: a chunk of both counts   *)
(* once, in its place in the semantic list.                                *)
Pooled(semantic, bm25, question) ==
    LET sem == NormalizeScores(semantic)
        key == NormalizeScores(bm25)
        chunks == [i \in DOMAIN sem |-> sem[i].chunk] \o
                  LET own == Sublist(key, {i \in DOMAIN key : Rank(key[i].chunk, sem) = 0})
                  IN  [i \in DOMAIN own |-> own[i].chunk]
    IN  [i \in DOMAIN chunks |->
           Boosted(chunks[i], FusedScore(chunks[i], sem, key),
                   Similarity(chunks[i], sem, SemanticWeight)
                     + Similarity(chunks[i], key, Bm25Weight), question)]

Ranked(semantic, bm25, question) ==
    LET pooled == Pooled(semantic, bm25, question)
    IN  SortedBy([i \in DOMAIN pooled |-> MergeKey(pooled[i])], pooled)

\* Variant: the best of every document is chosen before equal texts are dropped.
MergeRankedByDocument(semantic, bm25, question) ==
    Take(DedupByDocument(Ranked(semantic, bm25, question)), TopK)

MergeRanked(semantic, bm25, question) ==
    Take(DedupByDocument(DedupRanked(Ranked(semantic, bm25, question))), TopK)
-----------------------------------------------------------------------------
(* expand_detail_context: a question for details is given, behind a result *)
(* that is only a heading, the nearest table that follows it.              *)
DetailTable(chunk) == chunk.table /\ ~chunk.heading

NeedsTable(results, i) ==
    /\ results[i].chunk.heading
    /\ \A j \in DOMAIN results :
         ~(Document(results[j]) = Document(results[i]) /\ DetailTable(results[j].chunk))

(* stored: the chunks the database returns.                                *)
FollowingTables(results, i, stored) ==
    IF ~NeedsTable(results, i) THEN {}
    ELSE LET later == {c \in stored : /\ c.doc = Document(results[i]) /\ c.table /\ c.long
                                      /\ c.at > results[i].chunk.at}
         IN  {c \in later : \A other \in later : c.at <= other.at}

NewTables(results, i, stored) ==
    {c \in FollowingTables(results, i, stored) : \A j \in DOMAIN results : results[j].chunk.id # c.id}

Table(results, i, stored) ==
    Result(CHOOSE c \in NewTables(results, i, stored) : TRUE, results[i].score, results[i].relevance)

(* A place for every result and, behind it, one for its table.             *)
Widened(results, stored) ==
    [k \in 1..2 * Len(results) |->
       LET i == (k + 1) \div 2
       IN  IF k % 2 = 0 /\ NewTables(results, i, stored) # {} THEN Table(results, i, stored)
           ELSE results[i]]
Filled(results, stored) ==
    {k \in 1..2 * Len(results) : k % 2 = 0 => NewTables(results, (k + 1) \div 2, stored) # {}}
WithTables(results, stored) == Sublist(Widened(results, stored), Filled(results, stored))

\* Variant: the tables are put behind all results.
ExpandAtEnd(results, question, stored) ==
    LET tables == {k \in Filled(results, stored) : k % 2 = 0}
    IN  IF question.detail
        THEN Take(results \o Sublist(Widened(results, stored), tables), TopK)
        ELSE results

ExpandDetail(results, question, stored) ==
    IF question.detail THEN Take(WithTables(results, stored), TopK) ELSE results

(* The place of the best bet's document; its chunk to load if it has none. *)
PinnedAt(question, results) ==
    FirstPlace({i \in DOMAIN results : results[i].chunk.doc = question.pin})
Opening(question, stored) ==
    LET own == {c \in stored : c.doc = question.pin}
    IN  {c \in own : \A other \in own : c.at <= other.at}

\* Variant: the pinned result keeps the score it was found with.
PinToOldScore(question, results, stored) ==
    LET at == PinnedAt(question, results)
        opening == Opening(question, stored)
    IN  IF at # 0 THEN <<results[at]>> \o Sublist(results, DOMAIN results \ {at})
        ELSE IF opening # {} THEN <<Result(CHOOSE c \in opening : TRUE, 0, 1000)>> \o results
        ELSE results

(* apply_best_bets: the document of the best bet is first, whatever the    *)
(* searches found; it is loaded when they did not.                         *)
PinTo(question, results, stored) ==
    LET score == One + (IF results = <<>> THEN 0 ELSE results[1].score)
        at == PinnedAt(question, results)
        opening == Opening(question, stored)
    IN  IF at # 0
        THEN <<Result(results[at].chunk, score, 1000)>> \o Sublist(results, DOMAIN results \ {at})
        ELSE IF opening # {}
        THEN <<Result(CHOOSE c \in opening : TRUE, score, 1000)>> \o results
        ELSE results

ApplyBestBets(question, results, stored) ==
    Take(PinTo(question, results, stored), TopK)
-----------------------------------------------------------------------------
(* filter_evidence_candidates.                                             *)
Overlap(r, question) == Cardinality(question.words \cap r.chunk.words)

EvidenceMinScore == 350
Accepted(r, question) ==
    r.relevance >= EvidenceMinScore \/ Overlap(r, question) >= 1

(* One candidate per document: it shows the best of its results, and rests *)
(* on all of them, best first.                                             *)
OfDocument(results, doc) == Sublist(results, {i \in DOMAIN results : Document(results[i]) = doc})
Candidate(results, doc, question) ==
    LET found == OfDocument(results, doc)
        own == SortedBy([i \in DOMAIN found |-> <<found[i].score, 0, 0, 0>>], found)
    IN  [display |-> own[1], context |-> own,
         overlap |-> Max({Overlap(own[i], question) : i \in DOMAIN own})]

CandidateKey(c) == <<c.display.score, c.overlap, c.display.chunk.crawled, 0>>

(* The source number of a candidate is its place.                          *)
EvidenceCandidates(question, results) ==
    LET accepted == Sublist(results, {i \in DOMAIN results : Accepted(results[i], question)})
        documents == DedupByDocument(accepted)
        groups == [i \in DOMAIN documents |->
                     Candidate(accepted, Document(documents[i]), question)]
    IN  Take(SortedBy([i \in DOMAIN groups |-> CandidateKey(groups[i])], groups), MaxCandidates)
=============================================================================
