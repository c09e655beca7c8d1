---------------------------- MODULE RetrievalQrel ----------------------------
(***************************************************************************)
(* The relevance tables of the retrieval evaluation: the gate that lets    *)
(* them be published (eval/check_v4_invariants.py) and the metrics that    *)
(* are computed from them and the frozen runs (eval/score_v4.py).          *)
(*                                                                         *)
(* A table is the sequence of the rows of its file, whose fields may hold  *)
(* "other", a text nothing expects.  A run is a function from its          *)
(* questions to what was retrieved, in the order of the ranks.  A number   *)
(* of a table is the set of questions it counts; nDCG, a quotient of two   *)
(* sums over ranks, is left at the gains that are summed.                  *)
(***************************************************************************)
EXTENDS Integers, SequencesExt

CONSTANTS Question, RawUrl, Chunk, Hash,
          Duplicates,    \* Q011 and Q035
          Normalize(_)   \* normalize_url

TopK == 5

PageRow ==
    [question : Question, url : RawUrl, judged : BOOLEAN,
     support : {"full", "partial", "invalid", "other"},
     validity : {"current", "stale", "unknown", "other"},
     audience : {"match", "mismatch", "unknown", "other"}]

EvidenceRow ==
    [question : Question, url : RawUrl, chunk : Chunk, hash : Hash, judged : BOOLEAN,
     grade : {"full", "partial", "", "other"},
     type : {"text_chunk", "page_navigation", "", "other"}]

Priority ==
    [acquisition_failure |-> 0, absent |-> 1, missing_required_claim |-> 1, stale |-> 2,
     audience_mismatch |-> 2, personalized |-> 3, policy_exclusion |-> 4]

Reason == DOMAIN Priority

QuestionRow ==
    [question : Question, support : {"full", "partial", "none", "other"},
     behavior : {"full_answer", "qualified_answer", "abstain", "other"},
     primary : Reason \cup {"", "other"}, secondary : Seq(Reason \cup {"other"}),
     override : {"true", "false", "other"}, sources : SUBSET RawUrl]

Item == [url : RawUrl, chunk : Chunk]

Tables == [pages : Seq(PageRow), evidence : Seq(EvidenceRow), questions : Seq(QuestionRow)]

-----------------------------------------------------------------------------
(* The dictionaries: of the rows under one key, the last is kept.          *)
Latest(places) == CHOOSE n \in places : \A m \in places : m <= n

PagePlaces(pages, q, u) ==
    {n \in DOMAIN pages : pages[n].question = q /\ Normalize(pages[n].url) = u}

PageOf(pages, q, u) == pages[Latest(PagePlaces(pages, q, u))]

EvidencePlaces(evidence, q, c) ==
    {n \in DOMAIN evidence : evidence[n].question = q /\ evidence[n].chunk = c}

EvidenceOf(evidence, q, c) == evidence[Latest(EvidencePlaces(evidence, q, c))]

QuestionPlaces(questions, q) == {n \in DOMAIN questions : questions[n].question = q}

QuestionOf(questions, q) == questions[Latest(QuestionPlaces(questions, q))]

AskedIn(questions) == {questions[n].question : n \in DOMAIN questions}

(* top_k_items.                                                            *)
TopPlaces(items) == {i \in DOMAIN items : i <= TopK}

-----------------------------------------------------------------------------
(* find_invariant_failures: what has to hold for its list to be empty.     *)
UniqueKeys(t) ==
    /\ \A n, m \in DOMAIN t.pages :
           <<t.pages[n].question, t.pages[n].url>> = <<t.pages[m].question, t.pages[m].url>>
           => n = m
    /\ \A n, m \in DOMAIN t.evidence :
           <<t.evidence[n].question, t.evidence[n].chunk>>
             = <<t.evidence[m].question, t.evidence[m].chunk>> => n = m
    /\ \A n, m \in DOMAIN t.questions : t.questions[n].question = t.questions[m].question => n = m

PagesFit(t) ==
    \A n \in DOMAIN t.pages :
        t.pages[n].judged /\ "other" \notin {t.pages[n].support, t.pages[n].validity, t.pages[n].audience}

EvidenceFits(t) ==
    \A n \in DOMAIN t.evidence :
        LET row == t.evidence[n]
        IN  /\ row.judged /\ "other" \notin {row.grade, row.type}
            /\ row.grade = "" <=> row.type = ""
            /\ PagePlaces(t.pages, row.question, Normalize(row.url)) # {}

(* 1 and 2: what the runs retrieved is judged.                             *)
PageJudged(pages, q, u) == PagePlaces(pages, q, u) # {} /\ PageOf(pages, q, u).judged

EvidenceJudged(evidence, q, c) ==
    EvidencePlaces(evidence, q, c) # {} /\ EvidenceOf(evidence, q, c).judged

TopJudged(t, run) ==
    \A q \in DOMAIN run : \A i \in TopPlaces(run[q]) :
        PageJudged(t.pages, q, Normalize(run[q][i].url))
        /\ EvidenceJudged(t.evidence, q, run[q][i].chunk)

(* 3: derive_pool_support, and the override with its sources.              *)
PagesFor(pages, q) == {n \in DOMAIN pages : pages[n].question = q}

PoolSupport(pages, q) ==
    LET grades == {pages[n].support : n \in PagesFor(pages, q)}
    IN  IF "full" \in grades THEN "full" ELSE IF "partial" \in grades THEN "partial" ELSE "none"

SupportIsDerived(t, q) ==
    LET row == QuestionOf(t.questions, q)
    IN  /\ row.support # "other" /\ row.override # "other"
        /\ IF row.override = "true" THEN row.sources # {}
           ELSE row.support = PoolSupport(t.pages, q)

(* 4 and 5: a page and its evidence.                                       *)
EvidenceAt(t, q, u) ==
    {n \in DOMAIN t.evidence : t.evidence[n].question = q /\ Normalize(t.evidence[n].url) = u}

PageHasEvidence(t, q, u) ==
    LET grade == PageOf(t.pages, q, u).support
        positive == {n \in EvidenceAt(t, q, u) : t.evidence[n].grade # ""}
        navigation == {n \in EvidenceAt(t, q, u) : t.evidence[n].type = "page_navigation"}
    IN  /\ grade \in {"full", "partial"} => positive \cup navigation # {}
        /\ grade = "invalid" => positive = {}

(* 6: the chunks of the evidence are those of the database.                *)
EvidenceIsStored(t, stored) ==
    \A n \in DOMAIN t.evidence :
        LET row == t.evidence[n]
        IN  row.grade # "" =>
              /\ row.chunk \in DOMAIN stored
              /\ stored[row.chunk] = [url |-> Normalize(row.url), hash |-> row.hash]

Deployable(page) == page.validity = "current" /\ page.audience = "match"

Usable(t, q, grades) == {n \in PagesFor(t.pages, q) : t.pages[n].support \in grades}

(* 7 to 9 and 11: the behaviour expected of an answer, and its reasons.    *)
Reasons(row) == ({row.primary} \ {""}) \cup ToSet(row.secondary)

BehaviorFits(t, q) ==
    LET row == QuestionOf(t.questions, q)
        full == \E n \in Usable(t, q, {"full"}) : Deployable(t.pages[n])
        any == \E n \in Usable(t, q, {"full", "partial"}) : Deployable(t.pages[n])
        matching == \E n \in Usable(t, q, {"full", "partial"}) : t.pages[n].audience = "match"
    IN  /\ row.behavior # "other"
        /\ row.behavior = "full_answer" => full /\ Reasons(row) = {}
        /\ row.behavior = "abstain" =>
             /\ "stale" \in Reasons(row) => ~any
             /\ "audience_mismatch" \in Reasons(row) => ~matching
             /\ row.primary # ""
             /\ full => "policy_exclusion" \in Reasons(row)

ReasonsFit(t, q) ==
    LET row == QuestionOf(t.questions, q)
    IN  /\ "other" \notin Reasons(row)
        /\ IsInjective(row.secondary) /\ row.primary \notin ToSet(row.secondary)
        /\ row.primary # "" => \A r \in Reasons(row) : Priority[row.primary] <= Priority[r]

Passes(t, runs, stored, expected) ==
    /\ UniqueKeys(t) /\ PagesFit(t) /\ EvidenceFits(t)
    /\ \A run \in runs : TopJudged(t, run)
    /\ \A q \in AskedIn(t.questions) :
           SupportIsDerived(t, q) /\ BehaviorFits(t, q) /\ ReasonsFit(t, q)
    /\ \A n \in DOMAIN t.pages : PageHasEvidence(t, t.pages[n].question, Normalize(t.pages[n].url))
    /\ EvidenceIsStored(t, stored)
    /\ AskedIn(t.questions) = expected
    /\ \A q \in Duplicates : q \in AskedIn(t.questions) /\ PagesFor(t.pages, q) # {}

-----------------------------------------------------------------------------
(* support_gain and deployable_gain.                                       *)
Gain(kind, page) ==
    IF kind = "deployable" /\ ~Deployable(page) THEN 0
    ELSE IF page.support = "full" THEN 2 ELSE IF page.support = "partial" THEN 1 ELSE 0

(* page_gains_at_k: a page gains at the first of its chunks only.          *)
PageGains(kind, pages, q, items) ==
    [i \in TopPlaces(items) |->
        LET u == Normalize(items[i].url)
        IN  IF (\E j \in 1..i - 1 : Normalize(items[j].url) = u) \/ PagePlaces(pages, q, u) = {}
            THEN 0 ELSE Gain(kind, PageOf(pages, q, u))]

(* ideal_page_gains are the TopK highest of these.                         *)
IdealGains(kind, pages, q) == [n \in PagesFor(pages, q) |-> Gain(kind, pages[n])]

(* metric_question_sets: what the metrics have for denominators.           *)
PageQuestions(kind, t, included) ==
    {q \in included : \E n \in PagesFor(t.pages, q) : Gain(kind, t.pages[n]) > 0}

EvidenceQuestions(t, type) ==
    {t.evidence[n].question : n \in {m \in DOMAIN t.evidence : /\ t.evidence[m].type = type
                                                               /\ t.evidence[m].grade \in {"full", "partial"}}}

TextQuestions(t, included) ==
    (EvidenceQuestions(t, "text_chunk") \cap included) \ EvidenceQuestions(t, "page_navigation")

(* score_retrieval_rows: the questions that are hits.  A dictionary is not *)
(* asked for a key it lacks when TopJudged(t, run).                        *)
Included(run, questions) == DOMAIN run \cap questions

PageHits(t, run, questions, grades) ==
    {q \in PageQuestions("support", t, Included(run, questions)) :
        \E i \in TopPlaces(run[q]) : PageOf(t.pages, q, Normalize(run[q][i].url)).support \in grades}

EvidenceHits(t, run, questions, grades) ==
    {q \in TextQuestions(t, Included(run, questions)) :
        \E i \in TopPlaces(run[q]) :
            LET row == EvidenceOf(t.evidence, q, run[q][i].chunk)
            IN  row.type = "text_chunk" /\ row.grade \in grades}

=============================================================================
