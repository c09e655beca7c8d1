-------------------------- MODULE EvaluationProofs --------------------------
(***************************************************************************)
(* The three validators of a judgment agree, the published columns of a    *)
(* row explain each other, and the published tables add up, for every      *)
(* judgment the gate lets through and every number of questions.  The      *)
(* relevance tables the retrieval's gate lets through can be scored, and   *)
(* their scores fit together, for every table and every run.  At the end,  *)
(* what a run of the evaluation may publish and when it is cut, for every  *)
(* number of rounds, questions, attempts and versions, and the pacing of   *)
(* its calls to the providers, for every interval and every schedule of    *)
(* delays, failures and Retry-After headers.                               *)
(***************************************************************************)
EXTENDS Exp07Run, Exp07Judgments, Exp07Tables, Exp07Sheets, RetrievalQrel,
        FiniteSetTheorems, SequenceTheorems, TLAPS

\* The clock and the calls of one provider.
CONSTANT Interval
VARIABLES now, pc, nextStart, wake, lastStart, askedUntil
Pacing == INSTANCE CallPacing

(* The reveal sheet applies exactly what the Python gate accepts.          *)
LEMMA RevealAgrees ==
    ASSUME NEW behavior \in Behaviors, NEW axes \in Axes, NEW notice \in Notices
    PROVE  ProposalAccepts(behavior, notice, axes) <=> ValidJudgment(behavior, notice, axes)
  BY DEF ProposalAccepts, ValidJudgment, ValidStageOne, Behaviors, Notices, PureAbstention, Triad

(* No select is empty once every axis has one of its values.               *)
LEMMA NoAxisIsBlank ==
    ASSUME NEW axes \in Axes
    PROVE  \A axis \in DOMAIN axes : axes[axis] # ""
  BY DEF Axes, Accuracies, Supports, Displays, Times, Audiences, Privacies

(* The blind sheet locks exactly what the gate accepts once the blank      *)
(* notice is repaired.                                                     *)
LEMMA BlindSheetAgrees ==
    ASSUME NEW behavior \in Behaviors, NEW axes \in Axes, NEW notice \in {"", "clear", "missing"}
    PROVE  StageOneAccepts(behavior, notice) /\ StageTwoAccepts(behavior, axes)
           <=> /\ behavior = "abstain" => notice # ""
               /\ ValidJudgment(behavior, CanonicalNotice(behavior, NoticeLocked(behavior, notice)), axes)
  BY NoAxisIsBlank
     DEF StageOneAccepts, StageTwoAccepts, ValidJudgment, ValidStageOne, CanonicalNotice,
         NoticeLocked, Behaviors, Notices, PureAbstention, Triad

(* The JavaScript of both sheets and the Python gate agree on every        *)
(* judgment (validateStageOne, validateStageTwo, proposalError,            *)
(* validate_judgment).                                                     *)
THEOREM ValidatorsAlwaysAgree == ValidatorsAgree
  BY RevealAgrees, BlindSheetAgrees DEF ValidatorsAgree

(* An error of behaviour is one of its own opportunities.                  *)
LEMMA ErrorIsAnOpportunity ==
    ASSUME NEW expected \in Behaviors, NEW behavior \in Behaviors,
           BehaviorError(expected, behavior) # "none"
    PROVE  expected \in Opportunities(BehaviorError(expected, behavior))
  BY DEF BehaviorError, Opportunities, Behaviors

(* A valid judgment succeeds exactly when no column shows a failure.       *)
LEMMA SuccessIsExplained ==
    ASSUME NEW expected \in Behaviors, NEW behavior \in Behaviors,
           NEW notice \in Notices, NEW axes \in Axes,
           ValidJudgment(behavior, notice, axes)
    PROVE  StrictSuccess(expected, behavior, notice, axes)
           <=> /\ BehaviorError(expected, behavior) = "none" /\ notice # "missing"
               /\ axes.accuracy \in {"fully_correct", "not_applicable"}
               /\ GroundingPass(axes) /\ DeploymentPass(axes)
  BY DEF StrictSuccess, BehaviorError, GroundingPass, DeploymentPass, ValidJudgment,
         ValidStageOne, Behaviors, Notices, PureAbstention, Triad

(* The columns of the published table explain each other for every         *)
(* judgment the gate accepts (behavior_error, strict_success).             *)
THEOREM ColumnsAlwaysAgree == ColumnsAgree
  BY ErrorIsAnOpportunity, SuccessIsExplained DEF ColumnsAgree
-----------------------------------------------------------------------------
(* What a row says of its question, whichever kind of row it is.           *)
LEMMA RowFacts ==
    ASSUME NEW row \in Rows
    PROVE  /\ row.expected \in Behaviors
           /\ row.status = "success" => row.error \in Errors \cup {"none"}
           /\ row.status # "success" => row.error = "system_error" /\ ~row.success
           /\ row.error \in Errors => row.status = "success" /\ row.expected \in Opportunities(row.error)
           /\ row.success => row.error = "none" /\ row.deployment /\ row.grounding
  <1>1. CASE \E expected \in Behaviors : row = Unanswered(expected)
    BY <1>1 DEF Unanswered, Errors
  <1>2. ASSUME NEW expected \in Behaviors, NEW j \in Judgments, row = Answered(expected, j)
        PROVE  /\ row.expected \in Behaviors
               /\ row.status = "success" => row.error \in Errors \cup {"none"}
               /\ row.status # "success" => row.error = "system_error" /\ ~row.success
               /\ row.error \in Errors => row.status = "success" /\ row.expected \in Opportunities(row.error)
               /\ row.success => row.error = "none" /\ row.deployment /\ row.grounding
    <2>1. j.behavior \in Behaviors /\ j.notice \in Notices /\ j.axes \in Axes
          /\ ValidJudgment(j.behavior, j.notice, j.axes)
      BY DEF Judgments
    <2>2. BehaviorError(expected, j.behavior) \in Errors \cup {"none"}
      BY DEF BehaviorError, Errors
    <2>3. BehaviorError(expected, j.behavior) # "none"
          => expected \in Opportunities(BehaviorError(expected, j.behavior))
      BY <2>1, ErrorIsAnOpportunity
    <2>4. StrictSuccess(expected, j.behavior, j.notice, j.axes)
          => /\ BehaviorError(expected, j.behavior) = "none"
             /\ DeploymentPass(j.axes) /\ GroundingPass(j.axes)
      BY <2>1, SuccessIsExplained
    <2> QED BY <1>2, <2>2, <2>3, <2>4 DEF Answered, Errors
  <1> QED BY <1>1, <1>2 DEF Rows

(* Counting an error only among its opportunities loses none of them: the  *)
(* three counts are all the errors of behaviour there are                  *)
(* (aggregate_primary, error_metric).                                      *)
THEOREM NoErrorIsLost ==
    ASSUME NEW Q, NEW table \in [Q -> Rows], NEW error \in Errors
    PROVE  Counted(table, error) = {q \in Q : table[q].error = error}
  <1> SUFFICES ASSUME NEW q \in Q, table[q].error = error
               PROVE  q \in Denominator(table, error)
    BY DEF Counted, Denominator, Normal
  <1> QED BY RowFacts DEF Denominator, Normal, Asked

(* The questions an error is possible on are those of its denominator and  *)
(* the exclusions published beside it (system_error_exclusions).           *)
THEOREM DenominatorsAddUp ==
    ASSUME NEW Q, IsFiniteSet(Q), NEW table \in [Q -> Rows], NEW error \in Errors
    PROVE  Cardinality(Denominator(table, error)) + Cardinality(Excluded(table, error))
           = Cardinality(Asked(table, Opportunities(error)))
  <1> DEFINE D == Denominator(table, error)
             E == Excluded(table, error)
  <1>1. IsFiniteSet(D) /\ IsFiniteSet(E)
    BY FS_Subset DEF Denominator, Excluded, Normal, Asked
  <1>2. D \cup E = Asked(table, Opportunities(error)) /\ D \cap E = {}
    BY DEF Denominator, Excluded, Normal, Asked
  <1>3. Cardinality(D \cup E) = Cardinality(D) + Cardinality(E) - Cardinality(D \cap E)
    BY <1>1, FS_Union
  <1>4. Cardinality(D) \in Nat /\ Cardinality(E) \in Nat /\ Cardinality({}) = 0
    BY <1>1, FS_CardinalityType, FS_EmptySet
  <1> HIDE DEF D, E
  <1>5. Cardinality(D \cap E) = 0
    BY <1>2, <1>4
  <1>6. Cardinality(D \cup E) = Cardinality(D) + Cardinality(E)
    BY <1>3, <1>4, <1>5
  <1>7. Cardinality(D) + Cardinality(E) = Cardinality(Asked(table, Opportunities(error)))
    BY <1>2, <1>6
  <1> QED BY <1>7 DEF D, E

(* Each question is counted once: as a success, as one kind of error, as a *)
(* system error, or as an answer of the right behaviour that another axis  *)
(* fails (end_to_end_success, behavior_error).                             *)
THEOREM EachQuestionCountsOnce ==
    ASSUME NEW Q, NEW table \in [Q -> Rows]
    PROVE  /\ \A error \in Errors :
                  /\ Successes(table) \cap Counted(table, error) = {}
                  /\ \A other \in Errors \ {error} :
                         Counted(table, error) \cap Counted(table, other) = {}
           /\ Successes(table) \subseteq Normal(table)
           /\ \A q \in Normal(table) : \/ table[q].error = "none"
                                       \/ \E error \in Errors : q \in Counted(table, error)
  <1>1. \A q \in Q : table[q] \in Rows
    OBVIOUS
  <1>2. ASSUME NEW error \in Errors
        PROVE  /\ Successes(table) \cap Counted(table, error) = {}
               /\ \A other \in Errors \ {error} :
                      Counted(table, error) \cap Counted(table, other) = {}
    BY <1>1, RowFacts DEF Successes, Counted, Denominator, Normal, Errors
  <1>3. Successes(table) \subseteq Normal(table)
    BY <1>1, RowFacts DEF Successes, Normal
  <1>4. ASSUME NEW q \in Normal(table), table[q].error # "none"
        PROVE  \E error \in Errors : q \in Counted(table, error)
    <2>1. q \in Q /\ table[q].error \in Errors
      BY <1>1, <1>4, RowFacts DEF Normal
    <2> QED BY <2>1, NoErrorIsLost
  <1> QED BY <1>2, <1>3, <1>4

(* A question that answers alike in all three rounds was answered in all   *)
(* of them: a system error never counts as agreement                       *)
(* (structured_repeat_summary).                                            *)
THEOREM AgreementNeedsAnswers ==
    ASSUME NEW Q, NEW rounds \in [Q -> RoundAnswers]
    PROVE  \A q \in Stable(rounds) : ~HasSystemError(rounds[q])
  BY DEF Stable, ThreeOfThree, HasSystemError

(* A success has no failing axis, and an answer of the right behaviour     *)
(* that fails has one, unless it is an abstention.                         *)
LEMMA AxesExplain ==
    ASSUME NEW row \in Rows, row.status = "success"
    PROVE  /\ DOMAIN row.axes = DOMAIN Blank
           /\ row.success => \A axis \in DOMAIN Blank : row.axes[axis] \in Passing[axis]
           /\ ~row.success /\ row.error = "none" /\ row.expected # "abstain"
              => \E axis \in DOMAIN Blank : row.axes[axis] \notin Passing[axis]
  <1>1. PICK expected \in Behaviors, j \in Judgments : row = Answered(expected, j)
    BY DEF Rows, Unanswered
  <1>2. j.behavior \in Behaviors /\ j.notice \in Notices /\ j.axes \in Axes
        /\ ValidJudgment(j.behavior, j.notice, j.axes)
    BY DEF Judgments
  <1>3. DOMAIN j.axes = DOMAIN Blank
    BY <1>2 DEF Axes, Blank
  <1>4. row.success <=> /\ row.error = "none" /\ j.notice # "missing"
                        /\ j.axes.accuracy \in {"fully_correct", "not_applicable"}
                        /\ GroundingPass(j.axes) /\ DeploymentPass(j.axes)
    BY <1>1, <1>2, SuccessIsExplained DEF Answered
  <1>5. row.error = "none" /\ row.expected # "abstain" => j.notice # "missing"
    BY <1>1, <1>2 DEF Answered, BehaviorError, ValidJudgment, ValidStageOne
  <1>6. (\A axis \in DOMAIN Blank : j.axes[axis] \in Passing[axis])
        <=> /\ j.axes.accuracy \in {"fully_correct", "not_applicable"}
            /\ GroundingPass(j.axes) /\ DeploymentPass(j.axes)
    BY DEF Blank, Passing, GroundingPass, DeploymentPass
  <1>7. row.axes = j.axes
    BY <1>1 DEF Answered
  <1> QED BY <1>1, <1>3, <1>4, <1>5, <1>6, <1>7 DEF Answered

(* The failures of the CSV file explain the success rate beside them: no   *)
(* success is counted by a line that tells of a failure, and every other   *)
(* question that should be answered is.  A failed abstention need not be,  *)
(* for the notice it lacks is on no line (aggregate_csv_rows,              *)
(* strict_success).                                                        *)
THEOREM LinesExplainSuccess ==
    ASSUME NEW Q, NEW table \in [Q -> Rows], NEW rounds, NEW q \in Q
    PROVE  /\ q \in Successes(table) =>
                  \A line \in CsvRows(table, rounds) : Failing(line) => q \notin line.count
           /\ q \notin Successes(table) /\ table[q].expected # "abstain" =>
                  \E line \in CsvRows(table, rounds) : Failing(line) /\ q \in line.count
  <1>1. table[q] \in Rows
    OBVIOUS
  <1>2. ASSUME q \in Successes(table), NEW line \in CsvRows(table, rounds), Failing(line)
        PROVE  q \notin line.count
    <2>1. table[q].success /\ table[q].status = "success" /\ table[q].error = "none"
      BY <1>1, <1>2, RowFacts DEF Successes
    <2>2. CASE line = Line("system_error", "all", DOMAIN table \ Normal(table), DOMAIN table)
      BY <2>1, <2>2 DEF Line, Normal
    <2>3. CASE \E error \in Errors :
                   line = Line(error, "opportunity_set", Counted(table, error), Denominator(table, error))
      BY <2>1, <2>3 DEF Line, Counted, Errors
    <2>4. CASE \E axis \in DOMAIN Blank : \E value \in Found(table, axis) :
                   line = Line(axis, value, With(table, axis, value), Normal(table))
      <3>0. PICK axis \in DOMAIN Blank : \E value \in Found(table, axis) :
                line = Line(axis, value, With(table, axis, value), Normal(table))
        BY <2>4
      <3>1. PICK value \in Found(table, axis) :
                line = Line(axis, value, With(table, axis, value), Normal(table))
        BY <3>0
      <3>2. value \notin Passing[axis]
        BY <1>2, <3>1 DEF Failing, Line, Errors, Blank
      <3>3. table[q].axes[axis] \in Passing[axis]
        BY <1>1, <2>1, AxesExplain
      <3> QED BY <3>1, <3>2, <3>3 DEF Line, With
    <2>5. CASE line.metric \in {"end_to_end_success", "repeat_agreement"}
      BY <1>2, <2>5 DEF Failing, Errors, Blank
    <2>6. \/ line = Line("end_to_end_success", "all", Successes(table), DOMAIN table)
          \/ line = Line("system_error", "all", DOMAIN table \ Normal(table), DOMAIN table)
          \/ line = Line("repeat_agreement", "all", Stable(rounds), DOMAIN rounds)
          \/ \E behavior \in Behaviors :
                 line = Line("end_to_end_success", behavior,
                             Successes(table) \cap Asked(table, {behavior}), Asked(table, {behavior}))
          \/ \E error \in Errors :
                 line = Line(error, "opportunity_set", Counted(table, error), Denominator(table, error))
          \/ \E axis \in DOMAIN Blank : \E value \in Found(table, axis) :
                 line = Line(axis, value, With(table, axis, value), Normal(table))
      BY ZenonT(30) DEF CsvRows
    <2>7. CASE line.metric \notin {"end_to_end_success", "repeat_agreement"}
      <3>1. \A group, count, denominator :
                /\ line # Line("end_to_end_success", group, count, denominator)
                /\ line # Line("repeat_agreement", group, count, denominator)
        BY <2>7 DEF Line
      <3> QED BY <2>2, <2>3, <2>4, <2>6, <3>1, Zenon
    <2> QED BY <2>5, <2>7
  <1>3. ASSUME q \notin Successes(table), table[q].expected # "abstain"
        PROVE  \E line \in CsvRows(table, rounds) : Failing(line) /\ q \in line.count
    <2>1. CASE table[q].status # "success"
      <3> DEFINE line == Line("system_error", "all", DOMAIN table \ Normal(table), DOMAIN table)
      <3>1. line \in CsvRows(table, rounds)
        BY DEF CsvRows
      <3>2. Failing(line) /\ q \in line.count
        BY <2>1 DEF Line, Failing, Normal
      <3> QED BY <3>1, <3>2
    <2>2. CASE table[q].status = "success" /\ table[q].error # "none"
      <3>1. table[q].error \in Errors
        BY <1>1, <2>2, RowFacts
      <3> DEFINE error == table[q].error
                 line == Line(error, "opportunity_set", Counted(table, error), Denominator(table, error))
      <3>2. line \in CsvRows(table, rounds)
        BY <3>1 DEF CsvRows
      <3>3. q \in Counted(table, error)
        BY <3>1, NoErrorIsLost
      <3> QED BY <3>1, <3>2, <3>3 DEF Line, Failing
    <2>3. CASE table[q].status = "success" /\ table[q].error = "none"
      <3>1. ~table[q].success
        BY <1>3 DEF Successes
      <3>2. PICK axis \in DOMAIN Blank : table[q].axes[axis] \notin Passing[axis]
        BY <1>1, <1>3, <2>3, <3>1, AxesExplain
      <3> DEFINE value == table[q].axes[axis]
                 line == Line(axis, value, With(table, axis, value), Normal(table))
      <3>3. value \in Found(table, axis) /\ q \in With(table, axis, value)
        BY <2>3 DEF Found, With, Normal
      <3>4. line \in CsvRows(table, rounds)
        BY <3>3 DEF CsvRows
      <3> QED BY <3>2, <3>3, <3>4 DEF Line, Failing
    <2> QED BY <2>1, <2>2, <2>3
  <1> QED BY <1>2, <1>3
-----------------------------------------------------------------------------
\* Of the rows under a key there is a last one.
LEMMA LatestIsOne ==
    ASSUME NEW k \in Nat, NEW places \in SUBSET (1..k), places # {}
    PROVE  Latest(places) \in places
  <1> DEFINE R == OpToRel(<, Nat)
             T == {k - n : n \in places}
  <1>0. \A n \in places : n \in Nat /\ k - n \in Nat
    OBVIOUS
  <1>1. T \subseteq Nat /\ T # {}
    BY <1>0
  <1>2. PICK t \in T : \A u \in T : <<u, t>> \notin R
    <2> HIDE DEF R, T
    <2>1. IsWellFoundedOn(R, Nat)
      BY NatLessThanWellFounded DEF R
    <2> QED
      BY <1>1, <2>1, WFMin
  <1>3. PICK n \in places : t = k - n
    OBVIOUS
  <1>4. ASSUME NEW m \in places PROVE m <= n
    <2>1. <<k - m, k - n>> \notin R
      BY <1>2, <1>3
    <2>2. k - m \in Nat /\ k - n \in Nat /\ m \in Nat /\ n \in Nat
      OBVIOUS
    <2>3. ~(k - m < k - n)
      BY <2>1, <2>2 DEF OpToRel
    <2> QED
      BY <2>2, <2>3
  <1>5. \E z \in places : \A m \in places : m <= z
    BY <1>4
  <1> QED
    BY <1>5 DEF Latest

\* The page row that is kept under a key is a row of that page.
LEMMA PageOfIsPage ==
    ASSUME NEW pages \in Seq(PageRow), NEW q, NEW u, PagePlaces(pages, q, u) # {}
    PROVE  /\ Latest(PagePlaces(pages, q, u)) \in PagePlaces(pages, q, u)
           /\ PagePlaces(pages, q, u) \subseteq PagesFor(pages, q)
           /\ PageOf(pages, q, u) = pages[Latest(PagePlaces(pages, q, u))]
           /\ PageOf(pages, q, u) \in PageRow
  <1>1. DOMAIN pages = 1..Len(pages) /\ Len(pages) \in Nat
    BY LenProperties
  <1>2. PagePlaces(pages, q, u) \in SUBSET (1..Len(pages))
    BY <1>1 DEF PagePlaces
  <1>3. Latest(PagePlaces(pages, q, u)) \in PagePlaces(pages, q, u)
    BY <1>1, <1>2, LatestIsOne
  <1>4. pages[Latest(PagePlaces(pages, q, u))] \in PageRow
    BY <1>1, <1>2, <1>3
  <1> QED
    BY <1>3, <1>4 DEF PageOf, PagePlaces, PagesFor

\* And so is the evidence row.
LEMMA EvidenceOfIsEvidence ==
    ASSUME NEW evidence \in Seq(EvidenceRow), NEW q, NEW c, EvidencePlaces(evidence, q, c) # {}
    PROVE  \E n \in EvidencePlaces(evidence, q, c) : EvidenceOf(evidence, q, c) = evidence[n]
  <1>1. DOMAIN evidence = 1..Len(evidence) /\ Len(evidence) \in Nat
    BY LenProperties
  <1>2. EvidencePlaces(evidence, q, c) \in SUBSET (1..Len(evidence))
    BY <1>1 DEF EvidencePlaces
  <1>3. Latest(EvidencePlaces(evidence, q, c)) \in EvidencePlaces(evidence, q, c)
    BY <1>1, <1>2, LatestIsOne
  <1> QED
    BY <1>3 DEF EvidenceOf

\* Behind every positive evidence row of a published table stands a page with
\* support: its row exists, and the row that is kept for it is not invalid.
LEMMA EvidenceHasItsPage ==
    ASSUME NEW t \in Tables, NEW runs, NEW kept, NEW expected,
           Passes(t, runs, kept, expected),
           NEW n \in DOMAIN t.evidence, t.evidence[n].grade \in {"full", "partial"}
    PROVE  LET q == t.evidence[n].question
               u == Normalize(t.evidence[n].url)
           IN  PagePlaces(t.pages, q, u) # {} /\ PageOf(t.pages, q, u).support \in {"full", "partial"}
  <1> DEFINE q == t.evidence[n].question
             u == Normalize(t.evidence[n].url)
             place == Latest(PagePlaces(t.pages, q, u))
  <1>1. t.pages \in Seq(PageRow) /\ t.evidence \in Seq(EvidenceRow)
    BY DEF Tables
  <1>2. PagePlaces(t.pages, q, u) # {}
    BY DEF Passes, EvidenceFits
  <1> HIDE DEF q, u
  <1>3. /\ place \in PagePlaces(t.pages, q, u) /\ PageOf(t.pages, q, u) = t.pages[place]
        /\ PageOf(t.pages, q, u) \in PageRow
    BY <1>1, <1>2, PageOfIsPage
  <1>4. /\ place \in DOMAIN t.pages /\ t.pages[place].question = q
        /\ Normalize(t.pages[place].url) = u
    BY <1>3 DEF PagePlaces
  <1>5. PageHasEvidence(t, q, u) /\ t.pages[place].support # "other"
    BY <1>4 DEF Passes, PagesFit
  <1>6. n \in EvidenceAt(t, q, u)
    BY DEF EvidenceAt, q, u
  <1>7. PageOf(t.pages, q, u).support # "invalid"
    BY <1>5, <1>6 DEF PageHasEvidence
  <1>8. PageOf(t.pages, q, u).support \in {"full", "partial"}
    BY <1>3, <1>5, <1>7 DEF PageRow
  <1> QED
    BY <1>2, <1>8 DEF q, u

\* Every question with a text denominator is in the page denominator too: the
\* published metrics are over nested sets of questions, although the scorer
\* takes them from two tables that only the gate compares
\* (find_invariant_failures, metric_question_sets).
THEOREM TextQuestionsAreSupported ==
    ASSUME NEW t \in Tables, NEW runs, NEW kept, NEW expected, NEW included,
           Passes(t, runs, kept, expected)
    PROVE  TextQuestions(t, included) \subseteq PageQuestions("support", t, included)
  <1> SUFFICES ASSUME NEW q \in TextQuestions(t, included)
               PROVE  q \in PageQuestions("support", t, included)
    OBVIOUS
  <1>1. PICK n \in DOMAIN t.evidence :
          t.evidence[n].question = q /\ t.evidence[n].grade \in {"full", "partial"}
    BY DEF TextQuestions, EvidenceQuestions
  <1> DEFINE u == Normalize(t.evidence[n].url)
  <1>2. PagePlaces(t.pages, q, u) # {} /\ PageOf(t.pages, q, u).support \in {"full", "partial"}
    BY <1>1, EvidenceHasItsPage
  <1> HIDE DEF u
  <1>3. \E m \in PagesFor(t.pages, q) : t.pages[m].support \in {"full", "partial"}
    BY <1>2, PageOfIsPage DEF Tables
  <1>4. \E m \in PagesFor(t.pages, q) : Gain("support", t.pages[m]) > 0
    BY <1>3 DEF Gain
  <1> QED
    BY <1>4 DEF PageQuestions, TextQuestions

\* A hit on the evidence is a hit on a page: no run can score higher on the
\* text it found than on the pages the text is from, as long as it lists a
\* chunk under the page the database has it on (score_retrieval_rows).
THEOREM EvidenceHitsArePageHits ==
    ASSUME NEW t \in Tables, NEW runs, NEW kept, NEW expected, NEW questions,
           Passes(t, runs, kept, expected),
           NEW run \in runs, NEW grades \in SUBSET {"full", "partial"},
           \A q \in DOMAIN run : \A i \in DOMAIN run[q] :
               run[q][i].chunk \in DOMAIN kept =>
                   kept[run[q][i].chunk].url = Normalize(run[q][i].url)
    PROVE  EvidenceHits(t, run, questions, grades)
             \subseteq PageHits(t, run, questions, {"full", "partial"})
  <1> SUFFICES ASSUME NEW q \in EvidenceHits(t, run, questions, grades)
               PROVE  q \in PageHits(t, run, questions, {"full", "partial"})
    OBVIOUS
  <1>1. q \in DOMAIN run /\ q \in PageQuestions("support", t, Included(run, questions))
    BY TextQuestionsAreSupported DEF EvidenceHits, TextQuestions, Included
  <1>2. PICK i \in TopPlaces(run[q]) :
          LET row == EvidenceOf(t.evidence, q, run[q][i].chunk)
          IN  row.type = "text_chunk" /\ row.grade \in grades
    BY DEF EvidenceHits
  <1> DEFINE c == run[q][i].chunk
             u == Normalize(run[q][i].url)
  <1>3. EvidencePlaces(t.evidence, q, c) # {}
    BY <1>1 DEF Passes, TopJudged, EvidenceJudged
  <1>4. PICK n \in EvidencePlaces(t.evidence, q, c) : EvidenceOf(t.evidence, q, c) = t.evidence[n]
    BY <1>3, EvidenceOfIsEvidence DEF Tables
  <1>5. /\ n \in DOMAIN t.evidence /\ t.evidence[n].question = q /\ t.evidence[n].chunk = c
        /\ t.evidence[n].grade \in {"full", "partial"}
    BY <1>2, <1>4 DEF EvidencePlaces
  <1>6. Normalize(t.evidence[n].url) = u
    <2> DEFINE e == t.evidence[n]
    <2>0. e.grade # "" => /\ e.chunk \in DOMAIN kept
                          /\ kept[e.chunk] = [url |-> Normalize(e.url), hash |-> e.hash]
      BY <1>5 DEF Passes, EvidenceIsStored
    <2>1. c \in DOMAIN kept /\ kept[c].url = Normalize(e.url)
      <3>1. e.grade # "" /\ e.chunk = c
        BY <1>5
      <3> HIDE DEF c, e
      <3>2. c \in DOMAIN kept /\ kept[c] = [url |-> Normalize(e.url), hash |-> e.hash]
        BY <2>0, <3>1
      <3> QED
        BY <3>2
    <2>2. i \in DOMAIN run[q]
      BY DEF TopPlaces
    <2> QED
      BY <1>1, <2>1, <2>2
  <1>7. PageOf(t.pages, q, u).support \in {"full", "partial"}
    BY <1>5, <1>6, EvidenceHasItsPage
  <1> QED
    BY <1>1, <1>7 DEF PageHits

\* What is expected of an answer fits what the scores count: a question that
\* must be answered in full has a page to deploy, one that must be refused
\* because its pages are stale has none, and the support of its pool is that
\* of its pages unless it is overridden (find_invariant_failures 3, 7, 8, 11).
THEOREM BehaviorFitsTheScores ==
    ASSUME NEW t \in Tables, NEW runs, NEW kept, NEW expected,
           Passes(t, runs, kept, expected), NEW q \in expected
    PROVE  LET row == QuestionOf(t.questions, q)
           IN  /\ row.behavior = "full_answer" => q \in PageQuestions("deployable", t, {q})
               /\ row.behavior = "abstain" /\ "stale" \in Reasons(row) =>
                    q \notin PageQuestions("deployable", t, {q})
               /\ row.behavior = "abstain" /\ "policy_exclusion" \notin Reasons(row) =>
                    \A n \in PagesFor(t.pages, q) : Gain("deployable", t.pages[n]) < 2
               /\ row.override # "true" =>
                    (row.support # "none" <=> q \in PageQuestions("support", t, {q}))
  <1> DEFINE row == QuestionOf(t.questions, q)
  <1>1. q \in AskedIn(t.questions)
    BY DEF Passes
  <1>2. BehaviorFits(t, q) /\ SupportIsDerived(t, q)
    BY <1>1 DEF Passes
  <1>3. \A n : /\ Gain("deployable", t.pages[n]) > 0 <=>
                    Deployable(t.pages[n]) /\ t.pages[n].support \in {"full", "partial"}
               /\ Gain("support", t.pages[n]) > 0 <=> t.pages[n].support \in {"full", "partial"}
               /\ ~(Deployable(t.pages[n]) /\ t.pages[n].support = "full") =>
                    Gain("deployable", t.pages[n]) < 2
    BY DEF Gain
  <1>4. /\ q \in PageQuestions("deployable", t, {q}) <=>
             \E n \in Usable(t, q, {"full", "partial"}) : Deployable(t.pages[n])
        /\ q \in PageQuestions("support", t, {q}) <=> Usable(t, q, {"full", "partial"}) # {}
    BY <1>3 DEF PageQuestions, Usable
  <1>5. row.behavior = "full_answer" => q \in PageQuestions("deployable", t, {q})
    BY <1>2, <1>4 DEF BehaviorFits, Usable
  <1>6. row.behavior = "abstain" /\ "stale" \in Reasons(row) =>
          q \notin PageQuestions("deployable", t, {q})
    BY <1>2, <1>4 DEF BehaviorFits
  <1>7. row.behavior = "abstain" /\ "policy_exclusion" \notin Reasons(row) =>
          \A n \in PagesFor(t.pages, q) : Gain("deployable", t.pages[n]) < 2
    BY <1>2, <1>3 DEF BehaviorFits, Usable
  <1>8. row.override # "true" =>
          (row.support # "none" <=> q \in PageQuestions("support", t, {q}))
    BY <1>2, <1>4 DEF SupportIsDerived, PoolSupport, Usable
  <1> QED
    BY <1>5, <1>6, <1>7, <1>8

\* A retrieval never gains more than the ideal order: for both gains, no more
\* of its ranks reach a gain than pages of the question do, however often a
\* page is retrieved and however its address is written.  As the gains of the
\* ideal order are the highest and come first, no nDCG exceeds one
\* (page_gains_at_k, ideal_page_gains).
THEOREM GainsAreWithinTheIdeal ==
    ASSUME NEW pages \in Seq(PageRow), NEW q \in Question, NEW items \in Seq(Item),
           NEW kind \in {"support", "deployable"}, NEW least \in {1, 2}
    PROVE  Cardinality({i \in TopPlaces(items) : PageGains(kind, pages, q, items)[i] >= least})
             <= Cardinality({n \in PagesFor(pages, q) : IdealGains(kind, pages, q)[n] >= least})
  <1> DEFINE S == {i \in TopPlaces(items) : PageGains(kind, pages, q, items)[i] >= least}
             T == {n \in PagesFor(pages, q) : IdealGains(kind, pages, q)[n] >= least}
             u(i) == Normalize(items[i].url)
             f == [i \in S |-> Latest(PagePlaces(pages, q, u(i)))]
  <1>1. ASSUME NEW i \in S
        PROVE  /\ \A j \in 1..i - 1 : u(j) # u(i)
               /\ PagePlaces(pages, q, u(i)) # {}
               /\ Gain(kind, PageOf(pages, q, u(i))) >= least
    BY DEF PageGains
  <1>2. ASSUME NEW i \in S
        PROVE  f[i] \in T /\ Normalize(pages[f[i]].url) = u(i)
    <2> DEFINE place == Latest(PagePlaces(pages, q, u(i)))
    <2>1. /\ place \in PagePlaces(pages, q, u(i)) /\ place \in PagesFor(pages, q)
          /\ PageOf(pages, q, u(i)) = pages[place]
      BY <1>1, PageOfIsPage
    <2>2. f[i] = place
      OBVIOUS
    <2> HIDE DEF place, f
    <2>3. IdealGains(kind, pages, q)[place] >= least
      BY <1>1, <2>1 DEF IdealGains
    <2> QED
      BY <2>1, <2>2, <2>3 DEF PagePlaces
  <1>3. S \subseteq Nat
    BY LenProperties DEF TopPlaces
  <1>4. f \in Injection(S, T)
    <2>1. f \in [S -> T]
      BY <1>2
    <2>2. ASSUME NEW i \in S, NEW j \in S, f[i] = f[j]
          PROVE  i = j
      <3>1. u(i) = u(j)
        BY <1>2, <2>2
      <3>2. i \in Nat /\ j \in Nat /\ i > 0 /\ j > 0
        BY <1>3, LenProperties DEF TopPlaces
      <3> HIDE DEF f, S, u
      <3>3. ~(i < j) /\ ~(j < i)
        BY <1>1, <3>1, <3>2
      <3> QED
        BY <3>2, <3>3
    <2> HIDE DEF f, S, T
    <2>3. DOMAIN f = S
      BY <2>1
    <2> QED
      BY <2>1, <2>2, <2>3 DEF Injection, IsInjective
  <1>5. IsFiniteSet(T)
    <2>1. Len(pages) \in Nat /\ DOMAIN pages = 1..Len(pages)
      BY LenProperties
    <2>2. T \subseteq 1..Len(pages)
      BY <2>1 DEF PagesFor
    <2> HIDE DEF T
    <2>3. IsFiniteSet(1..Len(pages))
      BY <2>1, FS_Interval
    <2> QED
      BY <2>2, <2>3, FS_Subset
  <1> HIDE DEF f, S, T
  <1>6. Cardinality(S) <= Cardinality(T)
    BY <1>4, <1>5, FS_Injection
  <1> QED
    BY <1>6 DEF S, T
-----------------------------------------------------------------------------
(* The judgment's way through the sheets to the published files.           *)

\* Rows of the blind sheet, judgments, rows and files of the reveal sheet;
\* an empty string is a select without a choice.
Cards == [behavior : Behaviors \cup {""}, notice : Notices \cup {""},
          axes : Axes \cup {Blank}, hold : BOOLEAN, heldAxes : BOOLEAN,
          locked1 : Nat, locked2 : Nat]
Verdicts == [behavior : Behaviors \cup {""}, notice : Notices \cup {""},
             axes : Axes \cup {Blank}]
Revisions == [old : Verdicts, new : Verdicts]
RevealRows == [judged : Verdicts, history : Seq(Revisions),
               review : {"", "safe_public_or_nonpersonal", "no_sensitive_pattern"}]
Sources == [primary : Cards, row : RevealRows]

BlindTyped == card \in Cards /\ clock \in Nat /\ files \subseteq Cards

\* While nothing is imported before the freeze there is one lock, and what
\* it locked is what every file with a lock says.
BlindHistory ==
    ~importedEarly =>
        /\ snapshot = None =>
               /\ card.locked1 # 0 => firstShown = card.behavior /\ firstShown # ""
               /\ card.locked1 = 0 => firstShown = ""
               /\ \A row \in files : row.locked1 # 0 =>
                      row.behavior = firstShown /\ firstShown # ""
        /\ snapshot # None => snapshot.behavior = firstShown /\ firstShown # ""

\* A reveal sheet is made of a row that agrees with the snapshot.
PageIsOfTheSnapshot ==
    page # None => snapshot # None /\ page.primary.behavior = snapshot.behavior

Blind == BlindTyped /\ BlindHistory /\ PageIsOfTheSnapshot

\* A row of the reveal sheet is a locked row of some export and its revisions.
Told(row, exports) ==
    /\ row \in RevealRows
    /\ Chained(row)
    /\ \E export \in exports :
           export.locked2 # 0 /\ Origin(row) = Judged(Canonical(export))

\* So is the row of the page, of the tab, of localStorage and of the file.
Story ==
    /\ page # None => page.primary \in Cards /\ Told(RowOf(page), files)
    /\ shown # None => shown \in Sources /\ Told(shown.row, files)
    /\ stored # None => Told(stored, files)
    /\ adjudicated # None => adjudicated \in Sources /\ Told(adjudicated.row, files)

\* The outputs still to be written are the last of the order, of one source;
\* the ones before them are on disk, of that source, until the last is written.
Outputs == {"responses", "judgments", "results", "csv"}

PlanKept ==
    /\ publishing \in Seq([output : Outputs, from : Sources])
    /\ Len(publishing) <= 4
    /\ \A i \in 1..Len(publishing) :
           /\ publishing[i].output = WriteOrder[4 - Len(publishing) + i]
           /\ publishing[i].from = publishing[1].from
    /\ Len(publishing) \in 1..3 =>
           disk.responses # None /\ disk.responses.from = publishing[1].from
    /\ Len(publishing) \in 1..2 =>
           disk.judgments # None /\ disk.judgments.from = publishing[1].from

\* What is on disk is what publish_exp07.py writes, and the hashes of the
\* results are those of two files of their own source.
DiskKept ==
    /\ disk = [output \in Outputs |-> disk[output]]
    /\ disk.responses # None =>
           disk.responses.redacted = Redacted(disk.responses.from.row)
    /\ disk.results # None =>
           LET results == disk.results
           IN  /\ results.responses # None /\ results.judgments # None
               /\ results.responses.from = results.from
               /\ results.judgments.from = results.from
               /\ results.responses.redacted = Redacted(results.from.row)

Published == PlanKept /\ DiskKept

LEMMA EmptyCardIsCard == EmptyCard \in Cards
  BY DEF EmptyCard, Cards

LEMMA LockEffect ==
    ASSUME BlindTyped, LockStageOne
    PROVE  /\ clock' \in Nat /\ clock' # 0 /\ card.locked1 = 0 /\ card.behavior # ""
           /\ card' = [card EXCEPT !.notice = NoticeLocked(card.behavior, @), !.locked1 = clock']
  <1>1. clock \in Nat
    BY DEF BlindTyped
  <1>2. clock' = clock + 1
    BY DEF LockStageOne
  <1>3. clock' \in Nat /\ clock' # 0
    BY <1>1, <1>2
  <1>4. /\ card.locked1 = 0 /\ card.behavior # ""
        /\ card' = [card EXCEPT !.notice = NoticeLocked(card.behavior, @), !.locked1 = clock']
    BY ZenonT(20) DEF LockStageOne, StageOneAccepts
  <1> QED
    BY <1>3, <1>4

\* What the blind sheet does to its card and its files, and when it locks.
LEMMA CardEffect ==
    ASSUME BlindTyped, Choose \/ LockStageOne \/ JudgeStageTwo \/ SaveStageTwo \/ Export \/ Import
    PROVE  /\ BlindTyped'
           /\ BlindStep
           /\ \A row \in files' : row \in files \/ row = card
  <1> USE DEF BlindTyped
  <1>1. CASE Choose
    <2>1. \/ \E behavior \in Behaviors : card' = [card EXCEPT !.behavior = behavior]
          \/ \E notice \in {"", "clear"} : card' = [card EXCEPT !.notice = notice]
      BY <1>1, Exp07SheetsAssumption DEF Choose
    <2>2. card' \in Cards
      BY <2>1 DEF Cards, Notices
    <2> QED
      BY <1>1, <2>2 DEF Choose, BlindStep
  <1>2. CASE LockStageOne
    <2>1. /\ clock' \in Nat
          /\ card' = [card EXCEPT !.notice = NoticeLocked(card.behavior, @), !.locked1 = clock']
      BY <1>2, LockEffect
    <2>2. card' \in Cards
      BY <2>1 DEF Cards, NoticeLocked
    <2> QED
      BY <1>2, <2>1, <2>2 DEF LockStageOne, BlindStep
  <1>3. CASE JudgeStageTwo
    <2>1. card' \in Cards
      BY <1>3, Exp07SheetsAssumption DEF JudgeStageTwo, Cards
    <2> QED
      BY <1>3, <2>1 DEF JudgeStageTwo, BlindStep
  <1>4. CASE SaveStageTwo
    <2>1. clock' \in Nat /\ card' = [card EXCEPT !.locked2 = clock']
      BY <1>4 DEF SaveStageTwo
    <2>2. card' \in Cards
      BY <2>1 DEF Cards
    <2> QED
      BY <1>4, <2>1, <2>2 DEF SaveStageTwo, BlindStep
  <1>5. CASE Export
    BY <1>5 DEF Export, BlindStep
  <1>6. CASE Import
    <2>1. PICK row \in files : card' = [row EXCEPT !.notice = NoticeShown(@)]
      BY <1>6 DEF Import
    <2>2. card' \in Cards
      BY <2>1 DEF Cards, NoticeShown, Notices
    <2> QED
      BY <1>6, <2>2 DEF Import, BlindStep
  <1> QED
    BY <1>1, <1>2, <1>3, <1>4, <1>5, <1>6

LEMMA BlindHistoryKept ==
    ASSUME Blind, Choose \/ LockStageOne \/ JudgeStageTwo \/ SaveStageTwo \/ Export \/ Import
    PROVE  BlindHistory'
  <1> USE DEF Blind, BlindHistory
  <1>0. UNCHANGED snapshot
    BY CardEffect DEF BlindStep
  <1>1. CASE Choose
    <2>1. card.locked1 = 0 /\ card'.locked1 = card.locked1
      BY <1>1 DEF Choose, BlindTyped, Cards
    <2> QED
      BY <1>0, <1>1, <2>1 DEF Choose
  <1>2. CASE LockStageOne
    <2>0. /\ clock' \in Nat /\ clock' # 0 /\ card \in Cards /\ card.locked1 = 0
          /\ card' = [card EXCEPT !.notice = NoticeLocked(card.behavior, @), !.locked1 = clock']
          /\ card.behavior # ""
      BY <1>2, LockEffect DEF BlindTyped
    <2>1. /\ card.locked1 = 0 /\ card'.locked1 # 0
          /\ card'.behavior = card.behavior /\ card.behavior # ""
      BY <2>0 DEF Cards
    <2>2. /\ firstShown' = IF firstShown = "" THEN card.behavior ELSE firstShown
          /\ UNCHANGED <<files, importedEarly>>
      BY <1>2 DEF LockStageOne
    <2> QED
      BY <1>0, <2>1, <2>2
  <1>3. CASE JudgeStageTwo \/ SaveStageTwo
    <2>1. card'.locked1 = card.locked1 /\ card'.behavior = card.behavior
      BY <1>3 DEF JudgeStageTwo, SaveStageTwo, BlindTyped, Cards
    <2>2. UNCHANGED <<files, importedEarly, firstShown>>
      BY <1>3 DEF JudgeStageTwo, SaveStageTwo
    <2> QED
      BY <1>0, <2>1, <2>2
  <1>4. CASE Export
    BY <1>0, <1>4 DEF Export
  <1>5. CASE Import
    BY <1>0, <1>5 DEF Import
  <1> QED
    BY <1>1, <1>2, <1>3, <1>4, <1>5

LEMMA BlindKept ==
    ASSUME Blind, [Next]_vars
    PROVE  Blind'
  <1>1. CASE Choose \/ LockStageOne \/ JudgeStageTwo \/ SaveStageTwo \/ Export \/ Import
    <2>1. BlindTyped' /\ UNCHANGED <<snapshot, page>>
      BY <1>1, CardEffect DEF Blind, BlindStep, revealVars
    <2> QED
      BY <1>1, <2>1, BlindHistoryKept DEF Blind, PageIsOfTheSnapshot
  <1>2. CASE Freeze
    <2>1. PICK row \in files : StageOneSnapshot(row) /\ snapshot' = row
      BY <1>2 DEF Freeze
    <2>2. snapshot = None /\ UNCHANGED <<card, clock, files, firstShown, importedEarly, page>>
      BY <1>2 DEF Freeze, blindVars, revealVars
    <2>3. row.locked1 # 0
      BY <2>1 DEF StageOneSnapshot
    <2> QED
      BY <2>1, <2>2, <2>3 DEF Blind, BlindTyped, BlindHistory, PageIsOfTheSnapshot
  <1>3. CASE MakeReveal
    <2>1. PICK row \in files :
            /\ StageOneUnchanged(snapshot, row)
            /\ page' = [primary |-> row, judged |-> Judged(Canonical(row)),
                        history |-> <<>>, review |-> ""]
      BY <1>3 DEF MakeReveal
    <2>2. page'.primary.behavior = snapshot.behavior
      BY <2>1 DEF StageOneUnchanged
    <2> QED
      BY <1>3, <2>2
      DEF MakeReveal, blindVars, Blind, BlindTyped, BlindHistory, PageIsOfTheSnapshot
  <1>4. CASE OpenReveal \/ Revise \/ Review \/ ExportAdjudicated \/ BuildOutputs \/ WriteOutput
             \/ CrashWhilePublishing \/ UNCHANGED vars
    <2>1. UNCHANGED <<card, clock, files, firstShown, importedEarly, snapshot, page>>
      BY <1>4
      DEF OpenReveal, Revise, Review, ExportAdjudicated, BuildOutputs, WriteOutput,
          CrashWhilePublishing, vars, blindVars, revealVars
    <2> QED
      BY <2>1 DEF Blind, BlindTyped, BlindHistory, PageIsOfTheSnapshot
  <1> QED
    BY <1>1, <1>2, <1>3, <1>4 DEF Next

LEMMA BlindStart == Init => Blind
  <1>1. EmptyCard.locked1 = 0
    BY DEF EmptyCard
  <1>2. Init => BlindTyped
    <2>1. Init => card = EmptyCard /\ clock = 0 /\ files = {}
      BY DEF Init
    <2>2. EmptyCard \in Cards /\ 0 \in Nat /\ {} \subseteq Cards
      BY EmptyCardIsCard
    <2> QED
      BY <2>1, <2>2 DEF BlindTyped
  <1>3. Init => BlindHistory
    BY <1>1 DEF Init, BlindHistory
  <1>4. Init => PageIsOfTheSnapshot
    BY DEF Init, PageIsOfTheSnapshot
  <1> QED
    BY <1>2, <1>3, <1>4 DEF Blind

(* The reveal sheet shows the behaviour that was judged before the judge   *)
(* saw the evidence, whatever is imported, unlocked and locked again after *)
(* the freeze, for every number of files and locks (assert_stage1_unchanged*)
(* of exp07_common.py, the locks of the blind sheet).                      *)
THEOREM RevealedBehaviorCorrect == Spec => []RevealedBehaviorIsBlind
  <1>1. Init => Blind
    BY BlindStart
  <1>2. Blind /\ [Next]_vars => Blind'
    BY BlindKept
  <1>3. Blind => RevealedBehaviorIsBlind
    BY DEF Blind, BlindHistory, PageIsOfTheSnapshot, RevealedBehaviorIsBlind
  <1> QED
    BY <1>1, <1>2, <1>3, PTL DEF Spec

LEMMA ToldStays ==
    ASSUME NEW row, NEW early, NEW late, early \subseteq late, Told(row, early)
    PROVE  Told(row, late)
  BY DEF Told

\* A revision starts at the judgment of the row and becomes it.
LEMMA RevisionIsTold ==
    ASSUME NEW row, NEW exports, Told(row, exports), NEW judged \in Verdicts
    PROVE  Told(Revised(row, judged), exports)
  <1> DEFINE entry == [old |-> row.judged, new |-> judged]
             longer == Append(row.history, entry)
             new == Revised(row, judged)
  <1>1. row \in RevealRows /\ Chained(row)
    BY DEF Told
  <1>2. row.judged \in Verdicts /\ row.history \in Seq(Revisions)
    BY <1>1 DEF RevealRows
  <1>3. entry \in Revisions /\ entry.old = row.judged /\ entry.new = judged
    BY <1>2 DEF Revisions
  <1>4. new = [row EXCEPT !.judged = judged, !.history = longer]
    BY DEF Revised
  <1> HIDE DEF entry
  <1>5. /\ longer \in Seq(Revisions) /\ Len(longer) = Len(row.history) + 1
        /\ \A i \in 1..Len(row.history) : longer[i] = row.history[i]
        /\ longer[Len(row.history) + 1] = entry
        /\ Len(row.history) \in Nat
    BY <1>2, <1>3, AppendProperties, LenProperties
  <1> HIDE DEF longer
  <1>6. new \in RevealRows /\ new.judged = judged /\ new.history = longer
    BY <1>1, <1>4, <1>5 DEF RevealRows
  <1> HIDE DEF new
  <1>7. /\ row.history # <<>> => Len(row.history) # 0
        /\ row.history = <<>> => Len(row.history) = 0
        /\ longer # <<>>
    BY <1>2, <1>5, EmptySeq
  <1>8. Chained(new)
    <2>1. ASSUME NEW i \in 1..Len(longer) - 1
          PROVE  longer[i].new = longer[i + 1].old
      <3>1. CASE i = Len(row.history)
        <4>1. row.history # <<>>
          BY <1>5, <1>7, <2>1, <3>1
        <4>2. longer[i].new = row.judged
          BY <1>1, <1>5, <2>1, <3>1, <4>1 DEF Chained
        <4> QED
          BY <1>3, <1>5, <3>1, <4>2
      <3>2. CASE i # Len(row.history)
        <4>1. i \in 1..Len(row.history) - 1 /\ i \in 1..Len(row.history) /\ i + 1 \in 1..Len(row.history)
          BY <1>5, <2>1, <3>2
        <4>2. row.history[i].new = row.history[i + 1].old
          BY <1>1, <4>1 DEF Chained
        <4> QED
          BY <1>5, <4>1, <4>2
      <3> QED
        BY <3>1, <3>2
    <2>2. longer[Len(longer)].new = judged
      BY <1>3, <1>5
    <2> QED
      BY <1>6, <2>1, <2>2 DEF Chained
  <1>9. Origin(new) = Origin(row)
    <2>1. CASE row.history = <<>>
      <3>1. longer[1] = entry
        BY <1>5, <1>7, <2>1
      <3> QED
        BY <1>3, <1>6, <1>7, <2>1, <3>1 DEF Origin
    <2>2. CASE row.history # <<>>
      <3>1. longer[1] = row.history[1]
        BY <1>5, <1>7, <2>2
      <3> QED
        BY <1>6, <1>7, <2>2, <3>1 DEF Origin
    <2> QED
      BY <2>1, <2>2
  <1>10. Told(new, exports)
    BY <1>6, <1>8, <1>9 DEF Told
  <1> QED
    BY <1>10 DEF new

\* A review changes neither the judgment nor its history.
LEMMA ReviewIsTold ==
    ASSUME NEW row, NEW exports, Told(row, exports),
           NEW review \in {row.review, "safe_public_or_nonpersonal", "no_sensitive_pattern"}
    PROVE  Told([row EXCEPT !.review = review], exports)
  <1> DEFINE new == [row EXCEPT !.review = review]
  <1>1. row \in RevealRows
    BY DEF Told
  <1>2. new \in RevealRows /\ new.judged = row.judged /\ new.history = row.history
    BY <1>1 DEF RevealRows
  <1> HIDE DEF new
  <1>3. Told(new, exports)
    BY <1>2 DEF Told, Chained, Origin
  <1> QED
    BY <1>3 DEF new

LEMMA RowsAreMade ==
    ASSUME NEW judged \in Verdicts, NEW history \in Seq(Revisions)
    PROVE  [judged |-> judged, history |-> history, review |-> ""] \in RevealRows
  BY DEF RevealRows

\* A row without revisions has its own judgment for its origin.
LEMMA NoHistory ==
    ASSUME NEW row \in RevealRows, Len(row.history) = 0
    PROVE  Chained(row) /\ Origin(row) = row.judged
  <1>1. row.history \in Seq(Revisions)
    BY DEF RevealRows
  <1>2. row.history = <<>>
    BY <1>1, EmptySeq
  <1>3. \A n \in Int : n = 0 => \A i \in 1..n - 1 : FALSE
    OBVIOUS
  <1>4. \A i \in 1..Len(row.history) - 1 : FALSE
    BY <1>3
  <1> QED
    BY <1>2, <1>4, Zenon DEF Chained, Origin

LEMMA RowOfFields ==
    ASSUME NEW sheet, sheet.judged \in Verdicts, sheet.history \in Seq(Revisions), sheet.review = ""
    PROVE  /\ RowOf(sheet) \in RevealRows
           /\ RowOf(sheet).judged = sheet.judged /\ RowOf(sheet).history = sheet.history
  BY RowsAreMade DEF RowOf

LEMMA ExportsAreJudged ==
    ASSUME NEW export \in Cards
    PROVE  Judged(Canonical(export)) \in Verdicts
  <1>1. Canonical(export) \in Cards
    BY DEF Canonical, CanonicalNotice, Cards, Notices
  <1> QED
    BY <1>1 DEF Judged, Cards, Verdicts

\* A new sheet has the judgment of a locked export and no history.
LEMMA NewPageIsTold ==
    ASSUME NEW export \in Cards, export.locked2 # 0, NEW exports, export \in exports, NEW sheet,
           sheet.judged = Judged(Canonical(export)), sheet.review = "",
           sheet.history \in Seq(Revisions), Len(sheet.history) = 0
    PROVE  Told(RowOf(sheet), exports)
  <1>1. sheet.judged \in Verdicts
    BY ExportsAreJudged
  <1>2. /\ RowOf(sheet) \in RevealRows
        /\ RowOf(sheet).judged = sheet.judged /\ RowOf(sheet).history = sheet.history
    BY <1>1, RowOfFields
  <1>3. Chained(RowOf(sheet)) /\ Origin(RowOf(sheet)) = sheet.judged
    BY <1>2, NoHistory
  <1> QED
    BY <1>2, <1>3 DEF Told

LEMMA FilesGrow ==
    ASSUME [Next]_vars
    PROVE  files \subseteq files'
  BY DEF Next, vars, Choose, LockStageOne, JudgeStageTwo, SaveStageTwo, Export, Import, Freeze,
         MakeReveal, OpenReveal, Revise, Review, ExportAdjudicated, BuildOutputs, WriteOutput,
         CrashWhilePublishing, blindVars

LEMMA PageRowIsTold ==
    ASSUME Blind, MakeReveal
    PROVE  page'.primary \in Cards /\ Told(RowOf(page'), files)
  <1>1. PICK export \in files :
          /\ Gate(Canonical(export))
          /\ page' = [primary |-> export, judged |-> Judged(Canonical(export)),
                      history |-> <<>>, review |-> ""]
    BY DEF MakeReveal
  <1>2. export \in Cards
    BY DEF Blind, BlindTyped
  <1>3. export.locked2 # 0
    BY <1>1, <1>2 DEF Gate, Canonical, Cards
  <1>4. <<>> \in Seq(Revisions) /\ Len(<<>>) = 0
    BY EmptySeq
  <1>5. /\ page'.primary = export /\ page'.judged = Judged(Canonical(export))
        /\ page'.history = <<>> /\ page'.review = ""
    BY <1>1
  <1> QED
    BY <1>2, <1>3, <1>4, <1>5, NewPageIsTold

\* What the tab shows after a step of the judge on the reveal sheet.
LEMMA TabIsTold ==
    ASSUME Story, OpenReveal \/ Revise \/ Review \/ ExportAdjudicated
    PROVE  /\ shown' \in Sources /\ Told(shown'.row, files)
           /\ files' = files /\ page' = page
           /\ stored' \in {stored, shown'.row}
           /\ adjudicated' # adjudicated =>
                  adjudicated' = [primary |-> shown'.primary, row |-> shown'.row]
  <1> USE DEF Story
  <1>0. ASSUME NEW primary \in Cards, NEW row, Told(row, files)
        PROVE  [primary |-> primary, row |-> row] \in Sources
    BY <1>0 DEF Told, Sources
  <1>1. CASE OpenReveal
    <2>1. page # None /\ shown' = [primary |-> page.primary,
                                   row |-> IF stored = None THEN RowOf(page) ELSE stored]
      BY <1>1 DEF OpenReveal
    <2>2. page.primary \in Cards /\ Told(shown'.row, files)
      BY <2>1
    <2> QED
      BY <1>0, <1>1, <2>1, <2>2 DEF OpenReveal, blindVars
  <1>2. ASSUME NEW row, Told(row, files), shown # None, shown' = [shown EXCEPT !.row = row]
        PROVE  shown' \in Sources /\ shown'.row = row /\ shown'.primary = shown.primary
    BY <1>2 DEF Sources, Told
  <1>3. CASE Revise
    <2>1. PICK judged \in Verdicts :
            shown # None /\ shown' = [shown EXCEPT !.row = Revised(shown.row, judged)]
      <3>1. BehaviorChoices \subseteq Behaviors /\ RevisedAxes \subseteq Axes
        BY Exp07SheetsAssumption
      <3> QED
        BY <1>3, <3>1 DEF Revise, Verdicts
    <2>2. Told(Revised(shown.row, judged), files)
      BY <2>1, RevisionIsTold
    <2> QED
      BY <1>2, <1>3, <2>1, <2>2 DEF Revise, blindVars
  <1>4. CASE Review \/ ExportAdjudicated
    <2>1. PICK review \in {shown.row.review, "safe_public_or_nonpersonal", "no_sensitive_pattern"} :
            shown # None /\ shown' = [shown EXCEPT !.row = [shown.row EXCEPT !.review = review]]
      BY <1>4 DEF Review, ExportAdjudicated
    <2>2. Told([shown.row EXCEPT !.review = review], files)
      BY <2>1, ReviewIsTold
    <2>3. shown' \in Sources /\ Told(shown'.row, files) /\ shown'.primary = shown.primary
      BY <1>2, <2>1, <2>2
    <2> QED
      BY <1>4, <2>3 DEF Review, ExportAdjudicated, blindVars
  <1> QED
    BY <1>1, <1>3, <1>4

LEMMA StoryKept ==
    ASSUME Blind, Story, [Next]_vars
    PROVE  Story'
  <1> USE DEF Story
  <1>0. \A row : Told(row, files) => Told(row, files')
    BY FilesGrow, ToldStays
  <1>1. CASE MakeReveal
    <2>1. page'.primary \in Cards /\ Told(RowOf(page'), files')
      BY <1>0, <1>1, PageRowIsTold
    <2> QED
      BY <1>0, <1>1, <2>1 DEF MakeReveal
  <1>2. CASE OpenReveal \/ Revise \/ Review \/ ExportAdjudicated
    <2>1. /\ shown' \in Sources /\ Told(shown'.row, files)
          /\ files' = files /\ page' = page
          /\ stored' \in {stored, shown'.row}
          /\ adjudicated' # adjudicated =>
                 adjudicated' = [primary |-> shown'.primary, row |-> shown'.row]
      BY <1>2, TabIsTold
    <2>2. [primary |-> shown'.primary, row |-> shown'.row] = shown'
      BY <2>1 DEF Sources
    <2> QED
      BY <2>1, <2>2
  <1>3. CASE UNCHANGED <<page, shown, stored, adjudicated>>
    <2>1. RowOf(page)' = RowOf(page)
      BY <1>3 DEF RowOf
    <2> QED
      BY <1>0, <1>3, <2>1
  <1> QED
    BY <1>1, <1>2, <1>3
    DEF Next, vars, Choose, LockStageOne, JudgeStageTwo, SaveStageTwo, Export, Import, Freeze,
        BuildOutputs, WriteOutput, CrashWhilePublishing, BlindStep, revealVars

(* An adjudicated judgment is a locked one of an export and its recorded   *)
(* revisions, however often sheets are made, opened and exported again and *)
(* whatever localStorage kept from an earlier sheet (make_exp07_reveal_    *)
(* sheet.py).                                                              *)
THEOREM RevisionsCorrect == Spec => []RevisionsTellTheStory
  <1>1. Init => Blind /\ Story
    BY BlindStart DEF Init, Story
  <1>2. Blind /\ Story /\ [Next]_vars => (Blind /\ Story)'
    BY BlindKept, StoryKept
  <1>3. Story => RevisionsTellTheStory
    BY DEF Story, Told, RevisionsTellTheStory
  <1> QED
    BY <1>1, <1>2, <1>3, PTL DEF Spec

Plans == Seq([output : Outputs, from : Sources])

LEMMA WrittenIsNotNone ==
    \A from : [from |-> from] # None
  BY DEF None

LEMMA ResponsesAreNotNone ==
    \A from, redacted : [from |-> from, redacted |-> redacted] # None
  BY DEF None

\* The next output, and what is left when it is written.
LEMMA NextOutput ==
    ASSUME PlanKept, publishing # <<>>
    PROVE  /\ Len(publishing) \in 1..4
           /\ publishing[1] \in [output : Outputs, from : Sources]
           /\ Head(publishing) = publishing[1]
           /\ publishing[1].output = WriteOrder[5 - Len(publishing)]
           /\ Tail(publishing) \in Plans
           /\ Len(Tail(publishing)) = Len(publishing) - 1
           /\ \A i \in 1..Len(publishing) - 1 : Tail(publishing)[i] = publishing[i + 1]
  <1>1. publishing \in Plans /\ Len(publishing) <= 4
    BY DEF PlanKept, Plans
  <1>2. Len(publishing) \in Nat \ {0}
    BY <1>1, EmptySeq DEF Plans
  <1>3. /\ Head(publishing) = publishing[1] /\ Tail(publishing) \in Plans
        /\ Len(Tail(publishing)) = Len(publishing) - 1
        /\ \A i \in 1..Len(publishing) - 1 : Tail(publishing)[i] = publishing[i + 1]
    BY <1>1, HeadTailProperties DEF Plans
  <1>4. Len(publishing) \in 1..4 /\ 1 \in 1..Len(publishing)
    <2>1. \A n \in Nat \ {0} : n <= 4 => n \in 1..4 /\ 1 \in 1..n
      OBVIOUS
    <2> QED
      BY <1>1, <1>2, <2>1, Zenon
  <1>5. publishing[1] \in [output : Outputs, from : Sources]
    BY <1>1, <1>4, ElementOfSeq DEF Plans
  <1>6. publishing[1].output = WriteOrder[4 - Len(publishing) + 1]
        /\ 4 - Len(publishing) + 1 = 5 - Len(publishing)
    BY <1>4 DEF PlanKept
  <1> QED
    BY <1>3, <1>4, <1>5, <1>6

\* The place of the next output in the order says which one it is.
LEMMA OutputByPlace ==
    ASSUME PlanKept, publishing # <<>>
    PROVE  /\ Len(publishing) = 4 => publishing[1].output = "responses"
           /\ Len(publishing) = 3 => publishing[1].output = "judgments"
           /\ Len(publishing) = 2 => publishing[1].output = "results"
           /\ Len(publishing) = 1 => publishing[1].output = "csv"
  <1>1. publishing[1].output = WriteOrder[5 - Len(publishing)]
    BY NextOutput
  <1>2. /\ WriteOrder[1] = "responses" /\ WriteOrder[2] = "judgments"
        /\ WriteOrder[3] = "results" /\ WriteOrder[4] = "csv"
    BY DEF WriteOrder
  <1>3. 5 - 4 = 1 /\ 5 - 3 = 2 /\ 5 - 2 = 3 /\ 5 - 1 = 4
    OBVIOUS
  <1> QED
    BY <1>1, <1>2, <1>3, Zenon

\* Writing an output changes that file and no other.
LEMMA WriteEffect ==
    ASSUME Published, WriteOutput
    PROVE  LET next == publishing[1]
           IN  /\ publishing # <<>> /\ publishing' = Tail(publishing)
               /\ disk' = [output \in Outputs |-> disk'[output]]
               /\ disk'[next.output] = Content(next.output, next.from)
               /\ \A output \in Outputs \ {next.output} : disk'[output] = disk[output]
  <1> DEFINE next == publishing[1]
  <1>1. publishing # <<>> /\ publishing' = Tail(publishing)
    BY DEF WriteOutput
  <1>2. Head(publishing) = next /\ next.output \in Outputs
    BY <1>1, NextOutput DEF Published
  <1>3. disk' = [disk EXCEPT ![next.output] = Content(next.output, next.from)]
    BY <1>2 DEF WriteOutput
  <1>4. disk = [output \in Outputs |-> disk[output]]
    BY DEF Published, DiskKept
  <1> HIDE DEF next
  <1>5. /\ disk' = [output \in Outputs |-> disk'[output]]
        /\ disk'[next.output] = Content(next.output, next.from)
        /\ \A output \in Outputs \ {next.output} : disk'[output] = disk[output]
    BY <1>2, <1>3, <1>4
  <1> QED
    BY <1>1, <1>5 DEF next

LEMMA DiskStep ==
    ASSUME Published, WriteOutput
    PROVE  DiskKept'
  <1> DEFINE next == publishing[1]
             from == next.from
  <1>1. /\ publishing # <<>>
        /\ disk' = [output \in Outputs |-> disk'[output]]
        /\ disk'[next.output] = Content(next.output, from)
        /\ \A output \in Outputs \ {next.output} : disk'[output] = disk[output]
    BY WriteEffect
  <1>2. PlanKept /\ DiskKept
    BY DEF Published
  <1> HIDE DEF next, from
  <1>3. Len(publishing) \in 1..4
    BY <1>1, <1>2, NextOutput
  <1>4. CASE Len(publishing) = 4
    <2>1. next.output = "responses"
      BY <1>1, <1>2, <1>4, OutputByPlace DEF next
    <2>2. disk'.responses = [from |-> from, redacted |-> Redacted(from.row)]
          /\ disk'.results = disk.results
      BY <1>1, <2>1 DEF Content, Outputs
    <2> QED
      BY <1>1, <1>2, <2>2 DEF DiskKept
  <1>5. CASE Len(publishing) \in {3, 1}
    <2>1. next.output \in {"judgments", "csv"}
      BY <1>1, <1>2, <1>5, OutputByPlace DEF next
    <2>2. disk'.responses = disk.responses /\ disk'.results = disk.results
      BY <1>1, <2>1 DEF Outputs
    <2> QED
      BY <1>1, <1>2, <2>2 DEF DiskKept
  <1>6. CASE Len(publishing) = 2
    <2>1. next.output = "results"
      BY <1>1, <1>2, <1>6, OutputByPlace DEF next
    <2>2. /\ disk'.results = [from |-> from, responses |-> disk.responses,
                              judgments |-> disk.judgments]
          /\ disk'.responses = disk.responses
      BY <1>1, <2>1 DEF Content, Outputs
    <2>3. /\ disk.responses # None /\ disk.responses.from = from
          /\ disk.judgments # None /\ disk.judgments.from = from
      BY <1>2, <1>6 DEF PlanKept, from, next
    <2>4. disk.responses.redacted = Redacted(disk.responses.from.row)
      BY <1>2, <2>3 DEF DiskKept
    <2> QED
      BY <1>1, <1>2, <2>2, <2>3, <2>4 DEF DiskKept
  <1> QED
    BY <1>3, <1>4, <1>5, <1>6

LEMMA PlanStep ==
    ASSUME Published, WriteOutput
    PROVE  PlanKept'
  <1> DEFINE next == publishing[1]
             rest == Tail(publishing)
  <1>0. PlanKept /\ publishing # <<>>
    BY WriteEffect DEF Published
  <1>1. /\ publishing' = rest
        /\ disk'[next.output] = Content(next.output, next.from)
        /\ \A output \in Outputs \ {next.output} : disk'[output] = disk[output]
    BY WriteEffect
  <1>2. /\ Len(publishing) \in 1..4 /\ rest \in Plans /\ Len(rest) = Len(publishing) - 1
        /\ \A i \in 1..Len(publishing) - 1 : rest[i] = publishing[i + 1]
    BY <1>0, NextOutput
  <1>3. \A i \in 1..Len(publishing) : /\ publishing[i].output = WriteOrder[4 - Len(publishing) + i]
                                      /\ publishing[i].from = next.from
    BY <1>0 DEF PlanKept
  <1> HIDE DEF rest, next
  <1>4. \A i \in 1..Len(rest) : /\ rest[i].output = WriteOrder[4 - Len(rest) + i]
                                /\ rest[i].from = next.from
    <2>1. ASSUME NEW i \in 1..Len(rest)
          PROVE  /\ rest[i].output = WriteOrder[4 - Len(rest) + i]
                 /\ rest[i].from = next.from
      <3>1. i + 1 \in 1..Len(publishing) /\ rest[i] = publishing[i + 1]
            /\ 4 - Len(publishing) + (i + 1) = 4 - Len(rest) + i
        BY <1>2
      <3> QED
        BY <1>3, <3>1
    <2> QED
      BY <2>1
  <1>5. Len(rest) \in 1..3 => rest[1].from = next.from
    BY <1>2, <1>4
  <1>6. Len(rest) \in 1..3 => disk'.responses # None /\ disk'.responses.from = next.from
    <2>1. CASE Len(publishing) = 4
      <3>1. next.output = "responses"
        BY <1>0, <2>1, OutputByPlace DEF next
      <3>2. disk'.responses = [from |-> next.from, redacted |-> Redacted(next.from.row)]
        BY <1>1, <3>1 DEF Content
      <3> QED
        BY <3>2, ResponsesAreNotNone
    <2>2. CASE Len(publishing) \in {2, 3}
      <3>1. next.output \in {"judgments", "results"}
        BY <1>0, <2>2, OutputByPlace DEF next
      <3>2. disk'.responses = disk.responses
        BY <1>1, <3>1 DEF Outputs
      <3> QED
        BY <1>0, <2>2, <3>2 DEF PlanKept, next
    <2> QED
      BY <1>2, <2>1, <2>2
  <1>7. Len(rest) \in 1..2 => disk'.judgments # None /\ disk'.judgments.from = next.from
    <2>1. CASE Len(publishing) = 3
      <3>1. next.output = "judgments"
        BY <1>0, <2>1, OutputByPlace DEF next
      <3>2. disk'.judgments = [from |-> next.from]
        BY <1>1, <3>1 DEF Content
      <3> QED
        BY <3>2, WrittenIsNotNone
    <2>2. CASE Len(publishing) = 2
      <3>1. next.output = "results"
        BY <1>0, <2>2, OutputByPlace DEF next
      <3>2. disk'.judgments = disk.judgments
        BY <1>1, <3>1 DEF Outputs
      <3> QED
        BY <1>0, <2>2, <3>2 DEF PlanKept, next
    <2> QED
      BY <1>2, <2>1, <2>2
  <1>8. Len(rest) <= 4 /\ \A i \in 1..Len(rest) : rest[i].from = rest[1].from
    <2>1. Len(rest) \in 0..3
      BY <1>2
    <2>2. \A i \in 1..Len(rest) : 1 \in 1..Len(rest)
      BY <2>1
    <2> QED
      BY <1>4, <2>1, <2>2
  <1>9. /\ Len(rest) \in 1..3 => disk'.responses # None /\ disk'.responses.from = rest[1].from
        /\ Len(rest) \in 1..2 => disk'.judgments # None /\ disk'.judgments.from = rest[1].from
    BY <1>5, <1>6, <1>7
  <1> QED
    BY <1>1, <1>2, <1>4, <1>8, <1>9 DEF PlanKept, Plans

LEMMA PublishedKept ==
    ASSUME Published, Story, [Next]_vars
    PROVE  Published'
  <1>1. CASE WriteOutput
    BY <1>1, PlanStep, DiskStep DEF Published
  <1>2. CASE BuildOutputs
    <2> DEFINE plan == [i \in 1..4 |-> [output |-> WriteOrder[i], from |-> adjudicated]]
    <2>0. DOMAIN WriteOrder = 1..4
      BY DEF WriteOrder
    <2>1. publishing' = plan /\ disk' = disk /\ adjudicated \in Sources
      BY <1>2, <2>0 DEF BuildOutputs, Story
    <2>2. plan \in Plans /\ Len(plan) = 4
      BY <2>1 DEF WriteOrder, Outputs, Plans
    <2>3. \A i \in 1..4 : plan[i].output = WriteOrder[i] /\ plan[i].from = adjudicated
      OBVIOUS
    <2> HIDE DEF plan
    <2> QED
      BY <2>1, <2>2, <2>3 DEF Published, PlanKept, DiskKept, Plans
  <1>3. CASE CrashWhilePublishing
    <2>1. publishing' = <<>> /\ disk' = disk
      BY <1>3 DEF CrashWhilePublishing
    <2>2. <<>> \in Plans /\ Len(<<>>) = 0
      BY EmptySeq DEF Plans
    <2> QED
      BY <2>1, <2>2 DEF Published, PlanKept, DiskKept, Plans
  <1>4. CASE UNCHANGED publishVars
    BY <1>4 DEF publishVars, Published, PlanKept, DiskKept
  <1> QED
    BY <1>1, <1>2, <1>3, <1>4
    DEF Next, vars, Choose, LockStageOne, JudgeStageTwo, SaveStageTwo, Export, Import, Freeze,
        MakeReveal, OpenReveal, Revise, Review, ExportAdjudicated, BlindStep

LEMMA PublishedStart == Init => Published
  <1>1. Init => publishing = <<>> /\ disk = [responses |-> None, judgments |-> None,
                                             results |-> None, csv |-> None]
    BY DEF Init
  <1>2. <<>> \in Plans /\ Len(<<>>) = 0
    BY EmptySeq DEF Plans
  <1>3. Init => PlanKept
    BY <1>1, <1>2 DEF PlanKept, Plans
  <1>4. Init => DiskKept
    BY <1>1 DEF DiskKept, Outputs
  <1> QED
    BY <1>3, <1>4 DEF Published

(* Results whose hashes are those of the files beside them are of one      *)
(* publication, and its answer is redacted if it has to be, however often  *)
(* the publication is cut off and started again (main of publish_exp07.py).*)
THEOREM HashesCorrect == Spec => []HashesMeanOnePublication
  <1>1. Init => Blind /\ Story /\ Published
    BY BlindStart, PublishedStart DEF Init, Story
  <1>2. Blind /\ Story /\ Published /\ [Next]_vars => (Blind /\ Story /\ Published)'
    BY BlindKept, StoryKept, PublishedKept
  <1>3. Published => HashesMeanOnePublication
    BY DEF Published, DiskKept, HashesMeanOnePublication
  <1> QED
    BY <1>1, <1>2, <1>3, PTL DEF Spec

-----------------------------------------------------------------------------
(* A run (Exp07Run).                                                       *)

\* Versions of the stores only grow, and no store is ahead of the database; a
\* fingerprint is no newer than the stores, and the first one is complete
\* before a question is asked.
VersionsGrow ==
    /\ corpus.chroma <= corpus.database /\ corpus.bm25 <= corpus.database
    /\ \A s \in DOMAIN Unread : before[s] <= corpus[s] /\ after[s] <= corpus[s]
    /\ stage \notin {"before", "dead"} => \A s \in DOMAIN Unread : before[s] # 0
    /\ stage \in {"before", "ask", "answer", "dead"} => after = Unread

\* An index for the database version d was loaded after the first
\* fingerprint, or found missing when the BM25 file was behind d.
IndexIsOf(d, v) ==
    /\ before["database"] <= d /\ d <= corpus["database"]
    /\ v # 0 => v = d /\ before["bm25"] <= v /\ v <= corpus["bm25"]
    /\ v = 0 => before["bm25"] < d

\* What an attempt has seen lies between the fingerprints.
Between(saw) ==
    /\ IndexIsOf(saw.database, saw.bm25)
    /\ before["chroma"] <= saw.chroma /\ saw.chroma <= corpus["chroma"]
    /\ after["database"] # 0 => saw.database <= after["database"]
    /\ after["chroma"] # 0 => saw.chroma <= after["chroma"]
    /\ after["bm25"] # 0 /\ saw.bm25 # 0 => saw.bm25 <= after["bm25"]

\* The indexes a retrieval may hold and the versions an attempt may have seen.
Loaded == {i \in [for : 0..MaxVersion, version : 0..MaxVersion] : IndexIsOf(i.for, i.version)}
Seen == {saw \in Versions : Between(saw)}

AttemptsAreBetween ==
    /\ stage # "before" /\ index.for # 0 => index \in Loaded
    /\ stage = "before" => index.for = 0
    /\ \A i \in DOMAIN attempts :
         attempts[i].saw \in Seen \/ (broken /\ i = Len(attempts) /\ stage = "answer")
    /\ \A n \in DOMAIN records : \A i \in DOMAIN records[n].attempts :
         records[n].attempts[i].saw \in Seen \/ records[n].attempts[i].outcome = "fatal"

\* Where the run stands, in attempts, records, failures and reasons.
StagesFit ==
    /\ stage = "before" => records = <<>> /\ consecutive = 0
    /\ stage \notin {"ask", "answer"} => attempts = <<>>
    /\ stage = "ask" => Len(attempts) < MaxAttempts
    /\ stage = "answer" => attempts # <<>>
    /\ stage \in {"before", "ask", "answer"} =>
         /\ Len(records) < Rounds * QuestionCount /\ consecutive < Threshold
         /\ reason = Absent /\ status = "completed"
    /\ status = "completed" => reason = Absent
    /\ reason # "unhandled_interruption" =>
         (consecutive = Threshold <=> reason = "three_consecutive_system_errors")
    /\ manifest => stage = "ended" /\ before = after

\* The counter is the number of system errors the records end in.
CounterCounts ==
    /\ LastFailed(consecutive)
    /\ consecutive < Len(records) => records[Len(records) - consecutive].status = "success"

\* A broken session has failed a question, and no attempt under it is a retry.
BrokenHasFailed ==
    /\ stage = "before" => ~broken
    /\ broken /\ stage \in {"ask", "answer"} =>
         consecutive > 0 /\ Len(attempts) = (IF stage = "ask" THEN 0 ELSE 1)

Sound ==
    /\ TypeOK /\ VersionsGrow /\ AttemptsAreBetween /\ StagesFit /\ CounterCounts
    /\ BrokenHasFailed

\* A record is of the question its place in the file says.
PlacesFit ==
    \A n \in DOMAIN records :
        /\ records[n].round = ((n - 1) \div QuestionCount) + 1
        /\ records[n].ordinal = ((n - 1) % QuestionCount) + 1

\* What is over and was tried again was retryable, and every record is as
\* the gate wants it.
RightSoFar ==
    /\ \A n \in DOMAIN records : RightAttempts(records[n])
    /\ \A i \in DOMAIN attempts :
           (i < Len(attempts) \/ stage = "ask") => attempts[i].outcome = "retryable"

\* Nothing was begun before the run was, nor ends later than today; in a run
\* that is not cut, all of it was recorded on the first day.
OneDay ==
    /\ stage \notin {"before", "dead"} => started \in 1..day
    /\ \A i \in DOMAIN attempts :
           /\ attempts[i].began \in started..day
           /\ (i < Len(attempts) \/ stage = "ask") => attempts[i].ended \in started..day
    /\ status = "completed" =>
           \A n \in DOMAIN records : \A i \in DOMAIN records[n].attempts :
               records[n].attempts[i].began = started /\ records[n].attempts[i].ended = started

\* A run that is not cut asks every question, and ends as completed only
\* when nothing was written beside it.
AllAsked ==
    /\ (stage \in {"after", "ended"} /\ status = "completed") =>
           Len(records) = Rounds * QuestionCount
    /\ (stage = "ended" /\ status = "completed") => before = after

OnCourse == PlacesFit /\ RightSoFar /\ OneDay /\ AllAsked
-----------------------------------------------------------------------------
Names == {"database", "chroma", "bm25"}

LEMMA StoreNames == DOMAIN Unread = Names
  BY DEF Unread, Names

LEMMA TotalIsPositive == Rounds * QuestionCount \in Nat \ {0}
  BY Exp07RunAssumption

\* The next store of an unfinished fingerprint has not been read, and when
\* there is none left all three have.
LEMMA NextStoreIs ==
    ASSUME NEW read \in [Names -> 0..MaxVersion]
    PROVE  /\ IsRead(read) => \A s \in Names : read[s] # 0
           /\ ~IsRead(read) => NextStore(read) \in 1..3 /\ read[Stores[NextStore(read)]] = 0
  <1> DEFINE Next3(i) == /\ \A j \in 1..i - 1 : read[Stores[j]] # 0
                         /\ i < 4 => read[Stores[i]] = 0
  <1>0. Stores[1] = "database" /\ Stores[2] = "chroma" /\ Stores[3] = "bm25"
    BY DEF Stores
  <1>1. \E i \in 1..4 : Next3(i)
    <2>1. CASE read[Stores[1]] = 0
      BY <2>1
    <2>2. CASE read[Stores[1]] # 0 /\ read[Stores[2]] = 0
      BY <2>2
    <2>3. CASE read[Stores[1]] # 0 /\ read[Stores[2]] # 0 /\ read[Stores[3]] = 0
      <3>1. Next3(3)
        BY <2>3
      <3> QED
        BY <3>1
    <2>4. CASE read[Stores[1]] # 0 /\ read[Stores[2]] # 0 /\ read[Stores[3]] # 0
      <3>1. Next3(4)
        BY <2>4
      <3> QED
        BY <3>1
    <2> QED
      BY <2>1, <2>2, <2>3, <2>4
  <1>2. NextStore(read) \in 1..4 /\ Next3(NextStore(read))
    BY <1>1 DEF NextStore
  <1>3. ASSUME IsRead(read) PROVE \A s \in Names : read[s] # 0
    <2>1. \A j \in 1..3 : read[Stores[j]] # 0
      BY <1>2, <1>3 DEF IsRead
    <2> QED
      BY <1>0, <2>1 DEF Names
  <1>4. ASSUME ~IsRead(read)
        PROVE  NextStore(read) \in 1..3 /\ read[Stores[NextStore(read)]] = 0
    BY <1>2, <1>4 DEF IsRead
  <1> QED
    BY <1>3, <1>4

\* Reading a store adds its version to the fingerprint.
LEMMA ReadStoreEffect ==
    ASSUME NEW read \in [Names -> 0..MaxVersion], corpus \in [Names -> 1..MaxVersion],
           ~IsRead(read)
    PROVE  /\ ReadStore(read) \in [Names -> 0..MaxVersion]
           /\ \E s \in Names : read[s] = 0 /\ ReadStore(read) = [read EXCEPT ![s] = corpus[s]]
  <1>1. NextStore(read) \in 1..3 /\ read[Stores[NextStore(read)]] = 0
    BY NextStoreIs
  <1>2. Stores[NextStore(read)] \in Names
    BY <1>1 DEF Stores, Names
  <1>3. corpus[Stores[NextStore(read)]] \in 0..MaxVersion
    BY <1>2, Exp07RunAssumption
  <1> QED
    BY <1>1, <1>2, <1>3 DEF ReadStore
-----------------------------------------------------------------------------
\* The place of the next question.
LEMMA PlaceIsPlace ==
    ASSUME records \in Seq(Response)
    PROVE  Place.round \in Nat \ {0} /\ Place.ordinal \in 1..QuestionCount
  <1>1. Len(records) \in Nat /\ QuestionCount \in Nat \ {0}
    BY Exp07RunAssumption
  <1>2. Len(records) % QuestionCount \in 0..QuestionCount - 1
    BY <1>1
  <1>3. Len(records) \div QuestionCount \in Nat
    BY <1>1
  <1> QED
    BY <1>1, <1>2, <1>3 DEF Place

\* The attempts of a question once the last of them is over.
LEMMA KeptEffect ==
    ASSUME attempts \in Seq(Attempt), attempts # <<>>, NEW done \in Attempt
    PROVE  /\ Kept(attempts, done) \in Seq(Attempt)
           /\ Len(attempts) \in Nat \ {0} /\ Len(Kept(attempts, done)) = Len(attempts)
           /\ Kept(attempts, done)[Len(attempts)] = done
           /\ DOMAIN Kept(attempts, done) = 1..Len(attempts) /\ DOMAIN attempts = 1..Len(attempts)
           /\ \A i \in 1..Len(attempts) - 1 : Kept(attempts, done)[i] = attempts[i]
  <1> DEFINE n == Len(attempts)
             k == Kept(attempts, done)
  <1>1. n \in Nat /\ attempts \in [1..n -> Attempt] /\ DOMAIN attempts = 1..n
    BY LenProperties
  <1>2. n # 0
    BY EmptySeq
  <1>3. n \in 1..n
    BY <1>1, <1>2
  <1>4. /\ k \in [1..n -> Attempt] /\ k[n] = done
        /\ \A i \in 1..n - 1 : k[i] = attempts[i]
    <2> HIDE DEF n
    <2>1. k = [attempts EXCEPT ![n] = done]
      BY DEF Kept, n
    <2> QED
      BY <1>1, <1>3, <2>1
  <1> HIDE DEF n, k
  <1>5. k \in Seq(Attempt)
    BY <1>1, <1>4, SeqDef
  <1>6. Len(k) = n
    <2>1. DOMAIN k = 1..n /\ DOMAIN k = 1..Len(k) /\ Len(k) \in Nat
      BY <1>4, <1>5, LenProperties
    <2> QED
      BY <1>1, <2>1
  <1> QED
    BY <1>1, <1>2, <1>4, <1>5, <1>6 DEF n, k

\* What a finished attempt is.
Finished(outcome) == [attempts[Len(attempts)] EXCEPT !.ended = day, !.outcome = outcome]
Listed(outcome) == Kept(attempts, Finished(outcome))

LEMMA FinishedEffect ==
    ASSUME TypeOK, attempts # <<>>, NEW outcome \in Outcomes
    PROVE  /\ Finished(outcome) \in Attempt /\ Finished(outcome).outcome = outcome
           /\ Finished(outcome).saw = attempts[Len(attempts)].saw
  <1>1. attempts[Len(attempts)] \in Attempt /\ day \in 0..MaxDay
    BY DEF TypeOK
  <1> QED
    BY <1>1 DEF Finished, Attempt

\* The record of a question that is over.
LEMMA RecordEffect ==
    ASSUME TypeOK, attempts # <<>>, NEW outcome \in Outcomes
    PROVE  LET record == Record(Listed(outcome))
           IN  /\ record \in Response
               /\ record.attempts = Listed(outcome)
               /\ record.status = "success" <=> outcome = "success"
               /\ record.status \in {"success", "system_error"}
  <1>1. /\ Listed(outcome) \in Seq(Attempt) /\ Len(Listed(outcome)) = Len(attempts)
        /\ Listed(outcome)[Len(attempts)].outcome = outcome
        /\ Len(attempts) \in Nat \ {0} /\ Len(attempts) <= MaxAttempts
    BY FinishedEffect, KeptEffect DEF Listed, TypeOK
  <1>2. Place.round \in Nat \ {0} /\ Place.ordinal \in 1..QuestionCount
    BY PlaceIsPlace DEF TypeOK
  <1>3. MaxAttempts \in Nat
    BY Exp07RunAssumption
  <1> QED
    BY <1>1, <1>2, <1>3 DEF Record, Response

\* The end of an attempt, in its two cases: a retry, or a record.
Retry(outcome, breaks) ==
    /\ stage = "answer" /\ outcome = "retryable" /\ Len(attempts) < MaxAttempts
    /\ ~broken /\ ~breaks
    /\ attempts' = Listed(outcome) /\ stage' = "ask"
    /\ UNCHANGED <<records, consecutive, status, reason>>

Recorded(outcome, breaks) ==
    /\ stage = "answer"
    /\ breaks => outcome = "fatal"
    /\ broken => outcome = "fatal"
    /\ records' = Append(records, Record(Listed(outcome)))
    /\ attempts' = <<>>
    /\ consecutive' = IF outcome = "success" THEN 0 ELSE consecutive + 1
    /\ IF consecutive' >= Threshold
       THEN reason' = "three_consecutive_system_errors"
       ELSE reason' = IF day # started THEN "date_rollover" ELSE Absent
    /\ status' = IF reason' = Absent THEN status ELSE "aborted"
    /\ stage' = IF reason' # Absent \/ Len(records') = Rounds * QuestionCount THEN "after" ELSE "ask"

LEMMA EndAttemptKinds ==
    ASSUME TypeOK, attempts # <<>>, NEW outcome \in Outcomes, NEW breaks \in BOOLEAN,
           EndAttempt(outcome, breaks)
    PROVE  /\ Retry(outcome, breaks) \/ Recorded(outcome, breaks)
           /\ broken' = breaks
           /\ UNCHANGED <<corpus, before, after, day, started, index, manifest>>
  <1> DEFINE list == Listed(outcome)
             record == Record(list)
  <1>1. /\ Len(list) = Len(attempts) /\ list[Len(list)].outcome = outcome
        /\ list # <<>>
    BY FinishedEffect, KeptEffect DEF Listed, TypeOK
  <1>2. record.status = "success" <=> outcome = "success"
    BY RecordEffect
  <1> HIDE DEF list, record
  <1>3. CASE Retries(list)
    <2>1. outcome = "retryable" /\ Len(attempts) < MaxAttempts
      BY <1>1, <1>3 DEF Retries
    <2>2. attempts' = list /\ stage' = "ask" /\ UNCHANGED <<records, consecutive, status, reason>>
      BY <1>3 DEF EndAttempt, list, Listed, Finished
    <2> QED
      BY <2>1, <2>2 DEF EndAttempt, Retry, list
  <1>4. CASE ~Retries(list)
    <2>1. /\ records' = Append(records, record) /\ attempts' = <<>>
          /\ consecutive' = Consecutive(consecutive, record)
          /\ reason' = AbortReason(Consecutive(consecutive, record))
          /\ status' = IF reason' = Absent THEN status ELSE "aborted"
          /\ stage' = IF reason' # Absent \/ Len(records') = Rounds * QuestionCount
                      THEN "after" ELSE "ask"
      BY <1>4 DEF EndAttempt, list, record, Listed, Finished
    <2>2. consecutive' = IF outcome = "success" THEN 0 ELSE consecutive + 1
      BY <1>2, <2>1 DEF Consecutive
    <2>3. IF consecutive' >= Threshold
          THEN reason' = "three_consecutive_system_errors"
          ELSE reason' = IF day # started THEN "date_rollover" ELSE Absent
      BY <2>1 DEF AbortReason
    <2> QED
      BY <2>1, <2>2, <2>3 DEF EndAttempt, Recorded, list, record
  <1> QED
    BY <1>3, <1>4 DEF EndAttempt

\* The stores and the fingerprints, as functions of the stores' names.
LEMMA VersionTypes ==
    ASSUME TypeOK
    PROVE  /\ corpus \in [Names -> 1..MaxVersion]
           /\ before \in [Names -> 0..MaxVersion] /\ after \in [Names -> 0..MaxVersion]
           /\ \A s \in Names : corpus[s] \in 1..MaxVersion /\ corpus[s] \in 0..MaxVersion
           /\ "database" \in Names /\ "chroma" \in Names /\ "bm25" \in Names
  <1>1. /\ corpus \in [Names -> 1..MaxVersion]
        /\ before \in [Names -> 0..MaxVersion] /\ after \in [Names -> 0..MaxVersion]
    BY StoreNames DEF TypeOK
  <1> QED
    BY <1>1, Exp07RunAssumption DEF Names

LEMMA CrawlEffect ==
    ASSUME TypeOK, CrawlWrites
    PROVE  /\ corpus' \in [Names -> 1..MaxVersion]
           /\ \A s \in Names : corpus[s] <= corpus'[s]
           /\ corpus["chroma"] <= corpus["database"] => corpus'["chroma"] <= corpus'["database"]
           /\ corpus["bm25"] <= corpus["database"] => corpus'["bm25"] <= corpus'["database"]
  <1>0. corpus \in [Names -> 1..MaxVersion] /\ MaxVersion \in Nat
    BY VersionTypes, Exp07RunAssumption
  <1>1. CASE /\ corpus["database"] < MaxVersion
             /\ corpus' = [corpus EXCEPT !["database"] = corpus["database"] + 1]
    BY <1>0, <1>1 DEF Names
  <1>2. CASE /\ corpus["chroma"] < corpus["database"]
             /\ corpus' = [corpus EXCEPT !["chroma"] = corpus["database"]]
    BY <1>0, <1>2 DEF Names
  <1>3. CASE /\ corpus["bm25"] < corpus["database"]
             /\ corpus' = [corpus EXCEPT !["bm25"] = corpus["database"]]
    BY <1>0, <1>3 DEF Names
  <1> QED
    BY <1>1, <1>2, <1>3 DEF CrawlWrites

\* A new attempt: what it has seen, and with which index.
Opening == attempts'[Len(attempts) + 1]

LEMMA BeginAttemptEffect ==
    ASSUME TypeOK, BeginAttempt
    PROVE  /\ stage = "ask" /\ stage' = "answer"
           /\ index' \in [for : 0..MaxVersion, version : 0..MaxVersion]
           /\ attempts' \in Seq(Attempt) /\ Len(attempts') = Len(attempts) + 1
           /\ \A i \in 1..Len(attempts) : attempts'[i] = attempts[i]
           /\ Opening.saw = [database |-> index'.for, chroma |-> corpus.chroma,
                             bm25 |-> index'.version]
           /\ broken => index' = index
           /\ ~broken => index' = CurrentIndex
           /\ UNCHANGED <<corpus, before, after, day, started, records, broken, consecutive,
                          status, reason, manifest>>
  <1>1. index' \in [for : 0..MaxVersion, version : 0..MaxVersion]
    <2>1. index \in [for : 0..MaxVersion, version : 0..MaxVersion]
          /\ corpus["database"] \in 0..MaxVersion /\ corpus["bm25"] \in 0..MaxVersion
      BY VersionTypes DEF TypeOK
    <2>2. CurrentIndex \in [for : 0..MaxVersion, version : 0..MaxVersion]
      BY <2>1, Exp07RunAssumption DEF CurrentIndex
    <2> QED
      BY <2>1, <2>2 DEF BeginAttempt
  <1> DEFINE new == [began |-> day, ended |-> 0, outcome |-> Absent,
                     saw |-> [database |-> index'.for, chroma |-> corpus.chroma,
                              bm25 |-> index'.version]]
  <1>2. new \in Attempt
    <2>1. corpus["chroma"] \in 0..MaxVersion /\ day \in 1..MaxDay /\ 0 \in 0..MaxDay
      BY VersionTypes, Exp07RunAssumption DEF TypeOK
    <2>2. index'.for \in 0..MaxVersion /\ index'.version \in 0..MaxVersion
      BY <1>1
    <2>3. new.saw \in Versions
      BY <2>1, <2>2 DEF Versions
    <2> QED
      BY <2>1, <2>3 DEF Attempt
  <1>3. attempts' = Append(attempts, new) /\ attempts \in Seq(Attempt)
    BY DEF BeginAttempt, TypeOK
  <1>4. new.saw = [database |-> index'.for, chroma |-> corpus.chroma, bm25 |-> index'.version]
    OBVIOUS
  <1> HIDE DEF new
  <1>5. /\ attempts' \in Seq(Attempt) /\ Len(attempts') = Len(attempts) + 1
        /\ \A i \in 1..Len(attempts) : attempts'[i] = attempts[i]
        /\ attempts'[Len(attempts) + 1] = new
    BY <1>2, <1>3, AppendProperties
  <1> QED
    BY <1>1, <1>4, <1>5 DEF BeginAttempt, Opening

\* The two ends of the finally block.
Finalized == WriteSummary \/ FinalizationFails

LEMMA NextKinds ==
    ASSUME TypeOK, StagesFit, [RunNext]_runVars
    PROVE  \/ CrawlWrites \/ Midnight \/ MakeManifest \/ Start \/ NoFingerprint \/ UNCHANGED runVars
           \/ ReadBefore \/ ReadAfter \/ BeginAttempt \/ Interrupt \/ Finalized
           \/ \E outcome \in Outcomes, breaks \in BOOLEAN :
                /\ Retry(outcome, breaks) \/ Recorded(outcome, breaks)
                /\ stage = "answer" /\ attempts # <<>> /\ broken' = breaks
                /\ UNCHANGED <<corpus, before, after, day, started, index, manifest>>
  <1>1. ASSUME NEW outcome \in Outcomes, NEW breaks \in BOOLEAN, EndAttempt(outcome, breaks)
        PROVE  /\ Retry(outcome, breaks) \/ Recorded(outcome, breaks)
               /\ stage = "answer" /\ attempts # <<>> /\ broken' = breaks
               /\ UNCHANGED <<corpus, before, after, day, started, index, manifest>>
    <2>1. attempts # <<>> /\ stage = "answer"
      BY <1>1 DEF EndAttempt, StagesFit
    <2> QED
      BY <1>1, <2>1, EndAttemptKinds
  <1> QED
    BY <1>1 DEF RunNext, RunnerStep, Finalized

LEMMA TypeStep ==
    ASSUME TypeOK, StagesFit, [RunNext]_runVars
    PROVE  TypeOK'
  <1> USE DEF TypeOK
  <1>0. corpus \in [Names -> 1..MaxVersion]
        /\ before \in [Names -> 0..MaxVersion] /\ after \in [Names -> 0..MaxVersion]
        /\ Threshold \in Nat \ {0} /\ MaxVersion \in Nat /\ MaxDay \in Nat
    BY StoreNames, Exp07RunAssumption
  <1>1. CASE CrawlWrites
    BY <1>1, CrawlEffect, StoreNames DEF CrawlWrites
  <1>2. CASE Midnight \/ Start \/ NoFingerprint
    <2>1. /\ UNCHANGED <<corpus, before, after, records, attempts, index, broken, consecutive,
                         status, manifest>>
          /\ stage' \in {stage, "ask", "dead"}
      BY <1>2 DEF Midnight, Start, NoFingerprint
    <2>2. day' \in 1..MaxDay /\ started' \in 0..MaxDay
      BY <1>0, <1>2 DEF Midnight, Start, NoFingerprint
    <2> QED
      BY <2>1, <2>2
  <1>9. CASE MakeManifest \/ UNCHANGED runVars
    BY <1>9 DEF MakeManifest, runVars
  <1>3. CASE ReadBefore
    BY <1>0, <1>3, ReadStoreEffect, StoreNames DEF ReadBefore
  <1>4. CASE ReadAfter
    BY <1>0, <1>4, ReadStoreEffect, StoreNames DEF ReadAfter
  <1>5. CASE BeginAttempt
    <2>1. Len(attempts') <= MaxAttempts
      <3>1. stage = "ask" /\ Len(attempts') = Len(attempts) + 1
        BY <1>5, BeginAttemptEffect
      <3>2. Len(attempts) < MaxAttempts
        BY <3>1 DEF StagesFit
      <3>3. Len(attempts) \in Nat /\ MaxAttempts \in Nat
        BY LenProperties, Exp07RunAssumption
      <3> HIDE DEF TypeOK
      <3> QED
        BY <3>1, <3>2, <3>3
    <2> QED
      BY <1>5, <2>1, BeginAttemptEffect
  <1>6. ASSUME NEW outcome \in Outcomes, NEW breaks \in BOOLEAN, EndAttempt(outcome, breaks)
        PROVE  TypeOK'
    <2>1. attempts # <<>>
      BY <1>6 DEF StagesFit, EndAttempt
    <2>2. /\ broken' = breaks
          /\ UNCHANGED <<corpus, before, after, day, started, index, manifest>>
          /\ Retry(outcome, breaks) \/ Recorded(outcome, breaks)
      BY <1>6, <2>1, EndAttemptKinds
    <2>3. CASE Retry(outcome, breaks)
      <3>1. attempts' \in Seq(Attempt) /\ Len(attempts') = Len(attempts)
        BY <2>1, <2>3, FinishedEffect, KeptEffect DEF Retry, Listed
      <3> QED
        BY <2>2, <2>3, <3>1 DEF Retry
    <2>4. CASE Recorded(outcome, breaks)
      <3>1. Record(Listed(outcome)) \in Response
        BY <2>1, RecordEffect
      <3>2. records' \in Seq(Response) /\ Len(records') = Len(records) + 1
        BY <2>4, <3>1, AppendProperties DEF Recorded
      <3>3. Len(records') <= Rounds * QuestionCount
        BY <2>4, <3>2, TotalIsPositive DEF Recorded, StagesFit
      <3>4. attempts' \in Seq(Attempt) /\ Len(attempts') <= MaxAttempts
        BY <2>4, EmptySeq, Exp07RunAssumption DEF Recorded
      <3>5. consecutive' \in 0..Threshold
        BY <1>0, <2>4 DEF Recorded, StagesFit
      <3>6. stage' \in {"ask", "after"} /\ status' \in {"completed", "aborted", "invalid"}
        BY <2>4 DEF Recorded
      <3> QED
        BY <2>2, <3>2, <3>3, <3>4, <3>5, <3>6
    <2> QED
      BY <2>2, <2>3, <2>4
  <1>7. CASE Interrupt
    BY <1>7, EmptySeq, Exp07RunAssumption DEF Interrupt
  <1>8. CASE Finalized
    <2>1. after' \in [Names -> 0..MaxVersion]
      <3>1. Unread \in [Names -> 0..MaxVersion]
        BY <1>0 DEF Unread, Names
      <3> QED
        BY <1>0, <1>8, <3>1 DEF Finalized, WriteSummary, FinalizationFails
    <2>2. /\ UNCHANGED <<corpus, before, day, started, records, attempts, index, broken,
                         consecutive, manifest>>
          /\ stage' = "ended" /\ status' \in {status, "invalid"}
      BY <1>8 DEF Finalized, WriteSummary, FinalizationFails, Settle
    <2> QED
      BY <2>1, <2>2, StoreNames
  <1> QED
    BY <1>1, <1>2, <1>3, <1>4, <1>5, <1>6, <1>7, <1>8, <1>9 DEF RunNext, RunnerStep, Finalized
-----------------------------------------------------------------------------
LEMMA VersionsStep ==
    ASSUME TypeOK, VersionsGrow, StagesFit, [RunNext]_runVars
    PROVE  VersionsGrow'
  <1> USE StoreNames DEF VersionsGrow
  <1>0. /\ corpus \in [Names -> 1..MaxVersion]
        /\ before \in [Names -> 0..MaxVersion] /\ after \in [Names -> 0..MaxVersion]
        /\ "database" \in Names /\ "chroma" \in Names /\ "bm25" \in Names
        /\ MaxVersion \in Nat
    BY VersionTypes, Exp07RunAssumption
  <1>1. CASE CrawlWrites
    <2>1. /\ corpus' \in [Names -> 1..MaxVersion] /\ \A s \in Names : corpus[s] <= corpus'[s]
          /\ corpus'["chroma"] <= corpus'["database"] /\ corpus'["bm25"] <= corpus'["database"]
      BY <1>1, CrawlEffect
    <2>2. \A s \in Names : before[s] <= corpus'[s] /\ after[s] <= corpus'[s]
      BY <1>0, <2>1
    <2> QED
      BY <1>1, <2>1, <2>2 DEF CrawlWrites
  <1>2. ASSUME UNCHANGED <<corpus, before, after>>,
               stage' = stage \/ (stage' \in {"ask", "answer", "after"} /\ stage \in {"ask", "answer"})
        PROVE  VersionsGrow'
    BY <1>2
  <1>3. CASE Midnight \/ MakeManifest \/ UNCHANGED runVars \/ BeginAttempt \/ Interrupt
    BY <1>2, <1>3 DEF Midnight, MakeManifest, BeginAttempt, Interrupt, runVars
  <1>4. ASSUME NEW outcome, NEW breaks, Retry(outcome, breaks) \/ Recorded(outcome, breaks),
               UNCHANGED <<corpus, before, after>>
        PROVE  VersionsGrow'
    BY <1>2, <1>4 DEF Retry, Recorded
  <1>5. CASE ReadBefore
    <2>1. PICK s \in Names : before' = [before EXCEPT ![s] = corpus[s]]
      BY <1>0, <1>5, ReadStoreEffect DEF ReadBefore
    <2>2. \A t \in Names : before'[t] <= corpus[t]
      BY <1>0, <2>1
    <2> QED
      BY <1>5, <2>2 DEF ReadBefore
  <1>6. CASE ReadAfter
    <2>1. PICK s \in Names : after' = [after EXCEPT ![s] = corpus[s]]
      BY <1>0, <1>6, ReadStoreEffect DEF ReadAfter
    <2>2. \A t \in Names : after'[t] <= corpus[t]
      BY <1>0, <2>1
    <2> QED
      BY <1>6, <2>2 DEF ReadAfter
  <1>7. CASE Start
    BY <1>0, <1>7, NextStoreIs DEF Start
  <1>8. CASE NoFingerprint
    BY <1>8 DEF NoFingerprint
  <1>9. CASE Finalized
    <2>1. /\ UNCHANGED <<corpus, before>> /\ stage = "after" /\ stage' = "ended"
          /\ after' \in {after, Unread}
      BY <1>9 DEF Finalized, WriteSummary, FinalizationFails, Settle
    <2>2. \A s \in Names : Unread[s] = 0
      BY DEF Unread, Names
    <2>3. \A s \in Names : after'[s] <= corpus[s]
      BY <1>0, <2>1, <2>2
    <2> QED
      BY <2>1, <2>3
  <1> QED
    BY <1>1, <1>3, <1>4, <1>5, <1>6, <1>7, <1>8, <1>9, NextKinds

LEMMA StagesStep ==
    ASSUME Sound, [RunNext]_runVars
    PROVE  StagesFit'
  <1> USE DEF StagesFit
  <1>0. /\ TypeOK /\ Len(records) \in Nat /\ Len(attempts) \in Nat
        /\ Threshold \in Nat \ {0} /\ consecutive \in 0..Threshold /\ MaxAttempts \in Nat \ {0}
        /\ Rounds * QuestionCount \in Nat \ {0} /\ StagesFit
        /\ Absent \notin {"unhandled_interruption", "three_consecutive_system_errors"}
    <2>1. TypeOK /\ StagesFit
      BY DEF Sound
    <2>2. Len(records) \in Nat /\ Len(attempts) \in Nat /\ consecutive \in 0..Threshold
      BY <2>1, LenProperties DEF TypeOK
    <2>3. Threshold \in Nat \ {0} /\ MaxAttempts \in Nat \ {0}
      BY Exp07RunAssumption
    <2> QED
      BY <2>1, <2>2, <2>3, TotalIsPositive DEF Absent
  <1>1. CASE CrawlWrites \/ Midnight \/ UNCHANGED runVars
    BY <1>0, <1>1 DEF CrawlWrites, Midnight, runVars
  <1>2. CASE MakeManifest
    BY <1>0, <1>2 DEF MakeManifest, ManifestGate, FingerprintsMatch
  <1>3. CASE Start \/ NoFingerprint \/ ReadBefore
    BY <1>0, <1>3, EmptySeq DEF Start, NoFingerprint, ReadBefore
  <1>4. CASE ReadAfter
    BY <1>0, <1>4 DEF ReadAfter
  <1>5. CASE BeginAttempt
    <2>1. attempts' # <<>>
      BY <1>0, <1>5, BeginAttemptEffect, EmptySeq
    <2> QED
      BY <1>0, <1>5, <2>1 DEF BeginAttempt
  <1>6. CASE Interrupt
    BY <1>0, <1>6 DEF Interrupt
  <1>7. CASE Finalized
    BY <1>0, <1>7 DEF Finalized, WriteSummary, FinalizationFails, Settle
  <1>8. ASSUME NEW outcome \in Outcomes, NEW breaks, Retry(outcome, breaks), attempts # <<>>,
               UNCHANGED <<before, after, manifest>>
        PROVE  StagesFit'
    <2>1. Len(attempts') = Len(attempts)
      BY <1>0, <1>8, FinishedEffect, KeptEffect DEF Retry, Listed, TypeOK
    <2> QED
      BY <1>0, <1>8, <2>1 DEF Retry
  <1>9. ASSUME NEW outcome \in Outcomes, NEW breaks, Recorded(outcome, breaks), attempts # <<>>,
               UNCHANGED <<before, after, manifest>>
        PROVE  StagesFit'
    <2>1. Len(records') = Len(records) + 1
      BY <1>0, <1>9, RecordEffect, AppendProperties DEF Recorded, TypeOK
    <2>2. Len(attempts') = 0
      BY <1>9, EmptySeq DEF Recorded
    <2> QED
      BY <1>0, <1>9, <2>1, <2>2 DEF Recorded
  <1> QED
    BY <1>0, <1>1, <1>2, <1>3, <1>4, <1>5, <1>6, <1>7, <1>8, <1>9, NextKinds

LEMMA BrokenStep ==
    ASSUME Sound, [RunNext]_runVars
    PROVE  BrokenHasFailed'
  <1> USE DEF BrokenHasFailed
  <1>0. /\ TypeOK /\ BrokenHasFailed /\ StagesFit
        /\ Len(attempts) \in Nat /\ consecutive \in Nat
    <2>1. TypeOK /\ BrokenHasFailed /\ StagesFit
      BY DEF Sound
    <2>2. attempts \in Seq(Attempt) /\ consecutive \in 0..Threshold /\ Threshold \in Nat
      BY <2>1, Exp07RunAssumption DEF TypeOK
    <2> QED
      BY <2>1, <2>2, LenProperties
  <1>1. CASE CrawlWrites \/ Midnight \/ UNCHANGED runVars \/ MakeManifest
    BY <1>0, <1>1 DEF CrawlWrites, Midnight, runVars, MakeManifest
  <1>2. CASE NoFingerprint \/ ReadBefore \/ ReadAfter \/ Interrupt \/ Finalized
    BY <1>0, <1>2
    DEF NoFingerprint, ReadBefore, ReadAfter, Interrupt, Finalized, WriteSummary,
        FinalizationFails, Settle
  <1>3. CASE Start
    BY <1>0, <1>3 DEF Start
  <1>4. CASE BeginAttempt
    <2>1. Len(attempts') = Len(attempts) + 1 /\ stage' = "answer" /\ stage = "ask"
          /\ broken' = broken /\ consecutive' = consecutive
      BY <1>0, <1>4, BeginAttemptEffect
    <2> QED
      BY <1>0, <2>1
  <1>5. ASSUME NEW outcome, NEW breaks, broken' = breaks,
               Retry(outcome, breaks)
        PROVE  BrokenHasFailed'
    BY <1>0, <1>5 DEF Retry
  <1>6. ASSUME NEW outcome, NEW breaks, broken' = breaks,
               Recorded(outcome, breaks)
        PROVE  BrokenHasFailed'
    <2>1. broken' => consecutive' = consecutive + 1
      BY <1>6 DEF Recorded
    <2>2. Len(attempts') = 0 /\ stage' \in {"ask", "after"}
      BY <1>6, EmptySeq DEF Recorded
    <2> QED
      BY <1>0, <2>1, <2>2
  <1> QED
    BY <1>0, <1>1, <1>2, <1>3, <1>4, <1>5, <1>6, NextKinds

LEMMA CounterStep ==
    ASSUME Sound, [RunNext]_runVars
    PROVE  CounterCounts'
  <1> USE DEF CounterCounts, LastFailed
  <1>0. /\ TypeOK /\ CounterCounts /\ StagesFit
        /\ Len(records) \in Nat /\ consecutive \in Nat
    BY LenProperties DEF Sound, TypeOK
  <1>1. CASE UNCHANGED <<records, consecutive>>
    BY <1>0, <1>1
  <1>2. ASSUME NEW outcome \in Outcomes, NEW breaks, Recorded(outcome, breaks), attempts # <<>>
        PROVE  CounterCounts'
    <2> DEFINE record == Record(Listed(outcome))
    <2>1. /\ record \in Response /\ record.status \in {"success", "system_error"}
          /\ record.status = "success" <=> outcome = "success"
      BY <1>0, <1>2, RecordEffect
    <2>2. records' = Append(records, record) /\ records \in Seq(Response)
      BY <1>0, <1>2 DEF Recorded, TypeOK
    <2> HIDE DEF record
    <2>3. /\ Len(records') = Len(records) + 1
          /\ records'[Len(records) + 1] = record
          /\ \A i \in 1..Len(records) : records'[i] = records[i]
      BY <2>1, <2>2, AppendProperties
    <2>4. CASE outcome = "success"
      <3>1. consecutive' = 0
        BY <1>2, <2>4 DEF Recorded
      <3> QED
        BY <1>0, <2>1, <2>3, <2>4, <3>1
    <2>5. CASE outcome # "success"
      <3>1. consecutive' = consecutive + 1 /\ record.status = "system_error"
        BY <1>2, <2>1, <2>5 DEF Recorded
      <3>2. LastFailed(consecutive)'
        BY <1>0, <2>3, <3>1
      <3>3. consecutive' < Len(records') =>
              records'[Len(records') - consecutive'].status = "success"
        BY <1>0, <2>3, <3>1
      <3> QED
        BY <3>2, <3>3
    <2> QED
      BY <2>4, <2>5
  <1>3. CASE \/ CrawlWrites \/ Midnight \/ MakeManifest \/ Start \/ NoFingerprint
             \/ ReadBefore \/ ReadAfter \/ BeginAttempt \/ Interrupt \/ Finalized
             \/ UNCHANGED runVars
    BY <1>1, <1>3
    DEF CrawlWrites, Midnight, MakeManifest, Start, NoFingerprint, ReadBefore, ReadAfter,
        BeginAttempt, Interrupt, Finalized, WriteSummary, FinalizationFails, Settle, runVars
  <1>4. ASSUME NEW outcome, NEW breaks, Retry(outcome, breaks)
        PROVE  CounterCounts'
    BY <1>1, <1>4 DEF Retry
  <1> QED
    BY <1>0, <1>2, <1>3, <1>4, NextKinds
-----------------------------------------------------------------------------
\* What lay between the fingerprints stays there.
LEMMA FingerprintsStay ==
    ASSUME Sound, [RunNext]_runVars, stage # "before"
    PROVE  /\ before' = before /\ \A s \in Names : corpus[s] <= corpus'[s]
           /\ \A s \in Names : after'[s] # 0 => after'[s] = after[s] \/ after'[s] = corpus[s]
  <1>0. /\ TypeOK /\ StagesFit
        /\ corpus \in [Names -> 1..MaxVersion] /\ after \in [Names -> 0..MaxVersion]
    BY VersionTypes DEF Sound
  <1>1. CASE CrawlWrites
    BY <1>0, <1>1, CrawlEffect DEF CrawlWrites
  <1>2. CASE ReadAfter
    <2>1. PICK s \in Names : after' = [after EXCEPT ![s] = corpus[s]]
      BY <1>0, <1>2, ReadStoreEffect DEF ReadAfter
    <2> QED
      BY <1>0, <1>2, <2>1 DEF ReadAfter
  <1>3. CASE Finalized
    <2>1. after' \in {after, Unread} /\ UNCHANGED <<corpus, before>>
      BY <1>3 DEF Finalized, WriteSummary, FinalizationFails, Settle
    <2>2. \A s \in Names : Unread[s] = 0
      BY DEF Unread, Names
    <2> QED
      BY <1>0, <2>1, <2>2
  <1>4. CASE UNCHANGED <<corpus, before, after>>
    BY <1>0, <1>4
  <1> QED
    BY <1>0, <1>1, <1>2, <1>3, <1>4, NextKinds
    DEF Midnight, MakeManifest, Start, NoFingerprint, ReadBefore, BeginAttempt, Interrupt, runVars

LEMMA BetweenStays ==
    ASSUME Sound, TypeOK', [RunNext]_runVars, stage # "before", NEW saw \in Versions
    PROVE  /\ Between(saw) => Between(saw)'
           /\ \A d, v \in 0..MaxVersion : IndexIsOf(d, v) => IndexIsOf(d, v)'
  <1>1. /\ "database" \in Names /\ "chroma" \in Names /\ "bm25" \in Names
        /\ corpus \in [Names -> 0..MaxVersion] /\ corpus' \in [Names -> 0..MaxVersion]
        /\ before' = before /\ before \in [Names -> 0..MaxVersion]
        /\ after \in [Names -> 0..MaxVersion] /\ after' \in [Names -> 0..MaxVersion]
        /\ MaxVersion \in Nat
    <2>1. /\ corpus \in [Names -> 1..MaxVersion] /\ corpus' \in [Names -> 1..MaxVersion]
          /\ before \in [Names -> 0..MaxVersion] /\ after \in [Names -> 0..MaxVersion]
          /\ after' \in [Names -> 0..MaxVersion]
      BY StoreNames DEF Sound, TypeOK
    <2>2. before' = before
      BY FingerprintsStay
    <2>3. MaxVersion \in Nat
      BY Exp07RunAssumption
    <2> QED
      BY <2>1, <2>2, <2>3 DEF Names
  <1>2. /\ \A s \in Names : corpus[s] <= corpus'[s]
        /\ \A s \in Names : after'[s] # 0 => after'[s] = after[s] \/ after'[s] = corpus[s]
    BY FingerprintsStay
  <1>3. saw.database \in Nat /\ saw.chroma \in Nat /\ saw.bm25 \in Nat
    BY <1>1 DEF Versions
  <1>4. \A d, v \in Nat : IndexIsOf(d, v) => IndexIsOf(d, v)'
    BY <1>1, <1>2 DEF IndexIsOf
  <1>5. ASSUME Between(saw) PROVE Between(saw)'
    <2>1. IndexIsOf(saw.database, saw.bm25)'
      BY <1>3, <1>4, <1>5 DEF Between
    <2>2. /\ before["chroma"] <= saw.chroma /\ saw.chroma <= corpus'["chroma"]
      BY <1>1, <1>2, <1>3, <1>5 DEF Between
    <2>3. after'["database"] # 0 => saw.database <= after'["database"]
      BY <1>1, <1>2, <1>3, <1>5 DEF Between, IndexIsOf
    <2>4. after'["chroma"] # 0 => saw.chroma <= after'["chroma"]
      BY <1>1, <1>2, <1>3, <1>5 DEF Between
    <2>5. after'["bm25"] # 0 /\ saw.bm25 # 0 => saw.bm25 <= after'["bm25"]
      BY <1>1, <1>2, <1>3, <1>5 DEF Between, IndexIsOf
    <2> QED
      BY <1>1, <2>1, <2>2, <2>3, <2>4, <2>5 DEF Between
  <1> QED
    BY <1>1, <1>4, <1>5

\* The index the retrieval finds is the one for the corpus it reads.
LEMMA CurrentIndexIs ==
    ASSUME Sound, stage = "ask"
    PROVE  /\ IndexIsOf(CurrentIndex.for, CurrentIndex.version)
           /\ CurrentIndex.for = corpus["database"]
  <1>1. /\ "database" \in Names /\ "bm25" \in Names
        /\ corpus \in [Names -> 1..MaxVersion] /\ before \in [Names -> 0..MaxVersion]
        /\ corpus["bm25"] <= corpus["database"]
        /\ \A s \in Names : before[s] <= corpus[s]
        /\ MaxVersion \in Nat
    BY VersionTypes, Exp07RunAssumption, StoreNames DEF Sound, VersionsGrow
  <1>2. CASE index.for = corpus["database"]
    BY <1>1, <1>2 DEF CurrentIndex, Sound, AttemptsAreBetween, Loaded
  <1>3. CASE index.for # corpus["database"]
    <2>1. CurrentIndex = [for |-> corpus["database"],
                          version |-> IF corpus["bm25"] = corpus["database"]
                                      THEN corpus["bm25"] ELSE 0]
      BY <1>3 DEF CurrentIndex
    <2> QED
      BY <1>1, <2>1 DEF IndexIsOf
  <1> QED
    BY <1>2, <1>3

LEMMA SeenStays ==
    ASSUME Sound, TypeOK', [RunNext]_runVars, stage # "before"
    PROVE  Seen \subseteq Seen' /\ Loaded \subseteq Loaded'
  <1>1. \E saw : saw \in Versions
    <2>1. [database |-> 0, chroma |-> 0, bm25 |-> 0] \in Versions
      BY Exp07RunAssumption DEF Versions
    <2> QED
      BY <2>1
  <1>2. \A d, v \in 0..MaxVersion : IndexIsOf(d, v) => IndexIsOf(d, v)'
    BY <1>1, BetweenStays
  <1>3. \A saw \in Versions : Between(saw) => Between(saw)'
    BY BetweenStays
  <1>4. Seen \subseteq Seen'
    BY <1>3 DEF Seen, Versions
  <1>5. Loaded \subseteq Loaded'
    BY <1>2 DEF Loaded
  <1> QED
    BY <1>4, <1>5

\* Closing an attempt keeps what it has seen.
LEMMA ListedSaw ==
    ASSUME TypeOK, attempts # <<>>, NEW outcome \in Outcomes
    PROVE  /\ DOMAIN Listed(outcome) = DOMAIN attempts
           /\ \A i \in DOMAIN attempts : Listed(outcome)[i].saw = attempts[i].saw
           /\ Listed(outcome)[Len(attempts)].outcome = outcome
  <1>1. /\ DOMAIN Listed(outcome) = 1..Len(attempts) /\ DOMAIN attempts = 1..Len(attempts)
        /\ Listed(outcome)[Len(attempts)] = Finished(outcome)
        /\ \A i \in 1..Len(attempts) - 1 : Listed(outcome)[i] = attempts[i]
        /\ Len(attempts) \in Nat
    BY FinishedEffect, KeptEffect DEF Listed, TypeOK
  <1>2. /\ Finished(outcome).saw = attempts[Len(attempts)].saw
        /\ Finished(outcome).outcome = outcome
    BY FinishedEffect
  <1> QED
    BY <1>1, <1>2

\* A new attempt sees the corpus at the version its index is for.
LEMMA BetweenBegins ==
    ASSUME Sound, TypeOK', BeginAttempt, Seen \subseteq Seen', Loaded \subseteq Loaded'
    PROVE  AttemptsAreBetween'
  <1>0. TypeOK /\ StagesFit /\ AttemptsAreBetween /\ VersionsGrow
    BY DEF Sound
  <1>1. /\ stage = "ask" /\ stage' = "answer"
        /\ index' \in [for : 0..MaxVersion, version : 0..MaxVersion]
        /\ attempts' \in Seq(Attempt) /\ Len(attempts') = Len(attempts) + 1
        /\ \A i \in 1..Len(attempts) : attempts'[i] = attempts[i]
        /\ Opening.saw = [database |-> index'.for, chroma |-> corpus.chroma,
                          bm25 |-> index'.version]
        /\ broken => index' = index
        /\ ~broken => index' = CurrentIndex
        /\ UNCHANGED <<corpus, before, after, records, broken>>
    BY <1>0, BeginAttemptEffect
  <1>2. ~broken => index' \in Loaded
    BY <1>1, CurrentIndexIs DEF Loaded
  <1>3. index'.for # 0 => index' \in Loaded'
    BY <1>0, <1>1, <1>2 DEF AttemptsAreBetween
  <1>4. ~broken => Opening.saw \in Seen
    <2>1. /\ corpus["chroma"] \in 1..MaxVersion /\ before["chroma"] <= corpus["chroma"]
          /\ 0..MaxVersion \subseteq Nat
      BY <1>0, VersionTypes, StoreNames, Exp07RunAssumption DEF VersionsGrow
    <2>2. after["database"] = 0 /\ after["chroma"] = 0 /\ after["bm25"] = 0
      BY <1>0, <1>1 DEF VersionsGrow, Unread
    <2>3. Opening.saw \in Versions
      <3>1. corpus["chroma"] \in 0..MaxVersion
        BY <1>0, VersionTypes
      <3> QED
        BY <1>1, <3>1 DEF Versions
    <2>4. ~broken => Between(Opening.saw)
      BY <1>1, <1>2, <2>1, <2>2 DEF Between, Loaded
    <2> QED
      BY <2>3, <2>4 DEF Seen
  <1>5. /\ DOMAIN attempts' = 1..Len(attempts) + 1 /\ DOMAIN attempts = 1..Len(attempts)
        /\ Len(attempts) \in Nat
    BY <1>0, <1>1, LenProperties DEF TypeOK
  <1>6. \A i \in DOMAIN attempts : attempts[i].saw \in Seen
    BY <1>0, <1>1 DEF AttemptsAreBetween
  <1>7. ASSUME NEW i \in DOMAIN attempts'
        PROVE  attempts'[i].saw \in Seen' \/ (broken' /\ i = Len(attempts') /\ stage' = "answer")
    <2>1. CASE i \in DOMAIN attempts
      BY <1>1, <1>5, <1>6, <2>1
    <2>2. CASE i = Len(attempts) + 1
      BY <1>1, <1>4, <2>2 DEF Opening
    <2> QED
      BY <1>5, <2>1, <2>2
  <1> QED
    BY <1>0, <1>1, <1>3, <1>7 DEF AttemptsAreBetween

LEMMA BetweenStep ==
    ASSUME Sound, TypeOK', [RunNext]_runVars
    PROVE  AttemptsAreBetween'
  <1> USE DEF AttemptsAreBetween
  <1>0. /\ TypeOK /\ StagesFit /\ AttemptsAreBetween /\ attempts \in Seq(Attempt)
        /\ index \in [for : 0..MaxVersion, version : 0..MaxVersion]
    BY DEF Sound, TypeOK
  <1>1. CASE stage = "before"
    <2>1. /\ index.for = 0 /\ attempts = <<>> /\ records = <<>>
      BY <1>0, <1>1 DEF StagesFit
    <2>2. UNCHANGED <<index, attempts, records>>
      BY <1>0, <1>1, NextKinds
      DEF CrawlWrites, Midnight, MakeManifest, Start, NoFingerprint, ReadBefore, ReadAfter,
          BeginAttempt, Interrupt, Finalized, WriteSummary, FinalizationFails, Settle, runVars
    <2> QED
      BY <2>1, <2>2, EmptySeq
  <1>2. CASE stage # "before"
    <2>0. Seen \subseteq Seen' /\ Loaded \subseteq Loaded'
      BY <1>2, SeenStays
    <2>1. ASSUME UNCHANGED <<index, records>>, stage' # "before",
                 attempts' = <<>> \/ UNCHANGED <<attempts, stage, broken>>
          PROVE  AttemptsAreBetween'
      BY <1>0, <1>2, <2>0, <2>1, EmptySeq
    <2>2. CASE \/ CrawlWrites \/ Midnight \/ MakeManifest \/ NoFingerprint \/ UNCHANGED runVars
               \/ ReadAfter \/ Interrupt \/ Finalized
      <3>1. UNCHANGED <<index, records>> /\ stage' # "before"
        BY <1>2, <2>2
        DEF CrawlWrites, Midnight, MakeManifest, NoFingerprint, ReadAfter, Interrupt,
            Finalized, WriteSummary, FinalizationFails, Settle, runVars
      <3>2. attempts' = <<>> \/ UNCHANGED <<attempts, stage, broken>>
        BY <1>0, <1>2, <2>2
        DEF CrawlWrites, Midnight, MakeManifest, NoFingerprint, ReadAfter, Interrupt,
            Finalized, WriteSummary, FinalizationFails, Settle, runVars, StagesFit
      <3> QED
        BY <2>1, <3>1, <3>2
    <2>3. CASE BeginAttempt
      BY <1>0, <1>2, <2>0, <2>3, BetweenBegins
    <2>4. ASSUME NEW outcome \in Outcomes, NEW breaks \in BOOLEAN, attempts # <<>>,
                 UNCHANGED index, Retry(outcome, breaks)
          PROVE  AttemptsAreBetween'
      <3>1. \A i \in DOMAIN attempts : attempts[i].saw \in Seen
        BY <1>0, <2>4 DEF Retry
      <3>2. /\ DOMAIN attempts' = DOMAIN attempts
            /\ \A i \in DOMAIN attempts : attempts'[i].saw = attempts[i].saw
        BY <1>0, <2>4, ListedSaw DEF Retry
      <3> QED
        BY <1>0, <1>2, <2>0, <2>4, <3>1, <3>2 DEF Retry
    <2>5. ASSUME NEW outcome \in Outcomes, NEW breaks \in BOOLEAN, attempts # <<>>,
                 UNCHANGED index, Recorded(outcome, breaks)
          PROVE  AttemptsAreBetween'
      <3> DEFINE record == Record(Listed(outcome))
      <3>1. /\ record \in Response /\ record.attempts = Listed(outcome)
            /\ records' = Append(records, record) /\ records \in Seq(Response)
        BY <1>0, <2>5, RecordEffect DEF Recorded, TypeOK
      <3>2. \A i \in DOMAIN record.attempts :
              record.attempts[i].saw \in Seen \/ record.attempts[i].outcome = "fatal"
        <4>1. /\ DOMAIN record.attempts = DOMAIN attempts
              /\ \A i \in DOMAIN attempts : record.attempts[i].saw = attempts[i].saw
              /\ record.attempts[Len(attempts)].outcome = outcome
          BY <1>0, <2>5, <3>1, ListedSaw
        <4>2. broken => outcome = "fatal"
          BY <2>5 DEF Recorded
        <4> QED
          BY <1>0, <4>1, <4>2
      <3> HIDE DEF record
      <3>3. /\ DOMAIN records' = 1..Len(records) + 1 /\ DOMAIN records = 1..Len(records)
            /\ Len(records) \in Nat /\ records'[Len(records) + 1] = record
            /\ \A n \in 1..Len(records) : records'[n] = records[n]
        BY <3>1, AppendProperties, LenProperties
      <3>4. \A n \in DOMAIN records' : \A i \in DOMAIN records'[n].attempts :
              records'[n].attempts[i].saw \in Seen \/ records'[n].attempts[i].outcome = "fatal"
        <4>1. ASSUME NEW n \in DOMAIN records'
              PROVE  (n \in DOMAIN records /\ records'[n] = records[n]) \/ records'[n] = record
          BY <3>3, <4>1
        <4> QED
          BY <1>0, <3>2, <4>1
      <3>5. attempts' = <<>> /\ stage' \in {"ask", "after"}
        BY <2>5 DEF Recorded
      <3> QED
        BY <1>0, <1>2, <2>0, <2>5, <3>4, <3>5, EmptySeq
    <2> QED
      BY <1>0, <1>2, <2>2, <2>3, <2>4, <2>5, NextKinds DEF Start, ReadBefore
  <1> QED
    BY <1>1, <1>2
-----------------------------------------------------------------------------
LEMMA SoundInit == RunInit => Sound
  <1> SUFFICES ASSUME RunInit PROVE Sound
    OBVIOUS
  <1>1. /\ {MaxVersion, MaxDay, Threshold, MaxAttempts} \subseteq Nat \ {0}
        /\ Rounds * QuestionCount \in Nat \ {0}
    BY Exp07RunAssumption, TotalIsPositive
  <1>2. Len(records) = 0 /\ Len(attempts) = 0 /\ DOMAIN records = {} /\ DOMAIN attempts = {}
    BY EmptySeq DEF RunInit
  <1>3. corpus \in [Names -> 1..MaxVersion] /\ Unread \in [Names -> 0..MaxVersion]
        /\ \A s \in Names : Unread[s] = 0
    BY <1>1, StoreNames DEF RunInit, Unread, Names
  <1>4. TypeOK
    <2>1. records \in Seq(Response) /\ attempts \in Seq(Attempt)
      BY EmptySeq DEF RunInit
    <2>2. Len(records) <= Rounds * QuestionCount /\ Len(attempts) <= MaxAttempts
      BY <1>1, <1>2
    <2>3. /\ day \in 1..MaxDay /\ started \in 0..MaxDay /\ consecutive \in 0..Threshold
          /\ index \in [for : 0..MaxVersion, version : 0..MaxVersion]
      BY <1>1 DEF RunInit
    <2>4. {before, after} \subseteq [Names -> 0..MaxVersion]
      BY <1>3 DEF RunInit
    <2> QED
      BY <1>3, <2>1, <2>2, <2>3, <2>4, StoreNames DEF RunInit, TypeOK
  <1>5. VersionsGrow
    <2>1. \A s \in Names : Unread[s] <= corpus[s] /\ corpus[s] \in Nat
      BY <1>3
    <2> QED
      BY <2>1, StoreNames DEF RunInit, VersionsGrow, Names
  <1>6. AttemptsAreBetween
    BY <1>2 DEF RunInit, AttemptsAreBetween
  <1>7. StagesFit
    BY <1>1, <1>2 DEF RunInit, StagesFit, Absent
  <1>8. CounterCounts
    BY <1>2 DEF RunInit, CounterCounts, LastFailed
  <1>9. BrokenHasFailed
    BY DEF RunInit, BrokenHasFailed
  <1> QED
    BY <1>4, <1>5, <1>6, <1>7, <1>8, <1>9 DEF Sound

LEMMA SoundInvariant == RunSpec => []Sound
  <1>1. Sound /\ [RunNext]_runVars => Sound'
    <2> SUFFICES ASSUME Sound, [RunNext]_runVars PROVE Sound'
      OBVIOUS
    <2>1. TypeOK /\ VersionsGrow /\ StagesFit
      BY DEF Sound
    <2>2. TypeOK' /\ VersionsGrow'
      BY <2>1, TypeStep, VersionsStep
    <2> QED
      BY <2>2, StagesStep, BrokenStep, CounterStep, BetweenStep DEF Sound
  <1> QED
    BY <1>1, SoundInit, PTL DEF RunSpec
-----------------------------------------------------------------------------
\* ---- Records, dates and the gate of a completed run.

\* Integer division, and a number rebuilt from its parts.
LEMMA DivideOnce ==
    ASSUME NEW q \in Nat, q > 0, NEW m \in Nat
    PROVE  /\ m \div q \in Nat /\ m % q \in 0..q - 1
           /\ m = q * (m \div q) + (m % q)
  <1>1. m \div q \in Nat /\ m % q \in 0..q - 1
    BY SMT
  <1>2. m = q * (m \div q) + (m % q)
    BY SMTT(60)
  <1> QED
    BY <1>1, <1>2

LEMMA DivideBack ==
    ASSUME NEW q \in Nat, q > 0, NEW a \in Nat, NEW b \in 0..q - 1
    PROVE  (q * a + b) \div q = a /\ (q * a + b) % q = b
  BY SMTT(60)

\* The attempts of a question that is over: the last one ends today.
LEMMA ListedEffect ==
    ASSUME TypeOK, attempts # <<>>, NEW outcome \in Outcomes
    PROVE  LET list == Listed(outcome)
               last == Len(attempts)
           IN  /\ last \in Nat \ {0} /\ Len(list) = last
               /\ DOMAIN list = 1..last /\ DOMAIN attempts = 1..last
               /\ \A i \in 1..last - 1 : list[i] = attempts[i]
               /\ list[last].outcome = outcome /\ list[last].ended = day
               /\ list[last].began = attempts[last].began
  <1>1. Finished(outcome) \in Attempt
    BY FinishedEffect
  <1>2. /\ Finished(outcome).outcome = outcome /\ Finished(outcome).ended = day
        /\ Finished(outcome).began = attempts[Len(attempts)].began
    <2>1. attempts[Len(attempts)] \in Attempt
      <3>1. Len(attempts) \in DOMAIN attempts /\ attempts \in Seq(Attempt)
        BY <1>1, KeptEffect DEF TypeOK
      <3> QED
        BY <3>1, ElementOfSeq
    <2> QED
      BY <2>1 DEF Finished, Attempt
  <1> QED
    BY <1>1, <1>2, KeptEffect DEF Listed, TypeOK

\* The record of a question that is over is the one the gate wants, and in a
\* run that goes on all of it is of the first day.
LEMMA RecordFits ==
    ASSUME Sound, OnCourse, MaxAttempts <= 2, attempts # <<>>,
           NEW outcome \in Outcomes, NEW breaks \in BOOLEAN, Recorded(outcome, breaks)
    PROVE  LET record == Record(Listed(outcome))
           IN  /\ record.round = (Len(records) \div QuestionCount) + 1
               /\ record.ordinal = (Len(records) % QuestionCount) + 1
               /\ RightAttempts(record)
               /\ reason' = Absent =>
                    \A i \in DOMAIN record.attempts :
                        record.attempts[i].began = started /\ record.attempts[i].ended = started
  <1> DEFINE list == Listed(outcome)
             last == Len(attempts)
             record == Record(list)
  <1>0. /\ TypeOK /\ stage = "answer" /\ RightSoFar /\ OneDay
        /\ MaxAttempts \in Nat /\ last <= MaxAttempts
        /\ day \in Nat /\ started \in Nat
    <2>1. TypeOK /\ RightSoFar /\ OneDay
      BY DEF Sound, OnCourse
    <2>2. stage = "answer"
      BY DEF Recorded
    <2>3. MaxAttempts \in Nat
      BY Exp07RunAssumption
    <2>4. last <= MaxAttempts
      BY <2>1 DEF TypeOK
    <2>5. day \in Nat /\ started \in Nat
      BY <2>1 DEF TypeOK
    <2> QED
      BY <2>1, <2>2, <2>3, <2>4, <2>5
  <1>1. /\ last \in Nat \ {0} /\ Len(list) = last
        /\ DOMAIN list = 1..last /\ DOMAIN attempts = 1..last
        /\ \A i \in 1..last - 1 : list[i] = attempts[i]
        /\ list[last].outcome = outcome /\ list[last].ended = day
        /\ list[last].began = attempts[last].began
    BY <1>0, ListedEffect
  <1> HIDE DEF list, last
  <1>2. /\ record.attempts = list /\ record.round = Place.round /\ record.ordinal = Place.ordinal
        /\ record.status = IF outcome = "success" THEN "success" ELSE "system_error"
        /\ outcome = "success" => record.selected = last
    BY <1>1 DEF Record
  <1>3. /\ record.round = (Len(records) \div QuestionCount) + 1
        /\ record.ordinal = (Len(records) % QuestionCount) + 1
    BY <1>2 DEF Place
  <1> HIDE DEF record
  <1>4. \A i \in 1..last - 1 : list[i].outcome = "retryable"
    BY <1>0, <1>1 DEF RightSoFar, last
  <1>5. RightAttempts(record)
    <2>1. last \in 1..2
      BY <1>0, <1>1
    <2>2. last = 2 => list[1].outcome = "retryable"
      BY <1>4
    <2>3. CASE outcome = "success"
      <3>1. record.status = "success" /\ record.selected = last
        BY <1>2, <2>3
      <3> QED
        BY <1>1, <1>2, <1>4, <2>1, <2>2, <2>3, <3>1 DEF RightAttempts
    <2>4. CASE outcome # "success"
      <3>1. record.status # "success"
        BY <1>2, <2>4
      <3>2. \A i \in 1..last : list[i].outcome # "success"
        BY <1>1, <1>4, <2>4
      <3> QED
        BY <1>1, <1>2, <2>1, <2>2, <3>1, <3>2 DEF RightAttempts
    <2> QED
      BY <2>3, <2>4
  <1>6. ASSUME reason' = Absent
        PROVE  \A i \in 1..last : list[i].began = started /\ list[i].ended = started
    <2>1. day = started
      BY <1>6 DEF Recorded, Absent
    <2>2. \A i \in 1..last : attempts[i].began \in started..day
      BY <1>0, <1>1 DEF OneDay
    <2>3. \A i \in 1..last - 1 : attempts[i].ended \in started..day
      BY <1>0, <1>1 DEF OneDay, last
    <2>4. ASSUME NEW i \in 1..last - 1 PROVE list[i].began = started /\ list[i].ended = started
      BY <1>0, <1>1, <2>1, <2>2, <2>3
    <2>5. list[last].began = started /\ list[last].ended = started
      BY <1>0, <1>1, <2>1, <2>2
    <2> QED
      BY <1>1, <2>4, <2>5
  <1> QED
    BY <1>1, <1>2, <1>3, <1>5, <1>6 DEF record, list

LEMMA OnCourseInit == RunInit => OnCourse
  <1>1. RunInit => DOMAIN records = {} /\ DOMAIN attempts = {}
    BY EmptySeq DEF RunInit
  <1> QED
    BY <1>1 DEF RunInit, OnCourse, PlacesFit, RightSoFar, OneDay, AllAsked

\* What every step but the end of an attempt leaves alone.
LEMMA RecordsStay ==
    ASSUME Sound, [RunNext]_runVars
    PROVE  \/ UNCHANGED records
           \/ \E outcome \in Outcomes, breaks \in BOOLEAN :
                /\ Recorded(outcome, breaks) /\ attempts # <<>>
                /\ UNCHANGED <<before, after, day, started>>
  <1>1. TypeOK /\ StagesFit
    BY DEF Sound
  <1> QED
    BY <1>1, NextKinds
    DEF CrawlWrites, Midnight, MakeManifest, Start, NoFingerprint, ReadBefore, ReadAfter,
        BeginAttempt, Interrupt, Finalized, WriteSummary, FinalizationFails, Settle, Retry, runVars

\* A record goes to the end of the file.
LEMMA RecordedEffect ==
    ASSUME TypeOK, attempts # <<>>,
           NEW outcome \in Outcomes, NEW breaks \in BOOLEAN, Recorded(outcome, breaks)
    PROVE  /\ Len(records) \in Nat /\ Len(records') = Len(records) + 1
           /\ DOMAIN records = 1..Len(records) /\ DOMAIN records' = 1..Len(records) + 1
           /\ \A n \in DOMAIN records : records'[n] = records[n]
           /\ records'[Len(records) + 1] = Record(Listed(outcome))
  <1> DEFINE record == Record(Listed(outcome))
  <1>1. record \in Response /\ records' = Append(records, record) /\ records \in Seq(Response)
    BY RecordEffect DEF Recorded, TypeOK
  <1> HIDE DEF record
  <1>2. /\ Len(records) \in Nat /\ Len(records') = Len(records) + 1 /\ records' \in Seq(Response)
        /\ \A n \in 1..Len(records) : records'[n] = records[n]
        /\ records'[Len(records) + 1] = record
    BY <1>1, AppendProperties, LenProperties
  <1>3. DOMAIN records = 1..Len(records) /\ DOMAIN records' = 1..Len(records) + 1
    BY <1>1, <1>2, LenProperties
  <1> QED
    BY <1>2, <1>3 DEF record

LEMMA PlacesStep ==
    ASSUME Sound, OnCourse, MaxAttempts <= 2, [RunNext]_runVars
    PROVE  PlacesFit'
  <1> USE DEF PlacesFit
  <1>1. TypeOK /\ PlacesFit
    BY DEF Sound, OnCourse
  <1>2. CASE UNCHANGED records
    BY <1>1, <1>2
  <1>3. ASSUME NEW outcome \in Outcomes, NEW breaks \in BOOLEAN, Recorded(outcome, breaks),
               attempts # <<>>
        PROVE  PlacesFit'
    <2>1. /\ Record(Listed(outcome)).round = (Len(records) \div QuestionCount) + 1
          /\ Record(Listed(outcome)).ordinal = (Len(records) % QuestionCount) + 1
      BY <1>3, RecordFits
    <2>2. /\ Len(records) \in Nat
          /\ DOMAIN records = 1..Len(records) /\ DOMAIN records' = 1..Len(records) + 1
          /\ \A n \in DOMAIN records : records'[n] = records[n]
          /\ records'[Len(records) + 1] = Record(Listed(outcome))
      BY <1>1, <1>3, RecordedEffect
    <2>3. ASSUME NEW n \in DOMAIN records'
          PROVE  /\ records'[n].round = ((n - 1) \div QuestionCount) + 1
                 /\ records'[n].ordinal = ((n - 1) % QuestionCount) + 1
      <3>1. CASE n \in DOMAIN records
        BY <1>1, <2>2, <3>1
      <3>2. CASE n = Len(records) + 1
        <4>1. n - 1 = Len(records)
          BY <2>2, <3>2
        <4> QED
          BY <2>1, <2>2, <3>2, <4>1
      <3> QED
        BY <2>2, <3>1, <3>2
    <2> QED
      BY <2>3
  <1> QED
    BY <1>2, <1>3, RecordsStay

LEMMA RightStep ==
    ASSUME Sound, OnCourse, MaxAttempts <= 2, [RunNext]_runVars
    PROVE  RightSoFar'
  <1> USE DEF RightSoFar
  <1>1. TypeOK /\ StagesFit /\ RightSoFar
    BY DEF Sound, OnCourse
  <1>2. \A n \in DOMAIN records' : RightAttempts(records'[n])
    <2>1. CASE UNCHANGED records
      BY <1>1, <2>1
    <2>2. ASSUME NEW outcome \in Outcomes, NEW breaks \in BOOLEAN, Recorded(outcome, breaks),
                 attempts # <<>>
          PROVE  \A n \in DOMAIN records' : RightAttempts(records'[n])
      <3>1. RightAttempts(Record(Listed(outcome)))
        BY <2>2, RecordFits
      <3>2. /\ Len(records) \in Nat
            /\ DOMAIN records = 1..Len(records) /\ DOMAIN records' = 1..Len(records) + 1
            /\ \A n \in DOMAIN records : records'[n] = records[n]
            /\ records'[Len(records) + 1] = Record(Listed(outcome))
        BY <1>1, <2>2, RecordedEffect
      <3>3. ASSUME NEW n \in DOMAIN records'
            PROVE  (n \in DOMAIN records /\ records'[n] = records[n])
                   \/ records'[n] = Record(Listed(outcome))
        BY <3>2
      <3> QED
        BY <1>1, <3>1, <3>3
    <2> QED
      BY <2>1, <2>2, RecordsStay
  <1>3. \A i \in DOMAIN attempts' :
            (i < Len(attempts') \/ stage' = "ask") => attempts'[i].outcome = "retryable"
    <2>1. CASE attempts' = <<>>
      BY <2>1, EmptySeq
    <2>2. CASE UNCHANGED <<attempts, stage>>
      BY <1>1, <2>2
    <2>3. CASE BeginAttempt
      <3>1. /\ stage = "ask" /\ stage' = "answer"
            /\ attempts' \in Seq(Attempt) /\ Len(attempts') = Len(attempts) + 1
            /\ \A i \in 1..Len(attempts) : attempts'[i] = attempts[i]
        BY <1>1, <2>3, BeginAttemptEffect
      <3>2. DOMAIN attempts = 1..Len(attempts) /\ Len(attempts) \in Nat
            /\ DOMAIN attempts' = 1..Len(attempts')
        BY <1>1, <3>1, LenProperties DEF TypeOK
      <3> QED
        BY <1>1, <3>1, <3>2
    <2>4. ASSUME NEW outcome \in Outcomes, NEW breaks \in BOOLEAN, Retry(outcome, breaks),
                 attempts # <<>>
          PROVE  \A i \in DOMAIN attempts' : attempts'[i].outcome = "retryable"
      <3>1. outcome = "retryable" /\ attempts' = Listed(outcome) /\ stage = "answer"
        BY <2>4 DEF Retry
      <3>2. /\ Len(attempts) \in Nat \ {0}
            /\ DOMAIN attempts' = 1..Len(attempts) /\ DOMAIN attempts = 1..Len(attempts)
            /\ \A i \in 1..Len(attempts) - 1 : attempts'[i] = attempts[i]
            /\ attempts'[Len(attempts)].outcome = outcome
        BY <1>1, <2>4, <3>1, ListedEffect
      <3> QED
        BY <1>1, <3>1, <3>2
    <2>5. ASSUME NEW outcome \in Outcomes, NEW breaks \in BOOLEAN, Recorded(outcome, breaks)
          PROVE  attempts' = <<>>
      BY <2>5 DEF Recorded
    <2>6. CASE \/ CrawlWrites \/ Midnight \/ MakeManifest \/ UNCHANGED runVars \/ ReadBefore
               \/ ReadAfter
      BY <2>2, <2>6 DEF CrawlWrites, Midnight, MakeManifest, ReadBefore, ReadAfter, runVars
    <2>7. CASE Start \/ NoFingerprint \/ Interrupt \/ Finalized
      BY <1>1, <2>1, <2>7
      DEF Start, NoFingerprint, Interrupt, Finalized, WriteSummary, FinalizationFails, Settle,
          StagesFit
    <2> QED
      BY <1>1, <2>1, <2>3, <2>4, <2>5, <2>6, <2>7, NextKinds
  <1> QED
    BY <1>2, <1>3

LEMMA DaysStep ==
    ASSUME Sound, OnCourse, MaxAttempts <= 2, [RunNext]_runVars
    PROVE  OneDay'
  <1> USE DEF OneDay
  <1>1. /\ TypeOK /\ StagesFit /\ OneDay /\ day \in Nat \ {0} /\ started \in Nat
        /\ attempts \in Seq(Attempt)
    BY DEF Sound, OnCourse, TypeOK
  <1>2. ASSUME attempts' = <<>>, UNCHANGED <<day, started, records>>,
               status' = "completed" => status = "completed",
               stage' \notin {"before", "dead"} => stage \notin {"before", "dead"}
        PROVE  OneDay'
    BY <1>1, <1>2, EmptySeq
  <1>3. CASE Midnight
    <2>1. day' = day + 1 /\ UNCHANGED <<started, stage, attempts, records, status>>
      BY <1>3 DEF Midnight
    <2> QED
      BY <1>1, <2>1
  <1>4. CASE CrawlWrites \/ MakeManifest \/ UNCHANGED runVars \/ ReadBefore \/ ReadAfter
    BY <1>1, <1>4 DEF CrawlWrites, MakeManifest, ReadBefore, ReadAfter, runVars
  <1>5. CASE NoFingerprint \/ Interrupt \/ Finalized
    BY <1>1, <1>2, <1>5
    DEF NoFingerprint, Interrupt, Finalized, WriteSummary, FinalizationFails, Settle, StagesFit
  <1>6. CASE Start
    <2>1. /\ attempts' = <<>> /\ records' = <<>> /\ started' = day /\ day' = day
      BY <1>1, <1>6 DEF Start, StagesFit
    <2> QED
      BY <1>1, <2>1, EmptySeq
  <1>7. CASE BeginAttempt
    <2>1. /\ stage = "ask" /\ stage' = "answer"
          /\ attempts' \in Seq(Attempt) /\ Len(attempts') = Len(attempts) + 1
          /\ \A i \in 1..Len(attempts) : attempts'[i] = attempts[i]
          /\ UNCHANGED <<day, started, records, status>>
      BY <1>1, <1>7, BeginAttemptEffect
    <2>2. attempts'[Len(attempts) + 1].began = day
      BY <1>1, <1>7, AppendProperties DEF BeginAttempt
    <2>3. DOMAIN attempts = 1..Len(attempts) /\ Len(attempts) \in Nat
          /\ DOMAIN attempts' = 1..Len(attempts) + 1
      BY <1>1, <2>1, LenProperties
    <2>4. ASSUME NEW i \in DOMAIN attempts'
          PROVE  /\ attempts'[i].began \in started..day
                 /\ i < Len(attempts') => attempts'[i].ended \in started..day
      BY <1>1, <2>1, <2>2, <2>3
    <2> QED
      BY <1>1, <2>1, <2>4
  <1>8. ASSUME NEW outcome \in Outcomes, NEW breaks \in BOOLEAN, Retry(outcome, breaks),
               attempts # <<>>, UNCHANGED <<day, started>>
        PROVE  OneDay'
    <2>1. /\ attempts' = Listed(outcome) /\ stage = "answer" /\ stage' = "ask"
          /\ UNCHANGED <<records, status>>
      BY <1>8 DEF Retry
    <2>2. /\ Len(attempts) \in Nat \ {0}
          /\ DOMAIN attempts' = 1..Len(attempts) /\ DOMAIN attempts = 1..Len(attempts)
          /\ \A i \in 1..Len(attempts) - 1 : attempts'[i] = attempts[i]
          /\ attempts'[Len(attempts)].ended = day
          /\ attempts'[Len(attempts)].began = attempts[Len(attempts)].began
      BY <1>1, <1>8, <2>1, ListedEffect
    <2>3. ASSUME NEW i \in DOMAIN attempts'
          PROVE  attempts'[i].began \in started..day /\ attempts'[i].ended \in started..day
      <3>1. CASE i = Len(attempts)
        BY <1>1, <2>1, <2>2, <3>1
      <3>2. CASE i \in 1..Len(attempts) - 1
        BY <1>1, <2>2, <3>2
      <3> QED
        BY <2>2, <3>1, <3>2
    <2> QED
      BY <1>1, <1>8, <2>1, <2>3
  <1>9. ASSUME NEW outcome \in Outcomes, NEW breaks \in BOOLEAN, Recorded(outcome, breaks),
               attempts # <<>>, UNCHANGED <<day, started>>
        PROVE  OneDay'
    <2>1. stage = "answer" /\ attempts' = <<>> /\ status = "completed"
          /\ (status' = "completed" => reason' = Absent)
      BY <1>1, <1>9 DEF Recorded, StagesFit
    <2>2. reason' = Absent =>
            \A i \in DOMAIN Record(Listed(outcome)).attempts :
                /\ Record(Listed(outcome)).attempts[i].began = started
                /\ Record(Listed(outcome)).attempts[i].ended = started
      BY <1>9, RecordFits
    <2>3. /\ Len(records) \in Nat
          /\ DOMAIN records = 1..Len(records) /\ DOMAIN records' = 1..Len(records) + 1
          /\ \A n \in DOMAIN records : records'[n] = records[n]
          /\ records'[Len(records) + 1] = Record(Listed(outcome))
      BY <1>1, <1>9, RecordedEffect
    <2>4. ASSUME status' = "completed", NEW n \in DOMAIN records',
                 NEW i \in DOMAIN records'[n].attempts
          PROVE  records'[n].attempts[i].began = started /\ records'[n].attempts[i].ended = started
      <3>1. (n \in DOMAIN records /\ records'[n] = records[n])
            \/ records'[n] = Record(Listed(outcome))
        BY <2>3
      <3> QED
        BY <1>1, <2>1, <2>2, <2>4, <3>1
    <2> QED
      BY <1>1, <1>9, <2>1, <2>4, EmptySeq
  <1> QED
    BY <1>1, <1>3, <1>4, <1>5, <1>6, <1>7, <1>8, <1>9, NextKinds

LEMMA AskedStep ==
    ASSUME Sound, OnCourse, [RunNext]_runVars
    PROVE  AllAsked'
  <1> USE DEF AllAsked
  <1>1. TypeOK /\ StagesFit /\ AllAsked
    BY DEF Sound, OnCourse
  <1>2. CASE \/ CrawlWrites \/ Midnight \/ MakeManifest \/ UNCHANGED runVars \/ Start
             \/ NoFingerprint \/ ReadBefore \/ ReadAfter \/ BeginAttempt \/ Interrupt
    BY <1>1, <1>2
    DEF CrawlWrites, Midnight, MakeManifest, Start, NoFingerprint, ReadBefore, ReadAfter,
        BeginAttempt, Interrupt, runVars
  <1>3. CASE Finalized
    BY <1>1, <1>3
    DEF Finalized, WriteSummary, FinalizationFails, Settle, FingerprintsMatch
  <1>4. ASSUME NEW outcome \in Outcomes, NEW breaks \in BOOLEAN,
               Retry(outcome, breaks) \/ Recorded(outcome, breaks)
        PROVE  AllAsked'
    BY <1>1, <1>4 DEF Retry, Recorded, Absent
  <1> QED
    BY <1>1, <1>2, <1>3, <1>4, NextKinds

LEMMA OnCourseInvariant ==
    ASSUME MaxAttempts <= 2
    PROVE  RunSpec => []OnCourse
  <1>1. Sound /\ OnCourse /\ [RunNext]_runVars => OnCourse'
    BY PlacesStep, RightStep, DaysStep, AskedStep DEF OnCourse
  <1> QED
    BY <1>1, OnCourseInit, SoundInvariant, PTL DEF RunSpec


\* A round's rows are consecutive lines of the file.
LEMMA RoundsAreRuns ==
    ASSUME PlacesFit, DOMAIN records = 1..Rounds * QuestionCount, NEW round \in 1..Rounds
    PROVE  InFrozenOrder(round)
  <1> DEFINE q == QuestionCount
             first == q * (round - 1)
  <1>0. q \in Nat /\ q > 0 /\ Rounds \in Nat /\ round - 1 \in Nat
    BY Exp07RunAssumption
  <1>1. first \in Nat
    BY <1>0
  <1>2. first + q <= Rounds * q
    <2>1. round - 1 + 1 <= Rounds
      BY <1>0
    <2>2. q * (round - 1) + q = q * (round - 1 + 1)
      BY <1>0, SMT
    <2>3. q * (round - 1 + 1) <= q * Rounds
      BY <1>0, <2>1, SMT
    <2> QED
      BY <1>0, <2>2, <2>3, SMT
  <1> HIDE DEF q
  <1>3. ASSUME NEW b \in 0..q - 1
        PROVE  /\ first + b + 1 \in RowsOf(round)
               /\ records[first + b + 1].ordinal = b + 1
    <2> DEFINE n == first + b + 1
    <2>1. (n - 1) \div q = round - 1 /\ (n - 1) % q = b
      <3>1. n - 1 = q * (round - 1) + b
        BY <1>0, <1>1
      <3>2. (q * (round - 1) + b) \div q = round - 1 /\ (q * (round - 1) + b) % q = b
        BY <1>0, DivideBack
      <3> QED
        BY <3>1, <3>2
    <2>2. n \in 1..Rounds * q
      <3> HIDE DEF first
      <3> QED
        BY <1>0, <1>1, <1>2
    <2> HIDE DEF n
    <2>3. n \in DOMAIN records
      BY <2>2 DEF q
    <2>4. records[n].round = ((n - 1) \div q) + 1 /\ records[n].ordinal = ((n - 1) % q) + 1
      BY <2>3 DEF PlacesFit, q
    <2>5. records[n].round = round /\ records[n].ordinal = b + 1
      BY <1>0, <2>1, <2>4
    <2> QED
      BY <2>3, <2>5 DEF RowsOf, n
  <1>4. ASSUME NEW n \in RowsOf(round)
        PROVE  \E b \in 0..q - 1 : n = first + b + 1
    <2>1. n \in 1..Rounds * q /\ n \in DOMAIN records /\ records[n].round = round
      BY DEF RowsOf, q
    <2>2. round = ((n - 1) \div q) + 1
      BY <2>1 DEF PlacesFit, q
    <2>3. n - 1 \in Nat
      BY <1>0, <2>1
    <2>4. /\ (n - 1) \div q \in Nat /\ (n - 1) % q \in 0..q - 1
          /\ n - 1 = q * ((n - 1) \div q) + ((n - 1) % q)
      BY <1>0, <2>3, DivideOnce
    <2>5. (n - 1) \div q = round - 1
      BY <2>2, <2>4
    <2>6. n - 1 = first + ((n - 1) % q)
      BY <2>4, <2>5
    <2> DEFINE b == (n - 1) % q
    <2>7. b \in 0..q - 1 /\ n - 1 = first + b
      BY <2>4, <2>6
    <2> HIDE DEF b, first
    <2>8. n = first + b + 1
      BY <1>0, <1>1, <2>1, <2>7
    <2> QED
      BY <2>7, <2>8
  <1> HIDE DEF first
  <1>5. RowsOf(round) = first + 1 .. first + q
    <2>1. ASSUME NEW n \in first + 1 .. first + q PROVE n \in RowsOf(round)
      <3>1. n - 1 - first \in 0..q - 1 /\ n = first + (n - 1 - first) + 1
        BY <1>0, <1>1
      <3> QED
        BY <1>3, <3>1
    <2>2. ASSUME NEW n \in RowsOf(round) PROVE n \in first + 1 .. first + q
      BY <1>0, <1>1, <1>4
    <2> QED
      BY <2>1, <2>2
  <1>6. Cardinality(RowsOf(round)) = q
    <2>1. Cardinality(first + 1 .. first + q) = q
      BY <1>0, <1>1, FS_Interval
    <2> QED
      BY <1>5, <2>1
  <1>7. {records[n].ordinal : n \in RowsOf(round)} = 1..q
    <2>1. ASSUME NEW n \in RowsOf(round) PROVE records[n].ordinal \in 1..q
      <3>1. PICK b \in 0..q - 1 : n = first + b + 1
        BY <1>4
      <3> QED
        BY <1>0, <1>3, <3>1
    <2>2. ASSUME NEW k \in 1..q PROVE \E n \in RowsOf(round) : records[n].ordinal = k
      <3>1. k - 1 \in 0..q - 1 /\ (k - 1) + 1 = k
        BY <1>0
      <3> QED
        BY <1>3, <3>1
    <2> QED
      BY <2>1, <2>2
  <1> QED
    BY <1>6, <1>7 DEF InFrozenOrder, q

\* Every variable has its type in every reachable state: no more attempts
\* than MAX_EXECUTION_ATTEMPTS, no more records than the frozen order, no
\* more failures in a row than the threshold (run_question, execute).
THEOREM RunTypeCorrect == RunSpec => []TypeOK
  <1>1. Sound => TypeOK
    BY DEF Sound
  <1> QED
    BY <1>1, SoundInvariant, PTL

\* A run is cut at Threshold system errors in a row, wherever the rounds part
\* them, and for nothing less; once its session is broken the next question
\* is already a failure, and no answer follows (SYSTEMIC_FAILURE_THRESHOLD).
THEOREM FailuresCorrect == RunSpec => []FailuresCutTheRun
  <1>1. Sound => FailuresCutTheRun
    <2> SUFFICES ASSUME Sound PROVE FailuresCutTheRun
      OBVIOUS
    <2>1. /\ TypeOK /\ StagesFit /\ CounterCounts /\ BrokenHasFailed
          /\ Len(records) \in Nat /\ consecutive \in 0..Threshold /\ Threshold \in Nat \ {0}
          /\ Len(attempts) \in Nat
      BY LenProperties, Exp07RunAssumption DEF Sound, TypeOK
    <2>2. ASSUME NEW count \in 0..consecutive PROVE LastFailed(count)
      BY <2>1, <2>2 DEF CounterCounts, LastFailed
    <2>3. ASSUME NEW count \in Nat, LastFailed(count) PROVE count <= consecutive
      <3> SUFFICES ASSUME consecutive < count PROVE FALSE
        BY <2>1
      <3>1. consecutive < Len(records) /\ Len(records) - consecutive \in Len(records) - count + 1 .. Len(records)
        BY <2>1, <2>3 DEF LastFailed
      <3> QED
        BY <2>1, <2>3, <3>1 DEF CounterCounts, LastFailed
    <2>4. LastFailed(Threshold) <=> consecutive = Threshold
      BY <2>1, <2>2, <2>3
    <2>5. ThreeFailuresAbort
      BY <2>1, <2>4 DEF ThreeFailuresAbort, StagesFit
    <2>6. BrokenSessionIsCut
      <3> SUFFICES ASSUME broken, stage \in {"ask", "answer"}
                   PROVE  /\ LastFailed(1) /\ ~LastFailed(Threshold)
                          /\ attempts = <<>> \/ Len(attempts) = 1
        BY DEF BrokenSessionIsCut
      <3>1. consecutive > 0 /\ consecutive < Threshold
        BY <2>1 DEF BrokenHasFailed, StagesFit
      <3>2. LastFailed(1) /\ ~LastFailed(Threshold)
        BY <2>1, <2>2, <2>4, <3>1
      <3>3. attempts = <<>> \/ Len(attempts) = 1
        BY <2>1, EmptySeq DEF BrokenHasFailed, TypeOK
      <3> QED
        BY <3>2, <3>3
    <2> QED
      BY <2>5, <2>6 DEF FailuresCutTheRun
  <1> QED
    BY <1>1, SoundInvariant, PTL

\* What a manifest freezes was answered from one corpus: when the two
\* fingerprints agree, every attempt on record saw their versions of all three
\* stores, however a crawl round wrote to them in between
\* (corpus_fingerprint, fingerprints_match).
THEOREM OneCorpusCorrect == RunSpec => []OneCorpus
  <1>1. Sound => OneCorpus
    <2> SUFFICES ASSUME Sound, manifest,
                        NEW n \in DOMAIN records, NEW i \in DOMAIN records[n].attempts,
                        records[n].attempts[i].outcome # "fatal"
                 PROVE  records[n].attempts[i].saw
                          = [before EXCEPT !.bm25 = IF before.bm25 = before.database
                                                    THEN @ ELSE 0]
      BY DEF OneCorpus
    <2> DEFINE saw == records[n].attempts[i].saw
    <2>1. /\ before = after /\ stage = "ended"
          /\ before \in [Names -> 0..MaxVersion] /\ MaxVersion \in Nat
          /\ \A s \in Names : before[s] # 0
      BY VersionTypes, StoreNames, Exp07RunAssumption DEF Sound, StagesFit, VersionsGrow
    <2>2. saw \in Versions /\ Between(saw)
      BY DEF Sound, AttemptsAreBetween, Seen
    <2> HIDE DEF saw
    <2>3. /\ saw.database \in Nat /\ saw.chroma \in Nat /\ saw.bm25 \in Nat
          /\ "database" \in Names /\ "chroma" \in Names /\ "bm25" \in Names
          /\ saw = [database |-> saw.database, chroma |-> saw.chroma, bm25 |-> saw.bm25]
      BY <2>1, <2>2 DEF Versions, Names
    <2>4. before["database"] \in Nat /\ before["chroma"] \in Nat /\ before["bm25"] \in Nat
      BY <2>1, <2>3
    <2>5. saw.database = before["database"] /\ saw.chroma = before["chroma"]
      BY <2>1, <2>2, <2>3, <2>4 DEF Between, IndexIsOf
    <2>6. saw.bm25 = IF before["bm25"] = before["database"] THEN before["bm25"] ELSE 0
      BY <2>1, <2>2, <2>3, <2>4, <2>5 DEF Between, IndexIsOf
    <2>7. before = [database |-> before["database"], chroma |-> before["chroma"],
                    bm25 |-> before["bm25"]]
      BY <2>1 DEF Names
    <2> QED
      BY <2>3, <2>5, <2>6, <2>7 DEF saw
  <1> QED
    BY <1>1, SoundInvariant, PTL
\* The runner and the gate agree: whatever is retried, recorded, counted,
\* interrupted or lost at the end, a run that ends as completed has every
\* round in the frozen order, the attempts the gate asks of a record, one
\* date and one corpus, with the retry that the gate allows too
\* (validate_run_artifacts, MAX_EXECUTION_ATTEMPTS).
THEOREM GateCorrect ==
    ASSUME MaxAttempts <= 2
    PROVE  RunSpec => []CompletedPassesTheGate
  <1>1. Sound /\ OnCourse => CompletedPassesTheGate
    <2> SUFFICES ASSUME Sound, OnCourse, stage = "ended", status = "completed" PROVE ManifestGate
      BY DEF CompletedPassesTheGate
    <2>0. /\ TypeOK /\ PlacesFit /\ RightSoFar /\ OneDay
          /\ Len(records) = Rounds * QuestionCount /\ before = after
      BY DEF Sound, OnCourse, AllAsked
    <2>1. DOMAIN records = 1..Rounds * QuestionCount
      BY <2>0, LenProperties DEF TypeOK
    <2>2. \A round \in 1..Rounds : InFrozenOrder(round)
      BY <2>0, <2>1, RoundsAreRuns
    <2>3. ObservedDates = {started}
      <3>1. ASSUME NEW n \in DOMAIN records, NEW a \in ToSet(records[n].attempts)
            PROVE  {a.began, a.ended} = {started}
        <4>1. PICK i \in DOMAIN records[n].attempts : a = records[n].attempts[i]
          BY DEF ToSet
        <4> QED
          BY <2>0, <4>1 DEF OneDay
      <3>2. \E n \in DOMAIN records : ToSet(records[n].attempts) # {}
        <4>1. 1 \in DOMAIN records
          BY <2>1, TotalIsPositive
        <4>2. Len(records[1].attempts) \in 1..2
          BY <2>0, <4>1 DEF RightSoFar, RightAttempts
        <4>3. records[1] \in Response
          BY <2>0, <2>1, <4>1, ElementOfSeq DEF TypeOK
        <4>4. records[1].attempts \in Seq(Attempt)
          BY <4>3 DEF Response
        <4>5. 1 \in DOMAIN records[1].attempts
          BY <4>2, <4>4, LenProperties
        <4>6. records[1].attempts[1] \in ToSet(records[1].attempts)
          BY <4>5 DEF ToSet
        <4> QED
          BY <4>1, <4>6
      <3> QED
        BY <3>1, <3>2 DEF ObservedDates
    <2> QED
      BY <2>0, <2>2, <2>3 DEF ManifestGate, FingerprintsMatch, RightSoFar
  <1> QED
    BY <1>1, SoundInvariant, OnCourseInvariant, PTL

-----------------------------------------------------------------------------
(* The pacing of the calls.                                                *)

PacingTyped ==
    /\ now \in Nat /\ nextStart \in Nat /\ wake \in Nat
    /\ lastStart \in Int /\ askedUntil \in Nat
    /\ pc \in {"idle", "sleeping", "calling"}

\* The limiter knows of every obligation, and a sleep is never shorter than
\* what it knew: nothing moves next_start while a call waits.
Obliged ==
    /\ nextStart >= lastStart + Interval
    /\ nextStart >= askedUntil
    /\ pc = "sleeping" => wake >= nextStart

Paced == PacingTyped /\ Obliged

LEMMA PacedStart ==
    ASSUME Interval \in Nat, Pacing!Init
    PROVE  Paced
  BY DEF Pacing!Init, Paced, PacingTyped, Obliged

LEMMA PacedStep ==
    ASSUME Interval \in Nat, Paced, [Pacing!Next]_Pacing!vars
    PROVE  Paced'
  <1> USE DEF Paced, PacingTyped, Obliged
  <1>1. CASE Pacing!Pass
    BY <1>1, SMT DEF Pacing!Pass
  <1>2. CASE Pacing!Wait
    BY <1>2, SMT DEF Pacing!Wait, Pacing!Delay, Pacing!MaxTime
  <1>3. CASE Pacing!Start
    BY <1>3, SMT DEF Pacing!Start, Pacing!MaxTime
  <1>4. CASE Pacing!Answered
    BY <1>4, SMT DEF Pacing!Answered
  <1>5. CASE Pacing!Fails
    <2>1. PICK seconds \in Nat :
            /\ nextStart' = Pacing!Deferred(seconds)
            /\ askedUntil' = Pacing!MaxTime(askedUntil, IF seconds = 0 THEN 0 ELSE now + seconds)
      BY <1>5 DEF Pacing!Fails, Pacing!RetryAfter
    <2> QED
      BY <1>5, <2>1, SMT DEF Pacing!Fails, Pacing!Deferred, Pacing!MaxTime
  <1>6. CASE UNCHANGED Pacing!vars
    BY <1>6, SMT DEF Pacing!vars
  <1> QED
    BY <1>1, <1>2, <1>3, <1>4, <1>5, <1>6 DEF Pacing!Next

LEMMA PacedInvariant ==
    ASSUME Interval \in Nat
    PROVE  Pacing!Spec => []Paced
  <1>1. Pacing!Init => Paced
    BY PacedStart
  <1>2. Paced /\ [Pacing!Next]_Pacing!vars => Paced'
    BY PacedStep
  <1> QED
    BY <1>1, <1>2, PTL DEF Pacing!Spec

\* However the calls turn out, two of them never start closer to one another
\* than the interval (AsyncStartRateLimiter.wait, SyncStartRateLimiter.wait).
THEOREM CallsAreApart ==
    ASSUME Interval \in Nat
    PROVE  Pacing!Spec => Pacing!StartsAreApart
  <1>1. Paced /\ [Pacing!Next]_Pacing!vars
          => [Pacing!Start => now - lastStart >= Interval]_Pacing!vars
    BY SMT DEF Paced, PacingTyped, Obliged, Pacing!Start
  <1> QED
    BY <1>1, PacedInvariant, PTL DEF Pacing!Spec, Pacing!StartsAreApart

\* A provider that asks to wait is not called before the time it asked for,
\* not by the repair of an answer nor by the second attempt at a question
\* (RecordingLLMProvider.generate, RecordingVoyageClient.embed).
THEOREM RetryAfterIsHonoured ==
    ASSUME Interval \in Nat
    PROVE  Pacing!Spec => Pacing!RetryAfterIsKept
  <1>1. Paced /\ [Pacing!Next]_Pacing!vars
          => [Pacing!Start => now >= askedUntil]_Pacing!vars
    BY SMT DEF Paced, PacingTyped, Obliged, Pacing!Start
  <1> QED
    BY <1>1, PacedInvariant, PTL DEF Pacing!Spec, Pacing!RetryAfterIsKept
=============================================================================
