----------------------------- MODULE Exp07Tables -----------------------------
(***************************************************************************)
(* The published tables of the answer evaluation: aggregate_primary and    *)
(* structured_repeat_summary (exp07_common.py), and the rows of the CSV    *)
(* file (publish_exp07.py).                                                *)
(*                                                                         *)
(* A table is a function from the questions to their rows.  A number of a  *)
(* table is the set of questions it counts, a rate two of them.            *)
(***************************************************************************)
EXTENDS Exp07Judgments, Integers, FiniteSets

Errors == {"over_answer", "over_rejection", "unnecessary_qualification"}

(* What the gate lets through for an answered question.                    *)
Judgments ==
    {j \in [behavior: Behaviors, notice: Notices, axes: Axes] :
        ValidJudgment(j.behavior, j.notice, j.axes)}

(* A row of "questions"; a question without an answer has no judgment.     *)
Answered(expected, j) ==
    [status |-> "success", expected |-> expected, axes |-> j.axes,
     error |-> BehaviorError(expected, j.behavior),
     deployment |-> DeploymentPass(j.axes), grounding |-> GroundingPass(j.axes),
     success |-> StrictSuccess(expected, j.behavior, j.notice, j.axes)]

Unanswered(expected) ==
    [status |-> "system_error", expected |-> expected, axes |-> Blank,
     error |-> "system_error", deployment |-> FALSE, grounding |-> FALSE, success |-> FALSE]

Rows ==
    {Answered(expected, j) : expected \in Behaviors, j \in Judgments}
    \cup {Unanswered(expected) : expected \in Behaviors}

-----------------------------------------------------------------------------
Normal(table) == {q \in DOMAIN table : table[q].status = "success"}

Asked(table, expected) == {q \in DOMAIN table : table[q].expected \in expected}

Successes(table) == {q \in DOMAIN table : table[q].success}

(* error_metric: the errors are counted among the answered questions on    *)
(* which they are possible; the unanswered ones are exclusions.            *)
Denominator(table, error) == Normal(table) \cap Asked(table, Opportunities(error))

Counted(table, error) == {q \in Denominator(table, error) : table[q].error = error}

Excluded(table, error) == Asked(table, Opportunities(error)) \ Normal(table)

(* The values of an axis that occur, each with its questions.              *)
Found(table, axis) == {table[q].axes[axis] : q \in Normal(table)}

With(table, axis, value) == {q \in Normal(table) : table[q].axes[axis] = value}

-----------------------------------------------------------------------------
(* The behaviours of a question in the three rounds; "none" is that of a   *)
(* system error, which has no final response (run_question).               *)
RoundAnswers == [1..3 -> Behaviors \cup {"none"}]

ThreeOfThree(answers) == answers[1] # "none" /\ \A round \in 1..3 : answers[round] = answers[1]

HasSystemError(answers) == \E round \in 1..3 : answers[round] = "none"

Stable(rounds) == {q \in DOMAIN rounds : ThreeOfThree(rounds[q])}

-----------------------------------------------------------------------------
Line(metric, group, count, denominator) ==
    [metric |-> metric, group |-> group, count |-> count, denominator |-> denominator]

(* aggregate_csv_rows, of one of its two analyses and the three rounds.    *)
CsvRows(table, rounds) ==
    {Line("end_to_end_success", "all", Successes(table), DOMAIN table),
     Line("system_error", "all", DOMAIN table \ Normal(table), DOMAIN table),
     Line("repeat_agreement", "all", Stable(rounds), DOMAIN rounds)}
    \cup {Line("end_to_end_success", behavior,
               Successes(table) \cap Asked(table, {behavior}), Asked(table, {behavior}))
            : behavior \in Behaviors}
    \cup {Line(error, "opportunity_set", Counted(table, error), Denominator(table, error))
            : error \in Errors}
    \cup UNION {{Line(axis, value, With(table, axis, value), Normal(table))
                   : value \in Found(table, axis)} : axis \in DOMAIN Blank}

(* What an axis says of an answer with nothing wrong on it; the lines that *)
(* tell of a failure.                                                      *)
Passing ==
    [accuracy |-> {"fully_correct", "not_applicable"},
     support |-> {"fully_supported", "not_applicable"},
     display |-> {"complete", "not_applicable"},
     time |-> {"current", "not_applicable"},
     audience |-> {"match", "not_applicable"},
     privacy |-> {"safe"}]

Failing(line) ==
    \/ line.metric \in Errors \cup {"system_error"}
    \/ line.metric \in DOMAIN Blank /\ line.group \notin Passing[line.metric]
=============================================================================
