--------------------------- MODULE Exp07Judgments ---------------------------
(***************************************************************************)
(* What a judgment of one answer may say, as the three places see it that  *)
(* check it: the blind sheet's JavaScript (make_exp07_primary_sheet.py),   *)
(* the reveal sheet's (make_exp07_reveal_sheet.py) and the Python gate     *)
(* (exp07_common.py), and what the evaluation computes from it.            *)
(*                                                                         *)
(* The empty string is a select without a choice.                          *)
(***************************************************************************)
Behaviors == {"full_answer", "qualified_answer", "abstain"}
Notices == {"clear", "missing", "not_applicable"}

Accuracies == {"fully_correct", "partially_correct", "incorrect", "unverifiable", "not_applicable"}
Supports == {"fully_supported", "partially_supported", "unsupported", "not_applicable"}
Displays == {"complete", "incomplete", "incorrect", "not_applicable"}
Times == {"current", "stale", "unknown", "not_applicable"}
Audiences == {"match", "mismatch", "unknown", "not_applicable"}
Privacies == {"safe", "privacy_risk"}

(* Stage one judges the behaviour, stage two these axes.                   *)
Axes == [accuracy: Accuracies, support: Supports, display: Displays,
         time: Times, audience: Audiences, privacy: Privacies]
Blank == [accuracy |-> "", support |-> "", display |-> "",
          time |-> "", audience |-> "", privacy |-> ""]

Triad(axes) == {axes.accuracy, axes.support, axes.display}

PureAbstention(axes) == Triad(axes) = {"not_applicable"}

-----------------------------------------------------------------------------
(* validateStageOne; the notice's select has no "not_applicable", so that  *)
(* the value the sheet gives a non-abstention becomes the empty string.    *)
StageOneAccepts(behavior, notice) ==
    /\ behavior # ""
    /\ behavior = "abstain" => notice # ""

NoticeShown(notice) == IF notice \in {"clear", "missing"} THEN notice ELSE ""

NoticeLocked(behavior, notice) == IF behavior = "abstain" THEN notice ELSE ""

(* validateStageTwo, but for the holds.                                    *)
StageTwoAccepts(behavior, axes) ==
    /\ \A axis \in DOMAIN axes : axes[axis] # ""
    /\ behavior # "abstain" => "not_applicable" \notin Triad(axes)
    /\ behavior = "abstain" /\ "not_applicable" \in Triad(axes) => PureAbstention(axes)
    /\ behavior = "abstain" /\ PureAbstention(axes) =>
           axes.time = "not_applicable" /\ axes.audience = "not_applicable"

(* proposalError: every select of the reveal sheet has a choice.           *)
ProposalAccepts(behavior, notice, axes) ==
    /\ behavior = "abstain" <=> notice # "not_applicable"
    /\ behavior # "abstain" => "not_applicable" \notin Triad(axes)
    /\ behavior = "abstain" /\ "not_applicable" \in Triad(axes) => PureAbstention(axes)
    /\ behavior = "abstain" /\ PureAbstention(axes) =>
           axes.time = "not_applicable" /\ axes.audience = "not_applicable"

(* canonicalize_primary_sheet_judgment.                                    *)
CanonicalNotice(behavior, notice) ==
    IF behavior # "abstain" /\ notice = "" THEN "not_applicable" ELSE notice

(* validate_judgment of a successful response, but for the holds.          *)
ValidStageOne(behavior, notice) ==
    /\ behavior \in Behaviors /\ notice \in Notices
    /\ behavior = "abstain" <=> notice # "not_applicable"

ValidJudgment(behavior, notice, axes) ==
    /\ ValidStageOne(behavior, notice)
    /\ axes \in Axes
    /\ "not_applicable" \in Triad(axes) => behavior = "abstain" /\ PureAbstention(axes)
    /\ PureAbstention(axes) => axes.time = "not_applicable" /\ axes.audience = "not_applicable"

-----------------------------------------------------------------------------
BehaviorError(expected, actual) ==
    IF expected = actual THEN "none"
    ELSE IF actual = "abstain" THEN "over_rejection"
    ELSE IF actual = "full_answer" \/ expected = "abstain" THEN "over_answer"
    ELSE "unnecessary_qualification"

(* aggregate_primary: the questions on which an error is possible at all.  *)
Opportunities(error) ==
    CASE error = "over_answer" -> {"qualified_answer", "abstain"}
      [] error = "over_rejection" -> {"full_answer", "qualified_answer"}
      [] error = "unnecessary_qualification" -> {"full_answer"}

DeploymentPass(axes) ==
    /\ axes.time \in {"current", "not_applicable"}
    /\ axes.audience \in {"match", "not_applicable"}
    /\ axes.privacy = "safe"

GroundingPass(axes) ==
    /\ axes.support \in {"fully_supported", "not_applicable"}
    /\ axes.display \in {"complete", "not_applicable"}

StrictSuccess(expected, behavior, notice, axes) ==
    /\ behavior = expected
    /\ behavior = "abstain" => notice = "clear"
    /\ IF behavior = "abstain"
       THEN axes.accuracy \in {"fully_correct", "not_applicable"} /\ GroundingPass(axes)
       ELSE /\ axes.accuracy = "fully_correct"
            /\ axes.support = "fully_supported" /\ axes.display = "complete"
    /\ DeploymentPass(axes)
-----------------------------------------------------------------------------
(* The sheets let the judge lock or apply what the gate accepts, and       *)
(* nothing else (validateStageOne, validateStageTwo, proposalError,        *)
(* validate_judgment).                                                     *)
ValidatorsAgree ==
    \A behavior \in Behaviors, axes \in Axes :
        /\ \A notice \in Notices :
               ProposalAccepts(behavior, notice, axes) <=> ValidJudgment(behavior, notice, axes)
        /\ \A notice \in {"", "clear", "missing"} :
               StageOneAccepts(behavior, notice) /\ StageTwoAccepts(behavior, axes)
               <=> /\ behavior = "abstain" => notice # ""
                   /\ ValidJudgment(behavior, CanonicalNotice(behavior, NoticeLocked(behavior, notice)), axes)

(* The published columns explain each other: an error of behaviour is      *)
(* counted among its opportunities, and an answer to a judged question is  *)
(* a success exactly when no column shows a failure (behavior_error,       *)
(* grounding_pass, deployment_pass, strict_success).                       *)
ColumnsAgree ==
    \A expected \in Behaviors, behavior \in Behaviors :
        LET error == BehaviorError(expected, behavior)
        IN  /\ error # "none" => expected \in Opportunities(error)
            /\ \A notice \in Notices, axes \in Axes :
                   ValidJudgment(behavior, notice, axes) =>
                       (StrictSuccess(expected, behavior, notice, axes)
                        <=> /\ error = "none" /\ notice # "missing"
                            /\ axes.accuracy \in {"fully_correct", "not_applicable"}
                            /\ GroundingPass(axes) /\ DeploymentPass(axes))
=============================================================================
