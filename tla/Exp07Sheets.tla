---------------------------- MODULE Exp07Sheets ----------------------------
(***************************************************************************)
(* The judgment of an answer on its way to the published tables: the blind *)
(* sheet in the judge's browser, its exports, the stage-one snapshot that  *)
(* is frozen in git, the reveal sheet with its revisions, and the files    *)
(* publish_exp07.py writes one after another.                              *)
(*                                                                         *)
(* One answered question is followed; a question without an answer has one *)
(* row that nobody can change.  A file's hash is the file's content.  The  *)
(* memo is left out: a hold is taken to have one.                          *)
(***************************************************************************)
EXTENDS Exp07Judgments, Integers, Sequences, FiniteSets

CONSTANTS BehaviorChoices,  \* what the judge may choose in this instance
          AxesChoices, RevisedAxes,
          Markers,          \* the raw output matches a pattern of private data
          MaxClock,         \* bound: times at which a stage is locked
          MaxFiles,         \* bound: files exported by the blind sheet
          MaxRevisions      \* bound: adjustments on the reveal sheet

ASSUME Exp07SheetsAssumption ==
    /\ BehaviorChoices \subseteq Behaviors /\ AxesChoices \cup RevisedAxes \subseteq Axes
    /\ Markers \in BOOLEAN
    /\ {MaxClock, MaxFiles, MaxRevisions} \subseteq Nat

VARIABLES card,      \* the row of the blind sheet, which localStorage mirrors
          clock,     \* of the locks
          files,     \* what the blind sheet exported
          snapshot,  \* the draft in the committed stage-one manifest
          firstShown,     \* the behaviour when the evidence was first shown
          importedEarly,  \* a file was imported before the snapshot
          page,      \* the reveal sheet last made
          shown,     \* its row in the open browser tab
          stored,    \* its row in localStorage, whatever sheet it is from
          adjudicated,    \* the file the reveal sheet exported last
          publishing,     \* the outputs still to be written, first to last
          disk       \* the published files

blindVars == <<card, clock, files, firstShown, importedEarly>>
revealVars == <<page, shown, stored, adjudicated>>
publishVars == <<publishing, disk>>
vars == <<blindVars, snapshot, revealVars, publishVars>>

None == [none |-> TRUE]

EmptyCard == [behavior |-> "", notice |-> "", axes |-> Blank, hold |-> FALSE,
              heldAxes |-> FALSE, locked1 |-> 0, locked2 |-> 0]

Init ==
    /\ card = EmptyCard /\ clock = 0 /\ files = {}
    /\ snapshot = None /\ firstShown = "" /\ importedEarly = FALSE
    /\ page = None /\ shown = None /\ stored = None /\ adjudicated = None
    /\ publishing = <<>>
    /\ disk = [responses |-> None, judgments |-> None, results |-> None, csv |-> None]

-----------------------------------------------------------------------------
(* The blind sheet.                                                        *)
BlindStep == UNCHANGED <<snapshot, revealVars, publishVars>>

Choose ==
    /\ card.locked1 = 0
    /\ \/ \E behavior \in BehaviorChoices : card' = [card EXCEPT !.behavior = behavior]
       \/ \E notice \in {"", "clear"} : card' = [card EXCEPT !.notice = notice]
    /\ UNCHANGED <<clock, files, firstShown, importedEarly>> /\ BlindStep

LockStageOne ==
    /\ card.locked1 = 0 /\ clock < MaxClock
    /\ StageOneAccepts(card.behavior, card.notice)
    /\ clock' = clock + 1
    /\ card' = [card EXCEPT !.notice = NoticeLocked(card.behavior, @), !.locked1 = clock']
    /\ firstShown' = IF firstShown = "" THEN card.behavior ELSE firstShown
    /\ UNCHANGED <<files, importedEarly>> /\ BlindStep

(* Unchecking the hold clears its axes; an axis can be checked alone.      *)
JudgeStageTwo ==
    /\ card.locked1 # 0 /\ card.locked2 = 0
    /\ \/ \E axes \in AxesChoices : card' = [card EXCEPT !.axes = axes]
       \/ card' = [card EXCEPT !.heldAxes = ~@]
       \/ card' = [card EXCEPT !.hold = ~@, !.heldAxes = @ /\ ~card.hold]
    /\ UNCHANGED <<clock, files, firstShown, importedEarly>> /\ BlindStep

(* save-stage-two: a card on hold is saved, not locked.                    *)
SaveStageTwo ==
    /\ card.locked1 # 0 /\ card.locked2 = 0 /\ ~card.hold /\ clock < MaxClock
    /\ StageTwoAccepts(card.behavior, card.axes)
    /\ clock' = clock + 1
    /\ card' = [card EXCEPT !.locked2 = clock']
    /\ UNCHANGED <<files, firstShown, importedEarly>> /\ BlindStep

Export ==
    /\ card \notin files /\ Cardinality(files) < MaxFiles
    /\ files' = files \cup {card}
    /\ UNCHANGED <<card, clock, firstShown, importedEarly>> /\ BlindStep

(* Any file of the same run; applyRow takes its locks as well.             *)
Import ==
    /\ \E row \in files \ {card} : card' = [row EXCEPT !.notice = NoticeShown(@)]
    /\ importedEarly' = (importedEarly \/ snapshot = None)
    /\ UNCHANGED <<clock, files, firstShown>> /\ BlindStep

-----------------------------------------------------------------------------
(* make_exp07_stage1_manifest.py.                                          *)
Canonical(row) == [row EXCEPT !.notice = CanonicalNotice(row.behavior, row.notice)]

StageOneSnapshot(row) ==
    /\ ValidStageOne(row.behavior, Canonical(row).notice)
    /\ row.locked1 # 0 /\ row.locked2 = 0
    /\ row.axes = Blank /\ ~row.hold /\ ~row.heldAxes

Freeze ==
    /\ snapshot = None
    /\ \E row \in files : StageOneSnapshot(row) /\ snapshot' = row
    /\ UNCHANGED <<blindVars, revealVars, publishVars>>

\* Variant: the snapshot is compared by its notice only.
SameNotice(baseline, row) == Canonical(baseline).notice = Canonical(row).notice

(* assert_stage1_unchanged.                                                *)
StageOneUnchanged(baseline, row) ==
    /\ baseline.behavior = row.behavior
    /\ Canonical(baseline).notice = Canonical(row).notice
    /\ baseline.locked1 = row.locked1

(* validated_judgment_index, of a row without revisions.                   *)
Gate(row) ==
    /\ ValidJudgment(row.behavior, row.notice, row.axes)
    /\ row.locked1 # 0 /\ row.locked2 # 0
    /\ ~row.hold /\ ~row.heldAxes

-----------------------------------------------------------------------------
(* make_exp07_reveal_sheet.py: any export may be named on its command line.*)
Judged(row) == [behavior |-> row.behavior, notice |-> row.notice, axes |-> row.axes]

MakeReveal ==
    /\ snapshot # None
    /\ \E row \in files :
           /\ StageOneUnchanged(snapshot, row)
           /\ Gate(Canonical(row))
           /\ page' = [primary |-> row, judged |-> Judged(Canonical(row)),
                       history |-> <<>>, review |-> ""]
           /\ page' # page
    /\ UNCHANGED <<blindVars, snapshot, shown, stored, adjudicated, publishVars>>

RowOf(sheet) == [judged |-> sheet.judged, history |-> sheet.history, review |-> sheet.review]

(* DOMContentLoaded: the rows in localStorage, kept under the run and its  *)
(* raw file, go over the rows of the page.                                 *)
OpenReveal ==
    /\ page # None
    /\ shown' = [primary |-> page.primary,
                 row |-> IF stored = None THEN RowOf(page) ELSE stored]
    /\ UNCHANGED <<blindVars, snapshot, page, stored, adjudicated, publishVars>>

\* Variant: the adjustment is applied and not written to the history.
RevisedSilently(row, judged) == [row EXCEPT !.judged = judged]

Revised(row, judged) ==
    [row EXCEPT !.judged = judged,
                !.history = Append(@, [old |-> row.judged, new |-> judged])]

(* apply-revision, with its reason.                                        *)
Revise ==
    /\ shown # None /\ Len(shown.row.history) < MaxRevisions
    /\ \E behavior \in BehaviorChoices, notice \in Notices, axes \in RevisedAxes :
           LET judged == [behavior |-> behavior, notice |-> notice, axes |-> axes]
           IN  /\ judged # shown.row.judged
               /\ ProposalAccepts(behavior, notice, axes)
               /\ shown' = [shown EXCEPT !.row = Revised(@, judged)]
    /\ stored' = shown'.row
    /\ UNCHANGED <<blindVars, snapshot, page, adjudicated, publishVars>>

Review ==
    /\ shown # None /\ shown.row.review # "safe_public_or_nonpersonal"
    /\ shown' = [shown EXCEPT !.row.review = "safe_public_or_nonpersonal"]
    /\ stored' = shown'.row
    /\ UNCHANGED <<blindVars, snapshot, page, adjudicated, publishVars>>

(* Export of the reveal sheet, refused while a marked raw output is not    *)
(* reviewed.                                                               *)
ExportAdjudicated ==
    /\ shown # None
    /\ Markers => shown.row.review # ""
    /\ shown' = [shown EXCEPT !.row.review = IF @ = "" THEN "no_sensitive_pattern" ELSE @]
    /\ stored' = shown'.row
    /\ adjudicated' = [primary |-> shown.primary, row |-> shown'.row]
    /\ UNCHANGED <<blindVars, snapshot, page, publishVars>>

-----------------------------------------------------------------------------
(* publish_exp07.py.                                                       *)
(* validated_judgment_index: each revision starts where the one before it  *)
(* ends, and the last one ends at the row.                                 *)
Chained(row) ==
    /\ \A i \in 1..Len(row.history) - 1 : row.history[i].new = row.history[i + 1].old
    /\ row.history # <<>> => row.history[Len(row.history)].new = row.judged

Redacted(row) == row.judged.axes.privacy = "privacy_risk"

\* Variant: the results are written before the files whose hashes they hold.
ResultsFirst == <<"results", "responses", "judgments", "csv">>

WriteOrder == <<"responses", "judgments", "results", "csv">>

(* build_outputs, in one go before anything is written (bound: up to the   *)
(* first publication that is not cut off).                                 *)
BuildOutputs ==
    /\ publishing = <<>> /\ adjudicated # None
    /\ Chained(adjudicated.row)
    /\ LET j == adjudicated.row.judged IN ValidJudgment(j.behavior, j.notice, j.axes)
    /\ adjudicated.row.review # "" /\ (Markers => adjudicated.row.review # "no_sensitive_pattern")
    /\ disk.csv = None
    /\ publishing' = [i \in DOMAIN WriteOrder |-> [output |-> WriteOrder[i], from |-> adjudicated]]
    /\ UNCHANGED <<blindVars, snapshot, revealVars, disk>>

Content(output, from) ==
    CASE output = "responses" -> [from |-> from, redacted |-> Redacted(from.row)]
      [] output = "judgments" -> [from |-> from]
      [] output = "results" -> [from |-> from, responses |-> disk.responses,
                                judgments |-> disk.judgments]
      [] output = "csv" -> from

WriteOutput ==
    /\ publishing # <<>>
    /\ LET next == Head(publishing)
       IN  disk' = [disk EXCEPT ![next.output] = Content(next.output, next.from)]
    /\ publishing' = Tail(publishing)
    /\ UNCHANGED <<blindVars, snapshot, revealVars>>

CrashWhilePublishing ==
    /\ publishing # <<>>
    /\ publishing' = <<>>
    /\ UNCHANGED <<blindVars, snapshot, revealVars, disk>>

-----------------------------------------------------------------------------
Next ==
    \/ Choose \/ LockStageOne \/ JudgeStageTwo \/ SaveStageTwo
    \/ Export \/ Import \/ Freeze
    \/ MakeReveal \/ OpenReveal \/ Revise \/ Review \/ ExportAdjudicated
    \/ BuildOutputs \/ WriteOutput \/ CrashWhilePublishing

Spec == Init /\ [][Next]_vars
-----------------------------------------------------------------------------
(* The behaviour that reaches the reveal sheet is the one judged before    *)
(* the evidence was shown, whatever the judge imports, unlocks and judges  *)
(* again once the snapshot is frozen (assert_stage1_unchanged).            *)
RevealedBehaviorIsBlind ==
    page # None /\ ~importedEarly => page.primary.behavior = firstShown

(* An adjudicated judgment is some locked judgment of the blind sheet and  *)
(* the recorded revisions of it, nothing else, however often the sheets    *)
(* are made, opened and exported again (apply-revision, localStorage).     *)
Origin(row) == IF row.history = <<>> THEN row.judged ELSE row.history[1].old

RevisionsTellTheStory ==
    adjudicated # None =>
        /\ Chained(adjudicated.row)
        /\ \E row \in files : row.locked2 # 0 /\ Origin(adjudicated.row) = Judged(Canonical(row))

(* When the hashes in the results are those of the files beside them, the  *)
(* three are of one publication and the answer is redacted if it has to    *)
(* be, although each publication replaces them one by one and may be cut   *)
(* off in between (main of publish_exp07.py).                              *)
HashesMeanOnePublication ==
    LET results == disk.results
    IN  results # None /\ results.responses = disk.responses /\ results.judgments = disk.judgments =>
            /\ disk.responses # None /\ disk.judgments # None
            /\ {disk.responses.from, disk.judgments.from} = {results.from}
            /\ disk.responses.redacted = Redacted(results.from.row)
=============================================================================
