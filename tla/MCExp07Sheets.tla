--------------------------- MODULE MCExp07Sheets ---------------------------
EXTENDS Exp07Sheets

(* A right answer, and one that must not be published as it is.            *)
Right == [accuracy |-> "fully_correct", support |-> "fully_supported", display |-> "complete",
          time |-> "current", audience |-> "match", privacy |-> "safe"]
Risky == [Right EXCEPT !.privacy = "privacy_risk"]
MCBehaviors == {"full_answer", "qualified_answer"}
MCAxes == {Right}
MCRevisedAxes == {Right, Risky}
=============================================================================
