------------------------------- MODULE Visit -------------------------------
(***************************************************************************)
(* What the kiosk promises a visitor, without requests, streams or timers: *)
(* a question is asked, the visitor waits, and is told one thing: an       *)
(* answer to that question or an apology.  An answer may still give way to *)
(* an apology; nothing else replaces it, and nothing of a visit is left    *)
(* when it is over.                                                        *)
(***************************************************************************)
CONSTANTS Questions, Nobody, Apology,
          AnswersTo(_)  \* the answers a question may be given

VARIABLES stage,     \* "away", "writing", "waiting", "told"
          question,  \* the question asked
          told       \* what the visitor was told

visitVars == <<stage, question, told>>

VisitInit == stage = "away" /\ question = Nobody /\ told = Nobody

Write == stage = "away" /\ stage' = "writing" /\ UNCHANGED <<question, told>>

Ask(q) ==
    /\ stage \in {"away", "writing"}
    /\ stage' = "waiting" /\ question' = q /\ told' = Nobody

Answer ==
    /\ stage = "waiting"
    /\ stage' = "told" /\ told' \in AnswersTo(question) /\ UNCHANGED question

Apologise ==
    /\ stage \in {"waiting", "told"}
    /\ stage' = "told" /\ told' = Apology /\ UNCHANGED question

Leave == stage' = "away" /\ question' = Nobody /\ told' = Nobody

VisitNext == Write \/ (\E q \in Questions : Ask(q)) \/ Answer \/ Apologise \/ Leave

VisitSpec == VisitInit /\ [][VisitNext]_visitVars
=============================================================================
