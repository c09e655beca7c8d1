---------------------------- MODULE KioskSystem ----------------------------
(***************************************************************************)
(* The kiosk over streams that keep the contract of ChatStream, which      *)
(* ChatService shows the endpoint to keep, and over connections that break.*)
(***************************************************************************)
EXTENDS ChatStream, Kiosk

vars == <<told, wireVars, kioskVars>>

TypeOK == WireTypeOK /\ told \subseteq Requests /\ KioskTypeOK

Init == WireInit /\ told = {} /\ KioskInit

Asks(r, question) == Submit(r, question) /\ UNCHANGED told

Visitor == (SwitchMode \/ Touch \/ Home \/ PrintAnswer) /\ UNCHANGED told

Idle == IdleReset /\ UNCHANGED told

Browser(r) == Read(r) /\ UNCHANGED told

PrinterAnswers == (\E r \in prints : PrintReturns(r)) /\ UNCHANGED told

ConnectionBreaks(r) == Cut(r) /\ UNCHANGED told

Endpoint(r) == Stream(r) /\ UNCHANGED kioskVars

NewCorpus == Publish /\ UNCHANGED <<told, kioskVars>>

Next ==
    \/ Visitor \/ Idle \/ PrinterAnswers \/ NewCorpus
    \/ \E r \in Requests :
         \/ Browser(r) \/ Endpoint(r) \/ ConnectionBreaks(r)
         \/ \E q \in Questions : Asks(r, q)

(* The endpoint keeps its contract, the browser reads what has arrived,    *)
(* and the idle timer fires when nobody sets it again.                     *)
Fairness ==
    /\ WF_vars(Idle)
    /\ \A r \in Requests :
         /\ WF_vars(Browser(r))
         /\ WF_vars((SayDone(r) \/ SayError(r) \/ Close(r)) /\ UNCHANGED kioskVars)

Spec == Init /\ [][Next]_vars /\ Fairness
-----------------------------------------------------------------------------
(* The print status on the answer screen is that of its own print call: a  *)
(* call an earlier visitor left running neither ends it nor frees the      *)
(* button (ActionBar.tsx:45, 57).                                          *)
PrintStatusIsOurs == mode = "answer" => (printStatus = "pending" <=> latest \in prints)

(* A visitor who walks away at any time, from a half-written question, a   *)
(* running stream or an answer, leaves a kiosk that returns to the main    *)
(* screen (KioskPage.tsx:12-15 with the timer off while streaming).        *)
ReturnsToMain == []<><<Visitor \/ \E r \in Requests, q \in Questions : Asks(r, q)>>_vars
                 \/ []<>(mode = "main")

(* The visit the kiosk promises, read off its state.                       *)
Promise == INSTANCE Visit WITH
    Nobody <- None,
    Apology <- Fallback,
    AnswersTo <- LAMBDA q : {a \in Answers : KeyOf[a.question] = KeyOf[q]},
    stage <- CASE mode = "main" -> "away"
               [] mode = "input" -> "writing"
               [] mode = "answer" /\ Streaming(screen) -> "waiting"
               [] OTHER -> "told",
    question <- query,
    told <- IF screen = Waiting THEN None ELSE screen
PromiseKept == Promise!VisitSpec
=============================================================================
