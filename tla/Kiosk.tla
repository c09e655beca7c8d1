------------------------------- MODULE Kiosk -------------------------------
(***************************************************************************)
(* The kiosk's browser: the store of kioskStore.ts, the question in flight *)
(* (useChat.ts over api/chat.ts), the idle timer of KioskPage.tsx and the  *)
(* print button of ActionBar.tsx.                                          *)
(*                                                                         *)
(* JavaScript runs one handler at a time, so every handler is one action.  *)
(* The category only filters the list of FAQ and is left out.              *)
(***************************************************************************)
EXTENDS ChatWire

CONSTANTS Waiting,  \* answerData while the answer streams
          Fallback  \* answerData with the text of an error

ASSUME KioskAssumption ==
    /\ Waiting # Fallback
    /\ {Waiting, Fallback} \cap (Answers \cup {None}) = {}

VARIABLES mode,         \* "main", "input" or "answer"
          query,        \* currentQuery
          screen,       \* answerData: None, Waiting, Fallback or an answer
          latest,       \* the kiosk's last request, 0 before the first
          finished,     \* the open streams whose done event was read (receivedDone)
          timer,        \* TRUE while the idle timer is set
          printStatus,  \* of the action bar on the screen
          prints        \* the requests with a print call that has not returned

kioskVars == <<mode, query, screen, latest, finished, timer, printStatus, prints>>

KioskTypeOK ==
    /\ mode \in {"main", "input", "answer"}
    /\ query \in Questions \cup {None}
    /\ screen \in {None, Waiting, Fallback} \cup Answers
    /\ latest \in Requests \cup {0}
    /\ finished \subseteq Requests
    /\ timer \in BOOLEAN
    /\ printStatus \in {"idle", "pending", "reported"}
    /\ prints \subseteq Requests

KioskInit ==
    /\ mode = "main"
    /\ query = None
    /\ screen = None
    /\ latest = 0
    /\ finished = {}
    /\ timer = TRUE
    /\ printStatus = "idle"
    /\ prints = {}

Streaming(data) == data = Waiting

(* setAnswerData, with the effect of useIdleTimer: the timer is cleared    *)
(* when streaming starts, set when it ends, and otherwise left alone.      *)
Show(data) ==
    /\ screen' = data
    /\ timer' = IF Streaming(data) = Streaming(screen) THEN timer ELSE ~Streaming(data)

(* setMode of the main screen's input bar and of the input's back button,  *)
(* both a touch.                                                           *)
SwitchMode ==
    /\ mode \in {"main", "input"}
    /\ mode' = IF mode = "main" THEN "input" ELSE "main"
    /\ timer' = TRUE
    /\ UNCHANGED <<query, screen, latest, finished, printStatus, prints, wireVars>>

(* useIdleTimer: a touch sets the timer again, unless an answer streams.   *)
Touch ==
    /\ timer' = ~Streaming(screen)
    /\ UNCHANGED <<mode, query, screen, latest, finished, printStatus, prints, wireVars>>

(* submit, from an FAQ tile or from the input: the question before it is   *)
(* aborted, the answer screen is mounted anew.                             *)
Submit(r, question) ==
    /\ IsNext(r)
    /\ mode \in {"main", "input"}
    /\ asked' = [asked EXCEPT ![r] = question]
    /\ reader' = [other \in Requests |->
                    CASE other = r -> "reading"
                      [] other = latest /\ reader[other] = "reading" -> "gone"
                      [] OTHER -> reader[other]]
    /\ wire' = [other \in Requests |-> IF other = latest THEN <<>> ELSE wire[other]]
    /\ latest' = r
    /\ mode' = "answer"
    /\ query' = question
    /\ Show(Waiting)
    /\ printStatus' = "idle"
    /\ finished' = finished \ {latest}
    /\ UNCHANGED <<prints, closed, version>>

ResetToMain ==
    /\ mode' = "main"
    /\ query' = None
    /\ screen' = None
    /\ UNCHANGED <<latest, finished, printStatus, prints, wireVars>>

\* Variant: setMode("main") in place of resetToMain.
HomeByMode ==
    /\ mode = "answer" /\ mode' = "main" /\ timer' = TRUE
    /\ UNCHANGED <<query, screen, latest, finished, printStatus, prints, wireVars>>

(* The home button: the stream goes on, unseen.                            *)
Home ==
    /\ mode = "answer"
    /\ ResetToMain
    /\ timer' = TRUE

(* The timer fires once and is not set again before the next touch.        *)
IdleReset ==
    /\ timer
    /\ ResetToMain
    /\ timer' = FALSE

(* isCurrentRequest.                                                       *)
IsCurrentRequest(r) == r = latest /\ mode = "answer" /\ query = asked[r]

ShowIfCurrent(r, data) ==
    IF IsCurrentRequest(r) THEN Show(data) ELSE UNCHANGED <<screen, timer>>

HeadIs(r, kind) ==
    reader[r] = "reading" /\ wire[r] # <<>> /\ Head(wire[r]).kind = kind

OnStatus(r) ==
    /\ HeadIs(r, "status")
    /\ ShowIfCurrent(r, Waiting)
    /\ wire' = [wire EXCEPT ![r] = Tail(@)]
    /\ UNCHANGED <<mode, query, latest, finished, printStatus, prints,
                   asked, closed, reader, version>>

\* Variant: the raw event is put on the screen.
OnDoneUnmapped(r) ==
    /\ HeadIs(r, "done")
    /\ finished' = finished \cup {r}
    /\ ShowIfCurrent(r, Head(wire[r]))
    /\ wire' = [wire EXCEPT ![r] = Tail(@)]
    /\ UNCHANGED <<mode, query, latest, printStatus, prints, asked, closed, reader, version>>

OnDone(r) ==
    /\ HeadIs(r, "done")
    /\ finished' = finished \cup {r}
    /\ ShowIfCurrent(r, Head(wire[r]).answer)
    /\ wire' = [wire EXCEPT ![r] = Tail(@)]
    /\ UNCHANGED <<mode, query, latest, printStatus, prints,
                   asked, closed, reader, version>>

(* The stream is over for its reader; what is left of it is not read.      *)
Settle(r, how) ==
    /\ reader' = [reader EXCEPT ![r] = how]
    /\ wire' = [wire EXCEPT ![r] = <<>>]
    /\ finished' = finished \ {r}
    /\ UNCHANGED <<mode, query, latest, printStatus, prints, asked, closed, version>>

\* Variant: an error is thrown as handled, and nobody handles it.
OnErrorSilent(r) ==
    /\ HeadIs(r, "error")
    /\ UNCHANGED <<screen, timer>>
    /\ Settle(r, "settled")

OnErrorEvent(r) ==
    /\ HeadIs(r, "error")
    /\ ShowIfCurrent(r, Fallback)
    /\ Settle(r, "settled")

(* A stream that closes before a done event is an error.                   *)
OnClose(r) ==
    /\ reader[r] = "reading" /\ wire[r] = <<>> /\ r \in closed
    /\ IF r \in finished THEN UNCHANGED <<screen, timer>> ELSE ShowIfCurrent(r, Fallback)
    /\ Settle(r, "settled")

(* The connection breaks, or an event does not parse: onerror calls the    *)
(* error handler, even after a done event.                                 *)
Cut(r) ==
    /\ reader[r] = "reading"
    /\ ShowIfCurrent(r, Fallback)
    /\ Settle(r, "gone")

(* The print button, which is live while the answer streams, too: what is  *)
(* on the screen goes to the printer, one call at a time for one screen.   *)
PrintAnswer ==
    /\ mode = "answer" /\ printStatus # "pending"
    /\ printStatus' = "pending"
    /\ prints' = prints \cup {latest}
    /\ timer' = ~Streaming(screen)
    /\ UNCHANGED <<mode, query, screen, latest, finished, wireVars>>

\* Variant: no mountedRef, and one status for all answer screens.
AnyMounted(r) == mode = "answer"

(* The receipt is sent or has failed, and the action bar says which.       *)
(* mountedRef: the call of an answer screen that is gone reports to none.  *)
Mounted(r) == mode = "answer" /\ r = latest

PrintReturns(r) ==
    /\ r \in prints
    /\ prints' = prints \ {r}
    /\ printStatus' = IF Mounted(r) THEN "reported" ELSE printStatus
    /\ UNCHANGED <<mode, query, screen, latest, finished, timer, wireVars>>

Read(r) == OnStatus(r) \/ OnDone(r) \/ OnErrorEvent(r) \/ OnClose(r)
=============================================================================
