---------------------------- MODULE ChatStream ----------------------------
(***************************************************************************)
(* What POST /chat promises the reader of a stream: any number of status   *)
(* events, then a done event with an answer to the question or an error    *)
(* event, then the end of the stream; a reader who is gone gets no more.   *)
(* ChatService shows that the endpoint keeps it, KioskSystem builds on it. *)
(***************************************************************************)
EXTENDS ChatWire

VARIABLE told  \* the requests whose reader was sent its done event

(* The answer may be one cached for another text with the same key.        *)
AnswersTo(question) == {a \in Answers : KeyOf[a.question] = KeyOf[question]}

Open(r) == asked[r] # None /\ r \notin closed

SayStatus(r) ==
    /\ Open(r) /\ r \notin told
    /\ Send(r, Status)
    /\ UNCHANGED <<told, asked, closed, reader, version>>

SayDone(r) ==
    /\ Open(r) /\ r \notin told /\ Listening(r)
    /\ \E answer \in AnswersTo(asked[r]) : answer.version <= version /\ Send(r, Done(answer))
    /\ told' = told \cup {r}
    /\ UNCHANGED <<asked, closed, reader, version>>

SayError(r) ==
    /\ Open(r) /\ r \notin told
    /\ Send(r, Error)
    /\ closed' = closed \cup {r}
    /\ UNCHANGED <<told, asked, reader, version>>

(* After done, or when the reader is gone.                                 *)
Close(r) ==
    /\ Open(r) /\ (r \in told \/ ~Listening(r))
    /\ closed' = closed \cup {r}
    /\ UNCHANGED <<told, asked, wire, reader, version>>

Stream(r) == SayStatus(r) \/ SayDone(r) \/ SayError(r) \/ Close(r)

streamVars == <<told, wireVars>>

StreamNext ==
    \/ Publish /\ UNCHANGED told
    \/ \E r \in Requests :
         \/ Stream(r)
         \/ ClientLeaves(r) /\ UNCHANGED told
         \/ \E q \in Questions : ClientAsks(r, q) /\ UNCHANGED told

StreamFairness ==
    \A r \in Requests : WF_streamVars(SayDone(r) \/ SayError(r) \/ Close(r))

StreamSafety == WireInit /\ told = {} /\ [][StreamNext]_streamVars
StreamSpec == StreamSafety /\ StreamFairness
=============================================================================
