----------------------------- MODULE KioskProofs -----------------------------
(***************************************************************************)
(* The kiosk keeps its promise to every visitor, for any number of         *)
(* questions, answers and requests, wherever the connections break.        *)
(***************************************************************************)
EXTENDS KioskSystem, TLAPS

\* A request that is not made yet has left no trace.
UnmadeIsClean ==
    /\ \A r \in Unmade : reader[r] = "unsent" /\ wire[r] = <<>>
    /\ Unmade \cap (told \cup closed \cup prints) = {}
    /\ latest \notin Unmade

\* Only the last event of a stream is not a status: after a done the endpoint
\* is told, after an error it has closed.  A done event has an answer to the
\* question that was asked.
WireInOrder ==
    \A r \in Requests : \A i \in DOMAIN wire[r] :
        wire[r][i] # Status =>
            /\ i = Len(wire[r])
            /\ r \in told \cup closed
            /\ wire[r][i].kind = "done" =>
                 r \in told /\ wire[r][i].answer \in AnswersTo(asked[r])

\* Whoever has read a done event still reads, and has only the end to read.
FinishedIsLast ==
    \A r \in finished : reader[r] = "reading" /\ r \in told /\ wire[r] = <<>>

\* The answer screen shows the last question, and that it waits exactly as
\* long as the answer has not been read; every other screen shows nothing.
ScreenFits ==
    /\ mode = "answer" =>
         /\ latest \in Requests /\ query = asked[latest] /\ query # None
         /\ reader[latest] = "reading" /\ latest \notin finished => screen = Waiting
    /\ mode # "answer" => query = None /\ screen = None

Promised ==
    /\ TypeOK /\ UnmadeIsClean /\ WireInOrder /\ FinishedIsLast /\ ScreenFits
    /\ PrintStatusIsOurs
-----------------------------------------------------------------------------
\* The events and what they say.
LEMMA EventKinds ==
    /\ Status \in Events /\ Status.kind = "status"
    /\ Error \in Events /\ Error.kind = "error"
    /\ \A a \in Answers : Done(a) \in Events /\ Done(a).kind = "done" /\ Done(a).answer = a
  BY DEF Events, Status, Error, Done

\* What an event of each kind is.
LEMMA KindsOfEvents ==
    ASSUME NEW e \in Events
    PROVE  /\ e.kind = "status" <=> e = Status
           /\ e.kind = "done" => e.answer \in Answers
           /\ e.kind \in {"status", "done", "error"}
  BY EventKinds DEF Events

\* What is shown is nothing new, or what the handler has to show.
LEMMA ShowIfCurrentEffect ==
    ASSUME KioskTypeOK, NEW r, NEW data, ShowIfCurrent(r, data)
    PROVE  screen' \in {screen, data} /\ timer' \in BOOLEAN
  BY DEF ShowIfCurrent, Show, Streaming, KioskTypeOK

\* The handlers of a stream's reader, by what they do to the stream.
Takes(r) == OnStatus(r) \/ OnDone(r)
Ends(r) == OnErrorEvent(r) \/ OnClose(r) \/ Cut(r)

LEMMA TakesEffect ==
    ASSUME TypeOK, NEW r \in Requests, Takes(r)
    PROVE  /\ reader[r] = "reading" /\ wire[r] # <<>>
           /\ wire' = [wire EXCEPT ![r] = Tail(@)]
           /\ wire'[r] \in Seq(Events) /\ wire[r] \in Seq(Events)
           /\ Len(wire'[r]) = Len(wire[r]) - 1
           /\ \A i \in DOMAIN wire'[r] : wire'[r][i] = wire[r][i + 1] /\ i + 1 \in DOMAIN wire[r]
           /\ UNCHANGED <<mode, query, latest, printStatus, prints, asked, closed, reader, version>>
  <1>1. wire \in [Requests -> Seq(Events)]
    BY DEF TypeOK, WireTypeOK
  <1>2. /\ reader[r] = "reading" /\ wire[r] # <<>>
        /\ wire' = [wire EXCEPT ![r] = Tail(@)]
        /\ UNCHANGED <<mode, query, latest, printStatus, prints, asked, closed, reader, version>>
    BY DEF Takes, OnStatus, OnDone, HeadIs
  <1>3. wire[r] \in Seq(Events) /\ wire'[r] = Tail(wire[r])
    BY <1>1, <1>2
  <1>4. /\ Tail(wire[r]) \in Seq(Events)
        /\ Len(Tail(wire[r])) = Len(wire[r]) - 1
        /\ \A i \in 1..Len(wire[r]) - 1 : Tail(wire[r])[i] = wire[r][i + 1]
    BY <1>2, <1>3
  <1>5. /\ DOMAIN wire[r] = 1..Len(wire[r]) /\ Len(wire[r]) \in Nat
        /\ DOMAIN Tail(wire[r]) = 1..Len(Tail(wire[r]))
    BY <1>3, <1>4
  <1>6. \A i \in DOMAIN Tail(wire[r]) :
          Tail(wire[r])[i] = wire[r][i + 1] /\ i + 1 \in DOMAIN wire[r]
    BY <1>4, <1>5
  <1>7. /\ wire'[r] \in Seq(Events) /\ Len(wire'[r]) = Len(wire[r]) - 1
        /\ \A i \in DOMAIN wire'[r] : wire'[r][i] = wire[r][i + 1] /\ i + 1 \in DOMAIN wire[r]
    BY <1>3, <1>4, <1>6
  <1> QED
    BY <1>2, <1>3, <1>7

LEMMA EndsEffect ==
    ASSUME TypeOK, NEW r \in Requests, Ends(r)
    PROVE  /\ reader[r] = "reading"
           /\ \E how \in {"settled", "gone"} : reader' = [reader EXCEPT ![r] = how]
           /\ wire' = [wire EXCEPT ![r] = <<>>]
           /\ finished' = finished \ {r}
           /\ \/ UNCHANGED <<screen, timer>> /\ r \in finished
              \/ ShowIfCurrent(r, Fallback)
           /\ UNCHANGED <<mode, query, latest, printStatus, prints, asked, closed, version>>
  BY DEF Ends, OnErrorEvent, OnClose, Cut, Settle, HeadIs

\* Sending appends to one stream at most.
LEMMA SendEffect ==
    ASSUME WireTypeOK, NEW r \in Requests, NEW event \in Events, Send(r, event)
    PROVE  /\ wire' \in [Requests -> Seq(Events)]
           /\ \A q \in Requests : q # r => wire'[q] = wire[q]
           /\ \/ wire'[r] = wire[r]
              \/ /\ DOMAIN wire[r] = 1..Len(wire[r]) /\ Len(wire[r]) \in Nat
                 /\ Len(wire'[r]) = Len(wire[r]) + 1
                 /\ DOMAIN wire'[r] = 1..(Len(wire[r]) + 1)
                 /\ \A i \in 1..Len(wire[r]) : wire'[r][i] = wire[r][i]
                 /\ wire'[r][Len(wire[r]) + 1] = event
  <1>1. CASE wire' = wire
    BY <1>1 DEF WireTypeOK
  <1>2. CASE wire' = [wire EXCEPT ![r] = Append(@, event)]
    <2>1. wire[r] \in Seq(Events) /\ wire'[r] = Append(wire[r], event)
      BY <1>2 DEF WireTypeOK
    <2> QED
      BY <1>2, <2>1 DEF WireTypeOK
  <1> QED
    BY <1>1, <1>2 DEF Send

\* What the endpoint does to a stream, and nothing else.
LEMMA StreamEffect ==
    ASSUME TypeOK, NEW r \in Requests, Stream(r)
    PROVE  /\ asked[r] # None /\ r \notin closed
           /\ wire' \in [Requests -> Seq(Events)]
           /\ \A q \in Requests : q # r => wire'[q] = wire[q]
           /\ told' \in {told, told \cup {r}} /\ closed' \in {closed, closed \cup {r}}
           /\ UNCHANGED <<asked, reader, version>>
  <1>1. CASE SayStatus(r) \/ SayError(r)
    BY <1>1, SendEffect, EventKinds DEF SayStatus, SayError, Open, TypeOK
  <1>2. CASE SayDone(r)
    BY <1>2, SendEffect, EventKinds DEF SayDone, Open, AnswersTo, TypeOK
  <1>3. CASE Close(r)
    BY <1>3 DEF Close, Open, TypeOK, WireTypeOK
  <1> QED
    BY <1>1, <1>2, <1>3 DEF Stream

\* A submitted question takes the first request nobody has made.
LEMMA SubmitEffect ==
    ASSUME Promised, NEW r \in Requests, NEW q \in Questions, Submit(r, q)
    PROVE  /\ r \in Unmade /\ r # latest
           /\ asked' = [asked EXCEPT ![r] = q]
           /\ reader' \in [Requests -> Readers] /\ reader'[r] = "reading"
           /\ \A p \in Requests : p # r => reader'[p] \in {reader[p], "gone"}
           /\ \A p \in Requests : p # r /\ p # latest => reader'[p] = reader[p]
           /\ wire' \in [Requests -> Seq(Events)]
           /\ \A p \in Requests : wire'[p] \in {<<>>, wire[p]}
  <1>1. r \in Unmade /\ r # latest
    BY DEF Submit, IsNext, Promised, UnmadeIsClean
  <1>2. <<>> \in Seq(Events)
    OBVIOUS
  <1> QED
    BY <1>1, <1>2 DEF Submit, Promised, TypeOK, WireTypeOK, Readers

LEMMA TypeStep ==
    ASSUME Promised, [Next]_vars
    PROVE  TypeOK'
  <1> USE DEF Promised, TypeOK, WireTypeOK, KioskTypeOK
  <1>1. CASE Visitor \/ Idle \/ PrinterAnswers
    <2>1. UNCHANGED <<told, wireVars>>
      BY <1>1
      DEF Visitor, SwitchMode, Touch, Home, ResetToMain, PrintAnswer, Idle, IdleReset,
          PrinterAnswers, PrintReturns
    <2>2. CASE SwitchMode \/ Touch \/ Home \/ IdleReset
      BY <2>1, <2>2 DEF SwitchMode, Touch, Home, IdleReset, ResetToMain, wireVars, Streaming
    <2>3. CASE PrintAnswer
      BY <2>1, <2>3 DEF PrintAnswer, wireVars, Streaming, ScreenFits
    <2>4. ASSUME NEW r \in prints, PrintReturns(r)
          PROVE  TypeOK'
      BY <2>1, <2>4 DEF PrintReturns, wireVars
    <2> QED
      BY <1>1, <2>2, <2>3, <2>4 DEF Visitor, Idle, PrinterAnswers
  <1>2. CASE NewCorpus
    BY <1>2, WireAssumption DEF NewCorpus, Publish, kioskVars, Versions
  <1>3. ASSUME NEW r \in Requests, Endpoint(r)
        PROVE  TypeOK'
    <2>1. Stream(r) /\ UNCHANGED kioskVars
      BY <1>3 DEF Endpoint
    <2>2. /\ wire' \in [Requests -> Seq(Events)]
          /\ told' \subseteq Requests /\ closed' \subseteq Requests
          /\ UNCHANGED <<asked, reader, version>>
      BY <2>1, StreamEffect
    <2> QED
      BY <2>1, <2>2 DEF kioskVars
  <1>4. ASSUME NEW r \in Requests, Takes(r), UNCHANGED told
        PROVE  TypeOK'
    <2>1. wire' \in [Requests -> Seq(Events)]
      BY <1>4, TakesEffect
    <2>2. screen' \in {None, Waiting, Fallback} \cup Answers /\ timer' \in BOOLEAN
          /\ finished' \subseteq Requests
      <3>1. CASE OnStatus(r)
        BY <3>1, ShowIfCurrentEffect DEF OnStatus
      <3>2. CASE OnDone(r)
        <4>1. Head(wire[r]) \in Events /\ Head(wire[r]).kind = "done"
          BY <3>2 DEF OnDone, HeadIs
        <4> QED
          BY <3>2, <4>1, ShowIfCurrentEffect, KindsOfEvents DEF OnDone
      <3> QED
        BY <1>4, <3>1, <3>2 DEF Takes
    <2> QED
      BY <1>4, <2>1, <2>2, TakesEffect
  <1>5. ASSUME NEW r \in Requests, Ends(r), UNCHANGED told
        PROVE  TypeOK'
    <2>1. wire' \in [Requests -> Seq(Events)] /\ reader' \in [Requests -> Readers]
      <3>1. <<>> \in Seq(Events)
        OBVIOUS
      <3>2. {"settled", "gone"} \subseteq Readers
        BY DEF Readers
      <3>3. PICK how \in {"settled", "gone"} : reader' = [reader EXCEPT ![r] = how]
        BY <1>5, EndsEffect
      <3>4. wire' = [wire EXCEPT ![r] = <<>>]
        BY <1>5, EndsEffect
      <3>5. wire \in [Requests -> Seq(Events)] /\ reader \in [Requests -> Readers]
        OBVIOUS
      <3> HIDE DEF Promised, TypeOK, WireTypeOK, KioskTypeOK
      <3> QED
        BY <3>1, <3>2, <3>3, <3>4, <3>5
    <2>2. screen' \in {None, Waiting, Fallback} \cup Answers /\ timer' \in BOOLEAN
      BY <1>5, EndsEffect, ShowIfCurrentEffect
    <2> QED
      BY <1>5, <2>1, <2>2, EndsEffect
  <1>6. ASSUME NEW r \in Requests, NEW q \in Questions, Asks(r, q)
        PROVE  TypeOK'
    <2>1. Submit(r, q) /\ UNCHANGED told
      BY <1>6 DEF Asks
    <2> QED
      BY <2>1, SubmitEffect DEF Submit, Show, Streaming
  <1>7. CASE UNCHANGED vars
    BY <1>7 DEF vars, wireVars, kioskVars
  <1> QED
    BY <1>1, <1>2, <1>3, <1>4, <1>5, <1>6, <1>7
    DEF Next, Browser, Read, ConnectionBreaks, Takes, Ends
-----------------------------------------------------------------------------
\* Steps that change neither a stream nor who reads it.
Quiet == Visitor \/ Idle \/ PrinterAnswers \/ NewCorpus \/ UNCHANGED vars

LEMMA QuietEffect ==
    ASSUME Quiet
    PROVE  UNCHANGED <<told, asked, wire, closed, reader, finished, latest>>
  BY DEF Quiet, Visitor, SwitchMode, Touch, Home, ResetToMain, PrintAnswer, Idle, IdleReset,
         PrinterAnswers, PrintReturns, NewCorpus, Publish, wireVars, kioskVars, vars

LEMMA NextKinds ==
    ASSUME [Next]_vars
    PROVE  \/ Quiet
           \/ \E r \in Requests : Stream(r) /\ UNCHANGED kioskVars
           \/ \E r \in Requests : (Takes(r) \/ Ends(r)) /\ UNCHANGED told
           \/ \E r \in Requests, q \in Questions : Submit(r, q) /\ UNCHANGED told
  BY DEF Next, Quiet, Endpoint, Browser, Read, ConnectionBreaks, Asks, Takes, Ends

LEMMA CleanStep ==
    ASSUME Promised, [Next]_vars
    PROVE  UnmadeIsClean'
  <1> USE DEF Promised, UnmadeIsClean, Unmade
  <1>1. CASE Quiet
    <2>1. prints' \subseteq prints \cup {latest}
      BY <1>1
      DEF Quiet, Visitor, SwitchMode, Touch, Home, ResetToMain, PrintAnswer, Idle, IdleReset,
          PrinterAnswers, PrintReturns, NewCorpus, kioskVars, vars, ScreenFits
    <2> QED
      BY <1>1, <2>1, QuietEffect
  <1>2. ASSUME NEW r \in Requests, Stream(r), UNCHANGED kioskVars
        PROVE  UnmadeIsClean'
    BY <1>2, StreamEffect DEF kioskVars
  <1>3. ASSUME NEW r \in Requests, Takes(r) \/ Ends(r), UNCHANGED told
        PROVE  UnmadeIsClean'
    <2>1. /\ asked[r] # None
          /\ UNCHANGED <<asked, closed, prints, latest>>
          /\ \A p \in Requests : p # r => reader'[p] = reader[p] /\ wire'[p] = wire[p]
      BY <1>3, TakesEffect, EndsEffect DEF TypeOK, WireTypeOK
    <2> QED
      BY <1>3, <2>1
  <1>4. ASSUME NEW r \in Requests, NEW q \in Questions, Submit(r, q), UNCHANGED told
        PROVE  UnmadeIsClean'
    <2>1. /\ asked' = [asked EXCEPT ![r] = q] /\ q # None
          /\ latest' = r /\ UNCHANGED <<prints, closed>>
      BY <1>4, WireAssumption DEF Submit
    <2>2. \A p \in Unmade' : p \in Unmade /\ p # r /\ p # latest
      BY <2>1 DEF TypeOK, WireTypeOK
    <2> QED
      BY <1>4, <2>1, <2>2, SubmitEffect
  <1> QED
    BY <1>1, <1>2, <1>3, <1>4, NextKinds

\* WireInOrder for the stream r.
InOrder(r) ==
    \A i \in DOMAIN wire[r] :
        wire[r][i] # Status =>
            /\ i = Len(wire[r])
            /\ r \in told \cup closed
            /\ wire[r][i].kind = "done" =>
                 r \in told /\ wire[r][i].answer \in AnswersTo(asked[r])

LEMMA OrderStep ==
    ASSUME Promised, [Next]_vars
    PROVE  WireInOrder'
  <1> SUFFICES ASSUME NEW p \in Requests
               PROVE  InOrder(p)'
    BY DEF WireInOrder, InOrder
  <1>0. InOrder(p) /\ wire[p] \in Seq(Events)
    BY DEF Promised, WireInOrder, InOrder, TypeOK, WireTypeOK
  <1>1. ASSUME UNCHANGED <<wire[p], asked[p]>>, p \in told => p \in told',
               p \in closed => p \in closed'
        PROVE  InOrder(p)'
    BY <1>0, <1>1 DEF InOrder, AnswersTo
  <1>2. ASSUME wire'[p] = <<>>
        PROVE  InOrder(p)'
    BY <1>2 DEF InOrder
  <1>3. CASE Quiet
    BY <1>1, <1>3, QuietEffect
  <1>4. ASSUME NEW r \in Requests, Stream(r)
        PROVE  InOrder(p)'
    <2>1. /\ asked' = asked /\ told \subseteq told' /\ closed \subseteq closed'
          /\ r # p => wire'[p] = wire[p]
      BY <1>4, StreamEffect DEF Promised
    <2>2. ASSUME r = p, NEW event \in Events, Send(r, event), r \notin told,
                 r \notin closed,
                 event # Status => /\ r \in told' \cup closed'
                                   /\ event.kind = "done" =>
                                        r \in told' /\ event.answer \in AnswersTo(asked[r])
          PROVE  InOrder(p)'
      <3>1. \A i \in DOMAIN wire[p] : wire[p][i] = Status
        BY <1>0, <2>2 DEF InOrder
      <3>2. CASE wire'[r] = wire[r]
        BY <1>1, <2>1, <2>2, <3>2
      <3>3. CASE wire'[r] # wire[r]
        <4>1. /\ DOMAIN wire[r] = 1..Len(wire[r]) /\ Len(wire[r]) \in Nat
              /\ Len(wire'[r]) = Len(wire[r]) + 1
              /\ DOMAIN wire'[r] = 1..(Len(wire[r]) + 1)
              /\ \A i \in 1..Len(wire[r]) : wire'[r][i] = wire[r][i]
              /\ wire'[r][Len(wire[r]) + 1] = event
          BY <2>2, <3>3, SendEffect DEF Promised, TypeOK
        <4>2. \A i \in DOMAIN wire'[r] : wire'[r][i] = Status \/ i = Len(wire'[r])
          BY <2>2, <3>1, <4>1
        <4>3. wire'[r][Len(wire'[r])] = event
          BY <4>1
        <4> QED
          BY <2>1, <2>2, <4>2, <4>3 DEF InOrder, AnswersTo
      <3> QED
        BY <3>2, <3>3
    <2>3. CASE r = p /\ SayStatus(r)
      BY <2>2, <2>3, EventKinds DEF SayStatus, Open
    <2>4. CASE r = p /\ SayError(r)
      BY <2>2, <2>4, EventKinds DEF SayError, Open
    <2>5. CASE r = p /\ SayDone(r)
      BY <2>2, <2>5, EventKinds DEF SayDone, Open, AnswersTo
    <2>6. CASE r # p \/ Close(r)
      BY <1>1, <2>1, <2>6 DEF Close
    <2> QED
      BY <1>4, <2>3, <2>4, <2>5, <2>6 DEF Stream
  <1>5. ASSUME NEW r \in Requests, Takes(r), UNCHANGED told
        PROVE  InOrder(p)'
    <2>1. CASE r # p
      BY <1>1, <1>5, <2>1, TakesEffect DEF Promised, TypeOK, WireTypeOK
    <2>2. CASE r = p
      <3>1. /\ Len(wire'[p]) = Len(wire[p]) - 1 /\ wire'[p] \in Seq(Events)
            /\ \A i \in DOMAIN wire'[p] : wire'[p][i] = wire[p][i + 1] /\ i + 1 \in DOMAIN wire[p]
            /\ UNCHANGED <<asked, closed>>
        BY <1>5, <2>2, TakesEffect DEF Promised
      <3>2. \A i \in DOMAIN wire'[p] : i \in Nat /\ Len(wire[p]) \in Nat
        BY <1>0, <3>1
      <3> QED
        BY <1>0, <1>5, <3>1, <3>2 DEF InOrder, AnswersTo
    <2> QED
      BY <2>1, <2>2
  <1>6. ASSUME NEW r \in Requests, Ends(r), UNCHANGED told
        PROVE  InOrder(p)'
    BY <1>1, <1>2, <1>6, EndsEffect DEF Promised, TypeOK, WireTypeOK
  <1>7. ASSUME NEW r \in Requests, NEW q \in Questions, Submit(r, q), UNCHANGED told
        PROVE  InOrder(p)'
    <2>1. wire'[p] = <<>> \/ (wire'[p] = wire[p] /\ r # p)
      BY <1>7, SubmitEffect DEF Promised, UnmadeIsClean
    <2>2. r # p => asked'[p] = asked[p]
      BY <1>7 DEF Submit, Promised, TypeOK, WireTypeOK
    <2>3. closed' = closed
      BY <1>7 DEF Submit
    <2> QED
      BY <1>1, <1>2, <1>7, <2>1, <2>2, <2>3
  <1> QED
    BY <1>3, <1>4, <1>5, <1>6, <1>7, NextKinds

LEMMA FinishedStep ==
    ASSUME Promised, [Next]_vars
    PROVE  FinishedIsLast'
  <1> SUFFICES ASSUME NEW p \in finished'
               PROVE  reader'[p] = "reading" /\ p \in told' /\ wire'[p] = <<>>
    BY DEF FinishedIsLast
  <1>0. p \in finished => /\ p \in Requests
                          /\ reader[p] = "reading" /\ p \in told /\ wire[p] = <<>>
    BY DEF Promised, FinishedIsLast, TypeOK, KioskTypeOK
  <1>1. CASE Quiet
    BY <1>0, <1>1, QuietEffect
  <1>2. ASSUME NEW r \in Requests, Stream(r), UNCHANGED kioskVars
        PROVE  reader'[p] = "reading" /\ p \in told' /\ wire'[p] = <<>>
    <2>1. p \in finished /\ reader' = reader /\ p \in told'
          /\ (p # r => wire'[p] = wire[p])
      BY <1>0, <1>2, StreamEffect DEF Promised, kioskVars
    <2>2. p = r => Close(r)
      BY <1>0, <1>2, <2>1 DEF Stream, SayStatus, SayDone, SayError
    <2> QED
      BY <1>0, <2>1, <2>2 DEF Close
  <1>3. ASSUME NEW r \in Requests, Takes(r), UNCHANGED told
        PROVE  reader'[p] = "reading" /\ p \in told' /\ wire'[p] = <<>>
    <2>1. /\ reader[r] = "reading" /\ wire[r] # <<>> /\ reader' = reader
          /\ wire[r] \in Seq(Events)
          /\ wire' = [wire EXCEPT ![r] = Tail(@)] /\ wire \in [Requests -> Seq(Events)]
      BY <1>3, TakesEffect DEF Promised, TypeOK, WireTypeOK
    <2>2. CASE p \in finished
      BY <1>0, <1>3, <2>1, <2>2
    <2>3. CASE p \notin finished
      <3>1. p = r /\ Head(wire[r]).kind = "done"
        BY <1>3, <2>3 DEF Takes, OnStatus, OnDone, HeadIs
      <3>2. 1 \in DOMAIN wire[r] /\ wire[r][1] = Head(wire[r])
        BY <2>1
      <3>3. wire[r][1] # Status /\ wire[r][1].kind = "done"
        BY <3>1, <3>2, EventKinds
      <3>4. 1 = Len(wire[r]) /\ r \in told
        BY <3>2, <3>3 DEF Promised, WireInOrder
      <3>5. wire'[r] = Tail(wire[r]) /\ Tail(wire[r]) = <<>>
        BY <2>1, <3>4
      <3> QED
        BY <1>3, <2>1, <3>1, <3>4, <3>5
    <2> QED
      BY <2>2, <2>3
  <1>4. ASSUME NEW r \in Requests, Ends(r), UNCHANGED told
        PROVE  reader'[p] = "reading" /\ p \in told' /\ wire'[p] = <<>>
    BY <1>0, <1>4, EndsEffect DEF Promised, TypeOK, WireTypeOK
  <1>5. ASSUME NEW r \in Requests, NEW q \in Questions, Submit(r, q), UNCHANGED told
        PROVE  reader'[p] = "reading" /\ p \in told' /\ wire'[p] = <<>>
    <2>1. p \in finished /\ p # latest
      BY <1>5 DEF Submit
    <2>2. p # r
      BY <1>0, <1>5, <2>1, SubmitEffect DEF Promised, UnmadeIsClean
    <2> QED
      BY <1>0, <1>5, <2>1, <2>2, SubmitEffect
  <1> QED
    BY <1>1, <1>2, <1>3, <1>4, <1>5, NextKinds

LEMMA ScreenStep ==
    ASSUME Promised, [Next]_vars
    PROVE  ScreenFits'
  <1> USE DEF Promised, ScreenFits
  <1>1. CASE Quiet
    BY <1>1, QuietEffect
    DEF Quiet, Visitor, SwitchMode, Touch, Home, ResetToMain, PrintAnswer, Idle, IdleReset,
        PrinterAnswers, PrintReturns, NewCorpus, kioskVars, vars, TypeOK, KioskTypeOK
  <1>2. ASSUME NEW r \in Requests, Stream(r), UNCHANGED kioskVars
        PROVE  ScreenFits'
    BY <1>2, StreamEffect DEF kioskVars
  <1>3. ASSUME NEW r \in Requests, Takes(r), UNCHANGED told
        PROVE  ScreenFits'
    <2>1. /\ UNCHANGED <<mode, query, latest, asked, reader>>
          /\ wire[r] # <<>>
      BY <1>3, TakesEffect
    <2>2. CASE OnStatus(r)
      BY <2>1, <2>2 DEF OnStatus, ShowIfCurrent, IsCurrentRequest, Show
    <2>3. CASE OnDone(r)
      BY <2>1, <2>3 DEF OnDone, ShowIfCurrent, IsCurrentRequest, Show
    <2> QED
      BY <1>3, <2>2, <2>3 DEF Takes
  <1>4. ASSUME NEW r \in Requests, Ends(r), UNCHANGED told
        PROVE  ScreenFits'
    <2>1. PICK how \in {"settled", "gone"} : reader' = [reader EXCEPT ![r] = how]
      BY <1>4, EndsEffect
    <2>2. /\ UNCHANGED <<mode, query, latest, asked>> /\ finished' = finished \ {r}
          /\ UNCHANGED screen \/ ShowIfCurrent(r, Fallback)
      BY <1>4, EndsEffect
    <2>3. \A p \in Requests : reader'[p] = "reading" => p # r /\ reader[p] = "reading"
      BY <2>1 DEF TypeOK, WireTypeOK
    <2> QED
      BY <2>2, <2>3 DEF ShowIfCurrent, IsCurrentRequest, Show
  <1>5. ASSUME NEW r \in Requests, NEW q \in Questions, Submit(r, q), UNCHANGED told
        PROVE  ScreenFits'
    <2>1. asked'[r] = q /\ q # None
      BY <1>5, WireAssumption DEF Submit, TypeOK, WireTypeOK
    <2> QED
      BY <1>5, <2>1 DEF Submit, Show
  <1> QED
    BY <1>1, <1>2, <1>3, <1>4, <1>5, NextKinds

LEMMA PrintStep ==
    ASSUME Promised, [Next]_vars
    PROVE  PrintStatusIsOurs'
  <1> USE DEF Promised, PrintStatusIsOurs
  <1>1. CASE Quiet
    <2>1. CASE PrinterAnswers
      BY <2>1 DEF PrinterAnswers, PrintReturns, Mounted
    <2>2. CASE ~PrinterAnswers
      BY <1>1, <2>2, QuietEffect
      DEF Quiet, Visitor, SwitchMode, Touch, Home, ResetToMain, PrintAnswer, Idle, IdleReset,
          NewCorpus, kioskVars, vars
    <2> QED
      BY <2>1, <2>2
  <1>2. ASSUME NEW r \in Requests,
               \/ Stream(r) /\ UNCHANGED kioskVars
               \/ Takes(r)
               \/ Ends(r)
        PROVE  PrintStatusIsOurs'
    <2>1. UNCHANGED <<mode, printStatus, latest, prints>>
      BY <1>2, TakesEffect, EndsEffect DEF kioskVars
    <2> QED
      BY <2>1
  <1>3. ASSUME NEW r \in Requests, NEW q \in Questions, Submit(r, q), UNCHANGED told
        PROVE  PrintStatusIsOurs'
    <2>1. r \notin prints
      BY <1>3, SubmitEffect DEF UnmadeIsClean
    <2> QED
      BY <1>3, <2>1 DEF Submit
  <1> QED
    BY <1>1, <1>2, <1>3, NextKinds
-----------------------------------------------------------------------------
LEMMA PromisedInit == Init => Promised
  <1> SUFFICES ASSUME Init
               PROVE  Promised
    OBVIOUS
  <1> USE DEF Init, WireInit, KioskInit
  <1>1. TypeOK
    <2>1. 1 \in Versions /\ <<>> \in Seq(Events)
      BY WireAssumption DEF Versions
    <2> QED
      BY <2>1 DEF TypeOK, WireTypeOK, KioskTypeOK, Readers
  <1>2. UnmadeIsClean
    BY WireAssumption DEF UnmadeIsClean, Unmade, Requests
  <1>3. WireInOrder /\ FinishedIsLast /\ ScreenFits /\ PrintStatusIsOurs
    BY DEF WireInOrder, FinishedIsLast, ScreenFits, PrintStatusIsOurs
  <1> QED
    BY <1>1, <1>2, <1>3 DEF Promised

LEMMA PromisedInvariant == Spec => []Promised
  <1>1. Promised /\ [Next]_vars => Promised'
    BY TypeStep, CleanStep, OrderStep, FinishedStep, ScreenStep, PrintStep DEF Promised
  <1> QED
    BY <1>1, PromisedInit, PTL DEF Spec

\* Every variable of the browser, the streams and the printer stays in its
\* domain; what is on the screen is an answer, not an event of a stream.
THEOREM KioskTypeCorrect == Spec => []TypeOK
  BY PromisedInvariant, PTL DEF Promised

\* The print status an answer screen shows is that of its own print call,
\* however many calls earlier visitors have left running (ActionBar.tsx).
THEOREM PrintStatusCorrect == Spec => []PrintStatusIsOurs
  BY PromisedInvariant, PTL DEF Promised
-----------------------------------------------------------------------------
\* The visit as the kiosk's state tells it.
Stage ==
    CASE mode = "main" -> "away"
      [] mode = "input" -> "writing"
      [] mode = "answer" /\ Streaming(screen) -> "waiting"
      [] OTHER -> "told"
Heard == IF screen = Waiting THEN None ELSE screen

\* The stage of a visit, screen by screen.
LEMMA StageIs ==
    ASSUME TypeOK
    PROVE  /\ mode = "main" => Stage = "away"
           /\ mode = "input" => Stage = "writing"
           /\ mode = "answer" /\ screen = Waiting => Stage = "waiting"
           /\ mode = "answer" /\ screen # Waiting => Stage = "told"
           /\ mode \in {"main", "input", "answer"}
  BY DEF TypeOK, KioskTypeOK, Stage, Streaming

\* The promise, over the stage and what was heard.
LEMMA PromiseIs ==
    /\ Promise!VisitInit <=> Stage = "away" /\ query = None /\ Heard = None
    /\ Promise!Write <=> /\ Stage = "away" /\ Stage' = "writing"
                         /\ UNCHANGED <<query, Heard>>
    /\ \A q : Promise!Ask(q) <=> /\ Stage \in {"away", "writing"} /\ Stage' = "waiting"
                                 /\ query' = q /\ Heard' = None
    /\ Promise!Answer <=> /\ Stage = "waiting" /\ Stage' = "told"
                          /\ Heard' \in AnswersTo(query) /\ UNCHANGED query
    /\ Promise!Apologise <=> /\ Stage \in {"waiting", "told"} /\ Stage' = "told"
                             /\ Heard' = Fallback /\ UNCHANGED query
    /\ Promise!Leave <=> Stage' = "away" /\ query' = None /\ Heard' = None
    /\ Promise!visitVars = <<Stage, query, Heard>>
  BY DEF Promise!VisitInit, Promise!Write, Promise!Ask, Promise!Answer, Promise!Apologise,
         Promise!Leave, Promise!visitVars, Stage, Heard, AnswersTo

LEMMA VisitStep ==
    ASSUME Promised, Promised', [Next]_vars
    PROVE  [Promise!VisitNext]_(Promise!visitVars)
  <1> USE PromiseIs
  <1>0. /\ TypeOK /\ TypeOK' /\ Waiting # Fallback /\ Waiting # None /\ Fallback # None
        /\ Waiting \notin Answers
    BY KioskAssumption DEF Promised
  <1>1. ASSUME UNCHANGED <<mode, query, screen>>
        PROVE  UNCHANGED Promise!visitVars
    BY <1>1 DEF Promise!visitVars, Streaming
  <1>2. CASE SwitchMode
    <2>1. CASE mode = "main"
      <3>1. Stage = "away" /\ Stage' = "writing"
        BY <1>0, <1>2, <2>1, StageIs DEF SwitchMode, Stage
      <3> QED
        BY <1>2, <3>1 DEF SwitchMode, Heard, Promise!VisitNext
    <2>2. CASE mode = "input"
      <3>1. Stage' = "away" /\ query' = None /\ Heard' = None
        BY <1>2, <2>2 DEF SwitchMode, Stage, Heard, Promised, ScreenFits
      <3> QED
        BY <3>1 DEF Promise!VisitNext
    <2> QED
      BY <1>2, <2>1, <2>2 DEF SwitchMode
  <1>3. CASE Home \/ IdleReset
    <2>1. Stage' = "away" /\ query' = None /\ Heard' = None
      BY <1>3, <1>0 DEF Home, IdleReset, ResetToMain, Stage, Heard
    <2> QED
      BY <2>1 DEF Promise!VisitNext
  <1>4. CASE Touch \/ PrintAnswer \/ PrinterAnswers \/ NewCorpus \/ UNCHANGED vars
    BY <1>1, <1>4
    DEF Touch, PrintAnswer, PrinterAnswers, PrintReturns, NewCorpus, kioskVars, vars
  <1>5. CASE Quiet
    BY <1>2, <1>3, <1>4, <1>5 DEF Quiet, Visitor, Idle
  <1>6. ASSUME NEW r \in Requests, Stream(r) /\ UNCHANGED kioskVars
        PROVE  UNCHANGED Promise!visitVars
    BY <1>1, <1>6 DEF kioskVars
  <1>7. ASSUME NEW r \in Requests, ~IsCurrentRequest(r), Takes(r) \/ Ends(r)
        PROVE  UNCHANGED Promise!visitVars
    BY <1>1, <1>7
    DEF Takes, Ends, OnStatus, OnDone, OnErrorEvent, OnClose, Cut, Settle, ShowIfCurrent
  <1>8. ASSUME NEW r \in Requests, IsCurrentRequest(r), Takes(r)
        PROVE  [Promise!VisitNext]_(Promise!visitVars)
    <2>1. /\ mode = "answer" /\ query = asked[r] /\ reader[r] = "reading" /\ wire[r] # <<>>
          /\ UNCHANGED <<mode, query>> /\ wire[r] \in Seq(Events) /\ r = latest
      BY <1>0, <1>8, TakesEffect DEF IsCurrentRequest
    <2>2. r \notin finished /\ screen = Waiting
      BY <2>1 DEF Promised, FinishedIsLast, ScreenFits
    <2>3. CASE OnStatus(r)
      <3>1. screen' = Waiting
        BY <1>8, <2>3 DEF OnStatus, ShowIfCurrent, Show
      <3> QED
        BY <1>1, <2>1, <2>2, <3>1
    <2>4. CASE OnDone(r)
      <3>1. 1 \in DOMAIN wire[r] /\ wire[r][1] = Head(wire[r]) /\ Head(wire[r]) \in Events
        BY <2>1
      <3>2. Head(wire[r]).kind = "done" /\ wire[r][1] # Status
        BY <2>4, <3>1, EventKinds DEF OnDone, HeadIs
      <3>3. Head(wire[r]).answer \in AnswersTo(query)
        BY <2>1, <3>1, <3>2 DEF Promised, WireInOrder
      <3>4. screen' = Head(wire[r]).answer
        BY <1>8, <2>4 DEF OnDone, ShowIfCurrent, Show
      <3>5. screen' \in AnswersTo(query) /\ screen' # Waiting
        BY <1>0, <3>3, <3>4 DEF AnswersTo
      <3>6. Stage = "waiting" /\ Stage' = "told" /\ Heard' = screen'
        BY <1>0, <2>1, <2>2, <3>5 DEF Stage, Heard, Streaming
      <3> QED
        BY <2>1, <3>5, <3>6 DEF Promise!VisitNext
    <2> QED
      BY <1>8, <2>3, <2>4 DEF Takes
  <1>9. ASSUME NEW r \in Requests, IsCurrentRequest(r), Ends(r)
        PROVE  [Promise!VisitNext]_(Promise!visitVars)
    <2>1. /\ mode = "answer" /\ UNCHANGED <<mode, query>>
          /\ UNCHANGED screen \/ screen' = Fallback
      BY <1>0, <1>9, EndsEffect DEF IsCurrentRequest, ShowIfCurrent, Show
    <2>2. CASE screen' = Fallback
      <3>1. Stage \in {"waiting", "told"} /\ Stage' = "told" /\ Heard' = Fallback
        BY <1>0, <2>1, <2>2 DEF Stage, Heard, Streaming
      <3> QED
        BY <2>1, <3>1 DEF Promise!VisitNext
    <2> QED
      BY <1>1, <2>1, <2>2
  <1>10. ASSUME NEW r \in Requests, NEW q \in Questions, Submit(r, q)
         PROVE  Promise!VisitNext
    <2>1. Stage \in {"away", "writing"}
      BY <1>0, <1>10 DEF Submit, Stage
    <2>2. Stage' = "waiting" /\ query' = q /\ Heard' = None
      BY <1>10 DEF Submit, Show, Stage, Heard, Streaming
    <2> QED
      BY <2>1, <2>2 DEF Promise!VisitNext
  <1> QED
    BY <1>5, <1>6, <1>7, <1>8, <1>9, <1>10, NextKinds

\* PromiseKept: through every abort, cut, home button and idle reset
\* a visitor is told one thing, an answer to the question asked or an apology,
\* and nothing of an earlier visit (kioskStore.ts, useChat.ts).
THEOREM PromiseCorrect == Spec => PromiseKept
  <1>1. Init => Promise!VisitInit
    BY KioskAssumption, PromiseIs DEF Init, KioskInit, Stage, Heard
  <1>2. Promised /\ Promised' /\ [Next]_vars => [Promise!VisitNext]_(Promise!visitVars)
    BY VisitStep
  <1> QED
    BY <1>1, <1>2, PromisedInvariant, PTL DEF Spec, PromiseKept, Promise!VisitSpec
=============================================================================
