----------------------------- MODULE ChatProofs -----------------------------
(***************************************************************************)
(* The endpoint keeps its log and the contract of the stream, and its      *)
(* cached answers are their own TTL old at most, for every set of          *)
(* questions, number of requests and size of the connection pool.          *)
(* Behind it, the retriever's fusion is fair, tables stand behind their    *)
(* headings, evidence is in order and an answer rests on it, for every set *)
(* of chunks, every fusion weight, every TOP_K and everything the two      *)
(* searches and the model may return.                                      *)
(***************************************************************************)
EXTENDS ChatFreshness, Answering, ListProofs, FiniteSetTheorems, SequenceTheorems,
        TLAPS

\* Where a request stands, as its client and its stream show it.
StagesAgree ==
    \A r \in Requests :
        /\ pc[r] = "idle" <=> asked[r] = None
        /\ pc[r] = "idle" <=> reader[r] = "unsent"
        /\ pc[r] = "end" <=> r \in closed
        /\ pc[r] = "idle" => wire[r] = <<>>

\* The done event goes out right before the answer is logged.
DoneBeforeLog ==
    \A r \in Requests :
        /\ Sent(r, "done") => pc[r] \in {"logHit", "logSuccess", "end"}
        /\ pc[r] \in {"logHit", "logSuccess"} /\ reader[r] = "reading" => Sent(r, "done")

\* A request is logged at its last steps only.
LoggedLast ==
    \A r \in Requests :
        /\ logs[r] \in {<<>>, <<"hit">>, <<"success">>, <<"failure">>}
        /\ pc[r] \notin {"error", "end"} => logs[r] = <<>>
        /\ pc[r] = "error" => logs[r] \in {<<>>, <<"failure">>}

\* Answers held or cached are answers to the question, and not from the future.
AnswersFit ==
    /\ \A r \in Requests : pc[r] \in {"evidence", "generate", "store", "done"} =>
         /\ reply[r] \in Answers
         /\ reply[r].question = asked[r]
         /\ reply[r].version <= version
    /\ \A key \in Keys : cache[key] \in Answers =>
         KeyOf[cache[key].question] = key /\ cache[key].version <= version

\* Connections and providers are held where they are used, nowhere else.
HeldWhereUsed ==
    /\ holding = {r \in Requests : pc[r] = "retrieve"}
    /\ Cardinality(holding) <= PoolSize
    /\ providers \subseteq {r \in Requests : pc[r] \in {"generate", "logInvalid", "error"}}

Kept ==
    /\ TypeOK /\ StagesAgree /\ DoneBeforeLog /\ LoggedLast /\ AnswersFit
    /\ HeldWhereUsed /\ LogMatchesStream
-----------------------------------------------------------------------------
\* Sending appends to one stream at most, and only the done event tells.
LEMMA SendEffect ==
    ASSUME WireTypeOK, NEW r \in Requests, NEW event \in Events, Send(r, event)
    PROVE  /\ wire' \in [Requests -> Seq(Events)]
           /\ \A q \in Requests : q # r => wire'[q] = wire[q]
           /\ \A q \in Requests : (\E i \in DOMAIN wire'[q] : wire'[q][i].kind = "done") <=>
                Sent(q, "done") \/ (q = r /\ Listening(r) /\ event.kind = "done")
  <1> USE DEF WireTypeOK, Send, Sent
  <1>1. CASE wire' = wire /\ ~(Listening(r) /\ event.kind = "done")
    BY <1>1
  <1>2. CASE Listening(r) /\ wire' = [wire EXCEPT ![r] = Append(@, event)]
    <2>1. /\ wire[r] \in Seq(Events) /\ wire'[r] = Append(wire[r], event)
          /\ \A q \in Requests : q # r => wire'[q] = wire[q]
      BY <1>2
    <2>2. (\E i \in DOMAIN wire'[r] : wire'[r][i].kind = "done") <=>
            Sent(r, "done") \/ event.kind = "done"
      <3>1. /\ DOMAIN wire[r] = 1..Len(wire[r]) /\ Len(wire[r]) \in Nat
            /\ DOMAIN wire'[r] = 1..(Len(wire[r]) + 1)
            /\ \A i \in 1..Len(wire[r]) : wire'[r][i] = wire[r][i]
            /\ wire'[r][Len(wire[r]) + 1] = event
        BY <2>1
      <3>2. \A i \in 1..(Len(wire[r]) + 1) : i \in 1..Len(wire[r]) \/ i = Len(wire[r]) + 1
        BY <3>1
      <3> QED
        BY <3>1, <3>2
    <2>3. wire' \in [Requests -> Seq(Events)]
      BY <1>2, <2>1
    <2> QED
      BY <1>2, <2>1, <2>2, <2>3
  <1>3. Status.kind = "status"
    BY DEF Status
  <1> QED
    BY <1>1, <1>2, <1>3

\* The events and what they say.
LEMMA EventKinds ==
    /\ Status \in Events /\ Status.kind = "status"
    /\ Error \in Events /\ Error.kind = "error"
    /\ \A a \in Answers : Done(a) \in Events /\ Done(a).kind = "done"
  BY DEF Events, Status, Error, Done

\* The parts of the wire and the endpoint that the steps of a request change.
Local == <<reply, cache, holding, providers, logs>>

\* A request that is being answered has a question, and so a key.
LEMMA KeyInKeys ==
    ASSUME Kept, NEW r \in Requests, pc[r] # "idle"
    PROVE  asked[r] \in Questions /\ Key(r) \in Keys
  BY WireAssumption DEF Kept, TypeOK, WireTypeOK, StagesAgree, Key, Keys

\* Steps that send a status event and move on.
Speaks(r) == CacheMiss(r) \/ Retrieve(r) \/ MakeProvider(r) \/ Generate(r)

\* Steps that change no stream.
Silent(r) ==
    \/ CacheEntryInvalid(r) \/ Checkout(r) \/ PoolExhausted(r) \/ RetrievalFails(r)
    \/ NoEvidence(r) \/ OutputInvalid(r) \/ ProviderFails(r) \/ CacheStore(r)
    \/ LogFailure(r)

LEMMA ServeKinds ==
    ASSUME NEW r
    PROVE  Serve(r) <=> \/ Speaks(r) \/ Silent(r) \/ AnswerFromCache(r) \/ SendDone(r)
                        \/ LogAnswer(r) \/ SendError(r)
  BY DEF Serve, Speaks, Silent

\* What a status event does to its stream: no more is told.
LEMMA StatusEffect ==
    ASSUME WireTypeOK, NEW r \in Requests, Speaks(r)
    PROVE  /\ wire' \in [Requests -> Seq(Events)]
           /\ \A q \in Requests : q # r => wire'[q] = wire[q]
           /\ \A q \in Requests : Sent(q, "done")' <=> Sent(q, "done")
  <1>1. Send(r, Status)
    BY DEF Speaks, CacheMiss, Retrieve, MakeProvider, Generate
  <1> QED
    BY <1>1, SendEffect, EventKinds DEF Sent

LEMMA ErrorEffect ==
    ASSUME WireTypeOK, NEW r \in Requests, SendError(r)
    PROVE  /\ wire' \in [Requests -> Seq(Events)]
           /\ \A q \in Requests : q # r => wire'[q] = wire[q]
           /\ \A q \in Requests : Sent(q, "done")' <=> Sent(q, "done")
  <1>1. Send(r, Error)
    BY DEF SendError
  <1> QED
    BY <1>1, SendEffect, EventKinds DEF Sent

\* What a done event does: the listener of this stream is told.
LEMMA DoneEffect ==
    ASSUME Kept, NEW r \in Requests, AnswerFromCache(r) \/ SendDone(r)
    PROVE  /\ wire' \in [Requests -> Seq(Events)]
           /\ \A q \in Requests : q # r => wire'[q] = wire[q]
           /\ \A q \in Requests : Sent(q, "done")' <=>
                Sent(q, "done") \/ (q = r /\ Listening(r))
  <1>1. PICK answer \in Answers : Send(r, Done(answer))
    BY KeyInKeys DEF AnswerFromCache, SendDone, Kept, AnswersFit
  <1>2. Done(answer) \in Events /\ Done(answer).kind = "done"
    BY EventKinds
  <1> QED
    BY <1>1, <1>2, SendEffect DEF Sent, Kept, TypeOK

\* What a log write does, whether the record is lost or not.
LEMMA LogEffect ==
    ASSUME EndpointTypeOK, NEW r \in Requests, NEW status \in {"hit", "success", "failure"},
           WriteLog(r, status)
    PROVE  /\ logs' \in [Requests -> Seq({"hit", "success", "failure"})]
           /\ \A q \in Requests : q # r => logs'[q] = logs[q]
           /\ logs'[r] \in {logs[r], Append(logs[r], status)}
  <1>1. logs[r] \in Seq({"hit", "success", "failure"})
    BY DEF EndpointTypeOK
  <1>2. Append(logs[r], status) \in Seq({"hit", "success", "failure"})
    BY <1>1
  <1> QED
    BY <1>1, <1>2 DEF EndpointTypeOK, WriteLog, Logged
-----------------------------------------------------------------------------
\* A step keeps every variable in its domain.
LEMMA ChatTypeStep ==
    ASSUME Kept, [Next]_vars
    PROVE  TypeOK'
  <1> USE DEF Kept, TypeOK, WireTypeOK, EndpointTypeOK, Steps, wireVars, Goto, ForgetReply
  <1>1. ASSUME NEW r \in Requests, Speaks(r) PROVE TypeOK'
    <2>1. wire' \in [Requests -> Seq(Events)]
      BY <1>1, StatusEffect
    <2>2. reply' \in [Requests -> Answers \cup {None}]
      <3>1. ASSUME Retrieve(r) PROVE reply' \in [Requests -> Answers \cup {None}]
        <4>1. asked[r] \in Questions
          BY <3>1, KeyInKeys DEF Retrieve
        <4>2. [question |-> asked[r], version |-> version] \in Answers
          BY <4>1 DEF Answers
        <4> QED
          BY <3>1, <4>2 DEF Retrieve
      <3> QED
        BY <1>1, <3>1 DEF Speaks, CacheMiss, MakeProvider, Generate
    <2> QED
      BY <1>1, <2>1, <2>2 DEF Speaks, CacheMiss, Retrieve, MakeProvider, Generate
  <1>2. ASSUME NEW r \in Requests, Silent(r) PROVE TypeOK'
    <2>1. CASE CacheStore(r)
      <3>1. reply[r] \in Answers /\ Key(r) \in Keys
        BY <2>1, KeyInKeys DEF CacheStore, AnswersFit
      <3> QED
        BY <2>1, <3>1 DEF CacheStore
    <2>2. CASE LogFailure(r)
      BY <2>2, LogEffect DEF LogFailure
    <2>3. CASE CacheEntryInvalid(r) \/ Checkout(r) \/ PoolExhausted(r) \/ RetrievalFails(r)
               \/ NoEvidence(r) \/ OutputInvalid(r) \/ ProviderFails(r)
      BY <2>3 DEF CacheEntryInvalid, Checkout, PoolExhausted, RetrievalFails, NoEvidence,
           OutputInvalid, ProviderFails
    <2> QED
      BY <1>2, <2>1, <2>2, <2>3 DEF Silent
  <1>3. ASSUME NEW r \in Requests, AnswerFromCache(r) \/ SendDone(r) PROVE TypeOK'
    <2>1. wire' \in [Requests -> Seq(Events)]
      BY <1>3, DoneEffect
    <2> QED
      BY <1>3, <2>1 DEF AnswerFromCache, SendDone
  <1>4. ASSUME NEW r \in Requests, LogAnswer(r) PROVE TypeOK'
    <2>1. logs' \in [Requests -> Seq({"hit", "success", "failure"})]
      BY <1>4, LogEffect DEF LogAnswer
    <2> QED
      BY <1>4, <2>1 DEF LogAnswer
  <1>5. ASSUME NEW r \in Requests, SendError(r) PROVE TypeOK'
    <2>1. wire' \in [Requests -> Seq(Events)]
      BY <1>5, ErrorEffect
    <2> QED
      BY <1>5, <2>1 DEF SendError
  <1>6. ASSUME NEW r \in Requests, Cancelled(r) PROVE TypeOK'
    BY <1>6 DEF Cancelled
  <1>7. ASSUME NEW r \in Requests, Leaves(r) PROVE TypeOK'
    BY <1>7 DEF Leaves, ClientLeaves, Readers, endpointVars
  <1>8. ASSUME NEW r \in Requests, NEW q \in Questions, Asks(r, q) PROVE TypeOK'
    BY <1>8 DEF Asks, ClientAsks, Readers
  <1>9. CASE NewCorpus
    BY <1>9, WireAssumption DEF NewCorpus, Publish, Versions, endpointVars
  <1>10. ASSUME NEW key \in Keys, Expire(key) PROVE TypeOK'
    BY <1>10 DEF Expire
  <1>11. CASE UNCHANGED vars
    BY <1>11 DEF vars, endpointVars
  <1> QED
    BY <1>1, <1>2, <1>3, <1>4, <1>5, <1>6, <1>7, <1>8, <1>9, <1>10, <1>11, ServeKinds
    DEF Next

\* The generator, its client and its stream go through their lives together.
LEMMA StagesStep ==
    ASSUME Kept, [Next]_vars
    PROVE  StagesAgree'
  <1> USE DEF Kept, TypeOK, WireTypeOK, EndpointTypeOK, StagesAgree, wireVars, Goto
  <1>1. ASSUME NEW r \in Requests, Speaks(r) PROVE StagesAgree'
    <2>1. /\ UNCHANGED <<asked, closed, reader>>
          /\ pc[r] \in {"lookup", "retrieve", "evidence", "generate"}
          /\ \E step \in {"checkout", "evidence", "generate", "store"} : Goto(r, step)
      BY <1>1 DEF Speaks, CacheMiss, Retrieve, MakeProvider, Generate
    <2>2. \A q \in Requests : q # r => wire'[q] = wire[q]
      BY <1>1, StatusEffect
    <2> QED
      BY <2>1, <2>2
  <1>2. ASSUME NEW r \in Requests, Silent(r) PROVE StagesAgree'
    <2>1. /\ UNCHANGED <<asked, closed, reader, wire>>
          /\ pc[r] \in Steps \ {"idle", "end"}
          /\ \E step \in Steps \ {"idle", "end"} : Goto(r, step)
      BY <1>2
      DEF Silent, CacheEntryInvalid, Checkout, PoolExhausted, RetrievalFails, NoEvidence,
          OutputInvalid, ProviderFails, CacheStore, LogFailure, Steps
    <2> QED
      BY <2>1
  <1>3. ASSUME NEW r \in Requests, AnswerFromCache(r) \/ SendDone(r) PROVE StagesAgree'
    <2>1. /\ UNCHANGED <<asked, closed, reader>> /\ pc[r] \in {"lookup", "done"}
          /\ \E step \in {"logHit", "logSuccess"} : Goto(r, step)
      BY <1>3 DEF AnswerFromCache, SendDone
    <2>2. \A q \in Requests : q # r => wire'[q] = wire[q]
      BY <1>3, DoneEffect
    <2> QED
      BY <2>1, <2>2
  <1>4. ASSUME NEW r \in Requests, LogAnswer(r) PROVE StagesAgree'
    BY <1>4 DEF LogAnswer
  <1>5. ASSUME NEW r \in Requests, SendError(r) PROVE StagesAgree'
    BY <1>5, ErrorEffect DEF SendError
  <1>6. ASSUME NEW r \in Requests, Cancelled(r) PROVE StagesAgree'
    BY <1>6 DEF Cancelled
  <1>7. ASSUME NEW r \in Requests, Leaves(r) PROVE StagesAgree'
    BY <1>7 DEF Leaves, ClientLeaves, Listening, endpointVars
  <1>8. ASSUME NEW r \in Requests, NEW q \in Questions, Asks(r, q) PROVE StagesAgree'
    BY <1>8, WireAssumption DEF Asks, ClientAsks, IsNext, Unmade
  <1>9. CASE NewCorpus
    BY <1>9 DEF NewCorpus, Publish, endpointVars
  <1>10. ASSUME NEW key \in Keys, Expire(key) PROVE StagesAgree'
    BY <1>10 DEF Expire
  <1>11. CASE UNCHANGED vars
    BY <1>11 DEF vars, endpointVars
  <1> QED
    BY <1>1, <1>2, <1>3, <1>4, <1>5, <1>6, <1>7, <1>8, <1>9, <1>10, <1>11, ServeKinds
    DEF Next

\* No answer is logged to a listener that was not told, and none is told early.
LEMMA DoneStep ==
    ASSUME Kept, [Next]_vars
    PROVE  DoneBeforeLog'
  <1> USE DEF Kept, TypeOK, WireTypeOK, EndpointTypeOK, DoneBeforeLog, wireVars, Goto
  <1> DEFINE SameSent == \A q \in Requests : Sent(q, "done")' <=> Sent(q, "done")
  <1>0. ASSUME UNCHANGED wire PROVE SameSent
    BY <1>0 DEF Sent
  <1>1. ASSUME NEW r \in Requests, Speaks(r) PROVE DoneBeforeLog'
    <2>1. SameSent
      BY <1>1, StatusEffect
    <2> HIDE DEF SameSent
    <2>2. reader' = reader /\ pc[r] \notin {"logHit", "logSuccess", "end"}
          /\ \E step \in {"checkout", "evidence", "generate", "store"} : Goto(r, step)
      BY <1>1 DEF Speaks, CacheMiss, Retrieve, MakeProvider, Generate
    <2> QED
      BY <2>1, <2>2 DEF SameSent
  <1>2. ASSUME NEW r \in Requests, Silent(r) PROVE DoneBeforeLog'
    <2>1. SameSent /\ reader' = reader
      BY <1>0, <1>2
      DEF Silent, CacheEntryInvalid, Checkout, PoolExhausted, RetrievalFails, NoEvidence,
          OutputInvalid, ProviderFails, CacheStore, LogFailure
    <2> HIDE DEF SameSent
    <2>2. pc[r] \notin {"logHit", "logSuccess", "end"}
          /\ \E step \in Steps \ {"logHit", "logSuccess", "end"} : Goto(r, step)
      BY <1>2
      DEF Silent, CacheEntryInvalid, Checkout, PoolExhausted, RetrievalFails, NoEvidence,
          OutputInvalid, ProviderFails, CacheStore, LogFailure, Steps
    <2> QED
      BY <2>1, <2>2 DEF SameSent
  <1>3. ASSUME NEW r \in Requests, AnswerFromCache(r) \/ SendDone(r) PROVE DoneBeforeLog'
    <2>1. \A q \in Requests : Sent(q, "done")' <=> Sent(q, "done") \/ (q = r /\ Listening(r))
      BY <1>3, DoneEffect
    <2>2. reader' = reader /\ \E step \in {"logHit", "logSuccess"} : Goto(r, step)
      BY <1>3 DEF AnswerFromCache, SendDone
    <2> QED
      BY <2>1, <2>2 DEF Listening
  <1>4. ASSUME NEW r \in Requests, LogAnswer(r) \/ Cancelled(r) PROVE DoneBeforeLog'
    <2>1. SameSent /\ reader' = reader /\ Goto(r, "end")
      BY <1>0, <1>4 DEF LogAnswer, Cancelled
    <2> HIDE DEF SameSent
    <2> QED
      BY <2>1 DEF SameSent
  <1>5. ASSUME NEW r \in Requests, SendError(r) PROVE DoneBeforeLog'
    <2>1. SameSent /\ reader' = reader /\ Goto(r, "end")
      BY <1>5, ErrorEffect DEF SendError
    <2> HIDE DEF SameSent
    <2> QED
      BY <2>1 DEF SameSent
  <1>7. ASSUME NEW r \in Requests, Leaves(r) PROVE DoneBeforeLog'
    <2>1. SameSent /\ pc' = pc /\ reader' = [reader EXCEPT ![r] = "gone"]
      BY <1>0, <1>7 DEF Leaves, ClientLeaves, endpointVars
    <2> HIDE DEF SameSent
    <2> QED
      BY <2>1 DEF SameSent
  <1>8. ASSUME NEW r \in Requests, NEW q \in Questions, Asks(r, q) PROVE DoneBeforeLog'
    <2>1. SameSent /\ pc[r] = "idle" /\ pc' = [pc EXCEPT ![r] = "lookup"]
          /\ reader' = [reader EXCEPT ![r] = "reading"]
      BY <1>0, <1>8 DEF Asks, ClientAsks, IsNext, Unmade, StagesAgree
    <2> HIDE DEF SameSent
    <2> QED
      BY <2>1 DEF SameSent
  <1>9. ASSUME UNCHANGED <<wire, pc, reader>> PROVE DoneBeforeLog'
    BY <1>9 DEF Sent
  <1>10. (NewCorpus \/ (\E key \in Keys : Expire(key)) \/ UNCHANGED vars) => DoneBeforeLog'
    BY <1>9 DEF NewCorpus, Publish, Expire, vars, endpointVars
  <1> QED
    BY <1>1, <1>2, <1>3, <1>4, <1>5, <1>7, <1>8, <1>10, ServeKinds
    DEF Next

\* One record at most, written last, that says what the client was told.
LEMMA LogsStep ==
    ASSUME Kept, [Next]_vars
    PROVE  LoggedLast' /\ LogMatchesStream'
  <1> DEFINE Record(q) == logs[q] \in {<<>>, <<"hit">>, <<"success">>, <<"failure">>}
             Fits(q) ==
               /\ Record(q)
               /\ pc[q] \notin {"error", "end"} => logs[q] = <<>>
               /\ pc[q] = "error" => logs[q] \in {<<>>, <<"failure">>}
               /\ logs[q] = <<"failure">> => ~Sent(q, "done")
               /\ logs[q] \in {<<"hit">>, <<"success">>} /\ reader[q] = "reading" =>
                    Sent(q, "done")
             SameSent == \A q \in Requests : Sent(q, "done")' <=> Sent(q, "done")
  <1>0. \A q \in Requests : Fits(q)
    BY DEF Kept, LoggedLast, LogMatchesStream
  <1>a. ASSUME UNCHANGED wire PROVE SameSent
    BY <1>a DEF Sent
  <1>b. <<"hit">> # <<"failure">> /\ <<"success">> # <<"failure">> /\ <<>> # <<"failure">>
        /\ <<>> # <<"hit">> /\ <<>> # <<"success">>
    OBVIOUS
  <1>c. pc \in [Requests -> Steps] /\ reader \in [Requests -> Readers]
    BY DEF Kept, TypeOK, WireTypeOK, EndpointTypeOK
  <1> HIDE DEF SameSent
  <1>1. ASSUME NEW r \in Requests, Speaks(r) PROVE \A q \in Requests : Fits(q)'
    <2>1. SameSent
      BY <1>1, StatusEffect DEF SameSent, Kept, TypeOK
    <2>2. /\ UNCHANGED <<reader, logs>> /\ pc[r] \notin {"error", "end"}
          /\ \E step \in {"checkout", "evidence", "generate", "store"} : Goto(r, step)
      BY <1>1 DEF Speaks, CacheMiss, Retrieve, MakeProvider, Generate
    <2> QED
      BY <1>0, <1>c, <2>1, <2>2 DEF SameSent, Goto
  <1>2. ASSUME NEW r \in Requests, Silent(r), ~LogFailure(r)
        PROVE \A q \in Requests : Fits(q)'
    <2>1. SameSent
      BY <1>a, <1>2
      DEF Silent, CacheEntryInvalid, Checkout, PoolExhausted, RetrievalFails, NoEvidence,
          OutputInvalid, ProviderFails, CacheStore, wireVars
    <2>2. /\ UNCHANGED <<reader, logs>> /\ pc[r] \notin {"error", "end"}
          /\ \E step \in Steps \ {"error", "end"} : Goto(r, step)
      BY <1>2
      DEF Silent, CacheEntryInvalid, Checkout, PoolExhausted, RetrievalFails, NoEvidence,
          OutputInvalid, ProviderFails, CacheStore, wireVars, Steps
    <2> QED
      BY <1>0, <1>c, <2>1, <2>2 DEF SameSent, Goto
  <1>3. ASSUME NEW r \in Requests, AnswerFromCache(r) \/ SendDone(r)
        PROVE \A q \in Requests : Fits(q)'
    <2>1. \A q \in Requests : Sent(q, "done")' <=> Sent(q, "done") \/ (q = r /\ Listening(r))
      BY <1>3, DoneEffect
    <2>2. /\ UNCHANGED <<reader, logs>> /\ pc[r] \notin {"error", "end"}
          /\ \E step \in {"logHit", "logSuccess"} : Goto(r, step)
      BY <1>3 DEF AnswerFromCache, SendDone
    <2> QED
      BY <1>0, <1>b, <1>c, <2>1, <2>2 DEF Goto
  <1>4. ASSUME NEW r \in Requests, LogAnswer(r) PROVE \A q \in Requests : Fits(q)'
    <2>1. SameSent /\ reader' = reader /\ Goto(r, "end") /\ pc[r] \in {"logHit", "logSuccess"}
      BY <1>a, <1>4 DEF LogAnswer
    <2>2. /\ \A q \in Requests : q # r => logs'[q] = logs[q]
          /\ logs'[r] \in {<<>>, <<"hit">>, <<"success">>}
      <3>1. logs[r] = <<>> /\ Append(<<>>, "hit") = <<"hit">>
            /\ Append(<<>>, "success") = <<"success">>
        BY <1>0, <2>1
      <3> QED
        BY <1>4, <3>1, LogEffect DEF LogAnswer, Kept, TypeOK
    <2>3. reader[r] = "reading" => Sent(r, "done")
      BY <2>1 DEF Kept, DoneBeforeLog
    <2> QED
      BY <1>0, <1>b, <1>c, <2>1, <2>2, <2>3 DEF SameSent, Goto
  <1>5. ASSUME NEW r \in Requests, LogFailure(r) PROVE \A q \in Requests : Fits(q)'
    <2>1. SameSent /\ reader' = reader /\ Goto(r, "error") /\ pc[r] \in {"logInvalid", "logFailure"}
      BY <1>a, <1>5 DEF LogFailure, wireVars
    <2>2. /\ \A q \in Requests : q # r => logs'[q] = logs[q]
          /\ logs'[r] \in {<<>>, <<"failure">>}
      <3>1. logs[r] = <<>> /\ Append(<<>>, "failure") = <<"failure">>
        BY <1>0, <2>1
      <3> QED
        BY <1>5, <3>1, LogEffect DEF LogFailure, Kept, TypeOK
    <2>3. ~Sent(r, "done")
      BY <2>1 DEF Kept, DoneBeforeLog
    <2> QED
      BY <1>0, <1>b, <1>c, <2>1, <2>2, <2>3 DEF SameSent, Goto
  <1>6. ASSUME NEW r \in Requests, SendError(r) \/ Cancelled(r)
        PROVE \A q \in Requests : Fits(q)'
    <2>1. SameSent
      BY <1>a, <1>6, ErrorEffect DEF Cancelled, SameSent, Kept, TypeOK
    <2>2. UNCHANGED <<reader, logs>> /\ Goto(r, "end")
      BY <1>6 DEF SendError, Cancelled
    <2> QED
      BY <1>0, <1>c, <2>1, <2>2 DEF SameSent, Goto
  <1>7. ASSUME NEW r \in Requests, Leaves(r) PROVE \A q \in Requests : Fits(q)'
    <2>1. SameSent /\ UNCHANGED <<pc, logs>> /\ reader' = [reader EXCEPT ![r] = "gone"]
      BY <1>a, <1>7 DEF Leaves, ClientLeaves, endpointVars
    <2> QED
      BY <1>0, <1>c, <2>1 DEF SameSent
  <1>8. ASSUME NEW r \in Requests, NEW q \in Questions, Asks(r, q)
        PROVE \A x \in Requests : Fits(x)'
    <2>1. SameSent /\ pc[r] = "idle" /\ pc' = [pc EXCEPT ![r] = "lookup"]
          /\ reader' = [reader EXCEPT ![r] = "reading"] /\ logs' = logs
      BY <1>a, <1>8 DEF Asks, ClientAsks, IsNext, Unmade, Kept, StagesAgree
    <2> QED
      BY <1>0, <1>b, <1>c, <2>1 DEF SameSent
  <1>9. ASSUME UNCHANGED <<wire, pc, reader, logs>> PROVE \A q \in Requests : Fits(q)'
    BY <1>0, <1>a, <1>9 DEF SameSent
  <1>10. (NewCorpus \/ (\E key \in Keys : Expire(key)) \/ UNCHANGED vars) =>
           \A q \in Requests : Fits(q)'
    BY <1>9 DEF NewCorpus, Publish, Expire, vars, wireVars, endpointVars
  <1>11. \A q \in Requests : Fits(q)'
    <2> HIDE DEF Fits
    <2>1. ASSUME NEW r \in Requests, Serve(r) PROVE \A q \in Requests : Fits(q)'
      BY <1>1, <1>2, <1>3, <1>4, <1>5, <1>6, <2>1, ServeKinds
    <2> QED
      BY <1>6, <1>7, <1>8, <1>10, <2>1 DEF Next
  <1>12. LoggedLast'
    BY <1>11 DEF LoggedLast
  <1>13. \A q \in Requests : Len(logs'[q]) <= 1
    <2>1. /\ Len(<<>>) <= 1 /\ Len(<<"hit">>) <= 1
          /\ Len(<<"success">>) <= 1 /\ Len(<<"failure">>) <= 1
      OBVIOUS
    <2> QED
      BY <1>12, <2>1 DEF LoggedLast
  <1> QED
    BY <1>11, <1>12, <1>13 DEF LogMatchesStream

\* What is held or cached stays an answer to the question of its key.
LEMMA AnswersStep ==
    ASSUME Kept, [Next]_vars
    PROVE  AnswersFit'
  <1> DEFINE Working == {"evidence", "generate", "store", "done"}
             Fits(q) == /\ reply[q] \in Answers /\ reply[q].question = asked[q]
                        /\ reply[q].version <= version
             Held == \A q \in Requests : pc[q] \in Working => Fits(q)
             Cached == \A key \in Keys : cache[key] \in Answers =>
                         KeyOf[cache[key].question] = key /\ cache[key].version <= version
  <1>0. /\ Held /\ Cached
        /\ pc \in [Requests -> Steps] /\ reply \in [Requests -> Answers \cup {None}]
        /\ cache \in [Keys -> Answers \cup {None, Corrupt}]
        /\ asked \in [Requests -> Questions \cup {None}]
    BY DEF Kept, AnswersFit, TypeOK, WireTypeOK, EndpointTypeOK
  <1>1. ASSUME NEW r \in Requests, CacheStore(r) PROVE Held' /\ Cached'
    <2>1. /\ reply[r] \in Answers /\ KeyOf[reply[r].question] = Key(r)
          /\ reply[r].version <= version /\ Key(r) \in Keys
      BY <1>0, <1>1, KeyInKeys DEF CacheStore, Key
    <2>2. UNCHANGED <<reply, asked, version>> /\ Goto(r, "done") /\ pc[r] = "store"
          /\ cache' \in {cache, [cache EXCEPT ![Key(r)] = reply[r]]}
      BY <1>1 DEF CacheStore, wireVars
    <2>3. Held'
      BY <1>0, <2>2 DEF Goto
    <2>4. Cached'
      BY <1>0, <2>1, <2>2
    <2> QED
      BY <2>3, <2>4
  <1>2. ASSUME NEW r \in Requests, Retrieve(r) PROVE Held' /\ Cached'
    <2>1. /\ reply' = [reply EXCEPT ![r] = [question |-> asked[r], version |-> version]]
          /\ UNCHANGED <<asked, version, cache>> /\ Goto(r, "evidence")
      BY <1>2 DEF Retrieve
    <2>2. asked[r] \in Questions /\ version \in Versions
      BY <1>2, KeyInKeys DEF Retrieve, Kept, TypeOK, WireTypeOK
    <2>3. Fits(r)'
      BY <1>0, <2>1, <2>2, WireAssumption DEF Answers, Versions
    <2> QED
      BY <1>0, <2>1, <2>3 DEF Goto
  <1>3. ASSUME NEW r \in Requests, Serve(r) \/ Cancelled(r), ~CacheStore(r), ~Retrieve(r)
        PROVE  Held' /\ Cached'
    <2>1. UNCHANGED <<asked, version, cache>>
      BY <1>3
      DEF Serve, CacheMiss, AnswerFromCache, CacheEntryInvalid, Checkout, PoolExhausted,
          RetrievalFails, NoEvidence, MakeProvider, Generate, OutputInvalid, ProviderFails,
          SendDone, LogAnswer, LogFailure, SendError, Cancelled, wireVars
    <2>2. \/ reply' = reply /\ \E step \in Steps \ Working : Goto(r, step)
          \/ reply' = reply /\ pc[r] \in Working /\ \E step \in Working : Goto(r, step)
          \/ ForgetReply(r) /\ \E step \in Steps \ Working : Goto(r, step)
      BY <1>3
      DEF Serve, CacheMiss, AnswerFromCache, CacheEntryInvalid, Checkout, PoolExhausted,
          RetrievalFails, NoEvidence, MakeProvider, Generate, OutputInvalid, ProviderFails,
          SendDone, LogAnswer, LogFailure, SendError, Cancelled, wireVars, Steps
    <2> QED
      BY <1>0, <2>1, <2>2 DEF Goto, ForgetReply
  <1>4. ASSUME NEW r \in Requests, Leaves(r) PROVE Held' /\ Cached'
    BY <1>0, <1>4 DEF Leaves, ClientLeaves, endpointVars
  <1>5. ASSUME NEW r \in Requests, NEW q \in Questions, Asks(r, q) PROVE Held' /\ Cached'
    <2>1. UNCHANGED <<reply, cache, version>> /\ pc' = [pc EXCEPT ![r] = "lookup"]
          /\ asked' = [asked EXCEPT ![r] = q]
      BY <1>5 DEF Asks, ClientAsks
    <2> QED
      BY <1>0, <2>1
  <1>6. ASSUME NewCorpus PROVE Held' /\ Cached'
    <2>1. UNCHANGED <<reply, cache, asked, pc>> /\ version' = version + 1
      BY <1>6 DEF NewCorpus, Publish, endpointVars
    <2>2. version \in Nat /\ \A a \in Answers : a.version \in Nat
      BY WireAssumption DEF Kept, TypeOK, WireTypeOK, Versions, Answers
    <2> QED
      BY <1>0, <2>1, <2>2
  <1>7. ASSUME NEW key \in Keys, Expire(key) PROVE Held' /\ Cached'
    <2>1. UNCHANGED <<reply, asked, pc, version>> /\ cache' = [cache EXCEPT ![key] = None]
      BY <1>7 DEF Expire, wireVars
    <2> QED
      BY <1>0, <2>1, EndpointAssumption
  <1>8. ASSUME UNCHANGED vars PROVE Held' /\ Cached'
    BY <1>0, <1>8 DEF vars, wireVars, endpointVars
  <1>9. Held' /\ Cached'
    <2> HIDE DEF Held, Cached
    <2> QED
      BY <1>1, <1>2, <1>3, <1>4, <1>5, <1>6, <1>7, <1>8 DEF Next
  <1> QED
    BY <1>9 DEF AnswersFit

\* One element more or less, counted against a bound.
LEMMA CountChanges ==
    ASSUME NEW S, NEW x, IsFiniteSet(S), NEW n \in Nat
    PROVE  /\ Cardinality(S) < n => Cardinality(S \cup {x}) <= n
           /\ Cardinality(S) <= n => Cardinality(S \ {x}) <= n
  <1>1. Cardinality(S) \in Nat /\ Cardinality(S \cup {x}) \in Nat
        /\ Cardinality(S \ {x}) \in Nat
    BY FS_AddElement, FS_RemoveElement, FS_CardinalityType
  <1>2. Cardinality(S \cup {x}) = IF x \in S THEN Cardinality(S) ELSE Cardinality(S) + 1
    BY FS_AddElement
  <1>3. Cardinality(S \ {x}) = IF x \in S THEN Cardinality(S) - 1 ELSE Cardinality(S)
    BY FS_RemoveElement
  <1> QED
    BY <1>1, <1>2, <1>3

\* Connections and providers are taken and given back step by step, and by
\* the cancellation too.
LEMMA HeldStep ==
    ASSUME Kept, [Next]_vars
    PROVE  HeldWhereUsed'
  <1> DEFINE Using == {r \in Requests : pc[r] = "retrieve"}
             Waiting == {r \in Requests : pc[r] \in {"generate", "logInvalid", "error"}}
  <1>0. /\ holding = Using /\ Cardinality(holding) <= PoolSize /\ providers \subseteq Waiting
        /\ pc \in [Requests -> Steps] /\ IsFiniteSet(holding) /\ PoolSize \in Nat
        /\ Cardinality(holding) \in Nat
    <2>1. IsFiniteSet(Requests)
      BY FS_Interval, WireAssumption DEF Requests
    <2>2. IsFiniteSet(holding)
      BY <2>1, FS_Subset DEF Kept, TypeOK, EndpointTypeOK
    <2> QED
      BY <2>2, FS_CardinalityType, EndpointAssumption
      DEF Kept, HeldWhereUsed, TypeOK, EndpointTypeOK
  <1>1. ASSUME NEW r \in Requests, Checkout(r) PROVE HeldWhereUsed'
    <2>1. /\ pc[r] = "checkout" /\ Goto(r, "retrieve") /\ holding' = holding \cup {r}
          /\ Cardinality(holding) < PoolSize /\ providers' = providers
      BY <1>1 DEF Checkout
    <2>2. Cardinality(holding \cup {r}) <= PoolSize
      BY <1>0, <2>1, CountChanges
    <2> QED
      BY <1>0, <2>1, <2>2 DEF HeldWhereUsed, Goto
  <1>2. ASSUME NEW r \in Requests, pc' = [pc EXCEPT ![r] = pc'[r]], holding' = holding \ {r},
               pc'[r] # "retrieve", providers' \subseteq providers,
               r \in providers' => pc'[r] \in {"generate", "logInvalid", "error"}
        PROVE  HeldWhereUsed'
    <2>1. Cardinality(holding \ {r}) <= PoolSize
      BY <1>0, CountChanges
    <2> QED
      BY <1>0, <1>2, <2>1 DEF HeldWhereUsed
  <1>3. ASSUME NEW r \in Requests, Retrieve(r) \/ RetrievalFails(r) \/ Cancelled(r)
        PROVE  HeldWhereUsed'
    BY <1>0, <1>2, <1>3 DEF Retrieve, RetrievalFails, Cancelled, Goto
  <1>4. ASSUME NEW r \in Requests, Serve(r), ~Checkout(r), ~Retrieve(r), ~RetrievalFails(r)
        PROVE  HeldWhereUsed'
    <2>1. /\ pc[r] # "retrieve" /\ holding' = holding
          /\ \E step \in Steps \ {"retrieve"} : Goto(r, step)
      BY <1>4
      DEF Serve, CacheMiss, AnswerFromCache, CacheEntryInvalid, PoolExhausted,
          NoEvidence, MakeProvider, Generate, OutputInvalid, ProviderFails, CacheStore,
          SendDone, LogAnswer, LogFailure, SendError, Steps
    <2>2. holding' = Using'
      BY <1>0, <2>1 DEF Goto
    <2>3. providers' \subseteq Waiting'
      BY <1>0, <1>4
      DEF Serve, CacheMiss, AnswerFromCache, CacheEntryInvalid, PoolExhausted,
          NoEvidence, MakeProvider, Generate, OutputInvalid, ProviderFails, CacheStore,
          SendDone, LogAnswer, LogFailure, SendError, Goto
    <2> QED
      BY <1>0, <2>1, <2>2, <2>3 DEF HeldWhereUsed
  <1>5. ASSUME NEW r \in Requests, NEW q \in Questions, Asks(r, q) PROVE HeldWhereUsed'
    <2>1. /\ pc[r] = "idle" /\ pc' = [pc EXCEPT ![r] = "lookup"]
          /\ UNCHANGED <<holding, providers>>
      BY <1>5 DEF Asks, ClientAsks, IsNext, Unmade, Kept, StagesAgree
    <2> QED
      BY <1>0, <2>1 DEF HeldWhereUsed
  <1>6. ASSUME UNCHANGED <<pc, holding, providers>> PROVE HeldWhereUsed'
    BY <1>0, <1>6 DEF HeldWhereUsed
  <1>7. (NewCorpus \/ (\E key \in Keys : Expire(key)) \/ (\E r \in Requests : Leaves(r))
           \/ UNCHANGED vars) => HeldWhereUsed'
    BY <1>6 DEF NewCorpus, Expire, Leaves, vars, endpointVars
  <1> QED
    BY <1>1, <1>3, <1>4, <1>5, <1>7 DEF Next

LEMMA KeptInit == Init => Kept
  <1> SUFFICES ASSUME Init PROVE Kept
    OBVIOUS
  <1> USE DEF Init, WireInit, EndpointInit
  <1>1. TypeOK
    BY WireAssumption, EndpointAssumption
    DEF TypeOK, WireTypeOK, EndpointTypeOK, Steps, Readers, Versions
  <1>2. StagesAgree
    BY WireAssumption DEF StagesAgree
  <1>3. DoneBeforeLog /\ LoggedLast /\ LogMatchesStream
    BY DEF DoneBeforeLog, LoggedLast, LogMatchesStream, Sent
  <1>4. AnswersFit
    BY EndpointAssumption DEF AnswersFit
  <1>5. HeldWhereUsed
    BY FS_EmptySet, EndpointAssumption DEF HeldWhereUsed
  <1> QED
    BY <1>1, <1>2, <1>3, <1>4, <1>5 DEF Kept

LEMMA KeptInvariant == Spec => []Kept
  <1>1. Kept /\ [Next]_vars => Kept'
    BY ChatTypeStep, StagesStep, DoneStep, LogsStep, AnswersStep, HeldStep DEF Kept
  <1> QED
    BY <1>1, KeptInit, PTL DEF Spec

\* Every variable of the endpoint and the wire stays in its domain, the
\* events of every stream included.
THEOREM ChatTypeCorrect == Spec => []TypeOK
  BY KeptInvariant, PTL DEF Kept

\* The log says of every request what its client was told, whatever fails
\* and whenever the client leaves (_chat_events, _safe_write_chat_log).
THEOREM LogCorrect == Spec => []LogMatchesStream
  BY KeptInvariant, PTL DEF Kept

\* A connection is held during the retrieval and at no other time, a provider
\* from its making to the end of the answer or its error; a request that is
\* over holds neither, so the pool cannot run dry for good.
THEOREM NothingLeaks == Spec => []HeldWhereUsed
  BY KeptInvariant, PTL DEF Kept

-----------------------------------------------------------------------------
\* A request that has an answer of its own and has not stored it yet.
Answered == {"evidence", "generate", "store"}

\* An answer a request retrieved is from no corpus before the request.
AnswersSince ==
    /\ \A r \in Requests : since[r] \in Nat /\ since[r] <= version
    /\ \A r \in Requests : pc[r] \in Answered => since[r] <= reply[r].version

\* What one step of the endpoint does to an answer on its way to the cache:
\* it is retrieved from the present corpus and then carried on unchanged.
LEMMA AnswerMoves ==
    ASSUME Kept, [Next]_vars, NEW r \in Requests, pc'[r] \in Answered
    PROVE  /\ asked[r] # None
           /\ \/ pc[r] \in Answered /\ reply'[r] = reply[r]
              \/ reply'[r].version = version'
  <1>0. /\ pc \in [Requests -> Steps] /\ reply \in [Requests -> Answers \cup {None}]
        /\ \A q \in Requests : pc[q] = "idle" <=> asked[q] = None
    BY DEF Kept, StagesAgree, TypeOK, EndpointTypeOK
  <1>1. ASSUME NEW q \in Requests, Retrieve(q)
        PROVE  /\ pc[r] # "idle"
               /\ \/ pc[r] \in Answered /\ reply'[r] = reply[r]
                  \/ reply'[r].version = version'
    BY <1>0, <1>1 DEF Retrieve, Goto, Answered
  <1>2. ASSUME NEW q \in Requests, Serve(q) \/ Cancelled(q), ~Retrieve(q)
        PROVE  pc[r] \in Answered /\ reply'[r] = reply[r]
    BY <1>0, <1>2
    DEF Serve, CacheMiss, AnswerFromCache, CacheEntryInvalid, Checkout, PoolExhausted,
        RetrievalFails, NoEvidence, MakeProvider, Generate, OutputInvalid, ProviderFails,
        CacheStore, SendDone, LogAnswer, LogFailure, SendError, Cancelled, Goto,
        ForgetReply, Answered
  <1>3. ASSUME NEW q \in Requests, NEW text \in Questions, Asks(q, text)
        PROVE  pc[r] \in Answered /\ reply'[r] = reply[r]
    BY <1>0, <1>3 DEF Asks, Answered
  <1>4. ASSUME NewCorpus \/ (\E key \in Keys : Expire(key))
                 \/ (\E q \in Requests : Leaves(q)) \/ UNCHANGED vars
        PROVE  pc[r] \in Answered /\ reply'[r] = reply[r]
    BY <1>4 DEF NewCorpus, Expire, Leaves, vars, endpointVars
  <1>5. pc[r] # "idle" /\ (\/ pc[r] \in Answered /\ reply'[r] = reply[r]
                           \/ reply'[r].version = version')
    BY <1>1, <1>2, <1>3, <1>4 DEF Next, Answered
  <1> QED
    BY <1>0, <1>5

\* A question stays the one that was asked, and the corpus only goes forward.
LEMMA QuestionsStay ==
    ASSUME Kept, [Next]_vars
    PROVE  /\ version <= version' /\ version' \in Nat
           /\ \A r \in Requests : asked[r] # None => asked'[r] = asked[r]
  <1>0. version \in Nat /\ asked \in [Requests -> Questions \cup {None}]
    BY WireAssumption DEF Kept, TypeOK, WireTypeOK, Versions
  <1>1. ASSUME NEW r \in Requests, Serve(r) \/ Cancelled(r) \/ Leaves(r)
        PROVE  UNCHANGED <<version, asked>>
    BY <1>1
    DEF Serve, CacheMiss, AnswerFromCache, CacheEntryInvalid, Checkout, PoolExhausted,
        Retrieve, RetrievalFails, NoEvidence, MakeProvider, Generate, OutputInvalid,
        ProviderFails, CacheStore, SendDone, LogAnswer, LogFailure, SendError,
        Cancelled, Leaves, ClientLeaves, wireVars
  <1>2. ASSUME NEW r \in Requests, NEW text \in Questions, Asks(r, text)
        PROVE  /\ UNCHANGED version
               /\ \A q \in Requests : asked[q] # None => asked'[q] = asked[q]
    BY <1>0, <1>2 DEF Asks, ClientAsks, IsNext, Unmade
  <1>3. ASSUME NewCorpus PROVE version' = version + 1 /\ UNCHANGED asked
    BY <1>3 DEF NewCorpus, Publish
  <1>4. ASSUME (\E key \in Keys : Expire(key)) \/ UNCHANGED vars
        PROVE  UNCHANGED <<version, asked>>
    BY <1>4 DEF Expire, vars, wireVars
  <1>5. \/ version' = version \/ version' = version + 1
    BY <1>1, <1>2, <1>3, <1>4 DEF Next
  <1>6. \A q \in Requests : asked[q] # None => asked'[q] = asked[q]
    BY <1>1, <1>2, <1>3, <1>4 DEF Next
  <1> QED
    BY <1>0, <1>5, <1>6

\* Only a request that has just retrieved an answer puts one into the cache.
LEMMA OnlySetsCache ==
    ASSUME Kept, [Next]_vars, NEW key \in Keys, cache'[key] \in Answers
    PROVE  cache'[key] = cache[key] \/ \E r \in Requests : Sets(r, key)
  <1>0. cache \in [Keys -> Answers \cup {None, Corrupt}]
        /\ pc \in [Requests -> Steps]
    BY DEF Kept, TypeOK, EndpointTypeOK
  <1>1. ASSUME NEW r \in Requests, CacheStore(r)
        PROVE  cache'[key] = cache[key] \/ Sets(r, key)
    <2>1. /\ pc[r] = "store" /\ pc'[r] = "done"
          /\ cache' = cache \/ cache' = [cache EXCEPT ![Key(r)] = reply[r]]
      BY <1>0, <1>1 DEF CacheStore, Goto
    <2>2. CASE cache' = cache \/ Key(r) # key
      BY <1>0, <2>1, <2>2
    <2>3. CASE cache' = [cache EXCEPT ![Key(r)] = reply[r]] /\ Key(r) = key
      BY <1>0, <2>1, <2>3 DEF Sets
    <2> QED
      BY <2>1, <2>2, <2>3
  <1>2. ASSUME NEW r \in Requests, Serve(r) \/ Cancelled(r) \/ Leaves(r), ~CacheStore(r)
        PROVE  UNCHANGED cache
    BY <1>2
    DEF Serve, CacheMiss, AnswerFromCache, CacheEntryInvalid, Checkout, PoolExhausted,
        Retrieve, RetrievalFails, NoEvidence, MakeProvider, Generate, OutputInvalid,
        ProviderFails, SendDone, LogAnswer, LogFailure, SendError, Cancelled, Leaves,
        endpointVars
  <1>3. ASSUME \/ NewCorpus
               \/ \E r \in Requests, text \in Questions : Asks(r, text)
               \/ UNCHANGED vars
        PROVE  UNCHANGED cache
    BY <1>3 DEF NewCorpus, Asks, vars, endpointVars
  <1>4. ASSUME NEW k \in Keys, Expire(k) PROVE cache'[key] = cache[key]
    BY <1>0, <1>4, EndpointAssumption DEF Expire
  <1> QED
    BY <1>1, <1>2, <1>3, <1>4 DEF Next

\* The step of AnswersStartTheirOwnTtl, and what it rests on.
TtlIsStarted ==
    \A key \in Keys : cache'[key] \in Answers =>
      /\ \A r \in Requests : Sets(r, key) => since[r] <= cache'[key].version
      /\ cache'[key] = cache[key] \/ \E r \in Requests : Sets(r, key)

LEMMA FreshStep ==
    ASSUME Kept, AnswersSince, FreshNext
    PROVE  AnswersSince' /\ TtlIsStarted
  <1>1. [Next]_vars /\ Kept'
    BY ChatTypeStep, StagesStep, DoneStep, LogsStep, AnswersStep, HeldStep
    DEF FreshNext, Kept
  <1>2. /\ \A r \in Requests : asked[r] = None => since'[r] = version'
        /\ \A r \in Requests :
             asked[r] # None /\ pc'[r] \in BeforeStore => since'[r] = since[r]
        /\ \A r \in Requests :
             asked[r] # None /\ pc'[r] \notin BeforeStore => since'[r] = 0
    BY DEF FreshNext
  <1>3. version <= version' /\ version \in Nat /\ version' \in Nat
    BY <1>1, QuestionsStay, WireAssumption DEF Kept, TypeOK, WireTypeOK, Versions
  <1>4. ASSUME NEW r \in Requests PROVE since'[r] \in Nat /\ since'[r] <= version'
    <2>1. since[r] \in Nat /\ since[r] <= version
      BY DEF AnswersSince
    <2>2. since'[r] \in {version', since[r], 0}
      BY <1>2
    <2> QED
      BY <1>3, <2>1, <2>2
  <1>5. ASSUME NEW r \in Requests, pc'[r] \in Answered
        PROVE  since'[r] <= reply'[r].version
    <2>1. asked[r] # None /\ \/ pc[r] \in Answered /\ reply'[r] = reply[r]
                             \/ reply'[r].version = version'
      BY <1>1, <1>5, AnswerMoves
    <2>2. since'[r] = since[r]
      BY <1>2, <1>5, <2>1 DEF Answered, BeforeStore
    <2>3. CASE pc[r] \in Answered /\ reply'[r] = reply[r]
      BY <2>2, <2>3 DEF AnswersSince
    <2>4. CASE reply'[r].version = version'
      BY <1>4, <2>4
    <2> QED
      BY <2>1, <2>3, <2>4
  <1>6. AnswersSince'
    BY <1>4, <1>5 DEF AnswersSince
  <1>7. ASSUME NEW key \in Keys, NEW r \in Requests, Sets(r, key)
        PROVE  since[r] <= cache'[key].version
    BY <1>7 DEF Sets, AnswersSince, Answered
  <1>8. TtlIsStarted
    BY <1>1, <1>7, OnlySetsCache DEF TtlIsStarted
  <1> QED
    BY <1>6, <1>8

\* Whatever is cached is one TTL and one request behind the corpus at most: the
\* TTL was started by a request that retrieved the answer after it was made.
THEOREM FreshnessCorrect == FreshSpec => AnswersStartTheirOwnTtl
  <1>1. FreshInit => Kept /\ AnswersSince
    <2> SUFFICES ASSUME FreshInit PROVE Kept /\ AnswersSince
      OBVIOUS
    <2>1. Kept
      BY KeptInit DEF FreshInit
    <2>2. /\ \A r \in Requests : pc[r] = "idle" /\ since[r] = version
          /\ version = 1
      BY DEF FreshInit, Init, EndpointInit, WireInit
    <2>3. AnswersSince
      BY <2>2 DEF AnswersSince, Answered
    <2> QED
      BY <2>1, <2>3
  <1>2. Kept /\ AnswersSince /\ [FreshNext]_<<vars, since>>
          => Kept' /\ AnswersSince' /\ [TtlIsStarted]_<<vars, since>>
    <2> SUFFICES ASSUME Kept, AnswersSince, [FreshNext]_<<vars, since>>
                 PROVE  Kept' /\ AnswersSince' /\ [TtlIsStarted]_<<vars, since>>
      OBVIOUS
    <2>1. [Next]_vars
      BY DEF FreshNext
    <2>2. Kept'
      BY <2>1, ChatTypeStep, StagesStep, DoneStep, LogsStep, AnswersStep, HeldStep
      DEF Kept
    <2>3. CASE FreshNext
      BY <2>2, <2>3, FreshStep
    <2>4. CASE UNCHANGED <<vars, since>>
      BY <2>2, <2>4 DEF vars, wireVars, endpointVars, AnswersSince
    <2> QED
      BY <2>2, <2>3, <2>4
  <1>3. AnswersStartTheirOwnTtl <=> [][TtlIsStarted]_<<vars, since>>
    BY DEF AnswersStartTheirOwnTtl, TtlIsStarted
  <1> QED
    BY <1>1, <1>2, <1>3, PTL DEF FreshSpec
-----------------------------------------------------------------------------
Told == {r \in Requests : Sent(r, "done")}

LEMMA ContractInit == Init => Contract!WireInit /\ Told = {}
  BY DEF Init, WireInit, Contract!WireInit, Contract!Requests, Requests, Told, Sent

LEMMA ContractStep ==
    ASSUME Kept, [Next]_vars
    PROVE  [Contract!StreamNext]_(Contract!streamVars)
  <1> USE DEF Contract!Requests, Contract!wireVars, Contract!streamVars, Contract!Listening,
              Contract!Send, Contract!Status, Contract!Done, Contract!Error, Contract!Open,
              Contract!Versions, Contract!Answers, wireVars, Listening
  <1> DEFINE SameTold == \A q \in Requests : Sent(q, "done")' <=> Sent(q, "done")
  <1>0. ASSUME SameTold PROVE Told' = Told
    BY <1>0 DEF Told
  <1>1. ASSUME NEW r \in Requests, pc[r] \notin {"idle", "end"} PROVE Contract!Open(r)
    BY <1>1 DEF Kept, StagesAgree
  <1>2. ASSUME NEW r \in Requests, pc[r] \notin {"logHit", "logSuccess", "end"}
        PROVE  r \notin Told
    BY <1>2 DEF Kept, DoneBeforeLog, Told
  <1>3. ASSUME NEW r \in Requests, Speaks(r) PROVE Contract!SayStatus(r)
    <2>1. SameTold
      BY <1>3, StatusEffect DEF Kept, TypeOK
    <2>2. pc[r] \in {"lookup", "retrieve", "evidence", "generate"}
          /\ Send(r, Status) /\ UNCHANGED <<asked, closed, reader, version>>
      BY <1>3 DEF Speaks, CacheMiss, Retrieve, MakeProvider, Generate
    <2> QED
      BY <1>0, <1>1, <1>2, <2>1, <2>2 DEF Contract!SayStatus, Send, Status, Told
  <1>4. ASSUME NEW r \in Requests, AnswerFromCache(r) \/ SendDone(r), Listening(r)
        PROVE  Contract!SayDone(r)
    <2>1. /\ pc[r] \in {"lookup", "done"} /\ UNCHANGED <<asked, closed, reader, version>>
          /\ asked[r] \in Questions /\ Key(r) \in Keys
      BY <1>4, KeyInKeys DEF AnswerFromCache, SendDone
    <2>2. PICK answer \in Answers :
            Send(r, Done(answer)) /\ KeyOf[answer.question] = Key(r) /\ answer.version <= version
      BY <1>4, <2>1 DEF AnswerFromCache, SendDone, Kept, AnswersFit, Key
    <2>3. answer \in Contract!AnswersTo(asked[r])
      BY <2>2 DEF Contract!AnswersTo, Key, Answers, Versions
    <2>4. Told' = Told \cup {r}
      BY <1>4, DoneEffect DEF Told
    <2> QED
      BY <1>1, <1>2, <1>4, <2>1, <2>2, <2>3, <2>4
      DEF Contract!SayDone, Send, Done, Status, Told
  <1>5. ASSUME NEW r \in Requests, SendError(r) PROVE Contract!SayError(r)
    <2>1. SameTold
      BY <1>5, ErrorEffect DEF Kept, TypeOK
    <2> QED
      BY <1>0, <1>1, <1>2, <1>5, <2>1
      DEF Contract!SayError, SendError, Send, Status, Error, Told
  <1>6. ASSUME NEW r \in Requests, LogAnswer(r) \/ Cancelled(r) PROVE Contract!Close(r)
    <2>1. /\ UNCHANGED <<asked, wire, reader, version>> /\ closed' = closed \cup {r}
          /\ pc[r] \notin {"idle", "end"}
          /\ Sent(r, "done") \/ reader[r] # "reading"
      BY <1>6 DEF LogAnswer, Cancelled, Kept, DoneBeforeLog
    <2>2. Told' = Told
      BY <2>1 DEF Told, Sent
    <2> QED
      BY <1>1, <2>1, <2>2 DEF Contract!Close, Told
  <1>7. ASSUME UNCHANGED wireVars PROVE UNCHANGED Contract!streamVars
    BY <1>7 DEF Sent
  <1>8. ASSUME NEW r \in Requests, Silent(r) PROVE UNCHANGED wireVars
    BY <1>8
    DEF Silent, CacheEntryInvalid, Checkout, PoolExhausted, RetrievalFails, NoEvidence,
        OutputInvalid, ProviderFails, CacheStore, LogFailure
  <1>9. ASSUME NEW r \in Requests, AnswerFromCache(r) \/ SendDone(r), ~Listening(r)
        PROVE  UNCHANGED wireVars
    BY <1>9 DEF AnswerFromCache, SendDone, Send
  <1>10. ASSUME NEW r \in Requests, Leaves(r) PROVE Contract!ClientLeaves(r) /\ Told' = Told
    BY <1>10 DEF Leaves, ClientLeaves, Contract!ClientLeaves, Told, Sent
  <1>11. ASSUME NEW r \in Requests, NEW q \in Questions, Asks(r, q)
         PROVE Contract!ClientAsks(r, q) /\ Told' = Told
    BY <1>11
    DEF Asks, ClientAsks, IsNext, Unmade, Contract!ClientAsks, Contract!IsNext,
        Contract!Unmade, Requests, Told, Sent
  <1>12. ASSUME NewCorpus PROVE Contract!Publish /\ Told' = Told
    BY <1>12 DEF NewCorpus, Publish, Contract!Publish, Told, Sent
  <1>13. ASSUME (\E key \in Keys : Expire(key)) \/ UNCHANGED vars PROVE UNCHANGED wireVars
    BY <1>13 DEF Expire, vars
  <1>14. ASSUME NEW r \in Requests, Serve(r) \/ Cancelled(r)
         PROVE  Contract!Stream(r) \/ UNCHANGED wireVars
    BY <1>3, <1>4, <1>5, <1>6, <1>8, <1>9, <1>14, ServeKinds DEF Contract!Stream
  <1> QED
    BY <1>7, <1>10, <1>11, <1>12, <1>13, <1>14
    DEF Next, Contract!StreamNext, Requests, Told

\* Every stream tells its client, in this order, any number of status events,
\* at most one done event with an answer to the client's own question that is
\* no newer than the corpus, or one error, and nothing after the end: what
\* ContractKept adds to this is that the end comes.
THEOREM ContractSafe == Spec => Contract!StreamSafety
  <1>1. Kept /\ [Next]_vars => [Contract!StreamNext]_(Contract!streamVars)
    BY ContractStep
  <1> QED
    BY <1>1, ContractInit, KeptInvariant, PTL DEF Spec, Contract!StreamSafety, Told

-----------------------------------------------------------------------------
(* The retriever and the answer (Answering).                               *)

HitSet == [chunk : Chunks, score : Nat]
ResultSet == [chunk : Chunks, score : Nat, relevance : Nat]

\* No chunk twice.
Once(list) == \A i, j \in DOMAIN list : list[i].chunk = list[j].chunk => i = j

\* What a search returns.
HitList(hits) == hits \in Seq(HitSet) /\ Len(hits) <= RankMax /\ Once(hits)

\* The best first.
Falling(list) == \A i, j \in DOMAIN list : i < j => list[i].score >= list[j].score

LEMMA SublistLength ==
    ASSUME NEW S, NEW list \in Seq(S), NEW I \in SUBSET DOMAIN list
    PROVE  Len(Sublist(list, I)) <= Len(list)
  <1>1. Len(list) \in Nat /\ DOMAIN list = 1..Len(list)
    BY SeqFacts
  <1>2. IsFiniteSet(1..Len(list)) /\ Cardinality(1..Len(list)) = Len(list)
    BY <1>1, PlacesCounted
  <1>3. Cardinality(I) <= Len(list)
    BY <1>1, <1>2, FS_Subset
  <1>4. IsList(list) /\ I \in SUBSET DOMAIN list
    BY ListOf
  <1>5. Len(Sublist(list, I)) = Cardinality(I)
    BY <1>4, SublistFacts
  <1> QED
    BY <1>3, <1>5

LEMMA SublistOnce ==
    ASSUME NEW S, NEW list \in Seq(S), Once(list), NEW I \in SUBSET DOMAIN list
    PROVE  Once(Sublist(list, I)) /\ Len(Sublist(list, I)) <= Len(list)
  <1> DEFINE s == Sublist(list, I)
  <1>1. /\ s \in Seq(S) /\ Len(s) \in Nat /\ DOMAIN s = 1..Len(s)
        /\ \A k \in DOMAIN s : Nth(I, k) \in I /\ s[k] = list[Nth(I, k)]
        /\ \A k, m \in DOMAIN s : k < m => Nth(I, k) < Nth(I, m)
    BY SublistOf
  <1>2. Len(list) \in Nat /\ DOMAIN list = 1..Len(list)
    BY LenProperties
  <1>3. Len(s) <= Len(list)
    BY SublistLength
  <1> HIDE DEF s
  <1>4. ASSUME NEW k \in DOMAIN s, NEW m \in DOMAIN s, s[k].chunk = s[m].chunk PROVE k = m
    <2>1. Nth(I, k) = Nth(I, m) /\ Nth(I, k) \in 1..Len(list)
      BY <1>1, <1>2, <1>4 DEF Once
    <2>2. ~(k < m) /\ ~(m < k)
      BY <1>1, <2>1
    <2> QED
      BY <1>1, <2>2
  <1> QED
    BY <1>3, <1>4 DEF Once, s

LEMMA TakeOnce ==
    ASSUME NEW S, NEW list \in Seq(S), Once(list), NEW n \in Nat
    PROVE  Once(Take(list, n)) /\ Len(Take(list, n)) <= n
  <1> DEFINE s == Take(list, n)
  <1>1. /\ Len(s) = IF n <= Len(list) THEN n ELSE Len(list)
        /\ DOMAIN s \subseteq DOMAIN list /\ \A k \in DOMAIN s : s[k] = list[k]
    BY TakeFacts
  <1>2. Len(list) \in Nat
    BY LenProperties
  <1> HIDE DEF s
  <1>3. Once(s) /\ Len(s) <= n
    BY <1>1, <1>2 DEF Once
  <1> QED
    BY <1>3 DEF s

LEMMA SortedOnce ==
    ASSUME NEW S, NEW list \in Seq(S), Once(list), NEW keys \in [1..Len(list) -> SortKeys]
    PROVE  Once(SortedBy(keys, list))
  <1> DEFINE s == SortedBy(keys, list)
             place(k) == SortedPlace(keys, k)
  <1>1. /\ \A k \in DOMAIN s : place(k) \in DOMAIN list /\ s[k] = list[place(k)]
        /\ \A k, m \in DOMAIN s : k # m => place(k) # place(m)
    BY SortedByFacts
  <1> HIDE DEF s, place
  <1>2. Once(s)
    BY <1>1 DEF Once
  <1> QED
    BY <1>2 DEF s

\* The two searches return lists of hits (BM25Index.search, search_chroma).
LEMMA KeywordHits ==
    ASSUME NEW rows \in KeywordRows
    PROVE  HitList(Bm25Search(rows, Bm25TopN))
  <1> DEFINE RowSet == [chunk : Chunks, raw : Int, overlap : Nat]
             keys == [i \in DOMAIN rows |-> <<rows[i].raw, rows[i].overlap, 0, 0>>]
             sorted == SortedBy(keys, rows)
             ranked == Take(sorted, Bm25TopN)
             hits == [i \in DOMAIN ranked |->
                        Hit(ranked[i].chunk, IF ranked[i].raw > 0 THEN ranked[i].raw
                                             ELSE 1000 * ranked[i].overlap)]
             I == {i \in DOMAIN hits : hits[i].score > 0}
  <1>1. rows \in Seq(RowSet) /\ Once(rows) /\ Bm25TopN \in Nat /\ Bm25TopN <= RankMax
    <2>1. rows \in Seq(RowSet)
      BY AnsweringAssumption
    <2>2. Once(rows)
      BY AnsweringAssumption DEF Once
    <2>3. Bm25TopN \in 0..RankMax /\ RankMax \in Nat
      BY AnsweringAssumption DEF RankMax
    <2> QED
      BY <2>1, <2>2, <2>3
  <1>2. keys \in [1..Len(rows) -> SortKeys]
    <2>1. DOMAIN rows = 1..Len(rows) /\ \A i \in DOMAIN rows : rows[i] \in RowSet
      BY <1>1, LenProperties
    <2>2. \A i \in DOMAIN rows : rows[i].raw \in Int /\ rows[i].overlap \in Int
      BY <2>1
    <2> QED
      BY <2>1, <2>2 DEF SortKeys
  <1> HIDE DEF keys
  <1>3. sorted \in Seq(RowSet) /\ Once(sorted)
    BY <1>1, <1>2, SortedByFacts, SortedOnce
  <1> HIDE DEF sorted
  <1>4. /\ ranked \in Seq(RowSet) /\ Once(ranked) /\ Len(ranked) <= RankMax
        /\ Len(ranked) \in Nat /\ DOMAIN ranked = 1..Len(ranked)
    <2>1. Once(ranked) /\ Len(ranked) <= Bm25TopN
      BY <1>1, <1>3, TakeOnce
    <2>2. ranked \in Seq(RowSet) /\ Len(ranked) \in Nat /\ DOMAIN ranked = 1..Len(ranked)
      <3>1. sorted \in Seq(RowSet) /\ Bm25TopN \in Nat
        BY <1>1, <1>3
      <3> HIDE DEF RowSet
      <3> QED
        BY ONLY <3>1, TakeFacts
    <2> HIDE DEF ranked
    <2> QED
      BY <1>1, <2>1, <2>2 DEF RankMax
  <1> HIDE DEF ranked
  <1>5. \A i \in DOMAIN ranked : hits[i] \in HitSet /\ hits[i].chunk = ranked[i].chunk
    <2>1. \A i \in DOMAIN ranked : ranked[i] \in RowSet
      BY <1>4, SeqFacts
    <2> QED
      BY <2>1 DEF HitSet, Hit
  <1>6. hits \in Seq(HitSet) /\ DOMAIN hits = DOMAIN ranked /\ Len(hits) = Len(ranked)
    <2>1. hits \in [1..Len(ranked) -> HitSet]
      BY <1>4, <1>5
    <2> HIDE DEF hits
    <2> QED
      BY <1>4, <2>1, SequenceOf
  <1> HIDE DEF hits
  <1>7. Once(hits)
    BY <1>4, <1>5, <1>6 DEF Once
  <1>8. I \in SUBSET DOMAIN hits
    OBVIOUS
  <1>9. Sublist(hits, I) \in Seq(HitSet) /\ Once(Sublist(hits, I)) /\ Len(Sublist(hits, I)) \in Nat
        /\ Len(Sublist(hits, I)) <= Len(hits)
    <2> HIDE DEF I
    <2> QED
      BY <1>6, <1>7, <1>8, SublistOf, SublistOnce
  <1>10. Bm25Search(rows, Bm25TopN) = Sublist(hits, I)
    BY DEF Bm25Search, hits, ranked, sorted, keys
  <1>11. HitList(Sublist(hits, I))
    BY <1>4, <1>6, <1>9 DEF HitList, RankMax
  <1> QED
    BY <1>10, <1>11

LEMMA ChromaHits ==
    ASSUME NEW found \in SemanticHits, NEW active \in SUBSET Chunks
    PROVE  HitList(SemanticSearch(found, active))
  <1> DEFINE FoundSet == [chunk : Chunks \cup {NoChunk}, distance : Int]
             withId == Sublist(found, {i \in DOMAIN found : found[i].chunk # NoChunk})
             classes == [i \in DOMAIN withId |-> withId[i].chunk]
             once == Sublist(withId, Firsts(classes))
             I == {i \in DOMAIN once : once[i].chunk \in active}
             rows == Sublist(once, I)
             hits == [i \in DOMAIN rows |-> Hit(rows[i].chunk, DistanceScore(rows[i].distance))]
  <1>1. found \in Seq(FoundSet) /\ Len(found) <= RankMax
    BY AnsweringAssumption
  <1>2. /\ withId \in Seq(FoundSet) /\ Len(withId) \in Nat /\ Len(withId) <= Len(found)
        /\ DOMAIN withId = 1..Len(withId)
    <2> DEFINE J == {i \in DOMAIN found : found[i].chunk # NoChunk}
    <2>1. J \in SUBSET DOMAIN found
      OBVIOUS
    <2> HIDE DEF J
    <2>2. Sublist(found, J) \in Seq(FoundSet) /\ Len(Sublist(found, J)) \in Nat
          /\ DOMAIN Sublist(found, J) = 1..Len(Sublist(found, J))
      BY <1>1, <2>1, SublistOf
    <2>3. Len(Sublist(found, J)) <= Len(found)
      BY <1>1, <2>1, SublistLength
    <2> QED
      BY <2>2, <2>3 DEF J
  <1> HIDE DEF withId
  <1>3. /\ Firsts(classes) \in SUBSET DOMAIN withId
        /\ \A i, j \in Firsts(classes) : withId[i].chunk = withId[j].chunk => i = j
    <2>1. DOMAIN classes = 1..Len(withId)
      BY <1>2
    <2>2. /\ Firsts(classes) \in SUBSET (1..Len(withId))
          /\ \A i, j \in Firsts(classes) : classes[i] = classes[j] => i = j
      BY <1>2, <2>1, FirstsFacts
    <2> QED
      BY <1>2, <2>2
  <1> HIDE DEF classes
  <1>4. /\ once \in Seq(FoundSet) /\ Len(once) \in Nat /\ Len(once) <= Len(withId)
        /\ DOMAIN once = 1..Len(once) /\ Once(once)
    <2>1. /\ once \in Seq(FoundSet) /\ Len(once) \in Nat /\ DOMAIN once = 1..Len(once)
          /\ \A k \in DOMAIN once : Nth(Firsts(classes), k) \in Firsts(classes)
                                    /\ once[k] = withId[Nth(Firsts(classes), k)]
          /\ \A k, m \in DOMAIN once : k < m => Nth(Firsts(classes), k) < Nth(Firsts(classes), m)
      BY <1>2, <1>3, SublistOf
    <2>2. Len(once) <= Len(withId)
      BY <1>2, <1>3, SublistLength
    <2> HIDE DEF once
    <2>3. ASSUME NEW k \in DOMAIN once, NEW m \in DOMAIN once, once[k].chunk = once[m].chunk
          PROVE  k = m
      <3>1. Nth(Firsts(classes), k) = Nth(Firsts(classes), m)
            /\ Nth(Firsts(classes), k) \in 1..Len(withId)
        BY <1>2, <1>3, <2>1, <2>3
      <3>2. ~(k < m) /\ ~(m < k)
        BY <2>1, <3>1
      <3> QED
        BY <2>1, <3>2
    <2> QED
      BY <2>1, <2>2, <2>3 DEF Once
  <1> HIDE DEF once
  <1>5. /\ rows \in Seq(FoundSet) /\ Len(rows) \in Nat /\ Len(rows) <= Len(once)
        /\ DOMAIN rows = 1..Len(rows) /\ Once(rows)
        /\ \A k \in DOMAIN rows : rows[k].chunk \in active
    <2>1. I \in SUBSET DOMAIN once /\ \A i \in I : once[i].chunk \in active
      OBVIOUS
    <2> HIDE DEF I
    <2>2. /\ rows \in Seq(FoundSet) /\ Len(rows) \in Nat /\ DOMAIN rows = 1..Len(rows)
          /\ \A k \in DOMAIN rows : Nth(I, k) \in I /\ rows[k] = once[Nth(I, k)]
      BY <1>4, <2>1, SublistOf
    <2>3. Once(rows) /\ Len(rows) <= Len(once)
      BY <1>4, <2>1, SublistOnce
    <2> HIDE DEF rows
    <2> QED
      BY <2>1, <2>2, <2>3
  <1> HIDE DEF rows
  <1>6. \A i \in DOMAIN rows : hits[i] \in HitSet /\ hits[i].chunk = rows[i].chunk
    <2>1. \A i \in DOMAIN rows : rows[i] \in FoundSet /\ rows[i].chunk \in Chunks
      BY <1>5, SeqFacts
    <2>2. \A i \in DOMAIN rows : rows[i].distance \in Int
      BY <2>1
    <2>3. \A d \in Int : DistanceScore(d) \in Nat
      BY DEF DistanceScore
    <2>4. \A i \in DOMAIN rows : DistanceScore(rows[i].distance) \in Nat
      BY <2>2, <2>3
    <2> QED
      BY <2>1, <2>4 DEF HitSet, Hit
  <1>7. hits \in Seq(HitSet) /\ DOMAIN hits = DOMAIN rows /\ Len(hits) = Len(rows)
    <2>1. hits \in [1..Len(rows) -> HitSet]
      BY <1>5, <1>6
    <2> HIDE DEF hits
    <2> QED
      BY <1>5, <2>1, SequenceOf
  <1>8. SemanticSearch(found, active) = hits
    BY DEF SemanticSearch, Named, FirstOfEach, hits, rows, once, withId, classes
  <1> HIDE DEF hits
  <1>9. Len(found) \in Nat
    BY <1>1, SeqFacts
  <1>10. HitList(hits)
    <2>1. Len(hits) <= RankMax
      BY <1>1, <1>2, <1>4, <1>5, <1>7, <1>9 DEF RankMax
    <2>2. Once(hits)
      BY <1>5, <1>6, <1>7 DEF Once
    <2> QED
      BY <1>7, <2>1, <2>2 DEF HitList
  <1> QED
    BY <1>8, <1>10

-----------------------------------------------------------------------------
\* The numbers.  The division of the model is that of the naturals.
LEMMA Quotient ==
    ASSUME NEW x \in Nat, NEW b \in Nat \ {0}
    PROVE  (x \div b) \in Nat /\ b * (x \div b) <= x /\ x < b * (x \div b) + b
  BY SMT

PerMille(a, b) == (a * 1000) \div b
Milles == 0..1000

LEMMA Share ==
    ASSUME NEW a \in Nat, NEW b \in Nat \ {0}, a <= b
    PROVE  PerMille(a, b) \in Milles
  <1> DEFINE q == (a * 1000) \div b
  <1>1. q \in Nat /\ b * q <= a * 1000
    BY Quotient
  <1> HIDE DEF q
  <1>2. ASSUME q >= 1001 PROVE FALSE
    <2>1. b * q >= b * 1001
      BY <1>1, <1>2
    <2> QED
      BY <1>1, <2>1
  <1> QED
    BY <1>1, <1>2 DEF q, PerMille, Milles

LEMMA OneIsLarge == One \in Nat /\ One >= 700 * 1300
  BY SMT DEF One

\* Two ranks are two millionths apart.
LEMMA RanksApart ==
    ASSUME NEW i \in 1..RankMax, NEW j \in 1..RankMax, i < j
    PROVE  One \div (RrfK + i) >= One \div (RrfK + j) + 2
  <1> DEFINE k == RrfK + i
             p == One \div k
             m == RrfK + j
             q == One \div m
  <1>1. k \in 61..660 /\ m \in 61..660 /\ k + 1 <= m
    BY DEF RankMax, RrfK
  <1> HIDE DEF k, m
  <1>2. k \in Nat \ {0} /\ m \in Nat \ {0} /\ One \in Nat /\ One >= 700 * 1300
    BY <1>1, OneIsLarge
  <1>3. p \in Nat /\ One < k * p + k
    BY <1>2, Quotient
  <1>4. q \in Nat /\ m * q <= One /\ One < m * q + m
    BY <1>2, Quotient
  <1> HIDE DEF p, q
  <1>5. (k + 1) * q <= One
    <2>1. (k + 1) * q <= m * q
      BY <1>1, <1>4
    <2>2. (k + 1) * q \in Int /\ m * q \in Int
      BY <1>2, <1>4
    <2> QED
      BY <1>2, <1>4, <2>1, <2>2
  <1>6. q >= 1320
    <2>1. ASSUME q <= 1319 PROVE FALSE
      <3>1. m * q <= 660 * 1319 /\ m * q \in Int
        BY <1>1, <1>4, <2>1
      <3> QED
        BY <1>1, <1>2, <1>4, <3>1
    <2> QED
      BY <1>4, <2>1
  <1>7. ASSUME p <= q + 1 PROVE FALSE
    <2>1. k * p <= k * (q + 1)
      BY <1>1, <1>3, <1>4, <1>7
    <2>2. k * (q + 1) = k * q + k /\ (k + 1) * q = k * q + q
      BY <1>1, <1>4
    <2>3. k * p \in Int /\ k * q \in Int /\ k * (q + 1) \in Int /\ (k + 1) * q \in Int
      BY <1>1, <1>3, <1>4
    <2>4. q < 2 * k
      BY <1>1, <1>2, <1>3, <1>4, <1>5, <2>1, <2>2, <2>3
    <2> QED
      BY <1>1, <1>4, <1>6, <2>4
  <1>8. p >= q + 2
    BY <1>3, <1>4, <1>7
  <1> QED
    BY <1>8 DEF p, q, k, m

LEMMA RankCounts ==
    ASSUME NEW i \in 1..RankMax
    PROVE  One \div (RrfK + i) \in Nat /\ One \div (RrfK + i) >= 2
  <1> DEFINE k == RrfK + i
             p == One \div k
  <1>1. k \in 61..660
    BY DEF RankMax, RrfK
  <1> HIDE DEF k
  <1>2. k \in Nat \ {0} /\ One \in Nat /\ One >= 700 * 1300
    BY <1>1, OneIsLarge
  <1>3. p \in Nat /\ One < k * p + k
    BY <1>2, Quotient
  <1> HIDE DEF p
  <1>4. p # 0 /\ p # 1
    BY <1>1, <1>2, <1>3
  <1>5. p >= 2
    BY <1>3, <1>4
  <1> QED
    BY <1>3, <1>5 DEF p, k

\* A boost keeps the sign, and keeps scores apart that are two apart.
LEMMA FactorBounds ==
    ASSUME NEW chunk, NEW ask
    PROVE  Factor(chunk, ask) \in 70..140
  <1>1. \A f \in Int : Clamp(f) \in 70..140
    BY DEF Clamp, MinOf, MaxOf, FactorMin, FactorMax
  <1>2. \A a, b \in Int : Times(a, b) \in Int
    BY DEF Times
  <1>3. TitleFactor(chunk, ask) \in Int
    BY DEF TitleFactor
  <1>4. IntentFactor(chunk, ask) \in Int
    <2> DEFINE when(condition, factor) == IF condition THEN factor ELSE 100
               byIntent ==
                 CASE ask.intent = "requirement" ->
                        Times(when(chunk.page = "academic", 115), when(chunk.page = "schedule", 70))
                   [] ask.intent = "deadline" ->
                        Times(when(chunk.page = "schedule", 115), when(chunk.curriculum, 70))
                   [] ask.intent = "contact" ->
                        IF chunk.page = "contact" THEN 140 ELSE when(chunk.phone, 120)
                   [] OTHER -> 100
               certificate == when(ask.certificate /\ chunk.page = "certificate", 115)
               general == when(ask.intent \in {"procedure", "factual"} /\ chunk.general, 110)
               notice == when(chunk.page = "notice", 90)
    <2>1. byIntent \in Int
      BY <1>2, SMTT(30)
    <2>2. certificate \in Int /\ general \in Int /\ notice \in Int
      OBVIOUS
    <2>3. IntentFactor(chunk, ask) = Clamp(Times(Times(byIntent, certificate), Times(general, notice)))
      BY DEF IntentFactor
    <2> HIDE DEF byIntent, certificate, general, notice
    <2>4. Times(Times(byIntent, certificate), Times(general, notice)) \in Int
      BY <1>2, <2>1, <2>2
    <2> QED
      BY <1>1, <2>3, <2>4
  <1> QED
    BY <1>1, <1>2, <1>3, <1>4 DEF Factor

LEMMA BoostFacts ==
    ASSUME NEW a \in Nat, NEW f \in 70..140
    PROVE  /\ Times(a, f) \in Nat
           /\ \A b \in Nat : a >= b + 2 => Times(a, f) > Times(b, f)
  <1>1. a * f \in Nat
    OBVIOUS
  <1>2. Times(a, f) \in Nat /\ a * f < 100 * Times(a, f) + 100
    BY <1>1 DEF Times
  <1>3. ASSUME NEW b \in Nat, a >= b + 2 PROVE Times(a, f) > Times(b, f)
    <2>1. b * f \in Nat /\ a * f >= b * f + 140
      <3>1. b * f \in Nat /\ (b + 2) * f = b * f + 2 * f /\ 2 * f >= 140
        OBVIOUS
      <3>2. a * f >= (b + 2) * f
        BY <1>3
      <3> QED
        BY <1>1, <3>1, <3>2
    <2>2. Times(b, f) \in Nat /\ 100 * Times(b, f) <= b * f
      BY <2>1 DEF Times
    <2> QED
      BY <1>1, <1>2, <2>1, <2>2
  <1> QED
    BY <1>2, <1>3

-----------------------------------------------------------------------------
\* Normalized lists (normalize_scores) and ranks.
Scaled(list) == \A i \in DOMAIN list : list[i].score \in Milles

LEMMA NormalizeFacts ==
    ASSUME NEW hits, HitList(hits)
    PROVE  LET norm == NormalizeScores(hits)
           IN  /\ HitList(norm) /\ Len(norm) = Len(hits) /\ DOMAIN norm = DOMAIN hits
               /\ \A i \in DOMAIN norm : norm[i].chunk = hits[i].chunk
               /\ Scaled(norm)
  <1> DEFINE norm == NormalizeScores(hits)
             T == {1000} \cup {hits[i].score : i \in DOMAIN hits}
             best == Max(T)
             n == Len(hits)
  <1>1. /\ n \in Nat /\ DOMAIN hits = 1..n
        /\ \A i \in DOMAIN hits : hits[i] \in HitSet
    BY SeqFacts DEF HitList
  <1>2. \A i \in DOMAIN hits : hits[i].chunk \in Chunks /\ hits[i].score \in Nat
    BY <1>1 DEF HitSet
  <1> HIDE DEF n
  <1>3. /\ 1000 \in T /\ \A i \in DOMAIN hits : hits[i].score \in T
        /\ \A y \in T : y = 1000 \/ \E i \in DOMAIN hits : y = hits[i].score
    OBVIOUS
  <1> HIDE DEF T
  <1>4. \E x \in T : \A y \in T : x >= y
    <2>1. CASE n = 0
      <3>1. \A y \in T : y = 1000
        BY <1>1, <1>3, <2>1
      <3> QED
        BY <1>3, <3>1
    <2>2. CASE n > 0
      <3> DEFINE f == [i \in 1..n |-> hits[i].score]
      <3>1. f \in [1..n -> Int]
        BY <1>1, <1>2
      <3> HIDE DEF f
      <3>2. PICK m \in 1..n : \A j \in 1..n : f[j] <= f[m]
        BY <1>1, <2>2, <3>1, LargestNumber
      <3>3. \A j \in DOMAIN hits : hits[j].score <= hits[m].score
        BY <1>1, <3>2 DEF f
      <3>4. m \in DOMAIN hits /\ hits[m].score \in Nat
        BY <1>1, <1>2, <3>2
      <3>5. CASE hits[m].score >= 1000
        <4>1. hits[m].score \in T /\ \A y \in T : hits[m].score >= y
          BY <1>2, <1>3, <3>3, <3>4, <3>5
        <4> QED
          BY <4>1
      <3>6. CASE ~(hits[m].score >= 1000)
        <4>1. \A y \in T : 1000 >= y
          BY <1>2, <1>3, <3>3, <3>4, <3>6
        <4> QED
          BY <1>3, <4>1
      <3> QED
        BY <3>5, <3>6
    <2> QED
      BY <1>1, <2>1, <2>2
  <1>5. best \in T /\ \A y \in T : best >= y
    BY <1>4 DEF Max
  <1>6. /\ best \in Nat \ {0}
        /\ \A i \in DOMAIN hits : hits[i].score <= best
    <2>1. best \in Int /\ best >= 1000
      BY <1>2, <1>3, <1>5
    <2> QED
      BY <1>2, <1>3, <1>5, <2>1
  <1> HIDE DEF best
  <1>7. norm = [i \in DOMAIN hits |-> Hit(hits[i].chunk, PerMille(hits[i].score, best))]
    BY DEF NormalizeScores, PerMille, best, T
  <1> HIDE DEF norm
  <1> DEFINE share(i) == PerMille(hits[i].score, best)
  <1>8. ASSUME NEW i \in DOMAIN hits PROVE share(i) \in Milles
    <2>1. hits[i].score \in Nat /\ hits[i].score <= best /\ best \in Nat \ {0}
      BY <1>2, <1>6
    <2> QED
      BY <2>1, Share
  <1>9. norm = [i \in DOMAIN hits |-> Hit(hits[i].chunk, share(i))]
    BY <1>7
  <1> HIDE DEF share
  <1>10. \A i \in DOMAIN hits : norm[i].chunk = hits[i].chunk /\ norm[i].score = share(i)
    BY <1>9 DEF Hit
  <1>11. \A i \in DOMAIN hits : norm[i] \in HitSet
    <2>1. ASSUME NEW i \in DOMAIN hits PROVE norm[i] \in HitSet
      <3>1. hits[i].chunk \in Chunks
        BY <1>2, <2>1
      <3>2. share(i) \in Nat
        BY <1>8, <2>1 DEF Milles
      <3>3. norm[i] = [chunk |-> hits[i].chunk, score |-> share(i)]
        BY <1>9, <2>1 DEF Hit
      <3> QED
        BY ONLY <3>1, <3>2, <3>3 DEF HitSet
    <2> QED
      BY <2>1
  <1>12. norm \in Seq(HitSet) /\ Len(norm) = n /\ DOMAIN norm = DOMAIN hits
    <2>1. DOMAIN norm = 1..n /\ norm = [i \in 1..n |-> norm[i]]
      BY <1>1, <1>9
    <2>2. norm \in [1..n -> HitSet]
      BY <1>1, <1>11, <2>1
    <2> QED
      BY <1>1, <2>2, SequenceOf
  <1>13. Once(norm)
    <2>1. Once(hits)
      BY DEF HitList
    <2> QED
      BY ONLY <1>10, <1>12, <2>1 DEF Once
  <1>14. HitList(norm) /\ Len(norm) = n
    <2>1. Len(hits) <= RankMax
      BY DEF HitList
    <2> QED
      BY <1>12, <1>13, <2>1 DEF HitList, n
  <1>15. Scaled(norm)
    <2>1. ASSUME NEW i \in DOMAIN norm PROVE norm[i].score \in Milles
      <3>1. norm[i].score = share(i) /\ i \in DOMAIN hits
        BY <1>10, <1>12, <2>1
      <3> QED
        BY <1>8, <3>1
    <2> QED
      BY <2>1 DEF Scaled
  <1> QED
    BY <1>10, <1>12, <1>14, <1>15 DEF norm, n

LEMMA RankFacts ==
    ASSUME NEW hits, HitList(hits), NEW chunk \in Chunks
    PROVE  /\ Rank(chunk, hits) \in 0..RankMax /\ Rank(chunk, hits) \in 0..Len(hits)
           /\ Rank(chunk, hits) # 0 => /\ Rank(chunk, hits) \in DOMAIN hits
                                       /\ hits[Rank(chunk, hits)].chunk = chunk
           /\ \A i \in DOMAIN hits : hits[i].chunk = chunk <=> Rank(chunk, hits) = i
  <1> DEFINE I == {i \in DOMAIN hits : hits[i].chunk.id = chunk.id}
             r == Rank(chunk, hits)
  <1>1. /\ Len(hits) \in Nat /\ DOMAIN hits = 1..Len(hits) /\ Len(hits) <= RankMax
        /\ \A i \in DOMAIN hits : hits[i].chunk \in Chunks
    <2>1. Len(hits) \in Nat /\ DOMAIN hits = 1..Len(hits) /\ \A i \in DOMAIN hits : hits[i] \in HitSet
      BY SeqFacts DEF HitList
    <2> QED
      BY <2>1 DEF HitList, HitSet
  <1>2. I \in SUBSET (1..Len(hits)) /\ r = FirstPlace(I)
    BY <1>1 DEF Rank
  <1>3. \A i \in DOMAIN hits : hits[i].chunk.id = chunk.id <=> hits[i].chunk = chunk
    BY <1>1, AnsweringAssumption
  <1> HIDE DEF r
  <1>4. r \in 0..Len(hits) /\ (r = 0 <=> I = {}) /\ (I # {} => r \in I)
    BY <1>1, <1>2, FirstPlaceFacts
  <1>5. ASSUME NEW i \in DOMAIN hits PROVE hits[i].chunk = chunk <=> r = i
    <2>1. ASSUME hits[i].chunk = chunk PROVE r = i
      <3>1. i \in I
        BY <1>3, <2>1
      <3>2. r \in DOMAIN hits /\ hits[r].chunk = chunk
        BY <1>3, <1>4, <3>1
      <3> QED
        BY <2>1, <3>2 DEF HitList, Once
    <2>2. ASSUME r = i PROVE hits[i].chunk = chunk
      <3>1. r # 0
        BY <1>1, <2>2
      <3> QED
        BY <1>3, <1>4, <2>2, <3>1
    <2> QED
      BY <2>1, <2>2
  <1>6. r # 0 => r \in DOMAIN hits /\ hits[r].chunk = chunk
    BY <1>3, <1>4
  <1>7. r \in 0..RankMax
    BY <1>1, <1>4 DEF RankMax
  <1> QED
    BY <1>4, <1>5, <1>6, <1>7 DEF r

LEMMA SameRank ==
    ASSUME NEW hits, HitList(hits), NEW chunk \in Chunks
    PROVE  Rank(chunk, NormalizeScores(hits)) = Rank(chunk, hits)
  <1> DEFINE norm == NormalizeScores(hits)
  <1>1. /\ HitList(norm) /\ DOMAIN norm = DOMAIN hits
        /\ \A i \in DOMAIN hits : norm[i].chunk = hits[i].chunk
    BY NormalizeFacts
  <1> HIDE DEF norm
  <1>2. {i \in DOMAIN norm : norm[i].chunk.id = chunk.id} = {i \in DOMAIN hits : hits[i].chunk.id = chunk.id}
    BY <1>1
  <1> QED
    BY <1>2 DEF Rank, norm

\* RRF scores and similarities.
LEMMA ScoreFacts ==
    ASSUME NEW hits, HitList(hits), NEW chunk \in Chunks,
           Scaled(hits), NEW w \in 0..10
    PROVE  /\ Rrf(chunk, hits) \in Nat /\ (Rank(chunk, hits) = 0 => Rrf(chunk, hits) = 0)
           /\ Similarity(chunk, hits, w) \in 0..100 * w
           /\ Rank(chunk, hits) = 0 => Similarity(chunk, hits, w) = 0
  <1> DEFINE r == Rank(chunk, hits)
  <1>1. r \in 0..RankMax /\ (r # 0 => r \in DOMAIN hits)
    BY RankFacts
  <1> HIDE DEF r
  <1>2. CASE r = 0
    <2>1. Rrf(chunk, hits) = 0 /\ Similarity(chunk, hits, w) = 0
      BY <1>2 DEF Rrf, Similarity, r
    <2> QED
      BY <1>2, <2>1
  <1>3. CASE r # 0
    <2>1. r \in 1..RankMax
      BY <1>1, <1>3
    <2>2. Rrf(chunk, hits) \in Nat
      BY <1>3, <2>1, RankCounts DEF Rrf, r
    <2>3. hits[r].score \in Milles
      BY <1>1, <1>3 DEF Scaled
    <2> DEFINE x == hits[r].score
               y == x * w
    <2>4. Similarity(chunk, hits, w) = y \div 10
      BY <1>3 DEF Similarity, r
    <2>5. x \in Milles
      BY <2>3
    <2> HIDE DEF x
    <2>6. y \in Nat /\ y <= 1000 * w
      <3>1. x * w \in Nat
        BY <2>5 DEF Milles
      <3>2. x * w <= 1000 * w
        BY <2>5 DEF Milles
      <3> QED
        BY <3>1, <3>2
    <2> HIDE DEF y
    <2>7. y \div 10 \in 0..100 * w
      BY <2>6
    <2> QED
      BY <1>3, <2>2, <2>4, <2>7 DEF r
  <1> QED
    BY <1>2, <1>3 DEF r

-----------------------------------------------------------------------------
\* What merging makes of a chunk, wherever it stands.
Fused(chunk, semantic_, bm25, ask) ==
    LET sem == NormalizeScores(semantic_)
        key == NormalizeScores(bm25)
    IN  Boosted(chunk, FusedScore(chunk, sem, key),
                Similarity(chunk, sem, SemanticWeight) + Similarity(chunk, key, Bm25Weight), ask)

LEMMA FusedFacts ==
    ASSUME NEW sem, HitList(sem), NEW key, HitList(key), NEW chunk \in Chunks, NEW ask
    PROVE  LET r == Fused(chunk, sem, key, ask)
           IN  /\ r \in ResultSet /\ r.chunk = chunk
               /\ r.score = Times(Rrf(chunk, sem) + Rrf(chunk, key), Factor(chunk, ask))
               /\ Rrf(chunk, sem) \in Nat /\ Rrf(chunk, key) \in Nat
               /\ Rank(chunk, sem) = 0 => r.relevance * 100 <= 100 * Bm25Weight * Factor(chunk, ask)
  <1> DEFINE s == NormalizeScores(sem)
             k == NormalizeScores(key)
             f == Factor(chunk, ask)
             a == Rrf(chunk, s) + Rrf(chunk, k)
             b == Similarity(chunk, s, SemanticWeight) + Similarity(chunk, k, Bm25Weight)
  <1>1. HitList(s) /\ Scaled(s) /\ HitList(k) /\ Scaled(k)
    BY NormalizeFacts
  <1>2. Rank(chunk, s) = Rank(chunk, sem) /\ Rank(chunk, k) = Rank(chunk, key)
    BY SameRank
  <1>3. SemanticWeight \in 0..10 /\ Bm25Weight \in 0..10
    BY RankingAssumption
  <1> HIDE DEF s, k
  <1>4. /\ Rrf(chunk, s) \in Nat
        /\ Similarity(chunk, s, SemanticWeight) \in 0..100 * SemanticWeight
        /\ Rank(chunk, s) = 0 => Similarity(chunk, s, SemanticWeight) = 0
    BY <1>1, <1>3, ScoreFacts
  <1>5. Rrf(chunk, k) \in Nat /\ Similarity(chunk, k, Bm25Weight) \in 0..100 * Bm25Weight
    BY <1>1, <1>3, ScoreFacts
  <1>6. Rrf(chunk, s) = Rrf(chunk, sem) /\ Rrf(chunk, k) = Rrf(chunk, key)
    BY <1>2 DEF Rrf
  <1>7. f \in 70..140
    BY FactorBounds
  <1>8. a \in Nat /\ b \in Nat
    BY <1>4, <1>5
  <1>9. Rank(chunk, sem) = 0 => b \in 0..100 * Bm25Weight
    BY <1>2, <1>3, <1>4, <1>5
  <1>10. Fused(chunk, sem, key, ask) = Result(chunk, Times(a, f), Times(b, f))
    BY DEF Fused, Boosted, FusedScore, s, k
  <1>11. a = Rrf(chunk, sem) + Rrf(chunk, key)
    BY <1>6
  <1> HIDE DEF a, b, f
  <1>12. Times(a, f) \in Nat /\ Times(b, f) \in Nat
    BY <1>7, <1>8, BoostFacts
  <1>13. Rank(chunk, sem) = 0 => Times(b, f) * 100 <= 100 * Bm25Weight * f
    <2>1. b * f \in Nat /\ Times(b, f) * 100 <= b * f
      <3>1. b * f \in Nat
        BY <1>7, <1>8
      <3> QED
        BY <3>1 DEF Times
    <2>2. ASSUME Rank(chunk, sem) = 0 PROVE b * f <= 100 * Bm25Weight * f
      <3> DEFINE w == 100 * Bm25Weight
      <3>1. w \in Nat /\ b \in 0..w
        BY <1>3, <1>9, <2>2
      <3> HIDE DEF w
      <3>2. b * f <= w * f
        BY <1>7, <1>8, <3>1
      <3> QED
        BY <3>2 DEF w
    <2>3. 100 * Bm25Weight * f \in Int
      BY <1>3, <1>7
    <2> QED
      BY <1>12, <2>1, <2>2, <2>3
  <1> QED
    BY <1>4, <1>5, <1>6, <1>10, <1>11, <1>12, <1>13 DEF Result, ResultSet, f

\* Both lists in one: every chunk they name, once, and nothing else.
LEMMA PooledFacts ==
    ASSUME NEW sem, HitList(sem), NEW key, HitList(key), NEW ask
    PROVE  LET all == Pooled(sem, key, ask)
           IN  /\ all \in Seq(ResultSet) /\ Once(all)
               /\ \A i \in DOMAIN all : /\ all[i] = Fused(all[i].chunk, sem, key, ask)
                                        /\ Rank(all[i].chunk, sem) # 0 \/ Rank(all[i].chunk, key) # 0
               /\ \A c \in Chunks : Rank(c, sem) # 0 \/ Rank(c, key) # 0 =>
                                      \E i \in DOMAIN all : all[i].chunk = c
  <1> DEFINE s == NormalizeScores(sem)
             k == NormalizeScores(key)
             I == {i \in DOMAIN k : Rank(k[i].chunk, s) = 0}
             own == Sublist(k, I)
             first == [i \in DOMAIN s |-> s[i].chunk]
             second == [i \in DOMAIN own |-> own[i].chunk]
             chunks == first \o second
             all == Pooled(sem, key, ask)
  <1>1. /\ HitList(s) /\ HitList(k)
        /\ DOMAIN s = DOMAIN sem /\ \A i \in DOMAIN s : s[i].chunk = sem[i].chunk
        /\ DOMAIN k = DOMAIN key /\ \A i \in DOMAIN k : k[i].chunk = key[i].chunk
    BY NormalizeFacts
  <1>2. \A c \in Chunks : Rank(c, s) = Rank(c, sem) /\ Rank(c, k) = Rank(c, key)
    BY SameRank
  <1>3. /\ chunks = [i \in DOMAIN s |-> s[i].chunk] \o [i \in DOMAIN own |-> own[i].chunk]
        /\ all = [i \in DOMAIN chunks |-> Fused(chunks[i], sem, key, ask)]
    BY DEF Pooled, Fused
  <1> HIDE DEF s, k, all
  <1>4. /\ Len(s) \in Nat /\ DOMAIN s = 1..Len(s) /\ \A i \in DOMAIN s : s[i].chunk \in Chunks
    <2>1. DOMAIN s = 1..Len(s) /\ Len(s) \in Nat /\ \A i \in DOMAIN s : s[i] \in HitSet
      BY <1>1, SeqFacts DEF HitList
    <2> QED
      BY <2>1 DEF HitSet
  <1>5. /\ k \in Seq(HitSet) /\ DOMAIN k = 1..Len(k) /\ \A i \in DOMAIN k : k[i].chunk \in Chunks
    <2>1. k \in Seq(HitSet) /\ DOMAIN k = 1..Len(k) /\ \A i \in DOMAIN k : k[i] \in HitSet
      BY <1>1, SeqFacts DEF HitList
    <2> QED
      BY <2>1 DEF HitSet
  <1>6. /\ own \in Seq(HitSet) /\ Len(own) \in Nat /\ DOMAIN own = 1..Len(own) /\ Once(own)
        /\ \A i \in DOMAIN own : \E j \in I : own[i] = k[j]
        /\ \A j \in I : \E i \in DOMAIN own : own[i] = k[j]
    <2>1. I \in SUBSET DOMAIN k /\ Once(k)
      BY <1>1 DEF HitList
    <2> HIDE DEF I
    <2>2. Once(own)
      BY <1>5, <2>1, SublistOnce
    <2>3. /\ own \in Seq(HitSet) /\ Len(own) \in Nat /\ DOMAIN own = 1..Len(own)
          /\ \A i \in DOMAIN own : Nth(I, i) \in I /\ own[i] = k[Nth(I, i)]
          /\ \A j \in I : \E i \in DOMAIN own : Nth(I, i) = j
      BY <1>5, <2>1, SublistOf
    <2> HIDE DEF own
    <2>4. \A j \in I : \E i \in DOMAIN own : own[i] = k[j]
      BY <2>3
    <2> QED
      BY <2>2, <2>3, <2>4
  <1>7. \A j \in I : j \in DOMAIN k /\ Rank(k[j].chunk, s) = 0
    OBVIOUS
  <1>8. \A j \in DOMAIN k : Rank(k[j].chunk, s) = 0 => j \in I
    OBVIOUS
  <1> HIDE DEF I, own
  <1>9. \A i \in DOMAIN own : own[i].chunk \in Chunks /\ Rank(own[i].chunk, s) = 0
                              /\ Rank(own[i].chunk, k) # 0
    <2>1. ASSUME NEW i \in DOMAIN own
          PROVE  own[i].chunk \in Chunks /\ Rank(own[i].chunk, s) = 0 /\ Rank(own[i].chunk, k) # 0
      <3>1. PICK j \in I : own[i] = k[j]
        BY <1>6
      <3>2. j \in DOMAIN k /\ Rank(k[j].chunk, s) = 0 /\ k[j].chunk \in Chunks
        BY <1>5, <1>7
      <3>3. Rank(k[j].chunk, k) = j /\ j # 0
        BY <1>1, <1>5, <3>2, RankFacts
      <3> QED
        BY <3>1, <3>2, <3>3
    <2> QED
      BY <2>1
  <1>10. \A i \in DOMAIN s : Rank(s[i].chunk, s) = i /\ i # 0
    BY <1>1, <1>4, RankFacts
  <1>11. /\ first \in Seq(Chunks) /\ Len(first) = Len(s) /\ DOMAIN first = 1..Len(s)
         /\ \A i \in 1..Len(s) : first[i] = s[i].chunk
    <2>1. first \in [1..Len(s) -> Chunks]
      BY <1>4
    <2>2. \A i \in 1..Len(s) : first[i] = s[i].chunk
      BY <1>4
    <2> HIDE DEF first
    <2> QED
      BY <1>4, <2>1, <2>2, SequenceOf
  <1>12. /\ second \in Seq(Chunks) /\ Len(second) = Len(own) /\ DOMAIN second = 1..Len(own)
         /\ \A i \in 1..Len(own) : second[i] = own[i].chunk
    <2>1. second \in [1..Len(own) -> Chunks]
      BY <1>6, <1>9
    <2>2. \A i \in 1..Len(own) : second[i] = own[i].chunk
      BY <1>6
    <2> HIDE DEF second
    <2> QED
      BY <1>6, <2>1, <2>2, SequenceOf
  <1> HIDE DEF first, second
  <1> DEFINE m == Len(s)
             n == Len(own)
  <1>13. /\ chunks \in Seq(Chunks) /\ Len(chunks) = m + n /\ DOMAIN chunks = 1..m + n
         /\ \A i \in 1..m : chunks[i] = s[i].chunk
         /\ \A i \in 1..n : chunks[m + i] = own[i].chunk
    <2>1. IsList(first) /\ IsList(second)
      BY <1>11, <1>12, ListOf
    <2>2. chunks \in Seq(Chunks)
      BY <1>11, <1>12, ConcatProperties
    <2>3. /\ Len(chunks) = Len(first) + Len(second)
          /\ \A i \in 1..Len(first) : chunks[i] = first[i]
          /\ \A i \in 1..Len(second) : chunks[Len(first) + i] = second[i]
      BY <2>1, JoinedLists
    <2>4. DOMAIN chunks = 1..Len(chunks)
      BY <2>2, SeqFacts
    <2> HIDE DEF chunks
    <2> QED
      BY <1>11, <1>12, <2>2, <2>3, <2>4
  <1> HIDE DEF chunks
  <1>14. m \in Nat /\ n \in Nat
    BY <1>4, <1>6
  <1>15. \A i \in 1..m : i \in DOMAIN s
    BY <1>4
  <1>16. \A i \in 1..n : i \in DOMAIN own
    BY <1>6
  <1> HIDE DEF m, n
  <1>17. \A i \in 1..m + n : i \in 1..m \/ (i - m \in 1..n /\ m + (i - m) = i)
    BY <1>14
  <1>18. ASSUME NEW i \in DOMAIN chunks, NEW j \in DOMAIN chunks, chunks[i] = chunks[j]
         PROVE  i = j
    <2>1. i \in 1..m + n /\ j \in 1..m + n
      BY <1>13
    <2>2. CASE i \in 1..m /\ j \in 1..m
      <3>1. Rank(s[i].chunk, s) = i /\ Rank(s[j].chunk, s) = j
        BY <1>10, <1>15, <2>2
      <3> QED
        BY <1>13, <1>18, <2>2, <3>1
    <2>3. CASE i - m \in 1..n /\ m + (i - m) = i /\ j - m \in 1..n /\ m + (j - m) = j
      <3>1. own[i - m].chunk = own[j - m].chunk
        BY <1>13, <1>18, <2>3
      <3>2. i - m = j - m
        BY <1>6, <1>16, <2>3, <3>1 DEF Once
      <3> QED
        BY <1>14, <2>1, <3>2
    <2>4. \A a \in 1..m : Rank(chunks[a], s) # 0
      BY <1>10, <1>13, <1>15
    <2>5. \A a \in 1..n : Rank(chunks[m + a], s) = 0
      BY <1>9, <1>13, <1>16
    <2>6. \A a \in 1..m + n : a - m \in 1..n /\ m + (a - m) = a => Rank(chunks[a], s) = 0
      BY <2>5
    <2> QED
      BY <1>17, <1>18, <2>1, <2>2, <2>3, <2>4, <2>6
  <1>19. \A i \in DOMAIN chunks : chunks[i] \in Chunks
    BY <1>13, SeqFacts
  <1>20. ASSUME NEW i \in DOMAIN chunks PROVE all[i] \in ResultSet /\ all[i].chunk = chunks[i]
    <2> DEFINE c == chunks[i]
    <2>1. c \in Chunks /\ all[i] = Fused(c, sem, key, ask)
      BY <1>3, <1>19
    <2> HIDE DEF c
    <2>2. Fused(c, sem, key, ask) \in ResultSet /\ Fused(c, sem, key, ask).chunk = c
      BY <2>1, FusedFacts
    <2> QED
      BY <2>1, <2>2 DEF c
  <1>21. all \in Seq(ResultSet) /\ DOMAIN all = DOMAIN chunks
    <2>1. m + n \in Nat
      BY <1>14
    <2>2. DOMAIN all = 1..m + n /\ all = [i \in 1..m + n |-> all[i]]
      BY <1>3, <1>13
    <2>3. all \in [1..m + n -> ResultSet]
      BY <1>13, <1>20, <2>2
    <2> QED
      BY <1>13, <2>1, <2>3, SequenceOf
  <1>22. Once(all)
    BY <1>18, <1>20, <1>21 DEF Once
  <1>23. ASSUME NEW i \in DOMAIN all
         PROVE  /\ all[i] = Fused(all[i].chunk, sem, key, ask)
                /\ Rank(all[i].chunk, sem) # 0 \/ Rank(all[i].chunk, key) # 0
    <2>1. i \in DOMAIN chunks /\ chunks[i] \in Chunks /\ all[i].chunk = chunks[i]
      BY <1>19, <1>20, <1>21
    <2>2. all[i] = Fused(chunks[i], sem, key, ask)
      BY <1>3, <2>1
    <2>3. Rank(chunks[i], s) # 0 \/ Rank(chunks[i], k) # 0
      <3>1. CASE i \in 1..m
        BY <1>10, <1>13, <1>15, <3>1
      <3>2. CASE i - m \in 1..n /\ m + (i - m) = i
        <4>1. chunks[i] = own[i - m].chunk
          BY <1>13, <3>2
        <4> QED
          BY <1>9, <1>16, <3>2, <4>1
      <3> QED
        BY <1>13, <1>17, <2>1, <3>1, <3>2
    <2> QED
      BY <1>2, <2>1, <2>2, <2>3
  <1>24. ASSUME NEW c \in Chunks, Rank(c, sem) # 0 \/ Rank(c, key) # 0
         PROVE  \E i \in DOMAIN all : all[i].chunk = c
    <2>1. CASE Rank(c, s) # 0
      <3> DEFINE i == Rank(c, s)
      <3>1. i \in DOMAIN s /\ s[i].chunk = c
        BY <1>1, <2>1, RankFacts
      <3> HIDE DEF i
      <3>2. i \in 1..m /\ chunks[i] = c
        BY <1>4, <1>13, <3>1 DEF m
      <3>3. i \in DOMAIN chunks
        BY <1>13, <1>14, <3>2
      <3> QED
        BY <1>20, <1>21, <3>2, <3>3
    <2>2. CASE Rank(c, s) = 0 /\ Rank(c, k) # 0
      <3> DEFINE j == Rank(c, k)
      <3>1. j \in DOMAIN k /\ k[j].chunk = c
        BY <1>1, <2>2, RankFacts
      <3> HIDE DEF j
      <3>2. j \in I
        BY <1>8, <2>2, <3>1
      <3>3. PICK a \in DOMAIN own : own[a] = k[j]
        BY <1>6, <3>2
      <3>4. a \in 1..n /\ chunks[m + a] = c
        BY <1>6, <1>13, <3>1, <3>3 DEF n
      <3>5. m + a \in DOMAIN chunks
        BY <1>13, <1>14, <3>4
      <3> QED
        BY <1>20, <1>21, <3>4, <3>5
    <2> QED
      BY <1>2, <1>24, <2>1, <2>2
  <1> QED
    BY <1>21, <1>22, <1>23, <1>24 DEF all

\* The merged list before anything is dropped, the best first.
LEMMA RankedFacts ==
    ASSUME NEW sem, HitList(sem), NEW key, HitList(key), NEW ask
    PROVE  LET all == Ranked(sem, key, ask)
           IN  /\ all \in Seq(ResultSet) /\ Once(all) /\ Falling(all)
               /\ \A i \in DOMAIN all : /\ all[i] = Fused(all[i].chunk, sem, key, ask)
                                        /\ Rank(all[i].chunk, sem) # 0 \/ Rank(all[i].chunk, key) # 0
               /\ \A c \in Chunks : Rank(c, sem) # 0 \/ Rank(c, key) # 0 =>
                                      \E i \in DOMAIN all : all[i].chunk = c
  <1> DEFINE pooled == Pooled(sem, key, ask)
             keys == [i \in DOMAIN pooled |-> MergeKey(pooled[i])]
             place(k) == SortedPlace(keys, k)
             all == SortedBy(keys, pooled)
  <1>1. /\ pooled \in Seq(ResultSet) /\ Once(pooled)
        /\ \A i \in DOMAIN pooled : /\ pooled[i] = Fused(pooled[i].chunk, sem, key, ask)
                                    /\ Rank(pooled[i].chunk, sem) # 0 \/ Rank(pooled[i].chunk, key) # 0
        /\ \A c \in Chunks : Rank(c, sem) # 0 \/ Rank(c, key) # 0 =>
                               \E i \in DOMAIN pooled : pooled[i].chunk = c
    BY PooledFacts
  <1>2. Ranked(sem, key, ask) = all
    BY DEF Ranked
  <1> HIDE DEF pooled
  <1>3. DOMAIN pooled = 1..Len(pooled) /\ \A i \in DOMAIN pooled : pooled[i] \in ResultSet
    BY <1>1, SeqFacts
  <1>4. \A i \in DOMAIN pooled : MergeKey(pooled[i]) \in SortKeys /\ MergeKey(pooled[i])[1] = pooled[i].score
    <2>1. ASSUME NEW r \in ResultSet PROVE MergeKey(r) \in SortKeys /\ MergeKey(r)[1] = r.score
      <3>1. r.score \in Int /\ r.chunk \in Chunks
        BY DEF ResultSet
      <3>2. r.chunk.crawled \in Int
        BY <3>1, AnsweringAssumption
      <3>3. Bit(r.chunk.general) \in Int /\ Bit(r.chunk.table) \in Int
        BY DEF Bit
      <3> QED
        BY <3>1, <3>2, <3>3 DEF MergeKey, SortKeys
    <2> QED
      BY <1>3, <2>1
  <1>5. keys \in [1..Len(pooled) -> SortKeys] /\ \A i \in DOMAIN pooled : keys[i][1] = pooled[i].score
    BY <1>3, <1>4
  <1> HIDE DEF keys
  <1>6. /\ all \in Seq(ResultSet) /\ DOMAIN all = 1..Len(all)
        /\ \A k \in DOMAIN all : place(k) \in DOMAIN pooled /\ all[k] = pooled[place(k)]
        /\ \A i \in DOMAIN pooled : \E k \in DOMAIN all : place(k) = i
        /\ \A k, m \in DOMAIN all : k < m => keys[place(k)][1] >= keys[place(m)][1]
    <2>1. pooled \in Seq(ResultSet)
      BY <1>1
    <2>2. keys \in [1..Len(pooled) -> SortKeys]
      BY <1>5
    <2> QED
      BY ONLY <2>1, <2>2, SortedByFacts, ZenonT(60)
  <1>7. Once(all)
    BY <1>1, <1>5, SortedOnce
  <1> HIDE DEF all, place
  <1>8. Falling(all)
    BY <1>5, <1>6 DEF Falling
  <1>9. \A c \in Chunks : Rank(c, sem) # 0 \/ Rank(c, key) # 0 =>
                             \E i \in DOMAIN all : all[i].chunk = c
    <2>1. ASSUME NEW c \in Chunks, Rank(c, sem) # 0 \/ Rank(c, key) # 0
          PROVE  \E i \in DOMAIN all : all[i].chunk = c
      <3>1. PICK i \in DOMAIN pooled : pooled[i].chunk = c
        BY <1>1, <2>1
      <3>2. PICK k \in DOMAIN all : place(k) = i
        BY <1>6
      <3>3. all[k].chunk = c
        BY <1>6, <3>1, <3>2
      <3> QED
        BY <3>3
    <2> QED
      BY <2>1
  <1>10. \A i \in DOMAIN all : /\ all[i] = Fused(all[i].chunk, sem, key, ask)
                               /\ Rank(all[i].chunk, sem) # 0 \/ Rank(all[i].chunk, key) # 0
    BY <1>1, <1>6
  <1> QED
    BY <1>2, <1>6, <1>7, <1>8, <1>9, <1>10

-----------------------------------------------------------------------------
\* Entries of a list in their order: what deduplications and slices leave.
Picks(p, s, list) ==
    /\ p \in [DOMAIN s -> DOMAIN list]
    /\ \A k \in DOMAIN s : s[k] = list[p[k]]
    /\ \A k, m \in DOMAIN s : k < m => p[k] < p[m]
Part(s, list) == \E p \in [DOMAIN s -> DOMAIN list] : Picks(p, s, list)

LEMMA PartFacts ==
    ASSUME NEW S, NEW list \in Seq(S), NEW n \in Nat, NEW s, DOMAIN s = 1..n, Part(s, list)
    PROVE  /\ \A k \in DOMAIN s : \E i \in DOMAIN list : s[k] = list[i]
           /\ Once(list) => Once(s)
           /\ Falling(list) => Falling(s)
           /\ \A k, m \in DOMAIN s : k < m =>
                \E i, j \in DOMAIN list : i < j /\ s[k] = list[i] /\ s[m] = list[j]
  <1>1. PICK p \in [DOMAIN s -> DOMAIN list] : Picks(p, s, list)
    BY DEF Part
  <1>2. /\ \A k \in DOMAIN s : p[k] \in DOMAIN list /\ s[k] = list[p[k]]
        /\ \A k, m \in DOMAIN s : k < m => p[k] < p[m]
    BY <1>1 DEF Picks
  <1>3. Len(list) \in Nat /\ DOMAIN list = 1..Len(list)
    BY SeqFacts
  <1>4. ASSUME Once(list), NEW k \in DOMAIN s, NEW m \in DOMAIN s, s[k].chunk = s[m].chunk
        PROVE  k = m
    <2>1. p[k] = p[m] /\ p[k] \in 1..Len(list)
      BY <1>2, <1>3, <1>4 DEF Once
    <2>2. ~(k < m) /\ ~(m < k)
      BY <1>2, <1>3, <2>1
    <2> QED
      BY <2>2
  <1>5. Falling(list) => Falling(s)
    BY <1>2 DEF Falling
  <1> QED
    BY <1>2, <1>4, <1>5 DEF Once

LEMMA PartOfPart ==
    ASSUME NEW r, NEW s, NEW list, Part(r, s), Part(s, list)
    PROVE  Part(r, list)
  <1>1. PICK p \in [DOMAIN r -> DOMAIN s] : Picks(p, r, s)
    BY DEF Part
  <1>2. PICK q \in [DOMAIN s -> DOMAIN list] : Picks(q, s, list)
    BY DEF Part
  <1> DEFINE o == [k \in DOMAIN r |-> q[p[k]]]
  <1>3. o \in [DOMAIN r -> DOMAIN list]
    BY <1>1, <1>2
  <1>4. Picks(o, r, list)
    BY <1>1, <1>2, <1>3 DEF Picks
  <1> QED
    BY <1>3, <1>4 DEF Part

LEMMA SublistIsPart ==
    ASSUME NEW S, NEW list \in Seq(S), NEW I \in SUBSET DOMAIN list
    PROVE  Part(Sublist(list, I), list)
  <1> DEFINE s == Sublist(list, I)
             p == [k \in DOMAIN s |-> Nth(I, k)]
  <1>1. /\ \A k \in DOMAIN s : Nth(I, k) \in I /\ s[k] = list[Nth(I, k)]
        /\ \A k, m \in DOMAIN s : k < m => Nth(I, k) < Nth(I, m)
    BY SublistOf
  <1> HIDE DEF s
  <1>2. p \in [DOMAIN s -> DOMAIN list] /\ Picks(p, s, list)
    BY <1>1 DEF Picks
  <1>3. Part(s, list)
    BY <1>2 DEF Part
  <1> QED
    BY <1>3 DEF s

LEMMA TakeIsPart ==
    ASSUME NEW S, NEW list \in Seq(S), NEW n \in Nat
    PROVE  Part(Take(list, n), list)
  <1> DEFINE s == Take(list, n)
             p == [k \in DOMAIN s |-> k]
  <1>1. DOMAIN s \subseteq DOMAIN list /\ \A k \in DOMAIN s : s[k] = list[k]
    BY TakeFacts
  <1> HIDE DEF s
  <1>2. p \in [DOMAIN s -> DOMAIN list] /\ Picks(p, s, list)
    BY <1>1 DEF Picks
  <1>3. Part(s, list)
    BY <1>2 DEF Part
  <1> QED
    BY <1>3 DEF s

\* A deduplication keeps the first entry of every class.
LEMMA FirstOfEachFacts ==
    ASSUME NEW S, NEW list \in Seq(S), NEW classes, DOMAIN classes = DOMAIN list
    PROVE  LET s == FirstOfEach(classes, list)
               p(k) == Nth(Firsts(classes), k)
           IN  /\ s \in Seq(S) /\ Len(s) \in Nat /\ DOMAIN s = 1..Len(s) /\ Len(s) <= Len(list)
               /\ Part(s, list)
               /\ \A k \in DOMAIN s : p(k) \in DOMAIN list /\ s[k] = list[p(k)]
               /\ \A k, m \in DOMAIN s : k < m => p(k) < p(m)
               /\ \A k, m \in DOMAIN s : classes[p(k)] = classes[p(m)] => k = m
               /\ \A i \in DOMAIN list : \E k \in DOMAIN s : p(k) <= i /\ classes[p(k)] = classes[i]
               /\ list # <<>> => s # <<>> /\ s[1] = list[1] /\ 1 \in DOMAIN s /\ p(1) = 1
  <1> DEFINE I == Firsts(classes)
             s == FirstOfEach(classes, list)
             p(k) == Nth(I, k)
             n == Len(list)
  <1>1. n \in Nat /\ DOMAIN list = 1..n /\ DOMAIN classes = 1..n
    BY SeqFacts
  <1> HIDE DEF n
  <1>2. /\ I \in SUBSET (1..n)
        /\ \A i, j \in I : classes[i] = classes[j] => i = j
        /\ \A i \in 1..n : \E j \in I : j <= i /\ classes[j] = classes[i]
        /\ n > 0 => 1 \in I
    BY <1>1, FirstsFacts
  <1> HIDE DEF I
  <1>3. /\ s \in Seq(S) /\ Len(s) \in Nat /\ DOMAIN s = 1..Len(s)
        /\ \A k \in DOMAIN s : p(k) \in I /\ s[k] = list[p(k)]
        /\ \A k, m \in DOMAIN s : k < m => p(k) < p(m)
        /\ \A i \in I : \E k \in DOMAIN s : p(k) = i
    BY <1>1, <1>2, SublistOf DEF FirstOfEach, I
  <1>4. Part(s, list) /\ Len(s) <= Len(list)
    BY <1>1, <1>2, SublistIsPart, SublistLength DEF FirstOfEach, I
  <1> HIDE DEF s, p
  <1>5. \A k \in DOMAIN s : p(k) \in 1..n
    BY <1>2, <1>3
  <1>6. ASSUME NEW k \in DOMAIN s, NEW m \in DOMAIN s, classes[p(k)] = classes[p(m)] PROVE k = m
    <2>1. p(k) = p(m) /\ p(k) \in 1..n
      BY <1>2, <1>3, <1>6
    <2>2. ~(k < m) /\ ~(m < k)
      BY <1>3, <2>1
    <2> QED
      BY <1>3, <2>2
  <1>7. \A i \in DOMAIN list : \E k \in DOMAIN s : p(k) <= i /\ classes[p(k)] = classes[i]
    <2>1. ASSUME NEW i \in 1..n
          PROVE  \E k \in DOMAIN s : p(k) <= i /\ classes[p(k)] = classes[i]
      <3>1. PICK j \in I : j <= i /\ classes[j] = classes[i]
        BY <1>2
      <3>2. PICK k \in DOMAIN s : p(k) = j
        BY <1>3
      <3> QED
        BY <3>1, <3>2
    <2> QED
      BY <1>1, <2>1
  <1>8. ASSUME list # <<>> PROVE s # <<>> /\ s[1] = list[1] /\ 1 \in DOMAIN s /\ p(1) = 1
    <2>1. n > 0
      BY <1>1, <1>8, EmptySeq DEF n
    <2>2. PICK k \in DOMAIN s : p(k) = 1
      BY <1>2, <1>3, <2>1
    <2>3. k = 1
      <3>1. ASSUME k # 1 PROVE FALSE
        <4>1. 1 \in DOMAIN s /\ 1 < k
          BY <1>3, <2>2, <3>1
        <4>2. p(1) < p(k) /\ p(1) \in 1..n
          BY <1>3, <1>5, <2>2, <4>1
        <4> QED
          BY <2>2, <4>2
      <3> QED
        BY <3>1
    <2>4. s # <<>>
      BY <2>2, <2>3
    <2> QED
      BY <1>3, <2>2, <2>3, <2>4
  <1> QED
    BY <1>1, <1>3, <1>4, <1>5, <1>6, <1>7, <1>8 DEF s, p, I

\* The deduplications, of results: by text and by document.
LEMMA DedupFacts ==
    ASSUME NEW list \in Seq(ResultSet)
    PROVE  LET s == DedupRanked(list)
               d == DedupByDocument(list)
           IN  /\ s \in Seq(ResultSet) /\ Len(s) \in Nat /\ DOMAIN s = 1..Len(s)
               /\ Len(s) <= Len(list) /\ Part(s, list)
               /\ \A i, j \in DOMAIN s : s[i].chunk.text = s[j].chunk.text => i = j
               /\ \A i \in DOMAIN list : \E k \in DOMAIN s : s[k].chunk.text = list[i].chunk.text
               /\ list # <<>> => s # <<>> /\ s[1] = list[1]
               /\ d \in Seq(ResultSet) /\ Len(d) \in Nat /\ DOMAIN d = 1..Len(d)
               /\ Len(d) <= Len(list) /\ Part(d, list)
               /\ \A i, j \in DOMAIN d : d[i].chunk.doc = d[j].chunk.doc => i = j
               /\ \A i \in DOMAIN list : \E k \in DOMAIN d : d[k].chunk.doc = list[i].chunk.doc
               /\ list # <<>> => d # <<>> /\ d[1] = list[1]
  <1> DEFINE texts == [i \in DOMAIN list |-> Text(list[i])]
             docs == [i \in DOMAIN list |-> Document(list[i])]
             s == FirstOfEach(texts, list)
             d == FirstOfEach(docs, list)
             p(k) == Nth(Firsts(texts), k)
             q(k) == Nth(Firsts(docs), k)
  <1>1. DedupRanked(list) = s /\ DedupByDocument(list) = d
    BY DEF DedupRanked, DedupByDocument
  <1>2. /\ DOMAIN texts = DOMAIN list /\ \A i \in DOMAIN list : texts[i] = list[i].chunk.text
        /\ DOMAIN docs = DOMAIN list /\ \A i \in DOMAIN list : docs[i] = list[i].chunk.doc
    BY DEF Text, Document
  <1> HIDE DEF texts, docs
  <1>3. /\ s \in Seq(ResultSet) /\ Len(s) \in Nat /\ DOMAIN s = 1..Len(s) /\ Len(s) <= Len(list)
        /\ Part(s, list)
        /\ \A k \in DOMAIN s : p(k) \in DOMAIN list /\ s[k] = list[p(k)]
        /\ \A k, m \in DOMAIN s : texts[p(k)] = texts[p(m)] => k = m
        /\ \A i \in DOMAIN list : \E k \in DOMAIN s : p(k) <= i /\ texts[p(k)] = texts[i]
        /\ list # <<>> => s # <<>> /\ s[1] = list[1]
    BY <1>2, FirstOfEachFacts
  <1>4. /\ d \in Seq(ResultSet) /\ Len(d) \in Nat /\ DOMAIN d = 1..Len(d) /\ Len(d) <= Len(list)
        /\ Part(d, list)
        /\ \A k \in DOMAIN d : q(k) \in DOMAIN list /\ d[k] = list[q(k)]
        /\ \A k, m \in DOMAIN d : docs[q(k)] = docs[q(m)] => k = m
        /\ \A i \in DOMAIN list : \E k \in DOMAIN d : q(k) <= i /\ docs[q(k)] = docs[i]
        /\ list # <<>> => d # <<>> /\ d[1] = list[1]
    BY <1>2, FirstOfEachFacts
  <1> HIDE DEF s, d, p, q
  <1>5. ASSUME NEW i \in DOMAIN list
        PROVE  /\ \E k \in DOMAIN s : s[k].chunk.text = list[i].chunk.text
               /\ \E k \in DOMAIN d : d[k].chunk.doc = list[i].chunk.doc
    <2>1. PICK k \in DOMAIN s : texts[p(k)] = texts[i]
      BY <1>3
    <2>2. PICK m \in DOMAIN d : docs[q(m)] = docs[i]
      BY <1>4
    <2>3. s[k].chunk.text = list[i].chunk.text
      <3>1. p(k) \in DOMAIN list /\ s[k] = list[p(k)]
        BY <1>3, <2>1
      <3>2. texts[p(k)] = list[p(k)].chunk.text /\ texts[i] = list[i].chunk.text
        BY <1>2, <3>1
      <3> QED
        BY <2>1, <3>1, <3>2
    <2>4. d[m].chunk.doc = list[i].chunk.doc
      <3>1. q(m) \in DOMAIN list /\ d[m] = list[q(m)]
        BY <1>4, <2>2
      <3>2. docs[q(m)] = list[q(m)].chunk.doc /\ docs[i] = list[i].chunk.doc
        BY <1>2, <3>1
      <3> QED
        BY <2>2, <3>1, <3>2
    <2> QED
      BY <2>3, <2>4
  <1>6. \A i, j \in DOMAIN s : s[i].chunk.text = s[j].chunk.text => i = j
    BY <1>2, <1>3
  <1>7. \A i, j \in DOMAIN d : d[i].chunk.doc = d[j].chunk.doc => i = j
    BY <1>2, <1>4
  <1> QED
    BY <1>1, <1>3, <1>4, <1>5, <1>6, <1>7, ZenonT(60)

\* What both deduplications and the cut leave (merge_ranked_results).
LEMMA MergeFacts ==
    ASSUME NEW sem, HitList(sem), NEW key, HitList(key), NEW ask
    PROVE  LET all == Ranked(sem, key, ask)
               texts == DedupRanked(all)
               docs == DedupByDocument(texts)
               m == MergeRanked(sem, key, ask)
           IN  /\ m \in Seq(ResultSet) /\ Len(m) \in Nat /\ DOMAIN m = 1..Len(m) /\ Len(m) <= TopK
               /\ Once(m) /\ Falling(m)
               /\ \A i \in DOMAIN m : /\ m[i].chunk \in Chunks
                                      /\ m[i].score \in Nat /\ m[i].relevance \in Nat
                                      /\ m[i] = Fused(m[i].chunk, sem, key, ask)
                                      /\ Rank(m[i].chunk, sem) # 0 \/ Rank(m[i].chunk, key) # 0
               /\ \A i, j \in DOMAIN m : m[i].chunk.doc = m[j].chunk.doc => i = j
               /\ \A i, j \in DOMAIN m : m[i].chunk.text = m[j].chunk.text => i = j
               /\ Len(m) < TopK => m = docs /\ \A i \in DOMAIN texts : \E k \in DOMAIN m :
                                                  m[k].chunk.doc = texts[i].chunk.doc
  <1> DEFINE all == Ranked(sem, key, ask)
             texts == DedupRanked(all)
             docs == DedupByDocument(texts)
             m == Take(docs, TopK)
  <1>1. /\ all \in Seq(ResultSet) /\ Once(all) /\ Falling(all)
        /\ \A i \in DOMAIN all : /\ all[i] = Fused(all[i].chunk, sem, key, ask)
                                 /\ Rank(all[i].chunk, sem) # 0 \/ Rank(all[i].chunk, key) # 0
    BY RankedFacts
  <1>2. MergeRanked(sem, key, ask) = m
    BY DEF MergeRanked
  <1> HIDE DEF all
  <1>3. /\ texts \in Seq(ResultSet) /\ Part(texts, all)
        /\ \A i, j \in DOMAIN texts : texts[i].chunk.text = texts[j].chunk.text => i = j
    BY <1>1, DedupFacts
  <1> HIDE DEF texts
  <1>4. /\ docs \in Seq(ResultSet) /\ Part(docs, texts) /\ Len(docs) \in Nat /\ DOMAIN docs = 1..Len(docs)
        /\ \A i, j \in DOMAIN docs : docs[i].chunk.doc = docs[j].chunk.doc => i = j
        /\ \A i \in DOMAIN texts : \E k \in DOMAIN docs : docs[k].chunk.doc = texts[i].chunk.doc
    BY <1>3, DedupFacts
  <1> HIDE DEF docs
  <1>5. TopK \in Nat
    BY RankingAssumption
  <1>6. /\ m \in Seq(ResultSet) /\ Part(m, docs) /\ Len(m) \in Nat /\ DOMAIN m = 1..Len(m)
        /\ Len(m) = IF TopK <= Len(docs) THEN TopK ELSE Len(docs)
        /\ DOMAIN m \subseteq DOMAIN docs /\ \A k \in DOMAIN m : m[k] = docs[k]
    BY <1>4, <1>5, TakeFacts, TakeIsPart
  <1> HIDE DEF m
  <1>7. Part(m, texts) /\ Part(m, all)
    BY <1>3, <1>4, <1>6, PartOfPart
  <1>8. /\ Once(m) /\ Falling(m)
        /\ \A k \in DOMAIN m : \E i \in DOMAIN all : m[k] = all[i]
    BY <1>1, <1>6, <1>7, PartFacts
  <1>9. \A i \in DOMAIN m : /\ m[i].chunk \in Chunks
                            /\ m[i].score \in Nat /\ m[i].relevance \in Nat
                            /\ m[i] = Fused(m[i].chunk, sem, key, ask)
                            /\ Rank(m[i].chunk, sem) # 0 \/ Rank(m[i].chunk, key) # 0
    <2>1. \A i \in DOMAIN m : m[i] \in ResultSet
      BY <1>6, SeqFacts
    <2>2. ASSUME NEW i \in DOMAIN m
          PROVE  /\ m[i] = Fused(m[i].chunk, sem, key, ask)
                 /\ Rank(m[i].chunk, sem) # 0 \/ Rank(m[i].chunk, key) # 0
      <3>1. PICK j \in DOMAIN all : m[i] = all[j]
        BY <1>8
      <3> QED
        BY <1>1, <3>1
    <2> QED
      BY <2>1, <2>2 DEF ResultSet
  <1>10. \A i, j \in DOMAIN m : m[i].chunk.doc = m[j].chunk.doc => i = j
    BY <1>4, <1>6
  <1>11. ASSUME NEW i \in DOMAIN m, NEW j \in DOMAIN m, m[i].chunk.text = m[j].chunk.text
         PROVE  i = j
    <2>1. PICK p \in [DOMAIN m -> DOMAIN texts] : Picks(p, m, texts)
      BY <1>7 DEF Part
    <2>2. p[i] = p[j]
      BY <1>3, <1>11, <2>1 DEF Picks
    <2>3. p[i] \in Int
      <3>1. DOMAIN texts = 1..Len(texts)
        BY <1>3, SeqFacts
      <3> QED
        BY <2>1, <3>1
    <2>4. ~(i < j) /\ ~(j < i)
      BY <2>1, <2>2, <2>3 DEF Picks
    <2> QED
      BY <1>6, <2>4
  <1>12. ASSUME Len(m) < TopK
         PROVE  m = docs
    <2>1. Len(m) = Len(docs)
      <3>1. Len(m) = IF TopK <= Len(docs) THEN TopK ELSE Len(docs)
        BY <1>6
      <3>2. ~(TopK <= Len(docs))
        BY <1>5, <1>12, <3>1
      <3> QED
        BY <3>1, <3>2
    <2>2. DOMAIN m = DOMAIN docs /\ \A k \in DOMAIN m : m[k] = docs[k]
      BY <1>4, <1>6, <2>1
    <2>3. m = [k \in DOMAIN m |-> m[k]] /\ docs = [k \in DOMAIN docs |-> docs[k]]
      BY <1>4, <1>6, LenProperties
    <2> QED
      BY <2>2, <2>3
  <1>13. Len(m) <= TopK
    BY <1>4, <1>5, <1>6
  <1> QED
    BY <1>2, <1>4, <1>6, <1>8, <1>9, <1>10, <1>11, <1>12, <1>13, SMTT(30) DEF m, docs, texts, all

-----------------------------------------------------------------------------
\* A chunk that neither list places behind another has the higher score.
LEMMA OneListAgrees ==
    ASSUME NEW hits, HitList(hits), NEW c \in Chunks, NEW d \in Chunks, c # d,
           NotBehind(Rank(c, hits), Rank(d, hits))
    PROVE  /\ Rrf(c, hits) \in Nat /\ Rrf(d, hits) \in Nat /\ Rrf(c, hits) >= Rrf(d, hits)
           /\ Rank(c, hits) # 0 => Rrf(c, hits) >= Rrf(d, hits) + 2
  <1> DEFINE i == Rank(c, hits)
             j == Rank(d, hits)
  <1>1. /\ i \in 0..RankMax /\ (i # 0 => i \in DOMAIN hits /\ hits[i].chunk = c)
        /\ j \in 0..RankMax /\ (j # 0 => j \in DOMAIN hits /\ hits[j].chunk = d)
    BY RankFacts
  <1>2. /\ Rrf(c, hits) = IF i = 0 THEN 0 ELSE One \div (RrfK + i)
        /\ Rrf(d, hits) = IF j = 0 THEN 0 ELSE One \div (RrfK + j)
    BY DEF Rrf
  <1>3. j = 0 \/ (i # 0 /\ i <= j)
    BY DEF NotBehind
  <1> HIDE DEF i, j
  <1>4. i # 0 => /\ One \div (RrfK + i) \in Nat
                 /\ One \div (RrfK + i) >= 2
    <2>1. i # 0 => i \in 1..RankMax
      BY <1>1
    <2> QED
      BY <2>1, RankCounts
  <1>5. CASE j = 0
    <2>1. Rrf(d, hits) = 0
      BY <1>2, <1>5
    <2>2. CASE i = 0
      BY <1>2, <2>1, <2>2 DEF i
    <2>3. CASE i # 0
      <3>1. Rrf(c, hits) \in Nat /\ Rrf(c, hits) >= 2
        BY <1>2, <1>4, <2>3
      <3> QED
        BY <2>1, <3>1
    <2> QED
      BY <2>2, <2>3
  <1>6. CASE j # 0
    <2>1. i # 0 /\ i # j /\ i <= j
      BY <1>1, <1>3, <1>6
    <2>2. i \in 1..RankMax /\ j \in 1..RankMax /\ i < j
      BY <1>1, <1>6, <2>1
    <2>3. One \div (RrfK + i) >= One \div (RrfK + j) + 2
      BY <2>2, RanksApart
    <2>4. One \div (RrfK + j) \in Nat /\ One \div (RrfK + i) \in Nat
      BY <2>2, RankCounts
    <2> DEFINE x == One \div (RrfK + i)
               y == One \div (RrfK + j)
    <2>5. Rrf(c, hits) = x /\ Rrf(d, hits) = y /\ x \in Nat /\ y \in Nat /\ x >= y + 2
      BY <1>2, <1>6, <2>1, <2>3, <2>4
    <2> HIDE DEF x, y
    <2> QED
      BY <2>5
  <1> QED
    BY <1>5, <1>6

LEMMA BothListsAgree ==
    ASSUME NEW sem, HitList(sem), NEW key, HitList(key), NEW ask,
           NEW c \in Chunks, NEW d \in Chunks, c # d,
           Rank(c, sem) # 0 \/ Rank(c, key) # 0,
           NotBehind(Rank(c, sem), Rank(d, sem)), NotBehind(Rank(c, key), Rank(d, key)),
           Factor(c, ask) = Factor(d, ask)
    PROVE  Fused(c, sem, key, ask).score > Fused(d, sem, key, ask).score
  <1> DEFINE a == Rrf(c, sem) + Rrf(c, key)
             b == Rrf(d, sem) + Rrf(d, key)
             f == Factor(c, ask)
  <1>1. /\ Rrf(c, sem) \in Nat /\ Rrf(d, sem) \in Nat /\ Rrf(c, sem) >= Rrf(d, sem)
        /\ Rank(c, sem) # 0 => Rrf(c, sem) >= Rrf(d, sem) + 2
    BY OneListAgrees
  <1>2. /\ Rrf(c, key) \in Nat /\ Rrf(d, key) \in Nat /\ Rrf(c, key) >= Rrf(d, key)
        /\ Rank(c, key) # 0 => Rrf(c, key) >= Rrf(d, key) + 2
    BY OneListAgrees
  <1>3. a \in Nat /\ b \in Nat /\ a >= b + 2
    BY <1>1, <1>2
  <1>4. Fused(c, sem, key, ask).score = Times(a, f) /\ Fused(d, sem, key, ask).score = Times(b, f)
    BY FusedFacts
  <1>5. f \in 70..140
    BY FactorBounds
  <1> HIDE DEF a, b, f
  <1>6. Times(a, f) > Times(b, f)
    BY <1>3, <1>5, BoostFacts
  <1> QED
    BY <1>4, <1>6

LEMMA ListedIsRanked ==
    ASSUME NEW hits, HitList(hits), NEW c \in Chunks
    PROVE  c.id \in Ids(hits) <=> Rank(c, hits) # 0
  <1>1. /\ \A i \in DOMAIN hits : hits[i].chunk \in Chunks /\ i # 0
        /\ Rank(c, hits) # 0 => Rank(c, hits) \in DOMAIN hits /\ hits[Rank(c, hits)].chunk = c
        /\ \A i \in DOMAIN hits : hits[i].chunk = c <=> Rank(c, hits) = i
    <2>1. DOMAIN hits = 1..Len(hits) /\ \A i \in DOMAIN hits : hits[i] \in HitSet
      BY SeqFacts DEF HitList
    <2> QED
      BY <2>1, RankFacts DEF HitSet
  <1>2. ASSUME c.id \in Ids(hits) PROVE Rank(c, hits) # 0
    <2>1. PICK i \in DOMAIN hits : hits[i].chunk.id = c.id
      BY <1>2 DEF Ids
    <2>2. hits[i].chunk = c
      BY <1>1, <2>1, AnsweringAssumption
    <2> QED
      BY <1>1, <2>2
  <1>3. ASSUME Rank(c, hits) # 0 PROVE c.id \in Ids(hits)
    BY <1>1, <1>3 DEF Ids
  <1> QED
    BY <1>2, <1>3

LEMMA FusionFacts ==
    ASSUME HitList(semantic), HitList(keyword), merged = MergeRanked(semantic, keyword, question)
    PROVE  FusionIsFair
  <1> DEFINE all == Ranked(semantic, keyword, question)
             texts == DedupRanked(all)
  <1>1. /\ all \in Seq(ResultSet)
        /\ \A i \in DOMAIN all : Rank(all[i].chunk, semantic) # 0 \/ Rank(all[i].chunk, keyword) # 0
        /\ \A c \in Chunks : Rank(c, semantic) # 0 \/ Rank(c, keyword) # 0 =>
                               \E i \in DOMAIN all : all[i].chunk = c
    BY RankedFacts
  <1>2. /\ Len(merged) \in Nat /\ DOMAIN merged = 1..Len(merged) /\ Falling(merged)
        /\ \A i \in DOMAIN merged :
             /\ merged[i].chunk \in Chunks /\ merged[i].score \in Nat
             /\ merged[i] = Fused(merged[i].chunk, semantic, keyword, question)
             /\ Rank(merged[i].chunk, semantic) # 0 \/ Rank(merged[i].chunk, keyword) # 0
        /\ \A i, j \in DOMAIN merged : merged[i].chunk.doc = merged[j].chunk.doc => i = j
        /\ \A i, j \in DOMAIN merged : merged[i].chunk.text = merged[j].chunk.text => i = j
        /\ Len(merged) < TopK =>
             \A i \in DOMAIN texts : \E k \in DOMAIN merged : merged[k].chunk.doc = texts[i].chunk.doc
    BY MergeFacts
  <1> HIDE DEF all
  <1>3. /\ texts \in Seq(ResultSet) /\ Len(texts) \in Nat /\ DOMAIN texts = 1..Len(texts) /\ Part(texts, all)
        /\ \A i \in DOMAIN all : \E k \in DOMAIN texts : texts[k].chunk.text = all[i].chunk.text
    BY <1>1, DedupFacts
  <1> HIDE DEF texts
  <1>4. AgreementWins
    <2> SUFFICES ASSUME NEW i \in DOMAIN merged, NEW j \in DOMAIN merged,
                        merged[i].chunk.id # merged[j].chunk.id,
                        NotBehind(Rank(merged[i].chunk, semantic), Rank(merged[j].chunk, semantic)),
                        NotBehind(Rank(merged[i].chunk, keyword), Rank(merged[j].chunk, keyword)),
                        Factor(merged[i].chunk, question) = Factor(merged[j].chunk, question)
                 PROVE  i < j
      BY DEF AgreementWins
    <2> DEFINE c == merged[i].chunk
               d == merged[j].chunk
    <2>1. /\ c \in Chunks /\ d \in Chunks /\ c # d /\ i # j
          /\ Rank(c, semantic) # 0 \/ Rank(c, keyword) # 0
          /\ NotBehind(Rank(c, semantic), Rank(d, semantic)) /\ NotBehind(Rank(c, keyword), Rank(d, keyword))
          /\ Factor(c, question) = Factor(d, question)
      BY <1>2
    <2>2. /\ merged[i].score = Fused(c, semantic, keyword, question).score
          /\ merged[j].score = Fused(d, semantic, keyword, question).score
      BY <1>2
    <2> HIDE DEF c, d
    <2>3. Fused(c, semantic, keyword, question).score > Fused(d, semantic, keyword, question).score
      BY <2>1, BothListsAgree
    <2>4. merged[i].score > merged[j].score /\ merged[i].score \in Nat /\ merged[j].score \in Nat
      BY <1>2, <2>2, <2>3
    <2>5. ~(j < i)
      BY <1>2, <2>4 DEF Falling
    <2> QED
      BY <1>2, <2>1, <2>5
  <1>5. MergedSpeaksForEveryHit
    <2>1. Cardinality(Docs(merged)) = Len(merged)
      <3> DEFINE f == [i \in 1..Len(merged) |-> merged[i].chunk.doc]
      <3>1. DOMAIN f = 1..Len(merged) /\ \A i, j \in 1..Len(merged) : f[i] = f[j] => i = j
        BY <1>2
      <3>2. Docs(merged) = {f[i] : i \in 1..Len(merged)}
        BY <1>2 DEF Docs
      <3> HIDE DEF f
      <3> QED
        BY <1>2, <3>1, <3>2, OnceCounted
    <2>2. Cardinality(Texts(merged)) = Len(merged)
      <3> DEFINE f == [i \in 1..Len(merged) |-> merged[i].chunk.text]
      <3>1. DOMAIN f = 1..Len(merged) /\ \A i, j \in 1..Len(merged) : f[i] = f[j] => i = j
        BY <1>2
      <3>2. Texts(merged) = {f[i] : i \in 1..Len(merged)}
        BY <1>2 DEF Texts
      <3> HIDE DEF f
      <3> QED
        BY <1>2, <3>1, <3>2, OnceCounted
    <2>3. ASSUME Len(merged) < TopK, NEW c \in Chunks, c.id \in Ids(semantic) \cup Ids(keyword)
          PROVE  \E other \in Chunks : /\ other.id \in Ids(semantic) \cup Ids(keyword)
                                       /\ other.text = c.text /\ other.doc \in Docs(merged)
      <3>1. Rank(c, semantic) # 0 \/ Rank(c, keyword) # 0
        BY <2>3, ListedIsRanked
      <3>2. PICK i \in DOMAIN all : all[i].chunk = c
        BY <1>1, <3>1
      <3>3. PICK k \in DOMAIN texts : texts[k].chunk.text = c.text
        BY <1>3, <3>2
      <3>4. PICK j \in DOMAIN all : texts[k] = all[j]
        <4>1. \A m \in DOMAIN texts : \E j \in DOMAIN all : texts[m] = all[j]
          BY <1>1, <1>3, PartFacts
        <4> QED
          BY <4>1
      <3>5. PICK n \in DOMAIN merged : merged[n].chunk.doc = texts[k].chunk.doc
        BY <1>2, <2>3
      <3> DEFINE other == texts[k].chunk
      <3>6. other \in Chunks
        <4>1. texts[k] \in ResultSet
          BY <1>3, SeqFacts
        <4> QED
          BY <4>1 DEF ResultSet
      <3>7. Rank(other, semantic) # 0 \/ Rank(other, keyword) # 0
        BY <1>1, <3>4
      <3>8. other.text = c.text /\ other.doc \in Docs(merged)
        BY <3>3, <3>5 DEF Docs
      <3> HIDE DEF other
      <3>9. other.id \in Ids(semantic) \cup Ids(keyword)
        BY <3>6, <3>7, ListedIsRanked
      <3> QED
        BY <3>6, <3>8, <3>9
    <2> QED
      BY <2>1, <2>2, <2>3 DEF MergedSpeaksForEveryHit
  <1> QED
    BY <1>4, <1>5 DEF FusionIsFair

-----------------------------------------------------------------------------
\* Every stage has what the pure functions make of the stages before it.  Of
\* the database there were two looks, the second at what was left (expand_
\* detail_context, apply_best_bets).
Looked(seen) == results = DedupRanked(ExpandDetail(merged, question, seen))
LookedTwice(seen, active) ==
    results = Pinned(question, DedupRanked(ExpandDetail(merged, question, seen)), active)

Path ==
    /\ stage \in {"keyword", "semantic", "merge", "expand", "pin", "draft", "repair", "answered"}
    /\ question \in QuestionSet /\ stored \in SUBSET Chunks
    /\ HitList(keyword) /\ HitList(semantic)
    /\ Searched => merged = MergeRanked(semantic, keyword, question)
    /\ ~Ready => candidates = <<>>
    /\ stage = "expand" => results = merged
    /\ stage = "pin" => \E seen \in SUBSET Chunks : stored \subseteq seen /\ Looked(seen)
    /\ Ready =>
         /\ \E seen, active \in SUBSET Chunks : stored \subseteq active /\ LookedTwice(seen, active)
         /\ candidates = EvidenceCandidates(question, results)
    /\ stage # "answered" => draft = NoDraft /\ response = NoResponse
    /\ stage = "answered" =>
         \/ draft = NoDraft /\ response = NoResponse
         \/ draft = NoDraft /\ response = Insufficient
         \/ draft \in Drafts /\ response = Assemble(draft, candidates)

LEMMA PathInit == AnsweringInit => Path
  <1> SUFFICES ASSUME AnsweringInit PROVE Path
    OBVIOUS
  <1>1. HitList(<<>>)
    <2>1. <<>> \in Seq(HitSet) /\ Len(<<>>) = 0 /\ DOMAIN <<>> = {}
      BY EmptySeq
    <2> QED
      BY <2>1 DEF HitList, Once, RankMax
  <1> QED
    BY <1>1 DEF AnsweringInit, Path, Searched, Ready

LEMMA PathNext == Path /\ [AnsweringNext]_answeringVars => Path'
  <1> SUFFICES ASSUME Path, [AnsweringNext]_answeringVars PROVE Path'
    OBVIOUS
  <1>1. CASE UNCHANGED answeringVars
    BY <1>1 DEF answeringVars, Path, Searched, Ready, Looked, LookedTwice, HitList, Once
  <1>2. ASSUME NEW doc \in Documents, LoseChunks(doc) PROVE Path'
    <2>1. stored' \in SUBSET stored /\ stored' \in SUBSET Chunks
      BY <1>2 DEF LoseChunks, Path
    <2>2. UNCHANGED <<stage, question, keyword, semantic, up, merged, results, candidates, draft, response>>
      BY <1>2 DEF LoseChunks
    <2> QED
      BY <2>1, <2>2 DEF Path, Searched, Ready, Looked, LookedTwice, HitList, Once
  <1>3. CASE SearchKeywords
    <2>1. HitList(keyword')
      <3>1. CASE keyword' = keyword
        BY <3>1 DEF Path, HitList, Once
      <3>2. ASSUME NEW rows \in KeywordRows, keyword' = Bm25Search(rows, Bm25TopN)
            PROVE  HitList(keyword')
        BY <3>2, KeywordHits
      <3> QED
        BY <1>3, <3>1, <3>2 DEF SearchKeywords
    <2> QED
      BY <1>3, <2>1 DEF SearchKeywords, Path, Searched, Ready, HitList, Once
  <1>4. CASE SearchSemantic
    <2>1. HitList(semantic')
      <3>1. CASE semantic' = semantic
        BY <3>1 DEF Path, HitList, Once
      <3>2. ASSUME NEW found \in SemanticHits, semantic' = SemanticSearch(found, stored)
            PROVE  HitList(semantic')
        BY <3>2, ChromaHits DEF Path
      <3> QED
        BY <1>4, <3>1, <3>2 DEF SearchSemantic
    <2> QED
      BY <1>4, <2>1 DEF SearchSemantic, Path, Searched, Ready, HitList, Once
  <1>5. CASE Merge
    BY <1>5 DEF Merge, Path, Searched, Ready, HitList, Once
  <1>6. CASE Expand
    <2>1. Looked(stored)' /\ stored' = stored /\ stored \in SUBSET Chunks
      BY <1>6 DEF Expand, Looked, Path
    <2>2. \E seen \in SUBSET Chunks : stored' \subseteq seen /\ Looked(seen)'
      BY <2>1 DEF Looked
    <2> QED
      BY <1>6, <2>2 DEF Expand, Path, Searched, Ready, HitList, Once
  <1>7. CASE PinAndFilter
    <2>1. PICK seen \in SUBSET Chunks : Looked(seen)
      BY <1>7 DEF PinAndFilter, Path
    <2>2. /\ LookedTwice(seen, stored)' /\ stored' = stored /\ stored \in SUBSET Chunks
          /\ candidates' = EvidenceCandidates(question', results')
      BY <1>7, <2>1 DEF PinAndFilter, Looked, LookedTwice, Path
    <2>3. \E s, active \in SUBSET Chunks : stored' \subseteq active /\ LookedTwice(s, active)'
      BY <2>2 DEF LookedTwice
    <2> QED
      BY <1>7, <2>2, <2>3 DEF PinAndFilter, Path, Searched, Ready, HitList, Once
  <1>8. CASE AnswerWithoutEvidence
    BY <1>8 DEF AnswerWithoutEvidence, Path, Searched, Ready, LookedTwice, HitList, Once
  <1>9. CASE Draft
    BY <1>9 DEF Draft, Path, Searched, Ready, LookedTwice, HitList, Once
  <1>10. CASE DraftInvalid
    BY <1>10 DEF DraftInvalid, Path, Searched, Ready, LookedTwice, HitList, Once
  <1> QED
    BY <1>1, <1>2, <1>3, <1>4, <1>5, <1>6, <1>7, <1>8, <1>9, <1>10 DEF AnsweringNext

\* The history of an answer: every list is what the functions of the retriever
\* make of the searches, the candidates are the evidence in the results, and the
\* answer is assembled from them (retrieve_with_status, generate_answer_draft).
THEOREM PathHolds == AnsweringSpec => []Path
  <1> QED
    BY PathInit, PathNext, PTL DEF AnsweringSpec

\* Rank fusion honours agreement and loses no hit it has room for
\* (merge_ranked_results, apply_intent_boost).
THEOREM FusionHolds == AnsweringSpec => []FusionIsFair
  <1>1. Path => FusionIsFair
    <2> SUFFICES ASSUME Path PROVE FusionIsFair
      OBVIOUS
    <2>1. CASE Searched
      BY <2>1, FusionFacts DEF Path
    <2>2. CASE ~Searched
      BY <2>2 DEF FusionIsFair, AgreementWins, MergedSpeaksForEveryHit
    <2> QED
      BY <2>1, <2>2
  <1> QED
    BY <1>1, PathHolds, PTL

-----------------------------------------------------------------------------
\* The largest of some numbers.
LEMMA MaxFacts ==
    ASSUME NEW n \in Nat, n > 0, NEW f \in [1..n -> Nat]
    PROVE  LET m == Max({f[i] : i \in 1..n})
           IN  m \in Nat /\ \A i \in 1..n : f[i] <= m
  <1> DEFINE T == {f[i] : i \in 1..n}
  <1>1. f \in [1..n -> Int]
    OBVIOUS
  <1>2. PICK i \in 1..n : \A j \in 1..n : f[j] <= f[i]
    BY <1>1, LargestNumber
  <1>3. f[i] \in T /\ \A y \in T : f[i] >= y
    BY <1>2
  <1>4. Max(T) \in T /\ \A y \in T : Max(T) >= y
    <2> HIDE DEF T
    <2> QED
      BY <1>3 DEF Max
  <1>5. T \subseteq Nat /\ \A j \in 1..n : f[j] \in T
    OBVIOUS
  <1> HIDE DEF T
  <1>6. Max(T) \in Nat /\ \A j \in 1..n : f[j] <= Max(T)
    BY <1>4, <1>5
  <1> QED
    BY <1>6 DEF T

\* The best result of a document stands for it, before all others of it
\* (filter_evidence_candidates).
CandidateSet == [display : ResultSet, context : Seq(ResultSet), overlap : Nat]

Stands(c, list, doc) ==
    /\ Len(c.context) \in Nat /\ DOMAIN c.context = 1..Len(c.context)
    /\ 1 \in DOMAIN c.context /\ c.display = c.context[1] /\ c.display.chunk.doc = doc
    /\ \A k \in DOMAIN c.context :
         /\ c.context[k].chunk.doc = doc /\ c.context[k].score <= c.display.score
         /\ \E i \in DOMAIN list : c.context[k] = list[i]
    /\ \A i \in DOMAIN list : list[i].chunk.doc = doc => \E k \in DOMAIN c.context : c.context[k] = list[i]

LEMMA OverlapCounts ==
    ASSUME NEW ask \in QuestionSet, NEW r
    PROVE  Overlap(r, ask) \in Nat
  <1>1. IsFiniteSet(ask.words) /\ ask.words \cap r.chunk.words \in SUBSET ask.words
    BY AnsweringAssumption
  <1>2. IsFiniteSet(ask.words \cap r.chunk.words)
    BY <1>1, FS_Subset
  <1> QED
    BY <1>2, FS_CardinalityType DEF Overlap

LEMMA CandidateFacts ==
    ASSUME NEW list \in Seq(ResultSet), NEW ask \in QuestionSet, NEW i \in DOMAIN list
    PROVE  LET c == Candidate(list, list[i].chunk.doc, ask)
           IN  c \in CandidateSet /\ Stands(c, list, list[i].chunk.doc)
  <1> DEFINE doc == list[i].chunk.doc
             I == {n \in DOMAIN list : Document(list[n]) = doc}
             found == OfDocument(list, doc)
             keys == [n \in DOMAIN found |-> <<found[n].score, 0, 0, 0>>]
             place(k) == SortedPlace(keys, k)
             own == SortedBy(keys, found)
             f == [n \in 1..Len(own) |-> Overlap(own[n], ask)]
             c == Candidate(list, doc, ask)
  <1> HIDE DEF doc
  <1>1. /\ I \in SUBSET DOMAIN list /\ i \in I
        /\ \A n \in DOMAIN list : n \in I <=> list[n].chunk.doc = doc
    BY DEF Document, doc
  <1>2. found = Sublist(list, I)
    BY DEF OfDocument
  <1> HIDE DEF I, found
  <1>3. /\ found \in Seq(ResultSet) /\ Len(found) \in Nat /\ DOMAIN found = 1..Len(found)
        /\ \A k \in DOMAIN found : Nth(I, k) \in I /\ found[k] = list[Nth(I, k)]
        /\ \A n \in I : \E k \in DOMAIN found : Nth(I, k) = n
    BY <1>1, <1>2, SublistOf
  <1>4. \A n \in DOMAIN found : found[n] \in ResultSet /\ found[n].score \in Nat
    <2>1. \A n \in DOMAIN found : found[n] \in ResultSet
      BY <1>3, SeqFacts
    <2> QED
      BY <2>1 DEF ResultSet
  <1>5. keys \in [1..Len(found) -> SortKeys] /\ \A n \in DOMAIN found : keys[n][1] = found[n].score
    BY <1>3, <1>4 DEF SortKeys
  <1> HIDE DEF keys
  <1>6. /\ own \in Seq(ResultSet) /\ Len(own) = Len(found) /\ Len(own) \in Nat /\ DOMAIN own = 1..Len(own)
        /\ \A k \in DOMAIN own : place(k) \in DOMAIN found /\ own[k] = found[place(k)]
        /\ \A n \in DOMAIN found : \E k \in DOMAIN own : place(k) = n
        /\ \A k, m \in DOMAIN own : k < m => keys[place(k)][1] >= keys[place(m)][1]
    <2>1. found \in Seq(ResultSet) /\ keys \in [1..Len(found) -> SortKeys]
      BY <1>3, <1>5
    <2> QED
      BY ONLY <2>1, SortedByFacts, ZenonT(60)
  <1> HIDE DEF own, place
  <1>7. 1 \in DOMAIN own
    <2>1. PICK k \in DOMAIN found : Nth(I, k) = i
      BY <1>1, <1>3
    <2> QED
      BY <1>3, <1>6, <2>1
  <1>8. \A k \in DOMAIN own : own[k].chunk.doc = doc /\ \E n \in DOMAIN list : own[k] = list[n]
    <2>1. ASSUME NEW k \in DOMAIN own
          PROVE  own[k].chunk.doc = doc /\ \E n \in DOMAIN list : own[k] = list[n]
      <3>1. PICK n \in DOMAIN found : own[k] = found[n]
        BY <1>6
      <3>2. PICK j \in I : found[n] = list[j]
        BY <1>3
      <3> QED
        BY <1>1, <3>1, <3>2
    <2> QED
      BY <2>1
  <1>9. ASSUME NEW n \in DOMAIN list, list[n].chunk.doc = doc
        PROVE  \E k \in DOMAIN own : own[k] = list[n]
    <2>1. n \in I
      BY <1>1, <1>9
    <2>2. PICK j \in DOMAIN found : Nth(I, j) = n
      BY <1>3, <2>1
    <2>3. PICK k \in DOMAIN own : place(k) = j
      BY <1>6
    <2>4. own[k] = list[n]
      BY <1>3, <1>6, <2>2, <2>3
    <2> QED
      BY <2>4
  <1>10. ASSUME NEW k \in DOMAIN own PROVE own[k].score <= own[1].score
    <2>1. own[k].score \in Nat /\ own[1].score \in Nat
      BY <1>4, <1>6, <1>7
    <2>2. CASE k = 1
      BY <2>1, <2>2
    <2>3. CASE k # 1
      <3>1. 1 < k
        BY <1>6, <2>3
      <3>2. keys[place(1)][1] >= keys[place(k)][1]
        BY <1>6, <1>7, <3>1
      <3>3. keys[place(1)][1] = own[1].score /\ keys[place(k)][1] = own[k].score
        BY <1>5, <1>6, <1>7
      <3> QED
        BY <2>1, <3>2, <3>3
    <2> QED
      BY <2>2, <2>3
  <1>11. c = [display |-> own[1], context |-> own, overlap |-> Max({Overlap(own[n], ask) : n \in DOMAIN own})]
    BY DEF Candidate, own, keys, found
  <1>12. Max({Overlap(own[n], ask) : n \in DOMAIN own}) \in Nat
    <2>1. f \in [1..Len(own) -> Nat]
      BY OverlapCounts
    <2>2. {Overlap(own[n], ask) : n \in DOMAIN own} = {f[n] : n \in 1..Len(own)}
      BY <1>6
    <2>3. Len(own) > 0
      BY <1>6, <1>7
    <2> HIDE DEF f
    <2>4. Max({f[n] : n \in 1..Len(own)}) \in Nat
      BY <1>6, <2>1, <2>3, MaxFacts
    <2> QED
      BY <2>2, <2>4
  <1>13. own[1] \in ResultSet
    BY <1>6, <1>7, SeqFacts
  <1> HIDE DEF c
  <1>14. c \in CandidateSet
    BY <1>6, <1>11, <1>12, <1>13 DEF CandidateSet
  <1>15. c.display = own[1] /\ c.context = own
    BY <1>11
  <1>16. Stands(c, list, doc)
    <2>1. /\ Len(own) \in Nat /\ DOMAIN own = 1..Len(own) /\ own[1].chunk.doc = doc
          /\ \A k \in DOMAIN own : /\ own[k].chunk.doc = doc /\ own[k].score <= own[1].score
                                   /\ \E n \in DOMAIN list : own[k] = list[n]
      BY <1>6, <1>7, <1>8, <1>10
    <2>2. \A n \in DOMAIN list : list[n].chunk.doc = doc => \E k \in DOMAIN own : own[k] = list[n]
      BY <1>9
    <2> QED
      BY <1>7, <1>15, <2>1, <2>2, Zenon DEF Stands
  <1> QED
    BY <1>14, <1>16 DEF c, doc

\* One candidate per document that has an accepted result; the best first
\* (filter_evidence_candidates).
LEMMA EvidenceFacts ==
    ASSUME NEW list \in Seq(ResultSet), NEW ask \in QuestionSet
    PROVE  LET e == EvidenceCandidates(ask, list)
               accepted == Sublist(list, {i \in DOMAIN list : Accepted(list[i], ask)})
           IN  /\ e \in Seq(CandidateSet) /\ Len(e) \in Nat /\ DOMAIN e = 1..Len(e)
               /\ \A i \in DOMAIN e : Stands(e[i], accepted, e[i].display.chunk.doc)
               /\ \A i, j \in DOMAIN e : e[i].display.chunk.doc = e[j].display.chunk.doc => i = j
               /\ \A i, j \in DOMAIN e : i < j => e[i].display.score >= e[j].display.score
               /\ \A n \in DOMAIN accepted :
                    /\ e # <<>> /\ 1 \in DOMAIN e
                    /\ (\A m \in DOMAIN accepted : accepted[m].chunk.doc # accepted[n].chunk.doc =>
                                                     accepted[m].score < accepted[n].score)
                       => e[1].display.chunk.doc = accepted[n].chunk.doc
  <1> DEFINE I == {i \in DOMAIN list : Accepted(list[i], ask)}
             accepted == Sublist(list, I)
             docs == DedupByDocument(accepted)
             groups == [i \in DOMAIN docs |-> Candidate(accepted, Document(docs[i]), ask)]
             keys == [i \in DOMAIN groups |-> CandidateKey(groups[i])]
             place(k) == SortedPlace(keys, k)
             sorted == SortedBy(keys, groups)
             e == Take(sorted, MaxCandidates)
  <1>1. accepted \in Seq(ResultSet)
    <2>1. I \in SUBSET DOMAIN list
      OBVIOUS
    <2> HIDE DEF I
    <2> QED
      BY <2>1, SublistOf
  <1>2. EvidenceCandidates(ask, list) = e
    BY DEF EvidenceCandidates
  <1> HIDE DEF accepted
  <1>3. /\ docs \in Seq(ResultSet) /\ Len(docs) \in Nat /\ DOMAIN docs = 1..Len(docs) /\ Part(docs, accepted)
        /\ \A i, j \in DOMAIN docs : docs[i].chunk.doc = docs[j].chunk.doc => i = j
        /\ \A i \in DOMAIN accepted : \E k \in DOMAIN docs : docs[k].chunk.doc = accepted[i].chunk.doc
    BY <1>1, DedupFacts
  <1> HIDE DEF docs
  <1>4. ASSUME NEW i \in DOMAIN docs
        PROVE  groups[i] \in CandidateSet /\ Stands(groups[i], accepted, docs[i].chunk.doc)
    <2>1. \A k \in DOMAIN docs : \E n \in DOMAIN accepted : docs[k] = accepted[n]
      BY <1>1, <1>3, PartFacts
    <2>2. PICK n \in DOMAIN accepted : docs[i] = accepted[n]
      BY <2>1
    <2>3. groups[i] = Candidate(accepted, accepted[n].chunk.doc, ask)
      BY <2>2 DEF Document
    <2> HIDE DEF groups
    <2> QED
      BY <1>1, <2>2, <2>3, CandidateFacts
  <1>5. /\ groups \in Seq(CandidateSet) /\ Len(groups) = Len(docs) /\ DOMAIN groups = DOMAIN docs
    <2>1. groups \in [1..Len(docs) -> CandidateSet]
      BY <1>3, <1>4
    <2> HIDE DEF groups
    <2> QED
      BY <1>3, <2>1, SequenceOf
  <1> HIDE DEF groups
  <1>6. \A i \in DOMAIN groups : groups[i].display.score \in Nat /\ groups[i].display.chunk.doc = docs[i].chunk.doc
    BY <1>4, <1>5 DEF CandidateSet, ResultSet, Stands
  <1>7. keys \in [1..Len(groups) -> SortKeys] /\ \A i \in DOMAIN groups : keys[i][1] = groups[i].display.score
    <2>1. ASSUME NEW c \in CandidateSet PROVE CandidateKey(c) \in SortKeys /\ CandidateKey(c)[1] = c.display.score
      <3>1. c.display.score \in Nat /\ c.overlap \in Nat /\ c.display.chunk \in Chunks
        BY DEF CandidateSet, ResultSet
      <3>2. c.display.chunk.crawled \in Int
        BY <3>1, AnsweringAssumption
      <3> QED
        BY <3>1, <3>2 DEF CandidateKey, SortKeys
    <2>2. DOMAIN groups = 1..Len(groups) /\ \A i \in DOMAIN groups : groups[i] \in CandidateSet
      BY <1>5, SeqFacts
    <2> QED
      BY <2>1, <2>2
  <1> HIDE DEF keys
  <1>8. /\ sorted \in Seq(CandidateSet) /\ Len(sorted) = Len(groups) /\ Len(sorted) \in Nat /\ DOMAIN sorted = 1..Len(sorted)
        /\ \A k \in DOMAIN sorted : place(k) \in DOMAIN groups /\ sorted[k] = groups[place(k)]
        /\ \A n \in DOMAIN groups : \E k \in DOMAIN sorted : place(k) = n
        /\ \A k, m \in DOMAIN sorted : k # m => place(k) # place(m)
        /\ \A k, m \in DOMAIN sorted : k < m => keys[place(k)][1] >= keys[place(m)][1]
    <2>1. groups \in Seq(CandidateSet) /\ keys \in [1..Len(groups) -> SortKeys]
      BY <1>5, <1>7
    <2> QED
      BY ONLY <2>1, SortedByFacts
  <1> HIDE DEF sorted, place
  <1>9. MaxCandidates \in Nat /\ MaxCandidates >= 1
    BY RankingAssumption
  <1>10. /\ e \in Seq(CandidateSet) /\ Len(e) \in Nat /\ DOMAIN e = 1..Len(e)
         /\ Len(e) = IF MaxCandidates <= Len(sorted) THEN MaxCandidates ELSE Len(sorted)
         /\ DOMAIN e \subseteq DOMAIN sorted /\ \A k \in DOMAIN e : e[k] = sorted[k]
    BY <1>8, <1>9, TakeFacts
  <1> HIDE DEF e
  <1>11. ASSUME NEW k \in DOMAIN sorted
         PROVE  /\ Stands(sorted[k], accepted, sorted[k].display.chunk.doc)
                /\ sorted[k].display.chunk.doc = docs[place(k)].chunk.doc
                /\ place(k) \in DOMAIN docs
    <2>1. place(k) \in DOMAIN docs /\ sorted[k] = groups[place(k)]
      BY <1>5, <1>8
    <2>2. groups[place(k)].display.chunk.doc = docs[place(k)].chunk.doc
      BY <1>5, <1>6, <2>1
    <2> QED
      BY <1>4, <2>1, <2>2
  <1>12. ASSUME NEW i \in DOMAIN e, NEW j \in DOMAIN e, e[i].display.chunk.doc = e[j].display.chunk.doc
         PROVE  i = j
    <2>1. i \in DOMAIN sorted /\ j \in DOMAIN sorted /\ e[i] = sorted[i] /\ e[j] = sorted[j]
      BY <1>10
    <2>2. place(i) = place(j)
      BY <1>3, <1>11, <1>12, <2>1
    <2> QED
      BY <1>8, <2>1, <2>2
  <1>13. ASSUME NEW i \in DOMAIN sorted, NEW j \in DOMAIN sorted, i < j
         PROVE  sorted[i].display.score >= sorted[j].display.score
    <2>1. keys[place(i)][1] >= keys[place(j)][1]
      BY <1>8, <1>13
    <2>2. keys[place(i)][1] = sorted[i].display.score /\ keys[place(j)][1] = sorted[j].display.score
      BY <1>7, <1>8
    <2> QED
      BY <2>1, <2>2
  <1>14. ASSUME NEW n \in DOMAIN accepted
         PROVE  /\ e # <<>> /\ 1 \in DOMAIN e
                /\ (\A m \in DOMAIN accepted : accepted[m].chunk.doc # accepted[n].chunk.doc =>
                                                 accepted[m].score < accepted[n].score)
                   => e[1].display.chunk.doc = accepted[n].chunk.doc
    <2>1. PICK g \in DOMAIN docs : docs[g].chunk.doc = accepted[n].chunk.doc
      BY <1>3
    <2>2. PICK k \in DOMAIN sorted : place(k) = g
      BY <1>5, <1>8, <2>1
    <2>3. k \in 1..Len(sorted) /\ Len(sorted) >= 1 /\ 1 \in DOMAIN sorted
      BY <1>8, <2>2
    <2>4. 1 \in DOMAIN e /\ e[1] = sorted[1]
      <3>1. Len(e) >= 1
        BY <1>8, <1>9, <1>10, <2>3
      <3> QED
        BY <1>10, <3>1
    <2>5. e # <<>>
      <3>1. DOMAIN <<>> = {}
        OBVIOUS
      <3> QED
        BY <2>4, <3>1
    <2>6. ASSUME \A m \in DOMAIN accepted : accepted[m].chunk.doc # accepted[n].chunk.doc =>
                                              accepted[m].score < accepted[n].score,
                 sorted[1].display.chunk.doc # accepted[n].chunk.doc
          PROVE  FALSE
      <3>1. PICK m \in DOMAIN accepted : sorted[1].display = accepted[m]
        BY <1>11, <2>3 DEF Stands
      <3>2. accepted[m].score < accepted[n].score
        BY <2>6, <3>1
      <3>3. Stands(sorted[k], accepted, accepted[n].chunk.doc)
        <4>1. sorted[k].display.chunk.doc = accepted[n].chunk.doc
          BY <1>11, <2>1, <2>2
        <4> QED
          BY <1>11, <4>1
      <3>4. sorted[k].display.score >= accepted[n].score
        <4>1. PICK x \in DOMAIN sorted[k].context : sorted[k].context[x] = accepted[n]
          BY <3>3 DEF Stands
        <4>2. accepted[n].score <= sorted[k].display.score
          BY <3>3, <4>1 DEF Stands
        <4>3. accepted[n] \in ResultSet /\ sorted[k] \in CandidateSet
          BY <1>1, <1>8, SeqFacts
        <4> QED
          BY <4>2, <4>3 DEF ResultSet, CandidateSet
      <3>5. sorted[1].display.score >= sorted[k].display.score
        <4>1. sorted[1] \in CandidateSet
          BY <1>8, <2>3, SeqFacts
        <4>2. CASE k = 1
          BY <4>1, <4>2 DEF CandidateSet, ResultSet
        <4>3. CASE k # 1
          BY <1>13, <2>3, <4>3
        <4> QED
          BY <4>2, <4>3
      <3>6. /\ accepted[n].score \in Nat /\ accepted[m].score \in Nat
            /\ sorted[k].display.score \in Nat /\ sorted[1].display.score = accepted[m].score
        <4>1. accepted[n] \in ResultSet /\ accepted[m] \in ResultSet /\ sorted[k] \in CandidateSet
          BY <1>1, <1>8, <3>1, SeqFacts
        <4> QED
          BY <3>1, <4>1 DEF ResultSet, CandidateSet
      <3> QED
        BY <3>2, <3>4, <3>5, <3>6
    <2> QED
      BY <2>4, <2>5, <2>6
  <1> QED
    BY <1>2, <1>10, <1>11, <1>12, <1>13, <1>14 DEF accepted

-----------------------------------------------------------------------------
\* The table that follows a heading is new, and has the score of the heading
\* (expand_detail_context).
LEMMA TableFacts ==
    ASSUME NEW list \in Seq(ResultSet), NEW i \in DOMAIN list, NEW seen \in SUBSET Chunks,
           NewTables(list, i, seen) # {}
    PROVE  LET t == Table(list, i, seen)
           IN  /\ t \in ResultSet /\ t.chunk.id \notin Ids(list)
               /\ t.score = list[i].score
               /\ list[i].chunk.heading /\ t.chunk.doc = list[i].chunk.doc /\ list[i].chunk.at < t.chunk.at
               /\ FollowingTables(list, i, Chunks) # {}
  <1> DEFINE T == NewTables(list, i, seen)
             c == CHOOSE x \in T : TRUE
             t == Table(list, i, seen)
             later(S) == {x \in S : /\ x.doc = Document(list[i]) /\ x.table /\ x.long
                                    /\ x.at > list[i].chunk.at}
  <1>1. c \in T /\ t = Result(c, list[i].score, list[i].relevance)
    BY DEF Table
  <1>2. c \in FollowingTables(list, i, seen) /\ \A j \in DOMAIN list : list[j].chunk.id # c.id
    BY <1>1 DEF NewTables
  <1>3. NeedsTable(list, i) /\ c \in later(seen)
    BY <1>2 DEF FollowingTables
  <1>4. list[i] \in ResultSet /\ c \in Chunks
    BY <1>3, SeqFacts
  <1> HIDE DEF c, t
  <1>5. t \in ResultSet /\ t.chunk = c /\ t.score = list[i].score
    BY <1>1, <1>4 DEF Result, ResultSet
  <1>6. c.doc = list[i].chunk.doc /\ c.at > list[i].chunk.at /\ list[i].chunk.heading
    BY <1>3 DEF Document, NeedsTable
  <1>7. c.at \in Nat /\ list[i].chunk.at \in Nat
    BY <1>4, AnsweringAssumption DEF ResultSet
  <1>8. FollowingTables(list, i, Chunks) # {}
    <2> DEFINE L == later(Chunks)
               Ats == {x.at : x \in L}
    <2>1. c \in L
      BY <1>3, <1>4
    <2>2. \A x \in L : x.at \in Nat
      BY AnsweringAssumption
    <2>3. FollowingTables(list, i, Chunks) = {x \in L : \A other \in L : x.at <= other.at}
      BY <1>3 DEF FollowingTables
    <2> HIDE DEF L
    <2>4. PICK least \in Ats : \A other \in Ats : least <= other
      <3>1. Ats \subseteq Nat /\ Ats # {}
        BY <2>1, <2>2
      <3> QED
        BY <3>1, LeastNatural
    <2>5. PICK x \in L : x.at = least
      BY <2>4
    <2>6. \A other \in L : x.at <= other.at
      BY <2>4, <2>5
    <2> QED
      BY <2>3, <2>5, <2>6
  <1>9. t.chunk.id \notin Ids(list)
    BY <1>2, <1>5 DEF Ids
  <1>10. list[i].chunk.at < t.chunk.at
    BY <1>5, <1>6, <1>7
  <1> QED
    BY <1>5, <1>6, <1>8, <1>9, <1>10 DEF t

LEMMA WidenedFacts ==
    ASSUME NEW list \in Seq(ResultSet), NEW seen \in SUBSET Chunks
    PROVE  LET w == Widened(list, seen)
               n == Len(list)
           IN  /\ w \in Seq(ResultSet) /\ Len(w) = 2 * n /\ DOMAIN w = 1..2 * n
               /\ Filled(list, seen) \in SUBSET DOMAIN w
               /\ \A i \in 1..n : 2 * i - 1 \in Filled(list, seen) /\ w[2 * i - 1] = list[i]
               /\ \A k \in Filled(list, seen) : \E i \in 1..n :
                    \/ k = 2 * i - 1
                    \/ k = 2 * i /\ NewTables(list, i, seen) # {} /\ w[k] = Table(list, i, seen)
  <1> DEFINE w == Widened(list, seen)
             n == Len(list)
             F == Filled(list, seen)
             half(k) == (k + 1) \div 2
  <1>1. n \in Nat /\ DOMAIN list = 1..n /\ \A i \in DOMAIN list : list[i] \in ResultSet
    BY SeqFacts
  <1>2. w = [k \in 1..2 * n |->
               IF k % 2 = 0 /\ NewTables(list, half(k), seen) # {} THEN Table(list, half(k), seen)
               ELSE list[half(k)]]
    BY DEF Widened
  <1>3. F = {k \in 1..2 * n : k % 2 = 0 => NewTables(list, half(k), seen) # {}}
    BY DEF Filled
  <1> HIDE DEF w, n, F
  <1>4. \A k \in 1..2 * n : /\ half(k) \in 1..n
                            /\ (k % 2 = 0 => k = 2 * half(k)) /\ (k % 2 # 0 => k = 2 * half(k) - 1)
    BY <1>1
  <1>5. \A i \in 1..n : /\ 2 * i - 1 \in 1..2 * n /\ (2 * i - 1) % 2 # 0 /\ half(2 * i - 1) = i
    BY <1>1
  <1> HIDE DEF half
  <1>6. \A i \in 1..n : NewTables(list, i, seen) # {} => Table(list, i, seen) \in ResultSet
    BY <1>1, TableFacts
  <1>7. \A k \in 1..2 * n : w[k] \in ResultSet
    BY <1>1, <1>2, <1>4, <1>6
  <1>8. w \in [1..2 * n -> ResultSet] /\ 2 * n \in Nat
    BY <1>1, <1>2, <1>7
  <1>9. w \in Seq(ResultSet) /\ Len(w) = 2 * n /\ DOMAIN w = 1..2 * n
    BY <1>8, SequenceOf
  <1>10. \A i \in 1..n : 2 * i - 1 \in F /\ w[2 * i - 1] = list[i]
    BY <1>2, <1>3, <1>5
  <1>11. \A k \in F : \E i \in 1..n : \/ k = 2 * i - 1
                                      \/ k = 2 * i /\ NewTables(list, i, seen) # {} /\ w[k] = Table(list, i, seen)
    <2>1. ASSUME NEW k \in F
          PROVE  \E i \in 1..n : \/ k = 2 * i - 1
                                 \/ k = 2 * i /\ NewTables(list, i, seen) # {} /\ w[k] = Table(list, i, seen)
      <3>1. k \in 1..2 * n /\ half(k) \in 1..n
        BY <1>3, <1>4
      <3>2. CASE k % 2 # 0
        BY <1>4, <3>1, <3>2
      <3>3. CASE k % 2 = 0
        <4>1. NewTables(list, half(k), seen) # {} /\ k = 2 * half(k)
          BY <1>3, <1>4, <3>1, <3>3
        <4>2. w[k] = Table(list, half(k), seen)
          BY <1>2, <3>1, <3>3, <4>1
        <4> QED
          BY <3>1, <4>1, <4>2
      <3> QED
        BY <3>2, <3>3
    <2> QED
      BY <2>1
  <1>12. F \in SUBSET (1..2 * n)
    BY <1>3
  <1> QED
    BY <1>9, <1>10, <1>11, <1>12 DEF w, n, F

\* The list with its tables: every result stays where it was, a table is right
\* behind its heading.
LEMMA WithTablesFacts ==
    ASSUME NEW list \in Seq(ResultSet), NEW seen \in SUBSET Chunks
    PROVE  LET x == WithTables(list, seen)
               p(k) == Nth(Filled(list, seen), k)
           IN  /\ x \in Seq(ResultSet) /\ Len(x) \in Nat /\ DOMAIN x = 1..Len(x)
               /\ Len(x) = Cardinality(Filled(list, seen))
               /\ \A k, m \in DOMAIN x : k < m => p(k) < p(m)
               /\ \A i \in DOMAIN list : \E k \in DOMAIN x : p(k) = 2 * i - 1
               /\ \A k \in DOMAIN x : p(k) \in Nat /\ \E i \in DOMAIN list :
                    \/ p(k) = 2 * i - 1 /\ x[k] = list[i]
                    \/ /\ p(k) = 2 * i /\ NewTables(list, i, seen) # {} /\ x[k] = Table(list, i, seen)
                       /\ k > 1 /\ p(k - 1) = 2 * i - 1 /\ x[k - 1] = list[i]
               /\ list # <<>> => 1 \in DOMAIN x /\ x[1] = list[1]
               /\ Falling(list) => Falling(x)
  <1> DEFINE w == Widened(list, seen)
             n == Len(list)
             F == Filled(list, seen)
             x == WithTables(list, seen)
             p(k) == Nth(F, k)
  <1>1. n \in Nat /\ DOMAIN list = 1..n /\ \A i \in DOMAIN list : list[i] \in ResultSet
    BY SeqFacts
  <1>2. /\ w \in Seq(ResultSet) /\ DOMAIN w = 1..2 * n
        /\ F \in SUBSET DOMAIN w
        /\ \A i \in 1..n : 2 * i - 1 \in F /\ w[2 * i - 1] = list[i]
        /\ \A k \in F : \E i \in 1..n :
             \/ k = 2 * i - 1
             \/ k = 2 * i /\ NewTables(list, i, seen) # {} /\ w[k] = Table(list, i, seen)
    BY WidenedFacts
  <1>3. x = Sublist(w, F)
    BY DEF WithTables
  <1> HIDE DEF w, n, F, x
  <1>4. /\ x \in Seq(ResultSet) /\ Len(x) \in Nat /\ DOMAIN x = 1..Len(x)
        /\ \A k \in DOMAIN x : p(k) \in F /\ x[k] = w[p(k)]
        /\ \A k, m \in DOMAIN x : k < m => p(k) < p(m)
        /\ \A i \in F : \E k \in DOMAIN x : p(k) = i
    <2> DEFINE s == Sublist(w, F)
    <2>1. w \in Seq(ResultSet) /\ F \in SUBSET DOMAIN w
      BY <1>2
    <2>2. /\ s \in Seq(ResultSet) /\ Len(s) \in Nat /\ DOMAIN s = 1..Len(s)
          /\ \A k \in DOMAIN s : p(k) \in F /\ s[k] = w[p(k)]
          /\ \A k, m \in DOMAIN s : k < m => p(k) < p(m)
          /\ \A i \in F : \E k \in DOMAIN s : p(k) = i
      BY ONLY <2>1, SublistOf
    <2>3. x = s
      BY <1>3
    <2> HIDE DEF s, p
    <2> QED
      BY <2>2, <2>3
  <1>5. Len(x) = Cardinality(F)
    <2>1. IsList(w)
      BY <1>2, ListOf
    <2> QED
      BY <1>2, <1>3, <2>1, SublistFacts
  <1> HIDE DEF p
  <1>6. \A k \in DOMAIN x : p(k) \in 1..2 * n
    BY <1>2, <1>4
  <1>7. ASSUME NEW i \in 1..n PROVE \E k \in DOMAIN x : p(k) = 2 * i - 1
    <2>1. 2 * i - 1 \in F
      BY <1>2
    <2> QED
      BY <1>4, <2>1
  <1>8. ASSUME NEW k \in DOMAIN x
        PROVE  \E i \in 1..n :
                    \/ p(k) = 2 * i - 1 /\ x[k] = list[i]
                    \/ /\ p(k) = 2 * i /\ NewTables(list, i, seen) # {} /\ x[k] = Table(list, i, seen)
                       /\ k > 1 /\ p(k - 1) = 2 * i - 1 /\ x[k - 1] = list[i]
    <2>1. p(k) \in F /\ x[k] = w[p(k)]
      BY <1>4
    <2>2. PICK i \in 1..n : \/ p(k) = 2 * i - 1
                            \/ p(k) = 2 * i /\ NewTables(list, i, seen) # {} /\ w[p(k)] = Table(list, i, seen)
      BY <1>2, <2>1
    <2>3. CASE p(k) = 2 * i - 1
      BY <1>2, <2>1, <2>3
    <2>4. CASE p(k) = 2 * i /\ NewTables(list, i, seen) # {} /\ w[p(k)] = Table(list, i, seen)
      <3>1. PICK m \in DOMAIN x : p(m) = 2 * i - 1
        BY <1>7
      <3>2. m \in 1..Len(x) /\ k \in 1..Len(x)
        BY <1>4
      <3>3. m < k
        <4>1. ASSUME k <= m PROVE FALSE
          <5>1. k = m \/ k < m
            BY <3>2, <4>1
          <5>2. p(k) <= p(m)
            BY <1>1, <1>4, <1>6, <5>1
          <5> QED
            BY <1>1, <2>4, <3>1, <5>2
        <4> QED
          BY <3>2, <4>1
      <3>4. m = k - 1
        <4>1. ASSUME m < k - 1 PROVE FALSE
          <5>1. k - 1 \in DOMAIN x /\ m < k - 1 /\ k - 1 < k
            BY <1>4, <3>2, <4>1
          <5>2. p(m) < p(k - 1) /\ p(k - 1) < p(k)
            BY <1>4, <5>1
          <5>3. p(k - 1) \in Int
            BY <1>6, <5>1
          <5> QED
            BY <1>1, <2>4, <3>1, <5>2, <5>3
        <4> QED
          BY <3>2, <3>3, <4>1
      <3>5. x[k - 1] = list[i] /\ p(k - 1) = 2 * i - 1 /\ k > 1
        <4>1. x[m] = w[p(m)] /\ w[2 * i - 1] = list[i]
          BY <1>2, <1>4
        <4> QED
          BY <3>1, <3>2, <3>3, <3>4, <4>1
      <3> QED
        BY <2>1, <2>4, <3>5
    <2> QED
      BY <2>2, <2>3, <2>4
  <1>9. ASSUME list # <<>> PROVE 1 \in DOMAIN x /\ x[1] = list[1]
    <2>1. 1 \in 1..n
      BY <1>1, <1>9, EmptySeq DEF n
    <2>2. PICK k \in DOMAIN x : p(k) = 2 * 1 - 1
      BY <1>7, <2>1
    <2>3. k = 1
      <3>1. ASSUME k # 1 PROVE FALSE
        <4>1. 1 \in DOMAIN x /\ 1 < k
          BY <1>4, <3>1
        <4>2. p(1) < p(k) /\ p(1) \in 1..2 * n
          BY <1>4, <1>6, <4>1
        <4> QED
          BY <2>2, <4>2
      <3> QED
        BY <3>1
    <2>4. x[1] = w[1] /\ w[2 * 1 - 1] = list[1]
      <3>1. x[k] = w[p(k)] /\ w[2 * 1 - 1] = list[1]
        BY <1>2, <1>4, <2>1
      <3> QED
        BY <2>2, <2>3, <3>1
    <2> QED
      BY <2>2, <2>3, <2>4
  <1>10. ASSUME Falling(list) PROVE Falling(x)
    <2>1. ASSUME NEW k \in DOMAIN x, NEW m \in DOMAIN x, k < m PROVE x[k].score >= x[m].score
      <3>1. \A h \in DOMAIN x : \E i \in 1..n : /\ p(h) = 2 * i - 1 \/ p(h) = 2 * i
                                                /\ x[h].score = list[i].score
        <4>1. \A i \in 1..n : NewTables(list, i, seen) # {} => Table(list, i, seen).score = list[i].score
          BY <1>1, TableFacts
        <4> QED
          BY <1>8, <4>1, ZenonT(60)
      <3>2. PICK i \in 1..n : (p(k) = 2 * i - 1 \/ p(k) = 2 * i) /\ x[k].score = list[i].score
        BY <3>1
      <3>3. PICK j \in 1..n : (p(m) = 2 * j - 1 \/ p(m) = 2 * j) /\ x[m].score = list[j].score
        BY <3>1
      <3>4. p(k) < p(m) /\ p(k) \in Int /\ p(m) \in Int
        BY <1>4, <1>6, <2>1
      <3>5. i <= j
        BY <1>1, <3>2, <3>3, <3>4
      <3>6. list[i].score \in Nat /\ list[j].score \in Nat
        BY <1>1 DEF ResultSet
      <3>7. list[i].score >= list[j].score
        BY <1>1, <1>10, <3>5, <3>6 DEF Falling
      <3> QED
        BY <3>2, <3>3, <3>7
    <2> QED
      BY <2>1 DEF Falling
  <1>11. \A i \in DOMAIN list : \E k \in DOMAIN x : p(k) = 2 * i - 1
    BY <1>1, <1>7
  <1>12. \A k \in DOMAIN x : p(k) \in Nat /\ \E i \in DOMAIN list :
           \/ p(k) = 2 * i - 1 /\ x[k] = list[i]
           \/ /\ p(k) = 2 * i /\ NewTables(list, i, seen) # {} /\ x[k] = Table(list, i, seen)
              /\ k > 1 /\ p(k - 1) = 2 * i - 1 /\ x[k - 1] = list[i]
    <2>1. \A k \in DOMAIN x : p(k) \in Nat
      BY <1>1, <1>6
    <2> QED
      BY <1>1, <1>8, <2>1
  <1> QED
    BY <1>4, <1>5, <1>9, <1>10, <1>11, <1>12 DEF x, p, F

\* The expanded list: the results in their order and new tables.
LEMMA ExpandFacts ==
    ASSUME NEW list \in Seq(ResultSet), NEW seen \in SUBSET Chunks, NEW ask
    PROVE  LET y == ExpandDetail(list, ask, seen)
               r == DedupRanked(y)
           IN  /\ y \in Seq(ResultSet)
               /\ r \in Seq(ResultSet) /\ Len(r) \in Nat /\ DOMAIN r = 1..Len(r)
               /\ Falling(list) => Falling(r)
               /\ \A k \in DOMAIN r : \/ \E i \in DOMAIN list : r[k] = list[i]
                                      \/ r[k].chunk.id \notin Ids(list)
               /\ list # <<>> => r # <<>> /\ r[1] = list[1]
  <1> DEFINE x == WithTables(list, seen)
             y == ExpandDetail(list, ask, seen)
             r == DedupRanked(y)
  <1>1. /\ x \in Seq(ResultSet) /\ DOMAIN x = 1..Len(x)
        /\ \A k \in DOMAIN x : \/ \E i \in DOMAIN list : x[k] = list[i]
                               \/ x[k].chunk.id \notin Ids(list)
        /\ list # <<>> => 1 \in DOMAIN x /\ x[1] = list[1]
        /\ Falling(list) => Falling(x)
    <2>1. /\ x \in Seq(ResultSet) /\ DOMAIN x = 1..Len(x)
          /\ \A k \in DOMAIN x : \E i \in DOMAIN list :
               \/ x[k] = list[i]
               \/ NewTables(list, i, seen) # {} /\ x[k] = Table(list, i, seen)
          /\ list # <<>> => 1 \in DOMAIN x /\ x[1] = list[1]
          /\ Falling(list) => Falling(x)
      <3>1. \A k \in DOMAIN x : \E i \in DOMAIN list :
               \/ Nth(Filled(list, seen), k) = 2 * i - 1 /\ x[k] = list[i]
               \/ NewTables(list, i, seen) # {} /\ x[k] = Table(list, i, seen)
        BY WithTablesFacts
      <3>2. /\ x \in Seq(ResultSet) /\ DOMAIN x = 1..Len(x)
            /\ list # <<>> => 1 \in DOMAIN x /\ x[1] = list[1]
            /\ Falling(list) => Falling(x)
        BY WithTablesFacts
      <3> QED
        BY <3>1, <3>2
    <2>2. \A i \in DOMAIN list : NewTables(list, i, seen) # {} => Table(list, i, seen).chunk.id \notin Ids(list)
      BY TableFacts
    <2> HIDE DEF x
    <2> QED
      BY <2>1, <2>2
  <1>2. TopK \in Nat /\ TopK >= 1
    BY RankingAssumption
  <1>3. /\ y \in Seq(ResultSet)
        /\ \A k \in DOMAIN y : \/ \E i \in DOMAIN list : y[k] = list[i]
                               \/ y[k].chunk.id \notin Ids(list)
        /\ list # <<>> => 1 \in DOMAIN y /\ y[1] = list[1]
        /\ Falling(list) => Falling(y)
    <2>1. CASE ~ask.detail
      <3>1. y = list
        BY <2>1 DEF ExpandDetail
      <3>2. Len(list) \in Nat /\ DOMAIN list = 1..Len(list) /\ (list # <<>> => Len(list) # 0)
        BY EmptySeq, SeqFacts
      <3>3. list # <<>> => 1 \in DOMAIN list
        BY <3>2
      <3> QED
        BY <3>1, <3>3
    <2>2. CASE ask.detail
      <3>1. y = Take(x, TopK)
        BY <2>2 DEF ExpandDetail
      <3> HIDE DEF x, y
      <3>2. /\ y \in Seq(ResultSet) /\ Len(y) \in Nat /\ DOMAIN y = 1..Len(y)
            /\ Len(y) = IF TopK <= Len(x) THEN TopK ELSE Len(x)
            /\ DOMAIN y \subseteq DOMAIN x /\ \A k \in DOMAIN y : y[k] = x[k]
        BY <1>1, <1>2, <3>1, TakeFacts
      <3>3. Falling(x) => Falling(y)
        BY <3>2 DEF Falling
      <3>4. Len(x) \in Nat
        BY <1>1, SeqFacts
      <3>5. 1 \in DOMAIN x => 1 \in DOMAIN y
        BY <1>1, <1>2, <3>2, <3>4
      <3>6. \A k \in DOMAIN y : \/ \E i \in DOMAIN list : y[k] = list[i]
                                \/ y[k].chunk.id \notin Ids(list)
        BY <1>1, <3>2
      <3> QED
        BY <1>1, <3>2, <3>3, <3>5, <3>6
    <2> QED
      BY <2>1, <2>2
  <1> HIDE DEF y
  <1>4. /\ r \in Seq(ResultSet) /\ Len(r) \in Nat /\ DOMAIN r = 1..Len(r) /\ Part(r, y)
        /\ y # <<>> => r # <<>> /\ r[1] = y[1]
    BY <1>3, DedupFacts
  <1> HIDE DEF r
  <1>5. /\ \A k \in DOMAIN r : \E i \in DOMAIN y : r[k] = y[i]
        /\ Falling(y) => Falling(r)
    <2> DEFINE n == Len(r)
    <2>1. y \in Seq(ResultSet) /\ n \in Nat /\ DOMAIN r = 1..n /\ Part(r, y)
      BY <1>3, <1>4
    <2> HIDE DEF n
    <2>2. \A k \in DOMAIN r : \E i \in DOMAIN y : r[k] = y[i]
      <3>1. PICK p \in [DOMAIN r -> DOMAIN y] : Picks(p, r, y)
        BY <2>1 DEF Part
      <3>2. \A k \in DOMAIN r : p[k] \in DOMAIN y /\ r[k] = y[p[k]]
        BY <3>1 DEF Picks
      <3> QED
        BY <3>2
    <2>3. Falling(y) => Falling(r)
      BY ONLY <2>1, PartFacts
    <2> QED
      BY <2>2, <2>3
  <1>6. list # <<>> => y # <<>>
    <2>1. DOMAIN <<>> = {}
      OBVIOUS
    <2> QED
      BY <1>3, <2>1
  <1>7. \A k \in DOMAIN r : \/ \E i \in DOMAIN list : r[k] = list[i]
                            \/ r[k].chunk.id \notin Ids(list)
    BY <1>3, <1>5
  <1> QED
    BY <1>3, <1>4, <1>5, <1>6, <1>7 DEF r, y

\* Apart from the document of the best bet, pinning keeps what was found; that
\* document is first, and ahead of all others (apply_best_bets).
LEMMA Prepended ==
    ASSUME NEW S, NEW a \in S, NEW s \in Seq(S)
    PROVE  LET t == <<a>> \o s
           IN  /\ t \in Seq(S) /\ 1 \in DOMAIN t /\ t[1] = a
               /\ \A k \in DOMAIN t : k = 1 \/ \E i \in DOMAIN s : t[k] = s[i]
  <1> DEFINE t == <<a>> \o s
  <1>1. <<a>> \in Seq(S) /\ Len(<<a>>) = 1
    OBVIOUS
  <1>2. Len(s) \in Nat /\ DOMAIN s = 1..Len(s)
    BY SeqFacts
  <1>3. /\ t \in Seq(S) /\ Len(t) = 1 + Len(s)
        /\ \A i \in 1..1 + Len(s) : t[i] = IF i <= 1 THEN <<a>>[i] ELSE s[i - 1]
    BY <1>1, ConcatProperties
  <1>4. DOMAIN t = 1..1 + Len(s)
    BY <1>3, SeqFacts
  <1> HIDE DEF t
  <1>5. \A k \in DOMAIN t : k = 1 \/ \E i \in DOMAIN s : t[k] = s[i]
    <2>1. ASSUME NEW k \in DOMAIN t, k # 1 PROVE k - 1 \in DOMAIN s /\ t[k] = s[k - 1]
      BY <1>2, <1>3, <1>4, <2>1
    <2> QED
      BY <2>1
  <1>6. 1 \in DOMAIN t /\ t[1] = a
    BY <1>2, <1>3, <1>4
  <1> QED
    BY <1>3, <1>5, <1>6 DEF t

LEMMA PinnedFacts ==
    ASSUME NEW found \in Seq(ResultSet), Falling(found), NEW ask, NEW active \in SUBSET Chunks
    PROVE  LET p == Pinned(ask, found, active)
           IN  /\ p \in Seq(ResultSet)
               /\ \A k \in DOMAIN p : p[k].chunk.doc = ask.pin \/ \E i \in DOMAIN found : p[k] = found[i]
               /\ ask.pin \in {c.doc : c \in active} =>
                    /\ 1 \in DOMAIN p /\ p[1].chunk.doc = ask.pin /\ p[1].relevance = 1000
                    /\ \A k \in DOMAIN p : k # 1 => p[k].score < p[1].score
  <1> DEFINE score == One + (IF found = <<>> THEN 0 ELSE found[1].score)
             at == PinnedAt(ask, found)
             opening == Opening(ask, active)
             rest == Sublist(found, DOMAIN found \ {at})
             t == PinTo(ask, found, active)
             p == Take(t, TopK)
  <1>1. Len(found) \in Nat /\ DOMAIN found = 1..Len(found) /\ \A i \in DOMAIN found : found[i] \in ResultSet
    BY SeqFacts
  <1>2. \A i \in DOMAIN found : found[i].score \in Nat /\ found[i].chunk \in Chunks
    BY <1>1 DEF ResultSet
  <1>3. score \in Nat /\ \A i \in DOMAIN found : found[i].score < score
    <2>1. One \in Nat /\ One >= 1
      BY OneIsLarge
    <2>2. ASSUME NEW i \in DOMAIN found
          PROVE  found # <<>> /\ 1 \in DOMAIN found /\ found[i].score <= found[1].score
      <3>1. DOMAIN <<>> = {}
        OBVIOUS
      <3>2. 1 \in DOMAIN found /\ (i = 1 \/ 1 < i)
        BY <1>1
      <3>3. i # 1 => found[1].score >= found[i].score
        BY <3>2 DEF Falling
      <3> QED
        BY <1>2, <3>1, <3>2, <3>3
    <2>3. found # <<>> => 1 \in DOMAIN found
      <3>1. found # <<>> => Len(found) # 0
        BY EmptySeq
      <3> QED
        BY <1>1, <3>1
    <2> QED
      BY <1>2, <2>1, <2>2, <2>3
  <1> HIDE DEF score
  <1>4. at \in 0..Len(found) /\ (at # 0 => at \in DOMAIN found /\ found[at].chunk.doc = ask.pin)
    <2> DEFINE I == {i \in DOMAIN found : found[i].chunk.doc = ask.pin}
    <2>1. I \in SUBSET (1..Len(found)) /\ \A i \in I : i \in DOMAIN found /\ found[i].chunk.doc = ask.pin
      BY <1>1
    <2>2. at = FirstPlace(I)
      BY DEF PinnedAt
    <2> HIDE DEF I, at
    <2>3. at \in 0..Len(found) /\ (at = 0 <=> I = {}) /\ (I # {} => at \in I)
      BY <1>1, <2>1, <2>2, FirstPlaceFacts
    <2> QED
      BY <2>1, <2>3
  <1>5. t = IF at # 0 THEN <<Result(found[at].chunk, score, 1000)>> \o rest
            ELSE IF opening # {} THEN <<Result(CHOOSE c \in opening : TRUE, score, 1000)>> \o found
            ELSE found
    BY DEF PinTo, score
  <1> HIDE DEF at, t
  <1>6. rest \in Seq(ResultSet) /\ \A k \in DOMAIN rest : \E i \in DOMAIN found : rest[k] = found[i]
    <2> DEFINE J == DOMAIN found \ {at}
    <2>1. J \in SUBSET DOMAIN found
      OBVIOUS
    <2> HIDE DEF J
    <2>2. /\ Sublist(found, J) \in Seq(ResultSet)
          /\ \A k \in DOMAIN Sublist(found, J) : Nth(J, k) \in J /\ Sublist(found, J)[k] = found[Nth(J, k)]
      BY <2>1, SublistOf
    <2>3. \A k \in DOMAIN Sublist(found, J) : \E i \in DOMAIN found : Sublist(found, J)[k] = found[i]
      BY <2>1, <2>2
    <2> QED
      BY <2>2, <2>3 DEF J
  <1> HIDE DEF rest
  <1>7. ask.pin \in {c.doc : c \in active} => opening # {}
    <2>1. SUFFICES ASSUME ask.pin \in {c.doc : c \in active} PROVE opening # {}
      OBVIOUS
    <2> DEFINE own == {c \in active : c.doc = ask.pin}
               Ats == {c.at : c \in own}
    <2>2. opening = {c \in own : \A other \in own : c.at <= other.at}
      BY DEF Opening
    <2>3. Ats \subseteq Nat /\ Ats # {}
      <3>1. \A c \in own : c.at \in Nat
        BY AnsweringAssumption
      <3>2. own # {}
        BY <2>1
      <3> QED
        BY <3>1, <3>2
    <2> HIDE DEF own, opening
    <2>4. PICK least \in Ats : \A other \in Ats : least <= other
      BY <2>3, LeastNatural
    <2>5. PICK c \in own : c.at = least
      BY <2>4
    <2>6. c \in opening
      BY <2>2, <2>4, <2>5
    <2> QED
      BY <2>6
  <1>8. \A c \in opening : c \in Chunks /\ c.doc = ask.pin
    BY DEF Opening
  <1> HIDE DEF opening
  <1> DEFINE first(r) == r \in ResultSet /\ r.chunk.doc = ask.pin /\ r.relevance = 1000 /\ r.score = score
  <1>9. \A c \in Chunks : c.doc = ask.pin => first(Result(c, score, 1000))
    BY <1>3 DEF Result, ResultSet
  <1>10. /\ t \in Seq(ResultSet)
         /\ \/ t = found /\ ask.pin \notin {c.doc : c \in active}
            \/ /\ 1 \in DOMAIN t /\ first(t[1])
               /\ \A k \in DOMAIN t : k = 1 \/ \E i \in DOMAIN found : t[k] = found[i]
    <2>1. CASE at # 0
      <3> DEFINE r == Result(found[at].chunk, score, 1000)
      <3>1. first(r) /\ t = <<r>> \o rest
        BY <1>2, <1>4, <1>5, <1>9, <2>1
      <3>2. r \in ResultSet
        BY <3>1
      <3> HIDE DEF r
      <3>3. /\ t \in Seq(ResultSet) /\ 1 \in DOMAIN t /\ t[1] = r
            /\ \A k \in DOMAIN t : k = 1 \/ \E i \in DOMAIN rest : t[k] = rest[i]
        BY <1>6, <3>1, <3>2, Prepended, SMTT(30)
      <3> HIDE DEF first
      <3>4. \A k \in DOMAIN t : k = 1 \/ \E i \in DOMAIN found : t[k] = found[i]
        BY <1>6, <3>3
      <3> QED
        BY <3>1, <3>3, <3>4
    <2>2. CASE at = 0 /\ opening # {}
      <3> DEFINE c == CHOOSE x \in opening : TRUE
                 r == Result(c, score, 1000)
      <3>1. c \in opening /\ t = <<r>> \o found
        BY <1>5, <2>2
      <3> HIDE DEF c
      <3>2. first(r) /\ r \in ResultSet
        BY <1>8, <1>9, <3>1
      <3> HIDE DEF r
      <3>3. /\ t \in Seq(ResultSet) /\ 1 \in DOMAIN t /\ t[1] = r
            /\ \A k \in DOMAIN t : k = 1 \/ \E i \in DOMAIN found : t[k] = found[i]
        BY <3>1, <3>2, Prepended
      <3> HIDE DEF first
      <3> QED
        BY <3>2, <3>3
    <2>3. CASE at = 0 /\ opening = {}
      BY <1>5, <1>7, <2>3
    <2> QED
      BY <2>1, <2>2, <2>3
  <1>11. TopK \in Nat /\ TopK >= 1
    BY RankingAssumption
  <1>12. /\ p \in Seq(ResultSet) /\ DOMAIN p \subseteq DOMAIN t /\ \A k \in DOMAIN p : p[k] = t[k]
         /\ 1 \in DOMAIN t => 1 \in DOMAIN p
    <2>1. /\ p \in Seq(ResultSet) /\ Len(p) \in Nat /\ DOMAIN p = 1..Len(p)
          /\ Len(p) = IF TopK <= Len(t) THEN TopK ELSE Len(t)
          /\ DOMAIN p \subseteq DOMAIN t /\ \A k \in DOMAIN p : p[k] = t[k]
      BY <1>10, <1>11, TakeFacts
    <2>2. Len(t) \in Nat /\ DOMAIN t = 1..Len(t)
      BY <1>10, SeqFacts
    <2> HIDE DEF p
    <2> QED
      BY <1>11, <2>1, <2>2
  <1> HIDE DEF p
  <1>13. CASE ask.pin = NoPin
    <2>1. Pinned(ask, found, active) = found
      BY <1>13 DEF Pinned
    <2>2. ask.pin \notin {c.doc : c \in active}
      BY <1>13, AnsweringAssumption DEF Documents
    <2> QED
      BY <2>1, <2>2
  <1>14. CASE ask.pin # NoPin
    <2>1. Pinned(ask, found, active) = p
      BY <1>14 DEF Pinned, ApplyBestBets, p, t
    <2>2. \A k \in DOMAIN p : p[k].chunk.doc = ask.pin \/ \E i \in DOMAIN found : p[k] = found[i]
      BY <1>10, <1>12
    <2>3. ASSUME ask.pin \in {c.doc : c \in active}
          PROVE  /\ 1 \in DOMAIN p /\ p[1].chunk.doc = ask.pin /\ p[1].relevance = 1000
                 /\ \A k \in DOMAIN p : k # 1 => p[k].score < p[1].score
      <3>1. 1 \in DOMAIN p /\ first(p[1])
        BY <1>10, <1>12, <2>3
      <3>2. ASSUME NEW k \in DOMAIN p, k # 1 PROVE p[k].score < p[1].score
        <4>1. PICK i \in DOMAIN found : p[k] = found[i]
          BY <1>10, <1>12, <2>3, <3>2
        <4> QED
          BY <1>3, <3>1, <4>1
      <3> QED
        BY <3>1, <3>2
    <2> QED
      BY <1>12, <2>1, <2>2, <2>3
  <1> QED
    BY <1>13, <1>14

-----------------------------------------------------------------------------
\* What retrieve_with_status returns.
LEMMA ResultsFacts ==
    ASSUME Path, Ready
    PROVE  /\ results \in Seq(ResultSet)
           /\ \A k \in DOMAIN results :
                \/ results[k].chunk.doc = question.pin
                \/ results[k].chunk.id \notin Ids(merged)
                \/ \E m \in DOMAIN merged : results[k] = merged[m]
           /\ question.pin \in {c.doc : c \in stored} =>
                /\ 1 \in DOMAIN results /\ results[1].chunk.doc = question.pin /\ results[1].relevance = 1000
                /\ \A k \in DOMAIN results : k # 1 => results[k].score < results[1].score
  <1>1. Searched /\ HitList(semantic) /\ HitList(keyword) /\ merged = MergeRanked(semantic, keyword, question)
    BY DEF Path, Ready, Searched
  <1>2. merged \in Seq(ResultSet) /\ Falling(merged)
    BY <1>1, MergeFacts
  <1>3. PICK seen \in SUBSET Chunks, active \in SUBSET Chunks : stored \subseteq active /\ LookedTwice(seen, active)
    BY DEF Path
  <1> DEFINE found == DedupRanked(ExpandDetail(merged, question, seen))
  <1>4. /\ found \in Seq(ResultSet) /\ Falling(found)
        /\ \A k \in DOMAIN found : \/ \E i \in DOMAIN merged : found[k] = merged[i]
                                   \/ found[k].chunk.id \notin Ids(merged)
    BY <1>2, ExpandFacts
  <1>5. results = Pinned(question, found, active)
    BY <1>3 DEF LookedTwice
  <1> HIDE DEF found
  <1>6. /\ results \in Seq(ResultSet)
        /\ \A k \in DOMAIN results : results[k].chunk.doc = question.pin \/ \E i \in DOMAIN found : results[k] = found[i]
        /\ question.pin \in {c.doc : c \in active} =>
             /\ 1 \in DOMAIN results /\ results[1].chunk.doc = question.pin /\ results[1].relevance = 1000
             /\ \A k \in DOMAIN results : k # 1 => results[k].score < results[1].score
    BY <1>4, <1>5, PinnedFacts
  <1>7. question.pin \in {c.doc : c \in stored} => question.pin \in {c.doc : c \in active}
    BY <1>3
  <1>8. ASSUME NEW k \in DOMAIN results
        PROVE  \/ results[k].chunk.doc = question.pin
               \/ results[k].chunk.id \notin Ids(merged)
               \/ \E m \in DOMAIN merged : results[k] = merged[m]
    BY <1>4, <1>6
  <1> QED
    BY <1>6, <1>7, <1>8

LEMMA EvidenceOrdered ==
    ASSUME Path, Ready
    PROVE  EvidenceIsInOrder
  <1> DEFINE I == {i \in DOMAIN results : Accepted(results[i], question)}
             accepted == Sublist(results, I)
  <1>1. /\ results \in Seq(ResultSet) /\ question \in QuestionSet
        /\ candidates = EvidenceCandidates(question, results)
    BY ResultsFacts DEF Path
  <1>2. /\ candidates \in Seq(CandidateSet)
        /\ \A i \in DOMAIN candidates : Stands(candidates[i], accepted, candidates[i].display.chunk.doc)
        /\ \A i, j \in DOMAIN candidates :
             candidates[i].display.chunk.doc = candidates[j].display.chunk.doc => i = j
        /\ \A i, j \in DOMAIN candidates : i < j => candidates[i].display.score >= candidates[j].display.score
        /\ \A n \in DOMAIN accepted :
             /\ candidates # <<>> /\ 1 \in DOMAIN candidates
             /\ (\A m \in DOMAIN accepted : accepted[m].chunk.doc # accepted[n].chunk.doc =>
                                              accepted[m].score < accepted[n].score)
                => candidates[1].display.chunk.doc = accepted[n].chunk.doc
    BY <1>1, EvidenceFacts
  <1>3. /\ \A k \in DOMAIN accepted : \E i \in I : accepted[k] = results[i]
        /\ \A i \in I : \E k \in DOMAIN accepted : accepted[k] = results[i]
    <2>1. I \in SUBSET DOMAIN results
      OBVIOUS
    <2> HIDE DEF I
    <2>2. /\ \A k \in DOMAIN accepted : Nth(I, k) \in I /\ accepted[k] = results[Nth(I, k)]
          /\ \A i \in I : \E k \in DOMAIN accepted : Nth(I, k) = i
      BY <1>1, <2>1, SublistOf, ZenonT(60)
    <2> HIDE DEF accepted
    <2>3. \A i \in I : \E k \in DOMAIN accepted : accepted[k] = results[i]
      BY <2>2
    <2> QED
      BY <2>2, <2>3
  <1>4. \A i \in DOMAIN results : i \in I <=> Accepted(results[i], question)
    OBVIOUS
  <1>5. I \subseteq DOMAIN results
    OBVIOUS
  <1> HIDE DEF I, accepted
  <1>6. PinnedComesFirst
    <2> SUFFICES ASSUME question.pin \in {c.doc : c \in stored}
                 PROVE  candidates # <<>> /\ candidates[1].display.chunk.doc = question.pin
      BY DEF PinnedComesFirst
    <2>1. /\ 1 \in DOMAIN results /\ results[1].chunk.doc = question.pin /\ results[1].relevance = 1000
          /\ \A k \in DOMAIN results : k # 1 => results[k].score < results[1].score
      BY ResultsFacts
    <2>2. 1 \in I
      BY <1>4, <2>1 DEF Accepted, EvidenceMinScore
    <2>3. PICK n \in DOMAIN accepted : accepted[n] = results[1]
      BY <1>3, <2>2
    <2>4. \A m \in DOMAIN accepted : accepted[m].chunk.doc # accepted[n].chunk.doc =>
                                       accepted[m].score < accepted[n].score
      <3>1. ASSUME NEW m \in DOMAIN accepted, accepted[m].chunk.doc # accepted[n].chunk.doc
            PROVE  accepted[m].score < accepted[n].score
        <4>1. PICK i \in I : accepted[m] = results[i]
          BY <1>3
        <4>2. i # 1 /\ i \in DOMAIN results
          BY <1>5, <2>3, <3>1, <4>1
        <4> QED
          BY <2>1, <2>3, <4>1, <4>2
      <3> QED
        BY <3>1
    <2> QED
      BY <1>2, <2>1, <2>3, <2>4
  <1>7. OneCandidatePerDocument
    <2>1. ASSUME NEW i \in DOMAIN candidates
          PROVE  Docs(candidates[i].context) = {candidates[i].display.chunk.doc}
      BY <1>2, <2>1 DEF Docs, Stands
    <2>2. ASSUME NEW i \in DOMAIN candidates, NEW j \in DOMAIN candidates, i < j
          PROVE  /\ candidates[i].display.chunk.doc # candidates[j].display.chunk.doc
                 /\ candidates[i].display.score >= candidates[j].display.score
      <3>1. i \in Nat /\ j \in Nat
        <4>1. DOMAIN candidates = 1..Len(candidates)
          BY <1>2, SeqFacts
        <4> QED
          BY <4>1
      <3>2. i # j
        BY <2>2, <3>1
      <3> QED
        BY <1>2, <2>2, <3>2
    <2> QED
      BY <2>1, <2>2 DEF OneCandidatePerDocument
  <1>8. KeywordsAloneAreNoEvidence
    <2> SUFFICES ASSUME NEW i \in DOMAIN candidates, NEW k \in DOMAIN candidates[i].context,
                        candidates[i].context[k].chunk.id \in Ids(merged) \ Ids(semantic),
                        Overlap(candidates[i].context[k], question) = 0,
                        candidates[i].context[k].chunk.doc # question.pin
                 PROVE  Bm25Weight * Factor(candidates[i].context[k].chunk, question) >= EvidenceMinScore
      BY DEF KeywordsAloneAreNoEvidence
    <2> DEFINE r == candidates[i].context[k]
    <2>1. PICK n \in DOMAIN accepted : r = accepted[n]
      BY <1>2 DEF Stands
    <2>2. PICK x \in I : r = results[x]
      BY <1>3, <2>1
    <2>3. x \in DOMAIN results /\ Accepted(r, question)
      BY <1>4, <1>5, <2>2
    <2> HIDE DEF r
    <2>4. PICK m \in DOMAIN merged : r = merged[m]
      BY <2>2, <2>3, ResultsFacts DEF r
    <2>5. /\ HitList(semantic) /\ HitList(keyword) /\ merged = MergeRanked(semantic, keyword, question)
      BY DEF Path, Ready, Searched
    <2>6. /\ \A j \in DOMAIN merged : /\ merged[j].chunk \in Chunks
                                      /\ merged[j] = Fused(merged[j].chunk, semantic, keyword, question)
      BY <2>5, MergeFacts
    <2> DEFINE c == r.chunk
               f == Factor(c, question)
    <2>7. c \in Chunks /\ r = Fused(c, semantic, keyword, question)
      BY <2>4, <2>6
    <2>8. Rank(c, semantic) = 0
      BY <2>5, <2>7, ListedIsRanked DEF r
    <2>9. r \in ResultSet /\ r.relevance * 100 <= 100 * Bm25Weight * f
      BY <2>5, <2>7, <2>8, FusedFacts
    <2>10. r.relevance >= 350
      BY <2>3 DEF Accepted, EvidenceMinScore, r
    <2>11. f \in 70..140 /\ Bm25Weight \in 0..10
      BY FactorBounds, RankingAssumption
    <2> DEFINE g == Bm25Weight * f
               v == r.relevance
    <2>12. g \in Nat /\ v \in Nat /\ v * 100 <= 100 * g /\ v >= 350
      <3>1. v \in Nat
        BY <2>9 DEF ResultSet
      <3> HIDE DEF f, v
      <3>2. g \in Nat /\ 100 * Bm25Weight * f = 100 * g
        BY <2>11
      <3> HIDE DEF g
      <3> QED
        BY <2>9, <2>10, <3>1, <3>2 DEF v
    <2> HIDE DEF v, g
    <2>13. g >= 350
      BY <2>12
    <2> QED
      BY <2>13 DEF EvidenceMinScore, g, r
  <1> QED
    BY <1>6, <1>7, <1>8 DEF EvidenceIsInOrder

\* Evidence is in order: the best bet first, one candidate per document, none
\* found by keywords alone (apply_best_bets, filter_evidence_candidates,
\* _is_accepted_evidence).
THEOREM EvidenceHolds == AnsweringSpec => []EvidenceIsInOrder
  <1>1. Path => EvidenceIsInOrder
    <2> SUFFICES ASSUME Path PROVE EvidenceIsInOrder
      OBVIOUS
    <2>1. CASE Ready
      BY <2>1, EvidenceOrdered
    <2>2. CASE ~Ready
      <3>1. candidates = <<>> /\ DOMAIN <<>> = {}
        BY <2>2 DEF Path
      <3>2. DOMAIN candidates = {}
        BY <3>1
      <3> QED
        BY <2>2, <3>2 DEF EvidenceIsInOrder, PinnedComesFirst, OneCandidatePerDocument, KeywordsAloneAreNoEvidence
    <2> QED
      BY <2>1, <2>2
  <1> QED
    BY <1>1, PathHolds, PTL

-----------------------------------------------------------------------------
\* A list without repetition is its own deduplication.
LEMMA WholeSublist ==
    ASSUME NEW S, NEW list \in Seq(S)
    PROVE  Sublist(list, DOMAIN list) = list
  <1> DEFINE n == Len(list)
  <1>1. n \in Nat /\ DOMAIN list = 1..n /\ list = [i \in 1..n |-> list[i]]
    BY LenProperties
  <1> HIDE DEF n
  <1>2. IsFiniteSet(1..n) /\ Cardinality(1..n) = n
    BY <1>1, PlacesCounted
  <1>3. \A i \in 1..n : Cardinality(UpTo(1..n, i)) = i
    <2>1. ASSUME NEW i \in 1..n PROVE Cardinality(UpTo(1..n, i)) = i
      <3>1. UpTo(1..n, i) = 1..i
        BY <1>1 DEF UpTo
      <3>2. Cardinality(1..i) = i
        <4>1. i \in Nat
          OBVIOUS
        <4> QED
          BY <4>1, PlacesCounted
      <3> QED
        BY <3>1, <3>2
    <2> QED
      BY <2>1
  <1>4. \A k \in 1..n : Nth(1..n, k) = k
    <2>1. ASSUME NEW k \in 1..n PROVE Nth(1..n, k) = k
      <3>1. Cardinality(UpTo(1..n, k)) = k
        BY <1>3
      <3>2. Nth(1..n, k) \in 1..n /\ Cardinality(UpTo(1..n, Nth(1..n, k))) = k
        BY <3>1 DEF Nth
      <3> QED
        BY <1>3, <3>2
    <2> QED
      BY <2>1
  <1>5. Sublist(list, 1..n) = [k \in 1..n |-> list[k]]
    BY <1>2, <1>4 DEF Sublist
  <1> QED
    BY <1>1, <1>5

LEMMA NothingToDrop ==
    ASSUME NEW S, NEW list \in Seq(S), \A i, j \in DOMAIN list : list[i] = list[j] => i = j
    PROVE  FirstOfEach(list, list) = list
  <1>1. Len(list) \in Nat /\ DOMAIN list = 1..Len(list)
    BY SeqFacts
  <1>2. Firsts(list) = DOMAIN list
    <2>1. ASSUME NEW i \in DOMAIN list, NEW j \in DOMAIN list, j < i PROVE list[j] # list[i]
      <3>1. j # i
        BY <1>1, <2>1
      <3> QED
        BY <3>1
    <2> QED
      BY <2>1 DEF Firsts
  <1> QED
    BY <1>2, WholeSublist DEF FirstOfEach

\* The valid numbers of a draft, each once (validate_used_source_numbers).
LEMMA UsedFacts ==
    ASSUME NEW written \in Drafts, NEW count \in Nat
    PROVE  LET used == UsedNumbers(written, count)
           IN  /\ used \in Seq(1..count) /\ Len(used) \in Nat /\ DOMAIN used = 1..Len(used)
               /\ \A i, j \in DOMAIN used : used[i] = used[j] => i = j
               /\ written.answerability # "insufficient" =>
                    {used[i] : i \in DOMAIN used} =
                    {written.numbers[i] : i \in DOMAIN written.numbers} \cap 1..count
               /\ written.answerability = "insufficient" => used = <<>>
  <1> DEFINE numbers == written.numbers
             I == {i \in DOMAIN numbers : numbers[i] \in 1..count}
             inRange == Sublist(numbers, I)
             used == UsedNumbers(written, count)
             p(k) == Nth(Firsts(inRange), k)
  <1>1. CASE written.answerability = "insufficient"
    <2>1. used = <<>>
      BY <1>1 DEF UsedNumbers
    <2>2. <<>> \in Seq(1..count) /\ Len(<<>>) = 0 /\ DOMAIN <<>> = {}
      BY EmptySeq
    <2> QED
      BY <1>1, <2>1, <2>2
  <1>2. CASE written.answerability # "insufficient"
    <2>1. numbers \in Seq(Int)
      BY AnsweringAssumption
    <2>2. /\ I \in SUBSET DOMAIN numbers /\ \A i \in I : numbers[i] \in 1..count
          /\ \A i \in DOMAIN numbers : numbers[i] \in 1..count => i \in I
      OBVIOUS
    <2>3. used = FirstOfEach(inRange, inRange)
      BY <1>2 DEF UsedNumbers
    <2> HIDE DEF numbers, I, used
    <2>4. /\ Len(inRange) \in Nat /\ DOMAIN inRange = 1..Len(inRange)
          /\ \A k \in DOMAIN inRange : Nth(I, k) \in I /\ inRange[k] = numbers[Nth(I, k)]
          /\ \A i \in I : \E k \in DOMAIN inRange : Nth(I, k) = i
          /\ inRange \in Seq(Int)
      BY <2>1, <2>2, SublistOf
    <2> HIDE DEF inRange
    <2>5. \A k \in DOMAIN inRange : inRange[k] \in 1..count
      BY <2>2, <2>4
    <2>6. inRange \in Seq(1..count)
      <3>1. inRange = [k \in 1..Len(inRange) |-> inRange[k]]
        BY <2>4, LenProperties
      <3>2. inRange \in [1..Len(inRange) -> 1..count]
        BY <2>4, <2>5, <3>1
      <3> QED
        BY <2>4, <3>2, SequenceOf
    <2>7. /\ used \in Seq(1..count) /\ Len(used) \in Nat /\ DOMAIN used = 1..Len(used)
          /\ \A k \in DOMAIN used : p(k) \in DOMAIN inRange /\ used[k] = inRange[p(k)]
          /\ \A k, m \in DOMAIN used : inRange[p(k)] = inRange[p(m)] => k = m
          /\ \A i \in DOMAIN inRange : \E k \in DOMAIN used : p(k) <= i /\ inRange[p(k)] = inRange[i]
      <3> DEFINE s == FirstOfEach(inRange, inRange)
      <3>1. /\ s \in Seq(1..count) /\ Len(s) \in Nat /\ DOMAIN s = 1..Len(s)
            /\ \A k \in DOMAIN s : p(k) \in DOMAIN inRange /\ s[k] = inRange[p(k)]
            /\ \A k, m \in DOMAIN s : inRange[p(k)] = inRange[p(m)] => k = m
            /\ \A i \in DOMAIN inRange : \E k \in DOMAIN s : p(k) <= i /\ inRange[p(k)] = inRange[i]
        BY <2>6, FirstOfEachFacts
      <3> HIDE DEF s, p
      <3>2. used = s
        BY <2>3 DEF s
      <3> QED
        BY <3>1, <3>2
    <2> HIDE DEF p
    <2>8. \A i, j \in DOMAIN used : used[i] = used[j] => i = j
      BY <2>7
    <2>9. ASSUME NEW n \in {used[i] : i \in DOMAIN used}
          PROVE  n \in {numbers[i] : i \in DOMAIN numbers} \cap 1..count
      <3>1. PICK i \in DOMAIN used : n = used[i]
        OBVIOUS
      <3>2. PICK k \in DOMAIN inRange : n = inRange[k]
        BY <2>7, <3>1
      <3>3. PICK j \in I : n = numbers[j]
        BY <2>4, <3>2
      <3> QED
        BY <2>2, <3>3
    <2>10. ASSUME NEW i \in DOMAIN numbers, numbers[i] \in 1..count
           PROVE  numbers[i] \in {used[k] : k \in DOMAIN used}
      <3>1. PICK k \in DOMAIN inRange : Nth(I, k) = i
        BY <2>2, <2>4, <2>10
      <3>2. inRange[k] = numbers[i]
        BY <2>4, <3>1
      <3>3. PICK m \in DOMAIN used : inRange[p(m)] = inRange[k]
        BY <2>7
      <3>4. used[m] = numbers[i]
        BY <2>7, <3>2, <3>3
      <3> QED
        BY <3>4
    <2>11. {used[i] : i \in DOMAIN used} = {numbers[i] : i \in DOMAIN numbers} \cap 1..count
      BY <2>9, <2>10
    <2> QED
      BY <1>2, <2>7, <2>8, <2>11 DEF used, numbers
  <1> QED
    BY <1>1, <1>2

\* An answer is assembled from the candidates its draft names, and the log
\* finds their numbers again (assemble_chat_response,
\* _used_source_numbers_for_log).
LEMMA AssembledFacts ==
    ASSUME Path, Ready, NEW written \in Drafts
    PROVE  LET used == UsedNumbers(written, Len(candidates))
               answer == Assemble(written, candidates)
           IN  /\ answer.answerability = "insufficient" => answer.sources = <<>> /\ ~answer.steps /\ ~answer.notes
               /\ answer.answerability \in {"answerable", "partial"} =>
                    /\ DOMAIN answer.sources # {} /\ written.answerability = answer.answerability
                    /\ {answer.sources[i] : i \in DOMAIN answer.sources} =
                       {candidates[n].display.chunk.id :
                          n \in {written.numbers[i] : i \in DOMAIN written.numbers} \cap DOMAIN candidates}
               /\ UsedNumbersForLog(results, answer) = used
  <1> DEFINE used == UsedNumbers(written, Len(candidates))
             answer == Assemble(written, candidates)
             shown == [i \in DOMAIN used |-> candidates[used[i]].display.chunk.id]
             place(id) == FirstPlace({i \in DOMAIN candidates : candidates[i].display.chunk.id = id})
             places == [i \in DOMAIN answer.sources |-> place(answer.sources[i])]
             numbers == Sublist(places, {i \in DOMAIN places : places[i] # 0})
  <1>1. /\ results \in Seq(ResultSet) /\ question \in QuestionSet
        /\ candidates = EvidenceCandidates(question, results)
    BY ResultsFacts DEF Path
  <1>2. /\ candidates \in Seq(CandidateSet) /\ Len(candidates) \in Nat /\ DOMAIN candidates = 1..Len(candidates)
        /\ \A i, j \in DOMAIN candidates :
             candidates[i].display.chunk.doc = candidates[j].display.chunk.doc => i = j
    BY <1>1, EvidenceFacts
  <1>3. \A i \in DOMAIN candidates : candidates[i].display.chunk \in Chunks
    <2>1. \A i \in DOMAIN candidates : candidates[i] \in CandidateSet
      BY <1>2, SeqFacts
    <2> QED
      BY <2>1 DEF CandidateSet, ResultSet
  <1>4. \A i, j \in DOMAIN candidates :
          candidates[i].display.chunk.id = candidates[j].display.chunk.id => i = j
    BY <1>2, <1>3, AnsweringAssumption
  <1>5. /\ used \in Seq(1..Len(candidates)) /\ Len(used) \in Nat /\ DOMAIN used = 1..Len(used)
        /\ \A i, j \in DOMAIN used : used[i] = used[j] => i = j
        /\ written.answerability # "insufficient" =>
             {used[i] : i \in DOMAIN used} =
             {written.numbers[i] : i \in DOMAIN written.numbers} \cap 1..Len(candidates)
        /\ written.answerability = "insufficient" => used = <<>>
    BY <1>2, UsedFacts
  <1>6. answer = IF used = <<>> THEN Insufficient
                 ELSE [answerability |-> written.answerability, sources |-> shown,
                       steps |-> written.steps, notes |-> written.notes]
    BY DEF Assemble
  <1>7. UsedNumbersForLog(results, answer) =
          IF answer.answerability = "insufficient" THEN <<>> ELSE FirstOfEach(numbers, numbers)
    BY <1>1 DEF UsedNumbersForLog
  <1> HIDE DEF used, answer
  <1>8. \A i \in DOMAIN used : used[i] \in DOMAIN candidates
    BY <1>2, <1>5, SeqFacts
  <1>9. CASE used = <<>>
    <2>1. answer = Insufficient
      BY <1>6, <1>9
    <2>2. answer.answerability = "insufficient" /\ answer.sources = <<>> /\ ~answer.steps /\ ~answer.notes
      BY <2>1 DEF Insufficient
    <2>3. UsedNumbersForLog(results, answer) = used
      BY <1>7, <1>9, <2>2
    <2> QED
      BY <2>2, <2>3 DEF used, answer
  <1>10. CASE used # <<>>
    <2>1. /\ written.answerability # "insufficient"
          /\ answer.answerability = written.answerability /\ answer.sources = shown
      BY <1>5, <1>6, <1>10
    <2>2. DOMAIN shown = DOMAIN used /\ DOMAIN used # {}
      <3>1. Len(used) # 0
        BY <1>5, <1>10, EmptySeq
      <3>2. 1 \in DOMAIN used
        BY <1>5, <3>1
      <3> QED
        BY <3>2
    <2>3. {shown[i] : i \in DOMAIN shown} =
          {candidates[n].display.chunk.id :
             n \in {written.numbers[i] : i \in DOMAIN written.numbers} \cap DOMAIN candidates}
      <3> DEFINE U == {used[i] : i \in DOMAIN used}
      <3>1. U = {written.numbers[i] : i \in DOMAIN written.numbers} \cap DOMAIN candidates
        BY <1>2, <1>5, <2>1
      <3>2. {shown[i] : i \in DOMAIN shown} = {candidates[n].display.chunk.id : n \in U}
        OBVIOUS
      <3> QED
        BY <3>1, <3>2
    <2>4. \A i \in DOMAIN used : place(shown[i]) = used[i]
      <3>1. ASSUME NEW i \in DOMAIN used PROVE place(shown[i]) = used[i]
        <4> DEFINE J == {j \in DOMAIN candidates : candidates[j].display.chunk.id = shown[i]}
                   n == used[i]
        <4>1. n \in DOMAIN candidates /\ shown[i] = candidates[n].display.chunk.id
          BY <1>8
        <4>2. J = {n}
          BY <1>4, <4>1
        <4>3. J \in SUBSET (1..Len(candidates)) /\ J # {}
          BY <1>2, <4>2
        <4>4. FirstPlace(J) \in J
          BY <1>2, <4>3, FirstPlaceFacts
        <4> QED
          BY <4>2, <4>4
      <3> QED
        BY <3>1
    <2>5. places = used
      <3>1. DOMAIN places = DOMAIN used /\ \A i \in DOMAIN used : places[i] = used[i]
        BY <2>1, <2>2, <2>4
      <3>2. places = [i \in DOMAIN places |-> places[i]] /\ used = [i \in DOMAIN used |-> used[i]]
        BY <1>5, LenProperties
      <3> HIDE DEF places
      <3> QED
        BY <3>1, <3>2
    <2>6. numbers = used
      <3>1. {i \in DOMAIN used : used[i] # 0} = DOMAIN used
        <4>1. \A n \in 1..Len(candidates) : n # 0
          OBVIOUS
        <4>2. \A i \in DOMAIN used : used[i] # 0
          BY <1>2, <1>8, <4>1
        <4> QED
          BY <4>2
      <3>2. numbers = Sublist(used, {i \in DOMAIN used : used[i] # 0})
        BY <2>5
      <3> QED
        BY <1>5, <3>1, <3>2, WholeSublist
    <2>7. UsedNumbersForLog(results, answer) = used
      <3>1. FirstOfEach(used, used) = used
        BY <1>5, NothingToDrop
      <3> HIDE DEF numbers
      <3> QED
        BY <1>7, <2>1, <2>6, <3>1
    <2> HIDE DEF shown
    <2> QED
      BY <2>1, <2>2, <2>3, <2>7 DEF used, answer
  <1> QED
    BY <1>9, <1>10

\* An answer rests on the candidates its draft names, on the screen and in the
\* log (assemble_chat_response, _used_source_numbers_for_log).
THEOREM AnswersHold == AnsweringSpec => []AnswerRestsOnEvidence
  <1>1. Path => AnswerRestsOnEvidence
    <2> SUFFICES ASSUME Path PROVE AnswerRestsOnEvidence
      OBVIOUS
    <2>1. CASE response = NoResponse
      BY <2>1 DEF AnswerRestsOnEvidence, SourcesAreNamed, LoggedNumbersAreTheDrafts, NoResponse
    <2>2. CASE draft = NoDraft /\ response = Insufficient
      BY <2>2 DEF AnswerRestsOnEvidence, SourcesAreNamed, LoggedNumbersAreTheDrafts, Insufficient
    <2>3. CASE stage = "answered" /\ draft \in Drafts /\ response = Assemble(draft, candidates)
      <3>1. Ready
        BY <2>3 DEF Ready
      <3>2. /\ response.answerability = "insufficient" =>
                 response.sources = <<>> /\ ~response.steps /\ ~response.notes
            /\ response.answerability \in {"answerable", "partial"} =>
                 /\ DOMAIN response.sources # {} /\ draft.answerability = response.answerability
                 /\ {response.sources[i] : i \in DOMAIN response.sources} =
                    {candidates[n].display.chunk.id :
                       n \in {draft.numbers[i] : i \in DOMAIN draft.numbers} \cap DOMAIN candidates}
            /\ UsedNumbersForLog(results, response) = UsedNumbers(draft, Len(candidates))
        BY <2>3, <3>1, AssembledFacts
      <3>3. DOMAIN response.sources # {} => {response.sources[i] : i \in DOMAIN response.sources} # {}
        OBVIOUS
      <3>4. response.sources = <<>> => {response.sources[i] : i \in DOMAIN response.sources} = {}
        OBVIOUS
      <3>5. SourcesAreNamed
        BY <3>2, <3>3, <3>4 DEF SourcesAreNamed
      <3>6. LoggedNumbersAreTheDrafts
        BY <3>2 DEF LoggedNumbersAreTheDrafts
      <3> QED
        BY <3>5, <3>6 DEF AnswerRestsOnEvidence
    <2> QED
      BY <2>1, <2>2, <2>3 DEF Path
  <1> QED
    BY <1>1, PathHolds, PTL

-----------------------------------------------------------------------------
\* The values of a function on a finite set.
LEMMA ImageCounted ==
    ASSUME NEW S, IsFiniteSet(S), NEW f, DOMAIN f = S
    PROVE  IsFiniteSet({f[i] : i \in S}) /\ Cardinality({f[i] : i \in S}) <= Cardinality(S)
  <1> DEFINE g == [i \in S |-> f[i]]
             U == {f[i] : i \in S}
  <1>1. g \in Surjection(S, U)
    BY DEF Surjection
  <1> QED
    BY <1>1, FS_Surjection

\* The places of the results that are tables.
LEMMA PlacesOfTables ==
    ASSUME NEW list \in Seq(ResultSet), NEW seen \in SUBSET Chunks
    PROVE  LET T == {i \in DOMAIN list : NewTables(list, i, seen) # {}}
           IN  /\ IsFiniteSet(T) /\ Cardinality(T) \in Nat
               /\ Len(WithTables(list, seen)) <= Len(list) + Cardinality(T)
  <1> DEFINE T == {i \in DOMAIN list : NewTables(list, i, seen) # {}}
             n == Len(list)
             F == Filled(list, seen)
             odd == {2 * i - 1 : i \in 1..n}
             even == {2 * i : i \in T}
  <1>1. n \in Nat /\ DOMAIN list = 1..n
    BY SeqFacts
  <1>2. /\ F \in SUBSET (1..2 * n)
        /\ \A k \in F : \E i \in 1..n : k = 2 * i - 1 \/ (k = 2 * i /\ NewTables(list, i, seen) # {})
    <2>1. F \in SUBSET DOMAIN Widened(list, seen) /\ DOMAIN Widened(list, seen) = 1..2 * n
          /\ \A k \in F : \E i \in 1..n :
               \/ k = 2 * i - 1
               \/ k = 2 * i /\ NewTables(list, i, seen) # {} /\ Widened(list, seen)[k] = Table(list, i, seen)
      BY WidenedFacts
    <2> QED
      BY <2>1
  <1>3. Len(WithTables(list, seen)) = Cardinality(F)
    BY WithTablesFacts
  <1> HIDE DEF n, F
  <1>4. IsFiniteSet(1..n) /\ Cardinality(1..n) = n
    BY <1>1, PlacesCounted
  <1>5. T \in SUBSET (1..n) /\ \A i \in 1..n : NewTables(list, i, seen) # {} => i \in T
    BY <1>1
  <1> HIDE DEF T
  <1>6. IsFiniteSet(T) /\ Cardinality(T) \in Nat
    BY <1>4, <1>5, FS_Subset, FS_CardinalityType
  <1>7. IsFiniteSet(odd) /\ Cardinality(odd) <= n
    <2> DEFINE f == [i \in 1..n |-> 2 * i - 1]
    <2>1. odd = {f[i] : i \in 1..n} /\ DOMAIN f = 1..n
      OBVIOUS
    <2> HIDE DEF odd, f
    <2> QED
      BY <1>4, <2>1, ImageCounted
  <1>8. IsFiniteSet(even) /\ Cardinality(even) <= Cardinality(T)
    <2> DEFINE f == [i \in T |-> 2 * i]
    <2>1. even = {f[i] : i \in T} /\ DOMAIN f = T
      OBVIOUS
    <2> HIDE DEF even, f
    <2> QED
      BY <1>6, <2>1, ImageCounted
  <1>9. F \in SUBSET (odd \cup even)
    BY <1>2, <1>5
  <1> HIDE DEF odd, even
  <1>10. /\ IsFiniteSet(odd \cup even)
         /\ Cardinality(odd \cup even) = Cardinality(odd) + Cardinality(even) - Cardinality(odd \cap even)
    BY <1>7, <1>8, FS_Union
  <1>11. Cardinality(odd \cap even) \in Nat /\ Cardinality(odd) \in Nat /\ Cardinality(even) \in Nat
    <2>1. odd \cap even \in SUBSET odd
      OBVIOUS
    <2>2. IsFiniteSet(odd \cap even)
      BY <1>7, <2>1, FS_Subset
    <2> QED
      BY <1>7, <1>8, <2>2, FS_CardinalityType
  <1>12. IsFiniteSet(F) /\ Cardinality(F) <= Cardinality(odd \cup even)
    BY <1>9, <1>10, FS_Subset
  <1>13. Cardinality(F) \in Nat
    BY <1>12, FS_CardinalityType
  <1>14. Cardinality(F) <= n + Cardinality(T)
    BY <1>1, <1>6, <1>7, <1>8, <1>10, <1>11, <1>12, <1>13
  <1> QED
    BY <1>3, <1>6, <1>14 DEF n, T

\* Two covers bound a set.
LEMMA Covered ==
    ASSUME NEW A, IsFiniteSet(A), NEW B, IsFiniteSet(B), NEW L \in SUBSET (A \cup B),
           NEW a \in Nat, Cardinality(A) <= a, NEW b \in Nat, Cardinality(B) <= b
    PROVE  Cardinality(L) \in Nat /\ Cardinality(L) <= a + b
  <1>1. /\ IsFiniteSet(A \cup B)
        /\ Cardinality(A \cup B) = Cardinality(A) + Cardinality(B) - Cardinality(A \cap B)
    BY FS_Union
  <1>2. A \cap B \in SUBSET A
    OBVIOUS
  <1>3. IsFiniteSet(A \cap B)
    BY <1>2, FS_Subset
  <1>4. Cardinality(A) \in Nat /\ Cardinality(B) \in Nat /\ Cardinality(A \cap B) \in Nat
    BY <1>3, FS_CardinalityType
  <1>5. IsFiniteSet(L) /\ Cardinality(L) <= Cardinality(A \cup B)
    BY <1>1, FS_Subset
  <1>6. Cardinality(L) \in Nat
    BY <1>5, FS_CardinalityType
  <1> QED
    BY <1>1, <1>4, <1>5, <1>6

\* Tables follow their headings (expand_detail_context); merged has no text
\* twice and no more than final_top_k results.
LEMMA TablesFollow ==
    ASSUME merged \in Seq(ResultSet), Len(merged) <= TopK,
           \A i, j \in DOMAIN merged : merged[i].chunk.text = merged[j].chunk.text => i = j,
           NEW seen \in SUBSET Chunks, Looked(seen)
    PROVE  TablesFollowTheirHeadings
  <1> DEFINE x == WithTables(merged, seen)
             p(k) == Nth(Filled(merged, seen), k)
             y == ExpandDetail(merged, question, seen)
             texts == [i \in DOMAIN y |-> Text(y[i])]
             q(k) == Nth(Firsts(texts), k)
             n == Len(merged)
             T == {i \in DOMAIN merged : NewTables(merged, i, seen) # {}}
  <1>1. n \in Nat /\ DOMAIN merged = 1..n /\ TopK \in Nat /\ TopK >= 1 /\ n <= TopK
    BY SeqFacts, RankingAssumption
  <1>2. merged # <<>> => results # <<>> /\ results[1] = merged[1]
    BY ExpandFacts DEF Looked
  <1>3. /\ x \in Seq(ResultSet) /\ Len(x) \in Nat /\ DOMAIN x = 1..Len(x)
        /\ \A k, m \in DOMAIN x : k < m => p(k) < p(m)
        /\ \A i \in DOMAIN merged : \E k \in DOMAIN x : p(k) = 2 * i - 1
        /\ \A k \in DOMAIN x : p(k) \in Nat /\ \E i \in DOMAIN merged :
             \/ p(k) = 2 * i - 1 /\ x[k] = merged[i]
             \/ /\ p(k) = 2 * i /\ NewTables(merged, i, seen) # {} /\ x[k] = Table(merged, i, seen)
                /\ k > 1 /\ p(k - 1) = 2 * i - 1 /\ x[k - 1] = merged[i]
    <2>1. /\ x \in Seq(ResultSet) /\ Len(x) \in Nat /\ DOMAIN x = 1..Len(x)
          /\ \A k, m \in DOMAIN x : k < m => p(k) < p(m)
          /\ \A i \in DOMAIN merged : \E k \in DOMAIN x : p(k) = 2 * i - 1
      BY WithTablesFacts
    <2>2. \A k \in DOMAIN x : p(k) \in Nat /\ \E i \in DOMAIN merged :
             \/ p(k) = 2 * i - 1 /\ x[k] = merged[i]
             \/ /\ p(k) = 2 * i /\ NewTables(merged, i, seen) # {} /\ x[k] = Table(merged, i, seen)
                /\ k > 1 /\ p(k - 1) = 2 * i - 1 /\ x[k - 1] = merged[i]
      BY WithTablesFacts
    <2> QED
      BY <2>1, <2>2
  <1>4. \A i \in T : /\ Table(merged, i, seen).chunk.id \notin Ids(merged)
                     /\ Table(merged, i, seen).score = merged[i].score
                     /\ merged[i].chunk.heading /\ Table(merged, i, seen).chunk.doc = merged[i].chunk.doc
                     /\ merged[i].chunk.at < Table(merged, i, seen).chunk.at
                     /\ FollowingTables(merged, i, Chunks) # {}
    BY TableFacts
  <1>5. IsFiniteSet(T) /\ Cardinality(T) \in Nat /\ Len(x) <= n + Cardinality(T)
    BY PlacesOfTables
  <1>6. T \in SUBSET Extended
    BY <1>4 DEF Extended
  <1>7. T \subseteq DOMAIN merged /\ \A i \in DOMAIN merged : NewTables(merged, i, seen) # {} => i \in T
    OBVIOUS
  <1>8. Cardinality(T) <= Cardinality(Extended) /\ Cardinality(Extended) \in Nat
    <2>1. Extended \in SUBSET (1..n)
      BY <1>1 DEF Extended
    <2>2. IsFiniteSet(1..n)
      BY <1>1, PlacesCounted
    <2>3. IsFiniteSet(Extended)
      BY <2>1, <2>2, FS_Subset
    <2> QED
      BY <1>6, <2>3, FS_Subset, FS_CardinalityType
  <1> HIDE DEF x, n, T
  \* The cut and the second deduplication.
  <1>9. /\ y \in Seq(ResultSet) /\ DOMAIN y = 1..Len(y) /\ Len(y) \in Nat
        /\ ~question.detail => y = merged
        /\ question.detail => /\ Len(y) = IF TopK <= Len(x) THEN TopK ELSE Len(x)
                              /\ DOMAIN y \subseteq DOMAIN x /\ \A k \in DOMAIN y : y[k] = x[k]
    <2>1. y \in Seq(ResultSet) /\ DOMAIN y = 1..Len(y) /\ Len(y) \in Nat
      BY ExpandFacts, SeqFacts
    <2>2. ~question.detail => y = merged
      BY DEF ExpandDetail
    <2>3. question.detail => y = Take(x, TopK)
      BY DEF ExpandDetail, x
    <2> HIDE DEF y
    <2>4. /\ Len(Take(x, TopK)) = IF TopK <= Len(x) THEN TopK ELSE Len(x)
          /\ DOMAIN Take(x, TopK) \subseteq DOMAIN x /\ \A k \in DOMAIN Take(x, TopK) : Take(x, TopK)[k] = x[k]
      BY <1>1, <1>3, TakeFacts
    <2> QED
      BY <2>1, <2>2, <2>3, <2>4
  <1> HIDE DEF y, p
  <1>10. DOMAIN texts = DOMAIN y /\ \A i \in DOMAIN y : texts[i] = y[i].chunk.text
    BY DEF Text
  <1>11. results = FirstOfEach(texts, y)
    BY DEF Looked, DedupRanked, y
  <1> HIDE DEF texts
  <1>12. /\ results \in Seq(ResultSet) /\ Len(results) \in Nat /\ DOMAIN results = 1..Len(results)
         /\ \A k \in DOMAIN results : q(k) \in DOMAIN y /\ results[k] = y[q(k)]
         /\ \A k, m \in DOMAIN results : k < m => q(k) < q(m)
         /\ \A i \in DOMAIN y : \E k \in DOMAIN results : q(k) <= i /\ texts[q(k)] = texts[i]
    <2> DEFINE s == FirstOfEach(texts, y)
    <2>1. y \in Seq(ResultSet) /\ DOMAIN texts = DOMAIN y
      BY <1>9, <1>10
    <2>2. /\ s \in Seq(ResultSet) /\ Len(s) \in Nat /\ DOMAIN s = 1..Len(s)
          /\ \A k \in DOMAIN s : q(k) \in DOMAIN y /\ s[k] = y[q(k)]
          /\ \A k, m \in DOMAIN s : k < m => q(k) < q(m)
          /\ \A i \in DOMAIN y : \E k \in DOMAIN s : q(k) <= i /\ texts[q(k)] = texts[i]
      BY ONLY <2>1, FirstOfEachFacts
    <2> HIDE DEF s, q
    <2> QED
      BY <1>11, <2>2 DEF s
  <1> HIDE DEF q
  \* What an entry of the results is.
  <1>13. ASSUME NEW k \in DOMAIN results
         PROVE  \/ \E i \in DOMAIN merged :
                     results[k] = merged[i] /\ (question.detail => p(q(k)) = 2 * i - 1)
                \/ /\ question.detail /\ Added(k) /\ q(k) - 1 \in DOMAIN y
                   /\ \E i \in T : /\ results[k] = Table(merged, i, seen) /\ p(q(k)) = 2 * i
                                   /\ p(q(k) - 1) = 2 * i - 1 /\ y[q(k) - 1] = merged[i]
    <2>1. CASE ~question.detail
      BY <1>9, <1>12, <2>1
    <2>2. CASE question.detail
      <3> DEFINE a == q(k)
      <3>1. a \in DOMAIN y /\ a \in DOMAIN x /\ results[k] = x[a]
        BY <1>9, <1>12, <2>2
      <3> HIDE DEF a
      <3>2. PICK i \in DOMAIN merged :
              \/ p(a) = 2 * i - 1 /\ x[a] = merged[i]
              \/ /\ p(a) = 2 * i /\ NewTables(merged, i, seen) # {} /\ x[a] = Table(merged, i, seen)
                 /\ a > 1 /\ p(a - 1) = 2 * i - 1 /\ x[a - 1] = merged[i]
        BY <1>3, <3>1
      <3>3. CASE p(a) = 2 * i - 1 /\ x[a] = merged[i]
        BY <3>1, <3>3 DEF a
      <3>4. CASE /\ p(a) = 2 * i /\ NewTables(merged, i, seen) # {} /\ x[a] = Table(merged, i, seen)
                 /\ a > 1 /\ p(a - 1) = 2 * i - 1 /\ x[a - 1] = merged[i]
        <4>1. i \in T /\ results[k] = Table(merged, i, seen)
          BY <1>7, <3>1, <3>4
        <4>2. Added(k)
          BY <1>4, <4>1 DEF Added
        <4>3. a - 1 \in DOMAIN y
          BY <1>9, <3>1, <3>4
        <4>4. y[a - 1] = merged[i]
          BY <1>9, <2>2, <3>4, <4>3
        <4> QED
          BY <2>2, <3>4, <4>1, <4>2, <4>3, <4>4 DEF a
      <3> QED
        BY <3>2, <3>3, <3>4
    <2> QED
      BY <2>1, <2>2
  <1>14. \A k \in DOMAIN results : Added(k) <=> ~\E i \in DOMAIN merged : results[k] = merged[i]
    <2>1. \A i \in DOMAIN merged : merged[i].chunk.id \in Ids(merged)
      BY DEF Ids
    <2> QED
      BY <1>13, <2>1 DEF Added
  <1>15. ASSUME NEW i \in DOMAIN results, Added(i)
         PROVE  \E m \in DOMAIN merged :
                  /\ HeadingOf(i, m)
                  /\ \/ i > 1 /\ results[i - 1] = merged[m]
                     \/ \E j \in 1..i - 1 : Added(j) /\ results[j].chunk.text = merged[m].chunk.text
    <2>1. /\ question.detail /\ q(i) \in DOMAIN y /\ q(i) - 1 \in DOMAIN y
          /\ \E m \in T : /\ results[i] = Table(merged, m, seen)
                          /\ p(q(i) - 1) = 2 * m - 1 /\ y[q(i) - 1] = merged[m]
      BY <1>12, <1>13, <1>14, <1>15
    <2>2. PICK m \in T : /\ results[i] = Table(merged, m, seen)
                         /\ p(q(i) - 1) = 2 * m - 1 /\ y[q(i) - 1] = merged[m]
      BY <2>1
    <2>3. m \in DOMAIN merged /\ HeadingOf(i, m)
      BY <1>4, <1>7, <2>2 DEF HeadingOf
    <2> DEFINE a == q(i)
    <2>4. a \in 1..Len(y) /\ a - 1 \in 1..Len(y)
      BY <1>9, <2>1
    <2>5. PICK j \in DOMAIN results : q(j) <= a - 1 /\ texts[q(j)] = texts[a - 1]
      BY <1>12, <2>1
    <2>6. q(j) \in 1..Len(y) /\ results[j] = y[q(j)]
      BY <1>9, <1>12
    <2>7. results[j].chunk.text = merged[m].chunk.text
      BY <1>9, <1>10, <2>2, <2>4, <2>5, <2>6
    <2>8. j \in 1..i - 1
      <3>1. i \in 1..Len(results) /\ j \in 1..Len(results)
        BY <1>12
      <3>2. q(j) < a
        BY <2>4, <2>5, <2>6
      <3>3. j # i /\ ~(i < j)
        <4>1. a \in Int /\ q(j) \in Int
          BY <2>4, <2>6
        <4>2. j # i
          BY <3>2, <4>1
        <4>3. i < j => a < q(j)
          BY <1>12
        <4> QED
          BY <3>2, <4>1, <4>2, <4>3
      <3> QED
        BY <3>1, <3>3
    <2>9. CASE Added(j)
      BY <2>3, <2>7, <2>8, <2>9
    <2>10. CASE ~Added(j)
      <3>1. PICK h \in DOMAIN merged : results[j] = merged[h] /\ p(q(j)) = 2 * h - 1
        BY <1>13, <2>1, <2>10
      <3>2. h = m
        BY <2>3, <2>7, <3>1
      <3>3. q(j) = a - 1
        <4>1. ASSUME q(j) < a - 1 PROVE FALSE
          <5>1. q(j) \in DOMAIN x /\ a - 1 \in DOMAIN x
            BY <1>9, <2>1, <2>4, <2>6
          <5>2. p(q(j)) < p(a - 1)
            BY <1>3, <4>1, <5>1
          <5>3. p(q(j)) = p(a - 1) /\ p(a - 1) \in Nat
            BY <1>3, <2>2, <3>1, <3>2, <5>1
          <5> QED
            BY <5>2, <5>3
        <4> QED
          BY <2>4, <2>5, <2>6, <4>1
      <3>4. j = i - 1
        <4>1. ASSUME j < i - 1 PROVE FALSE
          <5>1. i \in 1..Len(results) /\ j \in 1..Len(results)
            BY <1>12
          <5>2. i - 1 \in DOMAIN results /\ i - 1 < i
            <6>1. DOMAIN results = 1..Len(results) /\ Len(results) \in Nat
              BY <1>12
            <6> HIDE DEF q
            <6> QED
              BY <4>1, <5>1, <6>1
          <5>3. q(j) < q(i - 1) /\ q(i - 1) < a
            BY <1>12, <4>1, <5>2
          <5>4. q(i - 1) \in 1..Len(y)
            BY <1>9, <1>12, <5>2
          <5> QED
            BY <2>4, <2>6, <3>3, <5>3, <5>4
        <4>2. i \in Int /\ j \in Int
          BY <1>12
        <4> QED
          BY <2>8, <4>1, <4>2
      <3>5. i > 1 /\ results[i - 1] = merged[m]
        <4>1. i \in Int /\ j \in Int /\ j >= 1
          BY <2>8, <1>12
        <4> QED
          BY <3>1, <3>2, <3>4, <4>1
      <3> QED
        BY <2>3, <3>5
    <2> QED
      BY <2>9, <2>10
  \* What is lost: a text that a table has too, and what there is no room for.
  <1> DEFINE lost == {i \in DOMAIN merged : \A k \in DOMAIN results : results[k] # merged[i]}
             twin == [t \in T |-> CHOOSE i \in DOMAIN merged :
                                     merged[i].chunk.text = Table(merged, t, seen).chunk.text]
             twins == {twin[t] : t \in T}
             cut == {i \in DOMAIN merged : \A k \in DOMAIN y : y[k] # merged[i]}
  <1>16. ASSUME NEW i \in lost PROVE i \in cut \/ (question.detail /\ i \in twins)
    <2>1. i \in DOMAIN merged /\ \A k \in DOMAIN results : results[k] # merged[i]
      OBVIOUS
    <2>2. CASE i \notin cut
      <3>1. PICK a \in DOMAIN y : y[a] = merged[i]
        BY <2>1, <2>2
      <3>2. PICK k \in DOMAIN results : texts[q(k)] = texts[a]
        BY <1>12, <3>1
      <3>3. results[k].chunk.text = merged[i].chunk.text /\ results[k] # merged[i]
        BY <1>10, <1>12, <2>1, <3>1, <3>2, SMTT(30)
      <3>4. ~\E j \in DOMAIN merged : results[k] = merged[j]
        BY <2>1, <3>3
      <3>5. question.detail /\ \E t \in T : results[k] = Table(merged, t, seen)
        BY <1>13, <3>4
      <3>6. PICK t \in T : results[k] = Table(merged, t, seen)
        BY <3>5
      <3>7. merged[i].chunk.text = Table(merged, t, seen).chunk.text
        BY <3>3, <3>6
      <3>8. twin[t] = i
        <4> DEFINE j == CHOOSE j \in DOMAIN merged : merged[j].chunk.text = Table(merged, t, seen).chunk.text
        <4>1. j \in DOMAIN merged /\ merged[j].chunk.text = Table(merged, t, seen).chunk.text
          BY <2>1, <3>7
        <4>2. twin[t] = j
          OBVIOUS
        <4> HIDE DEF j
        <4>3. j = i
          BY <2>1, <3>7, <4>1
        <4> QED
          BY <4>2, <4>3
      <3> QED
        BY <3>5, <3>8
    <2> QED
      BY <2>2
  <1>17. IsFiniteSet(twins) /\ Cardinality(twins) <= Cardinality(T)
    <2>1. DOMAIN twin = T
      OBVIOUS
    <2> HIDE DEF twin
    <2> QED
      BY <1>5, <2>1, ImageCounted
  <1> HIDE DEF twin, twins
  <1>18. ~question.detail => cut = {}
    BY <1>9
  <1>19. ASSUME question.detail PROVE IsFiniteSet(cut) /\ Cardinality(cut) <= Cardinality(T)
    <2> DEFINE room == TopK + 1..Len(x)
               half == [k \in room |-> (p(k) + 1) \div 2]
               behind == {half[k] : k \in room}
    <2>1. cut \in SUBSET behind
      <3>1. ASSUME NEW i \in cut PROVE i \in behind
        <4>1. i \in DOMAIN merged /\ \A k \in DOMAIN y : y[k] # merged[i]
          OBVIOUS
        <4>2. PICK k \in DOMAIN x : p(k) = 2 * i - 1
          BY <1>3, <4>1
        <4>3. i \in Nat
          BY <1>1, <4>1
        <4>4. x[k] = merged[i]
          <5>1. PICK j \in DOMAIN merged : \/ p(k) = 2 * j - 1 /\ x[k] = merged[j]
                                          \/ p(k) = 2 * j
            BY <1>3
          <5>2. j \in Nat
            BY <1>1
          <5>3. i = j
            BY <4>2, <4>3, <5>1, <5>2
          <5> QED
            BY <4>2, <4>3, <5>1, <5>3
        <4>5. k \notin DOMAIN y
          BY <1>9, <1>19, <4>1, <4>4
        <4>6. k \in room
          <5>1. /\ k \in 1..Len(x) /\ Len(x) \in Nat /\ Len(y) \in Nat /\ k \notin 1..Len(y)
                /\ Len(y) = IF TopK <= Len(x) THEN TopK ELSE Len(x)
            BY <1>3, <1>9, <1>19, <4>5
          <5> QED
            BY <1>1, <5>1
        <4>7. half[k] = i
          BY <4>2, <4>3, <4>6
        <4> QED
          BY <4>6, <4>7
      <3> QED
        BY <3>1
    <2>2. IsFiniteSet(room) /\ Cardinality(room) <= Cardinality(T)
      <3>1. TopK + 1 \in Int /\ Len(x) \in Int
        BY <1>1, <1>3
      <3>2. IsFiniteSet(room) /\ Cardinality(room) = IF TopK + 1 > Len(x) THEN 0 ELSE Len(x) - (TopK + 1) + 1
        BY <3>1, FS_Interval
      <3> HIDE DEF room
      <3> QED
        BY <1>1, <1>3, <1>5, <3>2
    <2>3. DOMAIN half = room
      OBVIOUS
    <2> HIDE DEF room, half, cut
    <2>4. IsFiniteSet(behind) /\ Cardinality(behind) <= Cardinality(room)
      BY <2>2, <2>3, ImageCounted
    <2> HIDE DEF behind
    <2>5. IsFiniteSet(cut) /\ Cardinality(cut) <= Cardinality(behind)
      BY <2>1, <2>4, FS_Subset
    <2>6. Cardinality(cut) \in Nat /\ Cardinality(behind) \in Nat /\ Cardinality(room) \in Nat
      BY <2>2, <2>4, <2>5, FS_CardinalityType
    <2> QED
      BY <1>5, <2>2, <2>4, <2>5, <2>6
  <1>20. Ids(merged) \ Ids(results) \subseteq {merged[i].chunk.id : i \in lost}
    <2>1. ASSUME NEW id \in Ids(merged) \ Ids(results) PROVE \E i \in lost : id = merged[i].chunk.id
      <3>1. PICK i \in DOMAIN merged : id = merged[i].chunk.id
        BY DEF Ids
      <3>2. \A k \in DOMAIN results : results[k] # merged[i]
        BY <3>1 DEF Ids
      <3> QED
        BY <3>1, <3>2
    <2> QED
      BY <2>1
  <1> HIDE DEF lost, cut
  <1>21. Cardinality(Ids(merged) \ Ids(results)) <= IF question.detail THEN 2 * Cardinality(Extended) ELSE 0
    <2> DEFINE L == Ids(merged) \ Ids(results)
               ids == [i \in lost |-> merged[i].chunk.id]
               U == {ids[i] : i \in lost}
    <2>1. L \in SUBSET U
      BY <1>20
    <2>2. CASE ~question.detail
      <3>1. lost = {}
        BY <1>16, <1>18, <2>2
      <3>2. L = {}
        BY <1>20, <3>1
      <3> QED
        <4>1. Cardinality({}) = 0
          BY FS_EmptySet
        <4> HIDE DEF L
        <4>2. Cardinality(L) = 0
          BY <3>2, <4>1
        <4> QED
          BY <2>2, <4>2 DEF L
    <2>3. CASE question.detail
      <3>1. lost \in SUBSET (cut \cup twins)
        BY <1>16
      <3>2. /\ Cardinality(lost) \in Nat
            /\ Cardinality(lost) <= Cardinality(T) + Cardinality(T)
        <4>1. IsFiniteSet(cut) /\ Cardinality(cut) <= Cardinality(T)
          BY <1>19, <2>3
        <4> QED
          BY <1>5, <1>17, <3>1, <4>1, Covered
      <3>3. IsFiniteSet(lost)
        <4>1. IsFiniteSet(cut \cup twins)
          BY <1>17, <1>19, <2>3, FS_Union
        <4> QED
          BY <3>1, <4>1, FS_Subset
      <3>4. IsFiniteSet(U) /\ Cardinality(U) <= Cardinality(lost)
        <4>1. DOMAIN ids = lost
          OBVIOUS
        <4> HIDE DEF ids
        <4> QED
          BY <3>3, <4>1, ImageCounted
      <3> HIDE DEF U, L
      <3>5. IsFiniteSet(L) /\ Cardinality(L) <= Cardinality(U)
        BY <2>1, <3>4, FS_Subset
      <3>6. Cardinality(L) \in Nat /\ Cardinality(U) \in Nat
        BY <3>4, <3>5, FS_CardinalityType
      <3>7. Cardinality(L) <= 2 * Cardinality(Extended)
        BY <1>5, <1>8, <3>2, <3>4, <3>5, <3>6
      <3> QED
        BY <2>3, <3>7 DEF L
    <2> QED
      BY <2>2, <2>3
  <1> QED
    BY <1>2, <1>15, <1>21 DEF TablesFollowTheirHeadings

\* A table stands behind its heading, and costs two results at most
\* (expand_detail_context).
THEOREM TablesHold == AnsweringSpec => []TablesFollowTheirHeadings
  <1>1. Path => TablesFollowTheirHeadings
    <2> SUFFICES ASSUME Path, stage = "pin" PROVE TablesFollowTheirHeadings
      BY DEF TablesFollowTheirHeadings
    <2>1. /\ HitList(semantic) /\ HitList(keyword) /\ merged = MergeRanked(semantic, keyword, question)
          /\ \E seen \in SUBSET Chunks : Looked(seen)
      BY DEF Path, Searched
    <2>2. PICK seen \in SUBSET Chunks : Looked(seen)
      BY <2>1
    <2>3. /\ merged \in Seq(ResultSet) /\ Len(merged) <= TopK
          /\ \A i, j \in DOMAIN merged : merged[i].chunk.text = merged[j].chunk.text => i = j
      BY <2>1, MergeFacts
    <2> QED
      BY <2>2, <2>3, TablesFollow
  <1> QED
    BY <1>1, PathHolds, PTL
=============================================================================
