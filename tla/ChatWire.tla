------------------------------ MODULE ChatWire ------------------------------
(***************************************************************************)
(* What the kiosk's browser and POST /chat share: one server-sent event    *)
(* stream per question asked.  The endpoint (ChatEndpoint) appends to a    *)
(* stream and closes it, the kiosk (Kiosk) reads it, gives it up, or loses *)
(* it.                                                                     *)
(*                                                                         *)
(* An answer is abstracted to the question it was generated for and the    *)
(* version of the corpus its evidence was retrieved from.                  *)
(***************************************************************************)
EXTENDS Naturals, Sequences, FiniteSets

CONSTANTS Questions,    \* the texts a visitor can ask
          KeyOf,        \* the key of a text in the answer cache
          MaxRequests,  \* bound: questions asked in one behaviour
          MaxVersion,   \* bound: versions of the corpus
          None

ASSUME WireAssumption ==
    /\ MaxRequests \in Nat \ {0}
    /\ MaxVersion \in Nat \ {0}
    /\ None \notin Questions
    /\ KeyOf \in [Questions -> Questions]

VARIABLES asked,    \* request -> its question, None while it is not made
          wire,     \* request -> the events sent and not read yet
          closed,   \* the requests whose stream the endpoint has closed
          reader,   \* request -> what its browser does with the stream
          version   \* the version of the corpus that retrieval reads

wireVars == <<asked, wire, closed, reader, version>>

Requests == 1..MaxRequests
Versions == 1..MaxVersion
Answers  == [question : Questions, version : Versions]

(* The three kinds of events (sse_event and its callers in chat.py).  The  *)
(* four steps a status event can name only change a line of text.          *)
Status       == [kind |-> "status"]
Done(answer) == [kind |-> "done", answer |-> answer]
Error        == [kind |-> "error"]
Events       == {Status, Error} \cup {Done(a) : a \in Answers}

(* The browser reads a stream until it is settled, or gives it up or loses *)
(* it ("gone").                                                            *)
Readers == {"unsent", "reading", "settled", "gone"}

Listening(r) == reader[r] = "reading"

(* An event for a client that is gone is dropped; a status behind one that *)
(* is not read yet adds nothing to it.                                     *)
Send(r, event) ==
    wire' = IF Listening(r) /\ ~(event = Status /\ wire[r] # <<>> /\ wire[r][Len(wire[r])] = Status)
            THEN [wire EXCEPT ![r] = Append(@, event)] ELSE wire

WireTypeOK ==
    /\ asked \in [Requests -> Questions \cup {None}]
    /\ wire \in [Requests -> Seq(Events)]
    /\ closed \subseteq Requests
    /\ reader \in [Requests -> Readers]
    /\ version \in Versions

WireInit ==
    /\ asked = [r \in Requests |-> None]
    /\ wire = [r \in Requests |-> <<>>]
    /\ closed = {}
    /\ reader = [r \in Requests |-> "unsent"]
    /\ version = 1

(* The requests are numbered in the order they are made.                   *)
Unmade  == {r \in Requests : asked[r] = None}
IsNext(r) == r \in Unmade /\ \A other \in Unmade : r <= other

(* Any client: it asks, and may give up or lose its stream at any time.    *)
ClientAsks(r, question) ==
    /\ IsNext(r)
    /\ asked' = [asked EXCEPT ![r] = question]
    /\ reader' = [reader EXCEPT ![r] = "reading"]
    /\ UNCHANGED <<wire, closed, version>>

ClientLeaves(r) ==
    /\ Listening(r)
    /\ reader' = [reader EXCEPT ![r] = "gone"]
    /\ UNCHANGED <<asked, wire, closed, version>>

(* A crawl round publishes a new corpus (modelled in Ingestion).           *)
Publish ==
    /\ version < MaxVersion
    /\ version' = version + 1
    /\ UNCHANGED <<asked, wire, closed, reader>>
=============================================================================
