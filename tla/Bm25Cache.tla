------------------------------ MODULE Bm25Cache ------------------------------
(***************************************************************************)
(* The BM25 index files between the worker that writes them and the        *)
(* backend that serves keyword search from them.                           *)
(*                                                                         *)
(* The writers are the ingestion round, which replaces documents, adds     *)
(* search keywords and then writes one pickle per category plus one for    *)
(* everything, and the script refresh_bm25_cache.py, which writes the same *)
(* files from the same rows and takes no lock.  The backend's retriever    *)
(* keeps the last index per category in memory; both sides decide what is  *)
(* current by one number, the watermark max(document_chunks.created_at).   *)
(*                                                                         *)
(* A document has at most one chunk here, named by its created_at.         *)
(***************************************************************************)
EXTENDS Naturals, FiniteSetsExt

CONSTANTS
    Doc,
    Category,
    CategoryOf,      \* CategoryOf[d]: documents.category of d
    All,             \* the key "_all" of the file without a category
    Query,           \* search requests in flight
    KeywordGeneration,  \* settings.search_keyword_generation_enabled
    EmptyReparse,    \* TRUE: new content of a document may have no chunk
    MaxTime,         \* bound: number of chunks created
    MaxDisturbances  \* bound: crashes, script starts and backend restarts

ASSUME ConstantsAssumption ==
    /\ Doc # {} /\ IsFiniteSet(Doc)
    /\ CategoryOf \in [Doc -> Category]
    /\ All \notin Category
    /\ KeywordGeneration \in BOOLEAN
    /\ EmptyReparse \in BOOLEAN
    /\ MaxTime \in Nat
    /\ MaxDisturbances \in Nat

Scope == Category \union {All}
Writer == {"round", "script"}
Time == 0..MaxTime

VARIABLES
    now,           \* created_at of the newest chunk ever
    createdAt,     \* createdAt[d]: created_at of the chunk of d; 0: no chunk
    keywords,      \* keywords[d]: whether documents.search_keywords is set
    file,          \* file[s]: the pickle of scope s
    memory,        \* memory[s]: bm25_cache[s] of the backend's retriever
    wpc,           \* wpc[w]: where the writer w stands
    mark,          \* mark[w]: watermark w read
    corpus,        \* corpus[w]: rows w read
    todo,          \* todo[w]: scopes w has not opened yet
    target,        \* target[w]: file w has open; "none" also if unlinked
    qpc,           \* qpc[q]: where the request q stands
    scope,         \* scope[q]: category q asks for
    seen,          \* seen[q]: watermark q read
    disturbances   \* number of disturbances so far

worker == <<wpc, mark, corpus, todo, target>>
requests == <<qpc, scope, seen>>
vars == <<now, createdAt, keywords, file, memory, worker, requests,
          disturbances>>

-----------------------------------------------------------------------------
InScope(d, s) == s = All \/ CategoryOf[d] = s

\* BM25_ACTIVE_CHUNKS_SQL, and the rows of it that belong to a scope.
Rows == {[doc |-> d, at |-> createdAt[d], keywords |-> keywords[d]] :
            d \in {e \in Doc : createdAt[e] # 0}}
Of(rows, s) == {r \in rows : InScope(r.doc, s)}

\* BM25_WATERMARK_SQL; 0 stands for NULL.
Watermark == Max({createdAt[d] : d \in Doc})

Missing == [state |-> "missing", watermark |-> 0, records |-> {}]
Torn == [state |-> "torn", watermark |-> 0, records |-> {}]
Whole(m, rows) == [state |-> "whole", watermark |-> m, records |-> rows]

Unknown == [known |-> FALSE, watermark |-> 0, records |-> {}]
Remember(m, rows) == [known |-> TRUE, watermark |-> m, records |-> rows]

Disturb ==
    /\ disturbances < MaxDisturbances
    /\ disturbances' = disturbances + 1

ForgetRead(w) ==
    /\ mark' = [mark EXCEPT ![w] = 0]
    /\ corpus' = [corpus EXCEPT ![w] = {}]

GoTo(w, label) == wpc' = [wpc EXCEPT ![w] = label]

Init ==
    /\ now = 0
    /\ createdAt = [d \in Doc |-> 0]
    /\ keywords = [d \in Doc |-> FALSE]
    /\ file = [s \in Scope |-> Missing]
    /\ memory = [s \in Scope |-> Unknown]
    /\ wpc = [w \in Writer |-> "idle"]
    /\ mark = [w \in Writer |-> 0]
    /\ corpus = [w \in Writer |-> {}]
    /\ todo = [w \in Writer |-> {}]
    /\ target = [w \in Writer |-> "none"]
    /\ qpc = [q \in Query |-> "idle"]
    /\ scope = [q \in Query |-> All]
    /\ seen = [q \in Query |-> 0]
    /\ disturbances = 0

-----------------------------------------------------------------------------
(* The round.                                                              *)

BeginRound ==
    /\ wpc["round"] = "idle"
    /\ GoTo("round", "documents")
    /\ UNCHANGED <<now, createdAt, keywords, file, memory, mark, corpus, todo,
                   target, requests, disturbances>>

\* persist_document with a changed hash: the old chunk goes, the new one is
\* created now, the keywords are invalidated.
ReplaceDocument(d) ==
    /\ wpc["round"] = "documents"
    /\ now < MaxTime
    /\ \/ /\ now' = now + 1
          /\ createdAt' = [createdAt EXCEPT ![d] = now']
       \/ /\ EmptyReparse
          /\ createdAt' = [createdAt EXCEPT ![d] = 0]
          /\ UNCHANGED now
    /\ keywords' = [keywords EXCEPT ![d] = FALSE]
    /\ UNCHANGED <<file, memory, worker, requests, disturbances>>

DocumentsDone ==
    /\ wpc["round"] = "documents"
    /\ GoTo("round", "index")
    /\ UNCHANGED <<now, createdAt, keywords, file, memory, mark, corpus, todo,
                   target, requests, disturbances>>

\* generate_missing_keywords stores the keywords of one document.
StoreKeywords(d) ==
    /\ KeywordGeneration
    /\ wpc["round"] = "index"
    /\ createdAt[d] # 0
    /\ ~keywords[d]
    /\ keywords' = [keywords EXCEPT ![d] = TRUE]
    /\ UNCHANGED <<now, createdAt, file, memory, worker, requests,
                   disturbances>>

-----------------------------------------------------------------------------
(* write_bm25_indexes, by the round or by the script.                      *)

\* The watermark is read before the rows.
ReadWatermark(w) ==
    /\ wpc[w] = "index"
    /\ mark' = [mark EXCEPT ![w] = Watermark]
    /\ GoTo(w, "rows")
    /\ UNCHANGED <<now, createdAt, keywords, file, memory, corpus, todo, target,
                   requests, disturbances>>

\* One file for everything and one per category that has a row.  Variant: the
\* categories are left out.
OneFile(rows) == {All}
ScopesOf(rows) == {All} \union {CategoryOf[r.doc] : r \in rows}

ReadRows(w) ==
    /\ wpc[w] = "rows"
    /\ corpus' = [corpus EXCEPT ![w] = Rows]
    /\ todo' = [todo EXCEPT ![w] = ScopesOf(Rows)]
    /\ GoTo(w, "open")
    /\ UNCHANGED <<now, createdAt, keywords, file, memory, mark, target,
                   requests, disturbances>>

\* open("wb") truncates.  Variant: the old payload's fields stay readable.
OpenedInPlace(s) == [file[s] EXCEPT !.state = "torn"]
Opened(s) == Torn

\* The file of everything comes first.
OpenFile(w, s) ==
    /\ wpc[w] = "open"
    /\ s \in todo[w]
    /\ All \in todo[w] => s = All
    /\ file' = [file EXCEPT ![s] = Opened(s)]
    /\ target' = [target EXCEPT ![w] = s]
    /\ todo' = [todo EXCEPT ![w] = @ \ {s}]
    /\ GoTo(w, "dump")
    /\ UNCHANGED <<now, createdAt, keywords, memory, mark, corpus, requests,
                   disturbances>>

\* The watermark written with the rows.  Variant: read again when writing.
LatestWatermark(w) == Watermark
FileWatermark(w) == mark[w]

\* pickle.dump into the open file: lost if the file was unlinked meanwhile,
\* and possibly garbled if the other writer has the same file open.
Dump(w) ==
    /\ wpc[w] = "dump"
    /\ \/ target[w] = "none" /\ UNCHANGED file
       \/ /\ target[w] # "none"
          /\ file' = [file EXCEPT ![target[w]] =
                        Whole(FileWatermark(w), Of(corpus[w], target[w]))]
       \/ /\ \E v \in Writer \ {w} : target[v] # "none" /\ target[v] = target[w]
          /\ file' = [file EXCEPT ![target[w]] = Torn]
    /\ target' = [target EXCEPT ![w] = "none"]
    /\ \/ /\ todo[w] # {}
          /\ GoTo(w, "open")
          /\ UNCHANGED <<mark, corpus>>
       \/ /\ todo[w] = {}
          /\ GoTo(w, "idle")
          /\ ForgetRead(w)
    /\ UNCHANGED <<now, createdAt, keywords, memory, todo, requests,
                   disturbances>>

\* The script removes the old files first unless it is told to keep them.
BeginScript ==
    /\ Disturb
    /\ wpc["script"] = "idle"
    /\ GoTo("script", "index")
    /\ \/ /\ file' = [s \in Scope |-> Missing]
          /\ target' = [w \in Writer |-> "none"]
       \/ UNCHANGED <<file, target>>
    /\ UNCHANGED <<now, createdAt, keywords, memory, mark, corpus, todo,
                   requests>>

\* A writer dies, or an exception ends it; an open file stays torn.
Crash(w) ==
    /\ Disturb
    /\ wpc[w] # "idle"
    /\ GoTo(w, "idle")
    /\ todo' = [todo EXCEPT ![w] = {}]
    /\ target' = [target EXCEPT ![w] = "none"]
    /\ ForgetRead(w)
    /\ UNCHANGED <<now, createdAt, keywords, file, memory, requests>>

-----------------------------------------------------------------------------
(* HybridRetriever._ensure_bm25_index_status.                              *)

\* The await on the database: other requests run before it returns.
ReadSeen(q, s) ==
    /\ qpc[q] = "idle"
    /\ qpc' = [qpc EXCEPT ![q] = "lookup"]
    /\ scope' = [scope EXCEPT ![q] = s]
    /\ seen' = [seen EXCEPT ![q] = Watermark]
    /\ UNCHANGED <<now, createdAt, keywords, file, memory, worker,
                   disturbances>>

\* The entry in memory, and the payload of the file, count only with the
\* watermark the request has read.  Variant: any complete file will do.
Hit(q) == memory[scope[q]].known /\ memory[scope[q]].watermark = seen[q]
Loads(q) ==
    file[scope[q]].state = "whole" /\ file[scope[q]].watermark = seen[q]

\* What a lookup returns now: the index and whether it is available.
Served(q) ==
    CASE Hit(q) -> [available |-> memory[scope[q]].records # {},
                    records |-> memory[scope[q]].records]
      [] ~Hit(q) /\ Loads(q) -> [available |-> TRUE,
                                records |-> file[scope[q]].records]
      [] OTHER -> [available |-> FALSE, records |-> {}]

\* The rest of the lookup runs without an await; a miss is remembered too.
Lookup(q) ==
    /\ qpc[q] = "lookup"
    /\ qpc' = [qpc EXCEPT ![q] = "idle"]
    /\ memory' = [memory EXCEPT ![scope[q]] =
                    Remember(seen[q], Served(q).records)]
    /\ scope' = [scope EXCEPT ![q] = All]
    /\ seen' = [seen EXCEPT ![q] = 0]
    /\ UNCHANGED <<now, createdAt, keywords, file, worker, disturbances>>

\* The backend restarts with an empty memory.
Restart ==
    /\ Disturb
    /\ memory' = [s \in Scope |-> Unknown]
    /\ qpc' = [q \in Query |-> "idle"]
    /\ scope' = [q \in Query |-> All]
    /\ seen' = [q \in Query |-> 0]
    /\ UNCHANGED <<now, createdAt, keywords, file, worker>>

-----------------------------------------------------------------------------
WriteIndexes(w) ==
    \/ ReadWatermark(w)
    \/ ReadRows(w)
    \/ \E s \in Scope : OpenFile(w, s)
    \/ Dump(w)

Round ==
    \/ BeginRound
    \/ \E d \in Doc : ReplaceDocument(d) \/ StoreKeywords(d)
    \/ DocumentsDone

Retriever ==
    \/ \E q \in Query, s \in Scope : ReadSeen(q, s)
    \/ \E q \in Query : Lookup(q)
    \/ Restart

Next ==
    \/ Round
    \/ BeginScript
    \/ \E w \in Writer : WriteIndexes(w) \/ Crash(w)
    \/ Retriever

Spec == Init /\ [][Next]_vars

\* The scheduler starts rounds forever, and whoever writes files goes on.
Fairness ==
    /\ WF_vars(BeginRound)
    /\ WF_vars(DocumentsDone)
    /\ \A w \in Writer : WF_vars(WriteIndexes(w))

FairSpec == Spec /\ Fairness

-----------------------------------------------------------------------------
(* Properties *)

Row == [doc : Doc, at : 1..MaxTime, keywords : BOOLEAN]

\* Every variable holds a value of its domain; unknown and torn entries are
\* empty.
TypeOK ==
    /\ now \in Time
    /\ createdAt \in [Doc -> Time]
    /\ keywords \in [Doc -> BOOLEAN]
    /\ file \in [Scope -> [state : {"missing", "torn", "whole"},
                           watermark : Time, records : SUBSET Row]]
    /\ \A s \in Scope : file[s].state # "whole" => file[s] \in {Missing, Torn}
    /\ memory \in [Scope -> [known : BOOLEAN,
                             watermark : Time, records : SUBSET Row]]
    /\ \A s \in Scope : ~memory[s].known => memory[s] = Unknown
    /\ wpc \in [Writer -> {"idle", "documents", "index", "rows", "open", "dump"}]
    /\ mark \in [Writer -> Time]
    /\ corpus \in [Writer -> SUBSET Row]
    /\ todo \in [Writer -> SUBSET Scope]
    /\ target \in [Writer -> Scope \union {"none"}]
    /\ qpc \in [Query -> {"idle", "lookup"}]
    /\ scope \in [Query -> Scope]
    /\ seen \in [Query -> Time]
    /\ disturbances \in 0..MaxDisturbances

Chunks(rows) == {<<r.doc, r.at>> : r \in rows}

\* A keyword index that is served as available lists every chunk that is
\* stored, if the watermark the request read is still the current one, and
\* beyond those only chunks of documents that have none any more (their
\* removal leaves the watermark where it is): no mixture of two rounds, no
\* torn file, no file of an older corpus.
ServedIsCurrent ==
    \A q \in Query :
        qpc[q] = "lookup" /\ seen[q] = Watermark /\ Served(q).available =>
            LET current == Chunks(Of(Rows, scope[q]))
                served == Chunks(Served(q).records)
            IN  /\ current \subseteq served
                /\ \A chunk \in served \ current : createdAt[chunk[1]] = 0

\* Whatever crashed, tore or removed the files, they come back: each is
\* again and again complete and the current one.
FilesCatchUp ==
    \A s \in Scope :
        []<>(Of(Rows, s) = {} \/ file[s] = Whole(Watermark, Of(Rows, s)))
=============================================================================
