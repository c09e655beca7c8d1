------------------------------ MODULE Ingestion ------------------------------
(***************************************************************************)
(* One ingestion round of the worker (tasks.crawl.execute_ingestion) as    *)
(* several processes run it against the same PostgreSQL database, Chroma   *)
(* collection and BM25 cache directory: the scheduler/trigger service and  *)
(* any number of `python -m tasks.pipeline` command lines.                 *)
(*                                                                         *)
(* A round takes the advisory lock, opens a crawl_jobs row, snapshots the  *)
(* stored hashes, fetches and persists the targets in whatever order they  *)
(* complete, embeds the pending chunks batch by batch, prunes the orphan   *)
(* vectors, generates keywords, writes the BM25 file and closes the job.   *)
(* The fetch tasks of a document pass that raises are not cancelled: they  *)
(* outlive the round and its lock and may still write the fetch cache.     *)
(*                                                                         *)
(* A page's content is a version number: what build_content_hash would     *)
(* tell apart.  A chunk is its row id, a fresh UUID.  No code clears       *)
(* documents.is_active and the parsers emit no empty chunk, so every row   *)
(* is active and searchable.  Every table is written through the one       *)
(* connection whose session owns the advisory lock, so "lock = p" is also  *)
(* "p's database session is alive"; Chroma and the cache directory are     *)
(* reached without it.                                                     *)
(***************************************************************************)
EXTENDS Naturals, FiniteSets

CONSTANTS
    Proc,        \* processes that may run execute_ingestion
    Scheduled,   \* those with a scheduler, which start rounds forever
    Doc,         \* page URLs
    Chunk,       \* pool of chunk UUIDs
    MaxVersion,  \* bound: number of contents a page goes through
    ChunkCount,  \* ChunkCount[v]: chunks the parser cuts version v into
    NotArticle,  \* versions without an article body, or a board list
    BatchSize,   \* settings.index_batch_size
    RunOptions,  \* command lines: [start, end : Phase, force : BOOLEAN]
    TargetSets,  \* target lists discovery or the artifact may give
    Faults,      \* kinds of fault the environment may inject
    MaxFaults,   \* bound: number of injected faults
    Free         \* lock value when nobody holds it

Version == 1..MaxVersion
Phase == 1..3
DISCOVER == 1
PARSE == 2
INDEX == 3
FaultKind == {"fetch", "document", "index", "crash", "session"}

ASSUME ConstantsAssumption ==
    /\ Scheduled \subseteq Proc
    /\ MaxVersion \in Nat \ {0}
    /\ ChunkCount \in [Version -> Nat]
    /\ NotArticle \subseteq Version
    /\ BatchSize \in Nat \ {0}
    /\ RunOptions \subseteq [start : Phase, end : Phase, force : BOOLEAN]
    /\ TargetSets \subseteq SUBSET Doc
    /\ Faults \subseteq FaultKind
    /\ MaxFaults \in Nat
    /\ Free \notin Proc

VARIABLES
    site,      \* site[d]: version the university web server serves
    cache,     \* version in the fetch cache file of d; 0: no file
    overtaken, \* history: pages whose file was last written by a task that had
               \* outlived its document pass or lost its round's lock
    late,      \* late[p]: fetch tasks that outlived a round of p, as pairs of
               \* a page and the version answered (0: no answer yet)
    hash,      \* documents.content_hash; 0 while the row does not exist
    rows,      \* rows[d]: ids of the document_chunks rows of d
    indexed,   \* ids of the rows whose chroma_id is set
    keywords,  \* version search_keywords was generated from; 0 is NULL
    vectors,   \* chunk ids that have a vector in the Chroma collection
    bm25,      \* chunk ids in the records of the BM25 cache file
    lock,      \* session that holds the crawl advisory lock
    job,       \* job[p]: status of the last crawl_jobs row p opened
    pc,        \* pc[p]: where p stands in execute_ingestion
    run,       \* run[p]: options of p's round
    known,     \* known[p][d]: hash an unchanged d must have (0: none)
    task,      \* task[p][d]: state of the target d in p's round
    got,       \* got[p][d]: version p fetched for d
    batch,     \* batch[p]: chunks embedded and not yet marked
    active,    \* active[p]: chroma_ids prune read from the database
    draft,     \* draft[p][d]: version whose keywords p is generating
    records,   \* records[p]: rows p read for the BM25 file
    faults     \* number of faults so far

database == <<hash, rows, indexed, keywords>>
fetches == <<cache, overtaken, late>>
stores == <<vectors, bm25>>
documentLocals == <<known, task, got>>
indexLocals == <<batch, active, draft, records>>
vars == <<site, fetches, database, stores, lock, job, pc, run,
          documentLocals, indexLocals, faults>>

-----------------------------------------------------------------------------
(* Helpers *)

AllRows == UNION {rows[d] : d \in Doc}

\* PENDING_CHUNKS_SQL: rows whose chroma_id is NULL.
Pending == AllRows \ indexed

\* Chunk ids some state still mentions; uuid4 returns none of them.
InUse ==
    AllRows \union vectors \union bm25
      \union UNION {batch[p] \union active[p] \union records[p] : p \in Proc}

\* p's database statements succeed only while its session lives.  Variant: p
\* uses a second connection that survives the loss of the first.
ConnectedAnyhow(p) == TRUE
Connected(p) == lock = p

DocumentsRun(o) == o.start <= PARSE /\ PARSE <= o.end

\* Variant: the index pass is left to rounds of its own.
IndexRunsAlone(o) == o.start = INDEX
IndexRuns(o) == o.start <= INDEX /\ INDEX <= o.end

\* Where a round goes once its documents are done.
AfterDocuments(o) == IF IndexRuns(o) THEN "embed" ELSE "finish"

NoDoc == [d \in Doc |-> 0]
NoTask == [d \in Doc |-> "none"]

\* What run_crawl asks for: every phase, unchanged documents skipped.
DefaultRun == [start |-> DISCOVER, end |-> INDEX, force |-> FALSE]

\* The fetch tasks of p's round that have not ended.
Unfinished(p) == {d \in Doc : task[p][d] \in {"queued", "fetched"}}

\* The document pass waits for its first result; nothing in it can raise.
NoResultYet(p) ==
    /\ pc[p] = "documents"
    /\ Unfinished(p) # {}
    /\ \A d \in Doc : task[p][d] \in {"none", "queued", "fetched"}

\* What is left running when the document pass raises.
LeftBehind(p) ==
    {<<d, IF task[p][d] = "fetched" THEN got[p][d] ELSE 0>> :
        d \in IF pc[p] = "documents" THEN Unfinished(p) ELSE {}}

OutliveRound(p) == late' = [late EXCEPT ![p] = @ \union LeftBehind(p)]

ForgetDocuments(p) ==
    /\ run' = [run EXCEPT ![p] = DefaultRun]
    /\ known' = [known EXCEPT ![p] = NoDoc]
    /\ task' = [task EXCEPT ![p] = NoTask]
    /\ got' = [got EXCEPT ![p] = NoDoc]

ForgetIndexing(p) ==
    /\ batch' = [batch EXCEPT ![p] = {}]
    /\ active' = [active EXCEPT ![p] = {}]
    /\ draft' = [draft EXCEPT ![p] = NoDoc]
    /\ records' = [records EXCEPT ![p] = {}]

Fault(kind) ==
    /\ kind \in Faults
    /\ faults < MaxFaults
    /\ faults' = faults + 1

GoTo(p, label) == pc' = [pc EXCEPT ![p] = label]

-----------------------------------------------------------------------------
Init ==
    /\ site = [d \in Doc |-> 1]
    /\ cache = NoDoc
    /\ overtaken = {}
    /\ late = [p \in Proc |-> {}]
    /\ hash = NoDoc
    /\ rows = [d \in Doc |-> {}]
    /\ indexed = {}
    /\ keywords = NoDoc
    /\ vectors = {}
    /\ bm25 = {}
    /\ lock = Free
    /\ job = [p \in Proc |-> "none"]
    /\ pc = [p \in Proc |-> "idle"]
    /\ run = [p \in Proc |-> DefaultRun]
    /\ known = [p \in Proc |-> NoDoc]
    /\ task = [p \in Proc |-> NoTask]
    /\ got = [p \in Proc |-> NoDoc]
    /\ batch = [p \in Proc |-> {}]
    /\ active = [p \in Proc |-> {}]
    /\ draft = [p \in Proc |-> NoDoc]
    /\ records = [p \in Proc |-> {}]
    /\ faults = 0

(***************************************************************************)
(* The university edits a page.                                            *)
(***************************************************************************)
EditPage(d) ==
    /\ site[d] < MaxVersion
    /\ site' = [site EXCEPT ![d] = @ + 1]
    /\ UNCHANGED <<fetches, database, stores, lock, job, pc, run,
                   documentLocals, indexLocals, faults>>

\* Variant: a round starts whether or not the lock is held.
MayStartAnyhow(p) == pc[p] = "idle"
MayStart(p) == pc[p] = "idle" /\ lock = Free

\* The service runs every phase; a command line says which.
Options(p) == IF p \in Scheduled THEN {DefaultRun} ELSE RunOptions

(***************************************************************************)
(* pg_try_advisory_lock succeeds and the crawl_jobs row is inserted.  When *)
(* another session holds the lock the round returns skipped and touches    *)
(* nothing, so that outcome is a stuttering step here.                     *)
(***************************************************************************)
Acquire(p) ==
    /\ MayStart(p)
    /\ lock' = p
    /\ job' = [job EXCEPT ![p] = "running"]
    /\ \E o \in Options(p), targets \in TargetSets :
         /\ run' = [run EXCEPT ![p] = o]
         /\ GoTo(p, IF DocumentsRun(o) THEN "load" ELSE AfterDocuments(o))
         /\ task' = [task EXCEPT ![p] =
               [d \in Doc |-> IF DocumentsRun(o) /\ d \in targets
                              THEN "queued" ELSE "none"]]
    \* A command line is a new process.
    /\ late' = [late EXCEPT ![p] = IF p \in Scheduled THEN @ ELSE {}]
    /\ UNCHANGED <<site, cache, overtaken, database, stores, known, got,
                   indexLocals, faults>>

SkippableHash(d) == IF rows[d] = {} THEN 0 ELSE hash[d]

(***************************************************************************)
(* load_existing_document_states for the targets; --force knows nothing.   *)
(***************************************************************************)
LoadStates(p) ==
    /\ pc[p] = "load"
    /\ Connected(p)
    /\ known' = [known EXCEPT ![p] =
          [d \in Doc |-> IF run[p].force \/ task[p][d] = "none"
                         THEN 0 ELSE SkippableHash(d)]]
    /\ GoTo(p, "documents")
    /\ UNCHANGED <<site, fetches, database, stores, lock, job, run, task, got,
                   indexLocals, faults>>

(***************************************************************************)
(* fetch_and_maybe_parse_document: no article or a board list is skipped,  *)
(* an unchanged hash is skipped, anything else is parsed.                  *)
(***************************************************************************)
Outcome(p, d, v) ==
    CASE v \in NotArticle -> "skipped"
      [] v \notin NotArticle /\ v = known[p][d] -> "unchanged"
      [] OTHER -> "parsed"

\* A round that starts at PARSE reads cache_first: the network is asked only
\* for a page the fetch cache does not have.
FromCache(p, d) == run[p].start = PARSE /\ cache[d] # 0

\* A cached page is looked at in one go.
ReadCached(p, d) ==
    /\ pc[p] = "documents"
    /\ task[p][d] = "queued"
    /\ FromCache(p, d)
    /\ got' = [got EXCEPT ![p][d] = cache[d]]
    /\ task' = [task EXCEPT ![p][d] = Outcome(p, d, cache[d])]
    /\ UNCHANGED <<site, fetches, database, stores, lock, job, pc, run, known,
                   indexLocals, faults>>

\* The site answers a download thread; its task has yet to run on.
Fetch(p, d) ==
    /\ pc[p] = "documents"
    /\ task[p][d] = "queued"
    /\ ~FromCache(p, d)
    /\ got' = [got EXCEPT ![p][d] = site[d]]
    /\ task' = [task EXCEPT ![p][d] = "fetched"]
    /\ UNCHANGED <<site, fetches, database, stores, lock, job, pc, run, known,
                   indexLocals, faults>>

\* The cache file of d after an answer v.  Variant: only ever written once.
CachedOnce(d, v) == IF cache[d] = 0 THEN v ELSE cache[d]
Cached(d, v) == v

StoreFetched(d, v, locked) ==
    /\ cache' = [cache EXCEPT ![d] = Cached(d, v)]
    /\ overtaken' = IF locked THEN overtaken \ {d} ELSE overtaken \union {d}

(***************************************************************************)
(* The task of a live round runs on: what came from the network goes to    *)
(* the fetch cache, except a page without an article; a board list does.   *)
(***************************************************************************)
StorePage(p, d) ==
    /\ pc[p] = "documents"
    /\ task[p][d] = "fetched"
    /\ task' = [task EXCEPT ![p][d] = Outcome(p, d, got[p][d])]
    /\ \/ StoreFetched(d, got[p][d], lock = p)
       \/ got[p][d] \in NotArticle /\ UNCHANGED <<cache, overtaken>>
    /\ UNCHANGED <<site, late, database, stores, lock, job, pc, run, known, got,
                   indexLocals, faults>>

\* A download or parse error, or the per-document timeout; HTML that passed
\* the article check is in the cache by the time parsing fails.
FetchFails(p, d) ==
    /\ Fault("fetch")
    /\ pc[p] = "documents"
    /\ d \in Unfinished(p)
    /\ task' = [task EXCEPT ![p][d] = "failed"]
    /\ \/ UNCHANGED <<cache, overtaken>>
       \/ task[p][d] = "fetched" /\ StoreFetched(d, got[p][d], lock = p)
    /\ UNCHANGED <<site, late, database, stores, lock, job, pc, run, known, got,
                   indexLocals>>

(***************************************************************************)
(* A task that outlived its round goes on in the process that made it; the *)
(* cache mode of its round no longer holds.  What it parses is lost.       *)
(***************************************************************************)
LateFetch(p, d) ==
    /\ <<d, 0>> \in late[p]
    /\ late' = [late EXCEPT ![p] = (@ \ {<<d, 0>>}) \union {<<d, site[d]>>}]
    /\ UNCHANGED <<site, cache, overtaken, database, stores, lock, job, pc, run,
                   documentLocals, indexLocals, faults>>

\* It writes the cache file, or fails, has no article or dies with its process.
LateStore(p, d) ==
    /\ \E v \in Version :
         /\ <<d, v>> \in late[p]
         /\ late' = [late EXCEPT ![p] = @ \ {<<d, v>>}]
         /\ StoreFetched(d, v, FALSE) \/ UNCHANGED <<cache, overtaken>>
    /\ UNCHANGED <<site, database, stores, lock, job, pc, run, documentLocals,
                   indexLocals, faults>>

KeywordsAfter(d, v) == IF hash[d] = v THEN keywords[d] ELSE 0

(***************************************************************************)
(* persist_document: one transaction upserts the row, drops its chunks and *)
(* inserts the new ones; keywords survive only an unchanged hash.          *)
(***************************************************************************)
Persist(p, d) ==
    /\ pc[p] = "documents"
    /\ Connected(p)
    /\ task[p][d] = "parsed"
    /\ \E new \in SUBSET (Chunk \ InUse) :
         /\ Cardinality(new) = ChunkCount[got[p][d]]
         /\ rows' = [rows EXCEPT ![d] = new]
    /\ hash' = [hash EXCEPT ![d] = got[p][d]]
    /\ indexed' = indexed \ rows[d]
    /\ keywords' = [keywords EXCEPT ![d] = KeywordsAfter(d, got[p][d])]
    /\ task' = [task EXCEPT ![p][d] = "stored"]
    /\ UNCHANGED <<site, fetches, stores, lock, job, pc, run, known, got,
                   indexLocals, faults>>

\* Every result has been consumed: run_index_pass or finish_crawl_job is next.
DocumentsDone(p) ==
    /\ pc[p] = "documents"
    /\ Connected(p)
    /\ \A d \in Doc : task[p][d] \notin {"queued", "fetched", "parsed"}
    /\ GoTo(p, AfterDocuments(run[p]))
    /\ UNCHANGED <<site, fetches, database, stores, lock, job, run,
                   documentLocals, indexLocals, faults>>

(***************************************************************************)
(* index_crawl_documents                                                   *)
(***************************************************************************)
\* embed_pending_chunks selects at most BatchSize pending rows and embeds them.
EmbedBatch(p) ==
    /\ pc[p] = "embed"
    /\ Connected(p)
    /\ Pending # {}
    /\ \E b \in SUBSET Pending :
         /\ \/ Cardinality(b) = BatchSize
            \/ Cardinality(b) < BatchSize /\ b = Pending
         /\ batch' = [batch EXCEPT ![p] = b]
    /\ GoTo(p, "upsert")
    /\ UNCHANGED <<site, fetches, database, stores, lock, job, run,
                   documentLocals, active, draft, records, faults>>

\* collection.upsert: needs Chroma, not the database session.
UpsertVectors(p) ==
    /\ pc[p] = "upsert"
    /\ vectors' = vectors \union batch[p]
    /\ GoTo(p, "mark")
    /\ UNCHANGED <<site, fetches, database, bm25, lock, job, run,
                   documentLocals, indexLocals, faults>>

\* Rows are marked after the upsert.  Variant: without waiting for it.
MayMarkEarly(p) == pc[p] \in {"upsert", "mark"}
MayMark(p) == pc[p] = "mark"

\* One UPDATE document_chunks SET chroma_id per row; none if the row is gone.
MarkIndexed(p, c) ==
    /\ MayMark(p)
    /\ Connected(p)
    /\ c \in batch[p]
    /\ indexed' = indexed \union ({c} \intersect AllRows)
    /\ batch' = [batch EXCEPT ![p] = @ \ {c}]
    /\ GoTo(p, IF batch[p] = {c} THEN "embed" ELSE "mark")
    /\ UNCHANGED <<site, fetches, hash, rows, keywords, stores, lock, job, run,
                   documentLocals, active, draft, records, faults>>

\* A batch that saw no pending row ends the loop.  Variant: so does a batch
\* after which no full batch can follow.
LoopEndsEarly(p) == Cardinality(Pending) <= BatchSize
LoopEnds(p) == Pending = {}

EmbedDone(p) ==
    /\ pc[p] = "embed"
    /\ Connected(p)
    /\ LoopEnds(p)
    /\ GoTo(p, "prune")
    /\ UNCHANGED <<site, fetches, database, stores, lock, job, run,
                   documentLocals, indexLocals, faults>>

\* prune_orphan_vectors, the query for the chroma_ids in use ...
ReadActive(p) ==
    /\ pc[p] = "prune"
    /\ Connected(p)
    /\ active' = [active EXCEPT ![p] = indexed]
    /\ GoTo(p, "delete")
    /\ UNCHANGED <<site, fetches, database, stores, lock, job, run,
                   documentLocals, batch, draft, records, faults>>

Kept(p) == vectors \intersect active[p]

\* ... and the delete of every other vector the collection lists by then.
DeleteOrphans(p) ==
    /\ pc[p] = "delete"
    /\ vectors' = Kept(p)
    /\ active' = [active EXCEPT ![p] = {}]
    /\ GoTo(p, "keywords")
    /\ UNCHANGED <<site, fetches, database, bm25, lock, job, run,
                   documentLocals, batch, draft, records, faults>>

\* KEYWORD_TARGET_SQL: documents with chunks and without keywords; none when
\* generation is disabled or no auxiliary LLM is configured.
SelectKeywordTargets(p) ==
    /\ pc[p] = "keywords"
    /\ Connected(p)
    /\ \/ draft' = [draft EXCEPT ![p] =
             [d \in Doc |-> IF rows[d] # {} /\ keywords[d] = 0
                            THEN hash[d] ELSE 0]]
       \/ draft' = [draft EXCEPT ![p] = NoDoc]
    /\ GoTo(p, "generate")
    /\ UNCHANGED <<site, fetches, database, stores, lock, job, run,
                   documentLocals, batch, active, records, faults>>

StoreKeywords(p, d) ==
    /\ pc[p] = "generate"
    /\ Connected(p)
    /\ draft[p][d] # 0
    /\ keywords' = [keywords EXCEPT ![d] = draft[p][d]]
    /\ draft' = [draft EXCEPT ![p][d] = 0]
    /\ UNCHANGED <<site, fetches, hash, rows, indexed, stores, lock, job, pc,
                   run, documentLocals, batch, active, records, faults>>

\* A failed LLM call leaves NULL for a later round and is not an index error.
KeywordsFail(p, d) ==
    /\ Fault("fetch")
    /\ pc[p] = "generate"
    /\ draft[p][d] # 0
    /\ draft' = [draft EXCEPT ![p][d] = 0]
    /\ UNCHANGED <<site, fetches, database, stores, lock, job, pc, run,
                   documentLocals, batch, active, records>>

KeywordsDone(p) ==
    /\ pc[p] = "generate"
    /\ draft[p] = NoDoc
    /\ GoTo(p, "bm25")
    /\ UNCHANGED <<site, fetches, database, stores, lock, job, run,
                   documentLocals, indexLocals, faults>>

\* write_bm25_indexes reads the active rows ...
ReadRecords(p) ==
    /\ pc[p] = "bm25"
    /\ Connected(p)
    /\ records' = [records EXCEPT ![p] = AllRows]
    /\ GoTo(p, "write")
    /\ UNCHANGED <<site, fetches, database, stores, lock, job, run,
                   documentLocals, batch, active, draft, faults>>

\* Variant: records are added to those of the old file.
RecordsAdded(p) == bm25 \union records[p]
NewRecords(p) == records[p]

\* ... and overwrites the cache file, for which it needs no connection.
WriteBm25(p) ==
    /\ pc[p] = "write"
    /\ bm25' = NewRecords(p)
    /\ records' = [records EXCEPT ![p] = {}]
    /\ GoTo(p, "finish")
    /\ UNCHANGED <<site, fetches, database, vectors, lock, job, run,
                   documentLocals, batch, active, draft, faults>>

(***************************************************************************)
(* The end of a round.                                                     *)
(***************************************************************************)
\* Variant: the stage is stored where the status belongs.
FinalStage(p) == IF pc[p] = "fail" THEN "failed" ELSE "done"
FinalStatus(p) == IF pc[p] = "fail" THEN "failed" ELSE "completed"

\* finish_crawl_job, then pg_advisory_unlock.
Finish(p) ==
    /\ pc[p] \in {"finish", "fail"}
    /\ Connected(p)
    /\ job' = [job EXCEPT ![p] = FinalStatus(p)]
    /\ lock' = Free
    /\ GoTo(p, "idle")
    /\ ForgetDocuments(p)
    /\ UNCHANGED <<site, fetches, database, stores, indexLocals, faults>>

\* An exception: the index pass reports it, the document pass lets it escape;
\* either way execute_ingestion goes on to finish the job as failed.
Raise(p) ==
    /\ Fault(IF pc[p] \in {"load", "documents"} THEN "document" ELSE "index")
    /\ pc[p] \notin {"idle", "finish", "fail"}
    /\ ~NoResultYet(p)
    /\ GoTo(p, "fail")
    /\ OutliveRound(p)
    /\ ForgetIndexing(p)
    /\ UNCHANGED <<site, cache, overtaken, database, stores, lock, job, run,
                   documentLocals>>

LockAfterCrash(p) == IF lock = p THEN Free ELSE lock

\* The process dies or is cancelled: its session ends, the job row stays, and
\* its tasks, the late ones too, die with it.
Crash(p) ==
    /\ Fault("crash")
    /\ pc[p] # "idle"
    /\ lock' = LockAfterCrash(p)
    /\ GoTo(p, "idle")
    /\ late' = [late EXCEPT ![p] = {}]
    /\ ForgetDocuments(p)
    /\ ForgetIndexing(p)
    /\ UNCHANGED <<site, cache, overtaken, database, stores, job>>

\* PostgreSQL drops the session, which frees its locks; p has not noticed.
LoseSession(p) ==
    /\ Fault("session")
    /\ lock = p
    /\ lock' = Free
    /\ UNCHANGED <<site, fetches, database, stores, job, pc, run,
                   documentLocals, indexLocals>>

\* Labels at which p has no database statement left before an external call.
External == {"upsert", "delete", "write"}

\* The next statement raises, and so does finish_crawl_job.
Abort(p) ==
    /\ pc[p] \notin External \union {"idle"}
    /\ ~Connected(p)
    /\ ~NoResultYet(p)
    /\ GoTo(p, "idle")
    /\ OutliveRound(p)
    /\ ForgetDocuments(p)
    /\ ForgetIndexing(p)
    /\ UNCHANGED <<site, cache, overtaken, database, stores, lock, job, faults>>

-----------------------------------------------------------------------------
DocumentPass(p) ==
    \/ LoadStates(p)
    \/ DocumentsDone(p)
    \/ \E d \in Doc :
         ReadCached(p, d) \/ Fetch(p, d) \/ StorePage(p, d) \/ Persist(p, d)

IndexPass(p) ==
    \/ EmbedBatch(p)
    \/ UpsertVectors(p)
    \/ \E c \in Chunk : MarkIndexed(p, c)
    \/ EmbedDone(p)
    \/ ReadActive(p)
    \/ DeleteOrphans(p)
    \/ SelectKeywordTargets(p)
    \/ \E d \in Doc : StoreKeywords(p, d)
    \/ KeywordsDone(p)
    \/ ReadRecords(p)
    \/ WriteBm25(p)

\* What is left of a round that raised.
LatePass(p) == \E d \in Doc : LateFetch(p, d) \/ LateStore(p, d)

\* What a process does inside a round, faults aside.
Step(p) == DocumentPass(p) \/ IndexPass(p) \/ Finish(p) \/ Abort(p)

Failure(p) ==
    \/ \E d \in Doc : FetchFails(p, d) \/ KeywordsFail(p, d)
    \/ Raise(p)
    \/ Crash(p)
    \/ LoseSession(p)

Next ==
    \/ \E p \in Proc : Acquire(p) \/ Step(p) \/ LatePass(p) \/ Failure(p)
    \/ \E d \in Doc : EditPage(d)

Spec == Init /\ [][Next]_vars

\* asyncio runs a started round on, and the scheduler starts rounds forever;
\* nobody has to start one on the command line.
Fairness ==
    /\ \A p \in Proc : WF_vars(Step(p))
    /\ \A p \in Scheduled : WF_vars(Acquire(p))

FairSpec == Spec /\ Fairness
-----------------------------------------------------------------------------
(* Properties *)

Label == {"idle", "load", "documents", "embed", "upsert", "mark", "prune",
          "delete", "keywords", "generate", "bm25", "write", "finish", "fail"}
TaskState == {"none", "queued", "fetched", "failed", "skipped", "unchanged",
              "parsed", "stored"}
JobStatus == {"none", "running", "completed", "failed"}

\* Every variable holds a value of its domain.
TypeOK ==
    /\ site \in [Doc -> Version]
    /\ cache \in [Doc -> 0..MaxVersion]
    /\ overtaken \in SUBSET Doc
    /\ late \in [Proc -> SUBSET (Doc \X (0..MaxVersion))]
    /\ hash \in [Doc -> 0..MaxVersion]
    /\ rows \in [Doc -> SUBSET Chunk]
    /\ indexed \in SUBSET Chunk
    /\ keywords \in [Doc -> 0..MaxVersion]
    /\ vectors \in SUBSET Chunk
    /\ bm25 \in SUBSET Chunk
    /\ lock \in Proc \union {Free}
    /\ job \in [Proc -> JobStatus]
    /\ pc \in [Proc -> Label]
    /\ run \in [Proc -> [start : Phase, end : Phase, force : BOOLEAN]]
    /\ known \in [Proc -> [Doc -> 0..MaxVersion]]
    /\ task \in [Proc -> [Doc -> TaskState]]
    /\ got \in [Proc -> [Doc -> 0..MaxVersion]]
    /\ batch \in [Proc -> SUBSET Chunk]
    /\ active \in [Proc -> SUBSET Chunk]
    /\ draft \in [Proc -> [Doc -> 0..MaxVersion]]
    /\ records \in [Proc -> SUBSET Chunk]
    /\ faults \in 0..MaxFaults

\* crawl_advisory_lock promises "cross-process mutual exclusion for one crawl
\* round": no two processes are inside execute_ingestion at the same time.
OneRound == \A p, q \in Proc : pc[p] # "idle" /\ pc[q] # "idle" => p = q

\* A row with a chroma_id has its vector in Chroma.  Such a row is never
\* pending again, so a vector lost here is lost until the document changes.
IndexedHasVector == indexed \subseteq vectors

\* A target that counts as handled is in the database with the content the
\* round fetched for it, and one that was not parsed again has chunks.
HandledIsStored ==
    \A p \in Proc, d \in Doc :
        lock = p =>
            /\ task[p][d] \in {"stored", "unchanged"} => hash[d] = got[p][d]
            /\ task[p][d] = "unchanged" => rows[d] # {}

\* Content goes back in one case only: a round that parses again from the
\* fetch cache stores a page whose file was last written by a fetch task that
\* had outlived its document pass or whose round had lost its session.  A file
\* written by a live round is never behind the database, and a round that
\* asks the site never takes a page back, whatever else was written meanwhile.
NoContentRegression ==
    [][\A d \in Doc :
          hash'[d] < hash[d] =>
            /\ d \in overtaken
            /\ \E p \in Proc : lock = p /\ run[p].start = PARSE]_vars

\* Search keywords always describe the content that is stored now.
KeywordsMatchContent ==
    \A d \in Doc : keywords[d] # 0 => keywords[d] = hash[d]

\* A round with an index phase closes its job as completed only when nothing
\* is pending, no orphan vector is left and the BM25 file lists every row.
PublishedInFull ==
    /\ indexed = AllRows
    /\ vectors = AllRows
    /\ bm25 = AllRows

CompletedMeansPublished ==
    [][\A p \in Proc :
          /\ job[p] = "running" /\ job'[p] = "completed"
          /\ IndexRuns(run[p])
          => PublishedInFull]_vars

\* A semantic search loses a chunk only when its document is replaced, and
\* the BM25 file is only ever replaced by the complete corpus.
Corpus == INSTANCE SearchCorpus WITH
    stored <- rows,
    searchable <- vectors \intersect AllRows,
    keywordIndex <- bm25

CorpusSpec == Corpus!Spec

\* Once the faults and the edits have ended, the database holds the content
\* of every article, all of it marked as indexed.
DatabaseRecovers ==
    <>[](/\ \A d \in Doc : site[d] \notin NotArticle => hash[d] = site[d]
         /\ AllRows \subseteq indexed)

\* ... orphan vectors left behind by interrupted rounds are gone and the BM25
\* file lists exactly the stored rows ...
StoresRecover == <>[](vectors \subseteq AllRows /\ bm25 = AllRows)

\* ... and whatever is stored can be found by a semantic search, unless a
\* round without its lock has marked a chunk whose vector another one pruned.
SearchRecovers == []IndexedHasVector => <>[](AllRows \subseteq vectors)

\* Once every round that is still started runs all its phases: a round from
\* the fetch cache may undo what a full one has just stored.
FullRoundsOnly == <>[](\A p \in Proc : run[p] = DefaultRun)

\* Together: after the last fault, the last edit and the last partial round the
\* full rounds bring all three stores in line with the site, whatever stage
\* execute_ingestion was interrupted in and whatever late fetch tasks have put
\* into the fetch cache and partial rounds from there into the database.
Recovers ==
    FullRoundsOnly => DatabaseRecovers /\ StoresRecover /\ SearchRecovers

=============================================================================
