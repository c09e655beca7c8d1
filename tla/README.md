# Campus Copilot: TLA+ models and proofs

Campus Copilot answers questions about a university from the university's own
web pages.  A worker discovers and crawls the pages into PostgreSQL, embeds
their chunks into a Chroma collection and writes BM25 index files; a backend
retrieves chunks from these stores, has an LLM write an answer and streams it; a
kiosk shows and prints it.  An evaluation freezes the answers to a set of
questions, has them judged blind, and publishes the results.

Most of this runs in several processes over stores that no transaction spans,
read while they are being written.  These modules are about what the code
guarantees nevertheless.

All paths below are relative to `src/`.

## 1. Inventory

### Worker (`worker/tasks/`)

| Component | State | Operations | What makes it correct |
|---|---|---|---|
| Ingestion round: `crawl.py` (`execute_ingestion`), `storage.py`, `embed.py` | advisory lock, `crawl_jobs` row, snapshot of stored hashes, documents in flight | start or skip, load states, fetch, persist, embed, upsert, mark, prune, keywords, BM25, finish; exception, crash, loss of the session | one round at a time; the three stores agree; a job says completed only if everything is published; interrupted rounds are repaired |
| Persisted stores: `documents`, `document_chunks`, Chroma collection, `.data/bm25` | rows with `chroma_id`, vectors, pickles | written by the round, except by the two scripts | a row with a `chroma_id` has its vector; no orphans; keywords fit the content |
| Search keywords: `keywords.py` | `documents.search_keywords` | select, generate with an LLM, store | describe the stored content |
| BM25 builder: `bm25.py`, `scripts/refresh_bm25_cache.py` | one pickle per category and one for everything | read watermark, read rows, truncate, dump | a file's watermark is that of its rows; files are rebuilt after a failure |
| Fetch cache: `fetch_cache.py` | one HTML file per URL | write some time after a fetch, by tasks that outlive their round too; read by rounds that start at the parse phase | behind the database only where such a task wrote last |
| Pipeline: `pipeline.py`, `target_artifact.py` | phase range, target artifact file | resolve targets, run a round, write the artifact | a failed part is told apart from a finished one |
| Crawl control: `trigger.py`, `scheduler.py` | task, status, stage, counters | trigger, scheduled run, progress, status | status tells what the task does |
| Discovery: `crawl.py`, `classify.py`, `contracts.py` | queue of sites, targets, verified pages | menus, departments, posts, second pass, validation, PDFs | no page twice, none that does not answer, none lost silently |
| Parsing: `parse.py`, `parsers/` | browser page pool, PDF thread | render, cut into chunks | bounded pages, timeouts |
| Metadata refresh: `metadata.py`, `scripts/refresh_metadata.py` | none of its own | rewrites documents, Chroma metadata and BM25 files | labels agree in all three, with rounds before, between and after |

### Backend (`backend/app/`)

| Component | State | Operations | What makes it correct |
|---|---|---|---|
| Hybrid retriever: `services/retriever.py` | last BM25 index per category | read watermark, use memory, load file, remember; search, fuse, boost, deduplicate, expand, pin | an index that is served is the current one; agreement of the searches wins; a table stands under its heading |
| Chat endpoint: `api/routes/chat.py` | answer cache, connection pool, query log | SSE stream, cache lookup and store, log | exactly one terminal event; nothing is held after it; the log tells what was sent; an answer is cached under a TTL it started itself |
| Answer assembly: `services/rag.py`, `llm.py`, `conflict.py`, `freshness.py` | none | filter evidence, draft, repair, validate, assemble | an answer rests on the candidates its draft names |
| Admin: `api/routes/admin.py` | `crawl_jobs` | status, cleanup of stale jobs | ends the jobs of dead crawls, spares the running one |

### Kiosk, evaluation and others

| Component | State | Operations | What makes it correct |
|---|---|---|---|
| Kiosk: `frontend/src/hooks`, `store`, `api/chat.ts`, `ActionBar.tsx` | mode, question, answer, streams, idle timer, print status | submit, read, home, idle reset, print | an answer belongs to the question on the screen; nothing of a visit is left for the next; an abandoned kiosk returns |
| Answer evaluation run: `eval/run_exp07.py`, `exp07_corpus.py`, `make_exp07_manifest.py` | records, attempts, fingerprints, `run.json` | fingerprint, ask, retry, abort, finalise, gate | every frozen answer is of the published corpus |
| Judging: `eval/make_exp07_primary_sheet.py`, `make_exp07_stage1_manifest.py`, `make_exp07_reveal_sheet.py` | pages in a browser, localStorage, exported files | judge, lock, export, import, freeze, reveal, revise | the behaviour is judged blind; every change is on record |
| Publication: `eval/publish_exp07.py`, `exp07_common.py` | four files | validate, aggregate, write | hashes mean one publication; the tables add up |
| Retrieval evaluation: `eval/check_v4_invariants.py`, `score_v4.py` | frozen tables and runs | gate, score | what passes the gate can be scored |

`pi-setup/print-service` (a printer), the pooling and the sheets of the
retrieval evaluation, `docs/`, `conflict_scan.py` (a stub) and `static/` are outside the models.

### Interactions

* PostgreSQL: rounds, scripts, backend and evaluation share the tables.  Only
  the round takes the advisory lock `CRAWL_ADVISORY_LOCK_KEY`, on the connection
  it also writes with.
* Chroma: rounds upsert and delete, the backend queries; no transaction spans
  Chroma and PostgreSQL.
* Files: fetch cache, target artifact and BM25 pickles, all shared without
  locks of their own; the evaluation's files pass from command to command.
* HTTP: backend to worker (trigger, status), kiosk to backend (SSE), backend and
  evaluation to the LLM and embedding providers.
* Redis: the answer cache, shared by all requests.
* asyncio: inside a process every `await` is a point at which other requests,
  the fetch tasks or the progress callbacks run.

### Hard behaviours

Crash or exception between two of the three stores; a session dropped by the
server under a running round; hashes, chroma_ids, watermarks and fingerprints
read once and used later; files truncated and rewritten in place; two writers
without a lock; tasks that outlive the round that made them; a miss that is
cached; job rows of processes that died; clients
that leave in the middle of a stream, streams whose reader has gone on to the
next question, a connection error after the last event; judgments that are
imported, unlocked and exported again.  `PROJECT.json` lists each at its line
with the properties that would notice it; section 12 lists those it has no room
for.

## 2. Modules and plan

| Subsystem | Modules | Status |
|---|---|---|
| The round and its stores | `Ingestion`, abstract `SearchCorpus` | checked and proved |
| The BM25 files and their reader | `Bm25Cache` | checked, safety proved |
| Who runs crawls, and what is said about them | `CrawlControl` | checked, safety proved |
| What a round is given, and the labels it writes | `Discovery` over lists of `Sublists`, composed with rounds and refreshes in `Catalogue` | checked and proved |
| One stream from endpoint to browser | `ChatWire` (shared state), contract `ChatStream`; `ChatEndpoint` composed with clients in `ChatService`, which implements the contract, with the history of the cache in `ChatFreshness`; `Kiosk` composed with the contract in `KioskSystem`, which implements `Visit` | checked, both refinements; the step parts of both proved |
| From question to answer | `Ranking` (operators), `Answering` (the steps) | checked and proved |
| The evaluation's run | `Exp07Run`; `CallPacing` | checked and proved; proved |
| The evaluation's judgments | `Exp07Judgments` (rules), `Exp07Sheets` (the pages and files), `Exp07Tables` | checked and proved |
| The evaluation of the retrieval | `RetrievalQrel` (the gate of the tables, the metrics) | proved |

The composition is by contract where the parts are too large to be explored
together: the kiosk is explored over any endpoint that keeps `ChatStream`, and
the endpoint is shown to keep it with any clients; `CrawlControl` has
Ingestion's round as one label and Ingestion has the discovery as an arbitrary
set of targets, which `Catalogue` produces in full; `ChatEndpoint` has the
retrieval as one step that reads one version of the corpus, which `Answering`
takes apart.

Lists that a proof has to take apart are not filtered with `SelectSeq`, sorted
with `SortSeq` or put together by folds: `Sublists` defines filters,
deduplications, stable sorts and slices by the sets of places they take, as
`Discovery` and `Ranking` use them, and `ListProofs` has the lemmas about them:
what a sublist keeps, that a stable sort is a permutation in the order of its
keys, that the first of every class is there once.  No module uses a RECURSIVE
operator.  Left: the parts of section 12, and liveness, which stays with TLC.

## 3. Ingestion

`Ingestion.tla` is `execute_ingestion` as a set `Proc` of processes run it: the
worker's service and command lines.

### State

| Variable | Code |
|---|---|
| `site` | what the university serves; only `EditPage` changes it |
| `cache` | fetch cache file of a page |
| `late` | fetch tasks that outlived a document pass of the process: the page, and the version they hold if the site has answered |
| `overtaken` | history: pages whose cache file was last written by such a task, or for a round that had lost its session |
| `hash`, `keywords` | `documents.content_hash`, `documents.search_keywords` |
| `rows`, `indexed` | `document_chunks` rows; those whose `chroma_id` is set |
| `vectors`, `bm25` | Chroma collection; records of the BM25 file |
| `lock` | session that holds the advisory lock |
| `job` | status of the process's last `crawl_jobs` row |
| `pc`, `run` | where the process stands; phase range and `--force` |
| `known`, `task`, `got` | snapshot of hashes; state of each target's task; fetched content |
| `batch`, `active`, `draft`, `records` | what a stage of the index pass has read and not yet written |

A content is a version number, since the code compares contents by hash only.
A chunk is its UUID.  `documents.is_active` is never cleared by the code and the
parsers emit no empty chunk, so every row is active.

Every database statement of a round goes through the connection that holds the
advisory lock, and the server releases the lock exactly when the session ends.
Hence `lock = p` is also "p's connection works", and `Connected(p)` guards every
action that needs the database; `UpsertVectors`, `DeleteOrphans` and `WriteBm25`
need only Chroma or the disk and go on without it.

### Actions

| Action | Code |
|---|---|
| `Acquire` | `pg_try_advisory_lock` and the insert of the job row.  A round that does not get the lock returns skipped and changes nothing: a stuttering step |
| `LoadStates` | `load_existing_document_states`, with the rule of `should_skip_existing_document` that a document without chunks is parsed again |
| `ReadCached` | a round that starts at the parse phase finds the page in the fetch cache (`crawl.py:784`) |
| `Fetch` | the site answers the download thread (`crawl.py:788`, `817`); the task has yet to run on |
| `StorePage` | the task runs on: it writes the cache file, unless the page has no article, and ends as skipped, unchanged or parsed (`crawl.py:789-831`) |
| `FetchFails` | a download or parse error, or the timeout, before or after the cache file is written |
| `LateFetch`, `LateStore` | the same for a task whose document pass has raised: nothing cancels the tasks of `crawl.py:871`; what it parses is lost, what it caches is not |
| `Persist` | `persist_document`, one transaction |
| `DocumentsDone` | end of `run_document_processing_pass` |
| `EmbedBatch`, `UpsertVectors`, `MarkIndexed`, `EmbedDone` | the loop over `embed_pending_chunks`: select and embed, upsert, one UPDATE per row, end on an empty batch |
| `ReadActive`, `DeleteOrphans` | the two halves of `prune_orphan_vectors` |
| `SelectKeywordTargets`, `StoreKeywords`, `KeywordsFail`, `KeywordsDone` | `generate_missing_keywords`; no target when generation is off |
| `ReadRecords`, `WriteBm25` | `write_bm25_indexes` |
| `Finish` | `finish_crawl_job` and the unlock, as completed or failed |
| `Raise` | an exception in any stage; out of the document pass it leaves the unfinished tasks behind (`OutliveRound`), but not before the first result, since nothing before it raises |
| `Crash` | the process dies, or its task is cancelled; its late tasks die with it |
| `LoseSession`, `Abort` | the server drops the session; the process notices at its next statement |

A fetch and the write of the cache file are two steps because an `await` lies
between them, and everything else may happen there: a page may be edited, another
document stored, the round may raise, give its lock back and be followed by a
whole round of another process.  A command line cancels what is left when its
event loop closes; the model lets that take as long as it likes, and its late
tasks are gone when it is started again.  Those of the worker live on through its
next rounds.

Progress counters and stage texts of the job row are left out.

### Runs

| Run | Instance | What it shows |
|---|---|---|
| `crash` | the worker and a command line, 2 pages, 2 versions, batches of 1, full, parse-only and index-only rounds, 1 failed fetch, crash or exception, the last leaving fetch tasks behind if the document pass raises it; symmetric in the pages | one round at a time, marked rows have vectors, completed means published, the round implements SearchCorpus, `NoContentRegression` |
| `recovery` | the worker and a command line, 1 page of two chunks and then one, batches of 1, full and parse-only rounds, 2 faults of any kind, a failed fetch and a lost session included, fairness | `Recovers`: after the last fault, edit and partial round the database has the site's content, orphans are gone, the BM25 file is complete and everything stored is searchable; and the two properties of a document, with two processes inside a round |
| `two_rounds` | 1 page, 1 lost session | violation of `IndexedHasVector`, see Findings |

**Bounds.** Two processes are enough for every overlap that the lock permits or
forbids, since a third could only wait like the second.  Two versions give every
document one change.  Batches of one row make the loop, the partly marked batch
and the state between two batches occur with two chunks.  A task can only be
left behind when another one has a result to store, so `crash`, where that
matters, has two pages and affords one fault; what it checks is proved for any
number of them.  The pool has five or six chunk ids, and `Persist` waits should
none be free; ids are free again once nobody mentions them.  Of the ids no state
mentions any is as good as any other, so the runs follow only the steps that
take the lowest (`LowestFree`, an action constraint), which leaves out no
behaviour but for the names of chunks.  In `recovery` two faults allow a fault
in the round that repairs the first one.  Forced rounds, pages without an
article and contents without a chunk are in the module and in no run; the proofs
below cover them.

**What NoContentRegression says.** Older content does come back in this code.  A
task that was left behind holds the first version of a page; the page is edited,
a second round stores the new version and caches it; the task writes the old one
over the file; a round from the parse phase then finds a file whose hash is not
the stored one and stores it.  The property says that this is the only way: the
page's file was last written by such a task (`overtaken`), and the round is one
that parses again.  A round that asks the site never takes a page back, and a
file written by a live round is never behind the database, whatever was fetched,
lost or left over in between.  In `crash` older content does come back, so the
condition is met; the mutant, a cache file written once and never again, is a
file behind the database that no such task wrote.  With lost sessions the
property was explored on the instance of `recovery`, and is proved.  The comment
at `crawl.py:153-154` calls the path that uses the cache serialised by the
advisory lock; the writes of the tasks of `crawl.py:871` are not.

**Fairness.**  Weak fairness of the steps of each process inside a round:
asyncio runs a started round to its end or to its exception.  Only the processes
in `Scheduled` go on starting rounds: the worker, whose schedule fires every day
and whose container is restarted (`docker-compose.prod.yml`), and it starts full
rounds (`run_crawl`).  A command line runs when somebody types it, so `recovery`
has `Scheduled = {worker}`.  Edits and faults are not fair and are bounded, so
the liveness properties speak of the time after the last of them.  Nor is
anything a late task does fair: it may never end.  `Recovers` is under the
condition that from some time on all rounds run every phase (`FullRoundsOnly`),
for a partial round may put back old content from the cache at any time.
`SearchRecovers`, the last part of `Recovers`, excepts the behaviours of
`two_rounds`, in which a marked row has lost its vector.

**Assumed configuration.**  The fetch cache directory is set and its mode is the
default one (network first, a parse-only round reads the cache).

### Proofs

`IngestionProofs` proves `Spec => []TypeOK` and every safety property the runs
check, for all processes, documents, chunks, versions,
batch sizes and run options, from `ConstantsAssumption` alone or with one more
assumption:

| Theorem | Assumes no lost session |
|---|---|
| `KeywordsCorrect`: keywords describe the stored content | no |
| `HandledCorrect`: what counts as handled is stored | no |
| `ContentCorrect`: content goes back only from an overtaken file | no |
| `OneRoundCorrect`: rounds exclude one another | yes |
| `IndexedCorrect`: a marked row has its vector | yes |
| `CompletedCorrect`: completed means published | yes |
| `CorpusCorrect`: refinement of SearchCorpus | yes |

None of the properties is inductive.  The strengthenings:

* `DraftIsCurrent`, `KnownIsCurrent`: the keyword draft and the hash snapshot of
  the round that holds the lock are current.  They survive a lost session
  because they only speak of the holder: the process that lost its session keeps
  stale data and can no longer write it.
* `OwnsLock`: whoever is inside a round holds the lock.  Its proof is where "no
  session is lost" is used, and with it everybody else is idle (`Alone`).
* `ContentInOrder`: nothing is ahead of the site, late tasks included
  (`NothingAheadOfSite`); a file that is not overtaken is not behind the database
  (`CacheInOrder`); what the holder of the lock has fetched and not yet stored is
  not behind the database, unless it comes from an overtaken file in a round that
  parses again (`PagesInOrder`).  It speaks of the holder only, so it survives
  lost sessions as the two before do, and `overtaken` is what it needs to
  remember of the tasks without the lock.
* `StageReached`: what the index pass has established at each label: the batch
  has vectors when rows are marked, the ids that prune read are still all marked
  ids, nothing is pending after the loop, no orphan after prune, the records
  read are all rows.  `RowsDisjoint` says that a row belongs to one document, so
  persisting one document leaves the others' rows alone.

Type correctness, the stage invariant (`StoresInvariant`) and the refinement are
one lemma each about a step, with one named step per action.  The assumption is
needed: the run `two_rounds` is the counterexample without it.

`Recovers` is liveness under fairness, out of the prover's reach, and only
model-checked.

### SearchCorpus

What a round promises the retriever: documents are replaced as a whole, a
searchable chunk stays searchable until its document is replaced, the keyword
index is only overwritten by the complete corpus of that moment.  Ingestion maps
`stored` to `rows`, `searchable` to the vectors that have a row (that is what
`search_chroma` can return) and `keywordIndex` to `bm25`.

## 4. Bm25Cache

The round reduced to what moves the watermark and the rows (`BeginRound`,
`ReplaceDocument`, `DocumentsDone`, `StoreKeywords`), the two writers of the
files (the round and `refresh_bm25_cache.py`) at the grain of their reads, opens
and dumps, and the retriever with its memory.

| Action | Code |
|---|---|
| `ReadWatermark`, `ReadRows` | the two queries of `write_bm25_indexes`, in this order, with no transaction around them |
| `OpenFile`, `Dump` | `open("wb")` truncates; `pickle.dump` fills the file, the one of everything first.  A file that was unlinked in between swallows the dump; two writers with the same file open may leave a whole file or a torn one |
| `BeginScript` | the script, which unlinks the old files unless told to keep them |
| `Crash` | a writer dies or raises between two of these steps |
| `ReadSeen` | the retriever's `await` on `max(created_at)`: any other request or writer may run before it returns |
| `Lookup` | the rest of `_ensure_bm25_index_status`, without an await: memory, file, or an empty index, and what is remembered |
| `Restart` | the backend restarts |

A document has at most one chunk here, named by its `created_at`; a document
may also lose its chunk (`EmptyReparse`).  A torn file stands for everything
`_load_bm25_file_cache` rejects.

| Run | Instance | What it shows |
|---|---|---|
| `bm25_serve` | 2 documents, 1 category and the file of everything, 2 requests, 2 chunk creations, 1 disturbance (crash, script, restart) | `ServedIsCurrent`: an index served as available while the request's watermark is current lists every current chunk, and beyond those only chunks of documents that have lost theirs |
| `bm25_files` | 2 categories, keywords, documents that lose their chunk, 2 disturbances, fairness | `FilesCatchUp`: every file that has rows is again and again whole, current and complete |

**Bounds.**  The files are independent but for the order of writing, so one
category next to the file of everything shows a set of files half written.
Two requests make one remember what the other will look up.  Two chunk
creations give three watermarks.  In `bm25_serve` documents keep their chunks
and no keywords are generated; `bm25_files` has both.

**What ServedIsCurrent does not say.**  Three things follow from the watermark
being the newest `created_at`, and `ServedIsCurrent`, which is about indexes
served as available, sees none of them.  A query between the last insert of a
round and its BM25 file remembers the empty index under the new watermark and
does not look at the file again until the watermark moves or the backend
restarts (`retriever.py:542-553`): the empty index is served as an unavailable
one, although the design document
(`docs/kiosk/specs/2026-05-06-phase-4-indexing-search-rag-design.md:510`) has a
query use the file when the watermarks agree.  A round that only stores keywords
rewrites the file under the same watermark, and the memory keeps the old records.
A document that loses its last chunk leaves the watermark as it is.  No text
promises otherwise for these two.

**Fairness.**  Rounds are started forever, their document pass ends, and a
writer that has begun goes on.  Requests are not fair; nothing depends on them.

**Proved** (`Bm25CacheProofs`).  `ServedCorrect` is `Spec => []ServedIsCurrent`
for every set of documents and categories, any number of requests, crashes and
restarts, and with documents that lose their chunks, which `bm25_serve` leaves
out.  `ServedIsCurrent` alone is not inductive: it says nothing of what a writer
still holds or a file will be loaded with.  The invariant `Current` therefore
follows a reading from its writer over the file into the memory: wherever it is,
it was taken after its watermark was read, so nothing stored up to that
watermark is missing (`CompleteUpTo`).  That is the order of the two queries in
`write_bm25_indexes`; with the rows read first, the proof of `WritersStep` breaks.
The argument needs that the newest of finitely many times exists, which is
`NewestExists`.

The production backend runs two uvicorn workers; each has a retriever memory of
its own and shares nothing else, so one memory stands for each of them.

## 5. CrawlControl

Crawls, whoever starts them, and what is said about them.  Ingestion's round is
one label here, `"round"`; what is in the model is what happens before and after
it.

| Variable | Code |
|---|---|
| `at`, `pending` | where a crawl stands in `run_pipeline`; which of the two gathered discovery coroutines still run |
| `task`, `status`, `startedAt` | `CrawlTriggerService._task`, `_status`, `_started_at` |
| `progress` | the crawl that `_current_stage`, `_processed_pages` and `_total_pages` speak of |
| `job`, `jobAt`, `lock` | `crawl_jobs.status` and `started_at`; the advisory lock |
| `artifact` | the crawl whose targets the file lists |
| `snapshot` | the worker's answer an admin request has and has not yet acted on |

| Action | Code |
|---|---|
| `Trigger` | `trigger` and `run_scheduled`, one critical section of the service's lock |
| `StartCli` | `python -m tasks.pipeline`, with or without the discovery phase |
| `Report` | `update_progress`, called by a discovery |
| `DiscoveryDone`, `DiscoveryFails` | the end of `discover_html_targets_with_failures` or `discover_pdf_targets`; `gather` raises at the first failure and leaves the other running |
| `Acquire`, `Skip`, `FinishRound`, `RoundFails` | the frame of `execute_ingestion` |
| `WriteArtifact` | `run_pipeline` after the round |
| `Break` | an exception where no job row can be written |
| `End` | the result of `_run`, or the end of a command line |
| `Crash`, `LoseSession` | a process dies; the server drops a round's session |
| `FetchStatus`, `Cleanup` | `fetch_worker_crawl_status`; `cleanup_stale_running_crawl_jobs` |

The critical sections of the service contain no `await`, so its lock is never
contended and each is one step; what `End` joins is two of them in a row.
Start times come from the clock of one host, so they are numbered in order.

The run `control` has 2 crawls by the worker or a command line, 1 admin request
at a time, 1 fault, and fairness.  It shows that the service knows its crawl;
that only a failed discovery disturbs a later crawl's progress; that the cleanup
spares the crawl the worker was running; that rows left behind are cleaned up;
and that a crawl called running ends.

**Bounds.**  Every hazard here is between two crawls: two of the worker, one
after the other, or one beside a command line.  The safety properties were also
explored with three crawls (1.7 million states), which shows nothing new and
takes too long with the liveness properties.  One admin request at a time can
hold its answer for as long as it likes, and cleaning up twice is cleaning up
once.

**Stray progress.**  `update_progress` does not know who calls it.  When one
discovery fails, `gather` ends the crawl and leaves the other running for
minutes; the next crawl can start at once, and its stage and counters are then
overwritten by the old discovery.  `StrayProgressIsOfAFailedDiscovery` says that
this is the only way.

**What is in the model and no property forbids.**  `CleanupSparesTheCrawlItSaw`
is about the crawl the worker reported and about no other.  `admin.py:132` takes every
running row for stale unless the worker's own service says it is running: the
job of a command-line round becomes failed at the first look at the admin page,
as does one that starts between the answer and the UPDATE, and
`finish_crawl_job` later overwrites it.  `pipeline.py:147` writes the artifact after
the lock is released, so it may replace the targets of a newer discovery,
against the comment at line 142.

**Proved** (`CrawlControlProofs`), for every number of crawls, command lines,
admin requests and faults: `ControlTypeCorrect`, `ServiceCorrect`,
`ProgressCorrect` and `CleanupCorrect`, which is an action property.  The
invariant `Controlled` adds to the properties: which rows a crawl has at each of
its steps (`RowsBegin`); that a discovery outlives its phase only if the other
one failed, and then there is no round (`LeftoversAreOfFailures`); that every
start time is paid for by a crawl that starts or a round that begins, so that
times are bounded, and that the service's time of its crawl lies before that
crawl's row and not before any status fetched from it (`TimesAgree`).  The last
one is why a cleanup with an old answer spares the live crawl: its row is newer
than anything the answer can speak of.

**Fairness.**  Fetches have timeouts, so a discovery ends; asyncio runs a crawl
on; the admin page asks every three seconds while it is open
(`frontend/src/pages/AdminPage.tsx:17`) and `StaleJobsEnd` holds only because
of that.  Nothing makes anybody trigger or type a crawl.

## 6. Discovery and Catalogue

`Discovery` is the way from the seed sites to the targets of a round.  A pass
over many pages is one step: `asyncio.gather` returns the results in the order
of its list, and the fetches of a pass share nothing.

| Action | Code |
|---|---|
| `StartDiscovery`, `FetchSite`, `SkipDepartments` | the main pages of seeds and departments, their menus, the limit |
| `ExpandParents`, `RetryParents` | the two passes of `expand_article_box_targets_by_parent`, and the ordered list they give together |
| `ValidateTargets` | `validate_targets_with_failures` over what nothing verified yet |
| `FetchPdfs` | `discover_pdf_targets`; its failure fails the crawl |

Any fetch may bring content, bring none (the page moved, or has no article), or
fail.  `PageKind` has the order and the exceptions of `infer_page_kind` over
groups of words; `MenuScope` the rules for scopes.  Links the code filters out
(foreign hosts, downloads) are not among the constants.  A comprehension with a
condition is a `Sublist`: the entries of a list at some of its places.

`DiscoveryAssumption` says what the constants are, lists of pages.
`PdfAssumption` is about the site: its graduation page names a year once, and no
menu links a graduation PDF.  The code relies on it, for
`apply_crawl_target_limit` appends the PDFs without `dedupe_targets`, and
`is_download_url` filters posts but no menus.  Without it a PDF is a target
twice, and so `TargetsAreSound` is false.

`Catalogue` follows the labels that discovery gave a page (`source_scope`,
`page_kind`) through a round into the row, the metadata of the vector and the
BM25 record, and lets `scripts/refresh_metadata.py` compute them anew and rewrite
all three, without the lock.  A round is at the grain of its reads and writes,
the refresh at that of its plan, its UPDATE, its Chroma batch, the clearing and
the writing of the BM25 files, with its options `--dry-run`, `--skip-chroma` and
`--skip-bm25`.  `build_content_hash` does not cover the scope and the kind, so a
round leaves an unchanged page with the labels it has.

`trusted` and `overlap` are history variables: no round overlapped a refresh,
none died and no refresh was partial, since the last full refresh that ran alone.

The run `catalogue` has two seeds and a department, a guide page that lists a
post, a calendar that a seed and the department both name, a post that a second
menu names as well and that lists another post, and one PDF; limits 0 (none) and 2; two rounds, two
refreshes, two troubles (a fetch without content, an edited page, a failed
batch, a process that dies).

| Property | What it says |
|---|---|
| `TargetsAreSound` | no page is handed on twice, the limit holds for pages and PDFs together, and no page whose last fetch failed is handed on |
| `NothingListedIsLost` | without a limit, every entry of a menu that was read, and every post of a menu's page that brought an article in one of the two passes, is a target, a reported failure, or a page without an article |
| `LabelsAgree` | between rounds and refreshes the three stores hold the same labels, whatever an earlier interrupted, partial or overlapping one left, once a full refresh has run alone |

**The pages that are not searched.**  `NothingListedIsLost` says "in one of the two
passes" because there is a third fetch: a menu's page that fails, comes empty at
the second try and answers when it is validated as another page's post is a
target, but the posts it lists itself are not looked for (`crawl.py:689`).  They
are neither targets nor failures.

**Proved** (`CatalogueProofs`): all three, for any sites, pages, menus, lists of
posts, limits, rounds, refreshes and troubles.

`TargetsCorrect` and `ListedCorrect` share the invariant `DiscoveryKeeps`, which
follows the targets stage by stage.  While the sites are read every target is a
menu's, and every menu that was read is among them (`Collected`).  After the two
passes a verified page has answered, and one that came empty is there only as a
post (`Answered`); everything a menu named or a searched page listed is a target,
a failure or empty (`Accounted`), and stays so when the rest is validated,
because a verified page is not asked again.  `OrderedFacts` is the induction over
the list that is put together under the limit; the lemmas before it say what
`Sublist`, `Dedupe`, `Limited` and the expansions keep.

`LabelsCorrect` is `LabelsAgree`.  It speaks of the moments when nothing runs; the
invariant `Agreed` says what a round and a refresh that run alone have done by
each of their steps.  `MarkedAreStored`: only a chunk that is stored now is
marked or about to be.  `RoundKeeps`: the vectors of the marked chunks agree all
along, the file until the first target is handled and again at the end, and
what was read for either is what is there when it is written.  `RefreshKeeps`:
the vectors agree from the end of the batch on unless it failed, and a refresh
whose plan is empty disturbs nothing at any step, which is why a partial one may
then be trusted.  A step of a round beside a refresh ends the trust, and only a
full refresh without one brings it back.

**Bounds.**  A page that is listed twice, once as a post and once by a menu of
another site, needs two sites; the limit needs more pages than it lets through;
the second pass needs a page that fails and then answers, the repair a round
or refresh that goes wrong and one after it.

**Not in the instance.**  Two processes inside one document at once, and
deletion of a document, which the code never does.

## 7. The chat stream

`ChatWire` is what endpoint and browser share: `asked[r]`, the events of a stream
that are not read yet, who has closed it, and what its reader does.  An answer
is the question it was generated for and the version of the corpus it rests on.

`ChatStream` is the contract: status events, then a done event with an answer to
a question of the same cache key or an error event, then the end; and this
happens, for every reader who stays.

`ChatEndpoint` is the generator `_chat_events` as one process per request.

| Action | Code |
|---|---|
| `CacheMiss`, `AnswerFromCache`, `CacheEntryInvalid` | `_safe_cache_get` and `_coerce_chat_response`; an entry with the required fields that does not validate raises |
| `Checkout`, `PoolExhausted`, `Retrieve`, `RetrievalFails` | the session, held over the retrieval and no longer |
| `NoEvidence`, `MakeProvider`, `Generate`, `OutputInvalid`, `ProviderFails` | the evidence gate, the provider and its `finally` |
| `CacheStore`, `SendDone`, `LogAnswer`, `LogFailure`, `SendError` | the end, in the code's order |
| `Cancelled` | the client is gone: `CancelledError` at any await |
| `Expire` | Redis drops an entry at the end of its TTL |

`ChatService` puts it among clients who ask and leave at any point and a corpus
that is published anew (`Publish`).  `ChatFreshness` adds one history variable,
`since`: the version of the corpus when a request was made.

`Kiosk` is the browser: the store, `useChat` over `api/chat.ts`, the idle timer,
the print button.  JavaScript runs one handler at a time, so a handler is an
action.  `KioskSystem` puts it over any endpoint that keeps the contract and a
connection that may break (`Cut`); `Visit` is what the kiosk promises, without
requests, streams or timers.

| Run | Instance | What it shows |
|---|---|---|
| `chat` | 2 requests, 3 questions of 2 keys, 2 versions, a pool of 1, cache entries that no longer validate, fairness | `LogMatchesStream`: one log row at most, and it tells what was sent; `ContractKept`: the endpoint implements `ChatStream`, liveness included, however small the pool; `AnswersStartTheirOwnTtl`: whoever sets a cached answer has retrieved it, from a corpus no older than the one it found when it was made |
| `kiosk` | 2 requests, the same questions, 2 versions, fairness | `PromiseKept`: refinement of `Visit`, so the screen shows an answer to the question on it or an apology, and nothing of a visit is left; `PrintStatusIsOurs`: a print call of an earlier visitor does not touch the button; `ReturnsToMain`: an abandoned kiosk goes back to its main screen |

**Bounds.**  The hazards are between a request and the one before it: a cached
answer, a connection, a stream that goes on after Home, a print call that
returns late.  Two requests and a pool of one connection show each of them.  q1
and q2 have the same key, q3 another: an answer may be one cached for another
spelling, and must not be one for another question.  A request may
retrieve before a new corpus is published and store after it.

**How old an answer may be.**  No round invalidates the answer cache, and two slow
requests store in any order, so an answer may be cached after a newer corpus was
published, and even after a newer answer was.  What bounds its age is its TTL,
and that only if the TTL was started by the request that retrieved it: a hit
must neither set the entry again nor pass an old answer on as a new one.  This is
what `AnswersStartTheirOwnTtl` says; Redis, which ends the TTL, is outside.

**The pool.**  `ContractKept` accepts an error event of a request that finds the
pool empty.  That a connection is given back on every way out, a cancellation
at any await included, is therefore not excluded by the run but by the theorem
`NothingLeaks`.

**Fairness.**  The endpoint's awaits return or time out (`LlamaCppProvider` has
60 seconds, the pool's checkout 30), a generator whose client is gone is
cancelled, the browser reads what has arrived,
the idle timer fires.  `GeminiProvider` sets no timeout of its own, and the
kiosk's timer is off while an answer streams: `ReturnsToMain` rests on the
contract's liveness.  Visitors, breaks of the connection and printers are not
fair.

**Proved.** `ChatProofs` has `LogCorrect`, `FreshnessCorrect` (that is
`FreshSpec => AnswersStartTheirOwnTtl`, from the invariant `AnswersSince`: an
answer on its way to the cache is no older than its request), `NothingLeaks` (a
connection is held during the retrieval only, a provider between its making and
the end) and `ContractSafe`: the endpoint implements the step part of
`ChatStream` (`StreamSafety`) for every number of requests and every size of the
pool.  That the stream ends, the other half of `ContractKept`, is liveness and
stays with the run.  The invariant `Kept` ties the program counter of a request
to its stream, its log rows, the answer it holds and what it has taken from the
pool; the refinement needs the answer to fit the question wherever it is kept,
in the cache too (`AnswersFit`), and that nothing is sent once a done event went
out (`DoneBeforeLog`).  `KioskProofs` has `PrintStatusCorrect` and
`PromiseCorrect`, the whole refinement of `Visit`, which has no liveness.  Its
invariant `Promised` says that the last event of a stream is the only one that
is not a status (`WireInOrder`), that a reader who has seen the done event has
nothing left to read (`FinishedIsLast`), and that the answer screen shows the
question of the last request and waits exactly as long as its answer has not
been read (`ScreenFits`).  `ReturnsToMain` is liveness and only checked.

**Observed.**  Answers given while one of the searches was down are cached like
any other; an error of the connection after the done event replaces the answer
by the apology (`useChat.ts:98`), which `Visit` allows.

## 8. Ranking and Answering

`Ranking` has the pure parts of `services/retriever.py` and `services/rag.py` as
operators: the two searches' lists, reciprocal rank fusion with the boosts of
intent and title, the deduplications, the tables added under headings, best
bets, the evidence gate.  Scores are integers (thousandths or finer), factors
are percent; texts, documents and keywords are names.  `Answering` is the path of
one question through them: each search may fail, the index may list chunks that
are gone, and a document may lose its chunks at any step, since every look-up is
a statement of its own.

| Action | Code |
|---|---|
| `SearchKeywords`, `SearchSemantic`, `Merge`, `Expand`, `PinAndFilter` | `retrieve_with_status` and `filter_evidence_candidates` |
| `AnswerWithoutEvidence`, `Draft`, `DraftInvalid` | `insufficient_response`; `generate_answer_draft` with its one repair, and `assemble_chat_response` |
| `LoseChunks` | a crawl round parses a document again, to no chunk |

The run `answering` takes every pair of lists of at most two hits over six
chunks of four documents (a heading and its table; a page one of whose chunks
has that table's text; the calendar of the best bet; a notice with that text
again), strong and weak distances, three questions, drafts with valid,
repeated and invalid numbers; the final list holds four results, the evidence
two candidates, the weights are the configured 7 to 3.

| Property | What it says |
|---|---|
| `FusionIsFair` | of two chunks with equal boost, one that neither list places behind the other comes first; no document and no text is listed twice; while there is room, every hit has in the list the document of a hit with its text |
| `TablesFollowTheirHeadings` | an added table stands right behind its heading with its score, unless that heading is dropped for the text of a table added before; the best result stays, and a table costs at most two others |
| `EvidenceIsInOrder` | the best bet is source one while it is stored; one candidate per document, in order; what only the keywords found is evidence on its boost alone |
| `AnswerRestsOnEvidence` | an answer names its sources and they are exactly the candidates its draft names; the numbers worked out again for the log are the draft's |

**Bounds.**  Agreement and disagreement of two lists, the loss of a document by
two deduplications in a row, a full list, and a heading dropped for the text of
another document's table all occur with two hits a list and four results.

**Proved** (`ChatProofs`), for every set of chunks and questions, every pair of
weights up to one, every `TopK`, `MaxCandidates` and number of keyword hits, and
whatever the searches and the model return: all four properties.  The variables
of the path are the results of pure functions, so the inductive invariant `Path`
says of which: `merged` is `MergeRanked` of the hits, `results` is what
`ExpandDetail`, `DedupRanked` and the best bet make of it with two looks at the
database, the second at no less than what is still stored; the candidates are
the evidence in the results, the response is assembled from them.  What is left
is a theorem about the functions for each property:

* `MergeFacts`, `BothListsAgree`: ranks differ by two millionths at least
  (`RanksApart`), so an equal factor between 0.7 and 1.4 keeps them apart after
  rounding; this is so up to rank `RankMax`, 600, and the code asks for twenty
  (`config.py:23`).  It is the assumption on the length of the lists.
* `ExpandFacts`, `PlacesOfTables`, `TablesFollow`: a result stands at the odd
  and its table at the even places of a list twice as long, so the places say
  what stands behind what after cutting and deduplicating; the results that are
  lost are counted by an injection into two copies of the tables.
* `EvidenceFacts`, `PinnedFacts`: scores of the list fall before and after a best
  bet is put first, so the best of every document comes in the order of the list.
* `UsedFacts`, `AssembledFacts`: the log's second search for the numbers finds
  the place each source had, for no chunk is shown by two candidates.

`AnsweringAssumption` is what the proofs take from outside: chunks have a
primary key, the index has one row for a chunk (nothing is assumed of Chroma's
hits but their number), words of a question are finitely many.

What a reader might expect and is not so: that a table always stands behind its
own heading (not when that has the text of a table added before it); that a hit
or its text is in a list with room for it (only the document of some hit with
its text is); that keywords alone need a boost of more than a sixth (only with
the configured weights).

## 9. The answer evaluation

### The run: Exp07Run

The runner asks the questions round by round, keeps every attempt, retries what
may be retried, aborts, and fingerprints the corpus before and after; nothing
keeps a crawl round from writing meanwhile (`CrawlWrites`, store by store), the
day from ending or the judge from pressing Ctrl-C.  A fingerprint is read store
by store.  The one database session stays broken once a statement has failed.
`ManifestGate` is `validate_run_artifacts`, which works out from the files what the
runner has decided.

The run `exp07_run` has 2 rounds of 2 questions, 2 attempts, an abort at 3
failures, 2 versions of the corpus, 2 days.  With four records, three failures
in a row may begin in the first round and end in the second, and may have a
success before or after them.  Two versions are one crawl round, which is enough
to be at any place between the three reads of either fingerprint.

| Property | What it says |
|---|---|
| `OneCorpus` | every answer a manifest freezes saw, in all three stores, what the published fingerprint describes |
| `FailuresCutTheRun` | a run is cut at three system errors in a row, across rounds too, for nothing less, and a broken session costs three questions at most |
| `CompletedPassesTheGate` | what the runner calls completed, the gate lets through |

Proved (`EvaluationProofs`), for every number of rounds, questions, attempts,
versions and days: `RunTypeCorrect`, `FailuresCorrect` and `OneCorpusCorrect`,
and `GateCorrect` for at most two attempts, which is `MAX_EXECUTION_ATTEMPTS`
and the number the gate has written out.
`OneCorpus` speaks of the end of a run only; its invariant says where an attempt
stands while the run goes on.  `VersionsGrow`: no version goes back, and a
fingerprint is no newer than the stores.  `AttemptsAreBetween`: what an attempt
has seen of a store lies between the first fingerprint and the store, or the
second fingerprint once it is read; the index in memory does too, unless the
BM25 file was behind, which it then was in the first fingerprint as well.  Equal
fingerprints leave no room between them.  An attempt under a broken session is
excepted until it is over, for then it is fatal.  `CounterCounts` says that the
counter is the number of system errors the records end in, which makes the
abort an equivalence.

`CompletedPassesTheGate` needs more (`OnCourse`).  `PlacesFit`: the round and the
ordinal of a record are the quotient and the remainder of its place in the file,
so that the rows of a round are consecutive lines and, sorted, the frozen order
(`RoundsAreRuns`).  `RightSoFar`: an attempt that was followed by another was
retryable.  `OneDay`: as long as the run is not cut, what is recorded began and
ended on its first day; midnight is noticed in the very record it falls into.
`AllAsked`: only a run that has asked everything leaves the loop as completed.

### Pacing: CallPacing

The limiter and the recording client of one provider: `Wait` works the delay out
once, `Start` takes the next slot, `Fails` defers it by a Retry-After.  It has no
run, for its clock has no bound; `EvaluationProofs` proves `CallsAreApart` and
`RetryAfterIsHonoured` for every interval, from the invariant that `next_start`
is never behind what either rule asks for and that a sleep is never shorter than
what was known when it began.

### The judgments: Exp07Judgments, Exp07Sheets, Exp07Tables

`Exp07Judgments` has the validators, of which there are three (JavaScript on two
pages, Python in the gate), and the derived columns of a published row.
`Exp07Sheets` follows one answer: judged on the blind sheet (`Choose`,
`LockStageOne`, `JudgeStageTwo`, `SaveStageTwo`), exported and imported in any
order, frozen (`Freeze`), revealed from any of the exports (`MakeReveal`),
reopened over what the browser has stored (`OpenReveal`), revised, reviewed,
exported, and published file by file (`WriteOutput`), which may be cut off.
`Exp07Tables` has the aggregates as sets of questions.

The run `exp07_judgment` has 2 behaviours, an answer that is right and a revision
that finds it a privacy risk, 3 locks, 3 exported files, 1 revision, an answer
that matches a pattern of private data.  Three locks are a stage one, a stage
two and one of them again after an import.  With one revision the run does not
exercise the part of `RevisionsTellTheStory` that links a revision to the one
before it; two revisions with enough exports to tell are too many states.  The
theorem `RevisionsCorrect` covers any number of them.

| Property | What it says |
|---|---|
| `RevealedBehaviorIsBlind` | unless something was imported before the snapshot, the behaviour on the reveal sheet is the one judged before the evidence was shown |
| `RevisionsTellTheStory` | what is adjudicated is a locked judgment of the blind sheet plus the recorded revisions |
| `HashesMeanOnePublication` | if the results' hashes fit the files beside them, the three are of one publication and redacted if need be |

An import before the snapshot may bring back a stage one that is then locked
again after the evidence was seen (`make_exp07_primary_sheet.py:514`); the first
property excepts it.  A reveal page that is reopened after it was made anew
keeps the row the browser has stored; the second property therefore claims some
locked judgment as the origin, and not the one the page was made from.

Proved (`EvaluationProofs`), for any number of locks, exports and revisions,
are the three properties of the run, each from an invariant of its own.
`Blind`: while nothing is imported before the freeze, the behaviour that was
locked first is that of every exported lock and of the snapshot, and a page is
made only of a row that agrees with the snapshot.  `Story`: every row
there is, of the page, the tab, localStorage and the file, is a locked row of
some export followed by a chain of revisions.  `Published`: the outputs still to
be written are the tail of one order and of one source, and those before them
are on disk and of that source, until the last is written.

Proved too, for every judgment and every table:

| Theorem | What it says |
|---|---|
| `ValidatorsAlwaysAgree` | the reveal sheet's `proposalError` and the two stages of the blind sheet accept what `validate_judgment` accepts |
| `ColumnsAlwaysAgree` | an error of behaviour is counted only where it is possible; a judged answer is a success exactly when no column shows a failure |
| `NoErrorIsLost`, `DenominatorsAddUp` | an error outside its denominator does not exist; denominator and exclusions are the questions the error is possible on |
| `EachQuestionCountsOnce` | no question is counted under two errors, or as success and error |
| `LinesExplainSuccess` | no success is on a line of the CSV that tells of a failure, and every failed question that was not an abstention is on one |

The exception is real: an abstention that fails for want of a clear notice is
counted by no line of failure, because the notice is on none.

### The retrieval's tables: RetrievalQrel

`check_v4_invariants.py` decides whether the hand-made relevance tables may be
published (`Passes`), and `score_v4.py` computes six metrics from them and from
the frozen runs.  The two share no code: they read the same files, look rows up
under normalized addresses, of which a table may hold several spellings, and
each has its own idea of what counts.  The module has both as operators on
tables of any length; nDCG is left at the gains that are summed, whose
logarithms nothing here depends on.  It has no states and no run; everything it
claims is proved (`EvaluationProofs`):

| Theorem | What it says |
|---|---|
| `TextQuestionsAreSupported` | a question with a text denominator is in the page denominator |
| `EvidenceHitsArePageHits` | a run never has an evidence hit that is no page hit, as long as it lists a chunk under the page the database has it on |
| `BehaviorFitsTheScores` | what is expected of an answer fits the denominators its question is in |
| `GainsAreWithinTheIdeal` | no retrieval gains more often than the ideal order, whatever it lists twice: no nDCG exceeds one |

The first three take `Passes` as hypothesis and would be false without it; the
lemma behind them, `EvidenceHasItsPage`, uses four of its parts.  The condition
on the runs is an assumption on the frozen files that no program checks.

## 10. What is proved, and what is only checked

Eight modules hold the theorems; each section says what its module proves and
from which invariant.  The constants are subject to the named assumptions of
their modules and to nothing else, but for "no session is lost" where section 3
says so, `MaxAttempts <= 2` in `GateCorrect` and `Interval \in Nat` in the
pacing.  Every inductive invariant but
`Paced`, which has no run, was explored by TLC on an instance of its run before
it was proved.

| Module | Invariant | Stated properties |
|---|---|---|
| `IngestionProofs` | section 3 | `TypeOK`, `KeywordsMatchContent`, `HandledIsStored`, `OneRound`, `NoContentRegression`, `IndexedHasVector`, `CompletedMeansPublished`, `CorpusSpec` |
| `Bm25CacheProofs` | `Current` | `TypeOK`, `ServedIsCurrent` |
| `CrawlControlProofs` | `Controlled` | `TypeOK`, `ServiceKnowsItsCrawl`, `StrayProgressIsOfAFailedDiscovery`, `CleanupSparesTheCrawlItSaw` |
| `ChatProofs` | `Kept`, `AnswersSince`; `Path` | `TypeOK`, `LogMatchesStream`, `AnswersStartTheirOwnTtl`, the step part of `ContractKept`; `FusionIsFair`, `TablesFollowTheirHeadings`, `EvidenceIsInOrder`, `AnswerRestsOnEvidence` |
| `KioskProofs` | `Promised` | `TypeOK`, `PrintStatusIsOurs`, `PromiseKept` |
| `EvaluationProofs` | `Sound`, `OnCourse`; `Blind`, `Story`, `Published`; `Paced` | `TypeOK`, `OneCorpus`, `FailuresCutTheRun`, `CompletedPassesTheGate`; `RevealedBehaviorIsBlind`, `RevisionsTellTheStory`, `HashesMeanOnePublication`; pacing; without states: judgments, tables, relevance |
| `CatalogueProofs` | `Agreed`, `DiscoveryKeeps` | `LabelsAgree`, `TargetsAreSound`, `NothingListedIsLost` |
| `ListProofs` | | lemmas about the lists of `Sublists` |

Every invariant and action property a passing run checks is proved, and so is
the step part of every refinement.  All liveness (`Recovers`, `FilesCatchUp`,
`StaleJobsEnd`, `CrawlEnds`, the end of every stream in `ContractKept`,
`ReturnsToMain`) stays with TLC: liveness under fairness and
ENABLED are out of the prover's reach.  Where an induction over the places of a
list is needed, it is done by the least counterexample (`LeastNatural`), which
needs no operator as a parameter; for the same reason the cardinality of an image
is counted by `ImageCounted` and not by the library's theorem.

## 11. Findings

**A dropped session lets two rounds overlap** (`two_rounds`).  Between
`embed.py:146`, which reads the chroma_ids in use, and the delete at line 151
the round does not notice that its session, and with it the lock, is gone.
The next round embeds new chunks, the first deletes their vectors as orphans,
and the second marks their rows.  Such rows are never pending again, although
`docs/kiosk/plans/2026-05-06-phase-4-indexing-search-rag.md:28` says that a
`chroma_id` points at a real vector.

Smaller observations stand where they belong: sections 4 (watermarks), 5
(stale jobs, artifact), 7 (caching, late errors) and 9 (imports, abstentions).

## 12. Not modelled

| Part | Why |
|---|---|
| Parsing (`parse.py`, `parsers/`) | data transformation by browser and PDF libraries.  Its page pool and the PDF thread, which outlives the timeout of its document (`parse.py:249`), would be a component of their own |
| Embedding providers | HTTP clients without state that outlives a call; their failures are `Raise` in Ingestion and the failed searches of Answering |
| Categories, admin listings, query log listings | read-only queries |
| Print service | a stateless endpoint in front of a printer; the kiosk's side is in `Kiosk` |
| Conflict scan | a stub |
| Schema and sessions | migrations and factories; the constraints that matter are in the shape of the variables, the pool in `ChatEndpoint` |
| Retrieval evaluation, in part | the pooling of candidates, the judgment sheets, the audit sample and the numerical value of nDCG |
| Answer assembly, in part | JSON schema, prompt, conflict warnings, freshness |
| Judging, in part | rendering of the pages, the second judge's sheet |
| Fetch cache, in part | a late task that runs on while another round of its process reads the cache first finds the file instead of the site: it then writes nothing, as `LateStore` may; files are written whole |

Further hazards of the code, beside those in `PROJECT.json`:

| Line | Hazard | Where it is looked at |
|---|---|---|
| `worker/tasks/crawl.py:773` | new content without a chunk must be parsed again although its hash matches | `HandledCorrect` |
| `worker/tasks/crawl.py:744` | a year that is listed twice, or a PDF that a menu links, gives two targets of one URL | `PdfAssumption` excludes it |
| `worker/tasks/crawl.py:689` | a page of a menu that only the last validation finds is not searched for posts | section 6 |
| `worker/tasks/parse.py:39` | the hash covers menu labels: a menu that was not read changes it, and the unchanged page is embedded again | costs work only |
| `worker/tasks/parse.py:249` | a timeout cancels the coroutine and not the PDF thread | nowhere |
| `worker/tasks/metadata.py:117` | a page kind the accepted ones lack counts as changed in every refresh | `Coerced` in `Catalogue`; the row keeps its value |
| `worker/tasks/metadata.py:154`, `216` | plan and rows are read before the writes, and a round may write in between | `LabelsAgree`, after the next full refresh |
| `backend/app/services/retriever.py:543`, `770`, `292` | documents that lose chunks under one watermark; look-ups after the searches; keyword hits of score zero | section 4; `TablesFollowTheirHeadings` and `EvidenceIsInOrder` |
| `backend/app/api/routes/chat.py:46` | the lazy retriever exposes only `retrieve`, so a degraded search is reported as a whole one | nowhere |
| `chat.py:164`, `357` | the provider is closed after the error event; a cache client without a TTL argument keeps answers for good | `ContractKept`; `Expire` assumes the client of production, which has one |
| `eval/run_exp07.py:145` | Retry-After and the interval move one slot while a sleep may end late | `CallsAreApart`, `RetryAfterIsHonoured` |
| `eval/run_exp07.py:456` | a search with one half down counts as a successful attempt | nowhere; the mode is published |
| `eval/run_exp07.py:839`, `843` | failures are counted across rounds; midnight in the last question | `FailuresCutTheRun`, `CompletedPassesTheGate` |
| `eval/make_exp07_primary_sheet.py:440`, `498` | two validators in two languages; axes of a hold that was taken back | `ValidatorsAlwaysAgree`; the gate refuses them |
| `eval/publish_exp07.py:202` | every rate has a denominator of its own | the theorems on tables |

## 13. Running

    tlc -workers 2 -config MCIngestion_crash.cfg MCIngestion.tla
    tlc -workers 2 -config MCBm25Cache_serve.cfg MCBm25Cache.tla
    tlc -workers 2 -config CrawlControl_control.cfg CrawlControl.tla
    tlc -workers 2 -config MCCatalogue_refresh.cfg MCCatalogue.tla
    tlc -workers 2 -config MCChat_service.cfg MCChat.tla
    tlc -workers 2 -config MCKiosk_visit.cfg MCKiosk.tla
    tlc -workers 2 -config MCAnswering_pipeline.cfg MCAnswering.tla
    tlc -workers 2 -config Exp07Run_run.cfg Exp07Run.tla
    tlc -workers 2 -config MCExp07Sheets_judgment.cfg MCExp07Sheets.tla
    tlapm IngestionProofs.tla
    tlapm Bm25CacheProofs.tla

and likewise the other `.cfg` files and the other modules of section 10.  Every
run ends within five minutes on two cores.  `PROJECT.json` lists runs, theorems,
the source lines of every definition and, for every property, a variant of the
model (`...Anyhow`, `...Early` and the like, next to the definition it replaces)
under which TLC finds it violated.
