----------------------------- MODULE CrawlControl -----------------------------
(***************************************************************************)
(* Who starts crawls, and what is said about them afterwards.              *)
(*                                                                         *)
(* The worker's CrawlTriggerService runs one crawl at a time, on request   *)
(* or on schedule, and keeps a status in memory.  Command lines run the    *)
(* same pipeline beside it.  Every crawl discovers its artifact, runs a     *)
(* round under the advisory lock with a crawl_jobs row of its own, and     *)
(* writes the target artifact.  The admin status of the backend asks the   *)
(* worker for its status and then marks job rows it takes for stale as     *)
(* failed.                                                                 *)
(*                                                                         *)
(* What happens inside the round is the module Ingestion.  A critical      *)
(* section of the service's asyncio.Lock contains no await, so each is one *)
(* step, and so are two that follow one another without an await between.  *)
(***************************************************************************)
EXTENDS Naturals, FiniteSets

CONSTANTS
    Cli,         \* command lines that may run the pipeline
    Admin,       \* admin status requests in flight
    Nobody,      \* lock value when nobody holds it
    MaxRuns,     \* bound: number of crawls
    MaxFaults    \* bound: number of processes that die and sessions lost

ASSUME ConstantsAssumption ==
    /\ MaxRuns \in Nat
    /\ MaxFaults \in Nat
    /\ "worker" \notin Cli
    /\ Nobody \notin 1..MaxRuns

Run == 1..MaxRuns
Owner == Cli \union {"worker"}
Discovery == {"html", "pdf"}

VARIABLES
    started,   \* number of crawls started
    clock,     \* number of start times taken
    owner,     \* owner[r]: process of the crawl r
    discovers, \* discovers[r]: whether r runs the discovery phase
    at,        \* at[r]: where the crawl r stands
    pending,   \* pending[r]: discoveries of r that still run
    job,       \* job[r]: crawl_jobs.status of r; "none": no row
    jobAt,     \* jobAt[r]: crawl_jobs.started_at of r
    lock,      \* crawl whose session holds the advisory lock
    artifact,  \* crawl whose targets the artifact file lists; 0: no file
    task,      \* CrawlTriggerService._task: its crawl; 0: None
    status,    \* CrawlTriggerService._status
    startedAt, \* CrawlTriggerService._started_at; 0: None
    progress,  \* crawl that _current_stage, _processed_pages, _total_pages
               \* speak of; 0: none
    snapshot,  \* snapshot[a]: the worker status the request a has fetched
    faults     \* number of faults so far

crawls == <<started, owner, discovers>>
jobs == <<job, jobAt>>
service == <<task, status, startedAt, progress>>
vars == <<crawls, clock, at, pending, jobs, lock, artifact, service, snapshot,
          faults>>

NotFetched == [fetched |-> FALSE, status |-> "idle", startedAt |-> 0]

GoTo(r, label) == at' = [at EXCEPT ![r] = label]

\* Crawls that have started and neither ended nor died.
Live(r) == at[r] \notin {"unused", "done", "dead"}

Init ==
    /\ started = 0
    /\ clock = 0
    /\ owner = [r \in Run |-> "worker"]
    /\ discovers = [r \in Run |-> FALSE]
    /\ at = [r \in Run |-> "unused"]
    /\ pending = [r \in Run |-> {}]
    /\ job = [r \in Run |-> "none"]
    /\ jobAt = [r \in Run |-> 0]
    /\ lock = Nobody
    /\ artifact = 0
    /\ task = 0
    /\ status = "idle"
    /\ startedAt = 0
    /\ progress = 0
    /\ snapshot = [a \in Admin |-> NotFetched]
    /\ faults = 0

-----------------------------------------------------------------------------
(* The crawl r of process p starts, with or without a discovery phase.     *)

Begin(r, p, discovery) ==
    /\ r = started + 1
    /\ started' = r
    /\ owner' = [owner EXCEPT ![r] = p]
    /\ discovers' = [discovers EXCEPT ![r] = discovery]
    /\ GoTo(r, IF discovery THEN "discover" ELSE "ready")
    /\ pending' = [pending EXCEPT ![r] = IF discovery THEN Discovery ELSE {}]

\* trigger and run_scheduled start nothing while a task runs.  Variant: one
\* of them does not look.
MayStartAnyhow == TRUE
MayStart == task = 0

(***************************************************************************)
(* trigger, run_scheduled: with a task the first answers already_running   *)
(* and the second returns, which changes nothing.  run_crawl always runs   *)
(* every phase.                                                            *)
(***************************************************************************)
Trigger(r) ==
    /\ MayStart
    /\ Begin(r, "worker", TRUE)
    /\ clock' = clock + 1
    /\ task' = r
    /\ status' = "running"
    /\ startedAt' = clock'
    /\ progress' = r
    /\ UNCHANGED <<jobs, lock, artifact, snapshot, faults>>

\* python -m tasks.pipeline; one that starts later takes what it needs from
\* the artifact or the database.
StartCli(r, c) ==
    /\ \A q \in Run : owner[q] = c => ~Live(q)
    /\ \E discovery \in BOOLEAN : Begin(r, c, discovery)
    /\ UNCHANGED <<clock, jobs, lock, artifact, service, snapshot, faults>>

-----------------------------------------------------------------------------
(* _resolve_targets gathers the two discoveries.                           *)

\* update_progress, which does not know who calls it.
Report(r, part) ==
    /\ owner[r] = "worker"
    /\ part \in pending[r]
    /\ progress' = r
    /\ UNCHANGED <<crawls, clock, at, pending, jobs, lock, artifact, task,
                   status, startedAt, snapshot, faults>>

\* gather returns when every discovery has.  Variant: with the first.
FirstDone(r, part) == part \in pending[r]
AllDone(r, part) == pending[r] = {part}

DiscoveryDone(r, part) ==
    /\ part \in pending[r]
    /\ pending' = [pending EXCEPT ![r] = @ \ {part}]
    /\ IF at[r] = "discover" /\ AllDone(r, part)
       THEN GoTo(r, "ready")
       ELSE UNCHANGED at
    /\ UNCHANGED <<crawls, clock, jobs, lock, artifact, service, snapshot,
                   faults>>

\* gather raises at once, and the other discovery goes on without it.
DiscoveryFails(r, part) ==
    /\ part \in pending[r]
    /\ pending' = [pending EXCEPT ![r] = @ \ {part}]
    /\ IF at[r] = "discover" THEN GoTo(r, "failing") ELSE UNCHANGED at
    /\ UNCHANGED <<crawls, clock, jobs, lock, artifact, service, snapshot,
                   faults>>

-----------------------------------------------------------------------------
(* execute_ingestion and what run_pipeline does with its result.           *)

Acquire(r) ==
    /\ at[r] = "ready"
    /\ lock = Nobody
    /\ lock' = r
    /\ clock' = clock + 1
    /\ job' = [job EXCEPT ![r] = "running"]
    /\ jobAt' = [jobAt EXCEPT ![r] = clock']
    /\ GoTo(r, "round")
    /\ UNCHANGED <<crawls, pending, artifact, service, snapshot, faults>>

\* Another session holds the lock: no job row, no artifact.
Skip(r) ==
    /\ at[r] = "ready"
    /\ lock # Nobody
    /\ GoTo(r, "skipping")
    /\ UNCHANGED <<crawls, clock, pending, jobs, lock, artifact, service,
                   snapshot, faults>>

\* finish_crawl_job overwrites whatever the row says.  A failed index pass
\* fails the job and returns normally.
FinishRound(r) ==
    /\ at[r] = "round"
    /\ \E outcome \in {"completed", "failed"} :
         job' = [job EXCEPT ![r] = outcome]
    /\ lock' = Nobody
    /\ GoTo(r, IF discovers[r] THEN "writing" ELSE "completing")
    /\ UNCHANGED <<crawls, clock, pending, jobAt, artifact, service, snapshot,
                   faults>>

\* Any other exception fails the job too and ends the crawl.
RoundFails(r) ==
    /\ at[r] = "round"
    /\ job' = [job EXCEPT ![r] = "failed"]
    /\ lock' = Nobody
    /\ GoTo(r, "failing")
    /\ UNCHANGED <<crawls, clock, pending, jobAt, artifact, service, snapshot,
                   faults>>

\* The artifact is replaced atomically, after the lock has been released.
WriteArtifact(r) ==
    /\ at[r] = "writing"
    /\ artifact' = r
    /\ GoTo(r, "completing")
    /\ UNCHANGED <<crawls, clock, pending, jobs, lock, service,
                   snapshot, faults>>

\* An exception where no job row can be written: no database, no artifact to
\* read, a lost session, or an artifact that cannot be written.
Break(r) ==
    /\ at[r] \in {"ready", "cut", "writing"}
    /\ GoTo(r, "failing")
    /\ UNCHANGED <<crawls, clock, pending, jobs, lock, artifact, service,
                   snapshot, faults>>

(***************************************************************************)
(* The crawl is over.  In the worker _run records the result and clears    *)
(* the task; a discovery may be left over.  A command line ends with all   *)
(* its coroutines.                                                         *)
(***************************************************************************)

\* Variants: a skip returns before it sets the status; the status is not
\* translated.
ResultUnlessSkipped(r) ==
    CASE at[r] = "completing" -> "completed"
      [] at[r] = "skipping" -> status
      [] at[r] = "failing" -> "failed"
ResultAsLabel(r) == at[r]
Result(r) ==
    CASE at[r] = "completing" -> "completed"
      [] at[r] = "skipping" -> "skipped"
      [] at[r] = "failing" -> "failed"

End(r) ==
    /\ at[r] \in {"completing", "skipping", "failing"}
    /\ GoTo(r, "done")
    /\ IF owner[r] = "worker"
       THEN /\ status' = Result(r)
            /\ progress' = r
            /\ task' = IF task = r THEN 0 ELSE task
            /\ UNCHANGED <<startedAt, pending>>
       ELSE /\ pending' = [pending EXCEPT ![r] = {}]
            /\ UNCHANGED service
    /\ UNCHANGED <<crawls, clock, jobs, lock, artifact, snapshot, faults>>

-----------------------------------------------------------------------------
(* Faults *)

(***************************************************************************)
(* A process dies: its coroutines and its session end, its rows stay.  The *)
(* worker's container restarts it with a fresh service.                    *)
(***************************************************************************)
Crash(p) ==
    /\ faults < MaxFaults
    /\ faults' = faults + 1
    /\ at' = [r \in Run |-> IF owner[r] = p /\ Live(r) THEN "dead" ELSE at[r]]
    /\ pending' = [r \in Run |-> IF owner[r] = p THEN {} ELSE pending[r]]
    /\ lock' = IF lock # Nobody /\ owner[lock] = p THEN Nobody ELSE lock
    /\ IF p = "worker"
       THEN /\ task' = 0
            /\ status' = "idle"
            /\ startedAt' = 0
            /\ progress' = 0
       ELSE UNCHANGED service
    /\ UNCHANGED <<crawls, clock, jobs, artifact, snapshot>>

\* The server drops the session of the round; the handler of the exception
\* at the next statement cannot write the row either.
LoseSession(r) ==
    /\ at[r] = "round"
    /\ faults < MaxFaults
    /\ faults' = faults + 1
    /\ lock' = Nobody
    /\ GoTo(r, "cut")
    /\ UNCHANGED <<crawls, clock, pending, jobs, artifact, service, snapshot>>

-----------------------------------------------------------------------------
(* The admin status.                                                       *)

\* fetch_worker_crawl_status; a failed request ends the cleanup at once.
FetchStatus(a) ==
    /\ ~snapshot[a].fetched
    /\ snapshot' = [snapshot EXCEPT ![a] =
          [fetched |-> TRUE, status |-> status, startedAt |-> startedAt]]
    /\ UNCHANGED <<crawls, clock, at, pending, jobs, lock, artifact, service,
                   faults>>

\* The rows cleanup_stale_running_crawl_jobs updates.  Variants: the start
\* time does not matter; the row's status does not; only an idle worker lets
\* rows be cleaned up.
StaleWhenever(a, r) == job[r] = "running"
StaleIfIdle(a, r) == job[r] = "running" /\ snapshot[a].status = "idle"
Stale(a, r) ==
    /\ job[r] = "running"
    /\ snapshot[a].status = "running" => jobAt[r] < snapshot[a].startedAt

Cleanup(a) ==
    /\ snapshot[a].fetched
    /\ job' = [r \in Run |-> IF Stale(a, r) THEN "failed" ELSE job[r]]
    /\ snapshot' = [snapshot EXCEPT ![a] = NotFetched]
    /\ UNCHANGED <<crawls, clock, at, pending, jobAt, lock, artifact, service,
                   faults>>

-----------------------------------------------------------------------------
\* What the coroutines of the crawl r do, whoever runs it.
Discover(r) ==
    \E part \in Discovery :
        Report(r, part) \/ DiscoveryDone(r, part) \/ DiscoveryFails(r, part)

Ingest(r) ==
    \/ Acquire(r) \/ Skip(r)
    \/ FinishRound(r) \/ RoundFails(r)
    \/ WriteArtifact(r)
    \/ Break(r)
    \/ End(r)

Next ==
    \/ \E r \in Run : Trigger(r) \/ Discover(r) \/ Ingest(r) \/ LoseSession(r)
    \/ \E r \in Run, c \in Cli : StartCli(r, c)
    \/ \E p \in Owner : Crash(p)
    \/ \E a \in Admin : FetchStatus(a) \/ Cleanup(a)

Spec == Init /\ [][Next]_vars

\* Fetches time out, so a discovery ends; asyncio runs a crawl on; the admin
\* page asks every three seconds while it is open.
Fairness ==
    /\ \A r \in Run, part \in Discovery :
         WF_vars(DiscoveryDone(r, part) \/ DiscoveryFails(r, part))
    /\ \A r \in Run : WF_vars(Ingest(r))
    /\ \A a \in Admin : WF_vars(FetchStatus(a)) /\ WF_vars(Cleanup(a))

FairSpec == Spec /\ Fairness

-----------------------------------------------------------------------------
(* Properties *)

Label == {"unused", "discover", "ready", "round", "cut", "writing",
          "completing", "skipping", "failing", "done", "dead"}
JobStatus == {"none", "running", "completed", "failed"}
ServiceStatus == {"idle", "running", "skipped", "completed", "failed"}
Time == 0..(2 * MaxRuns)

\* Every variable holds a value of its domain.
TypeOK ==
    /\ started \in 0..MaxRuns
    /\ clock \in Time
    /\ owner \in [Run -> Owner]
    /\ discovers \in [Run -> BOOLEAN]
    /\ at \in [Run -> Label]
    /\ pending \in [Run -> SUBSET Discovery]
    /\ job \in [Run -> JobStatus]
    /\ jobAt \in [Run -> Time]
    /\ lock \in Run \union {Nobody}
    /\ artifact \in 0..MaxRuns
    /\ task \in 0..MaxRuns
    /\ status \in ServiceStatus
    /\ startedAt \in Time
    /\ progress \in 0..MaxRuns
    /\ snapshot \in [Admin -> [fetched : BOOLEAN, status : ServiceStatus,
                               startedAt : Time]]
    /\ faults \in 0..MaxFaults

\* The service says running exactly while it has a crawl, and it knows that
\* crawl: no second one beside it, none forgotten.
ServiceKnowsItsCrawl ==
    /\ (status = "running") = (task # 0)
    /\ \A r \in Run : owner[r] = "worker" => (Live(r) <=> task = r)

\* A cleanup that saw the worker running spares the row of the crawl it saw,
\* and of any that the worker has started since.
CleanupSparesTheCrawlItSaw ==
    [][\A a \in Admin, r \in Run :
          /\ Cleanup(a)
          /\ snapshot[a].status = "running"
          /\ owner[r] = "worker" /\ Live(r)
          => job'[r] = job[r]]_vars

\* The service may show the progress of another crawl than the one it runs,
\* but only of one that has failed to discover its targets: a crawl that got
\* as far as a round never disturbs a later one.
StrayProgressIsOfAFailedDiscovery ==
    status = "running" /\ progress # task =>
        at[progress] = "done" /\ job[progress] = "none"

\* The row of a crawl that died or lost its session does not stay running.
StaleJobsEnd ==
    \A r \in Run : at[r] \in {"dead", "cut"} ~> job[r] # "running"

\* A crawl the service says is running ends.
CrawlEnds == status = "running" ~> status # "running"
=============================================================================
