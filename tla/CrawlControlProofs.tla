------------------------- MODULE CrawlControlProofs -------------------------
(***************************************************************************)
(* What the crawl service knows, shows and cleans up, for every number of  *)
(* crawls, command lines, admin requests and faults.                       *)
(***************************************************************************)
EXTENDS CrawlControl, FiniteSetTheorems, TLAPS

\* Crawls whose round has begun: each has taken a start time for its row.
Begun == {r \in Run : job[r] # "none"}

\* A crawl that has not begun its round has no row, one in its round has one,
\* and one that has not started is unused.
RowsBegin ==
    /\ \A r \in Run : r > started => at[r] = "unused"
    /\ \A r \in Run : at[r] \in {"unused", "discover", "ready"} => job[r] = "none"
    /\ \A r \in Run : at[r] = "round" => job[r] # "none"

\* A discovery outlives its phase only when the other one has failed, and
\* then the crawl has no round.
LeftoversAreOfFailures ==
    \A r \in Run : pending[r] # {} /\ at[r] # "discover" =>
        at[r] \in {"failing", "done"} /\ job[r] = "none"

\* Start times: every crawl and every round takes one, so they are bounded;
\* what the service says of its crawl is no older than any status fetched
\* from it, and older than the row of that crawl.
TimesAgree ==
    /\ clock <= started + Cardinality(Begun)
    /\ startedAt <= clock
    /\ \A a \in Admin : snapshot[a].startedAt <= clock
    /\ task # 0 => \A a \in Admin : snapshot[a].startedAt <= startedAt
    /\ \A r \in Run : owner[r] = "worker" /\ Live(r) /\ job[r] # "none" =>
                          startedAt < jobAt[r]

\* Progress is shown once there is a crawl.
ProgressShown == task # 0 => progress # 0

Controlled ==
    /\ TypeOK /\ ServiceKnowsItsCrawl /\ StrayProgressIsOfAFailedDiscovery
    /\ RowsBegin /\ LeftoversAreOfFailures /\ TimesAgree /\ ProgressShown
-----------------------------------------------------------------------------
\* Crawls can be counted, and there are at most MaxRuns.
LEMMA RunsCount ==
    ASSUME NEW S \in SUBSET Run
    PROVE  IsFiniteSet(S) /\ Cardinality(S) \in 0..MaxRuns
  <1>1. IsFiniteSet(Run) /\ Cardinality(Run) = MaxRuns
    BY ConstantsAssumption, FS_Interval DEF Run
  <1>2. IsFiniteSet(S) /\ Cardinality(S) <= MaxRuns
    BY <1>1, FS_Subset
  <1> QED
    BY <1>2, FS_CardinalityType, ConstantsAssumption

LEMMA BegunCount == IsFiniteSet(Begun) /\ Cardinality(Begun) \in 0..MaxRuns
  BY RunsCount DEF Begun

\* Every start time is paid for by a crawl that starts or a round that begins.
LEMMA ClockStep ==
    ASSUME Controlled, [Next]_vars
    PROVE  clock' \in Nat /\ clock' <= started' + Cardinality(Begun')
  <1> USE DEF Controlled, TypeOK, TimesAgree, Time
  <1>0. /\ clock \in Nat /\ started \in Nat /\ Cardinality(Begun) \in Nat
        /\ clock <= started + Cardinality(Begun)
    BY BegunCount, ConstantsAssumption
  <1>1. ASSUME NEW r \in Run, Trigger(r) PROVE clock' = clock + 1 /\ started' = started + 1 /\ Begun' = Begun
    BY <1>1 DEF Trigger, Begin, Begun, jobs
  <1>2. ASSUME NEW r \in Run, Acquire(r)
        PROVE  clock' = clock + 1 /\ started' = started
               /\ Cardinality(Begun') = Cardinality(Begun) + 1
    <2>1. r \notin Begun /\ Begun' = Begun \union {r}
      BY <1>2 DEF Acquire, Begun, RowsBegin, JobStatus
    <2>2. Cardinality(Begun \union {r}) = Cardinality(Begun) + 1
      BY <2>1, BegunCount, FS_AddElement
    <2> QED
      BY <1>2, <2>1, <2>2 DEF Acquire, crawls
  <1>3. ASSUME NEW r \in Run, NEW c \in Cli, StartCli(r, c)
        PROVE  clock' = clock /\ started' = started + 1 /\ Begun' = Begun
    BY <1>3 DEF StartCli, Begin, Begun, jobs
  <1>4. CASE /\ \A r \in Run : ~Trigger(r) /\ ~Acquire(r)
             /\ \A r \in Run, c \in Cli : ~StartCli(r, c)
    <2>1. clock' = clock /\ started' = started
      BY <1>4 DEF Next, Discover, Report, DiscoveryDone, DiscoveryFails, Ingest,
           Skip, FinishRound, RoundFails, WriteArtifact, Break, End, LoseSession,
           Crash, FetchStatus, Cleanup, crawls, vars
    <2>2. Begun' = Begun
      BY <1>4 DEF Next, Discover, Report, DiscoveryDone, DiscoveryFails, Ingest,
           Skip, FinishRound, RoundFails, WriteArtifact, Break, End, LoseSession,
           Crash, FetchStatus, Cleanup, Stale, jobs, vars, Begun, RowsBegin, JobStatus
    <2> QED
      BY <1>0, <2>1, <2>2
  <1> QED
    BY <1>0, <1>1, <1>2, <1>3, <1>4

\* A step keeps every variable in its domain.
LEMMA TypeStep ==
    ASSUME Controlled, [Next]_vars
    PROVE  TypeOK'
  <1> USE DEF Controlled, TypeOK, Label, JobStatus, ServiceStatus, Discovery
  <1>1. started' \in 0..MaxRuns
    <2>1. started' = started \/ started' \in Run
      BY DEF Next, Trigger, StartCli, Begin, Discover, Report, DiscoveryDone,
         DiscoveryFails, Ingest, Acquire, Skip, FinishRound, RoundFails, WriteArtifact,
         Break, End, LoseSession, Crash, FetchStatus, Cleanup, crawls, vars
    <2> QED
      BY <2>1, ConstantsAssumption DEF Run
  <1>2. clock' \in Time
    <2>1. Cardinality(Begun') \in 0..MaxRuns
      BY RunsCount DEF Begun
    <2> QED
      BY <1>1, <2>1, ClockStep, ConstantsAssumption DEF Time
  <1>3. ASSUME NEW r \in Run, Trigger(r) PROVE TypeOK'
    BY <1>1, <1>2, <1>3 DEF Trigger, Begin, GoTo, jobs, Owner
  <1>4. ASSUME NEW r \in Run, NEW c \in Cli, StartCli(r, c) PROVE TypeOK'
    BY <1>1, <1>2, <1>4 DEF StartCli, Begin, GoTo, jobs, service, Owner
  <1>5. ASSUME NEW r \in Run, Discover(r) PROVE TypeOK'
    BY <1>1, <1>2, <1>5
    DEF Discover, Report, DiscoveryDone, DiscoveryFails, GoTo, Run, crawls, jobs, service
  <1>6. ASSUME NEW r \in Run, Acquire(r) PROVE TypeOK'
    BY <1>1, <1>2, <1>6 DEF Acquire, GoTo, crawls, service
  <1>7. ASSUME NEW r \in Run,
               Skip(r) \/ FinishRound(r) \/ RoundFails(r) \/ WriteArtifact(r) \/ Break(r)
        PROVE TypeOK'
    <2>1. CASE Skip(r) \/ Break(r)
      <3>1. at' \in [Run -> Label]
        BY <2>1 DEF Skip, Break, GoTo
      <3> QED
        BY <2>1, <3>1 DEF Skip, Break, crawls, jobs, service
    <2>2. CASE FinishRound(r) \/ RoundFails(r)
      BY <1>1, <1>2, <2>2 DEF FinishRound, RoundFails, GoTo, crawls, service
    <2>3. CASE WriteArtifact(r)
      BY <1>1, <1>2, <2>3 DEF WriteArtifact, GoTo, Run, crawls, jobs, service
    <2> QED
      BY <1>7, <2>1, <2>2, <2>3
  <1>8. ASSUME NEW r \in Run, End(r) PROVE TypeOK'
    <2>1. Result(r) \in ServiceStatus
      BY <1>8 DEF End, Result
    <2>2. CASE owner[r] = "worker"
      BY <1>1, <1>2, <1>8, <2>1, <2>2, ConstantsAssumption DEF End, GoTo, Run, crawls, jobs
    <2>3. CASE owner[r] # "worker"
      BY <1>1, <1>2, <1>8, <2>3 DEF End, GoTo, crawls, jobs, service
    <2> QED
      BY <2>2, <2>3
  <1>9. ASSUME NEW r \in Run, LoseSession(r) PROVE TypeOK'
    BY <1>1, <1>2, <1>9, ConstantsAssumption DEF LoseSession, GoTo, crawls, jobs, service
  <1>10. ASSUME NEW p \in Owner, Crash(p) PROVE TypeOK'
    BY <1>1, <1>2, <1>10, ConstantsAssumption DEF Crash, Time, crawls, jobs, service
  <1>11. ASSUME NEW a \in Admin, FetchStatus(a) PROVE TypeOK'
    <2>1. snapshot' \in [Admin -> [fetched : BOOLEAN, status : ServiceStatus,
                                   startedAt : Time]]
      BY <1>11 DEF FetchStatus
    <2> QED
      BY <1>1, <1>2, <1>11, <2>1 DEF FetchStatus, crawls, jobs, service
  <1>12. ASSUME NEW a \in Admin, Cleanup(a) PROVE TypeOK'
    <2>1. NotFetched \in [fetched : BOOLEAN, status : ServiceStatus, startedAt : Time]
      BY ConstantsAssumption DEF NotFetched, Time
    <2> QED
      BY <1>1, <1>2, <1>12, <2>1 DEF Cleanup, crawls, jobs, service
  <1>13. CASE UNCHANGED vars
    BY <1>1, <1>2, <1>13 DEF vars, crawls, jobs, service
  <1> QED
    BY <1>3, <1>4, <1>5, <1>6, <1>7, <1>8, <1>9, <1>10, <1>11, <1>12,
       <1>13 DEF Next, Ingest

\* A discovery moves its crawl on only while it is in that phase.
LEMMA DiscoverEffect ==
    ASSUME TypeOK, NEW r \in Run, Discover(r)
    PROVE  /\ UNCHANGED <<started, owner, job, task, status>>
           /\ progress' # progress => progress' = r /\ r # 0
           /\ \A q \in Run : \/ at'[q] = at[q]
                             \/ at[q] = "discover" /\ at'[q] \in {"ready", "failing"}
  <1>1. PICK part \in Discovery :
            Report(r, part) \/ DiscoveryDone(r, part) \/ DiscoveryFails(r, part)
    BY DEF Discover
  <1>2. r # 0
    BY DEF Run
  <1>3. at \in [Run -> Label]
    BY DEF TypeOK
  <1>4. CASE Report(r, part)
    BY <1>2, <1>4 DEF Report, crawls, jobs
  <1>5. CASE DiscoveryDone(r, part)
    BY <1>3, <1>5 DEF DiscoveryDone, GoTo, crawls, jobs, service
  <1>6. CASE DiscoveryFails(r, part)
    BY <1>3, <1>6 DEF DiscoveryFails, GoTo, crawls, jobs, service
  <1> QED
    BY <1>1, <1>4, <1>5, <1>6

\* A crawl gets its row when its round begins and not before.
LEMMA RowsStep ==
    ASSUME Controlled, [Next]_vars
    PROVE  RowsBegin'
  <1> USE DEF Controlled, TypeOK, RowsBegin, Run
  <1>1. ASSUME NEW r \in Run, Trigger(r) PROVE RowsBegin'
    BY <1>1, ConstantsAssumption DEF Trigger, Begin, GoTo, jobs
  <1>2. ASSUME NEW r \in Run, NEW c \in Cli, StartCli(r, c) PROVE RowsBegin'
    BY <1>2, ConstantsAssumption DEF StartCli, Begin, GoTo, jobs
  <1>3. ASSUME NEW r \in Run, Discover(r) PROVE RowsBegin'
    BY <1>3, DiscoverEffect
  <1>4. ASSUME NEW r \in Run, Ingest(r) PROVE RowsBegin'
    <2>1. CASE Acquire(r)
      BY <2>1 DEF Acquire, GoTo, crawls
    <2>2. CASE FinishRound(r) \/ RoundFails(r)
      <3>1. PICK label \in {"writing", "completing", "failing"},
                 outcome \in {"completed", "failed"} :
              /\ at' = [at EXCEPT ![r] = label] /\ job' = [job EXCEPT ![r] = outcome]
              /\ at[r] = "round" /\ started' = started
        <4> HIDE DEF Controlled, Run
        <4> QED
          BY <2>2 DEF FinishRound, RoundFails, GoTo, crawls
      <3>2. r \in 1..started
        BY <3>1, ConstantsAssumption
      <3> QED
        BY <3>1, <3>2
    <2>3. CASE Skip(r) \/ WriteArtifact(r) \/ Break(r) \/ End(r)
      BY <2>3 DEF Skip, WriteArtifact, Break, End, GoTo, crawls, jobs
    <2> QED
      BY <1>4, <2>1, <2>2, <2>3 DEF Ingest
  <1>5. ASSUME NEW r \in Run, LoseSession(r) PROVE RowsBegin'
    BY <1>5 DEF LoseSession, GoTo, crawls, jobs
  <1>6. ASSUME NEW p \in Owner, Crash(p) PROVE RowsBegin'
    BY <1>6 DEF Crash, Live, crawls, jobs
  <1>7. ASSUME NEW a \in Admin, Cleanup(a) PROVE RowsBegin'
    BY <1>7 DEF Cleanup, Stale, crawls
  <1>8. ASSUME NEW a \in Admin, FetchStatus(a) PROVE RowsBegin'
    BY <1>8 DEF FetchStatus, crawls, jobs
  <1>9. CASE UNCHANGED vars
    BY <1>9 DEF vars, crawls, jobs
  <1> QED
    BY <1>1, <1>2, <1>3, <1>4, <1>5, <1>6, <1>7, <1>8, <1>9 DEF Next

\* A discovery that goes on after its phase belongs to a crawl that failed.
LEMMA LeftoversStep ==
    ASSUME Controlled, [Next]_vars
    PROVE  LeftoversAreOfFailures'
  <1> USE DEF Controlled, TypeOK, RowsBegin, LeftoversAreOfFailures, Label
  <1>1. ASSUME NEW r \in Run, Trigger(r) PROVE LeftoversAreOfFailures'
    BY <1>1 DEF Trigger, Begin, GoTo, jobs
  <1>2. ASSUME NEW r \in Run, NEW c \in Cli, StartCli(r, c) PROVE LeftoversAreOfFailures'
    BY <1>2 DEF StartCli, Begin, GoTo, jobs
  <1>3. ASSUME NEW r \in Run, Discover(r) PROVE LeftoversAreOfFailures'
    <2>1. CASE \E part \in Discovery : Report(r, part)
      BY <2>1 DEF Report, crawls, jobs
    <2>2. CASE \E part \in Discovery : DiscoveryDone(r, part)
      BY <2>2 DEF DiscoveryDone, AllDone, GoTo, jobs
    <2>3. CASE \E part \in Discovery : DiscoveryFails(r, part)
      BY <2>3 DEF DiscoveryFails, GoTo, jobs
    <2> QED
      BY <1>3, <2>1, <2>2, <2>3 DEF Discover
  <1>4. ASSUME NEW r \in Run, Ingest(r) PROVE LeftoversAreOfFailures'
    <2>1. CASE Acquire(r)
      BY <2>1 DEF Acquire, GoTo
    <2>2. CASE FinishRound(r) \/ RoundFails(r)
      BY <2>2 DEF FinishRound, RoundFails, GoTo
    <2>3. CASE Skip(r) \/ WriteArtifact(r) \/ Break(r)
      BY <2>3 DEF Skip, WriteArtifact, Break, GoTo, jobs
    <2>4. CASE End(r)
      BY <2>4 DEF End, GoTo, jobs
    <2> QED
      BY <1>4, <2>1, <2>2, <2>3, <2>4 DEF Ingest
  <1>5. ASSUME NEW r \in Run, LoseSession(r) PROVE LeftoversAreOfFailures'
    BY <1>5 DEF LoseSession, GoTo, jobs
  <1>6. ASSUME NEW p \in Owner, Crash(p) PROVE LeftoversAreOfFailures'
    BY <1>6 DEF Crash, Live, jobs
  <1>7. ASSUME NEW a \in Admin, Cleanup(a) PROVE LeftoversAreOfFailures'
    BY <1>7 DEF Cleanup, Stale
  <1>8. ASSUME NEW a \in Admin, FetchStatus(a) PROVE LeftoversAreOfFailures'
    BY <1>8 DEF FetchStatus, jobs
  <1>9. CASE UNCHANGED vars
    BY <1>9 DEF vars, jobs
  <1> QED
    BY <1>1, <1>2, <1>3, <1>4, <1>5, <1>6, <1>7, <1>8, <1>9 DEF Next

\* The service and the crawls agree on which crawl it runs.
LEMMA ServiceStep ==
    ASSUME Controlled, [Next]_vars
    PROVE  ServiceKnowsItsCrawl' /\ ProgressShown'
  <1> USE DEF Controlled, TypeOK, ServiceKnowsItsCrawl, ProgressShown, Live, Run, RowsBegin
  <1>1. ASSUME NEW r \in Run, Trigger(r) PROVE ServiceKnowsItsCrawl' /\ ProgressShown'
    BY <1>1, ConstantsAssumption DEF Trigger, MayStart, Begin, GoTo
  <1>2. ASSUME NEW r \in Run, NEW c \in Cli, StartCli(r, c)
        PROVE ServiceKnowsItsCrawl' /\ ProgressShown'
    BY <1>2, ConstantsAssumption DEF StartCli, Begin, GoTo, service
  <1>3. ASSUME NEW r \in Run, Discover(r) PROVE ServiceKnowsItsCrawl' /\ ProgressShown'
    <2>1. \A q \in Run : Live(q)' <=> Live(q)
      BY <1>3, DiscoverEffect
    <2>2. /\ UNCHANGED <<owner, task, status>>
          /\ progress' # progress => progress' # 0
      BY <1>3, DiscoverEffect
    <2> QED
      BY <2>1, <2>2
  <1>4. ASSUME NEW r \in Run, Ingest(r) PROVE ServiceKnowsItsCrawl' /\ ProgressShown'
    <2>1. ASSUME NEW to \in {"round", "skipping", "writing", "completing", "failing"},
                 Live(r), GoTo(r, to), UNCHANGED <<crawls, service>>
          PROVE  ServiceKnowsItsCrawl' /\ ProgressShown'
      BY <2>1 DEF GoTo, crawls, service
    <2>2. CASE Acquire(r) \/ Skip(r)
      BY <2>1, <2>2 DEF Acquire, Skip
    <2>4. CASE FinishRound(r)
      <3>1. Live(r) /\ UNCHANGED <<crawls, service>>
            /\ (GoTo(r, "writing") \/ GoTo(r, "completing"))
        BY <2>4 DEF FinishRound
      <3> QED
        BY <2>1, <3>1
    <2>5. CASE RoundFails(r) \/ WriteArtifact(r) \/ Break(r)
      BY <2>1, <2>5 DEF RoundFails, WriteArtifact, Break
    <2>3. CASE End(r)
      <3>1. Result(r) # "running"
        BY <2>3 DEF End, Result
      <3> QED
        BY <2>3, <3>1, ConstantsAssumption DEF End, GoTo, crawls, service
    <2> QED
      BY <1>4, <2>2, <2>3, <2>4, <2>5 DEF Ingest
  <1>5. ASSUME NEW r \in Run, LoseSession(r) PROVE ServiceKnowsItsCrawl' /\ ProgressShown'
    BY <1>5 DEF LoseSession, GoTo, crawls, service
  <1>6. ASSUME NEW p \in Owner, Crash(p) PROVE ServiceKnowsItsCrawl' /\ ProgressShown'
    BY <1>6, ConstantsAssumption DEF Crash, crawls, service
  <1>7. ASSUME NEW a \in Admin, Cleanup(a) \/ FetchStatus(a)
        PROVE ServiceKnowsItsCrawl' /\ ProgressShown'
    BY <1>7 DEF Cleanup, FetchStatus, crawls, service
  <1>8. CASE UNCHANGED vars
    BY <1>8 DEF vars, crawls, service
  <1> QED
    BY <1>1, <1>2, <1>3, <1>4, <1>5, <1>6, <1>7, <1>8 DEF Next

\* Progress that is not the crawl's own comes from a failed discovery.
LEMMA StrayStep ==
    ASSUME Controlled, [Next]_vars, ServiceKnowsItsCrawl'
    PROVE  StrayProgressIsOfAFailedDiscovery'
  <1> USE DEF Controlled, TypeOK, StrayProgressIsOfAFailedDiscovery, Run
  <1>0. status = "running" => progress \in Run
    BY ConstantsAssumption DEF ProgressShown, ServiceKnowsItsCrawl
  <1>1. ASSUME NEW r \in Run, Trigger(r) PROVE StrayProgressIsOfAFailedDiscovery'
    BY <1>1 DEF Trigger
  <1>2. ASSUME NEW r \in Run, NEW c \in Cli, StartCli(r, c)
        PROVE StrayProgressIsOfAFailedDiscovery'
    BY <1>0, <1>2 DEF StartCli, Begin, GoTo, RowsBegin, jobs, service
  <1>3. ASSUME NEW r \in Run, Discover(r) PROVE StrayProgressIsOfAFailedDiscovery'
    <2>1. CASE \E part \in Discovery : Report(r, part)
      BY <2>1, ConstantsAssumption
      DEF Report, LeftoversAreOfFailures, ServiceKnowsItsCrawl, Live, crawls, jobs
    <2>2. CASE \E part \in Discovery : DiscoveryDone(r, part) \/ DiscoveryFails(r, part)
      <3>1. \A q \in Run : at[q] = "done" => at'[q] = "done"
        BY <2>2 DEF DiscoveryDone, DiscoveryFails, GoTo
      <3>2. UNCHANGED <<job, task, status, progress>>
        BY <2>2 DEF DiscoveryDone, DiscoveryFails, jobs, service
      <3> QED
        BY <1>0, <3>1, <3>2
    <2> QED
      BY <1>3, <2>1, <2>2 DEF Discover
  <1>4. ASSUME NEW r \in Run, Ingest(r) PROVE StrayProgressIsOfAFailedDiscovery'
    <2>1. CASE Acquire(r) \/ Skip(r) \/ WriteArtifact(r) \/ Break(r)
      BY <1>0, <2>1 DEF Acquire, Skip, WriteArtifact, Break, GoTo, jobs, service
    <2>2. CASE FinishRound(r)
      BY <1>0, <2>2 DEF FinishRound, GoTo, service
    <2>5. CASE RoundFails(r)
      BY <1>0, <2>5 DEF RoundFails, GoTo, service
    <2>3. CASE End(r) /\ owner[r] = "worker"
      BY <2>3 DEF End, Result
    <2>4. CASE End(r) /\ owner[r] # "worker"
      BY <1>0, <2>4 DEF End, GoTo, jobs, service
    <2> QED
      BY <1>4, <2>1, <2>2, <2>3, <2>4, <2>5 DEF Ingest
  <1>5. ASSUME NEW r \in Run, LoseSession(r) PROVE StrayProgressIsOfAFailedDiscovery'
    BY <1>0, <1>5 DEF LoseSession, GoTo, jobs, service
  <1>6. ASSUME NEW p \in Owner, Crash(p) PROVE StrayProgressIsOfAFailedDiscovery'
    BY <1>0, <1>6 DEF Crash, Live, jobs, service
  <1>7. ASSUME NEW a \in Admin, Cleanup(a) PROVE StrayProgressIsOfAFailedDiscovery'
    BY <1>0, <1>7 DEF Cleanup, Stale, service
  <1>8. ASSUME NEW a \in Admin, FetchStatus(a) PROVE StrayProgressIsOfAFailedDiscovery'
    BY <1>8 DEF FetchStatus, jobs, service
  <1>9. CASE UNCHANGED vars
    BY <1>9 DEF vars, jobs, service
  <1> QED
    BY <1>1, <1>2, <1>3, <1>4, <1>5, <1>6, <1>7, <1>8, <1>9 DEF Next

\* Start times only grow, and a row is younger than its crawl.
LEMMA TimesStep ==
    ASSUME Controlled, [Next]_vars
    PROVE  TimesAgree'
  <1> USE DEF Controlled, TypeOK, TimesAgree, Live, Time
  <1> DEFINE Ages ==
        /\ startedAt <= clock
        /\ \A a \in Admin : snapshot[a].startedAt <= clock
        /\ task # 0 => \A a \in Admin : snapshot[a].startedAt <= startedAt
        /\ \A r \in Run : owner[r] = "worker" /\ Live(r) /\ job[r] # "none" =>
                              startedAt < jobAt[r]
  <1>1. ASSUME NEW r \in Run, Trigger(r) PROVE Ages'
    BY <1>1 DEF Trigger, MayStart, Begin, GoTo, ServiceKnowsItsCrawl, RowsBegin, jobs, Run
  <1>2. ASSUME NEW r \in Run, NEW c \in Cli, StartCli(r, c) PROVE Ages'
    BY <1>2, ConstantsAssumption DEF StartCli, Begin, GoTo, jobs, service
  <1>3. ASSUME NEW r \in Run, Discover(r) PROVE Ages'
    BY <1>3
    DEF Discover, Report, DiscoveryDone, DiscoveryFails, GoTo, crawls, jobs, service
  <1>4. ASSUME NEW r \in Run, Ingest(r) PROVE Ages'
    <2>1. CASE Acquire(r)
      BY <2>1, ConstantsAssumption DEF Acquire, GoTo, crawls, service
    <2>2. CASE FinishRound(r) \/ RoundFails(r)
      BY <2>2 DEF FinishRound, RoundFails, RowsBegin, GoTo, crawls, service
    <2>3. CASE Skip(r) \/ WriteArtifact(r) \/ Break(r)
      BY <2>3 DEF Skip, WriteArtifact, Break, GoTo, crawls, jobs, service
    <2>4. CASE End(r)
      BY <2>4 DEF End, GoTo, crawls, jobs, service
    <2> QED
      BY <1>4, <2>1, <2>2, <2>3, <2>4 DEF Ingest
  <1>5. ASSUME NEW r \in Run, LoseSession(r) PROVE Ages'
    BY <1>5 DEF LoseSession, GoTo, crawls, jobs, service
  <1>6. ASSUME NEW p \in Owner, Crash(p) PROVE Ages'
    BY <1>6, ConstantsAssumption DEF Crash, crawls, jobs, service
  <1>7. ASSUME NEW a \in Admin, Cleanup(a) PROVE Ages'
    BY <1>7, ConstantsAssumption DEF Cleanup, Stale, NotFetched, crawls, service
  <1>8. ASSUME NEW a \in Admin, FetchStatus(a) PROVE Ages'
    <2>1. \A b \in Admin : snapshot'[b].startedAt \in {snapshot[b].startedAt, startedAt}
      BY <1>8 DEF FetchStatus
    <2>2. UNCHANGED <<crawls, at, jobs, task, startedAt, clock>>
      BY <1>8 DEF FetchStatus, service
    <2> QED
      BY <2>1, <2>2, ConstantsAssumption DEF crawls, jobs
  <1>9. ASSUME UNCHANGED vars PROVE Ages'
    BY <1>9 DEF vars, crawls, jobs, service
  <1>10. Ages'
    BY <1>1, <1>2, <1>3, <1>4, <1>5, <1>6, <1>7, <1>8, <1>9 DEF Next
  <1> QED
    BY <1>10, ClockStep

LEMMA ControlledInit == Init => Controlled
  <1> SUFFICES ASSUME Init PROVE Controlled
    OBVIOUS
  <1>1. Begun = {}
    BY DEF Begun, Init
  <1>2. TimesAgree
    BY <1>1, FS_EmptySet, ConstantsAssumption DEF Init, TimesAgree, NotFetched, Live
  <1>3. TypeOK
    BY ConstantsAssumption
    DEF Init, TypeOK, Owner, Label, JobStatus, ServiceStatus, Time, NotFetched
  <1> QED
    BY <1>2, <1>3, ConstantsAssumption
    DEF Init, Controlled, ServiceKnowsItsCrawl, StrayProgressIsOfAFailedDiscovery,
        RowsBegin, LeftoversAreOfFailures, ProgressShown, Live, Run

LEMMA ControlledInvariant == Spec => []Controlled
  <1>1. Controlled /\ [Next]_vars => Controlled'
    BY TypeStep, RowsStep, LeftoversStep, ServiceStep, StrayStep, TimesStep DEF Controlled
  <1> QED
    BY <1>1, ControlledInit, PTL DEF Spec
-----------------------------------------------------------------------------
\* Every variable of the crawl control stays in its domain; the start times
\* stay bounded because every crawl and every round takes exactly one.
THEOREM ControlTypeCorrect == Spec => []TypeOK
  BY ControlledInvariant, PTL DEF Controlled

\* The service never says it is idle or done while its crawl runs, nor that
\* it runs a crawl that is over (CrawlTriggerService.trigger, _run).
THEOREM ServiceCorrect == Spec => []ServiceKnowsItsCrawl
  BY ControlledInvariant, PTL DEF Controlled

\* update_progress does not know its caller; still only a crawl whose
\* discovery failed can speak over the one that runs.
THEOREM ProgressCorrect == Spec => []StrayProgressIsOfAFailedDiscovery
  BY ControlledInvariant, PTL DEF Controlled

\* However old the status an admin request acts on, the cleanup spares the
\* row of the worker's live crawl (cleanup_stale_running_crawl_jobs).
THEOREM CleanupCorrect == Spec => CleanupSparesTheCrawlItSaw
  <1> DEFINE Spares ==
        \A a \in Admin, r \in Run :
          /\ Cleanup(a)
          /\ snapshot[a].status = "running"
          /\ owner[r] = "worker" /\ Live(r)
          => job'[r] = job[r]
  <1>1. Controlled /\ [Next]_vars => [Spares]_vars
    <2> SUFFICES ASSUME Controlled, NEW a \in Admin, NEW r \in Run, Cleanup(a),
                        snapshot[a].status = "running", owner[r] = "worker", Live(r)
                 PROVE  job'[r] = job[r]
      OBVIOUS
    <2>1. task = r /\ r # 0
      BY ConstantsAssumption DEF Controlled, ServiceKnowsItsCrawl, Run
    <2>2. job[r] # "none" => snapshot[a].startedAt < jobAt[r]
      BY <2>1 DEF Controlled, TimesAgree, TypeOK, Time
    <2>3. ~Stale(a, r)
      BY <2>2, ConstantsAssumption DEF Stale, Controlled, TypeOK, Time
    <2> QED
      BY <2>3 DEF Cleanup
  <1> QED
    BY <1>1, ControlledInvariant, PTL DEF Spec, CleanupSparesTheCrawlItSaw
=============================================================================
