--------------------------- MODULE IngestionProofs ---------------------------
(***************************************************************************)
(* Type correctness and the safety properties of Ingestion, for every set  *)
(* of processes, documents and chunks and every choice of the other        *)
(* constants.  The types and the properties of the first part hold         *)
(* whatever the faults; those of the second need the lock to protect a     *)
(* round to its end, so they assume that no database session is lost under *)
(* a running round.                                                        *)
(***************************************************************************)
EXTENDS Ingestion, TLAPS

(* The tuple of all variables, spelled out once for the stuttering steps. *)
LEMMA StutterKeepsTypeOK == TypeOK /\ UNCHANGED vars => TypeOK'
  BY DEF TypeOK, vars, database, stores, documentLocals, indexLocals, fetches

\* Forgetting a round leaves its locals in their domains.
LEMMA EmptyLocals ==
    /\ NoDoc \in [Doc -> 0..MaxVersion]
    /\ NoTask \in [Doc -> TaskState]
    /\ DefaultRun \in [start : Phase, end : Phase, force : BOOLEAN]
  BY ConstantsAssumption
  DEF NoDoc, Version, NoTask, TaskState, DefaultRun, Phase, DISCOVER, INDEX

\* A round that ends resets what it knew of its documents, in the domains.
LEMMA ForgetDocumentsTypes ==
    ASSUME TypeOK, NEW p \in Proc, ForgetDocuments(p)
    PROVE  /\ run' \in [Proc -> [start : Phase, end : Phase, force : BOOLEAN]]
           /\ known' \in [Proc -> [Doc -> 0..MaxVersion]]
           /\ task' \in [Proc -> [Doc -> TaskState]]
           /\ got' \in [Proc -> [Doc -> 0..MaxVersion]]
  BY EmptyLocals DEF TypeOK, ForgetDocuments

\* The same for what its index pass had read and not yet written.
LEMMA ForgetIndexingTypes ==
    ASSUME TypeOK, NEW p \in Proc, ForgetIndexing(p)
    PROVE  /\ batch' \in [Proc -> SUBSET Chunk]
           /\ active' \in [Proc -> SUBSET Chunk]
           /\ draft' \in [Proc -> [Doc -> 0..MaxVersion]]
           /\ records' \in [Proc -> SUBSET Chunk]
  BY EmptyLocals DEF TypeOK, ForgetIndexing

\* A fault stays within the bound.
LEMMA FaultTypes == ASSUME TypeOK, NEW kind, Fault(kind)
                    PROVE  faults' \in 0..MaxFaults
  BY ConstantsAssumption DEF TypeOK, Fault

\* An answer that is stored leaves the fetch cache in its domain.
LEMMA StoreFetchedTypes ==
    ASSUME TypeOK, NEW d \in Doc, NEW v \in 0..MaxVersion, NEW locked,
           StoreFetched(d, v, locked)
    PROVE  /\ cache' \in [Doc -> 0..MaxVersion]
           /\ overtaken' \in SUBSET Doc
  BY DEF TypeOK, StoreFetched, Cached

\* So do the tasks a round leaves behind.
LEMMA OutliveRoundTypes ==
    ASSUME TypeOK, NEW p \in Proc, OutliveRound(p)
    PROVE  late' \in [Proc -> SUBSET (Doc \X (0..MaxVersion))]
  <1>1. \A d \in Doc : (IF task[p][d] = "fetched" THEN got[p][d] ELSE 0)
                       \in 0..MaxVersion
    BY ConstantsAssumption DEF TypeOK
  <1>2. LeftBehind(p) \subseteq Doc \X (0..MaxVersion)
    BY <1>1 DEF LeftBehind, Unfinished
  <1>3. QED
    BY <1>2 DEF TypeOK, OutliveRound

\* Every stored row has an id of the pool.
LEMMA RowsAreChunks == TypeOK => AllRows \subseteq Chunk
  BY DEF TypeOK, AllRows

\* Every value of every variable of Ingestion stays in its domain, whatever
\* the faults: the round's bookkeeping never leaves the states the code names.
THEOREM TypeCorrect == Spec => []TypeOK
  <1> USE DEF database, stores, documentLocals, indexLocals, fetches
  <1>1. Init => TypeOK
    BY ConstantsAssumption
    DEF Init, TypeOK, NoDoc, NoTask, DefaultRun, Version, Phase, DISCOVER, INDEX,
        Label, TaskState, JobStatus
  <1>2. TypeOK /\ [Next]_vars => TypeOK'
    <2> SUFFICES ASSUME TypeOK, [Next]_vars PROVE TypeOK'
      OBVIOUS
    <2> USE ConstantsAssumption
    <2>1. ASSUME NEW d \in Doc, EditPage(d) PROVE TypeOK'
      <3>1. site[d] + 1 \in Version
        BY <2>1 DEF TypeOK, EditPage, Version
      <3>2. site' \in [Doc -> Version]
        BY <2>1, <3>1 DEF TypeOK, EditPage
      <3>3. QED
        BY <2>1, <3>2 DEF TypeOK, EditPage
    <2>2. ASSUME NEW p \in Proc, Acquire(p) PROVE TypeOK'
      BY <2>2, EmptyLocals
      DEF TypeOK, Acquire, Options, MayStart, GoTo, AfterDocuments, Label,
          TaskState, JobStatus
    <2>3. ASSUME NEW p \in Proc, LoadStates(p) PROVE TypeOK'
      BY <2>3 DEF TypeOK, LoadStates, GoTo, Label, SkippableHash
    <2>4. ASSUME NEW p \in Proc, NEW d \in Doc, ReadCached(p, d) PROVE TypeOK'
      <3>1. Outcome(p, d, cache[d]) \in TaskState
        BY DEF Outcome, TaskState
      <3>2. QED
        BY <2>4, <3>1 DEF TypeOK, ReadCached
    <2>26. ASSUME NEW p \in Proc, NEW d \in Doc, Fetch(p, d) PROVE TypeOK'
      <3>1. site[d] \in 0..MaxVersion
        BY DEF TypeOK, Version
      <3>2. QED
        BY <2>26, <3>1 DEF TypeOK, Fetch, TaskState
    <2>27. ASSUME NEW p \in Proc, NEW d \in Doc, StorePage(p, d) PROVE TypeOK'
      <3>1. Outcome(p, d, got[p][d]) \in TaskState
        BY DEF Outcome, TaskState
      <3>2. task' \in [Proc -> [Doc -> TaskState]]
        BY <2>27, <3>1 DEF TypeOK, StorePage
      <3>3. got[p][d] \in 0..MaxVersion
        BY DEF TypeOK
      <3>4. cache' \in [Doc -> 0..MaxVersion] /\ overtaken' \in SUBSET Doc
        BY <2>27, <3>3, StoreFetchedTypes DEF TypeOK, StorePage
      <3>5. QED
        BY <2>27, <3>2, <3>4 DEF TypeOK, StorePage
    <2>5. ASSUME NEW p \in Proc, NEW d \in Doc, FetchFails(p, d) PROVE TypeOK'
      <3>1. task' \in [Proc -> [Doc -> TaskState]]
        BY <2>5 DEF TypeOK, FetchFails, TaskState
      <3>2. got[p][d] \in 0..MaxVersion
        BY DEF TypeOK
      <3>3. cache' \in [Doc -> 0..MaxVersion] /\ overtaken' \in SUBSET Doc
        BY <2>5, <3>2, StoreFetchedTypes DEF TypeOK, FetchFails
      <3>4. faults' \in 0..MaxFaults
        BY <2>5, FaultTypes DEF FetchFails
      <3>5. QED
        BY <2>5, <3>1, <3>3, <3>4 DEF TypeOK, FetchFails
    <2>28. ASSUME NEW p \in Proc, NEW d \in Doc, LateFetch(p, d) PROVE TypeOK'
      <3>1. site[d] \in 0..MaxVersion
        BY DEF TypeOK, Version
      <3>2. late' \in [Proc -> SUBSET (Doc \X (0..MaxVersion))]
        BY <2>28, <3>1 DEF TypeOK, LateFetch
      <3>3. QED
        BY <2>28, <3>2 DEF TypeOK, LateFetch
    <2>29. ASSUME NEW p \in Proc, NEW d \in Doc, LateStore(p, d) PROVE TypeOK'
      <3>1. PICK v \in Version :
               /\ late' = [late EXCEPT ![p] = @ \ {<<d, v>>}]
               /\ StoreFetched(d, v, FALSE) \/ UNCHANGED <<cache, overtaken>>
        BY <2>29 DEF LateStore
      <3>2. late' \in [Proc -> SUBSET (Doc \X (0..MaxVersion))]
        BY <3>1 DEF TypeOK
      <3>3. v \in 0..MaxVersion
        BY DEF Version
      <3>4. cache' \in [Doc -> 0..MaxVersion] /\ overtaken' \in SUBSET Doc
        BY <3>1, <3>3, StoreFetchedTypes DEF TypeOK
      <3>5. QED
        BY <2>29, <3>2, <3>4 DEF TypeOK, LateStore
    <2>6. ASSUME NEW p \in Proc, NEW d \in Doc, Persist(p, d) PROVE TypeOK'
      BY <2>6 DEF TypeOK, Persist, KeywordsAfter, TaskState
    <2>7. ASSUME NEW p \in Proc, DocumentsDone(p) PROVE TypeOK'
      BY <2>7 DEF TypeOK, DocumentsDone, GoTo, AfterDocuments, Label
    <2>8. ASSUME NEW p \in Proc, EmbedBatch(p) PROVE TypeOK'
      BY <2>8, RowsAreChunks DEF TypeOK, EmbedBatch, GoTo, Pending, Label
    <2>9. ASSUME NEW p \in Proc, UpsertVectors(p) PROVE TypeOK'
      BY <2>9 DEF TypeOK, UpsertVectors, GoTo, Label
    <2>10. ASSUME NEW p \in Proc, NEW c \in Chunk, MarkIndexed(p, c) PROVE TypeOK'
      BY <2>10 DEF TypeOK, MarkIndexed, GoTo, Label
    <2>11. ASSUME NEW p \in Proc, EmbedDone(p) PROVE TypeOK'
      BY <2>11 DEF TypeOK, EmbedDone, GoTo, Label
    <2>12. ASSUME NEW p \in Proc, ReadActive(p) PROVE TypeOK'
      BY <2>12 DEF TypeOK, ReadActive, GoTo, Label
    <2>13. ASSUME NEW p \in Proc, DeleteOrphans(p) PROVE TypeOK'
      BY <2>13 DEF TypeOK, DeleteOrphans, Kept, GoTo, Label
    <2>14. ASSUME NEW p \in Proc, SelectKeywordTargets(p) PROVE TypeOK'
      <3>1. draft' \in [Proc -> [Doc -> 0..MaxVersion]]
        <4> DEFINE targets == [d \in Doc |-> IF rows[d] # {} /\ keywords[d] = 0
                                            THEN hash[d] ELSE 0]
        <4>1. targets \in [Doc -> 0..MaxVersion]
          BY DEF TypeOK
        <4>2. \/ draft' = [draft EXCEPT ![p] = targets]
              \/ draft' = [draft EXCEPT ![p] = NoDoc]
          BY <2>14 DEF SelectKeywordTargets
        <4> HIDE DEF targets
        <4>3. QED
          BY <4>1, <4>2, EmptyLocals DEF TypeOK
      <3>2. QED
        BY <2>14, <3>1 DEF TypeOK, SelectKeywordTargets, GoTo, Label
    <2>15. ASSUME NEW p \in Proc, NEW d \in Doc, StoreKeywords(p, d) PROVE TypeOK'
      BY <2>15 DEF TypeOK, StoreKeywords
    <2>16. ASSUME NEW p \in Proc, NEW d \in Doc, KeywordsFail(p, d) PROVE TypeOK'
      BY <2>16, FaultTypes DEF TypeOK, KeywordsFail
    <2>17. ASSUME NEW p \in Proc, KeywordsDone(p) PROVE TypeOK'
      BY <2>17 DEF TypeOK, KeywordsDone, GoTo, Label
    <2>18. ASSUME NEW p \in Proc, ReadRecords(p) PROVE TypeOK'
      BY <2>18, RowsAreChunks DEF TypeOK, ReadRecords, GoTo, Label
    <2>19. ASSUME NEW p \in Proc, WriteBm25(p) PROVE TypeOK'
      BY <2>19 DEF TypeOK, WriteBm25, NewRecords, GoTo, Label
    <2>20. ASSUME NEW p \in Proc, Finish(p) PROVE TypeOK'
      BY <2>20, ForgetDocumentsTypes
      DEF TypeOK, Finish, FinalStatus, GoTo, Label, JobStatus
    <2>21. ASSUME NEW p \in Proc, Raise(p) PROVE TypeOK'
      BY <2>21, ForgetIndexingTypes, OutliveRoundTypes, FaultTypes
      DEF TypeOK, Raise, GoTo, Label
    <2>22. ASSUME NEW p \in Proc, Crash(p) PROVE TypeOK'
      BY <2>22, ForgetDocumentsTypes, ForgetIndexingTypes, FaultTypes
      DEF TypeOK, Crash, LockAfterCrash, GoTo, Label
    <2>23. ASSUME NEW p \in Proc, LoseSession(p) PROVE TypeOK'
      BY <2>23, FaultTypes DEF TypeOK, LoseSession
    <2>24. ASSUME NEW p \in Proc, Abort(p) PROVE TypeOK'
      BY <2>24, ForgetDocumentsTypes, ForgetIndexingTypes, OutliveRoundTypes
      DEF TypeOK, Abort, GoTo, Label
    <2>25. QED
      BY <2>1, <2>2, <2>3, <2>4, <2>5, <2>6, <2>7, <2>8, <2>9, <2>10, <2>11,
         <2>12, <2>13, <2>14, <2>15, <2>16, <2>17, <2>18, <2>19, <2>20, <2>21,
         <2>22, <2>23, <2>24, <2>26, <2>27, <2>28, <2>29, StutterKeepsTypeOK
      DEF Next, Step, LatePass, Failure, DocumentPass, IndexPass
  <1>3. QED
    BY <1>1, <1>2, PTL DEF Spec

(***************************************************************************)
(* Strengthenings.  A round that holds the lock knows the current hashes,  *)
(* and 0, the hash of nothing, never looks like one that was fetched.      *)
(***************************************************************************)
KnownIsCurrent ==
    \A p \in Proc, d \in Doc :
        /\ /\ lock = p
           /\ pc[p] = "documents"
           /\ task[p][d] \in {"queued", "fetched"}
           /\ known[p][d] # 0
           => known[p][d] = hash[d] /\ rows[d] # {}
        /\ task[p][d] = "fetched" => got[p][d] # 0

\* The keywords it is about to store describe the current content.
DraftIsCurrent ==
    \A p \in Proc, d \in Doc :
        /\ lock = p
        /\ pc[p] = "generate"
        /\ draft[p][d] # 0
        => draft[p][d] = hash[d]

\* Whoever is inside a round holds the lock.
OwnsLock == \A p \in Proc : pc[p] # "idle" => lock = p

\* What a round has established by the time it stands at a label.
Embedded == {"prune", "delete", "keywords", "generate", "bm25", "write"}
Pruned == {"keywords", "generate", "bm25", "write"}

StageReached(p) ==
    /\ pc[p] = "mark" => batch[p] \subseteq vectors
    /\ pc[p] = "delete" => active[p] = indexed
    /\ pc[p] \in Embedded => AllRows \subseteq indexed
    /\ pc[p] \in Pruned => vectors \subseteq AllRows
    /\ pc[p] = "write" => records[p] = AllRows
    /\ pc[p] = "finish" /\ IndexRuns(run[p]) => PublishedInFull

StoresInStep ==
    /\ indexed \subseteq AllRows
    /\ indexed \subseteq vectors
    /\ \A p \in Proc : StageReached(p)

\* A chunk row belongs to one document.
RowsDisjoint == \A d, e \in Doc : d # e => rows[d] \intersect rows[e] = {}

\* No version is ahead of the page, wherever it is kept or on its way.
NothingAheadOfSite ==
    /\ \A d \in Doc : hash[d] <= site[d] /\ cache[d] <= site[d]
    /\ \A p \in Proc, d \in Doc :
         task[p][d] \in {"fetched", "parsed"} => got[p][d] <= site[d]
    /\ \A p \in Proc : \A x \in late[p] : x[2] <= site[x[1]]

\* A cache file that a task without the lock has not overwritten is not behind
\* the database.
CacheInOrder == \A d \in Doc : hash[d] <= cache[d] \/ d \in overtaken

\* The same for what the holder of the lock has fetched and not yet stored.
\* Only a page from an overwritten file may be behind the database.
PageInOrder(p, d) ==
    /\ task[p][d] = "fetched" => hash[d] <= got[p][d]
    /\ task[p][d] = "parsed" =>
         /\ hash[d] <= got[p][d] \/ (d \in overtaken /\ run[p].start = PARSE)
         /\ got[p][d] <= cache[d] \/ d \in overtaken

PagesInOrder ==
    /\ \A p \in Proc, d \in Doc :
         lock = p /\ pc[p] = "documents" => PageInOrder(p, d)
    /\ \A p \in Proc, d \in Doc :
         pc[p] = "load" => task[p][d] \in {"none", "queued"}

ContentInOrder == NothingAheadOfSite /\ CacheInOrder /\ PagesInOrder

-----------------------------------------------------------------------------
(* Part 1: whatever the faults.                                            *)

\* The lock has one holder, so a step that needs the connection is a step of
\* the only process whose connection lives.
LEMMA KeywordsStep ==
    ASSUME TypeOK, KeywordsMatchContent, DraftIsCurrent, [Next]_vars
    PROVE  KeywordsMatchContent' /\ DraftIsCurrent'
  <1> USE ConstantsAssumption
      DEF database, stores, documentLocals, indexLocals, fetches,
          Connected
  <1> DEFINE Quiet ==
        /\ UNCHANGED <<hash, keywords, draft>>
        /\ \A q \in Proc : pc'[q] = "generate" /\ lock' = q
                           => pc[q] = "generate" /\ lock = q
  <1>q. ASSUME Quiet PROVE KeywordsMatchContent' /\ DraftIsCurrent'
    BY <1>q DEF KeywordsMatchContent, DraftIsCurrent
  <1>1. ASSUME NEW d \in Doc, EditPage(d) PROVE Quiet
    BY <1>1 DEF EditPage
  <1>2. ASSUME NEW p \in Proc, Acquire(p) PROVE Quiet
    BY <1>2 DEF TypeOK, Acquire, MayStart, GoTo, AfterDocuments
  <1>3. ASSUME NEW p \in Proc,
               \/ LoadStates(p)
               \/ DocumentsDone(p)
               \/ \E d \in Doc : \/ ReadCached(p, d)
                                 \/ Fetch(p, d)
                                 \/ StorePage(p, d)
                                 \/ FetchFails(p, d)
               \/ LatePass(p)
        PROVE  Quiet
    BY <1>3 DEF TypeOK, LoadStates, DocumentsDone, ReadCached, Fetch, StorePage,
                FetchFails, LatePass, LateFetch, LateStore, Fault, GoTo,
                AfterDocuments
  <1>4. ASSUME NEW p \in Proc, NEW d \in Doc, Persist(p, d)
        PROVE  KeywordsMatchContent' /\ DraftIsCurrent'
    <2>1. KeywordsMatchContent'
      BY <1>4 DEF TypeOK, Persist, KeywordsAfter, KeywordsMatchContent
    <2>2. DraftIsCurrent'
      BY <1>4 DEF TypeOK, Persist, DraftIsCurrent
    <2>3. QED
      BY <2>1, <2>2
  <1>5. ASSUME NEW p \in Proc,
               \/ EmbedBatch(p)
               \/ UpsertVectors(p)
               \/ \E c \in Chunk : MarkIndexed(p, c)
               \/ EmbedDone(p)
        PROVE  Quiet
    BY <1>5 DEF TypeOK, EmbedBatch, UpsertVectors, MarkIndexed, MayMark,
                EmbedDone, GoTo
  <1>6. ASSUME NEW p \in Proc,
               \/ ReadActive(p)
               \/ DeleteOrphans(p)
               \/ KeywordsDone(p)
               \/ ReadRecords(p)
               \/ WriteBm25(p)
        PROVE  Quiet
    BY <1>6 DEF TypeOK, ReadActive, DeleteOrphans, KeywordsDone, ReadRecords,
                WriteBm25, GoTo
  <1>7. ASSUME NEW p \in Proc, SelectKeywordTargets(p)
        PROVE  KeywordsMatchContent' /\ DraftIsCurrent'
    <2>1. KeywordsMatchContent'
      BY <1>7 DEF SelectKeywordTargets, KeywordsMatchContent
    <2>2. DraftIsCurrent'
      <3>1. UNCHANGED <<hash, lock>>
        BY <1>7 DEF SelectKeywordTargets
      <3>2. \A d \in Doc : draft'[p][d] \in {0, hash[d]}
        BY <1>7 DEF TypeOK, SelectKeywordTargets, NoDoc
      <3>3. \A q \in Proc : q # p => draft'[q] = draft[q] /\ pc'[q] = pc[q]
        BY <1>7 DEF TypeOK, SelectKeywordTargets, GoTo
      <3>4. QED
        BY <3>1, <3>2, <3>3 DEF DraftIsCurrent
    <2>3. QED
      BY <2>1, <2>2
  <1>8. ASSUME NEW p \in Proc, NEW d \in Doc, StoreKeywords(p, d)
        PROVE  KeywordsMatchContent' /\ DraftIsCurrent'
    <2>1. KeywordsMatchContent'
      BY <1>8 DEF TypeOK, StoreKeywords, KeywordsMatchContent, DraftIsCurrent
    <2>2. DraftIsCurrent'
      BY <1>8 DEF TypeOK, StoreKeywords, DraftIsCurrent
    <2>3. QED
      BY <2>1, <2>2
  <1>9. ASSUME NEW p \in Proc, NEW d \in Doc, KeywordsFail(p, d)
        PROVE  KeywordsMatchContent' /\ DraftIsCurrent'
    BY <1>9 DEF TypeOK, KeywordsFail, KeywordsMatchContent, DraftIsCurrent
  <1>10. ASSUME NEW p \in Proc, Finish(p) PROVE Quiet
    BY <1>10 DEF TypeOK, Finish, GoTo
  <1>11. ASSUME NEW p \in Proc, Raise(p) \/ Crash(p) \/ Abort(p)
         PROVE  KeywordsMatchContent' /\ DraftIsCurrent'
    <2>1. UNCHANGED <<hash, keywords>>
      BY <1>11 DEF Raise, Crash, Abort
    <2>2. \A q \in Proc : lock' = q => lock = q
      BY <1>11 DEF TypeOK, Raise, Crash, Abort, LockAfterCrash
    <2>3. \A q \in Proc : pc'[q] = "generate" => q # p /\ pc[q] = "generate"
      BY <1>11 DEF TypeOK, Raise, Crash, Abort, GoTo
    <2>4. \A q \in Proc : q # p => draft'[q] = draft[q]
      BY <1>11 DEF TypeOK, Raise, Crash, Abort, ForgetIndexing
    <2>5. QED
      BY <2>1, <2>2, <2>3, <2>4 DEF KeywordsMatchContent, DraftIsCurrent
  <1>12. ASSUME NEW p \in Proc, LoseSession(p) PROVE Quiet
    BY <1>12 DEF LoseSession
  <1>13. CASE UNCHANGED vars
    BY <1>13 DEF vars, KeywordsMatchContent, DraftIsCurrent
  <1>14. QED
    BY <1>q, <1>1, <1>2, <1>3, <1>4, <1>5, <1>6, <1>7, <1>8, <1>9, <1>10,
       <1>11, <1>12, <1>13
    DEF Next, Step, Failure, DocumentPass, IndexPass

\* Stored keywords describe the stored content, for every number of rounds,
\* crashes and lost sessions: a round that lost its session cannot write.
THEOREM KeywordsCorrect == Spec => []KeywordsMatchContent
  <1>1. Init => KeywordsMatchContent /\ DraftIsCurrent
    BY DEF Init, NoDoc, KeywordsMatchContent, DraftIsCurrent
  <1>2. TypeOK /\ KeywordsMatchContent /\ DraftIsCurrent /\ [Next]_vars
        => (KeywordsMatchContent /\ DraftIsCurrent)'
    BY KeywordsStep
  <1>3. QED
    BY <1>1, <1>2, TypeCorrect, PTL DEF Spec

\* Snapshot and outcomes of the document pass: while the round holds the lock
\* no step of any process changes the hash of a document under it.
LEMMA HandledStep ==
    ASSUME TypeOK, HandledIsStored, KnownIsCurrent, [Next]_vars
    PROVE  HandledIsStored' /\ KnownIsCurrent'
  <1> USE ConstantsAssumption
      DEF database, stores, documentLocals, indexLocals, fetches,
          Connected
  <1> DEFINE Quiet ==
        /\ UNCHANGED <<hash, rows, task, got, known>>
        /\ \A q \in Proc : lock' = q => lock = q
        /\ \A q \in Proc : pc'[q] = "documents" => pc[q] = "documents"
  <1>q. ASSUME Quiet PROVE HandledIsStored' /\ KnownIsCurrent'
    BY <1>q DEF HandledIsStored, KnownIsCurrent
  <1>1. ASSUME NEW d \in Doc, EditPage(d) PROVE Quiet
    BY <1>1 DEF EditPage
  <1>2. ASSUME NEW p \in Proc, Acquire(p)
        PROVE  HandledIsStored' /\ KnownIsCurrent'
    <2>1. lock' = p /\ UNCHANGED <<hash, rows, got, known>>
      BY <1>2 DEF Acquire
    <2>2. /\ \A d \in Doc : task'[p][d] \in {"queued", "none"}
          /\ \A q \in Proc : q # p => task'[q] = task[q]
      BY <1>2 DEF TypeOK, Acquire
    <2>3. pc'[p] # "documents"
      BY <1>2 DEF TypeOK, Acquire, GoTo, AfterDocuments
    <2>4. QED
      BY <2>1, <2>2, <2>3 DEF HandledIsStored, KnownIsCurrent
  <1>3. ASSUME NEW p \in Proc, LoadStates(p)
        PROVE  HandledIsStored' /\ KnownIsCurrent'
    <2>1. HandledIsStored'
      BY <1>3 DEF LoadStates, HandledIsStored
    <2>2. lock' = p /\ UNCHANGED <<hash, rows, task, got>>
      BY <1>3 DEF LoadStates
    <2>3. \A d \in Doc : known'[p][d] # 0
                         => known'[p][d] = hash[d] /\ rows[d] # {}
      BY <1>3 DEF TypeOK, LoadStates, SkippableHash
    <2>4. QED
      BY <2>1, <2>2, <2>3 DEF KnownIsCurrent
  <1>o. ASSUME NEW p \in Proc, NEW d \in Doc, NEW v \in Nat \ {0},
               UNCHANGED <<hash, rows, lock, pc, known>>,
               pc[p] = "documents", task[p][d] \in {"queued", "fetched"},
               got' = [got EXCEPT ![p][d] = v],
               task' = [task EXCEPT ![p][d] = Outcome(p, d, v)]
        PROVE  HandledIsStored' /\ KnownIsCurrent'
    <2>1. Outcome(p, d, v) \in {"skipped", "unchanged", "parsed"}
      BY DEF Outcome
    <2>2. lock = p /\ Outcome(p, d, v) = "unchanged"
          => hash[d] = v /\ rows[d] # {}
      BY <1>o DEF Outcome, KnownIsCurrent
    <2>3. HandledIsStored'
      BY <1>o, <2>1, <2>2 DEF TypeOK, HandledIsStored
    <2>4. KnownIsCurrent'
      BY <1>o, <2>1 DEF TypeOK, KnownIsCurrent
    <2>5. QED
      BY <2>3, <2>4
  <1>4. ASSUME NEW p \in Proc, NEW d \in Doc, ReadCached(p, d)
        PROVE  HandledIsStored' /\ KnownIsCurrent'
    <2>1. cache[d] \in Nat \ {0}
      BY <1>4 DEF ReadCached, FromCache, TypeOK
    <2>2. QED
      BY <1>4, <2>1, <1>o DEF ReadCached
  <1>5. ASSUME NEW p \in Proc, NEW d \in Doc, Fetch(p, d)
        PROVE  HandledIsStored' /\ KnownIsCurrent'
    <2>1. site[d] # 0
      BY DEF TypeOK, Version
    <2>2. /\ UNCHANGED <<hash, rows, lock, pc, known>>
          /\ task[p][d] = "queued"
          /\ got' = [got EXCEPT ![p][d] = site[d]]
          /\ task' = [task EXCEPT ![p][d] = "fetched"]
      BY <1>5 DEF Fetch
    <2>3. QED
      BY <2>1, <2>2 DEF TypeOK, HandledIsStored, KnownIsCurrent
  <1>16. ASSUME NEW p \in Proc, NEW d \in Doc, StorePage(p, d)
         PROVE  HandledIsStored' /\ KnownIsCurrent'
    <2>1. got[p][d] \in Nat \ {0}
      BY <1>16 DEF StorePage, KnownIsCurrent, TypeOK
    <2>2. got' = [got EXCEPT ![p][d] = got[p][d]]
      BY <1>16 DEF StorePage, TypeOK
    <2>3. QED
      BY <1>16, <2>1, <2>2, <1>o DEF StorePage
  <1>17. ASSUME NEW p \in Proc, NEW d \in Doc, FetchFails(p, d)
         PROVE  HandledIsStored' /\ KnownIsCurrent'
    <2>1. /\ UNCHANGED <<hash, rows, lock, pc, known, got>>
          /\ task' = [task EXCEPT ![p][d] = "failed"]
      BY <1>17 DEF FetchFails
    <2>2. QED
      BY <2>1 DEF TypeOK, HandledIsStored, KnownIsCurrent
  <1>18. ASSUME NEW p \in Proc, LatePass(p) PROVE Quiet
    BY <1>18 DEF LatePass, LateFetch, LateStore
  <1>6. ASSUME NEW p \in Proc, NEW d \in Doc, Persist(p, d)
        PROVE  HandledIsStored' /\ KnownIsCurrent'
    <2>1. /\ lock = p /\ lock' = p
          /\ task[p][d] = "parsed"
          /\ task' = [task EXCEPT ![p][d] = "stored"]
          /\ hash' = [hash EXCEPT ![d] = got[p][d]]
          /\ \E new : rows' = [rows EXCEPT ![d] = new]
          /\ UNCHANGED <<got, known, pc>>
      BY <1>6 DEF Persist
    <2>2. HandledIsStored'
      BY <2>1 DEF TypeOK, HandledIsStored
    <2>3. KnownIsCurrent'
      BY <2>1 DEF TypeOK, KnownIsCurrent
    <2>4. QED
      BY <2>2, <2>3
  <1>7. ASSUME NEW p \in Proc, DocumentsDone(p) PROVE Quiet
    BY <1>7 DEF TypeOK, DocumentsDone, GoTo, AfterDocuments
  <1>8. ASSUME NEW p \in Proc,
               \/ EmbedBatch(p)
               \/ UpsertVectors(p)
               \/ \E c \in Chunk : MarkIndexed(p, c)
               \/ EmbedDone(p)
        PROVE  Quiet
    BY <1>8 DEF TypeOK, EmbedBatch, UpsertVectors, MarkIndexed, MayMark,
                EmbedDone, GoTo
  <1>9. ASSUME NEW p \in Proc,
               \/ ReadActive(p)
               \/ DeleteOrphans(p)
               \/ SelectKeywordTargets(p)
               \/ \E d \in Doc : StoreKeywords(p, d) \/ KeywordsFail(p, d)
        PROVE  Quiet
    BY <1>9 DEF TypeOK, ReadActive, DeleteOrphans, SelectKeywordTargets,
                StoreKeywords, KeywordsFail, GoTo
  <1>10. ASSUME NEW p \in Proc,
                KeywordsDone(p) \/ ReadRecords(p) \/ WriteBm25(p)
         PROVE  Quiet
    BY <1>10 DEF TypeOK, KeywordsDone, ReadRecords, WriteBm25, GoTo
  <1>11. ASSUME NEW p \in Proc, Raise(p) PROVE Quiet
    BY <1>11 DEF TypeOK, Raise, GoTo
  <1>12. ASSUME NEW p \in Proc, Finish(p) \/ Crash(p) \/ Abort(p)
         PROVE  HandledIsStored' /\ KnownIsCurrent'
    <2>1. UNCHANGED <<hash, rows>>
      BY <1>12 DEF Finish, Crash, Abort
    <2>2. \A q \in Proc : lock' = q => q # p /\ lock = q
      BY <1>12 DEF TypeOK, Finish, Crash, Abort, LockAfterCrash
    <2>3. \A q \in Proc : q # p => /\ pc'[q] = pc[q]
                                   /\ task'[q] = task[q]
                                   /\ got'[q] = got[q]
                                   /\ known'[q] = known[q]
      BY <1>12 DEF TypeOK, Finish, Crash, Abort, GoTo, ForgetDocuments
    <2>4. \A d \in Doc : task'[p][d] = "none"
      BY <1>12 DEF TypeOK, Finish, Crash, Abort, ForgetDocuments, NoTask
    <2>5. QED
      BY <2>1, <2>2, <2>3, <2>4 DEF HandledIsStored, KnownIsCurrent
  <1>13. ASSUME NEW p \in Proc, LoseSession(p) PROVE Quiet
    BY <1>13 DEF TypeOK, LoseSession
  <1>14. CASE UNCHANGED vars
    BY <1>14 DEF vars, HandledIsStored, KnownIsCurrent
  <1>15. QED
    BY <1>q, <1>1, <1>2, <1>3, <1>4, <1>5, <1>6, <1>7, <1>8, <1>9, <1>10,
       <1>11, <1>12, <1>13, <1>14, <1>16, <1>17, <1>18
    DEF Next, Step, Failure, DocumentPass, IndexPass

\* A target counted as stored or unchanged is in the database with the content
\* the round fetched, and no document without chunks is skipped as unchanged:
\* the snapshot of hashes taken before the fetches is still right when it is
\* compared, because only the holder of the lock writes documents.
THEOREM HandledCorrect == Spec => []HandledIsStored
  <1>1. Init => HandledIsStored /\ KnownIsCurrent
    BY DEF Init, NoTask, HandledIsStored, KnownIsCurrent
  <1>2. TypeOK /\ HandledIsStored /\ KnownIsCurrent /\ [Next]_vars
        => (HandledIsStored /\ KnownIsCurrent)'
    BY HandledStep
  <1>3. QED
    BY <1>1, <1>2, TypeCorrect, PTL DEF Spec
-----------------------------------------------------------------------------
\* A page leaves the site, waits in a task, is written to the cache and stored:
\* on the way under the lock it is never overtaken, and a cache file that was
\* written without it is remembered as such.
LEMMA ContentStep ==
    ASSUME TypeOK, ContentInOrder, [Next]_vars
    PROVE  ContentInOrder'
  <1> USE ConstantsAssumption
      DEF database, stores, documentLocals, indexLocals, fetches
  <1>t. /\ \A d \in Doc : site[d] \in Nat /\ cache[d] \in Nat /\ hash[d] \in Nat
        /\ \A p \in Proc, d \in Doc : got[p][d] \in Nat
    BY DEF TypeOK, Version
  <1> DEFINE Quiet ==
        /\ UNCHANGED <<site, cache, overtaken, hash, run>>
        /\ \A q \in Proc : /\ lock' = q => lock = q
                           /\ pc'[q] \in {"load", "documents"} => pc'[q] = pc[q]
        /\ UNCHANGED <<task, got>>
  <1>1. ASSUME NEW d \in Doc, EditPage(d) PROVE ContentInOrder'
    <2>1. /\ UNCHANGED <<cache, overtaken, late, hash, got, pc, lock, task, run>>
          /\ \A e \in Doc : site[e] <= site'[e] /\ site'[e] \in Nat
      BY <1>1, <1>t DEF TypeOK, EditPage
    <2>2. NothingAheadOfSite'
      <3>1. \A p \in Proc : \A x \in late[p] : x[1] \in Doc /\ x[2] \in Nat
        BY DEF TypeOK
      <3>2. \A p \in Proc : \A x \in late[p] : x[2] <= site'[x[1]]
        BY <2>1, <3>1, <1>t DEF ContentInOrder, NothingAheadOfSite
      <3>3. QED
        BY <2>1, <3>2, <1>t DEF ContentInOrder, NothingAheadOfSite
    <2>3. QED
      BY <2>1, <2>2 DEF ContentInOrder, CacheInOrder, PagesInOrder, PageInOrder
  <1>q. ASSUME Quiet, UNCHANGED late PROVE ContentInOrder'
    <2>1. NothingAheadOfSite' /\ CacheInOrder'
      BY <1>q DEF ContentInOrder, NothingAheadOfSite, CacheInOrder
    <2>2. PagesInOrder'
      BY <1>q DEF ContentInOrder, PagesInOrder, PageInOrder
    <2>3. QED
      BY <2>1, <2>2 DEF ContentInOrder
  <1>2. ASSUME NEW p \in Proc, Acquire(p) PROVE ContentInOrder'
    <2>1. /\ UNCHANGED <<site, cache, overtaken, hash, got>> /\ lock' = p
          /\ \A d \in Doc : task'[p][d] \in {"none", "queued"}
          /\ late'[p] = late[p] \/ late'[p] = {}
      BY <1>2 DEF TypeOK, Acquire
    <2>2. \A q \in Proc : q # p => /\ task'[q] = task[q] /\ pc'[q] = pc[q]
                                   /\ late'[q] = late[q]
      BY <1>2 DEF TypeOK, Acquire, GoTo
    <2>3. pc'[p] # "documents"
      BY <1>2 DEF TypeOK, Acquire, GoTo, AfterDocuments
    <2>4. NothingAheadOfSite'
      BY <2>1, <2>2 DEF ContentInOrder, NothingAheadOfSite
    <2>5. CacheInOrder' /\ PagesInOrder'
      BY <2>1, <2>2, <2>3
      DEF ContentInOrder, CacheInOrder, PagesInOrder
    <2>6. QED
      BY <2>4, <2>5 DEF ContentInOrder
  <1>3. ASSUME NEW p \in Proc, LoadStates(p) PROVE ContentInOrder'
    <2>1. /\ UNCHANGED <<site, cache, overtaken, late, hash, got, task, run, lock>>
          /\ lock = p /\ pc[p] = "load" /\ pc'[p] = "documents"
          /\ \A q \in Proc : q # p => pc'[q] = pc[q]
      BY <1>3 DEF TypeOK, LoadStates, GoTo, Connected
    <2>2. \A d \in Doc : task'[p][d] \in {"none", "queued"}
      BY <2>1 DEF ContentInOrder, PagesInOrder
    <2>3. NothingAheadOfSite' /\ CacheInOrder'
      BY <2>1 DEF ContentInOrder, NothingAheadOfSite, CacheInOrder
    <2>4. PagesInOrder'
      BY <2>1, <2>2 DEF ContentInOrder, PagesInOrder, PageInOrder
    <2>5. QED
      BY <2>3, <2>4 DEF ContentInOrder
  <1>4. ASSUME NEW p \in Proc, NEW d \in Doc, ReadCached(p, d)
        PROVE  ContentInOrder'
    <2>1. /\ UNCHANGED <<site, cache, overtaken, late, hash, lock, pc, run>>
          /\ pc[p] = "documents" /\ run[p].start = PARSE
          /\ got'[p][d] = cache[d]
          /\ task'[p][d] \in {"skipped", "unchanged", "parsed"}
          /\ \A q \in Proc, e \in Doc :
               q # p \/ e # d => /\ got'[q][e] = got[q][e]
                                 /\ task'[q][e] = task[q][e]
      BY <1>4 DEF TypeOK, ReadCached, FromCache, Outcome
    <2>2. NothingAheadOfSite'
      BY <2>1 DEF ContentInOrder, NothingAheadOfSite
    <2>3. PageInOrder(p, d)'
      BY <2>1, <1>t DEF ContentInOrder, CacheInOrder, PageInOrder
    <2>4. PagesInOrder'
      BY <2>1, <2>3 DEF ContentInOrder, PagesInOrder, PageInOrder
    <2>5. QED
      BY <2>1, <2>2, <2>4 DEF ContentInOrder, CacheInOrder
  <1>5. ASSUME NEW p \in Proc, NEW d \in Doc, Fetch(p, d)
        PROVE  ContentInOrder'
    <2>1. /\ UNCHANGED <<site, cache, overtaken, late, hash, lock, pc, run>>
          /\ pc[p] = "documents"
          /\ got'[p][d] = site[d] /\ task'[p][d] = "fetched"
          /\ \A q \in Proc, e \in Doc :
               q # p \/ e # d => /\ got'[q][e] = got[q][e]
                                 /\ task'[q][e] = task[q][e]
      BY <1>5 DEF TypeOK, Fetch
    <2>2. NothingAheadOfSite'
      BY <2>1, <1>t DEF ContentInOrder, NothingAheadOfSite
    <2>3. PageInOrder(p, d)'
      BY <2>1 DEF ContentInOrder, NothingAheadOfSite, PageInOrder
    <2>4. PagesInOrder'
      BY <2>1, <2>3 DEF ContentInOrder, PagesInOrder, PageInOrder
    <2>5. QED
      BY <2>1, <2>2, <2>4 DEF ContentInOrder, CacheInOrder
  <1>s. ASSUME NEW p \in Proc, NEW d \in Doc,
               UNCHANGED <<site, late, hash, lock, pc, run, got>>,
               pc[p] = "documents", task[p][d] \in {"queued", "fetched"},
               task'[p][d] \in TaskState \ {"queued", "fetched"},
               task'[p][d] = "parsed" => task[p][d] = "fetched",
               \A q \in Proc, e \in Doc :
                  q # p \/ e # d => task'[q][e] = task[q][e],
               \/ task'[p][d] # "parsed" /\ UNCHANGED <<cache, overtaken>>
               \/ task[p][d] = "fetched" /\ StoreFetched(d, got[p][d], lock = p)
        PROVE  ContentInOrder'
    <2>1. CASE task'[p][d] # "parsed" /\ UNCHANGED <<cache, overtaken>>
      <3>1. NothingAheadOfSite' /\ CacheInOrder'
        BY <1>s, <2>1 DEF ContentInOrder, NothingAheadOfSite, CacheInOrder
      <3>2. PagesInOrder'
        BY <1>s, <2>1 DEF ContentInOrder, PagesInOrder, PageInOrder
      <3>3. QED
        BY <3>1, <3>2 DEF ContentInOrder
    <2>2. CASE task[p][d] = "fetched" /\ StoreFetched(d, got[p][d], lock = p)
      <3>1. /\ cache'[d] = got[p][d]
            /\ \A e \in Doc : e # d => /\ cache'[e] = cache[e]
                                       /\ e \in overtaken' <=> e \in overtaken
            /\ lock = p => d \notin overtaken'
            /\ lock # p => d \in overtaken'
        BY <2>2 DEF TypeOK, StoreFetched, Cached
      <3>2. got[p][d] <= site[d]
        BY <2>2 DEF ContentInOrder, NothingAheadOfSite
      <3>3. lock = p => hash[d] <= got[p][d]
        BY <1>s, <2>2 DEF ContentInOrder, PagesInOrder, PageInOrder
      <3>4. NothingAheadOfSite'
        BY <1>s, <2>2, <3>1, <3>2 DEF ContentInOrder, NothingAheadOfSite
      <3>5. CacheInOrder'
        BY <1>s, <3>1, <3>3 DEF ContentInOrder, CacheInOrder
      <3>6. ASSUME NEW q \in Proc, NEW e \in Doc, lock = q, pc[q] = "documents"
            PROVE  PageInOrder(q, e)'
        <4>1. CASE e # d
          BY <1>s, <3>1, <3>6, <4>1 DEF ContentInOrder, PagesInOrder, PageInOrder
        <4>2. CASE e = d /\ q = p
          <5>1. /\ task'[p][d] # "fetched"
                /\ hash'[d] <= got'[p][d] /\ got'[p][d] <= cache'[d]
            BY <1>s, <3>1, <3>3, <3>6, <4>2, <1>t
          <5>2. QED
            BY <4>2, <5>1 DEF PageInOrder
        <4>3. CASE e = d /\ q # p
          BY <1>s, <3>1, <3>6, <4>3 DEF ContentInOrder, PagesInOrder, PageInOrder
        <4>4. QED
          BY <4>1, <4>2, <4>3
      <3>7. PagesInOrder'
        BY <1>s, <3>6 DEF ContentInOrder, PagesInOrder
      <3>8. QED
        BY <3>4, <3>5, <3>7 DEF ContentInOrder
    <2>3. QED
      BY <1>s, <2>1, <2>2
  <1>6. ASSUME NEW p \in Proc, NEW d \in Doc, StorePage(p, d)
        PROVE  ContentInOrder'
    <2>1. /\ UNCHANGED <<site, late, hash, lock, pc, run, got>>
          /\ pc[p] = "documents" /\ task[p][d] = "fetched"
          /\ \/ StoreFetched(d, got[p][d], lock = p)
             \/ got[p][d] \in NotArticle /\ UNCHANGED <<cache, overtaken>>
          /\ task'[p][d] = Outcome(p, d, got[p][d])
          /\ \A q \in Proc, e \in Doc :
                q # p \/ e # d => task'[q][e] = task[q][e]
      BY <1>6 DEF TypeOK, StorePage
    <2>2. task'[p][d] \in {"skipped", "unchanged", "parsed"}
      BY <2>1 DEF Outcome
    <2>3. got[p][d] \in NotArticle => task'[p][d] # "parsed"
      BY <2>1 DEF Outcome
    <2>4. QED
      BY <2>1, <2>2, <2>3, <1>s DEF TaskState
  <1>7. ASSUME NEW p \in Proc, NEW d \in Doc, FetchFails(p, d)
        PROVE  ContentInOrder'
    <2>1. /\ UNCHANGED <<site, late, hash, lock, pc, run, got>>
          /\ pc[p] = "documents" /\ task[p][d] \in {"queued", "fetched"}
          /\ \/ UNCHANGED <<cache, overtaken>>
             \/ task[p][d] = "fetched" /\ StoreFetched(d, got[p][d], lock = p)
          /\ task'[p][d] = "failed"
          /\ \A q \in Proc, e \in Doc :
                q # p \/ e # d => task'[q][e] = task[q][e]
      BY <1>7 DEF TypeOK, FetchFails, Unfinished
    <2>2. QED
      BY <2>1, <1>s DEF TaskState
  <1>8. ASSUME NEW p \in Proc, NEW d \in Doc, LateFetch(p, d)
        PROVE  ContentInOrder'
    <2>1. Quiet
      BY <1>8 DEF LateFetch
    <2>2. \A q \in Proc : late'[q] \subseteq late[q] \union {<<d, site[d]>>}
      BY <1>8 DEF TypeOK, LateFetch
    <2>3. \A q \in Proc : \A x \in late'[q] : x[2] <= site'[x[1]]
      BY <2>1, <2>2, <1>t DEF ContentInOrder, NothingAheadOfSite
    <2>4. NothingAheadOfSite' /\ CacheInOrder'
      BY <2>1, <2>3 DEF ContentInOrder, NothingAheadOfSite, CacheInOrder
    <2>5. PagesInOrder'
      BY <2>1 DEF ContentInOrder, PagesInOrder, PageInOrder
    <2>6. QED
      BY <2>4, <2>5 DEF ContentInOrder
  <1>9. ASSUME NEW p \in Proc, NEW d \in Doc, LateStore(p, d)
        PROVE  ContentInOrder'
    <2>1. PICK v \in Version :
             /\ <<d, v>> \in late[p]
             /\ late' = [late EXCEPT ![p] = @ \ {<<d, v>>}]
             /\ StoreFetched(d, v, FALSE) \/ UNCHANGED <<cache, overtaken>>
      BY <1>9 DEF LateStore
    <2>2. UNCHANGED <<site, hash, lock, pc, run, task, got>>
      BY <1>9 DEF LateStore
    <2>3. \A q \in Proc : late'[q] \subseteq late[q]
      BY <2>1 DEF TypeOK
    <2>4. v <= site[d]
      <3>1. <<d, v>>[2] <= site[<<d, v>>[1]]
        BY <2>1 DEF ContentInOrder, NothingAheadOfSite
      <3>2. QED
        BY <3>1
    <2>5. \A e \in Doc : \/ cache'[e] = cache[e]
                            /\ (e \in overtaken' <=> e \in overtaken)
                         \/ e = d /\ cache'[e] = v /\ e \in overtaken'
      BY <2>1 DEF TypeOK, StoreFetched, Cached
    <2>6. NothingAheadOfSite'
      BY <2>2, <2>3, <2>4, <2>5 DEF ContentInOrder, NothingAheadOfSite
    <2>7. CacheInOrder'
      BY <2>2, <2>5 DEF ContentInOrder, CacheInOrder
    <2>8. PagesInOrder'
      BY <2>2, <2>5 DEF ContentInOrder, PagesInOrder, PageInOrder
    <2>9. QED
      BY <2>6, <2>7, <2>8 DEF ContentInOrder
  <1>10. ASSUME NEW p \in Proc, NEW d \in Doc, Persist(p, d)
         PROVE  ContentInOrder'
    <2>1. /\ UNCHANGED <<site, cache, overtaken, late, got, lock, pc, run>>
          /\ lock = p /\ pc[p] = "documents" /\ task[p][d] = "parsed"
          /\ hash'[d] = got[p][d] /\ task'[p][d] = "stored"
          /\ \A e \in Doc : e # d => hash'[e] = hash[e]
          /\ \A q \in Proc, e \in Doc :
                q # p \/ e # d => task'[q][e] = task[q][e]
      BY <1>10 DEF TypeOK, Persist, Connected
    <2>2. got[p][d] <= cache[d] \/ d \in overtaken
      BY <2>1 DEF ContentInOrder, PagesInOrder, PageInOrder
    <2>3. NothingAheadOfSite'
      BY <2>1 DEF ContentInOrder, NothingAheadOfSite
    <2>4. CacheInOrder'
      BY <2>1, <2>2 DEF ContentInOrder, CacheInOrder
    <2>5. PagesInOrder'
      BY <2>1 DEF ContentInOrder, PagesInOrder, PageInOrder
    <2>6. QED
      BY <2>3, <2>4, <2>5 DEF ContentInOrder
  <1>11. ASSUME NEW p \in Proc, DocumentsDone(p) PROVE ContentInOrder'
    BY <1>11, <1>q DEF TypeOK, DocumentsDone, GoTo, AfterDocuments
  <1>12. ASSUME NEW p \in Proc, IndexPass(p) PROVE ContentInOrder'
    <2>1. UNCHANGED <<site, fetches, hash, run, lock, task, got>>
      BY <1>12 DEF IndexPass, EmbedBatch, UpsertVectors, MarkIndexed, EmbedDone,
                   ReadActive, DeleteOrphans, SelectKeywordTargets,
                   StoreKeywords, KeywordsDone, ReadRecords, WriteBm25
    <2>2. \A q \in Proc : pc'[q] = pc[q] \/ pc'[q] \notin {"load", "documents"}
      BY <1>12 DEF TypeOK, IndexPass, EmbedBatch, UpsertVectors, MarkIndexed,
                   EmbedDone, ReadActive, DeleteOrphans, SelectKeywordTargets,
                   StoreKeywords, KeywordsDone, ReadRecords, WriteBm25, GoTo
    <2>3. QED
      BY <2>1, <2>2, <1>q
  <1>13. ASSUME NEW p \in Proc, NEW d \in Doc, KeywordsFail(p, d)
         PROVE  ContentInOrder'
    BY <1>13, <1>q DEF KeywordsFail
  <1>14. ASSUME NEW p \in Proc, LoseSession(p) PROVE ContentInOrder'
    BY <1>14, <1>q DEF TypeOK, LoseSession
  <1>o. ASSUME NEW p \in Proc, OutliveRound(p), UNCHANGED site
        PROVE  \A q \in Proc : \A x \in late'[q] : x[2] <= site'[x[1]]
    <2>1. \A x \in LeftBehind(p) : x[2] <= site[x[1]]
      <3> SUFFICES ASSUME NEW d \in Unfinished(p)
                   PROVE  (IF task[p][d] = "fetched" THEN got[p][d] ELSE 0)
                            <= site[d]
        BY DEF LeftBehind
      <3>1. QED
        BY <1>t DEF ContentInOrder, NothingAheadOfSite, Unfinished
    <2>2. \A q \in Proc : late'[q] \subseteq late[q] \union LeftBehind(p)
      BY <1>o DEF TypeOK, OutliveRound
    <2>3. QED
      BY <1>o, <2>1, <2>2 DEF ContentInOrder, NothingAheadOfSite
  <1>15. ASSUME NEW p \in Proc, Raise(p) PROVE ContentInOrder'
    <2>1. Quiet
      BY <1>15 DEF TypeOK, Raise, GoTo
    <2>2. \A q \in Proc : \A x \in late'[q] : x[2] <= site'[x[1]]
      BY <1>15, <1>o DEF Raise
    <2>3. NothingAheadOfSite' /\ CacheInOrder'
      BY <2>1, <2>2 DEF ContentInOrder, NothingAheadOfSite, CacheInOrder
    <2>4. PagesInOrder'
      BY <2>1 DEF ContentInOrder, PagesInOrder, PageInOrder
    <2>5. QED
      BY <2>3, <2>4 DEF ContentInOrder
  <1>16. ASSUME NEW p \in Proc, Finish(p) \/ Crash(p) \/ Abort(p)
         PROVE  ContentInOrder'
    <2>1. UNCHANGED <<site, cache, overtaken, hash>>
      BY <1>16 DEF Finish, Crash, Abort
    <2>2. \A q \in Proc : q # p => /\ task'[q] = task[q] /\ got'[q] = got[q]
                                   /\ pc'[q] = pc[q] /\ run'[q] = run[q]
      BY <1>16 DEF TypeOK, Finish, Crash, Abort, GoTo, ForgetDocuments
    <2>3. pc'[p] = "idle" /\ \A d \in Doc : task'[p][d] = "none"
      BY <1>16 DEF TypeOK, Finish, Crash, Abort, GoTo, ForgetDocuments, NoTask
    <2>4. \A q \in Proc : lock' = q => lock = q
      BY <1>16 DEF TypeOK, Finish, Crash, Abort, LockAfterCrash
    <2>5. \A q \in Proc : \A x \in late'[q] : x[2] <= site'[x[1]]
      <3>1. CASE Finish(p) \/ Crash(p)
        <4>1. \A q \in Proc : late'[q] \subseteq late[q]
          BY <3>1 DEF TypeOK, Finish, Crash
        <4>2. QED
          BY <2>1, <4>1 DEF ContentInOrder, NothingAheadOfSite
      <3>2. CASE Abort(p)
        BY <3>2, <1>o DEF Abort
      <3>3. QED
        BY <1>16, <3>1, <3>2
    <2>6. NothingAheadOfSite' /\ CacheInOrder'
      BY <2>1, <2>2, <2>3, <2>5
      DEF ContentInOrder, NothingAheadOfSite, CacheInOrder
    <2>7. PagesInOrder'
      BY <2>1, <2>2, <2>3, <2>4 DEF ContentInOrder, PagesInOrder, PageInOrder
    <2>8. QED
      BY <2>6, <2>7 DEF ContentInOrder
  <1>17. CASE UNCHANGED vars
    BY <1>17, <1>q DEF vars
  <1>18. QED
    BY <1>1, <1>2, <1>3, <1>4, <1>5, <1>6, <1>7, <1>8, <1>9, <1>10, <1>11,
       <1>12, <1>13, <1>14, <1>15, <1>16, <1>17
    DEF Next, Step, LatePass, Failure, DocumentPass

\* Only storing a document changes what is stored of it.
LEMMA OnlyPersistStores ==
    ASSUME TypeOK, [Next]_vars, NEW d \in Doc, hash'[d] # hash[d]
    PROVE  \E p \in Proc : Persist(p, d)
  <1> USE DEF database, stores, documentLocals, indexLocals, fetches
  <1>1. ASSUME NEW p \in Proc, NEW e \in Doc, Persist(p, e) PROVE e = d
    BY <1>1 DEF TypeOK, Persist
  <1>2. ASSUME NEW p \in Proc, NEW e \in Doc,
               \/ ReadCached(p, e)
               \/ Fetch(p, e)
               \/ StorePage(p, e)
               \/ LateFetch(p, e)
               \/ LateStore(p, e)
        PROVE  UNCHANGED hash
    BY <1>2 DEF ReadCached, Fetch, StorePage, LateFetch, LateStore
  <1>3. ASSUME NEW p \in Proc,
               Acquire(p) \/ LoadStates(p) \/ DocumentsDone(p) \/ IndexPass(p)
        PROVE  UNCHANGED hash
    BY <1>3 DEF Acquire, LoadStates, DocumentsDone, IndexPass, EmbedBatch,
                UpsertVectors, MarkIndexed, EmbedDone, ReadActive,
                DeleteOrphans, SelectKeywordTargets, StoreKeywords,
                KeywordsDone, ReadRecords, WriteBm25
  <1>4. ASSUME NEW p \in Proc, Finish(p) \/ Abort(p) \/ Failure(p)
        PROVE  UNCHANGED hash
    BY <1>4 DEF Finish, Abort, Failure, FetchFails, KeywordsFail, Raise, Crash,
                LoseSession
  <1>5. ASSUME NEW e \in Doc, EditPage(e) PROVE UNCHANGED hash
    BY <1>5 DEF EditPage
  <1>6. UNCHANGED vars => UNCHANGED hash
    BY DEF vars
  <1>7. QED
    BY <1>1, <1>2, <1>3, <1>4, <1>5, <1>6 DEF Next, Step, LatePass, DocumentPass

\* Whatever the faults, a document goes back to older content only in a round
\* that parses again from a fetch cache file which a task without the lock was
\* the last to write: leftover tasks and lost sessions reach the database by
\* that one way, and a round that asks the site is always right.
THEOREM ContentCorrect == Spec => NoContentRegression
  <1> DEFINE Justified == \A d \in Doc :
               hash'[d] < hash[d] =>
                 /\ d \in overtaken
                 /\ \E p \in Proc : lock = p /\ run[p].start = PARSE
  <1>1. Init => ContentInOrder
    BY ConstantsAssumption
    DEF Init, NoDoc, NoTask, ContentInOrder, NothingAheadOfSite, CacheInOrder,
        PagesInOrder, PageInOrder
  <1>2. TypeOK /\ ContentInOrder /\ [Next]_vars => ContentInOrder'
    BY ContentStep
  <1>3. TypeOK /\ ContentInOrder /\ [Next]_vars => [Justified]_vars
    <2> SUFFICES ASSUME TypeOK, ContentInOrder, [Next]_vars,
                        NEW d \in Doc, hash'[d] < hash[d]
                 PROVE  /\ d \in overtaken
                        /\ \E p \in Proc : lock = p /\ run[p].start = PARSE
      OBVIOUS
    <2>1. hash[d] \in Nat
      BY ConstantsAssumption DEF TypeOK
    <2>2. hash'[d] # hash[d]
      BY <2>1
    <2>3. PICK p \in Proc : Persist(p, d)
      BY <2>2, OnlyPersistStores
    <2>4. /\ lock = p /\ pc[p] = "documents" /\ task[p][d] = "parsed"
          /\ hash'[d] = got[p][d]
      BY <2>3 DEF Persist, Connected, TypeOK
    <2>5. got[p][d] \in Nat
      BY ConstantsAssumption DEF TypeOK
    <2>6. ~(hash[d] <= got[p][d])
      BY <2>1, <2>4, <2>5
    <2>7. QED
      BY <2>4, <2>6 DEF ContentInOrder, PagesInOrder, PageInOrder
  <1>4. [][Justified]_vars => NoContentRegression
    BY PTL DEF NoContentRegression
  <1> HIDE DEF Justified
  <1>5. QED
    BY <1>1, <1>2, <1>3, <1>4, TypeCorrect, PTL DEF Spec

-----------------------------------------------------------------------------
(* Part 2: no session is lost under a running round.                       *)

\* Without lost sessions the lock is given up only by leaving the round.
LEMMA OwnsLockStep ==
    ASSUME "session" \notin Faults, TypeOK, OwnsLock, [Next]_vars
    PROVE  OwnsLock'
  <1> USE ConstantsAssumption
      DEF database, stores, documentLocals, indexLocals, fetches
  <1> DEFINE Quiet(p) == /\ pc[p] # "idle"
                         /\ UNCHANGED lock
                         /\ \A q \in Proc \ {p} : pc'[q] = pc[q]
  <1>q. ASSUME NEW p \in Proc, Quiet(p) PROVE OwnsLock'
    BY <1>q DEF OwnsLock
  <1>1. ASSUME NEW d \in Doc, EditPage(d) PROVE OwnsLock'
    BY <1>1 DEF EditPage, OwnsLock
  <1>2. ASSUME NEW p \in Proc, Acquire(p) PROVE OwnsLock'
    BY <1>2 DEF TypeOK, Acquire, MayStart, GoTo, OwnsLock
  <1>3. ASSUME NEW p \in Proc, DocumentPass(p) PROVE Quiet(p)
    BY <1>3 DEF TypeOK, DocumentPass, LoadStates, DocumentsDone, ReadCached,
                Fetch, StorePage, Persist, GoTo
  <1>4. ASSUME NEW p \in Proc, IndexPass(p) PROVE Quiet(p)
    BY <1>4 DEF TypeOK, IndexPass, EmbedBatch, UpsertVectors, MarkIndexed,
                MayMark, EmbedDone, ReadActive, DeleteOrphans,
                SelectKeywordTargets, StoreKeywords, KeywordsDone, ReadRecords,
                WriteBm25, GoTo
  <1>5. ASSUME NEW p \in Proc, NEW d \in Doc, FetchFails(p, d) \/ KeywordsFail(p, d)
        PROVE  Quiet(p)
    BY <1>5 DEF FetchFails, KeywordsFail
  <1>6. ASSUME NEW p \in Proc, Raise(p) PROVE Quiet(p)
    BY <1>6 DEF TypeOK, Raise, GoTo
  <1>7. ASSUME NEW p \in Proc, Finish(p) \/ Crash(p) PROVE OwnsLock'
    <2>1. pc[p] # "idle" /\ pc' = [pc EXCEPT ![p] = "idle"]
      BY <1>7 DEF Finish, Crash, GoTo
    <2>2. lock = p /\ \A q \in Proc \ {p} : pc[q] = "idle"
      BY <2>1 DEF OwnsLock
    <2>3. \A q \in Proc : pc'[q] = "idle"
      BY <2>1, <2>2 DEF TypeOK
    <2> QED
      BY <2>3 DEF OwnsLock
  <1>8. ASSUME NEW p \in Proc, LoseSession(p) \/ Abort(p) PROVE FALSE
    BY <1>8 DEF LoseSession, Fault, Abort, Connected, OwnsLock
  <1>9. ASSUME NEW p \in Proc, LatePass(p) PROVE OwnsLock'
    BY <1>9 DEF LatePass, LateFetch, LateStore, OwnsLock
  <1>10. CASE UNCHANGED vars
    BY <1>10 DEF vars, OwnsLock
  <1>11. QED
    BY <1>q, <1>1, <1>2, <1>3, <1>4, <1>5, <1>6, <1>7, <1>8, <1>9, <1>10
    DEF Next, Step, Failure

\* At most one process is inside a round, however rounds start, raise and
\* crash: the advisory lock excludes the trigger service and the command lines
\* from one another, and it is never left behind.
THEOREM OneRoundCorrect ==
    ASSUME "session" \notin Faults
    PROVE  Spec => [](OwnsLock /\ OneRound)
  <1>1. Init => OwnsLock
    BY DEF Init, OwnsLock
  <1>2. TypeOK /\ OwnsLock /\ [Next]_vars => OwnsLock'
    BY OwnsLockStep
  <1>3. OwnsLock => OneRound
    BY DEF OwnsLock, OneRound
  <1>4. QED
    BY <1>1, <1>2, <1>3, TypeCorrect, PTL DEF Spec

\* Everybody else is idle while p is inside a round.
LEMMA Alone ==
    ASSUME OwnsLock, NEW p \in Proc, pc[p] # "idle"
    PROVE  \A q \in Proc \ {p} : pc[q] = "idle"
  BY DEF OwnsLock

-----------------------------------------------------------------------------
\* A step that changes no row changes no union of rows.
LEMMA SameRows == rows' = rows => AllRows' = AllRows
  BY DEF AllRows

\* What persisting a document does to the set of all rows.
LEMMA ReplacedRows ==
    ASSUME TypeOK, RowsDisjoint, NEW d \in Doc, NEW new,
           rows' = [rows EXCEPT ![d] = new]
    PROVE  AllRows' = (AllRows \ rows[d]) \union new
  <1>1. /\ rows'[d] = new
        /\ \A e \in Doc : e # d => rows'[e] = rows[e]
    BY DEF TypeOK
  <1>2. \A c : c \in AllRows' <=> \E e \in Doc : c \in rows'[e]
    BY DEF AllRows
  <1>3. \A c : c \in AllRows <=> \E e \in Doc : c \in rows[e]
    BY DEF AllRows
  <1>4. \A c : c \in AllRows' <=> (c \in AllRows /\ c \notin rows[d]) \/ c \in new
    BY <1>1, <1>2, <1>3 DEF RowsDisjoint
  <1>5. QED
    BY <1>4

\* Fresh chunk ids are in no store.
LEMMA FreshIds ==
    ASSUME NEW c \in Chunk \ InUse
    PROVE  c \notin AllRows /\ c \notin vectors /\ c \notin bm25
  BY DEF InUse

\* Fresh ids belong to one document only, so no row is in two of them.
LEMMA DisjointStep ==
    ASSUME TypeOK, RowsDisjoint, [Next]_vars
    PROVE  RowsDisjoint'
  <1> USE DEF database, stores, documentLocals, indexLocals, fetches
  <1>1. ASSUME NEW p \in Proc, NEW d \in Doc, Persist(p, d) PROVE RowsDisjoint'
    <2>1. PICK new \in SUBSET (Chunk \ InUse) : rows' = [rows EXCEPT ![d] = new]
      BY <1>1 DEF Persist
    <2>2. \A c \in new : \A e \in Doc : c \notin rows[e]
      BY <2>1, FreshIds DEF AllRows
    <2>3. rows'[d] = new /\ \A e \in Doc : e # d => rows'[e] = rows[e]
      BY <2>1 DEF TypeOK
    <2>4. QED
      BY <2>2, <2>3 DEF RowsDisjoint
  <1>2. CASE UNCHANGED rows
    BY <1>2 DEF RowsDisjoint
  <1>3. ASSUME NEW d \in Doc, EditPage(d) PROVE UNCHANGED rows
    BY <1>3 DEF EditPage
  <1>4. ASSUME NEW p \in Proc, Acquire(p) \/ LoadStates(p) \/ DocumentsDone(p)
        PROVE  UNCHANGED rows
    BY <1>4 DEF Acquire, LoadStates, DocumentsDone
  <1>5. ASSUME NEW p \in Proc, NEW d \in Doc,
               ReadCached(p, d) \/ Fetch(p, d) \/ StorePage(p, d) \/ LatePass(p)
        PROVE  UNCHANGED rows
    BY <1>5 DEF ReadCached, Fetch, StorePage, LatePass, LateFetch, LateStore
  <1>6. ASSUME NEW p \in Proc, IndexPass(p) PROVE UNCHANGED rows
    BY <1>6 DEF IndexPass, EmbedBatch, UpsertVectors, MarkIndexed, EmbedDone,
                ReadActive, DeleteOrphans, SelectKeywordTargets, StoreKeywords,
                KeywordsDone, ReadRecords, WriteBm25
  <1>7. ASSUME NEW p \in Proc, Finish(p) \/ Abort(p) \/ Failure(p)
        PROVE  UNCHANGED rows
    BY <1>7 DEF Finish, Abort, Failure, FetchFails, KeywordsFail, Raise, Crash,
                LoseSession
  <1>8. CASE UNCHANGED vars
    BY <1>8 DEF vars, RowsDisjoint
  <1>9. QED
    BY <1>1, <1>2, <1>3, <1>4, <1>5, <1>6, <1>7, <1>8
    DEF Next, Step, DocumentPass, LatePass

\* The stages of the index pass hand their results on: no other process moves
\* between them.
LEMMA StoresStep ==
    ASSUME "session" \notin Faults, TypeOK, OwnsLock, StoresInStep, RowsDisjoint,
           [Next]_vars
    PROVE  StoresInStep'
  <1> USE ConstantsAssumption
      DEF database, stores, documentLocals, indexLocals, fetches
  <1> DEFINE Same == UNCHANGED <<rows, indexed, vectors, bm25>>
             Others(p) == \A q \in Proc \ {p} : pc'[q] = "idle"
             Silent == Embedded \union {"mark", "finish"}
  <1>a. ASSUME Same,
               \A q \in Proc : /\ pc'[q] \in Silent => UNCHANGED <<pc[q], run[q]>>
                               /\ pc'[q] = "mark" => UNCHANGED batch[q]
                               /\ pc'[q] = "delete" => UNCHANGED active[q]
                               /\ pc'[q] = "write" => UNCHANGED records[q]
        PROVE  StoresInStep'
    BY <1>a, SameRows
    DEF StoresInStep, StageReached, Embedded, Pruned, PublishedInFull
  <1>b. ASSUME NEW p \in Proc, Others(p), StageReached(p)',
               indexed' \subseteq AllRows', indexed' \subseteq vectors'
        PROVE  StoresInStep'
    BY <1>b DEF StoresInStep, StageReached, Embedded, Pruned
  <1>c. ASSUME NEW p \in Proc, pc[p] # "idle",
               \A q \in Proc \ {p} : pc'[q] = pc[q]
        PROVE  Others(p)
    BY <1>c, Alone
  <1>1. ASSUME NEW d \in Doc, EditPage(d) PROVE StoresInStep'
    BY <1>1, <1>a DEF EditPage
  <1>2. ASSUME NEW p \in Proc, Acquire(p) PROVE StoresInStep'
    <2>1. Same
      BY <1>2 DEF Acquire
    <2>2. Others(p)
      BY <1>2 DEF TypeOK, Acquire, MayStart, GoTo, OwnsLock
    <2>3. /\ pc'[p] \in {"load", "embed", "finish"}
          /\ pc'[p] = "finish" => ~ IndexRuns(run'[p])
      BY <1>2 DEF TypeOK, Acquire, GoTo, AfterDocuments
    <2>4. QED
      BY <2>1, <2>2, <2>3, <1>b, SameRows
      DEF StoresInStep, StageReached, Embedded, Pruned, IndexRuns
  <1>3. ASSUME NEW p \in Proc, LoadStates(p) PROVE StoresInStep'
    BY <1>3, <1>a DEF TypeOK, LoadStates, GoTo, Embedded
  <1>4. ASSUME NEW p \in Proc, NEW d \in Doc,
               \/ ReadCached(p, d)
               \/ Fetch(p, d)
               \/ StorePage(p, d)
               \/ FetchFails(p, d)
               \/ LateFetch(p, d)
               \/ LateStore(p, d)
        PROVE  StoresInStep'
    BY <1>4, <1>a
    DEF ReadCached, Fetch, StorePage, FetchFails, LateFetch, LateStore
  <1>5. ASSUME NEW p \in Proc, NEW d \in Doc, Persist(p, d) PROVE StoresInStep'
    <2>1. PICK new \in SUBSET (Chunk \ InUse) : rows' = [rows EXCEPT ![d] = new]
      BY <1>5 DEF Persist
    <2>2. AllRows' = (AllRows \ rows[d]) \union new
      BY <2>1, ReplacedRows
    <2>3. indexed' = indexed \ rows[d] /\ UNCHANGED <<vectors, pc>>
      BY <1>5 DEF Persist
    <2>4. pc[p] = "documents"
      BY <1>5 DEF Persist
    <2>5. Others(p)
      BY <2>3, <2>4, <1>c
    <2>6. QED
      BY <2>2, <2>3, <2>4, <2>5, <1>b
      DEF StoresInStep, StageReached, Embedded, Pruned
  <1>6. ASSUME NEW p \in Proc, DocumentsDone(p) PROVE StoresInStep'
    <2>1. Same /\ UNCHANGED run /\ pc[p] = "documents"
      BY <1>6 DEF DocumentsDone
    <2>2. Others(p)
      BY <1>6, <1>c DEF TypeOK, DocumentsDone, GoTo
    <2>3. /\ pc'[p] \in {"embed", "finish"}
          /\ pc'[p] = "finish" => ~ IndexRuns(run[p])
      BY <1>6 DEF TypeOK, DocumentsDone, GoTo, AfterDocuments
    <2>4. QED
      BY <2>1, <2>2, <2>3, <1>b, SameRows
      DEF StoresInStep, StageReached, Embedded, Pruned
  <1>7. ASSUME NEW p \in Proc, EmbedBatch(p) PROVE StoresInStep'
    BY <1>7, <1>a DEF TypeOK, EmbedBatch, GoTo, Embedded
  <1>8. ASSUME NEW p \in Proc, UpsertVectors(p) PROVE StoresInStep'
    <2>1. /\ vectors' = vectors \union batch[p]
          /\ UNCHANGED <<rows, indexed, batch>>
          /\ pc[p] # "idle" /\ pc'[p] = "mark"
      BY <1>8 DEF TypeOK, UpsertVectors, GoTo
    <2>2. Others(p)
      BY <1>8, <1>c DEF TypeOK, UpsertVectors, GoTo
    <2>3. QED
      BY <2>1, <2>2, <1>b, SameRows
      DEF StoresInStep, StageReached, Embedded, Pruned
  <1>9. ASSUME NEW p \in Proc, NEW c \in Chunk, MarkIndexed(p, c)
        PROVE  StoresInStep'
    <2>1. /\ indexed' = indexed \union ({c} \intersect AllRows)
          /\ UNCHANGED <<rows, vectors>>
          /\ batch'[p] = batch[p] \ {c} /\ c \in batch[p]
          /\ pc[p] = "mark" /\ pc'[p] \in {"mark", "embed"}
      BY <1>9 DEF TypeOK, MarkIndexed, MayMark, GoTo
    <2>2. Others(p)
      BY <1>9, <1>c DEF TypeOK, MarkIndexed, MayMark, GoTo
    <2>3. QED
      BY <2>1, <2>2, <1>b, SameRows
      DEF StoresInStep, StageReached, Embedded, Pruned
  <1>10. ASSUME NEW p \in Proc, EmbedDone(p) PROVE StoresInStep'
    <2>1. Same /\ AllRows \subseteq indexed
      BY <1>10 DEF EmbedDone, LoopEnds, Pending
    <2>2. pc'[p] = "prune" /\ pc[p] = "embed" /\ Others(p)
      BY <1>10, <1>c DEF TypeOK, EmbedDone, GoTo
    <2>3. QED
      BY <2>1, <2>2, <1>b, SameRows
      DEF StoresInStep, StageReached, Embedded, Pruned
  <1>11. ASSUME NEW p \in Proc, ReadActive(p) PROVE StoresInStep'
    <2>1. Same /\ active'[p] = indexed
      BY <1>11 DEF TypeOK, ReadActive
    <2>2. pc'[p] = "delete" /\ pc[p] = "prune" /\ Others(p)
      BY <1>11, <1>c DEF TypeOK, ReadActive, GoTo
    <2>3. QED
      BY <2>1, <2>2, <1>b, SameRows
      DEF StoresInStep, StageReached, Embedded, Pruned
  <1>12. ASSUME NEW p \in Proc, DeleteOrphans(p) PROVE StoresInStep'
    <2>1. vectors' = vectors \intersect active[p] /\ UNCHANGED <<rows, indexed>>
      BY <1>12 DEF DeleteOrphans, Kept
    <2>2. pc'[p] = "keywords" /\ pc[p] = "delete" /\ Others(p)
      BY <1>12, <1>c DEF TypeOK, DeleteOrphans, GoTo
    <2>3. QED
      BY <2>1, <2>2, <1>b, SameRows
      DEF StoresInStep, StageReached, Embedded, Pruned
  <1>13. ASSUME NEW p \in Proc, SelectKeywordTargets(p) \/ KeywordsDone(p)
         PROVE  StoresInStep'
    <2>1. Same
      BY <1>13 DEF SelectKeywordTargets, KeywordsDone
    <2>2. /\ pc[p] \in Pruned \ {"write"} /\ pc'[p] \in Pruned \ {"write"}
          /\ Others(p)
      BY <1>13, <1>c DEF TypeOK, SelectKeywordTargets, KeywordsDone, GoTo, Pruned
    <2>3. QED
      BY <2>1, <2>2, <1>b, SameRows
      DEF StoresInStep, StageReached, Embedded, Pruned
  <1>14. ASSUME NEW p \in Proc, NEW d \in Doc,
                StoreKeywords(p, d) \/ KeywordsFail(p, d)
         PROVE  StoresInStep'
    BY <1>14, <1>a DEF StoreKeywords, KeywordsFail
  <1>15. ASSUME NEW p \in Proc, ReadRecords(p) PROVE StoresInStep'
    <2>1. Same /\ records'[p] = AllRows
      BY <1>15 DEF TypeOK, ReadRecords
    <2>2. pc'[p] = "write" /\ pc[p] = "bm25" /\ Others(p)
      BY <1>15, <1>c DEF TypeOK, ReadRecords, GoTo
    <2>3. QED
      BY <2>1, <2>2, <1>b, SameRows
      DEF StoresInStep, StageReached, Embedded, Pruned
  <1>16. ASSUME NEW p \in Proc, WriteBm25(p) PROVE StoresInStep'
    <2>1. bm25' = records[p] /\ UNCHANGED <<rows, indexed, vectors>>
      BY <1>16 DEF WriteBm25, NewRecords
    <2>2. pc'[p] = "finish" /\ pc[p] = "write" /\ Others(p)
      BY <1>16, <1>c DEF TypeOK, WriteBm25, GoTo
    <2>3. indexed = AllRows /\ vectors = AllRows /\ records[p] = AllRows
      BY <2>2 DEF StoresInStep, StageReached, Embedded, Pruned
    <2>4. QED
      BY <2>1, <2>2, <2>3, <1>b, SameRows
      DEF StoresInStep, StageReached, Embedded, Pruned, PublishedInFull
  <1>17. ASSUME NEW p \in Proc, Finish(p) \/ Crash(p) \/ Abort(p) \/ Raise(p)
         PROVE  StoresInStep'
    <2>1. Same
      BY <1>17 DEF Finish, Crash, Abort, Raise
    <2>2. pc'[p] \in {"idle", "fail"} /\ pc[p] # "idle" /\ Others(p)
      BY <1>17, <1>c DEF TypeOK, Finish, Crash, Abort, Raise, GoTo
    <2>3. QED
      BY <2>1, <2>2, <1>b, SameRows
      DEF StoresInStep, StageReached, Embedded, Pruned
  <1>18. ASSUME NEW p \in Proc, LoseSession(p) PROVE FALSE
    BY <1>18 DEF LoseSession, Fault
  <1>19. CASE UNCHANGED vars
    BY <1>19, <1>a DEF vars
  <1>20. QED
    BY <1>1, <1>2, <1>3, <1>4, <1>5, <1>6, <1>7, <1>8, <1>9, <1>10, <1>11,
       <1>12, <1>13, <1>14, <1>15, <1>16, <1>17, <1>18, <1>19
    DEF Next, Step, LatePass, Failure, DocumentPass, IndexPass

\* The three stores are in step with the stage the round has reached: this is
\* the inductive invariant behind the theorems on the index pass.
THEOREM StoresInvariant ==
    ASSUME "session" \notin Faults
    PROVE  Spec => [](TypeOK /\ OwnsLock /\ StoresInStep /\ RowsDisjoint)
  <1>1. Init => StoresInStep /\ RowsDisjoint
    BY DEF Init, StoresInStep, StageReached, Embedded, Pruned, RowsDisjoint
  <1>2. TypeOK /\ OwnsLock /\ StoresInStep /\ RowsDisjoint /\ [Next]_vars
        => (StoresInStep /\ RowsDisjoint)'
    BY StoresStep, DisjointStep
  <1>3. Spec => [](OwnsLock /\ OneRound)
    BY OneRoundCorrect
  <1>4. QED
    BY <1>1, <1>2, <1>3, TypeCorrect, PTL DEF Spec

\* A row is marked only once its vector is in Chroma, and prune deletes no
\* marked row's vector, because the rows it read as marked are still all of
\* them when it deletes.
THEOREM IndexedCorrect ==
    ASSUME "session" \notin Faults
    PROVE  Spec => []IndexedHasVector
  <1>1. StoresInStep => IndexedHasVector
    BY DEF StoresInStep, IndexedHasVector
  <1>2. QED
    BY <1>1, StoresInvariant, PTL

\* Only the last step of a round that never failed closes its job as completed.
LEMMA CompletedStep ==
    ASSUME TypeOK, StoresInStep, [Next]_vars,
           NEW p \in Proc, job[p] = "running", job'[p] = "completed",
           IndexRuns(run[p])
    PROVE  PublishedInFull
  <1> USE DEF database, stores, documentLocals, indexLocals, fetches
  <1>1. ASSUME NEW q \in Proc, Finish(q) PROVE PublishedInFull
    <2>1. q = p /\ pc[p] = "finish"
      BY <1>1 DEF TypeOK, Finish, FinalStatus
    <2>2. QED
      BY <2>1 DEF StoresInStep, StageReached
  <1>2. ASSUME NEW q \in Proc, Acquire(q) PROVE job'[p] # "completed"
    BY <1>2 DEF TypeOK, Acquire
  <1>3. ASSUME NEW q \in Proc, DocumentPass(q) PROVE UNCHANGED job
    BY <1>3 DEF DocumentPass, LoadStates, DocumentsDone, ReadCached, Fetch,
                StorePage, Persist
  <1>4. ASSUME NEW q \in Proc, IndexPass(q) PROVE UNCHANGED job
    BY <1>4 DEF IndexPass, EmbedBatch, UpsertVectors, MarkIndexed, EmbedDone,
                ReadActive, DeleteOrphans, SelectKeywordTargets, StoreKeywords,
                KeywordsDone, ReadRecords, WriteBm25
  <1>5. ASSUME NEW q \in Proc, Abort(q) \/ Failure(q) \/ LatePass(q)
        PROVE  UNCHANGED job
    BY <1>5 DEF Abort, Failure, FetchFails, KeywordsFail, Raise, Crash,
                LoseSession, LatePass, LateFetch, LateStore
  <1>6. ASSUME NEW d \in Doc, EditPage(d) PROVE UNCHANGED job
    BY <1>6 DEF EditPage
  <1>7. CASE UNCHANGED vars
    BY <1>7 DEF vars
  <1>8. QED
    BY <1>1, <1>2, <1>3, <1>4, <1>5, <1>6, <1>7 DEF Next, Step

\* A job with an index phase says completed only if, at that moment, nothing is
\* pending, Chroma holds exactly the stored chunks and so does the BM25 file.
THEOREM CompletedCorrect ==
    ASSUME "session" \notin Faults
    PROVE  Spec => CompletedMeansPublished
  <1> DEFINE Promise == \A p \in Proc :
               /\ job[p] = "running" /\ job'[p] = "completed"
               /\ IndexRuns(run[p])
               => PublishedInFull
  <1>1. TypeOK /\ StoresInStep /\ [Next]_vars => [Promise]_vars
    BY CompletedStep
  <1>2. [][Promise]_vars => CompletedMeansPublished
    BY PTL DEF CompletedMeansPublished
  <1> HIDE DEF Promise
  <1>3. QED
    BY <1>1, <1>2, StoresInvariant, PTL DEF Spec

-----------------------------------------------------------------------------
\* The empty stores are the empty corpus.
LEMMA CorpusInit == Init => Corpus!Init
  BY DEF Init, Corpus!Init, AllRows

\* Persist is Replace, UpsertVectors is Publish, WriteBm25 is Rebuild, and
\* prune deletes no vector whose row is stored; every other step stutters.
LEMMA CorpusStep ==
    ASSUME TypeOK, StoresInStep, RowsDisjoint, "session" \notin Faults, OwnsLock,
           [Next]_vars
    PROVE  [Corpus!Next]_(Corpus!vars)
  <1> USE DEF database, stores, documentLocals, indexLocals, fetches
  <1>s. AllRows = Corpus!Corpus
    BY DEF AllRows, Corpus!Corpus
  <1>k. UNCHANGED <<rows, vectors, bm25>> => UNCHANGED Corpus!vars
    BY SameRows DEF Corpus!vars
  <1>1. ASSUME NEW p \in Proc, NEW d \in Doc, Persist(p, d)
        PROVE  Corpus!Replace(d)
    <2>1. PICK new \in SUBSET (Chunk \ InUse) : rows' = [rows EXCEPT ![d] = new]
      BY <1>1 DEF Persist
    <2>2. AllRows' = (AllRows \ rows[d]) \union new
      BY <2>1, ReplacedRows
    <2>3. \A c \in new : c \notin AllRows /\ c \notin vectors /\ c \notin bm25
      BY <2>1, FreshIds
    <2>4. vectors' \intersect AllRows' = (vectors \intersect AllRows) \ rows[d]
      BY <1>1, <2>2, <2>3 DEF Persist
    <2>5. new \in SUBSET Chunk /\ new \intersect (Corpus!Corpus \union bm25) = {}
      BY <1>s, <2>1, <2>3
    <2>6. bm25' = bm25
      BY <1>1 DEF Persist
    <2>7. QED
      BY <2>1, <2>4, <2>5, <2>6 DEF Corpus!Replace
  <1>2. ASSUME NEW p \in Proc, UpsertVectors(p) PROVE Corpus!Publish
    <2>1. vectors' = vectors \union batch[p] /\ UNCHANGED <<rows, bm25>>
      BY <1>2 DEF UpsertVectors
    <2>2. AllRows' = AllRows
      BY <2>1, SameRows
    <2>3. vectors' \intersect AllRows'
            = (vectors \intersect AllRows) \union (batch[p] \intersect AllRows)
      BY <2>1, <2>2
    <2>4. batch[p] \intersect AllRows \in SUBSET Corpus!Corpus
      BY <1>s
    <2>5. QED
      BY <2>1, <2>3, <2>4 DEF Corpus!Publish
  <1>3. ASSUME NEW p \in Proc, DeleteOrphans(p) PROVE UNCHANGED Corpus!vars
    <2>1. vectors' = vectors \intersect active[p] /\ UNCHANGED <<rows, bm25>>
      BY <1>3 DEF DeleteOrphans, Kept
    <2>2. AllRows \subseteq active[p]
      BY <1>3 DEF DeleteOrphans, StoresInStep, StageReached, Embedded
    <2>3. vectors' \intersect AllRows' = vectors \intersect AllRows
      BY <2>1, <2>2, SameRows
    <2>4. QED
      BY <2>1, <2>3 DEF Corpus!vars
  <1>4. ASSUME NEW p \in Proc, WriteBm25(p) PROVE Corpus!Rebuild
    <2>1. bm25' = records[p] /\ UNCHANGED <<rows, vectors>>
      BY <1>4 DEF WriteBm25, NewRecords
    <2>2. records[p] = AllRows
      BY <1>4 DEF WriteBm25, StoresInStep, StageReached
    <2>3. QED
      BY <1>s, <2>1, <2>2, SameRows DEF Corpus!Rebuild
  <1>5. ASSUME NEW p \in Proc,
               \/ Acquire(p)
               \/ LoadStates(p)
               \/ DocumentsDone(p)
               \/ \E d \in Doc : ReadCached(p, d) \/ Fetch(p, d) \/ StorePage(p, d)
               \/ LatePass(p)
        PROVE  UNCHANGED <<rows, vectors, bm25>>
    BY <1>5 DEF Acquire, LoadStates, DocumentsDone, ReadCached, Fetch, StorePage,
                LatePass, LateFetch, LateStore
  <1>6. ASSUME NEW p \in Proc,
               \/ EmbedBatch(p)
               \/ \E c \in Chunk : MarkIndexed(p, c)
               \/ EmbedDone(p)
               \/ ReadActive(p)
               \/ SelectKeywordTargets(p)
               \/ \E d \in Doc : StoreKeywords(p, d)
               \/ KeywordsDone(p)
               \/ ReadRecords(p)
        PROVE  UNCHANGED <<rows, vectors, bm25>>
    BY <1>6 DEF EmbedBatch, MarkIndexed, EmbedDone, ReadActive,
                SelectKeywordTargets, StoreKeywords, KeywordsDone, ReadRecords
  <1>7. ASSUME NEW p \in Proc, Finish(p) \/ Abort(p) \/ Failure(p)
        PROVE  UNCHANGED <<rows, vectors, bm25>>
    BY <1>7 DEF Finish, Abort, Failure, FetchFails, KeywordsFail, Raise, Crash,
                LoseSession
  <1>8. ASSUME NEW d \in Doc, EditPage(d)
        PROVE  UNCHANGED <<rows, vectors, bm25>>
    BY <1>8 DEF EditPage
  <1>9. UNCHANGED vars => UNCHANGED <<rows, vectors, bm25>>
    BY DEF vars
  <1>10. QED
    BY <1>k, <1>1, <1>2, <1>3, <1>4, <1>5, <1>6, <1>7, <1>8, <1>9
    DEF Next, Step, DocumentPass, IndexPass, Corpus!Next

\* A round implements the abstract corpus: a search loses a chunk only when its
\* document is replaced, and the BM25 file is only ever the complete corpus.
THEOREM CorpusCorrect ==
    ASSUME "session" \notin Faults
    PROVE  Spec => CorpusSpec
  <1>1. TypeOK /\ OwnsLock /\ StoresInStep /\ RowsDisjoint /\ [Next]_vars
        => [Corpus!Next]_(Corpus!vars)
    BY CorpusStep
  <1>2. QED
    BY <1>1, CorpusInit, StoresInvariant, PTL DEF Spec, CorpusSpec, Corpus!Spec
=============================================================================
