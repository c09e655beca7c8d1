-------------------------- MODULE CatalogueProofs --------------------------
(***************************************************************************)
(* The labels of a document in the database, in Chroma and in the BM25     *)
(* file agree between rounds and refreshes, and discovery hands a round    *)
(* sound targets and loses nothing that was listed: for all pages, menus,  *)
(* lists of posts, rounds, refreshes and things that go wrong.             *)
(***************************************************************************)
EXTENDS Catalogue, ListProofs, FiniteSetTheorems, SequenceTheorems, WellFoundedInduction, TLAPS

\* Stages of a round before it writes to a store, and after its last target.
Before == {"idle", "sites", "retry", "validate", "pdf", "found"}
Writing == {"upsert", "mark", "prune", "read", "write"}

\* r is the state of a refresh.
IsRefresh(r) ==
    /\ r = [step |-> r.step, options |-> r.options, plan |-> r.plan, rows |-> r.rows,
            failed |-> r.failed]
    /\ r.step \in {"idle", "update", "chunks", "vectors", "clear", "read", "write"}

\* What the records are made of: the rows of the database, the refresh.
Typed ==
    /\ stage \in Before \cup {"handle"} \cup Writing
    /\ documents = [u \in Page |-> documents[u]]
    /\ \A u \in Page :
           /\ documents[u].version \in Nat
           /\ documents[u] = [version |-> documents[u].version, site |-> documents[u].site,
                              menu |-> documents[u].menu, labels |-> documents[u].labels]
    /\ IsRefresh(refresh)

\* Only chunks that are stored now are marked, or about to be.
MarkedAreStored ==
    /\ indexed \subseteq Chunks
    /\ stage \in {"upsert", "mark"} => \A r \in rows : r.chunk \in Chunks

VectorsAgree == Labelled(indexed) \subseteq vectors
FileAgrees == bm25 = Labelled(Chunks)

\* What a round that nothing disturbs has made of the stores by its stage.
RoundKeeps ==
    (trusted /\ refresh.step = "idle") =>
        /\ VectorsAgree
        /\ stage \in Before => FileAgrees
        /\ stage \in {"upsert", "mark"} => rows = Labelled(Chunks \ indexed)
        /\ stage = "mark" => rows \subseteq vectors
        /\ stage = "write" => rows = Labelled(Chunks)

\* What a refresh that no round disturbs has made of them by its step; with
\* an empty plan it never leaves them worse.
RefreshKeeps ==
    refresh.step # "idle" =>
        /\ trusted => ~overlap
        /\ refresh.options.skipChroma => refresh.step \notin {"chunks", "vectors"}
        /\ refresh.options.skipBm25 => refresh.step \notin {"read", "write"}
        /\ ~overlap =>
               /\ stage \notin Writing
               /\ refresh.step = "vectors" => refresh.rows = Labelled(indexed)
               /\ refresh.step = "write" => refresh.rows = Labelled(Chunks)
               /\ (/\ refresh.step \in {"clear", "read", "write"}
                   /\ ~refresh.failed /\ ~refresh.options.skipChroma) => VectorsAgree
               /\ trusted /\ refresh.plan = {} =>
                      /\ VectorsAgree
                      /\ refresh.step \notin {"read", "write"} => FileAgrees

Agreed == Typed /\ MarkedAreStored /\ RoundKeeps /\ RefreshKeeps
-----------------------------------------------------------------------------
(* What the actions do to the stores and to each other.                    *)

LEMMA LabelledFields ==
    ASSUME NEW S, NEW v \in Labelled(S)
    PROVE  v.chunk \in S /\ v = [chunk |-> v.chunk, labels |-> documents[v.chunk.page].labels]
  BY DEF Labelled

LEMMA SameRows ==
    ASSUME UNCHANGED <<documents, indexed>>
    PROVE  /\ Chunks' = Chunks
           /\ Labelled(indexed)' = Labelled(indexed)
           /\ Labelled(Chunks)' = Labelled(Chunks)
           /\ Labelled(Chunks \ indexed)' = Labelled(Chunks \ indexed)
  BY DEF Chunks, ChunkOf, Stored, Labelled

LEMMA SameStores ==
    ASSUME UNCHANGED stores
    PROVE  /\ UNCHANGED <<documents, indexed, vectors, bm25>>
           /\ Chunks' = Chunks
           /\ Labelled(indexed)' = Labelled(indexed)
           /\ Labelled(Chunks)' = Labelled(Chunks)
           /\ Labelled(Chunks \ indexed)' = Labelled(Chunks \ indexed)
           /\ VectorsAgree' <=> VectorsAgree
           /\ FileAgrees' <=> FileAgrees
  BY SameRows DEF stores, VectorsAgree, FileAgrees

\* Discovery and the start of the handling write nothing.
Quiet == Discover \/ BeginHandling

LEMMA QuietEffect ==
    ASSUME Quiet
    PROVE  /\ UNCHANGED stores /\ UNCHANGED <<rows, refresh, overlap, trusted>>
           /\ stage \in Before /\ stage' \in Before \cup {"handle"}
  <1>1. CASE BeginHandling
    BY <1>1 DEF BeginHandling, Before
  <1>2. CASE Discover
    <2>1. UNCHANGED stores /\ UNCHANGED <<rows, refresh, overlap, trusted>>
      BY <1>2 DEF Discover
    <2>2. DiscoveryNext
      BY <1>2 DEF Discover
    <2>3. stage \in Before /\ stage' \in Before
      <3>1. CASE StartDiscovery
        BY <3>1 DEF StartDiscovery, Before
      <3>2. CASE FetchSite
        BY <3>2 DEF FetchSite, Before
      <3>3. CASE SkipDepartments
        BY <3>3 DEF SkipDepartments, Before
      <3>4. CASE ExpandParents
        BY <3>4 DEF ExpandParents, Before
      <3>5. CASE RetryParents
        BY <3>5 DEF RetryParents, Before
      <3>6. CASE ValidateTargets
        BY <3>6 DEF ValidateTargets, Before
      <3>7. CASE FetchPdfs
        BY <3>7 DEF FetchPdfs, Before
      <3> QED
        BY <2>2, <3>1, <3>2, <3>3, <3>4, <3>5, <3>6, <3>7 DEF DiscoveryNext
    <2> QED
      BY <2>1, <2>3
  <1> QED
    BY <1>1, <1>2 DEF Quiet

\* A target that is stored takes the mark off its chunk.
LEMMA HandleEffect ==
    ASSUME Typed, MarkedAreStored, NEW outcome, Handle(outcome)
    PROVE  /\ Typed' /\ indexed' \subseteq Chunks'
           /\ stage = "handle" /\ stage' = "handle"
           /\ RoundWrites /\ UNCHANGED refresh
           /\ VectorsAgree => VectorsAgree'
  <1> DEFINE u == Head(todo).url
  <1>0. /\ stage = "handle" /\ stage' = "handle" /\ RoundWrites
        /\ UNCHANGED <<refresh, vectors>>
    BY DEF Handle
  <1>1. CASE UNCHANGED <<documents, indexed>>
    BY <1>0, <1>1, SameRows DEF Typed, MarkedAreStored, VectorsAgree
  <1>2. CASE ~UNCHANGED <<documents, indexed>>
    <2>1. PICK site, menu, labels :
            /\ documents' = [documents EXCEPT ![u] =
                   [version |-> documents[u].version + 1, site |-> site, menu |-> menu,
                    labels |-> labels]]
            /\ indexed' = indexed \ {ChunkOf(u)}
      BY <1>2 DEF Handle
    <2> HIDE DEF u
    <2>2. /\ documents = [p \in Page |-> documents[p]]
          /\ \A p \in Page : documents[p].version \in Nat
      BY DEF Typed
    <2>3. \A p \in Page \ {u} : documents'[p] = documents[p]
      BY <2>1, <2>2
    <2>4. u \in Page => documents'[u] = [version |-> documents[u].version + 1, site |-> site,
                                         menu |-> menu, labels |-> labels]
      BY <2>1, <2>2
    <2>5. documents' = [p \in Page |-> documents'[p]]
      BY <2>1, <2>2
    <2>6. Typed'
      <3>1. ASSUME NEW p \in Page
            PROVE  /\ documents'[p].version \in Nat
                   /\ documents'[p] = [version |-> documents'[p].version, site |-> documents'[p].site,
                                       menu |-> documents'[p].menu, labels |-> documents'[p].labels]
        <4>1. CASE p = u
          BY <2>2, <2>4, <4>1
        <4>2. CASE p # u
          BY <2>3, <4>2 DEF Typed
        <4> QED
          BY <4>1, <4>2
      <3> QED
        BY <1>0, <2>5, <3>1 DEF Typed
    <2>7. ASSUME NEW c \in indexed'
          PROVE  c \in Chunks' /\ c \in indexed /\ documents'[c.page] = documents[c.page]
      <3>1. c \in indexed /\ c # ChunkOf(u) /\ c \in Chunks
        BY <2>1 DEF MarkedAreStored
      <3>2. PICK p \in Page : documents[p].version > 0 /\ c = ChunkOf(p)
        BY <3>1 DEF Chunks, Stored
      <3>3. p # u /\ c.page = p
        BY <3>1, <3>2 DEF ChunkOf
      <3>4. documents'[p] = documents[p]
        BY <2>3, <3>3
      <3>5. c = ChunkOf(p)' /\ p \in Stored'
        BY <3>2, <3>4 DEF ChunkOf, Stored
      <3> QED
        BY <3>1, <3>3, <3>4, <3>5 DEF Chunks
    <2>8. VectorsAgree => VectorsAgree'
      BY <1>0, <2>7 DEF VectorsAgree, Labelled
    <2> QED
      BY <1>0, <2>6, <2>7, <2>8
  <1> QED
    BY <1>1, <1>2
-----------------------------------------------------------------------------
(* What every step keeps of types and of marks.                            *)

LEMMA SameTyped ==
    ASSUME Typed, UNCHANGED <<documents, refresh>>,
           stage' \in Before \cup {"handle"} \cup Writing
    PROVE  Typed'
  BY DEF Typed

\* How a refresh goes from one step to the next.
LEMMA NextRows ==
    ASSUME NEW r, IsRefresh(r), NEW step, NEW now
    PROVE  [r EXCEPT !.step = step, !.rows = now] =
             [step |-> step, options |-> r.options, plan |-> r.plan, rows |-> now,
              failed |-> r.failed]
  <1>1. [r EXCEPT !.step = step] =
          [step |-> step, options |-> r.options, plan |-> r.plan, rows |-> r.rows,
           failed |-> r.failed]
    BY DEF IsRefresh
  <1>2. [r EXCEPT !.step = step, !.rows = now] = [[r EXCEPT !.step = step] EXCEPT !.rows = now]
    OBVIOUS
  <1>3. [[step |-> step, options |-> r.options, plan |-> r.plan, rows |-> r.rows,
          failed |-> r.failed] EXCEPT !.rows = now] =
          [step |-> step, options |-> r.options, plan |-> r.plan, rows |-> now,
           failed |-> r.failed]
    OBVIOUS
  <1> QED
    BY <1>1, <1>2, <1>3, Zenon

LEMMA NextFailed ==
    ASSUME NEW r, IsRefresh(r), NEW step, NEW now, NEW failed
    PROVE  [r EXCEPT !.step = step, !.rows = now, !.failed = failed] =
             [step |-> step, options |-> r.options, plan |-> r.plan, rows |-> now,
              failed |-> failed]
  <1>1. [r EXCEPT !.step = step, !.rows = now] =
          [step |-> step, options |-> r.options, plan |-> r.plan, rows |-> now,
           failed |-> r.failed]
    BY NextRows
  <1>2. [r EXCEPT !.step = step, !.rows = now, !.failed = failed] =
          [[r EXCEPT !.step = step, !.rows = now] EXCEPT !.failed = failed]
    OBVIOUS
  <1>3. [[step |-> step, options |-> r.options, plan |-> r.plan, rows |-> now,
          failed |-> r.failed] EXCEPT !.failed = failed] =
          [step |-> step, options |-> r.options, plan |-> r.plan, rows |-> now,
           failed |-> failed]
    OBVIOUS
  <1> QED
    BY <1>1, <1>2, <1>3, Zenon

LEMMA RefreshTyped ==
    ASSUME Typed, UNCHANGED <<documents, stage>>, IsRefresh(refresh')
    PROVE  Typed'
  BY DEF Typed

LEMMA SameMarks ==
    ASSUME MarkedAreStored, UNCHANGED <<documents, indexed>>,
           stage' \in {"upsert", "mark"} => /\ stage \in {"upsert", "mark"} /\ UNCHANGED rows
    PROVE  MarkedAreStored'
  BY SameRows DEF MarkedAreStored

\* A round that takes a step beside a refresh leaves nothing to be trusted.
LEMMA BesideARefresh ==
    ASSUME RefreshKeeps, RoundWrites, UNCHANGED refresh, refresh.step # "idle"
    PROVE  RoundKeeps' /\ RefreshKeeps'
  BY DEF RefreshKeeps, RoundKeeps, RoundWrites

LEMMA WithoutARefresh ==
    ASSUME UNCHANGED refresh, refresh.step = "idle"
    PROVE  RefreshKeeps'
  BY DEF RefreshKeeps

LEMMA QuietStep ==
    ASSUME Agreed, Quiet
    PROVE  Agreed'
  <1>1. /\ UNCHANGED stores /\ UNCHANGED <<rows, refresh, overlap, trusted>>
        /\ stage \in Before /\ stage' \in Before \cup {"handle"}
    BY QuietEffect
  <1>2. /\ UNCHANGED <<documents, indexed>>
        /\ Labelled(indexed)' = Labelled(indexed) /\ Labelled(Chunks)' = Labelled(Chunks)
        /\ VectorsAgree' <=> VectorsAgree
        /\ FileAgrees' <=> FileAgrees
    BY <1>1, SameStores
  <1>3. stage' \notin Writing
    BY <1>1 DEF Before, Writing
  <1>4. Typed'
    BY <1>1, <1>2, SameTyped DEF Agreed
  <1>5. MarkedAreStored'
    BY <1>2, <1>3, SameMarks DEF Agreed, Writing
  <1>6. RoundKeeps'
    <2>1. CASE trusted /\ refresh.step = "idle"
      <3>1. VectorsAgree /\ FileAgrees
        BY <1>1, <2>1 DEF Agreed, RoundKeeps
      <3> QED
        BY <1>2, <1>3, <3>1 DEF RoundKeeps, Writing
    <2>2. CASE ~(trusted /\ refresh.step = "idle")
      BY <1>1, <2>2 DEF RoundKeeps
    <2> QED
      BY <2>1, <2>2
  <1>7. RefreshKeeps'
    BY <1>1, <1>2, <1>3 DEF Agreed, RefreshKeeps
  <1> QED
    BY <1>4, <1>5, <1>6, <1>7 DEF Agreed
-----------------------------------------------------------------------------
(* The steps of a round.                                                   *)

\* A step of a round beside a refresh costs the trust; alone, it has to keep
\* RoundKeeps.
LEMMA RoundStepKeeps ==
    ASSUME Agreed, RoundWrites, UNCHANGED refresh, Typed', MarkedAreStored',
           (refresh.step = "idle" /\ trusted) => RoundKeeps'
    PROVE  Agreed'
  <1>1. CASE refresh.step # "idle"
    BY <1>1, BesideARefresh DEF Agreed
  <1>2. CASE refresh.step = "idle"
    <2>1. RefreshKeeps'
      BY <1>2, WithoutARefresh
    <2>2. RoundKeeps'
      <3>1. trusted' <=> trusted
        BY <1>2 DEF RoundWrites
      <3>2. CASE trusted
        BY <1>2, <3>2
      <3>3. CASE ~trusted
        BY <3>1, <3>3 DEF RoundKeeps
      <3> QED
        BY <3>2, <3>3
    <2> QED
      BY <2>1, <2>2 DEF Agreed
  <1> QED
    BY <1>1, <1>2

LEMMA HandleStep ==
    ASSUME Agreed, NEW outcome, Handle(outcome)
    PROVE  Agreed'
  <1>1. /\ Typed' /\ indexed' \subseteq Chunks'
        /\ stage = "handle" /\ stage' = "handle"
        /\ RoundWrites /\ UNCHANGED refresh
        /\ VectorsAgree => VectorsAgree'
    BY HandleEffect DEF Agreed
  <1>2. MarkedAreStored'
    BY <1>1 DEF MarkedAreStored
  <1>3. (refresh.step = "idle" /\ trusted) => RoundKeeps'
    BY <1>1 DEF Agreed, RoundKeeps, Before
  <1> QED
    BY <1>1, <1>2, <1>3, RoundStepKeeps

LEMMA SelectPendingStep ==
    ASSUME Agreed, SelectPending
    PROVE  Agreed'
  <1>1. /\ stage' = "upsert" /\ RoundWrites /\ UNCHANGED refresh /\ UNCHANGED stores
        /\ rows' = Labelled(Chunks \ indexed)
    BY DEF SelectPending, RoundStep
  <1>2. /\ UNCHANGED <<documents, indexed>> /\ Chunks' = Chunks
        /\ Labelled(Chunks \ indexed)' = Labelled(Chunks \ indexed)
        /\ VectorsAgree' <=> VectorsAgree
    BY <1>1, SameStores
  <1>3. Typed'
    BY <1>1, <1>2, SameTyped DEF Agreed, Writing
  <1>4. MarkedAreStored'
    <2>1. ASSUME NEW r \in rows'
          PROVE  r.chunk \in Chunks'
      BY <1>1, <1>2, <2>1, LabelledFields
    <2> QED
      BY <1>2, <2>1 DEF Agreed, MarkedAreStored
  <1>5. (refresh.step = "idle" /\ trusted) => RoundKeeps'
    BY <1>1, <1>2 DEF Agreed, RoundKeeps, Before
  <1> QED
    BY <1>1, <1>3, <1>4, <1>5, RoundStepKeeps

LEMMA UpsertVectorsStep ==
    ASSUME Agreed, UpsertVectors
    PROVE  Agreed'
  <1>1. /\ stage = "upsert" /\ stage' = "mark" /\ RoundWrites /\ UNCHANGED refresh
        /\ vectors' = {v \in vectors : v.chunk \notin {r.chunk : r \in rows}} \cup rows
        /\ UNCHANGED <<documents, indexed, bm25, rows>>
    BY DEF UpsertVectors, RoundStep
  <1>2. /\ Labelled(indexed)' = Labelled(indexed)
        /\ Labelled(Chunks \ indexed)' = Labelled(Chunks \ indexed)
    BY <1>1, SameRows
  <1>3. Typed'
    BY <1>1, SameTyped DEF Agreed, Writing
  <1>4. MarkedAreStored'
    BY <1>1, SameMarks DEF Agreed
  <1>5. ASSUME refresh.step = "idle", trusted
        PROVE  RoundKeeps'
    <2>1. VectorsAgree /\ rows = Labelled(Chunks \ indexed)
      BY <1>1, <1>5 DEF Agreed, RoundKeeps
    <2>2. rows' \subseteq vectors'
      BY <1>1
    <2>3. ASSUME NEW v \in Labelled(indexed)
          PROVE  v \in vectors'
      <3>1. v \in vectors /\ v.chunk \in indexed
        BY <2>1, LabelledFields DEF VectorsAgree
      <3>2. ASSUME NEW r \in rows
            PROVE  r.chunk # v.chunk
        BY <2>1, <3>1, LabelledFields
      <3> QED
        BY <1>1, <3>1, <3>2
    <2>4. VectorsAgree'
      BY <1>2, <2>3 DEF VectorsAgree
    <2> QED
      BY <1>1, <1>2, <2>1, <2>2, <2>4 DEF RoundKeeps, Before
  <1> QED
    BY <1>1, <1>3, <1>4, <1>5, RoundStepKeeps

LEMMA MarkIndexedStep ==
    ASSUME Agreed, MarkIndexed
    PROVE  Agreed'
  <1>1. /\ stage = "mark" /\ stage' = "prune" /\ RoundWrites /\ UNCHANGED refresh
        /\ indexed' = indexed \cup {r.chunk : r \in rows}
        /\ UNCHANGED <<documents, vectors, bm25>>
    BY DEF MarkIndexed, RoundStep
  <1>2. Chunks' = Chunks
    BY <1>1 DEF Chunks, ChunkOf, Stored
  <1>3. Typed'
    BY <1>1, SameTyped DEF Agreed, Writing
  <1>4. MarkedAreStored'
    BY <1>1, <1>2 DEF Agreed, MarkedAreStored
  <1>5. ASSUME refresh.step = "idle", trusted
        PROVE  RoundKeeps'
    <2>1. VectorsAgree /\ rows = Labelled(Chunks \ indexed) /\ rows \subseteq vectors
      BY <1>1, <1>5 DEF Agreed, RoundKeeps
    <2>2. ASSUME NEW c \in indexed'
          PROVE  [chunk |-> c, labels |-> documents'[c.page].labels] \in vectors'
      <3>1. CASE c \in indexed
        BY <1>1, <2>1, <3>1 DEF VectorsAgree, Labelled
      <3>2. CASE c \notin indexed
        <4>1. PICK r \in rows : c = r.chunk
          BY <1>1, <3>2
        <4>2. r = [chunk |-> c, labels |-> documents[c.page].labels]
          BY <2>1, <4>1, LabelledFields
        <4> QED
          BY <1>1, <2>1, <4>2
      <3> QED
        BY <3>1, <3>2
    <2>3. VectorsAgree'
      BY <2>2 DEF VectorsAgree, Labelled
    <2> QED
      BY <1>1, <2>3 DEF RoundKeeps, Before
  <1> QED
    BY <1>1, <1>3, <1>4, <1>5, RoundStepKeeps

LEMMA PruneStep ==
    ASSUME Agreed, Prune
    PROVE  Agreed'
  <1>1. /\ stage' = "read" /\ RoundWrites /\ UNCHANGED refresh
        /\ vectors' = {v \in vectors : v.chunk \in indexed}
        /\ UNCHANGED <<documents, indexed, bm25, rows>>
    BY DEF Prune, RoundStep
  <1>2. Labelled(indexed)' = Labelled(indexed)
    BY <1>1, SameRows
  <1>3. Typed'
    BY <1>1, SameTyped DEF Agreed, Writing
  <1>4. MarkedAreStored'
    BY <1>1, SameMarks DEF Agreed
  <1>5. ASSUME refresh.step = "idle", trusted
        PROVE  RoundKeeps'
    <2>1. VectorsAgree'
      BY <1>1, <1>2, <1>5, LabelledFields DEF Agreed, RoundKeeps, VectorsAgree
    <2> QED
      BY <1>1, <2>1 DEF RoundKeeps, Before
  <1> QED
    BY <1>1, <1>3, <1>4, <1>5, RoundStepKeeps

LEMMA ReadRowsStep ==
    ASSUME Agreed, ReadRows
    PROVE  Agreed'
  <1>1. /\ stage' = "write" /\ RoundWrites /\ UNCHANGED refresh /\ UNCHANGED stores
        /\ rows' = Labelled(Chunks)
    BY DEF ReadRows, RoundStep
  <1>2. /\ UNCHANGED <<documents, indexed>>
        /\ Labelled(Chunks)' = Labelled(Chunks)
        /\ VectorsAgree' <=> VectorsAgree
    BY <1>1, SameStores
  <1>3. Typed'
    BY <1>1, <1>2, SameTyped DEF Agreed, Writing
  <1>4. MarkedAreStored'
    BY <1>1, <1>2, SameMarks DEF Agreed
  <1>5. (refresh.step = "idle" /\ trusted) => RoundKeeps'
    BY <1>1, <1>2 DEF Agreed, RoundKeeps, Before
  <1> QED
    BY <1>1, <1>3, <1>4, <1>5, RoundStepKeeps

LEMMA WriteIndexStep ==
    ASSUME Agreed, WriteIndex
    PROVE  Agreed'
  <1>1. /\ stage = "write" /\ stage' = "idle" /\ RoundWrites /\ UNCHANGED refresh
        /\ bm25' = rows
        /\ UNCHANGED <<documents, indexed, vectors>>
    BY DEF WriteIndex, RoundStep
  <1>2. /\ Labelled(indexed)' = Labelled(indexed)
        /\ Labelled(Chunks)' = Labelled(Chunks)
    BY <1>1, SameRows
  <1>3. Typed'
    BY <1>1, SameTyped DEF Agreed, Before
  <1>4. MarkedAreStored'
    BY <1>1, SameMarks DEF Agreed
  <1>5. ASSUME refresh.step = "idle", trusted
        PROVE  RoundKeeps'
    <2>1. VectorsAgree /\ rows = Labelled(Chunks)
      BY <1>1, <1>5 DEF Agreed, RoundKeeps
    <2>2. VectorsAgree' /\ FileAgrees'
      BY <1>1, <1>2, <2>1 DEF VectorsAgree, FileAgrees
    <2> QED
      BY <1>1, <2>2 DEF RoundKeeps
  <1> QED
    BY <1>1, <1>3, <1>4, <1>5, RoundStepKeeps

\* What died is not trusted, and has written nothing more.
LEMMA RoundDiesStep ==
    ASSUME Agreed, RoundDies
    PROVE  Agreed'
  <1>1. /\ stage' = "idle" /\ trusted' = FALSE
        /\ UNCHANGED stores /\ UNCHANGED <<refresh, overlap>>
    BY DEF RoundDies
  <1>2. /\ UNCHANGED <<documents, indexed>>
        /\ Labelled(indexed)' = Labelled(indexed) /\ Labelled(Chunks)' = Labelled(Chunks)
        /\ VectorsAgree' <=> VectorsAgree
    BY <1>1, SameStores
  <1>3. Typed'
    BY <1>1, <1>2, SameTyped DEF Agreed, Before
  <1>4. MarkedAreStored'
    BY <1>1, <1>2, SameMarks DEF Agreed
  <1>5. RoundKeeps'
    BY <1>1 DEF RoundKeeps
  <1>6. RefreshKeeps'
    BY <1>1, <1>2 DEF Agreed, RefreshKeeps, Writing
  <1> QED
    BY <1>3, <1>4, <1>5, <1>6 DEF Agreed
-----------------------------------------------------------------------------
(* The steps of a refresh.                                                 *)

\* While the refresh goes on nothing is promised between rounds.
LEMMA RefreshGoesOn ==
    ASSUME NEW from, NEW next, RefreshStep(from, next), next.step # "idle",
           Typed', MarkedAreStored', RefreshKeeps'
    PROVE  Agreed'
  BY DEF RefreshStep, RoundKeeps, Agreed

\* A refresh starts from what rounds have kept, or beside a round.
LEMMA PlanStep ==
    ASSUME Agreed, NEW options \in Options, Plan(options)
    PROVE  Agreed'
  <1> DEFINE next == IF options.dry THEN Idle
                     ELSE [Idle EXCEPT !.step = "update", !.options = options,
                             !.plan = {[page |-> u, labels |-> Classified(u)] :
                                         u \in {d \in Stored : Changed(d)}}]
  <1>1. /\ refresh.step = "idle" /\ refresh' = next /\ OutsideDiscovery
        /\ UNCHANGED <<stage, rows>> /\ UNCHANGED stores
        /\ overlap' = (stage # "idle" /\ ~options.dry)
        /\ trusted' = (trusted /\ ~overlap')
    BY DEF Plan, RefreshStep
  <1>2. /\ options.dry => next.step = "idle"
        /\ ~options.dry => next.step = "update"
        /\ IsRefresh(next)
    BY DEF Idle, IsRefresh
  <1> HIDE DEF next
  <1>3. /\ UNCHANGED <<documents, indexed>>
        /\ VectorsAgree' <=> VectorsAgree
        /\ FileAgrees' <=> FileAgrees
        /\ Labelled(Chunks)' = Labelled(Chunks)
        /\ Labelled(Chunks \ indexed)' = Labelled(Chunks \ indexed)
        /\ UNCHANGED vectors
    BY <1>1, SameStores
  <1>4. Typed'
    BY <1>1, <1>2, <1>3, RefreshTyped DEF Agreed
  <1>5. MarkedAreStored'
    BY <1>1, <1>3, SameMarks DEF Agreed
  <1>6. RoundKeeps'
    BY <1>1, <1>3 DEF Agreed, RoundKeeps
  <1>7. RefreshKeeps'
    <2>1. CASE options.dry
      BY <1>1, <1>2, <2>1 DEF RefreshKeeps
    <2>2. CASE ~options.dry
      <3>1. refresh'.step = "update"
        BY <1>1, <1>2, <2>2
      <3>2. ~overlap' => stage' = "idle"
        BY <1>1, <2>2
      <3>3. (trusted' /\ ~overlap') => VectorsAgree' /\ FileAgrees'
        BY <1>1, <1>3, <3>2 DEF Agreed, RoundKeeps, Before
      <3> QED
        BY <1>1, <3>1, <3>2, <3>3 DEF RefreshKeeps, Writing
    <2> QED
      BY <2>1, <2>2
  <1> QED
    BY <1>4, <1>5, <1>6, <1>7 DEF Agreed

\* The labels of a document may change, its chunk does not; with an empty
\* plan nothing does.
LEMMA UpdateDocumentsStep ==
    ASSUME Agreed, UpdateDocuments
    PROVE  Agreed'
  <1> DEFINE next == [refresh EXCEPT !.step = IF refresh.options.skipChroma THEN "clear"
                                              ELSE "chunks"]
  <1>0. IsRefresh(refresh)
    BY DEF Agreed, Typed
  <1>1. /\ RefreshStep("update", next) /\ refresh.step = "update" /\ refresh' = next
        /\ UNCHANGED <<stage, rows>>
        /\ UNCHANGED <<indexed, vectors, bm25, overlap, trusted>>
        /\ documents' = [u \in Page |->
               [documents[u] EXCEPT !.labels =
                   IF \E p \in refresh.plan : p.page = u
                   THEN (CHOOSE p \in refresh.plan : p.page = u).labels ELSE @]]
    BY DEF UpdateDocuments, RefreshStep
  <1>2. /\ next.step = IF refresh.options.skipChroma THEN "clear" ELSE "chunks"
        /\ next.options = refresh.options /\ next.plan = refresh.plan
        /\ next.failed = refresh.failed
        /\ IsRefresh(next)
    BY <1>0 DEF IsRefresh
  <1> HIDE DEF next
  <1>3. ASSUME NEW u \in Page
        PROVE  /\ documents'[u].version = documents[u].version
               /\ documents'[u] = [version |-> documents'[u].version, site |-> documents'[u].site,
                                   menu |-> documents'[u].menu, labels |-> documents'[u].labels]
               /\ refresh.plan = {} => documents'[u] = documents[u]
    BY <1>1 DEF Agreed, Typed
  <1>4. documents' = [u \in Page |-> documents'[u]]
    BY <1>1
  <1>5. Typed'
    BY <1>1, <1>2, <1>3, <1>4 DEF Agreed, Typed
  <1>6. Chunks' = Chunks
    BY <1>3 DEF Chunks, ChunkOf, Stored
  <1>7. MarkedAreStored'
    BY <1>1, <1>6 DEF Agreed, MarkedAreStored
  <1>8. refresh.plan = {} => UNCHANGED documents
    <2>1. documents = [u \in Page |-> documents[u]]
      BY DEF Agreed, Typed
    <2> QED
      BY <1>3, <1>4, <2>1
  <1>9. refresh.plan = {} => /\ VectorsAgree' <=> VectorsAgree
                             /\ FileAgrees' <=> FileAgrees
    BY <1>1, <1>8, SameRows DEF VectorsAgree, FileAgrees
  <1>10. RefreshKeeps'
    <2>1. CASE refresh.options.skipChroma
      BY <1>1, <1>2, <1>9, <2>1 DEF Agreed, RefreshKeeps
    <2>2. CASE ~refresh.options.skipChroma
      BY <1>1, <1>2, <1>9, <2>2 DEF Agreed, RefreshKeeps
    <2> QED
      BY <2>1, <2>2
  <1> QED
    BY <1>1, <1>2, <1>5, <1>7, <1>10, RefreshGoesOn

LEMMA ReadChunksStep ==
    ASSUME Agreed, ReadChunks
    PROVE  Agreed'
  <1> DEFINE next == [refresh EXCEPT !.step = "vectors", !.rows = Labelled(indexed)]
  <1>0. IsRefresh(refresh)
    BY DEF Agreed, Typed
  <1>1. /\ RefreshStep("chunks", next) /\ refresh.step = "chunks" /\ refresh' = next
        /\ UNCHANGED <<stage, rows>> /\ UNCHANGED stores
        /\ UNCHANGED <<overlap, trusted>>
    BY DEF ReadChunks, RefreshStep, ChunksToUpdate
  <1>2. /\ next.step = "vectors" /\ next.rows = Labelled(indexed)
        /\ next.options = refresh.options /\ next.plan = refresh.plan
        /\ next.failed = refresh.failed
        /\ IsRefresh(next)
    <2>1. next = [step |-> "vectors", options |-> refresh.options, plan |-> refresh.plan,
                  rows |-> Labelled(indexed), failed |-> refresh.failed]
      BY <1>0, NextRows
    <2> QED
      BY <2>1 DEF IsRefresh
  <1> HIDE DEF next
  <1>3. /\ UNCHANGED <<documents, indexed>>
        /\ Labelled(indexed)' = Labelled(indexed)
        /\ VectorsAgree' <=> VectorsAgree
        /\ FileAgrees' <=> FileAgrees
    BY <1>1, SameStores
  <1>4. Typed'
    BY <1>1, <1>2, <1>3, RefreshTyped DEF Agreed
  <1>5. MarkedAreStored'
    BY <1>1, <1>3, SameMarks DEF Agreed
  <1>6. RefreshKeeps'
    BY <1>1, <1>2, <1>3 DEF Agreed, RefreshKeeps
  <1> QED
    BY <1>1, <1>2, <1>4, <1>5, <1>6, RefreshGoesOn

\* Vectors of all chunks that were read get their labels, unless one is
\* missing, and none is missing that agreed before.
LEMMA UpdateVectorsStep ==
    ASSUME Agreed, NEW works \in BOOLEAN, UpdateVectors(works)
    PROVE  Agreed'
  <1> DEFINE found == {v \in vectors : \E r \in refresh.rows : r.chunk = v.chunk}
             missing == {r \in refresh.rows : \A v \in found : v.chunk # r.chunk}
             failed == ~works \/ missing # {}
             next == [refresh EXCEPT !.step = "clear", !.rows = {}, !.failed = failed]
  <1>0. IsRefresh(refresh)
    BY DEF Agreed, Typed
  <1>1. /\ RefreshStep("vectors", next) /\ refresh.step = "vectors" /\ refresh' = next
        /\ UNCHANGED <<stage, rows>>
        /\ vectors' = IF works THEN (vectors \ found) \cup (refresh.rows \ missing) ELSE vectors
        /\ UNCHANGED <<documents, indexed, bm25, overlap, trusted>>
    BY DEF UpdateVectors, RefreshStep
  <1>2. /\ next.step = "clear"
        /\ next.options = refresh.options /\ next.plan = refresh.plan
        /\ next.failed = failed
        /\ IsRefresh(next)
    <2> HIDE DEF failed
    <2>1. next = [step |-> "clear", options |-> refresh.options, plan |-> refresh.plan,
                  rows |-> {}, failed |-> failed]
      BY <1>0, NextFailed
    <2> HIDE DEF next
    <2> QED
      BY <2>1 DEF IsRefresh
  <1>3. /\ Labelled(indexed)' = Labelled(indexed)
        /\ Labelled(Chunks)' = Labelled(Chunks)
    BY <1>1, SameRows
  <1>4. Typed'
    BY <1>1, <1>2, RefreshTyped DEF Agreed
  <1>5. MarkedAreStored'
    BY <1>1, SameMarks DEF Agreed
  <1>6. ASSUME works, missing = {}, refresh.rows = Labelled(indexed)
        PROVE  VectorsAgree'
    BY <1>1, <1>3, <1>6 DEF VectorsAgree
  <1>7. ASSUME VectorsAgree, refresh.rows = Labelled(indexed)
        PROVE  missing = {}
    BY <1>7 DEF VectorsAgree
  <1>8. ASSUME VectorsAgree, ~works
        PROVE  VectorsAgree'
    BY <1>1, <1>3, <1>8 DEF VectorsAgree
  <1>9. FileAgrees' <=> FileAgrees
    BY <1>1, <1>3 DEF FileAgrees
  <1> HIDE DEF next, missing, found
  <1>10. RefreshKeeps'
    <2>1. ASSUME ~overlap'
          PROVE  stage' \notin Writing /\ refresh.rows = Labelled(indexed)
      BY <1>1, <2>1 DEF Agreed, RefreshKeeps
    <2>2. ASSUME ~overlap', ~refresh'.failed
          PROVE  VectorsAgree'
      BY <1>1, <1>2, <1>6, <2>1, <2>2
    <2>3. ASSUME ~overlap', trusted', refresh'.plan = {}
          PROVE  VectorsAgree' /\ FileAgrees'
      <3>1. VectorsAgree /\ FileAgrees
        BY <1>1, <1>2, <2>3 DEF Agreed, RefreshKeeps
      <3>2. VectorsAgree'
        BY <1>6, <1>7, <1>8, <2>1, <2>3, <3>1
      <3> QED
        BY <1>9, <3>1, <3>2
    <2>4. trusted' => ~overlap'
      BY <1>1 DEF Agreed, RefreshKeeps
    <2>5. refresh'.step = "clear"
      BY <1>1, <1>2
    <2> QED
      BY <2>1, <2>2, <2>3, <2>4, <2>5 DEF RefreshKeeps
  <1> QED
    BY <1>1, <1>2, <1>4, <1>5, <1>10, RefreshGoesOn

LEMMA ClearFilesStep ==
    ASSUME Agreed, ClearFiles
    PROVE  Agreed'
  <1> DEFINE next == [refresh EXCEPT !.step = "read"]
  <1>0. IsRefresh(refresh)
    BY DEF Agreed, Typed
  <1>1. /\ RefreshStep("clear", next) /\ refresh.step = "clear" /\ refresh' = next
        /\ UNCHANGED <<stage, rows>> /\ ~refresh.options.skipBm25
        /\ UNCHANGED <<documents, indexed, vectors, overlap, trusted>>
    BY DEF ClearFiles, RefreshStep
  <1>2. /\ next.step = "read"
        /\ next.options = refresh.options /\ next.plan = refresh.plan
        /\ next.failed = refresh.failed
        /\ IsRefresh(next)
    BY <1>0 DEF IsRefresh
  <1> HIDE DEF next
  <1>3. VectorsAgree' <=> VectorsAgree
    BY <1>1, SameRows DEF VectorsAgree
  <1>4. Typed'
    BY <1>1, <1>2, RefreshTyped DEF Agreed
  <1>5. MarkedAreStored'
    BY <1>1, SameMarks DEF Agreed
  <1>6. RefreshKeeps'
    BY <1>1, <1>2, <1>3 DEF Agreed, RefreshKeeps
  <1> QED
    BY <1>1, <1>2, <1>4, <1>5, <1>6, RefreshGoesOn

LEMMA RefreshReadsRowsStep ==
    ASSUME Agreed, RefreshReadsRows
    PROVE  Agreed'
  <1> DEFINE next == [refresh EXCEPT !.step = "write", !.rows = Labelled(Chunks)]
  <1>0. IsRefresh(refresh)
    BY DEF Agreed, Typed
  <1>1. /\ RefreshStep("read", next) /\ refresh.step = "read" /\ refresh' = next
        /\ UNCHANGED <<stage, rows>> /\ UNCHANGED stores
        /\ UNCHANGED <<overlap, trusted>>
    BY DEF RefreshReadsRows, RefreshStep
  <1>2. /\ next.step = "write" /\ next.rows = Labelled(Chunks)
        /\ next.options = refresh.options /\ next.plan = refresh.plan
        /\ next.failed = refresh.failed
        /\ IsRefresh(next)
    <2>1. next = [step |-> "write", options |-> refresh.options, plan |-> refresh.plan,
                  rows |-> Labelled(Chunks), failed |-> refresh.failed]
      BY <1>0, NextRows
    <2> HIDE DEF next
    <2> QED
      BY <2>1 DEF IsRefresh
  <1> HIDE DEF next
  <1>3. /\ UNCHANGED <<documents, indexed>>
        /\ Labelled(Chunks)' = Labelled(Chunks)
        /\ VectorsAgree' <=> VectorsAgree
    BY <1>1, SameStores
  <1>4. Typed'
    BY <1>1, <1>2, <1>3, RefreshTyped DEF Agreed
  <1>5. MarkedAreStored'
    BY <1>1, <1>3, SameMarks DEF Agreed
  <1>6. RefreshKeeps'
    BY <1>1, <1>2, <1>3 DEF Agreed, RefreshKeeps
  <1> QED
    BY <1>1, <1>2, <1>4, <1>5, <1>6, RefreshGoesOn

\* When a refresh is over, what it may be trusted for has to hold.
LEMMA RefreshEnds ==
    ASSUME Agreed, UNCHANGED <<stage, rows, documents, indexed, vectors>>,
           refresh' = Idle, stage \notin Writing \/ ~trusted',
           trusted' => VectorsAgree /\ FileAgrees'
    PROVE  Agreed'
  <1>1. refresh'.step = "idle" /\ IsRefresh(refresh')
    BY DEF Idle, IsRefresh
  <1>2. Typed'
    BY <1>1, RefreshTyped DEF Agreed
  <1>3. MarkedAreStored'
    BY SameMarks DEF Agreed
  <1>4. VectorsAgree' <=> VectorsAgree
    BY SameRows DEF VectorsAgree
  <1>5. RoundKeeps'
    BY <1>4 DEF RoundKeeps, Writing
  <1>6. RefreshKeeps'
    BY <1>1 DEF RefreshKeeps
  <1> QED
    BY <1>2, <1>3, <1>5, <1>6 DEF Agreed

LEMMA SkipFilesStep ==
    ASSUME Agreed, SkipFiles
    PROVE  Agreed'
  <1>1. /\ refresh.step = "clear" /\ refresh' = Idle /\ refresh.options.skipBm25
        /\ UNCHANGED <<stage, rows>> /\ UNCHANGED stores
    BY DEF SkipFiles, RefreshStep
  <1>2. UNCHANGED <<documents, indexed, vectors>> /\ (FileAgrees' <=> FileAgrees)
    BY <1>1, SameStores
  <1>3. trusted' => trusted /\ refresh.plan = {}
    BY <1>1 DEF SkipFiles, EndOfRefresh
  <1>4. trusted' => VectorsAgree /\ FileAgrees /\ stage \notin Writing
    BY <1>1, <1>3 DEF Agreed, RefreshKeeps
  <1> QED
    BY <1>1, <1>2, <1>4, RefreshEnds

LEMMA RefreshWritesIndexStep ==
    ASSUME Agreed, RefreshWritesIndex
    PROVE  Agreed'
  <1>1. /\ refresh.step = "write" /\ refresh' = Idle /\ bm25' = refresh.rows
        /\ UNCHANGED <<stage, rows>> /\ UNCHANGED <<documents, indexed, vectors>>
    BY DEF RefreshWritesIndex, RefreshStep
  <1>2. ~refresh.options.skipBm25
    BY <1>1 DEF Agreed, RefreshKeeps
  <1>3. trusted' => IF refresh.options.skipChroma \/ refresh.failed
                    THEN trusted /\ refresh.plan = {} ELSE ~overlap
    BY <1>2 DEF RefreshWritesIndex, EndOfRefresh
  <1>4. trusted' => ~overlap
    BY <1>1, <1>3 DEF Agreed, RefreshKeeps
  <1>5. trusted' => VectorsAgree
    BY <1>1, <1>3, <1>4 DEF Agreed, RefreshKeeps
  <1>6. trusted' => stage \notin Writing /\ refresh.rows = Labelled(Chunks)
    BY <1>1, <1>4 DEF Agreed, RefreshKeeps
  <1>7. Labelled(Chunks)' = Labelled(Chunks)
    BY <1>1, SameRows
  <1>8. trusted' => FileAgrees'
    BY <1>1, <1>6, <1>7 DEF FileAgrees
  <1> QED
    BY <1>1, <1>5, <1>6, <1>8, RefreshEnds

LEMMA RefreshDiesStep ==
    ASSUME Agreed, RefreshDies
    PROVE  Agreed'
  <1>1. /\ refresh' = Idle /\ trusted' = FALSE /\ UNCHANGED <<stage, rows>>
        /\ UNCHANGED stores
    BY DEF RefreshDies, RefreshStep
  <1>2. UNCHANGED <<documents, indexed, vectors>>
    BY <1>1 DEF stores
  <1> QED
    BY <1>1, <1>2, RefreshEnds
-----------------------------------------------------------------------------
LEMMA AgreedStart == Init => Agreed
  <1> SUFFICES ASSUME Init
               PROVE  Agreed
    OBVIOUS
  <1>1. /\ stage = "idle" /\ indexed = {} /\ vectors = {} /\ bm25 = {} /\ rows = {}
        /\ refresh = Idle
        /\ documents = [u \in Page |-> [version |-> 0, site |-> NoSite, menu |-> <<>>,
                                        labels |-> [scope |-> "unknown", kind |-> "unknown"]]]
    BY DEF Init, DiscoveryInit
  <1>2. refresh.step = "idle" /\ IsRefresh(refresh)
    BY <1>1 DEF Idle, IsRefresh
  <1>3. Typed
    BY <1>1, <1>2 DEF Typed, Before
  <1>4. Chunks = {}
    BY <1>1 DEF Chunks, Stored
  <1>5. Labelled(indexed) = {} /\ Labelled(Chunks) = {}
    BY <1>1, <1>4 DEF Labelled
  <1>6. MarkedAreStored
    BY <1>1 DEF MarkedAreStored
  <1>7. RoundKeeps
    BY <1>1, <1>5 DEF RoundKeeps, VectorsAgree, FileAgrees
  <1>8. RefreshKeeps
    BY <1>2 DEF RefreshKeeps
  <1> QED
    BY <1>3, <1>6, <1>7, <1>8 DEF Agreed

LEMMA AgreedStep == Agreed /\ [Next]_vars => Agreed'
  <1> SUFFICES ASSUME Agreed, [Next]_vars
               PROVE  Agreed'
    OBVIOUS
  <1>1. CASE Discover \/ BeginHandling
    BY <1>1, QuietStep DEF Quiet
  <1>2. ASSUME NEW outcome \in {"same", "edited", "failed"}, Handle(outcome)
        PROVE  Agreed'
    BY <1>2, HandleStep
  <1>3. CASE SelectPending
    BY <1>3, SelectPendingStep
  <1>4. CASE UpsertVectors
    BY <1>4, UpsertVectorsStep
  <1>5. CASE MarkIndexed
    BY <1>5, MarkIndexedStep
  <1>6. CASE Prune
    BY <1>6, PruneStep
  <1>7. CASE ReadRows
    BY <1>7, ReadRowsStep
  <1>8. CASE WriteIndex
    BY <1>8, WriteIndexStep
  <1>9. CASE RoundDies
    BY <1>9, RoundDiesStep
  <1>10. ASSUME NEW options \in Options, Plan(options)
         PROVE  Agreed'
    BY <1>10, PlanStep
  <1>11. CASE UpdateDocuments
    BY <1>11, UpdateDocumentsStep
  <1>12. CASE ReadChunks
    BY <1>12, ReadChunksStep
  <1>13. ASSUME NEW works \in BOOLEAN, UpdateVectors(works)
         PROVE  Agreed'
    BY <1>13, UpdateVectorsStep
  <1>14. CASE SkipFiles
    BY <1>14, SkipFilesStep
  <1>15. CASE ClearFiles
    BY <1>15, ClearFilesStep
  <1>16. CASE RefreshReadsRows
    BY <1>16, RefreshReadsRowsStep
  <1>17. CASE RefreshWritesIndex
    BY <1>17, RefreshWritesIndexStep
  <1>18. CASE RefreshDies
    BY <1>18, RefreshDiesStep
  <1>19. CASE UNCHANGED vars
    <2>1. UNCHANGED <<stage, documents, indexed, vectors, bm25, rows, refresh, overlap, trusted>>
      BY <1>19 DEF vars, catalogue, stores, discovery
    <2>2. /\ Chunks' = Chunks
          /\ Labelled(indexed)' = Labelled(indexed)
          /\ Labelled(Chunks)' = Labelled(Chunks)
          /\ Labelled(Chunks \ indexed)' = Labelled(Chunks \ indexed)
      BY <2>1, SameRows
    <2>3. Typed' /\ MarkedAreStored'
      BY <2>1, SameTyped, SameMarks DEF Agreed, Typed
    <2>4. RoundKeeps'
      BY <2>1, <2>2 DEF Agreed, RoundKeeps, VectorsAgree, FileAgrees
    <2>5. RefreshKeeps'
      BY <2>1, <2>2 DEF Agreed, RefreshKeeps, VectorsAgree, FileAgrees
    <2> QED
      BY <2>3, <2>4, <2>5 DEF Agreed
  <1> QED
    BY <1>1, <1>2, <1>3, <1>4, <1>5, <1>6, <1>7, <1>8, <1>9, <1>10, <1>11, <1>12, <1>13,
       <1>14, <1>15, <1>16, <1>17, <1>18, <1>19 DEF Next

\* Between rounds and refreshes, unless one of them was interrupted, partial or
\* beside the other since the last full refresh, the row of every document, the
\* metadata of its vector in Chroma and its record in the BM25 file carry the
\* same labels (refresh_metadata.py, run_documents, embed_pending_chunks,
\* write_bm25_indexes).
THEOREM LabelsCorrect == Spec => []LabelsAgree
  <1>1. Agreed => LabelsAgree
    BY DEF Agreed, RoundKeeps, VectorsAgree, FileAgrees, LabelsAgree, Before
  <1> QED
    BY AgreedStart, AgreedStep, <1>1, PTL DEF Spec
-----------------------------------------------------------------------------
\* Lists, and those that name no page twice.
Urls(list) == {t.url : t \in Range(list)}
Distinct(list) == \A i, j \in DOMAIN list : list[i].url = list[j].url => i = j

LEMMA SublistIsDistinct ==
    ASSUME NEW list, IsList(list), NEW I \in SUBSET DOMAIN list,
           \A i, j \in I : list[i].url = list[j].url => i = j
    PROVE  Distinct(Sublist(list, I))
  BY SublistFacts DEF Distinct

LEMMA DedupeFacts ==
    ASSUME NEW list, IsList(list)
    PROVE  /\ IsList(Dedupe(list)) /\ Distinct(Dedupe(list))
           /\ Range(Dedupe(list)) \subseteq Range(list) /\ Urls(Dedupe(list)) = Urls(list)
           /\ Len(Dedupe(list)) \in Nat
  <1> DEFINE Same(i) == {j \in DOMAIN list : list[j].url = list[i].url}
             I == {i \in DOMAIN list : \A j \in DOMAIN list : list[j].url = list[i].url => j <= i}
  <1>1. Len(list) \in Nat /\ DOMAIN list = 1..Len(list)
    BY ListFacts
  <1>2. I \in SUBSET DOMAIN list
    OBVIOUS
  <1>3. \A i, j \in I : list[i].url = list[j].url => i = j
    BY <1>1
  <1>4. ASSUME NEW i \in DOMAIN list PROVE \E j \in I : list[j].url = list[i].url
    <2>1. Same(i) \in SUBSET (1..Len(list)) /\ Same(i) # {}
      BY <1>1
    <2>2. PICK j \in Same(i) : \A k \in Same(i) : k <= j
      BY <1>1, <2>1, LargestPlace
    <2> QED
      BY <2>2
  <1>5. Dedupe(list) = Sublist(list, I)
    BY DEF Dedupe
  <1> HIDE DEF I
  <1>6. /\ IsList(Dedupe(list)) /\ Len(Dedupe(list)) \in Nat
        /\ Range(Dedupe(list)) = {list[i] : i \in I}
    BY <1>2, <1>5, SublistFacts
  <1>7. Distinct(Dedupe(list))
    BY <1>2, <1>3, <1>5, SublistIsDistinct
  <1>8. Urls(Dedupe(list)) = Urls(list)
    <2>1. ASSUME NEW t \in Range(list) PROVE t.url \in Urls(Dedupe(list))
      <3>1. PICK i \in DOMAIN list : t = list[i]
        BY DEF Range
      <3>2. PICK j \in I : list[j].url = list[i].url
        BY <1>4
      <3>3. list[j] \in Range(Dedupe(list))
        BY <1>6
      <3> QED
        BY <3>1, <3>2, <3>3 DEF Urls
    <2>2. Range(Dedupe(list)) \subseteq Range(list)
      BY <1>2, <1>6 DEF Range
    <2> QED
      BY <2>1, <2>2 DEF Urls
  <1> QED
    BY <1>2, <1>6, <1>7, <1>8 DEF Range

LEMMA LimitedFacts ==
    ASSUME NEW list, IsList(list), limit \in Nat
    PROVE  /\ IsList(Limited(list)) /\ Range(Limited(list)) \subseteq Range(list)
           /\ Distinct(list) => Distinct(Limited(list))
           /\ limit > 0 => Len(Limited(list)) <= limit
           /\ limit = 0 => Limited(list) = list
  <1> DEFINE l == Limited(list)
  <1>1. Len(list) \in Nat /\ DOMAIN list = 1..Len(list)
        /\ \A i \in DOMAIN list : list[i] \in Range(list)
    BY ListFacts
  <1>2. CASE limit = 0 \/ Len(list) <= limit
    <2>1. l = list
      BY <1>2 DEF Limited
    <2> HIDE DEF l
    <2>2. limit > 0 => Len(l) <= limit
      BY <1>2, <2>1
    <2> QED
      BY <2>1, <2>2 DEF l
  <1>3. CASE ~(limit = 0 \/ Len(list) <= limit)
    <2>1. l = SubSeq(list, 1, limit) /\ limit \in Nat /\ limit > 0 /\ limit < Len(list)
      BY <1>1, <1>3 DEF Limited
    <2>2. \A i \in 1..limit : i \in DOMAIN list /\ list[i] \in Range(list)
      BY <1>1, <2>1
    <2>3. /\ l \in Seq(Range(list)) /\ Len(l) = limit
          /\ \A i \in 1..limit : l[i] = list[i]
      <3>1. /\ SubSeq(list, 1, limit) \in Seq(Range(list))
            /\ Len(SubSeq(list, 1, limit)) = limit
            /\ \A i \in 1..limit : SubSeq(list, 1, limit)[i] = list[1 + i - 1]
        BY <2>1, <2>2, SubSeqProperties
      <3>2. \A i \in 1..limit : 1 + i - 1 = i
        OBVIOUS
      <3> QED
        BY <2>1, <3>1, <3>2
    <2> HIDE DEF l
    <2>4. IsList(l) /\ Range(l) \subseteq Range(list)
      BY <2>3, ListOf
    <2>5. DOMAIN l = 1..limit
      BY <2>3, LenProperties
    <2>6. Distinct(list) => Distinct(l)
      BY <2>2, <2>3, <2>5 DEF Distinct
    <2> QED
      BY <2>1, <2>3, <2>4, <2>6 DEF l
  <1> QED
    BY <1>2, <1>3

\* A list names as many pages as it has entries, if none of them twice.
LEMMA DistinctCount ==
    ASSUME NEW list, IsList(list), Distinct(list)
    PROVE  Cardinality({t.url : t \in Range(list)}) = Len(list)
  <1> DEFINE f == [i \in 1..Len(list) |-> list[i].url]
             U == {t.url : t \in Range(list)}
  <1>1. Len(list) \in Nat /\ DOMAIN list = 1..Len(list)
    BY ListFacts
  <1>2. f \in Bijection(1..Len(list), U)
    <2>1. f \in [1..Len(list) -> U]
      BY <1>1 DEF Range
    <2>2. \A u \in U : \E i \in 1..Len(list) : f[i] = u
      BY <1>1 DEF Range
    <2>3. \A i, j \in 1..Len(list) : f[i] = f[j] => i = j
      BY <1>1 DEF Distinct
    <2> QED
      BY <2>1, <2>2, <2>3 DEF Bijection, Injection, Surjection, IsInjective
  <1>3. Cardinality(U) = Len(list)
    BY <1>1, <1>2, FS_CountingElements DEF ExistsBijection
  <1> QED
    BY <1>3

\* A target that a menu names, found there and nowhere else.
OnAMenu(url) == \E s \in Site : \E e \in Range(Menu[s]) : e.url = url
FromMenu(t) == t.url \in Url /\ OnAMenu(t.url) /\ \E label : t.menu = <<label>>

LEMMA MenuTargetsFacts ==
    ASSUME NEW site \in Site, NEW department
    PROVE  LET list == MenuTargets(site, department)
           IN  /\ IsList(list) /\ \A t \in Range(list) : FromMenu(t)
               /\ \A e \in Range(Menu[site]) : e.url \in Urls(list)
  <1> DEFINE M == Menu[site]
             all == [i \in DOMAIN M |->
                       Target(M[i].url, site, <<M[i].label>>, MenuScope(M[i].url, site, department))]
             list == MenuTargets(site, department)
  <1>1. IsList(M) /\ \A e \in Range(M) : e.url \in Url
    BY DiscoveryAssumption
  <1>2. Len(M) \in Nat /\ DOMAIN M = 1..Len(M)
    BY <1>1, ListFacts
  <1>3. list = Dedupe(all)
    BY DEF MenuTargets
  <1>4. \A i \in DOMAIN M : all[i].url = M[i].url /\ all[i].menu = <<M[i].label>>
    BY DEF Target
  <1>5. IsList(all)
    <2>1. DOMAIN all = 1..Len(M) /\ all = [i \in 1..Len(M) |-> all[i]]
      BY <1>2
    <2> HIDE DEF all
    <2> QED
      BY <1>2, <2>1, ListByPlaces
  <1>6. DOMAIN all = DOMAIN M
    OBVIOUS
  <1> HIDE DEF all, list
  <1>7. ASSUME NEW t \in Range(all) PROVE FromMenu(t)
    <2>1. PICK i \in DOMAIN M : t = all[i]
      BY <1>6 DEF Range
    <2>2. M[i] \in Range(M) /\ t.url = M[i].url /\ t.menu = <<M[i].label>>
      BY <1>4, <2>1 DEF Range
    <2> QED
      BY <1>1, <2>2 DEF FromMenu, OnAMenu
  <1>8. ASSUME NEW e \in Range(M) PROVE e.url \in Urls(all)
    <2>1. PICK i \in DOMAIN M : e = M[i]
      BY DEF Range
    <2>2. all[i] \in Range(all) /\ all[i].url = e.url
      BY <1>4, <1>6, <2>1 DEF Range
    <2> QED
      BY <2>2 DEF Urls
  <1>9. IsList(list) /\ Range(list) \subseteq Range(all) /\ Urls(list) = Urls(all)
    BY <1>3, <1>5, DedupeFacts
  <1> QED
    BY <1>7, <1>8, <1>9 DEF list

\* A page's own target and those of its posts.
LEMMA ExpansionFacts ==
    ASSUME NEW p, p.url \in Url
    PROVE  /\ IsList(Expansion(p)) /\ p \in Range(Expansion(p))
           /\ \A t \in Range(Expansion(p)) :
                t = p \/ (t.url \in Url /\ \E label : t.menu = Append(p.menu, label))
           /\ \A e \in Range(Posts[p.url]) : e.url \in Urls(Expansion(p))
  <1> DEFINE P == Posts[p.url]
             all == [i \in DOMAIN P |->
                       Target(P[i].url, p.site, Append(p.menu, P[i].label), p.scope)]
             list == PostTargets(p)
  <1>1. IsList(P) /\ \A e \in Range(P) : e.url \in Url
    BY DiscoveryAssumption
  <1>2. Len(P) \in Nat /\ DOMAIN P = 1..Len(P)
    BY <1>1, ListFacts
  <1>3. list = Dedupe(all)
    BY DEF PostTargets
  <1>4. \A i \in DOMAIN P : all[i].url = P[i].url /\ all[i].menu = Append(p.menu, P[i].label)
    BY DEF Target
  <1>5. IsList(all)
    <2>1. DOMAIN all = 1..Len(P) /\ all = [i \in 1..Len(P) |-> all[i]]
      BY <1>2
    <2> HIDE DEF all
    <2> QED
      BY <1>2, <2>1, ListByPlaces
  <1>6. DOMAIN all = DOMAIN P
    OBVIOUS
  <1> HIDE DEF all, list
  <1>7. ASSUME NEW t \in Range(all)
        PROVE  t.url \in Url /\ \E label : t.menu = Append(p.menu, label)
    <2>1. PICK i \in DOMAIN P : t = all[i]
      BY <1>6 DEF Range
    <2>2. P[i] \in Range(P) /\ t.url = P[i].url /\ t.menu = Append(p.menu, P[i].label)
      BY <1>4, <2>1 DEF Range
    <2> QED
      BY <1>1, <2>2
  <1>8. ASSUME NEW e \in Range(P) PROVE e.url \in Urls(all)
    <2>1. PICK i \in DOMAIN P : e = P[i]
      BY DEF Range
    <2>2. all[i] \in Range(all) /\ all[i].url = e.url
      BY <1>4, <1>6, <2>1 DEF Range
    <2> QED
      BY <2>2 DEF Urls
  <1>9. IsList(list) /\ Range(list) \subseteq Range(all) /\ Urls(list) = Urls(all)
    BY <1>3, <1>5, DedupeFacts
  <1>10. IsList(<<p>>) /\ Range(<<p>>) = {p}
    <2>1. <<p>> \in Seq({p})
      OBVIOUS
    <2>2. Range(<<p>>) = {p}
      BY DEF Range
    <2> QED
      BY <2>1, <2>2 DEF IsList
  <1>11. Expansion(p) = <<p>> \o list
    BY DEF Expansion, list
  <1>12. IsList(Expansion(p)) /\ Range(Expansion(p)) = {p} \cup Range(list)
    BY <1>9, <1>10, <1>11, JoinedLists
  <1> QED
    BY <1>7, <1>8, <1>9, <1>12 DEF Urls

LEMMA AppendOrderedFacts ==
    ASSUME NEW list, NEW new, IsList(list), IsList(new), limit \in Nat
    PROVE  LET l == AppendOrdered(list, new)
           IN  /\ IsList(l) /\ Range(l) \subseteq Range(list) \cup Range(new)
               /\ limit = 0 => Range(l) = Range(list) \cup Range(new)
  <1> DEFINE slots == limit - Len(Dedupe(list))
             cut == SubSeq(new, 1, slots)
             l == AppendOrdered(list, new)
  <1>1. slots \in Int /\ Len(new) \in Nat /\ DOMAIN new = 1..Len(new)
        /\ \A i \in DOMAIN new : new[i] \in Range(new)
    BY DedupeFacts, ListFacts
  <1>2. CASE limit = 0 \/ slots >= Len(new)
    <2>1. l = list \o new
      BY <1>2 DEF AppendOrdered
    <2> QED
      BY <2>1, JoinedLists
  <1>3. CASE ~(limit = 0 \/ slots >= Len(new))
    <2>1. l = list \o cut
      BY <1>3 DEF AppendOrdered
    <2>2. \A i \in 1..slots : new[i] \in Range(new)
      <3> HIDE DEF slots
      <3> QED
        BY <1>1, <1>3
    <2>3. cut \in Seq(Range(new))
      <3> HIDE DEF slots
      <3> QED
        BY <1>1, <2>2, SubSeqProperties
    <2>4. IsList(cut) /\ Range(cut) \subseteq Range(new)
      BY <2>3, ListOf
    <2> QED
      BY <1>3, <2>1, <2>4, JoinedLists
  <1> QED
    BY <1>2, <1>3

\* The ordered list is made of what the parents brought, and without a limit
\* of all of it.
LEMMA OrderedFacts ==
    ASSUME IsList(targets), limit \in Nat, NEW again,
           \A t \in Range(targets) : IsList(Brought(t, again))
    PROVE  /\ IsList(Ordered(again))
           /\ \A x \in Range(Ordered(again)) :
                \E t \in Range(targets) : x \in Range(Brought(t, again))
           /\ limit = 0 =>
                \A t \in Range(targets) : Range(Brought(t, again)) \subseteq Range(Ordered(again))
  <1> DEFINE N == Len(targets)
             new(n) == Brought(targets[n], again)
             Run(f, m) == f = [n \in 0..m |-> IF n = 0 THEN <<>>
                                              ELSE AppendOrdered(f[n - 1], new(n))]
  <1>1. N \in Nat /\ DOMAIN targets = 1..N /\ \A n \in 1..N : targets[n] \in Range(targets)
    BY ListFacts
  <1>2. \A n \in 1..N : IsList(new(n))
    BY <1>1
  <1>3. Ordered(again) = (CHOOSE f : Run(f, N))[N]
    BY DEF Ordered
  <1> HIDE DEF N, new
  <1>4. \A m \in 0..N : \E f : Run(f, m)
    <2> DEFINE T == {m \in 0..N : ~\E f : Run(f, m)}
    <2> SUFFICES ASSUME T # {} PROVE FALSE
      OBVIOUS
    <2>1. T \subseteq Nat
      BY <1>1
    <2>2. PICK m \in T : \A k \in T : m <= k
      BY <2>1, LeastNatural
    <2>3. m \in 0..N /\ ~\E f : Run(f, m)
      BY <2>2
    <2>4. CASE m = 0
      <3> DEFINE f == [n \in 0..0 |-> <<>>]
      <3>1. Run(f, 0)
        OBVIOUS
      <3> QED
        BY <2>3, <2>4, <3>1
    <2>5. CASE m # 0
      <3>1. m - 1 \in 0..N /\ m - 1 \notin T
        <4>1. m - 1 \in 0..N /\ ~(m <= m - 1)
          BY <1>1, <2>3, <2>5
        <4> QED
          BY <2>2, <4>1
      <3>2. PICK f : Run(f, m - 1)
        BY <3>1
      <3> DEFINE g == [n \in 0..m |-> IF n = m THEN AppendOrdered(f[m - 1], new(m)) ELSE f[n]]
      <3>3. g[m] = AppendOrdered(g[m - 1], new(m))
        BY <1>1, <2>3, <2>5
      <3>4. \A n \in 0..m - 1 : g[n] = IF n = 0 THEN <<>> ELSE AppendOrdered(g[n - 1], new(n))
        <4>1. \A n \in 0..m - 1 : f[n] = IF n = 0 THEN <<>> ELSE AppendOrdered(f[n - 1], new(n))
          BY <3>2
        <4>2. \A n \in 0..m - 1 : g[n] = f[n]
          BY <1>1, <2>3
        <4>3. \A n \in 0..m - 1 : n # 0 => g[n - 1] = f[n - 1]
          BY <1>1, <2>3
        <4> HIDE DEF g
        <4> QED
          BY <4>1, <4>2, <4>3
      <3>5. g = [n \in 0..m |-> g[n]]
        OBVIOUS
      <3> HIDE DEF g
      <3>6. \A n \in 0..m : g[n] = IF n = 0 THEN <<>> ELSE AppendOrdered(g[n - 1], new(n))
        <4>1. \A n \in 0..m : n = m \/ n \in 0..m - 1
          BY <1>1, <2>3
        <4> QED
          BY <2>5, <3>3, <3>4, <4>1
      <3>7. Run(g, m)
        BY <3>5, <3>6
      <3> QED
        BY <2>3, <3>7
    <2> QED
      BY <2>4, <2>5
  <1> DEFINE u == CHOOSE f : Run(f, N)
  <1>5. Run(u, N)
    <2>1. \E f : Run(f, N)
      BY <1>1, <1>4
    <2> QED
      BY <2>1
  <1>6. /\ u[0] = <<>>
        /\ \A n \in 1..N : u[n] = AppendOrdered(u[n - 1], new(n))
    <2>1. u = [n \in 0..N |-> IF n = 0 THEN <<>> ELSE AppendOrdered(u[n - 1], new(n))]
      BY <1>5
    <2> HIDE DEF u
    <2>2. \A n \in 0..N : u[n] = IF n = 0 THEN <<>> ELSE AppendOrdered(u[n - 1], new(n))
      BY <2>1
    <2>3. 0 \in 0..N /\ \A n \in 1..N : n \in 0..N /\ n # 0
      BY <1>1
    <2> HIDE DEF Run
    <2> QED
      BY <2>2, <2>3
  <1>11. Ordered(again) = u[N]
    BY <1>3
  <1> HIDE DEF u, Run
  <1> DEFINE Good(m) ==
               /\ IsList(u[m])
               /\ \A x \in Range(u[m]) : \E i \in 1..m : x \in Range(new(i))
               /\ limit = 0 => \A i \in 1..m : Range(new(i)) \subseteq Range(u[m])
  <1>7. \A m \in 0..N : Good(m)
    <2> DEFINE T == {m \in 0..N : ~Good(m)}
    <2> SUFFICES ASSUME T # {} PROVE FALSE
      OBVIOUS
    <2>1. T \subseteq Nat
      BY <1>1
    <2>2. PICK m \in T : \A k \in T : m <= k
      BY <2>1, LeastNatural
    <2>3. m \in 0..N /\ ~Good(m)
      BY <2>2
    <2>4. m # 0
      <3>1. IsList(<<>>) /\ Range(<<>>) = {}
        BY EmptySeq DEF IsList, Range
      <3>2. 1..0 = {}
        OBVIOUS
      <3> QED
        BY <1>6, <2>3, <3>1, <3>2
    <2>5. m - 1 \in 0..N /\ Good(m - 1)
      <3>1. m - 1 \in 0..N /\ ~(m <= m - 1)
        BY <1>1, <2>3, <2>4
      <3> HIDE DEF Good
      <3> QED
        BY <2>2, <3>1
    <2>6. m \in 1..N
      BY <1>1, <2>3, <2>4
    <2>7. /\ IsList(u[m]) /\ Range(u[m]) \subseteq Range(u[m - 1]) \cup Range(new(m))
          /\ limit = 0 => Range(u[m]) = Range(u[m - 1]) \cup Range(new(m))
      <3>1. u[m] = AppendOrdered(u[m - 1], new(m)) /\ IsList(new(m)) /\ IsList(u[m - 1])
        BY <1>2, <1>6, <2>5, <2>6
      <3> QED
        BY <3>1, AppendOrderedFacts
    <2>8. \A i \in 1..m : i = m \/ i \in 1..m - 1
      BY <2>6
    <2>9. m \in 1..m /\ 1..m - 1 \subseteq 1..m
      BY <2>6
    <2>10. Good(m)
      <3>1. ASSUME NEW x \in Range(u[m]) PROVE \E i \in 1..m : x \in Range(new(i))
        BY <2>5, <2>7, <2>9
      <3>2. ASSUME limit = 0, NEW i \in 1..m PROVE Range(new(i)) \subseteq Range(u[m])
        BY <2>5, <2>7, <2>8, <3>2
      <3> QED
        BY <2>7, <3>1, <3>2
    <2> QED
      BY <2>3, <2>10
  <1>8. Good(N) /\ Ordered(again) = u[N]
    <2>1. N \in 0..N
      BY <1>1
    <2>2. Good(N)
      <3> HIDE DEF Good
      <3> QED
        BY <1>7, <2>1
    <2> QED
      BY <1>11, <2>2
  <1>9. \A t \in Range(targets) : \E n \in 1..N : t = targets[n]
    BY <1>1 DEF Range
  <1>10. \A n \in 1..N : new(n) = Brought(targets[n], again)
    BY DEF new
  <1> QED
    BY <1>1, <1>8, <1>9, <1>10
-----------------------------------------------------------------------------
\* The discovery of a round, stage by stage.

DiscoveryTyped ==
    /\ limit \in Nat
    /\ answers = [x \in Page \cup Site |-> answers[x]]

\* While sites are read every target is a menu's, and without a limit every
\* entry of a menu that was read is a target.
Collected ==
    /\ IsList(targets) /\ \A t \in Range(targets) : FromMenu(t)
    /\ limit = 0 =>
         \A s \in Site : answers[s] = "content" =>
             \A e \in Range(Menu[s]) : e.url \in Urls(targets)

QueueTyped == queue \in Seq([site : Site, department : BOOLEAN])

\* What TargetsAreSound says of one target that is a page.
Answered(t) ==
    /\ answers[t.url] \in {"content", "empty"}
    /\ answers[t.url] = "empty" => Len(t.menu) > 1 /\ OnAMenu(t.url)

\* What NothingListedIsLost says of one page, and of all that were listed.
Spoken(u) == u \in Urls(targets) \cup failures \/ answers[u] = "empty"

Parents == {u \in Url : \E s \in Site : answers[s] = "content" /\ \E e \in Range(Menu[s]) : e.url = u}

Accounted ==
    /\ \A u \in Parents : Spoken(u)
    /\ \A q \in Parents \cap verified :
         answers[q] = "content" => \A e \in Range(Posts[q]) : Spoken(e.url)

PagesOnce == IsList(targets) /\ Distinct(targets) /\ \A t \in Range(targets) : t.url \in Url

DiscoveryKeeps ==
    /\ DiscoveryTyped
    /\ stage = "sites" => QueueTyped /\ Collected
    /\ stage = "retry" => Collected /\ \A t \in Range(targets) : answers[t.url] \in Answer
    /\ stage = "validate" =>
         /\ PagesOnce /\ verified \subseteq Url
         /\ \A t \in Range(targets) : t.url \in verified => Answered(t)
         /\ limit = 0 => Accounted
    /\ stage = "pdf" =>
         /\ PagesOnce /\ verified \subseteq Url
         /\ \A t \in Range(targets) : Answered(t)
         /\ limit = 0 => Accounted
    /\ stage = "found" => TargetsAreSound /\ NothingListedIsLost

\* A pass asks pages or sites, and only their answers change.
LEMMA NotedFacts ==
    ASSUME NEW asked, asked \subseteq Page \cup Site, NEW out \in Answers(asked),
           Noted(out), DiscoveryTyped, limit' = limit
    PROVE  /\ DiscoveryTyped'
           /\ \A x \in asked : answers'[x] = out[x] /\ out[x] \in Answer
           /\ \A x \in (Page \cup Site) \ asked : answers'[x] = answers[x]
           /\ \A x \in asked : out[x] = "fails" => x \in Failed(out)
  <1>1. out \in [asked -> Answer]
    BY DEF Answers
  <1>2. answers' = [x \in Page \cup Site |-> IF x \in asked THEN out[x] ELSE answers[x]]
    BY <1>1 DEF Noted, DiscoveryTyped
  <1> QED
    BY <1>1, <1>2 DEF DiscoveryTyped, Failed

\* Pages are no sites.
LEMMA SitesAreNoPages ==
    ASSUME NEW asked, asked \subseteq Url
    PROVE  asked \subseteq Page \cup Site /\ \A s \in Site : s \notin asked
  BY DiscoveryAssumption DEF Page

LEMMA StartDiscoveryStep ==
    ASSUME DiscoveryKeeps, StartDiscovery
    PROVE  DiscoveryKeeps'
  <1>1. /\ stage' = "sites" /\ limit' = limit /\ targets' = <<>>
        /\ answers' = [x \in DOMAIN answers |-> "none"]
        /\ queue' = [i \in DOMAIN Seeds |-> [site |-> Seeds[i], department |-> FALSE]]
    BY DEF StartDiscovery
  <1>2. DOMAIN answers = Page \cup Site
    BY DEF DiscoveryKeeps, DiscoveryTyped
  <1>3. DiscoveryTyped' /\ \A s \in Site : answers'[s] = "none"
    BY <1>1, <1>2 DEF DiscoveryKeeps, DiscoveryTyped
  <1>4. QueueTyped'
    <2>1. Seeds \in Seq(Site)
      BY DiscoveryAssumption
    <2>2. Len(Seeds) \in Nat /\ DOMAIN Seeds = 1..Len(Seeds) /\ \A i \in DOMAIN Seeds : Seeds[i] \in Site
      BY <2>1
    <2>3. queue' \in [1..Len(Seeds) -> [site : Site, department : BOOLEAN]]
      BY <1>1, <2>2
    <2> QED
      BY <2>2, <2>3, SequenceOf DEF QueueTyped
  <1>5. Collected'
    <2>1. IsList(targets') /\ Range(targets') = {}
      BY <1>1 DEF IsList, Range
    <2> QED
      BY <1>3, <2>1 DEF Collected, IsList, Range
  <1> QED
    BY <1>1, <1>3, <1>4, <1>5 DEF DiscoveryKeeps

\* What the queue holds next are departments.
LEMMA DepartmentQueueTyped ==
    ASSUME NEW site \in Site
    PROVE  DepartmentQueue(site) \in Seq([site : Site, department : BOOLEAN])
  <1> DEFINE links == Departments[site]
             I == {i \in DOMAIN links : /\ links[i] \notin MainSites
                                        /\ \A j \in 1..i - 1 : links[j] # links[i]}
             sites == DepartmentSites(site)
             J == {i \in DOMAIN sites : sites[i] \notin named}
             new == Sublist(sites, J)
             q == DepartmentQueue(site)
  <1>1. IsList(links) /\ Range(links) \subseteq Site
    BY DiscoveryAssumption, ListOf
  <1>2. sites = Sublist(links, I)
    BY DEF DepartmentSites
  <1>3. I \in SUBSET DOMAIN links
    OBVIOUS
  <1> HIDE DEF links, I
  <1>4. IsList(sites) /\ Range(sites) = {links[i] : i \in I}
    BY <1>1, <1>2, <1>3, SublistFacts
  <1>5. \A i \in I : links[i] \in Site
    BY <1>1, <1>3, ListFacts
  <1>6. Range(sites) \subseteq Site
    BY <1>4, <1>5
  <1>7. q = [i \in DOMAIN new |-> [site |-> new[i], department |-> TRUE]]
    BY DEF DepartmentQueue
  <1>8. J \in SUBSET DOMAIN sites
    OBVIOUS
  <1> HIDE DEF J, sites, q
  <1>9. /\ Len(new) \in Nat /\ DOMAIN new = 1..Len(new)
        /\ Range(new) = {sites[i] : i \in J}
        /\ IsList(new)
    BY <1>4, <1>8, SublistFacts
  <1>10. \A i \in DOMAIN new : new[i] \in Site
    <2>1. \A i \in J : sites[i] \in Site
      BY <1>4, <1>6, <1>8, ListFacts
    <2> QED
      BY <1>9, <2>1, ListFacts
  <1> HIDE DEF new
  <1>11. q \in [1..Len(new) -> [site : Site, department : BOOLEAN]]
    BY <1>7, <1>9, <1>10
  <1>12. q \in Seq([site : Site, department : BOOLEAN])
    BY <1>9, <1>11, SequenceOf
  <1> QED
    BY <1>12 DEF q

LEMMA FetchSiteStep ==
    ASSUME DiscoveryKeeps, FetchSite
    PROVE  DiscoveryKeeps'
  <1> DEFINE next == Head(queue)
             menu == MenuTargets(next.site, next.department)
             all == targets \o menu
  <1>1. stage = "sites" /\ queue # <<>> /\ stage' = "sites" /\ limit' = limit
    BY DEF FetchSite
  <1>2. DiscoveryTyped /\ QueueTyped /\ Collected
    BY <1>1 DEF DiscoveryKeeps
  <1>3. /\ next.site \in Site
        /\ Tail(queue) \in Seq([site : Site, department : BOOLEAN])
    <2> DEFINE Entry == [site : Site, department : BOOLEAN]
    <2>1. queue \in Seq(Entry)
      BY <1>2 DEF QueueTyped
    <2>2. \A x \in Entry : x.site \in Site
      OBVIOUS
    <2> HIDE DEF Entry
    <2>3. Head(queue) \in Entry /\ Tail(queue) \in Seq(Entry)
      BY <1>1, <2>1, HeadTailProperties
    <2> QED
      BY <2>2, <2>3 DEF Entry
  <1>4. PICK out \in Answers({next.site}) :
          /\ Noted(out)
          /\ IF out[next.site] = "content"
             THEN /\ targets' = Limited(Dedupe(all))
                  /\ queue' = DepartmentQueue(next.site) \o Tail(queue)
             ELSE /\ queue' = Tail(queue)
                  /\ UNCHANGED targets
    BY DEF FetchSite
  <1> HIDE DEF next
  <1>5. /\ DiscoveryTyped' /\ answers'[next.site] = out[next.site]
        /\ \A s \in Site \ {next.site} : answers'[s] = answers[s]
    BY <1>1, <1>2, <1>3, <1>4, NotedFacts
  <1>6. QueueTyped'
    BY <1>3, <1>4, DepartmentQueueTyped, ConcatProperties DEF QueueTyped
  <1>7. CASE out[next.site] # "content"
    <2>1. targets' = targets
      BY <1>4, <1>7
    <2>2. \A s \in Site : answers'[s] = "content" => answers[s] = "content"
      BY <1>5, <1>7
    <2>3. Collected'
      BY <1>1, <1>2, <2>1, <2>2 DEF Collected, Urls
    <2> QED
      BY <1>1, <1>5, <1>6, <2>3 DEF DiscoveryKeeps
  <1>8. CASE out[next.site] = "content"
    <2>1. /\ IsList(menu) /\ \A t \in Range(menu) : FromMenu(t)
          /\ \A e \in Range(Menu[next.site]) : e.url \in Urls(menu)
      BY <1>3, MenuTargetsFacts
    <2> HIDE DEF menu
    <2>2. IsList(all) /\ Range(all) = Range(targets) \cup Range(menu)
      BY <1>2, <2>1, JoinedLists DEF Collected
    <2> HIDE DEF all
    <2>3. /\ IsList(Dedupe(all)) /\ Range(Dedupe(all)) \subseteq Range(all)
          /\ Urls(Dedupe(all)) = Urls(all)
      BY <2>2, DedupeFacts
    <2>4. limit \in Nat
      BY <1>2 DEF DiscoveryTyped
    <2>5. /\ IsList(targets') /\ Range(targets') \subseteq Range(Dedupe(all))
          /\ limit = 0 => targets' = Dedupe(all)
      BY <1>4, <1>8, <2>3, <2>4, LimitedFacts
    <2>6. \A t \in Range(targets') : FromMenu(t)
      BY <1>2, <2>1, <2>2, <2>3, <2>5 DEF Collected
    <2>7. ASSUME limit = 0, NEW s \in Site, answers'[s] = "content", NEW e \in Range(Menu[s])
          PROVE  e.url \in Urls(targets')
      <3>1. e.url \in Urls(targets) \/ e.url \in Urls(menu)
        BY <1>2, <1>5, <2>1, <2>7 DEF Collected
      <3>2. e.url \in Urls(all)
        BY <2>2, <3>1 DEF Urls
      <3> QED
        BY <2>3, <2>5, <2>7, <3>2
    <2>8. Collected'
      BY <1>1, <2>5, <2>6, <2>7 DEF Collected, Urls
    <2> QED
      BY <1>1, <1>5, <1>6, <2>8 DEF DiscoveryKeeps
  <1> QED
    BY <1>7, <1>8

LEMMA SkipDepartmentsStep ==
    ASSUME DiscoveryKeeps, SkipDepartments
    PROVE  DiscoveryKeeps'
  <1> DEFINE I == {i \in DOMAIN queue : ~queue[i].department}
             Entry == [site : Site, department : BOOLEAN]
  <1>1. /\ stage = "sites" /\ queue' = Sublist(queue, I)
        /\ UNCHANGED <<stage, limit, targets, verified, failures, answers>>
    BY DEF SkipDepartments
  <1>2. DiscoveryTyped /\ queue \in Seq(Entry) /\ Collected
    BY <1>1 DEF DiscoveryKeeps, QueueTyped
  <1>3. IsList(queue) /\ I \in SUBSET DOMAIN queue
    BY <1>2, ListOf
  <1>4. \A i \in I : queue[i] \in Entry
    <2> HIDE DEF Entry
    <2> QED
      BY <1>2
  <1> HIDE DEF I, Entry
  <1>5. IsList(queue') /\ Range(queue') = {queue[i] : i \in I}
    BY <1>1, <1>3, SublistFacts
  <1>6. queue' \in Seq(Entry)
    <2>1. Range(queue') \subseteq Entry
      BY <1>4, <1>5
    <2>2. queue' \in Seq(Range(queue'))
      BY <1>5 DEF IsList
    <2>3. \A i \in 1..Len(queue') : queue'[i] \in Range(queue')
      BY <2>2
    <2> QED
      BY <2>1, <2>2, SeqDef
  <1>7. DiscoveryTyped' /\ Collected'
    BY <1>1, <1>2 DEF DiscoveryTyped, Collected, Urls
  <1> QED
    BY <1>1, <1>6, <1>7 DEF DiscoveryKeeps, QueueTyped, Entry

LEMMA ExpandParentsStep ==
    ASSUME DiscoveryKeeps, ExpandParents
    PROVE  DiscoveryKeeps'
  <1>1. /\ stage = "sites" /\ stage' = "retry"
        /\ UNCHANGED <<limit, targets, verified, failures>>
    BY DEF ExpandParents
  <1>2. DiscoveryTyped /\ Collected
    BY <1>1 DEF DiscoveryKeeps
  <1>3. PICK out \in Answers(Urls(targets)) : Noted(out)
    BY DEF ExpandParents, Urls
  <1>4. Urls(targets) \subseteq Url
    BY <1>2 DEF Collected, FromMenu, Urls
  <1>5. Urls(targets) \subseteq Page \cup Site /\ \A s \in Site : s \notin Urls(targets)
    BY <1>4, SitesAreNoPages
  <1>6. /\ DiscoveryTyped'
        /\ \A x \in Urls(targets) : answers'[x] \in Answer
        /\ \A s \in Site : answers'[s] = answers[s]
    BY <1>1, <1>2, <1>3, <1>5, NotedFacts
  <1>7. Collected'
    BY <1>1, <1>2, <1>6 DEF Collected, Urls
  <1>8. \A t \in Range(targets) : t.url \in Urls(targets)
    BY DEF Urls
  <1> QED
    BY <1>1, <1>6, <1>7, <1>8 DEF DiscoveryKeeps

\* After both passes a page is verified, came empty or is reported, and the
\* posts of a page that brought an article are in the list.
LEMMA RetryParentsStep ==
    ASSUME DiscoveryKeeps, RetryParents
    PROVE  DiscoveryKeeps'
  <1> DEFINE failed == {t.url : t \in {p \in Range(targets) : answers[p.url] = "fails"}}
  <1>1. /\ stage = "retry" /\ stage' = "validate" /\ limit' = limit
    BY DEF RetryParents
  <1>2. /\ DiscoveryTyped /\ Collected /\ limit \in Nat
        /\ \A t \in Range(targets) : answers[t.url] \in Answer
    BY <1>1 DEF DiscoveryKeeps, DiscoveryTyped
  <1>3. PICK again \in Answers(failed) :
          /\ Noted(again)
          /\ failures' = failures \cup Failed(again)
          /\ verified' = Verified(again)
          /\ targets' = Limited(Dedupe(Ordered(again)))
    BY DEF RetryParents
  <1>4. \A t \in Range(targets) : FromMenu(t) /\ t.url \in Url
    BY <1>2 DEF Collected, FromMenu
  <1>5. failed \subseteq Url
    BY <1>4
  <1>6. DOMAIN again = failed
    BY <1>3 DEF Answers
  <1>7. \A t \in Range(targets) : t.url \in failed <=> answers[t.url] = "fails"
    OBVIOUS
  <1>8. verified' = {t.url : t \in {p \in Range(targets) : answers[p.url] # "fails"}}
                      \cup {u \in failed : again[u] = "content"}
    BY <1>3, <1>6 DEF Verified
  <1>9. \A u \in failed : u \in Urls(targets)
    BY DEF Urls
  <1> HIDE DEF failed
  <1>10. failed \subseteq Page \cup Site /\ \A s \in Site : s \notin failed
    BY <1>5, SitesAreNoPages
  <1>11. /\ DiscoveryTyped'
         /\ \A u \in failed : /\ answers'[u] = again[u] /\ again[u] \in Answer
                              /\ again[u] = "fails" => u \in failures'
         /\ \A x \in (Page \cup Site) \ failed : answers'[x] = answers[x]
    BY <1>1, <1>2, <1>3, <1>10, NotedFacts
  <1>12. \A s \in Site : answers'[s] = answers[s]
    BY <1>10, <1>11
  <1>13. \A t \in Range(targets) : t.url \notin failed => answers'[t.url] = answers[t.url]
    BY <1>4, <1>11 DEF Page
  \* What a page brought.
  <1>14. ASSUME NEW t \in Range(targets), answers'[t.url] = "content"
         PROVE  Brought(t, again) = Expansion(t)
    <2>1. CASE t.url \in failed
      BY <1>6, <1>11, <1>14, <2>1 DEF Brought
    <2>2. CASE t.url \notin failed
      BY <1>13, <1>14, <2>2 DEF Brought
    <2> QED
      BY <2>1, <2>2
  <1>15. ASSUME NEW t \in Range(targets), answers'[t.url] # "content"
         PROVE  Brought(t, again) = <<>>
    <2>1. CASE t.url \in failed
      <3>1. answers[t.url] = "fails" /\ again[t.url] # "content"
        BY <1>7, <1>11, <1>15, <2>1
      <3> QED
        BY <3>1 DEF Brought
    <2>2. CASE t.url \notin failed
      BY <1>6, <1>13, <1>15, <2>2 DEF Brought
    <2> QED
      BY <2>1, <2>2
  <1>16. ASSUME NEW t \in Range(targets)
         PROVE  IsList(Brought(t, again))
    <2>1. IsList(<<>>)
      BY DEF IsList
    <2> QED
      BY <1>4, <1>14, <1>15, <2>1, ExpansionFacts
  <1>17. ASSUME NEW t \in Range(targets), NEW x \in Range(Brought(t, again))
         PROVE  answers'[t.url] = "content" /\ x \in Range(Expansion(t))
    <2>1. Range(<<>>) = {}
      BY DEF Range
    <2> QED
      BY <1>14, <1>15, <1>17, <2>1
  <1>18. /\ IsList(Ordered(again))
         /\ \A x \in Range(Ordered(again)) :
              \E t \in Range(targets) : x \in Range(Brought(t, again))
         /\ limit = 0 =>
              \A t \in Range(targets) : Range(Brought(t, again)) \subseteq Range(Ordered(again))
    BY <1>2, <1>16, OrderedFacts DEF Collected
  <1> DEFINE list == Ordered(again)
  <1> HIDE DEF list
  <1>19. /\ IsList(Dedupe(list)) /\ Distinct(Dedupe(list))
         /\ Range(Dedupe(list)) \subseteq Range(list) /\ Urls(Dedupe(list)) = Urls(list)
    BY <1>18, DedupeFacts DEF list
  <1>20. /\ IsList(targets') /\ Range(targets') \subseteq Range(list) /\ Distinct(targets')
         /\ limit = 0 => Urls(targets') = Urls(list)
    <2>1. targets' = Limited(Dedupe(list))
      BY <1>3 DEF list
    <2> QED
      BY <1>2, <1>19, <2>1, LimitedFacts
  <1>21. ASSUME NEW x \in Range(targets')
         PROVE  \E t \in Range(targets) :
                  /\ answers'[t.url] = "content"
                  /\ x = t \/ (x.url \in Url /\ \E label : x.menu = Append(t.menu, label))
    <2>1. PICK t \in Range(targets) : x \in Range(Brought(t, again))
      BY <1>18, <1>20 DEF list
    <2>2. answers'[t.url] = "content" /\ x \in Range(Expansion(t))
      BY <1>17, <2>1
    <2> QED
      BY <1>4, <2>2, ExpansionFacts
  <1>22. PagesOnce' /\ verified' \subseteq Url
    <2>1. \A x \in Range(targets') : x.url \in Url
      BY <1>4, <1>21
    <2>2. verified' \subseteq Url
      BY <1>4, <1>5, <1>8
    <2> QED
      BY <1>20, <2>1, <2>2 DEF PagesOnce, Distinct
  \* A verified page answered, and if it came empty it is another's post.
  <1>23. ASSUME NEW u \in verified'
         PROVE  /\ answers'[u] \in {"content", "empty"} /\ OnAMenu(u)
    <2>1. CASE u \in failed /\ again[u] = "content"
      <3>1. answers'[u] = "content"
        BY <1>11, <2>1
      <3>2. PICK t \in Range(targets) : t.url = u
        BY <1>9, <2>1 DEF Urls
      <3> QED
        BY <1>4, <3>1, <3>2 DEF FromMenu
    <2>2. ASSUME NEW t \in Range(targets), answers[t.url] # "fails", u = t.url
          PROVE  /\ answers'[u] \in {"content", "empty"} /\ OnAMenu(u)
      <3>1. answers'[u] = answers[u]
        BY <1>7, <1>13, <2>2
      <3>2. answers[u] \in {"content", "empty"}
        BY <1>2, <2>2 DEF Answer
      <3> QED
        BY <1>4, <2>2, <3>1, <3>2 DEF FromMenu
    <2> QED
      BY <1>8, <1>23, <2>1, <2>2
  <1>24. ASSUME NEW x \in Range(targets'), x.url \in verified'
         PROVE  Answered(x)'
    <2>1. PICK t \in Range(targets) :
            /\ answers'[t.url] = "content"
            /\ x = t \/ \E label : x.menu = Append(t.menu, label)
      BY <1>21
    <2>2. CASE x = t
      BY <2>1, <2>2 DEF Answered
    <2>3. CASE \E label : x.menu = Append(t.menu, label)
      <3>1. PICK label : t.menu = <<label>>
        BY <1>4 DEF FromMenu
      <3>2. PICK post : x.menu = Append(<<label>>, post)
        BY <2>3, <3>1
      <3>3. Len(x.menu) > 1
        BY <3>2
      <3> QED
        BY <1>23, <1>24, <3>3 DEF Answered, OnAMenu
    <2> QED
      BY <2>1, <2>2, <2>3
  \* Without a limit every page the menus named is spoken of.
  <1>25. ASSUME limit = 0
         PROVE  Accounted'
    <2>1. ASSUME NEW t \in Range(targets), NEW x \in Range(Expansion(t)),
                 answers'[t.url] = "content"
          PROVE  x.url \in Urls(targets')
      <3>1. x \in Range(list)
        BY <1>14, <1>18, <1>25, <2>1 DEF list
      <3> QED
        BY <1>20, <1>25, <3>1 DEF Urls
    <2>2. ASSUME NEW u \in Parents'
          PROVE  \E t \in Range(targets) : t.url = u
      <3>1. PICK s \in Site : answers'[s] = "content" /\ \E e \in Range(Menu[s]) : e.url = u
        BY <2>2 DEF Parents
      <3>2. u \in Urls(targets)
        BY <1>2, <1>12, <1>25, <3>1 DEF Collected
      <3> QED
        BY <3>2 DEF Urls
    <2>3. ASSUME NEW u \in Parents'
          PROVE  Spoken(u)'
      <3>1. PICK t \in Range(targets) : t.url = u
        BY <2>2
      <3>2. CASE answers'[u] = "content"
        <4>1. t \in Range(Expansion(t))
          BY <1>4, ExpansionFacts
        <4> QED
          BY <2>1, <3>1, <3>2, <4>1 DEF Spoken, Urls
      <3>3. CASE u \in failed /\ answers'[u] # "content"
        <4>1. again[u] \in {"empty", "fails"}
          BY <1>11, <3>3 DEF Answer
        <4> QED
          BY <1>11, <3>3, <4>1 DEF Spoken
      <3>4. CASE u \notin failed /\ answers'[u] # "content"
        <4>1. answers'[u] = answers[u] /\ answers[u] # "fails" /\ answers[u] \in Answer
          BY <1>2, <1>7, <1>13, <3>1, <3>4
        <4> QED
          BY <3>4, <4>1 DEF Spoken, Answer
      <3> QED
        BY <3>2, <3>3, <3>4
    <2>4. ASSUME NEW q \in Parents', answers'[q] = "content", NEW e \in Range(Posts[q])
          PROVE  Spoken(e.url)'
      <3>1. PICK t \in Range(targets) : t.url = q
        BY <2>2
      <3>2. e.url \in Urls(Expansion(t))
        BY <1>4, <3>1, ExpansionFacts
      <3>3. PICK x \in Range(Expansion(t)) : x.url = e.url
        BY <3>2 DEF Urls
      <3>4. e.url \in Urls(targets')
        BY <2>1, <2>4, <3>1, <3>3
      <3> QED
        BY <3>4 DEF Spoken, Urls
    <2> QED
      BY <2>3, <2>4 DEF Accounted
  <1>26. \A x \in Range(targets') : x.url \in verified' => Answered(x)'
    BY <1>24
  <1> QED
    BY <1>1, <1>11, <1>22, <1>25, <1>26 DEF DiscoveryKeeps

\* The last validation asks only the pages that nothing verified.
LEMMA ValidateTargetsStep ==
    ASSUME DiscoveryKeeps, ValidateTargets
    PROVE  DiscoveryKeeps'
  <1> DEFINE asked == Urls(targets) \ verified
  <1>1. stage = "validate" /\ stage' = "pdf" /\ UNCHANGED <<limit, verified>>
    BY DEF ValidateTargets
  <1>2. /\ DiscoveryTyped /\ PagesOnce /\ verified \subseteq Url
        /\ \A t \in Range(targets) : t.url \in verified => Answered(t)
        /\ limit = 0 => Accounted
    BY <1>1 DEF DiscoveryKeeps
  <1>3. PICK out \in Answers(asked) :
          /\ Noted(out)
          /\ failures' = failures \cup Failed(out)
          /\ targets' = Sublist(targets, {i \in DOMAIN targets :
                                            \/ targets[i].url \in verified
                                            \/ out[targets[i].url] = "content"})
    BY DEF ValidateTargets, Urls
  <1>4. asked \subseteq Url
    BY <1>2 DEF PagesOnce, Urls
  <1>5. asked \subseteq Page \cup Site /\ \A s \in Site : s \notin asked
    BY <1>4, SitesAreNoPages
  <1>6. \A t \in Range(targets) : t.url \in asked <=> t.url \notin verified
    BY DEF Urls
  <1>7. \A u \in verified : u \notin asked
    OBVIOUS
  <1>8. \A u \in Urls(targets) : u \in asked \/ u \in verified
    OBVIOUS
  <1> HIDE DEF asked
  <1>9. /\ DiscoveryTyped'
        /\ \A u \in asked : /\ answers'[u] = out[u] /\ out[u] \in Answer
                            /\ out[u] = "fails" => u \in failures'
        /\ \A x \in (Page \cup Site) \ asked : answers'[x] = answers[x]
    BY <1>1, <1>2, <1>3, <1>5, NotedFacts
  <1>10. /\ \A s \in Site : answers'[s] = answers[s]
         /\ \A u \in Url : u \notin asked => answers'[u] = answers[u]
    BY <1>5, <1>9 DEF Page
  <1> DEFINE I == {i \in DOMAIN targets : \/ targets[i].url \in verified
                                          \/ out[targets[i].url] = "content"}
  <1>11. I \in SUBSET DOMAIN targets /\ IsList(targets)
    BY <1>2 DEF PagesOnce
  <1>12. /\ IsList(targets') /\ Range(targets') = {targets[i] : i \in I}
    BY <1>3, <1>11, SublistFacts
  <1>13. Distinct(targets')
    <2>1. \A i, j \in I : targets[i].url = targets[j].url => i = j
      BY <1>2 DEF PagesOnce, Distinct
    <2> QED
      BY <1>3, <1>11, <2>1, SublistIsDistinct
  <1>14. \A x \in Range(targets') :
           x \in Range(targets) /\ (x.url \in verified \/ out[x.url] = "content")
    BY <1>11, <1>12, ListFacts
  <1>15. \A x \in Range(targets) :
           x.url \in verified \/ out[x.url] = "content" => x \in Range(targets')
    BY <1>12 DEF Range
  <1> HIDE DEF I
  <1>16. ASSUME NEW x \in Range(targets')
         PROVE  x.url \in Url /\ Answered(x)'
    <2>1. x.url \in Url
      BY <1>2, <1>14 DEF PagesOnce
    <2>2. CASE x.url \in verified
      <3>1. Answered(x) /\ answers'[x.url] = answers[x.url]
        BY <1>2, <1>7, <1>10, <1>14, <2>1, <2>2
      <3> QED
        BY <2>1, <3>1 DEF Answered, OnAMenu
    <2>3. CASE x.url \notin verified
      <3>1. answers'[x.url] = "content"
        BY <1>6, <1>9, <1>14, <2>3
      <3> QED
        BY <2>1, <3>1 DEF Answered
    <2> QED
      BY <2>2, <2>3
  <1>17. ASSUME NEW u \in Url, Spoken(u)
         PROVE  Spoken(u)'
    <2>1. CASE u \in asked
      <3>1. CASE out[u] = "content"
        <4>1. PICK t \in Range(targets) : t.url = u
          BY <2>1 DEF asked, Urls
        <4> QED
          BY <1>15, <3>1, <4>1 DEF Spoken, Urls
      <3>2. CASE out[u] # "content"
        BY <1>9, <2>1, <3>2 DEF Spoken, Answer
      <3> QED
        BY <3>1, <3>2
    <2>2. CASE u \notin asked
      <3>1. answers'[u] = answers[u]
        BY <1>10, <2>2
      <3>2. CASE u \in Urls(targets)
        <4>1. PICK t \in Range(targets) : t.url = u
          BY <3>2 DEF Urls
        <4>2. u \in verified
          BY <1>8, <2>2, <3>2
        <4> QED
          BY <1>15, <4>1, <4>2 DEF Spoken, Urls
      <3>3. CASE u \notin Urls(targets)
        BY <1>3, <1>17, <3>1, <3>3 DEF Spoken
      <3> QED
        BY <3>2, <3>3
    <2> QED
      BY <2>1, <2>2
  <1>18. ASSUME limit = 0
         PROVE  Accounted'
    <2>1. Parents' = Parents
      BY <1>10 DEF Parents
    <2>2. Parents \subseteq Url
      BY DEF Parents
    <2>3. \A q \in Parents \cap verified : answers'[q] = answers[q]
      BY <1>7, <1>10, <2>2
    <2>4. \A q \in Url : \A e \in Range(Posts[q]) : e.url \in Url
      BY DiscoveryAssumption
    <2>5. \A u \in Parents' : Spoken(u)'
      BY <1>2, <1>17, <1>18, <2>1, <2>2 DEF Accounted
    <2>6. ASSUME NEW q \in Parents \cap verified, answers'[q] = "content",
                 NEW e \in Range(Posts[q])
          PROVE  Spoken(e.url)'
      <3>1. e.url \in Url /\ Spoken(e.url)
        BY <1>2, <1>18, <2>2, <2>3, <2>4, <2>6 DEF Accounted
      <3> QED
        BY <1>17, <3>1
    <2> QED
      BY <1>1, <2>1, <2>5, <2>6 DEF Accounted
  <1>19. PagesOnce' /\ \A x \in Range(targets') : Answered(x)'
    BY <1>12, <1>13, <1>16 DEF PagesOnce, Distinct
  <1> QED
    BY <1>1, <1>2, <1>9, <1>18, <1>19 DEF DiscoveryKeeps

\* What a round is handed, from what the pages and their PDFs come to.
LEMMA FoundFromPages ==
    ASSUME NEW all, IsList(all), Distinct(all),
           \A x \in Range(all) : (x.url \in Url /\ Answered(x)) \/ x.url \in Range(Pdfs),
           limit \in Nat, targets' = Limited(all), UNCHANGED <<limit, answers, verified, failures>>,
           limit = 0 => Accounted /\ Range(targets) \subseteq Range(all)
    PROVE  TargetsAreSound' /\ NothingListedIsLost'
  <1>1. /\ IsList(targets') /\ Range(targets') \subseteq Range(all) /\ Distinct(targets')
        /\ limit > 0 => Len(targets') <= limit
        /\ limit = 0 => targets' = all
    BY LimitedFacts
  <1>2. OneTargetPerPage'
    BY <1>1, DistinctCount DEF OneTargetPerPage
  <1>3. TargetsAnswered'
    BY <1>1 DEF TargetsAnswered, Answered, OnAMenu
  <1>4. ASSUME limit = 0
        PROVE  NothingListedIsLost'
    <2>1. \A s \in Site : \A e \in Range(Menu[s]) : e.url \in Url
      BY DiscoveryAssumption
    <2>2. ASSUME NEW s \in Site, answers[s] = "content", NEW e \in Range(Menu[s])
          PROVE  e.url \in Parents
      BY <2>1, <2>2 DEF Parents
    <2>3. Urls(targets) \subseteq {t.url : t \in Range(targets')}
      BY <1>1, <1>4 DEF Urls
    <2>4. \A u : Spoken(u) => \/ u \in {t.url : t \in Range(targets')} \cup failures
                              \/ answers[u] = "empty"
      BY <2>3 DEF Spoken
    <2>5. ASSUME NEW s \in Site, answers[s] = "content", NEW e \in Range(Menu[s])
          PROVE  Spoken(e.url)
      BY <1>4, <2>2, <2>5 DEF Accounted
    <2>6. ASSUME NEW s \in Site, answers[s] = "content", NEW e \in Range(Menu[s]),
                 e.url \in verified, answers[e.url] = "content",
                 NEW post \in Range(Posts[e.url])
          PROVE  Spoken(post.url)
      BY <1>4, <2>2, <2>6 DEF Accounted
    <2> QED
      BY <2>4, <2>5, <2>6 DEF NothingListedIsLost
  <1>5. limit # 0 => NothingListedIsLost'
    BY DEF NothingListedIsLost
  <1> QED
    BY <1>2, <1>3, <1>4, <1>5 DEF TargetsAreSound

LEMMA FetchPdfsStep ==
    ASSUME DiscoveryKeeps, FetchPdfs
    PROVE  DiscoveryKeeps'
  <1> DEFINE pdfs == [i \in DOMAIN Pdfs |-> PdfTarget(Pdfs[i])]
             all == targets \o pdfs
  <1>1. stage = "pdf" /\ UNCHANGED <<limit, verified, failures, answers>>
    BY DEF FetchPdfs
  <1>2. /\ DiscoveryTyped /\ limit \in Nat /\ IsList(targets) /\ Distinct(targets)
        /\ \A t \in Range(targets) : t.url \in Url /\ Answered(t)
        /\ limit = 0 => Accounted
    BY <1>1 DEF DiscoveryKeeps, DiscoveryTyped, PagesOnce
  <1>3. PICK out \in Answers({NoSite}) :
          /\ targets' = CASE out[NoSite] = "content" -> Limited(all)
                          [] out[NoSite] = "empty" -> Limited(targets)
                          [] out[NoSite] = "fails" -> <<>>
          /\ stage' = IF out[NoSite] = "fails" THEN "idle" ELSE "found"
    BY DEF FetchPdfs
  <1>4. out[NoSite] \in {"content", "empty", "fails"}
    BY <1>3 DEF Answers, Answer
  <1>5. DiscoveryTyped'
    BY <1>1, <1>2 DEF DiscoveryTyped
  <1>6. /\ IsList(Pdfs) /\ Len(Pdfs) \in Nat /\ DOMAIN Pdfs = 1..Len(Pdfs)
        /\ Range(Pdfs) \cap Url = {}
        /\ \A i, j \in DOMAIN Pdfs : Pdfs[i] = Pdfs[j] => i = j
    BY DiscoveryAssumption, PdfAssumption, ListFacts DEF IsInjective
  <1>7. /\ DOMAIN pdfs = 1..Len(Pdfs) /\ pdfs = [i \in 1..Len(Pdfs) |-> pdfs[i]]
        /\ \A i \in DOMAIN Pdfs : pdfs[i].url = Pdfs[i] /\ Pdfs[i] \in Range(Pdfs)
    BY <1>6 DEF PdfTarget, Target, Range
  <1> HIDE DEF pdfs
  <1>8. IsList(pdfs) /\ Len(pdfs) = Len(Pdfs)
    BY <1>6, <1>7, ListByPlaces
  <1>9. \A x \in Range(pdfs) : x.url \in Range(Pdfs)
    BY <1>6, <1>7 DEF Range
  <1>10. /\ IsList(all) /\ Range(all) = Range(targets) \cup Range(pdfs)
         /\ Len(all) = Len(targets) + Len(pdfs)
         /\ \A i \in 1..Len(targets) : all[i] = targets[i]
         /\ \A i \in 1..Len(pdfs) : all[Len(targets) + i] = pdfs[i]
    BY <1>2, <1>8, JoinedLists
  <1> HIDE DEF all
  <1>11. Distinct(all)
    <2>1. /\ Len(targets) \in Nat /\ DOMAIN targets = 1..Len(targets)
          /\ \A i \in 1..Len(targets) : targets[i].url \in Url
          /\ DOMAIN all = 1..Len(targets) + Len(pdfs)
      BY <1>2, <1>10, ListFacts
    <2> DEFINE L == Len(targets)
               P == Len(pdfs)
    <2>2. L \in Nat /\ P \in Nat
      BY <1>6, <1>8, <2>1
    <2>3. \A i \in 1..L : all[i].url = targets[i].url /\ all[i].url \in Url
      BY <1>10, <2>1
    <2>4. \A i \in 1..P : all[L + i].url = Pdfs[i] /\ Pdfs[i] \in Range(Pdfs)
      BY <1>6, <1>7, <1>8, <1>10
    <2>5. \A i \in DOMAIN all : i \in 1..L \/ (i - L \in 1..P /\ i = L + (i - L))
      BY <2>1, <2>2
    <2> HIDE DEF L, P
    <2>6. ASSUME NEW i \in DOMAIN all, NEW j \in DOMAIN all, all[i].url = all[j].url
          PROVE  i = j
      <3>1. CASE i \in 1..L /\ j \in 1..L
        BY <1>2, <2>1, <2>3, <2>6, <3>1 DEF Distinct, L
      <3>2. CASE i \in 1..L /\ j \notin 1..L
        <4>1. all[i].url \in Url /\ all[j].url \in Range(Pdfs)
          BY <2>3, <2>4, <2>5, <3>2
        <4> QED
          BY <1>6, <2>6, <4>1
      <3>3. CASE i \notin 1..L /\ j \in 1..L
        <4>1. all[j].url \in Url /\ all[i].url \in Range(Pdfs)
          BY <2>3, <2>4, <2>5, <3>3
        <4> QED
          BY <1>6, <2>6, <4>1
      <3>4. CASE i \notin 1..L /\ j \notin 1..L
        <4>1. /\ i - L \in DOMAIN Pdfs /\ j - L \in DOMAIN Pdfs
              /\ Pdfs[i - L] = Pdfs[j - L]
          BY <1>6, <1>8, <2>4, <2>5, <2>6, <3>4 DEF P
        <4>2. i - L = j - L
          BY <1>6, <4>1
        <4>3. i \in Int /\ j \in Int
          BY <2>1
        <4> QED
          BY <2>2, <4>2, <4>3
      <3> QED
        BY <3>1, <3>2, <3>3, <3>4
    <2> QED
      BY <2>6 DEF Distinct
  <1>12. CASE out[NoSite] = "content"
    <2>1. targets' = Limited(all) /\ stage' = "found"
      BY <1>3, <1>12
    <2>2. TargetsAreSound' /\ NothingListedIsLost'
      BY <1>1, <1>2, <1>9, <1>10, <1>11, <2>1, FoundFromPages
    <2> QED
      BY <1>5, <2>1, <2>2 DEF DiscoveryKeeps
  <1>13. CASE out[NoSite] = "empty"
    <2>1. targets' = Limited(targets) /\ stage' = "found"
      BY <1>3, <1>13
    <2>2. TargetsAreSound' /\ NothingListedIsLost'
      BY <1>1, <1>2, <2>1, FoundFromPages
    <2> QED
      BY <1>5, <2>1, <2>2 DEF DiscoveryKeeps
  <1>14. CASE out[NoSite] = "fails"
    <2>1. stage' = "idle"
      BY <1>3, <1>14
    <2> QED
      BY <1>5, <2>1 DEF DiscoveryKeeps
  <1> QED
    BY <1>4, <1>12, <1>13, <1>14

\* No other step of a round, and none of a refresh, is taken inside discovery.
LEMMA OutsideStep ==
    ASSUME DiscoveryKeeps, UNCHANGED <<limit, answers>>,
           stage' \in {"idle", "handle"} \cup Writing
    PROVE  DiscoveryKeeps'
  BY DEF DiscoveryKeeps, DiscoveryTyped, Writing

LEMMA DiscoveryStart == Init => DiscoveryKeeps
  <1> SUFFICES ASSUME Init
               PROVE  DiscoveryKeeps
    OBVIOUS
  <1>1. /\ stage = "idle" /\ limit \in Limits
        /\ answers = [x \in Page \cup Site |-> "none"]
    BY DEF Init, DiscoveryInit
  <1>2. limit \in Nat
    BY <1>1, DiscoveryAssumption
  <1> QED
    BY <1>1, <1>2 DEF DiscoveryKeeps, DiscoveryTyped

LEMMA DiscoveryStep == DiscoveryKeeps /\ [Next]_vars => DiscoveryKeeps'
  <1> SUFFICES ASSUME DiscoveryKeeps, [Next]_vars
               PROVE  DiscoveryKeeps'
    OBVIOUS
  <1>1. CASE Discover
    BY <1>1, StartDiscoveryStep, FetchSiteStep, SkipDepartmentsStep, ExpandParentsStep,
       RetryParentsStep, ValidateTargetsStep, FetchPdfsStep DEF Discover, DiscoveryNext
  <1>2. CASE BeginHandling
    <2>1. /\ stage' = "handle" /\ limit' = limit
          /\ answers' = [x \in DOMAIN answers |-> "none"]
      BY <1>2 DEF BeginHandling
    <2>2. DOMAIN answers = Page \cup Site
      BY DEF DiscoveryKeeps, DiscoveryTyped
    <2>3. DiscoveryTyped'
      BY <2>1, <2>2 DEF DiscoveryKeeps, DiscoveryTyped
    <2> QED
      BY <2>1, <2>3 DEF DiscoveryKeeps
  <1>3. ASSUME NEW outcome \in {"same", "edited", "failed"}, Handle(outcome)
        PROVE  DiscoveryKeeps'
    BY <1>3, OutsideStep DEF Handle
  <1>4. CASE SelectPending \/ UpsertVectors \/ MarkIndexed \/ Prune \/ ReadRows \/ WriteIndex
    <2>1. ASSUME NEW from, NEW to \in {"idle", "handle"} \cup Writing, RoundStep(from, to)
          PROVE  DiscoveryKeeps'
      BY <2>1, OutsideStep DEF RoundStep
    <2> QED
      BY <1>4, <2>1
         DEF SelectPending, UpsertVectors, MarkIndexed, Prune, ReadRows, WriteIndex, Writing
  <1>5. CASE RoundDies
    BY <1>5, OutsideStep DEF RoundDies
  <1>6. ASSUME NEW from, NEW next, RefreshStep(from, next)
        PROVE  DiscoveryKeeps'
    BY <1>6, OutsideStep DEF RefreshStep, OutsideDiscovery, Writing
  <1>7. ASSUME NEW options \in Options, Plan(options)
        PROVE  DiscoveryKeeps'
    BY <1>6, <1>7 DEF Plan
  <1>8. ASSUME NEW works \in BOOLEAN, UpdateVectors(works)
        PROVE  DiscoveryKeeps'
    BY <1>6, <1>8 DEF UpdateVectors
  <1>9. CASE UpdateDocuments \/ ReadChunks \/ SkipFiles \/ ClearFiles \/ RefreshReadsRows
             \/ RefreshWritesIndex \/ RefreshDies
    BY <1>6, <1>9 DEF UpdateDocuments, ReadChunks, SkipFiles, ClearFiles, RefreshReadsRows,
                      RefreshWritesIndex, RefreshDies
  <1>10. CASE UNCHANGED vars
    <2>1. UNCHANGED <<stage, limit, queue, targets, verified, failures, answers>>
      BY <1>10 DEF vars, discovery
    <2>2. DiscoveryTyped' <=> DiscoveryTyped
      BY <2>1 DEF DiscoveryTyped
    <2>3. (Collected' <=> Collected) /\ (QueueTyped' <=> QueueTyped)
      BY <2>1 DEF Collected, QueueTyped, Urls
    <2>4. PagesOnce' <=> PagesOnce
      BY <2>1 DEF PagesOnce, Distinct
    <2>5. \A t : Answered(t)' <=> Answered(t)
      BY <2>1 DEF Answered, OnAMenu
    <2>6. Accounted' <=> Accounted
      BY <2>1 DEF Accounted, Parents, Spoken, Urls
    <2>7. (TargetsAreSound' <=> TargetsAreSound) /\ (NothingListedIsLost' <=> NothingListedIsLost)
      BY <2>1 DEF TargetsAreSound, OneTargetPerPage, TargetsAnswered, NothingListedIsLost
    <2> QED
      BY <2>1, <2>2, <2>3, <2>4, <2>5, <2>6, <2>7 DEF DiscoveryKeeps
  <1> QED
    BY <1>1, <1>2, <1>3, <1>4, <1>5, <1>7, <1>8, <1>9, <1>10 DEF Next

\* Discovery hands a round no page twice, never more than the limit of them, and
\* none whose last fetch failed; a page that came empty only where a menu names it
\* and another page lists it (dedupe_targets, apply_crawl_target_limit,
\* verified_urls in crawl.py).
THEOREM TargetsCorrect == Spec => []TargetsAreSound
  <1>1. DiscoveryKeeps => TargetsAreSound
    BY DEF DiscoveryKeeps, TargetsAreSound, OneTargetPerPage, TargetsAnswered
  <1> QED
    BY DiscoveryStart, DiscoveryStep, <1>1, PTL DEF Spec

\* Without a limit every entry of a menu that was read, and every post of a page
\* that brought an article in one of the two passes, is a target, is reported as
\* a failure or came empty (discover_html_targets_with_failures).
THEOREM ListedCorrect == Spec => []NothingListedIsLost
  <1>1. DiscoveryKeeps => NothingListedIsLost
    BY DEF DiscoveryKeeps, NothingListedIsLost
  <1> QED
    BY DiscoveryStart, DiscoveryStep, <1>1, PTL DEF Spec
=============================================================================
