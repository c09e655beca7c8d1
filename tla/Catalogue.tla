----------------------------- MODULE Catalogue -----------------------------
(***************************************************************************)
(* The labels of a document (source_scope and page_kind): they are in its  *)
(* row, in the metadata of its chunk's vector in Chroma and in the records *)
(* of the BM25 file.  A round of the worker writes them as discovery found *)
(* them; scripts/refresh_metadata.py computes them anew from the row and   *)
(* rewrites all three without the crawl's lock.                            *)
(*                                                                         *)
(* A document has one chunk, known by the page and how often it has been   *)
(* stored.  Rounds exclude each other (Ingestion), so one is enough.       *)
(* Discovery touches no store: the steps of a refresh are taken outside it.*)
(***************************************************************************)
EXTENDS Discovery

CONSTANTS MaxRounds,    \* bound: rounds that are started
          MaxRefreshes  \* bound: refreshes that are started

VARIABLES documents,  \* documents[u]: [version, site, menu, labels]; version 0: no row
          indexed,    \* chunks whose chroma_id is set
          vectors,    \* metadata in Chroma: set of [chunk, labels]
          bm25,       \* records of the BM25 file: set of [chunk, labels]
          todo,       \* targets the round has still to handle
          rows,       \* what the round read of the database last
          refresh,    \* the refresh: [step, options, plan, rows, failed]
          rounds, refreshes,  \* how many have been started
          overlap,    \* a round took a step while the refresh was running
          trusted     \* no refresh beside a round, no partial one and no round
                      \* that died since the last full refresh

stores == <<documents, indexed, vectors, bm25>>
catalogue == <<stores, todo, rows, refresh, rounds, refreshes, overlap, trusted>>
vars == <<discovery, catalogue>>

Options == [dry : BOOLEAN, skipChroma : BOOLEAN, skipBm25 : BOOLEAN]
Idle == [step |-> "idle", options |-> [dry |-> FALSE, skipChroma |-> FALSE, skipBm25 |-> FALSE],
         plan |-> {}, rows |-> {}, failed |-> FALSE]

Init ==
    /\ DiscoveryInit
    /\ documents = [u \in Page |-> [version |-> 0, site |-> NoSite, menu |-> <<>>,
                                    labels |-> [scope |-> "unknown", kind |-> "unknown"]]]
    /\ indexed = {} /\ vectors = {} /\ bm25 = {}
    /\ todo = <<>> /\ rows = {} /\ refresh = Idle
    /\ rounds = 0 /\ refreshes = 0 /\ overlap = FALSE /\ trusted = TRUE

Stored == {u \in Page : documents[u].version > 0}
ChunkOf(u) == [page |-> u, version |-> documents[u].version]
Labelled(chunks) == {[chunk |-> c, labels |-> documents[c.page].labels] : c \in chunks}
Chunks == {ChunkOf(u) : u \in Stored}

(* Every step of a round that is not discovery.                            *)
RoundWrites ==
    LET beside == refresh.step # "idle"
    IN  overlap' = (overlap \/ beside) /\ trusted' = (trusted /\ ~beside)

-----------------------------------------------------------------------------
(* The round.                                                              *)
Discover ==
    /\ stage = "idle" => rounds < MaxRounds
    /\ DiscoveryNext
    /\ rounds' = IF stage = "idle" THEN rounds + 1 ELSE rounds
    /\ UNCHANGED <<stores, todo, rows, refresh, refreshes, overlap, trusted>>

(* The round goes on with the targets alone; the failures are in its       *)
(* statistics.                                                             *)
BeginHandling ==
    /\ stage = "found" /\ stage' = "handle"
    /\ todo' = targets /\ targets' = <<>>
    /\ named' = {} /\ verified' = {} /\ failures' = {}
    /\ answers' = [x \in DOMAIN answers |-> "none"]
    /\ UNCHANGED <<limit, queue, troubles, stores, rows, refresh, rounds, refreshes, overlap, trusted>>

(* What build_content_hash covers: the page's text, where it was found and *)
(* how it is labelled in the menus, but neither the scope nor the kind.    *)
SameHash(t) ==
    /\ documents[t.url].version > 0
    /\ documents[t.url].site = t.site /\ documents[t.url].menu = t.menu

(* process_crawl_target and persist_document for the next target: skipped  *)
(* when its hash is the stored one, not stored when its fetch fails or     *)
(* brings no article.                                                      *)
Handle(outcome) ==
    /\ stage = "handle" /\ todo # <<>>
    /\ LET t == Head(todo)
           old == documents[t.url]
       IN  IF outcome = "failed" \/ (outcome = "same" /\ SameHash(t))
           THEN UNCHANGED <<documents, indexed>>
           ELSE /\ documents' = [documents EXCEPT ![t.url] =
                      [version |-> old.version + 1, site |-> t.site, menu |-> t.menu,
                       labels |-> [scope |-> t.scope, kind |-> t.kind]]]
                /\ indexed' = indexed \ {ChunkOf(t.url)}
    /\ todo' = Tail(todo)
    /\ outcome # "same" => troubles < MaxTroubles
    /\ troubles' = IF outcome = "same" THEN troubles ELSE troubles + 1
    /\ RoundWrites
    /\ UNCHANGED <<stage, limit, queue, named, targets, verified, failures, answers,
                   vectors, bm25, rows, refresh, rounds, refreshes>>

RoundStep(from, to) ==
    /\ stage = from /\ stage' = to
    /\ RoundWrites
    /\ UNCHANGED <<limit, queue, named, targets, verified, failures, answers, troubles,
                   todo, refresh, rounds, refreshes>>

(* embed_pending_chunks: the rows with their labels, the vectors, then     *)
(* the chroma_ids.                                                         *)
SelectPending ==
    /\ todo = <<>> /\ RoundStep("handle", "upsert")
    /\ rows' = Labelled(Chunks \ indexed)
    /\ UNCHANGED stores

UpsertVectors ==
    /\ RoundStep("upsert", "mark")
    /\ vectors' = {v \in vectors : v.chunk \notin {r.chunk : r \in rows}} \cup rows
    /\ UNCHANGED <<documents, indexed, bm25, rows>>

MarkIndexed ==
    /\ RoundStep("mark", "prune")
    /\ indexed' = indexed \cup {r.chunk : r \in rows}
    /\ rows' = {}
    /\ UNCHANGED <<documents, vectors, bm25>>

(* prune_orphan_vectors.                                                   *)
Prune ==
    /\ RoundStep("prune", "read")
    /\ vectors' = {v \in vectors : v.chunk \in indexed}
    /\ UNCHANGED <<documents, indexed, bm25, rows>>

(* write_bm25_indexes: the rows, then the file.                            *)
ReadRows ==
    /\ RoundStep("read", "write")
    /\ rows' = Labelled(Chunks)
    /\ UNCHANGED stores

WriteIndex ==
    /\ RoundStep("write", "idle")
    /\ bm25' = rows /\ rows' = {}
    /\ UNCHANGED <<documents, indexed, vectors>>

(* The worker dies, or a store cannot be reached: the round is over.       *)
RoundDies ==
    /\ stage \in {"handle", "upsert", "mark", "prune", "read", "write"}
    /\ troubles < MaxTroubles /\ troubles' = troubles + 1
    /\ stage' = "idle" /\ todo' = <<>> /\ rows' = {}
    /\ trusted' = FALSE
    /\ UNCHANGED <<limit, queue, named, targets, verified, failures, answers,
                   stores, refresh, rounds, refreshes, overlap>>

-----------------------------------------------------------------------------
(* The refresh.                                                            *)

(* classify_document_metadata: by the host and the menu path of the row.   *)
Classified(u) ==
    [scope |-> IF u \in Url /\ SeedHost[u] # NoSite THEN SeedScope[SeedHost[u]]
               ELSE HostScope[u],
     kind |-> PageKind(u, documents[u].menu)]

(* _coerce_page_kind: a stored "notice" is not among the kinds it lists.   *)
Coerced(labels) ==
    [labels EXCEPT !.kind = IF @ = "notice" THEN "unknown" ELSE @]

Changed(u) == Coerced(documents[u].labels) # Classified(u)

(* Discovery reads no store: a refresh step inside it could as well come   *)
(* after it.                                                               *)
OutsideDiscovery == stage \in {"idle", "handle", "upsert", "mark", "prune", "read", "write"}

RefreshStep(from, next) ==
    /\ refresh.step = from /\ OutsideDiscovery
    /\ refresh' = next
    /\ UNCHANGED <<stage, limit, queue, named, targets, verified, failures, answers,
                   todo, rows, rounds>>

(* plan_document_metadata_updates: one statement reads the rows.  A dry    *)
(* run ends with it.                                                       *)
Plan(options) ==
    /\ refreshes < MaxRefreshes /\ refreshes' = refreshes + 1
    /\ RefreshStep("idle", IF options.dry THEN Idle
                           ELSE [Idle EXCEPT !.step = "update", !.options = options,
                                   !.plan = {[page |-> u, labels |-> Classified(u)] :
                                               u \in {d \in Stored : Changed(d)}}])
    /\ overlap' = (stage # "idle" /\ ~options.dry)
    /\ trusted' = (trusted /\ ~overlap')
    /\ UNCHANGED <<stores, troubles>>

(* update_document_metadata: one executemany.                              *)
UpdateDocuments ==
    /\ RefreshStep("update", [refresh EXCEPT !.step =
                                IF refresh.options.skipChroma THEN "clear" ELSE "chunks"])
    /\ documents' = [u \in Page |->
           [documents[u] EXCEPT !.labels =
               IF \E p \in refresh.plan : p.page = u
               THEN (CHOOSE p \in refresh.plan : p.page = u).labels ELSE @]]
    /\ UNCHANGED <<indexed, vectors, bm25, refreshes, troubles, overlap, trusted>>

(* Variant: only the chunks of the documents this refresh has changed.     *)
ChangedChunks == {c \in indexed : \E p \in refresh.plan : p.page = c.page}

(* ACTIVE_INDEXED_CHUNKS_SQL.                                              *)
ChunksToUpdate == indexed

ReadChunks ==
    /\ RefreshStep("chunks", [refresh EXCEPT !.step = "vectors",
                                             !.rows = Labelled(ChunksToUpdate)])
    /\ UNCHANGED <<stores, refreshes, troubles, overlap, trusted>>

(* _refresh_chroma_metadata_batch: a vector that is missing, or a batch    *)
(* that fails after its retries, is reported and the refresh goes on.      *)
UpdateVectors(works) ==
    LET found == {v \in vectors : \E r \in refresh.rows : r.chunk = v.chunk}
        missing == {r \in refresh.rows : \A v \in found : v.chunk # r.chunk}
    IN  /\ RefreshStep("vectors", [refresh EXCEPT !.step = "clear", !.rows = {},
                                       !.failed = ~works \/ missing # {}])
        /\ works \/ troubles < MaxTroubles
        /\ troubles' = IF works THEN troubles ELSE troubles + 1
        /\ vectors' = IF works THEN (vectors \ found) \cup (refresh.rows \ missing) ELSE vectors
        /\ UNCHANGED <<documents, indexed, bm25, refreshes, overlap, trusted>>

(* The end of a refresh: one that left nothing out and ran alone makes the *)
(* stores agree, one that was partial leaves them as they were only if it  *)
(* had nothing to change.                                                  *)
EndOfRefresh ==
    trusted' = IF refresh.options.skipChroma \/ refresh.options.skipBm25 \/ refresh.failed
               THEN trusted /\ refresh.plan = {}
               ELSE ~overlap

SkipFiles ==
    /\ refresh.options.skipBm25
    /\ RefreshStep("clear", Idle)
    /\ EndOfRefresh
    /\ UNCHANGED <<stores, refreshes, troubles, overlap>>

(* clear_bm25_cache_files, then write_bm25_indexes.                        *)
ClearFiles ==
    /\ ~refresh.options.skipBm25
    /\ RefreshStep("clear", [refresh EXCEPT !.step = "read"])
    /\ bm25' = {}
    /\ UNCHANGED <<documents, indexed, vectors, refreshes, troubles, overlap, trusted>>

RefreshReadsRows ==
    /\ RefreshStep("read", [refresh EXCEPT !.step = "write", !.rows = Labelled(Chunks)])
    /\ UNCHANGED <<stores, refreshes, troubles, overlap, trusted>>

RefreshWritesIndex ==
    /\ RefreshStep("write", Idle)
    /\ bm25' = refresh.rows
    /\ EndOfRefresh
    /\ UNCHANGED <<documents, indexed, vectors, refreshes, troubles, overlap>>

(* The command is cut off.                                                 *)
RefreshDies ==
    /\ refresh.step # "idle" /\ RefreshStep(refresh.step, Idle)
    /\ troubles < MaxTroubles /\ troubles' = troubles + 1
    /\ trusted' = FALSE
    /\ UNCHANGED <<stores, refreshes, overlap>>

-----------------------------------------------------------------------------
Next ==
    \/ Discover \/ BeginHandling
    \/ \E outcome \in {"same", "edited", "failed"} : Handle(outcome)
    \/ SelectPending \/ UpsertVectors \/ MarkIndexed \/ Prune \/ ReadRows \/ WriteIndex
    \/ RoundDies
    \/ \E options \in Options : Plan(options)
    \/ UpdateDocuments \/ ReadChunks
    \/ \E works \in BOOLEAN : UpdateVectors(works)
    \/ SkipFiles \/ ClearFiles \/ RefreshReadsRows \/ RefreshWritesIndex \/ RefreshDies

Spec == Init /\ [][Next]_vars

-----------------------------------------------------------------------------
(* Rounds and refreshes that do not overlap leave the labels of a document *)
(* the same in its row, in its vector and in the BM25 file; whatever an    *)
(* interrupted, partial or overlapping one left behind, one full refresh   *)
(* puts right (refresh_search_metadata rewrites all indexed chunks, not    *)
(* only those of the documents it changed).                                *)
LabelsAgree ==
    (stage = "idle" /\ refresh.step = "idle" /\ trusted) =>
        /\ Labelled(indexed) \subseteq vectors
        /\ bm25 = Labelled(Chunks)

=============================================================================
