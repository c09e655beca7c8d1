-------------------------- MODULE Bm25CacheProofs --------------------------
(***************************************************************************)
(* A keyword index the backend serves as current is the current corpus,    *)
(* for every set of documents and categories, any number of requests,      *)
(* crashes, script runs and restarts, and whether or not new content may   *)
(* leave a document without chunks.                                        *)
(***************************************************************************)
EXTENDS Bm25Cache, FiniteSetTheorems, TLAPS

\* rows are a reading of the corpus in scope s, taken after the watermark m:
\* one row per document, and nothing stored up to m is missing.
CompleteUpTo(s, m, rows) ==
    /\ m <= now
    /\ \A r \in rows : InScope(r.doc, s)
    /\ \A r1, r2 \in rows : r1.doc = r2.doc => r1.at = r2.at
    /\ \A d \in Doc :
         InScope(d, s) /\ createdAt[d] # 0 /\ createdAt[d] <= m =>
             \E r \in rows : r.doc = d /\ r.at = createdAt[d]

\* Chunks are created in the order of their times.
ChunksAreDated == \A d \in Doc : createdAt[d] <= now

\* A writer has read the watermark first and then the rows.
WritersHoldReadings ==
    \A w \in Writer :
        /\ wpc[w] = "rows" => mark[w] <= now
        /\ wpc[w] \in {"open", "dump"} => CompleteUpTo(All, mark[w], corpus[w])

\* A whole file holds a reading, whoever wrote it and whatever was written
\* to the other files since.
FilesHoldReadings ==
    \A s \in Scope :
        file[s].state = "whole" =>
            CompleteUpTo(s, file[s].watermark, file[s].records)

\* So does an entry the backend remembers, if it is not a remembered miss.
MemoryHoldsReadings ==
    \A s \in Scope :
        memory[s].known /\ memory[s].records # {} =>
            CompleteUpTo(s, memory[s].watermark, memory[s].records)

Current ==
    /\ TypeOK /\ ChunksAreDated /\ WritersHoldReadings
    /\ FilesHoldReadings /\ MemoryHoldsReadings
-----------------------------------------------------------------------------
\* Bounded sets of times have a newest element.
LEMMA NewestExists ==
    ASSUME NEW S \in SUBSET Time, S # {}
    PROVE  Max(S) \in S /\ \A x \in S : x <= Max(S)
  <1> DEFINE R == OpToRel(<, Nat)
             T == {MaxTime - x : x \in S}
  <1>0. \A x \in S : MaxTime - x \in Nat
    BY ConstantsAssumption DEF Time
  <1>1. T \subseteq Nat /\ T # {}
    BY <1>0
  <1>2. PICK t \in T : \A u \in T : <<u, t>> \notin R
    <2> HIDE DEF R, T
    <2>1. IsWellFoundedOn(R, Nat)
      BY NatLessThanWellFounded DEF R
    <2> QED
      BY <1>1, <2>1, WFMin
  <1>3. PICK x \in S : t = MaxTime - x
    OBVIOUS
  <1>4. \A y \in S : y <= x
    <2> SUFFICES ASSUME NEW y \in S
                 PROVE  y <= x
      OBVIOUS
    <2>1. <<MaxTime - y, MaxTime - x>> \notin R
      BY <1>2, <1>3
    <2>2. MaxTime - y \in Nat /\ MaxTime - x \in Nat
      BY ConstantsAssumption DEF Time
    <2>3. ~(MaxTime - y < MaxTime - x)
      BY <2>1, <2>2 DEF OpToRel
    <2> QED
      BY <2>3, ConstantsAssumption DEF Time
  <1>5. \E z \in S : \A y \in S : z >= y
    BY <1>4 DEF Time
  <1>6. Max(S) \in S /\ \A y \in S : Max(S) >= y
    BY <1>5 DEF Max
  <1> QED
    BY <1>6 DEF Time

\* The watermark is no older than any chunk and no newer than the newest.
LEMMA WatermarkIsNewest ==
    ASSUME createdAt \in [Doc -> Time]
    PROVE  /\ Watermark \in Time
           /\ \A d \in Doc : createdAt[d] <= Watermark
           /\ \E d \in Doc : Watermark = createdAt[d]
  <1> DEFINE S == {createdAt[d] : d \in Doc}
  <1>1. S \in SUBSET Time /\ S # {}
    BY ConstantsAssumption
  <1>2. Max(S) \in S /\ \A x \in S : x <= Max(S)
    <2> HIDE DEF S
    <2> QED
      BY <1>1, NewestExists
  <1> QED
    BY <1>1, <1>2 DEF Watermark

\* The rows read from the database.
LEMMA RowsAreRows ==
    ASSUME TypeOK
    PROVE  Rows \in SUBSET Row
  BY DEF TypeOK, Rows, Row, Time

\* A reading restricted to a category is a reading of that category.
LEMMA OfIsComplete ==
    ASSUME NEW s \in Scope, NEW m, NEW rows, CompleteUpTo(All, m, rows)
    PROVE  CompleteUpTo(s, m, Of(rows, s))
  BY DEF CompleteUpTo, Of, InScope

\* Only a replaced document moves the time or the chunks.
LEMMA CorpusStep ==
    ASSUME [Next]_vars
    PROVE  (\E d \in Doc : ReplaceDocument(d)) \/ UNCHANGED <<now, createdAt>>
  BY DEF Next, Round, BeginRound, DocumentsDone, StoreKeywords, BeginScript,
         WriteIndexes, ReadWatermark, ReadRows, OpenFile, Dump, Crash,
         Retriever, ReadSeen, Lookup, Restart, vars

\* A reading stays one: what is stored later is newer than its watermark.
LEMMA StaysComplete ==
    ASSUME TypeOK, TypeOK', ChunksAreDated, [Next]_vars,
           NEW s \in Scope, NEW m \in Time, NEW rows, CompleteUpTo(s, m, rows)
    PROVE  CompleteUpTo(s, m, rows)'
  <1> USE DEF CompleteUpTo, InScope
  <1>1. ASSUME NEW d \in Doc, ReplaceDocument(d)
        PROVE  CompleteUpTo(s, m, rows)'
    <2>1. now \in Nat /\ m \in Nat /\ createdAt \in [Doc -> Nat]
      BY DEF TypeOK, Time
    <2>2. m <= now'
      BY <1>1, <2>1 DEF ReplaceDocument
    <2>3. createdAt'[d] = 0 \/ m < createdAt'[d]
      BY <1>1, <2>1 DEF ReplaceDocument
    <2>4. \A e \in Doc \ {d} : createdAt'[e] = createdAt[e]
      BY <1>1, <2>1 DEF ReplaceDocument
    <2>5. \A e \in Doc :
            InScope(e, s) /\ createdAt'[e] # 0 /\ createdAt'[e] <= m =>
                \E r \in rows : r.doc = e /\ r.at = createdAt'[e]
      <3> SUFFICES ASSUME NEW e \in Doc, InScope(e, s),
                          createdAt'[e] # 0, createdAt'[e] <= m
                   PROVE  \E r \in rows : r.doc = e /\ r.at = createdAt'[e]
        OBVIOUS
      <3>1. createdAt' \in [Doc -> Nat]
        BY DEF TypeOK, Time
      <3>2. e # d
        BY <2>1, <2>3, <3>1
      <3> QED
        BY <2>4, <3>2
    <2> QED
      BY <2>2, <2>5
  <1>2. CASE UNCHANGED <<now, createdAt>>
    BY <1>2
  <1> QED
    BY <1>1, <1>2, CorpusStep
-----------------------------------------------------------------------------
LEMMA WriterTypes ==
    ASSUME TypeOK, NEW w \in Writer, WriteIndexes(w)
    PROVE  TypeOK'
  <1>1. CASE ReadWatermark(w)
    <2>1. Watermark \in Time
      BY WatermarkIsNewest DEF TypeOK
    <2> QED
      BY <1>1, <2>1 DEF ReadWatermark, GoTo, TypeOK, requests
  <1>2. CASE ReadRows(w)
    <2>1. Rows \in SUBSET Row
      BY RowsAreRows
    <2>2. ScopesOf(Rows) \in SUBSET Scope
      BY <2>1, ConstantsAssumption DEF ScopesOf, Scope, Row
    <2> QED
      BY <1>2, <2>1, <2>2 DEF ReadRows, GoTo, TypeOK, requests
  <1>3. ASSUME NEW s \in Scope, OpenFile(w, s)
        PROVE  TypeOK'
    <2>1. Torn \in [state : {"missing", "torn", "whole"},
                    watermark : Time, records : SUBSET Row]
      BY ConstantsAssumption DEF Torn, Time
    <2> QED
      BY <1>3, <2>1 DEF OpenFile, Opened, GoTo, TypeOK, requests
  <1>4. CASE Dump(w)
    <2> DEFINE File == [state : {"missing", "torn", "whole"},
                        watermark : Time, records : SUBSET Row]
    <2>1. Torn \in File
      BY ConstantsAssumption DEF Torn, Time
    <2>2. \A s : Whole(FileWatermark(w), Of(corpus[w], s)) \in File
      BY DEF Whole, FileWatermark, Of, TypeOK
    <2>3. \A s : Whole(FileWatermark(w), Of(corpus[w], s)).state = "whole"
      BY DEF Whole
    <2>4. /\ file' \in [Scope -> File]
          /\ \A s \in Scope : file'[s].state # "whole" => file'[s] \in {Missing, Torn}
      <3> HIDE DEF File
      <3>1. file \in [Scope -> File]
        BY DEF TypeOK, File
      <3>2. CASE UNCHANGED file
        BY <3>1, <3>2 DEF TypeOK
      <3>3. CASE file' = [file EXCEPT ![target[w]] =
                            Whole(FileWatermark(w), Of(corpus[w], target[w]))]
        BY <2>2, <2>3, <3>1, <3>3 DEF TypeOK
      <3>4. CASE file' = [file EXCEPT ![target[w]] = Torn]
        BY <2>1, <3>1, <3>4 DEF TypeOK
      <3> QED
        BY <1>4, <3>2, <3>3, <3>4 DEF Dump
    <2>5. mark' \in [Writer -> Time] /\ corpus' \in [Writer -> SUBSET Row]
      <3>1. mark \in [Writer -> Time] /\ corpus \in [Writer -> SUBSET Row]
        BY DEF TypeOK
      <3>2. 0 \in Time /\ {} \in SUBSET Row
        BY ConstantsAssumption DEF Time
      <3>3. UNCHANGED <<mark, corpus>> \/ ForgetRead(w)
        BY <1>4 DEF Dump
      <3> QED
        BY <3>1, <3>2, <3>3 DEF ForgetRead
    <2>6. /\ wpc' \in [Writer -> {"idle", "documents", "index", "rows",
                                  "open", "dump"}]
          /\ target' \in [Writer -> Scope \union {"none"}]
      BY <1>4 DEF Dump, GoTo, TypeOK
    <2> QED
      BY <1>4, <2>4, <2>5, <2>6 DEF Dump, TypeOK, requests
  <1> QED
    BY <1>1, <1>2, <1>3, <1>4 DEF WriteIndexes

\* What a lookup hands out is an index of rows.
LEMMA ServedIsRows ==
    ASSUME TypeOK, NEW q \in Query
    PROVE  Served(q).records \in SUBSET Row
  <1>1. scope[q] \in Scope
    BY DEF TypeOK
  <1>2. file[scope[q]].records \in SUBSET Row
    BY <1>1 DEF TypeOK
  <1>3. memory[scope[q]].records \in SUBSET Row
    BY <1>1 DEF TypeOK
  <1> QED
    BY <1>2, <1>3 DEF Served

LEMMA RetrieverTypes ==
    ASSUME TypeOK, Retriever
    PROVE  TypeOK'
  <1>1. ASSUME NEW q \in Query, NEW s \in Scope, ReadSeen(q, s)
        PROVE  TypeOK'
    <2>1. Watermark \in Time
      BY WatermarkIsNewest DEF TypeOK
    <2> QED
      BY <1>1, <2>1 DEF ReadSeen, TypeOK, worker
  <1>2. ASSUME NEW q \in Query, Lookup(q)
        PROVE  TypeOK'
    <2>1. Remember(seen[q], Served(q).records)
            \in [known : BOOLEAN, watermark : Time, records : SUBSET Row]
      BY ServedIsRows DEF Remember, TypeOK
    <2>2. Remember(seen[q], Served(q).records).known
      BY DEF Remember
    <2>3. All \in Scope /\ 0 \in Time
      BY ConstantsAssumption DEF Scope, Time
    <2> QED
      BY <1>2, <2>1, <2>2, <2>3 DEF Lookup, TypeOK, worker
  <1>3. CASE Restart
    BY <1>3, ConstantsAssumption
    DEF Restart, Disturb, TypeOK, worker, Unknown, Scope, Time
  <1> QED
    BY <1>1, <1>2, <1>3 DEF Retriever

LEMMA TypeStep ==
    ASSUME TypeOK, [Next]_vars
    PROVE  TypeOK'
  <1>1. CASE Round
    <2>1. CASE BeginRound \/ DocumentsDone
      BY <2>1 DEF BeginRound, DocumentsDone, GoTo, TypeOK, requests
    <2>2. ASSUME NEW d \in Doc, ReplaceDocument(d)
          PROVE  TypeOK'
      <3>1. now' \in Time /\ createdAt' \in [Doc -> Time]
        <4>1. now \in Time /\ createdAt \in [Doc -> Time]
          BY DEF TypeOK
        <4>2. now' \in Time
          BY <2>2, <4>1, ConstantsAssumption DEF ReplaceDocument, Time
        <4>3. 0 \in Time
          BY ConstantsAssumption DEF Time
        <4> QED
          BY <2>2, <4>1, <4>2, <4>3 DEF ReplaceDocument
      <3> QED
        BY <2>2, <3>1 DEF ReplaceDocument, TypeOK, worker, requests
    <2>3. ASSUME NEW d \in Doc, StoreKeywords(d)
          PROVE  TypeOK'
      BY <2>3 DEF StoreKeywords, TypeOK, worker, requests
    <2> QED
      BY <1>1, <2>1, <2>2, <2>3 DEF Round
  <1>2. CASE BeginScript
    BY <1>2, ConstantsAssumption
    DEF BeginScript, Disturb, GoTo, TypeOK, Missing, Time, Writer, requests
  <1>3. ASSUME NEW w \in Writer, Crash(w)
        PROVE  TypeOK'
    BY <1>3, ConstantsAssumption
    DEF Crash, Disturb, ForgetRead, GoTo, TypeOK, Time, requests
  <1>4. CASE UNCHANGED vars
    BY <1>4 DEF vars, worker, requests, TypeOK
  <1> QED
    BY <1>1, <1>2, <1>3, <1>4, WriterTypes, RetrieverTypes DEF Next
-----------------------------------------------------------------------------
\* Time moves on, and what was read before stays a reading.
LEMMA DatesStep ==
    ASSUME TypeOK, ChunksAreDated, [Next]_vars
    PROVE  ChunksAreDated' /\ now <= now'
  <1>1. now \in Nat /\ createdAt \in [Doc -> Nat]
    BY DEF TypeOK, Time
  <1>2. ASSUME NEW d \in Doc, ReplaceDocument(d)
        PROVE  ChunksAreDated' /\ now <= now'
    BY <1>1, <1>2 DEF ReplaceDocument, ChunksAreDated
  <1>3. CASE UNCHANGED <<now, createdAt>>
    BY <1>1, <1>3 DEF ChunksAreDated
  <1> QED
    BY <1>2, <1>3, CorpusStep

\* The rows of the database are complete up to every watermark read so far.
LEMMA RowsAreComplete ==
    ASSUME TypeOK, NEW m \in Time, m <= now
    PROVE  CompleteUpTo(All, m, Rows)
  <1>1. \A r \in Rows : InScope(r.doc, All)
    BY DEF InScope
  <1>2. \A r \in Rows : r.at = createdAt[r.doc]
    BY DEF Rows
  <1>3. \A d \in Doc :
          createdAt[d] # 0 => \E r \in Rows : r.doc = d /\ r.at = createdAt[d]
    <2> SUFFICES ASSUME NEW d \in Doc, createdAt[d] # 0
                 PROVE  \E r \in Rows : r.doc = d /\ r.at = createdAt[d]
      OBVIOUS
    <2> DEFINE r == [doc |-> d, at |-> createdAt[d], keywords |-> keywords[d]]
    <2>1. r \in Rows
      BY DEF Rows
    <2> QED
      BY <2>1
  <1> QED
    BY <1>1, <1>2, <1>3 DEF CompleteUpTo

LEMMA WritersStep ==
    ASSUME TypeOK, TypeOK', ChunksAreDated, WritersHoldReadings, [Next]_vars
    PROVE  WritersHoldReadings'
  <1> SUFFICES ASSUME NEW w \in Writer
               PROVE  /\ wpc'[w] = "rows" => mark'[w] <= now'
                      /\ wpc'[w] \in {"open", "dump"} =>
                            CompleteUpTo(All, mark[w], corpus[w])'
    BY DEF WritersHoldReadings
  <1>0. /\ now \in Nat /\ now' \in Nat /\ now <= now'
        /\ mark[w] \in Time /\ mark[w] \in Nat /\ All \in Scope
    BY DatesStep DEF TypeOK, Time, Scope
  <1>1. ASSUME UNCHANGED <<wpc[w], mark[w], corpus[w]>>
        PROVE  /\ wpc'[w] = "rows" => mark'[w] <= now'
               /\ wpc'[w] \in {"open", "dump"} =>
                     CompleteUpTo(All, mark[w], corpus[w])'
    <2>1. ASSUME CompleteUpTo(All, mark[w], corpus[w])
          PROVE  CompleteUpTo(All, mark[w], corpus[w])'
      <3>1. PICK m0 : m0 = mark[w]
        OBVIOUS
      <3>2. PICK rows0 : rows0 = corpus[w]
        OBVIOUS
      <3>3. m0 \in Time /\ CompleteUpTo(All, m0, rows0)
        BY <1>0, <2>1, <3>1, <3>2
      <3>4. CompleteUpTo(All, m0, rows0)'
        BY <1>0, <3>3, StaysComplete
      <3> QED
        BY <1>1, <3>1, <3>2, <3>4 DEF CompleteUpTo
    <2> QED
      BY <1>0, <1>1, <2>1 DEF WritersHoldReadings
  <1>2. CASE UNCHANGED <<wpc, mark, corpus>>
    BY <1>1, <1>2
  <1>3. ASSUME wpc'[w] \notin {"rows", "open", "dump"}
        PROVE  /\ wpc'[w] = "rows" => mark'[w] <= now'
               /\ wpc'[w] \in {"open", "dump"} =>
                     CompleteUpTo(All, mark[w], corpus[w])'
    BY <1>3
  <1>5. CASE BeginRound \/ DocumentsDone \/ BeginScript
    BY <1>1, <1>3, <1>5
    DEF BeginRound, DocumentsDone, BeginScript, GoTo, TypeOK
  <1>6. ASSUME NEW v \in Writer, WriteIndexes(v) \/ Crash(v), v # w
        PROVE  UNCHANGED <<wpc[w], mark[w], corpus[w]>>
    BY <1>6 DEF WriteIndexes, ReadWatermark, ReadRows, OpenFile, Dump, Crash,
                ForgetRead, GoTo, TypeOK
  <1>7. CASE Crash(w)
    BY <1>3, <1>7 DEF Crash, GoTo, TypeOK
  <1>8. CASE ReadWatermark(w)
    <2>1. Watermark <= now
      BY WatermarkIsNewest DEF ChunksAreDated, TypeOK
    <2> QED
      BY <1>8, <2>1 DEF ReadWatermark, GoTo, TypeOK
  <1>9. CASE ReadRows(w)
    <2>1. CompleteUpTo(All, mark[w], Rows)
      BY <1>0, <1>9, RowsAreComplete DEF ReadRows, WritersHoldReadings
    <2> QED
      BY <1>9, <2>1 DEF ReadRows, GoTo, TypeOK, CompleteUpTo
  <1>10. ASSUME NEW s \in Scope, OpenFile(w, s)
         PROVE  CompleteUpTo(All, mark[w], corpus[w])' /\ wpc'[w] = "dump"
    BY <1>10 DEF OpenFile, GoTo, TypeOK, CompleteUpTo, WritersHoldReadings
  <1>11. CASE Dump(w)
    <2>1. CompleteUpTo(All, mark[w], corpus[w])
      BY <1>11 DEF Dump, WritersHoldReadings
    <2>2. CASE GoTo(w, "open") /\ UNCHANGED <<mark, corpus>>
      BY <1>11, <2>1, <2>2 DEF Dump, GoTo, TypeOK, CompleteUpTo
    <2>3. CASE GoTo(w, "idle")
      BY <1>3, <2>3 DEF GoTo, TypeOK
    <2> QED
      BY <1>11, <2>2, <2>3 DEF Dump
  <1>12. CASE \/ \E d \in Doc : ReplaceDocument(d) \/ StoreKeywords(d)
              \/ Retriever \/ UNCHANGED vars
    BY <1>2, <1>12
    DEF ReplaceDocument, StoreKeywords, Retriever, ReadSeen, Lookup, Restart,
        worker, vars
  <1> QED
    BY <1>1, <1>5, <1>6, <1>7, <1>8, <1>9, <1>10, <1>11, <1>12
    DEF Next, Round, WriteIndexes

LEMMA FilesStep ==
    ASSUME TypeOK, TypeOK', ChunksAreDated, WritersHoldReadings,
           FilesHoldReadings, [Next]_vars
    PROVE  FilesHoldReadings'
  <1> SUFFICES ASSUME NEW s \in Scope, file'[s].state = "whole"
               PROVE  CompleteUpTo(s, file[s].watermark, file[s].records)'
    BY DEF FilesHoldReadings
  <1>1. ASSUME NEW m \in Time, NEW rows, CompleteUpTo(s, m, rows),
               file'[s].watermark = m, file'[s].records = rows
        PROVE  CompleteUpTo(s, file[s].watermark, file[s].records)'
    <2>1. CompleteUpTo(s, m, rows)'
      BY <1>1, StaysComplete
    <2> QED
      BY <1>1, <2>1 DEF CompleteUpTo
  <1>2. CASE file'[s] = file[s]
    <2>1. file[s].watermark \in Time
      BY DEF TypeOK
    <2>2. CompleteUpTo(s, file[s].watermark, file[s].records)
      BY <1>2 DEF FilesHoldReadings
    <2>3. PICK m, rows : m \in Time /\ m = file[s].watermark /\ rows = file[s].records
      BY <2>1
    <2> QED
      BY <1>1, <1>2, <2>2, <2>3
  <1>3. ASSUME NEW w \in Writer, Dump(w), file'[s] # file[s]
        PROVE  CompleteUpTo(s, file[s].watermark, file[s].records)'
    <2>1. file'[s] = Whole(mark[w], Of(corpus[w], s))
      <3>1. CASE file' = [file EXCEPT ![target[w]] =
                            Whole(FileWatermark(w), Of(corpus[w], target[w]))]
        BY <1>3, <3>1 DEF FileWatermark, TypeOK
      <3>2. CASE file' = [file EXCEPT ![target[w]] = Torn]
        BY <1>3, <3>2 DEF Torn, TypeOK
      <3> QED
        BY <1>3, <3>1, <3>2 DEF Dump
    <2>2. CompleteUpTo(All, mark[w], corpus[w])
      BY <1>3 DEF Dump, WritersHoldReadings
    <2>3. CompleteUpTo(s, mark[w], Of(corpus[w], s))
      BY <2>2, OfIsComplete
    <2>4. mark[w] \in Time
      BY DEF TypeOK
    <2>5. PICK m, rows : m \in Time /\ m = mark[w] /\ rows = Of(corpus[w], s)
      BY <2>4
    <2> QED
      BY <1>1, <2>1, <2>3, <2>5 DEF Whole
  <1>4. ASSUME NEW w \in Writer, NEW t \in Scope, OpenFile(w, t)
        PROVE  file'[s] = file[s]
    BY <1>4 DEF OpenFile, Opened, Torn, TypeOK
  <1>5. CASE BeginScript
    BY <1>2, <1>5 DEF BeginScript, Missing
  <1>6. CASE UNCHANGED file
    BY <1>2, <1>6
  <1> QED
    BY <1>2, <1>3, <1>4, <1>5, <1>6
    DEF Next, Round, BeginRound, ReplaceDocument, DocumentsDone, StoreKeywords,
        WriteIndexes, ReadWatermark, ReadRows, Crash, Retriever, ReadSeen,
        Lookup, Restart, vars

\* A lookup hands out a reading up to the watermark the request has read, or
\* nothing.
LEMMA ServedIsComplete ==
    ASSUME TypeOK, FilesHoldReadings, MemoryHoldsReadings, NEW q \in Query,
           Served(q).available \/ Served(q).records # {}
    PROVE  CompleteUpTo(scope[q], seen[q], Served(q).records)
  <1> DEFINE s == scope[q]
  <1>1. s \in Scope
    BY DEF TypeOK
  <1>2. CASE Hit(q)
    <2>1. Served(q) = [available |-> memory[s].records # {},
                       records |-> memory[s].records]
      BY <1>2 DEF Served
    <2>2. memory[s].records # {}
      <3>1. ASSUME memory[s].records = {}
            PROVE  ~Served(q).available
        <4>1. (memory[s].records # {}) = FALSE
          BY <3>1, Zenon
        <4>2. Served(q) = [available |-> FALSE, records |-> memory[s].records]
          BY <2>1, <4>1, Zenon
        <4> QED
          BY <4>2
      <3>2. Served(q).records = memory[s].records
        BY <2>1
      <3> QED
        BY <3>1, <3>2
    <2>3. CompleteUpTo(s, memory[s].watermark, memory[s].records)
      BY <1>1, <1>2, <2>2 DEF Hit, MemoryHoldsReadings
    <2> QED
      BY <1>2, <2>1, <2>3 DEF Hit
  <1>3. CASE ~Hit(q) /\ Loads(q)
    <2>1. Served(q) = [available |-> TRUE, records |-> file[s].records]
      BY <1>3 DEF Served
    <2> QED
      BY <1>1, <1>3, <2>1 DEF Loads, FilesHoldReadings
  <1>4. CASE ~Hit(q) /\ ~Loads(q)
    BY <1>4 DEF Served
  <1> QED
    BY <1>2, <1>3, <1>4

LEMMA MemoryStep ==
    ASSUME TypeOK, TypeOK', ChunksAreDated, FilesHoldReadings,
           MemoryHoldsReadings, [Next]_vars
    PROVE  MemoryHoldsReadings'
  <1> SUFFICES ASSUME NEW s \in Scope, memory'[s].known,
                      memory'[s].records # {}
               PROVE  CompleteUpTo(s, memory[s].watermark, memory[s].records)'
    BY DEF MemoryHoldsReadings
  <1>1. ASSUME NEW m \in Time, NEW rows, CompleteUpTo(s, m, rows),
               memory'[s].watermark = m, memory'[s].records = rows
        PROVE  CompleteUpTo(s, memory[s].watermark, memory[s].records)'
    <2>1. CompleteUpTo(s, m, rows)'
      BY <1>1, StaysComplete
    <2> QED
      BY <1>1, <2>1 DEF CompleteUpTo
  <1>2. CASE memory'[s] = memory[s]
    <2>1. memory[s].watermark \in Time
      BY DEF TypeOK
    <2>2. CompleteUpTo(s, memory[s].watermark, memory[s].records)
      BY <1>2 DEF MemoryHoldsReadings
    <2>3. PICK m, rows :
            /\ m \in Time /\ m = memory[s].watermark /\ rows = memory[s].records
      BY <2>1
    <2> QED
      BY <1>1, <1>2, <2>2, <2>3
  <1>3. ASSUME NEW q \in Query, Lookup(q), memory'[s] # memory[s]
        PROVE  CompleteUpTo(s, memory[s].watermark, memory[s].records)'
    <2>1. scope[q] = s /\ memory'[s] = Remember(seen[q], Served(q).records)
      BY <1>3 DEF Lookup, TypeOK
    <2>2. CompleteUpTo(s, seen[q], Served(q).records)
      BY <2>1, ServedIsComplete DEF Remember
    <2>3. seen[q] \in Time
      BY DEF TypeOK
    <2>4. PICK m, rows : m \in Time /\ m = seen[q] /\ rows = Served(q).records
      BY <2>3
    <2> QED
      BY <1>1, <2>1, <2>2, <2>4 DEF Remember
  <1>4. CASE Restart
    BY <1>4 DEF Restart, Unknown
  <1>5. CASE UNCHANGED memory
    BY <1>2, <1>5
  <1> QED
    BY <1>2, <1>3, <1>4, <1>5
    DEF Next, Round, BeginRound, ReplaceDocument, DocumentsDone, StoreKeywords,
        BeginScript, WriteIndexes, ReadWatermark, ReadRows, OpenFile, Dump,
        Crash, Retriever, ReadSeen, vars
-----------------------------------------------------------------------------
LEMMA CurrentInit == Init => Current
  <1> SUFFICES ASSUME Init
               PROVE  Current
    OBVIOUS
  <1>1. TypeOK
    <2>1. 0 \in Time /\ 0 \in 0..MaxDisturbances /\ All \in Scope
      BY ConstantsAssumption DEF Time, Scope
    <2>2. \A s \in Scope : file[s] = Missing /\ memory[s] = Unknown
      BY DEF Init
    <2>3. /\ file \in [Scope -> [state : {"missing", "torn", "whole"},
                                watermark : Time, records : SUBSET Row]]
          /\ memory \in [Scope -> [known : BOOLEAN,
                                  watermark : Time, records : SUBSET Row]]
      BY <2>1 DEF Init, Missing, Unknown
    <2> QED
      BY <2>1, <2>2, <2>3 DEF Init, TypeOK, Unknown
  <1>2. ChunksAreDated
    BY DEF Init, ChunksAreDated
  <1>3. WritersHoldReadings /\ FilesHoldReadings /\ MemoryHoldsReadings
    BY DEF Init, WritersHoldReadings, FilesHoldReadings, MemoryHoldsReadings,
           Missing, Unknown
  <1> QED
    BY <1>1, <1>2, <1>3 DEF Current

LEMMA CurrentStep == Current /\ [Next]_vars => Current'
  BY TypeStep, DatesStep, WritersStep, FilesStep, MemoryStep DEF Current

\* TypeOK: every variable of the index writers, the files and the retriever
\* keeps to its domain, and a torn or missing file carries no payload.
THEOREM CacheTypeCorrect == Spec => []TypeOK
  <1>1. Current => TypeOK
    BY DEF Current
  <1> QED
    BY CurrentInit, CurrentStep, <1>1, PTL DEF Spec

\* ServedIsCurrent: whatever is torn, unlinked, written twice or kept in
\* memory, an index served under the current watermark lists every stored
\* chunk of its scope, and beyond those only chunks of documents that have
\* none left.
THEOREM ServedCorrect == Spec => []ServedIsCurrent
  <1>1. Current => ServedIsCurrent
    <2> SUFFICES ASSUME Current, NEW q \in Query, seen[q] = Watermark,
                        Served(q).available
                 PROVE  /\ Chunks(Of(Rows, scope[q]))
                             \subseteq Chunks(Served(q).records)
                        /\ \A chunk \in Chunks(Served(q).records)
                                          \ Chunks(Of(Rows, scope[q])) :
                             createdAt[chunk[1]] = 0
      BY DEF ServedIsCurrent
    <2> DEFINE s == scope[q]
               served == Served(q).records
    <2>1. CompleteUpTo(s, Watermark, served)
      BY ServedIsComplete DEF Current
    <2>2. /\ s \in Scope /\ served \in SUBSET Row
          /\ createdAt \in [Doc -> Time]
      BY ServedIsRows DEF Current, TypeOK
    <2>3. \A d \in Doc : createdAt[d] <= Watermark
      BY <2>2, WatermarkIsNewest
    <2> HIDE DEF s, served
    <2>4. \A d \in Doc : InScope(d, s) /\ createdAt[d] # 0 =>
                            \E r \in served : r.doc = d /\ r.at = createdAt[d]
      BY <2>1, <2>3 DEF CompleteUpTo
    <2>5. ASSUME NEW chunk \in Chunks(Of(Rows, s))
          PROVE  chunk \in Chunks(served)
      <3>1. PICK d \in Doc : /\ InScope(d, s) /\ createdAt[d] # 0
                             /\ chunk = <<d, createdAt[d]>>
        BY DEF Chunks, Of, Rows
      <3>2. PICK r \in served : r.doc = d /\ r.at = createdAt[d]
        BY <2>4, <3>1
      <3> QED
        BY <3>1, <3>2 DEF Chunks
    <2>6. ASSUME NEW chunk \in Chunks(served) \ Chunks(Of(Rows, s)),
                 createdAt[chunk[1]] # 0
          PROVE  FALSE
      <3>1. PICK r \in served : chunk = <<r.doc, r.at>>
        BY DEF Chunks
      <3>2. r.doc \in Doc /\ InScope(r.doc, s) /\ createdAt[r.doc] # 0
        BY <2>1, <2>2, <2>6, <3>1 DEF CompleteUpTo, Row
      <3>3. r.at = createdAt[r.doc]
        BY <2>1, <2>4, <3>2 DEF CompleteUpTo
      <3> DEFINE row == [doc |-> r.doc, at |-> createdAt[r.doc],
                         keywords |-> keywords[r.doc]]
      <3>4. row \in Of(Rows, s)
        BY <3>2 DEF Of, Rows
      <3>5. <<row.doc, row.at>> \in Chunks(Of(Rows, s))
        BY <3>4 DEF Chunks
      <3> QED
        BY <2>6, <3>1, <3>3, <3>5
    <2> QED
      BY <2>5, <2>6 DEF s, served
  <1> QED
    BY CurrentInit, CurrentStep, <1>1, PTL DEF Spec
=============================================================================
