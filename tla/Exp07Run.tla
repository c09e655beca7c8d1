------------------------------ MODULE Exp07Run ------------------------------
(***************************************************************************)
(* A run of the answer evaluation (eval/run_exp07.py): rounds over the     *)
(* questions in one frozen order, each question asked with at most one     *)
(* retry, the corpus fingerprinted before and after while nothing keeps a  *)
(* crawl round from writing to it, and the gate of make_exp07_manifest.py, *)
(* which reads what the run left on disk.                                  *)
(*                                                                         *)
(* A store is its version.  A question is its place in the order.  A run   *)
(* that is killed is a behaviour cut short: it leaves no run.json.  The    *)
(* gate's hashes of the commit and of the frozen inputs are left out.      *)
(***************************************************************************)
EXTENDS Integers, SequencesExt

CONSTANTS Rounds,
          QuestionCount,
          MaxAttempts,  \* MAX_EXECUTION_ATTEMPTS
          Threshold,    \* SYSTEMIC_FAILURE_THRESHOLD
          MaxVersion,   \* bound: versions of the corpus
          MaxDay        \* bound: days the run may touch

ASSUME Exp07RunAssumption ==
    /\ {Rounds, QuestionCount, MaxAttempts, Threshold} \subseteq Nat \ {0}
    /\ {MaxVersion, MaxDay} \subseteq Nat \ {0}

VARIABLES stage,     \* "before", "ask", "answer", "after", "ended" or "dead"
          corpus,    \* the version in each store
          before,    \* corpus-before.json, as far as it is read
          after,     \* corpus-after.json, as far as it is read
          day, started,  \* today, and started_date
          records,   \* the response rows of raw.jsonl
          attempts,  \* of the question being asked
          index,     \* the retriever's BM25 index: the database it is for, and its version or 0
          broken,    \* the one database session is in a failed transaction
          consecutive,   \* consecutive_failures
          status, reason,
          manifest   \* TRUE once the gate let the run through

runVars == <<stage, corpus, before, after, day, started, records, attempts, index, broken,
          consecutive, status, reason, manifest>>

Stores == <<"database", "chroma", "bm25">>  \* in the order of corpus_fingerprint
Unread == [store \in {"database", "chroma", "bm25"} |-> 0]
Absent == "none"

RunInit ==
    /\ stage = "before"
    /\ corpus \in [DOMAIN Unread -> 1..MaxVersion]
    /\ corpus.chroma <= corpus.database /\ corpus.bm25 <= corpus.chroma
    /\ before = Unread /\ after = Unread
    /\ day = 1 /\ started = 0
    /\ records = <<>> /\ attempts = <<>>
    /\ index = [for |-> 0, version |-> 0] /\ broken = FALSE
    /\ consecutive = 0 /\ status = "completed" /\ reason = Absent
    /\ manifest = FALSE

-----------------------------------------------------------------------------
(* The world around the run.                                               *)

(* A crawl round writes the database, then Chroma, then the BM25 file.     *)
CrawlWrites ==
    /\ stage \notin {"ended", "dead"}
    /\ \/ /\ corpus.database < MaxVersion
          /\ corpus' = [corpus EXCEPT !.database = @ + 1]
       \/ /\ corpus.chroma < corpus.database
          /\ corpus' = [corpus EXCEPT !.chroma = corpus.database]
       \/ /\ corpus.bm25 < corpus.database /\ corpus.chroma = corpus.database
          /\ corpus' = [corpus EXCEPT !.bm25 = corpus.database]
    /\ UNCHANGED <<stage, before, after, day, started, records, attempts, index, broken,
                   consecutive, status, reason, manifest>>

Midnight ==
    /\ stage \in {"ask", "answer"}
    /\ day < MaxDay /\ day' = day + 1
    /\ UNCHANGED <<stage, corpus, before, after, started, records, attempts, index, broken,
                   consecutive, status, reason, manifest>>

-----------------------------------------------------------------------------
(* corpus_fingerprint: one store after the other.                          *)
NextStore(read) ==
    CHOOSE i \in 1..4 : /\ \A j \in 1..i - 1 : read[Stores[j]] # 0
                        /\ i < 4 => read[Stores[i]] = 0

ReadStore(read) == [read EXCEPT ![Stores[NextStore(read)]] = corpus[Stores[NextStore(read)]]]

IsRead(read) == NextStore(read) = 4

ReadBefore ==
    /\ stage = "before" /\ ~IsRead(before)
    /\ before' = ReadStore(before)
    /\ UNCHANGED <<stage, corpus, after, day, started, records, attempts, index, broken,
                   consecutive, status, reason, manifest>>

(* run_metadata and started_date, once the first fingerprint is written.   *)
Start ==
    /\ stage = "before" /\ IsRead(before)
    /\ started' = day
    /\ stage' = "ask"
    /\ UNCHANGED <<corpus, before, after, day, records, attempts, index, broken,
                   consecutive, status, reason, manifest>>

(* A store cannot be read: there is no run.json.                           *)
NoFingerprint ==
    /\ stage = "before"
    /\ stage' = "dead"
    /\ UNCHANGED <<corpus, before, after, day, started, records, attempts, index, broken,
                   consecutive, status, reason, manifest>>

-----------------------------------------------------------------------------
(* get_bm25_index: the index in memory, the one on disk, or none, always   *)
(* for the version the database has.                                       *)
CurrentIndex ==
    IF index.for = corpus.database THEN index
    ELSE [for |-> corpus.database,
          version |-> IF corpus.bm25 = corpus.database THEN corpus.bm25 ELSE 0]

(* run_attempt: the retrieval reads the corpus, unless its session is      *)
(* broken; the LLM's answer is the end of the attempt.                     *)
BeginAttempt ==
    /\ stage = "ask"
    /\ index' = IF broken THEN index ELSE CurrentIndex
    /\ attempts' = Append(attempts,
           [began |-> day, ended |-> 0, outcome |-> Absent,
            saw |-> [database |-> index'.for, chroma |-> corpus.chroma,
                     bm25 |-> index'.version]])
    /\ stage' = "answer"
    /\ UNCHANGED <<corpus, before, after, day, started, records, broken, consecutive,
                   status, reason, manifest>>

Place == [round |-> (Len(records) \div QuestionCount) + 1,
          ordinal |-> (Len(records) % QuestionCount) + 1]

Outcomes == {"success", "retryable", "fatal"}

Kept(list, done) == [list EXCEPT ![Len(list)] = done]

\* Variant: every error is worth a second attempt.
RetriesAnyError(list) == list[Len(list)].outcome # "success" /\ Len(list) < MaxAttempts

(* is_retryable_execution_error, within MAX_EXECUTION_ATTEMPTS.            *)
Retries(list) == list = <<>> \/ (list[Len(list)].outcome = "retryable" /\ Len(list) < MaxAttempts)

Record(list) ==
    [round |-> Place.round, ordinal |-> Place.ordinal, attempts |-> list,
     status |-> IF list[Len(list)].outcome = "success" THEN "success" ELSE "system_error",
     selected |-> IF list[Len(list)].outcome = "success" THEN Len(list) ELSE 0]

\* Variant: the count starts again with every round.
ConsecutiveInRound(count, record) ==
    IF record.status = "success" \/ record.ordinal = QuestionCount THEN 0 ELSE count + 1

Consecutive(count, record) == IF record.status = "success" THEN 0 ELSE count + 1

\* Variant: the fourth failure aborts.
AbortsLate(count) ==
    IF count > Threshold THEN "three_consecutive_system_errors"
    ELSE IF day # started THEN "date_rollover" ELSE Absent

AbortReason(count) ==
    IF count >= Threshold THEN "three_consecutive_system_errors"
    ELSE IF day # started THEN "date_rollover" ELSE Absent

(* The record is on disk before the counters change; the attempt that is   *)
(* answered by a database error leaves the session broken, and nothing     *)
(* rolls it back.                                                          *)
EndAttempt(outcome, breaks) ==
    /\ stage = "answer"
    /\ breaks => outcome = "fatal"
    /\ broken => outcome = "fatal" /\ breaks
    /\ LET done == [attempts[Len(attempts)] EXCEPT !.ended = day, !.outcome = outcome]
           list == Kept(attempts, done)
           record == Record(list)
           why == AbortReason(Consecutive(consecutive, record))
       IN  IF Retries(list)
           THEN /\ attempts' = list
                /\ stage' = "ask"
                /\ UNCHANGED <<records, consecutive, status, reason>>
           ELSE /\ records' = Append(records, record)
                /\ attempts' = <<>>
                /\ consecutive' = Consecutive(consecutive, record)
                /\ reason' = why
                /\ status' = IF why = Absent THEN status ELSE "aborted"
                /\ stage' = IF why # Absent \/ Len(records') = Rounds * QuestionCount
                            THEN "after" ELSE "ask"
    /\ broken' = breaks
    /\ UNCHANGED <<corpus, before, after, day, started, index, manifest>>

(* Ctrl-C, or an error outside run_attempt: the question is not recorded.  *)
Interrupt ==
    /\ stage \in {"ask", "answer"}
    /\ status' = "aborted" /\ reason' = "unhandled_interruption"
    /\ attempts' = <<>> /\ stage' = "after"
    /\ UNCHANGED <<corpus, before, after, day, started, records, index, broken,
                   consecutive, manifest>>

-----------------------------------------------------------------------------
(* The finally block.                                                      *)
ReadAfter ==
    /\ stage = "after" /\ ~IsRead(after)
    /\ after' = ReadStore(after)
    /\ UNCHANGED <<stage, corpus, before, day, started, records, attempts, index, broken,
                   consecutive, status, reason, manifest>>

\* Variant: Chroma is left out of the comparison.
MatchWithoutChroma(one, other) ==
    one.database = other.database /\ one.bm25 = other.bm25

(* comparable_fingerprint: everything but captured_at.                     *)
FingerprintsMatch(one, other) == one = other

Settle(unchanged, why) ==
    /\ stage' = "ended"
    /\ status' = IF status = "completed" /\ ~unchanged THEN "invalid" ELSE status
    /\ reason' = IF status = "completed" /\ ~unchanged THEN why ELSE reason
    /\ UNCHANGED <<corpus, before, day, started, records, attempts, index, broken,
                   consecutive, manifest>>

WriteSummary ==
    /\ stage = "after" /\ IsRead(after)
    /\ Settle(FingerprintsMatch(before, after), "corpus_fingerprint_changed")
    /\ after' = after

(* The second fingerprint, or the disposal of the engine after it, fails.  *)
FinalizationFails ==
    /\ stage = "after"
    /\ IF IsRead(after)
       THEN Settle(FALSE, IF FingerprintsMatch(before, after) THEN "finalization_error"
                          ELSE "corpus_fingerprint_changed") /\ after' = after
       ELSE Settle(FALSE, "corpus_fingerprint_unavailable") /\ after' = Unread

-----------------------------------------------------------------------------
(* validate_run_artifacts: what the gate finds wrong with the files.       *)
RowsOf(round) == {n \in DOMAIN records : records[n].round = round}

(* Sorted by their ordinals, the rows of a round are the frozen order.     *)
InFrozenOrder(round) ==
    /\ Cardinality(RowsOf(round)) = QuestionCount
    /\ {records[n].ordinal : n \in RowsOf(round)} = 1..QuestionCount

RightAttempts(r) ==
    /\ Len(r.attempts) \in 1..2
    /\ Len(r.attempts) = 2 => r.attempts[1].outcome = "retryable"
    /\ IF r.status = "success"
       THEN /\ r.selected \in DOMAIN r.attempts
            /\ r.attempts[r.selected].outcome = "success"
            /\ \A i \in 1..r.selected - 1 : r.attempts[i].outcome # "success"
       ELSE \A i \in DOMAIN r.attempts : r.attempts[i].outcome # "success"

ObservedDates ==
    UNION {{a.began, a.ended} : a \in UNION {ToSet(records[n].attempts) : n \in DOMAIN records}}

ManifestGate ==
    /\ status = "completed"
    /\ FingerprintsMatch(before, after)
    /\ Len(records) = Rounds * QuestionCount
    /\ \A round \in 1..Rounds : InFrozenOrder(round)
    /\ \A n \in DOMAIN records : RightAttempts(records[n])
    /\ ObservedDates = {started}

MakeManifest ==
    /\ stage = "ended" /\ ~manifest /\ ManifestGate
    /\ manifest' = TRUE
    /\ UNCHANGED <<stage, corpus, before, after, day, started, records, attempts,
                   index, broken, consecutive, status, reason>>
-----------------------------------------------------------------------------
RunnerStep ==
    \/ ReadBefore \/ Start \/ BeginAttempt
    \/ \E outcome \in Outcomes, breaks \in BOOLEAN : EndAttempt(outcome, breaks)
    \/ ReadAfter \/ WriteSummary

RunNext ==
    \/ RunnerStep \/ NoFingerprint \/ Interrupt \/ FinalizationFails
    \/ CrawlWrites \/ Midnight \/ MakeManifest

RunSpec == RunInit /\ [][RunNext]_runVars

-----------------------------------------------------------------------------
Versions == [database : 0..MaxVersion, chroma : 0..MaxVersion, bm25 : 0..MaxVersion]

Attempt ==
    [began : 1..MaxDay, ended : 0..MaxDay, outcome : Outcomes \cup {Absent}, saw : Versions]

Response ==
    [round : Nat \ {0}, ordinal : 1..QuestionCount, attempts : Seq(Attempt),
     status : {"success", "system_error"}, selected : 0..MaxAttempts]

TypeOK ==
    /\ stage \in {"before", "ask", "answer", "after", "ended", "dead"}
    /\ corpus \in [DOMAIN Unread -> 1..MaxVersion]
    /\ {before, after} \subseteq [DOMAIN Unread -> 0..MaxVersion]
    /\ day \in 1..MaxDay /\ started \in 0..MaxDay
    /\ records \in Seq(Response) /\ Len(records) <= Rounds * QuestionCount
    /\ attempts \in Seq(Attempt) /\ Len(attempts) <= MaxAttempts
    /\ index \in [for : 0..MaxVersion, version : 0..MaxVersion]
    /\ consecutive \in 0..Threshold
    /\ status \in {"completed", "aborted", "invalid"}
    /\ {broken, manifest} \subseteq BOOLEAN

(* Every answer a manifest freezes was made from the corpus whose          *)
(* fingerprint it publishes, all three stores of it, although each         *)
(* fingerprint is read store by store while a crawl round may be writing   *)
(* (corpus_fingerprint, fingerprints_match).                               *)
OneCorpus ==
    manifest =>
        \A n \in DOMAIN records : \A i \in DOMAIN records[n].attempts :
            LET a == records[n].attempts[i]
                current == before.bm25 = before.database
            IN  a.saw = [before EXCEPT !.bm25 = IF current THEN @ ELSE 0]
                \/ a.outcome = "fatal"

(* A run is cut at three system errors in a row, wherever the rounds part  *)
(* them, and for nothing less (SYSTEMIC_FAILURE_THRESHOLD).                *)
LastFailed(count) ==
    /\ Len(records) >= count
    /\ \A n \in Len(records) - count + 1 .. Len(records) : records[n].status = "system_error"

ThreeFailuresAbort ==
    reason # "unhandled_interruption" =>
        (LastFailed(Threshold) <=> reason = "three_consecutive_system_errors")

(* All questions share one session and nothing rolls it back: once the     *)
(* database fails under it, the run asks at most three more, and none of   *)
(* them is answered (run_question, execute).                               *)
BrokenSessionIsCut ==
    broken /\ stage \in {"ask", "answer"} =>
        /\ LastFailed(1) /\ ~LastFailed(Threshold)
        /\ attempts = <<>> \/ Len(attempts) = 1

(* Failures cut a run where they should, and before a broken session can   *)
(* fill it with errors (SYSTEMIC_FAILURE_THRESHOLD).                       *)
FailuresCutTheRun == ThreeFailuresAbort /\ BrokenSessionIsCut

(* The runner and the gate agree: a run that ends as completed passes the  *)
(* gate (validate_run_artifacts).                                          *)
CompletedPassesTheGate ==
    stage = "ended" /\ status = "completed" => ManifestGate

=============================================================================
