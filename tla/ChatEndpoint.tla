---------------------------- MODULE ChatEndpoint ----------------------------
(***************************************************************************)
(* POST /chat: the generator _chat_events, one process per request, over   *)
(* the answer cache in Redis, a pool of database connections and the log.  *)
(*                                                                         *)
(* A step ends at an await whose outcome others can change or see: a cache *)
(* read or write, a checkout of a connection, the call of the LLM, a log   *)
(* write, an event that the client may read or give up on.                 *)
(***************************************************************************)
EXTENDS ChatWire

CONSTANTS PoolSize,  \* database connections (the pool of app/core/db.py)
          Corrupt    \* a cache entry that no longer validates

ASSUME EndpointAssumption ==
    /\ PoolSize \in Nat \ {0}
    /\ None \notin Answers
    /\ Corrupt \notin Answers \cup {None}

VARIABLES pc,         \* request -> where its generator is
          reply,      \* request -> the answer built for it, local to its generator
          cache,      \* key -> cached answer
          holding,    \* the requests that hold a connection
          providers,  \* the requests that hold an open LLM provider
          logs        \* request -> the statuses logged for it, in order

endpointVars == <<pc, reply, cache, holding, providers, logs>>

Steps == {"idle", "lookup", "logHit", "checkout", "retrieve", "evidence", "generate",
          "store", "done", "logSuccess", "logInvalid", "logFailure", "error", "end"}

Keys == {KeyOf[q] : q \in Questions}
Key(r) == KeyOf[asked[r]]

EndpointTypeOK ==
    /\ pc \in [Requests -> Steps]
    /\ reply \in [Requests -> Answers \cup {None}]
    /\ cache \in [Keys -> Answers \cup {None, Corrupt}]
    /\ holding \subseteq Requests
    /\ providers \subseteq Requests
    /\ logs \in [Requests -> Seq({"hit", "success", "failure"})]

(* The cache outlives the server: an entry of an older release may have    *)
(* the required fields and still not validate.                             *)
EndpointInit ==
    /\ pc = [r \in Requests |-> "idle"]
    /\ reply = [r \in Requests |-> None]
    /\ cache \in [Keys -> {None, Corrupt}]
    /\ holding = {}
    /\ providers = {}
    /\ logs = [r \in Requests |-> <<>>]

Goto(r, step) == pc' = [pc EXCEPT ![r] = step]
(* The reply is local to the generator: dropped when it is of no more use. *)
ForgetReply(r) == reply' = [reply EXCEPT ![r] = None]

(* _safe_cache_get: an error of the cache is a miss.                       *)
CacheMiss(r) ==
    /\ pc[r] = "lookup"
    /\ Goto(r, "checkout")
    /\ Send(r, Status)
    /\ UNCHANGED <<reply, cache, holding, providers, logs, asked, closed, reader, version>>

\* Variant: a cached value is sent as it is.
AnswerUnvalidated(r) ==
    /\ pc[r] = "lookup"
    /\ cache[Key(r)] # None
    /\ Send(r, Done(cache[Key(r)]))
    /\ Goto(r, "logHit")
    /\ UNCHANGED <<reply, cache, holding, providers, logs, asked, closed, reader, version>>

\* Variant: a hit takes the way of a new answer, and is set again.
AnswerFromCacheAgain(r) ==
    /\ pc[r] = "lookup"
    /\ cache[Key(r)] \in Answers
    /\ reply' = [reply EXCEPT ![r] = cache[Key(r)]]
    /\ Goto(r, "store")
    /\ UNCHANGED <<cache, holding, providers, logs, wireVars>>

AnswerFromCache(r) ==
    /\ pc[r] = "lookup"
    /\ cache[Key(r)] \in Answers
    /\ Send(r, Done(cache[Key(r)]))
    /\ Goto(r, "logHit")
    /\ UNCHANGED <<reply, cache, holding, providers, logs, asked, closed, reader, version>>

(* _coerce_chat_response is outside the suppress of the cache read.        *)
CacheEntryInvalid(r) ==
    /\ pc[r] = "lookup"
    /\ cache[Key(r)] = Corrupt
    /\ Goto(r, "logFailure")
    /\ UNCHANGED <<reply, cache, holding, providers, logs, wireVars>>

Checkout(r) ==
    /\ pc[r] = "checkout"
    /\ Cardinality(holding) < PoolSize
    /\ holding' = holding \cup {r}
    /\ Goto(r, "retrieve")
    /\ UNCHANGED <<reply, cache, providers, logs, wireVars>>

PoolExhausted(r) ==
    /\ pc[r] = "checkout"
    /\ Cardinality(holding) >= PoolSize
    /\ Goto(r, "logFailure")
    /\ UNCHANGED <<reply, cache, holding, providers, logs, wireVars>>

(* The session ends with the retrieval, before the LLM is called.          *)
Retrieve(r) ==
    /\ pc[r] = "retrieve"
    /\ reply' = [reply EXCEPT ![r] = [question |-> asked[r], version |-> version]]
    /\ holding' = holding \ {r}
    /\ Send(r, Status)
    /\ Goto(r, "evidence")
    /\ UNCHANGED <<cache, providers, logs, asked, closed, reader, version>>

RetrievalFails(r) ==
    /\ pc[r] = "retrieve"
    /\ holding' = holding \ {r}
    /\ Goto(r, "logFailure")
    /\ UNCHANGED <<reply, cache, providers, logs, wireVars>>

(* Whether filter_evidence_candidates leaves evidence is left open.        *)
(* Without any the answer is insufficient_response, and no LLM is called.  *)
NoEvidence(r) ==
    /\ pc[r] = "evidence"
    /\ Goto(r, "store")
    /\ UNCHANGED <<reply, cache, holding, providers, logs, wireVars>>

MakeProvider(r) ==
    /\ pc[r] = "evidence"
    /\ providers' = providers \cup {r}
    /\ Send(r, Status)
    /\ Goto(r, "generate")
    /\ UNCHANGED <<reply, cache, holding, logs, asked, closed, reader, version>>

(* The finally clause closes the provider whatever generate_answer does.   *)
Generate(r) ==
    /\ pc[r] = "generate"
    /\ providers' = providers \ {r}
    /\ Send(r, Status)
    /\ Goto(r, "store")
    /\ UNCHANGED <<reply, cache, holding, logs, asked, closed, reader, version>>

(* Two outputs in a row that are no answer: LLMOutputValidationError.      *)
OutputInvalid(r) ==
    /\ pc[r] = "generate"
    /\ ForgetReply(r)
    /\ Goto(r, "logInvalid")
    /\ UNCHANGED <<cache, holding, providers, logs, wireVars>>

(* The provider cannot be made, raises, or times out.                      *)
ProviderFails(r) ==
    /\ pc[r] \in {"evidence", "generate"}
    /\ providers' = providers \ {r}
    /\ ForgetReply(r)
    /\ Goto(r, "logFailure")
    /\ UNCHANGED <<cache, holding, logs, wireVars>>

\* Variant: logged before it is sent, and sent never.
StoreWithoutDone(r) ==
    /\ pc[r] = "store"
    /\ cache' \in {cache, [cache EXCEPT ![Key(r)] = reply[r]]}
    /\ Goto(r, "logSuccess")
    /\ UNCHANGED <<reply, holding, providers, logs, wireVars>>

(* _safe_cache_set: an error of the cache loses the entry, nothing else.   *)
CacheStore(r) ==
    /\ pc[r] = "store"
    /\ cache' \in {cache, [cache EXCEPT ![Key(r)] = reply[r]]}
    /\ Goto(r, "done")
    /\ UNCHANGED <<reply, holding, providers, logs, wireVars>>

SendDone(r) ==
    /\ pc[r] = "done"
    /\ Send(r, Done(reply[r]))
    /\ ForgetReply(r)
    /\ Goto(r, "logSuccess")
    /\ UNCHANGED <<cache, holding, providers, logs, asked, closed, reader, version>>

(* _write_chat_log: one row per call, after the rows of the request.       *)
Logged(r, status) == [logs EXCEPT ![r] = Append(@, status)]

(* _safe_write_chat_log_with_session: its own session; an error, an        *)
(* exhausted pool included, loses the record.                              *)
WriteLog(r, status) ==
    \/ Cardinality(holding) < PoolSize /\ logs' = Logged(r, status)
    \/ UNCHANGED logs

LogAnswer(r) ==
    /\ \/ pc[r] = "logHit" /\ WriteLog(r, "hit")
       \/ pc[r] = "logSuccess" /\ WriteLog(r, "success")
    /\ closed' = closed \cup {r}
    /\ Goto(r, "end")
    /\ UNCHANGED <<reply, cache, holding, providers, asked, wire, reader, version>>

LogFailure(r) ==
    /\ pc[r] \in {"logInvalid", "logFailure"}
    /\ WriteLog(r, "failure")
    /\ Goto(r, "error")
    /\ UNCHANGED <<reply, cache, holding, providers, wireVars>>

\* Variant: no return after the error event of an invalid output.
ErrorFallsThrough(r) ==
    /\ pc[r] = "error"
    /\ Send(r, Error)
    /\ providers' = providers \ {r}
    /\ Goto(r, "logSuccess")
    /\ UNCHANGED <<reply, cache, holding, logs, asked, closed, reader, version>>

(* The error event ends the stream; the return of an invalid output also   *)
(* runs the finally clause that closes the provider.                       *)
SendError(r) ==
    /\ pc[r] = "error"
    /\ Send(r, Error)
    /\ closed' = closed \cup {r}
    /\ providers' = providers \ {r}
    /\ Goto(r, "end")
    /\ UNCHANGED <<reply, cache, holding, logs, asked, reader, version>>

(* The client is gone: the generator is cancelled at the await it is in.   *)
(* CancelledError passes the except clauses and runs the finally ones.     *)
Cancelled(r) ==
    /\ pc[r] \notin {"idle", "end"}
    /\ ~Listening(r)
    /\ holding' = holding \ {r}
    /\ providers' = providers \ {r}
    /\ closed' = closed \cup {r}
    /\ ForgetReply(r)
    /\ Goto(r, "end")
    /\ UNCHANGED <<cache, logs, asked, wire, reader, version>>

(* chat_cache_ttl_seconds.                                                 *)
Expire(key) ==
    /\ cache[key] # None
    /\ cache' = [cache EXCEPT ![key] = None]
    /\ UNCHANGED <<pc, reply, holding, providers, logs, wireVars>>

Serve(r) ==
    \/ CacheMiss(r) \/ AnswerFromCache(r) \/ CacheEntryInvalid(r)
    \/ Checkout(r) \/ PoolExhausted(r) \/ Retrieve(r) \/ RetrievalFails(r)
    \/ NoEvidence(r) \/ MakeProvider(r) \/ Generate(r) \/ OutputInvalid(r) \/ ProviderFails(r)
    \/ CacheStore(r) \/ SendDone(r) \/ LogAnswer(r) \/ LogFailure(r) \/ SendError(r)
=============================================================================
