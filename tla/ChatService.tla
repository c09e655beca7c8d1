---------------------------- MODULE ChatService ----------------------------
(***************************************************************************)
(* The chat endpoint with any number of clients: they ask, and leave       *)
(* whenever they like.  Nothing is taken off a stream here, so wire[r] is  *)
(* all that request r was sent.                                            *)
(***************************************************************************)
EXTENDS ChatEndpoint

vars == <<wireVars, endpointVars>>

TypeOK == WireTypeOK /\ EndpointTypeOK

Init == WireInit /\ EndpointInit

Asks(r, question) ==
    /\ ClientAsks(r, question)
    /\ pc' = [pc EXCEPT ![r] = "lookup"]
    /\ UNCHANGED <<reply, cache, holding, providers, logs>>

Leaves(r) == ClientLeaves(r) /\ UNCHANGED endpointVars

NewCorpus == Publish /\ UNCHANGED endpointVars

Next ==
    \/ NewCorpus
    \/ \E key \in Keys : Expire(key)
    \/ \E r \in Requests :
         \/ Serve(r) \/ Cancelled(r) \/ Leaves(r)
         \/ \E q \in Questions : Asks(r, q)

(* The endpoint goes on: its awaits return or time out (the LLM client of  *)
(* LlamaCppProvider after 60 seconds, a checkout after the pool's 30), and *)
(* a generator whose client is gone is cancelled.                          *)
Fairness == \A r \in Requests : WF_vars(Serve(r) \/ Cancelled(r))

Spec == Init /\ [][Next]_vars /\ Fairness
-----------------------------------------------------------------------------
(* A request is logged at most once; what is logged as an answer was sent  *)
(* as one, and a logged failure never comes with a done event              *)
(* (chat.py:96-207: the log comes after done and before error, and neither *)
(* path falls into the other).                                             *)
Sent(r, kind) == \E i \in DOMAIN wire[r] : wire[r][i].kind = kind

LogMatchesStream ==
    \A r \in Requests :
        /\ Len(logs[r]) <= 1
        /\ logs[r] = <<"failure">> => ~Sent(r, "done")
        /\ logs[r] \in {<<"hit">>, <<"success">>} /\ reader[r] = "reading" => Sent(r, "done")

(* The contract of the stream, with its liveness: whatever fails, a reader *)
(* who stays is told an answer to its question or an error, once, last.    *)
Contract == INSTANCE ChatStream WITH told <- {r \in Requests : Sent(r, "done")}
ContractKept == Contract!StreamSpec
=============================================================================
