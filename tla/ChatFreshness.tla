---------------------------- MODULE ChatFreshness ----------------------------
(***************************************************************************)
(* How old a cached answer can be.  The endpoint does not invalidate the   *)
(* cache when a round publishes a new corpus: an entry goes at the end of  *)
(* its TTL and at no other time, so what bounds its age is who started the *)
(* TTL.  A history variable remembers when a request was made; it changes  *)
(* nothing in ChatService.                                                 *)
(***************************************************************************)
EXTENDS ChatService

VARIABLE since  \* request -> the version of the corpus when it was made; 0
                \* once it can set no entry any more

\* Steps from which a request may still reach the cache.
BeforeStore == {"lookup", "checkout", "retrieve", "evidence", "generate", "store"}

\* cache.set(key, response, ttl=chat_cache_ttl_seconds) of request r went well.
Sets(r, key) ==
    /\ pc[r] = "store" /\ pc'[r] = "done"
    /\ Key(r) = key
    /\ cache'[key] = reply[r]

FreshInit == Init /\ since = [r \in Requests |-> version]

FreshNext ==
    /\ Next
    /\ since' = [r \in Requests |->
                    CASE asked[r] = None -> version'
                      [] asked[r] # None /\ pc'[r] \in BeforeStore -> since[r]
                      [] OTHER -> 0]

FreshSpec == FreshInit /\ [][FreshNext]_<<vars, since>> /\ Fairness
-----------------------------------------------------------------------------
(* Whoever starts the TTL of an answer, has retrieved it itself: its corpus *)
(* is no older than the one the request found when it was made.  So what    *)
(* is cached is at most one TTL and the time of one request behind the      *)
(* corpus, however often it is asked for and whichever of two slow requests *)
(* stores last: a hit neither sets the entry again nor passes on an old     *)
(* answer as a new one (chat.py:98-112, 176, 340).                          *)
AnswersStartTheirOwnTtl ==
    [][\A key \in Keys : cache'[key] \in Answers =>
          /\ \A r \in Requests : Sets(r, key) => since[r] <= cache'[key].version
          /\ cache'[key] = cache[key] \/ \E r \in Requests : Sets(r, key)
      ]_<<vars, since>>
=============================================================================
