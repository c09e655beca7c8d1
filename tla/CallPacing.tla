----------------------------- MODULE CallPacing -----------------------------
(***************************************************************************)
(* The pacing of the calls a run of the answer evaluation makes to one     *)
(* provider (eval/run_exp07.py): a limiter that keeps the starts apart and *)
(* a recording client that defers the next start when the provider asks.   *)
(*                                                                         *)
(* There is one limiter for the LLM and one for the embeddings.  They do   *)
(* the same (the asynchronous one under a lock nobody contends for: the    *)
(* questions are asked one by one), so this is either.  Time is counted in *)
(* units of the reader's choice; time.monotonic never goes back.           *)
(***************************************************************************)
EXTENDS Integers

CONSTANTS Interval  \* minimum_interval, 60 / (rpm_limit * SAFETY_FACTOR)

VARIABLES now,
          pc,         \* "idle", "sleeping" or "calling"
          nextStart,  \* next_start
          wake,       \* when the sleep of wait() is over
          lastStart,  \* when the last call started
          askedUntil  \* the latest time a Retry-After asked to wait for

vars == <<now, pc, nextStart, wake, lastStart, askedUntil>>

MaxTime(a, b) == IF a >= b THEN a ELSE b

(* No call yet: the first one need not wait.                               *)
Init ==
    /\ now \in Nat
    /\ pc = "idle" /\ nextStart = 0 /\ wake = 0
    /\ lastStart = -Interval
    /\ askedUntil = 0

Pass ==
    /\ \E seconds \in Nat \ {0} : now' = now + seconds
    /\ UNCHANGED <<pc, nextStart, wake, lastStart, askedUntil>>

(* wait: the delay is worked out once, before the sleep.                   *)
Delay == MaxTime(0, nextStart - now)
Wait ==
    /\ pc = "idle"
    /\ wake' = now + Delay
    /\ pc' = "sleeping"
    /\ UNCHANGED <<now, nextStart, lastStart, askedUntil>>

(* A sleep may take longer than it was told to, and never less.            *)
Start ==
    /\ pc = "sleeping" /\ now >= wake
    /\ nextStart' = MaxTime(nextStart, now) + Interval
    /\ lastStart' = now
    /\ pc' = "calling"
    /\ UNCHANGED <<now, wake, askedUntil>>

Answered ==
    /\ pc = "calling"
    /\ pc' = "idle"
    /\ UNCHANGED <<now, nextStart, wake, lastStart, askedUntil>>

(* retry_after_seconds: never negative; 0 stands for a header that is      *)
(* missing or cannot be read as well.                                      *)
RetryAfter == Nat

(* defer.                                                                  *)
Deferred(seconds) == IF seconds = 0 THEN nextStart ELSE MaxTime(nextStart, now + seconds)

Fails ==
    /\ pc = "calling"
    /\ \E seconds \in RetryAfter :
         /\ nextStart' = Deferred(seconds)
         /\ askedUntil' = MaxTime(askedUntil, IF seconds = 0 THEN 0 ELSE now + seconds)
    /\ pc' = "idle"
    /\ UNCHANGED <<now, wake, lastStart>>

Next == Pass \/ Wait \/ Start \/ Answered \/ Fails

Spec == Init /\ [][Next]_vars

(* No two calls start within the interval of one another, however long a   *)
(* sleep or a call takes: late starts are not caught up with (wait).       *)
StartsAreApart == [][Start => now - lastStart >= Interval]_vars

(* Between a Retry-After and its end no call starts (defer, wait).         *)
RetryAfterIsKept == [][Start => now >= askedUntil]_vars
=============================================================================
