------------------------------- MODULE MCChat -------------------------------
EXTENDS ChatFreshness, TLC

CONSTANTS q1, q2, q3

(* q1 and q2 are one question up to case and spaces.                       *)
MCQuestions == {q1, q2, q3}
MCKeyOf == q1 :> q1 @@ q2 :> q1 @@ q3 :> q3
=============================================================================
