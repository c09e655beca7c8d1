---------------------------- MODULE MCAnswering ----------------------------
(***************************************************************************)
(* A department page A (a heading and its table), a representative page B  *)
(* (one chunk has the text of A's table), the calendar P of the best bet,  *)
(* and a notice N whose text nobody else has.                              *)
(***************************************************************************)
EXTENDS Answering

Page(doc, kind, general, words) ==
    [doc |-> doc, page |-> kind, general |-> general, curriculum |-> FALSE,
     crawled |-> 1, title |-> words, phone |-> FALSE]

Piece(page, id, at, text, table, heading, words) ==
    [id |-> id, doc |-> page.doc, at |-> at, table |-> table, long |-> table,
     heading |-> heading, text |-> text, page |-> page.page, general |-> page.general,
     curriculum |-> page.curriculum, crawled |-> page.crawled, words |-> words,
     title |-> page.title, phone |-> page.phone]

A == Page("A", "academic", FALSE, {})
B == Page("B", "academic", TRUE, {"leave"})
P == Page("P", "schedule", TRUE, {})
N == Page("N", "notice", FALSE, {})

MCChunks == {Piece(A, "a1", 1, "head", FALSE, TRUE, {}),
             Piece(A, "a2", 2, "table", TRUE, TRUE, {"leave"}),
             Piece(B, "b1", 1, "table", TRUE, TRUE, {"leave"}),
             Piece(B, "b2", 2, "more", TRUE, FALSE, {"leave"}),
             Piece(P, "p1", 1, "days", FALSE, TRUE, {}),
             Piece(N, "n1", 1, "table", FALSE, TRUE, {})}

Ask(intent, words, detail, pin) ==
    [intent |-> intent, words |-> words, certificate |-> FALSE, detail |-> detail, pin |-> pin]

MCQuestions == {Ask("requirement", {"leave"}, TRUE, NoPin),
                Ask("deadline", {}, FALSE, "P"),
                Ask("factual", {}, TRUE, NoPin)}

(* Lists of distinct chunks, the best a strong or a weak hit.              *)
Lists(n) == UNION {{s \in [1..k -> MCChunks] : \A i, j \in 1..k : i # j => s[i].id # s[j].id} : k \in 0..n}
Found(s, distance) ==
    [i \in DOMAIN s |-> [chunk |-> s[i], distance |-> distance + 2000 * (i - 1)]]
Unnamed == [chunk |-> NoChunk, distance |-> 0]
MCSemanticHits ==
    {Found(s, distance) : s \in Lists(2), distance \in {111, 1500}}
      \cup {<<Unnamed>> \o Found(s, 111) : s \in Lists(1)}
MCKeywordRows ==
    {[i \in DOMAIN s |-> [chunk |-> s[i], raw |-> raw \div i, overlap |-> i]] :
       s \in Lists(2), raw \in {4000, 0}}

MCDrafts ==
    {[answerability |-> a, numbers |-> n, steps |-> TRUE, notes |-> TRUE] :
       a \in {"answerable", "insufficient"}, n \in {<<>>, <<2, 1, 2>>, <<3>>}}
=============================================================================
