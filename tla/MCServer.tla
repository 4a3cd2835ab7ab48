------------------------------- MODULE MCServer -------------------------------
(* Instances of Server for TLC.                                             *)
EXTENDS Server, TLC

CONSTANTS c1, c2, c3

\* Two connections talk, once each: their messages have an order.
TwoTalk == [c \in Conns |-> IF c = c3 THEN 0 ELSE 1]

\* The two are alike: neither goes away before the other end does.
Talkers == Permutations({c1, c2})

\* Only the first connection talks, once.
FirstOnce == [c \in Conns |-> IF c = c1 THEN 1 ELSE 0]

===============================================================================
