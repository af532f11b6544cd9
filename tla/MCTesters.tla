----------------------------- MODULE MCTesters -----------------------------
(***************************************************************************)
(* A small instance of Testers: two monitors that disagree on some         *)
(* histories and crash on others.                                          *)
(***************************************************************************)
EXTENDS Testers

Histories == UNION {AllHistories(n) : n \in Lengths}

SomeSizes == [exhaustive |-> 1 .. 3, automata_checker |-> 1 .. 2, random |-> 1 .. 3]

\* Linearizable are those in which value 1 comes late, and, wrongly, two that
\* the automaton catches.
Verdict(h) == IF (\A k \in 1 .. 4 : h[k] = 0) \/ h = <<0, 0, 1, 1, 0, 0, 1, 1>>
              THEN "lin" ELSE "viol"
Answer == [h \in Histories |-> Verdict(h)]

\* Few answers are different, so that there are not too many messages.
OtherAnswer ==
  [h \in Histories |-> IF h = <<0, 0, 1, 0, 0, 1, 1, 1>> THEN "lin"
                       ELSE IF h = <<0, 1, 1, 1, 0, 0, 0, 1>> THEN "crash"
                       ELSE Verdict(h)]

\* A history of every outcome.
SomeDrawn ==
  [n \in Lengths |->
     IF n = 1 THEN {<<0, 0, 0, 0>>}
     ELSE {<<0, 0, 0, 0, 1, 1, 1, 1>>, <<0, 0, 1, 1, 1, 1, 0, 0>>,
           <<0, 0, 1, 0, 0, 1, 1, 1>>, <<0, 1, 1, 1, 0, 0, 0, 1>>}]
=============================================================================
