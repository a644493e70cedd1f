--------------------------- MODULE MCItemTimeline ---------------------------
(***************************************************************************)
(* A name on port 443 and a literal address on another port: both with one *)
(* provider, one after the other and at once, and the name with two.       *)
(***************************************************************************)
EXTENDS ItemTimeline

Name    == [named |-> TRUE, port443 |-> TRUE]
Literal == [named |-> FALSE, port443 |-> FALSE]

Run(endpoints, providers, workers) ==
    [endpoints |-> endpoints, providers |-> providers, workers |-> workers]

FewBatches == { Run(<< Name, Literal >>, 1, 2), Run(<< Literal, Name >>, 1, 1),
                Run(<< Name >>, 2, 2), Run(<< Name >>, 0, 1) }

\* The code's pauses are 50, 100 and 200 ms, 50 ms and 50 ms.
OneTwo  == << 1, 2 >>
JustOne == << 1 >>
=============================================================================
