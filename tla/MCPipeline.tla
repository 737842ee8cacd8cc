----------------------------- MODULE MCPipeline -----------------------------
(* Jobs that compete for c1, which holds one job; j2 can also run on the    *)
(* other dispatchable clusters, "big" fits nowhere, and "emu" only on the   *)
(* emulated cluster.                                                        *)
EXTENDS Pipeline, TLC

CONSTANTS j1, j2, big, emu

MCFeasible ==
  [j \in Jobs |-> CASE j = big -> {}
                    [] j = emu -> Clusters \ Dispatchable
                    [] j = j2  -> Dispatchable
                    [] OTHER   -> {"c1"}]

MCRoom == [c \in Clusters |-> 1]

\* Half a second past, and one and two hundredths later: "05.5Z" is listed last.
MCClock == <<<<5>>, <<5, 1>>, <<5, 2>>>>

\* With c1 alone to run on, j1 and j2 are alike.
MCSymmetry == Permutations({j1, j2})
=============================================================================
