---------------------------- MODULE MCPullCommand ----------------------------
(* Two shards of a model, whose sizes tell their versions apart, and a worker for each.        *)
EXTENDS PullCommand, TLC

CONSTANTS f1, f2, m, w1, w2

MCFiles == {f1, f2}
MCModel == [f \in MCFiles |-> m]
MCSize  == [f \in MCFiles |-> <<1, 2>>]
MCRequests ==
    {[files |-> MCFiles, all |-> TRUE, crew |-> {w1, w2}]} \cup
    {[files |-> MCFiles, all |-> FALSE, crew |-> {w}] : w \in {w1, w2}}
Symmetry == Permutations({w1, w2}) \cup Permutations(MCFiles)
==============================================================================
