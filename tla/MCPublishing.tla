---------------------------- MODULE MCPublishing -----------------------------
\* TLC instance of Publishing: two shards of one quantization, which share a model id, and
\* the collection they are in.
EXTENDS Publishing, TLC

CONSTANTS shard1, shard2, coll, quant, set

MCModel == [i \in Items |-> IF i \in Collections THEN set ELSE quant]

Symmetry ==
    UNION {Permutations(S) : S \in {{shard1, shard2}, SeedJobs, QBRequests, TXRequests}}
==============================================================================
