--------------------------- MODULE MCLanDiscovery ---------------------------
\* TLC instance of LanDiscovery: the clock of one node is behind, the other
\* is a legacy node.
EXTENDS LanDiscovery

CONSTANTS n1, n2, a, b

\* Content a is announced with both infohashes, b as by an old client.
MCTorrents == {[v1 |-> a, v2 |-> a], [v1 |-> b, v2 |-> NoV2]}

MCSkew == [n \in Nodes |-> IF n = n2 THEN Window ELSE 0]
=============================================================================
