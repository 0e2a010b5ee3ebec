------------------------- MODULE MCServiceSettings -------------------------
\* TLC instance of ServiceSettings: limits that the file can only round, no limit, and a
\* policy that is absent, or caps uploads, forbids pauses and limits those already asked for.
EXTENDS ServiceSettings

MCRequests == {[up |-> 0, down |-> 0], [up |-> 1024, down |-> 400]}
MCSettable == {0, 2}
MCPolicies ==
    {[ceiling |-> 0, allow |-> TRUE, limited |-> FALSE],
     [ceiling |-> 1000, allow |-> FALSE, limited |-> TRUE]}
============================================================================
