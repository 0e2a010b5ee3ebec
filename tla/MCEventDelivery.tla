--------------------------- MODULE MCEventDelivery ---------------------------
\* TLC instance of EventDelivery: the first two events are pulls of the same
\* content, a third one of another.
EXTENDS EventDelivery

CONSTANTS h1, h2

MCInfohash == [e \in 1..NumEvents |-> IF e <= 2 THEN h1 ELSE h2]
==============================================================================
