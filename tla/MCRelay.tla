------------------------------ MODULE MCRelay ------------------------------
\* Relay on a small instance: a message of each shape (empty, one chunk, first and
\* last, first, middle and last) between the two sides.
EXTENDS Relay

MCChunks == [d \in Sides |-> IF d = "car" THEN <<2>> ELSE <<3, 0, 1>>]
=============================================================================
