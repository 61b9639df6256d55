----------------------------- MODULE MCNodeReach -----------------------------
EXTENDS NodeReach

CONSTANTS r1, r2, r3, a, b, c

\* Two requests for one node and one for another, or three for three.
MCAsks == {[r \in Request |-> IF r = r1 THEN a ELSE b],
           [r \in Request |-> CASE r = r1 -> a [] r = r2 -> b [] OTHER -> c]}
==============================================================================
