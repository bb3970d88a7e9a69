------------------------- MODULE MCConcurrencySlots -------------------------
\* Instances of ConcurrencySlots for TLC.
EXTENDS ConcurrencySlots, TLC

CONSTANTS i1, i2, r1, r2, r3, r4

OneServer  == [r \in Requests |-> i1]
TwoServers == [r \in Requests |-> IF r = r1 THEN i1 ELSE i2]
Symmetry   == Permutations(Requests)
=============================================================================
