----------------------- MODULE MCSystemOperationLock -----------------------
EXTENDS SystemOperationLock, TLC

CONSTANTS o1, o2, o3

\* Operations are interchangeable.
Symmetry == Permutations(Operations)

=============================================================================
