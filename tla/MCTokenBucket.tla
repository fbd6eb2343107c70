--------------------------- MODULE MCTokenBucket ---------------------------
EXTENDS TokenBucket, TLC

\* The callers are interchangeable.
Symmetry == Permutations(Callers)
=============================================================================
