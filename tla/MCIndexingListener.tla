-------------------------- MODULE MCIndexingListener --------------------------
EXTENDS IndexingListener, TLC

Symmetry == Permutations(Replica)
===============================================================================
