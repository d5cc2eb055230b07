---------------------------- MODULE MCOneToMany ----------------------------
EXTENDS OneToMany, TLC

CONSTANTS p1, p2, t1, t2

\* Partitions are interchangeable, and so are the threads of the pool.
Symmetry == Permutations(Threads) \cup Permutations(Partitions)
=============================================================================
