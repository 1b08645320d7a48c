---------------------------- MODULE MCOutputStore ----------------------------
\* OutputStore on small instances.
EXTENDS OutputStore, TLC

\* Neither threads nor ids are told apart (safety runs only).
Symmetry == Permutations(Worker) \cup Permutations(Id)
=============================================================================
