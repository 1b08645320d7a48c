--------------------------- MODULE MCOutputClient ---------------------------
\* OutputClient on small instances.
EXTENDS OutputClient, TLC

\* Neither operations nor ids are told apart (safety runs only).
Symmetry == Permutations(Op) \cup Permutations(Id)
=============================================================================
