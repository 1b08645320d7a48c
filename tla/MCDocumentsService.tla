-------------------------- MODULE MCDocumentsService -------------------------
\* DocumentsService on small instances.
EXTENDS DocumentsService

\* Renderings of two pages; the second one may find the store full.
TwoPages == {<<1, 1>>}
UnequalPages == {<<2, 1>>}

Symmetry == Permutations(Worker) \cup Permutations(Id)
=============================================================================
