------------------------------ MODULE ByteBudget -----------------------------
(***************************************************************************)
(* The number of bytes some documents take together.  A byte is a pair of  *)
(* a document and a position in it, so adding the sizes up is counting the *)
(* bytes: a cardinality, about which more can be proved than about a fold. *)
(***************************************************************************)
EXTENDS Integers, FiniteSets

\* size maps ids to lengths.
Bytes(size) == UNION {{id} \X (1 .. size[id]) : id \in DOMAIN size}

TotalBytes(size) == Cardinality(Bytes(size))
=============================================================================
