----------------------------- MODULE MCAtomicFile -----------------------------
(* An instance of AtomicFile: a long document and a short one, so that the    *)
(* short one does not cover the long one's end.                               *)
EXTENDS AtomicFile

CONSTANTS long, short

MCBlocks == [d \in {long, short} |-> IF d = long THEN 2 ELSE 1]
=============================================================================
