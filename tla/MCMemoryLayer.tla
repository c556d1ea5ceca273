--------------------------- MODULE MCMemoryLayer ---------------------------
(* Small instances of MemoryLayer for TLC.                                 *)
EXTENDS MemoryLayer, TLC

CONSTANTS laptop, ci, step, oldRef, newRef

Symmetry == Permutations({laptop, ci}) \union Permutations({oldRef, newRef})
=============================================================================
