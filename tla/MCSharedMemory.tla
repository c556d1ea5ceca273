--------------------------- MODULE MCSharedMemory ---------------------------
(* Small instances of SharedMemory for TLC; their constants are in the     *)
(* configurations.                                                         *)
EXTENDS SharedMemory, TLC

Symmetry == Permutations(Worker) \union Permutations(Key)
=============================================================================
