-------------------------- MODULE MCPthreadQueue --------------------------
(* Instance of PthreadQueue for TLC.                                        *)
EXTENDS PthreadQueue, TLC

Symmetry == Permutations(Threads)
=============================================================================
