------------------------------ MODULE MCQFifo ------------------------------
(* Instances of QFifo for TLC.                                              *)
EXTENDS QFifo, TLC
Symmetry == Permutations(Writers)
=============================================================================
