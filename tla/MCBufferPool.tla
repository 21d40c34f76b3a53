---------------------------- MODULE MCBufferPool ----------------------------
(* An instance of BufferPool for TLC.                                       *)
EXTENDS BufferPool
=============================================================================
