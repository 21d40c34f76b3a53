------------------------------- MODULE RdpSeq -------------------------------
(***************************************************************************)
(* The wrapping 16-bit sequence arithmetic of transport/csp_rdp.c.  SeqSpace  *)
(* is 2^16 in the code; every operand is reduced to uint16_t first.         *)
(***************************************************************************)
EXTENDS Integers

CONSTANT SeqSpace

ASSUME SeqSpaceAssumption == SeqSpace \in Nat /\ SeqSpace > 1 /\ SeqSpace % 2 = 0

SeqNr == 0 .. SeqSpace - 1

Wrap16(x) == x % SeqSpace

(* seq lies between start and end, both inclusive, going upwards.           *)
SeqBetween(seq, start, end) == Wrap16(end - start) >= Wrap16(seq - start)

(* (int16_t)(seq - cmp) < 0                                                 *)
SeqBefore(seq, cmp) == Wrap16(seq - cmp) >= SeqSpace \div 2

SeqAfter(seq, cmp) == SeqBefore(cmp, seq)
=============================================================================
