----------------------------- MODULE MCConnPool -----------------------------
(* Instances of ConnPool for TLC.                                           *)
EXTENDS ConnPool, TLC
Symmetry == Permutations(Clients) \cup Permutations(Peers)

(* A stolen connection has two users that interfere in every way: past the   *)
(* theft, follow it without lock timeouts, one connection and few packets.  *)
Used(c) == Len(conn[c].rx) + conn[c].events
AfterTheft ==
  stolen # {} => /\ abandoned = {} /\ Cardinality(stolen) = 1
                 /\ \A c \in Conns : Used(c) <= IF c \in stolen THEN 2 ELSE 1
=============================================================================
