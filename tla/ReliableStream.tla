--------------------------- MODULE ReliableStream ---------------------------
(***************************************************************************)
(* What a reliable datagram connection promises: in either direction the    *)
(* messages arrive in the order they were sent, none missing, none twice.   *)
(* Messages are numbered in the order of sending.                           *)
(***************************************************************************)
EXTENDS Integers, Sequences

CONSTANTS Ends, Peer(_)

VARIABLES sent,     \* sent[e]: how many messages e has sent
          rcvd      \* rcvd[e]: the messages e's connection has received

vars == <<sent, rcvd>>

FirstN(n) == [i \in 1 .. n |-> i]

Init == sent = [e \in Ends |-> 0] /\ rcvd = [e \in Ends |-> <<>>]

Send(e) == sent' = [sent EXCEPT ![e] = @ + 1] /\ UNCHANGED rcvd

(* One arrival may release several messages that came early.                *)
Receive(e) == /\ \E n \in Len(rcvd[e]) + 1 .. sent[Peer(e)] :
                   rcvd' = [rcvd EXCEPT ![e] = FirstN(n)]
              /\ UNCHANGED sent

(* A new connection to e starts from nothing.                               *)
Reconnect(e) == rcvd' = [rcvd EXCEPT ![e] = <<>>] /\ UNCHANGED sent

Next == \E e \in Ends : Send(e) \/ Receive(e) \/ Reconnect(e)

Spec == Init /\ [][Next]_vars
=============================================================================
