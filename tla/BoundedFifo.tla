---------------------------- MODULE BoundedFifo ----------------------------
(***************************************************************************)
(* What a queue of libcsp promises its callers: a first-in first-out       *)
(* buffer of at most Size elements.  Every task hand-over of the library   *)
(* (free buffers, router input, connection receive queues, sockets) is one *)
(* of these.                                                               *)
(***************************************************************************)
EXTENDS Integers, Sequences

CONSTANTS Threads,   \* tasks that use the queue
          Items,     \* values that can be stored
          Size       \* length given to csp_queue_create

VARIABLES fifo,      \* the elements stored, oldest first
          taken      \* taken[t]: the element task t received last

vars == <<fifo, taken>>

Init == /\ fifo = <<>>
        /\ taken \in [Threads -> Items]

Put(v) == /\ Len(fifo) < Size
          /\ fifo' = Append(fifo, v)
          /\ UNCHANGED taken

Take(t) == /\ fifo # <<>>
           /\ taken' = [taken EXCEPT ![t] = Head(fifo)]
           /\ fifo' = Tail(fifo)

Next == (\E v \in Items : Put(v)) \/ (\E t \in Threads : Take(t))

Spec == Init /\ [][Next]_vars
=============================================================================
