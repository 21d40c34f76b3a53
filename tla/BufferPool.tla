----------------------------- MODULE BufferPool -----------------------------
(***************************************************************************)
(* The packet buffers of libcsp (csp_buffer.c): a queue of free buffers and *)
(* a reference count in each buffer that no lock protects.  Tasks get and   *)
(* free buffers, and hand them to each other through queues; a task that    *)
(* frees a buffer or hands it over does not use it any more.                *)
(***************************************************************************)
EXTENDS Integers

CONSTANTS Tasks, Buffers, NoBuffer

ASSUME NoBufferAssumption == NoBuffer \notin Buffers

VARIABLES
  free,       \* free[b]: how often b is in the queue csp_buffers
  refcount,   \* refcount[b]: the count in the header of b
  has,        \* has[t]: the buffers task t may use
  pc,         \* where each task is in csp_buffer_get or csp_buffer_free
  buf         \* buf[t]: the buffer it works on there

vars == <<free, refcount, has, pc, buf>>

(* idle -> count -> idle: csp_buffer_get.                                   *)
(* idle -> test -> reset -> enqueue -> idle: csp_buffer_free.               *)
PCs == {"idle", "count", "test", "reset", "enqueue"}

TypeOK == /\ free \in [Buffers -> Nat]
          /\ refcount \in [Buffers -> Nat]
          /\ has \in [Tasks -> SUBSET Buffers]
          /\ pc \in [Tasks -> PCs]
          /\ buf \in [Tasks -> Buffers \cup {NoBuffer}]

Init == /\ free = [b \in Buffers |-> 1]
        /\ refcount = [b \in Buffers |-> 0]
        /\ has = [t \in Tasks |-> {}]
        /\ pc = [t \in Tasks |-> "idle"]
        /\ buf = [t \in Tasks |-> NoBuffer]

Finish(t) == /\ pc' = [pc EXCEPT ![t] = "idle"]
             /\ buf' = [buf EXCEPT ![t] = NoBuffer]
Goto(t, l) == pc' = [pc EXCEPT ![t] = l] /\ UNCHANGED buf

(* Mutant: a buffer fresh from the queue is not counted.                    *)
Uncounted(t) ==
  /\ pc[t] = "count"
  /\ has' = [has EXCEPT ![t] = @ \cup {buf[t]}]
  /\ Finish(t)
  /\ UNCHANGED <<free, refcount>>

(* Mutant: the buffer is read from the queue, not removed.                  *)
Peek(t) == \E b \in Buffers :
  /\ pc[t] = "idle"
  /\ free[b] > 0
  /\ pc' = [pc EXCEPT ![t] = "count"]
  /\ buf' = [buf EXCEPT ![t] = b]
  /\ UNCHANGED <<free, refcount, has>>

(* Mutant: an empty queue is not noticed.                                   *)
DequeueNull(t) ==
  /\ pc[t] = "idle"
  /\ pc' = [pc EXCEPT ![t] = "count"]
  /\ \E b \in Buffers :
       IF free[b] > 0
       THEN free' = [free EXCEPT ![b] = @ - 1] /\ buf' = [buf EXCEPT ![t] = b]
       ELSE UNCHANGED <<free, buf>>
  /\ UNCHANGED <<refcount, has>>

(* csp_buffer_get: take a buffer from the queue ...                         *)
Dequeue(t) == \E b \in Buffers :
  /\ pc[t] = "idle"
  /\ free[b] > 0
  /\ free' = [free EXCEPT ![b] = @ - 1]
  /\ pc' = [pc EXCEPT ![t] = "count"]
  /\ buf' = [buf EXCEPT ![t] = b]
  /\ UNCHANGED <<refcount, has>>

(* ... and count the reference.                                             *)
Count(t) ==
  /\ pc[t] = "count"
  /\ refcount' = [refcount EXCEPT ![buf[t]] = @ + 1]
  /\ has' = [has EXCEPT ![t] = @ \cup {buf[t]}]
  /\ Finish(t)
  /\ UNCHANGED free

(* csp_buffer_free: a task gives up a buffer and looks at its count,        *)
Free(t) == \E b \in has[t] :
  /\ pc[t] = "idle"
  /\ has' = [has EXCEPT ![t] = @ \ {b}]
  /\ pc' = [pc EXCEPT ![t] = "test"]
  /\ buf' = [buf EXCEPT ![t] = b]
  /\ UNCHANGED <<free, refcount>>

(* Mutant: the count is not reset before the buffer is free again.          *)
TestOnly(t) ==
  /\ pc[t] = "test"
  /\ refcount[buf[t]] = 1
  /\ Goto(t, "enqueue")
  /\ UNCHANGED <<free, refcount, has>>

(* which is an error if it is zero and ends the call if others use it ...    *)
Test(t) ==
  /\ pc[t] = "test"
  /\ IF refcount[buf[t]] = 1
     THEN Goto(t, "reset") /\ UNCHANGED refcount
     ELSE /\ refcount' = [refcount EXCEPT ![buf[t]] = IF @ = 0 THEN 0 ELSE @ - 1]
          /\ Finish(t)
  /\ UNCHANGED <<free, has>>

(* ... set it to zero, then give the buffer back.                           *)
Reset(t) ==
  /\ pc[t] = "reset"
  /\ refcount' = [refcount EXCEPT ![buf[t]] = 0]
  /\ Goto(t, "enqueue")
  /\ UNCHANGED <<free, has>>

Enqueue(t) ==
  /\ pc[t] = "enqueue"
  /\ free' = [free EXCEPT ![buf[t]] = @ + 1]
  /\ Finish(t)
  /\ UNCHANGED <<refcount, has>>

(* A buffer travels through a queue (csp_qfifo, a connection, a socket).     *)
HandOver(t, u) == \E b \in has[t] :
  /\ pc[t] = "idle"
  /\ t # u
  /\ has' = [has EXCEPT ![t] = @ \ {b}, ![u] = @ \cup {b}]
  /\ UNCHANGED <<free, refcount, pc, buf>>

Step(t) == \/ Dequeue(t) \/ Count(t) \/ Free(t) \/ Test(t)
           \/ Reset(t) \/ Enqueue(t)
           \/ \E u \in Tasks : HandOver(t, u)

Next == \E t \in Tasks : Step(t)

Spec == Init /\ [][Next]_vars

-----------------------------------------------------------------------------
Busy(t, b) == pc[t] # "idle" /\ buf[t] = b
Uses(t, b) == b \in has[t] \/ Busy(t, b)

(* A buffer is in one place at a time: csp_buffer_get never gives out one     *)
(* that another task still uses, nor one that is half-way through its free. *)
Exclusive ==
  \A b \in Buffers :
    /\ free[b] <= 1
    /\ \A t \in Tasks : Uses(t, b) => free[b] = 0
    /\ \A t, u \in Tasks : Uses(t, b) /\ Uses(u, b) => t = u
    /\ \A t \in Tasks : ~(b \in has[t] /\ Busy(t, b))

(* No buffer is lost: one that nobody uses is in the queue, because its      *)
(* count was reset before it got there and is one whenever it is freed.     *)
NoneLost == \A b \in Buffers : free[b] > 0 \/ \E t \in Tasks : Uses(t, b)

(* The count tells used from free, although it is read and written without   *)
(* a lock: "Buffer already free" and "in use by" are never logged.          *)
CountTells ==
  \A b \in Buffers :
    /\ free[b] > 0 => refcount[b] = 0
    /\ \A t \in Tasks :
         /\ b \in has[t] => refcount[b] = 1
         /\ Busy(t, b) => refcount[b] = IF pc[t] \in {"test", "reset"} THEN 1 ELSE 0
=============================================================================
