---------------------------- MODULE PthreadQueue ----------------------------
(***************************************************************************)
(* The POSIX queue of libcsp (arch/posix/pthread_queue.c): a circular      *)
(* buffer under one mutex, with a condition variable for "no longer full"  *)
(* and one for "no longer empty".  Both are broadcast after the mutex was  *)
(* released.  pthread_cond_timedwait may wake for no reason, and a waiter  *)
(* with a finite timeout may give up at any time.                          *)
(***************************************************************************)
EXTENDS Integers, Sequences

CONSTANTS Threads, Items, Size, Nobody

ASSUME SizeAssumption == Size \in Nat \ {0}
ASSUME NobodyAssumption == Nobody \notin Threads

VARIABLES buffer,      \* the circular buffer, slots 0..Size-1
          in,          \* slot written next
          out,         \* slot read next
          items,       \* number of elements stored
          mutex,       \* holder of queue->mutex, or Nobody
          pc,          \* where each task is inside the queue code
          call,        \* the call each task is executing
          got          \* the element each task dequeued last

vars == <<buffer, in, out, items, mutex, pc, call, got>>

Calls == [op : {"enqueue"}, value : Items, forever : BOOLEAN]
           \cup [op : {"dequeue"}, forever : BOOLEAN]
NoCall == [op |-> "none"]    \* the arguments went out of scope

(* idle:    outside the queue            lock:   waiting for the mutex      *)
(* test:    holds it, at the while test  asleep: in pthread_cond_timedwait  *)
(* woken:   signalled, wants the mutex   expired: timed out, wants it       *)
(* unlock:  element copied, holds it     notify: released, will broadcast   *)
PCs == {"idle", "lock", "test", "asleep", "woken", "expired", "unlock", "notify"}

Slots == 0 .. Size - 1

TypeOK == /\ buffer \in [Slots -> Items]
          /\ in \in Slots /\ out \in Slots
          /\ items \in 0 .. Size
          /\ mutex \in Threads \cup {Nobody}
          /\ pc \in [Threads -> PCs]
          /\ call \in [Threads -> Calls \cup {NoCall}]
          /\ got \in [Threads -> Items]

Init == /\ buffer \in [Slots -> Items]       \* malloc does not clear it
        /\ in = 0 /\ out = 0 /\ items = 0
        /\ mutex = Nobody
        /\ pc = [t \in Threads |-> "idle"]
        /\ call = [t \in Threads |-> NoCall]
        /\ got \in [Threads -> Items]

Goto(t, l) == pc' = [pc EXCEPT ![t] = l]

Opposite(op) == IF op = "enqueue" THEN "dequeue" ELSE "enqueue"

(* The waiters on cond_empty are the sleeping dequeuers, those on cond_full *)
(* the sleeping enqueuers.                                                  *)
Asleep(op) == {t \in Threads : pc[t] = "asleep" /\ call[t].op = op}

MustWait(t) == IF call[t].op = "enqueue" THEN items = Size ELSE items = 0

-----------------------------------------------------------------------------
Call(t) == /\ pc[t] = "idle"
           /\ \E c \in Calls : call' = [call EXCEPT ![t] = c]
           /\ Goto(t, "lock")
           /\ UNCHANGED <<buffer, in, out, items, mutex, got>>

(* Mutant: the mutex is not taken back after the wait.                      *)
LockOnce(t) == /\ pc[t] \in {"lock", "woken"}
               /\ mutex = Nobody
               /\ mutex' = IF pc[t] = "lock" THEN t ELSE mutex
               /\ Goto(t, "test")
               /\ UNCHANGED <<buffer, in, out, items, call, got>>

(* pthread_mutex_lock, and the relock inside pthread_cond_timedwait         *)
Lock(t) == /\ pc[t] \in {"lock", "woken"}
           /\ mutex = Nobody
           /\ mutex' = t
           /\ Goto(t, "test")
           /\ UNCHANGED <<buffer, in, out, items, call, got>>

(* Release the mutex and sleep on the condition variable, in one step.      *)
Sleep(t) == /\ pc[t] = "test"
            /\ MustWait(t)
            /\ mutex' = Nobody
            /\ Goto(t, "asleep")
            /\ UNCHANGED <<buffer, in, out, items, call, got>>

SpuriousWakeup(t) == /\ pc[t] = "asleep"
                     /\ Goto(t, "woken")
                     /\ UNCHANGED <<buffer, in, out, items, mutex, call, got>>

Timeout(t) == /\ pc[t] = "asleep"
              /\ ~call[t].forever
              /\ Goto(t, "expired")
              /\ UNCHANGED <<buffer, in, out, items, mutex, call, got>>

(* ret != 0: take the mutex back, release it, return FULL or EMPTY without  *)
(* looking at the queue again.                                              *)
GiveUp(t) == /\ pc[t] = "expired"
             /\ mutex = Nobody
             /\ Goto(t, "idle")
             /\ call' = [call EXCEPT ![t] = NoCall]
             /\ UNCHANGED <<buffer, in, out, items, mutex, got>>

(* Mutant: the index does not wrap.                                         *)
CopyInNoWrap(t) == /\ pc[t] = "test"
                   /\ call[t].op = "enqueue"
                   /\ ~MustWait(t)
                   /\ buffer' = [buffer EXCEPT ![in] = call[t].value]
                   /\ items' = items + 1
                   /\ in' = in + 1
                   /\ Goto(t, "unlock")
                   /\ UNCHANGED <<out, mutex, call, got>>

CopyIn(t) == /\ pc[t] = "test"
             /\ call[t].op = "enqueue"
             /\ ~MustWait(t)
             /\ buffer' = [buffer EXCEPT ![in] = call[t].value]
             /\ items' = items + 1
             /\ in' = (in + 1) % Size
             /\ Goto(t, "unlock")
             /\ UNCHANGED <<out, mutex, call, got>>

(* Mutant: the index is advanced before the element is copied.              *)
CopyOutLate(t) == /\ pc[t] = "test"
                  /\ call[t].op = "dequeue"
                  /\ ~MustWait(t)
                  /\ got' = [got EXCEPT ![t] = buffer[(out + 1) % Size]]
                  /\ items' = items - 1
                  /\ out' = (out + 1) % Size
                  /\ Goto(t, "unlock")
                  /\ UNCHANGED <<buffer, in, mutex, call>>

CopyOut(t) == /\ pc[t] = "test"
              /\ call[t].op = "dequeue"
              /\ ~MustWait(t)
              /\ got' = [got EXCEPT ![t] = buffer[out]]
              /\ items' = items - 1
              /\ out' = (out + 1) % Size
              /\ Goto(t, "unlock")
              /\ UNCHANGED <<buffer, in, mutex, call>>

Unlock(t) == /\ pc[t] = "unlock"
             /\ mutex' = Nobody
             /\ Goto(t, "notify")
             /\ UNCHANGED <<buffer, in, out, items, call, got>>

(* Mutant: the waiters of the caller's own side are woken.                  *)
NotifySameSide(t) ==
  /\ pc[t] = "notify"
  /\ pc' = [u \in Threads |-> IF u \in Asleep(call[t].op) THEN "woken"
                              ELSE IF u = t THEN "idle" ELSE pc[u]]
  /\ call' = [call EXCEPT ![t] = NoCall]
  /\ UNCHANGED <<buffer, in, out, items, mutex, got>>

(* Broadcast to the other side; the call then returns PTHREAD_QUEUE_OK.     *)
Notify(t) == /\ pc[t] = "notify"
             /\ pc' = [u \in Threads |->
                         IF u \in Asleep(Opposite(call[t].op)) THEN "woken"
                         ELSE IF u = t THEN "idle" ELSE pc[u]]
             /\ call' = [call EXCEPT ![t] = NoCall]
             /\ UNCHANGED <<buffer, in, out, items, mutex, got>>

Inside(t) == \/ Lock(t) \/ Sleep(t) \/ GiveUp(t)
             \/ CopyIn(t) \/ CopyOut(t) \/ Unlock(t) \/ Notify(t)

Next == \E t \in Threads :
          Call(t) \/ SpuriousWakeup(t) \/ Timeout(t) \/ Inside(t)

Spec == Init /\ [][Next]_vars

-----------------------------------------------------------------------------
(* The elements stored, oldest first.                                       *)
Contents == [i \in 1 .. items |-> buffer[(out + i - 1) % Size]]

Abstract == INSTANCE BoundedFifo WITH fifo <- Contents, taken <- got

(* The indices and the count always describe the same set of used slots.    *)
IndexOK == in = (out + items) % Size

(* Only the mutex holder is between the lock and the unlock: the two tasks   *)
(* of a hand-over never copy at the same time.                              *)
HolderOK == \A t \in Threads : pc[t] \in {"test", "unlock"} <=> mutex = t

(* A reader that sleeps on a non-empty queue will be woken.                  *)
NoLostItem ==
  items > 0 /\ Asleep("dequeue") # {} =>
    \E t \in Threads : pc[t] \in {"unlock", "notify"} /\ call[t].op = "enqueue"

(* A writer that sleeps on a queue with space will be woken.                 *)
NoLostSpace ==
  items < Size /\ Asleep("enqueue") # {} =>
    \E t \in Threads : pc[t] \in {"unlock", "notify"} /\ call[t].op = "dequeue"

(* No lost wakeup: a task sleeps on a non-empty queue (cond_empty) or on one *)
(* with space (cond_full) only while the broadcast of a call that changed the *)
(* queue is still to come, although both calls broadcast after they gave the *)
(* mutex away.                                                              *)
NoLostWakeup == NoLostItem /\ NoLostSpace

(* pthread_queue implements the bounded FIFO: nothing is overwritten, lost,  *)
(* read twice or read from a slot never written, whatever the interleaving.  *)
ImplementsFifo == Abstract!Spec
=============================================================================
