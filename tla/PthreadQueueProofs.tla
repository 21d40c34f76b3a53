------------------------- MODULE PthreadQueueProofs -------------------------
(* Proofs about PthreadQueue for every set of tasks, item type and length.  *)
EXTENDS PthreadQueue, SequenceTheorems, TLAPS

(* The remainder by N of a number below 2 N takes off at most one N.         *)
LEMMA ModOnce ==
  ASSUME NEW N \in Nat \ {0}, NEW x \in 0 .. 2 * N - 1
  PROVE  x % N = IF x < N THEN x ELSE x - N
OBVIOUS

(* The same for a slot and a distance in the circular buffer.                *)
LEMMA Wrap ==
  ASSUME NEW x \in 0 .. Size - 1, NEW k \in 0 .. Size
  PROVE  /\ (x + k) % Size = IF x + k < Size THEN x + k ELSE x + k - Size
         /\ (x + k) % Size \in 0 .. Size - 1
<1>1. Size \in Nat \ {0} /\ x + k \in 0 .. 2 * Size - 1
  BY SizeAssumption
<1>2. \A y \in 0 .. 2 * Size - 1 : y % Size = IF y < Size THEN y ELSE y - Size
  BY SizeAssumption, ModOnce
<1>3. (x + k) % Size = IF x + k < Size THEN x + k ELSE x + k - Size
  BY <1>1, <1>2
<1>. QED
  BY <1>1, <1>3

(* A task inside the queue code executes a call with arguments.              *)
CallOK == \A t \in Threads : pc[t] # "idle" => call[t] \in Calls

(* The inductive invariant: the types, the arguments in scope, the mutex and *)
(* the agreement of the indices with the count.                              *)
IInv == TypeOK /\ CallOK /\ HolderOK /\ IndexOK

LEMMA InitIInv == Init => IInv
<1>. SUFFICES ASSUME Init PROVE IInv
  OBVIOUS
<1>1. TypeOK
  BY SizeAssumption DEF Init, TypeOK, Slots, PCs
<1>2. CallOK /\ HolderOK
  BY NobodyAssumption DEF Init, CallOK, HolderOK
<1>3. IndexOK
  BY SizeAssumption, ModOnce DEF Init, IndexOK
<1>. QED
  BY <1>1, <1>2, <1>3 DEF IInv

(* The steps that move a task without touching the buffer.                   *)
Control(t) == \/ Call(t) \/ SpuriousWakeup(t) \/ Timeout(t) \/ Lock(t)
              \/ Sleep(t) \/ GiveUp(t) \/ Unlock(t) \/ Notify(t)

LEMMA ControlIInv ==
  ASSUME IInv, NEW t \in Threads, Control(t)
  PROVE  IInv'
<1>. USE DEF IInv, TypeOK, Goto
<1>0. UNCHANGED <<buffer, in, out, items, got>>
  BY DEF Control, Call, SpuriousWakeup, Timeout, Lock, Sleep, GiveUp, Unlock, Notify
<1>1. mutex' \in Threads \cup {Nobody}
  BY DEF Control, Call, SpuriousWakeup, Timeout, Lock, Sleep, GiveUp, Unlock, Notify
<1>2. pc' \in [Threads -> PCs]
  BY DEF Control, Call, SpuriousWakeup, Timeout, Lock, Sleep, GiveUp, Unlock, Notify,
         PCs
<1>3. call' \in [Threads -> Calls \cup {NoCall}]
  BY DEF Control, Call, SpuriousWakeup, Timeout, Lock, Sleep, GiveUp, Unlock, Notify
<1>4. TypeOK'
  BY <1>0, <1>1, <1>2, <1>3 DEF Slots
<1>5. CallOK'
  <2>1. CASE Call(t)
    BY <2>1 DEF Call, CallOK
  <2>2. CASE GiveUp(t)
    BY <2>2 DEF GiveUp, CallOK
  <2>3. CASE Notify(t)
    BY <2>3 DEF Notify, CallOK, Asleep, Opposite
  <2>4. CASE SpuriousWakeup(t) \/ Timeout(t) \/ Lock(t) \/ Sleep(t) \/ Unlock(t)
    BY <2>4 DEF CallOK, SpuriousWakeup, Timeout, Lock, Sleep, Unlock
  <2>. QED
    BY <2>1, <2>2, <2>3, <2>4 DEF Control
<1>6. HolderOK'
  <2>1. CASE Call(t) \/ SpuriousWakeup(t) \/ Timeout(t) \/ GiveUp(t)
    BY <2>1 DEF HolderOK, Call, SpuriousWakeup, Timeout, GiveUp
  <2>2. CASE Lock(t)
    BY <2>2, NobodyAssumption DEF HolderOK, Lock
  <2>3. CASE Sleep(t) \/ Unlock(t)
    BY <2>3, NobodyAssumption DEF HolderOK, Sleep, Unlock
  <2>4. CASE Notify(t)
    BY <2>4 DEF HolderOK, Notify, Asleep
  <2>. QED
    BY <2>1, <2>2, <2>3, <2>4 DEF Control
<1>7. IndexOK'
  BY <1>0 DEF IndexOK
<1>. QED
  BY <1>4, <1>5, <1>6, <1>7

LEMMA CopyInIInv ==
  ASSUME IInv, NEW t \in Threads, CopyIn(t)
  PROVE  IInv' /\ items < Size
<1>. USE DEF IInv, CopyIn, Goto
<1>1. items < Size
  BY SizeAssumption DEF TypeOK, MustWait
<1>2. call[t].value \in Items
  BY DEF CallOK, Calls
<1>3. in' \in Slots
  BY SizeAssumption, Wrap DEF Slots, TypeOK
<1>4. TypeOK'
  BY <1>1, <1>2, <1>3, SizeAssumption DEF TypeOK, PCs
<1>5. CallOK' /\ HolderOK'
  BY DEF CallOK, HolderOK, TypeOK
<1>6. IndexOK'
  <2>1. in \in 0 .. Size - 1 /\ out \in 0 .. Size - 1 /\ items \in 0 .. Size
    BY DEF TypeOK, Slots
  <2>2. in' = IF in + 1 < Size THEN in + 1 ELSE in + 1 - Size
    BY <2>1, Wrap, SizeAssumption
  <2>3. in = IF out + items < Size THEN out + items ELSE out + items - Size
    BY <2>1, Wrap DEF IndexOK
  <2>4. out' = out /\ items' = items + 1 /\ items + 1 \in 0 .. Size
    BY <1>1, <2>1, SizeAssumption
  <2>5. (out + (items + 1)) % Size = IF out + (items + 1) < Size
                                     THEN out + (items + 1)
                                     ELSE out + (items + 1) - Size
    BY <2>1, <2>4, Wrap
  <2>. QED
    BY <1>1, <2>1, <2>2, <2>3, <2>4, <2>5, SizeAssumption DEF IndexOK
<1>. QED
  BY <1>1, <1>4, <1>5, <1>6

LEMMA CopyOutIInv ==
  ASSUME IInv, NEW t \in Threads, CopyOut(t)
  PROVE  IInv' /\ items > 0
<1>. USE DEF IInv, CopyOut, Goto
<1>1. items > 0
  BY DEF TypeOK, MustWait
<1>2. out' \in Slots /\ buffer[out] \in Items
  BY SizeAssumption DEF Slots, TypeOK
<1>3. TypeOK'
  BY <1>1, <1>2, SizeAssumption DEF TypeOK, PCs
<1>4. CallOK' /\ HolderOK'
  BY DEF CallOK, HolderOK, TypeOK
<1>5. IndexOK'
  <2>1. in \in 0 .. Size - 1 /\ out \in 0 .. Size - 1 /\ items \in 0 .. Size
    BY DEF TypeOK, Slots
  <2>2. out' = IF out + 1 < Size THEN out + 1 ELSE out + 1 - Size
    BY <2>1, Wrap, SizeAssumption
  <2>3. in = IF out + items < Size THEN out + items ELSE out + items - Size
    BY <2>1, Wrap DEF IndexOK
  <2>4. in' = in /\ items' = items - 1 /\ items - 1 \in 0 .. Size
    BY <1>1, <2>1, SizeAssumption
  <2>5. (out' + (items - 1)) % Size = IF out' + (items - 1) < Size
                                      THEN out' + (items - 1)
                                      ELSE out' + (items - 1) - Size
    BY <1>2, <2>4, Wrap DEF Slots
  <2>. QED
    BY <1>1, <2>1, <2>2, <2>3, <2>4, <2>5, SizeAssumption DEF IndexOK
<1>. QED
  BY <1>1, <1>3, <1>4, <1>5

LEMMA NextCases ==
  ASSUME NEW t \in Threads,
         Call(t) \/ SpuriousWakeup(t) \/ Timeout(t) \/ Inside(t)
  PROVE  Control(t) \/ CopyIn(t) \/ CopyOut(t)
BY DEF Inside, Control

LEMMA NextIInv == IInv /\ [Next]_vars => IInv'
<1>. SUFFICES ASSUME IInv, [Next]_vars PROVE IInv'
  OBVIOUS
<1>1. CASE UNCHANGED vars
  BY <1>1 DEF vars, IInv, TypeOK, CallOK, HolderOK, IndexOK
<1>2. CASE Next
  <2>1. PICK t \in Threads : Control(t) \/ CopyIn(t) \/ CopyOut(t)
    BY <1>2, NextCases DEF Next
  <2>. QED
    BY <2>1, ControlIInv, CopyInIInv, CopyOutIInv
<1>. QED
  BY <1>1, <1>2

(* The queue's variables keep their types and its indices describe the used  *)
(* slots, for every set of tasks and every length.                           *)
THEOREM Invariance == Spec => []IInv
BY InitIInv, NextIInv, PTL DEF Spec

(* Type correctness of pthread_queue.                                        *)
THEOREM TypeCorrect == Spec => []TypeOK
<1>1. IInv => TypeOK
  BY DEF IInv
<1>. QED
  BY <1>1, Invariance, PTL

(* The copies of pthread_queue_enqueue and _dequeue exclude each other: only  *)
(* the holder of the mutex is between the lock and the unlock.               *)
THEOREM MutualExclusion == Spec => []HolderOK
<1>1. IInv => HolderOK
  BY DEF IInv
<1>. QED
  BY <1>1, Invariance, PTL

-----------------------------------------------------------------------------
(* NoLostWakeup needs nothing else to be inductive.                          *)
LEMMA NextNoLostWakeup ==
  ASSUME IInv, NoLostWakeup, NEW t \in Threads,
         Control(t) \/ CopyIn(t) \/ CopyOut(t)
  PROVE  NoLostWakeup'
<1>. USE DEF NoLostWakeup, NoLostItem, NoLostSpace, Asleep, Goto, IInv, TypeOK
<1>1. CASE Call(t)
  BY <1>1 DEF Call
<1>2. CASE SpuriousWakeup(t) \/ Timeout(t) \/ Lock(t) \/ Unlock(t)
  BY <1>2 DEF SpuriousWakeup, Timeout, Lock, Unlock
<1>3. CASE GiveUp(t)
  BY <1>3 DEF GiveUp
<1>4. CASE Sleep(t)
  BY <1>4 DEF Sleep, MustWait, CallOK, Calls
<1>5. CASE Notify(t)
  BY <1>5 DEF Notify, Opposite, CallOK, Calls
<1>6. CASE CopyIn(t)
  <2>1. NoLostItem'
    BY <1>6 DEF CopyIn
  <2>2. NoLostSpace'
    BY <1>6, CopyInIInv DEF CopyIn
  <2>. QED
    BY <2>1, <2>2
<1>7. CASE CopyOut(t)
  <2>1. NoLostItem'
    BY <1>7, CopyOutIInv DEF CopyOut
  <2>2. NoLostSpace'
    BY <1>7 DEF CopyOut
  <2>. QED
    BY <2>1, <2>2
<1>. QED
  BY <1>1, <1>2, <1>3, <1>4, <1>5, <1>6, <1>7 DEF Control

LEMMA StutterNoLostWakeup == NoLostWakeup /\ UNCHANGED vars => NoLostWakeup'
BY DEF NoLostWakeup, NoLostItem, NoLostSpace, Asleep, vars

(* No wakeup is lost: a task sleeps on a queue that has what it waits for    *)
(* only while the broadcast that will wake it is still to come.              *)
THEOREM NoWakeupLost == Spec => []NoLostWakeup
<1>1. Init => NoLostWakeup
  BY SizeAssumption DEF Init, NoLostWakeup, NoLostItem, NoLostSpace, Asleep
<1>2. IInv /\ NoLostWakeup /\ [Next]_vars => NoLostWakeup'
  <2>. SUFFICES ASSUME IInv, NoLostWakeup, [Next]_vars PROVE NoLostWakeup'
    OBVIOUS
  <2>1. CASE Next
    <3>1. PICK t \in Threads : Control(t) \/ CopyIn(t) \/ CopyOut(t)
      BY <2>1, NextCases DEF Next
    <3>. QED
      BY <3>1, NextNoLostWakeup
  <2>. QED
    BY <2>1, StutterNoLostWakeup
<1>. QED
  BY <1>1, <1>2, Invariance, PTL DEF Spec

-----------------------------------------------------------------------------
(* The slots in use, read from out on, as a sequence.                        *)
LEMMA ContentsIsSeq ==
  ASSUME IInv
  PROVE  /\ Contents \in Seq(Items)
         /\ Len(Contents) = items
         /\ \A i \in 1 .. items : Contents[i] = buffer[(out + (i - 1)) % Size]
<1>. USE DEF IInv, TypeOK, Slots
<1>1. \A i \in 1 .. items : out + i - 1 = out + (i - 1) /\ i - 1 \in 0 .. Size
  BY SizeAssumption
<1>2. \A i \in 1 .. items : Contents[i] = buffer[(out + (i - 1)) % Size]
  BY <1>1 DEF Contents
<1>3. \A i \in 1 .. items : (out + (i - 1)) % Size \in Slots
  BY <1>1, Wrap
<1>4. Contents \in [1 .. items -> Items]
  BY <1>1, <1>3 DEF Contents
<1>5. Contents \in Seq(Items)
  BY <1>4, SeqDef
<1>6. Len(Contents) = items
  BY <1>4, <1>5, LenProperties
<1>. QED
  BY <1>2, <1>5, <1>6

LEMMA CopyInPuts ==
  ASSUME IInv, NEW t \in Threads, CopyIn(t)
  PROVE  Abstract!Put(call[t].value)
<1>. DEFINE v == call[t].value
<1>1. IInv' /\ items < Size
  BY CopyInIInv
<1>2. v \in Items
  BY DEF IInv, TypeOK, CallOK, CopyIn, Calls
<1>3. items' = items + 1 /\ out' = out /\ buffer' = [buffer EXCEPT ![in] = v]
      /\ got' = got
  BY DEF CopyIn
<1>4. /\ Contents \in Seq(Items) /\ Len(Contents) = items
      /\ \A i \in 1 .. items : Contents[i] = buffer[(out + (i - 1)) % Size]
  BY ContentsIsSeq
<1>5. /\ Contents' \in Seq(Items) /\ Len(Contents') = items + 1
      /\ \A i \in 1 .. items + 1 :
           Contents'[i] = [buffer EXCEPT ![in] = v][(out + (i - 1)) % Size]
  <2>1. (IInv => /\ Contents \in Seq(Items)
                 /\ Len(Contents) = items
                 /\ \A i \in 1 .. items : Contents[i] = buffer[(out + (i - 1)) % Size])'
    BY ContentsIsSeq, PTL
  <2>. QED
    BY <1>1, <1>3, <2>1
<1>6. /\ Append(Contents, v) \in Seq(Items)
      /\ Len(Append(Contents, v)) = items + 1
      /\ \A i \in 1 .. items + 1 :
           Append(Contents, v)[i] = IF i <= items THEN Contents[i] ELSE v
  BY <1>2, <1>4 DEF IInv, TypeOK
<1>7. \A i \in 1 .. items + 1 : Contents'[i] = Append(Contents, v)[i]
  <2>. SUFFICES ASSUME NEW i \in 1 .. items + 1
                PROVE  Contents'[i] = Append(Contents, v)[i]
    OBVIOUS
  <2>1. /\ in \in Slots /\ out \in Slots /\ items \in 0 .. Size
        /\ buffer \in [Slots -> Items] /\ in = (out + items) % Size
    BY DEF IInv, TypeOK, IndexOK
  <2>2. in = IF out + items < Size THEN out + items ELSE out + items - Size
    BY <2>1, Wrap DEF Slots
  <2>3. i - 1 \in 0 .. Size
    BY <1>1, <2>1, SizeAssumption
  <2>4. /\ (out + (i - 1)) % Size = IF out + (i - 1) < Size THEN out + (i - 1)
                                    ELSE out + (i - 1) - Size
        /\ (out + (i - 1)) % Size \in Slots
    BY <2>1, <2>3, Wrap DEF Slots
  <2>5. CASE i = items + 1
    <3>1. (out + (i - 1)) % Size = in
      BY <2>1, <2>2, <2>4, <2>5
    <3>. QED
      BY <1>5, <1>6, <2>1, <2>5, <3>1
  <2>6. CASE i \in 1 .. items
    <3>1. (out + (i - 1)) % Size # in
      BY <1>1, <2>1, <2>2, <2>4, <2>6, SizeAssumption DEF Slots
    <3>2. [buffer EXCEPT ![in] = v][(out + (i - 1)) % Size]
            = buffer[(out + (i - 1)) % Size]
      BY <2>1, <2>4, <3>1
    <3>3. Append(Contents, v)[i] = Contents[i]
      BY <1>6, <2>6
    <3>. QED
      BY <1>4, <1>5, <2>6, <3>2, <3>3
  <2>7. i = items + 1 \/ i \in 1 .. items
    BY <2>1, SizeAssumption
  <2>. QED
    BY <2>5, <2>6, <2>7
<1>8. Contents' = Append(Contents, v)
  BY <1>5, <1>6, <1>7, SeqEqual
<1>. QED
  BY <1>1, <1>3, <1>4, <1>8 DEF Abstract!Put

LEMMA CopyOutTakes ==
  ASSUME IInv, NEW t \in Threads, CopyOut(t)
  PROVE  Abstract!Take(t)
<1>1. IInv' /\ items > 0
  BY CopyOutIInv
<1>2. /\ items' = items - 1 /\ out' = (out + 1) % Size /\ buffer' = buffer
      /\ got' = [got EXCEPT ![t] = buffer[out]]
  BY DEF CopyOut
<1>3. /\ Contents \in Seq(Items) /\ Len(Contents) = items
      /\ \A i \in 1 .. items : Contents[i] = buffer[(out + (i - 1)) % Size]
  BY ContentsIsSeq
<1>4. /\ Contents' \in Seq(Items) /\ Len(Contents') = items - 1
      /\ \A i \in 1 .. items - 1 : Contents'[i] = buffer[(out' + (i - 1)) % Size]
  <2>1. (IInv => /\ Contents \in Seq(Items)
                 /\ Len(Contents) = items
                 /\ \A i \in 1 .. items : Contents[i] = buffer[(out + (i - 1)) % Size])'
    BY ContentsIsSeq, PTL
  <2>. QED
    BY <1>1, <1>2, <2>1
<1>5. /\ out \in 0 .. Size - 1 /\ items \in 0 .. Size
  BY DEF IInv, TypeOK, Slots
<1>6. Contents # <<>>
  BY <1>1, <1>3, EmptySeq
<1>7. Head(Contents) = buffer[out]
  <2>1. Head(Contents) = Contents[1]
    BY <1>3, <1>6
  <2>2. Contents[1] = buffer[(out + (1 - 1)) % Size]
    BY <1>1, <1>3, <1>5
  <2>3. (out + 0) % Size = out
    <3>1. 0 \in 0 .. Size
      BY SizeAssumption
    <3>2. (out + 0) % Size = IF out + 0 < Size THEN out + 0 ELSE out + 0 - Size
      BY <1>5, <3>1, Wrap
    <3>. QED
      BY <1>5, <3>2, SizeAssumption
  <2>. QED
    BY <2>1, <2>2, <2>3
<1>8. /\ Tail(Contents) \in Seq(Items) /\ Len(Tail(Contents)) = items - 1
      /\ \A i \in 1 .. items - 1 : Tail(Contents)[i] = Contents[i + 1]
  BY <1>3, <1>6, HeadTailProperties
<1>9. \A i \in 1 .. items - 1 : Contents'[i] = Tail(Contents)[i]
  <2>. SUFFICES ASSUME NEW i \in 1 .. items - 1
                PROVE  Contents'[i] = Tail(Contents)[i]
    OBVIOUS
  <2>1. out' = IF out + 1 < Size THEN out + 1 ELSE out + 1 - Size
    BY <1>2, <1>5, Wrap, SizeAssumption
  <2>2. out' \in 0 .. Size - 1 /\ i - 1 \in 0 .. Size /\ i \in 0 .. Size
        /\ i + 1 \in 1 .. items /\ (i + 1) - 1 = i
    BY <1>5, <2>1, SizeAssumption
  <2>3. (out' + (i - 1)) % Size = IF out' + (i - 1) < Size THEN out' + (i - 1)
                                  ELSE out' + (i - 1) - Size
    BY <2>2, Wrap
  <2>4. (out + i) % Size = IF out + i < Size THEN out + i ELSE out + i - Size
    BY <1>5, <2>2, Wrap
  <2>5. (out' + (i - 1)) % Size = (out + i) % Size
    BY <1>5, <2>1, <2>2, <2>3, <2>4, SizeAssumption
  <2>6. Contents'[i] = buffer[(out' + (i - 1)) % Size]
    BY <1>4
  <2>7. Contents[i + 1] = buffer[(out + ((i + 1) - 1)) % Size]
    BY <1>3, <2>2
  <2>8. Tail(Contents)[i] = Contents[i + 1]
    BY <1>8
  <2>. QED
    BY <2>2, <2>5, <2>6, <2>7, <2>8
<1>10. Contents' = Tail(Contents)
  BY <1>4, <1>8, <1>9, SeqEqual
<1>. QED
  BY <1>2, <1>6, <1>7, <1>10 DEF Abstract!Take

(* pthread_queue implements the bounded FIFO for every set of tasks, every   *)
(* item type and every length: each enqueue that succeeds appends exactly    *)
(* its element, each dequeue that succeeds takes exactly the oldest one, and *)
(* every other step leaves the contents alone.                               *)
THEOREM Refinement == Spec => ImplementsFifo
<1>1. Init => Abstract!Init
  <2>. SUFFICES ASSUME Init PROVE Abstract!Init
    OBVIOUS
  <2>1. Contents = <<>>
    <3>1. Contents \in Seq(Items) /\ Len(Contents) = 0
      BY InitIInv, ContentsIsSeq DEF Init
    <3>. QED
      BY <3>1, EmptySeq
  <2>. QED
    BY <2>1 DEF Init, Abstract!Init
<1>2. IInv /\ [Next]_vars => [Abstract!Next]_(Abstract!vars)
  <2>. SUFFICES ASSUME IInv, [Next]_vars
                PROVE  [Abstract!Next]_(Abstract!vars)
    OBVIOUS
  <2>1. CASE UNCHANGED vars
    BY <2>1 DEF vars, Contents, Abstract!vars
  <2>2. ASSUME NEW t \in Threads, Control(t)
        PROVE  UNCHANGED Abstract!vars
    BY <2>2 DEF Control, Call, SpuriousWakeup, Timeout, Lock, Sleep, GiveUp, Unlock,
                Notify, Contents, Abstract!vars
  <2>3. ASSUME NEW t \in Threads, CopyIn(t)
        PROVE  Abstract!Next
    <3>1. call[t].value \in Items
      BY <2>3 DEF IInv, TypeOK, CallOK, CopyIn, Calls
    <3>. QED
      BY <2>3, <3>1, CopyInPuts DEF Abstract!Next
  <2>4. ASSUME NEW t \in Threads, CopyOut(t)
        PROVE  Abstract!Next
    BY <2>4, CopyOutTakes DEF Abstract!Next
  <2>5. CASE Next
    <3>1. PICK t \in Threads : Control(t) \/ CopyIn(t) \/ CopyOut(t)
      BY <2>5, NextCases DEF Next
    <3>. QED
      BY <3>1, <2>2, <2>3, <2>4
  <2>. QED
    BY <2>1, <2>5
<1>. QED
  BY <1>1, <1>2, Invariance, PTL DEF Spec, ImplementsFifo, Abstract!Spec
=============================================================================
