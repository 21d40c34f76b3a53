-------------------------- MODULE BufferPoolProofs --------------------------
(***************************************************************************)
(* For any number of tasks and buffers, csp_buffer_get and csp_buffer_free  *)
(* never give a buffer to two tasks and never lose one, as long as every    *)
(* task gives up a buffer when it frees it or hands it over.                *)
(***************************************************************************)
EXTENDS BufferPool, TLAPS

(* A task inside a call works on a buffer.                                  *)
BusyOK == \A t \in Tasks : pc[t] # "idle" => buf[t] \in Buffers

IInv == TypeOK /\ BusyOK /\ Exclusive /\ CountTells /\ NoneLost

(* The initial pool: every buffer is free once, and its count is zero.      *)
LEMMA InitIInv == Init => IInv
BY NoBufferAssumption
DEF Init, IInv, TypeOK, BusyOK, Exclusive, CountTells, NoneLost, Uses, Busy, PCs

(* csp_buffer_get preserves the invariant.                                  *)
LEMMA GetIInv ==
  ASSUME IInv, NEW t \in Tasks, Dequeue(t) \/ Count(t)
  PROVE  IInv'
<1>1. CASE Dequeue(t)
  <2>1. PICK b \in Buffers : /\ pc[t] = "idle" /\ free[b] > 0
                             /\ free' = [free EXCEPT ![b] = @ - 1]
                             /\ pc' = [pc EXCEPT ![t] = "count"]
                             /\ buf' = [buf EXCEPT ![t] = b]
                             /\ refcount' = refcount /\ has' = has
    BY <1>1 DEF Dequeue
  <2>2. free[b] = 1 /\ free'[b] = 0
    BY <2>1 DEF IInv, TypeOK, Exclusive
  <2>3. TypeOK' /\ BusyOK'
    BY <2>1, <2>2 DEF IInv, TypeOK, BusyOK, PCs
  <2>4. \A u \in Tasks, c \in Buffers :
          Busy(u, c)' <=> (IF u = t THEN c = b ELSE Busy(u, c))
    BY <2>1 DEF IInv, TypeOK, Busy
  <2>5. \A u \in Tasks : ~Uses(u, b)
    BY <2>2 DEF IInv, Exclusive
  <2>6. Exclusive'
    BY <2>1, <2>2, <2>4, <2>5 DEF IInv, TypeOK, Exclusive, Uses
  <2>7. CountTells'
    BY <2>1, <2>2, <2>4, <2>5 DEF IInv, TypeOK, CountTells, Uses
  <2>8. NoneLost'
    <3> SUFFICES ASSUME NEW c \in Buffers
                 PROVE  (free[c] > 0)' \/ \E u \in Tasks : Uses(u, c)'
      BY DEF NoneLost
    <3>1. CASE c = b
      BY <2>4, <3>1 DEF Uses
    <3>2. CASE c # b
      <4>1. free'[c] = free[c] /\ \A u \in Tasks : Uses(u, c) => Uses(u, c)'
        <5>1. ~Busy(t, c)
          BY <2>1 DEF Busy
        <5> QED BY <2>1, <2>4, <3>2, <5>1 DEF IInv, TypeOK, Uses
      <4> QED BY <4>1 DEF IInv, NoneLost
    <3> QED BY <3>1, <3>2
  <2> QED BY <2>3, <2>6, <2>7, <2>8 DEF IInv
<1>2. CASE Count(t)
  <2> DEFINE b == buf[t]
  <2>1. /\ pc[t] = "count" /\ b \in Buffers /\ Busy(t, b)
        /\ refcount' = [refcount EXCEPT ![b] = @ + 1]
        /\ has' = [has EXCEPT ![t] = @ \cup {b}]
        /\ pc' = [pc EXCEPT ![t] = "idle"]
        /\ buf' = [buf EXCEPT ![t] = NoBuffer]
        /\ free' = free
    BY <1>2 DEF Count, Finish, IInv, BusyOK, Busy
  <2> HIDE DEF b
  <2>2. /\ refcount[b] = 0 /\ refcount'[b] = 1 /\ free[b] = 0
        /\ \A u \in Tasks : u # t => ~Uses(u, b)
        /\ b \notin has[t]
    BY <2>1 DEF IInv, TypeOK, CountTells, Exclusive, Uses
  <2>3. TypeOK' /\ BusyOK'
    BY <2>1, <2>2 DEF IInv, TypeOK, BusyOK, PCs
  <2>4. \A u \in Tasks, c \in Buffers : Busy(u, c)' <=> (u # t /\ Busy(u, c))
    BY <2>1 DEF IInv, TypeOK, Busy
  <2>5. \A u \in Tasks, c \in Buffers :
          c \in has'[u] <=> (c \in has[u] \/ (u = t /\ c = b))
    BY <2>1 DEF IInv, TypeOK
  <2>6. \A u \in Tasks, c \in Buffers : Uses(u, c)' <=> Uses(u, c)
    BY <2>1, <2>4, <2>5 DEF Uses, Busy, b
  <2>7. Exclusive'
    BY <2>1, <2>2, <2>4, <2>5, <2>6 DEF IInv, TypeOK, Exclusive, Uses
  <2>8. CountTells'
    BY <2>1, <2>2, <2>4, <2>5 DEF IInv, TypeOK, CountTells, Uses
  <2>9. NoneLost'
    BY <2>1, <2>6 DEF IInv, TypeOK, NoneLost
  <2> QED BY <2>3, <2>7, <2>8, <2>9 DEF IInv
<1> QED BY <1>1, <1>2

(* csp_buffer_free preserves it: the count it tests is one, because a task   *)
(* frees only what it has.                                                  *)
LEMMA FreeIInv ==
  ASSUME IInv, NEW t \in Tasks, Free(t) \/ Test(t) \/ Reset(t) \/ Enqueue(t)
  PROVE  IInv'
<1>1. CASE Free(t)
  <2>1. PICK b \in has[t] : /\ pc[t] = "idle"
                            /\ has' = [has EXCEPT ![t] = @ \ {b}]
                            /\ pc' = [pc EXCEPT ![t] = "test"]
                            /\ buf' = [buf EXCEPT ![t] = b]
                            /\ free' = free /\ refcount' = refcount
    BY <1>1 DEF Free
  <2>2. b \in Buffers /\ refcount[b] = 1 /\ free[b] = 0
    BY <2>1 DEF IInv, TypeOK, Exclusive, CountTells, Uses
  <2>3. TypeOK' /\ BusyOK'
    BY <2>1, <2>2 DEF IInv, TypeOK, BusyOK, PCs
  <2>4. \A u \in Tasks, c \in Buffers :
          Busy(u, c)' <=> (IF u = t THEN c = b ELSE Busy(u, c))
    BY <2>1 DEF IInv, TypeOK, Busy
  <2>5. \A u \in Tasks, c \in Buffers :
          c \in has'[u] <=> (c \in has[u] /\ ~(u = t /\ c = b))
    BY <2>1 DEF IInv, TypeOK
  <2>6. \A c \in Buffers : ~Busy(t, c)
    BY <2>1 DEF Busy
  <2>7. \A u \in Tasks, c \in Buffers : Uses(u, c)' <=> Uses(u, c)
    BY <2>1, <2>4, <2>5, <2>6 DEF Uses
  <2>8. Exclusive'
    BY <2>1, <2>2, <2>4, <2>5, <2>7 DEF IInv, TypeOK, Exclusive, Uses
  <2>9. CountTells'
    BY <2>1, <2>2, <2>4, <2>5 DEF IInv, TypeOK, CountTells
  <2>10. NoneLost'
    BY <2>1, <2>7 DEF IInv, TypeOK, NoneLost
  <2> QED BY <2>3, <2>8, <2>9, <2>10 DEF IInv
<1>2. CASE Test(t) \/ Reset(t)
  <2> DEFINE b == buf[t]
  <2>1. pc[t] \in {"test", "reset"} /\ b \in Buffers /\ Busy(t, b)
    BY <1>2 DEF Test, Reset, IInv, BusyOK, Busy
  <2>2. refcount[b] = 1 /\ free[b] = 0
    BY <2>1 DEF IInv, TypeOK, CountTells, Exclusive, Uses
  <2>3. /\ free' = free /\ has' = has /\ buf' = buf
        /\ \/ /\ pc[t] = "test" /\ pc' = [pc EXCEPT ![t] = "reset"]
              /\ refcount' = refcount
           \/ /\ pc[t] = "reset" /\ pc' = [pc EXCEPT ![t] = "enqueue"]
              /\ refcount' = [refcount EXCEPT ![b] = 0]
    BY <1>2, <2>2 DEF Test, Reset, Goto
  <2> HIDE DEF b
  <2>4. TypeOK' /\ BusyOK'
    BY <2>1, <2>3 DEF IInv, TypeOK, BusyOK, PCs
  <2>5. \A u \in Tasks, c \in Buffers : Busy(u, c)' <=> Busy(u, c)
    BY <2>1, <2>3 DEF IInv, TypeOK, Busy
  <2>6. Exclusive'
    BY <2>3, <2>5 DEF IInv, Exclusive, Uses
  <2>7. NoneLost'
    BY <2>3, <2>5 DEF IInv, NoneLost, Uses
  <2>8. \A u \in Tasks, c \in Buffers :
          Uses(u, c) /\ (u # t \/ c \in has[u]) => c # b
    BY <2>1 DEF IInv, Exclusive, Uses
  <2>9. CountTells'
    <3> SUFFICES ASSUME NEW c \in Buffers
                 PROVE  /\ (free[c] > 0)' => refcount'[c] = 0
                        /\ \A u \in Tasks :
                             /\ c \in has'[u] => refcount'[c] = 1
                             /\ Busy(u, c)' => refcount'[c] =
                                  IF pc'[u] \in {"test", "reset"} THEN 1 ELSE 0
      BY DEF CountTells
    <3>1. CASE c # b
      <4>1. refcount'[c] = refcount[c]
        BY <2>3, <3>1 DEF IInv, TypeOK
      <4>2. ~Busy(t, c)
        BY <3>1 DEF Busy, b
      <4>3. \A u \in Tasks : u # t => pc'[u] = pc[u]
        BY <2>3 DEF IInv, TypeOK
      <4> QED BY <2>3, <2>5, <4>1, <4>2, <4>3 DEF IInv, CountTells
    <3>2. CASE c = b
      <4>1. \A u \in Tasks : c \notin has[u] /\ (u # t => ~Busy(u, c))
        BY <2>8, <3>2 DEF Uses
      <4>2. refcount'[c] = IF pc'[t] \in {"test", "reset"} THEN 1 ELSE 0
        BY <2>1, <2>2, <2>3, <3>2 DEF IInv, TypeOK
      <4> QED BY <2>2, <2>3, <2>5, <3>2, <4>1, <4>2
    <3> QED BY <3>1, <3>2
  <2> QED BY <2>4, <2>6, <2>7, <2>9 DEF IInv
<1>3. CASE Enqueue(t)
  <2> DEFINE b == buf[t]
  <2>1. /\ pc[t] = "enqueue" /\ b \in Buffers /\ Busy(t, b)
        /\ free' = [free EXCEPT ![b] = @ + 1]
        /\ pc' = [pc EXCEPT ![t] = "idle"]
        /\ buf' = [buf EXCEPT ![t] = NoBuffer]
        /\ refcount' = refcount /\ has' = has
    BY <1>3 DEF Enqueue, Finish, IInv, BusyOK, Busy
  <2> HIDE DEF b
  <2>2. /\ refcount[b] = 0 /\ free[b] = 0 /\ free'[b] = 1
        /\ \A u \in Tasks : b \notin has[u] /\ (u # t => ~Busy(u, b))
    BY <2>1 DEF IInv, TypeOK, CountTells, Exclusive, Uses
  <2>3. TypeOK' /\ BusyOK'
    BY <2>1 DEF IInv, TypeOK, BusyOK, PCs
  <2>4. \A u \in Tasks, c \in Buffers : Busy(u, c)' <=> (u # t /\ Busy(u, c))
    BY <2>1 DEF IInv, TypeOK, Busy
  <2>5. Exclusive'
    BY <2>1, <2>2, <2>4 DEF IInv, TypeOK, Exclusive, Uses
  <2>6. CountTells'
    BY <2>1, <2>2, <2>4 DEF IInv, TypeOK, CountTells
  <2>7. NoneLost'
    <3> SUFFICES ASSUME NEW c \in Buffers
                 PROVE  (free[c] > 0)' \/ \E u \in Tasks : Uses(u, c)'
      BY DEF NoneLost
    <3>1. CASE c = b
      BY <2>2, <3>1
    <3>2. CASE c # b
      <4>1. ~Busy(t, c)
        BY <3>2 DEF Busy, b
      <4>2. free'[c] = free[c] /\ \A u \in Tasks : Uses(u, c) => Uses(u, c)'
        BY <2>1, <2>4, <3>2, <4>1 DEF IInv, TypeOK, Uses
      <4> QED BY <4>2 DEF IInv, NoneLost
    <3> QED BY <3>1, <3>2
  <2> QED BY <2>3, <2>5, <2>6, <2>7 DEF IInv
<1> QED BY <1>1, <1>2, <1>3

(* Handing a buffer to another task preserves it: the giver does not keep it. *)
LEMMA HandOverIInv ==
  ASSUME IInv, NEW t \in Tasks, NEW u \in Tasks, HandOver(t, u)
  PROVE  IInv'
<1>1. PICK b \in has[t] : /\ pc[t] = "idle" /\ t # u
                          /\ has' = [has EXCEPT ![t] = @ \ {b}, ![u] = @ \cup {b}]
                          /\ free' = free /\ refcount' = refcount
                          /\ pc' = pc /\ buf' = buf
  BY DEF HandOver
<1>2. /\ b \in Buffers /\ refcount[b] = 1 /\ free[b] = 0
      /\ \A v \in Tasks : ~Busy(v, b)
      /\ \A v \in Tasks : b \in has[v] => v = t
  BY <1>1 DEF IInv, TypeOK, Exclusive, CountTells, Uses
<1>3. TypeOK' /\ BusyOK'
  BY <1>1, <1>2 DEF IInv, TypeOK, BusyOK
<1>4. \A v \in Tasks, c \in Buffers : Busy(v, c)' <=> Busy(v, c)
  BY <1>1 DEF Busy
<1>5. \A v \in Tasks, c \in Buffers :
        c \in has'[v] <=> (IF c = b THEN v = u ELSE c \in has[v])
  BY <1>1, <1>2 DEF IInv, TypeOK
<1>6. Exclusive'
  BY <1>1, <1>2, <1>4, <1>5 DEF IInv, TypeOK, Exclusive, Uses
<1>7. CountTells'
  BY <1>1, <1>2, <1>4, <1>5 DEF IInv, TypeOK, CountTells
<1>8. NoneLost'
  <2> SUFFICES ASSUME NEW c \in Buffers
               PROVE  (free[c] > 0)' \/ \E v \in Tasks : Uses(v, c)'
    BY DEF NoneLost
  <2>1. CASE c = b
    BY <1>5, <2>1 DEF Uses
  <2>2. CASE c # b
    BY <1>1, <1>4, <1>5, <2>2 DEF IInv, NoneLost, Uses
  <2> QED BY <2>1, <2>2
<1> QED BY <1>3, <1>6, <1>7, <1>8 DEF IInv

(* Every step preserves the invariant.                                      *)
LEMMA NextIInv == IInv /\ [Next]_vars => IInv'
<1> SUFFICES ASSUME IInv, [Next]_vars PROVE IInv'
  OBVIOUS
<1>1. CASE UNCHANGED vars
  BY <1>1 DEF vars, IInv, TypeOK, BusyOK, Exclusive, CountTells, NoneLost, Uses, Busy
<1>2. ASSUME NEW t \in Tasks, Step(t) PROVE IInv'
  <2>1. CASE Dequeue(t) \/ Count(t)
    BY <2>1, GetIInv
  <2>2. CASE Free(t) \/ Test(t) \/ Reset(t) \/ Enqueue(t)
    BY <2>2, FreeIInv
  <2>3. ASSUME NEW u \in Tasks, HandOver(t, u) PROVE IInv'
    BY <2>3, HandOverIInv
  <2> QED BY <1>2, <2>1, <2>2, <2>3 DEF Step
<1> QED BY <1>1, <1>2 DEF Next

-----------------------------------------------------------------------------
(* The inductive invariant holds in every reachable state.                  *)
THEOREM Invariance == Spec => []IInv
BY InitIInv, NextIInv, PTL DEF Spec

(* TypeOK of csp_buffer.c's state, for any pool and any number of tasks.    *)
THEOREM TypeCorrect == Spec => []TypeOK
<1>1. IInv => TypeOK
  BY DEF IInv
<1> QED BY <1>1, Invariance, PTL

(* csp_buffer_get and csp_buffer_free never let two tasks use one buffer,    *)
(* and a buffer in the free queue is in it once and in use by nobody.       *)
THEOREM NeverShared == Spec => []Exclusive
<1>1. IInv => Exclusive
  BY DEF IInv
<1> QED BY <1>1, Invariance, PTL

(* No buffer is ever lost: it is free, or some task has it.                 *)
THEOREM NeverLost == Spec => []NoneLost
<1>1. IInv => NoneLost
  BY DEF IInv
<1> QED BY <1>1, Invariance, PTL

(* The unlocked reference count always tells used from free: the two error   *)
(* exits of csp_buffer_free and the "in use" exit are never taken.           *)
THEOREM CountCorrect == Spec => []CountTells
<1>1. IInv => CountTells
  BY DEF IInv
<1> QED BY <1>1, Invariance, PTL
=============================================================================
