---------------------------- MODULE CanFragments ----------------------------
(***************************************************************************)
(* The CAN fragmentation protocol (csp_if_can.c): tasks of one node cut     *)
(* packets into frames of up to eight bytes, the frames of several packets  *)
(* mix on the bus and in the receiver's queue, and the receiver puts them   *)
(* together in a table of elements.  A frame can get lost on the bus, in    *)
(* the driver or because the queue is full.                                 *)
(***************************************************************************)
EXTENDS Integers, Sequences

CONSTANTS CanTasks,
          CanLength,      \* CanLength[n]: bytes of the n-th packet sent
          CanIdSpace,     \* 2^CFP_ID_SIZE
          CanFirstId,     \* where csp_can_id_init starts
          CanElements,    \* PBUF_ELEMENTS
          CanQueueSize,   \* CSP_CAN_RX_QUEUE_SIZE
          CanFaults,      \* bound on lost frames and failed allocations
          NoCanPacket

(* Packets are numbered from 1; csp_can_id_init masks the first identification. *)
ASSUME CanAssumption == /\ CanLength \in Seq(Nat)
                        /\ CanIdSpace \in Nat \ {0} /\ CanFirstId \in 0 .. CanIdSpace - 1
                        /\ CanElements \in Nat /\ CanQueueSize \in Nat /\ CanFaults \in Nat
                        /\ NoCanPacket \notin Nat \ {0}

VARIABLES canId,      \* csp_can_id
          canTask,    \* what each task does in csp_can_tx
          canSent,    \* packets given to csp_can_tx
          canQueue,   \* csp_can_rx_queue
          canPbuf,    \* csp_can_pbuf
          canUp,      \* what csp_new_packet got: header and pieces
          canHurt,    \* packets that met a fault (history)
          canFaults   \* faults so far

canVars == <<canId, canTask, canSent, canQueue, canPbuf, canUp, canHurt, canFaults>>

CanFree == [used |-> FALSE, id |-> 0, remain |-> 0, packet |-> NoCanPacket,
            count |-> 0, data |-> <<>>, old |-> FALSE]
CanIdle == [n |-> 0, id |-> 0, count |-> 0, begun |-> FALSE]

CanInit == /\ canId = CanFirstId
           /\ canTask = [t \in CanTasks |-> CanIdle]
           /\ canSent = 0
           /\ canQueue = <<>>
           /\ canPbuf = [e \in 1 .. CanElements |-> CanFree]
           /\ canUp = <<>>
           /\ canHurt = {}
           /\ canFaults = 0

AtMost(a, b) == IF a <= b THEN a ELSE b

-----------------------------------------------------------------------------
(* Mutant: the number is masked but not incremented.                        *)
SameId == canId % CanIdSpace

NextId == (canId + 1) % CanIdSpace

(* csp_can_tx: take an identification number ...                            *)
CanSend(t) ==
  /\ canTask[t].n = 0
  /\ canSent < Len(CanLength)
  /\ canSent' = canSent + 1
  /\ canTask' = [canTask EXCEPT ![t] = [CanIdle EXCEPT !.n = canSent', !.id = canId]]
  /\ canId' = NextId
  /\ UNCHANGED <<canQueue, canPbuf, canUp, canHurt, canFaults>>

(* The frame task t sends next: the first holds the CSP header and up to two *)
(* bytes, the others up to eight; `remain' is the number of frames to follow.*)
CanFrame(t) ==
  LET k == canTask[t]  length == CanLength[k.n]
      bytes == AtMost(length - k.count, IF k.begun THEN 8 ELSE 2)
  IN [id |-> k.id, begin |-> ~k.begun, n |-> k.n, from |-> k.count, bytes |-> bytes,
      remain |-> IF k.begun THEN (length - k.count - bytes + 7) \div 8
                 ELSE (length + 5) \div 8]

CanFrameSent(t) ==
  LET k == canTask[t]  count == k.count + CanFrame(t).bytes IN
  /\ k.n # 0
  /\ canTask' = [canTask EXCEPT ![t] =
       IF count = CanLength[k.n] THEN CanIdle ELSE [k EXCEPT !.begun = TRUE, !.count = count]]

(* ... and send one frame after the other.                                  *)
CanSendFrame(t) == /\ CanFrameSent(t)
                   /\ IF Len(canQueue) < CanQueueSize
                      THEN canQueue' = Append(canQueue, CanFrame(t)) /\ UNCHANGED canHurt
                      ELSE canHurt' = canHurt \cup {canTask[t].n} /\ UNCHANGED canQueue
                   /\ UNCHANGED <<canId, canSent, canPbuf, canUp, canFaults>>

(* A frame gets lost on the way, or can_send fails and the packet ends here. *)
CanLose(t) == /\ canFaults < CanFaults
              /\ \/ CanFrameSent(t)
                 \/ canTask[t].n # 0 /\ canTask' = [canTask EXCEPT ![t] = CanIdle]
              /\ canHurt' = canHurt \cup {canTask[t].n}
              /\ canFaults' = canFaults + 1
              /\ UNCHANGED <<canId, canSent, canQueue, canPbuf, canUp>>

-----------------------------------------------------------------------------
(* csp_can_process_frame.  The packets that an element holds pieces of:      *)
Pieces(b) == {b.data[i].n : i \in DOMAIN b.data} \cup ({b.packet} \ {NoCanPacket})

CanFind(id) == {e \in 1 .. CanElements : canPbuf[e].used /\ canPbuf[e].id = id}
CanUnused == {e \in 1 .. CanElements : ~canPbuf[e].used}

Begun(b, f) == [b EXCEPT !.packet = f.n, !.count = 0, !.data = <<>>, !.remain = f.remain + 1]

(* Frame f goes to element e, which is b by now: a frame out of order or too *)
(* long ends the packet, the last one delivers it.                          *)
CanContinue(e, b, f) ==
  LET new == [b EXCEPT !.remain = @ - 1, !.count = @ + f.bytes, !.old = FALSE,
                       !.data = Append(@, [n |-> f.n, from |-> f.from])]
  IN IF f.remain # b.remain - 1 \/ b.count + f.bytes > CanLength[b.packet]
     THEN /\ canPbuf' = [canPbuf EXCEPT ![e] = CanFree]
          /\ canHurt' = canHurt \cup Pieces(b) \cup {f.n}
          /\ UNCHANGED canUp
     ELSE IF new.count # CanLength[b.packet]
     THEN /\ canPbuf' = [canPbuf EXCEPT ![e] = new]
          /\ UNCHANGED <<canUp, canHurt>>
     ELSE /\ canPbuf' = [canPbuf EXCEPT ![e] = CanFree]
          /\ canUp' = Append(canUp, [n |-> b.packet, data |-> new.data])
          /\ UNCHANGED canHurt

CanTakeFrame == canQueue # <<>> /\ canQueue' = Tail(canQueue)

(* A MORE frame continues its element ...                                   *)
CanMore == LET f == Head(canQueue) IN
  /\ CanTakeFrame /\ ~f.begin
  /\ \E e \in CanFind(f.id) : CanContinue(e, canPbuf[e], f)
  /\ UNCHANGED <<canId, canTask, canSent, canFaults>>

(* ... a BEGIN frame restarts one it finds or takes the first free one ...   *)
CanBegin == LET f == Head(canQueue) IN
  /\ CanTakeFrame /\ f.begin
  /\ \E e \in IF CanFind(f.id) # {} THEN CanFind(f.id) ELSE CanUnused :
       /\ \A g \in CanUnused : canPbuf[e].used \/ e <= g
       /\ CanContinue(e, [Begun(canPbuf[e], f) EXCEPT !.used = TRUE, !.id = f.id], f)
  /\ UNCHANGED <<canId, canTask, canSent, canFaults>>

(* ... which is given back if there is no buffer.                           *)
CanNoBuffer == LET f == Head(canQueue) IN
  /\ canFaults < CanFaults
  /\ CanTakeFrame /\ f.begin /\ CanFind(f.id) = {} /\ CanUnused # {}
  /\ canFaults' = canFaults + 1
  /\ canHurt' = canHurt \cup {f.n}
  /\ UNCHANGED <<canId, canTask, canSent, canPbuf, canUp>>

(* A MORE frame without an element and a BEGIN without a free one are dropped.*)
CanDrop == LET f == Head(canQueue) IN
  /\ CanTakeFrame /\ CanFind(f.id) = {}
  /\ f.begin => CanUnused = {}
  /\ canHurt' = canHurt \cup {f.n}
  /\ UNCHANGED <<canId, canTask, canSent, canPbuf, canUp, canFaults>>

-----------------------------------------------------------------------------
(* Ten seconds pass without a frame for the elements in use.                *)
CanAge == /\ \E e \in 1 .. CanElements : canPbuf[e].used /\ ~canPbuf[e].old
          /\ canPbuf' = [e \in 1 .. CanElements |-> [canPbuf[e] EXCEPT !.old = canPbuf[e].used]]
          /\ UNCHANGED <<canId, canTask, canSent, canQueue, canUp, canHurt, canFaults>>

(* Mutant: the search for old elements ends at the first unused one.         *)
TooOldInFront == {e \in 1 .. CanElements : \A g \in 1 .. e : canPbuf[g].old}

(* csp_can_pbuf_cleanup, when no frame came for a second: elements that were *)
(* not used for ten seconds are freed.                                      *)
TooOld == {e \in 1 .. CanElements : canPbuf[e].old}

CanCleanup ==
  /\ canQueue = <<>>
  /\ TooOld # {}
  /\ canPbuf' = [e \in 1 .. CanElements |-> IF e \in TooOld THEN CanFree ELSE canPbuf[e]]
  /\ canHurt' = canHurt \cup UNION {Pieces(canPbuf[e]) : e \in TooOld}
  /\ UNCHANGED <<canId, canTask, canSent, canQueue, canUp, canFaults>>

CanReceive == CanMore \/ CanBegin \/ CanDrop \/ CanCleanup

CanNext == \/ CanReceive \/ CanNoBuffer \/ CanAge
           \/ \E t \in CanTasks : CanSend(t) \/ CanSendFrame(t) \/ CanLose(t)

CanSpec == CanInit /\ [][CanNext]_canVars

(* The receiving task runs and time passes; nothing makes a sender go on.   *)
CanFairness == WF_canVars(CanReceive) /\ WF_canVars(CanAge)

-----------------------------------------------------------------------------
CanTypeOK ==
  /\ canId \in 0 .. CanIdSpace - 1
  /\ Len(canQueue) <= CanQueueSize
  /\ \A e \in 1 .. CanElements :
       LET b == canPbuf[e] IN
       /\ b.used \/ b = CanFree
       /\ b.used => b.packet # NoCanPacket /\ b.count < CanLength[b.packet] /\ b.remain >= 1

(* The pieces of packet n in their order: 0, 2, 10, 18, ...                  *)
WholePacket(n) == [i \in 1 .. ((CanLength[n] + 5) \div 8) + 1 |->
                     [n |-> n, from |-> IF i = 1 THEN 0 ELSE 8 * i - 14]]

Whole == /\ \A i \in DOMAIN canUp : canUp[i].data = WholePacket(canUp[i].n)
         /\ \A i, j \in DOMAIN canUp : canUp[i].n = canUp[j].n => i = j

Complete ==
  \A n \in 1 .. canSent :
    \/ n \in canHurt
    \/ \E i \in DOMAIN canUp : canUp[i].n = n
    \/ \E t \in CanTasks : canTask[t].n = n
    \/ \E i \in DOMAIN canQueue : canQueue[i].n = n

(* A packet that comes out is one that went in, complete and in order, and    *)
(* comes out once: no mixture of packets whose frames met in the table.  And *)
(* a packet is only lost by a fault of its own: what happens to the frames   *)
(* of another one does not matter to it.                                    *)
CanDelivers == Whole /\ Complete

(* Once the bus is quiet no element is held for ever by half a packet.       *)
CanDrains == <>[](\A e \in 1 .. CanElements : ~canPbuf[e].used)
=============================================================================
