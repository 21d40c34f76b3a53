----------------------------- MODULE LinkProofs -----------------------------
(***************************************************************************)
(* The protocols that cut packets into pieces or bytes, and the way of a     *)
(* packet through the router, for every number of senders, size and bound.   *)
(*                                                                           *)
(* Sfp: what csp_sfp_recv returns is whole, and on a connection with RDP it  *)
(* is one transfer; for fragments of at least two bytes.                     *)
(*                                                                           *)
(* CanFragments: the packets that csp_can_process_frame puts together are    *)
(* those that csp_can_tx cut, whatever happens to the frames.                *)
(*                                                                           *)
(* Kiss: csp_kiss_rx finds the frames of csp_kiss_tx again after any fault.  *)
(*                                                                           *)
(* Router: for any pool, queue length and number of packets, every buffer is *)
(* at one place and promiscuous mode sees each packet once. Every call is a  *)
(* removal from one place and an addition to another; two lemmas about these *)
(* carry the proof of every action.                                          *)
(***************************************************************************)
EXTENDS MCLinks, FiniteSetTheorems, SequenceTheorems, WellFoundedInduction, TLAPS

Multiple(n) == \E k \in Nat : n = k * SfpMtu
End(f) == f.offset + f.length

-----------------------------------------------------------------------------
(* Fragments start at multiples of the fragment length and only the last one *)
(* of a transfer is shorter; what csp_sfp_recv has is written up to last_byte. *)
FragmentsOK == \A i \in DOMAIN sfpNet : /\ Multiple(sfpNet[i].offset)
                                        /\ End(sfpNet[i]) <= SfpSize
                                        /\ End(sfpNet[i]) < SfpSize => sfpNet[i].length = SfpMtu
SenderOK == sfpSend.count < SfpSize => sfpSend.call >= 1 /\ Multiple(sfpSend.count)
ReceiverOK == /\ Multiple(sfpRecv.last_byte)
              /\ \A i \in SfpBytes : i < sfpRecv.last_byte => sfpRecv.data[i] # Unwritten

WholeInv == SfpTypeOK /\ FragmentsOK /\ SenderOK /\ ReceiverOK /\ SfpWhole

(* With RDP: a fragment of call c that starts at o may come next after one of *)
(* call b that ended at e.                                                   *)
Follows(b, e, c, o) == (c = b /\ o = e) \/ (c > b /\ o = 0)
SenderAfter(b, e) == \/ sfpSend.count = SfpSize /\ sfpSend.call >= b
                     \/ Follows(b, e, sfpSend.call, sfpSend.count)
Before(b, e, c, o) == c > b \/ (c = b /\ o >= e)

NetInOrder ==
  /\ \A i, j \in DOMAIN sfpNet :
       i < j => Before(sfpNet[i].call, End(sfpNet[i]), sfpNet[j].call, sfpNet[j].offset)
  /\ \A i \in DOMAIN sfpNet : i + 1 \in DOMAIN sfpNet =>
       Follows(sfpNet[i].call, End(sfpNet[i]), sfpNet[i + 1].call, sfpNet[i + 1].offset)
  /\ \A i \in DOMAIN sfpNet :
       /\ Before(sfpNet[i].call, End(sfpNet[i]), sfpSend.call, sfpSend.count)
       /\ i = Len(sfpNet) => SenderAfter(sfpNet[i].call, End(sfpNet[i]))

RecvInOrder ==
  sfpRecv.last_byte > 0 =>
    /\ \A i \in SfpBytes : i < sfpRecv.last_byte => sfpRecv.data[i] = sfpRecv.data[0]
    /\ IF sfpNet = <<>> THEN SenderAfter(sfpRecv.data[0], sfpRecv.last_byte)
       ELSE Follows(sfpRecv.data[0], sfpRecv.last_byte, sfpNet[1].call, sfpNet[1].offset)

OutInOrder ==
  \A n \in DOMAIN sfpOut :
    /\ Before(sfpOut[n][0], SfpSize, sfpSend.call, sfpSend.count)
    /\ \A i \in DOMAIN sfpNet : sfpOut[n][0] < sfpNet[i].call
    /\ sfpRecv.last_byte > 0 => sfpOut[n][0] < sfpRecv.data[0]

OrderInv == SfpOneTransfer /\ (sfpOrdered => NetInOrder /\ RecvInOrder /\ OutInOrder)

-----------------------------------------------------------------------------
(* Multiples of the fragment length are never one byte apart: the test for a *)
(* gap, which allows one byte, lets no fragment pass that leaves one.        *)
LEMMA NoGapOfOne ==
  ASSUME NEW a \in Nat, NEW b \in Nat, Multiple(a), Multiple(b), a <= b + 1
  PROVE  a <= b
<1>1. PICK j \in Nat : a = j * SfpMtu
  BY DEF Multiple
<1>2. PICK k \in Nat : b = k * SfpMtu
  BY DEF Multiple
<1>3. SfpMtu \in Nat /\ SfpMtu >= 2
  BY SfpAssumption
<1>4. SUFFICES ASSUME j >= k + 1 PROVE FALSE
  <2>1. CASE j <= k
    <3>1. j * SfpMtu <= k * SfpMtu
      BY <2>1, <1>3
    <3> QED  BY <3>1, <1>1, <1>2
  <2> QED  BY <2>1, <1>4
<1>5. j * SfpMtu >= (k + 1) * SfpMtu
  BY <1>3, <1>4
<1>6. (k + 1) * SfpMtu = k * SfpMtu + SfpMtu
  BY <1>3
<1>7. k * SfpMtu \in Nat
  BY <1>3
<1> QED  BY <1>1, <1>2, <1>3, <1>5, <1>6, <1>7

LEMMA NextMultiple ==
  ASSUME NEW a \in Nat, Multiple(a)  PROVE Multiple(a + SfpMtu)
<1>1. PICK k \in Nat : a = k * SfpMtu
  BY DEF Multiple
<1>2. a + SfpMtu = (k + 1) * SfpMtu
  BY <1>1, SfpAssumption
<1> QED  BY <1>2 DEF Multiple

LEMMA CountSet ==
  ASSUME NEW send \in [call : 0 .. SfpTransfers, count : 0 .. SfpSize], NEW n \in 0 .. SfpSize
  PROVE  /\ [send EXCEPT !.count = n] \in [call : 0 .. SfpTransfers, count : 0 .. SfpSize]
         /\ [send EXCEPT !.count = n].count = n
         /\ [send EXCEPT !.count = n].call = send.call
<1>1. [send EXCEPT !.count = n] = [call |-> send.call, count |-> n]
  OBVIOUS
<1> QED  BY <1>1

LEMMA ZeroMultiple == Multiple(0)
<1>1. 0 = 0 * SfpMtu
  BY SfpAssumption
<1> QED  BY <1>1 DEF Multiple

-----------------------------------------------------------------------------
LEMMA WholeInit == SfpInit => WholeInv
<1> SUFFICES ASSUME SfpInit PROVE WholeInv
  OBVIOUS
<1> USE SfpAssumption DEF SfpInit
<1>1. SfpTypeOK
  BY DEF SfpTypeOK, SfpReturned, NotAllocated, SfpBytes, Unwritten
<1>2. ReceiverOK
  BY ZeroMultiple DEF ReceiverOK, SfpReturned, SfpBytes
<1> QED  BY <1>1, <1>2 DEF WholeInv, FragmentsOK, SenderOK, SfpWhole

(* A fragment that is accepted leaves everything up to its end written.      *)
LEMMA WholeAccept ==
  ASSUME WholeInv, NEW i \in DOMAIN sfpNet, SfpAccept(sfpNet[i])
  PROVE  /\ sfpRecv' \in [on : BOOLEAN, last_byte : SfpBytes, data : [SfpBytes -> 0 .. SfpTransfers]]
         /\ sfpOut' \in Seq([SfpBytes -> 0 .. SfpTransfers])
         /\ ReceiverOK' /\ SfpWhole'
<1> DEFINE f == sfpNet[i]
           data == [b \in SfpBytes |-> IF b \in f.offset .. End(f) - 1 THEN f.call
                                       ELSE sfpRecv.data[b]]
<1> USE SfpAssumption
<1>1. /\ f \in SfpFragments /\ Multiple(f.offset) /\ End(f) <= SfpSize
      /\ End(f) < SfpSize => f.length = SfpMtu
  BY DEF WholeInv, SfpTypeOK, FragmentsOK
<1>2. /\ f.offset \in Nat /\ f.offset < SfpSize /\ f.length \in Nat /\ f.length >= 1
      /\ f.call \in 1 .. SfpTransfers /\ End(f) \in Nat /\ End(f) >= 1
  BY <1>1 DEF SfpFragments, SfpBytes, End
<1>3. /\ sfpRecv.last_byte \in Nat /\ sfpRecv.last_byte < SfpSize
      /\ sfpRecv.data \in [SfpBytes -> 0 .. SfpTransfers]
      /\ sfpOut \in Seq([SfpBytes -> 0 .. SfpTransfers])
  BY DEF WholeInv, SfpTypeOK, SfpBytes
<1>4. data \in [SfpBytes -> 0 .. SfpTransfers]
  BY <1>2, <1>3
<1>5. CASE SfpGap(f)
  <2>1. sfpRecv' = SfpReturned /\ sfpOut' = sfpOut
    BY <1>5 DEF SfpAccept
  <2> QED  BY <2>1, <1>3, ZeroMultiple
           DEF SfpReturned, NotAllocated, Unwritten, SfpBytes, ReceiverOK, WholeInv, SfpWhole
<1>6. CASE ~SfpGap(f)
  <2>1. f.offset <= sfpRecv.last_byte
    BY <1>6, <1>1, <1>2, <1>3, NoGapOfOne DEF SfpGap, WholeInv, ReceiverOK
  <2>2. \A b \in SfpBytes : b < End(f) => data[b] # Unwritten
    <3> SUFFICES ASSUME NEW b \in SfpBytes, b < End(f) PROVE data[b] # Unwritten
      OBVIOUS
    <3>1. b \in Nat /\ data[b] = IF b \in f.offset .. End(f) - 1 THEN f.call ELSE sfpRecv.data[b]
      BY DEF SfpBytes
    <3>2. CASE b >= f.offset
      <4>1. data[b] = f.call
        BY <1>2, <3>1, <3>2
      <4> QED
        BY <1>2, <4>1 DEF Unwritten
    <3>3. CASE b < f.offset
      <4>1. data[b] = sfpRecv.data[b] /\ b < sfpRecv.last_byte
        BY <1>2, <1>3, <2>1, <3>1, <3>3
      <4> QED
        BY <4>1 DEF WholeInv, ReceiverOK
    <3> QED
      BY <1>2, <3>1, <3>2, <3>3
  <2>3. CASE End(f) >= SfpSize
    <3>1. sfpRecv' = SfpReturned /\ sfpOut' = Append(sfpOut, data)
      BY <1>6, <2>3 DEF SfpAccept, End
    <3>2. \A b \in SfpBytes : data[b] # Unwritten
      BY <2>2, <2>3, <1>2 DEF SfpBytes
    <3>3. SfpWhole'
      BY <3>1, <3>2, <1>3, <1>4 DEF WholeInv, SfpWhole
    <3> QED  BY <3>1, <3>3, <1>3, <1>4, ZeroMultiple
             DEF SfpReturned, NotAllocated, Unwritten, SfpBytes, ReceiverOK
  <2>4. CASE End(f) < SfpSize
    <3>1. /\ sfpRecv' = [on |-> TRUE, last_byte |-> End(f), data |-> data]
          /\ sfpOut' = sfpOut
      BY <1>2, <1>6, <2>4 DEF SfpAccept, End
    <3>2. Multiple(End(f))
      BY <1>1, <1>2, <2>4, NextMultiple DEF End
    <3>3. ReceiverOK'
      BY <3>1, <3>2, <2>2 DEF ReceiverOK, Multiple
    <3>4. End(f) \in SfpBytes
      BY <1>2, <2>4 DEF SfpBytes
    <3>5. sfpRecv' \in [on : BOOLEAN, last_byte : SfpBytes, data : [SfpBytes -> 0 .. SfpTransfers]]
      BY <1>4, <3>1, <3>4
    <3>6. SfpWhole'
      BY <3>1 DEF WholeInv, SfpWhole
    <3> QED  BY <1>3, <3>1, <3>3, <3>5, <3>6
  <2> QED  BY <2>3, <2>4, <1>2
<1> QED  BY <1>5, <1>6

LEMMA WholeStep == WholeInv /\ [SfpNext]_sfpVars => WholeInv'
<1> SUFFICES ASSUME WholeInv, [SfpNext]_sfpVars PROVE WholeInv'
  OBVIOUS
<1> USE SfpAssumption DEF WholeInv
<1>1. CASE SfpCallSend
  <2>1. /\ sfpSend.call + 1 \in 1 .. SfpTransfers
        /\ sfpSend' = [call |-> sfpSend.call + 1, count |-> 0]
        /\ UNCHANGED <<sfpOrdered, sfpNet, sfpRecv, sfpOut>>
    BY <1>1 DEF SfpCallSend, SfpTypeOK
  <2>2. SfpTypeOK'
    BY <2>1 DEF SfpTypeOK
  <2>3. SenderOK'
    BY <2>1, ZeroMultiple DEF SenderOK, Multiple
  <2> QED  BY <2>1, <2>2, <2>3 DEF FragmentsOK, ReceiverOK, SfpWhole, Multiple, End
<1>2. CASE SfpSendFragment
  <2> DEFINE f == [call |-> sfpSend.call, offset |-> sfpSend.count, length |-> FragmentSize]
  <2>1. /\ sfpSend.count < SfpSize /\ sfpNet' = Append(sfpNet, f)
        /\ sfpSend' = [sfpSend EXCEPT !.count = @ + FragmentSize]
        /\ UNCHANGED <<sfpOrdered, sfpRecv, sfpOut>>
    BY <1>2 DEF SfpSendFragment
  <2>2. /\ sfpSend.call \in 1 .. SfpTransfers /\ sfpSend.count \in SfpBytes
        /\ Multiple(sfpSend.count)
    BY <2>1 DEF SfpTypeOK, SenderOK, SfpBytes
  <2>3. /\ FragmentSize \in 1 .. SfpMtu /\ sfpSend.count + FragmentSize <= SfpSize
        /\ sfpSend.count + FragmentSize < SfpSize => FragmentSize = SfpMtu
    BY <2>2 DEF FragmentSize, SfpBytes
  <2>4. f \in SfpFragments /\ Multiple(f.offset)
    BY <2>2, <2>3 DEF SfpFragments
  <2>5. SfpTypeOK'
    <3>1. sfpNet' \in Seq(SfpFragments)
      BY <2>1, <2>4 DEF SfpTypeOK
    <3>2. sfpSend' \in [call : 0 .. SfpTransfers, count : 0 .. SfpSize]
      <4>1. sfpSend.count + FragmentSize \in 0 .. SfpSize
        BY <2>2, <2>3 DEF SfpBytes
      <4>2. sfpSend \in [call : 0 .. SfpTransfers, count : 0 .. SfpSize]
        BY DEF SfpTypeOK
      <4> QED  BY <2>1, <4>1, <4>2, CountSet
    <3> QED  BY <2>1, <3>1, <3>2 DEF SfpTypeOK
  <2>6. FragmentsOK'
    <3> SUFFICES ASSUME NEW i \in DOMAIN sfpNet'
                 PROVE  /\ Multiple(sfpNet'[i].offset)
                        /\ End(sfpNet'[i]) <= SfpSize
                        /\ End(sfpNet'[i]) < SfpSize => sfpNet'[i].length = SfpMtu
      BY DEF FragmentsOK, Multiple, End
    <3>1. CASE i \in DOMAIN sfpNet
      BY <3>1, <2>1 DEF FragmentsOK, SfpTypeOK
    <3>2. CASE i = Len(sfpNet) + 1
      <4>1. sfpNet'[i] = f
        BY <2>1, <3>2 DEF SfpTypeOK
      <4>2. End(f) <= SfpSize /\ (End(f) < SfpSize => f.length = SfpMtu)
        BY <2>2, <2>3 DEF End, SfpBytes
      <4> QED  BY <2>4, <4>1, <4>2
    <3> QED  BY <3>1, <3>2, <2>1 DEF SfpTypeOK
  <2>7. SenderOK'
    <3>1. sfpSend'.count < SfpSize => Multiple(sfpSend'.count)
      BY <2>1, <2>2, <2>3, NextMultiple DEF SfpTypeOK, SfpBytes
    <3> QED  BY <3>1, <2>1, <2>2 DEF SenderOK, SfpTypeOK, Multiple
  <2> QED  BY <2>1, <2>5, <2>6, <2>7 DEF ReceiverOK, SfpWhole, Multiple
<1>3. CASE SfpSendFails
  <2>1. /\ sfpSend' \in [call : 0 .. SfpTransfers, count : 0 .. SfpSize]
        /\ sfpSend'.count = SfpSize
        /\ UNCHANGED <<sfpOrdered, sfpNet, sfpRecv, sfpOut>>
    BY <1>3, CountSet DEF SfpSendFails, SfpTypeOK
  <2>2. SfpTypeOK' /\ SenderOK'
    BY <2>1 DEF SfpTypeOK, SenderOK
  <2> QED  BY <2>1, <2>2 DEF FragmentsOK, ReceiverOK, SfpWhole, Multiple, End
<1>4. ASSUME sfpNet' \in {sfpNet, Tail(sfpNet)}, sfpNet' = Tail(sfpNet) => sfpNet # <<>>
      PROVE  sfpNet' \in Seq(SfpFragments) /\ FragmentsOK'
  <2>1. CASE sfpNet' = sfpNet
    BY <2>1 DEF SfpTypeOK, FragmentsOK, Multiple, End
  <2>2. CASE sfpNet' = Tail(sfpNet) /\ sfpNet # <<>>
    <3>1. /\ sfpNet' \in Seq(SfpFragments)
          /\ \A i \in DOMAIN sfpNet' : i + 1 \in DOMAIN sfpNet /\ sfpNet'[i] = sfpNet[i + 1]
      BY <2>2 DEF SfpTypeOK
    <3> QED  BY <3>1 DEF FragmentsOK, Multiple, End
  <2> QED  BY <1>4, <2>1, <2>2
<1>5. ASSUME sfpRecv' = [SfpReturned EXCEPT !.on = TRUE] \/ sfpRecv' = SfpReturned, UNCHANGED sfpOut
      PROVE  /\ sfpRecv' \in [on : BOOLEAN, last_byte : SfpBytes, data : [SfpBytes -> 0 .. SfpTransfers]]
             /\ ReceiverOK' /\ SfpWhole'
  <2>1. \E on \in BOOLEAN :
          sfpRecv' = [on |-> on, last_byte |-> 0, data |-> [i \in SfpBytes |-> Unwritten]]
    BY <1>5 DEF SfpReturned, NotAllocated
  <2>2. ReceiverOK'
    BY <2>1, ZeroMultiple DEF ReceiverOK, SfpBytes, Multiple
  <2> QED  BY <2>1, <2>2, <1>5 DEF Unwritten, SfpBytes, SfpWhole
<1>6. CASE SfpCallRecv
  BY <1>6, <1>5 DEF SfpCallRecv, SfpTypeOK, FragmentsOK, SenderOK, Multiple
<1>7. CASE SfpRead
  <2>1. PICK i \in DOMAIN sfpNet : /\ sfpNet' = IF sfpOrdered THEN Tail(sfpNet) ELSE sfpNet
                                   /\ SfpAccept(sfpNet[i])
    BY <1>7 DEF SfpRead
  <2>2. sfpNet' \in Seq(SfpFragments) /\ FragmentsOK'
    BY <2>1, <1>4 DEF SfpTypeOK
  <2> QED  BY <2>1, <2>2, <1>7, WholeAccept DEF SfpRead, SfpTypeOK, SenderOK, Multiple
<1>8. CASE SfpNoMemory
  <2>1. sfpNet' \in Seq(SfpFragments) /\ FragmentsOK'
    BY <1>8, <1>4 DEF SfpNoMemory, SfpTypeOK
  <2> QED  BY <2>1, <1>5, <1>8 DEF SfpNoMemory, SfpTypeOK, SenderOK, Multiple
<1>9. CASE SfpTimeOut
  BY <1>9, <1>5 DEF SfpTimeOut, SfpTypeOK, FragmentsOK, SenderOK, Multiple
<1>10. CASE UNCHANGED sfpVars
  BY <1>10 DEF sfpVars, SfpTypeOK, FragmentsOK, SenderOK, ReceiverOK, SfpWhole, Multiple, End
<1> QED  BY <1>1, <1>2, <1>3, <1>6, <1>7, <1>8, <1>9, <1>10 DEF SfpNext

(* The types, and the inductive invariant that keeps holes out.              *)
THEOREM SfpInvariance == SfpSpec => []WholeInv
BY WholeInit, WholeStep, PTL DEF SfpSpec

(* Every variable keeps its type, for every size and number of transfers.    *)
THEOREM SfpTypeCorrect == SfpSpec => []SfpTypeOK
BY SfpInvariance, PTL DEF WholeInv

(* What csp_sfp_recv returns has no hole, whatever the network does.         *)
THEOREM SfpNoHole == SfpSpec => []SfpWhole
BY SfpInvariance, PTL DEF WholeInv

-----------------------------------------------------------------------------
LEMMA OrderInit == SfpInit => OrderInv
<1> SUFFICES ASSUME SfpInit PROVE OrderInv
  OBVIOUS
<1> QED  BY DEF SfpInit, OrderInv, SfpOneTransfer, NetInOrder, RecvInOrder, OutInOrder, SfpReturned

(* The first fragment is taken out.                                          *)
LEMMA TailInOrder ==
  ASSUME WholeInv, NetInOrder, sfpNet # <<>>, sfpNet' = Tail(sfpNet), UNCHANGED sfpSend
  PROVE  /\ NetInOrder'
         /\ \A i \in DOMAIN sfpNet' : i + 1 \in DOMAIN sfpNet /\ sfpNet'[i] = sfpNet[i + 1]
<1>1. sfpNet \in Seq(SfpFragments)
  BY DEF WholeInv, SfpTypeOK
<1>2. /\ Len(sfpNet') = Len(sfpNet) - 1 /\ Len(sfpNet) \in Nat
      /\ DOMAIN sfpNet' = 1 .. Len(sfpNet) - 1 /\ DOMAIN sfpNet = 1 .. Len(sfpNet)
      /\ \A i \in DOMAIN sfpNet' : sfpNet'[i] = sfpNet[i + 1]
  BY <1>1
<1>3. \A i \in DOMAIN sfpNet' : i \in Nat /\ i + 1 \in DOMAIN sfpNet /\ sfpNet'[i] = sfpNet[i + 1]
  BY <1>2
<1>4. ASSUME NEW i \in DOMAIN sfpNet', NEW j \in DOMAIN sfpNet', i < j
      PROVE  Before(sfpNet'[i].call, End(sfpNet'[i]), sfpNet'[j].call, sfpNet'[j].offset)
  <2>1. i + 1 < j + 1
    BY <1>3, <1>4
  <2> QED  BY <2>1, <1>3 DEF NetInOrder
<1>5. ASSUME NEW i \in DOMAIN sfpNet', i + 1 \in DOMAIN sfpNet'
      PROVE  Follows(sfpNet'[i].call, End(sfpNet'[i]), sfpNet'[i + 1].call, sfpNet'[i + 1].offset)
  BY <1>3, <1>5 DEF NetInOrder
<1>6. ASSUME NEW i \in DOMAIN sfpNet'
      PROVE  /\ Before(sfpNet'[i].call, End(sfpNet'[i]), sfpSend.call, sfpSend.count)
             /\ i = Len(sfpNet') => SenderAfter(sfpNet'[i].call, End(sfpNet'[i]))
  <2>1. i = Len(sfpNet') => i + 1 = Len(sfpNet)
    BY <1>2, <1>3
  <2> QED  BY <2>1, <1>3 DEF NetInOrder, SenderAfter, Follows, End
<1> QED  BY <1>3, <1>4, <1>5, <1>6 DEF NetInOrder, Before, Follows, SenderAfter, End

LEMMA OutAfterTail ==
  ASSUME WholeInv, OutInOrder, NetInOrder, sfpNet # <<>>, sfpNet' = Tail(sfpNet),
         UNCHANGED <<sfpSend, sfpOut>>, sfpRecv'.last_byte = 0
  PROVE  OutInOrder'
BY TailInOrder DEF OutInOrder, Before

(* The first fragment is accepted.                                           *)
LEMMA OrderAccept ==
  ASSUME WholeInv, SfpOneTransfer, sfpOrdered, NetInOrder, RecvInOrder, OutInOrder,
         sfpNet # <<>>, sfpNet' = Tail(sfpNet), SfpAccept(sfpNet[1]),
         UNCHANGED <<sfpOrdered, sfpSend>>
  PROVE  OrderInv'
<1> DEFINE f == sfpNet[1]
           data == [b \in SfpBytes |-> IF b \in f.offset .. End(f) - 1 THEN f.call
                                       ELSE sfpRecv.data[b]]
<1> USE SfpAssumption
<1>1. /\ f \in SfpFragments /\ Multiple(f.offset) /\ End(f) <= SfpSize /\ 1 \in DOMAIN sfpNet
  BY DEF WholeInv, SfpTypeOK, FragmentsOK
<1>2. /\ f.offset \in Nat /\ f.offset < SfpSize /\ f.length \in Nat /\ f.length >= 1
      /\ f.call \in Nat /\ End(f) \in Nat /\ End(f) >= 1
  BY <1>1 DEF SfpFragments, SfpBytes, End
<1>3. /\ sfpRecv.last_byte \in Nat /\ sfpRecv.last_byte < SfpSize /\ Multiple(sfpRecv.last_byte)
      /\ sfpRecv.data \in [SfpBytes -> 0 .. SfpTransfers]
      /\ sfpOut \in Seq([SfpBytes -> 0 .. SfpTransfers])
  BY DEF WholeInv, SfpTypeOK, SfpBytes, ReceiverOK
<1>4. NetInOrder'
  BY TailInOrder
<1>5. CASE SfpGap(f)
  <2>1. sfpRecv'.last_byte = 0 /\ UNCHANGED sfpOut
    BY <1>5 DEF SfpAccept, SfpReturned
  <2> QED  BY <2>1, <1>4, OutAfterTail DEF OrderInv, RecvInOrder, SfpOneTransfer
<1>6. CASE ~SfpGap(f)
  <2>1. f.offset <= sfpRecv.last_byte
    BY <1>6, <1>1, <1>2, <1>3, NoGapOfOne DEF SfpGap
  <2>2. \A b \in SfpBytes : b < End(f) => data[b] = f.call
    <3> SUFFICES ASSUME NEW b \in SfpBytes, b < f.offset PROVE sfpRecv.data[b] = f.call
      BY <1>2 DEF SfpBytes
    <3>1. f.call = sfpRecv.data[0] /\ f.offset = sfpRecv.last_byte
      <4>1. b \in Nat
        BY DEF SfpBytes
      <4>2. f.offset > 0 /\ sfpRecv.last_byte > 0
        BY <4>1, <2>1, <1>2, <1>3
      <4>3. Follows(sfpRecv.data[0], sfpRecv.last_byte, f.call, f.offset)
        BY <4>2 DEF RecvInOrder
      <4> QED  BY <4>2, <4>3, <1>2 DEF Follows
    <3> QED  BY <3>1, <1>2 DEF RecvInOrder, SfpBytes
  <2>3. CASE End(f) >= SfpSize
    <3>1. sfpRecv'.last_byte = 0 /\ sfpOut' = Append(sfpOut, data)
      BY <1>6, <2>3 DEF SfpAccept, End, SfpReturned
    <3>2. data \in [SfpBytes -> Nat] /\ 0 \in SfpBytes
      BY <1>2, <1>3 DEF SfpBytes
    <3>3. \A b \in SfpBytes : data[b] = f.call
      BY <2>2, <2>3, <1>2 DEF SfpBytes
    <3>4. /\ DOMAIN sfpOut' = 1 .. Len(sfpOut) + 1 /\ DOMAIN sfpOut = 1 .. Len(sfpOut)
          /\ Len(sfpOut) \in Nat
          /\ sfpOut'[Len(sfpOut) + 1] = data
          /\ \A n \in DOMAIN sfpOut : sfpOut'[n] = sfpOut[n]
      BY <3>1, <1>3
    <3>5. \A n \in DOMAIN sfpOut : sfpOut[n][0] < f.call
      BY <1>1 DEF OutInOrder
    <3>6. SfpOneTransfer'
      <4>1. ASSUME NEW n \in DOMAIN sfpOut', NEW b \in SfpBytes PROVE sfpOut'[n][b] = sfpOut'[n][0]
        <5>1. CASE n = Len(sfpOut) + 1
          BY <5>1, <3>2, <3>3, <3>4
        <5>2. CASE n \in DOMAIN sfpOut
          BY <5>2, <3>4 DEF SfpOneTransfer
        <5> QED  BY <5>1, <5>2, <3>4
      <4>2. ASSUME NEW k \in DOMAIN sfpOut', NEW n \in DOMAIN sfpOut', k < n
            PROVE  sfpOut'[k][0] < sfpOut'[n][0]
        <5>1. k \in DOMAIN sfpOut
          BY <4>2, <3>4
        <5>2. CASE n = Len(sfpOut) + 1
          BY <5>1, <5>2, <3>2, <3>3, <3>4, <3>5
        <5>3. CASE n \in DOMAIN sfpOut
          BY <5>1, <5>3, <4>2, <3>4 DEF SfpOneTransfer
        <5> QED  BY <5>2, <5>3, <3>4
      <4> QED  BY <4>1, <4>2 DEF SfpOneTransfer, SfpBytes
    <3>7. OutInOrder'
      <4>1. ASSUME NEW n \in DOMAIN sfpOut'
            PROVE  /\ Before(sfpOut'[n][0], SfpSize, sfpSend.call, sfpSend.count)
                   /\ \A i \in DOMAIN sfpNet' : sfpOut'[n][0] < sfpNet'[i].call
        <5>1. CASE n = Len(sfpOut) + 1
          <6>1. sfpOut'[n][0] = f.call /\ End(f) = SfpSize
            BY <5>1, <3>2, <3>3, <3>4, <2>3, <1>1, <1>2
          <6>2. Before(f.call, SfpSize, sfpSend.call, sfpSend.count)
            BY <6>1, <1>1 DEF NetInOrder
          <6>3. ASSUME NEW i \in DOMAIN sfpNet' PROVE f.call < sfpNet'[i].call
            <7>1. /\ i + 1 \in DOMAIN sfpNet /\ sfpNet'[i] = sfpNet[i + 1] /\ 1 < i + 1
                  /\ sfpNet[i + 1] \in SfpFragments
              BY TailInOrder DEF WholeInv, SfpTypeOK
            <7>2. Before(f.call, SfpSize, sfpNet[i + 1].call, sfpNet[i + 1].offset)
              BY <7>1, <6>1, <1>1 DEF NetInOrder
            <7> QED  BY <7>1, <7>2, <1>2 DEF Before, SfpFragments, SfpBytes
          <6> QED  BY <6>1, <6>2, <6>3
        <5>2. CASE n \in DOMAIN sfpOut
          BY <5>2, <3>4, TailInOrder DEF OutInOrder
        <5> QED  BY <5>1, <5>2, <3>4
      <4> QED  BY <4>1, <3>1 DEF OutInOrder, Before
    <3> QED  BY <3>1, <3>6, <3>7, <1>4 DEF OrderInv, RecvInOrder
  <2>4. CASE End(f) < SfpSize
    <3>1. /\ sfpRecv' = [on |-> TRUE, last_byte |-> End(f), data |-> data]
          /\ sfpOut' = sfpOut
      BY <1>2, <1>6, <2>4 DEF SfpAccept, End
    <3>2. sfpRecv'.last_byte = End(f) /\ sfpRecv'.data = data /\ data[0] = f.call /\ 0 \in SfpBytes
      BY <3>1, <2>2, <1>2 DEF SfpBytes
    <3>3. RecvInOrder'
      <4>1. CASE sfpNet' = <<>>
        <5>1. 1 = Len(sfpNet)
          <6>1. sfpNet \in Seq(SfpFragments)
            BY DEF WholeInv, SfpTypeOK
          <6>2. Len(sfpNet) \in Nat /\ Len(Tail(sfpNet)) = Len(sfpNet) - 1
            BY <6>1, HeadTailProperties
          <6>3. Tail(sfpNet) = <<>>
            BY <4>1
          <6>4. Len(Tail(sfpNet)) = 0
            BY <6>3, EmptySeq, Zenon
          <6>5. Len(sfpNet) \in Nat /\ Len(sfpNet) - 1 = 0
            BY <6>2, <6>4, Zenon
          <6> QED  BY <6>5
        <5>2. SenderAfter(f.call, End(f))
          BY <5>1, <1>1 DEF NetInOrder
        <5> QED  BY <5>2, <4>1, <3>2, <2>2 DEF RecvInOrder, SenderAfter, Follows
      <4>2. CASE sfpNet' # <<>>
        <5>1. 1 \in DOMAIN sfpNet'
          BY <4>2 DEF WholeInv, SfpTypeOK
        <5>2. 1 + 1 \in DOMAIN sfpNet /\ sfpNet'[1] = sfpNet[1 + 1]
          BY <5>1, TailInOrder
        <5>3. Follows(f.call, End(f), sfpNet'[1].call, sfpNet'[1].offset)
          BY <5>2, <1>1 DEF NetInOrder
        <5> QED  BY <5>3, <4>2, <3>2, <2>2 DEF RecvInOrder, Follows
      <4> QED  BY <4>1, <4>2
    <3>4. OutInOrder'
      BY <3>1, <3>2, <1>1, TailInOrder DEF OutInOrder, Before
    <3> QED  BY <3>1, <3>3, <3>4, <1>4 DEF OrderInv, SfpOneTransfer
  <2> QED  BY <2>3, <2>4, <1>2
<1> QED  BY <1>5, <1>6

LEMMA OrderStep == WholeInv /\ OrderInv /\ [SfpNext]_sfpVars => OrderInv'
<1> SUFFICES ASSUME WholeInv, OrderInv, [SfpNext]_sfpVars PROVE OrderInv'
  OBVIOUS
<1> USE SfpAssumption
<1>1. sfpOrdered' = sfpOrdered
  BY DEF SfpNext, SfpCallSend, SfpSendFragment, SfpSendFails, SfpCallRecv, SfpRead, SfpNoMemory,
         SfpTimeOut, sfpVars
<1>2. CASE ~sfpOrdered
  BY <1>1, <1>2 DEF OrderInv, SfpOneTransfer
<1>3. CASE sfpOrdered
  <2> USE <1>3
  <2>1. /\ NetInOrder /\ RecvInOrder /\ OutInOrder /\ SfpOneTransfer
        /\ sfpSend.call \in Nat /\ sfpSend.count \in 0 .. SfpSize
        /\ sfpNet \in Seq(SfpFragments)
        /\ sfpRecv.last_byte \in Nat /\ sfpRecv.data \in [SfpBytes -> Nat]
        /\ \A i \in DOMAIN sfpNet : End(sfpNet[i]) <= SfpSize /\ sfpNet[i].call \in Nat
        /\ 0 \in SfpBytes
        /\ \A n \in DOMAIN sfpOut : sfpOut[n][0] \in Nat
    <3>1. /\ NetInOrder /\ RecvInOrder /\ OutInOrder /\ SfpOneTransfer
          /\ sfpNet \in Seq(SfpFragments) /\ 0 \in SfpBytes
      BY DEF OrderInv, WholeInv, SfpTypeOK, SfpBytes
    <3>2. sfpSend.call \in Nat /\ sfpSend.count \in 0 .. SfpSize
      BY DEF WholeInv, SfpTypeOK
    <3>3. sfpRecv.last_byte \in Nat /\ sfpRecv.data \in [SfpBytes -> Nat]
      BY DEF WholeInv, SfpTypeOK, SfpBytes
    <3>4. \A i \in DOMAIN sfpNet : End(sfpNet[i]) <= SfpSize /\ sfpNet[i].call \in Nat
      <4> SUFFICES ASSUME NEW i \in DOMAIN sfpNet
                   PROVE  End(sfpNet[i]) <= SfpSize /\ sfpNet[i].call \in Nat
        OBVIOUS
      <4>1. sfpNet[i] \in SfpFragments
        BY <3>1
      <4>2. sfpNet[i].call \in Nat
        BY <4>1 DEF SfpFragments
      <4> QED  BY <4>2 DEF WholeInv, FragmentsOK
    <3>5. \A n \in DOMAIN sfpOut : sfpOut[n][0] \in Nat
      BY <3>1 DEF WholeInv, SfpTypeOK
    <3> QED  BY <3>1, <3>2, <3>3, <3>4, <3>5
  <2>2. ASSUME UNCHANGED <<sfpSend, sfpNet, sfpOut>>, sfpRecv'.last_byte = 0 PROVE OrderInv'
    BY <2>1, <2>2, <1>1
    DEF OrderInv, NetInOrder, RecvInOrder, OutInOrder, SfpOneTransfer, SenderAfter, Follows, Before, End
  <2>3. CASE SfpCallSend
    <3>1. /\ sfpSend.count = SfpSize /\ sfpSend'.call = sfpSend.call + 1 /\ sfpSend'.count = 0
          /\ UNCHANGED <<sfpNet, sfpRecv, sfpOut>>
      BY <2>3 DEF SfpCallSend
    <3>2. NetInOrder'
      BY <2>1, <3>1 DEF NetInOrder, Before, SenderAfter, Follows, End
    <3>3. RecvInOrder'
      BY <2>1, <3>1 DEF RecvInOrder, SenderAfter, Follows
    <3>4. OutInOrder'
      BY <2>1, <3>1 DEF OutInOrder, Before
    <3> QED  BY <2>1, <3>1, <3>2, <3>3, <3>4 DEF OrderInv, SfpOneTransfer
  <2>4. CASE SfpSendFragment
    <3> DEFINE f == [call |-> sfpSend.call, offset |-> sfpSend.count, length |-> FragmentSize]
    <3>1. /\ sfpSend.count < SfpSize /\ sfpNet' = Append(sfpNet, f)
          /\ sfpSend' = [sfpSend EXCEPT !.count = @ + FragmentSize]
          /\ UNCHANGED <<sfpRecv, sfpOut>>
      BY <2>4 DEF SfpSendFragment
    <3>2. /\ FragmentSize \in Nat /\ FragmentSize >= 1
          /\ sfpSend.count + FragmentSize \in 0 .. SfpSize
      <4>1. sfpSend.count \in Nat /\ SfpSize \in Nat /\ SfpMtu \in Nat /\ SfpMtu >= 1
        BY <2>1, SfpAssumption
      <4> QED  BY <3>1, <4>1 DEF FragmentSize
    <3>3. sfpSend'.call = sfpSend.call /\ sfpSend'.count = End(f)
      BY <3>1, <3>2, CountSet DEF WholeInv, SfpTypeOK, End
    <3>4. /\ DOMAIN sfpNet' = 1 .. Len(sfpNet) + 1 /\ DOMAIN sfpNet = 1 .. Len(sfpNet)
          /\ Len(sfpNet) \in Nat /\ Len(sfpNet') = Len(sfpNet) + 1
          /\ sfpNet'[Len(sfpNet) + 1] = f
          /\ \A i \in DOMAIN sfpNet : sfpNet'[i] = sfpNet[i]
      BY <2>1, <3>1
    <3>5. NetInOrder'
      <4>1. ASSUME NEW i \in DOMAIN sfpNet', NEW j \in DOMAIN sfpNet', i < j
            PROVE  Before(sfpNet'[i].call, End(sfpNet'[i]), sfpNet'[j].call, sfpNet'[j].offset)
        <5>1. i \in DOMAIN sfpNet
          BY <4>1, <3>4
        <5>2. CASE j = Len(sfpNet) + 1
          BY <5>1, <5>2, <3>4, <2>1 DEF NetInOrder
        <5>3. CASE j \in DOMAIN sfpNet
          BY <5>1, <5>3, <4>1, <3>4, <2>1 DEF NetInOrder
        <5> QED  BY <5>2, <5>3, <3>4
      <4>2. ASSUME NEW i \in DOMAIN sfpNet', i + 1 \in DOMAIN sfpNet'
            PROVE  Follows(sfpNet'[i].call, End(sfpNet'[i]), sfpNet'[i + 1].call, sfpNet'[i + 1].offset)
        <5>1. i \in DOMAIN sfpNet
          BY <4>2, <3>4
        <5>2. CASE i = Len(sfpNet)
          <6>1. SenderAfter(sfpNet[i].call, End(sfpNet[i]))
            BY <5>1, <5>2, <2>1 DEF NetInOrder
          <6>2. Follows(sfpNet[i].call, End(sfpNet[i]), f.call, f.offset)
            BY <6>1, <3>1 DEF SenderAfter
          <6> QED  BY <5>1, <5>2, <6>2, <3>4
        <5>3. CASE i + 1 \in DOMAIN sfpNet
          BY <5>1, <5>3, <3>4, <2>1 DEF NetInOrder
        <5> QED  BY <5>1, <5>2, <5>3, <3>4
      <4>3. ASSUME NEW i \in DOMAIN sfpNet'
            PROVE  /\ Before(sfpNet'[i].call, End(sfpNet'[i]), sfpSend'.call, sfpSend'.count)
                   /\ i = Len(sfpNet') => Follows(sfpNet'[i].call, End(sfpNet'[i]), sfpSend'.call, sfpSend'.count)
        <5>1. CASE i = Len(sfpNet) + 1
          BY <5>1, <3>2, <3>3, <3>4, <2>1 DEF Before, Follows, End
        <5>2. CASE i \in DOMAIN sfpNet
          <6>1. Before(sfpNet[i].call, End(sfpNet[i]), sfpSend.call, sfpSend.count)
            BY <5>2, <2>1 DEF NetInOrder
          <6>2. End(sfpNet[i]) \in Nat /\ End(f) \in Nat /\ End(f) >= sfpSend.count
            <7>1. sfpNet[i] \in SfpFragments
              BY <5>2, <2>1
            <7>2. End(f) = sfpSend.count + FragmentSize
              BY DEF End
            <7>3. sfpNet[i].offset \in Nat /\ sfpNet[i].length \in Nat
              BY <7>1 DEF SfpFragments, SfpBytes
            <7>4. End(sfpNet[i]) \in Nat
              BY <7>3 DEF End
            <7> QED  BY <7>2, <7>4, <2>1, <3>2
          <6>3. Before(sfpNet[i].call, End(sfpNet[i]), sfpSend.call, End(f))
            BY <6>1, <6>2, <2>1 DEF Before
          <6> QED  BY <5>2, <6>3, <3>3, <3>4
        <5> QED  BY <5>1, <5>2, <3>4
      <4> QED  BY <4>1, <4>2, <4>3 DEF NetInOrder, SenderAfter, Before, Follows, End
    <3>6. RecvInOrder'
      <4>1. sfpNet' # <<>>
        BY <3>4
      <4>2. CASE sfpNet = <<>>
        BY <4>1, <4>2, <3>1, <3>4, <2>1 DEF RecvInOrder, SenderAfter, Follows
      <4>3. CASE sfpNet # <<>>
        BY <4>1, <4>3, <3>1, <3>4, <2>1 DEF RecvInOrder, Follows
      <4> QED  BY <4>2, <4>3
    <3>7. OutInOrder'
      <4>1. ASSUME NEW n \in DOMAIN sfpOut PROVE sfpOut[n][0] < sfpSend.call
        BY <2>1, <3>1 DEF OutInOrder, Before
      <4>2. ASSUME NEW n \in DOMAIN sfpOut, NEW i \in DOMAIN sfpNet' PROVE sfpOut[n][0] < sfpNet'[i].call
        BY <4>1, <2>1, <3>4 DEF OutInOrder
      <4> QED  BY <4>1, <4>2, <2>1, <3>1, <3>3 DEF OutInOrder, Before
    <3> QED  BY <2>1, <3>1, <3>5, <3>6, <3>7 DEF OrderInv, SfpOneTransfer
  <2>5. CASE SfpSendFails
    <3>1. /\ sfpSend'.call = sfpSend.call /\ sfpSend'.count = SfpSize
          /\ UNCHANGED <<sfpNet, sfpRecv, sfpOut>>
      BY <2>5, CountSet DEF SfpSendFails, WholeInv, SfpTypeOK
    <3>2. NetInOrder'
      BY <2>1, <3>1 DEF NetInOrder, Before, SenderAfter, Follows, End
    <3>3. RecvInOrder'
      BY <2>1, <3>1 DEF RecvInOrder, SenderAfter, Follows
    <3>4. OutInOrder'
      BY <2>1, <3>1 DEF OutInOrder, Before
    <3> QED  BY <2>1, <3>1, <3>2, <3>3, <3>4 DEF OrderInv, SfpOneTransfer
  <2>6. CASE SfpCallRecv
    BY <2>2, <2>6 DEF SfpCallRecv, SfpReturned
  <2>7. CASE SfpRead
    <3>1. sfpNet # <<>> /\ sfpNet' = Tail(sfpNet) /\ SfpAccept(sfpNet[1])
      BY <2>7 DEF SfpRead
    <3> QED  BY <2>1, <2>7, <3>1, OrderAccept DEF SfpRead
  <2>8. CASE SfpNoMemory
    <3>1. /\ sfpNet # <<>> /\ sfpNet' = Tail(sfpNet) /\ sfpRecv'.last_byte = 0
          /\ UNCHANGED <<sfpSend, sfpOut>>
      BY <2>8 DEF SfpNoMemory, SfpReturned
    <3> QED  BY <2>1, <3>1, <1>1, TailInOrder, OutAfterTail DEF OrderInv, RecvInOrder, SfpOneTransfer
  <2>9. CASE SfpTimeOut
    BY <2>2, <2>9 DEF SfpTimeOut, SfpReturned
  <2>10. CASE UNCHANGED sfpVars
    BY <2>10 DEF sfpVars, OrderInv, NetInOrder, RecvInOrder, OutInOrder, SfpOneTransfer, SenderAfter,
                 Follows, Before, End
  <2> QED  BY <2>3, <2>4, <2>5, <2>6, <2>7, <2>8, <2>9, <2>10 DEF SfpNext
<1> QED  BY <1>2, <1>3

(* On a connection with RDP csp_sfp_recv returns one transfer, and the       *)
(* transfers in their order.                                                 *)
THEOREM SfpInOrder == SfpSpec => []SfpOneTransfer
<1>1. OrderInv => SfpOneTransfer
  BY DEF OrderInv
<1> QED  BY <1>1, WholeInit, WholeStep, OrderInit, OrderStep, PTL DEF SfpSpec

-----------------------------------------------------------------------------
(* The packets sent so far; the number of frames of a packet, and where its  *)
(* k-th frame starts, from 0.                                                *)
CanPackets == 1 .. canSent
Frames(n) == (CanLength[n] + 5) \div 8 + 1
From(k) == IF k = 0 THEN 0 ELSE 8 * k - 6

(* The number of a frame in its packet, of the next frame of a task, and how *)
(* many frames an element has taken.                                         *)
Index(f) == Frames(f.n) - 1 - f.remain
Position(k) == IF k.begun THEN (k.count + 6) \div 8 ELSE 0
FramesTaken(b) == Frames(b.packet) - b.remain

(* The tasks in csp_can_tx and the elements in use.                          *)
Sending == {t \in CanTasks : canTask[t].n # 0}
Filling == {e \in 1 .. CanElements : canPbuf[e].used}

(* The types of the variables.                                               *)
Piece == [n : Nat, from : Nat]
FrameType == [id : Nat, begin : BOOLEAN, n : Nat, from : Nat, bytes : Nat, remain : Nat]
TaskType == [n : Nat, id : Nat, count : Nat, begun : BOOLEAN]
ElementType == [used : BOOLEAN, id : Nat, remain : Nat, packet : Nat \cup {NoCanPacket},
                count : Nat, data : Seq(Piece), old : BOOLEAN]

CanTypes ==
  /\ canId \in 0 .. CanIdSpace - 1 /\ canSent \in 0 .. Len(CanLength)
  /\ canTask \in [CanTasks -> TaskType]
  /\ canQueue \in Seq(FrameType) /\ Len(canQueue) <= CanQueueSize
  /\ canPbuf \in [1 .. CanElements -> ElementType]
  /\ canUp \in Seq([n : Nat, data : Seq(Piece)])
  /\ canHurt \subseteq Nat /\ canFaults \in Nat

(* A frame says of itself which part of its packet it is, a task sends the   *)
(* frames in turn, an element has the first ones.                            *)
FrameOK(f) ==
  /\ f.n \in CanPackets /\ Index(f) >= 0
  /\ f.begin <=> Index(f) = 0
  /\ f.from = From(Index(f))
  /\ f.bytes = AtMost(CanLength[f.n] - f.from, IF f.begin THEN 2 ELSE 8)
TaskOK(k) ==
  /\ k.n \in CanPackets /\ Position(k) < Frames(k.n)
  /\ k.begun <=> Position(k) # 0
  /\ k.count = From(Position(k))
FirstPieces(n, j) == [i \in 1 .. j |-> [n |-> n, from |-> From(i - 1)]]
ElementOK(b) ==
  /\ b.packet \in CanPackets /\ b.remain >= 1 /\ FramesTaken(b) >= 1
  /\ b.count = From(FramesTaken(b))
  /\ b.data = FirstPieces(b.packet, FramesTaken(b))

(* All of them are so, and what came out is complete.                        *)
Sound == /\ \A i \in DOMAIN canQueue : FrameOK(canQueue[i])
         /\ \A t \in Sending : TaskOK(canTask[t])
         /\ \A t \in CanTasks \ Sending : canTask[t] = CanIdle
         /\ \A e \in Filling : ElementOK(canPbuf[e])
         /\ \A e \in (1 .. CanElements) \ Filling : canPbuf[e] = CanFree
         /\ \A i \in DOMAIN canUp : /\ canUp[i].n \in CanPackets
                                    /\ canUp[i].data = FirstPieces(canUp[i].n, Frames(canUp[i].n))

(* Each packet has one task, one element and one result, and its frames are  *)
(* in their order: first those taken, then those in the queue, then those    *)
(* to come.                                                                  *)
Ordered ==
  /\ \A s, t \in Sending : canTask[s].n = canTask[t].n => s = t
  /\ \A d, e \in Filling : canPbuf[d].packet = canPbuf[e].packet => d = e
  /\ \A i, j \in DOMAIN canQueue :
       i < j /\ canQueue[i].n = canQueue[j].n => Index(canQueue[i]) < Index(canQueue[j])
  /\ \A i \in DOMAIN canQueue : \A t \in Sending :
       canQueue[i].n = canTask[t].n => Index(canQueue[i]) < Position(canTask[t])
  /\ \A e \in Filling : \A i \in DOMAIN canQueue :
       canPbuf[e].packet = canQueue[i].n => FramesTaken(canPbuf[e]) <= Index(canQueue[i])
  /\ \A e \in Filling : \A t \in Sending :
       canPbuf[e].packet = canTask[t].n => FramesTaken(canPbuf[e]) <= Position(canTask[t])
  /\ \A i \in DOMAIN canUp :
       /\ \A j \in DOMAIN canUp : canUp[i].n = canUp[j].n => i = j
       /\ \A e \in Filling : canPbuf[e].packet # canUp[i].n
       /\ \A j \in DOMAIN canQueue : canQueue[j].n # canUp[i].n
       /\ \A t \in Sending : canTask[t].n # canUp[i].n

(* The numbers in use, each with its packet: a number in use stands for one. *)
InUse == {<<canTask[t].id, canTask[t].n>> : t \in Sending}
         \cup {<<canQueue[i].id, canQueue[i].n>> : i \in DOMAIN canQueue}
         \cup {<<canPbuf[e].id, canPbuf[e].packet>> : e \in Filling}
Named == \A x, y \in InUse : x[1] = y[1] <=> x[2] = y[2]

(* The number that the next packet gets is not in use any more.              *)
IdFree == canSent < Len(CanLength) => \A x \in InUse : x[1] # canId

(* No frame of a packet without a fault is missing.                          *)
Accounted ==
  \A n \in CanPackets \ canHurt :
    \/ \E i \in DOMAIN canUp : canUp[i].n = n
    \/ \A k \in 0 .. Frames(n) - 1 :
         \/ \E e \in Filling : canPbuf[e].packet = n /\ k < FramesTaken(canPbuf[e])
         \/ \E i \in DOMAIN canQueue : canQueue[i].n = n /\ Index(canQueue[i]) = k
         \/ \E t \in Sending : canTask[t].n = n /\ Position(canTask[t]) <= k

CanInv == Sound /\ Ordered /\ Named /\ Accounted

-----------------------------------------------------------------------------
(* The k-th frame of a packet of l bytes: where it ends, where the next one  *)
(* starts, how csp_can_tx counts it and what it writes into `remain'.        *)
LEMMA FrameNumbers ==
  ASSUME NEW l \in Nat, NEW k \in Nat, k <= (l + 5) \div 8
  PROVE  LET last == (l + 5) \div 8
             bytes == AtMost(l - From(k), IF k = 0 THEN 2 ELSE 8) IN
         /\ last \in Nat /\ bytes \in Nat /\ From(k) \in Nat /\ From(k) <= l
         /\ k = last => From(k) + bytes = l
         /\ k < last => From(k) + bytes = From(k + 1) /\ From(k + 1) < l
         /\ k > 0 => From(k) > 0 /\ (From(k) + 6) \div 8 = k
         /\ (IF k > 0 THEN (l - From(k) - bytes + 7) \div 8 ELSE last) = last - k
<1> DEFINE last == (l + 5) \div 8
           bytes == AtMost(l - From(k), IF k = 0 THEN 2 ELSE 8)
<1>1. last \in Nat /\ 8 * last <= l + 5 /\ l + 5 < 8 * last + 8
  OBVIOUS
<1> HIDE DEF last
<1>2. From(k) \in Nat /\ From(k) <= l /\ (k > 0 => From(k) = 8 * k - 6)
  BY <1>1 DEF From, last
<1>3. CASE k = last
  <2>1. From(k) + bytes = l /\ bytes \in Nat
    BY <1>1, <1>2, <1>3 DEF AtMost, From
  <2>2. k > 0 => From(k) > 0 /\ (From(k) + 6) \div 8 = k
    BY <1>2
  <2>3. (IF k > 0 THEN (l - From(k) - bytes + 7) \div 8 ELSE last) = last - k
    <3>1. CASE k > 0
      <4>1. l - From(k) - bytes + 7 = 7
        BY <1>2, <2>1
      <4> QED
        BY <1>1, <1>3, <3>1, <4>1
    <3> QED
      BY <3>1, <1>1, <1>3
  <2> QED
    BY <1>1, <1>2, <1>3, <2>1, <2>2, <2>3 DEF last
<1>4. CASE k < last
  <2>1. /\ From(k) + bytes = From(k + 1) /\ bytes \in Nat /\ From(k + 1) < l
        /\ From(k + 1) = 8 * k + 2
    BY <1>1, <1>2, <1>4 DEF AtMost, From
  <2>2. k > 0 => From(k) > 0 /\ (From(k) + 6) \div 8 = k
    BY <1>2
  <2>3. (IF k > 0 THEN (l - From(k) - bytes + 7) \div 8 ELSE last) = last - k
    <3>1. CASE k > 0
      <4>1. l - From(k) - bytes + 7 = l + 5 - 8 * k
        BY <1>2, <2>1
      <4>2. (l + 5 - 8 * k) \div 8 = last - k
        BY <1>1
      <4> QED
        BY <3>1, <4>1, <4>2
    <3> QED
      BY <3>1, <1>1
  <2> QED
    BY <1>1, <1>2, <1>4, <2>1, <2>2, <2>3 DEF last
<1> QED
  BY <1>1, <1>3, <1>4 DEF last

(* The packets that were sent have a length and at least one frame.          *)
LEMMA FramesType ==
  ASSUME CanTypes, NEW n \in CanPackets
  PROVE  n \in Nat \ {0} /\ CanLength[n] \in Nat /\ Frames(n) \in Nat \ {0} /\ n \in 1 .. Len(CanLength)
<1>1. n \in 1 .. Len(CanLength) /\ n \in Nat \ {0}
  BY CanAssumption, LenProperties DEF CanTypes, CanPackets
<1>2. CanLength[n] \in Nat
  BY <1>1, CanAssumption, ElementOfSeq
<1> QED
  BY <1>1, <1>2 DEF Frames

(* The position of a task is a number.                                       *)
LEMMA PositionType ==
  ASSUME NEW k \in TaskType
  PROVE  Position(k) \in Nat
<1>1. k.count \in Nat
  BY DEF TaskType
<1>2. (k.count + 6) \div 8 \in Nat
  BY <1>1
<1> QED
  BY <1>2 DEF Position

(* The queue r is q without its first s frames.                              *)
Behind(q, r, s) == /\ s \in {0, 1}
                   /\ \A i \in DOMAIN r : i + s \in DOMAIN q /\ r[i] = q[i + s]
                   /\ \A i \in DOMAIN q : i > s => i - s \in DOMAIN r

(* Taking the first frame leaves the others one place further in front.      *)
LEMMA TailBehind ==
  ASSUME NEW S, NEW q \in Seq(S), q # <<>>
  PROVE  /\ Behind(q, Tail(q), 1) /\ Tail(q) \in Seq(S) /\ Len(Tail(q)) = Len(q) - 1
         /\ Head(q) = q[1] /\ 1 \in DOMAIN q /\ Head(q) \in S
<1>1. /\ Tail(q) \in Seq(S) /\ Len(Tail(q)) = Len(q) - 1
      /\ \A i \in 1 .. Len(Tail(q)) : Tail(q)[i] = q[i + 1]
  BY HeadTailProperties
<1>2. DOMAIN q = 1 .. Len(q) /\ Len(q) \in Nat /\ DOMAIN Tail(q) = 1 .. Len(Tail(q)) /\ Len(q) > 0
  BY <1>1, LenProperties, EmptySeq
<1>3. Head(q) = q[1] /\ q[1] \in S
  BY <1>2, ElementOfSeq
<1> QED
  BY <1>1, <1>2, <1>3 DEF Behind

(* A queue that stays the same is behind itself by nothing.                  *)
LEMMA SameBehind ==
  ASSUME NEW S, NEW q \in Seq(S)
  PROVE  Behind(q, q, 0)
<1>1. DOMAIN q = 1 .. Len(q) /\ Len(q) \in Nat
  BY LenProperties
<1> QED
  BY <1>1 DEF Behind

(* What Append does, in terms of the domain.                                 *)
LEMMA AppendIs ==
  ASSUME NEW S, NEW q \in Seq(S), NEW x \in S
  PROVE  LET r == Append(q, x)  n == Len(q) + 1 IN
         /\ r \in Seq(S) /\ Len(r) = n /\ n \in DOMAIN r /\ r[n] = x
         /\ DOMAIN r = DOMAIN q \cup {n} /\ \A i \in DOMAIN q : r[i] = q[i] /\ i < n /\ i # n
<1>1. /\ Append(q, x) \in Seq(S) /\ Len(Append(q, x)) = Len(q) + 1
      /\ \A i \in 1 .. Len(q) : Append(q, x)[i] = q[i]
      /\ Append(q, x)[Len(q) + 1] = x
  BY AppendProperties
<1>2. DOMAIN q = 1 .. Len(q) /\ Len(q) \in Nat /\ DOMAIN Append(q, x) = 1 .. Len(Append(q, x))
  BY <1>1, LenProperties
<1> QED
  BY <1>1, <1>2

(* Element c is b, except for its age.                                       *)
SameElement(b, c) == /\ c.used = b.used /\ c.id = b.id /\ c.remain = b.remain /\ c.packet = b.packet
             /\ c.count = b.count /\ c.data = b.data /\ (~b.used => c = b)

-----------------------------------------------------------------------------
(* A step that only takes away: what is lost of a packet is a fault of it.   *)
Fewer(s) ==
  /\ canSent' = canSent /\ canUp' = canUp /\ canHurt \subseteq canHurt'
  /\ \A t \in CanTasks : \/ canTask'[t] = canTask[t]
                         \/ canTask'[t] = CanIdle /\ (t \in Sending => canTask[t].n \in canHurt')
  /\ Behind(canQueue, canQueue', s)
  /\ \A i \in DOMAIN canQueue : i <= s => canQueue[i].n \in canHurt'
  /\ \A e \in 1 .. CanElements :
       \/ SameElement(canPbuf[e], canPbuf'[e])
       \/ canPbuf'[e] = CanFree /\ (e \in Filling => canPbuf[e].packet \in canHurt')

(* A step that only takes away keeps the invariant and uses no new number.   *)
LEMMA FewerInv ==
  ASSUME CanTypes, CanTypes', CanInv, NEW s, Fewer(s)
  PROVE  CanInv' /\ InUse' \subseteq InUse
<1>1. CanPackets' = CanPackets
  BY DEF Fewer, CanPackets
<1>2. \A t \in Sending' : t \in Sending /\ canTask'[t] = canTask[t]
  BY DEF Fewer, Sending, CanIdle
<1>3. \A e \in Filling' : e \in Filling /\ SameElement(canPbuf[e], canPbuf'[e])
  BY DEF Fewer, Filling, CanFree, SameElement
<1>4. \A e \in Filling' : /\ canPbuf'[e].packet = canPbuf[e].packet /\ canPbuf'[e].id = canPbuf[e].id
                          /\ FramesTaken(canPbuf'[e]) = FramesTaken(canPbuf[e])
  BY <1>3 DEF SameElement, FramesTaken
<1>5. \A i \in DOMAIN canQueue' : i + s \in DOMAIN canQueue /\ canQueue'[i] = canQueue[i + s]
  BY DEF Fewer, Behind
<1>d. /\ \A i \in DOMAIN canQueue' : i \in Nat
      /\ \A i \in DOMAIN canQueue : i \in Nat /\ i > 0
      /\ s \in {0, 1}
  BY LenProperties DEF CanTypes, Fewer, Behind
<1>6. Sound'
  <2>1. \A i \in DOMAIN canQueue' : FrameOK(canQueue[i + s])
    BY <1>5 DEF CanInv, Sound
  <2>2. (\A i \in DOMAIN canQueue : FrameOK(canQueue[i]))'
    BY <1>1, <1>5, <2>1 DEF FrameOK
  <2>3. (\A t \in Sending : TaskOK(canTask[t]))'
    BY <1>1, <1>2 DEF CanInv, Sound, TaskOK
  <2>4. (\A t \in CanTasks \ Sending : canTask[t] = CanIdle)'
    BY DEF CanInv, Sound, Fewer, Sending
  <2>5. (\A e \in Filling : ElementOK(canPbuf[e]))'
    BY <1>1, <1>3, <1>4 DEF CanInv, Sound, ElementOK, SameElement
  <2>6. (\A e \in (1 .. CanElements) \ Filling : canPbuf[e] = CanFree)'
    BY DEF CanInv, Sound, Fewer, Filling, SameElement
  <2>7. (\A i \in DOMAIN canUp : /\ canUp[i].n \in CanPackets
                                 /\ canUp[i].data = FirstPieces(canUp[i].n, Frames(canUp[i].n)))'
    BY <1>1 DEF CanInv, Sound, Fewer
  <2> QED
    BY <2>2, <2>3, <2>4, <2>5, <2>6, <2>7 DEF Sound
<1>7. Ordered'
  <2>1. (\A t, u \in Sending : canTask[t].n = canTask[u].n => t = u)'
    BY <1>2 DEF CanInv, Ordered
  <2>2. (\A d, e \in Filling : canPbuf[d].packet = canPbuf[e].packet => d = e)'
    BY <1>3, <1>4 DEF CanInv, Ordered
  <2>3. (\A i, j \in DOMAIN canQueue :
          i < j /\ canQueue[i].n = canQueue[j].n => Index(canQueue[i]) < Index(canQueue[j]))'
    <3> SUFFICES ASSUME NEW i \in DOMAIN canQueue', NEW j \in DOMAIN canQueue',
                        i < j, canQueue'[i].n = canQueue'[j].n
                 PROVE  Index(canQueue'[i]) < Index(canQueue'[j])
      BY DEF Index
    <3>1. i + s < j + s
      BY <1>d
    <3> QED
      BY <1>5, <3>1 DEF CanInv, Ordered
  <2>4. (\A i \in DOMAIN canQueue : \A t \in Sending :
          canQueue[i].n = canTask[t].n => Index(canQueue[i]) < Position(canTask[t]))'
    BY <1>2, <1>5 DEF CanInv, Ordered, Index
  <2>5. (\A e \in Filling : \A i \in DOMAIN canQueue :
          canPbuf[e].packet = canQueue[i].n => FramesTaken(canPbuf[e]) <= Index(canQueue[i]))'
    BY <1>3, <1>4, <1>5 DEF CanInv, Ordered, Index, FramesTaken
  <2>6. (\A e \in Filling : \A t \in Sending :
          canPbuf[e].packet = canTask[t].n => FramesTaken(canPbuf[e]) <= Position(canTask[t]))'
    BY <1>2, <1>3, <1>4 DEF CanInv, Ordered, FramesTaken
  <2>7. (\A i \in DOMAIN canUp :
          /\ \A j \in DOMAIN canUp : canUp[i].n = canUp[j].n => i = j
          /\ \A e \in Filling : canPbuf[e].packet # canUp[i].n
          /\ \A j \in DOMAIN canQueue : canQueue[j].n # canUp[i].n
          /\ \A t \in Sending : canTask[t].n # canUp[i].n)'
    <3>1. canUp' = canUp
      BY DEF Fewer
    <3> QED
      BY <1>2, <1>3, <1>4, <1>5, <3>1 DEF CanInv, Ordered
  <2> QED
    BY <2>1, <2>2, <2>3, <2>4, <2>5, <2>6, <2>7 DEF Ordered
<1>8. InUse' \subseteq InUse
  BY <1>2, <1>3, <1>4, <1>5 DEF InUse
<1>10. Named'
  BY <1>8 DEF CanInv, Named
<1>9. Accounted'
  <2> SUFFICES ASSUME NEW n \in CanPackets', n \notin canHurt', \A i \in DOMAIN canUp' : canUp'[i].n # n,
                      NEW k \in 0 .. Frames(n) - 1
               PROVE  \/ \E e \in Filling' : canPbuf'[e].packet = n /\ k < FramesTaken(canPbuf'[e])
                      \/ \E i \in DOMAIN canQueue' : canQueue'[i].n = n /\ Index(canQueue'[i]) = k
                      \/ \E t \in Sending' : canTask'[t].n = n /\ Position(canTask'[t]) <= k
    BY DEF Accounted, Index, FramesTaken, Position
  <2>1. \/ \E e \in Filling : canPbuf[e].packet = n /\ k < FramesTaken(canPbuf[e])
        \/ \E i \in DOMAIN canQueue : canQueue[i].n = n /\ Index(canQueue[i]) = k
        \/ \E t \in Sending : canTask[t].n = n /\ Position(canTask[t]) <= k
    BY <1>1 DEF CanInv, Accounted, Fewer
  <2>2. ASSUME NEW e \in Filling, canPbuf[e].packet = n
        PROVE  e \in Filling'
    BY <2>2 DEF Fewer, Filling, SameElement
  <2>3. ASSUME NEW i \in DOMAIN canQueue, canQueue[i].n = n
        PROVE  i - s \in DOMAIN canQueue' /\ canQueue'[i - s] = canQueue[i]
    <3>1. i > s
      BY <1>d, <2>3 DEF Fewer
    <3>2. i - s \in DOMAIN canQueue' /\ (i - s) + s = i
      BY <1>d, <3>1 DEF Fewer, Behind
    <3> QED
      BY <1>5, <3>2
  <2>4. ASSUME NEW t \in Sending, canTask[t].n = n
        PROVE  t \in Sending' /\ canTask'[t] = canTask[t]
    BY <2>4 DEF Fewer, Sending
  <2> QED
    BY <1>4, <2>1, <2>2, <2>3, <2>4
<1> QED
  BY <1>6, <1>7, <1>8, <1>9, <1>10 DEF CanInv

(* What csp_can_tx sends next is a frame of its packet, and then the task is *)
(* one frame further, or done after the last one.                            *)
LEMMA FrameSentIs ==
  ASSUME CanTypes, CanInv, NEW t \in CanTasks, CanFrameSent(t)
  PROVE  LET k == canTask[t]  f == CanFrame(t)  p == Position(k) IN
         /\ t \in Sending /\ k.n \in CanPackets /\ p \in Nat
         /\ f \in FrameType /\ f.n = k.n /\ f.id = k.id /\ FrameOK(f) /\ Index(f) = p
         /\ canTask' \in [CanTasks -> TaskType]
         /\ \A u \in CanTasks \ {t} : canTask'[u] = canTask[u]
         /\ \/ p = Frames(k.n) - 1 /\ canTask'[t] = CanIdle
            \/ /\ p < Frames(k.n) - 1
               /\ canTask'[t] = [k EXCEPT !.begun = TRUE, !.count = From(p + 1)]
               /\ Position(canTask'[t]) = p + 1
<1> DEFINE k == canTask[t]
           f == CanFrame(t)
           p == Position(k)
           n == k.n
           l == CanLength[n]
           last == (l + 5) \div 8
           bytes == AtMost(l - From(p), IF p = 0 THEN 2 ELSE 8)
<1>1. /\ t \in Sending /\ k \in TaskType /\ TaskOK(k)
  BY DEF CanFrameSent, Sending, CanTypes, CanInv, Sound
<1>2. n \in CanPackets /\ n \in Nat \ {0} /\ l \in Nat /\ Frames(n) = last + 1
  BY <1>1, FramesType DEF TaskOK, Frames
<1>3. p \in Nat
  BY <1>1, PositionType
<1>4. /\ p <= last /\ (k.begun <=> p # 0) /\ k.count = From(p) /\ k.id \in Nat /\ k.begun \in BOOLEAN
  <2>1. last \in Nat
    BY <1>2
  <2> QED
    BY <1>1, <1>2, <1>3, <2>1 DEF TaskOK, TaskType
<1> HIDE DEF p
<1>5. /\ last \in Nat /\ bytes \in Nat /\ From(p) \in Nat /\ From(p) <= l
      /\ p = last => From(p) + bytes = l
      /\ p < last => From(p) + bytes = From(p + 1) /\ From(p + 1) < l
      /\ (IF p > 0 THEN (l - From(p) - bytes + 7) \div 8 ELSE last) = last - p
  <2>1. l \in Nat /\ p \in Nat /\ p <= (l + 5) \div 8
    BY <1>2, <1>3, <1>4
  <2> HIDE DEF l
  <2>2. LET z == (l + 5) \div 8
            y == AtMost(l - From(p), IF p = 0 THEN 2 ELSE 8) IN
        /\ z \in Nat /\ y \in Nat /\ From(p) \in Nat /\ From(p) <= l
        /\ p = z => From(p) + y = l
        /\ p < z => From(p) + y = From(p + 1) /\ From(p + 1) < l
        /\ p > 0 => From(p) > 0 /\ (From(p) + 6) \div 8 = p
        /\ (IF p > 0 THEN (l - From(p) - y + 7) \div 8 ELSE z) = z - p
    BY <2>1, FrameNumbers
  <2> QED
    BY <2>2
<1>6. f = [id |-> k.id, begin |-> p = 0, n |-> n, from |-> From(p), bytes |-> bytes,
           remain |-> last - p]
  <2>1. (IF k.begun THEN 8 ELSE 2) = (IF p = 0 THEN 2 ELSE 8) /\ (p > 0 <=> k.begun) /\ (~k.begun <=> p = 0)
    BY <1>3, <1>4
  <2>2. AtMost(l - k.count, IF k.begun THEN 8 ELSE 2) = bytes
    BY <1>4, <2>1
  <2>3. (IF k.begun THEN (l - k.count - bytes + 7) \div 8 ELSE last) = last - p
    BY <1>4, <1>5, <2>1
  <2> HIDE DEF k, n, l, last, bytes
  <2>4. f = [id |-> k.id, begin |-> ~k.begun, n |-> k.n, from |-> k.count, bytes |-> bytes,
             remain |-> IF k.begun THEN (l - k.count - bytes + 7) \div 8 ELSE last]
    BY <2>2 DEF f, k, n, l, last, CanFrame
  <2> QED
    BY <1>4, <2>1, <2>3, <2>4 DEF n
<1> HIDE DEF f
<1>7. /\ f \in FrameType /\ f.n = n /\ f.id = k.id /\ Index(f) = p
  <2>1. last - p \in Nat /\ Frames(n) - 1 - (last - p) = p
    BY <1>2, <1>3, <1>4, <1>5
  <2> HIDE DEF k, n, l, last, bytes
  <2> QED
    BY <1>2, <1>4, <1>5, <1>6, <2>1 DEF FrameType, Index
<1>8. FrameOK(f)
  <2>1. (f.begin <=> p = 0) /\ f.from = From(p) /\ f.bytes = bytes
    BY <1>6
  <2>2. bytes = AtMost(l - f.from, IF f.begin THEN 2 ELSE 8)
    BY <2>1
  <2> HIDE DEF k, n, last, bytes
  <2> QED
    BY <1>2, <1>3, <1>7, <2>1, <2>2 DEF FrameOK, l
<1>9. canTask' = [canTask EXCEPT ![t] =
         IF From(p) + bytes = l THEN CanIdle ELSE [k EXCEPT !.begun = TRUE, !.count = From(p) + bytes]]
  <2>1. f.bytes = bytes
    BY <1>6
  <2> QED
    BY <1>4, <2>1 DEF CanFrameSent, f
<1>10. /\ canTask \in [CanTasks -> TaskType]
       /\ \A u \in CanTasks \ {t} : canTask'[u] = canTask[u]
       /\ canTask'[t] = IF From(p) + bytes = l THEN CanIdle
                        ELSE [k EXCEPT !.begun = TRUE, !.count = From(p) + bytes]
  <2> HIDE DEF k, l, bytes
  <2> QED
    BY <1>9 DEF CanTypes
<1>11. CASE p = last
  <2>1. canTask'[t] = CanIdle /\ CanIdle \in TaskType
    BY <1>5, <1>10, <1>11 DEF CanIdle, TaskType
  <2>2. canTask' \in [CanTasks -> TaskType]
    <3> HIDE DEF k, l, bytes
    <3> QED
      BY <1>9, <1>10, <2>1
  <2>3. p = Frames(n) - 1
    BY <1>2, <1>5, <1>11
  <2> QED
    BY <1>1, <1>2, <1>3, <1>7, <1>8, <1>10, <2>1, <2>2, <2>3 DEF f, p
<1>12. CASE p < last
  <2> DEFINE m == [k EXCEPT !.begun = TRUE, !.count = From(p + 1)]
  <2>0. From(p + 1) \in Nat /\ From(p + 1) = 8 * (p + 1) - 6
    BY <1>3 DEF From
  <2>a. From(p) + bytes # l /\ From(p) + bytes = From(p + 1)
    <3> HIDE DEF l, bytes, last
    <3> QED
      BY <1>2, <1>5, <1>12, <2>0
  <2>1. canTask'[t] = m /\ From(p + 1) \in Nat /\ From(p + 1) = 8 * (p + 1) - 6
    BY <1>10, <2>0, <2>a
  <2>2. m.begun /\ m.count = From(p + 1) /\ m \in TaskType
    <3> HIDE DEF k
    <3> QED
      BY <1>1, <2>1 DEF TaskType
  <2> HIDE DEF m
  <2>3. canTask' \in [CanTasks -> TaskType]
    <3> HIDE DEF k, l, bytes
    <3> QED
      BY <1>9, <1>10, <2>1, <2>2
  <2>4. Position(m) = p + 1
    BY <1>3, <2>1, <2>2 DEF Position
  <2>5. p < Frames(n) - 1
    BY <1>2, <1>5, <1>12
  <2> QED
    BY <1>1, <1>2, <1>3, <1>7, <1>8, <1>10, <2>1, <2>3, <2>4, <2>5 DEF f, p, m
<1> QED
  BY <1>3, <1>4, <1>5, <1>11, <1>12

(* Task t sends a frame, and it gets into the queue or the packet is hurt.   *)
LEMMA FrameSentInv ==
  ASSUME CanTypes, CanTypes', CanInv, NEW t \in CanTasks, CanFrameSent(t),
         canSent' = canSent, canUp' = canUp, canPbuf' = canPbuf, canHurt \subseteq canHurt',
         \/ canQueue' = Append(canQueue, CanFrame(t))
         \/ canQueue' = canQueue /\ canTask[t].n \in canHurt'
  PROVE  CanInv' /\ InUse' \subseteq InUse
<1> DEFINE k == canTask[t]
           f == CanFrame(t)
           p == Position(k)
<1>1. /\ t \in Sending /\ k.n \in CanPackets /\ p \in Nat
      /\ f \in FrameType /\ f.n = k.n /\ f.id = k.id /\ FrameOK(f) /\ Index(f) = p
      /\ canTask' \in [CanTasks -> TaskType]
      /\ \A u \in CanTasks \ {t} : canTask'[u] = canTask[u]
  BY FrameSentIs
<1>2. \/ p = Frames(k.n) - 1 /\ canTask'[t] = CanIdle
      \/ /\ p < Frames(k.n) - 1
         /\ canTask'[t] = [k EXCEPT !.begun = TRUE, !.count = From(p + 1)]
         /\ Position(canTask'[t]) = p + 1
  BY FrameSentIs
<1> HIDE DEF p, f
<1>3. t \in Sending' => /\ canTask'[t].n = k.n /\ canTask'[t].id = k.id /\ canTask'[t].begun
                        /\ canTask'[t].count = From(p + 1) /\ Position(canTask'[t]) = p + 1
                        /\ p + 1 < Frames(k.n)
  <2> SUFFICES ASSUME t \in Sending' 
               PROVE  /\ canTask'[t].n = k.n /\ canTask'[t].id = k.id /\ canTask'[t].begun
                      /\ canTask'[t].count = From(p + 1) /\ Position(canTask'[t]) = p + 1
                      /\ p + 1 < Frames(k.n)
    OBVIOUS
  <2>1. canTask'[t].n # 0
    BY DEF Sending
  <2>2. p < Frames(k.n) - 1 /\ canTask'[t] = [k EXCEPT !.begun = TRUE, !.count = From(p + 1)]
        /\ Position(canTask'[t]) = p + 1
    BY <1>2, <2>1 DEF CanIdle
  <2>3. Frames(k.n) \in Nat /\ k \in TaskType
    BY <1>1, FramesType DEF CanTypes
  <2> HIDE DEF k
  <2> QED
    BY <1>1, <2>2, <2>3 DEF TaskType
<1>4. \A u \in Sending' : /\ u \in Sending /\ canTask'[u].n = canTask[u].n /\ canTask'[u].id = canTask[u].id
                          /\ Position(canTask[u]) <= Position(canTask'[u])
  <2> SUFFICES ASSUME NEW u \in Sending' 
               PROVE  /\ u \in Sending /\ canTask'[u].n = canTask[u].n /\ canTask'[u].id = canTask[u].id
                      /\ Position(canTask[u]) <= Position(canTask'[u])
    OBVIOUS
  <2>1. CASE u = t
    BY <1>1, <1>3, <2>1 DEF p
  <2>2. CASE u # t
    <3>1. canTask'[u] = canTask[u] /\ u \in Sending /\ canTask[u] \in TaskType
      BY <1>1, <2>2 DEF Sending, CanTypes
    <3> QED
      BY <3>1, PositionType
  <2> QED
    BY <2>1, <2>2
<1>5. \A u \in Sending : u # t => u \in Sending' /\ canTask'[u] = canTask[u]
  BY <1>1 DEF Sending
<1>6. /\ CanPackets' = CanPackets /\ Filling' = Filling
      /\ \A x : FrameOK(x) => FrameOK(x)'
      /\ \A x : TaskOK(x) => TaskOK(x)'
  BY DEF CanPackets, Filling, Index, FrameOK, TaskOK, Position
<1>q. \A i \in DOMAIN canQueue' :
        \/ i \in DOMAIN canQueue /\ canQueue'[i] = canQueue[i]
        \/ i = Len(canQueue) + 1 /\ canQueue'[i] = f
  <2>1. CASE canQueue' = canQueue
    BY <2>1
  <2>2. CASE canQueue' = Append(canQueue, f)
    BY <1>1, <2>2, AppendIs DEF CanTypes
  <2> QED
    BY <2>1, <2>2 DEF f
<1>r. /\ \A i \in DOMAIN canQueue : i \in DOMAIN canQueue' /\ canQueue'[i] = canQueue[i]
      /\ \A i \in DOMAIN canQueue : i \in Nat /\ i < Len(canQueue) + 1
      /\ Len(canQueue) + 1 \in Nat
      /\ k.n \in canHurt' \/ (Len(canQueue) + 1 \in DOMAIN canQueue' /\ canQueue'[Len(canQueue) + 1] = f)
  <2>1. /\ \A i \in DOMAIN canQueue : i \in Nat /\ i < Len(canQueue) + 1
        /\ Len(canQueue) + 1 \in Nat
    <3>1. canQueue \in Seq(FrameType)
      BY DEF CanTypes
    <3>2. DOMAIN canQueue = 1 .. Len(canQueue) /\ Len(canQueue) \in Nat
      BY ONLY <3>1, LenProperties
    <3> QED
      BY ONLY <3>2
  <2>2. CASE canQueue' = Append(canQueue, f)
    BY <1>1, <2>1, <2>2, AppendIs DEF CanTypes
  <2> QED
    BY <2>1, <2>2 DEF f
<1>7. Sound'
  <2>2. (\A i \in DOMAIN canQueue : FrameOK(canQueue[i]))'
    <3>1. \A i \in DOMAIN canQueue' : FrameOK(canQueue'[i])
      BY <1>1, <1>q DEF CanInv, Sound
    <3> QED
      BY <1>6, <3>1
  <2>3. (\A u \in Sending : TaskOK(canTask[u]))'
    <3>1. TaskOK(canTask'[t]) \/ t \notin Sending'
      BY <1>1, <1>3 DEF TaskOK
    <3>2. ASSUME NEW u \in Sending', u # t PROVE TaskOK(canTask'[u])
      <4>1. u \in Sending /\ canTask'[u] = canTask[u]
        BY <1>1, <1>4, <3>2 DEF Sending
      <4>2. TaskOK(canTask[u])
        BY <4>1 DEF CanInv, Sound
      <4> QED
        BY <4>1, <4>2
    <3>3. \A u \in Sending' : TaskOK(canTask'[u])
      BY <3>1, <3>2
    <3> QED
      BY <1>6, <3>3
  <2>4. (\A u \in CanTasks \ Sending : canTask[u] = CanIdle)'
    <3> SUFFICES ASSUME NEW u \in CanTasks, u \notin Sending' PROVE canTask'[u] = CanIdle
      OBVIOUS
    <3>1. CASE u = t
      <4>1. k.n # 0 /\ k \in TaskType
        BY <1>1 DEF Sending, CanTypes
      <4>2. ASSUME canTask'[t] = [k EXCEPT !.begun = TRUE, !.count = From(p + 1)]
            PROVE  FALSE
        <5> HIDE DEF k
        <5>1. canTask'[t].n = k.n
          BY <4>1, <4>2 DEF TaskType
        <5> QED
          BY <3>1, <4>1, <5>1 DEF Sending
      <4> QED
        BY <1>2, <3>1, <4>2
    <3>2. CASE u # t
      BY <1>1, <3>2 DEF CanInv, Sound, Sending
    <3> QED
      BY <3>1, <3>2
  <2>5. (\A e \in Filling : ElementOK(canPbuf[e]))'
    BY <1>6 DEF CanInv, Sound, ElementOK, FramesTaken
  <2>6. (\A e \in (1 .. CanElements) \ Filling : canPbuf[e] = CanFree)'
    BY <1>6 DEF CanInv, Sound
  <2>7. (\A i \in DOMAIN canUp : /\ canUp[i].n \in CanPackets
                                 /\ canUp[i].data = FirstPieces(canUp[i].n, Frames(canUp[i].n)))'
    BY <1>6 DEF CanInv, Sound
  <2> QED
    BY <2>2, <2>3, <2>4, <2>5, <2>6, <2>7 DEF Sound
<1>8. Ordered'
  <2>1. (\A s, u \in Sending : canTask[s].n = canTask[u].n => s = u)'
    BY <1>4 DEF CanInv, Ordered
  <2>2. (\A d, e \in Filling : canPbuf[d].packet = canPbuf[e].packet => d = e)'
    BY <1>6 DEF CanInv, Ordered
  <2>a. \A i \in DOMAIN canQueue : canQueue[i].n = f.n => Index(canQueue[i]) < Index(f)
    BY <1>1 DEF CanInv, Ordered, p
  <2>3. (\A i, j \in DOMAIN canQueue :
          i < j /\ canQueue[i].n = canQueue[j].n => Index(canQueue[i]) < Index(canQueue[j]))'
    <3> SUFFICES ASSUME NEW i \in DOMAIN canQueue', NEW j \in DOMAIN canQueue',
                        i < j, canQueue'[i].n = canQueue'[j].n
                 PROVE  Index(canQueue'[i]) < Index(canQueue'[j])
      BY DEF Index
    <3>1. i \in DOMAIN canQueue /\ canQueue'[i] = canQueue[i]
      <4>1. SUFFICES ASSUME i = Len(canQueue) + 1 PROVE FALSE
        BY <1>q
      <4>2. ~(i < j)
        BY <1>q, <1>r, <4>1
      <4> QED
        BY <4>2
    <3>2. CASE j \in DOMAIN canQueue /\ canQueue'[j] = canQueue[j]
      BY <3>1, <3>2 DEF CanInv, Ordered
    <3>3. CASE canQueue'[j] = f
      BY <2>a, <3>1, <3>3
    <3> QED
      BY <1>q, <3>2, <3>3
  <2>4. (\A i \in DOMAIN canQueue : \A u \in Sending :
          canQueue[i].n = canTask[u].n => Index(canQueue[i]) < Position(canTask[u]))'
    <3> SUFFICES ASSUME NEW i \in DOMAIN canQueue', NEW u \in Sending', canQueue'[i].n = canTask'[u].n
                 PROVE  Index(canQueue'[i]) < Position(canTask'[u])
      BY DEF Index, Position
    <3>1. CASE i \in DOMAIN canQueue /\ canQueue'[i] = canQueue[i]
      <4>1. Index(canQueue[i]) < Position(canTask[u])
        BY <1>4, <3>1 DEF CanInv, Ordered
      <4>2. Index(canQueue[i]) \in Int /\ Position(canTask[u]) \in Int /\ Position(canTask'[u]) \in Int
        <5>1. canQueue[i] \in FrameType /\ canQueue[i].n \in CanPackets
          BY <3>1, ElementOfSeq DEF CanTypes, CanInv, Sound, FrameOK
        <5>2. canTask[u] \in TaskType /\ canTask'[u] \in TaskType
          BY <1>1, <1>4 DEF CanTypes, Sending
        <5>3. Index(canQueue[i]) \in Int
          BY <5>1, FramesType DEF Index, FrameType
        <5> QED
          BY <5>2, <5>3, PositionType
      <4> QED
        BY <1>4, <3>1, <4>1, <4>2
    <3>2. CASE canQueue'[i] = f
      <4>1. u = t
        BY <1>1, <1>4, <3>2 DEF CanInv, Ordered
      <4> QED
        BY <1>1, <1>3, <3>2, <4>1
    <3> QED
      BY <1>q, <3>1, <3>2
  <2>5. (\A e \in Filling : \A i \in DOMAIN canQueue :
          canPbuf[e].packet = canQueue[i].n => FramesTaken(canPbuf[e]) <= Index(canQueue[i]))'
    <3>1. \A e \in Filling : canPbuf[e].packet = f.n => FramesTaken(canPbuf[e]) <= Index(f)
      BY <1>1 DEF CanInv, Ordered, p
    <3>2. \A e \in Filling : \A i \in DOMAIN canQueue :
            canPbuf[e].packet = canQueue[i].n => FramesTaken(canPbuf[e]) <= Index(canQueue[i])
      BY DEF CanInv, Ordered
    <3> QED
      BY <1>6, <1>q, <3>1, <3>2 DEF Index, FramesTaken
  <2>6. (\A e \in Filling : \A u \in Sending :
          canPbuf[e].packet = canTask[u].n => FramesTaken(canPbuf[e]) <= Position(canTask[u]))'
    <3> SUFFICES ASSUME NEW e \in Filling, NEW u \in Sending', canPbuf[e].packet = canTask'[u].n
                 PROVE  FramesTaken(canPbuf[e]) <= Position(canTask'[u])
      BY <1>6 DEF FramesTaken, Position
    <3>1. FramesTaken(canPbuf[e]) <= Position(canTask[u]) /\ Position(canTask[u]) <= Position(canTask'[u])
      BY <1>4 DEF CanInv, Ordered
    <3>2. FramesTaken(canPbuf[e]) \in Int /\ Position(canTask[u]) \in Int /\ Position(canTask'[u]) \in Int
      <4>1. canPbuf[e] \in ElementType /\ canPbuf[e].packet \in CanPackets
        BY DEF CanTypes, Filling, CanInv, Sound, ElementOK
      <4>2. canTask[u] \in TaskType /\ canTask'[u] \in TaskType
        BY <1>1, <1>4 DEF CanTypes, Sending
      <4>3. FramesTaken(canPbuf[e]) \in Int
        BY <4>1, FramesType DEF FramesTaken, ElementType
      <4> QED
        BY <4>2, <4>3, PositionType
    <3> QED
      BY <3>1, <3>2
  <2>7. (\A i \in DOMAIN canUp :
          /\ \A j \in DOMAIN canUp : canUp[i].n = canUp[j].n => i = j
          /\ \A e \in Filling : canPbuf[e].packet # canUp[i].n
          /\ \A j \in DOMAIN canQueue : canQueue[j].n # canUp[i].n
          /\ \A u \in Sending : canTask[u].n # canUp[i].n)'
    BY <1>1, <1>4, <1>6, <1>q DEF CanInv, Ordered
  <2> QED
    BY <2>1, <2>2, <2>3, <2>4, <2>5, <2>6, <2>7 DEF Ordered
<1>n. InUse' \subseteq InUse
  BY <1>1, <1>4, <1>6, <1>q DEF InUse
<1>9. Named'
  BY <1>n DEF CanInv, Named
<1>10. Accounted'
  <2> SUFFICES ASSUME NEW n \in CanPackets, n \notin canHurt', \A i \in DOMAIN canUp : canUp[i].n # n,
                      NEW j \in 0 .. Frames(n) - 1
               PROVE  \/ \E e \in Filling : canPbuf[e].packet = n /\ j < FramesTaken(canPbuf[e])
                      \/ \E i \in DOMAIN canQueue' : canQueue'[i].n = n /\ Index(canQueue'[i]) = j
                      \/ \E u \in Sending' : canTask'[u].n = n /\ Position(canTask'[u]) <= j
    BY <1>6 DEF Accounted, Index, FramesTaken, Position
  <2>1. \/ \E e \in Filling : canPbuf[e].packet = n /\ j < FramesTaken(canPbuf[e])
        \/ \E i \in DOMAIN canQueue : canQueue[i].n = n /\ Index(canQueue[i]) = j
        \/ \E u \in Sending : canTask[u].n = n /\ Position(canTask[u]) <= j
    BY DEF CanInv, Accounted
  <2>2. ASSUME NEW u \in Sending, canTask[u].n = n, Position(canTask[u]) <= j
        PROVE  \/ \E i \in DOMAIN canQueue' : canQueue'[i].n = n /\ Index(canQueue'[i]) = j
               \/ \E v \in Sending' : canTask'[v].n = n /\ Position(canTask'[v]) <= j
    <3>1. CASE u # t
      BY <1>5, <2>2, <3>1
    <3>2. CASE u = t /\ j = p
      BY <1>1, <1>r, <2>2, <3>2
    <3>3. CASE u = t /\ j # p
      <4>1. p <= j /\ j \in Int /\ j <= Frames(n) - 1 /\ Frames(n) \in Nat
        BY <2>2, <3>3, FramesType DEF p
      <4>2. p < Frames(k.n) - 1 /\ p + 1 <= j
        BY <1>1, <2>2, <3>3, <4>1
      <4>3. t \in Sending'
        <5>1. canTask'[t] = [k EXCEPT !.begun = TRUE, !.count = From(p + 1)]
          BY <1>1, <1>2, <4>2
        <5>2. k \in TaskType /\ k.n # 0
          BY <1>1 DEF CanTypes, Sending
        <5> HIDE DEF k
        <5>3. canTask'[t].n = k.n
          BY <5>1, <5>2 DEF TaskType
        <5> QED
          BY <1>1, <5>2, <5>3 DEF Sending
      <4> QED
        BY <1>3, <2>2, <3>3, <4>2, <4>3
    <3> QED
      BY <3>1, <3>2, <3>3
  <2>3. ASSUME NEW i \in DOMAIN canQueue, canQueue[i].n = n, Index(canQueue[i]) = j
        PROVE  \E h \in DOMAIN canQueue' : canQueue'[h].n = n /\ Index(canQueue'[h]) = j
    BY <1>r, <2>3
  <2> QED
    BY <2>1, <2>2, <2>3
<1> QED
  BY <1>7, <1>8, <1>9, <1>n, <1>10 DEF CanInv

(* A call of csp_can_tx: a new packet with the next number.                  *)
LEMMA SendIs ==
  ASSUME CanTypes, CanInv, NEW t \in CanTasks, CanSend(t)
  PROVE  LET n == canSent + 1 IN
         /\ t \notin Sending /\ n \in Nat \ {0} /\ canSent' = n /\ CanPackets' = CanPackets \cup {n}
         /\ n \notin CanPackets /\ n \in 1 .. Len(CanLength)
         /\ Sending' = Sending \cup {t} /\ \A u \in Sending : u # t /\ canTask'[u] = canTask[u]
         /\ canTask'[t].n = n /\ canTask'[t].id = canId /\ canTask'[t].count = 0 /\ ~canTask'[t].begun
         /\ Position(canTask'[t]) = 0 /\ CanTypes'
<1> DEFINE n == canSent + 1
           k == [CanIdle EXCEPT !.n = n, !.id = canId]
<1>1. /\ canSent \in Nat /\ n \in Nat \ {0} /\ Len(CanLength) \in Nat /\ n \in 1 .. Len(CanLength)
      /\ canSent' = n /\ canId \in Nat /\ t \notin Sending
  <2>1. Len(CanLength) \in Nat
    BY CanAssumption, LenProperties
  <2>2. canSent < Len(CanLength) /\ canSent' = canSent + 1 /\ canTask[t].n = 0
    BY DEF CanSend
  <2>3. canSent \in 0 .. Len(CanLength) /\ canId \in 0 .. CanIdSpace - 1
    BY DEF CanTypes
  <2>4. canId \in Nat
    BY <2>3, CanAssumption
  <2>5. canSent \in Nat /\ n \in Nat \ {0} /\ n \in 1 .. Len(CanLength)
    BY <2>1, <2>2, <2>3
  <2> QED
    BY <2>1, <2>2, <2>4, <2>5 DEF Sending
<1>2. canTask \in [CanTasks -> TaskType] /\ canTask' = [canTask EXCEPT ![t] = k]
  <2>1. canTask' = [canTask EXCEPT ![t] = [CanIdle EXCEPT !.n = canSent', !.id = canId]]
    BY DEF CanSend
  <2> HIDE DEF n
  <2> QED
    BY <1>1, <2>1 DEF CanTypes
<1>3. k \in TaskType /\ k.n = n /\ k.id = canId /\ k.count = 0 /\ ~k.begun /\ k.n # 0
  <2> HIDE DEF n
  <2> QED
    BY <1>1 DEF TaskType, CanIdle
<1> HIDE DEF n, k
<1>4. /\ canTask' \in [CanTasks -> TaskType] /\ canTask'[t] = k
      /\ \A u \in CanTasks : u # t => canTask'[u] = canTask[u]
  BY <1>2, <1>3
<1>5. CanPackets' = CanPackets \cup {n} /\ n \notin CanPackets
  BY <1>1 DEF CanPackets, n
<1>6. Sending' = Sending \cup {t} /\ \A u \in Sending : u # t /\ canTask'[u] = canTask[u]
  BY <1>1, <1>3, <1>4 DEF Sending
<1>7. canId' \in 0 .. CanIdSpace - 1
  BY <1>1, CanAssumption DEF CanSend, NextId
<1>8. CanTypes'
  <2>1. canSent' \in 0 .. Len(CanLength)
    BY <1>1
  <2>2. UNCHANGED <<canQueue, canPbuf, canUp, canHurt, canFaults>>
    BY DEF CanSend
  <2> QED
    BY <1>4, <1>7, <2>1, <2>2 DEF CanTypes
<1> QED
  BY <1>1, <1>3, <1>4, <1>5, <1>6, <1>8 DEF n, Position

(* A new packet keeps the invariant if its number is not in use.             *)
LEMMA SendInv ==
  ASSUME CanTypes, CanInv, IdFree, NEW t \in CanTasks, CanSend(t)
  PROVE  CanInv' /\ InUse' \subseteq InUse \cup {<<canId, canSent + 1>>}
<1> DEFINE n == canSent + 1
<1>1. /\ t \notin Sending /\ n \in Nat \ {0} /\ CanPackets' = CanPackets \cup {n}
      /\ n \notin CanPackets
      /\ Sending' = Sending \cup {t} /\ \A u \in Sending : u # t /\ canTask'[u] = canTask[u]
      /\ canTask'[t].n = n /\ canTask'[t].id = canId /\ canTask'[t].count = 0 /\ ~canTask'[t].begun
      /\ Position(canTask'[t]) = 0 /\ CanTypes'
  BY SendIs
<1>2. UNCHANGED <<canQueue, canPbuf, canUp, canHurt, canFaults>> /\ Filling' = Filling
  BY DEF CanSend, Filling
<1> HIDE DEF n
<1>3. /\ canTask'[t].n = n /\ canTask'[t].id = canId /\ canTask'[t].count = 0 /\ ~canTask'[t].begun
  BY <1>1
<1>4. /\ \A u \in Sending : canTask[u].n \in CanPackets
      /\ \A i \in DOMAIN canQueue : canQueue[i].n \in CanPackets
      /\ \A e \in Filling : canPbuf[e].packet \in CanPackets
      /\ \A i \in DOMAIN canUp : canUp[i].n \in CanPackets
  BY DEF CanInv, Sound, TaskOK, FrameOK, ElementOK
<1>5. Frames(n) \in Nat \ {0} /\ n \in CanPackets'
  <2>1. n \in 1 .. Len(CanLength)
    BY SendIs DEF n
  <2>2. CanLength[n] \in Nat
    BY <2>1, CanAssumption, ElementOfSeq
  <2> QED
    BY <1>1, <2>2 DEF Frames
<1>6. Sound'
  <2>1. /\ \A x : FrameOK(x) => FrameOK(x)'
        /\ \A x : TaskOK(x) => TaskOK(x)'
        /\ \A x : ElementOK(x) => ElementOK(x)'
    BY <1>1 DEF FrameOK, TaskOK, ElementOK, Index, Position, FramesTaken
  <2>2. (\A u \in Sending : TaskOK(canTask[u]))'
    <3>1. \A u \in Sending : TaskOK(canTask[u])
      BY DEF CanInv, Sound
    <3>2. (\A x : x = canTask[t] => TaskOK(x))'
      BY <1>1, <1>3, <1>5 DEF TaskOK, From
    <3> QED
      BY <1>1, <2>1, <3>1, <3>2
  <2>3. (\A u \in CanTasks \ Sending : canTask[u] = CanIdle)'
    <3>1. \A u \in CanTasks \ Sending : u # t => canTask'[u] = canTask[u]
      BY DEF CanSend, CanTypes
    <3> QED
      BY <1>1, <3>1 DEF CanInv, Sound
  <2>4. (\A i \in DOMAIN canQueue : FrameOK(canQueue[i]))'
    BY <1>2, <2>1 DEF CanInv, Sound
  <2>5. (\A e \in Filling : ElementOK(canPbuf[e]))'
    BY <1>2, <2>1 DEF CanInv, Sound
  <2>6. (\A e \in (1 .. CanElements) \ Filling : canPbuf[e] = CanFree)'
    BY <1>2 DEF CanInv, Sound
  <2>7. (\A i \in DOMAIN canUp : /\ canUp[i].n \in CanPackets
                                 /\ canUp[i].data = FirstPieces(canUp[i].n, Frames(canUp[i].n)))'
    BY <1>1, <1>2 DEF CanInv, Sound
  <2> QED
    BY <2>2, <2>3, <2>4, <2>5, <2>6, <2>7 DEF Sound
<1>7. Ordered'
  <2>1. (\A s, u \in Sending : canTask[s].n = canTask[u].n => s = u)'
    BY <1>1, <1>3, <1>4 DEF CanInv, Ordered
  <2>2. (\A d, e \in Filling : canPbuf[d].packet = canPbuf[e].packet => d = e)'
    BY <1>2 DEF CanInv, Ordered
  <2>3. (\A i, j \in DOMAIN canQueue :
          i < j /\ canQueue[i].n = canQueue[j].n => Index(canQueue[i]) < Index(canQueue[j]))'
    BY <1>2 DEF CanInv, Ordered, Index
  <2>4. (\A i \in DOMAIN canQueue : \A u \in Sending :
          canQueue[i].n = canTask[u].n => Index(canQueue[i]) < Position(canTask[u]))'
    BY <1>1, <1>2, <1>3, <1>4 DEF CanInv, Ordered, Index
  <2>5. (\A e \in Filling : \A i \in DOMAIN canQueue :
          canPbuf[e].packet = canQueue[i].n => FramesTaken(canPbuf[e]) <= Index(canQueue[i]))'
    BY <1>2 DEF CanInv, Ordered, Index, FramesTaken
  <2>6. (\A e \in Filling : \A u \in Sending :
          canPbuf[e].packet = canTask[u].n => FramesTaken(canPbuf[e]) <= Position(canTask[u]))'
    BY <1>1, <1>2, <1>3, <1>4 DEF CanInv, Ordered, FramesTaken
  <2>7. (\A i \in DOMAIN canUp :
          /\ \A j \in DOMAIN canUp : canUp[i].n = canUp[j].n => i = j
          /\ \A e \in Filling : canPbuf[e].packet # canUp[i].n
          /\ \A j \in DOMAIN canQueue : canQueue[j].n # canUp[i].n
          /\ \A u \in Sending : canTask[u].n # canUp[i].n)'
    BY <1>1, <1>2, <1>3, <1>4 DEF CanInv, Ordered
  <2> QED
    BY <2>1, <2>2, <2>3, <2>4, <2>5, <2>6, <2>7 DEF Ordered
<1>8. InUse' \subseteq InUse \cup {<<canId, n>>}
  BY <1>1, <1>2, <1>3 DEF InUse
<1>10. Named'
  <2>1. \A x \in InUse : x[1] # canId /\ x[2] # n
    BY <1>1, <1>4 DEF IdFree, InUse, CanSend
  <2> QED
    BY <1>8, <2>1 DEF CanInv, Named
<1>9. Accounted'
  <2> SUFFICES ASSUME NEW m \in CanPackets', m \notin canHurt, \A i \in DOMAIN canUp : canUp[i].n # m,
                      NEW j \in 0 .. Frames(m) - 1
               PROVE  \/ \E e \in Filling : canPbuf[e].packet = m /\ j < FramesTaken(canPbuf[e])
                      \/ \E i \in DOMAIN canQueue : canQueue[i].n = m /\ Index(canQueue[i]) = j
                      \/ \E u \in Sending' : canTask'[u].n = m /\ Position(canTask'[u]) <= j
    BY <1>2 DEF Accounted, Index, FramesTaken, Position
  <2>1. CASE m = n
    BY <1>1, <1>3, <2>1
  <2>2. CASE m \in CanPackets
    BY <1>1, <2>2 DEF CanInv, Accounted
  <2> QED
    BY <1>1, <2>1, <2>2
<1> QED
  BY <1>6, <1>7, <1>8, <1>9, <1>10 DEF CanInv, n

-----------------------------------------------------------------------------
(* What an element has, an element that was begun just now included.         *)
Loaded(b) == /\ b \in ElementType /\ b.used /\ b.packet \in CanPackets /\ b.remain >= 1
             /\ FramesTaken(b) >= 0 /\ b.count = From(FramesTaken(b)) /\ b.data = FirstPieces(b.packet, FramesTaken(b))

(* What csp_can_process_frame does with frame f and element e: it ends the   *)
(* packet, keeps the piece, or passes the complete packet on.                *)
Spoiled(e, f) == /\ canPbuf' = [canPbuf EXCEPT ![e] = CanFree] /\ canUp' = canUp
                 /\ canHurt \subseteq canHurt' /\ canHurt' \subseteq Nat /\ f.n \in canHurt'
Kept(e, f) == LET c == canPbuf'[e] IN
              /\ Index(f) < Frames(f.n) - 1 /\ c \in ElementType /\ canPbuf' = [canPbuf EXCEPT ![e] = c]
              /\ c.used /\ c.packet = f.n /\ c.id = f.id /\ c.remain >= 1
              /\ FramesTaken(c) = Index(f) + 1 /\ c.count = From(FramesTaken(c)) /\ c.data = FirstPieces(f.n, FramesTaken(c))
              /\ canUp' = canUp /\ canHurt' = canHurt
PassedOn(e, f) == /\ Index(f) = Frames(f.n) - 1 /\ canPbuf' = [canPbuf EXCEPT ![e] = CanFree]
                /\ canUp' = Append(canUp, [n |-> f.n, data |-> FirstPieces(f.n, Frames(f.n))])
                /\ canHurt' = canHurt

(* One more piece behind the first j of a packet are its first j + 1.        *)
LEMMA PiecesGrow ==
  ASSUME NEW n \in Nat, NEW j \in Nat
  PROVE  /\ FirstPieces(n, j) \in Seq(Piece) /\ Len(FirstPieces(n, j)) = j
         /\ Append(FirstPieces(n, j), [n |-> n, from |-> From(j)]) = FirstPieces(n, j + 1)
<1>1. \A k \in Nat : [n |-> n, from |-> From(k)] \in Piece
  BY DEF Piece, From
<1>2. ASSUME NEW i \in Nat PROVE FirstPieces(n, i) \in Seq(Piece) /\ Len(FirstPieces(n, i)) = i
  <2> DEFINE F(k) == [n |-> n, from |-> From(k - 1)]
  <2>1. \A k \in 1 .. i : F(k) \in Piece
    <3> SUFFICES ASSUME NEW k \in 1 .. i PROVE F(k) \in Piece
      OBVIOUS
    <3>1. k - 1 \in Nat
      OBVIOUS
    <3> QED
      BY <1>1, <3>1
  <2> HIDE DEF F
  <2>2. [k \in 1 .. i |-> F(k)] \in Seq(Piece) /\ Len([k \in 1 .. i |-> F(k)]) = i
    BY <2>1, IsASeq
  <2> QED
    BY <2>2 DEF F, FirstPieces
<1> DEFINE p == FirstPieces(n, j)
           x == [n |-> n, from |-> From(j)]
           q == FirstPieces(n, j + 1)
<1>3. p \in Seq(Piece) /\ Len(p) = j /\ q \in Seq(Piece) /\ Len(q) = j + 1 /\ x \in Piece
  BY <1>1, <1>2
<1>4. /\ Append(p, x) \in Seq(Piece) /\ Len(Append(p, x)) = j + 1
      /\ \A i \in 1 .. j : Append(p, x)[i] = p[i]
      /\ Append(p, x)[j + 1] = x
  <2> HIDE DEF p, x, q
  <2> QED
    BY <1>3, AppendProperties
<1>5. \A i \in 1 .. j : p[i] = q[i]
  BY DEF FirstPieces
<1>6. q[j + 1] = x
  BY DEF FirstPieces
<1> HIDE DEF p, q, x
<1>7. \A i \in 1 .. j + 1 : Append(p, x)[i] = q[i]
  BY <1>4, <1>5, <1>6
<1>8. Append(p, x) = q
  BY <1>3, <1>4, <1>7, SeqEqual
<1> QED
  BY <1>3, <1>8 DEF p, q, x

(* A frame that fits its element continues or completes the packet, and one  *)
(* that does not fit ends it: never does a frame pass that was not next.     *)
LEMMA ContinueIs ==
  ASSUME CanTypes, CanInv, NEW f \in FrameType, FrameOK(f), NEW e \in 1 .. CanElements, NEW b, Loaded(b),
         b.packet = f.n, b.id = f.id, CanContinue(e, b, f)
  PROVE  Spoiled(e, f) \/ (FramesTaken(b) = Index(f) /\ (Kept(e, f) \/ PassedOn(e, f)))
<1> DEFINE n == f.n
           l == CanLength[n]
           last == (l + 5) \div 8
           j == FramesTaken(b)
           bytes == f.bytes
           new == [b EXCEPT !.remain = @ - 1, !.count = @ + f.bytes, !.old = FALSE,
                            !.data = Append(@, [n |-> f.n, from |-> f.from])]
           bad == f.remain # b.remain - 1 \/ b.count + f.bytes > CanLength[b.packet]
<1>1. /\ n \in CanPackets /\ n \in Nat \ {0} /\ l \in Nat /\ last \in Nat /\ Frames(n) = last + 1
      /\ f.remain \in Nat /\ b.remain \in Nat /\ b.remain >= 1 /\ j \in Nat /\ b \in ElementType
  <2>1. n \in CanPackets
    BY DEF FrameOK
  <2>2. n \in Nat \ {0} /\ l \in Nat /\ Frames(n) \in Nat
    BY <2>1, FramesType
  <2> QED
    <3>1. Frames(n) = last + 1 /\ last \in Nat
      BY <2>2 DEF Frames
    <3>2. /\ f.remain \in Nat /\ b \in ElementType /\ b.remain \in Nat /\ b.remain >= 1
          /\ FramesTaken(b) >= 0 /\ FramesTaken(b) = Frames(n) - b.remain
      BY DEF Loaded, FrameType, ElementType, FramesTaken
    <3> HIDE DEF n, l, last
    <3> QED
      BY <2>1, <2>2, <3>1, <3>2
<1>2. CASE bad
  <2>1. /\ canPbuf' = [canPbuf EXCEPT ![e] = CanFree] /\ canUp' = canUp
        /\ canHurt' = canHurt \cup Pieces(b) \cup {f.n}
    BY <1>2 DEF CanContinue
  <2>2. Pieces(b) \subseteq Nat
    <3>1. b.packet \in Nat
      BY <1>1
    <3>2. b.data = FirstPieces(n, j) /\ \A i \in DOMAIN b.data : b.data[i].n = n
      BY DEF Loaded, FirstPieces
    <3> QED
      BY <1>1, <3>1, <3>2 DEF Pieces
  <2> QED
    BY <1>1, <2>1, <2>2 DEF Spoiled, CanTypes
<1>3. CASE ~bad
  <2>1. f.remain = b.remain - 1
    BY <1>3
  <2>2. j = Index(f) /\ j <= last /\ f.remain = last - j
    BY <1>1, <2>1 DEF FramesTaken, Index
  <2>3. b.count = From(j) /\ f.from = From(j) /\ b.data = FirstPieces(n, j)
    BY <2>2 DEF Loaded, FrameOK
  <2>4. bytes = AtMost(l - From(j), IF j = 0 THEN 2 ELSE 8)
    BY <2>2, <2>3 DEF FrameOK
  <2> HIDE DEF l, j, bytes
  <2>5. LET z == (l + 5) \div 8
            y == AtMost(l - From(j), IF j = 0 THEN 2 ELSE 8) IN
        /\ z \in Nat /\ y \in Nat /\ From(j) \in Nat /\ From(j) <= l
        /\ j = z => From(j) + y = l
        /\ j < z => From(j) + y = From(j + 1) /\ From(j + 1) < l
        /\ j > 0 => From(j) > 0 /\ (From(j) + 6) \div 8 = j
        /\ (IF j > 0 THEN (l - From(j) - y + 7) \div 8 ELSE z) = z - j
    <3>1. l \in Nat /\ j \in Nat /\ j <= (l + 5) \div 8
      BY <1>1, <2>2
    <3> QED
      BY <3>1, FrameNumbers
  <2>6. /\ bytes \in Nat /\ From(j) \in Nat
        /\ j = last => From(j) + bytes = l
        /\ j < last => From(j) + bytes = From(j + 1) /\ From(j + 1) < l
    BY <2>4, <2>5
  <2> DEFINE c == From(j) + bytes
             d == FirstPieces(n, j + 1)
  <2>7. /\ new \in ElementType /\ new.used /\ new.packet = n /\ new.id = f.id /\ new.remain = b.remain - 1
        /\ new.count = c /\ new.data = d
    <3>1. Append(b.data, [n |-> f.n, from |-> f.from]) = d /\ d \in Seq(Piece)
      <4>1. Append(FirstPieces(n, j), [n |-> n, from |-> From(j)]) = FirstPieces(n, j + 1)
            /\ FirstPieces(n, j + 1) \in Seq(Piece)
        <5>1. j + 1 \in Nat /\ n \in Nat /\ j \in Nat
          BY <1>1
        <5> HIDE DEF n
        <5> QED
          BY <5>1, PiecesGrow
      <4> QED
        BY <2>3, <4>1
    <3>2. b.count + f.bytes = c /\ c \in Nat /\ b.remain - 1 \in Nat
      BY <1>1, <2>3, <2>6 DEF bytes
    <3> HIDE DEF c, d
    <3>3. new.used = b.used /\ new.packet = b.packet /\ new.id = b.id
      BY <1>1 DEF ElementType
    <3>4. new.remain = b.remain - 1 /\ new.count = c /\ new.data = d /\ new.old = FALSE
      BY <1>1, <3>1, <3>2 DEF ElementType
    <3>5. new \in ElementType
      BY <1>1, <3>1, <3>2 DEF ElementType
    <3> QED
      BY <3>3, <3>4, <3>5 DEF Loaded
  <2>8. IF new.count # CanLength[b.packet]
        THEN /\ canPbuf' = [canPbuf EXCEPT ![e] = new]
             /\ UNCHANGED <<canUp, canHurt>>
        ELSE /\ canPbuf' = [canPbuf EXCEPT ![e] = CanFree]
             /\ canUp' = Append(canUp, [n |-> b.packet, data |-> new.data])
             /\ UNCHANGED canHurt
    BY <1>3 DEF CanContinue
  <2> HIDE DEF new, c, d, last, n
  <2>9. CASE j = last
    <3>1. /\ canPbuf' = [canPbuf EXCEPT ![e] = CanFree] /\ canHurt' = canHurt
          /\ canUp' = Append(canUp, [n |-> n, data |-> d])
      BY <2>6, <2>7, <2>8, <2>9 DEF c, l, n
    <3>2. j + 1 = Frames(n) /\ j = Index(f) /\ Index(f) = Frames(n) - 1
      BY <1>1, <2>2, <2>9
    <3> QED
      BY <3>1, <3>2 DEF PassedOn, d, n, j
  <2>10. CASE j # last
    <3>1. j < last /\ j < Frames(n) - 1
      BY <1>1, <2>2, <2>10
    <3>2. c # l
      BY <1>1, <2>6, <3>1 DEF c
    <3>3. canPbuf' = [canPbuf EXCEPT ![e] = new] /\ canUp' = canUp /\ canHurt' = canHurt
      BY <2>7, <2>8, <3>2 DEF l, n
    <3>4. canPbuf'[e] = new
      BY <3>3 DEF CanTypes
    <3>5. FramesTaken(new) = j + 1 /\ new.remain >= 1
      <4>1. FramesTaken(b) = Frames(n) - b.remain /\ FramesTaken(new) = Frames(n) - new.remain
        BY <2>7 DEF FramesTaken, n
      <4> QED
        BY <1>1, <2>7, <3>1, <4>1 DEF j
    <3>6. new.count = From(FramesTaken(new)) /\ new.data = FirstPieces(n, FramesTaken(new))
      BY <2>6, <2>7, <3>1, <3>5 DEF c, d
    <3> QED
      BY <2>2, <2>7, <3>1, <3>3, <3>4, <3>5, <3>6 DEF Kept, n, j
  <2> QED
    BY <2>9, <2>10
<1> QED
  BY <1>2, <1>3

(* Element e is the one for frame f: it has all the frames before it.        *)
Ready(e, f) == \/ /\ e \in Filling /\ canPbuf[e].packet = f.n /\ canPbuf[e].id = f.id
                  /\ FramesTaken(canPbuf[e]) = Index(f)
               \/ /\ e \notin Filling /\ Index(f) = 0
                  /\ \A d \in Filling : canPbuf[d].packet # f.n

(* What is left of the frames of f.n is behind f.                            *)
LEMMA HeadIs ==
  ASSUME CanTypes, CanInv, canQueue # <<>>
  PROVE  LET f == Head(canQueue) IN
         /\ f \in FrameType /\ FrameOK(f) /\ f.n \in CanPackets /\ f.n \in Nat /\ Index(f) \in Nat
         /\ Index(f) <= Frames(f.n) - 1 /\ Frames(f.n) \in Nat \ {0}
         /\ Behind(canQueue, Tail(canQueue), 1) /\ Tail(canQueue) \in Seq(FrameType)
         /\ Len(Tail(canQueue)) <= CanQueueSize
         /\ 1 \in DOMAIN canQueue /\ canQueue[1] = f
         /\ \A i \in DOMAIN Tail(canQueue) :
              /\ i + 1 \in DOMAIN canQueue /\ i + 1 > 1 /\ Tail(canQueue)[i] = canQueue[i + 1]
              /\ Tail(canQueue)[i].n = f.n => Index(f) < Index(Tail(canQueue)[i])
         /\ \A i \in DOMAIN canQueue : i # 1 => i - 1 \in DOMAIN Tail(canQueue)
                                                /\ Tail(canQueue)[i - 1] = canQueue[i]
<1> DEFINE f == Head(canQueue)
           q == Tail(canQueue)
<1>1. /\ Behind(canQueue, q, 1) /\ q \in Seq(FrameType) /\ Len(q) = Len(canQueue) - 1
      /\ f = canQueue[1] /\ 1 \in DOMAIN canQueue /\ f \in FrameType
  BY TailBehind DEF CanTypes
<1>2. FrameOK(f) /\ f.n \in CanPackets
  BY <1>1 DEF CanInv, Sound, FrameOK
<1> HIDE DEF f, q
<1>3. f.n \in Nat /\ Frames(f.n) \in Nat \ {0} /\ f.remain \in Nat
  BY <1>1, <1>2, FramesType DEF FrameType
<1>4. Index(f) \in Nat /\ Index(f) <= Frames(f.n) - 1
  BY <1>2, <1>3 DEF Index, FrameOK
<1>5. Len(canQueue) \in Nat /\ DOMAIN canQueue = 1 .. Len(canQueue) /\ DOMAIN q = 1 .. Len(q)
      /\ Len(canQueue) <= CanQueueSize
  BY <1>1, LenProperties DEF CanTypes
<1>6. ASSUME NEW i \in DOMAIN q
      PROVE  i + 1 \in DOMAIN canQueue /\ i + 1 > 1 /\ q[i] = canQueue[i + 1]
  BY <1>1, <1>5 DEF Behind
<1>7. ASSUME NEW i \in DOMAIN q, q[i].n = f.n PROVE Index(f) < Index(q[i])
  <2>1. 1 < i + 1 /\ canQueue[1].n = canQueue[i + 1].n /\ i + 1 \in DOMAIN canQueue /\ 1 \in DOMAIN canQueue
    BY <1>1, <1>6, <1>7
  <2> QED
    BY <1>1, <1>6, <2>1 DEF CanInv, Ordered
<1>8. ASSUME NEW i \in DOMAIN canQueue, i # 1 PROVE i - 1 \in DOMAIN q /\ q[i - 1] = canQueue[i]
  <2>1. i - 1 \in DOMAIN q /\ (i - 1) + 1 = i
    BY <1>1, <1>5, <1>8 DEF Behind
  <2> QED
    BY <1>6, <2>1
<1>9. Len(q) <= CanQueueSize
  BY <1>1, <1>5, CanAssumption
<1> QED
  BY <1>1, <1>2, <1>3, <1>4, <1>6, <1>7, <1>8, <1>9 DEF f, q

(* A frame that its element takes keeps the invariant.                       *)
LEMMA TakeInv ==
  ASSUME CanTypes, CanTypes', CanInv, canQueue # <<>>, canQueue' = Tail(canQueue),
         NEW e \in 1 .. CanElements, Ready(e, Head(canQueue)),
         Kept(e, Head(canQueue)) \/ PassedOn(e, Head(canQueue)),
         canSent' = canSent, canTask' = canTask
  PROVE  CanInv' /\ InUse' \subseteq InUse
<1>0. PICK f : f = Head(canQueue)
  OBVIOUS
<1>1. /\ f \in FrameType /\ FrameOK(f) /\ f.n \in CanPackets /\ f.n \in Nat /\ Index(f) \in Nat
      /\ Index(f) <= Frames(f.n) - 1 /\ Frames(f.n) \in Nat \ {0}
      /\ 1 \in DOMAIN canQueue /\ canQueue[1] = f
      /\ \A i \in DOMAIN canQueue' :
              /\ i + 1 \in DOMAIN canQueue /\ i + 1 > 1 /\ canQueue'[i] = canQueue[i + 1]
              /\ canQueue'[i].n = f.n => Index(f) < Index(canQueue'[i])
      /\ \A i \in DOMAIN canQueue : i # 1 => i - 1 \in DOMAIN canQueue' /\ canQueue'[i - 1] = canQueue[i]
  BY <1>0, HeadIs
<1>2. Ready(e, f) /\ (Kept(e, f) \/ PassedOn(e, f)) /\ canHurt' = canHurt
  BY <1>0 DEF Kept, PassedOn
<1>3. CanPackets' = CanPackets /\ Sending' = Sending
      /\ (\A x : FrameOK(x) => FrameOK(x)') /\ (\A x : TaskOK(x) => TaskOK(x)')
      /\ (\A x : ElementOK(x) => ElementOK(x)')
  BY DEF CanPackets, Sending, FrameOK, TaskOK, ElementOK, Index, Position, FramesTaken
<1>4. \A d \in 1 .. CanElements : d # e => canPbuf'[d] = canPbuf[d]
  BY <1>2 DEF Kept, PassedOn, CanTypes
<1>5. \A d \in 1 .. CanElements : d # e => (d \in Filling' <=> d \in Filling)
  BY <1>4 DEF Filling
<1>6. Kept(e, f) => e \in Filling'
  BY DEF Kept, Filling
<1>7. PassedOn(e, f) => e \notin Filling' /\ canPbuf'[e] = CanFree
  BY DEF PassedOn, Filling, CanFree, CanTypes
<1>8. \A d \in Filling : canPbuf[d].packet = f.n => d = e
  BY <1>2 DEF Ready, CanInv, Ordered
<1>9. \A d \in Filling' : \/ d \in Filling /\ canPbuf'[d] = canPbuf[d] /\ d # e /\ canPbuf[d].packet # f.n
                          \/ d = e /\ Kept(e, f)
  BY <1>2, <1>4, <1>5, <1>7, <1>8 DEF Filling
<1>u. \/ canUp' = canUp
      \/ /\ PassedOn(e, f) /\ \A i \in DOMAIN canUp : i \in DOMAIN canUp' /\ canUp'[i] = canUp[i]
         /\ Len(canUp) + 1 \in DOMAIN canUp' /\ canUp'[Len(canUp) + 1].n = f.n
         /\ canUp'[Len(canUp) + 1].data = FirstPieces(f.n, Frames(f.n))
         /\ \A i \in DOMAIN canUp' : i \in DOMAIN canUp \/ i = Len(canUp) + 1
  <2>1. CASE PassedOn(e, f)
    <3> DEFINE x == [n |-> f.n, data |-> FirstPieces(f.n, Frames(f.n))]
               S == [n : Nat, data : Seq(Piece)]
    <3>1. x \in S /\ canUp \in Seq(S) /\ canUp' = Append(canUp, x)
      BY <1>1, <2>1, PiecesGrow DEF PassedOn, CanTypes
    <3>2. x.n = f.n /\ x.data = FirstPieces(f.n, Frames(f.n))
      OBVIOUS
    <3> HIDE DEF x, S
    <3> QED
      BY <2>1, <3>1, <3>2, AppendIs
  <2> QED
    BY <1>2, <2>1 DEF Kept
<1>v. \A i \in DOMAIN canUp : canUp[i].n # f.n
  BY <1>1 DEF CanInv, Ordered
<1>10. Sound'
  <2>1. (\A i \in DOMAIN canQueue : FrameOK(canQueue[i]))'
    BY <1>1, <1>3 DEF CanInv, Sound
  <2>2. (\A t \in Sending : TaskOK(canTask[t]))'
    BY <1>3 DEF CanInv, Sound
  <2>3. (\A t \in CanTasks \ Sending : canTask[t] = CanIdle)'
    BY <1>3 DEF CanInv, Sound
  <2>4. (\A d \in Filling : ElementOK(canPbuf[d]))'
    <3>1. ASSUME Kept(e, f) PROVE ElementOK(canPbuf'[e])
      <4>1. Index(f) + 1 >= 1
        BY <1>1
      <4> QED
        BY <1>1, <3>1, <4>1 DEF ElementOK, Kept
    <3>2. \A d \in Filling' : ElementOK(canPbuf'[d])
      BY <1>9, <3>1 DEF CanInv, Sound
    <3> QED
      BY <1>3, <3>2
  <2>5. (\A d \in (1 .. CanElements) \ Filling : canPbuf[d] = CanFree)'
    BY <1>2, <1>4, <1>5, <1>6, <1>7 DEF CanInv, Sound
  <2>6. (\A i \in DOMAIN canUp : /\ canUp[i].n \in CanPackets
                                 /\ canUp[i].data = FirstPieces(canUp[i].n, Frames(canUp[i].n)))'
    BY <1>1, <1>3, <1>u DEF CanInv, Sound
  <2> QED
    BY <2>1, <2>2, <2>3, <2>4, <2>5, <2>6 DEF Sound
<1>t. ASSUME NEW t \in Sending, canTask[t].n = f.n PROVE Index(f) < Position(canTask[t])
  BY <1>1, <1>t DEF CanInv, Ordered
<1>11. Ordered'
  <2>1. (\A s, t \in Sending : canTask[s].n = canTask[t].n => s = t)'
    BY <1>3 DEF CanInv, Ordered
  <2>2. (\A c, d \in Filling : canPbuf[c].packet = canPbuf[d].packet => c = d)'
    BY <1>9 DEF CanInv, Ordered, Kept
  <2>3. (\A i, j \in DOMAIN canQueue :
          i < j /\ canQueue[i].n = canQueue[j].n => Index(canQueue[i]) < Index(canQueue[j]))'
    <3> SUFFICES ASSUME NEW i \in DOMAIN canQueue', NEW j \in DOMAIN canQueue',
                        i < j, canQueue'[i].n = canQueue'[j].n
                 PROVE  Index(canQueue'[i]) < Index(canQueue'[j])
      BY DEF Index
    <3>1. i + 1 < j + 1
      <4>1. i \in Nat /\ j \in Nat
        <5>1. canQueue' \in Seq(FrameType)
          BY DEF CanTypes
        <5>2. DOMAIN canQueue' = 1 .. Len(canQueue') /\ Len(canQueue') \in Nat
          BY ONLY <5>1, LenProperties
        <5> QED
          BY <5>2
      <4> QED
        BY <4>1
    <3> QED
      BY <1>1, <3>1 DEF CanInv, Ordered
  <2>4. (\A i \in DOMAIN canQueue : \A t \in Sending :
          canQueue[i].n = canTask[t].n => Index(canQueue[i]) < Position(canTask[t]))'
    BY <1>1, <1>3 DEF CanInv, Ordered, Index, Position
  <2>5. (\A d \in Filling : \A i \in DOMAIN canQueue :
          canPbuf[d].packet = canQueue[i].n => FramesTaken(canPbuf[d]) <= Index(canQueue[i]))'
    <3> SUFFICES ASSUME NEW d \in Filling', NEW i \in DOMAIN canQueue', canPbuf'[d].packet = canQueue'[i].n
                 PROVE  FramesTaken(canPbuf'[d]) <= Index(canQueue'[i])
      BY DEF FramesTaken, Index
    <3>1. CASE d = e /\ Kept(e, f)
      <4>1. FramesTaken(canPbuf'[d]) = Index(f) + 1 /\ Index(f) < Index(canQueue'[i])
        BY <1>1, <3>1 DEF Kept
      <4>2. Index(canQueue'[i]) \in Int
        <5>1. canQueue'[i] \in FrameType /\ canQueue'[i].n \in CanPackets
          BY <1>1, ElementOfSeq DEF CanTypes, CanInv, Sound, FrameOK
        <5> QED
          BY <5>1, FramesType DEF Index, FrameType
      <4> QED
        BY <1>1, <4>1, <4>2
    <3>2. CASE d \in Filling /\ canPbuf'[d] = canPbuf[d]
      BY <1>1, <3>2 DEF CanInv, Ordered
    <3> QED
      BY <1>9, <3>1, <3>2
  <2>6. (\A d \in Filling : \A t \in Sending :
          canPbuf[d].packet = canTask[t].n => FramesTaken(canPbuf[d]) <= Position(canTask[t]))'
    <3> SUFFICES ASSUME NEW d \in Filling', NEW t \in Sending, canPbuf'[d].packet = canTask[t].n
                 PROVE  FramesTaken(canPbuf'[d]) <= Position(canTask[t])
      BY <1>3 DEF FramesTaken, Position
    <3>1. CASE d = e /\ Kept(e, f)
      <4>1. FramesTaken(canPbuf'[d]) = Index(f) + 1 /\ Index(f) < Position(canTask[t])
        BY <1>t, <3>1 DEF Kept
      <4>2. Position(canTask[t]) \in Int
        BY PositionType DEF CanTypes, Sending
      <4> QED
        BY <1>1, <4>1, <4>2
    <3>2. CASE d \in Filling /\ canPbuf'[d] = canPbuf[d]
      BY <3>2 DEF CanInv, Ordered
    <3> QED
      BY <1>9, <3>1, <3>2
  <2>7. (\A i \in DOMAIN canUp :
          /\ \A j \in DOMAIN canUp : canUp[i].n = canUp[j].n => i = j
          /\ \A d \in Filling : canPbuf[d].packet # canUp[i].n
          /\ \A j \in DOMAIN canQueue : canQueue[j].n # canUp[i].n
          /\ \A t \in Sending : canTask[t].n # canUp[i].n)'
    <3>1. CASE canUp' = canUp
      <4>1. \A d \in Filling' : (d \in Filling /\ canPbuf'[d] = canPbuf[d]) \/ canPbuf'[d].packet = f.n
        BY <1>9 DEF Kept
      <4> QED
        BY <1>1, <1>3, <1>v, <3>1, <4>1 DEF CanInv, Ordered
    <3>2. CASE canUp' # canUp
      <4>1. /\ PassedOn(e, f) /\ \A i \in DOMAIN canUp : i \in DOMAIN canUp' /\ canUp'[i] = canUp[i]
            /\ Len(canUp) + 1 \in DOMAIN canUp' /\ canUp'[Len(canUp) + 1].n = f.n
            /\ \A i \in DOMAIN canUp' : i \in DOMAIN canUp \/ i = Len(canUp) + 1
        BY <1>u, <3>2
      <4>2. \A d \in Filling' : d \in Filling /\ canPbuf'[d] = canPbuf[d] /\ canPbuf[d].packet # f.n
        BY <1>7, <1>9, <4>1 DEF Kept
      <4>3. \A i \in DOMAIN canQueue' : canQueue'[i].n # f.n
        <5> SUFFICES ASSUME NEW i \in DOMAIN canQueue', canQueue'[i].n = f.n PROVE FALSE
          OBVIOUS
        <5>1. Index(f) < Index(canQueue'[i]) /\ Index(f) = Frames(f.n) - 1
          BY <1>1, <4>1 DEF PassedOn
        <5>2. canQueue'[i] \in FrameType
          BY ElementOfSeq DEF CanTypes
        <5>3. Index(canQueue'[i]) <= Frames(f.n) - 1 /\ Index(canQueue'[i]) \in Int
          <6>1. Index(canQueue'[i]) = Frames(f.n) - 1 - canQueue'[i].remain
            BY DEF Index
          <6>2. canQueue'[i].remain \in Nat
            BY <5>2 DEF FrameType
          <6> QED
            BY <1>1, <6>1, <6>2
        <5> QED
          BY <1>1, <5>1, <5>3
      <4>4. \A t \in Sending : canTask[t].n # f.n
        <5> SUFFICES ASSUME NEW t \in Sending, canTask[t].n = f.n PROVE FALSE
          OBVIOUS
        <5>1. Index(f) < Position(canTask[t]) /\ Index(f) = Frames(f.n) - 1
          BY <1>t, <4>1 DEF PassedOn
        <5>2. Position(canTask[t]) < Frames(f.n) /\ Position(canTask[t]) \in Int
          BY PositionType DEF CanInv, Sound, TaskOK, CanTypes, Sending
        <5> QED
          BY <1>1, <5>1, <5>2
      <4>5. \A i \in DOMAIN canUp : i # Len(canUp) + 1
        BY LenProperties DEF CanTypes
      <4> QED
        BY <1>1, <1>3, <1>v, <4>1, <4>2, <4>3, <4>4, <4>5 DEF CanInv, Ordered
    <3> QED
      BY <3>1, <3>2
  <2> QED
    BY <2>1, <2>2, <2>3, <2>4, <2>5, <2>6, <2>7 DEF Ordered
<1>12. InUse' \subseteq InUse
  <2>1. <<f.id, f.n>> \in InUse
    BY <1>1 DEF InUse
  <2>2. \A d \in Filling' : <<canPbuf'[d].id, canPbuf'[d].packet>> \in InUse
    BY <1>9, <2>1 DEF InUse, Kept
  <2>3. \A i \in DOMAIN canQueue' : <<canQueue'[i].id, canQueue'[i].n>> \in InUse
    BY <1>1 DEF InUse
  <2>4. \A t \in Sending' : <<canTask'[t].id, canTask'[t].n>> \in InUse
    BY <1>3 DEF InUse
  <2> QED
    BY <2>2, <2>3, <2>4 DEF InUse
<1>14. Named'
  BY <1>12 DEF CanInv, Named
<1>13. Accounted'
  <2> SUFFICES ASSUME NEW n \in CanPackets, n \notin canHurt, \A i \in DOMAIN canUp' : canUp'[i].n # n,
                      NEW j \in 0 .. Frames(n) - 1
               PROVE  \/ \E d \in Filling' : canPbuf'[d].packet = n /\ j < FramesTaken(canPbuf'[d])
                      \/ \E i \in DOMAIN canQueue' : canQueue'[i].n = n /\ Index(canQueue'[i]) = j
                      \/ \E t \in Sending : canTask[t].n = n /\ Position(canTask[t]) <= j
    BY <1>2, <1>3 DEF Accounted, Index, FramesTaken, Position
  <2>1. \/ \E d \in Filling : canPbuf[d].packet = n /\ j < FramesTaken(canPbuf[d])
        \/ \E i \in DOMAIN canQueue : canQueue[i].n = n /\ Index(canQueue[i]) = j
        \/ \E t \in Sending : canTask[t].n = n /\ Position(canTask[t]) <= j
    BY <1>u DEF CanInv, Accounted
  <2>2. n = f.n => Kept(e, f)
    BY <1>2, <1>u, LenProperties DEF Kept, PassedOn, CanTypes
  <2>3. ASSUME NEW d \in Filling, canPbuf[d].packet = n, j < FramesTaken(canPbuf[d])
        PROVE  \E c \in Filling' : canPbuf'[c].packet = n /\ j < FramesTaken(canPbuf'[c])
    <3>1. CASE n = f.n
      <4>1. d = e /\ Kept(e, f) /\ FramesTaken(canPbuf[e]) = Index(f) /\ e \in Filling'
        BY <1>2, <1>6, <1>8, <2>2, <2>3, <3>1 DEF Ready
      <4>2. FramesTaken(canPbuf'[e]) = Index(f) + 1 /\ canPbuf'[e].packet = n
        BY <3>1, <4>1 DEF Kept
      <4>3. j < FramesTaken(canPbuf'[e])
        BY <1>1, <2>3, <4>1, <4>2
      <4> QED
        BY <4>1, <4>2, <4>3
    <3>2. CASE n # f.n
      <4>1. d # e
        BY <1>2, <2>3, <3>2 DEF Ready
      <4> QED
        BY <1>4, <1>5, <2>3, <4>1 DEF Filling
    <3> QED
      BY <3>1, <3>2
  <2>4. ASSUME NEW i \in DOMAIN canQueue, canQueue[i].n = n, Index(canQueue[i]) = j
        PROVE  \/ \E d \in Filling' : canPbuf'[d].packet = n /\ j < FramesTaken(canPbuf'[d])
               \/ \E h \in DOMAIN canQueue' : canQueue'[h].n = n /\ Index(canQueue'[h]) = j
    <3>1. CASE i = 1
      <4>1. n = f.n /\ Index(f) = j /\ Kept(e, f) /\ e \in Filling'
        BY <1>1, <1>6, <2>2, <2>4, <3>1
      <4>2. canPbuf'[e].packet = n /\ FramesTaken(canPbuf'[e]) = j + 1
        BY <4>1 DEF Kept
      <4>3. j < j + 1
        BY <1>1, <4>1
      <4> QED
        BY <4>1, <4>2, <4>3
    <3>2. CASE i # 1
      BY <1>1, <2>4, <3>2
    <3> QED
      BY <3>1, <3>2
  <2> QED
    BY <2>1, <2>3, <2>4
<1> QED
  BY <1>10, <1>11, <1>12, <1>13, <1>14 DEF CanInv

-----------------------------------------------------------------------------
(* The invariant holds at the start.                                         *)
LEMMA CanStart == CanInit => CanTypes /\ CanInv
<1> SUFFICES ASSUME CanInit PROVE CanTypes /\ CanInv
  OBVIOUS
<1>1. CanPackets = {} /\ Sending = {} /\ Filling = {} /\ DOMAIN canQueue = {} /\ DOMAIN canUp = {}
  <2>1. \A t \in CanTasks : canTask[t] = CanIdle
    BY DEF CanInit
  <2>2. \A e \in 1 .. CanElements : canPbuf[e] = CanFree
    BY DEF CanInit
  <2> QED
    BY <2>1, <2>2 DEF CanInit, CanPackets, Sending, Filling, CanIdle, CanFree
<1>2. Sound
  BY <1>1 DEF CanInit, Sound
<1>3. Ordered
  BY <1>1 DEF Ordered
<1>4. Named
  BY <1>1 DEF Named, InUse
<1>5. Accounted
  BY <1>1 DEF Accounted
<1>6. CanTypes
  <2>1. CanIdle \in TaskType
    BY DEF CanIdle, TaskType
  <2>2. CanFree \in ElementType
    BY DEF CanFree, ElementType
  <2>3. Len(CanLength) \in Nat
    BY CanAssumption, LenProperties
  <2> QED
    BY <2>1, <2>2, <2>3, CanAssumption DEF CanInit, CanTypes
<1> QED
  BY <1>2, <1>3, <1>4, <1>5, <1>6 DEF CanInv

(* An element that stays the same.                                           *)
LEMMA SameItself == \A b : SameElement(b, b)
BY DEF SameElement

(* The values of an element and of a task without a packet.                  *)
LEMMA FreeType == CanFree \in ElementType /\ ~CanFree.used /\ CanIdle \in TaskType
BY DEF CanFree, ElementType, CanIdle, TaskType

(* A free element stays as it is when the time passes.                       *)
LEMMA FreshElement == [CanFree EXCEPT !.old = CanFree.used] = CanFree
<1> DEFINE fields == {"used", "id", "remain", "packet", "count", "data", "old"}
<1>1. CanFree = [x \in fields |-> CanFree[x]] /\ CanFree.old = FALSE /\ CanFree.used = FALSE
  BY DEF CanFree
<1>2. [CanFree EXCEPT !.old = CanFree.used] = [x \in fields |-> IF x = "old" THEN FALSE ELSE CanFree[x]]
  BY <1>1
<1>3. \A x : (IF x = "old" THEN FALSE ELSE CanFree[x]) = CanFree[x]
  BY <1>1
<1> QED
  BY <1>1, <1>2, <1>3

(* No number is taken and none comes into use.                               *)
NoneNew == InUse' \subseteq InUse /\ UNCHANGED <<canId, canSent>>

(* A frame goes into the queue, or finds it full.                            *)
LEMMA SendFrameStep ==
  ASSUME CanTypes, CanInv, NEW t \in CanTasks, CanSendFrame(t)
  PROVE  CanTypes' /\ CanInv' /\ NoneNew
<1>1. CanFrameSent(t) /\ UNCHANGED <<canId, canSent, canPbuf, canUp, canFaults>>
  BY DEF CanSendFrame
<1>2. CanFrame(t) \in FrameType /\ canTask' \in [CanTasks -> TaskType] /\ canTask[t].n \in Nat
  BY <1>1, FrameSentIs, FramesType
<1>3. \/ /\ canQueue' = Append(canQueue, CanFrame(t)) /\ canHurt' = canHurt
         /\ Len(canQueue) < CanQueueSize
      \/ canQueue' = canQueue /\ canHurt' = canHurt \cup {canTask[t].n}
  BY DEF CanSendFrame
<1>4. canQueue' \in Seq(FrameType) /\ Len(canQueue') <= CanQueueSize
  <2>1. CASE canQueue' = Append(canQueue, CanFrame(t)) /\ Len(canQueue) < CanQueueSize
    <3>1. canQueue' \in Seq(FrameType) /\ Len(canQueue') = Len(canQueue) + 1
      BY <1>2, <2>1, AppendIs DEF CanTypes
    <3>2. Len(canQueue) \in Nat
      BY LenProperties DEF CanTypes
    <3> QED
      BY <2>1, <3>1, <3>2, CanAssumption
  <2> QED
    BY <1>3, <2>1 DEF CanTypes
<1>5. CanTypes'
  BY <1>1, <1>2, <1>3, <1>4 DEF CanTypes
<1>6. CanInv' /\ InUse' \subseteq InUse
  BY <1>1, <1>3, <1>5, FrameSentInv
<1> QED
  BY <1>1, <1>3, <1>5, <1>6 DEF NoneNew

(* A frame gets lost, or the rest of a packet is not sent.                   *)
LEMMA LoseStep ==
  ASSUME CanTypes, CanInv, NEW t \in CanTasks, CanLose(t)
  PROVE  CanTypes' /\ CanInv' /\ NoneNew
<1>1. /\ canHurt' = canHurt \cup {canTask[t].n} /\ canFaults' = canFaults + 1
      /\ UNCHANGED <<canId, canSent, canQueue, canPbuf, canUp>>
      /\ canTask[t].n \in Nat
  BY DEF CanLose, CanTypes, TaskType
<1>t. canHurt' \subseteq Nat /\ canFaults' \in Nat
  <2>1. canHurt' \subseteq Nat
    BY <1>1 DEF CanTypes
  <2>2. canFaults \in Nat
    BY DEF CanTypes
  <2>3. canFaults' \in Nat
    BY <1>1, <2>2
  <2> QED
    BY <2>1, <2>3
<1>2. CASE CanFrameSent(t)
  <2>1. canTask' \in [CanTasks -> TaskType]
    BY <1>2, FrameSentIs
  <2>2. CanTypes'
    BY <1>1, <1>t, <2>1 DEF CanTypes
  <2> QED
    BY <1>1, <1>2, <2>2, FrameSentInv DEF NoneNew
<1>3. CASE canTask' = [canTask EXCEPT ![t] = CanIdle]
  <2>1. /\ canTask' \in [CanTasks -> TaskType] /\ canTask'[t] = CanIdle
        /\ \A u \in CanTasks : u # t => canTask'[u] = canTask[u]
    BY <1>3, FreeType DEF CanTypes
  <2>2. CanTypes'
    BY <1>1, <1>t, <2>1 DEF CanTypes
  <2>3. Behind(canQueue, canQueue', 0)
    BY <1>1, SameBehind DEF CanTypes
  <2>4. Fewer(0)
    <3>1. \A i \in DOMAIN canQueue : ~(i <= 0)
      BY LenProperties DEF CanTypes
    <3> QED
      BY <1>1, <2>1, <2>3, <3>1, SameItself DEF Fewer
  <2> QED
    BY <1>1, <2>2, <2>4, FewerInv DEF NoneNew
<1> QED
  BY <1>2, <1>3 DEF CanLose

(* A frame for which there is no element or no buffer is dropped.            *)
LEMMA DropStep ==
  ASSUME CanTypes, CanInv, CanDrop \/ CanNoBuffer
  PROVE  CanTypes' /\ CanInv' /\ NoneNew
<1>0. PICK f : f = Head(canQueue)
  OBVIOUS
<1>1. /\ canQueue # <<>> /\ canQueue' = Tail(canQueue) /\ canHurt' = canHurt \cup {f.n}
      /\ UNCHANGED <<canId, canTask, canSent, canPbuf, canUp>>
  BY <1>0 DEF CanDrop, CanNoBuffer, CanTakeFrame
<1>2. canFaults' \in Nat
  BY DEF CanDrop, CanNoBuffer, CanTypes
<1>3. /\ f.n \in Nat /\ Behind(canQueue, Tail(canQueue), 1) /\ Tail(canQueue) \in Seq(FrameType)
      /\ Len(Tail(canQueue)) <= CanQueueSize /\ canQueue[1] = f
  BY <1>0, <1>1, HeadIs
<1>4. CanTypes'
  BY <1>1, <1>2, <1>3 DEF CanTypes
<1>5. Fewer(1)
  <2>1. \A i \in DOMAIN canQueue : i <= 1 => i = 1
    BY LenProperties DEF CanTypes
  <2> QED
    BY <1>1, <1>3, <2>1, SameItself DEF Fewer
<1> QED
  BY <1>1, <1>4, <1>5, FewerInv DEF NoneNew

(* Time passes.                                                              *)
LEMMA AgeStep ==
  ASSUME CanTypes, CanInv, CanAge
  PROVE  CanTypes' /\ CanInv' /\ NoneNew
<1>1. /\ canPbuf' = [e \in 1 .. CanElements |-> [canPbuf[e] EXCEPT !.old = canPbuf[e].used]]
      /\ UNCHANGED <<canId, canTask, canSent, canQueue, canUp, canHurt, canFaults>>
  BY DEF CanAge
<1>2. ASSUME NEW e \in 1 .. CanElements
      PROVE  canPbuf'[e] \in ElementType /\ SameElement(canPbuf[e], canPbuf'[e])
  <2> DEFINE b == canPbuf[e]
             c == [b EXCEPT !.old = b.used]
  <2>1. b \in ElementType /\ canPbuf'[e] = c
    BY <1>1 DEF CanTypes
  <2>2. ~b.used => b = CanFree
    BY DEF CanInv, Sound, Filling
  <2> HIDE DEF b
  <2>3. /\ c \in ElementType /\ c.used = b.used /\ c.id = b.id /\ c.remain = b.remain
        /\ c.packet = b.packet /\ c.count = b.count /\ c.data = b.data
    BY <2>1 DEF ElementType
  <2>4. ~b.used => c = b
    <3>1. [CanFree EXCEPT !.old = CanFree.used] = CanFree
      BY FreshElement
    <3> QED
      BY <2>2, <3>1
  <2> HIDE DEF c
  <2> QED
    BY <2>1, <2>3, <2>4 DEF SameElement, b
<1>3. CanTypes'
  <2>1. canPbuf' \in [1 .. CanElements -> ElementType]
    BY <1>1, <1>2
  <2> QED
    BY <1>1, <2>1 DEF CanTypes
<1>4. Behind(canQueue, canQueue', 0)
  BY <1>1, SameBehind DEF CanTypes
<1>5. Fewer(0)
  <2>1. \A i \in DOMAIN canQueue : ~(i <= 0)
    BY LenProperties DEF CanTypes
  <2> QED
    BY <1>1, <1>2, <1>4, <2>1 DEF Fewer
<1> QED
  BY <1>1, <1>3, <1>5, FewerInv DEF NoneNew

(* SameElement elements are freed: their packets met a fault then.                   *)
LEMMA CleanupStep ==
  ASSUME CanTypes, CanInv, CanCleanup
  PROVE  CanTypes' /\ CanInv' /\ NoneNew
<1>1. /\ canPbuf' = [e \in 1 .. CanElements |-> IF e \in TooOld THEN CanFree ELSE canPbuf[e]]
      /\ canHurt' = canHurt \cup UNION {Pieces(canPbuf[e]) : e \in TooOld}
      /\ UNCHANGED <<canId, canTask, canSent, canQueue, canUp, canFaults>>
  BY DEF CanCleanup
<1>2. ASSUME NEW e \in Filling
      PROVE  canPbuf[e].packet \in Pieces(canPbuf[e]) /\ Pieces(canPbuf[e]) \subseteq Nat
  <2> DEFINE b == canPbuf[e]
  <2>1. ElementOK(b)
    BY DEF CanInv, Sound
  <2>2. b.packet \in Nat \ {0}
    BY <2>1, FramesType DEF ElementOK
  <2>3. \A i \in DOMAIN b.data : b.data[i].n = b.packet
    BY <2>1 DEF ElementOK, FirstPieces
  <2> HIDE DEF b
  <2>4. b.packet \in Pieces(b) /\ Pieces(b) \subseteq Nat
    BY <2>2, <2>3, CanAssumption DEF Pieces
  <2> QED
    BY <2>4 DEF b
<1>3. TooOld \subseteq Filling
  <2> SUFFICES ASSUME NEW e \in TooOld, e \notin Filling PROVE FALSE
    OBVIOUS
  <2>1. canPbuf[e] = CanFree /\ canPbuf[e].old
    BY DEF CanInv, Sound, TooOld
  <2> QED
    BY <2>1 DEF CanFree
<1>4. CanTypes'
  <2>1. canPbuf' \in [1 .. CanElements -> ElementType]
    BY <1>1, FreeType DEF CanTypes
  <2>2. canHurt' \subseteq Nat
    BY <1>1, <1>2, <1>3 DEF CanTypes
  <2> QED
    BY <1>1, <2>1, <2>2 DEF CanTypes
<1>5. Behind(canQueue, canQueue', 0)
  BY <1>1, SameBehind DEF CanTypes
<1>6. Fewer(0)
  <2>1. \A i \in DOMAIN canQueue : ~(i <= 0)
    BY LenProperties DEF CanTypes
  <2>2. ASSUME NEW e \in 1 .. CanElements
        PROVE  \/ SameElement(canPbuf[e], canPbuf'[e])
               \/ canPbuf'[e] = CanFree /\ (e \in Filling => canPbuf[e].packet \in canHurt')
    <3>1. CASE e \in TooOld
      BY <1>1, <1>2, <1>3, <3>1
    <3>2. CASE e \notin TooOld
      BY <1>1, <3>2, SameItself
    <3> QED
      BY <3>1, <3>2
  <2> QED
    BY <1>1, <1>5, <2>1, <2>2 DEF Fewer
<1> QED
  BY <1>1, <1>4, <1>6, FewerInv DEF NoneNew

(* csp_can_process_frame with the element for the frame.                     *)
LEMMA TookStep ==
  ASSUME CanTypes, CanInv, canQueue # <<>>, canQueue' = Tail(canQueue), NEW e \in 1 .. CanElements,
         e \in Filling => canPbuf[e].packet = Head(canQueue).n,
         \/ Spoiled(e, Head(canQueue))
         \/ Ready(e, Head(canQueue)) /\ (Kept(e, Head(canQueue)) \/ PassedOn(e, Head(canQueue))),
         UNCHANGED <<canId, canTask, canSent, canFaults>>
  PROVE  CanTypes' /\ CanInv' /\ NoneNew
<1>0. PICK f : f = Head(canQueue)
  OBVIOUS
<1>1. /\ f.n \in Nat /\ Behind(canQueue, Tail(canQueue), 1) /\ Tail(canQueue) \in Seq(FrameType)
      /\ Len(Tail(canQueue)) <= CanQueueSize /\ canQueue[1] = f /\ Frames(f.n) \in Nat
  BY <1>0, HeadIs
<1>2. CASE Spoiled(e, f)
  <2>1. /\ canPbuf' = [canPbuf EXCEPT ![e] = CanFree] /\ canUp' = canUp
        /\ canHurt \subseteq canHurt' /\ canHurt' \subseteq Nat /\ f.n \in canHurt'
    BY <1>2 DEF Spoiled
  <2>2. CanTypes'
    BY <1>1, <2>1, FreeType DEF CanTypes
  <2>3. Fewer(1)
    <3>1. \A i \in DOMAIN canQueue : i <= 1 => i = 1
      BY LenProperties DEF CanTypes
    <3>2. canPbuf'[e] = CanFree /\ \A d \in 1 .. CanElements : d # e => canPbuf'[d] = canPbuf[d]
      BY <2>1 DEF CanTypes
    <3> QED
      BY <1>0, <1>1, <2>1, <3>1, <3>2, SameItself DEF Fewer
  <2> QED
    BY <2>2, <2>3, FewerInv DEF NoneNew
<1>3. CASE Kept(e, f)
  <2>1. CanTypes'
    <3>1. canPbuf' \in [1 .. CanElements -> ElementType]
      BY <1>3 DEF CanTypes, Kept
    <3>2. canUp' = canUp /\ canHurt' = canHurt
      BY <1>3 DEF Kept
    <3> QED
      BY <1>1, <3>1, <3>2 DEF CanTypes
  <2>2. Ready(e, f) \/ Spoiled(e, f)
    BY <1>0
  <2> QED
    BY <1>0, <1>2, <1>3, <2>1, <2>2, TakeInv DEF NoneNew
<1>4. CASE PassedOn(e, f)
  <2>1. CanTypes'
    <3>1. canPbuf' \in [1 .. CanElements -> ElementType]
      BY <1>4, FreeType DEF CanTypes, PassedOn
    <3>2. canUp' \in Seq([n : Nat, data : Seq(Piece)])
      <4> DEFINE x == [n |-> f.n, data |-> FirstPieces(f.n, Frames(f.n))]
                 S == [n : Nat, data : Seq(Piece)]
      <4>1. x \in S /\ canUp \in Seq(S) /\ canUp' = Append(canUp, x)
        BY <1>1, <1>4, PiecesGrow DEF PassedOn, CanTypes
      <4> HIDE DEF x, S
      <4>2. canUp' \in Seq(S)
        BY <4>1, AppendIs
      <4> QED
        BY <4>2 DEF S
    <3>3. canHurt' = canHurt
      BY <1>4 DEF PassedOn
    <3> QED
      BY <1>1, <3>1, <3>2, <3>3 DEF CanTypes
  <2>2. Ready(e, f) \/ Spoiled(e, f)
    BY <1>0
  <2> QED
    BY <1>0, <1>2, <1>4, <2>1, <2>2, TakeInv DEF NoneNew
<1> QED
  BY <1>0, <1>2, <1>3, <1>4

(* The element with the number of the frame at the head of the queue is the  *)
(* one of its packet, and the frame is not the first.                        *)
LEMMA FoundIs ==
  ASSUME CanTypes, CanInv, canQueue # <<>>, NEW e \in Filling,
         \/ canPbuf[e].id = Head(canQueue).id
         \/ canPbuf[e].packet = Head(canQueue).n
  PROVE  LET f == Head(canQueue) IN
         /\ canPbuf[e].id = f.id /\ canPbuf[e].packet = f.n /\ ~f.begin
<1>0. PICK f : f = Head(canQueue)
  OBVIOUS
<1>1. /\ FrameOK(f) /\ Index(f) \in Nat /\ 1 \in DOMAIN canQueue /\ canQueue[1] = f
      /\ f.n \in CanPackets /\ Frames(f.n) \in Nat /\ f \in FrameType
  BY <1>0, HeadIs
<1>2. <<f.id, f.n>> \in InUse /\ <<canPbuf[e].id, canPbuf[e].packet>> \in InUse
  BY <1>1 DEF InUse
<1>3. canPbuf[e].id = f.id /\ canPbuf[e].packet = f.n
  <2>1. canPbuf[e].id = f.id <=> canPbuf[e].packet = f.n
    BY <1>2 DEF CanInv, Named
  <2> QED
    BY <1>0, <2>1
<1>4. FramesTaken(canPbuf[e]) <= Index(f) /\ FramesTaken(canPbuf[e]) >= 1 /\ FramesTaken(canPbuf[e]) \in Int
  <2>1. FramesTaken(canPbuf[e]) <= Index(f)
    BY <1>1, <1>3 DEF CanInv, Ordered
  <2>2. canPbuf[e] \in ElementType /\ FramesTaken(canPbuf[e]) >= 1
    BY DEF CanTypes, CanInv, Sound, ElementOK, Filling
  <2>3. FramesTaken(canPbuf[e]) \in Int
    BY <1>1, <1>3, <2>2 DEF FramesTaken, ElementType
  <2> QED
    BY <2>1, <2>2, <2>3
<1>5. ~f.begin
  <2>1. Index(f) # 0
    BY <1>1, <1>4
  <2> QED
    BY <1>1, <2>1 DEF FrameOK
<1> QED
  BY <1>0, <1>3, <1>5

(* A MORE frame finds the element of its packet by the number.               *)
LEMMA MoreStep ==
  ASSUME CanTypes, CanInv, CanMore
  PROVE  CanTypes' /\ CanInv' /\ NoneNew
<1>0. PICK f : f = Head(canQueue)
  OBVIOUS
<1>1. /\ canQueue # <<>> /\ canQueue' = Tail(canQueue) /\ ~f.begin
      /\ UNCHANGED <<canId, canTask, canSent, canFaults>>
  BY <1>0 DEF CanMore, CanTakeFrame
<1>2. PICK e \in CanFind(f.id) : CanContinue(e, canPbuf[e], f)
  BY <1>0 DEF CanMore
<1>3. e \in 1 .. CanElements /\ e \in Filling /\ canPbuf[e].id = f.id /\ canPbuf[e].used
  BY <1>2 DEF CanFind, Filling
<1>4. canPbuf[e].packet = f.n /\ f \in FrameType /\ FrameOK(f)
  BY <1>0, <1>1, <1>3, FoundIs, HeadIs
<1>5. Loaded(canPbuf[e])
  <2>1. ElementOK(canPbuf[e]) /\ canPbuf[e] \in ElementType
    BY <1>3 DEF CanInv, Sound, CanTypes
  <2>2. FramesTaken(canPbuf[e]) >= 0
    <3>1. Frames(f.n) \in Nat
      BY <1>4, FramesType DEF FrameOK
    <3>2. FramesTaken(canPbuf[e]) \in Int /\ FramesTaken(canPbuf[e]) >= 1
      BY <1>4, <2>1, <3>1 DEF FramesTaken, ElementType, ElementOK
    <3> QED
      BY <3>2
  <2> QED
    BY <1>3, <2>1, <2>2 DEF Loaded, ElementOK
<1>6. Spoiled(e, f) \/ (FramesTaken(canPbuf[e]) = Index(f) /\ (Kept(e, f) \/ PassedOn(e, f)))
  BY <1>2, <1>3, <1>4, <1>5, ContinueIs
<1>7. Spoiled(e, f) \/ (Ready(e, f) /\ (Kept(e, f) \/ PassedOn(e, f)))
  BY <1>3, <1>4, <1>6 DEF Ready
<1> QED
  BY <1>0, <1>1, <1>3, <1>4, <1>7, TookStep

(* A BEGIN frame finds no element with its number, and takes a free one.     *)
LEMMA BeginStep ==
  ASSUME CanTypes, CanInv, CanBegin
  PROVE  CanTypes' /\ CanInv' /\ NoneNew
<1>0. PICK f : f = Head(canQueue)
  OBVIOUS
<1>1. /\ canQueue # <<>> /\ canQueue' = Tail(canQueue) /\ f.begin
      /\ UNCHANGED <<canId, canTask, canSent, canFaults>>
  BY <1>0 DEF CanBegin, CanTakeFrame
<1>2. \A d \in Filling : canPbuf[d].id # f.id /\ canPbuf[d].packet # f.n
  BY <1>0, <1>1, FoundIs
<1>3. CanFind(f.id) = {}
  BY <1>2 DEF CanFind, Filling
<1>4. PICK e \in CanUnused : CanContinue(e, [Begun(canPbuf[e], f) EXCEPT !.used = TRUE, !.id = f.id], f)
  BY <1>0, <1>3 DEF CanBegin
<1>5. e \in 1 .. CanElements /\ e \notin Filling /\ canPbuf[e] = CanFree
  BY <1>4 DEF CanUnused, Filling, CanInv, Sound
<1>6. /\ f \in FrameType /\ FrameOK(f) /\ f.n \in CanPackets /\ f.n \in Nat
      /\ Frames(f.n) \in Nat \ {0} /\ Index(f) = 0
  BY <1>0, <1>1, HeadIs DEF FrameOK
<1> DEFINE b == [Begun(CanFree, f) EXCEPT !.used = TRUE, !.id = f.id]
<1>8. CanContinue(e, b, f)
  BY <1>4, <1>5
<1> HIDE DEF b
<1>9. f.remain \in Nat /\ f.id \in Nat
  BY <1>6 DEF FrameType
<1>10. /\ b \in ElementType /\ b.used /\ b.packet = f.n /\ b.id = f.id /\ b.remain = f.remain + 1
       /\ b.count = 0 /\ b.data = <<>>
  <2> DEFINE a == Begun(CanFree, f)
  <2>1. f.remain + 1 \in Nat /\ <<>> \in Seq(Piece)
    BY <1>9
  <2>2. /\ a \in ElementType /\ a.packet = f.n /\ a.remain = f.remain + 1
        /\ a.count = 0 /\ a.data = <<>>
    BY <1>6, <2>1, FreeType DEF Begun, ElementType
  <2> HIDE DEF a
  <2>3. b = [a EXCEPT !.used = TRUE, !.id = f.id]
    BY DEF a, b
  <2> QED
    BY <1>9, <2>2, <2>3 DEF ElementType
<1>11. FramesTaken(b) = 0
  BY <1>6, <1>9, <1>10 DEF FramesTaken, Index
<1>12. b.data = FirstPieces(b.packet, FramesTaken(b))
  <2>1. FirstPieces(f.n, 0) \in Seq(Piece) /\ Len(FirstPieces(f.n, 0)) = 0
    <3>1. 0 \in Nat
      OBVIOUS
    <3> QED
      BY ONLY <1>6, <3>1, PiecesGrow
  <2>2. FirstPieces(f.n, 0) = <<>>
    BY <2>1, EmptySeq
  <2> QED
    BY <1>10, <1>11, <2>2
<1>13. Loaded(b)
  BY <1>6, <1>9, <1>10, <1>11, <1>12 DEF Loaded, From
<1>14. Spoiled(e, f) \/ Kept(e, f) \/ PassedOn(e, f)
  BY <1>5, <1>6, <1>8, <1>10, <1>13, ContinueIs
<1>15. Ready(e, f)
  BY <1>2, <1>5, <1>6 DEF Ready
<1> QED
  BY <1>0, <1>1, <1>5, <1>14, <1>15, TookStep

-----------------------------------------------------------------------------
(* The number of the n-th packet.                                            *)
NumberOf(n) == (CanFirstId + n - 1) % CanIdSpace

Numbered == canId = NumberOf(canSent + 1) /\ \A x \in InUse : x[1] = NumberOf(x[2])

(* The remainder of a number that is less than twice the size.               *)
LEMMA OneWrap ==
  ASSUME NEW x \in 0 .. 2 * CanIdSpace - 1
  PROVE  /\ x < CanIdSpace => x % CanIdSpace = x
         /\ x >= CanIdSpace => x % CanIdSpace = x - CanIdSpace
<1>1. ASSUME NEW N \in Nat \ {0}, NEW y \in 0 .. 2 * N - 1
      PROVE  (y < N => y % N = y) /\ (y >= N => y % N = y - N)
  OBVIOUS
<1> QED
  BY <1>1, CanAssumption

(* The numbers of the first packets go round at most once.                   *)
LEMMA NumberIs ==
  ASSUME NEW n \in 1 .. CanIdSpace + 1
  PROVE  /\ CanFirstId + n - 1 < CanIdSpace => NumberOf(n) = CanFirstId + n - 1
         /\ CanFirstId + n - 1 >= CanIdSpace => NumberOf(n) = CanFirstId + n - 1 - CanIdSpace
<1>1. CanIdSpace \in Nat \ {0} /\ CanFirstId + n - 1 \in 0 .. 2 * CanIdSpace - 1
  BY CanAssumption
<1> DEFINE x == CanFirstId + n - 1
<1>2. NumberOf(n) = x % CanIdSpace /\ x \in 0 .. 2 * CanIdSpace - 1
  BY <1>1 DEF NumberOf
<1> HIDE DEF x
<1>3. /\ x < CanIdSpace => NumberOf(n) = x
      /\ x >= CanIdSpace => NumberOf(n) = x - CanIdSpace
  BY <1>2, OneWrap
<1> QED
  BY <1>3, CanAssumption DEF x

(* As long as the packets are no more than the numbers, none is given twice. *)
LEMMA NumbersFree ==
  ASSUME CanTypes, CanInv, Numbered, Len(CanLength) <= CanIdSpace
  PROVE  IdFree
<1> SUFFICES ASSUME canSent < Len(CanLength), NEW x \in InUse, x[1] = canId PROVE FALSE
  BY DEF IdFree
<1>1. x[2] \in CanPackets
  BY DEF InUse, CanInv, Sound, TaskOK, FrameOK, ElementOK
<1>2. /\ x[2] \in 1 .. canSent /\ canSent \in Nat /\ canSent < CanIdSpace /\ CanFirstId \in 0 .. CanIdSpace - 1
      /\ CanIdSpace \in Nat
  BY <1>1, CanAssumption, LenProperties DEF CanTypes, CanPackets
<1>3. NumberOf(x[2]) = NumberOf(canSent + 1)
  BY DEF Numbered
<1> DEFINE m == x[2]
           k == canSent + 1
<1>4. /\ m \in 1 .. CanIdSpace + 1 /\ k \in 1 .. CanIdSpace + 1 /\ m < k /\ k - m < CanIdSpace
      /\ CanFirstId \in Nat /\ CanIdSpace \in Nat
  BY <1>2
<1> HIDE DEF m, k
<1>5. /\ CanFirstId + m - 1 < CanIdSpace => NumberOf(m) = CanFirstId + m - 1
      /\ CanFirstId + m - 1 >= CanIdSpace => NumberOf(m) = CanFirstId + m - 1 - CanIdSpace
  BY <1>4, NumberIs
<1>6. /\ CanFirstId + k - 1 < CanIdSpace => NumberOf(k) = CanFirstId + k - 1
      /\ CanFirstId + k - 1 >= CanIdSpace => NumberOf(k) = CanFirstId + k - 1 - CanIdSpace
  BY <1>4, NumberIs
<1>7. NumberOf(m) # NumberOf(k)
  BY <1>4, <1>5, <1>6
<1> QED
  BY <1>3, <1>7 DEF m, k

(* The next packet gets the next number.                                     *)
LEMMA SendNumbered ==
  ASSUME CanTypes, CanInv, Numbered, NEW t \in CanTasks, CanSend(t), Len(CanLength) <= CanIdSpace
  PROVE  Numbered'
<1>1. /\ InUse' \subseteq InUse \cup {<<canId, canSent + 1>>} /\ canSent' = canSent + 1
  BY NumbersFree, SendInv DEF CanSend
<1>2. /\ canSent \in Nat /\ canSent < CanIdSpace /\ CanFirstId \in 0 .. CanIdSpace - 1 /\ CanIdSpace \in Nat
  BY CanAssumption, LenProperties DEF CanTypes, CanSend
<1>3. canId' = NumberOf(canSent' + 1)
  <2>1. canId = NumberOf(canSent + 1) /\ canId' = (canId + 1) % CanIdSpace
    BY DEF Numbered, CanSend, NextId
  <2>2. canId + 1 \in 0 .. 2 * CanIdSpace - 1
    BY CanAssumption DEF CanTypes
  <2> DEFINE x == canId + 1
  <2>3. canId' = x % CanIdSpace /\ x \in 0 .. 2 * CanIdSpace - 1
    BY <2>1, <2>2
  <2> HIDE DEF x
  <2>4. (x < CanIdSpace => canId' = x) /\ (x >= CanIdSpace => canId' = x - CanIdSpace)
    BY <2>3, OneWrap
  <2>5. /\ canId + 1 < CanIdSpace => canId' = canId + 1
        /\ canId + 1 >= CanIdSpace => canId' = canId + 1 - CanIdSpace
    BY <2>4, CanAssumption DEF x, CanTypes
  <2> QED
    <3>1. canSent + 1 \in 1 .. CanIdSpace + 1 /\ canSent + 2 \in 1 .. CanIdSpace + 1
      BY <1>2
    <3>2. /\ CanFirstId + canSent < CanIdSpace => canId = CanFirstId + canSent
          /\ CanFirstId + canSent >= CanIdSpace => canId = CanFirstId + canSent - CanIdSpace
      BY <1>2, <2>1, <3>1, NumberIs
    <3>3. /\ CanFirstId + canSent + 1 < CanIdSpace => NumberOf(canSent + 2) = CanFirstId + canSent + 1
          /\ CanFirstId + canSent + 1 >= CanIdSpace =>
               NumberOf(canSent + 2) = CanFirstId + canSent + 1 - CanIdSpace
      BY <1>2, <3>1, NumberIs
    <3>4. canId' = NumberOf(canSent + 2)
      BY <1>2, <2>5, <3>2, <3>3
    <3>5. canSent' + 1 = canSent + 2
      BY <1>1, <1>2
    <3> QED
      BY <3>4, <3>5
<1> QED
  BY <1>1, <1>3 DEF Numbered, NumberOf

(* A step that is not a call of csp_can_tx keeps the invariant, whatever the *)
(* numbers are.                                                              *)
LEMMA CanStepKeeps ==
  ASSUME CanTypes, CanInv, [CanNext]_canVars, \A t \in CanTasks : ~CanSend(t)
  PROVE  CanTypes' /\ CanInv' /\ NoneNew
<1>1. CASE UNCHANGED canVars
  <2>1. canSent' = canSent /\ canTask' = canTask /\ canQueue' = canQueue /\ canPbuf' = canPbuf
        /\ canUp' = canUp /\ canHurt' = canHurt /\ canId' = canId
    BY <1>1 DEF canVars
  <2>2. CanTypes'
    BY <1>1 DEF canVars, CanTypes
  <2>3. Behind(canQueue, canQueue', 0)
    BY <2>1, SameBehind DEF CanTypes
  <2>4. \A i \in DOMAIN canQueue : ~(i <= 0)
    BY LenProperties DEF CanTypes
  <2>5. Fewer(0)
    BY <2>1, <2>3, <2>4, SameItself DEF Fewer
  <2> QED
    BY <2>1, <2>2, <2>5, FewerInv DEF NoneNew
<1> QED
  BY <1>1, SendFrameStep, LoseStep, DropStep, AgeStep, CleanupStep, MoreStep, BeginStep
     DEF CanNext, CanReceive

(* Every step does, if the number given next is free.                        *)
LEMMA CanStepInv ==
  ASSUME CanTypes, CanInv, IdFree, [CanNext]_canVars
  PROVE  CanTypes' /\ CanInv'
<1>1. ASSUME NEW t \in CanTasks, CanSend(t) PROVE CanTypes' /\ CanInv'
  BY <1>1, SendIs, SendInv
<1> QED
  BY <1>1, CanStepKeeps

(* No number is in use at the start.                                         *)
LEMMA NumberedStart == CanInit => Numbered
<1> SUFFICES ASSUME CanInit PROVE Numbered
  OBVIOUS
<1>1. InUse = {}
  BY DEF CanInit, InUse, Sending, Filling, CanIdle, CanFree
<1>2. NumberOf(1) = CanFirstId
  BY CanAssumption, NumberIs
<1> QED
  BY <1>1, <1>2 DEF CanInit, Numbered

(* Every step does, if there are numbers enough.                             *)
LEMMA NumberedStep ==
  ASSUME CanTypes, CanInv, Numbered, Len(CanLength) <= CanIdSpace, [CanNext]_canVars
  PROVE  CanTypes' /\ CanInv' /\ Numbered'
<1>1. ASSUME NEW t \in CanTasks, CanSend(t) PROVE Numbered'
  BY <1>1, SendNumbered
<1>2. NoneNew => Numbered'
  BY DEF NoneNew, Numbered, NumberOf
<1> QED
  BY <1>1, <1>2, NumbersFree, CanStepInv, CanStepKeeps

(* The invariant says that packets come out complete, and once.              *)
LEMMA DeliversNow ==
  ASSUME CanTypes, CanInv
  PROVE  CanDelivers
<1>1. Whole
  <2>1. ASSUME NEW i \in DOMAIN canUp
        PROVE  canUp[i].data = WholePacket(canUp[i].n)
    <3> DEFINE n == canUp[i].n
    <3>1. n \in CanPackets /\ canUp[i].data = FirstPieces(n, Frames(n))
      BY DEF CanInv, Sound
    <3> HIDE DEF n
    <3>2. Frames(n) \in Nat
      BY <3>1, FramesType
    <3>3. \A j \in 1 .. Frames(n) : From(j - 1) = IF j = 1 THEN 0 ELSE 8 * j - 14
      BY <3>2 DEF From
    <3>4. WholePacket(n) = [j \in 1 .. Frames(n) |-> [n |-> n, from |-> IF j = 1 THEN 0 ELSE 8 * j - 14]]
      BY DEF WholePacket, Frames
    <3>5. WholePacket(n) = FirstPieces(n, Frames(n))
      BY <3>3, <3>4 DEF FirstPieces
    <3> QED
      BY <3>1, <3>5 DEF n
  <2> QED
    BY <2>1 DEF Whole, CanInv, Ordered
<1>2. Complete
  <2> SUFFICES ASSUME NEW n \in 1 .. canSent, n \notin canHurt, ~\E i \in DOMAIN canUp : canUp[i].n = n
               PROVE  \/ \E t \in CanTasks : canTask[t].n = n
                      \/ \E i \in DOMAIN canQueue : canQueue[i].n = n
    BY DEF Complete
  <2>1. n \in CanPackets /\ Frames(n) \in Nat \ {0}
    BY FramesType DEF CanPackets
  <2> DEFINE k == Frames(n) - 1
  <2>2. k \in 0 .. Frames(n) - 1
    BY <2>1
  <2>3. \A e \in Filling : ~(canPbuf[e].packet = n /\ k < FramesTaken(canPbuf[e]))
    <3> SUFFICES ASSUME NEW e \in Filling, canPbuf[e].packet = n, k < FramesTaken(canPbuf[e]) PROVE FALSE
      OBVIOUS
    <3>1. canPbuf[e].remain \in Nat /\ canPbuf[e].remain >= 1
      BY DEF CanTypes, CanInv, Sound, ElementOK, Filling, ElementType
    <3> QED
      BY <2>1, <3>1 DEF FramesTaken
  <2>4. \/ \E i \in DOMAIN canQueue : canQueue[i].n = n /\ Index(canQueue[i]) = k
        \/ \E t \in Sending : canTask[t].n = n /\ Position(canTask[t]) <= k
    BY <2>1, <2>2, <2>3 DEF CanInv, Accounted
  <2> QED
    BY <2>4 DEF Sending
<1> QED
  BY <1>1, <1>2 DEF CanDelivers

(* The invariant says what an element holds.                                 *)
LEMMA TypesNow ==
  ASSUME CanTypes, CanInv
  PROVE  CanTypeOK
<1> SUFFICES ASSUME NEW e \in 1 .. CanElements
             PROVE  LET b == canPbuf[e] IN
                    /\ b.used \/ b = CanFree
                    /\ b.used => b.packet # NoCanPacket /\ b.count < CanLength[b.packet] /\ b.remain >= 1
  BY DEF CanTypeOK, CanTypes
<1> DEFINE b == canPbuf[e]
           n == b.packet
           j == FramesTaken(b)
<1>1. CASE e \notin Filling
  BY <1>1 DEF CanInv, Sound, Filling, CanFree
<1>2. CASE e \in Filling
  <2>1. ElementOK(b) /\ b \in ElementType
    BY <1>2 DEF CanInv, Sound, CanTypes
  <2>2. n \in Nat \ {0} /\ CanLength[n] \in Nat /\ Frames(n) \in Nat \ {0}
    BY <2>1, FramesType DEF ElementOK
  <2>3. b.remain \in Nat /\ b.remain >= 1 /\ j = Frames(n) - b.remain /\ j >= 1 /\ b.count = From(j)
    BY <2>1 DEF ElementOK, ElementType, FramesTaken
  <2> HIDE DEF j, b, n
  <2>4. PICK l : l = CanLength[n]
    OBVIOUS
  <2>5. l \in Nat /\ Frames(n) = (l + 5) \div 8 + 1
    BY <2>2, <2>4 DEF Frames
  <2>6. j \in Nat /\ 8 * j - 6 < l
    BY <2>2, <2>3, <2>5
  <2>7. b.count < l
    BY <2>3, <2>6 DEF From
  <2> QED
    BY <1>2, <2>2, <2>3, <2>4, <2>7, CanAssumption DEF b, n, Filling
<1> QED
  BY <1>1, <1>2

-----------------------------------------------------------------------------
(* The types and the invariant hold always, if the number that the next packet *)
(* gets is not still in use.                                                 *)
THEOREM CanInvariance == CanSpec /\ []IdFree => [](CanTypes /\ CanInv)
<1>1. (CanTypes /\ CanInv) /\ IdFree /\ [CanNext]_canVars => (CanTypes /\ CanInv)'
  BY CanStepInv
<1> QED
  BY <1>1, CanStart, PTL DEF CanSpec

(* Frames of several packets mix on the bus, get lost and are dropped: what the *)
(* receiver passes on is a packet that was sent, complete, in order and once, *)
(* and a packet that met no fault of its own comes out.                      *)
THEOREM CanNoMixture == CanSpec /\ []IdFree => []CanDelivers
<1>1. CanTypes /\ CanInv => CanDelivers
  BY DeliversNow
<1> QED
  BY <1>1, CanInvariance, PTL

(* Without a condition on the behaviour this holds for as many packets as there *)
(* are numbers: one that came round to a number still in use would be the next. *)
THEOREM CanFirstPackets ==
  ASSUME Len(CanLength) <= CanIdSpace
  PROVE  CanSpec => [](CanDelivers /\ CanTypeOK)
<1>1. CanInit => CanTypes /\ CanInv /\ Numbered
  BY CanStart, NumberedStart
<1>2. (CanTypes /\ CanInv /\ Numbered) /\ [CanNext]_canVars => (CanTypes /\ CanInv /\ Numbered)'
  BY NumberedStep
<1>3. CanTypes /\ CanInv => CanDelivers /\ CanTypeOK
  BY DeliversNow, TypesNow
<1> QED
  BY <1>1, <1>2, <1>3, PTL DEF CanSpec

(* An element in use has a buffer with room for what is still to come, and   *)
(* at least one frame is to come.                                            *)
THEOREM CanTypeCorrect == CanSpec /\ []IdFree => []CanTypeOK
<1>1. CanTypes /\ CanInv => CanTypeOK
  BY TypesNow
<1> QED
  BY <1>1, CanInvariance, PTL

-----------------------------------------------------------------------------
(* The steps of a task that holds or takes for granted the line.            *)
Busy == {"start", "type", "body", "unlock"}

KissTaskStates ==
  [at : {"idle", "lock", "start", "type", "body", "unlock"}, n : Nat, rest : Seq(KissBytes), clean : BOOLEAN]

KissReceivers ==
  [mode : {"not_started", "started", "escaped", "skip_frame"}, data : Seq(KissBytes),
   first : BOOLEAN, packet : BOOLEAN, up : Seq(Seq(KissBytes))]

(* The receiver's buffer: one if it fills it, and it never overflows.        *)
RxFits(r) == /\ r \in KissReceivers
             /\ Len(r.data) <= KissMtu + 1
             /\ r.mode \in {"started", "escaped"} => r.packet

KissTypes ==
  /\ kissLock \in BOOLEAN
  /\ kissTask \in [KissTasks -> KissTaskStates]
  /\ \A t \in KissTasks :
       /\ kissTask[t].at # "idle" => kissTask[t].n \in 1 .. kissSent
       /\ kissTask[t].at \in {"lock", "start", "type"} => kissTask[t].rest = KissPackets[kissTask[t].n]
       /\ kissTask[t].at \in {"lock", "start"} => kissTask[t].clean
  /\ RxFits(kissRx)
  /\ kissSent \in 0 .. Len(KissPackets)
  /\ kissFrames \in Seq([n : 1 .. Len(KissPackets), clean : BOOLEAN])
  /\ kissFaults \in Nat

LastClean == kissFrames # <<>> => kissFrames[Len(kissFrames)].clean

(* Between frames: the next FEND starts a frame.                            *)
RxReady(r) == \/ r.mode = "not_started"
              \/ r.mode = "started" /\ r.data = <<>> /\ r.first

(* Within an undisturbed frame, whatever came before: its last FEND makes    *)
(* the receiver ready.                                                      *)
Tame(k, r) ==
  \/ k.at = "type" /\ r.mode \in {"not_started", "started"}
  \/ /\ k.at = "body" /\ r.mode \in {"not_started", "started", "escaped"}
     /\ r.mode \in {"started", "escaped"} => ~r.first
     /\ r.mode = "started" /\ r.data = <<>> => k.rest # <<>>
     /\ r.mode = "escaped" => k.rest # <<>> /\ k.rest[1] \in {"TFEND", "TFESC"}

(* What the receiver has of packet p and what is still to come, its first     *)
(* byte perhaps replaced by the one that follows an escape, make p.          *)
Makes(p, rest, mode, data) ==
  /\ Len(data) + Len(rest) = Len(p)
  /\ \A i \in 1 .. Len(data) : data[i] = p[i]
  /\ \A i \in 2 .. Len(rest) : rest[i] = p[Len(data) + i]
  /\ mode = "started" /\ rest # <<>> => rest[1] = p[Len(data) + 1]
  /\ mode = "escaped" => /\ rest # <<>> /\ p[Len(data) + 1] \in DOMAIN Transpose
                         /\ rest[1] = Transpose[p[Len(data) + 1]]

(* Within an undisturbed frame for which the receiver was ready.             *)
Decoding(k, r) ==
  \/ k.at = "type" /\ r.mode = "started" /\ r.data = <<>> /\ r.first
  \/ /\ k.at = "body" /\ r.mode \in {"started", "escaped"} /\ ~r.first
     /\ Makes(KissPackets[k.n], k.rest, r.mode, r.data)

Undisturbed ==
  \A t \in KissTasks :
    Writing(t) /\ kissTask[t].clean =>
      /\ \A u \in KissTasks \ {t} : ~Writing(u)
      /\ Tame(kissTask[t], kissRx)
      /\ LastClean /\ Len(KissPackets[kissTask[t].n]) <= KissMtu => Decoding(kissTask[t], kissRx)

Between == (\A t \in KissTasks : ~Writing(t)) /\ LastClean => RxReady(kissRx)

(* Without faults the lock works and every frame is clean.                   *)
Exclusive ==
  kissFaults = 0 =>
    /\ \A t \in KissTasks : kissTask[t].at \in Busy =>
         ~kissLock /\ \A u \in KissTasks \ {t} : kissTask[u].at \notin Busy
    /\ \A t \in KissTasks : Writing(t) => kissTask[t].clean
    /\ \A i \in DOMAIN kissFrames : kissFrames[i].clean

KissInv == KissTypes /\ Undisturbed /\ Between /\ Exclusive /\ KissRecovers

-----------------------------------------------------------------------------
(* A packet goes up at most once per byte, behind those before it.           *)
Grows(r, s) == s.up = r.up \/ \E p \in Seq(KissBytes) : s.up = Append(r.up, p)

LEMMA NoOverflowFits ==
  ASSUME NEW r, RxFits(r)
  PROVE  /\ RxFits(NoOverflow(r)) /\ Len(NoOverflow(r).data) <= KissMtu /\ NoOverflow(r).up = r.up
         /\ NoOverflow(r).packet = r.packet /\ NoOverflow(r).first = r.first
         /\ \/ NoOverflow(r).mode = r.mode /\ NoOverflow(r).data = r.data
            \/ NoOverflow(r).mode = "not_started" /\ Len(r.data) > KissMtu
<1>1. <<>> \in Seq(KissBytes) /\ Len(<<>>) = 0 /\ KissMtu \in Nat
  BY KissAssumption
<1>2. r \in KissReceivers /\ Len(r.data) \in Nat
  BY DEF RxFits, KissReceivers
<1>3. CASE Len(r.data) <= KissMtu
  <2>1. NoOverflow(r) = r
    BY <1>3 DEF NoOverflow
  <2>. QED
    BY <1>3, <2>1
<1>4. CASE ~(Len(r.data) <= KissMtu)
  <2>. DEFINE s == [r EXCEPT !.mode = "not_started", !.data = <<>>]
  <2>1. NoOverflow(r) = s
    BY <1>4 DEF NoOverflow
  <2>2. s \in KissReceivers
    BY <1>1, <1>2 DEF KissReceivers
  <2>3. s.mode = "not_started" /\ s.data = <<>> /\ s.up = r.up /\ s.packet = r.packet /\ s.first = r.first
    BY <1>2 DEF KissReceivers
  <2>. HIDE DEF s
  <2>. QED
    BY <1>1, <1>2, <1>4, <2>1, <2>2, <2>3 DEF RxFits
<1>. QED
  BY <1>3, <1>4

LEMMA KissByteFits ==
  ASSUME NEW r, RxFits(r), NEW b \in KissBytes, NEW memory \in BOOLEAN
  PROVE  RxFits(KissByte(r, b, memory)) /\ Grows(r, KissByte(r, b, memory))
<1>. DEFINE q == NoOverflow(r)
            s == KissByte(r, b, memory)
<1>1. RxFits(q) /\ Len(q.data) <= KissMtu /\ q.up = r.up
  BY NoOverflowFits
<1>2. q \in KissReceivers /\ q.data \in Seq(KissBytes) /\ q.up \in Seq(Seq(KissBytes))
  BY <1>1 DEF RxFits, KissReceivers
<1>3. <<>> \in Seq(KissBytes) /\ Len(<<>>) = 0 /\ KissMtu \in Nat
  BY KissAssumption
<1>4. ASSUME NEW c \in KissBytes
      PROVE  Append(q.data, c) \in Seq(KissBytes) /\ Len(Append(q.data, c)) <= KissMtu + 1
  BY <1>1, <1>2, <1>3
<1>5. Append(q.up, q.data) \in Seq(Seq(KissBytes))
  BY <1>2
<1>. HIDE DEF q
<1>6. CASE q.mode = "not_started"
  <2>1. s = NotStarted(q, b, memory)
    BY <1>6 DEF KissByte, q
  <2>2. \/ s = q
        \/ s = [q EXCEPT !.packet = TRUE, !.mode = "started", !.data = <<>>, !.first = TRUE]
        \/ s = [q EXCEPT !.mode = "skip_frame"]
    BY <2>1 DEF NotStarted
  <2>3. s \in KissReceivers /\ s.up = q.up /\ s.data \in {q.data, <<>>}
    BY <1>2, <1>3, <2>2 DEF KissReceivers
  <2>4. s.mode \in {"started", "escaped"} => s.packet
    BY <1>1, <1>2, <2>2 DEF RxFits, KissReceivers
  <2>. HIDE DEF s
  <2>5. Len(s.data) <= KissMtu + 1
    BY <1>1, <1>3, <2>3 DEF RxFits
  <2>6. RxFits(s) /\ Grows(r, s)
    BY <1>1, <2>3, <2>4, <2>5 DEF RxFits, Grows
  <2>. QED
    BY <2>6 DEF s
<1>7. CASE q.mode = "started"
  <2>1. s = Started(q, b)
    BY <1>7 DEF KissByte, q
  <2>2. CASE b = "FEND"
    <3>1. s = EndOfFrame(q)
      BY <2>1, <2>2 DEF Started
    <3>2. \/ s = q
          \/ s = [q EXCEPT !.up = Append(@, q.data), !.packet = FALSE, !.mode = "not_started"]
          \/ s = [q EXCEPT !.mode = "not_started"]
      BY <3>1 DEF EndOfFrame
    <3>3. Grows(r, s)
      BY <1>1, <1>2, <3>2 DEF KissReceivers, Grows
    <3>4. RxFits(s)
      BY <1>1, <1>2, <1>5, <3>2 DEF RxFits, KissReceivers
    <3>. QED
      BY <3>3, <3>4
  <2>3. CASE b # "FEND"
    <3>1. \/ s = [q EXCEPT !.mode = "escaped"]
          \/ s = [q EXCEPT !.first = FALSE]
          \/ s = [q EXCEPT !.data = Append(@, b)]
      BY <2>1, <2>3 DEF Started
    <3>. DEFINE data == Append(q.data, b)
    <3>2. data \in Seq(KissBytes) /\ Len(data) <= KissMtu + 1
      BY <1>4
    <3>3. Len(q.data) <= KissMtu + 1 /\ q.packet
      BY <1>1, <1>7 DEF RxFits
    <3>. HIDE DEF data
    <3>4. \/ s = [q EXCEPT !.mode = "escaped"]
          \/ s = [q EXCEPT !.first = FALSE]
          \/ s = [q EXCEPT !.data = data]
      BY <3>1 DEF data
    <3>5. s \in KissReceivers /\ s.up = q.up /\ s.packet /\ s.data \in {q.data, data}
      BY <1>2, <3>2, <3>3, <3>4 DEF KissReceivers
    <3>6. Grows(r, s)
      BY <1>1, <3>5 DEF Grows
    <3>. HIDE DEF s
    <3>7. Len(s.data) <= KissMtu + 1
      BY <3>2, <3>3, <3>5
    <3>8. RxFits(s)
      BY <3>5, <3>7 DEF RxFits
    <3>. QED
      BY <3>6, <3>8 DEF s
  <2>. QED
    BY <2>2, <2>3
<1>8. CASE q.mode = "escaped"
  <2>1. s = Escaped(q, b)
    BY <1>8 DEF KissByte, q
  <2>2. "FEND" \in KissBytes /\ "FESC" \in KissBytes
    BY DEF KissBytes
  <2>3. \/ s = [q EXCEPT !.mode = "started", !.data = Append(@, "FESC")]
        \/ s = [q EXCEPT !.mode = "started", !.data = Append(@, "FEND")]
        \/ s = [q EXCEPT !.mode = "started", !.data = @]
    BY <2>1 DEF Escaped
  <2>. DEFINE esc == Append(q.data, "FESC")
              end == Append(q.data, "FEND")
  <2>4. esc \in Seq(KissBytes) /\ Len(esc) <= KissMtu + 1 /\ end \in Seq(KissBytes) /\ Len(end) <= KissMtu + 1
    BY <1>4, <2>2
  <2>5. Len(q.data) <= KissMtu + 1 /\ q.packet
    BY <1>1, <1>8 DEF RxFits
  <2>. HIDE DEF esc, end
  <2>6. \E data \in {esc, end, q.data} : s = [q EXCEPT !.mode = "started", !.data = data]
    BY <2>3 DEF esc, end
  <2>7. s \in KissReceivers /\ s.up = q.up /\ s.packet /\ s.data \in {q.data, esc, end}
    BY <1>2, <2>4, <2>5, <2>6 DEF KissReceivers
  <2>. QED
    BY <1>1, <2>4, <2>5, <2>7 DEF RxFits, Grows
<1>9. CASE q.mode = "skip_frame"
  <2>1. s = SkipFrame(q, b)
    BY <1>9 DEF KissByte, q
  <2>. QED
    BY <1>1, <1>2, <1>3, <1>9, <2>1 DEF SkipFrame, RxFits, KissReceivers, Grows
<1>. QED
  BY <1>2, <1>6, <1>7, <1>8, <1>9 DEF KissReceivers

(* The FEND that starts a frame.                                            *)
LEMMA FrameStarts ==
  ASSUME NEW r, RxFits(r)
  PROVE  LET s == KissByte(r, "FEND", TRUE) IN
         /\ s.mode \in {"not_started", "started"}
         /\ RxReady(r) => s.mode = "started" /\ s.data = <<>> /\ s.first
<1>. DEFINE q == NoOverflow(r)
            s == KissByte(r, "FEND", TRUE)
<1>1. /\ RxFits(q) /\ q.first = r.first
      /\ \/ q.mode = r.mode /\ q.data = r.data
         \/ q.mode = "not_started" /\ Len(r.data) > KissMtu
  BY NoOverflowFits
<1>2. q \in KissReceivers
  BY <1>1 DEF RxFits
<1>3. KissMtu \in Nat
  BY KissAssumption
<1>. HIDE DEF q
<1>4. CASE q.mode = "not_started"
  <2>1. s = NotStarted(q, "FEND", TRUE)
    BY <1>4 DEF KissByte, q
  <2>. QED
    BY <1>2, <2>1 DEF NotStarted, KissReceivers
<1>5. CASE q.mode = "started"
  <2>1. s = EndOfFrame(q)
    BY <1>5 DEF KissByte, Started, q
  <2>2. \/ q.data = <<>> /\ s = q
        \/ q.data # <<>> /\ s = [q EXCEPT !.up = Append(@, q.data), !.packet = FALSE, !.mode = "not_started"]
        \/ q.data # <<>> /\ s = [q EXCEPT !.mode = "not_started"]
    BY <2>1 DEF EndOfFrame
  <2>3. s.mode \in {"not_started", "started"}
    BY <1>2, <1>5, <2>2 DEF KissReceivers
  <2>4. RxReady(r) => q.data = <<>> /\ s = q /\ s.first
    BY <1>1, <1>5, <2>2 DEF RxReady
  <2>. QED
    BY <1>5, <2>3, <2>4
<1>6. CASE q.mode = "escaped"
  <2>1. s = Escaped(q, "FEND") /\ r.mode = "escaped"
    BY <1>1, <1>6 DEF KissByte, q
  <2>. QED
    BY <1>2, <2>1 DEF Escaped, KissReceivers, RxReady
<1>7. CASE q.mode = "skip_frame"
  <2>1. s = SkipFrame(q, "FEND") /\ r.mode = "skip_frame"
    BY <1>1, <1>7 DEF KissByte, q
  <2>. QED
    BY <1>2, <2>1 DEF SkipFrame, KissReceivers, RxReady
<1>. QED
  BY <1>2, <1>4, <1>5, <1>6, <1>7 DEF KissReceivers

LEMMA AppendNotEmpty ==
  ASSUME NEW seq \in Seq(KissBytes), NEW c \in KissBytes
  PROVE  Append(seq, c) # <<>>
BY AppendProperties

LEMMA SumBounds == ASSUME NEW a \in Nat, NEW b \in Nat, NEW c, a + b = c PROVE a <= c
OBVIOUS

(* How a packet is made byte by byte.                                       *)
LEMMA MakesPlain ==
  ASSUME NEW p \in Seq(KissBytes), NEW rest \in Seq(KissBytes), NEW data \in Seq(KissBytes),
         NEW mode, Makes(p, rest, mode, data), rest # <<>>
  PROVE  Makes(p, Tail(rest), "started", Append(data, p[Len(data) + 1]))
<1>. DEFINE c == p[Len(data) + 1]
            more == Append(data, c)
            left == Tail(rest)
<1>1. /\ Len(data) + Len(rest) = Len(p)
      /\ \A i \in 1 .. Len(data) : data[i] = p[i]
      /\ \A i \in 2 .. Len(rest) : rest[i] = p[Len(data) + i]
  BY DEF Makes
<1>2. /\ Len(rest) \in Nat /\ Len(rest) > 0 /\ Len(left) = Len(rest) - 1
      /\ \A j \in 1 .. Len(rest) - 1 : left[j] = rest[j + 1]
  OBVIOUS
<1>3. /\ Len(more) = Len(data) + 1 /\ Len(data) \in Nat /\ more[Len(data) + 1] = c
      /\ \A i \in 1 .. Len(data) : more[i] = data[i]
  OBVIOUS
<1>. HIDE DEF more, left, c
<1>4. Len(more) + Len(left) = Len(p)
  <2>1. Len(more) + Len(left) = (Len(data) + 1) + (Len(rest) - 1)
    BY <1>2, <1>3
  <2>2. (Len(data) + 1) + (Len(rest) - 1) = Len(data) + Len(rest)
    BY <1>2, <1>3
  <2>. QED
    BY <1>1, <2>1, <2>2
<1>5. ASSUME NEW i \in 1 .. Len(more) PROVE more[i] = p[i]
  <2>1. i \in 1 .. Len(data) \/ i = Len(data) + 1
    BY <1>3, <1>5
  <2>. QED
    BY <1>1, <1>3, <2>1 DEF c
<1>6. ASSUME NEW i \in 1 .. Len(left) PROVE left[i] = p[Len(more) + i]
  <2>1. left[i] = rest[i + 1] /\ i + 1 \in 2 .. Len(rest)
    BY <1>2, <1>6
  <2>2. rest[i + 1] = p[Len(data) + (i + 1)] /\ Len(data) + (i + 1) = Len(more) + i
    BY <1>1, <1>3, <2>1
  <2>. QED
    BY <2>1, <2>2
<1>7. left # <<>> => left[1] = p[Len(more) + 1]
  <2>1. left \in Seq(KissBytes)
    BY DEF left
  <2>2. left # <<>> => 1 \in 1 .. Len(left)
    BY <2>1
  <2>. QED
    BY <1>6, <2>2
<1>8. \A i \in 2 .. Len(left) : left[i] = p[Len(more) + i]
  BY <1>2, <1>6
<1>9. Makes(p, left, "started", more)
  BY <1>4, <1>5, <1>7, <1>8 DEF Makes
<1>. QED
  BY <1>9 DEF more, left, c

LEMMA MakesEscape ==
  ASSUME NEW p \in Seq(KissBytes), NEW rest \in Seq(KissBytes), NEW data \in Seq(KissBytes),
         Makes(p, rest, "started", data), rest # <<>>, rest[1] \in DOMAIN Transpose,
         NEW left \in Seq(KissBytes), left = [rest EXCEPT ![1] = Transpose[rest[1]]]
  PROVE  Makes(p, left, "escaped", data)
<1>1. /\ Len(data) + Len(rest) = Len(p)
      /\ \A i \in 1 .. Len(data) : data[i] = p[i]
      /\ \A i \in 2 .. Len(rest) : rest[i] = p[Len(data) + i]
      /\ rest[1] = p[Len(data) + 1]
  BY DEF Makes
<1>2. DOMAIN rest = 1 .. Len(rest) /\ Len(rest) \in Nat /\ 1 \in DOMAIN rest
  OBVIOUS
<1>3. /\ Len(left) = Len(rest) /\ left[1] = Transpose[rest[1]]
      /\ \A i \in 2 .. Len(rest) : left[i] = rest[i]
  BY <1>2
<1>4. left # <<>>
  BY <1>2, <1>3
<1>. QED
  BY <1>1, <1>3, <1>4 DEF Makes

(* The byte after it, which the receiver skips.                             *)
LEMMA TypeByte ==
  ASSUME NEW r, RxFits(r), NEW k, k.at = "type", Tame(k, r),
         k.rest \in Seq(KissBytes), k.rest # <<>>, k.rest = KissPackets[k.n],
         NEW l, l.at = "body", l.rest = k.rest, l.n = k.n
  PROVE  LET s == KissByte(r, "TNC_DATA", TRUE) IN
         Tame(l, s) /\ (Decoding(k, r) => Decoding(l, s))
<1>. DEFINE q == NoOverflow(r)
            s == KissByte(r, "TNC_DATA", TRUE)
<1>1. /\ q.first = r.first
      /\ \/ q.mode = r.mode /\ q.data = r.data
         \/ q.mode = "not_started" /\ Len(r.data) > KissMtu
  BY NoOverflowFits
<1>2. q \in KissReceivers /\ q.data \in Seq(KissBytes) /\ q.mode \in {"not_started", "started"}
  <2>1. q \in KissReceivers
    BY NoOverflowFits DEF RxFits
  <2>2. r.mode \in {"not_started", "started"}
    BY DEF Tame
  <2>. QED
    BY <1>1, <2>1, <2>2 DEF KissReceivers
<1>3. Decoding(k, r) => q.mode = "started" /\ q.data = <<>> /\ q.first
  <2>1. Len(<<>>) = 0 /\ KissMtu \in Nat
    BY KissAssumption
  <2>2. Decoding(k, r) => r.mode = "started" /\ r.data = <<>> /\ r.first
    BY DEF Decoding
  <2>. QED
    BY <1>1, <2>1, <2>2
<1>. HIDE DEF q
<1>4. CASE q.mode = "not_started"
  <2>1. s = q
    BY <1>4 DEF KissByte, NotStarted, q
  <2>2. Tame(l, s)
    BY <1>4, <2>1 DEF Tame
  <2>. QED
    BY <1>3, <1>4, <2>2
<1>5. CASE q.mode = "started" /\ q.first
  <2>1. s = [q EXCEPT !.first = FALSE]
    BY <1>5 DEF KissByte, Started, q
  <2>2. s.mode = "started" /\ ~s.first /\ s.data = q.data
    BY <1>2, <1>5, <2>1 DEF KissReceivers
  <2>. HIDE DEF s
  <2>3. Tame(l, s)
    BY <2>2 DEF Tame
  <2>4. Makes(KissPackets[k.n], k.rest, "started", <<>>)
    <3>1. /\ Len(<<>>) = 0
          /\ \A i \in 1 .. 0 : <<>>[i] = k.rest[i]
          /\ \A i \in 2 .. Len(k.rest) : k.rest[i] = k.rest[0 + i]
      OBVIOUS
    <3>2. 0 + Len(k.rest) = Len(k.rest)
      OBVIOUS
    <3>. QED
      BY <3>1, <3>2 DEF Makes
  <2>5. Decoding(k, r) => Decoding(l, s)
    BY <1>3, <2>2, <2>4 DEF Decoding
  <2>. QED
    BY <2>3, <2>5 DEF s
<1>6. CASE q.mode = "started" /\ ~q.first
  <2>1. s = [q EXCEPT !.data = Append(@, "TNC_DATA")]
    BY <1>6 DEF KissByte, Started, q
  <2>2. s.mode = "started" /\ ~s.first /\ s.data = Append(q.data, "TNC_DATA")
    BY <1>2, <1>6, <2>1 DEF KissReceivers
  <2>3. s.data # <<>>
    <3>1. "TNC_DATA" \in KissBytes
      BY DEF KissBytes
    <3>. QED
      BY <1>2, <2>2, <3>1, AppendNotEmpty
  <2>. HIDE DEF s
  <2>4. Tame(l, s)
    BY <2>2, <2>3 DEF Tame
  <2>. QED
    BY <1>3, <1>6, <2>4 DEF s
<1>. QED
  BY <1>2, <1>4, <1>5, <1>6

(* Within a frame that fits, no packet is given up.                          *)
LEMMA NoOverflowInside ==
  ASSUME NEW r, RxFits(r), NEW k, k.at = "body", k.rest \in Seq(KissBytes), Tame(k, r),
         k.n \in DOMAIN KissPackets
  PROVE  LET q == NoOverflow(r) IN
         /\ q \in KissReceivers /\ q.data \in Seq(KissBytes) /\ q.up = r.up
         /\ q.mode \in {"not_started", "started", "escaped"}
         /\ q.mode \in {"started", "escaped"} => ~q.first
         /\ q.mode = "started" /\ q.data = <<>> => k.rest # <<>>
         /\ q.mode = "escaped" => k.rest # <<>> /\ k.rest[1] \in {"TFEND", "TFESC"}
         /\ Decoding(k, r) /\ Len(KissPackets[k.n]) <= KissMtu =>
              q.mode # "not_started" /\ Makes(KissPackets[k.n], k.rest, q.mode, q.data)
<1>. DEFINE q == NoOverflow(r)
            p == KissPackets[k.n]
<1>1. /\ q.first = r.first /\ q.up = r.up /\ q \in KissReceivers
      /\ \/ q.mode = r.mode /\ q.data = r.data
         \/ q.mode = "not_started" /\ Len(r.data) > KissMtu
  BY NoOverflowFits DEF RxFits
<1>2. Len(r.data) \in Nat /\ Len(k.rest) \in Nat /\ KissMtu \in Nat /\ p \in Seq(KissBytes) /\ Len(p) \in Nat
  BY KissAssumption DEF RxFits, KissReceivers
<1>. HIDE DEF q, p
<1>3. ASSUME Decoding(k, r), Len(p) <= KissMtu
      PROVE  q.mode # "not_started" /\ Makes(p, k.rest, q.mode, q.data)
  <2>1. r.mode \in {"started", "escaped"} /\ Makes(p, k.rest, r.mode, r.data)
    BY <1>3 DEF Decoding, p
  <2>2. Len(r.data) + Len(k.rest) = Len(p)
    BY <2>1 DEF Makes
  <2>3. Len(r.data) <= Len(p)
    BY <1>2, <2>2, SumBounds
  <2>4. ~(Len(r.data) > KissMtu)
    BY <1>2, <1>3, <2>3
  <2>. QED
    BY <1>1, <2>1, <2>4
<1>4. q.data \in Seq(KissBytes)
  BY <1>1 DEF KissReceivers
<1>5. /\ r.mode \in {"not_started", "started", "escaped"}
      /\ r.mode \in {"started", "escaped"} => ~r.first
      /\ r.mode = "started" /\ r.data = <<>> => k.rest # <<>>
      /\ r.mode = "escaped" => k.rest # <<>> /\ k.rest[1] \in {"TFEND", "TFESC"}
  BY DEF Tame
<1>6. /\ q.mode \in {"not_started", "started", "escaped"}
      /\ q.mode \in {"started", "escaped"} => ~q.first
      /\ q.mode = "started" /\ q.data = <<>> => k.rest # <<>>
      /\ q.mode = "escaped" => k.rest # <<>> /\ k.rest[1] \in {"TFEND", "TFESC"}
  BY <1>1, <1>5
<1>. QED
  BY <1>1, <1>3, <1>4, <1>6 DEF q, p

(* A byte of the packet as it is, or the second of an escaped one.           *)
LEMMA PlainByte ==
  ASSUME NEW r, RxFits(r), NEW k, k.at = "body", Tame(k, r), k.n \in DOMAIN KissPackets,
         k.rest \in Seq(KissBytes), k.rest # <<>>, k.rest[1] \notin {"FEND", "FESC"},
         NEW l, l.at = "body", l.rest = Tail(k.rest), l.n = k.n
  PROVE  LET s == KissByte(r, k.rest[1], TRUE) IN
         /\ Tame(l, s)
         /\ Decoding(k, r) /\ Len(KissPackets[k.n]) <= KissMtu => Decoding(l, s)
<1>. DEFINE q == NoOverflow(r)
            b == k.rest[1]
            s == KissByte(r, b, TRUE)
            p == KissPackets[k.n]
<1>1. /\ q \in KissReceivers /\ q.data \in Seq(KissBytes)
      /\ q.mode \in {"not_started", "started", "escaped"}
      /\ q.mode \in {"started", "escaped"} => ~q.first
      /\ q.mode = "escaped" => b \in {"TFEND", "TFESC"}
      /\ Decoding(k, r) /\ Len(p) <= KissMtu => q.mode # "not_started" /\ Makes(p, k.rest, q.mode, q.data)
  BY NoOverflowInside
<1>2. p \in Seq(KissBytes)
  BY KissAssumption
<1>. HIDE DEF q, p
<1>3. CASE q.mode = "not_started"
  <2>1. s = q
    BY <1>3 DEF KissByte, NotStarted, q
  <2>2. Tame(l, s)
    BY <1>3, <2>1 DEF Tame
  <2>. QED
    BY <1>1, <1>3, <2>2 DEF p
<1>4. ASSUME NEW c \in KissBytes, s.mode = "started", ~s.first, s.data = Append(q.data, c),
             Decoding(k, r) /\ Len(p) <= KissMtu => c = p[Len(q.data) + 1]
      PROVE  /\ Tame(l, s)
             /\ Decoding(k, r) /\ Len(KissPackets[k.n]) <= KissMtu => Decoding(l, s)
  <2>1. s.data # <<>>
    BY <1>1, <1>4, AppendNotEmpty
  <2>. HIDE DEF s
  <2>2. Tame(l, s)
    BY <1>4, <2>1 DEF Tame
  <2>3. ASSUME Decoding(k, r), Len(p) <= KissMtu PROVE Decoding(l, s)
    <3>1. Makes(p, k.rest, q.mode, q.data) /\ c = p[Len(q.data) + 1]
      BY <1>1, <1>4, <2>3
    <3>2. Makes(p, Tail(k.rest), "started", Append(q.data, c))
      BY <1>1, <1>2, <3>1, MakesPlain
    <3>. QED
      BY <1>4, <3>2 DEF Decoding, p
  <2>. QED
    BY <2>2, <2>3 DEF p
<1>5. CASE q.mode = "started"
  <2>1. s = [q EXCEPT !.data = Append(@, b)]
    BY <1>1, <1>5 DEF KissByte, Started, q
  <2>2. s.mode = "started" /\ ~s.first /\ s.data = Append(q.data, b)
    BY <1>1, <1>5, <2>1 DEF KissReceivers
  <2>3. Decoding(k, r) /\ Len(p) <= KissMtu => b = p[Len(q.data) + 1]
    BY <1>1, <1>5 DEF Makes
  <2>4. b \in KissBytes
    <3>1. Len(k.rest) \in Nat /\ Len(k.rest) > 0
      OBVIOUS
    <3>. QED
      BY <3>1
  <2>. QED
    BY <1>4, <2>2, <2>3, <2>4
<1>6. CASE q.mode = "escaped"
  <2>. DEFINE c == IF b = "TFESC" THEN "FESC" ELSE "FEND"
  <2>1. s = Escaped(q, b)
    BY <1>6 DEF KissByte, q
  <2>2. s = [q EXCEPT !.mode = "started", !.data = Append(@, c)]
    BY <1>1, <1>6, <2>1 DEF Escaped
  <2>3. s.mode = "started" /\ ~s.first /\ s.data = Append(q.data, c)
    BY <1>1, <1>6, <2>2 DEF KissReceivers
  <2>4. Decoding(k, r) /\ Len(p) <= KissMtu => c = p[Len(q.data) + 1]
    <3>1. ASSUME NEW x \in DOMAIN Transpose, b = Transpose[x] PROVE c = x
      BY <3>1 DEF Transpose
    <3>2. Decoding(k, r) /\ Len(p) <= KissMtu =>
            p[Len(q.data) + 1] \in DOMAIN Transpose /\ b = Transpose[p[Len(q.data) + 1]]
      BY <1>1, <1>6 DEF Makes
    <3>. QED
      BY <3>1, <3>2
  <2>5. c \in KissBytes
    BY DEF KissBytes
  <2>. QED
    BY <1>4, <2>3, <2>4, <2>5
<1>. QED
  BY <1>1, <1>3, <1>5, <1>6

(* The FESC before a byte that must be escaped.                             *)
LEMMA EscapeByte ==
  ASSUME NEW r, RxFits(r), NEW k, k.at = "body", Tame(k, r), k.n \in DOMAIN KissPackets,
         k.rest \in Seq(KissBytes), k.rest # <<>>, k.rest[1] \in DOMAIN Transpose,
         NEW l, l.at = "body", l.rest = [k.rest EXCEPT ![1] = Transpose[@]], l.n = k.n
  PROVE  LET s == KissByte(r, "FESC", TRUE) IN
         /\ Tame(l, s)
         /\ Decoding(k, r) /\ Len(KissPackets[k.n]) <= KissMtu => Decoding(l, s)
<1>. DEFINE q == NoOverflow(r)
            s == KissByte(r, "FESC", TRUE)
            p == KissPackets[k.n]
<1>1. /\ q \in KissReceivers /\ q.data \in Seq(KissBytes)
      /\ q.mode \in {"not_started", "started", "escaped"}
      /\ q.mode \in {"started", "escaped"} => ~q.first
      /\ q.mode = "escaped" => k.rest[1] \in {"TFEND", "TFESC"}
      /\ Decoding(k, r) /\ Len(p) <= KissMtu => q.mode # "not_started" /\ Makes(p, k.rest, q.mode, q.data)
  BY NoOverflowInside
<1>2. p \in Seq(KissBytes)
  BY KissAssumption
<1>3. q.mode \in {"not_started", "started"}
  BY <1>1 DEF Transpose
<1>4. l.rest \in Seq(KissBytes) /\ l.rest # <<>> /\ l.rest[1] \in {"TFEND", "TFESC"}
  <2>1. Transpose[k.rest[1]] \in {"TFEND", "TFESC"}
    BY DEF Transpose
  <2>2. Transpose[k.rest[1]] \in KissBytes
    BY <2>1 DEF KissBytes
  <2>3. Len(k.rest) \in Nat /\ Len(k.rest) > 0 /\ DOMAIN k.rest = 1 .. Len(k.rest) /\ 1 \in DOMAIN k.rest
    OBVIOUS
  <2>4. l.rest = [k.rest EXCEPT ![1] = Transpose[k.rest[1]]]
    OBVIOUS
  <2>5. l.rest \in Seq(KissBytes) /\ l.rest[1] = Transpose[k.rest[1]] /\ DOMAIN l.rest = DOMAIN k.rest
    BY <2>2, <2>3, <2>4
  <2>. QED
    BY <2>1, <2>3, <2>5
<1>. HIDE DEF q, p
<1>5. CASE q.mode = "not_started"
  <2>1. s = q
    BY <1>5 DEF KissByte, NotStarted, q
  <2>2. Tame(l, s)
    BY <1>5, <2>1 DEF Tame
  <2>. QED
    BY <1>1, <1>5, <2>2 DEF p
<1>6. CASE q.mode = "started"
  <2>1. s = [q EXCEPT !.mode = "escaped"]
    BY <1>6 DEF KissByte, Started, q
  <2>2. s.mode = "escaped" /\ ~s.first /\ s.data = q.data
    BY <1>1, <1>6, <2>1 DEF KissReceivers
  <2>. HIDE DEF s
  <2>3. Tame(l, s)
    BY <1>4, <2>2 DEF Tame
  <2>4. ASSUME Decoding(k, r), Len(p) <= KissMtu PROVE Decoding(l, s)
    <3>1. Makes(p, k.rest, "started", q.data)
      BY <1>1, <1>6, <2>4
    <3>2. Makes(p, l.rest, "escaped", q.data)
      BY <1>1, <1>2, <1>4, <3>1, MakesEscape
    <3>. QED
      BY <2>2, <3>2 DEF Decoding, p
  <2>. QED
    BY <2>3, <2>4 DEF s, p
<1>. QED
  BY <1>3, <1>5, <1>6

(* The FEND that ends a frame: the receiver is ready for the next one, and    *)
(* a packet it was decoding goes up.                                        *)
LEMMA LastByte ==
  ASSUME NEW r, RxFits(r), NEW k, k.at = "body", Tame(k, r), k.rest = <<>>,
         k.n \in 1 .. kissSent, kissSent \in 0 .. Len(KissPackets)
  PROVE  LET s == KissByte(r, "FEND", TRUE) IN
         /\ RxReady(s)
         /\ Decoding(k, r) /\ Len(KissPackets[k.n]) <= KissMtu => s.up = Append(r.up, KissPackets[k.n])
<1>. DEFINE q == NoOverflow(r)
            s == KissByte(r, "FEND", TRUE)
            p == KissPackets[k.n]
<1>1. /\ p \in Seq(KissBytes) /\ k.n \in DOMAIN KissPackets
      /\ Len(p) >= KissMinLength /\ KissMinLength \in Nat \ {0}
  BY KissAssumption
<1>2. k.rest \in Seq(KissBytes)
  OBVIOUS
<1>3. /\ q \in KissReceivers /\ q.data \in Seq(KissBytes) /\ q.up = r.up
      /\ q.mode \in {"not_started", "started"}
      /\ q.mode = "started" => q.data # <<>>
      /\ Decoding(k, r) /\ Len(p) <= KissMtu => q.mode # "not_started" /\ Makes(p, <<>>, q.mode, q.data)
  BY <1>1, <1>2, NoOverflowInside
<1>. HIDE DEF q, p
<1>4. Decoding(k, r) /\ Len(p) <= KissMtu => q.mode = "started" /\ q.data = p
  <2>1. SUFFICES ASSUME Makes(p, <<>>, q.mode, q.data) PROVE q.data = p
    BY <1>3
  <2>2. /\ Len(q.data) + Len(<<>>) = Len(p)
        /\ \A i \in 1 .. Len(q.data) : q.data[i] = p[i]
    BY <2>1 DEF Makes
  <2>3. Len(q.data) = Len(p)
    BY <1>1, <1>3, <2>2
  <2>. QED
    BY <1>1, <1>3, <2>2, <2>3
<1>5. CASE q.mode = "not_started"
  <2>1. s = NotStarted(q, "FEND", TRUE)
    BY <1>5 DEF KissByte, q
  <2>2. s = [q EXCEPT !.packet = TRUE, !.mode = "started", !.data = <<>>, !.first = TRUE]
    BY <2>1 DEF NotStarted
  <2>3. RxReady(s)
    BY <1>3, <2>2 DEF KissReceivers, RxReady
  <2>. QED
    BY <1>4, <1>5, <2>3 DEF p
<1>6. CASE q.mode = "started"
  <2>1. s = EndOfFrame(q) /\ q.data # <<>>
    BY <1>3, <1>6 DEF KissByte, Started, q
  <2>2. \/ s = [q EXCEPT !.up = Append(@, q.data), !.packet = FALSE, !.mode = "not_started"]
        \/ s = [q EXCEPT !.mode = "not_started"]
    BY <2>1 DEF EndOfFrame
  <2>3. RxReady(s)
    BY <1>3, <2>2 DEF KissReceivers, RxReady
  <2>4. ASSUME Decoding(k, r), Len(p) <= KissMtu PROVE s.up = Append(r.up, p)
    <3>1. q.data = p
      BY <1>4, <2>4
    <3>2. Len(q.data) >= KissMinLength /\ \E n \in 1 .. kissSent : KissPackets[n] = q.data
      BY <1>1, <3>1 DEF p
    <3>3. s = [q EXCEPT !.up = Append(@, q.data), !.packet = FALSE, !.mode = "not_started"]
      BY <2>1, <3>2 DEF EndOfFrame
    <3>. QED
      BY <1>3, <3>1, <3>3 DEF KissReceivers
  <2>. QED
    BY <2>3, <2>4 DEF p
<1>. QED
  BY <1>3, <1>5, <1>6

-----------------------------------------------------------------------------
(* A task that has begun to send has a packet of the right length.           *)
LEMMA TaskPacket ==
  ASSUME KissTypes, NEW t \in KissTasks, kissTask[t].at # "idle"
  PROVE  /\ kissTask[t].n \in 1 .. kissSent /\ kissTask[t].n \in DOMAIN KissPackets
         /\ KissPackets[kissTask[t].n] \in Seq(KissBytes) /\ KissPackets[kissTask[t].n] # <<>>
<1>1. kissTask[t].n \in 1 .. kissSent /\ kissSent \in 0 .. Len(KissPackets)
  BY DEF KissTypes
<1>2. Len(KissPackets) \in Nat /\ DOMAIN KissPackets = 1 .. Len(KissPackets)
  BY KissAssumption
<1>3. kissTask[t].n \in DOMAIN KissPackets
  BY <1>1, <1>2
<1>4. /\ KissPackets[kissTask[t].n] \in Seq(KissBytes) /\ KissMinLength \in Nat \ {0}
      /\ Len(KissPackets[kissTask[t].n]) >= KissMinLength
  BY <1>3, KissAssumption
<1>5. KissPackets[kissTask[t].n] # <<>>
  <2>1. Len(<<>>) = 0
    OBVIOUS
  <2>. QED
    BY <1>4, <2>1
<1>. QED
  BY <1>1, <1>3, <1>4, <1>5

(* What a task writes next and has left then.                               *)
LEMMA NextStep ==
  ASSUME NEW k \in KissTaskStates, k.at \in {"start", "type", "body"}
  PROVE  /\ NextByte(k) \in KissBytes /\ AfterByte(k) \in KissTaskStates
         /\ AfterByte(k).n = k.n
         /\ k.at = "start" => NextByte(k) = "FEND" /\ AfterByte(k).at = "type" /\ AfterByte(k).rest = k.rest
         /\ k.at = "type" => /\ NextByte(k) = "TNC_DATA" /\ AfterByte(k).at = "body"
                             /\ AfterByte(k).rest = k.rest
         /\ k.at = "body" /\ k.rest = <<>> => /\ NextByte(k) = "FEND" /\ AfterByte(k).at = "unlock"
         /\ k.at = "body" /\ k.rest # <<>> /\ k.rest[1] \in DOMAIN Transpose =>
              /\ NextByte(k) = "FESC" /\ AfterByte(k).at = "body"
              /\ AfterByte(k).rest = [k.rest EXCEPT ![1] = Transpose[@]]
         /\ k.at = "body" /\ k.rest # <<>> /\ k.rest[1] \notin DOMAIN Transpose =>
              /\ NextByte(k) = k.rest[1] /\ AfterByte(k).at = "body"
              /\ AfterByte(k).rest = Tail(k.rest)
<1>1. k.rest \in Seq(KissBytes) /\ {"FEND", "FESC", "TNC_DATA"} \subseteq KissBytes
  BY DEF KissTaskStates, KissBytes
<1>2. CASE k.at = "start"
  <2>1. NextByte(k) = "FEND" /\ AfterByte(k) = [k EXCEPT !.at = "type"]
    BY <1>2 DEF NextByte, AfterByte
  <2>. QED
    BY <1>1, <1>2, <2>1 DEF KissTaskStates
<1>3. CASE k.at = "type"
  <2>1. NextByte(k) = "TNC_DATA" /\ AfterByte(k) = [k EXCEPT !.at = "body"]
    BY <1>3 DEF NextByte, AfterByte
  <2>. QED
    BY <1>1, <1>3, <2>1 DEF KissTaskStates
<1>4. CASE k.at = "body" /\ k.rest = <<>>
  <2>1. NextByte(k) = "FEND" /\ AfterByte(k) = [k EXCEPT !.at = "unlock"]
    BY <1>4 DEF NextByte, AfterByte
  <2>. QED
    BY <1>1, <1>4, <2>1 DEF KissTaskStates
<1>5. CASE k.at = "body" /\ k.rest # <<>> /\ k.rest[1] \in DOMAIN Transpose
  <2>. DEFINE left == [k.rest EXCEPT ![1] = Transpose[@]]
  <2>1. Head(k.rest) = k.rest[1] /\ 1 \in DOMAIN k.rest
    BY <1>1, <1>5
  <2>2. NextByte(k) = "FESC" /\ AfterByte(k) = [k EXCEPT !.rest = left]
    BY <1>5, <2>1 DEF NextByte, AfterByte
  <2>3. Transpose[k.rest[1]] \in KissBytes
    BY <1>5 DEF Transpose, KissBytes
  <2>4. left \in Seq(KissBytes)
    BY <1>1, <2>1, <2>3
  <2>. HIDE DEF left
  <2>5. AfterByte(k) \in KissTaskStates /\ AfterByte(k).n = k.n /\ AfterByte(k).at = "body" /\ AfterByte(k).rest = left
    BY <1>5, <2>2, <2>4 DEF KissTaskStates
  <2>. QED
    BY <1>1, <1>5, <2>2, <2>5 DEF left
<1>6. CASE k.at = "body" /\ k.rest # <<>> /\ k.rest[1] \notin DOMAIN Transpose
  <2>1. Head(k.rest) = k.rest[1] /\ k.rest[1] \in KissBytes /\ Tail(k.rest) \in Seq(KissBytes)
    BY <1>1, <1>6
  <2>2. NextByte(k) = k.rest[1] /\ AfterByte(k) = [k EXCEPT !.rest = Tail(@)]
    BY <1>6, <2>1 DEF NextByte, AfterByte
  <2>3. AfterByte(k) \in KissTaskStates /\ AfterByte(k).n = k.n /\ AfterByte(k).at = "body"
        /\ AfterByte(k).rest = Tail(k.rest)
    BY <1>6, <2>1, <2>2 DEF KissTaskStates
  <2>. QED
    BY <1>6, <2>1, <2>2, <2>3
<1>. QED
  BY <1>2, <1>3, <1>4, <1>5, <1>6

(* What writing a byte does to the task, to the others and to the history.   *)
OwnStep(t, harmed) ==
  /\ kissTask[t].at \in {"start", "type", "body"}
  /\ kissTask' \in [KissTasks -> KissTaskStates]
  /\ kissTask'[t].at = AfterByte(kissTask[t]).at
  /\ kissTask'[t].rest = AfterByte(kissTask[t]).rest
  /\ kissTask'[t].n = kissTask[t].n
  /\ kissTask'[t].clean <=> /\ kissTask[t].clean /\ ~harmed
                            /\ \A u \in KissTasks \ {t} : ~Writing(u)

OthersStep(t) ==
  \A u \in KissTasks \ {t} :
    /\ kissTask'[u].at = kissTask[u].at /\ kissTask'[u].n = kissTask[u].n
    /\ kissTask'[u].rest = kissTask[u].rest
    /\ Writing(u) => ~kissTask'[u].clean
    /\ ~Writing(u) => kissTask'[u] = kissTask[u]

FrameStep(t) ==
  /\ kissTask'[t].at = "unlock" =>
       kissFrames' = Append(kissFrames, [n |-> kissTask[t].n, clean |-> kissTask'[t].clean])
  /\ kissTask'[t].at # "unlock" => kissFrames' = kissFrames

LEMMA PutTasks ==
  ASSUME KissTypes, NEW t \in KissTasks, NEW harmed \in BOOLEAN, Put(t, harmed)
  PROVE  OwnStep(t, harmed) /\ OthersStep(t) /\ FrameStep(t)
<1>. DEFINE mixed == \E u \in KissTasks \ {t} : Writing(u)
            fine == kissTask[t].clean /\ ~harmed /\ ~mixed
            l == [AfterByte(kissTask[t]) EXCEPT !.clean = @ /\ ~harmed /\ ~mixed]
<1>1. kissTask \in [KissTasks -> KissTaskStates] /\ kissTask[t].at \in {"start", "type", "body"}
  BY DEF KissTypes, Put
<1>2. /\ kissTask' = [u \in KissTasks |->
           IF u = t THEN l ELSE IF Writing(u) THEN [kissTask[u] EXCEPT !.clean = FALSE] ELSE kissTask[u]]
      /\ kissFrames' = IF l.at = "unlock" THEN Append(kissFrames, [n |-> l.n, clean |-> l.clean]) ELSE kissFrames
  BY DEF Put
<1>3. AfterByte(kissTask[t]) \in KissTaskStates /\ AfterByte(kissTask[t]).n = kissTask[t].n
  BY <1>1, NextStep
<1>4. AfterByte(kissTask[t]).clean = kissTask[t].clean
  BY <1>1 DEF AfterByte, KissTaskStates
<1>5. l = [AfterByte(kissTask[t]) EXCEPT !.clean = fine]
  BY <1>3, <1>4 DEF KissTaskStates
<1>6. fine \in BOOLEAN
  OBVIOUS
<1>. HIDE DEF l, fine
<1>7. /\ l \in KissTaskStates /\ l.at = AfterByte(kissTask[t]).at /\ l.rest = AfterByte(kissTask[t]).rest
      /\ l.n = kissTask[t].n /\ l.clean = fine
  BY <1>3, <1>5, <1>6 DEF KissTaskStates
<1>8. ASSUME NEW u \in KissTasks \ {t}
      PROVE  /\ kissTask'[u] \in KissTaskStates
             /\ kissTask'[u].at = kissTask[u].at /\ kissTask'[u].n = kissTask[u].n
             /\ kissTask'[u].rest = kissTask[u].rest
             /\ Writing(u) => ~kissTask'[u].clean
             /\ ~Writing(u) => kissTask'[u] = kissTask[u]
  <2>1. kissTask[u] \in KissTaskStates /\ FALSE \in BOOLEAN
    BY <1>1
  <2>2. CASE Writing(u)
    <3>1. kissTask'[u] = [kissTask[u] EXCEPT !.clean = FALSE]
      BY <1>2, <2>2
    <3>. QED
      BY <2>1, <2>2, <3>1 DEF KissTaskStates
  <2>3. CASE ~Writing(u)
    <3>1. kissTask'[u] = kissTask[u]
      BY <1>2, <2>3
    <3>. QED
      BY <2>1, <2>3, <3>1
  <2>. QED
    BY <2>2, <2>3
<1>9. kissTask'[t] = l
  BY <1>2
<1>10. kissTask' \in [KissTasks -> KissTaskStates]
  <2>1. \A u \in KissTasks : kissTask'[u] \in KissTaskStates
    BY <1>7, <1>8, <1>9
  <2>2. kissTask' = [u \in KissTasks |-> kissTask'[u]]
    BY <1>2
  <2>. QED
    BY <2>1, <2>2
<1>11. fine <=> (kissTask[t].clean /\ ~harmed /\ \A u \in KissTasks \ {t} : ~Writing(u))
  BY DEF fine
<1>12. OwnStep(t, harmed)
  BY <1>1, <1>7, <1>9, <1>10, <1>11 DEF OwnStep
<1>13. OthersStep(t)
  BY <1>8 DEF OthersStep
<1>14. FrameStep(t)
  BY <1>2, <1>7, <1>9 DEF FrameStep
<1>. QED
  BY <1>12, <1>13, <1>14

(* Writing a byte keeps the types, whatever the receiver gets.               *)
LEMMA PutTypes ==
  ASSUME KissTypes, NEW t \in KissTasks, NEW harmed \in BOOLEAN, Put(t, harmed),
         RxFits(kissRx)', UNCHANGED <<kissLock, kissSent>>, kissFaults' \in Nat
  PROVE  KissTypes'
<1>1. /\ kissTask[t].at \in {"start", "type", "body"}
      /\ kissTask' \in [KissTasks -> KissTaskStates]
      /\ kissTask'[t].at = AfterByte(kissTask[t]).at
      /\ kissTask'[t].rest = AfterByte(kissTask[t]).rest
      /\ kissTask'[t].n = kissTask[t].n
  BY PutTasks DEF OwnStep
<1>2. kissTask[t] \in KissTaskStates /\ kissTask'[t] \in KissTaskStates
  BY <1>1 DEF KissTypes
<1>3. ASSUME NEW u \in KissTasks
      PROVE  /\ kissTask'[u].at # "idle" => kissTask'[u].n \in 1 .. kissSent
             /\ kissTask'[u].at \in {"lock", "start", "type"} => kissTask'[u].rest = KissPackets[kissTask'[u].n]
             /\ kissTask'[u].at \in {"lock", "start"} => kissTask'[u].clean
  <2>1. CASE u = t
    <3>1. kissTask[t].n \in 1 .. kissSent
      BY <1>1, TaskPacket
    <3>2. CASE kissTask[t].at = "start"
      <4>1. AfterByte(kissTask[t]).at = "type" /\ AfterByte(kissTask[t]).rest = kissTask[t].rest
        BY <1>2, <3>2, NextStep
      <4>2. kissTask[t].rest = KissPackets[kissTask[t].n]
        BY <3>2 DEF KissTypes
      <4>. QED
        BY <1>1, <2>1, <3>1, <4>1, <4>2
    <3>3. CASE kissTask[t].at # "start"
      <4>1. AfterByte(kissTask[t]).at \in {"body", "unlock"}
        BY <1>1, <1>2, <3>3, NextStep
      <4>. QED
        BY <1>1, <2>1, <3>1, <4>1
    <3>. QED
      BY <3>2, <3>3
  <2>2. CASE u # t
    <3>1. /\ kissTask'[u].at = kissTask[u].at /\ kissTask'[u].n = kissTask[u].n
          /\ kissTask'[u].rest = kissTask[u].rest
          /\ ~Writing(u) => kissTask'[u] = kissTask[u]
      BY <2>2, PutTasks DEF OthersStep
    <3>2. /\ kissTask[u].at # "idle" => kissTask[u].n \in 1 .. kissSent
          /\ kissTask[u].at \in {"lock", "start", "type"} => kissTask[u].rest = KissPackets[kissTask[u].n]
          /\ kissTask[u].at \in {"lock", "start"} => kissTask[u].clean
      BY DEF KissTypes
    <3>3. kissTask[u].at \in {"lock", "start"} => ~Writing(u)
      BY DEF Writing
    <3>. QED
      BY <3>1, <3>2, <3>3
  <2>. QED
    BY <2>1, <2>2
<1>4. kissFrames' \in Seq([n : 1 .. Len(KissPackets), clean : BOOLEAN])
  <2>1. kissFrames \in Seq([n : 1 .. Len(KissPackets), clean : BOOLEAN])
    BY DEF KissTypes
  <2>2. CASE kissTask'[t].at = "unlock"
    <3>. DEFINE frame == [n |-> kissTask[t].n, clean |-> kissTask'[t].clean]
    <3>1. kissFrames' = Append(kissFrames, frame)
      BY <2>2, PutTasks DEF FrameStep
    <3>2. kissTask[t].n \in 1 .. Len(KissPackets)
      <4>1. kissTask[t].n \in DOMAIN KissPackets
        BY <1>1, TaskPacket
      <4>. QED
        BY <4>1, KissAssumption
    <3>3. kissTask'[t].clean \in BOOLEAN
      BY <1>2 DEF KissTaskStates
    <3>4. frame \in [n : 1 .. Len(KissPackets), clean : BOOLEAN]
      BY <3>2, <3>3
    <3>. QED
      BY <2>1, <3>1, <3>4
  <2>3. CASE kissTask'[t].at # "unlock"
    <3>1. kissFrames' = kissFrames
      BY <2>3, PutTasks DEF FrameStep
    <3>. QED
      BY <2>1, <3>1
  <2>. QED
    BY <2>2, <2>3
<1>5. kissLock' \in BOOLEAN /\ kissSent' = kissSent /\ kissSent \in 0 .. Len(KissPackets)
  BY DEF KissTypes
<1>. QED
  BY <1>1, <1>3, <1>4, <1>5 DEF KissTypes

-----------------------------------------------------------------------------
(* The step of a clean frame for the receiver: what it has and what the task *)
(* has left still fit together, and the last byte brings the packet.         *)
LEMMA CleanStep ==
  ASSUME KissInv, NEW t \in KissTasks, kissTask[t].at \in {"start", "type", "body"},
         kissTask[t].clean, \A u \in KissTasks \ {t} : ~Writing(u),
         NEW l, l.at = AfterByte(kissTask[t]).at, l.rest = AfterByte(kissTask[t]).rest, l.n = kissTask[t].n,
         NEW s, s = KissByte(kissRx, NextByte(kissTask[t]), TRUE)
  PROVE  LET fits == LastClean /\ Len(KissPackets[l.n]) <= KissMtu IN
         /\ l.at # "unlock" => Tame(l, s) /\ (fits => Decoding(l, s))
         /\ l.at = "unlock" => RxReady(s) /\ (fits => s.up = Append(kissRx.up, KissPackets[l.n]))
<1>. DEFINE k == kissTask[t]
            p == KissPackets[k.n]
            fits == LastClean /\ Len(p) <= KissMtu
<1>1. /\ RxFits(kissRx) /\ k \in KissTaskStates /\ kissSent \in 0 .. Len(KissPackets)
      /\ k.rest \in Seq(KissBytes)
  BY DEF KissInv, KissTypes, KissTaskStates
<1>2. k.n \in 1 .. kissSent /\ k.n \in DOMAIN KissPackets /\ p \in Seq(KissBytes) /\ p # <<>>
  BY TaskPacket DEF KissInv
<1>3. k.at \in {"type", "body"} => Tame(k, kissRx) /\ (fits => Decoding(k, kissRx))
  BY DEF KissInv, Undisturbed, Writing
<1>4. CASE k.at = "start"
  <2>1. NextByte(k) = "FEND" /\ l.at = "type"
    BY <1>1, <1>4, NextStep
  <2>2. /\ s.mode \in {"not_started", "started"}
        /\ RxReady(kissRx) => s.mode = "started" /\ s.data = <<>> /\ s.first
    BY <1>1, <2>1, FrameStarts
  <2>3. LastClean => RxReady(kissRx)
    <3>1. \A u \in KissTasks : ~Writing(u)
      BY <1>4 DEF Writing
    <3>. QED
      BY <3>1 DEF KissInv, Between
  <2>4. Tame(l, s)
    BY <2>1, <2>2 DEF Tame
  <2>5. fits => Decoding(l, s)
    BY <2>1, <2>2, <2>3 DEF Decoding
  <2>. QED
    BY <2>1, <2>4, <2>5
<1>5. CASE k.at = "type"
  <2>1. NextByte(k) = "TNC_DATA" /\ l.at = "body" /\ l.rest = k.rest
    BY <1>1, <1>5, NextStep
  <2>2. k.rest = p
    BY <1>5 DEF KissInv, KissTypes
  <2>3. Tame(l, s) /\ (Decoding(k, kissRx) => Decoding(l, s))
    BY <1>1, <1>2, <1>3, <1>5, <2>1, <2>2, TypeByte
  <2>. QED
    BY <1>3, <1>5, <2>1, <2>3
<1>6. CASE k.at = "body" /\ k.rest = <<>>
  <2>1. NextByte(k) = "FEND" /\ l.at = "unlock"
    BY <1>1, <1>6, NextStep
  <2>2. RxReady(s) /\ (Decoding(k, kissRx) /\ Len(p) <= KissMtu => s.up = Append(kissRx.up, p))
    BY <1>1, <1>2, <1>3, <1>6, <2>1, LastByte
  <2>. QED
    BY <1>3, <1>6, <2>1, <2>2
<1>7. CASE k.at = "body" /\ k.rest # <<>> /\ k.rest[1] \in DOMAIN Transpose
  <2>1. NextByte(k) = "FESC" /\ l.at = "body" /\ l.rest = [k.rest EXCEPT ![1] = Transpose[@]]
    BY <1>1, <1>7, NextStep
  <2>2. Tame(l, s) /\ (Decoding(k, kissRx) /\ Len(p) <= KissMtu => Decoding(l, s))
    BY <1>1, <1>2, <1>3, <1>7, <2>1, EscapeByte
  <2>. QED
    BY <1>3, <1>7, <2>1, <2>2
<1>8. CASE k.at = "body" /\ k.rest # <<>> /\ k.rest[1] \notin DOMAIN Transpose
  <2>1. NextByte(k) = k.rest[1] /\ l.at = "body" /\ l.rest = Tail(k.rest)
    BY <1>1, <1>8, NextStep
  <2>2. k.rest[1] \notin {"FEND", "FESC"}
    BY <1>8 DEF Transpose
  <2>3. Tame(l, s) /\ (Decoding(k, kissRx) /\ Len(p) <= KissMtu => Decoding(l, s))
    BY <1>1, <1>2, <1>3, <1>8, <2>1, <2>2, PlainByte
  <2>. QED
    BY <1>3, <1>8, <2>1, <2>3
<1>. QED
  BY <1>4, <1>5, <1>6, <1>7, <1>8

(* What went up stays there.                                                *)
LEMMA GrowsKeeps ==
  ASSUME NEW r, r.up \in Seq(Seq(KissBytes)), NEW s, Grows(r, s)
  PROVE  \A j \in DOMAIN r.up : j \in DOMAIN s.up /\ s.up[j] = r.up[j]
<1>1. CASE s.up = r.up
  BY <1>1
<1>2. ASSUME NEW p \in Seq(KissBytes), s.up = Append(r.up, p)
      PROVE  \A j \in DOMAIN r.up : j \in DOMAIN s.up /\ s.up[j] = r.up[j]
  <2>1. /\ s.up \in Seq(Seq(KissBytes)) /\ Len(s.up) = Len(r.up) + 1 /\ Len(r.up) \in Nat
        /\ DOMAIN s.up = 1 .. Len(s.up) /\ DOMAIN r.up = 1 .. Len(r.up)
        /\ \A j \in 1 .. Len(r.up) : s.up[j] = r.up[j]
    BY <1>2, AppendProperties
  <2>2. ASSUME NEW j \in DOMAIN r.up PROVE j \in DOMAIN s.up /\ s.up[j] = r.up[j]
    <3>1. j \in 1 .. Len(r.up)
      BY <2>1, Zenon
    <3>2. j \in 1 .. Len(s.up)
      BY <2>1, <3>1
    <3>. QED
      BY <2>1, <3>1, <3>2, Zenon
  <2>. QED
    BY <2>2, Zenon
<1>. QED
  BY <1>1, <1>2 DEF Grows

WentUp(p, r) == \E j \in DOMAIN r.up : r.up[j] = p

LEMMA StillUp ==
  ASSUME KissTypes, Grows(kissRx, kissRx'), NEW p, WentUp(p, kissRx)
  PROVE  WentUp(p, kissRx')
<1>1. kissRx.up \in Seq(Seq(KissBytes))
  BY DEF KissTypes, RxFits, KissReceivers
<1>2. \A j \in DOMAIN kissRx.up : j \in DOMAIN kissRx'.up /\ kissRx'.up[j] = kissRx.up[j]
  BY <1>1, GrowsKeeps
<1>. QED
  BY <1>2 DEF WentUp

-----------------------------------------------------------------------------
(* The steps that touch neither the line nor the history.                    *)
LEMMA QuietStep ==
  ASSUME KissInv, UNCHANGED <<kissRx, kissFrames>>, kissFaults' = 0 => kissFaults = 0,
         \A u \in KissTasks : /\ Writing(u)' <=> Writing(u)
                              /\ Writing(u) => kissTask'[u] = kissTask[u]
  PROVE  /\ Undisturbed' /\ Between' /\ KissRecovers'
         /\ kissFaults' = 0 => /\ \A u \in KissTasks : Writing(u)' => kissTask'[u].clean
                               /\ \A i \in DOMAIN kissFrames' : kissFrames'[i].clean
<1>1. LastClean' <=> LastClean
  BY DEF LastClean
<1>2. Undisturbed'
  <2>. SUFFICES ASSUME NEW t \in KissTasks, Writing(t)', kissTask'[t].clean
                PROVE  /\ \A u \in KissTasks \ {t} : ~Writing(u)'
                       /\ Tame(kissTask'[t], kissRx')
                       /\ LastClean' /\ Len(KissPackets[kissTask'[t].n]) <= KissMtu =>
                            Decoding(kissTask'[t], kissRx')
    BY DEF Undisturbed
  <2>1. Writing(t) /\ kissTask'[t] = kissTask[t] /\ kissRx' = kissRx
    OBVIOUS
  <2>2. /\ \A u \in KissTasks \ {t} : ~Writing(u)
        /\ Tame(kissTask[t], kissRx)
        /\ LastClean /\ Len(KissPackets[kissTask[t].n]) <= KissMtu => Decoding(kissTask[t], kissRx)
    BY <2>1 DEF KissInv, Undisturbed
  <2>. QED
    BY <1>1, <2>1, <2>2
<1>3. Between'
  <2>1. RxReady(kissRx)' <=> RxReady(kissRx)
    BY DEF RxReady
  <2>. QED
    BY <1>1, <2>1 DEF KissInv, Between
<1>4. KissRecovers'
  BY DEF KissInv, KissRecovers, ReceivedFrame
<1>5. ASSUME kissFaults' = 0
      PROVE  /\ \A u \in KissTasks : Writing(u)' => kissTask'[u].clean
             /\ \A i \in DOMAIN kissFrames' : kissFrames'[i].clean
  BY <1>5 DEF KissInv, Exclusive
<1>. QED
  BY <1>2, <1>3, <1>4, <1>5

LEMMA SendStep == ASSUME KissInv, NEW t \in KissTasks, KissSend(t) PROVE KissInv'
<1>. DEFINE n == kissSent + 1
            k == [KissIdle EXCEPT !.at = "lock", !.n = n, !.rest = KissPackets[n]]
<1>1. /\ kissTask[t].at = "idle" /\ kissSent < Len(KissPackets) /\ kissSent' = n
      /\ kissTask' = [kissTask EXCEPT ![t] = k]
      /\ UNCHANGED <<kissLock, kissRx, kissFrames, kissFaults>>
  BY DEF KissSend
<1>2. KissTypes /\ kissSent \in 0 .. Len(KissPackets) /\ Len(KissPackets) \in Nat
      /\ kissTask \in [KissTasks -> KissTaskStates]
  BY KissAssumption DEF KissInv, KissTypes
<1>3. n \in 1 .. Len(KissPackets) /\ n \in Nat /\ KissPackets[n] \in Seq(KissBytes)
      /\ n \in 1 .. n /\ 1 .. kissSent \subseteq 1 .. n
  <2>1. n \in 1 .. Len(KissPackets) /\ n \in Nat
    BY <1>1, <1>2
  <2>2. KissPackets[n] \in Seq(KissBytes)
    BY <2>1, KissAssumption
  <2>. QED
    BY <1>2, <2>1, <2>2
<1>. HIDE DEF n
<1>4. k \in KissTaskStates /\ k.at = "lock" /\ k.n = n /\ k.rest = KissPackets[n] /\ k.clean
  BY <1>3 DEF KissIdle, KissTaskStates
<1>. HIDE DEF k
<1>5. /\ kissTask' \in [KissTasks -> KissTaskStates] /\ kissTask'[t] = k
      /\ \A u \in KissTasks \ {t} : kissTask'[u] = kissTask[u]
  BY <1>1, <1>2, <1>4
<1>6. KissTypes'
  <2>1. ASSUME NEW u \in KissTasks
        PROVE  /\ kissTask'[u].at # "idle" => kissTask'[u].n \in 1 .. n
               /\ kissTask'[u].at \in {"lock", "start", "type"} => kissTask'[u].rest = KissPackets[kissTask'[u].n]
               /\ kissTask'[u].at \in {"lock", "start"} => kissTask'[u].clean
    <3>1. CASE u = t
      BY <1>3, <1>4, <1>5, <3>1
    <3>2. CASE u # t
      BY <1>2, <1>3, <1>5, <3>2 DEF KissTypes
    <3>. QED
      BY <3>1, <3>2
  <2>2. n \in 0 .. Len(KissPackets)
    BY <1>3
  <2>3. RxFits(kissRx)'
    BY <1>1, <1>2 DEF KissTypes
  <2>. QED
    BY <1>1, <1>2, <1>5, <2>1, <2>2, <2>3 DEF KissTypes
<1>7. \A u \in KissTasks : /\ Writing(u)' <=> Writing(u)
                           /\ Writing(u) => kissTask'[u] = kissTask[u]
  BY <1>1, <1>4, <1>5 DEF Writing
<1>8. /\ Undisturbed' /\ Between' /\ KissRecovers'
      /\ kissFaults' = 0 => /\ \A u \in KissTasks : Writing(u)' => kissTask'[u].clean
                            /\ \A i \in DOMAIN kissFrames' : kissFrames'[i].clean
  BY <1>1, <1>7, QuietStep
<1>9. Exclusive'
  <2>1. \A u \in KissTasks : kissTask'[u].at \in Busy => kissTask'[u] = kissTask[u]
    BY <1>4, <1>5 DEF Busy
  <2>2. kissFaults' = 0 =>
          \A u \in KissTasks : kissTask'[u].at \in Busy =>
            ~kissLock' /\ \A v \in KissTasks \ {u} : kissTask'[v].at \notin Busy
    BY <1>1, <2>1 DEF KissInv, Exclusive
  <2>. QED
    BY <1>8, <2>2 DEF Exclusive
<1>. QED
  BY <1>6, <1>8, <1>9 DEF KissInv

LEMMA LockStep ==
  ASSUME KissInv, NEW t \in KissTasks, KissTakeLock(t) \/ KissTimeOut(t) PROVE KissInv'
<1>. DEFINE k == [kissTask[t] EXCEPT !.at = "start"]
<1>1. /\ kissTask[t].at = "lock" /\ kissTask' = [kissTask EXCEPT ![t].at = "start"] /\ kissLock' = FALSE
      /\ UNCHANGED <<kissRx, kissSent, kissFrames>>
      /\ \/ kissLock /\ kissFaults' = kissFaults
         \/ kissFaults' = kissFaults + 1
  BY DEF KissTakeLock, KissTimeOut, KissGoOn
<1>2. KissTypes /\ kissTask \in [KissTasks -> KissTaskStates] /\ kissFaults \in Nat
  BY DEF KissInv, KissTypes
<1>3. k \in KissTaskStates /\ k.at = "start" /\ k.n = kissTask[t].n /\ k.rest = kissTask[t].rest
      /\ k.clean = kissTask[t].clean
  BY <1>2 DEF KissTaskStates
<1>4. kissTask' = [kissTask EXCEPT ![t] = k]
  BY <1>1, <1>2
<1>. HIDE DEF k
<1>5. /\ kissTask' \in [KissTasks -> KissTaskStates] /\ kissTask'[t] = k
      /\ \A u \in KissTasks \ {t} : kissTask'[u] = kissTask[u]
  BY <1>2, <1>3, <1>4
<1>6. KissTypes'
  <2>1. ASSUME NEW u \in KissTasks
        PROVE  /\ kissTask'[u].at # "idle" => kissTask'[u].n \in 1 .. kissSent
               /\ kissTask'[u].at \in {"lock", "start", "type"} => kissTask'[u].rest = KissPackets[kissTask'[u].n]
               /\ kissTask'[u].at \in {"lock", "start"} => kissTask'[u].clean
    <3>1. CASE u = t
      BY <1>1, <1>2, <1>3, <1>5, <3>1 DEF KissTypes
    <3>2. CASE u # t
      BY <1>2, <1>5, <3>2 DEF KissTypes
    <3>. QED
      BY <3>1, <3>2
  <2>2. RxFits(kissRx)' /\ kissFaults' \in Nat
    BY <1>1, <1>2 DEF KissTypes
  <2>. QED
    BY <1>1, <1>2, <1>5, <2>1, <2>2 DEF KissTypes
<1>7. \A u \in KissTasks : /\ Writing(u)' <=> Writing(u)
                           /\ Writing(u) => kissTask'[u] = kissTask[u]
  BY <1>1, <1>3, <1>5 DEF Writing
<1>8. kissFaults' = 0 => kissFaults = 0 /\ kissLock
  BY <1>1, <1>2
<1>9. /\ Undisturbed' /\ Between' /\ KissRecovers'
      /\ kissFaults' = 0 => /\ \A u \in KissTasks : Writing(u)' => kissTask'[u].clean
                            /\ \A i \in DOMAIN kissFrames' : kissFrames'[i].clean
  BY <1>1, <1>7, <1>8, QuietStep
<1>10. Exclusive'
  <2>1. kissFaults' = 0 => \A u \in KissTasks : kissTask[u].at \notin Busy
    BY <1>8 DEF KissInv, Exclusive
  <2>2. kissFaults' = 0 =>
          \A u \in KissTasks : kissTask'[u].at \in Busy =>
            ~kissLock' /\ \A v \in KissTasks \ {u} : kissTask'[v].at \notin Busy
    BY <1>1, <1>5, <2>1
  <2>. QED
    BY <1>9, <2>2 DEF Exclusive
<1>. QED
  BY <1>6, <1>9, <1>10 DEF KissInv

LEMMA UnlockStep == ASSUME KissInv, NEW t \in KissTasks, KissUnlock(t) PROVE KissInv'
<1>1. /\ kissTask[t].at = "unlock" /\ kissTask' = [kissTask EXCEPT ![t] = KissIdle] /\ kissLock' = TRUE
      /\ UNCHANGED <<kissRx, kissSent, kissFrames, kissFaults>>
  BY DEF KissUnlock
<1>2. KissTypes /\ kissTask \in [KissTasks -> KissTaskStates]
  BY DEF KissInv, KissTypes
<1>3. KissIdle \in KissTaskStates /\ KissIdle.at = "idle"
  BY DEF KissIdle, KissTaskStates
<1>4. /\ kissTask' \in [KissTasks -> KissTaskStates] /\ kissTask'[t] = KissIdle
      /\ \A u \in KissTasks \ {t} : kissTask'[u] = kissTask[u]
  BY <1>1, <1>2, <1>3
<1>5. KissTypes'
  <2>1. ASSUME NEW u \in KissTasks
        PROVE  /\ kissTask'[u].at # "idle" => kissTask'[u].n \in 1 .. kissSent
               /\ kissTask'[u].at \in {"lock", "start", "type"} => kissTask'[u].rest = KissPackets[kissTask'[u].n]
               /\ kissTask'[u].at \in {"lock", "start"} => kissTask'[u].clean
    <3>1. CASE u = t
      BY <1>3, <1>4, <3>1
    <3>2. CASE u # t
      BY <1>2, <1>4, <3>2 DEF KissTypes
    <3>. QED
      BY <3>1, <3>2
  <2>2. RxFits(kissRx)'
    BY <1>1, <1>2 DEF KissTypes
  <2>. QED
    BY <1>1, <1>2, <1>4, <2>1, <2>2 DEF KissTypes
<1>6. \A u \in KissTasks : /\ Writing(u)' <=> Writing(u)
                           /\ Writing(u) => kissTask'[u] = kissTask[u]
  BY <1>1, <1>3, <1>4 DEF Writing
<1>7. /\ Undisturbed' /\ Between' /\ KissRecovers'
      /\ kissFaults' = 0 => /\ \A u \in KissTasks : Writing(u)' => kissTask'[u].clean
                            /\ \A i \in DOMAIN kissFrames' : kissFrames'[i].clean
  BY <1>1, <1>6, QuietStep
<1>8. Exclusive'
  <2>1. "unlock" \in Busy /\ KissIdle.at \notin Busy
    BY <1>3 DEF Busy
  <2>2. kissFaults' = 0 => \A u \in KissTasks : kissTask'[u].at \notin Busy
    BY <1>1, <1>4, <2>1 DEF KissInv, Exclusive
  <2>. QED
    BY <1>7, <2>2 DEF Exclusive
<1>. QED
  BY <1>5, <1>7, <1>8 DEF KissInv

(* A byte that arrives as it was written.                                   *)
LEMMA PutStep == ASSUME KissInv, NEW t \in KissTasks, KissPut(t) PROVE KissInv'
<1>. DEFINE k == kissTask[t]
            l == kissTask'[t]
            p == KissPackets[k.n]
            alone == \A u \in KissTasks \ {t} : ~Writing(u)
<1>1. /\ Put(t, FALSE) /\ kissRx' = KissByte(kissRx, NextByte(k), TRUE)
      /\ UNCHANGED <<kissLock, kissSent, kissFaults>>
  BY DEF KissPut
<1>2. KissTypes /\ RxFits(kissRx) /\ k \in KissTaskStates /\ kissFaults \in Nat /\ FALSE \in BOOLEAN
  BY DEF KissInv, KissTypes
<1>3. OwnStep(t, FALSE) /\ OthersStep(t) /\ FrameStep(t)
  BY <1>1, <1>2, PutTasks
<1>4. /\ k.at \in {"start", "type", "body"} /\ l.at \in {"type", "body", "unlock"} /\ l.n = k.n
      /\ l.at = AfterByte(k).at /\ l.rest = AfterByte(k).rest
      /\ l.clean <=> k.clean /\ alone
      /\ l.at = "unlock" => k.at = "body"
  <2>1. /\ k.at \in {"start", "type", "body"} /\ l.n = k.n
        /\ l.at = AfterByte(k).at /\ l.rest = AfterByte(k).rest
        /\ l.clean <=> k.clean /\ alone
    BY <1>3 DEF OwnStep
  <2>2. /\ k.at = "start" => AfterByte(k).at = "type"
        /\ k.at = "type" => AfterByte(k).at = "body"
        /\ k.at = "body" => AfterByte(k).at \in {"body", "unlock"}
    BY <1>2, <2>1, NextStep
  <2>. QED
    BY <2>1, <2>2
<1>5. RxFits(kissRx') /\ Grows(kissRx, kissRx')
  <2>1. NextByte(k) \in KissBytes
    BY <1>2, <1>4, NextStep
  <2>. QED
    BY <1>1, <1>2, <2>1, KissByteFits
<1>6. ASSUME l.clean
      PROVE  /\ l.at # "unlock" => /\ Tame(l, kissRx')
                                   /\ LastClean /\ Len(p) <= KissMtu => Decoding(l, kissRx')
             /\ l.at = "unlock" => /\ RxReady(kissRx')
                                   /\ LastClean /\ Len(p) <= KissMtu => kissRx'.up = Append(kissRx.up, p)
  BY <1>1, <1>4, <1>6, CleanStep
<1>7. KissTypes'
  BY <1>1, <1>2, <1>5, PutTypes
<1>8. /\ l.at = "unlock" => kissFrames' = Append(kissFrames, [n |-> k.n, clean |-> l.clean])
      /\ l.at # "unlock" => kissFrames' = kissFrames
  BY <1>3 DEF FrameStep
<1>9. kissFrames \in Seq([n : 1 .. Len(KissPackets), clean : BOOLEAN])
      /\ [n |-> k.n, clean |-> l.clean] \in [n : 1 .. Len(KissPackets), clean : BOOLEAN]
  <2>1. k.n \in 1 .. Len(KissPackets)
    <3>1. k.n \in DOMAIN KissPackets
      BY <1>2, <1>4, TaskPacket
    <3>. QED
      BY <3>1, KissAssumption
  <2>2. l.clean \in BOOLEAN
    BY <1>3 DEF OwnStep, KissTaskStates
  <2>. QED
    BY <1>2, <2>1, <2>2 DEF KissTypes
<1>10. l.at = "unlock" =>
         /\ DOMAIN kissFrames' = 1 .. Len(kissFrames) + 1 /\ Len(kissFrames') = Len(kissFrames) + 1
         /\ kissFrames'[Len(kissFrames) + 1].clean = l.clean /\ kissFrames'[Len(kissFrames) + 1].n = k.n
         /\ \A i \in 1 .. Len(kissFrames) : kissFrames'[i] = kissFrames[i]
         /\ kissFrames' # <<>>
  <2>. DEFINE f == [n |-> k.n, clean |-> l.clean]
  <2>1. f.n = k.n /\ f.clean = l.clean
    OBVIOUS
  <2>. SUFFICES ASSUME l.at = "unlock"
                PROVE  /\ DOMAIN kissFrames' = 1 .. Len(kissFrames) + 1
                       /\ Len(kissFrames') = Len(kissFrames) + 1
                       /\ kissFrames'[Len(kissFrames) + 1] = f
                       /\ \A i \in 1 .. Len(kissFrames) : kissFrames'[i] = kissFrames[i]
                       /\ kissFrames' # <<>>
    BY <2>1
  <2>2. kissFrames' = Append(kissFrames, f)
    BY <1>8
  <2>. HIDE DEF f
  <2>3. /\ kissFrames' \in Seq([n : 1 .. Len(KissPackets), clean : BOOLEAN])
        /\ Len(kissFrames') = Len(kissFrames) + 1 /\ Len(kissFrames) \in Nat
        /\ kissFrames'[Len(kissFrames) + 1] = f
        /\ \A i \in 1 .. Len(kissFrames) : kissFrames'[i] = kissFrames[i]
    BY <1>9, <2>2, AppendProperties DEF f
  <2>. QED
    BY <2>3
<1>11. \A u \in KissTasks \ {t} : (Writing(u)' <=> Writing(u)) /\ (Writing(u) => ~kissTask'[u].clean)
  BY <1>3 DEF OthersStep, Writing
<1>12. Undisturbed'
  <2>. SUFFICES ASSUME NEW u \in KissTasks, Writing(u)', kissTask'[u].clean
                PROVE  /\ \A v \in KissTasks \ {u} : ~Writing(v)'
                       /\ Tame(kissTask'[u], kissRx')
                       /\ LastClean' /\ Len(KissPackets[kissTask'[u].n]) <= KissMtu =>
                            Decoding(kissTask'[u], kissRx')
    BY DEF Undisturbed
  <2>1. u = t
    BY <1>11
  <2>2. l.at # "unlock" /\ l.clean
    BY <2>1 DEF Writing
  <2>3. LastClean' <=> LastClean
    BY <1>8, <2>2 DEF LastClean
  <2>4. \A v \in KissTasks \ {u} : ~Writing(v)'
    BY <1>4, <1>11, <2>1, <2>2
  <2>. QED
    BY <1>4, <1>6, <2>1, <2>2, <2>3, <2>4
<1>13. Between'
  <2>. SUFFICES ASSUME \A u \in KissTasks : ~Writing(u)', LastClean' PROVE RxReady(kissRx')
    BY DEF Between, RxReady
  <2>1. l.at = "unlock"
    BY <1>4 DEF Writing
  <2>2. l.clean
    BY <1>10, <2>1 DEF LastClean
  <2>. QED
    BY <1>6, <2>1, <2>2
<1>14. kissFaults = 0 => k.clean /\ alone /\ l.clean /\ \A i \in DOMAIN kissFrames : kissFrames[i].clean
  <2>. SUFFICES ASSUME kissFaults = 0
                PROVE  k.clean /\ alone /\ \A i \in DOMAIN kissFrames : kissFrames[i].clean
    BY <1>4
  <2>1. k.at \in Busy /\ \A u \in KissTasks : Writing(u) => kissTask[u].at \in Busy
    BY <1>4 DEF Busy, Writing
  <2>2. alone
    BY <2>1 DEF KissInv, Exclusive
  <2>3. k.clean
    <3>1. CASE k.at = "start"
      BY <1>2, <3>1 DEF KissTypes
    <3>2. CASE Writing(t)
      BY <3>2 DEF KissInv, Exclusive
    <3>. QED
      BY <1>4, <3>1, <3>2 DEF Writing
  <2>. QED
    BY <2>2, <2>3 DEF KissInv, Exclusive
<1>15. Exclusive'
  <2>. SUFFICES ASSUME kissFaults = 0
                PROVE  /\ \A u \in KissTasks : kissTask'[u].at \in Busy =>
                            ~kissLock' /\ \A v \in KissTasks \ {u} : kissTask'[v].at \notin Busy
                       /\ \A u \in KissTasks : Writing(u)' => kissTask'[u].clean
                       /\ \A i \in DOMAIN kissFrames' : kissFrames'[i].clean
    BY <1>1 DEF Exclusive
  <2>1. \A u \in KissTasks : kissTask'[u].at \in Busy <=> kissTask[u].at \in Busy
    BY <1>3, <1>4 DEF OthersStep, Busy
  <2>2. \A u \in KissTasks : kissTask'[u].at \in Busy =>
          ~kissLock' /\ \A v \in KissTasks \ {u} : kissTask'[v].at \notin Busy
    BY <1>1, <2>1 DEF KissInv, Exclusive
  <2>3. \A u \in KissTasks : Writing(u)' => kissTask'[u].clean
    BY <1>11, <1>14
  <2>4. \A i \in DOMAIN kissFrames' : kissFrames'[i].clean
    <3>1. CASE l.at = "unlock"
      <4>1. DOMAIN kissFrames = 1 .. Len(kissFrames) /\ Len(kissFrames) \in Nat
        BY <1>9
      <4>2. \A i \in 1 .. Len(kissFrames) + 1 : i \in 1 .. Len(kissFrames) \/ i = Len(kissFrames) + 1
        BY <4>1
      <4>. QED
        BY <1>10, <1>14, <3>1, <4>1, <4>2
    <3>2. CASE l.at # "unlock"
      BY <1>8, <1>14, <3>2
    <3>. QED
      BY <3>1, <3>2
  <2>. QED
    BY <2>2, <2>3, <2>4
<1>16. KissRecovers'
  <2>. SUFFICES ASSUME NEW i \in DOMAIN kissFrames',
                       \/ kissFaults' = 0
                       \/ kissFrames'[i].clean /\ (i > 1 => kissFrames'[i - 1].clean),
                       Len(KissPackets[kissFrames'[i].n]) <= KissMtu
                PROVE  WentUp(KissPackets[kissFrames'[i].n], kissRx')
    BY DEF KissRecovers, ReceivedFrame, WentUp
  <2>1. DOMAIN kissFrames = 1 .. Len(kissFrames) /\ Len(kissFrames) \in Nat
    BY <1>9
  <2>2. CASE i \in DOMAIN kissFrames
    <3>1. /\ kissFrames'[i] = kissFrames[i]
          /\ i > 1 => kissFrames'[i - 1] = kissFrames[i - 1]
      <4>1. i > 1 => i - 1 \in 1 .. Len(kissFrames)
        BY <2>1, <2>2
      <4>. QED
        BY <1>8, <1>10, <2>1, <2>2, <4>1
    <3>2. WentUp(KissPackets[kissFrames[i].n], kissRx)
      BY <1>1, <2>2, <3>1 DEF KissInv, KissRecovers, ReceivedFrame, WentUp
    <3>3. WentUp(KissPackets[kissFrames[i].n], kissRx')
      BY <1>2, <1>5, <3>2, StillUp
    <3>. QED
      BY <3>1, <3>3
  <2>3. CASE i \notin DOMAIN kissFrames
    <3>1. l.at = "unlock" /\ i = Len(kissFrames) + 1
      BY <1>8, <1>10, <2>1, <2>3
    <3>2. kissFrames'[i].clean = l.clean /\ kissFrames'[i].n = k.n
      BY <1>10, <3>1
    <3>3. l.clean /\ LastClean
      <4>1. CASE kissFaults = 0
        <5>1. kissFrames # <<>> => Len(kissFrames) \in DOMAIN kissFrames
          BY <1>9
        <5>. QED
          BY <1>14, <4>1, <5>1 DEF LastClean
      <4>2. CASE kissFaults # 0
        <5>1. l.clean /\ (i > 1 => kissFrames'[i - 1].clean)
          BY <1>1, <3>2, <4>2
        <5>2. kissFrames # <<>> => Len(kissFrames) \in 1 .. Len(kissFrames) /\ i > 1 /\ i - 1 = Len(kissFrames)
          BY <1>9, <3>1
        <5>3. kissFrames # <<>> => kissFrames'[i - 1] = kissFrames[Len(kissFrames)]
          BY <1>10, <3>1, <5>2
        <5>. QED
          BY <5>1, <5>2, <5>3 DEF LastClean
      <4>. QED
        BY <4>1, <4>2
    <3>4. kissRx'.up = Append(kissRx.up, p)
      BY <1>6, <3>1, <3>2, <3>3
    <3>5. kissRx.up \in Seq(Seq(KissBytes)) /\ p \in Seq(KissBytes)
      BY <1>2, <1>4, TaskPacket DEF RxFits, KissReceivers
    <3>6. Len(kissRx.up) + 1 \in DOMAIN kissRx'.up /\ kissRx'.up[Len(kissRx.up) + 1] = p
      BY <3>4, <3>5
    <3>. QED
      BY <3>2, <3>6 DEF WentUp
  <2>. QED
    BY <2>2, <2>3
<1>. QED
  BY <1>7, <1>12, <1>13, <1>15, <1>16 DEF KissInv

(* A byte that is lost, changed or finds no buffer.                          *)
LEMMA FaultStep == ASSUME KissInv, NEW t \in KissTasks, KissFault(t) PROVE KissInv'
<1>. DEFINE k == kissTask[t]
            l == kissTask'[t]
<1>1. /\ Put(t, TRUE) /\ UNCHANGED <<kissLock, kissSent>> /\ kissFaults' = kissFaults + 1
      /\ \/ kissRx' = kissRx
         \/ \E b \in {"FEND", "FESC", "TFEND", "x"} : kissRx' = KissByte(kissRx, b, TRUE)
         \/ kissRx' = KissByte(kissRx, NextByte(k), FALSE)
  BY DEF KissFault
<1>2. /\ KissTypes /\ RxFits(kissRx) /\ k \in KissTaskStates /\ kissFaults \in Nat
      /\ TRUE \in BOOLEAN /\ FALSE \in BOOLEAN
  BY DEF KissInv, KissTypes
<1>3. OwnStep(t, TRUE) /\ OthersStep(t) /\ FrameStep(t)
  BY <1>1, <1>2, PutTasks
<1>4. k.at \in {"start", "type", "body"} /\ l.at \in {"type", "body", "unlock"} /\ ~l.clean
  <2>1. k.at \in {"start", "type", "body"} /\ l.at = AfterByte(k).at /\ ~l.clean
    BY <1>3 DEF OwnStep
  <2>2. /\ k.at = "start" => AfterByte(k).at = "type"
        /\ k.at = "type" => AfterByte(k).at = "body"
        /\ k.at = "body" => AfterByte(k).at \in {"body", "unlock"}
    BY <1>2, <2>1, NextStep
  <2>. QED
    BY <2>1, <2>2
<1>5. RxFits(kissRx') /\ Grows(kissRx, kissRx')
  <2>1. CASE kissRx' = kissRx
    BY <1>2, <2>1 DEF Grows
  <2>2. CASE \E b \in {"FEND", "FESC", "TFEND", "x"} : kissRx' = KissByte(kissRx, b, TRUE)
    <3>1. {"FEND", "FESC", "TFEND", "x"} \subseteq KissBytes
      BY DEF KissBytes
    <3>. QED
      BY <1>2, <2>2, <3>1, KissByteFits
  <2>3. CASE kissRx' = KissByte(kissRx, NextByte(k), FALSE)
    <3>1. NextByte(k) \in KissBytes
      BY <1>2, <1>4, NextStep
    <3>. QED
      BY <1>2, <2>3, <3>1, KissByteFits
  <2>. QED
    BY <1>1, <2>1, <2>2, <2>3
<1>6. kissFaults' \in Nat /\ kissFaults' # 0
  BY <1>1, <1>2
<1>7. KissTypes'
  BY <1>1, <1>2, <1>5, <1>6, PutTypes
<1>8. \A u \in KissTasks : ~(Writing(u)' /\ kissTask'[u].clean)
  BY <1>3, <1>4 DEF OthersStep, Writing
<1>9. Undisturbed'
  BY <1>8 DEF Undisturbed
<1>10. kissFrames \in Seq([n : 1 .. Len(KissPackets), clean : BOOLEAN])
      /\ [n |-> k.n, clean |-> l.clean] \in [n : 1 .. Len(KissPackets), clean : BOOLEAN]
  <2>1. k.n \in 1 .. Len(KissPackets)
    <3>1. k.n \in DOMAIN KissPackets
      BY <1>2, <1>4, TaskPacket
    <3>. QED
      BY <3>1, KissAssumption
  <2>2. l.clean \in BOOLEAN
    BY <1>3 DEF OwnStep, KissTaskStates
  <2>. QED
    BY <1>2, <2>1, <2>2 DEF KissTypes
<1>11. /\ l.at = "unlock" => kissFrames' = Append(kissFrames, [n |-> k.n, clean |-> l.clean])
       /\ l.at # "unlock" => kissFrames' = kissFrames
  BY <1>3 DEF FrameStep
<1>12. l.at = "unlock" =>
         /\ DOMAIN kissFrames' = 1 .. Len(kissFrames) + 1 /\ Len(kissFrames') = Len(kissFrames) + 1
         /\ ~kissFrames'[Len(kissFrames) + 1].clean
         /\ \A i \in 1 .. Len(kissFrames) : kissFrames'[i] = kissFrames[i]
         /\ kissFrames' # <<>>
  BY <1>4, <1>10, <1>11
<1>13. Between'
  <2>1. Writing(t)' \/ ~LastClean'
    <3>1. CASE l.at = "unlock"
      BY <1>12, <3>1 DEF LastClean
    <3>2. CASE l.at # "unlock"
      BY <1>4, <3>2 DEF Writing
    <3>. QED
      BY <3>1, <3>2
  <2>. QED
    BY <2>1 DEF Between
<1>14. Exclusive'
  BY <1>6 DEF Exclusive
<1>15. KissRecovers'
  <2>. SUFFICES ASSUME NEW i \in DOMAIN kissFrames',
                       kissFrames'[i].clean /\ (i > 1 => kissFrames'[i - 1].clean),
                       Len(KissPackets[kissFrames'[i].n]) <= KissMtu
                PROVE  WentUp(KissPackets[kissFrames'[i].n], kissRx')
    BY <1>6 DEF KissRecovers, ReceivedFrame, WentUp
  <2>1. DOMAIN kissFrames = 1 .. Len(kissFrames) /\ Len(kissFrames) \in Nat
    BY <1>10
  <2>2. i \in DOMAIN kissFrames
    <3>1. CASE l.at = "unlock"
      <4>1. i # Len(kissFrames) + 1 /\ i \in 1 .. Len(kissFrames) + 1
        BY <1>12, <3>1
      <4>. QED
        BY <2>1, <4>1
    <3>2. CASE l.at # "unlock"
      BY <1>11, <3>2
    <3>. QED
      BY <3>1, <3>2
  <2>3. /\ kissFrames'[i] = kissFrames[i]
        /\ i > 1 => kissFrames'[i - 1] = kissFrames[i - 1]
    <3>1. i > 1 => i - 1 \in 1 .. Len(kissFrames)
      BY <2>1, <2>2
    <3>. QED
      BY <1>11, <1>12, <2>1, <2>2, <3>1
  <2>4. WentUp(KissPackets[kissFrames[i].n], kissRx)
    BY <2>2, <2>3 DEF KissInv, KissRecovers, ReceivedFrame, WentUp
  <2>5. WentUp(KissPackets[kissFrames[i].n], kissRx')
    BY <1>2, <1>5, <2>4, StillUp
  <2>. QED
    BY <2>3, <2>5
<1>. QED
  BY <1>7, <1>9, <1>13, <1>14, <1>15 DEF KissInv

-----------------------------------------------------------------------------
(* No task sends yet and the receiver has not started.                       *)
LEMMA KissStart == KissInit => KissInv
<1>. SUFFICES ASSUME KissInit PROVE KissInv
  OBVIOUS
<1>1. /\ kissLock = TRUE /\ kissTask = [t \in KissTasks |-> KissIdle] /\ kissSent = 0
      /\ kissRx = [mode |-> "not_started", data |-> <<>>, first |-> FALSE, packet |-> FALSE, up |-> <<>>]
      /\ kissFrames = <<>> /\ kissFaults = 0
  BY DEF KissInit
<1>2. KissIdle \in KissTaskStates /\ KissIdle.at = "idle"
  BY DEF KissIdle, KissTaskStates
<1>3. \A t \in KissTasks : kissTask[t] = KissIdle
  BY <1>1
<1>4. KissTypes
  <2>1. RxFits(kissRx)
    <3>1. kissRx \in KissReceivers
      BY <1>1 DEF KissReceivers
    <3>2. Len(kissRx.data) = 0 /\ kissRx.mode = "not_started" /\ KissMtu \in Nat
      BY <1>1, KissAssumption
    <3>. QED
      BY <3>1, <3>2 DEF RxFits
  <2>2. kissSent \in 0 .. Len(KissPackets)
    BY <1>1, KissAssumption
  <2>3. kissTask \in [KissTasks -> KissTaskStates]
    BY <1>1, <1>2
  <2>. QED
    BY <1>1, <1>2, <1>3, <2>1, <2>2, <2>3 DEF KissTypes
<1>5. \A t \in KissTasks : ~Writing(t) /\ kissTask[t].at \notin Busy
  BY <1>2, <1>3 DEF Writing, Busy
<1>6. RxReady(kissRx)
  BY <1>1 DEF RxReady
<1>. QED
  BY <1>1, <1>4, <1>5, <1>6 DEF KissInv, Undisturbed, Between, Exclusive, KissRecovers

(* Every step keeps the invariant.                                           *)
LEMMA KissStep == KissInv /\ [KissNext]_kissVars => KissInv'
<1>. SUFFICES ASSUME KissInv, [KissNext]_kissVars PROVE KissInv'
  OBVIOUS
<1>1. CASE UNCHANGED kissVars
  BY <1>1 DEF kissVars, KissInv, KissTypes, RxFits, Undisturbed, Between, Exclusive, KissRecovers,
              ReceivedFrame, LastClean, RxReady, Tame, Decoding, Writing
<1>2. ASSUME NEW t \in KissTasks, KissSend(t) PROVE KissInv'
  BY <1>2, SendStep
<1>3. ASSUME NEW t \in KissTasks, KissTakeLock(t) \/ KissTimeOut(t) PROVE KissInv'
  BY <1>3, LockStep
<1>4. ASSUME NEW t \in KissTasks, KissPut(t) PROVE KissInv'
  BY <1>4, PutStep
<1>5. ASSUME NEW t \in KissTasks, KissFault(t) PROVE KissInv'
  BY <1>5, FaultStep
<1>6. ASSUME NEW t \in KissTasks, KissUnlock(t) PROVE KissInv'
  BY <1>6, UnlockStep
<1>. QED
  BY <1>1, <1>2, <1>3, <1>4, <1>5, <1>6 DEF KissNext

(* KissInv is inductive: it holds at the start and every step keeps it.       *)
THEOREM KissInvariance == KissSpec => []KissInv
BY KissStart, KissStep, PTL DEF KissSpec

(* Without faults every frame that fits the receiver arrives; after any       *)
(* faults, the second of two undisturbed frames does.                       *)
THEOREM FramesRecover == KissSpec => []KissRecovers
<1>1. KissInv => KissRecovers
  BY DEF KissInv
<1>. QED
  BY <1>1, KissInvariance, PTL

-----------------------------------------------------------------------------
(* A byte that is in one packet only, once, and that neither the framing nor *)
(* a fault makes: where it went the packet went.                             *)
Mark(n, b) ==
  /\ b \in KissPlain \ {"FEND", "FESC", "TFEND", "TFESC", "TNC_DATA", "x"}
  /\ \E i \in DOMAIN KissPackets[n] : KissPackets[n][i] = b
  /\ \A i, j \in DOMAIN KissPackets[n] : KissPackets[n][i] = b /\ KissPackets[n][j] = b => i = j
  /\ \A m \in DOMAIN KissPackets \ {n} : \A i \in DOMAIN KissPackets[m] : KissPackets[m][i] # b

(* No packet is made from others.                                           *)
Marked == \A n \in DOMAIN KissPackets : \E b : Mark(n, b)

Has(seq, b) == \E i \in DOMAIN seq : seq[i] = b

(* The places of b: what task t has still to write, what the receiver has    *)
(* of a frame, and what went up.                                            *)
TaskHas(b, t, i) == /\ kissTask[t].at \in {"lock", "start", "type", "body"}
                    /\ i \in DOMAIN kissTask[t].rest /\ kissTask[t].rest[i] = b
RxHas(b, r) == r.mode \in {"started", "escaped"} /\ Has(r.data, b)
UpHas(b, r) == \E j \in DOMAIN r.up : Has(r.up[j], b)

(* It is at one of them at most, and nowhere before its packet is sent.      *)
OnePlaceOf(n, b) ==
  /\ \A t, u \in KissTasks : \A i, j \in Nat : TaskHas(b, t, i) /\ TaskHas(b, u, j) => t = u /\ i = j
  /\ (\E t \in KissTasks : \E i \in Nat : TaskHas(b, t, i)) => ~RxHas(b, kissRx) /\ ~UpHas(b, kissRx)
  /\ RxHas(b, kissRx) => ~UpHas(b, kissRx)
  /\ \A i, j \in DOMAIN kissRx.up : Has(kissRx.up[i], b) /\ Has(kissRx.up[j], b) => i = j
  /\ kissSent < n => /\ \A t \in KissTasks : \A i \in Nat : ~TaskHas(b, t, i)
                     /\ ~RxHas(b, kissRx) /\ ~UpHas(b, kissRx)

MarksOnce == \A n \in DOMAIN KissPackets : \A b : Mark(n, b) => OnePlaceOf(n, b)
UpIsSent == \A j \in DOMAIN kissRx.up : \E n \in DOMAIN KissPackets : kissRx.up[j] = KissPackets[n]

(* What byte c does to b where the receiver was r and is s then.             *)
Hears(b, c, r, s) ==
  /\ RxHas(b, s) => RxHas(b, r) \/ c = b
  /\ \/ s.up = r.up
     \/ /\ \E n \in DOMAIN KissPackets : s.up = Append(r.up, KissPackets[n])
                                         /\ (Has(KissPackets[n], b) => RxHas(b, r))
        /\ ~RxHas(b, s)

(* A mark comes to the receiver only as a byte; a frame that is passed on    *)
(* takes it along.                                                          *)
LEMMA ByteMarks ==
  ASSUME NEW r, RxFits(r), NEW c \in KissBytes, NEW memory \in BOOLEAN,
         NEW b, b \notin {"FEND", "FESC"}, kissSent \in 0 .. Len(KissPackets)
  PROVE  Hears(b, c, r, KissByte(r, c, memory))
<1>. DEFINE q == NoOverflow(r)
            s == KissByte(r, c, memory)
<1>. SUFFICES /\ RxHas(b, s) => RxHas(b, r) \/ c = b
              /\ \/ s.up = r.up
                 \/ /\ \E n \in DOMAIN KissPackets : s.up = Append(r.up, KissPackets[n])
                                                     /\ (Has(KissPackets[n], b) => RxHas(b, r))
                    /\ ~RxHas(b, s)
  BY DEF Hears
<1>1. /\ q \in KissReceivers /\ q.up = r.up
      /\ \/ q.mode = r.mode /\ q.data = r.data
         \/ q.mode = "not_started"
  BY NoOverflowFits DEF RxFits
<1>2. RxHas(b, q) => RxHas(b, r)
  BY <1>1 DEF RxHas
<1>3. q.data \in Seq(KissBytes) /\ ~Has(<<>>, b)
  BY <1>1 DEF KissReceivers, Has
<1>4. ASSUME NEW x \in KissBytes, Has(Append(q.data, x), b) PROVE Has(q.data, b) \/ x = b
  <2>1. PICK i \in DOMAIN Append(q.data, x) : Append(q.data, x)[i] = b
    BY <1>4 DEF Has
  <2>2. CASE i \in DOMAIN q.data
    BY <1>3, <2>1, <2>2 DEF Has
  <2>3. CASE i = Len(q.data) + 1
    BY <1>3, <2>1, <2>3
  <2>. QED
    BY <1>3, <2>1, <2>2, <2>3
<1>. HIDE DEF q
<1>5. CASE q.mode = "not_started"
  <2>1. s = NotStarted(q, c, memory)
    BY <1>5 DEF KissByte, q
  <2>2. s.up = q.up /\ (s.mode \in {"not_started", "skip_frame"} \/ s.data = <<>>)
    BY <1>1, <1>5, <2>1 DEF NotStarted, KissReceivers
  <2>. HIDE DEF s
  <2>3. ~RxHas(b, s)
    BY <1>3, <2>2 DEF RxHas
  <2>. QED
    BY <1>1, <2>2, <2>3 DEF s
<1>6. CASE q.mode = "started" /\ c = "FEND"
  <2>1. s = EndOfFrame(q)
    BY <1>6 DEF KissByte, Started, q
  <2>2. CASE q.data = <<>>
    <3>1. s = q
      BY <2>1, <2>2 DEF EndOfFrame
    <3>. QED
      BY <1>1, <1>2, <3>1
  <2>3. CASE q.data # <<>> /\ Len(q.data) >= KissMinLength /\ \E n \in 1 .. kissSent : KissPackets[n] = q.data
    <3>1. s = [q EXCEPT !.up = Append(@, q.data), !.packet = FALSE, !.mode = "not_started"]
      BY <2>1, <2>3 DEF EndOfFrame
    <3>2. s.up = Append(q.up, q.data) /\ s.mode = "not_started"
      BY <1>1, <3>1 DEF KissReceivers
    <3>3. PICK n \in 1 .. kissSent : KissPackets[n] = q.data
      BY <2>3
    <3>4. n \in DOMAIN KissPackets
      <4>1. DOMAIN KissPackets = 1 .. Len(KissPackets) /\ Len(KissPackets) \in Nat
        BY KissAssumption
      <4>. QED
        BY <4>1
    <3>5. Has(KissPackets[n], b) => RxHas(b, r)
      BY <1>2, <1>6, <3>3 DEF RxHas
    <3>. HIDE DEF s
    <3>6. ~RxHas(b, s)
      BY <3>2 DEF RxHas
    <3>. QED
      BY <1>1, <1>6, <3>2, <3>3, <3>4, <3>5, <3>6 DEF s
  <2>4. CASE q.data # <<>> /\ ~(Len(q.data) >= KissMinLength /\ \E n \in 1 .. kissSent : KissPackets[n] = q.data)
    <3>1. s = [q EXCEPT !.mode = "not_started"]
      BY <2>1, <2>4 DEF EndOfFrame
    <3>2. s.up = q.up /\ s.mode = "not_started"
      BY <1>1, <3>1 DEF KissReceivers
    <3>. HIDE DEF s
    <3>. QED
      BY <1>1, <3>2 DEF RxHas, s
  <2>. QED
    BY <2>2, <2>3, <2>4
<1>7. CASE q.mode = "started" /\ c # "FEND"
  <2>1. s = Started(q, c)
    BY <1>7 DEF KissByte, q
  <2>2. \/ s = [q EXCEPT !.mode = "escaped"]
        \/ s = [q EXCEPT !.first = FALSE]
        \/ s = [q EXCEPT !.data = Append(@, c)]
    BY <1>7, <2>1 DEF Started
  <2>3. s.up = q.up /\ (s.data = q.data \/ s.data = Append(q.data, c))
    BY <1>1, <2>2 DEF KissReceivers
  <2>. HIDE DEF s
  <2>4. RxHas(b, s) => RxHas(b, q) \/ c = b
    BY <1>4, <1>7, <2>3 DEF RxHas
  <2>. QED
    BY <1>1, <1>2, <2>3, <2>4 DEF s
<1>8. CASE q.mode = "escaped"
  <2>1. s = Escaped(q, c)
    BY <1>8 DEF KissByte, q
  <2>2. \E x \in {"FEND", "FESC"} : s.data = q.data \/ s.data = Append(q.data, x)
    BY <1>1, <2>1 DEF Escaped, KissReceivers
  <2>3. s.up = q.up /\ {"FEND", "FESC"} \subseteq KissBytes
    BY <1>1, <2>1 DEF Escaped, KissReceivers, KissBytes
  <2>. HIDE DEF s
  <2>4. RxHas(b, s) => RxHas(b, q)
    BY <1>4, <1>8, <2>2, <2>3 DEF RxHas
  <2>. QED
    BY <1>1, <1>2, <2>3, <2>4 DEF s
<1>9. CASE q.mode = "skip_frame"
  <2>1. s = SkipFrame(q, c)
    BY <1>9 DEF KissByte, q
  <2>2. s.up = q.up /\ s.mode \in {"not_started", "skip_frame"}
    BY <1>1, <1>9, <2>1 DEF SkipFrame, KissReceivers
  <2>. HIDE DEF s
  <2>. QED
    BY <1>1, <2>2 DEF RxHas, s
<1>. QED
  BY <1>1, <1>5, <1>6, <1>7, <1>8, <1>9 DEF KissReceivers

(* Writing a byte moves at most the first byte of the task's rest away.       *)
LEMMA RestMarks ==
  ASSUME KissTypes, NEW t \in KissTasks, NEW harmed \in BOOLEAN, Put(t, harmed),
         NEW b, b \notin {"FEND", "FESC", "TFEND", "TFESC", "TNC_DATA"}
  PROVE  \E h \in {0, 1} :
           /\ \A u \in KissTasks : \A i \in Nat :
                TaskHas(b, u, i)' => TaskHas(b, u, IF u = t THEN i + h ELSE i)
           /\ NextByte(kissTask[t]) = b => h = 1 /\ TaskHas(b, t, 1)
<1>. DEFINE k == kissTask[t]
            l == kissTask'[t]
<1>1. /\ k \in KissTaskStates /\ k.at \in {"start", "type", "body"} /\ k.rest \in Seq(KissBytes)
      /\ l.at = AfterByte(k).at /\ l.rest = AfterByte(k).rest
  BY PutTasks DEF OwnStep, KissTypes, KissTaskStates
<1>2. \A u \in KissTasks \ {t} : \A i \in Nat : TaskHas(b, u, i)' => TaskHas(b, u, i)
  BY PutTasks DEF OthersStep, TaskHas
<1>3. SUFFICES \E h \in {0, 1} :
                 /\ \A i \in Nat : TaskHas(b, t, i)' => TaskHas(b, t, i + h)
                 /\ NextByte(k) = b => h = 1 /\ TaskHas(b, t, 1)
  BY <1>2
<1>4. ASSUME l.at \in {"type", "body", "unlock"}, NextByte(k) # b,
             l.at # "unlock" => \A i \in DOMAIN l.rest : l.rest[i] = b => i \in DOMAIN k.rest /\ k.rest[i] = b
      PROVE  \A i \in Nat : TaskHas(b, t, i)' => TaskHas(b, t, i + 0)
  <2>. SUFFICES ASSUME NEW i \in Nat, TaskHas(b, t, i)' PROVE TaskHas(b, t, i + 0)
    OBVIOUS
  <2>1. i \in DOMAIN k.rest /\ k.rest[i] = b
    BY <1>4 DEF TaskHas
  <2>. QED
    BY <1>1, <2>1 DEF TaskHas
<1>5. CASE k.at \in {"start", "type"}
  <2>1. /\ NextByte(k) \in {"FEND", "TNC_DATA"} /\ l.at \in {"type", "body"} /\ l.rest = k.rest
    BY <1>1, <1>5, NextStep
  <2>. QED
    BY <1>4, <2>1
<1>6. CASE k.at = "body" /\ k.rest = <<>>
  <2>1. NextByte(k) = "FEND" /\ l.at = "unlock"
    BY <1>1, <1>6, NextStep
  <2>. QED
    BY <1>4, <2>1
<1>7. CASE k.at = "body" /\ k.rest # <<>> /\ k.rest[1] \in DOMAIN Transpose
  <2>1. NextByte(k) = "FESC" /\ l.at = "body" /\ l.rest = [k.rest EXCEPT ![1] = Transpose[@]]
    BY <1>1, <1>7, NextStep
  <2>2. Transpose[k.rest[1]] # b
    BY <1>7 DEF Transpose
  <2>3. \A i \in DOMAIN l.rest : l.rest[i] = b => i \in DOMAIN k.rest /\ k.rest[i] = b
    BY <1>1, <2>1, <2>2
  <2>. QED
    BY <1>4, <2>1, <2>3
<1>8. CASE k.at = "body" /\ k.rest # <<>> /\ k.rest[1] \notin DOMAIN Transpose
  <2>1. NextByte(k) = k.rest[1] /\ l.at = "body" /\ l.rest = Tail(k.rest)
    BY <1>1, <1>8, NextStep
  <2>2. 1 \in DOMAIN k.rest
    BY <1>1, <1>8
  <2>3. NextByte(k) = b => TaskHas(b, t, 1)
    BY <1>8, <2>1, <2>2 DEF TaskHas
  <2>4. ASSUME NEW i \in Nat, TaskHas(b, t, i)' PROVE TaskHas(b, t, i + 1)
    <3>1. i \in DOMAIN Tail(k.rest) /\ Tail(k.rest)[i] = b
      BY <2>1, <2>4 DEF TaskHas
    <3>2. i + 1 \in DOMAIN k.rest /\ k.rest[i + 1] = b
      BY <1>1, <1>8, <3>1
    <3>. QED
      BY <1>8, <3>2 DEF TaskHas
  <2>. QED
    BY <2>3, <2>4
<1>. QED
  BY <1>1, <1>5, <1>6, <1>7, <1>8

(* What goes up is added behind the rest.                                   *)
LEMMA UpMarks ==
  ASSUME NEW up, up \in Seq(Seq(KissBytes)), NEW p \in Seq(KissBytes), NEW b
  PROVE  LET all == Append(up, p) IN
         /\ (\E j \in DOMAIN all : Has(all[j], b)) => (\E j \in DOMAIN up : Has(up[j], b)) \/ Has(p, b)
         /\ (\A j \in DOMAIN up : ~Has(up[j], b)) =>
              \A i, j \in DOMAIN all : Has(all[i], b) /\ Has(all[j], b) => i = j
         /\ ~Has(p, b) => \A j \in DOMAIN all : Has(all[j], b) => j \in DOMAIN up /\ all[j] = up[j]
<1>. DEFINE all == Append(up, p)
<1>1. /\ DOMAIN all = 1 .. Len(up) + 1 /\ DOMAIN up = 1 .. Len(up) /\ Len(up) \in Nat
      /\ all[Len(up) + 1] = p /\ \A j \in 1 .. Len(up) : all[j] = up[j]
  OBVIOUS
<1>. HIDE DEF all
<1>2. \A j \in DOMAIN all : (j \in DOMAIN up /\ all[j] = up[j]) \/ (j = Len(up) + 1 /\ all[j] = p)
  BY <1>1
<1>3. (\A j \in DOMAIN up : ~Has(up[j], b)) => \A j \in DOMAIN all : Has(all[j], b) => j = Len(up) + 1
  BY <1>2
<1>. QED
  BY <1>2, <1>3 DEF all

(* A byte that is written leaves its mark at one place.                      *)
LEMMA MarkPut ==
  ASSUME KissTypes, NEW n \in DOMAIN KissPackets, NEW b, Mark(n, b), OnePlaceOf(n, b),
         NEW t \in KissTasks, NEW harmed \in BOOLEAN, Put(t, harmed), kissSent' = kissSent,
         \/ kissRx' = kissRx
         \/ \E c \in KissBytes, memory \in BOOLEAN : /\ kissRx' = KissByte(kissRx, c, memory)
                                                     /\ c = b => NextByte(kissTask[t]) = b
  PROVE  OnePlaceOf(n, b)'
<1>. DEFINE InTask == \E u \in KissTasks : \E i \in Nat : TaskHas(b, u, i)
            next == NextByte(kissTask[t])
<1>1. b \notin {"FEND", "FESC", "TFEND", "TFESC", "TNC_DATA"}
  BY DEF Mark
<1>2. PICK h \in {0, 1} :
        /\ \A u \in KissTasks : \A i \in Nat :
             TaskHas(b, u, i)' => TaskHas(b, u, IF u = t THEN i + h ELSE i)
        /\ next = b => h = 1 /\ TaskHas(b, t, 1)
  BY <1>1, RestMarks
<1>3. /\ \A u, v \in KissTasks : \A i, j \in Nat : TaskHas(b, u, i) /\ TaskHas(b, v, j) => u = v /\ i = j
      /\ InTask => ~RxHas(b, kissRx) /\ ~UpHas(b, kissRx)
      /\ RxHas(b, kissRx) => ~UpHas(b, kissRx)
      /\ \A i, j \in DOMAIN kissRx.up : Has(kissRx.up[i], b) /\ Has(kissRx.up[j], b) => i = j
      /\ kissSent < n => ~InTask /\ ~RxHas(b, kissRx) /\ ~UpHas(b, kissRx)
  BY DEF OnePlaceOf
<1>4. InTask' => InTask
  <2>. SUFFICES ASSUME NEW u \in KissTasks, NEW i \in Nat, TaskHas(b, u, i)' PROVE InTask
    OBVIOUS
  <2>1. (IF u = t THEN i + h ELSE i) \in Nat
    OBVIOUS
  <2>. QED
    BY <1>2, <2>1
<1>5. ASSUME NEW u \in KissTasks, NEW v \in KissTasks, NEW i \in Nat, NEW j \in Nat,
             TaskHas(b, u, i)', TaskHas(b, v, j)'
      PROVE  u = v /\ i = j
  <2>1. /\ (IF u = t THEN i + h ELSE i) \in Nat /\ (IF v = t THEN j + h ELSE j) \in Nat
        /\ TaskHas(b, u, IF u = t THEN i + h ELSE i) /\ TaskHas(b, v, IF v = t THEN j + h ELSE j)
    BY <1>2, <1>5
  <2>2. u = v /\ (IF u = t THEN i + h ELSE i) = (IF v = t THEN j + h ELSE j)
    BY <1>3, <2>1
  <2>. QED
    BY <2>2
<1>6. next = b => InTask /\ ~InTask'
  <2>. SUFFICES ASSUME next = b PROVE InTask /\ ~InTask'
    OBVIOUS
  <2>1. h = 1 /\ TaskHas(b, t, 1) /\ 1 \in Nat
    BY <1>2
  <2>2. ASSUME NEW u \in KissTasks, NEW i \in Nat, TaskHas(b, u, i)' PROVE FALSE
    <3>1. (IF u = t THEN i + h ELSE i) \in Nat /\ TaskHas(b, u, IF u = t THEN i + h ELSE i)
      BY <1>2, <2>2
    <3>2. u = t /\ i + 1 = 1
      BY <1>3, <2>1, <3>1
    <3>3. i \in DOMAIN kissTask'[t].rest
      BY <2>2, <3>2 DEF TaskHas
    <3>4. kissTask'[t].rest \in Seq(KissBytes)
      BY PutTasks DEF OwnStep, KissTaskStates
    <3>. QED
      BY <3>2, <3>3, <3>4
  <2>. QED
    BY <2>1, <2>2
<1>7. ASSUME RxHas(b, kissRx') => RxHas(b, kissRx) \/ next = b,
             \/ kissRx'.up = kissRx.up
             \/ /\ \E m \in DOMAIN KissPackets : kissRx'.up = Append(kissRx.up, KissPackets[m])
                                                /\ (Has(KissPackets[m], b) => RxHas(b, kissRx))
                /\ ~RxHas(b, kissRx')
      PROVE  /\ InTask' => ~RxHas(b, kissRx') /\ ~UpHas(b, kissRx')
             /\ RxHas(b, kissRx') => ~UpHas(b, kissRx')
             /\ \A i, j \in DOMAIN kissRx'.up : Has(kissRx'.up[i], b) /\ Has(kissRx'.up[j], b) => i = j
             /\ kissSent < n => ~InTask' /\ ~RxHas(b, kissRx') /\ ~UpHas(b, kissRx')
  <2>1. CASE kissRx'.up = kissRx.up
    <3>1. UpHas(b, kissRx') <=> UpHas(b, kissRx)
      BY <2>1 DEF UpHas
    <3>. HIDE DEF InTask, next
    <3>. QED
      BY <1>3, <1>4, <1>6, <1>7, <2>1, <3>1
  <2>2. ASSUME NEW m \in DOMAIN KissPackets, kissRx'.up = Append(kissRx.up, KissPackets[m]),
               Has(KissPackets[m], b) => RxHas(b, kissRx), ~RxHas(b, kissRx')
        PROVE  /\ InTask' => ~UpHas(b, kissRx')
               /\ \A i, j \in DOMAIN kissRx'.up : Has(kissRx'.up[i], b) /\ Has(kissRx'.up[j], b) => i = j
               /\ kissSent < n => ~InTask' /\ ~UpHas(b, kissRx')
    <3>1. KissPackets[m] \in Seq(KissBytes) /\ kissRx.up \in Seq(Seq(KissBytes))
      BY KissAssumption DEF KissTypes, RxFits, KissReceivers
    <3>2. UpHas(b, kissRx') => UpHas(b, kissRx) \/ Has(KissPackets[m], b)
      BY <2>2, <3>1, UpMarks DEF UpHas
    <3>3. \A i, j \in DOMAIN kissRx'.up : Has(kissRx'.up[i], b) /\ Has(kissRx'.up[j], b) => i = j
      <4>1. CASE Has(KissPackets[m], b)
        <5>1. \A j \in DOMAIN kissRx.up : ~Has(kissRx.up[j], b)
          BY <1>3, <2>2, <4>1 DEF UpHas
        <5>. QED
          BY <2>2, <3>1, <5>1, UpMarks
      <4>2. CASE ~Has(KissPackets[m], b)
        <5>1. \A j \in DOMAIN kissRx'.up :
                Has(kissRx'.up[j], b) => j \in DOMAIN kissRx.up /\ kissRx'.up[j] = kissRx.up[j]
          BY <2>2, <3>1, <4>2, UpMarks
        <5>. QED
          BY <1>3, <5>1
      <4>. QED
        BY <4>1, <4>2
    <3>. HIDE DEF InTask
    <3>. QED
      BY <1>3, <1>4, <2>2, <3>2, <3>3
  <2>. QED
    BY <1>7, <2>1, <2>2
<1>. DEFINE Heard == /\ RxHas(b, kissRx') => RxHas(b, kissRx) \/ next = b
                     /\ \/ kissRx'.up = kissRx.up
                        \/ /\ \E m \in DOMAIN KissPackets : kissRx'.up = Append(kissRx.up, KissPackets[m])
                                                           /\ (Has(KissPackets[m], b) => RxHas(b, kissRx))
                           /\ ~RxHas(b, kissRx')
<1>8. Heard
  <2>1. CASE kissRx' = kissRx
    BY <2>1
  <2>2. ASSUME NEW c \in KissBytes, NEW memory \in BOOLEAN, kissRx' = KissByte(kissRx, c, memory),
               c = b => next = b
        PROVE  Heard
    <3>1. RxFits(kissRx) /\ kissSent \in 0 .. Len(KissPackets)
      BY DEF KissTypes
    <3>. HIDE DEF next
    <3>2. Hears(b, c, kissRx, kissRx')
      BY <1>1, <2>2, <3>1, ByteMarks
    <3>. QED
      BY <2>2, <3>2 DEF Hears
  <2>. QED
    BY <2>1, <2>2
<1>9. /\ InTask' => ~RxHas(b, kissRx') /\ ~UpHas(b, kissRx')
      /\ RxHas(b, kissRx') => ~UpHas(b, kissRx')
      /\ \A i, j \in DOMAIN kissRx'.up : Has(kissRx'.up[i], b) /\ Has(kissRx'.up[j], b) => i = j
      /\ kissSent < n => ~InTask' /\ ~RxHas(b, kissRx') /\ ~UpHas(b, kissRx')
  BY <1>7, <1>8
<1>. QED
  BY <1>5, <1>9 DEF OnePlaceOf, UpHas, RxHas

(* Before its packet is sent a mark is nowhere; then its task has it.         *)
LEMMA MarkSend ==
  ASSUME KissTypes, NEW n \in DOMAIN KissPackets, NEW b, Mark(n, b), OnePlaceOf(n, b),
         NEW t \in KissTasks, KissSend(t)
  PROVE  OnePlaceOf(n, b)'
<1>. DEFINE m == kissSent + 1
<1>1. /\ kissSent' = m /\ kissRx' = kissRx /\ m \in DOMAIN KissPackets /\ m \in Nat /\ n \in Nat
      /\ kissSent \in Nat
  <2>1. /\ kissSent < Len(KissPackets) /\ kissSent' = m /\ kissRx' = kissRx
        /\ kissSent \in 0 .. Len(KissPackets) /\ Len(KissPackets) \in Nat
        /\ DOMAIN KissPackets = 1 .. Len(KissPackets)
    BY KissAssumption DEF KissSend, KissTypes
  <2>. QED
    BY <2>1
<1>2. /\ kissTask'[t].rest = KissPackets[m]
      /\ \A u \in KissTasks \ {t} : kissTask'[u] = kissTask[u]
  <2>1. kissTask' = [kissTask EXCEPT ![t] =
                       [KissIdle EXCEPT !.at = "lock", !.n = kissSent', !.rest = KissPackets[kissSent']]]
    BY DEF KissSend
  <2>2. kissTask \in [KissTasks -> KissTaskStates]
    BY DEF KissTypes
  <2>. QED
    BY <1>1, <2>1, <2>2 DEF KissIdle
<1>. HIDE DEF m
<1>3. /\ \A u, v \in KissTasks : \A i, j \in Nat : TaskHas(b, u, i) /\ TaskHas(b, v, j) => u = v /\ i = j
      /\ (\E u \in KissTasks : \E i \in Nat : TaskHas(b, u, i)) => ~RxHas(b, kissRx) /\ ~UpHas(b, kissRx)
      /\ RxHas(b, kissRx) => ~UpHas(b, kissRx)
      /\ \A i, j \in DOMAIN kissRx.up : Has(kissRx.up[i], b) /\ Has(kissRx.up[j], b) => i = j
      /\ kissSent < n => /\ \A u \in KissTasks : \A i \in Nat : ~TaskHas(b, u, i)
                         /\ ~RxHas(b, kissRx) /\ ~UpHas(b, kissRx)
  BY DEF OnePlaceOf
<1>4. \A u \in KissTasks \ {t} : \A i \in Nat : TaskHas(b, u, i)' <=> TaskHas(b, u, i)
  BY <1>2 DEF TaskHas
<1>5. \A i \in Nat : TaskHas(b, t, i)' => m = n /\ i \in DOMAIN KissPackets[n] /\ KissPackets[n][i] = b
  <2>. SUFFICES ASSUME NEW i \in Nat, TaskHas(b, t, i)'
                PROVE  m = n /\ i \in DOMAIN KissPackets[n] /\ KissPackets[n][i] = b
    OBVIOUS
  <2>1. i \in DOMAIN KissPackets[m] /\ KissPackets[m][i] = b
    BY <1>2 DEF TaskHas
  <2>. QED
    BY <1>1, <2>1 DEF Mark
<1>6. /\ RxHas(b, kissRx)' <=> RxHas(b, kissRx)
      /\ UpHas(b, kissRx)' <=> UpHas(b, kissRx)
  BY <1>1 DEF RxHas, UpHas
<1>7. CASE m = n
  <2>1. /\ \A u \in KissTasks : \A i \in Nat : ~TaskHas(b, u, i)
        /\ ~RxHas(b, kissRx) /\ ~UpHas(b, kissRx)
    BY <1>1, <1>3, <1>7 DEF m
  <2>2. \A u \in KissTasks : \A i \in Nat :
          TaskHas(b, u, i)' => u = t /\ i \in DOMAIN KissPackets[n] /\ KissPackets[n][i] = b
    BY <1>4, <1>5, <2>1
  <2>3. \A u, v \in KissTasks : \A i, j \in Nat : TaskHas(b, u, i)' /\ TaskHas(b, v, j)' => u = v /\ i = j
    BY <2>2 DEF Mark
  <2>4. ~(kissSent' < n)
    BY <1>1, <1>7
  <2>. QED
    BY <1>1, <1>3, <1>6, <2>1, <2>3, <2>4 DEF OnePlaceOf
<1>8. CASE m # n
  <2>1. \A u \in KissTasks : \A i \in Nat : TaskHas(b, u, i)' => TaskHas(b, u, i)
    BY <1>4, <1>5, <1>8
  <2>2. kissSent' < n => kissSent < n
    BY <1>1 DEF m
  <2>. QED
    BY <1>1, <1>3, <1>6, <2>1, <2>2 DEF OnePlaceOf
<1>. QED
  BY <1>7, <1>8

(* Tasks that only wait, take the lock or give it back leave marks alone.    *)
LEMMA MarkRest ==
  ASSUME NEW n \in DOMAIN KissPackets, NEW b, OnePlaceOf(n, b),
         kissSent' = kissSent, kissRx' = kissRx,
         \A u \in KissTasks : \A i \in Nat : TaskHas(b, u, i)' => TaskHas(b, u, i)
  PROVE  OnePlaceOf(n, b)'
<1>1. /\ RxHas(b, kissRx)' <=> RxHas(b, kissRx)
      /\ UpHas(b, kissRx)' <=> UpHas(b, kissRx)
  BY DEF RxHas, UpHas
<1>. QED
  BY <1>1 DEF OnePlaceOf

(* A byte that comes to the receiver is the one a task writes, or none of a   *)
(* packet's own.                                                            *)
LEMMA ByteHeard ==
  ASSUME KissTypes, NEW t \in KissTasks, KissPut(t) \/ KissFault(t)
  PROVE  /\ \E harmed \in BOOLEAN : Put(t, harmed)
         /\ kissSent' = kissSent
         /\ \/ kissRx' = kissRx
            \/ \E c \in KissBytes, memory \in BOOLEAN :
                 /\ kissRx' = KissByte(kissRx, c, memory)
                 /\ c = NextByte(kissTask[t]) \/ c \in {"FEND", "FESC", "TFEND", "x"}
<1>1. kissTask \in [KissTasks -> KissTaskStates]
  BY DEF KissTypes
<1>2. NextByte(kissTask[t]) \in KissBytes
  BY <1>1, NextStep DEF KissPut, KissFault, Put
<1>3. {"FEND", "FESC", "TFEND", "x"} \subseteq KissBytes
  BY DEF KissBytes
<1>4. CASE KissPut(t)
  BY <1>2, <1>4 DEF KissPut
<1>5. CASE KissFault(t)
  BY <1>2, <1>3, <1>5 DEF KissFault
<1>. QED
  BY <1>4, <1>5

(* Every step of the framing leaves a mark at one place.                     *)
LEMMA MarksStep == KissTypes /\ MarksOnce /\ [KissNext]_kissVars => MarksOnce'
<1>. SUFFICES ASSUME KissTypes, MarksOnce, [KissNext]_kissVars,
                     NEW n \in DOMAIN KissPackets, NEW b, Mark(n, b)
              PROVE  OnePlaceOf(n, b)'
  BY DEF MarksOnce, Mark
<1>1. OnePlaceOf(n, b) /\ b \notin {"FEND", "FESC", "TFEND", "TFESC", "TNC_DATA", "x"}
  BY DEF MarksOnce, Mark
<1>2. kissTask \in [KissTasks -> KissTaskStates]
  BY DEF KissTypes
<1>3. CASE UNCHANGED kissVars
  BY <1>1, <1>3, MarkRest DEF kissVars, TaskHas
<1>4. ASSUME NEW t \in KissTasks, KissSend(t) PROVE OnePlaceOf(n, b)'
  BY <1>1, <1>4, MarkSend
<1>5. ASSUME NEW t \in KissTasks, KissTakeLock(t) \/ KissTimeOut(t) PROVE OnePlaceOf(n, b)'
  <2>1. /\ kissTask[t].at = "lock" /\ kissTask' = [kissTask EXCEPT ![t].at = "start"]
        /\ kissRx' = kissRx /\ kissSent' = kissSent
    BY <1>5 DEF KissTakeLock, KissTimeOut, KissGoOn
  <2>2. \A u \in KissTasks : /\ kissTask'[u].rest = kissTask[u].rest
                             /\ kissTask'[u].at = kissTask[u].at \/ kissTask[u].at = "lock"
    BY <1>2, <2>1 DEF KissTaskStates
  <2>3. \A u \in KissTasks : \A i \in Nat : TaskHas(b, u, i)' => TaskHas(b, u, i)
    BY <2>2 DEF TaskHas
  <2>. QED
    BY <1>1, <2>1, <2>3, MarkRest
<1>6. ASSUME NEW t \in KissTasks, KissPut(t) \/ KissFault(t) PROVE OnePlaceOf(n, b)'
  <2>1. PICK harmed \in BOOLEAN : Put(t, harmed)
    BY <1>6, ByteHeard
  <2>2. /\ kissSent' = kissSent
        /\ \/ kissRx' = kissRx
           \/ \E c \in KissBytes, memory \in BOOLEAN :
                /\ kissRx' = KissByte(kissRx, c, memory)
                /\ c = NextByte(kissTask[t]) \/ c \in {"FEND", "FESC", "TFEND", "x"}
    BY <1>6, ByteHeard
  <2>3. \/ kissRx' = kissRx
        \/ \E c \in KissBytes, memory \in BOOLEAN : /\ kissRx' = KissByte(kissRx, c, memory)
                                                    /\ c = b => NextByte(kissTask[t]) = b
    BY <1>1, <2>2
  <2>. QED
    BY <1>1, <2>1, <2>2, <2>3, MarkPut
<1>7. ASSUME NEW t \in KissTasks, KissUnlock(t) PROVE OnePlaceOf(n, b)'
  <2>1. /\ kissTask' = [kissTask EXCEPT ![t] = KissIdle] /\ kissRx' = kissRx /\ kissSent' = kissSent
    BY <1>7 DEF KissUnlock
  <2>2. \A u \in KissTasks : kissTask'[u] = kissTask[u] \/ kissTask'[u].at = "idle"
    BY <1>2, <2>1 DEF KissIdle
  <2>3. \A u \in KissTasks : \A i \in Nat : TaskHas(b, u, i)' => TaskHas(b, u, i)
    BY <2>2 DEF TaskHas
  <2>. QED
    BY <1>1, <2>1, <2>3, MarkRest
<1>. QED
  BY <1>3, <1>4, <1>5, <1>6, <1>7 DEF KissNext

(* Nothing goes up that was not sent.                                       *)
LEMMA SentUpStep == KissTypes /\ UpIsSent /\ [KissNext]_kissVars => UpIsSent'
<1>. SUFFICES ASSUME KissTypes, UpIsSent, [KissNext]_kissVars PROVE UpIsSent'
  OBVIOUS
<1>1. kissRx'.up = kissRx.up \/ \E m \in DOMAIN KissPackets : kissRx'.up = Append(kissRx.up, KissPackets[m])
  <2>1. ASSUME NEW t \in KissTasks, KissPut(t) \/ KissFault(t)
        PROVE  \/ kissRx' = kissRx
               \/ \E m \in DOMAIN KissPackets : kissRx'.up = Append(kissRx.up, KissPackets[m])
               \/ kissRx'.up = kissRx.up
    <3>1. \/ kissRx' = kissRx
          \/ \E c \in KissBytes, memory \in BOOLEAN : kissRx' = KissByte(kissRx, c, memory)
      BY <2>1, ByteHeard
    <3>2. RxFits(kissRx) /\ kissSent \in 0 .. Len(KissPackets) /\ "x" \notin {"FEND", "FESC"}
      BY DEF KissTypes
    <3>3. ASSUME NEW c \in KissBytes, NEW memory \in BOOLEAN, kissRx' = KissByte(kissRx, c, memory)
          PROVE  \/ kissRx'.up = kissRx.up
                 \/ \E m \in DOMAIN KissPackets : kissRx'.up = Append(kissRx.up, KissPackets[m])
      <4>1. Hears("x", c, kissRx, kissRx')
        BY <3>2, <3>3, ByteMarks
      <4>. QED
        BY <4>1 DEF Hears
    <3>. QED
      BY <3>1, <3>3
  <2>2. ASSUME NEW t \in KissTasks, KissSend(t) \/ KissTakeLock(t) \/ KissTimeOut(t) \/ KissUnlock(t)
        PROVE  kissRx' = kissRx
    BY <2>2 DEF KissSend, KissTakeLock, KissTimeOut, KissGoOn, KissUnlock
  <2>. QED
    BY <2>1, <2>2 DEF KissNext, kissVars
<1>2. kissRx.up \in Seq(Seq(KissBytes)) /\ \A m \in DOMAIN KissPackets : KissPackets[m] \in Seq(KissBytes)
  BY KissAssumption DEF KissTypes, RxFits, KissReceivers
<1>3. CASE kissRx'.up = kissRx.up
  BY <1>3 DEF UpIsSent
<1>4. ASSUME NEW m \in DOMAIN KissPackets, kissRx'.up = Append(kissRx.up, KissPackets[m]) PROVE UpIsSent'
  <2>1. \A j \in DOMAIN kissRx'.up : \/ j \in DOMAIN kissRx.up /\ kissRx'.up[j] = kissRx.up[j]
                                     \/ kissRx'.up[j] = KissPackets[m]
    BY <1>2, <1>4
  <2>. QED
    BY <2>1 DEF UpIsSent
<1>. QED
  BY <1>1, <1>3, <1>4

(* Whatever is lost, changed or written into each other, and whichever task  *)
(* goes on without the lock: of packets that each have a byte of their own,   *)
(* csp_kiss_rx passes none on twice.                                        *)
THEOREM ReceivedOnce == ASSUME Marked PROVE KissSpec => []KissOnce
<1>1. KissInit => MarksOnce /\ UpIsSent
  <2>. SUFFICES ASSUME KissInit PROVE MarksOnce /\ UpIsSent
    OBVIOUS
  <2>1. /\ kissTask = [t \in KissTasks |-> KissIdle] /\ kissRx.mode = "not_started" /\ kissRx.up = <<>>
    BY DEF KissInit
  <2>2. \A b, t, i : t \in KissTasks => ~TaskHas(b, t, i)
    BY <2>1 DEF TaskHas, KissIdle
  <2>3. \A b : ~RxHas(b, kissRx) /\ ~UpHas(b, kissRx)
    BY <2>1 DEF RxHas, UpHas
  <2>. QED
    BY <2>1, <2>2, <2>3 DEF MarksOnce, UpIsSent, OnePlaceOf
<1>2. KissTypes /\ MarksOnce /\ UpIsSent => KissOnce
  <2>. SUFFICES ASSUME MarksOnce, UpIsSent, NEW i \in DOMAIN kissRx.up, NEW j \in DOMAIN kissRx.up,
                       kissRx.up[i] = kissRx.up[j]
                PROVE  i = j
    BY DEF KissOnce
  <2>1. PICK n \in DOMAIN KissPackets : kissRx.up[i] = KissPackets[n]
    BY DEF UpIsSent
  <2>2. PICK b : Mark(n, b)
    BY DEF Marked
  <2>3. Has(kissRx.up[i], b) /\ Has(kissRx.up[j], b)
    BY <2>1, <2>2 DEF Mark, Has
  <2>. QED
    BY <2>2, <2>3 DEF MarksOnce, OnePlaceOf
<1>3. KissInv => KissTypes
  BY DEF KissInv
<1>4. KissTypes /\ (MarksOnce /\ UpIsSent) /\ [KissNext]_kissVars => (MarksOnce /\ UpIsSent)'
  BY MarksStep, SentUpStep
<1>. QED
  BY <1>1, <1>2, <1>3, <1>4, KissInvariance, PTL DEF KissSpec

LEMMA KissTypesNow == KissInv => KissTypeOK
BY DEF KissInv, KissTypes, KissTypeOK, RxFits, KissTaskStates, KissReceivers

(* The receiver never writes past its buffer and has one when it fills it.    *)
THEOREM KissTypeCorrect == KissSpec => []KissTypeOK
BY KissTypesNow, KissInvariance, PTL

-----------------------------------------------------------------------------
(* Where a buffer can be.                                                   *)
Places == Queues \cup Hands \cup {"free"}

(* The packets, and which of them and of the buffers may be at a place:     *)
(* promiscuous mode has not seen what waits for the router and has seen     *)
(* the rest once; what comes from this node and waits for the router goes   *)
(* to this node.                                                            *)
Nodes == {"me", "A", "B", "bcast", "nowhere"}

Packets == [src : Nodes, dst : Nodes, port : {"connless", "client", "service"},
            in : {"ifA", "ifB", "lo"}, good : BOOLEAN, buf : RtrBuffers, seen : Nat,
            late : BOOLEAN]

Fits(place, e) ==
  IF place = "free" THEN e \in RtrBuffers
  ELSE /\ e \in Packets
       /\ place # "promisc" => e.seen = IF place = "input" THEN 0 ELSE 1
       /\ place \in {"input", "router"} => (e.src = "me" => e.dst = "me")

(* The buffer that an element of a place is, or that the packet is in.      *)
BufOf(place, e) == IF place = "free" THEN e ELSE e.buf

(* How much a place holds.                                                  *)
Room(place) == IF place \in Hands THEN 1 ELSE RtrLimit

(* Each place holds what fits there, and not too much.                      *)
FitIn(at) ==
  /\ at \in [Places -> Seq(RtrBuffers \cup Packets)]
  /\ \A x \in Places : \A i \in DOMAIN at[x] : Fits(x, at[x][i])
  /\ \A x \in Queues \cup Hands : Len(at[x]) <= Room(x)

(* No buffer is in two spots.                                               *)
Apart(at) ==
  \A x, y \in Places : \A i \in DOMAIN at[x], j \in DOMAIN at[y] :
    BufOf(x, at[x][i]) = BufOf(y, at[y][j]) => x = y /\ i = j

(* The buffers that are at some place.                                      *)
Occupied(at) == {b \in RtrBuffers : \E x \in Places : \E i \in DOMAIN at[x] : BufOf(x, at[x][i]) = b}

(* The places hold the buffers in S, each in one spot. A call takes a       *)
(* buffer from one place and adds it to another; between the two S is what  *)
(* is left.                                                                 *)
Holds(at, S) == FitIn(at) /\ Apart(at) /\ Occupied(at) = S

(* What fits at a place has a buffer of the pool.                           *)
LEMMA BufOfFit ==
  ASSUME NEW x, NEW e, Fits(x, e)
  PROVE  BufOf(x, e) \in RtrBuffers
BY DEF Fits, BufOf, Packets

(* Taking the first element of a place leaves the other buffers where they  *)
(* are.                                                                     *)
LEMMA TakeHead ==
  ASSUME NEW at, NEW S, Holds(at, S), NEW x \in Places, at[x] # <<>>
  PROVE  /\ Fits(x, Head(at[x]))
         /\ BufOf(x, Head(at[x])) \in S
         /\ Holds([at EXCEPT ![x] = Tail(@)], S \ {BufOf(x, Head(at[x]))})
<1>. DEFINE new == [at EXCEPT ![x] = Tail(@)]
            b == BufOf(x, Head(at[x]))
            Old(z, i) == IF z = x THEN i + 1 ELSE i
<1>1. at \in [Places -> Seq(RtrBuffers \cup Packets)]
  BY DEF Holds, FitIn
<1>2. /\ at[x] \in Seq(RtrBuffers \cup Packets) /\ Len(at[x]) \in Nat /\ Len(at[x]) > 0
      /\ 1 \in DOMAIN at[x] /\ Head(at[x]) = at[x][1]
      /\ Tail(at[x]) \in Seq(RtrBuffers \cup Packets) /\ Len(Tail(at[x])) = Len(at[x]) - 1
      /\ \A i \in 1 .. Len(at[x]) - 1 : Tail(at[x])[i] = at[x][i + 1]
  BY <1>1
<1>3. new \in [Places -> Seq(RtrBuffers \cup Packets)] /\ new[x] = Tail(at[x])
      /\ \A z \in Places : z # x => new[z] = at[z]
  BY <1>1, <1>2
<1>4. ASSUME NEW z \in Places, NEW i \in DOMAIN new[z]
      PROVE  Old(z, i) \in DOMAIN at[z] /\ new[z][i] = at[z][Old(z, i)] /\ (z = x => Old(z, i) # 1)
  <2>1. CASE z = x
    <3>1. i \in 1 .. Len(at[x]) - 1
      BY <1>2, <1>3, <1>4, <2>1
    <3>2. DOMAIN at[x] = 1 .. Len(at[x])
      BY <1>2
    <3>. QED
      BY <1>2, <1>3, <2>1, <3>1, <3>2
  <2>2. CASE z # x
    BY <1>3, <1>4, <2>2
  <2>. QED
    BY <2>1, <2>2
<1>5. FitIn(new)
  <2>1. \A z \in Places : \A i \in DOMAIN new[z] : Fits(z, new[z][i])
    BY <1>4 DEF Holds, FitIn
  <2>2. ASSUME NEW z \in Queues \cup Hands PROVE Len(new[z]) <= Room(z)
    <3>1. z \in Places /\ at[z] \in Seq(RtrBuffers \cup Packets) /\ Len(at[z]) \in Nat /\ Len(at[z]) <= Room(z)
          /\ Room(z) \in Nat
      BY <1>1, RtrAssumption DEF Places, Holds, FitIn, Room
    <3>2. CASE z = x
      BY <1>2, <1>3, <3>1, <3>2
    <3>3. CASE z # x
      BY <1>3, <3>1, <3>3
    <3>. QED
      BY <3>2, <3>3
  <2>. QED
    BY <1>3, <2>1, <2>2 DEF FitIn
<1>6. Apart(new)
  <2>1. SUFFICES ASSUME NEW y \in Places, NEW z \in Places,
                        NEW i \in DOMAIN new[y], NEW j \in DOMAIN new[z],
                        BufOf(y, new[y][i]) = BufOf(z, new[z][j])
                 PROVE  y = z /\ i = j
    BY DEF Apart
  <2>2. BufOf(y, at[y][Old(y, i)]) = BufOf(z, at[z][Old(z, j)])
    BY <1>4, <2>1
  <2>3. Old(y, i) \in DOMAIN at[y] /\ Old(z, j) \in DOMAIN at[z]
    BY <1>4
  <2>4. y = z /\ Old(y, i) = Old(z, j)
    BY <2>2, <2>3 DEF Holds, Apart
  <2>5. i \in Int /\ j \in Int
    BY <1>3
  <2>. QED
    BY <2>4, <2>5
<1>7. Fits(x, Head(at[x])) /\ b \in RtrBuffers
  BY <1>2, BufOfFit DEF Holds, FitIn
<1>8. b \in S
  BY <1>2, <1>7 DEF Holds, Occupied
<1>9. Occupied(new) = S \ {b}
  <2>1. ASSUME NEW c \in Occupied(new) PROVE c \in S \ {b}
    <3>1. PICK z \in Places : \E i \in DOMAIN new[z] : BufOf(z, new[z][i]) = c
      BY <2>1 DEF Occupied
    <3>2. PICK i \in DOMAIN new[z] : BufOf(z, new[z][i]) = c
      BY <3>1
    <3>3. Old(z, i) \in DOMAIN at[z] /\ BufOf(z, at[z][Old(z, i)]) = c /\ (z = x => Old(z, i) # 1)
      BY <1>4, <3>2
    <3>4. c \in S
      BY <2>1, <3>3 DEF Holds, Occupied
    <3>5. c # b
      BY <1>2, <3>3 DEF Holds, Apart
    <3>. QED
      BY <3>4, <3>5
  <2>2. ASSUME NEW c \in S, c # b PROVE c \in Occupied(new)
    <3>1. PICK z \in Places : \E i \in DOMAIN at[z] : BufOf(z, at[z][i]) = c
      BY DEF Holds, Occupied
    <3>2. PICK i \in DOMAIN at[z] : BufOf(z, at[z][i]) = c
      BY <3>1
    <3>3. c \in RtrBuffers
      BY DEF Holds, Occupied
    <3>4. CASE z # x
      BY <1>3, <3>2, <3>3, <3>4 DEF Occupied
    <3>5. CASE z = x
      <4>1. i \in 2 .. Len(at[x])
        BY <1>2, <2>2, <3>2, <3>5
      <4>2. i - 1 \in DOMAIN new[x] /\ new[x][i - 1] = at[x][i]
        BY <1>2, <1>3, <4>1
      <4>. QED
        BY <3>2, <3>3, <3>5, <4>2 DEF Occupied
    <3>. QED
      BY <3>4, <3>5
  <2>. QED
    BY <2>1, <2>2
<1>. QED
  BY <1>5, <1>6, <1>7, <1>8, <1>9 DEF Holds

(* Adding a buffer that is nowhere to a place that has room puts it there   *)
(* alone.                                                                   *)
LEMMA AddLast ==
  ASSUME NEW at, NEW S, Holds(at, S), NEW x \in Places, NEW e, Fits(x, e),
         BufOf(x, e) \notin S, x # "free" => Len(at[x]) < Room(x)
  PROVE  Holds([at EXCEPT ![x] = Append(@, e)], S \cup {BufOf(x, e)})
<1>. DEFINE new == [at EXCEPT ![x] = Append(@, e)]
            b == BufOf(x, e)
            last == Len(at[x]) + 1
<1>1. at \in [Places -> Seq(RtrBuffers \cup Packets)] /\ e \in RtrBuffers \cup Packets /\ b \in RtrBuffers
  BY BufOfFit DEF Holds, FitIn, Fits
<1>2. /\ at[x] \in Seq(RtrBuffers \cup Packets) /\ Len(at[x]) \in Nat
      /\ Append(at[x], e) \in Seq(RtrBuffers \cup Packets)
      /\ DOMAIN Append(at[x], e) = 1 .. last /\ DOMAIN at[x] = 1 .. Len(at[x])
      /\ Append(at[x], e)[last] = e /\ Len(Append(at[x], e)) = last
      /\ \A i \in 1 .. Len(at[x]) : Append(at[x], e)[i] = at[x][i]
  BY <1>1
<1>3. new \in [Places -> Seq(RtrBuffers \cup Packets)] /\ new[x] = Append(at[x], e)
      /\ \A z \in Places : z # x => new[z] = at[z]
  BY <1>1, <1>2
<1>4. ASSUME NEW z \in Places, NEW i \in DOMAIN new[z]
      PROVE  \/ z = x /\ i = last /\ new[z][i] = e
             \/ ~(z = x /\ i = last) /\ i \in DOMAIN at[z] /\ new[z][i] = at[z][i]
  <2>1. CASE z = x
    BY <1>2, <1>3, <2>1
  <2>2. CASE z # x
    BY <1>3, <2>2
  <2>. QED
    BY <2>1, <2>2
<1>5. FitIn(new)
  <2>1. \A z \in Places : \A i \in DOMAIN new[z] : Fits(z, new[z][i])
    BY <1>4 DEF Holds, FitIn
  <2>2. ASSUME NEW z \in Queues \cup Hands PROVE Len(new[z]) <= Room(z)
    <3>1. z \in Places /\ z # "free" /\ at[z] \in Seq(RtrBuffers \cup Packets) /\ Len(at[z]) \in Nat
          /\ Len(at[z]) <= Room(z) /\ Room(z) \in Nat
      BY <1>1, RtrAssumption DEF Places, Holds, FitIn, Room, Queues, Connections, Hands
    <3>2. CASE z = x
      BY <1>2, <1>3, <3>1, <3>2
    <3>3. CASE z # x
      BY <1>3, <3>1, <3>3
    <3>. QED
      BY <3>2, <3>3
  <2>. QED
    BY <1>3, <2>1, <2>2 DEF FitIn
<1>6. ASSUME NEW z \in Places, NEW i \in DOMAIN at[z] PROVE BufOf(z, at[z][i]) # b
  BY <1>1, <1>6 DEF Holds, Occupied
<1>7. Apart(new)
  <2>1. SUFFICES ASSUME NEW y \in Places, NEW z \in Places,
                        NEW i \in DOMAIN new[y], NEW j \in DOMAIN new[z],
                        BufOf(y, new[y][i]) = BufOf(z, new[z][j])
                 PROVE  y = z /\ i = j
    BY DEF Apart
  <2>2. \/ y = x /\ i = last /\ new[y][i] = e
        \/ ~(y = x /\ i = last) /\ i \in DOMAIN at[y] /\ new[y][i] = at[y][i]
    BY <1>4
  <2>3. \/ z = x /\ j = last /\ new[z][j] = e
        \/ ~(z = x /\ j = last) /\ j \in DOMAIN at[z] /\ new[z][j] = at[z][j]
    BY <1>4
  <2>. QED
    BY <1>6, <2>1, <2>2, <2>3 DEF Holds, Apart
<1>8. Occupied(new) = S \cup {b}
  <2>1. ASSUME NEW c \in Occupied(new) PROVE c \in S \cup {b}
    <3>1. PICK z \in Places : \E i \in DOMAIN new[z] : BufOf(z, new[z][i]) = c
      BY <2>1 DEF Occupied
    <3>2. PICK i \in DOMAIN new[z] : BufOf(z, new[z][i]) = c
      BY <3>1
    <3>3. \/ z = x /\ i = last /\ new[z][i] = e
          \/ ~(z = x /\ i = last) /\ i \in DOMAIN at[z] /\ new[z][i] = at[z][i]
      BY <1>4
    <3>. QED
      BY <2>1, <3>2, <3>3 DEF Holds, Occupied
  <2>2. ASSUME NEW c \in S PROVE c \in Occupied(new)
    <3>1. PICK z \in Places : \E i \in DOMAIN at[z] : BufOf(z, at[z][i]) = c
      BY DEF Holds, Occupied
    <3>2. PICK i \in DOMAIN at[z] : BufOf(z, at[z][i]) = c
      BY <3>1
    <3>3. c \in RtrBuffers
      BY DEF Holds, Occupied
    <3>4. i \in DOMAIN new[z] /\ new[z][i] = at[z][i]
      BY <1>2, <1>3
    <3>. QED
      BY <3>2, <3>3, <3>4 DEF Occupied
  <2>3. b \in Occupied(new)
    <3>1. last \in DOMAIN new[x] /\ new[x][last] = e
      BY <1>2, <1>3
    <3>. QED
      BY <1>1, <3>1 DEF Occupied
  <2>. QED
    BY <2>1, <2>2, <2>3
<1>. QED
  BY <1>5, <1>7, <1>8 DEF Holds

(* csp_buffer_free returns the buffer to the pool.                          *)
LEMMA FreedHolds ==
  ASSUME NEW at, NEW S, Holds(at, S), NEW p, p.buf \in RtrBuffers, p.buf \notin S
  PROVE  Holds(Freed(at, p), S \cup {p.buf})
<1>1. BufOf("free", p.buf) = p.buf /\ Fits("free", p.buf) /\ "free" \in Places
  BY DEF BufOf, Fits, Places
<1>2. Holds([at EXCEPT !["free"] = Append(@, p.buf)], S \cup {p.buf})
  BY <1>1, AddLast
<1>. QED
  BY <1>2 DEF Freed

(* A packet that is enqueued or freed is at one place after it.             *)
LEMMA PutHolds ==
  ASSUME NEW at, NEW S, Holds(at, S), NEW q \in Queues, NEW p, Fits(q, p), p.buf \notin S
  PROVE  Holds(PutOrFree(at, q, p), S \cup {p.buf})
<1>1. BufOf(q, p) = p.buf /\ p.buf \in RtrBuffers /\ q \in Places /\ Room(q) = RtrLimit
  BY BufOfFit DEF BufOf, Places, Queues, Connections, Hands, Room
<1>2. CASE Len(at[q]) < RtrLimit
  <2>1. Holds([at EXCEPT ![q] = Append(@, p)], S \cup {p.buf})
    BY <1>1, <1>2, AddLast
  <2>. QED
    BY <1>2, <2>1 DEF PutOrFree
<1>3. CASE ~(Len(at[q]) < RtrLimit)
  BY <1>1, <1>3, FreedHolds DEF PutOrFree
<1>. QED
  BY <1>2, <1>3

(* csp_conn_flush_rx_queue moves all buffers of a queue to the pool at once. *)
LEMMA EmptiedHolds ==
  ASSUME NEW at, NEW S, Holds(at, S), NEW q \in Queues
  PROVE  Holds(Emptied(at, q), S)
<1>. DEFINE new == Emptied(at, q)
            n == Len(at["free"])
            left == [i \in DOMAIN at[q] |-> at[q][i].buf]
            Moved(x, i) == x = "free" /\ i > n
            Old(x, i) == IF Moved(x, i) THEN q ELSE x
            OldAt(x, i) == IF Moved(x, i) THEN i - n ELSE i
<1>1. /\ at \in [Places -> Seq(RtrBuffers \cup Packets)]
      /\ "free" \in Places /\ q \in Places /\ q # "free"
      /\ \A x \in Places : \A i \in DOMAIN at[x] : Fits(x, at[x][i])
  BY DEF Holds, FitIn, Places, Queues, Connections
<1>2. /\ at["free"] \in Seq(RtrBuffers \cup Packets) /\ n \in Nat /\ DOMAIN at["free"] = 1 .. n
      /\ at[q] \in Seq(RtrBuffers \cup Packets) /\ Len(at[q]) \in Nat
      /\ DOMAIN at[q] = 1 .. Len(at[q])
  BY <1>1
<1>3. \A i \in DOMAIN at[q] : at[q][i].buf \in RtrBuffers
  BY <1>1 DEF Fits, Packets
<1>4. /\ left \in Seq(RtrBuffers) /\ Len(left) = Len(at[q])
      /\ \A i \in DOMAIN at[q] : left[i] = at[q][i].buf
  BY <1>2, <1>3
<1>5. /\ at["free"] \o left \in Seq(RtrBuffers \cup Packets)
      /\ DOMAIN (at["free"] \o left) = 1 .. n + Len(at[q])
      /\ \A i \in 1 .. n : (at["free"] \o left)[i] = at["free"][i]
      /\ \A i \in n + 1 .. n + Len(at[q]) : (at["free"] \o left)[i] = left[i - n]
  <2>1. left \in Seq(RtrBuffers \cup Packets) /\ at["free"] \in Seq(RtrBuffers \cup Packets)
    BY <1>2, <1>4
  <2>2. Len(left) = Len(at[q])
    BY <1>4
  <2>. HIDE DEF left
  <2>3. /\ at["free"] \o left \in Seq(RtrBuffers \cup Packets)
        /\ Len(at["free"] \o left) = n + Len(left)
        /\ \A i \in 1 .. n + Len(left) :
             (at["free"] \o left)[i] = IF i <= n THEN at["free"][i] ELSE left[i - n]
    BY <2>1, ConcatProperties
  <2>4. DOMAIN (at["free"] \o left) = 1 .. n + Len(at[q])
    <3>1. \A t \in Seq(RtrBuffers \cup Packets) : DOMAIN t = 1 .. Len(t)
      OBVIOUS
    <3>. HIDE DEF n
    <3>. QED
      BY <2>2, <2>3, <3>1
  <2>. HIDE DEF n
  <2>. QED
    BY <1>2, <2>2, <2>3, <2>4
<1>6. /\ new \in [Places -> Seq(RtrBuffers \cup Packets)]
      /\ new["free"] = at["free"] \o left /\ new[q] = <<>>
      /\ \A x \in Places \ {"free", q} : new[x] = at[x]
  <2>1. new = [at EXCEPT ![q] = <<>>, !["free"] = at["free"] \o left]
    BY DEF Emptied
  <2>2. <<>> \in Seq(RtrBuffers \cup Packets)
    OBVIOUS
  <2>. HIDE DEF left
  <2>. QED
    BY <1>1, <1>5, <2>1, <2>2
<1>. HIDE DEF left, new
<1>7. ASSUME NEW x \in Places, NEW i \in DOMAIN new[x]
      PROVE  /\ i \in Nat
             /\ Old(x, i) \in Places /\ OldAt(x, i) \in DOMAIN at[Old(x, i)]
             /\ BufOf(x, new[x][i]) = BufOf(Old(x, i), at[Old(x, i)][OldAt(x, i)])
             /\ Fits(x, new[x][i]) /\ x # q
  <2>1. CASE x = q
    BY <1>6, <1>7, <2>1
  <2>2. CASE x \notin {"free", q}
    BY <1>1, <1>6, <1>7, <2>2
  <2>3. CASE x = "free"
    <3>1. i \in 1 .. n + Len(at[q])
      BY <1>5, <1>6, <1>7, <2>3
    <3>2. CASE i <= n
      BY <1>1, <1>2, <1>5, <1>6, <2>3, <3>1, <3>2
    <3>3. CASE i > n
      <4>. HIDE DEF n
      <4>1. i - n \in 1 .. Len(at[q]) /\ i \in n + 1 .. n + Len(at[q])
        BY <1>2, <3>1, <3>3
      <4>2. i - n \in DOMAIN at[q] /\ new[x][i] = at[q][i - n].buf
        BY <1>2, <1>4, <1>5, <1>6, <2>3, <4>1
      <4>. QED
        BY <1>1, <1>3, <2>3, <3>1, <3>3, <4>2 DEF BufOf, Fits
    <3>. QED
      BY <1>2, <3>1, <3>2, <3>3
  <2>. QED
    BY <2>1, <2>2, <2>3
<1>8. FitIn(new)
  <2>1. ASSUME NEW x \in Queues \cup Hands PROVE Len(new[x]) <= Room(x)
    <3>1. x \in Places /\ x # "free" /\ Len(at[x]) <= Room(x)
      BY DEF Places, Queues, Hands, Connections, Holds, FitIn
    <3>2. Room(q) \in Nat /\ Len(<<>>) = 0
      BY RtrAssumption DEF Room
    <3>3. new[x] = IF x = q THEN <<>> ELSE at[x]
      BY <1>6, <3>1
    <3>. HIDE DEF new
    <3>. QED
      BY <3>1, <3>2, <3>3
  <2>. QED
    BY <1>6, <1>7, <2>1 DEF FitIn
<1>9. Apart(new)
  <2>1. SUFFICES ASSUME NEW x \in Places, NEW y \in Places,
                        NEW i \in DOMAIN new[x], NEW j \in DOMAIN new[y],
                        BufOf(x, new[x][i]) = BufOf(y, new[y][j])
                 PROVE  x = y /\ i = j
    BY DEF Apart
  <2>2. Old(x, i) = Old(y, j) /\ OldAt(x, i) = OldAt(y, j)
    BY <1>7, <2>1 DEF Holds, Apart
  <2>3. i \in Nat /\ j \in Nat /\ x # q /\ y # q
    BY <1>7
  <2>. QED
    BY <1>2, <2>2, <2>3
<1>10. Occupied(new) = S
  <2>0. Occupied(new) \subseteq S
    BY <1>7 DEF Holds, Occupied
  <2>1. SUFFICES ASSUME NEW b \in S
                 PROVE  \E x \in Places : \E i \in DOMAIN new[x] : BufOf(x, new[x][i]) = b
    BY <2>0 DEF Holds, Occupied
  <2>2. PICK x \in Places : \E i \in DOMAIN at[x] : BufOf(x, at[x][i]) = b
    BY DEF Holds, Occupied
  <2>3. PICK i \in DOMAIN at[x] : BufOf(x, at[x][i]) = b
    BY <2>2
  <2>4. CASE x = q
    <3>1. i + n \in DOMAIN new["free"] /\ new["free"][i + n] = at[q][i].buf
      <4>. HIDE DEF n
      <4>1. i \in 1 .. Len(at[q])
        BY <1>2, <2>3, <2>4
      <4>2. i + n \in n + 1 .. n + Len(at[q]) /\ i + n \in 1 .. n + Len(at[q]) /\ (i + n) - n = i
        BY <1>2, <4>1
      <4>3. (at["free"] \o left)[i + n] = left[i]
        BY <1>5, <4>2
      <4>. QED
        BY <1>2, <1>4, <1>5, <1>6, <4>1, <4>2, <4>3
    <3>. QED
      BY <1>1, <2>3, <2>4, <3>1 DEF BufOf
  <2>5. CASE x = "free"
    <3>. HIDE DEF n
    <3>1. i \in 1 .. n /\ i \in 1 .. n + Len(at[q])
      BY <1>2, <2>3, <2>5
    <3>2. i \in DOMAIN new["free"] /\ new["free"][i] = at["free"][i]
      BY <1>5, <1>6, <3>1
    <3>. QED
      BY <1>1, <2>3, <2>5, <3>2
  <2>6. CASE x \notin {"free", q}
    BY <1>6, <2>3, <2>6
  <2>. QED
    BY <2>4, <2>5, <2>6
<1>. QED
  BY <1>8, <1>9, <1>10 DEF Holds, new

(* csp_promisc_add loses no buffer, whether it finds one for the copy,      *)
(* room for it, or neither.                                                 *)
LEMMA PromiscHolds ==
  ASSUME NEW at, NEW S, Holds(at, S), NEW p \in Packets
  PROVE  Holds(PromiscAdd(at, p), S)
<1>1. CASE at.free = <<>>
  BY <1>1 DEF PromiscAdd
<1>2. CASE at.free # <<>>
  <2>. DEFINE b == Head(at["free"])
              copy == [p EXCEPT !.buf = b]
              rest == [at EXCEPT !["free"] = Tail(@)]
  <2>1. "free" \in Places /\ at["free"] # <<>> /\ BufOf("free", b) = b
    BY <1>2 DEF Places, BufOf
  <2>2. Fits("free", b) /\ b \in S /\ Holds(rest, S \ {b})
    BY <2>1, TakeHead
  <2>3. copy \in Packets /\ copy.buf = b
    BY <2>2 DEF Fits, Packets
  <2>4. Fits("promisc", copy) /\ "promisc" \in Queues
    BY <2>3 DEF Fits, Queues
  <2>5. Holds(PutOrFree(rest, "promisc", copy), (S \ {b}) \cup {b})
    BY <2>2, <2>3, <2>4, PutHolds
  <2>6. (S \ {b}) \cup {b} = S
    BY <2>2
  <2>. QED
    BY <1>2, <2>5, <2>6 DEF PromiscAdd
<1>. QED
  BY <1>1, <1>2

(* What may be given to csp_send_direct: promiscuous mode has seen it       *)
(* unless it does there or will in the router.                              *)
Sendable(p, iface) ==
  /\ p \in Packets
  /\ iface \in {"lo", "ifA", "ifB", "none"}
  /\ iface = "lo" => p.dst = "me" /\ p.seen = 0
  /\ iface \in {"ifA", "ifB"} => p.seen = IF SeenHere(p) THEN 0 ELSE 1

(* The packet that left was seen once.                                      *)
SeenOnce(out) == out.on \in {"ifA", "ifB"} => out.seen = 1

(* Whether csp_send_direct takes the packet or fails and the caller frees   *)
(* it, the buffer is at one place after it.                                 *)
LEMMA SendHolds ==
  ASSUME NEW at, NEW p, NEW iface, Sendable(p, iface), Holds(at, RtrBuffers \ {p.buf}),
         SeenOnce(rtrOut), SendOrFree(at, p, iface)
  PROVE  Holds(rtrAt', RtrBuffers) /\ SeenOnce(rtrOut')
<1>. DEFINE S == RtrBuffers \ {p.buf}
<1>0. p.buf \notin S /\ S \cup {p.buf} = RtrBuffers /\ Holds(at, S)
  BY DEF Sendable, Packets
<1>. HIDE DEF S
<1>1. p \in Packets /\ p.buf \in RtrBuffers
  BY DEF Sendable, Packets
<1>2. Holds(SeenAt(at, p), S)
  BY <1>0, <1>1, PromiscHolds DEF SeenAt
<1>3. Seen(p) \in Packets /\ Seen(p).buf = p.buf /\ Seen(p).dst = p.dst
      /\ Seen(p).seen = p.seen + (IF SeenHere(p) THEN 1 ELSE 0)
  BY <1>1 DEF Seen, Packets
<1>4. CASE /\ iface # "none"
           /\ rtrAt' = Taken(SeenAt(at, p), Seen(p), iface)
           /\ rtrOut' = [on |-> iface, seen |-> Seen(p).seen]
  <2>1. SeenOnce(rtrOut')
    BY <1>3, <1>4 DEF Sendable, SeenOnce
  <2>2. CASE iface = "lo"
    <3>. DEFINE mine == [Seen(p) EXCEPT !.in = "lo"]
    <3>1. p.dst = "me" /\ p.seen = 0 /\ ~SeenHere(p)
      BY <2>2 DEF Sendable, SeenHere
    <3>2. mine \in Packets /\ mine.buf = p.buf /\ mine.seen = 0 /\ mine.dst = "me"
      BY <1>3, <3>1 DEF Packets
    <3>3. Fits("input", mine) /\ "input" \in Queues
      BY <3>2 DEF Fits, Queues
    <3>4. Holds(PutOrFree(SeenAt(at, p), "input", mine), S \cup {p.buf})
      BY <1>0, <1>2, <3>2, <3>3, PutHolds
    <3>. QED
      BY <1>0, <1>3, <1>4, <2>1, <2>2, <3>1, <3>4 DEF Taken
  <2>3. CASE iface # "lo"
    <3>1. Holds(Freed(SeenAt(at, p), Seen(p)), S \cup {p.buf})
      BY <1>0, <1>1, <1>2, <1>3, FreedHolds
    <3>. QED
      BY <1>0, <1>4, <2>1, <2>3, <3>1 DEF Taken
  <2>. QED
    BY <2>2, <2>3
<1>5. CASE /\ rtrAt' = Freed(IF iface = "none" THEN at ELSE SeenAt(at, p), p)
           /\ UNCHANGED rtrOut
  <2>1. Holds(rtrAt', S \cup {p.buf})
    BY <1>0, <1>1, <1>2, <1>5, FreedHolds
  <2>. QED
    BY <1>0, <1>5, <2>1
<1>. QED
  BY <1>4, <1>5 DEF SendOrFree

(* The inductive invariant.                                                 *)
RtrInv == /\ Holds(rtrAt, RtrBuffers)
          /\ SeenOnce(rtrOut)
          /\ rtrOpen \subseteq Connections

(* A task takes the first packet of a queue ...                             *)
LEMMA RtrAtHead ==
  ASSUME RtrInv, NEW q \in Queues \cup Hands, rtrAt[q] # <<>>
  PROVE  /\ Fits(q, Head(rtrAt[q])) /\ Head(rtrAt[q]) \in Packets
         /\ Head(rtrAt[q]).buf \in RtrBuffers
         /\ Holds([rtrAt EXCEPT ![q] = Tail(@)], RtrBuffers \ {Head(rtrAt[q]).buf})
<1>1. q \in Places /\ q # "free" /\ BufOf(q, Head(rtrAt[q])) = Head(rtrAt[q]).buf
  BY DEF Places, Queues, Hands, Connections, BufOf
<1>2. Fits(q, Head(rtrAt[q]))
  BY <1>1, TakeHead DEF RtrInv
<1>3. Head(rtrAt[q]) \in Packets
  BY <1>1, <1>2 DEF Fits
<1>4. Head(rtrAt[q]).buf \in RtrBuffers
  BY <1>3 DEF Packets
<1>5. Holds([rtrAt EXCEPT ![q] = Tail(@)], RtrBuffers \ {BufOf(q, Head(rtrAt[q]))})
  BY <1>1, TakeHead DEF RtrInv
<1>. QED
  BY <1>1, <1>2, <1>3, <1>4, <1>5

(* ... or the first free buffer ...                                         *)
LEMMA RtrFreeHead ==
  ASSUME RtrInv, rtrAt.free # <<>>
  PROVE  /\ Head(rtrAt.free) \in RtrBuffers
         /\ Holds([rtrAt EXCEPT !.free = Tail(@)], RtrBuffers \ {Head(rtrAt.free)})
<1>1. "free" \in Places /\ rtrAt["free"] # <<>> /\ BufOf("free", Head(rtrAt["free"])) = Head(rtrAt["free"])
  BY DEF Places, BufOf
<1>. QED
  BY <1>1, TakeHead DEF RtrInv

(* ... or the router gives away the packet it holds.                        *)
LEMMA RtrPassed ==
  ASSUME RtrInv, NEW h \in Hands, rtrAt[h] # <<>>
  PROVE  /\ Fits(h, Head(rtrAt[h])) /\ Head(rtrAt[h]) \in Packets /\ Head(rtrAt[h]).buf \in RtrBuffers
         /\ Holds([rtrAt EXCEPT ![h] = <<>>], RtrBuffers \ {Head(rtrAt[h]).buf})
<1>1. Room(h) = 1
  BY DEF Room
<1>2. rtrAt[h] \in Seq(RtrBuffers \cup Packets) /\ Len(rtrAt[h]) <= 1
  BY <1>1 DEF RtrInv, Holds, FitIn, Places
<1>3. Tail(rtrAt[h]) = <<>>
  BY <1>2
<1>4. [rtrAt EXCEPT ![h] = <<>>] = [rtrAt EXCEPT ![h] = Tail(@)]
  BY <1>3
<1>. QED
  BY <1>4, RtrAtHead

(* ... the one it just read ...                                             *)
LEMMA RtrHas ==
  ASSUME RtrInv, rtrAt.router # <<>>
  PROVE  /\ Fits("router", Routed) /\ Routed \in Packets /\ Routed.buf \in RtrBuffers
         /\ Holds(Passed, RtrBuffers \ {Routed.buf})
<1>1. "router" \in Hands
  BY DEF Hands
<1>. QED
  BY <1>1, RtrPassed DEF Routed, Passed

(* csp_qfifo_write for a packet that an interface received.                 *)
LEMMA RtrReceiveInv == RtrInv /\ RtrReceive => RtrInv'
<1>. SUFFICES ASSUME RtrInv, RtrReceive PROVE RtrInv'
  OBVIOUS
<1>. DEFINE b == Head(rtrAt.free)
            rest == [rtrAt EXCEPT !.free = Tail(@)]
<1>1. b \in RtrBuffers /\ Holds(rest, RtrBuffers \ {b})
  BY RtrFreeHead DEF RtrReceive
<1>2. PICK p \in RtrIncoming : rtrAt' = PutOrFree(rest, "input", Received(p, b))
  BY DEF RtrReceive
<1>3. Received(p, b) \in Packets /\ Received(p, b).buf = b /\ Received(p, b).seen = 0
      /\ Received(p, b).src # "me"
  BY <1>1, RtrAssumption DEF Received, Packets, Nodes
<1>4. Fits("input", Received(p, b)) /\ "input" \in Queues
  BY <1>3 DEF Fits, Queues
<1>5. Holds(rtrAt', (RtrBuffers \ {b}) \cup {b})
  BY <1>1, <1>2, <1>3, <1>4, PutHolds
<1>6. (RtrBuffers \ {b}) \cup {b} = RtrBuffers
  BY <1>1
<1>. QED
  BY <1>5, <1>6 DEF RtrInv, RtrReceive

(* The router reads a packet.                                               *)
LEMMA RtrReadInv == RtrInv /\ RtrRead => RtrInv'
<1>. SUFFICES ASSUME RtrInv, RtrRead PROVE RtrInv'
  OBVIOUS
<1>. DEFINE p == Head(rtrAt["input"])
            seen == [p EXCEPT !.seen = @ + 1]
            rest == [rtrAt EXCEPT !["input"] = Tail(@)]
            held == [rest EXCEPT !["router"] = Append(@, seen)]
<1>1. rtrAt["input"] # <<>> /\ rtrAt["router"] = <<>> /\ "input" \in Queues
  BY DEF RtrRead, Queues
<1>2. /\ Fits("input", p) /\ p \in Packets /\ p.buf \in RtrBuffers
      /\ Holds(rest, RtrBuffers \ {p.buf})
  BY <1>1, RtrAtHead
<1>3. seen \in Packets /\ seen.buf = p.buf /\ seen.seen = 1 /\ seen.src = p.src /\ seen.dst = p.dst
  BY <1>2 DEF Packets, Fits
<1>4. Fits("router", seen) /\ "router" \in Places /\ BufOf("router", seen) = p.buf /\ Room("router") = 1
  BY <1>2, <1>3 DEF Fits, Places, Hands, BufOf, Room
<1>5. rest["router"] = <<>>
  BY <1>1 DEF RtrInv, Holds, FitIn
<1>6. Holds(held, (RtrBuffers \ {p.buf}) \cup {p.buf})
  <2>1. Len(rest["router"]) < Room("router")
    BY <1>4, <1>5
  <2>2. BufOf("router", seen) \notin RtrBuffers \ {p.buf}
    BY <1>4
  <2>. HIDE DEF rest, p, seen
  <2>3. Holds(held, (RtrBuffers \ {p.buf}) \cup {BufOf("router", seen)})
    BY <1>2, <1>4, <2>1, <2>2, AddLast
  <2>. QED
    BY <1>4, <2>3
<1>7. (RtrBuffers \ {p.buf}) \cup {p.buf} = RtrBuffers
  BY <1>2
<1>8. held = [rtrAt EXCEPT !.input = Tail(@), !.router = <<seen>>]
  <2>1. rtrAt \in [Places -> Seq(RtrBuffers \cup Packets)] /\ "router" \in Places /\ "input" \in Places
    BY DEF RtrInv, Holds, FitIn, Places, Hands, Queues
  <2>2. Append(rest["router"], seen) = <<seen>>
    <3>. HIDE DEF rest, seen
    <3>1. Append(<<>>, seen) = <<seen>>
      OBVIOUS
    <3>. QED
      BY <1>5, <3>1
  <2>3. held = [rest EXCEPT !["router"] = <<seen>>]
    BY <2>2
  <2>. QED
    BY <2>1, <2>3
<1>9. Holds(PromiscAdd(held, p), RtrBuffers)
  BY <1>2, <1>6, <1>7, PromiscHolds
<1>10. rtrAt' = PromiscAdd(held, p)
  BY <1>8 DEF RtrRead
<1>. QED
  BY <1>9, <1>10 DEF RtrInv, RtrRead

(* It forwards it ...                                                       *)
LEMMA RtrForwardInv == RtrInv /\ RtrForward => RtrInv'
<1>. SUFFICES ASSUME RtrInv, RtrForward PROVE RtrInv'
  OBVIOUS
<1>. DEFINE b == Routed.buf
<1>1. rtrAt.router # <<>> /\ ~ForMe(Routed)
  BY DEF RtrForward, RouterHas
<1>2. /\ Fits("router", Routed) /\ Routed \in Packets /\ b \in RtrBuffers
      /\ Holds(Passed, RtrBuffers \ {b})
  BY <1>1, RtrHas
<1>3. (RtrBuffers \ {b}) \cup {b} = RtrBuffers
  BY <1>2
<1>4. CASE SendOrFree(Passed, Routed, Iface[Routed.dst])
  <2>1. Routed.seen = 1 /\ Routed.src # "me" /\ Routed.dst \in {"A", "B", "nowhere"}
    BY <1>1, <1>2 DEF Fits, ForMe, Packets, Nodes
  <2>2. Sendable(Routed, Iface[Routed.dst])
    BY <1>2, <2>1 DEF Sendable, Iface, SeenHere
  <2>3. Holds(rtrAt', RtrBuffers) /\ SeenOnce(rtrOut')
    BY <1>2, <1>4, <2>2, SendHolds DEF RtrInv
  <2>. QED
    BY <2>3 DEF RtrInv, RtrForward
<1>5. CASE rtrAt' = Freed(Passed, Routed) /\ UNCHANGED rtrOut
  <2>1. Holds(rtrAt', RtrBuffers)
    BY <1>2, <1>3, <1>5, FreedHolds
  <2>. QED
    BY <1>5, <2>1 DEF RtrInv, RtrForward
<1>. QED
  BY <1>4, <1>5 DEF RtrForward

(* ... or finds a connection for it ...                                     *)
LEMMA RtrFindInv == RtrInv /\ RtrFind => RtrInv'
<1>. SUFFICES ASSUME RtrInv, RtrFind PROVE RtrInv'
  OBVIOUS
<1>. DEFINE b == Routed.buf
            after == [Passed EXCEPT !["found"] = Append(@, Routed)]
<1>1. /\ Fits("router", Routed) /\ Routed \in Packets /\ b \in RtrBuffers
      /\ Holds(Passed, RtrBuffers \ {b})
  BY RtrHas DEF RtrFind, RouterHas
<1>2. (RtrBuffers \ {b}) \cup {b} = RtrBuffers
  BY <1>1
<1>3. rtrAt["found"] = <<>> /\ rtrAt \in [Places -> Seq(RtrBuffers \cup Packets)]
  BY DEF RtrInv, Holds, FitIn, RtrFind, RouterHas
<1>4. "found" \in Places /\ Fits("found", Routed) /\ BufOf("found", Routed) = b /\ Room("found") = 1
  BY <1>1 DEF Places, Hands, Fits, BufOf, Room
<1>5. Passed["found"] = <<>> /\ Len(Passed["found"]) < Room("found")
  BY <1>3, <1>4 DEF Passed
<1>6. Holds(after, RtrBuffers)
  <2>1. BufOf("found", Routed) \notin RtrBuffers \ {b}
    BY <1>4
  <2>2. Holds(after, (RtrBuffers \ {b}) \cup {BufOf("found", Routed)})
    BY <1>1, <1>4, <1>5, <2>1, AddLast
  <2>. QED
    BY <1>2, <1>4, <2>2
<1>7. rtrAt' = after
  <2>1. Append(<<>>, Routed) = <<Routed>>
    OBVIOUS
  <2>2. rtrAt' = [Passed EXCEPT !["found"] = <<Routed>>]
    BY <1>3 DEF RtrFind, Passed
  <2>. QED
    BY <1>5, <2>1, <2>2
<1>. QED
  BY <1>6, <1>7 DEF RtrInv, RtrFind

(* ... enqueues it there ...                                                *)
LEMMA RtrEnqueueInv == RtrInv /\ RtrEnqueue => RtrInv'
<1>. SUFFICES ASSUME RtrInv, RtrEnqueue PROVE RtrInv'
  OBVIOUS
<1>. DEFINE b == Found.buf
            c == Destination[Found.port]
            p == [Found EXCEPT !.late = c \notin rtrOpen]
            rest == [rtrAt EXCEPT !["found"] = <<>>]
<1>1. /\ Fits("found", Found) /\ Found \in Packets /\ b \in RtrBuffers
      /\ Holds(rest, RtrBuffers \ {b})
  BY RtrPassed DEF RtrEnqueue, Hands, Found
<1>2. (RtrBuffers \ {b}) \cup {b} = RtrBuffers
  BY <1>1
<1>3. c \in {"sock", "conn", "server"}
  BY <1>1 DEF Packets, Destination
<1>4. p \in Packets /\ p.buf = b /\ p.seen = Found.seen
  BY <1>1 DEF Packets
<1>5. c \in Queues /\ Fits(c, p)
  BY <1>1, <1>3, <1>4 DEF Queues, Connections, Fits
<1>. HIDE DEF c, p, rest
<1>6. Holds(PutOrFree(rest, c, p), RtrBuffers)
  BY <1>1, <1>2, <1>4, <1>5, PutHolds
<1>7. rtrAt' = PutOrFree(rest, c, p) /\ UNCHANGED <<rtrOpen, rtrOut>>
  BY DEF RtrEnqueue, c, p, rest
<1>. QED
  BY <1>6, <1>7 DEF RtrInv

(* ... or delivers it otherwise ...                                         *)
LEMMA RtrDeliverInv == RtrInv /\ RtrDeliver => RtrInv'
<1>. SUFFICES ASSUME RtrInv, RtrDeliver PROVE RtrInv'
  OBVIOUS
<1>. DEFINE b == Routed.buf
<1>1. rtrAt.router # <<>> /\ rtrOut' = rtrOut /\ rtrOpen' \subseteq Connections
  BY DEF RtrDeliver, RouterHas, RtrInv, Connections
<1>2. /\ Fits("router", Routed) /\ Routed \in Packets /\ b \in RtrBuffers
      /\ Holds(Passed, RtrBuffers \ {b})
  BY <1>1, RtrHas
<1>3. (RtrBuffers \ {b}) \cup {b} = RtrBuffers
  BY <1>2
<1>4. ASSUME NEW q \in {"sock", "server"} PROVE q \in Queues /\ Fits(q, Routed)
  BY <1>2 DEF Queues, Connections, Fits
<1>5. CASE rtrAt' = PutOrFree(Passed, "sock", Routed)
  <2>1. Holds(rtrAt', RtrBuffers)
    BY <1>2, <1>3, <1>4, <1>5, PutHolds
  <2>. QED
    BY <1>1, <2>1 DEF RtrInv
<1>6. CASE rtrAt' = PutOrFree(Emptied(Passed, "server"), "server", Routed)
  <2>1. Holds(Emptied(Passed, "server"), RtrBuffers \ {b})
    BY <1>2, <1>4, EmptiedHolds
  <2>2. Holds(rtrAt', RtrBuffers)
    BY <1>2, <1>3, <1>4, <1>6, <2>1, PutHolds
  <2>. QED
    BY <1>1, <2>2 DEF RtrInv
<1>7. CASE rtrAt' = Freed(Passed, Routed)
  <2>1. Holds(rtrAt', RtrBuffers)
    BY <1>2, <1>3, <1>7, FreedHolds
  <2>. QED
    BY <1>1, <2>1 DEF RtrInv
<1>. QED
  BY <1>5, <1>6, <1>7 DEF RtrDeliver

(* ... or the bridge passes it on.                                          *)
LEMMA RtrBridgeInv == RtrInv /\ RtrBridge => RtrInv'
<1>. SUFFICES ASSUME RtrInv, RtrBridge PROVE RtrInv'
  OBVIOUS
<1>. DEFINE b == Routed.buf
            iface == IF Routed.in = "ifA" THEN "ifB" ELSE "ifA"
<1>1. /\ Fits("router", Routed) /\ Routed \in Packets /\ b \in RtrBuffers
      /\ Holds(Passed, RtrBuffers \ {b})
  BY RtrHas DEF RtrBridge
<1>2. (RtrBuffers \ {b}) \cup {b} = RtrBuffers
  BY <1>1
<1>3. Sendable(Routed, iface)
  BY <1>1 DEF Fits, Sendable, SeenHere
<1>4. Holds(rtrAt', RtrBuffers) /\ SeenOnce(rtrOut')
  BY <1>1, <1>3, SendHolds DEF RtrInv, RtrBridge
<1>. QED
  BY <1>4 DEF RtrInv, RtrBridge

(* csp_transaction sends a request.                                         *)
LEMMA RtrTransactionInv == RtrInv /\ RtrTransaction => RtrInv'
<1>. SUFFICES ASSUME RtrInv, RtrTransaction PROVE RtrInv'
  OBVIOUS
<1>. DEFINE at == Emptied(rtrAt, "conn")
            b == Head(at["free"])
            rest == [at EXCEPT !["free"] = Tail(@)]
            request(dst) == [Request(dst) EXCEPT !.buf = b]
<1>1. Holds(at, RtrBuffers) /\ rtrOpen' \subseteq Connections
  BY EmptiedHolds DEF RtrInv, RtrTransaction, Queues, Connections
<1>2. CASE at.free = <<>>
  BY <1>1, <1>2 DEF RtrInv, RtrTransaction
<1>3. CASE at.free # <<>>
  <2>1. b \in RtrBuffers /\ Holds(rest, RtrBuffers \ {b})
    <3>. HIDE DEF at
    <3>1. "free" \in Places /\ at["free"] # <<>> /\ BufOf("free", b) = b
      BY <1>3 DEF Places, BufOf
    <3>. QED
      BY <1>1, <3>1, TakeHead
  <2>2. PICK dst \in {"me", "A", "nowhere"} : SendOrFree(rest, request(dst), Iface[dst])
    BY <1>3 DEF RtrTransaction
  <2>. HIDE DEF b, rest
  <2>3. /\ request(dst) \in Packets /\ request(dst).buf = b /\ request(dst).seen = 0
        /\ request(dst).src = "me" /\ request(dst).dst = dst
    BY <2>1 DEF Request, NoPacket, Packets, Nodes
  <2>4. Sendable(request(dst), Iface[dst])
    BY <2>3 DEF Sendable, Iface, SeenHere
  <2>5. Holds(rtrAt', RtrBuffers) /\ SeenOnce(rtrOut')
    <3>. HIDE DEF request
    <3>. QED
      BY <2>1, <2>2, <2>3, <2>4, SendHolds DEF RtrInv
  <2>. QED
    BY <1>1, <2>5 DEF RtrInv
<1>. QED
  BY <1>2, <1>3

(* A reply is a packet of this node that nobody has seen.                   *)
LEMMA AnswerSendable ==
  ASSUME NEW p \in Packets
  PROVE  Answer(p).buf = p.buf /\ Sendable(Answer(p), Iface[Answer(p).dst])
<1>1. /\ Answer(p) \in Packets /\ Answer(p).buf = p.buf /\ Answer(p).seen = 0
      /\ Answer(p).src = "me" /\ Answer(p).dst \in {"me", "A", "B", "nowhere"}
  BY DEF Answer, Packets, Nodes
<1>. QED
  BY <1>1 DEF Sendable, Iface, SeenHere

(* csp_service_handler ...                                                  *)
LEMMA RtrServeInv == RtrInv /\ RtrServe => RtrInv'
<1>. SUFFICES ASSUME RtrInv, RtrServe PROVE RtrInv'
  OBVIOUS
<1>. DEFINE p == Head(rtrAt["server"])
            rest == [rtrAt EXCEPT !["server"] = Tail(@)]
<1>1. /\ p \in Packets /\ p.buf \in RtrBuffers /\ Holds(rest, RtrBuffers \ {p.buf})
  BY RtrAtHead DEF RtrServe, Queues, Connections
<1>2. (RtrBuffers \ {p.buf}) \cup {p.buf} = RtrBuffers
  BY <1>1
<1>3. CASE SendOrFree(rest, Answer(p), Iface[Answer(p).dst])
  <2>1. Holds(rtrAt', RtrBuffers) /\ SeenOnce(rtrOut')
    <3>1. Answer(p).buf = p.buf /\ Sendable(Answer(p), Iface[Answer(p).dst])
      BY <1>1, AnswerSendable
    <3>. QED
      BY <1>1, <1>3, <3>1, SendHolds DEF RtrInv
  <2>. QED
    BY <2>1 DEF RtrInv, RtrServe
<1>4. CASE rtrAt' = Freed(rest, p) /\ UNCHANGED rtrOut
  <2>1. Holds(rtrAt', RtrBuffers)
    BY <1>1, <1>2, <1>4, FreedHolds
  <2>. QED
    BY <1>4, <2>1 DEF RtrInv, RtrServe
<1>. QED
  BY <1>3, <1>4 DEF RtrServe

(* ... and a task with a connection-less socket reply.                      *)
LEMMA RtrReceiveFromInv == RtrInv /\ RtrReceiveFrom => RtrInv'
<1>. SUFFICES ASSUME RtrInv, RtrReceiveFrom PROVE RtrInv'
  OBVIOUS
<1>. DEFINE p == Head(rtrAt["sock"])
            rest == [rtrAt EXCEPT !["sock"] = Tail(@)]
<1>1. /\ p \in Packets /\ p.buf \in RtrBuffers /\ Holds(rest, RtrBuffers \ {p.buf})
  BY RtrAtHead DEF RtrReceiveFrom, Queues
<1>2. Answer(p).buf = p.buf /\ Sendable(Answer(p), Iface[Answer(p).dst])
  BY <1>1, AnswerSendable
<1>3. SendOrFree(rest, Answer(p), Iface[Answer(p).dst])
  BY DEF RtrReceiveFrom
<1>4. Holds(rtrAt', RtrBuffers) /\ SeenOnce(rtrOut')
  BY <1>1, <1>2, <1>3, SendHolds DEF RtrInv
<1>. QED
  BY <1>4 DEF RtrInv, RtrReceiveFrom

(* Who reads a packet frees it.                                             *)
LEMMA RtrReadersInv == RtrInv /\ (RtrReply \/ RtrWatch) => RtrInv'
<1>. SUFFICES ASSUME RtrInv, NEW q \in {"conn", "promisc"}, rtrAt[q] # <<>>,
                     rtrAt' = Freed([rtrAt EXCEPT ![q] = Tail(@)], Head(rtrAt[q])),
                     UNCHANGED <<rtrMode, rtrOpen, rtrOut, rtrCount>>
              PROVE  RtrInv'
  BY DEF RtrReply, RtrWatch
<1>1. /\ Head(rtrAt[q]).buf \in RtrBuffers
      /\ Holds([rtrAt EXCEPT ![q] = Tail(@)], RtrBuffers \ {Head(rtrAt[q]).buf})
  BY RtrAtHead DEF Queues, Connections
<1>2. (RtrBuffers \ {Head(rtrAt[q]).buf}) \cup {Head(rtrAt[q]).buf} = RtrBuffers
  BY <1>1
<1>3. Holds(rtrAt', RtrBuffers)
  BY <1>1, <1>2, FreedHolds
<1>. QED
  BY <1>3 DEF RtrInv

(* csp_close.                                                               *)
LEMMA RtrCloseInv == RtrInv /\ (\E c \in Connections : RtrClose(c)) => RtrInv'
<1>. SUFFICES ASSUME RtrInv, NEW c \in Connections, RtrClose(c) PROVE RtrInv'
  OBVIOUS
<1>1. Holds(rtrAt', RtrBuffers)
  BY EmptiedHolds DEF RtrInv, RtrClose, Queues
<1>. QED
  BY <1>1 DEF RtrInv, RtrClose

(* The pool as a list: each buffer is on it, none twice.                    *)
LEMMA PoolListed ==
  /\ SetToSeq(RtrBuffers) \in Seq(RtrBuffers)
  /\ \A i, j \in DOMAIN SetToSeq(RtrBuffers) :
       SetToSeq(RtrBuffers)[i] = SetToSeq(RtrBuffers)[j] => i = j
  /\ \A b \in RtrBuffers : \E i \in DOMAIN SetToSeq(RtrBuffers) : SetToSeq(RtrBuffers)[i] = b
<1>. DEFINE n == Cardinality(RtrBuffers)
            f == SetToSeq(RtrBuffers)
<1>1. IsFiniteSet(RtrBuffers)
  BY RtrAssumption
<1>2. n \in Nat /\ ExistsBijection(1 .. n, RtrBuffers)
  BY <1>1, FS_CardinalityType
<1>3. PICK g \in Bijection(1 .. n, RtrBuffers) : TRUE
  BY <1>2 DEF ExistsBijection
<1>4. \E h \in [1 .. n -> RtrBuffers] : IsInjective(h)
  BY <1>3 DEF Bijection, Injection
<1>5. f \in [1 .. n -> RtrBuffers] /\ IsInjective(f)
  BY <1>4 DEF SetToSeq
<1>6. f \in Seq(RtrBuffers)
  BY <1>2, <1>5
<1>7. f \in Injection(1 .. n, RtrBuffers)
  BY <1>5 DEF Injection
<1>8. Cardinality(1 .. n) = n
  BY <1>2, FS_Interval
<1>9. f \in Surjection(1 .. n, RtrBuffers)
  <2>1. Cardinality(1 .. n) = Cardinality(RtrBuffers) <=> f \in Surjection(1 .. n, RtrBuffers)
    <3>. HIDE DEF f, n
    <3>. QED
      BY <1>1, <1>7, FS_Injection
  <2>. QED
    BY <1>8, <2>1
<1>10. \A b \in RtrBuffers : \E i \in 1 .. n : f[i] = b
  BY <1>9 DEF Surjection
<1>11. DOMAIN f = 1 .. n
  BY <1>5
<1>12. \A i, j \in DOMAIN f : f[i] = f[j] => i = j
  BY <1>5 DEF IsInjective
<1>. HIDE DEF f
<1>13. /\ f \in Seq(RtrBuffers)
       /\ \A i, j \in DOMAIN f : f[i] = f[j] => i = j
       /\ \A b \in RtrBuffers : \E i \in DOMAIN f : f[i] = b
  BY <1>6, <1>10, <1>11, <1>12
<1>. QED
  BY <1>13 DEF f

(* In the beginning all buffers are free.                                   *)
LEMMA RtrInitInv == RtrInit => RtrInv
<1>. SUFFICES ASSUME RtrInit PROVE RtrInv
  OBVIOUS
<1>. DEFINE f == SetToSeq(RtrBuffers)
<1>1. /\ f \in Seq(RtrBuffers)
      /\ \A i, j \in DOMAIN f : f[i] = f[j] => i = j
      /\ \A b \in RtrBuffers : \E i \in DOMAIN f : f[i] = b
  BY PoolListed
<1>2. rtrAt = [x \in Places |-> IF x = "free" THEN f ELSE <<>>]
  BY DEF RtrInit, Places
<1>. HIDE DEF f
<1>3. f \in Seq(RtrBuffers \cup Packets) /\ <<>> \in Seq(RtrBuffers \cup Packets)
  BY <1>1
<1>4. rtrAt \in [Places -> Seq(RtrBuffers \cup Packets)]
  BY <1>2, <1>3
<1>5. "free" \in Places /\ rtrAt["free"] = f
  BY <1>2 DEF Places
<1>6. ASSUME NEW x \in Places, NEW i \in DOMAIN rtrAt[x]
      PROVE  x = "free" /\ i \in DOMAIN f /\ rtrAt[x][i] = f[i] /\ f[i] \in RtrBuffers
  <2>1. x = "free"
    BY <1>2, <1>6
  <2>. QED
    BY <1>1, <1>5, <1>6, <2>1
<1>7. FitIn(rtrAt)
  <2>1. \A x \in Places : \A i \in DOMAIN rtrAt[x] : Fits(x, rtrAt[x][i])
    BY <1>6 DEF Fits
  <2>2. ASSUME NEW x \in Queues \cup Hands PROVE Len(rtrAt[x]) <= Room(x)
    <3>1. rtrAt[x] = <<>> /\ Room(x) \in Nat
      BY <1>2, RtrAssumption DEF Places, Queues, Connections, Hands, Room
    <3>. QED
      BY <3>1
  <2>. QED
    BY <1>4, <2>1, <2>2 DEF FitIn
<1>8. Apart(rtrAt)
  BY <1>1, <1>6 DEF Apart, BufOf
<1>9. Occupied(rtrAt) = RtrBuffers
  BY <1>1, <1>5 DEF Occupied, BufOf
<1>10. SeenOnce(rtrOut) /\ rtrOpen \subseteq Connections
  BY DEF RtrInit, SeenOnce
<1>. QED
  BY <1>7, <1>8, <1>9, <1>10 DEF RtrInv, Holds

(* No step breaks the invariant.                                            *)
LEMMA RtrNextInv == RtrInv /\ [RtrNext]_rtrVars => RtrInv'
<1>. SUFFICES ASSUME RtrInv, [RtrNext]_rtrVars PROVE RtrInv'
  OBVIOUS
<1>1. CASE UNCHANGED rtrVars
  BY <1>1 DEF RtrInv, rtrVars
<1>2. CASE RtrNext
  BY <1>2, RtrReceiveInv, RtrTransactionInv, RtrReadInv, RtrForwardInv, RtrFindInv,
     RtrEnqueueInv, RtrDeliverInv, RtrBridgeInv,
     RtrReadersInv, RtrCloseInv, RtrServeInv, RtrReceiveFromInv
  DEF RtrNext, RtrRoute
<1>. QED
  BY <1>1, <1>2

(* The inductive invariant holds.                                           *)
THEOREM RtrInvariance == RtrSpec => []RtrInv
BY RtrInitInv, RtrNextInv, PTL DEF RtrSpec

(* What a closed connection may keep: the one packet that the router had     *)
(* found it for while it was open and enqueued after csp_close.             *)
Left == /\ \A c \in Connections \ rtrOpen : \A i \in DOMAIN rtrAt[c] : i = 1 /\ rtrAt[c][i].late
        /\ rtrAt.found # <<>> => LET c == Destination[Found.port]
                                IN  c \in Connections /\ (c \notin rtrOpen => rtrAt[c] = <<>>)

(* A step that changes no closed connection, and no open one that closes.   *)
Others == Connections \cup {"found"}

LEMMA LeftAlone ==
  ASSUME Left, rtrOpen \subseteq rtrOpen', rtrAt'["found"] \in {rtrAt["found"], <<>>},
         \A c \in Connections \ rtrOpen' : rtrAt'[c] = rtrAt[c]
  PROVE  Left'
BY DEF Left, Found

(* The calls on the way touch only the pool and their own queue.            *)
LEMMA PutOthers ==
  ASSUME NEW at, DOMAIN at = Places, NEW q \in Queues, NEW p, NEW x \in Places, x # q, x # "free"
  PROVE  PutOrFree(at, q, p)[x] = at[x] /\ DOMAIN PutOrFree(at, q, p) = Places
BY DEF PutOrFree, Freed, Places

LEMMA EmptiedOthers ==
  ASSUME NEW at, DOMAIN at = Places, NEW q \in Queues
  PROVE  /\ \A x \in Places \ {q, "free"} : Emptied(at, q)[x] = at[x]
         /\ Emptied(at, q)[q] = <<>> /\ DOMAIN Emptied(at, q) = Places
BY DEF Emptied, Places, Queues, Connections

LEMMA SendOthers ==
  ASSUME NEW at, DOMAIN at = Places, NEW p, NEW iface, SendOrFree(at, p, iface), NEW x \in Others
  PROVE  rtrAt'[x] = at[x]
<1>1. x \in Places \ {"free", "promisc", "input"}
  BY DEF Others, Places, Queues, Hands, Connections
<1>2. "promisc" \in Queues /\ "input" \in Queues
  BY DEF Queues
<1>3. ASSUME NEW here, DOMAIN here = Places, NEW m
      PROVE  Freed(here, m)[x] = here[x] /\ DOMAIN Freed(here, m) = Places
  BY <1>1, <1>3 DEF Freed
<1>4. SeenAt(at, p)[x] = at[x] /\ DOMAIN SeenAt(at, p) = Places
  <2>. DEFINE rest == [at EXCEPT !.free = Tail(@)]
  <2>1. rest[x] = at[x] /\ DOMAIN rest = Places
    BY <1>1
  <2>. HIDE DEF rest
  <2>2. \A m : PutOrFree(rest, "promisc", m)[x] = at[x] /\ DOMAIN PutOrFree(rest, "promisc", m) = Places
    BY <1>1, <1>2, <2>1, PutOthers
  <2>. QED
    BY <2>2 DEF SeenAt, PromiscAdd, rest
<1>5. Taken(SeenAt(at, p), Seen(p), iface)[x] = at[x]
  <2>. DEFINE here == SeenAt(at, p)
  <2>. HIDE DEF here
  <2>1. here[x] = at[x] /\ DOMAIN here = Places
    BY <1>4 DEF here
  <2>2. \A m : PutOrFree(here, "input", m)[x] = at[x]
    BY <1>1, <1>2, <2>1, PutOthers
  <2>. QED
    BY <1>3, <2>1, <2>2 DEF Taken, here
<1>. QED
  BY <1>3, <1>4, <1>5 DEF SendOrFree

(* Most steps leave the connections and the router's find alone.            *)
LEMMA LeftQuiet ==
  ASSUME Left, rtrOpen \subseteq rtrOpen',
         \A x \in Others : x \in rtrOpen' \/ rtrAt'[x] = rtrAt[x],
         rtrOpen' \subseteq Connections
  PROVE  Left'
<1>1. "found" \notin Connections /\ "found" \in Others /\ Connections \subseteq Others
  BY DEF Connections, Others
<1>. QED
  BY <1>1, LeftAlone

(* A step of the router or of a task keeps it.                              *)
LEMMA LeftNext == RtrInv /\ Left /\ [RtrNext]_rtrVars => Left'
<1>. SUFFICES ASSUME RtrInv, Left, [RtrNext]_rtrVars PROVE Left'
  OBVIOUS
<1>0. /\ rtrAt \in [Places -> Seq(RtrBuffers \cup Packets)] /\ rtrOpen \subseteq Connections
      /\ DOMAIN rtrAt = Places
  BY DEF RtrInv, Holds, FitIn
<1>p. /\ \A x \in Others : x \in Places \ {"free", "promisc", "input", "sock", "router"}
      /\ Connections = {"conn", "server"} /\ "found" \in Others /\ Connections \subseteq Others
      /\ {"conn", "server", "input", "promisc", "sock"} = Queues
      /\ Others = {"conn", "server", "found"}
  BY DEF Others, Places, Queues, Hands, Connections
<1>1. CASE UNCHANGED rtrVars
  BY <1>1 DEF Left, Found, rtrVars
<1>2. CASE RtrReceive
  <2>. DEFINE rest == [rtrAt EXCEPT !.free = Tail(@)]
  <2>1. DOMAIN rest = Places /\ \A x \in Others : rest[x] = rtrAt[x]
    BY <1>0, <1>p
  <2>2. PICK m : rtrAt' = PutOrFree(rest, "input", m)
    BY <1>2 DEF RtrReceive
  <2>. HIDE DEF rest
  <2>3. \A x \in Others : rtrAt'[x] = rtrAt[x]
    BY <1>p, <2>1, <2>2, PutOthers
  <2>. QED
    BY <1>0, <1>2, <2>3, LeftQuiet DEF RtrReceive
<1>3. CASE RtrRead
  <2>. DEFINE p == Head(rtrAt.input)
              held == [rtrAt EXCEPT !.input = Tail(@), !.router = <<[p EXCEPT !.seen = @ + 1]>>]
              rest == [held EXCEPT !.free = Tail(@)]
  <2>1. DOMAIN rest = Places /\ \A x \in Others : rest[x] = rtrAt[x] /\ held[x] = rtrAt[x]
    BY <1>0, <1>p
  <2>2. rtrAt' = PromiscAdd(held, p)
    BY <1>3 DEF RtrRead
  <2>. HIDE DEF p, held
  <2>3. rtrAt' = held \/ \E m : rtrAt' = PutOrFree(rest, "promisc", m)
    BY <2>2 DEF PromiscAdd
  <2>. HIDE DEF rest
  <2>4. \A x \in Others : rtrAt'[x] = rtrAt[x]
    BY <1>p, <2>1, <2>3, PutOthers
  <2>. QED
    BY <1>0, <1>3, <2>4, LeftQuiet DEF RtrRead
<1>4. DOMAIN Passed = Places /\ \A x \in Others : Passed[x] = rtrAt[x]
  BY <1>0, <1>p DEF Passed
<1>5. \A m : \A x \in Others : Freed(Passed, m)[x] = rtrAt[x]
  BY <1>4, <1>p DEF Freed
<1>6. CASE RtrForward \/ RtrBridge
  <2>1. \A x \in Others : rtrAt'[x] = rtrAt[x]
    BY <1>4, <1>5, <1>6, SendOthers DEF RtrForward, RtrBridge
  <2>2. rtrOpen' = rtrOpen
    BY <1>6 DEF RtrForward, RtrBridge
  <2>. QED
    BY <1>0, <2>1, <2>2, LeftQuiet
<1>7. CASE RtrFind
  <2>1. /\ rtrOpen' = rtrOpen /\ Destination[Routed.port] \in rtrOpen
        /\ rtrAt' = [rtrAt EXCEPT !.router = <<>>, !.found = <<Routed>>]
    BY <1>7 DEF RtrFind
  <2>2. rtrAt'["found"] = <<Routed>> /\ \A c \in Connections : rtrAt'[c] = rtrAt[c]
    BY <1>0, <1>p, <2>1 DEF Connections
  <2>3. Found' = Routed
    BY <2>2 DEF Found
  <2>. QED
    BY <1>0, <2>1, <2>2, <2>3 DEF Left
<1>8. CASE RtrEnqueue
  <2>. DEFINE c == Destination[Found.port]
              p == [Found EXCEPT !.late = c \notin rtrOpen]
              rest == [rtrAt EXCEPT !.found = <<>>]
  <2>1. /\ rtrOpen' = rtrOpen /\ c \in Connections /\ (c \notin rtrOpen => rtrAt[c] = <<>>)
        /\ rtrAt' = PutOrFree(rest, c, p)
    BY <1>8 DEF RtrEnqueue, Left
  <2>2. DOMAIN rest = Places /\ rest["found"] = <<>> /\ \A x \in Connections : rest[x] = rtrAt[x]
    BY <1>0, <1>p DEF Connections
  <2>3. Found \in Packets /\ RtrLimit \in Nat \ {0}
    BY <1>8, RtrPassed, RtrAssumption DEF RtrEnqueue, Hands, Found
  <2>4. p.late = (c \notin rtrOpen)
    BY <2>3 DEF Packets
  <2>. HIDE DEF c, p, rest
  <2>5. /\ rtrAt'["found"] = <<>> /\ \A x \in Connections : x # c => rtrAt'[x] = rtrAt[x]
    <3>1. c \in Queues /\ c # "found"
      BY <1>p, <2>1
    <3>2. \A x \in Others : x # c => rtrAt'[x] = rest[x]
      BY <1>p, <2>1, <2>2, <3>1, PutOthers
    <3>. QED
      BY <1>p, <2>2, <3>1, <3>2
  <2>6. ASSUME c \notin rtrOpen PROVE rtrAt'[c] = <<p>>
    <3>1. rest[c] = <<>> /\ c \in Places
      BY <1>p, <2>1, <2>2, <2>6
    <3>2. Len(rest[c]) < RtrLimit /\ Append(rest[c], p) = <<p>>
      BY <2>3, <3>1
    <3>3. rtrAt' = [rest EXCEPT ![c] = Append(rest[c], p)]
      BY <2>1, <3>2 DEF PutOrFree
    <3>. QED
      BY <2>2, <3>1, <3>2, <3>3
  <2>7. ASSUME NEW x \in Connections \ rtrOpen', NEW i \in DOMAIN rtrAt'[x]
        PROVE  i = 1 /\ rtrAt'[x][i].late
    <3>1. CASE x = c
      <4>1. c \notin rtrOpen /\ rtrAt'[x] = <<p>> /\ i \in DOMAIN rtrAt'[x]
        BY <2>1, <2>6, <2>7, <3>1
      <4>2. i = 1 /\ rtrAt'[x][i] = p
        BY <4>1
      <4>. QED
        BY <2>4, <4>1, <4>2, Zenon
    <3>2. CASE x # c
      BY <2>1, <2>5, <2>7, <3>2 DEF Left
    <3>. QED
      BY <3>1, <3>2
  <2>. QED
    BY <2>5, <2>7 DEF Left
<1>9. CASE RtrDeliver
  <2>1. rtrAt["found"] = <<>> /\ Passed["found"] = <<>>
    BY <1>4, <1>9, <1>p DEF RtrDeliver, RouterHas
  <2>2. CASE rtrAt' = PutOrFree(Passed, "sock", Routed) /\ rtrOpen' = rtrOpen
    <3>1. \A x \in Others : rtrAt'[x] = rtrAt[x]
      BY <1>4, <1>p, <2>2, PutOthers
    <3>. QED
      BY <1>0, <2>2, <3>1, LeftQuiet
  <2>3. CASE /\ rtrAt' = PutOrFree(Emptied(Passed, "server"), "server", Routed)
             /\ rtrOpen' = rtrOpen \cup {"server"}
    <3>. DEFINE at == Emptied(Passed, "server")
    <3>1. DOMAIN at = Places /\ \A x \in Others \ {"server"} : at[x] = rtrAt[x]
      BY <1>4, <1>p, EmptiedOthers
    <3>. HIDE DEF at
    <3>2. \A x \in Others \ {"server"} : rtrAt'[x] = rtrAt[x]
      BY <1>p, <2>3, <3>1, PutOthers DEF at
    <3>. QED
      BY <1>0, <1>p, <2>3, <3>2, LeftQuiet
  <2>4. CASE rtrAt' = Freed(Passed, Routed) /\ rtrOpen' = rtrOpen
    BY <1>0, <1>5, <2>4, LeftQuiet
  <2>. QED
    BY <1>9, <2>2, <2>3, <2>4 DEF RtrDeliver
<1>10. CASE RtrTransaction
  <2>. DEFINE at == Emptied(rtrAt, "conn")
              rest == [at EXCEPT !.free = Tail(@)]
  <2>1. /\ DOMAIN at = Places /\ \A x \in Others \ {"conn"} : at[x] = rtrAt[x]
    BY <1>0, <1>p, EmptiedOthers
  <2>. HIDE DEF at
  <2>2. DOMAIN rest = Places /\ \A x \in Others \ {"conn"} : rest[x] = rtrAt[x]
    BY <1>p, <2>1
  <2>3. rtrOpen' = rtrOpen \cup {"conn"} /\ (rtrAt' = at \/ \E m, iface : SendOrFree(rest, m, iface))
    BY <1>10 DEF RtrTransaction, at
  <2>. HIDE DEF rest
  <2>4. \A x \in Others \ {"conn"} : rtrAt'[x] = rtrAt[x]
    BY <2>1, <2>2, <2>3, SendOthers
  <2>. QED
    BY <1>0, <1>p, <2>3, <2>4, LeftQuiet
<1>11. ASSUME NEW q \in Queues, q \in rtrOpen \/ q \in {"sock", "promisc"}, rtrOpen' = rtrOpen,
              LET rest == [rtrAt EXCEPT ![q] = Tail(@)]
              IN  (\E m : rtrAt' = Freed(rest, m)) \/ (\E m, iface : SendOrFree(rest, m, iface))
       PROVE  Left'
  <2>. DEFINE rest == [rtrAt EXCEPT ![q] = Tail(@)]
  <2>1. DOMAIN rest = Places /\ \A x \in Others \ {q} : rest[x] = rtrAt[x]
    BY <1>0, <1>p
  <2>2. (\E m : rtrAt' = Freed(rest, m)) \/ (\E m, iface : SendOrFree(rest, m, iface))
    BY <1>11
  <2>. HIDE DEF rest
  <2>3. \A x \in Others \ {q} : rtrAt'[x] = rtrAt[x]
    BY <1>p, <2>1, <2>2, SendOthers DEF Freed
  <2>. QED
    BY <1>0, <1>p, <1>11, <2>3, LeftQuiet
<1>12. CASE RtrReply
  BY <1>11, <1>12, <1>p DEF RtrReply
<1>13. CASE RtrServe
  BY <1>11, <1>13, <1>p DEF RtrServe
<1>14. CASE RtrReceiveFrom
  BY <1>11, <1>14, <1>p DEF RtrReceiveFrom
<1>15. CASE RtrWatch
  BY <1>11, <1>15, <1>p DEF RtrWatch
<1>16. ASSUME NEW c \in Connections, RtrClose(c) PROVE Left'
  <2>1. rtrOpen' = rtrOpen \ {c} /\ rtrAt' = Emptied(rtrAt, c) /\ c \in Queues /\ c # "found"
    BY <1>16, <1>p DEF RtrClose
  <2>2. rtrAt'[c] = <<>> /\ \A x \in Others \ {c} : rtrAt'[x] = rtrAt[x]
    BY <1>0, <1>p, <2>1, EmptiedOthers
  <2>. QED
    BY <1>p, <2>1, <2>2 DEF Left, Found
<1>. QED
  BY <1>1, <1>2, <1>3, <1>6, <1>7, <1>8, <1>9, <1>10, <1>12, <1>13, <1>14, <1>15, <1>16
  DEF RtrNext, RtrRoute

(* A closed connection keeps at most one packet, one that the router had     *)
(* found it for before csp_close and enqueued after it (csp_conn.c:167 and   *)
(* 100): the bound on what RtrDrains has to except.                         *)
THEOREM OneLeftBehind ==
  RtrSpec => [](\A c \in Connections \ rtrOpen :
                  Len(rtrAt[c]) <= 1 /\ \A i \in DOMAIN rtrAt[c] : rtrAt[c][i].late)
<1>. DEFINE OneLate == \A c \in Connections \ rtrOpen :
                        Len(rtrAt[c]) <= 1 /\ \A i \in DOMAIN rtrAt[c] : rtrAt[c][i].late
<1>1. RtrInit => RtrInv /\ Left
  <2>1. ASSUME RtrInit PROVE Left
    BY <2>1 DEF RtrInit, Left, Connections, Queues, Hands
  <2>. QED
    BY <2>1, RtrInitInv
<1>2. RtrInv /\ Left /\ [RtrNext]_rtrVars => RtrInv' /\ Left'
  BY RtrNextInv, LeftNext
<1>3. RtrInv /\ Left => OneLate
  <2>. SUFFICES ASSUME RtrInv, Left, NEW c \in Connections \ rtrOpen
                PROVE  Len(rtrAt[c]) <= 1 /\ \A i \in DOMAIN rtrAt[c] : rtrAt[c][i].late
    OBVIOUS
  <2>1. rtrAt[c] \in Seq(RtrBuffers \cup Packets)
    BY DEF RtrInv, Holds, FitIn, Places, Queues
  <2>2. \A i \in DOMAIN rtrAt[c] : i = 1 /\ rtrAt[c][i].late
    BY DEF Left
  <2>. QED
    BY <2>1, <2>2
<1>. QED
  BY <1>1, <1>2, <1>3, PTL DEF RtrSpec

(* Every buffer is at exactly one place, for any pool, length of the        *)
(* queues and number of packets: no path through the router, the bridge,    *)
(* csp_send_direct, a socket, a transaction or promiscuous mode loses a     *)
(* buffer, frees it twice or gives it away and keeps it, whichever call     *)
(* fails.                                                                   *)
THEOREM OnePlace == RtrSpec => []RtrOnePlace
<1>1. RtrInv => RtrOnePlace
  <2>. SUFFICES ASSUME RtrInv, NEW b \in RtrBuffers
                PROVE  \E spot \in Held(b) : Held(b) = {spot}
    BY DEF RtrOnePlace
  <2>. DEFINE Spots(x) == {<<x, i>> : i \in {i \in DOMAIN rtrAt[x] : BufOf(x, rtrAt[x][i]) = b}}
  <2>1. Held(b) = UNION {Spots(x) : x \in Places}
    BY DEF Held, Places, BufOf, Queues, Connections, Hands
  <2>2. PICK x \in Places : \E i \in DOMAIN rtrAt[x] : BufOf(x, rtrAt[x][i]) = b
    BY DEF RtrInv, Holds, Occupied
  <2>3. PICK i \in DOMAIN rtrAt[x] : BufOf(x, rtrAt[x][i]) = b
    BY <2>2
  <2>4. <<x, i>> \in Held(b)
    BY <2>1, <2>3
  <2>5. ASSUME NEW spot \in Held(b) PROVE spot = <<x, i>>
    <3>1. PICK y \in Places : spot \in Spots(y)
      BY <2>1
    <3>2. PICK j \in DOMAIN rtrAt[y] : spot = <<y, j>> /\ BufOf(y, rtrAt[y][j]) = b
      BY <3>1
    <3>3. y = x /\ j = i
      BY <2>3, <3>2 DEF RtrInv, Holds, Apart
    <3>. QED
      BY <3>2, <3>3
  <2>. QED
    BY <2>4, <2>5
<1>. QED
  BY <1>1, RtrInvariance, PTL

(* Promiscuous mode sees each packet that leaves the node or reaches a      *)
(* socket or connection exactly once, whether the node received it, sent    *)
(* it or sent it to itself.                                                 *)
THEOREM SeenOnlyOnce == RtrSpec => []RtrSeenOnce
<1>1. RtrInv => RtrSeenOnce
  <2>. SUFFICES ASSUME RtrInv PROVE RtrSeenOnce
    OBVIOUS
  <2>1. ASSUME NEW q \in {"sock", "conn", "server"}, NEW i \in DOMAIN rtrAt[q]
        PROVE  rtrAt[q][i].seen = 1
    <3>1. q \in Places
      BY DEF Places, Queues, Connections
    <3>2. Fits(q, rtrAt[q][i])
      BY <3>1 DEF RtrInv, Holds, FitIn
    <3>. QED
      BY <3>2 DEF Fits
  <2>. QED
    BY <2>1 DEF RtrSeenOnce, RtrInv, SeenOnce
<1>. QED
  BY <1>1, RtrInvariance, PTL

LEMMA RtrTypesNow == RtrInv => RtrTypeOK
<1>. SUFFICES ASSUME RtrInv PROVE RtrTypeOK
  OBVIOUS
<1>1. \A q \in Queues \cup Hands : Len(rtrAt[q]) <= Room(q)
  BY DEF RtrInv, Holds, FitIn
<1>. QED
  BY <1>1 DEF RtrTypeOK, RtrInv, Room, Queues, Connections, Hands

(* No queue gets longer than it may be, and the router holds one packet at  *)
(* most.                                                                    *)
THEOREM RtrTypeCorrect == RtrSpec => []RtrTypeOK
BY RtrTypesNow, RtrInvariance, PTL

-----------------------------------------------------------------------------
(* A step of MCLinks is a step of each component or leaves it alone.         *)
LEMMA LinksStep ==
  ASSUME [Next]_<<link, kissVars, canVars, sfpVars, rtrVars>>
  PROVE  [KissNext]_kissVars /\ [CanNext]_canVars /\ [SfpNext]_sfpVars /\ [RtrNext]_rtrVars
<1>1. CASE UNCHANGED <<link, kissVars, canVars, sfpVars, rtrVars>>
  BY <1>1
<1>2. CASE OnlyKiss
  BY <1>2 DEF OnlyKiss
<1>3. CASE OnlyCan
  BY <1>3 DEF OnlyCan
<1>4. CASE OnlySfp
  BY <1>4 DEF OnlySfp
<1>5. CASE OnlyRouter
  BY <1>5 DEF OnlyRouter
<1>. QED
  BY <1>1, <1>2, <1>3, <1>4, <1>5 DEF Next

(* The types of the four components hold together: no receiver writes past a *)
(* buffer, no queue gets too long; as long as the number that the next packet *)
(* on the CAN bus gets is not still in use.                                  *)
THEOREM LinksTypeCorrect == Spec /\ []IdFree => []LinksTypeOK
<1>. DEFINE LinksInv == KissInv /\ (CanTypes /\ CanInv) /\ WholeInv /\ RtrInv
<1>1. Init => LinksInv
  BY KissStart, CanStart, WholeInit, RtrInitInv DEF Init
<1>2. LinksInv /\ IdFree /\ [Next]_<<link, kissVars, canVars, sfpVars, rtrVars>> => LinksInv'
  BY LinksStep, KissStep, CanStepInv, WholeStep, RtrNextInv
<1>3. LinksInv => LinksTypeOK
  <2>1. WholeInv => SfpTypeOK
    BY DEF WholeInv
  <2>. QED
    BY <2>1, KissTypesNow, TypesNow, RtrTypesNow DEF LinksTypeOK
<1>. QED
  BY <1>1, <1>2, <1>3, PTL DEF Spec

(* Without that condition they do for as many packets as there are numbers.  *)
THEOREM LinksTypeFirstPackets ==
  ASSUME Len(CanLength) <= CanIdSpace
  PROVE  Spec => []LinksTypeOK
<1>. DEFINE LinksInv == KissInv /\ (CanTypes /\ CanInv /\ Numbered) /\ WholeInv /\ RtrInv
<1>1. Init => LinksInv
  BY KissStart, CanStart, NumberedStart, WholeInit, RtrInitInv DEF Init
<1>2. LinksInv /\ [Next]_<<link, kissVars, canVars, sfpVars, rtrVars>> => LinksInv'
  BY LinksStep, KissStep, NumberedStep, WholeStep, RtrNextInv
<1>3. LinksInv => LinksTypeOK
  <2>1. WholeInv => SfpTypeOK
    BY DEF WholeInv
  <2>. QED
    BY <2>1, KissTypesNow, TypesNow, RtrTypesNow DEF LinksTypeOK
<1>. QED
  BY <1>1, <1>2, <1>3, PTL DEF Spec
=============================================================================
