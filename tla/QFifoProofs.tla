----------------------------- MODULE QFifoProofs -----------------------------
(***************************************************************************)
(* The router's input: for any number of writers and priorities and any     *)
(* capacity, the router takes the most urgent packet there was when it woke, *)
(* although it looks at one fifo at a time while the writers go on, and      *)
(* never wakes for nothing.                                                 *)
(***************************************************************************)
EXTENDS QFifo, FiniteSetTheorems, WellFoundedInduction, TLAPS

(* Any set of packets has a most urgent one.                                *)
LEMMA MostUrgentExists ==
  ASSUME NEW T, T \subseteq Nat, T # {}
  PROVE  \E p \in T : \A q \in T : p <= q
<1>1. IsWellFoundedOn(OpToRel(<, Nat), Nat)
  BY NatLessThanWellFounded
<1>2. PICK p \in T : \A q \in T : <<q, p>> \notin OpToRel(<, Nat)
  BY <1>1, WFMin
<1>3. ASSUME NEW q \in T PROVE p <= q
  <2>1. ~(q < p)
    BY <1>2 DEF OpToRel
  <2>. QED
    BY <2>1
<1>. QED
  BY <1>2, <1>3

(* Best is a priority with a packet, if there is any.                       *)
LEMMA BestFilled ==
  ASSUME TypeOK
  PROVE  Best = NoPrio \/ (Best \in Priorities /\ fifo[Best] > 0)
<1>1. CASE Filled = {}
  BY <1>1 DEF Best
<1>2. CASE Filled # {}
  <2>1. Filled \subseteq Nat
    BY DEF Filled, Priorities
  <2>2. \E p \in Filled : \A q \in Filled : p <= q
    BY <1>2, <2>1, MostUrgentExists
  <2>3. Best \in Filled
    BY <1>2, <2>2 DEF Best
  <2>. QED
    BY <2>3 DEF Filled
<1>. QED
  BY <1>1, <1>2

(* While the router scans it has not gone past the most urgent packet there  *)
(* was when it woke, and that packet is still there: nobody else takes one.  *)
Ahead == scan # NoPrio /\ urgent # NoPrio => scan <= urgent /\ fifo[urgent] > 0

IInv == TypeOK /\ Ahead /\ UrgentFirst

LEMMA InitIInv == Init => IInv
BY CapacityAssumption DEF Init, IInv, TypeOK, Ahead, UrgentFirst, NoPrio, Priorities

(* The writers only add packets.                                            *)
LEMMA WriterIInv ==
  ASSUME IInv, NEW w \in Writers, Write(w) \/ Signal(w)
  PROVE  IInv'
<1>. USE CapacityAssumption DEF IInv, TypeOK, Ahead, UrgentFirst, NoPrio, Priorities
<1>1. CASE Write(w)
  BY <1>1 DEF Write
<1>2. CASE Signal(w)
  BY <1>2 DEF Signal
<1>. QED
  BY <1>1, <1>2

(* The router wakes.                                                        *)
LEMMA WakeIInv == IInv /\ Wake => IInv'
<1>. SUFFICES ASSUME IInv, Wake PROVE IInv'
  OBVIOUS
<1>1. Best = NoPrio \/ (Best \in Priorities /\ fifo[Best] > 0)
  BY BestFilled DEF IInv
<1>2. UNCHANGED <<fifo, signal>> /\ events' = events - 1 /\ events > 0
      /\ scan' = 0 /\ urgent' = Best /\ found' = NoPrio
  BY DEF Wake
<1>. QED
  BY <1>1, <1>2, CapacityAssumption
  DEF IInv, TypeOK, Ahead, UrgentFirst, NoPrio, Priorities

(* The router looks into one fifo.                                          *)
LEMMA ScanIInv == IInv /\ Scan => IInv'
<1>. SUFFICES ASSUME IInv, Scan PROVE IInv'
  OBVIOUS
<1>. USE CapacityAssumption DEF IInv, TypeOK, Ahead, UrgentFirst, NoPrio, Priorities
<1>1. CASE fifo[scan] > 0
  BY <1>1 DEF Scan
<1>2. CASE ~(fifo[scan] > 0)
  BY <1>2 DEF Scan
<1>. QED
  BY <1>1, <1>2

(* No step of the writers or of the router breaks the invariant.             *)
LEMMA NextIInv == IInv /\ [Next]_vars => IInv'
<1>. SUFFICES ASSUME IInv, [Next]_vars PROVE IInv'
  OBVIOUS
<1>1. CASE UNCHANGED vars
  BY <1>1 DEF IInv, TypeOK, Ahead, UrgentFirst, vars
<1>2. CASE Next
  BY <1>2, WriterIInv, WakeIInv, ScanIInv DEF Next
<1>. QED
  BY <1>1, <1>2

(* The inductive invariant holds: the packet the router woke for waits for   *)
(* it ahead of the scan.                                                    *)
THEOREM Invariance == Spec => []IInv
BY InitIInv, NextIInv, PTL DEF Spec

(* The fifos and the queue of events never exceed their capacities.          *)
THEOREM TypeCorrect == Spec => []TypeOK
<1>1. IInv => TypeOK
  BY DEF IInv
<1>. QED
  BY <1>1, Invariance, PTL

(* csp_qfifo_read never passes over a packet for a less urgent one that was   *)
(* there when the router woke.                                              *)
THEOREM NeverPassedOver == Spec => []UrgentFirst
<1>1. IInv => UrgentFirst
  BY DEF IInv
<1>. QED
  BY <1>1, Invariance, PTL

(* Each packet is one that a writer has not signalled yet, one of an event,  *)
(* or the one the router woke for, and the scan has not gone past that.      *)
Backed ==
  /\ IsFiniteSet(signal)
  /\ Cardinality(signal) + events + (IF scan = NoPrio THEN 0 ELSE 1) <= Cardinality(Waiting)
  /\ scan # NoPrio => \E p \in Priorities : p >= scan /\ fifo[p] > 0

(* There are finitely many packets.                                         *)
LEMMA WaitingFinite ==
  IsFiniteSet(Waiting) /\ Cardinality(Waiting) \in Nat
<1>1. IsFiniteSet(Priorities) /\ IsFiniteSet(1 .. FifoCap)
  BY CapacityAssumption, FS_Interval DEF Priorities
<1>2. IsFiniteSet(Priorities \X (1 .. FifoCap))
  BY <1>1, FS_Product
<1>3. IsFiniteSet(Waiting)
  BY <1>2, FS_Subset DEF Waiting
<1>. QED
  BY <1>3, FS_CardinalityType

(* A writer adds one packet.                                                *)
LEMMA WriteAddsOne ==
  ASSUME TypeOK, NEW p \in Priorities, fifo[p] < FifoCap, fifo' = [fifo EXCEPT ![p] = @ + 1]
  PROVE  Cardinality(Waiting') = Cardinality(Waiting) + 1
<1>. DEFINE new == <<p, fifo[p] + 1>>
<1>1. fifo \in [Priorities -> 0 .. FifoCap] /\ FifoCap \in Nat
  BY CapacityAssumption DEF TypeOK
<1>2. new \notin Waiting
  BY <1>1 DEF Waiting
<1>3. Waiting' = Waiting \cup {new}
  <2>1. ASSUME NEW q \in Priorities, NEW i \in 1 .. FifoCap
        PROVE  i <= fifo'[q] <=> i <= fifo[q] \/ (q = p /\ i = fifo[p] + 1)
    BY <1>1
  <2>2. new \in Priorities \X (1 .. FifoCap)
    BY <1>1
  <2>. QED
    BY <2>1, <2>2 DEF Waiting
<1>. QED
  BY <1>2, <1>3, WaitingFinite, FS_AddElement

(* The router takes one packet away.                                        *)
LEMMA ScanTakesOne ==
  ASSUME TypeOK, NEW p \in Priorities, fifo[p] > 0, fifo' = [fifo EXCEPT ![p] = @ - 1]
  PROVE  Cardinality(Waiting') = Cardinality(Waiting) - 1
<1>. DEFINE old == <<p, fifo[p]>>
<1>1. fifo \in [Priorities -> 0 .. FifoCap] /\ FifoCap \in Nat
  BY CapacityAssumption DEF TypeOK
<1>2. old \in Waiting
  BY <1>1 DEF Waiting
<1>3. Waiting' = Waiting \ {old}
  <2>1. ASSUME NEW q \in Priorities, NEW i \in 1 .. FifoCap
        PROVE  i <= fifo'[q] <=> i <= fifo[q] /\ ~(q = p /\ i = fifo[p])
    BY <1>1
  <2>. QED
    BY <2>1 DEF Waiting
<1>. QED
  BY <1>2, <1>3, WaitingFinite, FS_RemoveElement

(* In the beginning there is neither packet nor event.                      *)
LEMMA InitBacked == Init => Backed
<1>. SUFFICES ASSUME Init PROVE Backed
  OBVIOUS
<1>1. IsFiniteSet(signal) /\ Cardinality(signal) = 0
  BY FS_EmptySet DEF Init
<1>. QED
  BY <1>1, WaitingFinite DEF Init, Backed

(* A packet is there before its event; an event that does not fit is lost.   *)
LEMMA WriterBacked ==
  ASSUME TypeOK, Backed, NEW w \in Writers, Write(w) \/ Signal(w)
  PROVE  Backed'
<1>1. events \in Nat /\ Cardinality(signal) \in Nat /\ Cardinality(Waiting) \in Nat
  BY WaitingFinite, FS_CardinalityType, CapacityAssumption DEF TypeOK, Backed
<1>2. CASE Write(w)
  <2>1. PICK p \in Priorities : fifo[p] < FifoCap /\ fifo' = [fifo EXCEPT ![p] = @ + 1]
    BY <1>2 DEF Write
  <2>2. w \notin signal /\ signal' = signal \cup {w} /\ events' = events /\ scan' = scan
    BY <1>2 DEF Write
  <2>3. Cardinality(Waiting') = Cardinality(Waiting) + 1
    BY <2>1, WriteAddsOne
  <2>4. IsFiniteSet(signal') /\ Cardinality(signal') = Cardinality(signal) + 1
    BY <2>2, FS_AddElement DEF Backed
  <2>5. scan # NoPrio => \E q \in Priorities : q >= scan /\ fifo'[q] > 0
    BY <2>1, CapacityAssumption DEF Backed, TypeOK
  <2>6. NoPrio' = NoPrio /\ Priorities' = Priorities
    BY DEF NoPrio, Priorities
  <2>. QED
    BY <1>1, <2>2, <2>3, <2>4, <2>5, <2>6 DEF Backed
<1>3. CASE Signal(w)
  <2>1. /\ w \in signal /\ signal' = signal \ {w} /\ events' \in {events, events + 1}
        /\ UNCHANGED <<fifo, scan>>
    BY <1>3 DEF Signal
  <2>2. IsFiniteSet(signal') /\ Cardinality(signal') = Cardinality(signal) - 1
    BY <2>1, FS_RemoveElement DEF Backed
  <2>3. Waiting' = Waiting
    BY <2>1 DEF Waiting, Priorities
  <2>. QED
    BY <1>1, <2>1, <2>2, <2>3 DEF Backed, NoPrio, Priorities
<1>. QED
  BY <1>2, <1>3

(* If there is an event there is a packet.                                  *)
LEMMA WakeBacked == TypeOK /\ Backed /\ Wake => Backed'
<1>. SUFFICES ASSUME TypeOK, Backed, Wake PROVE Backed'
  OBVIOUS
<1>1. /\ events \in Nat /\ Cardinality(signal) \in Nat /\ Cardinality(Waiting) \in Nat
      /\ NoPrio \in Nat \ {0}
  BY WaitingFinite, FS_CardinalityType, CapacityAssumption DEF TypeOK, Backed, NoPrio
<1>2. /\ scan = NoPrio /\ events > 0 /\ events' = events - 1 /\ scan' = 0
      /\ UNCHANGED <<fifo, signal>>
  BY DEF Wake
<1>3. Cardinality(Waiting) # 0
  BY <1>1, <1>2 DEF Backed
<1>4. Waiting # {}
  BY <1>3, FS_EmptySet
<1>5. PICK u \in Waiting : TRUE
  BY <1>4
<1>6. u[1] \in Priorities /\ fifo[u[1]] > 0
  BY CapacityAssumption DEF Waiting, TypeOK
<1>7. u[1] >= 0
  BY <1>6 DEF Priorities
<1>8. Waiting' = Waiting
  BY <1>2 DEF Waiting, Priorities
<1>. QED
  BY <1>1, <1>2, <1>6, <1>7, <1>8 DEF Backed, NoPrio, Priorities

(* The scan takes the packet it woke for or goes on towards it.              *)
LEMMA ScanBacked == TypeOK /\ Backed /\ Scan => Backed'
<1>. SUFFICES ASSUME TypeOK, Backed, Scan PROVE Backed'
  OBVIOUS
<1>1. /\ events \in Nat /\ Cardinality(signal) \in Nat /\ Cardinality(Waiting) \in Nat
      /\ Prios \in Nat /\ NoPrio = Prios
  BY WaitingFinite, FS_CardinalityType, CapacityAssumption DEF TypeOK, Backed, NoPrio
<1>2. scan # NoPrio /\ scan \in Priorities /\ UNCHANGED <<events, signal>>
  BY DEF Scan, TypeOK
<1>3. CASE fifo[scan] > 0
  <2>1. fifo' = [fifo EXCEPT ![scan] = @ - 1] /\ scan' = NoPrio
    BY <1>3 DEF Scan
  <2>2. Cardinality(Waiting') = Cardinality(Waiting) - 1
    BY <1>2, <1>3, <2>1, ScanTakesOne
  <2>. QED
    BY <1>1, <1>2, <2>1, <2>2 DEF Backed, NoPrio
<1>4. CASE ~(fifo[scan] > 0)
  <2>1. scan' = scan + 1 /\ UNCHANGED fifo
    BY <1>4 DEF Scan
  <2>2. PICK p \in Priorities : p >= scan /\ fifo[p] > 0
    BY <1>2 DEF Backed
  <2>3. p >= scan + 1 /\ scan + 1 # NoPrio
    BY <1>1, <1>2, <1>4, <2>2 DEF Priorities
  <2>4. Waiting' = Waiting
    BY <2>1 DEF Waiting, Priorities
  <2>5. NoPrio' = NoPrio /\ Priorities' = Priorities
    BY DEF NoPrio, Priorities
  <2>. QED
    BY <1>1, <1>2, <2>1, <2>2, <2>3, <2>4, <2>5 DEF Backed
<1>. QED
  BY <1>3, <1>4

(* No step of the writers or of the router breaks the balance.               *)
LEMMA NextBacked == TypeOK /\ Backed /\ [Next]_vars => Backed'
<1>. SUFFICES ASSUME TypeOK, Backed, [Next]_vars PROVE Backed'
  OBVIOUS
<1>1. CASE UNCHANGED vars
  <2>1. Waiting' = Waiting
    BY <1>1 DEF vars, Waiting, Priorities
  <2>. QED
    BY <1>1, <2>1 DEF Backed, vars, NoPrio, Priorities
<1>2. CASE Next
  BY <1>2, WriterBacked, WakeBacked, ScanBacked DEF Next
<1>. QED
  BY <1>1, <1>2

(* The balance of packets, events and signals holds.                        *)
THEOREM BackedInvariance == Spec => [](TypeOK /\ Backed)
BY InitBacked, NextBacked, TypeCorrect, PTL DEF Spec

(* csp_qfifo_read never wakes for nothing: for any number of writers and     *)
(* priorities and any capacity each event is backed by a packet, and so is   *)
(* the scan under way, although writers signal late and lose events.        *)
THEOREM NeverWokenInVain == Spec => []NeverSpurious
<1>1. TypeOK /\ Backed => NeverSpurious
  <2>. SUFFICES ASSUME TypeOK, Backed PROVE NeverSpurious
    OBVIOUS
  <2>1. events \in Nat /\ Cardinality(signal) \in Nat /\ Cardinality(Waiting) \in Nat
    BY WaitingFinite, FS_CardinalityType, CapacityAssumption DEF TypeOK, Backed
  <2>. QED
    BY <2>1 DEF Backed, NeverSpurious
<1>. QED
  BY <1>1, BackedInvariance, PTL
=============================================================================
