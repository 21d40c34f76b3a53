------------------------------- MODULE QFifo -------------------------------
(***************************************************************************)
(* The router's input (csp_qfifo.c with CSP_USE_QOS): one fifo for each     *)
(* priority, and a queue of events that counts the packets in all of them.  *)
(* Interface tasks write, the router alone reads.  Each access to a queue   *)
(* is one step; between two of them the other tasks run.                    *)
(***************************************************************************)
EXTENDS Integers, FiniteSets

CONSTANTS Writers,      \* tasks and handlers that call csp_qfifo_write
          Prios,        \* CSP_ROUTE_FIFOS
          FifoCap,      \* CSP_FIFO_INPUT, the length of each fifo
          EventCap      \* the length of qfifo_events, CSP_FIFO_INPUT too

Priorities == 0 .. Prios - 1

ASSUME CapacityAssumption == /\ Prios \in Nat \ {0} /\ FifoCap \in Nat \ {0}
                             /\ EventCap \in Nat \ {0}

VARIABLES fifo,      \* fifo[p]: how many packets wait with priority p
          events,    \* how many events wait
          signal,    \* writers that stored a packet and not yet its event
          scan,      \* the priority the router looks at next, or NoPrio: it waits
          urgent,    \* the best priority there was when the router woke (history)
          found      \* the priority of the packet it took, or NoPrio (history)

vars == <<fifo, events, signal, scan, urgent, found>>

NoPrio == Prios

TypeOK == /\ fifo \in [Priorities -> 0 .. FifoCap]
          /\ events \in 0 .. EventCap
          /\ signal \subseteq Writers
          /\ scan \in Priorities \cup {NoPrio}
          /\ urgent \in Priorities \cup {NoPrio}
          /\ found \in Priorities \cup {NoPrio}

Init == /\ fifo = [p \in Priorities |-> 0]
        /\ events = 0
        /\ signal = {}
        /\ scan = NoPrio
        /\ urgent = NoPrio
        /\ found = NoPrio

-----------------------------------------------------------------------------
(* Mutant: the event first, then the packet.                                *)
SignalFirst(w) == /\ w \notin signal
                  /\ events < EventCap
                  /\ signal' = signal \cup {w}
                  /\ events' = events + 1
                  /\ UNCHANGED <<fifo, scan, urgent, found>>

(* Mutant: no test for a full fifo.                                         *)
WriteAnyway(w) == \E p \in Priorities :
  /\ w \notin signal
  /\ fifo' = [fifo EXCEPT ![p] = @ + 1]
  /\ signal' = signal \cup {w}
  /\ UNCHANGED <<events, scan, urgent, found>>

(* csp_qfifo_write: store the packet, or drop it if its fifo is full.       *)
Write(w) == \E p \in Priorities :
  /\ w \notin signal
  /\ fifo[p] < FifoCap
  /\ fifo' = [fifo EXCEPT ![p] = @ + 1]
  /\ signal' = signal \cup {w}
  /\ UNCHANGED <<events, scan, urgent, found>>

(* ... then its event; that the queue of events is full goes unnoticed.     *)
Signal(w) == /\ w \in signal
             /\ signal' = signal \ {w}
             /\ events' = IF events < EventCap THEN events + 1 ELSE events
             /\ UNCHANGED <<fifo, scan, urgent, found>>

-----------------------------------------------------------------------------
Filled == {p \in Priorities : fifo[p] > 0}
Best == IF Filled = {} THEN NoPrio ELSE CHOOSE p \in Filled : \A q \in Filled : p <= q

(* csp_qfifo_read: wait for an event ...                                    *)
Wake == /\ scan = NoPrio
        /\ events > 0
        /\ events' = events - 1
        /\ scan' = 0
        /\ urgent' = Best
        /\ found' = NoPrio
        /\ UNCHANGED <<fifo, signal>>

(* Mutant: the scan goes on after a packet was found, and returns the last.  *)
ScanPast == /\ scan # NoPrio
            /\ scan' = scan + 1
            /\ IF fifo[scan] > 0
               THEN fifo' = [fifo EXCEPT ![scan] = @ - 1] /\ found' = scan
               ELSE UNCHANGED <<fifo, found>>
            /\ UNCHANGED <<events, signal, urgent>>

(* ... then look into one fifo after the other.                             *)
Scan == /\ scan # NoPrio
        /\ IF fifo[scan] > 0
           THEN /\ fifo' = [fifo EXCEPT ![scan] = @ - 1]
                /\ found' = scan
                /\ scan' = NoPrio
           ELSE /\ scan' = scan + 1
                /\ UNCHANGED <<fifo, found>>
        /\ UNCHANGED <<events, signal, urgent>>

Next == Wake \/ Scan \/ \E w \in Writers : Write(w) \/ Signal(w)

Spec == Init /\ [][Next]_vars

-----------------------------------------------------------------------------
(* The packets in all fifos, each by its priority and its position.         *)
Waiting == {w \in Priorities \X (1 .. FifoCap) : w[2] <= fifo[w[1]]}

(* csp_qfifo_read never wakes for nothing: each event, also one the router   *)
(* is working on, is backed by a packet, so the scan finds one although     *)
(* packets arrive behind its back ("Spurious wakeup", line 72).             *)
NeverSpurious ==
  /\ events + (IF scan = NoPrio THEN 0 ELSE 1) <= Cardinality(Waiting)
  /\ scan # NoPrio => \E p \in Priorities : p >= scan /\ fifo[p] > 0

(* A packet is never passed over for one of lower priority that was there    *)
(* when the router woke, although the scan looks at one fifo at a time.     *)
UrgentFirst == found # NoPrio => found <= urgent

(* "Wait for packet in any queue" (csp_qfifo.c:58): the router does not wait *)
(* while a packet is there that nobody will signal any more.  It takes an    *)
(* event queue as long as all fifos together.                               *)
NoneStranded ==
  scan = NoPrio /\ events = 0 /\ signal = {} => Waiting = {}
=============================================================================
