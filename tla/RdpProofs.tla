------------------------------ MODULE RdpProofs ------------------------------
(***************************************************************************)
(* The reliable datagram protocol for every window, backlog, queue length and*)
(* load, every sequence of connections and every network: types, the owner of*)
(* every live connection, and the rx_queue that stays ahead of rcv_cur.  First*)
(* what each handler of csp_rdp.c returns, one lemma for each operator, then an*)
(* invariant of one end at a time (AInv) and a lemma for each action.       *)
(***************************************************************************)
EXTENDS Rdp, FiniteSetTheorems, SequenceTheorems, WellFoundedInduction, TLAPS

(* The states of the protocol, and the type of a connection structure.      *)
RdpStates == {"CLOSED", "SYN_SENT", "SYN_RCVD", "OPEN", "CLOSE_WAIT"}
ConnType ==
  [conn : BOOLEAN, rdp : RdpStates, sock : BOOLEAN, sem : BOOLEAN,
   iss : SeqNr, nxt : SeqNr, una : SeqNr, irs : SeqNr, cur : SeqNr, lsa : SeqNr,
   tx : SUBSET Segments, rx : SUBSET Buffers, app : Seq(Nat \cup {NULL}),
   tries : Nat, backlog : Nat]

(* What the handlers of csp_rdp_new_packet and csp_close return.            *)
ResultType == [s : ConnType, out : SUBSET Messages, data : Seq(Nat)]

(* The bare RESET of a state that has no connection.                        *)
Rst(s) == Packet({"RST"}, s.nxt, s.cur, NULL, {})

(* What every step that keeps a connection alive leaves as it is.           *)
SameNames(s, t) == /\ t.conn = s.conn /\ t.iss = s.iss /\ t.nxt = s.nxt
                   /\ t.irs = s.irs /\ t.tries = s.tries
SamePlace(s, t) == t.sock = s.sock /\ t.backlog = s.backlog
SameIn(s, t) == t.cur = s.cur /\ t.rx = s.rx

(* A structure closed for good, and one half-closed by a RESET.             *)
Shut(s, t) == /\ t.conn = FALSE /\ t.rdp = "CLOSED"
              /\ t.iss = s.iss /\ t.nxt = s.nxt /\ t.irs = s.irs /\ t.tries = s.tries
              /\ t.cur = s.cur /\ SamePlace(s, t)
              /\ t.tx = {} /\ t.rx = {} /\ t.app = <<>>
Half(s, t) == /\ t.rdp = "CLOSE_WAIT"
              /\ SameNames(s, t) /\ SamePlace(s, t) /\ SameIn(s, t) /\ t.tx = s.tx

(* A connection that lives on: at most una, lsa, sem and app may differ.    *)
Stays(s, t) == /\ SameNames(s, t) /\ SamePlace(s, t) /\ SameIn(s, t)
               /\ t.tx = s.tx /\ t.rdp = s.rdp

(* discard_close puts a NULL packet in the user's queue, if it fits.        *)
Told(s, t) == t.app = s.app \/ (Len(s.app) < RxCap /\ t.app = Append(s.app, NULL))

(* Arithmetic modulo 2^16: the range of Wrap16, and what it is one turn around. *)
LEMMA WrapType == \A x \in Int : Wrap16(x) \in SeqNr
  BY SeqSpaceAssumption, SMT DEF Wrap16, SeqNr

(* Within one turn of zero, Wrap16 adds or takes off SeqSpace.              *)
LEMMA WrapIs ==
  ASSUME NEW x \in Int, 0 - SeqSpace <= x, x < 2 * SeqSpace
  PROVE  /\ 0 <= x /\ x < SeqSpace => Wrap16(x) = x
         /\ x >= SeqSpace => Wrap16(x) = x - SeqSpace
         /\ x < 0 => Wrap16(x) = x + SeqSpace
  BY SeqSpaceAssumption, SMT DEF Wrap16

(* Half the sequence space, the reach of SeqBefore and SeqAfter.            *)
LEMMA HalfIs == SeqSpace \div 2 \in Nat /\ SeqSpace = 2 * (SeqSpace \div 2) /\ SeqSpace \div 2 > 0
  BY SeqSpaceAssumption, SMT

(* Adding to a number that was wrapped already.                             *)
LEMMA WrapPlus ==
  ASSUME NEW i \in SeqNr, NEW a \in Int, NEW b \in Int,
         0 - SeqSpace <= i + a, i + a < 2 * SeqSpace,
         0 - SeqSpace <= i + a + b, i + a + b < 2 * SeqSpace,
         b <= SeqSpace, 0 - SeqSpace <= b
  PROVE  Wrap16(Wrap16(i + a) + b) = Wrap16(i + a + b)
  BY SeqSpaceAssumption, WrapIs DEF SeqNr

(* Two offsets less than a turn apart that give one number are equal.       *)
LEMMA WrapInjective ==
  ASSUME NEW i \in SeqNr, NEW a \in Int, NEW b \in Int,
         0 - SeqSpace <= i + a, i + a < 2 * SeqSpace,
         0 - SeqSpace <= i + b, i + b < 2 * SeqSpace,
         a - b < SeqSpace, b - a < SeqSpace, Wrap16(i + a) = Wrap16(i + b)
  PROVE  a = b
  BY SeqSpaceAssumption, WrapIs DEF SeqNr

(* The difference of two numbers depends on their offsets alone.            *)
LEMMA WrapMinus ==
  ASSUME NEW i \in SeqNr, NEW a \in Int, NEW b \in Int,
         0 - SeqSpace <= i + a, i + a < 2 * SeqSpace,
         0 - SeqSpace <= i + b, i + b < 2 * SeqSpace,
         a - b < SeqSpace, b - a < SeqSpace
  PROVE  Wrap16(Wrap16(i + a) - Wrap16(i + b)) = Wrap16(a - b)
<1>1. /\ Wrap16(i + a) \in {i + a, i + a - SeqSpace, i + a + SeqSpace}
      /\ Wrap16(i + a) \in SeqNr
  BY SeqSpaceAssumption, WrapIs, WrapType DEF SeqNr
<1>2. /\ Wrap16(i + b) \in {i + b, i + b - SeqSpace, i + b + SeqSpace}
      /\ Wrap16(i + b) \in SeqNr
  BY SeqSpaceAssumption, WrapIs, WrapType DEF SeqNr
<1> DEFINE d == Wrap16(i + a) - Wrap16(i + b)
<1>3. d \in Int /\ 0 - SeqSpace <= d /\ d < 2 * SeqSpace
  BY <1>1, <1>2, SeqSpaceAssumption DEF SeqNr
<1>4. d \in {a - b, a - b + SeqSpace, a - b - SeqSpace}
  BY <1>1, <1>2, SeqSpaceAssumption DEF SeqNr
<1> HIDE DEF d
<1>5. Wrap16(d) = Wrap16(a - b)
  BY <1>3, <1>4, WrapIs, SeqSpaceAssumption
<1> QED
  BY <1>5 DEF d

(* Every number is some offset from any other.                              *)
LEMMA OffsetExists ==
  ASSUME NEW c \in SeqNr, NEW q \in SeqNr
  PROVE  \E k \in SeqNr : q = Wrap16(c + k)
<1>1. Wrap16(q - c) \in SeqNr /\ q = Wrap16(c + Wrap16(q - c))
  BY SeqSpaceAssumption, WrapType, WrapIs DEF SeqNr
<1> QED
  BY <1>1

(* csp_rdp_seq_between, of numbers given as offsets from one of them.       *)
LEMMA BetweenOffsets ==
  ASSUME NEW i \in SeqNr, NEW a \in Int, NEW lo \in Int, NEW hi \in Int,
         0 - SeqSpace <= i + a, i + a < 2 * SeqSpace,
         0 - SeqSpace <= i + lo, i + lo < 2 * SeqSpace,
         0 - SeqSpace <= i + hi, i + hi < 2 * SeqSpace,
         lo <= hi, hi - lo < SeqSpace, hi - SeqSpace < a, a < lo + SeqSpace
  PROVE  SeqBetween(Wrap16(i + a), Wrap16(i + lo), Wrap16(i + hi)) <=> lo <= a /\ a <= hi
<1>1. Wrap16(Wrap16(i + hi) - Wrap16(i + lo)) = Wrap16(hi - lo)
  BY WrapMinus, SeqSpaceAssumption
<1>0. a - lo < SeqSpace /\ lo - a < SeqSpace
  BY SeqSpaceAssumption
<1>2. Wrap16(Wrap16(i + a) - Wrap16(i + lo)) = Wrap16(a - lo)
  BY <1>0, WrapMinus
<1>3. Wrap16(hi - lo) = hi - lo
  BY WrapIs, SeqSpaceAssumption
<1>4. /\ a >= lo => Wrap16(a - lo) = a - lo
      /\ a < lo => Wrap16(a - lo) = a - lo + SeqSpace
  BY <1>0, WrapIs, SeqSpaceAssumption
<1> QED
  BY <1>1, <1>2, <1>3, <1>4, SeqSpaceAssumption DEF SeqBetween

(* csp_rdp_seq_before, of offsets less than half a turn apart.              *)
LEMMA BeforeOffsets ==
  ASSUME NEW i \in SeqNr, NEW a \in Int, NEW b \in Int,
         0 - SeqSpace <= i + a, i + a < 2 * SeqSpace,
         0 - SeqSpace <= i + b, i + b < 2 * SeqSpace,
         a - b < SeqSpace \div 2, b - a <= SeqSpace \div 2
  PROVE  SeqBefore(Wrap16(i + a), Wrap16(i + b)) <=> a < b
<1>1. Wrap16(Wrap16(i + a) - Wrap16(i + b)) = Wrap16(a - b)
  BY WrapMinus, SeqSpaceAssumption, HalfIs
<1>2. /\ a >= b => Wrap16(a - b) = a - b
      /\ a < b => Wrap16(a - b) = a - b + SeqSpace
  BY WrapIs, SeqSpaceAssumption, HalfIs
<1> QED
  BY <1>1, <1>2, SeqSpaceAssumption, HalfIs DEF SeqBefore

(* The number after a number.                                               *)
LEMMA WrapSucc == \A x \in SeqNr : x \in Int /\ Wrap16(x + 1) \in SeqNr
  BY WrapType DEF SeqNr

(* The packets a handler sends are packets.                                 *)
LEMMA ControlTypes ==
  ASSUME NEW s \in ConnType
  PROVE  /\ Reset(s) \in Messages /\ PureAck(s) \in Messages /\ Eack(s) \in Messages
         /\ SynAck(s) \in Messages /\ Rst(s) \in Messages
  BY DEF ConnType, Messages, Reset, PureAck, Eack, SynAck, Rst, Packet, Buffers

(* csp_rdp_flush_all with the reset of the structure.                       *)
LEMMA ClosedIs ==
  ASSUME NEW s \in ConnType
  PROVE  Closed(s) \in ConnType /\ Shut(s, Closed(s)) /\ Closed(s).una = s.una
  BY EmptySeq DEF ConnType, Closed, Shut, SamePlace, RdpStates

(* Sending an ACK changes nothing but rcv_lsa.                              *)
LEMMA AckedIs ==
  ASSUME NEW s \in ConnType, NEW flags, NEW o
  PROVE  LET t == Acked(s, flags, o) IN
         /\ t \in ConnType /\ SameNames(s, t) /\ SamePlace(s, t) /\ SameIn(s, t)
         /\ t.app = s.app /\ t.tx = s.tx /\ t.una = s.una /\ t.rdp = s.rdp /\ t.sem = s.sem
  BY DEF ConnType, Acked, SameNames, SamePlace, SameIn

(* A handler that says nothing.                                             *)
LEMMA QuietIs ==
  ASSUME NEW s \in ConnType
  PROVE  Quiet(s) \in ResultType /\ Quiet(s).s = s /\ Quiet(s).out = {} /\ Quiet(s).data = <<>>
  BY EmptySeq DEF ResultType, Quiet, Result

(* A handler that sends one packet.                                         *)
LEMMA ReplyIs ==
  ASSUME NEW s \in ConnType, NEW p \in Messages, NEW o
  PROVE  LET r == Reply(s, p, o)  t == r.s IN
         /\ r \in ResultType /\ r.out = {p} /\ r.data = <<>>
         /\ SameNames(s, t) /\ SamePlace(s, t) /\ SameIn(s, t)
         /\ t.app = s.app /\ t.tx = s.tx /\ t.una = s.una /\ t.rdp = s.rdp /\ t.sem = s.sem
<1> DEFINE t == Acked(s, p.flags, o)
<1>1. /\ t \in ConnType /\ SameNames(s, t) /\ SamePlace(s, t) /\ SameIn(s, t)
      /\ t.app = s.app /\ t.tx = s.tx /\ t.una = s.una /\ t.rdp = s.rdp /\ t.sem = s.sem
  BY AckedIs
<1>2. Reply(s, p, o) = [s |-> t, out |-> {p}, data |-> <<>>]
  BY DEF Reply, Result
<1> HIDE DEF t
<1> QED
  BY <1>1, <1>2, EmptySeq DEF ResultType

(* Going to CLOSE_WAIT.                                                     *)
LEMMA CloseWaitIs ==
  ASSUME NEW s \in ConnType, s.rdp # "CLOSED"
  PROVE  LET t == [s EXCEPT !.rdp = "CLOSE_WAIT"] IN
         t \in ConnType /\ Half(s, t) /\ t.app = s.app /\ t.una = s.una /\ t.sem = s.sem
  BY DEF ConnType, Half, SameNames, SamePlace, SameIn, RdpStates

(* csp_close: the first close of a live connection half-closes, the next frees. *)
LEMMA CloseIs ==
  ASSUME NEW s \in ConnType, NEW o
  PROVE  LET r == Close(s, o) IN
         /\ r \in ResultType /\ r.data = <<>> /\ r.s.una = s.una
         /\ \/ s.rdp \in {"CLOSED", "CLOSE_WAIT"} /\ Shut(s, r.s) /\ r.out = {}
            \/ /\ s.rdp \notin {"CLOSED", "CLOSE_WAIT"}
               /\ Half(s, r.s) /\ r.s.app = s.app /\ r.out = {Reset(s)}
<1>1. CASE s.rdp \in {"CLOSED", "CLOSE_WAIT"}
  BY <1>1, ClosedIs, QuietIs DEF Close
<1>2. CASE s.rdp \notin {"CLOSED", "CLOSE_WAIT"}
  <2> DEFINE t == [s EXCEPT !.rdp = "CLOSE_WAIT"]
  <2>1. t \in ConnType /\ Half(s, t) /\ t.app = s.app /\ t.una = s.una
    BY <1>2, CloseWaitIs
  <2>2. Close(s, o) = Reply(t, Reset(s), o)
    BY <1>2 DEF Close
  <2>3. Reset(s) \in Messages
    BY ControlTypes
  <2> HIDE DEF t
  <2> QED
    BY <1>2, <2>1, <2>2, <2>3, ReplyIs DEF Half, SameNames, SamePlace, SameIn
<1> QED
  BY <1>1, <1>2

(* A connection that is not touched stays.                                  *)
LEMMA StaysSelf == ASSUME NEW s PROVE Stays(s, s)
  BY DEF Stays, SameNames, SamePlace, SameIn

(* discard_close: tells the user of the handle, or closes an unaccepted one. *)
LEMMA DiscardCloseIs ==
  ASSUME NEW r \in ResultType, NEW o
  PROVE  LET d == DiscardClose(r, o) IN
         /\ d \in ResultType /\ d.s.una = r.s.una
         /\ \/ ~r.s.sock /\ Stays(r.s, d.s) /\ Told(r.s, d.s) /\ d.out = r.out /\ d.data = r.data
            \/ /\ r.s.sock /\ r.s.rdp \in {"CLOSED", "CLOSE_WAIT"} /\ Shut(r.s, d.s)
               /\ d.out = r.out /\ d.data = <<>>
            \/ /\ r.s.sock /\ r.s.rdp \notin {"CLOSED", "CLOSE_WAIT"} /\ Half(r.s, d.s)
               /\ d.s.app = r.s.app /\ d.out = {Reset(r.s)} \cup r.out /\ d.data = <<>>
<1> DEFINE d == DiscardClose(r, o)
<1>0. r.s \in ConnType /\ r.out \in SUBSET Messages /\ r.data \in Seq(Nat)
  BY DEF ResultType
<1>1. CASE ~r.s.sock
  <2> DEFINE a == IF Len(r.s.app) < RxCap THEN Append(r.s.app, NULL) ELSE r.s.app
             t == [r.s EXCEPT !.app = a]
  <2>1. a \in Seq(Nat \cup {NULL})
    BY <1>0 DEF ConnType
  <2>2. d = [s |-> t, out |-> r.out, data |-> r.data]
    BY <1>0, <1>1 DEF DiscardClose, ResultType
  <2>3. t \in ConnType /\ Stays(r.s, t) /\ t.una = r.s.una /\ t.app = a
    <3> HIDE DEF a
    <3> QED
      BY <1>0, <2>1 DEF ConnType, Stays, SameNames, SamePlace, SameIn
  <2>4. Told(r.s, t)
    BY <2>3 DEF Told
  <2> HIDE DEF t
  <2>5. d \in ResultType
    BY <1>0, <2>2, <2>3 DEF ResultType
  <2> QED
    BY <1>1, <2>2, <2>3, <2>4, <2>5
<1>2. CASE r.s.sock
  <2> DEFINE c == Close(r.s, o)
  <2>1. /\ c \in ResultType /\ c.data = <<>> /\ c.s.una = r.s.una
        /\ \/ r.s.rdp \in {"CLOSED", "CLOSE_WAIT"} /\ Shut(r.s, c.s) /\ c.out = {}
           \/ /\ r.s.rdp \notin {"CLOSED", "CLOSE_WAIT"}
              /\ Half(r.s, c.s) /\ c.s.app = r.s.app /\ c.out = {Reset(r.s)}
    BY <1>0, CloseIs
  <2>2. d = [c EXCEPT !.out = @ \cup r.out]
    BY <1>2 DEF DiscardClose
  <2> HIDE DEF c
  <2>3. d.s = c.s /\ d.out = c.out \cup r.out /\ d.data = c.data /\ d \in ResultType
    BY <1>0, <2>1, <2>2 DEF ResultType
  <2> QED
    BY <1>2, <2>1, <2>3
<1> QED
  BY <1>1, <1>2

(* csp_rdp_check_ack: at most a pure ACK, and rcv_lsa.                      *)
LEMMA CheckAckIs ==
  ASSUME NEW s \in ConnType, NEW elapsed, NEW o
  PROVE  LET r == CheckAck(s, elapsed, o) IN
         /\ r \in ResultType /\ r.out \subseteq {PureAck(s)} /\ r.data = <<>>
         /\ Stays(s, r.s) /\ r.s.app = s.app /\ r.s.una = s.una /\ r.s.sem = s.sem
<1>1. CASE ShouldAck(s, elapsed)
  BY <1>1, ReplyIs, ControlTypes DEF CheckAck, Stays
<1>2. CASE ~ShouldAck(s, elapsed)
  BY <1>2, QuietIs, StaysSelf DEF CheckAck
<1> QED
  BY <1>1, <1>2

-----------------------------------------------------------------------------

(* The outcomes of a packet, named for what the connection does with it.  A *)
(* RESET that is out of order may still move una.                           *)
ResetHeard(s, m, r) ==
  /\ "RST" \in m.flags /\ s.rdp \notin {"CLOSED", "CLOSE_WAIT"}
  /\ Stays(s, r.s) /\ r.s.app = s.app
  /\ "ACK" \notin m.flags => r.s.una = s.una
  /\ r.out = {} /\ r.data = <<>>

(* It ends half-closed, and the answer is at most a RESET.                  *)
Closing(s, m, r) ==
  /\ s.rdp # "CLOSED" /\ Half(s, r.s) /\ Told(s, r.s)
  /\ r.out \subseteq {Reset(s)} /\ r.data = <<>>

(* It is closed for good.                                                   *)
Ending(s, m, r) == Shut(s, r.s) /\ r.out \subseteq {Reset(s), Rst(s)} /\ r.data = <<>>

(* An acknowledgement moves una, and nothing else.                          *)
LEMMA UnaIs ==
  ASSUME NEW s \in ConnType, NEW u \in SeqNr
  PROVE  LET t == [s EXCEPT !.una = u] IN
         t \in ConnType /\ Stays(s, t) /\ t.app = s.app /\ t.una = u /\ t.sem = s.sem
  BY DEF ConnType, Stays, SameNames, SamePlace, SameIn

(* The outcomes of a RESET.                                                 *)
LEMMA OnResetIs ==
  ASSUME NEW s \in ConnType, NEW m \in Messages, NEW o, "RST" \in m.flags
  PROVE  LET r == OnReset(s, m, o) IN
         /\ r \in ResultType
         /\ ResetHeard(s, m, r) \/ Closing(s, m, r) \/ Ending(s, m, r)
<1> DEFINE t == IF "ACK" \in m.flags THEN [s EXCEPT !.una = Wrap16(m.ack + 1)] ELSE s
           r == OnReset(s, m, o)
<1>1. /\ t \in ConnType /\ Stays(s, t) /\ t.app = s.app
      /\ "ACK" \notin m.flags => t.una = s.una
  <2>1. Wrap16(m.ack + 1) \in SeqNr
    BY WrapType DEF Messages, SeqNr
  <2> QED
    BY <2>1, UnaIs, StaysSelf
<1>2. /\ t.rdp \in {"CLOSE_WAIT", "CLOSED"} => r = Quiet(Closed(t))
      /\ t.rdp \notin {"CLOSE_WAIT", "CLOSED"} /\ m.seq = Wrap16(t.cur + 1) =>
           r = DiscardClose(Reply([t EXCEPT !.rdp = "CLOSE_WAIT"], Reset(t), o), o)
      /\ t.rdp \notin {"CLOSE_WAIT", "CLOSED"} /\ m.seq # Wrap16(t.cur + 1) => r = Quiet(t)
  BY DEF OnReset
<1> SUFFICES r \in ResultType /\ (ResetHeard(s, m, r) \/ Closing(s, m, r) \/ Ending(s, m, r))
  OBVIOUS
<1> HIDE DEF t, r
<1>3. CASE t.rdp \in {"CLOSE_WAIT", "CLOSED"}
  <2>1. Shut(t, Closed(t)) /\ Closed(t) \in ConnType
    BY <1>1, ClosedIs
  <2>2. Shut(s, Closed(t))
    BY <2>1, <1>1 DEF Shut, Stays, SameNames, SamePlace, SameIn
  <2> QED
    BY <1>2, <1>3, <2>1, <2>2, QuietIs DEF Ending
<1>4. CASE t.rdp \notin {"CLOSE_WAIT", "CLOSED"} /\ m.seq # Wrap16(t.cur + 1)
  BY <1>1, <1>2, <1>4, QuietIs DEF ResetHeard, Stays
<1>5. CASE t.rdp \notin {"CLOSE_WAIT", "CLOSED"} /\ m.seq = Wrap16(t.cur + 1)
  <2> DEFINE w == [t EXCEPT !.rdp = "CLOSE_WAIT"]
             y == Reply(w, Reset(t), o)
  <2>1. w \in ConnType /\ Half(t, w) /\ w.app = t.app
    BY <1>1, <1>5, CloseWaitIs
  <2>2. Reset(t) \in Messages /\ Reset(t) = Reset(s)
    BY <1>1, ControlTypes DEF Reset, Stays, SameNames, SameIn
  <2> HIDE DEF w
  <2>3. /\ y \in ResultType /\ y.out = {Reset(s)} /\ y.data = <<>>
        /\ Half(t, y.s) /\ y.s.app = t.app
    BY <2>1, <2>2, ReplyIs DEF Half, SameNames, SamePlace, SameIn
  <2>4. Half(s, y.s) /\ y.s.app = s.app
    BY <2>3, <1>1 DEF Half, Stays, SameNames, SamePlace, SameIn
  <2>5. r = DiscardClose(y, o)
    BY <1>2, <1>5 DEF w
  <2> HIDE DEF y
  <2>6. y.s.rdp = "CLOSE_WAIT"
    BY <2>4 DEF Half
  <2>7. /\ r \in ResultType
        /\ \/ Stays(y.s, r.s) /\ Told(y.s, r.s) /\ r.out = y.out /\ r.data = y.data
           \/ Shut(y.s, r.s) /\ r.out = y.out /\ r.data = <<>>
    BY <2>3, <2>5, <2>6, DiscardCloseIs
  <2>8. CASE Stays(y.s, r.s) /\ Told(y.s, r.s) /\ r.out = y.out /\ r.data = y.data
    <3>1. Half(s, r.s) /\ Told(s, r.s) /\ s.rdp # "CLOSED"
      BY <2>4, <2>8, <1>1, <1>5 DEF Half, Stays, SameNames, SamePlace, SameIn, Told
    <3> QED
      BY <3>1, <2>3, <2>7, <2>8 DEF Closing
  <2>9. CASE Shut(y.s, r.s) /\ r.out = y.out /\ r.data = <<>>
    <3>1. Shut(s, r.s)
      BY <2>4, <2>9 DEF Half, Shut, SameNames, SamePlace, SameIn
    <3> QED
      BY <3>1, <2>3, <2>7, <2>9 DEF Ending
  <2> QED
    BY <2>7, <2>8, <2>9
<1> QED
  BY <1>3, <1>4, <1>5

(* A SYN heard by a listening socket: the handshake starts.                 *)
Started(e, s, m, r) ==
  LET t == r.s  i == Iss[e][s.tries] IN
  /\ s.rdp = "CLOSED" /\ t.rdp = "SYN_RCVD" /\ "SYN" \in m.flags
  /\ t.conn = s.conn /\ t.tries = s.tries /\ SamePlace(s, t) /\ t.app = s.app /\ t.rx = s.rx
  /\ t.iss = i /\ t.una = i /\ t.nxt = Wrap16(i + 1) /\ t.cur = m.seq /\ t.irs = m.seq
  /\ t.tx = s.tx \cup {Syn(i)}
  /\ r.out = {SynAck(t)} /\ r.data = <<>>

(* The answer to the SYN, heard by the client: the connection is open.      *)
Joined(s, m, r) ==
  LET t == r.s IN
  /\ s.rdp = "SYN_SENT" /\ t.rdp = "OPEN" /\ {"SYN", "ACK"} \subseteq m.flags
  /\ t.conn = s.conn /\ t.tries = s.tries /\ t.iss = s.iss /\ t.nxt = s.nxt
  /\ SamePlace(s, t) /\ t.app = s.app /\ t.rx = s.rx /\ t.tx = s.tx
  /\ t.cur = m.seq /\ t.irs = m.seq /\ t.una = Wrap16(m.ack + 1)
  /\ r.out = {} /\ r.data = <<>>

(* A packet that is refused: the state stays, the answer names the state.   *)
Noticed(s, m, r) ==
  /\ s.rdp \in {"SYN_SENT", "SYN_RCVD", "OPEN"} /\ Stays(s, r.s) /\ r.s.una = s.una
  /\ \/ r.s.app = s.app
     \/ /\ Told(s, r.s) /\ ~s.sock /\ r.out = {}
        /\ \/ s.rdp = "SYN_SENT" /\ "ACK" \notin m.flags
           \/ s.rdp # "SYN_SENT" /\ ("SYN" \in m.flags \/ "ACK" \notin m.flags) /\ m.seq # s.irs
           \/ s.rdp = "SYN_RCVD" /\ "ACK" \in m.flags
  /\ r.out \subseteq {CASE s.rdp = "SYN_SENT" -> Rst(s)
                       [] s.rdp = "SYN_RCVD" -> SynAck(s)
                       [] OTHER -> Eack(s)}
  /\ r.data = <<>>

(* The outcomes in state CLOSED.                                            *)
LEMMA InClosedIs ==
  ASSUME NEW s \in ConnType, NEW m \in Messages, NEW o, s.rdp = "CLOSED", s.sock,
         s.tries \in 1 .. Len(Iss["server"])
  PROVE  LET r == InClosed(s, m, o) IN
         /\ r \in ResultType
         /\ Started("server", s, m, r) \/ Ending(s, m, r)
<1> DEFINE r == InClosed(s, m, o)
<1> SUFFICES r \in ResultType /\ (Started("server", s, m, r) \/ Ending(s, m, r))
  OBVIOUS
<1>1. CASE "SYN" \notin m.flags
  <2> DEFINE q == Result(s, {Rst(s)}, <<>>)
  <2>1. q \in ResultType /\ q.s = s /\ q.out = {Rst(s)} /\ q.data = <<>>
    BY ControlTypes, EmptySeq DEF ResultType, Result
  <2>2. r = DiscardClose(q, o)
    BY <1>1 DEF InClosed, Rst
  <2> HIDE DEF q, r
  <2> QED
    BY <2>1, <2>2, DiscardCloseIs DEF Ending
<1>2. CASE "SYN" \in m.flags
  <2> DEFINE i == Iss["server"][s.tries]
             t == [s EXCEPT !.iss = i, !.nxt = Wrap16(i + 1), !.una = i,
                          !.cur = m.seq, !.irs = m.seq, !.lsa = m.seq,
                          !.rdp = "SYN_RCVD", !.tx = @ \cup {Syn(i)}]
  <2>1. i \in SeqNr /\ Wrap16(i + 1) \in SeqNr
    <3>1. i \in SeqNr
      BY LoadAssumption, ElementOfSeq DEF Ends
    <3> QED
      BY <3>1, WrapSucc
  <2>2. Syn(i) \in Segments /\ m.seq \in SeqNr
    BY <2>1 DEF Syn, Segments, Messages
  <2>3. r = Reply(t, SynAck(t), o)
    BY <1>2 DEF InClosed
  <2>4. /\ t \in ConnType
        /\ t.rdp = "SYN_RCVD" /\ t.conn = s.conn /\ t.tries = s.tries /\ SamePlace(s, t)
        /\ t.app = s.app /\ t.rx = s.rx /\ t.iss = i /\ t.una = i /\ t.nxt = Wrap16(i + 1)
        /\ t.cur = m.seq /\ t.irs = m.seq /\ t.tx = s.tx \cup {Syn(i)}
    <3> HIDE DEF i
    <3> QED
      BY <2>1, <2>2 DEF ConnType, RdpStates, SamePlace
  <2> HIDE DEF t, r
  <2>5. /\ r \in ResultType /\ r.out = {SynAck(t)} /\ r.data = <<>>
        /\ Stays(t, r.s) /\ r.s.app = t.app /\ r.s.una = t.una
    BY <2>3, <2>4, ReplyIs, ControlTypes DEF Stays
  <2>6. SynAck(t) = SynAck(r.s)
    BY <2>5 DEF SynAck, Stays, SameNames
  <2> QED
    BY <1>2, <2>4, <2>5, <2>6 DEF Started, Stays, SameNames, SamePlace, SameIn
<1> QED
  BY <1>1, <1>2

(* The outcomes in state SYN_SENT.                                          *)
LEMMA InSynSentIs ==
  ASSUME NEW s \in ConnType, NEW m \in Messages, NEW o, s.rdp = "SYN_SENT"
  PROVE  LET r == InSynSent(s, m, o) IN
         /\ r \in ResultType
         /\ Joined(s, m, r) \/ Noticed(s, m, r) \/ Closing(s, m, r)
<1> DEFINE r == InSynSent(s, m, o)
<1> SUFFICES r \in ResultType /\ (Joined(s, m, r) \/ Noticed(s, m, r) \/ Closing(s, m, r))
  OBVIOUS
<1>1. CASE {"SYN", "ACK"} \subseteq m.flags
  <2> DEFINE t == [s EXCEPT !.cur = m.seq, !.irs = m.seq, !.lsa = Wrap16(m.seq - 1),
                       !.una = Wrap16(m.ack + 1), !.rdp = "OPEN", !.sem = TRUE]
  <2>1. /\ m.seq \in SeqNr /\ m.ack \in SeqNr /\ Wrap16(m.seq - 1) \in SeqNr
        /\ Wrap16(m.ack + 1) \in SeqNr
    BY WrapType DEF Messages, SeqNr
  <2>2. /\ t \in ConnType
        /\ t.rdp = "OPEN" /\ t.conn = s.conn /\ t.tries = s.tries /\ SamePlace(s, t)
        /\ t.app = s.app /\ t.rx = s.rx /\ t.tx = s.tx /\ t.iss = s.iss /\ t.nxt = s.nxt
        /\ t.cur = m.seq /\ t.irs = m.seq /\ t.una = Wrap16(m.ack + 1)
    BY <2>1 DEF ConnType, RdpStates, SamePlace
  <2>3. r = Quiet(t)
    BY <1>1 DEF InSynSent
  <2> HIDE DEF t, r
  <2> QED
    BY <1>1, <2>2, <2>3, QuietIs DEF Joined
<1>2. CASE "SYN" \notin m.flags /\ "ACK" \in m.flags
  <2> DEFINE t == [s EXCEPT !.sem = TRUE]
  <2>1. t \in ConnType /\ Stays(s, t) /\ t.app = s.app /\ t.una = s.una
    BY DEF ConnType, Stays, SameNames, SamePlace, SameIn
  <2>2. r = [s |-> t, out |-> {Rst(s)}, data |-> <<>>]
    BY <1>2 DEF InSynSent, Result, Rst
  <2>3. Rst(s) \in Messages
    BY ControlTypes
  <2> HIDE DEF t, r
  <2>4. r \in ResultType /\ r.s = t /\ r.out = {Rst(s)} /\ r.data = <<>>
    BY <2>1, <2>2, <2>3, EmptySeq DEF ResultType
  <2> QED
    BY <2>1, <2>4 DEF Noticed
<1>3. CASE "ACK" \notin m.flags
  <2>1. r = DiscardClose(Quiet(s), o)
    BY <1>3 DEF InSynSent
  <2> HIDE DEF r
  <2>2. Quiet(s) \in ResultType /\ Quiet(s).s = s /\ Quiet(s).out = {} /\ Quiet(s).data = <<>>
    BY QuietIs
  <2>3. /\ r \in ResultType /\ r.s.una = s.una
        /\ \/ ~s.sock /\ Stays(s, r.s) /\ Told(s, r.s) /\ r.out = {} /\ r.data = <<>>
           \/ /\ Half(s, r.s) /\ r.s.app = s.app /\ r.out = {Reset(s)} /\ r.data = <<>>
    BY <2>1, <2>2, DiscardCloseIs
  <2> QED
    BY <1>3, <2>3 DEF Noticed, Closing, Told
<1> QED
  BY <1>1, <1>2, <1>3

(* The outcomes in state CLOSE_WAIT.                                        *)
LEMMA InCloseWaitIs ==
  ASSUME NEW s \in ConnType, NEW m \in Messages, NEW o, s.rdp = "CLOSE_WAIT"
  PROVE  LET r == InCloseWait(s, m, o) IN r \in ResultType /\ Closing(s, m, r)
<1> DEFINE r == InCloseWait(s, m, o)
           t == [s EXCEPT !.una = Wrap16(m.ack + 1)]
<1> SUFFICES r \in ResultType /\ Closing(s, m, r)
  OBVIOUS
<1>1. t \in ConnType /\ Stays(s, t) /\ t.app = s.app
  <2>1. Wrap16(m.ack + 1) \in SeqNr
    BY WrapType DEF Messages, SeqNr
  <2> QED
    BY <2>1, UnaIs
<1>2. r = Quiet(s) \/ r = Reply(t, Reset(s), o)
  BY DEF InCloseWait
<1> HIDE DEF r, t
<1>3. CASE r = Quiet(s)
  BY <1>3, QuietIs DEF Closing, Half, Told, SameNames, SamePlace, SameIn
<1>4. CASE r = Reply(t, Reset(s), o)
  BY <1>1, <1>4, ReplyIs, ControlTypes
     DEF Closing, Half, Told, Stays, SameNames, SamePlace, SameIn
<1> QED
  BY <1>2, <1>3, <1>4

-----------------------------------------------------------------------------
(* A packet in the window, with an acknowledgement in range, is let in.     *)
Answered(s, m) ==
  /\ s.rdp \in {"SYN_RCVD", "OPEN"} /\ "SYN" \notin m.flags /\ "ACK" \in m.flags
  /\ SeqBetween(m.seq, Wrap16(s.cur + 1), Wrap16(s.cur + 2 * Window))
  /\ AckInRange(s, m)
  /\ s.rdp = "SYN_RCVD" => m.ack = s.iss

(* A packet with a message for the user.                                    *)
Message(m) == "EAK" \notin m.flags /\ m.data # NULL

(* The acknowledgement of a packet that is let in.                          *)
Opened(s, m, t) ==
  /\ SameNames(s, t) /\ t.rdp = "OPEN" /\ t.una = Wrap16(m.ack + 1)

(* It says nothing but what was received (EAK, pure ACK), or there is no room. *)
Pruned(s, m, r) ==
  LET t == r.s IN
  /\ Answered(s, m) /\ Opened(s, m, t)
  /\ SamePlace(s, t) /\ SameIn(s, t) /\ t.app = s.app
  /\ "EAK" \in m.flags => t.tx = {p \in s.tx : p.seq \notin m.eacks}
  /\ "EAK" \notin m.flags => t.tx = s.tx
  /\ Message(m) /\ m.seq # Wrap16(s.cur + 1) => \E p \in s.rx : p.seq = m.seq
  /\ Message(m) /\ m.seq = Wrap16(s.cur + 1) =>
       (s.sock /\ s.backlog = Backlog) \/ Len(s.app) = RxCap
  /\ r.out = {} /\ r.data = <<>>

(* The socket lets go of the connection but the user's queue is full.       *)
Full(s, m, r) ==
  LET t == r.s IN
  /\ Answered(s, m) /\ Opened(s, m, t)
  /\ s.sock /\ s.backlog # Backlog /\ ~t.sock /\ t.backlog = s.backlog + 1
  /\ SameIn(s, t) /\ t.app = s.app /\ t.tx = s.tx
  /\ Len(s.app) = RxCap
  /\ r.out = {} /\ r.data = <<>>

(* A message that came early is kept.                                       *)
Stored(s, m, r) ==
  LET t == r.s IN
  /\ Answered(s, m) /\ Opened(s, m, t) /\ Message(m)
  /\ m.seq # Wrap16(s.cur + 1) /\ \A p \in s.rx : p.seq # m.seq
  /\ SamePlace(s, t) /\ t.cur = s.cur /\ t.app = s.app /\ t.tx = s.tx
  /\ t.rx = s.rx \cup {[seq |-> m.seq, data |-> m.data]}
  /\ r.out = {Eack(t)} /\ r.data = <<>>

(* csp_rdp_rx_queue_add: a message that came early is kept once.            *)
LEMMA OutOfOrderIs ==
  ASSUME NEW s \in ConnType, NEW m \in Messages, NEW o, m.data # NULL
  PROVE  LET r == OutOfOrder(s, m, o)  t == r.s IN
         /\ r \in ResultType /\ r.data = <<>>
         /\ SameNames(s, t) /\ SamePlace(s, t) /\ t.cur = s.cur /\ t.app = s.app
         /\ t.tx = s.tx /\ t.una = s.una /\ t.rdp = s.rdp
         /\ \/ (\E p \in s.rx : p.seq = m.seq) /\ t.rx = s.rx /\ r.out = {}
            \/ /\ \A p \in s.rx : p.seq # m.seq
               /\ t.rx = s.rx \cup {[seq |-> m.seq, data |-> m.data]}
               /\ r.out = {Eack(t)}
<1> DEFINE r == OutOfOrder(s, m, o)
           q == [s EXCEPT !.rx = @ \cup {[seq |-> m.seq, data |-> m.data]}]
<1>1. CASE \E p \in s.rx : p.seq = m.seq
  BY <1>1, QuietIs DEF OutOfOrder, SameNames, SamePlace
<1>2. CASE \A p \in s.rx : p.seq # m.seq
  <2>1. [seq |-> m.seq, data |-> m.data] \in Buffers
    BY DEF Messages, Buffers
  <2>2. /\ q \in ConnType /\ q.rx = s.rx \cup {[seq |-> m.seq, data |-> m.data]}
        /\ SameNames(s, q) /\ SamePlace(s, q) /\ q.cur = s.cur /\ q.app = s.app
        /\ q.tx = s.tx /\ q.una = s.una /\ q.rdp = s.rdp
    BY <2>1 DEF ConnType, SameNames, SamePlace
  <2>3. r = Reply(q, Eack(q), o)
    BY <1>2 DEF OutOfOrder
  <2> HIDE DEF q, r
  <2>4. /\ r \in ResultType /\ r.data = <<>> /\ r.out = {Eack(q)}
        /\ SameNames(q, r.s) /\ SamePlace(q, r.s) /\ SameIn(q, r.s)
        /\ r.s.app = q.app /\ r.s.tx = q.tx /\ r.s.una = q.una /\ r.s.rdp = q.rdp
    BY <2>2, <2>3, ReplyIs, ControlTypes
  <2>5. Eack(q) = Eack(r.s)
    BY <2>4 DEF Eack, SameNames, SameIn
  <2>6. /\ r \in ResultType /\ r.data = <<>> /\ r.out = {Eack(r.s)}
        /\ SameNames(s, r.s) /\ SamePlace(s, r.s) /\ r.s.cur = s.cur /\ r.s.app = s.app
        /\ r.s.tx = s.tx /\ r.s.una = s.una /\ r.s.rdp = s.rdp
        /\ r.s.rx = s.rx \cup {[seq |-> m.seq, data |-> m.data]}
    BY <2>2, <2>4, <2>5 DEF SameNames, SamePlace, SameIn
  <2> QED
    BY <1>2, <2>6 DEF r
<1> QED
  BY <1>1, <1>2

(* Any set of numbers that is not empty has a least one.                     *)
LEMMA LeastExists ==
  ASSUME NEW T, T \subseteq Nat, T # {}
  PROVE  \E p \in T : \A q \in T : p <= q
<1>1. IsWellFoundedOn(OpToRel(<, Nat), Nat)
  BY NatLessThanWellFounded
<1>2. PICK p \in T : \A q \in T : <<q, p>> \notin OpToRel(<, Nat)
  BY <1>1, WFMin
<1>3. ASSUME NEW q \in T PROVE p <= q
  <2>1. ~(q < p)
    BY <1>2 DEF OpToRel
  <2>. QED
    BY <2>1
<1>. QED
  BY <1>2, <1>3

(* The run of early messages the flush takes ends before the window does, for *)
(* the messages are too few to go round: the CHOOSE of RunLength has a choice. *)
LEMMA RunLengthIs ==
  ASSUME NEW q \in ConnType, IsFiniteSet(q.rx),
         \A p \in q.rx : SeqBetween(p.seq, Wrap16(q.cur + 1), Wrap16(q.cur + (2 * Window - 1)))
  PROVE  LET n == RunLength(q) IN
         /\ n \in 0 .. 2 * Window - 1
         /\ \A k \in 1 .. n : Buffered(q, k) # {}
         /\ Buffered(q, n + 1) = {}
<1> DEFINE c == q.cur
           n == RunLength(q)
           B == {k \in 1 .. 2 * Window : Buffered(q, k) = {}}
<1>0. c \in SeqNr /\ Window \in Nat \ {0} /\ 4 * Window + 2 < SeqSpace /\ SeqSpace \in Nat
  BY WindowAssumption, SeqSpaceAssumption DEF ConnType
<1>1. Buffered(q, 2 * Window) = {}
  <2> SUFFICES ASSUME NEW p \in q.rx, p.seq = Wrap16(c + 2 * Window) PROVE FALSE
    BY DEF Buffered
  <2> HIDE DEF c
  <2>1. ~SeqBetween(Wrap16(c + 2 * Window), Wrap16(c + 1), Wrap16(c + (2 * Window - 1)))
    <3> DEFINE a == 2 * Window
               h == 2 * Window - 1
    <3>1. a \in Int /\ h \in Int /\ 1 <= h /\ h < a /\ a < SeqSpace
      BY <1>0
    <3>2. c \in Int /\ 0 <= c /\ c < SeqSpace
      BY <1>0 DEF SeqNr
    <3> HIDE DEF a, h
    <3>4. /\ 0 - SeqSpace <= c + a /\ c + a < 2 * SeqSpace
          /\ 0 - SeqSpace <= c + 1 /\ c + 1 < 2 * SeqSpace
          /\ 0 - SeqSpace <= c + h /\ c + h < 2 * SeqSpace
          /\ h - 1 < SeqSpace /\ h - SeqSpace < a /\ a < 1 + SeqSpace
      BY <3>1, <3>2, <1>0
    <3>3. SeqBetween(Wrap16(c + a), Wrap16(c + 1), Wrap16(c + h)) <=> 1 <= a /\ a <= h
      <4>1. c \in SeqNr /\ a \in Int /\ h \in Int /\ 1 \in Int /\ 1 <= h
        BY <1>0, <3>1
      <4> QED
        BY <3>4, <4>1, BetweenOffsets
    <3> QED
      BY <3>1, <3>3 DEF a, h
  <2> QED
    BY <2>1 DEF c
<1>2. B \subseteq Nat /\ 2 * Window \in B
  BY <1>0, <1>1
<1>3. PICK b \in B : \A k \in B : b <= k
  <2> HIDE DEF B
  <2> QED
    BY <1>2, LeastExists
<1>4. /\ b - 1 \in 0 .. 2 * Window - 1 /\ Buffered(q, (b - 1) + 1) = {}
      /\ \A k \in 1 .. b - 1 : Buffered(q, k) # {}
  BY <1>0, <1>3
<1>5. b - 1 <= Cardinality(q.rx)
  <2> DEFINE f == [k \in 1 .. b - 1 |-> CHOOSE p \in Buffered(q, k) : TRUE]
  <2>1. \A k \in 1 .. b - 1 : f[k] \in q.rx /\ f[k].seq = Wrap16(c + k)
    BY <1>4 DEF Buffered
  <2>2. ASSUME NEW j \in 1 .. b - 1, NEW k \in 1 .. b - 1, f[j] = f[k] PROVE j = k
    <3> HIDE DEF f, c
    <3>1. Wrap16(c + j) = Wrap16(c + k)
      BY <2>1, <2>2
    <3>2. j \in Int /\ k \in Int /\ 0 < j /\ j < SeqSpace /\ 0 < k /\ k < SeqSpace
      BY <1>0, <1>4
    <3>3. c \in Int /\ 0 <= c /\ c < SeqSpace
      BY <1>0 DEF SeqNr
    <3> QED
      BY <1>0, <3>1, <3>2, <3>3, WrapInjective
  <2>3. f \in Injection(1 .. b - 1, q.rx)
    <3>1. f \in [1 .. b - 1 -> q.rx]
      BY <2>1
    <3> HIDE DEF f
    <3> QED
      BY <2>2, <3>1 DEF Injection, IsInjective
  <2>4. Cardinality(1 .. b - 1) <= Cardinality(q.rx)
    BY <2>3, FS_Injection
  <2>5. Cardinality(1 .. b - 1) = b - 1
    <3> DEFINE w == b - 1
    <3>1. w \in Int /\ w >= 0 /\ 1 \in Int
      BY <1>4
    <3> HIDE DEF w
    <3>2. Cardinality(1 .. w) = IF 1 > w THEN 0 ELSE w - 1 + 1
      BY <3>1, FS_Interval
    <3>3. Cardinality(1 .. w) = w
      BY <3>1, <3>2
    <3> QED
      BY <3>3 DEF w
  <2> QED
    BY <2>4, <2>5
<1>6. Cardinality(q.rx) \in Nat
  BY FS_CardinalityType
<1>7. \E j \in 0 .. Cardinality(q.rx) : /\ \A k \in 1 .. j : Buffered(q, k) # {}
                                        /\ Buffered(q, j + 1) = {}
  BY <1>4, <1>5, <1>6
<1>8. /\ n \in 0 .. Cardinality(q.rx)
      /\ \A k \in 1 .. n : Buffered(q, k) # {}
      /\ Buffered(q, n + 1) = {}
  BY <1>7 DEF RunLength
<1>9. n <= 2 * Window - 1
  <2> HIDE DEF n
  <2> QED
    BY <1>0, <1>1, <1>6, <1>8
<1> QED
  BY <1>6, <1>8, <1>9, <1>0

(* The run of segments numbered after c that the flush takes.               *)
Taking(s, c, n) ==
  /\ n \in 0 .. 2 * Window - 1
  /\ \A k \in 1 .. n : \E p \in s.rx : p.seq = Wrap16(c + k)
  /\ \A p \in s.rx : p.seq # Wrap16(c + (n + 1))

(* The messages of that run, in order.                                      *)
RunOf(s, c, n, run) ==
  /\ run \in Seq(Nat) /\ Len(run) = n
  /\ \A k \in 1 .. n : \E p \in s.rx : p.seq = Wrap16(c + k) /\ run[k] = p.data

(* What csp_rdp_rx_queue_flush leaves: the run is gone, the user has what fits. *)
Delivered(s, m, r, n, run) ==
  LET t == r.s
      fit == SubSeq(run, 1, Min({n, RxCap - (Len(s.app) + 1)}))
  IN  /\ Taking(s, m.seq, n) /\ RunOf(s, m.seq, n, run)
      /\ t.cur = Wrap16(m.seq + n)
      /\ t.rx = {p \in s.rx : \A k \in 1 .. n : p.seq # Wrap16(m.seq + k)}
      /\ t.app = Append(s.app, m.data) \o fit
      /\ r.data = <<m.data>> \o fit

(* The least of two numbers.                                                *)
LEMMA MinIs ==
  ASSUME NEW a \in Int, NEW b \in Int
  PROVE  Min({a, b}) = IF a <= b THEN a ELSE b
  BY DEF Min

(* csp_rdp_rx_queue_flush, after a message in order.                        *)
LEMMA FlushRxIs ==
  ASSUME NEW r \in ResultType, IsFiniteSet(r.s.rx), Len(r.s.app) <= RxCap,
         \A p \in r.s.rx : SeqBetween(p.seq, Wrap16(r.s.cur + 1), Wrap16(r.s.cur + (2 * Window - 1)))
  PROVE  \E n \in 0 .. 2 * Window - 1, run \in Seq(Nat) :
           LET f == FlushRx(r)  s == r.s  t == f.s
               fit == SubSeq(run, 1, Min({n, RxCap - Len(s.app)}))
           IN  /\ f \in ResultType /\ f.out = r.out
               /\ Taking(s, s.cur, n) /\ RunOf(s, s.cur, n, run)
               /\ SameNames(s, t) /\ SamePlace(s, t) /\ t.tx = s.tx /\ t.una = s.una
               /\ t.rdp = s.rdp
               /\ t.cur = Wrap16(s.cur + n)
               /\ t.rx = {p \in s.rx : \A k \in 1 .. n : p.seq # Wrap16(s.cur + k)}
               /\ t.app = s.app \o fit
               /\ f.data = r.data \o fit
<1> DEFINE s == r.s
           n == RunLength(s)
           run == [k \in 1 .. n |-> (CHOOSE p \in Buffered(s, k) : TRUE).data]
           fit == SubSeq(run, 1, Min({n, RxCap - Len(s.app)}))
           left == {p \in s.rx : \A k \in 1 .. n : p.seq # Wrap16(s.cur + k)}
           f == FlushRx(r)
<1>0. s \in ConnType /\ r.out \in SUBSET Messages /\ r.data \in Seq(Nat)
  BY DEF ResultType
<1>1. /\ n \in 0 .. 2 * Window - 1
      /\ \A k \in 1 .. n : Buffered(s, k) # {}
      /\ Buffered(s, n + 1) = {}
  BY <1>0, RunLengthIs
<1>2. Taking(s, s.cur, n)
  BY <1>1 DEF Taking, Buffered
<1>3. \A k \in 1 .. n : \E p \in s.rx : p.seq = Wrap16(s.cur + k) /\ run[k] = p.data
  BY <1>1 DEF Buffered
<1>4. \A k \in 1 .. n : run[k] \in Nat
  BY <1>0, <1>3 DEF ConnType, Buffers
<1>5. n \in Nat /\ n \in Int
  BY <1>1, WindowAssumption
<1>6. run \in Seq(Nat) /\ Len(run) = n
  <2>1. DOMAIN run = 1 .. n /\ run = [k \in 1 .. n |-> run[k]]
    OBVIOUS
  <2> HIDE DEF run, n
  <2> QED
    BY <1>4, <1>5, <2>1
<1>7. RunOf(s, s.cur, n, run)
  BY <1>3, <1>6 DEF RunOf
<1>8. fit \in Seq(Nat)
  <2>1. Len(s.app) \in Nat /\ RxCap \in Nat
    BY <1>0, CapAssumption DEF ConnType
  <2> DEFINE h == Min({n, RxCap - Len(s.app)})
  <2>2. h \in Int /\ h <= n
    <3> HIDE DEF n, s
    <3> QED
      BY <1>5, <2>1, MinIs
  <2> HIDE DEF h, run, n
  <2>3. \A i \in 1 .. h : run[i] \in Nat
    BY <2>2, <1>4, <1>5
  <2> QED
    <3>1. SubSeq(run, 1, h) \in Seq(Nat)
      BY <2>2, <2>3, SubSeqProperties
    <3> QED
      BY <3>1 DEF h
<1>9. Wrap16(s.cur + n) \in SeqNr
  <2> HIDE DEF n
  <2> QED
    <3>1. s.cur + n \in Int
      BY <1>0, <1>5 DEF ConnType, SeqNr
    <3> QED
      BY <3>1, WrapType
<1>10. f = [r EXCEPT !.s.cur = Wrap16(s.cur + n), !.s.rx = left,
                     !.s.app = @ \o fit, !.data = @ \o fit]
  BY DEF FlushRx
<1> DEFINE t == [s EXCEPT !.cur = Wrap16(s.cur + n), !.rx = left, !.app = @ \o fit]
<1>11. f = [s |-> t, out |-> r.out, data |-> r.data \o fit]
  <2> HIDE DEF left, fit, n
  <2> QED
    BY <1>10, <1>0 DEF ResultType, ConnType
<1>12. left \in SUBSET Buffers
  BY <1>0 DEF ConnType
<1>13. s.app \o fit \in Seq(Nat \cup {NULL}) /\ r.data \o fit \in Seq(Nat)
  <2>1. fit \in Seq(Nat \cup {NULL})
    <3> HIDE DEF fit
    <3> QED
      BY <1>8, SeqMonotonic
  <2> HIDE DEF fit
  <2> QED
    BY <1>0, <1>8, <2>1, ConcatProperties DEF ConnType
<1>14. /\ t \in ConnType /\ SameNames(s, t) /\ SamePlace(s, t) /\ t.tx = s.tx
       /\ t.una = s.una /\ t.rdp = s.rdp /\ t.cur = Wrap16(s.cur + n) /\ t.rx = left
       /\ t.app = s.app \o fit
  <2> HIDE DEF left, fit, n
  <2> QED
    BY <1>0, <1>9, <1>12, <1>13 DEF ConnType, SameNames, SamePlace
<1> HIDE DEF t, f
<1>15. f \in ResultType /\ f.s = t /\ f.out = r.out /\ f.data = r.data \o fit
  <2> HIDE DEF fit
  <2> QED
    BY <1>0, <1>11, <1>13, <1>14 DEF ResultType
<1>16. run \in Seq(Nat) /\ n \in 0 .. 2 * Window - 1
  BY <1>1, <1>6
<1>17. /\ f \in ResultType /\ f.out = r.out
       /\ Taking(s, s.cur, n) /\ RunOf(s, s.cur, n, run)
       /\ SameNames(s, f.s) /\ SamePlace(s, f.s) /\ f.s.tx = s.tx /\ f.s.una = s.una
       /\ f.s.rdp = s.rdp /\ f.s.cur = Wrap16(s.cur + n) /\ f.s.rx = left
       /\ f.s.app = s.app \o fit /\ f.data = r.data \o fit
  <2> HIDE DEF fit, left, n, run
  <2> QED
    BY <1>2, <1>7, <1>14, <1>15
<1> HIDE DEF n, run
<1> QED
  BY <1>16, <1>17 DEF f

(* csp_rdp_receive_data hands the connection to the socket's backlog, once. *)
Moved(s, t) == /\ ~t.sock
               /\ t.backlog = s.backlog + (IF s.sock THEN 1 ELSE 0)
               /\ s.sock => s.backlog # Backlog

(* Passing the connection changes nothing else.                             *)
LEMMA PassedIs ==
  ASSUME NEW s \in ConnType, ~(s.sock /\ s.backlog = Backlog)
  PROVE  LET p == Passed(s) IN
         /\ p \in ConnType /\ Moved(s, p) /\ SameNames(s, p) /\ SameIn(s, p)
         /\ p.app = s.app /\ p.tx = s.tx /\ p.una = s.una /\ p.rdp = s.rdp
<1>1. CASE s.sock
  <2> DEFINE p == [s EXCEPT !.sock = FALSE, !.backlog = @ + 1]
  <2>1. s.backlog \in Nat /\ s.backlog + 1 \in Nat
    BY DEF ConnType
  <2>2. /\ p \in ConnType /\ ~p.sock /\ p.backlog = s.backlog + 1
        /\ SameNames(s, p) /\ SameIn(s, p) /\ p.app = s.app /\ p.tx = s.tx
        /\ p.una = s.una /\ p.rdp = s.rdp
    BY <2>1 DEF ConnType, SameNames, SameIn
  <2>3. Passed(s) = p
    BY <1>1 DEF Passed
  <2> HIDE DEF p
  <2> QED
    BY <1>1, <2>2, <2>3 DEF Moved
<1>2. CASE ~s.sock
  <2>1. s.backlog \in Nat
    BY DEF ConnType
  <2> QED
    BY <1>2, <2>1 DEF Passed, Moved, SameNames, SameIn
<1> QED
  BY <1>1, <1>2

(* The early messages start two after rcv_cur and end with the window.      *)
Shifted(s) == \A p \in s.rx : SeqBetween(p.seq, Wrap16(s.cur + 2), Wrap16(s.cur + 2 * Window))

(* The same, seen from the message after rcv_cur.                           *)
LEMMA ShiftedNext ==
  ASSUME NEW c \in SeqNr, NEW x
  PROVE  SeqBetween(x, Wrap16(c + 2), Wrap16(c + 2 * Window)) <=>
         SeqBetween(x, Wrap16(Wrap16(c + 1) + 1), Wrap16(Wrap16(c + 1) + (2 * Window - 1)))
<1>0. /\ Window \in Nat \ {0} /\ 4 * Window + 2 < SeqSpace /\ SeqSpace \in Nat
      /\ c \in Int /\ 0 <= c /\ c < SeqSpace
  BY WindowAssumption, SeqSpaceAssumption DEF SeqNr
<1>1. Wrap16(Wrap16(c + 1) + 1) = Wrap16(c + 2)
  BY <1>0, WrapPlus
<1> DEFINE h == 2 * Window - 1
<1>2. h \in Int /\ 1 <= h /\ h < SeqSpace - 1
  BY <1>0
<1>3. c + 1 + h = c + 2 * Window
  BY <1>0
<1> HIDE DEF h
<1>4. Wrap16(Wrap16(c + 1) + h) = Wrap16(c + 1 + h)
  BY <1>0, <1>2, WrapPlus
<1> QED
  BY <1>1, <1>3, <1>4 DEF h

(* The outcomes of a message in order.                                      *)
LEMMA InOrderIs ==
  ASSUME NEW s \in ConnType, NEW m \in Messages, NEW elapsed, NEW o, m.data # NULL,
         m.seq = Wrap16(s.cur + 1), IsFiniteSet(s.rx), Len(s.app) <= RxCap, Shifted(s)
  PROVE  LET r == InOrder(s, m, elapsed, o)  t == r.s IN
         /\ r \in ResultType /\ SameNames(s, t) /\ t.tx = s.tx /\ t.una = s.una /\ t.rdp = s.rdp
         /\ \/ s.sock /\ s.backlog = Backlog /\ r = Quiet(s)
            \/ /\ Moved(s, t) /\ Len(s.app) = RxCap /\ SameIn(s, t) /\ t.app = s.app
               /\ r.out = {} /\ r.data = <<>>
            \/ /\ Moved(s, t) /\ Len(s.app) < RxCap
               /\ r.out \subseteq {Packet({"ACK"}, s.nxt, m.seq, NULL, {})}
               /\ \E n \in 0 .. 2 * Window - 1, run \in Seq(Nat) : Delivered(s, m, r, n, run)
<1> DEFINE r == InOrder(s, m, elapsed, o)
           t == r.s
           p == Passed(s)
           q == [p EXCEPT !.app = Append(@, m.data), !.cur = m.seq]
           a == CheckAck(q, elapsed, o)
           b == [a EXCEPT !.data = <<m.data>>]
<1>1. CASE s.sock /\ s.backlog = Backlog
  <2>1. r = Quiet(s)
    BY <1>1 DEF InOrder
  <2> QED
    BY <1>1, <2>1, QuietIs DEF SameNames
<1>2. CASE ~(s.sock /\ s.backlog = Backlog) /\ Len(s.app) = RxCap
  <2>1. r = Quiet(p)
    BY <1>2 DEF InOrder
  <2> HIDE DEF r, p
  <2>2. /\ p \in ConnType /\ Moved(s, p) /\ SameNames(s, p) /\ SameIn(s, p)
        /\ p.app = s.app /\ p.tx = s.tx /\ p.una = s.una /\ p.rdp = s.rdp
    BY <1>2, PassedIs DEF p
  <2>3. /\ r \in ResultType /\ SameNames(s, r.s) /\ r.s.tx = s.tx /\ r.s.una = s.una
        /\ r.s.rdp = s.rdp /\ Moved(s, r.s) /\ SameIn(s, r.s) /\ r.s.app = s.app
        /\ r.out = {} /\ r.data = <<>>
    BY <2>1, <2>2, QuietIs
  <2> QED
    BY <1>2, <2>3 DEF r
<1>3. CASE ~(s.sock /\ s.backlog = Backlog) /\ Len(s.app) # RxCap
  <2>1. r = FlushRx(b)
    BY <1>3 DEF InOrder
  <2>2. /\ p \in ConnType /\ Moved(s, p) /\ SameNames(s, p) /\ SameIn(s, p)
        /\ p.app = s.app /\ p.tx = s.tx /\ p.una = s.una /\ p.rdp = s.rdp
    BY <1>3, PassedIs
  <2> HIDE DEF r, p
  <2>3. m.data \in Nat /\ m.seq \in SeqNr
    BY DEF Messages
  <2>4. Append(p.app, m.data) \in Seq(Nat \cup {NULL})
    BY <2>2, <2>3 DEF ConnType
  <2>5. /\ q \in ConnType /\ Moved(s, q) /\ SameNames(s, q) /\ q.rx = s.rx /\ q.cur = m.seq
        /\ q.app = Append(s.app, m.data) /\ q.tx = s.tx /\ q.una = s.una /\ q.rdp = s.rdp
    BY <2>2, <2>3, <2>4 DEF ConnType, SameNames, SameIn, Moved
  <2>6. PureAck(q) = Packet({"ACK"}, s.nxt, m.seq, NULL, {})
    BY <2>5 DEF PureAck, SameNames
  <2> HIDE DEF q
  <2>7. /\ a \in ResultType /\ a.out \subseteq {PureAck(q)}
        /\ Stays(q, a.s) /\ a.s.app = q.app /\ a.s.una = q.una
    BY <2>5, CheckAckIs
  <2> HIDE DEF a
  <2>8. b = [s |-> a.s, out |-> a.out, data |-> <<m.data>>]
    BY <2>7 DEF ResultType
  <2>9. <<m.data>> \in Seq(Nat)
    BY <2>3
  <2>10. b \in ResultType /\ b.s = a.s /\ b.out = a.out /\ b.data = <<m.data>>
    BY <2>7, <2>8, <2>9 DEF ResultType
  <2> HIDE DEF b
  <2>11. /\ Moved(s, b.s) /\ SameNames(s, b.s) /\ b.s.rx = s.rx /\ b.s.cur = m.seq
         /\ b.s.app = Append(s.app, m.data) /\ b.s.tx = s.tx /\ b.s.una = s.una
         /\ b.s.rdp = s.rdp
    BY <2>5, <2>7, <2>10 DEF Moved, Stays, SameNames, SamePlace, SameIn
  <2>12. Len(s.app) \in Nat /\ Len(s.app) < RxCap /\ Len(b.s.app) = Len(s.app) + 1
    BY <1>3, <2>3, <2>11, CapAssumption DEF ConnType
  <2>13. \A x \in b.s.rx : SeqBetween(x.seq, Wrap16(b.s.cur + 1), Wrap16(b.s.cur + (2 * Window - 1)))
    BY <2>11, ShiftedNext DEF Shifted, ConnType
  <2>14. Len(b.s.app) <= RxCap
    BY <2>12, CapAssumption
  <2>15. PICK n \in 0 .. 2 * Window - 1, run \in Seq(Nat) :
           LET z == b.s
               fit == SubSeq(run, 1, Min({n, RxCap - Len(z.app)}))
           IN  /\ r \in ResultType /\ r.out = b.out
               /\ Taking(z, z.cur, n) /\ RunOf(z, z.cur, n, run)
               /\ SameNames(z, r.s) /\ SamePlace(z, r.s) /\ r.s.tx = z.tx /\ r.s.una = z.una
               /\ r.s.rdp = z.rdp
               /\ r.s.cur = Wrap16(z.cur + n)
               /\ r.s.rx = {x \in z.rx : \A k \in 1 .. n : x.seq # Wrap16(z.cur + k)}
               /\ r.s.app = z.app \o fit
               /\ r.data = b.data \o fit
    BY <2>1, <2>10, <2>11, <2>13, <2>14, FlushRxIs
  <2>16. Taking(s, m.seq, n) /\ RunOf(s, m.seq, n, run)
    BY <2>11, <2>15 DEF Taking, RunOf
  <2>17. Delivered(s, m, r, n, run)
    BY <2>10, <2>11, <2>12, <2>15, <2>16 DEF Delivered
  <2>18. /\ r \in ResultType /\ SameNames(s, r.s) /\ r.s.tx = s.tx /\ r.s.una = s.una
         /\ r.s.rdp = s.rdp /\ Moved(s, r.s)
    BY <2>11, <2>15 DEF SameNames, SamePlace, Moved
  <2>19. r.out \subseteq {Packet({"ACK"}, s.nxt, m.seq, NULL, {})}
    BY <2>6, <2>7, <2>10, <2>15
  <2> QED
    BY <2>12, <2>17, <2>18, <2>19 DEF r
<1> QED
  BY <1>1, <1>2, <1>3

(* A message in order is delivered, and those that follow it.               *)
Received(s, m, r) ==
  LET t == r.s IN
  /\ Answered(s, m) /\ Opened(s, m, t) /\ Message(m) /\ m.seq = Wrap16(s.cur + 1)
  /\ t.tx = s.tx /\ Moved(s, t) /\ Len(s.app) < RxCap
  /\ r.out \subseteq {Packet({"ACK"}, s.nxt, m.seq, NULL, {})}
  /\ \E n \in 0 .. 2 * Window - 1, run \in Seq(Nat) : Delivered(s, m, r, n, run)

(* The early messages are in the window while the connection is open.       *)
Ahead(s) == /\ s.rdp = "OPEN" => Shifted(s)
            /\ s.rdp \in {"CLOSED", "SYN_SENT", "SYN_RCVD"} => s.rx = {}

(* The outcomes in states SYN_RCVD and OPEN.                                *)
LEMMA InOpenIs ==
  ASSUME NEW s \in ConnType, NEW m \in Messages, NEW elapsed, NEW o,
         s.rdp \in {"SYN_RCVD", "OPEN"}, IsFiniteSet(s.rx), Len(s.app) <= RxCap, Ahead(s)
  PROVE  LET r == InOpen(s, m, elapsed, o) IN
         /\ r \in ResultType
         /\ \/ Noticed(s, m, r) \/ Closing(s, m, r)
            \/ Pruned(s, m, r) \/ Full(s, m, r) \/ Stored(s, m, r) \/ Received(s, m, r)
<1> DEFINE r == InOpen(s, m, elapsed, o)
           t == [s EXCEPT !.rdp = "OPEN", !.una = Wrap16(m.ack + 1)]
           inside == SeqBetween(m.seq, Wrap16(s.cur + 1), Wrap16(s.cur + 2 * Window))
<1> SUFFICES r \in ResultType /\ (\/ Noticed(s, m, r) \/ Closing(s, m, r)
               \/ Pruned(s, m, r) \/ Full(s, m, r) \/ Stored(s, m, r) \/ Received(s, m, r))
  OBVIOUS
<1>0. Quiet(s) \in ResultType /\ Quiet(s).s = s /\ Quiet(s).out = {} /\ Quiet(s).data = <<>>
  BY QuietIs
<1>d. ASSUME DiscardClose(Quiet(s), o) = r,
             \/ ("SYN" \in m.flags \/ "ACK" \notin m.flags) /\ m.seq # s.irs
             \/ s.rdp = "SYN_RCVD" /\ "ACK" \in m.flags
      PROVE  r \in ResultType /\ (Noticed(s, m, r) \/ Closing(s, m, r))
  <2> HIDE DEF r
  <2>1. /\ r \in ResultType /\ r.s.una = s.una
        /\ \/ ~s.sock /\ Stays(s, r.s) /\ Told(s, r.s) /\ r.out = {} /\ r.data = <<>>
           \/ /\ Half(s, r.s) /\ r.s.app = s.app /\ r.out = {Reset(s)} /\ r.data = <<>>
    BY <1>0, <1>d, DiscardCloseIs
  <2> QED
    BY <1>d, <2>1 DEF Noticed, Closing, Told
<1>q. ASSUME r = Quiet(s) PROVE r \in ResultType /\ Noticed(s, m, r)
  BY <1>0, <1>q, StaysSelf DEF Noticed
<1>1. CASE "SYN" \in m.flags \/ "ACK" \notin m.flags
  <2>1. r = Quiet(s) \/ (r = DiscardClose(Quiet(s), o) /\ m.seq # s.irs)
    BY <1>1 DEF InOpen
  <2> HIDE DEF r
  <2> QED
    BY <1>1, <2>1, <1>d, <1>q
<1>2. CASE ~("SYN" \in m.flags \/ "ACK" \notin m.flags) /\ ~inside
  <2> DEFINE y == IF s.rdp = "SYN_RCVD" THEN SynAck(s) ELSE Eack(s)
  <2>1. r = Reply(s, y, o)
    BY <1>2 DEF InOpen
  <2>2. y \in Messages
    BY ControlTypes
  <2> HIDE DEF r
  <2>3. /\ r \in ResultType /\ r.out = {y} /\ r.data = <<>>
        /\ Stays(s, r.s) /\ r.s.app = s.app /\ r.s.una = s.una
    BY <2>1, <2>2, ReplyIs DEF Stays
  <2> QED
    BY <2>3 DEF Noticed
<1>3. CASE ~("SYN" \in m.flags \/ "ACK" \notin m.flags) /\ inside /\ ~AckInRange(s, m)
  <2>1. r = Quiet(s)
    BY <1>3 DEF InOpen
  <2> QED
    BY <2>1, <1>q
<1>4. CASE /\ ~("SYN" \in m.flags \/ "ACK" \notin m.flags) /\ inside /\ AckInRange(s, m)
           /\ s.rdp = "SYN_RCVD" /\ m.ack # s.iss
  <2>1. r = DiscardClose(Quiet(s), o)
    BY <1>4 DEF InOpen
  <2> HIDE DEF r
  <2> QED
    BY <1>4, <2>1, <1>d
<1>5. CASE /\ ~("SYN" \in m.flags \/ "ACK" \notin m.flags) /\ inside /\ AckInRange(s, m)
           /\ ~(s.rdp = "SYN_RCVD" /\ m.ack # s.iss)
  <2>1. Answered(s, m)
    BY <1>5 DEF Answered
  <2>2. /\ t \in ConnType /\ Opened(s, m, t) /\ SamePlace(s, t) /\ SameIn(s, t)
        /\ t.app = s.app /\ t.tx = s.tx
    <3>1. Wrap16(m.ack + 1) \in SeqNr
      BY WrapSucc DEF Messages
    <3> QED
      BY <3>1 DEF ConnType, RdpStates, Opened, SameNames, SamePlace, SameIn
  <2>3. /\ "EAK" \in m.flags => r = Quiet([t EXCEPT !.tx = {p \in @ : p.seq \notin m.eacks}])
        /\ "EAK" \notin m.flags /\ m.data = NULL => r = Quiet(t)
        /\ Message(m) /\ m.seq = Wrap16(t.cur + 1) => r = InOrder(t, m, elapsed, o)
        /\ Message(m) /\ m.seq # Wrap16(t.cur + 1) => r = OutOfOrder(t, m, o)
    BY <1>5 DEF InOpen, Message
  <2> HIDE DEF r, t
  <2>4. CASE "EAK" \in m.flags
    <3> DEFINE u == [t EXCEPT !.tx = {p \in @ : p.seq \notin m.eacks}]
    <3>1. /\ u \in ConnType /\ Opened(s, m, u) /\ SamePlace(s, u) /\ SameIn(s, u)
          /\ u.app = s.app /\ u.tx = {p \in s.tx : p.seq \notin m.eacks}
      BY <2>2 DEF ConnType, Opened, SameNames, SamePlace, SameIn
    <3> HIDE DEF u
    <3>2. r \in ResultType /\ r.s = u /\ r.out = {} /\ r.data = <<>>
      BY <2>3, <2>4, <3>1, QuietIs DEF u
    <3> QED
      BY <2>1, <2>4, <3>1, <3>2 DEF Pruned, Message
  <2>5. CASE "EAK" \notin m.flags /\ m.data = NULL
    <3>2. r \in ResultType /\ r.s = t /\ r.out = {} /\ r.data = <<>>
      BY <2>2, <2>3, <2>5, QuietIs
    <3> QED
      BY <2>1, <2>2, <2>5, <3>2 DEF Pruned, Message
  <2>6. CASE Message(m) /\ m.seq # Wrap16(t.cur + 1)
    <3>1. /\ r \in ResultType /\ r.data = <<>>
          /\ SameNames(t, r.s) /\ SamePlace(t, r.s) /\ r.s.cur = t.cur /\ r.s.app = t.app
          /\ r.s.tx = t.tx /\ r.s.una = t.una /\ r.s.rdp = t.rdp
          /\ \/ (\E p \in t.rx : p.seq = m.seq) /\ r.s.rx = t.rx /\ r.out = {}
             \/ /\ \A p \in t.rx : p.seq # m.seq
                /\ r.s.rx = t.rx \cup {[seq |-> m.seq, data |-> m.data]}
                /\ r.out = {Eack(r.s)}
      BY <2>2, <2>3, <2>6, OutOfOrderIs DEF Message
    <3>2. Opened(s, m, r.s) /\ SamePlace(s, r.s) /\ r.s.cur = s.cur /\ r.s.app = s.app
          /\ r.s.tx = s.tx /\ m.seq # Wrap16(s.cur + 1) /\ t.rx = s.rx
      BY <2>2, <2>6, <3>1 DEF Opened, SameNames, SamePlace, SameIn
    <3> QED
      BY <2>1, <2>6, <3>1, <3>2 DEF Pruned, Stored, Message, SameIn
  <2>7. CASE Message(m) /\ m.seq = Wrap16(t.cur + 1)
    <3>1. Shifted(t) /\ IsFiniteSet(t.rx)
      <4>1. t.rx = s.rx /\ t.cur = s.cur
        BY <2>2 DEF SameIn
      <4> QED
        BY <4>1 DEF Shifted, Ahead
    <3>2. /\ r \in ResultType /\ SameNames(t, r.s) /\ r.s.tx = t.tx /\ r.s.una = t.una
          /\ r.s.rdp = t.rdp
          /\ \/ t.sock /\ t.backlog = Backlog /\ r = Quiet(t)
             \/ /\ Moved(t, r.s) /\ Len(t.app) = RxCap /\ SameIn(t, r.s) /\ r.s.app = t.app
                /\ r.out = {} /\ r.data = <<>>
             \/ /\ Moved(t, r.s) /\ Len(t.app) < RxCap
                /\ r.out \subseteq {Packet({"ACK"}, t.nxt, m.seq, NULL, {})}
                /\ \E n \in 0 .. 2 * Window - 1, run \in Seq(Nat) : Delivered(t, m, r, n, run)
      BY <2>2, <2>3, <2>7, <3>1, InOrderIs DEF Message
    <3>3. /\ Opened(s, m, r.s) /\ r.s.tx = s.tx /\ m.seq = Wrap16(s.cur + 1)
      BY <2>2, <2>7, <3>2 DEF Opened, SameNames, SameIn
    <3>4. CASE t.sock /\ t.backlog = Backlog /\ r = Quiet(t)
      <4>1. r.s = t /\ r.out = {} /\ r.data = <<>> /\ s.sock /\ s.backlog = Backlog
        BY <2>2, <3>4, QuietIs DEF SamePlace
      <4> QED
        BY <2>1, <2>2, <2>7, <3>2, <3>3, <4>1 DEF Pruned, Message
    <3>5. CASE /\ Moved(t, r.s) /\ Len(t.app) = RxCap /\ SameIn(t, r.s) /\ r.s.app = t.app
               /\ r.out = {} /\ r.data = <<>>
      <4>1. Moved(s, r.s) /\ SameIn(s, r.s) /\ r.s.app = s.app /\ Len(s.app) = RxCap
        BY <2>2, <3>5 DEF Moved, SamePlace, SameIn
      <4>2. CASE s.sock
        BY <2>1, <3>2, <3>3, <3>5, <4>1, <4>2 DEF Full, Moved
      <4>3. CASE ~s.sock
        <5>1. r.s.sock \in BOOLEAN /\ s.sock \in BOOLEAN /\ s.backlog \in Nat
          BY <3>2 DEF ResultType, ConnType
        <5>2. SamePlace(s, r.s)
          BY <4>1, <4>3, <5>1 DEF Moved, SamePlace
        <5> QED
          BY <2>1, <2>7, <3>2, <3>3, <3>5, <4>1, <5>2 DEF Pruned, Message
      <4> QED
        BY <4>2, <4>3
    <3>6. CASE /\ Moved(t, r.s) /\ Len(t.app) < RxCap
               /\ r.out \subseteq {Packet({"ACK"}, t.nxt, m.seq, NULL, {})}
               /\ \E n \in 0 .. 2 * Window - 1, run \in Seq(Nat) : Delivered(t, m, r, n, run)
      <4>1. Moved(s, r.s) /\ Len(s.app) < RxCap /\ t.nxt = s.nxt
        BY <2>2, <3>6 DEF Moved, SamePlace, Opened, SameNames
      <4>2. ASSUME NEW n, NEW run, Delivered(t, m, r, n, run) PROVE Delivered(s, m, r, n, run)
        BY <2>2, <4>2 DEF Delivered, Taking, RunOf, SameIn
      <4> QED
        BY <2>1, <2>7, <3>2, <3>3, <3>6, <4>1, <4>2 DEF Received
    <3> QED
      BY <3>2, <3>4, <3>5, <3>6
  <2> QED
    BY <2>4, <2>5, <2>6, <2>7 DEF Message
<1> QED
  BY <1>1, <1>2, <1>3, <1>4, <1>5

(* csp_rdp_new_packet: one of ten outcomes.                                 *)
LEMMA NewPacketIs ==
  ASSUME NEW s \in ConnType, NEW m \in Messages, NEW elapsed, NEW o,
         IsFiniteSet(s.rx), Len(s.app) <= RxCap, Ahead(s),
         s.rdp = "CLOSED" => s.sock /\ s.tries \in 1 .. Len(Iss["server"])
  PROVE  LET r == NewPacket(s, m, elapsed, o) IN
         /\ r \in ResultType
         /\ \/ ResetHeard(s, m, r) \/ Closing(s, m, r) \/ Ending(s, m, r)
            \/ "RST" \notin m.flags /\ Started("server", s, m, r)
            \/ "RST" \notin m.flags /\ Joined(s, m, r)
            \/ "RST" \notin m.flags /\ Noticed(s, m, r)
            \/ "RST" \notin m.flags /\ Pruned(s, m, r)
            \/ "RST" \notin m.flags /\ Full(s, m, r)
            \/ "RST" \notin m.flags /\ Stored(s, m, r)
            \/ "RST" \notin m.flags /\ Received(s, m, r)
<1>0. s.rdp \in RdpStates
  BY DEF ConnType
<1>1. CASE "RST" \in m.flags
  BY <1>1, OnResetIs DEF NewPacket
<1>2. CASE "RST" \notin m.flags /\ s.rdp = "CLOSED"
  BY <1>2, InClosedIs DEF NewPacket
<1>3. CASE "RST" \notin m.flags /\ s.rdp = "SYN_SENT"
  BY <1>3, InSynSentIs DEF NewPacket
<1>4. CASE "RST" \notin m.flags /\ s.rdp \in {"SYN_RCVD", "OPEN"}
  BY <1>4, InOpenIs DEF NewPacket
<1>5. CASE "RST" \notin m.flags /\ s.rdp = "CLOSE_WAIT"
  BY <1>5, InCloseWaitIs DEF NewPacket
<1> QED
  BY <1>0, <1>1, <1>2, <1>3, <1>4, <1>5 DEF RdpStates

-----------------------------------------------------------------------------
(* The inductive invariant, in parts.  Types, with what the history counts. *)
Types == /\ ep \in [Ends -> ConnType]
         /\ user \in [Ends -> UserStates]
         /\ net \in [Ends -> SUBSET Messages]
         /\ sent \in [Ends -> Nat]
         /\ \A e \in Ends : sent[e] <= MaxSend[e]
         /\ \A e \in Ends : user[e] = "blocked" => sent[e] < MaxSend[e]
         /\ rcvd \in [Ends -> Seq(Nat)]

(* A live connection has a socket, a place in the backlog or a user.        *)
Owned(s, u) == s.conn /\ s.rdp # "CLOSE_WAIT" =>
                 s.sock \/ s.backlog > 0 \/ u \in Holding \cup {"waiting", "retrying"}

(* Queues and counters stay within their bounds.                            *)
Bounds(e, s) == /\ IsFiniteSet(s.rx) /\ Len(s.app) <= RxCap
                /\ s.tries \in 0 .. Len(Iss[e]) /\ s.backlog \in 0 .. Backlog

(* A free structure is CLOSED, but for one that the router closed while its   *)
(* client was giving up.                                                    *)
Settled(e, s, u) == IF s.conn THEN s.rdp # "CLOSED"
                    ELSE \/ s.rdp = "CLOSED"
                         \/ s.rdp = "CLOSE_WAIT" /\ e = "client" /\ u = "done"

(* What holds of one end: its structure s and its user u.                   *)
EndOK(e, s, u) == Bounds(e, s) /\ Ahead(s) /\ Owned(s, u) /\ Settled(e, s, u)
AInv == Types /\ \A e \in Ends : EndOK(e, ep[e], user[e])

(* There are two ends, and each is the peer of the other.                   *)
LEMMA PeerIs == ASSUME NEW e \in Ends
                PROVE /\ Peer(e) \in Ends /\ Peer(e) # e /\ Peer(Peer(e)) = e
                      /\ Ends = {e, Peer(e)}
  BY DEF Ends, Peer

(* The invariant implies the type invariant that TLC checks.                *)
LEMMA AInvType == AInv => TypeOK
<1> SUFFICES ASSUME AInv, NEW e \in Ends
    PROVE
    /\ ep[e].conn \in BOOLEAN /\ ep[e].sock \in BOOLEAN /\ ep[e].sem \in BOOLEAN
    /\ ep[e].rdp \in {"CLOSED", "SYN_SENT", "SYN_RCVD", "OPEN", "CLOSE_WAIT"}
    /\ {ep[e].iss, ep[e].nxt, ep[e].una, ep[e].irs, ep[e].cur, ep[e].lsa} \subseteq SeqNr
    /\ \A p \in ep[e].tx : p \in Segments
    /\ \A p \in ep[e].rx : p \in Buffers
    /\ \A i \in DOMAIN ep[e].app : ep[e].app[i] \in Nat \cup {NULL}
    /\ Len(ep[e].app) <= RxCap
    /\ ep[e].tries \in 0 .. Len(Iss[e]) /\ ep[e].backlog \in 0 .. Backlog
    /\ user[e] \in UserStates
    /\ \A m \in net[e] : m \in Messages
    /\ sent[e] \in 0 .. MaxSend[e]
    /\ rcvd[e] \in Seq(Nat)
  BY DEF TypeOK
<1>1. /\ ep[e] \in ConnType /\ user[e] \in UserStates /\ net[e] \in SUBSET Messages
      /\ sent[e] \in Nat /\ sent[e] <= MaxSend[e] /\ rcvd[e] \in Seq(Nat)
      /\ Bounds(e, ep[e])
  BY DEF AInv, Types, EndOK
<1>2. MaxSend[e] \in Nat
  BY LoadAssumption
<1>3. ep[e].app \in Seq(Nat \cup {NULL})
  BY <1>1 DEF ConnType
<1>4. \A i \in DOMAIN ep[e].app : ep[e].app[i] \in Nat \cup {NULL}
  <2> DEFINE a == ep[e].app
  <2> HIDE DEF a
  <2>1. a \in Seq(Nat \cup {NULL}) => \A i \in DOMAIN a : a[i] \in Nat \cup {NULL}
    BY LenProperties, ElementOfSeq
  <2> QED
    BY <1>3, <2>1 DEF a
<1> QED
  BY <1>1, <1>2, <1>4 DEF ConnType, RdpStates, Bounds

(* A step of one end leaves the other one right.                            *)
LEMMA OneEnd ==
  ASSUME AInv, NEW e \in Ends, Types', ep'[Peer(e)] = ep[Peer(e)],
         user'[Peer(e)] = user[Peer(e)], EndOK(e, ep'[e], user'[e])
  PROVE  AInv'
<1>1. \A d \in Ends : d = e \/ d = Peer(e)
  BY PeerIs
<1>2. \A d \in Ends : EndOK(d, ep'[d], user'[d])
  BY <1>1 DEF AInv
<1> QED
  BY <1>2 DEF AInv, EndOK, Bounds, Owned, Ahead, Shifted

(* The invariant holds at the start.                                        *)
LEMMA AInvInit == Init => AInv
<1> SUFFICES ASSUME Init PROVE AInv
  OBVIOUS
<1>1. 0 \in SeqNr /\ <<>> \in Seq(Nat) /\ <<>> \in Seq(Nat \cup {NULL}) /\ Len(<<>>) = 0
  BY SeqSpaceAssumption, EmptySeq DEF SeqNr
<1>2. Free \in ConnType
  BY <1>1 DEF Free, ConnType, RdpStates
<1>3. Types
  BY <1>1, <1>2, LoadAssumption DEF Init, Types, UserStates
<1>4. \A e \in Ends : Len(Iss[e]) \in Nat
  BY LoadAssumption, LenProperties
<1>5. \A e \in Ends : EndOK(e, Free, "none")
  BY <1>1, <1>4, FS_EmptySet, LoadAssumption, CapAssumption
     DEF EndOK, Bounds, Ahead, Owned, Shifted, Free, Settled
<1> QED
  BY <1>3, <1>5 DEF Init, AInv

-----------------------------------------------------------------------------
(* Facts about the window and a number, for the provers of arithmetic.      *)
WindowFacts(c) == /\ Window \in Nat \ {0} /\ 4 * Window + 2 < SeqSpace /\ SeqSpace \in Nat
                  /\ c \in Int /\ 0 <= c /\ c < SeqSpace

(* They hold of every number.                                               *)
LEMMA WindowIs == \A c \in SeqNr : WindowFacts(c)
  BY WindowAssumption, SeqSpaceAssumption DEF SeqNr, WindowFacts

(* SeqBetween of a window that starts just after c.                         *)
LEMMA InWindow ==
  ASSUME NEW c \in SeqNr, NEW k \in SeqNr, NEW lo \in Int, NEW hi \in Int,
         1 <= lo, lo <= hi, hi <= 4 * Window
  PROVE  SeqBetween(Wrap16(c + k), Wrap16(c + lo), Wrap16(c + hi)) <=> lo <= k /\ k <= hi
<1>1. WindowFacts(c) /\ WindowFacts(k)
  BY WindowIs
<1>2. /\ 0 - SeqSpace <= c + k /\ c + k < 2 * SeqSpace
      /\ 0 - SeqSpace <= c + lo /\ c + lo < 2 * SeqSpace
      /\ 0 - SeqSpace <= c + hi /\ c + hi < 2 * SeqSpace
      /\ hi - lo < SeqSpace /\ hi - SeqSpace < k /\ k < lo + SeqSpace
  BY <1>1 DEF WindowFacts
<1> QED
  BY <1>1, <1>2, BetweenOffsets DEF WindowFacts

(* A number in the window that is not the next one is two or more away.     *)
LEMMA StoredAhead ==
  ASSUME NEW c \in SeqNr, NEW q \in SeqNr, q # Wrap16(c + 1),
         SeqBetween(q, Wrap16(c + 1), Wrap16(c + 2 * Window))
  PROVE  SeqBetween(q, Wrap16(c + 2), Wrap16(c + 2 * Window))
<1>1. PICK k \in SeqNr : q = Wrap16(c + k)
  BY OffsetExists
<1> DEFINE h == 2 * Window
<1>2. h \in Int /\ 2 <= h /\ h <= 4 * Window
  BY WindowIs DEF WindowFacts
<1> HIDE DEF h
<1>3. SeqBetween(Wrap16(c + k), Wrap16(c + 1), Wrap16(c + h)) <=> 1 <= k /\ k <= h
  BY <1>2, InWindow
<1>4. SeqBetween(Wrap16(c + k), Wrap16(c + 2), Wrap16(c + h)) <=> 2 <= k /\ k <= h
  BY <1>2, InWindow
<1>5. k # 1 /\ k \in Int
  BY <1>1 DEF SeqNr
<1> QED
  BY <1>1, <1>2, <1>3, <1>4, <1>5 DEF h

(* After a run of n, what is left is ahead of the new rcv_cur.              *)
LEMMA FlushedAhead ==
  ASSUME NEW c \in SeqNr, NEW q \in SeqNr, NEW n \in 0 .. 2 * Window - 1, NEW d,
         d = Wrap16(c + 1),
         SeqBetween(q, Wrap16(c + 2), Wrap16(c + 2 * Window)),
         \A k \in 1 .. n : q # Wrap16(d + k), q # Wrap16(d + (n + 1))
  PROVE  SeqBetween(q, Wrap16(Wrap16(d + n) + 2), Wrap16(Wrap16(d + n) + 2 * Window))
<1>1. PICK k \in SeqNr : q = Wrap16(c + k)
  BY OffsetExists
<1>0. WindowFacts(c) /\ WindowFacts(k)
  BY WindowIs
<1> DEFINE h == 2 * Window
<1>2. h \in Int /\ 2 <= h /\ h <= 4 * Window /\ 2 * h + 2 < SeqSpace
  BY <1>0 DEF WindowFacts
<1>n. n \in Int /\ 0 <= n /\ n < h
  BY <1>0 DEF WindowFacts
<1>q. SeqBetween(q, Wrap16(c + 2), Wrap16(c + h))
  OBVIOUS
<1> HIDE DEF h
<1>4. 2 <= k /\ k <= h
  BY <1>1, <1>2, <1>q, InWindow
<1>5. \A j \in Int : 0 <= j /\ j <= h => Wrap16(d + j) = Wrap16(c + 1 + j)
  <2> SUFFICES ASSUME NEW j \in Int, 0 <= j, j <= h PROVE Wrap16(Wrap16(c + 1) + j) = Wrap16(c + 1 + j)
    OBVIOUS
  <2>1. /\ 0 - SeqSpace <= c + 1 /\ c + 1 < 2 * SeqSpace
        /\ 0 - SeqSpace <= c + 1 + j /\ c + 1 + j < 2 * SeqSpace
        /\ j <= SeqSpace /\ 0 - SeqSpace <= j
    BY <1>0, <1>2 DEF WindowFacts
  <2> QED
    BY <2>1, WrapPlus
<1>6. k >= n + 3
  <2>1. k - 1 \in Int /\ c + 1 + (k - 1) = c + k /\ 0 <= k - 1 /\ k - 1 <= h
    BY <1>0, <1>2, <1>4 DEF WindowFacts
  <2>2. Wrap16(d + (k - 1)) = q
    BY <1>1, <1>5, <2>1
  <2>3. k - 1 \notin 1 .. n /\ k - 1 # n + 1
    BY <2>2
  <2> QED
    BY <2>1, <2>3, <1>n, <1>0, <1>2, <1>4 DEF WindowFacts
<1>7. Wrap16(d + n) = Wrap16(c + (1 + n))
  <2>1. c + 1 + n = c + (1 + n)
    BY <1>0, <1>n DEF WindowFacts
  <2> QED
    BY <1>5, <1>n, <1>2, <2>1
<1>8. /\ Wrap16(Wrap16(c + (1 + n)) + 2) = Wrap16(c + (n + 3))
      /\ Wrap16(Wrap16(c + (1 + n)) + h) = Wrap16(c + (1 + n + h))
  <2>1. /\ 0 - SeqSpace <= c + (1 + n) /\ c + (1 + n) < 2 * SeqSpace
        /\ 0 - SeqSpace <= c + (1 + n) + 2 /\ c + (1 + n) + 2 < 2 * SeqSpace
        /\ 0 - SeqSpace <= c + (1 + n) + h /\ c + (1 + n) + h < 2 * SeqSpace
        /\ 2 <= SeqSpace /\ 0 - SeqSpace <= 2 /\ h <= SeqSpace /\ 0 - SeqSpace <= h
        /\ 1 + n \in Int /\ c + (1 + n) + 2 = c + (n + 3) /\ c + (1 + n) + h = c + (1 + n + h)
    BY <1>0, <1>2, <1>n DEF WindowFacts
  <2> QED
    BY <1>2, <2>1, WrapPlus
<1>9. SeqBetween(Wrap16(c + k), Wrap16(c + (n + 3)), Wrap16(c + (1 + n + h)))
        <=> n + 3 <= k /\ k <= 1 + n + h
  <2>0. n + 3 \in Int /\ 1 + n + h \in Int
    BY <1>2, <1>n
  <2>1. /\ 0 - SeqSpace <= c + k /\ c + k < 2 * SeqSpace
        /\ 0 - SeqSpace <= c + (n + 3) /\ c + (n + 3) < 2 * SeqSpace
        /\ 0 - SeqSpace <= c + (1 + n + h) /\ c + (1 + n + h) < 2 * SeqSpace
        /\ n + 3 <= 1 + n + h
        /\ (1 + n + h) - (n + 3) < SeqSpace /\ (1 + n + h) - SeqSpace < k /\ k < (n + 3) + SeqSpace
    BY <1>0, <1>2, <1>n, <1>4, <1>6 DEF WindowFacts
  <2> HIDE DEF h
  <2> QED
    BY <1>0, <2>0, <2>1, BetweenOffsets, ZenonT(60) DEF WindowFacts
<1> QED
  BY <1>1, <1>4, <1>6, <1>7, <1>8, <1>9, <1>n, <1>2, <1>0 DEF h, WindowFacts

(* An allocated structure of which the invariant held before the step.      *)
Near(e, s, u) == s \in ConnType /\ s.conn /\ Bounds(e, s) /\ Ahead(s) /\ Owned(s, u)

(* The types of the bounds.                                                 *)
LEMMA TriesIs == \A e \in Ends : Len(Iss[e]) \in Nat /\ Backlog \in Nat
  BY LoadAssumption, LenProperties

(* A connection that stays satisfies the invariant.                         *)
LEMMA StaysOK ==
  ASSUME NEW e \in Ends, NEW s, NEW u, Near(e, s, u), s.rdp # "CLOSED",
         NEW t \in ConnType, Stays(s, t), t.app = s.app \/ Told(s, t)
  PROVE  EndOK(e, t, u)
<1>1. Len(t.app) <= RxCap
  <2>1. s.app \in Seq(Nat \cup {NULL}) /\ Len(s.app) \in Nat /\ Len(s.app) <= RxCap /\ RxCap \in Nat
    BY LenProperties, CapAssumption DEF Near, Bounds, ConnType
  <2>2. Len(Append(s.app, NULL)) = Len(s.app) + 1
    BY <2>1
  <2> QED
    BY <2>1, <2>2 DEF Told
<1> QED
  BY <1>1 DEF Near, EndOK, Bounds, Ahead, Shifted, Owned, Stays, SameNames, SamePlace, SameIn, Settled

(* One that is half-closed does.                                            *)
LEMMA HalfOK ==
  ASSUME NEW e \in Ends, NEW s, NEW u, NEW v, Near(e, s, u), 
         NEW t \in ConnType, Half(s, t), t.app = s.app \/ Told(s, t)
  PROVE  EndOK(e, t, v)
<1>1. Len(t.app) <= RxCap
  <2>1. s.app \in Seq(Nat \cup {NULL}) /\ Len(s.app) \in Nat /\ Len(s.app) <= RxCap /\ RxCap \in Nat
    BY LenProperties, CapAssumption DEF Near, Bounds, ConnType
  <2>2. Len(Append(s.app, NULL)) = Len(s.app) + 1
    BY <2>1
  <2> QED
    BY <2>1, <2>2 DEF Told
<1> QED
  BY <1>1 DEF Near, EndOK, Bounds, Ahead, Shifted, Owned, Half, SameNames, SamePlace, SameIn, Settled

(* One that is closed does.                                                 *)
LEMMA ShutOK ==
  ASSUME NEW e \in Ends, NEW s, Bounds(e, s), NEW t \in ConnType, Shut(s, t), NEW v
  PROVE  EndOK(e, t, v)
  BY FS_EmptySet, EmptySeq, CapAssumption
     DEF EndOK, Bounds, Ahead, Shifted, Owned, Shut, SamePlace, Settled

(* One that took an acknowledgement does.                                   *)
LEMMA OpenedOK ==
  ASSUME NEW e \in Ends, NEW s, NEW u, Near(e, s, u), NEW m \in Messages, Answered(s, m),
         NEW t \in ConnType, Opened(s, m, t),
         SamePlace(s, t) \/ Moved(s, t), SameIn(s, t), t.app = s.app
  PROVE  EndOK(e, t, u)
<1>1. Ahead(t)
  BY DEF Near, Ahead, Shifted, Answered, Opened, SameIn
<1>2. t.backlog \in 0 .. Backlog
  BY TriesIs DEF Near, Bounds, SamePlace, Moved
<1>3. Owned(t, u)
  <2>1. CASE s.sock /\ ~SamePlace(s, t)
    BY <2>1, TriesIs DEF Owned, Moved, Near, Bounds
  <2>2. CASE ~s.sock \/ SamePlace(s, t)
    BY <2>2, TriesIs DEF Owned, Moved, Near, Bounds, SamePlace, Answered, Opened, SameNames
  <2> QED
    BY <2>1, <2>2
<1> QED
  BY <1>1, <1>2, <1>3 DEF Near, EndOK, Bounds, Opened, SameNames, SameIn, Settled

(* One that kept an early message does.                                     *)
LEMMA StoredOK ==
  ASSUME NEW e \in Ends, NEW s, NEW u, Near(e, s, u), NEW m \in Messages,
         NEW r \in ResultType, Stored(s, m, r)
  PROVE  EndOK(e, r.s, u)
<1> DEFINE t == r.s
<1>1. IsFiniteSet(t.rx)
  <2>1. t.rx = s.rx \cup {[seq |-> m.seq, data |-> m.data]} /\ IsFiniteSet(s.rx)
    BY DEF Stored, Near, Bounds
  <2> QED
    BY <2>1, FS_AddElement
<1>2. Shifted(t)
  <2>1. s.cur \in SeqNr /\ m.seq \in SeqNr
    BY DEF Near, ConnType, Messages
  <2>2. SeqBetween(m.seq, Wrap16(s.cur + 2), Wrap16(s.cur + 2 * Window))
    BY <2>1, StoredAhead DEF Stored, Answered
  <2>3. \A p \in s.rx : SeqBetween(p.seq, Wrap16(s.cur + 2), Wrap16(s.cur + 2 * Window))
    BY DEF Near, Ahead, Shifted, Stored, Answered
  <2>4. t.cur = s.cur /\ t.rx = s.rx \cup {[seq |-> m.seq, data |-> m.data]}
    BY DEF Stored
  <2> QED
    BY <2>2, <2>3, <2>4 DEF Shifted
<1>3. t.rdp = "OPEN" /\ SameNames(s, t) /\ SamePlace(s, t) /\ t.app = s.app
      /\ s.rdp \in {"SYN_RCVD", "OPEN"}
  BY DEF Stored, Answered, Opened
<1> QED
  BY <1>1, <1>2, <1>3 DEF Near, EndOK, Bounds, Ahead, Owned, SameNames, SamePlace, Settled

(* One that delivered a run of messages does: the flush moves rcv_cur past all *)
(* of the run, so that no early message is left at or behind it.            *)
LEMMA ReceivedOK ==
  ASSUME NEW e \in Ends, NEW s, NEW u, Near(e, s, u), NEW m \in Messages,
         NEW r \in ResultType, Received(s, m, r)
  PROVE  EndOK(e, r.s, u)
<1> DEFINE t == r.s
<1>1. PICK n \in 0 .. 2 * Window - 1, run \in Seq(Nat) : Delivered(s, m, r, n, run)
  BY DEF Received
<1>2. /\ t.rx = {p \in s.rx : \A k \in 1 .. n : p.seq # Wrap16(m.seq + k)}
      /\ t.cur = Wrap16(m.seq + n)
      /\ \A p \in s.rx : p.seq # Wrap16(m.seq + (n + 1))
  BY <1>1 DEF Delivered, Taking
<1>3. IsFiniteSet(t.rx)
  BY <1>2, FS_Subset DEF Near, Bounds
<1>4. Shifted(t)
  <2> SUFFICES ASSUME NEW p \in t.rx
               PROVE  SeqBetween(p.seq, Wrap16(t.cur + 2), Wrap16(t.cur + 2 * Window))
    BY DEF Shifted
  <2>1. s.cur \in SeqNr /\ p.seq \in SeqNr /\ p \in s.rx
    BY <1>2 DEF Near, ConnType, Buffers
  <2>2. SeqBetween(p.seq, Wrap16(s.cur + 2), Wrap16(s.cur + 2 * Window))
    BY <2>1 DEF Near, Ahead, Shifted, Received, Answered
  <2>3. m.seq = Wrap16(s.cur + 1)
    BY DEF Received
  <2>4. \A k \in 1 .. n : p.seq # Wrap16(m.seq + k)
    BY <1>2
  <2> QED
    BY <1>2, <2>1, <2>2, <2>3, <2>4, FlushedAhead
<1>5. Len(t.app) <= RxCap
  <2> DEFINE l == Len(s.app)
             room == RxCap - (l + 1)
             h == Min({n, room})
             fit == SubSeq(run, 1, h)
  <2>1. /\ s.app \in Seq(Nat \cup {NULL}) /\ l \in Nat /\ l < RxCap /\ RxCap \in Nat
        /\ n \in Nat /\ m.data \in Nat
    BY LenProperties, CapAssumption, WindowAssumption DEF Near, Received, Message, Messages, ConnType
  <2> HIDE DEF l
  <2>2. room \in Int /\ room >= 0 /\ n \in Int
    BY <2>1
  <2> HIDE DEF room
  <2>3. h \in Int /\ h <= room /\ h >= 0 /\ h <= n
    BY <2>1, <2>2, MinIs
  <2> HIDE DEF h
  <2>4. run \in Seq(Nat) /\ Len(run) = n
    BY <1>1 DEF Delivered, RunOf
  <2>5. fit \in Seq(Nat) /\ Len(fit) = h
    <3>1. \A i \in 1 .. h : run[i] \in Nat
      BY <2>1, <2>3, <2>4, ElementOfSeq
    <3>2. SubSeq(run, 1, h) \in Seq(Nat) /\ Len(SubSeq(run, 1, h)) = IF 1 <= h THEN h - 1 + 1 ELSE 0
      BY <2>3, <3>1, SubSeqProperties
    <3> QED
      BY <2>3, <3>2
  <2>6. t.app = Append(s.app, m.data) \o fit
    BY <1>1 DEF Delivered, h, room, l
  <2> HIDE DEF fit
  <2>7. fit \in Seq(Nat \cup {NULL})
    BY <2>5, SeqMonotonic
  <2>8. /\ Append(s.app, m.data) \in Seq(Nat \cup {NULL})
        /\ Len(Append(s.app, m.data)) = l + 1
    BY <2>1 DEF l
  <2>9. Len(t.app) = l + 1 + h
    BY <2>5, <2>6, <2>7, <2>8, ConcatProperties, ZenonT(60)
  <2> HIDE DEF t
  <2> QED
    BY <2>1, <2>2, <2>3, <2>9 DEF room
<1>6. t.rdp = "OPEN" /\ SameNames(s, t) /\ Moved(s, t) /\ s.rdp \in {"SYN_RCVD", "OPEN"}
  BY DEF Received, Answered, Opened
<1>7. t.backlog \in 0 .. Backlog
  BY <1>6, TriesIs DEF Near, Bounds, Moved
<1>8. Owned(t, u)
  <2>1. CASE s.sock
    BY <1>6, <2>1, TriesIs DEF Owned, Moved, Near, Bounds
  <2>2. CASE ~s.sock
    BY <1>6, <2>2, TriesIs DEF Owned, Moved, Near, Bounds, SameNames
  <2> QED
    BY <2>1, <2>2
<1> QED
  BY <1>3, <1>4, <1>5, <1>6, <1>7, <1>8 DEF Near, EndOK, Bounds, Ahead, SameNames, Settled

(* One that starts the handshake does.                                      *)
LEMMA StartedOK ==
  ASSUME NEW e \in Ends, NEW s, NEW u, Near(e, s, u), NEW m \in Messages, s.sock,
         NEW r \in ResultType, Started(e, s, m, r)
  PROVE  EndOK(e, r.s, u)
  BY DEF Near, EndOK, Bounds, Ahead, Owned, Started, SamePlace, Settled

(* One that completes it does.                                              *)
LEMMA JoinedOK ==
  ASSUME NEW e \in Ends, NEW s, NEW u, Near(e, s, u), NEW m \in Messages,
         NEW r \in ResultType, Joined(s, m, r)
  PROVE  EndOK(e, r.s, u)
  BY DEF Near, EndOK, Bounds, Ahead, Shifted, Owned, Joined, SamePlace, Settled

(* csp_rdp_new_packet keeps the invariant of the connection that hears.     *)
LEMMA NewPacketOK ==
  ASSUME NEW e \in Ends, NEW s, NEW u, Near(e, s, u), NEW m \in Messages, NEW elapsed, NEW o,
         s.rdp = "CLOSED" => e = "server" /\ s.sock /\ s.tries \in 1 .. Len(Iss["server"])
  PROVE  LET r == NewPacket(s, m, elapsed, o) IN r \in ResultType /\ EndOK(e, r.s, u)
<1> DEFINE r == NewPacket(s, m, elapsed, o)
<1>1. s \in ConnType /\ IsFiniteSet(s.rx) /\ Len(s.app) <= RxCap /\ Ahead(s) /\ Bounds(e, s)
  BY DEF Near, Bounds
<1> SUFFICES r \in ResultType /\ EndOK(e, r.s, u)
  OBVIOUS
<1>2. /\ r \in ResultType
      /\ \/ ResetHeard(s, m, r) \/ Closing(s, m, r) \/ Ending(s, m, r)
         \/ Started("server", s, m, r) \/ Joined(s, m, r) \/ Noticed(s, m, r)
         \/ Pruned(s, m, r) \/ Full(s, m, r) \/ Stored(s, m, r) \/ Received(s, m, r)
  BY <1>1, NewPacketIs
<1> HIDE DEF r
<1>t. r.s \in ConnType /\ r \in ResultType
  BY <1>2 DEF ResultType
<1>3. CASE ResetHeard(s, m, r)
  BY <1>3, <1>t, StaysOK DEF ResetHeard
<1>4. CASE Closing(s, m, r)
  BY <1>4, <1>t, HalfOK DEF Closing
<1>5. CASE Ending(s, m, r)
  BY <1>5, <1>1, <1>t, ShutOK DEF Ending
<1>6. CASE Started("server", s, m, r)
  BY <1>6, <1>2, StartedOK DEF Started
<1>7. CASE Joined(s, m, r)
  BY <1>7, <1>2, JoinedOK
<1>8. CASE Noticed(s, m, r)
  BY <1>8, <1>t, StaysOK DEF Noticed
<1>9. CASE Pruned(s, m, r)
  BY <1>9, <1>t, OpenedOK DEF Pruned
<1>10. CASE Full(s, m, r)
  <2>1. Moved(s, r.s)
    BY <1>10 DEF Full, Moved
  <2> QED
    BY <1>10, <2>1, <1>t, OpenedOK DEF Full
<1>11. CASE Stored(s, m, r)
  BY <1>11, <1>2, StoredOK
<1>12. CASE Received(s, m, r)
  BY <1>12, <1>2, ReceivedOK
<1> QED
  BY <1>2, <1>3, <1>4, <1>5, <1>6, <1>7, <1>8, <1>9, <1>10, <1>11, <1>12

-----------------------------------------------------------------------------
(* What Finish does, whatever the outcome of the transmission.              *)
Finished(e, t, out, left) ==
  /\ ep' \in [Ends -> ConnType] /\ ep'[e] = t /\ ep'[Peer(e)] = ep[Peer(e)]
  /\ net' \in [Ends -> SUBSET Messages] /\ net'[e] = left
  /\ net'[Peer(e)] \subseteq net[Peer(e)] \cup out

(* Finish makes a step of one end.                                          *)
LEMMA FinishIs ==
  ASSUME Types, NEW e \in Ends, NEW r, r.s \in ConnType, r.out \in SUBSET Messages,
         NEW o, NEW left \in SUBSET net[e], Finish(e, r, o, left)
  PROVE  Finished(e, r.s, r.out, left)
<1>1. Peer(e) \in Ends /\ Peer(e) # e
  BY PeerIs
<1>2. /\ ep' = [ep EXCEPT ![e] = r.s]
      /\ net' = [net EXCEPT ![e] = left, ![Peer(e)] = InFlight(e, r.out, o)]
  BY DEF Finish
<1>3. InFlight(e, r.out, o) \subseteq net[Peer(e)] \cup r.out
  BY DEF InFlight
<1>4. /\ net \in [Ends -> SUBSET Messages] /\ net[Peer(e)] \in SUBSET Messages
      /\ net[e] \in SUBSET Messages /\ ep \in [Ends -> ConnType]
  BY <1>1 DEF Types
<1>5. InFlight(e, r.out, o) \in SUBSET Messages /\ left \in SUBSET Messages
  BY <1>3, <1>4
<1> HIDE DEF InFlight
<1> QED
  BY <1>1, <1>2, <1>3, <1>4, <1>5 DEF Finished

(* The router hands a packet to its connection.                             *)
LEMMA DeliverAInv ==
  ASSUME AInv, NEW e \in Ends, Deliver(e)
  PROVE  AInv'
<1>1. PICK m \in net[e], elapsed \in BOOLEAN, o \in Outcomes :
        /\ ep[e].conn
        /\ LET r == NewPacket(ep[e], m, elapsed, o)
           IN  /\ \E left \in Taken(e, m) : Finish(e, r, o, left)
               /\ rcvd' = [rcvd EXCEPT ![e] = @ \o r.data]
        /\ UNCHANGED <<user, sent>>
  BY DEF Deliver
<1> DEFINE r == NewPacket(ep[e], m, elapsed, o)
<1>2. PICK left \in Taken(e, m) : Finish(e, r, o, left)
  BY <1>1
<1>3. Types /\ EndOK(e, ep[e], user[e]) /\ ep[e] \in ConnType /\ m \in Messages
  BY DEF AInv, Types
<1>4. Near(e, ep[e], user[e]) /\ ep[e].rdp # "CLOSED"
  BY <1>1, <1>3 DEF Near, EndOK, Settled
<1>5. r \in ResultType /\ EndOK(e, r.s, user[e])
  BY <1>3, <1>4, NewPacketOK
<1> HIDE DEF r
<1>6. r.s \in ConnType /\ r.out \in SUBSET Messages /\ r.data \in Seq(Nat)
  BY <1>5 DEF ResultType
<1>7. left \in SUBSET net[e]
  BY DEF Taken
<1>8. Finished(e, r.s, r.out, left)
  BY <1>2, <1>3, <1>6, <1>7, FinishIs
<1>9. rcvd' \in [Ends -> Seq(Nat)]
  <2>1. rcvd[e] \in Seq(Nat) /\ rcvd \in [Ends -> Seq(Nat)]
    BY <1>3 DEF Types
  <2>2. rcvd[e] \o r.data \in Seq(Nat)
    BY <1>6, <2>1, ConcatProperties
  <2>3. rcvd' = [rcvd EXCEPT ![e] = rcvd[e] \o r.data]
    BY <1>1 DEF r
  <2> QED
    BY <2>1, <2>2, <2>3
<1>10. Types'
  BY <1>1, <1>3, <1>8, <1>9 DEF Types, Finished
<1>11. EndOK(e, ep'[e], user'[e])
  BY <1>1, <1>5, <1>8 DEF Finished
<1> QED
  BY <1>1, <1>8, <1>10, <1>11, OneEnd DEF Finished

(* csp_conn_new for a packet to the listening socket.                       *)
LEMMA AcceptedIs ==
  ASSUME NEW s \in ConnType, NEW rdp \in {"CLOSED", "CLOSE_WAIT"}
  PROVE  LET t == Accepted(s, rdp) IN
         /\ t \in ConnType /\ t.conn /\ t.sock /\ t.app = <<>> /\ t.tries = s.tries + 1
         /\ t.rdp = rdp /\ t.tx = s.tx /\ t.rx = s.rx /\ t.backlog = s.backlog
<1>1. s.tries + 1 \in Nat /\ <<>> \in Seq(Nat \cup {NULL})
  BY EmptySeq DEF ConnType
<1> QED
  BY <1>1 DEF ConnType, Accepted, RdpStates

(* The router hands a packet to the listening socket.                       *)
LEMMA DeliverNewAInv ==
  ASSUME AInv, DeliverNew
  PROVE  AInv'
<1> DEFINE e == "server"
<1>e. e \in Ends
  BY DEF Ends
<1>1. PICK m \in net[e], o \in Outcomes, rdp \in {"CLOSED", "CLOSE_WAIT"} :
        /\ ~ep[e].conn
        /\ ep[e].tries < Len(Iss[e])
        /\ LET r == NewPacket(Accepted(ep[e], rdp), m, FALSE, o)
           IN  \E left \in Taken(e, m) : Finish(e, r, o, left)
        /\ rcvd' = [rcvd EXCEPT ![e] = <<>>]
        /\ UNCHANGED <<user, sent>>
  BY DEF DeliverNew
<1> DEFINE s == Accepted(ep[e], rdp)
           r == NewPacket(s, m, FALSE, o)
<1>2. PICK left \in Taken(e, m) : Finish(e, r, o, left)
  BY <1>1
<1>3. Types /\ EndOK(e, ep[e], user[e]) /\ ep[e] \in ConnType /\ m \in Messages
  BY <1>e DEF AInv, Types
<1>4. /\ s \in ConnType /\ s.conn /\ s.sock /\ s.app = <<>> /\ s.tries = ep[e].tries + 1
      /\ s.rdp = rdp /\ s.tx = ep[e].tx /\ s.rx = ep[e].rx /\ s.backlog = ep[e].backlog
  BY <1>3, AcceptedIs
<1>5. s.rdp \in {"CLOSED", "CLOSE_WAIT"} /\ s.rx = {} /\ s.tries \in 1 .. Len(Iss[e])
  BY <1>1, <1>3, <1>4, <1>e, TriesIs DEF EndOK, Bounds, Settled, Ahead
<1> HIDE DEF s
<1>6. Near(e, s, user[e])
  BY <1>1, <1>3, <1>4, <1>5, CapAssumption, EmptySeq DEF Near, EndOK, Bounds, Ahead, Owned
<1>7. r \in ResultType /\ EndOK(e, r.s, user[e])
  BY <1>3, <1>4, <1>5, <1>6, <1>e, NewPacketOK
<1> HIDE DEF r
<1>8. r.s \in ConnType /\ r.out \in SUBSET Messages
  BY <1>7 DEF ResultType
<1>9. left \in SUBSET net[e]
  BY DEF Taken
<1>10. Finished(e, r.s, r.out, left)
  BY <1>2, <1>3, <1>8, <1>9, <1>e, FinishIs
<1>11. Types'
  BY <1>1, <1>3, <1>10, EmptySeq DEF Types, Finished
<1>12. EndOK(e, ep'[e], user'[e])
  BY <1>1, <1>7, <1>10 DEF Finished
<1> QED
  BY <1>1, <1>10, <1>11, <1>12, <1>e, OneEnd DEF Finished

(* csp_close keeps the invariant, whoever holds the handle afterwards.      *)
LEMMA CloseOK ==
  ASSUME NEW e \in Ends, NEW s \in ConnType, NEW u, NEW v, EndOK(e, s, u), NEW o, s.conn
  PROVE  LET r == Close(s, o) IN
         /\ r.s \in ConnType /\ r.out \in SUBSET Messages /\ r.data = <<>> /\ EndOK(e, r.s, v)
         /\ \/ Shut(s, r.s) /\ r.out = {}
            \/ s.rdp # "CLOSE_WAIT" /\ Half(s, r.s) /\ r.s.app = s.app /\ r.out = {Reset(s)}
<1> DEFINE r == Close(s, o)
<1> SUFFICES /\ r.s \in ConnType /\ r.out \in SUBSET Messages /\ r.data = <<>> /\ EndOK(e, r.s, v)
             /\ \/ Shut(s, r.s) /\ r.out = {}
                \/ s.rdp # "CLOSE_WAIT" /\ Half(s, r.s) /\ r.s.app = s.app /\ r.out = {Reset(s)}
  OBVIOUS
<1>1. /\ r \in ResultType /\ r.data = <<>>
      /\ \/ Shut(s, r.s) /\ r.out = {}
         \/ s.rdp # "CLOSE_WAIT" /\ Half(s, r.s) /\ r.s.app = s.app /\ r.out = {Reset(s)}
  BY CloseIs
<1> HIDE DEF r
<1>2. r.s \in ConnType /\ r.out \in SUBSET Messages
  BY <1>1 DEF ResultType
<1>3. Near(e, s, u) /\ Bounds(e, s)
  BY DEF Near, EndOK
<1>4. EndOK(e, r.s, v)
  <2>1. CASE Shut(s, r.s)
    BY <2>1, <1>2, <1>3, ShutOK
  <2>2. CASE Half(s, r.s) /\ r.s.app = s.app
    BY <2>2, <1>2, <1>3, HalfOK
  <2> QED
    BY <1>1, <2>1, <2>2
<1> QED
  BY <1>1, <1>2, <1>4

(* A step of one end that keeps its part keeps the invariant.               *)
LEMMA FinishAInv ==
  ASSUME AInv, NEW e \in Ends, NEW t, NEW out, NEW left, Finished(e, t, out, left),
         user' \in [Ends -> UserStates], user'[Peer(e)] = user[Peer(e)],
         sent' \in [Ends -> Nat], \A d \in Ends : sent'[d] <= MaxSend[d],
         \A d \in Ends : user'[d] = "blocked" => sent'[d] < MaxSend[d],
         UNCHANGED rcvd, EndOK(e, t, user'[e])
  PROVE  AInv'
<1>1. Types'
  BY DEF AInv, Types, Finished
<1> QED
  BY <1>1, OneEnd DEF Finished

(* The timer of a lost or half-closed connection.                           *)
LEMMA ExpireAInv ==
  ASSUME AInv, NEW e \in Ends, ExpireConnection(e)
  PROVE  AInv'
<1>1. PICK o \in Outcomes : /\ ep[e].conn /\ Finish(e, Close(ep[e], o), o, net[e])
                            /\ UNCHANGED <<user, sent, rcvd>>
  BY DEF ExpireConnection
<1> DEFINE r == Close(ep[e], o)
<1>2. Types /\ EndOK(e, ep[e], user[e]) /\ ep[e] \in ConnType
  BY DEF AInv, Types
<1>3. r.s \in ConnType /\ r.out \in SUBSET Messages /\ EndOK(e, r.s, user[e])
  BY <1>1, <1>2, CloseOK
<1>4. Finish(e, r, o, net[e])
  BY <1>1
<1> HIDE DEF r
<1>5. Finished(e, r.s, r.out, net[e])
  BY <1>2, <1>3, <1>4, FinishIs
<1> QED
  BY <1>1, <1>2, <1>3, <1>5, FinishAInv DEF Types

(* A retransmission is a packet.                                            *)
LEMMA CopyType ==
  ASSUME NEW e \in Ends, ep[e] \in ConnType, NEW p \in Segments
  PROVE  Copy(e, p) \in Messages
<1>1. SynFlags(e) \in SUBSET {"SYN", "ACK", "EAK", "RST"}
  BY DEF SynFlags
<1>2. (IF p.syn THEN SynFlags(e) ELSE {"ACK"}) \in SUBSET {"SYN", "ACK", "EAK", "RST"}
  BY <1>1
<1> HIDE DEF SynFlags
<1> QED
  BY <1>2 DEF Copy, Packet, Messages, Segments, ConnType

(* What csp_rdp_check_timeouts does to a connection that stays.             *)
Checked(e, again, r) ==
  LET s == ep[e]  t == r.s IN
  /\ t \in ConnType /\ r.data = <<>>
  /\ s.conn /\ s.rdp # "CLOSE_WAIT" /\ again \subseteq t.tx
  /\ SameNames(s, t) /\ SamePlace(s, t) /\ SameIn(s, t) /\ t.rdp = s.rdp
  /\ t.app = s.app /\ t.una = s.una /\ t.tx = Unacknowledged(s)
  /\ r.out \subseteq {PureAck(s)} \cup {Copy(e, p) : p \in again}

(* csp_rdp_check_timeouts, for a connection that is not lost.               *)
LEMMA RetransmitIs ==
  ASSUME NEW e \in Ends, ep[e] \in ConnType, NEW again, NEW elapsed, NEW o,
         Retransmit(e, again, elapsed, o)
  PROVE  \E r : /\ Checked(e, again, r) /\ Finish(e, r, o, net[e])
                /\ r.out \in SUBSET Messages
                /\ UNCHANGED <<user, sent, rcvd>>
<1> DEFINE b == ep[e]
           s == [b EXCEPT !.tx = Unacknowledged(b)]
           c == CheckAck(s, elapsed, o)
           x == c.s.sem \/ RoomToSend(s)
           r == [c EXCEPT !.s.sem = x,
                          !.out = @ \cup {Copy(e, p) : p \in again}]
<1>1. /\ s.conn /\ s.rdp # "CLOSE_WAIT" /\ again \subseteq s.tx /\ Finish(e, r, o, net[e])
      /\ UNCHANGED <<user, sent, rcvd>>
  BY DEF Retransmit
<1>2. Unacknowledged(b) \subseteq Segments
  BY DEF Unacknowledged, ConnType
<1>3. /\ s \in ConnType /\ SameNames(b, s) /\ SamePlace(b, s) /\ SameIn(b, s) /\ s.rdp = b.rdp
      /\ s.app = b.app /\ s.una = b.una /\ s.tx = Unacknowledged(b)
  BY <1>2 DEF ConnType, SameNames, SamePlace, SameIn
<1> HIDE DEF s
<1>4. /\ c \in ResultType /\ c.out \subseteq {PureAck(s)} /\ c.data = <<>>
      /\ Stays(s, c.s) /\ c.s.app = s.app /\ c.s.una = s.una
  BY <1>3, CheckAckIs
<1> HIDE DEF c
<1> DEFINE t == [c.s EXCEPT !.sem = x]
           copies == {Copy(e, p) : p \in again}
<1>5. RoomToSend(s) \in BOOLEAN
  BY DEF RoomToSend
<1>c. c.s \in ConnType /\ c.out \in SUBSET Messages
  BY <1>4 DEF ResultType
<1>s. x \in BOOLEAN
  BY <1>5, <1>c DEF ConnType
<1> HIDE DEF x
<1>6. r.s = t /\ r.out = c.out \cup copies /\ r.data = c.data
  <2> DEFINE outs == c.out \cup copies
  <2>1. r = [c EXCEPT !.s.sem = x, !.out = outs]
    BY DEF copies
  <2>2. c = [s |-> c.s, out |-> c.out, data |-> c.data]
    BY <1>4 DEF ResultType
  <2> HIDE DEF outs, r
  <2>3. r = [s |-> t, out |-> outs, data |-> c.data]
    BY <2>1, <2>2
  <2> HIDE DEF t
  <2> QED
    BY <2>3 DEF outs
<1>7. /\ t \in ConnType /\ Stays(c.s, t) /\ t.app = c.s.app /\ t.una = c.s.una
  BY <1>c, <1>s DEF ConnType, Stays, SameNames, SamePlace, SameIn
<1>8. PureAck(s) = PureAck(b) /\ PureAck(b) \in Messages
  BY <1>3, ControlTypes DEF PureAck, SameNames, SameIn
<1>9. copies \subseteq Messages
  BY <1>1, <1>2, <1>3, CopyType
<1> HIDE DEF t, r, copies
<1>10. t.tx = Unacknowledged(b) /\ t.app = b.app /\ t.una = b.una /\ t.rdp = b.rdp
       /\ SameNames(b, t) /\ SamePlace(b, t) /\ SameIn(b, t)
  BY <1>3, <1>4, <1>7 DEF Stays, SameNames, SamePlace, SameIn
<1>11. b.conn /\ b.rdp # "CLOSE_WAIT" /\ again \subseteq t.tx
  BY <1>1, <1>3, <1>10 DEF SameNames
<1>12. Checked(e, again, r)
  <2> HIDE DEF b
  <2>1. r.out \subseteq {PureAck(b)} \cup copies
    BY <1>4, <1>6, <1>8
  <2> QED
    BY <1>4, <1>6, <1>7, <1>10, <1>11, <2>1 DEF Checked, b, copies
<1>13. r.out \in SUBSET Messages
  BY <1>4, <1>6, <1>8, <1>9
<1> QED
  BY <1>1, <1>12, <1>13

(* It keeps the invariant.                                                  *)
LEMMA CheckTimeoutsAInv ==
  ASSUME AInv, NEW e \in Ends, CheckTimeouts(e)
  PROVE  AInv'
<1>0. Types /\ EndOK(e, ep[e], user[e]) /\ ep[e] \in ConnType
  BY DEF AInv, Types
<1>1. PICK again \in SUBSET ep[e].tx, elapsed \in BOOLEAN, o \in Outcomes :
         Retransmit(e, again, elapsed, o)
  BY DEF CheckTimeouts
<1>2. PICK r : /\ Checked(e, again, r) /\ Finish(e, r, o, net[e])
               /\ r.out \in SUBSET Messages
               /\ UNCHANGED <<user, sent, rcvd>>
  BY <1>0, <1>1, RetransmitIs
<1>3. r.s \in ConnType /\ Finished(e, r.s, r.out, net[e])
  BY <1>0, <1>2, FinishIs DEF Checked
<1>4. EndOK(e, r.s, user[e])
  BY <1>0, <1>2 DEF Checked, EndOK, Bounds, Ahead, Shifted, Owned, SameNames, SamePlace, SameIn, Settled
<1> QED
  BY <1>0, <1>2, <1>3, <1>4, FinishAInv DEF Types

-----------------------------------------------------------------------------
(* csp_rdp_connect up to the wait, from the structure s.                    *)
Synchronised(s, wait) ==
  LET i == Iss["client"][s.tries + 1]  t == ep'["client"] IN
  /\ s.tries < Len(Iss["client"])
  /\ t.conn => s.conn
  /\ t.iss = i /\ t.nxt = Wrap16(i + 1) /\ t.una = i /\ t.irs = s.irs /\ t.cur = s.cur
  /\ t.rx = {} /\ t.tries = s.tries + 1 /\ SamePlace(s, t)
  /\ \/ /\ t.conn = s.conn /\ t.rdp = "SYN_SENT" /\ t.tx = {Syn(i)} /\ t.app = s.app
        /\ net'["server"] \subseteq net["server"] \cup {Packet({"SYN"}, i, 0, NULL, {})}
        /\ user'["client"] = wait
     \/ /\ ~t.conn /\ t.rdp = "CLOSED" /\ t.tx = {} /\ t.app = <<>>
        /\ net'["server"] \subseteq net["server"] /\ user'["client"] = "done"

(* What SendSyn does, whatever the outcome of the transmission.             *)
LEMMA SendSynIs ==
  ASSUME Types, NEW s \in ConnType, NEW wait \in {"waiting", "retrying"}, NEW o, SendSyn(s, wait, o)
  PROVE  /\ Synchronised(s, wait) /\ UNCHANGED <<sent, rcvd>>
         /\ \E out : Finished("client", ep'["client"], out, net["client"])
         /\ user' \in [Ends -> UserStates] /\ user'["server"] = user["server"]
         /\ user'["client"] # "blocked"
<1> DEFINE i == Iss["client"][s.tries + 1]
           t == [s EXCEPT !.iss = i, !.nxt = Wrap16(i + 1), !.una = i, !.sem = FALSE,
                     !.rdp = "SYN_SENT", !.tx = {Syn(i)}, !.rx = {}, !.tries = @ + 1]
           r == IF o = "failed" THEN Quiet(Closed(t))
                ELSE Result(t, {Packet({"SYN"}, i, 0, NULL, {})}, <<>>)
<1>1. /\ s.tries < Len(Iss["client"]) /\ Finish("client", r, o, net["client"])
      /\ user' = [user EXCEPT !["client"] = IF o = "failed" THEN "done" ELSE wait]
      /\ UNCHANGED <<sent, rcvd>>
  BY DEF SendSyn
<1>2. "client" \in Ends /\ Peer("client") = "server"
  BY DEF Ends, Peer
<1>3. s.tries \in Nat /\ s.tries + 1 \in 1 .. Len(Iss["client"]) /\ s.tries + 1 \in Nat
  BY <1>1, <1>2, TriesIs DEF ConnType
<1>4. i \in SeqNr
  BY <1>2, <1>3, LoadAssumption, ElementOfSeq
<1>5. Wrap16(i + 1) \in SeqNr /\ 0 \in SeqNr
  BY <1>4, WrapSucc, SeqSpaceAssumption DEF SeqNr
<1>6. Syn(i) \in Segments /\ Packet({"SYN"}, i, 0, NULL, {}) \in Messages
  BY <1>4, <1>5 DEF Syn, Segments, Packet, Messages
<1>7. /\ t \in ConnType /\ t.conn = s.conn /\ t.rdp = "SYN_SENT" /\ SamePlace(s, t)
      /\ t.iss = i /\ t.nxt = Wrap16(i + 1) /\ t.una = i /\ t.irs = s.irs /\ t.cur = s.cur
      /\ t.tx = {Syn(i)} /\ t.rx = {} /\ t.app = s.app /\ t.tries = s.tries + 1
  <2> HIDE DEF i
  <2> QED
    BY <1>3, <1>4, <1>5, <1>6 DEF ConnType, RdpStates, SamePlace
<1> HIDE DEF t
<1>8. CASE o = "failed"
  <2> DEFINE z == Closed(t)
  <2>1. z \in ConnType /\ Shut(t, z) /\ z.una = t.una
    BY <1>7, ClosedIs
  <2> HIDE DEF z
  <2>2. r.s = z /\ r.out = {}
    BY <1>8 DEF Quiet, Result, z
  <2> HIDE DEF r
  <2>3. Finished("client", z, {}, net["client"])
    <3>1. r.s \in ConnType /\ r.out \in SUBSET Messages /\ net["client"] \in SUBSET net["client"]
      BY <2>1, <2>2
    <3>2. Finished("client", r.s, r.out, net["client"])
      BY <1>1, <1>2, <3>1, FinishIs
    <3> QED
      BY <2>2, <3>2
  <2>4. z = ep'["client"]
    BY <2>3 DEF Finished
  <2>5. Synchronised(s, wait)
    BY <1>1, <1>2, <1>7, <1>8, <2>1, <2>3, <2>4 DEF Synchronised, Finished, Shut, SamePlace, Types
  <2> QED
    BY <1>1, <1>2, <2>3, <2>4, <2>5 DEF Types, UserStates, Ends
<1>9. CASE o # "failed"
  <2> DEFINE out == {Packet({"SYN"}, i, 0, NULL, {})}
  <2>1. r.s = t /\ r.out = out
    BY <1>9 DEF Result
  <2> HIDE DEF r
  <2>2. out \in SUBSET Messages
    BY <1>6
  <2>3. Finished("client", t, out, net["client"])
    <3>1. r.s \in ConnType /\ r.out \in SUBSET Messages /\ net["client"] \in SUBSET net["client"]
      BY <1>7, <2>1, <2>2
    <3>2. Finished("client", r.s, r.out, net["client"])
      BY <1>1, <1>2, <3>1, FinishIs
    <3> QED
      BY <2>1, <3>2
  <2>4. t = ep'["client"] /\ net'["server"] \subseteq net["server"] \cup out
    BY <2>3, <1>2 DEF Finished
  <2>5. Synchronised(s, wait)
    BY <1>1, <1>2, <1>7, <1>9, <2>4 DEF Synchronised, Types
  <2> QED
    BY <1>1, <1>2, <2>3, <2>4, <2>5 DEF Types, UserStates, Ends
<1> QED
  BY <1>8, <1>9

(* The names of the two ends.                                               *)
LEMMA ClientIs == "client" \in Ends /\ "server" \in Ends /\ Peer("client") = "server"
                  /\ Peer("server") = "client" /\ Ends = {"client", "server"}
  BY DEF Ends, Peer

(* The client that sent a SYN satisfies the invariant.                      *)
LEMMA SynchronisedOK ==
  ASSUME NEW s \in ConnType, NEW wait \in {"waiting", "retrying"}, ep'["client"] \in ConnType,
         s.conn, Len(s.app) <= RxCap, s.backlog \in 0 .. Backlog, Synchronised(s, wait)
  PROVE  EndOK("client", ep'["client"], user'["client"])
<1> DEFINE t == ep'["client"]
<1>1. t.tries \in 0 .. Len(Iss["client"])
  BY ClientIs, TriesIs DEF Synchronised, ConnType
<1>2. IsFiniteSet(t.rx) /\ t.rx = {} /\ t.backlog \in 0 .. Backlog
  BY FS_EmptySet DEF Synchronised, SamePlace
<1>3. Len(t.app) <= RxCap
  <2>1. t.app = s.app \/ t.app = <<>>
    BY DEF Synchronised
  <2> QED
    BY <2>1, EmptySeq, CapAssumption
<1>4. t.conn <=> t.rdp # "CLOSED"
  BY DEF Synchronised
<1>5. t.rdp \in {"CLOSED", "SYN_SENT"} /\ Owned(t, user'["client"])
  BY DEF Synchronised, Owned
<1> HIDE DEF t
<1> QED
  BY <1>1, <1>2, <1>3, <1>4, <1>5 DEF EndOK, Bounds, Ahead, t, Settled

(* Sending a SYN keeps the invariant.                                       *)
LEMMA SendSynAInv ==
  ASSUME AInv, NEW s \in ConnType, NEW wait \in {"waiting", "retrying"}, NEW o,
         s.conn, Len(s.app) <= RxCap, s.backlog \in 0 .. Backlog, SendSyn(s, wait, o)
  PROVE  AInv'
<1>1. Types
  BY DEF AInv
<1>2. /\ Synchronised(s, wait) /\ UNCHANGED <<sent, rcvd>>
      /\ user' \in [Ends -> UserStates] /\ user'["server"] = user["server"]
      /\ user'["client"] # "blocked"
  BY <1>1, SendSynIs
<1>3. PICK out : Finished("client", ep'["client"], out, net["client"])
  BY <1>1, SendSynIs
<1>4. ep'["client"] \in ConnType
  BY <1>3, ClientIs DEF Finished
<1>5. EndOK("client", ep'["client"], user'["client"])
  BY <1>2, <1>4, SynchronisedOK
<1>6. \A d \in Ends : user'[d] = "blocked" => sent'[d] < MaxSend[d]
  BY <1>1, <1>2, ClientIs DEF Types
<1>7. sent' \in [Ends -> Nat] /\ \A d \in Ends : sent'[d] <= MaxSend[d]
  BY <1>1, <1>2 DEF Types
<1>8. user'[Peer("client")] = user[Peer("client")] /\ rcvd' = rcvd
  BY <1>2, ClientIs
<1> QED
  BY <1>2, <1>3, <1>5, <1>6, <1>7, <1>8, ClientIs, FinishAInv

(* csp_connect does.                                                        *)
LEMMA ConnectAInv ==
  ASSUME AInv, Connect
  PROVE  AInv'
<1> DEFINE b == ep["client"]
           s == [b EXCEPT !.conn = TRUE, !.sock = FALSE, !.app = <<>>]
<1>1. PICK o \in Outcomes : SendSyn(s, "waiting", o)
  BY DEF Connect
<1>2. b \in ConnType /\ b.backlog \in 0 .. Backlog
  BY ClientIs DEF AInv, Types, EndOK, Bounds
<1>3. s \in ConnType /\ s.conn /\ s.app = <<>> /\ s.backlog = b.backlog
  BY <1>2, EmptySeq DEF ConnType
<1> HIDE DEF s
<1>4. Len(s.app) <= RxCap
  BY <1>3, EmptySeq, CapAssumption
<1> QED
  BY <1>1, <1>2, <1>3, <1>4, SendSynAInv

(* A step of one end that only changes its structure and its user.          *)
Local(e) == /\ ep' = [ep EXCEPT ![e] = ep'[e]] /\ user' = [user EXCEPT ![e] = user'[e]]
            /\ ep'[e] \in ConnType /\ user'[e] \in UserStates \ {"blocked"}
            /\ UNCHANGED <<net, sent, rcvd>>

(* A step within one end keeps the invariant if its part does.              *)
LEMMA LocalAInv ==
  ASSUME AInv, NEW e \in Ends, Local(e), EndOK(e, ep'[e], user'[e])
  PROVE  AInv'
<1>1. Peer(e) \in Ends /\ Peer(e) # e /\ Types
  BY PeerIs DEF AInv
<1>2. Types'
  <2>1. ep' \in [Ends -> ConnType]
    BY <1>1 DEF Types, Local
  <2>2. user' \in [Ends -> UserStates]
    BY <1>1 DEF Types, Local
  <2>3. \A d \in Ends : user'[d] = "blocked" => sent'[d] < MaxSend[d]
    BY <1>1, PeerIs DEF Types, Local
  <2> QED
    BY <1>1, <2>1, <2>2, <2>3 DEF Types, Local
<1>3. ep'[Peer(e)] = ep[Peer(e)] /\ user'[Peer(e)] = user[Peer(e)]
  BY <1>1 DEF Local, Types
<1> QED
  BY <1>2, <1>3, OneEnd

(* A connect that fails closes the structure.                               *)
LEMMA GiveUpIs ==
  ASSUME Types, NEW s \in ConnType, GiveUpConnect(s)
  PROVE  /\ Local("client") /\ user'["client"] = "done"
         /\ \/ s.conn /\ Shut(s, ep'["client"])
            \/ ~s.conn /\ Half(s, ep'["client"]) /\ ep'["client"].app = s.app
<1> DEFINE t == GivenUp(s)
<1>1. t \in ConnType /\ (IF s.conn THEN Shut(s, t) ELSE Half(s, t) /\ t.app = s.app)
  <2>1. CASE s.conn
    BY <2>1, ClosedIs DEF GivenUp
  <2>2. CASE ~s.conn
    BY <2>2 DEF GivenUp, ConnType, RdpStates, Half, SameNames, SamePlace, SameIn
  <2> QED  BY <2>1, <2>2
<1>2. "done" \in UserStates \ {"blocked"}
  BY DEF UserStates
<1>3. ep'["client"] = t /\ user'["client"] = "done"
  BY ClientIs DEF GiveUpConnect, Types
<1> HIDE DEF t
<1> QED
  BY <1>1, <1>2, <1>3 DEF GiveUpConnect, Local

(* Either way the invariant is kept.                                        *)
LEMMA GiveUpOK ==
  ASSUME Types, NEW s \in ConnType, NEW u, EndOK("client", s, u), GiveUpConnect(s)
  PROVE  Local("client") /\ EndOK("client", ep'["client"], user'["client"])
<1> DEFINE t == ep'["client"]
<1>1. /\ Local("client") /\ user'["client"] = "done" /\ t \in ConnType
      /\ \/ s.conn /\ Shut(s, t)
         \/ ~s.conn /\ Half(s, t) /\ t.app = s.app
  BY GiveUpIs DEF Local
<1> HIDE DEF t
<1>2. CASE s.conn /\ Shut(s, t)
  BY <1>1, <1>2, ShutOK, ClientIs DEF EndOK, t
<1>3. CASE ~s.conn /\ Half(s, t) /\ t.app = s.app
  <2>1. EndOK("client", t, "done")
    BY <1>3 DEF EndOK, Settled, Bounds, Ahead, Shifted, Owned, Half, SameNames, SamePlace, SameIn
  <2> QED  BY <1>1, <2>1 DEF t
<1> QED
  BY <1>1, <1>2, <1>3

(* Draining the semaphore changes nothing else.                             *)
LEMMA SemIs ==
  ASSUME NEW s \in ConnType
  PROVE  LET t == [s EXCEPT !.sem = FALSE] IN
         t \in ConnType /\ Stays(s, t) /\ t.app = s.app /\ t.una = s.una
  BY DEF ConnType, Stays, SameNames, SamePlace, SameIn

(* The client is woken in csp_rdp_connect.                                  *)
LEMMA ConnectedAInv ==
  ASSUME AInv, Connected
  PROVE  AInv'
<1> DEFINE b == ep["client"]
           s == [b EXCEPT !.sem = FALSE]
<1>1. Types /\ b \in ConnType /\ EndOK("client", b, user["client"])
  BY ClientIs DEF AInv, Types
<1>2. s \in ConnType /\ Stays(b, s) /\ s.app = b.app
  BY <1>1, SemIs
<1>3. /\ user["client"] \in {"waiting", "retrying"}
      /\ \/ /\ ep' = [ep EXCEPT !["client"] = s]
            /\ user' = [user EXCEPT !["client"] = "open"]
            /\ UNCHANGED <<net, sent, rcvd>>
         \/ s.rdp = "SYN_SENT" /\ \E o \in Outcomes : SendSyn(s, "retrying", o)
         \/ GiveUpConnect(s)
  <2> HIDE DEF s
  <2> QED
    BY DEF Connected, s
<1> HIDE DEF s
<1>4. CASE /\ ep' = [ep EXCEPT !["client"] = s]
           /\ user' = [user EXCEPT !["client"] = "open"]
           /\ UNCHANGED <<net, sent, rcvd>>
  <2>1. ep'["client"] = s /\ user'["client"] = "open"
    BY <1>1, <1>4, ClientIs DEF Types
  <2>2. Local("client")
    BY <1>2, <1>4, <2>1 DEF Local, UserStates
  <2>3. EndOK("client", s, "open")
    BY <1>1, <1>2, <1>3 DEF EndOK, Bounds, Ahead, Shifted, Owned, Holding, Stays,
                      SameNames, SamePlace, SameIn, Settled
  <2> QED
    BY <2>1, <2>2, <2>3, LocalAInv, ClientIs
<1>5. CASE s.rdp = "SYN_SENT" /\ \E o \in Outcomes : SendSyn(s, "retrying", o)
  <2>1. s.conn /\ Len(s.app) <= RxCap /\ s.backlog \in 0 .. Backlog
    BY <1>1, <1>2, <1>5 DEF EndOK, Bounds, Stays, SameNames, SamePlace, Settled
  <2> QED
    BY <1>2, <1>5, <2>1, SendSynAInv
<1>6. CASE GiveUpConnect(s)
  <2>1. EndOK("client", s, user["client"])
    BY <1>1, <1>2 DEF EndOK, Settled, Bounds, Ahead, Shifted, Owned, Stays,
                      SameNames, SamePlace, SameIn
  <2>2. Local("client") /\ EndOK("client", ep'["client"], user'["client"])
    BY <1>1, <1>2, <1>6, <2>1, GiveUpOK
  <2> QED
    BY <2>2, LocalAInv, ClientIs
<1> QED
  BY <1>3, <1>4, <1>5, <1>6

(* The client waited too long.                                              *)
LEMMA ConnectTimeoutAInv ==
  ASSUME AInv, ConnectTimeout
  PROVE  AInv'
<1>1. Types /\ ep["client"] \in ConnType /\ EndOK("client", ep["client"], user["client"])
  BY ClientIs DEF AInv, Types
<1>2. Local("client") /\ EndOK("client", ep'["client"], user'["client"])
  BY <1>1, GiveUpOK DEF ConnectTimeout
<1> QED
  BY <1>2, LocalAInv, ClientIs

(* csp_rdp_send past the window test, from the structure s.                 *)
Transmitted(e, s) ==
  LET k == sent[e] + 1
      p == [syn |-> FALSE, seq |-> s.nxt, data |-> k]
      t == ep'[e]
  IN  /\ s.conn /\ s.rdp = "OPEN"
      /\ t.conn /\ t.rdp = "OPEN" /\ t.iss = s.iss /\ t.irs = s.irs /\ t.tries = s.tries
      /\ SamePlace(s, t) /\ SameIn(s, t) /\ t.app = s.app /\ t.una = s.una
      /\ t.nxt = Wrap16(s.nxt + 1) /\ t.tx = s.tx \cup {p}
      /\ sent' = [sent EXCEPT ![e] = k]
      /\ net'[Peer(e)] \subseteq net[Peer(e)] \cup {Packet({"ACK"}, s.nxt, ep[e].cur, k, {})}

(* What Transmit does, whatever the outcome of the transmission.            *)
LEMMA TransmitIs ==
  ASSUME Types, NEW e \in Ends, NEW s \in ConnType, NEW o, Transmit(e, s, o)
  PROVE  /\ Transmitted(e, s)
         /\ \E out : Finished(e, ep'[e], out, net[e])
<1> DEFINE k == sent[e] + 1
           p == [syn |-> FALSE, seq |-> s.nxt, data |-> k]
           t == [s EXCEPT !.nxt = Wrap16(@ + 1), !.tx = @ \cup {p}]
           r == Result(t, {Copy(e, p)}, <<>>)
<1>1. /\ s.conn /\ s.rdp = "OPEN" /\ Finish(e, r, o, net[e]) /\ sent' = [sent EXCEPT ![e] = k]
  BY DEF Transmit
<1>2. s.nxt \in SeqNr /\ Wrap16(s.nxt + 1) \in SeqNr /\ k \in Nat /\ ep[e] \in ConnType
  BY WrapSucc DEF ConnType, Types
<1> HIDE DEF k
<1>3. p \in Segments /\ p.syn = FALSE /\ p.seq = s.nxt /\ p.data = k
  BY <1>2 DEF Segments
<1>4. Copy(e, p) \in Messages
  BY <1>2, <1>3, CopyType
<1>5. Copy(e, p) = Packet({"ACK"}, s.nxt, ep[e].cur, k, {})
  BY <1>3 DEF Copy
<1> HIDE DEF p
<1>6. /\ t \in ConnType /\ t.conn = s.conn /\ t.rdp = s.rdp /\ t.iss = s.iss /\ t.irs = s.irs
      /\ t.tries = s.tries /\ SamePlace(s, t) /\ SameIn(s, t) /\ t.app = s.app /\ t.una = s.una
      /\ t.nxt = Wrap16(s.nxt + 1) /\ t.tx = s.tx \cup {p}
  BY <1>2, <1>3 DEF ConnType, SamePlace, SameIn
<1> HIDE DEF t
<1>7. r.s = t /\ r.out = {Copy(e, p)}
  BY DEF Result
<1> HIDE DEF r
<1>8. r.s \in ConnType /\ r.out \in SUBSET Messages /\ net[e] \in SUBSET net[e]
  BY <1>4, <1>6, <1>7
<1>9. Finished(e, r.s, r.out, net[e])
  BY <1>1, <1>8, FinishIs
<1>10. ep'[e] = t /\ net'[Peer(e)] \subseteq net[Peer(e)] \cup {Packet({"ACK"}, s.nxt, ep[e].cur, k, {})}
  BY <1>5, <1>7, <1>9 DEF Finished
<1>11. Transmitted(e, s)
  BY <1>1, <1>6, <1>10 DEF Transmitted, k, p
<1> QED
  BY <1>7, <1>9, <1>10, <1>11

(* Sending a message keeps the invariant.                                   *)
LEMMA TransmitAInv ==
  ASSUME AInv, NEW e \in Ends, NEW s \in ConnType, NEW o, Transmit(e, s, o),
         Stays(ep[e], s), s.app = ep[e].app, sent[e] < MaxSend[e],
         user[e] \in Holding, user'[e] = "open", user'[Peer(e)] = user[Peer(e)],
         user' \in [Ends -> UserStates], rcvd' = rcvd
  PROVE  AInv'
<1>1. Types /\ EndOK(e, ep[e], user[e])
  BY DEF AInv
<1>2. Transmitted(e, s)
  BY <1>1, TransmitIs
<1>3. PICK out : Finished(e, ep'[e], out, net[e])
  BY <1>1, TransmitIs
<1>4. EndOK(e, ep'[e], user'[e])
  BY <1>1, <1>2 DEF EndOK, Bounds, Ahead, Shifted, Owned, Holding, Stays, SameNames,
                    SamePlace, SameIn, Transmitted, Settled
<1>5. sent' = [sent EXCEPT ![e] = sent[e] + 1] /\ sent \in [Ends -> Nat] /\ sent[e] \in Nat
  BY <1>1, <1>2 DEF Types, Transmitted
<1>6. /\ sent' \in [Ends -> Nat]
      /\ \A d \in Ends : sent'[d] <= MaxSend[d]
      /\ \A d \in Ends : user'[d] = "blocked" => sent'[d] < MaxSend[d]
  <2>1. sent'[e] = sent[e] + 1 /\ sent'[Peer(e)] = sent[Peer(e)] /\ sent' \in [Ends -> Nat]
    BY <1>5, PeerIs
  <2>2. MaxSend[e] \in Nat
    BY LoadAssumption
  <2>3. \A d \in Ends : d = e \/ d = Peer(e)
    BY PeerIs
  <2>4. sent'[e] <= MaxSend[e]
    BY <1>5, <2>1, <2>2
  <2> QED
    BY <1>1, <2>1, <2>3, <2>4 DEF Types
<1> QED
  BY <1>3, <1>4, <1>6, FinishAInv

(* csp_send does, whether it sends or goes to sleep.                        *)
LEMMA SendAInv ==
  ASSUME AInv, NEW e \in Ends, Send(e)
  PROVE  AInv'
<1> DEFINE s == ep[e]
           t == [s EXCEPT !.sem = FALSE]
<1>1. Types /\ EndOK(e, s, user[e]) /\ s \in ConnType
  BY DEF AInv, Types
<1>2. t \in ConnType /\ Stays(s, t) /\ t.app = s.app
  BY <1>1, SemIs
<1>3. user[e] = "open" /\ sent[e] < MaxSend[e] /\ rcvd' = rcvd
  BY DEF Send
<1>4. CASE /\ ep' = [ep EXCEPT ![e].sem = FALSE]
           /\ user' = [user EXCEPT ![e] = "blocked"]
           /\ UNCHANGED <<net, sent>>
  <2>1. ep' = [ep EXCEPT ![e] = t]
    BY <1>4
  <2> HIDE DEF t
  <2>2. Finished(e, t, {}, net[e])
    <3>1. ep' \in [Ends -> ConnType] /\ ep'[e] = t /\ ep'[Peer(e)] = ep[Peer(e)]
      BY <1>1, <1>2, <2>1, PeerIs DEF Types
    <3> QED
      BY <1>1, <1>4, <3>1, PeerIs DEF Finished, Types
  <2>3. EndOK(e, t, "blocked")
    BY <1>1, <1>2, <1>3 DEF EndOK, Bounds, Ahead, Shifted, Owned, Holding, Stays, SameNames,
                    SamePlace, SameIn, Settled
  <2>4. /\ user' \in [Ends -> UserStates] /\ user'[e] = "blocked"
        /\ user'[Peer(e)] = user[Peer(e)]
    BY <1>1, <1>4, PeerIs DEF Types, UserStates
  <2>5. /\ sent' \in [Ends -> Nat] /\ \A d \in Ends : sent'[d] <= MaxSend[d]
        /\ \A d \in Ends : user'[d] = "blocked" => sent'[d] < MaxSend[d]
    BY <1>1, <1>3, <1>4, <2>4, PeerIs DEF Types
  <2> QED
    BY <1>3, <2>2, <2>3, <2>4, <2>5, FinishAInv
<1>5. CASE UNCHANGED user /\ \E o \in Outcomes : Transmit(e, s, o)
  <2>1. Stays(s, s) /\ user' \in [Ends -> UserStates]
    BY <1>1, <1>5, StaysSelf DEF Types
  <2> QED
    BY <1>1, <1>3, <1>5, <2>1, TransmitAInv DEF Holding
<1> QED
  BY <1>4, <1>5 DEF Send

(* The sender that is woken.                                                *)
LEMMA SendWokenAInv ==
  ASSUME AInv, NEW e \in Ends, SendWoken(e)
  PROVE  AInv'
<1> DEFINE b == ep[e]
           s == [b EXCEPT !.sem = FALSE]
<1>1. Types /\ EndOK(e, b, user[e]) /\ b \in ConnType
  BY DEF AInv, Types
<1>2. s \in ConnType /\ Stays(b, s) /\ s.app = b.app
  BY <1>1, SemIs
<1>3. /\ user[e] = "blocked" /\ rcvd' = rcvd
      /\ \/ ep' = [ep EXCEPT ![e] = s] /\ UNCHANGED <<user, net, sent>>
         \/ /\ \E o \in Outcomes : Transmit(e, s, o)
            /\ user' = [user EXCEPT ![e] = "open"]
         \/ /\ ep' = [ep EXCEPT ![e] = s] /\ user' = [user EXCEPT ![e] = "open"]
            /\ UNCHANGED <<net, sent>>
  BY DEF SendWoken
<1> HIDE DEF s
<1>4. \A v \in {"blocked", "open"} : EndOK(e, s, v)
  BY <1>1, <1>2, <1>3 DEF EndOK, Bounds, Ahead, Shifted, Owned, Holding, Stays, SameNames,
                    SamePlace, SameIn, Settled
<1>5. sent[e] < MaxSend[e]
  BY <1>1, <1>3 DEF Types
<1>6. CASE ep' = [ep EXCEPT ![e] = s] /\ UNCHANGED <<user, net, sent>>
  <2>1. Finished(e, s, {}, net[e])
    BY <1>1, <1>2, <1>6, PeerIs DEF Finished, Types
  <2> QED
    BY <1>1, <1>3, <1>4, <1>6, <2>1, FinishAInv DEF Types
<1>7. CASE /\ \E o \in Outcomes : Transmit(e, s, o)
           /\ user' = [user EXCEPT ![e] = "open"]
  <2>1. /\ user' \in [Ends -> UserStates] /\ user'[e] = "open"
        /\ user'[Peer(e)] = user[Peer(e)]
    BY <1>1, <1>7, PeerIs DEF Types, UserStates
  <2> QED
    BY <1>2, <1>3, <1>5, <1>7, <2>1, TransmitAInv DEF Holding
<1>8. CASE /\ ep' = [ep EXCEPT ![e] = s] /\ user' = [user EXCEPT ![e] = "open"]
           /\ UNCHANGED <<net, sent>>
  <2>1. ep'[e] = s /\ user'[e] = "open"
    BY <1>1, <1>8 DEF Types
  <2>2. Local(e)
    BY <1>2, <1>3, <1>8, <2>1 DEF Local, UserStates
  <2> QED
    BY <1>4, <2>1, <2>2, LocalAInv
<1> QED
  BY <1>3, <1>6, <1>7, <1>8

(* The sender that waited too long.                                         *)
LEMMA SendTimeoutAInv ==
  ASSUME AInv, NEW e \in Ends, SendTimeout(e)
  PROVE  AInv'
<1>1. Types /\ EndOK(e, ep[e], user[e]) /\ ep[e] \in ConnType
  BY DEF AInv, Types
<1>2. /\ user[e] = "blocked" /\ user' = [user EXCEPT ![e] = "open"]
      /\ UNCHANGED <<ep, net, sent, rcvd>>
  BY DEF SendTimeout
<1>3. ep'[e] = ep[e] /\ user'[e] = "open" /\ ep' = [ep EXCEPT ![e] = ep[e]]
  BY <1>1, <1>2 DEF Types
<1>4. Local(e)
  BY <1>1, <1>2, <1>3 DEF Local, UserStates
<1>5. EndOK(e, ep[e], "open")
  BY <1>1, <1>2 DEF EndOK, Owned, Holding, Settled
<1> QED
  BY <1>3, <1>4, <1>5, LocalAInv

(* csp_accept.                                                              *)
LEMMA AcceptAInv ==
  ASSUME AInv, Accept
  PROVE  AInv'
<1> DEFINE s == ep["server"]
           t == [s EXCEPT !.backlog = @ - 1]
<1>1. Types /\ EndOK("server", s, user["server"]) /\ s \in ConnType
  BY ClientIs DEF AInv, Types
<1>2. /\ user["server"] = "none" /\ s.backlog > 0
      /\ ep' = [ep EXCEPT !["server"] = t]
      /\ user' = [user EXCEPT !["server"] = "open"]
      /\ UNCHANGED <<net, sent, rcvd>>
  BY DEF Accept
<1>3. s.backlog - 1 \in 0 .. Backlog /\ s.backlog - 1 \in Nat
  <2> DEFINE b == s.backlog
  <2>1. b \in Nat /\ b <= Backlog /\ b > 0 /\ Backlog \in Nat
    BY <1>1, <1>2, TriesIs, ClientIs DEF EndOK, Bounds
  <2> HIDE DEF b
  <2>2. b - 1 \in 0 .. Backlog /\ b - 1 \in Nat
    BY <2>1
  <2> QED
    BY <2>2 DEF b
<1>4. /\ t \in ConnType /\ SameNames(s, t) /\ SameIn(s, t) /\ t.rdp = s.rdp /\ t.app = s.app
      /\ t.backlog \in 0 .. Backlog
  BY <1>1, <1>3 DEF ConnType, SameNames, SameIn
<1> HIDE DEF t
<1>5. ep'["server"] = t /\ user'["server"] = "open"
  BY <1>1, <1>2, ClientIs DEF Types
<1>6. Local("server")
  BY <1>2, <1>4, <1>5 DEF Local, UserStates
<1>7. EndOK("server", t, "open")
  BY <1>1, <1>4 DEF EndOK, Bounds, Ahead, Shifted, Owned, Holding, SameNames, SameIn, Settled
<1> QED
  BY <1>5, <1>6, <1>7, LocalAInv, ClientIs

(* csp_read of a connection that has a packet for the user.                 *)
Fetched(e) ==
  LET s == ep[e]  t == ep'[e] IN
  /\ s.conn /\ s.app # <<>> /\ user[e] = "open"
  /\ Stays(s, t) /\ t.app = Tail(s.app) /\ t.una = s.una
  /\ net'[Peer(e)] \subseteq net[Peer(e)] \cup {PureAck(s)}
  /\ user'[e] \in {"open", "eof"}

(* csp_read takes a packet, or finds the connection closed.                 *)
LEMMA ReadIs ==
  ASSUME Types, NEW e \in Ends, Read(e)
  PROVE  /\ UNCHANGED <<sent, rcvd>> /\ user[e] = "open"
         /\ user' \in [Ends -> UserStates] /\ user'[Peer(e)] = user[Peer(e)]
         /\ user'[e] \in {"open", "eof"}
         /\ \/ ~ep[e].conn /\ UNCHANGED <<ep, net>>
            \/ Fetched(e) /\ \E out : Finished(e, ep'[e], out, net[e])
<1> DEFINE s == ep[e]
           a == Tail(s.app)
           t == [s EXCEPT !.app = a]
<1>1. PICK elapsed \in BOOLEAN, o \in Outcomes :
        /\ user[e] = "open"
        /\ \/ /\ ~s.conn
              /\ user' = [user EXCEPT ![e] = "eof"]
              /\ UNCHANGED <<ep, net>>
           \/ /\ s.conn /\ s.app # <<>>
              /\ Finish(e, CheckAck(t, elapsed, o), o, net[e])
              /\ user' = IF Head(s.app) = NULL THEN [user EXCEPT ![e] = "eof"] ELSE user
        /\ UNCHANGED <<sent, rcvd>>
  BY DEF Read
<1>2. /\ user' \in [Ends -> UserStates] /\ user'[Peer(e)] = user[Peer(e)]
      /\ user'[e] \in {"open", "eof"}
  <2>1. user' = [user EXCEPT ![e] = "eof"] \/ user' = user
    BY <1>1
  <2> QED
    BY <1>1, <2>1, PeerIs DEF Types, UserStates
<1>3. ASSUME s.conn, s.app # <<>>, Finish(e, CheckAck(t, elapsed, o), o, net[e])
      PROVE  Fetched(e) /\ \E out : Finished(e, ep'[e], out, net[e])
  <2> DEFINE r == CheckAck(t, elapsed, o)
  <2>1. s \in ConnType /\ s.app \in Seq(Nat \cup {NULL})
    BY DEF Types, ConnType
  <2>2. a \in Seq(Nat \cup {NULL})
    BY <1>3, <2>1, HeadTailProperties
  <2>3. t \in ConnType /\ Stays(s, t) /\ t.app = a /\ t.una = s.una
    <3> HIDE DEF a
    <3> QED
      BY <2>1, <2>2 DEF ConnType, Stays, SameNames, SamePlace, SameIn
  <2> HIDE DEF t, a
  <2>4. /\ r \in ResultType /\ r.out \subseteq {PureAck(t)} /\ r.data = <<>>
        /\ Stays(t, r.s) /\ r.s.app = t.app /\ r.s.una = t.una
    BY <2>3, CheckAckIs
  <2>5. Finish(e, r, o, net[e])
    BY <1>3
  <2> HIDE DEF r
  <2>6. r.s \in ConnType /\ r.out \in SUBSET Messages /\ net[e] \in SUBSET net[e]
    BY <2>4 DEF ResultType
  <2>7. Finished(e, r.s, r.out, net[e])
    BY <2>5, <2>6, FinishIs
  <2>8. PureAck(t) = PureAck(s)
    BY <2>3 DEF PureAck, Stays, SameNames, SameIn
  <2>9. ep'[e] = r.s /\ net'[Peer(e)] \subseteq net[Peer(e)] \cup {PureAck(s)}
    BY <2>4, <2>7, <2>8 DEF Finished
  <2>10. Stays(s, r.s) /\ r.s.app = a /\ r.s.una = s.una
    BY <2>3, <2>4 DEF Stays, SameNames, SamePlace, SameIn
  <2> QED
    BY <1>1, <1>2, <1>3, <2>7, <2>9, <2>10 DEF Fetched, a
<1> QED
  BY <1>1, <1>2, <1>3

(* csp_read keeps the invariant.                                            *)
LEMMA ReadAInv ==
  ASSUME AInv, NEW e \in Ends, Read(e)
  PROVE  AInv'
<1>1. Types /\ EndOK(e, ep[e], user[e]) /\ ep[e] \in ConnType
  BY DEF AInv, Types
<1>2. /\ UNCHANGED <<sent, rcvd>> /\ user[e] = "open"
      /\ user' \in [Ends -> UserStates] /\ user'[Peer(e)] = user[Peer(e)]
      /\ user'[e] \in {"open", "eof"}
      /\ \/ ~ep[e].conn /\ UNCHANGED <<ep, net>>
         \/ Fetched(e) /\ \E out : Finished(e, ep'[e], out, net[e])
  BY <1>1, ReadIs
<1>3. /\ sent' \in [Ends -> Nat] /\ \A d \in Ends : sent'[d] <= MaxSend[d]
      /\ \A d \in Ends : user'[d] = "blocked" => sent'[d] < MaxSend[d]
  <2>1. \A d \in Ends : d = e \/ d = Peer(e)
    BY PeerIs
  <2>2. sent' = sent /\ user'[e] # "blocked" /\ user'[Peer(e)] = user[Peer(e)]
    BY <1>2
  <2> QED
    BY <1>1, <2>1, <2>2 DEF Types
<1>4. PICK out : Finished(e, ep'[e], out, net[e])
  <2>1. CASE UNCHANGED <<ep, net>>
    <3>1. Finished(e, ep'[e], {}, net[e])
      BY <1>1, <2>1, PeerIs DEF Types, Finished
    <3> QED
      BY <3>1
  <2> QED
    BY <1>2, <2>1
<1>5. EndOK(e, ep'[e], user'[e])
  <2>1. CASE ~ep[e].conn /\ UNCHANGED <<ep, net>>
    BY <1>1, <1>2, <2>1 DEF EndOK, Owned, Settled
  <2>2. CASE Fetched(e)
    <3>1. Len(ep'[e].app) <= RxCap
      <4>1. ep[e].app \in Seq(Nat \cup {NULL}) /\ ep[e].app # <<>> /\ ep'[e].app = Tail(ep[e].app)
        BY <1>1, <2>2 DEF ConnType, Fetched
      <4>2. Len(Tail(ep[e].app)) = Len(ep[e].app) - 1 /\ Len(ep[e].app) \in Nat
        BY <4>1, HeadTailProperties, LenProperties
      <4>3. Len(ep[e].app) <= RxCap /\ RxCap \in Nat
        BY <1>1, CapAssumption DEF EndOK, Bounds
      <4> QED
        BY <4>1, <4>2, <4>3
    <3> QED
      BY <1>1, <1>2, <2>2, <3>1
         DEF EndOK, Bounds, Ahead, Shifted, Owned, Holding, Fetched, Stays, SameNames, SamePlace, SameIn, Settled
  <2> QED
    BY <1>2, <2>1, <2>2
<1> QED
  BY <1>2, <1>3, <1>4, <1>5, FinishAInv

(* csp_close by the user.                                                   *)
LEMMA UserCloseAInv ==
  ASSUME AInv, NEW e \in Ends, UserClose(e)
  PROVE  AInv'
<1>1. Types /\ EndOK(e, ep[e], user[e]) /\ ep[e] \in ConnType
  BY DEF AInv, Types
<1>2. PICK o \in Outcomes :
        /\ IF ep[e].conn THEN Finish(e, Close(ep[e], o), o, net[e]) ELSE UNCHANGED <<ep, net>>
        /\ user' = [user EXCEPT ![e] = IF e = "client" THEN "done" ELSE "none"]
        /\ UNCHANGED <<sent, rcvd>>
  BY DEF UserClose
<1>3. /\ user' \in [Ends -> UserStates] /\ user'[Peer(e)] = user[Peer(e)]
      /\ user'[e] \in {"none", "done"}
  BY <1>1, <1>2, PeerIs DEF Types, UserStates
<1>4. /\ sent' \in [Ends -> Nat] /\ \A d \in Ends : sent'[d] <= MaxSend[d]
      /\ \A d \in Ends : user'[d] = "blocked" => sent'[d] < MaxSend[d]
  BY <1>1, <1>2, <1>3, PeerIs DEF Types
<1>5. CASE ep[e].conn
  <2> DEFINE r == Close(ep[e], o)
  <2>1. r.s \in ConnType /\ r.out \in SUBSET Messages /\ EndOK(e, r.s, user'[e])
    BY <1>1, <1>5, CloseOK
  <2>2. Finish(e, r, o, net[e]) /\ net[e] \in SUBSET net[e]
    BY <1>2, <1>5
  <2> HIDE DEF r
  <2>3. Finished(e, r.s, r.out, net[e])
    BY <1>1, <2>1, <2>2, FinishIs
  <2> QED
    BY <1>2, <1>3, <1>4, <2>1, <2>3, FinishAInv
<1>6. CASE ~ep[e].conn
  <2>1. Finished(e, ep[e], {}, net[e])
    BY <1>1, <1>2, <1>6, PeerIs DEF Types, Finished
  <2>2. EndOK(e, ep[e], user'[e])
    BY <1>1, <1>2, <1>6 DEF EndOK, Owned, Settled, Types
  <2> QED
    BY <1>2, <1>3, <1>4, <2>1, <2>2, FinishAInv
<1> QED
  BY <1>5, <1>6

(* Packets disappear on the way to e.                                       *)
LEMMA FewerAInv ==
  ASSUME AInv, NEW e \in Ends, NEW left \in SUBSET net[e],
         net' = [net EXCEPT ![e] = left], UNCHANGED <<ep, user, sent, rcvd>>
  PROVE  AInv'
<1>1. Types'
  <2>1. left \in SUBSET Messages
    BY DEF AInv, Types
  <2> QED
    BY <2>1 DEF AInv, Types
<1> QED
  BY <1>1 DEF AInv, EndOK, Bounds, Owned, Ahead, Shifted

(* Every step of the program keeps the invariant: the steps of the router on *)
(* the connection (csp_rdp_new_packet, csp_rdp_check_timeouts), of the user tasks *)
(* (csp_rdp_send, csp_read, csp_accept, csp_close, csp_rdp_connect), and of the *)
(* network.                                                                 *)
THEOREM AInvStep == AInv /\ [Next]_vars => AInv'
<1> SUFFICES ASSUME AInv, [Next]_vars PROVE AInv'
  OBVIOUS
<1>1. ASSUME NEW e \in Ends, Router(e) PROVE AInv'
  BY <1>1, DeliverAInv, ExpireAInv, CheckTimeoutsAInv DEF Router
<1>2. ASSUME NEW e \in Ends, User(e) PROVE AInv'
  BY <1>2, SendAInv, SendWokenAInv, SendTimeoutAInv, ReadAInv, UserCloseAInv DEF User
<1>3. ASSUME NEW e \in Ends, Lose(e) PROVE AInv'
  <2>1. PICK m \in net[e] : net' = [net EXCEPT ![e] = net[e] \ {m}]
    BY <1>3 DEF Lose
  <2> QED
    BY <1>3, <2>1, FewerAInv DEF Lose
<1>4. CASE DeliverNowhere
  <2>1. PICK m \in net["client"] : net' = [net EXCEPT !["client"] = net["client"] \ {m}]
    BY <1>4 DEF DeliverNowhere
  <2> QED
    BY <1>4, <2>1, FewerAInv, ClientIs DEF DeliverNowhere
<1>5. CASE UNCHANGED vars
  BY <1>5 DEF AInv, Types, EndOK, Bounds, Owned, Ahead, Shifted, vars
<1> QED
  BY <1>1, <1>2, <1>3, <1>4, <1>5, DeliverNewAInv, ConnectAInv, ConnectedAInv,
     ConnectTimeoutAInv, AcceptAInv DEF Next

(* The invariant holds in every state of the program.                       *)
THEOREM Inductive == Spec => []AInv
  BY AInvInit, AInvStep, PTL DEF Spec

(* For every window, queue length, backlog, load, sequence of initial numbers *)
(* and behaviour of the link, the structures, queues and packets of         *)
(* csp_rdp_new_packet and its callers have the type TLC checks, and the user's *)
(* queue, the backlog and the counters stay within their bounds.            *)
THEOREM TypeCorrect == Spec => []TypeOK
  BY Inductive, AInvType, PTL

(* No live connection is without somebody who will close it, whatever the order *)
(* in which the router's timers, csp_accept and csp_close meet.             *)
THEOREM NeverOrphaned == Spec => []NoOrphan
<1>1. AInv => NoOrphan
  BY DEF AInv, EndOK, Owned, NoOrphan
<1> QED
  BY <1>1, Inductive, PTL

(* Every segment in the rx_queue of an open connection is in the window and *)
(* still needed: csp_rdp_rx_queue_flush and rcv_cur move together, also when *)
(* numbers wrap around.                                                     *)
THEOREM AlwaysAhead == Spec => []BufferedAhead
<1>1. AInv => BufferedAhead
  BY DEF AInv, EndOK, Ahead, Shifted, BufferedAhead
<1> QED
  BY <1>1, Inductive, PTL
=============================================================================
