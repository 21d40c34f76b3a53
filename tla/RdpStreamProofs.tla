--------------------------- MODULE RdpStreamProofs ---------------------------
(***************************************************************************)
(* Over one connection the reliable datagram protocol implements the reliable*)
(* stream, for every window, link and interleaving.  The invariant (SInv) ties*)
(* each sequence number to the message it stands for: in the tx_queue of the*)
(* sender, in packets on their way, in the rx_queue and in rcv_cur.         *)
(*                                                                         *)
(* Acknowledgement and flow control, from "The receiver g has" on: a sender  *)
(* forgets only what was received, does not believe in more than that, and   *)
(* stays within its window.  The invariant (FInv) ties what acknowledgements *)
(* on their way, snd_una and the tx_queue say of the receiver to what the    *)
(* receiver has.                                                            *)
(***************************************************************************)
EXTENDS RdpProofs

(* The number message k of e carries; message 0 is the SYN.                 *)
N(e, k) == Wrap16(Iss[e][1] + k)
(* The states in which messages are taken, and those of a connection that both *)
(* sides may still believe in.                                              *)
Live == {"SYN_RCVD", "OPEN"}
Going == Live \cup {"SYN_SENT"}
(* One connection between the two ends, and not so many messages that numbers *)
(* are used twice within it.                                                *)
Single == \A e \in Ends : Len(Iss[e]) = 1 /\ 2 * MaxSend[e] + 4 * Window + 4 <= SeqSpace
(* The user's queue can take whatever may be in flight: as long as all the  *)
(* messages of the peer, or with two windows free.                          *)
Room(e, s) == MaxSend[Peer(e)] <= RxCap \/ Len(s.app) + 2 * Window <= RxCap
(* What csp_rdp.c trusts its user with and does not enforce: without it     *)
(* CurIsReceived fails, as a run shows.                                     *)
ReaderKeepsUp == \A e \in Ends : Room(e, ep[e])
(* What a sender that sent n messages keeps: the numbers it gave, and in    *)
(* tx_queue only segments that carry their own message.                     *)
Sender(e, s, n) ==
  /\ s.tries = 0 => ~s.conn /\ s.rdp \notin Going /\ n = 0
  /\ s.rdp \in Going => s.iss = N(e, 0) /\ s.nxt = N(e, n + 1)
  /\ s.rdp = "SYN_SENT" => e = "client" /\ n = 0
  /\ s.rdp = "SYN_RCVD" => e = "server" /\ n = 0
  /\ \A p \in s.tx : IF p.syn THEN p.seq = N(e, 0) /\ p.data = NULL
                     ELSE p.data \in 1 .. n /\ p.seq = N(e, p.data)

(* A receiver of the first messages of the stream r: rcv_cur is the number of *)
(* the last one, and each early segment carries its own message.            *)
InStep(e, s, r, n) ==
  LET f == Peer(e) IN
  /\ s.irs = N(f, 0) /\ s.cur = N(f, Len(r))
  /\ \A p \in s.rx : p.data \in 1 .. n /\ p.seq = N(f, p.data)

(* What the end e keeps of the n messages of its peer.                      *)
Receiver(e, s, r, n) ==
  /\ r = Stream!FirstN(Len(r)) /\ Len(r) <= n
  /\ s.tries = 0 \/ s.rdp = "SYN_SENT" => r = <<>>
  /\ s.rdp = "SYN_RCVD" => r = <<>> /\ s.sock
  /\ s.rdp \in Going => Len(s.app) <= Len(r)
  /\ s.rdp \in Live => InStep(e, s, r, n)

(* A packet from f, that sent n messages, carries what its number says.     *)
Carried(f, m, n) ==
  /\ m.data # NULL => m.data \in 1 .. n /\ m.seq = N(f, m.data) /\ "SYN" \notin m.flags
  /\ "SYN" \in m.flags => m.seq = N(f, 0)
  /\ "RST" \notin m.flags /\ "ACK" \notin m.flags => f = "client" /\ "SYN" \in m.flags

(* The invariant of the stream.                                             *)
SInv == \A e \in Ends : /\ Sender(e, ep[e], sent[e])
                        /\ Receiver(e, ep[e], rcvd[e], sent[Peer(e)])
                        /\ \A m \in net[Peer(e)] : Carried(e, m, sent[e])

(* Facts about numbers near the stream, for the provers of arithmetic.      *)
SpanFacts(i, b) == /\ i \in Int /\ 0 <= i /\ i < SeqSpace /\ SeqSpace \in Nat
                   /\ b \in Nat /\ Window \in Nat \ {0} /\ 2 * b + 4 * Window + 4 <= SeqSpace

(* Positions near the stream: a window before it, and a window after it.    *)
InSpan(e, a) == a \in Int /\ 0 - (2 * Window + 1) <= a /\ a <= MaxSend[e] + 2 * Window + 1

(* They hold of every end.                                                  *)
LEMMA SpanIs ==
  ASSUME Single, NEW e \in Ends
  PROVE  Iss[e][1] \in SeqNr /\ SpanFacts(Iss[e][1], MaxSend[e]) /\ RxCap \in Nat
<1>1. Iss[e] \in Seq(SeqNr) /\ Len(Iss[e]) = 1 /\ MaxSend[e] \in Nat
  BY LoadAssumption DEF Single
<1> DEFINE i == Iss[e][1]  b == MaxSend[e]
<1>2. i \in SeqNr
  BY <1>1, ElementOfSeq
<1>3. 2 * b + 4 * Window + 4 <= SeqSpace /\ b \in Nat
  BY <1>1 DEF Single
<1> HIDE DEF i, b
<1>4. SpanFacts(i, b) /\ RxCap \in Nat
  BY <1>2, <1>3, WindowAssumption, CapAssumption, SeqSpaceAssumption DEF SpanFacts, SeqNr
<1> QED
  BY <1>2, <1>3, <1>4 DEF i, b

(* Two positions in the span have different numbers.                        *)
LEMMA NumberEq ==
  ASSUME Single, NEW e \in Ends, NEW a, NEW b, InSpan(e, a), InSpan(e, b), N(e, a) = N(e, b)
  PROVE  a = b
<1> DEFINE i == Iss[e][1]  x == MaxSend[e]
<1>1. i \in SeqNr /\ SpanFacts(i, x)
  BY SpanIs
<1>2. a \in Int /\ b \in Int /\ Wrap16(i + a) = Wrap16(i + b)
  BY DEF InSpan, N
<1>3. /\ 0 - (2 * Window + 1) <= a /\ a <= x + 2 * Window + 1
      /\ 0 - (2 * Window + 1) <= b /\ b <= x + 2 * Window + 1
  BY DEF InSpan
<1> HIDE DEF i, x
<1>4. /\ 0 - SeqSpace <= i + a /\ i + a < 2 * SeqSpace
      /\ 0 - SeqSpace <= i + b /\ i + b < 2 * SeqSpace
      /\ a - b < SeqSpace /\ b - a < SeqSpace
  BY <1>1, <1>2, <1>3 DEF SpanFacts
<1> QED
  BY <1>1, <1>2, <1>4, WrapInjective

(* Wrapping commutes with moving in the span.                               *)
LEMMA NumberPlus ==
  ASSUME Single, NEW e \in Ends, NEW a, InSpan(e, a),
         NEW d \in Int, 0 - (2 * Window + 1) <= d, d <= 2 * Window + 1
  PROVE  Wrap16(N(e, a) + d) = N(e, a + d)
<1> DEFINE i == Iss[e][1]  x == MaxSend[e]
<1>1. i \in SeqNr /\ SpanFacts(i, x)
  BY SpanIs
<1>2. a \in Int /\ 0 - (2 * Window + 1) <= a /\ a <= x + 2 * Window + 1
  BY DEF InSpan
<1> HIDE DEF i, x
<1>3. /\ 0 - SeqSpace <= i + a /\ i + a < 2 * SeqSpace
      /\ 0 - SeqSpace <= i + a + d /\ i + a + d < 2 * SeqSpace
      /\ d <= SeqSpace /\ 0 - SeqSpace <= d
      /\ i + a + d = i + (a + d)
  BY <1>1, <1>2 DEF SpanFacts
<1>4. Wrap16(Wrap16(i + a) + d) = Wrap16(i + (a + d))
  BY <1>1, <1>2, <1>3, WrapPlus
<1> QED
  BY <1>4 DEF N, i

(* Numbers of messages, and the numbers next to them, are within the span.  *)
LEMMA MessageSpan ==
  ASSUME Single, NEW e \in Ends, NEW k \in Int, 0 <= k, k <= MaxSend[e] + 1
  PROVE  InSpan(e, k)
<1>1. SpanFacts(Iss[e][1], MaxSend[e])
  BY SpanIs
<1> QED
  BY <1>1 DEF SpanFacts, InSpan

(* The number after that of message k is that of message k + 1.             *)
LEMMA NumberNext ==
  ASSUME Single, NEW e \in Ends, NEW k \in Int, 0 <= k, k <= MaxSend[e] + 1
  PROVE  Wrap16(N(e, k) + 1) = N(e, k + 1)
<1>1. SpanFacts(Iss[e][1], MaxSend[e])
  BY SpanIs
<1>2. 0 - (2 * Window + 1) <= 1 /\ 1 <= 2 * Window + 1
  BY <1>1 DEF SpanFacts
<1> QED
  BY <1>2, MessageSpan, NumberPlus

(* Packets without a message carry what they say.                           *)
LEMMA ControlCarried ==
  ASSUME NEW e \in Ends, NEW flags, NEW seq, NEW ack, NEW eacks, NEW n,
         "SYN" \notin flags, "RST" \in flags \/ "ACK" \in flags
  PROVE  Carried(e, Packet(flags, seq, ack, NULL, eacks), n)
  BY DEF Carried, Packet

(* So do the answers of the handlers.                                       *)
LEMMA RepliesCarried ==
  ASSUME NEW e \in Ends, NEW s, NEW n
  PROVE  /\ Carried(e, Reset(s), n) /\ Carried(e, Rst(s), n)
         /\ Carried(e, PureAck(s), n) /\ Carried(e, Eack(s), n)
         /\ s.iss = N(e, 0) => Carried(e, SynAck(s), n)
  BY DEF Carried, Packet, Reset, Rst, PureAck, Eack, SynAck

(* What an end keeps of the stream when it accepts no message.              *)
Kept(s, t) == /\ SameNames(s, t) /\ t.cur = s.cur
              /\ \/ t.rdp = s.rdp /\ t.sock = s.sock
                 \/ s.rdp \in Live /\ t.rdp = "OPEN"
              /\ t.tx \subseteq s.tx /\ t.rx \subseteq s.rx /\ Len(t.app) <= Len(s.app)

(* An end that accepts nothing keeps its part.                              *)
LEMMA KeptStream ==
  ASSUME NEW e \in Ends, NEW s \in ConnType, NEW t \in ConnType, NEW n, NEW r \in Seq(Nat), NEW nf, Kept(s, t),
         Sender(e, s, n), Receiver(e, s, r, nf)
  PROVE  Sender(e, t, n) /\ Receiver(e, t, r, nf)
<1>1. Sender(e, t, n)
  BY DEF Sender, Kept, SameNames, Going, Live
<1>2. ASSUME t.rdp \in Live PROVE InStep(e, t, r, nf)
  <2>1. InStep(e, s, r, nf)
    BY <1>2 DEF Receiver, Kept
  <2> QED
    BY <2>1 DEF InStep, Kept, SameNames
<1>3. ASSUME t.rdp \in Going PROVE Len(t.app) <= Len(r)
  <2>1. Len(t.app) \in Nat /\ Len(s.app) \in Nat /\ Len(r) \in Nat
    BY LenProperties DEF ConnType
  <2>2. Len(s.app) <= Len(r) /\ Len(t.app) <= Len(s.app)
    BY <1>3 DEF Receiver, Kept, Going
  <2> QED
    BY <2>1, <2>2
<1>4. Receiver(e, t, r, nf)
  BY <1>2, <1>3 DEF Receiver, Kept, SameNames, Sender
<1> QED
  BY <1>1, <1>4

(* An end that closes keeps its part.                                       *)
LEMMA OverStream ==
  ASSUME NEW e \in Ends, NEW s, NEW t, NEW n, NEW r, NEW nf,
         Shut(s, t) \/ Half(s, t),
         Sender(e, s, n), Receiver(e, s, r, nf)
  PROVE  Sender(e, t, n) /\ Receiver(e, t, r, nf)
<1>1. t.rdp \in {"CLOSED", "CLOSE_WAIT"} /\ t.tries = s.tries /\ t.tx \subseteq s.tx
  BY DEF Shut, Half, SameNames
<1>2. t.conn => s.conn
  BY DEF Shut, Half, SameNames
<1>3. Sender(e, t, n)
  BY <1>1, <1>2 DEF Sender, Going, Live
<1>4. Receiver(e, t, r, nf)
  BY <1>1 DEF Receiver, Going, Live
<1> QED
  BY <1>3, <1>4

(* A connection that hears m and what both ends of it have done so far.     *)
Hearing(e, s, m, n, rc, nf) ==
  /\ s \in ConnType /\ m \in Messages /\ n \in Nat /\ rc \in Seq(Nat) /\ nf \in Nat
  /\ nf <= MaxSend[Peer(e)]
  /\ Sender(e, s, n) /\ Receiver(e, s, rc, nf) /\ Carried(Peer(e), m, nf) /\ Ahead(s)
  /\ Room(e, s)

(* The result of hearing m: the stream continues, by nothing or by messages. *)
Continued(e, r, n, rc, nf) ==
  /\ Sender(e, r.s, n) /\ Receiver(e, r.s, rc \o r.data, nf)
  /\ \A x \in r.out : Carried(e, x, n)
  /\ \/ r.data = <<>>
     \/ \E q \in Len(rc) + 1 .. nf : rc \o r.data = Stream!FirstN(q)

(* Nothing is added to the history.                                         *)
LEMMA AppNothing == ASSUME NEW rc \in Seq(Nat) PROVE rc \o <<>> = rc
  BY ConcatEmptySeq

(* A packet that is refused.                                                *)
LEMMA NoticedStream ==
  ASSUME NEW e \in Ends, NEW m, NEW n, NEW rc, NEW nf, NEW s, NEW r \in ResultType,
         Hearing(e, s, m, n, rc, nf), Noticed(s, m, r), "RST" \notin m.flags
  PROVE  Continued(e, r, n, rc, nf)
<1>1. r.s.app = s.app
  BY DEF Noticed, Hearing, Carried, Sender, Receiver, InStep, Live, Peer
<1>2. Kept(s, r.s)
  <2>1. Len(r.s.app) <= Len(s.app)
    BY <1>1, LenProperties DEF Hearing, ConnType
  <2> QED
    BY <2>1 DEF Noticed, Stays, SameIn, SamePlace, Kept
<1>3. Sender(e, r.s, n) /\ Receiver(e, r.s, rc, nf)
  BY <1>2, KeptStream DEF Hearing, ResultType
<1>4. s.iss = N(e, 0)
  BY DEF Noticed, Hearing, Sender, Going, Live
<1>5. \A x \in r.out : Carried(e, x, n)
  BY <1>4, RepliesCarried DEF Noticed
<1> QED
  BY <1>3, <1>5, AppNothing DEF Continued, Noticed, Hearing

(* A RESET out of order.                                                    *)
LEMMA ResetHeardStream ==
  ASSUME NEW e \in Ends, NEW m, NEW n, NEW rc, NEW nf, NEW s, NEW r \in ResultType,
         Hearing(e, s, m, n, rc, nf), ResetHeard(s, m, r)
  PROVE  Continued(e, r, n, rc, nf)
<1>2. Kept(s, r.s)
  <2>1. Len(r.s.app) <= Len(s.app)
    BY LenProperties DEF Hearing, ConnType, ResetHeard
  <2> QED
    BY <2>1 DEF ResetHeard, Stays, SameIn, SamePlace, Kept
<1>3. Sender(e, r.s, n) /\ Receiver(e, r.s, rc, nf)
  BY <1>2, KeptStream DEF Hearing, ResultType
<1> QED
  BY <1>3, AppNothing DEF Continued, ResetHeard, Hearing

(* A packet that closes the connection.                                     *)
LEMMA OverHeardStream ==
  ASSUME NEW e \in Ends, NEW m, NEW n, NEW rc, NEW nf, NEW s, NEW r \in ResultType,
         Hearing(e, s, m, n, rc, nf), Closing(s, m, r) \/ Ending(s, m, r)
  PROVE  Continued(e, r, n, rc, nf)
<1>1. Sender(e, r.s, n) /\ Receiver(e, r.s, rc, nf)
  BY OverStream DEF Closing, Ending, Hearing
<1>2. \A x \in r.out : Carried(e, x, n)
  BY RepliesCarried DEF Closing, Ending
<1>3. r.data = <<>>
  BY DEF Closing, Ending
<1> QED
  BY <1>1, <1>2, <1>3, AppNothing DEF Continued, Hearing

(* The client learns the numbers of the server.                             *)
LEMMA JoinedStream ==
  ASSUME NEW e \in Ends, NEW m, NEW n, NEW rc, NEW nf, NEW s, NEW r \in ResultType,
         Hearing(e, s, m, n, rc, nf), Joined(s, m, r)
  PROVE  Continued(e, r, n, rc, nf)
<1> DEFINE t == r.s
<1>1. e = "client" /\ n = 0 /\ rc = <<>> /\ s.rx = {} /\ Len(rc) = 0 /\ Len(s.app) <= Len(rc)
  BY EmptySeq DEF Hearing, Joined, Sender, Receiver, Going, Ahead
<1>2. m.seq = N(Peer(e), 0)
  BY DEF Hearing, Joined, Carried
<1>3. InStep(e, t, rc, nf)
  BY <1>1, <1>2 DEF Joined, InStep
<1>4. Sender(e, t, n)
  BY <1>1 DEF Joined, Hearing, Sender, Going, Live
<1>5. Receiver(e, t, rc, nf)
  BY <1>1, <1>3 DEF Joined, Hearing, Sender, Receiver, Going, Live
<1> QED
  BY <1>4, <1>5, AppNothing DEF Continued, Joined, Hearing

(* A packet that only acknowledges.                                         *)
LEMMA OpenedStream ==
  ASSUME NEW e \in Ends, NEW m, NEW n, NEW rc, NEW nf, NEW s, NEW r \in ResultType,
         Hearing(e, s, m, n, rc, nf), Pruned(s, m, r) \/ Full(s, m, r)
  PROVE  Continued(e, r, n, rc, nf)
<1>1. /\ Answered(s, m) /\ Opened(s, m, r.s) /\ SameIn(s, r.s) /\ r.s.app = s.app
      /\ r.s.tx \subseteq s.tx /\ r.out = {} /\ r.data = <<>>
  BY DEF Pruned, Full
<1>2. Kept(s, r.s)
  <2>1. Len(r.s.app) <= Len(s.app)
    BY <1>1, LenProperties DEF Hearing, ConnType
  <2> QED
    BY <1>1, <2>1 DEF Answered, Opened, SameIn, Kept, Live
<1>3. Sender(e, r.s, n) /\ Receiver(e, r.s, rc, nf)
  BY <1>2, KeptStream DEF Hearing, ResultType
<1> QED
  BY <1>1, <1>3, AppNothing DEF Continued, Hearing

(* A message that came early.                                               *)
LEMMA StoredStream ==
  ASSUME NEW e \in Ends, NEW m, NEW n, NEW rc, NEW nf, NEW s, NEW r \in ResultType,
         Hearing(e, s, m, n, rc, nf), Stored(s, m, r)
  PROVE  Continued(e, r, n, rc, nf)
<1> DEFINE t == r.s
<1>1. /\ s.rdp \in Live /\ t.rdp = "OPEN" /\ SameNames(s, t) /\ t.cur = s.cur /\ t.app = s.app
      /\ t.tx = s.tx /\ t.rx = s.rx \cup {[seq |-> m.seq, data |-> m.data]}
      /\ r.out = {Eack(t)} /\ r.data = <<>>
  BY DEF Stored, Answered, Opened, Live
<1>2. m.data \in 1 .. nf /\ m.seq = N(Peer(e), m.data)
  BY DEF Stored, Message, Hearing, Carried
<1>3. Sender(e, t, n)
  BY <1>1 DEF Hearing, Sender, SameNames, Going, Live
<1>4. InStep(e, t, rc, nf)
  BY <1>1, <1>2 DEF Hearing, Receiver, InStep, SameNames
<1>5. Receiver(e, t, rc, nf)
  BY <1>1, <1>4 DEF Hearing, Sender, Receiver, SameNames, Going, Live
<1>6. \A x \in r.out : Carried(e, x, n)
  BY <1>1, RepliesCarried
<1> QED
  BY <1>1, <1>3, <1>5, <1>6, AppNothing DEF Continued, Hearing

(* The run of buffered segments that follows message p.                     *)
LEMMA RunNumbers ==
  ASSUME Single, NEW f \in Ends, NEW s, NEW p \in Nat, NEW nf \in Nat, p + 1 <= nf, nf <= MaxSend[f],
         NEW q \in 0 .. 2 * Window - 1, NEW run, RunOf(s, N(f, p + 1), q, run),
         \A x \in s.rx : x.data \in 1 .. nf /\ x.seq = N(f, x.data)
  PROVE  /\ \A k \in 1 .. q : run[k] = p + 1 + k /\ run[k] <= nf
         /\ p + 1 + q <= nf
<1>1. SpanFacts(Iss[f][1], MaxSend[f])
  BY SpanIs
<1>2. ASSUME NEW k \in 1 .. q PROVE run[k] = p + 1 + k /\ run[k] <= nf
  <2>1. PICK x \in s.rx : x.seq = Wrap16(N(f, p + 1) + k) /\ run[k] = x.data
    BY DEF RunOf
  <2>2. x.data \in 1 .. nf /\ x.seq = N(f, x.data)
    BY <2>1
  <2> DEFINE d == x.data
  <2>3. d \in Int /\ 1 <= d /\ d <= nf
    BY <2>2
  <2> HIDE DEF d
  <2>4. /\ k \in Int /\ 1 <= k /\ k <= 2 * Window - 1
    BY <1>1 DEF SpanFacts
  <2>5. /\ 0 <= p + 1 /\ p + 1 <= MaxSend[f] + 1 /\ p + 1 \in Int
        /\ 0 - (2 * Window + 1) <= k /\ k <= 2 * Window + 1
    BY <1>1, <2>4 DEF SpanFacts
  <2>6. Wrap16(N(f, p + 1) + k) = N(f, p + 1 + k)
    BY <2>4, <2>5, MessageSpan, NumberPlus
  <2>7. InSpan(f, d) /\ InSpan(f, p + 1 + k)
    BY <1>1, <2>3, <2>4 DEF SpanFacts, InSpan
  <2>8. N(f, d) = N(f, p + 1 + k)
    BY <2>1, <2>2, <2>6 DEF d
  <2>9. d = p + 1 + k
    BY <2>7, <2>8, NumberEq
  <2> QED
    BY <2>1, <2>3, <2>9 DEF d
<1>3. p + 1 + q <= nf
  <2>1. q \in Int /\ 0 <= q
    BY <1>1 DEF SpanFacts
  <2>2. CASE q = 0
    BY <2>2
  <2>3. CASE q # 0
    <3>1. q \in 1 .. q
      BY <2>1, <2>3
    <3> QED
      BY <1>2, <3>1
  <2> QED
    BY <2>2, <2>3
<1> QED
  BY <1>2, <1>3

(* The first messages, the next one and a run after it are the first messages. *)
LEMMA FirstNGrows ==
  ASSUME NEW rc \in Seq(Nat), NEW run \in Seq(Nat), \A i \in 1 .. Len(rc) : rc[i] = i,
         \A k \in 1 .. Len(run) : run[k] = Len(rc) + 1 + k
  PROVE  /\ rc \o (<<Len(rc) + 1>> \o run) = Stream!FirstN(Len(rc) + 1 + Len(run))
         /\ Len(rc \o (<<Len(rc) + 1>> \o run)) = Len(rc) + 1 + Len(run)
<1> DEFINE p == Len(rc)
           q == Len(run)
<1>a. p \in Nat /\ q \in Nat
  BY LenProperties
<1>b. Len(rc) = p /\ Len(run) = q /\ (\A i \in 1 .. p : rc[i] = i)
      /\ \A k \in 1 .. q : run[k] = p + 1 + k
  OBVIOUS
<1> HIDE DEF p, q
<1> DEFINE one == <<p + 1>>
           tail == one \o run
           z == rc \o tail
<1>1. one \in Seq(Nat) /\ Len(one) = 1 /\ one[1] = p + 1
  BY <1>a
<1> HIDE DEF one
<1>2. /\ tail \in Seq(Nat) /\ Len(tail) = 1 + q
      /\ \A i \in 1 .. 1 + q : tail[i] = IF i <= 1 THEN one[i] ELSE run[i - 1]
  <2>1. /\ tail \in Seq(Nat) /\ Len(tail) = Len(one) + Len(run)
        /\ \A i \in 1 .. Len(one) + Len(run) :
             tail[i] = IF i <= Len(one) THEN one[i] ELSE run[i - Len(one)]
    BY <1>1, ConcatProperties
  <2> HIDE DEF tail
  <2> QED
    BY <1>a, <1>b, <1>1, <2>1
<1> HIDE DEF tail
<1>3. /\ z \in Seq(Nat) /\ Len(z) = p + (1 + q)
      /\ \A i \in 1 .. p + (1 + q) : z[i] = IF i <= p THEN rc[i] ELSE tail[i - p]
  <2>1. /\ z \in Seq(Nat) /\ Len(z) = Len(rc) + Len(tail)
        /\ \A i \in 1 .. Len(rc) + Len(tail) :
             z[i] = IF i <= Len(rc) THEN rc[i] ELSE tail[i - Len(rc)]
    BY <1>2, ConcatProperties
  <2> HIDE DEF z
  <2> QED
    BY <1>a, <1>b, <1>2, <2>1
<1> HIDE DEF z
<1>4. \A i \in 1 .. p + 1 + q : z[i] = i
  <2> SUFFICES ASSUME NEW i \in 1 .. p + 1 + q PROVE z[i] = i
    OBVIOUS
  <2>1. CASE i <= p
    <3>1. i \in 1 .. p
      BY <1>a, <2>1
    <3>2. rc[i] = i
      BY <1>b, <3>1
    <3> QED
      BY <1>a, <1>3, <2>1, <3>2
  <2>2. CASE i = p + 1
    <3>1. i - p = 1 /\ ~(i <= p)
      BY <1>a, <2>2
    <3> QED
      BY <1>a, <1>1, <1>2, <1>3, <2>2, <3>1
  <2>3. CASE i > p + 1
    <3>1. i - p \in 1 .. 1 + q /\ ~(i <= p) /\ ~(i - p <= 1) /\ (i - p) - 1 \in 1 .. q
          /\ p + 1 + ((i - p) - 1) = i
      BY <1>a, <2>3
    <3> QED
      BY <1>b, <1>2, <1>3, <3>1, SMTT(30)
  <2> QED
    BY <1>a, <2>1, <2>2, <2>3
<1>5. z = [i \in 1 .. p + 1 + q |-> z[i]]
  <2>1. p + 1 + q = p + (1 + q)
    BY <1>a
  <2> QED
    BY <1>3, <2>1
<1>6. z = Stream!FirstN(p + 1 + q)
  BY <1>4, <1>5 DEF Stream!FirstN
<1> QED
  BY <1>3, <1>6 DEF z, tail, one, p, q

(* A message in order is the next of the stream, and the run of early segments *)
(* that follows it are the next ones: rcv_cur counts them all.              *)
LEMMA ReceivedStream ==
  ASSUME Single, NEW e \in Ends, NEW m, NEW n, NEW rc, NEW nf, NEW s, NEW r \in ResultType,
         Hearing(e, s, m, n, rc, nf), Received(s, m, r)
  PROVE  Continued(e, r, n, rc, nf)
<1> DEFINE t == r.s
           f == Peer(e)
           p == Len(rc)
<1>0. /\ f \in Ends /\ s \in ConnType /\ m \in Messages /\ rc \in Seq(Nat) /\ nf \in Nat
      /\ nf <= MaxSend[f] /\ n \in Nat
  BY PeerIs DEF Hearing
<1>1. /\ s.rdp \in Live /\ s.rdp \in Going /\ t.rdp = "OPEN" /\ SameNames(s, t) /\ t.tx = s.tx
      /\ Len(s.app) < RxCap /\ m.data # NULL /\ m.seq = Wrap16(s.cur + 1)
      /\ r.out \subseteq {Packet({"ACK"}, s.nxt, m.seq, NULL, {})}
  BY DEF Received, Answered, Opened, Message, Live, Going
<1>2. PICK q \in 0 .. 2 * Window - 1, run \in Seq(Nat) : Delivered(s, m, r, q, run)
  BY DEF Received
<1>3. InStep(e, s, rc, nf) /\ Len(s.app) <= p /\ rc = Stream!FirstN(p) /\ p <= nf /\ p \in Nat
  BY <1>0, <1>1, LenProperties DEF Hearing, Receiver
<1>4. m.data \in 1 .. nf /\ m.seq = N(f, m.data)
  BY <1>1 DEF Hearing, Carried
<1>5. SpanFacts(Iss[f][1], MaxSend[f]) /\ RxCap \in Nat
  BY <1>0, SpanIs
<1>q. q \in Nat
  BY <1>5 DEF SpanFacts
<1> HIDE DEF f, p
<1>6. m.seq = N(f, p + 1)
  <2>1. p \in Int /\ 0 <= p /\ p <= MaxSend[f] + 1
    BY <1>0, <1>3, <1>5 DEF SpanFacts
  <2> QED
    BY <1>0, <1>1, <1>3, <2>1, NumberNext DEF InStep, f, p
<1>7. m.data = p + 1 /\ p + 1 <= nf
  <2> DEFINE d == m.data
  <2>0. d \in 1 .. nf /\ N(f, d) = N(f, p + 1)
    BY <1>4, <1>6
  <2> HIDE DEF d
  <2>1. /\ d \in Int /\ 0 <= d /\ d <= MaxSend[f] + 1
        /\ p + 1 \in Int /\ 0 <= p + 1 /\ p + 1 <= MaxSend[f] + 1
    <3> DEFINE b == MaxSend[f]
    <3>1. b \in Nat /\ nf <= b /\ nf \in Nat /\ p \in Nat /\ d \in 1 .. nf
      BY <1>0, <1>3, <1>5, <2>0 DEF SpanFacts
    <3>2. p <= nf
      BY <1>3
    <3> HIDE DEF b
    <3>3. d \in Int /\ 0 <= d /\ d <= b + 1 /\ p + 1 \in Int /\ 0 <= p + 1 /\ p + 1 <= b + 1
      BY <3>1, <3>2
    <3> QED
      BY <3>3 DEF b
  <2>2. InSpan(f, d) /\ InSpan(f, p + 1)
    BY <1>0, <2>1, MessageSpan
  <2>3. d = p + 1
    BY <1>0, <2>0, <2>2, NumberEq
  <2> QED
    BY <2>0, <2>3 DEF d
<1>8. /\ RunOf(s, N(f, p + 1), q, run) /\ t.cur = Wrap16(m.seq + q) /\ t.rx \subseteq s.rx
  BY <1>2, <1>6 DEF Delivered
<1>9. \A x \in s.rx : x.data \in 1 .. nf /\ x.seq = N(f, x.data)
  BY <1>3 DEF InStep, f
<1>10. (\A k \in 1 .. q : run[k] = p + 1 + k) /\ p + 1 + q <= nf
  BY <1>0, <1>3, <1>7, <1>8, <1>9, RunNumbers
<1>11. Len(run) = q
  BY <1>8 DEF RunOf
<1> DEFINE l == Len(s.app)
           fit == SubSeq(run, 1, Min({q, RxCap - (l + 1)}))
<1>12. l \in Nat /\ l <= p
  BY <1>0, <1>3, LenProperties DEF ConnType, p
<1>13. t.app = Append(s.app, m.data) \o fit /\ r.data = <<m.data>> \o fit
  BY <1>2 DEF Delivered
<1>14. fit = run
  <2> HIDE DEF l
  <2> DEFINE room == RxCap - (l + 1)
  <2>0. MaxSend[f] <= RxCap \/ l + 2 * Window <= RxCap
    BY DEF Hearing, Room, f, l
  <2>1. room \in Int /\ q <= room
    <3>1. q \in Int /\ q <= 2 * Window - 1 /\ Window \in Nat /\ RxCap \in Nat
      BY <1>q, <1>5 DEF SpanFacts
    <3>2. CASE l + 2 * Window <= RxCap
      BY <1>12, <3>1, <3>2
    <3>3. CASE MaxSend[f] <= RxCap
      <4> DEFINE x == MaxSend[f]
      <4>1. x \in Nat /\ p + 1 + q <= nf /\ nf <= x /\ x <= RxCap /\ nf \in Nat
        BY <1>0, <1>5, <1>10, <3>3 DEF SpanFacts
      <4> HIDE DEF x
      <4> QED
        BY <1>3, <1>12, <3>1, <4>1
    <3> QED
      BY <2>0, <3>2, <3>3
  <2> HIDE DEF room
  <2>2. Min({q, room}) = q
    BY <1>q, <2>1, MinIs
  <2>3. SubSeq(run, 1, q) = run
    BY <1>11
  <2> QED
    BY <2>2, <2>3 DEF room
<1> HIDE DEF fit
<1>15. /\ rc \o r.data = Stream!FirstN(p + 1 + q) /\ Len(rc \o r.data) = p + 1 + q
  <2>1. r.data = <<p + 1>> \o run
    BY <1>7, <1>13, <1>14
  <2> QED
    <3>1. Len(rc) = p /\ rc = Stream!FirstN(p) /\ p \in Nat /\ rc \in Seq(Nat)
      BY <1>0, <1>3 DEF p
    <3>2. \A k \in 1 .. q : run[k] = p + 1 + k
      BY <1>10
    <3>3. /\ rc \o (<<p + 1>> \o run) = Stream!FirstN(p + 1 + q)
          /\ Len(rc \o (<<p + 1>> \o run)) = p + 1 + q
      <4>1. \A i \in 1 .. p : rc[i] = i
        BY <3>1 DEF Stream!FirstN
      <4>2. Len(rc) = p /\ p \in Nat /\ rc \in Seq(Nat) /\ run \in Seq(Nat)
        BY <3>1
      <4> QED
        BY <1>11, <3>2, <4>1, <4>2, FirstNGrows
    <3> QED
      BY <2>1, <3>3
<1>16. Len(t.app) <= p + 1 + q
  <2>1. m.data \in Nat /\ s.app \in Seq(Nat \cup {NULL})
    BY <1>0, <1>4 DEF ConnType
  <2>2. Append(s.app, m.data) \in Seq(Nat \cup {NULL}) /\ Len(Append(s.app, m.data)) = l + 1
    BY <2>1
  <2>3. run \in Seq(Nat \cup {NULL})
    BY SeqMonotonic
  <2>4. Len(t.app) = (l + 1) + q
    <3> DEFINE a == Append(s.app, m.data)
    <3>1. a \in Seq(Nat \cup {NULL}) /\ Len(a) = l + 1 /\ t.app = a \o run
      BY <1>13, <1>14, <2>2
    <3> HIDE DEF a, t, l
    <3>2. Len(a \o run) = Len(a) + Len(run)
      BY <3>1, <2>3, ConcatProperties
    <3> QED
      BY <1>11, <3>1, <3>2
  <2> HIDE DEF l, t
  <2> QED
    BY <1>q, <1>12, <1>3, <2>4
<1>17. t.cur = N(f, p + 1 + q)
  <2>1. /\ q \in Int /\ 0 - (2 * Window + 1) <= q /\ q <= 2 * Window + 1
        /\ p + 1 \in Int /\ 0 <= p + 1 /\ p + 1 <= MaxSend[f] + 1
    <3> DEFINE b == MaxSend[f]
    <3>1. /\ b \in Nat /\ nf <= b /\ nf \in Nat /\ p \in Nat /\ p + 1 <= nf
          /\ Window \in Nat /\ q \in 0 .. 2 * Window - 1 /\ q \in Nat
      BY <1>0, <1>3, <1>5, <1>7, <1>q DEF SpanFacts
    <3> HIDE DEF b
    <3>2. /\ q \in Int /\ 0 - (2 * Window + 1) <= q /\ q <= 2 * Window + 1
          /\ p + 1 \in Int /\ 0 <= p + 1 /\ p + 1 <= b + 1
      BY <3>1
    <3> QED
      BY <3>2 DEF b
  <2> QED
    BY <1>0, <1>6, <1>8, <2>1, MessageSpan, NumberPlus
<1> DEFINE z == rc \o r.data
<1>18. InStep(e, t, z, nf)
  BY <1>1, <1>3, <1>8, <1>15, <1>17 DEF InStep, SameNames, f
<1>19. Sender(e, t, n)
  BY <1>1 DEF Hearing, Sender, SameNames, Going, Live
<1>20. t.tries # 0
  BY <1>1 DEF Hearing, Sender, SameNames, Live
<1>21. Receiver(e, t, z, nf)
  <2> HIDE DEF z
  <2>1. z = Stream!FirstN(Len(z)) /\ Len(z) <= nf /\ Len(t.app) <= Len(z)
    BY <1>10, <1>15, <1>16 DEF z
  <2> QED
    BY <1>1, <1>18, <1>20, <2>1 DEF Receiver
<1>22. \A x \in r.out : Carried(e, x, n)
  BY <1>1, ControlCarried
<1>23. p + 1 + q \in Len(rc) + 1 .. nf
  BY <1>q, <1>3, <1>10, <1>0 DEF p
<1> QED
  BY <1>15, <1>19, <1>21, <1>22, <1>23 DEF Continued

(* Whatever a connection hears, the stream continues.                       *)
LEMMA HeardStream ==
  ASSUME Single, NEW e \in Ends, NEW m, NEW n, NEW rc, NEW nf, NEW s, NEW elapsed, NEW o,
         Hearing(e, s, m, n, rc, nf), s.rdp # "CLOSED", IsFiniteSet(s.rx), Len(s.app) <= RxCap
  PROVE  LET r == NewPacket(s, m, elapsed, o) IN
         r \in ResultType /\ Continued(e, r, n, rc, nf)
<1> DEFINE r == NewPacket(s, m, elapsed, o)
<1> SUFFICES r \in ResultType /\ Continued(e, r, n, rc, nf)
  OBVIOUS
<1>1. /\ r \in ResultType
      /\ \/ ResetHeard(s, m, r) \/ Closing(s, m, r) \/ Ending(s, m, r)
         \/ "RST" \notin m.flags /\ Started("server", s, m, r)
         \/ "RST" \notin m.flags /\ Joined(s, m, r)
         \/ "RST" \notin m.flags /\ Noticed(s, m, r)
         \/ "RST" \notin m.flags /\ Pruned(s, m, r)
         \/ "RST" \notin m.flags /\ Full(s, m, r)
         \/ "RST" \notin m.flags /\ Stored(s, m, r)
         \/ "RST" \notin m.flags /\ Received(s, m, r)
  BY NewPacketIs DEF Hearing
<1>2. ~Started("server", s, m, r)
  BY DEF Started
<1> HIDE DEF r
<1> QED
  BY <1>1, <1>2, ResetHeardStream, OverHeardStream, JoinedStream, NoticedStream, OpenedStream,
     StoredStream, ReceivedStream

(* More messages sent.                                                      *)
LEMMA ReceiverGrows ==
  ASSUME NEW e \in Ends, NEW s, NEW r \in Seq(Nat), NEW n \in Nat, NEW k \in Nat, n <= k, Receiver(e, s, r, n)
  PROVE  Receiver(e, s, r, k)
<1>1. Len(r) <= k
  BY LenProperties DEF Receiver
<1>2. ASSUME InStep(e, s, r, n) PROVE InStep(e, s, r, k)
  BY <1>2 DEF InStep
<1> QED
  BY <1>1, <1>2 DEF Receiver

(* More messages sent, for a packet on its way.                             *)
LEMMA CarriedGrows ==
  ASSUME NEW e \in Ends, NEW m, NEW n \in Nat, NEW k \in Nat, n <= k, Carried(e, m, n)
  PROVE  Carried(e, m, k)
  BY DEF Carried

(* The invariant after a step, spelled out.                                 *)
LEMMA SInvNext ==
  ASSUME \A e \in Ends : /\ Sender(e, ep'[e], sent'[e])
                         /\ Receiver(e, ep'[e], rcvd'[e], sent'[Peer(e)])
                         /\ \A m \in net'[Peer(e)] : Carried(e, m, sent'[e])
  PROVE  SInv'
  BY DEF SInv, Sender, Receiver, InStep, Carried

(* A step of one end, and what is on its way to the other end after it.     *)
Moves(e) == /\ ep'[Peer(e)] = ep[Peer(e)] /\ net'[e] \subseteq net[e]
            /\ sent'[Peer(e)] = sent[Peer(e)] /\ rcvd'[Peer(e)] = rcvd[Peer(e)]
            /\ \A x \in net'[Peer(e)] : x \in net[Peer(e)] \/ Carried(e, x, sent'[e])

(* A step of one end that keeps its part keeps the invariant.               *)
LEMMA StreamMove ==
  ASSUME Types, SInv, NEW e \in Ends, Moves(e), sent'[e] \in Nat, sent[e] <= sent'[e],
         Sender(e, ep'[e], sent'[e]), Receiver(e, ep'[e], rcvd'[e], sent[Peer(e)])
  PROVE  SInv'
<1> DEFINE f == Peer(e)
<1>1. f \in Ends /\ Peer(f) = e /\ \A d \in Ends : d = e \/ d = f
  BY PeerIs
<1>2. sent[e] \in Nat /\ rcvd[f] \in Seq(Nat)
  BY <1>1 DEF Types
<1>3. /\ Sender(f, ep[f], sent[f]) /\ Receiver(f, ep[f], rcvd[f], sent[e])
      /\ \A m \in net[e] : Carried(f, m, sent[f])
      /\ \A m \in net[f] : Carried(e, m, sent[e])
  BY <1>1 DEF SInv
<1>4. Receiver(f, ep[f], rcvd[f], sent'[e])
  BY <1>1, <1>2, <1>3, ReceiverGrows
<1>5. \A m \in net'[f] : Carried(e, m, sent'[e])
  BY <1>2, <1>3, CarriedGrows DEF Moves
<1>6. /\ Sender(f, ep'[f], sent'[f]) /\ Receiver(f, ep'[f], rcvd'[f], sent'[e])
      /\ \A m \in net'[e] : Carried(f, m, sent'[f])
      /\ Receiver(e, ep'[e], rcvd'[e], sent'[f])
  BY <1>3, <1>4 DEF Moves
<1> HIDE DEF f
<1> QED
  BY <1>1, <1>5, <1>6, SInvNext DEF f

(* So does one that accepts and sends no message.                           *)
LEMMA QuietMove ==
  ASSUME Types, SInv, NEW e \in Ends, Moves(e), ep'[e] \in ConnType,
         sent' = sent, rcvd' = rcvd,
         \/ Kept(ep[e], ep'[e])
         \/ Shut(ep[e], ep'[e])
         \/ Half(ep[e], ep'[e])
  PROVE  SInv'
<1>1. ep[e] \in ConnType /\ rcvd[e] \in Seq(Nat) /\ sent[e] \in Nat
  BY DEF Types
<1>2. Sender(e, ep[e], sent[e]) /\ Receiver(e, ep[e], rcvd[e], sent[Peer(e)])
  BY DEF SInv
<1>3. Sender(e, ep'[e], sent[e]) /\ Receiver(e, ep'[e], rcvd[e], sent[Peer(e)])
  <2>1. CASE Kept(ep[e], ep'[e])
    BY <1>1, <1>2, <2>1, KeptStream
  <2>2. CASE Shut(ep[e], ep'[e]) \/ Half(ep[e], ep'[e])
    BY <1>2, <2>2, OverStream
  <2> QED
    BY <2>1, <2>2
<1> QED
  BY <1>1, <1>3, StreamMove

(* A connection that stays keeps the stream.                                *)
LEMMA StaysKept ==
  ASSUME NEW s \in ConnType, NEW t \in ConnType, Stays(s, t), t.app = s.app
  PROVE  Kept(s, t)
<1>1. Len(t.app) <= Len(s.app)
  BY LenProperties DEF ConnType
<1> QED
  BY <1>1 DEF Stays, SamePlace, SameIn, Kept

(* Finish moves one end.                                                    *)
LEMMA FinishedMoves ==
  ASSUME NEW e \in Ends, NEW t, NEW out, NEW left \in SUBSET net[e], Finished(e, t, out, left),
         sent' = sent, rcvd'[Peer(e)] = rcvd[Peer(e)], \A x \in out : Carried(e, x, sent[e])
  PROVE  Moves(e)
  BY DEF Finished, Moves

(* The router hands a packet to its connection.                             *)
LEMMA DeliverStream ==
  ASSUME Single, ReaderKeepsUp, AInv, SInv, NEW e \in Ends, Deliver(e)
  PROVE  /\ SInv' /\ sent' = sent
         /\ \/ rcvd' = rcvd
            \/ \E q \in Len(rcvd[e]) + 1 .. sent[Peer(e)] :
                 rcvd' = [rcvd EXCEPT ![e] = Stream!FirstN(q)]
<1>1. PICK m \in net[e], elapsed \in BOOLEAN, o \in Outcomes :
        /\ ep[e].conn
        /\ LET r == NewPacket(ep[e], m, elapsed, o)
           IN  /\ \E left \in Taken(e, m) : Finish(e, r, o, left)
               /\ rcvd' = [rcvd EXCEPT ![e] = @ \o r.data]
        /\ UNCHANGED <<user, sent>>
  BY DEF Deliver
<1> DEFINE r == NewPacket(ep[e], m, elapsed, o)
           f == Peer(e)
<1>2. PICK left \in Taken(e, m) : Finish(e, r, o, left)
  BY <1>1
<1>f. f \in Ends /\ Peer(f) = e /\ f # e
  BY PeerIs
<1>3. /\ Types /\ EndOK(e, ep[e], user[e]) /\ ep[e] \in ConnType /\ m \in Messages
      /\ rcvd[e] \in Seq(Nat) /\ sent[e] \in Nat /\ sent[f] \in Nat /\ sent[f] <= MaxSend[f]
      /\ rcvd \in [Ends -> Seq(Nat)]
  BY <1>f DEF AInv, Types
<1>4. /\ Sender(e, ep[e], sent[e]) /\ Receiver(e, ep[e], rcvd[e], sent[f])
      /\ Carried(f, m, sent[f])
  BY <1>f DEF SInv
<1>5. /\ Hearing(e, ep[e], m, sent[e], rcvd[e], sent[f]) /\ ep[e].rdp # "CLOSED"
      /\ IsFiniteSet(ep[e].rx) /\ Len(ep[e].app) <= RxCap
  BY <1>1, <1>3, <1>4 DEF Hearing, EndOK, Bounds, ReaderKeepsUp, Settled
<1>6. r \in ResultType /\ Continued(e, r, sent[e], rcvd[e], sent[f])
  BY <1>5, HeardStream
<1>7. rcvd' = [rcvd EXCEPT ![e] = rcvd[e] \o r.data]
  BY <1>1
<1> HIDE DEF r
<1>8. r.s \in ConnType /\ r.out \in SUBSET Messages /\ left \in SUBSET net[e]
  BY <1>6 DEF ResultType, Taken
<1>9. Finished(e, r.s, r.out, left)
  BY <1>2, <1>3, <1>8, FinishIs
<1>10. rcvd'[f] = rcvd[f] /\ rcvd'[e] = rcvd[e] \o r.data /\ sent' = sent
  BY <1>1, <1>3, <1>7, <1>f
<1>11. Moves(e)
  BY <1>6, <1>8, <1>9, <1>10, FinishedMoves DEF Continued
<1>12. SInv'
  <2>1. ep'[e] = r.s /\ sent'[e] = sent[e] /\ sent[e] <= sent[e]
    BY <1>3, <1>9, <1>10 DEF Finished
  <2>2. Sender(e, ep'[e], sent'[e]) /\ Receiver(e, ep'[e], rcvd'[e], sent[f])
    BY <1>6, <1>10, <2>1 DEF Continued
  <2> QED
    BY <1>3, <1>11, <2>1, <2>2, StreamMove
<1>13. \/ rcvd' = rcvd
       \/ \E q \in Len(rcvd[e]) + 1 .. sent[f] : rcvd' = [rcvd EXCEPT ![e] = Stream!FirstN(q)]
  <2>1. CASE r.data = <<>>
    BY <1>3, <1>7, <2>1, AppNothing
  <2>2. CASE \E q \in Len(rcvd[e]) + 1 .. sent[f] : rcvd[e] \o r.data = Stream!FirstN(q)
    BY <1>7, <2>2
  <2> QED
    BY <1>6, <2>1, <2>2 DEF Continued
<1> QED
  BY <1>10, <1>12, <1>13

(* The numbers of the SYN and of the first message.                         *)
LEMMA NumberZero ==
  ASSUME Single, NEW e \in Ends
  PROVE  N(e, 0) = Iss[e][1] /\ N(e, 1) = Wrap16(Iss[e][1] + 1)
<1> DEFINE i == Iss[e][1]
<1>1. i \in SeqNr /\ SpanFacts(i, MaxSend[e])
  BY SpanIs
<1> HIDE DEF i
<1>2. Wrap16(i + 0) = i
  BY <1>1, WrapIs DEF SpanFacts
<1> QED
  BY <1>2 DEF N, i

(* The server starts the handshake.                                         *)
LEMMA StartedStream ==
  ASSUME Single, NEW e \in Ends, NEW m, NEW nf, NEW s, NEW r \in ResultType,
         Hearing(e, s, m, 0, <<>>, nf), Started(e, s, m, r), e = "server",
         s.tries = 1, s.sock, s.app = <<>>
  PROVE  Continued(e, r, 0, <<>>, nf)
<1> DEFINE t == r.s
           i == Iss[e][1]
<1>1. /\ t.rdp = "SYN_RCVD" /\ t.tries = 1 /\ t.sock /\ t.app = <<>> /\ t.rx = {}
      /\ t.iss = i /\ t.nxt = Wrap16(i + 1) /\ t.cur = m.seq /\ t.irs = m.seq
      /\ t.tx = s.tx \cup {Syn(i)} /\ r.out = {SynAck(t)} /\ r.data = <<>>
  BY DEF Started, SamePlace, Hearing, Ahead
<1>2. m.seq = N(Peer(e), 0)
  BY DEF Hearing, Started, Carried
<1>3. N(e, 0) = i /\ N(e, 1) = Wrap16(i + 1)
  BY NumberZero
<1>4. Len(<<>>) = 0 /\ <<>> \o <<>> = <<>> /\ 0 + 1 = 1
  BY EmptySeq
<1>5. Sender(e, t, 0)
  BY <1>1, <1>3, <1>4 DEF Hearing, Sender, Going, Live, Syn
<1>6. InStep(e, t, <<>>, nf)
  BY <1>1, <1>2, <1>4 DEF InStep
<1>7. Receiver(e, t, <<>>, nf)
  BY <1>1, <1>4, <1>6 DEF Hearing, Receiver
<1>8. Carried(e, SynAck(t), 0)
  BY <1>1, <1>3, RepliesCarried
<1> QED
  BY <1>1, <1>4, <1>5, <1>7, <1>8 DEF Continued

(* The router hands a packet to the listening socket.                       *)
LEMMA DeliverNewStream ==
  ASSUME Single, AInv, SInv, DeliverNew
  PROVE  SInv' /\ sent' = sent /\ rcvd' = [rcvd EXCEPT !["server"] = <<>>]
<1> DEFINE e == "server"
           f == "client"
<1>e. e \in Ends /\ f \in Ends /\ Peer(e) = f
  BY ClientIs
<1>1. PICK m \in net[e], o \in Outcomes, rdp \in {"CLOSED", "CLOSE_WAIT"} :
        /\ ~ep[e].conn
        /\ ep[e].tries < Len(Iss[e])
        /\ LET r == NewPacket(Accepted(ep[e], rdp), m, FALSE, o)
           IN  \E left \in Taken(e, m) : Finish(e, r, o, left)
        /\ rcvd' = [rcvd EXCEPT ![e] = <<>>]
        /\ UNCHANGED <<user, sent>>
  BY DEF DeliverNew
<1> DEFINE s == Accepted(ep[e], rdp)
           r == NewPacket(s, m, FALSE, o)
<1>2. PICK left \in Taken(e, m) : Finish(e, r, o, left)
  BY <1>1
<1>3. /\ Types /\ EndOK(e, ep[e], user[e]) /\ ep[e] \in ConnType /\ m \in Messages
      /\ sent[f] \in Nat /\ sent[f] <= MaxSend[f] /\ rcvd \in [Ends -> Seq(Nat)]
  BY <1>e DEF AInv, Types
<1>4. /\ s \in ConnType /\ s.conn /\ s.sock /\ s.app = <<>> /\ s.tries = ep[e].tries + 1
      /\ s.rdp = rdp /\ s.tx = ep[e].tx /\ s.rx = ep[e].rx /\ s.backlog = ep[e].backlog
  BY <1>3, AcceptedIs
<1>5. ep[e].tries = 0 /\ s.tries = 1 /\ Len(Iss[e]) = 1 /\ s.rdp \in {"CLOSED", "CLOSE_WAIT"}
  <2>1. Len(Iss[e]) = 1 /\ ep[e].tries \in Nat /\ ep[e].tries < 1
    BY <1>1, <1>3, <1>e DEF ConnType, Single
  <2>2. ep[e].tries = 0 /\ ep[e].rdp = "CLOSED"
    BY <1>1, <1>3, <2>1 DEF EndOK, Settled
  <2> QED
    BY <1>4, <2>1, <2>2
<1> HIDE DEF s
<1>6. sent[e] = 0 /\ Sender(e, s, 0) /\ Carried(f, m, sent[f])
  <2>1. Sender(e, ep[e], sent[e]) /\ \A x \in net[e] : Carried(f, x, sent[f])
    BY <1>e, ClientIs DEF SInv
  <2> QED
    BY <1>4, <1>5, <2>1 DEF Sender, Going, Live
<1>7. Receiver(e, s, <<>>, sent[f])
  <2>1. Len(<<>>) = 0 /\ Stream!FirstN(0) = <<>>
    BY EmptySeq DEF Stream!FirstN
  <2> QED
    BY <1>3, <1>5, <2>1 DEF Receiver, Going, Live
<1>r. Room(e, s)
  <2>1. Len(s.app) = 0
    BY <1>4, EmptySeq
  <2> QED
    BY <2>1, CapAssumption, WindowAssumption DEF Room
<1>8. Hearing(e, s, m, 0, <<>>, sent[f])
  <2>1. Ahead(s)
    BY <1>1, <1>3, <1>4, <1>5 DEF EndOK, Settled, Ahead
  <2> QED
    BY <1>3, <1>4, <1>5, <1>6, <1>7, <1>e, <1>r, <2>1, EmptySeq DEF Hearing
<1>9. /\ r \in ResultType
      /\ Closing(s, m, r) \/ Ending(s, m, r) \/ Started(e, s, m, r)
  <2>1. IsFiniteSet(s.rx) /\ Len(s.app) <= RxCap /\ Ahead(s)
    BY <1>3, <1>4, <1>8, EmptySeq, CapAssumption DEF EndOK, Bounds, Hearing
  <2>2. /\ r \in ResultType
        /\ \/ ResetHeard(s, m, r) \/ Closing(s, m, r) \/ Ending(s, m, r)
           \/ Started("server", s, m, r) \/ Joined(s, m, r) \/ Noticed(s, m, r)
           \/ Pruned(s, m, r) \/ Full(s, m, r) \/ Stored(s, m, r) \/ Received(s, m, r)
    <3>1. s.tries \in 1 .. Len(Iss["server"])
      BY <1>5
    <3> QED
      BY <1>3, <1>4, <2>1, <3>1, NewPacketIs
  <2> HIDE DEF r
  <2> QED
    BY <1>5, <2>2 DEF ResetHeard, Joined, Noticed, Pruned, Full, Stored, Received, Answered
<1> HIDE DEF r
<1>10. Continued(e, r, 0, <<>>, sent[f]) /\ r.data = <<>>
  <2>1. CASE Closing(s, m, r) \/ Ending(s, m, r)
    BY <1>8, <1>9, <1>e, <2>1, OverHeardStream DEF Closing, Ending
  <2>2. CASE Started(e, s, m, r)
    BY <1>4, <1>5, <1>8, <1>9, <1>e, <2>2, StartedStream DEF Started
  <2> QED
    BY <1>9, <2>1, <2>2
<1>11. r.s \in ConnType /\ r.out \in SUBSET Messages /\ left \in SUBSET net[e]
  BY <1>9 DEF ResultType, Taken
<1>12. Finished(e, r.s, r.out, left)
  BY <1>2, <1>3, <1>11, <1>e, FinishIs
<1>13. rcvd'[f] = rcvd[f] /\ rcvd'[e] = <<>> /\ sent' = sent /\ <<>> \o <<>> = <<>>
  BY <1>1, <1>3, <1>e
<1>14. Moves(e)
  BY <1>6, <1>10, <1>11, <1>12, <1>13, <1>e, FinishedMoves DEF Continued
<1>15. SInv'
  <2>1. ep'[e] = r.s /\ sent'[e] = 0 /\ sent[e] <= sent'[e] /\ sent'[e] \in Nat
    BY <1>6, <1>12, <1>13 DEF Finished
  <2>2. Sender(e, ep'[e], sent'[e]) /\ Receiver(e, ep'[e], rcvd'[e], sent[f])
    BY <1>10, <1>13, <2>1 DEF Continued
  <2> QED
    BY <1>3, <1>14, <1>e, <2>1, <2>2, StreamMove
<1> QED
  BY <1>1, <1>15

(* The invariant holds at the start.                                        *)
LEMMA SInvInit == Single /\ Init => SInv
<1> SUFFICES ASSUME Single, Init PROVE SInv
  OBVIOUS
<1>1. Len(<<>>) = 0 /\ Stream!FirstN(0) = <<>>
  BY EmptySeq DEF Stream!FirstN
<1>2. \A e \in Ends : ep[e] = Free /\ sent[e] = 0 /\ rcvd[e] = <<>> /\ net[e] = {}
  BY DEF Init
<1>3. \A e \in Ends : Sender(e, Free, 0) /\ Receiver(e, Free, <<>>, 0)
  BY <1>1 DEF Sender, Receiver, Free, Going, Live
<1>4. \A e \in Ends : Peer(e) \in Ends
  BY PeerIs
<1> QED
  BY <1>2, <1>3, <1>4 DEF SInv

(* csp_close.                                                               *)
LEMMA CloseStream ==
  ASSUME AInv, SInv, NEW e \in Ends, NEW o, ep[e].conn, Finish(e, Close(ep[e], o), o, net[e]),
         sent' = sent, rcvd' = rcvd
  PROVE  SInv'
<1> DEFINE r == Close(ep[e], o)
<1>2. Types /\ EndOK(e, ep[e], user[e]) /\ ep[e] \in ConnType
  BY DEF AInv, Types
<1>3. /\ r.s \in ConnType /\ r.out \in SUBSET Messages
      /\ \/ Shut(ep[e], r.s) /\ r.out = {}
         \/ Half(ep[e], r.s) /\ r.out = {Reset(ep[e])}
  <2>1. /\ r \in ResultType
        /\ \/ Shut(ep[e], r.s) /\ r.out = {}
           \/ ep[e].rdp # "CLOSE_WAIT" /\ Half(ep[e], r.s) /\ r.s.app = ep[e].app /\ r.out = {Reset(ep[e])}
    BY <1>2, CloseIs
  <2> HIDE DEF r
  <2> QED
    BY <2>1 DEF ResultType
<1>4. Finish(e, r, o, net[e]) /\ net[e] \in SUBSET net[e] /\ ep[e].rdp # "CLOSED"
  BY <1>2 DEF EndOK, Settled
<1> HIDE DEF r
<1>5. Finished(e, r.s, r.out, net[e])
  BY <1>2, <1>3, <1>4, FinishIs
<1>6. Moves(e)
  BY <1>3, <1>4, <1>5, RepliesCarried, FinishedMoves
<1>7. ep'[e] = r.s
  BY <1>5 DEF Finished
<1> QED
  BY <1>2, <1>3, <1>4, <1>6, <1>7, QuietMove

(* A retransmission carries the message of its number.                      *)
LEMMA CopyCarried ==
  ASSUME NEW e \in Ends, NEW n, NEW s, Sender(e, s, n), NEW p \in s.tx
  PROVE  Carried(e, Copy(e, p), n)
BY DEF Sender, Copy, Packet, SynFlags, Carried

(* csp_rdp_check_timeouts.                                                  *)
LEMMA CheckTimeoutsStream ==
  ASSUME AInv, SInv, NEW e \in Ends, CheckTimeouts(e)
  PROVE  SInv' /\ sent' = sent /\ rcvd' = rcvd
<1>0. Types /\ ep[e] \in ConnType /\ Sender(e, ep[e], sent[e])
  BY DEF AInv, Types, SInv
<1>1. PICK again \in SUBSET ep[e].tx, elapsed \in BOOLEAN, o \in Outcomes :
         Retransmit(e, again, elapsed, o)
  BY DEF CheckTimeouts
<1>2. PICK r : /\ Checked(e, again, r) /\ Finish(e, r, o, net[e])
               /\ r.out \in SUBSET Messages
               /\ UNCHANGED <<user, sent, rcvd>>
  BY <1>0, <1>1, RetransmitIs
<1>3. r.s \in ConnType /\ net[e] \in SUBSET net[e]
  BY <1>2 DEF Checked
<1>4. Finished(e, r.s, r.out, net[e])
  BY <1>0, <1>2, <1>3, FinishIs
<1>5. \A x \in r.out : Carried(e, x, sent[e])
  <2>1. \A p \in again : Carried(e, Copy(e, p), sent[e])
    BY <1>0, CopyCarried
  <2> QED
    BY <1>2, <2>1, RepliesCarried DEF Checked
<1>6. Moves(e) /\ ep'[e] = r.s
  BY <1>2, <1>4, <1>5, FinishedMoves DEF Finished
<1>7. Kept(ep[e], r.s)
  <2>1. Len(r.s.app) <= Len(ep[e].app)
    BY <1>0, <1>2, LenProperties DEF Checked, ConnType
  <2>2. r.s.tx \subseteq ep[e].tx
    BY <1>2 DEF Checked, Unacknowledged
  <2> QED
    BY <1>2, <2>1, <2>2 DEF Checked, Kept, SamePlace, SameIn
<1> QED
  BY <1>0, <1>2, <1>3, <1>6, <1>7, QuietMove

(* A step within one end.                                                   *)
LEMMA LocalMoves ==
  ASSUME Types, NEW e \in Ends, Local(e)
  PROVE  Moves(e)
  BY PeerIs DEF Types, Local, Moves

(* csp_connect sends the SYN.                                               *)
LEMMA ConnectStream ==
  ASSUME Single, AInv, SInv, Connect
  PROVE  SInv' /\ sent' = sent /\ rcvd' = rcvd
<1> DEFINE e == "client"
           b == ep[e]
           s == [b EXCEPT !.conn = TRUE, !.sock = FALSE, !.app = <<>>]
           i == Iss[e][1]
           t == ep'[e]
<1>e. e \in Ends /\ Peer(e) = "server"
  BY ClientIs
<1>1. PICK o \in Outcomes : SendSyn(s, "waiting", o)
  BY DEF Connect
<1>2. Types /\ b \in ConnType /\ Sender(e, b, sent[e]) /\ Receiver(e, b, rcvd[e], sent["server"])
  BY <1>e DEF AInv, Types, SInv
<1>3. s \in ConnType /\ s.conn /\ s.app = <<>> /\ s.tries = b.tries
  BY <1>2, EmptySeq DEF ConnType
<1> HIDE DEF s
<1>4. Synchronised(s, "waiting") /\ UNCHANGED <<sent, rcvd>>
  BY <1>1, <1>2, <1>3, SendSynIs
<1>5. PICK out : Finished(e, t, out, net[e])
  BY <1>1, <1>2, <1>3, SendSynIs
<1>6. b.tries = 0 /\ s.tries = 0 /\ s.tries + 1 = 1
  <2>1. Len(Iss[e]) = 1 /\ b.tries \in Nat /\ b.tries < 1
    BY <1>2, <1>3, <1>4, <1>e DEF Synchronised, Single, ConnType
  <2> QED
    BY <1>3, <2>1
<1>7. sent[e] = 0 /\ rcvd[e] = <<>> /\ Len(rcvd[e]) = 0
  BY <1>2, <1>6, EmptySeq DEF Sender, Receiver
<1>8. /\ t.iss = i /\ t.nxt = Wrap16(i + 1) /\ t.tries = 1
      /\ \/ /\ t.rdp = "SYN_SENT" /\ t.tx = {Syn(i)} /\ t.app = <<>>
            /\ net'["server"] \subseteq net["server"] \cup {Packet({"SYN"}, i, 0, NULL, {})}
         \/ /\ t.rdp = "CLOSED" /\ t.tx = {}
            /\ net'["server"] \subseteq net["server"]
  BY <1>3, <1>4, <1>6 DEF Synchronised
<1>9. N(e, 0) = i /\ N(e, 1) = Wrap16(i + 1) /\ 0 + 1 = 1
  BY <1>e, NumberZero
<1>10. Sender(e, t, 0)
  BY <1>8, <1>9 DEF Sender, Going, Live, Syn
<1>11. Receiver(e, t, <<>>, sent["server"])
  BY <1>2, <1>7, <1>8 DEF Receiver, Going, Live
<1>12. Carried(e, Packet({"SYN"}, i, 0, NULL, {}), 0)
  BY <1>9 DEF Carried, Packet
<1>13. Moves(e)
  BY <1>4, <1>5, <1>7, <1>8, <1>12, <1>e DEF Finished, Moves
<1> QED
  BY <1>2, <1>4, <1>7, <1>10, <1>11, <1>13, <1>e, StreamMove

(* The client is woken in csp_rdp_connect.                                  *)
LEMMA ConnectedStream ==
  ASSUME Single, AInv, SInv, Connected
  PROVE  SInv' /\ sent' = sent /\ rcvd' = rcvd
<1> DEFINE e == "client"
           b == ep["client"]
           s == [b EXCEPT !.sem = FALSE]
<1>1. Types /\ b \in ConnType /\ Sender(e, b, sent[e]) /\ e \in Ends
  BY ClientIs DEF AInv, Types, SInv
<1>2. s \in ConnType /\ Stays(b, s) /\ s.app = b.app
  BY <1>1, SemIs
<1>3. \/ /\ ep' = [ep EXCEPT !["client"] = s]
         /\ user' = [user EXCEPT !["client"] = "open"]
         /\ UNCHANGED <<net, sent, rcvd>>
      \/ s.rdp = "SYN_SENT" /\ s.tries < Len(Iss["client"])
      \/ GiveUpConnect(s)
  <2> HIDE DEF s
  <2> QED
    BY DEF Connected, SendSyn, s
<1> HIDE DEF s
<1>4. CASE /\ ep' = [ep EXCEPT !["client"] = s]
           /\ user' = [user EXCEPT !["client"] = "open"]
           /\ UNCHANGED <<net, sent, rcvd>>
  <2>1. ep'["client"] = s /\ user'["client"] = "open"
    BY <1>1, <1>4, ClientIs DEF Types
  <2>2. Local("client")
    BY <1>2, <1>4, <2>1 DEF Local, UserStates
  <2>3. Kept(b, s)
    BY <1>1, <1>2, StaysKept
  <2> QED
    BY <1>1, <1>2, <1>4, <2>1, <2>2, <2>3, LocalMoves, QuietMove
<1>5. CASE s.rdp = "SYN_SENT" /\ s.tries < Len(Iss["client"])
  <2>1. s.tries = b.tries /\ s.rdp = b.rdp /\ b.tries \in Nat /\ Len(Iss["client"]) = 1
    BY <1>1, <1>2 DEF Stays, SameNames, Single, ConnType
  <2>2. b.tries = 0 /\ b.rdp = "SYN_SENT"
    BY <1>5, <2>1
  <2> QED
    BY <1>1, <2>2 DEF Sender, Going
<1>6. CASE GiveUpConnect(s)
  <2>1. Local("client") /\ (Shut(s, ep'["client"]) \/ Half(s, ep'["client"]))
    BY <1>1, <1>2, <1>6, GiveUpIs
  <2>2. Shut(b, ep'["client"]) \/ Half(b, ep'["client"])
    BY <1>2, <2>1 DEF Shut, Half, Stays, SameNames, SamePlace, SameIn
  <2> QED
    BY <1>1, <2>1, <2>2, LocalMoves, QuietMove DEF Local
<1> QED
  BY <1>3, <1>4, <1>5, <1>6

(* The client waited too long.                                              *)
LEMMA ConnectTimeoutStream ==
  ASSUME AInv, SInv, ConnectTimeout
  PROVE  SInv' /\ sent' = sent /\ rcvd' = rcvd
<1>1. Types /\ ep["client"] \in ConnType /\ "client" \in Ends
  BY ClientIs DEF AInv, Types
<1>2. Local("client") /\ (Shut(ep["client"], ep'["client"]) \/ Half(ep["client"], ep'["client"]))
  BY <1>1, GiveUpIs DEF ConnectTimeout
<1> QED
  BY <1>1, <1>2, LocalMoves, QuietMove DEF Local

(* The timer of a lost or half-closed connection.                           *)
LEMMA ExpireStream ==
  ASSUME AInv, SInv, NEW e \in Ends, ExpireConnection(e)
  PROVE  SInv' /\ sent' = sent /\ rcvd' = rcvd
<1>1. PICK o \in Outcomes : /\ ep[e].conn /\ Finish(e, Close(ep[e], o), o, net[e])
                            /\ UNCHANGED <<user, sent, rcvd>>
  BY DEF ExpireConnection
<1> QED
  BY <1>1, CloseStream

(* csp_close by the user.                                                   *)
LEMMA UserCloseStream ==
  ASSUME AInv, SInv, NEW e \in Ends, UserClose(e)
  PROVE  SInv' /\ sent' = sent /\ rcvd' = rcvd
<1>1. PICK o \in Outcomes :
        /\ IF ep[e].conn THEN Finish(e, Close(ep[e], o), o, net[e]) ELSE UNCHANGED <<ep, net>>
        /\ UNCHANGED <<sent, rcvd>>
  BY DEF UserClose
<1>2. CASE ep[e].conn
  BY <1>1, <1>2, CloseStream
<1>3. CASE ~ep[e].conn
  BY <1>1, <1>3, SInvNext DEF SInv
<1> QED
  BY <1>2, <1>3

(* The network loses a packet.                                              *)
LEMMA FewerStream ==
  ASSUME SInv, NEW e \in Ends, NEW left \in SUBSET net[e],
         net' = [net EXCEPT ![e] = left], Types, UNCHANGED <<ep, sent, rcvd>>
  PROVE  SInv'
<1>1. \A d \in Ends : net'[Peer(d)] \subseteq net[Peer(d)]
  BY PeerIs DEF Types
<1> QED
  BY <1>1, SInvNext DEF SInv

(* A message is sent: it gets the next number.                              *)
LEMMA TransmitStream ==
  ASSUME Single, AInv, SInv, NEW e \in Ends, NEW s \in ConnType, NEW o, Transmit(e, s, o),
         Stays(ep[e], s), s.app = ep[e].app, sent[e] < MaxSend[e], rcvd' = rcvd
  PROVE  SInv' /\ sent' = [sent EXCEPT ![e] = sent[e] + 1]
<1> DEFINE n == sent[e]
           b == ep[e]
           t == ep'[e]
           f == Peer(e)
           rc == rcvd[e]
<1>1. /\ Types /\ b \in ConnType /\ Sender(e, b, n) /\ Receiver(e, b, rc, sent[f])
      /\ n \in Nat /\ f \in Ends /\ f # e /\ rc \in Seq(Nat)
  BY PeerIs DEF AInv, Types, SInv
<1>2. Transmitted(e, s)
  BY <1>1, TransmitIs
<1>3. PICK out : Finished(e, t, out, net[e])
  BY <1>1, TransmitIs
<1>4. /\ s.rdp = "OPEN" /\ b.rdp = "OPEN" /\ b.iss = N(e, 0) /\ b.nxt = N(e, n + 1) /\ b.tries # 0
      /\ s.iss = b.iss /\ s.nxt = b.nxt /\ s.tries = b.tries /\ s.tx = b.tx /\ s.cur = b.cur
      /\ s.irs = b.irs /\ s.rx = b.rx
  BY <1>1, <1>2 DEF Transmitted, Stays, SameNames, SameIn, Sender, Going, Live
<1>5. Wrap16(N(e, n + 1) + 1) = N(e, n + 1 + 1)
  <2>1. n + 1 \in Int /\ 0 <= n + 1 /\ n + 1 <= MaxSend[e] + 1
    <3>1. MaxSend[e] \in Nat /\ n \in Nat /\ n < MaxSend[e]
      BY <1>1, LoadAssumption
    <3> QED
      BY <3>1
  <2> QED
    BY <2>1, NumberNext
<1>6. /\ t.rdp = "OPEN" /\ t.iss = N(e, 0) /\ t.nxt = N(e, n + 1 + 1) /\ t.tries # 0
      /\ t.tx = b.tx \cup {[syn |-> FALSE, seq |-> N(e, n + 1), data |-> n + 1]}
      /\ t.cur = b.cur /\ t.irs = b.irs /\ t.rx = b.rx /\ t.app = b.app
      /\ sent' = [sent EXCEPT ![e] = n + 1]
      /\ net'[f] \subseteq net[f] \cup {Packet({"ACK"}, N(e, n + 1), b.cur, n + 1, {})}
  BY <1>2, <1>4, <1>5 DEF Transmitted, SameIn
<1>7. sent'[e] = n + 1 /\ sent'[f] = sent[f]
  BY <1>1, <1>6 DEF Types
<1>8. net'[e] \subseteq net[e] /\ ep'[f] = ep[f]
  BY <1>3 DEF Finished
<1> HIDE DEF n, t, b, f, rc
<1>9. Sender(e, t, n + 1)
  <2>1. n + 1 \in 1 .. n + 1 /\ 1 .. n \subseteq 1 .. n + 1
    BY <1>1
  <2>2. \A p \in b.tx : IF p.syn THEN p.seq = N(e, 0) /\ p.data = NULL
                       ELSE p.data \in 1 .. n /\ p.seq = N(e, p.data)
    BY <1>1 DEF Sender
  <2>3. \A p \in t.tx : IF p.syn THEN p.seq = N(e, 0) /\ p.data = NULL
                       ELSE p.data \in 1 .. n + 1 /\ p.seq = N(e, p.data)
    BY <1>6, <2>1, <2>2
  <2> QED
    BY <1>6, <2>3 DEF Sender
<1>10. Receiver(e, t, rc, sent[f])
  BY <1>1, <1>4, <1>6 DEF Receiver, InStep, Going, Live
<1>11. Carried(e, Packet({"ACK"}, N(e, n + 1), b.cur, n + 1, {}), n + 1)
  BY <1>1 DEF Carried, Packet
<1>12. Moves(e)
  BY <1>6, <1>7, <1>8, <1>11 DEF Moves, f
<1>13. n + 1 \in Nat /\ n <= n + 1
  BY <1>1
<1>14. SInv'
  <2>1. sent'[e] \in Nat /\ sent[e] <= sent'[e]
    BY <1>7, <1>13 DEF n
  <2>2. Sender(e, ep'[e], sent'[e]) /\ Receiver(e, ep'[e], rcvd'[e], sent[Peer(e)])
    BY <1>7, <1>9, <1>10 DEF t, f, rc
  <2> QED
    BY <1>1, <1>12, <2>1, <2>2, StreamMove
<1> QED
  BY <1>6, <1>14 DEF n

(* The sender goes to sleep or wakes up without having sent.                *)
LEMMA SemStream ==
  ASSUME AInv, SInv, NEW e \in Ends, ep' = [ep EXCEPT ![e].sem = FALSE],
         UNCHANGED <<net, sent, rcvd>>
  PROVE  SInv'
<1> DEFINE s == ep[e]
           t == [s EXCEPT !.sem = FALSE]
<1>1. Types /\ s \in ConnType
  BY DEF AInv, Types
<1>2. t \in ConnType /\ Stays(s, t) /\ t.app = s.app /\ ep'[e] = t
  BY <1>1, SemIs DEF Types
<1> HIDE DEF t
<1>3. Moves(e)
  BY <1>1, PeerIs DEF Moves, Types
<1>4. Kept(s, t)
  BY <1>1, <1>2, StaysKept
<1> QED
  BY <1>1, <1>2, <1>3, <1>4, QuietMove

(* csp_send.                                                                *)
LEMMA SendStream ==
  ASSUME Single, AInv, SInv, NEW e \in Ends, Send(e)
  PROVE  /\ SInv' /\ rcvd' = rcvd
         /\ sent' = sent \/ sent' = [sent EXCEPT ![e] = sent[e] + 1]
<1>1. Types /\ ep[e] \in ConnType /\ rcvd' = rcvd /\ sent[e] < MaxSend[e]
  BY DEF AInv, Types, Send
<1>2. \/ ep' = [ep EXCEPT ![e].sem = FALSE] /\ UNCHANGED <<net, sent>>
      \/ \E o \in Outcomes : Transmit(e, ep[e], o)
  BY DEF Send
<1>3. CASE ep' = [ep EXCEPT ![e].sem = FALSE] /\ UNCHANGED <<net, sent>>
  BY <1>1, <1>3, SemStream
<1>4. CASE \E o \in Outcomes : Transmit(e, ep[e], o)
  BY <1>1, <1>4, StaysSelf, TransmitStream
<1> QED
  BY <1>1, <1>2, <1>3, <1>4

(* The sender that is woken.                                                *)
LEMMA SendWokenStream ==
  ASSUME Single, AInv, SInv, NEW e \in Ends, SendWoken(e)
  PROVE  /\ SInv' /\ rcvd' = rcvd
         /\ sent' = sent \/ sent' = [sent EXCEPT ![e] = sent[e] + 1]
<1> DEFINE s == [ep[e] EXCEPT !.sem = FALSE]
<1>1. Types /\ ep[e] \in ConnType /\ rcvd' = rcvd /\ user[e] = "blocked"
  BY DEF AInv, Types, SendWoken
<1>2. s \in ConnType /\ Stays(ep[e], s) /\ s.app = ep[e].app /\ sent[e] < MaxSend[e]
  BY <1>1, SemIs DEF Types
<1>3. \/ ep' = [ep EXCEPT ![e] = s] /\ UNCHANGED <<net, sent>>
      \/ \E o \in Outcomes : Transmit(e, s, o)
  <2> HIDE DEF s
  <2> QED
    BY DEF SendWoken, s
<1>4. CASE ep' = [ep EXCEPT ![e] = s] /\ UNCHANGED <<net, sent>>
  BY <1>1, <1>4, SemStream
<1>5. CASE \E o \in Outcomes : Transmit(e, s, o)
  <2> HIDE DEF s
  <2> QED
    BY <1>1, <1>2, <1>5, TransmitStream
<1> QED
  BY <1>1, <1>3, <1>4, <1>5

(* csp_read.                                                                *)
LEMMA ReadStream ==
  ASSUME AInv, SInv, NEW e \in Ends, Read(e)
  PROVE  SInv' /\ sent' = sent /\ rcvd' = rcvd
<1>1. Types /\ ep[e] \in ConnType
  BY DEF AInv, Types
<1>2. /\ UNCHANGED <<sent, rcvd>>
      /\ \/ UNCHANGED <<ep, net>>
         \/ Fetched(e) /\ \E out : Finished(e, ep'[e], out, net[e])
  BY <1>1, ReadIs
<1>3. CASE UNCHANGED <<ep, net>>
  BY <1>2, <1>3, SInvNext DEF SInv
<1>4. CASE Fetched(e) /\ \E out : Finished(e, ep'[e], out, net[e])
  <2>1. PICK out : Finished(e, ep'[e], out, net[e])
    BY <1>4
  <2>2. ep'[e] \in ConnType /\ ep'[Peer(e)] = ep[Peer(e)] /\ net'[e] = net[e]
    BY <2>1 DEF Finished
  <2>3. net'[Peer(e)] \subseteq net[Peer(e)] \cup {PureAck(ep[e])}
    BY <1>4 DEF Fetched
  <2>4. Moves(e)
    BY <1>2, <2>2, <2>3, RepliesCarried DEF Moves
  <2>5. Kept(ep[e], ep'[e])
    <3>1. Len(ep'[e].app) <= Len(ep[e].app)
      <4>1. ep[e].app \in Seq(Nat \cup {NULL}) /\ ep[e].app # <<>> /\ ep'[e].app = Tail(ep[e].app)
        BY <1>1, <1>4 DEF ConnType, Fetched
      <4>2. Len(Tail(ep[e].app)) = Len(ep[e].app) - 1 /\ Len(ep[e].app) \in Nat
        BY <4>1, HeadTailProperties, LenProperties
      <4> QED
        BY <4>1, <4>2
    <3> QED
      BY <1>4, <3>1 DEF Fetched, Stays, SamePlace, SameIn, Kept
  <2> QED
    BY <1>1, <1>2, <2>2, <2>4, <2>5, QuietMove
<1> QED
  BY <1>2, <1>3, <1>4

(* csp_accept.                                                              *)
LEMMA AcceptStream ==
  ASSUME AInv, SInv, Accept
  PROVE  SInv' /\ sent' = sent /\ rcvd' = rcvd
<1> DEFINE s == ep["server"]
           t == [s EXCEPT !.backlog = @ - 1]
<1>1. Types /\ EndOK("server", s, user["server"]) /\ s \in ConnType /\ "server" \in Ends
  BY ClientIs DEF AInv, Types
<1>2. /\ s.backlog > 0 /\ ep' = [ep EXCEPT !["server"] = t] /\ UNCHANGED <<net, sent, rcvd>>
  BY DEF Accept
<1>3. s.backlog - 1 \in Nat
  BY <1>1, <1>2 DEF ConnType
<1>4. /\ t \in ConnType /\ SameNames(s, t) /\ SameIn(s, t) /\ t.rdp = s.rdp /\ t.app = s.app
      /\ t.sock = s.sock /\ t.tx = s.tx
  BY <1>1, <1>3 DEF ConnType, SameNames, SameIn
<1> HIDE DEF t
<1>5. ep'["server"] = t
  BY <1>1, <1>2 DEF Types
<1>6. Moves("server")
  BY <1>1, <1>2, PeerIs DEF Types, Moves
<1>7. Kept(s, t)
  <2>1. Len(t.app) <= Len(s.app)
    BY <1>1, <1>4, LenProperties DEF ConnType
  <2> QED
    BY <1>4, <2>1 DEF Kept, SameIn
<1> QED
  BY <1>1, <1>2, <1>4, <1>5, <1>6, <1>7, QuietMove

(* A step that touches neither connections nor packets.                     *)
LEMMA StillStream ==
  ASSUME SInv, UNCHANGED <<ep, net, sent, rcvd>>
  PROVE  SInv'
  BY SInvNext DEF SInv

(* A step of the program is a step of the stream, or none.                  *)
Stepped == \/ sent' = sent /\ rcvd' = rcvd
           \/ \E e \in Ends : Stream!Send(e) \/ Stream!Receive(e) \/ Stream!Reconnect(e)

(* Every step of the program keeps the invariant, and is a step of the stream. *)
LEMMA StreamStep ==
  ASSUME Single, ReaderKeepsUp, AInv, SInv, [Next]_vars
  PROVE  SInv' /\ Stepped
<1>0. Types
  BY DEF AInv
<1>1. ASSUME NEW e \in Ends, Deliver(e) PROVE SInv' /\ Stepped
  BY <1>1, DeliverStream DEF Stepped, Stream!Receive
<1>2. ASSUME NEW e \in Ends, Send(e) \/ SendWoken(e) PROVE SInv' /\ Stepped
  BY <1>2, SendStream, SendWokenStream DEF Stepped, Stream!Send
<1>3. ASSUME NEW e \in Ends,
             ExpireConnection(e) \/ CheckTimeouts(e) \/ Read(e) \/ UserClose(e)
      PROVE  SInv' /\ Stepped
  BY <1>3, ExpireStream, CheckTimeoutsStream, ReadStream, UserCloseStream DEF Stepped
<1>4. ASSUME NEW e \in Ends, SendTimeout(e) PROVE SInv' /\ Stepped
  BY <1>4, StillStream DEF SendTimeout, Stepped
<1>5. ASSUME NEW e \in Ends, Lose(e) PROVE SInv' /\ Stepped
  <2>1. PICK m \in net[e] : net' = [net EXCEPT ![e] = net[e] \ {m}]
    BY <1>5 DEF Lose
  <2>2. UNCHANGED <<ep, sent, rcvd>>
    BY <1>5 DEF Lose
  <2> QED
    BY <1>0, <2>1, <2>2, FewerStream DEF Stepped
<1>6. CASE DeliverNowhere
  <2>1. PICK m \in net["client"] : net' = [net EXCEPT !["client"] = net["client"] \ {m}]
    BY <1>6 DEF DeliverNowhere
  <2>2. UNCHANGED <<ep, sent, rcvd>>
    BY <1>6 DEF DeliverNowhere
  <2> QED
    BY <1>0, <2>1, <2>2, FewerStream, ClientIs DEF Stepped
<1>7. CASE DeliverNew
  BY <1>7, DeliverNewStream, ClientIs DEF Stepped, Stream!Reconnect
<1>8. CASE Connect \/ Connected \/ ConnectTimeout \/ Accept
  BY <1>8, ConnectStream, ConnectedStream, ConnectTimeoutStream, AcceptStream DEF Stepped
<1>9. CASE UNCHANGED vars
  BY <1>9, StillStream DEF vars, Stepped
<1> QED
  BY <1>1, <1>2, <1>3, <1>4, <1>5, <1>6, <1>7, <1>8, <1>9 DEF Next, Router, User

(* The invariant holds in every state of a connection whose reader keeps up. *)
THEOREM StreamInductive == Single => (Spec /\ []ReaderKeepsUp => [](AInv /\ SInv))
<1> SUFFICES ASSUME Single PROVE Spec /\ []ReaderKeepsUp => [](AInv /\ SInv)
  OBVIOUS
<1>1. Init => AInv /\ SInv
  BY AInvInit, SInvInit
<1>2. ReaderKeepsUp /\ AInv /\ SInv /\ [Next]_vars => AInv' /\ SInv'
  BY AInvStep, StreamStep
<1> QED
  BY <1>1, <1>2, PTL DEF Spec

(* Over one connection whose reader keeps up with what is in flight, for every *)
(* window, queue length, number of messages, link and interleaving of router and *)
(* user tasks, the detailed protocol (csp_rdp_new_packet with the flush of its *)
(* rx_queue, retransmission, EACK and close) implements the reliable stream: *)
(* messages arrive in the order of csp_send, none missing, none twice.      *)
THEOREM StreamRefinement == Single => (Spec /\ []ReaderKeepsUp => ImplementsStream)
<1> SUFFICES ASSUME Single PROVE Spec /\ []ReaderKeepsUp => ImplementsStream
  OBVIOUS
<1>1. Init => Stream!Init
  BY DEF Init, Stream!Init
<1>2. ReaderKeepsUp /\ AInv /\ SInv /\ [Next]_vars => [Stream!Next]_Stream!vars
  BY StreamStep DEF Stepped, Stream!Next, Stream!vars
<1> QED
  BY <1>1, <1>2, StreamInductive, PTL DEF Spec, ImplementsStream, Stream!Spec
-----------------------------------------------------------------------------

(* The receiver g has message k: delivered, or in its rx_queue.             *)
Has(g, r, k) == k <= Len(r) \/ \E p \in g.rx : p.data = k
(* The pure ACK of a client that was closed and asks to be opened: csp_rdp.c *)
(* acknowledges 0 before it has heard the number of its peer.               *)
Early(f, m) == /\ f = "client" /\ m.flags = {"ACK"} /\ m.data = NULL
               /\ m.seq = N(f, 1) /\ m.ack = 0

(* What an acknowledgement on its way to e says of the receiver g: the number *)
(* of the SYN or of a message that it has, and in the EACK list such messages. *)
Answer(e, g, n, r, m) ==
  "ACK" \in m.flags =>
    /\ "RST" \notin m.flags
    /\ Early(Peer(e), m) \/ (g.rdp \in Live /\ \E j \in 0 .. Len(r) : m.ack = N(e, j))
    /\ \A x \in m.eacks : \E k \in 1 .. n : x = N(e, k) /\ Has(g, r, k)

(* snd_una follows a message the receiver has, or is what the server took from *)
(* an Early ACK that happened to be in range.                               *)
Una(e, s, r) ==
  \/ \E u \in 0 .. Len(r) + 1 : s.una = N(e, u)
  \/ e = "server" /\ s.una = 1 /\ \E u \in 0 - 2 * Window .. 0 : N(e, u) = 1

(* What was sent is still in tx_queue or was received, and no message is further *)
(* ahead of the receiver than the window and one.                           *)
Held(s, g, n, r) ==
  /\ \A k \in 1 .. n : (\E p \in s.tx : p.data = k) \/ Has(g, r, k)
  /\ n <= Len(r) + Window + 1

(* The way from e to its peer: s is the structure of e, g that of the peer, M *)
(* the packets on their way back to e.                                      *)
Path(e, s, g, n, r, M) ==
  /\ g.rdp \in Going => \A m \in M : Answer(e, g, n, r, m)
  /\ s.rdp \in Live /\ g.rdp \in Going => Una(e, s, r)
  /\ s.rdp \in Live /\ g.rdp \in Live => Held(s, g, n, r)

(* What distinguishes a connection that only begins from one in use.        *)
Fresh(e, s, n, u, re) ==
  /\ s.tries = 0 => s.rdp = "CLOSED" /\ s.cur = 0 /\ s.backlog = 0 /\ u = "none"
  /\ s.rdp = "SYN_SENT" => s.cur = 0
  /\ s.rdp \in Going /\ s.sock => e = "server" /\ re = <<>>
  /\ s.rdp \in Going /\ re = <<>> => e = "client" \/ s.sock
  /\ s.rdp \in Live /\ s.sock => n = 0 /\ u = "none" /\ s.backlog = 0

(* Before an end has begun its peer has nothing from it.                    *)
Unbegun(s, g, out) == s.tries = 0 => g.rdp \notin Live /\ out = {}
(* The invariant of acknowledgement and flow control.                       *)
FInv == \A e \in Ends :
  LET f == Peer(e) IN
  /\ Fresh(e, ep[e], sent[e], user[e], rcvd[e])
  /\ Unbegun(ep[e], ep[f], net[f])
  /\ Path(e, ep[e], ep[f], sent[e], rcvd[f], net[e])

(* Every position has a number.                                             *)
LEMMA NumberType == ASSUME Single, NEW e \in Ends, NEW a \in Int PROVE N(e, a) \in SeqNr
<1>1. Iss[e][1] + a \in Int
  BY SpanIs DEF SpanFacts
<1> QED
  BY <1>1, WrapType DEF N

(* csp_rdp_seq_before compares the positions of two numbers in the span.    *)
LEMMA NumberBefore ==
  ASSUME Single, NEW e \in Ends, NEW a, NEW b, InSpan(e, a), InSpan(e, b),
         a - b <= MaxSend[e] + 2 * Window + 1, b - a <= MaxSend[e] + 2 * Window + 1
  PROVE  SeqBefore(N(e, a), N(e, b)) <=> a < b
<1> DEFINE i == Iss[e][1]
           x == MaxSend[e]
           h == SeqSpace \div 2
<1>1. i \in SeqNr /\ SpanFacts(i, x) /\ h \in Nat /\ SeqSpace = 2 * h
  BY SpanIs, HalfIs
<1>2. /\ a \in Int /\ 0 - (2 * Window + 1) <= a /\ a <= x + 2 * Window + 1
      /\ b \in Int /\ 0 - (2 * Window + 1) <= b /\ b <= x + 2 * Window + 1
      /\ a - b <= x + 2 * Window + 1 /\ b - a <= x + 2 * Window + 1
  BY DEF InSpan
<1> HIDE DEF i, x, h
<1>3. /\ 0 - SeqSpace <= i + a /\ i + a < 2 * SeqSpace
      /\ 0 - SeqSpace <= i + b /\ i + b < 2 * SeqSpace
      /\ a - b < h /\ b - a <= h
  BY <1>1, <1>2 DEF SpanFacts
<1>4. SeqBefore(Wrap16(i + a), Wrap16(i + b)) <=> a < b
  BY <1>1, <1>2, <1>3, BeforeOffsets DEF h
<1> QED
  BY <1>4 DEF N, i

(* csp_rdp_seq_between finds the positions between two in the span.         *)
LEMMA NumberBetween ==
  ASSUME Single, NEW e \in Ends, NEW x \in SeqNr, NEW lo, NEW hi, InSpan(e, lo), InSpan(e, hi),
         lo <= hi, SeqBetween(x, N(e, lo), N(e, hi))
  PROVE  \E a \in lo .. hi : x = N(e, a)
<1> DEFINE i == Iss[e][1]
           y == MaxSend[e]
           c == Wrap16(i + lo)
           d == Wrap16(i + hi)
<1>1. i \in SeqNr /\ SpanFacts(i, y)
  BY SpanIs
<1>2. /\ lo \in Int /\ 0 - (2 * Window + 1) <= lo /\ lo <= y + 2 * Window + 1
      /\ hi \in Int /\ 0 - (2 * Window + 1) <= hi /\ hi <= y + 2 * Window + 1
  BY DEF InSpan
<1>0. SeqBetween(x, c, d)
  BY DEF N
<1> HIDE DEF y
<1>3. i + lo \in Int /\ c \in SeqNr
  BY <1>1, <1>2, WrapType DEF SpanFacts
<1>4. PICK k \in SeqNr : x = Wrap16(c + k)
  BY <1>3, OffsetExists
<1> HIDE DEF i
<1>5. /\ 0 - SeqSpace <= i + lo /\ i + lo < 2 * SeqSpace
      /\ 0 - SeqSpace <= i + hi /\ i + hi < 2 * SeqSpace
      /\ hi - lo \in Int /\ 0 <= hi - lo /\ hi - lo < SeqSpace /\ lo - hi < SeqSpace
  BY <1>1, <1>2 DEF SpanFacts
<1>6. Wrap16(d - c) = hi - lo
  <2>1. Wrap16(d - c) = Wrap16(hi - lo)
    BY <1>1, <1>2, <1>5, WrapMinus
  <2> DEFINE w == hi - lo
  <2>2. w \in Int /\ 0 <= w /\ w < SeqSpace /\ SeqSpace \in Nat
    BY <1>1, <1>5 DEF SpanFacts
  <2> HIDE DEF w, c, d
  <2>3. Wrap16(w) = w
    BY <2>2, WrapIs
  <2> QED
    BY <2>1, <2>3 DEF w
<1>7. k \in Int /\ 0 <= k /\ k < SeqSpace /\ c \in Int /\ 0 <= c /\ c < SeqSpace
  BY <1>1, <1>3 DEF SeqNr, SpanFacts
<1> HIDE DEF c, d
<1>8. Wrap16(x - c) = k
  <2>1. Wrap16(Wrap16(c + k) - Wrap16(c + 0)) = Wrap16(k - 0)
    <3>1. /\ 0 - SeqSpace <= c + k /\ c + k < 2 * SeqSpace
          /\ 0 - SeqSpace <= c + 0 /\ c + 0 < 2 * SeqSpace
          /\ k - 0 < SeqSpace /\ 0 - k < SeqSpace /\ 0 \in Int
      BY <1>1, <1>7 DEF SpanFacts
    <3> QED
      BY <1>3, <1>7, <3>1, WrapMinus
  <2>2. c + 0 = c /\ k - 0 = k
    BY <1>7
  <2>3. Wrap16(c) = c /\ Wrap16(k) = k
    <3>1. 0 - SeqSpace <= c /\ c < 2 * SeqSpace /\ 0 - SeqSpace <= k /\ k < 2 * SeqSpace
      BY <1>1, <1>7 DEF SpanFacts
    <3> QED
      BY <1>7, <3>1, WrapIs
  <2> QED
    BY <1>4, <2>1, <2>2, <2>3
<1>9. k <= hi - lo
  BY <1>0, <1>6, <1>7, <1>8 DEF SeqBetween
<1>10. x = Wrap16(i + (lo + k))
  <2>1. /\ 0 - SeqSpace <= i + lo + k /\ i + lo + k < 2 * SeqSpace
        /\ k <= SeqSpace /\ 0 - SeqSpace <= k /\ i + lo + k = i + (lo + k)
    BY <1>1, <1>2, <1>5, <1>7, <1>9 DEF SpanFacts
  <2>2. Wrap16(Wrap16(i + lo) + k) = Wrap16(i + lo + k)
    BY <1>1, <1>2, <1>5, <1>7, <2>1, WrapPlus
  <2> QED
    BY <1>4, <2>1, <2>2 DEF c
<1>11. lo + k \in lo .. hi
  BY <1>2, <1>7, <1>9
<1> QED
  BY <1>10, <1>11 DEF N, i

(* A number stands for one message.                                         *)
LEMMA MessageNumber ==
  ASSUME Single, NEW e \in Ends, NEW k \in Int, NEW j \in Int, 0 <= k, k <= MaxSend[e] + 1,
         0 <= j, j <= MaxSend[e] + 1, N(e, k) = N(e, j)
  PROVE  k = j
  BY MessageSpan, NumberEq

(* What becomes of the way to e when e moves from s to t.                   *)
LEMMA SenderSide ==
  ASSUME NEW e, NEW s, NEW t, NEW g, NEW n, NEW r, NEW M, NEW left, left \subseteq M,
         Path(e, s, g, n, r, M), t.rdp \in Live => s.rdp \in Live,
         t.rdp \in Live /\ g.rdp \in Going => t.una = s.una \/ Una(e, t, r),
         t.rdp \in Live /\ g.rdp \in Live =>
           \A k \in 1 .. n : (\E p \in s.tx : p.data = k) => (\E p \in t.tx : p.data = k) \/ Has(g, r, k)
  PROVE  Path(e, t, g, n, r, left)
<1>1. ASSUME t.rdp \in Live, g.rdp \in Going PROVE Una(e, t, r)
  <2>1. Una(e, s, r) \/ Una(e, t, r)
    BY <1>1 DEF Path
  <2>2. CASE t.una = s.una
    BY <2>1, <2>2 DEF Una
  <2> QED
    BY <1>1, <2>2
<1>2. ASSUME t.rdp \in Live, g.rdp \in Live PROVE Held(t, g, n, r)
  BY <1>2 DEF Path, Held
<1> QED
  BY <1>1, <1>2 DEF Path

(* What becomes of the way to f when e moves from s to t.                   *)
LEMMA ReceiverSide ==
  ASSUME NEW f, NEW h, NEW s, NEW t, NEW n \in Nat, NEW r \in Seq(Nat), NEW r2 \in Seq(Nat),
         Len(r) <= Len(r2), NEW M, NEW M2, NEW out, M2 \subseteq M \cup out,
         Path(f, h, s, n, r, M), t.rdp \in Live <=> s.rdp \in Live,
         t.rdp \in Going => s.rdp \in Going,
         t.rdp \in Going => \A k \in 1 .. n : Has(s, r, k) => Has(t, r2, k),
         t.rdp \in Going => \A x \in out : Answer(f, t, n, r2, x)
  PROVE  Path(f, h, t, n, r2, M2)
<1>0. Len(r) \in Nat /\ Len(r2) \in Nat
  BY LenProperties
<1>1. ASSUME t.rdp \in Going, NEW m \in M PROVE Answer(f, t, n, r2, m)
  <2>1. Answer(f, s, n, r, m)
    BY <1>1 DEF Path
  <2>2. 0 .. Len(r) \subseteq 0 .. Len(r2)
    BY <1>0
  <2>3. \A k \in 1 .. n : Has(s, r, k) => Has(t, r2, k)
    BY <1>1
  <2> QED
    BY <2>1, <2>2, <2>3 DEF Answer
<1>2. ASSUME h.rdp \in Live, t.rdp \in Going PROVE Una(f, h, r2)
  <2>1. Una(f, h, r)
    BY <1>2 DEF Path
  <2>2. 0 .. Len(r) + 1 \subseteq 0 .. Len(r2) + 1
    BY <1>0
  <2> QED
    BY <2>1, <2>2 DEF Una
<1>3. ASSUME h.rdp \in Live, t.rdp \in Live PROVE Held(h, t, n, r2)
  <2>1. Held(h, s, n, r) /\ t.rdp \in Going
    BY <1>3 DEF Path, Going
  <2>2. n <= Len(r2) + Window + 1
    BY <1>0, <2>1, WindowAssumption DEF Held
  <2> QED
    BY <2>1, <2>2 DEF Held
<1>4. ASSUME t.rdp \in Going, NEW m \in M2 PROVE Answer(f, t, n, r2, m)
  BY <1>1, <1>4
<1> QED
  BY <1>2, <1>3, <1>4 DEF Path

(* An end that gave up receives nothing more.                               *)
LEMMA ReceiverOver ==
  ASSUME NEW f, NEW h, NEW t, NEW n, NEW r, NEW M, t.rdp \notin Going
  PROVE  Path(f, h, t, n, r, M)
  BY DEF Path, Going, Live

(* An end that gave up sends nothing more.                                  *)
LEMMA SenderOver ==
  ASSUME NEW e, NEW s, NEW t, NEW g, NEW n, NEW r, NEW M, NEW left, left \subseteq M,
         Path(e, s, g, n, r, M), t.rdp \notin Live
  PROVE  Path(e, t, g, n, r, left)
  BY DEF Path

(* The invariant after a step, spelled out.                                 *)
LEMMA FInvNext ==
  ASSUME \A e \in Ends :
           /\ Fresh(e, ep'[e], sent'[e], user'[e], rcvd'[e])
           /\ Unbegun(ep'[e], ep'[Peer(e)], net'[Peer(e)])
           /\ Path(e, ep'[e], ep'[Peer(e)], sent'[e], rcvd'[Peer(e)], net'[e])
  PROVE  FInv'
  BY DEF FInv, Fresh, Unbegun, Path, Answer, Una, Held, Has, Early

(* A step of e, seen from both ways.                                        *)
Apart(e) == /\ ep'[Peer(e)] = ep[Peer(e)] /\ user'[Peer(e)] = user[Peer(e)]
            /\ sent'[Peer(e)] = sent[Peer(e)] /\ rcvd'[Peer(e)] = rcvd[Peer(e)]
            /\ net'[e] \subseteq net[e]

(* A step of e that keeps both ways keeps the invariant.                    *)
LEMMA FlowMove ==
  ASSUME FInv, NEW e \in Ends, Apart(e),
         Fresh(e, ep'[e], sent'[e], user'[e], rcvd'[e]),
         Unbegun(ep'[e], ep[Peer(e)], net'[Peer(e)]),
         ep[Peer(e)].tries = 0 => ep'[e].rdp \notin Live,
         Path(e, ep'[e], ep[Peer(e)], sent'[e], rcvd[Peer(e)], net'[e]),
         Path(Peer(e), ep[Peer(e)], ep'[e], sent[Peer(e)], rcvd'[e], net'[Peer(e)])
  PROVE  FInv'
<1> DEFINE f == Peer(e)
<1>1. f \in Ends /\ Peer(f) = e /\ \A d \in Ends : d = e \/ d = f
  BY PeerIs
<1>2. Fresh(f, ep[f], sent[f], user[f], rcvd[f]) /\ Unbegun(ep[f], ep[e], net[e])
  BY <1>1 DEF FInv
<1>3. Unbegun(ep[f], ep'[e], net'[e])
  BY <1>2 DEF Unbegun, Apart
<1> HIDE DEF f
<1>4. /\ Fresh(f, ep'[f], sent'[f], user'[f], rcvd'[f])
      /\ Unbegun(ep'[f], ep'[Peer(f)], net'[Peer(f)])
      /\ Path(f, ep'[f], ep'[Peer(f)], sent'[f], rcvd'[Peer(f)], net'[f])
  BY <1>1, <1>2, <1>3 DEF Apart, f
<1>5. /\ Unbegun(ep'[e], ep'[f], net'[f])
      /\ Path(e, ep'[e], ep'[f], sent'[e], rcvd'[f], net'[e])
  BY DEF Apart, f
<1> QED
  BY <1>1, <1>4, <1>5, FInvNext DEF f

(* So does one after which e has given up.                                  *)
LEMMA OverMove ==
  ASSUME FInv, NEW e \in Ends, Apart(e), ep'[e].rdp \notin Going, ep'[e].tries # 0,
         sent'[e] = sent[e]
  PROVE  FInv'
<1> DEFINE f == Peer(e)
           t == ep'[e]
<1>1. f \in Ends /\ Peer(f) = e
  BY PeerIs
<1>2. Path(e, ep[e], ep[f], sent[e], rcvd[f], net[e]) /\ t.rdp \notin Live /\ net'[e] \subseteq net[e]
  BY DEF FInv, Apart, Going
<1>3. Path(e, t, ep[f], sent'[e], rcvd[f], net'[e])
  BY <1>2, SenderOver
<1>4. Path(f, ep[f], t, sent[f], rcvd'[e], net'[f])
  BY ReceiverOver
<1>5. Fresh(e, t, sent'[e], user'[e], rcvd'[e])
  BY DEF Fresh, Going
<1>6. Unbegun(t, ep[f], net'[f])
  BY DEF Unbegun
<1> HIDE DEF t
<1> QED
  BY <1>2, <1>3, <1>4, <1>5, <1>6, FlowMove DEF t

(* An acknowledgement stays right while the rx_queue stays.                 *)
LEMMA AnswerSame ==
  ASSUME NEW f, NEW s, NEW t, NEW n, NEW r, NEW x, Answer(f, s, n, r, x), t.rx = s.rx,
         s.rdp \in Live => t.rdp \in Live
  PROVE  Answer(f, t, n, r, x)
  BY DEF Answer, Has

(* An acknowledgement of rcv_cur is right.                                  *)
LEMMA PlainAnswer ==
  ASSUME NEW e \in Ends, NEW s, NEW r \in Seq(Nat), NEW n, Receiver(e, s, r, n),
         s.rdp \in Live, NEW x, x.ack = s.cur, x.eacks = {}, "RST" \notin x.flags
  PROVE  Answer(Peer(e), s, n, r, x)
<1>1. s.cur = N(Peer(e), Len(r))
  BY DEF Receiver, InStep
<1>2. Len(r) \in 0 .. Len(r)
  BY LenProperties
<1> QED
  BY <1>1, <1>2 DEF Answer

(* So are all the answers of the handlers.                                  *)
LEMMA RepliesAnswer ==
  ASSUME NEW e \in Ends, NEW s, NEW r \in Seq(Nat), NEW n, NEW k, NEW u,
         Receiver(e, s, r, n), Sender(e, s, k), Fresh(e, s, k, u, r), s.rdp \in Going
  PROVE  /\ Answer(Peer(e), s, n, r, PureAck(s))
         /\ Answer(Peer(e), s, n, r, Rst(s))
         /\ s.rdp \in Live => Answer(Peer(e), s, n, r, Eack(s)) /\ Answer(Peer(e), s, n, r, SynAck(s))
<1> DEFINE f == Peer(e)
<1>1. Answer(f, s, n, r, Rst(s))
  BY DEF Answer, Rst, Packet
<1>2. Answer(f, s, n, r, PureAck(s))
  <2>1. CASE s.rdp \in Live
    <3>1. PureAck(s).ack = s.cur /\ PureAck(s).eacks = {} /\ "RST" \notin PureAck(s).flags
      BY DEF PureAck, Packet
    <3> QED
      BY <2>1, <3>1, PlainAnswer
  <2>2. CASE s.rdp = "SYN_SENT"
    <3>1. e = "client" /\ k = 0 /\ s.cur = 0 /\ s.nxt = N(e, 0 + 1) /\ Peer(f) = e /\ 0 + 1 = 1
      BY <2>2, PeerIs DEF Sender, Fresh, Going
    <3> QED
      BY <3>1 DEF Answer, Early, PureAck, Packet
  <2> QED
    BY <2>1, <2>2 DEF Going
<1>3. ASSUME s.rdp \in Live PROVE Answer(f, s, n, r, Eack(s))
  <2>1. /\ s.cur = N(f, Len(r)) /\ Len(r) \in 0 .. Len(r)
        /\ \A p \in s.rx : p.data \in 1 .. n /\ p.seq = N(f, p.data)
    BY <1>3, LenProperties DEF Receiver, InStep
  <2>2. \A x \in {p.seq : p \in s.rx} : \E j \in 1 .. n : x = N(f, j) /\ Has(s, r, j)
    BY <2>1 DEF Has
  <2> QED
    BY <1>3, <2>1, <2>2 DEF Answer, Eack, Packet
<1>4. ASSUME s.rdp \in Live PROVE Answer(f, s, n, r, SynAck(s))
  <2>1. s.irs = N(f, 0) /\ 0 \in 0 .. Len(r)
    BY <1>4, LenProperties DEF Receiver, InStep
  <2> QED
    BY <1>4, <2>1 DEF Answer, SynAck, Packet
<1> QED
  BY <1>1, <1>2, <1>3, <1>4

(* And a retransmission, which acknowledges what the end has now.           *)
LEMMA CopyAnswers ==
  ASSUME NEW e \in Ends, NEW r \in Seq(Nat), NEW n, NEW k,
         Receiver(e, ep[e], r, n), Sender(e, ep[e], k), ep[e].rdp \in Going, NEW p \in ep[e].tx
  PROVE  Answer(Peer(e), ep[e], n, r, Copy(e, p))
<1> DEFINE s == ep[e]
           x == Copy(e, p)
<1>1. x.ack = s.cur /\ x.eacks = {} /\ "RST" \notin x.flags
  BY DEF Copy, Packet, SynFlags
<1>2. CASE s.rdp \in Live
  BY <1>1, <1>2, PlainAnswer
<1>3. CASE s.rdp = "SYN_SENT"
  <2>1. e = "client" /\ k = 0 /\ p.syn
    BY <1>3 DEF Sender
  <2>2. "ACK" \notin x.flags
    BY <2>1 DEF Copy, Packet, SynFlags
  <2> QED
    BY <2>2 DEF Answer
<1> QED
  BY <1>2, <1>3 DEF Going

(* What is known of e and its peer before a step.                           *)
Before(e) ==
  LET f == Peer(e) IN
  /\ f \in Ends /\ Peer(f) = e /\ f # e
  /\ ep[e] \in ConnType /\ ep[f] \in ConnType
  /\ sent[e] \in Nat /\ sent[f] \in Nat /\ sent[e] <= MaxSend[e] /\ sent[f] <= MaxSend[f]
  /\ rcvd[e] \in Seq(Nat) /\ rcvd[f] \in Seq(Nat)
  /\ Sender(e, ep[e], sent[e]) /\ Receiver(e, ep[e], rcvd[e], sent[f])
  /\ Sender(f, ep[f], sent[f]) /\ Receiver(f, ep[f], rcvd[f], sent[e])
  /\ Fresh(e, ep[e], sent[e], user[e], rcvd[e])
  /\ Fresh(f, ep[f], sent[f], user[f], rcvd[f])
  /\ Unbegun(ep[e], ep[f], net[f]) /\ Unbegun(ep[f], ep[e], net[e])
  /\ Path(e, ep[e], ep[f], sent[e], rcvd[f], net[e])
  /\ Path(f, ep[f], ep[e], sent[f], rcvd[e], net[f])

(* This follows from the invariants.                                        *)
LEMMA BeforeIs == ASSUME AInv, SInv, FInv, NEW e \in Ends PROVE Before(e)
<1> DEFINE f == Peer(e)
<1>1. f \in Ends /\ Peer(f) = e /\ f # e
  BY PeerIs
<1>2. /\ ep[e] \in ConnType /\ ep[f] \in ConnType
      /\ sent[e] \in Nat /\ sent[f] \in Nat /\ sent[e] <= MaxSend[e] /\ sent[f] <= MaxSend[f]
      /\ rcvd[e] \in Seq(Nat) /\ rcvd[f] \in Seq(Nat)
  BY <1>1 DEF AInv, Types
<1>3. /\ Sender(e, ep[e], sent[e]) /\ Receiver(e, ep[e], rcvd[e], sent[f])
      /\ Sender(f, ep[f], sent[f]) /\ Receiver(f, ep[f], rcvd[f], sent[e])
  BY <1>1 DEF SInv
<1>4. /\ Fresh(e, ep[e], sent[e], user[e], rcvd[e])
      /\ Unbegun(ep[e], ep[f], net[f])
      /\ Path(e, ep[e], ep[f], sent[e], rcvd[f], net[e])
  BY DEF FInv
<1>5. /\ Fresh(f, ep[f], sent[f], user[f], rcvd[f])
      /\ Unbegun(ep[f], ep[Peer(f)], net[Peer(f)])
      /\ Path(f, ep[f], ep[Peer(f)], sent[f], rcvd[Peer(f)], net[f])
  BY <1>1 DEF FInv
<1> HIDE DEF f
<1> QED
  BY <1>1, <1>2, <1>3, <1>4, <1>5 DEF Before, f

(* A step of e that accepts no message and loses none.                      *)
Same(s, t) == /\ t.tries = s.tries /\ t.cur = s.cur /\ t.rx = s.rx
              /\ t.sock = s.sock /\ t.backlog = s.backlog
              /\ t.rdp = s.rdp \/ (s.rdp \in Live /\ t.rdp = "OPEN")

(* It keeps the invariant if its acknowledgements and tx_queue are right.   *)
LEMMA SameMove ==
  ASSUME FInv, NEW e \in Ends, Before(e), Apart(e), Same(ep[e], ep'[e]),
         sent'[e] = sent[e], rcvd'[e] = rcvd[e],
         user'[e] = user[e] \/ user[e] # "none",
         ep[e].rdp \in Live /\ ep[Peer(e)].rdp \in Going =>
           ep'[e].una = ep[e].una \/ Una(e, ep'[e], rcvd[Peer(e)]),
         ep[e].rdp \in Live /\ ep[Peer(e)].rdp \in Live =>
           \A k \in 1 .. sent[e] : (\E p \in ep[e].tx : p.data = k) =>
             (\E p \in ep'[e].tx : p.data = k) \/ Has(ep[Peer(e)], rcvd[Peer(e)], k),
         NEW out, net'[Peer(e)] \subseteq net[Peer(e)] \cup out,
         out = {} \/ ep[e].rdp # "CLOSED",
         ep[e].rdp \in Going => \A x \in out : Answer(Peer(e), ep[e], sent[Peer(e)], rcvd[e], x)
  PROVE  FInv'
<1> DEFINE f == Peer(e)
           s == ep[e]
           t == ep'[e]
           g == ep[f]
<1>1. t.rdp \in Live <=> s.rdp \in Live
  BY DEF Same, Live
<1>2. t.rdp \in Going <=> s.rdp \in Going
  BY <1>1 DEF Same, Going, Live
<1>3. net'[e] \subseteq net[e]
  BY DEF Apart
<1>4. /\ Path(e, s, g, sent[e], rcvd[f], net[e]) /\ Path(f, g, s, sent[f], rcvd[e], net[f])
      /\ sent[f] \in Nat /\ rcvd[e] \in Seq(Nat) /\ Len(rcvd[e]) <= Len(rcvd[e])
      /\ Fresh(e, s, sent[e], user[e], rcvd[e]) /\ Unbegun(s, g, net[f]) /\ Unbegun(g, s, net[e])
  BY LenProperties DEF Before
<1>5. Path(e, t, g, sent'[e], rcvd[f], net'[e])
  <2> HIDE DEF t, s, g, f
  <2>1. /\ t.rdp \in Live => s.rdp \in Live
        /\ t.rdp \in Live /\ g.rdp \in Going => t.una = s.una \/ Una(e, t, rcvd[f])
        /\ t.rdp \in Live /\ g.rdp \in Live =>
             \A k \in 1 .. sent[e] : (\E p \in s.tx : p.data = k) =>
                (\E p \in t.tx : p.data = k) \/ Has(g, rcvd[f], k)
    BY <1>1 DEF t, s, g, f
  <2> QED
    BY <1>3, <1>4, <2>1, SenderSide
<1>6. Path(f, g, t, sent[f], rcvd'[e], net'[f])
  <2>1. \A k \in 1 .. sent[f] : Has(s, rcvd[e], k) => Has(t, rcvd[e], k)
    BY DEF Has, Same
  <2>2. t.rdp \in Going => \A x \in out : Answer(f, t, sent[f], rcvd[e], x)
    BY <1>1, <1>2, AnswerSame DEF Same
  <2> HIDE DEF t, s, g
  <2>3. Path(f, g, t, sent[f], rcvd[e], net'[f])
    BY <1>1, <1>2, <1>4, <2>1, <2>2, ReceiverSide
  <2> QED
    BY <2>3
<1>7. Fresh(e, t, sent'[e], user'[e], rcvd'[e])
  BY <1>1, <1>2, <1>4 DEF Fresh, Same, Live
<1>8. Unbegun(t, g, net'[f])
  BY <1>4 DEF Unbegun, Same, Before, Fresh
<1>9. g.tries = 0 => t.rdp \notin Live
  BY <1>1, <1>4 DEF Unbegun
<1> HIDE DEF t, g, s, f
<1> QED
  BY <1>5, <1>6, <1>7, <1>8, <1>9, FlowMove DEF t, g, f

(* The early ACK of a client that has not heard the server: its number 0 is  *)
(* taken for an acknowledgement when it happens to be in range.             *)
LEMMA EarlyAck ==
  ASSUME Single, NEW e \in Ends, Before(e), NEW m, Early(Peer(e), m),
         Answered(ep[e], m), ep[Peer(e)].rdp \in Going, NEW t, t.una = Wrap16(m.ack + 1),
         Una(e, ep[e], rcvd[Peer(e)])
  PROVE  Una(e, t, rcvd[Peer(e)])
<1> DEFINE f == Peer(e)
           s == ep[e]
           p == Len(rcvd[e])
           b == MaxSend[f]
           x == MaxSend[e]
           q == Len(rcvd[f])
<1>1. f = "client" /\ e = "server" /\ f \in Ends /\ m.seq = N(f, 1) /\ m.ack = 0 /\ s.rdp \in Live
  BY DEF Early, Before, Peer, Ends, Answered, Live
<1>2. /\ Receiver(e, s, rcvd[e], sent[f]) /\ sent[f] \in Nat /\ sent[f] <= b /\ rcvd[e] \in Seq(Nat)
      /\ Receiver(f, ep[f], rcvd[f], sent[e]) /\ rcvd[f] \in Seq(Nat) /\ sent[e] \in Nat
      /\ Sender(e, s, sent[e]) /\ Fresh(e, s, sent[e], user[e], rcvd[e])
  BY DEF Before
<1>3. s.cur = N(f, p) /\ p \in Nat /\ p <= sent[f]
  BY <1>1, <1>2, LenProperties DEF Receiver, InStep
<1>4. SpanFacts(Iss[f][1], b) /\ SpanFacts(Iss[e][1], x)
  BY <1>1, SpanIs
<1>5. p = 0
  <2> HIDE DEF p, b, f
  <2>1. p \in Int /\ 0 <= p /\ p <= b
    BY <1>2, <1>3, <1>4 DEF SpanFacts
  <2>2. /\ InSpan(f, p) /\ InSpan(f, p + 1) /\ InSpan(f, p + 2 * Window) /\ InSpan(f, 1)
        /\ p + 1 <= p + 2 * Window
    BY <1>4, <2>1 DEF SpanFacts, InSpan, b
  <2>3. Wrap16(s.cur + 1) = N(f, p + 1) /\ Wrap16(s.cur + 2 * Window) = N(f, p + 2 * Window)
    <3> DEFINE w == 2 * Window
    <3>1. /\ w \in Int /\ 0 - (2 * Window + 1) <= w /\ w <= 2 * Window + 1
          /\ 0 - (2 * Window + 1) <= 1 /\ 1 <= 2 * Window + 1
      BY <1>4 DEF SpanFacts
    <3> HIDE DEF w
    <3>2. Wrap16(N(f, p) + 1) = N(f, p + 1) /\ Wrap16(N(f, p) + w) = N(f, p + w)
      BY <1>1, <2>2, <3>1, NumberPlus
    <3> QED
      BY <1>3, <3>2 DEF w
  <2>4. SeqBetween(N(f, 1), N(f, p + 1), N(f, p + 2 * Window))
    BY <1>1, <2>3 DEF Answered
  <2>5. N(f, 1) \in SeqNr
    BY <1>1, NumberType
  <2>6. PICK a \in p + 1 .. p + 2 * Window : N(f, 1) = N(f, a)
    BY <1>1, <2>2, <2>4, <2>5, NumberBetween
  <2>7. InSpan(f, a)
    BY <1>4, <2>1, <2>6 DEF SpanFacts, InSpan, b
  <2>8. a = 1
    BY <1>1, <2>2, <2>6, <2>7, NumberEq
  <2> QED
    BY <1>4, <2>1, <2>6, <2>8 DEF SpanFacts
<1>6. rcvd[e] = <<>> /\ s.sock /\ sent[e] = 0 /\ q = 0 /\ s.nxt = N(e, 1)
  <2>1. rcvd[e] = <<>>
    BY <1>2, <1>5, EmptySeq
  <2>2. s.sock /\ sent[e] = 0
    BY <1>1, <1>2, <2>1 DEF Fresh, Going
  <2>3. q <= 0 /\ q \in Nat
    BY <1>2, <2>2, LenProperties DEF Receiver
  <2>4. s.nxt = N(e, 0 + 1)
    BY <1>1, <1>2, <2>2 DEF Sender, Going
  <2> QED
    BY <2>1, <2>2, <2>3, <2>4
<1>7. t.una = 1
  <2>1. Wrap16(0 + 1) = 1
    BY SeqSpaceAssumption, WrapIs
  <2> QED
    BY <1>1, <2>1
<1>8. CASE \E u \in 0 .. q + 1 : s.una = N(e, u)
  <2>1. PICK u \in 0 .. 1 : s.una = N(e, u)
    BY <1>6, <1>8
  <2>2. u \in Int /\ 0 <= u /\ u <= 1 /\ InSpan(e, u) /\ InSpan(e, 1) /\ InSpan(e, 0)
    BY <1>4, <2>1 DEF SpanFacts, InSpan
  <2>3. Wrap16(s.una - 1 - 2 * Window) = N(e, u - (2 * Window + 1))
    <3> DEFINE w == 0 - (2 * Window + 1)
    <3>1. w \in Int /\ 0 - (2 * Window + 1) <= w /\ w <= 2 * Window + 1
      BY <1>4 DEF SpanFacts
    <3>2. N(e, u) \in Int
      BY <2>2, NumberType DEF SeqNr
    <3>3. N(e, u) + w = N(e, u) - 1 - 2 * Window /\ u + w = u - (2 * Window + 1)
      BY <1>4, <2>2, <3>2 DEF SpanFacts
    <3> HIDE DEF w
    <3>4. Wrap16(N(e, u) + w) = N(e, u + w)
      BY <2>2, <3>1, NumberPlus
    <3> QED
      BY <2>1, <3>3, <3>4
  <2>4. Wrap16(s.nxt - 1) = N(e, 0)
    <3> DEFINE w == 0 - 1
    <3>1. w \in Int /\ 0 - (2 * Window + 1) <= w /\ w <= 2 * Window + 1
      BY <1>4 DEF SpanFacts
    <3>2. N(e, 1) \in Int
      BY NumberType DEF SeqNr
    <3>3. N(e, 1) + w = N(e, 1) - 1 /\ 1 + w = 0
      BY <3>2
    <3> HIDE DEF w
    <3>4. Wrap16(N(e, 1) + w) = N(e, 1 + w)
      BY <2>2, <3>1, NumberPlus
    <3> QED
      BY <1>6, <3>3, <3>4
  <2> DEFINE lo == u - (2 * Window + 1)
  <2>5. InSpan(e, lo) /\ lo <= 0 /\ lo \in Int /\ 0 - (2 * Window + 1) <= lo
    BY <1>4, <2>2 DEF SpanFacts, InSpan
  <2>6. SeqBetween(0, N(e, lo), N(e, 0)) /\ 0 \in SeqNr
    BY <1>1, <2>3, <2>4, SeqSpaceAssumption DEF Answered, AckInRange, SeqNr
  <2> HIDE DEF lo
  <2>7. PICK a \in lo .. 0 : 0 = N(e, a)
    BY <2>2, <2>5, <2>6, NumberBetween
  <2>8. a \in Int /\ lo <= a /\ a <= 0 /\ InSpan(e, a)
    BY <1>4, <2>5, <2>7 DEF SpanFacts, InSpan
  <2>9. N(e, a + 1) = 1
    <3>1. 0 - (2 * Window + 1) <= 1 /\ 1 <= 2 * Window + 1
      BY <1>4 DEF SpanFacts
    <3>2. Wrap16(N(e, a) + 1) = N(e, a + 1)
      BY <2>8, <3>1, NumberPlus
    <3>3. Wrap16(0 + 1) = 1
      BY SeqSpaceAssumption, WrapIs
    <3> QED
      BY <2>7, <3>2, <3>3
  <2>10. a + 1 = 1 \/ a + 1 \in 0 - 2 * Window .. 0
    BY <1>4, <2>5, <2>8 DEF SpanFacts
  <2>11. CASE a + 1 = 1
    <3>1. t.una = N(e, 1) /\ 1 \in 0 .. q + 1
      BY <1>6, <1>7, <2>9, <2>11
    <3> QED
      BY <3>1 DEF Una
  <2>12. CASE a + 1 \in 0 - 2 * Window .. 0
    BY <1>1, <1>7, <2>9, <2>12 DEF Una
  <2> QED
    BY <2>10, <2>11, <2>12
<1>9. CASE e = "server" /\ s.una = 1 /\ \E u \in 0 - 2 * Window .. 0 : N(e, u) = 1
  BY <1>7, <1>9 DEF Una
<1> QED
  BY <1>8, <1>9 DEF Una

(* Any acknowledgement that is let in says what the peer received.          *)
LEMMA AckFlow ==
  ASSUME Single, NEW e \in Ends, Before(e), NEW m \in net[e], Answered(ep[e], m),
         ep[Peer(e)].rdp \in Going, NEW t, t.una = Wrap16(m.ack + 1)
  PROVE  Una(e, t, rcvd[Peer(e)])
<1> DEFINE f == Peer(e)
           q == Len(rcvd[f])
<1>1. /\ Answer(e, ep[f], sent[e], rcvd[f], m) /\ "ACK" \in m.flags /\ Una(e, ep[e], rcvd[f])
      /\ rcvd[f] \in Seq(Nat) /\ q <= sent[e] /\ sent[e] \in Nat /\ sent[e] <= MaxSend[e]
  BY DEF Before, Path, Answered, Live, Receiver
<1>2. CASE Early(f, m)
  BY <1>1, <1>2, EarlyAck
<1>3. CASE \E j \in 0 .. q : m.ack = N(e, j)
  <2>1. PICK j \in 0 .. q : m.ack = N(e, j)
    BY <1>3
  <2>2. q \in Nat /\ MaxSend[e] \in Nat
    BY <1>1, LenProperties, LoadAssumption
  <2>3. j \in Int /\ 0 <= j /\ j <= MaxSend[e] + 1 /\ j + 1 \in 0 .. q + 1
    <3> DEFINE b == MaxSend[e]
    <3> HIDE DEF b, q
    <3>1. j \in Int /\ 0 <= j /\ j <= b + 1 /\ j + 1 \in 0 .. q + 1
      BY <1>1, <2>1, <2>2 DEF b
    <3> QED
      BY <3>1 DEF b
  <2>4. t.una = N(e, j + 1)
    BY <2>1, <2>3, NumberNext
  <2> QED
    BY <2>3, <2>4 DEF Una
<1> QED
  BY <1>1, <1>2, <1>3 DEF Answer

(* A packet for e has been handled: what every outcome has in common.       *)
Handled(e, m, r) ==
  /\ m \in net[e] /\ m \in Messages /\ r \in ResultType
  /\ Apart(e) /\ ep'[e] = r.s /\ net'[Peer(e)] \subseteq net[Peer(e)] \cup r.out
  /\ sent' = sent /\ user' = user /\ rcvd'[e] = rcvd[e] \o r.data
  /\ ep[e].rdp # "CLOSED"

(* A RESET out of order.                                                    *)
LEMMA ResetHeardFlow ==
  ASSUME FInv, NEW e \in Ends, Before(e), NEW m, NEW r, Handled(e, m, r), ResetHeard(ep[e], m, r)
  PROVE  FInv'
<1> DEFINE f == Peer(e)
<1>1. rcvd'[e] = rcvd[e] /\ net'[f] \subseteq net[f] \cup r.out
      /\ r.out = {} /\ \A x \in r.out : Answer(f, ep[e], sent[f], rcvd[e], x)
  BY AppNothing DEF Handled, ResetHeard, Before
<1>2. ASSUME ep[e].rdp \in Live, ep[f].rdp \in Going PROVE ep'[e].una = ep[e].una
  BY <1>2 DEF Handled, ResetHeard, Before, Path, Answer
<1>3. Same(ep[e], ep'[e]) /\ ep'[e].tx = ep[e].tx /\ Apart(e) /\ sent'[e] = sent[e] /\ user'[e] = user[e]
  BY DEF Handled, ResetHeard, Stays, SameNames, SamePlace, SameIn, Same
<1> HIDE DEF f
<1> QED
  BY <1>1, <1>2, <1>3, SameMove DEF f

(* A packet that closes the connection.                                     *)
LEMMA OverFlow ==
  ASSUME FInv, NEW e \in Ends, Before(e), NEW m, NEW r, Handled(e, m, r),
         Closing(ep[e], m, r) \/ Ending(ep[e], m, r)
  PROVE  FInv'
<1>1. ep'[e].rdp \notin Going /\ ep'[e].tries # 0
  BY DEF Handled, Closing, Ending, Half, Shut, SameNames, Going, Live, Before, Fresh
<1> QED
  BY <1>1, OverMove DEF Handled

(* A packet that is refused.                                                *)
LEMMA NoticedFlow ==
  ASSUME FInv, NEW e \in Ends, Before(e), NEW m, NEW r, Handled(e, m, r), Noticed(ep[e], m, r)
  PROVE  FInv'
<1> DEFINE f == Peer(e)
<1>1. rcvd'[e] = rcvd[e] /\ net'[f] \subseteq net[f] \cup r.out /\ ep[e].rdp \in Going
  BY AppNothing DEF Handled, Noticed, Before, Going, Live
<1>2. \A x \in r.out : Answer(f, ep[e], sent[f], rcvd[e], x)
  <2>1. /\ Answer(f, ep[e], sent[f], rcvd[e], Rst(ep[e]))
        /\ ep[e].rdp \in Live => /\ Answer(f, ep[e], sent[f], rcvd[e], Eack(ep[e]))
                                 /\ Answer(f, ep[e], sent[f], rcvd[e], SynAck(ep[e]))
    BY <1>1, RepliesAnswer DEF Before
  <2> QED
    BY <2>1 DEF Noticed, Live
<1>3. /\ Same(ep[e], ep'[e]) /\ ep'[e].tx = ep[e].tx /\ ep'[e].una = ep[e].una
      /\ Apart(e) /\ sent'[e] = sent[e] /\ user'[e] = user[e] /\ ep[e].rdp # "CLOSED"
  BY DEF Handled, Noticed, Stays, SameNames, SamePlace, SameIn, Same
<1> HIDE DEF f
<1> QED
  BY <1>1, <1>2, <1>3, SameMove DEF f

(* An acknowledgement: flush_eack forgets only what the list says was received. *)
LEMMA PrunedFlow ==
  ASSUME Single, FInv, NEW e \in Ends, Before(e), NEW m, NEW r, Handled(e, m, r), Pruned(ep[e], m, r)
  PROVE  FInv'
<1> DEFINE f == Peer(e)
           s == ep[e]
           t == ep'[e]
           g == ep[f]
<1>1. /\ rcvd'[e] = rcvd[e] /\ net'[f] \subseteq net[f] \cup r.out /\ Answered(s, m) /\ Opened(s, m, t)
      /\ r.out = {} /\ \A x \in r.out : Answer(f, s, sent[f], rcvd[e], x)
  BY AppNothing DEF Handled, Pruned, Before
<1>2. ASSUME g.rdp \in Going PROVE Una(e, t, rcvd[f])
  BY <1>1, <1>2, AckFlow DEF Handled, Opened
<1>3. ASSUME s.rdp \in Live, g.rdp \in Live, NEW k \in 1 .. sent[e], NEW p \in s.tx, p.data = k
      PROVE  (\E x \in t.tx : x.data = k) \/ Has(g, rcvd[f], k)
  <2>1. CASE p \in t.tx
    BY <1>3, <2>1
  <2>2. CASE p \notin t.tx
    <3>1. p.seq \in m.eacks /\ "ACK" \in m.flags /\ m \in net[e]
      BY <1>3, <2>2 DEF Handled, Pruned, Answered
    <3>2. Answer(e, g, sent[e], rcvd[f], m)
      BY <1>3, <3>1 DEF Before, Path, Going
    <3>3. PICK j \in 1 .. sent[e] : p.seq = N(e, j) /\ Has(g, rcvd[f], j)
      BY <3>1, <3>2 DEF Answer
    <3>4. p.seq = N(e, k)
      <4>1. k # NULL
        BY NullAssumption, <1>3 DEF Before
      <4> QED
        BY <1>3, <4>1 DEF Before, Sender
    <3>5. k = j
      <4>1. k \in Int /\ j \in Int /\ 0 <= k /\ k <= MaxSend[e] + 1 /\ 0 <= j /\ j <= MaxSend[e] + 1
        <5> DEFINE b == MaxSend[e]
                   n == sent[e]
        <5>1. b \in Nat /\ n \in Nat /\ n <= b /\ k \in 1 .. n /\ j \in 1 .. n
          BY <3>3, LoadAssumption DEF Before
        <5> HIDE DEF b, n
        <5>2. k \in Int /\ j \in Int /\ 0 <= k /\ k <= b + 1 /\ 0 <= j /\ j <= b + 1
          BY <5>1
        <5> QED
          BY <5>2 DEF b
      <4> QED
        BY <3>3, <3>4, <4>1, MessageNumber
    <3> QED
      BY <3>3, <3>5
  <2> QED
    BY <2>1, <2>2
<1>4. /\ Same(s, t) /\ Apart(e) /\ sent'[e] = sent[e] /\ user'[e] = user[e]
  BY DEF Handled, Pruned, Answered, Opened, SameNames, SamePlace, SameIn, Same, Live
<1> HIDE DEF f, t, s, g
<1> QED
  BY <1>1, <1>2, <1>3, <1>4, SameMove DEF f, t, s, g

(* With a reader that keeps up no socket meets a full queue.                *)
LEMMA FullFlow ==
  ASSUME NEW e \in Ends, Before(e), NEW m, NEW r
  PROVE  ~Full(ep[e], m, r)
<1> SUFFICES ASSUME Full(ep[e], m, r) PROVE FALSE
  OBVIOUS
<1>1. ep[e].rdp \in Going /\ ep[e].sock /\ Len(ep[e].app) = RxCap
  BY DEF Full, Answered, Going, Live
<1>2. rcvd[e] = <<>> /\ Len(ep[e].app) <= Len(rcvd[e])
  BY <1>1 DEF Before, Fresh, Receiver
<1>3. RxCap <= 0 /\ RxCap > 2 * Window /\ Window \in Nat \ {0} /\ RxCap \in Nat
  BY <1>1, <1>2, EmptySeq, CapAssumption, WindowAssumption
<1> QED
  BY <1>3

(* The client learns the numbers of the server.                             *)
LEMMA JoinedFlow ==
  ASSUME Single, FInv, NEW e \in Ends, Before(e), NEW m, NEW r, Handled(e, m, r),
         Carried(Peer(e), m, sent[Peer(e)]), Joined(ep[e], m, r)
  PROVE  FInv'
<1> DEFINE f == Peer(e)
           s == ep[e]
           t == ep'[e]
           g == ep[f]
<1>1. /\ rcvd'[e] = rcvd[e] /\ net'[f] \subseteq net[f] \cup r.out /\ r.out = {}
      /\ sent'[e] = sent[e] /\ user'[e] = user[e] /\ net'[e] \subseteq net[e]
      /\ m \in net[e] /\ t = r.s
  BY AppNothing DEF Handled, Joined, Before, Apart
<1>2. /\ s.rdp = "SYN_SENT" /\ t.rdp = "OPEN" /\ t.tries = s.tries /\ t.tx = s.tx /\ t.rx = s.rx
      /\ t.sock = s.sock /\ t.una = Wrap16(m.ack + 1) /\ {"SYN", "ACK"} \subseteq m.flags
  BY <1>1 DEF Joined, SamePlace
<1>3. /\ e = "client" /\ sent[e] = 0 /\ s.tries # 0 /\ s.rdp \in Going /\ ~s.sock /\ rcvd[e] = <<>>
      /\ f = "server"
  BY <1>2 DEF Before, Sender, Receiver, Fresh, Going, Peer
<1>4. g.tries # 0
  BY <1>1 DEF Before, Unbegun
<1>5. Len(rcvd[f]) = 0 /\ rcvd[f] = <<>> /\ Len(rcvd[e]) = 0
  <2>1. Len(rcvd[f]) <= 0 /\ Len(rcvd[f]) \in Nat
    BY <1>3, LenProperties DEF Before, Receiver
  <2>2. Len(rcvd[f]) = 0
    BY <2>1
  <2> QED
    BY <1>3, <2>2, EmptySeq DEF Before
<1>6. Fresh(e, t, sent'[e], user'[e], rcvd'[e])
  BY <1>1, <1>2, <1>3 DEF Fresh, Live
<1>7. Unbegun(t, g, net'[f])
  BY <1>2, <1>3 DEF Unbegun
<1>8. Path(e, t, g, sent'[e], rcvd[f], net'[e])
  <2>1. Path(e, s, g, sent[e], rcvd[f], net[e])
    BY DEF Before
  <2>2. ASSUME g.rdp \in Going PROVE Una(e, t, rcvd[f])
    <3>1. Answer(e, g, sent[e], rcvd[f], m) /\ m.flags # {"ACK"}
      BY <1>1, <1>2, <2>1, <2>2 DEF Path
    <3>2. PICK j \in 0 .. Len(rcvd[f]) : m.ack = N(e, j)
      BY <1>2, <3>1 DEF Answer, Early
    <3>3. j = 0 /\ MaxSend[e] \in Nat
      BY <1>5, <3>2, LoadAssumption
    <3>4. t.una = N(e, 0 + 1)
      <4>1. 0 \in Int /\ 0 <= 0 /\ 0 <= MaxSend[e] + 1
        BY <3>3
      <4> QED
        BY <1>2, <3>2, <3>3, <4>1, NumberNext
    <3>5. t.una = N(e, 1) /\ 1 \in 0 .. 0 + 1
      BY <3>4
    <3> QED
      BY <1>5, <3>5 DEF Una
  <2>3. Held(t, g, 0, rcvd[f])
    <3>1. 0 <= 0 + Window + 1
      BY WindowAssumption
    <3> QED
      BY <1>5, <3>1 DEF Held
  <2> QED
    BY <1>1, <1>3, <2>1, <2>2, <2>3 DEF Path
<1>9. Path(f, g, t, sent[f], rcvd'[e], net'[f])
  <2>1. Path(f, g, s, sent[f], rcvd[e], net[f])
    BY DEF Before
  <2>2. \A x \in net'[f] : Answer(f, t, sent[f], rcvd[e], x)
    <3> SUFFICES ASSUME NEW x \in net'[f] PROVE Answer(f, t, sent[f], rcvd[e], x)
      OBVIOUS
    <3>1. Answer(f, s, sent[f], rcvd[e], x)
      BY <1>1, <1>3, <2>1 DEF Path
    <3> HIDE DEF s, t, f
    <3> QED
      BY <1>2, <3>1, AnswerSame DEF Live
  <2>3. ASSUME g.rdp \in Live PROVE Una(f, g, rcvd[e]) /\ Held(g, t, sent[f], rcvd[e])
    <3>1. Una(f, g, rcvd[e])
      BY <1>3, <2>1, <2>3 DEF Path
    <3>2. sent[f] = 0
      BY <1>3, <1>5, <2>3 DEF Before, Fresh, Going
    <3>3. 0 <= 0 + Window + 1
      BY WindowAssumption
    <3> QED
      BY <1>5, <3>1, <3>2, <3>3 DEF Held
  <2> QED
    BY <1>1, <2>2, <2>3 DEF Path
<1>10. Apart(e)
  BY DEF Handled
<1> HIDE DEF f, s, t, g
<1> QED
  BY <1>4, <1>6, <1>7, <1>8, <1>9, <1>10, FlowMove DEF f, t, g

(* e takes in a message: what both ways have in common.                     *)
LEMMA TakenFlow ==
  ASSUME Single, FInv, NEW e \in Ends, Before(e), NEW m, NEW r, Handled(e, m, r),
         Answered(ep[e], m), Opened(ep[e], m, ep'[e]), ep'[e].tx = ep[e].tx,
         Len(rcvd[e]) <= Len(rcvd'[e]), rcvd'[e] \in Seq(Nat),
         Fresh(e, ep'[e], sent[e], user[e], rcvd'[e]),
         \A k \in 1 .. sent[Peer(e)] : Has(ep[e], rcvd[e], k) => Has(ep'[e], rcvd'[e], k),
         \A x \in r.out : Answer(Peer(e), ep'[e], sent[Peer(e)], rcvd'[e], x)
  PROVE  FInv'
<1> DEFINE f == Peer(e)
           s == ep[e]
           t == ep'[e]
           g == ep[f]
<1>1. /\ net'[f] \subseteq net[f] \cup r.out /\ sent'[e] = sent[e] /\ user'[e] = user[e]
      /\ net'[e] \subseteq net[e] /\ m \in net[e] /\ Apart(e)
  BY DEF Handled, Apart
<1>2. /\ s.rdp \in Live /\ t.rdp \in Live /\ s.rdp \in Going /\ t.rdp \in Going
      /\ t.una = Wrap16(m.ack + 1) /\ t.tries = s.tries /\ s.tries # 0
  BY DEF Answered, Opened, SameNames, Live, Going, Before, Sender
<1>3. g.tries # 0
  BY <1>1 DEF Before, Unbegun
<1>4. Unbegun(t, g, net'[f])
  BY <1>2 DEF Unbegun
<1>5. Path(e, t, g, sent'[e], rcvd[f], net'[e])
  <2>1. ASSUME g.rdp \in Going PROVE Una(e, t, rcvd[f])
    BY <1>1, <1>2, <2>1, AckFlow
  <2>2. Path(e, s, g, sent[e], rcvd[f], net[e]) /\ t.tx = s.tx
    BY DEF Before
  <2> HIDE DEF f, s, t, g
  <2>3. Path(e, t, g, sent[e], rcvd[f], net'[e])
    BY <1>1, <1>2, <2>1, <2>2, SenderSide
  <2> QED
    BY <1>1, <2>3
<1>6. Path(f, g, t, sent[f], rcvd'[e], net'[f])
  <2>1. /\ Path(f, g, s, sent[f], rcvd[e], net[f]) /\ sent[f] \in Nat /\ rcvd[e] \in Seq(Nat)
    BY DEF Before
  <2>2. /\ \A k \in 1 .. sent[f] : Has(s, rcvd[e], k) => Has(t, rcvd'[e], k)
        /\ \A x \in r.out : Answer(f, t, sent[f], rcvd'[e], x)
    OBVIOUS
  <2> HIDE DEF f, s, t, g
  <2> QED
    BY <1>1, <1>2, <2>1, <2>2, ReceiverSide
<1>7. Fresh(e, t, sent'[e], user'[e], rcvd'[e])
  BY <1>1
<1> HIDE DEF f, s, t, g
<1> QED
  BY <1>1, <1>3, <1>4, <1>5, <1>6, <1>7, FlowMove DEF f, t, g

(* A message that came early is kept: the receiver has it from now on.      *)
LEMMA StoredFlow ==
  ASSUME Single, FInv, NEW e \in Ends, Before(e), NEW m, NEW r, Handled(e, m, r),
         Continued(e, r, sent[e], rcvd[e], sent[Peer(e)]), Stored(ep[e], m, r)
  PROVE  FInv'
<1> DEFINE f == Peer(e)
           s == ep[e]
           t == ep'[e]
<1>1. rcvd'[e] = rcvd[e] /\ rcvd[e] \in Seq(Nat) /\ rcvd[e] \o r.data = rcvd[e] /\ t = r.s
  BY AppNothing DEF Handled, Stored, Before
<1>2. /\ Answered(s, m) /\ Opened(s, m, t) /\ t.tx = s.tx /\ t.cur = s.cur /\ t.sock = s.sock
      /\ t.backlog = s.backlog /\ s.rx \subseteq t.rx /\ r.out = {Eack(t)}
      /\ t.rdp \in Live /\ s.rdp \in Live /\ t.rdp \in Going /\ t.tries = s.tries /\ t.rdp = "OPEN"
  BY <1>1 DEF Stored, SamePlace, Answered, Opened, Live, Going, SameNames
<1>3. Fresh(e, t, sent[e], user[e], rcvd[e])
  <2>1. Fresh(e, s, sent[e], user[e], rcvd[e]) /\ s.rdp \in Going
    BY <1>2 DEF Before, Going
  <2> QED
    BY <1>2, <2>1 DEF Fresh, Live
<1>4. Sender(e, t, sent[e]) /\ Receiver(e, t, rcvd[e], sent[f])
  BY <1>1 DEF Continued
<1>5. \A x \in r.out : Answer(f, t, sent[f], rcvd[e], x)
  BY <1>1, <1>2, <1>3, <1>4, RepliesAnswer
<1>6. \A k \in 1 .. sent[f] : Has(s, rcvd[e], k) => Has(t, rcvd[e], k)
  BY <1>2 DEF Has
<1>7. Len(rcvd[e]) <= Len(rcvd[e])
  BY <1>1, LenProperties
<1> HIDE DEF f, s, t
<1> QED
  BY <1>1, <1>2, <1>3, <1>5, <1>6, <1>7, TakenFlow DEF f, s, t

(* A message in order, and the run of early ones after it.                  *)
LEMMA ReceivedFlow ==
  ASSUME Single, FInv, NEW e \in Ends, Before(e), NEW m, NEW r, Handled(e, m, r),
         Carried(Peer(e), m, sent[Peer(e)]),
         Continued(e, r, sent[e], rcvd[e], sent[Peer(e)]), Received(ep[e], m, r)
  PROVE  FInv'
<1> DEFINE f == Peer(e)
           s == ep[e]
           t == ep'[e]
           z == rcvd'[e]
           p == Len(rcvd[e])
           l == Len(z)
           b == MaxSend[f]
           nf == sent[f]
<1>1. /\ z = rcvd[e] \o r.data /\ rcvd[e] \in Seq(Nat) /\ t = r.s /\ r.data \in Seq(Nat)
      /\ f \in Ends /\ nf \in Nat /\ nf <= b
  BY DEF Handled, Before, ResultType
<1>2. /\ Answered(s, m) /\ Opened(s, m, t) /\ t.tx = s.tx /\ ~t.sock /\ m.seq = Wrap16(s.cur + 1)
      /\ r.out \subseteq {Packet({"ACK"}, s.nxt, m.seq, NULL, {})}
      /\ t.rdp \in Live /\ s.rdp \in Live /\ t.rdp \in Going /\ t.tries = s.tries /\ t.rdp = "OPEN"
      /\ s.tries # 0
  BY <1>1 DEF Received, Moved, Answered, Opened, Live, Going, SameNames, Before, Sender
<1>3. PICK q \in 0 .. 2 * Window - 1, run \in Seq(Nat) : Delivered(s, m, r, q, run)
  BY <1>1 DEF Received
<1>4. SpanFacts(Iss[f][1], b)
  BY <1>1, SpanIs
<1>5. q \in Nat /\ q <= 2 * Window - 1
  BY <1>4 DEF SpanFacts
<1>6. /\ t.cur = Wrap16(m.seq + q)
      /\ t.rx = {x \in s.rx : \A k \in 1 .. q : x.seq # Wrap16(m.seq + k)}
      /\ r.data # <<>>
  <2>1. /\ t.cur = Wrap16(m.seq + q)
        /\ t.rx = {x \in s.rx : \A k \in 1 .. q : x.seq # Wrap16(m.seq + k)}
        /\ r.data = <<m.data>> \o SubSeq(run, 1, Min({q, RxCap - (Len(s.app) + 1)}))
    BY <1>1, <1>3 DEF Delivered
  <2> DEFINE fit == SubSeq(run, 1, Min({q, RxCap - (Len(s.app) + 1)}))
  <2>2. m.data \in Nat
    BY DEF Received, Message, Handled, Messages
  <2>3. <<m.data>> \in Seq(Nat) /\ Len(<<m.data>>) = 1
    BY <2>2
  <2>4. fit \in Seq(Nat)
    <3> DEFINE j == Min({q, RxCap - (Len(s.app) + 1)})
    <3>1. j \in Int /\ j <= q
      <4> DEFINE a == RxCap - (Len(s.app) + 1)
      <4>1. a \in Int
        BY CapAssumption, LenProperties DEF Before, ConnType
      <4> HIDE DEF a
      <4>2. Min({q, a}) = IF q <= a THEN q ELSE a
        BY <1>5, <4>1, MinIs
      <4>3. Min({q, a}) \in Int /\ Min({q, a}) <= q
        BY <1>5, <4>1, <4>2
      <4> QED
        BY <4>3 DEF a
    <3>2. Len(run) = q /\ run \in Seq(Nat)
      BY <1>3 DEF Delivered, RunOf
    <3> HIDE DEF j
    <3>3. SubSeq(run, 1, j) \in Seq(Nat)
      BY <1>5, <3>1, <3>2, SubSeqProperties
    <3> QED
      BY <3>3 DEF j
  <2>5. Len(<<m.data>> \o fit) = 1 + Len(fit) /\ Len(fit) \in Nat
    <3> DEFINE one == <<m.data>>
    <3>1. one \in Seq(Nat) /\ Len(one) = 1
      BY <2>3
    <3> HIDE DEF one, fit
    <3>2. Len(one \o fit) = 1 + Len(fit) /\ Len(fit) \in Nat
      BY <2>4, <3>1, ConcatProperties, LenProperties, ZenonT(60)
    <3> QED
      BY <3>2 DEF one
  <2>6. r.data = <<m.data>> \o fit
    BY <2>1
  <2> HIDE DEF fit
  <2>7. Len(r.data) # 0
    BY <2>5, <2>6
  <2> QED
    BY <2>1, <2>7, EmptySeq
<1>7. l \in p + 1 .. nf /\ p \in Nat /\ z \in Seq(Nat)
  <2>1. PICK k \in p + 1 .. nf : z = Stream!FirstN(k)
    BY <1>1, <1>6 DEF Continued
  <2>2. p \in Nat
    BY <1>1, LenProperties
  <2>3. k \in Nat
    <3> HIDE DEF p, nf
    <3> QED
      BY <1>1, <2>1, <2>2
  <2>4. Stream!FirstN(k) \in Seq(Nat) /\ Len(Stream!FirstN(k)) = k
    BY <2>3, LenProperties DEF Stream!FirstN
  <2> QED
    BY <2>1, <2>2, <2>4
<1>8. Sender(e, t, sent[e]) /\ Receiver(e, t, z, nf)
  BY <1>1 DEF Continued
<1>9. /\ InStep(e, s, rcvd[e], nf) /\ InStep(e, t, z, nf)
  BY <1>2, <1>8 DEF Before, Receiver
<1> HIDE DEF p, l, b, z
<1>10. /\ p \in Int /\ 0 <= p /\ p + 1 <= b /\ l \in Int /\ p + 1 <= l /\ l <= b /\ l <= nf
       /\ 0 <= l /\ l \in Nat /\ p <= l
  <2> HIDE DEF nf
  <2> QED
    BY <1>1, <1>4, <1>7, SMTT(60) DEF SpanFacts
<1>11. m.seq = N(f, p + 1)
  <2>1. s.cur = N(f, p) /\ p <= b + 1
    BY <1>4, <1>9, <1>10, SMTT(30) DEF InStep, p, SpanFacts
  <2> QED
    BY <1>1, <1>2, <1>10, <2>1, NumberNext DEF b
<1>12. ASSUME NEW k \in 0 .. q PROVE Wrap16(m.seq + k) = N(f, p + 1 + k) /\ InSpan(f, p + 1 + k)
  <2> DEFINE c == p + 1
             d == p + 1 + k
  <2>0. /\ k \in Int /\ 0 - (2 * Window + 1) <= k /\ k <= 2 * Window + 1
        /\ c \in Int /\ 0 - (2 * Window + 1) <= c /\ c <= b + 2 * Window + 1
        /\ d \in Int /\ 0 - (2 * Window + 1) <= d /\ d <= b + 2 * Window + 1
    <3>1. k \in Int /\ 0 <= k /\ k <= q
      BY <1>5
    <3>2. b \in Nat /\ Window \in Nat
      BY <1>4 DEF SpanFacts
    <3> QED
      BY <1>5, <1>10, <3>1, <3>2, SMTT(30)
  <2> HIDE DEF c, d
  <2>s. InSpan(f, c) /\ InSpan(f, d)
    BY <2>0 DEF InSpan, b
  <2>1. /\ k \in Int /\ 0 - (2 * Window + 1) <= k /\ k <= 2 * Window + 1 /\ InSpan(f, p + 1)
        /\ InSpan(f, p + 1 + k)
    BY <2>0, <2>s DEF c, d
  <2> QED
    BY <1>1, <1>11, <2>1, NumberPlus
<1>13. l = p + 1 + q
  <2>1. N(f, l) = N(f, p + 1 + q) /\ InSpan(f, p + 1 + q)
    BY <1>5, <1>6, <1>9, <1>12 DEF InStep, l
  <2>2. InSpan(f, l)
    BY <1>4, <1>10 DEF SpanFacts, InSpan, b
  <2> QED
    BY <1>1, <2>1, <2>2, NumberEq
<1>14. ASSUME NEW k \in 1 .. nf, Has(s, rcvd[e], k) PROVE Has(t, z, k)
  <2>0. k \in Int /\ 1 <= k /\ k <= nf
    <3> HIDE DEF nf
    <3> QED
      BY <1>1
  <2>1. CASE k <= p
    <3>1. k <= l
      BY <1>10, <2>0, <2>1
    <3> QED
      BY <3>1 DEF Has, l
  <2>2. CASE \E x \in s.rx : x.data = k
    <3>1. PICK x \in s.rx : x.data = k
      BY <2>2
    <3>2. CASE x \in t.rx
      BY <3>1, <3>2 DEF Has
    <3>3. CASE x \notin t.rx
      <4>1. PICK j \in 1 .. q : x.seq = Wrap16(m.seq + j)
        BY <1>6, <3>1, <3>3
      <4>2. j \in 0 .. q /\ j \in Int /\ j <= q
        BY <1>5
      <4>3. x.seq = N(f, k)
        BY <1>9, <3>1 DEF InStep
      <4>4. N(f, k) = N(f, p + 1 + j) /\ InSpan(f, p + 1 + j)
        BY <1>12, <4>1, <4>2, <4>3
      <4>5. InSpan(f, k)
        <5> HIDE DEF nf
        <5> QED
          BY <1>1, <1>4, <2>0 DEF SpanFacts, InSpan, b
      <4>6. k = p + 1 + j
        BY <1>1, <4>4, <4>5, NumberEq
      <4>7. k <= l
        BY <1>5, <1>10, <1>13, <4>2, <4>6
      <4> QED
        BY <4>7 DEF Has, l
    <3> QED
      BY <3>2, <3>3
  <2> QED
    BY <1>14, <2>1, <2>2 DEF Has, p
<1>15. Fresh(e, t, sent[e], user[e], z)
  <2>1. z # <<>>
    <3>1. l # 0
      BY <1>10
    <3> QED
      BY <3>1, EmptySeq DEF l
  <2> QED
    BY <1>2, <2>1 DEF Fresh
<1>16. ASSUME NEW x \in r.out PROVE Answer(f, t, nf, z, x)
  <2>1. x = Packet({"ACK"}, s.nxt, m.seq, NULL, {})
    BY <1>2
  <2>2. /\ x.ack = N(f, p + 1) /\ x.eacks = {} /\ "RST" \notin x.flags
    BY <1>11, <2>1 DEF Packet
  <2>3. p + 1 \in 0 .. l
    BY <1>10
  <2> QED
    BY <1>2, <2>2, <2>3 DEF Answer, l
<1>17. Len(rcvd[e]) <= Len(z)
  BY <1>10 DEF p, l
<1> HIDE DEF f, s, t, nf
<1> QED
  BY <1>2, <1>7, <1>14, <1>15, <1>16, <1>17, TakenFlow DEF f, s, t, z, nf

(* The router hands a packet to its connection.                             *)
LEMMA DeliverFlow ==
  ASSUME Single, ReaderKeepsUp, AInv, SInv, FInv, NEW e \in Ends, Deliver(e)
  PROVE  FInv'
<1>1. PICK m \in net[e], elapsed \in BOOLEAN, o \in Outcomes :
        /\ ep[e].conn
        /\ LET r == NewPacket(ep[e], m, elapsed, o)
           IN  /\ \E left \in Taken(e, m) : Finish(e, r, o, left)
               /\ rcvd' = [rcvd EXCEPT ![e] = @ \o r.data]
        /\ UNCHANGED <<user, sent>>
  BY DEF Deliver
<1> DEFINE r == NewPacket(ep[e], m, elapsed, o)
           f == Peer(e)
<1>2. PICK left \in Taken(e, m) : Finish(e, r, o, left)
  BY <1>1
<1>f. f \in Ends /\ Peer(f) = e /\ f # e
  BY PeerIs
<1>3. /\ Types /\ EndOK(e, ep[e], user[e]) /\ ep[e] \in ConnType /\ m \in Messages
      /\ rcvd[e] \in Seq(Nat) /\ sent[e] \in Nat /\ sent[f] \in Nat /\ sent[f] <= MaxSend[f]
      /\ rcvd \in [Ends -> Seq(Nat)]
  BY <1>f DEF AInv, Types
<1>4. /\ Sender(e, ep[e], sent[e]) /\ Receiver(e, ep[e], rcvd[e], sent[f])
      /\ Carried(f, m, sent[f])
  BY <1>f DEF SInv
<1>5. /\ Hearing(e, ep[e], m, sent[e], rcvd[e], sent[f]) /\ ep[e].rdp # "CLOSED"
      /\ IsFiniteSet(ep[e].rx) /\ Len(ep[e].app) <= RxCap
  BY <1>1, <1>3, <1>4 DEF Hearing, EndOK, Bounds, ReaderKeepsUp, Settled
<1>6. r \in ResultType /\ Continued(e, r, sent[e], rcvd[e], sent[f])
  BY <1>5, HeardStream
<1>7. \/ ResetHeard(ep[e], m, r) \/ Closing(ep[e], m, r) \/ Ending(ep[e], m, r)
      \/ Joined(ep[e], m, r) \/ Noticed(ep[e], m, r)
      \/ Pruned(ep[e], m, r) \/ Full(ep[e], m, r) \/ Stored(ep[e], m, r) \/ Received(ep[e], m, r)
  <2>1. \/ ResetHeard(ep[e], m, r) \/ Closing(ep[e], m, r) \/ Ending(ep[e], m, r)
        \/ "RST" \notin m.flags /\ Started("server", ep[e], m, r)
        \/ "RST" \notin m.flags /\ Joined(ep[e], m, r)
        \/ "RST" \notin m.flags /\ Noticed(ep[e], m, r)
        \/ "RST" \notin m.flags /\ Pruned(ep[e], m, r)
        \/ "RST" \notin m.flags /\ Full(ep[e], m, r)
        \/ "RST" \notin m.flags /\ Stored(ep[e], m, r)
        \/ "RST" \notin m.flags /\ Received(ep[e], m, r)
    BY <1>5, NewPacketIs DEF Hearing
  <2>2. ~Started("server", ep[e], m, r)
    BY <1>5 DEF Started
  <2> HIDE DEF r
  <2> QED
    BY <2>1, <2>2
<1>8. rcvd' = [rcvd EXCEPT ![e] = rcvd[e] \o r.data]
  BY <1>1
<1> HIDE DEF r
<1>9. r.s \in ConnType /\ r.out \in SUBSET Messages /\ left \in SUBSET net[e]
  BY <1>6 DEF ResultType, Taken
<1>10. Finished(e, r.s, r.out, left)
  BY <1>2, <1>3, <1>9, FinishIs
<1>11. rcvd'[f] = rcvd[f] /\ rcvd'[e] = rcvd[e] \o r.data /\ sent' = sent /\ user' = user
  BY <1>1, <1>3, <1>8, <1>f
<1>12. Apart(e)
  BY <1>9, <1>10, <1>11 DEF Apart, Finished
<1>13. Handled(e, m, r)
  BY <1>3, <1>5, <1>6, <1>10, <1>11, <1>12 DEF Handled, Finished
<1>14. Before(e)
  BY BeforeIs
<1>15. Carried(Peer(e), m, sent[Peer(e)]) /\ Continued(e, r, sent[e], rcvd[e], sent[Peer(e)])
  BY <1>4, <1>6
<1> QED
  BY <1>7, <1>13, <1>14, <1>15, ResetHeardFlow, OverFlow, NoticedFlow, PrunedFlow, FullFlow,
     JoinedFlow, StoredFlow, ReceivedFlow

(* The server starts the handshake.                                         *)
LEMMA StartedFlow ==
  ASSUME FInv, Single, NEW m \in net["server"], NEW s, NEW r, Apart("server"), Before("server"),
         Started("server", s, m, r), ep["server"].tries = 0, s.tries = 1, s.sock,
         s.backlog = ep["server"].backlog,
         ep'["server"] = r.s, net'["client"] \subseteq net["client"] \cup r.out,
         sent'["server"] = sent["server"], user'["server"] = user["server"],
         rcvd'["server"] = <<>>, Continued("server", r, 0, <<>>, sent["client"])
  PROVE  FInv'
<1> DEFINE e == "server"
           f == "client"
           t == ep'[e]
           g == ep[f]
<1>1. /\ e \in Ends /\ Peer(e) = f
  BY ClientIs
<1>2. /\ t.rdp = "SYN_RCVD" /\ t.tries = 1 /\ t.sock /\ t.backlog = ep[e].backlog
      /\ t.una = Iss[e][1] /\ r.out = {SynAck(t)} /\ r.data = <<>>
  BY DEF Started, SamePlace
<1>3. /\ Fresh(e, ep[e], sent[e], user[e], rcvd[e]) /\ Unbegun(ep[e], g, net[f])
      /\ Unbegun(g, ep[e], net[e]) /\ Path(e, ep[e], g, sent[e], rcvd[f], net[e])
      /\ Sender(e, ep[e], sent[e]) /\ rcvd[f] \in Seq(Nat)
  BY <1>1 DEF Before
<1>4. ep[e].backlog = 0 /\ user[e] = "none" /\ g.rdp \notin Live /\ net[f] = {} /\ g.tries # 0
      /\ sent[e] = 0
  BY <1>3 DEF Fresh, Unbegun, Sender
<1>5. Fresh(e, t, 0, user'[e], <<>>)
  BY <1>2, <1>4 DEF Fresh
<1>6. Unbegun(t, g, net'[f])
  BY <1>2 DEF Unbegun
<1>7. Path(e, t, g, 0, rcvd[f], net'[e])
  <2>1. t.una = N(e, 0)
    BY <1>1, <1>2, NumberZero
  <2>2. 0 \in 0 .. Len(rcvd[f]) + 1
    BY <1>3, LenProperties
  <2>3. Una(e, t, rcvd[f])
    BY <2>1, <2>2 DEF Una
  <2>4. net'[e] \subseteq net[e]
    BY DEF Apart
  <2> QED
    BY <1>3, <1>4, <2>3, <2>4 DEF Path
<1>8. Path(f, g, t, sent[f], <<>>, net'[f])
  <2>1. Sender(e, t, 0) /\ Receiver(e, t, <<>>, sent[f])
    <3>1. <<>> \o <<>> = <<>>
      OBVIOUS
    <3> QED
      BY <1>2, <3>1 DEF Continued
  <2>2. t.rdp \in Going /\ t.rdp \in Live
    BY <1>2 DEF Going, Live
  <2>3. Answer(f, t, sent[f], <<>>, SynAck(t))
    <3>1. <<>> \in Seq(Nat)
      BY EmptySeq
    <3>2. Answer(Peer(e), t, sent[f], <<>>, SynAck(t))
      BY <1>1, <1>5, <2>1, <2>2, <3>1, RepliesAnswer
    <3> QED
      BY <1>1, <3>2
  <2>4. net'[f] \subseteq {SynAck(t)}
    BY <1>2, <1>4
  <2> QED
    BY <1>4, <2>3, <2>4 DEF Path
<1> HIDE DEF t, g
<1> QED
  BY <1>1, <1>4, <1>5, <1>6, <1>7, <1>8, FlowMove DEF t, g

(* The router hands a packet to the listening socket.                       *)
LEMMA DeliverNewFlow ==
  ASSUME Single, AInv, SInv, FInv, DeliverNew
  PROVE  FInv'
<1> DEFINE e == "server"
           f == "client"
<1>e. e \in Ends /\ f \in Ends /\ Peer(e) = f
  BY ClientIs
<1>1. PICK m \in net[e], o \in Outcomes, rdp \in {"CLOSED", "CLOSE_WAIT"} :
        /\ ~ep[e].conn
        /\ ep[e].tries < Len(Iss[e])
        /\ LET r == NewPacket(Accepted(ep[e], rdp), m, FALSE, o)
           IN  \E left \in Taken(e, m) : Finish(e, r, o, left)
        /\ rcvd' = [rcvd EXCEPT ![e] = <<>>]
        /\ UNCHANGED <<user, sent>>
  BY DEF DeliverNew
<1> DEFINE s == Accepted(ep[e], rdp)
           r == NewPacket(s, m, FALSE, o)
<1>2. PICK left \in Taken(e, m) : Finish(e, r, o, left)
  BY <1>1
<1>3. /\ Types /\ EndOK(e, ep[e], user[e]) /\ ep[e] \in ConnType /\ m \in Messages
      /\ sent[f] \in Nat /\ sent[f] <= MaxSend[f] /\ rcvd \in [Ends -> Seq(Nat)]
  BY <1>e DEF AInv, Types
<1>4. /\ s \in ConnType /\ s.conn /\ s.sock /\ s.app = <<>> /\ s.tries = ep[e].tries + 1
      /\ s.rdp = rdp /\ s.tx = ep[e].tx /\ s.rx = ep[e].rx /\ s.backlog = ep[e].backlog
  BY <1>3, AcceptedIs
<1>5. ep[e].tries = 0 /\ s.tries = 1 /\ Len(Iss[e]) = 1 /\ s.rdp \in {"CLOSED", "CLOSE_WAIT"}
  <2>1. Len(Iss[e]) = 1 /\ ep[e].tries \in Nat /\ ep[e].tries < 1
    BY <1>1, <1>3, <1>e DEF ConnType, Single
  <2>2. ep[e].tries = 0 /\ ep[e].rdp = "CLOSED"
    BY <1>1, <1>3, <2>1 DEF EndOK, Settled
  <2> QED
    BY <1>4, <2>1, <2>2
<1> HIDE DEF s
<1>6. sent[e] = 0 /\ Sender(e, s, 0) /\ Carried(f, m, sent[f])
  <2>1. Sender(e, ep[e], sent[e]) /\ \A x \in net[e] : Carried(f, x, sent[f])
    BY <1>e, ClientIs DEF SInv
  <2> QED
    BY <1>4, <1>5, <2>1 DEF Sender, Going, Live
<1>7. Receiver(e, s, <<>>, sent[f])
  <2>1. Len(<<>>) = 0 /\ Stream!FirstN(0) = <<>>
    BY EmptySeq DEF Stream!FirstN
  <2> QED
    BY <1>3, <1>5, <2>1 DEF Receiver, Going, Live
<1>r. Room(e, s)
  <2>1. Len(s.app) = 0
    BY <1>4, EmptySeq
  <2> QED
    BY <2>1, CapAssumption, WindowAssumption DEF Room
<1>8. Hearing(e, s, m, 0, <<>>, sent[f])
  <2>1. Ahead(s)
    BY <1>1, <1>3, <1>4, <1>5 DEF EndOK, Settled, Ahead
  <2> QED
    BY <1>3, <1>4, <1>5, <1>6, <1>7, <1>e, <1>r, <2>1, EmptySeq DEF Hearing
<1>9. /\ r \in ResultType
      /\ Closing(s, m, r) \/ Ending(s, m, r) \/ Started(e, s, m, r)
  <2>1. IsFiniteSet(s.rx) /\ Len(s.app) <= RxCap /\ Ahead(s)
    BY <1>3, <1>4, <1>8, EmptySeq, CapAssumption DEF EndOK, Bounds, Hearing
  <2>2. /\ r \in ResultType
        /\ \/ ResetHeard(s, m, r) \/ Closing(s, m, r) \/ Ending(s, m, r)
           \/ Started("server", s, m, r) \/ Joined(s, m, r) \/ Noticed(s, m, r)
           \/ Pruned(s, m, r) \/ Full(s, m, r) \/ Stored(s, m, r) \/ Received(s, m, r)
    <3>1. s.tries \in 1 .. Len(Iss["server"])
      BY <1>5
    <3> QED
      BY <1>3, <1>4, <2>1, <3>1, NewPacketIs
  <2> HIDE DEF r
  <2> QED
    BY <1>5, <2>2 DEF ResetHeard, Joined, Noticed, Pruned, Full, Stored, Received, Answered
<1> HIDE DEF r
<1>10. r.s \in ConnType /\ r.out \in SUBSET Messages /\ left \in SUBSET net[e]
  BY <1>9 DEF ResultType, Taken
<1>11. Finished(e, r.s, r.out, left)
  BY <1>2, <1>3, <1>10, <1>e, FinishIs
<1>12. rcvd'[f] = rcvd[f] /\ rcvd'[e] = <<>> /\ sent' = sent /\ user' = user
  BY <1>1, <1>3, <1>e
<1>13. Apart(e) /\ ep'[e] = r.s /\ net'[f] \subseteq net[f] \cup r.out
  BY <1>10, <1>11, <1>12, <1>e DEF Apart, Finished
<1>14. Before(e)
  BY <1>e, BeforeIs
<1>15. CASE Closing(s, m, r) \/ Ending(s, m, r)
  <2>1. ep'[e].rdp \in {"CLOSED", "CLOSE_WAIT"} /\ ep'[e].tries = 1
    BY <1>5, <1>13, <1>15 DEF Closing, Half, SameNames, Ending, Shut
  <2>2. ep'[e].rdp \notin Going /\ ep'[e].tries # 0
    BY <2>1 DEF Going, Live
  <2> QED
    BY <1>12, <1>13, <1>e, <2>2, OverMove
<1>16. CASE Started(e, s, m, r)
  <2>1. Continued(e, r, 0, <<>>, sent[f])
    BY <1>4, <1>5, <1>8, <1>9, <1>16, <1>e, StartedStream
  <2> QED
    BY <1>4, <1>5, <1>12, <1>13, <1>14, <1>16, <2>1, StartedFlow
<1> QED
  BY <1>9, <1>15, <1>16

(* A step of e that sends nothing.                                          *)
LEMMA SilentMove ==
  ASSUME FInv, NEW e \in Ends, Before(e), Apart(e), Same(ep[e], ep'[e]),
         ep'[e].una = ep[e].una, ep'[e].tx = ep[e].tx, sent'[e] = sent[e], rcvd'[e] = rcvd[e],
         user'[e] = user[e] \/ user[e] # "none", net'[Peer(e)] \subseteq net[Peer(e)]
  PROVE  FInv'
<1> DEFINE out == {}
           f == Peer(e)
<1>1. /\ net'[f] \subseteq net[f] \cup out /\ out = {}
      /\ \A x \in out : Answer(f, ep[e], sent[f], rcvd[e], x)
  OBVIOUS
<1> HIDE DEF out, f
<1> QED
  BY <1>1, SameMove DEF f

(* The same, when the structure does not change either.                     *)
LEMMA StillFlow ==
  ASSUME AInv, SInv, FInv, NEW e \in Ends, UNCHANGED <<ep, sent, rcvd>>,
         user'[Peer(e)] = user[Peer(e)], user'[e] = user[e] \/ user[e] # "none",
         \A d \in Ends : net'[d] \subseteq net[d]
  PROVE  FInv'
<1>1. Before(e) /\ Peer(e) \in Ends
  BY BeforeIs, PeerIs
<1>2. Apart(e) /\ Same(ep[e], ep'[e])
  BY <1>1 DEF Apart, Same
<1> QED
  BY <1>1, <1>2, SilentMove

(* A structure in use, or a user that holds one, has begun.                 *)
LEMMA BegunIs ==
  ASSUME AInv, NEW e \in Ends, Before(e), ep[e].conn \/ user[e] # "none"
  PROVE  ep[e].tries # 0
  BY DEF AInv, EndOK, Before, Sender, Fresh

(* Over: one end has been closed, by its user, its socket or its timer.     *)
LEMMA CloseFlow ==
  ASSUME AInv, SInv, FInv, NEW e \in Ends, NEW o, ep[e].conn, Finish(e, Close(ep[e], o), o, net[e]),
         sent' = sent, rcvd' = rcvd, user'[Peer(e)] = user[Peer(e)]
  PROVE  FInv'
<1> DEFINE r == Close(ep[e], o)
<1>2. Types /\ EndOK(e, ep[e], user[e]) /\ ep[e] \in ConnType
  BY DEF AInv, Types
<1>3. /\ r.s \in ConnType /\ r.out \in SUBSET Messages
      /\ Shut(ep[e], r.s) \/ Half(ep[e], r.s)
  <2>1. /\ r \in ResultType
        /\ \/ Shut(ep[e], r.s) /\ r.out = {}
           \/ ep[e].rdp # "CLOSE_WAIT" /\ Half(ep[e], r.s) /\ r.s.app = ep[e].app /\ r.out = {Reset(ep[e])}
    BY <1>2, CloseIs
  <2> HIDE DEF r
  <2> QED
    BY <2>1 DEF ResultType
<1>4. Finish(e, r, o, net[e]) /\ net[e] \in SUBSET net[e]
  OBVIOUS
<1> HIDE DEF r
<1>5. Finished(e, r.s, r.out, net[e])
  BY <1>2, <1>3, <1>4, FinishIs
<1>6. ep[e].tries # 0
  BY BeforeIs, BegunIs
<1>7. ep'[e].rdp \notin Going /\ ep'[e].tries # 0
  BY <1>3, <1>5, <1>6 DEF Finished, Shut, Half, SameNames, Going, Live
<1>8. Apart(e) /\ sent'[e] = sent[e]
  BY <1>5 DEF Finished, Apart
<1> QED
  BY <1>7, <1>8, OverMove

(* The timer of a lost or half-closed connection.                           *)
LEMMA ExpireFlow ==
  ASSUME AInv, SInv, FInv, NEW e \in Ends, ExpireConnection(e)
  PROVE  FInv'
<1>1. PICK o \in Outcomes : /\ ep[e].conn /\ Finish(e, Close(ep[e], o), o, net[e])
                            /\ UNCHANGED <<user, sent, rcvd>>
  BY DEF ExpireConnection
<1> QED
  BY <1>1, CloseFlow

(* csp_close by the user.                                                   *)
LEMMA UserCloseFlow ==
  ASSUME AInv, SInv, FInv, NEW e \in Ends, UserClose(e)
  PROVE  FInv'
<1>1. PICK o \in Outcomes :
        /\ IF ep[e].conn THEN Finish(e, Close(ep[e], o), o, net[e]) ELSE UNCHANGED <<ep, net>>
        /\ UNCHANGED <<sent, rcvd>> /\ user[e] # "none"
  BY DEF UserClose
<1>2. user'[Peer(e)] = user[Peer(e)]
  BY PeerIs DEF UserClose, AInv, Types
<1>3. CASE ep[e].conn
  BY <1>1, <1>2, <1>3, CloseFlow
<1>4. CASE ~ep[e].conn
  BY <1>1, <1>2, <1>4, StillFlow
<1> QED
  BY <1>3, <1>4

(* A step within one end leaves the other alone.                            *)
LEMMA LocalApart ==
  ASSUME Types, NEW e \in Ends, Local(e)
  PROVE  Apart(e) /\ sent'[e] = sent[e] /\ rcvd'[e] = rcvd[e] /\ net'[Peer(e)] \subseteq net[Peer(e)]
  BY PeerIs DEF Types, Local, Apart

(* A connect that fails.                                                    *)
LEMMA GiveUpFlow ==
  ASSUME AInv, SInv, FInv, Local("client"), ep'["client"].rdp \in {"CLOSED", "CLOSE_WAIT"},
         ep'["client"].tries = ep["client"].tries, user["client"] # "none"
  PROVE  FInv'
<1>1. "client" \in Ends /\ Types
  BY ClientIs DEF AInv
<1>2. ep'["client"].tries # 0 /\ ep'["client"].rdp \notin Going
  BY <1>1, BeforeIs, BegunIs DEF Going, Live
<1> QED
  BY <1>1, <1>2, LocalApart, OverMove

(* The client waited too long.                                              *)
LEMMA ConnectTimeoutFlow ==
  ASSUME AInv, SInv, FInv, ConnectTimeout
  PROVE  FInv'
<1>1. Types /\ ep["client"] \in ConnType /\ "client" \in Ends
  BY ClientIs DEF AInv, Types
<1>2. /\ Local("client") /\ user["client"] # "none"
      /\ Shut(ep["client"], ep'["client"]) \/ Half(ep["client"], ep'["client"])
  BY <1>1, GiveUpIs DEF ConnectTimeout
<1> QED
  BY <1>2, GiveUpFlow DEF Shut, Half, SameNames

(* The client is woken in csp_rdp_connect.                                  *)
LEMMA ConnectedFlow ==
  ASSUME Single, AInv, SInv, FInv, Connected
  PROVE  FInv'
<1> DEFINE e == "client"
           b == ep["client"]
           s == [b EXCEPT !.sem = FALSE]
<1>1. Types /\ b \in ConnType /\ Sender(e, b, sent[e]) /\ e \in Ends
  BY ClientIs DEF AInv, Types, SInv
<1>2. s \in ConnType /\ Stays(b, s) /\ s.app = b.app /\ s.una = b.una
  BY <1>1, SemIs DEF ConnType
<1>3. /\ user[e] # "none"
      /\ \/ /\ ep' = [ep EXCEPT !["client"] = s]
            /\ user' = [user EXCEPT !["client"] = "open"]
            /\ UNCHANGED <<net, sent, rcvd>>
         \/ s.rdp = "SYN_SENT" /\ s.tries < Len(Iss["client"])
         \/ GiveUpConnect(s)
  <2> HIDE DEF s
  <2> QED
    BY DEF Connected, SendSyn, s
<1> HIDE DEF s
<1>4. CASE /\ ep' = [ep EXCEPT !["client"] = s]
           /\ user' = [user EXCEPT !["client"] = "open"]
           /\ UNCHANGED <<net, sent, rcvd>>
  <2>1. ep'["client"] = s /\ user'["client"] = "open"
    BY <1>1, <1>4, ClientIs DEF Types
  <2>2. Local("client")
    BY <1>2, <1>4, <2>1 DEF Local, UserStates
  <2>3. Same(b, s) /\ s.tx = b.tx
    BY <1>2 DEF Same, Stays, SameNames, SamePlace, SameIn
  <2>4. Before(e) /\ Apart(e) /\ sent'[e] = sent[e] /\ rcvd'[e] = rcvd[e]
        /\ net'[Peer(e)] \subseteq net[Peer(e)]
    BY <1>1, <2>2, BeforeIs, LocalApart
  <2> QED
    BY <1>1, <1>2, <1>3, <2>1, <2>3, <2>4, SilentMove
<1>5. CASE s.rdp = "SYN_SENT" /\ s.tries < Len(Iss["client"])
  <2>1. s.tries = b.tries /\ s.rdp = b.rdp /\ b.tries \in Nat /\ Len(Iss["client"]) = 1
    BY <1>1, <1>2 DEF Stays, SameNames, Single, ConnType
  <2>2. b.tries = 0 /\ b.rdp = "SYN_SENT"
    BY <1>5, <2>1
  <2> QED
    BY <1>1, <2>2 DEF Sender, Going
<1>6. CASE GiveUpConnect(s)
  <2>1. Local("client") /\ (Shut(s, ep'["client"]) \/ Half(s, ep'["client"]))
    BY <1>1, <1>2, <1>6, GiveUpIs
  <2>2. ep'["client"].rdp \in {"CLOSED", "CLOSE_WAIT"} /\ ep'["client"].tries = b.tries
    BY <1>2, <2>1 DEF Shut, Half, Stays, SameNames
  <2> QED
    BY <1>3, <2>1, <2>2, GiveUpFlow
<1> QED
  BY <1>3, <1>4, <1>5, <1>6

(* csp_connect sends the SYN.                                               *)
LEMMA ConnectFlow ==
  ASSUME Single, AInv, SInv, FInv, Connect
  PROVE  FInv'
<1> DEFINE e == "client"
           f == "server"
           b == ep[e]
           s == [b EXCEPT !.conn = TRUE, !.sock = FALSE, !.app = <<>>]
           t == ep'[e]
           g == ep[f]
<1>e. e \in Ends /\ Peer(e) = f
  BY ClientIs
<1>1. PICK o \in Outcomes : SendSyn(s, "waiting", o)
  BY DEF Connect
<1>2. Types /\ b \in ConnType /\ Before(e)
  BY <1>e, BeforeIs DEF AInv, Types
<1>3. s \in ConnType /\ s.tries = b.tries /\ ~s.sock /\ s.backlog = b.backlog /\ s.cur = b.cur
  BY <1>2, EmptySeq DEF ConnType
<1> HIDE DEF s
<1>4. Synchronised(s, "waiting") /\ UNCHANGED <<sent, rcvd>> /\ user'[f] = user[f]
  BY <1>1, <1>2, <1>3, SendSynIs
<1>5. PICK out : Finished(e, t, out, net[e])
  BY <1>1, <1>2, <1>3, SendSynIs
<1>6. b.tries = 0 /\ s.tries + 1 = 1
  <2>1. Len(Iss[e]) = 1 /\ b.tries \in Nat /\ b.tries < 1
    BY <1>2, <1>3, <1>4, <1>e DEF Synchronised, Single, ConnType
  <2> QED
    BY <1>3, <2>1
<1>7. Apart(e)
  BY <1>4, <1>5, <1>e DEF Finished, Apart
<1>8. /\ t.tries = 1 /\ ~t.sock /\ t.cur = b.cur
      /\ \/ /\ t.rdp = "SYN_SENT"
            /\ net'[f] \subseteq net[f] \cup {Packet({"SYN"}, Iss[e][1], 0, NULL, {})}
         \/ t.rdp = "CLOSED"
  BY <1>3, <1>4, <1>6 DEF Synchronised, SamePlace
<1>9. CASE t.rdp = "CLOSED"
  <2>1. t.rdp \notin Going /\ t.tries # 0
    BY <1>8, <1>9 DEF Going, Live
  <2> QED
    BY <1>4, <1>7, <1>e, <2>1, OverMove
<1>10. CASE /\ t.rdp = "SYN_SENT"
            /\ net'[f] \subseteq net[f] \cup {Packet({"SYN"}, Iss[e][1], 0, NULL, {})}
  <2>1. /\ Fresh(e, b, sent[e], user[e], rcvd[e]) /\ Unbegun(b, g, net[f])
        /\ Path(e, b, g, sent[e], rcvd[f], net[e])
    BY <1>2, <1>e DEF Before
  <2>2. b.cur = 0 /\ g.rdp \notin Live /\ net[f] = {}
    BY <1>6, <2>1 DEF Fresh, Unbegun
  <2>3. t.rdp \notin Live
    BY <1>10 DEF Live
  <2>4. Fresh(e, t, sent'[e], user'[e], rcvd'[e])
    BY <1>8, <2>2, <2>3 DEF Fresh
  <2>5. Unbegun(t, g, net'[f])
    BY <1>8 DEF Unbegun
  <2>6. Path(e, t, g, sent'[e], rcvd[f], net'[e])
    BY <1>4, <1>7, <2>1, <2>3, SenderOver DEF Apart
  <2>7. Path(f, g, t, sent[f], rcvd'[e], net'[f])
    <3>1. \A x \in net'[f] : Answer(f, t, sent[f], rcvd'[e], x)
      BY <1>10, <2>2 DEF Answer, Packet
    <3> QED
      BY <2>2, <3>1 DEF Path
  <2> HIDE DEF t, g
  <2> QED
    BY <1>e, <1>7, <2>3, <2>4, <2>5, <2>6, <2>7, FlowMove DEF t, g
<1> QED
  BY <1>8, <1>9, <1>10

(* csp_accept.                                                              *)
LEMMA AcceptFlow ==
  ASSUME AInv, SInv, FInv, Accept
  PROVE  FInv'
<1> DEFINE e == "server"
           f == "client"
           s == ep[e]
           t == ep'[e]
           g == ep[f]
           out == {}
<1>1. Types /\ s \in ConnType /\ e \in Ends /\ Peer(e) = f /\ Before(e)
  BY ClientIs, BeforeIs DEF AInv, Types
<1>2. /\ s.backlog > 0 /\ t = [s EXCEPT !.backlog = @ - 1] /\ UNCHANGED <<net, sent, rcvd>>
      /\ Apart(e)
  BY <1>1, PeerIs DEF Accept, Types, Apart
<1>3. /\ t.rdp = s.rdp /\ t.sock = s.sock /\ t.tries = s.tries /\ t.cur = s.cur /\ t.rx = s.rx
      /\ t.tx = s.tx /\ t.una = s.una
  BY <1>1, <1>2 DEF ConnType
<1>4. /\ Fresh(e, s, sent[e], user[e], rcvd[e]) /\ Unbegun(s, g, net[f]) /\ Unbegun(g, s, net[e])
      /\ Path(e, s, g, sent[e], rcvd[f], net[e]) /\ Path(f, g, s, sent[f], rcvd[e], net[f])
      /\ sent[f] \in Nat /\ rcvd[e] \in Seq(Nat) /\ Len(rcvd[e]) <= Len(rcvd[e])
  BY <1>1, LenProperties DEF Before
<1>5. Fresh(e, t, sent[e], user'[e], rcvd[e])
  <2>1. s.tries # 0 /\ ~(s.rdp \in Live /\ s.sock)
    <3>1. s.backlog # 0
      BY <1>2
    <3> QED
      BY <1>4, <3>1 DEF Fresh
  <2> QED
    BY <1>3, <1>4, <2>1 DEF Fresh
<1>6. Unbegun(t, g, net'[f]) /\ (g.tries = 0 => t.rdp \notin Live)
  BY <1>2, <1>3, <1>4 DEF Unbegun
<1>7. /\ net'[f] \subseteq net[f] \cup out /\ net[e] \subseteq net[e]
      /\ \A k \in 1 .. sent[f] : Has(s, rcvd[e], k) => Has(t, rcvd[e], k)
      /\ \A x \in out : Answer(f, t, sent[f], rcvd[e], x)
  BY <1>2, <1>3 DEF Has
<1> HIDE DEF s, t, g, out
<1>8. Path(e, t, g, sent[e], rcvd[f], net[e])
  BY <1>3, <1>4, <1>7, SenderSide
<1>9. Path(f, g, t, sent[f], rcvd[e], net'[f])
  <2>1. /\ t.rdp \in Live <=> s.rdp \in Live
        /\ t.rdp \in Going => s.rdp \in Going
        /\ t.rdp \in Going => \A k \in 1 .. sent[f] : Has(s, rcvd[e], k) => Has(t, rcvd[e], k)
        /\ t.rdp \in Going => \A x \in out : Answer(f, t, sent[f], rcvd[e], x)
    BY <1>3, <1>7
  <2> HIDE DEF e, f
  <2> QED
    BY <1>3, <1>4, <1>7, <2>1, ReceiverSide
<1> QED
  BY <1>1, <1>2, <1>5, <1>6, <1>8, <1>9, FlowMove DEF t, g

(* snd_una stands for a number next to what the receiver has.               *)
LEMMA UnaBounds ==
  ASSUME Single, NEW e \in Ends, NEW s, NEW r \in Seq(Nat), Una(e, s, r), Len(r) <= MaxSend[e]
  PROVE  \E u \in 0 - 2 * Window .. Len(r) + 1 : s.una = N(e, u) /\ InSpan(e, u) /\ InSpan(e, u + Window)
<1> DEFINE q == Len(r)
           x == MaxSend[e]
<1>1. SpanFacts(Iss[e][1], x) /\ q \in Nat /\ q <= x
  BY SpanIs, LenProperties
<1>2. \E u \in 0 - 2 * Window .. q + 1 : s.una = N(e, u)
  <2> HIDE DEF q, x
  <2>1. 0 .. q + 1 \subseteq 0 - 2 * Window .. q + 1 /\ 0 - 2 * Window .. 0 \subseteq 0 - 2 * Window .. q + 1
    BY <1>1 DEF SpanFacts
  <2> QED
    BY <2>1 DEF Una, q
<1>3. PICK u \in 0 - 2 * Window .. q + 1 : s.una = N(e, u)
  BY <1>2
<1>4. InSpan(e, u) /\ InSpan(e, u + Window)
  <2> HIDE DEF q, x
  <2>1. u \in Int /\ 0 - 2 * Window <= u /\ u <= q + 1
    BY <1>1, <1>3 DEF SpanFacts
  <2> DEFINE v == u + Window
  <2>2. /\ v \in Int /\ 0 - (2 * Window + 1) <= v /\ v <= x + 2 * Window + 1
        /\ 0 - (2 * Window + 1) <= u /\ u <= x + 2 * Window + 1
    BY <1>1, <2>1 DEF SpanFacts
  <2> HIDE DEF v
  <2>3. InSpan(e, u) /\ InSpan(e, v)
    BY <2>1, <2>2 DEF InSpan, x
  <2> QED
    BY <2>3 DEF v
<1> QED
  BY <1>3, <1>4

(* A sender whose window is not full is within a window of the receiver: the *)
(* test of csp_rdp_send lets one message more than the window out.          *)
LEMMA WindowOpen ==
  ASSUME Single, NEW e \in Ends, NEW s, NEW r \in Seq(Nat), Una(e, s, r), Len(r) <= MaxSend[e],
         NEW n \in Nat, n < MaxSend[e], s.nxt = N(e, n + 1), ~WindowFull(s)
  PROVE  n + 1 <= Len(r) + Window + 1
<1> DEFINE q == Len(r)
           x == MaxSend[e]
<1>1. SpanFacts(Iss[e][1], x) /\ q \in Nat /\ q <= x /\ n < x
  BY SpanIs, LenProperties
<1>2. PICK u \in 0 - 2 * Window .. q + 1 :
         s.una = N(e, u) /\ InSpan(e, u) /\ InSpan(e, u + Window)
  BY UnaBounds
<1> HIDE DEF q, x
<1>3. /\ u \in Int /\ 0 - 2 * Window <= u /\ u <= q + 1 /\ Window \in Int
      /\ 0 - (2 * Window + 1) <= Window /\ Window <= 2 * Window + 1
  BY <1>1, <1>2 DEF SpanFacts
<1>4. Wrap16(s.una + Window) = N(e, u + Window)
  BY <1>2, <1>3, NumberPlus
<1> DEFINE a == u + Window
           c == n + 1
<1>5. /\ a \in Int /\ c \in Int /\ 0 - (2 * Window + 1) <= c /\ c <= x + 2 * Window + 1
      /\ a - c <= x + 2 * Window + 1 /\ c - a <= x + 2 * Window + 1
  BY <1>1, <1>3 DEF SpanFacts
<1>6. InSpan(e, c) /\ InSpan(e, a)
  BY <1>2, <1>5 DEF InSpan, x
<1>7. s.nxt = N(e, c) /\ Wrap16(s.una + Window) = N(e, a)
  BY <1>4
<1>8. ~(a < c) => n + 1 <= q + Window + 1
  BY <1>1, <1>3
<1> HIDE DEF a, c
<1>9. SeqBefore(N(e, a), N(e, c)) <=> a < c
  BY <1>5, <1>6, NumberBefore DEF x
<1>10. ~(a < c)
  BY <1>7, <1>9 DEF WindowFull, SeqAfter
<1> QED
  BY <1>8, <1>10 DEF q

(* What flush_eack of an acknowledged segment forgets was received.         *)
LEMMA AckedIsHeld ==
  ASSUME Single, NEW e \in Ends, NEW s, NEW r \in Seq(Nat), Una(e, s, r), Len(r) <= MaxSend[e],
         NEW k \in Int, 1 <= k, k <= MaxSend[e], SeqBefore(N(e, k), s.una)
  PROVE  k <= Len(r)
<1> DEFINE q == Len(r)
           x == MaxSend[e]
<1>1. SpanFacts(Iss[e][1], x) /\ q \in Nat /\ q <= x /\ k <= x
  BY SpanIs, LenProperties
<1>2. PICK u \in 0 - 2 * Window .. q + 1 :
         s.una = N(e, u) /\ InSpan(e, u) /\ InSpan(e, u + Window)
  BY UnaBounds
<1> HIDE DEF q, x
<1>3. /\ u \in Int /\ 0 - 2 * Window <= u /\ u <= q + 1
  BY <1>1, <1>2 DEF SpanFacts
<1>4. /\ 0 - (2 * Window + 1) <= k /\ k <= x + 2 * Window + 1
      /\ u - k <= x + 2 * Window + 1 /\ k - u <= x + 2 * Window + 1
  BY <1>1, <1>3 DEF SpanFacts
<1>5. InSpan(e, k)
  BY <1>4 DEF InSpan, x
<1>6. SeqBefore(N(e, k), N(e, u)) <=> k < u
  BY <1>2, <1>4, <1>5, NumberBefore DEF x
<1> QED
  BY <1>1, <1>2, <1>3, <1>6 DEF q

(* Sending a message: it is in tx_queue from now on, and in the window.     *)
LEMMA TransmitFlow ==
  ASSUME Single, AInv, SInv, FInv, NEW e \in Ends, NEW s \in ConnType, NEW o, Transmit(e, s, o),
         Stays(ep[e], s), s.app = ep[e].app, s.una = ep[e].una, ~WindowFull(s),
         sent[e] < MaxSend[e], rcvd' = rcvd, user[e] # "none", user'[Peer(e)] = user[Peer(e)]
  PROVE  FInv'
<1> DEFINE n == sent[e]
           b == ep[e]
           t == ep'[e]
           f == Peer(e)
           g == ep[f]
           x == Packet({"ACK"}, b.nxt, b.cur, n + 1, {})
           out == {x}
<1>1. Types /\ Before(e) /\ f \in Ends /\ f # e
  BY BeforeIs, PeerIs DEF AInv
<1>2. Transmitted(e, s)
  BY <1>1, TransmitIs
<1>3. PICK packets : Finished(e, t, packets, net[e])
  BY <1>1, TransmitIs
<1>4. /\ t.rdp = "OPEN" /\ b.rdp = "OPEN" /\ t.tries = b.tries /\ t.sock = b.sock
      /\ t.backlog = b.backlog /\ t.una = b.una /\ t.rx = b.rx /\ t.cur = b.cur
      /\ t.tx = b.tx \cup {[syn |-> FALSE, seq |-> b.nxt, data |-> n + 1]}
      /\ s.nxt = b.nxt /\ s.una = b.una
      /\ sent' = [sent EXCEPT ![e] = n + 1]
      /\ net'[f] \subseteq net[f] \cup out
  BY <1>2 DEF Transmitted, Stays, SameNames, SamePlace, SameIn
<1>5. sent'[e] = n + 1 /\ sent'[f] = sent[f]
  BY <1>1, <1>4 DEF Types
<1>6. net'[e] = net[e] /\ ep'[f] = g
  BY <1>3 DEF Finished
<1>7. Apart(e)
  BY <1>1, <1>5, <1>6 DEF Apart
<1>8. b.rdp \in Live /\ b.rdp \in Going /\ t.rdp \in Live /\ t.rdp \in Going
  BY <1>4 DEF Live, Going
<1>9. /\ Fresh(e, b, n, user[e], rcvd[e]) /\ Unbegun(b, g, net[f]) /\ Unbegun(g, b, net[e])
      /\ Path(e, b, g, n, rcvd[f], net[e]) /\ Path(f, g, b, sent[f], rcvd[e], net[f])
      /\ n \in Nat /\ sent[f] \in Nat /\ rcvd[e] \in Seq(Nat) /\ rcvd[f] \in Seq(Nat)
      /\ Len(rcvd[e]) <= Len(rcvd[e])
      /\ Sender(e, b, n) /\ Receiver(e, b, rcvd[e], sent[f])
      /\ Len(rcvd[f]) <= n
  BY <1>1, LenProperties DEF Before, Receiver
<1>10. n < MaxSend[e] /\ b.nxt = N(e, n + 1) /\ ~WindowFull(s) /\ b.tries # 0 /\ ~b.sock
  BY <1>8, <1>9, <1>4 DEF Sender, Fresh
<1> HIDE DEF n, b, t, f, g, out
<1>11. Fresh(e, t, n + 1, user'[e], rcvd[e])
  BY <1>4, <1>8, <1>9, <1>10 DEF Fresh
<1>12. Unbegun(t, g, net'[f]) /\ (g.tries = 0 => t.rdp \notin Live)
  BY <1>4, <1>8, <1>9, <1>10 DEF Unbegun
<1>13. Path(e, t, g, n + 1, rcvd[f], net[e])
  <2>1. \A m \in net[e] : Answer(e, g, n, rcvd[f], m) => Answer(e, g, n + 1, rcvd[f], m)
    <3>1. 1 .. n \subseteq 1 .. n + 1
      BY <1>9
    <3> QED
      BY <3>1 DEF Answer
  <2>2. Una(e, b, rcvd[f]) => Una(e, t, rcvd[f])
    BY <1>4 DEF Una
  <2>3. ASSUME g.rdp \in Live PROVE Held(t, g, n + 1, rcvd[f])
    <3>1. Held(b, g, n, rcvd[f]) /\ Una(e, b, rcvd[f])
      BY <1>8, <1>9, <2>3 DEF Path, Going
    <3>2. n + 1 <= Len(rcvd[f]) + Window + 1
      <4>1. Una(e, s, rcvd[f]) /\ s.nxt = N(e, n + 1)
        BY <1>4, <1>10, <3>1 DEF Una
      <4>2. Len(rcvd[f]) <= MaxSend[e]
        <5>1. MaxSend[e] \in Nat /\ Len(rcvd[f]) \in Nat
          BY <1>9, LoadAssumption, LenProperties
        <5> QED
          BY <1>9, <1>10, <5>1
      <4> QED
        BY <1>9, <1>10, <4>1, <4>2, WindowOpen
    <3>3. ASSUME NEW k \in 1 .. n + 1
          PROVE  (\E p \in t.tx : p.data = k) \/ Has(g, rcvd[f], k)
      <4>1. CASE k \in 1 .. n
        BY <1>4, <3>1, <4>1 DEF Held
      <4>2. CASE k = n + 1
        <5> DEFINE p == [syn |-> FALSE, seq |-> b.nxt, data |-> n + 1]
        <5>1. p \in t.tx /\ p.data = n + 1
          BY <1>4
        <5> QED
          BY <4>2, <5>1
      <4> QED
        BY <1>9, <4>1, <4>2
    <3> QED
      BY <3>2, <3>3 DEF Held
  <2> QED
    BY <1>8, <1>9, <2>1, <2>2, <2>3 DEF Path
<1>14. Path(f, g, t, sent[f], rcvd[e], net'[f])
  <2>1. Answer(f, b, sent[f], rcvd[e], x)
    <3>1. x.ack = b.cur /\ x.eacks = {} /\ "RST" \notin x.flags
      BY DEF Packet
    <3> HIDE DEF x
    <3> QED
      BY <1>8, <1>9, <3>1, PlainAnswer DEF f
  <2>2. \A y \in out : Answer(f, t, sent[f], rcvd[e], y)
    BY <1>4, <1>8, <2>1, AnswerSame DEF out
  <2>3. \A k \in 1 .. sent[f] : Has(b, rcvd[e], k) => Has(t, rcvd[e], k)
    BY <1>4 DEF Has
  <2> QED
    BY <1>4, <1>8, <1>9, <2>2, <2>3, ReceiverSide
<1>15. rcvd'[e] = rcvd[e]
  OBVIOUS
<1> QED
  BY <1>5, <1>6, <1>7, <1>11, <1>12, <1>13, <1>14, <1>15, FlowMove DEF n, t, f, g

(* The sender that goes to sleep on tx_wait.                                *)
LEMMA SleepFlow ==
  ASSUME AInv, SInv, FInv, NEW e \in Ends, ep' = [ep EXCEPT ![e].sem = FALSE],
         UNCHANGED <<net, sent, rcvd>>, user[e] # "none", user'[Peer(e)] = user[Peer(e)]
  PROVE  FInv'
<1> DEFINE s == ep[e]
           t == [s EXCEPT !.sem = FALSE]
<1>1. Types /\ s \in ConnType /\ Before(e) /\ Peer(e) \in Ends /\ Peer(e) # e
  BY BeforeIs, PeerIs DEF AInv, Types
<1>2. Stays(s, t) /\ t.una = s.una /\ ep'[e] = t /\ ep'[Peer(e)] = ep[Peer(e)]
  BY <1>1, SemIs DEF Types
<1> HIDE DEF t
<1>3. Same(s, t) /\ t.tx = s.tx
  BY <1>2 DEF Same, Stays, SameNames, SamePlace, SameIn
<1>4. Apart(e)
  BY <1>1, <1>2 DEF Apart
<1> QED
  BY <1>1, <1>2, <1>3, <1>4, SilentMove

(* csp_send.                                                                *)
LEMMA SendFlow ==
  ASSUME Single, AInv, SInv, FInv, NEW e \in Ends, Send(e)
  PROVE  FInv'
<1>1. /\ Types /\ ep[e] \in ConnType /\ rcvd' = rcvd /\ sent[e] < MaxSend[e] /\ user[e] # "none"
      /\ user'[Peer(e)] = user[Peer(e)]
  BY PeerIs DEF AInv, Types, Send
<1>2. \/ ep' = [ep EXCEPT ![e].sem = FALSE] /\ UNCHANGED <<net, sent>>
      \/ ~WindowFull(ep[e]) /\ \E o \in Outcomes : Transmit(e, ep[e], o)
  BY DEF Send
<1>3. CASE ep' = [ep EXCEPT ![e].sem = FALSE] /\ UNCHANGED <<net, sent>>
  BY <1>1, <1>3, SleepFlow
<1>4. CASE ~WindowFull(ep[e]) /\ \E o \in Outcomes : Transmit(e, ep[e], o)
  BY <1>1, <1>4, StaysSelf, TransmitFlow
<1> QED
  BY <1>2, <1>3, <1>4

(* The sender that is woken.                                                *)
LEMMA SendWokenFlow ==
  ASSUME Single, AInv, SInv, FInv, NEW e \in Ends, SendWoken(e)
  PROVE  FInv'
<1> DEFINE s == [ep[e] EXCEPT !.sem = FALSE]
<1>1. /\ Types /\ ep[e] \in ConnType /\ rcvd' = rcvd /\ user[e] = "blocked" /\ user[e] # "none"
      /\ user'[Peer(e)] = user[Peer(e)]
  BY PeerIs DEF AInv, Types, SendWoken
<1>2. s \in ConnType /\ Stays(ep[e], s) /\ s.app = ep[e].app /\ s.una = ep[e].una
      /\ sent[e] < MaxSend[e]
  BY <1>1, SemIs DEF Types
<1>3. \/ ep' = [ep EXCEPT ![e] = s] /\ UNCHANGED <<net, sent>>
      \/ ~WindowFull(s) /\ \E o \in Outcomes : Transmit(e, s, o)
  <2> HIDE DEF s
  <2> QED
    BY DEF SendWoken, s
<1>4. CASE ep' = [ep EXCEPT ![e] = s] /\ UNCHANGED <<net, sent>>
  BY <1>1, <1>4, SleepFlow
<1>5. CASE ~WindowFull(s) /\ \E o \in Outcomes : Transmit(e, s, o)
  <2> HIDE DEF s
  <2> QED
    BY <1>1, <1>2, <1>5, TransmitFlow
<1> QED
  BY <1>3, <1>4, <1>5

(* csp_rdp_check_timeouts drops from tx_queue what is before snd_una, and that *)
(* was received.                                                            *)
LEMMA CheckTimeoutsFlow ==
  ASSUME Single, AInv, SInv, FInv, NEW e \in Ends, CheckTimeouts(e)
  PROVE  FInv'
<1> DEFINE f == Peer(e)
           s == ep[e]
           t == ep'[e]
           g == ep[f]
<1>0. Types /\ s \in ConnType /\ Before(e) /\ EndOK(e, s, user[e])
  BY BeforeIs DEF AInv, Types
<1>1. PICK again \in SUBSET ep[e].tx, elapsed \in BOOLEAN, o \in Outcomes :
         Retransmit(e, again, elapsed, o)
  BY DEF CheckTimeouts
<1>2. PICK r : /\ Checked(e, again, r) /\ Finish(e, r, o, net[e])
               /\ r.out \in SUBSET Messages
               /\ UNCHANGED <<user, sent, rcvd>>
  BY <1>0, <1>1, RetransmitIs
<1>3. r.s \in ConnType /\ net[e] \in SUBSET net[e]
  BY <1>2 DEF Checked
<1>4. Finished(e, r.s, r.out, net[e])
  BY <1>0, <1>2, <1>3, FinishIs
<1>5. /\ t = r.s /\ net'[f] \subseteq net[f] \cup r.out /\ Apart(e) /\ sent'[e] = sent[e]
      /\ rcvd'[e] = rcvd[e] /\ user'[e] = user[e]
  BY <1>2, <1>4 DEF Finished, Apart
<1>6. /\ Same(s, t) /\ t.una = s.una /\ t.tx = Unacknowledged(s)
      /\ r.out \subseteq {PureAck(s)} \cup {Copy(e, p) : p \in again} /\ again \subseteq s.tx
      /\ s.conn /\ s.rdp # "CLOSE_WAIT"
  BY <1>2, <1>5 DEF Checked, Same, SameNames, SamePlace, SameIn
<1>7. s.rdp \in Going /\ s.rdp # "CLOSED"
  BY <1>0, <1>6 DEF EndOK, ConnType, RdpStates, Going, Live, Settled
<1>8. \A x \in r.out : Answer(f, s, sent[f], rcvd[e], x)
  <2>1. Answer(f, s, sent[f], rcvd[e], PureAck(s))
    BY <1>0, <1>7, RepliesAnswer DEF Before
  <2>2. \A p \in s.tx : Answer(f, s, sent[f], rcvd[e], Copy(e, p))
    BY <1>0, <1>7, CopyAnswers DEF Before
  <2> QED
    BY <1>6, <2>1, <2>2
<1>9. ASSUME s.rdp \in Live, g.rdp \in Live, NEW k \in 1 .. sent[e], NEW p \in s.tx, p.data = k
      PROVE  (\E y \in t.tx : y.data = k) \/ Has(g, rcvd[f], k)
  <2>1. CASE p \in t.tx
    BY <1>9, <2>1
  <2>2. CASE p \notin t.tx
    <3>1. SeqBefore(p.seq, s.una)
      BY <1>6, <2>2 DEF Unacknowledged
    <3>2. p.seq = N(e, k)
      <4>1. k # NULL
        BY NullAssumption, <1>0 DEF Before
      <4> QED
        BY <1>0, <1>9, <4>1 DEF Before, Sender
    <3>3. Una(e, s, rcvd[f]) /\ rcvd[f] \in Seq(Nat)
      BY <1>0, <1>9 DEF Before, Path, Going
    <3>4. k \in Int /\ 1 <= k /\ k <= MaxSend[e] /\ Len(rcvd[f]) <= MaxSend[e]
      <4> DEFINE n == sent[e]
                 x == MaxSend[e]
                 q == Len(rcvd[f])
      <4>1. k \in 1 .. n /\ n \in Nat /\ x \in Nat /\ n <= x /\ q \in Nat /\ q <= n
        BY <1>0, <3>3, LoadAssumption, LenProperties DEF Before, Receiver
      <4> HIDE DEF n, x, q
      <4>2. k \in Int /\ 1 <= k /\ k <= x /\ q <= x
        BY <4>1
      <4> QED
        BY <4>2 DEF x, q
    <3>5. k <= Len(rcvd[f])
      <4>1. SeqBefore(N(e, k), s.una)
        BY <3>1, <3>2
      <4> QED
        BY <3>3, <3>4, <4>1, AckedIsHeld
    <3> QED
      BY <3>5 DEF Has
  <2> QED
    BY <2>1, <2>2
<1> HIDE DEF f, s, t, g
<1> QED
  BY <1>0, <1>5, <1>6, <1>7, <1>8, <1>9, SameMove DEF f, s, t, g

(* csp_read.                                                                *)
LEMMA ReadFlow ==
  ASSUME AInv, SInv, FInv, NEW e \in Ends, Read(e)
  PROVE  FInv'
<1> DEFINE f == Peer(e)
           s == ep[e]
           t == ep'[e]
<1>1. Types /\ s \in ConnType /\ Before(e) /\ EndOK(e, s, user[e])
  BY BeforeIs DEF AInv, Types
<1>2. /\ UNCHANGED <<sent, rcvd>> /\ user'[f] = user[f] /\ user[e] # "none"
      /\ \/ UNCHANGED <<ep, net>>
         \/ Fetched(e) /\ \E out : Finished(e, ep'[e], out, net[e])
  BY <1>1, ReadIs
<1>3. CASE UNCHANGED <<ep, net>>
  BY <1>2, <1>3, StillFlow
<1>4. CASE Fetched(e) /\ \E out : Finished(e, ep'[e], out, net[e])
  <2> DEFINE out == {PureAck(s)}
  <2>1. PICK packets : Finished(e, ep'[e], packets, net[e])
    BY <1>4
  <2>2. /\ Apart(e) /\ sent'[e] = sent[e] /\ rcvd'[e] = rcvd[e]
    BY <1>2, <2>1 DEF Finished, Apart
  <2>3. /\ net'[f] \subseteq net[f] \cup out /\ Same(s, t) /\ t.tx = s.tx /\ t.una = s.una
        /\ s.rdp # "CLOSED"
    BY <1>1, <1>4 DEF Fetched, Stays, SameNames, SamePlace, SameIn, Same, EndOK, Settled
  <2>4. ASSUME s.rdp \in Going PROVE \A x \in out : Answer(f, s, sent[f], rcvd[e], x)
    BY <1>1, <2>4, RepliesAnswer DEF Before
  <2> HIDE DEF out, f, s, t
  <2> QED
    BY <1>1, <1>2, <2>2, <2>3, <2>4, SameMove DEF f, s, t
<1> QED
  BY <1>2, <1>3, <1>4

(* The invariant holds at the start.                                        *)
LEMMA FInvInit == Single /\ Init => FInv
<1> SUFFICES ASSUME Single, Init PROVE FInv
  OBVIOUS
<1>1. \A e \in Ends : /\ ep[e] = Free /\ sent[e] = 0 /\ rcvd[e] = <<>> /\ net[e] = {}
                      /\ user[e] = "none" /\ Peer(e) \in Ends
  BY PeerIs DEF Init
<1>2. Free.rdp \notin Live /\ Free.rdp \notin Going
  BY DEF Free, Going, Live
<1>3. \A e \in Ends : /\ Fresh(e, Free, 0, "none", <<>>) /\ Unbegun(Free, Free, {})
                      /\ Path(e, Free, Free, 0, <<>>, {})
  BY <1>2 DEF Fresh, Unbegun, Path, Free
<1> QED
  BY <1>1, <1>3 DEF FInv

(* Every step of the program keeps the invariant.                           *)
LEMMA FlowStep ==
  ASSUME Single, ReaderKeepsUp, AInv, SInv, FInv, [Next]_vars
  PROVE  FInv'
<1>0. Types /\ "client" \in Ends
  BY ClientIs DEF AInv
<1>1. ASSUME NEW e \in Ends, Deliver(e) PROVE FInv'
  BY <1>1, DeliverFlow
<1>2. ASSUME NEW e \in Ends, Send(e) \/ SendWoken(e) PROVE FInv'
  BY <1>2, SendFlow, SendWokenFlow
<1>3. ASSUME NEW e \in Ends,
             ExpireConnection(e) \/ CheckTimeouts(e) \/ Read(e) \/ UserClose(e)
      PROVE  FInv'
  BY <1>3, ExpireFlow, CheckTimeoutsFlow, ReadFlow, UserCloseFlow
<1>4. ASSUME NEW e \in Ends, SendTimeout(e) PROVE FInv'
  <2>1. user[e] # "none" /\ user'[Peer(e)] = user[Peer(e)] /\ UNCHANGED <<ep, net, sent, rcvd>>
    BY <1>0, <1>4, PeerIs DEF SendTimeout, Types
  <2> QED
    BY <2>1, StillFlow
<1>5. ASSUME NEW e \in Ends, NEW m, net' = [net EXCEPT ![e] = @ \ {m}],
             UNCHANGED <<ep, user, sent, rcvd>>
      PROVE  FInv'
  <2>1. \A d \in Ends : net'[d] \subseteq net[d]
    BY <1>0, <1>5 DEF Types
  <2> QED
    BY <1>5, <2>1, StillFlow
<1>6. CASE (\E e \in Ends : Lose(e)) \/ DeliverNowhere
  BY <1>0, <1>5, <1>6 DEF Lose, DeliverNowhere
<1>7. CASE DeliverNew
  BY <1>7, DeliverNewFlow
<1>8. CASE Connect \/ Connected \/ ConnectTimeout \/ Accept
  BY <1>8, ConnectFlow, ConnectedFlow, ConnectTimeoutFlow, AcceptFlow
<1>9. CASE UNCHANGED vars
  BY <1>0, <1>9, StillFlow DEF vars
<1> QED
  BY <1>1, <1>2, <1>3, <1>4, <1>6, <1>7, <1>8, <1>9 DEF Next, Router, User

(* The three invariants hold in every state of a connection whose reader keeps *)
(* up.                                                                      *)
THEOREM FlowInductive == Single => (Spec /\ []ReaderKeepsUp => [](AInv /\ SInv /\ FInv))
<1> SUFFICES ASSUME Single PROVE Spec /\ []ReaderKeepsUp => [](AInv /\ SInv /\ FInv)
  OBVIOUS
<1>1. Init => AInv /\ SInv /\ FInv
  BY AInvInit, SInvInit, FInvInit
<1>2. ReaderKeepsUp /\ AInv /\ SInv /\ FInv /\ [Next]_vars => AInv' /\ SInv' /\ FInv'
  BY AInvStep, StreamStep, FlowStep
<1> QED
  BY <1>1, <1>2, PTL DEF Spec

(* In an established connection both ends are OPEN and neither is fresh.    *)
LEMMA EstablishedIs ==
  ASSUME Single, AInv, SInv, FInv, Established, NEW e \in Ends
  PROVE  LET f == Peer(e)  q == Len(rcvd[f]) IN
         /\ f \in Ends /\ Peer(f) = e
         /\ sent[e] \in Nat /\ sent[e] <= MaxSend[e] /\ rcvd[f] \in Seq(Nat) /\ q \in Nat /\ q <= sent[e]
         /\ Held(ep[e], ep[f], sent[e], rcvd[f]) /\ Una(e, ep[e], rcvd[f])
         /\ ep[e].nxt = N(e, sent[e] + 1)
         /\ ep[f].cur = N(e, q) /\ Wrap16(ep[f].cur + 1) = N(e, q + 1)
<1> DEFINE f == Peer(e)
           q == Len(rcvd[f])
<1>1. Before(e) /\ f \in Ends /\ Peer(f) = e
  BY BeforeIs, PeerIs
<1>2. ep[e].rdp = "OPEN" /\ ep[f].rdp = "OPEN"
  BY <1>1 DEF Established
<1>3. ep[e].rdp \in Live /\ ep[f].rdp \in Live /\ ep[e].rdp \in Going /\ ep[f].rdp \in Going
  BY <1>2 DEF Live, Going
<1>4. /\ sent[e] \in Nat /\ sent[e] <= MaxSend[e] /\ rcvd[f] \in Seq(Nat) /\ q \in Nat /\ q <= sent[e]
      /\ Held(ep[e], ep[f], sent[e], rcvd[f]) /\ Una(e, ep[e], rcvd[f])
      /\ ep[e].nxt = N(e, sent[e] + 1) /\ ep[f].cur = N(e, q)
  BY <1>1, <1>3, LenProperties DEF Before, Path, Sender, Receiver, InStep
<1> HIDE DEF f, q
<1>5. Wrap16(ep[f].cur + 1) = N(e, q + 1)
  <2>1. q \in Int /\ 0 <= q /\ q <= MaxSend[e] + 1
    <3>1. MaxSend[e] \in Nat
      BY LoadAssumption
    <3> QED
      BY <1>4, <3>1
  <2> QED
    BY <1>4, <2>1, NumberNext
<1> QED
  BY <1>1, <1>4, <1>5 DEF f, q

(* A message leaves the tx_queue of an established connection (flush_eack,  *)
(* csp_rdp_check_timeouts) only when the receiver has it, delivered or in its *)
(* rx_queue: no loss, duplicate or old acknowledgement makes a sender forget. *)
THEOREM NeverForgotten == Single => (Spec /\ []ReaderKeepsUp => []NothingForgotten)
<1> SUFFICES ASSUME Single PROVE Spec /\ []ReaderKeepsUp => []NothingForgotten
  OBVIOUS
<1>1. AInv /\ SInv /\ FInv => NothingForgotten
  <2> SUFFICES ASSUME AInv, SInv, FInv, Established, NEW e \in Ends, NEW k \in 1 .. sent[e]
               PROVE  \/ \E p \in ep[e].tx : p.data = k
                      \/ \E p \in ep[Peer(e)].rx : p.data = k
                      \/ k <= Len(rcvd[Peer(e)])
    BY DEF NothingForgotten
  <2>1. Held(ep[e], ep[Peer(e)], sent[e], rcvd[Peer(e)])
    BY EstablishedIs
  <2> QED
    BY <2>1 DEF Held, Has
<1> QED
  BY <1>1, FlowInductive, PTL

(* snd_una of an established connection never passes the number that the    *)
(* receiver expects next, although csp_rdp_new_packet takes it from any packet *)
(* in range, old ones included.                                             *)
THEOREM HonestAck == Single => (Spec /\ []ReaderKeepsUp => []AckIsHonest)
<1> SUFFICES ASSUME Single PROVE Spec /\ []ReaderKeepsUp => []AckIsHonest
  OBVIOUS
<1>1. AInv /\ SInv /\ FInv => AckIsHonest
  <2> SUFFICES ASSUME AInv, SInv, FInv, Established, NEW e \in Ends
               PROVE  ~SeqAfter(ep[e].una, Wrap16(ep[Peer(e)].cur + 1))
    BY DEF AckIsHonest
  <2> DEFINE f == Peer(e)
             q == Len(rcvd[f])
             x == MaxSend[e]
             c == q + 1
  <2>1. /\ f \in Ends /\ sent[e] \in Nat /\ sent[e] <= x /\ rcvd[f] \in Seq(Nat) /\ q \in Nat
        /\ q <= sent[e] /\ Una(e, ep[e], rcvd[f]) /\ Wrap16(ep[f].cur + 1) = N(e, c)
    BY EstablishedIs
  <2>2. SpanFacts(Iss[e][1], x)
    BY SpanIs
  <2>3. q <= x
    <3> HIDE DEF q, x
    <3> QED
      BY <2>1, <2>2 DEF SpanFacts
  <2>4. PICK u \in 0 - 2 * Window .. q + 1 : ep[e].una = N(e, u) /\ InSpan(e, u)
    BY <2>1, <2>3, UnaBounds
  <2> HIDE DEF f, q, x
  <2>5. /\ u \in Int /\ u <= c /\ c \in Int /\ 0 - (2 * Window + 1) <= c /\ c <= x + 2 * Window + 1
        /\ c - u <= x + 2 * Window + 1 /\ u - c <= x + 2 * Window + 1
    BY <2>1, <2>2, <2>3, <2>4 DEF SpanFacts
  <2> HIDE DEF c
  <2>6. InSpan(e, c)
    BY <2>5 DEF InSpan, x
  <2>7. SeqBefore(N(e, c), N(e, u)) <=> c < u
    BY <2>4, <2>5, <2>6, NumberBefore DEF x
  <2>8. ~(c < u)
    BY <2>5
  <2> QED
    BY <2>1, <2>4, <2>7, <2>8 DEF SeqAfter, f
<1> QED
  BY <1>1, FlowInductive, PTL

(* The sender of an established connection is never further than the window and *)
(* one ahead of the receiver, whatever acknowledgement csp_rdp_send compares *)
(* with.                                                                    *)
THEOREM InWindowAlways == Single => (Spec /\ []ReaderKeepsUp => []WithinWindow)
<1> SUFFICES ASSUME Single PROVE Spec /\ []ReaderKeepsUp => []WithinWindow
  OBVIOUS
<1>1. AInv /\ SInv /\ FInv => WithinWindow
  <2> SUFFICES ASSUME AInv, SInv, FInv, Established, NEW e \in Ends
               PROVE  Wrap16(ep[e].nxt - Wrap16(ep[Peer(e)].cur + 1)) <= Window + 1
    BY DEF WithinWindow
  <2> DEFINE f == Peer(e)
             q == Len(rcvd[f])
             x == MaxSend[e]
             i == Iss[e][1]
             n == sent[e]
             a == n + 1
             c == q + 1
             d == n - q
  <2>1. /\ f \in Ends /\ n \in Nat /\ n <= x /\ q \in Nat /\ q <= n
        /\ Held(ep[e], ep[f], n, rcvd[f])
        /\ ep[e].nxt = N(e, a) /\ Wrap16(ep[f].cur + 1) = N(e, c)
    BY EstablishedIs
  <2>2. SpanFacts(i, x) /\ i \in SeqNr
    BY SpanIs
  <2>3. n <= q + Window + 1
    BY <2>1 DEF Held
  <2> HIDE DEF f, q, x, i, n
  <2>4. /\ a \in Int /\ c \in Int /\ a - c \in Int /\ a - c = d
        /\ 0 - SeqSpace <= i + a /\ i + a < 2 * SeqSpace
        /\ 0 - SeqSpace <= i + c /\ i + c < 2 * SeqSpace
        /\ a - c < SeqSpace /\ c - a < SeqSpace
        /\ 0 <= d /\ d < SeqSpace /\ d <= Window + 1 /\ d \in Int
    BY <2>1, <2>2, <2>3 DEF SpanFacts
  <2> HIDE DEF a, c, d
  <2>5. Wrap16(Wrap16(i + a) - Wrap16(i + c)) = Wrap16(a - c)
    BY <2>2, <2>4, WrapMinus
  <2>6. Wrap16(d) = d
    BY <2>2, <2>4, WrapIs DEF SpanFacts
  <2>7. Wrap16(ep[e].nxt - Wrap16(ep[f].cur + 1)) = d
    BY <2>1, <2>4, <2>5, <2>6 DEF N, i
  <2> QED
    BY <2>4, <2>7 DEF f
<1> QED
  BY <1>1, FlowInductive, PTL

(* While the reader keeps up rcv_cur counts what was put in the user's queue; *)
(* without that csp_rdp_rx_queue_flush counts messages it drops.            *)
THEOREM CurIsCount == Single => (Spec /\ []ReaderKeepsUp => []CurIsReceived)
<1> SUFFICES ASSUME Single PROVE Spec /\ []ReaderKeepsUp => []CurIsReceived
  OBVIOUS
<1>1. AInv /\ SInv /\ FInv => CurIsReceived
  <2> SUFFICES ASSUME AInv, SInv, FInv, Established, NEW e \in Ends
               PROVE  Wrap16(ep[e].cur - ep[e].irs) = Len(rcvd[e])
    BY DEF CurIsReceived
  <2> DEFINE f == Peer(e)
             q == Len(rcvd[e])
             x == MaxSend[f]
             i == Iss[f][1]
  <2>1. /\ f \in Ends /\ InStep(e, ep[e], rcvd[e], sent[f]) /\ q \in Nat /\ q <= sent[f]
        /\ sent[f] \in Nat /\ sent[f] <= x
    <3>1. Before(e)
      BY BeforeIs
    <3>2. ep[e].rdp \in Live
      BY DEF Established, Live
    <3> QED
      BY <3>1, <3>2, LenProperties DEF Before, Receiver
  <2>2. SpanFacts(i, x) /\ i \in SeqNr
    BY <2>1, SpanIs
  <2>3. ep[e].cur = Wrap16(i + q) /\ ep[e].irs = Wrap16(i + 0)
    BY <2>1 DEF InStep, N
  <2> HIDE DEF f, q, x, i
  <2>4. /\ q \in Int /\ 0 \in Int /\ q - 0 = q
        /\ 0 - SeqSpace <= i + q /\ i + q < 2 * SeqSpace
        /\ 0 - SeqSpace <= i + 0 /\ i + 0 < 2 * SeqSpace
        /\ q - 0 < SeqSpace /\ 0 - q < SeqSpace /\ 0 <= q /\ q < SeqSpace
    BY <2>1, <2>2 DEF SpanFacts
  <2>5. Wrap16(Wrap16(i + q) - Wrap16(i + 0)) = Wrap16(q - 0)
    BY <2>2, <2>4, WrapMinus
  <2>6. Wrap16(q) = q
    BY <2>2, <2>4, WrapIs DEF SpanFacts
  <2> QED
    BY <2>3, <2>4, <2>5, <2>6 DEF q
<1> QED
  BY <1>1, FlowInductive, PTL

-----------------------------------------------------------------------------
(* All that the peer sends over the connection fits the user's queue.       *)
AllFits == \A e \in Ends : MaxSend[Peer(e)] <= RxCap

(* Then nothing is asked of the reader: it may come as late as it likes, and *)
(* the protocol still implements the reliable stream.                       *)
THEOREM FittingStream == Single /\ AllFits => (Spec => ImplementsStream)
<1> SUFFICES ASSUME Single, AllFits PROVE Spec => ImplementsStream
  OBVIOUS
<1>1. ReaderKeepsUp
  BY DEF AllFits, ReaderKeepsUp, Room
<1> QED
  BY <1>1, StreamRefinement, PTL

(* Nor for what csp_rdp_check_ack does to the sender: no message is forgotten *)
(* early, no number acknowledged that was not received, the window is kept.  *)
THEOREM FittingFlow ==
  Single /\ AllFits => (Spec => [](NothingForgotten /\ AckIsHonest /\ WithinWindow /\ CurIsReceived))
<1> SUFFICES ASSUME Single, AllFits
             PROVE  Spec => [](NothingForgotten /\ AckIsHonest /\ WithinWindow /\ CurIsReceived)
  OBVIOUS
<1>1. ReaderKeepsUp
  BY DEF AllFits, ReaderKeepsUp, Room
<1> QED
  BY <1>1, NeverForgotten, HonestAck, InWindowAlways, CurIsCount, PTL
=============================================================================
