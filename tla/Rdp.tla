-------------------------------- MODULE Rdp --------------------------------
(***************************************************************************)
(* The reliable datagram protocol of libcsp (transport/csp_rdp.c) between a *)
(* client that called csp_connect(CSP_O_RDP) and a server that listens, one *)
(* connection structure on each node, over a network that loses, reorders   *)
(* and duplicates.  On each node a router task runs csp_rdp_new_packet and  *)
(* csp_rdp_check_timeouts while a user task calls csp_connect, csp_send,    *)
(* csp_read, csp_accept and csp_close.  A call is one step; clocks are      *)
(* abstracted: a timeout that is armed may have expired or not.             *)
(***************************************************************************)
EXTENDS RdpSeq, Sequences, FiniteSets, FiniteSetsExt, SequencesExt

CONSTANTS
  Window,        \* csp_rdp_window_size
  AckDelay,      \* csp_rdp_ack_delay_count
  TxCap,         \* length of rdp.tx_queue (CSP_RDP_MAX_WINDOW)
  RxCap,         \* length of one rx_queue of the connection (CSP_RX_QUEUE_LENGTH)
  Backlog,       \* length of the listening socket's queue of connections
  Iss,           \* Iss[e][k]: initial sequence number of e's k-th attempt
  MaxSend,       \* bound: MaxSend[e] messages are given to csp_send at e
  ChanCap,       \* bound: packets in flight in one direction
  Outcomes,      \* of handing a packet to the interface: "sent", maybe "failed"
  Duplicates,    \* BOOLEAN: may the network deliver a packet twice?
  MayTimeOut,    \* ends whose connection timeouts may expire
  MayClose,      \* ends whose user may close at any time
  NULL

Ends == {"client", "server"}
Peer(e) == IF e = "client" THEN "server" ELSE "client"

ASSUME WindowAssumption == Window \in Nat \ {0} /\ 4 * Window + 2 < SeqSpace
ASSUME CapAssumption == TxCap \in Nat \ {0} /\ RxCap \in Nat /\ RxCap > 2 * Window
ASSUME LoadAssumption == /\ AckDelay \in Nat /\ Backlog \in Nat
                         /\ \A e \in Ends : Iss[e] \in Seq(SeqNr) /\ MaxSend[e] \in Nat
ASSUME NullAssumption == NULL \notin Nat

VARIABLES
  ep,      \* ep[e]: the connection structure of e, see below
  user,    \* user[e]: what the user task of e is doing
  net,     \* net[e]: packets on their way to e
  sent,    \* sent[e]: number of messages csp_send accepted at e (history)
  rcvd     \* rcvd[e]: messages handed to e's connection, in order (history)

vars == <<ep, user, net, sent, rcvd>>

(* conn: allocated or not; rdp: protocol state; sock: conn->socket # NULL;  *)
(* sem: tx_wait; tx, rx: segments not acknowledged, segments out of order;  *)
(* app: the rx_queue read by csp_read; tries: connections begun (bound).    *)
Free == [conn |-> FALSE, rdp |-> "CLOSED", sock |-> FALSE, sem |-> FALSE,
         iss |-> 0, nxt |-> 0, una |-> 0, irs |-> 0, cur |-> 0, lsa |-> 0,
         tx |-> {}, rx |-> {}, app |-> <<>>, tries |-> 0, backlog |-> 0]

(* none: no handle; waiting, retrying: in csp_rdp_connect; open: holds a    *)
(* handle; blocked: in csp_rdp_send, waiting for window; eof: csp_read gave *)
(* NULL; done: the client's only connection is over.                        *)
UserStates == {"none", "waiting", "retrying", "open", "blocked", "eof", "done"}
Holding == {"open", "blocked", "eof"}

Packet(flags, seq, ack, data, eacks) ==
  [flags |-> flags, seq |-> seq, ack |-> ack, data |-> data, eacks |-> eacks]

Init == /\ ep = [e \in Ends |-> Free]
        /\ user = [e \in Ends |-> "none"]
        /\ net = [e \in Ends |-> {}]
        /\ sent = [e \in Ends |-> 0]
        /\ rcvd = [e \in Ends |-> <<>>]

-----------------------------------------------------------------------------
(* Transmission.  A step leaves the new connection structure s and the set  *)
(* of packets it sends; o says whether csp_send_direct took them.  A link   *)
(* that is full loses them.                                                 *)
InFlight(e, packets, o) ==
  IF o = "sent" /\ Cardinality(net[Peer(e)] \cup packets) <= ChanCap
  THEN net[Peer(e)] \cup packets ELSE net[Peer(e)]

(* csp_rdp_send_cmp: an ACK that left the node updates rcv_lsa.             *)
Acked(s, flags, o) ==
  IF "ACK" \in flags /\ o # "failed" THEN [s EXCEPT !.lsa = s.cur] ELSE s

Reset(s) == Packet({"ACK", "RST"}, s.nxt, s.cur, NULL, {})
(* Mutant: acknowledge the next number expected, not the last received.     *)
PureAckNext(s) == Packet({"ACK"}, s.nxt, Wrap16(s.cur + 1), NULL, {})

PureAck(s) == Packet({"ACK"}, s.nxt, s.cur, NULL, {})
Eack(s) == Packet({"ACK", "EAK"}, s.nxt, s.cur, NULL, {p.seq : p \in s.rx})
SynAck(s) == Packet({"ACK", "SYN"}, s.iss, s.irs, NULL, {})

Syn(i) == [syn |-> TRUE, seq |-> i, data |-> NULL]    \* in tx

(* A result: the new structure, the packets it sends, the data it accepted. *)
Result(s, packets, data) == [s |-> s, out |-> packets, data |-> data]
Reply(s, p, o) == Result(Acked(s, p.flags, o), {p}, <<>>)
Quiet(s) == Result(s, {}, <<>>)

(* csp_rdp_flush_all and the reset at the end of csp_close.                 *)
Closed(s) == [s EXCEPT !.conn = FALSE, !.rdp = "CLOSED",
                       !.tx = {}, !.rx = {}, !.app = <<>>]

(* Mutant: the RESET is sent but the state is not changed.                  *)
CloseStaysOpen(s, o) ==
  IF s.rdp \in {"CLOSED", "CLOSE_WAIT"} THEN Quiet(Closed(s)) ELSE Reply(s, Reset(s), o)

(* Mutant: CLOSE_WAIT is not told from the live states.                     *)
CloseAgain(s, o) ==
  IF s.rdp = "CLOSED" THEN Quiet(Closed(s))
  ELSE Reply([s EXCEPT !.rdp = "CLOSE_WAIT"], Reset(s), o)

(* csp_close with csp_rdp_close: the first close of a live connection only  *)
(* sends a RESET and waits for the answer in CLOSE_WAIT.  (A csp_close that *)
(* gives up waiting for conn_lock is left to ConnPool: the locks of a node  *)
(* are shared by all its connections.)                                      *)
Close(s, o) ==
  IF s.rdp \in {"CLOSED", "CLOSE_WAIT"}
  THEN Quiet(Closed(s))
  ELSE Reply([s EXCEPT !.rdp = "CLOSE_WAIT"], Reset(s), o)

(* discard_close: tell the user who holds the handle by a NULL packet.      *)
DiscardClose(r, o) ==
  IF ~r.s.sock
  THEN [r EXCEPT !.s.app = IF Len(@) < RxCap THEN Append(@, NULL) ELSE @]
  ELSE LET c == Close(r.s, o) IN [c EXCEPT !.out = @ \cup r.out]

-----------------------------------------------------------------------------
(* csp_rdp_check_ack and csp_rdp_should_ack, with ack_timeout elapsed or not *)
HasRoom(s) == RxCap - Len(s.app) > 2 * Window
ShouldAck(s, elapsed) ==
  HasRoom(s) /\ (elapsed \/ SeqAfter(s.cur, Wrap16(s.lsa + AckDelay)))

CheckAck(s, elapsed, o) ==
  IF ShouldAck(s, elapsed) THEN Reply(s, PureAck(s), o) ELSE Quiet(s)

(* Mutant: compare with rcv_cur, not with the number after it.              *)
BufferedOffByOne(s, k) == {p \in s.rx : p.seq = Wrap16(s.cur + k - 1)}

(* csp_rdp_rx_queue_flush: the segments that continue the stream.           *)
Buffered(s, k) == {p \in s.rx : p.seq = Wrap16(s.cur + k)}
RunLength(s) == CHOOSE n \in 0 .. Cardinality(s.rx) :
                  /\ \A k \in 1 .. n : Buffered(s, k) # {}
                  /\ Buffered(s, n + 1) = {}

(* A segment that does not fit in the user's queue is dropped, and rcv_cur   *)
(* advances all the same: csp_rdp_receive_data's result is not looked at.   *)
FlushRx(r) ==
  LET s == r.s
      n == RunLength(s)
      run == [k \in 1 .. n |-> (CHOOSE p \in Buffered(s, k) : TRUE).data]
      fit == SubSeq(run, 1, Min({n, RxCap - Len(s.app)}))
  IN  [r EXCEPT !.s.cur = Wrap16(s.cur + n),
                !.s.rx = {p \in @ : \A k \in 1 .. n : p.seq # Wrap16(s.cur + k)},
                !.s.app = @ \o fit,
                !.data = @ \o fit]

(* csp_rdp_receive_data: pass the connection to the socket, once, then the  *)
(* data to the connection.                                                  *)
Passed(s) == IF s.sock THEN [s EXCEPT !.sock = FALSE, !.backlog = @ + 1] ELSE s

(* Mutant: rcv_cur is not updated.                                          *)
InOrderAgain(s, m, elapsed, o) ==
  LET p == Passed(s)
      acked == CheckAck([p EXCEPT !.app = Append(@, m.data)], elapsed, o)
  IN  IF Len(s.app) = RxCap THEN Quiet(p)
      ELSE FlushRx([acked EXCEPT !.data = <<m.data>>])

InOrder(s, m, elapsed, o) ==
  LET p == Passed(s)
      q == [p EXCEPT !.app = Append(@, m.data), !.cur = m.seq]
      acked == CheckAck(q, elapsed, o)
  IN  IF s.sock /\ s.backlog = Backlog THEN Quiet(s)
      ELSE IF Len(s.app) = RxCap THEN Quiet(p)
      ELSE FlushRx([acked EXCEPT !.data = <<m.data>>])

OutOfOrder(s, m, o) ==
  IF \E p \in s.rx : p.seq = m.seq THEN Quiet(s)
  ELSE LET q == [s EXCEPT !.rx = @ \cup {[seq |-> m.seq, data |-> m.data]}]
       IN  Reply(q, Eack(q), o)

(* Mutant: an ACK that says nothing new is out of range, data and all.      *)
AckIsNew(s, m) == ~SeqBefore(m.ack, s.una) /\ SeqBefore(m.ack, s.nxt)

AckInRange(s, m) ==
  SeqBetween(m.ack, Wrap16(s.una - 1 - 2 * Window), Wrap16(s.nxt - 1))

-----------------------------------------------------------------------------
(* csp_rdp_new_packet, by protocol state.                                   *)
OnReset(s, m, o) ==
  LET t == IF "ACK" \in m.flags THEN [s EXCEPT !.una = Wrap16(m.ack + 1)] ELSE s
  IN  IF t.rdp \in {"CLOSE_WAIT", "CLOSED"} THEN Quiet(Closed(t))
      ELSE IF m.seq = Wrap16(t.cur + 1)
      THEN DiscardClose(Reply([t EXCEPT !.rdp = "CLOSE_WAIT"], Reset(t), o), o)
      ELSE Quiet(t)

InClosed(s, m, o) ==
  IF "SYN" \notin m.flags
  THEN DiscardClose(Result(s, {Packet({"RST"}, s.nxt, s.cur, NULL, {})}, <<>>), o)
  ELSE LET i == Iss["server"][s.tries]
           t == [s EXCEPT !.iss = i, !.nxt = Wrap16(i + 1), !.una = i,
                          !.cur = m.seq, !.irs = m.seq, !.lsa = m.seq,
                          !.rdp = "SYN_RCVD",
                          !.tx = @ \cup {Syn(i)}]
       IN  Reply(t, SynAck(t), o)

InSynSent(s, m, o) ==
  IF {"SYN", "ACK"} \subseteq m.flags
  THEN Quiet([s EXCEPT !.cur = m.seq, !.irs = m.seq, !.lsa = Wrap16(m.seq - 1),
                       !.una = Wrap16(m.ack + 1), !.rdp = "OPEN", !.sem = TRUE])
  ELSE IF "ACK" \in m.flags
  THEN Result([s EXCEPT !.sem = TRUE],
              {Packet({"RST"}, s.nxt, s.cur, NULL, {})}, <<>>)
  ELSE DiscardClose(Quiet(s), o)

InOpen(s, m, elapsed, o) ==
  IF "SYN" \in m.flags \/ "ACK" \notin m.flags
  THEN IF m.seq # s.irs THEN DiscardClose(Quiet(s), o) ELSE Quiet(s)
  ELSE IF ~SeqBetween(m.seq, Wrap16(s.cur + 1), Wrap16(s.cur + 2 * Window))
  THEN Reply(s, IF s.rdp = "SYN_RCVD" THEN SynAck(s) ELSE Eack(s), o)
  ELSE IF ~AckInRange(s, m) THEN Quiet(s)
  ELSE IF s.rdp = "SYN_RCVD" /\ m.ack # s.iss THEN DiscardClose(Quiet(s), o)
  ELSE LET t == [s EXCEPT !.rdp = "OPEN", !.una = Wrap16(m.ack + 1)]
       IN  CASE "EAK" \in m.flags ->
                  Quiet([t EXCEPT !.tx = {p \in @ : p.seq \notin m.eacks}])
             [] "EAK" \notin m.flags /\ m.data = NULL -> Quiet(t)
             [] "EAK" \notin m.flags /\ m.data # NULL ->
                  IF m.seq = Wrap16(t.cur + 1) THEN InOrder(t, m, elapsed, o)
                  ELSE OutOfOrder(t, m, o)

InCloseWait(s, m, o) ==
  IF "SYN" \in m.flags \/ "ACK" \notin m.flags \/ ~AckInRange(s, m) THEN Quiet(s)
  ELSE Reply([s EXCEPT !.una = Wrap16(m.ack + 1)], Reset(s), o)

NewPacket(s, m, elapsed, o) ==
  CASE "RST" \in m.flags -> OnReset(s, m, o)
    [] "RST" \notin m.flags /\ s.rdp = "CLOSED" -> InClosed(s, m, o)
    [] "RST" \notin m.flags /\ s.rdp = "SYN_SENT" -> InSynSent(s, m, o)
    [] "RST" \notin m.flags /\ s.rdp \in {"SYN_RCVD", "OPEN"} ->
         InOpen(s, m, elapsed, o)
    [] "RST" \notin m.flags /\ s.rdp = "CLOSE_WAIT" -> InCloseWait(s, m, o)

-----------------------------------------------------------------------------
(* The router task.                                                         *)

(* csp_conn_new for a packet to the listening socket: in a structure that    *)
(* was closed, or that a connecting task of the node left in CLOSE_WAIT (as  *)
(* in GivenUp), where a SYN is ignored.                                     *)
Accepted(s, rdp) == [s EXCEPT !.conn = TRUE, !.sock = TRUE, !.app = <<>>,
                              !.rdp = rdp, !.tries = @ + 1]

Taken(e, m) == IF Duplicates THEN {net[e], net[e] \ {m}} ELSE {net[e] \ {m}}

Finish(e, r, o, left) ==
  /\ ep' = [ep EXCEPT ![e] = r.s]
  /\ net' = [net EXCEPT ![e] = left, ![Peer(e)] = InFlight(e, r.out, o)]

(* csp_route_work: a packet for the connection, or for the listening socket. *)
Deliver(e) ==
  \E m \in net[e], elapsed \in BOOLEAN, o \in Outcomes :
    /\ ep[e].conn
    /\ LET r == NewPacket(ep[e], m, elapsed, o)
       IN  /\ \E left \in Taken(e, m) : Finish(e, r, o, left)
           /\ rcvd' = [rcvd EXCEPT ![e] = @ \o r.data]
    /\ UNCHANGED <<user, sent>>

DeliverNew ==
  LET e == "server" IN
  \E m \in net[e], o \in Outcomes, rdp \in {"CLOSED", "CLOSE_WAIT"} :
    /\ ~ep[e].conn
    /\ ep[e].tries < Len(Iss[e])
    /\ LET r == NewPacket(Accepted(ep[e], rdp), m, FALSE, o)
       IN  \E left \in Taken(e, m) : Finish(e, r, o, left)
    /\ rcvd' = [rcvd EXCEPT ![e] = <<>>]
    /\ UNCHANGED <<user, sent>>

(* No socket is bound to the client's port: the packet is dropped.          *)
DeliverNowhere ==
  \E m \in net["client"] :
    /\ ~ep["client"].conn
    /\ net' = [net EXCEPT !["client"] = @ \ {m}]
    /\ UNCHANGED <<ep, user, sent, rcvd>>

(* csp_rdp_check_timeouts, the lost and the half-closed connections.        *)
ExpireConnection(e) ==
  \E o \in Outcomes :
    /\ e \in MayTimeOut
    /\ ep[e].conn
    /\ ep[e].sock \/ ep[e].rdp = "CLOSE_WAIT"
    /\ Finish(e, Close(ep[e], o), o, net[e])
    /\ UNCHANGED <<user, sent, rcvd>>

SynFlags(e) == IF e = "client" THEN {"SYN"} ELSE {"ACK", "SYN"}
Copy(e, p) ==
  Packet(IF p.syn THEN SynFlags(e) ELSE {"ACK"}, p.seq, ep[e].cur, p.data, {})

(* Mutant: snd_una itself counts as acknowledged.                           *)
UnacknowledgedLate(s) == {p \in s.tx : SeqAfter(p.seq, s.una)}

Unacknowledged(s) == {p \in s.tx : ~SeqBefore(p.seq, s.una)}

(* Mutant: the sender is woken one segment too late.                        *)
RoomToSendLate(s) == /\ s.rdp = "OPEN"
                     /\ Cardinality(s.tx) + 1 < Window
                     /\ SeqBefore(Wrap16(s.nxt - s.una), 2 * Window)

RoomToSend(s) == /\ s.rdp = "OPEN"
                 /\ Cardinality(s.tx) < Window
                 /\ SeqBefore(Wrap16(s.nxt - s.una), 2 * Window)

(* csp_rdp_check_timeouts, the rest: forget what is acknowledged, retransmit *)
(* what timed out, acknowledge, wake the sender.                            *)
Retransmit(e, again, elapsed, o) ==
  LET s == [ep[e] EXCEPT !.tx = Unacknowledged(ep[e])]
      r == CheckAck(s, elapsed, o)
  IN  /\ s.conn
      /\ s.rdp # "CLOSE_WAIT"
      /\ again \subseteq s.tx
      /\ Finish(e, [r EXCEPT !.s.sem = @ \/ RoomToSend(s),
                             !.out = @ \cup {Copy(e, p) : p \in again}], o, net[e])
      /\ UNCHANGED <<user, sent, rcvd>>

CheckTimeouts(e) == \E again \in SUBSET ep[e].tx, elapsed \in BOOLEAN, o \in Outcomes :
                      Retransmit(e, again, elapsed, o)

-----------------------------------------------------------------------------
(* The user tasks.                                                          *)
(* From retry: in csp_rdp_connect up to the wait for the semaphore.  A SYN   *)
(* that cannot be sent makes csp_connect close the connection again.        *)
SendSyn(s, wait, o) ==
  LET i == Iss["client"][s.tries + 1]
      t == [s EXCEPT !.iss = i, !.nxt = Wrap16(i + 1), !.una = i, !.sem = FALSE,
                     !.rdp = "SYN_SENT", !.tx = {Syn(i)}, !.rx = {}, !.tries = @ + 1]
  IN  /\ s.tries < Len(Iss["client"])
      /\ Finish("client", IF o = "failed" THEN Quiet(Closed(t))
                          ELSE Result(t, {Packet({"SYN"}, i, 0, NULL, {})}, <<>>),
                o, net["client"])
      /\ user' = [user EXCEPT !["client"] = IF o = "failed" THEN "done" ELSE wait]
      /\ UNCHANGED <<sent, rcvd>>

(* csp_connect: csp_conn_new and the first half of csp_rdp_connect.         *)
Connect ==
  \E o \in Outcomes :
    /\ user["client"] = "none"
    /\ ~ep["client"].conn
    /\ SendSyn([ep["client"] EXCEPT !.conn = TRUE, !.sock = FALSE, !.app = <<>>],
               "waiting", o)

(* error: in csp_rdp_connect, and the csp_close in csp_connect, which does   *)
(* nothing if the router has closed the connection: the free structure is   *)
(* left in CLOSE_WAIT.                                                      *)
GivenUp(s) == IF s.conn THEN Closed(s) ELSE [s EXCEPT !.rdp = "CLOSE_WAIT"]

GiveUpConnect(s) ==
  /\ ep' = [ep EXCEPT !["client"] = GivenUp(s)]
  /\ user' = [user EXCEPT !["client"] = "done"]
  /\ UNCHANGED <<net, sent, rcvd>>

(* The semaphore was posted: connected, or half open (tried again once).    *)
Connected ==
  LET s == [ep["client"] EXCEPT !.sem = FALSE] IN
  /\ user["client"] \in {"waiting", "retrying"}
  /\ ep["client"].sem
  /\ CASE s.rdp = "OPEN" ->
            /\ ep' = [ep EXCEPT !["client"] = s]
            /\ user' = [user EXCEPT !["client"] = "open"]
            /\ UNCHANGED <<net, sent, rcvd>>
       [] s.rdp = "SYN_SENT" /\ user["client"] = "waiting" ->
            \E o \in Outcomes : SendSyn(s, "retrying", o)
       [] OTHER -> GiveUpConnect(s)

(* The wait for the semaphore timed out, maybe just before it is posted.    *)
ConnectTimeout ==
  /\ "client" \in MayTimeOut
  /\ user["client"] \in {"waiting", "retrying"}
  /\ GiveUpConnect(ep["client"])

(* Mutant: the window of the receive side, twice as large.                  *)
WindowFullLate(s) == SeqAfter(s.nxt, Wrap16(s.una + 2 * Window))

WindowFull(s) == SeqAfter(s.nxt, Wrap16(s.una + Window))

(* Mutant: snd_nxt in a type wider than 16 bits.                            *)
TransmitWide(e, s, o) ==
  LET k == sent[e] + 1
      p == [syn |-> FALSE, seq |-> s.nxt, data |-> k]
  IN  /\ s.conn /\ s.rdp = "OPEN"
      /\ Finish(e, Result([s EXCEPT !.nxt = @ + 1, !.tx = @ \cup {p}], {Copy(e, p)}, <<>>),
                o, net[e])
      /\ sent' = [sent EXCEPT ![e] = k]

(* csp_rdp_send past the window test, then csp_send_direct.  (A full         *)
(* tx_queue, or a connection that is not OPEN, makes csp_send return 0.)    *)
Transmit(e, s, o) ==
  LET k == sent[e] + 1
      p == [syn |-> FALSE, seq |-> s.nxt, data |-> k]
      t == [s EXCEPT !.nxt = Wrap16(@ + 1), !.tx = @ \cup {p}]
  IN  /\ s.conn /\ s.rdp = "OPEN"
      /\ Cardinality(s.tx) < TxCap
      /\ Finish(e, Result(t, {Copy(e, p)}, <<>>), o, net[e])
      /\ sent' = [sent EXCEPT ![e] = k]

Send(e) ==
  LET s == ep[e] IN
  /\ user[e] = "open"
  /\ sent[e] < MaxSend[e]
  /\ s.conn /\ s.rdp = "OPEN"
  /\ IF WindowFull(s)
     THEN /\ ep' = [ep EXCEPT ![e].sem = FALSE]
          /\ user' = [user EXCEPT ![e] = "blocked"]
          /\ UNCHANGED <<net, sent>>
     ELSE /\ \E o \in Outcomes : Transmit(e, s, o)
          /\ UNCHANGED user
  /\ UNCHANGED rcvd

(* The wait for window ends: look again, and send or fail.                  *)
SendWoken(e) ==
  LET s == [ep[e] EXCEPT !.sem = FALSE]
      back == user' = [user EXCEPT ![e] = "open"]
  IN  /\ user[e] = "blocked"
      /\ ep[e].sem
      /\ \/ /\ WindowFull(s)
            /\ ep' = [ep EXCEPT ![e] = s]
            /\ UNCHANGED <<user, net, sent>>
         \/ /\ ~WindowFull(s)
            /\ \E o \in Outcomes : Transmit(e, s, o)
            /\ back
         \/ /\ ~WindowFull(s)
            /\ s.rdp # "OPEN" \/ Cardinality(s.tx) >= TxCap
            /\ ep' = [ep EXCEPT ![e] = s]
            /\ back
            /\ UNCHANGED <<net, sent>>
      /\ UNCHANGED rcvd

SendTimeout(e) ==
  /\ e \in MayTimeOut
  /\ user[e] = "blocked"
  /\ user' = [user EXCEPT ![e] = "open"]
  /\ UNCHANGED <<ep, net, sent, rcvd>>

(* csp_accept: the handle may belong to a connection closed since.          *)
Accept ==
  /\ user["server"] = "none"
  /\ ep["server"].backlog > 0
  /\ ep' = [ep EXCEPT !["server"].backlog = @ - 1]
  /\ user' = [user EXCEPT !["server"] = "open"]
  /\ UNCHANGED <<net, sent, rcvd>>

(* csp_read: take a packet, then see whether that made room for an ACK.     *)
Read(e) ==
  \E elapsed \in BOOLEAN, o \in Outcomes :
    LET s == ep[e]
        eof == [user EXCEPT ![e] = "eof"]
    IN  /\ user[e] = "open"
        /\ \/ /\ ~s.conn
              /\ user' = eof
              /\ UNCHANGED <<ep, net>>
           \/ /\ s.conn /\ s.app # <<>>
              /\ Finish(e, CheckAck([s EXCEPT !.app = Tail(@)], elapsed, o), o, net[e])
              /\ user' = IF Head(s.app) = NULL THEN eof ELSE user
        /\ UNCHANGED <<sent, rcvd>>

(* csp_close by the user, who then forgets the handle.                      *)
UserClose(e) ==
  \E o \in Outcomes :
    /\ user[e] = "eof" \/ (user[e] = "open" /\ e \in MayClose)
    /\ IF ep[e].conn THEN Finish(e, Close(ep[e], o), o, net[e]) ELSE UNCHANGED <<ep, net>>
    /\ user' = [user EXCEPT ![e] = IF e = "client" THEN "done" ELSE "none"]
    /\ UNCHANGED <<sent, rcvd>>

(* The network loses a packet.                                              *)
Lose(e) ==
  \E m \in net[e] :
    /\ net' = [net EXCEPT ![e] = @ \ {m}]
    /\ UNCHANGED <<ep, user, sent, rcvd>>

Router(e) == Deliver(e) \/ ExpireConnection(e) \/ CheckTimeouts(e)
User(e) == Send(e) \/ SendWoken(e) \/ SendTimeout(e) \/ Read(e) \/ UserClose(e)

Next == \/ \E e \in Ends : Router(e) \/ User(e) \/ Lose(e)
        \/ DeliverNew \/ DeliverNowhere
        \/ Connect \/ Connected \/ ConnectTimeout \/ Accept

Spec == Init /\ [][Next]_vars

(* Fairness.  Tasks run.  The router calls csp_rdp_check_timeouts again and   *)
(* again, and a message or an ACK it repeats for ever gets through.         *)
HasSpace(e, packets) == Cardinality(net[Peer(e)] \cup packets) <= ChanCap

RepeatMessage(e, k) ==
  \E p \in ep[e].tx : /\ p.data = k
                      /\ HasSpace(e, {Copy(e, p)})
                      /\ Retransmit(e, {p}, FALSE, "sent")
RepeatAck(e) == /\ HasSpace(e, {PureAck(ep[e])})
                /\ Retransmit(e, {}, TRUE, "sent")

(* The link carries the message k, or some packet without a message, to e.  *)
Carry(e, k) == Deliver(e) /\ \E m \in net[e] : m.data = k /\ net'[e] = net[e] \ {m}

Senders == {e \in Ends : MaxSend[e] > 0}

Fairness ==
  /\ WF_vars(Accept)
  /\ \A e \in Ends : SF_vars(RepeatAck(e)) /\ SF_vars(Carry(e, NULL))
  /\ \A e \in Senders :
       /\ WF_vars(SendWoken(e)) /\ WF_vars(Read(Peer(e)))
       /\ \A k \in 1 .. MaxSend[e] :
            SF_vars(RepeatMessage(e, k)) /\ SF_vars(Carry(Peer(e), k))

FairSpec == Spec /\ Fairness

(* The router task keeps looking at the connections' timers.                 *)
CloseSpec == Spec /\ \A e \in Ends : WF_vars(ExpireConnection(e))

-----------------------------------------------------------------------------
Segments == [syn : BOOLEAN, seq : SeqNr, data : Nat \cup {NULL}]
Buffers == [seq : SeqNr, data : Nat]
Messages == [flags : SUBSET {"SYN", "ACK", "EAK", "RST"}, seq : SeqNr, ack : SeqNr,
             data : Nat \cup {NULL}, eacks : SUBSET SeqNr]

TypeOK ==
  \A e \in Ends :
    /\ ep[e].conn \in BOOLEAN /\ ep[e].sock \in BOOLEAN /\ ep[e].sem \in BOOLEAN
    /\ ep[e].rdp \in {"CLOSED", "SYN_SENT", "SYN_RCVD", "OPEN", "CLOSE_WAIT"}
    /\ {ep[e].iss, ep[e].nxt, ep[e].una, ep[e].irs, ep[e].cur, ep[e].lsa} \subseteq SeqNr
    /\ \A p \in ep[e].tx : p \in Segments
    /\ \A p \in ep[e].rx : p \in Buffers
    /\ \A i \in DOMAIN ep[e].app : ep[e].app[i] \in Nat \cup {NULL}
    /\ Len(ep[e].app) <= RxCap
    /\ ep[e].tries \in 0 .. Len(Iss[e]) /\ ep[e].backlog \in 0 .. Backlog
    /\ user[e] \in UserStates
    /\ \A m \in net[e] : m \in Messages
    /\ sent[e] \in 0 .. MaxSend[e]
    /\ rcvd[e] \in Seq(Nat)

(* Both ends are in the same connection and neither is closing it.          *)
Established == \A e \in Ends :
  ep[e].conn /\ ep[e].rdp = "OPEN" /\ ep[e].irs = ep[Peer(e)].iss

(* Messages arrive in order, none missing and none twice, whatever the       *)
(* network does to the packets (csp_rdp_new_packet and rx_queue_flush).     *)
Stream == INSTANCE ReliableStream
ImplementsStream == Stream!Spec

(* A message is only forgotten by the sender (flush_eack, check_timeouts)    *)
(* when the receiver has it, in order or in its rx_queue.                   *)
NothingForgotten ==
  Established =>
    \A e \in Ends : \A k \in 1 .. sent[e] :
      LET f == Peer(e) IN
      \/ \E p \in ep[e].tx : p.data = k
      \/ \E p \in ep[f].rx : p.data = k
      \/ k <= Len(rcvd[f])

(* The sender never believes that a message was received before it was:      *)
(* snd_una stays at or behind the number the receiver expects next.         *)
AckIsHonest ==
  Established =>
    \A e \in Ends : ~SeqAfter(ep[e].una, Wrap16(ep[Peer(e)].cur + 1))

(* Flow control: although the test of csp_rdp_send lets one message more     *)
(* than the window out, nobody is ever further ahead of the receiver.       *)
WithinWindow ==
  Established =>
    \A e \in Ends : Wrap16(ep[e].nxt - Wrap16(ep[Peer(e)].cur + 1)) <= Window + 1

(* Every segment in the rx_queue is still needed, and none that could be     *)
(* delivered stays there: rcv_cur and the queue move together.              *)
BufferedAhead ==
  \A e \in Ends : ep[e].rdp = "OPEN" =>
    \A p \in ep[e].rx :
      SeqBetween(p.seq, Wrap16(ep[e].cur + 2), Wrap16(ep[e].cur + 2 * Window))

(* A live connection always has somebody who will close it: its socket's     *)
(* timer or, once the socket let go of it, the backlog or a user task; given *)
(* that csp_close gets conn_lock (ConnPool has the one that does not).      *)
NoOrphan ==
  \A e \in Ends : ep[e].conn /\ ep[e].rdp # "CLOSE_WAIT" =>
    \/ ep[e].sock
    \/ ep[e].backlog > 0
    \/ user[e] \in Holding \cup {"waiting", "retrying"}

(* rcv_cur is "The sequence number of the last segment received correctly    *)
(* and in sequence" (csp_conn.h:62): it counts what the user will read.     *)
CurIsReceived ==
  Established => \A e \in Ends : Wrap16(ep[e].cur - ep[e].irs) = Len(rcvd[e])

(* The client believes in the connection, the server is in it or about to.   *)
Connection == \A e \in Ends :
  /\ ep[e].conn /\ ep[e].rdp \in {"SYN_RCVD", "OPEN"}
  /\ ep[e].irs = ep[Peer(e)].iss

(* Every message sent is received, unless the connection breaks.            *)
EventuallyReceived ==
  []<>(Connection => \A e \in Ends : Len(rcvd[Peer(e)]) >= sent[e])

(* A task that waits for window in csp_rdp_send is let go, unless the        *)
(* connection breaks: the semaphore drained before each wait is posted.     *)
EventuallyUnblocked ==
  []<>(Connection => \A e \in Ends : user[e] # "blocked")

(* Half-closed, a connection waits for the peer's RST or its timer, and its  *)
(* structure becomes free again although nobody holds the handle any more,  *)
(* whoever else closes it meanwhile; given that csp_close gets conn_lock.   *)
EventuallyFreed ==
  \A e \in Ends : (ep[e].conn /\ ep[e].rdp = "CLOSE_WAIT") ~> ~ep[e].conn
=============================================================================
