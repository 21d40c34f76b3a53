------------------------------- MODULE Router -------------------------------
(***************************************************************************)
(* The way of a packet buffer through the stack: from an interface through   *)
(* the router (csp_route.c) or the bridge (csp_bridge.c) to a socket, a      *)
(* connection, another interface, and as a copy to the promiscuous queue;    *)
(* and the calls of csp_io.c that send one.  Whoever holds a buffer must     *)
(* free it or give it away on every path, also when a queue is full, the     *)
(* pool is empty, there is no route or a driver fails.  Connections and the  *)
(* input fifos have modules of their own; a call is one step here, but the   *)
(* router finds a connection in one step and enqueues in another: the task   *)
(* that owns it may close it, and connect again, in between.                *)
(***************************************************************************)
EXTENDS Integers, Sequences, SequencesExt

CONSTANTS RtrBuffers,    \* the buffer pool
          RtrIncoming,   \* packets that interfaces receive: src, dst, port, in, good
          RtrLimit,      \* length of the queues
          RtrArrivals,   \* bound on packets received
          RtrCalls       \* bound on the client's transactions

(* What comes in was sent by other nodes: the links have no loop that brings  *)
(* a node its own packets back.                                             *)
ASSUME RtrAssumption ==
  /\ IsFiniteSet(RtrBuffers)
  /\ RtrLimit \in Nat \ {0}
  /\ RtrIncoming \subseteq
       [src : {"A", "B"}, dst : {"me", "A", "B", "bcast", "nowhere"},
        port : {"connless", "client", "service"}, in : {"ifA", "ifB"}, good : BOOLEAN]

VARIABLES rtrMode,    \* "router" or "bridge": which task runs
          rtrAt,      \* the packets at each place, and the free buffers
          rtrOpen,    \* the connections that are open
          rtrOut,     \* the interface last used, and how often the packet was seen (history)
          rtrCount    \* arrivals and calls so far

rtrVars == <<rtrMode, rtrAt, rtrOpen, rtrOut, rtrCount>>

(* The client's connection and the one to a service; each uses the same      *)
(* structure whenever it is opened.                                         *)
Connections == {"conn", "server"}
Queues == {"input", "promisc", "sock"} \cup Connections    \* a queue each
(* What the router's task holds: a packet, or one and the connection that it  *)
(* found for it.                                                            *)
Hands == {"router", "found"}
(* late: it was put in the queue of a connection that was closed (history).   *)
NoPacket == [buf |-> "none", src |-> "me", dst |-> "me", port |-> "service", in |-> "lo",
             good |-> TRUE, seen |-> 0, late |-> FALSE]

RtrInit == /\ rtrMode \in {"router", "bridge"}
           /\ rtrAt = [place \in Queues \cup Hands \cup {"free"} |->
                         IF place = "free" THEN SetToSeq(RtrBuffers) ELSE <<>>]
           /\ rtrOpen = {}
           /\ rtrOut = [on |-> "lo", seen |-> 0]
           /\ rtrCount = [arrivals |-> 0, calls |-> 0]

-----------------------------------------------------------------------------
(* What calls do to the places `at'.                                        *)
Freed(at, p) == [at EXCEPT !.free = Append(@, p.buf)]

(* Mutant: a packet that does not fit is forgotten.                         *)
PutOrForget(at, queue, p) ==
  IF Len(at[queue]) < RtrLimit THEN [at EXCEPT ![queue] = Append(@, p)] ELSE at

(* A packet is put in a queue, or freed if that is full.                    *)
PutOrFree(at, queue, p) ==
  IF Len(at[queue]) < RtrLimit THEN [at EXCEPT ![queue] = Append(@, p)] ELSE Freed(at, p)

(* Mutant: csp_close does not empty the receive queues.                     *)
LeftInQueue(at, queue) == at

(* csp_conn_flush_rx_queue                                                  *)
Emptied(at, queue) ==
  [at EXCEPT ![queue] = <<>>, !.free = @ \o [i \in DOMAIN at[queue] |-> at[queue][i].buf]]

(* csp_promisc_add: a copy, if there is a buffer for it.                    *)
PromiscAdd(at, p) ==
  IF at.free = <<>> THEN at
  ELSE PutOrFree([at EXCEPT !.free = Tail(@)], "promisc", [p EXCEPT !.buf = Head(at.free)])

(* csp_rtable_find_iface                                                    *)
Iface == [dst \in {"me", "A", "B", "bcast", "nowhere"} |->
  CASE dst = "me" -> "lo" [] dst = "A" -> "ifA" [] dst = "B" -> "ifB"
    [] dst = "bcast" -> "ifA" [] dst = "nowhere" -> "none"]

(* Mutant: what is sent to this node is seen by csp_send_direct already.     *)
SeenAnyOwn(p) == p.src = "me"

(* csp_send_direct: promiscuous mode sees what this node sends to others;    *)
(* the router has seen the rest or will see it.                             *)
SeenHere(p) == p.dst # "me" /\ p.src = "me"

Seen(p) == IF SeenHere(p) THEN [p EXCEPT !.seen = @ + 1] ELSE p
SeenAt(at, p) == IF SeenHere(p) THEN PromiscAdd(at, p) ELSE at

(* The interface took the packet: csp_lo_tx gives it to the router or drops  *)
(* it, the others send it and free it.                                      *)
Taken(at, p, iface) ==
  IF iface = "lo" /\ p.dst = "me" THEN PutOrFree(at, "input", [p EXCEPT !.in = "lo"])
  ELSE Freed(at, p)

(* The caller keeps the packet if there is no route, or encryption, the MTU  *)
(* or the driver refuses it, and frees it.                                  *)
SendOrFree(at, p, iface) ==
  \/ /\ iface # "none"
     /\ rtrAt' = Taken(SeenAt(at, p), Seen(p), iface)
     /\ rtrOut' = [on |-> iface, seen |-> Seen(p).seen]
  \/ /\ rtrAt' = Freed(IF iface = "none" THEN at ELSE SeenAt(at, p), p)
     /\ UNCHANGED rtrOut

-----------------------------------------------------------------------------
(* An interface receives a packet into a free buffer: csp_qfifo_write frees   *)
(* it if there is no room.                                                  *)
Received(p, buf) == [src |-> p.src, dst |-> p.dst, port |-> p.port, in |-> p.in,
                     good |-> p.good, buf |-> buf, seen |-> 0, late |-> FALSE]

RtrReceive ==
  /\ rtrCount.arrivals < RtrArrivals
  /\ rtrAt.free # <<>>
  /\ \E p \in RtrIncoming :
       rtrAt' = PutOrFree([rtrAt EXCEPT !.free = Tail(@)], "input",
                          Received(p, Head(rtrAt.free)))
  /\ rtrCount' = [rtrCount EXCEPT !.arrivals = @ + 1]
  /\ UNCHANGED <<rtrMode, rtrOpen, rtrOut>>

(* csp_route_work, csp_bridge: the next packet is read and copied for        *)
(* promiscuous mode.                                                        *)
RtrRead ==
  /\ rtrAt.router = <<>> /\ rtrAt.found = <<>> /\ rtrAt.input # <<>>
  /\ LET p == Head(rtrAt.input) IN
       rtrAt' = PromiscAdd([rtrAt EXCEPT !.input = Tail(@),
                                         !.router = <<[p EXCEPT !.seen = @ + 1]>>], p)
  /\ UNCHANGED <<rtrMode, rtrOpen, rtrOut, rtrCount>>

Routed == Head(rtrAt.router)
Passed == [rtrAt EXCEPT !.router = <<>>]
RouterHas == rtrMode = "router" /\ rtrAt.router # <<>> /\ rtrAt.found = <<>>
ForMe(p) == p.dst \in {"me", "bcast"}

(* It is for another node: split horizon, and no route, free it ...         *)
MayLeave(p) == Iface[p.dst] # "none" /\ Iface[p.dst] # p.in

RtrForward == /\ RouterHas /\ ~ForMe(Routed)
              /\ IF MayLeave(Routed) THEN SendOrFree(Passed, Routed, Iface[Routed.dst])
                 ELSE rtrAt' = Freed(Passed, Routed) /\ UNCHANGED rtrOut
              /\ UNCHANGED <<rtrMode, rtrOpen, rtrCount>>

(* ... or for this one: an open connection is found, without a lock, ...     *)
Destination == [port \in {"connless", "client", "service"} |->
  CASE port = "connless" -> "sock" [] port = "client" -> "conn" [] port = "service" -> "server"]

RtrFind ==
  /\ RouterHas /\ ForMe(Routed)
  /\ Routed.good /\ Destination[Routed.port] \in rtrOpen
  /\ rtrAt' = [rtrAt EXCEPT !.router = <<>>, !.found = <<Routed>>]
  /\ UNCHANGED <<rtrMode, rtrOpen, rtrOut, rtrCount>>

(* ... and csp_conn_enqueue_packet puts the packet in its queue, whatever    *)
(* has become of the connection; ...                                        *)
Found == Head(rtrAt.found)

RtrEnqueue ==
  /\ rtrAt.found # <<>>
  /\ LET c == Destination[Found.port] IN
       rtrAt' = PutOrFree([rtrAt EXCEPT !.found = <<>>], c,
                          [Found EXCEPT !.late = c \notin rtrOpen])
  /\ UNCHANGED <<rtrMode, rtrOpen, rtrOut, rtrCount>>

(* ... or its options, its security check or a missing socket or connection   *)
(* end its way, or it goes to a connection-less socket, or to a service on a  *)
(* new connection.                                                          *)
RtrDeliver ==
  /\ RouterHas /\ ForMe(Routed)
  /\ \/ /\ Routed.good /\ Routed.port = "connless"
        /\ rtrAt' = PutOrFree(Passed, "sock", Routed)
        /\ UNCHANGED rtrOpen
     \/ /\ Routed.good /\ Routed.port = "service" /\ "server" \notin rtrOpen
        /\ rtrAt' = PutOrFree(Emptied(Passed, "server"), "server", Routed)
        /\ rtrOpen' = rtrOpen \cup {"server"}
     \/ /\ Routed.good => Routed.port # "connless"   \* not this connection, or none free
        /\ rtrAt' = Freed(Passed, Routed)
        /\ UNCHANGED rtrOpen
  /\ UNCHANGED <<rtrMode, rtrOut, rtrCount>>

(* csp_bridge sends it to the opposite interface.                           *)
RtrBridge == /\ rtrMode = "bridge" /\ rtrAt.router # <<>>
             /\ SendOrFree(Passed, Routed, IF Routed.in = "ifA" THEN "ifB" ELSE "ifA")
             /\ UNCHANGED <<rtrMode, rtrOpen, rtrCount>>

-----------------------------------------------------------------------------
(* csp_transaction: connect, with an empty queue, and send the request, or    *)
(* give up without a buffer, ...                                            *)
Request(dst) == [NoPacket EXCEPT !.dst = dst, !.in = "lo"]

RtrTransaction ==
  /\ "conn" \notin rtrOpen
  /\ rtrCount.calls < RtrCalls
  /\ rtrCount' = [rtrCount EXCEPT !.calls = @ + 1]
  /\ rtrOpen' = rtrOpen \cup {"conn"}
  /\ LET at == Emptied(rtrAt, "conn") IN
       IF at.free = <<>> THEN rtrAt' = at /\ UNCHANGED rtrOut
       ELSE \E dst \in {"me", "A", "nowhere"} :
              SendOrFree([at EXCEPT !.free = Tail(@)],
                         [Request(dst) EXCEPT !.buf = Head(at.free)], Iface[dst])
  /\ UNCHANGED rtrMode

(* read the reply, copy and free it ...                                     *)
RtrReply == /\ "conn" \in rtrOpen /\ rtrAt.conn # <<>>
            /\ rtrAt' = Freed([rtrAt EXCEPT !.conn = Tail(@)], Head(rtrAt.conn))
            /\ UNCHANGED <<rtrMode, rtrOpen, rtrOut, rtrCount>>

(* ... and close; so it does if there was no reply in time, and a server when *)
(* no more requests come.  That csp_close gets conn_lock in time is left to  *)
(* ConnPool.                                                                *)
RtrClose(c) == /\ c \in rtrOpen
               /\ rtrOpen' = rtrOpen \ {c}
               /\ rtrAt' = Emptied(rtrAt, c)
               /\ UNCHANGED <<rtrMode, rtrOut, rtrCount>>

(* csp_service_handler: a request is refused, or its buffer is sent back as   *)
(* the reply.                                                               *)
Answer(p) == [p EXCEPT !.src = "me", !.dst = IF p.src \in {"me", "A", "B"} THEN p.src ELSE "nowhere",
                       !.port = "client", !.in = "lo", !.seen = 0]

RtrServe ==
  /\ "server" \in rtrOpen /\ rtrAt.server # <<>>
  /\ LET p == Head(rtrAt.server)  at == [rtrAt EXCEPT !.server = Tail(@)] IN
       \/ SendOrFree(at, Answer(p), Iface[Answer(p).dst])
       \/ rtrAt' = Freed(at, p) /\ UNCHANGED rtrOut
  /\ UNCHANGED <<rtrMode, rtrOpen, rtrCount>>

(* csp_recvfrom and csp_sendto_reply with the same packet.                  *)
RtrReceiveFrom ==
  /\ rtrAt.sock # <<>>
  /\ LET p == Head(rtrAt.sock) IN
       SendOrFree([rtrAt EXCEPT !.sock = Tail(@)], Answer(p), Iface[Answer(p).dst])
  /\ UNCHANGED <<rtrMode, rtrOpen, rtrCount>>

(* csp_promisc_read, and the reader frees the copy.                         *)
RtrWatch == /\ rtrAt.promisc # <<>>
            /\ rtrAt' = Freed([rtrAt EXCEPT !.promisc = Tail(@)], Head(rtrAt.promisc))
            /\ UNCHANGED <<rtrMode, rtrOpen, rtrOut, rtrCount>>

RtrRoute == RtrRead \/ RtrForward \/ RtrFind \/ RtrEnqueue \/ RtrDeliver \/ RtrBridge

RtrNext == \/ RtrReceive \/ RtrTransaction \/ RtrRoute \/ RtrReply
           \/ \E c \in Connections : RtrClose(c)
           \/ RtrServe \/ RtrReceiveFrom \/ RtrWatch

RtrSpec == RtrInit /\ [][RtrNext]_rtrVars

(* Every task runs; whether a packet arrives or a transaction starts is open. *)
RtrFairness == /\ WF_rtrVars(RtrRoute) /\ WF_rtrVars(RtrServe)
               /\ \A c \in Connections : WF_rtrVars(RtrClose(c))
               /\ WF_rtrVars(RtrReceiveFrom) /\ WF_rtrVars(RtrWatch)

-----------------------------------------------------------------------------
(* Where a buffer is: a place and a position there.                         *)
Held(buf) == {<<"free", i>> : i \in {i \in DOMAIN rtrAt.free : rtrAt.free[i] = buf}}
  \cup UNION {{<<place, i>> : i \in {i \in DOMAIN rtrAt[place] : rtrAt[place][i].buf = buf}} :
                place \in Queues \cup Hands}

RtrTypeOK == /\ \A q \in Queues : Len(rtrAt[q]) <= RtrLimit
             /\ \A h \in Hands : Len(rtrAt[h]) <= 1
             /\ rtrOpen \subseteq Connections

(* Every buffer is at exactly one place: nobody lost it, freed it twice or    *)
(* gave it away and kept it, whichever call failed.                         *)
RtrOnePlace == \A buf \in RtrBuffers : \E place \in Held(buf) : Held(buf) = {place}

(* Promiscuous mode sees each packet once: what is received, what is sent to  *)
(* others, and what this node sends to itself, which passes both places.    *)
RtrSeenOnce == /\ rtrOut.on \in {"ifA", "ifB"} => rtrOut.seen = 1
               /\ \A q \in {"sock", "conn", "server"} : \A i \in DOMAIN rtrAt[q] :
                    rtrAt[q][i].seen = 1

(* When no more packets come, every buffer is free in the end, but for what   *)
(* the router enqueued in a connection after csp_close had emptied its        *)
(* queues: that stays there until the structure is used again.              *)
RtrDrains == <>[](/\ \A place \in (Queues \cup Hands) \ Connections : rtrAt[place] = <<>>
                  /\ \A c \in Connections : \A i \in DOMAIN rtrAt[c] :
                       c \notin rtrOpen /\ rtrAt[c][i].late)
=============================================================================
