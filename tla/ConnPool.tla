------------------------------ MODULE ConnPool ------------------------------
(***************************************************************************)
(* The pool of connection structures of libcsp (csp_conn.c) and the tasks   *)
(* that share it: the router (csp_route.c, csp_udp.c), client tasks that    *)
(* call csp_connect, and a server task that calls csp_accept, all of which  *)
(* call csp_close.  Connections without RDP.  conn_lock guards the search   *)
(* for a free structure and the closing of one, and nothing else: the       *)
(* router finds connections, and everybody fills and empties their queues,  *)
(* without it.  A task that waits 100 ms for conn_lock gives up.            *)
(***************************************************************************)
EXTENDS Integers, Sequences, FiniteSets, SequencesExt

CONSTANTS
  Size,           \* CSP_CONN_MAX
  Clients,        \* tasks that call csp_connect
  Ports,          \* number of ephemeral ports
  Peers,          \* remote ends that open connections to the server's port
  RxCap,          \* CSP_RX_QUEUE_LENGTH, and the length of rx_event
  Backlog,        \* length of the socket's queue
  ServerClose,    \* "once", or "twice" as the server of src/task_server.c does
  LockMayTimeOut, \* BOOLEAN: is 100 ms ever too short?
  Nobody

ASSUME PoolAssumption == /\ Size \in Nat \ {0} /\ Ports \in Nat \ {0, 1}
                         /\ RxCap \in Nat \ {0} /\ Backlog \in Nat
                         /\ ServerClose \in {"once", "twice"}
                         /\ Nobody \notin Clients \cup {"server", "router"}
                         /\ Nobody \notin Peers \cup 0 .. Ports - 1
                         /\ Clients \cap {"server", "router"} = {}
                         /\ IsFiniteSet(Clients)

Conns == 0 .. Size - 1
Tasks == Clients \cup {"server", "router"}
EphemeralPorts == 0 .. Ports - 1

(* conn->idin: the source, destination and ports of the packets that belong  *)
(* to the connection.  A packet is told apart by these only.                *)
Ids == EphemeralPorts \cup Peers

VARIABLES
  conn,        \* the array arr_conn
  lastGiven,   \* csp_conn_last_given
  lock,        \* the task that holds conn_lock, or Nobody
  sport,       \* the source port given last
  backlog,     \* the socket's queue of new connections
  pc,          \* where each task is
  my,          \* my[t]: the connection task t works on
  id,          \* id[t]: the port it connects from, the packet it routes
  inLoop,      \* the server is inside its read loop's csp_close
  abandoned,   \* connections whose csp_close did not get the lock (history)
  stolen       \* connections the router posted or closed through a socket that
               \* an allocation under way was about to clear (history)

vars == <<conn, lastGiven, lock, sport, backlog, pc, my, id, inLoop, abandoned, stolen>>

NoConn == Size

(* What is left in a queue of a packet that was freed.                      *)
Freed == Nobody

(* idle -> alloc -> unset -> ident -> flush -> flushEvents -> ready          *)
(* ready -> read -> ready -> close -> lock -> empty -> emptyEvents -> idle  *)
(* The router: idle -> [new connection -> attach] -> packet -> event -> post *)
PCs == {"idle", "alloc", "unset", "ident", "flush", "flushEvents", "attach", "ready", "read",
        "packet", "event", "post", "clear", "close", "lock", "empty", "emptyEvents"}

TypeOK == /\ conn \in [Conns -> [open : BOOLEAN, sock : BOOLEAN, idin : Ids \cup {Nobody},
                                 rx : Seq(Ids \cup {Freed}), events : 0 .. RxCap]]
          /\ \A c \in Conns : Len(conn[c].rx) <= RxCap
          /\ lastGiven \in Conns
          /\ lock \in Tasks \cup {Nobody}
          /\ sport \in EphemeralPorts
          /\ backlog \in Seq(Conns) /\ Len(backlog) <= Backlog
          /\ pc \in [Tasks -> PCs]
          /\ my \in [Tasks -> Conns \cup {NoConn}]
          /\ id \in [Tasks -> Ids \cup {Nobody}]
          /\ inLoop \in BOOLEAN
          /\ abandoned \subseteq Conns
          /\ stolen \subseteq Conns

Init == /\ conn = [c \in Conns |-> [open |-> FALSE, sock |-> FALSE, idin |-> Nobody,
                                    rx |-> <<>>, events |-> 0]]
        /\ lastGiven = 0
        /\ lock = Nobody
        /\ sport \in EphemeralPorts
        /\ backlog = <<>>
        /\ pc = [t \in Tasks |-> "idle"]
        /\ my = [t \in Tasks |-> NoConn]
        /\ id = [t \in Tasks |-> Nobody]
        /\ inLoop = FALSE
        /\ abandoned = {}
        /\ stolen = {}

Goto(t, l) == pc' = [pc EXCEPT ![t] = l]
Step(t, from, to) == pc[t] = from /\ Goto(t, to)

(* The task returns to its caller, or takes the next packet.                *)
Return(t) == /\ Goto(t, "idle")
             /\ my' = [my EXCEPT ![t] = NoConn]
             /\ id' = [id EXCEPT ![t] = Nobody]

(* csp_conn_find: the first open connection with this id.                   *)
Matching(i) == {c \in Conns : conn[c].open /\ conn[c].idin = i}

-----------------------------------------------------------------------------
(* csp_connect, under sport_lock: the next port no open connection uses.    *)
FreePorts == {p \in EphemeralPorts : Matching(p) = {}}
Distance(p) == (p - sport) % Ports

PickPort(t) ==
  /\ t \in Clients
  /\ Step(t, "idle", "alloc")
  /\ \E p \in FreePorts \ {sport} :
       /\ \A q \in FreePorts \ {sport} : Distance(p) <= Distance(q)
       /\ sport' = p
       /\ id' = [id EXCEPT ![t] = p]
  /\ UNCHANGED <<conn, lastGiven, lock, backlog, my, inLoop, abandoned, stolen>>

(* csp_conn_allocate, which holds conn_lock: the first closed connection     *)
(* after the last one given is open ...                                     *)
Candidates == {c \in Conns : ~conn[c].open}
After(c) == (c - lastGiven - 1) % Size
NextFree == CHOOSE c \in Candidates : \A d \in Candidates : After(c) <= After(d)

Allocate(t) ==
  /\ pc[t] = "alloc"
  /\ lock = Nobody
  /\ IF Candidates = {}
     THEN Return(t) /\ UNCHANGED <<conn, lastGiven, lock>>
     ELSE /\ conn' = [conn EXCEPT ![NextFree].open = TRUE]
          /\ lastGiven' = NextFree
          /\ lock' = t
          /\ my' = [my EXCEPT ![t] = NextFree]
          /\ Goto(t, "unset")
          /\ UNCHANGED id
  /\ UNCHANGED <<sport, backlog, inLoop, abandoned, stolen>>

(* ... before it forgets the socket of its last use, and the router can find *)
(* it under its last identifier in between.                                 *)
UnsetSocket(t) ==
  /\ Step(t, "unset", "ident")
  /\ conn' = [conn EXCEPT ![my[t]].sock = FALSE]
  /\ lock' = Nobody
  /\ UNCHANGED <<lastGiven, sport, backlog, my, id, inLoop, abandoned, stolen>>

BeingGiven(c) == \E t \in Tasks : pc[t] = "unset" /\ my[t] = c

AllocateTimeout(t) ==
  /\ LockMayTimeOut
  /\ pc[t] = "alloc" /\ lock # Nobody
  /\ Return(t)
  /\ UNCHANGED <<conn, lastGiven, lock, sport, backlog, inLoop, abandoned, stolen>>

(* csp_conn_new after the allocation: the identifier, then empty queues.    *)
Identify(t) ==
  /\ Step(t, "ident", "flush")
  /\ conn' = [conn EXCEPT ![my[t]].idin = id[t]]
  /\ UNCHANGED <<lastGiven, lock, sport, backlog, my, id, inLoop, abandoned, stolen>>

Flush(t) ==
  /\ Step(t, "flush", "flushEvents")
  /\ conn' = [conn EXCEPT ![my[t]].rx = <<>>]
  /\ UNCHANGED <<lastGiven, lock, sport, backlog, my, id, inLoop, abandoned, stolen>>

(* Mutant: old events survive in a structure that is used again.            *)
KeepEvents(t) ==
  /\ Step(t, "flushEvents", IF t = "router" THEN "attach" ELSE "ready")
  /\ UNCHANGED <<conn, lastGiven, lock, sport, backlog, my, id, inLoop, abandoned, stolen>>

FlushEvents(t) ==
  /\ Step(t, "flushEvents", IF t = "router" THEN "attach" ELSE "ready")
  /\ conn' = [conn EXCEPT ![my[t]].events = 0]
  /\ UNCHANGED <<lastGiven, lock, sport, backlog, my, id, inLoop, abandoned, stolen>>

-----------------------------------------------------------------------------
(* csp_route_work: find the connection of a packet, or the listening socket. *)
Route ==
  LET t == "router" IN
  \E i \in Ids :
    /\ pc[t] = "idle"
    /\ \/ /\ Matching(i) # {}
          /\ my' = [my EXCEPT ![t] = CHOOSE c \in Matching(i) :
                                       \A d \in Matching(i) : c <= d]
          /\ Goto(t, "packet")
       \/ /\ Matching(i) = {} /\ i \in Peers
          /\ Goto(t, "alloc")
          /\ UNCHANGED my
    /\ id' = [id EXCEPT ![t] = i]
    /\ UNCHANGED <<conn, lastGiven, lock, sport, backlog, inLoop, abandoned, stolen>>

Attach ==
  LET t == "router" IN
  /\ Step(t, "attach", "packet")
  /\ conn' = [conn EXCEPT ![my[t]].sock = TRUE]
  /\ UNCHANGED <<lastGiven, lock, sport, backlog, my, id, inLoop, abandoned, stolen>>

(* Mutant: the capacity is not looked at.                                   *)
EnqueueAnyway ==
  LET t == "router" IN
  /\ Step(t, "packet", "event")
  /\ conn' = [conn EXCEPT ![my[t]].rx = Append(@, id[t])]
  /\ UNCHANGED <<lastGiven, lock, sport, backlog, my, id, inLoop, abandoned, stolen>>

(* csp_conn_enqueue_packet: the packet ...                                  *)
EnqueuePacket ==
  LET t == "router"  c == my[t] IN
  /\ pc[t] = "packet"
  /\ IF Len(conn[c].rx) = RxCap
     THEN Return(t) /\ UNCHANGED conn
     ELSE /\ conn' = [conn EXCEPT ![c].rx = Append(@, id[t])]
          /\ Goto(t, "event")
          /\ UNCHANGED <<my, id>>
  /\ UNCHANGED <<lastGiven, lock, sport, backlog, inLoop, abandoned, stolen>>

(* ... then the event.  If that does not fit the packet is freed although    *)
(* the queue keeps a pointer to it, unless somebody has emptied it.         *)
Dangling(q) == IF q = <<>> THEN q ELSE [q EXCEPT ![Len(q)] = Freed]

EnqueueEvent ==
  LET t == "router"  c == my[t] IN
  /\ pc[t] = "event"
  /\ IF conn[c].events = RxCap
     THEN Return(t) /\ conn' = [conn EXCEPT ![c].rx = Dangling(@)]
     ELSE /\ conn' = [conn EXCEPT ![c].events = @ + 1]
          /\ Goto(t, "post")
          /\ UNCHANGED <<my, id>>
  /\ UNCHANGED <<lastGiven, lock, sport, backlog, inLoop, abandoned, stolen>>

(* Mutant: a connection the socket has no room for is not closed.           *)
PostOrForget ==
  LET t == "router"  c == my[t] IN
  /\ pc[t] = "post"
  /\ IF conn[c].sock /\ Len(backlog) < Backlog
     THEN backlog' = Append(backlog, c) /\ Goto(t, "clear") /\ UNCHANGED <<my, id>>
     ELSE Return(t) /\ UNCHANGED backlog
  /\ UNCHANGED <<conn, lastGiven, lock, sport, inLoop, abandoned, stolen>>

(* csp_udp_new_packet: hand a new connection to the socket, or close it.    *)
Post ==
  LET t == "router"  c == my[t] IN
  /\ pc[t] = "post"
  /\ IF ~conn[c].sock
     THEN Return(t) /\ UNCHANGED backlog
     ELSE IF Len(backlog) < Backlog
     THEN /\ backlog' = Append(backlog, c)
          /\ Goto(t, "clear")
          /\ UNCHANGED <<my, id>>
     ELSE Goto(t, "close") /\ UNCHANGED <<backlog, my, id>>
  /\ stolen' = IF conn[c].sock /\ BeingGiven(c) THEN stolen \cup {c} ELSE stolen
  /\ UNCHANGED <<conn, lastGiven, lock, sport, inLoop, abandoned>>

(* Mutant: the socket stays set, so that every packet posts the connection.  *)
KeepSocket ==
  /\ pc["router"] = "clear"
  /\ Return("router")
  /\ UNCHANGED <<conn, lastGiven, lock, sport, backlog, inLoop, abandoned, stolen>>

ClearSocket ==
  LET t == "router" IN
  /\ pc[t] = "clear"
  /\ conn' = [conn EXCEPT ![my[t]].sock = FALSE]
  /\ Return(t)
  /\ UNCHANGED <<lastGiven, lock, sport, backlog, inLoop, abandoned, stolen>>

-----------------------------------------------------------------------------
Accept ==
  LET t == "server" IN
  /\ Step(t, "idle", "ready")
  /\ backlog # <<>>
  /\ my' = [my EXCEPT ![t] = Head(backlog)]
  /\ backlog' = Tail(backlog)
  /\ UNCHANGED <<conn, lastGiven, lock, sport, id, inLoop, abandoned, stolen>>

(* csp_read: wait for an event, then take a packet, if there is one.        *)
ReadEvent(t) ==
  /\ Step(t, "ready", "read")
  /\ conn[my[t]].open /\ conn[my[t]].events > 0
  /\ conn' = [conn EXCEPT ![my[t]].events = @ - 1]
  /\ UNCHANGED <<lastGiven, lock, sport, backlog, my, id, inLoop, abandoned, stolen>>

(* The server of task_server.c closes the connection after each packet, and  *)
(* reads on.                                                                *)
ReadPacket(t) ==
  LET more == conn[my[t]].rx # <<>>
      sample == t = "server" /\ ServerClose = "twice" /\ more
  IN  /\ Step(t, "read", IF sample THEN "close" ELSE "ready")
      /\ conn' = IF more THEN [conn EXCEPT ![my[t]].rx = Tail(@)] ELSE conn
      /\ inLoop' = (inLoop \/ sample)
      /\ UNCHANGED <<lastGiven, lock, sport, backlog, my, id, abandoned, stolen>>

(* csp_read returned NULL, or the task has read enough.                     *)
StartClose(t) ==
  /\ Step(t, "ready", "close")
  /\ UNCHANGED <<conn, lastGiven, lock, sport, backlog, my, id, inLoop, abandoned, stolen>>

(* csp_close.                                                               *)
Closed(t) ==
  /\ IF t = "server" /\ inLoop THEN Goto(t, "ready") /\ UNCHANGED <<my, id>>
                               ELSE Return(t)
  /\ inLoop' = IF t = "server" THEN FALSE ELSE inLoop

CloseCheck(t) ==
  /\ pc[t] = "close"
  /\ IF conn[my[t]].open THEN Goto(t, "lock") /\ UNCHANGED <<my, id, inLoop>>
                         ELSE Closed(t)
  /\ UNCHANGED <<conn, lastGiven, lock, sport, backlog, abandoned, stolen>>

CloseLock(t) ==
  /\ Step(t, "lock", "empty")
  /\ lock = Nobody
  /\ lock' = t
  /\ conn' = [conn EXCEPT ![my[t]].open = FALSE]
  /\ abandoned' = abandoned \ {my[t]}
  /\ UNCHANGED <<lastGiven, sport, backlog, my, id, inLoop, stolen>>

CloseTimeout(t) ==
  /\ LockMayTimeOut
  /\ pc[t] = "lock" /\ lock # Nobody
  /\ Closed(t)
  /\ abandoned' = abandoned \cup {my[t]}
  /\ UNCHANGED <<conn, lastGiven, lock, sport, backlog, stolen>>

Empty(t) ==
  /\ Step(t, "empty", "emptyEvents")
  /\ conn' = [conn EXCEPT ![my[t]].rx = <<>>]
  /\ UNCHANGED <<lastGiven, lock, sport, backlog, my, id, inLoop, abandoned, stolen>>

EmptyEvents(t) ==
  /\ pc[t] = "emptyEvents"
  /\ conn' = [conn EXCEPT ![my[t]].events = 0]
  /\ lock' = Nobody
  /\ Closed(t)
  /\ UNCHANGED <<lastGiven, sport, backlog, abandoned, stolen>>

Router == Route \/ Attach \/ EnqueuePacket \/ EnqueueEvent \/ Post \/ ClearSocket

Task(t) == \/ PickPort(t) \/ Allocate(t) \/ AllocateTimeout(t) \/ UnsetSocket(t)
           \/ Identify(t) \/ Flush(t) \/ FlushEvents(t)
           \/ ReadEvent(t) \/ ReadPacket(t) \/ StartClose(t)
           \/ CloseCheck(t) \/ CloseLock(t) \/ CloseTimeout(t)
           \/ Empty(t) \/ EmptyEvents(t)

Next == Router \/ Accept \/ \E t \in Tasks : Task(t)

Spec == Init /\ [][Next]_vars

-----------------------------------------------------------------------------
(* Who is responsible for an open connection: the task that allocated it,   *)
(* the backlog it was posted to, then the task that accepted it.            *)
Owning(t) ==
  \/ pc[t] \in {"unset", "ident", "flush", "flushEvents", "attach"}
  \/ t # "router" /\ pc[t] \in {"ready", "read", "close", "lock"}
  \/ t = "router" /\ pc[t] \in {"packet", "event", "post", "close", "lock"}
                  /\ conn[my[t]].sock /\ ~BeingGiven(my[t])
Owners(c) == Cardinality({t \in Tasks : my[t] = c /\ Owning(t)})
               + Cardinality({i \in DOMAIN backlog : backlog[i] = c})

(* No connection is given to two tasks, and no task owns one that is closed: *)
(* the lock-free parts of csp_conn_new, csp_udp_new_packet and csp_close    *)
(* never let a structure be allocated again under its owner.  Except one    *)
(* that the router met between the two stores of csp_conn_allocate with the *)
(* socket of its last use still set: posting or closing it there is the one *)
(* way to a second owner, and the harm stays in that structure.             *)
OneOwner ==
  \A c \in Conns \ stolen : Owners(c) <= IF conn[c].open THEN 1 ELSE 0

(* No connection leaks, whichever way csp_udp_new_packet and csp_connect     *)
(* end, and whoever else uses it: every open one will be closed by somebody, *)
(* except one whose csp_close gave up waiting for the lock.                 *)
NoLeak ==
  \A c \in Conns : conn[c].open => Owners(c) > 0 \/ c \in abandoned

(* The server never wakes for nothing, nor reads a packet that was freed:    *)
(* csp_conn_enqueue_packet stores the packet before the event, and the      *)
(* router prepares a new connection itself before it enqueues, so that the  *)
(* event fits where the packet did.  (A client can: its                     *)
(* csp_conn_flush_rx_queue may run between the router's two steps.  So can  *)
(* the server with a stolen connection, which a client flushes.)            *)
ServerReadable(c) ==
  c \in Range(backlog) \/ (my["server"] = c /\ pc["server"] \in {"ready", "read"})
EventHasPacket ==
  \A c \in Conns \ stolen : ServerReadable(c) =>
    /\ conn[c].events + Cardinality({t \in {"server"} : pc[t] = "read" /\ my[t] = c})
         <= Len(conn[c].rx)
    /\ Freed \notin Range(conn[c].rx)

(* "Close current connection, and handle next" (task_server.c:40): the       *)
(* server closes the connection it accepted and no other task's.            *)
ServerClosesItsOwn ==
  pc["server"] \in {"close", "lock"} =>
    \A t \in Clients : my[t] = my["server"] => ~Owning(t)
=============================================================================
