--------------------------- MODULE ConnPoolProofs ---------------------------
(***************************************************************************)
(* For any number of connections, clients, peers and ports and any length of *)
(* the queues: a connection has one owner at most, no open one is forgotten, *)
(* and the server finds a packet for each event, although the router and the *)
(* owners of connections work on them without conn_lock.  First the types and *)
(* the positions of the tasks (Control), then who owns what (Ownership).     *)
(***************************************************************************)
EXTENDS ConnPool, WellFoundedInduction, FiniteSetTheorems, TLAPS

(* Any set of numbers that is not empty has a least one.                     *)
LEMMA LeastExists ==
  ASSUME NEW T, T \subseteq Nat, T # {}
  PROVE  \E p \in T : \A q \in T : p <= q
<1>1. IsWellFoundedOn(OpToRel(<, Nat), Nat)
  BY NatLessThanWellFounded
<1>2. PICK p \in T : \A q \in T : <<q, p>> \notin OpToRel(<, Nat)
  BY <1>1, WFMin
<1>3. ASSUME NEW q \in T PROVE p <= q
  <2>1. ~(q < p)
    BY <1>2 DEF OpToRel
  <2>. QED
    BY <2>1
<1>. QED
  BY <1>2, <1>3

(* csp_conn_allocate gives a closed connection, if there is one.             *)
LEMMA NextFreeIsFree ==
  ASSUME TypeOK, Candidates # {}
  PROVE  NextFree \in Candidates
<1>1. \A c \in Candidates : After(c) \in Nat
  BY PoolAssumption DEF After, Candidates, Conns, TypeOK
<1> DEFINE D == {After(c) : c \in Candidates}
<1>2. D \subseteq Nat /\ D # {}
  BY <1>1
<1>3. PICK p \in D : \A q \in D : p <= q
  <2> HIDE DEF D
  <2> QED  BY <1>2, LeastExists
<1>4. PICK c \in Candidates : p = After(c)
  BY DEF D
<1>5. \A d \in Candidates : After(c) <= After(d)
  BY <1>3, <1>4
<1> QED
  BY <1>4, <1>5 DEF NextFree

(* csp_conn_find finds a connection that matches, if there is one.           *)
Found(i) == CHOOSE c \in Matching(i) : \A d \in Matching(i) : c <= d
LEMMA FoundMatches ==
  ASSUME NEW i, Matching(i) # {}
  PROVE  Found(i) \in Matching(i)
<1>1. Matching(i) \subseteq Nat
  BY PoolAssumption DEF Matching, Conns
<1>2. \E c \in Matching(i) : \A d \in Matching(i) : c <= d
  BY <1>1, LeastExists
<1> QED
  BY <1>2 DEF Found

-----------------------------------------------------------------------------
(* A task in a call works on a connection, and each task only makes the calls *)
(* that are its own; whoever empties a connection holds conn_lock and has    *)
(* closed it, so that nobody else can have been given it.                    *)
MyOK == \A t \in Tasks : pc[t] \notin {"idle", "alloc"} => my[t] \in Conns
PcOK ==
  /\ \A t \in Clients : pc[t] \notin {"attach", "packet", "event", "post", "clear"}
  /\ pc["server"] \in {"idle", "ready", "read", "close", "lock", "empty", "emptyEvents"}
  /\ pc["router"] \notin {"ready", "read"}
  /\ pc["router"] # "idle" => id["router"] \in Ids
LockOK == \A t \in Tasks :
            /\ pc[t] \in {"unset", "empty", "emptyEvents"} => lock = t
            /\ pc[t] \in {"empty", "emptyEvents"} => ~conn[my[t]].open

ConnType == [open : BOOLEAN, sock : BOOLEAN, idin : Ids \cup {Nobody},
             rx : Seq(Ids \cup {Freed}), events : 0 .. RxCap]
ConnOK == conn \in [Conns -> ConnType] /\ \A c \in Conns : Len(conn[c].rx) <= RxCap
TaskOK == /\ pc \in [Tasks -> PCs]
          /\ my \in [Tasks -> Conns \cup {NoConn}]
          /\ id \in [Tasks -> Ids \cup {Nobody}]
RestOK == /\ lastGiven \in Conns
          /\ lock \in Tasks \cup {Nobody}
          /\ sport \in EphemeralPorts
          /\ backlog \in Seq(Conns) /\ Len(backlog) <= Backlog
          /\ inLoop \in BOOLEAN
          /\ abandoned \subseteq Conns
          /\ stolen \subseteq Conns
(* TypeOK in the parts that actions disturb separately.                      *)
LEMMA TypeParts == TypeOK <=> ConnOK /\ TaskOK /\ RestOK
BY DEF TypeOK, ConnOK, TaskOK, RestOK, ConnType
LEMMA TypePartsP == TypeOK' <=> ConnOK' /\ TaskOK' /\ RestOK'
BY DEF TypeOK, ConnOK, TaskOK, RestOK, ConnType

Control == ConnOK /\ TaskOK /\ RestOK
           /\ MyOK /\ PcOK /\ LockOK

LEMMA InitControl == Init => Control
<1> SUFFICES ASSUME Init PROVE Control
  OBVIOUS
<1> USE PoolAssumption DEF Init
<1>1. ConnOK
  BY DEF ConnOK, ConnType, Conns
<1>2. TaskOK
  BY DEF TaskOK, PCs, Tasks
<1>3. RestOK
  <2>1. 0 \in Conns /\ <<>> \in Seq(Conns) /\ Len(<<>>) <= Backlog
    BY DEF Conns
  <2> QED  BY <2>1 DEF RestOK
<1>4. MyOK /\ PcOK /\ LockOK
  BY DEF MyOK, PcOK, LockOK, Tasks
<1> QED
  BY <1>1, <1>2, <1>3, <1>4 DEF Control

-----------------------------------------------------------------------------
(* What the assignment of one field of one connection leaves alone.          *)
SameOpen == \A d \in Conns : conn'[d].open <=> conn[d].open
SameSock == \A d \in Conns : conn'[d].sock <=> conn[d].sock
SameRx == \A d \in Conns : conn'[d].rx = conn[d].rx
SameEvents == \A d \in Conns : conn'[d].events = conn[d].events

(* No pointer to a freed packet in a queue.                                  *)
Sound(q) == \A i \in DOMAIN q : q[i] # Freed

LEMMA SetOpen ==
  ASSUME ConnOK, NEW c \in Conns, NEW v \in BOOLEAN,
         conn' = [conn EXCEPT ![c].open = v]
  PROVE  /\ ConnOK' /\ SameSock /\ SameRx /\ SameEvents
         /\ \A d \in Conns : conn'[d].open <=> (d = c /\ v) \/ (d # c /\ conn[d].open)
<1>1. conn[c] \in ConnType
  BY DEF ConnOK
<1>2. [conn[c] EXCEPT !.open = v] \in ConnType
  BY <1>1 DEF ConnType
<1>3. conn' = [conn EXCEPT ![c] = [conn[c] EXCEPT !.open = v]]
  OBVIOUS
<1>4. conn' \in [Conns -> ConnType]
  BY <1>2, <1>3 DEF ConnOK
<1> QED
  BY <1>1, <1>4 DEF ConnOK, ConnType, SameSock, SameRx, SameEvents

LEMMA SetSock ==
  ASSUME ConnOK, NEW c \in Conns, NEW v \in BOOLEAN,
         conn' = [conn EXCEPT ![c].sock = v]
  PROVE  /\ ConnOK' /\ SameOpen /\ SameRx /\ SameEvents
         /\ \A d \in Conns : conn'[d].sock <=> (d = c /\ v) \/ (d # c /\ conn[d].sock)
<1>1. conn[c] \in ConnType
  BY DEF ConnOK
<1>2. [conn[c] EXCEPT !.sock = v] \in ConnType
  BY <1>1 DEF ConnType
<1>3. conn' = [conn EXCEPT ![c] = [conn[c] EXCEPT !.sock = v]]
  OBVIOUS
<1>4. conn' \in [Conns -> ConnType]
  BY <1>2, <1>3 DEF ConnOK
<1> QED
  BY <1>1, <1>4 DEF ConnOK, ConnType, SameOpen, SameRx, SameEvents

LEMMA SetIdin ==
  ASSUME ConnOK, NEW c \in Conns, NEW v \in Ids \cup {Nobody},
         conn' = [conn EXCEPT ![c].idin = v]
  PROVE  /\ ConnOK' /\ SameOpen /\ SameSock /\ SameRx /\ SameEvents
<1>1. conn[c] \in ConnType
  BY DEF ConnOK
<1>2. [conn[c] EXCEPT !.idin = v] \in ConnType
  BY <1>1 DEF ConnType
<1>3. conn' = [conn EXCEPT ![c] = [conn[c] EXCEPT !.idin = v]]
  OBVIOUS
<1>4. conn' \in [Conns -> ConnType]
  BY <1>2, <1>3 DEF ConnOK
<1> QED
  BY <1>1, <1>4 DEF ConnOK, ConnType, SameOpen, SameSock, SameRx, SameEvents

LEMMA SetRx ==
  ASSUME ConnOK, NEW c \in Conns, NEW v \in Seq(Ids \cup {Freed}), Len(v) <= RxCap,
         conn' = [conn EXCEPT ![c].rx = v]
  PROVE  /\ ConnOK' /\ SameOpen /\ SameSock /\ SameEvents
         /\ \A d \in Conns : conn'[d].rx = IF d = c THEN v ELSE conn[d].rx
<1>1. conn[c] \in ConnType
  BY DEF ConnOK
<1>2. [conn[c] EXCEPT !.rx = v] \in ConnType
  BY <1>1 DEF ConnType
<1>3. conn' = [conn EXCEPT ![c] = [conn[c] EXCEPT !.rx = v]]
  OBVIOUS
<1>4. conn' \in [Conns -> ConnType]
  BY <1>2, <1>3 DEF ConnOK
<1> QED
  BY <1>1, <1>4 DEF ConnOK, ConnType, SameOpen, SameSock, SameEvents

LEMMA SetEvents ==
  ASSUME ConnOK, NEW c \in Conns, NEW v \in 0 .. RxCap,
         conn' = [conn EXCEPT ![c].events = v]
  PROVE  /\ ConnOK' /\ SameOpen /\ SameSock /\ SameRx
         /\ \A d \in Conns : conn'[d].events = IF d = c THEN v ELSE conn[d].events
<1>1. conn[c] \in ConnType
  BY DEF ConnOK
<1>2. [conn[c] EXCEPT !.events = v] \in ConnType
  BY <1>1 DEF ConnType
<1>3. conn' = [conn EXCEPT ![c] = [conn[c] EXCEPT !.events = v]]
  OBVIOUS
<1>4. conn' \in [Conns -> ConnType]
  BY <1>2, <1>3 DEF ConnOK
<1> QED
  BY <1>1, <1>4 DEF ConnOK, ConnType, SameOpen, SameSock, SameRx

-----------------------------------------------------------------------------
(* What each action that changes a connection changes.                       *)
LEMMA IdentifyEffect ==
  ASSUME Control, NEW t \in Tasks, Identify(t)
  PROVE  /\ my[t] \in Conns /\ ConnOK'
         /\ SameOpen /\ SameSock /\ SameRx /\ SameEvents
<1> USE PoolAssumption
<1>1. my[t] \in Conns /\ ConnOK
  BY DEF Control, MyOK, Identify, Step
<1>2. id[t] \in Ids \cup {Nobody}
  BY <1>1 DEF Control, TaskOK, Identify
<1> QED
  BY <1>1, <1>2, SetIdin DEF Identify

LEMMA FlushEffect ==
  ASSUME Control, NEW t \in Tasks, Flush(t)
  PROVE  /\ my[t] \in Conns /\ ConnOK'
         /\ SameOpen /\ SameSock /\ SameEvents
         /\ \A d \in Conns : conn'[d].rx = IF d = my[t] THEN <<>> ELSE conn[d].rx
<1> USE PoolAssumption
<1>1. my[t] \in Conns /\ ConnOK
  BY DEF Control, MyOK, Flush, Step
<1>2. <<>> \in Seq(Ids \cup {Freed}) /\ Len(<<>>) <= RxCap
  BY <1>1 DEF Control, Flush
<1> QED
  BY <1>1, <1>2, SetRx DEF Flush

LEMMA EmptyEffect ==
  ASSUME Control, NEW t \in Tasks, Empty(t)
  PROVE  /\ my[t] \in Conns /\ ConnOK'
         /\ SameOpen /\ SameSock /\ SameEvents
         /\ \A d \in Conns : conn'[d].rx = IF d = my[t] THEN <<>> ELSE conn[d].rx
<1> USE PoolAssumption
<1>1. my[t] \in Conns /\ ConnOK
  BY DEF Control, MyOK, Empty, Step
<1>2. <<>> \in Seq(Ids \cup {Freed}) /\ Len(<<>>) <= RxCap
  BY <1>1 DEF Control, Empty
<1> QED
  BY <1>1, <1>2, SetRx DEF Empty

LEMMA FlushEventsEffect ==
  ASSUME Control, NEW t \in Tasks, FlushEvents(t)
  PROVE  /\ my[t] \in Conns /\ ConnOK'
         /\ SameOpen /\ SameSock /\ SameRx
         /\ \A d \in Conns : conn'[d].events = IF d = my[t] THEN 0 ELSE conn[d].events
<1> USE PoolAssumption
<1>1. my[t] \in Conns /\ ConnOK
  BY DEF Control, MyOK, FlushEvents, Step
<1>2. 0 \in 0 .. RxCap
  BY <1>1 DEF Control, FlushEvents
<1> QED
  BY <1>1, <1>2, SetEvents DEF FlushEvents

LEMMA EmptyEventsEffect ==
  ASSUME Control, NEW t \in Tasks, EmptyEvents(t)
  PROVE  /\ my[t] \in Conns /\ ConnOK'
         /\ SameOpen /\ SameSock /\ SameRx
         /\ \A d \in Conns : conn'[d].events = IF d = my[t] THEN 0 ELSE conn[d].events
<1> USE PoolAssumption
<1>1. my[t] \in Conns /\ ConnOK
  BY DEF Control, MyOK, EmptyEvents, Step
<1>2. 0 \in 0 .. RxCap
  BY <1>1 DEF Control, EmptyEvents
<1> QED
  BY <1>1, <1>2, SetEvents DEF EmptyEvents

LEMMA ReadEventEffect ==
  ASSUME Control, NEW t \in Tasks, ReadEvent(t)
  PROVE  /\ my[t] \in Conns /\ ConnOK'
         /\ SameOpen /\ SameSock /\ SameRx
         /\ conn[my[t]].open /\ conn[my[t]].events \in 1 .. RxCap
         /\ \A d \in Conns : conn'[d].events = IF d = my[t] THEN conn[d].events - 1 ELSE conn[d].events
<1> USE PoolAssumption
<1>1. my[t] \in Conns /\ ConnOK
  BY DEF Control, MyOK, ReadEvent, Step
<1>2. conn[my[t]].events \in 1 .. RxCap /\ conn[my[t]].events - 1 \in 0 .. RxCap
  BY <1>1 DEF Control, ConnOK, ConnType, ReadEvent
<1> QED
  <2> DEFINE rest == conn[my[t]].events - 1
  <2>1. conn' = [conn EXCEPT ![my[t]].events = rest]
    BY DEF ReadEvent
  <2>2. conn[my[t]].open
    BY DEF ReadEvent
  <2>3. rest \in 0 .. RxCap
    BY <1>2
  <2>4. /\ ConnOK' /\ SameOpen /\ SameSock /\ SameRx
        /\ \A d \in Conns : conn'[d].events = IF d = my[t] THEN rest ELSE conn[d].events
    <3> HIDE DEF rest
    <3> QED  BY <1>1, <2>1, <2>3, SetEvents
  <2> QED
    BY <1>1, <1>2, <2>2, <2>4

LEMMA CloseLockEffect ==
  ASSUME Control, NEW t \in Tasks, CloseLock(t)
  PROVE  /\ my[t] \in Conns /\ ConnOK'
         /\ SameSock /\ SameRx /\ SameEvents
         /\ \A d \in Conns : conn'[d].open <=> d # my[t] /\ conn[d].open
<1> USE PoolAssumption
<1>1. my[t] \in Conns /\ ConnOK
  BY DEF Control, MyOK, CloseLock, Step
<1>2. FALSE \in BOOLEAN
  BY <1>1 DEF Control, CloseLock
<1> QED
  BY <1>1, <1>2, SetOpen DEF CloseLock

LEMMA AttachEffect ==
  ASSUME Control, Attach
  PROVE  /\ my["router"] \in Conns /\ ConnOK'
         /\ SameOpen /\ SameRx /\ SameEvents
         /\ \A d \in Conns : conn'[d].sock <=> d = my["router"] \/ conn[d].sock
<1> USE PoolAssumption
<1>1. my["router"] \in Conns /\ ConnOK
  BY DEF Control, MyOK, Attach, Step, Tasks
<1>2. TRUE \in BOOLEAN
  BY <1>1 DEF Control, Attach
<1> QED
  BY <1>1, <1>2, SetSock DEF Attach

LEMMA ClearSocketEffect ==
  ASSUME Control, ClearSocket
  PROVE  /\ my["router"] \in Conns /\ ConnOK'
         /\ SameOpen /\ SameRx /\ SameEvents
         /\ \A d \in Conns : conn'[d].sock <=> d # my["router"] /\ conn[d].sock
<1> USE PoolAssumption
<1>1. my["router"] \in Conns /\ ConnOK
  BY DEF Control, MyOK, ClearSocket, Step, Tasks
<1>2. FALSE \in BOOLEAN
  BY <1>1 DEF Control, ClearSocket
<1> QED
  BY <1>1, <1>2, SetSock DEF ClearSocket

LEMMA ReadPacketEffect ==
  ASSUME Control, NEW t \in Tasks, ReadPacket(t)
  PROVE  /\ my[t] \in Conns /\ ConnOK' /\ SameOpen /\ SameSock /\ SameEvents
         /\ \A d \in Conns : d # my[t] => conn'[d].rx = conn[d].rx
         /\ conn[my[t]].rx # <<>> => Len(conn'[my[t]].rx) = Len(conn[my[t]].rx) - 1
         /\ conn[my[t]].rx = <<>> => conn'[my[t]].rx = <<>>
         /\ Sound(conn[my[t]].rx) => Sound(conn'[my[t]].rx)
<1>1. my[t] \in Conns /\ ConnOK
  BY DEF Control, MyOK, ReadPacket, Step
<1>2. CASE conn[my[t]].rx = <<>>
  <2>1. conn' = conn
    BY <1>2 DEF ReadPacket
  <2> QED
    BY <1>1, <1>2, <2>1 DEF ConnOK, SameOpen, SameSock, SameEvents
<1>3. CASE conn[my[t]].rx # <<>>
  <2> DEFINE rest == Tail(conn[my[t]].rx)
  <2>1. conn' = [conn EXCEPT ![my[t]].rx = rest]
    BY <1>3 DEF ReadPacket
  <2>2. conn[my[t]].rx \in Seq(Ids \cup {Freed}) /\ Len(conn[my[t]].rx) <= RxCap
    BY <1>1 DEF ConnOK, ConnType
  <2>3. rest \in Seq(Ids \cup {Freed}) /\ Len(rest) = Len(conn[my[t]].rx) - 1 /\ Len(rest) <= RxCap
    BY <1>3, <2>2, PoolAssumption
  <2>5. Sound(conn[my[t]].rx) => Sound(rest)
    BY <1>3, <2>2 DEF Sound
  <2>4. /\ ConnOK' /\ SameOpen /\ SameSock /\ SameEvents
        /\ \A d \in Conns : conn'[d].rx = IF d = my[t] THEN rest ELSE conn[d].rx
    <3> HIDE DEF rest
    <3> QED  BY <1>1, <2>1, <2>3, SetRx
  <2> QED
    BY <1>1, <1>3, <2>3, <2>4, <2>5
<1> QED
  BY <1>2, <1>3

LEMMA EnqueuePacketEffect ==
  ASSUME Control, EnqueuePacket, Len(conn[my["router"]].rx) # RxCap
  PROVE  /\ my["router"] \in Conns /\ ConnOK' /\ SameOpen /\ SameSock /\ SameEvents
         /\ \A d \in Conns : d # my["router"] => conn'[d].rx = conn[d].rx
         /\ Len(conn'[my["router"]].rx) = Len(conn[my["router"]].rx) + 1
         /\ Sound(conn[my["router"]].rx) => Sound(conn'[my["router"]].rx)
<1> DEFINE c == my["router"]
           more == Append(conn[c].rx, id["router"])
<1>1. c \in Conns /\ ConnOK /\ id["router"] \in Ids
  BY DEF Control, MyOK, PcOK, EnqueuePacket, Tasks
<1>2. conn[c].rx \in Seq(Ids \cup {Freed}) /\ Len(conn[c].rx) <= RxCap
  BY <1>1 DEF ConnOK, ConnType
<1>3. more \in Seq(Ids \cup {Freed}) /\ Len(more) = Len(conn[c].rx) + 1 /\ Len(more) <= RxCap
  BY <1>1, <1>2, PoolAssumption
<1>6. Sound(conn[c].rx) => Sound(more)
  <2> DEFINE q == conn[c].rx
  <2>1. id["router"] # Freed
    BY <1>1, PoolAssumption DEF Freed, Ids, EphemeralPorts
  <2>2. DOMAIN more = DOMAIN q \cup {Len(q) + 1} /\ more[Len(q) + 1] = id["router"]
        /\ \A i \in DOMAIN q : more[i] = q[i]
    <3>1. more = Append(q, id["router"])
      OBVIOUS
    <3> HIDE DEF q, more
    <3> QED  BY <1>1, <1>2, <3>1
  <2> QED  BY <2>1, <2>2 DEF Sound
<1>4. conn' = [conn EXCEPT ![c].rx = more]
  BY DEF EnqueuePacket
<1>5. /\ ConnOK' /\ SameOpen /\ SameSock /\ SameEvents
      /\ \A d \in Conns : conn'[d].rx = IF d = c THEN more ELSE conn[d].rx
  <2> HIDE DEF more, c
  <2> QED  BY <1>1, <1>3, <1>4, SetRx
<1> QED
  BY <1>1, <1>3, <1>5, <1>6

LEMMA EnqueueEventEffect ==
  ASSUME Control, EnqueueEvent, conn[my["router"]].events # RxCap
  PROVE  /\ my["router"] \in Conns /\ ConnOK' /\ SameOpen /\ SameSock /\ SameRx
         /\ \A d \in Conns : conn'[d].events =
              IF d = my["router"] THEN conn[d].events + 1 ELSE conn[d].events
<1> DEFINE c == my["router"]
           more == conn[c].events + 1
<1>1. c \in Conns /\ ConnOK
  BY DEF Control, MyOK, EnqueueEvent, Tasks
<1>2. more \in 0 .. RxCap
  BY <1>1, PoolAssumption DEF ConnOK, ConnType
<1>3. conn' = [conn EXCEPT ![c].events = more]
  BY DEF EnqueueEvent
<1>4. /\ ConnOK' /\ SameOpen /\ SameSock /\ SameRx
      /\ \A d \in Conns : conn'[d].events = IF d = c THEN more ELSE conn[d].events
  <2> HIDE DEF more, c
  <2> QED  BY <1>1, <1>2, <1>3, SetEvents
<1> QED
  BY <1>1, <1>4

LEMMA EnqueueEventFullEffect ==
  ASSUME Control, EnqueueEvent, conn[my["router"]].events = RxCap
  PROVE  /\ my["router"] \in Conns /\ ConnOK' /\ SameOpen /\ SameSock /\ SameEvents
         /\ \A d \in Conns : d # my["router"] => conn'[d].rx = conn[d].rx
         /\ Len(conn'[my["router"]].rx) = Len(conn[my["router"]].rx)
         /\ conn[my["router"]].rx = <<>> => conn'[my["router"]].rx = <<>>
<1> DEFINE c == my["router"]
           q == conn[c].rx
           left == Dangling(q)
<1>1. c \in Conns /\ ConnOK
  BY DEF Control, MyOK, EnqueueEvent, Tasks
<1>2. q \in Seq(Ids \cup {Freed}) /\ Len(q) <= RxCap
  BY <1>1 DEF ConnOK, ConnType
<1>3. left \in Seq(Ids \cup {Freed}) /\ Len(left) = Len(q) /\ Len(left) <= RxCap
      /\ (q = <<>> => left = <<>>)
  <2> HIDE DEF q
  <2> QED  BY <1>2 DEF Dangling
<1>4. conn' = [conn EXCEPT ![c].rx = left]
  BY DEF EnqueueEvent
<1>5. /\ ConnOK' /\ SameOpen /\ SameSock /\ SameEvents
      /\ \A d \in Conns : conn'[d].rx = IF d = c THEN left ELSE conn[d].rx
  <2> HIDE DEF left, c
  <2> QED  BY <1>1, <1>3, <1>4, SetRx
<1> QED
  BY <1>1, <1>3, <1>5

LEMMA AllocateEffect ==
  ASSUME Control, NEW t \in Tasks, Allocate(t), Candidates # {}
  PROVE  /\ NextFree \in Conns /\ ~conn[NextFree].open
         /\ ConnOK' /\ SameSock /\ SameRx /\ SameEvents
         /\ \A d \in Conns : conn'[d].open <=> d = NextFree \/ conn[d].open
<1>1. NextFree \in Candidates
  BY NextFreeIsFree, TypeParts DEF Control
<1>2. NextFree \in Conns /\ ~conn[NextFree].open
  BY <1>1 DEF Candidates
<1>3. conn' = [conn EXCEPT ![NextFree].open = TRUE]
  BY DEF Allocate
<1> QED
  BY <1>2, <1>3, SetOpen DEF Control

LEMMA UnsetSocketEffect ==
  ASSUME Control, NEW t \in Tasks, UnsetSocket(t)
  PROVE  /\ my[t] \in Conns /\ ConnOK'
         /\ SameOpen /\ SameRx /\ SameEvents
         /\ \A d \in Conns : conn'[d].sock <=> d # my[t] /\ conn[d].sock
<1> USE PoolAssumption
<1>1. my[t] \in Conns /\ ConnOK
  BY DEF Control, MyOK, UnsetSocket, Step
<1>2. FALSE \in BOOLEAN
  BY <1>1 DEF Control, UnsetSocket
<1> QED
  BY <1>1, <1>2, SetSock DEF UnsetSocket

(* csp_conn_find in the router: a connection that is open, or none.          *)
LEMMA RouteEffect ==
  ASSUME Control, Route
  PROVE  \E i \in Ids :
           /\ pc["router"] = "idle"
           /\ id' = [id EXCEPT !["router"] = i]
           /\ \/ /\ pc' = [pc EXCEPT !["router"] = "alloc"]
                 /\ UNCHANGED my
              \/ \E c \in Conns : /\ conn[c].open
                                  /\ pc' = [pc EXCEPT !["router"] = "packet"]
                                  /\ my' = [my EXCEPT !["router"] = c]
<1>1. PICK i \in Ids : /\ pc["router"] = "idle"
                       /\ \/ /\ Matching(i) # {}
                             /\ my' = [my EXCEPT !["router"] = Found(i)]
                             /\ pc' = [pc EXCEPT !["router"] = "packet"]
                          \/ /\ pc' = [pc EXCEPT !["router"] = "alloc"]
                             /\ UNCHANGED my
                       /\ id' = [id EXCEPT !["router"] = i]
  BY DEF Route, Found, Goto
<1>2. Matching(i) # {} => Found(i) \in Conns /\ conn[Found(i)].open
  BY FoundMatches DEF Matching
<1> QED
  BY <1>1, <1>2

-----------------------------------------------------------------------------
(* Control is inductive.                                                     *)
LEMMA PickPortControl == ASSUME Control, NEW t \in Tasks, PickPort(t) PROVE Control'
<1> USE PoolAssumption DEF Control, Step, Goto, Return, Closed
<1>1. ConnOK'  BY DEF Control, ConnOK, PickPort
<1>2. TaskOK'  BY DEF PickPort, FreePorts, TaskOK, PCs, MyOK, RestOK, Ids, Tasks
<1>3. RestOK'  BY DEF PickPort, FreePorts, RestOK, MyOK, TaskOK, Tasks
<1>4. MyOK'    BY DEF PickPort, TaskOK, RestOK, MyOK
<1>5. PcOK'    BY DEF PickPort, TaskOK, PcOK, Tasks
<1>6. LockOK'  BY DEF PickPort, TaskOK, LockOK, MyOK, PcOK
<1> QED  BY <1>1, <1>2, <1>3, <1>4, <1>5, <1>6

LEMMA AllocateTimeoutControl ==
  ASSUME Control, NEW t \in Tasks, AllocateTimeout(t)
  PROVE  Control'
<1> USE PoolAssumption DEF Control, Step, Goto, Return, Closed
<1>1. ConnOK'  BY DEF Control, ConnOK, AllocateTimeout
<1>2. TaskOK'  BY DEF AllocateTimeout, TaskOK, PCs, MyOK, RestOK, Ids, Tasks
<1>3. RestOK'  BY DEF AllocateTimeout, RestOK, MyOK, TaskOK, Tasks
<1>4. MyOK'    BY DEF AllocateTimeout, TaskOK, RestOK, MyOK
<1>5. PcOK'    BY DEF AllocateTimeout, TaskOK, PcOK, Tasks
<1>6. LockOK'  BY DEF AllocateTimeout, TaskOK, LockOK, MyOK, PcOK
<1> QED  BY <1>1, <1>2, <1>3, <1>4, <1>5, <1>6

LEMMA StartCloseControl == ASSUME Control, NEW t \in Tasks, StartClose(t) PROVE Control'
<1> USE PoolAssumption DEF Control, Step, Goto, Return, Closed
<1>1. ConnOK'  BY DEF Control, ConnOK, StartClose
<1>2. TaskOK'  BY DEF StartClose, TaskOK, PCs, MyOK, RestOK, Ids, Tasks
<1>3. RestOK'  BY DEF StartClose, RestOK, MyOK, TaskOK, Tasks
<1>4. MyOK'    BY DEF StartClose, TaskOK, RestOK, MyOK
<1>5. PcOK'    BY DEF StartClose, TaskOK, PcOK, Tasks
<1>6. LockOK'  BY DEF StartClose, TaskOK, LockOK, MyOK, PcOK
<1> QED  BY <1>1, <1>2, <1>3, <1>4, <1>5, <1>6

LEMMA CloseCheckControl == ASSUME Control, NEW t \in Tasks, CloseCheck(t) PROVE Control'
<1> USE PoolAssumption DEF Control, Step, Goto, Return, Closed
<1>1. ConnOK'  BY DEF Control, ConnOK, CloseCheck
<1>2. TaskOK'  BY DEF CloseCheck, TaskOK, PCs, MyOK, RestOK, Ids, Tasks
<1>3. RestOK'  BY DEF CloseCheck, RestOK, MyOK, TaskOK, Tasks
<1>4. MyOK'    BY DEF CloseCheck, TaskOK, RestOK, MyOK
<1>5. PcOK' /\ LockOK'
  <2>1. pc'[t] \in {"lock", "ready", "idle"}
    BY DEF CloseCheck, TaskOK
  <2>2. pc'[t] = "ready" => t = "server"
    BY DEF CloseCheck, TaskOK
  <2>3. pc'[t] # "idle" => UNCHANGED <<my, id>>
    BY DEF CloseCheck, TaskOK
  <2>4. \A u \in Tasks : u # t => pc'[u] = pc[u] /\ my'[u] = my[u] /\ id'[u] = id[u]
    BY DEF CloseCheck, TaskOK
  <2>5. PcOK'
    BY <2>1, <2>2, <2>3, <2>4 DEF CloseCheck, PcOK, Tasks
  <2>6. LockOK'
    BY <2>1, <2>3, <2>4 DEF CloseCheck, LockOK
  <2> QED
    BY <2>5, <2>6
<1> QED  BY <1>1, <1>2, <1>3, <1>4, <1>5

LEMMA CloseTimeoutControl == ASSUME Control, NEW t \in Tasks, CloseTimeout(t) PROVE Control'
<1> USE PoolAssumption DEF Control, Step, Goto, Return, Closed
<1>1. ConnOK'  BY DEF Control, ConnOK, CloseTimeout
<1>2. TaskOK'  BY DEF CloseTimeout, TaskOK, PCs, MyOK, RestOK, Ids, Tasks
<1>3. RestOK'
  <2>1. my[t] \in Conns
    BY DEF CloseTimeout, MyOK
  <2>2. inLoop' \in BOOLEAN
    BY DEF CloseTimeout, RestOK
  <2> QED
    BY <2>1, <2>2 DEF CloseTimeout, RestOK
<1>4. MyOK'    BY DEF CloseTimeout, TaskOK, RestOK, MyOK
<1>5. PcOK'    BY DEF CloseTimeout, TaskOK, PcOK, Tasks
<1>6. LockOK'  BY DEF CloseTimeout, TaskOK, LockOK, MyOK, PcOK
<1> QED  BY <1>1, <1>2, <1>3, <1>4, <1>5, <1>6

LEMMA IdentifyControl == ASSUME Control, NEW t \in Tasks, Identify(t) PROVE Control'
<1> USE PoolAssumption DEF Control, Step, Goto, Return, Closed
<1>1. ConnOK'  BY IdentifyEffect
<1>2. TaskOK'  BY DEF Identify, TaskOK, PCs, MyOK, RestOK, Ids, Tasks
<1>3. RestOK'  BY DEF Identify, RestOK, MyOK, TaskOK, Tasks
<1>4. MyOK'    BY DEF Identify, TaskOK, RestOK, MyOK
<1>5. PcOK'    BY DEF Identify, TaskOK, PcOK, Tasks
<1>6. LockOK'  BY IdentifyEffect DEF Identify, TaskOK, LockOK, MyOK, PcOK, SameOpen
<1> QED  BY <1>1, <1>2, <1>3, <1>4, <1>5, <1>6

LEMMA FlushControl == ASSUME Control, NEW t \in Tasks, Flush(t) PROVE Control'
<1> USE PoolAssumption DEF Control, Step, Goto, Return, Closed
<1>1. ConnOK'  BY FlushEffect
<1>2. TaskOK'  BY DEF Flush, TaskOK, PCs, MyOK, RestOK, Ids, Tasks
<1>3. RestOK'  BY DEF Flush, RestOK, MyOK, TaskOK, Tasks
<1>4. MyOK'    BY DEF Flush, TaskOK, RestOK, MyOK
<1>5. PcOK'    BY DEF Flush, TaskOK, PcOK, Tasks
<1>6. LockOK'  BY FlushEffect DEF Flush, TaskOK, LockOK, MyOK, PcOK, SameOpen
<1> QED  BY <1>1, <1>2, <1>3, <1>4, <1>5, <1>6

LEMMA FlushEventsControl == ASSUME Control, NEW t \in Tasks, FlushEvents(t) PROVE Control'
<1> USE PoolAssumption DEF Control, Step, Goto, Return, Closed
<1>1. ConnOK'  BY FlushEventsEffect
<1>2. TaskOK'  BY DEF FlushEvents, TaskOK, PCs, MyOK, RestOK, Ids, Tasks
<1>3. RestOK'  BY DEF FlushEvents, RestOK, MyOK, TaskOK, Tasks
<1>4. MyOK'    BY DEF FlushEvents, TaskOK, RestOK, MyOK
<1>5. PcOK'    BY DEF FlushEvents, TaskOK, PcOK, Tasks
<1>6. LockOK'  BY FlushEventsEffect DEF FlushEvents, TaskOK, LockOK, MyOK, PcOK, SameOpen
<1> QED  BY <1>1, <1>2, <1>3, <1>4, <1>5, <1>6

LEMMA ReadEventControl == ASSUME Control, NEW t \in Tasks, ReadEvent(t) PROVE Control'
<1> USE PoolAssumption DEF Control, Step, Goto, Return, Closed
<1>1. ConnOK'  BY ReadEventEffect
<1>2. TaskOK'  BY DEF ReadEvent, TaskOK, PCs, MyOK, RestOK, Ids, Tasks
<1>3. RestOK'  BY DEF ReadEvent, RestOK, MyOK, TaskOK, Tasks
<1>4. MyOK'    BY DEF ReadEvent, TaskOK, RestOK, MyOK
<1>5. PcOK'    BY DEF ReadEvent, TaskOK, PcOK, Tasks
<1>6. LockOK'  BY ReadEventEffect DEF ReadEvent, TaskOK, LockOK, MyOK, PcOK, SameOpen
<1> QED  BY <1>1, <1>2, <1>3, <1>4, <1>5, <1>6

LEMMA ReadPacketControl == ASSUME Control, NEW t \in Tasks, ReadPacket(t) PROVE Control'
<1> USE PoolAssumption DEF Control, Step, Goto, Return, Closed
<1>1. ConnOK'  BY ReadPacketEffect
<1>2. TaskOK'  BY DEF ReadPacket, TaskOK, PCs, MyOK, RestOK, Ids, Tasks
<1>3. RestOK'  BY DEF ReadPacket, RestOK, MyOK, TaskOK, Tasks
<1>4. MyOK'    BY DEF ReadPacket, TaskOK, RestOK, MyOK
<1>5. PcOK'    BY DEF ReadPacket, TaskOK, PcOK, Tasks
<1>6. LockOK'  BY ReadPacketEffect DEF ReadPacket, TaskOK, LockOK, MyOK, PcOK, SameOpen
<1> QED  BY <1>1, <1>2, <1>3, <1>4, <1>5, <1>6

LEMMA CloseLockControl == ASSUME Control, NEW t \in Tasks, CloseLock(t) PROVE Control'
<1> USE PoolAssumption DEF Control, Step, Goto, Return, Closed
<1>1. ConnOK'  BY CloseLockEffect
<1>2. TaskOK'  BY DEF CloseLock, TaskOK, PCs, MyOK, RestOK, Ids, Tasks
<1>3. RestOK'  BY DEF CloseLock, RestOK, MyOK, TaskOK, Tasks
<1>4. MyOK'    BY DEF CloseLock, TaskOK, RestOK, MyOK
<1>5. PcOK'    BY DEF CloseLock, TaskOK, PcOK, Tasks
<1>6. LockOK'
  <2>1. Nobody \notin Tasks
    BY DEF Tasks
  <2>2. \A u \in Tasks : pc'[u] \in {"unset", "empty", "emptyEvents"} => u = t
    BY <2>1 DEF CloseLock, TaskOK, LockOK
  <2>3. ~conn'[my[t]].open
    BY CloseLockEffect
  <2>4. lock' = t /\ my' = my
    BY DEF CloseLock
  <2> QED
    BY <2>2, <2>3, <2>4 DEF LockOK
<1> QED  BY <1>1, <1>2, <1>3, <1>4, <1>5, <1>6

LEMMA EmptyControl == ASSUME Control, NEW t \in Tasks, Empty(t) PROVE Control'
<1> USE PoolAssumption DEF Control, Step, Goto, Return, Closed
<1>1. ConnOK'  BY EmptyEffect
<1>2. TaskOK'  BY DEF Empty, TaskOK, PCs, MyOK, RestOK, Ids, Tasks
<1>3. RestOK'  BY DEF Empty, RestOK, MyOK, TaskOK, Tasks
<1>4. MyOK'    BY DEF Empty, TaskOK, RestOK, MyOK
<1>5. PcOK'    BY DEF Empty, TaskOK, PcOK, Tasks
<1>6. LockOK'  BY EmptyEffect DEF Empty, TaskOK, LockOK, MyOK, PcOK, SameOpen
<1> QED  BY <1>1, <1>2, <1>3, <1>4, <1>5, <1>6

LEMMA EmptyEventsControl == ASSUME Control, NEW t \in Tasks, EmptyEvents(t) PROVE Control'
<1> USE PoolAssumption DEF Control, Step, Goto, Return, Closed
<1>1. ConnOK'  BY EmptyEventsEffect
<1>2. TaskOK'  BY DEF EmptyEvents, TaskOK, PCs, MyOK, RestOK, Ids, Tasks
<1>3. RestOK'  BY DEF EmptyEvents, RestOK, MyOK, TaskOK, Tasks
<1>4. MyOK'    BY DEF EmptyEvents, TaskOK, RestOK, MyOK
<1>5. PcOK'    BY DEF EmptyEvents, TaskOK, PcOK, Tasks
<1>6. LockOK'  BY EmptyEventsEffect DEF EmptyEvents, TaskOK, LockOK, MyOK, PcOK, SameOpen
<1> QED  BY <1>1, <1>2, <1>3, <1>4, <1>5, <1>6

LEMMA AttachControl == ASSUME Control, Attach PROVE Control'
<1> USE PoolAssumption DEF Control, Step, Goto, Return, Closed
<1>1. ConnOK'  BY AttachEffect
<1>2. TaskOK'  BY DEF Attach, TaskOK, PCs, MyOK, RestOK, Ids, Tasks
<1>3. RestOK'  BY DEF Attach, RestOK, MyOK, TaskOK, Tasks
<1>4. MyOK'    BY DEF Attach, TaskOK, RestOK, MyOK
<1>5. PcOK'    BY DEF Attach, TaskOK, PcOK, Tasks
<1>6. LockOK'  BY AttachEffect DEF Attach, TaskOK, LockOK, MyOK, PcOK, SameOpen
<1> QED  BY <1>1, <1>2, <1>3, <1>4, <1>5, <1>6

LEMMA ClearSocketControl == ASSUME Control, ClearSocket PROVE Control'
<1> USE PoolAssumption DEF Control, Step, Goto, Return, Closed
<1>1. ConnOK'  BY ClearSocketEffect
<1>2. TaskOK'  BY DEF ClearSocket, TaskOK, PCs, MyOK, RestOK, Ids, Tasks
<1>3. RestOK'  BY DEF ClearSocket, RestOK, MyOK, TaskOK, Tasks
<1>4. MyOK'    BY DEF ClearSocket, TaskOK, RestOK, MyOK
<1>5. PcOK'    BY DEF ClearSocket, TaskOK, PcOK, Tasks
<1>6. LockOK'  BY ClearSocketEffect DEF ClearSocket, TaskOK, LockOK, MyOK, PcOK, SameOpen
<1> QED  BY <1>1, <1>2, <1>3, <1>4, <1>5, <1>6

LEMMA PostControl == ASSUME Control, Post PROVE Control'
<1> USE PoolAssumption DEF Control, Step, Goto, Return, Closed
<1>1. ConnOK'  BY DEF Control, ConnOK, Post
<1>2. TaskOK'  BY DEF Post, TaskOK, PCs, MyOK, RestOK, Ids, Tasks
<1>3. RestOK'
  <2>1. my["router"] \in Conns
    BY DEF Post, MyOK, Tasks
  <2>2. stolen' \subseteq Conns
    BY <2>1 DEF Post, RestOK
  <2>3. backlog' \in Seq(Conns) /\ Len(backlog') <= Backlog
    BY <2>1 DEF Post, RestOK
  <2>4. UNCHANGED <<lastGiven, lock, sport, inLoop, abandoned>>
    BY DEF Post
  <2> QED
    BY <2>2, <2>3, <2>4 DEF RestOK
<1>4. MyOK'    BY DEF Post, TaskOK, RestOK, MyOK
<1>5. PcOK'    BY DEF Post, TaskOK, PcOK, Tasks
<1>6. LockOK'  BY DEF Post, TaskOK, LockOK, MyOK, PcOK
<1> QED  BY <1>1, <1>2, <1>3, <1>4, <1>5, <1>6

LEMMA AcceptControl == ASSUME Control, Accept PROVE Control'
<1> USE PoolAssumption DEF Control, Step, Goto, Return, Closed
<1>1. ConnOK'  BY DEF Control, ConnOK, Accept
<1>2. TaskOK'  BY DEF Accept, TaskOK, PCs, MyOK, RestOK, Ids, Tasks
<1>3. RestOK'  BY DEF Accept, RestOK, MyOK, TaskOK, Tasks
<1>4. MyOK'    BY DEF Accept, TaskOK, RestOK, MyOK
<1>5. PcOK'    BY DEF Accept, TaskOK, PcOK, Tasks
<1>6. LockOK'  BY DEF Accept, TaskOK, LockOK, MyOK, PcOK
<1> QED  BY <1>1, <1>2, <1>3, <1>4, <1>5, <1>6

LEMMA AllocateControl == ASSUME Control, NEW t \in Tasks, Allocate(t) PROVE Control'
<1> USE PoolAssumption DEF Control, Step, Goto, Return
<1>1. CASE Candidates = {}
  <2>1. ConnOK'  BY <1>1 DEF Allocate, ConnOK
  <2>2. TaskOK'  BY <1>1 DEF Allocate, TaskOK, PCs, MyOK, RestOK, Ids, Tasks
  <2>3. RestOK'  BY <1>1 DEF Allocate, RestOK, MyOK, TaskOK, Tasks
  <2>4. MyOK'    BY <1>1 DEF Allocate, TaskOK, RestOK, MyOK
  <2>5. PcOK'    BY <1>1 DEF Allocate, TaskOK, PcOK, Tasks
  <2>6. LockOK'  BY <1>1 DEF Allocate, TaskOK, LockOK, MyOK
  <2> QED  BY <2>1, <2>2, <2>3, <2>4, <2>5, <2>6
<1>2. CASE Candidates # {}
  <2>1. ConnOK' /\ NextFree \in Conns  BY <1>2, AllocateEffect
  <2>2. TaskOK'  BY <1>2, <2>1 DEF Allocate, TaskOK, PCs, MyOK, RestOK, Ids, Tasks
  <2>3. RestOK'  BY <1>2, <2>1 DEF Allocate, RestOK, MyOK, TaskOK, Tasks
  <2>4. MyOK'    BY <1>2, <2>1 DEF Allocate, TaskOK, RestOK, MyOK
  <2>5. PcOK'    BY <1>2, <2>1 DEF Allocate, TaskOK, PcOK, Tasks
  <2>6. LockOK'
    <3>1. Nobody \notin Tasks
      BY DEF Tasks
    <3>2. \A u \in Tasks : pc[u] \notin {"unset", "empty", "emptyEvents"}
      BY <3>1 DEF Allocate, LockOK
    <3>3. \A u \in Tasks : pc'[u] = IF u = t THEN "unset" ELSE pc[u]
      BY <1>2 DEF Allocate, TaskOK
    <3>4. lock' = t
      BY <1>2 DEF Allocate
    <3> QED  BY <3>2, <3>3, <3>4 DEF LockOK
  <2> QED  BY <2>1, <2>2, <2>3, <2>4, <2>5, <2>6
<1> QED  BY <1>1, <1>2

LEMMA UnsetSocketControl == ASSUME Control, NEW t \in Tasks, UnsetSocket(t) PROVE Control'
<1> USE PoolAssumption DEF Control, Step, Goto, Return, Closed
<1>1. ConnOK'  BY UnsetSocketEffect
<1>2. TaskOK'  BY DEF UnsetSocket, TaskOK, PCs, MyOK, RestOK, Ids, Tasks
<1>3. RestOK'  BY DEF UnsetSocket, RestOK, MyOK, TaskOK, Tasks
<1>4. MyOK'    BY DEF UnsetSocket, TaskOK, RestOK, MyOK
<1>5. PcOK'    BY DEF UnsetSocket, TaskOK, PcOK, Tasks
<1>6. LockOK'
  <2>1. \A u \in Tasks : u # t => pc[u] \notin {"unset", "empty", "emptyEvents"}
    BY DEF UnsetSocket, LockOK
  <2>2. \A u \in Tasks : pc'[u] = IF u = t THEN "ident" ELSE pc[u]
    BY DEF UnsetSocket, TaskOK
  <2> QED  BY <2>1, <2>2 DEF LockOK
<1> QED  BY <1>1, <1>2, <1>3, <1>4, <1>5, <1>6

LEMMA EnqueuePacketControl == ASSUME Control, EnqueuePacket PROVE Control'
<1> USE PoolAssumption DEF Control, Step, Goto, Return
<1>1. CASE Len(conn[my["router"]].rx) = RxCap
  <2>1. ConnOK'  BY <1>1 DEF EnqueuePacket, ConnOK
  <2>2. TaskOK'  BY <1>1 DEF EnqueuePacket, TaskOK, PCs, MyOK, RestOK, Ids, Tasks
  <2>3. RestOK'  BY <1>1 DEF EnqueuePacket, RestOK, MyOK, TaskOK, Tasks
  <2>4. MyOK'    BY <1>1 DEF EnqueuePacket, TaskOK, RestOK, MyOK
  <2>5. PcOK'    BY <1>1 DEF EnqueuePacket, TaskOK, PcOK, Tasks
  <2>6. LockOK'  BY <1>1 DEF EnqueuePacket, TaskOK, LockOK, MyOK
  <2> QED  BY <2>1, <2>2, <2>3, <2>4, <2>5, <2>6
<1>2. CASE Len(conn[my["router"]].rx) # RxCap
  <2>1. ConnOK'  BY <1>2, EnqueuePacketEffect
  <2>2. TaskOK'  BY <1>2 DEF EnqueuePacket, TaskOK, PCs, MyOK, RestOK, Ids, Tasks
  <2>3. RestOK'  BY <1>2 DEF EnqueuePacket, RestOK, MyOK, TaskOK, Tasks
  <2>4. MyOK'    BY <1>2 DEF EnqueuePacket, TaskOK, RestOK, MyOK
  <2>5. PcOK'    BY <1>2 DEF EnqueuePacket, TaskOK, PcOK, Tasks
  <2>6. LockOK'  BY <1>2, EnqueuePacketEffect DEF EnqueuePacket, TaskOK, LockOK, MyOK, SameOpen
  <2> QED  BY <2>1, <2>2, <2>3, <2>4, <2>5, <2>6
<1> QED  BY <1>1, <1>2

LEMMA EnqueueEventControl == ASSUME Control, EnqueueEvent PROVE Control'
<1> USE PoolAssumption DEF Control, Step, Goto, Return
<1>1. CASE conn[my["router"]].events = RxCap
  <2>1. ConnOK'  BY <1>1, EnqueueEventFullEffect
  <2>2. TaskOK'  BY <1>1 DEF EnqueueEvent, TaskOK, PCs, MyOK, RestOK, Ids, Tasks
  <2>3. RestOK'  BY <1>1 DEF EnqueueEvent, RestOK, MyOK, TaskOK, Tasks
  <2>4. MyOK'    BY <1>1 DEF EnqueueEvent, TaskOK, RestOK, MyOK
  <2>5. PcOK'    BY <1>1 DEF EnqueueEvent, TaskOK, PcOK, Tasks
  <2>6. LockOK'
    BY <1>1, EnqueueEventFullEffect DEF EnqueueEvent, TaskOK, LockOK, MyOK, SameOpen
  <2> QED  BY <2>1, <2>2, <2>3, <2>4, <2>5, <2>6
<1>2. CASE conn[my["router"]].events # RxCap
  <2>1. ConnOK'  BY <1>2, EnqueueEventEffect
  <2>2. TaskOK'  BY <1>2 DEF EnqueueEvent, TaskOK, PCs, MyOK, RestOK, Ids, Tasks
  <2>3. RestOK'  BY <1>2 DEF EnqueueEvent, RestOK, MyOK, TaskOK, Tasks
  <2>4. MyOK'    BY <1>2 DEF EnqueueEvent, TaskOK, RestOK, MyOK
  <2>5. PcOK'    BY <1>2 DEF EnqueueEvent, TaskOK, PcOK, Tasks
  <2>6. LockOK'  BY <1>2, EnqueueEventEffect DEF EnqueueEvent, TaskOK, LockOK, MyOK, SameOpen
  <2> QED  BY <2>1, <2>2, <2>3, <2>4, <2>5, <2>6
<1> QED  BY <1>1, <1>2

LEMMA RouteControl == ASSUME Control, Route PROVE Control'
<1> USE RouteEffect DEF Control
<1>1. ConnOK'  BY DEF Route, ConnOK
<1>2. TaskOK'  BY DEF TaskOK, PCs, Tasks
<1>3. RestOK'  BY DEF Route, RestOK
<1>4. MyOK'    BY DEF TaskOK, MyOK
<1>5. PcOK'    BY PoolAssumption DEF TaskOK, PcOK, Tasks
<1>6. LockOK'
  <2>1. pc'["router"] \in {"alloc", "packet"}
    BY DEF TaskOK, Tasks
  <2>2. \A u \in Tasks : u # "router" => pc'[u] = pc[u] /\ my'[u] = my[u]
    BY DEF TaskOK
  <2> QED  BY <2>1, <2>2 DEF Route, LockOK
<1> QED  BY <1>1, <1>2, <1>3, <1>4, <1>5, <1>6

LEMMA NextControl == Control /\ [Next]_vars => Control'
<1> SUFFICES ASSUME Control, [Next]_vars PROVE Control'
  OBVIOUS
<1>1. CASE Router
  BY <1>1, RouteControl, AttachControl, EnqueuePacketControl, EnqueueEventControl,
     PostControl, ClearSocketControl DEF Router
<1>2. CASE Accept
  BY <1>2, AcceptControl
<1>3. CASE \E t \in Tasks : Task(t)
  BY <1>3, PickPortControl, AllocateControl, AllocateTimeoutControl,
     UnsetSocketControl, IdentifyControl,
     FlushControl, FlushEventsControl, ReadEventControl, ReadPacketControl,
     StartCloseControl, CloseCheckControl, CloseLockControl, CloseTimeoutControl,
     EmptyControl, EmptyEventsControl DEF Task
<1>4. CASE UNCHANGED vars
  BY <1>4 DEF vars, Control, ConnOK, TaskOK, RestOK, MyOK, PcOK, LockOK
<1> QED
  BY <1>1, <1>2, <1>3, <1>4 DEF Next

(* Types and positions hold whatever the server does.                        *)
THEOREM ControlInvariance == Spec => []Control
BY InitControl, NextControl, PTL DEF Spec

(* The queues, the events and the backlog of every connection stay within     *)
(* their capacities, and every reference is to a structure of the pool.      *)
THEOREM TypeCorrect == Spec => []TypeOK
<1>1. Control => TypeOK
  BY TypeParts DEF Control
<1> QED
  BY <1>1, ControlInvariance, PTL
-----------------------------------------------------------------------------
(* Who owns a connection, in the form that is preserved: an owner's           *)
(* connection is open and not in the backlog, no other task owns it, and the  *)
(* backlog holds each connection once; none of this for a stolen one.        *)
Owns(t, c) == my[t] = c /\ Owning(t)
Posted(c) == \E i \in DOMAIN backlog : backlog[i] = c

OwnedOK == \A t \in Tasks : Owning(t) /\ my[t] \notin stolen =>
                              conn[my[t]].open /\ ~Posted(my[t])
OneTask == \A t, u \in Tasks :
             Owning(t) /\ Owning(u) /\ my[t] = my[u] /\ my[t] \notin stolen => t = u
PostedOK == /\ \A i \in DOMAIN backlog : backlog[i] \notin stolen => conn[backlog[i]].open
            /\ \A i, j \in DOMAIN backlog :
                 backlog[i] = backlog[j] /\ backlog[i] \notin stolen => i = j

(* A connection whose socket is still set, unless it is just being given,     *)
(* belongs to the router, or is just being handed over, or was given up in    *)
(* csp_close: this is why the router, which finds connections without the     *)
(* lock, posts none twice if it does not steal it.                           *)
Live(c) == conn[c].open /\ conn[c].sock /\ ~BeingGiven(c)
SockOK ==
  /\ \A c \in Conns \ stolen : Live(c) =>
       /\ \A t \in Clients : ~Owns(t, c)
       /\ Owns("server", c) \/ Posted(c) => pc["router"] = "clear" /\ my["router"] = c
  /\ pc["router"] \in {"ident", "flush"} => ~conn[my["router"]].sock
  /\ pc["router"] \in {"close", "lock"} /\ my["router"] \notin stolen => Owning("router")

(* This part holds for the stolen ones too.                                  *)
LiveOK ==
  \A c \in Conns : Live(c) =>
    \/ c \in abandoned
    \/ my["router"] = c /\ pc["router"] \in {"packet", "event", "post", "clear", "close", "lock"}

(* The first packet of a new connection always fits, so that the early returns *)
(* of csp_conn_enqueue_packet never forget one.                              *)
NewEmpty ==
  /\ pc["router"] \in {"flushEvents", "attach"} => conn[my["router"]].rx = <<>>
  /\ pc["router"] = "attach" => conn[my["router"]].events = 0
  /\ /\ pc["router"] \in {"packet", "event"}
     /\ Live(my["router"]) /\ my["router"] \notin abandoned
     => /\ conn[my["router"]].events = 0
        /\ pc["router"] = "packet" => conn[my["router"]].rx = <<>>

Kept == \A c \in Conns :
          conn[c].open => c \in abandoned \/ Posted(c) \/ \E t \in Tasks : Owns(t, c)

(* A connection of the server has a packet for each event, the router's packet *)
(* being enqueued first, and none that was freed.                            *)
Served(c) == \/ Live(c)
             \/ /\ conn[c].open
                /\ \/ Posted(c)
                   \/ my["server"] = c /\ pc["server"] \in {"ready", "read"}
                   \/ my["router"] = c /\ pc["router"] = "attach"
Begun(t, l, c) == IF pc[t] = l /\ my[t] = c THEN 1 ELSE 0
EventsOK == \A c \in Conns \ stolen : Served(c) =>
              conn[c].events + Begun("server", "read", c) + Begun("router", "event", c)
                <= Len(conn[c].rx)
SoundOK == \A c \in Conns \ stolen : Served(c) => Sound(conn[c].rx)

Ownership == /\ OwnedOK /\ OneTask /\ PostedOK /\ SockOK /\ LiveOK
             /\ NewEmpty /\ Kept /\ EventsOK /\ SoundOK
IInv == Control /\ ~inLoop /\ Ownership

LEMMA TaskNames == "server" \in Tasks /\ "router" \in Tasks /\ Nobody \notin Tasks
                   /\ "server" \notin Clients /\ "router" \notin Clients
                   /\ Tasks = Clients \cup {"server", "router"}
BY PoolAssumption DEF Tasks

(* A client's own connection is served by nobody else.                       *)
LEMMA ClientNotServed ==
  ASSUME IInv, NEW t \in Clients, Owning(t), my[t] \in Conns \ stolen
  PROVE  ~Served(my[t])
<1> USE TaskNames DEF IInv, Ownership
<1>1. ~Live(my[t])
  BY DEF SockOK, Owns
<1>2. ~Posted(my[t])
  BY DEF OwnedOK
<1>3. ASSUME pc["server"] \in {"ready", "read"} PROVE my["server"] # my[t]
  BY <1>3 DEF OneTask, Owning
<1>4. ASSUME pc["router"] = "attach" PROVE my["router"] # my[t]
  BY <1>4 DEF OneTask, Owning
<1> QED
  BY <1>1, <1>2, <1>3, <1>4 DEF Served

(* The counters that EventsOK compares are numbers.                          *)
LEMMA Numbers ==
  ASSUME ConnOK
  PROVE  \A d \in Conns : conn[d].events \in Nat /\ Len(conn[d].rx) \in Nat
                          /\ (conn[d].rx = <<>> => Len(conn[d].rx) = 0)
BY PoolAssumption DEF ConnOK, ConnType

-----------------------------------------------------------------------------
(* Ownership is inductive: one lemma for each action, or for each of the ways   *)
(* it can end.                                                               *)
LEMMA ReadPacketOwnership ==
  ASSUME IInv, NEW t \in Tasks, ReadPacket(t), ServerClose = "once"
  PROVE  ~inLoop' /\ Ownership'
<1> USE TaskNames DEF IInv, Ownership, Owning, SameOpen, SameSock, SameRx, SameEvents
<1>1. /\ my[t] \in Conns /\ ConnOK' /\ SameOpen /\ SameSock /\ SameEvents
      /\ \A d \in Conns : d # my[t] => conn'[d].rx = conn[d].rx
      /\ conn[my[t]].rx # <<>> => Len(conn'[my[t]].rx) = Len(conn[my[t]].rx) - 1
      /\ conn[my[t]].rx = <<>> => conn'[my[t]].rx = <<>>
      /\ Sound(conn[my[t]].rx) => Sound(conn'[my[t]].rx)
  BY ReadPacketEffect
<1>2. \A u \in Tasks : u # t => pc'[u] = pc[u] /\ my'[u] = my[u]
  BY DEF ReadPacket, Step, Goto, Return, Closed, Control, TaskOK
<1>3. pc[t] = "read" /\ pc'[t] = "ready" /\ UNCHANGED my
  BY <1>1 DEF ReadPacket, Step, Goto, Return, Closed, Control, TaskOK
<1>4. UNCHANGED <<backlog, abandoned>> /\ ~inLoop'
  BY DEF ReadPacket, Step, Goto, Return, Closed
<1>5. PcOK /\ MyOK /\ LockOK /\ \A i \in DOMAIN backlog : backlog[i] \in Conns
  BY DEF Control, RestOK
<1>g. stolen' = stolen /\ \A c : BeingGiven(c)' <=> BeingGiven(c)
  BY <1>1, <1>2, <1>3, <1>4 DEF BeingGiven, ReadPacket, PcOK
<1>6. OwnedOK'   BY <1>g, <1>1, <1>2, <1>3, <1>4, <1>5 DEF OwnedOK, Posted, PcOK, MyOK, PostedOK
<1>7. OneTask'   BY <1>g, <1>1, <1>2, <1>3, <1>4, <1>5 DEF OneTask, PcOK, OwnedOK, MyOK
<1>8. PostedOK'  BY <1>g, <1>1, <1>2, <1>3, <1>4, <1>5 DEF PostedOK, OwnedOK, Posted
<1>9. SockOK'    BY <1>g, <1>1, <1>2, <1>3, <1>4, <1>5
                    DEF SockOK, Owns, Posted, PcOK, OwnedOK, MyOK, OneTask, Live
<1>l. LiveOK'
  BY <1>g, <1>1, <1>2, <1>3, <1>4, <1>5
  DEF LiveOK, Live, PcOK, MyOK, NewEmpty
<1>10. NewEmpty'  BY <1>g, <1>1, <1>2, <1>3, <1>4, <1>5 DEF NewEmpty, PcOK, OneTask, MyOK, Live
<1>11. Kept'     BY <1>g, <1>1, <1>2, <1>3, <1>4, <1>5 DEF Kept, Owns, Posted, PcOK, MyOK, OwnedOK
<1>12. EventsOK'
  <2> SUFFICES ASSUME NEW c \in Conns \ stolen, Served(c)'
               PROVE  conn'[c].events + Begun("server", "read", c)' + Begun("router", "event", c)'
                        <= Len(conn'[c].rx)
    BY <1>g DEF EventsOK
  <2>1. Served(c)
    BY <1>g, <1>1, <1>2, <1>3, <1>4 DEF Served, Posted, Live
  <2>2. conn[c].events + Begun("server", "read", c) + Begun("router", "event", c)
          <= Len(conn[c].rx)
    BY <2>1 DEF EventsOK
  <2>3. t # "router" /\ Begun("router", "event", c)' = Begun("router", "event", c)
    BY <1>2, <1>3, <1>5 DEF PcOK, Begun
  <2>4. Begun("router", "event", c) \in 0 .. 1 /\ Begun("server", "read", c) \in 0 .. 1
    BY DEF Begun
  <2>5. ConnOK
    BY DEF Control
  <2>6. CASE c # my[t]
    <3>1. Begun("server", "read", c)' = Begun("server", "read", c)
      BY <1>2, <1>3, <2>6 DEF Begun
    <3> QED  BY <1>1, <2>2, <2>3, <2>6, <3>1
  <2>7. CASE c = my[t]
    <3>1. t = "server"
      BY <1>3, <2>1, <2>3, <2>7, ClientNotServed DEF Owning
    <3>2. Begun("server", "read", c) = 1 /\ Begun("server", "read", c)' = 0
      BY <1>3, <2>7, <3>1 DEF Begun
    <3>3. conn[c].rx # <<>>
      BY <2>2, <2>4, <2>5, <3>2, Numbers
    <3>4. Len(conn'[c].rx) = Len(conn[c].rx) - 1
      BY <1>1, <2>7, <3>3
    <3> HIDE DEF Owning
    <3> QED  BY <1>1, <2>2, <2>3, <2>4, <2>5, <3>2, <3>4, Numbers DEF SameEvents
  <2> QED  BY <2>6, <2>7
<1>s. SoundOK'
  BY <1>g, <1>1, <1>2, <1>3, <1>4, <1>5
  DEF SoundOK, Served, Live, Posted, PcOK, LockOK, MyOK, OneTask, SockOK, OwnedOK, Owns
<1> QED  BY <1>g, <1>l, <1>s, <1>4, <1>6, <1>7, <1>8, <1>9, <1>10, <1>11, <1>12

LEMMA CloseLockOwnership ==
  ASSUME IInv, NEW t \in Tasks, CloseLock(t)
  PROVE  ~inLoop' /\ Ownership'
<1> USE TaskNames DEF IInv, Ownership, SameOpen, SameSock, SameRx, SameEvents
<1>1. /\ my[t] \in Conns /\ ConnOK'
      /\ SameSock /\ SameRx /\ SameEvents
      /\ \A d \in Conns : conn'[d].open <=> d # my[t] /\ conn[d].open
  BY CloseLockEffect
<1>2. \A u \in Tasks : u # t => pc'[u] = pc[u] /\ my'[u] = my[u]
  BY DEF CloseLock, Step, Goto, Return, Closed, Control, TaskOK
<1>3. pc[t] = "lock" /\ pc'[t] = "empty" /\ UNCHANGED my
  BY DEF CloseLock, Step, Goto, Control, TaskOK
<1>4. UNCHANGED backlog /\ abandoned' = abandoned \ {my[t]} /\ ~inLoop'
  BY DEF CloseLock
<1>5. /\ PcOK /\ MyOK /\ LockOK /\ ConnOK
      /\ \A i \in DOMAIN backlog : backlog[i] \in Conns
      /\ \A u \in Tasks : Owning(u) => my[u] \in Conns
  BY DEF Control, RestOK, MyOK, Owning
<1>g. stolen' = stolen /\ \A c : BeingGiven(c)' <=> BeingGiven(c)
  BY <1>1, <1>2, <1>3, <1>4 DEF BeingGiven, CloseLock, PcOK
<1>6. (my[t] \notin stolen => Owning(t)) /\ ~Owning(t)'
  BY <1>3, <1>5 DEF Owning, SockOK
<1>7. /\ \A u \in Tasks : u # t => (Owning(u)' <=> Owning(u))
      /\ \A u \in Tasks : u # t /\ Owning(u) /\ my[t] \notin stolen => my[u] # my[t]
  BY <1>g, <1>1, <1>2, <1>3, <1>5, <1>6 DEF Owning, OneTask, MyOK
<1>8. my[t] \notin stolen => ~Posted(my[t])
  BY <1>6 DEF OwnedOK
<1>9. OwnedOK'   BY <1>g, <1>1, <1>2, <1>3, <1>4, <1>5, <1>6, <1>7, <1>8
                    DEF OwnedOK, Posted, MyOK, PostedOK
<1>10. OneTask'   BY <1>g, <1>1, <1>2, <1>3, <1>4, <1>5, <1>6, <1>7, <1>8
                     DEF OneTask, OwnedOK, MyOK, Owns
<1>11. PostedOK'  BY <1>g, <1>1, <1>2, <1>3, <1>4, <1>5, <1>6, <1>7, <1>8
                     DEF PostedOK, OwnedOK, Posted
<1>12. SockOK'    BY <1>g, <1>1, <1>2, <1>3, <1>4, <1>5, <1>6, <1>7, <1>8
                     DEF SockOK, Owns, Posted, PcOK, OwnedOK, MyOK, OneTask, Live
<1>l. LiveOK'
  BY <1>g, <1>1, <1>2, <1>3, <1>4, <1>5, <1>6, <1>7, <1>8
  DEF LiveOK, Live, PcOK, MyOK, NewEmpty
<1>13. NewEmpty'  BY <1>g, <1>1, <1>2, <1>3, <1>4, <1>5, <1>6, <1>7, <1>8
                     DEF NewEmpty, OneTask, MyOK, OwnedOK, Live
<1>14. Kept'     BY <1>g, <1>1, <1>2, <1>3, <1>4, <1>5, <1>6, <1>7, <1>8
                    DEF Kept, Owns, Posted, MyOK, OwnedOK
<1>15. EventsOK' BY <1>g, <1>1, <1>2, <1>3, <1>4, <1>5, <1>6, <1>7, <1>8
                    DEF EventsOK, Served, Begun, Posted, PcOK, MyOK, OneTask, SockOK, OwnedOK, Owns, Live
<1>s. SoundOK'
  BY <1>g, <1>1, <1>2, <1>3, <1>4, <1>5, <1>6, <1>7, <1>8
  DEF SoundOK, Sound, Served, Live, Posted, PcOK, LockOK, MyOK, OneTask, SockOK, OwnedOK, Owns
<1> QED  BY <1>g, <1>l, <1>s, <1>4, <1>9, <1>10, <1>11, <1>12, <1>13, <1>14, <1>15

LEMMA AttachOwnership == ASSUME IInv, Attach PROVE ~inLoop' /\ Ownership'
<1> USE TaskNames DEF IInv, Ownership, SameOpen, SameSock, SameRx, SameEvents
<1>1. /\ my["router"] \in Conns /\ ConnOK'
      /\ SameOpen /\ SameRx /\ SameEvents
      /\ \A d \in Conns : conn'[d].sock <=> d = my["router"] \/ conn[d].sock
  BY AttachEffect
<1>2. \A u \in Tasks : u # "router" => pc'[u] = pc[u] /\ my'[u] = my[u]
  BY DEF Attach, Step, Goto, Return, Closed, Control, TaskOK
<1>3. pc["router"] = "attach" /\ pc'["router"] = "packet" /\ UNCHANGED my
  BY DEF Attach, Step, Goto, Control, TaskOK
<1>4. UNCHANGED <<backlog, abandoned>> /\ ~inLoop'
  BY DEF Attach
<1>5. /\ PcOK /\ MyOK /\ LockOK /\ ConnOK
      /\ \A i \in DOMAIN backlog : backlog[i] \in Conns
      /\ \A u \in Tasks : Owning(u) => my[u] \in Conns
  BY DEF Control, RestOK, MyOK, Owning
<1>g. stolen' = stolen /\ \A c : BeingGiven(c)' <=> BeingGiven(c)
  BY <1>1, <1>2, <1>3, <1>4 DEF BeingGiven, Attach, PcOK
<1>6. Owning("router") /\ (Owning("router")' <=> ~BeingGiven(my["router"]))
  BY <1>g, <1>1, <1>3 DEF Owning
<1>7. \A u \in Tasks : u # "router" => (Owning(u)' <=> Owning(u))
  BY <1>2 DEF Owning
<1>8. my["router"] \notin stolen =>
        /\ \A u \in Tasks : u # "router" /\ Owning(u) => my[u] # my["router"]
        /\ ~BeingGiven(my["router"])
  BY <1>3, <1>6 DEF OneTask, BeingGiven, Owning
<1>9. my["router"] \notin stolen => ~Posted(my["router"])
  BY <1>6 DEF OwnedOK
<1>10. OwnedOK'   BY <1>g, <1>1, <1>2, <1>3, <1>4, <1>5, <1>6, <1>7, <1>8, <1>9
                     DEF OwnedOK, Posted, MyOK, PostedOK
<1>11. OneTask'   BY <1>g, <1>1, <1>2, <1>3, <1>4, <1>5, <1>6, <1>7, <1>8, <1>9
                     DEF OneTask, OwnedOK, MyOK, Owns
<1>12. PostedOK'  BY <1>g, <1>1, <1>2, <1>3, <1>4, <1>5, <1>6, <1>7, <1>8, <1>9
                     DEF PostedOK, OwnedOK, Posted
<1>13. SockOK'    BY <1>g, <1>1, <1>2, <1>3, <1>4, <1>5, <1>6, <1>7, <1>8, <1>9
                     DEF SockOK, Owns, Posted, PcOK, OwnedOK, MyOK, OneTask, Live
<1>l. LiveOK'
  BY <1>g, <1>1, <1>2, <1>3, <1>4, <1>5, <1>6, <1>7, <1>8, <1>9
  DEF LiveOK, Live, PcOK, MyOK, NewEmpty
<1>14. NewEmpty'  BY <1>g, <1>1, <1>2, <1>3, <1>4, <1>5, <1>6, <1>7, <1>8, <1>9
                     DEF NewEmpty, OneTask, MyOK, OwnedOK, Live
<1>k. BeingGiven(my["router"]) => \E u \in Tasks : my[u] = my["router"] /\ Owning(u) /\ u # "router"
  BY <1>3 DEF BeingGiven, Owning
<1>15. Kept'     BY <1>g, <1>k, <1>1, <1>2, <1>3, <1>4, <1>5, <1>6, <1>7, <1>8, <1>9
                    DEF Kept, Owns, Posted, MyOK, OwnedOK
<1>16. EventsOK' BY <1>g, <1>1, <1>2, <1>3, <1>4, <1>5, <1>6, <1>7, <1>8, <1>9
                    DEF EventsOK, Served, Begun, Posted, PcOK, MyOK, OneTask, SockOK, OwnedOK, Owns, Live
<1>s. SoundOK'
  BY <1>g, <1>1, <1>2, <1>3, <1>4, <1>5, <1>6, <1>7, <1>8, <1>9
  DEF SoundOK, Sound, Served, Live, Posted, PcOK, LockOK, MyOK, OneTask, SockOK, OwnedOK, Owns
<1> QED  BY <1>g, <1>l, <1>s, <1>4, <1>10, <1>11, <1>12, <1>13, <1>14, <1>15, <1>16

LEMMA ClearSocketOwnership == ASSUME IInv, ClearSocket PROVE ~inLoop' /\ Ownership'
<1> USE TaskNames DEF IInv, Ownership, SameOpen, SameSock, SameRx, SameEvents
<1>1. /\ my["router"] \in Conns /\ ConnOK'
      /\ SameOpen /\ SameRx /\ SameEvents
      /\ \A d \in Conns : conn'[d].sock <=> d # my["router"] /\ conn[d].sock
  BY ClearSocketEffect
<1>2. \A u \in Tasks : u # "router" => pc'[u] = pc[u] /\ my'[u] = my[u]
  BY DEF ClearSocket, Step, Goto, Return, Closed, Control, TaskOK
<1>3. pc["router"] = "clear" /\ pc'["router"] = "idle"
  BY DEF ClearSocket, Return, Goto, Control, TaskOK
<1>4. UNCHANGED <<backlog, abandoned>> /\ ~inLoop'
  BY DEF ClearSocket
<1>5. /\ PcOK /\ MyOK /\ LockOK /\ ConnOK
      /\ \A i \in DOMAIN backlog : backlog[i] \in Conns
      /\ \A u \in Tasks : Owning(u) => my[u] \in Conns
  BY DEF Control, RestOK, MyOK, Owning
<1>6. ~Owning("router") /\ ~Owning("router")'
  BY <1>1, <1>3 DEF Owning
<1>7. \A u \in Tasks : u # "router" => (Owning(u)' <=> Owning(u))
  BY <1>2 DEF Owning
<1>g. stolen' = stolen /\ \A c : BeingGiven(c)' <=> BeingGiven(c)
  BY <1>1, <1>2, <1>3, <1>4 DEF BeingGiven, ClearSocket, PcOK
<1>8. OwnedOK'   BY <1>g, <1>1, <1>2, <1>3, <1>4, <1>5, <1>6, <1>7
                    DEF OwnedOK, Posted, MyOK, PostedOK
<1>9. OneTask'   BY <1>g, <1>1, <1>2, <1>3, <1>4, <1>5, <1>6, <1>7 DEF OneTask, OwnedOK, MyOK, Owns
<1>10. PostedOK'  BY <1>g, <1>1, <1>2, <1>3, <1>4, <1>5, <1>6, <1>7 DEF PostedOK, OwnedOK, Posted
<1>11. SockOK'    BY <1>g, <1>1, <1>2, <1>3, <1>4, <1>5, <1>6, <1>7
                     DEF SockOK, Owns, Posted, PcOK, OwnedOK, MyOK, OneTask, Live
<1>l. LiveOK'
  BY <1>g, <1>1, <1>2, <1>3, <1>4, <1>5, <1>6, <1>7
  DEF LiveOK, Live, PcOK, MyOK, NewEmpty
<1>12. NewEmpty'  BY <1>g, <1>1, <1>2, <1>3, <1>4, <1>5, <1>6, <1>7
                     DEF NewEmpty, OneTask, MyOK, OwnedOK, Live
<1>13. Kept'     BY <1>g, <1>1, <1>2, <1>3, <1>4, <1>5, <1>6, <1>7
                    DEF Kept, Owns, Posted, MyOK, OwnedOK
<1>14. EventsOK' BY <1>g, <1>1, <1>2, <1>3, <1>4, <1>5, <1>6, <1>7
                    DEF EventsOK, Served, Begun, Posted, PcOK, MyOK, OneTask, SockOK, OwnedOK, Owns, Live
<1>s. SoundOK'
  BY <1>g, <1>1, <1>2, <1>3, <1>4, <1>5, <1>6, <1>7
  DEF SoundOK, Sound, Served, Live, Posted, PcOK, LockOK, MyOK, OneTask, SockOK, OwnedOK, Owns
<1> QED  BY <1>g, <1>l, <1>s, <1>4, <1>8, <1>9, <1>10, <1>11, <1>12, <1>13, <1>14

LEMMA EnqueuePacketFullOwnership ==
  ASSUME IInv, EnqueuePacket, Len(conn[my["router"]].rx) = RxCap
  PROVE  ~inLoop' /\ Ownership'
<1> USE TaskNames DEF IInv, Ownership, SameOpen, SameSock, SameRx, SameEvents
<1>1. \A u \in Tasks : u # "router" => pc'[u] = pc[u] /\ my'[u] = my[u]
  BY DEF EnqueuePacket, Step, Goto, Return, Closed, Control, TaskOK
<1>2. pc["router"] = "packet" /\ pc'["router"] = "idle"
  BY DEF EnqueuePacket, Return, Goto, Control, TaskOK
<1>3. conn' = conn /\ UNCHANGED <<backlog, abandoned>> /\ ~inLoop'
  BY DEF EnqueuePacket
<1>4. /\ PcOK /\ MyOK /\ LockOK /\ ConnOK
      /\ \A i \in DOMAIN backlog : backlog[i] \in Conns
      /\ \A u \in Tasks : Owning(u) => my[u] \in Conns
  BY DEF Control, RestOK, MyOK, Owning
<1>5. ~Owning("router")'
  BY <1>2 DEF Owning
<1>6. \A u \in Tasks : u # "router" => (Owning(u)' <=> Owning(u))
  BY <1>1 DEF Owning
<1>7. my["router"] \in Conns /\ conn[my["router"]].rx # <<>>
  BY <1>2, <1>4, Numbers, PoolAssumption DEF MyOK
<1>g. stolen' = stolen /\ \A c : BeingGiven(c)' <=> BeingGiven(c)
  BY <1>1, <1>2, <1>3, <1>4 DEF BeingGiven, EnqueuePacket, PcOK
<1>8. Live(my["router"]) => my["router"] \in abandoned
  BY <1>2, <1>7 DEF NewEmpty
<1>9. OwnedOK'   BY <1>g, <1>1, <1>2, <1>3, <1>4, <1>5, <1>6, <1>8
                    DEF OwnedOK, Posted, MyOK, PostedOK
<1>10. OneTask'   BY <1>g, <1>1, <1>2, <1>3, <1>4, <1>5, <1>6, <1>8 DEF OneTask, OwnedOK, MyOK, Owns
<1>11. PostedOK'  BY <1>g, <1>1, <1>2, <1>3, <1>4, <1>5, <1>6, <1>8 DEF PostedOK, OwnedOK, Posted
<1>12. SockOK'    BY <1>g, <1>1, <1>2, <1>3, <1>4, <1>5, <1>6, <1>8
                     DEF SockOK, Owns, Posted, PcOK, OwnedOK, MyOK, OneTask, Live
<1>l. LiveOK'
  BY <1>g, <1>1, <1>2, <1>3, <1>4, <1>5, <1>6, <1>8
  DEF LiveOK, Live, PcOK, MyOK, NewEmpty
<1>13. NewEmpty'  BY <1>g, <1>1, <1>2, <1>3, <1>4, <1>5, <1>6, <1>8
                     DEF NewEmpty, OneTask, MyOK, OwnedOK, Live
<1>k. Owning("router") /\ conn[my["router"]].open => my["router"] \in abandoned
  BY <1>2, <1>8 DEF Owning, Live
<1>14. Kept'     BY <1>g, <1>k, <1>1, <1>2, <1>3, <1>4, <1>5, <1>6, <1>8
                    DEF Kept, Owns, Posted, MyOK, OwnedOK
<1>15. EventsOK'
  <2>1. \A c \in Conns : Served(c)' => Served(c)
    BY <1>g, <1>1, <1>2, <1>3, <1>4 DEF Served, Posted, PcOK, Live
  <2>2. \A c \in Conns : /\ Begun("router", "event", c)' = 0 /\ Begun("router", "event", c) \in 0 .. 1
                         /\ Begun("server", "read", c)' = Begun("server", "read", c)
                         /\ Begun("server", "read", c) \in 0 .. 1
    BY <1>1, <1>2 DEF Begun
  <2> QED  BY <1>g, <1>3, <1>4, <2>1, <2>2, Numbers DEF EventsOK
<1>s. SoundOK'
  BY <1>g, <1>1, <1>2, <1>3, <1>4, <1>5, <1>6, <1>8
  DEF SoundOK, Sound, Served, Live, Posted, PcOK, LockOK, MyOK, OneTask, SockOK, OwnedOK, Owns
<1> QED  BY <1>g, <1>l, <1>s, <1>3, <1>9, <1>10, <1>11, <1>12, <1>13, <1>14, <1>15

LEMMA EnqueuePacketOwnership ==
  ASSUME IInv, EnqueuePacket, Len(conn[my["router"]].rx) # RxCap
  PROVE  ~inLoop' /\ Ownership'
<1> USE TaskNames DEF IInv, Ownership, SameOpen, SameSock, SameRx, SameEvents
<1>1. /\ my["router"] \in Conns /\ ConnOK' /\ SameOpen /\ SameSock /\ SameEvents
      /\ \A d \in Conns : d # my["router"] => conn'[d].rx = conn[d].rx
      /\ Len(conn'[my["router"]].rx) = Len(conn[my["router"]].rx) + 1
      /\ Sound(conn[my["router"]].rx) => Sound(conn'[my["router"]].rx)
  BY EnqueuePacketEffect
<1>2. \A u \in Tasks : u # "router" => pc'[u] = pc[u] /\ my'[u] = my[u]
  BY DEF EnqueuePacket, Step, Goto, Return, Closed, Control, TaskOK
<1>3. pc["router"] = "packet" /\ pc'["router"] = "event" /\ UNCHANGED my
  BY <1>1 DEF EnqueuePacket, Goto, Control, TaskOK
<1>4. UNCHANGED <<backlog, abandoned>> /\ ~inLoop'
  BY DEF EnqueuePacket
<1>5. /\ PcOK /\ MyOK /\ LockOK /\ ConnOK
      /\ \A i \in DOMAIN backlog : backlog[i] \in Conns
      /\ \A u \in Tasks : Owning(u) => my[u] \in Conns
  BY DEF Control, RestOK, MyOK, Owning
<1>g. stolen' = stolen /\ \A c : BeingGiven(c)' <=> BeingGiven(c)
  BY <1>1, <1>2, <1>3, <1>4 DEF BeingGiven, EnqueuePacket, PcOK
<1>6. Owning("router")' <=> Owning("router")
  BY <1>g, <1>1, <1>3 DEF Owning
<1>7. \A u \in Tasks : u # "router" => (Owning(u)' <=> Owning(u))
  BY <1>2 DEF Owning
<1>8. OwnedOK'   BY <1>g, <1>1, <1>2, <1>3, <1>4, <1>5, <1>6, <1>7
                    DEF OwnedOK, Posted, MyOK, PostedOK
<1>9. OneTask'   BY <1>g, <1>1, <1>2, <1>3, <1>4, <1>5, <1>6, <1>7 DEF OneTask, OwnedOK, MyOK, Owns
<1>10. PostedOK'  BY <1>g, <1>1, <1>2, <1>3, <1>4, <1>5, <1>6, <1>7 DEF PostedOK, OwnedOK, Posted
<1>11. SockOK'    BY <1>g, <1>1, <1>2, <1>3, <1>4, <1>5, <1>6, <1>7
                     DEF SockOK, Owns, Posted, PcOK, OwnedOK, MyOK, OneTask, Live
<1>l. LiveOK'
  BY <1>g, <1>1, <1>2, <1>3, <1>4, <1>5, <1>6, <1>7
  DEF LiveOK, Live, PcOK, MyOK, NewEmpty
<1>12. NewEmpty'  BY <1>g, <1>1, <1>2, <1>3, <1>4, <1>5, <1>6, <1>7
                     DEF NewEmpty, OneTask, MyOK, OwnedOK, Live
<1>13. Kept'     BY <1>g, <1>1, <1>2, <1>3, <1>4, <1>5, <1>6, <1>7
                    DEF Kept, Owns, Posted, MyOK, OwnedOK
<1>14. EventsOK'
  <2>1. \A c \in Conns : Served(c)' => Served(c)
    BY <1>g, <1>1, <1>2, <1>3, <1>4, <1>5 DEF Served, Posted, PcOK, Live
  <2>2. \A c \in Conns : /\ Begun("router", "event", c) = IF c = my["router"] THEN 0 ELSE 0
                         /\ Begun("router", "event", c)' = IF c = my["router"] THEN 1 ELSE 0
                         /\ Begun("server", "read", c)' = Begun("server", "read", c)
                         /\ Begun("server", "read", c) \in 0 .. 1
    BY <1>2, <1>3 DEF Begun
  <2>3. ASSUME NEW c \in Conns \ stolen, Served(c)
        PROVE  conn'[c].events + Begun("server", "read", c)' + Begun("router", "event", c)'
                 <= Len(conn'[c].rx)
    <3>1. /\ conn[c].events \in Nat /\ Len(conn[c].rx) \in Nat
          /\ conn[c].events + Begun("server", "read", c) + Begun("router", "event", c)
               <= Len(conn[c].rx)
      BY <1>5, <2>3, Numbers DEF EventsOK
    <3>2. CASE c = my["router"]
      BY <1>1, <2>2, <3>1, <3>2
    <3>3. CASE c # my["router"]
      BY <1>1, <2>2, <3>1, <3>3
    <3> QED  BY <3>2, <3>3
  <2> QED  BY <1>g, <2>1, <2>3 DEF EventsOK
<1>s. SoundOK'
  <2>1. \A c \in Conns : Served(c)' => Served(c)
    BY <1>g, <1>1, <1>2, <1>3, <1>4, <1>5 DEF Served, Posted, PcOK, Live
  <2> QED  BY <1>g, <1>1, <2>1 DEF SoundOK
<1> QED  BY <1>g, <1>l, <1>s, <1>4, <1>8, <1>9, <1>10, <1>11, <1>12, <1>13, <1>14

LEMMA EnqueueEventFullOwnership ==
  ASSUME IInv, EnqueueEvent, conn[my["router"]].events = RxCap
  PROVE  ~inLoop' /\ Ownership'
<1> USE TaskNames DEF IInv, Ownership, SameOpen, SameSock, SameRx, SameEvents
<1>1. \A u \in Tasks : u # "router" => pc'[u] = pc[u] /\ my'[u] = my[u]
  BY DEF EnqueueEvent, Step, Goto, Return, Closed, Control, TaskOK
<1>2. pc["router"] = "event" /\ pc'["router"] = "idle"
  BY DEF EnqueueEvent, Return, Goto, Control, TaskOK
<1>0. /\ my["router"] \in Conns /\ ConnOK' /\ SameOpen /\ SameSock /\ SameEvents
      /\ \A d \in Conns : d # my["router"] => conn'[d].rx = conn[d].rx
      /\ Len(conn'[my["router"]].rx) = Len(conn[my["router"]].rx)
      /\ conn[my["router"]].rx = <<>> => conn'[my["router"]].rx = <<>>
  BY EnqueueEventFullEffect
<1>3. UNCHANGED <<backlog, abandoned>> /\ ~inLoop'
  BY DEF EnqueueEvent
<1>4. /\ PcOK /\ MyOK /\ LockOK /\ ConnOK
      /\ \A i \in DOMAIN backlog : backlog[i] \in Conns
      /\ \A u \in Tasks : Owning(u) => my[u] \in Conns
  BY DEF Control, RestOK, MyOK, Owning
<1>5. ~Owning("router")'
  BY <1>2 DEF Owning
<1>6. \A u \in Tasks : u # "router" => (Owning(u)' <=> Owning(u))
  BY <1>1 DEF Owning
<1>7. my["router"] \in Conns /\ conn[my["router"]].events # 0
  BY <1>2, <1>4, Numbers, PoolAssumption DEF MyOK
<1>g. stolen' = stolen /\ \A c : BeingGiven(c)' <=> BeingGiven(c)
  BY <1>1, <1>2, <1>3, <1>4 DEF BeingGiven, EnqueueEvent, PcOK
<1>8. Live(my["router"]) => my["router"] \in abandoned
  BY <1>2, <1>7 DEF NewEmpty
<1>9. OwnedOK'   BY <1>g, <1>0, <1>1, <1>2, <1>3, <1>4, <1>5, <1>6, <1>8
                    DEF OwnedOK, Posted, MyOK, PostedOK
<1>10. OneTask'   BY <1>g, <1>0, <1>1, <1>2, <1>3, <1>4, <1>5, <1>6, <1>8 DEF OneTask, OwnedOK, MyOK, Owns
<1>11. PostedOK'  BY <1>g, <1>0, <1>1, <1>2, <1>3, <1>4, <1>5, <1>6, <1>8 DEF PostedOK, OwnedOK, Posted
<1>12. SockOK'    BY <1>g, <1>0, <1>1, <1>2, <1>3, <1>4, <1>5, <1>6, <1>8
                     DEF SockOK, Owns, Posted, PcOK, OwnedOK, MyOK, OneTask, Live
<1>l. LiveOK'
  BY <1>g, <1>0, <1>1, <1>2, <1>3, <1>4, <1>5, <1>6, <1>8
  DEF LiveOK, Live, PcOK, MyOK, NewEmpty
<1>13. NewEmpty'  BY <1>g, <1>0, <1>1, <1>2, <1>3, <1>4, <1>5, <1>6, <1>8
                     DEF NewEmpty, OneTask, MyOK, OwnedOK, Live
<1>k. Owning("router") /\ conn[my["router"]].open => my["router"] \in abandoned
  BY <1>2, <1>8 DEF Owning, Live
<1>14. Kept'     BY <1>g, <1>k, <1>0, <1>1, <1>2, <1>3, <1>4, <1>5, <1>6, <1>8
                    DEF Kept, Owns, Posted, MyOK, OwnedOK
<1>15. EventsOK'
  <2>1. \A c \in Conns : Served(c)' => Served(c)
    BY <1>g, <1>0, <1>1, <1>2, <1>3, <1>4 DEF Served, Posted, PcOK, Live
  <2>2. \A c \in Conns : /\ Begun("router", "event", c)' = 0 /\ Begun("router", "event", c) \in 0 .. 1
                         /\ Begun("server", "read", c)' = Begun("server", "read", c)
                         /\ Begun("server", "read", c) \in 0 .. 1
    BY <1>1, <1>2 DEF Begun
  <2>3. \A c \in Conns : conn'[c].events = conn[c].events /\ Len(conn'[c].rx) = Len(conn[c].rx)
    BY <1>0
  <2> QED  BY <1>g, <1>4, <2>1, <2>2, <2>3, Numbers DEF EventsOK
<1>s. SoundOK'
  <2>1. \A c \in Conns : Served(c)' => Served(c)
    BY <1>g, <1>0, <1>1, <1>2, <1>3, <1>4 DEF Served, Posted, PcOK, Live
  <2>2. ASSUME NEW c \in Conns \ stolen, Served(c), c = my["router"] PROVE FALSE
    <3>1. /\ conn[c].events + Begun("server", "read", c) + Begun("router", "event", c)
               <= Len(conn[c].rx)
          /\ Len(conn[c].rx) \in Nat /\ Len(conn[c].rx) <= RxCap
      BY <1>4, <2>2, Numbers DEF EventsOK, ConnOK
    <3>2. Begun("router", "event", c) = 1 /\ Begun("server", "read", c) \in 0 .. 1
      BY <1>2, <2>2 DEF Begun
    <3> QED  BY <2>2, <3>1, <3>2, PoolAssumption
  <2> QED  BY <1>g, <1>0, <2>1, <2>2 DEF SoundOK
<1> QED  BY <1>g, <1>l, <1>s, <1>3, <1>9, <1>10, <1>11, <1>12, <1>13, <1>14, <1>15

LEMMA EnqueueEventOwnership ==
  ASSUME IInv, EnqueueEvent, conn[my["router"]].events # RxCap
  PROVE  ~inLoop' /\ Ownership'
<1> USE TaskNames DEF IInv, Ownership, SameOpen, SameSock, SameRx, SameEvents
<1>1. /\ my["router"] \in Conns /\ ConnOK' /\ SameOpen /\ SameSock /\ SameRx
      /\ \A d \in Conns : conn'[d].events =
                    IF d = my["router"] THEN conn[d].events + 1 ELSE conn[d].events
  BY EnqueueEventEffect
<1>2. \A u \in Tasks : u # "router" => pc'[u] = pc[u] /\ my'[u] = my[u]
  BY DEF EnqueueEvent, Step, Goto, Return, Closed, Control, TaskOK
<1>3. pc["router"] = "event" /\ pc'["router"] = "post" /\ UNCHANGED my
  BY <1>1 DEF EnqueueEvent, Goto, Control, TaskOK
<1>4. UNCHANGED <<backlog, abandoned>> /\ ~inLoop'
  BY DEF EnqueueEvent
<1>5. /\ PcOK /\ MyOK /\ LockOK /\ ConnOK
      /\ \A i \in DOMAIN backlog : backlog[i] \in Conns
      /\ \A u \in Tasks : Owning(u) => my[u] \in Conns
  BY DEF Control, RestOK, MyOK, Owning
<1>g. stolen' = stolen /\ \A c : BeingGiven(c)' <=> BeingGiven(c)
  BY <1>1, <1>2, <1>3, <1>4 DEF BeingGiven, EnqueueEvent, PcOK
<1>6. Owning("router")' <=> Owning("router")
  BY <1>g, <1>1, <1>3 DEF Owning
<1>7. \A u \in Tasks : u # "router" => (Owning(u)' <=> Owning(u))
  BY <1>2 DEF Owning
<1>8. OwnedOK'   BY <1>g, <1>1, <1>2, <1>3, <1>4, <1>5, <1>6, <1>7
                    DEF OwnedOK, Posted, MyOK, PostedOK
<1>9. OneTask'   BY <1>g, <1>1, <1>2, <1>3, <1>4, <1>5, <1>6, <1>7 DEF OneTask, OwnedOK, MyOK, Owns
<1>10. PostedOK'  BY <1>g, <1>1, <1>2, <1>3, <1>4, <1>5, <1>6, <1>7 DEF PostedOK, OwnedOK, Posted
<1>11. SockOK'    BY <1>g, <1>1, <1>2, <1>3, <1>4, <1>5, <1>6, <1>7
                     DEF SockOK, Owns, Posted, PcOK, OwnedOK, MyOK, OneTask, Live
<1>l. LiveOK'
  BY <1>g, <1>1, <1>2, <1>3, <1>4, <1>5, <1>6, <1>7
  DEF LiveOK, Live, PcOK, MyOK, NewEmpty
<1>12. NewEmpty'  BY <1>g, <1>1, <1>2, <1>3, <1>4, <1>5, <1>6, <1>7
                     DEF NewEmpty, OneTask, MyOK, OwnedOK, Live
<1>13. Kept'     BY <1>g, <1>1, <1>2, <1>3, <1>4, <1>5, <1>6, <1>7
                    DEF Kept, Owns, Posted, MyOK, OwnedOK
<1>14. EventsOK'
  <2>1. \A c \in Conns : Served(c)' => Served(c)
    BY <1>g, <1>1, <1>2, <1>3, <1>4, <1>5 DEF Served, Posted, PcOK, Live
  <2>2. \A c \in Conns : /\ Begun("router", "event", c) = IF c = my["router"] THEN 1 ELSE 0
                         /\ Begun("router", "event", c)' = IF c = my["router"] THEN 0 ELSE 0
                         /\ Begun("server", "read", c)' = Begun("server", "read", c)
                         /\ Begun("server", "read", c) \in 0 .. 1
    BY <1>2, <1>3 DEF Begun
  <2>3. ASSUME NEW c \in Conns \ stolen, Served(c)
        PROVE  conn'[c].events + Begun("server", "read", c)' + Begun("router", "event", c)'
                 <= Len(conn'[c].rx)
    <3>1. /\ conn[c].events \in Nat /\ Len(conn[c].rx) \in Nat
          /\ conn[c].events + Begun("server", "read", c) + Begun("router", "event", c)
               <= Len(conn[c].rx)
      BY <1>5, <2>3, Numbers DEF EventsOK
    <3>2. CASE c = my["router"]
      BY <1>1, <2>2, <3>1, <3>2
    <3>3. CASE c # my["router"]
      BY <1>1, <2>2, <3>1, <3>3
    <3> QED  BY <3>2, <3>3
  <2> QED  BY <1>g, <2>1, <2>3 DEF EventsOK
<1>s. SoundOK'
  BY <1>g, <1>1, <1>2, <1>3, <1>4, <1>5, <1>6, <1>7
  DEF SoundOK, Sound, Served, Live, Posted, PcOK, LockOK, MyOK, OneTask, SockOK, OwnedOK, Owns
<1> QED  BY <1>g, <1>l, <1>s, <1>4, <1>8, <1>9, <1>10, <1>11, <1>12, <1>13, <1>14

LEMMA RouteOwnership == ASSUME IInv, Route PROVE ~inLoop' /\ Ownership'
<1> USE TaskNames DEF IInv, Ownership, SameOpen, SameSock, SameRx, SameEvents
<1>1. \A u \in Tasks : u # "router" => pc'[u] = pc[u] /\ my'[u] = my[u]
  BY RouteEffect DEF Control, TaskOK
<1>2. /\ pc["router"] = "idle"
      /\ \/ pc'["router"] = "alloc"
         \/ pc'["router"] = "packet" /\ my'["router"] \in Conns /\ conn[my'["router"]].open
  BY RouteEffect DEF Control, TaskOK
<1>3. conn' = conn /\ UNCHANGED <<backlog, abandoned>> /\ ~inLoop'
  BY DEF Route
<1>4. /\ PcOK /\ MyOK /\ LockOK /\ ConnOK
      /\ \A i \in DOMAIN backlog : backlog[i] \in Conns
      /\ \A u \in Tasks : Owning(u) => my[u] \in Conns
  BY DEF Control, RestOK, MyOK, Owning
<1>g. stolen' = stolen /\ \A c : BeingGiven(c)' <=> BeingGiven(c)
  BY <1>1, <1>2, <1>3, <1>4 DEF BeingGiven, Route, PcOK
<1>5. ~Owning("router") /\ (Owning("router")' =>
        /\ pc'["router"] = "packet" /\ my'["router"] \in Conns
        /\ Live(my'["router"]))
  BY <1>g, <1>2, <1>3 DEF Owning, Live
<1>6. \A u \in Tasks : u # "router" => (Owning(u)' <=> Owning(u))
  BY <1>1 DEF Owning
<1>7. /\ \A c \in Conns : Live(c) => c \in abandoned
      /\ Owning("router")' /\ my'["router"] \notin stolen =>
           /\ ~Posted(my'["router"])
           /\ \A u \in Tasks : ~Owns(u, my'["router"])
  BY <1>2, <1>5, TaskNames DEF SockOK, LiveOK, Owns
<1>8. OwnedOK'   BY <1>g, <1>1, <1>2, <1>3, <1>4, <1>5, <1>6, <1>7
                    DEF OwnedOK, Posted, MyOK, PostedOK
<1>9. OneTask'   BY <1>g, <1>1, <1>2, <1>3, <1>4, <1>5, <1>6, <1>7 DEF OneTask, OwnedOK, MyOK, Owns
<1>10. PostedOK'  BY <1>g, <1>1, <1>2, <1>3, <1>4, <1>5, <1>6, <1>7 DEF PostedOK, OwnedOK, Posted
<1>11. SockOK'    BY <1>g, <1>1, <1>2, <1>3, <1>4, <1>5, <1>6, <1>7
                     DEF SockOK, Owns, Posted, PcOK, OwnedOK, MyOK, OneTask, Live
<1>l. LiveOK'
  BY <1>g, <1>1, <1>2, <1>3, <1>4, <1>5, <1>6, <1>7
  DEF LiveOK, Live, PcOK, MyOK, NewEmpty
<1>12. NewEmpty'  BY <1>g, <1>1, <1>2, <1>3, <1>4, <1>5, <1>6, <1>7
                     DEF NewEmpty, OneTask, MyOK, OwnedOK, Live
<1>13. Kept'     BY <1>g, <1>1, <1>2, <1>3, <1>4, <1>5, <1>6, <1>7
                    DEF Kept, Owns, Posted, MyOK, OwnedOK
<1>14. EventsOK'
  BY <1>g, <1>1, <1>2, <1>3, <1>4 DEF EventsOK, Served, Begun, Posted, Live
<1>s. SoundOK'
  BY <1>g, <1>1, <1>2, <1>3, <1>4, <1>5, <1>6, <1>7
  DEF SoundOK, Sound, Served, Live, Posted, PcOK, LockOK, MyOK, OneTask, SockOK, OwnedOK, Owns
<1> QED  BY <1>g, <1>l, <1>s, <1>3, <1>8, <1>9, <1>10, <1>11, <1>12, <1>13, <1>14

LEMMA PostFullOwnership ==
  ASSUME IInv, Post, conn[my["router"]].sock, ~(Len(backlog) < Backlog)
  PROVE  ~inLoop' /\ Ownership'
<1> USE TaskNames DEF IInv, Ownership, SameOpen, SameSock, SameRx, SameEvents
<1>1. \A u \in Tasks : u # "router" => pc'[u] = pc[u] /\ my'[u] = my[u]
  BY DEF Post, Step, Goto, Return, Closed, Control, TaskOK
<1>2. pc["router"] = "post" /\ pc'["router"] = "close" /\ UNCHANGED my
  BY DEF Post, Goto, Control, TaskOK
<1>3. conn' = conn /\ UNCHANGED <<backlog, abandoned>> /\ ~inLoop'
  BY DEF Post
<1>4. /\ PcOK /\ MyOK /\ LockOK /\ ConnOK
      /\ \A i \in DOMAIN backlog : backlog[i] \in Conns
      /\ \A u \in Tasks : Owning(u) => my[u] \in Conns
  BY DEF Control, RestOK, MyOK, Owning
<1>g. /\ stolen' = IF BeingGiven(my["router"]) THEN stolen \cup {my["router"]} ELSE stolen
      /\ \A c : BeingGiven(c)' <=> BeingGiven(c)
  BY <1>1, <1>2, <1>3, <1>4 DEF BeingGiven, Post, PcOK
<1>h. my["router"] \notin stolen' => ~BeingGiven(my["router"])
  BY <1>g
<1>5. ~BeingGiven(my["router"]) => Owning("router") /\ Owning("router")'
  BY <1>g, <1>2, <1>3 DEF Owning
<1>k. Owning("router")' <=> Owning("router")
  BY <1>g, <1>2, <1>3 DEF Owning
<1>6. \A u \in Tasks : u # "router" => (Owning(u)' <=> Owning(u))
  BY <1>1 DEF Owning
<1>7. OwnedOK'   BY <1>g, <1>h, <1>k, <1>1, <1>2, <1>3, <1>4, <1>5, <1>6 DEF OwnedOK, Posted, MyOK, PostedOK
<1>8. OneTask'   BY <1>g, <1>h, <1>k, <1>1, <1>2, <1>3, <1>4, <1>5, <1>6 DEF OneTask, OwnedOK, MyOK, Owns
<1>9. PostedOK'  BY <1>g, <1>h, <1>k, <1>1, <1>2, <1>3, <1>4, <1>5, <1>6 DEF PostedOK, OwnedOK, Posted
<1>10. SockOK'    BY <1>g, <1>h, <1>k, <1>1, <1>2, <1>3, <1>4, <1>5, <1>6
                     DEF SockOK, Owns, Posted, PcOK, OwnedOK, MyOK, OneTask, Live
<1>l. LiveOK'
  BY <1>g, <1>h, <1>k, <1>1, <1>2, <1>3, <1>4, <1>5, <1>6
  DEF LiveOK, Live, PcOK, MyOK, NewEmpty
<1>11. NewEmpty'  BY <1>g, <1>h, <1>k, <1>1, <1>2, <1>3, <1>4, <1>5, <1>6 DEF NewEmpty, OneTask, MyOK, OwnedOK, Live
<1>12. Kept'     BY <1>g, <1>h, <1>k, <1>1, <1>2, <1>3, <1>4, <1>5, <1>6 DEF Kept, Owns, Posted, MyOK, OwnedOK
<1>13. EventsOK' BY <1>g, <1>h, <1>k, <1>1, <1>2, <1>3, <1>4, <1>5, <1>6
                    DEF EventsOK, Served, Begun, Posted, PcOK, MyOK, OneTask, SockOK, OwnedOK, Owns, Live
<1>s. SoundOK'
  BY <1>g, <1>h, <1>k, <1>1, <1>2, <1>3, <1>4, <1>5, <1>6
  DEF SoundOK, Sound, Served, Live, Posted, PcOK, LockOK, MyOK, OneTask, SockOK, OwnedOK, Owns
<1> QED  BY <1>g, <1>l, <1>s, <1>3, <1>7, <1>8, <1>9, <1>10, <1>11, <1>12, <1>13

LEMMA AllocateOwnership ==
  ASSUME IInv, NEW t \in Tasks, Allocate(t), Candidates # {}
  PROVE  ~inLoop' /\ Ownership'
<1> USE TaskNames DEF IInv, Ownership, SameOpen, SameSock, SameRx, SameEvents
<1>1. PICK n \in Conns :
      /\ n \in Conns /\ ~conn[n].open
      /\ ConnOK' /\ SameSock /\ SameRx /\ SameEvents
      /\ \A d \in Conns : conn'[d].open <=> d = n \/ conn[d].open
      /\ pc[t] = "alloc" /\ pc'[t] = "unset" /\ my'[t] = n
      /\ \A u \in Tasks : u # t => pc'[u] = pc[u] /\ my'[u] = my[u]
  <2>1. PICK m \in Conns : m = NextFree
    BY AllocateEffect
  <2> QED  BY <2>1, AllocateEffect DEF Allocate, Goto, Control, TaskOK
<1>2. \A u \in Tasks : u # t => pc'[u] = pc[u] /\ my'[u] = my[u]
  BY <1>1
<1>3. pc[t] = "alloc" /\ pc'[t] = "unset" /\ my'[t] = n
  BY <1>1
<1>4. UNCHANGED <<backlog, abandoned>> /\ ~inLoop'
  BY DEF Allocate
<1>5. /\ PcOK /\ MyOK /\ LockOK /\ ConnOK
      /\ \A i \in DOMAIN backlog : backlog[i] \in Conns
      /\ \A u \in Tasks : Owning(u) => my[u] \in Conns
  BY DEF Control, RestOK, MyOK, Owning
<1>6. ~Owning(t) /\ Owning(t)'
  BY <1>3 DEF Owning
<1>g. stolen' = stolen /\ \A c : BeingGiven(c)' <=> BeingGiven(c) \/ c = n
  BY <1>1, <1>2, <1>3, <1>4 DEF BeingGiven, Allocate
<1>7. \A u \in Tasks : Owning(u) /\ my[u] \notin stolen => my[u] # n
  BY <1>1, <1>5 DEF OwnedOK
<1>8. \A u \in Tasks : u # t => /\ Owning(u)' => Owning(u)
                                /\ Owning(u) /\ my[u] # n => Owning(u)'
  <2>1. \A u \in Tasks : u # "router" /\ u # t => (Owning(u)' <=> Owning(u))
    BY <1>2 DEF Owning
  <2>2. t # "router" => (Owning("router")' => Owning("router"))
    BY <1>g, <1>1, <1>2, <1>5 DEF Owning, MyOK
  <2>3. t # "router" => (Owning("router") /\ my["router"] # n => Owning("router")')
    BY <1>g, <1>1, <1>2, <1>5 DEF Owning, MyOK
  <2> QED  BY <2>1, <2>2, <2>3
<1>9. n \notin stolen => ~Posted(n)
  BY <1>1 DEF PostedOK, Posted
<1>10. t # "server"
  BY <1>3, <1>5 DEF PcOK
<1>11. OwnedOK'
  <2> SUFFICES ASSUME NEW u \in Tasks, Owning(u)', my'[u] \notin stolen
               PROVE  conn'[my'[u]].open /\ ~Posted(my'[u])
    BY <1>g, <1>4 DEF OwnedOK, Posted
  <2>1. CASE u = t
    BY <1>1, <1>3, <1>9, <2>1
  <2>2. CASE u # t
    BY <1>1, <1>2, <1>5, <1>8, <2>2 DEF OwnedOK
  <2> QED  BY <2>1, <2>2
<1>12. OneTask'
  <2> SUFFICES ASSUME NEW u \in Tasks, NEW v \in Tasks, Owning(u)', Owning(v)',
                      my'[u] = my'[v], my'[u] \notin stolen
               PROVE  u = v
    BY <1>g DEF OneTask
  <2> QED  BY <1>2, <1>3, <1>7, <1>8 DEF OneTask
<1>13. PostedOK'  BY <1>g, <1>1, <1>2, <1>3, <1>4, <1>5, <1>6, <1>8, <1>7, <1>9, <1>10
                     DEF PostedOK, OwnedOK, Posted
<1>14. SockOK'
  <2>1. /\ \A c \in Conns : Live(c)' => Live(c) /\ c # n
        /\ \A u \in Tasks, c \in Conns \ {n} : Owns(u, c)' => Owns(u, c)
        /\ \A c : Posted(c)' <=> Posted(c)
    BY <1>g, <1>1, <1>2, <1>3, <1>4, <1>8 DEF Live, Owns, Posted
  <2>2. \A c \in Conns \ stolen : Live(c)' =>
          /\ \A u \in Clients : ~Owns(u, c)'
          /\ Owns("server", c)' \/ Posted(c)' => pc'["router"] = "clear" /\ my'["router"] = c
    BY <1>2, <1>3, <1>10, <2>1 DEF SockOK
  <2>3. pc'["router"] \in {"ident", "flush"} => ~conn'[my'["router"]].sock
    BY <1>1, <1>2, <1>3, <1>5 DEF SockOK, MyOK
  <2>4. pc'["router"] \in {"close", "lock"} /\ my'["router"] \notin stolen => Owning("router")'
    BY <1>2, <1>3, <1>5, <1>7, <1>8 DEF SockOK
  <2> QED  BY <1>g, <2>2, <2>3, <2>4 DEF SockOK
<1>l. LiveOK'
  BY <1>g, <1>1, <1>2, <1>3, <1>4, <1>5, <1>6, <1>8, <1>7, <1>9, <1>10
  DEF LiveOK, Live, PcOK, MyOK, NewEmpty
<1>15. NewEmpty'  BY <1>g, <1>1, <1>2, <1>3, <1>4, <1>5, <1>6, <1>8, <1>7, <1>9, <1>10
                     DEF NewEmpty, OneTask, MyOK, OwnedOK, Live
<1>16. Kept'     BY <1>g, <1>1, <1>2, <1>3, <1>4, <1>5, <1>6, <1>8, <1>7, <1>9, <1>10
                    DEF Kept, Owns, Posted, MyOK, OwnedOK
<1>17. \A c \in Conns \ stolen : Served(c)' => Served(c) /\ c # n
  <2>1. ASSUME n \notin stolen PROVE ~Served(n)'
    <3>1. /\ pc'["server"] \in {"ready", "read"} => my'["server"] # n
          /\ pc'["router"] = "attach" => my'["router"] # n
      BY <1>2, <1>3, <1>7, <1>10, <2>1 DEF Owning
    <3>2. ~Posted(n)'
      BY <1>4, <1>9, <2>1 DEF Posted
    <3> QED  BY <1>1, <1>g, <3>1, <3>2 DEF Served, Live
  <2>2. \A c \in Conns : c # n /\ Served(c)' => Served(c)
    BY <1>g, <1>1, <1>2, <1>3, <1>4, <1>10 DEF Served, Posted, Live
  <2> QED  BY <1>1, <2>1, <2>2
<1>18. EventsOK'
  <2>1. \A c \in Conns : /\ Begun("server", "read", c)' = Begun("server", "read", c)
                         /\ Begun("router", "event", c)' = Begun("router", "event", c)
    BY <1>2, <1>3, <1>10 DEF Begun
  <2> QED  BY <1>g, <1>1, <1>17, <2>1 DEF EventsOK
<1>s. SoundOK'
  BY <1>g, <1>1, <1>17 DEF SoundOK, Sound
<1> QED  BY <1>g, <1>l, <1>s, <1>4, <1>11, <1>12, <1>13, <1>14, <1>15, <1>16, <1>18

LEMMA UnsetSocketOwnership ==
  ASSUME IInv, NEW t \in Tasks, UnsetSocket(t)
  PROVE  ~inLoop' /\ Ownership'
<1> USE TaskNames DEF IInv, Ownership, SameOpen, SameSock, SameRx, SameEvents
<1>1. /\ my[t] \in Conns /\ ConnOK'
      /\ SameOpen /\ SameRx /\ SameEvents
      /\ \A d \in Conns : conn'[d].sock <=> d # my[t] /\ conn[d].sock
  BY UnsetSocketEffect
<1>2. \A u \in Tasks : u # t => pc'[u] = pc[u] /\ my'[u] = my[u]
  BY DEF UnsetSocket, Step, Goto, Control, TaskOK
<1>3. pc[t] = "unset" /\ pc'[t] = "ident" /\ UNCHANGED my
  BY DEF UnsetSocket, Step, Goto, Control, TaskOK
<1>4. UNCHANGED <<backlog, abandoned>> /\ ~inLoop'
  BY DEF UnsetSocket
<1>5. /\ PcOK /\ MyOK /\ LockOK /\ ConnOK
      /\ \A i \in DOMAIN backlog : backlog[i] \in Conns
      /\ \A u \in Tasks : Owning(u) => my[u] \in Conns
  BY DEF Control, RestOK, MyOK, Owning
<1>g. /\ stolen' = stolen
      /\ \A c : BeingGiven(c) <=> c = my[t]
      /\ \A c : ~BeingGiven(c)'
  BY <1>2, <1>3, <1>5 DEF BeingGiven, UnsetSocket, LockOK
<1>6. \A u \in Tasks : Owning(u)' <=> Owning(u)
  <2>1. \A u \in Tasks : u # "router" => (Owning(u)' <=> Owning(u))
    BY <1>2, <1>3 DEF Owning
  <2>2. Owning("router")' <=> Owning("router")
    BY <1>g, <1>1, <1>2, <1>3, <1>5 DEF Owning, MyOK
  <2> QED  BY <2>1, <2>2
<1>7. /\ \A c \in Conns : Live(c)' <=> Live(c)
      /\ \A c : Posted(c)' <=> Posted(c)
      /\ \A c : \A u \in Tasks : Owns(u, c)' <=> Owns(u, c)
  BY <1>g, <1>1, <1>3, <1>4, <1>6 DEF Live, Posted, Owns
<1>8. t # "server"
  BY <1>3, <1>5 DEF PcOK
<1>9. OwnedOK'   BY <1>g, <1>1, <1>3, <1>4, <1>5, <1>6, <1>7 DEF OwnedOK
<1>10. OneTask'   BY <1>g, <1>3, <1>6 DEF OneTask
<1>11. PostedOK'  BY <1>g, <1>1, <1>4, <1>5 DEF PostedOK
<1>12. SockOK'    BY <1>g, <1>1, <1>2, <1>3, <1>5, <1>6, <1>7 DEF SockOK, MyOK
<1>l. LiveOK'
  BY <1>2, <1>3, <1>4, <1>7 DEF LiveOK
<1>13. NewEmpty'  BY <1>g, <1>1, <1>2, <1>3, <1>4, <1>5, <1>7 DEF NewEmpty, MyOK
<1>14. Kept'     BY <1>1, <1>4, <1>7 DEF Kept
<1>15. \A c \in Conns : /\ Served(c)' <=> Served(c)
                        /\ Begun("server", "read", c)' = Begun("server", "read", c)
                        /\ Begun("router", "event", c)' = Begun("router", "event", c)
  BY <1>1, <1>2, <1>3, <1>7, <1>8 DEF Served, Begun
<1>16. EventsOK' BY <1>g, <1>1, <1>15 DEF EventsOK
<1>s. SoundOK'
  BY <1>g, <1>1, <1>15 DEF SoundOK, Sound
<1> QED  BY <1>l, <1>s, <1>4, <1>9, <1>10, <1>11, <1>12, <1>13, <1>14, <1>16

LEMMA PostRoomOwnership ==
  ASSUME IInv, Post, conn[my["router"]].sock, Len(backlog) < Backlog
  PROVE  ~inLoop' /\ Ownership'
<1> USE TaskNames DEF IInv, Ownership, SameOpen, SameSock, SameRx, SameEvents
<1>1. \A u \in Tasks : u # "router" => pc'[u] = pc[u] /\ my'[u] = my[u]
  BY DEF Post, Step, Goto, Return, Closed, Control, TaskOK
<1>2. pc["router"] = "post" /\ pc'["router"] = "clear" /\ UNCHANGED my
  BY DEF Post, Goto, Control, TaskOK
<1>3. conn' = conn /\ UNCHANGED abandoned /\ ~inLoop'
  BY DEF Post
<1>4. /\ PcOK /\ MyOK /\ LockOK /\ ConnOK
      /\ \A i \in DOMAIN backlog : backlog[i] \in Conns
      /\ \A u \in Tasks : Owning(u) => my[u] \in Conns
  BY DEF Control, RestOK, MyOK, Owning
<1>g. /\ stolen' = IF BeingGiven(my["router"]) THEN stolen \cup {my["router"]} ELSE stolen
      /\ \A c : BeingGiven(c)' <=> BeingGiven(c)
  BY <1>1, <1>2, <1>3, <1>4 DEF BeingGiven, Post, PcOK
<1>h. my["router"] \notin stolen' => ~BeingGiven(my["router"])
  BY <1>g
<1>5. /\ ~BeingGiven(my["router"]) => Owning("router")
      /\ ~Owning("router")' /\ my["router"] \in Conns
  BY <1>2, <1>3, <1>4 DEF Owning, MyOK
<1>6. \A u \in Tasks : u # "router" => (Owning(u)' <=> Owning(u))
  BY <1>1 DEF Owning
<1>7. /\ DOMAIN backlog' = DOMAIN backlog \cup {Len(backlog) + 1}
      /\ Len(backlog) + 1 \notin DOMAIN backlog
      /\ \A i \in DOMAIN backlog : backlog'[i] = backlog[i]
      /\ backlog'[Len(backlog) + 1] = my["router"]
  <2>1. backlog \in Seq(Conns) /\ backlog' = Append(backlog, my["router"])
    BY DEF Post, Control, RestOK
  <2> QED  BY <2>1, <1>5
<1>8. \A c : Posted(c)' <=> Posted(c) \/ c = my["router"]
  BY <1>7 DEF Posted
<1>9. my["router"] \notin stolen' => ~Posted(my["router"]) /\ conn[my["router"]].open
  BY <1>g, <1>h, <1>5 DEF OwnedOK
<1>10. my["router"] \notin stolen' =>
         \A u \in Tasks : u # "router" /\ Owning(u) => my[u] # my["router"]
  BY <1>g, <1>h, <1>5 DEF OneTask
<1>11. OwnedOK'   BY <1>g, <1>h, <1>1, <1>2, <1>3, <1>4, <1>5, <1>6, <1>8, <1>9, <1>10
                     DEF OwnedOK, MyOK, PostedOK
<1>12. OneTask'   BY <1>g, <1>h, <1>1, <1>2, <1>3, <1>4, <1>5, <1>6, <1>8, <1>9, <1>10
                     DEF OneTask, OwnedOK, MyOK, Owns
<1>13. PostedOK'  BY <1>g, <1>h, <1>3, <1>7, <1>9 DEF PostedOK, Posted
<1>14. SockOK'    BY <1>g, <1>h, <1>1, <1>2, <1>3, <1>4, <1>5, <1>6, <1>8, <1>9, <1>10
                     DEF SockOK, Owns, PcOK, OwnedOK, MyOK, OneTask, Live
<1>l. LiveOK'
  BY <1>g, <1>h, <1>1, <1>2, <1>3, <1>4, <1>5, <1>6, <1>8, <1>9, <1>10
  DEF LiveOK, Live, PcOK, MyOK, NewEmpty
<1>15. NewEmpty'  BY <1>g, <1>h, <1>1, <1>2, <1>3, <1>4, <1>5, <1>6, <1>8, <1>9, <1>10
                     DEF NewEmpty, OneTask, MyOK, OwnedOK, Live
<1>16. Kept'     BY <1>g, <1>h, <1>1, <1>2, <1>3, <1>4, <1>5, <1>6, <1>8, <1>9, <1>10
                    DEF Kept, Owns, MyOK, OwnedOK
<1>17. EventsOK'
  <2>1. \A c \in Conns \ stolen' : Served(c)' => Served(c)
    BY <1>g, <1>h, <1>1, <1>2, <1>3, <1>5, <1>8, <1>9 DEF Served, Live
  <2> QED  BY <1>g, <1>1, <1>2, <1>3, <2>1 DEF EventsOK, Begun
<1>s. SoundOK'
  BY <1>g, <1>h, <1>1, <1>2, <1>3, <1>4, <1>5, <1>6, <1>8, <1>9, <1>10
  DEF SoundOK, Sound, Served, Live, Posted, PcOK, LockOK, MyOK, OneTask, SockOK, OwnedOK, Owns
<1> QED  BY <1>g, <1>l, <1>s, <1>3, <1>11, <1>12, <1>13, <1>14, <1>15, <1>16, <1>17

LEMMA AcceptOwnership == ASSUME IInv, Accept PROVE ~inLoop' /\ Ownership'
<1> USE TaskNames DEF IInv, Ownership, SameOpen, SameSock, SameRx, SameEvents
<1>1. \A u \in Tasks : u # "server" => pc'[u] = pc[u] /\ my'[u] = my[u]
  BY DEF Accept, Step, Goto, Return, Closed, Control, TaskOK
<1>2. pc["server"] = "idle" /\ pc'["server"] = "ready" /\ my'["server"] = Head(backlog)
  BY DEF Accept, Step, Goto, Control, TaskOK
<1>3. conn' = conn /\ UNCHANGED abandoned /\ ~inLoop'
  BY DEF Accept
<1>4. /\ PcOK /\ MyOK /\ LockOK /\ ConnOK
      /\ \A i \in DOMAIN backlog : backlog[i] \in Conns
      /\ \A u \in Tasks : Owning(u) => my[u] \in Conns
  BY DEF Control, RestOK, MyOK, Owning
<1>5. ~Owning("server") /\ Owning("server")'
  BY <1>2, <1>3 DEF Owning
<1>g. stolen' = stolen /\ \A c : BeingGiven(c)' <=> BeingGiven(c)
  BY <1>1, <1>2, <1>3, <1>4 DEF BeingGiven, Accept, PcOK
<1>6. \A u \in Tasks : u # "server" => (Owning(u)' <=> Owning(u))
  BY <1>g, <1>1, <1>3 DEF Owning
<1>7. /\ Len(backlog) \in Nat /\ DOMAIN backlog = 1 .. Len(backlog) /\ Len(backlog) >= 1
      /\ DOMAIN backlog' = 1 .. Len(backlog) - 1
      /\ \A i \in DOMAIN backlog' : backlog'[i] = backlog[i + 1]
      /\ Head(backlog) = backlog[1]
  <2>1. backlog \in Seq(Conns) /\ backlog # <<>> /\ backlog' = Tail(backlog)
    BY DEF Accept, Control, RestOK
  <2> QED  BY <2>1
<1>8. PostedOK'
  BY <1>g, <1>3, <1>7 DEF PostedOK
<1> PICK h \in Conns : h = Head(backlog)
  BY <1>4, <1>7
<1>9. Posted(h) /\ (h \notin stolen => ~Posted(h)')
  <2>1. 1 \in DOMAIN backlog
    BY <1>7
  <2>2. \A i \in DOMAIN backlog' : i + 1 \in DOMAIN backlog /\ i + 1 # 1
    BY <1>7
  <2>3. h \notin stolen => \A i \in DOMAIN backlog' : backlog'[i] # backlog[1]
    BY <1>7, <2>1, <2>2 DEF PostedOK
  <2>4. h \notin stolen => \A i \in DOMAIN backlog' : backlog'[i] # h
    BY <1>7, <2>3
  <2>5. h \notin stolen => ~Posted(h)'
    BY <1>3, <2>4 DEF Posted
  <2> QED  BY <1>4, <1>7, <2>1, <2>5 DEF Posted
<1>10. \A c : Posted(c) <=> Posted(c)' \/ c = h
  <2>1. ASSUME NEW c, Posted(c), c # h PROVE Posted(c)'
    <3>1. PICK i \in DOMAIN backlog : backlog[i] = c
      BY <2>1 DEF Posted
    <3>2. i - 1 \in DOMAIN backlog' /\ (i - 1) + 1 = i
      BY <1>7, <2>1, <3>1
    <3> QED  BY <1>7, <3>1, <3>2 DEF Posted
  <2>2. ASSUME NEW c, Posted(c)' PROVE Posted(c)
    <3>1. PICK i \in DOMAIN backlog' : backlog'[i] = c
      BY <2>2 DEF Posted
    <3>2. i + 1 \in DOMAIN backlog
      BY <1>7, <3>1
    <3> QED  BY <1>7, <3>1, <3>2 DEF Posted
  <2> QED  BY <1>9, <2>1, <2>2
<1>11. h \notin stolen => conn[h].open
  BY <1>7 DEF PostedOK
<1>12. h \notin stolen => \A u \in Tasks : Owning(u) => my[u] # h
  BY <1>9 DEF OwnedOK
<1>13. OwnedOK'   BY <1>g, <1>1, <1>2, <1>3, <1>4, <1>5, <1>6, <1>9, <1>10, <1>11, <1>12
                     DEF OwnedOK, MyOK, PostedOK
<1>14. OneTask'   BY <1>g, <1>1, <1>2, <1>3, <1>4, <1>5, <1>6, <1>9, <1>10, <1>11, <1>12
                     DEF OneTask, OwnedOK, MyOK, Owns
<1>15. PostedOK'  BY <1>g, <1>8
<1>16. SockOK'    BY <1>g, <1>1, <1>2, <1>3, <1>4, <1>5, <1>6, <1>9, <1>10, <1>11, <1>12
                     DEF SockOK, Owns, PcOK, OwnedOK, MyOK, OneTask, Live
<1>l. LiveOK'
  BY <1>g, <1>1, <1>2, <1>3, <1>4, <1>5, <1>6, <1>9, <1>10, <1>11, <1>12
  DEF LiveOK, Live, PcOK, MyOK, NewEmpty
<1>17. NewEmpty'  BY <1>g, <1>1, <1>2, <1>3, <1>4, <1>5, <1>6, <1>9, <1>10, <1>11, <1>12
                     DEF NewEmpty, OneTask, MyOK, OwnedOK, Live
<1>18. Kept'     BY <1>g, <1>1, <1>2, <1>3, <1>4, <1>5, <1>6, <1>9, <1>10, <1>11, <1>12
                    DEF Kept, Owns, MyOK, OwnedOK
<1>19. EventsOK'
  <2>1. \A c \in Conns : Served(c)' => Served(c)
    BY <1>g, <1>1, <1>2, <1>3, <1>9, <1>10, <1>11 DEF Served, Live
  <2>2. \A c \in Conns : /\ ~(pc["server"] = "read" /\ my["server"] = c)
                         /\ ~(pc'["server"] = "read" /\ my'["server"] = c)
    BY <1>2
  <2> QED  BY <1>g, <1>1, <1>2, <1>3, <2>1, <2>2 DEF EventsOK, Begun
<1>s. SoundOK'
  BY <1>g, <1>1, <1>2, <1>3, <1>4, <1>5, <1>6, <1>9, <1>10, <1>11, <1>12
  DEF SoundOK, Sound, Served, Live, Posted, PcOK, LockOK, MyOK, OneTask, SockOK, OwnedOK, Owns
<1> QED  BY <1>g, <1>l, <1>s, <1>3, <1>13, <1>14, <1>15, <1>16, <1>17, <1>18, <1>19

LEMMA PickPortOwnership ==
  ASSUME IInv, NEW t \in Tasks, PickPort(t)
  PROVE  ~inLoop' /\ Ownership'
<1> USE TaskNames DEF IInv, Ownership, Owning, SameOpen, SameSock, SameRx, SameEvents
<1>1. \A u \in Tasks : u # t => pc'[u] = pc[u] /\ my'[u] = my[u]
  BY DEF PickPort, Step, Goto, Return, Closed, Control, TaskOK
<1>2. pc[t] \in {"idle"} /\ pc'[t] \in {"alloc"} /\ UNCHANGED my
  BY DEF PickPort, Step, Goto, Return, Closed, Control, TaskOK
<1>3. conn' = conn /\ UNCHANGED <<backlog, abandoned>> /\ ~inLoop'
  BY DEF PickPort, Step, Goto, Return, Closed
<1>4. PcOK /\ MyOK /\ LockOK /\ \A i \in DOMAIN backlog : backlog[i] \in Conns  BY
                                                                                   DEF Control,
                                                                                       RestOK
<1>g. stolen' = stolen /\ \A c : BeingGiven(c)' <=> BeingGiven(c)
  BY <1>1, <1>2, <1>3, <1>4 DEF BeingGiven, PickPort, PcOK
<1>5. OwnedOK'   BY <1>g, <1>1, <1>2, <1>3, <1>4 DEF OwnedOK, Posted, PcOK, MyOK
<1>6. OneTask'   BY <1>g, <1>1, <1>2, <1>3, <1>4 DEF OneTask, PcOK, OwnedOK, MyOK
<1>7. PostedOK'  BY <1>g, <1>1, <1>2, <1>3, <1>4 DEF PostedOK
<1>8. SockOK'    BY <1>g, <1>1, <1>2, <1>3, <1>4 DEF SockOK, Owns, Posted, PcOK, OwnedOK, MyOK, Live
<1>l. LiveOK'
  BY <1>g, <1>1, <1>2, <1>3, <1>4
  DEF LiveOK, Live, PcOK, MyOK, NewEmpty
<1>9. NewEmpty'  BY <1>g, <1>1, <1>2, <1>3, <1>4 DEF NewEmpty, PcOK, OneTask, MyOK, Live
<1>10. Kept'     BY <1>g, <1>1, <1>2, <1>3, <1>4 DEF Kept, Owns, Posted, PcOK, MyOK
<1>11. EventsOK' BY <1>g, <1>1, <1>2, <1>3, <1>4
                    DEF EventsOK, Served, Begun, Posted, PcOK, LockOK, MyOK, OneTask, SockOK,
                        OwnedOK, Owns, Live
<1>s. SoundOK'
  BY <1>g, <1>1, <1>2, <1>3, <1>4
  DEF SoundOK, Sound, Served, Live, Posted, PcOK, LockOK, MyOK, OneTask, SockOK, OwnedOK, Owns
<1> QED  BY <1>g, <1>l, <1>s, <1>3, <1>5, <1>6, <1>7, <1>8, <1>9, <1>10, <1>11

LEMMA AllocateTimeoutOwnership ==
  ASSUME IInv, NEW t \in Tasks, AllocateTimeout(t)
  PROVE  ~inLoop' /\ Ownership'
<1> USE TaskNames DEF IInv, Ownership, Owning, SameOpen, SameSock, SameRx, SameEvents
<1>1. \A u \in Tasks : u # t => pc'[u] = pc[u] /\ my'[u] = my[u]
  BY DEF AllocateTimeout, Step, Goto, Return, Closed, Control, TaskOK
<1>2. pc[t] \in {"alloc"} /\ pc'[t] \in {"idle"} /\ TRUE
  BY DEF AllocateTimeout, Step, Goto, Return, Closed, Control, TaskOK
<1>3. conn' = conn /\ UNCHANGED <<backlog, abandoned>> /\ ~inLoop'
  BY DEF AllocateTimeout, Step, Goto, Return, Closed
<1>4. PcOK /\ MyOK /\ LockOK /\ \A i \in DOMAIN backlog : backlog[i] \in Conns  BY
                                                                                   DEF Control,
                                                                                       RestOK
<1>g. stolen' = stolen /\ \A c : BeingGiven(c)' <=> BeingGiven(c)
  BY <1>1, <1>2, <1>3, <1>4 DEF BeingGiven, AllocateTimeout, PcOK
<1>5. OwnedOK'   BY <1>g, <1>1, <1>2, <1>3, <1>4 DEF OwnedOK, Posted, PcOK, MyOK
<1>6. OneTask'   BY <1>g, <1>1, <1>2, <1>3, <1>4 DEF OneTask, PcOK, OwnedOK, MyOK
<1>7. PostedOK'  BY <1>g, <1>1, <1>2, <1>3, <1>4 DEF PostedOK
<1>8. SockOK'    BY <1>g, <1>1, <1>2, <1>3, <1>4 DEF SockOK, Owns, Posted, PcOK, OwnedOK, MyOK, Live
<1>l. LiveOK'
  BY <1>g, <1>1, <1>2, <1>3, <1>4
  DEF LiveOK, Live, PcOK, MyOK, NewEmpty
<1>9. NewEmpty'  BY <1>g, <1>1, <1>2, <1>3, <1>4 DEF NewEmpty, PcOK, OneTask, MyOK, Live
<1>10. Kept'     BY <1>g, <1>1, <1>2, <1>3, <1>4 DEF Kept, Owns, Posted, PcOK, MyOK
<1>11. EventsOK' BY <1>g, <1>1, <1>2, <1>3, <1>4
                    DEF EventsOK, Served, Begun, Posted, PcOK, LockOK, MyOK, OneTask, SockOK,
                        OwnedOK, Owns, Live
<1>s. SoundOK'
  BY <1>g, <1>1, <1>2, <1>3, <1>4
  DEF SoundOK, Sound, Served, Live, Posted, PcOK, LockOK, MyOK, OneTask, SockOK, OwnedOK, Owns
<1> QED  BY <1>g, <1>l, <1>s, <1>3, <1>5, <1>6, <1>7, <1>8, <1>9, <1>10, <1>11

LEMMA IdentifyOwnership ==
  ASSUME IInv, NEW t \in Tasks, Identify(t)
  PROVE  ~inLoop' /\ Ownership'
<1> USE TaskNames DEF IInv, Ownership, Owning, SameOpen, SameSock, SameRx, SameEvents
<1>1. /\ my[t] \in Conns /\ ConnOK'
      /\ SameOpen /\ SameSock /\ SameRx /\ SameEvents
  BY IdentifyEffect
<1>2. \A u \in Tasks : u # t => pc'[u] = pc[u] /\ my'[u] = my[u]
  BY DEF Identify, Step, Goto, Return, Closed, Control, TaskOK
<1>3. pc[t] \in {"ident"} /\ pc'[t] \in {"flush"} /\ UNCHANGED my
  BY DEF Identify, Step, Goto, Return, Closed, Control, TaskOK
<1>4. UNCHANGED <<backlog, abandoned>> /\ ~inLoop'
  BY DEF Identify, Step, Goto, Return, Closed
<1>5. PcOK /\ MyOK /\ LockOK /\ \A i \in DOMAIN backlog : backlog[i] \in Conns  BY
                                                                                   DEF Control,
                                                                                       RestOK
<1>g. stolen' = stolen /\ \A c : BeingGiven(c)' <=> BeingGiven(c)
  BY <1>1, <1>2, <1>3, <1>4 DEF BeingGiven, Identify, PcOK
<1>6. OwnedOK'   BY <1>g, <1>1, <1>2, <1>3, <1>4, <1>5 DEF OwnedOK, Posted, PcOK, MyOK
<1>7. OneTask'   BY <1>g, <1>1, <1>2, <1>3, <1>4, <1>5 DEF OneTask, PcOK, OwnedOK, MyOK
<1>8. PostedOK'  BY <1>g, <1>1, <1>2, <1>3, <1>4, <1>5 DEF PostedOK
<1>9. SockOK'    BY <1>g, <1>1, <1>2, <1>3, <1>4, <1>5 DEF SockOK, Owns, Posted, PcOK, OwnedOK, MyOK, Live
<1>l. LiveOK'
  BY <1>g, <1>1, <1>2, <1>3, <1>4, <1>5
  DEF LiveOK, Live, PcOK, MyOK, NewEmpty
<1>10. NewEmpty'  BY <1>g, <1>1, <1>2, <1>3, <1>4, <1>5 DEF NewEmpty, PcOK, OneTask, MyOK, Live
<1>11. Kept'     BY <1>g, <1>1, <1>2, <1>3, <1>4, <1>5 DEF Kept, Owns, Posted, PcOK, MyOK
<1>12. EventsOK' BY <1>g, <1>1, <1>2, <1>3, <1>4, <1>5
                    DEF EventsOK, Served, Begun, Posted, PcOK, LockOK, MyOK, OneTask, SockOK,
                        OwnedOK, Owns, Live
<1>s. SoundOK'
  BY <1>g, <1>1, <1>2, <1>3, <1>4, <1>5
  DEF SoundOK, Sound, Served, Live, Posted, PcOK, LockOK, MyOK, OneTask, SockOK, OwnedOK, Owns
<1> QED  BY <1>g, <1>l, <1>s, <1>4, <1>6, <1>7, <1>8, <1>9, <1>10, <1>11, <1>12

LEMMA FlushOwnership == ASSUME IInv, NEW t \in Tasks, Flush(t) PROVE ~inLoop' /\ Ownership'
<1> USE TaskNames DEF IInv, Ownership, Owning, SameOpen, SameSock, SameRx, SameEvents
<1>1. /\ my[t] \in Conns /\ ConnOK'
      /\ SameOpen /\ SameSock /\ SameEvents
      /\ \A d \in Conns : conn'[d].rx = IF d = my[t] THEN <<>> ELSE conn[d].rx
  BY FlushEffect
<1>2. \A u \in Tasks : u # t => pc'[u] = pc[u] /\ my'[u] = my[u]
  BY DEF Flush, Step, Goto, Return, Closed, Control, TaskOK
<1>3. pc[t] \in {"flush"} /\ pc'[t] \in {"flushEvents"} /\ UNCHANGED my
  BY DEF Flush, Step, Goto, Return, Closed, Control, TaskOK
<1>4. UNCHANGED <<backlog, abandoned>> /\ ~inLoop'
  BY DEF Flush, Step, Goto, Return, Closed
<1>5. PcOK /\ MyOK /\ LockOK /\ \A i \in DOMAIN backlog : backlog[i] \in Conns  BY
                                                                                   DEF Control,
                                                                                       RestOK
<1>g. stolen' = stolen /\ \A c : BeingGiven(c)' <=> BeingGiven(c)
  BY <1>1, <1>2, <1>3, <1>4 DEF BeingGiven, Flush, PcOK
<1>6. OwnedOK'   BY <1>g, <1>1, <1>2, <1>3, <1>4, <1>5 DEF OwnedOK, Posted, PcOK, MyOK
<1>7. OneTask'   BY <1>g, <1>1, <1>2, <1>3, <1>4, <1>5 DEF OneTask, PcOK, OwnedOK, MyOK
<1>8. PostedOK'  BY <1>g, <1>1, <1>2, <1>3, <1>4, <1>5 DEF PostedOK
<1>9. SockOK'    BY <1>g, <1>1, <1>2, <1>3, <1>4, <1>5 DEF SockOK, Owns, Posted, PcOK, OwnedOK, MyOK, Live
<1>l. LiveOK'
  BY <1>g, <1>1, <1>2, <1>3, <1>4, <1>5
  DEF LiveOK, Live, PcOK, MyOK, NewEmpty
<1>10. NewEmpty'  BY <1>g, <1>1, <1>2, <1>3, <1>4, <1>5 DEF NewEmpty, PcOK, OneTask, MyOK, Live
<1>11. Kept'     BY <1>g, <1>1, <1>2, <1>3, <1>4, <1>5 DEF Kept, Owns, Posted, PcOK, MyOK
<1>12. EventsOK' BY <1>g, <1>1, <1>2, <1>3, <1>4, <1>5
                    DEF EventsOK, Served, Begun, Posted, PcOK, LockOK, MyOK, OneTask, SockOK,
                        OwnedOK, Owns, Live
<1>s. SoundOK'
  BY <1>g, <1>1, <1>2, <1>3, <1>4, <1>5
  DEF SoundOK, Sound, Served, Live, Posted, PcOK, LockOK, MyOK, OneTask, SockOK, OwnedOK, Owns
<1> QED  BY <1>g, <1>l, <1>s, <1>4, <1>6, <1>7, <1>8, <1>9, <1>10, <1>11, <1>12

LEMMA FlushEventsOwnership ==
  ASSUME IInv, NEW t \in Tasks, FlushEvents(t)
  PROVE  ~inLoop' /\ Ownership'
<1> USE TaskNames DEF IInv, Ownership, Owning, SameOpen, SameSock, SameRx, SameEvents
<1>1. /\ my[t] \in Conns /\ ConnOK'
      /\ SameOpen /\ SameSock /\ SameRx
      /\ \A d \in Conns : conn'[d].events = IF d = my[t] THEN 0 ELSE conn[d].events
  BY FlushEventsEffect
<1>2. \A u \in Tasks : u # t => pc'[u] = pc[u] /\ my'[u] = my[u]
  BY DEF FlushEvents, Step, Goto, Return, Closed, Control, TaskOK
<1>3. pc[t] \in {"flushEvents"} /\ pc'[t] \in {IF t = "router" THEN "attach" ELSE "ready"} /\ UNCHANGED my
  BY DEF FlushEvents, Step, Goto, Return, Closed, Control, TaskOK
<1>4. UNCHANGED <<backlog, abandoned>> /\ ~inLoop'
  BY DEF FlushEvents, Step, Goto, Return, Closed
<1>5. PcOK /\ MyOK /\ LockOK /\ \A i \in DOMAIN backlog : backlog[i] \in Conns  BY
                                                                                   DEF Control,
                                                                                       RestOK
<1>g. stolen' = stolen /\ \A c : BeingGiven(c)' <=> BeingGiven(c)
  BY <1>1, <1>2, <1>3, <1>4 DEF BeingGiven, FlushEvents, PcOK
<1>6. OwnedOK'   BY <1>g, <1>1, <1>2, <1>3, <1>4, <1>5 DEF OwnedOK, Posted, PcOK, MyOK
<1>7. OneTask'   BY <1>g, <1>1, <1>2, <1>3, <1>4, <1>5 DEF OneTask, PcOK, OwnedOK, MyOK
<1>8. PostedOK'  BY <1>g, <1>1, <1>2, <1>3, <1>4, <1>5 DEF PostedOK
<1>9. SockOK'    BY <1>g, <1>1, <1>2, <1>3, <1>4, <1>5 DEF SockOK, Owns, Posted, PcOK, OwnedOK, MyOK, Live
<1>l. LiveOK'
  BY <1>g, <1>1, <1>2, <1>3, <1>4, <1>5
  DEF LiveOK, Live, PcOK, MyOK, NewEmpty
<1>10. NewEmpty'  BY <1>g, <1>1, <1>2, <1>3, <1>4, <1>5 DEF NewEmpty, PcOK, OneTask, MyOK, Live
<1>11. Kept'     BY <1>g, <1>1, <1>2, <1>3, <1>4, <1>5 DEF Kept, Owns, Posted, PcOK, MyOK
<1>12. \A c \in Conns \ stolen : Served(c)' =>
         /\ Served(c) \/ (t = "router" /\ c = my[t])
         /\ c = my[t] => t = "router"
  BY <1>g, <1>1, <1>2, <1>3, <1>4, <1>5
  DEF Served, Posted, PcOK, MyOK, OneTask, SockOK, OwnedOK, Owns, Live
<1>13. /\ t = "router" => conn[my[t]].rx = <<>>
       /\ \A c \in Conns : /\ Begun("server", "read", c)' = Begun("server", "read", c)
                           /\ Begun("router", "event", c)' = Begun("router", "event", c)
                           /\ t = "router" => Begun("router", "event", c) = 0
  BY <1>2, <1>3, <1>5 DEF NewEmpty, Begun, PcOK
<1>14. ASSUME t = "router", my[t] \notin stolen
       PROVE  Begun("server", "read", my[t]) = 0
  BY <1>3, <1>14 DEF OneTask, Begun
<1>15. EventsOK'
  <2> SUFFICES ASSUME NEW c \in Conns \ stolen, Served(c)'
               PROVE  conn'[c].events + Begun("server", "read", c)' + Begun("router", "event", c)'
                        <= Len(conn'[c].rx)
    BY <1>g DEF EventsOK
  <2>1. CASE c = my[t]
    <3>1. t = "router" /\ conn'[c].events = 0 /\ Len(conn'[c].rx) = 0
      BY <1>1, <1>12, <1>13, <2>1, Numbers DEF Control
    <3> QED  BY <1>13, <1>14, <2>1, <3>1
  <2>2. CASE c # my[t]
    BY <1>1, <1>12, <1>13, <2>2 DEF EventsOK
  <2> QED  BY <2>1, <2>2
<1>s. SoundOK'
  <2>1. Sound(<<>>)
    BY DEF Sound
  <2> QED  BY <1>g, <1>1, <1>12, <1>13, <2>1 DEF SoundOK
<1> QED  BY <1>g, <1>l, <1>s, <1>4, <1>6, <1>7, <1>8, <1>9, <1>10, <1>11, <1>15

LEMMA ReadEventOwnership ==
  ASSUME IInv, NEW t \in Tasks, ReadEvent(t)
  PROVE  ~inLoop' /\ Ownership'
<1> USE TaskNames DEF IInv, Ownership, Owning, SameOpen, SameSock, SameRx, SameEvents
<1>1. /\ my[t] \in Conns /\ ConnOK'
      /\ SameOpen /\ SameSock /\ SameRx
      /\ conn[my[t]].open /\ conn[my[t]].events \in 1 .. RxCap
      /\ \A d \in Conns : conn'[d].events = IF d = my[t] THEN conn[d].events - 1 ELSE conn[d].events
  BY ReadEventEffect
<1>2. \A u \in Tasks : u # t => pc'[u] = pc[u] /\ my'[u] = my[u]
  BY DEF ReadEvent, Step, Goto, Return, Closed, Control, TaskOK
<1>3. pc[t] \in {"ready"} /\ pc'[t] \in {"read"} /\ UNCHANGED my
  BY DEF ReadEvent, Step, Goto, Return, Closed, Control, TaskOK
<1>4. UNCHANGED <<backlog, abandoned>> /\ ~inLoop'
  BY DEF ReadEvent, Step, Goto, Return, Closed
<1>5. PcOK /\ MyOK /\ LockOK /\ \A i \in DOMAIN backlog : backlog[i] \in Conns  BY
                                                                                   DEF Control,
                                                                                       RestOK
<1>g. stolen' = stolen /\ \A c : BeingGiven(c)' <=> BeingGiven(c)
  BY <1>1, <1>2, <1>3, <1>4 DEF BeingGiven, ReadEvent, PcOK
<1>6. OwnedOK'   BY <1>g, <1>1, <1>2, <1>3, <1>4, <1>5 DEF OwnedOK, Posted, PcOK, MyOK
<1>7. OneTask'   BY <1>g, <1>1, <1>2, <1>3, <1>4, <1>5 DEF OneTask, PcOK, OwnedOK, MyOK
<1>8. PostedOK'  BY <1>g, <1>1, <1>2, <1>3, <1>4, <1>5 DEF PostedOK
<1>9. SockOK'    BY <1>g, <1>1, <1>2, <1>3, <1>4, <1>5 DEF SockOK, Owns, Posted, PcOK, OwnedOK, MyOK, Live
<1>l. LiveOK'
  BY <1>g, <1>1, <1>2, <1>3, <1>4, <1>5
  DEF LiveOK, Live, PcOK, MyOK, NewEmpty
<1>10. NewEmpty'  BY <1>g, <1>1, <1>2, <1>3, <1>4, <1>5 DEF NewEmpty, PcOK, OneTask, MyOK, Live
<1>11. Kept'     BY <1>g, <1>1, <1>2, <1>3, <1>4, <1>5 DEF Kept, Owns, Posted, PcOK, MyOK
<1>12. EventsOK'
  <2>1. \A c \in Conns : Served(c)' => Served(c)
    BY <1>g, <1>1, <1>2, <1>3, <1>4, <1>5 DEF Served, Posted, PcOK, Live
  <2>2. t # "router"
    BY <1>3, <1>5 DEF PcOK
  <2>3. ASSUME NEW c \in Conns \ stolen, Served(c)
        PROVE  conn'[c].events + Begun("server", "read", c)' + Begun("router", "event", c)'
                 <= Len(conn'[c].rx)
    <3>1. conn[c].events + Begun("server", "read", c) + Begun("router", "event", c)
            <= Len(conn[c].rx)
      BY <2>3 DEF EventsOK
    <3>2. conn[c].events \in Nat /\ Len(conn[c].rx) \in Nat
      BY Numbers DEF Control
    <3>3. /\ Begun("router", "event", c)' = Begun("router", "event", c)
          /\ Begun("router", "event", c) \in 0 .. 1
      BY <1>2, <2>2 DEF Begun
    <3>4. CASE c # my[t]
      <4>1. Begun("server", "read", c)' = Begun("server", "read", c)
        BY <1>2, <1>3, <3>4 DEF Begun
      <4> QED  BY <1>1, <3>1, <3>3, <3>4, <4>1
    <3>5. CASE c = my[t]
      <4>1. t = "server"
        BY <1>1, <1>3, <2>2, <2>3, <3>5, ClientNotServed
      <4>2. Begun("server", "read", c) = 0 /\ Begun("server", "read", c)' = 1
        BY <1>3, <3>5, <4>1 DEF Begun
      <4> QED  BY <1>1, <3>1, <3>2, <3>3, <3>5, <4>2
    <3> QED  BY <3>4, <3>5
  <2> QED  BY <1>g, <2>1, <2>3 DEF EventsOK
<1>s. SoundOK'
  BY <1>g, <1>1, <1>2, <1>3, <1>4, <1>5
  DEF SoundOK, Sound, Served, Live, Posted, PcOK, LockOK, MyOK, OneTask, SockOK, OwnedOK, Owns
<1> QED  BY <1>g, <1>l, <1>s, <1>4, <1>6, <1>7, <1>8, <1>9, <1>10, <1>11, <1>12

LEMMA StartCloseOwnership ==
  ASSUME IInv, NEW t \in Tasks, StartClose(t)
  PROVE  ~inLoop' /\ Ownership'
<1> USE TaskNames DEF IInv, Ownership, Owning, SameOpen, SameSock, SameRx, SameEvents
<1>1. \A u \in Tasks : u # t => pc'[u] = pc[u] /\ my'[u] = my[u]
  BY DEF StartClose, Step, Goto, Return, Closed, Control, TaskOK
<1>2. pc[t] \in {"ready"} /\ pc'[t] \in {"close"} /\ UNCHANGED my
  BY DEF StartClose, Step, Goto, Return, Closed, Control, TaskOK
<1>3. conn' = conn /\ UNCHANGED <<backlog, abandoned>> /\ ~inLoop'
  BY DEF StartClose, Step, Goto, Return, Closed
<1>4. PcOK /\ MyOK /\ LockOK /\ \A i \in DOMAIN backlog : backlog[i] \in Conns  BY
                                                                                   DEF Control,
                                                                                       RestOK
<1>g. stolen' = stolen /\ \A c : BeingGiven(c)' <=> BeingGiven(c)
  BY <1>1, <1>2, <1>3, <1>4 DEF BeingGiven, StartClose, PcOK
<1>5. OwnedOK'   BY <1>g, <1>1, <1>2, <1>3, <1>4 DEF OwnedOK, Posted, PcOK, MyOK
<1>6. OneTask'   BY <1>g, <1>1, <1>2, <1>3, <1>4 DEF OneTask, PcOK, OwnedOK, MyOK
<1>7. PostedOK'  BY <1>g, <1>1, <1>2, <1>3, <1>4 DEF PostedOK
<1>8. SockOK'    BY <1>g, <1>1, <1>2, <1>3, <1>4 DEF SockOK, Owns, Posted, PcOK, OwnedOK, MyOK, Live
<1>l. LiveOK'
  BY <1>g, <1>1, <1>2, <1>3, <1>4
  DEF LiveOK, Live, PcOK, MyOK, NewEmpty
<1>9. NewEmpty'  BY <1>g, <1>1, <1>2, <1>3, <1>4 DEF NewEmpty, PcOK, OneTask, MyOK, Live
<1>10. Kept'     BY <1>g, <1>1, <1>2, <1>3, <1>4 DEF Kept, Owns, Posted, PcOK, MyOK
<1>11. EventsOK' BY <1>g, <1>1, <1>2, <1>3, <1>4
                    DEF EventsOK, Served, Begun, Posted, PcOK, LockOK, MyOK, OneTask, SockOK,
                        OwnedOK, Owns, Live
<1>s. SoundOK'
  BY <1>g, <1>1, <1>2, <1>3, <1>4
  DEF SoundOK, Sound, Served, Live, Posted, PcOK, LockOK, MyOK, OneTask, SockOK, OwnedOK, Owns
<1> QED  BY <1>g, <1>l, <1>s, <1>3, <1>5, <1>6, <1>7, <1>8, <1>9, <1>10, <1>11

LEMMA EmptyOwnership == ASSUME IInv, NEW t \in Tasks, Empty(t) PROVE ~inLoop' /\ Ownership'
<1> USE TaskNames DEF IInv, Ownership, Owning, SameOpen, SameSock, SameRx, SameEvents
<1>1. /\ my[t] \in Conns /\ ConnOK'
      /\ SameOpen /\ SameSock /\ SameEvents
      /\ \A d \in Conns : conn'[d].rx = IF d = my[t] THEN <<>> ELSE conn[d].rx
  BY EmptyEffect
<1>2. \A u \in Tasks : u # t => pc'[u] = pc[u] /\ my'[u] = my[u]
  BY DEF Empty, Step, Goto, Return, Closed, Control, TaskOK
<1>3. pc[t] \in {"empty"} /\ pc'[t] \in {"emptyEvents"} /\ UNCHANGED my
  BY DEF Empty, Step, Goto, Return, Closed, Control, TaskOK
<1>4. UNCHANGED <<backlog, abandoned>> /\ ~inLoop'
  BY DEF Empty, Step, Goto, Return, Closed
<1>5. PcOK /\ MyOK /\ LockOK /\ \A i \in DOMAIN backlog : backlog[i] \in Conns  BY
                                                                                   DEF Control,
                                                                                       RestOK
<1>g. stolen' = stolen /\ \A c : BeingGiven(c)' <=> BeingGiven(c)
  BY <1>1, <1>2, <1>3, <1>4 DEF BeingGiven, Empty, PcOK
<1>6. OwnedOK'   BY <1>g, <1>1, <1>2, <1>3, <1>4, <1>5 DEF OwnedOK, Posted, PcOK, MyOK
<1>7. OneTask'   BY <1>g, <1>1, <1>2, <1>3, <1>4, <1>5 DEF OneTask, PcOK, OwnedOK, MyOK
<1>8. PostedOK'  BY <1>g, <1>1, <1>2, <1>3, <1>4, <1>5 DEF PostedOK
<1>9. SockOK'    BY <1>g, <1>1, <1>2, <1>3, <1>4, <1>5 DEF SockOK, Owns, Posted, PcOK, OwnedOK, MyOK, Live
<1>l. LiveOK'
  BY <1>g, <1>1, <1>2, <1>3, <1>4, <1>5
  DEF LiveOK, Live, PcOK, MyOK, NewEmpty
<1>10. NewEmpty'  BY <1>g, <1>1, <1>2, <1>3, <1>4, <1>5 DEF NewEmpty, PcOK, OneTask, MyOK, Live
<1>11. Kept'     BY <1>g, <1>1, <1>2, <1>3, <1>4, <1>5 DEF Kept, Owns, Posted, PcOK, MyOK
<1>12. EventsOK' BY <1>g, <1>1, <1>2, <1>3, <1>4, <1>5
                    DEF EventsOK, Served, Begun, Posted, PcOK, LockOK, MyOK, OneTask, SockOK,
                        OwnedOK, Owns, Live
<1>s. SoundOK'
  BY <1>g, <1>1, <1>2, <1>3, <1>4, <1>5
  DEF SoundOK, Sound, Served, Live, Posted, PcOK, LockOK, MyOK, OneTask, SockOK, OwnedOK, Owns
<1> QED  BY <1>g, <1>l, <1>s, <1>4, <1>6, <1>7, <1>8, <1>9, <1>10, <1>11, <1>12

LEMMA EmptyEventsOwnership ==
  ASSUME IInv, NEW t \in Tasks, EmptyEvents(t)
  PROVE  ~inLoop' /\ Ownership'
<1> USE TaskNames DEF IInv, Ownership, Owning, SameOpen, SameSock, SameRx, SameEvents
<1>1. /\ my[t] \in Conns /\ ConnOK'
      /\ SameOpen /\ SameSock /\ SameRx
      /\ \A d \in Conns : conn'[d].events = IF d = my[t] THEN 0 ELSE conn[d].events
  BY EmptyEventsEffect
<1>2. \A u \in Tasks : u # t => pc'[u] = pc[u] /\ my'[u] = my[u]
  BY DEF EmptyEvents, Step, Goto, Return, Closed, Control, TaskOK
<1>3. pc[t] \in {"emptyEvents"} /\ pc'[t] \in {"idle"} /\ TRUE
  BY DEF EmptyEvents, Step, Goto, Return, Closed, Control, TaskOK
<1>4. UNCHANGED <<backlog, abandoned>> /\ ~inLoop'
  BY DEF EmptyEvents, Step, Goto, Return, Closed
<1>5. PcOK /\ MyOK /\ LockOK /\ \A i \in DOMAIN backlog : backlog[i] \in Conns  BY
                                                                                   DEF Control,
                                                                                       RestOK
<1>g. stolen' = stolen /\ \A c : BeingGiven(c)' <=> BeingGiven(c)
  BY <1>1, <1>2, <1>3, <1>4 DEF BeingGiven, EmptyEvents, PcOK
<1>6. OwnedOK'   BY <1>g, <1>1, <1>2, <1>3, <1>4, <1>5 DEF OwnedOK, Posted, PcOK, MyOK
<1>7. OneTask'   BY <1>g, <1>1, <1>2, <1>3, <1>4, <1>5 DEF OneTask, PcOK, OwnedOK, MyOK
<1>8. PostedOK'  BY <1>g, <1>1, <1>2, <1>3, <1>4, <1>5 DEF PostedOK
<1>9. SockOK'    BY <1>g, <1>1, <1>2, <1>3, <1>4, <1>5 DEF SockOK, Owns, Posted, PcOK, OwnedOK, MyOK, Live
<1>l. LiveOK'
  BY <1>g, <1>1, <1>2, <1>3, <1>4, <1>5
  DEF LiveOK, Live, PcOK, MyOK, NewEmpty
<1>10. NewEmpty'  BY <1>g, <1>1, <1>2, <1>3, <1>4, <1>5 DEF NewEmpty, PcOK, OneTask, MyOK, Live
<1>11. Kept'     BY <1>g, <1>1, <1>2, <1>3, <1>4, <1>5 DEF Kept, Owns, Posted, PcOK, MyOK
<1>12. EventsOK' BY <1>g, <1>1, <1>2, <1>3, <1>4, <1>5
                    DEF EventsOK, Served, Begun, Posted, PcOK, LockOK, MyOK, OneTask, SockOK,
                        OwnedOK, Owns, Live
<1>s. SoundOK'
  BY <1>g, <1>1, <1>2, <1>3, <1>4, <1>5
  DEF SoundOK, Sound, Served, Live, Posted, PcOK, LockOK, MyOK, OneTask, SockOK, OwnedOK, Owns
<1> QED  BY <1>g, <1>l, <1>s, <1>4, <1>6, <1>7, <1>8, <1>9, <1>10, <1>11, <1>12

LEMMA CloseCheckOpenOwnership ==
  ASSUME IInv, NEW t \in Tasks, CloseCheck(t), conn[my[t]].open
  PROVE  ~inLoop' /\ Ownership'
<1> USE TaskNames DEF IInv, Ownership, Owning, SameOpen, SameSock, SameRx, SameEvents
<1>1. \A u \in Tasks : u # t => pc'[u] = pc[u] /\ my'[u] = my[u]
  BY DEF CloseCheck, Step, Goto, Return, Closed, Control, TaskOK
<1>2. pc[t] = "close" /\ pc'[t] = "lock" /\ UNCHANGED my
  BY DEF CloseCheck, Step, Goto, Return, Closed, Control, TaskOK
<1>3. conn' = conn /\ UNCHANGED <<backlog, abandoned>> /\ ~inLoop'
  BY DEF CloseCheck, Step, Goto, Return, Closed
<1>4. PcOK /\ MyOK /\ LockOK /\ \A i \in DOMAIN backlog : backlog[i] \in Conns
  BY DEF Control, RestOK
<1>g. stolen' = stolen /\ \A c : BeingGiven(c)' <=> BeingGiven(c)
  BY <1>1, <1>2, <1>3, <1>4 DEF BeingGiven, CloseCheck, PcOK
<1>5. OwnedOK'   BY <1>g, <1>1, <1>2, <1>3, <1>4 DEF OwnedOK, Posted, PcOK, MyOK, PostedOK
<1>6. OneTask'   BY <1>g, <1>1, <1>2, <1>3, <1>4 DEF OneTask, PcOK, OwnedOK, MyOK
<1>7. PostedOK'  BY <1>g, <1>1, <1>2, <1>3, <1>4 DEF PostedOK, OwnedOK, Posted
<1>8. SockOK'    BY <1>g, <1>1, <1>2, <1>3, <1>4
                    DEF SockOK, Owns, Posted, PcOK, OwnedOK, MyOK, OneTask, Live
<1>l. LiveOK'
  BY <1>g, <1>1, <1>2, <1>3, <1>4
  DEF LiveOK, Live, PcOK, MyOK, NewEmpty
<1>9. NewEmpty'  BY <1>g, <1>1, <1>2, <1>3, <1>4 DEF NewEmpty, PcOK, OneTask, MyOK, Live
<1>10. Kept'     BY <1>g, <1>1, <1>2, <1>3, <1>4 DEF Kept, Owns, Posted, PcOK, MyOK, OwnedOK
<1>11. EventsOK' BY <1>g, <1>1, <1>2, <1>3, <1>4
                    DEF EventsOK, Served, Begun, Posted, PcOK, LockOK, MyOK, OneTask, SockOK,
                        OwnedOK, Owns, Live
<1>s. SoundOK'
  BY <1>g, <1>1, <1>2, <1>3, <1>4
  DEF SoundOK, Sound, Served, Live, Posted, PcOK, LockOK, MyOK, OneTask, SockOK, OwnedOK, Owns
<1> QED  BY <1>g, <1>l, <1>s, <1>3, <1>5, <1>6, <1>7, <1>8, <1>9, <1>10, <1>11

LEMMA CloseCheckShutOwnership ==
  ASSUME IInv, NEW t \in Tasks, CloseCheck(t), ~conn[my[t]].open
  PROVE  ~inLoop' /\ Ownership'
<1> USE TaskNames DEF IInv, Ownership, Owning, SameOpen, SameSock, SameRx, SameEvents
<1>1. \A u \in Tasks : u # t => pc'[u] = pc[u] /\ my'[u] = my[u]
  BY DEF CloseCheck, Step, Goto, Return, Closed, Control, TaskOK
<1>2. pc[t] = "close" /\ pc'[t] = "idle"
  BY DEF CloseCheck, Step, Goto, Return, Closed, Control, TaskOK
<1>3. conn' = conn /\ UNCHANGED <<backlog, abandoned>> /\ ~inLoop'
  BY DEF CloseCheck, Step, Goto, Return, Closed
<1>4. PcOK /\ MyOK /\ LockOK /\ \A i \in DOMAIN backlog : backlog[i] \in Conns
  BY DEF Control, RestOK
<1>g. stolen' = stolen /\ \A c : BeingGiven(c)' <=> BeingGiven(c)
  BY <1>1, <1>2, <1>3, <1>4 DEF BeingGiven, CloseCheck, PcOK
<1>5. OwnedOK'   BY <1>g, <1>1, <1>2, <1>3, <1>4 DEF OwnedOK, Posted, PcOK, MyOK, PostedOK
<1>6. OneTask'   BY <1>g, <1>1, <1>2, <1>3, <1>4 DEF OneTask, PcOK, OwnedOK, MyOK
<1>7. PostedOK'  BY <1>g, <1>1, <1>2, <1>3, <1>4 DEF PostedOK, OwnedOK, Posted
<1>8. SockOK'    BY <1>g, <1>1, <1>2, <1>3, <1>4
                    DEF SockOK, Owns, Posted, PcOK, OwnedOK, MyOK, OneTask, Live
<1>l. LiveOK'
  BY <1>g, <1>1, <1>2, <1>3, <1>4
  DEF LiveOK, Live, PcOK, MyOK, NewEmpty
<1>9. NewEmpty'  BY <1>g, <1>1, <1>2, <1>3, <1>4 DEF NewEmpty, PcOK, OneTask, MyOK, Live
<1>10. Kept'     BY <1>g, <1>1, <1>2, <1>3, <1>4 DEF Kept, Owns, Posted, PcOK, MyOK, OwnedOK
<1>11. EventsOK' BY <1>g, <1>1, <1>2, <1>3, <1>4
                    DEF EventsOK, Served, Begun, Posted, PcOK, LockOK, MyOK, OneTask, SockOK,
                        OwnedOK, Owns, Live
<1>s. SoundOK'
  BY <1>g, <1>1, <1>2, <1>3, <1>4
  DEF SoundOK, Sound, Served, Live, Posted, PcOK, LockOK, MyOK, OneTask, SockOK, OwnedOK, Owns
<1> QED  BY <1>g, <1>l, <1>s, <1>3, <1>5, <1>6, <1>7, <1>8, <1>9, <1>10, <1>11

LEMMA CloseTimeoutOwnership ==
  ASSUME IInv, NEW t \in Tasks, CloseTimeout(t)
  PROVE  ~inLoop' /\ Ownership'
<1> USE TaskNames DEF IInv, Ownership, Owning, SameOpen, SameSock, SameRx, SameEvents
<1>1. \A u \in Tasks : u # t => pc'[u] = pc[u] /\ my'[u] = my[u]
  BY DEF CloseTimeout, Step, Goto, Return, Closed, Control, TaskOK
<1>2. pc[t] = "lock" /\ pc'[t] = "idle"
  BY DEF CloseTimeout, Step, Goto, Return, Closed, Control, TaskOK
<1>3. UNCHANGED <<conn, backlog>> /\ abandoned' = abandoned \cup {my[t]} /\ ~inLoop'
  BY DEF CloseTimeout, Step, Goto, Return, Closed
<1>4. PcOK /\ MyOK /\ LockOK /\ \A i \in DOMAIN backlog : backlog[i] \in Conns
  BY DEF Control, RestOK
<1>g. stolen' = stolen /\ \A c : BeingGiven(c)' <=> BeingGiven(c)
  BY <1>1, <1>2, <1>3, <1>4 DEF BeingGiven, CloseTimeout, PcOK
<1>5. OwnedOK'   BY <1>g, <1>1, <1>2, <1>3, <1>4 DEF OwnedOK, Posted, PcOK, MyOK, PostedOK
<1>6. OneTask'   BY <1>g, <1>1, <1>2, <1>3, <1>4 DEF OneTask, PcOK, OwnedOK, MyOK
<1>7. PostedOK'  BY <1>g, <1>1, <1>2, <1>3, <1>4 DEF PostedOK, OwnedOK, Posted
<1>8. SockOK'    BY <1>g, <1>1, <1>2, <1>3, <1>4
                    DEF SockOK, Owns, Posted, PcOK, OwnedOK, MyOK, OneTask, Live
<1>l. LiveOK'
  BY <1>g, <1>1, <1>2, <1>3, <1>4
  DEF LiveOK, Live, PcOK, MyOK, NewEmpty
<1>9. NewEmpty'  BY <1>g, <1>1, <1>2, <1>3, <1>4 DEF NewEmpty, PcOK, OneTask, MyOK, Live
<1>10. Kept'     BY <1>g, <1>1, <1>2, <1>3, <1>4 DEF Kept, Owns, Posted, PcOK, MyOK, OwnedOK
<1>11. EventsOK' BY <1>g, <1>1, <1>2, <1>3, <1>4
                    DEF EventsOK, Served, Begun, Posted, PcOK, LockOK, MyOK, OneTask, SockOK,
                        OwnedOK, Owns, Live
<1>s. SoundOK'
  BY <1>g, <1>1, <1>2, <1>3, <1>4
  DEF SoundOK, Sound, Served, Live, Posted, PcOK, LockOK, MyOK, OneTask, SockOK, OwnedOK, Owns
<1> QED  BY <1>g, <1>l, <1>s, <1>3, <1>5, <1>6, <1>7, <1>8, <1>9, <1>10, <1>11

LEMMA PostQuietOwnership ==
  ASSUME IInv, Post, ~conn[my["router"]].sock
  PROVE  ~inLoop' /\ Ownership'
<1> USE TaskNames DEF IInv, Ownership, Owning, SameOpen, SameSock, SameRx, SameEvents
<1>1. \A u \in Tasks : u # "router" => pc'[u] = pc[u] /\ my'[u] = my[u]
  BY DEF Post, Step, Goto, Return, Closed, Control, TaskOK
<1>2. pc["router"] = "post" /\ pc'["router"] = "idle"
  BY DEF Post, Step, Goto, Return, Closed, Control, TaskOK
<1>3. conn' = conn /\ UNCHANGED <<backlog, abandoned>> /\ ~inLoop'
  BY DEF Post, Step, Goto, Return, Closed
<1>4. PcOK /\ MyOK /\ LockOK /\ \A i \in DOMAIN backlog : backlog[i] \in Conns
  BY DEF Control, RestOK
<1>g. stolen' = stolen /\ \A c : BeingGiven(c)' <=> BeingGiven(c)
  BY <1>1, <1>2, <1>3, <1>4 DEF BeingGiven, Post, PcOK
<1>5. OwnedOK'   BY <1>g, <1>1, <1>2, <1>3, <1>4 DEF OwnedOK, Posted, PcOK, MyOK, PostedOK
<1>6. OneTask'   BY <1>g, <1>1, <1>2, <1>3, <1>4 DEF OneTask, PcOK, OwnedOK, MyOK
<1>7. PostedOK'  BY <1>g, <1>1, <1>2, <1>3, <1>4 DEF PostedOK, OwnedOK, Posted
<1>8. SockOK'    BY <1>g, <1>1, <1>2, <1>3, <1>4
                    DEF SockOK, Owns, Posted, PcOK, OwnedOK, MyOK, OneTask, Live
<1>l. LiveOK'
  BY <1>g, <1>1, <1>2, <1>3, <1>4
  DEF LiveOK, Live, PcOK, MyOK, NewEmpty
<1>9. NewEmpty'  BY <1>g, <1>1, <1>2, <1>3, <1>4 DEF NewEmpty, PcOK, OneTask, MyOK, Live
<1>10. Kept'     BY <1>g, <1>1, <1>2, <1>3, <1>4 DEF Kept, Owns, Posted, PcOK, MyOK, OwnedOK
<1>11. EventsOK' BY <1>g, <1>1, <1>2, <1>3, <1>4
                    DEF EventsOK, Served, Begun, Posted, PcOK, LockOK, MyOK, OneTask, SockOK,
                        OwnedOK, Owns, Live
<1>s. SoundOK'
  BY <1>g, <1>1, <1>2, <1>3, <1>4
  DEF SoundOK, Sound, Served, Live, Posted, PcOK, LockOK, MyOK, OneTask, SockOK, OwnedOK, Owns
<1> QED  BY <1>g, <1>l, <1>s, <1>3, <1>5, <1>6, <1>7, <1>8, <1>9, <1>10, <1>11

LEMMA AllocateNoneOwnership ==
  ASSUME IInv, NEW t \in Tasks, Allocate(t), Candidates = {}
  PROVE  ~inLoop' /\ Ownership'
<1> USE TaskNames DEF IInv, Ownership, Owning, SameOpen, SameSock, SameRx, SameEvents
<1>1. \A u \in Tasks : u # t => pc'[u] = pc[u] /\ my'[u] = my[u]
  BY DEF Allocate, Step, Goto, Return, Closed, Control, TaskOK
<1>2. pc[t] = "alloc" /\ pc'[t] = "idle"
  BY DEF Allocate, Step, Goto, Return, Closed, Control, TaskOK
<1>3. conn' = conn /\ UNCHANGED <<backlog, abandoned>> /\ ~inLoop'
  BY DEF Allocate, Step, Goto, Return, Closed
<1>4. PcOK /\ MyOK /\ LockOK /\ \A i \in DOMAIN backlog : backlog[i] \in Conns
  BY DEF Control, RestOK
<1>g. stolen' = stolen /\ \A c : BeingGiven(c)' <=> BeingGiven(c)
  BY <1>1, <1>2, <1>3, <1>4 DEF BeingGiven, Allocate, PcOK
<1>5. OwnedOK'   BY <1>g, <1>1, <1>2, <1>3, <1>4 DEF OwnedOK, Posted, PcOK, MyOK, PostedOK
<1>6. OneTask'   BY <1>g, <1>1, <1>2, <1>3, <1>4 DEF OneTask, PcOK, OwnedOK, MyOK
<1>7. PostedOK'  BY <1>g, <1>1, <1>2, <1>3, <1>4 DEF PostedOK, OwnedOK, Posted
<1>8. SockOK'    BY <1>g, <1>1, <1>2, <1>3, <1>4
                    DEF SockOK, Owns, Posted, PcOK, OwnedOK, MyOK, OneTask, Live
<1>l. LiveOK'
  BY <1>g, <1>1, <1>2, <1>3, <1>4
  DEF LiveOK, Live, PcOK, MyOK, NewEmpty
<1>9. NewEmpty'  BY <1>g, <1>1, <1>2, <1>3, <1>4 DEF NewEmpty, PcOK, OneTask, MyOK, Live
<1>10. Kept'     BY <1>g, <1>1, <1>2, <1>3, <1>4 DEF Kept, Owns, Posted, PcOK, MyOK, OwnedOK
<1>11. EventsOK' BY <1>g, <1>1, <1>2, <1>3, <1>4
                    DEF EventsOK, Served, Begun, Posted, PcOK, LockOK, MyOK, OneTask, SockOK,
                        OwnedOK, Owns, Live
<1>s. SoundOK'
  BY <1>g, <1>1, <1>2, <1>3, <1>4
  DEF SoundOK, Sound, Served, Live, Posted, PcOK, LockOK, MyOK, OneTask, SockOK, OwnedOK, Owns
<1> QED  BY <1>g, <1>l, <1>s, <1>3, <1>5, <1>6, <1>7, <1>8, <1>9, <1>10, <1>11

-----------------------------------------------------------------------------
LEMMA InitIInv == Init => IInv
<1> SUFFICES ASSUME Init PROVE IInv
  OBVIOUS
<1>1. Control
  BY InitControl
<1>2. /\ \A t \in Tasks : pc[t] = "idle"
      /\ \A c \in Conns : ~conn[c].open
      /\ DOMAIN backlog = {} /\ ~inLoop
  BY DEF Init
<1>3. \A t \in Tasks : ~Owning(t)
  BY <1>2 DEF Owning
<1>4. "server" \in Tasks /\ "router" \in Tasks
  BY TaskNames
<1>5. OwnedOK /\ OneTask /\ PostedOK
  BY <1>2, <1>3 DEF OwnedOK, OneTask, PostedOK
<1>6. SockOK /\ LiveOK /\ NewEmpty /\ Kept /\ EventsOK /\ SoundOK
  BY <1>2, <1>3, <1>4 DEF SockOK, LiveOK, Live, NewEmpty, Kept, EventsOK, SoundOK, Served
<1> QED
  BY <1>1, <1>2, <1>5, <1>6 DEF IInv, Ownership

LEMMA StutterOwnership == IInv /\ UNCHANGED vars => ~inLoop' /\ Ownership'
<1> SUFFICES ASSUME IInv, UNCHANGED vars PROVE ~inLoop' /\ Ownership'
  OBVIOUS
<1> USE DEF vars, IInv, Ownership, Owns, Owning, Posted, Live, BeingGiven
<1>1. OwnedOK' /\ OneTask' /\ PostedOK'
  BY DEF OwnedOK, OneTask, PostedOK
<1>2. SockOK' /\ LiveOK' /\ NewEmpty' /\ Kept'
  BY DEF SockOK, LiveOK, NewEmpty, Kept
<1>3. EventsOK' /\ SoundOK'
  BY DEF EventsOK, SoundOK, Sound, Served, Begun
<1> QED
  BY <1>1, <1>2, <1>3

(* With the server closing once, as csp_close asks of its callers.           *)
LEMMA NextIInv ==
  ASSUME ServerClose = "once", IInv, [Next]_vars
  PROVE  IInv'
<1>1. Control'
  BY NextControl DEF IInv
<1> SUFFICES ~inLoop' /\ Ownership'
  BY <1>1 DEF IInv
<1>2. CASE Router
  <2>1. CASE Route
    BY <2>1, RouteOwnership
  <2>2. CASE Attach
    BY <2>2, AttachOwnership
  <2>3. CASE EnqueuePacket
    BY <2>3, EnqueuePacketOwnership, EnqueuePacketFullOwnership
  <2>4. CASE EnqueueEvent
    BY <2>4, EnqueueEventOwnership, EnqueueEventFullOwnership
  <2>5. CASE Post
    BY <2>5, PostQuietOwnership, PostRoomOwnership, PostFullOwnership
  <2>6. CASE ClearSocket
    BY <2>6, ClearSocketOwnership
  <2> QED
    BY <1>2, <2>1, <2>2, <2>3, <2>4, <2>5, <2>6 DEF Router
<1>3. CASE Accept
  BY <1>3, AcceptOwnership
<1>4. CASE \E t \in Tasks : Task(t)
  <2>1. PICK t \in Tasks : Task(t)
    BY <1>4
  <2>2. CASE PickPort(t) \/ Allocate(t) \/ AllocateTimeout(t) \/ UnsetSocket(t)
    BY <2>2, PickPortOwnership, AllocateOwnership, AllocateNoneOwnership,
       AllocateTimeoutOwnership, UnsetSocketOwnership
  <2>3. CASE Identify(t) \/ Flush(t) \/ FlushEvents(t)
    BY <2>3, IdentifyOwnership, FlushOwnership, FlushEventsOwnership
  <2>4. CASE ReadEvent(t) \/ ReadPacket(t) \/ StartClose(t)
    BY <2>4, ReadEventOwnership, ReadPacketOwnership, StartCloseOwnership
  <2>5. CASE CloseCheck(t) \/ CloseLock(t) \/ CloseTimeout(t)
    BY <2>5, CloseCheckOpenOwnership, CloseCheckShutOwnership, CloseLockOwnership,
       CloseTimeoutOwnership
  <2>6. CASE Empty(t) \/ EmptyEvents(t)
    BY <2>6, EmptyOwnership, EmptyEventsOwnership
  <2> QED
    BY <2>1, <2>2, <2>3, <2>4, <2>5, <2>6 DEF Task
<1>5. CASE UNCHANGED vars
  BY <1>5, StutterOwnership
<1> QED
  BY <1>2, <1>3, <1>4, <1>5 DEF Next

(* The inductive invariant holds, whatever the tasks interleave, if the      *)
(* server closes each connection once.                                      *)
THEOREM Invariance == ServerClose = "once" => (Spec => []IInv)
<1> SUFFICES ASSUME ServerClose = "once" PROVE Spec => []IInv
  OBVIOUS
<1>1. IInv /\ [Next]_vars => IInv'
  BY NextIInv
<1> QED
  BY InitIInv, <1>1, PTL DEF Spec

(* A set with at most one element.                                           *)
LEMMA AtMostOne ==
  ASSUME NEW S, \A x, y \in S : x = y
  PROVE  Cardinality(S) = IF S = {} THEN 0 ELSE 1
<1>1. CASE S = {}
  BY <1>1, FS_EmptySet
<1>2. CASE S # {}
  <2>1. PICK x \in S : TRUE
    BY <1>2
  <2>2. S = {x}
    BY <2>1
  <2> QED
    BY <1>2, <2>2, FS_Singleton
<1> QED
  BY <1>1, <1>2

(* Owners counts the tasks that own a connection and its places in the backlog. *)
LEMMA OwnersCount ==
  ASSUME IInv, NEW c \in Conns \ stolen
  PROVE  /\ Owners(c) \in 0 .. 1
         /\ Owners(c) = 1 => conn[c].open
<1> DEFINE T == {t \in Tasks : my[t] = c /\ Owning(t)}
           B == {i \in DOMAIN backlog : backlog[i] = c}
<1> USE DEF IInv, Ownership
<1>1. \A x, y \in T : x = y
  BY DEF OneTask
<1>2. \A x, y \in B : x = y
  BY DEF PostedOK
<1>3. T # {} => B = {} /\ conn[c].open
  BY DEF OwnedOK, Posted
<1>4. B # {} => conn[c].open
  BY DEF PostedOK
<1>5. Owners(c) = (IF T = {} THEN 0 ELSE 1) + (IF B = {} THEN 0 ELSE 1)
  <2> HIDE DEF T, B
  <2>1. Cardinality(T) = IF T = {} THEN 0 ELSE 1
    BY <1>1, AtMostOne
  <2>2. Cardinality(B) = IF B = {} THEN 0 ELSE 1
    BY <1>2, AtMostOne
  <2> QED
    BY <2>1, <2>2 DEF Owners, T, B
<1> HIDE DEF T, B
<1> QED
  BY <1>3, <1>4, <1>5

(* A connection that somebody owns, stolen or not, has an owner to count.      *)
LEMMA SomeOwner ==
  ASSUME IInv, NEW c \in Conns, Posted(c) \/ \E t \in Tasks : Owns(t, c)
  PROVE  Owners(c) > 0
<1> DEFINE T == {t \in Tasks : my[t] = c /\ Owning(t)}
           B == {i \in DOMAIN backlog : backlog[i] = c}
<1>1. IsFiniteSet(T) /\ IsFiniteSet(B)
  <2>1. IsFiniteSet(Tasks)
    <3>1. Tasks = (Clients \cup {"server"}) \cup {"router"}
      BY DEF Tasks
    <3> QED  BY <3>1, PoolAssumption, FS_AddElement
  <2>2. IsFiniteSet(DOMAIN backlog)
    <3>1. DOMAIN backlog = 1 .. Len(backlog) /\ Len(backlog) \in Nat
      BY DEF IInv, Control, RestOK
    <3> QED  BY <3>1, FS_Interval
  <2> QED  BY <2>1, <2>2, FS_Subset
<1>2. T # {} \/ B # {}
  BY DEF Posted, Owns
<1>3. Owners(c) = Cardinality(T) + Cardinality(B)
  BY DEF Owners
<1> HIDE DEF T, B
<1> QED
  BY <1>1, <1>2, <1>3, FS_EmptySet, FS_CardinalityType

(* No connection is given to two tasks, and none that is owned is closed.     *)
THEOREM SingleOwner == ServerClose = "once" => (Spec => []OneOwner)
<1> SUFFICES ASSUME ServerClose = "once" PROVE Spec => []OneOwner
  OBVIOUS
<1>1. IInv => OneOwner
  BY OwnersCount DEF OneOwner
<1>2. Spec => []IInv
  BY Invariance
<1> QED
  BY <1>1, <1>2, PTL

(* Every open connection will be closed by somebody, or was given up by a    *)
(* csp_close that did not get the lock.                                     *)
THEOREM NeverLeaked == ServerClose = "once" => (Spec => []NoLeak)
<1> SUFFICES ASSUME ServerClose = "once" PROVE Spec => []NoLeak
  OBVIOUS
<1>1. IInv => NoLeak
  <2> SUFFICES ASSUME IInv, NEW c \in Conns, conn[c].open, c \notin abandoned
               PROVE  Owners(c) > 0
    BY DEF NoLeak
  <2>1. Posted(c) \/ \E t \in Tasks : Owns(t, c)
    BY DEF IInv, Ownership, Kept
  <2> QED
    BY <2>1, SomeOwner
<1>2. Spec => []IInv
  BY Invariance
<1> QED
  BY <1>1, <1>2, PTL

(* The server finds a packet for every event it waits for.                   *)
THEOREM NoEmptyRead == ServerClose = "once" => (Spec => []EventHasPacket)
<1> SUFFICES ASSUME ServerClose = "once" PROVE Spec => []EventHasPacket
  OBVIOUS
<1>1. IInv => EventHasPacket
  <2> SUFFICES ASSUME IInv, NEW c \in Conns \ stolen, ServerReadable(c)
               PROVE  /\ conn[c].events
                           + Cardinality({t \in {"server"} : pc[t] = "read" /\ my[t] = c})
                           <= Len(conn[c].rx)
                      /\ Freed \notin Range(conn[c].rx)
    BY DEF EventHasPacket
  <2> DEFINE R == {t \in {"server"} : pc[t] = "read" /\ my[t] = c}
  <2>1. Posted(c) \/ (my["server"] = c /\ pc["server"] \in {"ready", "read"})
    BY DEF ServerReadable, Posted, Range
  <2>2. conn[c].open
    BY <2>1, TaskNames DEF Posted, PostedOK, OwnedOK, Owning, IInv, Ownership
  <2>3. conn[c].events + Begun("server", "read", c) + Begun("router", "event", c)
          <= Len(conn[c].rx)
    BY <2>1, <2>2 DEF Served, EventsOK, IInv, Ownership
  <2>4. Cardinality(R) = Begun("server", "read", c)
    <3>1. Cardinality(R) = IF R = {} THEN 0 ELSE 1
      <4>1. \A x, y \in R : x = y
        OBVIOUS
      <4> HIDE DEF R
      <4> QED  BY <4>1, AtMostOne
    <3>2. R = {} <=> ~(pc["server"] = "read" /\ my["server"] = c)
      OBVIOUS
    <3> QED  BY <3>1, <3>2 DEF Begun
  <2>5. conn[c].events \in Nat /\ Len(conn[c].rx) \in Nat
    BY Numbers DEF IInv, Control
  <2>6. Begun("server", "read", c) \in 0 .. 1 /\ Begun("router", "event", c) \in 0 .. 1
    BY DEF Begun
  <2>7. Freed \notin Range(conn[c].rx)
    BY <2>1, <2>2 DEF Served, SoundOK, Sound, Range, IInv, Ownership
  <2> QED
    BY <2>3, <2>4, <2>5, <2>6, <2>7
<1>2. Spec => []IInv
  BY Invariance
<1> QED
  BY <1>1, <1>2, PTL
=============================================================================
