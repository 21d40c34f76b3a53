# A TLA+ model of csp-client and its libcsp

`csp-client` is a command-line client for small satellites that speak the
CubeSat Space Protocol. It is a thin program (`src/src/main.c`,
`src/src/task_server.c`) over a set of libraries; the one with the logic worth
verifying is the network stack `src/lib/libcsp`. This directory holds TLA+ models
of that stack as this repository builds it (POSIX, RDP, QoS and CRC32 compiled in,
deduplication off), TLC runs that check them and TLAPS proofs about them.

Contents: 1 inventory, 2 modules and how they relate to the code, 3 runs, bounds
and fairness, 4 proofs, 5 what the checks found in the code, 6 what is not
modelled, 7 plan.

## 1. Inventory

The tasks of a running client are: the **router** (`csp_route_task`), one or more
**interface tasks** (CAN, KISS/USART or ZMQ receivers), the **server** of
`task_server.c`, and **client tasks**: the shell and whatever it calls. They
share memory; the path of a packet is

    interface task -> csp_qfifo -> router -> connection rx queues -> user task
    user task -> csp_send -> [RDP tx_queue] -> csp_send_direct -> interface

| component | code (under `src/lib/libcsp/src`) | state | operations | what makes it hard | what makes it correct |
|---|---|---|---|---|---|
| POSIX queue | `arch/posix/pthread_queue.c`, `csp_queue.c` | ring, `in`, `out`, `items`, mutex, two conditions | create, enqueue, dequeue, items | broadcast after unlock, spurious wakeups, timeouts, wrap of the ring | it is a bounded FIFO; no wakeup is lost |
| packet buffers | `csp_buffer.c` | queue of free buffers, a count in each | init, get, clone, free | the count is read and written without a lock | never shared, never lost |
| router input | `csp_qfifo.c` | one fifo per priority, a queue of events | write, read | the event and its packet are two steps; the capacities differ | an event stands for a packet; the most urgent first; none stranded |
| connection pool | `csp_conn.c`, `transport/csp_udp.c` | array of connections, lock, last port | connect, accept, find, enqueue, read, close | structures are reused while others hold pointers to them; only part is locked | one owner; no leak; no foreign packets |
| reliable datagrams | `transport/csp_rdp.c` | per connection: state, sequence numbers, tx queue, reorder queue, semaphore | connect, send, receive, timers, close | loss, reordering, duplication, wrap at 2^16, flow control, half-open and half-closed connections | a reliable stream; nobody blocked for ever; every structure freed |
| router | `csp_route.c`, `csp_bridge.c`, `csp_promisc.c` | socket table, promiscuous queue | route or bridge one packet | a queue, the pool or the driver refuses at any point | each packet freed or given away once; seen once |
| socket API, services | `csp_io.c`, `csp_service_handler.c` | - | accept, read, send, transaction, answer | errors half-way; late replies | each buffer consumed once, none left behind |
| sample server | `src/src/task_server.c` | a connection handle | accept loop | closes inside its read loop | closes only what it accepted |
| fragmentation | `csp_sfp.c` | progress of one transfer | send, receive | gaps, doubled and late fragments, broken-off transfers | no hole; with RDP no mixture |
| CAN fragmentation | `interfaces/csp_if_can.c` | table of reassembly buffers | send, receive, cleanup | interleaved and lost frames | never a mixture; one packet's loss is its own; no buffer held for ever |
| KISS framing | `interfaces/csp_if_kiss.c` | receiver state, a lock | send, receive | lost bytes, frames written into each other | the second frame after a fault is received |
| routing table | `rtable/csp_rtable_cidr.c` | list of routes | set, find, load, save | lookups without a lock while a route is stored | longest prefix, old or new |
| file transfer | `src/lib/libftp` | chunk map | upload, download, resume | killed between data and map | the map never claims more than the file has |
| log store | `src/lib/liblog` | ring in persistent memory | append, read | restart between two writes | the newest entries are read back whole |
| parameters | `src/lib/libparam` | table, queue of changes | get, set, download | partial replies | table equals the server's |
| the rest | shell, wrappers, HMAC, XTEA, SHA-1, CRC32, LZO | - | - | - | pure functions or presentation |

`PROJECT.json` lists these as `components` with their status, and under `hazards`
each place where the code is hard to test, by line, with the property that
watches it or the reason why none does.

## 2. Modules

A comment before each definition names the function it stands for; `map` in
`PROJECT.json` gives its lines. Definitions introduced by "Mutant:" are not
part of a specification: each is a plausible slip in the definition that follows,
kept to show that the property it is paired with in `PROJECT.json` notices it.

### PthreadQueue (refines BoundedFifo)

The queue everything else is built from. A call goes through program counters
`lock`, `test`, `asleep`/`woken`/`expired`, `unlock`, `notify`; each access to
the mutex or to the data under it is one step, so that the broadcast *after* the
unlock (lines 113 and 153) is a step of its own and other tasks run before it. A
sleeping task may wake for no reason, and one with a finite timeout may give up at
any time. The deadline's arithmetic (line 91) is not modelled: any finite
wait may be the longest or the shortest. `forever` stands for a call with
`CSP_MAX_DELAY`, 49 days, whose expiry is ignored. `BoundedFifo` is the abstract
promise: put appends if there is room, take removes the head; the mapping
reads `fifo` off the ring (`Contents`) and `taken` off `got`.

### BufferPool

`free[b]` counts how often a buffer is in the queue `csp_buffers`, so that a
double free would be visible as 2. `csp_buffer_get` is `Dequeue`, `Count`;
`csp_buffer_free` is `Free` (the caller gives the buffer up), `Test`, `Reset`,
`Enqueue`. `HandOver` is any of the queues a buffer travels through. The model
assumes the discipline the API asks for: a task does not touch a buffer that it
freed or handed over. The defects of section 5 that break it are in other
components.

### QFifo

`csp_qfifo_write` is `Write` (store or drop) and `Signal` (its event);
`csp_qfifo_read` is `Wake` and one `Scan` for each fifo looked at. `urgent` and
`found` are history variables for `UrgentFirst`.

### ConnPool

Connections without RDP, with the router, the server and the clients as tasks;
each access to shared memory is a step. `csp_conn_lock` guards the search in
`csp_conn_allocate` and the body of `csp_close` and nothing else, as in the code. So
the router, which does not take it, may come between the two stores of
`csp_conn_allocate`, `state = CONN_OPEN` (`Allocate`) and `socket = NULL`
(`UnsetSocket`), and find the structure under its last identifier and with the socket of its
last use. `stolen` records the connections that it posts or closes on the strength of such a socket
(5, second list). `Freed` is what `rx_queue` keeps of a packet whose event did not fit and
that was freed (`Dangling`).
A wait for it is bounded by 100 ms and may fail (`AllocateTimeout`,
`CloseTimeout`). `sport_lock` only covers the search for a port, one step here. A
packet is told apart by its identifier: the ephemeral port it answers to, or the
peer that sent it. `abandoned` records the connections whose `csp_close` gave up.
`ServerClose = "twice"` is the loop of `task_server.c`, `"once"` a server that
closes each connection once.

### RdpSeq, ReliableStream, Rdp (refines ReliableStream)

`RdpSeq` is the 16-bit arithmetic; `SeqSpace` is 65536 in every run, and the
runs start three numbers or less before the wrap. `Rdp` models both ends of one
connection and the link between them. `ep[e]` is the connection structure of an
end (`rdp` the protocol state; `iss`, `nxt`, `una`, `irs`, `cur`, `lsa` the
sequence variables; `tx` the tx queue, `rx` the reordering queue, `app` the queue
read by the user; `sem` the semaphore `tx_wait`; `sock` whether a listening
socket still owns it); `user[e]` what its user task does. The handlers are
functions from a structure and a packet to a `Result`: the new structure, the
packets to send and the data accepted, one operator for each protocol state as
in the `switch` of `csp_rdp_new_packet`. `Copy` is a retransmission. Each call
of the API or of the router is one step; the interleaving inside a call is in
ConnPool and QFifo, and so is the timeout of `csp_close` on `conn_lock` (`NoOrphan` and
`EventuallyFreed` take it to get the lock). `GivenUp` is the end of a failed `csp_rdp_connect`: it
stores `CLOSE_WAIT`, and the `csp_close` after it does nothing on a structure that the router has
closed already, so that a free structure may be in `CLOSE_WAIT` (5). The server's end may be given such a structure, left by
another task of its node, and then ignores the SYN (`Accepted`). A timer that is armed may have expired or not. `Outcomes`
says whether handing a packet to the interface may fail. Buffers never run out here.
NULL packets and data share one receive queue, the one of lowest priority.
`ReliableStream` says that the messages received are always a prefix of those
sent, growing by one or more at a time, and start from nothing in a new connection.

### Router

A packet buffer on its way through the stack. `rtrAt` says which packets are at
which place: the queues (`input` is the input fifos in one, `promisc`, `sock` a
connection-less socket, `conn` the client's connection, `server` a connection of
the service task), the hands of the router task (`router`, and `found` with a connection it looked
up), and the free buffers. `rtrOpen` says which of the two connections are open: each is
opened, closed and opened again, and its queue is emptied on both occasions. A call is one
step, except that the router finds a connection (`RtrFind`) and enqueues in it (`RtrEnqueue`) in
two, with a close or a close and a new connection in between; a packet enqueued in a closed
connection is marked `late`. The other calls are one because what interleaves inside the queues and the pool has modules of its
own; what a call does on each of its failures is the subject here. `PutOrFree` is
every place where the code enqueues and frees on failure; `SendOrFree` is
`csp_send_direct` with its caller, who keeps the packet unless the call took it:
no route, refused by encryption, by the MTU or by the driver is one disjunct, taken the
other. `rtrMode` says whether `csp_route_work` or the bridge task reads the input.
Whether options and security checks accept a packet is a field of it (`good`). `seen`
counts its promiscuous copies.

### Kiss

`csp_kiss_tx` as the steps call, lock, one byte each (`start`, `type`, `body`),
unlock; the wait for the lock may time out and the task goes on, as the code does.
`csp_kiss_rx` is a function of receiver and byte, `KissByte`, one operator for each
mode. Each byte is received as it is written, or lost, or another one arrives, or there is no
buffer (`KissFault`). The bytes are the ones the code tells apart, the one that a fault makes, and those that mean
nothing to it (`KissPlain`).
The checksum is ideal: it accepts exactly the packets that were sent. A packet's length
counts header, data and checksum, as `rx_length` does, and is bounded as `csp_send_direct` bounds it
(`KissAssumption`). `KissOnce` is about packets that cannot be made from each other by the
faults there are: two frames written into each other can make any third.

### CanFragments

Tasks of one node cut packets into frames (`CanFrame`, with the arithmetic of
`remain`); the bus and the driver's queue are `canQueue`, of bounded length, into
which the frames of the tasks mix. `csp_can_process_frame` is `CanMore`, `CanBegin`,
`CanNoBuffer` or `CanDrop`, according to type and whether `csp_can_pbuf_find` finds
an element. Time is `CanAge`: ten seconds pass for all elements in use. `canHurt` is the
history of the packets that met a fault of their own.

### Sfp

One sender, one receiver that calls `csp_sfp_recv` again and again, and a
connection that keeps the order (RDP) or does not; `sfpOrdered` is either. All transfers have one MTU and one
total size, as two programs that agree on both. `data` holds
for each byte the number of the transfer it came from, so that holes and mixtures are visible.

### RouteTable

The list, `csp_rtable_set` field by field in the server task, and readers that look at one entry per step.
`could` collects what a lookup may answer: the right answer to the routes told before it, that
of each call that overlaps it, and a route told meanwhile for a net that was such an answer. A load
is calls of `csp_rtable_set` one after another and may overlap lookups too; only `RtClear` runs alone, as the
initialisation that calls it does. `Stored`, `Loaded` and `Saved` are the same
functions on a list nobody else uses.

`RtRoundTrip` says that saving, clearing and loading gives the same list, entry by entry, if the
length that `csp_rtable_save` returns is less than that of the buffer. The text between is modelled by what
`sscanf` finds in it: a token has a number of words, an address, a netmask, a name and a MAC address, as far as
there are words. `SavedToken` is what is left of an entry when `snprintf` has only so much room for
it (`RtMaxlen`): the MAC address loses its last digits or is gone, which reads as another
address or as none; a name that was cut is no interface's (no name in the code begins another); with less there are not
three words. `len` goes on counting what was not written, so the entries after it find no room. Loading looks each
name up (`ByName`), takes `CSP_NODE_MAC` where the MAC address is missing, and stops at the first
token it cannot read or whose name it does not know. `RtNamesDiffer` is what the
conversion needs and `csp_iflist_add` does not look at: names that differ in the ten characters
`strncmp` compares, without blank and comma. Memory for the entries of the new list is taken to be there.

### LogStore

The ring in memory that survives, written cell by cell; `lgStored` is the
pointer in it and `lgInput` the copy in RAM, which a restart forgets.
`Foreach` is what `log_store_foreach` would deliver now, round by round (`Round`). The history
`lgLog` counts positions in the ring on and on, and `CellOf` is the cell of one. A cell of data may look
like any length. An entry of size 0, which would end `log_store_foreach` (line 102), is left out: the
only caller (`log.c:275`) always stores a header. `LgReadsBack` asks for all of them (`byte`). Storing the pointer is one step.

### Ftp

`ftpCmd.at` is the function that `cmd_ftp.c` is in; data file and map survive a
kill, which may come between any two steps. The history `ftpMade` is the chunk size the map was made
with, as long as file and map are from the same transfer. `Ranges` is the loop of `ftp_status_reply` in closed form,
which TLC has compared with the loop for all maps of up to eight chunks. The file has `FtpUnits` units and the
user chooses the chunk size again for each command. The server is external. The
number that ends the loop is read from a freed packet (584), so `FtpMark` goes on or ends at
will. Power loss, which could lose what was not synced, is not modelled.

`MCPthreadQueue`, `MCBufferPool`, `MCQFifo`, `MCConnPool` and `MCRdp` are the
instances for TLC. `MCRdp` also defines the state right after the handshake, from
which the liveness run starts. `MCLinks` instantiates Kiss, CanFragments, Sfp and Router
and `MCStores` RouteTable, LogStore and Ftp. These components share no state, so
a product would only multiply; a behaviour of the run is one of a single
component, chosen by `link` or `store` in the initial state, and the state space is
the sum of theirs.

## 3. Runs

| run | what it checks | size | result |
|---|---|---|---|
| `queue` | `TypeOK`, `HolderOK`, `NoLostWakeup`, `ImplementsFifo` | 3 tasks, 2 values, length 2 | holds |
| `buffers` | `TypeOK`, `Exclusive`, `NoneLost`, `CountTells` | 3 tasks, 3 buffers | holds |
| `qfifo` | `TypeOK`, `NeverSpurious`, `UrgentFirst` | 3 writers, 4 priorities, fifos and events of 2 | holds |
| `qfifo_stranded` | `NoneStranded` | the same with 2 priorities | violated: 5.1 |
| `pool` | `TypeOK`, `OneOwner`, `NoLeak`, `EventHasPacket` | 2 connections, 1 client, router, server, 2 peers, queues of 2, lock may time out; `AfterTheft` | holds |
| `pool_sample` | `ServerClosesItsOwn` | 1 client, the server of the repository | violated: 5.2 |
| `rdp_transfer` | `TypeOK`, `NothingForgotten`, `AckIsHonest`, `BufferedAhead`, `ImplementsStream` | handshake and 2 messages, 2 packets in flight each way, loss, reordering, duplication | holds |
| `rdp_live` | `WithinWindow`, `EventuallyReceived`, `EventuallyUnblocked` | 3 messages, window 1, from after the handshake | holds |
| `rdp_close` | `NoOrphan`, `EventuallyFreed` | up to 2 attempts at each end, 1 message, timeouts, closes and failing interface, loss and duplication | holds |
| `rdp_overrun` | `CurIsReceived` | 4 messages into a receive queue of 3 | violated: 5.3 |
| `links` | `LinksTypeOK` (the four type invariants) and, of | | holds |
| | Kiss: `KissRecovers`, `KissOnce` | 2 tasks, 3 packets, 2 faults | |
| | CanFragments: `CanDelivers`, `CanDrains` | 2 tasks, packets of 2, 1 and 2 frames, 2 elements, queue of 3, 2 faults | |
| | Sfp: `SfpWhole`, `SfpOneTransfer` | 2 transfers of 5 bytes in fragments of 2, 2 results | |
| | Router: `RtrOnePlace`, `RtrSeenOnce`, `RtrDrains` | 3 buffers, queues of 1, connections of a client and of a server, 2 arrivals of 8 kinds, 2 transactions | |
| `stores` | `StoresTypeOK` (the three type invariants) and, of | | holds |
| | RouteTable: `RtLongest`, `RtRoundTrip` | addresses of 2 bits, 5 texts, 1 reader, list of 4, buffer of 44 characters | |
| | LogStore: `LgReadsBack` | ring of 9 cells, entries of 1 to 3, 6 calls, 2 restarts | |
| | Ftp: `FtpResumes` | file of 5 units, chunks of 1, 3 or 4, 2 ranges, 4 commands | |

**Why the bounds are enough.** *queue*: two waiters on one condition and one task
on the other side is the least that can lose a wakeup or let two tasks take
one slot; length 2 is the least in which the indices differ before they wrap.
The proofs of section 4 remove the bounds. *buffers*: two tasks at a buffer and
one with another; also proved for any size. *qfifo*: events and fifos of length 2
fill up, four priorities as in the code. *pool*: two
structures for three that want one (the client and two peers), so that the pool
runs out; a backlog of one, so that a second peer finds it full and the router
has to close; receive queues of two, so that one can be partly stale. The constraint `AfterTheft` cuts behaviours
short only past a theft: from there on the run follows those without a lock timeout, with one stolen connection and
few packets. Up to the first theft, and for what a theft does to the
*other* connections, nothing else is bounded; the proofs need no constraint. *rdp*: with a window of 1 the reordering queue (2 * window
numbers) holds a segment and the sender blocks; the code's default of 6 and its
maximum of 20 differ in size, not in the tests made. `4 * Window + 2 < SeqSpace`
(`WindowAssumption`) is what the comparisons need, and 20 is far below it.
`RxCap` keeps the relation of the code, greater than `2 * Window`
(`csp_rdp_check_ack` never acknowledges otherwise). Only one packet or two are in
flight per direction; a packet stays in flight for any length of time and a
retransmission replaces one lost, so old packets do meet new connections, which is
what the two attempts (`Iss`) are for. `MaxSend` and `Iss` are the bounds that
make the state space finite; a run that stops there is not a deadlock, hence
`CHECK_DEADLOCK FALSE` there. *links* and *stores* stop at their bounds too, with
`CHECK_DEADLOCK FALSE` for the same reason. *Kiss*: three packets are one that is disturbed, one
that pays for it and one that must be received; the packets are as long as the MTU and
contain each byte that is escaped. *CanFragments*: two senders interleave, two
elements are fewer than the packets that may be begun, the identifiers wrap
(`CanFirstId` is one before the end of the space) but do not come round to a packet
still in the table: with the 1024 of the code that takes 1024 packets in ten seconds from
one node, and then frames of two packets would fall together. *Sfp*: a last
fragment of one byte, and a transfer that is broken off followed by another. *Router*: fewer buffers
than places, queues that are full with one. *RouteTable*: nets of all lengths that contain each other; one
reader is enough since readers do not change anything; a text that ends in the middle, at an unknown interface or a
missing word; with 44 characters some of the tables fit into the buffer and others
do not, so that the condition of `RtRoundTrip` decides (it fails if the condition is dropped or is off by three
characters). *LogStore*: the
ring is written round more than once; entries that fill it to the last cell occur. *Ftp*: a
last chunk that is shorter, two chunk sizes that make as many chunks, and enough commands to break off,
change the chunk size and resume.

**Fairness.** Safety runs assume none. `Fairness` (run `rdp_live`): the server task
accepts and reads, a sender whose semaphore is posted runs (weak fairness: the
scheduler runs every task that can run); the router, which calls
`csp_rdp_check_timeouts` whenever it was idle for 100 ms (`csp_route_work`),
repeats each message and each pending ACK again and again, and the link carries a
message that is offered again and again (strong fairness for each message and
for the packets without one: retransmission is of no use on a link that never
carries them). Weak fairness is not enough for these, because a full link
disables them from time to time. `rdp_live` excludes connection timeouts and
closes: its promises are about a connection that stays up. `CloseSpec` (run
`rdp_close`) assumes only that the router keeps looking at the timers. `links`
has weak fairness for the CAN receiver task and for time, none for the senders: a
sender that stops in the middle of a packet is what `CanDrains` is about. For
the router it has weak fairness for each task that loops (router, service task, reader of a
connection-less socket, reader of promiscuous packets) and for `RtrClose` of each
connection: the client returns from its transaction, whose waits all have timeouts, and the server closes when no more
requests come; none for arrivals and new
transactions.

## 4. Proofs

TLAPS proves the following for every value of the constants.

`PthreadQueueProofs`, from `Size \in Nat \ {0}` and `Nobody \notin Threads`:

* `Invariance`: the inductive invariant `IInv` = `TypeOK`, the arguments of a call
  are in scope while it runs (`CallOK`), the mutex holder is exactly the task at
  `test` or `unlock` (`HolderOK`), and `in = (out + items) % Size` (`IndexOK`).
  `TypeOK` alone is not inductive: that the copy goes to a free slot needs the
  holder's test still to be true, which needs mutual exclusion, and that `in`
  names that slot needs `IndexOK`.
* `TypeCorrect`, `MutualExclusion`: the corresponding parts of it.
* `NoWakeupLost`: `NoLostWakeup`, inductive relative to `IInv`.
* `Refinement`: `Spec => ImplementsFifo`. Every step but `CopyIn` and `CopyOut`
  leaves `Contents` and `got` alone; `CopyIn` appends to `Contents` and `CopyOut`
  takes its head, by the lemmas on `% Size` (`ModOnce`, `Wrap`).

`BufferPoolProofs`, from `NoBuffer \notin Buffers`:

* `Invariance`: `IInv` = `TypeOK`, a task inside a call works on a buffer
  (`BusyOK`), `Exclusive`, `CountTells` and `NoneLost`. They hold each other up:
  that a free loses no buffer needs the count to be one, and that the count is
  one needs the buffer to have a single user.
* `TypeCorrect`, `NeverShared`, `NeverLost`, `CountCorrect`: its parts.

`QFifoProofs`, from positive capacities and number of
priorities:

* `Invariance`: `IInv` = `TypeOK`, `UrgentFirst` and `Ahead`: while the router
  scans, the most urgent packet there was when it woke is still ahead of the scan.
  `UrgentFirst` alone says nothing of a scan that has not found a packet yet. That
  there is a most urgent packet is the lemma `MostUrgentExists`, from the
  well-foundedness of `<`.
* `TypeCorrect`, `NeverPassedOver`: its parts.
* `NeverWokenInVain`: `NeverSpurious`. The balance of its inductive invariant
  (`Backed`) also counts the writers between their packet and its event: packets ≥
  signals to come + events + the scan under way. That writers lose events when that queue is full
  only widens it.

`ConnPoolProofs`, from `PoolAssumption` (positive sizes, at least two ports, a task
is not called `Nobody` and a client neither router nor server):

* `TypeCorrect`, from the inductive `Control` = types, the position of each task
  (`MyOK`, `PcOK`) and that whoever empties a connection holds `conn_lock` and has
  closed it (`LockOK`). It holds for the repository's server too.
* `Invariance`: if the server closes each connection once (`ServerClose = "once"`;
  5.2 is what happens otherwise), `IInv` = `Control` and `Ownership`: an
  owner's connection is open and not in the backlog (`OwnedOK`), has no other owner
  (`OneTask`), the backlog holds open ones, each once (`PostedOK`), an open connection whose
  socket is still set, unless it is between the two stores of `csp_conn_allocate`, is no client's, and the server's
  only while the router is about to clear the socket (`SockOK`), and is the router's or was given up (`LiveOK`), the
  first packet of a new one fits (`NewEmpty`), every open one has an owner,
  is posted or was given up (`Kept`), there are as many packets as events
  (`EventsOK`), and none of them was freed (`SoundOK`). All but `LiveOK`, `NewEmpty` and `Kept`
  except stolen connections; that these three hold for stolen ones too is why nothing leaks and why the harm does
  not spread. They need each other: `EnqueuePacket` may return early without
  closing the connection, which leaks nothing only by `NewEmpty`; the router finds
  connections without the lock, and what it finds with its socket set is no
  other task's only by `SockOK` and `Kept`.
* `SingleOwner`, `NeverLeaked`, `NoEmptyRead`: `OneOwner` and `EventHasPacket`, which except stolen
  connections, and `NoLeak`, which does not, from it, by counting sets of at most one element
  (`AtMostOne`, `OwnersCount`).

`LinkProofs` has the four components of `MCLinks`. Sfp, from a size of at least one byte
and an MTU of at least two:

* `SfpInvariance`: `WholeInv` = `SfpTypeOK`, `SfpWhole`, fragments start at
  multiples of the MTU and end at the next one or at the size (`FragmentsOK`), the
  sender is at such a boundary (`SenderOK`), so is `last_byte`, and every byte before it
  is written (`ReceiverOK`). This is the argument why
  the inexact test of `csp_sfp.c:129`, which lets a gap of one byte pass, is
  harmless: two multiples of a number above one are never one apart (`NoGapOfOne`, from
  `NextMultiple`). `SfpWhole` alone says nothing of the call that is running.
* `SfpTypeCorrect`, `SfpNoHole`: its parts.
* `SfpInOrder`: `SfpOneTransfer`, with `OrderInv`: on an ordered connection the
  fragments on their way are in the order of their transfers and offsets without
  gaps inside a transfer unless it was broken off, they continue what the receiver has, and what was
  returned is older than both.

CanFragments, for any number of tasks, packets, lengths, elements and faults and any
space of identification numbers; `CanAssumption` only types the constants. `Frames`
and `From` are the arithmetic of the format (a first frame of two bytes, then eight each), and
`FrameNumbers` shows that the `remain` and the lengths of `csp_can_tx` agree with it for every
length and frame. The invariant `CanInv` is a conjunction of four:

* `Sound`: a frame, a task and an element each say truly how far their packet is;
* `Ordered`: the frames of a packet that its element has, those in the queue and those to come
  follow each other, and a packet has one element, one task and one result;
* `Named`: a number in use stands for one packet;
* `Accounted`: without a fault of the packet no frame between them is missing.

`ContinueIs` is the heart: a frame passes the test of `csp_can_process_frame` only if it is
the next of its packet, because `remain` counts down. `FewerInv` covers all the steps that only
take something away, and `FoundIs` shows that the search by number finds the packet's own element. `Named`
is kept only if the number given next is not still in use (`IdFree`). The
code does not check that; it relies on 1024 numbers and ten seconds. The theorems
`CanInvariance`, `CanNoMixture` (`CanDelivers`) and `CanTypeCorrect` (`CanTypeOK`) are about the
behaviours in which it holds, and `CanFirstPackets` needs no such condition: as
long as there were no more packets than numbers, as in the run *links*, none can be given
twice (`NumbersFree`).

Kiss, for any number of tasks and faults and any packets, with every byte that is escaped, from
`KissAssumption`:

* `KissInvariance`: `KissInv`. `KissRecovers` alone says nothing of the frame that is being written. Around
  it are `Undisturbed`: in a clean frame the receiver is where the last FEND makes it ready (`Tame`),
  and if it was ready at the first, what it has and what the task has left make the packet
  (`Decoding`, `Makes`); `Between`: after a clean frame it is ready (`RxReady`); `Exclusive`: without
  faults, a timeout being one, the lock works and every frame is clean. One lemma for each kind of
  byte (`FrameStarts`, `TypeByte`, `PlainByte`, `EscapeByte`, `LastByte`) carries
  `Tame` and `Decoding` on, put together in `CleanStep`. The byte after the first FEND
  must not be taken for data, and must not be missing when the receiver skipped a frame: that is why one
  clean frame is not enough and two are.
* `FramesRecover`, `KissTypeCorrect`: `KissRecovers` and `KissTypeOK`. That a packet fits the
  receiver is a condition of `KissRecovers`, not a consequence: see section 5.
* `ReceivedOnce`: `KissOnce`, whatever the faults, timeouts and mixed frames, for packets that each have a
  byte of their own (`Marked`), as those of the run have. Without such a condition it is false: two frames written into
  each other can spell a third. `MarksOnce` follows that byte: it is at one place at
  most, in what one task has still to write, in what the receiver has of a frame, or in what went up (`OnePlaceOf`), and
  nowhere before its packet was sent. The framing never makes it, a byte written is no longer to be written
  (`RestMarks`), and a frame that goes up takes it along (`ByteMarks`). `UpIsSent`: only packets sent go up.

Router, from `RtrAssumption` (a finite pool; packets that
interfaces receive come from other nodes, without which a forwarded packet of the node's own
would be seen twice):

* `RtrInvariance`: `RtrInv`. `Holds(at, S)` says that the places hold the buffers in `S`, each in one
  spot, and at each place only what fits there (`Fits`: how often promiscuous mode has seen it,
  and that a packet of the node's own that waits for the router goes to the node itself).
  Every call is made of two operations with a lemma each: take the first element of a place
  (`TakeHead`, `S` loses its buffer), add one that is nowhere (`AddLast`, `S` gains it). `FreedHolds`,
  `PutHolds`, `PromiscHolds` and `SendHolds` follow for the helpers, and each
  action is one of those with `S` back at the whole pool. `csp_close` alone moves many buffers
  at once.
* `OnePlace`, `SeenOnlyOnce`, `RtrTypeCorrect`: `RtrOnePlace`, `RtrSeenOnce` and `RtrTypeOK` from it.
* `OneLeftBehind`: how much `RtrDrains` excepts. A closed connection keeps at most one packet, one that was late, by
  the invariant `Left`: the queue of a closed connection and the router's hand `found` hold one packet
  together.

`LinksTypeCorrect` is `LinksTypeOK` for the specification of the run `links`, from the four invariants and under
`[]IdFree`; `LinksTypeFirstPackets` needs no such condition where there are no more packets than numbers, as in
the run.

`RdpProofs`, from `LoadAssumption` and `NullAssumption` (which only give the constants
their types), `WindowAssumption` and `CapAssumption`; nothing is assumed of the network,
the timers, the users or the number of connections. Its first half states what each
handler of `csp_rdp.c` returns, one lemma for each operator (`CheckAckIs`, `InOpenIs`,
`FlushRxIs`, ...), down to `NewPacketIs`: `csp_rdp_new_packet` has one of ten
outcomes, named for what the connection does. All later proofs split on these and never look
inside a handler again. The 16-bit arithmetic is `WrapPlus`, `WrapMinus`,
`WrapInjective`, `BetweenOffsets` and `BeforeOffsets`: on offsets from one number less
than half a turn apart `SeqBetween` and `SeqBefore` are the usual order.

* `Inductive`: the invariant `AInv` = `Types` and, for each end (`EndOK`),
  who owns a live connection (`Owned`), the bounds of queues and counters
  (`Bounds`) and the order of the rx_queue (`Ahead`). `NoOrphan` is not inductive: a
  connection is not orphaned by the server's `csp_accept` only because what is in the backlog
  is still allocated, and not by the client only because a client that waits has one.
* `TypeCorrect`, `NeverOrphaned`, `AlwaysAhead`: `TypeOK`, `NoOrphan` and
  `BufferedAhead` from it. `BufferedAhead` needs that the flush takes *every*
  segment that follows the one just delivered, or the next one would be left at
  `rcv_cur + 1` (`FlushedAhead`).

`RdpStreamProofs` has the further hypothesis `Single`: one
connection between the two ends, and so few messages that within it no
number is used twice (`2 * MaxSend + 4 * Window + 4 <= SeqSpace`; beyond that a
very old packet cannot be told from a new one). Numbers of an earlier connection
are left to `rdp_close`. They also assume `[]ReaderKeepsUp`: the user's queue can
take what may be in flight, either because it holds as many as the peer sends at
all or because two windows of it are free. The code does not ensure that, and
without it the promise is broken: that is 5.3. Where `MaxSend <= RxCap`, as in
`rdp_transfer`, it holds by itself.

* `StreamInductive`: `SInv` says of each sequence number which message it stands for:
  message `k` of end `e` is `N(e, k)`, and this holds in the sender's tx_queue
  (`Sender`), in every packet on its way (`Carried`), in the rx_queue and in `rcv_cur`
  (`InStep`); the messages received are `1 .. Len(rcvd)` (`Receiver`).
* `StreamRefinement`: `ImplementsStream`. Every step leaves `sent` and `rcvd`
  alone, appends the next message to `sent`, or appends to `rcvd` the messages after
  the last; the last is `ReceivedStream`, for a run of any length taken by the flush.
* `FlowInductive`: `FInv` goes the other way round. For each end, every
  acknowledgement on its way back names a message the receiver has, delivered or (in an
  EACK) in its rx_queue (`Answer`); `snd_una` follows such a message (`Una`); what
  was sent is in the tx_queue or received, and within the window (`Held`). Two
  things had to be found for it to be inductive. The client's first ACK, sent while it is still
  closed, acknowledges 0, a number of nobody (`Early`); the server takes it for an
  acknowledgement when 0 happens to be in range, and `snd_una` becomes 1, which may
  be *before* the connection's first number (second case of `Una`) but never after. And a
  connection that is only beginning must have nothing in flight from before (`Fresh`, `Unbegun`).
* `NeverForgotten`, `HonestAck`, `InWindowAlways`: `NothingForgotten`, `AckIsHonest` and
  `WithinWindow` from it, the last by the test of `csp_rdp_send` (`WindowOpen`).
* `CurIsCount`: `CurIsReceived`, which fails in `rdp_overrun`, holds while the
  reader keeps up: nothing but the full queue is to blame.
* `FittingStream`, `FittingFlow`: all of these without `[]ReaderKeepsUp`, where the user's queue holds as many
  messages as the peer sends over the connection (`AllFits`).

`StoreProofs` has the three components of `MCStores`. RouteTable, from `RtAssumption`, for any addresses,
texts, interfaces and number of readers:

* `RouteInvariance`: `RtInv`. `Table` says what the list is while it changes: the entries but the one being stored are what the
  table was told, one for each net (`OneEach`, `TellsWhatIsTold`), of the other one is known which fields it has
  already (`Stores`) and, if it is not new, which route it replaces (`OldOrUnset`). `Look` says
  of each walk that it has the best of the entries behind it (`SoFar`), that what it has is
  made of routes of `could` (`Finds`), and that `could` has an answer for each moment so far (`CouldHas`).
* `LookupsFindLongest`: `RtLongest`. The list only grows and netmasks never change, so
  the best of all entries passed is a longest match of *some* moment (`BestIsRight`, `NothingIsRight`). The proof
  showed what an earlier form of the property, and TLC on small tables, had missed: a lookup may come back with
  interface and address of a route that was told while it ran, for a net that by then was no longer
  the longest, an answer that was right at no single moment. `Renewed` admits just that.
* `TableSurvives`: `RtRoundTrip`, with `OwnHead`: the own address is always at the head, where
  `csp_rtable_clear` puts it. It needs `RtNamesDiffer`. In a buffer with room each entry fits (`LengthsAddUp`, `EntriesFit`, from
  where its words end, `WordsEnd`), an entry that fits is read as it was (`TokenIsEntry`, `SavedIsRead`), and
  loading such tokens makes the first `n` entries of the list after `n` routes
  (`StoredNext`, `LoadedIsList`).

LogStore, from `LgAssumption` (the longest entry fits into the ring with its two lengths), for
a ring of any size and any number of entries and restarts:

* `LogReadsBack`: `LgReadsBack`, from the inductive `LgInv` = types and where the two
  pointers are (`LgTypes`), the entries follow each other (`InRow`), a cell of an entry is its own, or was taken by a
  later one, and that only if the ring came round to it (`OwnCells`), and what the
  `log_store` under way has written (`WrittenCells`). The arithmetic of the ring is
  `SameCell`, `CellPlus` and `RoundApart`. `GivesKept` follows the loop: after `j` rounds it has given the `j`
  newest entries, as long as they are intact. `StopsThere` is why it then gives nothing else: in front of the
  first entry the ring is blank, and an entry that was partly overwritten still has its second
  length, which takes `count` past the turnaround. A restart in the middle of
  `log_store` breaks the second half only: its stray cells can look like an entry.

Ftp, from `FtpAssumption`, for a file of any length and any chunk sizes:

* `FtpInvariance`: `FtpInv` = `FtpTypes`, `FtpFiles` (which files there are in which step), and, if file and
  map are from one transfer: map and chunk size fit (`Suits`), the chunks marked are the first ones and the
  server sends those after them in order (`InTurn`), and what is marked is in the file (`MarksAreTrue`). `InTurn` is the point:
  `count` of `ftp_status_reply` is never reset, which is harmless only because the missing chunks are always
  the last ones (`RangesAfterPrefix`).
* `DownloadsResume`: `FtpResumes`.

`StoresTypeCorrect` is `StoresTypeOK` for the specification of the run, from the three invariants.

A recursive function over numbers, as `Loaded` and `Foreach` are, can be reasoned about by induction on a
*set* of numbers: `AllNumbers`, from the well-foundedness of `<`.

`AInv`, `SInv`, `FInv`, `CanInv`, `RtrInv`, `KissInv`, `MarksOnce`, `RtInv`, `LgInv` and `FtpInv` were checked by TLC
before they were proved: `RtrInv`, `KissInv`, `MarksOnce`, `RtInv` and `FtpInv` on the instances of `MCLinks` and `MCStores`, `LgInv` with rings of five and
nine cells, the first three on instances with windows of 1 and 2 and numbers that wrap, `CanInv` with three tasks,
four packets and numbers that come round.

Every invariant that a passing run checks is the subject of a theorem, under the hypotheses named here. Only model-checked: all liveness. Liveness under fairness and `ENABLED`, and recursive operators,
are beyond the provers used here.

## 5. What the checks found in the code

Each of the first three is a `finding` of `PROJECT.json`; the run produces the trace.

1. **A packet stranded in the router's input** (`csp_qfifo.c:120`). The event
   queue is as long as *one* fifo, and `csp_qfifo_write` ignores that it is full.
   After a burst over several priorities there are more packets than events, and
   the router waits "for packet in any queue" with packets there, until the next
   one arrives.
2. **The sample server closes a connection twice** (`task_server.c:41`). It closes
   inside the read loop, reads on from the closed handle, and closes again; in
   between, the structure may have become a client's.
3. **A segment acknowledged but dropped** (`csp_rdp.c:322`).
   `csp_rdp_rx_queue_flush` counts a buffered segment as received although the
   user's queue was full. ACKs are withheld while that queue is nearly full, but the
   peer may send a window and one beyond the last ACK, and the queue needs space
   for the out-of-order ones too.

The models contain more of the same kind, which no run keeps:

* **A packet of an old connection in a new one** (`csp_conn.c:242`, which says that
  "nobody else has a reference to this connection yet"). The router looks a
  connection up, its owner closes it, another task allocates the same structure and
  empties its queue, and then the router enqueues. If nobody allocates it, the buffer stays in the queue of
  the closed structure (`csp_conn.c:100` after 285) until somebody does: this is what `RtrDrains`
  excepts, and `OneLeftBehind` bounds.
* **A client's connection accepted by the server** (`csp_conn.c:226`). A connection that the full backlog had no room for is
  closed with its socket still set (`csp_udp.c:36-39`). The next `csp_conn_allocate` stores `CONN_OPEN` before it clears
  the socket; a packet of the old connection that comes in between is enqueued there, and `csp_udp_new_packet` posts
  the structure to the server, or closes it. Server and client then both use it, against the
  same comment. While the client empties the queues the server can be left with an event without its packet, and
  an event that does not fit makes `csp_udp_new_packet` free a packet that `rx_queue` still points to
  (`csp_conn.c:107`), which is freed again by whoever empties that queue. `OneOwner` and `EventHasPacket`
  say that this is the only way, and that no other connection suffers.
* **A free connection in CLOSE_WAIT** (`csp_rdp.c:930`). A second RST closes the client's structure
  (605-608) while `csp_rdp_connect` waits; it then stores `CLOSE_WAIT`, and `csp_close` returns early because the
  structure is closed (`csp_conn.c:263`). If the structure is next given to a connection of the server, the SYN meets `CLOSE_WAIT` and is
  ignored (826), and so are those after it until the connection's timer frees the structure. `EventuallyFreed` covers
  these connections.
* **The router frees a connection whose handle is in use** (`csp_rdp.c:516`). The
  user gets a NULL packet and should close, but the half-closed timer (or a RST,
  line 605) frees the structure first; the handle then means whatever is
  allocated next.

* **A KISS packet that fills the MTU never arrives** (`csp_if_kiss.c:104`).
  `doc/mtu.rst:9` says of a KISS link that the MTU is "the total amount of data that you can put
  into the CSP-packet", and `csp_send_direct` (`csp_io.c:327`) compares the data with it.
  The receiver gives a packet up when `rx_length`, which also counts four bytes of
  header and four of checksum, exceeds it: the longest eight lengths are sent and always
  lost. It showed in the proof of `KissRecovers`, which does not go through without
  `Len(packet) <= KissMtu`.

Met while reading for the models, and left out of them or excepted where the
module's comments say so:

* `csp_rdp_new_packet` sets `snd_una` from the ACK number of any packet in range
  (line 777), also of an old one, so it can go back, against the comment of
  `csp_conn.h:60`. `NothingForgotten` and `AckIsHonest` hold all the same: what was
  forgotten stays forgotten, and the next ACK moves it forward again.
* `csp_sfp_recv_fp` does not free a packet without the fragment flag
  (`csp_sfp.c:117`).
* A route is linked into the table before its fields are set
  (`csp_rtable_cidr.c:194`): a lookup at that moment uses what `malloc` left.
* `csp_rtable_save` passes `maxlen - len` to `snprintf` also when `len` has gone past `maxlen`
  (`csp_rtable_cidr.c:151`): the difference is negative, hence a very large size, and entries after the
  one that did not fit are written behind the buffer. The model has what is in the buffer.
* `log_store` has no lock; two tasks that log at the same time mix their entries.
* An FTP download that is killed while it creates its map leaves an empty one,
  and every later attempt fails at `ftp_client.c:469` until the user removes it. One killed after
  its last chunk waits for data that nobody will send. `count` of
  `ftp_status_reply` is never reset (line 479), so that ranges after the first are too long;
  chunks that arrive in order leave one range only. `ftp_data`
  goes on with the connection it closed at 638, and `ftp_done` closes it again.

## 6. Not modelled

Contents and sizes of packets, checksums, encryption and logging; the arithmetic
of deadlines (`pthread_queue.c:91`: one comparison, and a wait that ends early is in
the model); statistics counters. In Rdp, allocation failures (`csp_rdp.c:181`
loses a buffer) and the interleaving of the router with a user task *inside* one
call (`csp_rdp.c:532`). In ConnPool, RDP connections, hence
`csp_conn_check_timeouts`. In Router, a task list that takes more than one packet, and
turning promiscuous mode on and off. In LogStore, several writers. In Ftp, power loss, listing, moving and removing.

The components marked `not_modelled` in `PROJECT.json`, each with its reason. In
short: the other ports are not compiled, the cryptographic functions, checksums and
conversions are pure functions on bytes, the parameter client, the flight
planner and the clients of the subsystems fill in a structure, call
`csp_transaction` (which Router models) and print the reply, the shell edits lines. More
than half of the lines of the repository are of these kinds or are vendored (LZO,
uthash): they have no states a model checker could help with, and modelling them would be a
transliteration.

## 7. Plan

Done, the most shared component first: PthreadQueue with its refinement and
proofs, BufferPool, QFifo and ConnPool with proofs, Rdp; then Router, Sfp with
proofs, CanFragments, Kiss, RouteTable, LogStore and Ftp; then the proofs about Rdp, CanFragments,
Router, Kiss, RouteTable, LogStore and Ftp.

What could follow: Rdp with the calls of the user and `csp_rdp_check_timeouts`
split where they touch the same queue, and with buffers that run out; several
writers in LogStore; the proofs about Rdp for several connections, where an old
number must not reach a new one.
