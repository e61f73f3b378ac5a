# A TLA+ verification of the Service Registration Center

The repository (`dwt_src`) is a service registry: clients create nodes in a tree
over TCP and keep the session that owns their session nodes alive with UDP
heartbeats; a session that misses enough of them in a row is ended and its nodes
are deleted. This directory holds TLA+ models of it, TLC configurations that check
them on small instances, and TLAPS proofs of their invariants for all instances.

`PROJECT.json` maps each definition to the lines it stands for, and lists the runs,
the mutants (a plausible bug for each property, which its run must find), the hazards
of the code and the theorems.

## 1. The system

### Components

| Component | Code | State | Operations |
|---|---|---|---|
| Node service | `Services`, `DNode` | tree of `shared_ptr` nodes with `weak_ptr` parents; `m_sessionMap`: session to `weak_ptr`s | create, get, set, delete, ls, stat, exists; `removeEphemeral` |
| Indexed heaps | `HeapTimer`, `HeapHeartBeatCounter` | `m_heap` (vector in heap order), `m_map` (id to position) | push, adjust, addOne, del, pop, clear, tick |
| Sessions | `SRCServer`, `SessionManager`, `HeartbeatCounter` | `m_sessions`, `m_timer`, `m_counter`, the UDP socket | connection request, heartbeat, timeout, end |
| Event loop | `EventLoop` | queued functors, wakeup descriptor, `m_quit` | loop, queueInLoop, runInLoop, quit, wakeup |
| Loop threads | `EventLoopThread`, `...Pool`, `Thread` | `m_loop` under a mutex and condition, `m_next` | startLoop, threadFunc, destructor, getNextLoop |
| TCP connections | `TcpServer`, `Acceptor`, `TcpConnection`, `Channel`, `EpollPoller` | `m_connections`, state, buffers, interest set and index of each channel, epoll's set | accept, establish, read, send, write, shutdown, close, destroy |
| Buffers | `Buffer` | vector with reader and writer index | append, retrieve, readFd, writeFd |
| Client library | `client/src_client.cpp` | `m_isConnected`, `m_sessionId`, detached heartbeat threads | connect, disconnect, requests, exit |
| Session ids | `uuid4` | a random generator | generateSessionId |
| Wrappers | `Socket`, `InetAddress`, `Timestamp`, `Logger`, `Config` | none of their own | system calls, text |
| Generated and vendored | protocol buffers, JSON, command line | | |

### Threads and interactions

* The **main thread** runs the base loop, which accepts connections and keeps
  `m_connections`. Three **io loops** each run on their own thread, read requests
  (`SRCServer::onMessage`) and answer them. They call `Services` (under its mutex),
  `SessionManager` (under its mutex) and, for a connection request, push the new
  session into the two heaps, **under no lock**.
* The **UDP thread** of `HeartbeatCounter` runs `m_timer.tick()`, `m_counter.tick()`
  and `recvfrom` in turn. A timeout restarts the timer and counts one missed
  heartbeat; a heartbeat resets both; a count at the limit ends the session through
  `SRCServer::onHeartbeatReachLimit`: first `SessionManager::remove`, then
  `Services::removeEphemeral`.
* Loops talk to each other by functors: `queueInLoop` appends under a mutex and
  wakes the loop by its eventfd. A connection that closes goes from its io loop to
  the base loop and back before it is freed.
* The **client** sends heartbeats from a thread of its own for each `connect`.

### What is hard, and what makes it correct

| Component | Hard behaviour | Correct if |
|---|---|---|
| Node service | releases of whole subtrees, expired `weak_ptr`s, names erased from parents, paths in every spelling | links in both directions agree; `m_sessionMap` is exact; the end of a session removes what it owns and the root never goes; answers are those of a map from paths to nodes |
| Heaps | an entry moved into a hole may belong above or below it; the index is updated by hand at each swap | index and vector are inverse at every step; heap order after every operation; the operations are those of a priority map |
| Sessions | registration in three steps, two ticks that call back and re-insert, late and lost datagrams, early timers | no session ends before its grace period; every live session is watched; nothing outlives a session; a silent client's session ends |
| Event loop | functors queued by callbacks, by functors and by other threads; wakeups consumed before the functor they announce | no wakeup is lost; functors run once, in order; quit stops the loop |
| Loop threads | a thread that publishes an object on its own stack, an owner that waits for it, tells it to quit and joins it | `startLoop` and the destructor return; `m_loop` is set exactly while the loop can be used |
| Connections | close handed between two threads; level-triggered events, reset peers, reused descriptors, raw channel pointers | epoll's set matches the index; no pointer to a freed channel; each end happens once; data before the end of the stream is delivered; nothing leaks |
| Bytes of a connection | partial writes, interest in writing, a buffer that moves, grows and overflows into `extrabuf`, `size_t` | every byte arrives once, in order and in the end; the indices keep the order drawn at `Buffer.h:19`; the channel waits for the socket exactly while bytes wait |
| Client | a detached thread per connect that reads `m_sessionId` without a lock, lost heartbeats, a process that ends at any moment | a connected client has its session; when it stays away its nodes go; a session it has left ends (it need not: finding 5) |

`PROJECT.json` lists each hazard at its line, with the properties that cover it or the
reason why none does.

## 2. Modules

| Module | What it is | Checked by | Proved in |
|---|---|---|---|
| `Services` | `Services.cpp` over an explicit object graph | `MCServices` | `ServicesProofs` |
| `NodeStore` | its abstract specification: a map from paths to nodes | | `ServicesProofs` |
| `IndexedHeap` | both heaps, in the steps of the code, one thread | `MCIndexedHeap` | `IndexedHeapProofs` |
| `PriorityMap` | its abstract specification | | `IndexedHeapProofs` |
| `SharedHeap` | the same steps run by several threads | `MCSharedHeap` | |
| `SessionServer` | io loops, UDP thread, clients, network and time | `MCSessionServer` | `SessionServerProofs` |
| `SessionLease` | its abstract specification: a lease | | |
| `EventLoop` | `EventLoop.cpp` with the threads that call it | within `LoopThread` | `EventLoopProofs` |
| `LoopThread` | `EventLoopThread` and `Thread` around the loop of `EventLoop` | `MCLoopThread` | `EventLoopProofs` |
| `Executor` | its abstract specification: a queue of functors | | |
| `TcpServer` | connections across the base loop and the io loops | `MCTcpServer` | `TcpServerProofs` |
| `ConnectionLife` | its abstract specification: what the users of a connection are told, and in which order | | `TcpServerProofs` |
| `TcpStream` | the bytes of one connection, from its peer to `onMessage` and back | `MCTcpStream` | `TcpStreamProofs` |
| `Buffer` | `Buffer.h` and `Buffer.cpp` as operators on records | within `TcpStream` | `TcpStreamProofs` |
| `ByteStream` | the abstract specification of each direction | | |
| `Client` | the client library and its heartbeat threads, composed with the `SessionLease` of each session | `MCClient` | `ClientProofs` |
| `LeastNumber` | the least-number principle the proofs use for induction | | itself |

**Services.** A node is an element of `Nodes` with its fields in `node`, its table in
`children`, and `live` says which objects exist. Every strong reference is a table entry
or `m_dummy` and every node is created as a leaf, so the objects alive are those
reachable from the dummy (`ReleaseTo`). `make_shared` may return storage again once no
`weak_ptr` refers to it (`Allocatable`). Since each handler holds `m_mutex`, each is one
action; its disjuncts are the early returns of the handler, and `resp` is its answer. A
path is the sequence of texts between its slashes, which `SplitPath` treats as `getline`
does. `Unreadable` stands for requests that do not parse and for unknown services.

**IndexedHeap.** The two classes have the same code up to `operator<`; the counter's key is
minus the count. `op` is the operation in progress and its index. Reading the position
of a new entry, appending it and indexing it are three steps, and so is each iteration
of `shift_up` and `shift_down`, so that `SharedHeap` can interleave them.

**SessionServer.** The heaps are the maps that `IndexedHeap` implements, each operation one
step: registration is `Add`, `PushTimer`, `PushCounter`; the UDP thread goes from
`timer` (`PopTimer`) to `callbacks` (`TimeoutFunc`), `counter` (`HeartbeatReach`),
`remove`, `sweep` and `pop` (the end of a session), and `recv`. `Tick` lets time pass at
any moment. `PerMs` is the number of clock units in a millisecond, since `duration_cast`
drops a part of one: a timer may fire up to `PerMs - 1` units early. `age` is an
observer that the code does not have: the time since registration or the last heartbeat
received.

**EventLoop.** `pc` follows `loop()`. A call by another thread pushes and then wakes, in
two steps; the loop's own thread calls only from inside callbacks and functors. The
eventfd is a Boolean: only zero and non-zero differ. The model starts when
`EventLoopThread` has published the loop (`start`), where a quit can still be lost:
`Start` clears `m_quit`, and the first test of `loop()` is a step of its own after it.

**LoopThread** extends `EventLoop`: `stage` is where the loop's thread is outside `loop()`,
`own` where the owner is in `startLoop` or the destructor. The steps of `loop()` are taken
while the stage is `looping`, and calls by other threads once the owner has the loop to
give away. `Look` is the condition of the wait under the lock, `Publish` sets `m_loop` and
notifies, and `SpuriousWakeup` may wake the owner at any time but need not. The pool
starts its threads one after another, so one thread stands for each of them.

**TcpServer.** Handlers and functors are steps of their loop. A handler touches at most
one thing another thread touches, the queue of another loop, so the interleavings left
out change nothing. A connection is alive as long as `m_connections`, a queue or a batch
refers to it; a batch keeps its functors until it ends, and only then are connections
freed and their descriptors reused. `Registration` pairs a channel with the poller of
its loop, and `UpdateChannel` and `RemoveChannel` say what the code makes of the pair.
`told` keeps all that the users have been told of a connection, in order: `ConnectionLife`
allows up, down and down again (`handleClose` and then `connectDestoryed`, which tests
`kDisconnected`), then the end, and nothing else. `Poll` reports every channel that is
ready, where `epoll_wait` reports as many as `m_events` has room for
(`EpollPoller.cpp:36`) and the rest at the next poll.

**Client.** One thread calls the library and `caller` says where it is; each connect has a
heartbeat thread in `thread`, with the session its datagram names (`beats`) and what is
left of its sleep. `Ask` is `connect` up to its read, where the server opens the lease;
`Answer` takes the id or, if the server closes without an answer, leaves `m_sessionId` as
it was; `StartThread` returns true in both cases. `Begin` is when the thread reads
`m_sessionId`, whatever it is by then. `Disconnect` is one step: no thread reads
`m_isConnected`, the first of the two fields it clears. `Exit` is `LOG_FATAL`, `exit`, the end of `main` or a
crash. Of the server there is only what `session_server` and `LeaseImplemented` show it
to be, a lease for each session; `EndSession` closes it and removes its nodes. `late` is an
observer: time has passed while the client had something to do at once, or more than
`MaxLost` heartbeats of its session were lost in a row.

**TcpStream.** A byte is its number in its stream. `HandleRead` is `handleRead` with
`onMessage`, which takes all that has been read and sends one answer on each of its
paths; `SendInLoop` and `HandleWrite` follow the code, `size_t` included: `Written` is
what `::write` returns, and -1 is `SizeMod - 1`. `Memory` says what lies at
`message + nwrote`, of which `Zero` stands for what is outside the message. `Buffer` is
data, size and two indices, and each of its operators is one method. The buffers' sizes
are constants, so that a few bytes meet every case.

## 3. Runs

| Run | Instance | Shows |
|---|---|---|
| `services` | 2 sessions, 2 names, 3 nodes besides the root, 10 raw paths | tree, session map and every answer are right; the end of a session removes what the deprecated scan would |
| `services_permanent` | the same | **violation**: a permanent node below a session node goes with it |
| `indexed_heap` | 6 ids, 3 keys | index, order and map semantics |
| `shared_heap` | 2 io threads and the UDP thread, 2 ids | **violation**: two pushes at the same time lead two ids to one position |
| `session_server` | 2 sessions, timeout 2 units, 2 units per ms, limit 2 | no early end, watched exactly while registered, a lease; a silent client's session ends |
| `session_orphans` | 1 session | **violation**: a node made for a session that has ended stays |
| `loop_thread` | an owner and 2 other callers, 1 channel, 3 functors | `startLoop` and the destructor return; no lost wakeup, executor semantics, functors run, quit stops |
| `tcp_server` | 3 connections, 2 descriptors, 2 io loops, 1 unread item | registration, ownership, single calls; users told up once and down twice, after all their peer sent; connections whose peer left are freed |
| `tcp_stream` | buffers of 3 bytes, `extrabuf` and socket of 2, 5 bytes in, answers of 1 to 3 | requests and answers arrive once, in order, in the end |
| `tcp_stream_blocked` | the same, on sockets that may be full | **violation**: a byte that was never sent is in front of an answer |
| `client` | 2 connects, 2 sessions, an interval of 2, 1 heartbeat lost, a lease of 5 | a connected client has its session; its nodes go when it stays away |
| `client_reconnect` | the same | **violation**: a thread of an earlier connect keeps the session of that one |

### Bounds, and why they are enough

* `services`: three nodes make a chain of three, or a session node with two nodes of
  another session or of no session below it; storage is reused once nothing refers to
  it. The paths have every depth the room allows, a final slash, an empty name inside,
  and a first name that is not empty. `VIEW` leaves out the latest answer, which
  enables nothing; TLC checks the answers on every step it generates. Sessions and
  storage are interchangeable, hence the symmetry.
* `indexed_heap`: six entries are the fewest for which the entry moved into a hole may
  belong above it, in the other subtree. `VIEW` leaves out the latest call once it has
  taken effect.
* `session_server`: two sessions are enough for one to end while the other registers,
  times out or is reset, since no step concerns three. A timeout of two units is one
  millisecond, and fires after one or two of them. `MaxAge` is where the observer's
  clock stops; it is at least the grace period, so the comparison is exact.
* `loop_thread`: three functors are one that runs, one in the batch and one queued
  meanwhile; two callers can both be between push and wakeup while the owner quits. All of
  them end with the loop: deadlock is not checked.
* `tcp_server`: the third connection waits for a descriptor and reuses it, on the loop of
  the connection that had it or on the other one. Connections are numbered as their peers
  connect and `accept` takes the lowest descriptor free, as the system does, so no
  interleaving is lost by it. Connections are used once, so the system comes to rest:
  deadlock is not checked there.
* `tcp_stream`: five bytes are what fits into the buffer and `extrabuf` at once, so
  `readFd` uses one or both; answers of three bytes find the output buffer empty, partly
  taken (its content is moved) and too small (it is resized), and the socket with room
  for all, a part or, if something waits, none of them. `SizeMod` is larger than any sum that the
  program's own sizes give, as 2^64 is. Bytes are bounded, so the connection comes to
  rest: deadlock is not checked.
* `client`: two connects are enough for a thread that outlives its own; the lease is the
  least that outlasts one lost heartbeat. The program has a lease of 5 times 12 seconds
  (`main.cpp`) and an interval of 10 unless told otherwise, so four may be lost; the proofs
  hold for those values too.

### Fairness

* `SessionServer`: time passes, and the UDP thread goes on: `SO_RCVTIMEO` wakes it from
  `recvfrom`, and its callbacks do not block. Nothing is assumed of clients, the network
  or the io loops.
* `EventLoop` and `LoopThread`: the thread of the loop is scheduled, the owner goes on inside
  `startLoop` and the destructor (which nothing obliges it to call), callbacks and functors return, `poll`
  returns when the eventfd is readable, and a caller that has pushed gets to its wakeup.
  The ten-second timeout of `poll` is **not** assumed: the wakeups alone must do.
* `Client`: time passes, heartbeat threads are scheduled and wake from their sleep, and the
  server ends a session whose lease has run out, which is what `SilentSessionEnds` shows of
  it. The application need not do anything, and no heartbeat has to arrive.
* `TcpServer`: each loop is scheduled. Peers may do nothing for ever.
* `TcpStream`: the loop is scheduled, and the peer reads what it is sent: answers to a peer
  that does not read wait as they should. `tcp_stream` and the proofs assume `Unblocked`:
  the socket takes at least a byte of an answer that is written directly. The code is
  wrong without it, which is what `tcp_stream_blocked` shows. That `readv` fails is left
  out: nobody else reads from the socket, and an error on it runs the error callback first.

## 4. Findings

1. *A permanent node can go with a session* (`services_permanent`): `removeEphemeral` erases
   the session's node from its parent and with it everything below, whereas `DNode.h:38`
   calls `PERSISTENT` nodes permanent.
2. *The heaps are shared without a lock* (`shared_heap`): `onMessage` pushes on io loops,
   three by default; two pushes that read `m_heap.size()` before either appends leave
   `m_map` wrong for good.
3. *Session nodes for sessions that are over* (`session_orphans`): requests carry a session id
   that nothing validates, and `createNode` records a node for it that no end of a
   session will remove, whereas `DNode.h:39` says such nodes are void once it is closed.
4. *A full socket adds a byte to an answer* (`tcp_stream_blocked`): `sendInLoop` keeps the
   result of `::write` in a `size_t` (`TcpConnection.cpp:106`), so EWOULDBLOCK counts as
   success, `remaining` becomes `len + 1` and the copy starts a byte before the message.
   The branch commented for that case (`:118`) is never taken.
5. *A session that the client has left stays* (`client_reconnect`): the heartbeat thread asks
   only whether `m_sessionId` is 0 (`src_client.cpp:93`). If `disconnect` and `connect` fall
   into one of its sleeps it goes on for the session before, whose nodes stay as long as
   the client is connected; its next `disconnect` ends both threads.

Others are recorded as hazards with a note, where the repository says nothing that a
property could be held against: among them the quit lost before `loop()` (`QuitStops` and
`ThreadLife` except it), a `connect` that returns true without a session, a result of
`existsNode` that was never set, a write to a reset connection (no `SIGPIPE` handling), and requests
that carry no length. That a closed connection is reported down twice
(`TcpConnection.cpp:268` and `183`) is part of what `ConnectionLife` promises.

## 5. Proofs

All are about `Spec` for every value of the constants that satisfies the `ASSUME`s of the
modules; those are that model values differ, that names and paths have their types,
that node storage is finite, that the root may be requested and so may the path above any
that may (a bound on the requests alone: any text may be sent), that connections and descriptors are numbers, that there is an io loop and none of them
is the base loop, that the clock's units and the limit are positive, and that the
observer's clock outlasts the grace period.

* **ServicesProofs.** The invariant is the conjunction of `TypeOK`, `RootStays`,
  `TreeLinks`, `SessionMapExact` and that neither the dummy nor the root is a session
  node (`RootStays` needs it: `removeEphemeral` has no test for the root). `ReleaseTo`
  keeps links because a table that is kept has only entries that are kept; storage that
  no `weak_ptr` refers to keeps `SessionMapExact` when it is reused. `EndCorrect` shows the lookup of `m_sessionMap` and
  the deprecated scan to destroy the same objects.
  `StoreImplemented` is the refinement of `NodeStore`: every answer, and what every request
  and session end leaves, is what a map from paths to nodes would give. It needs what the
  walk along a path finds. `WalkTo` is a recursive function of the length, so where an
  induction is needed the proof takes a shortest path at which the claim fails
  (`ShortestPath`): that no two paths lead to one object (`OnePath`), that every object is at
  a path a request may name (`Known`, with `OnePath` the theorem `EveryObjectHasItsPath`),
  and that the walk after a release finds what it found before on every path but those on
  which an erased entry lies (`Cut`, `ReleaseWalk`), so that `release` takes along the
  nodes below a deleted one and no others. One lemma for each request follows, and one for
  the end of a session, where several subtrees go at once (`Denotation`, `CutOwnedCuts`).
* **IndexedHeapProofs.** While an operation is in progress the order is broken around its
  index alone: above it in `up`, below it in `down`, and its parent is still no greater
  than its children. That is the strengthening of `HeapOrdered`; the one of `IndexExact`
  tells the moment between append and index. `TopCorrect` derives from the order that the
  top is least, taking a least position at which that fails instead of an induction.
  `MapImplemented` takes the entries of the vector as a map: an operation changes it in the
  step that appends, rekeys or deletes, a swap leaves it alone because ids are distinct,
  and `pop` removes a least entry because of `TopCorrect`.
* **SessionServerProofs.** `Watch` says which sessions are timed, due or counted at each
  place of the UDP thread and of registration; `Counted` that only callbacks of one tick
  bring counts to the limit, once each; `Clock` that a session's age is at least its
  count times the shortest period of a timer, plus what has passed of the current one.
  `EndNotPremature` and the refinement of the lease follow. `NoReprieve` is the safety core of
  `SilentSessionEnds`, an action property: when the client is silent and its last datagram
  is gone, no step of any thread takes the session further from its end, in the order of its
  count and then of the time its timer has left. `WatchedExactly` says that it has one of them
  running, so only time and the UDP thread have to go on.
* **EventLoopProofs.** `NoLostWakeup` speaks of `poll` alone and is not inductive.
  `Covered` extends it to all places from which `poll` is reached before the next swap of
  the queue. `ExecutorImplemented` shows that the queue of the executor is the rest of the
  batch followed by the pending functors. `LoopImplemented` shows that a loop in its thread,
  module `LoopThread`, is this loop, so the same holds of it; `ThreadTypeCorrect` adds that
  `m_loop` is set exactly while the loop can be used. `OwnerNotified` is the safety core of
  `ThreadLife`: the owner sleeps in `startLoop` only before the thread publishes its loop, or
  if the loop was told to quit and has gone before the owner looked.
* **ClientProofs.** `KeepsSession` says nothing of the time that is left. The invariant `Kept`
  does: the lease is new until the thread of the latest connect has made its datagram; from
  then on its age plus what is left of the sleep is at most one interval for each heartbeat
  lost so far and one more (`Budget`). `Handshake` ties `connect`, `m_sessionId` and the
  latest thread together; a thread left over from an earlier connect can only renew.
  `LastBeats` is the safety core of `SessionNodesGo`: while the client is away, a lease is
  renewed only by threads that were about to send when it left, once each.
* **TcpServerProofs.** No property of `TcpServer` is inductive alone, because a handler relies on
  what functors queued earlier, on another loop, have left. `Due` says for each connection
  which functor must be waiting for it and on which loop, as its state, the table and its
  channel tell; `Tasks` that `Todo`, what the loops have yet to run, is exactly that.
  `Stages` and `Ends` tie state, table, channel, peer and callbacks together, `InEpoll` and
  `InChannels` say what the poller knows of each descriptor, `Reported` that events still to
  be handled are of connections that are up, one each, and `Batches` that what a batch refers
  to is alive. `IndexCorrect`, `NoDangling` and `CalledOnce` follow, and so does
  `LifeImplemented`: state and channel tell what the users have been told (`ToldIn`), so
that each of up, down and down again is told once, and the last two in that order.
  `NothingHalfDone` is the safety core of `LeftIsFreed`: when every loop waits in `poll` with
  nothing to report and nothing queued, each connection is up, with its users told and all
  read, or freed, or its peer has not come. It needs one invariant more, `Kept`: a peer that
  has come waits in the backlog or has its connection, and a connection that is over but not
  yet freed is held by a batch that is still to be destroyed. `ConfinedToLoop` is an action
  property: a step of one loop leaves the connections, channels and poller of the others
  alone, and all but the base loop leave the table alone. The one exception is the last
  reference, which the base loop may drop; the connection has then left its poller, so
  closing its descriptor takes nothing from epoll. That no two loops work on one
  connection is what allows `TcpServer` to take a handler for one step.
* **TcpStreamProofs.** First what the operations of `Buffer` do to its content, whatever its
  size: `AppendCorrect`, `RetrieveCorrect`, `ReadFdCorrect`. They hold while no sum reaches
  `SizeMod`, and `SizeAssumption` gives that for a connection of `MaxIn` bytes. The
  invariant `StreamInv` has three parts: `Input` (the input buffer is empty between reads
  and everything read was given to `onMessage`), `Output` (what the peer has read, what the
  socket holds and what waits in the output buffer, one after the other, are the bytes
  sent) and `Reported` (what `poll` has reported still holds when it is handled: that
  makes every `read` and every queued `write` find at least a byte). `TypeCorrect`, `WritingExact` and the
  two refinements of `ByteStream` follow from it. So does `NothingHeldBack`, the safety core
  of `AllDelivered`: when `poll` has nothing to report and the peer has read what the socket
  holds, every byte that came was given to `onMessage` and every byte sent has been read.

Only model-checked: everything under fairness (`SilentSessionEnds`, `EveryFunctorRuns`,
`QuitStops`, `ThreadLife`, `LeftIsFreed`, `AllDelivered`, `SessionNodesGo`), which TLAPS does not
reason about. For each of them a theorem says, for any size of the system, that it cannot
rest with the work undone, or that no step takes it further from being done: `WakeupNotLost`
(`EveryFunctorRuns`, `QuitStops` and the end of `ThreadLife`), `OwnerNotified` (its start),
`NothingHalfDone`, `NothingHeldBack`, `NoReprieve` and `LastBeats`. That the system comes to rest, or gets on, is what TLC
checks. Every invariant and every refinement that a run checks is proved; the properties
of the runs that expect a violation are of course not.

## 6. Not modelled

* Data races below the steps of a module: `SharedHeap` interleaves the statements of the
  heaps, and that is enough to refute; `SessionServer` takes heap operations as atomic.
* Refused connection requests and unreadable datagrams, which change no state, and
  `m_TCP_Id`, which nothing reads.
* Calls on an `EventLoop` that its thread has destroyed: `LoopThread` lets a wakeup come that
  late, and stops an owner that finds the loop gone before its quit.
* `shutdown()` and `~TcpServer`: `SRCServer` calls `shutdown()` only on
  connections that are already down, where it does nothing, and `main()` never gets to
  the destructor because nothing quits the base loop. A pool without io loops, since
  `SRCServer` always asks for three.
* The callbacks for completed writes and the high-water mark, which nothing sets, `send()`
  from another thread than the loop's, which nobody calls, and how protocol buffers tell
  the end of a request: `TcpStream` makes each read one request, as the code does.
* The random generator of session ids, assumed never to repeat; wrappers of system calls,
  logging and configuration, which keep no state that another component reads; the command
  line client, which reads a line, calls the library and prints.
* Generated and vendored code (`json.hpp`, `messages.pb.*` twice, `cmdline.hpp`): nearly nine
  tenths of the lines of the repository, whose parsing the models take as given. That a
  message does not parse is a case of its own in `Services` and `Client`.

## 7. Plan

* The loops of `TcpServer` as loops of `EventLoop`: `TcpServer` repeats in `Poll`, `Swap` and
  `RunFunctor` the steps that `EventLoop` has in more detail, with a functor as one step where
  `Executor` has two. An executor whose functors may submit others as they run would let
  the two be composed by proof.
* How late a session may end: `NoPrematureEnd` bounds it from below; an upper bound needs a
  bound on how late the UDP thread may be, which the code does not give.
