----------------------------- MODULE TcpServer -----------------------------
(***************************************************************************)
(* The life of connections in TcpServer, TcpConnection, Channel and        *)
(* EpollPoller (src/src/tcp).  The base loop accepts a connection, keeps   *)
(* it in m_connections and hands it to an io loop; that loop registers its *)
(* channel with epoll, reads what the peer sends, and at the end of the    *)
(* stream closes it, which goes by functors through the base loop and back *)
(* until the last shared_ptr is gone and the descriptor free for the next  *)
(* connection.                                                             *)
(*                                                                         *)
(* Each loop polls, handles the channels poll has reported, and runs the   *)
(* functors queued, as in module EventLoop.  A handler or a functor is one *)
(* step: it touches at most one thing that another thread also touches,    *)
(* the queue of a loop.  Channels are interested in reading alone: what is *)
(* sent, and shutdown(), which SRCServer calls only when it does nothing,  *)
(* are left out, and so is ~TcpServer, which main() never reaches.         *)
(***************************************************************************)
EXTENDS Naturals, Sequences, FiniteSets

CONSTANTS
    Conns,       \* TcpConnection objects, numbered as their peers connect
    Fds,         \* descriptors: the bound on those open at once
    Nil,         \* no connection, no registration
    Main,        \* m_loop
    IoLoops,     \* m_loops of the pool, in their order
    MaxUnread    \* what the peer sends and is not yet read: a bound

ASSUME LoopsAssumption ==
    /\ IoLoops \in Seq({IoLoops[i] : i \in DOMAIN IoLoops})
    /\ Len(IoLoops) > 0 /\ \A i \in DOMAIN IoLoops : IoLoops[i] # Main
ASSUME ConnsAssumption == Conns \subseteq Nat /\ Fds \subseteq Nat /\ MaxUnread \in Nat
ASSUME NilAssumption == Nil \notin Conns /\ \A c \in Conns : [conn |-> c, events |-> {"IN"}] # Nil

VARIABLES
    backlog,     \* peers that have connected and are not accepted
    peer,        \* what the peer has done: "open", "fin" or "rst"
    unread,      \* what it has sent and is not yet read
    connections, \* TcpServer::m_connections
    next,        \* EventLoopThreadPool::m_next
    conn,        \* m_state, fd and loop of each TcpConnection
    chan,        \* m_events and m_index of its Channel
    poller,      \* loop -> epoll's registrations and m_channels, by descriptor
    told,        \* all that m_connectionCallback has told of each, in order
    pc,          \* where each loop is
    active,      \* m_activeChannels of each loop, with their m_revents
    queue,       \* m_pendingFunctors of each loop
    batch,       \* funcs of its doPendingFunctors, alive until that returns
    ran          \* how many of them have run

vars == <<backlog, peer, unread, connections, next, conn, chan, poller, told,
          pc, active, queue, batch, ran>>
peers == <<backlog, peer, unread>>
objects == <<connections, next, conn, chan, poller, told>>
loops == <<pc, active, queue, batch, ran>>

Io == {IoLoops[i] : i \in DOMAIN IoLoops}
Loops == Io \cup {Main}

Init ==
    /\ backlog = {}
    /\ peer = [c \in Conns |-> "none"]
    /\ unread = [c \in Conns |-> 0]
    /\ connections = {}
    /\ next = 0
    /\ conn = [c \in Conns |-> [state |-> "none", fd |-> Nil, loop |-> Main]]
    /\ chan = [c \in Conns |-> [events |-> {}, index |-> "kNew"]]
    /\ poller = [l \in Io |-> [epoll |-> [f \in Fds |-> Nil],
                               channels |-> [f \in Fds |-> Nil]]]
    /\ told = [c \in Conns |-> <<>>]
    /\ pc = [l \in Loops |-> "poll"]
    /\ active = [l \in Loops |-> {}]
    /\ queue = [l \in Loops |-> <<>>]
    /\ batch = [l \in Loops |-> <<>>]
    /\ ran = [l \in Loops |-> 0]

-----------------------------------------------------------------------------
(* Peers *)

Connect(c) ==
    /\ peer[c] = "none" /\ \A d \in Conns : d < c => peer[d] # "none"
    /\ peer' = [peer EXCEPT ![c] = "open"]
    /\ backlog' = backlog \cup {c}
    /\ UNCHANGED <<unread, objects, loops>>

Send(c) ==
    /\ peer[c] = "open" /\ unread[c] < MaxUnread
    /\ unread' = [unread EXCEPT ![c] = @ + 1]
    /\ UNCHANGED <<backlog, peer, objects, loops>>

Leave(c, how) ==
    /\ peer[c] = "open"
    /\ peer' = [peer EXCEPT ![c] = how]
    /\ UNCHANGED <<backlog, unread, objects, loops>>

-----------------------------------------------------------------------------
(* Channels and their registration: what a call makes of r, the channel of c *)
(* and the poller of its loop.                                               *)

Registration(c) ==
    [events |-> chan[c].events, index |-> chan[c].index,
     epoll |-> poller[conn[c].loop].epoll, channels |-> poller[conn[c].loop].channels]

Add(r, c) == [r.epoll EXCEPT ![conn[c].fd] = [conn |-> c, events |-> r.events]]
Delete(r, c) == [r.epoll EXCEPT ![conn[c].fd] = Nil]

\* A fault: the index stays at kAdded.
UpdateChannelAdded(r, c) ==
    IF r.index = "kAdded" /\ r.events = {}
    THEN [r EXCEPT !.epoll = Delete(r, c)]
    ELSE [r EXCEPT !.epoll = Add(r, c), !.index = "kAdded",
                   !.channels[conn[c].fd] = IF r.index = "kNew" THEN c ELSE @]

UpdateChannel(r, c) ==
    IF r.index = "kAdded" /\ r.events = {}
    THEN [r EXCEPT !.epoll = Delete(r, c), !.index = "kDeleted"]
    ELSE [r EXCEPT !.epoll = Add(r, c), !.index = "kAdded",
                   !.channels[conn[c].fd] = IF r.index = "kNew" THEN c ELSE @]

\* A fault: m_channels keeps the channel.
RemoveChannelListed(r, c) ==
    [r EXCEPT !.index = "kNew",
              !.epoll = IF r.index = "kAdded" THEN Delete(r, c) ELSE @]

RemoveChannel(r, c) ==
    [r EXCEPT !.channels[conn[c].fd] = Nil, !.index = "kNew",
              !.epoll = IF r.index = "kAdded" THEN Delete(r, c) ELSE @]

EnableReading(r, c) == UpdateChannel([r EXCEPT !.events = @ \cup {"IN"}], c)

\* A fault: the channel stays interested in reading.
DisableNone(r, c) == r

DisableAll(r, c) == UpdateChannel([r EXCEPT !.events = {}], c)

Register(c, r) ==
    /\ chan' = [chan EXCEPT ![c] = [events |-> r.events, index |-> r.index]]
    /\ poller' = [poller EXCEPT ![conn[c].loop] =
                    [epoll |-> r.epoll, channels |-> r.channels]]

-----------------------------------------------------------------------------
(* Handlers *)

Functor(f, c) == [name |-> f, conn |-> c]
QueueInLoop(l, f, c) == queue' = [queue EXCEPT ![l] = Append(@, Functor(f, c))]
SetState(c, s) == conn' = [conn EXCEPT ![c].state = s]
Tell(c, what) == told' = [told EXCEPT ![c] = Append(@, what)]

OpenFds == {conn[c].fd : c \in {d \in Conns : conn[d].state \notin {"none", "freed"}}}

\* A fault: the turn goes past the last io loop.
TurnOnce(n) == n + 1

\* EventLoopThreadPool::getNextLoop: the io loops take turns.
Turn(n) == (n + 1) % Len(IoLoops)

\* TcpServer::newConnection
NewConnection(c, fd) ==
    LET ioLoop == IoLoops[next + 1]
    IN  /\ next' = Turn(next)
        /\ conn' = [conn EXCEPT ![c] = [state |-> "kConnecting", fd |-> fd, loop |-> ioLoop]]
        /\ connections' = connections \cup {c}
        /\ QueueInLoop(ioLoop, "connectEstablished", c)

First(S) == {x \in S : \A y \in S : x <= y}

\* Acceptor::handleRead: accept takes the peer that has waited longest and the
\* lowest descriptor free, or finds none free.
AcceptorRead ==
    /\ pc[Main] = "events" /\ Main \in active[Main]
    /\ active' = [active EXCEPT ![Main] = {}]
    /\ \/ \E c \in First(backlog), fd \in First(Fds \ OpenFds) :
            /\ NewConnection(c, fd)
            /\ backlog' = backlog \ {c}
       \/ /\ Fds \subseteq OpenFds
          /\ UNCHANGED <<backlog, connections, next, conn, queue>>
    /\ UNCHANGED <<peer, unread, chan, poller, told, pc, batch, ran>>

\* A fault: a hung up connection is closed with what is still to be read.
HangUpAlways(revents) == "HUP" \in revents

\* Channel::handelEventWithGuard closes at once when there is nothing to read.
HangUp(revents) == "HUP" \in revents /\ "IN" \notin revents

\* handleRead of a read that returns 0, or what it would be after a hang-up.
AtEnd(c, revents) == HangUp(revents) \/ ("IN" \in revents /\ unread[c] = 0)

\* TcpConnection::handleClose
HandleClose(c) ==
    /\ SetState(c, "kDisconnected")
    /\ Register(c, DisableAll(Registration(c), c))
    /\ Tell(c, "down")
    /\ QueueInLoop(Main, "removeConnection", c)
    /\ UNCHANGED unread

\* handleRead gives what readv has read to m_messageCallback.
HandleMessage(c) ==
    /\ \E k \in 1 .. unread[c] : unread' = [unread EXCEPT ![c] = @ - k]
    /\ UNCHANGED <<conn, chan, poller, told, queue>>

\* Channel::handleEvent of an io loop's channel; the error callback only logs.
HandleEvent(l, a) ==
    /\ pc[l] = "events" /\ a \in active[l]
    /\ active' = [active EXCEPT ![l] = @ \ {a}]
    /\ IF AtEnd(a.conn, a.revents) THEN HandleClose(a.conn) ELSE HandleMessage(a.conn)
    /\ UNCHANGED <<backlog, peer, connections, next, pc, batch, ran>>

ConnectEstablished(c) ==
    /\ SetState(c, "kConnected")
    /\ Register(c, EnableReading(Registration(c), c))
    /\ Tell(c, "up")
    /\ UNCHANGED <<connections, queue>>

\* The channel that handleClose has taken out of epoll goes in once more, and out,
\* and users are told again that the connection is down.
ConnectDestoryed(c) ==
    /\ IF conn[c].state = "kDisconnected"
       THEN /\ Register(c, RemoveChannel(DisableAll(Registration(c), c), c))
            /\ Tell(c, "down")
       ELSE /\ Register(c, RemoveChannel(Registration(c), c))
            /\ UNCHANGED told
    /\ UNCHANGED <<connections, conn, queue>>

\* A fault: the connection stays in the table.
RemoveConnectionKept(c) ==
    /\ QueueInLoop(conn[c].loop, "connectDestoryed", c)
    /\ UNCHANGED <<connections, conn, chan, poller, told>>

\* TcpServer::removeConnectionInLoop
RemoveConnectionInLoop(c) ==
    /\ connections' = connections \ {c}
    /\ QueueInLoop(conn[c].loop, "connectDestoryed", c)
    /\ UNCHANGED <<conn, chan, poller, told>>

-----------------------------------------------------------------------------
(* Loops *)

\* What epoll has to report of a registration: EPOLLHUP and EPOLLERR are always
\* of interest.
Revents(reg) ==
    LET c == reg.conn
    IN  {e \in reg.events : unread[c] > 0 \/ peer[c] # "open"}
        \cup (IF peer[c] = "rst" THEN {"HUP", "ERR"} ELSE {})

Reports(l) ==
    IF l = Main
    THEN IF backlog = {} THEN {} ELSE {Main}
    ELSE LET regs == {poller[l].epoll[f] : f \in Fds} \ {Nil}
         IN  {[conn |-> reg.conn, revents |-> Revents(reg)] :
                reg \in {r \in regs : Revents(r) # {}}}

\* poll returns when a channel is ready or the loop has been woken.  It reports all
\* that are ready: those that m_events has no room for would be ready at the next poll.
Poll(l) ==
    /\ pc[l] = "poll"
    /\ Reports(l) # {} \/ queue[l] # <<>>
    /\ active' = [active EXCEPT ![l] = Reports(l)]
    /\ pc' = [pc EXCEPT ![l] = "events"]
    /\ UNCHANGED <<peers, objects, queue, batch, ran>>

Swap(l) ==
    /\ pc[l] = "events" /\ active[l] = {}
    /\ pc' = [pc EXCEPT ![l] = "functors"]
    /\ batch' = [batch EXCEPT ![l] = queue[l]]
    /\ queue' = [queue EXCEPT ![l] = <<>>]
    /\ ran' = [ran EXCEPT ![l] = 0]
    /\ UNCHANGED <<peers, objects, active>>

RunFunctor(l) ==
    /\ pc[l] = "functors" /\ ran[l] < Len(batch[l])
    /\ ran' = [ran EXCEPT ![l] = @ + 1]
    /\ LET f == batch[l][ran[l] + 1]
       IN  \/ f.name = "connectEstablished" /\ ConnectEstablished(f.conn)
           \/ f.name = "connectDestoryed" /\ ConnectDestoryed(f.conn)
           \/ f.name = "removeConnection" /\ RemoveConnectionInLoop(f.conn)
    /\ UNCHANGED <<peers, next, pc, active, batch>>

\* Who holds a shared_ptr to c: the table and the functors of all loops but l.
HeldElsewhere(c, l) ==
    \/ c \in connections
    \/ \E k \in Loops : \E i \in DOMAIN queue[k] : queue[k][i].conn = c
    \/ \E k \in Loops \ {l} : \E i \in DOMAIN batch[k] : batch[k][i].conn = c

\* The functors that have run are destroyed, and with them the connections that
\* nothing else holds: ~Socket closes the descriptor, and epoll forgets it.
FunctorsDone(l) ==
    LET freed == {c \in {batch[l][i].conn : i \in DOMAIN batch[l]} : ~ HeldElsewhere(c, l)}
        closed == {conn[c].fd : c \in freed}
    IN  /\ pc[l] = "functors" /\ ran[l] = Len(batch[l])
        /\ pc' = [pc EXCEPT ![l] = "poll"]
        /\ batch' = [batch EXCEPT ![l] = <<>>]
        /\ ran' = [ran EXCEPT ![l] = 0]
        /\ conn' = [c \in Conns |->
                      IF c \in freed
                      THEN [state |-> "freed", fd |-> Nil, loop |-> conn[c].loop]
                      ELSE conn[c]]
        /\ poller' = [k \in Io |-> [poller[k] EXCEPT
                        !.epoll = [f \in Fds |-> IF f \in closed THEN Nil ELSE @[f]]]]
        /\ UNCHANGED <<peers, connections, next, chan, told, active, queue>>

LoopStep(l) ==
    \/ Poll(l) \/ Swap(l) \/ RunFunctor(l) \/ FunctorsDone(l)
    \/ IF l = Main THEN AcceptorRead ELSE \E a \in active[l] : HandleEvent(l, a)

PeerStep(c) == Connect(c) \/ Send(c) \/ Leave(c, "fin") \/ Leave(c, "rst")

Next == (\E l \in Loops : LoopStep(l)) \/ (\E c \in Conns : PeerStep(c))

Spec == Init /\ [][Next]_vars

\* Every loop's thread is scheduled, and handlers and functors return.  Peers may
\* do nothing for ever.
Fairness == \A l \in Loops : WF_vars(LoopStep(l))
FairSpec == Spec /\ Fairness

-----------------------------------------------------------------------------
(* Properties *)

Alive(c) == conn[c].state \notin {"none", "freed"}

\* Every variable has its type, a connection's loop is one of the pool's, and no
\* two that are alive share a descriptor.
TypeOK ==
    /\ backlog \subseteq Conns /\ connections \subseteq Conns
    /\ peer \in [Conns -> {"none", "open", "fin", "rst"}]
    /\ unread \in [Conns -> 0 .. MaxUnread]
    /\ next \in 0 .. Len(IoLoops) - 1
    /\ \A c \in Conns :
         /\ conn[c].state \in {"none", "kConnecting", "kConnected", "kDisconnected", "freed"}
         /\ Alive(c) => conn[c].fd \in Fds /\ conn[c].loop \in Io
         /\ \A d \in Conns \ {c} : Alive(c) /\ Alive(d) => conn[c].fd # conn[d].fd
    /\ chan \in [Conns -> [events : SUBSET {"IN"}, index : {"kNew", "kAdded", "kDeleted"}]]
    /\ DOMAIN told = Conns /\ \A c \in Conns : told[c] \in Seq({"up", "down"})

\* A channel's index says what epoll knows: ADD is only asked for a descriptor
\* that is not registered, MOD and DEL for one that is, else EpollPoller::update
\* ends the process.
IndexMatchesEpoll ==
    \A c \in Conns : Alive(c) =>
        (chan[c].index = "kAdded" <=>
            /\ poller[conn[c].loop].epoll[conn[c].fd] # Nil
            /\ poller[conn[c].loop].epoll[conn[c].fd].conn = c)

\* Raw Channel pointers lead to channels that are alive: those in m_channels,
\* those in epoll, and those poll has reported and the loop has yet to handle,
\* whatever the base loop frees meanwhile and however soon a descriptor is reused.
NoDanglingChannel ==
    \A l \in Io :
        /\ \A f \in Fds :
             /\ poller[l].channels[f] # Nil => Alive(poller[l].channels[f])
             /\ poller[l].epoll[f] # Nil => Alive(poller[l].epoll[f].conn)
        /\ \A a \in active[l] : Alive(a.conn)

\* Where functors of c have yet to run.
ToRun(l) == SubSeq(batch[l], ran[l] + 1, Len(batch[l])) \o queue[l]
Waiting(f, c) ==
    UNION {{<<l, i>> : i \in {j \in DOMAIN ToRun(l) : ToRun(l)[j] = Functor(f, c)}} : l \in Loops}

\* TcpConnection.h:64 and 66 say of connectEstablished and connectDestoryed "only
\* call once": before each a connection is in the state that only it ends.
OnlyCalledOnce ==
    \A c \in Conns :
        LET up == Waiting("connectEstablished", c)
            down == Waiting("removeConnection", c) \cup Waiting("connectDestoryed", c)
        IN  /\ Cardinality(up) <= 1 /\ (up # {} => conn[c].state = "kConnecting")
            /\ Cardinality(down) <= 1
            /\ down # {} => /\ conn[c].state = "kDisconnected"
                            /\ poller[conn[c].loop].channels[conn[c].fd] = c

\* Users are told of a connection what they are promised, however often and in
\* whatever order: connectDestoryed, which tests kDisconnected where kConnected is
\* meant, tells them a second time that it is down, and nothing tells them a third.
Gone == {c \in Conns : conn[c].state = "freed"}
Life == INSTANCE ConnectionLife WITH gone <- Gone
ImplementsLife == Life!Spec

\* A connection whose peer has left is freed in the end: no descriptor leaks.
LeftIsFreed ==
    \A c \in Conns :
        (Alive(c) /\ peer[c] \in {"fin", "rst"}) ~> conn[c].state = "freed"
=============================================================================
