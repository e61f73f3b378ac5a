-------------------------- MODULE TcpServerProofs --------------------------
(***************************************************************************)
(* Registration with epoll, ownership, the order of a connection's         *)
(* functors and what its users are told are right, for any connections,    *)
(* descriptors and io loops.  The invariant says what there is of a        *)
(* connection at each place of its life: which functor waits for it, on    *)
(* which loop, who holds it, and what its channel and the poller of its    *)
(* loop know of each other.                                                *)
(***************************************************************************)
EXTENDS TcpServer, FiniteSetTheorems, SequenceTheorems, TLAPS

States == {"none", "kConnecting", "kConnected", "kDisconnected", "freed"}
FunctorNames == {"connectEstablished", "removeConnection", "connectDestoryed"}
FunctorType == [name : FunctorNames, conn : Conns]
ConnType == [state : States, fd : Fds \cup {Nil}, loop : Loops]
ChanType == [events : SUBSET {"IN"}, index : {"kNew", "kAdded", "kDeleted"}]
Registered == [conn : Conns, events : {{"IN"}}]
PollerType == [epoll : [Fds -> Registered \cup {Nil}], channels : [Fds -> Conns \cup {Nil}]]

PeersTyped ==
    /\ backlog \subseteq Conns
    /\ peer \in [Conns -> {"none", "open", "fin", "rst"}]
    /\ unread \in [Conns -> 0 .. MaxUnread]

ObjectsTyped ==
    /\ connections \subseteq Conns
    /\ next \in 0 .. Len(IoLoops) - 1
    /\ conn \in [Conns -> ConnType]
    /\ chan \in [Conns -> ChanType]
    /\ poller \in [Io -> PollerType]
    /\ told \in [Conns -> Seq({"up", "down"})]

LoopsTyped ==
    /\ pc \in [Loops -> {"poll", "events", "functors"}]
    /\ DOMAIN active = Loops
    /\ queue \in [Loops -> Seq(FunctorType)] /\ batch \in [Loops -> Seq(FunctorType)]
    /\ ran \in [Loops -> Nat]
    /\ \A l \in Loops : ran[l] <= Len(batch[l])

Typed == PeersTyped /\ ObjectsTyped /\ LoopsTyped

\* Connections that are alive have a descriptor of their own and an io loop.
Descriptors ==
    /\ \A c \in Conns : Alive(c) => conn[c].fd \in Fds /\ conn[c].loop \in Io
    /\ \A c, d \in Conns : Alive(c) /\ Alive(d) /\ c # d => conn[c].fd # conn[d].fd

\* What users have been told of a connection in each state, by its channel's index.
ToldIn(state, index) ==
    CASE state \in {"none", "kConnecting"} -> <<>>
      [] state = "kConnected" -> <<"up">>
      [] state = "kDisconnected" /\ index # "kNew" -> <<"up", "down">>
      [] OTHER -> <<"up", "down", "down">>

\* Where the peer is at the beginning and at the end of a connection, and what the
\* users have been told.
Ends ==
    \A c \in Conns :
        /\ peer[c] = "none" \/ c \in backlog => conn[c].state = "none"
        /\ c \in backlog => peer[c] # "none"
        /\ conn[c].state \in {"kDisconnected", "freed"} => peer[c] \in {"fin", "rst"}
        /\ told[c] = ToldIn(conn[c].state, chan[c].index)

\* The table and the channel of a connection in each of its states.
Stages ==
    \A c \in Conns :
        /\ c \in connections => Alive(c)
        /\ conn[c].state \in {"kConnecting", "kConnected"} => c \in connections
        /\ conn[c].state \in {"none", "kConnecting"} =>
               chan[c].events = {} /\ chan[c].index = "kNew"
        /\ conn[c].state = "kConnected" =>
               chan[c].events = {"IN"} /\ chan[c].index = "kAdded"
        /\ conn[c].state = "kDisconnected" => chan[c].events = {} /\ chan[c].index # "kAdded"
        /\ conn[c].state = "kDisconnected" /\ c \in connections => chan[c].index = "kDeleted"

\* What epoll has of each loop, and the poller's m_channels.
InEpoll ==
    /\ \A l \in Io, f \in Fds : poller[l].epoll[f] # Nil =>
         /\ conn[poller[l].epoll[f].conn].state = "kConnected"
         /\ conn[poller[l].epoll[f].conn].loop = l
         /\ conn[poller[l].epoll[f].conn].fd = f
    /\ \A c \in Conns : conn[c].state = "kConnected" =>
         poller[conn[c].loop].epoll[conn[c].fd] = [conn |-> c, events |-> {"IN"}]

InChannels ==
    /\ \A l \in Io, f \in Fds : poller[l].channels[f] # Nil =>
         /\ Alive(poller[l].channels[f]) /\ chan[poller[l].channels[f]].index # "kNew"
         /\ conn[poller[l].channels[f]].loop = l
         /\ conn[poller[l].channels[f]].fd = f
    /\ \A c \in Conns : Alive(c) /\ chan[c].index # "kNew" =>
         poller[conn[c].loop].channels[conn[c].fd] = c

\* Events that are still to be handled are those of connections that are up, one
\* each, with something to read or a peer that has left.
Reported ==
    \A l \in Io : \A a \in active[l] :
        /\ a.conn \in Conns
        /\ conn[a.conn].state = "kConnected" /\ conn[a.conn].loop = l
        /\ "IN" \in a.revents
        /\ unread[a.conn] > 0 \/ peer[a.conn] \in {"fin", "rst"}
        /\ \A b \in active[l] : a.conn = b.conn => a = b

\* The functor that must be waiting for each connection, and the loop it waits on.
Nothing == [loop |-> Main, name |-> "nothing"]
DueType == [loop : Loops, name : FunctorNames \cup {"nothing"}]
Due ==
    [c \in Conns |->
        IF conn[c].state = "kConnecting"
        THEN [loop |-> conn[c].loop, name |-> "connectEstablished"]
        ELSE IF conn[c].state = "kDisconnected" /\ c \in connections
        THEN [loop |-> Main, name |-> "removeConnection"]
        ELSE IF conn[c].state = "kDisconnected" /\ chan[c].index # "kNew"
        THEN [loop |-> conn[c].loop, name |-> "connectDestoryed"]
        ELSE Nothing]

\* The functors each loop has yet to run.
Todo == [l \in Loops |-> ToRun(l)]

\* Every functor is the one due, there is one of each connection at most, and what
\* is due waits.
Matches(due, todo) ==
    /\ \A l \in Loops : \A i \in 1 .. Len(todo[l]) :
         due[todo[l][i].conn] = [loop |-> l, name |-> todo[l][i].name]
    /\ \A l \in Loops : \A i, j \in 1 .. Len(todo[l]) :
         todo[l][i].conn = todo[l][j].conn => i = j
    /\ \A c \in Conns : due[c].name # "nothing" =>
         \E i \in 1 .. Len(todo[due[c].loop]) : todo[due[c].loop][i].conn = c

Tasks == Matches(Due, Todo)

\* A batch is there while its functors run, and holds connections that are alive.
Batches ==
    \A l \in Loops :
        /\ pc[l] # "functors" => batch[l] = <<>> /\ ran[l] = 0
        /\ \A i \in 1 .. Len(batch[l]) : Alive(batch[l][i].conn)

IInv ==
    /\ Typed /\ Descriptors /\ Ends /\ Stages /\ InEpoll /\ InChannels
    /\ Reported /\ Tasks /\ Batches
-----------------------------------------------------------------------------
(* Constants and sequences *)

LEMMA Consts ==
    /\ Len(IoLoops) \in Nat /\ Len(IoLoops) > 0
    /\ \A n \in 0 .. Len(IoLoops) - 1 : IoLoops[n + 1] \in Io /\ Turn(n) \in 0 .. Len(IoLoops) - 1
    /\ Main \notin Io /\ Main \in Loops /\ Io \subseteq Loops /\ Loops = Io \cup {Main}
<1> DEFINE S == {IoLoops[i] : i \in DOMAIN IoLoops}
<1>1. Len(IoLoops) \in Nat /\ DOMAIN IoLoops = 1 .. Len(IoLoops) /\ Len(IoLoops) > 0
  BY LoopsAssumption, LenProperties
<1>2. ASSUME NEW n \in 0 .. Len(IoLoops) - 1
      PROVE  IoLoops[n + 1] \in Io /\ Turn(n) \in 0 .. Len(IoLoops) - 1
  <2>1. n + 1 \in DOMAIN IoLoops
    BY <1>1
  <2>2. (n + 1) % Len(IoLoops) \in 0 .. Len(IoLoops) - 1
    BY <1>1
  <2> QED
    BY <2>1, <2>2 DEF Io, Turn
<1> QED
  BY <1>1, <1>2, LoopsAssumption DEF Io, Loops

\* What each callback adds to what has been told.
LEMMA ToldSteps ==
    /\ ToldIn("none", "kNew") = <<>> /\ ToldIn("kConnecting", "kNew") = <<>>
    /\ ToldIn("kConnected", "kAdded") = Append(ToldIn("kConnecting", "kNew"), "up")
    /\ ToldIn("kDisconnected", "kDeleted") = Append(ToldIn("kConnected", "kAdded"), "down")
    /\ ToldIn("kDisconnected", "kNew") = Append(ToldIn("kDisconnected", "kDeleted"), "down")
    /\ ToldIn("freed", "kNew") = ToldIn("kDisconnected", "kNew")
<1> DEFINE Names == {"up", "down"}
<1>1. Append(<<>>, "up") = <<"up">>
  OBVIOUS
<1>2. Append(<<"up">>, "down") = <<"up", "down">>
  <2> DEFINE s == Append(<<"up">>, "down")
             t == <<"up", "down">>
  <2>1. <<"up">> \in Seq(Names) /\ "down" \in Names /\ Len(<<"up">>) = 1
    OBVIOUS
  <2>2. /\ s \in Seq(Names) /\ Len(s) = 2
        /\ \A i \in 1 .. 1 : s[i] = <<"up">>[i]
        /\ s[2] = "down"
    BY <2>1, AppendProperties
  <2>3. s[1] = "up"
    BY <2>2
  <2>4. t \in Seq(Names) /\ Len(t) = 2 /\ t[1] = "up" /\ t[2] = "down"
    OBVIOUS
  <2> HIDE DEF s, t, Names
  <2>5. \A i \in 1 .. 2 : i = 1 \/ i = 2
    OBVIOUS
  <2>6. s = t
    BY <2>2, <2>3, <2>4, <2>5, SeqEqual
  <2> QED
    BY <2>6 DEF s, t
<1>3. Append(<<"up", "down">>, "down") = <<"up", "down", "down">>
  <2> DEFINE s == Append(<<"up", "down">>, "down")
             t == <<"up", "down", "down">>
  <2>1. <<"up", "down">> \in Seq(Names) /\ "down" \in Names /\ Len(<<"up", "down">>) = 2
    OBVIOUS
  <2>2. /\ s \in Seq(Names) /\ Len(s) = 3
        /\ \A i \in 1 .. 2 : s[i] = <<"up", "down">>[i]
        /\ s[3] = "down"
    BY <2>1, AppendProperties
  <2>3. s[1] = "up" /\ s[2] = "down"
    BY <2>2
  <2>4. t \in Seq(Names) /\ Len(t) = 3 /\ t[1] = "up" /\ t[2] = "down" /\ t[3] = "down"
    OBVIOUS
  <2> HIDE DEF s, t, Names
  <2>5. \A i \in 1 .. 3 : i = 1 \/ i = 2 \/ i = 3
    OBVIOUS
  <2>6. s = t
    BY <2>2, <2>3, <2>4, <2>5, SeqEqual
  <2> QED
    BY <2>6 DEF s, t
<1>4. /\ ToldIn("none", "kNew") = <<>> /\ ToldIn("kConnecting", "kNew") = <<>>
      /\ ToldIn("kConnected", "kAdded") = <<"up">>
      /\ ToldIn("kDisconnected", "kDeleted") = <<"up", "down">>
      /\ ToldIn("kDisconnected", "kNew") = <<"up", "down", "down">>
      /\ ToldIn("freed", "kNew") = <<"up", "down", "down">>
  BY DEF ToldIn
<1> QED
  BY <1>1, <1>2, <1>3, <1>4

LEMMA TellTyped ==
    ASSUME ObjectsTyped, NEW c \in Conns, NEW what \in {"up", "down"}, Tell(c, what)
    PROVE  /\ told' \in [Conns -> Seq({"up", "down"})]
           /\ told'[c] = Append(told[c], what)
           /\ \A d \in Conns \ {c} : told'[d] = told[d]
<1>1. Append(told[c], what) \in Seq({"up", "down"})
  BY AppendProperties DEF ObjectsTyped
<1> QED
  BY <1>1 DEF ObjectsTyped, Tell

LEMMA FunctorTyped ==
    ASSUME NEW f \in FunctorNames, NEW c \in Conns
    PROVE  Functor(f, c) \in FunctorType /\ Functor(f, c).name = f /\ Functor(f, c).conn = c
BY DEF Functor, FunctorType

\* What is left to run of b after its first n, and then q.
Rest(b, n, q) == SubSeq(b, n + 1, Len(b)) \o q

LEMMA RestTyped ==
    ASSUME NEW S, NEW b \in Seq(S), NEW q \in Seq(S), NEW n \in Nat
    PROVE  SubSeq(b, n + 1, Len(b)) \in Seq(S) /\ Rest(b, n, q) \in Seq(S)
<1>1. SubSeq(b, n + 1, Len(b)) \in Seq(S)
  <2>1. Len(b) \in Nat /\ \A i \in (n + 1) .. Len(b) : b[i] \in S
    BY LenProperties, ElementOfSeq
  <2> QED
    BY <2>1, SubSeqProperties
<1> QED
  BY <1>1, ConcatProperties DEF Rest

LEMMA RestAppend ==
    ASSUME NEW S, NEW b \in Seq(S), NEW q \in Seq(S), NEW n \in Nat, NEW x \in S
    PROVE  Rest(b, n, Append(q, x)) = Append(Rest(b, n, q), x)
<1> DEFINE s == SubSeq(b, n + 1, Len(b))
<1>1. s \in Seq(S)
  BY RestTyped
<1>2. ASSUME NEW t \in Seq(S) PROVE t \o Append(q, x) = Append(t \o q, x)
  OBVIOUS
<1> QED
  BY <1>1, <1>2 DEF Rest

LEMMA RestTail ==
    ASSUME NEW S, NEW b \in Seq(S), NEW q \in Seq(S), NEW n \in Nat, n < Len(b)
    PROVE  /\ Rest(b, n, q) # <<>> /\ Head(Rest(b, n, q)) = b[n + 1]
           /\ Rest(b, n + 1, q) = Tail(Rest(b, n, q))
<1> DEFINE s == SubSeq(b, n + 1, Len(b))
           t == SubSeq(b, n + 2, Len(b))
<1>1. Len(b) \in Nat /\ n + 1 \in 1 .. Len(b) /\ Len(b) \in (n + 1) .. Len(b)
  BY LenProperties
<1>2. Head(s) = b[n + 1] /\ Tail(s) = t
  <2>1. n + 1 + 1 = n + 2
    OBVIOUS
  <2> QED
    BY <1>1, <2>1, HeadTailOfSubSeq
<1>3. s \in Seq(S) /\ s # <<>>
  <2>1. s \in Seq(S)
    BY RestTyped
  <2>2. Len(s) = Len(b) - n
    <3>1. \A i \in (n + 1) .. Len(b) : b[i] \in S
      BY <1>1, ElementOfSeq
    <3>2. Len(s) = IF n + 1 <= Len(b) THEN Len(b) - (n + 1) + 1 ELSE 0
      BY <1>1, <3>1, SubSeqProperties
    <3> QED
      BY <1>1, <3>2
  <2>3. Len(b) - n # 0
    BY <1>1
  <2> HIDE DEF s
  <2> QED
    BY <2>1, <2>2, <2>3, EmptySeq
<1>4. ASSUME NEW u \in Seq(S), u # <<>>
      PROVE  u \o q # <<>> /\ Head(u \o q) = Head(u) /\ Tail(u \o q) = Tail(u) \o q
  BY <1>4
<1>5. Rest(b, n, q) = s \o q /\ Rest(b, n + 1, q) = t \o q
  <2>1. n + 1 + 1 = n + 2
    OBVIOUS
  <2> QED
    BY <2>1 DEF Rest
<1> HIDE DEF s, t
<1> QED
  BY <1>2, <1>3, <1>4, <1>5

LEMMA RestEnds ==
    ASSUME NEW S, NEW b \in Seq(S), NEW q \in Seq(S)
    PROVE  /\ Rest(<<>>, 0, q) = q /\ Rest(b, Len(b), q) = q
           /\ Rest(b, 0, <<>>) = b
<1>1. Len(b) \in Nat /\ Len(<<>>) = 0
  BY LenProperties
<1>2. SubSeq(<<>>, 0 + 1, Len(<<>>)) = <<>>
  BY <1>1, SubSeqEmpty
<1>3. SubSeq(b, Len(b) + 1, Len(b)) = <<>>
  BY <1>1, SubSeqEmpty
<1>4. SubSeq(b, 0 + 1, Len(b)) = b
  BY SubSeqFull
<1> QED
  BY <1>2, <1>3, <1>4, ConcatEmptySeq DEF Rest

LEMMA RestElements ==
    ASSUME NEW S, NEW b \in Seq(S), NEW q \in Seq(S), NEW n \in Nat, n <= Len(b),
           NEW j \in 1 .. Len(Rest(b, n, q))
    PROVE  \/ \E i \in 1 .. Len(b) : Rest(b, n, q)[j] = b[i]
           \/ \E i \in 1 .. Len(q) : Rest(b, n, q)[j] = q[i]
<1> DEFINE s == SubSeq(b, n + 1, Len(b))
<1>1. Len(b) \in Nat /\ Len(q) \in Nat /\ n + 1 \in Int /\ Len(b) \in Int
  BY LenProperties
<1>2. s \in Seq(S)
  BY RestTyped
<1>3. Len(s) = Len(b) - n /\ \A i \in 1 .. Len(b) - n : s[i] = b[n + i]
  <2>1. \A i \in (n + 1) .. Len(b) : b[i] \in S
    BY <1>1, ElementOfSeq
  <2>2. /\ Len(s) = IF n + 1 <= Len(b) THEN Len(b) - (n + 1) + 1 ELSE 0
        /\ \A i \in 1 .. Len(b) - (n + 1) + 1 : s[i] = b[(n + 1) + i - 1]
    BY <1>1, <2>1, SubSeqProperties
  <2> HIDE DEF s
  <2>3. \A i \in 1 .. Len(b) - n : i \in 1 .. Len(b) - (n + 1) + 1 /\ (n + 1) + i - 1 = n + i
    BY <1>1
  <2> QED
    BY <1>1, <2>2, <2>3
<1>4. Rest(b, n, q) = s \o q
  BY DEF Rest
<1> HIDE DEF s
<1>5. /\ Len(Rest(b, n, q)) = Len(s) + Len(q)
      /\ Rest(b, n, q)[j] = IF j <= Len(s) THEN s[j] ELSE q[j - Len(s)]
  BY <1>2, <1>4, ConcatProperties
<1>6. CASE j <= Len(s)
  <2>1. j \in 1 .. Len(b) - n /\ n + j \in 1 .. Len(b)
    BY <1>1, <1>3, <1>6
  <2> QED
    BY <1>3, <1>5, <1>6, <2>1
<1>7. CASE ~ j <= Len(s)
  <2>1. j - Len(s) \in 1 .. Len(q)
    BY <1>1, <1>3, <1>5, <1>7
  <2> QED
    BY <1>5, <1>7, <2>1
<1> QED
  BY <1>6, <1>7

-----------------------------------------------------------------------------
(* The functors due and those that wait: what adding one or taking one off does *)

LEMMA MatchesAdd ==
    ASSUME NEW due \in [Conns -> DueType], NEW todo \in [Loops -> Seq(FunctorType)],
           NEW l \in Loops, NEW f \in FunctorNames, NEW c \in Conns,
           Matches(due, todo), due[c].name = "nothing"
    PROVE  Matches([due EXCEPT ![c] = [loop |-> l, name |-> f]],
                   [todo EXCEPT ![l] = Append(@, Functor(f, c))])
<1> DEFINE d == [due EXCEPT ![c] = [loop |-> l, name |-> f]]
           t == [todo EXCEPT ![l] = Append(@, Functor(f, c))]
<1>1. \A k \in Loops : Len(todo[k]) \in Nat /\ todo[k] \in Seq(FunctorType)
  BY LenProperties
<1>2. \A k \in Loops : \A i \in 1 .. Len(todo[k]) :
        todo[k][i] \in FunctorType /\ todo[k][i].conn \in Conns /\ todo[k][i].conn # c
           /\ todo[k][i].name # "nothing"
  <2> TAKE k \in Loops
  <2> TAKE i \in 1 .. Len(todo[k])
  <2>1. todo[k][i] \in FunctorType
    BY <1>1, ElementOfSeq
  <2>2. todo[k][i].conn \in Conns /\ todo[k][i].name # "nothing"
    BY <2>1 DEF FunctorType, FunctorNames
  <2>3. due[todo[k][i].conn].name = todo[k][i].name
    <3>1. due[todo[k][i].conn] = [loop |-> k, name |-> todo[k][i].name]
      BY DEF Matches
    <3> QED
      BY <3>1
  <2> QED
    BY <2>1, <2>2, <2>3
<1>3. /\ Len(t[l]) = Len(todo[l]) + 1 /\ t[l][Len(todo[l]) + 1] = Functor(f, c)
      /\ \A i \in 1 .. Len(todo[l]) : t[l][i] = todo[l][i]
  <2>1. t[l] = Append(todo[l], Functor(f, c))
    OBVIOUS
  <2> QED
    BY <1>1, <2>1, FunctorTyped, AppendProperties
<1>4. \A k \in Loops \ {l} : t[k] = todo[k]
  OBVIOUS
<1>5. d[c] = [loop |-> l, name |-> f] /\ \A e \in Conns \ {c} : d[e] = due[e]
  OBVIOUS
<1>6. Functor(f, c).name = f /\ Functor(f, c).conn = c
  BY FunctorTyped
<1> HIDE DEF d, t
<1>7. \A k \in Loops : \A i \in 1 .. Len(t[k]) : d[t[k][i].conn] = [loop |-> k, name |-> t[k][i].name]
  <2> TAKE k \in Loops
  <2> TAKE i \in 1 .. Len(t[k])
  <2>1. CASE k = l /\ i = Len(todo[l]) + 1
    BY <2>1, <1>3, <1>5, <1>6
  <2>2. CASE ~ (k = l /\ i = Len(todo[l]) + 1)
    <3>1. i \in 1 .. Len(todo[k]) /\ t[k][i] = todo[k][i]
      BY <2>2, <1>1, <1>3, <1>4
    <3> QED
      BY <3>1, <1>2, <1>5 DEF Matches
  <2> QED
    BY <2>1, <2>2
<1>8. \A k \in Loops : \A i, j \in 1 .. Len(t[k]) : t[k][i].conn = t[k][j].conn => i = j
  <2> TAKE k \in Loops
  <2> TAKE i, j \in 1 .. Len(t[k])
  <2>1. CASE k = l
    BY <2>1, <1>1, <1>2, <1>3, <1>6 DEF Matches
  <2>2. CASE k # l
    BY <2>2, <1>4 DEF Matches
  <2> QED
    BY <2>1, <2>2
<1>9. \A e \in Conns : d[e].name # "nothing" =>
        \E i \in 1 .. Len(t[d[e].loop]) : t[d[e].loop][i].conn = e
  <2> SUFFICES ASSUME NEW e \in Conns, d[e].name # "nothing"
               PROVE  \E i \in 1 .. Len(t[d[e].loop]) : t[d[e].loop][i].conn = e
    OBVIOUS
  <2>1. CASE e = c
    <3>1. d[e].loop = l
      BY <2>1, <1>5
    <3>2. Len(todo[l]) + 1 \in 1 .. Len(t[l])
      BY <1>1, <1>3
    <3> QED
      BY <2>1, <3>1, <3>2, <1>3, <1>6
  <2>2. CASE e # c
    <3>1. d[e] = due[e] /\ due[e].loop \in Loops
      BY <2>2, <1>5 DEF DueType
    <3>2. PICK i \in 1 .. Len(todo[due[e].loop]) : todo[due[e].loop][i].conn = e
      BY <3>1 DEF Matches
    <3>3. i \in 1 .. Len(t[due[e].loop]) /\ t[due[e].loop][i] = todo[due[e].loop][i]
      BY <3>1, <1>1, <1>3, <1>4
    <3> QED
      BY <3>1, <3>2, <3>3
  <2> QED
    BY <2>1, <2>2
<1> QED
  BY <1>7, <1>8, <1>9 DEF Matches, d, t

LEMMA MatchesTake ==
    ASSUME NEW due \in [Conns -> DueType], NEW todo \in [Loops -> Seq(FunctorType)],
           NEW l \in Loops, Matches(due, todo), todo[l] # <<>>
    PROVE  /\ Head(todo[l]) \in FunctorType
           /\ due[Head(todo[l]).conn] = [loop |-> l, name |-> Head(todo[l]).name]
           /\ Matches([due EXCEPT ![Head(todo[l]).conn] = Nothing],
                      [todo EXCEPT ![l] = Tail(@)])
<1> DEFINE c == Head(todo[l]).conn
           d == [due EXCEPT ![c] = Nothing]
           t == [todo EXCEPT ![l] = Tail(@)]
<1>1. \A k \in Loops : Len(todo[k]) \in Nat /\ todo[k] \in Seq(FunctorType)
  BY LenProperties
<1>2. Head(todo[l]) = todo[l][1] /\ 1 \in 1 .. Len(todo[l]) /\ Head(todo[l]) \in FunctorType
  <2>1. Len(todo[l]) \in Nat \ {0}
    BY <1>1, EmptySeq
  <2> QED
    BY <1>1, <2>1, ElementOfSeq
<1>3. c \in Conns /\ due[c] = [loop |-> l, name |-> Head(todo[l]).name]
  <2>1. c \in Conns
    BY <1>2 DEF FunctorType
  <2>2. due[todo[l][1].conn] = [loop |-> l, name |-> todo[l][1].name]
    BY <1>2 DEF Matches
  <2> QED
    BY <1>2, <2>1, <2>2
<1>4. \A k \in Loops : \A i \in 1 .. Len(todo[k]) :
        /\ todo[k][i].conn \in Conns
        /\ todo[k][i].conn = c => k = l /\ i = 1
  <2> TAKE k \in Loops
  <2> TAKE i \in 1 .. Len(todo[k])
  <2>1. todo[k][i] \in FunctorType
    BY <1>1, ElementOfSeq
  <2>2. todo[k][i].conn \in Conns
    BY <2>1 DEF FunctorType
  <2>3. due[todo[k][i].conn].loop = k
    <3>1. due[todo[k][i].conn] = [loop |-> k, name |-> todo[k][i].name]
      BY DEF Matches
    <3> QED
      BY <3>1
  <2>4. todo[k][i].conn = c => k = l
    BY <2>3, <1>3
  <2>5. todo[l][i].conn = todo[l][1].conn /\ i \in 1 .. Len(todo[l]) => i = 1
    BY <1>2 DEF Matches
  <2> QED
    BY <2>2, <2>4, <2>5, <1>2
<1>5. Len(t[l]) = Len(todo[l]) - 1 /\ \A i \in 1 .. Len(t[l]) : t[l][i] = todo[l][i + 1]
  <2>1. t[l] = Tail(todo[l])
    OBVIOUS
  <2> QED
    BY <1>1, <2>1, HeadTailProperties
<1>6. \A k \in Loops \ {l} : t[k] = todo[k]
  OBVIOUS
<1>7. d[c] = Nothing /\ \A e \in Conns \ {c} : d[e] = due[e]
  BY <1>3
<1> HIDE DEF c, d, t
<1>8. \A k \in Loops : \A i \in 1 .. Len(t[k]) :
        \E j \in 1 .. Len(todo[k]) : t[k][i] = todo[k][j] /\ (k = l => j = i + 1) /\ (k # l => j = i)
  <2> TAKE k \in Loops
  <2> TAKE i \in 1 .. Len(t[k])
  <2>1. CASE k = l
    <3>1. \A m, n \in Nat : m = n - 1 => \A h \in 1 .. m : h + 1 \in 1 .. n
      OBVIOUS
    <3>2. Len(todo[l]) \in Nat /\ Len(t[l]) = Len(todo[l]) - 1 /\ Len(todo[l]) # 0
      BY <1>1, <1>2, <1>5
    <3>3. i + 1 \in 1 .. Len(todo[l])
      BY <2>1, <3>1, <3>2
    <3> QED
      BY <1>5, <2>1, <3>3
  <2>2. CASE k # l
    BY <1>6, <2>2
  <2> QED
    BY <2>1, <2>2
<1>9. \A k \in Loops : \A i \in 1 .. Len(t[k]) : d[t[k][i].conn] = [loop |-> k, name |-> t[k][i].name]
  <2> TAKE k \in Loops
  <2> TAKE i \in 1 .. Len(t[k])
  <2>1. PICK j \in 1 .. Len(todo[k]) :
          t[k][i] = todo[k][j] /\ (k = l => j = i + 1) /\ (k # l => j = i)
    BY <1>8
  <2>2. todo[k][j].conn \in Conns \ {c}
    BY <2>1, <1>4, <1>1
  <2> QED
    BY <2>1, <2>2, <1>7 DEF Matches
<1>10. \A k \in Loops : \A i, j \in 1 .. Len(t[k]) : t[k][i].conn = t[k][j].conn => i = j
  <2> TAKE k \in Loops
  <2> TAKE i, j \in 1 .. Len(t[k])
  <2>1. CASE k = l
    <3>1. i + 1 \in 1 .. Len(todo[l]) /\ j + 1 \in 1 .. Len(todo[l])
      BY <2>1, <1>1, <1>5
    <3>2. t[l][i] = todo[l][i + 1] /\ t[l][j] = todo[l][j + 1]
      BY <2>1, <1>5
    <3>3. todo[l][i + 1].conn = todo[l][j + 1].conn => i + 1 = j + 1
      BY <3>1 DEF Matches
    <3> QED
      BY <2>1, <3>2, <3>3
  <2>2. CASE k # l
    BY <2>2, <1>6 DEF Matches
  <2> QED
    BY <2>1, <2>2
<1>11. \A e \in Conns : d[e].name # "nothing" =>
         \E i \in 1 .. Len(t[d[e].loop]) : t[d[e].loop][i].conn = e
  <2> SUFFICES ASSUME NEW e \in Conns, d[e].name # "nothing"
               PROVE  \E i \in 1 .. Len(t[d[e].loop]) : t[d[e].loop][i].conn = e
    OBVIOUS
  <2>1. e # c /\ d[e] = due[e] /\ due[e].loop \in Loops
    BY <1>7 DEF Nothing, DueType
  <2>2. PICK j \in 1 .. Len(todo[due[e].loop]) : todo[due[e].loop][j].conn = e
    BY <2>1 DEF Matches
  <2>3. CASE due[e].loop = l
    <3>1. j # 1
      BY <2>1, <2>2, <2>3, <1>2 DEF c
    <3>2. j - 1 \in 1 .. Len(t[l]) /\ t[l][j - 1] = todo[l][j]
      BY <2>3, <3>1, <1>1, <1>5
    <3> QED
      BY <2>1, <2>2, <2>3, <3>2
  <2>4. CASE due[e].loop # l
    BY <2>1, <2>2, <2>4, <1>6
  <2> QED
    BY <2>3, <2>4
<1>12. Matches(d, t)
  BY <1>9, <1>10, <1>11 DEF Matches
<1> QED
  BY <1>2, <1>3, <1>12 DEF c, d, t

LEMMA DueTyped == ASSUME ObjectsTyped PROVE Due \in [Conns -> DueType]
<1> SUFFICES ASSUME NEW c \in Conns PROVE Due[c] \in DueType
  BY DEF Due
<1>1. conn[c].loop \in Loops
  BY DEF ObjectsTyped, ConnType
<1>2. \A l \in Loops, f \in FunctorNames \cup {"nothing"} : [loop |-> l, name |-> f] \in DueType
  BY DEF DueType
<1>3. Nothing \in DueType
  BY <1>2, Consts DEF Nothing
<1> QED
  BY <1>1, <1>2, <1>3, Consts DEF Due, FunctorNames

\* What is due of one connection alone has changed.
LEMMA DueChanged ==
    ASSUME NEW c \in Conns, NEW v, Due'[c] = v,
           \A d \in Conns \ {c} : /\ conn'[d] = conn[d] /\ chan'[d].index = chan[d].index
                                  /\ d \in connections' <=> d \in connections
    PROVE  Due' = [Due EXCEPT ![c] = v]
<1>1. \A d \in Conns \ {c} : Due'[d] = Due[d]
  BY DEF Due
<1>2. Due' = [d \in Conns |-> Due'[d]] /\ Due = [d \in Conns |-> Due[d]]
  BY DEF Due
<1> QED
  BY <1>1, <1>2

LEMMA DueSame ==
    ASSUME UNCHANGED <<conn, connections, chan>>
    PROVE  Due' = Due
BY DEF Due

LEMMA TodoTyped ==
    ASSUME LoopsTyped
    PROVE  /\ Todo \in [Loops -> Seq(FunctorType)]
           /\ \A l \in Loops : Todo[l] = Rest(batch[l], ran[l], queue[l])
<1>1. \A l \in Loops : Todo[l] = Rest(batch[l], ran[l], queue[l])
  BY DEF Todo, ToRun, Rest
<1>2. \A l \in Loops : Rest(batch[l], ran[l], queue[l]) \in Seq(FunctorType)
  BY RestTyped DEF LoopsTyped
<1> QED
  BY <1>1, <1>2 DEF Todo

\* The rest of a loop's functors after a step, from its batch and its queue.
LEMMA TodoPrimed ==
    /\ Todo' = [l \in Loops |-> Todo'[l]]
    /\ \A l \in Loops : Todo'[l] = Rest(batch'[l], ran'[l], queue'[l])
BY DEF Todo, ToRun, Rest

LEMMA TodoSame ==
    ASSUME LoopsTyped, UNCHANGED <<queue, batch, ran>>
    PROVE  Todo' = Todo
BY DEF Todo, ToRun

LEMMA TodoAdded ==
    ASSUME LoopsTyped, NEW l \in Loops, NEW x \in FunctorType,
           queue' = [queue EXCEPT ![l] = Append(@, x)], UNCHANGED <<batch, ran>>
    PROVE  Todo' = [Todo EXCEPT ![l] = Append(@, x)]
<1>1. queue'[l] = Append(queue[l], x) /\ \A k \in Loops \ {l} : queue'[k] = queue[k]
  BY DEF LoopsTyped
<1>2. Todo'[l] = Append(Todo[l], x)
  <2>1. Rest(batch[l], ran[l], Append(queue[l], x)) = Append(Rest(batch[l], ran[l], queue[l]), x)
    BY RestAppend DEF LoopsTyped
  <2> QED
    BY <1>1, <2>1, TodoTyped, TodoPrimed
<1>3. \A k \in Loops \ {l} : Todo'[k] = Todo[k]
  BY <1>1, TodoTyped, TodoPrimed DEF LoopsTyped
<1> QED
  BY <1>2, <1>3, TodoTyped, TodoPrimed

LEMMA TodoTaken ==
    ASSUME LoopsTyped, NEW l \in Loops, ran[l] < Len(batch[l]),
           ran' = [ran EXCEPT ![l] = @ + 1], UNCHANGED batch,
           queue' = queue
    PROVE  /\ Todo[l] # <<>> /\ Head(Todo[l]) = batch[l][ran[l] + 1]
           /\ Todo' = [Todo EXCEPT ![l] = Tail(@)]
<1>1. ran'[l] = ran[l] + 1 /\ \A k \in Loops \ {l} : ran'[k] = ran[k]
  BY DEF LoopsTyped
<1>2. Todo[l] # <<>> /\ Head(Todo[l]) = batch[l][ran[l] + 1] /\ Todo'[l] = Tail(Todo[l])
  <2>1. /\ Rest(batch[l], ran[l], queue[l]) # <<>>
        /\ Head(Rest(batch[l], ran[l], queue[l])) = batch[l][ran[l] + 1]
        /\ Rest(batch[l], ran[l] + 1, queue[l]) = Tail(Rest(batch[l], ran[l], queue[l]))
    BY RestTail DEF LoopsTyped
  <2> QED
    BY <1>1, <2>1, TodoTyped, TodoPrimed
<1>3. \A k \in Loops \ {l} : Todo'[k] = Todo[k]
  BY <1>1, TodoTyped, TodoPrimed DEF LoopsTyped
<1> QED
  BY <1>2, <1>3, TodoTyped, TodoPrimed

LEMMA TodoTakenAdded ==
    ASSUME LoopsTyped, NEW l \in Loops, ran[l] < Len(batch[l]),
           ran' = [ran EXCEPT ![l] = @ + 1], UNCHANGED batch,
           NEW k \in Loops \ {l}, NEW x \in FunctorType,
           queue' = [queue EXCEPT ![k] = Append(@, x)]
    PROVE  /\ Todo[l] # <<>> /\ Head(Todo[l]) = batch[l][ran[l] + 1]
           /\ Todo' = [[Todo EXCEPT ![l] = Tail(@)] EXCEPT ![k] = Append(@, x)]
<1>1. ran'[l] = ran[l] + 1 /\ \A m \in Loops \ {l} : ran'[m] = ran[m]
  BY DEF LoopsTyped
<1>2. queue'[k] = Append(queue[k], x) /\ \A m \in Loops \ {k} : queue'[m] = queue[m]
  BY DEF LoopsTyped
<1>3. Todo[l] # <<>> /\ Head(Todo[l]) = batch[l][ran[l] + 1] /\ Todo'[l] = Tail(Todo[l])
  <2>1. /\ Rest(batch[l], ran[l], queue[l]) # <<>>
        /\ Head(Rest(batch[l], ran[l], queue[l])) = batch[l][ran[l] + 1]
        /\ Rest(batch[l], ran[l] + 1, queue[l]) = Tail(Rest(batch[l], ran[l], queue[l]))
    BY RestTail DEF LoopsTyped
  <2> QED
    BY <1>1, <1>2, <2>1, TodoTyped, TodoPrimed
<1>4. Todo'[k] = Append(Todo[k], x)
  <2>1. Rest(batch[k], ran[k], Append(queue[k], x)) = Append(Rest(batch[k], ran[k], queue[k]), x)
    BY RestAppend DEF LoopsTyped
  <2> QED
    BY <1>1, <1>2, <2>1, TodoTyped, TodoPrimed
<1>5. \A m \in Loops \ {k, l} : Todo'[m] = Todo[m]
  BY <1>1, <1>2, TodoTyped, TodoPrimed DEF LoopsTyped
<1> QED
  BY <1>3, <1>4, <1>5, TodoTyped, TodoPrimed

-----------------------------------------------------------------------------
(* What handlers and functors do to a connection, its channel and its poller *)

LEMMA StateSet ==
    ASSUME ObjectsTyped, NEW c \in Conns, NEW s \in States, SetState(c, s)
    PROVE  /\ conn' \in [Conns -> ConnType]
           /\ conn'[c].state = s /\ conn'[c].fd = conn[c].fd /\ conn'[c].loop = conn[c].loop
           /\ \A d \in Conns \ {c} : conn'[d] = conn[d]
<1>1. conn \in [Conns -> ConnType] /\ conn' = [conn EXCEPT ![c].state = s]
  BY DEF ObjectsTyped, SetState
<1> QED
  BY <1>1 DEF ConnType

LEMMA RegisterDone ==
    ASSUME ObjectsTyped, NEW c \in Conns, conn[c].loop \in Io,
           NEW ev \in SUBSET {"IN"}, NEW ix \in {"kNew", "kAdded", "kDeleted"},
           NEW ep \in [Fds -> Registered \cup {Nil}], NEW ch \in [Fds -> Conns \cup {Nil}],
           Register(c, [events |-> ev, index |-> ix, epoll |-> ep, channels |-> ch])
    PROVE  /\ chan' \in [Conns -> ChanType] /\ poller' \in [Io -> PollerType]
           /\ chan'[c].events = ev /\ chan'[c].index = ix
           /\ \A d \in Conns \ {c} : chan'[d] = chan[d]
           /\ poller'[conn[c].loop].epoll = ep /\ poller'[conn[c].loop].channels = ch
           /\ \A l \in Io \ {conn[c].loop} : poller'[l] = poller[l]
<1>1. /\ chan' = [chan EXCEPT ![c] = [events |-> ev, index |-> ix]]
      /\ poller' = [poller EXCEPT ![conn[c].loop] = [epoll |-> ep, channels |-> ch]]
  BY DEF Register
<1>2. chan \in [Conns -> ChanType] /\ poller \in [Io -> PollerType]
  BY DEF ObjectsTyped
<1>3. [events |-> ev, index |-> ix] \in ChanType /\ [epoll |-> ep, channels |-> ch] \in PollerType
  BY DEF ChanType, PollerType
<1> QED
  BY <1>1, <1>2, <1>3

\* The records that the calls make of the channel and the poller of c.
LEMMA Registering ==
    ASSUME ObjectsTyped, NEW c \in Conns, conn[c].loop \in Io, conn[c].fd \in Fds
    PROVE  LET ep == poller[conn[c].loop].epoll
               ch == poller[conn[c].loop].channels
               fd == conn[c].fd
           IN  /\ ep \in [Fds -> Registered \cup {Nil}] /\ ch \in [Fds -> Conns \cup {Nil}]
               /\ chan[c].events = {} /\ chan[c].index = "kNew" =>
                    EnableReading(Registration(c), c) =
                      [events |-> {"IN"}, index |-> "kAdded",
                       epoll |-> [ep EXCEPT ![fd] = [conn |-> c, events |-> {"IN"}]],
                       channels |-> [ch EXCEPT ![fd] = c]]
               /\ chan[c].index = "kAdded" =>
                    DisableAll(Registration(c), c) =
                      [events |-> {}, index |-> "kDeleted",
                       epoll |-> [ep EXCEPT ![fd] = Nil], channels |-> ch]
               /\ chan[c].events = {} /\ chan[c].index = "kDeleted" =>
                    RemoveChannel(DisableAll(Registration(c), c), c) =
                      [events |-> {}, index |-> "kNew",
                       epoll |-> [ep EXCEPT ![fd] = Nil],
                       channels |-> [ch EXCEPT ![fd] = Nil]]
<1> DEFINE ep == poller[conn[c].loop].epoll
           ch == poller[conn[c].loop].channels
           fd == conn[c].fd
<1>1. ep \in [Fds -> Registered \cup {Nil}] /\ ch \in [Fds -> Conns \cup {Nil}]
  BY DEF ObjectsTyped, PollerType
<1>2. Registration(c) =
        [events |-> chan[c].events, index |-> chan[c].index, epoll |-> ep, channels |-> ch]
  BY DEF Registration
<1>3. ASSUME chan[c].events = {}, chan[c].index = "kNew"
      PROVE  EnableReading(Registration(c), c) =
               [events |-> {"IN"}, index |-> "kAdded",
                epoll |-> [ep EXCEPT ![fd] = [conn |-> c, events |-> {"IN"}]],
                channels |-> [ch EXCEPT ![fd] = c]]
  <2>1. [Registration(c) EXCEPT !.events = @ \cup {"IN"}] =
          [events |-> {"IN"}, index |-> "kNew", epoll |-> ep, channels |-> ch]
    BY <1>2, <1>3
  <2> HIDE DEF ep, ch
  <2> QED
    BY <2>1 DEF EnableReading, UpdateChannel, Add
<1>4. ASSUME chan[c].index = "kAdded"
      PROVE  DisableAll(Registration(c), c) =
               [events |-> {}, index |-> "kDeleted",
                epoll |-> [ep EXCEPT ![fd] = Nil], channels |-> ch]
  <2>1. [Registration(c) EXCEPT !.events = {}] =
          [events |-> {}, index |-> "kAdded", epoll |-> ep, channels |-> ch]
    BY <1>2, <1>4
  <2> HIDE DEF ep, ch
  <2> QED
    BY <2>1 DEF DisableAll, UpdateChannel, Delete
<1>5. ASSUME chan[c].events = {}, chan[c].index = "kDeleted"
      PROVE  RemoveChannel(DisableAll(Registration(c), c), c) =
               [events |-> {}, index |-> "kNew",
                epoll |-> [ep EXCEPT ![fd] = Nil],
                channels |-> [ch EXCEPT ![fd] = Nil]]
  <2>1. [Registration(c) EXCEPT !.events = {}] =
          [events |-> {}, index |-> "kDeleted", epoll |-> ep, channels |-> ch]
    BY <1>2, <1>5
  <2> DEFINE again == [ep EXCEPT ![fd] = [conn |-> c, events |-> {}]]
  <2>2. [ch EXCEPT ![fd] = ch[fd]] = ch /\ [again EXCEPT ![fd] = Nil] = [ep EXCEPT ![fd] = Nil]
    <3> HIDE DEF ep, ch
    <3> QED
      BY <1>1
  <2>3. DisableAll(Registration(c), c) =
          [events |-> {}, index |-> "kAdded", epoll |-> again, channels |-> ch]
    <3> HIDE DEF ep, ch
    <3> QED
      BY <2>1, <2>2 DEF DisableAll, UpdateChannel, Add
  <2> DEFINE r == [events |-> {}, index |-> "kAdded", epoll |-> again, channels |-> ch]
  <2>4. r.index = "kAdded" /\ Delete(r, c) = [ep EXCEPT ![fd] = Nil]
    BY <2>2 DEF Delete
  <2>5. RemoveChannel(r, c) =
          [r EXCEPT !.channels = [r.channels EXCEPT ![fd] = Nil], !.index = "kNew",
                    !.epoll = [ep EXCEPT ![fd] = Nil]]
    <3> HIDE DEF ep, ch, r
    <3> QED
      BY <2>4 DEF RemoveChannel
  <2> HIDE DEF ep, ch, again
  <2> QED
    BY <2>3, <2>4, <2>5
<1> QED
  BY <1>1, <1>3, <1>4, <1>5

-----------------------------------------------------------------------------
(* The invariant holds at the start, and peers and loops that poll keep it *)

LEMMA InitIInv == Init => IInv
<1> SUFFICES ASSUME Init PROVE IInv
  OBVIOUS
<1>1. PeersTyped
  BY ConnsAssumption DEF Init, PeersTyped
<1>2. ObjectsTyped
  <2>1. 0 \in 0 .. Len(IoLoops) - 1
    BY Consts
  <2>2. [state |-> "none", fd |-> Nil, loop |-> Main] \in ConnType
    BY Consts DEF ConnType, States
  <2>3. [events |-> {}, index |-> "kNew"] \in ChanType
    BY DEF ChanType
  <2>4. [epoll |-> [f \in Fds |-> Nil], channels |-> [f \in Fds |-> Nil]] \in PollerType
    BY DEF PollerType
  <2> QED
    BY <2>1, <2>2, <2>3, <2>4 DEF Init, ObjectsTyped
<1>3. LoopsTyped
  <2>1. <<>> \in Seq(FunctorType) /\ Len(<<>>) = 0
    OBVIOUS
  <2> QED
    BY <2>1 DEF Init, LoopsTyped
<1>4. Descriptors /\ Ends /\ Stages
  <2>1. Ends
    BY ToldSteps DEF Init, Ends
  <2> QED
    BY <2>1 DEF Init, Descriptors, Stages, Alive
<1>5. InEpoll /\ InChannels
  <2>1. \A c \in Conns : conn[c].state = "none" /\ ~ Alive(c)
    BY DEF Init, Alive
  <2>2. \A l \in Io, f \in Fds : poller[l].epoll[f] = Nil /\ poller[l].channels[f] = Nil
    BY DEF Init
  <2> QED
    BY <2>1, <2>2 DEF InEpoll, InChannels
<1>6. Reported
  BY Consts DEF Init, Reported
<1>7. Tasks
  <2>1. \A c \in Conns : Due[c].name = "nothing"
    BY DEF Init, Due, Nothing
  <2>2. \A l \in Loops : Todo[l] = <<>>
    <3> TAKE l \in Loops
    <3>1. batch[l] = <<>> /\ ran[l] = 0 /\ queue[l] = <<>>
      BY DEF Init
    <3>2. <<>> \in Seq(FunctorType)
      OBVIOUS
    <3>3. Rest(<<>>, 0, <<>>) = <<>>
      BY <3>2, RestEnds
    <3> QED
      BY <3>1, <3>3, <1>3, TodoTyped
  <2>3. \A l \in Loops : Len(Todo[l]) = 0
    BY <2>2
  <2> QED
    BY <2>1, <2>3 DEF Tasks, Matches
<1>8. Batches
  BY DEF Init, Batches
<1> QED
  BY <1>1, <1>2, <1>3, <1>4, <1>5, <1>6, <1>7, <1>8 DEF IInv, Typed

LEMMA ObjectsSame ==
    ASSUME IInv, UNCHANGED objects
    PROVE  ObjectsTyped' /\ Descriptors' /\ Stages' /\ InEpoll' /\ InChannels'
<1>1. ObjectsTyped'
  BY DEF IInv, Typed, ObjectsTyped, objects
<1>2. Descriptors' /\ Stages'
  BY DEF IInv, Descriptors, Stages, Alive, objects
<1>3. InEpoll' /\ InChannels'
  BY DEF IInv, InEpoll, InChannels, Alive, objects
<1> QED
  BY <1>1, <1>2, <1>3

LEMMA LoopsSame ==
    ASSUME IInv, UNCHANGED <<objects, loops>>
    PROVE  LoopsTyped' /\ Tasks' /\ Batches'
<1>1. LoopsTyped'
  BY DEF IInv, Typed, LoopsTyped, loops
<1>2. Due' = Due /\ Todo' = Todo
  BY DueSame, TodoSame DEF IInv, Typed, objects, loops
<1>3. Batches'
  BY DEF IInv, Batches, Alive, objects, loops
<1> QED
  BY <1>1, <1>2, <1>3 DEF IInv, Tasks

LEMMA PeerStepKeeps == ASSUME IInv, NEW c \in Conns, PeerStep(c) PROVE IInv'
<1>1. UNCHANGED <<objects, loops>>
  BY DEF PeerStep, Connect, Send, Leave
<1>2. PeersTyped'
  <2>1. CASE Connect(c)
    BY <2>1 DEF IInv, Typed, PeersTyped, Connect
  <2>2. CASE Send(c)
    BY <2>2, ConnsAssumption DEF IInv, Typed, PeersTyped, Send
  <2>3. CASE Leave(c, "fin") \/ Leave(c, "rst")
    BY <2>3 DEF IInv, Typed, PeersTyped, Leave
  <2> QED
    BY <2>1, <2>2, <2>3 DEF PeerStep
<1>3. Ends'
  <2> USE DEF IInv, Typed, PeersTyped, Ends, objects
  <2>1. CASE Connect(c)
    BY <2>1 DEF Connect
  <2>2. CASE Send(c)
    BY <2>2 DEF Send
  <2>3. CASE Leave(c, "fin") \/ Leave(c, "rst")
    BY <2>3 DEF Leave
  <2> QED
    BY <2>1, <2>2, <2>3 DEF PeerStep
<1>4. Reported'
  <2>1. \A d \in Conns : /\ unread'[d] >= unread[d] /\ unread[d] \in Nat /\ unread'[d] \in Nat
                         /\ peer[d] \in {"fin", "rst"} => peer'[d] = peer[d]
    BY ConnsAssumption DEF IInv, Typed, PeersTyped, PeerStep, Connect, Send, Leave
  <2>2. \A d \in Conns : unread[d] > 0 => unread'[d] > 0
    BY <2>1
  <2> QED
    BY <1>1, <2>1, <2>2 DEF IInv, Reported, objects, loops
<1> QED
  BY <1>1, <1>2, <1>3, <1>4, ObjectsSame, LoopsSame DEF IInv, Typed

\* What poll reports of an io loop.
LEMMA ReportsTrue ==
    ASSUME IInv, NEW l \in Io
    PROVE  \A a \in Reports(l) :
             /\ a.conn \in Conns
             /\ conn[a.conn].state = "kConnected" /\ conn[a.conn].loop = l
             /\ "IN" \in a.revents
             /\ unread[a.conn] > 0 \/ peer[a.conn] \in {"fin", "rst"}
             /\ \A b \in Reports(l) : a.conn = b.conn => a = b
<1> DEFINE Regs == {poller[l].epoll[f] : f \in Fds} \ {Nil}
<1>1. \A reg \in Regs : /\ reg \in Registered /\ conn[reg.conn].state = "kConnected"
                        /\ conn[reg.conn].loop = l
                        /\ reg = poller[l].epoll[conn[reg.conn].fd]
  <2> TAKE reg \in Regs
  <2>1. PICK f \in Fds : reg = poller[l].epoll[f] /\ reg # Nil
    OBVIOUS
  <2>2. reg \in Registered
    BY <2>1 DEF IInv, Typed, ObjectsTyped, PollerType
  <2> QED
    BY <2>1, <2>2 DEF IInv, InEpoll
<1>2. Reports(l) = {[conn |-> reg.conn, revents |-> Revents(reg)] :
                      reg \in {r \in Regs : Revents(r) # {}}}
  BY Consts DEF Reports
<1>3. \A reg \in Regs : Revents(reg) # {} =>
        /\ "IN" \in Revents(reg)
        /\ unread[reg.conn] > 0 \/ peer[reg.conn] \in {"fin", "rst"}
  <2> SUFFICES ASSUME NEW reg \in Regs, Revents(reg) # {}
               PROVE  /\ "IN" \in Revents(reg)
                      /\ unread[reg.conn] > 0 \/ peer[reg.conn] \in {"fin", "rst"}
    OBVIOUS
  <2>1. reg.conn \in Conns /\ reg.events = {"IN"}
    BY <1>1 DEF Registered
  <2>2. unread[reg.conn] > 0 \/ peer[reg.conn] # "open"
    BY <2>1 DEF Revents
  <2>3. peer[reg.conn] # "none"
    BY <1>1, <2>1 DEF IInv, Ends
  <2>4. peer[reg.conn] \in {"none", "open", "fin", "rst"}
    BY <2>1 DEF IInv, Typed, PeersTyped
  <2> QED
    BY <2>1, <2>2, <2>3, <2>4 DEF Revents
<1> HIDE DEF Regs
<1> SUFFICES ASSUME NEW a \in Reports(l)
             PROVE  /\ a.conn \in Conns
                    /\ conn[a.conn].state = "kConnected" /\ conn[a.conn].loop = l
                    /\ "IN" \in a.revents
                    /\ unread[a.conn] > 0 \/ peer[a.conn] \in {"fin", "rst"}
                    /\ \A b \in Reports(l) : a.conn = b.conn => a = b
  OBVIOUS
<1>4. PICK reg \in Regs : a = [conn |-> reg.conn, revents |-> Revents(reg)] /\ Revents(reg) # {}
  BY <1>2
<1>5. a.conn = reg.conn /\ a.revents = Revents(reg) /\ reg.conn \in Conns
  BY <1>1, <1>4 DEF Registered
<1>6. ASSUME NEW b \in Reports(l), a.conn = b.conn PROVE a = b
  <2>1. PICK other \in Regs : b = [conn |-> other.conn, revents |-> Revents(other)]
    BY <1>2
  <2>2. other.conn = reg.conn
    BY <1>5, <1>6, <2>1
  <2>3. other = reg
    BY <1>1, <2>2
  <2> QED
    BY <1>4, <2>1, <2>3
<1> QED
  BY <1>1, <1>3, <1>4, <1>5, <1>6

LEMMA PollKeeps == ASSUME IInv, NEW l \in Loops, Poll(l) PROVE IInv'
<1>1. /\ UNCHANGED <<peers, objects, queue, batch, ran>>
      /\ active' = [active EXCEPT ![l] = Reports(l)]
      /\ pc[l] = "poll" /\ pc' = [pc EXCEPT ![l] = "events"]
  BY DEF Poll
<1>2. PeersTyped' /\ Ends'
  BY <1>1 DEF IInv, Typed, PeersTyped, Ends, peers, objects
<1>3. LoopsTyped'
  BY <1>1 DEF IInv, Typed, LoopsTyped
<1>4. Reported'
  <2>1. \A k \in Loops : active'[k] = IF k = l THEN Reports(l) ELSE active[k]
    BY <1>1 DEF IInv, Typed, LoopsTyped
  <2>2. UNCHANGED <<conn, unread, peer>>
    BY <1>1 DEF peers, objects
  <2> SUFFICES ASSUME NEW k \in Io
               PROVE  \A a \in active'[k] :
                         /\ a.conn \in Conns
                         /\ conn[a.conn].state = "kConnected" /\ conn[a.conn].loop = k
                         /\ "IN" \in a.revents
                         /\ unread[a.conn] > 0 \/ peer[a.conn] \in {"fin", "rst"}
                         /\ \A b \in active'[k] : a.conn = b.conn => a = b
    BY <2>2 DEF Reported
  <2>3. CASE k = l
    <3>1. active'[k] = Reports(k)
      BY <2>1, <2>3, Consts
    <3> QED
      BY <3>1, ReportsTrue
  <2>4. CASE k # l
    <3>1. active'[k] = active[k]
      BY <2>1, <2>4, Consts
    <3> QED
      BY <3>1 DEF IInv, Reported
  <2> QED
    BY <2>3, <2>4
<1>5. Tasks'
  <2>1. Due' = Due /\ Todo' = Todo
    BY <1>1, DueSame, TodoSame DEF IInv, Typed, objects
  <2> QED
    BY <2>1 DEF IInv, Tasks
<1>6. Batches'
  <2>1. \A k \in Loops : pc'[k] # "functors" => pc[k] # "functors"
    BY <1>1 DEF IInv, Typed, LoopsTyped
  <2> QED
    BY <1>1, <2>1 DEF IInv, Batches, Alive, objects
<1> QED
  BY <1>1, <1>2, <1>3, <1>4, <1>5, <1>6, ObjectsSame DEF IInv, Typed

LEMMA SwapKeeps == ASSUME IInv, NEW l \in Loops, Swap(l) PROVE IInv'
<1>1. /\ UNCHANGED <<peers, objects, active>>
      /\ pc[l] = "events" /\ pc' = [pc EXCEPT ![l] = "functors"]
      /\ batch' = [batch EXCEPT ![l] = queue[l]]
      /\ queue' = [queue EXCEPT ![l] = <<>>]
      /\ ran' = [ran EXCEPT ![l] = 0]
  BY DEF Swap
<1>2. PeersTyped' /\ Ends' /\ Reported'
  BY <1>1 DEF IInv, Typed, PeersTyped, Ends, Reported, peers, objects
<1>3. /\ batch'[l] = queue[l] /\ queue'[l] = <<>> /\ ran'[l] = 0
      /\ \A k \in Loops \ {l} : batch'[k] = batch[k] /\ queue'[k] = queue[k] /\ ran'[k] = ran[k]
      /\ pc'[l] = "functors" /\ \A k \in Loops \ {l} : pc'[k] = pc[k]
  BY <1>1 DEF IInv, Typed, LoopsTyped
<1>4. LoopsTyped'
  <2>1. <<>> \in Seq(FunctorType)
    OBVIOUS
  <2>2. /\ pc' \in [Loops -> {"poll", "events", "functors"}]
        /\ DOMAIN active' = Loops
        /\ ran' \in [Loops -> Nat]
        /\ queue' \in [Loops -> Seq(FunctorType)] /\ batch' \in [Loops -> Seq(FunctorType)]
    BY <1>1, <2>1 DEF IInv, Typed, LoopsTyped
  <2>3. \A k \in Loops : ran'[k] <= Len(batch'[k])
    <3>1. Len(queue[l]) \in Nat
      BY LenProperties DEF IInv, Typed, LoopsTyped
    <3> QED
      BY <1>3, <3>1 DEF IInv, Typed, LoopsTyped
  <2> QED
    BY <2>2, <2>3 DEF LoopsTyped
<1>5. batch[l] = <<>> /\ ran[l] = 0
  BY <1>1 DEF IInv, Batches
<1>6. Todo[l] = queue[l] /\ Todo' = Todo
  <2>1. Rest(<<>>, 0, queue[l]) = queue[l] /\ Rest(queue[l], 0, <<>>) = queue[l]
    BY RestEnds DEF IInv, Typed, LoopsTyped
  <2>2. Todo[l] = queue[l] /\ Todo'[l] = queue[l]
    BY <1>3, <1>5, <2>1, TodoTyped, TodoPrimed DEF IInv, Typed
  <2>3. \A k \in Loops \ {l} : Todo'[k] = Todo[k]
    BY <1>3, TodoTyped, TodoPrimed DEF IInv, Typed
  <2> QED
    BY <2>2, <2>3, TodoTyped, TodoPrimed DEF IInv, Typed
<1>7. Due' = Due
  BY <1>1, DueSame DEF objects
<1>8. Batches'
  <2>1. \A i \in 1 .. Len(queue[l]) : Alive(queue[l][i].conn)
    <3> TAKE i \in 1 .. Len(queue[l])
    <3>1. queue[l][i] \in FunctorType
      BY ElementOfSeq DEF IInv, Typed, LoopsTyped
    <3>2. Due[queue[l][i].conn] = [loop |-> l, name |-> queue[l][i].name]
      BY <1>6 DEF IInv, Tasks, Matches
    <3>3. queue[l][i].conn \in Conns /\ queue[l][i].name # "nothing"
      BY <3>1 DEF FunctorType, FunctorNames
    <3>4. Due[queue[l][i].conn].name # "nothing"
      BY <3>2, <3>3
    <3> QED
      BY <3>3, <3>4 DEF Due, Nothing, Alive
  <2> QED
    BY <1>3, <2>1, <1>1 DEF IInv, Batches, Alive, objects
<1> QED
  BY <1>1, <1>2, <1>4, <1>6, <1>7, <1>8, ObjectsSame DEF IInv, Typed, Tasks

-----------------------------------------------------------------------------
(* Accepting and closing connections *)

\* What pollers refer to.
LEMMA PollerRefers ==
    ASSUME ObjectsTyped, NEW l \in Io, NEW f \in Fds
    PROVE  /\ poller[l].epoll[f] # Nil => poller[l].epoll[f].conn \in Conns
           /\ poller[l].channels[f] # Nil => poller[l].channels[f] \in Conns
<1>1. /\ poller[l].epoll[f] \in Registered \cup {Nil}
      /\ poller[l].channels[f] \in Conns \cup {Nil}
  BY DEF ObjectsTyped, PollerType
<1> QED
  BY <1>1 DEF Registered

\* The connections of a batch are connections.
LEMMA BatchConns ==
    ASSUME LoopsTyped
    PROVE  \A l \in Loops : \A i \in 1 .. Len(batch[l]) :
              batch[l][i] \in FunctorType /\ batch[l][i].conn \in Conns
<1> TAKE l \in Loops
<1> TAKE i \in 1 .. Len(batch[l])
<1>1. batch[l][i] \in FunctorType
  BY ElementOfSeq DEF LoopsTyped
<1> QED
  BY <1>1 DEF FunctorType

LEMMA AcceptorReadKeeps == ASSUME IInv, AcceptorRead PROVE IInv'
<1>1. /\ active' = [active EXCEPT ![Main] = {}]
      /\ UNCHANGED <<peer, unread, chan, poller, told, pc, batch, ran>>
  BY DEF AcceptorRead
<1>2. \A l \in Io : active'[l] = active[l]
  BY <1>1, Consts DEF IInv, Typed, LoopsTyped
<1>3. CASE UNCHANGED <<backlog, connections, next, conn, queue>>
  <2>1. UNCHANGED objects /\ UNCHANGED peers
    BY <1>1, <1>3 DEF objects, peers
  <2>2. PeersTyped' /\ Ends' /\ LoopsTyped' /\ Batches'
    BY <1>1, <1>3 DEF IInv, Typed, PeersTyped, Ends, LoopsTyped, Batches, Alive
  <2>3. Reported'
    BY <1>1, <1>2, <1>3 DEF IInv, Reported
  <2>4. Due' = Due /\ Todo' = Todo
    BY <1>1, <1>3, DueSame, TodoSame DEF IInv, Typed
  <2> QED
    BY <2>1, <2>2, <2>3, <2>4, ObjectsSame DEF IInv, Typed, Tasks
<1>4. ASSUME NEW c \in First(backlog), NEW fd \in First(Fds \ OpenFds),
             NewConnection(c, fd), backlog' = backlog \ {c}
      PROVE  IInv'
  <2> DEFINE ioLoop == IoLoops[next + 1]
  <2>1. c \in Conns /\ c \in backlog /\ fd \in Fds /\ fd \notin OpenFds
    BY DEF First, IInv, Typed, PeersTyped
  <2>2. ioLoop \in Io /\ next' \in 0 .. Len(IoLoops) - 1
    BY <1>4, Consts DEF NewConnection, IInv, Typed, ObjectsTyped
  <2>3. /\ conn' = [conn EXCEPT ![c] = [state |-> "kConnecting", fd |-> fd, loop |-> ioLoop]]
        /\ connections' = connections \cup {c}
        /\ queue' = [queue EXCEPT ![ioLoop] = Append(@, Functor("connectEstablished", c))]
    BY <1>4 DEF NewConnection, QueueInLoop
  <2>4. conn[c].state = "none" /\ peer[c] # "none" /\ c \notin connections /\ ~ Alive(c)
    BY <2>1 DEF IInv, Ends, Stages, Alive
  <2> HIDE DEF ioLoop
  <2>5. /\ conn' \in [Conns -> ConnType]
        /\ conn'[c].state = "kConnecting" /\ conn'[c].fd = fd /\ conn'[c].loop = ioLoop
        /\ \A d \in Conns \ {c} : conn'[d] = conn[d]
    <3>1. [state |-> "kConnecting", fd |-> fd, loop |-> ioLoop] \in ConnType
      BY <2>1, <2>2, Consts DEF ConnType, States
    <3>2. conn \in [Conns -> ConnType]
      BY DEF IInv, Typed, ObjectsTyped
    <3> QED
      BY <2>1, <2>3, <3>1, <3>2
  <2>6. Alive(c)' /\ \A d \in Conns \ {c} : Alive(d)' <=> Alive(d)
    BY <2>5 DEF Alive
  <2>7. PeersTyped'
    BY <1>1, <1>4 DEF IInv, Typed, PeersTyped
  <2>8. ObjectsTyped'
    BY <1>1, <2>1, <2>2, <2>3, <2>5 DEF IInv, Typed, ObjectsTyped
  <2>9. Functor("connectEstablished", c) \in FunctorType
    BY <2>1, FunctorTyped DEF FunctorNames
  <2>10. LoopsTyped'
    <3>1. queue' \in [Loops -> Seq(FunctorType)]
      BY <2>3, <2>9, AppendProperties DEF IInv, Typed, LoopsTyped
    <3> QED
      BY <1>1, <3>1 DEF IInv, Typed, LoopsTyped
  <2>11. Descriptors'
    <3>1. \A d \in Conns : Alive(d) => conn[d].fd # fd
      BY <2>1 DEF OpenFds, Alive
    <3> QED
      BY <2>1, <2>2, <2>5, <2>6, <3>1 DEF IInv, Descriptors
  <2>12. Ends'
    <3>1. told'[c] = ToldIn("kConnecting", chan[c].index)
      BY <1>1, <2>1, <2>4, ToldSteps DEF IInv, Ends, Stages
    <3> QED
      BY <1>1, <1>4, <2>1, <2>4, <2>5, <3>1 DEF IInv, Ends
  <2>13. Stages'
    BY <1>1, <2>1, <2>3, <2>4, <2>5, <2>6 DEF IInv, Stages
  <2>14. InEpoll'
    <3>1. \A l \in Io, f \in Fds : poller[l].epoll[f] # Nil =>
            poller[l].epoll[f].conn \in Conns \ {c}
      BY <2>4, PollerRefers DEF IInv, InEpoll, Typed
    <3> QED
      BY <1>1, <2>5, <3>1 DEF IInv, InEpoll
  <2>15. InChannels'
    <3>1. \A l \in Io, f \in Fds : poller[l].channels[f] # Nil =>
            poller[l].channels[f] \in Conns \ {c}
      BY <2>4, PollerRefers DEF IInv, InChannels, Typed
    <3>2. chan[c].index = "kNew"
      BY <2>1, <2>4 DEF IInv, Stages
    <3> QED
      BY <1>1, <2>1, <2>5, <2>6, <3>1, <3>2 DEF IInv, InChannels
  <2>16. Reported'
    BY <1>1, <1>2, <2>4, <2>5 DEF IInv, Reported
  <2>17. Tasks'
    <3>1. Due[c].name = "nothing"
      BY <2>1, <2>4 DEF Due, Nothing
    <3>2. Due'[c] = [loop |-> ioLoop, name |-> "connectEstablished"]
      BY <2>1, <2>5 DEF Due
    <3>3. Due' = [Due EXCEPT ![c] = [loop |-> ioLoop, name |-> "connectEstablished"]]
      <4>1. \A d \in Conns \ {c} : /\ conn'[d] = conn[d] /\ chan'[d].index = chan[d].index
                                   /\ d \in connections' <=> d \in connections
        BY <1>1, <2>3, <2>5
      <4> QED
        BY <2>1, <3>2, <4>1, DueChanged
    <3>4. ioLoop \in Loops /\ "connectEstablished" \in FunctorNames
      BY <2>2, Consts DEF FunctorNames
    <3>5. Todo' = [Todo EXCEPT ![ioLoop] = Append(@, Functor("connectEstablished", c))]
      BY <1>1, <2>3, <2>9, <3>4, TodoAdded DEF IInv, Typed
    <3> QED
      BY <2>1, <3>1, <3>3, <3>4, <3>5, MatchesAdd, DueTyped, TodoTyped DEF IInv, Typed, Tasks
  <2>18. Batches'
    <3>1. \A l \in Loops : \A i \in 1 .. Len(batch[l]) : batch[l][i].conn \in Conns
      BY BatchConns DEF IInv, Typed
    <3> QED
      BY <1>1, <2>6, <3>1 DEF IInv, Batches
  <2> QED
    BY <2>7, <2>8, <2>10, <2>11, <2>12, <2>13, <2>14, <2>15, <2>16, <2>17, <2>18 DEF IInv, Typed
<1> QED
  BY <1>3, <1>4 DEF AcceptorRead

\* Read to the end, or hung up: the peer has left, and all that it sent is read.
LEMMA EndMeansRead ==
    ASSUME IInv, NEW l \in Io, NEW a \in active[l], AtEnd(a.conn, a.revents)
    PROVE  unread[a.conn] = 0 /\ peer[a.conn] \in {"fin", "rst"}
<1>1. "IN" \in a.revents /\ a.conn \in Conns
  BY DEF IInv, Reported
<1>2. unread[a.conn] = 0
  BY <1>1 DEF AtEnd, HangUp
<1> QED
  BY <1>2 DEF IInv, Reported

LEMMA HandleCloseKeeps ==
    ASSUME IInv, NEW l \in Io, NEW a \in active[l], AtEnd(a.conn, a.revents),
           HandleClose(a.conn), active' = [active EXCEPT ![l] = @ \ {a}],
           UNCHANGED <<backlog, peer, connections, next, pc, batch, ran>>
    PROVE  IInv'
<1> DEFINE c == a.conn
           ep == poller[l].epoll
           ch == poller[l].channels
<1>1. /\ c \in Conns /\ conn[c].state = "kConnected" /\ conn[c].loop = l
      /\ Alive(c) /\ conn[c].fd \in Fds /\ c \in connections
      /\ chan[c].index = "kAdded"
  BY DEF IInv, Reported, Alive, Descriptors, Stages
<1>2. c \notin backlog /\ peer[c] \in {"fin", "rst"} /\ l \in Loops
  BY <1>1, EndMeansRead, Consts DEF IInv, Ends
<1>3. ObjectsTyped
  BY DEF IInv, Typed
<1> HIDE DEF c
<1>4. /\ conn' \in [Conns -> ConnType]
      /\ conn'[c].state = "kDisconnected" /\ conn'[c].fd = conn[c].fd /\ conn'[c].loop = l
      /\ \A d \in Conns \ {c} : conn'[d] = conn[d]
  <2>1. SetState(c, "kDisconnected") /\ "kDisconnected" \in States
    BY DEF HandleClose, c, States
  <2> QED
    BY <1>1, <1>3, <2>1, StateSet
<1>5. /\ chan' \in [Conns -> ChanType] /\ poller' \in [Io -> PollerType]
      /\ chan'[c].events = {} /\ chan'[c].index = "kDeleted"
      /\ \A d \in Conns \ {c} : chan'[d] = chan[d]
      /\ poller'[l].epoll = [ep EXCEPT ![conn[c].fd] = Nil] /\ poller'[l].channels = ch
      /\ \A k \in Io \ {l} : poller'[k] = poller[k]
  <2>1. /\ ep \in [Fds -> Registered \cup {Nil}] /\ ch \in [Fds -> Conns \cup {Nil}]
        /\ DisableAll(Registration(c), c) =
             [events |-> {}, index |-> "kDeleted",
              epoll |-> [ep EXCEPT ![conn[c].fd] = Nil], channels |-> ch]
    BY <1>1, <1>3, Registering
  <2>2. [ep EXCEPT ![conn[c].fd] = Nil] \in [Fds -> Registered \cup {Nil}]
    BY <2>1
  <2>3. Register(c, [events |-> {}, index |-> "kDeleted",
                     epoll |-> [ep EXCEPT ![conn[c].fd] = Nil], channels |-> ch])
    BY <2>1 DEF HandleClose, c
  <2> DEFINE deleted == [ep EXCEPT ![conn[c].fd] = Nil]
  <2> HIDE DEF ep, ch, deleted
  <2>4. {} \in SUBSET {"IN"} /\ conn[c].loop \in Io
    BY <1>1
  <2>5. Register(c, [events |-> {}, index |-> "kDeleted", epoll |-> deleted, channels |-> ch])
    BY <2>3 DEF deleted
  <2>6. /\ chan' \in [Conns -> ChanType] /\ poller' \in [Io -> PollerType]
        /\ chan'[c].events = {} /\ chan'[c].index = "kDeleted"
        /\ \A d \in Conns \ {c} : chan'[d] = chan[d]
        /\ poller'[conn[c].loop].epoll = deleted /\ poller'[conn[c].loop].channels = ch
        /\ \A k \in Io \ {conn[c].loop} : poller'[k] = poller[k]
    BY <1>1, <1>3, <2>1, <2>2, <2>4, <2>5, RegisterDone DEF deleted
  <2> QED
    BY <1>1, <2>6 DEF deleted
<1>6. /\ Tell(c, "down")
      /\ queue' = [queue EXCEPT ![Main] = Append(@, Functor("removeConnection", c))]
      /\ unread' = unread
  BY DEF HandleClose, QueueInLoop, c
<1>7. Alive(c)' /\ \A d \in Conns \ {c} : Alive(d)' <=> Alive(d)
  BY <1>4 DEF Alive
<1>8. PeersTyped'
  BY <1>6 DEF IInv, Typed, PeersTyped
<1>9. ObjectsTyped'
  BY <1>1, <1>3, <1>4, <1>5, <1>6, TellTyped DEF IInv, Typed, ObjectsTyped
<1>10. Functor("removeConnection", c) \in FunctorType /\ "removeConnection" \in FunctorNames
  BY <1>1, FunctorTyped DEF FunctorNames
<1>11. LoopsTyped'
  <2>1. queue' \in [Loops -> Seq(FunctorType)]
    BY <1>6, <1>10, AppendProperties DEF IInv, Typed, LoopsTyped
  <2> QED
    BY <2>1 DEF IInv, Typed, LoopsTyped
<1>12. Descriptors'
  BY <1>1, <1>4, <1>7 DEF IInv, Descriptors
<1>13. Ends'
  <2>1. told'[c] = Append(told[c], "down") /\ \A d \in Conns \ {c} : told'[d] = told[d]
    BY <1>1, <1>3, <1>6, TellTyped
  <2>2. told[c] = ToldIn("kConnected", "kAdded")
    BY <1>1 DEF IInv, Ends, Stages
  <2>3. told'[c] = ToldIn(conn'[c].state, chan'[c].index)
    BY <1>4, <1>5, <2>1, <2>2, ToldSteps
  <2>4. \A d \in Conns \ {c} : told'[d] = ToldIn(conn'[d].state, chan'[d].index)
    BY <1>4, <1>5, <2>1 DEF IInv, Ends
  <2>5. \A d \in Conns : told'[d] = ToldIn(conn'[d].state, chan'[d].index)
    BY <2>3, <2>4
  <2> QED
    BY <1>2, <1>4, <2>5 DEF IInv, Ends
<1>14. Stages'
  BY <1>1, <1>4, <1>5, <1>7 DEF IInv, Stages
<1>15. InEpoll'
  <2>1. ep \in [Fds -> Registered \cup {Nil}]
    BY <1>3 DEF ObjectsTyped, PollerType
  <2>2. \A k \in Io, f \in Fds : poller'[k].epoll[f] # Nil =>
          /\ poller'[k].epoll[f] = poller[k].epoll[f] /\ poller[k].epoll[f].conn \in Conns
          /\ k = l => f # conn[c].fd
    BY <1>3, <1>5, <2>1, PollerRefers
  <2>3. \A k \in Io, f \in Fds : poller'[k].epoll[f] # Nil =>
          /\ poller'[k].epoll[f] = poller[k].epoll[f] /\ poller[k].epoll[f].conn \in Conns \ {c}
    BY <1>1, <2>2 DEF IInv, InEpoll
  <2>4. \A d \in Conns : conn'[d].state = "kConnected" =>
          poller'[conn'[d].loop].epoll[conn'[d].fd] = [conn |-> d, events |-> {"IN"}]
    <3> SUFFICES ASSUME NEW d \in Conns, conn'[d].state = "kConnected"
                 PROVE  poller'[conn'[d].loop].epoll[conn'[d].fd] =
                          [conn |-> d, events |-> {"IN"}]
      OBVIOUS
    <3>1. d # c /\ conn'[d] = conn[d] /\ Alive(d)
      BY <1>4 DEF Alive
    <3>2. conn[d].loop \in Io /\ conn[d].fd \in Fds \ {conn[c].fd}
      BY <1>1, <3>1 DEF IInv, Descriptors
    <3>3. poller'[conn[d].loop].epoll[conn[d].fd] = poller[conn[d].loop].epoll[conn[d].fd]
      BY <1>5, <2>1, <3>2
    <3> QED
      BY <3>1, <3>3 DEF IInv, InEpoll
  <2>5. ASSUME NEW k \in Io, NEW f \in Fds, poller'[k].epoll[f] # Nil
        PROVE  /\ conn'[poller'[k].epoll[f].conn].state = "kConnected"
               /\ conn'[poller'[k].epoll[f].conn].loop = k
               /\ conn'[poller'[k].epoll[f].conn].fd = f
    BY <1>4, <2>3, <2>5 DEF IInv, InEpoll
  <2> QED
    BY <2>4, <2>5 DEF InEpoll
<1>16. InChannels'
  <2>1. \A k \in Io : poller'[k].channels = poller[k].channels
    BY <1>5
  <2>2. \A d \in Conns : Alive(d) => conn[d].loop \in Io
    BY DEF IInv, Descriptors
  <2>3. \A d \in Conns : /\ conn'[d].fd = conn[d].fd /\ conn'[d].loop = conn[d].loop
                         /\ Alive(d)' <=> Alive(d)
                         /\ chan'[d].index # "kNew" <=> chan[d].index # "kNew"
    BY <1>1, <1>4, <1>5, <1>7
  <2>4. \A k \in Io, f \in Fds : poller[k].channels[f] # Nil => poller[k].channels[f] \in Conns
    BY <1>3, PollerRefers
  <2> QED
    BY <2>1, <2>2, <2>3, <2>4, SMTT(40) DEF IInv, InChannels
<1>17. Reported'
  <2>1. active'[l] = active[l] \ {a} /\ \A k \in Io \ {l} : active'[k] = active[k]
    BY <1>2, Consts DEF IInv, Typed, LoopsTyped
  <2>2. \A k \in Io : \A b \in active'[k] : b \in active[k] /\ b.conn \in Conns \ {c}
    BY <1>1, <2>1 DEF IInv, Reported, c
  <2> QED
    BY <1>4, <1>6, <2>1, <2>2 DEF IInv, Reported
<1>18. Tasks'
  <2>1. Due[c].name = "nothing"
    BY <1>1 DEF Due, Nothing
  <2>2. Due'[c] = [loop |-> Main, name |-> "removeConnection"]
    BY <1>1, <1>4 DEF Due
  <2>3. Due' = [Due EXCEPT ![c] = [loop |-> Main, name |-> "removeConnection"]]
    <3>1. \A d \in Conns \ {c} : /\ conn'[d] = conn[d] /\ chan'[d].index = chan[d].index
                                 /\ d \in connections' <=> d \in connections
      BY <1>4, <1>5
    <3> QED
      BY <1>1, <2>2, <3>1, DueChanged
  <2>4. Todo' = [Todo EXCEPT ![Main] = Append(@, Functor("removeConnection", c))]
    BY <1>6, <1>10, Consts, TodoAdded DEF IInv, Typed
  <2> QED
    BY <1>1, <1>10, <2>1, <2>3, <2>4, Consts, MatchesAdd, DueTyped, TodoTyped
       DEF IInv, Typed, Tasks
<1>19. Batches'
  <2>1. \A k \in Loops : \A i \in 1 .. Len(batch[k]) : batch[k][i].conn \in Conns
    BY BatchConns DEF IInv, Typed
  <2> QED
    BY <1>7, <2>1 DEF IInv, Batches
<1> QED
  BY <1>8, <1>9, <1>11, <1>12, <1>13, <1>14, <1>15, <1>16, <1>17, <1>18, <1>19 DEF IInv, Typed

LEMMA HandleEventKeeps ==
    ASSUME IInv, NEW l \in Io, NEW a \in active[l], HandleEvent(l, a)
    PROVE  IInv'
<1>1. /\ active' = [active EXCEPT ![l] = @ \ {a}]
      /\ UNCHANGED <<backlog, peer, connections, next, pc, batch, ran>>
  BY DEF HandleEvent
<1>2. CASE AtEnd(a.conn, a.revents)
  BY <1>1, <1>2, HandleCloseKeeps DEF HandleEvent
<1>3. CASE ~ AtEnd(a.conn, a.revents)
  <2> DEFINE c == a.conn
  <2>1. HandleMessage(c)
    BY <1>3 DEF HandleEvent
  <2>2. UNCHANGED objects /\ UNCHANGED queue
    BY <1>1, <2>1 DEF HandleMessage, objects
  <2>3. PICK k \in 1 .. unread[c] : unread' = [unread EXCEPT ![c] = @ - k]
    BY <2>1 DEF HandleMessage
  <2>4. c \in Conns /\ unread[c] \in 0 .. MaxUnread
    BY DEF IInv, Typed, PeersTyped, Reported
  <2> HIDE DEF c
  <2>5. PeersTyped'
    BY <1>1, <2>3, <2>4, ConnsAssumption DEF IInv, Typed, PeersTyped
  <2>6. LoopsTyped' /\ Ends' /\ Batches'
    BY <1>1, <2>2 DEF IInv, Typed, LoopsTyped, Ends, Batches, Alive, objects
  <2>7. Reported'
    <3>1. active'[l] = active[l] \ {a} /\ \A m \in Io \ {l} : active'[m] = active[m]
      BY <1>1, Consts DEF IInv, Typed, LoopsTyped
    <3>2. \A m \in Io : \A b \in active'[m] : b \in active[m] /\ b.conn \in Conns \ {c}
      BY <3>1 DEF IInv, Reported, c
    <3>3. \A d \in Conns \ {c} : unread'[d] = unread[d]
      BY <2>3 DEF IInv, Typed, PeersTyped
    <3> QED
      BY <1>1, <2>2, <3>1, <3>2, <3>3 DEF IInv, Reported, objects
  <2>8. Due' = Due /\ Todo' = Todo
    BY <1>1, <2>2, DueSame, TodoSame DEF IInv, Typed, objects
  <2> QED
    BY <2>2, <2>5, <2>6, <2>7, <2>8, ObjectsSame DEF IInv, Typed, Tasks
<1> QED
  BY <1>2, <1>3

-----------------------------------------------------------------------------
(* Running functors *)

LEMMA DueMeans ==
    ASSUME NEW c \in Conns, NEW l \in Loops, NEW n \in FunctorNames,
           Due[c] = [loop |-> l, name |-> n]
    PROVE  /\ n = "connectEstablished" => conn[c].state = "kConnecting" /\ l = conn[c].loop
           /\ n = "removeConnection" =>
                conn[c].state = "kDisconnected" /\ c \in connections /\ l = Main
           /\ n = "connectDestoryed" =>
                /\ conn[c].state = "kDisconnected" /\ c \notin connections
                /\ chan[c].index # "kNew" /\ l = conn[c].loop
<1>1. Due[c].name = n /\ Due[c].loop = l /\ n # "nothing"
  BY DEF FunctorNames
<1> QED
  BY <1>1 DEF Due, Nothing

\* The functor about to run is the one due of its connection.
LEMMA NextFunctor ==
    ASSUME IInv, NEW l \in Loops, ran[l] < Len(batch[l])
    PROVE  LET f == batch[l][ran[l] + 1]
           IN  /\ f \in FunctorType /\ f.conn \in Conns /\ f.name \in FunctorNames
               /\ Alive(f.conn)
               /\ Due[f.conn] = [loop |-> l, name |-> f.name]
<1> DEFINE f == batch[l][ran[l] + 1]
<1>1. LoopsTyped /\ ObjectsTyped
  BY DEF IInv, Typed
<1>2. ran[l] + 1 \in 1 .. Len(batch[l])
  BY <1>1, LenProperties DEF LoopsTyped
<1>3. f \in FunctorType /\ f.conn \in Conns /\ f.name \in FunctorNames /\ Alive(f.conn)
  BY <1>1, <1>2, BatchConns DEF IInv, Batches, FunctorType
<1>4. Todo[l] # <<>> /\ Head(Todo[l]) = f
  <2>1. Todo[l] = Rest(batch[l], ran[l], queue[l])
    BY <1>1, TodoTyped
  <2>2. Rest(batch[l], ran[l], queue[l]) # <<>> /\ Head(Rest(batch[l], ran[l], queue[l])) = f
    BY <1>1, RestTail DEF LoopsTyped
  <2> QED
    BY <2>1, <2>2
<1>5. Due[Head(Todo[l]).conn] = [loop |-> l, name |-> Head(Todo[l]).name]
  BY <1>1, <1>4, MatchesTake, DueTyped, TodoTyped DEF IInv, Tasks
<1> QED
  BY <1>3, <1>4, <1>5

LEMMA LoopsRan ==
    ASSUME IInv, NEW l \in Loops, ran[l] < Len(batch[l]), pc[l] = "functors",
           ran' = [ran EXCEPT ![l] = @ + 1], UNCHANGED <<pc, active, batch>>,
           queue' \in [Loops -> Seq(FunctorType)],
           \A c \in Conns : Alive(c)' <=> Alive(c)
    PROVE  LoopsTyped' /\ Batches'
<1>1. LoopsTyped
  BY DEF IInv, Typed
<1>2. LoopsTyped'
  <2>1. Len(batch[l]) \in Nat /\ ran[l] \in Nat
    BY <1>1, LenProperties DEF LoopsTyped
  <2>2. ran' \in [Loops -> Nat] /\ \A k \in Loops : ran'[k] <= Len(batch[k])
    BY <1>1, <2>1 DEF LoopsTyped
  <2> QED
    BY <1>1, <2>2 DEF LoopsTyped
<1>3. Batches'
  <2>1. \A k \in Loops : pc[k] # "functors" => ran'[k] = ran[k]
    BY <1>1 DEF LoopsTyped
  <2> QED
    BY <1>1, <2>1, BatchConns DEF IInv, Batches
<1> QED
  BY <1>2, <1>3

LEMMA ConnectEstablishedKeeps ==
    ASSUME IInv, NEW l \in Loops, pc[l] = "functors", ran[l] < Len(batch[l]),
           ran' = [ran EXCEPT ![l] = @ + 1],
           batch[l][ran[l] + 1].name = "connectEstablished",
           ConnectEstablished(batch[l][ran[l] + 1].conn),
           UNCHANGED <<peers, next, pc, active, batch>>
    PROVE  IInv'
<1> DEFINE c == batch[l][ran[l] + 1].conn
           ep == poller[l].epoll
           ch == poller[l].channels
<1>1. LoopsTyped /\ ObjectsTyped
  BY DEF IInv, Typed
<1>2. c \in Conns /\ Due[c] = [loop |-> l, name |-> "connectEstablished"] /\ Alive(c)
  BY NextFunctor
<1>3. ConnectEstablished(c)
  OBVIOUS
<1> HIDE DEF c
<1>4. /\ conn[c].state = "kConnecting" /\ conn[c].loop = l
      /\ l \in Io /\ conn[c].fd \in Fds /\ c \in connections
      /\ chan[c].events = {} /\ chan[c].index = "kNew"
      /\ told[c] = ToldIn("kConnecting", "kNew")
      /\ peer[c] # "none" /\ c \notin backlog
  <2>1. conn[c].state = "kConnecting" /\ conn[c].loop = l
    BY <1>2, DueMeans DEF FunctorNames
  <2> QED
    BY <1>2, <2>1 DEF IInv, Descriptors, Stages, Ends
<1>5. /\ conn' \in [Conns -> ConnType]
      /\ conn'[c].state = "kConnected" /\ conn'[c].fd = conn[c].fd /\ conn'[c].loop = l
      /\ \A d \in Conns \ {c} : conn'[d] = conn[d]
  <2>1. SetState(c, "kConnected") /\ "kConnected" \in States
    BY <1>3 DEF ConnectEstablished, States
  <2> QED
    BY <1>1, <1>2, <1>4, <2>1, StateSet
<1>6. ep \in [Fds -> Registered \cup {Nil}] /\ ch \in [Fds -> Conns \cup {Nil}]
  BY <1>1, <1>4 DEF ObjectsTyped, PollerType
<1>7. /\ chan' \in [Conns -> ChanType] /\ poller' \in [Io -> PollerType]
      /\ chan'[c].events = {"IN"} /\ chan'[c].index = "kAdded"
      /\ \A d \in Conns \ {c} : chan'[d] = chan[d]
      /\ poller'[l].epoll = [ep EXCEPT ![conn[c].fd] = [conn |-> c, events |-> {"IN"}]]
      /\ poller'[l].channels = [ch EXCEPT ![conn[c].fd] = c]
      /\ \A k \in Io \ {l} : poller'[k] = poller[k]
  <2> DEFINE added == [ep EXCEPT ![conn[c].fd] = [conn |-> c, events |-> {"IN"}]]
             listed == [ch EXCEPT ![conn[c].fd] = c]
  <2>1. EnableReading(Registration(c), c) =
          [events |-> {"IN"}, index |-> "kAdded", epoll |-> added, channels |-> listed]
    BY <1>1, <1>2, <1>4, Registering
  <2>2. added \in [Fds -> Registered \cup {Nil}] /\ listed \in [Fds -> Conns \cup {Nil}]
    BY <1>2, <1>6 DEF Registered
  <2> HIDE DEF ep, ch, added, listed
  <2>3. Register(c, [events |-> {"IN"}, index |-> "kAdded", epoll |-> added,
                     channels |-> listed])
    BY <1>3, <2>1 DEF ConnectEstablished
  <2>4. /\ chan' \in [Conns -> ChanType] /\ poller' \in [Io -> PollerType]
        /\ chan'[c].events = {"IN"} /\ chan'[c].index = "kAdded"
        /\ \A d \in Conns \ {c} : chan'[d] = chan[d]
        /\ poller'[conn[c].loop].epoll = added /\ poller'[conn[c].loop].channels = listed
        /\ \A k \in Io \ {conn[c].loop} : poller'[k] = poller[k]
    BY <1>1, <1>2, <1>4, <2>2, <2>3, RegisterDone
  <2> QED
    BY <1>4, <2>4 DEF added, listed
<1> HIDE DEF ep, ch
<1>8. Tell(c, "up") /\ UNCHANGED <<connections, queue>>
  BY <1>3 DEF ConnectEstablished
<1>9. \A d \in Conns : Alive(d)' <=> Alive(d)
  BY <1>4, <1>5 DEF Alive
<1>10. LoopsTyped' /\ Batches'
  BY <1>1, <1>8, <1>9, LoopsRan DEF LoopsTyped
<1>11. PeersTyped'
  BY DEF IInv, Typed, PeersTyped, peers
<1>12. ObjectsTyped'
  BY <1>1, <1>2, <1>5, <1>7, <1>8, TellTyped DEF ObjectsTyped
<1>13. Descriptors'
  BY <1>4, <1>5, <1>9 DEF IInv, Descriptors
<1>14. Ends'
  <2>1. told'[c] = Append(told[c], "up") /\ \A d \in Conns \ {c} : told'[d] = told[d]
    BY <1>1, <1>2, <1>8, TellTyped
  <2>2. told'[c] = ToldIn(conn'[c].state, chan'[c].index)
    BY <1>4, <1>5, <1>7, <2>1, ToldSteps
  <2>3. \A d \in Conns \ {c} : told'[d] = ToldIn(conn'[d].state, chan'[d].index)
    BY <1>5, <1>7, <2>1 DEF IInv, Ends
  <2>4. \A d \in Conns : told'[d] = ToldIn(conn'[d].state, chan'[d].index)
    BY <2>2, <2>3
  <2> QED
    BY <1>4, <1>5, <2>4 DEF IInv, Ends, peers
<1>15. Stages'
  BY <1>4, <1>5, <1>7, <1>8, <1>9 DEF IInv, Stages
<1>16. InEpoll'
  <2>1. \A k \in Io, f \in Fds : ~ (k = l /\ f = conn[c].fd) =>
          poller'[k].epoll[f] = poller[k].epoll[f]
    BY <1>6, <1>7 DEF ep
  <2>2. poller'[l].epoll[conn[c].fd] = [conn |-> c, events |-> {"IN"}]
    BY <1>4, <1>6, <1>7
  <2>3. ASSUME NEW k \in Io, NEW f \in Fds, poller'[k].epoll[f] # Nil
        PROVE  /\ conn'[poller'[k].epoll[f].conn].state = "kConnected"
               /\ conn'[poller'[k].epoll[f].conn].loop = k
               /\ conn'[poller'[k].epoll[f].conn].fd = f
    <3>1. CASE k = l /\ f = conn[c].fd
      BY <3>1, <2>2, <1>5
    <3>2. CASE ~ (k = l /\ f = conn[c].fd)
      <4>1. poller'[k].epoll[f] = poller[k].epoll[f] /\ poller[k].epoll[f].conn \in Conns \ {c}
        BY <3>2, <2>1, <2>3, <1>1, <1>4, PollerRefers DEF IInv, InEpoll
      <4> QED
        BY <2>3, <4>1, <1>5 DEF IInv, InEpoll
    <3> QED
      BY <3>1, <3>2
  <2>4. ASSUME NEW d \in Conns, conn'[d].state = "kConnected"
        PROVE  poller'[conn'[d].loop].epoll[conn'[d].fd] = [conn |-> d, events |-> {"IN"}]
    <3>1. CASE d = c
      BY <3>1, <2>2, <1>5
    <3>2. CASE d # c
      <4>1. conn'[d] = conn[d] /\ Alive(d)
        BY <3>2, <2>4, <1>5 DEF Alive
      <4>2. conn[d].loop \in Io /\ conn[d].fd \in Fds \ {conn[c].fd}
        BY <1>2, <3>2, <4>1 DEF IInv, Descriptors
      <4> QED
        BY <2>1, <2>4, <4>1, <4>2 DEF IInv, InEpoll
    <3> QED
      BY <3>1, <3>2
  <2> QED
    BY <2>3, <2>4 DEF InEpoll
<1>17. InChannels'
  <2>1. \A k \in Io, f \in Fds : ~ (k = l /\ f = conn[c].fd) =>
          poller'[k].channels[f] = poller[k].channels[f]
    BY <1>6, <1>7 DEF ch
  <2>2. poller'[l].channels[conn[c].fd] = c
    BY <1>4, <1>6, <1>7
  <2>3. ASSUME NEW k \in Io, NEW f \in Fds, poller'[k].channels[f] # Nil
        PROVE  /\ conn'[poller'[k].channels[f]].state \notin {"none", "freed"}
               /\ chan'[poller'[k].channels[f]].index # "kNew"
               /\ conn'[poller'[k].channels[f]].loop = k
               /\ conn'[poller'[k].channels[f]].fd = f
    <3>1. CASE k = l /\ f = conn[c].fd
      BY <3>1, <2>2, <1>5, <1>7 DEF Alive
    <3>2. CASE ~ (k = l /\ f = conn[c].fd)
      <4>1. poller'[k].channels[f] = poller[k].channels[f] /\ poller[k].channels[f] \in Conns
        BY <3>2, <2>1, <2>3, <1>1, PollerRefers
      <4>2. poller[k].channels[f] # c
        BY <2>3, <4>1, <1>4 DEF IInv, InChannels
      <4>3. Alive(poller[k].channels[f]) /\ chan[poller[k].channels[f]].index # "kNew"
            /\ conn[poller[k].channels[f]].loop = k /\ conn[poller[k].channels[f]].fd = f
        BY <2>3, <4>1 DEF IInv, InChannels
      <4> QED
        BY <4>1, <4>2, <4>3, <1>5, <1>7 DEF Alive
    <3> QED
      BY <3>1, <3>2
  <2>4. ASSUME NEW d \in Conns, Alive(d)', chan'[d].index # "kNew"
        PROVE  poller'[conn'[d].loop].channels[conn'[d].fd] = d
    <3>1. CASE d = c
      BY <3>1, <2>2, <1>5
    <3>2. CASE d # c
      <4>1. conn'[d] = conn[d] /\ Alive(d) /\ chan[d].index # "kNew"
        BY <3>2, <2>4, <1>5, <1>7, <1>9
      <4>2. conn[d].loop \in Io /\ conn[d].fd \in Fds \ {conn[c].fd}
        BY <1>2, <3>2, <4>1 DEF IInv, Descriptors
      <4> QED
        BY <2>1, <4>1, <4>2 DEF IInv, InChannels
    <3> QED
      BY <3>1, <3>2
  <2> QED
    BY <2>3, <2>4 DEF InChannels, Alive
<1>18. Reported'
  BY <1>4, <1>5 DEF IInv, Reported, peers
<1>19. Tasks'
  <2>1. Todo[l] # <<>> /\ Head(Todo[l]).conn = c /\ Todo' = [Todo EXCEPT ![l] = Tail(@)]
    BY <1>1, <1>8, TodoTaken DEF c
  <2>2. Due' = [Due EXCEPT ![c] = Nothing]
    <3>1. Due'[c] = Nothing
      BY <1>2, <1>5 DEF Due, Nothing
    <3>2. \A d \in Conns \ {c} : /\ conn'[d] = conn[d] /\ chan'[d].index = chan[d].index
                                 /\ d \in connections' <=> d \in connections
      BY <1>5, <1>7, <1>8
    <3> QED
      BY <1>2, <3>1, <3>2, DueChanged
  <2> QED
    BY <1>1, <2>1, <2>2, MatchesTake, DueTyped, TodoTyped DEF IInv, Tasks
<1> QED
  BY <1>10, <1>11, <1>12, <1>13, <1>14, <1>15, <1>16, <1>17, <1>18, <1>19 DEF IInv, Typed

LEMMA RemoveConnectionKeeps ==
    ASSUME IInv, NEW l \in Loops, pc[l] = "functors", ran[l] < Len(batch[l]),
           ran' = [ran EXCEPT ![l] = @ + 1],
           batch[l][ran[l] + 1].name = "removeConnection",
           RemoveConnectionInLoop(batch[l][ran[l] + 1].conn),
           UNCHANGED <<peers, next, pc, active, batch>>
    PROVE  IInv'
<1> DEFINE c == batch[l][ran[l] + 1].conn
           k == conn[c].loop
           x == Functor("connectDestoryed", c)
<1>1. LoopsTyped /\ ObjectsTyped
  BY DEF IInv, Typed
<1>2. c \in Conns /\ Due[c] = [loop |-> l, name |-> "removeConnection"] /\ Alive(c)
  BY NextFunctor
<1>3. /\ connections' = connections \ {c} /\ queue' = [queue EXCEPT ![k] = Append(@, x)]
      /\ UNCHANGED <<conn, chan, poller, told>>
  BY DEF RemoveConnectionInLoop, QueueInLoop
<1> HIDE DEF c
<1>4. /\ conn[c].state = "kDisconnected" /\ c \in connections /\ l = Main
      /\ chan[c].index = "kDeleted" /\ k \in Io /\ k \in Loops \ {l}
  <2>1. conn[c].state = "kDisconnected" /\ c \in connections /\ l = Main
    BY <1>2, DueMeans DEF FunctorNames
  <2> QED
    BY <1>2, <2>1, Consts DEF IInv, Descriptors, Stages
<1>5. x \in FunctorType /\ "connectDestoryed" \in FunctorNames
  BY <1>2, FunctorTyped DEF FunctorNames
<1> HIDE DEF k, x
<1>6. LoopsTyped' /\ Batches'
  <2>1. queue' \in [Loops -> Seq(FunctorType)]
    BY <1>1, <1>3, <1>4, <1>5, AppendProperties DEF LoopsTyped
  <2>2. \A d \in Conns : Alive(d)' <=> Alive(d)
    BY <1>3 DEF Alive
  <2> QED
    BY <2>1, <2>2, LoopsRan
<1>7. PeersTyped' /\ Ends' /\ Descriptors' /\ InEpoll' /\ InChannels' /\ Reported'
  <2>1. PeersTyped' /\ Ends' /\ Descriptors'
    BY <1>3 DEF IInv, Typed, PeersTyped, Ends, Descriptors, Alive, peers
  <2>2. InEpoll'
    BY <1>3 DEF IInv, InEpoll
  <2>3. InChannels'
    BY <1>3 DEF IInv, InChannels, Alive
  <2>4. Reported'
    BY <1>3 DEF IInv, Reported, peers
  <2> QED
    BY <2>1, <2>2, <2>3, <2>4
<1>8. ObjectsTyped'
  BY <1>1, <1>3 DEF ObjectsTyped
<1>9. Stages'
  BY <1>3, <1>4 DEF IInv, Stages, Alive
<1>10. Tasks'
  <2> DEFINE due == [Due EXCEPT ![c] = Nothing]
             todo == [Todo EXCEPT ![l] = Tail(@)]
  <2>1. /\ Todo[l] # <<>> /\ Head(Todo[l]).conn = c
        /\ Todo' = [todo EXCEPT ![k] = Append(@, x)]
    <3>1. /\ Todo[l] # <<>> /\ Head(Todo[l]) = batch[l][ran[l] + 1]
          /\ Todo' = [[Todo EXCEPT ![l] = Tail(@)] EXCEPT ![k] = Append(@, x)]
      <4>1. PICK m \in Loops \ {l}, y \in FunctorType : m = k /\ y = x
        BY <1>4, <1>5
      <4>2. queue' = [queue EXCEPT ![m] = Append(@, y)]
        BY <1>3, <4>1
      <4>3. /\ Todo[l] # <<>> /\ Head(Todo[l]) = batch[l][ran[l] + 1]
            /\ Todo' = [[Todo EXCEPT ![l] = Tail(@)] EXCEPT ![m] = Append(@, y)]
        BY <1>1, <4>2, TodoTakenAdded
      <4> QED
        BY <4>1, <4>3
    <3> QED
      BY <3>1 DEF c
  <2>2. Due' = [Due EXCEPT ![c] = [loop |-> k, name |-> "connectDestoryed"]]
    <3>1. Due'[c] = [loop |-> k, name |-> "connectDestoryed"]
      BY <1>2, <1>3, <1>4 DEF Due, k
    <3>2. \A d \in Conns \ {c} : /\ conn'[d] = conn[d] /\ chan'[d].index = chan[d].index
                                 /\ d \in connections' <=> d \in connections
      BY <1>3
    <3> QED
      BY <1>2, <3>1, <3>2, DueChanged
  <2>3. Due \in [Conns -> DueType] /\ Todo \in [Loops -> Seq(FunctorType)]
    BY <1>1, DueTyped, TodoTyped
  <2>4. Matches(due, todo)
    BY <2>1, <2>3, MatchesTake DEF IInv, Tasks
  <2>5. due \in [Conns -> DueType] /\ todo \in [Loops -> Seq(FunctorType)]
        /\ due[c].name = "nothing"
    <3>1. Nothing \in DueType /\ Nothing.name = "nothing"
      BY Consts DEF Nothing, DueType
    <3>2. Tail(Todo[l]) \in Seq(FunctorType)
      BY <2>1, <2>3, HeadTailProperties
    <3> QED
      BY <1>2, <2>3, <3>1, <3>2
  <2>6. Due' = [due EXCEPT ![c] = [loop |-> k, name |-> "connectDestoryed"]]
    BY <1>2, <2>2, <2>3
  <2> HIDE DEF due, todo
  <2>7. Matches([due EXCEPT ![c] = [loop |-> k, name |-> "connectDestoryed"]],
                [todo EXCEPT ![k] = Append(@, Functor("connectDestoryed", c))])
    BY <1>2, <1>4, <1>5, <2>4, <2>5, MatchesAdd
  <2> QED
    BY <2>1, <2>6, <2>7 DEF Tasks, x
<1> QED
  BY <1>6, <1>7, <1>8, <1>9, <1>10 DEF IInv, Typed

LEMMA ConnectDestoryedKeeps ==
    ASSUME IInv, NEW l \in Loops, pc[l] = "functors", ran[l] < Len(batch[l]),
           ran' = [ran EXCEPT ![l] = @ + 1],
           batch[l][ran[l] + 1].name = "connectDestoryed",
           ConnectDestoryed(batch[l][ran[l] + 1].conn),
           UNCHANGED <<peers, next, pc, active, batch>>
    PROVE  IInv'
<1> DEFINE c == batch[l][ran[l] + 1].conn
           ep == poller[l].epoll
           ch == poller[l].channels
<1>1. LoopsTyped /\ ObjectsTyped
  BY DEF IInv, Typed
<1>2. c \in Conns /\ Due[c] = [loop |-> l, name |-> "connectDestoryed"] /\ Alive(c)
  BY NextFunctor
<1>3. ConnectDestoryed(c)
  OBVIOUS
<1> HIDE DEF c
<1>4. /\ conn[c].state = "kDisconnected" /\ conn[c].loop = l
      /\ l \in Io /\ conn[c].fd \in Fds /\ c \notin connections
      /\ chan[c].events = {} /\ chan[c].index = "kDeleted"
      /\ told[c] = ToldIn("kDisconnected", "kDeleted")
      /\ peer[c] \in {"fin", "rst"} /\ c \notin backlog
  <2>1. /\ conn[c].state = "kDisconnected" /\ conn[c].loop = l
        /\ c \notin connections /\ chan[c].index # "kNew"
    BY <1>2, DueMeans DEF FunctorNames
  <2>2. l \in Io /\ conn[c].fd \in Fds /\ chan[c].events = {} /\ chan[c].index # "kAdded"
        /\ told[c] = ToldIn("kDisconnected", chan[c].index)
        /\ peer[c] \in {"fin", "rst"} /\ c \notin backlog
    BY <1>2, <2>1 DEF IInv, Descriptors, Stages, Ends
  <2>3. chan[c].index \in {"kNew", "kAdded", "kDeleted"}
    BY <1>1, <1>2 DEF ObjectsTyped, ChanType
  <2> QED
    BY <2>1, <2>2, <2>3
<1>5. ep \in [Fds -> Registered \cup {Nil}] /\ ch \in [Fds -> Conns \cup {Nil}]
  BY <1>1, <1>4 DEF ObjectsTyped, PollerType
<1>6. /\ chan' \in [Conns -> ChanType] /\ poller' \in [Io -> PollerType]
      /\ chan'[c].events = {} /\ chan'[c].index = "kNew"
      /\ \A d \in Conns \ {c} : chan'[d] = chan[d]
      /\ poller'[l].epoll = [ep EXCEPT ![conn[c].fd] = Nil]
      /\ poller'[l].channels = [ch EXCEPT ![conn[c].fd] = Nil]
      /\ \A k \in Io \ {l} : poller'[k] = poller[k]
  <2> DEFINE deleted == [ep EXCEPT ![conn[c].fd] = Nil]
             unlisted == [ch EXCEPT ![conn[c].fd] = Nil]
  <2>1. RemoveChannel(DisableAll(Registration(c), c), c) =
          [events |-> {}, index |-> "kNew", epoll |-> deleted, channels |-> unlisted]
    BY <1>1, <1>2, <1>4, Registering
  <2>2. deleted \in [Fds -> Registered \cup {Nil}] /\ unlisted \in [Fds -> Conns \cup {Nil}]
    BY <1>5
  <2> HIDE DEF ep, ch, deleted, unlisted
  <2>3. Register(c, [events |-> {}, index |-> "kNew", epoll |-> deleted,
                     channels |-> unlisted])
    BY <1>3, <1>4, <2>1 DEF ConnectDestoryed
  <2>4. {} \in SUBSET {"IN"}
    OBVIOUS
  <2>5. /\ chan' \in [Conns -> ChanType] /\ poller' \in [Io -> PollerType]
        /\ chan'[c].events = {} /\ chan'[c].index = "kNew"
        /\ \A d \in Conns \ {c} : chan'[d] = chan[d]
        /\ poller'[conn[c].loop].epoll = deleted /\ poller'[conn[c].loop].channels = unlisted
        /\ \A k \in Io \ {conn[c].loop} : poller'[k] = poller[k]
    BY <1>1, <1>2, <1>4, <2>2, <2>3, <2>4, RegisterDone
  <2> QED
    BY <1>4, <2>5 DEF deleted, unlisted
<1> HIDE DEF ep, ch
<1>7. Tell(c, "down") /\ UNCHANGED <<connections, conn, queue>>
  BY <1>3, <1>4 DEF ConnectDestoryed
<1>8. \A d \in Conns : Alive(d)' <=> Alive(d)
  BY <1>7 DEF Alive
<1>9. LoopsTyped' /\ Batches'
  BY <1>1, <1>7, <1>8, LoopsRan DEF LoopsTyped
<1>10. PeersTyped' /\ Ends' /\ Descriptors' /\ Reported'
  <2>1. PeersTyped' /\ Descriptors'
    BY <1>7 DEF IInv, Typed, PeersTyped, Descriptors, Alive, peers
  <2>2. Reported'
    BY <1>7 DEF IInv, Reported, peers
  <2>3. Ends'
    <3>1. told'[c] = Append(told[c], "down") /\ \A d \in Conns \ {c} : told'[d] = told[d]
      BY <1>1, <1>2, <1>7, TellTyped
    <3>2. told'[c] = ToldIn(conn'[c].state, chan'[c].index)
      BY <1>4, <1>6, <1>7, <3>1, ToldSteps
    <3>3. \A d \in Conns \ {c} : told'[d] = ToldIn(conn'[d].state, chan'[d].index)
      BY <1>6, <1>7, <3>1 DEF IInv, Ends
    <3>4. \A d \in Conns : told'[d] = ToldIn(conn'[d].state, chan'[d].index)
      BY <3>2, <3>3
    <3> QED
      BY <1>4, <1>7, <3>4 DEF IInv, Ends, peers
  <2> QED
    BY <2>1, <2>2, <2>3
<1>11. ObjectsTyped'
  BY <1>1, <1>2, <1>6, <1>7, TellTyped DEF ObjectsTyped
<1>12. Stages'
  BY <1>4, <1>6, <1>7 DEF IInv, Stages, Alive
<1>13. InEpoll'
  <2>1. \A k \in Io, f \in Fds : ~ (k = l /\ f = conn[c].fd) =>
          poller'[k].epoll[f] = poller[k].epoll[f]
    BY <1>5, <1>6 DEF ep
  <2>2. poller'[l].epoll[conn[c].fd] = Nil
    BY <1>4, <1>5, <1>6
  <2>3. ASSUME NEW k \in Io, NEW f \in Fds, poller'[k].epoll[f] # Nil
        PROVE  /\ conn[poller'[k].epoll[f].conn].state = "kConnected"
               /\ conn[poller'[k].epoll[f].conn].loop = k
               /\ conn[poller'[k].epoll[f].conn].fd = f
    BY <2>1, <2>2, <2>3 DEF IInv, InEpoll
  <2>4. ASSUME NEW d \in Conns, conn[d].state = "kConnected"
        PROVE  poller'[conn[d].loop].epoll[conn[d].fd] = [conn |-> d, events |-> {"IN"}]
    <3>1. d # c /\ Alive(d)
      BY <2>4, <1>4 DEF Alive
    <3>2. conn[d].loop \in Io /\ conn[d].fd \in Fds \ {conn[c].fd}
      BY <1>2, <3>1 DEF IInv, Descriptors
    <3> QED
      BY <2>1, <2>4, <3>2 DEF IInv, InEpoll
  <2> QED
    BY <1>7, <2>3, <2>4 DEF InEpoll
<1>14. InChannels'
  <2>1. \A k \in Io, f \in Fds : ~ (k = l /\ f = conn[c].fd) =>
          poller'[k].channels[f] = poller[k].channels[f]
    BY <1>5, <1>6 DEF ch
  <2>2. poller'[l].channels[conn[c].fd] = Nil
    BY <1>4, <1>5, <1>6
  <2>3. ASSUME NEW k \in Io, NEW f \in Fds, poller'[k].channels[f] # Nil
        PROVE  /\ Alive(poller[k].channels[f]) /\ chan'[poller[k].channels[f]].index # "kNew"
               /\ poller'[k].channels[f] = poller[k].channels[f]
               /\ conn[poller[k].channels[f]].loop = k
               /\ conn[poller[k].channels[f]].fd = f
    <3>1. poller'[k].channels[f] = poller[k].channels[f] /\ poller[k].channels[f] \in Conns
          /\ ~ (k = l /\ f = conn[c].fd)
      BY <2>1, <2>2, <2>3, <1>1, PollerRefers
    <3>2. Alive(poller[k].channels[f]) /\ chan[poller[k].channels[f]].index # "kNew"
          /\ conn[poller[k].channels[f]].loop = k /\ conn[poller[k].channels[f]].fd = f
      BY <2>3, <3>1 DEF IInv, InChannels
    <3>3. poller[k].channels[f] # c
      BY <3>1, <3>2, <1>4
    <3> QED
      BY <3>1, <3>2, <3>3, <1>6
  <2>4. ASSUME NEW d \in Conns, Alive(d), chan'[d].index # "kNew"
        PROVE  poller'[conn[d].loop].channels[conn[d].fd] = d
    <3>1. d # c /\ chan[d].index # "kNew"
      BY <2>4, <1>6
    <3>2. conn[d].loop \in Io /\ conn[d].fd \in Fds \ {conn[c].fd}
      BY <1>2, <2>4, <3>1 DEF IInv, Descriptors
    <3> QED
      BY <2>1, <2>4, <3>1, <3>2 DEF IInv, InChannels
  <2> QED
    BY <1>7, <2>3, <2>4 DEF InChannels, Alive
<1>15. Tasks'
  <2>1. Todo[l] # <<>> /\ Head(Todo[l]).conn = c /\ Todo' = [Todo EXCEPT ![l] = Tail(@)]
    BY <1>1, <1>7, TodoTaken DEF c
  <2>2. Due' = [Due EXCEPT ![c] = Nothing]
    <3>1. Due'[c] = Nothing
      BY <1>2, <1>4, <1>6, <1>7 DEF Due, Nothing
    <3>2. \A d \in Conns \ {c} : /\ conn'[d] = conn[d] /\ chan'[d].index = chan[d].index
                                 /\ d \in connections' <=> d \in connections
      BY <1>6, <1>7
    <3> QED
      BY <1>2, <3>1, <3>2, DueChanged
  <2> QED
    BY <1>1, <2>1, <2>2, MatchesTake, DueTyped, TodoTyped DEF IInv, Tasks
<1> QED
  BY <1>9, <1>10, <1>11, <1>12, <1>13, <1>14, <1>15 DEF IInv, Typed

LEMMA RunFunctorKeeps == ASSUME IInv, NEW l \in Loops, RunFunctor(l) PROVE IInv'
<1>1. /\ pc[l] = "functors" /\ ran[l] < Len(batch[l]) /\ ran' = [ran EXCEPT ![l] = @ + 1]
      /\ UNCHANGED <<peers, next, pc, active, batch>>
  BY DEF RunFunctor
<1> DEFINE f == batch[l][ran[l] + 1]
<1>2. \/ f.name = "connectEstablished" /\ ConnectEstablished(f.conn)
      \/ f.name = "connectDestoryed" /\ ConnectDestoryed(f.conn)
      \/ f.name = "removeConnection" /\ RemoveConnectionInLoop(f.conn)
  BY DEF RunFunctor
<1> QED
  BY <1>1, <1>2, ConnectEstablishedKeeps, ConnectDestoryedKeeps, RemoveConnectionKeeps

-----------------------------------------------------------------------------
(* Freeing connections *)

\* Nothing waits for a connection that is freed, and its channel is removed.
LEMMA FreedIsDone ==
    ASSUME IInv, NEW l \in Loops, ran[l] = Len(batch[l]),
           NEW i \in 1 .. Len(batch[l]), ~ HeldElsewhere(batch[l][i].conn, l)
    PROVE  LET c == batch[l][i].conn
           IN  /\ c \in Conns /\ conn[c].state = "kDisconnected" /\ c \notin connections
               /\ chan[c].index = "kNew" /\ Due[c] = Nothing
<1> DEFINE c == batch[l][i].conn
<1>1. LoopsTyped /\ ObjectsTyped
  BY DEF IInv, Typed
<1>2. c \in Conns /\ Alive(c)
  BY <1>1, BatchConns DEF IInv, Batches
<1>3. ~ HeldElsewhere(c, l)
  OBVIOUS
<1> HIDE DEF c
<1>4. c \notin connections
  BY <1>3 DEF HeldElsewhere
<1>5. conn[c].state = "kDisconnected"
  <2>1. conn[c].state \in States
    BY <1>1, <1>2 DEF ObjectsTyped, ConnType
  <2> QED
    BY <1>2, <1>4, <2>1 DEF IInv, Stages, Alive, States
<1>6. Due[c].name = "nothing"
  <2> SUFFICES ASSUME Due[c].name # "nothing" PROVE FALSE
    OBVIOUS
  <2> DEFINE k == Due[c].loop
  <2>1. k \in Loops
    BY <1>1, <1>2, DueTyped DEF DueType
  <2> HIDE DEF k
  <2>2. PICK j \in 1 .. Len(Todo[k]) : Todo[k][j].conn = c
    BY <1>2 DEF IInv, Tasks, Matches, k
  <2>3. Todo[k] = Rest(batch[k], ran[k], queue[k])
    BY <1>1, <2>1, TodoTyped
  <2>4. \A j2 \in 1 .. Len(queue[k]) : queue[k][j2].conn # c
    <3>1. DOMAIN queue[k] = 1 .. Len(queue[k])
      BY <1>1, <2>1, LenProperties DEF LoopsTyped
    <3> QED
      BY <1>3, <2>1, <3>1 DEF HeldElsewhere
  <2>5. CASE k = l
    <3>1. Rest(batch[l], Len(batch[l]), queue[l]) = queue[l]
      BY <1>1, RestEnds DEF LoopsTyped
    <3> QED
      BY <2>2, <2>3, <2>4, <2>5, <3>1
  <2>6. CASE k # l
    <3>1. /\ batch[k] \in Seq(FunctorType) /\ queue[k] \in Seq(FunctorType) /\ ran[k] \in Nat
          /\ ran[k] <= Len(batch[k]) /\ DOMAIN batch[k] = 1 .. Len(batch[k])
      BY <1>1, <2>1, LenProperties DEF LoopsTyped
    <3>2. \/ \E m \in 1 .. Len(batch[k]) : Todo[k][j] = batch[k][m]
          \/ \E m \in 1 .. Len(queue[k]) : Todo[k][j] = queue[k][m]
      BY <2>2, <2>3, <3>1, RestElements
    <3>3. PICK m \in DOMAIN batch[k] : batch[k][m].conn = c
      BY <2>2, <2>4, <3>1, <3>2
    <3> QED
      BY <1>3, <2>1, <2>6, <3>3 DEF HeldElsewhere
  <2> QED
    BY <2>5, <2>6
<1>7. chan[c].index = "kNew" /\ Due[c] = Nothing
  <2>1. chan[c].index = "kNew"
    BY <1>2, <1>4, <1>5, <1>6 DEF Due
  <2> QED
    BY <1>2, <1>4, <1>5, <2>1 DEF Due
<1> QED
  BY <1>2, <1>4, <1>5, <1>7 DEF c

LEMMA FunctorsDoneKeeps == ASSUME IInv, NEW l \in Loops, FunctorsDone(l) PROVE IInv'
<1> DEFINE freed == {c \in {batch[l][i].conn : i \in DOMAIN batch[l]} : ~ HeldElsewhere(c, l)}
           closed == {conn[c].fd : c \in freed}
<1>1. LoopsTyped /\ ObjectsTyped
  BY DEF IInv, Typed
<1>2. DOMAIN batch[l] = 1 .. Len(batch[l])
  BY <1>1, LenProperties DEF LoopsTyped
<1>3. /\ pc[l] = "functors" /\ ran[l] = Len(batch[l])
      /\ pc' = [pc EXCEPT ![l] = "poll"]
      /\ batch' = [batch EXCEPT ![l] = <<>>] /\ ran' = [ran EXCEPT ![l] = 0]
      /\ conn' = [c \in Conns |-> IF c \in freed
                                  THEN [state |-> "freed", fd |-> Nil, loop |-> conn[c].loop]
                                  ELSE conn[c]]
      /\ poller' = [k \in Io |-> [poller[k] EXCEPT
                      !.epoll = [f \in Fds |-> IF f \in closed THEN Nil ELSE @[f]]]]
      /\ UNCHANGED <<peers, connections, next, chan, told, active, queue>>
  BY DEF FunctorsDone
<1>4. \A c \in freed : /\ c \in Conns /\ conn[c].state = "kDisconnected" /\ c \notin connections
                       /\ chan[c].index = "kNew" /\ Due[c] = Nothing
  <2> TAKE c \in freed
  <2>1. PICK i \in 1 .. Len(batch[l]) : c = batch[l][i].conn
    BY <1>2
  <2> QED
    BY <1>3, <2>1, FreedIsDone
<1>5. \A k \in Loops \ {l} : \A i \in 1 .. Len(batch[k]) : batch[k][i].conn \notin freed
  <2> TAKE k \in Loops \ {l}
  <2> TAKE i \in 1 .. Len(batch[k])
  <2>1. i \in DOMAIN batch[k]
    BY <1>1, LenProperties DEF LoopsTyped
  <2> QED
    BY <2>1 DEF HeldElsewhere
<1> HIDE DEF freed
<1>6. /\ \A c \in freed : conn'[c].state = "freed"
      /\ \A c \in Conns \ freed : conn'[c] = conn[c]
  BY <1>3, <1>4
<1>7. \A c \in Conns : Alive(c)' <=> Alive(c) /\ c \notin freed
  BY <1>6 DEF Alive
<1>8. \A k \in Io : /\ poller'[k].channels = poller[k].channels
                    /\ poller'[k].epoll = [f \in Fds |-> IF f \in closed THEN Nil
                                                         ELSE poller[k].epoll[f]]
  <2> HIDE DEF closed
  <2> TAKE k \in Io
  <2>1. poller[k] \in PollerType
    BY <1>1 DEF ObjectsTyped
  <2>2. poller'[k] = [poller[k] EXCEPT
                        !.epoll = [f \in Fds |-> IF f \in closed THEN Nil ELSE poller[k].epoll[f]]]
    BY <1>3
  <2> QED
    BY <2>1, <2>2 DEF PollerType
<1>9. \A c \in Conns : conn[c].state = "kConnected" => conn[c].fd \notin closed
  <2> SUFFICES ASSUME NEW c \in Conns, conn[c].state = "kConnected", conn[c].fd \in closed
               PROVE  FALSE
    OBVIOUS
  <2>1. PICK d \in freed : conn[d].fd = conn[c].fd
    OBVIOUS
  <2>2. d \in Conns /\ d # c /\ Alive(d) /\ Alive(c)
    BY <1>4 DEF Alive
  <2> QED
    BY <2>1, <2>2 DEF IInv, Descriptors
<1> HIDE DEF closed
<1>10. /\ batch'[l] = <<>> /\ ran'[l] = 0 /\ pc'[l] = "poll"
       /\ \A k \in Loops \ {l} : batch'[k] = batch[k] /\ ran'[k] = ran[k] /\ pc'[k] = pc[k]
  BY <1>1, <1>3 DEF LoopsTyped
<1>11. PeersTyped'
  BY <1>3 DEF IInv, Typed, PeersTyped, peers
<1>12. ObjectsTyped'
  <2>1. conn' \in [Conns -> ConnType]
    <3>1. \A c \in Conns : conn'[c] \in ConnType
      <4> TAKE c \in Conns
      <4>1. conn[c] \in ConnType /\ conn[c].loop \in Loops
        BY <1>1 DEF ObjectsTyped, ConnType
      <4>2. [state |-> "freed", fd |-> Nil, loop |-> conn[c].loop] \in ConnType
        BY <4>1 DEF ConnType, States
      <4> QED
        BY <1>3, <4>1, <4>2
    <3> QED
      BY <1>3, <3>1
  <2>2. poller' \in [Io -> PollerType]
    <3>1. \A k \in Io : poller'[k] \in PollerType
      <4> TAKE k \in Io
      <4> DEFINE e == [f \in Fds |-> IF f \in closed THEN Nil ELSE poller[k].epoll[f]]
      <4>1. poller[k] \in PollerType
        BY <1>1 DEF ObjectsTyped
      <4>2. e \in [Fds -> Registered \cup {Nil}]
        BY <4>1 DEF PollerType
      <4>3. poller'[k] = [poller[k] EXCEPT !.epoll = e]
        BY <1>3
      <4> HIDE DEF e
      <4> QED
        BY <4>1, <4>2, <4>3 DEF PollerType
    <3> QED
      BY <1>3, <3>1
  <2> QED
    BY <1>1, <1>3, <2>1, <2>2 DEF ObjectsTyped
<1>13. LoopsTyped'
  <2>1. <<>> \in Seq(FunctorType) /\ Len(<<>>) = 0
    OBVIOUS
  <2>2. /\ pc' \in [Loops -> {"poll", "events", "functors"}] /\ DOMAIN active' = Loops
        /\ ran' \in [Loops -> Nat]
        /\ queue' \in [Loops -> Seq(FunctorType)] /\ batch' \in [Loops -> Seq(FunctorType)]
    BY <1>1, <1>3, <2>1 DEF LoopsTyped
  <2>3. \A k \in Loops : ran'[k] <= Len(batch'[k])
    <3>1. \A k \in Loops : ran[k] <= Len(batch[k])
      BY <1>1 DEF LoopsTyped
    <3> QED
      BY <1>10, <2>1, <3>1
  <2> QED
    BY <2>2, <2>3 DEF LoopsTyped
<1>14. Descriptors'
  BY <1>6, <1>7 DEF IInv, Descriptors
<1>15. Ends'
  <2>1. \A c \in freed : peer[c] \in {"fin", "rst"} /\ c \notin backlog
    BY <1>4 DEF IInv, Ends
  <2>2. UNCHANGED <<peer, backlog, told, chan>>
    BY <1>3 DEF peers
  <2> SUFFICES ASSUME NEW c \in Conns
               PROVE  /\ peer[c] = "none" \/ c \in backlog => conn'[c].state = "none"
                      /\ c \in backlog => peer[c] # "none"
                      /\ conn'[c].state \in {"kDisconnected", "freed"} => peer[c] \in {"fin", "rst"}
                      /\ told[c] = ToldIn(conn'[c].state, chan[c].index)
    BY <2>2 DEF Ends
  <2>3. CASE c \in freed
    <3>1. told[c] = ToldIn("kDisconnected", "kNew") /\ chan[c].index = "kNew"
      BY <1>4, <2>3 DEF IInv, Ends
    <3> QED
      BY <1>6, <2>1, <2>3, <3>1, ToldSteps
  <2>4. CASE c \notin freed
    BY <1>6, <2>4 DEF IInv, Ends
  <2> QED
    BY <2>3, <2>4
<1>16. Stages'
  <2>1. UNCHANGED <<chan, connections>>
    BY <1>3
  <2> QED
    BY <1>4, <1>6, <1>7, <2>1 DEF IInv, Stages
<1>17. InEpoll'
  <2>1. ASSUME NEW k \in Io, NEW f \in Fds, poller'[k].epoll[f] # Nil
        PROVE  /\ conn'[poller'[k].epoll[f].conn].state = "kConnected"
               /\ conn'[poller'[k].epoll[f].conn].loop = k
               /\ conn'[poller'[k].epoll[f].conn].fd = f
    <3>1. poller'[k].epoll[f] = poller[k].epoll[f] /\ poller[k].epoll[f].conn \in Conns
      BY <1>1, <1>8, <2>1, PollerRefers
    <3>2. poller[k].epoll[f].conn \notin freed
      BY <1>4, <2>1, <3>1 DEF IInv, InEpoll
    <3> QED
      BY <1>6, <2>1, <3>1, <3>2 DEF IInv, InEpoll
  <2>2. ASSUME NEW c \in Conns, conn'[c].state = "kConnected"
        PROVE  poller'[conn'[c].loop].epoll[conn'[c].fd] = [conn |-> c, events |-> {"IN"}]
    <3>1. conn'[c] = conn[c] /\ Alive(c)
      BY <1>6, <2>2 DEF Alive
    <3>2. conn[c].loop \in Io /\ conn[c].fd \in Fds \ closed
      BY <1>9, <2>2, <3>1 DEF IInv, Descriptors
    <3>3. poller'[conn[c].loop].epoll[conn[c].fd] = poller[conn[c].loop].epoll[conn[c].fd]
      BY <1>8, <3>2
    <3> QED
      BY <2>2, <3>1, <3>3 DEF IInv, InEpoll
  <2> QED
    BY <2>1, <2>2 DEF InEpoll
<1>18. InChannels'
  <2>1. ASSUME NEW k \in Io, NEW f \in Fds, poller'[k].channels[f] # Nil
        PROVE  /\ conn'[poller'[k].channels[f]].state \notin {"none", "freed"}
               /\ chan[poller'[k].channels[f]].index # "kNew"
               /\ conn'[poller'[k].channels[f]].loop = k
               /\ conn'[poller'[k].channels[f]].fd = f
    <3>1. poller'[k].channels[f] = poller[k].channels[f] /\ poller[k].channels[f] \in Conns
      BY <1>1, <1>8, <2>1, PollerRefers
    <3>2. poller[k].channels[f] \notin freed
      BY <1>4, <2>1, <3>1 DEF IInv, InChannels
    <3> QED
      BY <1>6, <2>1, <3>1, <3>2 DEF IInv, InChannels, Alive
  <2>2. ASSUME NEW c \in Conns, conn'[c].state \notin {"none", "freed"}, chan[c].index # "kNew"
        PROVE  poller'[conn'[c].loop].channels[conn'[c].fd] = c
    <3>1. conn'[c] = conn[c] /\ Alive(c)
      BY <1>6, <2>2 DEF Alive
    <3>2. conn[c].loop \in Io
      BY <3>1 DEF IInv, Descriptors
    <3>3. poller'[conn[c].loop].channels[conn[c].fd] = poller[conn[c].loop].channels[conn[c].fd]
      BY <1>8, <3>2
    <3> QED
      BY <2>2, <3>1, <3>3 DEF IInv, InChannels
  <2>3. chan' = chan
    BY <1>3
  <2> QED
    BY <2>1, <2>2, <2>3 DEF InChannels, Alive
<1>19. Reported'
  <2>1. UNCHANGED <<active, unread, peer>>
    BY <1>3 DEF peers
  <2>2. \A c \in Conns : conn[c].state = "kConnected" => conn'[c] = conn[c]
    BY <1>4, <1>6
  <2> QED
    BY <2>1, <2>2 DEF IInv, Reported
<1>20. Tasks'
  <2>1. Due' = Due
    <3>1. \A c \in freed : Due'[c] = Nothing
      BY <1>4, <1>6 DEF Due
    <3>2. \A c \in Conns \ freed : Due'[c] = Due[c]
      BY <1>3, <1>6 DEF Due
    <3>3. \A c \in Conns : Due'[c] = Due[c]
      BY <1>4, <3>1, <3>2
    <3>4. Due' = [c \in Conns |-> Due'[c]] /\ Due = [c \in Conns |-> Due[c]]
      BY DEF Due
    <3> QED
      BY <3>3, <3>4
  <2>2. Todo' = Todo
    <3>1. Rest(batch[l], Len(batch[l]), queue[l]) = queue[l] /\ Rest(<<>>, 0, queue[l]) = queue[l]
      BY <1>1, RestEnds DEF LoopsTyped
    <3>2. queue' = queue
      BY <1>3
    <3>3. Todo'[l] = Todo[l]
      BY <1>1, <1>3, <1>10, <3>1, <3>2, TodoTyped, TodoPrimed
    <3>4. \A k \in Loops \ {l} : Todo'[k] = Todo[k]
      BY <1>1, <1>10, <3>2, TodoTyped, TodoPrimed
    <3> QED
      BY <1>1, <3>3, <3>4, TodoTyped, TodoPrimed
  <2> QED
    BY <2>1, <2>2 DEF IInv, Tasks
<1>21. Batches'
  <2>1. \A k \in Loops \ {l} : \A i \in 1 .. Len(batch[k]) :
          batch[k][i].conn \in Conns /\ Alive(batch[k][i].conn) /\ batch[k][i].conn \notin freed
    BY <1>1, <1>5, BatchConns DEF IInv, Batches
  <2>2. \A k \in Loops : \A i \in 1 .. Len(batch'[k]) :
          conn'[batch'[k][i].conn].state \notin {"none", "freed"}
    <3>1. Len(<<>>) = 0
      OBVIOUS
    <3>2. \A k \in Loops \ {l} : \A i \in 1 .. Len(batch[k]) :
            conn'[batch[k][i].conn].state \notin {"none", "freed"}
      BY <1>6, <2>1 DEF Alive
    <3> QED
      BY <1>10, <3>1, <3>2
  <2>3. \A k \in Loops : pc'[k] # "functors" => batch'[k] = <<>> /\ ran'[k] = 0
    BY <1>10 DEF IInv, Batches
  <2> QED
    BY <2>2, <2>3 DEF Batches, Alive
<1> QED
  BY <1>11, <1>12, <1>13, <1>14, <1>15, <1>16, <1>17, <1>18, <1>19, <1>20, <1>21 DEF IInv, Typed

-----------------------------------------------------------------------------
(* Every step keeps the invariant *)

LEMMA StepIInv == IInv /\ [Next]_vars => IInv'
<1> SUFFICES ASSUME IInv, [Next]_vars PROVE IInv'
  OBVIOUS
<1>1. CASE UNCHANGED vars
  <2>1. UNCHANGED <<peers, objects, loops>>
    BY <1>1 DEF vars, peers, objects, loops
  <2>2. PeersTyped' /\ Ends' /\ Reported'
    BY <1>1 DEF IInv, Typed, PeersTyped, Ends, Reported, vars
  <2> QED
    BY <2>1, <2>2, ObjectsSame, LoopsSame DEF IInv, Typed
<1>2. ASSUME NEW c \in Conns, PeerStep(c) PROVE IInv'
  BY <1>2, PeerStepKeeps
<1>3. ASSUME NEW l \in Loops, LoopStep(l) PROVE IInv'
  <2>1. CASE l = Main /\ AcceptorRead
    BY <2>1, AcceptorReadKeeps
  <2>2. ASSUME l # Main, NEW a \in active[l], HandleEvent(l, a) PROVE IInv'
    <3>1. l \in Io
      BY <2>2, Consts
    <3> QED
      BY <2>2, <3>1, HandleEventKeeps
  <2>3. CASE Poll(l) \/ Swap(l) \/ RunFunctor(l) \/ FunctorsDone(l)
    BY <2>3, PollKeeps, SwapKeeps, RunFunctorKeeps, FunctorsDoneKeeps
  <2> QED
    BY <1>3, <2>1, <2>2, <2>3 DEF LoopStep
<1> QED
  BY <1>1, <1>2, <1>3 DEF Next

LEMMA Invariance == Spec => []IInv
<1>1. Init => IInv
  BY InitIInv
<1>2. IInv /\ [Next]_vars => IInv'
  BY StepIInv
<1> QED
  BY <1>1, <1>2, PTL DEF Spec

\* Every variable of the server keeps its type, a connection that is alive has an
\* io loop, and no two of them share a descriptor.
THEOREM TypeCorrect == Spec => []TypeOK
<1>1. IInv => TypeOK
  <2> SUFFICES ASSUME IInv PROVE TypeOK
    OBVIOUS
  <2>1. \A c \in Conns : conn[c].state \in States
    BY DEF IInv, Typed, ObjectsTyped, ConnType
  <2> QED
    BY <2>1 DEF IInv, Typed, PeersTyped, ObjectsTyped, Descriptors, TypeOK, States, ChanType
<1> QED
  BY <1>1, Invariance, PTL

\* EpollPoller never asks epoll to add what is registered, nor to change or delete
\* what is not: the index of every channel is what epoll knows of its descriptor.
THEOREM IndexCorrect == Spec => []IndexMatchesEpoll
<1>1. IInv => IndexMatchesEpoll
  <2> SUFFICES ASSUME IInv, NEW c \in Conns, Alive(c)
               PROVE  chan[c].index = "kAdded" <=>
                        /\ poller[conn[c].loop].epoll[conn[c].fd] # Nil
                        /\ poller[conn[c].loop].epoll[conn[c].fd].conn = c
    BY DEF IndexMatchesEpoll
  <2>1. conn[c].state \in States /\ conn[c].loop \in Io /\ conn[c].fd \in Fds
    BY DEF IInv, Typed, ObjectsTyped, ConnType, Descriptors
  <2>2. ASSUME chan[c].index = "kAdded"
        PROVE  /\ poller[conn[c].loop].epoll[conn[c].fd] # Nil
               /\ poller[conn[c].loop].epoll[conn[c].fd].conn = c
    <3>1. conn[c].state = "kConnected"
      BY <2>1, <2>2 DEF IInv, Stages, Alive, States
    <3>2. poller[conn[c].loop].epoll[conn[c].fd] = [conn |-> c, events |-> {"IN"}]
      BY <3>1 DEF IInv, InEpoll
    <3> QED
      BY <3>2, NilAssumption
  <2>3. ASSUME poller[conn[c].loop].epoll[conn[c].fd] # Nil,
               poller[conn[c].loop].epoll[conn[c].fd].conn = c
        PROVE  chan[c].index = "kAdded"
    BY <2>1, <2>3 DEF IInv, InEpoll, Stages
  <2> QED
    BY <2>2, <2>3
<1> QED
  BY <1>1, Invariance, PTL

\* No poller, no registration and no event that is still to be handled leads to a
\* channel whose connection has been freed.
THEOREM NoDangling == Spec => []NoDanglingChannel
<1>1. IInv => NoDanglingChannel
  <2> SUFFICES ASSUME IInv PROVE NoDanglingChannel
    OBVIOUS
  <2>1. \A l \in Io, f \in Fds :
          /\ poller[l].channels[f] # Nil => Alive(poller[l].channels[f])
          /\ poller[l].epoll[f] # Nil => Alive(poller[l].epoll[f].conn)
    BY DEF IInv, InEpoll, InChannels, Alive
  <2>2. \A l \in Io : \A a \in active[l] : Alive(a.conn)
    BY DEF IInv, Reported, Alive
  <2> QED
    BY <2>1, <2>2 DEF NoDanglingChannel
<1> QED
  BY <1>1, Invariance, PTL

LEMMA AtMostOne ==
    ASSUME NEW S, \A x, y \in S : x = y
    PROVE  Cardinality(S) <= 1
<1>1. CASE S = {}
  BY <1>1, FS_EmptySet
<1>2. CASE S # {}
  <2>1. PICK x \in S : S = {x}
    BY <1>2
  <2> QED
    BY <2>1, FS_Singleton
<1> QED
  BY <1>1, <1>2

LEMMA WaitingIsDue ==
    ASSUME IInv, NEW f \in FunctorNames, NEW c \in Conns, NEW w \in Waiting(f, c)
    PROVE  /\ Due[c].name = f
           /\ \E i \in 1 .. Len(Todo[Due[c].loop]) :
                w = <<Due[c].loop, i>> /\ Todo[Due[c].loop][i].conn = c
<1>0. PICK l \in Loops :
        w \in {<<l, i>> : i \in {j \in DOMAIN ToRun(l) : ToRun(l)[j] = Functor(f, c)}}
  BY DEF Waiting
<1>1. PICK i \in DOMAIN ToRun(l) : w = <<l, i>> /\ ToRun(l)[i] = Functor(f, c)
  BY <1>0
<1>2. Todo[l] = ToRun(l) /\ Todo[l] \in Seq(FunctorType)
  <2>1. Todo[l] \in Seq(FunctorType)
    BY TodoTyped DEF IInv, Typed
  <2> QED
    BY <2>1 DEF Todo
<1>3. i \in 1 .. Len(Todo[l]) /\ Todo[l][i].name = f /\ Todo[l][i].conn = c
  BY <1>1, <1>2, LenProperties, FunctorTyped
<1>4. Due[c] = [loop |-> l, name |-> f]
  BY <1>3 DEF IInv, Tasks, Matches
<1>5. Due[c].name = f /\ Due[c].loop = l
  BY <1>4
<1> QED
  BY <1>1, <1>3, <1>5

\* connectEstablished and connectDestoryed are each called once of a connection, and
\* in the state that only the call ends.
THEOREM CalledOnce == Spec => []OnlyCalledOnce
<1>1. IInv => OnlyCalledOnce
  <2> SUFFICES ASSUME IInv, NEW c \in Conns
               PROVE  LET up == Waiting("connectEstablished", c)
                          down == Waiting("removeConnection", c)
                                    \cup Waiting("connectDestoryed", c)
                      IN  /\ Cardinality(up) <= 1
                          /\ (up # {} => conn[c].state = "kConnecting")
                          /\ Cardinality(down) <= 1
                          /\ down # {} => /\ conn[c].state = "kDisconnected"
                                          /\ poller[conn[c].loop].channels[conn[c].fd] = c
    BY DEF OnlyCalledOnce
  <2> DEFINE up == Waiting("connectEstablished", c)
             down == Waiting("removeConnection", c) \cup Waiting("connectDestoryed", c)
  <2>1. \A w \in up : Due[c].name = "connectEstablished"
    BY WaitingIsDue DEF FunctorNames
  <2>2. \A w \in down : Due[c].name \in {"removeConnection", "connectDestoryed"}
    BY WaitingIsDue DEF FunctorNames
  <2>3. \A w \in up \cup down :
          \E i \in 1 .. Len(Todo[Due[c].loop]) :
             w = <<Due[c].loop, i>> /\ Todo[Due[c].loop][i].conn = c
    BY WaitingIsDue DEF FunctorNames
  <2> HIDE DEF up, down
  <2>4. Due[c].loop \in Loops
    BY DueTyped DEF IInv, Typed, DueType
  <2>5. \A w, v \in up \cup down : w = v
    <3> TAKE w, v \in up \cup down
    <3>1. PICK i \in 1 .. Len(Todo[Due[c].loop]) :
             w = <<Due[c].loop, i>> /\ Todo[Due[c].loop][i].conn = c
      BY <2>3
    <3>2. PICK j \in 1 .. Len(Todo[Due[c].loop]) :
             v = <<Due[c].loop, j>> /\ Todo[Due[c].loop][j].conn = c
      BY <2>3
    <3>3. i = j
      BY <2>4, <3>1, <3>2 DEF IInv, Tasks, Matches
    <3> QED
      BY <3>1, <3>2, <3>3
  <2>6. Cardinality(up) <= 1 /\ Cardinality(down) <= 1
    BY <2>5, AtMostOne
  <2>7. up # {} => conn[c].state = "kConnecting"
    BY <2>1 DEF Due, Nothing
  <2>8. ASSUME down # {}
        PROVE  conn[c].state = "kDisconnected" /\ poller[conn[c].loop].channels[conn[c].fd] = c
    <3>1. Due[c].name \in {"removeConnection", "connectDestoryed"}
      BY <2>2, <2>8
    <3>2. conn[c].state = "kDisconnected" /\ (c \in connections \/ chan[c].index # "kNew")
      BY <3>1 DEF Due, Nothing
    <3>3. Alive(c) /\ chan[c].index # "kNew"
      BY <3>2 DEF IInv, Stages, Alive
    <3> QED
      BY <3>2, <3>3 DEF IInv, InChannels
  <2> QED
    BY <2>6, <2>7, <2>8 DEF up, down
<1> QED
  BY <1>1, Invariance, PTL

-----------------------------------------------------------------------------
(* What the users are told *)

\* What is told and who is gone when one connection changes.
LEMMA GoneSame ==
    ASSUME \A d \in Conns : conn'[d].state = "freed" <=> conn[d].state = "freed"
    PROVE  Gone' = Gone
BY DEF Gone

LEMMA LifeStep ==
    ASSUME IInv, IInv', [Next]_vars
    PROVE  [Life!Next]_Life!vars
<1>0. ObjectsTyped /\ LoopsTyped
  BY DEF IInv, Typed
<1>1. \A c \in Conns : told[c] = ToldIn(conn[c].state, chan[c].index) /\ conn[c].state \in States
  BY <1>0 DEF IInv, Ends, ObjectsTyped, ConnType
<1>2. ASSUME UNCHANGED <<conn, unread, told>> PROVE [Life!Next]_Life!vars
  BY <1>2 DEF Life!vars, Gone
<1>3. ASSUME NEW c \in Conns, PeerStep(c) PROVE [Life!Next]_Life!vars
  <2>1. UNCHANGED <<conn, told>>
    BY <1>3 DEF PeerStep, Connect, Send, Leave, objects
  <2>2. CASE UNCHANGED unread
    BY <1>2, <2>1, <2>2
  <2>3. CASE Send(c)
    <3>1. conn[c].state \in {"none", "kConnecting", "kConnected"}
      BY <2>3, <1>1 DEF Send, IInv, Ends, States
    <3>2. told[c] \in {<<>>, <<"up">>}
      BY <1>1, <3>1 DEF ToldIn
    <3>3. Life!Send(c)
      BY <2>1, <2>3, <3>2 DEF Send, Life!Send, Gone
    <3> QED
      BY <3>3 DEF Life!Next
  <2> QED
    BY <1>3, <2>2, <2>3 DEF PeerStep, Connect, Leave
<1>4. ASSUME AcceptorRead PROVE [Life!Next]_Life!vars
  <2>1. UNCHANGED <<unread, told>>
    BY <1>4 DEF AcceptorRead
  <2>2. CASE UNCHANGED conn
    BY <1>2, <2>1, <2>2
  <2>3. ASSUME NEW c \in First(backlog), NEW fd, NewConnection(c, fd)
        PROVE  [Life!Next]_Life!vars
    <3>1. c \in Conns /\ conn[c].state = "none"
      BY DEF First, IInv, Typed, PeersTyped, Ends
    <3>2. /\ conn'[c].state = "kConnecting"
          /\ \A d \in Conns \ {c} : conn'[d] = conn[d]
      BY <1>0, <2>3, <3>1 DEF NewConnection, ObjectsTyped
    <3>3. Gone' = Gone
      BY <3>1, <3>2, GoneSame
    <3> QED
      BY <2>1, <3>3 DEF Life!vars
  <2> QED
    BY <1>4, <2>2, <2>3 DEF AcceptorRead
<1>5. ASSUME NEW l \in Io, NEW a \in active[l], HandleEvent(l, a) PROVE [Life!Next]_Life!vars
  <2>1. a.conn \in Conns /\ conn[a.conn].state = "kConnected"
    BY DEF IInv, Reported
  <2>2. told[a.conn] = <<"up">>
    BY <1>1, <2>1 DEF ToldIn
  <2>3. CASE AtEnd(a.conn, a.revents)
    <3>1. SetState(a.conn, "kDisconnected") /\ Tell(a.conn, "down") /\ UNCHANGED unread
      BY <1>5, <2>3 DEF HandleEvent, HandleClose
    <3>2. "kDisconnected" \in States
      BY DEF States
    <3>3. /\ conn'[a.conn].state = "kDisconnected"
          /\ \A d \in Conns \ {a.conn} : conn'[d] = conn[d]
      BY <1>0, <2>1, <3>1, <3>2, StateSet
    <3>4. Gone' = Gone
      BY <2>1, <3>3, GoneSame
    <3>5. Life!Down(a.conn)
      BY <2>2, <2>3, <3>1, <3>4, EndMeansRead DEF Tell, Life!Down, Life!Tell
    <3> QED
      BY <2>1, <3>5 DEF Life!Next
  <2>4. CASE ~ AtEnd(a.conn, a.revents)
    <3>1. HandleMessage(a.conn)
      BY <1>5, <2>4 DEF HandleEvent
    <3>2. Life!Deliver(a.conn)
      BY <2>2, <3>1 DEF HandleMessage, Life!Deliver, Gone
    <3> QED
      BY <2>1, <3>2 DEF Life!Next
  <2> QED
    BY <2>3, <2>4
<1>6. ASSUME NEW l \in Loops, RunFunctor(l) PROVE [Life!Next]_Life!vars
  <2> DEFINE f == batch[l][ran[l] + 1]
  <2>1. ran[l] < Len(batch[l]) /\ UNCHANGED unread
    BY <1>6 DEF RunFunctor, peers
  <2>2. CASE f.name = "connectEstablished" /\ ConnectEstablished(f.conn)
    <3>1. PICK c \in Conns : c = f.conn /\ Due[c] = [loop |-> l, name |-> "connectEstablished"]
      BY <2>1, <2>2, NextFunctor
    <3>2. conn[c].state = "kConnecting"
      BY <3>1, DueMeans DEF FunctorNames
    <3>3. SetState(c, "kConnected") /\ Tell(c, "up") /\ "kConnected" \in States
      BY <2>2, <3>1 DEF ConnectEstablished, States
    <3>4. conn'[c].state = "kConnected" /\ \A d \in Conns \ {c} : conn'[d] = conn[d]
      BY <1>0, <3>3, StateSet
    <3>5. told[c] = <<>>
      BY <1>1, <3>2 DEF ToldIn
    <3>6. Gone' = Gone
      BY <3>2, <3>4, GoneSame
    <3>7. Life!Up(c)
      BY <2>1, <3>3, <3>5, <3>6 DEF Tell, Life!Up, Life!Tell
    <3> QED
      BY <3>7 DEF Life!Next
  <2>3. CASE f.name = "connectDestoryed" /\ ConnectDestoryed(f.conn)
    <3>1. PICK c \in Conns : c = f.conn /\ Due[c] = [loop |-> l, name |-> "connectDestoryed"]
      BY <2>1, <2>3, NextFunctor
    <3>2. conn[c].state = "kDisconnected" /\ chan[c].index # "kNew"
      BY <3>1, DueMeans DEF FunctorNames
    <3>3. Tell(c, "down") /\ conn' = conn
      BY <2>3, <3>1, <3>2 DEF ConnectDestoryed
    <3>4. told[c] = <<"up", "down">>
      BY <1>1, <3>2 DEF ToldIn
    <3>5. Life!DownAgain(c)
      BY <2>1, <3>3, <3>4 DEF Tell, Gone, Life!DownAgain, Life!Tell
    <3> QED
      BY <3>5 DEF Life!Next
  <2>4. CASE f.name = "removeConnection" /\ RemoveConnectionInLoop(f.conn)
    BY <1>2, <2>1, <2>4 DEF RemoveConnectionInLoop
  <2> QED
    BY <1>6, <2>2, <2>3, <2>4 DEF RunFunctor
<1>7. ASSUME NEW l \in Loops, FunctorsDone(l) PROVE [Life!Next]_Life!vars
  <2> DEFINE freed == {c \in {batch[l][i].conn : i \in DOMAIN batch[l]} : ~ HeldElsewhere(c, l)}
  <2>1. /\ ran[l] = Len(batch[l]) /\ UNCHANGED <<unread, told>>
        /\ conn' = [c \in Conns |-> IF c \in freed
                                    THEN [state |-> "freed", fd |-> Nil, loop |-> conn[c].loop]
                                    ELSE conn[c]]
    BY <1>7 DEF FunctorsDone, peers
  <2>2. DOMAIN batch[l] = 1 .. Len(batch[l])
    BY <1>0, LenProperties DEF LoopsTyped
  <2>3. \A c \in freed : c \in Conns /\ conn[c].state = "kDisconnected" /\ chan[c].index = "kNew"
    <3> TAKE c \in freed
    <3>1. PICK i \in 1 .. Len(batch[l]) : c = batch[l][i].conn
      BY <2>2
    <3> QED
      BY <2>1, <3>1, FreedIsDone
  <2> HIDE DEF freed
  <2>4. \A c \in freed : told[c] = <<"up", "down", "down">> /\ c \notin Gone
    BY <1>1, <2>3 DEF ToldIn, Gone
  <2>5. Gone' = Gone \cup freed
    BY <2>1, <2>3 DEF Gone
  <2>6. Life!Free(freed) /\ freed \in SUBSET Conns
    BY <2>1, <2>3, <2>4, <2>5 DEF Life!Free
  <2> QED
    BY <2>6 DEF Life!Next
<1>8. ASSUME NEW l \in Loops, Poll(l) \/ Swap(l) PROVE [Life!Next]_Life!vars
  BY <1>2, <1>8 DEF Poll, Swap, peers, objects
<1>9. CASE UNCHANGED vars
  BY <1>2, <1>9 DEF vars
<1>10. ASSUME NEW l \in Loops, LoopStep(l) PROVE [Life!Next]_Life!vars
  <2>1. ASSUME l # Main, NEW a \in active[l], HandleEvent(l, a) PROVE [Life!Next]_Life!vars
    BY <2>1, <1>5, Consts
  <2> QED
    BY <1>10, <2>1, <1>4, <1>6, <1>7, <1>8 DEF LoopStep
<1> QED
  BY <1>3, <1>9, <1>10 DEF Next

\* The users of the server are told that a connection is up, get all that its peer
\* has sent, are told that it is down, and told so once more, and only then is it
\* freed: they are never told a third time, nor anything of a connection that is gone.
THEOREM LifeImplemented == Spec => ImplementsLife
<1>1. Init => Life!Init
  <2> SUFFICES ASSUME Init PROVE Life!Init
    OBVIOUS
  <2>1. Gone = {}
    BY DEF Init, Gone
  <2> QED
    BY <2>1 DEF Init, Life!Init
<1>2. IInv /\ IInv' /\ [Next]_vars => [Life!Next]_Life!vars
  BY LifeStep
<1> QED
  BY <1>1, <1>2, Invariance, PTL DEF Spec, ImplementsLife, Life!Spec

-----------------------------------------------------------------------------
(* What is left when every loop waits *)

\* Who the server knows of: a peer that has come is in the backlog or has had its
\* connection, and one whose connection is over but for its end is in a batch.
Kept ==
    \A c \in Conns :
        /\ peer[c] # "none" => c \in backlog \/ conn[c].state # "none"
        /\ conn[c].state = "kDisconnected" /\ c \notin connections /\ chan[c].index = "kNew" =>
             \E l \in Loops : \E i \in 1 .. Len(batch[l]) : batch[l][i].conn = c

LEMMA RestQueue ==
    ASSUME NEW S, NEW b \in Seq(S), NEW q \in Seq(S), NEW n \in Nat, NEW j \in 1 .. Len(q)
    PROVE  \E h \in 1 .. Len(Rest(b, n, q)) : Rest(b, n, q)[h] = q[j]
<1> DEFINE s == SubSeq(b, n + 1, Len(b))
<1>1. s \in Seq(S)
  BY RestTyped
<1>2. Rest(b, n, q) = s \o q
  BY DEF Rest
<1> HIDE DEF s
<1>3. /\ Len(s) \in Nat /\ Len(q) \in Nat /\ Len(s \o q) = Len(s) + Len(q)
      /\ \A i \in 1 .. Len(s) + Len(q) : (s \o q)[i] = IF i <= Len(s) THEN s[i] ELSE q[i - Len(s)]
  BY <1>1, LenProperties, ConcatProperties
<1>4. Len(s) + j \in 1 .. Len(s) + Len(q) /\ ~ (Len(s) + j <= Len(s)) /\ (Len(s) + j) - Len(s) = j
  BY <1>3
<1>5. (s \o q)[Len(s) + j] = q[j]
  BY <1>3, <1>4
<1> QED
  BY <1>2, <1>3, <1>4, <1>5

LEMMA KeptInit == Init => Kept
BY DEF Init, Kept

\* A handler or functor of c disturbs nobody but c.
LEMMA KeptOthers ==
    ASSUME IInv, Kept, NEW c \in Conns,
           UNCHANGED <<peer, backlog, batch>>,
           \A d \in Conns \ {c} : /\ conn'[d] = conn[d] /\ chan'[d] = chan[d]
                                  /\ d \in connections' <=> d \in connections,
           conn'[c].state # "none",
           \/ conn'[c].state # "kDisconnected" \/ c \in connections'
           \/ \E l \in Loops : \E i \in 1 .. Len(batch[l]) : batch[l][i].conn = c
    PROVE  Kept'
<1> SUFFICES ASSUME NEW d \in Conns
             PROVE  /\ peer'[d] # "none" => d \in backlog' \/ conn'[d].state # "none"
                    /\ /\ conn'[d].state = "kDisconnected" /\ d \notin connections'
                       /\ chan'[d].index = "kNew"
                       => \E l \in Loops : \E i \in 1 .. Len(batch'[l]) : batch'[l][i].conn = d
  BY DEF Kept
<1>1. CASE d = c
  BY <1>1
<1>2. CASE d # c
  BY <1>2 DEF Kept
<1> QED
  BY <1>1, <1>2

LEMMA RegisterOthers ==
    ASSUME ObjectsTyped, NEW c \in Conns, NEW r, Register(c, r)
    PROVE  \A d \in Conns \ {c} : chan'[d] = chan[d]
BY DEF Register, ObjectsTyped

LEMMA KeptNext == IInv /\ Kept /\ [Next]_vars => Kept'
<1> SUFFICES ASSUME IInv, Kept, [Next]_vars PROVE Kept'
  OBVIOUS
<1>0. ObjectsTyped /\ LoopsTyped /\ PeersTyped
  BY DEF IInv, Typed
<1>1. ASSUME NEW c \in Conns, PeerStep(c) PROVE Kept'
  <2>1. UNCHANGED <<conn, chan, connections, batch>>
    BY <1>1 DEF PeerStep, Connect, Send, Leave, objects, loops
  <2>2. \A d \in Conns : peer'[d] # "none" => peer[d] # "none" \/ d \in backlog'
    BY <1>0, <1>1 DEF PeerStep, Connect, Send, Leave, PeersTyped
  <2>3. backlog \subseteq backlog'
    BY <1>1 DEF PeerStep, Connect, Send, Leave
  <2> QED
    BY <2>1, <2>2, <2>3 DEF Kept
<1>2. ASSUME AcceptorRead PROVE Kept'
  <2>0. UNCHANGED <<peer, chan, batch>>
    BY <1>2 DEF AcceptorRead
  <2>1. CASE UNCHANGED <<backlog, connections, next, conn, queue>>
    BY <2>0, <2>1 DEF Kept
  <2>2. ASSUME NEW c \in First(backlog), NEW fd \in First(Fds \ OpenFds),
               NewConnection(c, fd), backlog' = backlog \ {c}
        PROVE  Kept'
    <3>1. c \in Conns
      BY <1>0 DEF First, PeersTyped
    <3>2. conn'[c].state = "kConnecting" /\ \A d \in Conns \ {c} : conn'[d] = conn[d]
      BY <1>0, <2>2, <3>1 DEF NewConnection, ObjectsTyped
    <3>3. connections' = connections \cup {c}
      BY <2>2 DEF NewConnection
    <3> QED
      BY <2>0, <2>2, <3>1, <3>2, <3>3 DEF Kept
  <2> QED
    BY <1>2, <2>1, <2>2 DEF AcceptorRead
<1>3. ASSUME NEW l \in Io, NEW a \in active[l], HandleEvent(l, a) PROVE Kept'
  <2>1. a.conn \in Conns /\ conn[a.conn].state = "kConnected" /\ a.conn \in connections
    BY DEF IInv, Reported, Stages
  <2>2. UNCHANGED <<peer, backlog, connections, batch>>
    BY <1>3 DEF HandleEvent
  <2>3. CASE HandleMessage(a.conn)
    BY <2>2, <2>3 DEF HandleMessage, Kept
  <2>4. CASE HandleClose(a.conn)
    <3>1. SetState(a.conn, "kDisconnected") /\ "kDisconnected" \in States
      BY <2>4 DEF HandleClose, States
    <3>2. conn'[a.conn].state = "kDisconnected" /\ \A d \in Conns \ {a.conn} : conn'[d] = conn[d]
      BY <1>0, <2>1, <3>1, StateSet
    <3>3. \A d \in Conns \ {a.conn} : chan'[d] = chan[d]
      BY <1>0, <2>1, <2>4, RegisterOthers DEF HandleClose
    <3> QED
      BY <2>1, <2>2, <3>2, <3>3, KeptOthers
  <2> QED
    BY <1>3, <2>3, <2>4 DEF HandleEvent
<1>4. ASSUME NEW l \in Loops, RunFunctor(l) PROVE Kept'
  <2> DEFINE f == batch[l][ran[l] + 1]
             c == f.conn
  <2>1. ran[l] < Len(batch[l]) /\ UNCHANGED <<peer, backlog, batch>>
    BY <1>4 DEF RunFunctor, peers
  <2>2. c \in Conns /\ Alive(c)
    BY <2>1, NextFunctor
  <2>3. \E k \in Loops : \E i \in 1 .. Len(batch[k]) : batch[k][i].conn = c
    <3>1. ran[l] + 1 \in 1 .. Len(batch[l])
      BY <1>0, <2>1, LenProperties DEF LoopsTyped
    <3> QED
      BY <3>1
  <2>4. \/ f.name = "connectEstablished" /\ ConnectEstablished(c)
        \/ f.name = "connectDestoryed" /\ ConnectDestoryed(c)
        \/ f.name = "removeConnection" /\ RemoveConnectionInLoop(c)
    BY <1>4 DEF RunFunctor
  <2> HIDE DEF f, c
  <2>5. CASE ConnectEstablished(c)
    <3>1. SetState(c, "kConnected") /\ "kConnected" \in States
      BY <2>5 DEF ConnectEstablished, States
    <3>2. conn'[c].state = "kConnected" /\ \A d \in Conns \ {c} : conn'[d] = conn[d]
      BY <1>0, <2>2, <3>1, StateSet
    <3>3. \A d \in Conns \ {c} : chan'[d] = chan[d]
      BY <1>0, <2>2, <2>5, RegisterOthers DEF ConnectEstablished
    <3>4. connections' = connections
      BY <2>5 DEF ConnectEstablished
    <3> QED
      BY <2>1, <2>2, <3>2, <3>3, <3>4, KeptOthers
  <2>6. CASE ConnectDestoryed(c)
    <3>1. conn' = conn /\ connections' = connections
      BY <2>6 DEF ConnectDestoryed
    <3>2. \A d \in Conns \ {c} : chan'[d] = chan[d]
      BY <1>0, <2>2, <2>6, RegisterOthers DEF ConnectDestoryed
    <3> QED
      BY <2>1, <2>2, <2>3, <3>1, <3>2, KeptOthers DEF Alive
  <2>7. CASE RemoveConnectionInLoop(c)
    <3>1. conn' = conn /\ chan' = chan /\ connections' = connections \ {c}
      BY <2>7 DEF RemoveConnectionInLoop
    <3> QED
      BY <2>1, <2>2, <2>3, <3>1, KeptOthers DEF Alive
  <2> QED
    BY <2>4, <2>5, <2>6, <2>7
<1>5. ASSUME NEW l \in Loops, FunctorsDone(l) PROVE Kept'
  <2> DEFINE freed == {c \in {batch[l][i].conn : i \in DOMAIN batch[l]} : ~ HeldElsewhere(c, l)}
  <2>1. /\ batch' = [batch EXCEPT ![l] = <<>>]
        /\ conn' = [c \in Conns |-> IF c \in freed
                                    THEN [state |-> "freed", fd |-> Nil, loop |-> conn[c].loop]
                                    ELSE conn[c]]
        /\ UNCHANGED <<peer, backlog, connections, chan, queue>>
    BY <1>5 DEF FunctorsDone, peers
  <2>2. \A k \in Loops : DOMAIN batch[k] = 1 .. Len(batch[k]) /\ DOMAIN queue[k] = 1 .. Len(queue[k])
    BY <1>0, LenProperties DEF LoopsTyped
  <2> SUFFICES ASSUME NEW c \in Conns
               PROVE  /\ peer'[c] # "none" => c \in backlog' \/ conn'[c].state # "none"
                      /\ /\ conn'[c].state = "kDisconnected" /\ c \notin connections'
                         /\ chan'[c].index = "kNew"
                         => \E k \in Loops : \E i \in 1 .. Len(batch'[k]) : batch'[k][i].conn = c
    BY DEF Kept
  <2>3. CASE c \in freed
    BY <2>1, <2>3
  <2>4. CASE c \notin freed
    <3>1. conn'[c] = conn[c]
      BY <2>1, <2>4
    <3>2. ASSUME conn[c].state = "kDisconnected", c \notin connections, chan[c].index = "kNew"
          PROVE  \E k \in Loops : \E i \in 1 .. Len(batch'[k]) : batch'[k][i].conn = c
      <4>1. PICK k \in Loops : \E i \in 1 .. Len(batch[k]) : batch[k][i].conn = c
        BY <3>2 DEF Kept
      <4>2. CASE k # l
        <5>1. batch'[k] = batch[k]
          BY <1>0, <2>1, <4>2 DEF LoopsTyped
        <5> QED
          BY <4>1, <5>1
      <4>3. CASE k = l
        <5>1. HeldElsewhere(c, l)
          BY <2>2, <2>4, <4>1, <4>3
        <5>2. ASSUME NEW m \in Loops, NEW j \in 1 .. Len(queue[m]), queue[m][j].conn = c
              PROVE  FALSE
          <6>1. queue[m] \in Seq(FunctorType) /\ batch[m] \in Seq(FunctorType)
                /\ ran[m] \in 0 .. Len(batch[m])
            BY <1>0, LenProperties DEF LoopsTyped
          <6>2. PICK h \in 1 .. Len(Todo[m]) : Todo[m][h] = queue[m][j]
            <7>1. Todo[m] = Rest(batch[m], ran[m], queue[m]) /\ ran[m] \in Nat
              BY <1>0, TodoTyped DEF LoopsTyped
            <7>2. \E h \in 1 .. Len(Rest(batch[m], ran[m], queue[m])) :
                      Rest(batch[m], ran[m], queue[m])[h] = queue[m][j]
              <8> DEFINE b == batch[m]
                         q == queue[m]
                         n == ran[m]
              <8>1. b \in Seq(FunctorType) /\ q \in Seq(FunctorType) /\ n \in Nat /\ j \in 1 .. Len(q)
                BY <6>1, <7>1
              <8> HIDE DEF b, q, n
              <8>2. \E h \in 1 .. Len(Rest(b, n, q)) : Rest(b, n, q)[h] = q[j]
                BY <8>1, RestQueue
              <8> QED
                BY <8>2 DEF b, q, n
            <7> QED
              BY <7>1, <7>2, Zenon
          <6>3. Due[c] = [loop |-> m, name |-> queue[m][j].name]
            BY <5>2, <6>2 DEF IInv, Tasks, Matches
          <6>4. Due[c] = Nothing
            BY <3>2 DEF Due
          <6>5. queue[m][j].name \in FunctorNames
            <7>1. queue[m][j] \in FunctorType
              BY <6>1, ElementOfSeq, Zenon
            <7> QED
              BY <7>1 DEF FunctorType
          <6> QED
            BY <6>3, <6>4, <6>5 DEF Nothing, FunctorNames
        <5>3. PICK m \in Loops \ {l} : \E j \in 1 .. Len(batch[m]) : batch[m][j].conn = c
          BY <2>2, <3>2, <5>1, <5>2 DEF HeldElsewhere
        <5>4. batch'[m] = batch[m]
          BY <1>0, <2>1, <5>3 DEF LoopsTyped
        <5> QED
          BY <5>3, <5>4
      <4> QED
        BY <4>2, <4>3
    <3> QED
      BY <2>1, <3>1, <3>2 DEF Kept
  <2> QED
    BY <2>3, <2>4
<1>6. ASSUME NEW l \in Loops, Poll(l) PROVE Kept'
  BY <1>6 DEF Poll, Kept, peers, objects
<1>7. ASSUME NEW l \in Loops, Swap(l) PROVE Kept'
  <2>1. pc[l] = "events" /\ batch' = [batch EXCEPT ![l] = queue[l]]
        /\ UNCHANGED <<peer, backlog, conn, chan, connections>>
    BY <1>7 DEF Swap, peers, objects
  <2>2. batch[l] = <<>>
    BY <2>1 DEF IInv, Batches
  <2>3. \A k \in Loops : \A i \in 1 .. Len(batch[k]) : batch'[k] = batch[k]
    BY <1>0, <2>1, <2>2 DEF LoopsTyped
  <2> QED
    BY <2>1, <2>3 DEF Kept
<1>8. CASE UNCHANGED vars
  BY <1>8 DEF vars, Kept, peers, objects, loops
<1>9. ASSUME NEW l \in Loops, LoopStep(l) PROVE Kept'
  <2>1. ASSUME l # Main, NEW a \in active[l], HandleEvent(l, a) PROVE Kept'
    BY <2>1, <1>3, Consts
  <2> QED
    BY <1>9, <2>1, <1>2, <1>4, <1>5, <1>6, <1>7 DEF LoopStep
<1> QED
  BY <1>1, <1>8, <1>9 DEF Next

\* Every loop waits in poll, which has nothing to report, and nothing is queued.
AtRest == \A l \in Loops : pc[l] = "poll" /\ Reports(l) = {} /\ queue[l] = <<>>

\* A connection is not yet asked for, up and idle, or gone.
Settled(c) ==
    \/ peer[c] = "none" /\ conn[c].state = "none" /\ told[c] = <<>>
    \/ /\ peer[c] = "open" /\ unread[c] = 0
       /\ conn[c].state = "kConnected" /\ c \in connections /\ told[c] = <<"up">>
    \/ /\ peer[c] \in {"fin", "rst"} /\ conn[c].state = "freed" /\ c \notin connections
       /\ told[c] = <<"up", "down", "down">>

\* When every loop waits, no connection is half open or half closed: the users have
\* been told of every peer that is there and given all it has sent, and every
\* connection whose peer has left is freed, so no descriptor leaks.
THEOREM NothingHalfDone == Spec => [](AtRest => \A c \in Conns : Settled(c))
<1>1. IInv /\ Kept => (AtRest => \A c \in Conns : Settled(c))
  <2> SUFFICES ASSUME IInv, Kept, AtRest, NEW c \in Conns PROVE Settled(c)
    OBVIOUS
  <2>0. ObjectsTyped /\ LoopsTyped /\ PeersTyped
    BY DEF IInv, Typed
  <2>1. \A l \in Loops : batch[l] = <<>> /\ queue[l] = <<>>
    BY DEF AtRest, IInv, Batches
  <2>2. \A l \in Loops : Len(Todo[l]) = 0
    <3> TAKE l \in Loops
    <3>1. ran[l] = 0
      BY DEF AtRest, IInv, Batches
    <3>2. Todo[l] = Rest(<<>>, 0, <<>>)
      BY <2>0, <2>1, <3>1, TodoTyped
    <3>3. <<>> \in Seq(FunctorType) /\ Len(<<>>) = 0
      BY EmptySeq
    <3> QED
      BY <3>2, <3>3, RestEnds
  <2>3. Due[c].name = "nothing"
    <3>1. Due[c].loop \in Loops
      BY <2>0, DueTyped DEF DueType
    <3> QED
      BY <2>2, <3>1 DEF IInv, Tasks, Matches
  <2>4. conn[c].state \in States /\ peer[c] \in {"none", "open", "fin", "rst"}
    BY <2>0 DEF ObjectsTyped, PeersTyped, ConnType
  <2>5. conn[c].state \in {"none", "kConnected", "freed"}
    <3>1. conn[c].state # "kConnecting"
      BY <2>3 DEF Due
    <3>2. conn[c].state # "kDisconnected"
      BY <2>1, <2>3 DEF Due, Kept
    <3> QED
      BY <2>4, <3>1, <3>2 DEF States
  <2>6. CASE conn[c].state = "none"
    <3>1. backlog = {}
      BY Consts DEF AtRest, Reports
    <3> QED
      BY <2>6, <3>1 DEF Kept, Settled, IInv, Ends, ToldIn
  <2>7. CASE conn[c].state = "freed"
    BY <2>7 DEF IInv, Ends, Stages, Alive, Settled, ToldIn
  <2>8. CASE conn[c].state = "kConnected"
    <3> DEFINE l == conn[c].loop
               reg == poller[l].epoll[conn[c].fd]
    <3>1. l \in Io /\ conn[c].fd \in Fds /\ l # Main /\ l \in Loops
      BY <2>8, Consts DEF IInv, Descriptors, Alive
    <3>2. reg = [conn |-> c, events |-> {"IN"}] /\ reg # Nil
      <4>1. reg = [conn |-> c, events |-> {"IN"}]
        BY <2>8 DEF IInv, InEpoll
      <4>2. reg # Nil
        BY <4>1, NilAssumption
      <4> QED
        BY <4>1, <4>2
    <3>3. Revents(reg) = {}
      <4>1. Reports(l) = {}
        BY <3>1 DEF AtRest
      <4>2. reg \in {poller[l].epoll[f] : f \in Fds} \ {Nil}
        BY <3>1, <3>2
      <4> HIDE DEF reg, l
      <4> QED
        BY <4>1, <4>2, <3>1 DEF Reports
    <3>4. unread[c] = 0 /\ peer[c] = "open"
      <4>1. unread[c] \in Nat
        BY <2>0 DEF PeersTyped
      <4>2. ~ (unread[c] > 0 \/ peer[c] # "open")
        BY <3>2, <3>3 DEF Revents
      <4> QED
        BY <4>1, <4>2
    <3> QED
      BY <2>8, <3>4 DEF IInv, Ends, Stages, Settled, ToldIn
  <2> QED
    BY <2>5, <2>6, <2>7, <2>8
<1>2. Spec => []Kept
  BY KeptInit, KeptNext, Invariance, PTL DEF Spec
<1> QED
  BY <1>1, <1>2, Invariance, PTL

-----------------------------------------------------------------------------
(* One loop per connection *)

\* What a step of l does to a connection c of another loop: nothing, unless it drops
\* the last reference, of a connection that its own loop has done with.
Untouched(c) ==
    /\ chan'[c] = chan[c] /\ told'[c] = told[c] /\ unread'[c] = unread[c]
    /\ \/ conn'[c] = conn[c]
       \/ conn[c].state = "kDisconnected" /\ chan[c].index = "kNew" /\ conn'[c].state = "freed"

ConfinedTo(l) ==
    /\ \A k \in Io \ {l} : poller'[k] = poller[k]
    /\ \A c \in Conns : Alive(c) /\ conn[c].loop # l => Untouched(c)
    /\ l # Main => UNCHANGED <<backlog, connections, next>>

\* A call on the channel of c touches c and the poller of its loop.
LEMMA RegisterConfined ==
    ASSUME ObjectsTyped, NEW c \in Conns, NEW r, Register(c, r)
    PROVE  /\ \A d \in Conns \ {c} : chan'[d] = chan[d]
           /\ \A k \in Io \ {conn[c].loop} : poller'[k] = poller[k]
BY DEF Register, ObjectsTyped

LEMMA TellConfined ==
    ASSUME ObjectsTyped, NEW c \in Conns, NEW what, Tell(c, what)
    PROVE  \A d \in Conns \ {c} : told'[d] = told[d]
BY DEF Tell, ObjectsTyped

\* The handler of an event.
LEMMA HandlerConfined ==
    ASSUME IInv, NEW l \in Io, NEW a \in active[l], HandleEvent(l, a)
    PROVE  ConfinedTo(l)
<1>1. ObjectsTyped /\ PeersTyped
  BY DEF IInv, Typed
<1>2. a.conn \in Conns /\ conn[a.conn].loop = l
  BY DEF IInv, Reported
<1>3. UNCHANGED <<backlog, connections, next>>
  BY DEF HandleEvent
<1>4. CASE HandleMessage(a.conn)
  <2>1. UNCHANGED <<conn, chan, poller, told>>
    BY <1>4 DEF HandleMessage
  <2>2. \A d \in Conns \ {a.conn} : unread'[d] = unread[d]
    BY <1>1, <1>2, <1>4 DEF HandleMessage, PeersTyped
  <2> QED
    BY <1>2, <1>3, <2>1, <2>2 DEF ConfinedTo, Untouched
<1>5. CASE HandleClose(a.conn)
  <2>1. SetState(a.conn, "kDisconnected") /\ "kDisconnected" \in States /\ unread' = unread
    BY <1>5 DEF HandleClose, States
  <2>2. \A d \in Conns \ {a.conn} : conn'[d] = conn[d]
    BY <1>1, <1>2, <2>1, StateSet
  <2>3. \A d \in Conns \ {a.conn} : chan'[d] = chan[d] /\ told'[d] = told[d]
    BY <1>1, <1>2, <1>5, RegisterConfined, TellConfined DEF HandleClose
  <2>4. \A k \in Io \ {l} : poller'[k] = poller[k]
    BY <1>1, <1>2, <1>5, RegisterConfined DEF HandleClose
  <2> QED
    BY <1>2, <1>3, <2>1, <2>2, <2>3, <2>4 DEF ConfinedTo, Untouched
<1> QED
  BY <1>4, <1>5 DEF HandleEvent

\* A functor runs on the loop of its connection, or takes it out of the table on the
\* base loop.
LEMMA FunctorConfined ==
    ASSUME IInv, NEW l \in Loops, RunFunctor(l)
    PROVE  ConfinedTo(l)
<1> DEFINE f == batch[l][ran[l] + 1]
           c == f.conn
<1>1. ObjectsTyped
  BY DEF IInv, Typed
<1>2. ran[l] < Len(batch[l]) /\ UNCHANGED <<backlog, unread, next>>
  BY DEF RunFunctor, peers
<1>3. c \in Conns /\ f.name \in FunctorNames /\ Due[c] = [loop |-> l, name |-> f.name]
  BY <1>2, NextFunctor
<1>4. \/ f.name = "connectEstablished" /\ ConnectEstablished(c)
      \/ f.name = "connectDestoryed" /\ ConnectDestoryed(c)
      \/ f.name = "removeConnection" /\ RemoveConnectionInLoop(c)
  BY DEF RunFunctor
<1>5. /\ f.name = "connectEstablished" => conn[c].loop = l
      /\ f.name = "connectDestoryed" => conn[c].loop = l
      /\ f.name = "removeConnection" => l = Main
  BY <1>3, DueMeans
<1> HIDE DEF f, c
<1>6. CASE conn[c].loop = l /\ ConnectEstablished(c)
  <2>1. SetState(c, "kConnected") /\ "kConnected" \in States /\ connections' = connections
    BY <1>6 DEF ConnectEstablished, States
  <2>2. \A d \in Conns \ {c} : conn'[d] = conn[d]
    BY <1>1, <1>3, <2>1, StateSet
  <2>3. \A d \in Conns \ {c} : chan'[d] = chan[d] /\ told'[d] = told[d]
    BY <1>1, <1>3, <1>6, RegisterConfined, TellConfined DEF ConnectEstablished
  <2>4. \A k \in Io \ {l} : poller'[k] = poller[k]
    BY <1>1, <1>3, <1>6, RegisterConfined DEF ConnectEstablished
  <2> QED
    BY <1>2, <1>6, <2>1, <2>2, <2>3, <2>4 DEF ConfinedTo, Untouched
<1>7. CASE conn[c].loop = l /\ ConnectDestoryed(c)
  <2>1. conn' = conn /\ connections' = connections
    BY <1>7 DEF ConnectDestoryed
  <2>2. \A d \in Conns \ {c} : chan'[d] = chan[d] /\ told'[d] = told[d]
    BY <1>1, <1>3, <1>7, RegisterConfined, TellConfined DEF ConnectDestoryed
  <2>3. \A k \in Io \ {l} : poller'[k] = poller[k]
    BY <1>1, <1>3, <1>7, RegisterConfined DEF ConnectDestoryed
  <2> QED
    BY <1>2, <1>7, <2>1, <2>2, <2>3 DEF ConfinedTo, Untouched
<1>8. CASE l = Main /\ RemoveConnectionInLoop(c)
  BY <1>2, <1>8 DEF RemoveConnectionInLoop, ConfinedTo, Untouched
<1> QED
  BY <1>4, <1>5, <1>6, <1>7, <1>8

\* The connections freed have left their poller, so that the descriptors closed are
\* of no registration.
LEMMA FreeingConfined ==
    ASSUME IInv, NEW l \in Loops, FunctorsDone(l)
    PROVE  ConfinedTo(l)
<1> DEFINE freed == {c \in {batch[l][i].conn : i \in DOMAIN batch[l]} : ~ HeldElsewhere(c, l)}
           closed == {conn[c].fd : c \in freed}
<1>1. LoopsTyped /\ ObjectsTyped
  BY DEF IInv, Typed
<1>2. /\ ran[l] = Len(batch[l])
      /\ conn' = [c \in Conns |-> IF c \in freed
                                  THEN [state |-> "freed", fd |-> Nil, loop |-> conn[c].loop]
                                  ELSE conn[c]]
      /\ poller' = [k \in Io |-> [poller[k] EXCEPT
                      !.epoll = [f \in Fds |-> IF f \in closed THEN Nil ELSE @[f]]]]
      /\ UNCHANGED <<backlog, unread, connections, next, chan, told>>
  BY DEF FunctorsDone, peers
<1>3. \A c \in freed : c \in Conns /\ conn[c].state = "kDisconnected" /\ chan[c].index = "kNew"
  <2> TAKE c \in freed
  <2>1. PICK i \in 1 .. Len(batch[l]) : c = batch[l][i].conn
    BY <1>1, LenProperties DEF LoopsTyped
  <2> QED
    BY <1>2, <2>1, FreedIsDone
<1> HIDE DEF freed
<1>4. \A k \in Io, f \in Fds : f \in closed => poller[k].epoll[f] = Nil
  <2> SUFFICES ASSUME NEW k \in Io, NEW f \in Fds, f \in closed, poller[k].epoll[f] # Nil
               PROVE  FALSE
    OBVIOUS
  <2>1. PICK c \in freed : conn[c].fd = f
    OBVIOUS
  <2> DEFINE d == poller[k].epoll[f].conn
  <2>2. d \in Conns /\ conn[d].state = "kConnected" /\ conn[d].fd = f
    BY <1>1, PollerRefers DEF IInv, InEpoll
  <2> HIDE DEF d
  <2>3. c \in Conns /\ c # d /\ Alive(c) /\ Alive(d)
    BY <1>3, <2>1, <2>2 DEF Alive
  <2> QED
    BY <2>1, <2>2, <2>3 DEF IInv, Descriptors
<1> HIDE DEF closed
<1>5. \A k \in Io : poller'[k] = poller[k]
  <2> TAKE k \in Io
  <2>1. poller[k] \in PollerType /\ poller[k].epoll \in [Fds -> Registered \cup {Nil}]
    BY <1>1 DEF ObjectsTyped, PollerType
  <2>2. [f \in Fds |-> IF f \in closed THEN Nil ELSE poller[k].epoll[f]] = poller[k].epoll
    BY <1>4, <2>1
  <2>3. poller'[k] = [poller[k] EXCEPT !.epoll = poller[k].epoll]
    BY <1>2, <2>2
  <2> QED
    BY <2>1, <2>3 DEF PollerType
<1>6. \A c \in Conns : conn'[c] = IF c \in freed
                                  THEN [state |-> "freed", fd |-> Nil, loop |-> conn[c].loop]
                                  ELSE conn[c]
  BY <1>2
<1>7. \A c \in Conns : Untouched(c)
  BY <1>2, <1>3, <1>6 DEF Untouched
<1> QED
  BY <1>2, <1>5, <1>7 DEF ConfinedTo

\* Accepting creates a connection of an io loop; it touches none that is there.
LEMMA AcceptorConfined == ASSUME IInv, AcceptorRead PROVE ConfinedTo(Main)
<1>1. ObjectsTyped /\ PeersTyped
  BY DEF IInv, Typed
<1>2. UNCHANGED <<unread, chan, poller, told>>
  BY DEF AcceptorRead
<1>3. \A c \in Conns : Alive(c) => conn'[c] = conn[c]
  <2>1. CASE conn' = conn
    BY <2>1
  <2>2. ASSUME NEW c \in First(backlog), NEW fd \in First(Fds \ OpenFds), NewConnection(c, fd)
        PROVE  \A d \in Conns : Alive(d) => conn'[d] = conn[d]
    <3>1. c \in Conns /\ conn[c].state = "none"
      BY <1>1 DEF First, PeersTyped, IInv, Ends
    <3>2. \A d \in Conns \ {c} : conn'[d] = conn[d]
      BY <1>1, <2>2, <3>1 DEF NewConnection, ObjectsTyped
    <3> QED
      BY <3>1, <3>2 DEF Alive
  <2> QED
    BY <2>1, <2>2 DEF AcceptorRead
<1> QED
  BY <1>2, <1>3 DEF ConfinedTo, Untouched

\* A connection, its channel and what is read of it are touched by the thread of its
\* loop alone, the table and the choice of loops by that of the base loop; another
\* loop can drop the last reference, but then the channel is already removed.  So two
\* loops never work on one connection at a time, although no handler takes a lock:
\* TcpServer may take a handler for one step.
THEOREM ConfinedToLoop == Spec => [][\A l \in Loops : LoopStep(l) => ConfinedTo(l)]_vars
<1>1. ASSUME IInv, NEW l \in Loops, LoopStep(l) PROVE ConfinedTo(l)
  <2>1. CASE Poll(l) \/ Swap(l)
    BY <2>1 DEF Poll, Swap, peers, objects, ConfinedTo, Untouched
  <2>2. CASE RunFunctor(l)
    BY <1>1, <2>2, FunctorConfined
  <2>3. CASE FunctorsDone(l)
    BY <1>1, <2>3, FreeingConfined
  <2>4. CASE l = Main /\ AcceptorRead
    BY <1>1, <2>4, AcceptorConfined
  <2>5. ASSUME l # Main, NEW a \in active[l], HandleEvent(l, a) PROVE ConfinedTo(l)
    BY <1>1, <2>5, HandlerConfined, Consts
  <2> QED
    BY <1>1, <2>1, <2>2, <2>3, <2>4, <2>5 DEF LoopStep
<1>2. IInv /\ [Next]_vars => [\A l \in Loops : LoopStep(l) => ConfinedTo(l)]_vars
  BY <1>1
<1> QED
  BY <1>2, Invariance, PTL DEF Spec
=============================================================================
