----------------------------- MODULE TcpStream ------------------------------
(***************************************************************************)
(* The bytes of one connection (src/src/tcp/TcpConnection.cpp) while it is *)
(* up: what its peer sends goes through the input buffer to onMessage of   *)
(* SRCServer, which takes everything read for one request and answers it;  *)
(* the answers are written at once as far as the socket takes them, and    *)
(* the rest goes through the output buffer when poll reports the socket    *)
(* writable.  Its end, by the peer, is the subject of TcpServer.           *)
(*                                                                         *)
(* A byte is its number in its stream.  The loop's thread polls and        *)
(* handles; the peer sends and reads at any moment in between.  readv does *)
(* not fail: nobody but this thread reads, so that there still is what     *)
(* poll has reported.  No callback for completed writes or the high-water  *)
(* mark is ever set.                                                       *)
(***************************************************************************)
EXTENDS Buffer

CONSTANTS
    SendBuffer,  \* what the socket takes before the peer reads
    MaxIn,       \* bytes the peer sends: a bound
    MaxLen       \* bytes of an answer: a bound

ASSUME StreamAssumption ==
    /\ SendBuffer \in Nat \ {0} /\ MaxIn \in Nat /\ MaxLen \in Nat \ {0}
    /\ Zero \in Nat /\ ExtraSize > 0
ASSUME SizeAssumption ==
    4 * (CheapPrepend + InitialSize + MaxIn + MaxIn * MaxLen + MaxLen) < SizeMod

VARIABLES
    arrived,     \* bytes the peer has sent
    received,    \* those that readv has read
    taken,       \* those that onMessage has been given
    in,          \* m_inputBuffer
    sent,        \* bytes of the answers
    out,         \* m_outputBuffer
    writing,     \* m_channel->isWriting()
    socket,      \* bytes written and not yet read by the peer
    delivered,   \* bytes it has read
    revents      \* what poll has reported and is not yet handled

vars == <<arrived, received, taken, in, sent, out, writing, socket, delivered, revents>>

Init ==
    /\ arrived = 0 /\ received = 0 /\ taken = <<>> /\ in = NewBuffer
    /\ sent = 0 /\ out = NewBuffer /\ writing = FALSE
    /\ socket = <<>> /\ delivered = <<>>
    /\ revents = {}

Least(m, n) == IF m <= n THEN m ELSE n
Bytes(from, n) == [i \in 1 .. n |-> from + i]

-----------------------------------------------------------------------------
(* The peer *)

PeerSend(n) ==
    /\ arrived + n <= MaxIn
    /\ arrived' = arrived + n
    /\ UNCHANGED <<received, taken, in, sent, out, writing, socket, delivered, revents>>

PeerRead(n) ==
    /\ n <= Len(socket)
    /\ delivered' = delivered \o SubSeq(socket, 1, n)
    /\ socket' = SubSeq(socket, n + 1, Len(socket))
    /\ UNCHANGED <<arrived, received, taken, in, sent, out, writing, revents>>

-----------------------------------------------------------------------------
(* The loop *)

Room == SendBuffer - Len(socket)
Ready == (IF received < arrived THEN {"IN"} ELSE {})
         \cup (IF writing /\ Room > 0 THEN {"OUT"} ELSE {})

Poll ==
    /\ revents = {} /\ Ready # {}
    /\ revents' = Ready
    /\ UNCHANGED <<arrived, received, taken, in, sent, out, writing, socket, delivered>>

\* ::write to a socket that does not block, its result kept in a size_t: a socket
\* that takes nothing fails it with EWOULDBLOCK, and -1 becomes the largest size_t.
Accepted(len) == Least(Room, len)
Written(len) == IF len > 0 /\ Accepted(len) = 0 THEN SizeMod - 1 ELSE Accepted(len)

\* A fault: what is left of a message is copied from its start.
MemoryStart(message, from, len) == SubSeq(message, 1, len)

\* The len bytes at message + from; Zero is what lies next to the message.
Memory(message, from, len) ==
    [i \in 1 .. len |-> LET at == Plus(from, i)
                        IN  IF at \in 1 .. Len(message) THEN message[at] ELSE Zero]

Direct == ~ writing /\ ReadableBytes(out) = 0

\* A fault: what the socket has not taken waits, and nobody waits for the socket.
SendInLoopOnce(message) ==
    LET len == Len(message)
        nwrote == IF Direct THEN Written(len) ELSE 0
        remaining == Minus(len, nwrote)
    IN  /\ socket' = IF Direct THEN socket \o SubSeq(message, 1, Accepted(len)) ELSE socket
        /\ out' = IF remaining > 0
                  THEN AppendBytes(out, Memory(message, nwrote, remaining)) ELSE out
        /\ UNCHANGED writing

\* nwrote >= 0 is always true, so the branch for a failed write is never taken.
SendInLoop(message) ==
    LET len == Len(message)
        nwrote == IF Direct THEN Written(len) ELSE 0
        remaining == Minus(len, nwrote)
    IN  /\ socket' = IF Direct THEN socket \o SubSeq(message, 1, Accepted(len)) ELSE socket
        /\ out' = IF remaining > 0
                  THEN AppendBytes(out, Memory(message, nwrote, remaining)) ELSE out
        /\ writing' = (writing \/ remaining > 0)

\* handleRead and onMessage, whose every path sends one answer.
HandleRead ==
    /\ "IN" \in revents
    /\ revents' = revents \ {"IN"}
    /\ LET n == Least(arrived - received, ReadMax(in))
           read == ReadFd(in, Bytes(received, n))
       IN  /\ received' = received + n
           /\ taken' = taken \o Content(read)
           /\ in' = Retrieve(read, ReadableBytes(read))
    /\ \E len \in 1 .. MaxLen :
         /\ sent' = sent + len
         /\ SendInLoop(Bytes(sent, len))
    /\ UNCHANGED <<arrived, delivered>>

\* A fault: the channel stays interested in writing.
HandleWriteOn ==
    /\ revents = {"OUT"}
    /\ revents' = {}
    /\ LET n == Written(ReadableBytes(out))
       IN  IF writing /\ n > 0
           THEN /\ socket' = socket \o SubSeq(Content(out), 1, Accepted(ReadableBytes(out)))
                /\ out' = Retrieve(out, n)
           ELSE UNCHANGED <<socket, out>>
    /\ UNCHANGED <<arrived, received, taken, in, sent, writing, delivered>>

\* The channel handles what it can read before what it can write.  A channel that
\* no longer waits to write, or a write of nothing, is only logged.
HandleWrite ==
    /\ revents = {"OUT"}
    /\ revents' = {}
    /\ LET n == Written(ReadableBytes(out))
       IN  IF writing /\ n > 0
           THEN /\ socket' = socket \o SubSeq(Content(out), 1, Accepted(ReadableBytes(out)))
                /\ out' = Retrieve(out, n)
                /\ writing' = (ReadableBytes(out') # 0)
           ELSE UNCHANGED <<socket, out, writing>>
    /\ UNCHANGED <<arrived, received, taken, in, sent, delivered>>

\* The socket takes at least a byte of every answer that is written directly.
Unblocked == Direct => Room > 0

PeerStep == \E n \in 1 .. MaxIn : PeerSend(n)
PeerReads == \E n \in 1 .. SendBuffer : PeerRead(n)
LoopStep == Poll \/ (Unblocked /\ HandleRead) \/ HandleWrite

Next == PeerStep \/ PeerReads \/ LoopStep
BlockingNext == Next \/ HandleRead

\* The loop's thread goes on, and the peer reads what it is sent.
Fairness == WF_vars(LoopStep) /\ WF_vars(PeerReads)

Spec == Init /\ [][Next]_vars
FairSpec == Spec /\ Fairness

\* The same, on sockets that may be full when an answer is written directly.
BlockingSpec == Init /\ [][BlockingNext]_vars

-----------------------------------------------------------------------------
(* Properties *)

\* The indices of both buffers are as Buffer.h:19 draws them, the content of the
\* output buffer lies inside of it, and the input buffer is empty between reads.
TypeOK ==
    /\ received \in 0 .. arrived /\ arrived \in 0 .. MaxIn /\ sent \in 0 .. MaxIn * MaxLen
    /\ IndicesOrdered(in) /\ IndicesOrdered(out)
    /\ DOMAIN in.data = 0 .. in.size - 1 /\ DOMAIN out.data = 0 .. out.size - 1
    /\ ReadableBytes(in) = 0
    /\ Len(socket) <= SendBuffer
    /\ writing \in BOOLEAN /\ revents \subseteq {"IN", "OUT"}

\* The channel waits for the socket to become writable exactly while bytes wait in
\* the output buffer: else they would stay, or poll would report it for ever.
WritingWhilePending == writing <=> ReadableBytes(out) > 0

\* onMessage is given what the peer has sent, and the peer what onMessage has sent.
Requests == INSTANCE ByteStream WITH written <- arrived, delivered <- taken
ImplementsRequests == Requests!Spec
Answers == INSTANCE ByteStream WITH written <- sent, delivered <- delivered
ImplementsAnswers == Answers!Spec

\* A peer that reads gets every byte of the answers, and onMessage every byte of the
\* requests; there are MaxIn of these, so both have had all there is in the end.
AllDelivered == []<>(Len(delivered) = sent /\ Len(taken) = arrived)

\* TcpConnection.cpp:130 says of what is left of a message that it is put in the
\* buffer: the peer reads the bytes that were sent, wherever a write has failed.
AnswersIntact == \A i \in DOMAIN delivered : delivered[i] = i
=============================================================================
