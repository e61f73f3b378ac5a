----------------------------- MODULE SharedHeap -----------------------------
(***************************************************************************)
(* The heaps of HeartbeatCounter as the server uses them: SRCServer's      *)
(* onMessage runs on the io loops and pushes each new session, while the   *)
(* UDP thread rekeys them, and neither HeapTimer nor HeapHeartBeatCounter  *)
(* has a lock.  Each thread runs the operations of IndexedHeap on the same *)
(* vector and map, with an operation of its own.  The interleavings of the *)
(* steps of IndexedHeap are some of the outcomes of this data race; an     *)
(* operation that two threads tear further apart than those steps, and the *)
(* removals of the UDP thread, which come only a whole timeout after a     *)
(* push, are left out: the outcomes left are enough to lose an entry.      *)
(***************************************************************************)
EXTENDS Integers

CONSTANTS Ids, Keys, Cap,
          IoThreads,   \* the io loops of TcpServer
          UdpThread    \* HeartbeatCounter_UDP

VARIABLES slot, size, index,
          ops          \* the operation of each thread

vars == <<slot, size, index, ops>>

Threads == IoThreads \cup {UdpThread}

T(t) == INSTANCE IndexedHeap WITH op <- ops[t]

Nothing == [pc |-> "idle", call |-> [name |-> "none"], idx |-> 0]

Init ==
    /\ ops = [t \in Threads |-> Nothing]
    /\ T(UdpThread)!Init

\* A step of thread t leaves the other threads where they are.
Alone(t) == ops' \in {[ops EXCEPT ![t] = o] : o \in T(t)!Ops}

Inside(t) ==
    T(t)!Append \/ T(t)!WriteIndex \/ T(t)!ShiftUp \/ T(t)!ShiftDown

\* onMessage of a connection request: a session id that is new.
IoStep(t) ==
    /\ Alone(t)
    /\ \/ Inside(t)
       \/ \E id \in Ids \ DOMAIN index, key \in Keys : T(t)!Push(id, key)

\* onUDPMessage: a heartbeat of a session that is there.
UdpStep ==
    /\ Alone(UdpThread)
    /\ \/ Inside(UdpThread)
       \/ \E id \in Ids, key \in Keys : T(UdpThread)!Adjust(id, key)

Next == UdpStep \/ \E t \in IoThreads : IoStep(t)

Spec == Init /\ [][Next]_vars

\* HeapTimer.h:67 and HeapHeartbeatCounter.h:61 say of m_map that it finds an id's
\* position in the heap: it does whenever no thread is inside an operation.
MapFindsPosition ==
    (\A t \in Threads : ops[t].pc = "idle") =>
        \A id \in DOMAIN index : slot[index[id]].id = id
=============================================================================
