--------------------------- MODULE SessionServer ---------------------------
(***************************************************************************)
(* The life of a session: SRCServer registers it on an io loop,            *)
(* HeartbeatCounter's UDP thread rearms its timer at every heartbeat,      *)
(* counts the timeouts in a row, and at max_heartbeat of them ends it,     *)
(* which takes it out of SessionManager and its nodes out of Services.     *)
(* Clients fall silent, and their datagrams are lost, late or reordered.   *)
(*                                                                         *)
(* The two heaps are the maps that IndexedHeap implements, and each of     *)
(* their operations is one step here: what becomes of them without the     *)
(* lock the code does not have is the subject of SharedHeap.  Of Services  *)
(* there is only which sessions own a node.  Time passes at any moment,    *)
(* whatever the threads are doing, so a thread may be arbitrarily late.    *)
(***************************************************************************)
EXTENDS Naturals

CONSTANTS
    Sids,        \* session ids; generateSessionId never repeats one
    NoSid,
    Timeout,     \* m_timeout, in units of the clock
    PerMs,       \* units of the clock in a millisecond
    Limit,       \* max_heartbeat
    MaxAge       \* where the observer's clock stops: a bound

ASSUME TimeAssumption ==
    /\ PerMs \in Nat \ {0} /\ Timeout \in Nat /\ Timeout >= PerMs
    /\ Limit \in Nat \ {0}
    /\ MaxAge \in Nat /\ MaxAge >= Limit * Timeout
ASSUME SidsAssumption == NoSid \notin Sids

VARIABLES
    reg,         \* how far the registration of each session has got
    sessions,    \* SessionManager::m_sessions
    left,        \* m_timer: session -> time to its expiry, 0 once past it
    due,         \* the callbacks tick() has collected
    count,       \* m_counter: session -> timeouts in a row
    udp,         \* where the UDP thread is, and the session it is ending
    inflight,    \* heartbeats sent and not yet received
    silent,      \* sessions whose client sends no more
    owned,       \* sessions that own a node in Services
    age          \* observer: time since registration or the latest heartbeat received

vars == <<reg, sessions, left, due, count, udp, inflight, silent, owned, age>>

Init ==
    /\ reg = [s \in Sids |-> "none"]
    /\ sessions = {}
    /\ left = [s \in {} |-> 0]
    /\ due = {}
    /\ count = [s \in {} |-> 0]
    /\ udp = [at |-> "timer", id |-> NoSid]
    /\ inflight = {} /\ silent = {} /\ owned = {}
    /\ age = [s \in Sids |-> 0]

\* The entry of s in one of the heaps.
With(map, s, v) == [r \in DOMAIN map \cup {s} |-> IF r = s THEN v ELSE map[r]]
Without(map, s) == [r \in DOMAIN map \ {s} |-> map[r]]
Adjusted(map, s, v) == IF s \in DOMAIN map THEN With(map, s, v) ELSE map

\* Two faults: half of the reset is forgotten.
ResetCounter(s) == count' = Adjusted(count, s, 0) /\ left' = left
ResetTimer(s) == left' = Adjusted(left, s, Timeout) /\ count' = count

\* HeartbeatCounter::reset
Reset(s) ==
    /\ count' = Adjusted(count, s, 0)
    /\ left' = Adjusted(left, s, Timeout)

-----------------------------------------------------------------------------
(* The io loops: onMessage of a connection request, up to its answer *)

Add(s) ==
    /\ reg[s] = "none"
    /\ reg' = [reg EXCEPT ![s] = "added"]
    /\ sessions' = sessions \cup {s}
    /\ age' = [age EXCEPT ![s] = 0]
    /\ UNCHANGED <<left, due, count, udp, inflight, silent, owned>>

PushTimer(s) ==
    /\ reg[s] = "added"
    /\ reg' = [reg EXCEPT ![s] = "timed"]
    /\ left' = With(left, s, Timeout)
    /\ age' = [age EXCEPT ![s] = 0]
    /\ UNCHANGED <<sessions, due, count, udp, inflight, silent, owned>>

\* The answer that follows tells the client its id.
PushCounter(s) ==
    /\ reg[s] = "timed"
    /\ reg' = [reg EXCEPT ![s] = "done"]
    /\ count' = With(count, s, 0)
    /\ UNCHANGED <<sessions, left, due, udp, inflight, silent, owned, age>>

Register(s) == Add(s) \/ PushTimer(s) \/ PushCounter(s)

\* Service requests that carry the id of s: Services does not ask SessionManager.
CreateSessionNode(s) ==
    /\ reg[s] = "done"
    /\ owned' = owned \cup {s}
    /\ UNCHANGED <<reg, sessions, left, due, count, udp, inflight, silent, age>>

DeleteSessionNodes(s) ==
    /\ owned' = owned \ {s}
    /\ UNCHANGED <<reg, sessions, left, due, count, udp, inflight, silent, age>>

-----------------------------------------------------------------------------
(* The UDP thread: tick() of the timer, tick() of the counter, recvfrom *)

GoTo(at, s) == udp' = [at |-> at, id |-> s]
At(at) == udp.at = at

\* duration_cast<MS> drops what is left of a millisecond.
Expired(s) == left[s] < PerMs

\* The top of the timer is expired: it is popped, and its callback kept for later.
PopTimer(s) ==
    /\ At("timer")
    /\ s \in DOMAIN left /\ Expired(s)
    /\ \A r \in DOMAIN left : left[s] <= left[r]
    /\ left' = Without(left, s)
    /\ due' = due \cup {s}
    /\ UNCHANGED <<reg, sessions, count, udp, inflight, silent, owned, age>>

TimerDone ==
    /\ At("timer")
    /\ \A s \in DOMAIN left : ~ Expired(s)
    /\ GoTo("callbacks", NoSid)
    /\ UNCHANGED <<reg, sessions, left, due, count, inflight, silent, owned, age>>

\* A fault: the timer fires once and is not started anew.
TimeoutFuncOnce(s) ==
    /\ At("callbacks")
    /\ s \in due
    /\ due' = due \ {s}
    /\ count' = IF s \in DOMAIN count THEN With(count, s, count[s] + 1) ELSE count
    /\ UNCHANGED <<reg, sessions, left, udp, inflight, silent, owned, age>>

\* A heartbeat was missed: the timer starts anew, and the counter goes up.
TimeoutFunc(s) ==
    /\ At("callbacks")
    /\ s \in due
    /\ due' = due \ {s}
    /\ left' = With(left, s, Timeout)
    /\ count' = IF s \in DOMAIN count THEN With(count, s, count[s] + 1) ELSE count
    /\ UNCHANGED <<reg, sessions, udp, inflight, silent, owned, age>>

CallbacksDone ==
    /\ At("callbacks")
    /\ due = {}
    /\ GoTo("counter", NoSid)
    /\ UNCHANGED <<reg, sessions, left, due, count, inflight, silent, owned, age>>

\* A fault: one more timeout is waited for.
PastLimit(s) == count[s] > Limit

\* The top of the counter is at the limit.
AtLimit(s) == count[s] >= Limit

\* A fault: the timer is left running.
HeartbeatReachTimed(s) ==
    /\ At("counter")
    /\ s \in DOMAIN count /\ AtLimit(s)
    /\ \A r \in DOMAIN count : count[r] <= count[s]
    /\ GoTo("remove", s)
    /\ UNCHANGED <<reg, sessions, left, due, count, inflight, silent, owned, age>>

HeartbeatReach(s) ==
    /\ At("counter")
    /\ s \in DOMAIN count /\ AtLimit(s)
    /\ \A r \in DOMAIN count : count[r] <= count[s]
    /\ left' = Without(left, s)
    /\ GoTo("remove", s)
    /\ UNCHANGED <<reg, sessions, due, count, inflight, silent, owned, age>>

\* onHeartbeatReachLimit, in two steps: SessionManager::remove, removeEphemeral.
RemoveSession ==
    /\ At("remove")
    /\ sessions' = sessions \ {udp.id}
    /\ GoTo("sweep", udp.id)
    /\ UNCHANGED <<reg, left, due, count, inflight, silent, owned, age>>

RemoveEphemeral ==
    /\ At("sweep")
    /\ owned' = owned \ {udp.id}
    /\ GoTo("pop", udp.id)
    /\ UNCHANGED <<reg, sessions, left, due, count, inflight, silent, age>>

\* What pushes put in meanwhile counts 0, so the top is still the session ended.
PopCounter ==
    /\ At("pop")
    /\ count' = Without(count, udp.id)
    /\ GoTo("counter", NoSid)
    /\ UNCHANGED <<reg, sessions, left, due, inflight, silent, owned, age>>

CounterDone ==
    /\ At("counter")
    /\ \A s \in DOMAIN count : ~ AtLimit(s)
    /\ GoTo("recv", NoSid)
    /\ UNCHANGED <<reg, sessions, left, due, count, inflight, silent, owned, age>>

\* SRCServer::onUDPMessage.  Only this thread removes sessions, so nothing comes
\* between its look at m_sessions and the reset.
OnUDPMessage(s) ==
    /\ At("recv")
    /\ s \in inflight
    /\ inflight' = inflight \ {s}
    /\ GoTo("timer", NoSid)
    /\ \/ /\ s \in sessions
          /\ Reset(s)
          /\ age' = [age EXCEPT ![s] = 0]
       \/ /\ s \notin sessions
          /\ UNCHANGED <<left, count, age>>
    /\ UNCHANGED <<reg, sessions, due, silent, owned>>

\* SO_RCVTIMEO wakes the thread when no datagram comes.
RecvTimeout ==
    /\ At("recv")
    /\ GoTo("timer", NoSid)
    /\ UNCHANGED <<reg, sessions, left, due, count, inflight, silent, owned, age>>

UdpStep ==
    \/ TimerDone \/ CallbacksDone \/ CounterDone
    \/ RemoveSession \/ RemoveEphemeral \/ PopCounter \/ RecvTimeout
    \/ \E s \in Sids :
         PopTimer(s) \/ TimeoutFunc(s) \/ HeartbeatReach(s) \/ OnUDPMessage(s)

-----------------------------------------------------------------------------
(* Clients, the network and time *)

\* A client sends whatever has become of its session: nobody tells it.
Heartbeat(s) ==
    /\ reg[s] = "done" /\ s \notin silent
    /\ inflight' = inflight \cup {s}
    /\ UNCHANGED <<reg, sessions, left, due, count, udp, silent, owned, age>>

LoseDatagram(s) ==
    /\ s \in inflight
    /\ inflight' = inflight \ {s}
    /\ UNCHANGED <<reg, sessions, left, due, count, udp, silent, owned, age>>

FallSilent(s) ==
    /\ reg[s] = "done" /\ s \notin silent
    /\ silent' = silent \cup {s}
    /\ UNCHANGED <<reg, sessions, left, due, count, udp, inflight, owned, age>>

Tick ==
    /\ left' = [s \in DOMAIN left |-> IF left[s] > 0 THEN left[s] - 1 ELSE 0]
    /\ age' = [s \in Sids |-> IF s \in sessions /\ age[s] < MaxAge
                             THEN age[s] + 1 ELSE age[s]]
    /\ UNCHANGED <<reg, sessions, due, count, udp, inflight, silent, owned>>

Next ==
    \/ Tick \/ UdpStep
    \/ \E s \in Sids :
         \/ Register(s)
         \/ CreateSessionNode(s) \/ DeleteSessionNodes(s)
         \/ Heartbeat(s) \/ LoseDatagram(s) \/ FallSilent(s)

\* Time does not stop, and neither does the UDP thread: SO_RCVTIMEO wakes it from
\* recvfrom, and nothing else blocks it for ever.  Clients and io loops may stop.
Fairness == WF_vars(Tick) /\ WF_vars(UdpStep)

Spec == Init /\ [][Next]_vars
FairSpec == Spec /\ Fairness

-----------------------------------------------------------------------------
(* Properties *)

Ending == {"remove", "sweep", "pop"}
Victims == IF udp.at \in Ending THEN {udp.id} ELSE {}

\* Every variable has its type; in particular no session is counted past the
\* limit: tick() runs each callback once before the counter is looked at.
TypeOK ==
    /\ reg \in [Sids -> {"none", "added", "timed", "done"}]
    /\ sessions \subseteq Sids /\ due \subseteq Sids
    /\ left \in [DOMAIN left -> 0 .. Timeout] /\ DOMAIN left \subseteq Sids
    /\ count \in [DOMAIN count -> 0 .. Limit] /\ DOMAIN count \subseteq Sids
    /\ udp \in [at : {"timer", "callbacks", "counter", "recv"}, id : {NoSid}]
               \cup [at : Ending, id : Sids]
    /\ inflight \subseteq Sids /\ silent \subseteq Sids /\ owned \subseteq Sids
    /\ age \in [Sids -> 0 .. MaxAge]

\* A timer that duration_cast makes up to a millisecond short, counted Limit
\* times: the silence a session survives.
Period == Timeout - (PerMs - 1)
Grace == Limit * Period

\* No session is ended before Limit whole timeouts have passed without a heartbeat
\* received, however timers, heartbeats and the two ticks interleave
\* (HeartbeatCounter::reset must restart the count and the timer).
NoPrematureEnd == \A s \in Victims : age[s] >= Grace

LiveSessionWatched ==
    \A s \in sessions \ Victims :
        reg[s] = "done" => s \in DOMAIN count /\ s \in DOMAIN left \cup due

NoGhostWatch ==
    /\ DOMAIN left \cup due \subseteq sessions \ Victims
    /\ DOMAIN count \subseteq sessions \cup Victims
    /\ DOMAIN left \cap due = {}

\* A registered session is watched until it is ended: it is counted, and timed or
\* about to be timed again; else its client could fall silent unnoticed.  And
\* nothing is watched for a session that has ended: no timer, no callback and no
\* count outlives it, whatever callbacks tick() had collected when it ended.
WatchedExactly == LiveSessionWatched /\ NoGhostWatch

\* A client that falls silent loses its session in the end.
SilentSessionEnds ==
    \A s \in Sids : (s \in silent /\ s \in sessions) ~> s \notin sessions

\* The server is the lease it promises.
Phase == [s \in Sids |-> IF s \in sessions THEN "open"
                         ELSE IF reg[s] = "none" THEN "none" ELSE "closed"]
Lease == INSTANCE SessionLease WITH phase <- Phase, quiet <- age
ImplementsLease == Lease!Spec

\* DNode.h:39 says of a session node that it is void once its session is closed:
\* a session that is over, its nodes removed, owns none.
ClosedOwnsNothing ==
    \A s \in owned : reg[s] = "done" => s \in sessions \/ (At("sweep") /\ udp.id = s)
=============================================================================
