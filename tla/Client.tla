------------------------------- MODULE Client -------------------------------
(***************************************************************************)
(* The client library, src/client/src_client.cpp, and the sessions it      *)
(* keeps at the server: connect() asks for a session and starts a thread   *)
(* that sends its heartbeats, disconnect() tells the thread to stop by     *)
(* m_sessionId, which the thread reads without a lock, and the requests    *)
(* carry m_sessionId, whatever it is.                                      *)
(*                                                                         *)
(* Of the server there is what module SessionServer is shown to be: a      *)
(* lease for each session, module SessionLease, that a heartbeat renews    *)
(* and whose end removes the nodes of the session.  Heartbeats arrive at   *)
(* once or never.  One thread calls the library; the heartbeat threads run *)
(* whenever they are scheduled, and the process may end at any moment, as  *)
(* it does when a request fails (LOG_FATAL, exit).                         *)
(***************************************************************************)
EXTENDS Naturals

CONSTANTS
    Sids,        \* session ids
    NoSid,       \* 0
    Grace,       \* the time without heartbeats that a session survives
    MaxAge,      \* where the clock of a lease stops: a bound
    Interval,    \* seconds, the argument of connect
    MaxLost,     \* heartbeats lost in a row that the client is to survive
    MaxConnects  \* calls of connect: a bound

ASSUME SidsAssumption == NoSid \notin Sids
ASSUME TimeAssumption ==
    /\ Interval \in Nat \ {0} /\ MaxLost \in Nat /\ MaxConnects \in Nat
    /\ Grace \in Nat /\ Grace > (MaxLost + 1) * Interval
    /\ MaxAge \in Nat /\ MaxAge >= Grace

VARIABLES
    phase,       \* of the lease of each session: "none", "open" or "closed"
    quiet,       \* the time since the latest heartbeat that arrived
    owned,       \* sessions that own a node
    caller,      \* where the calling thread is, and the session it was given
    connects,    \* calls of connect so far
    connected,   \* m_isConnected
    sessionId,   \* m_sessionId
    thread,      \* the heartbeat threads, one of each connect
    late         \* observer: the client has not kept its rhythm

leases == <<phase, quiet, owned>>
members == <<caller, connects, connected, sessionId>>
vars == <<leases, members, thread, late>>

Threads == 1 .. MaxConnects

Lease == INSTANCE SessionLease

\* static SRCCLient instance: m_sessionId is 0, as static storage is.
Init ==
    /\ Lease!Init
    /\ owned = {}
    /\ caller = [at |-> "idle", given |-> NoSid]
    /\ connects = 0
    /\ connected = FALSE
    /\ sessionId = NoSid
    /\ thread = [i \in Threads |-> [at |-> "none", beats |-> NoSid, left |-> 0, lost |-> 0]]
    /\ late = FALSE

-----------------------------------------------------------------------------
(* The calling thread *)

GoTo(at, s) == caller' = [at |-> at, given |-> s]
Idle == caller.at = "idle"

\* connect() up to the read: the server has opened a session for the request.
Ask(s) ==
    /\ Idle /\ ~ connected
    /\ connects < MaxConnects
    /\ connects' = connects + 1
    /\ Lease!Open(s)
    /\ GoTo("asked", s)
    /\ UNCHANGED <<owned, connected, sessionId, thread, late>>

\* The answer of the server, or the end of the stream in place of one: a response
\* of no type, for which m_sessionId stays what it was.
Answer ==
    /\ caller.at = "asked"
    /\ sessionId' \in {caller.given, sessionId}
    /\ GoTo("answered", NoSid)
    /\ UNCHANGED <<leases, connects, connected, thread, late>>

\* The thread is started, and connect() returns true either way.
StartThread ==
    /\ caller.at = "answered"
    /\ thread' = [thread EXCEPT ![connects].at = "new"]
    /\ connected' = TRUE
    /\ GoTo("idle", NoSid)
    /\ UNCHANGED <<leases, connects, sessionId, late>>

\* A fault: m_sessionId keeps its value.
DisconnectOnly ==
    /\ Idle /\ connected
    /\ connected' = FALSE
    /\ UNCHANGED <<leases, caller, connects, sessionId, thread, late>>

\* m_isConnected is cleared before m_sessionId, and no thread reads it: the two
\* assignments are one step.
Disconnect ==
    /\ Idle /\ connected
    /\ connected' = FALSE
    /\ sessionId' = NoSid
    /\ UNCHANGED <<leases, caller, connects, thread, late>>

\* createNode with type 2: nobody asks whether the session of m_sessionId is there.
\* Without a connection there is no address to send to, and sendData ends the
\* process, as Exit does.
CreateSessionNode ==
    /\ Idle /\ connected
    /\ owned' = owned \cup {sessionId}
    /\ UNCHANGED <<phase, quiet, members, thread, late>>

\* deleteNode, of a node of any session.
DeleteNodes(s) ==
    /\ Idle /\ connected
    /\ owned' = owned \ {s}
    /\ UNCHANGED <<phase, quiet, members, thread, late>>

\* LOG_FATAL, exit(), the end of main or a crash: the threads end with the process.
Exit ==
    /\ caller.at # "exited"
    /\ GoTo("exited", NoSid)
    /\ thread' = [i \in Threads |-> [thread[i] EXCEPT !.at = "ended"]]
    /\ UNCHANGED <<leases, connects, connected, sessionId, late>>

-----------------------------------------------------------------------------
(* The heartbeat threads *)

\* A fault: the datagram was made before the session id was there.
BeginUnset(i) ==
    /\ thread[i].at = "new"
    /\ thread' = [thread EXCEPT ![i].at = "test"]
    /\ UNCHANGED <<leases, members, late>>

\* The thread makes its datagram, once, of what m_sessionId is by now.
Begin(i) ==
    /\ thread[i].at = "new"
    /\ thread' = [thread EXCEPT ![i].at = "test", ![i].beats = sessionId]
    /\ UNCHANGED <<leases, members, late>>

\* while(m_sessionId != 0): any session will do, its own or another.
Test(i) ==
    /\ thread[i].at = "test" /\ thread[i].left = 0
    /\ thread' = [thread EXCEPT ![i].at = IF sessionId # NoSid THEN "send" ELSE "ended"]
    /\ UNCHANGED <<leases, members, late>>

\* The server renews the session the datagram names, if it is there.
Beat(i) ==
    LET s == thread[i].beats
    IN  /\ thread[i].at = "send"
        /\ thread' = [thread EXCEPT ![i].at = "test", ![i].left = Interval, ![i].lost = 0]
        /\ IF s \in Sids /\ phase[s] = "open" THEN Lease!Renew(s) ELSE UNCHANGED <<phase, quiet>>
        /\ UNCHANGED <<owned, members, late>>

\* The heartbeats of the session that the client is in.
Current(i) == sessionId # NoSid /\ thread[i].beats = sessionId

BeatLost(i) ==
    /\ thread[i].at = "send"
    /\ thread' = [thread EXCEPT ![i].at = "test", ![i].left = Interval,
                                ![i].lost = IF @ < MaxLost THEN @ + 1 ELSE @]
    /\ late' = (late \/ (Current(i) /\ thread[i].lost = MaxLost))
    /\ UNCHANGED <<leases, members>>

ThreadStep(i) == Begin(i) \/ Test(i) \/ Beat(i) \/ BeatLost(i)

-----------------------------------------------------------------------------
(* The server, and time *)

\* The end of a session, with removeEphemeral.
EndSession(s) ==
    /\ Lease!Close(s)
    /\ owned' = owned \ {s}
    /\ UNCHANGED <<members, thread, late>>

\* Time that passes while the client has something to do at once makes it late.
Due ==
    \/ caller.at \in {"asked", "answered"}
    \/ \E i \in Threads :
         \/ thread[i].at = "new" /\ sessionId # NoSid
         \/ /\ Current(i)
            /\ thread[i].at = "send" \/ (thread[i].at = "test" /\ thread[i].left = 0)

\* A fault: sleep_for of a time that has passed wraps.
PassOn ==
    /\ Lease!Pass
    /\ thread' = [i \in Threads |-> [thread[i] EXCEPT !.left = (@ + Interval + 1) % (Interval + 2)]]
    /\ late' = (late \/ Due)
    /\ UNCHANGED <<owned, members>>

Pass ==
    /\ Lease!Pass
    /\ thread' = [i \in Threads |-> [thread[i] EXCEPT !.left = IF @ > 0 THEN @ - 1 ELSE 0]]
    /\ late' = (late \/ Due)
    /\ UNCHANGED <<owned, members>>

Next ==
    \/ Answer \/ StartThread \/ Disconnect \/ CreateSessionNode \/ Exit \/ Pass
    \/ \E s \in Sids : Ask(s) \/ EndSession(s) \/ DeleteNodes(s)
    \/ \E i \in Threads : ThreadStep(i)

Spec == Init /\ [][Next]_vars

\* Time does not stop, threads are scheduled and wake from sleep, and the server
\* ends a session that stays silent: SilentSessionEnds of SessionServer.  The
\* application may do nothing, and no heartbeat has to arrive.
Fairness ==
    /\ WF_vars(Pass)
    /\ \A i \in Threads : WF_vars(ThreadStep(i))
    /\ \A s \in Sids : WF_vars(EndSession(s))
FairSpec == Spec /\ Fairness

-----------------------------------------------------------------------------
(* Properties *)

ThreadPlaces == {"none", "new", "test", "send", "ended"}

\* Every variable has its type, and the threads that run are those of the connects
\* so far.
TypeOK ==
    /\ phase \in [Sids -> {"none", "open", "closed"}]
    /\ quiet \in [Sids -> 0 .. MaxAge]
    /\ owned \subseteq Sids \cup {NoSid}
    /\ caller \in [at : {"idle", "asked", "answered", "exited"}, given : Sids \cup {NoSid}]
    /\ connects \in 0 .. MaxConnects
    /\ connected \in BOOLEAN /\ late \in BOOLEAN
    /\ sessionId \in Sids \cup {NoSid}
    /\ thread \in [Threads -> [at : ThreadPlaces, beats : Sids \cup {NoSid},
                               left : 0 .. Interval, lost : 0 .. MaxLost]]
    /\ \A i \in Threads : thread[i].at \notin {"none", "ended"} => i <= connects

\* A client that is connected has its session, as long as its threads and the
\* network keep their time and no more than MaxLost heartbeats in a row are lost,
\* however connect, disconnect and the start of the threads interleave.
KeepsSession ==
    connected /\ sessionId # NoSid /\ caller.at # "exited" /\ ~ late
        => phase[sessionId] = "open"

\* The client has disconnected, or its process is gone.
Away == caller.at = "exited" \/ (Idle /\ ~ connected)

\* README.md:52 and DNode.h:39: when the client stays away its session nodes are
\* removed, whatever it was doing when it left; the heartbeats of every thread it
\* has started must stop.
SessionNodesGo ==
    (<>[]Away /\ []~late) => <>[](owned \cap Sids = {})

\* src_client.h:27 and 33: connect() makes the thread that sends the heartbeats,
\* disconnect() takes the connection down: a session the client has left ends.
LeftSessionEnds ==
    \A s \in Sids :
        (phase[s] = "open" /\ Idle /\ sessionId # s) ~> phase[s] = "closed"
=============================================================================
