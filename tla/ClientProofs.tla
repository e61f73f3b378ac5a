---------------------------- MODULE ClientProofs ----------------------------
(***************************************************************************)
(* A client that is connected has its session, whatever threads earlier    *)
(* connects have left behind, for any interval, number of lost heartbeats  *)
(* and grace period that outlasts them.  KeepsSession says nothing of the  *)
(* time that is left; Kept does: the lease of the session is new until its *)
(* thread has made its datagram, and from then on its age and what is left *)
(* of the thread's sleep are within the heartbeats lost so far.            *)
(***************************************************************************)
EXTENDS Client, TLAPS

\* The steps of connect, and the threads of the connects to come.
Handshake ==
    caller.at # "exited" =>
        /\ caller.at = "idle" /\ ~ connected => sessionId = NoSid
        /\ caller.at \in {"asked", "answered"} => ~ connected /\ connects \in Threads
        /\ caller.at \in {"asked", "answered"} => thread[connects].at = "none"
        /\ caller.at = "asked" => sessionId = NoSid /\ caller.given \in Sids
        /\ connected => caller.at = "idle" /\ connects \in Threads
        /\ \A i \in Threads : i > connects => thread[i].at = "none"

Unstarted ==
    \A i \in Threads : thread[i].at \in {"none", "new"} =>
        thread[i].left = 0 /\ thread[i].lost = 0

Budget(i) == (thread[i].lost + 1) * Interval

\* Thread i keeps session s.
Keeps(i, s) ==
    /\ phase[s] = "open"
    /\ thread[i].at \in {"new", "test", "send"}
    /\ thread[i].at = "new" => quiet[s] = 0
    /\ thread[i].at \in {"test", "send"} => thread[i].beats = s
    /\ thread[i].at = "test" => quiet[s] + thread[i].left <= Budget(i)
    /\ thread[i].at = "send" => quiet[s] <= Budget(i)

New(s) == phase[s] = "open" /\ quiet[s] = 0

Kept ==
    ~ late /\ caller.at # "exited" =>
        /\ caller.at = "asked" => New(caller.given)
        /\ caller.at = "answered" /\ sessionId # NoSid => New(sessionId)
        /\ connected /\ sessionId # NoSid => Keeps(connects, sessionId)

IInv == TypeOK /\ Handshake /\ Unstarted /\ Kept
ThreadType ==
    [at : ThreadPlaces, beats : Sids \cup {NoSid}, left : 0 .. Interval, lost : 0 .. MaxLost]

\* TypeOK in two parts.
ThreadsTyped ==
    /\ thread \in [Threads -> ThreadType]
    /\ \A i \in Threads : thread[i].at \notin {"none", "ended"} => i <= connects

MembersTyped ==
    /\ phase \in [Sids -> {"none", "open", "closed"}]
    /\ quiet \in [Sids -> 0 .. MaxAge]
    /\ owned \subseteq Sids \cup {NoSid}
    /\ caller \in [at : {"idle", "asked", "answered", "exited"}, given : Sids \cup {NoSid}]
    /\ connects \in 0 .. MaxConnects
    /\ connected \in BOOLEAN /\ late \in BOOLEAN
    /\ sessionId \in Sids \cup {NoSid}

-----------------------------------------------------------------------------
(* Arithmetic *)

LEMMA Products ==
    ASSUME NEW m \in Nat, NEW n \in Nat
    PROVE  /\ (m + 1) * n \in Nat /\ m * n \in Nat
           /\ (m + 1) * n = m * n + n
OBVIOUS

LEMMA ProductMonotone ==
    ASSUME NEW k \in Nat, NEW m \in Nat, NEW n \in Nat, k <= m
    PROVE  k * n <= m * n
OBVIOUS

\* A thread that has lost no more than it may is within the grace period.
LEMMA BudgetWithinGrace ==
    ASSUME TypeOK, NEW i \in Threads
    PROVE  Budget(i) \in Nat /\ Budget(i) < Grace
<1>1. thread[i].lost \in Nat /\ thread[i].lost + 1 \in Nat /\ thread[i].lost + 1 <= MaxLost + 1
  BY TimeAssumption DEF TypeOK
<1>2. Interval \in Nat /\ MaxLost + 1 \in Nat /\ Grace \in Nat
  BY TimeAssumption
<1>3. (thread[i].lost + 1) * Interval <= (MaxLost + 1) * Interval
  BY <1>1, <1>2, ProductMonotone
<1>4. (thread[i].lost + 1) * Interval \in Nat /\ (MaxLost + 1) * Interval \in Nat
  BY <1>1, <1>2, TimeAssumption, Products
<1> QED
  BY <1>2, <1>3, <1>4, TimeAssumption DEF Budget

-----------------------------------------------------------------------------
(* What the steps make of the thread they are about *)

LEMMA TypeParts == TypeOK <=> MembersTyped /\ ThreadsTyped
BY DEF TypeOK, MembersTyped, ThreadsTyped, ThreadType

\* Each action that changes threads, thread by thread.
Others(i) == \A j \in Threads \ {i} : thread'[j] = thread[j]
Typed == thread' \in [Threads -> ThreadType]

LEMMA StartEffect ==
    ASSUME TypeOK, StartThread, connects \in Threads
    PROVE  LET i == connects
           IN  /\ Typed /\ Others(i) /\ thread'[i].at = "new"
               /\ thread'[i].left = thread[i].left /\ thread'[i].lost = thread[i].lost
<1>1. thread \in [Threads -> ThreadType]
  BY TypeParts DEF ThreadsTyped
<1>2. thread' = [thread EXCEPT ![connects].at = "new"] /\ "new" \in ThreadPlaces
  BY DEF StartThread, ThreadPlaces
<1> QED
  BY <1>1, <1>2 DEF Others, Typed, ThreadType

LEMMA BeginEffect ==
    ASSUME TypeOK, NEW i \in Threads, Begin(i)
    PROVE  /\ Typed /\ Others(i) /\ thread'[i].at = "test" /\ thread'[i].beats = sessionId
           /\ thread'[i].left = thread[i].left /\ thread'[i].lost = thread[i].lost
<1>1. thread \in [Threads -> ThreadType] /\ sessionId \in Sids \cup {NoSid}
  BY TypeParts DEF ThreadsTyped, MembersTyped
<1>2. "test" \in ThreadPlaces
  BY DEF ThreadPlaces
<1>3. thread' = [thread EXCEPT ![i].at = "test", ![i].beats = sessionId]
  BY DEF Begin
<1> QED
  BY <1>1, <1>2, <1>3 DEF Others, Typed, ThreadType

LEMMA TestEffect ==
    ASSUME TypeOK, NEW i \in Threads, Test(i)
    PROVE  /\ Typed /\ Others(i)
           /\ thread'[i].at = (IF sessionId # NoSid THEN "send" ELSE "ended")
           /\ thread'[i].beats = thread[i].beats
           /\ thread'[i].left = thread[i].left /\ thread'[i].lost = thread[i].lost
<1> DEFINE a == IF sessionId # NoSid THEN "send" ELSE "ended"
<1>1. thread \in [Threads -> ThreadType]
  BY TypeParts DEF ThreadsTyped
<1>2. thread' = [thread EXCEPT ![i].at = a] /\ a \in ThreadPlaces
  BY DEF Test, ThreadPlaces
<1> HIDE DEF a
<1>3. Typed /\ Others(i) /\ thread'[i].at = a /\ thread'[i].beats = thread[i].beats
      /\ thread'[i].left = thread[i].left /\ thread'[i].lost = thread[i].lost
  BY <1>1, <1>2 DEF Others, Typed, ThreadType
<1> QED
  BY <1>3 DEF a

LEMMA BeatEffect ==
    ASSUME TypeOK, NEW i \in Threads, Beat(i)
    PROVE  /\ Typed /\ Others(i) /\ thread'[i].at = "test" /\ thread'[i].beats = thread[i].beats
           /\ thread'[i].left = Interval /\ thread'[i].lost = 0
<1>1. thread \in [Threads -> ThreadType]
  BY TypeParts DEF ThreadsTyped
<1>2. "test" \in ThreadPlaces /\ Interval \in 0 .. Interval /\ 0 \in 0 .. MaxLost
  BY TimeAssumption DEF ThreadPlaces
<1>3. thread' = [thread EXCEPT ![i].at = "test", ![i].left = Interval, ![i].lost = 0]
  BY DEF Beat
<1> QED
  BY <1>1, <1>2, <1>3 DEF Others, Typed, ThreadType

LEMMA BeatLostEffect ==
    ASSUME TypeOK, NEW i \in Threads, BeatLost(i)
    PROVE  /\ Typed /\ Others(i) /\ thread'[i].at = "test" /\ thread'[i].beats = thread[i].beats
           /\ thread'[i].left = Interval
           /\ thread'[i].lost = (IF thread[i].lost < MaxLost THEN thread[i].lost + 1
                                                           ELSE thread[i].lost)
<1> DEFINE n == IF thread[i].lost < MaxLost THEN thread[i].lost + 1 ELSE thread[i].lost
<1>1. thread \in [Threads -> ThreadType]
  BY TypeParts DEF ThreadsTyped
<1>2. "test" \in ThreadPlaces /\ Interval \in 0 .. Interval
  BY TimeAssumption DEF ThreadPlaces
<1>3. n \in 0 .. MaxLost
  BY <1>1, TimeAssumption DEF ThreadType
<1>4. thread' = [thread EXCEPT ![i].at = "test", ![i].left = Interval, ![i].lost = n]
  BY DEF BeatLost
<1> HIDE DEF n
<1>5. /\ Typed /\ Others(i) /\ thread'[i].at = "test" /\ thread'[i].beats = thread[i].beats
      /\ thread'[i].left = Interval /\ thread'[i].lost = n
  BY <1>1, <1>2, <1>3, <1>4 DEF Others, Typed, ThreadType
<1> QED
  BY <1>5 DEF n

LEMMA ExitEffect ==
    ASSUME TypeOK, Exit
    PROVE  Typed /\ \A j \in Threads : thread'[j].at = "ended"
<1>1. thread \in [Threads -> ThreadType]
  BY TypeParts DEF ThreadsTyped
<1>2. thread' = [i \in Threads |-> [thread[i] EXCEPT !.at = "ended"]]
  BY DEF Exit
<1> QED
  BY <1>1, <1>2 DEF Typed, ThreadType, ThreadPlaces

LEMMA PassEffect ==
    ASSUME TypeOK, Pass
    PROVE  /\ Typed
           /\ \A j \in Threads :
                /\ thread'[j].at = thread[j].at /\ thread'[j].beats = thread[j].beats
                /\ thread'[j].left = (IF thread[j].left > 0 THEN thread[j].left - 1 ELSE 0)
                /\ thread'[j].lost = thread[j].lost
<1>1. thread \in [Threads -> ThreadType]
  BY TypeParts DEF ThreadsTyped
<1>2. thread' = [i \in Threads |-> [thread[i] EXCEPT !.left = IF @ > 0 THEN @ - 1 ELSE 0]]
  BY DEF Pass
<1>3. ASSUME NEW j \in Threads
      PROVE  (IF thread[j].left > 0 THEN thread[j].left - 1 ELSE 0) \in 0 .. Interval
  BY <1>1, TimeAssumption DEF ThreadType
<1> QED
  BY <1>1, <1>2, <1>3 DEF Typed, ThreadType

LEMMA InitIInv == Init => IInv
<1> SUFFICES ASSUME Init PROVE IInv
  OBVIOUS
<1> USE SidsAssumption, TimeAssumption DEF Init, Lease!Init, Threads
<1>1. TypeOK
  <2>1. MembersTyped
    <3>1. phase \in [Sids -> {"none", "open", "closed"}] /\ quiet \in [Sids -> 0 .. MaxAge]
      OBVIOUS
    <3>2. caller \in [at : {"idle", "asked", "answered", "exited"}, given : Sids \cup {NoSid}]
      OBVIOUS
    <3>3. connects \in 0 .. MaxConnects
      OBVIOUS
    <3>4. connected \in BOOLEAN /\ late \in BOOLEAN
      BY Zenon
    <3>5. owned \subseteq Sids \cup {NoSid} /\ sessionId \in Sids \cup {NoSid}
      OBVIOUS
    <3> QED
      BY <3>1, <3>2, <3>3, <3>4, <3>5 DEF MembersTyped
  <2>2. thread \in [Threads -> ThreadType]
    BY DEF ThreadType, ThreadPlaces
  <2>3. \A i \in Threads : thread[i].at = "none"
    OBVIOUS
  <2> QED
    BY <2>1, <2>2, <2>3, TypeParts DEF ThreadsTyped
<1>2. Handshake
  BY DEF Handshake
<1>3. Unstarted
  BY DEF Unstarted
<1>4. Kept
  BY DEF Kept
<1> QED
  BY <1>1, <1>2, <1>3, <1>4 DEF IInv

LEMMA TypeStep == ASSUME TypeOK, Handshake, [Next]_vars PROVE TypeOK'
<1> USE SidsAssumption, TimeAssumption
<1>a. MembersTyped /\ ThreadsTyped
  BY TypeParts
<1>b. SUFFICES MembersTyped' /\ ThreadsTyped'
  BY DEF TypeOK, MembersTyped, ThreadsTyped, ThreadType
<1> USE DEF MembersTyped, ThreadsTyped, leases, members, GoTo, Idle
<1>1. CASE Answer
  BY <1>1, <1>a DEF Answer
<1>2. CASE StartThread
  <2>1. connects \in Threads
    BY <1>2 DEF StartThread, Handshake
  <2> QED
    BY <1>2, <1>a, <2>1, StartEffect DEF StartThread, Others, Typed, Threads
<1>3. CASE Disconnect
  BY <1>3, <1>a DEF Disconnect
<1>4. CASE CreateSessionNode
  BY <1>4, <1>a DEF CreateSessionNode
<1>5. CASE Exit
  BY <1>5, <1>a, ExitEffect DEF Exit, Typed
<1>6. CASE Pass
  <2>1. phase' = phase /\ quiet' \in [Sids -> 0 .. MaxAge]
    BY <1>6, <1>a DEF Pass, Lease!Pass
  <2>2. late' \in BOOLEAN /\ UNCHANGED <<owned, members>>
    BY <1>6, <1>a DEF Pass, Due
  <2> QED
    BY <1>6, <1>a, <2>1, <2>2, PassEffect DEF Typed
<1>7. ASSUME NEW s \in Sids, Ask(s) PROVE MembersTyped' /\ ThreadsTyped'
  <2>1. phase' \in [Sids -> {"none", "open", "closed"}] /\ quiet' \in [Sids -> 0 .. MaxAge]
    BY <1>7, <1>a DEF Ask, Lease!Open
  <2>2. caller' \in [at : {"idle", "asked", "answered", "exited"}, given : Sids \cup {NoSid}]
    BY <1>7 DEF Ask
  <2>3. connects' \in 0 .. MaxConnects /\ connects' >= connects
    BY <1>7, <1>a DEF Ask
  <2>4. UNCHANGED <<owned, connected, sessionId, thread, late>>
    BY <1>7 DEF Ask
  <2> QED
    BY <1>a, <2>1, <2>2, <2>3, <2>4 DEF Threads
<1>8. ASSUME NEW s \in Sids, EndSession(s) PROVE MembersTyped' /\ ThreadsTyped'
  BY <1>8, <1>a DEF EndSession, Lease!Close
<1>9. ASSUME NEW s \in Sids, DeleteNodes(s) PROVE MembersTyped' /\ ThreadsTyped'
  BY <1>9, <1>a DEF DeleteNodes
<1>10. ASSUME NEW i \in Threads, Begin(i) PROVE MembersTyped' /\ ThreadsTyped'
  BY <1>10, <1>a, BeginEffect DEF Begin, Others, Typed
<1>11. ASSUME NEW i \in Threads, Test(i) PROVE MembersTyped' /\ ThreadsTyped'
  BY <1>11, <1>a, TestEffect DEF Test, Others, Typed
<1>12. ASSUME NEW i \in Threads, Beat(i) PROVE MembersTyped' /\ ThreadsTyped'
  <2>1. phase' = phase /\ quiet' \in [Sids -> 0 .. MaxAge]
    BY <1>12, <1>a DEF Beat, Lease!Renew
  <2>2. UNCHANGED <<owned, members, late>>
    BY <1>12 DEF Beat
  <2>3. thread[i].at = "send"
    BY <1>12 DEF Beat
  <2> QED
    BY <1>12, <1>a, <2>1, <2>2, <2>3, BeatEffect DEF Others, Typed
<1>13. ASSUME NEW i \in Threads, BeatLost(i) PROVE MembersTyped' /\ ThreadsTyped'
  BY <1>13, <1>a, BeatLostEffect DEF BeatLost, Current, Others, Typed
<1>14. CASE UNCHANGED vars
  BY <1>14, <1>a DEF vars
<1> QED
  BY <1>1, <1>2, <1>3, <1>4, <1>5, <1>6, <1>7, <1>8, <1>9, <1>10, <1>11, <1>12, <1>13, <1>14
  DEF Next, ThreadStep

LEMMA HandshakeStep == ASSUME TypeOK, Handshake, [Next]_vars PROVE Handshake'
<1> USE SidsAssumption, TimeAssumption
    DEF TypeOK, ThreadPlaces, Threads, leases, members, GoTo, Idle, Handshake
<1>1. CASE Answer
  BY <1>1 DEF Answer
<1>2. CASE StartThread
  BY <1>2, StartEffect DEF StartThread, Others
<1>3. CASE Disconnect
  BY <1>3 DEF Disconnect
<1>4. CASE CreateSessionNode
  BY <1>4 DEF CreateSessionNode
<1>5. CASE Exit
  BY <1>5 DEF Exit
<1>6. CASE Pass
  BY <1>6, PassEffect DEF Pass
<1>7. ASSUME NEW s \in Sids, Ask(s) PROVE Handshake'
  BY <1>7 DEF Ask
<1>8. ASSUME NEW s \in Sids, EndSession(s) PROVE Handshake'
  BY <1>8 DEF EndSession
<1>9. ASSUME NEW s \in Sids, DeleteNodes(s) PROVE Handshake'
  BY <1>9 DEF DeleteNodes
<1>10. ASSUME NEW i \in Threads, Begin(i) PROVE Handshake'
  BY <1>10 DEF Begin
<1>11. ASSUME NEW i \in Threads, Test(i) PROVE Handshake'
  BY <1>11 DEF Test
<1>12. ASSUME NEW i \in Threads, Beat(i) PROVE Handshake'
  BY <1>12 DEF Beat
<1>13. ASSUME NEW i \in Threads, BeatLost(i) PROVE Handshake'
  BY <1>13 DEF BeatLost
<1>14. CASE UNCHANGED vars
  BY <1>14 DEF vars
<1> QED
  BY <1>1, <1>2, <1>3, <1>4, <1>5, <1>6, <1>7, <1>8, <1>9, <1>10, <1>11, <1>12, <1>13, <1>14
  DEF Next, ThreadStep

LEMMA UnstartedStep == ASSUME TypeOK, Handshake, Unstarted, [Next]_vars PROVE Unstarted'
<1> USE DEF Unstarted, Others
<1>1. CASE Answer \/ Disconnect \/ CreateSessionNode \/ UNCHANGED vars
  BY <1>1 DEF Answer, Disconnect, CreateSessionNode, vars
<1>2. CASE StartThread
  <2>1. connects \in Threads /\ thread[connects].at = "none"
    BY <1>2 DEF StartThread, Handshake
  <2> QED
    BY <1>2, <2>1, StartEffect
<1>3. CASE Exit
  BY <1>3, ExitEffect
<1>4. CASE Pass
  BY <1>4, PassEffect
<1>5. ASSUME NEW s \in Sids, Ask(s) \/ EndSession(s) \/ DeleteNodes(s) PROVE Unstarted'
  BY <1>5 DEF Ask, EndSession, DeleteNodes
<1>6. ASSUME NEW i \in Threads, Begin(i) PROVE Unstarted'
  BY <1>6, BeginEffect
<1>7. ASSUME NEW i \in Threads, Test(i) PROVE Unstarted'
  BY <1>7, TestEffect
<1>8. ASSUME NEW i \in Threads, Beat(i) PROVE Unstarted'
  BY <1>8, BeatEffect
<1>9. ASSUME NEW i \in Threads, BeatLost(i) PROVE Unstarted'
  BY <1>9, BeatLostEffect
<1> QED
  BY <1>1, <1>2, <1>3, <1>4, <1>5, <1>6, <1>7, <1>8, <1>9 DEF Next, ThreadStep

-----------------------------------------------------------------------------
(* The session is kept *)

\* What Kept speaks of: the session of the handshake, then the one of m_sessionId.
\* A lease that is not closed, and that gets no older, stays what it was.
LEMMA KeptAside ==
    ASSUME Kept, UNCHANGED <<phase, quiet, caller, connected, connects, sessionId, thread>>,
           late => late'
    PROVE  Kept'
BY DEF Kept, Keeps, New, Budget

LEMMA EndSessionKeeps == ASSUME IInv, NEW s \in Sids, EndSession(s) PROVE Kept'
<1> SUFFICES ASSUME ~ late, caller.at # "exited" PROVE Kept'
  BY DEF Kept, EndSession, members
<1>1. /\ phase[s] = "open" /\ quiet[s] >= Grace /\ quiet[s] \in Nat
      /\ phase' = [phase EXCEPT ![s] = "closed"]
      /\ UNCHANGED <<quiet, caller, connects, connected, sessionId, thread, late>>
  BY TimeAssumption DEF EndSession, Lease!Close, members, IInv, TypeOK
<1>2. phase \in [Sids -> {"none", "open", "closed"}]
  BY DEF IInv, TypeOK
<1>3. Grace \in Nat /\ Grace > 0
  BY TimeAssumption, BudgetWithinGrace, Products
<1>4. ASSUME NEW t, New(t) PROVE New(t)'
  BY <1>1, <1>2, <1>3, <1>4 DEF New
<1>5. ASSUME connected, sessionId # NoSid PROVE Keeps(connects, sessionId)'
  <2>1. Keeps(connects, sessionId) /\ connects \in Threads
    BY <1>5 DEF IInv, Kept, Handshake
  <2>2. Budget(connects) \in Nat /\ Budget(connects) < Grace
    BY <2>1, BudgetWithinGrace DEF IInv
  <2>3. thread[connects].left \in Nat
    BY <2>1, TimeAssumption DEF IInv, TypeOK
  <2>4. sessionId # s
    BY <1>1, <1>3, <2>1, <2>2, <2>3 DEF Keeps
  <2> QED
    BY <1>1, <1>2, <2>1, <2>4 DEF Keeps, Budget
<1> QED
  BY <1>1, <1>4, <1>5 DEF Kept, IInv

LEMMA BeatKeeps == ASSUME IInv, NEW i \in Threads, Beat(i) PROVE Kept'
<1> SUFFICES ASSUME ~ late, caller.at # "exited" PROVE Kept'
  BY DEF Kept, Beat, members
<1>1. /\ thread[i].at = "send" /\ phase' = phase
      /\ UNCHANGED <<caller, connects, connected, sessionId, late>>
  BY DEF Beat, Lease!Renew, members
<1>2. quiet' = IF thread[i].beats \in Sids /\ phase[thread[i].beats] = "open"
               THEN [quiet EXCEPT ![thread[i].beats] = 0] ELSE quiet
  BY DEF Beat, Lease!Renew
<1>3. quiet \in [Sids -> 0 .. MaxAge] /\ MaxAge \in Nat
  BY TimeAssumption DEF IInv, TypeOK
<1>4. ASSUME NEW t \in Sids PROVE quiet'[t] \in Nat /\ quiet'[t] <= quiet[t]
  BY <1>2, <1>3
<1>5. ASSUME NEW t \in Sids, New(t) PROVE New(t)'
  BY <1>1, <1>3, <1>4, <1>5 DEF New
<1>6. ASSUME connected, sessionId # NoSid PROVE Keeps(connects, sessionId)'
  <2>1. Keeps(connects, sessionId) /\ connects \in Threads /\ sessionId \in Sids
    BY <1>6 DEF IInv, Kept, Handshake, TypeOK
  <2>2. CASE connects = i
    <3>1. thread'[i].at = "test" /\ thread'[i].beats = sessionId
          /\ thread'[i].left = Interval /\ thread'[i].lost = 0
      BY <1>1, <2>1, <2>2, BeatEffect DEF IInv, Keeps
    <3>2. quiet'[sessionId] = 0
      BY <1>1, <1>2, <1>3, <2>1, <2>2 DEF Keeps
    <3>3. (0 + 1) * Interval = Interval
      BY TimeAssumption
    <3> QED
      BY <1>1, <2>1, <2>2, <3>1, <3>2, <3>3, TimeAssumption DEF Keeps, Budget
  <2>3. CASE connects # i
    <3>1. thread'[connects] = thread[connects]
      BY <2>1, <2>3, BeatEffect DEF IInv, Others
    <3>2. Budget(connects)' = Budget(connects) /\ Budget(connects) \in Nat
      BY <1>1, <2>1, <3>1, BudgetWithinGrace DEF Budget, IInv
    <3>3. thread[connects].left \in Nat /\ quiet[sessionId] \in Nat
      BY <1>3, <2>1, TimeAssumption DEF IInv, TypeOK
    <3>4. quiet'[sessionId] \in Nat /\ quiet'[sessionId] <= quiet[sessionId]
      BY <1>4, <2>1
    <3> QED
      BY <1>1, <2>1, <3>1, <3>2, <3>3, <3>4 DEF Keeps
  <2> QED
    BY <2>2, <2>3
<1> QED
  BY <1>1, <1>5, <1>6 DEF Kept, IInv, Handshake, TypeOK

LEMMA BeatLostKeeps == ASSUME IInv, NEW i \in Threads, BeatLost(i) PROVE Kept'
<1> SUFFICES ASSUME ~ late', caller.at # "exited" PROVE Kept'
  BY DEF Kept, BeatLost, members
<1>1. /\ thread[i].at = "send"
      /\ UNCHANGED <<phase, quiet, caller, connects, connected, sessionId>>
      /\ ~ late /\ ~ (Current(i) /\ thread[i].lost = MaxLost)
  BY DEF BeatLost, leases, members
<1>2. ASSUME connected, sessionId # NoSid PROVE Keeps(connects, sessionId)'
  <2>1. Keeps(connects, sessionId) /\ connects \in Threads /\ sessionId \in Sids
    BY <1>1, <1>2 DEF IInv, Kept, Handshake, TypeOK
  <2>2. CASE connects = i
    <3>1. thread[i].beats = sessionId /\ quiet[sessionId] <= Budget(i)
      BY <1>1, <2>1, <2>2 DEF Keeps
    <3>2. thread[i].lost \in 0 .. MaxLost /\ thread[i].lost # MaxLost /\ MaxLost \in Nat
      BY <1>1, <1>2, <3>1, TimeAssumption DEF IInv, TypeOK, Current
    <3>3. /\ thread'[i].at = "test" /\ thread'[i].beats = sessionId
          /\ thread'[i].left = Interval /\ thread'[i].lost = thread[i].lost + 1
      BY <3>1, <3>2, BeatLostEffect DEF IInv
    <3>4. /\ thread[i].lost + 1 \in Nat /\ Budget(i) \in Nat
          /\ (thread[i].lost + 1 + 1) * Interval = (thread[i].lost + 1) * Interval + Interval
      BY <3>2, TimeAssumption, Products DEF Budget
    <3>5. Budget(i)' = Budget(i) + Interval
      BY <3>3, <3>4 DEF Budget
    <3>6. quiet[sessionId] \in Nat /\ Interval \in Nat
      BY <2>1, TimeAssumption DEF IInv, TypeOK
    <3>7. quiet[sessionId] + Interval <= Budget(i) + Interval
      BY <3>1, <3>4, <3>6
    <3> QED
      BY <1>1, <2>1, <2>2, <3>3, <3>5, <3>7 DEF Keeps
  <2>3. CASE connects # i
    BY <1>1, <2>1, <2>3, BeatLostEffect DEF IInv, Others, Keeps, Budget
  <2> QED
    BY <2>2, <2>3
<1> QED
  BY <1>1, <1>2 DEF Kept, IInv, New

LEMMA TestKeeps == ASSUME IInv, NEW i \in Threads, Test(i) PROVE Kept'
<1> SUFFICES ASSUME ~ late, caller.at # "exited" PROVE Kept'
  BY DEF Kept, Test, members
<1>1. /\ thread[i].at = "test" /\ thread[i].left = 0
      /\ UNCHANGED <<phase, quiet, caller, connects, connected, sessionId, late>>
  BY DEF Test, leases, members
<1>2. ASSUME connected, sessionId # NoSid PROVE Keeps(connects, sessionId)'
  <2>1. Keeps(connects, sessionId) /\ connects \in Threads /\ quiet[sessionId] \in Nat
    BY <1>2, TimeAssumption DEF IInv, Kept, Handshake, TypeOK
  <2>2. CASE connects = i
    <3>1. thread'[i].at = "send" /\ thread'[i].beats = sessionId /\ Budget(i)' = Budget(i)
      BY <1>1, <1>2, <2>1, <2>2, TestEffect DEF IInv, Keeps, Budget
    <3>2. quiet[sessionId] <= Budget(i)
      BY <1>1, <2>1, <2>2 DEF Keeps
    <3> QED
      BY <1>1, <2>1, <2>2, <3>1, <3>2 DEF Keeps
  <2>3. CASE connects # i
    BY <1>1, <2>1, <2>3, TestEffect DEF IInv, Others, Keeps, Budget
  <2> QED
    BY <2>2, <2>3
<1> QED
  BY <1>1, <1>2 DEF Kept, IInv, New

LEMMA BeginKeeps == ASSUME IInv, NEW i \in Threads, Begin(i) PROVE Kept'
<1> SUFFICES ASSUME ~ late, caller.at # "exited" PROVE Kept'
  BY DEF Kept, Begin, members
<1>1. /\ thread[i].at = "new" /\ thread[i].left = 0 /\ thread[i].lost = 0
      /\ UNCHANGED <<phase, quiet, caller, connects, connected, sessionId, late>>
  BY DEF Begin, leases, members, IInv, Unstarted
<1>2. ASSUME connected, sessionId # NoSid PROVE Keeps(connects, sessionId)'
  <2>1. Keeps(connects, sessionId) /\ connects \in Threads
    BY <1>2 DEF IInv, Kept, Handshake
  <2>2. CASE connects = i
    <3>1. /\ thread'[i].at = "test" /\ thread'[i].beats = sessionId
          /\ thread'[i].left = 0 /\ thread'[i].lost = 0
      BY <1>1, BeginEffect DEF IInv
    <3>2. quiet[sessionId] = 0
      BY <1>1, <2>1, <2>2 DEF Keeps
    <3>3. (0 + 1) * Interval \in Nat
      BY TimeAssumption
    <3> QED
      BY <1>1, <2>1, <2>2, <3>1, <3>2, <3>3 DEF Keeps, Budget
  <2>3. CASE connects # i
    BY <1>1, <2>1, <2>3, BeginEffect DEF IInv, Others, Keeps, Budget
  <2> QED
    BY <2>2, <2>3
<1> QED
  BY <1>1, <1>2 DEF Kept, IInv, New

\* Unless the client is late, time passes only while the thread of its session sleeps.
LEMMA PassKeeps == ASSUME IInv, Pass PROVE Kept'
<1> SUFFICES ASSUME ~ late', caller.at # "exited" PROVE Kept'
  BY DEF Kept, Pass, members
<1>1. /\ ~ late /\ ~ Due /\ phase' = phase
      /\ UNCHANGED <<caller, connects, connected, sessionId>>
      /\ quiet' = [s \in Sids |-> IF phase[s] = "open" /\ quiet[s] < MaxAge
                                  THEN quiet[s] + 1 ELSE quiet[s]]
  BY DEF Pass, Lease!Pass, members
<1>2. caller.at \notin {"asked", "answered"}
  BY <1>1 DEF Due
<1>3. ASSUME connected, sessionId # NoSid PROVE Keeps(connects, sessionId)'
  <2>1. Keeps(connects, sessionId) /\ connects \in Threads /\ sessionId \in Sids
    BY <1>1, <1>3 DEF IInv, Kept, Handshake, TypeOK
  <2>2. thread[connects].at = "test" /\ thread[connects].left # 0 /\ thread[connects].beats = sessionId
    BY <1>1, <1>3, <2>1 DEF Keeps, Due, Current
  <2>3. /\ thread'[connects].at = "test" /\ thread'[connects].beats = sessionId
        /\ thread'[connects].left = (IF thread[connects].left > 0 THEN thread[connects].left - 1 ELSE 0)
        /\ Budget(connects)' = Budget(connects)
    BY <1>1, <2>1, <2>2, PassEffect DEF IInv, Budget
  <2>4. /\ thread[connects].left \in Nat /\ quiet[sessionId] \in Nat /\ Budget(connects) \in Nat
        /\ quiet[sessionId] + thread[connects].left <= Budget(connects)
    BY <2>1, <2>2, TimeAssumption, BudgetWithinGrace DEF IInv, TypeOK, Keeps
  <2>5. quiet'[sessionId] \in Nat /\ quiet'[sessionId] <= quiet[sessionId] + 1
    BY <1>1, <2>1, <2>4
  <2>6. thread'[connects].left = thread[connects].left - 1
    BY <2>2, <2>3, <2>4
  <2>7. quiet'[sessionId] + thread'[connects].left <= Budget(connects)
    BY <2>4, <2>5, <2>6
  <2> QED
    BY <1>1, <2>1, <2>3, <2>7 DEF Keeps
<1> QED
  BY <1>1, <1>2, <1>3 DEF Kept

LEMMA CallerKeeps ==
    ASSUME IInv,
           \/ Answer \/ StartThread \/ Disconnect \/ CreateSessionNode \/ Exit
           \/ \E s \in Sids : Ask(s) \/ DeleteNodes(s)
    PROVE  Kept'
<1> USE SidsAssumption DEF GoTo, Idle, leases, members, IInv
<1>1. CASE Answer
  BY <1>1 DEF Answer, Kept, New, Handshake
<1>2. CASE StartThread
  <2>1. connects \in Threads /\ ~ connected /\ caller.at = "answered"
    BY <1>2 DEF StartThread, Handshake
  <2>2. /\ UNCHANGED <<phase, quiet, connects, sessionId, late>> /\ connected'
        /\ caller' = [at |-> "idle", given |-> NoSid]
    BY <1>2 DEF StartThread
  <2>3. thread'[connects].at = "new"
    BY <1>2, <2>1, StartEffect
  <2>4. ~ late /\ sessionId # NoSid => New(sessionId)
    BY <2>1 DEF Kept
  <2> QED
    BY <2>2, <2>3, <2>4 DEF Kept, Keeps, New
<1>3. CASE Disconnect
  BY <1>3 DEF Disconnect, Kept
<1>4. CASE CreateSessionNode \/ \E s \in Sids : DeleteNodes(s)
  <2>1. UNCHANGED <<phase, quiet, caller, connected, connects, sessionId, thread, late>>
    BY <1>4 DEF CreateSessionNode, DeleteNodes
  <2> QED
    BY <2>1, KeptAside
<1>5. CASE Exit
  BY <1>5 DEF Exit, Kept
<1>6. ASSUME NEW s \in Sids, Ask(s) PROVE Kept'
  <2>1. phase'[s] = "open" /\ quiet'[s] = 0
    BY <1>6 DEF Ask, Lease!Open, TypeOK
  <2>2. caller' = [at |-> "asked", given |-> s] /\ ~ connected' /\ late' = late
    BY <1>6 DEF Ask
  <2> QED
    BY <2>1, <2>2 DEF Kept, New
<1> QED
  BY <1>1, <1>2, <1>3, <1>4, <1>5, <1>6

LEMMA KeptStep == ASSUME IInv, [Next]_vars PROVE Kept'
<1>1. CASE UNCHANGED vars
  BY <1>1, KeptAside DEF vars, leases, members, IInv
<1>2. CASE Next
  BY <1>2, CallerKeeps, PassKeeps, EndSessionKeeps, BeginKeeps, TestKeeps, BeatKeeps, BeatLostKeeps
  DEF Next, ThreadStep
<1> QED
  BY <1>1, <1>2

-----------------------------------------------------------------------------

THEOREM Invariance == Spec => []IInv
<1>1. IInv /\ [Next]_vars => IInv'
  BY TypeStep, HandshakeStep, UnstartedStep, KeptStep DEF IInv
<1> QED
  BY <1>1, InitIInv, PTL DEF Spec

\* The variables of the client keep their types, for any number of sessions and
\* connects, and only threads that connect has started run.
THEOREM TypeCorrect == Spec => []TypeOK
BY Invariance, PTL DEF IInv

\* A client that is connected and keeps its rhythm has its session, however its
\* calls, the threads it has started and the server interleave, as long as no more
\* than MaxLost heartbeats in a row are lost.
THEOREM SessionKept == Spec => []KeepsSession
<1>1. IInv => KeepsSession
  BY DEF IInv, Kept, KeepsSession, Keeps
<1> QED
  BY Invariance, <1>1, PTL

-----------------------------------------------------------------------------
(* A client that is away *)

ExitedEnds == caller.at = "exited" => \A i \in Threads : thread[i].at = "ended"

LEMMA ExitedEndsStep == ASSUME TypeOK, ExitedEnds, [Next]_vars PROVE ExitedEnds'
<1> USE DEF ExitedEnds
<1>1. CASE UNCHANGED vars
  BY <1>1 DEF vars, members
<1>2. CASE Exit
  BY <1>2, ExitEffect
<1>3. CASE Pass
  BY <1>3, PassEffect DEF Pass, members
<1>4. ASSUME NEW i \in Threads, ThreadStep(i) PROVE ExitedEnds'
  <2>1. caller' = caller /\ thread[i].at # "ended"
    BY <1>4 DEF ThreadStep, Begin, Test, Beat, BeatLost, members
  <2> QED
    BY <2>1
<1>5. CASE Answer \/ StartThread
  BY <1>5 DEF Answer, StartThread, GoTo
<1>6. ASSUME NEW s \in Sids, Ask(s) \/ EndSession(s) \/ DeleteNodes(s) PROVE ExitedEnds'
  BY <1>6 DEF Ask, EndSession, DeleteNodes, GoTo, members
<1>7. CASE Disconnect \/ CreateSessionNode
  BY <1>7 DEF Disconnect, CreateSessionNode, members
<1> QED
  BY <1>1, <1>2, <1>3, <1>4, <1>5, <1>6, <1>7 DEF Next

Runs == {"new", "test", "send"}

\* What a step may still do for a client that is away: no thread starts, none turns to
\* another heartbeat, no session is opened or is given a node, and a lease is renewed
\* only by a thread that was about to send when the client left.
Farewell ==
    /\ \A i \in Threads :
         /\ thread'[i].at = "send" => thread[i].at = "send"
         /\ thread'[i].at \in Runs => thread[i].at \in Runs
    /\ owned' \subseteq owned
    /\ \A s \in Sids : phase'[s] = "open" =>
         /\ phase[s] = "open"
         /\ \/ quiet'[s] >= quiet[s]
            \/ \E i \in Threads : /\ thread[i].at = "send" /\ thread[i].beats = s
                                  /\ thread'[i].at = "test"

LEMMA FarewellStep ==
    ASSUME IInv, ExitedEnds, [Next]_vars, Away, Away'
    PROVE  Farewell
<1>0. /\ TypeOK /\ quiet \in [Sids -> 0 .. MaxAge] /\ MaxAge \in Nat
      /\ phase \in [Sids -> {"none", "open", "closed"}]
  BY TimeAssumption DEF IInv, TypeOK
<1>1. \A s \in Sids : quiet[s] \in Nat /\ quiet[s] >= quiet[s]
  BY <1>0
<1> DEFINE Still == \A s \in Sids : phase'[s] = "open" => phase[s] = "open" /\ quiet'[s] >= quiet[s]
<1>2. CASE UNCHANGED vars
  BY <1>1, <1>2 DEF vars, leases, Farewell
<1>3. CASE Exit
  BY <1>0, <1>1, <1>3, ExitEffect DEF Exit, leases, Farewell, Runs
<1>4. CASE Pass
  <2>1. Still
    BY <1>0, <1>4 DEF Pass, Lease!Pass
  <2> QED
    BY <1>0, <1>4, <2>1, PassEffect DEF Pass, Farewell
<1>5. ASSUME NEW i \in Threads, Begin(i) PROVE Farewell
  BY <1>0, <1>1, <1>5, BeginEffect DEF Begin, leases, Others, Farewell, Runs
\* m_sessionId is 0 by now, or the process is gone.
<1>6. ASSUME NEW i \in Threads, Test(i) PROVE Farewell
  <2>1. sessionId = NoSid
    <3>1. caller.at # "exited"
      BY <1>6 DEF ExitedEnds, Test
    <3> QED
      BY <3>1 DEF Away, Idle, IInv, Handshake
  <2>2. thread'[i].at = "ended"
    BY <1>0, <1>6, <2>1, TestEffect
  <2> QED
    BY <1>0, <1>1, <1>6, <2>2, TestEffect DEF Test, leases, Others, Farewell, Runs
<1>7. ASSUME NEW i \in Threads, Beat(i) PROVE Farewell
  <2>1. thread[i].at = "send" /\ thread'[i].at = "test" /\ Others(i) /\ owned' = owned
    BY <1>0, <1>7, BeatEffect DEF Beat
  <2>2. phase' = phase /\ \A s \in Sids \ {thread[i].beats} : quiet'[s] = quiet[s]
    BY <1>0, <1>7 DEF Beat, Lease!Renew
  <2> QED
    BY <1>1, <2>1, <2>2 DEF Others, Farewell, Runs
<1>8. ASSUME NEW i \in Threads, BeatLost(i) PROVE Farewell
  BY <1>0, <1>1, <1>8, BeatLostEffect DEF BeatLost, leases, Others, Farewell, Runs
<1>9. ASSUME NEW s \in Sids, EndSession(s) PROVE Farewell
  <2>1. Still
    BY <1>0, <1>1, <1>9 DEF EndSession, Lease!Close
  <2> QED
    BY <1>9, <2>1 DEF EndSession, Farewell
<1>10. ASSUME NEW s \in Sids, Ask(s) PROVE FALSE
  BY <1>10 DEF Ask, GoTo, Away, Idle
<1>11. CASE Answer \/ StartThread \/ Disconnect \/ CreateSessionNode
  BY <1>11 DEF Answer, StartThread, Disconnect, CreateSessionNode, Away, Idle
<1>12. ASSUME NEW s \in Sids, DeleteNodes(s) PROVE FALSE
  BY <1>12 DEF DeleteNodes, Away, Idle
<1> QED
  BY <1>2, <1>3, <1>4, <1>5, <1>6, <1>7, <1>8, <1>9, <1>10, <1>11, <1>12 DEF Next, ThreadStep

\* Every heartbeat thread that a client leaves behind, by disconnect or with its process
\* and however many connects came before, sends one heartbeat more at most: it stops
\* by the m_sessionId it finds, and nothing sets that or starts a thread meanwhile.
THEOREM LastBeats == Spec => [][Away /\ Away' => Farewell]_vars
<1>1. Init => ExitedEnds
  BY DEF Init, ExitedEnds
<1>2. IInv /\ ExitedEnds /\ [Next]_vars => ExitedEnds'
  BY ExitedEndsStep DEF IInv
<1>3. IInv /\ ExitedEnds /\ [Next]_vars => [Away /\ Away' => Farewell]_vars
  BY FarewellStep
<1> QED
  BY <1>1, <1>2, <1>3, Invariance, PTL DEF Spec
=============================================================================
