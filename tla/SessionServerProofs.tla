------------------------ MODULE SessionServerProofs ------------------------
(***************************************************************************)
(* Proofs about SessionServer, for any number of sessions, any timeout and *)
(* any limit.  The inductive invariant has three parts beside the types:   *)
(* which sessions are watched at which place of the UDP thread (Watch),    *)
(* where a count may stand there (Counted), and how much silence a timer   *)
(* and a count stand for (Clock), which is what makes an end never early.  *)
(***************************************************************************)
EXTENDS SessionServer, TLAPS

Watched == DOMAIN left \cup due

\* Which sessions are where: a session enters m_sessions, the timer and the counter
\* in this order, and leaves the timer, m_sessions and the counter in this one.
Registering ==
    \A s \in Sids :
        /\ reg[s] = "none" => s \notin sessions
        /\ reg[s] = "added" => s \in sessions /\ s \notin Watched
        /\ reg[s] = "timed" => s \in sessions /\ s \in Watched
        /\ reg[s] # "done" => s \notin DOMAIN count

Place ==
    /\ udp.at \notin {"timer", "callbacks"} => due = {}
    /\ udp.at \in Ending => udp.id \in DOMAIN count
    /\ udp.at = "remove" => udp.id \in sessions
    /\ udp.at \in {"sweep", "pop"} => udp.id \notin sessions

Watch == Registering /\ LiveSessionWatched /\ NoGhostWatch /\ Place

\* Only the callbacks of one tick bring counts to the limit, each of them once.
Counted ==
    /\ udp.at \in {"timer", "recv"} => \A s \in DOMAIN count : count[s] < Limit
    /\ udp.at = "callbacks" => \A s \in DOMAIN count \cap due : count[s] < Limit

Missed(s) == IF s \in DOMAIN count THEN count[s] ELSE 0

\* A timer running, and the timeouts counted before it, account for silence that
\* the observer has seen; so does a timer that has fired, one period more.
Silence(s) ==
    \/ age[s] = MaxAge
    \/ /\ s \in DOMAIN left => left[s] + age[s] >= Timeout + Missed(s) * Period
       /\ s \in due => age[s] >= Missed(s) * Period + Period

Clock == (\A s \in Sids : Silence(s)) /\ NoPrematureEnd

IInv == TypeOK /\ Watch /\ Counted /\ Clock

-----------------------------------------------------------------------------
(* The entries of the two heaps *)

\* What a change leaves of a map with values in S.
Replaced(new, old, s, v, S) ==
    /\ new \in [DOMAIN old \cup {s} -> S]
    /\ DOMAIN new = DOMAIN old \cup {s}
    /\ new[s] = v
    /\ \A r \in DOMAIN old \ {s} : new[r] = old[r]

Removed(new, old, s, S) ==
    /\ new \in [DOMAIN old \ {s} -> S]
    /\ DOMAIN new = DOMAIN old \ {s}
    /\ \A r \in DOMAIN old \ {s} : new[r] = old[r]

Restarted(new, old, s, v, S) ==
    /\ new \in [DOMAIN old -> S]
    /\ DOMAIN new = DOMAIN old
    /\ s \in DOMAIN old => new[s] = v
    /\ \A r \in DOMAIN old \ {s} : new[r] = old[r]

LEMMA WithFacts ==
    ASSUME NEW map, NEW s, NEW S, NEW v \in S, map \in [DOMAIN map -> S]
    PROVE  Replaced(With(map, s, v), map, s, v, S)
BY DEF With, Replaced

LEMMA WithoutFacts ==
    ASSUME NEW map, NEW s, NEW S, map \in [DOMAIN map -> S]
    PROVE  Removed(Without(map, s), map, s, S)
BY DEF Without, Removed

LEMMA AdjustedFacts ==
    ASSUME NEW map, NEW s, NEW S, NEW v \in S, map \in [DOMAIN map -> S]
    PROVE  Restarted(Adjusted(map, s, v), map, s, v, S)
<1>1. CASE s \in DOMAIN map
  <2>1. DOMAIN map \cup {s} = DOMAIN map
    BY <1>1
  <2>2. Adjusted(map, s, v) = With(map, s, v)
    BY <1>1 DEF Adjusted
  <2>3. Replaced(With(map, s, v), map, s, v, S)
    BY WithFacts
  <2> QED
    BY <2>1, <2>2, <2>3 DEF Replaced, Restarted
<1>2. CASE s \notin DOMAIN map
  BY <1>2 DEF Adjusted, Restarted
<1> QED
  BY <1>1, <1>2

\* A heap so changed is still a function from sessions to S.
LEMMA ReplacedType ==
    ASSUME NEW new, NEW old, NEW s \in Sids, NEW S, NEW v,
           DOMAIN old \subseteq Sids, Replaced(new, old, s, v, S)
    PROVE  new \in [DOMAIN new -> S] /\ DOMAIN new \subseteq Sids
BY DEF Replaced

(* What the limits and the period are *)

LEMMA PeriodFacts ==
    /\ Period \in Nat /\ Limit \in Nat /\ Limit > 0 /\ Timeout \in Nat /\ PerMs \in Nat
    /\ Period + PerMs = Timeout + 1
    /\ \A c \in Nat : /\ c * Period \in Nat
                      /\ (c + 1) * Period = c * Period + Period
                      /\ c >= Limit => c * Period >= Grace
    /\ 0 * Period = 0
    /\ Grace \in Nat /\ MaxAge \in Nat /\ MaxAge >= Grace
BY TimeAssumption DEF Period, Grace

(* The steps that change a heap *)

LEMMA HeapChanges ==
    ASSUME TypeOK, NEW s
    PROVE  /\ Replaced(With(left, s, Timeout), left, s, Timeout, 0 .. Timeout)
           /\ Removed(Without(left, s), left, s, 0 .. Timeout)
           /\ Restarted(Adjusted(left, s, Timeout), left, s, Timeout, 0 .. Timeout)
           /\ \A c \in 0 .. Limit : Replaced(With(count, s, c), count, s, c, 0 .. Limit)
           /\ Removed(Without(count, s), count, s, 0 .. Limit)
           /\ Restarted(Adjusted(count, s, 0), count, s, 0, 0 .. Limit)
<1>1. /\ left \in [DOMAIN left -> 0 .. Timeout] /\ Timeout \in 0 .. Timeout
      /\ count \in [DOMAIN count -> 0 .. Limit] /\ 0 \in 0 .. Limit
  BY PeriodFacts DEF TypeOK
<1> QED
  BY <1>1, WithFacts, WithoutFacts, AdjustedFacts

LEMMA PushTimerHeaps ==
    ASSUME TypeOK, NEW s \in Sids, PushTimer(s)
    PROVE  Replaced(left', left, s, Timeout, 0 .. Timeout) /\ count' = count
BY HeapChanges DEF PushTimer

LEMMA PushCounterHeaps ==
    ASSUME TypeOK, NEW s \in Sids, PushCounter(s)
    PROVE  Replaced(count', count, s, 0, 0 .. Limit) /\ left' = left
<1>1. 0 \in 0 .. Limit
  BY PeriodFacts
<1> QED
  BY <1>1, HeapChanges DEF PushCounter

LEMMA PopTimerHeaps ==
    ASSUME TypeOK, NEW s \in Sids, PopTimer(s)
    PROVE  Removed(left', left, s, 0 .. Timeout) /\ count' = count
BY HeapChanges DEF PopTimer

LEMMA TimeoutFuncHeaps ==
    ASSUME TypeOK, Counted, NEW s \in Sids, TimeoutFunc(s)
    PROVE  /\ Replaced(left', left, s, Timeout, 0 .. Timeout)
           /\ s \in DOMAIN count => Replaced(count', count, s, count[s] + 1, 0 .. Limit)
           /\ s \notin DOMAIN count => count' = count
<1>1. left' = With(left, s, Timeout) /\ s \in due /\ udp.at = "callbacks"
  BY DEF TimeoutFunc, At
<1>2. ASSUME s \in DOMAIN count PROVE Replaced(count', count, s, count[s] + 1, 0 .. Limit)
  <2>1. count[s] \in 0 .. Limit /\ count[s] < Limit
    BY <1>1, <1>2 DEF TypeOK, Counted
  <2>2. count[s] + 1 \in 0 .. Limit
    BY <2>1, PeriodFacts
  <2>3. count' = With(count, s, count[s] + 1)
    BY <1>2 DEF TimeoutFunc
  <2> QED
    BY <2>2, <2>3, HeapChanges
<1> QED
  BY <1>1, <1>2, HeapChanges DEF TimeoutFunc

LEMMA HeartbeatReachHeaps ==
    ASSUME TypeOK, NEW s \in Sids, HeartbeatReach(s)
    PROVE  Removed(left', left, s, 0 .. Timeout) /\ count' = count
BY HeapChanges DEF HeartbeatReach

LEMMA PopCounterHeaps ==
    ASSUME TypeOK, PopCounter
    PROVE  Removed(count', count, udp.id, 0 .. Limit) /\ left' = left
BY HeapChanges DEF PopCounter

LEMMA OnUDPMessageHeaps ==
    ASSUME TypeOK, NEW s \in Sids, OnUDPMessage(s)
    PROVE  \/ /\ s \in sessions
              /\ Restarted(left', left, s, Timeout, 0 .. Timeout)
              /\ Restarted(count', count, s, 0, 0 .. Limit)
           \/ left' = left /\ count' = count
BY HeapChanges DEF OnUDPMessage, Reset

-----------------------------------------------------------------------------
(* The invariant holds at the start and is kept by every step *)

LEMMA InitHolds == Init => IInv
BY TimeAssumption, SidsAssumption
   DEF Init, IInv, TypeOK, Watch, Registering, Place, Watched, Counted, Clock, Silence, Missed, Ending,
       Victims, LiveSessionWatched, NoGhostWatch, NoPrematureEnd

LEMMA TypeStep == ASSUME IInv, [Next]_vars PROVE TypeOK'
<1> USE DEF IInv, TypeOK, Ending
<1>1. ASSUME NEW s \in Sids, Add(s) PROVE TypeOK'
  BY <1>1, TimeAssumption DEF Add
<1>2. ASSUME NEW s \in Sids, PushTimer(s) PROVE TypeOK'
  <2>1. left' \in [DOMAIN left' -> 0 .. Timeout] /\ DOMAIN left' \subseteq Sids
    <3>1. TypeOK /\ DOMAIN left \subseteq Sids
      OBVIOUS
    <3> HIDE DEF IInv, TypeOK
    <3>2. Replaced(left', left, s, Timeout, 0 .. Timeout)
      BY <1>2, <3>1, PushTimerHeaps
    <3> QED
      BY <3>1, <3>2, ReplacedType
  <2>2. age' \in [Sids -> 0 .. MaxAge] /\ reg' \in [Sids -> {"none", "added", "timed", "done"}]
    BY <1>2, TimeAssumption DEF PushTimer
  <2> QED
    BY <1>2, <2>1, <2>2 DEF PushTimer
<1>3. ASSUME NEW s \in Sids, PushCounter(s) PROVE TypeOK'
  <2>1. count' \in [DOMAIN count' -> 0 .. Limit] /\ DOMAIN count' \subseteq Sids
    <3>1. TypeOK /\ DOMAIN count \subseteq Sids
      OBVIOUS
    <3> HIDE DEF IInv, TypeOK
    <3>2. Replaced(count', count, s, 0, 0 .. Limit)
      BY <1>3, <3>1, PushCounterHeaps
    <3> QED
      BY <3>1, <3>2, ReplacedType
  <2>2. reg' \in [Sids -> {"none", "added", "timed", "done"}]
    BY <1>3 DEF PushCounter
  <2> QED
    BY <1>3, <2>1, <2>2 DEF PushCounter
<1>4. ASSUME NEW s \in Sids, CreateSessionNode(s) PROVE TypeOK'
  BY <1>4 DEF CreateSessionNode
<1>5. ASSUME NEW s \in Sids, DeleteSessionNodes(s) PROVE TypeOK'
  BY <1>5 DEF DeleteSessionNodes
<1>6. ASSUME NEW s \in Sids, PopTimer(s) PROVE TypeOK'
  BY <1>6, PopTimerHeaps DEF PopTimer, Removed, At
<1>7. ASSUME NEW s \in Sids, TimeoutFunc(s) PROVE TypeOK'
  <2>1. /\ left' \in [DOMAIN left' -> 0 .. Timeout] /\ DOMAIN left' \subseteq Sids
        /\ count' \in [DOMAIN count' -> 0 .. Limit] /\ DOMAIN count' \subseteq Sids
    <3>1. TypeOK /\ Counted /\ DOMAIN left \subseteq Sids /\ DOMAIN count \subseteq Sids
          /\ count \in [DOMAIN count -> 0 .. Limit]
      OBVIOUS
    <3> HIDE DEF IInv, TypeOK
    <3>2. Replaced(left', left, s, Timeout, 0 .. Timeout)
      BY <1>7, <3>1, TimeoutFuncHeaps
    <3>3. CASE s \in DOMAIN count
      <4>1. Replaced(count', count, s, count[s] + 1, 0 .. Limit)
        BY <1>7, <3>1, <3>3, TimeoutFuncHeaps
      <4> QED
        BY <3>1, <3>2, <4>1, ReplacedType
    <3>4. CASE s \notin DOMAIN count
      <4>1. count' = count
        BY <1>7, <3>1, <3>4, TimeoutFuncHeaps
      <4> QED
        BY <3>1, <3>2, <4>1, ReplacedType
    <3> QED
      BY <3>3, <3>4
  <2>2. due' \subseteq Sids
    BY <1>7 DEF TimeoutFunc
  <2> QED
    BY <1>7, <2>1, <2>2 DEF TimeoutFunc
<1>8. ASSUME NEW s \in Sids, HeartbeatReach(s) PROVE TypeOK'
  BY <1>8, HeartbeatReachHeaps DEF HeartbeatReach, Removed, GoTo, At
<1>9. ASSUME NEW s \in Sids, OnUDPMessage(s) PROVE TypeOK'
  BY <1>9, OnUDPMessageHeaps, TimeAssumption DEF OnUDPMessage, Restarted, GoTo, At
<1>10. ASSUME NEW s \in Sids, Heartbeat(s) PROVE TypeOK'
  BY <1>10 DEF Heartbeat
<1>11. ASSUME NEW s \in Sids, LoseDatagram(s) PROVE TypeOK'
  BY <1>11 DEF LoseDatagram
<1>12. ASSUME NEW s \in Sids, FallSilent(s) PROVE TypeOK'
  BY <1>12 DEF FallSilent
<1>13. CASE Tick
  BY <1>13, TimeAssumption DEF Tick
<1>14. CASE TimerDone
  BY <1>14 DEF TimerDone, GoTo, At
<1>15. CASE CallbacksDone
  BY <1>15 DEF CallbacksDone, GoTo, At
<1>16. CASE CounterDone
  BY <1>16 DEF CounterDone, GoTo, At
<1>17. CASE RemoveSession
  BY <1>17 DEF RemoveSession, GoTo, At
<1>18. CASE RemoveEphemeral
  BY <1>18 DEF RemoveEphemeral, GoTo, At
<1>19. CASE PopCounter
  BY <1>19, PopCounterHeaps DEF PopCounter, Removed, GoTo, At
<1>20. CASE RecvTimeout
  BY <1>20 DEF RecvTimeout, GoTo, At
<1>21. CASE UNCHANGED vars
  BY <1>21 DEF vars
<1> QED
  BY <1>1, <1>2, <1>3, <1>4, <1>5, <1>6, <1>7, <1>8, <1>9, <1>10, <1>11, <1>12, <1>13, <1>14, <1>15, <1>16, <1>17, <1>18, <1>19, <1>20, <1>21 DEF Next, UdpStep, Register

LEMMA WatchStep == ASSUME IInv, [Next]_vars PROVE Watch'
<1> USE DEF IInv, TypeOK, Watch, Watched, Ending, Victims
<1>1. ASSUME NEW s \in Sids, Add(s) PROVE Watch'
  BY <1>1
  DEF Add, Registering, LiveSessionWatched, NoGhostWatch, Place
<1>2. ASSUME NEW s \in Sids, PushTimer(s) PROVE Watch'
  <2>1. /\ DOMAIN left' = DOMAIN left \cup {s} /\ DOMAIN count' = DOMAIN count
        /\ reg[s] = "added" /\ reg' = [reg EXCEPT ![s] = "timed"]
        /\ sessions' = sessions /\ due' = due /\ udp' = udp
    BY <1>2, PushTimerHeaps DEF PushTimer, Replaced
  <2>2. Registering'
    BY <2>1 DEF Registering
  <2>3. LiveSessionWatched'
    BY <2>1 DEF LiveSessionWatched
  <2>4. NoGhostWatch'
    BY <2>1 DEF NoGhostWatch, Registering, Place
  <2>5. Place'
    BY <2>1 DEF Place
  <2> QED
    BY <2>2, <2>3, <2>4, <2>5
<1>3. ASSUME NEW s \in Sids, PushCounter(s) PROVE Watch'
  <2>1. /\ DOMAIN left' = DOMAIN left /\ DOMAIN count' = DOMAIN count \cup {s}
        /\ reg[s] = "timed" /\ reg' = [reg EXCEPT ![s] = "done"]
        /\ sessions' = sessions /\ due' = due /\ udp' = udp
    BY <1>3, PushCounterHeaps DEF PushCounter, Replaced
  <2>2. Registering'
    BY <2>1 DEF Registering
  <2>3. LiveSessionWatched'
    BY <2>1 DEF LiveSessionWatched, Registering, NoGhostWatch
  <2>4. NoGhostWatch'
    BY <2>1 DEF NoGhostWatch, Registering, Place
  <2>5. Place'
    BY <2>1 DEF Place
  <2> QED
    BY <2>2, <2>3, <2>4, <2>5
<1>4. ASSUME NEW s \in Sids, CreateSessionNode(s) PROVE Watch'
  BY <1>4
  DEF CreateSessionNode, Registering, LiveSessionWatched, NoGhostWatch, Place
<1>5. ASSUME NEW s \in Sids, DeleteSessionNodes(s) PROVE Watch'
  BY <1>5
  DEF DeleteSessionNodes, Registering, LiveSessionWatched, NoGhostWatch, Place
<1>6. ASSUME NEW s \in Sids, PopTimer(s) PROVE Watch'
  <2>1. /\ DOMAIN left' = DOMAIN left \ {s} /\ DOMAIN count' = DOMAIN count
        /\ s \in DOMAIN left /\ due' = due \cup {s} /\ udp.at = "timer"
        /\ reg' = reg /\ sessions' = sessions /\ udp' = udp
    BY <1>6, PopTimerHeaps DEF PopTimer, Removed, At
  <2>2. Registering'
    BY <2>1 DEF Registering
  <2>3. LiveSessionWatched'
    BY <2>1 DEF LiveSessionWatched
  <2>4. NoGhostWatch'
    BY <2>1 DEF NoGhostWatch
  <2>5. Place'
    BY <2>1 DEF Place
  <2> QED
    BY <2>2, <2>3, <2>4, <2>5
<1>7. ASSUME NEW s \in Sids, TimeoutFunc(s) PROVE Watch'
  <2>1. /\ DOMAIN left' = DOMAIN left \cup {s} /\ DOMAIN count' = DOMAIN count
        /\ s \in due /\ due' = due \ {s} /\ udp.at = "callbacks"
        /\ reg' = reg /\ sessions' = sessions /\ udp' = udp
    BY <1>7, TimeoutFuncHeaps DEF TimeoutFunc, Replaced, At
  <2>2. Registering'
    BY <2>1 DEF Registering
  <2>3. LiveSessionWatched'
    BY <2>1 DEF LiveSessionWatched
  <2>4. NoGhostWatch'
    BY <2>1 DEF NoGhostWatch
  <2>5. Place'
    BY <2>1 DEF Place
  <2> QED
    BY <2>2, <2>3, <2>4, <2>5
<1>8. ASSUME NEW s \in Sids, HeartbeatReach(s) PROVE Watch'
  <2>1. /\ DOMAIN left' = DOMAIN left \ {s} /\ DOMAIN count' = DOMAIN count
        /\ s \in DOMAIN count /\ udp.at = "counter"
        /\ udp' = [at |-> "remove", id |-> s]
        /\ reg' = reg /\ sessions' = sessions /\ due' = due
    BY <1>8, HeartbeatReachHeaps DEF HeartbeatReach, Removed, GoTo, At
  <2>2. Registering'
    BY <2>1 DEF Registering
  <2>3. LiveSessionWatched'
    BY <2>1 DEF LiveSessionWatched
  <2>4. NoGhostWatch'
    BY <2>1 DEF NoGhostWatch, Place
  <2>5. Place'
    BY <2>1 DEF Place, NoGhostWatch
  <2> QED
    BY <2>2, <2>3, <2>4, <2>5
<1>9. ASSUME NEW s \in Sids, OnUDPMessage(s) PROVE Watch'
  <2>1. /\ DOMAIN left' = DOMAIN left /\ DOMAIN count' = DOMAIN count
        /\ udp.at = "recv" /\ udp' = [at |-> "timer", id |-> NoSid]
        /\ reg' = reg /\ sessions' = sessions /\ due' = due
    BY <1>9, OnUDPMessageHeaps DEF OnUDPMessage, Restarted, GoTo, At
  <2>2. Registering'
    BY <2>1 DEF Registering
  <2>3. LiveSessionWatched'
    BY <2>1 DEF LiveSessionWatched
  <2>4. NoGhostWatch'
    BY <2>1 DEF NoGhostWatch
  <2>5. Place'
    BY <2>1 DEF Place
  <2> QED
    BY <2>2, <2>3, <2>4, <2>5
<1>10. ASSUME NEW s \in Sids, Heartbeat(s) PROVE Watch'
  BY <1>10
  DEF Heartbeat, Registering, LiveSessionWatched, NoGhostWatch, Place
<1>11. ASSUME NEW s \in Sids, LoseDatagram(s) PROVE Watch'
  BY <1>11
  DEF LoseDatagram, Registering, LiveSessionWatched, NoGhostWatch, Place
<1>12. ASSUME NEW s \in Sids, FallSilent(s) PROVE Watch'
  BY <1>12
  DEF FallSilent, Registering, LiveSessionWatched, NoGhostWatch, Place
<1>13. CASE Tick
  BY <1>13
  DEF Tick, Registering, LiveSessionWatched, NoGhostWatch, Place
<1>14. CASE TimerDone
  BY <1>14
  DEF TimerDone, GoTo, At, Registering, LiveSessionWatched, NoGhostWatch, Place
<1>15. CASE CallbacksDone
  BY <1>15
  DEF CallbacksDone, GoTo, At, Registering, LiveSessionWatched, NoGhostWatch, Place
<1>16. CASE CounterDone
  BY <1>16
  DEF CounterDone, GoTo, At, Registering, LiveSessionWatched, NoGhostWatch, Place
<1>17. CASE RemoveSession
  BY <1>17
  DEF RemoveSession, GoTo, At, Registering, LiveSessionWatched, NoGhostWatch, Place
<1>18. CASE RemoveEphemeral
  BY <1>18
  DEF RemoveEphemeral, GoTo, At, Registering, LiveSessionWatched, NoGhostWatch, Place
<1>19. CASE PopCounter
  <2>1. /\ DOMAIN left' = DOMAIN left /\ DOMAIN count' = DOMAIN count \ {udp.id}
        /\ udp.at = "pop" /\ udp' = [at |-> "counter", id |-> NoSid]
        /\ reg' = reg /\ sessions' = sessions /\ due' = due
    BY <1>19, PopCounterHeaps DEF PopCounter, Removed, GoTo, At
  <2>2. Registering'
    BY <2>1 DEF Registering
  <2>3. LiveSessionWatched'
    BY <2>1 DEF LiveSessionWatched, Place
  <2>4. NoGhostWatch'
    BY <2>1 DEF NoGhostWatch
  <2>5. Place'
    BY <2>1 DEF Place
  <2> QED
    BY <2>2, <2>3, <2>4, <2>5
<1>20. CASE RecvTimeout
  BY <1>20
  DEF RecvTimeout, GoTo, At, Registering, LiveSessionWatched, NoGhostWatch, Place
<1>21. CASE UNCHANGED vars
  BY <1>21 DEF vars, Registering, LiveSessionWatched, NoGhostWatch, Place
<1> QED
  BY <1>1, <1>2, <1>3, <1>4, <1>5, <1>6, <1>7, <1>8, <1>9, <1>10, <1>11, <1>12, <1>13, <1>14, <1>15, <1>16, <1>17, <1>18, <1>19, <1>20, <1>21 DEF Next, UdpStep, Register

LEMMA CountedStep == ASSUME IInv, [Next]_vars PROVE Counted'
<1> USE DEF IInv, TypeOK, Watch, NoGhostWatch, Victims, Counted
<1>1. ASSUME NEW s \in Sids, Add(s) PROVE Counted'
  BY <1>1 DEF Add
<1>2. ASSUME NEW s \in Sids, PushTimer(s) PROVE Counted'
  BY <1>2, PushTimerHeaps DEF PushTimer, Replaced
<1>3. ASSUME NEW s \in Sids, PushCounter(s) PROVE Counted'
  <2>1. /\ DOMAIN count' = DOMAIN count \cup {s} /\ count'[s] = 0
        /\ \A r \in DOMAIN count \ {s} : count'[r] = count[r]
        /\ udp' = udp /\ due' = due
    BY <1>3, PushCounterHeaps DEF PushCounter, Replaced
  <2> QED
    BY <2>1, TimeAssumption
<1>4. ASSUME NEW s \in Sids, CreateSessionNode(s) PROVE Counted'
  BY <1>4 DEF CreateSessionNode
<1>5. ASSUME NEW s \in Sids, DeleteSessionNodes(s) PROVE Counted'
  BY <1>5 DEF DeleteSessionNodes
<1>6. ASSUME NEW s \in Sids, PopTimer(s) PROVE Counted'
  BY <1>6, PopTimerHeaps DEF PopTimer, Removed, At
<1>7. ASSUME NEW s \in Sids, TimeoutFunc(s) PROVE Counted'
  <2>1. udp.at = "callbacks" /\ udp' = udp /\ due' = due \ {s}
    BY <1>7 DEF TimeoutFunc, At
  <2>2. \A r \in DOMAIN count \ {s} : r \in DOMAIN count' => count'[r] = count[r]
    BY <1>7, TimeoutFuncHeaps DEF Replaced
  <2>3. DOMAIN count' \subseteq DOMAIN count \cup {s}
    BY <1>7, TimeoutFuncHeaps DEF Replaced
  <2> QED
    BY <2>1, <2>2, <2>3
<1>8. ASSUME NEW s \in Sids, HeartbeatReach(s) PROVE Counted'
  BY <1>8, HeartbeatReachHeaps DEF HeartbeatReach, Removed, GoTo, At
<1>9. ASSUME NEW s \in Sids, OnUDPMessage(s) PROVE Counted'
  BY <1>9, OnUDPMessageHeaps, TimeAssumption DEF OnUDPMessage, Restarted, GoTo, At
<1>10. ASSUME NEW s \in Sids, Heartbeat(s) PROVE Counted'
  BY <1>10 DEF Heartbeat
<1>11. ASSUME NEW s \in Sids, LoseDatagram(s) PROVE Counted'
  BY <1>11 DEF LoseDatagram
<1>12. ASSUME NEW s \in Sids, FallSilent(s) PROVE Counted'
  BY <1>12 DEF FallSilent
<1>13. CASE Tick
  BY <1>13 DEF Tick
<1>14. CASE TimerDone
  BY <1>14 DEF TimerDone, GoTo, At
<1>15. CASE CallbacksDone
  BY <1>15 DEF CallbacksDone, GoTo, At
<1>16. CASE CounterDone
  BY <1>16, TimeAssumption DEF CounterDone, AtLimit, GoTo, At
<1>17. CASE RemoveSession
  BY <1>17 DEF RemoveSession, GoTo, At
<1>18. CASE RemoveEphemeral
  BY <1>18 DEF RemoveEphemeral, GoTo, At
<1>19. CASE PopCounter
  BY <1>19, PopCounterHeaps DEF PopCounter, Removed, GoTo, At
<1>20. CASE RecvTimeout
  BY <1>20 DEF RecvTimeout, GoTo, At
<1>21. CASE UNCHANGED vars
  BY <1>21 DEF vars
<1> QED
  BY <1>1, <1>2, <1>3, <1>4, <1>5, <1>6, <1>7, <1>8, <1>9, <1>10, <1>11, <1>12, <1>13, <1>14, <1>15, <1>16, <1>17, <1>18, <1>19, <1>20, <1>21 DEF Next, UdpStep, Register

\* A step that leaves the heaps and the observer alone, and starts no ending.
LEMMA QuietClock ==
    ASSUME Clock, Victims' \subseteq Victims, UNCHANGED <<left, due, count, age>>
    PROVE  Clock'
BY DEF Clock, Silence, Missed, NoPrematureEnd

LEMMA ValueTypes ==
    ASSUME TypeOK, NEW r \in Sids
    PROVE  /\ age[r] \in Nat /\ age[r] <= MaxAge
           /\ r \in DOMAIN left => left[r] \in Nat /\ left[r] <= Timeout
           /\ r \in DOMAIN count => count[r] \in Nat /\ count[r] <= Limit
           /\ Missed(r) \in Nat /\ Missed(r) * Period \in Nat
<1>1. /\ age[r] \in 0 .. MaxAge
      /\ r \in DOMAIN left => left[r] \in 0 .. Timeout
      /\ r \in DOMAIN count => count[r] \in 0 .. Limit
  BY DEF TypeOK
<1>2. Missed(r) \in Nat
  BY <1>1, PeriodFacts DEF Missed
<1> QED
  BY <1>1, <1>2, PeriodFacts

LEMMA ClockStep == ASSUME IInv, [Next]_vars PROVE Clock'
<1> USE DEF IInv
<1>1. ASSUME NEW s \in Sids, PushTimer(s) PROVE Clock'
  <2>1. /\ Replaced(left', left, s, Timeout, 0 .. Timeout) /\ count' = count
        /\ due' = due /\ udp' = udp /\ age' = [age EXCEPT ![s] = 0]
        /\ s \notin DOMAIN count /\ s \notin due
    BY <1>1, PushTimerHeaps DEF PushTimer, Watch, Registering, Watched
  <2>2. \A r \in Sids : Silence(r)'
    <3> SUFFICES ASSUME NEW r \in Sids PROVE Silence(r)'
      OBVIOUS
    <3>1. CASE r = s
      <4>1. left'[r] = Timeout /\ age'[r] = 0 /\ Missed(r)' = 0 /\ r \notin due'
        BY <2>1, <3>1 DEF Replaced, Missed, TypeOK
      <4> QED
        BY <4>1, PeriodFacts DEF Silence
    <3>2. CASE r # s
      BY <2>1, <3>2 DEF Clock, Silence, Missed, Replaced, TypeOK
    <3> QED
      BY <3>1, <3>2
  <2>3. NoPrematureEnd'
    BY <2>1 DEF Clock, NoPrematureEnd, Victims, Watch, Place, TypeOK
  <2> QED
    BY <2>2, <2>3 DEF Clock
<1>2. ASSUME NEW s \in Sids, PushCounter(s) PROVE Clock'
  <2>1. /\ Replaced(count', count, s, 0, 0 .. Limit) /\ left' = left
        /\ due' = due /\ udp' = udp /\ age' = age /\ s \notin DOMAIN count
    BY <1>2, PushCounterHeaps DEF PushCounter, Watch, Registering
  <2>2. \A r \in Sids : Missed(r)' = Missed(r)
    BY <2>1 DEF Missed, Replaced
  <2> QED
    BY <2>1, <2>2 DEF Clock, Silence, NoPrematureEnd, Victims
<1>3. ASSUME NEW s \in Sids, PopTimer(s) PROVE Clock'
  <2>1. /\ Removed(left', left, s, 0 .. Timeout) /\ count' = count
        /\ s \in DOMAIN left /\ left[s] < PerMs
        /\ due' = due \cup {s} /\ udp' = udp /\ age' = age
    BY <1>3, PopTimerHeaps DEF PopTimer, Expired
  <2>2. \A r \in Sids : Silence(r)'
    <3> SUFFICES ASSUME NEW r \in Sids PROVE Silence(r)'
      OBVIOUS
    <3>0. Missed(r)' = Missed(r)
      BY <2>1 DEF Missed
    <3>1. CASE r = s
      <4>1. r \notin DOMAIN left'
        BY <2>1, <3>1 DEF Removed
      <4>2. age[r] = MaxAge \/ left[r] + age[r] >= Timeout + Missed(r) * Period
        BY <2>1, <3>1 DEF Clock, Silence
      <4>3. age[r] = MaxAge \/ age[r] >= Missed(r) * Period + Period
        <5>1. left[r] \in Nat /\ left[r] < PerMs /\ age[r] \in Nat
          BY <2>1, <3>1, ValueTypes
        <5>2. Missed(r) * Period \in Nat
          BY ValueTypes
        <5> QED
          BY <4>2, <5>1, <5>2, PeriodFacts
      <4> QED
        BY <2>1, <3>0, <4>1, <4>3 DEF Silence
    <3>2. CASE r # s
      BY <2>1, <3>0, <3>2 DEF Clock, Silence, Removed
    <3> QED
      BY <3>1, <3>2
  <2>3. NoPrematureEnd'
    BY <2>1 DEF Clock, NoPrematureEnd, Victims
  <2> QED
    BY <2>2, <2>3 DEF Clock
<1>4. ASSUME NEW s \in Sids, TimeoutFunc(s) PROVE Clock'
  <2>1. /\ Replaced(left', left, s, Timeout, 0 .. Timeout)
        /\ s \in due /\ due' = due \ {s} /\ udp' = udp /\ age' = age
    BY <1>4, TimeoutFuncHeaps DEF TimeoutFunc
  <2>2. \A r \in Sids : Silence(r)'
    <3> SUFFICES ASSUME NEW r \in Sids PROVE Silence(r)'
      OBVIOUS
    <3>1. CASE r = s
      <4>1. left'[r] = Timeout /\ r \notin due'
        BY <2>1, <3>1 DEF Replaced
      <4>2. age[r] = MaxAge \/ age[r] >= Missed(r) * Period + Period
        BY <2>1, <3>1 DEF Clock, Silence
      <4>3. Missed(r)' = Missed(r) + 1 \/ Missed(r)' = Missed(r)
        BY <1>4, <3>1, TimeoutFuncHeaps DEF Missed, Replaced
      <4>4. Missed(r)' * Period <= Missed(r) * Period + Period /\ Missed(r)' * Period \in Nat
        BY <4>3, ValueTypes, PeriodFacts
      <4>5. age'[r] = MaxAge \/ Timeout + age'[r] >= Timeout + Missed(r)' * Period
        <5>1. /\ age[r] \in Nat /\ Timeout \in Nat /\ Period \in Nat
              /\ Missed(r) * Period \in Nat
          BY ValueTypes, PeriodFacts
        <5> QED
          BY <2>1, <4>2, <4>4, <5>1
      <4> QED
        BY <4>1, <4>5 DEF Silence
    <3>2. CASE r # s
      <4>1. Missed(r)' = Missed(r)
        BY <1>4, <3>2, TimeoutFuncHeaps DEF Missed, Replaced
      <4> QED
        BY <2>1, <3>2, <4>1 DEF Clock, Silence, Replaced
    <3> QED
      BY <3>1, <3>2
  <2>3. NoPrematureEnd'
    BY <2>1 DEF Clock, NoPrematureEnd, Victims
  <2> QED
    BY <2>2, <2>3 DEF Clock
<1>5. ASSUME NEW s \in Sids, HeartbeatReach(s) PROVE Clock'
  <2>1. /\ Removed(left', left, s, 0 .. Timeout) /\ count' = count
        /\ s \in DOMAIN count /\ count[s] >= Limit /\ udp.at = "counter"
        /\ due' = due /\ age' = age /\ udp' = [at |-> "remove", id |-> s]
    BY <1>5, HeartbeatReachHeaps DEF HeartbeatReach, AtLimit, GoTo, At
  <2>2. \A r \in Sids : Silence(r)'
    BY <2>1 DEF Clock, Silence, Missed, Removed
  <2>3. s \in DOMAIN left
    <3>1. s \in sessions \ Victims /\ reg[s] = "done" /\ due = {}
      BY <2>1 DEF Watch, NoGhostWatch, Registering, Place, Victims, Ending
    <3> QED
      BY <3>1 DEF Watch, LiveSessionWatched
  <2>4. age[s] >= Grace
    <3>1. Missed(s) = count[s] /\ count[s] \in Nat /\ count[s] * Period >= Grace
      BY <2>1, ValueTypes, PeriodFacts DEF Missed
    <3>2. age[s] = MaxAge \/ left[s] + age[s] >= Timeout + count[s] * Period
      BY <2>3, <3>1 DEF Clock, Silence
    <3>3. count[s] * Period \in Nat
      BY <3>1, PeriodFacts
    <3> QED
      BY <2>3, <3>1, <3>2, <3>3, ValueTypes, PeriodFacts
  <2>5. NoPrematureEnd'
    BY <2>1, <2>4 DEF NoPrematureEnd, Victims, Ending
  <2> QED
    BY <2>2, <2>5 DEF Clock
<1>6. CASE PopCounter
  <2>1. /\ Removed(count', count, udp.id, 0 .. Limit) /\ left' = left
        /\ udp.at = "pop" /\ due' = due /\ age' = age /\ udp' = [at |-> "counter", id |-> NoSid]
    BY <1>6, PopCounterHeaps DEF PopCounter, GoTo, At
  <2>2. udp.id \notin DOMAIN left \cup due
    BY <2>1 DEF Watch, NoGhostWatch, Victims, Ending
  <2>3. \A r \in Sids : Silence(r)'
    BY <2>1, <2>2 DEF Clock, Silence, Missed, Removed
  <2>4. NoPrematureEnd'
    BY <2>1 DEF NoPrematureEnd, Victims, Ending
  <2> QED
    BY <2>3, <2>4 DEF Clock
<1>7. ASSUME NEW s \in Sids, OnUDPMessage(s) PROVE Clock'
  <2>1. due' = due /\ due = {} /\ udp.at = "recv" /\ udp' = [at |-> "timer", id |-> NoSid]
    BY <1>7 DEF OnUDPMessage, GoTo, At, Watch, Place
  <2>2. NoPrematureEnd'
    BY <2>1 DEF NoPrematureEnd, Victims, Ending
  <2>3. CASE s \notin sessions
    <3>1. UNCHANGED <<left, due, count, age>>
      BY <1>7, <2>3 DEF OnUDPMessage
    <3> QED
      BY <2>2, <3>1 DEF Clock, Silence, Missed
  <2>4. CASE s \in sessions
    <3>1. /\ Restarted(left', left, s, Timeout, 0 .. Timeout) /\ Restarted(count', count, s, 0, 0 .. Limit)
          /\ age' = [age EXCEPT ![s] = 0]
      BY <1>7, <2>4, HeapChanges DEF OnUDPMessage, Reset
    <3> SUFFICES ASSUME NEW r \in Sids PROVE Silence(r)'
      BY <2>2 DEF Clock
    <3>2. CASE r = s
      <4>1. age'[r] = 0 /\ Missed(r)' = 0 /\ (r \in DOMAIN left' => left'[r] = Timeout)
        BY <3>1, <3>2 DEF Restarted, Missed, TypeOK
      <4> QED
        BY <2>1, <4>1, PeriodFacts DEF Silence
    <3>3. CASE r # s
      BY <2>1, <3>1, <3>3 DEF Clock, Silence, Missed, Restarted, TypeOK
    <3> QED
      BY <3>2, <3>3
  <2> QED
    BY <2>3, <2>4
<1>8. CASE Tick
  <2>1. /\ due' = due /\ count' = count /\ udp' = udp
        /\ DOMAIN left' = DOMAIN left
        /\ \A r \in DOMAIN left : left'[r] = IF left[r] > 0 THEN left[r] - 1 ELSE 0
        /\ \A r \in Sids : age'[r] = IF r \in sessions /\ age[r] < MaxAge
                                     THEN age[r] + 1 ELSE age[r]
    BY <1>8 DEF Tick
  <2>2. \A r \in Sids : Silence(r)'
    <3> SUFFICES ASSUME NEW r \in Sids PROVE Silence(r)'
      OBVIOUS
    <3>1. Missed(r)' = Missed(r)
      BY <2>1 DEF Missed
    <3>2. CASE age[r] = MaxAge
      <4>1. ~ (age[r] < MaxAge)
        BY <3>2, PeriodFacts
      <4>2. age'[r] = MaxAge
        BY <2>1, <3>2, <4>1
      <4> QED
        BY <4>2 DEF Silence
    <3>3. CASE age[r] # MaxAge /\ r \in DOMAIN left \cup due
      <4>1. r \in sessions
        BY <3>3 DEF Watch, NoGhostWatch
      <4>2. age'[r] = age[r] + 1
        <5>1. age[r] \in Nat /\ age[r] <= MaxAge /\ MaxAge \in Nat
          BY ValueTypes, PeriodFacts
        <5>2. age[r] < MaxAge
          BY <3>3, <5>1
        <5> QED
          BY <2>1, <4>1, <5>2
      <4>3. r \in DOMAIN left => left'[r] >= left[r] - 1 /\ left'[r] \in Nat
        BY <2>1, ValueTypes
      <4>4. /\ r \in DOMAIN left => left[r] + age[r] >= Timeout + Missed(r) * Period
            /\ r \in due => age[r] >= Missed(r) * Period + Period
        BY <3>3 DEF Clock, Silence
      <4> QED
        BY <2>1, <3>1, <4>2, <4>3, <4>4, ValueTypes, PeriodFacts DEF Silence
    <3>4. CASE r \notin DOMAIN left \cup due
      BY <2>1, <3>4 DEF Silence
    <3> QED
      BY <3>2, <3>3, <3>4
  <2>3. NoPrematureEnd'
    <3> SUFFICES ASSUME NEW r \in Victims PROVE age'[r] >= Grace
      BY <2>1 DEF NoPrematureEnd, Victims
    <3>1. r \in Sids /\ age[r] >= Grace
      BY DEF Victims, Ending, TypeOK, Clock, NoPrematureEnd
    <3> QED
      BY <2>1, <3>1, ValueTypes, PeriodFacts
  <2> QED
    BY <2>2, <2>3 DEF Clock
<1>9. ASSUME NEW s \in Sids,
             \/ CreateSessionNode(s) \/ DeleteSessionNodes(s)
             \/ Heartbeat(s) \/ LoseDatagram(s) \/ FallSilent(s)
      PROVE  Clock'
  BY <1>9, QuietClock
  DEF CreateSessionNode, DeleteSessionNodes, Heartbeat, LoseDatagram, FallSilent, Victims
<1>10. CASE TimerDone \/ CallbacksDone \/ CounterDone \/ RemoveSession \/ RemoveEphemeral
            \/ RecvTimeout
  BY <1>10, QuietClock
  DEF TimerDone, CallbacksDone, CounterDone, RemoveSession, RemoveEphemeral, RecvTimeout,
      GoTo, At, Victims, Ending
<1>11. CASE UNCHANGED vars
  BY <1>11, QuietClock DEF vars, Victims
<1>12. ASSUME NEW s \in Sids, Add(s) PROVE Clock'
  <2>1. /\ UNCHANGED <<left, due, count, udp>> /\ age' = [age EXCEPT ![s] = 0]
        /\ s \notin sessions
    BY <1>12 DEF Add, Watch, Registering
  <2>2. s \notin DOMAIN left \cup due \cup Victims
    BY <2>1, <1>12 DEF Add, Watch, NoGhostWatch, Registering, Place, Victims
  <2> QED
    BY <2>1, <2>2 DEF Clock, Silence, Missed, NoPrematureEnd, Victims, TypeOK
<1> QED
  BY <1>1, <1>2, <1>3, <1>4, <1>5, <1>6, <1>7, <1>8, <1>9, <1>10, <1>11, <1>12
  DEF Next, UdpStep, Register

-----------------------------------------------------------------------------
(* The theorems *)

\* Every reachable state satisfies the inductive invariant.
THEOREM Invariance == Spec => []IInv
<1>1. IInv /\ [Next]_vars => IInv'
  BY TypeStep, WatchStep, CountedStep, ClockStep DEF IInv
<1> QED
  BY InitHolds, <1>1, PTL DEF Spec

\* The types hold; in particular no count passes max_heartbeat.
THEOREM TypeCorrect == Spec => []TypeOK
BY Invariance, PTL DEF IInv

\* No session is ended before max_heartbeat timeouts of silence, less the fraction of
\* a millisecond that tick() drops from each.
THEOREM EndNotPremature == Spec => []NoPrematureEnd
<1>1. IInv => NoPrematureEnd
  BY DEF IInv, Clock
<1> QED
  BY Invariance, <1>1, PTL

\* A registered session is watched until it is ended, and no timer, callback or
\* count outlives its session.
THEOREM ExactlyWatched == Spec => []WatchedExactly
<1>1. IInv => WatchedExactly
  BY DEF IInv, Watch, WatchedExactly
<1> QED
  BY Invariance, <1>1, PTL

-----------------------------------------------------------------------------
(* The server implements the lease *)

LEMMA LeaseInit == Init => Lease!Init
BY DEF Init, Lease!Init, Phase

LEMMA LeaseStutter ==
    ASSUME UNCHANGED <<sessions, age>>, \A s \in Sids : reg'[s] = "none" <=> reg[s] = "none"
    PROVE  UNCHANGED Lease!vars
BY DEF Lease!vars, Phase

\* Which step of the lease each step of the server is.
LEMMA LeaseStep == ASSUME IInv, [Next]_vars PROVE [Lease!Next]_(Lease!vars)
<1> USE DEF IInv
<1>1. ASSUME NEW s \in Sids, Add(s) PROVE Lease!Open(s)
  BY <1>1 DEF Add, Lease!Open, Phase, TypeOK, Watch, Registering
<1>2. ASSUME NEW s \in Sids, PushTimer(s) PROVE Lease!Renew(s)
  BY <1>2 DEF PushTimer, Lease!Renew, Phase, TypeOK, Watch, Registering
<1>3. ASSUME NEW s \in Sids, OnUDPMessage(s) PROVE Lease!Renew(s) \/ UNCHANGED Lease!vars
  BY <1>3 DEF OnUDPMessage, Lease!Renew, Lease!vars, Phase, TypeOK
<1>4. CASE RemoveSession
  <2>1. udp.id \in Sids /\ udp.id \in sessions /\ age[udp.id] >= Grace
    BY <1>4 DEF RemoveSession, At, Watch, Place, TypeOK, Clock, NoPrematureEnd, Victims, Ending
  <2>2. reg[udp.id] # "none"
    BY <2>1 DEF Watch, Registering
  <2>3. Lease!Close(udp.id)
    BY <1>4, <2>1, <2>2 DEF RemoveSession, Lease!Close, Phase
  <2> QED
    BY <2>1, <2>3 DEF Lease!Next
<1>5. CASE Tick
  BY <1>5 DEF Tick, Lease!Next, Lease!Pass, Phase
<1>6. ASSUME NEW s \in Sids, PushCounter(s) PROVE UNCHANGED Lease!vars
  BY <1>6, LeaseStutter DEF PushCounter, TypeOK
<1>7. ASSUME NEW s \in Sids,
             \/ CreateSessionNode(s) \/ DeleteSessionNodes(s) \/ PopTimer(s) \/ TimeoutFunc(s)
             \/ HeartbeatReach(s) \/ Heartbeat(s) \/ LoseDatagram(s) \/ FallSilent(s)
      PROVE  UNCHANGED Lease!vars
  BY <1>7, LeaseStutter
  DEF CreateSessionNode, DeleteSessionNodes, PopTimer, TimeoutFunc, HeartbeatReach,
      Heartbeat, LoseDatagram, FallSilent
<1>8. CASE TimerDone \/ CallbacksDone \/ CounterDone \/ RemoveEphemeral \/ PopCounter
           \/ RecvTimeout \/ UNCHANGED vars
  BY <1>8, LeaseStutter
  DEF TimerDone, CallbacksDone, CounterDone, RemoveEphemeral, PopCounter, RecvTimeout, vars
<1> QED
  BY <1>1, <1>2, <1>3, <1>4, <1>5, <1>6, <1>7, <1>8
  DEF Next, UdpStep, Register, Lease!Next

\* The server implements SessionLease.
THEOREM LeaseImplemented == Spec => ImplementsLease
<1>1. IInv /\ [Next]_vars => [Lease!Next]_(Lease!vars)
  BY LeaseStep
<1> QED
  BY Invariance, LeaseInit, <1>1, PTL DEF Spec, ImplementsLease, Lease!Spec

-----------------------------------------------------------------------------
(* A silent session *)

\* The client of s has sent its last heartbeat, and none is on its way.
Doomed(s) == reg[s] = "done" /\ s \in sessions /\ s \in silent /\ s \notin inflight

\* How far s is from its next timeout; 0 once its timer has fired or is gone.
ToExpiry(s) == IF s \in DOMAIN left THEN left[s] + 1 ELSE 0

\* A step takes s no further from its end: it ends, it has one timeout more, or as
\* many and its timer has not been set back.
NoFurther(s) ==
    \/ s \notin sessions'
    \/ /\ Doomed(s)'
       /\ \/ count'[s] > count[s]
          \/ count'[s] = count[s] /\ ToExpiry(s)' <= ToExpiry(s)

LEMMA DoomedFacts ==
    ASSUME IInv, NEW s \in Sids, Doomed(s)
    PROVE  /\ s \in DOMAIN count /\ count[s] \in Nat
           /\ s \in DOMAIN left => left[s] \in Nat
           /\ ToExpiry(s) \in Nat
<1>1. s \in DOMAIN count
  BY DEF IInv, Watch, Place, LiveSessionWatched, Doomed, Victims
<1>2. count[s] \in Nat /\ (s \in DOMAIN left => left[s] \in Nat)
  BY <1>1, PeriodFacts DEF IInv, TypeOK
<1> QED
  BY <1>1, <1>2 DEF ToExpiry

\* What concerns neither the heaps nor the heartbeats of s changes nothing for it.
LEMMA SameHeaps ==
    ASSUME IInv, NEW s \in Sids, Doomed(s), UNCHANGED <<left, count, sessions>>,
           reg'[s] = "done", s \in silent', s \notin inflight'
    PROVE  NoFurther(s)
BY DoomedFacts DEF NoFurther, Doomed, ToExpiry

\* An entry of another session changes nothing for s.
LEMMA OtherEntry ==
    ASSUME IInv, NEW s \in Sids, Doomed(s), UNCHANGED sessions,
           reg'[s] = "done", s \in silent', s \notin inflight',
           count'[s] = count[s],
           s \in DOMAIN left' => s \in DOMAIN left /\ left'[s] = left[s]
    PROVE  NoFurther(s)
<1>1. ToExpiry(s)' <= ToExpiry(s)
  BY DoomedFacts DEF ToExpiry
<1> QED
  BY <1>1 DEF NoFurther, Doomed

LEMMA NoFurtherStep ==
    ASSUME IInv, [Next]_vars, NEW s \in Sids, Doomed(s)
    PROVE  NoFurther(s)
<1>0. /\ TypeOK /\ Counted /\ s \in DOMAIN count /\ count[s] \in Nat
      /\ s \in DOMAIN left => left[s] \in Nat
  BY DoomedFacts DEF IInv
<1> USE DEF Doomed
<1>1. ASSUME NEW r \in Sids, Add(r) PROVE NoFurther(s)
  BY <1>0, <1>1, SameHeaps, DoomedFacts DEF Add, NoFurther, ToExpiry, TypeOK
<1>2. ASSUME NEW r \in Sids, PushTimer(r) PROVE NoFurther(s)
  <2>1. r # s /\ reg'[s] = "done" /\ UNCHANGED <<sessions, silent, inflight>>
    BY <1>0, <1>2 DEF PushTimer, TypeOK
  <2>2. Replaced(left', left, r, Timeout, 0 .. Timeout) /\ count' = count
    BY <1>0, <1>2, PushTimerHeaps
  <2> QED
    BY <2>1, <2>2, OtherEntry DEF Replaced
<1>3. ASSUME NEW r \in Sids, PushCounter(r) PROVE NoFurther(s)
  <2>1. r # s /\ reg'[s] = "done" /\ UNCHANGED <<sessions, silent, inflight>>
    BY <1>0, <1>3 DEF PushCounter, TypeOK
  <2>2. Replaced(count', count, r, 0, 0 .. Limit) /\ left' = left
    BY <1>0, <1>3, PushCounterHeaps
  <2> QED
    BY <1>0, <2>1, <2>2, OtherEntry DEF Replaced
<1>4. ASSUME NEW r \in Sids,
             CreateSessionNode(r) \/ DeleteSessionNodes(r) \/ LoseDatagram(r) \/ FallSilent(r)
      PROVE  NoFurther(s)
  BY <1>4, SameHeaps DEF CreateSessionNode, DeleteSessionNodes, LoseDatagram, FallSilent
<1>5. ASSUME NEW r \in Sids, Heartbeat(r) PROVE NoFurther(s)
  <2>1. r # s
    BY <1>5 DEF Heartbeat
  <2> QED
    BY <1>5, <2>1, SameHeaps DEF Heartbeat
<1>6. ASSUME NEW r \in Sids, PopTimer(r) PROVE NoFurther(s)
  <2>1. Removed(left', left, r, 0 .. Timeout) /\ count' = count
    BY <1>0, <1>6, PopTimerHeaps
  <2>2. UNCHANGED <<reg, sessions, silent, inflight>>
    BY <1>6 DEF PopTimer
  <2> QED
    BY <2>1, <2>2, OtherEntry DEF Removed
<1>7. ASSUME NEW r \in Sids, HeartbeatReach(r) PROVE NoFurther(s)
  <2>1. Removed(left', left, r, 0 .. Timeout) /\ count' = count
    BY <1>0, <1>7, HeartbeatReachHeaps
  <2>2. UNCHANGED <<reg, sessions, silent, inflight>>
    BY <1>7 DEF HeartbeatReach
  <2> QED
    BY <2>1, <2>2, OtherEntry DEF Removed
\* The timer starts anew, but the timeout is counted.
<1>8. ASSUME NEW r \in Sids, TimeoutFunc(r) PROVE NoFurther(s)
  <2>0. UNCHANGED <<reg, sessions, silent, inflight>>
    BY <1>8 DEF TimeoutFunc
  <2>1. CASE r = s
    <3>1. Replaced(count', count, s, count[s] + 1, 0 .. Limit)
      BY <1>0, <1>8, <2>1, TimeoutFuncHeaps
    <3>2. count'[s] > count[s]
      BY <1>0, <3>1 DEF Replaced
    <3> QED
      BY <2>0, <3>2 DEF NoFurther
  <2>2. CASE r # s
    <3>1. Replaced(left', left, r, Timeout, 0 .. Timeout)
      BY <1>0, <1>8, TimeoutFuncHeaps
    <3>2. count'[s] = count[s]
      BY <1>0, <1>8, <2>2, TimeoutFuncHeaps DEF Replaced
    <3> QED
      BY <2>0, <2>2, <3>1, <3>2, OtherEntry DEF Replaced
  <2> QED
    BY <2>1, <2>2
\* The datagram is of another session.
<1>9. ASSUME NEW r \in Sids, OnUDPMessage(r) PROVE NoFurther(s)
  <2>1. r # s /\ UNCHANGED <<reg, sessions, silent>> /\ s \notin inflight'
    BY <1>9 DEF OnUDPMessage
  <2>2. count'[s] = count[s] /\ (s \in DOMAIN left' => s \in DOMAIN left /\ left'[s] = left[s])
    BY <1>0, <1>9, <2>1, OnUDPMessageHeaps DEF Restarted
  <2> QED
    BY <2>1, <2>2, OtherEntry
<1>10. CASE Tick
  <2>1. ToExpiry(s)' <= ToExpiry(s)
    BY <1>0, <1>10 DEF Tick, ToExpiry
  <2> QED
    BY <1>10, <2>1 DEF Tick, NoFurther
<1>11. CASE RemoveSession
  BY <1>11, <1>0 DEF RemoveSession, NoFurther, ToExpiry
\* The session popped has been removed before.
<1>12. CASE PopCounter
  <2>1. udp.id # s
    BY <1>12 DEF PopCounter, At, IInv, Watch, Place
  <2>2. Removed(count', count, udp.id, 0 .. Limit) /\ left' = left
    BY <1>0, <1>12, PopCounterHeaps
  <2>3. UNCHANGED <<reg, sessions, silent, inflight>>
    BY <1>12 DEF PopCounter
  <2> QED
    BY <1>0, <2>1, <2>2, <2>3, OtherEntry DEF Removed
<1>13. CASE TimerDone \/ CallbacksDone \/ CounterDone \/ RemoveEphemeral \/ RecvTimeout
            \/ UNCHANGED vars
  BY <1>13, SameHeaps
  DEF TimerDone, CallbacksDone, CounterDone, RemoveEphemeral, RecvTimeout, vars
<1> QED
  BY <1>1, <1>2, <1>3, <1>4, <1>5, <1>6, <1>7, <1>8, <1>9, <1>10, <1>11, <1>12, <1>13
  DEF Next, UdpStep, Register

\* Once a client is silent and its last datagram has arrived or is lost, nothing sets
\* its session back, whatever else the server is doing: its timer starts anew only
\* with a timeout counted, and its count is not reset until the session has ended.
THEOREM NoReprieve == Spec => [][\A s \in Sids : Doomed(s) => NoFurther(s)]_vars
<1>1. IInv /\ [Next]_vars => [\A s \in Sids : Doomed(s) => NoFurther(s)]_vars
  BY NoFurtherStep
<1> QED
  BY <1>1, Invariance, PTL DEF Spec
=============================================================================
