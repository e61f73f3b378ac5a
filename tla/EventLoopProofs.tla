-------------------------- MODULE EventLoopProofs --------------------------
(***************************************************************************)
(* The event loop never sleeps over work, and is an executor, for any      *)
(* threads, channels and functors.  NoLostWakeup speaks of poll alone; it  *)
(* holds because in every place from which poll is reached without another *)
(* swap of the queue, whatever is queued is signalled (Covered).  A loop   *)
(* in its thread, module LoopThread, does no other steps than the loop     *)
(* alone, so the same is true of it.                                       *)
(***************************************************************************)
EXTENDS LoopThread, TLAPS

\* The places from which the thread comes to poll before the queue is swapped.
Unswapped == {"start", "poll", "run", "functor", "test"}

Covered ==
    /\ pc \in Unswapped /\ pending # <<>> => Signalled
    /\ pc = "poll" /\ quit => Signalled

\* Where the batch and the functor that runs are.
Running ==
    /\ pc \notin {"run", "functor"} => batch = <<>>
    /\ current # NoFunctor <=> pc = "functor"

IInv == TypeOK /\ Covered /\ Running

-----------------------------------------------------------------------------
(* Sequences *)

LEMMA HeadTail ==
    ASSUME NEW S, NEW q \in Seq(S), q # <<>>
    PROVE  Head(q) \in S /\ Tail(q) \in Seq(S)
OBVIOUS

\* Taking the first element off the batch takes it off the whole queue.
LEMMA ConcatHeadTail ==
    ASSUME NEW S, NEW b \in Seq(S), NEW p \in Seq(S), b # <<>>
    PROVE  /\ b \o p # <<>>
           /\ Head(b \o p) = Head(b)
           /\ Tail(b \o p) = Tail(b) \o p
OBVIOUS

\* Appending to the pending functors appends to the whole queue.
LEMMA ConcatAppend ==
    ASSUME NEW S, NEW b \in Seq(S), NEW p \in Seq(S), NEW f \in S
    PROVE  b \o Append(p, f) = Append(b \o p, f)
OBVIOUS

LEMMA ConcatEmpty ==
    ASSUME NEW S, NEW p \in Seq(S)
    PROVE  <<>> \o p = p /\ p \o <<>> = p
OBVIOUS

-----------------------------------------------------------------------------
(* The invariant *)

LEMMA InitIInv == Init => IInv
<1> SUFFICES ASSUME Init PROVE IInv
  OBVIOUS
<1>1. TypeOK
  <2>1. <<>> \in Seq(Functors)
    OBVIOUS
  <2>2. pc \in Places /\ ~ calling /\ calling \in BOOLEAN /\ quit \in BOOLEAN /\ wake \in BOOLEAN
    BY DEF Init, Places
  <2>3. pc \notin {"swap", "run", "functor"}
    BY DEF Init
  <2> QED
    BY <2>1, <2>2, <2>3 DEF Init, TypeOK
<1>2. Covered
  BY DEF Init, Covered
<1>3. Running
  BY DEF Init, Running
<1> QED
  BY <1>1, <1>2, <1>3 DEF IInv

LEMMA TypeStep == ASSUME IInv, [Next]_vars PROVE TypeOK'
<1> USE DEF IInv, TypeOK
<1>1. ASSUME Start PROVE TypeOK'
  BY <1>1 DEF Start, Go, Places
<1>2. ASSUME NEW reported \in SUBSET (Channels \cup {Wakeup}), Poll(reported) PROVE TypeOK'
  BY <1>2 DEF Poll, Go, Places
<1>3. ASSUME PollNothing PROVE TypeOK'
  BY <1>3 DEF PollNothing, Go, Places
<1>4. ASSUME HandleRead PROVE TypeOK'
  BY <1>4 DEF HandleRead, Go, Places
<1>5. ASSUME NEW ch \in Channels, HandleEvent(ch) PROVE TypeOK'
  BY <1>5 DEF HandleEvent, Go, Places
<1>6. ASSUME CallbackReturns PROVE TypeOK'
  BY <1>6 DEF CallbackReturns, Go, Places
<1>7. ASSUME DoPendingFunctors PROVE TypeOK'
  BY <1>7 DEF DoPendingFunctors, Go, Places
<1>8. ASSUME Swap PROVE TypeOK'
  BY <1>8 DEF Swap, Go, Places
<1>9. ASSUME RunFunctor PROVE TypeOK'
  BY <1>9, HeadTail DEF RunFunctor, Go, Places
<1>10. ASSUME FunctorReturns PROVE TypeOK'
  BY <1>10 DEF FunctorReturns, Go, Places
<1>11. ASSUME FunctorsDone PROVE TypeOK'
  BY <1>11 DEF FunctorsDone, Go, Places
<1>12. ASSUME Test PROVE TypeOK'
  BY <1>12 DEF Test, Go, Places
<1>13. ASSUME NEW t \in Threads, WakeUp(t) PROVE TypeOK'
  BY <1>13 DEF WakeUp
<1>14. ASSUME NEW t \in Threads, Quit(t) PROVE TypeOK'
  BY <1>14 DEF Quit, Calls, ThenWake, IsInLoopThread, NeedsWakeup, Threads
<1>15. ASSUME NEW t \in Threads, NEW f \in Functors, QueueInLoop(t, f) PROVE TypeOK'
  BY <1>15 DEF QueueInLoop, Calls, ThenWake, IsInLoopThread, NeedsWakeup, Threads
<1>16. ASSUME UNCHANGED vars PROVE TypeOK'
  BY <1>16 DEF vars
<1> QED
  BY <1>1, <1>2, <1>3, <1>4, <1>5, <1>6, <1>7, <1>8, <1>9, <1>10, <1>11, <1>12, <1>13, <1>14, <1>15, <1>16 DEF Next, LoopStep

LEMMA CoveredStep == ASSUME IInv, [Next]_vars PROVE Covered'
<1> USE DEF IInv, TypeOK, Covered
<1>1. ASSUME Start PROVE Covered'
  BY <1>1 DEF Start, Go, Unswapped, Signalled
<1>2. ASSUME NEW reported \in SUBSET (Channels \cup {Wakeup}), Poll(reported) PROVE Covered'
  BY <1>2 DEF Poll, Go, Unswapped, Signalled
<1>3. ASSUME PollNothing PROVE Covered'
  BY <1>3 DEF PollNothing, Go, Unswapped, Signalled
<1>4. ASSUME HandleRead PROVE Covered'
  BY <1>4 DEF HandleRead, Go, Unswapped, Signalled
<1>5. ASSUME NEW ch \in Channels, HandleEvent(ch) PROVE Covered'
  BY <1>5 DEF HandleEvent, Go, Unswapped, Signalled
<1>6. ASSUME CallbackReturns PROVE Covered'
  BY <1>6 DEF CallbackReturns, Go, Unswapped, Signalled
<1>7. ASSUME DoPendingFunctors PROVE Covered'
  BY <1>7 DEF DoPendingFunctors, Go, Unswapped, Signalled
<1>8. ASSUME Swap PROVE Covered'
  BY <1>8 DEF Swap, Go, Unswapped, Signalled
<1>9. ASSUME RunFunctor PROVE Covered'
  BY <1>9 DEF RunFunctor, Go, Unswapped, Signalled
<1>10. ASSUME FunctorReturns PROVE Covered'
  BY <1>10 DEF FunctorReturns, Go, Unswapped, Signalled
<1>11. ASSUME FunctorsDone PROVE Covered'
  BY <1>11 DEF FunctorsDone, Go, Unswapped, Signalled
<1>12. ASSUME Test PROVE Covered'
  BY <1>12 DEF Test, Go, Unswapped, Signalled
<1>13. ASSUME NEW t \in Threads, WakeUp(t) PROVE Covered'
  BY <1>13 DEF WakeUp, Unswapped, Signalled
<1>14. ASSUME NEW t \in Threads, Quit(t) PROVE Covered'
  BY <1>14 DEF Quit, Go, Unswapped, Signalled, Calls, ThenWake, IsInLoopThread, NeedsWakeup, Threads
<1>15. ASSUME NEW t \in Threads, NEW f \in Functors, QueueInLoop(t, f) PROVE Covered'
  BY <1>15 DEF QueueInLoop, Go, Unswapped, Signalled, Calls, ThenWake, IsInLoopThread, NeedsWakeup, Threads
<1>16. ASSUME UNCHANGED vars PROVE Covered'
  BY <1>16 DEF vars, Go, Unswapped, Signalled
<1> QED
  BY <1>1, <1>2, <1>3, <1>4, <1>5, <1>6, <1>7, <1>8, <1>9, <1>10, <1>11, <1>12, <1>13, <1>14, <1>15, <1>16 DEF Next, LoopStep

LEMMA RunningStep == ASSUME IInv, [Next]_vars PROVE Running'
<1> USE DEF IInv, TypeOK, Running
<1>1. ASSUME Start PROVE Running'
  BY <1>1 DEF Start, Go
<1>2. ASSUME NEW reported \in SUBSET (Channels \cup {Wakeup}), Poll(reported) PROVE Running'
  BY <1>2 DEF Poll, Go
<1>3. ASSUME PollNothing PROVE Running'
  BY <1>3 DEF PollNothing, Go
<1>4. ASSUME HandleRead PROVE Running'
  BY <1>4 DEF HandleRead, Go
<1>5. ASSUME NEW ch \in Channels, HandleEvent(ch) PROVE Running'
  BY <1>5 DEF HandleEvent, Go
<1>6. ASSUME CallbackReturns PROVE Running'
  BY <1>6 DEF CallbackReturns, Go
<1>7. ASSUME DoPendingFunctors PROVE Running'
  BY <1>7 DEF DoPendingFunctors, Go
<1>8. ASSUME Swap PROVE Running'
  BY <1>8 DEF Swap, Go
<1>9. ASSUME RunFunctor PROVE Running'
  BY <1>9, HeadTail, FunctorsAssumption DEF RunFunctor, Go
<1>10. ASSUME FunctorReturns PROVE Running'
  BY <1>10 DEF FunctorReturns, Go
<1>11. ASSUME FunctorsDone PROVE Running'
  BY <1>11 DEF FunctorsDone, Go
<1>12. ASSUME Test PROVE Running'
  BY <1>12 DEF Test, Go
<1>13. ASSUME NEW t \in Threads, WakeUp(t) PROVE Running'
  BY <1>13 DEF WakeUp
<1>14. ASSUME NEW t \in Threads, Quit(t) PROVE Running'
  BY <1>14 DEF Quit
<1>15. ASSUME NEW t \in Threads, NEW f \in Functors, QueueInLoop(t, f) PROVE Running'
  BY <1>15 DEF QueueInLoop
<1>16. ASSUME UNCHANGED vars PROVE Running'
  BY <1>16 DEF vars
<1> QED
  BY <1>1, <1>2, <1>3, <1>4, <1>5, <1>6, <1>7, <1>8, <1>9, <1>10, <1>11, <1>12, <1>13, <1>14, <1>15, <1>16 DEF Next, LoopStep

\* The invariant holds in every state of every behaviour.
THEOREM Invariance == Spec => []IInv
<1>1. IInv /\ [Next]_vars => IInv'
  BY TypeStep, CoveredStep, RunningStep DEF IInv
<1> QED
  BY <1>1, InitIInv, PTL DEF Spec

\* The loop's variables keep their types, and m_callingPendingFunctors is up
\* exactly while functors are taken and run.
THEOREM TypeCorrect == Spec => []TypeOK
<1>1. IInv => TypeOK
  BY DEF IInv
<1> QED
  BY <1>1, Invariance, PTL

\* The thread is never at poll with functors queued or told to quit without the
\* eventfd being readable or about to be.
THEOREM WakeupNotLost == Spec => []NoLostWakeup
<1>1. IInv => NoLostWakeup
  BY DEF IInv, Covered, NoLostWakeup, Unswapped
<1> QED
  BY <1>1, Invariance, PTL

-----------------------------------------------------------------------------
(* The refinement *)

\* Every step is a step of the executor or changes nothing that it knows of.
LEMMA ExecStep == ASSUME IInv, [Next]_vars PROVE [Exec!Next]_Exec!vars
<1> USE DEF IInv, TypeOK, Exec!vars
<1>1. ASSUME NEW t \in Threads, NEW f \in Functors, QueueInLoop(t, f)
      PROVE  Exec!Submit(f)
  BY <1>1, ConcatAppend DEF QueueInLoop, Exec!Submit
<1>2. CASE RunFunctor
  <2>1. current = NoFunctor
    BY <1>2 DEF RunFunctor, Go, Running
  <2>2. Exec!Begin
    BY <1>2, <2>1, ConcatHeadTail DEF RunFunctor, Exec!Begin
  <2> QED
    BY <2>2 DEF Exec!Next
<1>3. CASE FunctorReturns
  BY <1>3 DEF FunctorReturns, Go, Running, Exec!Next, Exec!End
<1>4. CASE Swap
  <2>1. batch = <<>>
    BY <1>4 DEF Swap, Go, Running
  <2>2. batch' \o pending' = batch \o pending
    BY <1>4, <2>1, ConcatEmpty DEF Swap
  <2> QED
    BY <1>4, <2>2 DEF Swap
<1>5. ASSUME UNCHANGED <<fresh, pending, batch, current>>
      PROVE  UNCHANGED Exec!vars
  BY <1>5
<1>6. CASE Start \/ PollNothing \/ HandleRead \/ CallbackReturns \/ DoPendingFunctors
           \/ FunctorsDone \/ Test
  BY <1>5, <1>6 DEF Start, PollNothing, HandleRead, CallbackReturns, DoPendingFunctors,
                    FunctorsDone, Test
<1>7. ASSUME NEW reported \in SUBSET (Channels \cup {Wakeup}), Poll(reported)
      PROVE  UNCHANGED Exec!vars
  BY <1>5, <1>7 DEF Poll
<1>8. ASSUME NEW ch \in Channels, HandleEvent(ch) PROVE UNCHANGED Exec!vars
  BY <1>5, <1>8 DEF HandleEvent
<1>9. ASSUME NEW t \in Threads, WakeUp(t) \/ Quit(t) PROVE UNCHANGED Exec!vars
  BY <1>5, <1>9 DEF WakeUp, Quit
<1>10. CASE UNCHANGED vars
  BY <1>5, <1>10 DEF vars
<1> QED
  BY <1>1, <1>2, <1>3, <1>4, <1>6, <1>7, <1>8, <1>9, <1>10 DEF Next, LoopStep, Exec!Next

\* The loop implements the executor: functors run on its thread one at a time,
\* each once, in the order in which they were queued.
THEOREM ExecutorImplemented == Spec => ImplementsExecutor
<1>1. Init => Exec!Init
  BY ConcatEmpty DEF Init, Exec!Init
<1>2. IInv /\ [Next]_vars => [Exec!Next]_Exec!vars
  BY ExecStep
<1> QED
  BY <1>1, <1>2, Invariance, PTL DEF Spec, ImplementsExecutor, Exec!Spec

-----------------------------------------------------------------------------
(* The loop in its thread *)

LEMMA LoopsStep == ASSUME Loops PROVE Next
BY DEF Loops, Next

LEMMA CallStep == ASSUME NEW t \in Threads, Call(t) \/ FinishCall(t) PROVE Next
BY DEF Call, FinishCall, Next

LEMMA QuitStep == ASSUME QuitLoop PROVE Next
BY OwnerAssumption DEF QuitLoop, Next, Threads

LEMMA ThreadStepIsStep == ASSUME [ThreadNext]_allVars PROVE [Next]_vars
<1>1. CASE UNCHANGED allVars
  BY <1>1 DEF allVars
<1>2. CASE StartThread \/ SpuriousWakeup \/ Destroy \/ SemWait \/ Look \/ Join
  BY <1>2 DEF StartThread, SpuriousWakeup, Destroy, SemWait, Look, Join
<1>3. CASE SemPost \/ MakeLoop \/ Publish \/ Unpublish \/ DestroyLoop
  BY <1>3 DEF SemPost, MakeLoop, Publish, Unpublish, DestroyLoop
<1>4. CASE Loops \/ QuitLoop \/ \E t \in Threads : Call(t) \/ FinishCall(t)
  BY <1>4, LoopsStep, CallStep, QuitStep
<1> QED
  BY <1>1, <1>2, <1>3, <1>4 DEF ThreadNext, OwnerStep

\* The loop in its thread is the loop that EventLoop describes: nothing that the
\* owner or the thread does around loop() takes a step that the loop does not know.
THEOREM LoopImplemented == ThreadSpec => Spec
<1>1. ThreadInit => Init
  BY DEF ThreadInit
<1>2. [ThreadNext]_allVars => [Next]_vars
  BY ThreadStepIsStep
<1> QED
  BY <1>1, <1>2, PTL DEF ThreadSpec, Spec

\* Where the owner, the thread and m_loop are.
ThreadPlaces ==
    /\ stage \in {"none", "spawned", "named", "built", "looping", "unpublished", "over"}
    /\ own \in {"out", "sem", "look", "asleep", "has", "quitting", "joining", "gone"}
    /\ mloop \in BOOLEAN /\ (mloop <=> stage = "looping")
    /\ (own = "out" <=> stage = "none")
    /\ pc # "start" => stage \notin {"none", "spawned", "named", "built"}

LEMMA ThreadPlacesStep == ASSUME ThreadPlaces, [ThreadNext]_allVars PROVE ThreadPlaces'
<1> USE DEF ThreadPlaces, OwnerGoes, ThreadGoes
<1>1. CASE UNCHANGED allVars
  BY <1>1 DEF allVars, vars, thread
<1>2. CASE StartThread \/ SpuriousWakeup \/ Destroy \/ SemWait \/ Look \/ Join
  BY <1>2 DEF StartThread, SpuriousWakeup, Destroy, SemWait, Look, Join, vars
<1>3. CASE SemPost \/ MakeLoop \/ DestroyLoop
  BY <1>3 DEF SemPost, MakeLoop, DestroyLoop, vars
<1>4. CASE Publish \/ Unpublish
  BY <1>4 DEF Publish, Unpublish, vars
<1>5. CASE QuitLoop
  BY <1>5 DEF QuitLoop, Quit
<1>6. CASE Loops
  BY <1>6 DEF Loops, thread
<1>7. ASSUME NEW t \in Threads, Call(t) \/ FinishCall(t) PROVE ThreadPlaces'
  <2>1. UNCHANGED <<pc, stage, own, mloop>>
    BY <1>7 DEF Call, FinishCall, Quit, QueueInLoop, WakeUp, thread
  <2> QED
    BY <2>1
<1> QED
  BY <1>1, <1>2, <1>3, <1>4, <1>5, <1>6, <1>7 DEF ThreadNext, OwnerStep

\* m_loop is set exactly while the loop can be used, and the thread is inside loop()
\* only then, for any other callers, channels and functors.
THEOREM ThreadTypeCorrect == ThreadSpec => []ThreadTypeOK
<1>1. ThreadInit => ThreadPlaces
  BY DEF ThreadInit, Init, ThreadPlaces
<1>2. ThreadPlaces /\ [ThreadNext]_allVars => ThreadPlaces'
  BY ThreadPlacesStep
<1>3. TypeOK /\ ThreadPlaces => ThreadTypeOK
  BY DEF ThreadPlaces, ThreadTypeOK
<1> QED
  BY <1>1, <1>2, <1>3, LoopImplemented, TypeCorrect, PTL DEF ThreadSpec

\* A loop in its thread loses no wakeup.
THEOREM ThreadWakeupNotLost == ThreadSpec => []NoLostWakeup
BY LoopImplemented, WakeupNotLost, PTL

\* A loop in its thread is an executor.
THEOREM ThreadExecutorImplemented == ThreadSpec => ImplementsExecutor
BY LoopImplemented, ExecutorImplemented, PTL

-----------------------------------------------------------------------------
(* The owner is notified *)

\* A loop stops only when it has been told to quit.
StopsToldSo == pc = "stopped" => quit

LEMMA StopsToldSoStep == ASSUME StopsToldSo, [Next]_vars PROVE StopsToldSo'
<1> USE DEF StopsToldSo, Go
<1>1. ASSUME Start \/ PollNothing \/ Test \/ FunctorsDone PROVE StopsToldSo'
  BY <1>1 DEF Start, PollNothing, Test, FunctorsDone
<1>2. ASSUME HandleRead \/ CallbackReturns \/ DoPendingFunctors \/ Swap PROVE StopsToldSo'
  BY <1>2 DEF HandleRead, CallbackReturns, DoPendingFunctors, Swap
<1>3. ASSUME RunFunctor \/ FunctorReturns PROVE StopsToldSo'
  BY <1>3 DEF RunFunctor, FunctorReturns
<1>4. ASSUME NEW ch \in Channels, HandleEvent(ch) PROVE StopsToldSo'
  BY <1>4 DEF HandleEvent
<1>5. ASSUME NEW reported \in SUBSET (Channels \cup {Wakeup}), Poll(reported) PROVE StopsToldSo'
  BY <1>5 DEF Poll
<1>6. ASSUME NEW t \in Threads, NEW f \in Functors, QueueInLoop(t, f) PROVE StopsToldSo'
  BY <1>6 DEF QueueInLoop
<1>7. ASSUME NEW t \in Threads, WakeUp(t) \/ Quit(t) PROVE StopsToldSo'
  BY <1>7 DEF WakeUp, Quit
<1>8. CASE UNCHANGED vars
  BY <1>8 DEF vars
<1> QED
  BY <1>1, <1>2, <1>3, <1>4, <1>5, <1>6, <1>7, <1>8 DEF Next, LoopStep

\* The owner comes to look once the thread has its id, and goes to sleep only while
\* m_loop is not set; the thread takes m_loop back when the loop has stopped.
Published ==
    /\ own \in {"look", "asleep"} => stage \notin {"none", "spawned"}
    /\ mloop => own # "asleep"
    /\ stage \in {"unpublished", "over"} => pc = "stopped"

LEMMA PublishedStep == ASSUME ThreadPlaces, Published, [ThreadNext]_allVars PROVE Published'
<1> USE DEF Published, ThreadPlaces, OwnerGoes, ThreadGoes
<1>1. CASE UNCHANGED allVars
  BY <1>1 DEF allVars, vars, thread
<1>2. CASE StartThread \/ SpuriousWakeup \/ Destroy \/ SemWait \/ Look \/ Join
  BY <1>2 DEF StartThread, SpuriousWakeup, Destroy, SemWait, Look, Join, vars
<1>3. CASE SemPost \/ MakeLoop \/ DestroyLoop
  BY <1>3 DEF SemPost, MakeLoop, DestroyLoop, vars
<1>4. CASE Publish \/ Unpublish
  BY <1>4 DEF Publish, Unpublish, vars
<1>5. CASE QuitLoop
  BY <1>5 DEF QuitLoop, Quit
<1>6. CASE Loops
  BY <1>6 DEF Loops, thread
<1>7. ASSUME NEW t \in Threads, Call(t) \/ FinishCall(t) PROVE Published'
  <2>1. UNCHANGED <<pc, stage, own, mloop>>
    BY <1>7 DEF Call, FinishCall, Quit, QueueInLoop, WakeUp, thread
  <2> QED
    BY <2>1
<1> QED
  BY <1>1, <1>2, <1>3, <1>4, <1>5, <1>6, <1>7 DEF ThreadNext, OwnerStep

\* The owner waits for m_loop only while the thread has still to publish it, or when
\* the loop was told to quit before the owner came to look.
Notified == own = "asleep" => stage \in {"named", "built"} \/ quit

\* No notification is missed between the look at m_loop in startLoop and the wait for
\* the condition variable, whatever runs in between: the one way in which the owner
\* waits in vain is a loop that is told to quit and has gone again.
THEOREM OwnerNotified == ThreadSpec => []Notified
<1>1. ThreadInit => ThreadPlaces /\ Published /\ StopsToldSo
  BY DEF ThreadInit, Init, ThreadPlaces, Published, StopsToldSo
<1>2. ThreadPlaces /\ Published /\ [ThreadNext]_allVars => ThreadPlaces' /\ Published'
  BY ThreadPlacesStep, PublishedStep
<1>3. StopsToldSo /\ [ThreadNext]_allVars => StopsToldSo'
  BY ThreadStepIsStep, StopsToldSoStep
<1>4. ThreadPlaces /\ Published /\ StopsToldSo => Notified
  BY DEF ThreadPlaces, Published, StopsToldSo, Notified
<1> QED
  BY <1>1, <1>2, <1>3, <1>4, PTL DEF ThreadSpec
=============================================================================
