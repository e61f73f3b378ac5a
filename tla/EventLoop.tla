----------------------------- MODULE EventLoop -----------------------------
(***************************************************************************)
(* The event loop of src/src/tcp/EventLoop.cpp, from the moment            *)
(* EventLoopThread publishes it.  Its thread polls, handles the channels   *)
(* that poll reports, then runs the functors queued meanwhile; any thread  *)
(* may queue functors and quit the loop, and wakes it by the eventfd.      *)
(*                                                                         *)
(* The loop's thread queues and quits only from inside callbacks and       *)
(* functors: nothing in src/ sets a ThreadInitCallback, which alone could  *)
(* queue on that thread before loop().                                     *)
(***************************************************************************)
EXTENDS Sequences

CONSTANTS
    Callers,     \* threads other than the loop's
    LoopThread,  \* the thread of m_threadId
    Channels,    \* channels of the loop besides m_wakeupChannel
    Wakeup,      \* m_wakeupChannel
    Functors,    \* functors, told apart by when they were queued
    NoFunctor

ASSUME ThreadsAssumption == LoopThread \notin Callers
ASSUME ChannelsAssumption == Wakeup \notin Channels
ASSUME FunctorsAssumption == NoFunctor \notin Functors

VARIABLES
    pc,          \* where the loop's thread is in loop()
    quit,        \* m_quit
    calling,     \* m_callingPendingFunctors
    wake,        \* m_wakeupFd is readable
    active,      \* m_activeChannels that are still to be handled
    pending,     \* m_pendingFunctors
    batch,       \* what is left of funcs in doPendingFunctors
    current,     \* the functor that runs
    fresh,       \* functors not yet queued
    at           \* thread -> "waking" when its call has still to write the eventfd

vars == <<pc, quit, calling, wake, active, pending, batch, current, fresh, at>>

Threads == Callers \cup {LoopThread}

Init ==
    /\ pc = "start"
    /\ quit = FALSE /\ calling = FALSE /\ wake = FALSE
    /\ active = {}
    /\ pending = <<>> /\ batch = <<>>
    /\ current = NoFunctor
    /\ fresh = Functors
    /\ at = [t \in Threads |-> "out"]

-----------------------------------------------------------------------------
(* Calls, by any thread *)

IsInLoopThread(t) == t = LoopThread

\* t is about to call: a caller as long as the loop is there, the loop's thread
\* from inside a callback or a functor.
Calls(t) ==
    /\ at[t] = "out"
    /\ IF IsInLoopThread(t) THEN pc \in {"callback", "functor"} ELSE pc # "stopped"

\* The rest of the call writes the eventfd, if it has to.
ThenWake(t, needed) == at' = [at EXCEPT ![t] = IF needed THEN "waking" ELSE "out"]

\* A fault: functors that functors queue are not seen to need a wakeup.
NeedsWakeupOutside(t) == ~ IsInLoopThread(t)

NeedsWakeup(t) == ~ IsInLoopThread(t) \/ calling

\* A fault: only a loop that runs functors is woken.
QueueInLoopCalling(t, f) ==
    /\ Calls(t) /\ f \in fresh
    /\ fresh' = fresh \ {f}
    /\ pending' = Append(pending, f)
    /\ ThenWake(t, calling)
    /\ UNCHANGED <<pc, quit, calling, wake, active, batch, current>>

QueueInLoop(t, f) ==
    /\ Calls(t) /\ f \in fresh
    /\ fresh' = fresh \ {f}
    /\ pending' = Append(pending, f)
    /\ ThenWake(t, NeedsWakeup(t))
    /\ UNCHANGED <<pc, quit, calling, wake, active, batch, current>>

\* A fault: the loop is told to quit and left asleep.
QuitAsleep(t) ==
    /\ Calls(t)
    /\ quit' = TRUE
    /\ ThenWake(t, FALSE)
    /\ UNCHANGED <<pc, calling, wake, active, pending, batch, current, fresh>>

Quit(t) ==
    /\ Calls(t)
    /\ quit' = TRUE
    /\ ThenWake(t, ~ IsInLoopThread(t))
    /\ UNCHANGED <<pc, calling, wake, active, pending, batch, current, fresh>>

\* wakeup, the last statement of both.
WakeUp(t) ==
    /\ at[t] = "waking"
    /\ wake' = TRUE
    /\ at' = [at EXCEPT ![t] = "out"]
    /\ UNCHANGED <<pc, quit, calling, active, pending, batch, current, fresh>>

-----------------------------------------------------------------------------
(* loop() *)

\* The loop's thread goes on at place p; it is not inside a call.
Go(from, to) == pc = from /\ pc' = to /\ at[LoopThread] = "out"

\* m_quit = false: what anyone has told the loop before is forgotten, and what they
\* tell it before the first test of m_quit is not.
Start ==
    /\ Go("start", "test")
    /\ quit' = FALSE
    /\ UNCHANGED <<calling, wake, active, pending, batch, current, fresh, at>>

\* Channels may be ready at any time; the eventfd is when it has been written.
\* epoll_wait reports some of what is ready,
Poll(reported) ==
    /\ Go("poll", "events")
    /\ reported # {} /\ (Wakeup \in reported => wake)
    /\ active' = reported
    /\ UNCHANGED <<quit, calling, wake, pending, batch, current, fresh, at>>

\* or nothing, for want of events, after kPollTimeMs or a signal.
PollNothing ==
    /\ Go("poll", "events")
    /\ ~ wake
    /\ active' = {}
    /\ UNCHANGED <<quit, calling, wake, pending, batch, current, fresh, at>>

\* m_wakeupChannel's callback: the read resets the eventfd.
HandleRead ==
    /\ Go("events", "events")
    /\ Wakeup \in active
    /\ active' = active \ {Wakeup}
    /\ wake' = FALSE
    /\ UNCHANGED <<quit, calling, pending, batch, current, fresh, at>>

HandleEvent(ch) ==
    /\ Go("events", "callback")
    /\ ch \in active
    /\ active' = active \ {ch}
    /\ UNCHANGED <<quit, calling, wake, pending, batch, current, fresh, at>>

CallbackReturns ==
    /\ Go("callback", "events")
    /\ UNCHANGED <<quit, calling, wake, active, pending, batch, current, fresh, at>>

DoPendingFunctors ==
    /\ Go("events", "swap")
    /\ active = {}
    /\ calling' = TRUE
    /\ UNCHANGED <<quit, wake, active, pending, batch, current, fresh, at>>

\* A fault: the queue is copied, and not emptied.
SwapCopy ==
    /\ Go("swap", "run")
    /\ batch' = pending
    /\ UNCHANGED <<quit, calling, wake, active, pending, current, fresh, at>>

Swap ==
    /\ Go("swap", "run")
    /\ batch' = pending /\ pending' = <<>>
    /\ UNCHANGED <<quit, calling, wake, active, current, fresh, at>>

RunFunctor ==
    /\ Go("run", "functor")
    /\ batch # <<>>
    /\ current' = Head(batch) /\ batch' = Tail(batch)
    /\ UNCHANGED <<quit, calling, wake, active, pending, fresh, at>>

FunctorReturns ==
    /\ Go("functor", "run")
    /\ current' = NoFunctor
    /\ UNCHANGED <<quit, calling, wake, active, pending, batch, fresh, at>>

\* A fault: the flag stays up.
FunctorsDoneCalling ==
    /\ Go("run", "test")
    /\ batch = <<>>
    /\ UNCHANGED <<quit, calling, wake, active, pending, batch, current, fresh, at>>

FunctorsDone ==
    /\ Go("run", "test")
    /\ batch = <<>>
    /\ calling' = FALSE
    /\ UNCHANGED <<quit, wake, active, pending, batch, current, fresh, at>>

\* while(!m_quit); where it ends, so does the loop, queued functors and all.
Test ==
    /\ Go("test", IF quit THEN "stopped" ELSE "poll")
    /\ UNCHANGED <<quit, calling, wake, active, pending, batch, current, fresh, at>>

\* What the loop's thread does without waiting for other events than its own.
LoopStep ==
    \/ Start \/ HandleRead \/ CallbackReturns
    \/ DoPendingFunctors \/ Swap \/ RunFunctor \/ FunctorReturns \/ FunctorsDone \/ Test
    \/ \E ch \in Channels : HandleEvent(ch)
    \/ wake /\ \E reported \in SUBSET (Channels \cup {Wakeup}) : Poll(reported)

Next ==
    \/ LoopStep
    \/ PollNothing \/ \E reported \in SUBSET (Channels \cup {Wakeup}) : Poll(reported)
    \/ \E t \in Threads :
         WakeUp(t) \/ Quit(t) \/ \E f \in Functors : QueueInLoop(t, f)

Spec == Init /\ [][Next]_vars

\* Threads are scheduled, callbacks and functors return, and poll returns when the
\* eventfd is readable.  Nothing is assumed of other channels, nor of the time
\* after which poll returns by itself: ten seconds are no way to be woken.
Fairness ==
    /\ WF_vars(LoopStep)
    /\ \A t \in Threads : WF_vars(WakeUp(t))
FairSpec == Spec /\ Fairness

-----------------------------------------------------------------------------
(* Properties *)

Places == {"start", "poll", "events", "callback", "swap", "run", "functor", "test",
           "stopped"}

\* Every variable has its type, and the flag that queueInLoop reads says where
\* the loop's thread is.
TypeOK ==
    /\ pc \in Places
    /\ quit \in BOOLEAN /\ wake \in BOOLEAN
    /\ calling \in BOOLEAN /\ (calling <=> pc \in {"swap", "run", "functor"})
    /\ active \subseteq Channels \cup {Wakeup}
    /\ pending \in Seq(Functors) /\ batch \in Seq(Functors)
    /\ current \in Functors \cup {NoFunctor}
    /\ fresh \subseteq Functors
    /\ at \in [Threads -> {"out", "waking"}]

\* The eventfd is readable, or a call is about to make it so.
Signalled == wake \/ \E t \in Threads : at[t] = "waking"

\* The loop never sleeps over work: when its thread is at poll with functors
\* queued, or told to quit, poll is going to return (EventLoop::queueInLoop must
\* wake the loop for functors queued by functors, but not by callbacks).
NoLostWakeup == pc = "poll" /\ (pending # <<>> \/ quit) => Signalled

\* The loop runs functors as an executor does: in order, one at a time, once.
Exec == INSTANCE Executor WITH queue <- batch \o pending
ImplementsExecutor == Exec!Spec

Queued(f) == \E i \in DOMAIN (batch \o pending) : (batch \o pending)[i] = f

\* A functor that has been queued runs, or the loop is told to quit, and without
\* waiting for poll to return by itself.
EveryFunctorRuns ==
    \A f \in Functors : Queued(f) ~> (current = f \/ quit)

\* A loop that is told to quit while it loops stops.
QuitStops == (quit /\ pc # "start") ~> (pc = "stopped")
=============================================================================
