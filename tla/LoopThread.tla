----------------------------- MODULE LoopThread -----------------------------
(***************************************************************************)
(* The thread of an event loop, from startLoop() to the destructor of its  *)
(* EventLoopThread (src/src/tcp/EventLoopThread.cpp, Thread.cpp), around   *)
(* the loop of module EventLoop.  The owner starts the thread, waits on a  *)
(* semaphore until it has its id and on a condition variable until it has  *)
(* published its loop, which lives on its stack; in the end it tells the   *)
(* loop to quit and joins the thread.                                      *)
(*                                                                         *)
(* EventLoopThreadPool::start does this for one thread after another.      *)
(***************************************************************************)
EXTENDS EventLoop

CONSTANT Owner       \* the thread that starts the loop's thread and ends it

ASSUME OwnerAssumption == Owner \in Callers

VARIABLES
    stage,       \* how far the loop's thread has got outside loop()
    own,         \* where the owner is
    mloop        \* EventLoopThread::m_loop is set

thread == <<stage, own, mloop>>
allVars == <<vars, thread>>

ThreadInit ==
    /\ Init
    /\ stage = "none"
    /\ own = "out"
    /\ mloop = FALSE

-----------------------------------------------------------------------------
(* The owner: Thread::start, startLoop *)

OwnerGoes(from, to) == own = from /\ own' = to

\* start() creates the std::thread; startLoop calls it first.
StartThread ==
    /\ OwnerGoes("out", "sem")
    /\ stage' = "spawned"
    /\ UNCHANGED <<vars, mloop>>

\* sem_wait: the thread has its id.
SemWait ==
    /\ OwnerGoes("sem", "look")
    /\ stage # "spawned"
    /\ UNCHANGED <<vars, stage, mloop>>

\* while(m_loop == nullptr) m_cond.wait(lock): under the lock that publication takes.
Look ==
    /\ OwnerGoes("look", IF mloop THEN "has" ELSE "asleep")
    /\ UNCHANGED <<vars, stage, mloop>>

SpuriousWakeup ==
    /\ OwnerGoes("asleep", "look")
    /\ UNCHANGED <<vars, stage, mloop>>

-----------------------------------------------------------------------------
(* The loop's thread: Thread's function and threadFunc *)

ThreadGoes(from, to) == stage = from /\ stage' = to

SemPost ==
    /\ ThreadGoes("spawned", "named")
    /\ UNCHANGED <<vars, own, mloop>>

\* EventLoop::EventLoop, and the callback that nobody sets.
MakeLoop ==
    /\ ThreadGoes("named", "built")
    /\ UNCHANGED <<vars, own, mloop>>

\* A fault: nobody is notified.
PublishSilently ==
    /\ ThreadGoes("built", "looping")
    /\ mloop' = TRUE
    /\ UNCHANGED <<vars, own>>

Publish ==
    /\ ThreadGoes("built", "looping")
    /\ mloop' = TRUE
    /\ own' = IF own = "asleep" THEN "look" ELSE own
    /\ UNCHANGED vars

\* loop() has returned: m_loop = nullptr under the lock,
Unpublish ==
    /\ ThreadGoes("looping", "unpublished")
    /\ pc = "stopped"
    /\ mloop' = FALSE
    /\ UNCHANGED <<vars, own>>

\* and then ~EventLoop closes the eventfd, and the thread is over.
DestroyLoop ==
    /\ ThreadGoes("unpublished", "over")
    /\ UNCHANGED <<vars, own, mloop>>

-----------------------------------------------------------------------------
(* ~EventLoopThread, of an owner that has the loop *)

\* m_loop, read without the lock: set, and there is a loop to quit and to join;
\* not set, and the thread is left to itself (~Thread detaches it).
Destroy ==
    /\ OwnerGoes("has", IF mloop THEN "quitting" ELSE "gone")
    /\ UNCHANGED <<vars, stage, mloop>>

\* m_loop->quit().  If the loop has returned since Destroy, told to quit by someone
\* else, there is no object to call and the owner gets no further.
QuitLoop ==
    /\ OwnerGoes("quitting", "joining")
    /\ Quit(Owner)
    /\ UNCHANGED <<stage, mloop>>

\* quit() has returned, and so does join() once the thread is over.
Join ==
    /\ OwnerGoes("joining", "gone")
    /\ at[Owner] = "out" /\ stage = "over"
    /\ UNCHANGED <<vars, stage, mloop>>

-----------------------------------------------------------------------------
(* The loop inside its thread *)

Loops ==
    /\ stage = "looping"
    /\ \/ LoopStep \/ PollNothing
       \/ \E reported \in SUBSET (Channels \cup {Wakeup}) : Poll(reported)
    /\ UNCHANGED thread

\* Calls on the loop: from its own thread, and from those the owner has given it to,
\* the owner among them until it destroys it.
MayCall(t) ==
    /\ own \notin {"out", "sem", "look", "asleep"}
    /\ t = Owner => own = "has"

Call(t) ==
    /\ IF IsInLoopThread(t) THEN stage = "looping" ELSE MayCall(t)
    /\ Quit(t) \/ \E f \in Functors : QueueInLoop(t, f)
    /\ UNCHANGED thread

FinishCall(t) == WakeUp(t) /\ UNCHANGED thread

OwnerStep == SemWait \/ Look \/ QuitLoop \/ Join
ThreadStep ==
    \/ SemPost \/ MakeLoop \/ Publish \/ Unpublish \/ DestroyLoop
    \/ stage = "looping" /\ LoopStep /\ UNCHANGED thread

ThreadNext ==
    \/ StartThread \/ SpuriousWakeup \/ Destroy \/ OwnerStep
    \/ SemPost \/ MakeLoop \/ Publish \/ Unpublish \/ DestroyLoop
    \/ Loops
    \/ \E t \in Threads : Call(t) \/ FinishCall(t)

ThreadSpec == ThreadInit /\ [][ThreadNext]_allVars

\* As in EventLoop; and a started thread runs, and so does the owner inside
\* startLoop and the destructor, which nothing obliges it to call.
ThreadFairness ==
    /\ WF_allVars(OwnerStep)
    /\ WF_allVars(ThreadStep)
    /\ \A t \in Threads : WF_allVars(FinishCall(t))
ThreadFairSpec == ThreadSpec /\ ThreadFairness

-----------------------------------------------------------------------------
(* Properties *)

Starting == own \in {"sem", "look", "asleep"}

\* Every variable has its type; m_loop is set exactly while the loop can be used,
\* and the loop's thread is in loop() only then.
ThreadTypeOK ==
    /\ TypeOK
    /\ stage \in {"none", "spawned", "named", "built", "looping", "unpublished", "over"}
    /\ own \in {"out", "sem", "look", "asleep", "has", "quitting", "joining", "gone"}
    /\ mloop \in BOOLEAN /\ (mloop <=> stage = "looping")
    /\ (own = "out" <=> stage = "none")
    /\ pc # "start" => stage \notin {"none", "spawned", "named", "built"}

\* startLoop returns, unless the loop is told to quit first: no notification is
\* missed between the look at m_loop and the wait.  And the destructor returns, if
\* loop() had begun when it told the loop to quit: the thread leaves the loop and
\* can be joined.
ThreadLife ==
    /\ (own = "sem") ~> (~ Starting \/ quit)
    /\ (own = "joining" /\ quit /\ pc # "start") ~> (own = "gone")
=============================================================================
