------------------------------ MODULE Executor ------------------------------
(***************************************************************************)
(* What an event loop promises about the functors handed to it: they run   *)
(* on the loop's thread, one at a time, each once, in the order in which   *)
(* they were handed over.                                                  *)
(***************************************************************************)
EXTENDS Sequences

CONSTANTS
    Functors,    \* functors, each handed over once
    NoFunctor

VARIABLES
    fresh,       \* functors not yet handed over
    queue,       \* those waiting, the first to run first
    current      \* the one that runs

vars == <<fresh, queue, current>>

Init == fresh = Functors /\ queue = <<>> /\ current = NoFunctor

Submit(f) ==
    /\ f \in fresh
    /\ fresh' = fresh \ {f}
    /\ queue' = Append(queue, f)
    /\ UNCHANGED current

Begin ==
    /\ current = NoFunctor /\ queue # <<>>
    /\ current' = Head(queue)
    /\ queue' = Tail(queue)
    /\ UNCHANGED fresh

End ==
    /\ current # NoFunctor
    /\ current' = NoFunctor
    /\ UNCHANGED <<fresh, queue>>

Next == Begin \/ End \/ \E f \in Functors : Submit(f)

Spec == Init /\ [][Next]_vars
=============================================================================
