---------------------------- MODULE PriorityMap ----------------------------
(***************************************************************************)
(* What HeapTimer and HeapHeartBeatCounter promise: a map from ids to keys *)
(* whose operations address an entry by its id, and whose pop removes an   *)
(* entry with the least key.  A call takes effect in one step, at once or  *)
(* after it has begun.                                                     *)
(***************************************************************************)
EXTENDS Integers

CONSTANTS Ids, Calls

VARIABLES
    prio,        \* id -> key
    call,        \* the latest call
    pending      \* whether it has yet to take effect

vars == <<prio, call, pending>>

Without(id) == [x \in DOMAIN prio \ {id} |-> prio[x]]
With(id, key) == [x \in DOMAIN prio \cup {id} |-> IF x = id THEN key ELSE prio[x]]
Least == {id \in DOMAIN prio : \A x \in DOMAIN prio : prio[id] <= prio[x]}

\* The maps a call may leave.
Effects(c) ==
    CASE c.name = "push"   -> {With(c.id, c.key)}
      [] c.name = "adjust" -> {IF c.id \in DOMAIN prio THEN With(c.id, c.key) ELSE prio}
      [] c.name = "addOne" -> {IF c.id \in DOMAIN prio
                               THEN With(c.id, prio[c.id] - 1) ELSE prio}
      [] c.name = "del"    -> {Without(c.id)}
      [] c.name = "pop"    -> IF DOMAIN prio = {} THEN {prio} ELSE {Without(id) : id \in Least}
      [] c.name = "clear"  -> {[x \in {} |-> 0]}

Init == prio = [x \in {} |-> 0] /\ call = [name |-> "none"] /\ pending = FALSE

Begin(c) ==
    /\ ~ pending
    /\ call' = c /\ pending' = TRUE
    /\ UNCHANGED prio

Apply(c) ==
    /\ ~ pending
    /\ call' = c /\ prio' \in Effects(c)
    /\ UNCHANGED pending

Complete ==
    /\ pending /\ ~ pending'
    /\ prio' \in Effects(call)
    /\ UNCHANGED call

Next == Complete \/ \E c \in Calls : Begin(c) \/ Apply(c)

Spec == Init /\ [][Next]_vars
=============================================================================
