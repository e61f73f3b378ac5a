---------------------------- MODULE SessionLease ----------------------------
(***************************************************************************)
(* What the server promises about sessions: a session is a lease.  It is   *)
(* opened once, renewed by heartbeats, and closed, for good, only after it *)
(* has not been renewed for the whole grace period.  Module SessionServer, *)
(* with its timer, its counter and its threads, implements this one.       *)
(***************************************************************************)
EXTENDS Naturals

CONSTANTS
    Sids,        \* session ids
    Grace,       \* the time without renewal that a session survives
    MaxAge       \* where the clock of a lease stops: a bound

VARIABLES
    phase,       \* "none", "open" or "closed"
    quiet        \* the time since the latest renewal

vars == <<phase, quiet>>

Init ==
    /\ phase = [s \in Sids |-> "none"]
    /\ quiet = [s \in Sids |-> 0]

Open(s) ==
    /\ phase[s] = "none"
    /\ phase' = [phase EXCEPT ![s] = "open"]
    /\ quiet' = [quiet EXCEPT ![s] = 0]

Renew(s) ==
    /\ phase[s] = "open"
    /\ quiet' = [quiet EXCEPT ![s] = 0]
    /\ UNCHANGED phase

Close(s) ==
    /\ phase[s] = "open" /\ quiet[s] >= Grace
    /\ phase' = [phase EXCEPT ![s] = "closed"]
    /\ UNCHANGED quiet

Pass ==
    /\ quiet' = [s \in Sids |-> IF phase[s] = "open" /\ quiet[s] < MaxAge
                               THEN quiet[s] + 1 ELSE quiet[s]]
    /\ UNCHANGED phase

Next == Pass \/ \E s \in Sids : Open(s) \/ Renew(s) \/ Close(s)

Spec == Init /\ [][Next]_vars
=============================================================================
