--------------------------- MODULE ConnectionLife ---------------------------
(***************************************************************************)
(* What the users of TcpServer are promised about a connection: they are   *)
(* told that it is up, then get what the peer sends, all of it before they *)
(* are told that it is down.  They are told so twice, when it is closed    *)
(* and when its channel is removed; then it is freed, and they are told    *)
(* nothing more.                                                           *)
(***************************************************************************)
EXTENDS Naturals, Sequences

CONSTANT Conns

VARIABLES
    told,        \* what the users have been told of each connection, in order
    gone,        \* connections that have been freed
    unread       \* what the peer has sent and the users have not been given

vars == <<told, gone, unread>>

Init ==
    /\ told = [c \in Conns |-> <<>>]
    /\ gone = {}
    /\ unread = [c \in Conns |-> 0]

Tell(c, what) ==
    /\ told' = [told EXCEPT ![c] = Append(@, what)]
    /\ UNCHANGED <<gone, unread>>

Send(c) ==
    /\ told[c] \in {<<>>, <<"up">>}
    /\ unread' = [unread EXCEPT ![c] = @ + 1]
    /\ UNCHANGED <<told, gone>>

Up(c) == told[c] = <<>> /\ Tell(c, "up")

Deliver(c) ==
    /\ told[c] = <<"up">>
    /\ \E k \in 1 .. unread[c] : unread' = [unread EXCEPT ![c] = @ - k]
    /\ UNCHANGED <<told, gone>>

Down(c) == told[c] = <<"up">> /\ unread[c] = 0 /\ Tell(c, "down")

DownAgain(c) == told[c] = <<"up", "down">> /\ Tell(c, "down")

\* Several connections may be freed at a time.
Free(S) ==
    /\ \A c \in S : told[c] = <<"up", "down", "down">> /\ c \notin gone
    /\ gone' = gone \cup S
    /\ UNCHANGED <<told, unread>>

Next ==
    \/ \E c \in Conns : Send(c) \/ Up(c) \/ Deliver(c) \/ Down(c) \/ DownAgain(c)
    \/ \E S \in SUBSET Conns : Free(S)

Spec == Init /\ [][Next]_vars
=============================================================================
