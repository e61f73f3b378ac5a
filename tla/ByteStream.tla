----------------------------- MODULE ByteStream -----------------------------
(***************************************************************************)
(* What a stream of bytes promises: those written are delivered once each  *)
(* and in order, and nothing else is.  A byte is its number in the stream. *)
(***************************************************************************)
EXTENDS Naturals, Sequences

VARIABLES
    written,     \* how many bytes have been written
    delivered    \* the bytes delivered

vars == <<written, delivered>>

Init == written = 0 /\ delivered = <<>>

Write ==
    /\ written' \in Nat /\ written' > written
    /\ UNCHANGED delivered

Deliver ==
    /\ Len(delivered') \in Len(delivered) + 1 .. written
    /\ delivered' = [i \in 1 .. Len(delivered') |-> i]
    /\ UNCHANGED written

Next == Write \/ Deliver

Spec == Init /\ [][Next]_vars
=============================================================================
