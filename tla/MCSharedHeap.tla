---------------------------- MODULE MCSharedHeap ----------------------------
(* Two io threads and the UDP thread on a heap of up to two entries. *)
EXTENDS SharedHeap
=============================================================================
