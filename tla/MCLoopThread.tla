---------------------------- MODULE MCLoopThread ----------------------------
(* The owner and two other callers, one channel besides the eventfd, and    *)
(* three functors: enough for one that runs, one in the batch and one       *)
(* queued meanwhile.                                                        *)
EXTENDS LoopThread
=============================================================================
