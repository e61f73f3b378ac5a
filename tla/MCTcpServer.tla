---------------------------- MODULE MCTcpServer ----------------------------
(* Three connections in turn on two io loops, with two descriptors: the third *)
(* waits in the backlog, and reuses a descriptor on the loop of another one.  *)
EXTENDS TcpServer

CONSTANTS io1, io2
MCIoLoops == <<io1, io2>>
=============================================================================
