------------------------------ MODULE MCClient ------------------------------
(* Two connects, each with its session and its thread; a heartbeat every two *)
(* units of time, one of which may be lost, and a lease of five.             *)
EXTENDS Client
=============================================================================
