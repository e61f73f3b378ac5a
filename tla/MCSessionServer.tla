-------------------------- MODULE MCSessionServer --------------------------
(* Two sessions; a timeout of a millisecond of two units, so that a timer  *)
(* may fire a unit early; the second timeout in a row ends a session.      *)
EXTENDS SessionServer
=============================================================================
