---------------------------- MODULE MCTcpStream -----------------------------
(* Buffers of three bytes, which moving, resizing and extrabuf all concern. *)
EXTENDS TcpStream
=============================================================================
