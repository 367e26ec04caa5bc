------------------------------- MODULE MCPipe -------------------------------
(***************************************************************************)
(* Instance of Pipe for TLC: two processes share a buffer of two bytes, so *)
(* that writes are longer than the buffer and the ring wraps around.       *)
(***************************************************************************)
EXTENDS Pipe
=============================================================================
