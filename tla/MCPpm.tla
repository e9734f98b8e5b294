------------------------------- MODULE MCPpm -------------------------------
(* Ppm with three channels, so that a frame can be short, torn and too long. *)
EXTENDS Ppm
=============================================================================
