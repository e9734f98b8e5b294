----------------------------- MODULE MCLinkMcu -----------------------------
(* LinkMcu with two stamps: a message is told from the one before it.        *)
EXTENDS LinkMcu
=============================================================================
