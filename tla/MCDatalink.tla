----------------------------- MODULE MCDatalink -----------------------------
(* Datalink with bytes of three bits.  The frame of one of the messages has a *)
(* false start in its payload, and one in its second checksum.               *)
EXTENDS Datalink

MCMessages == {<<2>>, <<3, 4>>, <<3, 1>>}
=============================================================================
