--------------------------- MODULE PprzTransport ---------------------------
(***************************************************************************)
(* The pprz frames of the datalink: the bytes a message is sent as, and the  *)
(* automaton that takes them apart, one byte a call (pprz_transport.h).      *)
(* Every byte, length, index and checksum is a byte and wraps as one.        *)
(***************************************************************************)
EXTENDS Integers, Sequences, SequencesExt

CONSTANTS
  BYTE,   \* the values of a byte: 256
  STX     \* the start byte

Bytes == 0 .. BYTE - 1

ASSUME PprzAssumption == BYTE \in Nat /\ BYTE > 4 /\ STX \in Bytes

(* STX, length and two checksums around the payload.                        *)
PprzTransportSizeOf(payload) == Len(payload) + 4

(* Both checksums begin with the length; each byte is added to the first,    *)
(* and the first to the second.                                             *)
Sums(first) == <<first, first>>
Add(sums, c) == LET a == (sums[1] + c) % BYTE
                IN  <<a, (sums[2] + a) % BYTE>>

Checksums(first, payload) ==
  LET sums[i \in 0 .. Len(payload)] ==
        IF i = 0 THEN Sums(first) ELSE Add(sums[i - 1], payload[i])
  IN  sums[Len(payload)]

Frame(payload) ==
  LET length == PprzTransportSizeOf(payload) % BYTE
  IN  <<STX, length>> \o payload \o Checksums(length, payload)

-----------------------------------------------------------------------------
States == {"UNINIT", "GOT_STX", "GOT_LENGTH", "GOT_PAYLOAD", "GOT_CRC1"}

(* The automaton at rest: what it holds of the last frame is not used.       *)
Restart == [status |-> "UNINIT", len |-> 0, sums |-> <<0, 0>>,
            payload |-> <<>>, received |-> FALSE]

(* The index is a byte and counts the payload up to the length: a length     *)
(* byte of 4 means none, and the index has to come round to it.              *)
PayloadIsThere(payload, len) == Len(payload) % BYTE = len

(* A plausible bug: an error leaves the parser where it is.                 *)
MutKeepsWaiting(p) == p

(* Back to waiting for STX.  A message not yet handed over stays.            *)
Error(p) == IF p.received THEN [p EXCEPT !.status = "UNINIT"] ELSE Restart

(* parse_pprz on one byte.                                                  *)
parse_pprz(p, c) ==
  CASE p.status = "UNINIT" ->
         IF c = STX THEN [p EXCEPT !.status = "GOT_STX"] ELSE p
    [] p.status = "GOT_STX" ->
         IF p.received THEN Error(p)
         ELSE [p EXCEPT !.status = "GOT_LENGTH", !.len = (c - 4) % BYTE,
                        !.sums = Sums(c)]
    [] p.status = "GOT_LENGTH" ->
         LET payload == Append(p.payload, c)
         IN  [p EXCEPT !.payload = payload, !.sums = Add(p.sums, c),
                !.status = IF PayloadIsThere(payload, p.len)
                           THEN "GOT_PAYLOAD" ELSE "GOT_LENGTH"]
    [] p.status = "GOT_PAYLOAD" ->
         IF c = p.sums[1] THEN [p EXCEPT !.status = "GOT_CRC1"] ELSE Error(p)
    [] p.status = "GOT_CRC1" ->
         IF c = p.sums[2]
         THEN [Restart EXCEPT !.received = TRUE, !.len = p.len,
                              !.payload = p.payload]
         ELSE Error(p)

(* The bytes of a frame the automaton has taken.                            *)
Taken(p) ==
  CASE p.status = "UNINIT" ->
         IF p.received THEN Frame(p.payload) ELSE <<>>
    [] p.status = "GOT_STX" -> <<STX>>
    [] p.status = "GOT_LENGTH" ->
         <<STX, (p.len + 4) % BYTE>> \o p.payload
    [] p.status = "GOT_PAYLOAD" ->
         <<STX, (p.len + 4) % BYTE>> \o p.payload
    [] p.status = "GOT_CRC1" ->
         <<STX, (p.len + 4) % BYTE>> \o p.payload \o <<p.sums[1]>>
=============================================================================
