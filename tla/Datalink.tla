------------------------------ MODULE Datalink ------------------------------
(***************************************************************************)
(* A serial datalink between two boards that run this code: messages.h and   *)
(* PprzTransport put a message byte by byte into the transmit ring of one     *)
(* UART, its interrupt empties the ring, the other UART's interrupt fills its  *)
(* receive ring, and the main loop there parses the bytes and hands each       *)
(* message over (uart_arch.c of the LPC21, pprz_transport.h, main_ap.c).       *)
(*                                                                         *)
(* Main loops and interrupts interleave byte by byte.  The line may damage or  *)
(* swallow any byte, and the receive interrupt drops what finds no room.       *)
(***************************************************************************)
EXTENDS PprzTransport

CONSTANTS
  UART_TX_BUFFER_SIZE, UART_RX_BUFFER_SIZE,
  Messages,  \* the payloads sent: never empty, with a length that is a byte
  Noise,     \* the bytes a damaged one can become
  MAX_HARMS  \* bound: bytes that are damaged or lost

ASSUME DatalinkAssumption ==
  /\ UART_TX_BUFFER_SIZE \in Nat \ {0} /\ UART_RX_BUFFER_SIZE \in Nat \ {0}
  /\ Messages \subseteq Seq(Bytes) /\ Noise \subseteq Bytes
  /\ \A m \in Messages : Len(m) \in 1 .. BYTE - 1
  /\ MAX_HARMS \in Nat

None == BYTE    \* no byte: an empty register, a slot that was read

VARIABLES
  sending,     \* the bytes of the message the main loop still has to transmit
  room,        \* uart_transmit has seen room for the next one
  tx_buffer, tx_insert_idx, tx_extract_idx, tx_running,
  thr,         \* the transmit holding register
  rx_buffer, rx_insert_idx, rx_extract_idx,
  pprz,        \* the automaton of parse_pprz
  harms        \* the bytes that were damaged or lost

tx_vars == <<sending, room, tx_buffer, tx_insert_idx, tx_extract_idx,
             tx_running>>

rx_vars == <<rx_extract_idx, pprz>>
line_vars == <<thr, rx_buffer, rx_insert_idx, harms>>
dl_vars == <<tx_vars, rx_vars, line_vars>>

DatalinkInit ==
  /\ sending = <<>> /\ room = FALSE
  /\ tx_buffer = [i \in 0 .. UART_TX_BUFFER_SIZE - 1 |-> None]
  /\ tx_insert_idx = 0 /\ tx_extract_idx = 0 /\ tx_running = FALSE
  /\ thr = None
  /\ rx_buffer = [i \in 0 .. UART_RX_BUFFER_SIZE - 1 |-> None]
  /\ rx_insert_idx = 0 /\ rx_extract_idx = 0
  /\ pprz = Restart /\ harms = 0

NextTx(i) == (i + 1) % UART_TX_BUFFER_SIZE
NextRx(i) == (i + 1) % UART_RX_BUFFER_SIZE

-----------------------------------------------------------------------------
(* Plausible bugs, used to show that the properties can fail: the slot that    *)
(* must stay free is counted, too.                                          *)
MutOneSlotMore(len) ==
  LET space == tx_extract_idx - tx_insert_idx
  IN  (IF space <= 0 THEN space + UART_TX_BUFFER_SIZE ELSE space) >= len

(* The sending main loop.  DOWNLINK_SEND_x sends a message that fits into the *)
(* transmit ring now, and counts the others as overruns.                    *)
check_free_space(len) ==
  LET space == tx_extract_idx - tx_insert_idx
  IN  (IF space <= 0 THEN space + UART_TX_BUFFER_SIZE ELSE space) - 1 >= len

DownlinkSend(m) ==
  /\ sending = <<>>
  /\ check_free_space(PprzTransportSizeOf(m))
  /\ sending' = Frame(m)
  /\ UNCHANGED <<room, tx_buffer, tx_insert_idx, tx_extract_idx, tx_running,
                 rx_vars, line_vars>>

(* uart_transmit tests for room with the transmit interrupt on, and gives up  *)
(* the byte if there is none.                                               *)
TransmitTest ==
  /\ sending # <<>> /\ ~room
  /\ IF NextTx(tx_insert_idx) = tx_extract_idx
     THEN sending' = Tail(sending) /\ UNCHANGED room
     ELSE room' = TRUE /\ UNCHANGED sending
  /\ UNCHANGED <<tx_buffer, tx_insert_idx, tx_extract_idx, tx_running,
                 rx_vars, line_vars>>

(* A plausible bug: the interrupt is never started.                         *)
MutNobodyStarts ==
  /\ room /\ room' = FALSE
  /\ sending' = Tail(sending)
  /\ tx_buffer' = [tx_buffer EXCEPT ![tx_insert_idx] = Head(sending)]
  /\ tx_insert_idx' = NextTx(tx_insert_idx)
  /\ UNCHANGED <<tx_running, tx_extract_idx, rx_vars, line_vars>>

(* With it off, the byte is queued behind those under way, or starts.        *)
TransmitByte ==
  /\ room /\ room' = FALSE
  /\ sending' = Tail(sending)
  /\ IF tx_running
     THEN /\ tx_buffer' = [tx_buffer EXCEPT ![tx_insert_idx] = Head(sending)]
          /\ tx_insert_idx' = NextTx(tx_insert_idx)
          /\ UNCHANGED <<tx_running, thr>>
     ELSE /\ tx_running' = TRUE
          /\ thr' = Head(sending)
          /\ UNCHANGED <<tx_buffer, tx_insert_idx>>
  /\ UNCHANGED <<tx_extract_idx, rx_vars, rx_buffer, rx_insert_idx, harms>>

(* The transmit interrupt: the register is empty.  A slot that was read is    *)
(* shown empty, and nobody may read it again.                               *)
TransmitInterrupt ==
  /\ tx_running /\ thr = None
  /\ IF tx_insert_idx # tx_extract_idx
     THEN /\ thr' = tx_buffer[tx_extract_idx]
          /\ tx_buffer' = [tx_buffer EXCEPT ![tx_extract_idx] = None]
          /\ tx_extract_idx' = NextTx(tx_extract_idx)
          /\ UNCHANGED tx_running
     ELSE /\ tx_running' = FALSE
          /\ UNCHANGED <<thr, tx_buffer, tx_extract_idx>>
  /\ UNCHANGED <<sending, room, tx_insert_idx, rx_vars, rx_buffer,
                 rx_insert_idx, harms>>

-----------------------------------------------------------------------------
(* The line, and the receive interrupt at its end: a byte is stored, and kept *)
(* if that leaves one slot free.  A byte may also be damaged, or not arrive.  *)
Receive(c) ==
  /\ thr # None /\ thr' = None
  /\ rx_buffer' = [rx_buffer EXCEPT ![rx_insert_idx] = c]
  /\ rx_insert_idx' = NextRx(rx_insert_idx)
  /\ UNCHANGED <<tx_vars, rx_vars>>

RxRoom == NextRx(rx_insert_idx) # rx_extract_idx

Shift == RxRoom /\ Receive(thr) /\ UNCHANGED harms

Damage ==
  /\ RxRoom
  /\ harms < MAX_HARMS /\ harms' = harms + 1
  /\ \E c \in Noise \ {thr} : Receive(c)

(* Lost on the line, or in a ring that has no room for it.                    *)
Lose ==
  /\ harms < MAX_HARMS /\ harms' = harms + 1
  /\ thr # None /\ thr' = None
  /\ UNCHANGED <<tx_vars, rx_vars, rx_buffer, rx_insert_idx>>

-----------------------------------------------------------------------------
(* The receiving main loop: ReadPprzBuffer takes bytes until the ring is empty *)
(* or a message is there, which is copied and handed to dl_parse_msg before   *)
(* another byte is taken.                                                   *)
ReadPprzBuffer ==
  /\ rx_insert_idx # rx_extract_idx /\ ~pprz.received
  /\ pprz' = parse_pprz(pprz, rx_buffer[rx_extract_idx])
  /\ rx_buffer' = [rx_buffer EXCEPT ![rx_extract_idx] = None]
  /\ rx_extract_idx' = NextRx(rx_extract_idx)
  /\ UNCHANGED <<tx_vars, thr, rx_insert_idx, harms>>

(* A message without a payload copies nothing: the last one would be handed    *)
(* over again.                                                              *)
HandedOver == IF pprz.len = 0 THEN <<>> ELSE pprz.payload

DatalinkEvent ==
  /\ pprz.received /\ pprz' = Restart
  /\ UNCHANGED <<tx_vars, rx_extract_idx, line_vars>>

DatalinkNext ==
  \/ \E m \in Messages : DownlinkSend(m)
  \/ TransmitTest \/ TransmitByte \/ TransmitInterrupt
  \/ Shift \/ Damage \/ Lose
  \/ ReadPprzBuffer \/ DatalinkEvent

(* Loops and interrupts run, and bytes reach the end of the line.            *)
DatalinkSpec ==
  /\ DatalinkInit /\ [][DatalinkNext]_dl_vars
  /\ WF_dl_vars(TransmitTest) /\ WF_dl_vars(TransmitByte)
  /\ WF_dl_vars(TransmitInterrupt) /\ WF_dl_vars(Shift)
  /\ WF_dl_vars(ReadPprzBuffer) /\ WF_dl_vars(DatalinkEvent)

-----------------------------------------------------------------------------
(* What a ring holds, the oldest byte first.                                *)
Held(buffer, from, to, size) ==
  [k \in 1 .. (to - from) % size |-> buffer[(from + k - 1) % size]]

OnTheWay ==
  Held(rx_buffer, rx_extract_idx, rx_insert_idx, UART_RX_BUFFER_SIZE)
    \o (IF thr = None THEN <<>> ELSE <<thr>>)
    \o Held(tx_buffer, tx_extract_idx, tx_insert_idx, UART_TX_BUFFER_SIZE)
    \o sending

(* One frame after the other, and nothing else.                             *)
WholeFrames(bytes) ==
  LET whole[i \in 1 .. Len(bytes) + 1] ==
        \/ i = Len(bytes) + 1
        \/ \E m \in Messages :
             LET next == i + Len(Frame(m))
             IN  /\ next <= Len(bytes) + 1
                 /\ SubSeq(bytes, i, next - 1) = Frame(m)
                 /\ whole[next]
  IN  whole[1]

(* On a line that does no harm, what the automaton took and what is still on its   *)
(* way, in whichever register and ring, are whole frames in the order they     *)
(* were sent: the test for free space is enough for every byte of a message,  *)
(* a byte neither overtakes nor overwrites another however uart_transmit and   *)
(* the interrupts interleave, and the automaton stands where the frame does.  *)
MessagesAreWhole == harms = 0 => WholeFrames(Taken(pprz) \o OnTheWay)

(* The transmitter never stops for good: as often as the sender is idle, there *)
(* comes a time with room for any message.                                  *)
RoomAgain ==
  \A m \in Messages :
    []<>(sending # <<>> \/ check_free_space(PprzTransportSizeOf(m)))

(* Nothing in its frame looks like the start of another.                     *)
StartsOnce(m) == \A i \in 2 .. Len(Frame(m)) : Frame(m)[i] # STX

(* Whatever the line did to the automaton (half a frame, a false start, a      *)
(* length that takes whole frames for payload), once it does no more harm and  *)
(* only messages are sent that start once, every one sent again and again is   *)
(* handed over again and again.  Without that premise one harmed byte can     *)
(* keep the automaton in step with a false start for ever.                   *)
LinkRecovers ==
  <>[][\A m \in Messages : DownlinkSend(m) => StartsOnce(m)]_dl_vars =>
    \A m \in Messages :
      []<><<DownlinkSend(m)>>_dl_vars =>
        []<><<DatalinkEvent /\ HandedOver = m>>_dl_vars
=============================================================================
