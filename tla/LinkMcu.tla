------------------------------ MODULE LinkMcu ------------------------------
(***************************************************************************)
(* The link of a two-processor autopilot (link_mcu.c over the SPI drivers of  *)
(* arch/lpc21): the autopilot, master, exchanges its commands for the radio's *)
(* state with the fly-by-wire, slave, one whole message each way at a time.   *)
(* Both sides fill and read the buffers that their interrupts transfer.      *)
(*                                                                         *)
(* A message is three chunks, two of payload and the checksum, which is taken *)
(* to be free of collisions but for one: CRC_INIT is 0, so that of zeros is 0. *)
(* A payload is stamped by the step of the program that wrote it.            *)
(*                                                                         *)
(* fault, caught and reply are an observer's: the last chunk reached the      *)
(* slave corrupted or the last commands were written into a frame under way,   *)
(* and the stamps of the messages that the last frame heard by the slave and   *)
(* the last frame brought.                                                  *)
(***************************************************************************)
EXTENDS Naturals, Sequences

CONSTANT STAMPS      \* payloads are told apart up to STAMPS in a row
ASSUME LinkAssumption == STAMPS \in Nat /\ STAMPS > 1

Stamps == 0 .. STAMPS - 1
Zero   == <<"zero">>
Chunk(i, stamp) == <<"data", i, stamp>>
Data     == {Zero} \cup {Chunk(i, s) : i \in 1 .. 2, s \in Stamps}
Chunks   == Data \cup {<<"sum", a, b>> : a \in Data, b \in Data}
Messages == [1 .. 3 -> Chunks]
Zeros    == <<Zero, Zero, Zero>>

VARIABLES
  from_ap, from_ap_rx,     \* link_mcu_from_ap_msg, on the AP and on the FBW
  from_fbw, from_fbw_rx,   \* link_mcu_from_fbw_msg, on the FBW and on the AP
  ap_stamp, fbw_stamp,
  writing,                 \* the control step has written half of its commands
  spi_cur_slave,           \* the master has selected the slave
  line,                    \* the chunk to be clocked next, 4 after the last,
                           \* 0 when no frame is under way
  ap_spi_received, inter_mcu_received_fbw,
  fbw_spi_received, inter_mcu_received_ap, link_mcu_received,
  slave_on, slave_rx_idx,
  slave_tx,                \* what the slave still has to send
  frame,                   \* the stamp of the frame under way
  fault, caught, reply

ap_loop   == <<from_ap, ap_stamp, writing, inter_mcu_received_fbw>>
fbw_loop  == <<from_fbw, fbw_stamp, link_mcu_received, inter_mcu_received_ap>>
master    == <<spi_cur_slave, line, ap_spi_received, from_fbw_rx>>
slave     == <<slave_on, slave_rx_idx, slave_tx, fbw_spi_received, from_ap_rx>>
watched   == <<frame, fault, caught, reply>>
link_vars == <<ap_loop, fbw_loop, master, slave, watched>>

LinkTypeOK ==
  /\ {from_ap, from_ap_rx, from_fbw, from_fbw_rx} \subseteq Messages
  /\ {ap_stamp, fbw_stamp, frame, caught, reply} \subseteq Stamps
  /\ {writing, spi_cur_slave, ap_spi_received, inter_mcu_received_fbw, slave_on,
      fbw_spi_received, inter_mcu_received_ap, link_mcu_received, fault}
       \subseteq BOOLEAN
  /\ line \in 0 .. 4 /\ slave_rx_idx \in 0 .. 3
  /\ slave_tx \in Seq(Chunks) /\ Len(slave_tx) <= 4

Following(stamp) == (stamp + 1) % STAMPS
Clocking         == line \in 1 .. 3

-----------------------------------------------------------------------------
(* A bug: the checksum that was computed is not compared.                    *)
MutNotCompared(m) == TRUE

(* ComputeChecksum, and the test of the two event tasks.                    *)
Checksum(m) == IF m[1] = Zero /\ m[2] = Zero THEN Zero ELSE <<"sum", m[1], m[2]>>
Valid(m)    == m[3] = Checksum(m)
Signed(m)   == [m EXCEPT ![3] = Checksum(m)]

-----------------------------------------------------------------------------
(* Plausible bugs, used to show that the properties can fail.              *)

(* The slave's interrupt leaves the SSP enabled.                            *)
MutSlaveStaysOn ==
  /\ slave_on /\ slave_rx_idx > 0 /\ ~Clocking
  /\ slave_rx_idx' = 0 /\ fbw_spi_received' = TRUE /\ caught' = frame
  /\ UNCHANGED <<slave_on, slave_tx, from_ap_rx, ap_loop, fbw_loop, master, frame, fault,
                 reply>>

(* The restart does not rewind the reception.                               *)
MutRestartNoRewind ==
  /\ link_mcu_received /\ link_mcu_received' = FALSE
  /\ inter_mcu_received_ap' = FALSE
  /\ fbw_stamp' = Following(fbw_stamp)
  /\ from_fbw' = Signed([i \in 1 .. 3 |-> Chunk(i, fbw_stamp')])
  /\ slave_on' = TRUE /\ fbw_spi_received' = FALSE
  /\ slave_tx' = from_fbw'
  /\ UNCHANGED <<ap_loop, master, from_ap_rx, slave_rx_idx, watched>>

-----------------------------------------------------------------------------
(* The SSP's FIFO may keep what the slave had no time to send.              *)
Leftover(tx) == {<<>>} \cup {<<tx[i]>> : i \in DOMAIN tx \cap {1}}

(* Both sides start from zeroed memory; init_fbw has called link_mcu_restart.  *)
LinkInit ==
  /\ from_ap = Zeros /\ from_ap_rx = Zeros /\ from_fbw = Zeros /\ from_fbw_rx = Zeros
  /\ ap_stamp = 0 /\ fbw_stamp = 0 /\ writing = FALSE
  /\ spi_cur_slave = FALSE /\ line = 0
  /\ ap_spi_received = FALSE /\ inter_mcu_received_fbw = FALSE
  /\ fbw_spi_received = FALSE /\ inter_mcu_received_ap = FALSE
  /\ link_mcu_received = FALSE
  /\ slave_on = TRUE /\ slave_rx_idx = 0 /\ slave_tx = Zeros
  /\ frame = 0 /\ fault = FALSE /\ caught = 0 /\ reply = 0

(* The autopilot's control step writes its commands straight into the         *)
(* message, whatever the interrupt is doing with it, ...                     *)
ControlWrites ==
  /\ ~writing /\ ~inter_mcu_received_fbw /\ writing' = TRUE
  /\ ap_stamp' = Following(ap_stamp)
  /\ from_ap' = [from_ap EXCEPT ![1] = Chunk(1, ap_stamp')]
  /\ fault' = (fault \/ spi_cur_slave)
  /\ UNCHANGED <<inter_mcu_received_fbw, fbw_loop, master, slave, frame, caught,
                 reply>>

(* ... and calls link_mcu_send, which looks for a transfer under way only     *)
(* now.  (The slave has noticed the end of the frame by then: both sides wait *)
(* for the same silence.)                                                   *)
link_mcu_send ==
  /\ writing /\ writing' = FALSE
  /\ LET written == [from_ap EXCEPT ![2] = Chunk(2, ap_stamp)]
     IN \/ /\ spi_cur_slave                           \* SpiOverRun
           /\ from_ap' = written
           /\ UNCHANGED <<master, frame>>
        \/ /\ ~spi_cur_slave
           /\ ~(slave_on /\ slave_rx_idx > 0)
           /\ from_ap' = Signed(written)
           /\ spi_cur_slave' = TRUE /\ line' = 1 /\ ap_spi_received' = FALSE
           /\ frame' = ap_stamp
           /\ UNCHANGED from_fbw_rx
  /\ UNCHANGED <<ap_stamp, inter_mcu_received_fbw, fbw_loop, slave, fault,
                 caught, reply>>

-----------------------------------------------------------------------------
(* A chunk is clocked, both ways at once.  The line may lose what the master   *)
(* sends, and a slave that is not enabled sends nothing: zeros are read, the   *)
(* one wrong value that the checksum may let through.                        *)
Clock ==
  /\ Clocking /\ line' = line + 1
  /\ \E mosi \in {from_ap[line], Zero} :
       /\ fault' = (mosi # from_ap[line])
       /\ IF slave_on /\ slave_rx_idx < 3
            THEN /\ from_ap_rx' = [from_ap_rx EXCEPT ![slave_rx_idx + 1] = mosi]
                 /\ slave_rx_idx' = slave_rx_idx + 1
            ELSE UNCHANGED <<from_ap_rx, slave_rx_idx>>
  /\ LET sends == slave_on /\ slave_tx # <<>>
     IN /\ from_fbw_rx' =
             [from_fbw_rx EXCEPT ![line] = IF sends THEN Head(slave_tx) ELSE Zero]
        /\ slave_tx' = IF sends THEN Tail(slave_tx) ELSE slave_tx
  /\ reply' = IF line = 3 THEN fbw_stamp ELSE reply
  /\ UNCHANGED <<ap_loop, fbw_loop, spi_cur_slave, ap_spi_received, slave_on,
                 fbw_spi_received, frame, caught>>

(* The receive timeouts, SPI1_ISR's second part.                            *)
MasterTimeout ==
  /\ line = 4 /\ line' = 0
  /\ spi_cur_slave' = FALSE /\ ap_spi_received' = TRUE
  /\ UNCHANGED <<ap_loop, fbw_loop, from_fbw_rx, slave, watched>>

SlaveTimeout ==
  /\ slave_on /\ slave_rx_idx > 0 /\ ~Clocking
  /\ slave_on' = FALSE /\ fbw_spi_received' = TRUE /\ caught' = frame
  /\ slave_tx' \in Leftover(slave_tx)
  /\ UNCHANGED <<slave_rx_idx, from_ap_rx, ap_loop, fbw_loop, master, frame,
                 fault, reply>>

-----------------------------------------------------------------------------
(* link_mcu_event_task and telecommand_task, on the AP, in one turn of its loop. *)
ApEvent ==
  \/ /\ ap_spi_received /\ ap_spi_received' = FALSE /\ ~writing
     /\ inter_mcu_received_fbw' = Valid(from_fbw_rx)
     /\ UNCHANGED <<from_ap, ap_stamp, writing, spi_cur_slave, line, from_fbw_rx,
                    fbw_loop, slave, watched>>
  \/ /\ inter_mcu_received_fbw /\ inter_mcu_received_fbw' = FALSE
     /\ UNCHANGED <<from_ap, ap_stamp, writing, master, fbw_loop, slave, watched>>

(* link_mcu_event_task, on the FBW.                                         *)
FbwEvent ==
  /\ fbw_spi_received /\ fbw_spi_received' = FALSE
  /\ link_mcu_received' = TRUE
  /\ inter_mcu_received_ap' = Valid(from_ap_rx)
  /\ UNCHANGED <<ap_loop, master, from_fbw, fbw_stamp, slave_on, slave_rx_idx,
                 slave_tx, from_ap_rx, watched>>

(* The commands are used, the next message is filled, and link_mcu_restart:   *)
(* wherever the master is in its frame, the slave listens again.             *)
FbwRestart ==
  /\ link_mcu_received /\ link_mcu_received' = FALSE
  /\ inter_mcu_received_ap' = FALSE
  /\ fbw_stamp' = Following(fbw_stamp)
  /\ from_fbw' = Signed([i \in 1 .. 3 |-> Chunk(i, fbw_stamp')])
  /\ slave_on' = TRUE /\ slave_rx_idx' = 0 /\ fbw_spi_received' = FALSE
  /\ slave_tx' = slave_tx \o from_fbw'
  /\ UNCHANGED <<ap_loop, master, from_ap_rx, watched>>

LinkNext ==
  \/ ControlWrites \/ link_mcu_send
  \/ Clock
  \/ MasterTimeout \/ SlaveTimeout
  \/ ApEvent \/ FbwEvent \/ FbwRestart

(* Everything goes on, and the fly-by-wire's loop, which turns much faster     *)
(* than the master sends, is not for ever late for the next frame.           *)
LinkFairness ==
  /\ WF_link_vars(ControlWrites) /\ WF_link_vars(link_mcu_send)
  /\ WF_link_vars(Clock)
  /\ WF_link_vars(MasterTimeout) /\ WF_link_vars(SlaveTimeout)
  /\ WF_link_vars(ApEvent)
  /\ SF_link_vars(FbwEvent /\ ~Clocking) /\ SF_link_vars(FbwRestart /\ ~Clocking)

LinkSafety == LinkInit /\ [][LinkNext]_link_vars
LinkSpec   == LinkSafety /\ LinkFairness

-----------------------------------------------------------------------------
(* Safety.                                                                  *)

Says(m, stamp) == m[1] = Chunk(1, stamp) /\ m[2] = Chunk(2, stamp)
Silent(m)      == m[1] = Zero /\ m[2] = Zero

(* The commands that the fly-by-wire uses are those of one control step, the  *)
(* one whose frame the slave heard last: never a mixture with the step that    *)
(* overran the transfer, nor the end of a frame over the rest of an older one *)
(* -- or all zeros, which pass the checksum, from a line that is dead.        *)
FbwHearsWhole ==
  inter_mcu_received_ap => Says(from_ap_rx, caught) \/ Silent(from_ap_rx)

(* The same for the radio's state that the autopilot's telecommand_task uses,  *)
(* with what the slave's FIFO had left over in front of it.                 *)
ApHearsWhole ==
  inter_mcu_received_fbw => Says(from_fbw_rx, reply) \/ Silent(from_fbw_rx)

(* Neither side is left waiting for the other: a selected slave means a frame *)
(* whose end will unselect it, and a slave that does not listen has been told *)
(* so, by one of the two flags that lead to link_mcu_restart, valid or not    *)
(* what it heard ("the buffer is filled even if the last receive was not      *)
(* correct").                                                               *)
LinkStaysArmed ==
  /\ spi_cur_slave <=> line # 0
  /\ ~slave_on => fbw_spi_received \/ link_mcu_received

(* Liveness: once the line is clean and the control steps leave the transfers   *)
(* the time they need, commands keep coming through, whatever state the        *)
(* faults have left the two sides in.                                       *)
LinkRecovers == <>[]~fault => []<>inter_mcu_received_ap
=============================================================================
