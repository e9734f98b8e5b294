--------------------------- MODULE LinkMcuProofs ---------------------------
(***************************************************************************)
(* Proofs about the link: for payloads told apart as far back as one likes,   *)
(* the fly-by-wire uses the commands of one control step or none, the        *)
(* autopilot the state of one message, neither side is left waiting for the   *)
(* other, and commands come through again once the line is clean.           *)
(***************************************************************************)
EXTENDS LinkMcu, SequenceTheorems, TLAPS

Sum(stamp) == <<"sum", Chunk(1, stamp), Chunk(2, stamp)>>
Sums       == {Sum(s) : s \in Stamps}
Firsts     == {Chunk(1, s) : s \in Stamps}
Seconds    == {Chunk(2, s) : s \in Stamps}

(* The message as the autopilot keeps it: the checksum of a frame under way   *)
(* is that of the step that sent it, whatever is written over the payload.   *)
ApMessage ==
  /\ from_ap \in [1 .. 3 -> {Zero} \cup Firsts \cup Seconds \cup Sums]
  /\ from_ap[1] \in {Zero} \cup Firsts
  /\ from_ap[2] \in {Zero} \cup Seconds
  /\ from_ap[3] \in {Zero} \cup Sums
  /\ line # 0 => from_ap[3] = Sum(frame)
  /\ writing => from_ap[1] = Chunk(1, ap_stamp)
  /\ ap_stamp \in Stamps /\ frame \in Stamps

(* What the slave has heard.  Listening from the first chunk it is one behind *)
(* the line and ends with the frame's checksum; listening from a later one it *)
(* ends short of it, with no first half of any payload in the first place.    *)
Heard ==
  /\ from_ap_rx \in [1 .. 3 -> {Zero} \cup Firsts \cup Seconds \cup Sums]
  /\ from_ap_rx[3] \in {Zero} \cup Sums
  /\ slave_rx_idx \in 0 .. 3
  /\ slave_on /\ Clocking => slave_rx_idx < line
  /\ slave_on /\ Clocking /\ 0 < slave_rx_idx /\ slave_rx_idx + 1 < line
       => from_ap_rx[1] \notin Firsts
  /\ slave_on /\ ~Clocking /\ 0 < slave_rx_idx /\ slave_rx_idx < 3
       => from_ap_rx[1] \notin Firsts
  /\ slave_on /\ ~Clocking /\ slave_rx_idx = 3 => from_ap_rx[3] \in {Zero, Sum(frame)}

(* What a slave that has stopped listening may pass for a message.           *)
Judged ==
  /\ ~slave_on /\ Valid(from_ap_rx) => Says(from_ap_rx, caught) \/ Silent(from_ap_rx)
  /\ inter_mcu_received_ap => ~slave_on /\ Valid(from_ap_rx)
  /\ fbw_spi_received => ~slave_on

LinkInv == line \in 0 .. 4 /\ LinkStaysArmed /\ ApMessage /\ Heard /\ Judged

(* The three kinds of chunks are told apart.                                *)
LEMMA Kinds ==
  /\ Zero \notin Firsts /\ Zero \notin Seconds /\ Zero \notin Sums
  /\ \A s, t \in Stamps : /\ Chunk(1, s) # Chunk(2, t)
                          /\ Chunk(1, s) # Sum(t) /\ Chunk(2, s) # Sum(t)
  /\ \A a, b : <<"sum", a, b>> # Zero
  /\ \A s \in Stamps : \A a, b : Sum(s) = <<"sum", a, b>>
                                   => a = Chunk(1, s) /\ b = Chunk(2, s)
<1>1. \A a, b : <<"data", a, b>>[1] = "data" /\ <<"sum", a, b>>[1] = "sum"
                /\ Zero[1] = "zero"
  BY DEF Zero
<1>2. \A a, b : <<"data", a, b>> # Zero /\ <<"sum", a, b>> # Zero
  BY <1>1
<1>3. \A a, b, c, d : <<"data", a, b>> # <<"sum", c, d>>
  BY <1>1
<1>4. QED
  BY <1>2, <1>3 DEF Firsts, Seconds, Sums, Sum, Chunk

-----------------------------------------------------------------------------
LEMMA LinkInitInv ==
  ASSUME LinkInit
  PROVE  LinkInv
<1>1. 0 \in Stamps
  BY LinkAssumption DEF Stamps
<1>2. Zeros \in [1 .. 3 -> {Zero} \cup Firsts \cup Seconds \cup Sums]
      /\ \A i \in 1 .. 3 : Zeros[i] = Zero
  BY DEF Zeros
<1>3. ApMessage
  BY <1>1, <1>2 DEF LinkInit, ApMessage
<1>4. Heard
  BY <1>2 DEF LinkInit, Heard, Clocking
<1>5. Judged /\ LinkStaysArmed /\ line \in 0 .. 4
  BY DEF LinkInit, Judged, LinkStaysArmed
<1>6. QED
  BY <1>3, <1>4, <1>5 DEF LinkInv

(* The control step.                                                        *)
LEMMA ControlKeeps ==
  ASSUME LinkInv, ControlWrites \/ link_mcu_send
  PROVE  LinkInv'
<1>0. \A s \in Stamps : Following(s) \in Stamps
  BY LinkAssumption DEF Following, Stamps
<1>1. CASE ControlWrites
  <2>1. Chunk(1, ap_stamp') \in Firsts /\ ap_stamp' \in Stamps
    BY <1>0, <1>1 DEF ControlWrites, Firsts, LinkInv, ApMessage
  <2>2. ApMessage'
    BY <1>1, <2>1 DEF ControlWrites, LinkInv, ApMessage, master
  <2>3. Heard' /\ Judged' /\ LinkStaysArmed' /\ (line \in 0 .. 4)'
    BY <1>1 DEF ControlWrites, LinkInv, Heard, Judged, LinkStaysArmed, master, slave,
                fbw_loop, Clocking, Valid, Checksum, Says, Silent
  <2>4. QED
    BY <2>2, <2>3 DEF LinkInv
<1>2. CASE link_mcu_send
  <2> DEFINE written == [from_ap EXCEPT ![2] = Chunk(2, ap_stamp)]
  <2>1. Chunk(2, ap_stamp) \in Seconds
    BY DEF Seconds, LinkInv, ApMessage
  <2>2. /\ written \in [1 .. 3 -> {Zero} \cup Firsts \cup Seconds \cup Sums]
        /\ written[1] = from_ap[1] /\ written[2] = Chunk(2, ap_stamp)
        /\ written[3] = from_ap[3]
    BY <2>1 DEF LinkInv, ApMessage
  <2>3. CASE spi_cur_slave
    <3>1. from_ap' = written /\ UNCHANGED <<master, frame>>
      BY <1>2, <2>3 DEF link_mcu_send
    <3>2. ApMessage'
      BY <1>2, <2>1, <2>2, <3>1 DEF link_mcu_send, LinkInv, ApMessage, master
    <3>3. Heard' /\ Judged' /\ LinkStaysArmed' /\ (line \in 0 .. 4)'
      BY <1>2, <3>1 DEF link_mcu_send, LinkInv, Heard, Judged, LinkStaysArmed, master,
                slave, fbw_loop, Clocking, Valid, Checksum, Says, Silent
    <3>4. QED
      BY <3>2, <3>3 DEF LinkInv
  <2>4. CASE ~spi_cur_slave
    <3>1. /\ from_ap' = Signed(written) /\ line' = 1 /\ frame' = ap_stamp
          /\ spi_cur_slave' = TRUE /\ ~(slave_on /\ slave_rx_idx > 0)
      BY <1>2, <2>4 DEF link_mcu_send
    <3>2. written[1] = Chunk(1, ap_stamp) /\ Chunk(1, ap_stamp) # Zero
      BY <1>2, <2>2, Kinds DEF link_mcu_send, LinkInv, ApMessage, Firsts
    <3>3. Checksum(written) = Sum(ap_stamp) /\ Sum(ap_stamp) \in Sums
      BY <2>2, <3>2 DEF Checksum, Sum, Sums, LinkInv, ApMessage
    <3>4. /\ from_ap' \in [1 .. 3 -> {Zero} \cup Firsts \cup Seconds \cup Sums]
          /\ from_ap'[1] = from_ap[1] /\ from_ap'[2] = Chunk(2, ap_stamp)
          /\ from_ap'[3] = Sum(ap_stamp)
      BY <2>2, <3>1, <3>3 DEF Signed
    <3>5. ApMessage'
      BY <1>2, <2>1, <3>1, <3>3, <3>4 DEF link_mcu_send, LinkInv, ApMessage
    <3>6. Heard' /\ Judged'
      BY <1>2, <3>1 DEF link_mcu_send, LinkInv, Heard, Judged, slave, fbw_loop,
                        Clocking, Valid, Checksum, Says, Silent
    <3>7. LinkStaysArmed' /\ (line \in 0 .. 4)'
      BY <1>2, <3>1 DEF link_mcu_send, LinkInv, LinkStaysArmed, slave, fbw_loop
    <3>8. QED
      BY <3>5, <3>6, <3>7 DEF LinkInv
  <2>5. QED
    BY <2>3, <2>4
<1>3. QED
  BY <1>1, <1>2

(* The line.                                                                *)
LEMMA ClockKeeps ==
  ASSUME LinkInv, Clock
  PROVE  LinkInv'
<1>1. PICK mosi \in {from_ap[line], Zero} :
        IF slave_on /\ slave_rx_idx < 3
          THEN /\ from_ap_rx' = [from_ap_rx EXCEPT ![slave_rx_idx + 1] = mosi]
               /\ slave_rx_idx' = slave_rx_idx + 1
          ELSE UNCHANGED <<from_ap_rx, slave_rx_idx>>
  BY DEF Clock
<1>2. /\ line \in 1 .. 3 /\ line' = line + 1
      /\ UNCHANGED <<ap_loop, fbw_loop, spi_cur_slave, ap_spi_received, slave_on,
                     fbw_spi_received, frame, caught>>
  BY DEF Clock, Clocking
<1>3. /\ slave_rx_idx \in 0 .. 3
      /\ from_ap_rx \in [1 .. 3 -> {Zero} \cup Firsts \cup Seconds \cup Sums]
      /\ mosi \in {Zero} \cup Firsts \cup Seconds \cup Sums
  BY <1>1, <1>2 DEF LinkInv, Heard, ApMessage
<1>4. ApMessage' /\ LinkStaysArmed' /\ (line \in 0 .. 4)'
  BY <1>2 DEF LinkInv, ApMessage, LinkStaysArmed, ap_loop, fbw_loop
<1>5. CASE ~slave_on
  <2>1. UNCHANGED <<from_ap_rx, slave_rx_idx, slave_on, fbw_loop, caught,
                    fbw_spi_received>>
    BY <1>1, <1>2, <1>5
  <2>2. Heard' /\ Judged'
    BY <1>5, <2>1 DEF LinkInv, Heard, Judged, Clocking, fbw_loop, Valid, Checksum,
                      Says, Silent
  <2>3. QED
    BY <1>4, <2>2 DEF LinkInv
<1>6. CASE slave_on
  <2>1. slave_rx_idx < line /\ slave_rx_idx < 3
    BY <1>2, <1>6 DEF LinkInv, Heard, Clocking
  <2>2. /\ slave_rx_idx' = slave_rx_idx + 1
        /\ \A i \in 1 .. 3 : from_ap_rx'[i] =
                               IF i = slave_rx_idx + 1 THEN mosi ELSE from_ap_rx[i]
        /\ from_ap_rx' \in [1 .. 3 -> {Zero} \cup Firsts \cup Seconds \cup Sums]
    BY <1>1, <1>3, <1>6, <2>1
  <2>3. slave_rx_idx + 1 = 3 => line = 3 /\ mosi \in {Zero, Sum(frame)}
    BY <1>1, <1>2, <1>3, <2>1 DEF LinkInv, ApMessage
  <2>4. from_ap_rx'[3] \in {Zero} \cup Sums
    BY <1>3, <2>2, <2>3 DEF LinkInv, Heard, Sums, ApMessage
  <2>5. line # 1 => mosi \notin Firsts
    BY <1>1, <1>2, Kinds DEF LinkInv, ApMessage, Firsts, Seconds, Sums
  <2>6. 0 < slave_rx_idx /\ slave_rx_idx + 1 < line => from_ap_rx'[1] \notin Firsts
    BY <1>2, <1>3, <1>6, <2>2 DEF LinkInv, Heard, Clocking
  <2>7. slave_rx_idx = 0 /\ line # 1 => from_ap_rx'[1] \notin Firsts
    BY <2>2, <2>5
  <2>8. slave_rx_idx + 1 < line => from_ap_rx'[1] \notin Firsts
    BY <1>2, <1>3, <2>6, <2>7
  <2>9. Heard'
    <3>1. slave_rx_idx' \in 0 .. 3 /\ (slave_on /\ Clocking => slave_rx_idx < line)'
      BY <1>2, <1>3, <2>1, <2>2 DEF Clocking
    <3>2. slave_rx_idx' + 1 < line' => from_ap_rx'[1] \notin Firsts
      BY <1>2, <1>3, <2>2, <2>8
    <3>3. ~Clocking' /\ slave_rx_idx' < 3 => from_ap_rx'[1] \notin Firsts
      BY <1>2, <1>3, <2>2, <2>8 DEF Clocking
    <3>4. slave_rx_idx' = 3 => from_ap_rx'[3] \in {Zero, Sum(frame')}
      BY <1>2, <1>3, <2>2, <2>3
    <3>5. QED
      BY <2>2, <2>4, <3>1, <3>2, <3>3, <3>4 DEF Heard
  <2>10. Judged'
    BY <1>2, <1>6 DEF LinkInv, Judged, fbw_loop
  <2>11. QED
    BY <1>4, <2>9, <2>10 DEF LinkInv
<1>7. QED
  BY <1>5, <1>6

(* The slave stops listening: what it has is the frame, or is refused.       *)
LEMMA TimeoutKeeps ==
  ASSUME LinkInv, SlaveTimeout
  PROVE  LinkInv'
<1>1. /\ slave_on /\ slave_rx_idx > 0 /\ ~Clocking
      /\ slave_on' = FALSE /\ fbw_spi_received' = TRUE /\ caught' = frame
      /\ UNCHANGED <<slave_rx_idx, from_ap_rx, ap_loop, fbw_loop, master, frame>>
  BY DEF SlaveTimeout
<1>2. ApMessage' /\ Heard' /\ LinkStaysArmed' /\ (line \in 0 .. 4)'
  BY <1>1 DEF LinkInv, ApMessage, Heard, LinkStaysArmed, ap_loop, fbw_loop, master,
              Clocking
<1>3. ASSUME Valid(from_ap_rx)
      PROVE  Says(from_ap_rx, frame) \/ Silent(from_ap_rx)
  <2>1. CASE from_ap_rx[3] = Zero
    BY <1>3, <2>1, Kinds DEF Valid, Checksum, Silent
  <2>2. CASE from_ap_rx[3] # Zero
    <3>1. PICK s \in Stamps : from_ap_rx[3] = Sum(s)
      BY <2>2 DEF LinkInv, Heard, Sums
    <3>2. from_ap_rx[3] = <<"sum", from_ap_rx[1], from_ap_rx[2]>>
      BY <1>3, <2>2 DEF Valid, Checksum
    <3>3. from_ap_rx[1] = Chunk(1, s) /\ from_ap_rx[2] = Chunk(2, s)
      BY <3>1, <3>2, Kinds
    <3>4. slave_rx_idx = 3
      BY <1>1, <3>3 DEF LinkInv, Heard, Firsts
    <3>5. from_ap_rx[3] = Sum(frame)
      BY <1>1, <2>2, <3>4 DEF LinkInv, Heard
    <3>6. frame \in Stamps
      BY DEF LinkInv, ApMessage
    <3>7. QED
      BY <3>2, <3>5, <3>6, Kinds DEF Says
  <2>3. QED
    BY <2>1, <2>2
<1>4. Judged'
  BY <1>1, <1>3 DEF LinkInv, Judged, fbw_loop, Valid, Checksum, Says, Silent
<1>5. QED
  BY <1>2, <1>4 DEF LinkInv

(* The rest.                                                                *)
LEMMA LoopsKeep ==
  ASSUME LinkInv, MasterTimeout \/ ApEvent \/ FbwEvent \/ FbwRestart
                  \/ UNCHANGED link_vars
  PROVE  LinkInv'
<1>1. UNCHANGED <<from_ap, from_ap_rx, ap_stamp, writing, frame, caught>>
  BY DEF MasterTimeout, ApEvent, FbwEvent, FbwRestart, link_vars, ap_loop, fbw_loop,
         master, slave, watched
<1>2. CASE MasterTimeout
  BY <1>1, <1>2 DEF MasterTimeout, LinkInv, ApMessage, Heard, Judged, LinkStaysArmed,
            slave, fbw_loop, Clocking, Valid, Checksum, Says, Silent
<1>3. CASE ApEvent \/ UNCHANGED link_vars
  <2>1. UNCHANGED <<line, spi_cur_slave, slave, fbw_loop>>
    BY <1>3 DEF ApEvent, link_vars, master
  <2>2. QED
    BY <1>1, <2>1 DEF LinkInv, ApMessage, Heard, Judged, LinkStaysArmed,
              slave, fbw_loop, Clocking, Valid, Checksum, Says, Silent
<1>4. CASE FbwEvent
  BY <1>1, <1>4 DEF FbwEvent, LinkInv, ApMessage, Heard, Judged, LinkStaysArmed,
            master, Clocking, Valid, Checksum, Says, Silent
<1>5. CASE FbwRestart
  <2>1. /\ slave_on' = TRUE /\ slave_rx_idx' = 0 /\ inter_mcu_received_ap' = FALSE
        /\ fbw_spi_received' = FALSE
        /\ UNCHANGED <<line, spi_cur_slave>>
    BY <1>5 DEF FbwRestart, master
  <2>2. ApMessage' /\ LinkStaysArmed' /\ (line \in 0 .. 4)' /\ Judged'
    BY <1>1, <2>1 DEF LinkInv, ApMessage, LinkStaysArmed, Judged
  <2>3. Heard'
    BY <1>1, <2>1 DEF LinkInv, Heard, Clocking
  <2>4. QED
    BY <2>2, <2>3 DEF LinkInv
<1>6. QED
  BY <1>2, <1>3, <1>4, <1>5

LEMMA LinkStep ==
  ASSUME LinkInv, [LinkNext]_link_vars
  PROVE  LinkInv'
BY ControlKeeps, ClockKeeps, TimeoutKeeps, LoopsKeep DEF LinkNext

-----------------------------------------------------------------------------
(* The commands used are those of one control step, whatever was lost on the  *)
(* line or overran it, wherever in a frame the slave began to listen.        *)
THEOREM CommandsAreWhole == LinkSpec => []FbwHearsWhole
<1>1. LinkInit => LinkInv
  BY LinkInitInv
<1>2. LinkInv /\ [LinkNext]_link_vars => LinkInv'
  BY LinkStep
<1>3. LinkInv => FbwHearsWhole
  BY DEF LinkInv, Judged, FbwHearsWhole
<1>4. QED
  BY <1>1, <1>2, <1>3, PTL DEF LinkSpec, LinkSafety

(* Neither side is ever left waiting for the other.                          *)
THEOREM LinkNeverDeaf == LinkSpec => []LinkStaysArmed
<1>1. LinkInit => LinkInv
  BY LinkInitInv
<1>2. LinkInv /\ [LinkNext]_link_vars => LinkInv'
  BY LinkStep
<1>3. LinkInv => LinkStaysArmed
  BY DEF LinkInv
<1>4. QED
  BY <1>1, <1>2, <1>3, PTL DEF LinkSpec, LinkSafety

-----------------------------------------------------------------------------
(* Types, as far as LinkInv does not tell them.  What the slave has to send    *)
(* stays short because a slave that has stopped listening keeps at most the   *)
(* chunk its FIFO had prefetched, and only such a slave gets another message. *)
Flags ==
  /\ writing \in BOOLEAN /\ spi_cur_slave \in BOOLEAN /\ ap_spi_received \in BOOLEAN
  /\ inter_mcu_received_fbw \in BOOLEAN /\ slave_on \in BOOLEAN
  /\ fbw_spi_received \in BOOLEAN /\ inter_mcu_received_ap \in BOOLEAN
  /\ link_mcu_received \in BOOLEAN /\ fault \in BOOLEAN
  /\ fbw_spi_received \/ link_mcu_received => ~slave_on

Replies ==
  /\ from_fbw \in Messages /\ from_fbw_rx \in Messages
  /\ fbw_stamp \in Stamps /\ caught \in Stamps /\ reply \in Stamps

Queue ==
  /\ slave_tx \in Seq(Chunks) /\ Len(slave_tx) <= 4
  /\ ~slave_on => Len(slave_tx) <= 1

LEMMA StampType == 0 \in Stamps /\ \A s \in Stamps : Following(s) \in Stamps
BY LinkAssumption DEF Following, Stamps

LEMMA ChunkType ==
  /\ Zero \in Data /\ Data \subseteq Chunks
  /\ Firsts \subseteq Data /\ Seconds \subseteq Data /\ Sums \subseteq Chunks
<1>1. Zero \in Data /\ Data \subseteq Chunks
  BY DEF Data, Chunks
<1>2. ASSUME NEW s \in Stamps
      PROVE  Chunk(1, s) \in Data /\ Chunk(2, s) \in Data
  BY DEF Data
<1>3. Firsts \subseteq Data /\ Seconds \subseteq Data
  BY <1>2 DEF Firsts, Seconds
<1>4. Sums \subseteq Chunks
  BY <1>2 DEF Sums, Sum, Chunks
<1>5. QED
  BY <1>1, <1>3, <1>4

(* A message is a sequence of chunks.                                       *)
LEMMA MessageSeq ==
  ASSUME NEW m \in Messages
  PROVE  m \in Seq(Chunks) /\ Len(m) = 3
<1>1. m \in [1 .. 3 -> Chunks] /\ 3 \in Nat
  BY DEF Messages
<1>2. m \in Seq(Chunks)
  BY <1>1, SeqDef
<1>3. DOMAIN m = 1 .. Len(m) /\ DOMAIN m = 1 .. 3 /\ Len(m) \in Nat
  BY <1>1, <1>2, LenProperties
<1>4. ASSUME NEW n \in Nat, 1 .. n = 1 .. 3
      PROVE  n = 3
  <2>1. 3 \in 1 .. n
    BY <1>4
  <2>2. n \in 1 .. 3
    BY <1>4, <2>1
  <2>3. QED
    BY <2>1, <2>2
<1>5. QED
  BY <1>2, <1>3, <1>4

LEMMA FlagsStep ==
  ASSUME LinkInv, Flags, [LinkNext]_link_vars
  PROVE  Flags'
<1>1. CASE ControlWrites
  BY <1>1 DEF ControlWrites, Flags, fbw_loop, master, slave
<1>2. CASE link_mcu_send
  BY <1>2 DEF link_mcu_send, Flags, fbw_loop, master, slave
<1>3. CASE Clock
  BY <1>3 DEF Clock, Flags, ap_loop, fbw_loop
<1>4. CASE MasterTimeout
  BY <1>4 DEF MasterTimeout, Flags, ap_loop, fbw_loop, slave, watched
<1>5. CASE SlaveTimeout
  BY <1>5 DEF SlaveTimeout, Flags, ap_loop, fbw_loop, master
<1>6. CASE ApEvent \/ FbwEvent \/ FbwRestart
  <2>1. \A m : Valid(m) \in BOOLEAN
    BY DEF Valid
  <2>2. CASE ApEvent
    <3>1. ap_spi_received' \in BOOLEAN /\ inter_mcu_received_fbw' \in BOOLEAN
      BY <2>1, <2>2, Zenon DEF ApEvent, Flags, master
    <3>2. UNCHANGED <<writing, spi_cur_slave, slave_on, fbw_spi_received,
                      inter_mcu_received_ap, link_mcu_received, fault>>
      BY <2>2 DEF ApEvent, fbw_loop, master, slave, watched
    <3>3. QED
      BY <3>1, <3>2 DEF Flags
  <2>3. CASE FbwEvent
    BY <2>1, <2>3 DEF FbwEvent, Flags, ap_loop, master, watched
  <2>4. CASE FbwRestart
    BY <2>4 DEF FbwRestart, Flags, ap_loop, master, watched
  <2>5. QED
    BY <1>6, <2>2, <2>3, <2>4
<1>7. CASE UNCHANGED link_vars
  BY <1>7 DEF link_vars, Flags, ap_loop, fbw_loop, master, slave, watched
<1>8. QED
  BY <1>1, <1>2, <1>3, <1>4, <1>5, <1>6, <1>7 DEF LinkNext

(* What link_mcu_restart fills in is a message, and a sequence of chunks.    *)
LEMMA RefilledType ==
  ASSUME FbwRestart, Replies
  PROVE  /\ fbw_stamp' \in Stamps
         /\ from_fbw' \in Messages
         /\ from_fbw' \in Seq(Chunks) /\ Len(from_fbw') = 3
<1> DEFINE m == [i \in 1 .. 3 |-> Chunk(i, fbw_stamp')]
<1>1. fbw_stamp' \in Stamps
  BY StampType DEF FbwRestart, Replies
<1>2. m[1] \in Data /\ m[2] \in Data
  BY <1>1 DEF Data
<1>3. Checksum(m) \in Chunks /\ m[1] \in Chunks /\ m[2] \in Chunks
  BY <1>2, ChunkType DEF Checksum, Chunks
<1>4. from_fbw' = [i \in 1 .. 3 |-> IF i = 3 THEN Checksum(m) ELSE m[i]]
  BY DEF FbwRestart, Signed
<1>5. from_fbw' \in Messages
  BY <1>3, <1>4 DEF Messages
<1>6. from_fbw' \in Seq(Chunks) /\ Len(from_fbw') = 3
  BY <1>5, MessageSeq
<1>7. QED
  BY <1>1, <1>5, <1>6

(* What the master reads while a frame is clocked.                          *)
LEMMA ClockedType ==
  ASSUME Clock, Replies, Queue
  PROVE  /\ slave_tx' \in Seq(Chunks) /\ Len(slave_tx') <= Len(slave_tx)
         /\ from_fbw_rx' \in Messages
<1>1. CASE slave_on /\ slave_tx # <<>>
  <2>1. /\ Head(slave_tx) \in Chunks /\ Tail(slave_tx) \in Seq(Chunks)
        /\ Len(Tail(slave_tx)) <= Len(slave_tx)
    BY <1>1 DEF Queue
  <2>2. /\ slave_tx' = Tail(slave_tx)
        /\ from_fbw_rx' = [from_fbw_rx EXCEPT ![line] = Head(slave_tx)]
    BY <1>1 DEF Clock
  <2>3. QED
    BY <2>1, <2>2 DEF Messages, Replies
<1>2. CASE ~(slave_on /\ slave_tx # <<>>)
  <2>1. /\ slave_tx' = slave_tx
        /\ from_fbw_rx' = [from_fbw_rx EXCEPT ![line] = Zero]
    BY <1>2 DEF Clock
  <2>2. Zero \in Chunks
    BY ChunkType
  <2>3. from_fbw_rx' \in Messages
    BY <2>1, <2>2 DEF Messages, Replies
  <2>4. slave_tx' \in Seq(Chunks) /\ Len(slave_tx') <= Len(slave_tx)
    <3>1. Len(slave_tx) \in Nat
      BY LenProperties DEF Queue
    <3>2. QED
      BY <2>1, <3>1 DEF Queue
  <2>5. QED
    BY <2>3, <2>4
<1>3. QED
  BY <1>1, <1>2

LEMMA RepliesStep ==
  ASSUME LinkInv, Replies, Queue, [LinkNext]_link_vars
  PROVE  Replies'
<1>1. CASE ControlWrites \/ link_mcu_send
  BY <1>1 DEF ControlWrites, link_mcu_send, Replies, fbw_loop, master
<1>2. CASE Clock
  <2>1. reply' \in Stamps
    BY <1>2 DEF Clock, Replies
  <2>2. QED
    BY <1>2, <2>1, ClockedType DEF Clock, Replies, fbw_loop
<1>3. CASE MasterTimeout \/ SlaveTimeout
  <2>1. frame \in Stamps
    BY DEF LinkInv, ApMessage
  <2>2. QED
    BY <1>3, <2>1 DEF MasterTimeout, SlaveTimeout, Replies, fbw_loop, master, watched
<1>4. CASE ApEvent
  BY <1>4 DEF ApEvent, Replies, fbw_loop, master, watched
<1>5. CASE FbwEvent
  BY <1>5 DEF FbwEvent, Replies, master, watched
<1>6. CASE FbwRestart
  BY <1>6, RefilledType DEF FbwRestart, Replies, master, watched
<1>7. CASE UNCHANGED link_vars
  BY <1>7 DEF link_vars, Replies, fbw_loop, master, watched
<1>8. QED
  BY <1>1, <1>2, <1>3, <1>4, <1>5, <1>6, <1>7 DEF LinkNext

LEMMA QueueStep ==
  ASSUME Flags, Replies, Queue, [LinkNext]_link_vars
  PROVE  Queue'
<1>1. CASE UNCHANGED <<slave_tx, slave_on>>
  BY <1>1 DEF Queue
<1>2. CASE Clock
  <2>1. UNCHANGED slave_on
    BY <1>2 DEF Clock
  <2>2. Len(slave_tx') \in Nat /\ Len(slave_tx) \in Nat
    BY <1>2, ClockedType DEF Queue
  <2>3. QED
    BY <1>2, <2>1, <2>2, ClockedType DEF Queue
<1>3. CASE SlaveTimeout
  <2>1. CASE slave_tx' = <<>>
    BY <2>1 DEF Queue
  <2>2. CASE \E i \in DOMAIN slave_tx : slave_tx' = <<slave_tx[i]>>
    <3>1. PICK i \in DOMAIN slave_tx : slave_tx' = <<slave_tx[i]>>
      BY <2>2
    <3>2. slave_tx[i] \in Chunks
      BY <3>1 DEF Queue
    <3>3. QED
      BY <3>1, <3>2 DEF Queue
  <2>3. QED
    BY <1>3, <2>1, <2>2 DEF SlaveTimeout, Leftover
<1>4. CASE FbwRestart
  <2>1. /\ slave_tx \in Seq(Chunks) /\ Len(slave_tx) <= 1
        /\ slave_tx' = slave_tx \o from_fbw' /\ slave_on'
    BY <1>4 DEF FbwRestart, Flags, Queue
  <2>2. from_fbw' \in Seq(Chunks) /\ Len(from_fbw') = 3
    BY <1>4, RefilledType
  <2>3. slave_tx' \in Seq(Chunks) /\ Len(slave_tx') = Len(slave_tx) + 3
    <3>1. ASSUME NEW s \in Seq(Chunks), NEW t \in Seq(Chunks)
          PROVE  s \o t \in Seq(Chunks) /\ Len(s \o t) = Len(s) + Len(t)
      BY ConcatProperties
    <3>2. QED
      BY <2>1, <2>2, <3>1
  <2>4. Len(slave_tx) \in Nat
    BY <2>1
  <2>5. QED
    BY <2>1, <2>3, <2>4 DEF Queue
<1>5. QED
  BY <1>1, <1>2, <1>3, <1>4
  DEF LinkNext, ControlWrites, link_mcu_send, MasterTimeout, ApEvent, FbwEvent,
      slave, link_vars

LEMMA LinkTypesInit ==
  ASSUME LinkInit
  PROVE  Flags /\ Replies /\ Queue
<1>1. Zeros \in Messages
  BY ChunkType DEF Zeros, Messages
<1>2. Zeros \in Seq(Chunks) /\ Len(Zeros) = 3
  BY <1>1, MessageSeq
<1>3. Flags
  BY DEF LinkInit, Flags
<1>4. Replies
  BY <1>1, StampType DEF LinkInit, Replies
<1>5. Queue
  BY <1>2 DEF LinkInit, Queue
<1>6. QED
  BY <1>3, <1>4, <1>5

(* Type correctness of the link; in particular the slave never has more to     *)
(* send than a message and what its FIFO had prefetched.                    *)
THEOREM LinkTypeCorrect == LinkSpec => []LinkTypeOK
<1> DEFINE Types == LinkInv /\ Flags /\ Replies /\ Queue
<1>1. LinkInit => Types
  BY LinkTypesInit, LinkInitInv
<1>2. Types /\ [LinkNext]_link_vars => Types'
  BY LinkStep, FlagsStep, RepliesStep, QueueStep
<1>3. Types => LinkTypeOK
  <2> SUFFICES ASSUME Types
               PROVE  LinkTypeOK
    OBVIOUS
  <2>1. from_ap \in Messages /\ from_ap_rx \in Messages
    BY ChunkType DEF LinkInv, ApMessage, Heard, Messages
  <2>2. /\ ap_stamp \in Stamps /\ frame \in Stamps
        /\ line \in 0 .. 4 /\ slave_rx_idx \in 0 .. 3
    BY DEF LinkInv, ApMessage, Heard
  <2>3. QED
    BY <2>1, <2>2 DEF LinkTypeOK, Flags, Replies, Queue
<1>4. QED
  BY <1>1, <1>2, <1>3, PTL DEF LinkSpec, LinkSafety
-----------------------------------------------------------------------------
(* The other way.  A checksum the slave sends is that of its latest message,  *)
(* unless it is the chunk its FIFO had left over, and that one goes out as    *)
(* the first since the restart: whatever was clocked before it in the frame   *)
(* was zero, and a checksum of zeros it is not.                              *)
Kind == {Zero} \cup Firsts \cup Seconds \cup Sums

OwnSum(i) == \/ slave_tx[i] \notin Sums
             \/ slave_tx[i] = Sum(fbw_stamp)
             \/ i = 1 /\ slave_rx_idx = 0

Sends ==
  /\ slave_tx \in Seq(Kind)
  /\ slave_on => \A i \in 1 .. Len(slave_tx) : OwnSum(i)

Whole == Valid(from_fbw_rx) => Says(from_fbw_rx, reply) \/ Silent(from_fbw_rx)

Hears ==
  /\ from_fbw_rx \in [1 .. 3 -> Kind]
  /\ Clocking /\ (~slave_on \/ slave_rx_idx = 0) =>
       \A i \in 1 .. 3 : i < line => from_fbw_rx[i] = Zero
  /\ line = 4 \/ ap_spi_received => Whole
  /\ ApHearsWhole
  /\ ap_spi_received => line = 0
  /\ inter_mcu_received_fbw => line = 0 /\ ~writing

LEMMA Refilled ==
  ASSUME FbwRestart, Replies
  PROVE  /\ from_fbw' \in Seq(Kind) /\ Len(from_fbw') = 3
         /\ from_fbw'[1] \notin Sums /\ from_fbw'[2] \notin Sums
         /\ from_fbw'[3] = Sum(fbw_stamp')
<1> DEFINE m == [i \in 1 .. 3 |-> Chunk(i, fbw_stamp')]
<1>1. fbw_stamp' \in Stamps
  BY RefilledType
<1>2. Checksum(m) = Sum(fbw_stamp') /\ Sum(fbw_stamp') \in Sums
  BY <1>1, Kinds DEF Checksum, Sum, Sums, Firsts
<1>3. from_fbw' = [i \in 1 .. 3 |-> IF i = 3 THEN Checksum(m) ELSE m[i]]
  BY DEF FbwRestart, Signed
<1>4. /\ from_fbw'[1] = Chunk(1, fbw_stamp') /\ from_fbw'[2] = Chunk(2, fbw_stamp')
      /\ from_fbw'[3] = Sum(fbw_stamp')
  BY <1>2, <1>3
<1>5. from_fbw'[1] \in Kind /\ from_fbw'[2] \in Kind /\ from_fbw'[3] \in Kind
  BY <1>1, <1>2, <1>4 DEF Kind, Firsts, Seconds
<1>6. from_fbw' \in [1 .. 3 -> Kind] /\ 3 \in Nat
  BY <1>3, <1>5
<1>7. from_fbw' \in Seq(Kind) /\ Len(from_fbw') = 3
  <2>1. from_fbw' \in Seq(Kind)
    BY <1>6, SeqDef
  <2>2. QED
    BY <2>1, RefilledType
<1>8. /\ Chunk(1, fbw_stamp') \notin Sums /\ Chunk(2, fbw_stamp') \notin Sums
  BY <1>1, Kinds DEF Sums
<1>9. QED
  BY <1>4, <1>7, <1>8

LEMMA SendsStep ==
  ASSUME LinkInv, Flags, Replies, Queue, Sends, [LinkNext]_link_vars
  PROVE  Sends'
<1>1. CASE UNCHANGED <<slave_tx, slave_on, slave_rx_idx, fbw_stamp>>
  BY <1>1 DEF Sends, OwnSum
<1>2. CASE Clock
  <2>1. slave_on' = slave_on /\ fbw_stamp' = fbw_stamp
    BY <1>2 DEF Clock, fbw_loop
  <2>2. CASE slave_on /\ slave_tx # <<>>
    <3>1. slave_tx' = Tail(slave_tx)
      BY <1>2, <2>2 DEF Clock
    <3>2. /\ slave_tx' \in Seq(Kind)
          /\ Len(slave_tx) \in Nat /\ Len(slave_tx') = Len(slave_tx) - 1
          /\ \A i \in 1 .. Len(slave_tx') : slave_tx'[i] = slave_tx[i + 1]
      BY <2>2, <3>1, HeadTailProperties, LenProperties DEF Sends
    <3>3. \A i \in 1 .. Len(slave_tx') :
            slave_tx'[i] \notin Sums \/ slave_tx'[i] = Sum(fbw_stamp)
      BY <2>2, <3>2 DEF Sends, OwnSum
    <3>4. QED
      BY <2>1, <3>2, <3>3 DEF Sends, OwnSum
  <2>3. CASE ~slave_on
    BY <1>2, <2>1, <2>3 DEF Clock, Sends
  <2>4. CASE slave_on /\ slave_tx = <<>>
    <3>1. slave_tx' = <<>> /\ Len(slave_tx') = 0
      BY <1>2, <2>4 DEF Clock
    <3>2. QED
      BY <3>1 DEF Sends
  <2>5. QED
    BY <2>2, <2>3, <2>4
<1>3. CASE SlaveTimeout
  <2>1. ~slave_on'
    BY <1>3 DEF SlaveTimeout
  <2>2. slave_tx' \in Seq(Kind)
    <3>1. CASE slave_tx' = <<>>
      BY <3>1
    <3>2. CASE \E i \in DOMAIN slave_tx : slave_tx' = <<slave_tx[i]>>
      <4>1. PICK i \in DOMAIN slave_tx : slave_tx' = <<slave_tx[i]>>
        BY <3>2
      <4>2. slave_tx[i] \in Kind
        BY <4>1 DEF Sends
      <4>3. QED
        BY <4>1, <4>2
    <3>3. QED
      BY <1>3, <3>1, <3>2 DEF SlaveTimeout, Leftover
  <2>3. QED
    BY <2>1, <2>2 DEF Sends
<1>4. CASE FbwRestart
  <2>1. /\ slave_tx \in Seq(Kind) /\ Len(slave_tx) \in Nat /\ Len(slave_tx) <= 1
        /\ slave_tx' = slave_tx \o from_fbw' /\ slave_rx_idx' = 0
    BY <1>4, LenProperties DEF FbwRestart, Flags, Queue, Sends
  <2>2. /\ from_fbw' \in Seq(Kind) /\ Len(from_fbw') = 3
        /\ from_fbw'[1] \notin Sums /\ from_fbw'[2] \notin Sums
        /\ from_fbw'[3] = Sum(fbw_stamp')
    BY <1>4, Refilled
  <2>3. /\ slave_tx' \in Seq(Kind) /\ Len(slave_tx') = Len(slave_tx) + 3
        /\ \A i \in 1 .. Len(slave_tx) + 3 :
             slave_tx'[i] = IF i <= Len(slave_tx) THEN slave_tx[i]
                            ELSE from_fbw'[i - Len(slave_tx)]
    <3>1. ASSUME NEW s \in Seq(Kind), NEW t \in Seq(Kind), Len(t) = 3
          PROVE  /\ s \o t \in Seq(Kind) /\ Len(s \o t) = Len(s) + 3
                 /\ \A i \in 1 .. Len(s) + 3 :
                      (s \o t)[i] = IF i <= Len(s) THEN s[i] ELSE t[i - Len(s)]
      <4>1. /\ s \o t \in Seq(Kind) /\ Len(s \o t) = Len(s) + Len(t)
            /\ \A i \in 1 .. Len(s) + Len(t) :
                 (s \o t)[i] = IF i <= Len(s) THEN s[i] ELSE t[i - Len(s)]
        BY ConcatProperties
      <4>2. QED
        BY <3>1, <4>1
    <3>2. QED
      BY <2>1, <2>2, <3>1
  <2>4. ASSUME NEW i \in 1 .. Len(slave_tx')
        PROVE  \/ slave_tx'[i] \notin Sums
               \/ slave_tx'[i] = Sum(fbw_stamp')
               \/ i = 1
    <3>0. i \in Nat /\ 1 <= i /\ i <= Len(slave_tx) + 3
      BY <2>1, <2>3
    <3>1. CASE i <= Len(slave_tx)
      BY <2>1, <3>0, <3>1
    <3>2. CASE i > Len(slave_tx)
      <4>1. i - Len(slave_tx) \in {1, 2, 3}
        BY <2>1, <3>0, <3>2
      <4>2. slave_tx'[i] = from_fbw'[i - Len(slave_tx)]
        BY <2>1, <2>3, <3>0, <3>2
      <4>3. QED
        BY <2>2, <4>1, <4>2
    <3>3. QED
      BY <2>1, <3>0, <3>1, <3>2
  <2>5. QED
    BY <2>1, <2>3, <2>4 DEF Sends, OwnSum
<1>5. QED
  BY <1>1, <1>2, <1>3, <1>4
  DEF LinkNext, ControlWrites, link_mcu_send, MasterTimeout, ApEvent, FbwEvent,
      slave, fbw_loop, link_vars

LEMMA DataIsNoSum ==
  \A i, s, a, b : Chunk(i, s) # <<"sum", a, b>> /\ Chunk(i, s) # Zero
<1>1. \A a, b : <<"data", a, b>>[1] = "data" /\ <<"sum", a, b>>[1] = "sum"
                /\ Zero[1] = "zero"
  BY DEF Zero
<1>2. QED
  BY <1>1 DEF Chunk

(* A chunk is clocked.  The third settles what the autopilot has read.        *)
LEMMA ClockHears ==
  ASSUME LinkInv, Sends, Hears, Clock
  PROVE  Hears'
<1>1. /\ line \in 1 .. 3 /\ line' = line + 1
      /\ slave_on' = slave_on
      /\ UNCHANGED <<ap_spi_received, inter_mcu_received_fbw>>
  BY DEF Clock, Clocking, ap_loop
<1>2. ~ap_spi_received /\ ~inter_mcu_received_fbw
  BY <1>1 DEF Hears
<1>3. slave_on => slave_rx_idx' # 0
  BY <1>1 DEF Clock, LinkInv, Heard
<1>4. PICK c : /\ from_fbw_rx' = [from_fbw_rx EXCEPT ![line] = c]
               /\ \/ c = Zero
                  \/ slave_on /\ slave_tx # <<>> /\ c = Head(slave_tx)
  BY DEF Clock
<1>5. c = Zero \/ (slave_on /\ c \in Kind /\ OwnSum(1) /\ c = slave_tx[1])
  <2>1. CASE c # Zero
    <3>1. /\ slave_tx \in Seq(Kind) /\ slave_tx # <<>> /\ slave_on
          /\ c = Head(slave_tx)
      BY <1>4, <2>1 DEF Sends
    <3>2. c = slave_tx[1] /\ c \in Kind /\ 1 \in 1 .. Len(slave_tx)
      BY <3>1
    <3>3. QED
      BY <3>1, <3>2 DEF Sends
  <2>2. QED
    BY <2>1
<1>6. from_fbw_rx' \in [1 .. 3 -> Kind]
  BY <1>1, <1>4, <1>5 DEF Hears, Kind
<1>7. Clocking' /\ (~slave_on' \/ slave_rx_idx' = 0)
        => \A i \in 1 .. 3 : i < line' => from_fbw_rx'[i] = Zero
  <2>1. CASE slave_on
    BY <1>1, <1>3, <2>1
  <2>2. CASE ~slave_on
    <3>1. c = Zero /\ \A i \in 1 .. 3 : i < line => from_fbw_rx[i] = Zero
      BY <1>1, <1>4, <2>2 DEF Hears, Clocking
    <3>2. \A i \in 1 .. 3 : i < line + 1 => from_fbw_rx'[i] = Zero
      BY <1>1, <1>4, <3>1 DEF Hears
    <3>3. QED
      BY <1>1, <3>2
  <2>3. QED
    BY <2>1, <2>2
<1>8. ASSUME line = 3, Valid(from_fbw_rx')
      PROVE  Says(from_fbw_rx', reply') \/ Silent(from_fbw_rx')
  <2>1. /\ reply' = fbw_stamp
        /\ from_fbw_rx'[1] = from_fbw_rx[1] /\ from_fbw_rx'[2] = from_fbw_rx[2]
        /\ from_fbw_rx'[3] = c
    BY <1>4, <1>8 DEF Clock, Hears
  <2>2. CASE c = Zero
    BY <1>8, <2>1, <2>2, Kinds DEF Valid, Checksum, Silent
  <2>3. CASE c # Zero
    <3>1. c = <<"sum", from_fbw_rx'[1], from_fbw_rx'[2]>>
      BY <1>8, <2>1, <2>3 DEF Valid, Checksum
    <3>2. c \in Sums
      BY <1>5, <2>3, <3>1, DataIsNoSum DEF Kind, Firsts, Seconds
    <3>3. PICK s \in Stamps : c = Sum(s)
      BY <3>2 DEF Sums
    <3>4. from_fbw_rx'[1] = Chunk(1, s) /\ from_fbw_rx'[2] = Chunk(2, s)
      BY <3>1, <3>3, Kinds
    <3>5. slave_rx_idx # 0
      <4>1. from_fbw_rx[1] # Zero
        BY <2>1, <3>4, DataIsNoSum
      <4>2. QED
        BY <1>1, <1>8, <4>1 DEF Hears, Clocking
    <3>6. c = Sum(fbw_stamp)
      BY <1>5, <2>3, <3>2, <3>5 DEF OwnSum
    <3>7. from_fbw_rx'[1] = Chunk(1, fbw_stamp) /\ from_fbw_rx'[2] = Chunk(2, fbw_stamp)
      <4>1. Chunk(1, s) = Chunk(1, fbw_stamp) /\ Chunk(2, s) = Chunk(2, fbw_stamp)
        BY <3>3, <3>6, Kinds DEF Sum
      <4>2. QED
        BY <3>4, <4>1
    <3>8. QED
      BY <2>1, <3>7 DEF Says
  <2>4. QED
    BY <2>2, <2>3
<1>9. line' = 4 \/ ap_spi_received' => Whole'
  BY <1>1, <1>2, <1>8 DEF Whole, Valid, Checksum, Says, Silent
<1>10. QED
  BY <1>1, <1>2, <1>6, <1>7, <1>9 DEF Hears, ApHearsWhole

LEMMA HearsStep ==
  ASSUME LinkInv, Flags, Sends, Hears, [LinkNext]_link_vars
  PROVE  Hears'
<1>1. CASE ControlWrites
  <2>1. UNCHANGED <<master, slave, inter_mcu_received_fbw, reply>>
        /\ ~inter_mcu_received_fbw
    BY <1>1 DEF ControlWrites
  <2>2. QED
    BY <2>1 DEF Hears, Whole, ApHearsWhole, Valid, Checksum, Says, Silent, Clocking,
                master, slave
<1>2. CASE link_mcu_send
  <2>1. /\ UNCHANGED <<from_fbw_rx, slave, inter_mcu_received_fbw, reply>>
        /\ ~inter_mcu_received_fbw
        /\ UNCHANGED <<line, ap_spi_received>> \/ (line' = 1 /\ ~ap_spi_received')
    BY <1>2 DEF link_mcu_send, Hears, master
  <2>2. QED
    BY <2>1 DEF Hears, Whole, ApHearsWhole, Valid, Checksum, Says, Silent, Clocking, slave
<1>3. CASE Clock
  BY <1>3, ClockHears
<1>4. CASE MasterTimeout
  <2>1. /\ line = 4 /\ line' = 0
        /\ UNCHANGED <<from_fbw_rx, inter_mcu_received_fbw, reply>>
    BY <1>4 DEF MasterTimeout, ap_loop, watched
  <2>2. Whole' /\ ~inter_mcu_received_fbw'
    BY <2>1 DEF Hears, Whole, Valid, Checksum, Says, Silent
  <2>3. QED
    BY <2>1, <2>2 DEF Hears, ApHearsWhole, Clocking
<1>5. CASE SlaveTimeout
  <2>1. ~Clocking /\ UNCHANGED <<master, inter_mcu_received_fbw, writing, reply>>
    BY <1>5 DEF SlaveTimeout, ap_loop
  <2>2. QED
    BY <2>1 DEF Hears, Whole, ApHearsWhole, Valid, Checksum, Says, Silent, Clocking,
                master
<1>6. CASE ApEvent
  <2>1. UNCHANGED <<from_fbw_rx, reply, writing, line, slave>>
    BY <1>6 DEF ApEvent, master, watched
  <2>2. CASE ap_spi_received /\ ~ap_spi_received' /\ ~writing
             /\ inter_mcu_received_fbw' = Valid(from_fbw_rx)
    <3>1. line = 0 /\ Whole
      BY <2>2 DEF Hears
    <3>2. ApHearsWhole'
      BY <2>1, <2>2, <3>1 DEF Whole, ApHearsWhole, Says, Silent
    <3>3. QED
      BY <2>1, <2>2, <3>1, <3>2 DEF Hears, Clocking
  <2>3. CASE ~inter_mcu_received_fbw' /\ UNCHANGED ap_spi_received
    BY <2>1, <2>3 DEF Hears, Whole, ApHearsWhole, Valid, Checksum, Says, Silent,
                      Clocking, slave
  <2>4. QED
    BY <1>6, <2>2, <2>3 DEF ApEvent, master
<1>7. CASE FbwEvent \/ UNCHANGED link_vars
  <2>1. UNCHANGED <<master, slave_on, slave_rx_idx, inter_mcu_received_fbw, writing,
                    reply>>
    BY <1>7 DEF FbwEvent, link_vars, ap_loop, slave, watched
  <2>2. QED
    BY <2>1 DEF Hears, Whole, ApHearsWhole, Valid, Checksum, Says, Silent, Clocking,
                master
<1>8. CASE FbwRestart
  <2>1. /\ ~slave_on
        /\ UNCHANGED <<master, inter_mcu_received_fbw, writing, reply>>
    BY <1>8 DEF FbwRestart, Flags, ap_loop, watched
  <2>2. QED
    BY <2>1 DEF Hears, Whole, ApHearsWhole, Valid, Checksum, Says, Silent, Clocking,
                master
<1>9. QED
  BY <1>1, <1>2, <1>3, <1>4, <1>5, <1>6, <1>7, <1>8 DEF LinkNext

(* The radio's state that the autopilot uses is of one message of the          *)
(* fly-by-wire, the last, or the zeros of a silent slave, although the slave  *)
(* may restart in the middle of a frame and its FIFO may hold an old chunk.   *)
THEOREM RepliesAreWhole == LinkSpec => []ApHearsWhole
<1> DEFINE Inv == LinkInv /\ Flags /\ Replies /\ Queue /\ Sends /\ Hears
<1>1. LinkInit => Inv
  <2> SUFFICES ASSUME LinkInit
               PROVE  Inv
    OBVIOUS
  <2>1. Flags /\ Replies /\ Queue
    BY LinkTypesInit
  <2>2. Zeros = [i \in 1 .. 3 |-> Zero] /\ Zeros \in [1 .. 3 -> Kind] /\ 3 \in Nat
    BY DEF Zeros, Kind
  <2>3. Zeros \in Seq(Kind)
    BY <2>2, SeqDef
  <2>4. \A i \in 1 .. Len(Zeros) : Zeros[i] \notin Sums
    BY Kinds DEF Zeros
  <2>5. Sends
    BY <2>3, <2>4 DEF LinkInit, Sends, OwnSum
  <2>6. Hears
    BY <2>2 DEF LinkInit, Hears, ApHearsWhole, Clocking
  <2>7. QED
    BY <2>1, <2>5, <2>6, LinkInitInv
<1>2. Inv /\ [LinkNext]_link_vars => Inv'
  BY LinkStep, FlagsStep, RepliesStep, QueueStep, SendsStep, HearsStep
<1>3. Inv => ApHearsWhole
  BY DEF Hears
<1>4. QED
  BY <1>1, <1>2, <1>3, PTL DEF LinkSpec, LinkSafety

-----------------------------------------------------------------------------
(* Recovery.  A slave restarted between two frames hears the next one from     *)
(* its first chunk: what it has heard is what the autopilot's message says,   *)
(* as long as nothing is lost or overrun.                                   *)
HeardSoFar ==
  \/ ~Clocking /\ slave_rx_idx = 0
  \/ /\ Clocking /\ slave_rx_idx + 1 = line /\ ~writing /\ Valid(from_ap)
     /\ \A i \in 1 .. 3 : i < line => from_ap_rx[i] = from_ap[i]
  \/ ~Clocking /\ slave_rx_idx = 3 /\ Valid(from_ap_rx)

Told == ~slave_on /\ fbw_spi_received /\ ~link_mcu_received /\ Valid(from_ap_rx)

InTune == (slave_on /\ HeardSoFar) \/ Told

RestartBetween == FbwRestart /\ ~Clocking

(* Only a slave that has been told of a frame is restarted.                   *)
LEMMA TuneNeedsNoRestart ==
  ASSUME Flags, InTune
  PROVE  ~RestartBetween
BY DEF Flags, InTune, Told, RestartBetween, FbwRestart

LEMMA RestartTunes ==
  ASSUME RestartBetween
  PROVE  InTune'
BY DEF RestartBetween, FbwRestart, InTune, HeardSoFar, Clocking, master

LEMMA SendTunes ==
  ASSUME LinkInv, InTune, link_mcu_send
  PROVE  InTune'
<1>1. CASE Told
  BY <1>1 DEF Told, InTune, link_mcu_send, slave, fbw_loop
<1>2. CASE slave_on /\ spi_cur_slave
  <2>1. ~(Clocking /\ slave_rx_idx + 1 = line /\ ~writing)
    BY DEF link_mcu_send
  <2>2. QED
    BY <1>2, <2>1
       DEF InTune, Told, HeardSoFar, link_mcu_send, slave, master, Clocking
<1>3. CASE slave_on /\ ~spi_cur_slave
  <2>1. /\ from_ap' = Signed([from_ap EXCEPT ![2] = Chunk(2, ap_stamp)])
        /\ line' = 1 /\ ~writing' /\ slave_on' /\ slave_rx_idx' = slave_rx_idx
        /\ slave_rx_idx = 0
    <3>1. slave_rx_idx \in 0 .. 3
      BY DEF LinkInv, Heard
    <3>2. QED
      BY <1>3, <3>1 DEF link_mcu_send, slave
  <2>2. Valid(from_ap')
    <3> DEFINE m == [from_ap EXCEPT ![2] = Chunk(2, ap_stamp)]
    <3>1. DOMAIN m = 1 .. 3
      BY DEF LinkInv, ApMessage
    <3> HIDE DEF m
    <3>2. /\ Signed(m)[3] = Checksum(m)
          /\ Signed(m)[1] = m[1] /\ Signed(m)[2] = m[2]
      BY <3>1 DEF Signed
    <3>3. QED
      BY <2>1, <3>2 DEF Valid, Checksum, m
  <2>3. QED
    BY <2>1, <2>2 DEF InTune, HeardSoFar, Clocking, Valid, Checksum
<1>4. QED
  BY <1>1, <1>2, <1>3 DEF InTune

LEMMA ClockTunes ==
  ASSUME LinkInv, InTune, Clock, ~fault'
  PROVE  InTune'
<1>1. CASE Told
  BY <1>1 DEF Told, InTune, Clock, fbw_loop
<1>2. CASE slave_on
  <2>1. /\ Clocking /\ line \in 1 .. 3 /\ slave_rx_idx + 1 = line /\ ~writing
        /\ Valid(from_ap) /\ slave_rx_idx \in 0 .. 3
        /\ \A i \in 1 .. 3 : i < line => from_ap_rx[i] = from_ap[i]
    BY <1>2 DEF InTune, Told, HeardSoFar, Clock, Clocking, LinkInv, Heard
  <2>2. /\ from_ap_rx' = [from_ap_rx EXCEPT ![line] = from_ap[line]]
        /\ slave_rx_idx' = line /\ line' = line + 1
        /\ from_ap' = from_ap /\ ~writing' /\ slave_on'
    <3>1. slave_rx_idx < 3 /\ slave_rx_idx + 1 = line
      BY <2>1
    <3>2. QED
      BY <1>2, <2>1, <3>1 DEF Clock, ap_loop
  <2>3. DOMAIN from_ap_rx = 1 .. 3
    BY DEF LinkInv, Heard
  <2>4. \A i \in 1 .. 3 : i < line' => from_ap_rx'[i] = from_ap'[i]
    BY <2>1, <2>2, <2>3
  <2>5. CASE line < 3
    BY <2>1, <2>2, <2>4, <2>5 DEF InTune, HeardSoFar, Clocking, Valid, Checksum
  <2>6. CASE line = 3
    <3>1. Valid(from_ap_rx)'
      BY <2>1, <2>2, <2>4, <2>6 DEF Valid, Checksum
    <3>2. QED
      BY <2>2, <2>6, <3>1 DEF InTune, HeardSoFar, Clocking
  <2>7. QED
    BY <2>1, <2>5, <2>6
<1>3. QED
  BY <1>1, <1>2 DEF InTune, Told

LEMMA OthersTune ==
  ASSUME LinkInv, Flags, InTune, ~fault',
         ControlWrites \/ MasterTimeout \/ SlaveTimeout \/ ApEvent \/ FbwEvent
           \/ FbwRestart \/ UNCHANGED link_vars
  PROVE  InTune' \/ inter_mcu_received_ap'
<1>1. CASE ControlWrites
  <2>1. ~spi_cur_slave
    BY <1>1, Zenon DEF ControlWrites
  <2>2. ~Clocking
    BY <2>1 DEF LinkInv, LinkStaysArmed, Clocking
  <2>3. QED
    BY <1>1, <2>2 DEF ControlWrites, InTune, Told, HeardSoFar, Clocking, slave,
       master, fbw_loop, Valid, Checksum
<1>2. CASE MasterTimeout
  BY <1>2 DEF MasterTimeout, InTune, Told, HeardSoFar, Clocking, slave, ap_loop,
     fbw_loop, Valid, Checksum
<1>3. CASE SlaveTimeout
  BY <1>3 DEF SlaveTimeout, InTune, Told, HeardSoFar, Clocking, Flags, fbw_loop,
     Valid, Checksum
<1>4. CASE ApEvent
  BY <1>4 DEF ApEvent, InTune, Told, HeardSoFar, Clocking, slave, master, fbw_loop,
     Valid, Checksum
<1>5. CASE FbwEvent
  BY <1>5 DEF FbwEvent, InTune, Told, Flags
<1>6. CASE FbwRestart
  BY <1>6 DEF FbwRestart, InTune, Told, Flags
<1>7. CASE UNCHANGED link_vars
  BY <1>7 DEF link_vars, InTune, Told, HeardSoFar, Clocking, slave, master, ap_loop,
     fbw_loop, Valid, Checksum
<1>8. QED
  BY <1>1, <1>2, <1>3, <1>4, <1>5, <1>6, <1>7

(* Once the line is clean and no control step comes into a transfer, commands   *)
(* come through again and again, provided that the fly-by-wire's loop, which   *)
(* restarts its slave after every frame, good or bad, does so outside a frame  *)
(* again and again (link_mcu_event_task and link_mcu_restart).              *)
THEOREM CommandsComeBack ==
  LinkSafety /\ []<><<RestartBetween>>_link_vars => LinkRecovers
<1> DEFINE Inv == LinkInv /\ Flags /\ Replies /\ Queue
<1>1. LinkSafety => []Inv
  <2>1. LinkInit => Inv
    BY LinkTypesInit, LinkInitInv
  <2>2. Inv /\ [LinkNext]_link_vars => Inv'
    BY LinkStep, FlagsStep, RepliesStep, QueueStep
  <2>3. QED
    BY <2>1, <2>2, PTL DEF LinkSafety
<1>2. Inv /\ <<RestartBetween>>_link_vars => InTune'
  BY RestartTunes
<1>3. Inv /\ InTune /\ ~fault' /\ [LinkNext]_link_vars
      => InTune' \/ inter_mcu_received_ap'
  BY SendTunes, ClockTunes, OthersTune DEF LinkNext
<1>4. Inv /\ InTune => ~<<RestartBetween>>_link_vars
  BY TuneNeedsNoRestart
<1> HIDE DEF Inv
<1>5. LinkSafety /\ []<><<RestartBetween>>_link_vars
      => (<>[]~fault => []<>inter_mcu_received_ap)
  BY <1>1, <1>2, <1>3, <1>4, PTL DEF LinkSafety
<1>6. QED
  BY <1>5 DEF LinkRecovers
=============================================================================
