-------------------------------- MODULE I2c --------------------------------
(***************************************************************************)
(* The I2C master of the LPC21 boards (arch/lpc21/mcu_periph/i2c_arch.c):    *)
(* drivers of the main loop fill a transaction and hand it to i2c_submit,    *)
(* which queues it in a ring; the interrupt automaton serves the head of the *)
(* ring, byte by byte, and starts the next.                                 *)
(*                                                                         *)
(* Some drivers wait for their transaction before they submit it again; the  *)
(* Careless ones (actuators_mkk.c, baro_bmp.c) write to it and submit it     *)
(* whatever has become of it.  Nobody uses I2CTransmitNoStop.               *)
(*                                                                         *)
(* hw is what the peripheral was last told to do; moved and fault are an      *)
(* observer's.                                                             *)
(***************************************************************************)
EXTENDS Naturals, Sequences

CONSTANTS
  Transactions, Careless,
  Jobs,                      \* what the driver of a transaction asks of it
  NULL,                      \* what the ring holds before it is used
  I2C_TRANSACTION_QUEUE_LEN

Types  == {"I2CTransTx", "I2CTransRx", "I2CTransTxRx"}
JobSet == [type : Types, len_w : Nat, len_r : Nat]

(* The macros of i2c.h clear the length a job does not use, and no driver      *)
(* reads nothing.                                                           *)
FilledIn(j) ==
  /\ j.type = "I2CTransRx" => j.len_w = 0
  /\ IF j.type = "I2CTransTx" THEN j.len_r = 0 ELSE j.len_r > 0

ASSUME I2cAssumption ==
  /\ I2C_TRANSACTION_QUEUE_LEN \in Nat /\ I2C_TRANSACTION_QUEUE_LEN > 1
  /\ Careless \subseteq Transactions /\ NULL \notin Transactions
  /\ Jobs \in [Transactions -> SUBSET JobSet]
  /\ \A t \in Transactions : \A j \in Jobs[t] : FilledIn(j)

VARIABLES
  trans, trans_insert_idx, trans_extract_idx,  \* the ring
  status, idx_buf,                             \* the peripheral
  t_status,
  job,      \* transaction -> its type and lengths, as they are now
  caller,   \* where the driver that runs is: <<step, transaction>>
  hw,
  moved,    \* bytes written and read for the transaction under way (or just
            \* over), and whether the slave's last byte was ACKed, that is, it
            \* holds the bus to send another
  fault     \* the last interrupt was the default branch's

ring     == <<trans, trans_insert_idx, trans_extract_idx>>
i2c_vars == <<ring, status, idx_buf, t_status, job, caller, hw, moved, fault>>

Slots   == 0 .. I2C_TRANSACTION_QUEUE_LEN - 1
Careful == Transactions \ Careless
Idle    == <<"idle">>
Nothing == [w |-> 0, r |-> 0, held |-> FALSE, over |-> FALSE]
Steps   == {"filled", "tested"}

I2cTypeOK ==
  /\ trans \in [Slots -> Transactions \cup {NULL}]
  /\ trans_insert_idx \in Slots /\ trans_extract_idx \in Slots
  /\ status \in {"I2CIdle", "I2CStartRequested"}
  /\ idx_buf \in Nat
  /\ t_status \in [Transactions -> {"Pending", "Success", "Failed"}]
  /\ job \in [Transactions -> JobSet]
  /\ caller \in {Idle} \cup (Steps \X Transactions)
  /\ hw \in {"off", "start", "addr_w", "addr_r", "tx", "rx_ack", "rx_nack"}
  /\ moved \in [w : Nat, r : Nat, held : BOOLEAN, over : BOOLEAN]
  /\ fault \in BOOLEAN

-----------------------------------------------------------------------------
NextSlot(i) == IF i + 1 >= I2C_TRANSACTION_QUEUE_LEN THEN 0 ELSE i + 1

(* The slots in use, and the transactions in them in the order of service.   *)
Used == IF trans_extract_idx <= trans_insert_idx
        THEN trans_extract_idx .. trans_insert_idx - 1
        ELSE Slots \ (trans_insert_idx .. trans_extract_idx - 1)

Depth ==
  IF trans_extract_idx <= trans_insert_idx
  THEN trans_insert_idx - trans_extract_idx
  ELSE trans_insert_idx + I2C_TRANSACTION_QUEUE_LEN - trans_extract_idx

Wrapped(k) == IF k < I2C_TRANSACTION_QUEUE_LEN THEN k ELSE k - I2C_TRANSACTION_QUEUE_LEN

Waiting == [k \in 1 .. Depth |-> trans[Wrapped(trans_extract_idx + k - 1)]]

Current == trans[trans_extract_idx]

-----------------------------------------------------------------------------
(* Plausible bugs, used to show that the properties can fail.              *)

(* The transaction that was queued meanwhile is not started.                *)
MutNoRestart ==
  /\ trans_extract_idx' = NextSlot(trans_extract_idx)
  /\ status' = "I2CIdle" /\ hw' = "off"

(* The byte after the last is acknowledged.                                 *)
MutAckLast == idx_buf' < job[Current].len_r

(* The last slot is used too: a full ring looks empty.                        *)
MutNeverFull == FALSE

(* An address nobody answers leaves the automaton waiting.                  *)
MutNackGivesUp ==
  /\ hw \in {"addr_w", "addr_r"} /\ hw' = "off"
  /\ fault' = FALSE
  /\ UNCHANGED <<ring, status, idx_buf, t_status, job, caller, moved>>

-----------------------------------------------------------------------------
(* i2c_init, and the drivers' own.                                          *)
I2cInit ==
  /\ trans = [i \in Slots |-> NULL]
  /\ trans_insert_idx = 0 /\ trans_extract_idx = 0
  /\ status = "I2CIdle" /\ idx_buf = 0
  /\ t_status = [t \in Transactions |-> "Success"]
  /\ job = [t \in Transactions |-> [type |-> "I2CTransTx", len_w |-> 0, len_r |-> 0]]
  /\ caller = Idle /\ hw = "off" /\ moved = Nothing /\ fault = FALSE

(* The interrupt's helpers.                                                 *)
I2cSendStart == status' = "I2CStartRequested" /\ hw' = "start"

I2cEndOfTransaction ==
  /\ trans_extract_idx' = NextSlot(trans_extract_idx)
  /\ IF trans_extract_idx' = trans_insert_idx
       THEN status' = "I2CIdle" /\ hw' = "off"
       ELSE I2cSendStart

(* I2cSendStop and I2cFinished.                                             *)
Finish ==
  /\ t_status' = [t_status EXCEPT ![Current] = "Success"]
  /\ I2cEndOfTransaction
  /\ UNCHANGED idx_buf

(* I2cReceive's argument, after idx_buf has its new value.                  *)
Acknowledge == idx_buf' + 1 < job[Current].len_r

-----------------------------------------------------------------------------
(* I2cAutomaton, one action for every group of hardware states.  Only the     *)
(* head's transaction is touched, and the driver's job only by the FIXME.    *)
KeepsQueue == UNCHANGED <<trans, trans_insert_idx, caller>>
KeepsHead  == UNCHANGED <<trans_extract_idx, status, t_status>>

(* I2C_START, I2C_RESTART.                                                  *)
Started ==
  /\ hw = "start" /\ fault' = FALSE
  /\ hw' = IF job[Current].type = "I2CTransRx" THEN "addr_r" ELSE "addr_w"
  /\ idx_buf' = 0
  /\ moved' = IF moved.over THEN Nothing ELSE moved
  /\ KeepsQueue /\ KeepsHead /\ UNCHANGED job

(* I2C_MT_SLA_NACK, I2C_MR_SLA_NACK: start again.                           *)
AddressNack ==
  /\ hw \in {"addr_w", "addr_r"} /\ fault' = FALSE
  /\ I2cSendStart
  /\ KeepsQueue /\ UNCHANGED <<trans_extract_idx, t_status, idx_buf, job, moved>>

(* I2C_MT_SLA_ACK, I2C_MT_DATA_ACK: the next byte, or on to the read, or the  *)
(* end.                                                                     *)
Transmit ==
  /\ hw \in {"addr_w", "tx"} /\ fault' = FALSE
  /\ KeepsQueue
  /\ LET more == idx_buf < job[Current].len_w
         seen == [moved EXCEPT !.w = IF hw = "tx" THEN @ + 1 ELSE @]
     IN \/ /\ more
           /\ hw' = "tx" /\ idx_buf' = idx_buf + 1 /\ moved' = seen
           /\ KeepsHead /\ UNCHANGED job
        \/ /\ ~more /\ job[Current].type = "I2CTransTxRx"
           /\ job' = [job EXCEPT ![Current].type = "I2CTransRx"]
           /\ idx_buf' = 0 /\ I2cSendStart /\ moved' = seen
           /\ UNCHANGED <<trans_extract_idx, t_status>>
        \/ /\ ~more /\ job[Current].type # "I2CTransTxRx"
           /\ Finish /\ moved' = [seen EXCEPT !.over = TRUE] /\ UNCHANGED job

(* I2C_MR_SLA_ACK: the first byte is to be received.                        *)
ReadStarts ==
  /\ hw = "addr_r" /\ fault' = FALSE
  /\ UNCHANGED idx_buf
  /\ hw' = IF Acknowledge THEN "rx_ack" ELSE "rx_nack"
  /\ KeepsQueue /\ KeepsHead /\ UNCHANGED <<job, moved>>

(* I2C_MR_DATA_ACK and I2C_MR_DATA_NACK: a byte is there, and was answered    *)
(* with what I2cReceive asked for.                                          *)
DataAck ==
  /\ hw = "rx_ack" /\ fault' = FALSE
  /\ KeepsQueue /\ UNCHANGED job
  /\ moved' = [moved EXCEPT !.r = @ + 1, !.held = TRUE,
                            !.over = ~(idx_buf < job[Current].len_r)]
  /\ IF idx_buf < job[Current].len_r
       THEN /\ idx_buf' = idx_buf + 1
            /\ hw' = IF Acknowledge THEN "rx_ack" ELSE "rx_nack"
            /\ KeepsHead
       ELSE Finish

DataNack ==
  /\ hw = "rx_nack" /\ fault' = FALSE
  /\ KeepsQueue /\ UNCHANGED job
  /\ moved' = [moved EXCEPT !.r = @ + 1, !.held = FALSE, !.over = TRUE]
  /\ Finish

(* The default branch: a byte refused, the arbitration lost, a bus error.    *)
BusFault ==
  /\ hw \notin {"off", "start"} /\ fault' = TRUE
  /\ moved' = [moved EXCEPT !.over = TRUE]
  /\ Finish
  /\ KeepsQueue /\ UNCHANGED job

Interrupt ==
  Started \/ AddressNack \/ Transmit \/ ReadStarts \/ DataAck \/ DataNack \/ BusFault

-----------------------------------------------------------------------------
(* A driver fills its transaction...                                        *)
Fill(t) ==
  /\ caller = Idle
  /\ t \in Careful => t_status[t] # "Pending"
  /\ \E j \in Jobs[t] : job' = [job EXCEPT ![t] = j]
  /\ caller' = <<"filled", t>>
  /\ UNCHANGED <<ring, status, idx_buf, t_status, hw, moved, fault>>

(* ... i2c_submit looks for room, with interrupts on,                       *)
QueueFull == NextSlot(trans_insert_idx) = trans_extract_idx

Test(t) ==
  /\ caller = <<"filled", t>>
  /\ \/ /\ QueueFull /\ t_status' = [t_status EXCEPT ![t] = "Failed"]
        /\ caller' = Idle
     \/ /\ ~QueueFull /\ t_status' = [t_status EXCEPT ![t] = "Pending"]
        /\ caller' = <<"tested", t>>
  /\ UNCHANGED <<ring, status, idx_buf, job, hw, moved, fault>>

(* ... and queues it with interrupts off.                                   *)
Insert(t) ==
  /\ caller = <<"tested", t>> /\ caller' = Idle
  /\ trans' = [trans EXCEPT ![trans_insert_idx] = t]
  /\ trans_insert_idx' = NextSlot(trans_insert_idx)
  /\ IF status = "I2CIdle" THEN I2cSendStart ELSE UNCHANGED <<status, hw>>
  /\ UNCHANGED <<trans_extract_idx, idx_buf, t_status, job, moved, fault>>

I2cNext ==
  \/ \E t \in Transactions : Fill(t)
  \/ \E t \in Transactions : Test(t)
  \/ \E t \in Transactions : Insert(t)
  \/ Started \/ AddressNack \/ Transmit \/ ReadStarts
  \/ DataAck \/ DataNack \/ BusFault

(* i2c_submit returns, the bus goes on, and a slave that is asked again and   *)
(* again answers in the end.                                                *)
I2cFairness ==
  /\ WF_i2c_vars(\E t \in Transactions : Test(t) \/ Insert(t))
  /\ WF_i2c_vars(Interrupt)
  /\ SF_i2c_vars((Transmit /\ hw = "addr_w") \/ ReadStarts)

I2cSpec == I2cInit /\ [][I2cNext]_i2c_vars /\ I2cFairness

-----------------------------------------------------------------------------
(* Safety.                                                                  *)

(* The automaton is at rest exactly when the ring is empty: a transaction     *)
(* queued while another ends is never left behind, and the interrupt never    *)
(* reads a slot that holds no transaction.                                  *)
NoLostWakeup ==
  /\ status = "I2CIdle" <=> trans_insert_idx = trans_extract_idx
  /\ status = "I2CIdle" <=> hw = "off"
  /\ \A i \in Used : trans[i] # NULL

(* What a driver that waits relies on: unless it is Pending, the transaction  *)
(* (its buffer, lengths and type) is the driver's alone, and a Pending one is *)
(* in the ring once, or on its way there.                                   *)
Queued(t) == \E i \in Used : trans[i] = t

OwnedByOne ==
  \A t \in Careful :
    /\ Queued(t) => t_status[t] = "Pending" /\ caller \notin Steps \X {t}
    /\ t_status[t] = "Pending" => Queued(t) \/ caller = <<"tested", t>>
    /\ \A i, k \in Used : trans[i] = t /\ trans[k] = t => i = k

(* "transaction finished with success", says I2cFinished.  Short of a fault    *)
(* of the bus, the Success of a driver that waits means that every byte it     *)
(* asked for was written and read, in one transfer, and that the slave was     *)
(* told that the last byte was the last (or it would hold the bus).          *)
WholeTransfer ==
  [][(trans_extract_idx' # trans_extract_idx /\ Current \in Careful /\ ~fault')
       => /\ moved'.w = job[Current].len_w
          /\ moved'.r = job[Current].len_r
          /\ ~moved'.held]_i2c_vars

-----------------------------------------------------------------------------
(* Refinement and liveness.                                                 *)

(* The ring, the two places that move its indexes and the unguarded test for   *)
(* room implement a bounded first-in first-out queue.                        *)
Abstract == INSTANCE I2cQueue WITH
  Capacity <- I2C_TRANSACTION_QUEUE_LEN - 1, queue <- Waiting, result <- t_status

FifoService == Abstract!QSpec

(* Every driver has its answer, however many others submit and whichever      *)
(* slave does not answer at first.                                          *)
EveryoneAnswered ==
  \A t \in Transactions : t_status[t] = "Pending" ~> t_status[t] # "Pending"
=============================================================================
