----------------------------- MODULE I2cProofs -----------------------------
(***************************************************************************)
(* Proofs about the I2C master, for every set of transactions, every job      *)
(* they may carry and every length of the ring: no wake-up is lost, and a     *)
(* transaction belongs to its driver or to the interrupt.                   *)
(***************************************************************************)
EXTENDS I2c, SequenceTheorems, TLAPS

(* What a submission that has passed the test relies on: the room it found    *)
(* is still there, and the interrupt has not touched its status.            *)
RoomKept == caller[1] = "tested" => ~QueueFull
StatusKept ==
  \A t \in Careful : caller = <<"tested", t>> => t_status[t] = "Pending"

I2cInv == I2cTypeOK /\ NoLostWakeup /\ OwnedByOne /\ RoomKept /\ StatusKept

-----------------------------------------------------------------------------
(* The ring.                                                                *)
Between(e, i) == IF e <= i THEN e .. i - 1 ELSE Slots \ (i .. e - 1)

LEMMA UsedIsBetween == Used = Between(trans_extract_idx, trans_insert_idx)
BY DEF Used, Between

LEMMA NextSlotType ==
  ASSUME NEW i \in Slots
  PROVE  NextSlot(i) \in Slots /\ NextSlot(i) # i
BY I2cAssumption DEF NextSlot, Slots

(* Queueing adds the slot at the insert index and no other.                 *)
LEMMA RingInsert ==
  ASSUME NEW e \in Slots, NEW i \in Slots, NextSlot(i) # e
  PROVE  /\ Between(e, NextSlot(i)) = Between(e, i) \cup {i}
         /\ i \notin Between(e, i)
BY I2cAssumption DEF NextSlot, Slots, Between

(* Serving frees the slot at the extract index and no other.                *)
LEMMA RingExtract ==
  ASSUME NEW e \in Slots, NEW i \in Slots, e # i
  PROVE  /\ Between(NextSlot(e), i) = Between(e, i) \ {e}
         /\ e \in Between(e, i)
         /\ NextSlot(i) # e => NextSlot(i) # NextSlot(e)
BY I2cAssumption DEF NextSlot, Slots, Between

LEMMA RingEmpty ==
  ASSUME NEW e \in Slots
  PROVE  Between(e, e) = {}
BY I2cAssumption DEF Slots, Between

LEMMA RingSlots ==
  ASSUME NEW e \in Slots, NEW i \in Slots
  PROVE  Between(e, i) \subseteq Slots
BY I2cAssumption DEF Slots, Between

-----------------------------------------------------------------------------
(* The head of the ring ends, and the interrupt goes on with the next.       *)
Ends ==
  /\ t_status' = [t_status EXCEPT ![Current] = "Success"]
  /\ I2cEndOfTransaction
  /\ hw # "off"
  /\ UNCHANGED <<trans, trans_insert_idx, caller>>

(* The transfer under way goes on.                                          *)
GoesOn ==
  /\ hw # "off" /\ hw' # "off"
  /\ status' \in {status, "I2CStartRequested"}
  /\ UNCHANGED <<ring, t_status, caller>>

LEMMA InterruptShape ==
  ASSUME Interrupt
  PROVE  Ends \/ GoesOn
<1>1. CASE Started
  BY <1>1 DEF Started, GoesOn, KeepsQueue, KeepsHead, ring
<1>2. CASE AddressNack
  BY <1>2 DEF AddressNack, GoesOn, KeepsQueue, I2cSendStart, ring
<1>3. CASE Transmit
  <2>1. hw # "off" /\ KeepsQueue
    BY <1>3 DEF Transmit
  <2>2. CASE hw' = "tx" /\ KeepsHead
    BY <2>1, <2>2 DEF GoesOn, KeepsQueue, KeepsHead, ring
  <2>3. CASE I2cSendStart /\ UNCHANGED <<trans_extract_idx, t_status>>
    BY <2>1, <2>3 DEF GoesOn, KeepsQueue, I2cSendStart, ring
  <2>4. CASE Finish
    BY <2>1, <2>4 DEF Finish, Ends, KeepsQueue
  <2>5. QED
    BY <1>3, <2>2, <2>3, <2>4, Zenon DEF Transmit
<1>4. CASE ReadStarts
  BY <1>4 DEF ReadStarts, GoesOn, KeepsQueue, KeepsHead, ring
<1>5. CASE DataAck
  BY <1>5 DEF DataAck, GoesOn, KeepsQueue, KeepsHead, ring, Finish, Ends
<1>6. CASE DataNack
  BY <1>6 DEF DataNack, Finish, Ends, KeepsQueue
<1>7. CASE BusFault
  BY <1>7 DEF BusFault, Finish, Ends, KeepsQueue
<1>8. QED
  BY <1>1, <1>2, <1>3, <1>4, <1>5, <1>6, <1>7 DEF Interrupt

LEMMA InterruptType ==
  ASSUME I2cInv, Interrupt
  PROVE  I2cTypeOK'
<1>1. I2cTypeOK
  BY DEF I2cInv
<1>2. Current \in Transactions
  <2>1. hw # "off"
    BY InterruptShape DEF Ends, GoesOn
  <2>2. trans_extract_idx \in Slots /\ trans_insert_idx \in Slots
        /\ trans_extract_idx # trans_insert_idx
    BY <1>1, <2>1 DEF I2cTypeOK, I2cInv, NoLostWakeup
  <2>3. trans_extract_idx \in Used
    BY <2>2, RingExtract, UsedIsBetween
  <2>4. QED
    BY <1>1, <2>2, <2>3 DEF I2cTypeOK, I2cInv, NoLostWakeup, Current
<1>3. /\ trans' \in [Slots -> Transactions \cup {NULL}]
      /\ trans_insert_idx' \in Slots /\ trans_extract_idx' \in Slots
      /\ status' \in {"I2CIdle", "I2CStartRequested"}
      /\ caller' \in {Idle} \cup (Steps \X Transactions)
  <2>1. CASE Ends
    BY <1>1, <2>1, NextSlotType
       DEF Ends, I2cEndOfTransaction, I2cSendStart, I2cTypeOK
  <2>2. CASE GoesOn
    BY <1>1, <2>2 DEF GoesOn, I2cTypeOK, ring
  <2>3. QED
    BY <2>1, <2>2, InterruptShape
<1>4. t_status' \in [Transactions -> {"Pending", "Success", "Failed"}]
  BY <1>1, <1>2, InterruptShape DEF Ends, GoesOn, I2cTypeOK
<1>5. idx_buf' \in Nat
  BY <1>1 DEF Interrupt, Started, AddressNack, Transmit, ReadStarts, DataAck,
              DataNack, BusFault, Finish, I2cTypeOK
<1>6. hw' \in {"off", "start", "addr_w", "addr_r", "tx", "rx_ack", "rx_nack"}
  BY DEF Interrupt, Started, AddressNack, Transmit, ReadStarts, DataAck,
         DataNack, BusFault, Finish, I2cEndOfTransaction, I2cSendStart
<1>7. job' \in [Transactions -> JobSet]
  <2>1. CASE UNCHANGED job
    BY <1>1, <2>1 DEF I2cTypeOK
  <2>2. CASE job' = [job EXCEPT ![Current].type = "I2CTransRx"]
    BY <1>1, <1>2, <2>2 DEF I2cTypeOK, JobSet, Types
  <2>3. QED
    BY <2>1, <2>2 DEF Interrupt, Started, AddressNack, Transmit, ReadStarts,
                      DataAck, DataNack, BusFault
<1>8. moved' \in [w : Nat, r : Nat, held : BOOLEAN, over : BOOLEAN]
  <2>1. moved \in [w : Nat, r : Nat, held : BOOLEAN, over : BOOLEAN]
    BY <1>1 DEF I2cTypeOK
  <2>2. moved.w + 1 \in Nat /\ moved.r + 1 \in Nat
    BY <2>1
  <2>3. CASE Started \/ AddressNack \/ ReadStarts
    <3>1. moved' \in {moved, Nothing}
      BY <2>3, Zenon DEF Started, AddressNack, ReadStarts
    <3>2. Nothing \in [w : Nat, r : Nat, held : BOOLEAN, over : BOOLEAN]
      BY DEF Nothing
    <3>3. QED
      BY <2>1, <3>1, <3>2, Zenon
  <2>4. CASE Transmit
    BY <2>1, <2>2, <2>4 DEF Transmit
  <2>5. CASE DataAck
    <3>1. (~(idx_buf < job[Current].len_r)) \in BOOLEAN
      OBVIOUS
    <3>2. QED
      BY <2>1, <2>2, <2>5, <3>1 DEF DataAck
  <2>6. CASE DataNack \/ BusFault
    BY <2>1, <2>2, <2>6 DEF DataNack, BusFault
  <2>7. QED
    BY <2>3, <2>4, <2>5, <2>6 DEF Interrupt
<1>9. fault' \in BOOLEAN
  BY DEF Interrupt, Started, AddressNack, Transmit, ReadStarts, DataAck,
         DataNack, BusFault
<1>10. QED
  BY <1>3, <1>4, <1>5, <1>6, <1>7, <1>8, <1>9 DEF I2cTypeOK

-----------------------------------------------------------------------------
(* The interrupt.                                                           *)
LEMMA InterruptKeeps ==
  ASSUME I2cInv, Interrupt
  PROVE  I2cInv'
<1>1. I2cTypeOK /\ I2cTypeOK'
  BY InterruptType DEF I2cInv
<1>2. CASE GoesOn
  <2>1. Used' = Used /\ (\A t : Queued(t)' = Queued(t))
    BY <1>2 DEF GoesOn, ring, Used, Queued
  <2>2. NoLostWakeup'
    BY <1>1, <1>2, <2>1 DEF GoesOn, ring, NoLostWakeup, I2cInv, I2cTypeOK
  <2>3. OwnedByOne'
    BY <1>2, <2>1 DEF GoesOn, ring, OwnedByOne, I2cInv
  <2>4. RoomKept'
    BY <1>2 DEF GoesOn, ring, RoomKept, QueueFull, I2cInv
  <2>5. StatusKept'
    BY <1>2 DEF GoesOn, StatusKept, I2cInv
  <2>6. QED
    BY <1>1, <2>2, <2>3, <2>4, <2>5 DEF I2cInv
<1>3. CASE Ends
  <2>1. /\ trans_extract_idx \in Slots /\ trans_insert_idx \in Slots
        /\ trans_extract_idx # trans_insert_idx
    BY <1>1, <1>3 DEF I2cTypeOK, I2cInv, NoLostWakeup, Ends
  <2>2. trans_extract_idx' = NextSlot(trans_extract_idx) /\ UNCHANGED trans_insert_idx
    BY <1>3 DEF Ends, I2cEndOfTransaction
  <2>3. Used' = Used \ {trans_extract_idx} /\ trans_extract_idx \in Used
    <3>1. Used' = Between(trans_extract_idx', trans_insert_idx')
      BY DEF Used, Between, Slots
    <3>2. QED
      BY <2>1, <2>2, <3>1, RingExtract, UsedIsBetween
  <2>4. NoLostWakeup'
    BY <1>3, <2>2, <2>3
       DEF Ends, I2cEndOfTransaction, I2cSendStart, NoLostWakeup, I2cInv
  <2>5. RoomKept'
    BY <1>3, <2>1, <2>2, RingExtract DEF Ends, RoomKept, QueueFull, I2cInv
  <2>6. OwnedByOne'
    <3> SUFFICES ASSUME NEW t \in Careful
                 PROVE  /\ Queued(t)' => t_status'[t] = "Pending"
                                           /\ caller \notin Steps \X {t}
                        /\ t_status'[t] = "Pending"
                             => Queued(t)' \/ caller = <<"tested", t>>
                        /\ \A i, k \in Used' : trans[i] = t /\ trans[k] = t => i = k
      BY <1>3 DEF OwnedByOne, Ends
    <3>1. t \in Transactions /\ Current \in Transactions
      BY <1>1, <2>1, <2>3 DEF Careful, Current, NoLostWakeup, I2cInv, I2cTypeOK
    <3>2. t_status'[t] = IF t = Current THEN "Success" ELSE t_status[t]
      BY <1>1, <1>3, <3>1 DEF Ends, I2cTypeOK
    <3>3. Queued(t)' <=> \E i \in Used \ {trans_extract_idx} : trans[i] = t
      BY <1>3, <2>3 DEF Queued, Ends
    <3>4. Queued(t)' <=> Queued(t) /\ t # Current
      BY <2>3, <3>3 DEF Queued, Current, OwnedByOne, I2cInv
    <3>5. QED
      BY <2>3, <3>2, <3>4 DEF OwnedByOne, I2cInv
  <2>7. StatusKept'
    <3> SUFFICES ASSUME NEW t \in Careful, caller = <<"tested", t>>
                 PROVE  t_status'[t] = "Pending"
      BY <1>3 DEF StatusKept, Ends
    <3>1. ~Queued(t) /\ t_status[t] = "Pending"
      BY DEF OwnedByOne, StatusKept, I2cInv, Steps
    <3>2. t # Current
      BY <2>3, <3>1 DEF Queued, Current
    <3>3. QED
      BY <1>1, <1>3, <3>1, <3>2 DEF Ends, I2cTypeOK, Careful
  <2>8. QED
    BY <1>1, <2>4, <2>5, <2>6, <2>7 DEF I2cInv
<1>4. QED
  BY <1>2, <1>3, InterruptShape

-----------------------------------------------------------------------------
(* The drivers and i2c_submit.                                              *)
LEMMA FillKeeps ==
  ASSUME I2cInv, NEW t \in Transactions, Fill(t)
  PROVE  I2cInv'
<1>1. Used' = Used /\ (\A u : Queued(u)' = Queued(u))
  BY DEF Fill, ring, Used, Queued
<1>2. I2cTypeOK'
  <2>1. PICK j \in Jobs[t] : job' = [job EXCEPT ![t] = j]
    BY DEF Fill
  <2>2. j \in JobSet
    BY <2>1, I2cAssumption
  <2>3. caller' \in Steps \X Transactions
    BY DEF Fill, Steps
  <2>4. QED
    BY <2>1, <2>2, <2>3 DEF Fill, I2cInv, I2cTypeOK, ring
<1>3. NoLostWakeup'
  BY <1>1 DEF Fill, ring, NoLostWakeup, I2cInv
<1>4. RoomKept' /\ StatusKept'
  BY DEF Fill, RoomKept, StatusKept
<1>5. OwnedByOne'
  <2> SUFFICES ASSUME NEW u \in Careful
               PROVE  /\ Queued(u) => t_status[u] = "Pending"
                                        /\ caller' \notin Steps \X {u}
                      /\ t_status[u] = "Pending"
                           => Queued(u) \/ caller' = <<"tested", u>>
                      /\ \A i, k \in Used : trans[i] = u /\ trans[k] = u => i = k
    BY <1>1 DEF OwnedByOne, Fill, ring
  <2>1. caller = Idle /\ caller' = <<"filled", t>> /\ (t = u => t_status[u] # "Pending")
    BY DEF Fill
  <2>2. Idle # <<"tested", u>>
    BY DEF Idle
  <2>3. QED
    BY <2>1, <2>2 DEF OwnedByOne, I2cInv
<1>6. QED
  BY <1>2, <1>3, <1>4, <1>5 DEF I2cInv

LEMMA TestKeeps ==
  ASSUME I2cInv, NEW t \in Transactions, Test(t)
  PROVE  I2cInv'
<1>1. Used' = Used /\ (\A u : Queued(u)' = Queued(u))
  BY DEF Test, ring, Used, Queued
<1>2. I2cTypeOK'
  BY DEF Test, I2cInv, I2cTypeOK, ring, Steps, Idle
<1>3. NoLostWakeup'
  BY <1>1 DEF Test, ring, NoLostWakeup, I2cInv
<1>4. RoomKept' /\ StatusKept'
  BY DEF Test, ring, RoomKept, StatusKept, QueueFull, Idle, Careful, I2cInv, I2cTypeOK
<1>5. OwnedByOne'
  <2> SUFFICES ASSUME NEW u \in Careful
               PROVE  /\ Queued(u) => t_status'[u] = "Pending"
                                        /\ caller' \notin Steps \X {u}
                      /\ t_status'[u] = "Pending"
                           => Queued(u) \/ caller' = <<"tested", u>>
                      /\ \A i, k \in Used : trans[i] = u /\ trans[k] = u => i = k
    BY <1>1 DEF OwnedByOne, Test, ring
  <2>1. caller = <<"filled", t>> /\ caller' \in {Idle, <<"tested", t>>}
    BY DEF Test
  <2>2. t_status'[t] \in {"Pending", "Failed"}
        /\ (u # t => t_status'[u] = t_status[u])
        /\ (t_status'[t] = "Pending" => caller' = <<"tested", t>>)
    BY DEF Test, I2cInv, I2cTypeOK, Careful
  <2>3. u = t => ~Queued(u)
    BY <2>1 DEF OwnedByOne, I2cInv, Steps
  <2>4. Idle \notin Steps \X {u} /\ (u # t => <<"tested", t>> \notin Steps \X {u})
    BY DEF Idle, Steps
  <2>5. u # t => caller # <<"tested", u>>
    BY <2>1
  <2>6. QED
    BY <2>1, <2>2, <2>3, <2>4, <2>5 DEF OwnedByOne, I2cInv
<1>6. QED
  BY <1>2, <1>3, <1>4, <1>5 DEF I2cInv

LEMMA InsertKeeps ==
  ASSUME I2cInv, NEW t \in Transactions, Insert(t)
  PROVE  I2cInv'
<1>1. /\ trans_extract_idx \in Slots /\ trans_insert_idx \in Slots
      /\ trans \in [Slots -> Transactions \cup {NULL}]
      /\ NextSlot(trans_insert_idx) # trans_extract_idx
  BY DEF I2cInv, I2cTypeOK, RoomKept, QueueFull, Insert
<1>2. /\ trans' = [trans EXCEPT ![trans_insert_idx] = t]
      /\ trans_insert_idx' = NextSlot(trans_insert_idx)
      /\ UNCHANGED <<trans_extract_idx, t_status>>
      /\ caller = <<"tested", t>> /\ caller' = Idle
  BY DEF Insert
<1>3. /\ Used' = Used \cup {trans_insert_idx} /\ trans_insert_idx \notin Used
      /\ Used \subseteq Slots
  <2>1. Used' = Between(trans_extract_idx', trans_insert_idx')
    BY DEF Used, Between, Slots
  <2>2. QED
    BY <1>1, <1>2, <2>1, RingInsert, RingSlots, UsedIsBetween
<1>4. I2cTypeOK'
  BY <1>1, <1>2, NextSlotType DEF Insert, I2cSendStart, I2cInv, I2cTypeOK, Idle
<1>5. NoLostWakeup'
  <2>1. /\ trans_insert_idx' # trans_extract_idx'
        /\ status' = "I2CStartRequested" /\ hw' # "off"
    BY <1>1, <1>2 DEF Insert, I2cSendStart, I2cInv, I2cTypeOK, NoLostWakeup
  <2>2. t # NULL
    BY I2cAssumption
  <2>3. \A i \in Used' : trans'[i] # NULL
    BY <1>1, <1>2, <1>3, <2>2 DEF I2cInv, NoLostWakeup
  <2>4. QED
    BY <2>1, <2>3 DEF NoLostWakeup
<1>6. RoomKept' /\ StatusKept'
  BY <1>2 DEF RoomKept, StatusKept, Idle
<1>7. OwnedByOne'
  <2> SUFFICES ASSUME NEW u \in Careful
               PROVE  /\ Queued(u)' => t_status[u] = "Pending"
                                         /\ caller' \notin Steps \X {u}
                      /\ t_status[u] = "Pending"
                           => Queued(u)' \/ caller' = <<"tested", u>>
                      /\ \A i, k \in Used' : trans'[i] = u /\ trans'[k] = u => i = k
    BY <1>2 DEF OwnedByOne
  <2>1. \A i \in Used' : trans'[i] = IF i = trans_insert_idx THEN t ELSE trans[i]
    BY <1>1, <1>2, <1>3
  <2>2. Queued(u)' <=> Queued(u) \/ u = t
    BY <1>3, <2>1 DEF Queued
  <2>3. u = t => ~Queued(u)
    BY <1>2 DEF OwnedByOne, I2cInv, Steps
  <2>4. Idle \notin Steps \X {u} /\ (u # t => caller # <<"tested", u>>)
    BY <1>2 DEF Idle, Steps
  <2>5. \A i, k \in Used' : trans'[i] = u /\ trans'[k] = u => i = k
    BY <1>3, <2>1, <2>3 DEF OwnedByOne, I2cInv, Queued
  <2>6. u = t => t_status[u] = "Pending"
    BY <1>2 DEF StatusKept, I2cInv
  <2>7. QED
    BY <1>2, <2>2, <2>4, <2>5, <2>6 DEF OwnedByOne, I2cInv
<1>8. QED
  BY <1>4, <1>5, <1>6, <1>7 DEF I2cInv

-----------------------------------------------------------------------------
LEMMA I2cInitInv ==
  ASSUME I2cInit
  PROVE  I2cInv
<1>1. 0 \in Slots
  BY I2cAssumption DEF Slots
<1>2. Used = {}
  BY <1>1, UsedIsBetween, RingEmpty DEF I2cInit
<1>3. I2cTypeOK
  <2>1. [type |-> "I2CTransTx", len_w |-> 0, len_r |-> 0] \in JobSet
    BY DEF JobSet, Types
  <2>2. QED
    BY <1>1, <2>1 DEF I2cInit, I2cTypeOK, Nothing
<1>4. NoLostWakeup /\ OwnedByOne
  BY <1>2 DEF I2cInit, NoLostWakeup, OwnedByOne, Queued, Careful
<1>5. RoomKept /\ StatusKept
  BY DEF I2cInit, RoomKept, StatusKept, Idle
<1>6. QED
  BY <1>3, <1>4, <1>5 DEF I2cInv

LEMMA I2cStep ==
  ASSUME I2cInv, [I2cNext]_i2c_vars
  PROVE  I2cInv'
<1>1. CASE \E t \in Transactions : Fill(t)
  BY <1>1, FillKeeps
<1>2. CASE \E t \in Transactions : Test(t)
  BY <1>2, TestKeeps
<1>3. CASE \E t \in Transactions : Insert(t)
  BY <1>3, InsertKeeps
<1>4. CASE Interrupt
  BY <1>4, InterruptKeeps
<1>5. CASE UNCHANGED i2c_vars
  <2>1. Used' = Used /\ (\A t : Queued(t)' = Queued(t))
    BY <1>5 DEF i2c_vars, ring, Used, Queued
  <2>2. I2cTypeOK' /\ NoLostWakeup'
    BY <1>5, <2>1 DEF i2c_vars, ring, I2cTypeOK, NoLostWakeup, I2cInv
  <2>3. OwnedByOne'
    BY <1>5, <2>1 DEF i2c_vars, ring, OwnedByOne, I2cInv
  <2>4. RoomKept' /\ StatusKept'
    BY <1>5 DEF i2c_vars, ring, RoomKept, StatusKept, QueueFull, I2cInv
  <2>5. QED
    BY <2>2, <2>3, <2>4 DEF I2cInv
<1>6. QED
  BY <1>1, <1>2, <1>3, <1>4, <1>5 DEF I2cNext, Interrupt

(* Every variable keeps its type, whatever the drivers submit and when.      *)
THEOREM I2cTypeCorrect == I2cSpec => []I2cTypeOK
<1>1. I2cInit => I2cInv
  BY I2cInitInv
<1>2. I2cInv /\ [I2cNext]_i2c_vars => I2cInv'
  BY I2cStep
<1>3. I2cInv => I2cTypeOK
  BY DEF I2cInv
<1>4. QED
  BY <1>1, <1>2, <1>3, PTL DEF I2cSpec

(* A transaction queued while another ends is never left behind.            *)
THEOREM NoWakeupIsLost == I2cSpec => []NoLostWakeup
<1>1. I2cInit => I2cInv
  BY I2cInitInv
<1>2. I2cInv /\ [I2cNext]_i2c_vars => I2cInv'
  BY I2cStep
<1>3. I2cInv => NoLostWakeup
  BY DEF I2cInv
<1>4. QED
  BY <1>1, <1>2, <1>3, PTL DEF I2cSpec

(* A driver that waits shares its transaction with nobody.                  *)
THEOREM TransactionsAreOwned == I2cSpec => []OwnedByOne
<1>1. I2cInit => I2cInv
  BY I2cInitInv
<1>2. I2cInv /\ [I2cNext]_i2c_vars => I2cInv'
  BY I2cStep
<1>3. I2cInv => OwnedByOne
  BY DEF I2cInv
<1>4. QED
  BY <1>1, <1>2, <1>3, PTL DEF I2cSpec

-----------------------------------------------------------------------------
(* The ring as a queue.  Its slots in the order of service, by index.         *)
DepthOf(e, i) == IF e <= i THEN i - e ELSE i + I2C_TRANSACTION_QUEUE_LEN - e

LEMMA DepthFull ==
  ASSUME NEW e \in Slots, NEW i \in Slots
  PROVE  /\ DepthOf(e, i) \in Nat
         /\ NextSlot(i) = e <=> DepthOf(e, i) = I2C_TRANSACTION_QUEUE_LEN - 1
BY I2cAssumption DEF DepthOf, NextSlot, Slots

LEMMA DepthInsert ==
  ASSUME NEW e \in Slots, NEW i \in Slots, NextSlot(i) # e
  PROVE  /\ DepthOf(e, NextSlot(i)) = DepthOf(e, i) + 1
         /\ \A k \in 1 .. DepthOf(e, i) :
              Wrapped(e + k - 1) \in Slots /\ Wrapped(e + k - 1) # i
         /\ Wrapped(e + (DepthOf(e, i) + 1) - 1) = i
BY I2cAssumption DEF DepthOf, NextSlot, Slots, Wrapped

LEMMA DepthExtract ==
  ASSUME NEW e \in Slots, NEW i \in Slots, e # i
  PROVE  /\ DepthOf(e, i) > 0 /\ DepthOf(NextSlot(e), i) = DepthOf(e, i) - 1
         /\ \A k \in 1 .. DepthOf(e, i) - 1 :
              Wrapped(NextSlot(e) + k - 1) = Wrapped(e + (k + 1) - 1)
         /\ Wrapped(e + 1 - 1) = e
BY I2cAssumption DEF DepthOf, NextSlot, Slots, Wrapped

LEMMA WaitingOf ==
  /\ Depth = DepthOf(trans_extract_idx, trans_insert_idx)
  /\ Depth' = DepthOf(trans_extract_idx', trans_insert_idx')
BY DEF Depth, DepthOf

Entries == Transactions \cup {NULL}

LEMMA WrappedType ==
  ASSUME NEW e \in Slots, NEW i \in Slots
  PROVE  \A k \in 1 .. DepthOf(e, i) : Wrapped(e + k - 1) \in Slots
BY I2cAssumption DEF DepthOf, Slots, Wrapped

LEMMA WaitingType ==
  ASSUME I2cTypeOK
  PROVE  /\ Waiting \in Seq(Entries) /\ Len(Waiting) = Depth
         /\ DOMAIN Waiting = 1 .. Depth
<1>1. Depth \in Nat
  BY WaitingOf, DepthFull DEF I2cTypeOK
<1>2. Waiting \in [1 .. Depth -> Entries]
  BY WaitingOf, WrappedType DEF Waiting, I2cTypeOK, Entries
<1>3. Waiting \in Seq(Entries)
  BY <1>1, <1>2, SeqDef
<1>4. QED
  BY <1>1, <1>2, <1>3, LenProperties

LEMMA WaitingTypeNext ==
  ASSUME I2cTypeOK'
  PROVE  Waiting' \in Seq(Entries) /\ Len(Waiting') = Depth'
<1>1. Depth' \in Nat
  BY WaitingOf, DepthFull DEF I2cTypeOK
<1>2. Waiting' \in [1 .. Depth' -> Entries]
  BY WaitingOf, WrappedType DEF Waiting, I2cTypeOK, Entries
<1>3. Waiting' \in Seq(Entries)
  BY <1>1, <1>2, SeqDef
<1>4. QED
  BY <1>1, <1>2, <1>3, LenProperties

LEMMA AcceptStep ==
  ASSUME I2cInv, NEW t \in Transactions, Insert(t)
  PROVE  Abstract!Accept(t)
<1> DEFINE e == trans_extract_idx
<1> DEFINE i == trans_insert_idx
<1>1. /\ e \in Slots /\ i \in Slots /\ NextSlot(i) # e
      /\ trans \in [Slots -> Transactions \cup {NULL}] /\ I2cTypeOK
  BY DEF I2cInv, I2cTypeOK, RoomKept, QueueFull, Insert
<1>2. /\ trans' = [trans EXCEPT ![i] = t] /\ trans_insert_idx' = NextSlot(i)
      /\ trans_extract_idx' = e /\ t_status' = t_status
  BY DEF Insert
<1>3. Depth = DepthOf(e, i) /\ Depth' = Depth + 1 /\ Depth \in Nat
  BY <1>1, <1>2, WaitingOf, DepthInsert, DepthFull
<1>4. \A k \in 1 .. Depth : Waiting'[k] = Waiting[k]
  BY <1>1, <1>2, <1>3, DepthInsert DEF Waiting
<1>5. Waiting'[Depth + 1] = t
  BY <1>1, <1>2, <1>3, DepthInsert DEF Waiting
<1>6. Waiting' = Append(Waiting, t)
  <2>1. Waiting \in Seq(Entries) /\ Len(Waiting) = Depth /\ t \in Entries
    BY <1>1, WaitingType DEF Entries
  <2>2. /\ Append(Waiting, t) \in Seq(Entries) /\ Len(Append(Waiting, t)) = Depth + 1
        /\ \A k \in 1 .. Depth : Append(Waiting, t)[k] = Waiting[k]
        /\ Append(Waiting, t)[Depth + 1] = t
    BY <2>1, AppendProperties
  <2>3. Waiting' \in Seq(Entries) /\ Len(Waiting') = Depth + 1
    BY <1>3, InsertKeeps, WaitingTypeNext DEF I2cInv
  <2>4. \A k \in 1 .. Depth + 1 : Waiting'[k] = Append(Waiting, t)[k]
    BY <1>3, <1>4, <1>5, <2>2
  <2>5. QED
    BY <2>2, <2>3, <2>4, SeqEqual
<1>7. ~Abstract!Full
  BY <1>1, <1>3, DepthFull, WaitingType DEF Abstract!Full
<1>8. QED
  BY <1>2, <1>6, <1>7 DEF Abstract!Accept

LEMMA ServeStep ==
  ASSUME I2cInv, Interrupt, Ends
  PROVE  Abstract!Serve
<1> DEFINE e == trans_extract_idx
<1> DEFINE i == trans_insert_idx
<1>1. e \in Slots /\ i \in Slots /\ e # i /\ I2cTypeOK
  BY DEF I2cInv, I2cTypeOK, NoLostWakeup, Ends
<1>2. /\ trans' = trans /\ trans_insert_idx' = i /\ trans_extract_idx' = NextSlot(e)
      /\ t_status' = [t_status EXCEPT ![Current] = "Success"]
  BY DEF Ends, I2cEndOfTransaction
<1>3. /\ Depth = DepthOf(e, i) /\ Depth' = Depth - 1 /\ Depth > 0 /\ Depth \in Nat
  BY <1>1, <1>2, WaitingOf, DepthExtract, DepthFull
<1>4. \A k \in 1 .. Depth - 1 : Waiting'[k] = Waiting[k + 1]
  BY <1>1, <1>2, <1>3, DepthExtract DEF Waiting
<1>5. Waiting[1] = Current
  BY <1>1, <1>3, DepthExtract DEF Waiting, Current
<1>6. Waiting' = Tail(Waiting) /\ Waiting # <<>> /\ Head(Waiting) = Current
  <2>1. Waiting \in Seq(Entries) /\ Len(Waiting) = Depth
    BY <1>1, WaitingType
  <2>2. Waiting # <<>> /\ Head(Waiting) = Current
    BY <1>3, <1>5, <2>1, EmptySeq
  <2>3. /\ Tail(Waiting) \in Seq(Entries) /\ Len(Tail(Waiting)) = Depth - 1
        /\ \A k \in 1 .. Depth - 1 : Tail(Waiting)[k] = Waiting[k + 1]
    BY <2>1, <2>2, HeadTailProperties
  <2>4. Waiting' \in Seq(Entries) /\ Len(Waiting') = Depth - 1
    BY <1>3, InterruptKeeps, WaitingTypeNext DEF I2cInv
  <2>5. Waiting' = Tail(Waiting)
    BY <1>4, <2>3, <2>4, SeqEqual
  <2>6. QED
    BY <2>2, <2>5
<1>7. QED
  BY <1>2, <1>6 DEF Abstract!Serve

LEMMA OfferStep ==
  ASSUME I2cInv, NEW t \in Transactions, Test(t)
  PROVE  Abstract!Offer(t)
<1>1. I2cTypeOK /\ trans_extract_idx \in Slots /\ trans_insert_idx \in Slots
  BY DEF I2cInv, I2cTypeOK
<1>2. Abstract!Full <=> QueueFull
  BY <1>1, WaitingOf, DepthFull, WaitingType DEF Abstract!Full, QueueFull
<1>3. Waiting' = Waiting
  BY DEF Test, ring, Waiting, Depth
<1>4. QED
  BY <1>2, <1>3 DEF Abstract!Offer, Test

LEMMA QueueStep ==
  ASSUME I2cInv, [I2cNext]_i2c_vars
  PROVE  [Abstract!QNext]_<<Waiting, t_status>>
<1>1. CASE \E t \in Transactions : Fill(t)
  BY <1>1 DEF Fill, ring, Waiting, Depth
<1>2. CASE \E t \in Transactions : Test(t)
  BY <1>2, OfferStep DEF Abstract!QNext
<1>3. CASE \E t \in Transactions : Insert(t)
  BY <1>3, AcceptStep DEF Abstract!QNext
<1>4. CASE Interrupt
  <2>1. CASE Ends
    BY <1>4, <2>1, ServeStep DEF Abstract!QNext
  <2>2. CASE GoesOn
    BY <2>2 DEF GoesOn, ring, Waiting, Depth
  <2>3. QED
    BY <1>4, <2>1, <2>2, InterruptShape
<1>5. CASE UNCHANGED i2c_vars
  BY <1>5 DEF i2c_vars, ring, Waiting, Depth
<1>6. QED
  BY <1>1, <1>2, <1>3, <1>4, <1>5 DEF I2cNext, Interrupt

(* The ring, its two indexes and the test for room before the interrupt is    *)
(* masked implement a bounded first-in first-out queue: the safety part of    *)
(* FifoService.                                                             *)
THEOREM RingIsQueue ==
  I2cSpec => Abstract!QInit /\ [][Abstract!QNext]_<<Waiting, t_status>>
<1>1. I2cInit => I2cInv
  BY I2cInitInv
<1>2. I2cInv /\ [I2cNext]_i2c_vars => I2cInv'
  BY I2cStep
<1>3. I2cInv /\ [I2cNext]_i2c_vars => [Abstract!QNext]_<<Waiting, t_status>>
  BY QueueStep
<1>4. I2cInit => Abstract!QInit
  BY I2cInitInv, WaitingType DEF I2cInit, Abstract!QInit, Waiting, Depth
<1>5. QED
  BY <1>1, <1>2, <1>3, <1>4, PTL DEF I2cSpec

-----------------------------------------------------------------------------
(* Whole transfers.  How far the transfer of the head is: what was moved       *)
(* belongs to the position of the automaton, for a head of a driver that       *)
(* waits.                                                                   *)
Begun == IF moved.over THEN Nothing ELSE moved

(* What has been moved when only the write part, or nothing, is over.        *)
BeforeRead(m, j) ==
  /\ m.w = IF j.type = "I2CTransRx" THEN j.len_w ELSE 0
  /\ m.r = 0 /\ ~m.held /\ ~m.over

Sized(j) == IF j.type = "I2CTransTx" THEN j.len_r = 0 ELSE j.len_r > 0

Progress(j) ==
  /\ Sized(j)
  /\ hw = "start" => BeforeRead(Begun, j)
  /\ hw \in {"addr_w", "addr_r"} =>
       BeforeRead(moved, j) /\ idx_buf = 0 /\ (hw = "addr_r" <=> j.type = "I2CTransRx")
  /\ hw = "tx" =>
       /\ j.type # "I2CTransRx" /\ idx_buf \in 1 .. j.len_w
       /\ moved.w = idx_buf - 1 /\ moved.r = 0 /\ ~moved.held /\ ~moved.over
  /\ hw \in {"rx_ack", "rx_nack"} =>
       /\ j.type = "I2CTransRx" /\ moved.w = j.len_w /\ moved.r = idx_buf
       /\ IF hw = "rx_ack" THEN idx_buf + 1 < j.len_r ELSE idx_buf + 1 = j.len_r
       /\ ~moved.over

(* A transaction that waits for its turn is as its driver filled it.         *)
Fresh(t) == FilledIn(job[t])
Unserved(t) ==
  \/ caller \in Steps \X {t}
  \/ \E i \in Used \ {trans_extract_idx} : trans[i] = t

TransferInv ==
  /\ hw # "off" /\ Current \in Careful => Progress(job[Current])
  /\ hw = "off" => Begun = Nothing
  /\ \A t \in Careful : Unserved(t) => Fresh(t)

LEMMA FreshProgress ==
  ASSUME NEW t, FilledIn(job[t]), hw = "start", Begun = Nothing
  PROVE  Progress(job[t])
BY DEF FilledIn, Progress, Sized, BeforeRead, Nothing

(* The head is in the ring, and a driver that waits is nowhere else.         *)
LEMMA HeadUsed ==
  ASSUME I2cInv, hw # "off"
  PROVE  /\ trans_extract_idx \in Used /\ Current \in Transactions
         /\ Current \in Careful => ~Unserved(Current) /\ t_status[Current] = "Pending"
<1>1. trans_extract_idx \in Slots /\ trans_insert_idx \in Slots
      /\ trans_extract_idx # trans_insert_idx
  BY DEF I2cInv, I2cTypeOK, NoLostWakeup
<1>2. trans_extract_idx \in Used
  BY <1>1, RingExtract, UsedIsBetween
<1>3. Current \in Transactions
  BY <1>1, <1>2 DEF I2cInv, I2cTypeOK, NoLostWakeup, Current
<1>4. Queued(Current)
  BY <1>2 DEF Queued, Current
<1>5. QED
  BY <1>2, <1>3, <1>4 DEF I2cInv, OwnedByOne, Unserved, Current

LEMMA EndsOver ==
  ASSUME I2cTypeOK, Interrupt, Ends
  PROVE  moved'.over /\ job' = job
<1>1. trans_extract_idx' # trans_extract_idx
  BY NextSlotType DEF Ends, I2cEndOfTransaction, I2cTypeOK
<1>2. moved \in [w : Nat, r : Nat, held : BOOLEAN, over : BOOLEAN]
  BY DEF I2cTypeOK
<1>3. CASE Transmit
  BY <1>1, <1>2, <1>3 DEF Transmit, KeepsHead
<1>4. CASE DataAck
  BY <1>1, <1>2, <1>4 DEF DataAck, KeepsHead
<1>5. CASE DataNack \/ BusFault
  BY <1>2, <1>5 DEF DataNack, BusFault
<1>6. QED
  BY <1>1, <1>3, <1>4, <1>5 DEF Interrupt, Started, AddressNack, ReadStarts, KeepsHead

LEMMA EndTransfer ==
  ASSUME I2cInv, I2cInv', TransferInv, Interrupt, Ends
  PROVE  TransferInv'
<1>1. I2cTypeOK /\ I2cTypeOK' /\ moved'.over /\ job' = job
  BY EndsOver DEF I2cInv
<1>2. Begun' = Nothing
  BY <1>1 DEF Begun
<1>3. /\ trans' = trans /\ caller' = caller /\ trans_insert_idx' = trans_insert_idx
      /\ trans_extract_idx' = NextSlot(trans_extract_idx)
      /\ hw' \in {"off", "start"} /\ hw # "off"
  BY DEF Ends, I2cEndOfTransaction, I2cSendStart
<1>4. Used' = Used \ {trans_extract_idx}
  <2>1. /\ trans_extract_idx \in Slots /\ trans_insert_idx \in Slots
        /\ trans_extract_idx # trans_insert_idx
    BY <1>1, <1>3 DEF I2cTypeOK, I2cInv, NoLostWakeup
  <2>2. Used' = Between(trans_extract_idx', trans_insert_idx')
    BY DEF Used, Between, Slots
  <2>3. QED
    BY <1>3, <2>1, <2>2, RingExtract, UsedIsBetween
<1>5. \A t \in Careful : Unserved(t)' => Fresh(t)'
  BY <1>1, <1>3, <1>4 DEF Unserved, Fresh, TransferInv
<1>6. ASSUME hw' # "off", Current' \in Careful
      PROVE  Progress(job[Current])'
  <2>1. trans_extract_idx' \in Used'
    <3>1. /\ trans_extract_idx' \in Slots /\ trans_insert_idx' \in Slots
          /\ trans_extract_idx' # trans_insert_idx'
      BY <1>6 DEF I2cInv, I2cTypeOK, NoLostWakeup
    <3>2. Used' = Between(trans_extract_idx', trans_insert_idx')
      BY DEF Used, Between, Slots
    <3>3. QED
      BY <3>1, <3>2, RingExtract
  <2>2. Unserved(Current')
    BY <1>3, <1>4, <2>1 DEF Unserved, Current
  <2>3. FilledIn(job'[Current'])
    BY <1>1, <1>6, <2>2 DEF TransferInv, Fresh
  <2>4. QED
    BY <1>2, <1>3, <1>6, <2>3
       DEF FilledIn, Progress, Sized, BeforeRead, Nothing
<1>7. QED
  BY <1>2, <1>5, <1>6 DEF TransferInv

(* While the transfer goes on, the progress is kept.                        *)
LEMMA ProgressKept ==
  ASSUME I2cTypeOK, I2cTypeOK', Current \in Transactions, Interrupt, GoesOn,
         Progress(job[Current]), ~Ends
  PROVE  Progress(job[Current])'
<1> DEFINE j == job[Current]
<1>1. /\ moved \in [w : Nat, r : Nat, held : BOOLEAN, over : BOOLEAN]
      /\ idx_buf \in Nat /\ j.len_w \in Nat /\ j.len_r \in Nat /\ j.type \in Types
      /\ Sized(j) /\ Current' = Current
  BY DEF I2cTypeOK, JobSet, Progress, GoesOn, ring, Current
<1>2. CASE Started
  <2>1. moved' = Begun /\ job' = job /\ BeforeRead(Begun, j)
    BY <1>2 DEF Started, Begun, Progress
  <2>2. QED
    BY <1>1, <1>2, <2>1 DEF Started, Progress
<1>3. CASE AddressNack
  <2>1. BeforeRead(moved, j) /\ moved' = moved /\ job' = job /\ hw' = "start"
    BY <1>3 DEF AddressNack, Progress, I2cSendStart
  <2>2. Begun' = moved
    BY <2>1 DEF Begun, BeforeRead
  <2>3. QED
    BY <1>1, <2>1, <2>2 DEF Progress, BeforeRead
<1>4. CASE Transmit
  <2> DEFINE seen == [moved EXCEPT !.w = IF hw = "tx" THEN @ + 1 ELSE @]
  <2>1. /\ seen.w = idx_buf /\ seen.r = 0 /\ ~seen.held /\ ~seen.over
        /\ seen \in [w : Nat, r : Nat, held : BOOLEAN, over : BOOLEAN]
        /\ j.type # "I2CTransRx" /\ idx_buf <= j.len_w
    BY <1>1, <1>4 DEF Transmit, Progress, BeforeRead
  <2>2. CASE idx_buf < j.len_w /\ hw' = "tx" /\ idx_buf' = idx_buf + 1
             /\ moved' = seen /\ job' = job
    BY <1>1, <2>1, <2>2 DEF Progress
  <2>3. CASE /\ ~(idx_buf < j.len_w) /\ job' = [job EXCEPT ![Current].type = "I2CTransRx"]
             /\ j.type = "I2CTransTxRx" /\ hw' = "start" /\ moved' = seen
    <3>1. job'[Current] = [j EXCEPT !.type = "I2CTransRx"]
      BY <2>3 DEF I2cTypeOK
    <3>2. /\ job'[Current].type = "I2CTransRx" /\ job'[Current].len_w = j.len_w
          /\ job'[Current].len_r = j.len_r
      BY <3>1 DEF I2cTypeOK, JobSet
    <3>3. Begun' = seen
      BY <2>1, <2>3 DEF Begun
    <3>4. seen.w = j.len_w
      BY <1>1, <2>1, <2>3
    <3>5. BeforeRead(seen, job'[Current])
      BY <2>1, <3>2, <3>4 DEF BeforeRead
    <3>6. Sized(job'[Current])
      BY <1>1, <2>3, <3>2 DEF Sized
    <3>7. QED
      BY <1>1, <2>3, <3>2, <3>3, <3>5, <3>6 DEF Progress, BeforeRead, Sized
  <2>4. CASE Finish
    BY <1>4, <2>4 DEF Transmit, Finish, Ends, GoesOn, KeepsQueue
  <2>5. QED
    BY <1>4, <2>2, <2>3, <2>4 DEF Transmit, I2cSendStart
<1>5. CASE ReadStarts
  <2>1. /\ moved.w = j.len_w /\ moved.r = 0 /\ ~moved.over /\ idx_buf = 0
        /\ j.type = "I2CTransRx" /\ j.len_r > 0
    BY <1>1, <1>5 DEF ReadStarts, Progress, BeforeRead, Sized
  <2>2. QED
    BY <1>1, <1>5, <2>1 DEF ReadStarts, Progress, Acknowledge, Sized
<1>6. CASE DataAck
  <2>1. /\ moved.w = j.len_w /\ moved.r = idx_buf /\ idx_buf + 1 < j.len_r
        /\ j.type = "I2CTransRx"
    BY <1>1, <1>6 DEF DataAck, Progress
  <2>2. /\ idx_buf' = idx_buf + 1 /\ job' = job
        /\ hw' = IF idx_buf' + 1 < j.len_r THEN "rx_ack" ELSE "rx_nack"
        /\ moved'.r = idx_buf + 1 /\ moved'.w = j.len_w /\ ~moved'.over
    <3>1. idx_buf < j.len_r /\ idx_buf' = idx_buf + 1 /\ job' = job
          /\ hw' = IF Acknowledge THEN "rx_ack" ELSE "rx_nack"
      BY <1>1, <1>6, <2>1 DEF DataAck
    <3>2. (~(idx_buf < j.len_r)) = FALSE
      BY <3>1
    <3>3. moved' = [moved EXCEPT !.r = @ + 1, !.held = TRUE, !.over = FALSE]
      BY <1>6, <3>2, Zenon DEF DataAck
    <3>4. moved'.r = idx_buf + 1 /\ moved'.w = j.len_w /\ ~moved'.over
      BY <1>1, <2>1, <3>3
    <3>5. QED
      BY <1>1, <3>1, <3>4 DEF Acknowledge
  <2>3. QED
    BY <1>1, <2>1, <2>2 DEF Progress
<1>7. CASE DataNack \/ BusFault
  BY <1>7 DEF DataNack, BusFault, Finish, Ends, GoesOn, KeepsQueue
<1>8. QED
  BY <1>2, <1>3, <1>4, <1>5, <1>6, <1>7 DEF Interrupt

LEMMA InterruptTransfer ==
  ASSUME I2cInv, I2cInv', TransferInv, Interrupt
  PROVE  TransferInv'
<1>1. CASE Ends
  BY <1>1, EndTransfer
<1>2. CASE GoesOn /\ ~Ends
  <2>1. /\ Current' = Current /\ hw # "off" /\ hw' # "off" /\ Used' = Used
        /\ \A t : Unserved(t)' = Unserved(t)
    BY <1>2 DEF GoesOn, ring, Current, Used, Unserved
  <2>2. Current \in Transactions /\ (Current \in Careful => ~Unserved(Current))
    BY <2>1, HeadUsed
  <2>3. \A t \in Transactions : t # Current => job'[t] = job[t]
    <3>1. CASE UNCHANGED job
      BY <3>1
    <3>2. CASE job' = [job EXCEPT ![Current].type = "I2CTransRx"]
      BY <3>2 DEF I2cInv, I2cTypeOK
    <3>3. QED
      BY <3>1, <3>2 DEF Interrupt, Started, AddressNack, Transmit, ReadStarts,
                        DataAck, DataNack, BusFault
  <2>4. \A t \in Careful : Unserved(t)' => Fresh(t)'
    BY <2>1, <2>2, <2>3 DEF Fresh, TransferInv, Careful
  <2>5. Current' \in Careful => Progress(job[Current])'
    BY <1>2, <2>1, <2>2, ProgressKept DEF TransferInv, I2cInv
  <2>6. QED
    BY <2>1, <2>4, <2>5 DEF TransferInv
<1>3. QED
  BY <1>1, <1>2, InterruptShape

(* No driver touches the transaction under way, unless it is careless.       *)
LEMMA FillTransfer ==
  ASSUME I2cInv, TransferInv, NEW t \in Transactions, Fill(t)
  PROVE  TransferInv'
<1>1. PICK j \in Jobs[t] : job' = [job EXCEPT ![t] = j]
  BY DEF Fill
<1>2. FilledIn(j)
  BY I2cAssumption
<1>3. /\ caller = Idle /\ caller' = <<"filled", t>>
      /\ UNCHANGED <<hw, moved, idx_buf>> /\ Current' = Current /\ Used' = Used
      /\ trans' = trans /\ trans_extract_idx' = trans_extract_idx
      /\ Begun' = Begun
  BY DEF Fill, ring, Current, Used, Begun
<1>4. hw # "off" /\ Current \in Careful => Current # t
  BY HeadUsed DEF Fill
<1>5. \A u \in Transactions : job'[u] = IF u = t THEN j ELSE job[u]
  BY <1>1 DEF I2cInv, I2cTypeOK
<1>6. \A u \in Careful : u # t => (Unserved(u)' => Unserved(u))
  BY <1>3 DEF Unserved, Steps
<1>7. \A u \in Careful : Unserved(u)' => Fresh(u)'
  BY <1>2, <1>5, <1>6 DEF Fresh, TransferInv, Careful
<1>8. hw' # "off" /\ Current' \in Careful => Progress(job[Current])'
  <2> SUFFICES ASSUME hw # "off", Current \in Careful
               PROVE  Progress(job[Current])'
    BY <1>3
  <2>1. (job[Current])' = job[Current]
    BY <1>3, <1>4, <1>5 DEF Careful
  <2>2. QED
    BY <1>3, <2>1 DEF Progress, BeforeRead, TransferInv
<1>9. QED
  BY <1>3, <1>7, <1>8 DEF TransferInv

LEMMA TestTransfer ==
  ASSUME I2cInv, TransferInv, NEW t \in Transactions, Test(t)
  PROVE  TransferInv'
<1>1. /\ caller = <<"filled", t>> /\ caller' \in {Idle, <<"tested", t>>}
      /\ UNCHANGED <<hw, moved, idx_buf, job>> /\ Current' = Current /\ Used' = Used
      /\ trans' = trans /\ trans_extract_idx' = trans_extract_idx
      /\ Begun' = Begun
  BY DEF Test, ring, Current, Used, Begun
<1>2. \A u \in Careful : Unserved(u)' => Unserved(u)
  BY <1>1 DEF Unserved, Steps, Idle
<1>3. QED
  BY <1>1, <1>2 DEF TransferInv, Fresh, Progress, BeforeRead

LEMMA InsertTransfer ==
  ASSUME I2cInv, I2cInv', TransferInv, NEW t \in Transactions, Insert(t)
  PROVE  TransferInv'
<1>1. /\ trans_extract_idx \in Slots /\ trans_insert_idx \in Slots
      /\ trans \in [Slots -> Transactions \cup {NULL}]
      /\ NextSlot(trans_insert_idx) # trans_extract_idx
  BY DEF I2cInv, I2cTypeOK, RoomKept, QueueFull, Insert
<1>2. /\ trans' = [trans EXCEPT ![trans_insert_idx] = t]
      /\ trans_insert_idx' = NextSlot(trans_insert_idx)
      /\ UNCHANGED <<trans_extract_idx, job, moved, idx_buf>> /\ Begun' = Begun
      /\ caller = <<"tested", t>> /\ caller' = Idle
      /\ IF hw = "off" THEN hw' = "start" ELSE hw' = hw
  BY DEF Insert, I2cInv, NoLostWakeup, I2cSendStart, Begun
<1>3. Used' = Used \cup {trans_insert_idx} /\ trans_insert_idx \notin Used
      /\ Used \subseteq Slots
  <2>1. Used' = Between(trans_extract_idx', trans_insert_idx')
    BY DEF Used, Between, Slots
  <2>2. QED
    BY <1>1, <1>2, <2>1, RingInsert, RingSlots, UsedIsBetween
<1>4. Unserved(t) /\ \A u \in Careful : Unserved(u)' => u = t \/ Unserved(u)
  <2>1. Unserved(t)
    BY <1>2 DEF Unserved, Steps
  <2>2. \A u \in Careful : Unserved(u)' =>
          \E i \in Used' \ {trans_extract_idx} : trans'[i] = u
    BY <1>2 DEF Unserved, Idle, Steps
  <2>3. \A i \in Used' : trans'[i] = IF i = trans_insert_idx THEN t ELSE trans[i]
    BY <1>1, <1>2, <1>3
  <2>4. QED
    BY <1>3, <2>1, <2>2, <2>3 DEF Unserved
<1>5. \A u \in Careful : Unserved(u)' => Fresh(u)'
  BY <1>2, <1>4 DEF Fresh, TransferInv
<1>6. hw' # "off"
  BY <1>2
<1>7. CASE hw = "off"
  <2>1. trans_insert_idx = trans_extract_idx
    BY <1>7 DEF I2cInv, NoLostWakeup
  <2>2. Current' = t
    BY <1>1, <1>2, <2>1 DEF Current
  <2>3. t \in Careful => Progress(job[t])'
    BY <1>2, <1>4, <1>7
       DEF TransferInv, Fresh, FilledIn, Progress, Sized, BeforeRead, Nothing
  <2>4. QED
    BY <1>5, <1>6, <2>2, <2>3 DEF TransferInv
<1>8. CASE hw # "off"
  <2>1. trans_extract_idx \in Used
    BY <1>8, HeadUsed
  <2>2. Current' = Current
    BY <1>1, <1>2, <1>3, <2>1 DEF Current
  <2>3. QED
    BY <1>2, <1>5, <1>6, <1>8, <2>2 DEF TransferInv, Progress, BeforeRead
<1>9. QED
  BY <1>7, <1>8

LEMMA TransferStep ==
  ASSUME I2cInv, TransferInv, [I2cNext]_i2c_vars
  PROVE  TransferInv'
<1>1. I2cInv'
  BY I2cStep
<1>2. CASE \E t \in Transactions : Fill(t)
  BY <1>2, FillTransfer
<1>3. CASE \E t \in Transactions : Test(t)
  BY <1>3, TestTransfer
<1>4. CASE \E t \in Transactions : Insert(t)
  BY <1>1, <1>4, InsertTransfer
<1>5. CASE Interrupt
  BY <1>1, <1>5, InterruptTransfer
<1>6. CASE UNCHANGED i2c_vars
  <2>1. /\ Current' = Current /\ Begun' = Begun /\ (\A t : Unserved(t)' = Unserved(t))
        /\ UNCHANGED <<hw, moved, idx_buf, job>>
    BY <1>6 DEF i2c_vars, ring, Current, Begun, Unserved, Used
  <2>2. QED
    BY <2>1 DEF TransferInv, Fresh, Progress, BeforeRead
<1>7. QED
  BY <1>2, <1>3, <1>4, <1>5, <1>6 DEF I2cNext, Interrupt

LEMMA TransferInit ==
  ASSUME I2cInit
  PROVE  TransferInv
<1>1. Used = {}
  <2>1. 0 \in Slots
    BY I2cAssumption DEF Slots
  <2>2. QED
    BY <2>1, UsedIsBetween, RingEmpty DEF I2cInit
<1>2. \A t \in Careful : ~Unserved(t)
  BY <1>1 DEF I2cInit, Unserved, Idle, Steps
<1>3. Begun = Nothing /\ hw = "off"
  BY DEF I2cInit, Begun
<1>4. QED
  BY <1>2, <1>3 DEF TransferInv

LEMMA EndIsWhole ==
  ASSUME I2cInv, TransferInv, [I2cNext]_i2c_vars
  PROVE  trans_extract_idx' # trans_extract_idx /\ Current \in Careful /\ ~fault'
           => /\ moved'.w = job[Current].len_w
              /\ moved'.r = job[Current].len_r
              /\ ~moved'.held
<1> SUFFICES ASSUME trans_extract_idx' # trans_extract_idx, Current \in Careful, ~fault'
             PROVE  /\ moved'.w = job[Current].len_w
                    /\ moved'.r = job[Current].len_r
                    /\ ~moved'.held
  OBVIOUS
<1> DEFINE j == job[Current]
<1>1. Interrupt
  BY DEF I2cNext, Interrupt, Fill, Test, Insert, i2c_vars, ring
<1>2. hw # "off"
  BY <1>1, InterruptShape DEF Ends, GoesOn
<1>3. Progress(j)
  BY <1>2 DEF TransferInv
<1>4. /\ moved \in [w : Nat, r : Nat, held : BOOLEAN, over : BOOLEAN]
      /\ idx_buf \in Nat /\ j.len_w \in Nat /\ j.len_r \in Nat /\ j.type \in Types
  BY DEF I2cInv, I2cTypeOK, JobSet, Careful
<1>5. CASE Transmit
  <2>1. ~(idx_buf < j.len_w) /\ j.type # "I2CTransTxRx"
    BY <1>5 DEF Transmit, KeepsHead
  <2>2. moved' = [[moved EXCEPT !.w = IF hw = "tx" THEN @ + 1 ELSE @] EXCEPT !.over = TRUE]
    BY <1>5, <2>1 DEF Transmit
  <2>3. moved'.w = idx_buf /\ moved'.r = 0 /\ ~moved'.held /\ idx_buf <= j.len_w
    BY <1>3, <1>4, <1>5, <2>2 DEF Transmit, Progress, BeforeRead
  <2>4. j.type = "I2CTransTx"
    BY <1>3, <1>4, <1>5, <2>1 DEF Transmit, Progress, Types
  <2>5. QED
    BY <1>3, <1>4, <2>1, <2>3, <2>4 DEF Progress, Sized
<1>6. CASE DataAck
  BY <1>3, <1>4, <1>6 DEF DataAck, Progress, KeepsHead
<1>7. CASE DataNack
  BY <1>3, <1>4, <1>7 DEF DataNack, Progress
<1>8. QED
  BY <1>1, <1>5, <1>6, <1>7
     DEF Interrupt, Started, AddressNack, ReadStarts, BusFault, KeepsHead

(* Short of a fault of the bus, Success means a whole transfer: every byte     *)
(* written and read once, and the slave told which was the last.            *)
THEOREM TransfersAreWhole == I2cSpec => WholeTransfer
<1>1. I2cInit => I2cInv /\ TransferInv
  BY I2cInitInv, TransferInit
<1>2. I2cInv /\ TransferInv /\ [I2cNext]_i2c_vars => I2cInv' /\ TransferInv'
  BY I2cStep, TransferStep
<1>3. I2cInv /\ TransferInv /\ [I2cNext]_i2c_vars =>
        [(trans_extract_idx' # trans_extract_idx /\ Current \in Careful /\ ~fault')
           => /\ moved'.w = job[Current].len_w
              /\ moved'.r = job[Current].len_r
              /\ ~moved'.held]_i2c_vars
  BY EndIsWhole
<1>4. QED
  BY <1>1, <1>2, <1>3, PTL DEF I2cSpec, WholeTransfer
=============================================================================
