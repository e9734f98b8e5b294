------------------------------- MODULE MCI2c -------------------------------
(* A ring of three slots (two transactions), a sensor that is read in the     *)
(* three ways, another with one register, and motor controllers that are     *)
(* written to whatever their transaction's status.                          *)
EXTENDS I2c

CONSTANTS sensor, baro, motor

Job(ty, w, r) == [type |-> ty, len_w |-> w, len_r |-> r]

MCJobs ==
  [t \in Transactions |->
     CASE t = sensor -> {Job("I2CTransTx", 2, 0), Job("I2CTransRx", 0, 3)}
       [] t = baro   -> {Job("I2CTransTxRx", 1, 1), Job("I2CTransRx", 0, 2)}
       [] t = motor  -> {Job("I2CTransTx", 1, 0)}]
=============================================================================
