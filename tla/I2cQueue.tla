------------------------------ MODULE I2cQueue ------------------------------
(***************************************************************************)
(* What i2c_submit promises: the accepted transactions are served one at a   *)
(* time in the order of their acceptance, each acceptance once, and a        *)
(* transaction is refused only when the queue is full.                      *)
(***************************************************************************)
EXTENDS Naturals, Sequences

CONSTANTS Transactions, Capacity

VARIABLES queue, result

QInit == queue = <<>> /\ result = [t \in Transactions |-> "Success"]

Full == Len(queue) = Capacity

(* The submission is decided before the transaction is put in the queue, with *)
(* the interrupt between the two.                                           *)
Offer(t) ==
  /\ \/ result' = [result EXCEPT ![t] = "Failed"] /\ Full
     \/ result' = [result EXCEPT ![t] = "Pending"] /\ ~Full
  /\ UNCHANGED queue

Accept(t) ==
  /\ ~Full /\ queue' = Append(queue, t)
  /\ UNCHANGED result

Serve ==
  /\ queue # <<>>
  /\ queue' = Tail(queue)
  /\ result' = [result EXCEPT ![Head(queue)] = "Success"]

QNext == (\E t \in Transactions : Offer(t) \/ Accept(t)) \/ Serve

QSpec == QInit /\ [][QNext]_<<queue, result>> /\ WF_<<queue, result>>(Serve)
=============================================================================
