-------------------------- MODULE PayloadTransfer --------------------------
(***************************************************************************)
(* What every way of sending a payload promises, however it is cut, sent   *)
(* and put together again: a payload is handed over whole, and never more  *)
(* often than all of it has come.                                          *)
(***************************************************************************)
EXTENDS Naturals

CONSTANT Payloads

VARIABLES
  copies,   \* how often all of a payload has come
  handed,   \* how often it was handed over
  garbled,  \* something that is no payload was handed over
  astray    \* the sender broke its part: nothing is promised any more

vars == <<copies, handed, garbled, astray>>

Init ==
  /\ copies = [p \in Payloads |-> 0]
  /\ handed = [p \in Payloads |-> 0]
  /\ garbled = FALSE
  /\ astray = FALSE

Transfer(p) ==
  /\ copies[p] <= copies'[p]
  /\ handed[p] <= handed'[p]
  /\ handed'[p] <= copies'[p]

Next == astray' \/ (garbled' = garbled /\ \A p \in Payloads : Transfer(p))

Spec == Init /\ [][Next]_vars
=============================================================================
