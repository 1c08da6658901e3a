---------------------------- MODULE SwapContract ----------------------------
(***************************************************************************)
(* What the swap service promises of an order, whatever its handlers, the  *)
(* sweep and the ledger do: the tokens leave the treasury only after some  *)
(* transfer that counts as a payment of the order is on the ledger, and an *)
(* order is recorded completed only when its tokens have left.             *)
(*                                                                         *)
(* It is not promised that the transfer is the order's own, that it is of  *)
(* the right amount, or that it counts for one order only.  Nor is anything*)
(* promised of a failed order: its payment and its tokens may both be on   *)
(* the ledger.                                                             *)
(***************************************************************************)
CONSTANTS Order,
          Transfer,   \* an order's payment goes by the order's name
          Counts      \* the transfers that count as a payment of an order

VARIABLES status,   \* what the swap_orders row says
          paid,     \* the transfers on the ledger
          served    \* the orders whose output tokens are on the ledger

vars == <<status, paid, served>>

Init ==
  /\ status = [o \in Order |-> "none"]
  /\ paid = {}
  /\ served = {}

Open(o) ==
  /\ status[o] = "none"
  /\ status' = [status EXCEPT ![o] = "pending"]
  /\ UNCHANGED <<paid, served>>

\* Nobody can pay an order that is not there; other transfers need no order.
Pay(t) ==
  /\ t \in Order => status[t] # "none"
  /\ paid' = paid \cup {t}
  /\ UNCHANGED <<status, served>>

Serve(o) ==
  /\ status[o] # "none"
  /\ \E t \in Counts[o] : t \in paid
  /\ served' = served \cup {o}
  /\ UNCHANGED <<status, paid>>

Complete(o) ==
  /\ o \in served
  /\ status' = [status EXCEPT ![o] = "completed"]
  /\ UNCHANGED <<paid, served>>

Fail(o) ==
  /\ status[o] # "none"
  /\ status' = [status EXCEPT ![o] = "failed"]
  /\ UNCHANGED <<paid, served>>

Next ==
  \/ \E o \in Order : Open(o) \/ Serve(o) \/ Complete(o) \/ Fail(o)
  \/ \E t \in Transfer : Pay(t)

Spec == Init /\ [][Next]_vars
=============================================================================
