--------------------------- MODULE OrderContract ---------------------------
(***************************************************************************)
(* What the state machine of orders promises whoever shares an order: it   *)
(* has one status, which moves one legal transition at a time and never    *)
(* again once it is terminal.  No copies, no events, no sequence numbers.  *)
(***************************************************************************)
EXTENDS OrderStatuses

CONSTANT Orders
VARIABLE status   \* of each order, "absent" before it is created

Init == status = [o \in Orders |-> "absent"]

Create(o) ==
  /\ status[o] = "absent"
  /\ status' = [status EXCEPT ![o] = "pending_new"]

Transition(o, s) ==
  /\ status[o] \in Statuses \ Terminal /\ s \in Legal(status[o])
  /\ status' = [status EXCEPT ![o] = s]

Next == \E o \in Orders : Create(o) \/ \E s \in Statuses : Transition(o, s)

Spec == Init /\ [][Next]_status
=============================================================================
