-------------------------- MODULE PositionContract --------------------------
(***************************************************************************)
(* What a position promises: it is an inventory and a cash account into    *)
(* which each fill of the venue is booked at most once, in any order.  No  *)
(* average, no realized P&L, no direction: since a booking adds fixed      *)
(* amounts, the account depends on the set of the booked fills only.       *)
(***************************************************************************)
EXTENDS Integers, Sequences

CONSTANT Fills      \* the fills a venue may report

VARIABLES issued,     \* those it has reported, a sequence
          booked,     \* the places in it of those that are booked
          inventory,
          cash
vars == <<issued, booked, inventory, cash>>

Signed(f) == IF f.side = "buy" THEN f.qty ELSE -f.qty

Init == issued = <<>> /\ booked = {} /\ inventory = 0 /\ cash = 0

Issue ==
  /\ issued' \in Seq(Fills) /\ Len(issued') = Len(issued) + 1
  /\ \A i \in DOMAIN issued : issued'[i] = issued[i]
  /\ UNCHANGED <<booked, inventory, cash>>

Book(i) ==
  /\ i \notin booked
  /\ booked'    = booked \cup {i}
  /\ inventory' = inventory + Signed(issued[i])
  /\ cash'      = cash - Signed(issued[i]) * issued[i].price - issued[i].fee
  /\ UNCHANGED issued

(* The holder starts again from nothing. *)
Restart == booked' = {} /\ inventory' = 0 /\ cash' = 0 /\ UNCHANGED issued

Next == Issue \/ (\E i \in DOMAIN issued : Book(i)) \/ Restart

Spec == Init /\ [][Next]_vars
=============================================================================
