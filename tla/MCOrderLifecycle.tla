-------------------------- MODULE MCOrderLifecycle --------------------------
(* One order and two holders of it.  Six events are enough for a cancel    *)
(* that crosses a partial fill and then a fill.                            *)
EXTENDS OrderLifecycle

CONSTANTS o1,       \* an order
          oms, gate \* two holders of it
OneOrder   == {o1}
TwoHolders == {oms, gate}
=============================================================================
