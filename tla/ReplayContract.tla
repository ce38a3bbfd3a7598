--------------------------- MODULE ReplayContract ---------------------------
(***************************************************************************)
(* What the feed of a backtest promises: every bar of the data once, in    *)
(* the order of the times they close, the shorter interval first when two  *)
(* close together -- so that a bar comes after every bar it contains.  No  *)
(* heap, no cursor, no order among bars that close together and are of the *)
(* same length.                                                            *)
(***************************************************************************)
EXTENDS Integers

CONSTANTS Keys,       \* the (symbol, timeframe) series
          Length      \* the length of a bar of each

VARIABLES data,       \* the bars of each series, fixed
          delivered   \* the <<series, open time>> delivered so far

vars == <<data, delivered>>

Bars == UNION {{k} \X data[k] : k \in Keys}

CloseOf(b) == b[2] + Length[b[1]]

(* Bar a must come before bar b. *)
Earlier(a, b) ==
  \/ CloseOf(a) < CloseOf(b)
  \/ CloseOf(a) = CloseOf(b) /\ Length[a[1]] < Length[b[1]]

Init == delivered = {}

Deliver(b) ==
  /\ b \notin delivered
  /\ \A a \in Bars : Earlier(a, b) => a \in delivered
  /\ delivered' = delivered \cup {b}
  /\ data' = data

Next == \E b \in Bars : Deliver(b)

Spec == Init /\ [][Next]_vars
=============================================================================
