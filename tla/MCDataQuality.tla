--------------------------- MODULE MCDataQuality ---------------------------
(* Small instances of DataQuality for TLC: bars open at 0, 2, 4, 6 and 8.  *)
EXTENDS DataQuality

CONSTANT scanner

OneScanner == {scanner}
WholeDay   == {<<0, 8>>}

(* A bar that opens at o, closes at c and stays between the two. *)
Bar(t, o, c, v) == [open_time |-> t, open |-> o, high |-> Max({o, c}), low |-> Min({o, c}),
                    close |-> c, volume |-> v]
HighTooLow(bar) == [bar EXCEPT !.high = Min({bar.open, bar.close})]

(* The venue had an outage at 4; its bar at 2 has a high below its close.  *)
OutageAndBadBar ==
  [t \in {0, 2, 6, 8} |-> IF t = 2 THEN HighTooLow(Bar(2, 1, 2, 1)) ELSE Bar(t, 1, 1, 1)]

(* The announced maintenance covers the outage. *)
Announced == {<<4, 5>>}

(* Batches: quiet bars and a hole; moves around the threshold, the bar at  *)
(* 2 included; bars of negative volume, misaligned and with a broken high; *)
(* a repeated bar.                                                         *)
Arrivals == {
  <<Bar(0, 1, 1, 0), Bar(2, 1, 1, 0), Bar(6, 1, 1, 0)>>,
  <<Bar(2, 1, 2, 1), Bar(4, 2, 2, 0), Bar(6, 2, 3, 1)>>,
  <<Bar(0, 1, 1, -1), Bar(2, 1, 1, 1), Bar(4, 1, 1, 0), Bar(5, 1, 1, 1), HighTooLow(Bar(6, 1, 2, 1))>>,
  <<Bar(2, 1, 1, 1), Bar(2, 1, 2, 1)>> }
=============================================================================
