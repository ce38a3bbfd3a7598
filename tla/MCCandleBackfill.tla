-------------------------- MODULE MCCandleBackfill --------------------------
(* Small instances of CandleBackfill for TLC. *)
EXTENDS CandleBackfill

CONSTANTS w1, w2   \* two backfill processes

(* Bar 3 never exists (an outage of the venue): the hole lies within the   *)
(* second page of <<0, 4>> and between the two pages of <<1, 4>>.          *)
OutageBars  == {0, 1, 2, 4}
(* Two requests that overlap, as a gap-fill and a nightly scan would.      *)
Overlapping == {<<0, 4>>, <<1, 4>>}
TwoWorkers  == {w1, w2}
=============================================================================
