--------------------------- MODULE MCGapFillStream ---------------------------
(* Small instances of GapFillStream for TLC.  Time is the only bound: the  *)
(* clock stops at MaxTime, and the venue goes on sending partial frames.   *)
EXTENDS GapFillStream
=============================================================================
