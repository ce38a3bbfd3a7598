------------------------- MODULE MCParquetArchival -------------------------
(* Small instances of ParquetArchival for TLC. *)
EXTENDS ParquetArchival

CONSTANTS minute, hour   \* two candle intervals

TwoIntervals == {minute, hour}
OneInterval  == {minute}
(* What is recorded: candles at every instant, or at some of them and a    *)
(* tick at two.                                                            *)
Minutes         == {minute} \X (0 .. MaxTime)
MinutesAndTicks == ({minute} \X {0, 1, 2, 3, 5}) \cup ({Ticks} \X {2, 4})
(* Days of two instants, a month of one day and two of two. *)
Calendar == [m \in 0 .. LastMonth + 1 |-> <<0, 2, 6, 10>>[m + 1]]
(* The job runs at the same time of each day, in the middle of it. *)
Middays == {t \in 0 .. MaxTime : t % DayLength = 1}
NoPins == {}
FirstDayPinned == {<<minute, 0, 0>>}
=============================================================================
