-------------------------- MODULE MCBacktestReplay --------------------------
(* Small instances of BacktestReplay for TLC. *)
EXTENDS BacktestReplay, TLC

CONSTANTS minute,    \* a series of one-minute bars
          other,     \* one-minute bars of another symbol
          longer     \* bars of two minutes

ThreeSeries == {minute, other, longer}
Lengths     == (minute :> 1) @@ (other :> 1) @@ (longer :> 2)

(* Any gaps: every subset of four, two and two bars. *)
AnyGaps == {f \in [ThreeSeries -> SUBSET (0 .. 3)] :
              f[other] \subseteq {1, 2} /\ f[longer] \subseteq {0, 2}}
=============================================================================
