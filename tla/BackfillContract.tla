-------------------------- MODULE BackfillContract --------------------------
(***************************************************************************)
(* What backfill_candles promises whoever reads its checkpoints, without   *)
(* pages, transactions, clocks or processes: the stored bars only grow,    *)
(* and a request is covered up to some stored bar of the venue, behind     *)
(* which nothing the venue has is missing.                                 *)
(***************************************************************************)
EXTENDS Integers

CONSTANTS Ranges,      \* the <<range_start, range_end>> requests
          VenueBars    \* the bars of the venue

VARIABLES stored,      \* the bars in the candle table
          covered_to   \* per request, the bar up to which it is covered

vars == <<stored, covered_to>>

Missing(r, to) == (VenueBars \cap (r[1] .. to)) \ stored

Init ==
  /\ stored = {}
  /\ covered_to = [r \in Ranges |-> r[1] - 1]

(* One chunk becomes visible, with the position it covers the request to. *)
Cover(r, page, to) ==
  /\ to \in page
  /\ Missing(r, to) \subseteq page
  /\ stored' = stored \cup page
  /\ covered_to' = [covered_to EXCEPT ![r] = to]

Next == \E r \in Ranges : \E page \in SUBSET (VenueBars \cap (r[1] .. r[2])) :
          \E to \in page : Cover(r, page, to)

Spec == Init /\ [][Next]_vars
=============================================================================
