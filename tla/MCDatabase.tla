----------------------------- MODULE MCDatabase -----------------------------
(* A small instance of Database for TLC. *)
EXTENDS Database

CONSTANTS c1, c2, momentum, carry, btc, eth

TwoConnections == {c1, c2}
TwoStrategies  == {momentum, carry}
TwoSymbols     == {btc, eth}

Trading(tick) == [status |-> "TRADING", tick |-> tick]
Break(tick)   == [status |-> "BREAK", tick |-> tick]

(* Both trade; one halts with a new tick size and the other is malformed;  *)
(* the other way round, one is still unknown.                              *)
ThreeListings ==
  {btc :> Trading(1) @@ eth :> Trading(1),
   btc :> Break(2)   @@ eth :> NoEntry,
   btc :> NoEntry    @@ eth :> Trading(2)}

SymmetricNames == Permutations(TwoConnections) \union Permutations(TwoStrategies)
=============================================================================
