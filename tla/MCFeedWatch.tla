---------------------------- MODULE MCFeedWatch ----------------------------
(* A small instance of FeedWatch for TLC. *)
EXTENDS FeedWatch

CONSTANTS btc, eth   \* two symbols of one stream

TwoSymbols == {btc, eth}
=============================================================================
