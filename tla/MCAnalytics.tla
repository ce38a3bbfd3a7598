---------------------------- MODULE MCAnalytics ----------------------------
(* A small instance of Analytics for TLC. *)
EXTENDS Analytics

Bars == {[high |-> 1536, low |-> 768, close |-> 1536],
         [high |-> 6144, low |-> 3072, close |-> 3072],
         [high |-> 6144, low |-> 6144, close |-> 6144]}
OneBuyOneSell == {[side |-> "buy", qty |-> 1], [side |-> "sell", qty |-> 2]}
=============================================================================
