---------------------------- MODULE MCRestClient ----------------------------
(* Small instances of RestClient for TLC. *)
EXTENDS RestClient, TLC

CONSTANTS c1, c2   \* two processes behind one address

TwoClients == {c1, c2}
OneClient  == {c1}
Waits      == {2}   (* more than the default *)
Symmetry   == Permutations(TwoClients)
=============================================================================
