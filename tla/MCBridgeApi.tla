---------------------------- MODULE MCBridgeApi ----------------------------
(* Instances of BridgeApi for TLC. *)
EXTENDS BridgeApi, TLC

Symmetry == Permutations(Requests) \cup Permutations(Symbols)

\* Two are bought or one is sold.
BuyTwoSellOne == {2, -1}
=============================================================================
