------------------------- MODULE MCSmartOrderRouter -------------------------
(***************************************************************************)
(* An instance of SmartOrderRouter for TLC.                                *)
(***************************************************************************)
EXTENDS SmartOrderRouter

TwoQuotes == {[liquidity |-> 5, score |-> 1], [liquidity |-> 10, score |-> 2]}
=============================================================================
