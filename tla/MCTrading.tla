----------------------------- MODULE MCTrading -----------------------------
(***************************************************************************)
(* Instances of Trading for TLC.                                           *)
(***************************************************************************)
EXTENDS Trading, TLC

LongOnly == {1}
BothSides == {1, -1}
=============================================================================
