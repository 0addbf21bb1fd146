--------------------------- MODULE MCChainManager ---------------------------
(* Small instances of ChainManager for TLC: two DLCs, one of which a CET   *)
(* closes and the other its refund.                                       *)
EXTENDS ChainManager, TLC

CONSTANTS a, b, first, second

Pair == {a, b}
ExecutedAndRefunded == a :> first @@ b :> Refund
=============================================================================
