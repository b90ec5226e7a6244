-------------------------- MODULE MCTradeValidator --------------------------
(* Small instances of TradeValidator for TLC. *)
EXTENDS TradeValidator, TLC

LateOrders == Others \X {6} \X {3}

Symmetry == Permutations(BinanceIds)
=============================================================================
