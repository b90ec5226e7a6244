---------------------------- MODULE MCOrderBook -----------------------------
(* Small instances of OrderBook for TLC. *)
EXTENDS OrderBook

(* Users are alike, and so are the orders of the Binance connector. *)
Symmetry == Permutations(OrderIds \ BinanceIds) \cup Permutations(BinanceIds)
=============================================================================
