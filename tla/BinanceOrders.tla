---------------------------- MODULE BinanceOrders ---------------------------
(* The identifiers by which src/order_book.cpp tells the orders that the     *)
(* Binance connector places: those that start with "BINANCE_".               *)

CONSTANT BinanceIds

(* Self-trade prevention: a Binance order never trades with another one. *)
SelfTrade(taker_id, maker_id) == taker_id \in BinanceIds /\ maker_id \in BinanceIds
=============================================================================
