------------------------- MODULE MCBinanceConnector -------------------------
(* A small instance of BinanceConnector for TLC. *)
EXTENDS BinanceConnector, TLC

(* Two books of the exchange between which a price changes sides, a side is  *)
(* deeper than a snapshot shows, and a level comes to be listed as empty.    *)
Middle == (BUY :> (2 :> 1 @@ 1 :> 1)) @@ (SELL :> (3 :> 1))
Higher == (BUY :> (3 :> 2 @@ 2 :> 0)) @@ (SELL :> <<>>)

MCExchangeBooks == {Middle, Higher}
=============================================================================
