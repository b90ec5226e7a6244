------------------------------- MODULE Models -------------------------------
(* The vocabulary of src/models.hpp: sides, order types and the order in     *)
(* which prices are tried.  A price and a quantity are integers here, a      *)
(* number of ticks and a number of lots; the code stores both as double.     *)
EXTENDS Integers

BUY    == "BUY"
SELL   == "SELL"
Side   == {BUY, SELL}

LIMIT     == "LIMIT"
MARKET    == "MARKET"
IOC       == "IOC"
FOK       == "FOK"
OrderType == {LIMIT, MARKET, IOC, FOK}

(* The side an order trades against. *)
Opposite(side) == IF side = BUY THEN SELL ELSE BUY

(* The two maps of a book: bids_ is sorted by std::greater, asks_ by         *)
(* std::less, so p stands before q in the map of that side.                  *)
Before(side, p, q) == IF side = BUY THEN p > q ELSE p < q

(* An order of that side and limit accepts to trade at price p. *)
Accepts(side, limit, p) == IF side = BUY THEN p <= limit ELSE p >= limit
=============================================================================
