---------------------------- MODULE MCApiServer -----------------------------
(* Small instances of ApiServer for TLC. *)
EXTENDS ApiServer, TLC

CONSTANT btc

Submission(id, side, type, price) ==
  [symbol |-> btc, order_id |-> id, side |-> side, order_type |-> type,
   price |-> price, quantity |-> 1]

(* An order named by a number that the clock may read as well, one without a *)
(* price that the clock names, which trades with it or rests, and one that   *)
(* only trades.                                                              *)
MCSubmissions ==
  {Submission(1, BUY, LIMIT, 1), Submission(NoId, SELL, LIMIT, 0),
   Submission(NoId, SELL, MARKET, 1)}

(* Orders the client names, for liveness. *)
MCNamed == {Submission(1, BUY, LIMIT, 1)}

Symmetry == Permutations(Connections)
=============================================================================
