------------------------ MODULE OrderBookRefinement -------------------------
(* The sweep of OrderBook implements the closed form of PriorityBook.  A     *)
(* submission takes effect, in the abstract, when it begins; during the      *)
(* sweep the abstract book is what the rest of the sweep will make of the    *)
(* book as it stands, and the abstract answer is the fills made so far       *)
(* followed by those the closed form predicts.                               *)
EXTENDS OrderBook, PriorityRules

RestingOn(side) == {id \in OrderIds : Live(id) /\ orders_lookup[id].side = side}

EntryOf(id) ==
  [order_id |-> id, order_type |-> orders_lookup[id].order_type,
   price |-> orders_lookup[id].price,
   remaining_quantity |-> orders_lookup[id].remaining_quantity]

(* The orders up to id in priority on its side, id included. *)
UpTo(id) == {x \in RestingOn(orders_lookup[id].side) : x = id \/ Ahead(x, id)}

(* The orders of a side, best level first, each level in the order of its list. *)
Priority(side) ==
  [k \in 1 .. Cardinality(RestingOn(side)) |->
     EntryOf(CHOOSE id \in RestingOn(side) : Cardinality(UpTo(id)) = k)]

Standing == [s \in Side |-> Priority(s)]

(* The sweep goes on, or will once the dry run has passed. *)
WillSweep ==
  pc \in {"outer", "inner", "swept"} \/ (pc = "dry_run" /\ Passes(Standing, taker))

(* What the rest of the call will make of the book.  The bounds only name    *)
(* values, for TLC to compute once.                                          *)
ToCome ==
  CHOOSE r \in {Outcome(b, o) : b \in {Standing}, o \in {taker}} : TRUE

PromisedBook == IF WillSweep THEN ToCome.book ELSE Standing

PromisedFills == IF WillSweep THEN trades \o ToCome.fills ELSE trades

Request ==
  IF pc = "idle" THEN NoOrder
  ELSE [taker EXCEPT !.remaining_quantity = taker.quantity]

Abstract ==
  INSTANCE PriorityBook WITH
    resting <- PromisedBook, request <- Request, fills <- PromisedFills

(* Whatever the sequence of calls, fills and book are those of the closed    *)
(* form: the loops allot by price, then arrival, stop where they should, and *)
(* leave the remainder where it belongs.                                     *)
ImplementsPriorityBook == Abstract!Spec
=============================================================================
