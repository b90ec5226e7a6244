--------------------------- MODULE PriorityRules ----------------------------
(* What one submission does to a book, in closed form.  A book is one        *)
(* sequence of resting orders per side, first in priority first; nothing is  *)
(* said of levels, lists, iterators or loops.                                *)
EXTENDS Models, BinanceOrders, FiniteSets, SequencesExt

Barred(o, maker) == SelfTrade(o.order_id, maker.order_id)

Acceptable(o, maker) ==
  o.order_type = MARKET \/ Accepts(o.side, o.price, maker.price)

(* The makers a FOK order counts, as positions of the opposite side. *)
Countable(b, o) ==
  LET makers == b[Opposite(o.side)]
  IN  {i \in DOMAIN makers : Acceptable(o, makers[i]) /\ ~ Barred(o, makers[i])}

(* The makers a sweep can take: a blocked order shields the worse prices. *)
Reachable(b, o) ==
  LET makers == b[Opposite(o.side)]
  IN  {i \in Countable(b, o) : \A j \in DOMAIN makers :
         Before(Opposite(o.side), makers[j].price, makers[i].price)
           => ~ Barred(o, makers[j])}

Wanted(makers, indices) ==
  SumFunction([i \in indices |-> makers[i].remaining_quantity])

(* A FOK order passes when what it counts covers what it asks for. *)
Passes(b, o) ==
  o.order_type = FOK =>
    /\ Countable(b, o) # {}
    /\ Wanted(b[Opposite(o.side)], Countable(b, o)) >= o.quantity

(* Each reachable maker is given what the reachable ones before it left. *)
Allotment(makers, reach, quantity) ==
  [i \in DOMAIN makers |->
     IF i \in reach
     THEN Min({makers[i].remaining_quantity,
               Max({0, quantity - Wanted(makers, {j \in reach : j < i})})})
     ELSE 0]

(* A newcomer stands behind every order at its price or a better one. *)
Queued(queue, o, qty) ==
  LET ahead == {i \in DOMAIN queue : ~ Before(o.side, o.price, queue[i].price)}
  IN  InsertAt(queue, Cardinality(ahead) + 1,
               [order_id |-> o.order_id, order_type |-> o.order_type,
                price |-> o.price, remaining_quantity |-> qty])

(* The members of a sequence at some of its positions, in order. *)
Chosen(seq, at) ==
  [k \in 1 .. Cardinality(at) |->
     seq[CHOOSE i \in at : Cardinality({j \in at : j <= i}) = k]]

(* The fills, makers in priority order, and the book after them, where what  *)
(* is left of a LIMIT or FOK order rests; given[i] goes to maker i.          *)
Settle(b, o, given) ==
  LET makers == b[Opposite(o.side)]
      left   == o.remaining_quantity
                  - SumFunctionOnSet(given, DOMAIN makers)
      fill   == [i \in DOMAIN makers |->
                   [maker_order_id |-> makers[i].order_id, taker_order_id |-> o.order_id,
                    aggressor_side |-> o.side, price |-> makers[i].price,
                    quantity |-> given[i]]]
      after  == [i \in DOMAIN makers |->
                   [makers[i] EXCEPT !.remaining_quantity = @ - given[i]]]
  IN  [fills |-> Chosen(fill, {i \in DOMAIN makers : given[i] > 0}),
       book |-> [s \in Side |->
         IF s = Opposite(o.side)
         THEN Chosen(after, {i \in DOMAIN makers : after[i].remaining_quantity > 0})
         ELSE IF o.order_type \in {LIMIT, FOK} /\ left > 0
         THEN Queued(b[s], o, left)
         ELSE b[s]]]

(* Matching order o.  The bounds only name values, for TLC to compute once. *)
Outcome(b, o) ==
  CHOOSE result \in {Settle(b, o, given) : given \in
    {Allotment(b[Opposite(o.side)], reach, o.remaining_quantity) :
       reach \in {Reachable(b, o)}}} : TRUE

Without(b, id) ==
  [s \in Side |-> Chosen(b[s], {i \in DOMAIN b[s] : b[s][i].order_id # id})]

NewOrder(id, side, type, price, qty) ==
  [order_id |-> id, side |-> side, order_type |-> type, price |-> price,
   quantity |-> qty, remaining_quantity |-> qty]

(* A submission: an order with its identifier leaves the book first.  The    *)
(* bound only names the book without it.                                     *)
Submitted(b, o) ==
  CHOOSE result \in {IF Passes(rest, o) THEN Outcome(rest, o)
                     ELSE [fills |-> <<>>, book |-> rest] :
                     rest \in {Without(b, o.order_id)}} : TRUE

(* A smaller quantity at the same price keeps the order's place.             *)
Kept(m, qty, price) == price = m.price /\ qty < m.remaining_quantity

(* Fault: an order reduced to zero stays in the book. *)
ReducedToNothing(b, side, i, qty) ==
  [b EXCEPT ![side][i].remaining_quantity = qty]

(* The order at position i of a side with a smaller quantity; gone at zero.  *)
Reduced(b, side, i, qty) ==
  IF qty = 0
  THEN Without(b, b[side][i].order_id)
  ELSE [b EXCEPT ![side][i].remaining_quantity = qty]

-----------------------------------------------------------------------------
(* Accounts *)

(* What an order has left in a queue, in a book; 0 where it does not rest.   *)
LeftIn(queue, id) == Wanted(queue, {i \in DOMAIN queue : queue[i].order_id = id})

LeftInBook(b, id) == LeftIn(b[BUY], id) + LeftIn(b[SELL], id)

(* What fills say that an order gave. *)
Taken(fills, id) ==
  SumFunction([k \in {k \in DOMAIN fills : fills[k].maker_order_id = id} |->
                 fills[k].quantity])
=============================================================================
