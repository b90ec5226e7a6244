--------------------------- MODULE TradeValidator ---------------------------
(* scripts/interactive_test.py: it reads the depth of a book, predicts what  *)
(* an order will trade, submits it and compares; meanwhile others use the    *)
(* book.  The book is the one of MatchingEngine, which calls it in one step. *)
EXTENDS PriorityRules

CONSTANTS
  Others,       \* the identifiers of other clients' orders
  Own,          \* the identifier the engine gives the order
  Prices,
  Quantities,
  Late,         \* bound: what others submit after the depth was read
  Depth,        \* the levels per side of a depth message, 10 in the code
  Resolution    \* the smallest amount a text shows, 0.000001

ASSUME OwnAssumption == Own \notin Others \cup BinanceIds

ASSUME NumberAssumption ==
  /\ Prices \subseteq Int /\ Quantities \subseteq Int
  /\ Late \subseteq Others \X Prices \X Quantities
  /\ Depth \in Nat \ {0} /\ Resolution \in Nat \ {0}

VARIABLES
  book,
  pc,           \* where run_interactive_test stands
  order,        \* what the user asked for
  expected, actual,   \* trades, as price and quantity
  verdict,
  changed,      \* the book has changed between the depth and the submission
  levels        \* the levels the order could meet: price -> total quantity

vars == <<book, pc, order, expected, actual, verdict, changed, levels>>

(* The engine without listeners. *)
Engine == INSTANCE MatchingEngine
  WITH Symbols <- {1}, OrderIds <- Others \cup {Own},
       books <- <<book>>, bbo_feed <- <<>>, depth_feed <- <<>>, trade_feed <- <<>>

-----------------------------------------------------------------------------
(* predict_matching_trades *)

(* Fault: the limit is not to be reached. *)
BeyondStrictly(o, price) ==
  o.order_type # MARKET /\ (IF o.side = BUY THEN o.price <= price ELSE o.price >= price)

(* The test that ends the walk over the levels. *)
Beyond(o, price) ==
  o.order_type # MARKET /\ (IF o.side = BUY THEN o.price < price ELSE o.price > price)

(* One level: as much of it as the order still wants. *)
MatchLevel(o, sofar, level) ==
  IF sofar.done \/ Beyond(o, level[1]) \/ sofar.remaining <= 0
  THEN [sofar EXCEPT !.done = TRUE]
  ELSE LET match_qty == Min({sofar.remaining, level[2]})
       IN  [done |-> FALSE, remaining |-> sofar.remaining - match_qty,
            trades |-> Append(sofar.trades, [price |-> level[1], quantity |-> match_qty])]

Walk(o, levels_shown) ==
  FoldLeft(LAMBDA sofar, level : MatchLevel(o, sofar, level),
           [done |-> FALSE, remaining |-> o.quantity, trades |-> <<>>], levels_shown)

(* Fault: what a FOK order cannot fill is forgotten. *)
PredictPartialFok(o, depth) == Walk(o, depth[Opposite(o.side)]).trades

predict_matching_trades(o, depth) ==
  LET walk == Walk(o, depth[Opposite(o.side)])
  IN  IF o.order_type = FOK /\ walk.remaining > 0 THEN <<>> ELSE walk.trades

(* What Python reads of a text of the engine, which has rounded the number.  *)
float(text) == Resolution * text

Shown(x) == float(Engine!to_string(x))

Read(depth) ==
  [s \in Side |-> [k \in DOMAIN depth[s] |-> <<float(depth[s][k][1]), float(depth[s][k][2])>>]]

ReadTrades(trades) ==
  [k \in DOMAIN trades |->
    [price |-> float(trades[k].price), quantity |-> float(trades[k].quantity)]]

(* Both lists are sorted by price and quantity, and compared place by place. *)
Less(t, u) == t.price < u.price \/ (t.price = u.price /\ t.quantity < u.quantity)

Place(trades, k) ==
  Cardinality({j \in DOMAIN trades : \/ Less(trades[j], trades[k])
                                     \/ trades[j] = trades[k] /\ j <= k})

Near(x, y, delta) == x - y <= delta /\ y - x <= delta

match_ok(p, q, delta) ==
  /\ Len(p) = Len(q)
  /\ \A j \in DOMAIN p, k \in DOMAIN q : Place(p, j) = Place(q, k) =>
       Near(p[j].price, q[k].price, delta) /\ Near(p[j].quantity, q[k].quantity, delta)

-----------------------------------------------------------------------------
Unasked == NewOrder(Own, BUY, MARKET, 0, 0)

Init ==
  /\ book = Engine!EmptyBook
  /\ pc = "ask"
  /\ order = Unasked
  /\ expected = <<>> /\ actual = <<>>
  /\ verdict = "none"
  /\ changed = FALSE
  /\ levels = <<>>

(* Other clients submit and cancel.  Between the depth and the submission    *)
(* one change stands for all.                                                *)
OthersAct ==
  /\ pc \in {"ask", "submit"} /\ ~ changed
  /\ \E id \in Others :
       \/ \E side \in Side, price \in Prices, qty \in Quantities :
            /\ qty > 0 /\ (pc = "submit" => <<id, price, qty>> \in Late)
            /\ book' = Submitted(book, NewOrder(id, side, LIMIT, price, qty)).book
       \/ book' = Without(book, id)
  /\ changed' = (pc = "submit")
  /\ UNCHANGED <<pc, order, expected, actual, verdict, levels>>

(* The user is asked; any number is taken for a quantity, and a market order *)
(* has no price.  Then the depth is read.                                    *)
Ask ==
  /\ pc = "ask"
  /\ pc' = "submit"
  /\ \E side \in Side, type \in OrderType, price \in Prices, qty \in Quantities :
       order' = NewOrder(Own, side, type, IF type = MARKET THEN 0 ELSE price, qty)
  /\ expected' = predict_matching_trades(order', Read(Engine!get_l2_depth(book)))
  /\ UNCHANGED <<book, actual, verdict, changed, levels>>

(* What the order could meet. *)
LevelsOf(queue) ==
  [price \in {m.price : m \in ToSet(queue)} |->
    Wanted(queue, {i \in DOMAIN queue : queue[i].price = price})]

(* The answer tells the fills as text. *)
PlaceOrder ==
  /\ pc = "submit"
  /\ pc' = "compare"
  /\ levels' = LevelsOf(book[Opposite(order.side)])
  /\ \E new \in {Submitted(book, order)} :
       /\ book' = new.book
       /\ actual' = ReadTrades(Engine!Told(new.fills))
  /\ UNCHANGED <<order, expected, verdict, changed>>

(* The script ends, and what it held is gone. *)
End ==
  /\ pc' = "done"
  /\ order' = Unasked
  /\ expected' = <<>> /\ actual' = <<>> /\ levels' = <<>>
  /\ changed' = FALSE
  /\ UNCHANGED book

(* As doubles, two numbers may differ by a little less or more than one text *)
(* from the next: either is 1e-6.                                            *)
Compare ==
  /\ pc = "compare"
  /\ \E delta \in {Resolution - 1, Resolution} :
       verdict' = IF match_ok(expected, actual, delta) THEN "PASS" ELSE "FAIL"
  /\ End

(* A request fails or times out, whatever the engine has made of it. *)
Exit ==
  /\ pc \in {"ask", "submit", "compare"}
  /\ End
  /\ UNCHANGED verdict

Next == OthersAct \/ Ask \/ PlaceOrder \/ Compare \/ Exit

Spec == Init /\ [][Next]_vars

-----------------------------------------------------------------------------
(* What a verdict is worth *)

(* The depth shows every level, and as it is. *)
Uncut == Cardinality(DOMAIN levels) <= Depth

Exact == \A price \in DOMAIN levels : Shown(price) = price /\ Shown(levels[price]) = levels[price]

At(trades, price) == {k \in DOMAIN trades : trades[k].price = price}

Traded(trades, price) ==
  SumFunction([k \in At(trades, price) |-> trades[k].quantity])

(* On a book that has not changed since its depth was read, and whose levels *)
(* the depth shows exactly and all, the script predicts what every order     *)
(* type trades at every price, up to the rounding of each fill: market       *)
(* orders and killed FOK orders included.                                    *)
PredictsEachLevel ==
  pc = "compare" /\ ~ changed /\ Uncut /\ Exact =>
    \A price \in Prices :
      LET error == 2 * (Traded(expected, price) - Traded(actual, price))
          most  == Resolution * Cardinality(At(actual, price))
      IN  -most <= error /\ error <= most

(* The script only calls the engine wrong when the book changed under it,    *)
(* the depth was cut off or rounded, or a level it traded with held several  *)
(* orders.                                                                   *)
FailuresAreExplained ==
  [][verdict' = "FAIL" =>
       \/ changed \/ ~ Uncut \/ ~ Exact
       \/ \E j, k \in DOMAIN actual : j < k /\ actual[j].price = actual[k].price]_vars
=============================================================================
