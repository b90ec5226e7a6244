----------------------------- MODULE OrderBook ------------------------------
(* One order book, src/order_book.cpp.  A call of submit_order, cancel_order *)
(* or modify_order starts from an idle book.  A call that matches runs the   *)
(* sweep of the code one loop iteration at a time, so that the invariants    *)
(* speak of every state between two iterations and not only of the result;   *)
(* the engine's mutex keeps any other call out until the book is idle again. *)
EXTENDS Models, BinanceOrders, FiniteSets, SequencesExt

CONSTANTS
  OrderIds,      \* order identifiers clients use
  Prices,        \* prices orders carry
  Quantities,    \* quantities orders carry; zero and below are not rejected
  NoOrder        \* no order

ASSUME IdAssumption == BinanceIds \subseteq OrderIds

ASSUME NumberAssumption == Prices \subseteq Int /\ Quantities \subseteq Int

VARIABLES
  orders_lookup,   \* identifier -> the resting order, or NoOrder
  levels,          \* side -> the keys of its map, bids_ or asks_
  orders,          \* side -> price -> PriceLevel::orders, the identifiers
  total_quantity,  \* side -> price -> PriceLevel::total_quantity
  taker,           \* the order being submitted, or NoOrder
  pc,              \* where the call in progress stands
  level_it,        \* the price of the level being swept, else 0
  order_it,        \* the position in the level being swept, else 0
  trades           \* the trades of the call in progress

book == <<orders_lookup, levels, orders, total_quantity>>
vars == <<orders_lookup, levels, orders, total_quantity,
          taker, pc, level_it, order_it, trades>>

(* A resting order: something of it is left.  is_cancelled and has_iterator  *)
(* have no counterpart, since every routine that sets them takes the order   *)
(* out of its list, or puts it in, before it returns.                        *)
Order == [side : Side, order_type : OrderType, price : Prices,
          remaining_quantity : Nat \ {0}]

(* An order on its way in, with the quantity asked for. *)
Incoming == [order_id : OrderIds, side : Side, order_type : OrderType,
             price : Prices, quantity : Int, remaining_quantity : Int]

Trade == [maker_order_id : OrderIds, taker_order_id : OrderIds,
          aggressor_side : Side, price : Prices, quantity : Int]

(* Where a call stands: no call; before the dry run of a FOK order; before   *)
(* the outer loop's test; in the inner loop; after the sweep.                *)
Places == {"idle", "dry_run", "outer", "inner", "swept"}

ASSUME NoOrderAssumption == NoOrder \notin Order /\ NoOrder \notin Incoming

Live(id) == orders_lookup[id] # NoOrder

-----------------------------------------------------------------------------
(* Reading the book *)
(* Fault: the map is walked from its worst price. *)
IsBestFromTheEnd(side, p) ==
  /\ p \in levels[side]
  /\ \A q \in levels[side] : q = p \/ Before(side, q, p)

IsBest(side, p) ==
  /\ p \in levels[side]
  /\ \A q \in levels[side] : q = p \/ Before(side, p, q)
(* Fault: the limit itself is not good enough. *)
WithinLimitStrictly(p) ==
  taker.order_type = MARKET \/ (p # taker.price /\ Accepts(taker.side, taker.price, p))

(* The order being submitted may trade at price p: the limit price check,    *)
(* which a market order does not make.                                       *)
WithinLimit(p) ==
  taker.order_type = MARKET \/ Accepts(taker.side, taker.price, p)

(* Self-trade prevention stands between the order being submitted and maker. *)
Blocked(maker) == SelfTrade(taker.order_id, maker)
(* Fault: the dry run counts liquidity beyond the limit. *)
FillableAtAnyPrice ==
  {id \in OrderIds : /\ Live(id)
                     /\ orders_lookup[id].side = Opposite(taker.side)
                     /\ ~ Blocked(id)}

(* What the dry run of a FOK order counts: every unblocked order within the  *)
(* limit, at whatever level.                                                 *)
Fillable ==
  {id \in OrderIds : /\ Live(id)
                     /\ orders_lookup[id].side = Opposite(taker.side)
                     /\ Accepts(taker.side, taker.price, orders_lookup[id].price)
                     /\ ~ Blocked(id)}

RemainingOf(ids) ==
  SumFunction([id \in ids |-> orders_lookup[id].remaining_quantity])

(* The test stands in the loop, after an order has been counted. *)
can_fok_be_fully_filled ==
  Fillable # {} /\ RemainingOf(Fillable) >= taker.quantity

-----------------------------------------------------------------------------
(* Changing the book *)

(* The list of a level becomes rest and its total becomes sum; a level with  *)
(* nothing left is erased, and would start again from zero.                  *)
SetLevel(side, p, rest, sum) ==
  /\ orders' = [orders EXCEPT ![side][p] = rest]
  /\ total_quantity' =
       [total_quantity EXCEPT ![side][p] = IF rest = <<>> THEN 0 ELSE sum]
  /\ levels' =
       [levels EXCEPT ![side] = IF rest = <<>> THEN @ \ {p} ELSE @ \cup {p}]

(* list_it: the place of a resting order in the list of its level. *)
list_it(id) ==
  LET o == orders_lookup[id]
  IN  CHOOSE i \in DOMAIN orders[o.side][o.price] : orders[o.side][o.price][i] = id

remove_order_from_book(id) ==
  LET o == orders_lookup[id]
  IN  SetLevel(o.side, o.price,
               RemoveAt(orders[o.side][o.price], list_it(id)),
               total_quantity[o.side][o.price] - o.remaining_quantity)

CancelResting(id) ==
  /\ Live(id)
  /\ remove_order_from_book(id)
  /\ orders_lookup' = [orders_lookup EXCEPT ![id] = NoOrder]
(* Fault: the remainder goes to the front of its level. *)
AddRestingInFront ==
  LET s == taker.side
      p == taker.price
  IN  /\ orders_lookup' = [orders_lookup EXCEPT ![taker.order_id] =
           [side |-> s, order_type |-> taker.order_type, price |-> p,
            remaining_quantity |-> taker.remaining_quantity]]
      /\ SetLevel(s, p, <<taker.order_id>> \o orders[s][p],
                  total_quantity[s][p] + taker.remaining_quantity)

add_resting_order ==
  LET s == taker.side
      p == taker.price
  IN  /\ orders_lookup' = [orders_lookup EXCEPT ![taker.order_id] =
           [side |-> s, order_type |-> taker.order_type, price |-> p,
            remaining_quantity |-> taker.remaining_quantity]]
      /\ SetLevel(s, p, Append(orders[s][p], taker.order_id),
                  total_quantity[s][p] + taker.remaining_quantity)

-----------------------------------------------------------------------------
(* The calls *)

Init ==
  /\ orders_lookup = [id \in OrderIds |-> NoOrder]
  /\ levels = [s \in Side |-> {}]
  /\ orders = [s \in Side |-> [p \in Prices |-> <<>>]]
  /\ total_quantity = [s \in Side |-> [p \in Prices |-> 0]]
  /\ taker = NoOrder
  /\ pc = "idle"
  /\ level_it = 0
  /\ order_it = 0
  /\ trades = <<>>
(* Fault: an identifier that is resting is not cancelled first. *)
BeginWithoutReplacement(id, side, type, price, qty) ==
  /\ UNCHANGED book
  /\ taker' = [order_id |-> id, side |-> side, order_type |-> type,
               price |-> price, quantity |-> qty, remaining_quantity |-> qty]
  /\ pc' = IF type = FOK THEN "dry_run" ELSE "outer"
  /\ UNCHANGED <<level_it, order_it, trades>>

(* The part of submit_order before matching: an identifier that is already   *)
(* resting is cancelled first, then the order starts unfilled.               *)
Begin(id, side, type, price, qty) ==
  /\ CancelResting(id) \/ (~ Live(id) /\ UNCHANGED book)
  /\ taker' = [order_id |-> id, side |-> side, order_type |-> type,
               price |-> price, quantity |-> qty, remaining_quantity |-> qty]
  /\ pc' = IF type = FOK THEN "dry_run" ELSE "outer"
  /\ UNCHANGED <<level_it, order_it, trades>>

submit_order(id, side, type, price, qty) ==
  /\ pc = "idle"
  /\ Begin(id, side, type, price, qty)

cancel_order(id) ==
  /\ pc = "idle"
  /\ CancelResting(id)
  /\ UNCHANGED <<taker, pc, level_it, order_it, trades>>
(* Fault: the level's total is not lowered. *)
KeepPlaceAndTotal(id, qty) ==
  IF qty = 0
  THEN CancelResting(id)
  ELSE /\ orders_lookup' = [orders_lookup EXCEPT ![id].remaining_quantity = qty]
       /\ UNCHANGED <<levels, orders, total_quantity>>

(* Same price and a smaller quantity: the order keeps its place.  Down to    *)
(* zero it is cancelled.                                                     *)
KeepPlace(id, qty) ==
  LET o == orders_lookup[id]
  IN  IF qty = 0
      THEN CancelResting(id)
      ELSE /\ orders_lookup' = [orders_lookup EXCEPT ![id].remaining_quantity = qty]
           /\ total_quantity' = [total_quantity EXCEPT ![o.side][o.price] =
                                   @ - (o.remaining_quantity - qty)]
           /\ UNCHANGED <<levels, orders>>
(* Fault: an order may grow where it stands. *)
ModifyAlwaysInPlace(id, qty, price) ==
  /\ pc = "idle"
  /\ Live(id)
  /\ IF price = orders_lookup[id].price
     THEN /\ KeepPlace(id, qty)
          /\ UNCHANGED <<taker, pc, level_it, order_it, trades>>
     ELSE Begin(id, orders_lookup[id].side, orders_lookup[id].order_type, price, qty)

modify_order(id, qty, price) ==
  LET o == orders_lookup[id]
  IN  /\ pc = "idle"
      /\ Live(id)
      /\ IF price = o.price /\ qty < o.remaining_quantity
         THEN /\ KeepPlace(id, qty)
              /\ UNCHANGED <<taker, pc, level_it, order_it, trades>>
         ELSE Begin(id, o.side, o.order_type, price, qty)

-----------------------------------------------------------------------------
(* The sweep of the opposite side, one step per test or loop iteration. *)

Levels == levels[Opposite(taker.side)]
List   == orders[Opposite(taker.side)][level_it]

(* The outer loop goes on: liquidity is left, quantity is left, and the best *)
(* level is within the limit.                                                *)
EnterLevel ==
  /\ pc = "outer"
  /\ taker.remaining_quantity > 0
  /\ \E p \in Levels :
       /\ IsBest(Opposite(taker.side), p)
       /\ WithinLimit(p)
       /\ level_it' = p
  /\ pc' = "inner"
  /\ order_it' = 1
  /\ UNCHANGED <<orders_lookup, levels, orders, total_quantity, taker, trades>>

(* The outer loop ends: its condition is false, or the limit breaks it. *)
StopSweep ==
  /\ pc = "outer"
  /\ \/ Levels = {}
     \/ taker.remaining_quantity <= 0
     \/ \E p \in Levels : IsBest(Opposite(taker.side), p) /\ ~ WithinLimit(p)
  /\ pc' = "swept"
  /\ UNCHANGED <<orders_lookup, levels, orders, total_quantity,
                 taker, level_it, order_it, trades>>

InnerLoop ==
  /\ pc = "inner"
  /\ order_it <= Len(List)
  /\ taker.remaining_quantity > 0
(* Fault: the iterator stays at the blocked maker. *)
SkipBlockedForever ==
  /\ InnerLoop
  /\ Blocked(List[order_it])
  /\ UNCHANGED vars

(* A maker that self-trade prevention blocks is stepped over. *)
SkipBlocked ==
  /\ InnerLoop
  /\ Blocked(List[order_it])
  /\ order_it' = order_it + 1
  /\ UNCHANGED <<orders_lookup, levels, orders, total_quantity,
                 taker, pc, level_it, trades>>
(* Fault: the iterator advances past the erased maker's successor. *)
FillAndSkip(maker, qty) ==
  LET s    == Opposite(taker.side)
      left == orders_lookup[maker].remaining_quantity - qty
  IN  /\ trades' = Append(trades,
           [maker_order_id |-> maker, taker_order_id |-> taker.order_id,
            aggressor_side |-> taker.side,
            price |-> orders_lookup[maker].price, quantity |-> qty])
      /\ taker' = [taker EXCEPT !.remaining_quantity = @ - qty]
      /\ total_quantity' = [total_quantity EXCEPT ![s][level_it] = @ - qty]
      /\ order_it' = order_it + 1
      /\ IF left <= 0
         THEN /\ orders_lookup' = [orders_lookup EXCEPT ![maker] = NoOrder]
              /\ orders' = [orders EXCEPT ![s][level_it] = RemoveAt(@, order_it)]
         ELSE /\ orders_lookup' =
                   [orders_lookup EXCEPT ![maker].remaining_quantity = left]
              /\ UNCHANGED orders

(* A fill at the maker's price of what both still want.  A maker with        *)
(* nothing left leaves the lookup and the list, and order_it then stands at  *)
(* the next one; else order_it advances.                                     *)
Fill(maker, qty) ==
  LET s    == Opposite(taker.side)
      left == orders_lookup[maker].remaining_quantity - qty
  IN  /\ trades' = Append(trades,
           [maker_order_id |-> maker, taker_order_id |-> taker.order_id,
            aggressor_side |-> taker.side,
            price |-> orders_lookup[maker].price, quantity |-> qty])
      /\ taker' = [taker EXCEPT !.remaining_quantity = @ - qty]
      /\ total_quantity' = [total_quantity EXCEPT ![s][level_it] = @ - qty]
      /\ IF left <= 0
         THEN /\ orders_lookup' = [orders_lookup EXCEPT ![maker] = NoOrder]
              /\ orders' = [orders EXCEPT ![s][level_it] = RemoveAt(@, order_it)]
              /\ UNCHANGED order_it
         ELSE /\ orders_lookup' =
                   [orders_lookup EXCEPT ![maker].remaining_quantity = left]
              /\ order_it' = order_it + 1
              /\ UNCHANGED orders

Smaller(a, b) == IF a <= b THEN a ELSE b

MatchMaker ==
  /\ InnerLoop
  /\ ~ Blocked(List[order_it])
  /\ LET maker == List[order_it]
     IN  Fill(maker, Smaller(taker.remaining_quantity,
                             orders_lookup[maker].remaining_quantity))
  /\ UNCHANGED <<levels, pc, level_it>>
(* Fault: the sweep ends with its first level. *)
LeaveAfterOneLevel ==
  /\ pc = "inner"
  /\ order_it > Len(List) \/ taker.remaining_quantity <= 0
  /\ IF List = <<>>
     THEN SetLevel(Opposite(taker.side), level_it, <<>>, 0)
     ELSE UNCHANGED <<levels, orders, total_quantity>>
  /\ pc' = "swept"
  /\ level_it' = 0
  /\ order_it' = 0
  /\ UNCHANGED <<orders_lookup, taker, trades>>

(* The inner loop is over.  An emptied level is erased and the sweep goes    *)
(* on; a level that keeps an order, blocked ones included, ends the sweep.   *)
LeaveLevel ==
  /\ pc = "inner"
  /\ order_it > Len(List) \/ taker.remaining_quantity <= 0
  /\ IF List = <<>>
     THEN /\ SetLevel(Opposite(taker.side), level_it, <<>>, 0)
          /\ pc' = "outer"
     ELSE /\ pc' = "swept"
          /\ UNCHANGED <<levels, orders, total_quantity>>
  /\ level_it' = 0
  /\ order_it' = 0
  /\ UNCHANGED <<orders_lookup, taker, trades>>

Sweep == EnterLevel \/ StopSweep \/ SkipBlocked \/ MatchMaker \/ LeaveLevel

(* The call returns its trades to the caller. *)
Return ==
  /\ pc' = "idle"
  /\ taker' = NoOrder
  /\ trades' = <<>>
  /\ UNCHANGED <<level_it, order_it>>
(* Fault: an order with nothing left rests too. *)
RestAnyway ==
  /\ pc = "swept"
  /\ add_resting_order
  /\ Return

(* What is left of a limit order rests. *)
Rest ==
  /\ pc = "swept"
  /\ IF taker.remaining_quantity > 0
     THEN add_resting_order
     ELSE UNCHANGED book
  /\ Return

(* What is left of a market or IOC order is dropped. *)
Discard ==
  /\ pc = "swept"
  /\ UNCHANGED book
  /\ Return

match_limit_order == taker # NoOrder /\ taker.order_type = LIMIT /\ (Sweep \/ Rest)

match_market_order == taker # NoOrder /\ taker.order_type = MARKET /\ (Sweep \/ Discard)
(* Fault: what is left of an IOC order rests. *)
MatchIocAndRest ==
  taker # NoOrder /\ taker.order_type = IOC /\ (Sweep \/ Rest)

match_ioc_order == taker # NoOrder /\ taker.order_type = IOC /\ (Sweep \/ Discard)

DryRun ==
  /\ pc = "dry_run"
  /\ IF can_fok_be_fully_filled
     THEN pc' = "outer" /\ UNCHANGED <<taker, level_it, order_it, trades>>
     ELSE Return
  /\ UNCHANGED book

(* A FOK order that passes its dry run is then matched as a limit order. *)
match_fok_order ==
  taker # NoOrder /\ taker.order_type = FOK /\ (DryRun \/ Sweep \/ Rest)

Match ==
  match_limit_order \/ match_market_order \/ match_ioc_order \/ match_fok_order

(* modify_order is called with the new size of the order: never negative. *)
Next ==
  \/ \E id \in OrderIds, side \in Side, type \in OrderType,
        price \in Prices, qty \in Quantities :
       submit_order(id, side, type, price, qty)
  \/ \E id \in OrderIds : cancel_order(id)
  \/ \E id \in OrderIds, qty \in Quantities \cap Nat, price \in Prices :
       modify_order(id, qty, price)
  \/ Match

Spec == Init /\ [][Next]_vars

(* A call that has begun runs to its return: nothing in it waits. *)
FairSpec == Spec /\ WF_vars(Match)

-----------------------------------------------------------------------------
(* What a book promises.  Ahead(a, b): resting order a has priority over b,  *)
(* being at a better price, or at the same price and earlier in the list.    *)
Ahead(a, b) ==
  LET o == orders_lookup[a]
      r == orders_lookup[b]
  IN  /\ o.side = r.side
      /\ \/ Before(o.side, o.price, r.price)
         \/ o.price = r.price /\ list_it(a) < list_it(b)

(* Every variable keeps its type between any two steps.  A resting order     *)
(* never has nothing left: what fills, replacements and modifications        *)
(* exhaust is taken out of the book.                                         *)
TypeOK ==
  /\ orders_lookup \in [OrderIds -> Order \cup {NoOrder}]
  /\ levels \in [Side -> SUBSET Prices]
  /\ orders \in [Side -> [Prices -> Seq(OrderIds)]]
  /\ total_quantity \in [Side -> [Prices -> Int]]
  /\ taker \in Incoming \cup {NoOrder}
  /\ pc \in Places
  /\ level_it \in Prices \cup {0}
  /\ order_it \in Nat
  /\ trades \in Seq(Trade)

QueuedOrdersAreLive ==
  \A s \in Side, p \in Prices : \A i \in DOMAIN orders[s][p] :
    /\ Live(orders[s][p][i])
    /\ orders_lookup[orders[s][p][i]].side = s
    /\ orders_lookup[orders[s][p][i]].price = p

LiveOrdersAreQueued ==
  \A id \in OrderIds : Live(id) =>
    \E i \in DOMAIN orders[orders_lookup[id].side][orders_lookup[id].price] :
      orders[orders_lookup[id].side][orders_lookup[id].price][i] = id

QueuedOnce ==
  \A s \in Side, p \in Prices : \A i, j \in DOMAIN orders[s][p] :
    orders[s][p][i] = orders[s][p][j] => i = j

(* The level the sweep stands in may be empty until the sweep leaves it. *)
LevelsAreTheNonEmpty ==
  \A s \in Side, p \in Prices :
    /\ orders[s][p] # <<>> => p \in levels[s]
    /\ p \in levels[s] =>
         orders[s][p] # <<>> \/ (pc = "inner" /\ s = Opposite(taker.side) /\ p = level_it)

(* The hash map, the price maps and the lists describe one set of orders: an *)
(* identifier is in the lookup exactly when it stands once, at its side and  *)
(* price, in one list, and the price maps hold the levels with orders.       *)
IndexConsistent ==
  /\ QueuedOrdersAreLive
  /\ LiveOrdersAreQueued
  /\ QueuedOnce
  /\ LevelsAreTheNonEmpty

(* Between calls there is no taker.  During one the taker is not in the book *)
(* itself: a replaced order has left before its successor is matched.        *)
CallConsistent ==
  /\ pc = "idle" <=> taker = NoOrder
  /\ pc = "dry_run" => taker.order_type = FOK
  /\ taker # NoOrder => ~ Live(taker.order_id)

(* Inside a level, the sweep stands at the best price, within the limit, and *)
(* has only passed makers it may not trade with: none is skipped.            *)
SweepPosition ==
  pc = "inner" =>
    /\ IsBest(Opposite(taker.side), level_it)
    /\ WithinLimit(level_it)
    /\ order_it # 0
    /\ taker.remaining_quantity > 0 =>
         \A i \in DOMAIN List : i < order_it => Blocked(List[i])

(* The total a level publishes in the BBO and in the depth is the sum of     *)
(* what its orders still want, also between two fills of one sweep.          *)
TotalsExact ==
  \A s \in Side, p \in Prices :
    total_quantity[s][p] = RemainingOf(ToSet(orders[s][p]))

(* Orders of users never rest crossed or locked: a buyer who would pay what  *)
(* a seller asks has been matched with him.  Self-trade prevention lets      *)
(* Binance orders cross, among themselves and behind a blocked level.        *)
UsersNeverCross ==
  \A a, b \in OrderIds \ BinanceIds :
    Live(a) /\ Live(b) /\ orders_lookup[a].side = BUY /\ orders_lookup[b].side = SELL
      => orders_lookup[a].price < orders_lookup[b].price

(* When a sweep ends with quantity left, every order it could have taken is  *)
(* shielded by a blocked order at a better price.  So a user's sweep always  *)
(* reaches its limit, or the end of the book.                                *)
SweepIsComplete ==
  pc = "swept" /\ taker.remaining_quantity > 0 =>
    \A id \in OrderIds :
      /\ Live(id) /\ ~ Blocked(id)
      /\ orders_lookup[id].side = Opposite(taker.side)
      /\ WithinLimit(orders_lookup[id].price)
      => \E b \in OrderIds :
           /\ Live(b) /\ Blocked(b)
           /\ orders_lookup[b].side = Opposite(taker.side)
           /\ Before(orders_lookup[b].side, orders_lookup[b].price, orders_lookup[id].price)

(* A FOK order of a user that passes its dry run is filled to the last lot   *)
(* when the sweep ends: what the dry run counted is what the sweep takes.    *)
UserFokFills ==
  pc = "swept" /\ taker.order_type = FOK /\ taker.order_id \notin BinanceIds
    => taker.remaining_quantity <= 0

(* Market and IOC orders never rest, through whatever sequence of            *)
(* submissions, replacements and modifications; nor does a user's FOK order. *)
OnlyLimitOrdersRest ==
  \A id \in OrderIds : Live(id) =>
    \/ orders_lookup[id].order_type = LIMIT
    \/ orders_lookup[id].order_type = FOK /\ id \in BinanceIds

(* Price-time priority: every fill is against the order that stands first    *)
(* among those self-trade prevention allows, at that order's own price and   *)
(* within the taker's limit.                                                 *)
TakesTheFirst ==
  \A i \in DOMAIN trades' \ DOMAIN trades :
    LET maker == trades'[i].maker_order_id
        side  == Opposite(taker.side)
    IN  /\ Live(maker) /\ ~ Blocked(maker) /\ orders_lookup[maker].side = side
        /\ trades'[i].price = orders_lookup[maker].price
        /\ WithinLimit(trades'[i].price)
        /\ \A id \in OrderIds \ {maker} :
             Live(id) /\ ~ Blocked(id) /\ orders_lookup[id].side = side => Ahead(maker, id)

PriceTimePriority == [][TakesTheFirst]_vars

(* Time priority is kept: of two orders that stay in a level neither ever    *)
(* overtakes the other, and a newcomer stands behind both.                   *)
NobodyOvertakes ==
  \A s \in Side, p \in Prices : \A i, j \in DOMAIN orders'[s][p] :
    LET a == orders'[s][p][i]
        b == orders'[s][p][j]
        was(id) == id \in ToSet(orders[s][p])
    IN  i < j /\ was(b) =>
          /\ was(a)
          /\ \E k, l \in DOMAIN orders[s][p] :
               k < l /\ orders[s][p][k] = a /\ orders[s][p][l] = b

QueuesAreFifo == [][NobodyOvertakes]_vars

(* An order that stays in its level keeps its side, price and type and only  *)
(* shrinks: whoever wants more, or another price, gives up the place.        *)
Shrinks ==
  \A id \in OrderIds : Live(id) /\ orders_lookup'[id] # NoOrder =>
    \E qty \in 1 .. orders_lookup[id].remaining_quantity :
      orders_lookup'[id] = [orders_lookup[id] EXCEPT !.remaining_quantity = qty]

RestingOrdersOnlyShrink == [][Shrinks]_vars

(* A call that has begun returns: no sweep loops forever, whatever blocked,  *)
(* emptied or partly filled orders it meets.                                 *)
CallsReturn == pc # "idle" ~> pc = "idle"

(* README.md, Supported Order Types: a FOK order is filled entirely or       *)
(* killed without a trade.                                                   *)
FokFillsOrKills ==
  pc = "swept" /\ taker.order_type = FOK => taker.remaining_quantity <= 0
=============================================================================
