-------------------------- MODULE OrderBookProofs ---------------------------
(* Proofs about OrderBook, for every set of identifiers, prices and          *)
(* quantities: first its invariants, then that its sweep implements the      *)
(* closed form.                                                              *)
EXTENDS OrderBookRefinement, PriorityRulesProofs

-----------------------------------------------------------------------------
(* Erasing a position of a sequence *)

(* RemoveAt shortens a sequence by one and moves the rest up. *)
LEMMA RemoveAtProperties ==
  ASSUME NEW S, NEW s \in Seq(S), NEW i \in 1 .. Len(s)
  PROVE  /\ RemoveAt(s, i) \in Seq(S)
         /\ Len(RemoveAt(s, i)) = Len(s) - 1
         /\ \A k \in 1 .. Len(s) - 1 :
              RemoveAt(s, i)[k] = IF k < i THEN s[k] ELSE s[k + 1]
<1> DEFINE front == SubSeq(s, 1, i - 1)
           back  == SubSeq(s, i + 1, Len(s))
<1>1. /\ front \in Seq(S) /\ Len(front) = i - 1
      /\ \A k \in 1 .. i - 1 : front[k] = s[k]
  BY SubSeqProperties
<1>2. /\ back \in Seq(S) /\ Len(back) = Len(s) - i
      /\ \A k \in 1 .. Len(s) - i : back[k] = s[i + k]
  BY SubSeqProperties
<1>3. RemoveAt(s, i) = front \o back
  BY DEF RemoveAt
<1>4. /\ front \o back \in Seq(S)
      /\ Len(front \o back) = Len(front) + Len(back)
      /\ \A k \in 1 .. Len(front) + Len(back) :
           (front \o back)[k] =
             IF k <= Len(front) THEN front[k] ELSE back[k - Len(front)]
  BY <1>1, <1>2, ConcatProperties
<1> HIDE DEF front, back
<1>5. Len(s) \in Nat
  OBVIOUS
<1>6. Len(front) + Len(back) = Len(s) - 1
  BY <1>1, <1>2, <1>5
<1>7. ASSUME NEW k \in 1 .. Len(s) - 1
      PROVE  RemoveAt(s, i)[k] = IF k < i THEN s[k] ELSE s[k + 1]
  <2>1. CASE k < i
    BY <2>1, <1>1, <1>3, <1>4, <1>5, <1>6
  <2>2. CASE ~ (k < i)
    <3>1. k - (i - 1) \in 1 .. Len(s) - i /\ ~ (k <= i - 1) /\ i + (k - (i - 1)) = k + 1
      BY <2>2, <1>5
    <3>2. (front \o back)[k] = back[k - (i - 1)]
      BY <3>1, <1>1, <1>4, <1>6
    <3>3. back[k - (i - 1)] = s[i + (k - (i - 1))]
      BY <3>1, <1>2
    <3> QED
      BY <2>2, <3>1, <3>2, <3>3, <1>3
  <2> QED
    BY <2>1, <2>2
<1> QED
  BY <1>3, <1>4, <1>6, <1>7

(* A sequence without repetition keeps every other element, once each, when  *)
(* position i is erased, and loses the element that stood there.             *)
LEMMA RemoveAtElements ==
  ASSUME NEW S, NEW s \in Seq(S), NEW i \in 1 .. Len(s),
         \A j, k \in DOMAIN s : s[j] = s[k] => j = k,
         NEW r, r = RemoveAt(s, i)
  PROVE  /\ \A k \in DOMAIN r : \E j \in DOMAIN s : j # i /\ r[k] = s[j]
         /\ \A k \in DOMAIN r : r[k] # s[i]
         /\ \A j \in DOMAIN s : j # i => \E k \in DOMAIN r : r[k] = s[j]
         /\ \A j, k \in DOMAIN r : r[j] = r[k] => j = k
<1>1. Len(s) \in Nat /\ DOMAIN s = 1 .. Len(s)
  OBVIOUS
<1>2. /\ r \in Seq(S) /\ Len(r) = Len(s) - 1
      /\ \A k \in 1 .. Len(s) - 1 : r[k] = IF k < i THEN s[k] ELSE s[k + 1]
  BY RemoveAtProperties
<1>3. DOMAIN r = 1 .. Len(s) - 1
  BY <1>2
<1>4. ASSUME NEW k \in DOMAIN r
      PROVE  /\ \E j \in DOMAIN s : j # i /\ r[k] = s[j]
             /\ r[k] # s[i]
  <2> DEFINE j == IF k < i THEN k ELSE k + 1
  <2>1. j \in DOMAIN s /\ j # i /\ r[k] = s[j]
    BY <1>1, <1>2, <1>3
  <2> QED
    BY <2>1, <1>1
<1>5. ASSUME NEW j \in DOMAIN s, j # i
      PROVE  \E k \in DOMAIN r : r[k] = s[j]
  <2> DEFINE k == IF j < i THEN j ELSE j - 1
  <2>1. k \in DOMAIN r /\ r[k] = s[j]
    BY <1>1, <1>2, <1>3, <1>5
  <2> QED
    BY <2>1
<1>6. ASSUME NEW j \in DOMAIN r, NEW k \in DOMAIN r, r[j] = r[k]
      PROVE  j = k
  <2> DEFINE a == IF j < i THEN j ELSE j + 1
             b == IF k < i THEN k ELSE k + 1
  <2>1. a \in DOMAIN s /\ b \in DOMAIN s /\ r[j] = s[a] /\ r[k] = s[b]
    BY <1>1, <1>2, <1>3
  <2>2. a = b
    BY <2>1, <1>6
  <2> QED
    BY <2>2, <1>3
<1> QED
  BY <1>4, <1>5, <1>6

-----------------------------------------------------------------------------
(* The steps, freed from the calls they belong to *)

(* A submission or a modification that gives up the order's place. *)
StartCall ==
  \E id \in OrderIds, side \in Side, type \in OrderType, price \in Prices, qty \in Int :
    pc = "idle" /\ Begin(id, side, type, price, qty)

(* A modification that keeps the order's place. *)
Reduce(id, qty) ==
  /\ pc = "idle"
  /\ Live(id)
  /\ qty < orders_lookup[id].remaining_quantity
  /\ orders_lookup' = [orders_lookup EXCEPT ![id].remaining_quantity = qty]
  /\ total_quantity' =
       [total_quantity EXCEPT ![orders_lookup[id].side][orders_lookup[id].price] =
          @ - (orders_lookup[id].remaining_quantity - qty)]
  /\ UNCHANGED <<levels, orders, taker, pc, level_it, order_it, trades>>

SweepStep == taker # NoOrder /\ Sweep

RestStep == taker # NoOrder /\ taker.order_type \in {LIMIT, FOK} /\ Rest

DiscardStep == taker # NoOrder /\ taker.order_type \in {MARKET, IOC} /\ Discard

DryRunStep == taker # NoOrder /\ DryRun

(* Every step is one of these. *)
LEMMA Steps ==
  ASSUME TypeOK, [Next]_vars
  PROVE  \/ StartCall
         \/ \E id \in OrderIds : cancel_order(id)
         \/ \E id \in OrderIds, qty \in Nat \ {0} : Reduce(id, qty)
         \/ SweepStep
         \/ RestStep
         \/ DiscardStep
         \/ DryRunStep
         \/ UNCHANGED vars
<1>1. ASSUME NEW id \in OrderIds, NEW side \in Side, NEW type \in OrderType,
             NEW price \in Prices, NEW qty \in Quantities,
             submit_order(id, side, type, price, qty)
      PROVE  StartCall
  BY <1>1, NumberAssumption DEF submit_order, StartCall
<1>2. ASSUME NEW id \in OrderIds, NEW qty \in Quantities \cap Nat, NEW price \in Prices,
             modify_order(id, qty, price)
      PROVE  \/ StartCall
             \/ cancel_order(id)
             \/ \E q \in Nat \ {0} : Reduce(id, q)
  <2> DEFINE o == orders_lookup[id]
  <2>1. Live(id) /\ pc = "idle" /\ o \in Order
    BY <1>2 DEF modify_order, TypeOK, Live
  <2>2. CASE ~ (price = o.price /\ qty < o.remaining_quantity)
    <3>1. Begin(id, o.side, o.order_type, price, qty)
      BY <1>2, <2>2 DEF modify_order
    <3>2. o.side \in Side /\ o.order_type \in OrderType
      BY <2>1 DEF Order
    <3> QED
      BY <2>1, <3>1, <3>2, NumberAssumption DEF StartCall
  <2>3. CASE price = o.price /\ qty < o.remaining_quantity
    <3>1. KeepPlace(id, qty) /\ UNCHANGED <<taker, pc, level_it, order_it, trades>>
      BY <1>2, <2>3 DEF modify_order
    <3>2. CASE qty = 0
      BY <3>1, <3>2, <2>1 DEF KeepPlace, cancel_order
    <3>3. CASE qty # 0
      <4>1. Reduce(id, qty)
        BY <3>1, <3>3, <2>1, <2>3 DEF KeepPlace, Reduce
      <4> QED
        BY <3>3, <4>1
    <3> QED
      BY <3>2, <3>3
  <2> QED
    BY <2>2, <2>3
<1>3. ASSUME Match
      PROVE  SweepStep \/ RestStep \/ DiscardStep \/ DryRunStep
  BY <1>3 DEF Match, match_limit_order, match_market_order, match_ioc_order,
     match_fok_order, SweepStep, RestStep, DiscardStep, DryRunStep
<1> QED
  BY <1>1, <1>2, <1>3 DEF Next

-----------------------------------------------------------------------------
(* Types *)

(* An order may be given another quantity and stays an order. *)
LEMMA ResizedOrder ==
  ASSUME NEW o \in Order, NEW qty \in Nat \ {0}
  PROVE  /\ [o EXCEPT !.remaining_quantity = qty] \in Order
         /\ [o EXCEPT !.remaining_quantity = qty].remaining_quantity = qty
         /\ [o EXCEPT !.remaining_quantity = qty].side = o.side
         /\ [o EXCEPT !.remaining_quantity = qty].price = o.price
         /\ [o EXCEPT !.remaining_quantity = qty].order_type = o.order_type
BY DEF Order

(* What is in the lookup is an order. *)
LEMMA LiveOrder ==
  ASSUME TypeOK, NEW id \in OrderIds, Live(id)
  PROVE  /\ orders_lookup[id] \in Order
         /\ orders_lookup[id].side \in Side
         /\ orders_lookup[id].price \in Prices
         /\ orders_lookup[id].remaining_quantity \in Nat \ {0}
         /\ orders[orders_lookup[id].side][orders_lookup[id].price] \in Seq(OrderIds)
BY DEF TypeOK, Live, Order

(* The order of a call in progress is an incoming order. *)
LEMMA TakerType ==
  ASSUME TypeOK, taker # NoOrder
  PROVE  /\ taker \in Incoming
         /\ taker.order_id \in OrderIds
         /\ taker.side \in Side /\ Opposite(taker.side) \in Side
         /\ Opposite(taker.side) # taker.side
         /\ taker.order_type \in OrderType
         /\ taker.price \in Prices
         /\ taker.remaining_quantity \in Int
BY DEF TypeOK, Incoming, Opposite, Side, BUY, SELL

(* list_it finds a queued order. *)
LEMMA ListIt ==
  ASSUME TypeOK, IndexConsistent, NEW id \in OrderIds, Live(id)
  PROVE  /\ list_it(id) \in DOMAIN orders[orders_lookup[id].side][orders_lookup[id].price]
         /\ orders[orders_lookup[id].side][orders_lookup[id].price][list_it(id)] = id
BY DEF IndexConsistent, LiveOrdersAreQueued, list_it

(* Setting a level keeps the types. *)
LEMMA SetLevelType ==
  ASSUME TypeOK, NEW side \in Side, NEW p \in Prices, NEW rest \in Seq(OrderIds),
         NEW sum \in Int, SetLevel(side, p, rest, sum)
  PROVE  /\ levels' \in [Side -> SUBSET Prices]
         /\ orders' \in [Side -> [Prices -> Seq(OrderIds)]]
         /\ total_quantity' \in [Side -> [Prices -> Int]]
<1>1. levels' \in [Side -> SUBSET Prices]
  BY DEF SetLevel, TypeOK
<1>2. orders' \in [Side -> [Prices -> Seq(OrderIds)]]
  BY DEF SetLevel, TypeOK
<1>3. total_quantity' \in [Side -> [Prices -> Int]]
  BY DEF SetLevel, TypeOK
<1> QED
  BY <1>1, <1>2, <1>3

(* Taking an order out of the book keeps the types. *)
LEMMA CancelRestingType ==
  ASSUME TypeOK, IndexConsistent, NEW id \in OrderIds, CancelResting(id)
  PROVE  /\ orders_lookup' \in [OrderIds -> Order \cup {NoOrder}]
         /\ levels' \in [Side -> SUBSET Prices]
         /\ orders' \in [Side -> [Prices -> Seq(OrderIds)]]
         /\ total_quantity' \in [Side -> [Prices -> Int]]
<1> DEFINE o == orders_lookup[id]
           rest == RemoveAt(orders[o.side][o.price], list_it(id))
<1>1. Live(id)
  BY DEF CancelResting
<1>2. /\ o.side \in Side /\ o.price \in Prices /\ o.remaining_quantity \in Nat
      /\ orders[o.side][o.price] \in Seq(OrderIds)
  BY <1>1, LiveOrder
<1>3. rest \in Seq(OrderIds)
  BY <1>1, <1>2, ListIt, RemoveAtProperties
<1>4. total_quantity[o.side][o.price] - o.remaining_quantity \in Int
  BY <1>2 DEF TypeOK
<1>5. SetLevel(o.side, o.price, rest, total_quantity[o.side][o.price] - o.remaining_quantity)
  BY DEF CancelResting, remove_order_from_book
<1>6. orders_lookup' \in [OrderIds -> Order \cup {NoOrder}]
  BY DEF CancelResting, TypeOK
<1> HIDE DEF o, rest
<1> QED
  BY <1>2, <1>3, <1>4, <1>5, <1>6, SetLevelType

(* Where a fill takes place: the maker at order_it is a live order of the     *)
(* opposite side at the level's price.                                       *)
Maker == List[order_it]

FillQuantity ==
  Smaller(taker.remaining_quantity, orders_lookup[Maker].remaining_quantity)

(* The list the sweep stands in is a sequence of identifiers. *)
LEMMA ListType ==
  ASSUME TypeOK, SweepPosition, taker # NoOrder, pc = "inner"
  PROVE  /\ level_it \in Prices
         /\ level_it \in levels[Opposite(taker.side)]
         /\ List \in Seq(OrderIds)
         /\ DOMAIN List = 1 .. Len(List) /\ Len(List) \in Nat
         /\ order_it \in Nat \ {0}
<1>1. Opposite(taker.side) \in Side
  BY TakerType
<1>2. /\ level_it \in levels[Opposite(taker.side)] /\ order_it \in Nat \ {0}
  BY DEF SweepPosition, IsBest, TypeOK
<1>3. level_it \in Prices
  BY <1>1, <1>2 DEF TypeOK
<1>4. List \in Seq(OrderIds)
  BY <1>1, <1>3 DEF List, TypeOK
<1> QED
  BY <1>2, <1>3, <1>4

(* The maker the sweep looks at is live, on the other side, at the level's price. *)
LEMMA MakerFacts ==
  ASSUME TypeOK, IndexConsistent, SweepPosition, taker # NoOrder, InnerLoop
  PROVE  /\ order_it \in 1 .. Len(List)
         /\ Maker \in OrderIds /\ Live(Maker)
         /\ orders_lookup[Maker] \in Order
         /\ orders_lookup[Maker].side = Opposite(taker.side)
         /\ orders_lookup[Maker].price = level_it
         /\ orders_lookup[Maker].remaining_quantity \in Nat \ {0}
         /\ FillQuantity \in Nat \ {0}
         /\ FillQuantity <= taker.remaining_quantity
         /\ FillQuantity <= orders_lookup[Maker].remaining_quantity
         /\ FillQuantity = taker.remaining_quantity
              \/ FillQuantity = orders_lookup[Maker].remaining_quantity
<1>1. order_it \in 1 .. Len(List) /\ DOMAIN List = 1 .. Len(List) /\ level_it \in Prices
      /\ List \in Seq(OrderIds)
  BY ListType DEF InnerLoop
<1>2. Maker \in OrderIds
  BY <1>1 DEF Maker
<1>3. /\ Live(Maker) /\ orders_lookup[Maker].side = Opposite(taker.side)
      /\ orders_lookup[Maker].price = level_it
  BY <1>1, TakerType DEF IndexConsistent, QueuedOrdersAreLive, List, Maker
<1>4. /\ orders_lookup[Maker] \in Order
      /\ orders_lookup[Maker].remaining_quantity \in Nat \ {0}
  BY <1>2, <1>3, LiveOrder
<1>5. taker.remaining_quantity \in Int /\ taker.remaining_quantity > 0
  BY TakerType DEF InnerLoop
<1>6. /\ FillQuantity \in Nat \ {0}
      /\ FillQuantity <= taker.remaining_quantity
      /\ FillQuantity <= orders_lookup[Maker].remaining_quantity
      /\ FillQuantity = taker.remaining_quantity
           \/ FillQuantity = orders_lookup[Maker].remaining_quantity
  BY <1>4, <1>5 DEF FillQuantity, Smaller
<1> QED
  BY <1>1, <1>2, <1>3, <1>4, <1>6

(* What a fill does to the book: either the maker is exhausted and erased,   *)
(* or it keeps a smaller quantity and the taker is filled.                   *)
LEMMA FillEffect ==
  ASSUME TypeOK, IndexConsistent, SweepPosition, taker # NoOrder, MatchMaker
  PROVE  LET s == Opposite(taker.side)
             left == orders_lookup[Maker].remaining_quantity - FillQuantity
         IN
         /\ taker' = [taker EXCEPT !.remaining_quantity = @ - FillQuantity]
         /\ trades' = Append(trades,
              [maker_order_id |-> Maker, taker_order_id |-> taker.order_id,
               aggressor_side |-> taker.side,
               price |-> orders_lookup[Maker].price, quantity |-> FillQuantity])
         /\ total_quantity' = [total_quantity EXCEPT ![s][level_it] = @ - FillQuantity]
         /\ UNCHANGED <<levels, pc, level_it>>
         /\ \/ /\ left = 0
               /\ orders_lookup' = [orders_lookup EXCEPT ![Maker] = NoOrder]
               /\ orders' = [orders EXCEPT ![s][level_it] = RemoveAt(@, order_it)]
               /\ order_it' = order_it
            \/ /\ left \in Nat \ {0}
               /\ taker.remaining_quantity = FillQuantity
               /\ orders_lookup' =
                    [orders_lookup EXCEPT ![Maker].remaining_quantity = left]
               /\ order_it' = order_it + 1
               /\ orders' = orders
<1> DEFINE left == orders_lookup[Maker].remaining_quantity - FillQuantity
<1>1. Fill(Maker, FillQuantity) /\ UNCHANGED <<levels, pc, level_it>> /\ InnerLoop
  BY DEF MatchMaker, Maker, FillQuantity
<1>2. left \in Nat /\ (left # 0 => taker.remaining_quantity = FillQuantity)
  BY <1>1, MakerFacts
<1>3. CASE left = 0
  BY <1>1, <1>3 DEF Fill
<1>4. CASE left # 0
  BY <1>1, <1>2, <1>4 DEF Fill
<1> QED
  BY <1>3, <1>4

(* The order a submission brings in. *)
LEMMA NewTaker ==
  ASSUME NEW id \in OrderIds, NEW side \in Side, NEW type \in OrderType,
         NEW price \in Prices, NEW qty \in Int,
         NEW o, o = [order_id |-> id, side |-> side, order_type |-> type,
                     price |-> price, quantity |-> qty, remaining_quantity |-> qty]
  PROVE  o \in Incoming /\ o # NoOrder
<1>1. o \in Incoming
  BY DEF Incoming
<1> QED
  BY <1>1, NoOrderAssumption

(* Every step keeps the types. *)
LEMMA TypeStep ==
  ASSUME TypeOK, IndexConsistent, CallConsistent, SweepPosition, [Next]_vars
  PROVE  TypeOK'
<1>1. CASE StartCall
  <2>1. PICK id \in OrderIds, side \in Side, type \in OrderType, price \in Prices, qty \in Int :
          pc = "idle" /\ Begin(id, side, type, price, qty)
    BY <1>1 DEF StartCall
  <2>2. taker' \in Incoming /\ pc' \in Places
    BY <2>1, NewTaker DEF Begin, Places
  <2>3. CASE CancelResting(id)
    BY <2>1, <2>2, <2>3, CancelRestingType DEF Begin, TypeOK
  <2>4. CASE UNCHANGED book
    BY <2>1, <2>2, <2>4 DEF Begin, TypeOK, book
  <2> QED
    BY <2>1, <2>3, <2>4 DEF Begin
<1>2. ASSUME NEW id \in OrderIds, cancel_order(id)
      PROVE  TypeOK'
  BY <1>2, CancelRestingType DEF cancel_order, TypeOK
<1>3. ASSUME NEW id \in OrderIds, NEW qty \in Nat \ {0}, Reduce(id, qty)
      PROVE  TypeOK'
  <2>1. /\ orders_lookup[id] \in Order /\ orders_lookup[id].side \in Side
        /\ orders_lookup[id].price \in Prices
        /\ orders_lookup[id].remaining_quantity \in Nat
    BY <1>3, LiveOrder DEF Reduce
  <2>2. [orders_lookup[id] EXCEPT !.remaining_quantity = qty] \in Order
    BY <2>1, ResizedOrder
  <2>3. orders_lookup' \in [OrderIds -> Order \cup {NoOrder}]
    BY <1>3, <2>2 DEF Reduce, TypeOK
  <2>4. total_quantity' \in [Side -> [Prices -> Int]]
    BY <1>3, <2>1 DEF Reduce, TypeOK
  <2> QED
    BY <1>3, <2>3, <2>4 DEF Reduce, TypeOK
<1>4. CASE SweepStep
  <2>1. CASE EnterLevel
    <3>1. \E p \in Levels : level_it' = p
      BY <2>1 DEF EnterLevel
    <3>2. level_it' \in Prices
      BY <3>1, <1>4, TakerType DEF SweepStep, Levels, TypeOK
    <3> QED
      BY <2>1, <3>2 DEF EnterLevel, TypeOK, Places
  <2>2. CASE StopSweep
    BY <2>2 DEF StopSweep, TypeOK, Places
  <2>3. CASE SkipBlocked
    BY <2>3 DEF SkipBlocked, TypeOK
  <2>4. CASE MatchMaker
    <3> DEFINE s == Opposite(taker.side)
               left == orders_lookup[Maker].remaining_quantity - FillQuantity
    <3>1. InnerLoop /\ taker # NoOrder
      BY <2>4, <1>4 DEF MatchMaker, SweepStep
    <3>2. /\ s \in Side /\ level_it \in Prices /\ Maker \in OrderIds
          /\ orders_lookup[Maker] \in Order /\ FillQuantity \in Int
          /\ orders_lookup[Maker].price \in Prices
          /\ order_it \in 1 .. Len(orders[s][level_it])
          /\ orders[s][level_it] \in Seq(OrderIds)
      BY <3>1, TakerType, MakerFacts, ListType, LiveOrder DEF List, InnerLoop
    <3>3. taker' \in Incoming
      <4>1. taker \in Incoming /\ taker.remaining_quantity - FillQuantity \in Int
        BY <3>1, <3>2, TakerType
      <4>2. taker' = [taker EXCEPT !.remaining_quantity = taker.remaining_quantity - FillQuantity]
        BY <2>4, <3>1, FillEffect
      <4> QED
        BY <4>1, <4>2 DEF Incoming
    <3>4. trades' \in Seq(Trade)
      <4>1. [maker_order_id |-> Maker, taker_order_id |-> taker.order_id,
             aggressor_side |-> taker.side,
             price |-> orders_lookup[Maker].price, quantity |-> FillQuantity] \in Trade
        BY <3>1, <3>2, TakerType DEF Trade
      <4>2. trades' = Append(trades,
              [maker_order_id |-> Maker, taker_order_id |-> taker.order_id,
               aggressor_side |-> taker.side,
               price |-> orders_lookup[Maker].price, quantity |-> FillQuantity])
        BY <2>4, <3>1, FillEffect
      <4>3. trades \in Seq(Trade)
        BY DEF TypeOK
      <4> QED
        BY <4>1, <4>2, <4>3
    <3>5. total_quantity' \in [Side -> [Prices -> Int]]
      <4>1. total_quantity' =
              [total_quantity EXCEPT ![s][level_it] = @ - FillQuantity]
        BY <2>4, <3>1, FillEffect
      <4> HIDE DEF s
      <4> QED
        BY <4>1, <3>2 DEF TypeOK
    <3>6. UNCHANGED <<levels, pc, level_it>>
      BY <2>4, <3>1, FillEffect
    <3>7. /\ orders_lookup' \in [OrderIds -> Order \cup {NoOrder}]
          /\ orders' \in [Side -> [Prices -> Seq(OrderIds)]]
          /\ order_it' \in Nat
      <4>1. CASE /\ orders_lookup' = [orders_lookup EXCEPT ![Maker] = NoOrder]
                 /\ orders' = [orders EXCEPT ![s][level_it] = RemoveAt(@, order_it)]
                 /\ order_it' = order_it
        <5>1. RemoveAt(orders[s][level_it], order_it) \in Seq(OrderIds)
          BY <3>2, RemoveAtProperties
        <5>2. orders' \in [Side -> [Prices -> Seq(OrderIds)]]
          BY <4>1, <5>1, <3>2 DEF TypeOK
        <5> QED
          BY <4>1, <5>2, <3>2 DEF TypeOK
      <4>2. CASE /\ left \in Nat \ {0}
                 /\ orders_lookup' = [orders_lookup EXCEPT ![Maker].remaining_quantity = left]
                 /\ order_it' = order_it + 1
                 /\ orders' = orders
        <5>1. [orders_lookup[Maker] EXCEPT !.remaining_quantity = left] \in Order
          BY <4>2, <3>2, ResizedOrder
        <5> HIDE DEF left
        <5>2. orders_lookup' \in [OrderIds -> Order \cup {NoOrder}]
          BY <4>2, <5>1, <3>2 DEF TypeOK
        <5> QED
          BY <4>2, <5>2 DEF TypeOK
      <4> QED
        BY <4>1, <4>2, <2>4, <3>1, FillEffect
    <3> QED
      BY <3>3, <3>4, <3>5, <3>6, <3>7 DEF TypeOK
  <2>5. CASE LeaveLevel
    <3>1. Opposite(taker.side) \in Side /\ level_it \in Prices
      BY <2>5, <1>4, TakerType, ListType DEF LeaveLevel, SweepStep
    <3>2. /\ levels' \in [Side -> SUBSET Prices]
          /\ orders' \in [Side -> [Prices -> Seq(OrderIds)]]
          /\ total_quantity' \in [Side -> [Prices -> Int]]
          /\ pc' \in Places
      <4>1. CASE List = <<>>
        <5>1. SetLevel(Opposite(taker.side), level_it, <<>>, 0) /\ pc' = "outer"
          BY <2>5, <4>1 DEF LeaveLevel
        <5>2. <<>> \in Seq(OrderIds) /\ 0 \in Int
          OBVIOUS
        <5> QED
          BY <5>1, <5>2, <3>1, SetLevelType DEF Places
      <4>2. CASE List # <<>>
        BY <2>5, <4>2 DEF LeaveLevel, TypeOK, Places
      <4> QED
        BY <4>1, <4>2
    <3> QED
      BY <2>5, <3>2 DEF LeaveLevel, TypeOK
  <2> QED
    BY <1>4, <2>1, <2>2, <2>3, <2>4, <2>5 DEF SweepStep, Sweep
<1>5. CASE RestStep
  <2>1. CASE taker.remaining_quantity > 0
    <3> DEFINE o == [side |-> taker.side, order_type |-> taker.order_type,
                     price |-> taker.price,
                     remaining_quantity |-> taker.remaining_quantity]
               rest == Append(orders[taker.side][taker.price], taker.order_id)
               sum == total_quantity[taker.side][taker.price] + taker.remaining_quantity
    <3>1. taker # NoOrder /\ add_resting_order /\ Return
      BY <1>5, <2>1 DEF RestStep, Rest
    <3>2. o \in Order
      BY <2>1, <3>1, TakerType DEF Order
    <3>3. rest \in Seq(OrderIds) /\ sum \in Int
      BY <3>1, TakerType DEF TypeOK
    <3>4. SetLevel(taker.side, taker.price, rest, sum)
          /\ orders_lookup' = [orders_lookup EXCEPT ![taker.order_id] = o]
      BY <3>1 DEF add_resting_order
    <3> HIDE DEF o, rest, sum
    <3>5. orders_lookup' \in [OrderIds -> Order \cup {NoOrder}]
      BY <3>2, <3>4 DEF TypeOK
    <3>6. /\ levels' \in [Side -> SUBSET Prices]
          /\ orders' \in [Side -> [Prices -> Seq(OrderIds)]]
          /\ total_quantity' \in [Side -> [Prices -> Int]]
      BY <3>1, <3>3, <3>4, SetLevelType, TakerType
    <3> QED
      BY <3>1, <3>5, <3>6 DEF Return, TypeOK, Places
  <2>2. CASE ~ (taker.remaining_quantity > 0)
    BY <1>5, <2>2 DEF RestStep, Rest, Return, TypeOK, Places, book
  <2> QED
    BY <2>1, <2>2
<1>6. CASE DiscardStep
  BY <1>6 DEF DiscardStep, Discard, Return, TypeOK, Places, book
<1>7. CASE DryRunStep
  <2>1. UNCHANGED book /\ (Return \/ (pc' = "outer" /\ UNCHANGED <<taker, level_it, order_it, trades>>))
    BY <1>7 DEF DryRunStep, DryRun
  <2>2. CASE Return
    BY <2>1, <2>2 DEF Return, TypeOK, Places, book
  <2>3. CASE pc' = "outer" /\ UNCHANGED <<taker, level_it, order_it, trades>>
    BY <2>1, <2>3 DEF TypeOK, Places, book
  <2> QED
    BY <2>1, <2>2, <2>3
<1>8. CASE UNCHANGED vars
  BY <1>8 DEF vars, TypeOK
<1> QED
  BY <1>1, <1>2, <1>3, <1>4, <1>5, <1>6, <1>7, <1>8, Steps

-----------------------------------------------------------------------------
(* The lookup and the lists *)

(* Erasing an order from its list and from the lookup keeps them in step. *)
LEMMA EraseKeepsIndex ==
  ASSUME TypeOK, QueuedOrdersAreLive, LiveOrdersAreQueued, QueuedOnce,
         NEW s \in Side, NEW p \in Prices, NEW i \in 1 .. Len(orders[s][p]),
         orders' = [orders EXCEPT ![s][p] = RemoveAt(orders[s][p], i)],
         orders_lookup' = [orders_lookup EXCEPT ![orders[s][p][i]] = NoOrder]
  PROVE  QueuedOrdersAreLive' /\ LiveOrdersAreQueued' /\ QueuedOnce'
<1> DEFINE list == orders[s][p]
           id == list[i]
           rest == RemoveAt(list, i)
<1>1. list \in Seq(OrderIds) /\ i \in DOMAIN list /\ id \in OrderIds
  BY DEF TypeOK
<1>2. Live(id) /\ orders_lookup[id].side = s /\ orders_lookup[id].price = p
  BY <1>1 DEF QueuedOrdersAreLive
<1>3. /\ \A k \in DOMAIN rest : \E j \in DOMAIN list : j # i /\ rest[k] = list[j]
      /\ \A k \in DOMAIN rest : rest[k] # id
      /\ \A j \in DOMAIN list : j # i => \E k \in DOMAIN rest : rest[k] = list[j]
      /\ \A j, k \in DOMAIN rest : rest[j] = rest[k] => j = k
  <2>1. \A j, k \in DOMAIN list : list[j] = list[k] => j = k
    BY DEF QueuedOnce
  <2>2. i \in 1 .. Len(list) /\ rest = RemoveAt(list, i) /\ id = list[i]
    OBVIOUS
  <2> HIDE DEF list, id, rest
  <2> QED
    BY <1>1, <2>1, <2>2, RemoveAtElements
<1>4. /\ orders'[s][p] = rest
      /\ \A t \in Side, q \in Prices : t # s \/ q # p => orders'[t][q] = orders[t][q]
  BY DEF TypeOK
<1>5. /\ orders_lookup'[id] = NoOrder
      /\ \A e \in OrderIds : e # id => orders_lookup'[e] = orders_lookup[e]
  BY <1>1 DEF TypeOK
<1> HIDE DEF list, id, rest
<1>6. ASSUME NEW t \in Side, NEW q \in Prices, NEW k \in DOMAIN orders'[t][q]
      PROVE  /\ orders_lookup'[orders'[t][q][k]] # NoOrder /\ orders'[t][q][k] \in OrderIds
             /\ orders_lookup'[orders'[t][q][k]].side = t
             /\ orders_lookup'[orders'[t][q][k]].price = q
  <2>1. CASE t = s /\ q = p
    <3>1. PICK j \in DOMAIN list : j # i /\ orders'[t][q][k] = list[j]
      BY <1>3, <1>4, <2>1
    <3>2. list[j] \in OrderIds /\ list[j] # id
      BY <1>1, <1>3, <1>4, <2>1, <3>1
    <3>3. Live(list[j]) /\ orders_lookup[list[j]].side = s /\ orders_lookup[list[j]].price = p
      BY <3>1 DEF QueuedOrdersAreLive, list
    <3> QED
      BY <2>1, <3>1, <3>2, <3>3, <1>5 DEF Live
  <2>2. CASE t # s \/ q # p
    <3>1. orders'[t][q] = orders[t][q] /\ orders[t][q] \in Seq(OrderIds)
      BY <1>4, <2>2 DEF TypeOK
    <3>2. /\ Live(orders[t][q][k]) /\ orders[t][q][k] \in OrderIds
          /\ orders_lookup[orders[t][q][k]].side = t
          /\ orders_lookup[orders[t][q][k]].price = q
      BY <3>1 DEF QueuedOrdersAreLive
    <3>3. orders[t][q][k] # id
      BY <3>2, <1>2, <2>2
    <3> QED
      BY <3>1, <3>2, <3>3, <1>5 DEF Live
  <2> QED
    BY <2>1, <2>2
<1>7. QueuedOrdersAreLive'
  <2> SUFFICES ASSUME NEW t \in Side, NEW q \in Prices, NEW k \in DOMAIN orders'[t][q]
               PROVE  /\ Live(orders[t][q][k])'
                      /\ orders_lookup'[orders'[t][q][k]].side = t
                      /\ orders_lookup'[orders'[t][q][k]].price = q
    BY DEF QueuedOrdersAreLive
  <2>1. t \in Side /\ q \in Prices /\ k \in DOMAIN orders'[t][q]
    OBVIOUS
  <2> QED
    BY ONLY <1>6, <2>1 DEF Live
<1>8. LiveOrdersAreQueued'
  <2> SUFFICES ASSUME NEW e \in OrderIds, Live(e)'
               PROVE  \E k \in DOMAIN orders'[orders_lookup'[e].side][orders_lookup'[e].price] :
                        orders'[orders_lookup'[e].side][orders_lookup'[e].price][k] = e
    BY DEF LiveOrdersAreQueued
  <2> DEFINE t == orders_lookup[e].side
             q == orders_lookup[e].price
  <2>1. e # id /\ orders_lookup'[e] = orders_lookup[e] /\ Live(e)
    BY <1>5 DEF Live
  <2>2. t \in Side /\ q \in Prices
    BY <2>1, LiveOrder
  <2>3. PICK j \in DOMAIN orders[t][q] : orders[t][q][j] = e
    BY <2>1 DEF LiveOrdersAreQueued
  <2>4. \E k \in DOMAIN orders'[t][q] : orders'[t][q][k] = e
    <3>1. CASE t = s /\ q = p
      <4>1. j \in DOMAIN list /\ list[j] = e /\ j # i
        BY <2>1, <2>3, <3>1 DEF list, id
      <4>2. \E k \in DOMAIN rest : rest[k] = e
        BY <4>1, <1>3
      <4> QED
        BY <4>2, <3>1, <1>4
    <3>2. CASE t # s \/ q # p
      <4>1. orders'[t][q] = orders[t][q]
        BY <2>2, <3>2, <1>4
      <4> QED
        BY <4>1, <2>3
    <3> QED
      BY <3>1, <3>2
  <2> QED
    BY <2>1, <2>4
<1>9. QueuedOnce'
  <2> SUFFICES ASSUME NEW t \in Side, NEW q \in Prices,
                      NEW j \in DOMAIN orders'[t][q], NEW k \in DOMAIN orders'[t][q],
                      orders'[t][q][j] = orders'[t][q][k]
               PROVE  j = k
    BY DEF QueuedOnce
  <2>1. CASE t = s /\ q = p
    BY <2>1, <1>3, <1>4
  <2>2. CASE t # s \/ q # p
    BY <2>2, <1>4 DEF QueuedOnce
  <2> QED
    BY <2>1, <2>2
<1> QED
  BY <1>7, <1>8, <1>9

(* Append adds one element behind the ones of the sequence. *)
LEMMA AppendElements ==
  ASSUME NEW S, NEW s \in Seq(S), NEW e \in S
  PROVE  /\ DOMAIN s = 1 .. Len(s) /\ Len(s) \in Nat
         /\ DOMAIN Append(s, e) = 1 .. Len(s) + 1
         /\ Append(s, e)[Len(s) + 1] = e
         /\ \A k \in DOMAIN s : Append(s, e)[k] = s[k]
OBVIOUS

(* An order queued behind those of its level keeps the index consistent. *)
LEMMA QueuedBehind ==
  ASSUME TypeOK, QueuedOrdersAreLive, LiveOrdersAreQueued, QueuedOnce,
         NEW id \in OrderIds, ~ Live(id), NEW s \in Side, NEW p \in Prices,
         orders'[s][p] = Append(orders[s][p], id),
         \A t \in Side, q \in Prices : t # s \/ q # p => orders'[t][q] = orders[t][q],
         orders_lookup'[id] # NoOrder,
         orders_lookup'[id].side = s, orders_lookup'[id].price = p,
         \A e \in OrderIds : e # id => orders_lookup'[e] = orders_lookup[e]
  PROVE  QueuedOrdersAreLive' /\ LiveOrdersAreQueued' /\ QueuedOnce'
<1> DEFINE list == orders[s][p]
           more == Append(list, id)
<1>1. list \in Seq(OrderIds)
  BY DEF TypeOK
<1>2. /\ DOMAIN list = 1 .. Len(list) /\ Len(list) \in Nat
      /\ DOMAIN more = 1 .. Len(list) + 1
      /\ more[Len(list) + 1] = id
      /\ \A k \in DOMAIN list : more[k] = list[k]
  <2>1. list \in Seq(OrderIds)
    BY <1>1
  <2> HIDE DEF list
  <2> QED
    BY <2>1, AppendElements
<1>3. /\ orders'[s][p] = more
      /\ \A t \in Side, q \in Prices : t # s \/ q # p => orders'[t][q] = orders[t][q]
  OBVIOUS
<1>4. /\ orders_lookup'[id] # NoOrder
      /\ orders_lookup'[id].side = s /\ orders_lookup'[id].price = p
      /\ \A e \in OrderIds : e # id => orders_lookup'[e] = orders_lookup[e]
  OBVIOUS
<1>5. \A t \in Side, q \in Prices : \A k \in DOMAIN orders[t][q] :
        /\ orders[t][q][k] \in OrderIds /\ orders[t][q][k] # id
        /\ Live(orders[t][q][k])
        /\ orders_lookup[orders[t][q][k]].side = t
        /\ orders_lookup[orders[t][q][k]].price = q
  <2> SUFFICES ASSUME NEW t \in Side, NEW q \in Prices, NEW k \in DOMAIN orders[t][q]
               PROVE  /\ orders[t][q][k] \in OrderIds /\ orders[t][q][k] # id
                      /\ Live(orders[t][q][k])
                      /\ orders_lookup[orders[t][q][k]].side = t
                      /\ orders_lookup[orders[t][q][k]].price = q
    OBVIOUS
  <2>1. orders[t][q] \in Seq(OrderIds)
    BY DEF TypeOK
  <2> QED
    BY <2>1 DEF QueuedOrdersAreLive
<1> HIDE DEF list, more
<1>6. ASSUME NEW t \in Side, NEW q \in Prices, NEW k \in DOMAIN orders'[t][q]
      PROVE  /\ orders_lookup'[orders'[t][q][k]] # NoOrder
             /\ orders_lookup'[orders'[t][q][k]].side = t
             /\ orders_lookup'[orders'[t][q][k]].price = q
  <2>1. CASE t = s /\ q = p /\ k = Len(list) + 1
    BY <2>1, <1>1, <1>2, <1>3, <1>4 DEF Live
  <2>2. CASE t = s /\ q = p /\ k # Len(list) + 1
    <3>1. k \in DOMAIN orders[t][q] /\ orders'[t][q][k] = orders[t][q][k]
      BY <2>2, <1>2, <1>3 DEF list
    <3>2. orders_lookup'[orders[t][q][k]] = orders_lookup[orders[t][q][k]]
      BY <3>1, <1>4, <1>5
    <3>3. /\ Live(orders[t][q][k])
          /\ orders_lookup[orders[t][q][k]].side = t
          /\ orders_lookup[orders[t][q][k]].price = q
      BY <3>1, <1>5
    <3> QED
      BY <3>1, <3>2, <3>3 DEF Live
  <2>3. CASE t # s \/ q # p
    <3>1. k \in DOMAIN orders[t][q] /\ orders'[t][q][k] = orders[t][q][k]
      BY <2>3, <1>3
    <3>2. orders_lookup'[orders[t][q][k]] = orders_lookup[orders[t][q][k]]
      BY <3>1, <1>4, <1>5
    <3>3. /\ Live(orders[t][q][k])
          /\ orders_lookup[orders[t][q][k]].side = t
          /\ orders_lookup[orders[t][q][k]].price = q
      BY <3>1, <1>5
    <3> QED
      BY <3>1, <3>2, <3>3 DEF Live
  <2> QED
    BY <2>1, <2>2, <2>3
<1>9. QueuedOrdersAreLive'
  BY <1>6 DEF QueuedOrdersAreLive, Live
<1>7. LiveOrdersAreQueued'
  <2> SUFFICES ASSUME NEW e \in OrderIds, Live(e)'
               PROVE  \E k \in DOMAIN orders'[orders_lookup'[e].side][orders_lookup'[e].price] :
                        orders'[orders_lookup'[e].side][orders_lookup'[e].price][k] = e
    BY DEF LiveOrdersAreQueued
  <2>1. CASE e = id
    <3>1. Len(list) + 1 \in DOMAIN orders'[s][p] /\ orders'[s][p][Len(list) + 1] = id
      BY <1>2, <1>3
    <3> QED
      BY <2>1, <3>1, <1>4
  <2>2. CASE e # id
    <3> DEFINE t == orders_lookup[e].side
               q == orders_lookup[e].price
    <3>1. orders_lookup'[e] = orders_lookup[e] /\ Live(e)
      BY <2>2, <1>4 DEF Live
    <3>2. t \in Side /\ q \in Prices
      BY <3>1, LiveOrder
    <3>3. PICK j \in DOMAIN orders[t][q] : orders[t][q][j] = e
      BY <3>1 DEF LiveOrdersAreQueued
    <3>4. j \in DOMAIN orders'[t][q] /\ orders'[t][q][j] = e
      <4>1. CASE t = s /\ q = p
        <5>1. j \in DOMAIN list /\ list[j] = e /\ orders'[t][q] = more
          BY <3>3, <4>1, <1>3 DEF list
        <5> QED
          BY <5>1, <1>2
      <4>2. CASE t # s \/ q # p
        BY <3>2, <3>3, <4>2, <1>3
      <4> QED
        BY <4>1, <4>2
    <3> QED
      BY <3>1, <3>4
  <2> QED
    BY <2>1, <2>2
<1>8. QueuedOnce'
  <2> SUFFICES ASSUME NEW t \in Side, NEW q \in Prices,
                      NEW j \in DOMAIN orders'[t][q], NEW k \in DOMAIN orders'[t][q],
                      orders'[t][q][j] = orders'[t][q][k]
               PROVE  j = k
    BY DEF QueuedOnce
  <2>1. CASE t = s /\ q = p
    <3>1. j \in 1 .. Len(list) + 1 /\ k \in 1 .. Len(list) + 1 /\ more[j] = more[k]
      BY <2>1, <1>2, <1>3
    <3>2. \A l \in DOMAIN list : list[l] # id
      <4> SUFFICES ASSUME NEW l \in DOMAIN orders[s][p] PROVE orders[s][p][l] # id
        BY DEF list
      <4> QED
        BY <1>5
    <3>3. \A l, m \in DOMAIN list : list[l] = list[m] => l = m
      BY <1>1 DEF QueuedOnce, list
    <3> QED
      BY <3>1, <3>2, <3>3, <1>2
  <2>2. CASE t # s \/ q # p
    <3>1. orders'[t][q] = orders[t][q]
      BY <2>2, <1>3
    <3>2. j \in DOMAIN orders[t][q] /\ k \in DOMAIN orders[t][q]
          /\ orders[t][q][j] = orders[t][q][k]
      BY <3>1
    <3> QED
      BY <3>2 DEF QueuedOnce
  <2> QED
    BY <2>1, <2>2
<1> QED
  BY <1>7, <1>8, <1>9

(* So does queueing an order that was not in the book. *)
LEMMA AppendKeepsIndex ==
  ASSUME TypeOK, QueuedOrdersAreLive, LiveOrdersAreQueued, QueuedOnce,
         NEW id \in OrderIds, ~ Live(id), NEW o \in Order,
         orders' = [orders EXCEPT ![o.side][o.price] = Append(orders[o.side][o.price], id)],
         orders_lookup' = [orders_lookup EXCEPT ![id] = o]
  PROVE  QueuedOrdersAreLive' /\ LiveOrdersAreQueued' /\ QueuedOnce'
<1> DEFINE s == o.side
           p == o.price
<1>1. s \in Side /\ p \in Prices /\ o # NoOrder
  BY NoOrderAssumption DEF Order
<1>2. /\ orders'[s][p] = Append(orders[s][p], id)
      /\ \A t \in Side, q \in Prices : t # s \/ q # p => orders'[t][q] = orders[t][q]
  BY <1>1 DEF TypeOK
<1>3. /\ orders_lookup'[id] = o
      /\ \A e \in OrderIds : e # id => orders_lookup'[e] = orders_lookup[e]
  BY DEF TypeOK
<1>4. orders_lookup'[id].side = s /\ orders_lookup'[id].price = p
  BY <1>3
<1> HIDE DEF s, p
<1> QED
  BY <1>1, <1>2, <1>3, <1>4, QueuedBehind

(* So does giving an order another quantity where it stands. *)
LEMMA ResizeKeepsIndex ==
  ASSUME TypeOK, QueuedOrdersAreLive, LiveOrdersAreQueued, QueuedOnce,
         NEW id \in OrderIds, Live(id), NEW qty \in Nat \ {0},
         orders_lookup' = [orders_lookup EXCEPT ![id].remaining_quantity = qty],
         orders' = orders
  PROVE  QueuedOrdersAreLive' /\ LiveOrdersAreQueued' /\ QueuedOnce'
<1>1. orders_lookup[id] \in Order
  BY LiveOrder
<1>2. \A e \in OrderIds :
        /\ Live(e)' <=> Live(e)
        /\ Live(e) => /\ orders_lookup'[e].side = orders_lookup[e].side
                      /\ orders_lookup'[e].price = orders_lookup[e].price
  <2> DEFINE o == [orders_lookup[id] EXCEPT !.remaining_quantity = qty]
  <2>1. o \in Order /\ o.side = orders_lookup[id].side /\ o.price = orders_lookup[id].price
    BY <1>1, ResizedOrder
  <2>2. orders_lookup' = [orders_lookup EXCEPT ![id] = o]
    OBVIOUS
  <2> HIDE DEF o
  <2>3. orders_lookup'[id] = o /\ o # NoOrder
        /\ \A e \in OrderIds : e # id => orders_lookup'[e] = orders_lookup[e]
    BY <2>1, <2>2, NoOrderAssumption DEF TypeOK
  <2> SUFFICES ASSUME NEW e \in OrderIds
               PROVE  /\ Live(e)' <=> Live(e)
                      /\ Live(e) => /\ orders_lookup'[e].side = orders_lookup[e].side
                                    /\ orders_lookup'[e].price = orders_lookup[e].price
    OBVIOUS
  <2>4. CASE e = id
    BY <2>1, <2>3, <2>4 DEF Live
  <2>5. CASE e # id
    BY <2>3, <2>5 DEF Live
  <2> QED
    BY <2>4, <2>5
<1>3. \A s \in Side, p \in Prices : \A k \in DOMAIN orders[s][p] : orders[s][p][k] \in OrderIds
  <2> SUFFICES ASSUME NEW s \in Side, NEW p \in Prices, NEW k \in DOMAIN orders[s][p]
               PROVE  orders[s][p][k] \in OrderIds
    OBVIOUS
  <2>1. orders[s][p] \in Seq(OrderIds)
    BY DEF TypeOK
  <2> QED
    BY <2>1
<1>4. QueuedOrdersAreLive'
  BY <1>2, <1>3 DEF QueuedOrdersAreLive
<1>5. LiveOrdersAreQueued'
  BY <1>2 DEF LiveOrdersAreQueued
<1> QED
  BY <1>4, <1>5 DEF QueuedOnce

(* Outside a level's inner loop the keys of the maps are the prices with     *)
(* orders.                                                                   *)
LevelsExact == \A s \in Side, p \in Prices : p \in levels[s] <=> orders[s][p] # <<>>

(* Setting a level keeps the maps in step with the lists. *)
LEMMA SetLevelKeepsLevels ==
  ASSUME TypeOK, NEW s \in Side, NEW p \in Prices, NEW rest \in Seq(OrderIds), NEW sum,
         SetLevel(s, p, rest, sum),
         \A t \in Side, q \in Prices :
           t # s \/ q # p => (q \in levels[t] <=> orders[t][q] # <<>>)
  PROVE  LevelsExact'
<1> SUFFICES ASSUME NEW t \in Side, NEW q \in Prices
             PROVE  q \in levels'[t] <=> orders'[t][q] # <<>>
  BY DEF LevelsExact
<1>1. CASE t = s /\ q = p
  <2>1. orders'[t][q] = rest
    BY <1>1 DEF SetLevel, TypeOK
  <2>2. levels'[t] = IF rest = <<>> THEN levels[t] \ {p} ELSE levels[t] \cup {p}
    BY <1>1 DEF SetLevel, TypeOK
  <2> QED
    BY <1>1, <2>1, <2>2
<1>2. CASE t # s \/ q # p
  <2>1. orders'[t][q] = orders[t][q]
    BY <1>2 DEF SetLevel, TypeOK
  <2>2. q \in levels'[t] <=> q \in levels[t]
    BY <1>2 DEF SetLevel, TypeOK
  <2> QED
    BY <1>2, <2>1, <2>2
<1> QED
  BY <1>1, <1>2

(* Taking an order out of the book keeps the index consistent. *)
LEMMA CancelRestingIndex ==
  ASSUME TypeOK, IndexConsistent, pc # "inner", NEW id \in OrderIds, CancelResting(id)
  PROVE  QueuedOrdersAreLive' /\ LiveOrdersAreQueued' /\ QueuedOnce' /\ LevelsExact'
<1> DEFINE s == orders_lookup[id].side
           p == orders_lookup[id].price
           i == list_it(id)
           rest == RemoveAt(orders[s][p], i)
           sum == total_quantity[s][p] - orders_lookup[id].remaining_quantity
<1>1. Live(id) /\ orders_lookup' = [orders_lookup EXCEPT ![id] = NoOrder]
      /\ SetLevel(s, p, rest, sum)
  BY DEF CancelResting, remove_order_from_book
<1>2. s \in Side /\ p \in Prices /\ orders[s][p] \in Seq(OrderIds)
  BY <1>1, LiveOrder
<1>3. i \in 1 .. Len(orders[s][p]) /\ orders[s][p][i] = id
  <2>1. /\ list_it(id) \in DOMAIN orders[orders_lookup[id].side][orders_lookup[id].price]
        /\ orders[orders_lookup[id].side][orders_lookup[id].price][list_it(id)] = id
    BY <1>1, ListIt DEF IndexConsistent
  <2>2. DOMAIN orders[s][p] = 1 .. Len(orders[s][p])
    BY <1>2
  <2> QED
    BY <2>1, <2>2
<1>4. rest \in Seq(OrderIds)
  BY <1>2, <1>3, RemoveAtProperties
<1> HIDE DEF s, p, i, sum
<1>5. orders' = [orders EXCEPT ![s][p] = RemoveAt(orders[s][p], i)]
  BY <1>1 DEF SetLevel
<1>6. orders_lookup' = [orders_lookup EXCEPT ![orders[s][p][i]] = NoOrder]
  BY <1>1, <1>3
<1>7. QueuedOrdersAreLive' /\ LiveOrdersAreQueued' /\ QueuedOnce'
  BY <1>2, <1>3, <1>5, <1>6, EraseKeepsIndex DEF IndexConsistent
<1>8. \A t \in Side, q \in Prices : q \in levels[t] <=> orders[t][q] # <<>>
  BY DEF IndexConsistent, LevelsAreTheNonEmpty
<1> HIDE DEF rest
<1>9. LevelsExact'
  BY <1>1, <1>2, <1>4, <1>8, SetLevelKeepsLevels
<1> QED
  BY <1>7, <1>9

(* Every step keeps the index consistent. *)
LEMMA IndexStep ==
  ASSUME TypeOK, IndexConsistent, CallConsistent, SweepPosition, [Next]_vars
  PROVE  IndexConsistent'
<1>1. ASSUME LevelsExact' PROVE LevelsAreTheNonEmpty'
  BY <1>1 DEF LevelsExact, LevelsAreTheNonEmpty
<1>2. pc # "inner" => LevelsExact
  BY DEF IndexConsistent, LevelsAreTheNonEmpty, LevelsExact
<1>3. ASSUME UNCHANGED book, pc # "inner"
      PROVE  IndexConsistent'
  <2>1. QueuedOrdersAreLive' /\ LiveOrdersAreQueued' /\ QueuedOnce'
    BY <1>3 DEF book, IndexConsistent, QueuedOrdersAreLive, LiveOrdersAreQueued,
       QueuedOnce, Live
  <2>2. LevelsExact'
    BY <1>2, <1>3 DEF book, LevelsExact
  <2> QED
    BY <1>1, <2>1, <2>2 DEF IndexConsistent
<1>4. CASE StartCall
  <2>1. PICK id \in OrderIds, side \in Side, type \in OrderType, price \in Prices, qty \in Int :
          pc = "idle" /\ Begin(id, side, type, price, qty)
    BY <1>4 DEF StartCall
  <2>2. CASE CancelResting(id)
    BY <2>1, <2>2, <1>1, CancelRestingIndex DEF IndexConsistent
  <2>3. CASE UNCHANGED book
    BY <2>1, <2>3, <1>3
  <2> QED
    BY <2>1, <2>2, <2>3 DEF Begin
<1>5. ASSUME NEW id \in OrderIds, cancel_order(id)
      PROVE  IndexConsistent'
  <2>1. pc # "inner" /\ CancelResting(id)
    BY <1>5 DEF cancel_order
  <2> QED
    BY <2>1, <1>1, CancelRestingIndex DEF IndexConsistent
<1>6. ASSUME NEW id \in OrderIds, NEW qty \in Nat \ {0}, Reduce(id, qty)
      PROVE  IndexConsistent'
  <2>1. QueuedOrdersAreLive' /\ LiveOrdersAreQueued' /\ QueuedOnce'
    BY <1>6, ResizeKeepsIndex DEF Reduce, IndexConsistent
  <2>2. LevelsExact'
    BY <1>2, <1>6 DEF Reduce, LevelsExact
  <2> QED
    BY <2>1, <2>2, <1>1 DEF IndexConsistent
<1>7. CASE SweepStep
  <2>1. CASE EnterLevel \/ StopSweep
    BY <2>1, <1>3 DEF EnterLevel, StopSweep, book
  <2>2. CASE SkipBlocked
    BY <2>2 DEF SkipBlocked, IndexConsistent, QueuedOrdersAreLive, LiveOrdersAreQueued,
       QueuedOnce, LevelsAreTheNonEmpty, Live
  <2>3. CASE MatchMaker
    <3> DEFINE s == Opposite(taker.side)
               left == orders_lookup[Maker].remaining_quantity - FillQuantity
    <3>1. taker # NoOrder /\ InnerLoop /\ pc = "inner"
      BY <2>3, <1>7 DEF SweepStep, MatchMaker, InnerLoop
    <3>2. /\ s \in Side /\ level_it \in Prices /\ Maker \in OrderIds /\ Live(Maker)
          /\ order_it \in 1 .. Len(orders[s][level_it])
          /\ Maker = orders[s][level_it][order_it]
      BY <3>1, TakerType, ListType, MakerFacts DEF List, Maker
    <3>3. UNCHANGED <<levels, pc, level_it>> /\ taker'.side = taker.side
      <4>1. taker' = [taker EXCEPT !.remaining_quantity = taker.remaining_quantity - FillQuantity]
        BY <2>3, <3>1, FillEffect
      <4>2. taker \in Incoming
        BY <3>1, TakerType
      <4>3. taker'.side = taker.side
        BY <4>1, <4>2 DEF Incoming
      <4> QED
        BY <4>3, <2>3, <3>1, FillEffect
    <3>4. CASE /\ orders_lookup' = [orders_lookup EXCEPT ![Maker] = NoOrder]
               /\ orders' = [orders EXCEPT ![s][level_it] = RemoveAt(@, order_it)]
      <4>1. QueuedOrdersAreLive' /\ LiveOrdersAreQueued' /\ QueuedOnce'
        BY <3>2, <3>4, EraseKeepsIndex DEF IndexConsistent
      <4>2. \A t \in Side, q \in Prices :
              t # s \/ q # level_it => orders'[t][q] = orders[t][q]
        BY <3>4 DEF TypeOK
      <4>3. level_it \in levels[s]
        BY <3>1, ListType
      <4>4. LevelsAreTheNonEmpty'
        BY <3>1, <3>3, <4>2, <4>3 DEF IndexConsistent, LevelsAreTheNonEmpty
      <4> QED
        BY <4>1, <4>4 DEF IndexConsistent
    <3>5. CASE /\ left \in Nat \ {0}
               /\ orders_lookup' = [orders_lookup EXCEPT ![Maker].remaining_quantity = left]
               /\ orders' = orders
      <4> HIDE DEF left
      <4>1. QueuedOrdersAreLive' /\ LiveOrdersAreQueued' /\ QueuedOnce'
        BY <3>2, <3>5, ResizeKeepsIndex DEF IndexConsistent
      <4>2. LevelsAreTheNonEmpty'
        BY <3>1, <3>3, <3>5 DEF IndexConsistent, LevelsAreTheNonEmpty
      <4> QED
        BY <4>1, <4>2 DEF IndexConsistent
    <3> QED
      BY <2>3, <3>1, <3>4, <3>5, FillEffect
  <2>4. CASE LeaveLevel
    <3> DEFINE s == Opposite(taker.side)
    <3>1. /\ taker # NoOrder /\ pc = "inner" /\ pc' # "inner"
          /\ UNCHANGED orders_lookup /\ s \in Side /\ level_it \in Prices
      BY <2>4, <1>7, TakerType, ListType DEF LeaveLevel, SweepStep
    <3>2. CASE List = <<>>
      <4>1. SetLevel(s, level_it, <<>>, 0) /\ orders[s][level_it] = <<>>
        BY <2>4, <3>2 DEF LeaveLevel, List
      <4>2. orders' = orders
        BY <3>1, <4>1 DEF SetLevel, TypeOK
      <4>3. \A t \in Side, q \in Prices :
              t # s \/ q # level_it => (q \in levels[t] <=> orders[t][q] # <<>>)
        BY DEF IndexConsistent, LevelsAreTheNonEmpty
      <4>4. <<>> \in Seq(OrderIds)
        OBVIOUS
      <4> HIDE DEF s
      <4>5. LevelsExact'
        BY <3>1, <4>1, <4>3, <4>4, SetLevelKeepsLevels
      <4> QED
        BY <3>1, <4>2, <4>5, <1>1 DEF IndexConsistent, QueuedOrdersAreLive,
           LiveOrdersAreQueued, QueuedOnce, Live
    <3>3. CASE List # <<>>
      <4>1. UNCHANGED book
        BY <2>4, <3>3 DEF LeaveLevel, book
      <4>2. LevelsExact
        BY <3>3 DEF IndexConsistent, LevelsAreTheNonEmpty, LevelsExact, List
      <4> QED
        BY <4>1, <4>2, <1>1 DEF book, IndexConsistent, QueuedOrdersAreLive,
           LiveOrdersAreQueued, QueuedOnce, LevelsExact, Live
    <3> QED
      BY <3>2, <3>3
  <2> QED
    BY <1>7, <2>1, <2>2, <2>3, <2>4 DEF SweepStep, Sweep
<1>8. CASE RestStep
  <2>1. CASE taker.remaining_quantity > 0
    <3> DEFINE o == [side |-> taker.side, order_type |-> taker.order_type,
                     price |-> taker.price,
                     remaining_quantity |-> taker.remaining_quantity]
               rest == Append(orders[taker.side][taker.price], taker.order_id)
               sum == total_quantity[taker.side][taker.price] + taker.remaining_quantity
    <3>1. taker # NoOrder /\ add_resting_order /\ pc # "inner" /\ ~ Live(taker.order_id)
      BY <1>8, <2>1 DEF RestStep, Rest, CallConsistent
    <3>2. o \in Order /\ o.side = taker.side /\ o.price = taker.price
      BY <2>1, <3>1, TakerType DEF Order
    <3>3. SetLevel(taker.side, taker.price, rest, sum)
          /\ orders_lookup' = [orders_lookup EXCEPT ![taker.order_id] = o]
      BY <3>1 DEF add_resting_order
    <3>4. taker.side \in Side /\ taker.price \in Prices /\ taker.order_id \in OrderIds
      BY <3>1, TakerType
    <3>5. rest \in Seq(OrderIds)
      BY <3>4 DEF TypeOK
    <3>6. orders' = [orders EXCEPT ![o.side][o.price] =
                       Append(orders[o.side][o.price], taker.order_id)]
      BY <3>2, <3>3 DEF SetLevel
    <3> HIDE DEF o, rest, sum
    <3>7. QueuedOrdersAreLive' /\ LiveOrdersAreQueued' /\ QueuedOnce'
      BY <3>1, <3>2, <3>3, <3>4, <3>6, AppendKeepsIndex DEF IndexConsistent
    <3>8. \A t \in Side, q \in Prices : q \in levels[t] <=> orders[t][q] # <<>>
      BY <3>1, <1>2 DEF LevelsExact
    <3>9. LevelsExact'
      BY <3>3, <3>4, <3>5, <3>8, SetLevelKeepsLevels
    <3> QED
      BY <3>7, <3>9, <1>1 DEF IndexConsistent
  <2>2. CASE ~ (taker.remaining_quantity > 0)
    BY <1>3, <1>8, <2>2 DEF RestStep, Rest
  <2> QED
    BY <2>1, <2>2
<1>9. CASE DiscardStep
  BY <1>3, <1>9 DEF DiscardStep, Discard
<1>10. CASE DryRunStep
  BY <1>3, <1>10 DEF DryRunStep, DryRun
<1>11. CASE UNCHANGED vars
  BY <1>11 DEF vars, IndexConsistent, QueuedOrdersAreLive, LiveOrdersAreQueued,
     QueuedOnce, LevelsAreTheNonEmpty, Live
<1> QED
  BY <1>4, <1>5, <1>6, <1>7, <1>8, <1>9, <1>10, <1>11, Steps

-----------------------------------------------------------------------------
(* The call in progress *)

(* What a fill leaves of the taker. *)
LEMMA TakerAfterFill ==
  ASSUME TypeOK, IndexConsistent, SweepPosition, taker # NoOrder, MatchMaker
  PROVE  /\ taker' # NoOrder
         /\ taker'.order_id = taker.order_id /\ taker'.side = taker.side
         /\ taker'.order_type = taker.order_type /\ taker'.price = taker.price
         /\ taker'.remaining_quantity = taker.remaining_quantity - FillQuantity
<1>1. taker' = [taker EXCEPT !.remaining_quantity = taker.remaining_quantity - FillQuantity]
  BY FillEffect
<1>2. taker \in Incoming
  BY TakerType
<1>3. FillQuantity \in Int
  BY MakerFacts DEF MatchMaker
<1>4. taker' \in Incoming
  BY <1>1, <1>2, <1>3 DEF Incoming
<1> QED
  BY <1>1, <1>2, <1>4, NoOrderAssumption DEF Incoming

(* Every step keeps the taker out of the book. *)
LEMMA CallStep ==
  ASSUME TypeOK, IndexConsistent, CallConsistent, SweepPosition, [Next]_vars
  PROVE  CallConsistent'
<1>1. CASE StartCall
  <2>1. PICK id \in OrderIds, side \in Side, type \in OrderType, price \in Prices, qty \in Int :
          pc = "idle" /\ Begin(id, side, type, price, qty)
    BY <1>1 DEF StartCall
  <2>2. taker' # NoOrder /\ taker'.order_id = id /\ taker'.order_type = type
        /\ pc' = IF type = FOK THEN "dry_run" ELSE "outer"
    BY <2>1, NewTaker DEF Begin
  <2>3. orders_lookup'[id] = NoOrder
    BY <2>1 DEF Begin, CancelResting, Live, book, TypeOK
  <2> QED
    BY <2>2, <2>3 DEF CallConsistent, Live
<1>2. ASSUME NEW id \in OrderIds, cancel_order(id)
      PROVE  CallConsistent'
  BY <1>2 DEF cancel_order, CallConsistent
<1>3. ASSUME NEW id \in OrderIds, NEW qty \in Nat \ {0}, Reduce(id, qty)
      PROVE  CallConsistent'
  BY <1>3 DEF Reduce, CallConsistent
<1>4. CASE SweepStep
  <2>1. CASE EnterLevel \/ StopSweep \/ SkipBlocked
    BY <1>4, <2>1 DEF SweepStep, EnterLevel, StopSweep, SkipBlocked, InnerLoop,
       CallConsistent, Live
  <2>2. CASE LeaveLevel
    BY <1>4, <2>2 DEF SweepStep, LeaveLevel, CallConsistent, Live
  <2>3. CASE MatchMaker
    <3>1. taker # NoOrder /\ InnerLoop /\ pc' = "inner"
      BY <1>4, <2>3, FillEffect DEF SweepStep, MatchMaker, InnerLoop
    <3>2. taker' # NoOrder /\ taker'.order_id = taker.order_id
      BY <2>3, <3>1, TakerAfterFill
    <3>3. Maker \in OrderIds /\ Live(Maker) /\ taker.order_id \in OrderIds
          /\ ~ Live(taker.order_id)
      BY <3>1, MakerFacts, TakerType DEF CallConsistent
    <3>4. orders_lookup'[taker.order_id] = orders_lookup[taker.order_id]
      <4>1. Maker # taker.order_id
        BY <3>3
      <4>2. PICK left : \/ orders_lookup' = [orders_lookup EXCEPT ![Maker] = NoOrder]
                        \/ orders_lookup' =
                             [orders_lookup EXCEPT ![Maker].remaining_quantity = left]
        BY <2>3, <3>1, FillEffect
      <4> QED
        BY <4>1, <4>2, <3>3 DEF TypeOK
    <3> QED
      BY <3>1, <3>2, <3>3, <3>4 DEF CallConsistent, Live
  <2> QED
    BY <1>4, <2>1, <2>2, <2>3 DEF SweepStep, Sweep
<1>5. CASE RestStep \/ DiscardStep
  BY <1>5 DEF RestStep, DiscardStep, Rest, Discard, Return, CallConsistent
<1>6. CASE DryRunStep
  <2>1. UNCHANGED book /\ (Return \/ (pc' = "outer" /\ UNCHANGED <<taker, level_it, order_it, trades>>))
    BY <1>6 DEF DryRunStep, DryRun
  <2> QED
    BY <1>6, <2>1 DEF DryRunStep, Return, CallConsistent, book, Live
<1>7. CASE UNCHANGED vars
  BY <1>7 DEF vars, CallConsistent, Live
<1> QED
  BY <1>1, <1>2, <1>3, <1>4, <1>5, <1>6, <1>7, Steps

(* Every step keeps the sweep where it passed blocked makers only. *)
LEMMA PositionStep ==
  ASSUME TypeOK, IndexConsistent, CallConsistent, SweepPosition, [Next]_vars
  PROVE  SweepPosition'
<1>1. CASE pc' # "inner"
  BY <1>1 DEF SweepPosition
<1>2. CASE StartCall
  BY <1>1, <1>2 DEF StartCall, Begin
<1>3. ASSUME NEW id \in OrderIds, cancel_order(id)
      PROVE  SweepPosition'
  BY <1>1, <1>3 DEF cancel_order
<1>4. ASSUME NEW id \in OrderIds, NEW qty \in Nat \ {0}, Reduce(id, qty)
      PROVE  SweepPosition'
  BY <1>1, <1>4 DEF Reduce
<1>5. CASE SweepStep
  <2>1. CASE EnterLevel
    <3>1. PICK p \in Levels : IsBest(Opposite(taker.side), p) /\ WithinLimit(p) /\ level_it' = p
      BY <2>1 DEF EnterLevel
    <3>2. UNCHANGED <<levels, orders, taker>> /\ order_it' = 1
      BY <2>1 DEF EnterLevel
    <3>3. List' \in Seq(OrderIds)
      BY <1>5, <3>1, <3>2, TakerType DEF SweepStep, Levels, List, TypeOK
    <3>4. \A i \in DOMAIN List' : ~ (i < 1)
      BY <3>3
    <3> QED
      BY <3>1, <3>2, <3>4 DEF SweepPosition, IsBest, WithinLimit
  <2>2. CASE StopSweep
    BY <1>1, <2>2 DEF StopSweep
  <2>3. CASE SkipBlocked
    <3>1. /\ UNCHANGED <<levels, orders, taker, level_it>>
          /\ order_it' = order_it + 1 /\ Blocked(List[order_it])
          /\ pc = "inner" /\ taker.remaining_quantity > 0
      BY <2>3 DEF SkipBlocked, InnerLoop
    <3>2. DOMAIN List = 1 .. Len(List) /\ Len(List) \in Nat /\ order_it \in Nat \ {0}
      BY <1>5, <3>1, ListType DEF SweepStep
    <3>3. \A i \in DOMAIN List : i < order_it + 1 => Blocked(List[i])
      BY <3>1, <3>2 DEF SweepPosition
    <3> QED
      BY <3>1, <3>2, <3>3 DEF SweepPosition, IsBest, WithinLimit, List, Blocked, SelfTrade
  <2>4. CASE MatchMaker
    <3>1. taker # NoOrder /\ InnerLoop /\ pc = "inner" /\ taker.remaining_quantity > 0
      BY <1>5, <2>4 DEF SweepStep, MatchMaker, InnerLoop
    <3>2. /\ taker'.order_id = taker.order_id /\ taker'.side = taker.side
          /\ taker'.order_type = taker.order_type /\ taker'.price = taker.price
          /\ taker'.remaining_quantity = taker.remaining_quantity - FillQuantity
      BY <2>4, <3>1, TakerAfterFill
    <3>3. UNCHANGED <<levels, level_it>>
      BY <2>4, <3>1, FillEffect
    <3>4. IsBest(Opposite(taker.side), level_it)' /\ WithinLimit(level_it)'
      BY <3>1, <3>2, <3>3 DEF SweepPosition, IsBest, WithinLimit
    <3>5. order_it \in 1 .. Len(List) /\ List \in Seq(OrderIds) /\ FillQuantity \in Int
          /\ level_it \in Prices /\ Opposite(taker.side) \in Side
          /\ taker.remaining_quantity \in Int
      BY <3>1, MakerFacts, ListType, TakerType
    <3>6. CASE orders' = [orders EXCEPT ![Opposite(taker.side)][level_it] = RemoveAt(@, order_it)]
               /\ order_it' = order_it
      <4>1. List' = RemoveAt(List, order_it)
        BY <3>2, <3>3, <3>5, <3>6 DEF List, TypeOK
      <4>2. \A i \in DOMAIN List' : i < order_it => i \in DOMAIN List /\ List'[i] = List[i]
        <5>1. /\ List' \in Seq(OrderIds) /\ Len(List') = Len(List) - 1
              /\ \A k \in 1 .. Len(List) - 1 :
                   List'[k] = IF k < order_it THEN List[k] ELSE List[k + 1]
          BY <3>5, <4>1, RemoveAtProperties
        <5>2. DOMAIN List' = 1 .. Len(List) - 1 /\ DOMAIN List = 1 .. Len(List)
              /\ Len(List) \in Nat
          BY <3>5, <5>1
        <5> QED
          BY <5>1, <5>2
      <4>3. \A i \in DOMAIN List' : i < order_it => Blocked(List[i])
        BY <3>1, <4>2 DEF SweepPosition
      <4> QED
        BY <3>2, <3>4, <3>5, <3>6, <4>2, <4>3 DEF SweepPosition, Blocked, SelfTrade
    <3>7. CASE taker.remaining_quantity = FillQuantity /\ order_it' = order_it + 1
      <4>1. taker'.remaining_quantity = 0 /\ order_it' # 0
        BY <3>2, <3>5, <3>7
      <4> QED
        BY <3>4, <4>1 DEF SweepPosition
    <3> QED
      BY <2>4, <3>1, <3>6, <3>7, FillEffect
  <2>5. CASE LeaveLevel
    BY <1>1, <2>5 DEF LeaveLevel
  <2> QED
    BY <1>5, <2>1, <2>2, <2>3, <2>4, <2>5 DEF SweepStep, Sweep
<1>6. CASE RestStep \/ DiscardStep \/ DryRunStep
  BY <1>1, <1>6 DEF RestStep, DiscardStep, DryRunStep, Rest, Discard, DryRun, Return
<1>7. CASE UNCHANGED vars
  BY <1>7 DEF vars, SweepPosition, IsBest, WithinLimit, List, Blocked, SelfTrade
<1> QED
  BY <1>2, <1>3, <1>4, <1>5, <1>6, <1>7, Steps

-----------------------------------------------------------------------------
(* What a sweep leaves, and what rests *)

(* The price of a live order is a key of its side's map, but for the level   *)
(* the sweep is emptying.                                                    *)
LEMMA PriceOfLive ==
  ASSUME TypeOK, IndexConsistent, NEW id \in OrderIds, Live(id)
  PROVE  orders_lookup[id].price \in levels[orders_lookup[id].side]
<1>1. orders_lookup[id].side \in Side /\ orders_lookup[id].price \in Prices
  BY LiveOrder
<1>2. orders[orders_lookup[id].side][orders_lookup[id].price] # <<>>
  BY DEF IndexConsistent, LiveOrdersAreQueued
<1> QED
  BY <1>1, <1>2 DEF IndexConsistent, LevelsAreTheNonEmpty

(* A sweep that ends has reached its limit or a blocked order. *)
LEMMA CompleteStep ==
  ASSUME TypeOK, IndexConsistent, CallConsistent, SweepPosition, SweepIsComplete,
         [Next]_vars
  PROVE  SweepIsComplete'
<1> DEFINE s == Opposite(taker.side)
<1>1. CASE pc' # "swept"
  BY <1>1 DEF SweepIsComplete
<1>2. CASE StartCall
  BY <1>1, <1>2 DEF StartCall, Begin
<1>3. ASSUME NEW id \in OrderIds, cancel_order(id)
      PROVE  SweepIsComplete'
  BY <1>1, <1>3 DEF cancel_order
<1>4. ASSUME NEW id \in OrderIds, NEW qty \in Nat \ {0}, Reduce(id, qty)
      PROVE  SweepIsComplete'
  BY <1>1, <1>4 DEF Reduce
<1>5. CASE SweepStep
  <2>1. CASE EnterLevel \/ SkipBlocked
    BY <1>1, <2>1 DEF EnterLevel, SkipBlocked, InnerLoop
  <2>2. CASE MatchMaker
    BY <1>1, <1>5, <2>2, FillEffect DEF SweepStep, MatchMaker, InnerLoop
  <2>3. CASE StopSweep
    <3>1. UNCHANGED <<orders_lookup, taker>>
      BY <2>3 DEF StopSweep
    <3>2. ASSUME taker.remaining_quantity > 0,
                 NEW id \in OrderIds, Live(id), orders_lookup[id].side = s
          PROVE  ~ WithinLimit(orders_lookup[id].price)
      <4> DEFINE q == orders_lookup[id].price
      <4>1. q \in Levels /\ q \in Prices /\ s \in Side
        BY <3>2, <1>5, PriceOfLive, LiveOrder, TakerType DEF Levels, SweepStep
      <4>2. PICK p \in Levels : IsBest(s, p) /\ ~ WithinLimit(p)
        <5>1. taker.remaining_quantity \in Int /\ Levels # {}
          BY <4>1, <1>5, TakerType DEF SweepStep
        <5> QED
          BY <2>3, <3>2, <5>1 DEF StopSweep
      <4>3. p \in Int /\ q \in Int /\ taker.price \in Int
        BY <4>1, <4>2, <1>5, TakerType, NumberAssumption DEF Levels, TypeOK, SweepStep
      <4>4. q = p \/ Before(s, p, q)
        BY <4>1, <4>2 DEF IsBest, Levels
      <4> QED
        BY <4>2, <4>3, <4>4 DEF WithinLimit, Accepts, Before, Opposite, BUY, SELL
    <3> QED
      BY <3>1, <3>2 DEF SweepIsComplete, Live, WithinLimit
  <2>4. CASE LeaveLevel
    <3>1. CASE List = <<>>
      BY <1>1, <2>4, <3>1 DEF LeaveLevel
    <3>2. CASE List # <<>>
      <4>1. UNCHANGED <<orders_lookup, taker>> /\ pc = "inner" /\ taker # NoOrder
        BY <2>4, <1>5 DEF LeaveLevel, SweepStep
      <4>2. /\ level_it \in Prices /\ List \in Seq(OrderIds) /\ s \in Side
            /\ DOMAIN List = 1 .. Len(List) /\ Len(List) \in Nat /\ order_it \in Nat
        BY <4>1, ListType, TakerType
      <4> SUFFICES ASSUME taker.remaining_quantity > 0,
                          NEW id \in OrderIds, Live(id), ~ Blocked(id),
                          orders_lookup[id].side = s
                   PROVE  \E b \in OrderIds :
                            /\ Live(b) /\ Blocked(b) /\ orders_lookup[b].side = s
                            /\ Before(s, orders_lookup[b].price, orders_lookup[id].price)
        BY <4>1 DEF SweepIsComplete, Live, Blocked, SelfTrade, WithinLimit
      <4>3. \A i \in DOMAIN List : Blocked(List[i])
        BY <2>4, <4>1, <4>2, TakerType DEF LeaveLevel, SweepPosition
      <4>4. 1 \in DOMAIN List
        BY <3>2, <4>2
      <4> DEFINE b == List[1]
      <4>5. /\ b \in OrderIds /\ Live(b) /\ Blocked(b)
            /\ orders_lookup[b].side = s /\ orders_lookup[b].price = level_it
        BY <4>2, <4>3, <4>4 DEF IndexConsistent, QueuedOrdersAreLive, List
      <4>6. orders_lookup[id].price # level_it
        <5>1. CASE orders_lookup[id].price = level_it
          <6>1. PICK i \in DOMAIN List : List[i] = id
            BY <5>1 DEF IndexConsistent, LiveOrdersAreQueued, List
          <6> QED
            BY <6>1, <4>3
        <5> QED
          BY <5>1
      <4>7. Before(s, level_it, orders_lookup[id].price)
        BY <4>1, <4>6, PriceOfLive DEF SweepPosition, IsBest
      <4> HIDE DEF b
      <4> QED
        BY <4>5, <4>7
    <3> QED
      BY <3>1, <3>2
  <2> QED
    BY <1>5, <2>1, <2>2, <2>3, <2>4 DEF SweepStep, Sweep
<1>6. CASE RestStep \/ DiscardStep \/ DryRunStep
  BY <1>1, <1>6 DEF RestStep, DiscardStep, DryRunStep, Rest, Discard, DryRun, Return
<1>7. CASE UNCHANGED vars
  BY <1>7 DEF vars, SweepIsComplete, Live, Blocked, SelfTrade, WithinLimit
<1> QED
  BY <1>2, <1>3, <1>4, <1>5, <1>6, <1>7, Steps

(* The live order is what it was, or smaller. *)
SameOrSmaller(id) ==
  \E qty \in 1 .. orders_lookup[id].remaining_quantity :
    orders_lookup'[id] = [orders_lookup[id] EXCEPT !.remaining_quantity = qty]

OnlyShrinks ==
  \A id \in OrderIds : orders_lookup'[id] # NoOrder => Live(id) /\ SameOrSmaller(id)

(* An order that does not change is the same or smaller. *)
LEMMA SameIsSame ==
  ASSUME TypeOK, NEW id \in OrderIds, Live(id), orders_lookup'[id] = orders_lookup[id]
  PROVE  SameOrSmaller(id)
<1>1. orders_lookup[id] \in Order /\ orders_lookup[id].remaining_quantity \in Nat \ {0}
  BY LiveOrder
<1>2. orders_lookup[id].remaining_quantity \in 1 .. orders_lookup[id].remaining_quantity
  BY <1>1
<1>3. orders_lookup[id] = [orders_lookup[id] EXCEPT !.remaining_quantity =
                             orders_lookup[id].remaining_quantity]
  BY <1>1 DEF Order
<1> QED
  BY <1>2, <1>3 DEF SameOrSmaller

(* Every step but a Rest only takes orders out of the book or makes them     *)
(* smaller.                                                                  *)
LEMMA OnlyRestAdds ==
  ASSUME TypeOK, IndexConsistent, SweepPosition, [Next]_vars, ~ RestStep
  PROVE  OnlyShrinks
<1>1. ASSUME UNCHANGED orders_lookup
      PROVE  OnlyShrinks
  BY <1>1, SameIsSame DEF OnlyShrinks, Live
<1>2. ASSUME NEW id \in OrderIds, orders_lookup' = [orders_lookup EXCEPT ![id] = NoOrder]
      PROVE  OnlyShrinks
  <2>1. ASSUME NEW a \in OrderIds, orders_lookup'[a] # NoOrder
        PROVE  Live(a) /\ SameOrSmaller(a)
    <3>1. orders_lookup'[a] = orders_lookup[a]
      BY <1>2, <2>1 DEF TypeOK
    <3>2. Live(a)
      BY <2>1, <3>1 DEF Live
    <3> QED
      BY <3>1, <3>2, SameIsSame
  <2> QED
    BY <2>1 DEF OnlyShrinks
<1>3. ASSUME NEW id \in OrderIds, Live(id), NEW qty \in Nat \ {0},
             qty <= orders_lookup[id].remaining_quantity,
             orders_lookup' = [orders_lookup EXCEPT ![id].remaining_quantity = qty]
      PROVE  OnlyShrinks
  <2>1. ASSUME NEW a \in OrderIds, orders_lookup'[a] # NoOrder, a # id
        PROVE  Live(a) /\ SameOrSmaller(a)
    <3>1. orders_lookup'[a] = orders_lookup[a]
      BY <1>3, <2>1 DEF TypeOK
    <3>2. Live(a)
      BY <2>1, <3>1 DEF Live
    <3> QED
      BY <3>1, <3>2, SameIsSame
  <2>2. orders_lookup'[id] = [orders_lookup[id] EXCEPT !.remaining_quantity = qty]
    BY <1>3 DEF TypeOK
  <2>3. qty \in 1 .. orders_lookup[id].remaining_quantity
    BY <1>3, LiveOrder
  <2>4. SameOrSmaller(id)
    BY <2>2, <2>3 DEF SameOrSmaller
  <2> QED
    BY <1>3, <2>1, <2>4 DEF OnlyShrinks
<1>4. CASE StartCall
  <2>1. PICK id \in OrderIds, side \in Side, type \in OrderType, price \in Prices, qty \in Int :
          Begin(id, side, type, price, qty)
    BY <1>4 DEF StartCall
  <2>2. \/ orders_lookup' = [orders_lookup EXCEPT ![id] = NoOrder]
        \/ UNCHANGED orders_lookup
    BY <2>1 DEF Begin, CancelResting, book
  <2> QED
    BY <2>2, <1>1, <1>2
<1>5. ASSUME NEW id \in OrderIds, cancel_order(id)
      PROVE  OnlyShrinks
  BY <1>2, <1>5 DEF cancel_order, CancelResting
<1>6. ASSUME NEW id \in OrderIds, NEW qty \in Nat \ {0}, Reduce(id, qty)
      PROVE  OnlyShrinks
  <2>1. qty <= orders_lookup[id].remaining_quantity /\ Live(id)
    BY <1>6, LiveOrder DEF Reduce
  <2>2. orders_lookup' = [orders_lookup EXCEPT ![id].remaining_quantity = qty]
    BY <1>6 DEF Reduce
  <2> QED
    BY <1>3, <2>1, <2>2
<1>7. CASE SweepStep
  <2>1. CASE EnterLevel \/ StopSweep \/ SkipBlocked \/ LeaveLevel
    <3>1. UNCHANGED orders_lookup
      BY <2>1 DEF EnterLevel, StopSweep, SkipBlocked, LeaveLevel
    <3> QED
      BY <3>1, <1>1
  <2>2. CASE MatchMaker
    <3>1. taker # NoOrder /\ InnerLoop
      BY <1>7, <2>2 DEF SweepStep, MatchMaker
    <3> DEFINE left == orders_lookup[Maker].remaining_quantity - FillQuantity
    <3>2. /\ Maker \in OrderIds /\ Live(Maker)
          /\ left <= orders_lookup[Maker].remaining_quantity
      BY <3>1, MakerFacts
    <3>3. \/ orders_lookup' = [orders_lookup EXCEPT ![Maker] = NoOrder]
          \/ /\ left \in Nat \ {0}
             /\ orders_lookup' = [orders_lookup EXCEPT ![Maker].remaining_quantity = left]
      BY <2>2, <3>1, FillEffect
    <3> HIDE DEF left
    <3>4. CASE orders_lookup' = [orders_lookup EXCEPT ![Maker] = NoOrder]
      BY <1>2, <3>2, <3>4
    <3>5. CASE /\ left \in Nat \ {0}
               /\ orders_lookup' = [orders_lookup EXCEPT ![Maker].remaining_quantity = left]
      BY <1>3, <3>2, <3>5
    <3> QED
      BY <3>3, <3>4, <3>5
  <2> QED
    BY <1>7, <2>1, <2>2 DEF SweepStep, Sweep
<1>8. CASE DiscardStep \/ DryRunStep \/ UNCHANGED vars
  <2>1. UNCHANGED orders_lookup
    BY <1>8 DEF DiscardStep, Discard, DryRunStep, DryRun, book, vars
  <2> QED
    BY <2>1, <1>1
<1> QED
  BY <1>4, <1>5, <1>6, <1>7, <1>8, Steps

(* No step makes two orders of users cross. *)
LEMMA CrossStep ==
  ASSUME TypeOK, IndexConsistent, CallConsistent, SweepPosition, SweepIsComplete,
         UsersNeverCross, [Next]_vars
  PROVE  UsersNeverCross'
<1>1. CASE ~ RestStep \/ UNCHANGED orders_lookup
  <2>1. ASSUME NEW a \in OrderIds, orders_lookup'[a] # NoOrder
        PROVE  /\ Live(a) /\ orders_lookup'[a].side = orders_lookup[a].side
               /\ orders_lookup'[a].price = orders_lookup[a].price
    <3>1. CASE UNCHANGED orders_lookup
      BY <2>1, <3>1 DEF Live
    <3>2. CASE ~ RestStep
      <4>1. Live(a) /\ SameOrSmaller(a)
        BY <2>1, <3>2, OnlyRestAdds DEF OnlyShrinks
      <4>2. orders_lookup[a] \in Order /\ orders_lookup[a].remaining_quantity \in Nat
        BY <4>1, LiveOrder
      <4>3. PICK qty \in 1 .. orders_lookup[a].remaining_quantity :
              orders_lookup'[a] = [orders_lookup[a] EXCEPT !.remaining_quantity = qty]
        BY <4>1 DEF SameOrSmaller
      <4>4. qty \in Nat \ {0}
        BY <4>2
      <4> QED
        BY <4>1, <4>2, <4>3, <4>4, ResizedOrder
    <3> QED
      BY <1>1, <3>1, <3>2
  <2> QED
    BY <2>1, IdAssumption DEF UsersNeverCross, Live
<1>2. CASE RestStep /\ ~ UNCHANGED orders_lookup
  <2> DEFINE t == taker.order_id
             o == [side |-> taker.side, order_type |-> taker.order_type,
                   price |-> taker.price,
                   remaining_quantity |-> taker.remaining_quantity]
  <2>1. /\ taker # NoOrder /\ pc = "swept" /\ taker.remaining_quantity > 0
        /\ taker.order_type # MARKET
        /\ orders_lookup' = [orders_lookup EXCEPT ![t] = o]
    BY <1>2 DEF RestStep, Rest, add_resting_order, book, LIMIT, MARKET, FOK
  <2>2. t \in OrderIds /\ taker.side \in Side /\ taker.price \in Prices /\ taker.price \in Int
    BY <2>1, TakerType, NumberAssumption
  <2>3. /\ orders_lookup'[t].side = taker.side /\ orders_lookup'[t].price = taker.price
        /\ \A a \in OrderIds : a # t => orders_lookup'[a] = orders_lookup[a]
    BY <2>1, <2>2 DEF TypeOK
  <2> HIDE DEF t, o
  <2>4. ASSUME t \notin BinanceIds, NEW b \in OrderIds, Live(b),
               orders_lookup[b].side = Opposite(taker.side)
        PROVE  ~ Accepts(taker.side, taker.price, orders_lookup[b].price)
    <3>1. \A c \in OrderIds : ~ Blocked(c)
      BY <2>4 DEF Blocked, SelfTrade, t
    <3>2. ~ WithinLimit(orders_lookup[b].price)
      BY <2>1, <2>4, <3>1 DEF SweepIsComplete
    <3> QED
      BY <3>2 DEF WithinLimit
  <2> SUFFICES ASSUME NEW a \in OrderIds \ BinanceIds, NEW b \in OrderIds \ BinanceIds,
                      orders_lookup'[a] # NoOrder, orders_lookup'[b] # NoOrder,
                      orders_lookup'[a].side = BUY, orders_lookup'[b].side = SELL
               PROVE  orders_lookup'[a].price < orders_lookup'[b].price
    BY DEF UsersNeverCross, Live
  <2>5. CASE a = t
    <3>1. b # t /\ Live(b) /\ orders_lookup'[b] = orders_lookup[b]
      BY <2>3, <2>5 DEF Live, BUY, SELL
    <3>2. orders_lookup[b].price \in Int
      BY <3>1, LiveOrder, NumberAssumption
    <3>3. taker.side = BUY /\ Opposite(taker.side) = SELL
      BY <2>3, <2>5 DEF Opposite
    <3>4. ~ Accepts(taker.side, taker.price, orders_lookup[b].price)
      BY <2>4, <2>5, <3>1, <3>3
    <3> QED
      BY <2>2, <2>3, <2>5, <3>1, <3>2, <3>3, <3>4 DEF Accepts
  <2>6. CASE b = t
    <3>1. a # t /\ Live(a) /\ orders_lookup'[a] = orders_lookup[a]
      BY <2>3, <2>6 DEF Live, BUY, SELL
    <3>2. orders_lookup[a].price \in Int
      BY <3>1, LiveOrder, NumberAssumption
    <3>3. taker.side = SELL /\ Opposite(taker.side) = BUY
      BY <2>3, <2>6 DEF Opposite, BUY, SELL
    <3>4. ~ Accepts(taker.side, taker.price, orders_lookup[a].price)
      BY <2>4, <2>6, <3>1, <3>3
    <3> QED
      BY <2>2, <2>3, <2>6, <3>1, <3>2, <3>3, <3>4 DEF Accepts, BUY, SELL
  <2>7. CASE a # t /\ b # t
    BY <2>3, <2>7 DEF UsersNeverCross, Live
  <2> QED
    BY <2>5, <2>6, <2>7
<1> QED
  BY <1>1, <1>2

-----------------------------------------------------------------------------
(* The steps of the action properties *)

(* A queued order stands where list_it says. *)
LEMMA ListItIs ==
  ASSUME TypeOK, IndexConsistent, NEW s \in Side, NEW p \in Prices,
         NEW i \in DOMAIN orders[s][p]
  PROVE  list_it(orders[s][p][i]) = i
<1> DEFINE id == orders[s][p][i]
<1>1. Live(id) /\ orders_lookup[id].side = s /\ orders_lookup[id].price = p
  BY DEF IndexConsistent, QueuedOrdersAreLive
<1>2. id \in OrderIds
  BY DEF TypeOK
<1>3. list_it(id) \in DOMAIN orders[s][p] /\ orders[s][p][list_it(id)] = id
  BY <1>1, <1>2, ListIt
<1> QED
  BY <1>3 DEF IndexConsistent, QueuedOnce

(* A step that trades takes the first order it may. *)
LEMMA PriorityStep ==
  ASSUME TypeOK, IndexConsistent, SweepPosition, [Next]_vars
  PROVE  TakesTheFirst
<1>1. CASE trades' = trades \/ trades' = <<>>
  <2>1. DOMAIN trades' \ DOMAIN trades = {}
    BY <1>1
  <2> QED
    BY <2>1 DEF TakesTheFirst
<1>2. CASE SweepStep /\ MatchMaker
  <2> DEFINE s == Opposite(taker.side)
             fill == [maker_order_id |-> Maker, taker_order_id |-> taker.order_id,
                      aggressor_side |-> taker.side,
                      price |-> orders_lookup[Maker].price, quantity |-> FillQuantity]
  <2>1. /\ taker # NoOrder /\ InnerLoop /\ pc = "inner" /\ ~ Blocked(Maker)
        /\ taker.remaining_quantity > 0
    BY <1>2 DEF SweepStep, MatchMaker, InnerLoop, Maker
  <2>2. trades' = Append(trades, fill) /\ trades \in Seq(Trade)
    BY <1>2, <2>1, FillEffect DEF TypeOK
  <2>3. DOMAIN trades' \ DOMAIN trades = {Len(trades) + 1} /\ trades'[Len(trades) + 1] = fill
    BY <2>2
  <2>4. /\ s \in Side /\ level_it \in Prices /\ List = orders[s][level_it]
        /\ DOMAIN List = 1 .. Len(List) /\ Len(List) \in Nat
        /\ order_it \in 1 .. Len(List)
        /\ Maker \in OrderIds /\ Live(Maker)
        /\ orders_lookup[Maker].side = s /\ orders_lookup[Maker].price = level_it
    BY <2>1, TakerType, ListType, MakerFacts DEF List
  <2>5. WithinLimit(level_it)
    BY <2>1 DEF SweepPosition
  <2>6. ASSUME NEW id \in OrderIds \ {Maker}, Live(id), ~ Blocked(id),
               orders_lookup[id].side = s
        PROVE  Ahead(Maker, id)
    <3>1. orders_lookup[id].price \in levels[s]
      BY <2>6, PriceOfLive
    <3>2. orders_lookup[id].price = level_it \/ Before(s, level_it, orders_lookup[id].price)
      BY <2>1, <3>1 DEF SweepPosition, IsBest
    <3>3. CASE Before(s, level_it, orders_lookup[id].price)
      BY <2>4, <2>6, <3>3 DEF Ahead
    <3>4. CASE orders_lookup[id].price = level_it
      <4>1. PICK i \in DOMAIN List : List[i] = id
        BY <2>4, <2>6, <3>4 DEF IndexConsistent, LiveOrdersAreQueued
      <4>2. ~ (i < order_it)
        BY <2>1, <2>6, <4>1 DEF SweepPosition
      <4>3. i # order_it
        BY <4>1 DEF Maker
      <4>4. list_it(id) = i /\ list_it(Maker) = order_it
        BY <2>4, <4>1, ListItIs DEF Maker
      <4>5. list_it(Maker) < list_it(id)
        BY <2>4, <4>1, <4>2, <4>3, <4>4
      <4> QED
        BY <2>4, <2>6, <3>4, <4>5 DEF Ahead
    <3> QED
      BY <3>2, <3>3, <3>4
  <2> QED
    BY <2>1, <2>3, <2>4, <2>5, <2>6 DEF TakesTheFirst
<1>3. \/ trades' = trades \/ trades' = <<>>
      \/ SweepStep /\ MatchMaker
  <2>1. CASE StartCall
    BY <2>1 DEF StartCall, Begin
  <2>2. ASSUME NEW id \in OrderIds, cancel_order(id)
        PROVE  trades' = trades
    BY <2>2 DEF cancel_order
  <2>3. ASSUME NEW id \in OrderIds, NEW qty \in Nat \ {0}, Reduce(id, qty)
        PROVE  trades' = trades
    BY <2>3 DEF Reduce
  <2>4. CASE SweepStep /\ ~ MatchMaker
    BY <2>4 DEF SweepStep, Sweep, EnterLevel, StopSweep, SkipBlocked, LeaveLevel
  <2>5. CASE RestStep \/ DiscardStep \/ DryRunStep \/ UNCHANGED vars
    BY <2>5 DEF RestStep, DiscardStep, DryRunStep, Rest, Discard, DryRun, Return, vars
  <2> QED
    BY <2>1, <2>2, <2>3, <2>4, <2>5, Steps
<1> QED
  BY <1>1, <1>2, <1>3

(* A step makes no resting order larger or different. *)
LEMMA ShrinkStep ==
  ASSUME TypeOK, IndexConsistent, CallConsistent, SweepPosition, [Next]_vars
  PROVE  Shrinks
<1>1. CASE ~ RestStep
  BY <1>1, OnlyRestAdds DEF OnlyShrinks, SameOrSmaller, Shrinks
<1>2. CASE RestStep
  <2>1. ASSUME NEW a \in OrderIds, Live(a)
        PROVE  orders_lookup'[a] = orders_lookup[a]
    <3>1. taker # NoOrder /\ a # taker.order_id
      BY <1>2, <2>1 DEF RestStep, CallConsistent
    <3>2. UNCHANGED orders_lookup
          \/ \E o : orders_lookup' = [orders_lookup EXCEPT ![taker.order_id] = o]
      BY <1>2 DEF RestStep, Rest, add_resting_order, book
    <3> QED
      BY <3>1, <3>2 DEF TypeOK
  <2> QED
    BY <2>1, SameIsSame DEF Shrinks, SameOrSmaller
<1> QED
  BY <1>1, <1>2

(* Every step leaves a list as it is, erases one position, appends an order  *)
(* that was not in the book, or erases an empty level.                       *)
ListChanges(s, p) ==
  \/ orders'[s][p] = orders[s][p]
  \/ \E i \in 1 .. Len(orders[s][p]) : orders'[s][p] = RemoveAt(orders[s][p], i)
  \/ \E id \in OrderIds : ~ Live(id) /\ orders'[s][p] = Append(orders[s][p], id)
  \/ orders'[s][p] = <<>>

(* Taking an order out changes one list, by one removal. *)
LEMMA CancelRestingList ==
  ASSUME TypeOK, IndexConsistent, NEW id \in OrderIds, CancelResting(id),
         NEW s \in Side, NEW p \in Prices
  PROVE  ListChanges(s, p)
<1>1. Live(id)
  BY DEF CancelResting
<1> DEFINE t == orders_lookup[id].side
           q == orders_lookup[id].price
<1>2. t \in Side /\ q \in Prices /\ list_it(id) \in 1 .. Len(orders[t][q])
  BY <1>1, LiveOrder, ListIt
<1>3. orders' = [orders EXCEPT ![t][q] = RemoveAt(orders[t][q], list_it(id))]
  BY DEF CancelResting, remove_order_from_book, SetLevel
<1> HIDE DEF t, q
<1>4. CASE s = t /\ p = q
  <2>1. orders'[s][p] = RemoveAt(orders[s][p], list_it(id))
    BY <1>2, <1>3, <1>4 DEF TypeOK
  <2> QED
    BY <1>2, <1>4, <2>1 DEF ListChanges
<1>5. CASE s # t \/ p # q
  <2>1. orders'[s][p] = orders[s][p]
    BY <1>2, <1>3, <1>5 DEF TypeOK
  <2> QED
    BY <2>1 DEF ListChanges
<1> QED
  BY <1>4, <1>5

(* A step changes a list by one removal or one order at the end. *)
LEMMA ListStep ==
  ASSUME TypeOK, IndexConsistent, CallConsistent, SweepPosition, [Next]_vars,
         NEW s \in Side, NEW p \in Prices
  PROVE  ListChanges(s, p)
<1>1. ASSUME UNCHANGED orders
      PROVE  ListChanges(s, p)
  BY <1>1 DEF ListChanges
<1>2. CASE StartCall
  <2>1. PICK id \in OrderIds, side \in Side, type \in OrderType, price \in Prices, qty \in Int :
          Begin(id, side, type, price, qty)
    BY <1>2 DEF StartCall
  <2>2. CASE CancelResting(id)
    BY <2>2, CancelRestingList
  <2>3. CASE UNCHANGED book
    BY <2>3, <1>1 DEF book
  <2> QED
    BY <2>1, <2>2, <2>3 DEF Begin
<1>3. ASSUME NEW id \in OrderIds, cancel_order(id)
      PROVE  ListChanges(s, p)
  BY <1>3, CancelRestingList DEF cancel_order
<1>4. ASSUME NEW id \in OrderIds, NEW qty \in Nat \ {0}, Reduce(id, qty)
      PROVE  ListChanges(s, p)
  BY <1>1, <1>4 DEF Reduce
<1>5. CASE SweepStep
  <2> DEFINE t == Opposite(taker.side)
  <2>1. CASE EnterLevel \/ StopSweep \/ SkipBlocked
    BY <1>1, <2>1 DEF EnterLevel, StopSweep, SkipBlocked
  <2>2. CASE MatchMaker
    <3>1. taker # NoOrder /\ InnerLoop /\ pc = "inner"
      BY <1>5, <2>2 DEF SweepStep, MatchMaker, InnerLoop
    <3>2. /\ t \in Side /\ level_it \in Prices
          /\ order_it \in 1 .. Len(orders[t][level_it])
      BY <3>1, TakerType, ListType, MakerFacts DEF List
    <3>3. \/ orders' = [orders EXCEPT ![t][level_it] = RemoveAt(@, order_it)]
          \/ UNCHANGED orders
      BY <2>2, <3>1, FillEffect
    <3> HIDE DEF t
    <3>4. CASE orders' = [orders EXCEPT ![t][level_it] = RemoveAt(@, order_it)]
      <4>1. CASE s = t /\ p = level_it
        <5>1. orders'[s][p] = RemoveAt(orders[s][p], order_it)
          BY <3>2, <3>4, <4>1 DEF TypeOK
        <5> QED
          BY <3>2, <4>1, <5>1 DEF ListChanges
      <4>2. CASE s # t \/ p # level_it
        <5>1. orders'[s][p] = orders[s][p]
          BY <3>2, <3>4, <4>2 DEF TypeOK
        <5> QED
          BY <5>1 DEF ListChanges
      <4> QED
        BY <4>1, <4>2
    <3> QED
      BY <1>1, <3>3, <3>4
  <2>3. CASE LeaveLevel
    <3>1. UNCHANGED orders \/ SetLevel(t, level_it, <<>>, 0)
      BY <2>3 DEF LeaveLevel
    <3>2. CASE SetLevel(t, level_it, <<>>, 0)
      BY <3>2 DEF SetLevel, ListChanges, TypeOK
    <3> QED
      BY <1>1, <3>1, <3>2
  <2> QED
    BY <1>5, <2>1, <2>2, <2>3 DEF SweepStep, Sweep
<1>6. CASE RestStep
  <2>1. taker # NoOrder /\ ~ Live(taker.order_id) /\ taker.order_id \in OrderIds
        /\ taker.side \in Side /\ taker.price \in Prices
    BY <1>6, TakerType DEF RestStep, CallConsistent
  <2>2. \/ UNCHANGED orders
        \/ orders' = [orders EXCEPT ![taker.side][taker.price] =
                        Append(orders[taker.side][taker.price], taker.order_id)]
    BY <1>6 DEF RestStep, Rest, book, add_resting_order, SetLevel
  <2>3. CASE orders' = [orders EXCEPT ![taker.side][taker.price] =
                          Append(orders[taker.side][taker.price], taker.order_id)]
    <3>1. CASE s = taker.side /\ p = taker.price
      <4>1. orders'[s][p] = Append(orders[s][p], taker.order_id)
        BY <2>1, <2>3, <3>1 DEF TypeOK
      <4> QED
        BY <2>1, <4>1 DEF ListChanges
    <3>2. CASE s # taker.side \/ p # taker.price
      <4>1. orders'[s][p] = orders[s][p]
        BY <2>1, <2>3, <3>2 DEF TypeOK
      <4> QED
        BY <4>1 DEF ListChanges
    <3> QED
      BY <3>1, <3>2
  <2> QED
    BY <1>1, <2>2, <2>3
<1>7. CASE DiscardStep \/ DryRunStep \/ UNCHANGED vars
  BY <1>1, <1>7 DEF DiscardStep, Discard, DryRunStep, DryRun, book, vars
<1> QED
  BY <1>2, <1>3, <1>4, <1>5, <1>6, <1>7, Steps

(* No step lets an order overtake another. *)
LEMMA FifoStep ==
  ASSUME TypeOK, IndexConsistent, CallConsistent, SweepPosition, [Next]_vars
  PROVE  NobodyOvertakes
<1> SUFFICES ASSUME NEW s \in Side, NEW p \in Prices,
                    NEW i \in DOMAIN orders'[s][p], NEW j \in DOMAIN orders'[s][p],
                    i < j, orders'[s][p][j] \in ToSet(orders[s][p])
             PROVE  \E k, l \in DOMAIN orders[s][p] :
                      /\ k < l
                      /\ orders[s][p][k] = orders'[s][p][i]
                      /\ orders[s][p][l] = orders'[s][p][j]
  BY DEF NobodyOvertakes, ToSet
<1> DEFINE list == orders[s][p]
           next == orders'[s][p]
<1>0. i \in DOMAIN next /\ j \in DOMAIN next
  OBVIOUS
<1>1. list \in Seq(OrderIds) /\ DOMAIN list = 1 .. Len(list) /\ Len(list) \in Nat
  BY DEF TypeOK
<1>2. ListChanges(s, p)
  BY ListStep
<1>3. CASE next = list
  BY <1>3
<1>4. CASE \E m \in 1 .. Len(list) : next = RemoveAt(list, m)
  <2> HIDE DEF list, next
  <2>1. PICK m \in 1 .. Len(list) : next = RemoveAt(list, m)
    BY <1>4, Zenon
  <2>2. /\ next \in Seq(OrderIds) /\ Len(next) = Len(list) - 1
        /\ \A k \in 1 .. Len(list) - 1 : next[k] = IF k < m THEN list[k] ELSE list[k + 1]
    BY <1>1, <2>1, RemoveAtProperties
  <2>3. i \in 1 .. Len(list) - 1 /\ j \in 1 .. Len(list) - 1
    BY <1>0, <2>2, <1>1
  <2> DEFINE k == IF i < m THEN i ELSE i + 1
             l == IF j < m THEN j ELSE j + 1
  <2>4. k \in DOMAIN list /\ l \in DOMAIN list /\ k < l
    BY <1>1, <2>3
  <2>5. list[k] = next[i] /\ list[l] = next[j]
    BY <2>2, <2>3
  <2> HIDE DEF k, l
  <2>6. \E x, y \in DOMAIN list : x < y /\ list[x] = next[i] /\ list[y] = next[j]
    BY <2>4, <2>5
  <2> QED
    BY <2>6 DEF list, next
<1>5. CASE \E id \in OrderIds : ~ Live(id) /\ next = Append(list, id)
  <2>1. PICK id \in OrderIds : ~ Live(id) /\ next = Append(list, id)
    BY <1>5
  <2>2. list[Len(list) + 1] = list[Len(list) + 1] /\ next[Len(list) + 1] = id
        /\ DOMAIN next = 1 .. Len(list) + 1 /\ \A k \in DOMAIN list : next[k] = list[k]
    BY <1>1, <2>1, AppendElements
  <2>3. next[j] # id
    BY <2>1 DEF ToSet, IndexConsistent, QueuedOrdersAreLive
  <2>4. i \in 1 .. Len(list) + 1 /\ j \in 1 .. Len(list) + 1 /\ j # Len(list) + 1
    BY <2>2, <2>3
  <2>5. i \in DOMAIN list /\ j \in DOMAIN list
    BY <1>1, <2>4
  <2> QED
    BY <2>2, <2>5
<1>6. CASE next = <<>>
  BY <1>6
<1> QED
  BY <1>2, <1>3, <1>4, <1>5, <1>6 DEF ListChanges

-----------------------------------------------------------------------------
(* What a list of orders wants *)

(* The elements of a sequence are finitely many. *)
LEMMA FiniteToSet ==
  ASSUME NEW S, NEW s \in Seq(S)
  PROVE  IsFiniteSet(ToSet(s))
<1>1. s \in [1 .. Len(s) -> ToSet(s)] /\ \A e \in ToSet(s) : \E i \in 1 .. Len(s) : s[i] = e
  BY DEF ToSet
<1>2. IsFiniteSet(1 .. Len(s))
  BY FS_Interval
<1>3. s \in Surjection(1 .. Len(s), ToSet(s))
  BY <1>1 DEF Surjection
<1> QED
  BY <1>2, <1>3, FS_Surjection

(* What the orders of a list still want, by a lookup. *)
Total(look, list) == SumFunction([id \in ToSet(list) |-> look[id].remaining_quantity])

(* It is the sum over any larger set's quantities. *)
LEMMA TotalIs ==
  ASSUME NEW look, NEW S, NEW list \in Seq(S), NEW w,
         \A id \in ToSet(list) : w[id] = look[id].remaining_quantity
  PROVE  Total(look, list) = Sum(w, ToSet(list))
<1> DEFINE v == [id \in ToSet(list) |-> look[id].remaining_quantity]
<1>1. IsFiniteSet(ToSet(list))
  BY FiniteToSet
<1>2. Total(look, list) = Sum(v, ToSet(list))
  BY DEF Total, SumFunction, Sum
<1>3. \A id \in ToSet(list) : w[id] = v[id]
  OBVIOUS
<1> HIDE DEF v
<1> QED
  BY <1>1, <1>2, <1>3, SumEqual

(* Nobody wants anything. *)
LEMMA TotalOfNone ==
  ASSUME NEW look
  PROVE  Total(look, <<>>) = 0
<1>1. ToSet(<<>>) = {}
  BY DEF ToSet
<1>2. Total(look, <<>>) = Sum([id \in {} |-> look[id].remaining_quantity], {})
  BY <1>1 DEF Total, SumFunction, Sum
<1> QED
  BY <1>2, SumEmpty

(* The total of an unchanged list of unchanged orders is unchanged. *)
LEMMA TotalSame ==
  ASSUME NEW look, NEW next, NEW S, NEW list \in Seq(S),
         \A id \in ToSet(list) : next[id].remaining_quantity = look[id].remaining_quantity
  PROVE  Total(next, list) = Total(look, list)
<1> DEFINE w == [id \in ToSet(list) |-> look[id].remaining_quantity]
<1>1. Total(look, list) = Sum(w, ToSet(list)) /\ Total(next, list) = Sum(w, ToSet(list))
  <2>1. \A id \in ToSet(list) : w[id] = look[id].remaining_quantity
    OBVIOUS
  <2>2. \A id \in ToSet(list) : w[id] = next[id].remaining_quantity
    OBVIOUS
  <2> HIDE DEF w
  <2> QED BY <2>1, <2>2, TotalIs
<1> QED
  BY <1>1

(* A list's total falls by what an order that leaves it still wanted. *)
LEMMA TotalErase ==
  ASSUME NEW look, NEW next, NEW S, NEW list \in Seq(S), NEW i \in 1 .. Len(list),
         \A j, k \in DOMAIN list : list[j] = list[k] => j = k,
         \A id \in ToSet(list) : look[id].remaining_quantity \in Int,
         \A id \in ToSet(list) : id # list[i] =>
           next[id].remaining_quantity = look[id].remaining_quantity
  PROVE  /\ Total(next, RemoveAt(list, i)) = Total(look, list) - look[list[i]].remaining_quantity
         /\ Total(look, list) \in Int
<1> DEFINE w == [id \in ToSet(list) |-> look[id].remaining_quantity]
           rest == RemoveAt(list, i)
<1>1. rest \in Seq(S)
  BY RemoveAtProperties
<1>2. ToSet(rest) = ToSet(list) \ {list[i]} /\ list[i] \in ToSet(list)
  <2>1. /\ \A k \in DOMAIN rest : \E j \in DOMAIN list : j # i /\ rest[k] = list[j]
        /\ \A k \in DOMAIN rest : rest[k] # list[i]
        /\ \A j \in DOMAIN list : j # i => \E k \in DOMAIN rest : rest[k] = list[j]
    BY RemoveAtElements
  <2>2. i \in DOMAIN list
    OBVIOUS
  <2> HIDE DEF rest
  <2> QED BY <2>1, <2>2 DEF ToSet
<1> HIDE DEF rest
<1>3. Total(look, list) = Sum(w, ToSet(list))
  <2>1. \A id \in ToSet(list) : w[id] = look[id].remaining_quantity
    OBVIOUS
  <2> HIDE DEF w
  <2> QED BY <2>1, TotalIs
<1>4. Total(next, rest) = Sum(w, ToSet(rest))
  <2>1. \A id \in ToSet(rest) : w[id] = next[id].remaining_quantity
    BY <1>2
  <2> HIDE DEF w
  <2> QED BY <1>1, <2>1, TotalIs
<1>5. IsFiniteSet(ToSet(list)) /\ \A id \in ToSet(list) : w[id] \in Int
  BY FiniteToSet
<1>6. Sum(w, ToSet(list)) = w[list[i]] + Sum(w, ToSet(list) \ {list[i]})
  <2> HIDE DEF w
  <2> QED BY <1>2, <1>5, SumSplit
<1>7. IsFiniteSet(ToSet(rest)) /\ \A id \in ToSet(rest) : w[id] \in Int
  BY <1>2, <1>5, FS_RemoveElement
<1>8. Sum(w, ToSet(rest)) \in Int
  <2> HIDE DEF w
  <2> QED BY <1>7, SumType
<1>9. w[list[i]] = look[list[i]].remaining_quantity /\ w[list[i]] \in Int
  BY <1>2
<1> HIDE DEF w
<1> QED
  BY <1>2, <1>3, <1>4, <1>6, <1>8, <1>9 DEF rest

(* It rises by what a newcomer wants. *)
LEMMA TotalAppend ==
  ASSUME NEW look, NEW next, NEW S, NEW list \in Seq(S), NEW e \in S, e \notin ToSet(list),
         \A id \in ToSet(list) : look[id].remaining_quantity \in Int,
         next[e].remaining_quantity \in Int,
         \A id \in ToSet(list) : next[id].remaining_quantity = look[id].remaining_quantity
  PROVE  Total(next, Append(list, e)) = Total(look, list) + next[e].remaining_quantity
<1> DEFINE w == [id \in ToSet(list) \cup {e} |-> next[id].remaining_quantity]
           more == Append(list, e)
<1>1. more \in Seq(S)
  OBVIOUS
<1>2. ToSet(more) = ToSet(list) \cup {e}
  BY AppendElements DEF ToSet
<1> HIDE DEF more
<1>3. Total(look, list) = Sum(w, ToSet(list))
  <2>1. \A id \in ToSet(list) : w[id] = look[id].remaining_quantity
    OBVIOUS
  <2> HIDE DEF w
  <2> QED BY <2>1, TotalIs
<1>4. Total(next, more) = Sum(w, ToSet(more))
  <2>1. \A id \in ToSet(more) : w[id] = next[id].remaining_quantity
    BY <1>2
  <2> HIDE DEF w
  <2> QED BY <1>1, <2>1, TotalIs
<1>5. IsFiniteSet(ToSet(list)) /\ \A id \in ToSet(list) \cup {e} : w[id] \in Int
  BY FiniteToSet
<1>6. w[e] = next[e].remaining_quantity
  OBVIOUS
<1> HIDE DEF w
<1>7. Sum(w, ToSet(list) \cup {e}) = w[e] + Sum(w, ToSet(list))
  BY <1>5, SumAdd
<1>8. Sum(w, ToSet(list)) \in Int /\ w[e] \in Int
  BY <1>5, SumType
<1> QED
  BY <1>2, <1>3, <1>4, <1>6, <1>7, <1>8 DEF more

(* It changes as an order changes that stays. *)
LEMMA TotalResize ==
  ASSUME NEW look, NEW next, NEW S, NEW list \in Seq(S), NEW e \in ToSet(list),
         \A id \in ToSet(list) : look[id].remaining_quantity \in Int,
         next[e].remaining_quantity \in Int,
         \A id \in ToSet(list) : id # e =>
           next[id].remaining_quantity = look[id].remaining_quantity
  PROVE  Total(next, list) =
           Total(look, list) + next[e].remaining_quantity - look[e].remaining_quantity
<1> DEFINE w == [id \in ToSet(list) |-> look[id].remaining_quantity]
           v == [id \in ToSet(list) |-> next[id].remaining_quantity]
<1>1. /\ \A id \in ToSet(list) : w[id] = look[id].remaining_quantity /\ w[id] \in Int
      /\ \A id \in ToSet(list) : v[id] = next[id].remaining_quantity /\ v[id] \in Int
      /\ \A id \in ToSet(list) : id # e => v[id] = w[id]
  OBVIOUS
<1> HIDE DEF w, v
<1>2. Total(look, list) = Sum(w, ToSet(list)) /\ Total(next, list) = Sum(v, ToSet(list))
  BY <1>1, TotalIs
<1>3. Sum(v, ToSet(list)) = Sum(w, ToSet(list)) + v[e] - w[e]
  BY <1>1, FiniteToSet, SumChange
<1> QED
  BY <1>1, <1>2, <1>3

-----------------------------------------------------------------------------
(* Totals *)

TotalAt(s, p) == total_quantity[s][p] = Total(orders_lookup, orders[s][p])

LEMMA TotalsAt == TotalsExact <=> \A s \in Side, p \in Prices : TotalAt(s, p)
BY DEF TotalsExact, TotalAt, Total, RemainingOf

LEMMA TotalsAtNext == TotalsExact' <=> \A s \in Side, p \in Prices : TotalAt(s, p)'
BY DEF TotalsExact, TotalAt, Total, RemainingOf

(* The orders of a list are live, at its side and price, and want something. *)
LEMMA ListedOrders ==
  ASSUME TypeOK, QueuedOrdersAreLive, NEW s \in Side, NEW p \in Prices
  PROVE  /\ orders[s][p] \in Seq(OrderIds)
         /\ \A id \in ToSet(orders[s][p]) :
              /\ id \in OrderIds /\ Live(id)
              /\ orders_lookup[id].side = s /\ orders_lookup[id].price = p
              /\ orders_lookup[id].remaining_quantity \in Int
<1>1. orders[s][p] \in Seq(OrderIds)
  BY DEF TypeOK
<1>2. ASSUME NEW id \in ToSet(orders[s][p])
      PROVE  /\ id \in OrderIds /\ Live(id)
             /\ orders_lookup[id].side = s /\ orders_lookup[id].price = p
  BY <1>1 DEF ToSet, QueuedOrdersAreLive
<1>3. ASSUME NEW id \in ToSet(orders[s][p])
      PROVE  orders_lookup[id].remaining_quantity \in Int
  BY <1>2, LiveOrder
<1> QED
  BY <1>1, <1>2, <1>3

(* A level's total stays exact when its list, its orders and its total stay. *)
LEMMA TotalUntouched ==
  ASSUME TypeOK, QueuedOrdersAreLive, NEW s \in Side, NEW p \in Prices, TotalAt(s, p),
         orders'[s][p] = orders[s][p], total_quantity'[s][p] = total_quantity[s][p],
         \A id \in OrderIds : Live(id) /\ orders_lookup[id].side = s /\ orders_lookup[id].price = p
           => orders_lookup'[id] = orders_lookup[id]
  PROVE  TotalAt(s, p)'
<1>1. /\ orders[s][p] \in Seq(OrderIds)
      /\ \A id \in ToSet(orders[s][p]) :
           orders_lookup'[id].remaining_quantity = orders_lookup[id].remaining_quantity
  BY ListedOrders
<1>2. Total(orders_lookup', orders[s][p]) = Total(orders_lookup, orders[s][p])
  BY <1>1, TotalSame
<1> QED
  BY <1>2 DEF TotalAt

(* Erasing an order from list and lookup, and its quantity from the total. *)
LEMMA EraseKeepsTotals ==
  ASSUME TypeOK, QueuedOrdersAreLive, QueuedOnce, TotalsExact,
         NEW s \in Side, NEW p \in Prices, NEW i \in 1 .. Len(orders[s][p]), NEW sum,
         orders' = [orders EXCEPT ![s][p] = RemoveAt(orders[s][p], i)],
         orders_lookup' = [orders_lookup EXCEPT ![orders[s][p][i]] = NoOrder],
         total_quantity' = [total_quantity EXCEPT ![s][p] = sum],
         \/ sum = total_quantity[s][p] - orders_lookup[orders[s][p][i]].remaining_quantity
         \/ sum = 0 /\ RemoveAt(orders[s][p], i) = <<>>
  PROVE  TotalsExact'
<1> DEFINE list == orders[s][p]
           id == list[i]
<1>1. list \in Seq(OrderIds) /\ id \in ToSet(list) /\ id \in OrderIds
      /\ orders_lookup[id].side = s /\ orders_lookup[id].price = p
  BY ListedOrders DEF ToSet
<1>2. CASE TRUE
  <2>1. /\ orders'[s][p] = RemoveAt(list, i)
        /\ total_quantity'[s][p] = sum
        /\ \A t \in Side, q \in Prices : t # s \/ q # p =>
             orders'[t][q] = orders[t][q] /\ total_quantity'[t][q] = total_quantity[t][q]
    BY DEF TypeOK
  <2>2. \A e \in OrderIds : e # id => orders_lookup'[e] = orders_lookup[e]
    BY DEF TypeOK
  <2>3. TotalAt(s, p)'
    <3>1. \A j, k \in DOMAIN list : list[j] = list[k] => j = k
      BY DEF QueuedOnce
    <3>2. \A e \in ToSet(list) : orders_lookup[e].remaining_quantity \in Int /\ e \in OrderIds
      BY ListedOrders
    <3>3. /\ Total(orders_lookup', RemoveAt(list, i)) =
               Total(orders_lookup, list) - orders_lookup[id].remaining_quantity
      <4>1. list \in Seq(OrderIds) /\ i \in 1 .. Len(list) /\ id = list[i]
        BY <1>1
      <4>2. /\ \A e \in ToSet(list) : orders_lookup[e].remaining_quantity \in Int
            /\ \A e \in ToSet(list) : e # id =>
                 orders_lookup'[e].remaining_quantity = orders_lookup[e].remaining_quantity
        BY <2>2, <3>2
      <4> HIDE DEF list, id
      <4> QED
        BY ONLY <3>1, <4>1, <4>2, TotalErase
    <3>4. total_quantity[s][p] = Total(orders_lookup, list)
      BY TotalsAt DEF TotalAt
    <3>5. CASE sum = total_quantity[s][p] - orders_lookup[id].remaining_quantity
      BY <2>1, <3>3, <3>4, <3>5 DEF TotalAt
    <3>6. CASE sum = 0 /\ RemoveAt(list, i) = <<>>
      <4>1. Total(orders_lookup', <<>>) = 0
        BY TotalOfNone
      <4> QED
        BY <2>1, <3>6, <4>1 DEF TotalAt
    <3> QED
      BY <3>5, <3>6
  <2>4. ASSUME NEW t \in Side, NEW q \in Prices, t # s \/ q # p
        PROVE  TotalAt(t, q)'
    <3>1. \A e \in OrderIds : Live(e) /\ orders_lookup[e].side = t /\ orders_lookup[e].price = q
            => orders_lookup'[e] = orders_lookup[e]
      BY <1>1, <2>2, <2>4
    <3>2. TotalAt(t, q)
      BY TotalsAt
    <3> HIDE DEF list, id
    <3> QED
      BY <2>1, <2>4, <3>1, <3>2, TotalUntouched
  <2> QED
    BY <2>3, <2>4, TotalsAtNext
<1> QED
  BY <1>2

(* A newcomer behind its level, and its quantity in the total. *)
LEMMA AppendKeepsTotals ==
  ASSUME TypeOK, QueuedOrdersAreLive, TotalsExact,
         NEW id \in OrderIds, ~ Live(id), NEW o \in Order, NEW s \in Side, NEW p \in Prices,
         orders' = [orders EXCEPT ![s][p] = Append(orders[s][p], id)],
         orders_lookup' = [orders_lookup EXCEPT ![id] = o],
         total_quantity' = [total_quantity EXCEPT ![s][p] =
                              total_quantity[s][p] + o.remaining_quantity]
  PROVE  TotalsExact'
<1> DEFINE list == orders[s][p]
<1>1. /\ orders'[s][p] = Append(list, id)
      /\ total_quantity'[s][p] = total_quantity[s][p] + o.remaining_quantity
      /\ \A t \in Side, q \in Prices : t # s \/ q # p =>
           orders'[t][q] = orders[t][q] /\ total_quantity'[t][q] = total_quantity[t][q]
  BY DEF TypeOK
<1>2. /\ orders_lookup'[id] = o
      /\ \A e \in OrderIds : e # id => orders_lookup'[e] = orders_lookup[e]
  BY DEF TypeOK
<1>3. o.remaining_quantity \in Int
  BY DEF Order
<1>4. TotalAt(s, p)'
  <2>1. /\ list \in Seq(OrderIds) /\ id \notin ToSet(list)
        /\ \A e \in ToSet(list) : /\ orders_lookup[e].remaining_quantity \in Int
                                  /\ e \in OrderIds /\ e # id
    BY ListedOrders
  <2>2. Total(orders_lookup', Append(list, id)) =
          Total(orders_lookup, list) + orders_lookup'[id].remaining_quantity
    <3>1. /\ orders_lookup'[id].remaining_quantity \in Int
          /\ \A e \in ToSet(list) : orders_lookup[e].remaining_quantity \in Int
          /\ \A e \in ToSet(list) :
               orders_lookup'[e].remaining_quantity = orders_lookup[e].remaining_quantity
          /\ id \in OrderIds
      BY <1>2, <1>3, <2>1
    <3> HIDE DEF list
    <3> QED BY ONLY <2>1, <3>1, TotalAppend
  <2>3. total_quantity[s][p] = Total(orders_lookup, list)
    BY TotalsAt DEF TotalAt
  <2> HIDE DEF list
  <2> QED
    BY <1>1, <1>2, <2>2, <2>3 DEF TotalAt
<1>5. ASSUME NEW t \in Side, NEW q \in Prices, t # s \/ q # p
      PROVE  TotalAt(t, q)'
  <2>1. \A e \in OrderIds : Live(e) /\ orders_lookup[e].side = t /\ orders_lookup[e].price = q
          => orders_lookup'[e] = orders_lookup[e]
    BY <1>2
  <2>2. TotalAt(t, q)
    BY TotalsAt
  <2> QED
    BY <1>1, <1>5, <2>1, <2>2, TotalUntouched
<1> QED
  BY <1>4, <1>5, TotalsAtNext

(* What becomes of the lookup when an order is given another quantity. *)
LEMMA ResizedLookup ==
  ASSUME TypeOK, NEW id \in OrderIds, Live(id), NEW qty \in Nat \ {0},
         orders_lookup' = [orders_lookup EXCEPT ![id].remaining_quantity = qty]
  PROVE  /\ orders_lookup'[id].remaining_quantity = qty
         /\ \A e \in OrderIds : e # id => orders_lookup'[e] = orders_lookup[e]
<1> DEFINE o == [orders_lookup[id] EXCEPT !.remaining_quantity = qty]
<1>1. o.remaining_quantity = qty
  BY LiveOrder, ResizedOrder
<1>2. orders_lookup' = [orders_lookup EXCEPT ![id] = o]
  OBVIOUS
<1> HIDE DEF o
<1>3. orders_lookup'[id] = o /\ \A e \in OrderIds : e # id => orders_lookup'[e] = orders_lookup[e]
  BY <1>2 DEF TypeOK
<1> QED
  BY <1>1, <1>3

(* Another quantity for an order that stays, and the difference in the total. *)
LEMMA ResizeKeepsTotals ==
  ASSUME TypeOK, QueuedOrdersAreLive, LiveOrdersAreQueued, TotalsExact,
         NEW id \in OrderIds, Live(id), NEW qty \in Nat \ {0},
         orders_lookup'[id].remaining_quantity = qty,
         \A e \in OrderIds : e # id => orders_lookup'[e] = orders_lookup[e],
         NEW s, NEW p, s = orders_lookup[id].side, p = orders_lookup[id].price,
         orders' = orders,
         NEW sum, sum = total_quantity[s][p] - (orders_lookup[id].remaining_quantity - qty),
         total_quantity' = [total_quantity EXCEPT ![s][p] = sum]
  PROVE  TotalsExact'
<1> DEFINE list == orders[s][p]
<1>0. s \in Side /\ p \in Prices
  BY LiveOrder
<1>1. /\ total_quantity'[s][p] = sum
      /\ \A t \in Side, q \in Prices : t # s \/ q # p =>
           total_quantity'[t][q] = total_quantity[t][q]
  BY <1>0 DEF TypeOK
<1>2. qty \in Int
  OBVIOUS
<1>3. TotalAt(s, p)'
  <2>1. list \in Seq(OrderIds)
    BY <1>0 DEF TypeOK
  <2>2. id \in ToSet(list)
    BY <2>1 DEF LiveOrdersAreQueued, ToSet
  <2>3. \A e \in ToSet(list) : orders_lookup[e].remaining_quantity \in Int /\ e \in OrderIds
    BY <1>0, ListedOrders
  <2>4. total_quantity[s][p] = Total(orders_lookup, list) /\ total_quantity[s][p] \in Int
    BY <1>0, TotalsAt DEF TotalAt, TypeOK
  <2>5. orders'[s][p] = list
    OBVIOUS
  <2> HIDE DEF list
  <2>6. /\ \A e \in ToSet(list) : orders_lookup[e].remaining_quantity \in Int
        /\ orders_lookup'[id].remaining_quantity \in Int
        /\ \A e \in ToSet(list) : e # id =>
             orders_lookup'[e].remaining_quantity = orders_lookup[e].remaining_quantity
    BY <1>2, <2>3
  <2>7. Total(orders_lookup', list) =
          Total(orders_lookup, list) + orders_lookup'[id].remaining_quantity
            - orders_lookup[id].remaining_quantity
    BY ONLY <2>1, <2>2, <2>6, TotalResize
  <2>8. orders_lookup[id].remaining_quantity \in Int
    BY <2>2, <2>3
  <2> QED
    <3>1. sum = Total(orders_lookup', list)
      BY <1>2, <2>4, <2>7, <2>8
    <3> QED
      BY <1>1, <2>5, <3>1 DEF TotalAt
<1>4. ASSUME NEW t \in Side, NEW q \in Prices, t # s \/ q # p
      PROVE  TotalAt(t, q)'
  <2>1. \A e \in OrderIds : Live(e) /\ orders_lookup[e].side = t /\ orders_lookup[e].price = q
          => orders_lookup'[e] = orders_lookup[e]
    BY <1>4
  <2>2. TotalAt(t, q) /\ orders'[t][q] = orders[t][q]
    BY TotalsAt
  <2> QED
    BY <1>1, <1>4, <2>1, <2>2, TotalUntouched
<1> QED
  BY <1>3, <1>4, TotalsAtNext

(* Nothing moves. *)
LEMMA TotalsUntouched ==
  ASSUME TypeOK, QueuedOrdersAreLive, TotalsExact,
         UNCHANGED <<orders_lookup, orders, total_quantity>>
  PROVE  TotalsExact'
BY DEF TotalsExact, RemainingOf

(* Taking an order out of the book keeps the totals exact. *)
LEMMA CancelRestingTotals ==
  ASSUME TypeOK, IndexConsistent, TotalsExact, NEW id \in OrderIds, CancelResting(id)
  PROVE  TotalsExact'
<1> DEFINE s == orders_lookup[id].side
           p == orders_lookup[id].price
           i == list_it(id)
           rest == RemoveAt(orders[s][p], i)
           left == total_quantity[s][p] - orders_lookup[id].remaining_quantity
           sum == IF rest = <<>> THEN 0 ELSE left
<1>1. Live(id) /\ orders_lookup' = [orders_lookup EXCEPT ![id] = NoOrder]
      /\ SetLevel(s, p, rest, left)
  BY DEF CancelResting, remove_order_from_book
<1>2. s \in Side /\ p \in Prices /\ orders[s][p] \in Seq(OrderIds)
  BY <1>1, LiveOrder
<1>3. i \in 1 .. Len(orders[s][p]) /\ orders[s][p][i] = id
  <2>1. /\ list_it(id) \in DOMAIN orders[orders_lookup[id].side][orders_lookup[id].price]
        /\ orders[orders_lookup[id].side][orders_lookup[id].price][list_it(id)] = id
    BY <1>1, ListIt
  <2>2. DOMAIN orders[s][p] = 1 .. Len(orders[s][p])
    BY <1>2
  <2> QED
    BY <2>1, <2>2
<1>4. \/ sum = total_quantity[s][p] - orders_lookup[orders[s][p][i]].remaining_quantity
      \/ sum = 0 /\ rest = <<>>
  BY <1>3
<1>5. total_quantity' = [total_quantity EXCEPT ![s][p] = sum]
  BY <1>1 DEF SetLevel
<1>6. orders' = [orders EXCEPT ![s][p] = RemoveAt(orders[s][p], i)]
      /\ rest = RemoveAt(orders[s][p], i)
  BY <1>1 DEF SetLevel
<1> HIDE DEF s, p, i, rest, left, sum
<1>7. orders_lookup' = [orders_lookup EXCEPT ![orders[s][p][i]] = NoOrder]
  BY <1>1, <1>3
<1> QED
  BY <1>2, <1>3, <1>4, <1>5, <1>6, <1>7, EraseKeepsTotals DEF IndexConsistent

(* Every step keeps the totals exact. *)
LEMMA TotalsStep ==
  ASSUME TypeOK, IndexConsistent, CallConsistent, SweepPosition, TotalsExact, [Next]_vars
  PROVE  TotalsExact'
<1>0. QueuedOrdersAreLive /\ LiveOrdersAreQueued /\ QueuedOnce
  BY DEF IndexConsistent
<1>1. ASSUME UNCHANGED <<orders_lookup, orders, total_quantity>>
      PROVE  TotalsExact'
  BY <1>0, <1>1, TotalsUntouched
<1>2. CASE StartCall
  <2>1. PICK id \in OrderIds, side \in Side, type \in OrderType, price \in Prices, qty \in Int :
          Begin(id, side, type, price, qty)
    BY <1>2 DEF StartCall
  <2>2. CASE CancelResting(id)
    BY <2>2, CancelRestingTotals
  <2>3. CASE UNCHANGED book
    BY <2>3, <1>1 DEF book
  <2> QED
    BY <2>1, <2>2, <2>3 DEF Begin
<1>3. ASSUME NEW id \in OrderIds, cancel_order(id)
      PROVE  TotalsExact'
  BY <1>3, CancelRestingTotals DEF cancel_order
<1>4. ASSUME NEW id \in OrderIds, NEW qty \in Nat \ {0}, Reduce(id, qty)
      PROVE  TotalsExact'
  <2> DEFINE s == orders_lookup[id].side
             p == orders_lookup[id].price
             sum == total_quantity[s][p] - (orders_lookup[id].remaining_quantity - qty)
  <2>1. /\ Live(id) /\ orders' = orders
        /\ total_quantity' = [total_quantity EXCEPT ![s][p] = sum]
    BY <1>4 DEF Reduce
  <2>2. /\ orders_lookup'[id].remaining_quantity = qty
        /\ \A e \in OrderIds : e # id => orders_lookup'[e] = orders_lookup[e]
    BY <1>4, ResizedLookup DEF Reduce
  <2>3. /\ s = orders_lookup[id].side /\ p = orders_lookup[id].price
        /\ sum = total_quantity[s][p] - (orders_lookup[id].remaining_quantity - qty)
    OBVIOUS
  <2> HIDE DEF s, p, sum
  <2> QED
    BY <1>0, <2>1, <2>2, <2>3, ResizeKeepsTotals
<1>5. CASE SweepStep
  <2> DEFINE s == Opposite(taker.side)
  <2>1. CASE EnterLevel \/ StopSweep \/ SkipBlocked
    BY <2>1, <1>1 DEF EnterLevel, StopSweep, SkipBlocked
  <2>2. CASE MatchMaker
    <3> DEFINE left == orders_lookup[Maker].remaining_quantity - FillQuantity
               sum == total_quantity[s][level_it] - FillQuantity
    <3>1. taker # NoOrder /\ InnerLoop /\ pc = "inner"
      BY <2>2, <1>5 DEF SweepStep, MatchMaker, InnerLoop
    <3>2. /\ s \in Side /\ level_it \in Prices /\ Maker \in OrderIds /\ Live(Maker)
          /\ order_it \in 1 .. Len(orders[s][level_it])
          /\ Maker = orders[s][level_it][order_it]
          /\ orders_lookup[Maker].side = s /\ orders_lookup[Maker].price = level_it
          /\ orders_lookup[Maker].remaining_quantity \in Nat /\ FillQuantity \in Nat
          /\ total_quantity[s][level_it] \in Int
      <4>1. s \in Side /\ level_it \in Prices /\ List = orders[s][level_it]
        <5>1. s \in Side
          BY <3>1, TakerType
        <5>2. level_it \in Prices
          BY <3>1, ListType
        <5> QED
          BY <5>1, <5>2 DEF List
      <4>2. /\ Maker = List[order_it] /\ order_it \in 1 .. Len(List)
            /\ Maker \in OrderIds /\ Live(Maker)
            /\ orders_lookup[Maker].side = s /\ orders_lookup[Maker].price = level_it
            /\ orders_lookup[Maker].remaining_quantity \in Nat /\ FillQuantity \in Nat
        BY <3>1, MakerFacts DEF Maker
      <4>3. total_quantity[s][level_it] \in Int
        <5> HIDE DEF s
        <5> QED
          BY <4>1 DEF TypeOK
      <4> HIDE DEF s
      <4> QED
        BY <4>1, <4>2, <4>3
    <3>3. total_quantity' = [total_quantity EXCEPT ![s][level_it] = sum]
      BY <2>2, <3>1, FillEffect
    <3>4. CASE /\ left = 0
               /\ orders_lookup' = [orders_lookup EXCEPT ![Maker] = NoOrder]
               /\ orders' = [orders EXCEPT ![s][level_it] = RemoveAt(@, order_it)]
      <4>1. sum = total_quantity[s][level_it] - orders_lookup[Maker].remaining_quantity
        BY <3>2, <3>4
      <4>2. orders' = [orders EXCEPT ![s][level_it] = RemoveAt(orders[s][level_it], order_it)]
        BY <3>4
      <4>3. orders_lookup' = [orders_lookup EXCEPT ![orders[s][level_it][order_it]] = NoOrder]
        BY <3>2, <3>4
      <4>4. sum = total_quantity[s][level_it]
                    - orders_lookup[orders[s][level_it][order_it]].remaining_quantity
        <5> HIDE DEF s, sum
        <5>1. orders[s][level_it][order_it] = Maker
          BY <3>2, Zenon
        <5> QED
          BY <4>1, <5>1, Zenon
      <4> HIDE DEF s, sum
      <4> QED
        BY <1>0, <3>2, <3>3, <4>2, <4>3, <4>4, EraseKeepsTotals
    <3>5. CASE /\ left \in Nat \ {0}
               /\ orders_lookup' = [orders_lookup EXCEPT ![Maker].remaining_quantity = left]
               /\ orders' = orders
      <4>1. sum = total_quantity[s][level_it] - (orders_lookup[Maker].remaining_quantity - left)
        BY <3>2
      <4>2. left \in Nat \ {0} /\ orders' = orders
            /\ orders_lookup' = [orders_lookup EXCEPT ![Maker].remaining_quantity = left]
        BY <3>5
      <4> HIDE DEF s, sum, left
      <4>3. /\ orders_lookup'[Maker].remaining_quantity = left
            /\ \A e \in OrderIds : e # Maker => orders_lookup'[e] = orders_lookup[e]
        BY <3>2, <4>2, ResizedLookup
      <4> QED
        BY <1>0, <3>2, <3>3, <4>1, <4>2, <4>3, ResizeKeepsTotals
    <3> QED
      BY <2>2, <3>1, <3>4, <3>5, FillEffect
  <2>3. CASE LeaveLevel
    <3>1. UNCHANGED orders_lookup /\ s \in Side /\ level_it \in Prices
      BY <2>3, <1>5, TakerType, ListType DEF LeaveLevel, SweepStep
    <3>2. CASE List = <<>>
      <4>1. SetLevel(s, level_it, <<>>, 0) /\ orders[s][level_it] = <<>>
        BY <2>3, <3>2 DEF LeaveLevel, List
      <4>2. orders' = orders
        BY <3>1, <4>1 DEF SetLevel, TypeOK
      <4>3. total_quantity[s][level_it] = 0
        BY <3>1, <4>1, TotalsAt, TotalOfNone DEF TotalAt
      <4>4. total_quantity' = total_quantity
        BY <3>1, <4>1, <4>3 DEF SetLevel, TypeOK
      <4> QED
        BY <3>1, <4>2, <4>4, <1>1
    <3>3. CASE List # <<>>
      BY <2>3, <3>1, <3>3, <1>1 DEF LeaveLevel
    <3> QED
      BY <3>2, <3>3
  <2> QED
    BY <1>5, <2>1, <2>2, <2>3 DEF SweepStep, Sweep
<1>6. CASE RestStep
  <2>1. CASE taker.remaining_quantity > 0
    <3> DEFINE o == [side |-> taker.side, order_type |-> taker.order_type,
                     price |-> taker.price,
                     remaining_quantity |-> taker.remaining_quantity]
               id == taker.order_id
               s == taker.side
               p == taker.price
               rest == Append(orders[s][p], id)
               sum == total_quantity[s][p] + taker.remaining_quantity
    <3>1. taker # NoOrder /\ add_resting_order /\ ~ Live(id)
      BY <1>6, <2>1 DEF RestStep, Rest, CallConsistent
    <3>2. o \in Order /\ o.remaining_quantity = taker.remaining_quantity
          /\ s \in Side /\ p \in Prices /\ id \in OrderIds
      BY <2>1, <3>1, TakerType DEF Order
    <3>3. SetLevel(s, p, rest, sum) /\ orders_lookup' = [orders_lookup EXCEPT ![id] = o]
      BY <3>1 DEF add_resting_order
    <3>4. rest # <<>>
      <4>1. orders[s][p] \in Seq(OrderIds) /\ id \in OrderIds
        BY <3>2 DEF TypeOK
      <4> HIDE DEF id, s, p
      <4> QED
        BY <4>1
    <3>5. orders' = [orders EXCEPT ![s][p] = Append(orders[s][p], id)]
      BY <3>3 DEF SetLevel
    <3> HIDE DEF rest
    <3>6. total_quantity' = [total_quantity EXCEPT ![s][p] = sum]
      BY <3>3, <3>4 DEF SetLevel
    <3>7. total_quantity' = [total_quantity EXCEPT ![s][p] =
                               total_quantity[s][p] + o.remaining_quantity]
      BY <3>2, <3>6
    <3> HIDE DEF o, id, s, p, sum
    <3> QED
      BY <1>0, <3>1, <3>2, <3>3, <3>5, <3>7, AppendKeepsTotals
  <2>2. CASE ~ (taker.remaining_quantity > 0)
    BY <1>1, <1>6, <2>2 DEF RestStep, Rest, book
  <2> QED
    BY <2>1, <2>2
<1>7. CASE DiscardStep \/ DryRunStep \/ UNCHANGED vars
  BY <1>1, <1>7 DEF DiscardStep, Discard, DryRunStep, DryRun, book, vars
<1> QED
  BY <1>2, <1>3, <1>4, <1>5, <1>6, <1>7, Steps

-----------------------------------------------------------------------------
(* Fill or kill *)

LiveIds == {id \in OrderIds : Live(id)}

(* A book holds finitely many orders, however many identifiers there are. *)
LiveIsFinite == IsFiniteSet(LiveIds)

(* What the dry run of a user's order found is still there for the sweep.    *)
FokCovered ==
  /\ pc = "dry_run" => taker.remaining_quantity = taker.quantity
  /\ /\ taker # NoOrder /\ taker.order_type = FOK /\ taker.order_id \notin BinanceIds
     /\ pc \in {"outer", "inner", "swept"}
     => RemainingOf(Fillable) >= taker.remaining_quantity

(* A step adds at most the taker. *)
LEMMA FiniteStep ==
  ASSUME TypeOK, IndexConsistent, SweepPosition, LiveIsFinite, [Next]_vars
  PROVE  LiveIsFinite'
<1>1. CASE RestStep
  <2>1. \/ UNCHANGED orders_lookup
        \/ \E o : orders_lookup' = [orders_lookup EXCEPT ![taker.order_id] = o]
    BY <1>1 DEF RestStep, Rest, add_resting_order, book
  <2>2. LiveIds' \subseteq LiveIds \cup {taker.order_id}
    BY <2>1 DEF LiveIds, Live, TypeOK
  <2>3. IsFiniteSet(LiveIds \cup {taker.order_id})
    BY FS_AddElement DEF LiveIsFinite
  <2> QED
    BY <2>2, <2>3, FS_Subset DEF LiveIsFinite
<1>2. CASE ~ RestStep
  <2>1. LiveIds' \subseteq LiveIds
    BY <1>2, OnlyRestAdds DEF OnlyShrinks, LiveIds, Live
  <2> QED
    BY <2>1, FS_Subset DEF LiveIsFinite
<1> QED
  BY <1>1, <1>2

(* What a set of live orders wants is the sum of any weights that agree. *)
LEMMA RemainingIs ==
  ASSUME NEW look, NEW ids, IsFiniteSet(ids), NEW w,
         \A id \in ids : w[id] = look[id].remaining_quantity
  PROVE  SumFunction([id \in ids |-> look[id].remaining_quantity]) = Sum(w, ids)
<1> DEFINE v == [id \in ids |-> look[id].remaining_quantity]
<1>1. SumFunction(v) = Sum(v, ids)
  BY DEF SumFunction, Sum
<1>2. \A id \in ids : w[id] = v[id]
  OBVIOUS
<1> HIDE DEF v
<1>3. SumFunction(v) = Sum(w, ids)
  BY <1>1, <1>2, SumEqual
<1> QED
  BY <1>3 DEF v

(* Fillable orders are live, finitely many, and want something. *)
LEMMA FillableOrders ==
  ASSUME TypeOK, LiveIsFinite
  PROVE  /\ IsFiniteSet(Fillable)
         /\ \A id \in Fillable : /\ id \in OrderIds /\ Live(id)
                                 /\ orders_lookup[id].remaining_quantity \in Nat \ {0}
<1>1. Fillable \subseteq LiveIds
  BY DEF Fillable, LiveIds
<1>2. \A id \in Fillable : /\ id \in OrderIds /\ Live(id)
                           /\ orders_lookup[id].remaining_quantity \in Nat \ {0}
  BY LiveOrder DEF Fillable
<1> QED
  BY <1>1, <1>2, FS_Subset DEF LiveIsFinite

(* A fill takes from what is fillable exactly what it gives the taker. *)
LEMMA FillTakesFromFillable ==
  ASSUME TypeOK, IndexConsistent, SweepPosition, LiveIsFinite, taker # NoOrder, MatchMaker,
         taker.order_type = FOK, taker.order_id \notin BinanceIds
  PROVE  /\ RemainingOf(Fillable) \in Int
         /\ RemainingOf(Fillable)' = RemainingOf(Fillable) - FillQuantity
<1> DEFINE w == [id \in Fillable |-> orders_lookup[id].remaining_quantity]
           v == [id \in Fillable |-> IF id = Maker
                                     THEN orders_lookup[id].remaining_quantity - FillQuantity
                                     ELSE orders_lookup[id].remaining_quantity]
           left == orders_lookup[Maker].remaining_quantity - FillQuantity
<1>1. /\ InnerLoop /\ pc = "inner"
      /\ Maker \in OrderIds /\ Live(Maker)
      /\ orders_lookup[Maker] \in Order
      /\ orders_lookup[Maker].side = Opposite(taker.side)
      /\ orders_lookup[Maker].price = level_it
      /\ orders_lookup[Maker].remaining_quantity \in Nat \ {0}
      /\ FillQuantity \in Nat
  BY MakerFacts DEF MatchMaker, InnerLoop
<1>2. Maker \in Fillable
  <2>1. WithinLimit(level_it)
    BY <1>1 DEF SweepPosition
  <2>2. Accepts(taker.side, taker.price, level_it)
    BY <2>1 DEF WithinLimit, FOK, MARKET
  <2> QED
    BY <1>1, <2>2 DEF Fillable, Blocked, SelfTrade
<1>3. /\ IsFiniteSet(Fillable)
      /\ \A id \in Fillable : w[id] = orders_lookup[id].remaining_quantity /\ w[id] \in Int
      /\ \A id \in Fillable : v[id] \in Int /\ (id # Maker => v[id] = w[id])
      /\ v[Maker] = left /\ w[Maker] = orders_lookup[Maker].remaining_quantity
  BY <1>1, <1>2, FillableOrders
<1>4. /\ taker'.order_id = taker.order_id /\ taker'.side = taker.side
      /\ taker'.price = taker.price
  BY TakerAfterFill
<1> HIDE DEF w, v
<1>5. RemainingOf(Fillable) = Sum(w, Fillable) /\ Sum(w, Fillable) \in Int
  <2>1. Sum(w, Fillable) \in Int
    BY <1>3, SumType
  <2>2. RemainingOf(Fillable) = Sum(w, Fillable)
    BY <1>3, RemainingIs DEF RemainingOf
  <2> QED
    BY <2>1, <2>2
<1>6. Sum(v, Fillable) = Sum(w, Fillable) - FillQuantity
  <2>1. Sum(v, Fillable) = Sum(w, Fillable) + v[Maker] - w[Maker]
    BY <1>2, <1>3, SumChange
  <2> QED
    BY <1>1, <1>3, <1>5, <2>1 DEF left
<1>7. ASSUME left = 0, orders_lookup' = [orders_lookup EXCEPT ![Maker] = NoOrder]
      PROVE  RemainingOf(Fillable)' = Sum(v, Fillable)
  <2>1. /\ orders_lookup'[Maker] = NoOrder
        /\ \A id \in OrderIds : id # Maker => orders_lookup'[id] = orders_lookup[id]
    BY <1>1, <1>7 DEF TypeOK
  <2>2. Fillable' = Fillable \ {Maker}
    BY <1>4, <2>1 DEF Fillable, Live, Blocked, SelfTrade
  <2>3. \A id \in Fillable \ {Maker} : v[id] = orders_lookup'[id].remaining_quantity
    BY <1>3, <2>1 DEF Fillable
  <2>4. IsFiniteSet(Fillable \ {Maker})
    BY <1>3, FS_RemoveElement
  <2>5. RemainingOf(Fillable)' = Sum(v, Fillable \ {Maker})
    BY <2>2, <2>3, <2>4, RemainingIs DEF RemainingOf
  <2>6. Sum(v, Fillable) = v[Maker] + Sum(v, Fillable \ {Maker})
    BY <1>2, <1>3, SumSplit
  <2>7. Sum(v, Fillable \ {Maker}) \in Int
    BY <1>3, <2>4, SumType
  <2> QED
    BY <1>3, <1>7, <2>5, <2>6, <2>7
<1>8. ASSUME left \in Nat \ {0},
             orders_lookup' = [orders_lookup EXCEPT ![Maker].remaining_quantity = left]
      PROVE  RemainingOf(Fillable)' = Sum(v, Fillable)
  <2> DEFINE o == [orders_lookup[Maker] EXCEPT !.remaining_quantity = left]
  <2>1. /\ o \in Order /\ o.remaining_quantity = left
        /\ o.side = orders_lookup[Maker].side /\ o.price = orders_lookup[Maker].price
    BY <1>1, <1>8, ResizedOrder
  <2>2. orders_lookup' = [orders_lookup EXCEPT ![Maker] = o]
    BY <1>8
  <2> HIDE DEF o
  <2>3. /\ orders_lookup'[Maker] = o /\ o # NoOrder
        /\ \A id \in OrderIds : id # Maker => orders_lookup'[id] = orders_lookup[id]
    BY <1>1, <2>1, <2>2, NoOrderAssumption DEF TypeOK
  <2>4. Fillable' = Fillable
    BY <1>1, <1>4, <2>1, <2>3 DEF Fillable, Live, Blocked, SelfTrade
  <2>5. \A id \in Fillable : v[id] = orders_lookup'[id].remaining_quantity
    BY <1>3, <2>1, <2>3 DEF Fillable
  <2> QED
    BY <1>3, <2>4, <2>5, RemainingIs DEF RemainingOf
<1>9. \/ left = 0 /\ orders_lookup' = [orders_lookup EXCEPT ![Maker] = NoOrder]
      \/ /\ left \in Nat \ {0}
         /\ orders_lookup' = [orders_lookup EXCEPT ![Maker].remaining_quantity = left]
  BY FillEffect DEF left
<1> QED
  BY <1>5, <1>6, <1>7, <1>8, <1>9

(* Every step keeps what a FOK order needs. *)
LEMMA FokStep ==
  ASSUME TypeOK, IndexConsistent, CallConsistent, SweepPosition, LiveIsFinite, FokCovered,
         [Next]_vars
  PROVE  FokCovered'
<1>1. ASSUME pc' = "idle"
      PROVE  FokCovered'
  BY <1>1 DEF FokCovered
<1>2. ASSUME UNCHANGED <<orders_lookup, taker>>, pc # "idle", pc # "dry_run", pc' # "dry_run"
      PROVE  FokCovered'
  <2>1. RemainingOf(Fillable)' = RemainingOf(Fillable)
    BY <1>2 DEF RemainingOf, Fillable, Live, Blocked, SelfTrade
  <2>2. pc \in {"outer", "inner", "swept"}
    BY <1>2 DEF TypeOK, Places
  <2> QED
    BY <1>2, <2>1, <2>2 DEF FokCovered
<1>3. CASE StartCall
  <2>1. PICK id \in OrderIds, side \in Side, type \in OrderType, price \in Prices, qty \in Int :
          pc = "idle" /\ Begin(id, side, type, price, qty)
    BY <1>3 DEF StartCall
  <2>2. /\ taker'.order_type = type /\ taker'.quantity = qty /\ taker'.remaining_quantity = qty
        /\ pc' = IF type = FOK THEN "dry_run" ELSE "outer"
    BY <2>1 DEF Begin
  <2> QED
    BY <2>2 DEF FokCovered
<1>4. ASSUME NEW id \in OrderIds, cancel_order(id)
      PROVE  FokCovered'
  BY <1>1, <1>4 DEF cancel_order
<1>5. ASSUME NEW id \in OrderIds, NEW qty \in Nat \ {0}, Reduce(id, qty)
      PROVE  FokCovered'
  BY <1>1, <1>5 DEF Reduce
<1>6. CASE SweepStep
  <2>1. CASE EnterLevel \/ StopSweep \/ SkipBlocked \/ LeaveLevel
    <3>1. UNCHANGED <<orders_lookup, taker>> /\ pc # "idle" /\ pc # "dry_run" /\ pc' # "dry_run"
      BY <2>1 DEF EnterLevel, StopSweep, SkipBlocked, LeaveLevel, InnerLoop
    <3> QED
      BY <3>1, <1>2
  <2>2. CASE MatchMaker
    <3>1. taker # NoOrder /\ pc = "inner" /\ pc' = "inner" /\ InnerLoop
      BY <1>6, <2>2, FillEffect DEF SweepStep, MatchMaker, InnerLoop
    <3>2. /\ taker'.order_id = taker.order_id /\ taker'.order_type = taker.order_type
          /\ taker'.remaining_quantity = taker.remaining_quantity - FillQuantity
          /\ taker.remaining_quantity \in Int /\ FillQuantity \in Nat
      BY <2>2, <3>1, TakerAfterFill, TakerType, MakerFacts
    <3>3. ASSUME taker.order_type = FOK, taker.order_id \notin BinanceIds
          PROVE  RemainingOf(Fillable)' >= taker'.remaining_quantity
      <4>1. RemainingOf(Fillable) >= taker.remaining_quantity
        BY <3>1, <3>3 DEF FokCovered
      <4>2. /\ RemainingOf(Fillable) \in Int
            /\ RemainingOf(Fillable)' = RemainingOf(Fillable) - FillQuantity
        BY <2>2, <3>1, <3>3, FillTakesFromFillable
      <4> QED
        BY <3>2, <4>1, <4>2
    <3> QED
      BY <3>1, <3>2, <3>3 DEF FokCovered
  <2> QED
    BY <1>6, <2>1, <2>2 DEF SweepStep, Sweep
<1>7. CASE RestStep \/ DiscardStep
  BY <1>1, <1>7 DEF RestStep, DiscardStep, Rest, Discard, Return
<1>8. CASE DryRunStep
  <2>1. CASE pc' = "idle"
    BY <1>1, <2>1
  <2>2. CASE pc' # "idle"
    <3>1. /\ can_fok_be_fully_filled /\ pc = "dry_run" /\ pc' = "outer"
          /\ UNCHANGED <<orders_lookup, taker>>
      BY <1>8, <2>2 DEF DryRunStep, DryRun, Return, book
    <3>2. RemainingOf(Fillable)' = RemainingOf(Fillable)
      BY <3>1 DEF RemainingOf, Fillable, Live, Blocked, SelfTrade
    <3>3. RemainingOf(Fillable) >= taker.remaining_quantity
      BY <3>1 DEF FokCovered, can_fok_be_fully_filled
    <3> QED
      BY <3>1, <3>2, <3>3 DEF FokCovered
  <2> QED
    BY <2>1, <2>2
<1>9. CASE UNCHANGED vars
  <2>1. RemainingOf(Fillable)' = RemainingOf(Fillable)
    BY <1>9 DEF RemainingOf, Fillable, Live, Blocked, SelfTrade, vars
  <2> QED
    BY <1>9, <2>1 DEF FokCovered, vars
<1> QED
  BY <1>3, <1>4, <1>5, <1>6, <1>7, <1>8, <1>9, Steps

(* At the end of its sweep a user's FOK order has nothing fillable left, so  *)
(* nothing it still wants.                                                   *)
LEMMA FokFills ==
  ASSUME TypeOK, CallConsistent, SweepIsComplete, FokCovered
  PROVE  UserFokFills
<1> SUFFICES ASSUME pc = "swept", taker.order_type = FOK, taker.order_id \notin BinanceIds,
                    ~ (taker.remaining_quantity <= 0)
             PROVE  FALSE
  BY DEF UserFokFills
<1>1. taker # NoOrder /\ taker.remaining_quantity \in Int
  BY TakerType DEF CallConsistent
<1>2. Fillable = {}
  <2>1. ASSUME NEW id \in Fillable
        PROVE  FALSE
    <3>1. /\ id \in OrderIds /\ Live(id) /\ ~ Blocked(id)
          /\ orders_lookup[id].side = Opposite(taker.side)
          /\ WithinLimit(orders_lookup[id].price)
      BY DEF Fillable, WithinLimit
    <3>2. \E b \in OrderIds : Blocked(b)
      BY <1>1, <3>1 DEF SweepIsComplete
    <3> QED
      BY <3>2 DEF Blocked, SelfTrade
  <2> QED
    BY <2>1
<1>3. RemainingOf(Fillable) = 0
  <2>1. RemainingOf({}) = Sum([id \in {} |-> orders_lookup[id].remaining_quantity], {})
    BY DEF RemainingOf, SumFunction, Sum
  <2> QED
    BY <1>2, <2>1, SumEmpty
<1>4. RemainingOf(Fillable) >= taker.remaining_quantity
  BY <1>1 DEF FokCovered
<1> QED
  BY <1>1, <1>3, <1>4

(* Every step keeps other orders than limit orders from resting. *)
LEMMA RestStepTypes ==
  ASSUME TypeOK, IndexConsistent, CallConsistent, SweepPosition, UserFokFills,
         OnlyLimitOrdersRest, [Next]_vars
  PROVE  OnlyLimitOrdersRest'
<1>1. CASE ~ RestStep
  <2> SUFFICES ASSUME NEW id \in OrderIds, orders_lookup'[id] # NoOrder
               PROVE  \/ orders_lookup'[id].order_type = LIMIT
                      \/ orders_lookup'[id].order_type = FOK /\ id \in BinanceIds
    BY DEF OnlyLimitOrdersRest, Live
  <2>1. Live(id) /\ SameOrSmaller(id)
    BY <1>1, OnlyRestAdds DEF OnlyShrinks
  <2>2. orders_lookup[id] \in Order /\ orders_lookup[id].remaining_quantity \in Nat \ {0}
    BY <2>1, LiveOrder
  <2>3. orders_lookup'[id].order_type = orders_lookup[id].order_type
    <3>1. PICK qty \in 1 .. orders_lookup[id].remaining_quantity :
            orders_lookup'[id] = [orders_lookup[id] EXCEPT !.remaining_quantity = qty]
      BY <2>1 DEF SameOrSmaller
    <3>2. qty \in Nat \ {0}
      BY <2>2
    <3> QED
      BY <2>2, <3>1, <3>2, ResizedOrder
  <2> QED
    BY <2>1, <2>3 DEF OnlyLimitOrdersRest
<1>2. CASE RestStep
  <2>1. /\ taker # NoOrder /\ taker.order_type \in {LIMIT, FOK} /\ pc = "swept"
        /\ taker.remaining_quantity \in Int
    BY <1>2, TakerType DEF RestStep, Rest
  <2>2. CASE taker.remaining_quantity > 0
    <3> DEFINE o == [side |-> taker.side, order_type |-> taker.order_type,
                     price |-> taker.price,
                     remaining_quantity |-> taker.remaining_quantity]
    <3>1. orders_lookup' = [orders_lookup EXCEPT ![taker.order_id] = o]
      BY <1>2, <2>2 DEF RestStep, Rest, add_resting_order
    <3>2. taker.order_type = LIMIT \/ (taker.order_type = FOK /\ taker.order_id \in BinanceIds)
      BY <2>1, <2>2 DEF UserFokFills
    <3>3. o.order_type = taker.order_type
      OBVIOUS
    <3> HIDE DEF o
    <3>4. \A id \in OrderIds :
            orders_lookup'[id] = IF id = taker.order_id THEN o ELSE orders_lookup[id]
      BY <3>1 DEF TypeOK
    <3> QED
      BY <3>2, <3>3, <3>4 DEF OnlyLimitOrdersRest, Live
  <2>3. CASE ~ (taker.remaining_quantity > 0)
    BY <1>2, <2>3 DEF RestStep, Rest, book, OnlyLimitOrdersRest, Live
  <2> QED
    BY <2>2, <2>3
<1> QED
  BY <1>1, <1>2

-----------------------------------------------------------------------------
(* The theorems *)

(* The inductive invariant.  UsersNeverCross is not inductive alone: that a  *)
(* resting user crosses nobody follows from SweepIsComplete at the end of    *)
(* its sweep, which follows from where the sweep stood (SweepPosition) and   *)
(* from the lists holding every live order (IndexConsistent).  Neither is    *)
(* UserFokFills: what the dry run counted must cover the order through every *)
(* fill (FokCovered) until the sweep has left nothing (SweepIsComplete).     *)
IInv ==
  /\ TypeOK
  /\ IndexConsistent
  /\ CallConsistent
  /\ SweepPosition
  /\ SweepIsComplete
  /\ UsersNeverCross
  /\ TotalsExact
  /\ LiveIsFinite
  /\ FokCovered
  /\ OnlyLimitOrdersRest

(* The empty book satisfies the invariant. *)
LEMMA InitInvariant == Init => IInv
<1> SUFFICES ASSUME Init PROVE IInv
  OBVIOUS
<1>1. TypeOK
  BY DEF Init, TypeOK, Places
<1>2. IndexConsistent
  BY DEF Init, IndexConsistent, QueuedOrdersAreLive, LiveOrdersAreQueued,
     QueuedOnce, LevelsAreTheNonEmpty, Live
<1>3. CallConsistent /\ SweepPosition /\ SweepIsComplete /\ UsersNeverCross
  BY DEF Init, CallConsistent, SweepPosition, SweepIsComplete, UsersNeverCross, Live
<1>4. TotalsExact
  <2> SUFFICES ASSUME NEW s \in Side, NEW p \in Prices PROVE TotalAt(s, p)
    BY TotalsAt
  <2> QED
    BY TotalOfNone DEF Init, TotalAt
<1>5. LiveIsFinite
  <2>1. LiveIds = {}
    BY DEF Init, LiveIds, Live
  <2> QED
    BY <2>1, FS_EmptySet DEF LiveIsFinite
<1>6. FokCovered /\ OnlyLimitOrdersRest
  BY DEF Init, FokCovered, OnlyLimitOrdersRest, Live
<1> QED
  BY <1>1, <1>2, <1>3, <1>4, <1>5, <1>6 DEF IInv

(* Every step keeps the invariant. *)
LEMMA StepInvariant == IInv /\ [Next]_vars => IInv'
<1> SUFFICES ASSUME IInv, [Next]_vars PROVE IInv'
  OBVIOUS
<1>1. TypeOK' /\ IndexConsistent' /\ CallConsistent' /\ SweepPosition'
  BY TypeStep, IndexStep, CallStep, PositionStep DEF IInv
<1>2. SweepIsComplete' /\ UsersNeverCross'
  BY CompleteStep, CrossStep DEF IInv
<1>3. TotalsExact' /\ LiveIsFinite' /\ FokCovered'
  BY TotalsStep, FiniteStep, FokStep DEF IInv
<1>4. OnlyLimitOrdersRest'
  BY FokFills, RestStepTypes DEF IInv
<1> QED
  BY <1>1, <1>2, <1>3, <1>4 DEF IInv

(* IInv holds in every state a book can reach. *)
THEOREM Invariant == Spec => []IInv
<1>1. Init => IInv
  BY InitInvariant
<1>2. IInv /\ [Next]_vars => IInv'
  BY StepInvariant
<1> QED
  BY <1>1, <1>2, PTL DEF Spec

(* Variables keep their types; a resting order always has something left.    *)
THEOREM TypeCorrect == Spec => []TypeOK
<1>1. IInv => TypeOK
  BY DEF IInv
<1> QED
  BY <1>1, Invariant, PTL

(* orders_lookup_, bids_, asks_ and the lists always describe the same set   *)
(* of orders, whatever calls came before, and between the steps of a sweep.  *)
THEOREM IndexAlwaysConsistent == Spec => []IndexConsistent
<1>1. IInv => IndexConsistent
  BY DEF IInv
<1> QED
  BY <1>1, Invariant, PTL

(* A replaced order has always left before its successor is matched, and a   *)
(* sweep never passes a maker it may trade with.                             *)
THEOREM CallsStayConsistent == Spec => [](CallConsistent /\ SweepPosition)
<1>1. IInv => CallConsistent /\ SweepPosition
  BY DEF IInv
<1> QED
  BY <1>1, Invariant, PTL

(* A sweep that ends with quantity left has nothing left to take but what a  *)
(* blocked order at a better price shields.                                  *)
THEOREM SweepsAreComplete == Spec => []SweepIsComplete
<1>1. IInv => SweepIsComplete
  BY DEF IInv
<1> QED
  BY <1>1, Invariant, PTL

(* No two resting orders of users are ever crossed or locked.                *)
THEOREM UsersAreNeverCrossed == Spec => []UsersNeverCross
<1>1. IInv => UsersNeverCross
  BY DEF IInv
<1> QED
  BY <1>1, Invariant, PTL

(* The total a level publishes is always what its orders still want, between *)
(* two fills of a sweep too.                                                 *)
THEOREM TotalsAreExact == Spec => []TotalsExact
<1>1. IInv => TotalsExact
  BY DEF IInv
<1> QED
  BY <1>1, Invariant, PTL

(* A user's FOK order that passes its dry run is filled to the last lot: what *)
(* the dry run counted is what the sweep takes.                              *)
THEOREM UserFokOrdersFill == Spec => []UserFokFills
<1>1. IInv => UserFokFills
  BY FokFills DEF IInv
<1> QED
  BY <1>1, Invariant, PTL

(* Nothing rests but limit orders, and FOK orders of Binance.                *)
THEOREM OnlyLimitOrdersEverRest == Spec => []OnlyLimitOrdersRest
<1>1. IInv => OnlyLimitOrdersRest
  BY DEF IInv
<1> QED
  BY <1>1, Invariant, PTL

(* Every fill is against the first order self-trade prevention allows, at    *)
(* its own price and within the taker's limit.                               *)
THEOREM FillsFollowPriority == Spec => PriceTimePriority
<1>1. IInv /\ [Next]_vars => [TakesTheFirst]_vars
  BY PriorityStep DEF IInv
<1> QED
  BY <1>1, Invariant, PTL DEF Spec, PriceTimePriority

(* No order ever overtakes another one in its level's list.                  *)
THEOREM ListsAreFifo == Spec => QueuesAreFifo
<1>1. IInv /\ [Next]_vars => [NobodyOvertakes]_vars
  BY FifoStep DEF IInv
<1> QED
  BY <1>1, Invariant, PTL DEF Spec, QueuesAreFifo

(* A resting order keeps its side, type and price and never grows.           *)
THEOREM OrdersOnlyShrink == Spec => RestingOrdersOnlyShrink
<1>1. IInv /\ [Next]_vars => [Shrinks]_vars
  BY ShrinkStep DEF IInv
<1> QED
  BY <1>1, Invariant, PTL DEF Spec, RestingOrdersOnlyShrink

-----------------------------------------------------------------------------
(* The sweep implements the closed form, for every set of identifiers,       *)
(* prices and quantities.  The queues that the refinement mapping reads out  *)
(* of levels and lists are the one listing of the resting orders in          *)
(* priority, so a step changes a queue where it changes the book: an entry   *)
(* gone, smaller or joined (GoneFromStanding, ResizedInStanding,             *)
(* JoinedStanding).  The maker of a fill is the first the rules reach        *)
(* (FirstIsMaker), so a fill is the first of those the closed form lists     *)
(* and the others are those of what it leaves (FillPeels); a sweep that ends *)
(* reaches nothing more (NothingIsReached) and rests what is left.           *)

-----------------------------------------------------------------------------
(* Priority as a strict order, and the queues it gives *)

(* The entries of a side, and the pairs of resting orders in priority.       *)
Entries(s) == {EntryOf(id) : id \in RestingOn(s)}

Pairs == {pair \in OrderIds \X OrderIds :
            Live(pair[1]) /\ Live(pair[2]) /\ Ahead(pair[1], pair[2])}

(* What rests on a side, with its place in the list of its level. *)
LEMMA RestingOrder ==
  ASSUME TypeOK, IndexConsistent, NEW s \in Side, NEW a \in RestingOn(s)
  PROVE  /\ a \in OrderIds /\ Live(a) /\ orders_lookup[a].side = s
         /\ orders_lookup[a].price \in Prices /\ orders_lookup[a].price \in Int
         /\ list_it(a) \in Int
         /\ orders[s][orders_lookup[a].price][list_it(a)] = a
         /\ EntryOf(a) \in Entry(OrderIds, Prices)
         /\ EntryOf(a).order_id = a
<1>1. a \in OrderIds /\ Live(a) /\ orders_lookup[a].side = s
  BY DEF RestingOn
<1>2. /\ orders_lookup[a] \in Order /\ orders_lookup[a].price \in Prices
      /\ orders[s][orders_lookup[a].price] \in Seq(OrderIds)
  BY <1>1, LiveOrder
<1>3. /\ list_it(a) \in DOMAIN orders[s][orders_lookup[a].price]
      /\ orders[s][orders_lookup[a].price][list_it(a)] = a
  BY <1>1, ListIt
<1>4. list_it(a) \in Int
  BY <1>2, <1>3
<1>5. orders_lookup[a].price \in Int
  BY <1>2, NumberAssumption
<1>6. EntryOf(a) \in Entry(OrderIds, Prices) /\ EntryOf(a).order_id = a
  BY <1>1, <1>2 DEF EntryOf, Entry, Order
<1> QED
  BY <1>1, <1>2, <1>3, <1>4, <1>5, <1>6

(* Priority is a strict order of the orders resting on a side. *)
LEMMA PriorityIsStrict ==
  ASSUME TypeOK, IndexConsistent, NEW s \in Side
  PROVE  /\ \A a, b \in RestingOn(s) : Ahead(a, b) => ~ Ahead(b, a)
         /\ \A a, b \in RestingOn(s) : a # b => Ahead(a, b) \/ Ahead(b, a)
         /\ \A a, b, c \in RestingOn(s) : Ahead(a, b) /\ Ahead(b, c) => Ahead(a, c)
<1>1. \A a \in RestingOn(s) :
        /\ orders_lookup[a].side = s /\ orders_lookup[a].price \in Int
        /\ list_it(a) \in Int
        /\ orders[s][orders_lookup[a].price][list_it(a)] = a
  BY RestingOrder
<1>2. \A a, b \in RestingOn(s) :
        Ahead(a, b) <=> \/ Before(s, orders_lookup[a].price, orders_lookup[b].price)
                        \/ /\ orders_lookup[a].price = orders_lookup[b].price
                           /\ list_it(a) < list_it(b)
  BY <1>1 DEF Ahead
<1>3. ASSUME NEW a \in RestingOn(s), NEW b \in RestingOn(s), Ahead(a, b)
      PROVE  ~ Ahead(b, a)
  BY <1>1, <1>2, <1>3 DEF Before
<1>4. ASSUME NEW a \in RestingOn(s), NEW b \in RestingOn(s), a # b
      PROVE  Ahead(a, b) \/ Ahead(b, a)
  <2>1. orders_lookup[a].price # orders_lookup[b].price \/ list_it(a) # list_it(b)
    BY <1>1, <1>4
  <2> QED
    BY <1>1, <1>2, <2>1 DEF Before
<1>5. ASSUME NEW a \in RestingOn(s), NEW b \in RestingOn(s), NEW c \in RestingOn(s),
             Ahead(a, b), Ahead(b, c)
      PROVE  Ahead(a, c)
  BY <1>1, <1>2, <1>5 DEF Before
<1> QED
  BY <1>3, <1>4, <1>5

(* No two orders are each before the other. *)
LEMMA PairsAreAsymmetric ==
  ASSUME TypeOK, IndexConsistent
  PROVE  Asymmetric(Pairs)
<1> SUFFICES ASSUME NEW x, NEW y, <<x, y>> \in Pairs, <<y, x>> \in Pairs PROVE FALSE
  BY DEF Asymmetric
<1>1. /\ x \in OrderIds /\ y \in OrderIds /\ Live(x) /\ Live(y)
      /\ Ahead(x, y) /\ Ahead(y, x)
  BY DEF Pairs
<1>2. orders_lookup[x].side \in Side /\ orders_lookup[y].side = orders_lookup[x].side
  BY <1>1, LiveOrder DEF Ahead
<1>3. x \in RestingOn(orders_lookup[x].side) /\ y \in RestingOn(orders_lookup[x].side)
  BY <1>1, <1>2 DEF RestingOn
<1> QED
  BY <1>1, <1>2, <1>3, PriorityIsStrict

(* The rank of each order is its own: the queue holds every one, in order.   *)
LEMMA PriorityLists ==
  ASSUME TypeOK, IndexConsistent, LiveIsFinite, NEW s \in Side
  PROVE  Lists(Priority(s), Entries(s), Pairs)
<1>1. PICK S : S = RestingOn(s)
  OBVIOUS
<1>2. PICK n : n = Cardinality(S)
  OBVIOUS
<1>3. PICK r : r = [x \in S |-> UpTo(x)]
  OBVIOUS
<1>4. PICK q : q = Priority(s)
  OBVIOUS
<1>5. IsFiniteSet(S)
  <2>1. S \subseteq LiveIds
    BY <1>1 DEF RestingOn, LiveIds
  <2> QED
    BY <2>1, FS_Subset DEF LiveIsFinite
<1>6. \A x \in S : r[x] = {y \in S : y = x \/ Ahead(y, x)}
  BY <1>1, <1>3, RestingOrder DEF UpTo
<1>7. /\ \A a, b \in S : Ahead(a, b) => ~ Ahead(b, a)
      /\ \A a, b \in S : a # b => Ahead(a, b) \/ Ahead(b, a)
      /\ \A a, b, c \in S : Ahead(a, b) /\ Ahead(b, c) => Ahead(a, c)
  BY <1>1, PriorityIsStrict
<1>8. \A x \in S : x \in r[x] /\ r[x] \subseteq S
  BY <1>6
<1>9. ASSUME NEW x \in S, NEW y \in S, Ahead(x, y)
      PROVE  r[x] \subseteq r[y] /\ r[x] # r[y]
  <2>1. y \notin r[x] /\ y \in r[y]
    BY <1>6, <1>7, <1>9
  <2>2. ASSUME NEW z \in r[x] PROVE z \in r[y]
    <3>1. z \in S /\ (z = x \/ Ahead(z, x))
      BY <1>6
    <3>2. Ahead(z, y)
      BY <1>7, <1>9, <3>1
    <3> QED
      BY <1>6, <3>1, <3>2
  <2> QED
    BY <2>1, <2>2
<1>10. \A x, y \in S : r[x] \subseteq r[y] \/ r[y] \subseteq r[x]
  BY <1>7, <1>9
<1>11. \A x, y \in S : r[x] = r[y] => x = y
  BY <1>7, <1>9
<1>12. /\ n \in Nat
       /\ \A x \in S : Cardinality(r[x]) \in 1 .. n
       /\ \A x, y \in S : Cardinality(r[x]) = Cardinality(r[y]) => x = y
       /\ \A k \in 1 .. n : \E x \in S : Cardinality(r[x]) = k
  BY ONLY <1>2, <1>5, <1>8, <1>10, <1>11, RanksAreUnique
<1>13. PICK at : at = [k \in 1 .. n |-> CHOOSE id \in S : Cardinality(UpTo(id)) = k]
  OBVIOUS
<1>14. q = [k \in 1 .. n |-> EntryOf(at[k])]
  BY <1>1, <1>2, <1>4, <1>13 DEF Priority
<1>15. ASSUME NEW k \in 1 .. n
       PROVE  at[k] \in S /\ Cardinality(r[at[k]]) = k
  <2>1. \E id \in S : Cardinality(UpTo(id)) = k
    BY <1>3, <1>12
  <2>2. at[k] \in S /\ Cardinality(UpTo(at[k])) = k
    BY <1>13, <2>1
  <2> QED
    BY <1>3, <2>2
<1>16. /\ DOMAIN q = 1 .. n
       /\ \A k \in 1 .. n : q[k] = EntryOf(at[k]) /\ q[k] \in Entries(s)
                            /\ q[k].order_id = at[k]
  <2>1. DOMAIN q = 1 .. n /\ \A k \in 1 .. n : q[k] = EntryOf(at[k])
    BY <1>14
  <2>2. \A x \in S : EntryOf(x) \in Entries(s) /\ EntryOf(x).order_id = x
    BY <1>1, RestingOrder DEF Entries
  <2> QED
    BY <1>15, <2>1, <2>2
<1>17. q \in Seq(Entries(s))
  <2>1. q = [k \in 1 .. n |-> q[k]]
    BY <1>14, <1>16
  <2> QED
    BY <1>12, <1>16, <2>1, FunctionIsSeq
<1>18. ASSUME NEW e \in Entries(s)
       PROVE  \E k \in DOMAIN q : q[k] = e
  <2>1. PICK x \in S : e = EntryOf(x)
    BY <1>1 DEF Entries
  <2>2. PICK k \in 1 .. n : k = Cardinality(r[x])
    BY <1>12
  <2>3. at[k] = x
    BY <1>12, <1>15, <2>2
  <2> QED
    BY <1>16, <2>1, <2>3
<1>19. ASSUME NEW i \in DOMAIN q, NEW j \in DOMAIN q, i < j
       PROVE  <<q[i].order_id, q[j].order_id>> \in Pairs
  <2>1. i \in 1 .. n /\ j \in 1 .. n /\ at[i] \in S /\ at[j] \in S
        /\ Cardinality(r[at[i]]) = i /\ Cardinality(r[at[j]]) = j
    BY <1>15, <1>16
  <2>2. at[i] # at[j]
    BY <1>12, <1>19, <2>1
  <2>3. ~ Ahead(at[j], at[i])
    <3>1. SUFFICES ASSUME Ahead(at[j], at[i]) PROVE FALSE
      OBVIOUS
    <3>2. r[at[j]] \subseteq r[at[i]]
      BY <1>9, <2>1, <3>1
    <3>3. IsFiniteSet(r[at[i]])
      BY <1>5, <1>8, <2>1, FS_Subset
    <3>4. Cardinality(r[at[j]]) <= Cardinality(r[at[i]])
      BY <3>2, <3>3, FS_Subset
    <3> QED
      BY <1>12, <1>19, <2>1, <3>4
  <2>4. Ahead(at[i], at[j])
    BY <1>7, <2>1, <2>2, <2>3
  <2>5. at[i] \in OrderIds /\ Live(at[i]) /\ at[j] \in OrderIds /\ Live(at[j])
    BY <1>1, <2>1 DEF RestingOn
  <2>6. <<at[i], at[j]>> \in Pairs
    BY <2>4, <2>5 DEF Pairs
  <2> QED
    BY <1>16, <2>1, <2>6
<1> QED
  BY <1>4, <1>17, <1>18, <1>19 DEF Lists

-----------------------------------------------------------------------------
(* The queues, read *)

(* What Standing is. *)
StandingIs ==
  /\ Asymmetric(Pairs)
  /\ Standing = [s \in Side |-> Standing[s]]
  /\ \A s \in Side : Lists(Standing[s], Entries(s), Pairs)

(* In every state the queues are those listings. *)
LEMMA StandingNow == IInv => StandingIs
<1> SUFFICES ASSUME IInv PROVE StandingIs
  OBVIOUS
<1>1. TypeOK /\ IndexConsistent /\ LiveIsFinite
  BY DEF IInv
<1>2. \A s \in Side : Lists(Priority(s), Entries(s), Pairs)
  BY <1>1, PriorityLists
<1>3. Standing = [s \in Side |-> Priority(s)]
  BY DEF Standing
<1>4. \A s \in Side : Standing[s] = Priority(s)
  BY <1>3
<1> QED
  BY <1>1, <1>2, <1>3, <1>4, PairsAreAsymmetric DEF StandingIs

(* And in the next one. *)
LEMMA StandingNext == IInv' => StandingIs'
BY StandingNow, PTL

(* Each member of the queues is a resting order's entry. *)
LEMMA StandingEntry ==
  ASSUME IInv, NEW s \in Side, NEW i \in DOMAIN Standing[s]
  PROVE  \E id \in OrderIds :
           /\ Live(id) /\ orders_lookup[id].side = s /\ orders_lookup[id] \in Order
           /\ Standing[s][i] = EntryOf(id) /\ Standing[s][i].order_id = id
           /\ Standing[s][i].price = orders_lookup[id].price
           /\ Standing[s][i].remaining_quantity = orders_lookup[id].remaining_quantity
<1>1. Lists(Standing[s], Entries(s), Pairs)
  BY StandingNow DEF StandingIs
<1>2. Standing[s][i] \in Entries(s)
  BY <1>1 DEF Lists
<1>3. PICK id \in RestingOn(s) : Standing[s][i] = EntryOf(id)
  BY <1>2 DEF Entries
<1>4. id \in OrderIds /\ Live(id) /\ orders_lookup[id].side = s
  BY DEF RestingOn
<1>5. orders_lookup[id] \in Order
  BY <1>4, LiveOrder DEF IInv
<1> QED
  BY <1>3, <1>4, <1>5 DEF EntryOf

(* Each resting order is in its queue. *)
LEMMA StandingHolds ==
  ASSUME IInv, NEW id \in OrderIds, Live(id)
  PROVE  \E i \in DOMAIN Standing[orders_lookup[id].side] :
           /\ Standing[orders_lookup[id].side][i] = EntryOf(id)
           /\ Standing[orders_lookup[id].side][i].order_id = id
<1>1. orders_lookup[id].side \in Side
  BY LiveOrder DEF IInv
<1>2. Lists(Standing[orders_lookup[id].side], Entries(orders_lookup[id].side), Pairs)
  BY <1>1, StandingNow DEF StandingIs
<1>3. EntryOf(id) \in Entries(orders_lookup[id].side)
  BY DEF Entries, RestingOn
<1>4. EntryOf(id).order_id = id
  BY DEF EntryOf
<1> QED
  BY <1>2, <1>3, <1>4 DEF Lists

(* An order has one place, before those it has priority over. *)
LEMMA StandingOnce ==
  ASSUME IInv, NEW s \in Side
  PROVE  /\ \A i, j \in DOMAIN Standing[s] :
              Standing[s][i].order_id = Standing[s][j].order_id => i = j
         /\ \A i, j \in DOMAIN Standing[s] :
              i < j => ~ Ahead(Standing[s][j].order_id, Standing[s][i].order_id)
<1>1. Lists(Standing[s], Entries(s), Pairs) /\ Asymmetric(Pairs)
  BY StandingNow DEF StandingIs
<1>2. ASSUME NEW i \in DOMAIN Standing[s], NEW j \in DOMAIN Standing[s], i < j,
             Ahead(Standing[s][j].order_id, Standing[s][i].order_id)
      PROVE  FALSE
  <2>1. <<Standing[s][i].order_id, Standing[s][j].order_id>> \in Pairs
    BY <1>1, <1>2 DEF Lists
  <2>2. <<Standing[s][j].order_id, Standing[s][i].order_id>> \in Pairs
    BY <1>2, <2>1 DEF Pairs
  <2> QED
    BY <1>1, <2>1, <2>2 DEF Asymmetric
<1> QED
  BY <1>1, <1>2, ListedOnce

(* The queues make a book of PriorityRules. *)
LEMMA StandingType ==
  ASSUME IInv
  PROVE  Standing \in Book(OrderIds, Prices)
<1>1. ASSUME NEW s \in Side
      PROVE  Standing[s] \in Seq(Entry(OrderIds, Prices))
  <2>1. Lists(Standing[s], Entries(s), Pairs)
    BY StandingNow DEF StandingIs
  <2>2. Entries(s) \subseteq Entry(OrderIds, Prices)
    BY RestingOrder DEF Entries, IInv
  <2> QED
    BY <2>1, <2>2 DEF Lists
<1>2. Standing = [s \in Side |-> Standing[s]]
  BY StandingNow DEF StandingIs
<1> QED
  BY <1>1, <1>2 DEF Book

ListItFinds ==
  \A x \in OrderIds : Live(x) =>
    /\ list_it(x) \in DOMAIN orders[orders_lookup[x].side][orders_lookup[x].price]
    /\ orders[orders_lookup[x].side][orders_lookup[x].price][list_it(x)] = x

(* list_it finds every resting order, in the next state too. *)
LEMMA ListItFindsNext == IInv' => ListItFinds'
<1>1. IInv => ListItFinds
  BY ListIt DEF ListItFinds, IInv
<1> QED
  BY <1>1, PTL

(* Orders that rest before and after a step keep their priority. *)
LEMMA PriorityKept ==
  ASSUME IInv, IInv', [Next]_vars,
         NEW a, NEW b, <<a, b>> \in Pairs, Live(a)', Live(b)'
  PROVE  <<a, b>> \in Pairs'
<1>1. a \in OrderIds /\ b \in OrderIds /\ Live(a) /\ Live(b) /\ Ahead(a, b)
  BY DEF Pairs
<1>2. TypeOK /\ IndexConsistent /\ CallConsistent /\ SweepPosition
  BY DEF IInv
<1>3. Shrinks /\ NobodyOvertakes
  BY <1>2, ShrinkStep, FifoStep
<1>4. ASSUME NEW x \in OrderIds, Live(x), Live(x)'
      PROVE  /\ orders_lookup[x].side \in Side /\ orders_lookup[x].price \in Prices
             /\ orders_lookup'[x].side = orders_lookup[x].side
             /\ orders_lookup'[x].price = orders_lookup[x].price
  <2>1. PICK qty \in 1 .. orders_lookup[x].remaining_quantity :
          orders_lookup'[x] = [orders_lookup[x] EXCEPT !.remaining_quantity = qty]
    BY <1>3, <1>4 DEF Shrinks, Live
  <2>2. orders_lookup[x] \in Order
    BY <1>2, <1>4, LiveOrder
  <2> QED
    BY <2>1, <2>2 DEF Order
<1>5. PICK s \in Side : s = orders_lookup[a].side
  BY <1>1, <1>2, LiveOrder
<1>6. /\ orders_lookup[a].side = s /\ orders_lookup[b].side = s
      /\ orders_lookup'[a].side = s /\ orders_lookup'[b].side = s
      /\ orders_lookup'[a].price = orders_lookup[a].price
      /\ orders_lookup'[b].price = orders_lookup[b].price
  BY <1>1, <1>4, <1>5 DEF Ahead
<1>7. CASE orders_lookup[a].price # orders_lookup[b].price
  <2>1. Ahead(a, b)'
    BY <1>1, <1>6, <1>7 DEF Ahead
  <2> QED
    BY <1>1, <2>1 DEF Pairs
<1>8. CASE orders_lookup[a].price = orders_lookup[b].price
  <2>1. PICK p \in Prices : p = orders_lookup[a].price
    BY <1>1, <1>2, LiveOrder
  <2>2. list_it(a) < list_it(b)
    <3>1. p \in Int /\ ~ Before(s, p, p)
      BY NumberAssumption DEF Before
    <3> QED
      BY <1>1, <1>6, <1>8, <2>1, <3>1 DEF Ahead
  <2>3. PICK k, l : k = list_it(a) /\ l = list_it(b)
    OBVIOUS
  <2>4. k \in DOMAIN orders[s][p] /\ orders[s][p][k] = a
        /\ l \in DOMAIN orders[s][p] /\ orders[s][p][l] = b
    BY <1>1, <1>2, <1>6, <1>8, <2>1, <2>3, ListIt
  <2>5. ListItFinds'
    BY ListItFindsNext
  <2>6. TypeOK' /\ IndexConsistent'
    BY DEF IInv
  <2>7. PICK i, j : i = list_it(a)' /\ j = list_it(b)'
    OBVIOUS
  <2>8. /\ i \in DOMAIN orders'[s][p] /\ orders'[s][p][i] = a
        /\ j \in DOMAIN orders'[s][p] /\ orders'[s][p][j] = b
    BY <1>1, <1>6, <1>8, <2>1, <2>5, <2>7 DEF ListItFinds
  <2>9. i \in Int /\ j \in Int
    BY <1>5, <2>1, <2>6, <2>8 DEF TypeOK
  <2>10. a # b
    BY <2>2, <2>3, <2>4, <1>2 DEF TypeOK
  <2>11. ~ (j < i)
    <3>1. SUFFICES ASSUME j < i PROVE FALSE
      OBVIOUS
    <3>2. orders'[s][p][i] \in ToSet(orders[s][p])
      BY <2>4, <2>8 DEF ToSet
    <3>3. \E m, n \in DOMAIN orders[s][p] :
            m < n /\ orders[s][p][m] = orders'[s][p][j] /\ orders[s][p][n] = orders'[s][p][i]
      BY <1>3, <2>8, <3>1, <3>2 DEF NobodyOvertakes
    <3>4. PICK m, n \in DOMAIN orders[s][p] :
            m < n /\ orders[s][p][m] = b /\ orders[s][p][n] = a
      BY <2>8, <3>3
    <3>5. m = l /\ n = k
      BY <1>2, <2>4, <3>4 DEF IndexConsistent, QueuedOnce
    <3>6. k \in Int /\ l \in Int
      BY <1>2, <2>4 DEF TypeOK
    <3> QED
      BY <2>2, <2>3, <3>4, <3>5, <3>6
  <2>12. i < j
    BY <2>8, <2>9, <2>10, <2>11
  <2>13. Ahead(a, b)'
    BY <1>6, <1>8, <2>7, <2>12 DEF Ahead
  <2> QED
    BY <1>1, <2>13 DEF Pairs
<1> QED
  BY <1>7, <1>8

-----------------------------------------------------------------------------
(* How a step that takes away, or makes smaller, changes a queue *)

(* A lookup from which id is gone; one in which id wants qty. *)
Gone(id) == orders_lookup' = [orders_lookup EXCEPT ![id] = NoOrder]

Resized(id, qty) ==
  orders_lookup' = [orders_lookup EXCEPT ![id].remaining_quantity = qty]

(* The queue of a side after a step is the one list of its entries that the  *)
(* order after the step allows.                                              *)
LEMMA ListedNext ==
  ASSUME IInv', NEW s \in Side, NEW q, Lists(q, Entries(s)', Pairs')
  PROVE  Standing'[s] = q
<1>1. Asymmetric(Pairs') /\ Lists(Standing'[s], Entries(s)', Pairs')
  BY StandingNext DEF StandingIs
<1>2. PICK S : S = Entries(s)'
  OBVIOUS
<1>3. PICK P : P = Pairs'
  OBVIOUS
<1>4. PICK p : p = Standing'[s]
  OBVIOUS
<1>5. Asymmetric(P) /\ Lists(p, S, P) /\ Lists(q, S, P)
  BY <1>1, <1>2, <1>3, <1>4
<1>6. p = q
  BY <1>5, ListedOneWay
<1> QED
  BY <1>4, <1>6

(* Those who stay listed keep their order. *)
LEMMA ListedStill ==
  ASSUME IInv, IInv', [Next]_vars, NEW S, NEW q, Lists(q, S, Pairs),
         \A e \in S : Live(e.order_id)'
  PROVE  Lists(q, S, Pairs')
<1>1. PICK P : P = Pairs
  OBVIOUS
<1>2. PICK R : R = Pairs'
  OBVIOUS
<1>3. \A e, m \in S : <<e.order_id, m.order_id>> \in P => <<e.order_id, m.order_id>> \in R
  BY <1>1, <1>2, PriorityKept
<1>4. Lists(q, S, P)
  BY <1>1
<1>5. Lists(q, S, R)
  BY ONLY <1>3, <1>4, ListedToo
<1> QED
  BY <1>2, <1>5

(* Every entry is that of a live order. *)
LEMMA EntryIsLive ==
  ASSUME IInv, NEW s \in Side, NEW e \in Entries(s)
  PROVE  /\ e.order_id \in OrderIds /\ Live(e.order_id)
         /\ orders_lookup[e.order_id].side = s /\ e = EntryOf(e.order_id)
<1>1. PICK id \in RestingOn(s) : e = EntryOf(id)
  BY DEF Entries
<1>2. id \in OrderIds /\ Live(id) /\ orders_lookup[id].side = s /\ EntryOf(id).order_id = id
  BY <1>1, RestingOrder DEF IInv
<1> QED
  BY <1>1, <1>2

(* The same, said of every side, so that it can be said of the next state.   *)
EntriesAreLive ==
  \A s \in Side : \A e \in Entries(s) :
    /\ e.order_id \in OrderIds /\ Live(e.order_id)
    /\ orders_lookup[e.order_id].side = s /\ e = EntryOf(e.order_id)

(* In the next state too. *)
LEMMA EntryIsLiveNext == IInv' => EntriesAreLive'
<1>1. IInv => EntriesAreLive
  BY EntryIsLive DEF EntriesAreLive
<1> QED
  BY <1>1, PTL

(* A step that leaves the entries of a side leaves its queue. *)
LEMMA SameEntries ==
  ASSUME IInv, IInv', [Next]_vars, NEW s \in Side, Entries(s)' = Entries(s)
  PROVE  Standing'[s] = Standing[s]
<1>1. Lists(Standing[s], Entries(s), Pairs)
  BY StandingNow DEF StandingIs
<1>2. \A e \in Entries(s) : Live(e.order_id)'
  BY EntryIsLiveNext DEF EntriesAreLive
<1>3. Lists(Standing[s], Entries(s), Pairs')
  BY <1>1, <1>2, ListedStill
<1> QED
  BY <1>3, ListedNext

(* A step that takes entries away takes them out of the queue. *)
LEMMA FewerEntries ==
  ASSUME IInv, IInv', [Next]_vars, NEW s \in Side, Entries(s)' \subseteq Entries(s),
         NEW at, at = {i \in DOMAIN Standing[s] : Standing[s][i] \in Entries(s)'}
  PROVE  Standing'[s] = Chosen(Standing[s], at)
<1>1. PICK Z : Z = Entries(s)'
  OBVIOUS
<1>2. PICK S : S = Entries(s)
  OBVIOUS
<1>3. PICK P : P = Pairs
  OBVIOUS
<1>4. PICK q : q = Standing[s]
  OBVIOUS
<1>5. Lists(q, S, P)
  BY <1>2, <1>3, <1>4, StandingNow DEF StandingIs
<1>6. Z \in SUBSET S /\ at = {i \in DOMAIN q : q[i] \in Z}
  BY <1>1, <1>2, <1>4
<1>7. Lists(Chosen(q, at), Z, P)
  BY ONLY <1>5, <1>6, ListedFewer
<1>8. \A e \in Z : Live(e.order_id)'
  BY <1>1, EntryIsLiveNext DEF EntriesAreLive
<1>9. Lists(Chosen(q, at), Z, Pairs')
  BY <1>3, <1>7, <1>8, ListedStill
<1> QED
  BY <1>1, <1>4, <1>9, ListedNext

(* A step that changes one entry changes it where it stands. *)
LEMMA OtherEntry ==
  ASSUME IInv, IInv', [Next]_vars, NEW s \in Side, NEW f \in DOMAIN Standing[s],
         NEW e, e.order_id = Standing[s][f].order_id,
         Entries(s)' = (Entries(s) \ {Standing[s][f]}) \cup {e}
  PROVE  Standing'[s] = [Standing[s] EXCEPT ![f] = e]
<1>1. PICK Z : Z = Entries(s)'
  OBVIOUS
<1>2. PICK S : S = Entries(s)
  OBVIOUS
<1>3. PICK P : P = Pairs
  OBVIOUS
<1>4. PICK q : q = Standing[s]
  OBVIOUS
<1>5. Lists(q, S, P) /\ Asymmetric(P)
  BY <1>2, <1>3, <1>4, StandingNow DEF StandingIs
<1>6. f \in DOMAIN q /\ e.order_id = q[f].order_id /\ Z = (S \ {q[f]}) \cup {e}
  BY <1>1, <1>2, <1>4
<1>7. Lists([q EXCEPT ![f] = e], Z, P)
  BY ONLY <1>5, <1>6, ListedChanged
<1>8. \A m \in Z : Live(m.order_id)'
  BY <1>1, EntryIsLiveNext DEF EntriesAreLive
<1>9. Lists([q EXCEPT ![f] = e], Z, Pairs')
  BY <1>3, <1>7, <1>8, ListedStill
<1> QED
  BY <1>1, <1>4, <1>9, ListedNext

-----------------------------------------------------------------------------

(* No change of the lookup, no change of the queues. *)
LEMMA SameStanding ==
  ASSUME IInv, IInv', [Next]_vars, UNCHANGED orders_lookup
  PROVE  Standing' = Standing
<1>1. ASSUME NEW s \in Side PROVE Standing'[s] = Standing[s]
  <2>1. Entries(s)' = Entries(s)
    BY DEF Entries, RestingOn, EntryOf, Live
  <2> QED
    BY <2>1, SameEntries
<1>2. /\ Standing = [s \in Side |-> Standing[s]]
      /\ Standing' = [s \in Side |-> Standing'[s]]
  BY StandingNow, StandingNext DEF StandingIs
<1>3. [s \in Side |-> Standing[s]] = [s \in Side |-> Standing'[s]]
  BY <1>1, Zenon
<1> QED
  BY <1>2, <1>3, Zenon

(* An order taken out of the lookup is taken out of its queue. *)
LEMMA GoneFromStanding ==
  ASSUME IInv, IInv', [Next]_vars, NEW id \in OrderIds, Gone(id)
  PROVE  Standing' = Without(Standing, id)
<1>1. \A x \in OrderIds : orders_lookup'[x] = IF x = id THEN NoOrder ELSE orders_lookup[x]
  BY DEF Gone, IInv, TypeOK
<1>2. ASSUME NEW s \in Side
      PROVE  Standing'[s] = Chosen(Standing[s],
                                   {i \in DOMAIN Standing[s] : Standing[s][i].order_id # id})
  <2>1. RestingOn(s)' = RestingOn(s) \ {id}
    BY <1>1 DEF RestingOn, Live
  <2>2. \A x \in RestingOn(s)' : EntryOf(x)' = EntryOf(x)
    BY <1>1, <2>1 DEF EntryOf, RestingOn
  <2>3. Entries(s)' = {EntryOf(x)' : x \in RestingOn(s)'}
    BY DEF Entries
  <2>4. Entries(s)' = {EntryOf(x) : x \in RestingOn(s) \ {id}}
    BY <2>1, <2>2, <2>3
  <2>5. \A x \in RestingOn(s) : EntryOf(x).order_id = x
    BY DEF EntryOf
  <2>6. Entries(s)' = {e \in Entries(s) : e.order_id # id}
    BY <2>4, <2>5 DEF Entries
  <2>7. PICK at : at = {i \in DOMAIN Standing[s] : Standing[s][i].order_id # id}
    OBVIOUS
  <2>8. \A i \in DOMAIN Standing[s] : Standing[s][i] \in Entries(s)
    <3>1. Lists(Standing[s], Entries(s), Pairs)
      BY StandingNow DEF StandingIs
    <3> QED
      BY <3>1 DEF Lists
  <2>9. at = {i \in DOMAIN Standing[s] : Standing[s][i] \in Entries(s)'}
    BY <2>6, <2>7, <2>8
  <2>10. Entries(s)' \subseteq Entries(s)
    BY <2>6
  <2>11. Standing'[s] = Chosen(Standing[s], at)
    BY <2>9, <2>10, FewerEntries
  <2> QED
    BY <2>7, <2>11
<1>3. Standing' = [s \in Side |-> Standing'[s]]
  BY StandingNext DEF StandingIs
<1>4. [s \in Side |-> Standing'[s]]
        = [s \in Side |-> Chosen(Standing[s],
             {i \in DOMAIN Standing[s] : Standing[s][i].order_id # id})]
  BY <1>2, Zenon
<1> QED
  BY <1>3, <1>4, Zenon DEF Without

(* An order with another quantity has it where it stands in its queue. *)
LEMMA ResizedInStanding ==
  ASSUME IInv, IInv', [Next]_vars, NEW id \in OrderIds, Live(id),
         NEW qty \in Nat \ {0}, Resized(id, qty), NEW s, s = orders_lookup[id].side,
         NEW f \in DOMAIN Standing[s], Standing[s][f].order_id = id
  PROVE  Standing' = [Standing EXCEPT ![s][f].remaining_quantity = qty]
<1>0. s \in Side /\ orders_lookup[id] \in Order
  BY LiveOrder DEF IInv
<1>1. /\ \A x \in OrderIds : x # id => orders_lookup'[x] = orders_lookup[x]
      /\ orders_lookup'[id] = [orders_lookup[id] EXCEPT !.remaining_quantity = qty]
  BY DEF Resized, IInv, TypeOK
<1>2. orders_lookup'[id] \in Order /\ orders_lookup'[id].side = s
  BY <1>0, <1>1, ResizedOrder
<1>3. \A x \in OrderIds : Live(x)' <=> Live(x)
  BY <1>1, <1>2, NoOrderAssumption DEF Live
<1>4. ASSUME NEW t \in Side PROVE RestingOn(t)' = RestingOn(t)
  <2>1. ASSUME NEW x \in OrderIds
        PROVE  (Live(x)' /\ orders_lookup'[x].side = t) <=> (Live(x) /\ orders_lookup[x].side = t)
    BY <1>1, <1>2, <1>3
  <2>2. RestingOn(t)' = {x \in OrderIds : Live(x)' /\ orders_lookup'[x].side = t}
    BY DEF RestingOn
  <2> QED
    BY <2>1, <2>2 DEF RestingOn
<1>5. PICK e : e = [Standing[s][f] EXCEPT !.remaining_quantity = qty]
  OBVIOUS
<1>6. Standing[s][f] = EntryOf(id) /\ id \in RestingOn(s)
  <2>1. PICK x \in OrderIds : Standing[s][f] = EntryOf(x) /\ Standing[s][f].order_id = x
    BY <1>0, StandingEntry
  <2> QED
    BY <2>1 DEF RestingOn
<1>7. EntryOf(id)' = e /\ e.order_id = id
  BY <1>0, <1>1, <1>5, <1>6 DEF EntryOf, Order
<1>8. Standing'[s] = [Standing[s] EXCEPT ![f] = e]
  <2>1. Entries(s)' = (Entries(s) \ {Standing[s][f]}) \cup {e}
    <3>1. Entries(s)' = {EntryOf(x)' : x \in RestingOn(s)}
      BY <1>0, <1>4 DEF Entries
    <3>2. \A x \in RestingOn(s) : x # id => EntryOf(x)' = EntryOf(x)
      BY <1>1 DEF EntryOf, RestingOn
    <3>3. \A x \in RestingOn(s) : EntryOf(x).order_id = x
      BY DEF EntryOf
    <3>4. Entries(s) \ {EntryOf(id)} = {EntryOf(x) : x \in RestingOn(s) \ {id}}
      BY <1>6, <3>3 DEF Entries
    <3> QED
      BY <1>6, <1>7, <3>1, <3>2, <3>4
  <2>2. e.order_id = Standing[s][f].order_id
    BY <1>7
  <2> QED
    BY <1>0, <2>1, <2>2, OtherEntry
<1>9. ASSUME NEW t \in Side, t # s PROVE Standing'[t] = Standing[t]
  <2>1. id \notin RestingOn(t)
    BY <1>9 DEF RestingOn
  <2>2. Entries(t)' = {EntryOf(x)' : x \in RestingOn(t)}
    BY <1>4 DEF Entries
  <2>3. \A x \in RestingOn(t) : EntryOf(x)' = EntryOf(x)
    BY <1>1, <2>1 DEF EntryOf, RestingOn
  <2>4. Entries(t)' = Entries(t)
    BY <2>2, <2>3 DEF Entries
  <2> QED
    BY <2>4, SameEntries
<1>10. PICK b, c : b = Standing /\ c = Standing'
  OBVIOUS
<1>11. b = [t \in Side |-> b[t]] /\ c = [t \in Side |-> c[t]]
  BY <1>10, StandingNow, StandingNext DEF StandingIs
<1>12. c[s] = [b[s] EXCEPT ![f] = [b[s][f] EXCEPT !.remaining_quantity = qty]]
       /\ \A t \in Side : t # s => c[t] = b[t]
  BY <1>5, <1>8, <1>9, <1>10
<1>13. c = [b EXCEPT ![s][f].remaining_quantity = qty]
  BY ONLY <1>0, <1>11, <1>12
<1> QED
  BY <1>10, <1>13

-----------------------------------------------------------------------------
(* How an order that rests joins its queue *)

(* What add_resting_order leaves: the newcomer in the lookup, last in its    *)
(* level; the others as they were.                                           *)
Joined ==
  /\ taker.order_id \in OrderIds /\ ~ Live(taker.order_id)
  /\ orders_lookup'[taker.order_id] # NoOrder
  /\ orders_lookup'[taker.order_id] =
       [side |-> taker.side, order_type |-> taker.order_type, price |-> taker.price,
        remaining_quantity |-> taker.remaining_quantity]
  /\ \A x \in OrderIds : x # taker.order_id => orders_lookup'[x] = orders_lookup[x]
  /\ orders'[taker.side][taker.price]
       = Append(orders[taker.side][taker.price], taker.order_id)

(* add_resting_order leaves the order in the lookup and last in its level. *)
LEMMA RestJoins ==
  ASSUME IInv, taker # NoOrder, taker.remaining_quantity > 0, add_resting_order
  PROVE  Joined
<1>1. TypeOK /\ CallConsistent
  BY DEF IInv
<1>2. /\ taker.order_id \in OrderIds /\ taker.side \in Side /\ taker.price \in Prices
      /\ taker.order_type \in OrderType /\ taker.remaining_quantity \in Nat \ {0}
  BY <1>1, TakerType
<1>3. PICK o : o = [side |-> taker.side, order_type |-> taker.order_type,
                    price |-> taker.price, remaining_quantity |-> taker.remaining_quantity]
  OBVIOUS
<1>4. o \in Order /\ o # NoOrder
  BY <1>2, <1>3, NoOrderAssumption DEF Order
<1>5. orders_lookup' = [orders_lookup EXCEPT ![taker.order_id] = o]
  BY <1>3 DEF add_resting_order
<1>6. \A x \in OrderIds :
        orders_lookup'[x] = IF x = taker.order_id THEN o ELSE orders_lookup[x]
  BY <1>1, <1>5 DEF TypeOK
<1>7. orders' = [orders EXCEPT ![taker.side][taker.price] =
                   Append(orders[taker.side][taker.price], taker.order_id)]
  BY DEF add_resting_order, SetLevel
<1>8. orders'[taker.side][taker.price]
        = Append(orders[taker.side][taker.price], taker.order_id)
  BY <1>1, <1>2, <1>7 DEF TypeOK
<1>9. ~ Live(taker.order_id)
  BY <1>1 DEF CallConsistent
<1>10. orders_lookup'[taker.order_id] # NoOrder
  BY <1>2, <1>4, <1>6
<1> QED
  BY <1>2, <1>3, <1>6, <1>8, <1>9, <1>10 DEF Joined

(* The newcomer's place: behind the better prices and its own level.         *)
LEMMA NewcomerJoins ==
  ASSUME IInv, IInv', [Next]_vars, taker # NoOrder, Joined
  PROVE  Joins(taker, Entries(taker.side), Pairs, Pairs')
<1>1. TypeOK /\ IndexConsistent /\ TypeOK' /\ IndexConsistent'
  BY DEF IInv
<1>2. PICK s \in Side : s = taker.side
  BY <1>1, TakerType
<1>3. PICK id \in OrderIds : id = taker.order_id
  BY DEF Joined
<1>4. PICK p \in Prices : p = taker.price
  BY <1>1, TakerType
<1>5. /\ ~ Live(id) /\ Live(id)' /\ orders_lookup'[id].side = s /\ orders_lookup'[id].price = p
      /\ \A x \in OrderIds : x # id => orders_lookup'[x] = orders_lookup[x]
      /\ orders'[s][p] = Append(orders[s][p], id)
  BY <1>2, <1>3, <1>4 DEF Joined, Live
<1>6. ASSUME NEW e \in Entries(s)
      PROVE  /\ e.order_id \in OrderIds /\ e.order_id # id
             /\ Live(e.order_id) /\ Live(e.order_id)'
             /\ orders_lookup[e.order_id].side = s
             /\ orders_lookup'[e.order_id] = orders_lookup[e.order_id]
             /\ e.price = orders_lookup[e.order_id].price
             /\ e.price \in Prices /\ e.price \in Int
  <2>1. /\ e.order_id \in OrderIds /\ Live(e.order_id)
        /\ orders_lookup[e.order_id].side = s /\ e = EntryOf(e.order_id)
    BY EntryIsLive
  <2>2. e.order_id # id /\ orders_lookup'[e.order_id] = orders_lookup[e.order_id]
    BY <1>5, <2>1
  <2>3. e.price = orders_lookup[e.order_id].price
    BY <2>1 DEF EntryOf
  <2>4. Live(e.order_id)'
    BY <2>1, <2>2 DEF Live
  <2>5. e.price \in Prices
    BY <1>1, <2>1, <2>3, LiveOrder
  <2> QED
    BY <2>1, <2>2, <2>3, <2>4, <2>5, NumberAssumption
<1>7. ASSUME NEW e \in Entries(s), NEW m \in Entries(s), <<e.order_id, m.order_id>> \in Pairs
      PROVE  <<e.order_id, m.order_id>> \in Pairs' /\ ~ Before(s, m.price, e.price)
  <2>1. <<e.order_id, m.order_id>> \in Pairs'
    BY <1>6, <1>7, PriorityKept
  <2>2. Ahead(e.order_id, m.order_id)
    BY <1>7 DEF Pairs
  <2>3. Before(s, e.price, m.price) \/ e.price = m.price
    BY <1>6, <2>2 DEF Ahead
  <2>4. ~ Before(s, m.price, e.price)
    BY <1>6, <2>3 DEF Before
  <2> QED
    BY <2>1, <2>4
<1>8. ASSUME NEW e \in Entries(s), Before(s, p, e.price)
      PROVE  <<id, e.order_id>> \in Pairs'
  <2>1. Ahead(id, e.order_id)'
    BY <1>5, <1>6, <1>8 DEF Ahead
  <2> QED
    BY <1>5, <1>6, <2>1 DEF Pairs
<1>9. ASSUME NEW e \in Entries(s), ~ Before(s, p, e.price)
      PROVE  <<e.order_id, id>> \in Pairs'
  <2>1. PICK x \in OrderIds : x = e.order_id
    BY <1>6
  <2>2. p \in Int
    BY NumberAssumption
  <2>3. CASE e.price # p
    <3>1. Before(s, e.price, p)
      BY <1>6, <1>9, <2>2, <2>3 DEF Before
    <3>2. Ahead(x, id)'
      BY <1>5, <1>6, <2>1, <3>1 DEF Ahead
    <3> QED
      BY <1>5, <1>6, <2>1, <3>2 DEF Pairs
  <2>4. CASE e.price = p
    <3>1. ListItFinds'
      BY ListItFindsNext
    <3>2. PICK k, l : k = list_it(x)' /\ l = list_it(id)'
      OBVIOUS
    <3>3. /\ orders_lookup'[x].side = s /\ orders_lookup'[x].price = p /\ Live(x)'
          /\ x # id /\ orders_lookup[x].side = s /\ orders_lookup[x].price = p /\ Live(x)
      BY <1>6, <2>1, <2>4
    <3>4. /\ k \in DOMAIN orders'[s][p] /\ orders'[s][p][k] = x
          /\ l \in DOMAIN orders'[s][p] /\ orders'[s][p][l] = id
      BY <1>5, <3>1, <3>2, <3>3 DEF ListItFinds
    <3>5. PICK list \in Seq(OrderIds) : list = orders[s][p]
      BY <1>1 DEF TypeOK
    <3>6. orders'[s][p] = Append(list, id) /\ \A i \in DOMAIN list : list[i] # id
      BY <1>1, <1>5, <3>5 DEF IndexConsistent, QueuedOrdersAreLive
    <3>7. k < l
      BY <3>3, <3>4, <3>5, <3>6, AppendElements
    <3>8. Ahead(x, id)'
      BY <1>5, <3>2, <3>3, <3>7 DEF Ahead
    <3> QED
      BY <1>5, <2>1, <3>3, <3>8 DEF Pairs
  <2> QED
    BY <2>3, <2>4
<1>10. \A e \in Entries(s) : e.price \in Int
  BY <1>6
<1> QED
  BY <1>2, <1>3, <1>4, <1>7, <1>8, <1>9, <1>10 DEF Joins

(* An order that rests joins its queue where the rules put it. *)
LEMMA JoinedStanding ==
  ASSUME IInv, IInv', [Next]_vars, taker # NoOrder, Joined
  PROVE  Standing' = [Standing EXCEPT ![taker.side] =
                        Queued(@, taker, taker.remaining_quantity)]
<1>1. TypeOK
  BY DEF IInv
<1>2. PICK s \in Side : s = taker.side
  BY <1>1, TakerType
<1>3. PICK id \in OrderIds : id = taker.order_id
  BY DEF Joined
<1>4. PICK qty : qty = taker.remaining_quantity
  OBVIOUS
<1>5. /\ ~ Live(id) /\ Live(id)' /\ orders_lookup'[id].side = s
      /\ \A x \in OrderIds : x # id => orders_lookup'[x] = orders_lookup[x]
  BY <1>2, <1>3 DEF Joined, Live
<1>6. EntryOf(id)' = NewEntry(taker, qty)
  BY <1>3, <1>4 DEF Joined, EntryOf, NewEntry
<1>7. ASSUME NEW t \in Side, t # s PROVE Standing'[t] = Standing[t]
  <2>1. RestingOn(t)' = RestingOn(t)
    BY <1>5, <1>7 DEF RestingOn, Live
  <2>2. \A x \in RestingOn(t) : EntryOf(x)' = EntryOf(x)
    BY <1>5 DEF EntryOf, RestingOn
  <2>3. Entries(t)' = {EntryOf(x)' : x \in RestingOn(t)}
    BY <2>1 DEF Entries
  <2>4. Entries(t)' = Entries(t)
    BY <2>2, <2>3 DEF Entries
  <2> QED
    BY <2>4, SameEntries
<1>8. Standing'[s] = Queued(Standing[s], taker, qty)
  <2>1. RestingOn(s)' = RestingOn(s) \cup {id}
    BY <1>5 DEF RestingOn, Live
  <2>2. \A x \in RestingOn(s) : EntryOf(x)' = EntryOf(x)
    BY <1>5 DEF EntryOf, RestingOn
  <2>3. Entries(s)' = {EntryOf(x)' : x \in RestingOn(s) \cup {id}}
    BY <2>1 DEF Entries
  <2>4. Entries(s)' = Entries(s) \cup {NewEntry(taker, qty)}
    BY <1>6, <2>2, <2>3 DEF Entries
  <2>5. Joins(taker, Entries(s), Pairs, Pairs')
    BY <1>2, NewcomerJoins
  <2>6. Lists(Standing[s], Entries(s), Pairs)
    BY StandingNow DEF StandingIs
  <2>7. taker.price \in Int
    BY <1>1, TakerType, NumberAssumption
  <2>8. PICK S, P, R, q, o : S = Entries(s) /\ P = Pairs /\ R = Pairs' /\ q = Standing[s]
                             /\ o = taker
    OBVIOUS
  <2>9. Joins(o, S, P, R) /\ Lists(q, S, P) /\ o.price \in Int
    BY <2>5, <2>6, <2>7, <2>8
  <2>10. Lists(Queued(q, o, qty), S \cup {NewEntry(o, qty)}, R)
    BY ONLY <2>9, ListedNewcomer
  <2>11. PICK p : p = Queued(q, o, qty)
    OBVIOUS
  <2>12. Lists(p, Entries(s)', Pairs')
    BY <2>4, <2>8, <2>10, <2>11
  <2> QED
    BY <2>8, <2>11, <2>12, ListedNext
<1>9. PICK b, c : b = Standing /\ c = Standing'
  OBVIOUS
<1>10. b = [t \in Side |-> b[t]] /\ c = [t \in Side |-> c[t]]
  BY <1>9, StandingNow, StandingNext DEF StandingIs
<1>11. c = [b EXCEPT ![s] = Queued(b[s], taker, qty)]
  BY <1>7, <1>8, <1>9, <1>10
<1> QED
  BY <1>2, <1>4, <1>9, <1>11

-----------------------------------------------------------------------------
(* What the sweep takes, and what it leaves *)

(* An entry of the opposite side, read by the rules and by the code. *)
LEMMA EntryRead ==
  ASSUME IInv, taker # NoOrder, NEW i \in DOMAIN Standing[Opposite(taker.side)],
         NEW e, e = Standing[Opposite(taker.side)][i]
  PROVE  /\ e.order_id \in OrderIds /\ Live(e.order_id)
         /\ orders_lookup[e.order_id].side = Opposite(taker.side)
         /\ e.price = orders_lookup[e.order_id].price /\ e.price \in Int
         /\ e.remaining_quantity = orders_lookup[e.order_id].remaining_quantity
         /\ Barred(taker, e) <=> Blocked(e.order_id)
         /\ Acceptable(taker, e) <=> WithinLimit(orders_lookup[e.order_id].price)
         /\ i \in Countable(Standing, taker)
              <=> /\ WithinLimit(orders_lookup[e.order_id].price)
                  /\ ~ Blocked(e.order_id)
<1>1. Opposite(taker.side) \in Side
  BY TakerType DEF IInv
<1>2. PICK id \in OrderIds :
        /\ Live(id) /\ orders_lookup[id].side = Opposite(taker.side)
        /\ orders_lookup[id] \in Order /\ e.order_id = id
        /\ e.price = orders_lookup[id].price
        /\ e.remaining_quantity = orders_lookup[id].remaining_quantity
  BY <1>1, StandingEntry
<1>3. e.price \in Int
  BY <1>2, NumberAssumption DEF Order
<1>4. Barred(taker, e) <=> Blocked(id)
  BY <1>2 DEF Barred, Blocked
<1>5. Acceptable(taker, e) <=> WithinLimit(orders_lookup[id].price)
  BY <1>2 DEF Acceptable, WithinLimit
<1>6. i \in Countable(Standing, taker) <=> Acceptable(taker, e) /\ ~ Barred(taker, e)
  BY DEF Countable
<1> QED
  BY <1>2, <1>3, <1>4, <1>5, <1>6

(* The maker of a fill is the first that the rules reach. *)
LEMMA FirstIsMaker ==
  ASSUME IInv, [Next]_vars, taker # NoOrder, MatchMaker
  PROVE  \E f \in DOMAIN Standing[Opposite(taker.side)] :
           /\ FirstReached(f, Standing, taker)
           /\ Standing[Opposite(taker.side)][f] = EntryOf(Maker)
           /\ Standing[Opposite(taker.side)][f].order_id = Maker
<1>1. TypeOK /\ IndexConsistent /\ SweepPosition /\ InnerLoop /\ pc = "inner"
      /\ ~ Blocked(Maker)
  BY DEF IInv, MatchMaker, InnerLoop, Maker
<1>2. PICK s \in Side : s = Opposite(taker.side)
  BY <1>1, TakerType
<1>3. /\ Maker \in OrderIds /\ Live(Maker) /\ orders_lookup[Maker].side = s
      /\ orders_lookup[Maker].price = level_it
  BY <1>1, <1>2, MakerFacts
<1>4. PICK f \in DOMAIN Standing[s] :
        Standing[s][f] = EntryOf(Maker) /\ Standing[s][f].order_id = Maker
  BY <1>3, StandingHolds
<1>5. WithinLimit(level_it) /\ IsBest(s, level_it)
  BY <1>1, <1>2 DEF SweepPosition
<1>6. f \in Countable(Standing, taker)
  BY <1>1, <1>2, <1>3, <1>4, <1>5, EntryRead
<1>7. ASSUME NEW j \in DOMAIN Standing[s]
      PROVE  ~ Before(s, Standing[s][j].price, Standing[s][f].price)
  <2>1. PICK id \in OrderIds :
          /\ Live(id) /\ orders_lookup[id].side = s
          /\ Standing[s][j].price = orders_lookup[id].price
    BY <1>2, EntryRead
  <2>2. orders_lookup[id].price \in levels[s]
    BY <1>1, <2>1, PriceOfLive
  <2>3. orders_lookup[id].price = level_it \/ Before(s, level_it, orders_lookup[id].price)
    BY <1>5, <2>2 DEF IsBest
  <2>4. Standing[s][f].price = level_it
    BY <1>3, <1>4 DEF EntryOf
  <2>5. level_it \in Int /\ orders_lookup[id].price \in Int
    BY <1>1, <1>3, <2>1, LiveOrder, NumberAssumption
  <2> QED
    BY <2>1, <2>3, <2>4, <2>5 DEF Before
<1>8. f \in Reachable(Standing, taker)
  BY <1>2, <1>6, <1>7 DEF Reachable
<1>9. ASSUME NEW i \in Reachable(Standing, taker)
      PROVE  f <= i
  <2>1. i \in DOMAIN Standing[s] /\ i \in Countable(Standing, taker)
    BY <1>2 DEF Reachable, Countable
  <2>2. PICK e : e = Standing[s][i]
    OBVIOUS
  <2>3. /\ e.order_id \in OrderIds /\ Live(e.order_id) /\ orders_lookup[e.order_id].side = s
        /\ ~ Blocked(e.order_id)
    BY <1>2, <2>1, <2>2, EntryRead
  <2>4. e.order_id # Maker => Ahead(Maker, e.order_id)
    <3>1. TakesTheFirst
      BY <1>1, PriorityStep
    <3>2. PICK t : trades' = Append(trades, t) /\ t.maker_order_id = Maker
      BY <1>1, FillEffect
    <3>3. Len(trades) + 1 \in DOMAIN trades' \ DOMAIN trades
          /\ trades'[Len(trades) + 1].maker_order_id = Maker
      BY <1>1, <3>2 DEF TypeOK
    <3> QED
      BY <1>2, <2>3, <3>1, <3>3 DEF TakesTheFirst
  <2>5. ~ (i < f)
    <3>1. SUFFICES ASSUME i < f PROVE FALSE
      OBVIOUS
    <3>2. ~ Ahead(Standing[s][f].order_id, Standing[s][i].order_id)
      BY <2>1, <3>1, StandingOnce
    <3>3. Standing[s][f].order_id = Standing[s][i].order_id => i = f
      BY <2>1, StandingOnce
    <3>4. i \in Int /\ f \in Int
      BY <2>1, <1>2, StandingType, SeqPositions DEF Book
    <3> QED
      BY <1>4, <2>2, <2>4, <3>1, <3>2, <3>3, <3>4
  <2>6. i \in Int /\ f \in Int
    BY <2>1, <1>2, StandingType, SeqPositions DEF Book
  <2> QED
    BY <2>5, <2>6
<1> QED
  BY <1>2, <1>4, <1>8, <1>9 DEF FirstReached

(* Once the sweep is over, with quantity left, the rules reach nothing more. *)
LEMMA NothingIsReached ==
  ASSUME IInv, taker # NoOrder, pc = "swept", taker.remaining_quantity > 0
  PROVE  Reachable(Standing, taker) = {}
<1> SUFFICES ASSUME NEW i \in Reachable(Standing, taker) PROVE FALSE
  OBVIOUS
<1>1. PICK s \in Side : s = Opposite(taker.side)
  BY TakerType DEF IInv
<1>2. /\ i \in DOMAIN Standing[s] /\ i \in Countable(Standing, taker)
      /\ \A j \in DOMAIN Standing[s] :
           Before(s, Standing[s][j].price, Standing[s][i].price)
             => ~ Barred(taker, Standing[s][j])
  BY <1>1 DEF Reachable, Countable
<1>3. PICK e : e = Standing[s][i]
  OBVIOUS
<1>4. /\ e.order_id \in OrderIds /\ Live(e.order_id) /\ orders_lookup[e.order_id].side = s
      /\ ~ Blocked(e.order_id) /\ e.price = orders_lookup[e.order_id].price
      /\ WithinLimit(orders_lookup[e.order_id].price)
  BY <1>1, <1>2, <1>3, EntryRead
<1>5. PICK b \in OrderIds :
        /\ Live(b) /\ Blocked(b) /\ orders_lookup[b].side = s
        /\ Before(s, orders_lookup[b].price, e.price)
  BY <1>1, <1>4 DEF SweepIsComplete, IInv
<1>6. PICK j \in DOMAIN Standing[s] : Standing[s][j].order_id = b
  BY <1>5, StandingHolds
<1>7. Barred(taker, Standing[s][j]) /\ Standing[s][j].price = orders_lookup[b].price
  BY <1>1, <1>5, <1>6, EntryRead
<1> QED
  BY <1>2, <1>3, <1>5, <1>7

(* Taking out the one entry of an order leaves the others, and other sides.  *)
LEMMA WithoutOne ==
  ASSUME IInv, NEW s \in Side, NEW f \in DOMAIN Standing[s], NEW id,
         Standing[s][f].order_id = id
  PROVE  /\ Without(Standing, id)[s] = Chosen(Standing[s], DOMAIN Standing[s] \ {f})
         /\ \A t \in Side : t # s => Without(Standing, id)[t] = Standing[t]
<1>1. {i \in DOMAIN Standing[s] : Standing[s][i].order_id # id} = DOMAIN Standing[s] \ {f}
  BY StandingOnce
<1>2. ASSUME NEW t \in Side, t # s PROVE Without(Standing, id)[t] = Standing[t]
  <2>1. ASSUME NEW i \in DOMAIN Standing[t] PROVE Standing[t][i].order_id # id
    BY <1>2, StandingEntry
  <2>2. {i \in DOMAIN Standing[t] : Standing[t][i].order_id # id} = DOMAIN Standing[t]
    BY <2>1
  <2>3. Standing[t] \in Seq(Entry(OrderIds, Prices))
    BY StandingType DEF Book
  <2>4. Without(Standing, id)[t] = Chosen(Standing[t], DOMAIN Standing[t])
    BY <2>2 DEF Without
  <2> QED
    BY <2>3, <2>4, ChosenAll
<1>3. Without(Standing, id)[s] = Chosen(Standing[s], DOMAIN Standing[s] \ {f})
  BY <1>1 DEF Without
<1> QED
  BY <1>2, <1>3

-----------------------------------------------------------------------------
(* What the dry run counts *)

(* What the dry run counts is what the rules count. *)
LEMMA CountedAlike ==
  ASSUME IInv, taker # NoOrder, taker.order_type = FOK
  PROVE  /\ Fillable = {} <=> Countable(Standing, taker) = {}
         /\ RemainingOf(Fillable)
              = Wanted(Standing[Opposite(taker.side)], Countable(Standing, taker))
<1>1. PICK s \in Side : s = Opposite(taker.side)
  BY TakerType DEF IInv
<1>2. PICK q : q = Standing[s]
  OBVIOUS
<1>3. PICK at : at = Countable(Standing, taker)
  OBVIOUS
<1>4. PICK F : F = Fillable
  OBVIOUS
<1>5. /\ IsFiniteSet(F)
      /\ \A id \in F : /\ id \in OrderIds /\ Live(id)
                       /\ orders_lookup[id].remaining_quantity \in Nat \ {0}
  BY <1>4, FillableOrders DEF IInv
<1>6. \A p : WithinLimit(p) <=> Accepts(taker.side, taker.price, p)
  BY DEF WithinLimit, FOK, MARKET
<1>7. ASSUME NEW id \in OrderIds
      PROVE  id \in F <=> /\ Live(id) /\ orders_lookup[id].side = s
                          /\ WithinLimit(orders_lookup[id].price) /\ ~ Blocked(id)
  BY <1>1, <1>4, <1>6 DEF Fillable
<1>8. ASSUME NEW i \in DOMAIN q
      PROVE  /\ q[i].order_id \in OrderIds
             /\ q[i].remaining_quantity = orders_lookup[q[i].order_id].remaining_quantity
             /\ i \in at <=> q[i].order_id \in F
  <2>1. PICK e : e = q[i]
    OBVIOUS
  <2>2. /\ e.order_id \in OrderIds /\ Live(e.order_id)
        /\ orders_lookup[e.order_id].side = s
        /\ e.remaining_quantity = orders_lookup[e.order_id].remaining_quantity
        /\ i \in at <=> WithinLimit(orders_lookup[e.order_id].price) /\ ~ Blocked(e.order_id)
    BY <1>1, <1>2, <1>3, <2>1, EntryRead
  <2> QED
    BY <1>7, <2>1, <2>2
<1>9. at \subseteq DOMAIN q
  BY <1>1, <1>2, <1>3 DEF Countable
<1>10. PICK h : h = [id \in F |-> CHOOSE i \in DOMAIN q : q[i].order_id = id]
  OBVIOUS
<1>11. ASSUME NEW id \in F
       PROVE  h[id] \in DOMAIN q /\ q[h[id]].order_id = id /\ h[id] \in at
  <2>1. \E i \in DOMAIN q : q[i].order_id = id
    BY <1>2, <1>5, <1>7, StandingHolds
  <2>2. h[id] \in DOMAIN q /\ q[h[id]].order_id = id
    BY <1>10, <2>1
  <2> QED
    BY <1>8, <2>2
<1>12. ASSUME NEW i \in at
       PROVE  q[i].order_id \in F /\ h[q[i].order_id] = i
  <2>1. i \in DOMAIN q /\ q[i].order_id \in F
    BY <1>8, <1>9
  <2>2. h[q[i].order_id] \in DOMAIN q /\ q[h[q[i].order_id]].order_id = q[i].order_id
    BY <1>11, <2>1
  <2> QED
    BY <1>2, <2>1, <2>2, StandingOnce
<1>13. F = {} <=> at = {}
  BY <1>11, <1>12
<1>14. PICK w : w = [id \in F |-> orders_lookup[id].remaining_quantity]
  OBVIOUS
<1>15. PICK v : v = [i \in at |-> q[i].remaining_quantity]
  OBVIOUS
<1>16. \A id \in F : w[id] = orders_lookup[id].remaining_quantity
  BY <1>14
<1>17. \A i \in at : v[i] = q[i].remaining_quantity
  BY <1>15
<1>18. Carries(h, F, at, w, v)
  <2>1. ASSUME NEW x \in F PROVE h[x] \in at /\ w[x] \in Int /\ v[h[x]] = w[x]
    BY <1>5, <1>8, <1>11, <1>16, <1>17
  <2>2. \A x, y \in F : h[x] = h[y] => x = y
    BY <1>11
  <2>3. \A y \in at : \E x \in F : h[x] = y
    BY <1>12
  <2> QED
    BY <2>1, <2>2, <2>3 DEF Carries
<1>19. Sum(v, at) = Sum(w, F)
  BY ONLY <1>5, <1>18, SumCarried
<1>20. IsFiniteSet(at)
  <2>1. q \in Seq(Entry(OrderIds, Prices))
    BY <1>2, StandingType DEF Book
  <2> QED
    BY <1>9, <2>1, SeqPositions, FS_Subset
<1>21. Wanted(q, at) = Sum(v, at)
  BY ONLY <1>17, <1>20, WantedIs
<1>22. RemainingOf(F) = Sum(w, F)
  <2>1. SumFunction([id \in F |-> orders_lookup[id].remaining_quantity]) = Sum(w, F)
    BY <1>5, <1>16, RemainingIs
  <2> QED
    BY <2>1 DEF RemainingOf
<1> QED
  BY <1>1, <1>2, <1>3, <1>4, <1>13, <1>19, <1>21, <1>22

(* So the dry run answers what the rules answer. *)
LEMMA DryRunPasses ==
  ASSUME IInv, taker # NoOrder, taker.order_type = FOK
  PROVE  can_fok_be_fully_filled <=> Passes(Standing, taker)
BY CountedAlike DEF can_fok_be_fully_filled, Passes

-----------------------------------------------------------------------------
(* The state of PriorityBook during a call *)

(* What is to come is the outcome for the book and the order as they stand. *)
LEMMA ToComeIs == ToCome = Outcome(Standing, taker)
BY DEF ToCome

(* The fills of an outcome are a sequence. *)
LEMMA OutcomeFills ==
  ASSUME NEW ids, NEW prices, NEW b \in Book(ids, prices), NEW o, o.side \in Side
  PROVE  \E T : Outcome(b, o).fills \in Seq(T)
<1>1. Outcome(b, o).fills = Chosen(FillsOf(b, o), Giving(b, o))
  BY OutcomeIs
<1>2. b[Opposite(o.side)] \in Seq(Entry(ids, prices))
  BY OppositeIsSide DEF Book
<1>3. Giving(b, o) \in SUBSET DOMAIN b[Opposite(o.side)]
  BY DEF Giving
<1>4. Giving(b, o) \in SUBSET Int /\ IsFiniteSet(Giving(b, o))
  BY <1>2, <1>3, SeqPositions
<1>5. PICK T : T = {FillsOf(b, o)[i] : i \in Giving(b, o)}
  OBVIOUS
<1>6. \A i \in Giving(b, o) : FillsOf(b, o)[i] \in T
  BY <1>5
<1>7. Chosen(FillsOf(b, o), Giving(b, o)) \in Seq(T)
  BY <1>4, <1>6, ChosenType
<1> QED
  BY <1>1, <1>7

(* Joining a fill to those before it or to those after it is the same.       *)
LEMMA FillBetween ==
  ASSUME NEW A, NEW a \in Seq(A), NEW e, NEW T, NEW c \in Seq(T)
  PROVE  a \o (<<e>> \o c) = Append(a, e) \o c
<1>1. PICK S : S = A \cup T \cup {e}
  OBVIOUS
<1>2. a \in Seq(S) /\ c \in Seq(S) /\ e \in S
  BY <1>1
<1>3. <<e>> \in Seq(S) /\ Len(<<e>>) = 1 /\ <<e>>[1] = e
  BY <1>2
<1> QED
  BY <1>2, <1>3

(* While the sweep goes on, book and answer are those it will end with.      *)
Sweeping == pc \in {"outer", "inner", "swept"}

WhileSweeping ==
  Sweeping => /\ PromisedBook = Outcome(Standing, taker).book
              /\ PromisedFills = trades \o Outcome(Standing, taker).fills
              /\ Request = [taker EXCEPT !.remaining_quantity = taker.quantity]

(* During the sweep. *)
LEMMA Swept == WhileSweeping
BY ToComeIs DEF WhileSweeping, Sweeping, PromisedBook, PromisedFills, WillSweep, Request

(* After a step into, or within, the sweep. *)
LEMMA SweptNext ==
  Sweeping' => /\ PromisedBook' = Outcome(Standing', taker').book
               /\ PromisedFills' = trades' \o Outcome(Standing', taker').fills
               /\ Request' = [taker' EXCEPT !.remaining_quantity = taker'.quantity]
<1>1. WhileSweeping'
  BY Swept, PTL
<1> QED
  BY <1>1 DEF WhileSweeping

WhileIdle ==
  pc = "idle" => PromisedBook = Standing /\ PromisedFills = trades /\ Request = NoOrder

(* Between calls the abstract book is the queues, and nothing is asked. *)
LEMMA Idle == WhileIdle
BY DEF WhileIdle, PromisedBook, PromisedFills, WillSweep, Request

(* After a step that ends a call, or needs none. *)
LEMMA IdleNext == WhileIdle'
BY Idle, PTL

(* Before the dry run, everything hangs on its answer. *)
WhileDry ==
  pc = "dry_run" =>
    /\ Request = [taker EXCEPT !.remaining_quantity = taker.quantity]
    /\ Passes(Standing, taker) =>
         /\ PromisedBook = Outcome(Standing, taker).book
         /\ PromisedFills = trades \o Outcome(Standing, taker).fills
    /\ ~ Passes(Standing, taker) => PromisedBook = Standing /\ PromisedFills = trades

(* Before the dry run. *)
LEMMA Dry == WhileDry
BY ToComeIs DEF WhileDry, PromisedBook, PromisedFills, WillSweep, Request

(* After the step that begins a FOK order. *)
LEMMA DryNext == WhileDry'
BY Dry, PTL

-----------------------------------------------------------------------------
(* The steps of the sweep *)

(* In the next state, too, the queues make a book. *)
StandingIsBook == Standing \in Book(OrderIds, Prices)

LEMMA StandingTypeNext == IInv' => Standing' \in Book(OrderIds, Prices)
<1>1. IInv => StandingIsBook
  BY StandingType DEF StandingIsBook
<1>2. IInv' => StandingIsBook'
  BY <1>1, PTL
<1> QED
  BY <1>2 DEF StandingIsBook

(* A step of the sweep that trades nothing is invisible. *)
LEMMA QuietStep ==
  ASSUME IInv, IInv', [Next]_vars, Sweeping, Sweeping', UNCHANGED <<orders_lookup, taker, trades>>
  PROVE  UNCHANGED <<PromisedBook, Request, PromisedFills>>
<1>1. Standing' = Standing
  BY SameStanding
<1>2. /\ PromisedBook = Outcome(Standing, taker).book
      /\ PromisedFills = trades \o Outcome(Standing, taker).fills
      /\ Request = [taker EXCEPT !.remaining_quantity = taker.quantity]
  BY Swept DEF WhileSweeping
<1>3. /\ PromisedBook' = Outcome(Standing', taker').book
      /\ PromisedFills' = trades' \o Outcome(Standing', taker').fills
      /\ Request' = [taker' EXCEPT !.remaining_quantity = taker'.quantity]
  BY SweptNext
<1> QED
  BY <1>1, <1>2, <1>3

(* What a fill takes from the maker it says it took, and the rest of the     *)
(* outcome is that of the book and the order it leaves.                      *)
LEMMA FillPeels ==
  ASSUME IInv, IInv', [Next]_vars, taker # NoOrder, MatchMaker
  PROVE  \E e : /\ trades' = Append(trades, e)
                /\ Outcome(Standing, taker).fills = <<e>> \o Outcome(Standing', taker').fills
                /\ Outcome(Standing, taker).book = Outcome(Standing', taker').book
<1>1. TypeOK /\ IndexConsistent /\ SweepPosition /\ InnerLoop
  BY DEF IInv, MatchMaker
<1>2. PICK s \in Side : s = Opposite(taker.side) /\ taker.side \in Side /\ s # taker.side
  BY <1>1, TakerType
<1>3. PICK f \in DOMAIN Standing[s] :
        /\ FirstReached(f, Standing, taker)
        /\ Standing[s][f] = EntryOf(Maker) /\ Standing[s][f].order_id = Maker
  BY <1>2, FirstIsMaker
<1>4. PICK b, c : b = Standing /\ c = Standing'
  OBVIOUS
<1>5. PICK o, r : o = taker /\ r = taker'
  OBVIOUS
<1>6. PICK n, w : n = FillQuantity /\ w = orders_lookup[Maker].remaining_quantity
  OBVIOUS
<1>7. /\ Maker \in OrderIds /\ Live(Maker) /\ orders_lookup[Maker] \in Order
      /\ orders_lookup[Maker].side = s
      /\ w \in Nat \ {0} /\ n \in Nat \ {0} /\ n <= w /\ n <= o.remaining_quantity
      /\ n = o.remaining_quantity \/ n = w
      /\ o.remaining_quantity \in Int
  BY <1>1, <1>2, <1>5, <1>6, MakerFacts, TakerType
<1>8. /\ b[s][f].order_id = Maker /\ b[s][f].price = orders_lookup[Maker].price
      /\ b[s][f].remaining_quantity = w
  BY <1>3, <1>4, <1>6 DEF EntryOf
<1>9. PICK e : e = [maker_order_id |-> Maker, taker_order_id |-> taker.order_id,
                    aggressor_side |-> taker.side,
                    price |-> orders_lookup[Maker].price, quantity |-> n]
  OBVIOUS
<1>10. e = FillOf(b[s][f], o, n)
  BY <1>5, <1>8, <1>9 DEF FillOf
<1>11. /\ trades' = Append(trades, e)
       /\ \/ /\ w - n = 0
             /\ orders_lookup' = [orders_lookup EXCEPT ![Maker] = NoOrder]
          \/ /\ w - n \in Nat \ {0}
             /\ o.remaining_quantity = n
             /\ orders_lookup' = [orders_lookup EXCEPT ![Maker].remaining_quantity = w - n]
  BY <1>1, <1>5, <1>6, <1>9, FillEffect
<1>12. SameOrder(r, o) /\ r.remaining_quantity = o.remaining_quantity - n
  BY <1>1, <1>5, <1>6, TakerAfterFill DEF SameOrder
<1>13. /\ b \in Book(OrderIds, Prices) /\ c \in Book(OrderIds, Prices)
  <2>2. Standing' \in Book(OrderIds, Prices)
    BY StandingTypeNext
  <2> QED
    BY <1>4, <2>2, StandingType
<1>14. /\ o.side \in Side /\ s = Opposite(o.side) /\ f \in DOMAIN b[s]
       /\ FirstReached(f, b, o) /\ o.remaining_quantity \in Nat \ {0}
  BY <1>2, <1>3, <1>4, <1>5, <1>7
<1>15. ASSUME w - n = 0, orders_lookup' = [orders_lookup EXCEPT ![Maker] = NoOrder]
       PROVE  /\ Outcome(b, o).fills = <<e>> \o Outcome(c, r).fills
              /\ Outcome(b, o).book = Outcome(c, r).book
  <2>1. w = n
    BY <1>7, <1>15
  <2>2. c = Without(b, Maker)
    BY <1>4, <1>7, <1>15, GoneFromStanding DEF Gone
  <2>3. c[s] = Chosen(b[s], DOMAIN b[s] \ {f}) /\ c[o.side] = b[o.side]
    BY <1>2, <1>3, <1>4, <1>5, <2>2, WithoutOne
  <2>4. Spent(r, o, f, b)
    BY <1>8, <1>12, <1>14, <2>1 DEF Spent
  <2>5. UsesUp(b, o, f, c, r)
    BY <1>7, <1>8, <1>14, <2>1, <2>3, <2>4 DEF UsesUp
  <2>6. FillFirst(b, o, f, c, r, b[Opposite(o.side)][f].remaining_quantity)
    BY ONLY <1>13, <2>5, PeelWhole
  <2> QED
    BY <1>8, <1>10, <1>14, <2>1, <2>6 DEF FillFirst
<1>16. ASSUME w - n \in Nat \ {0}, o.remaining_quantity = n,
              orders_lookup' = [orders_lookup EXCEPT ![Maker].remaining_quantity = w - n]
       PROVE  /\ Outcome(b, o).fills = <<e>> \o Outcome(c, r).fills
              /\ Outcome(b, o).book = Outcome(c, r).book
  <2>1. c = [b EXCEPT ![s][f].remaining_quantity = w - n]
    <3>1. PICK left \in Nat \ {0} : left = w - n
      BY <1>16
    <3>2. Resized(Maker, left)
      BY <1>16, <3>1 DEF Resized
    <3>3. Standing' = [Standing EXCEPT ![s][f].remaining_quantity = left]
      BY <1>3, <1>7, <3>2, ResizedInStanding
    <3> QED
      BY <1>4, <3>1, <3>3
  <2>2. b = [t \in Side |-> b[t]]
    BY <1>13 DEF Book
  <2>3. b[s] = [i \in DOMAIN b[s] |-> b[s][i]]
    BY <1>13 DEF Book
  <2>4. After(b[s][f], o.remaining_quantity) = [b[s][f] EXCEPT !.remaining_quantity = w - n]
    BY <1>8, <1>16 DEF After
  <2>5. c[s] = [b[s] EXCEPT ![f] = After(@, o.remaining_quantity)] /\ c[o.side] = b[o.side]
    BY <1>2, <1>5, <2>1, <2>2, <2>3, <2>4
  <2>6. o.remaining_quantity < b[s][f].remaining_quantity /\ r.remaining_quantity = 0
    BY <1>7, <1>8, <1>12, <1>16
  <2>7. LeavesSmaller(b, o, f, c, r)
    BY <1>12, <1>14, <2>5, <2>6 DEF LeavesSmaller
  <2>8. FillFirst(b, o, f, c, r, o.remaining_quantity)
    BY ONLY <1>13, <2>7, PeelPart
  <2> QED
    BY <1>10, <1>14, <1>16, <2>8 DEF FillFirst
<1>17. /\ Outcome(b, o).fills = <<e>> \o Outcome(c, r).fills
       /\ Outcome(b, o).book = Outcome(c, r).book
  BY <1>11, <1>15, <1>16
<1> QED
  BY <1>4, <1>5, <1>11, <1>17

(* A fill is what the answer already said. *)
LEMMA FillStep ==
  ASSUME IInv, IInv', [Next]_vars, taker # NoOrder, MatchMaker
  PROVE  UNCHANGED <<PromisedBook, Request, PromisedFills>>
<1>1. TypeOK /\ IndexConsistent /\ SweepPosition /\ InnerLoop
  BY DEF IInv, MatchMaker
<1>2. Sweeping /\ Sweeping'
  BY DEF Sweeping, MatchMaker, InnerLoop
<1>3. PICK e : /\ trades' = Append(trades, e)
               /\ Outcome(Standing, taker).fills = <<e>> \o Outcome(Standing', taker').fills
               /\ Outcome(Standing, taker).book = Outcome(Standing', taker').book
  BY FillPeels
<1>4. /\ PromisedBook = Outcome(Standing, taker).book
      /\ PromisedFills = trades \o Outcome(Standing, taker).fills
      /\ Request = [taker EXCEPT !.remaining_quantity = taker.quantity]
  BY <1>2, Swept DEF WhileSweeping
<1>5. /\ PromisedBook' = Outcome(Standing', taker').book
      /\ PromisedFills' = trades' \o Outcome(Standing', taker').fills
      /\ Request' = [taker' EXCEPT !.remaining_quantity = taker'.quantity]
  BY <1>2, SweptNext
<1>6. PICK T : Outcome(Standing', taker').fills \in Seq(T)
  <2>2. Standing' \in Book(OrderIds, Prices)
    BY StandingTypeNext
  <2>3. taker'.side \in Side
    BY <1>1, TakerAfterFill, TakerType
  <2> QED
    BY <2>2, <2>3, OutcomeFills
<1>7. trades \in Seq(Trade)
  BY <1>1 DEF TypeOK
<1>8. PromisedFills' = PromisedFills
  <2>1. PICK a \in Seq(Trade) : a = trades
    BY <1>7
  <2>2. PICK z \in Seq(T) : z = Outcome(Standing', taker').fills
    BY <1>6
  <2>3. a \o (<<e>> \o z) = Append(a, e) \o z
    BY ONLY FillBetween
  <2> QED
    BY <1>3, <1>4, <1>5, <2>1, <2>2, <2>3
<1>9. Request' = Request
  <2>1. taker' = [taker EXCEPT !.remaining_quantity = @ - FillQuantity]
    BY <1>1, FillEffect
  <2>2. taker \in Incoming
    BY <1>1, TakerType
  <2> QED
    BY <1>4, <1>5, <2>1, <2>2 DEF Incoming
<1> QED
  BY <1>3, <1>4, <1>5, <1>8, <1>9

-----------------------------------------------------------------------------
(* The rules of the abstract book are those of PriorityRules. *)

(* Taking an order out. *)
LEMMA WithoutAgrees ==
  ASSUME NEW b, NEW id
  PROVE  Abstract!Without(b, id) = Without(b, id)
BY DEF Without, Abstract!Without, Side, Abstract!Side, BUY, SELL, Abstract!BUY, Abstract!SELL,
   Chosen, Abstract!Chosen, Cardinality, Abstract!Cardinality

(* A submission. *)
LEMMA SubmittedAgrees ==
  ASSUME NEW b, NEW o
  PROVE  Abstract!Submitted(b, o) = Submitted(b, o)
BY DEF Submitted, Abstract!Submitted, Without, Abstract!Without, Passes, Abstract!Passes,
   Outcome, Abstract!Outcome, Settle, Abstract!Settle, Allotment, Abstract!Allotment,
   Reachable, Abstract!Reachable, Countable, Abstract!Countable, Barred, Abstract!Barred,
   Acceptable, Abstract!Acceptable, SelfTrade, Abstract!SelfTrade,
   Accepts, Abstract!Accepts, Before, Abstract!Before, Opposite, Abstract!Opposite,
   BUY, Abstract!BUY, SELL, Abstract!SELL, LIMIT, Abstract!LIMIT, MARKET, Abstract!MARKET,
   IOC, Abstract!IOC, FOK, Abstract!FOK, Side, Abstract!Side, Chosen, Abstract!Chosen,
   Queued, Abstract!Queued, InsertAt, Abstract!InsertAt, Cardinality, Abstract!Cardinality,
   Wanted, Abstract!Wanted, SumFunction, Abstract!SumFunction,
   SumFunctionOnSet, Abstract!SumFunctionOnSet, FoldFunctionOnSet, Abstract!FoldFunctionOnSet,
   MapThenFoldSet, Abstract!MapThenFoldSet, Min, Abstract!Min, Max, Abstract!Max

(* A smaller quantity. *)
LEMMA ReducedAgrees ==
  ASSUME NEW b, NEW s, NEW i, NEW qty
  PROVE  Abstract!Reduced(b, s, i, qty) = Reduced(b, s, i, qty)
BY WithoutAgrees DEF Reduced, Abstract!Reduced

(* Sides, types, orders and the test for keeping a place. *)
LEMMA WordsAgree ==
  /\ Abstract!Side = Side /\ Abstract!OrderType = OrderType
  /\ \A id, side, type, price, qty :
       Abstract!NewOrder(id, side, type, price, qty) = NewOrder(id, side, type, price, qty)
  /\ \A m, qty, price : Abstract!Kept(m, qty, price) <=> Kept(m, qty, price)
BY DEF Side, Abstract!Side, BUY, Abstract!BUY, SELL, Abstract!SELL,
   OrderType, Abstract!OrderType, LIMIT, Abstract!LIMIT, MARKET, Abstract!MARKET,
   IOC, Abstract!IOC, FOK, Abstract!FOK,
   NewOrder, Abstract!NewOrder, Kept, Abstract!Kept

(* A stutter of the abstract book, and its steps. *)
Hidden == UNCHANGED <<PromisedBook, Request, PromisedFills>>

(* What leaves book, request and answer leaves the abstract state. *)
LEMMA HiddenIs == Hidden => Abstract!vars' = Abstract!vars
BY DEF Hidden, Abstract!vars

(* The answer is given. *)
LEMMA AnswerIs ==
  ASSUME Request # NoOrder, Request' = NoOrder, PromisedFills' = <<>>,
         PromisedBook' = PromisedBook
  PROVE  Abstract!Answer
BY DEF Abstract!Answer

(* An order is cancelled. *)
LEMMA CancelIs ==
  ASSUME NEW id, Request = NoOrder, Request' = Request, PromisedFills' = PromisedFills,
         PromisedBook' = Without(PromisedBook, id)
  PROVE  Abstract!Cancel(id)
BY WithoutAgrees DEF Abstract!Cancel

(* An order takes effect. *)
LEMMA TakeIs ==
  ASSUME NEW o, Request = NoOrder, Request' = o,
         PromisedBook' = Submitted(PromisedBook, o).book,
         PromisedFills' = Submitted(PromisedBook, o).fills
  PROVE  Abstract!Take(o)
BY SubmittedAgrees DEF Abstract!Take

-----------------------------------------------------------------------------
(* The steps of the calls *)

(* What the sweep leaves when it is over is what rests, or is dropped. *)
LEMMA LeftBehind ==
  ASSUME IInv, IInv', [Next]_vars, RestStep \/ DiscardStep
  PROVE  Standing' = Outcome(Standing, taker).book
<1>1. taker # NoOrder /\ pc = "swept" /\ TypeOK
  BY DEF RestStep, DiscardStep, Rest, Discard, IInv
<1>2. PICK b, c, o : b = Standing /\ c = Standing' /\ o = taker
  OBVIOUS
<1>3. /\ b \in Book(OrderIds, Prices) /\ o.side \in Side /\ o.remaining_quantity \in Int
      /\ Opposite(o.side) \in Side /\ Opposite(o.side) # o.side
  BY <1>1, <1>2, StandingType, TakerType
<1>4. o.remaining_quantity <= 0 \/ Reachable(b, o) = {}
  BY <1>1, <1>2, <1>3, NothingIsReached
<1>5. PICK d : d = Outcome(b, o).book
  OBVIOUS
<1>6. /\ d = [s \in Side |-> d[s]]
      /\ d[Opposite(o.side)] = b[Opposite(o.side)]
      /\ d[o.side] = IF o.order_type \in {LIMIT, FOK} /\ o.remaining_quantity > 0
                     THEN Queued(b[o.side], o, o.remaining_quantity)
                     ELSE b[o.side]
  BY <1>3, <1>4, <1>5, OutcomeOfNothing
<1>7. \A s \in Side : s = o.side \/ s = Opposite(o.side)
  BY <1>3 DEF Side, Opposite
<1>8. b = [s \in Side |-> b[s]]
  BY <1>3 DEF Book
<1>9. CASE RestStep /\ o.remaining_quantity > 0
  <2>1. add_resting_order /\ o.order_type \in {LIMIT, FOK}
    BY <1>2, <1>9 DEF RestStep, Rest
  <2>2. Joined
    BY <1>1, <1>2, <1>9, <2>1, RestJoins
  <2>3. c = [b EXCEPT ![o.side] = Queued(b[o.side], o, o.remaining_quantity)]
    BY <1>1, <1>2, <2>2, JoinedStanding
  <2>4. d = [b EXCEPT ![o.side] = Queued(b[o.side], o, o.remaining_quantity)]
    BY <1>3, <1>6, <1>7, <1>8, <1>9, <2>1
  <2> QED
    BY <1>2, <1>5, <2>3, <2>4
<1>10. CASE ~ (RestStep /\ o.remaining_quantity > 0)
  <2>1. UNCHANGED orders_lookup
    BY <1>2, <1>10 DEF RestStep, DiscardStep, Rest, Discard, book
  <2>2. c = b
    BY <1>2, <2>1, SameStanding
  <2>3. ~ (o.order_type \in {LIMIT, FOK} /\ o.remaining_quantity > 0)
    BY <1>2, <1>10 DEF RestStep, DiscardStep, LIMIT, FOK, MARKET, IOC
  <2>4. d = b
    BY <1>6, <1>7, <1>8, <2>3
  <2> QED
    BY <1>2, <1>5, <2>2, <2>4
<1> QED
  BY <1>9, <1>10

(* A request is not the absence of one. *)
LEMMA IncomingRequest ==
  ASSUME IInv, taker # NoOrder
  PROVE  [taker EXCEPT !.remaining_quantity = taker.quantity] # NoOrder
<1>1. taker \in Incoming
  BY TakerType DEF IInv
<1>2. [taker EXCEPT !.remaining_quantity = taker.quantity] \in Incoming
  BY <1>1 DEF Incoming
<1> QED
  BY <1>2, NoOrderAssumption

(* The call returns: the order rests, is dropped or is killed. *)
LEMMA ReturnStep ==
  ASSUME IInv, IInv', [Next]_vars,
         RestStep \/ DiscardStep \/ (DryRunStep /\ ~ can_fok_be_fully_filled)
  PROVE  Abstract!Answer
<1>1. taker # NoOrder /\ pc' = "idle" /\ trades' = <<>>
  BY DEF RestStep, DiscardStep, DryRunStep, Rest, Discard, DryRun, Return
<1>2. PromisedBook' = Standing' /\ PromisedFills' = <<>> /\ Request' = NoOrder
  BY <1>1, IdleNext DEF WhileIdle
<1>3. [taker EXCEPT !.remaining_quantity = taker.quantity] # NoOrder
  BY <1>1, IncomingRequest
<1>4. CASE RestStep \/ DiscardStep
  <2>1. Sweeping
    BY <1>4 DEF RestStep, DiscardStep, Rest, Discard, Sweeping
  <2>2. PromisedBook = Outcome(Standing, taker).book /\ Request # NoOrder
    BY <1>3, <2>1, Swept DEF WhileSweeping
  <2>3. Standing' = Outcome(Standing, taker).book
    BY <1>4, LeftBehind
  <2> QED
    BY <1>2, <2>2, <2>3, AnswerIs
<1>5. CASE DryRunStep /\ ~ can_fok_be_fully_filled
  <2>1. pc = "dry_run" /\ taker.order_type = FOK /\ UNCHANGED orders_lookup
    BY <1>5 DEF DryRunStep, DryRun, IInv, CallConsistent, book
  <2>2. ~ Passes(Standing, taker)
    BY <1>1, <1>5, <2>1, DryRunPasses
  <2>3. PromisedBook = Standing /\ Request # NoOrder
    BY <1>3, <2>1, <2>2, Dry DEF WhileDry
  <2>4. Standing' = Standing
    BY <2>1, SameStanding
  <2> QED
    BY <1>2, <2>3, <2>4, AnswerIs
<1> QED
  BY <1>4, <1>5

(* The rest of a call is invisible. *)
LEMMA InnerStep ==
  ASSUME IInv, IInv', [Next]_vars, SweepStep \/ (DryRunStep /\ can_fok_be_fully_filled)
  PROVE  Hidden
<1>1. CASE SweepStep /\ MatchMaker
  BY <1>1, FillStep DEF SweepStep, Hidden
<1>2. CASE SweepStep /\ ~ MatchMaker
  <2>1. EnterLevel \/ StopSweep \/ SkipBlocked \/ LeaveLevel
    BY <1>2 DEF SweepStep, Sweep
  <2>2. UNCHANGED <<orders_lookup, taker, trades>>
    BY <2>1 DEF EnterLevel, StopSweep, SkipBlocked, LeaveLevel
  <2>3. Sweeping /\ Sweeping'
    BY <2>1 DEF EnterLevel, StopSweep, SkipBlocked, LeaveLevel, InnerLoop, Sweeping
  <2> QED
    BY <2>2, <2>3, QuietStep DEF Hidden
<1>3. CASE DryRunStep /\ can_fok_be_fully_filled
  <2>1. /\ taker # NoOrder /\ pc = "dry_run" /\ pc' = "outer"
        /\ UNCHANGED <<orders_lookup, taker, trades>>
    BY <1>3 DEF DryRunStep, DryRun, book
  <2>2. taker.order_type = FOK
    BY <2>1 DEF IInv, CallConsistent
  <2>3. Passes(Standing, taker)
    BY <1>3, <2>1, <2>2, DryRunPasses
  <2>4. /\ PromisedBook = Outcome(Standing, taker).book
        /\ PromisedFills = trades \o Outcome(Standing, taker).fills
        /\ Request = [taker EXCEPT !.remaining_quantity = taker.quantity]
    BY <2>1, <2>3, Dry DEF WhileDry
  <2>5. Sweeping'
    BY <2>1 DEF Sweeping
  <2>6. /\ PromisedBook' = Outcome(Standing', taker').book
        /\ PromisedFills' = trades' \o Outcome(Standing', taker').fills
        /\ Request' = [taker' EXCEPT !.remaining_quantity = taker'.quantity]
    BY <2>5, SweptNext
  <2>7. Standing' = Standing
    BY <2>1, SameStanding
  <2> QED
    BY <2>1, <2>4, <2>6, <2>7 DEF Hidden
<1> QED
  BY <1>1, <1>2, <1>3

(* A cancellation takes the order out of the book. *)
LEMMA CancelStep ==
  ASSUME IInv, IInv', [Next]_vars, NEW id \in OrderIds, cancel_order(id)
  PROVE  Abstract!Cancel(id)
<1>1. pc = "idle" /\ pc' = "idle" /\ UNCHANGED trades /\ Gone(id)
  BY DEF cancel_order, CancelResting, Gone
<1>2. PromisedBook = Standing /\ PromisedFills = trades /\ Request = NoOrder
  BY <1>1, Idle DEF WhileIdle
<1>3. PromisedBook' = Standing' /\ PromisedFills' = trades' /\ Request' = NoOrder
  BY <1>1, IdleNext DEF WhileIdle
<1>4. Standing' = Without(Standing, id)
  BY <1>1, GoneFromStanding
<1> QED
  BY <1>1, <1>2, <1>3, <1>4, CancelIs

(* A call that submits an order takes effect when it begins. *)
LEMMA BeginStep ==
  ASSUME IInv, IInv', [Next]_vars, trades = <<>>, pc = "idle",
         NEW id \in OrderIds, NEW side \in Side, NEW type \in OrderType,
         NEW price \in Prices, NEW qty \in Int, Begin(id, side, type, price, qty),
         NEW o, o = NewOrder(id, side, type, price, qty)
  PROVE  Abstract!Take(o)
<1>1. /\ o.order_id = id /\ o.side = side /\ o.order_type = type
      /\ o.quantity = qty /\ o.remaining_quantity = qty
      /\ [o EXCEPT !.remaining_quantity = o.quantity] = o
  BY DEF NewOrder
<1>2. /\ taker' = o /\ trades' = <<>>
      /\ pc' = IF type = FOK THEN "dry_run" ELSE "outer"
  BY DEF Begin, NewOrder
<1>3. Standing' = Without(Standing, id)
  <2>1. CASE CancelResting(id)
    BY <2>1, GoneFromStanding DEF CancelResting, Gone
  <2>2. CASE ~ Live(id) /\ UNCHANGED book
    <3>1. Standing' = Standing
      BY <2>2, SameStanding DEF book
    <3>2. \A s \in Side : \A i \in DOMAIN Standing[s] : Standing[s][i].order_id # id
      BY <2>2, StandingEntry
    <3>3. Without(Standing, id) = Standing
      BY <3>2, StandingType, WithoutAbsent
    <3> QED
      BY <3>1, <3>3
  <2> QED
    BY <2>1, <2>2 DEF Begin
<1>4. PromisedBook = Standing /\ Request = NoOrder
  BY Idle DEF WhileIdle
<1>5. PICK b : b = Standing
  OBVIOUS
<1>6. PICK c : c = Standing'
  OBVIOUS
<1>7. Submitted(b, o) = IF Passes(c, o) THEN Outcome(c, o) ELSE [fills |-> <<>>, book |-> c]
  BY <1>1, <1>3, <1>5, <1>6 DEF Submitted
<1>8. c \in Book(OrderIds, Prices)
  BY <1>6, StandingTypeNext
<1>9. <<>> \o Outcome(c, o).fills = Outcome(c, o).fills
  <2>1. PICK T : Outcome(c, o).fills \in Seq(T)
    BY <1>1, <1>8, OutcomeFills
  <2> QED
    BY <2>1, ConcatEmptySeq
<1>10. CASE Passes(c, o)
  <2>1. /\ PromisedBook' = Outcome(c, o).book
        /\ PromisedFills' = <<>> \o Outcome(c, o).fills
        /\ Request' = [o EXCEPT !.remaining_quantity = o.quantity]
    <3>1. CASE type = FOK
      BY <1>2, <1>6, <1>10, <3>1, DryNext DEF WhileDry
    <3>2. CASE type # FOK
      <4>1. Sweeping'
        BY <1>2, <3>2 DEF Sweeping
      <4> QED
        BY <1>2, <1>6, <4>1, SweptNext
    <3> QED
      BY <3>1, <3>2
  <2>2. Submitted(b, o) = Outcome(c, o)
    BY <1>7, <1>10
  <2> QED
    BY <1>1, <1>4, <1>5, <1>9, <2>1, <2>2, TakeIs
<1>11. CASE ~ Passes(c, o)
  <2>1. type = FOK
    BY <1>1, <1>11 DEF Passes
  <2>2. /\ PromisedBook' = c /\ PromisedFills' = <<>>
        /\ Request' = [o EXCEPT !.remaining_quantity = o.quantity]
    BY <1>2, <1>6, <1>11, <2>1, DryNext DEF WhileDry
  <2>3. Submitted(b, o).book = c /\ Submitted(b, o).fills = <<>>
    BY <1>7, <1>11
  <2> QED
    BY <1>1, <1>4, <1>5, <2>2, <2>3, TakeIs
<1> QED
  BY <1>10, <1>11

(* A modification, one way or the other. *)
LEMMA ModifyIs ==
  ASSUME NEW id, NEW qty, NEW price, NEW s \in Side, NEW i \in DOMAIN PromisedBook[s],
         NEW m, m = PromisedBook[s][i], m.order_id = id, Request = NoOrder,
         IF Kept(m, qty, price)
         THEN /\ Request' = Request /\ PromisedFills' = PromisedFills
              /\ PromisedBook' = Reduced(PromisedBook, s, i, qty)
         ELSE Abstract!Take(NewOrder(id, s, m.order_type, price, qty))
  PROVE  Abstract!Modify(id, qty, price)
BY ReducedAgrees, WordsAgree DEF Abstract!Modify

(* A submission, by the order it takes. *)
LEMMA SubmitIs ==
  ASSUME NEW id, NEW side, NEW type, NEW price, NEW qty,
         Abstract!Take(NewOrder(id, side, type, price, qty))
  PROVE  Abstract!Submit(id, side, type, price, qty)
BY WordsAgree DEF Abstract!Submit

(* A modification keeps the order's place or submits it anew, as the rules   *)
(* have it.                                                                  *)
LEMMA ModifyStep ==
  ASSUME IInv, IInv', [Next]_vars, trades = <<>>,
         NEW id \in OrderIds, NEW qty \in Quantities \cap Nat, NEW price \in Prices,
         modify_order(id, qty, price)
  PROVE  Abstract!Modify(id, qty, price)
<1>1. pc = "idle" /\ Live(id) /\ TypeOK
  BY DEF modify_order, IInv
<1>2. PICK o \in Order : o = orders_lookup[id]
  BY <1>1, LiveOrder
<1>3. PICK s \in Side : s = o.side
  BY <1>2 DEF Order
<1>4. PICK i \in DOMAIN Standing[s] :
        Standing[s][i] = EntryOf(id) /\ Standing[s][i].order_id = id
  BY <1>1, <1>2, <1>3, StandingHolds
<1>5. PromisedBook = Standing /\ PromisedFills = trades /\ Request = NoOrder
  BY <1>1, Idle DEF WhileIdle
<1>6. PICK m : m = Standing[s][i]
  OBVIOUS
<1>7. /\ m.order_id = id /\ m.order_type = o.order_type /\ m.price = o.price
      /\ m.remaining_quantity = o.remaining_quantity
  BY <1>2, <1>4, <1>6 DEF EntryOf
<1>8. Kept(m, qty, price) <=> price = o.price /\ qty < o.remaining_quantity
  BY <1>7 DEF Kept
<1>9. CASE Kept(m, qty, price)
  <2>1. KeepPlace(id, qty) /\ UNCHANGED <<taker, pc, level_it, order_it, trades>>
    BY <1>2, <1>8, <1>9 DEF modify_order
  <2>2. pc' = "idle" /\ trades' = trades
    BY <1>1, <2>1
  <2>3. PromisedBook' = Standing' /\ PromisedFills' = trades' /\ Request' = NoOrder
    BY <2>2, IdleNext DEF WhileIdle
  <2>4. Standing' = Reduced(Standing, s, i, qty)
    <3>1. CASE qty = 0
      <4>1. Gone(id)
        BY <2>1, <3>1 DEF KeepPlace, CancelResting, Gone
      <4>2. Standing' = Without(Standing, id)
        BY <4>1, GoneFromStanding
      <4> QED
        BY <1>4, <3>1, <4>2 DEF Reduced
    <3>2. CASE qty # 0
      <4>1. PICK n \in Nat \ {0} : n = qty
        BY <3>2
      <4>2. Resized(id, n)
        BY <2>1, <3>2, <4>1 DEF KeepPlace, Resized
      <4>3. s = orders_lookup[id].side
        BY <1>2, <1>3
      <4>4. Standing' = [Standing EXCEPT ![s][i].remaining_quantity = n]
        BY ONLY IInv, IInv', [Next]_vars, id \in OrderIds, <1>1, <1>4, <4>2, <4>3,
           ResizedInStanding
      <4> QED
        BY <3>2, <4>1, <4>4 DEF Reduced
    <3> QED
      BY <3>1, <3>2
  <2> QED
    BY <1>5, <1>6, <1>7, <1>9, <2>2, <2>3, <2>4, ModifyIs
<1>10. CASE ~ Kept(m, qty, price)
  <2>1. Begin(id, s, o.order_type, price, qty)
    BY <1>2, <1>3, <1>8, <1>10 DEF modify_order
  <2>2. PICK type \in OrderType : type = o.order_type
    BY <1>2 DEF Order
  <2>3. qty \in Int
    OBVIOUS
  <2>4. PICK new : new = NewOrder(id, s, type, price, qty)
    OBVIOUS
  <2>5. Abstract!Take(new)
    BY <1>1, <2>1, <2>2, <2>3, <2>4, BeginStep
  <2> QED
    BY <1>5, <1>6, <1>7, <1>10, <2>2, <2>4, <2>5, ModifyIs
<1> QED
  BY <1>9, <1>10

(* Between calls, and before a dry run, nothing has been traded.             *)
NoTradesYet == pc \in {"idle", "dry_run"} => trades = <<>>

RInv == IInv /\ NoTradesYet

(* Trades are made in a sweep only, and leave with the call. *)
LEMMA NoTradesStep ==
  ASSUME TypeOK, NoTradesYet, [Next]_vars
  PROVE  NoTradesYet'
<1>1. CASE StartCall
  BY <1>1 DEF StartCall, Begin, NoTradesYet
<1>2. ASSUME NEW id \in OrderIds, cancel_order(id) PROVE NoTradesYet'
  BY <1>2 DEF cancel_order, NoTradesYet
<1>3. ASSUME NEW id \in OrderIds, NEW qty \in Nat \ {0}, Reduce(id, qty) PROVE NoTradesYet'
  BY <1>3 DEF Reduce, NoTradesYet
<1>4. CASE SweepStep
  BY <1>4 DEF SweepStep, Sweep, EnterLevel, StopSweep, SkipBlocked, MatchMaker, LeaveLevel,
     InnerLoop, NoTradesYet
<1>5. CASE RestStep \/ DiscardStep
  BY <1>5 DEF RestStep, DiscardStep, Rest, Discard, Return, NoTradesYet
<1>6. CASE DryRunStep
  BY <1>6 DEF DryRunStep, DryRun, Return, NoTradesYet
<1>7. CASE UNCHANGED vars
  BY <1>7 DEF vars, NoTradesYet
<1> QED
  BY <1>1, <1>2, <1>3, <1>4, <1>5, <1>6, <1>7, Steps

(* The refinement holds in every state a book can reach. *)
LEMMA RefinementInvariant == Spec => []RInv
<1>1. Init => NoTradesYet
  BY DEF Init, NoTradesYet
<1>2. IInv /\ NoTradesYet /\ [Next]_vars => NoTradesYet'
  BY NoTradesStep DEF IInv
<1>3. Init => RInv
  BY <1>1, InitInvariant DEF RInv
<1>4. RInv /\ [Next]_vars => RInv'
  BY <1>2, StepInvariant DEF RInv
<1> QED
  BY <1>3, <1>4, PTL DEF Spec

(* The empty book is the empty book. *)
LEMMA InitSimulates == Init => Abstract!Init
<1> SUFFICES ASSUME Init PROVE Abstract!Init
  OBVIOUS
<1>1. IInv
  BY InitInvariant
<1>2. pc = "idle" /\ trades = <<>> /\ \A id \in OrderIds : ~ Live(id)
  BY DEF Init, Live
<1>3. PromisedBook = Standing /\ PromisedFills = <<>> /\ Request = NoOrder
  BY <1>2, Idle DEF WhileIdle
<1>4. ASSUME NEW s \in Side PROVE Standing[s] = <<>>
  <2>1. DOMAIN Standing[s] = {}
    BY <1>1, <1>2, StandingEntry
  <2>2. Standing[s] \in Seq(Entry(OrderIds, Prices))
    BY <1>1, StandingType DEF Book
  <2>3. Len(Standing[s]) = 0
    BY <2>1, <2>2, SeqPositions, FS_EmptySet
  <2> QED
    BY <2>2, <2>3
<1>5. Standing = [s \in Side |-> Standing[s]]
  BY <1>1, StandingNow DEF StandingIs
<1>6. [s \in Side |-> Standing[s]] = [s \in Side |-> <<>>]
  BY <1>4, Zenon
<1>7. Standing = [s \in Side |-> <<>>]
  BY <1>5, <1>6, Zenon
<1> QED
  BY <1>3, <1>7, WordsAgree DEF Abstract!Init

(* Every step is a step of the abstract book or invisible to it. *)
LEMMA StepSimulates ==
  ASSUME RInv, RInv', [Next]_vars
  PROVE  [Abstract!Next]_(Abstract!vars)
<1>1. IInv /\ IInv' /\ TypeOK /\ NoTradesYet
  BY DEF RInv, IInv
<1>2. ASSUME NEW id \in OrderIds, NEW side \in Side, NEW type \in OrderType,
             NEW price \in Prices, NEW qty \in Quantities,
             submit_order(id, side, type, price, qty)
      PROVE  Abstract!Next
  <2>1. pc = "idle" /\ Begin(id, side, type, price, qty) /\ trades = <<>>
    BY <1>1, <1>2 DEF submit_order, NoTradesYet
  <2>2. qty \in Int
    BY NumberAssumption
  <2>3. PICK o : o = NewOrder(id, side, type, price, qty)
    OBVIOUS
  <2>4. Abstract!Take(o)
    BY <1>1, <2>1, <2>2, <2>3, BeginStep
  <2>5. Abstract!Submit(id, side, type, price, qty)
    BY <2>3, <2>4, SubmitIs
  <2> QED
    BY <2>5, WordsAgree DEF Abstract!Next
<1>3. ASSUME NEW id \in OrderIds, cancel_order(id)
      PROVE  Abstract!Next
  <2>1. Abstract!Cancel(id)
    BY <1>1, <1>3, CancelStep
  <2> QED
    BY <2>1 DEF Abstract!Next
<1>4. ASSUME NEW id \in OrderIds, NEW qty \in Quantities \cap Nat, NEW price \in Prices,
             modify_order(id, qty, price)
      PROVE  Abstract!Next
  <2>1. trades = <<>>
    BY <1>1, <1>4 DEF modify_order, NoTradesYet
  <2>2. Abstract!Modify(id, qty, price)
    BY <1>1, <1>4, <2>1, ModifyStep
  <2> QED
    BY <2>2 DEF Abstract!Next
<1>5. CASE Match
  <2>1. SweepStep \/ RestStep \/ DiscardStep \/ DryRunStep
    BY <1>5 DEF Match, match_limit_order, match_market_order, match_ioc_order,
       match_fok_order, SweepStep, RestStep, DiscardStep, DryRunStep
  <2>2. CASE SweepStep \/ (DryRunStep /\ can_fok_be_fully_filled)
    BY <1>1, <2>2, InnerStep, HiddenIs
  <2>3. CASE RestStep \/ DiscardStep \/ (DryRunStep /\ ~ can_fok_be_fully_filled)
    <3>1. Abstract!Answer
      BY <1>1, <2>3, ReturnStep
    <3> QED
      BY <3>1 DEF Abstract!Next
  <2> QED
    BY <2>1, <2>2, <2>3
<1>6. CASE UNCHANGED vars
  <2>1. UNCHANGED <<orders_lookup, taker, pc, trades>>
    BY <1>6 DEF vars
  <2>2. Standing' = Standing
    BY <1>1, <2>1, SameStanding
  <2>3. Hidden
    BY <2>1, <2>2 DEF Hidden, PromisedBook, PromisedFills, WillSweep, ToCome, Request
  <2> QED
    BY <2>3, HiddenIs
<1> QED
  BY <1>2, <1>3, <1>4, <1>5, <1>6 DEF Next

(* Whatever the sequence of calls, the fills a call answers with and the     *)
(* book it leaves are those of the closed form of PriorityBook: the loops    *)
(* over levels and lists, with their iterators, their erasures and their     *)
(* early ends, implement it.                                                 *)
THEOREM Refines == Spec => ImplementsPriorityBook
<1>1. Init => Abstract!Init
  BY InitSimulates
<1>2. RInv /\ RInv' /\ [Next]_vars => [Abstract!Next]_(Abstract!vars)
  BY StepSimulates
<1> QED
  BY <1>1, <1>2, RefinementInvariant, PTL DEF Spec, ImplementsPriorityBook, Abstract!Spec
=============================================================================
