------------------------ MODULE MatchingEngineProofs ------------------------
(* What the feeds of MatchingEngine are worth, for any symbols, orders and   *)
(* prices, any depth and any resolution.                                     *)
EXTENDS MatchingEngine, PriorityRulesProofs

IsBook(b) == b \in Book(OrderIds, Prices)

(* At most n levels, as text. *)
IsMessage(q, n) == q \in Seq(Text) /\ Len(q) <= n

LEMMA EmptyIsBook == IsBook(EmptyBook)
<1>1. <<>> \in Seq(Entry(OrderIds, Prices))
  OBVIOUS
<1> QED
  BY <1>1 DEF IsBook, Book, EmptyBook

-----------------------------------------------------------------------------
(* What the messages show of a book *)

PricesOf(b, s) == {m.price : m \in ToSet(b[s])}

(* The k-th best level of a side, as text. *)
Level(b, s, k) ==
  LET total(p) == Wanted(b[s], {i \in DOMAIN b[s] : b[s][i].price = p})
      p == CHOOSE q \in PricesOf(b, s) : Rank(s, PricesOf(b, s), q) = k
  IN  <<to_string(p), to_string(total(p))>>

(* A side has finitely many prices, and none only when it is empty. *)
LEMMA FinitelyManyPrices ==
  ASSUME NEW b, IsBook(b), NEW s \in Side
  PROVE  /\ IsFiniteSet(PricesOf(b, s)) /\ Cardinality(PricesOf(b, s)) \in Nat
         /\ Cardinality(PricesOf(b, s)) = 0 => b[s] = <<>>
         /\ PricesOf(b, s) \subseteq Int
<1>1. b[s] \in Seq(Entry(OrderIds, Prices))
  BY DEF IsBook, Book
<1>2. /\ Len(b[s]) \in Nat /\ DOMAIN b[s] = 1 .. Len(b[s])
      /\ IsFiniteSet(DOMAIN b[s])
      /\ Len(b[s]) = 0 => b[s] = <<>>
  BY <1>1, SeqPositions
<1> DEFINE f == [i \in DOMAIN b[s] |-> b[s][i].price]
<1>3. PricesOf(b, s) = {f[i] : i \in DOMAIN b[s]}
  BY DEF PricesOf, ToSet
<1>4. f \in Surjection(DOMAIN b[s], PricesOf(b, s))
  BY <1>3 DEF Surjection
<1>5. IsFiniteSet(PricesOf(b, s))
  BY <1>2, <1>4, FS_Surjection
<1>6. Cardinality(PricesOf(b, s)) = 0 => PricesOf(b, s) = {}
  BY <1>5, FS_EmptySet
<1>7. ASSUME Len(b[s]) # 0
      PROVE  PricesOf(b, s) # {}
  <2>1. 1 \in DOMAIN b[s]
    BY <1>2, <1>7
  <2> QED
    BY <1>3, <2>1
<1>8. ASSUME NEW i \in DOMAIN b[s]
      PROVE  f[i] \in Int
  <2>1. b[s][i] \in Entry(OrderIds, Prices)
    BY <1>1
  <2>2. b[s][i].price \in Prices
    BY <2>1 DEF Entry
  <2> QED
    BY <2>2, NumberAssumption
<1> HIDE DEF f
<1>9. PricesOf(b, s) \subseteq Int
  BY <1>3, <1>8
<1> QED
  BY <1>2, <1>5, <1>6, <1>7, <1>9, FS_CardinalityType

LEMMA TextType ==
  ASSUME NEW x \in Int
  PROVE  to_string(x) \in Int
<1>1. 2 * x + Resolution \in Int /\ 2 * Resolution \in Nat /\ 2 * Resolution > 0
  BY FeedAssumption
<1>2. \A y \in Int, d \in Nat : d > 0 => y \div d \in Int
  OBVIOUS
<1> QED
  BY <1>1, <1>2 DEF to_string

(* Rounding is off by half of the smallest amount shown at most. *)
LEMMA TextIsNear ==
  ASSUME NEW x \in Int
  PROVE  /\ -Resolution <= 2 * (x - Resolution * to_string(x))
         /\ 2 * (x - Resolution * to_string(x)) <= Resolution
<1>1. Resolution \in Nat /\ Resolution > 0
  BY FeedAssumption
<1>2. PICK a, b, d : a = 2 * x + Resolution /\ b = 2 * Resolution /\ d = a \div b
  OBVIOUS
<1>3. a \in Int /\ b \in Int /\ b > 0
  BY <1>1, <1>2
<1>4. d \in Int /\ b * d <= a /\ a < b * d + b
  BY <1>2, <1>3
<1>5. b * d = 2 * (Resolution * d) /\ Resolution * d \in Int
  BY <1>1, <1>2, <1>4
<1> QED
  BY <1>1, <1>2, <1>4, <1>5 DEF to_string

LEMMA LevelType ==
  ASSUME NEW b, IsBook(b), NEW s \in Side, NEW k \in 1 .. Cardinality(PricesOf(b, s))
  PROVE  Level(b, s, k) \in Text
<1> DEFINE p     == CHOOSE q \in PricesOf(b, s) : Rank(s, PricesOf(b, s), q) = k
           at    == {i \in DOMAIN b[s] : b[s][i].price = p}
           total == Wanted(b[s], at)
<1>1. p \in PricesOf(b, s)
  BY FinitelyManyPrices, PricesAreRanked
<1>2. p \in Int
  BY <1>1, FinitelyManyPrices
<1>3. total \in Int
  <2>1. b[s] \in Seq(Entry(OrderIds, Prices))
    BY DEF IsBook, Book
  <2>2. IsFiniteSet(at)
    BY <2>1, SeqPositions
  <2>3. \A i \in at : b[s][i].remaining_quantity \in Int
    BY <2>1, EntryHasLeft
  <2> HIDE DEF at
  <2> QED
    BY <2>2, <2>3, WantedType
<1>4. Level(b, s, k) = <<to_string(p), to_string(total)>>
  BY DEF Level
<1> HIDE DEF p, total
<1>5. to_string(p) \in Int /\ to_string(total) \in Int
  BY <1>2, <1>3, TextType
<1> QED
  BY <1>4, <1>5 DEF Text

LEMMA TopIsSeq ==
  ASSUME NEW b, IsBook(b), NEW s \in Side, NEW n \in Nat
  PROVE  /\ Top(b, s, n) \in Seq(Text)
         /\ Len(Top(b, s, n)) = IF n <= Cardinality(PricesOf(b, s))
                                THEN n ELSE Cardinality(PricesOf(b, s))
         /\ \A k \in 1 .. Len(Top(b, s, n)) : Top(b, s, n)[k] = Level(b, s, k)
<1> DEFINE c == Cardinality(PricesOf(b, s))
<1>1. c \in Nat
  BY FinitelyManyPrices
<1> DEFINE l == IF n <= c THEN n ELSE c
<1>2. Min({n, c}) = l /\ l \in Nat /\ l <= c
  BY <1>1, MinOfTwo
<1>3. Top(b, s, n) = [k \in 1 .. Min({n, c}) |-> Level(b, s, k)]
  BY DEF Top, Level, PricesOf, Rank
<1>4. \A k \in 1 .. l : Level(b, s, k) \in Text
  BY <1>1, <1>2, LevelType
<1> HIDE DEF l, c
<1>5. Top(b, s, n) = [k \in 1 .. l |-> Level(b, s, k)]
  BY <1>2, <1>3
<1>6. Top(b, s, n) \in Seq(Text) /\ Len(Top(b, s, n)) = l
  <2>1. Top(b, s, n) = [k \in 1 .. l |-> Top(b, s, n)[k]]
    BY <1>5
  <2>2. \A k \in 1 .. l : Top(b, s, n)[k] \in Text
    BY <1>4, <1>5
  <2> QED
    BY <1>2, <2>1, <2>2, FunctionIsSeq
<1> QED
  BY <1>5, <1>6 DEF l, c

LEMMA MessagesAreText ==
  ASSUME NEW b, IsBook(b), NEW s \in Side
  PROVE  IsMessage(get_bbo(b)[s], 1) /\ IsMessage(get_l2_depth(b)[s], Depth)
<1>1. ASSUME NEW n \in Nat
      PROVE  IsMessage(Top(b, s, n), n)
  <2>1. Cardinality(PricesOf(b, s)) \in Nat
    BY FinitelyManyPrices
  <2> QED
    BY <2>1, TopIsSeq DEF IsMessage
<1>2. Depth \in Nat
  BY FeedAssumption
<1> QED
  BY <1>1, <1>2 DEF get_bbo, get_l2_depth

(* A depth message begins with the BBO. *)
LEMMA DepthBeginsWithBbo ==
  ASSUME NEW b, IsBook(b), NEW s \in Side
  PROVE  get_bbo(b)[s] = SubSeq(get_l2_depth(b)[s], 1, Min({1, Len(get_l2_depth(b)[s])}))
<1> DEFINE c    == Cardinality(PricesOf(b, s))
           one  == Top(b, s, 1)
           deep == Top(b, s, Depth)
<1>1. get_bbo(b)[s] = one /\ get_l2_depth(b)[s] = deep
  BY DEF get_bbo, get_l2_depth
<1>2. Depth \in Nat /\ Depth >= 1
  BY FeedAssumption
<1>3. c \in Nat
  BY FinitelyManyPrices
<1>4. /\ one \in Seq(Text) /\ Len(one) = IF 1 <= c THEN 1 ELSE c
      /\ \A k \in 1 .. Len(one) : one[k] = Level(b, s, k)
  BY TopIsSeq
<1>5. /\ deep \in Seq(Text) /\ Len(deep) = IF Depth <= c THEN Depth ELSE c
      /\ \A k \in 1 .. Len(deep) : deep[k] = Level(b, s, k)
  BY <1>2, TopIsSeq
<1> HIDE DEF c, one, deep
<1>6. Len(deep) \in Nat /\ Len(one) = Min({1, Len(deep)})
  <2>1. Len(deep) \in Nat
    BY <1>2, <1>3, <1>5
  <2>2. Min({1, Len(deep)}) = IF 1 <= Len(deep) THEN 1 ELSE Len(deep)
    BY <2>1, MinOfTwo
  <2> QED
    BY <1>2, <1>3, <1>4, <1>5, <2>1, <2>2
<1>8. Len(one) \in 0 .. Len(deep)
  BY <1>2, <1>3, <1>4, <1>5
<1> DEFINE front == SubSeq(deep, 1, Len(one))
<1>9. /\ front \in Seq(Text) /\ Len(front) = Len(one)
      /\ \A k \in 1 .. Len(one) : front[k] = deep[k]
  <2>1. 1 \in 1 .. Len(deep) + 1 /\ Len(one) \in 1 - 1 .. Len(deep)
    BY <1>6, <1>8
  <2>2. /\ front \in Seq(Text)
        /\ Len(front) = IF 1 <= Len(one) THEN Len(one) - 1 + 1 ELSE 0
        /\ \A k \in 1 .. Len(one) - 1 + 1 : front[k] = deep[1 + k - 1]
    BY <1>5, <2>1, SubSeqProperties
  <2>3. Len(one) \in Nat /\ \A k \in 1 .. Len(one) : 1 + k - 1 = k
    BY <1>6, <1>8
  <2> HIDE DEF front
  <2> QED
    BY <2>2, <2>3
<1>10. one = front
  <2> HIDE DEF front
  <2>1. ASSUME NEW k \in 1 .. Len(one)
        PROVE  one[k] = front[k]
    <3>1. k \in 1 .. Len(deep)
      BY <1>6, <1>8
    <3>2. one[k] = Level(b, s, k) /\ deep[k] = Level(b, s, k)
      BY <1>4, <1>5, <3>1
    <3> QED
      BY <1>9, <3>2
  <2> QED
    BY <1>4, <1>9, <2>1, SeqEqual
<1> QED
  BY <1>1, <1>6, <1>10

(* The BBO of a book that holds an order is not that of an empty one.        *)
LEMMA BboShowsOrders ==
  ASSUME NEW b, IsBook(b), b # EmptyBook
  PROVE  get_bbo(b) # get_bbo(EmptyBook)
<1>1. IsBook(EmptyBook)
  BY EmptyIsBook
<1>2. PICK s \in Side : b[s] # <<>>
  BY DEF IsBook, Book, EmptyBook
<1>3. Len(Top(b, s, 1)) = 1
  <2>1. Cardinality(PricesOf(b, s)) \in Nat \ {0}
    BY <1>2, FinitelyManyPrices
  <2>2. Len(Top(b, s, 1)) = IF 1 <= Cardinality(PricesOf(b, s))
                            THEN 1 ELSE Cardinality(PricesOf(b, s))
    BY TopIsSeq
  <2>3. 1 <= Cardinality(PricesOf(b, s))
    BY <2>1
  <2> QED
    BY <2>2, <2>3, Zenon
<1>4. Len(Top(EmptyBook, s, 1)) = 0
  <2>1. PricesOf(EmptyBook, s) = {}
    BY DEF PricesOf, ToSet, EmptyBook
  <2>2. Cardinality(PricesOf(EmptyBook, s)) = 0
    BY <2>1, FS_EmptySet
  <2> QED
    BY <1>1, <2>2, TopIsSeq
<1>5. get_bbo(b)[s] = Top(b, s, 1) /\ get_bbo(EmptyBook)[s] = Top(EmptyBook, s, 1)
  BY DEF get_bbo
<1>6. Top(b, s, 1) # Top(EmptyBook, s, 1)
  BY <1>3, <1>4
<1> QED
  BY <1>5, <1>6, Zenon

-----------------------------------------------------------------------------
(* Every call *)

(* What every call on a book is known by, id being the order it is about:    *)
(* other orders change by the fills, and without a depth message nothing     *)
(* changes, or one order makes way for another of its identifier.            *)
Accounts(old, call, id) ==
  \A other : other # id =>
    LeftInBook(call.book, other) = LeftInBook(old, other) - Taken(call.fills, other)

Swapped(old, new, id) ==
  /\ id \in OrderIds
  /\ Without(new, id) = Without(old, id)
  /\ \A s \in Side : \A i \in DOMAIN new[s] :
       new[s][i].order_id = id => new[s][i].order_type = FOK /\ id \in BinanceIds

GoodCall(old, call, id) ==
  /\ IsBook(call.book)
  /\ call.fills \in Seq(FillRecords(OrderIds, Prices))
  /\ call.bbo => call.depth
  /\ ~ call.bbo => get_bbo(call.book) = get_bbo(old)
  /\ ~ call.depth => /\ call.fills = <<>>
                     /\ call.book = old \/ Swapped(old, call.book, id)
  /\ Accounts(old, call, id)

LEMMA NoFills ==
  /\ <<>> \in Seq(FillRecords(OrderIds, Prices))
  /\ \A b \in Book(OrderIds, Prices) : \A id :
       LeftInBook(b, id) = LeftInBook(b, id) - Taken(<<>>, id)
<1>1. ASSUME NEW b \in Book(OrderIds, Prices), NEW id
      PROVE  LeftInBook(b, id) = LeftInBook(b, id) - Taken(<<>>, id)
  <2>1. LeftInBook(b, id) \in Nat
    BY LeftInBookType
  <2>2. Taken(<<>>, id) = 0
    BY TakenOfNothing
  <2> QED
    BY <2>1, <2>2
<1> QED
  BY <1>1

LEMMA NoCallIsGood ==
  ASSUME NEW old, IsBook(old), NEW id
  PROVE  GoodCall(old, NoCall(old), id)
<1>1. \A other : LeftInBook(old, other) = LeftInBook(old, other) - Taken(<<>>, other)
  BY NoFills DEF IsBook
<1>2. <<>> \in Seq(FillRecords(OrderIds, Prices))
  BY NoFills
<1> QED
  BY <1>1, <1>2 DEF GoodCall, NoCall, Accounts

(* A submission without a depth message has no fills, is no LIMIT order and  *)
(* leaves the BBO.                                                           *)
LEMMA SubmitCallIsGood ==
  ASSUME NEW old, IsBook(old), NEW o, IsOrder(o, OrderIds, Prices)
  PROVE  GoodCall(old, SubmitCall(old, o), o.order_id)
<1>1. PICK new : new = Submitted(old, o)
  OBVIOUS
<1>2. PICK changed, due : /\ changed = bbo_changed(old, new.book)
                          /\ due = DepthDue(changed, new.fills, o.order_type)
  OBVIOUS
<1>3. PICK call : call = [book |-> new.book, fills |-> new.fills,
                          bbo |-> changed, depth |-> due]
  OBVIOUS
<1>4. SubmitCall(old, o) = call
  BY <1>1, <1>2, <1>3 DEF SubmitCall
<1>5. call.book = new.book /\ call.fills = new.fills /\ call.bbo = changed /\ call.depth = due
  BY <1>3
<1>6. IsBook(new.book) /\ new.fills \in Seq(FillRecords(OrderIds, Prices))
  BY <1>1, SubmittedType DEF IsBook
<1>7. ~ changed => get_bbo(new.book) = get_bbo(old)
  BY <1>2 DEF bbo_changed
<1>8. (changed => due) /\ (~ due => new.fills = <<>> /\ o.order_type # LIMIT)
  BY <1>2 DEF DepthDue
<1>9. ASSUME ~ due
      PROVE  Swapped(old, new.book, o.order_id)
  <2>1. o.order_type # LIMIT /\ Submitted(old, o).fills = <<>>
    BY <1>1, <1>8, <1>9
  <2>2. /\ Without(Submitted(old, o).book, o.order_id) = Without(old, o.order_id)
        /\ \A s \in Side : \A i \in DOMAIN Submitted(old, o).book[s] :
             Submitted(old, o).book[s][i].order_id = o.order_id =>
               /\ Submitted(old, o).book[s][i].order_type = FOK
               /\ o.order_id \in BinanceIds
    BY <2>1, SilentSubmission DEF IsBook
  <2> QED
    BY <1>1, <2>2 DEF Swapped, IsOrder
<1>10. ASSUME NEW other, other # o.order_id
       PROVE  LeftInBook(new.book, other) = LeftInBook(old, other) - Taken(new.fills, other)
  BY <1>1, <1>10, SubmittedAccounts DEF IsBook
<1> QED
  BY <1>4, <1>5, <1>6, <1>7, <1>8, <1>9, <1>10 DEF GoodCall, Accounts

LEMMA CancelCallIsGood ==
  ASSUME NEW old, IsBook(old), NEW id
  PROVE  GoodCall(old, CancelCall(old, id), id)
<1>1. CASE Rests(old, id)
  <2>1. PICK call : call = [book |-> Without(old, id), fills |-> <<>>,
                            bbo |-> TRUE, depth |-> TRUE]
    OBVIOUS
  <2>2. CancelCall(old, id) = call
    BY <1>1, <2>1 DEF CancelCall
  <2>3. IsBook(Without(old, id))
    BY WithoutType DEF IsBook
  <2>4. ASSUME NEW other, other # id
        PROVE  LeftInBook(Without(old, id), other) = LeftInBook(old, other) - Taken(<<>>, other)
    <3>1. LeftInBook(Without(old, id), other) = LeftInBook(old, other)
      BY <2>4, WithoutAccounts DEF IsBook
    <3> QED
      BY <3>1, NoFills DEF IsBook
  <2>5. <<>> \in Seq(FillRecords(OrderIds, Prices))
    BY NoFills
  <2>6. call.book = Without(old, id) /\ call.fills = <<>> /\ call.bbo /\ call.depth
    BY <2>1
  <2> QED
    BY <2>2, <2>3, <2>4, <2>5, <2>6 DEF GoodCall, Accounts
<1>2. CASE ~ Rests(old, id)
  BY <1>2, NoCallIsGood DEF CancelCall
<1> QED
  BY <1>1, <1>2

LEMMA ModifyCallIsGood ==
  ASSUME NEW old, IsBook(old), NEW side \in Side, NEW i \in DOMAIN old[side],
         NEW qty \in Nat, NEW price \in Prices
  PROVE  GoodCall(old, ModifyCall(old, side, i, qty, price), old[side][i].order_id)
<1>1. PICK new, m, o : /\ new = Modified(old, side, i, qty, price)
                       /\ m = old[side][i]
                       /\ o = NewOrder(m.order_id, side, m.order_type, price, qty)
  OBVIOUS
<1>2. m.order_id \in OrderIds /\ m.order_type \in OrderType
  <2>1. m \in Entry(OrderIds, Prices)
    BY <1>1 DEF IsBook, Book
  <2> QED
    BY <2>1 DEF Entry
<1>3. IsOrder(o, OrderIds, Prices) /\ o.order_id = m.order_id
  BY <1>1, <1>2 DEF IsOrder, NewOrder
<1>4. new = IF Kept(m, qty, price)
            THEN [fills |-> <<>>, book |-> Reduced(old, side, i, qty)]
            ELSE Submitted(old, o)
  BY <1>1 DEF Modified
<1>5. /\ IsBook(new.book) /\ new.fills \in Seq(FillRecords(OrderIds, Prices))
      /\ \A other : other # m.order_id =>
           LeftInBook(new.book, other) = LeftInBook(old, other) - Taken(new.fills, other)
  <2>1. CASE Kept(m, qty, price)
    <3>1. new.fills = <<>> /\ new.book = Reduced(old, side, i, qty)
      BY <1>4, <2>1
    <3>2. IsBook(Reduced(old, side, i, qty))
      BY ReducedType DEF IsBook
    <3>3. ASSUME NEW other, other # m.order_id
          PROVE  LeftInBook(new.book, other) = LeftInBook(old, other) - Taken(new.fills, other)
      <4>1. LeftInBook(Reduced(old, side, i, qty), other) = LeftInBook(old, other)
        BY <1>1, <3>3, ReducedAccounts DEF IsBook
      <4> QED
        BY <3>1, <4>1, NoFills DEF IsBook
    <3> QED
      BY <3>1, <3>2, <3>3, NoFills
  <2>2. CASE ~ Kept(m, qty, price)
    <3>1. new = Submitted(old, o)
      BY <1>4, <2>2
    <3>2. IsBook(new.book) /\ new.fills \in Seq(FillRecords(OrderIds, Prices))
      BY <1>3, <3>1, SubmittedType DEF IsBook
    <3>3. ASSUME NEW other, other # m.order_id
          PROVE  LeftInBook(new.book, other) = LeftInBook(old, other) - Taken(new.fills, other)
      BY <1>3, <3>1, <3>3, SubmittedAccounts DEF IsBook
    <3> QED
      BY <3>2, <3>3
  <2> QED
    BY <2>1, <2>2
<1>6. PICK call : call = [book |-> new.book, fills |-> new.fills, bbo |-> TRUE, depth |-> TRUE]
  OBVIOUS
<1>7. call.book = new.book /\ call.fills = new.fills /\ call.bbo /\ call.depth
  BY <1>6
<1>8. ModifyCall(old, side, i, qty, price) = call
  BY <1>1, <1>6 DEF ModifyCall
<1> QED
  BY <1>1, <1>5, <1>7, <1>8 DEF GoodCall, Accounts

(* Every step but a reset is a good call on one symbol. *)
StepOf(symbol, call, id) ==
  GoodCall(get_or_create_book(symbol), call, id) /\ Perform(symbol, call)

Books ==
  /\ DOMAIN books \subseteq Symbols
  /\ \A symbol \in DOMAIN books : IsBook(books[symbol])

LEMMA EveryCallIsGood ==
  ASSUME Books, Next
  PROVE  reset \/ \E symbol \in Symbols : \E call, id : StepOf(symbol, call, id)
<1>1. ASSUME NEW symbol
      PROVE  IsBook(get_or_create_book(symbol))
  BY EmptyIsBook DEF get_or_create_book, Books
<1>2. ASSUME NEW symbol \in Symbols, NEW id \in OrderIds, NEW side \in Side,
             NEW type \in OrderType, NEW price \in Prices, NEW qty \in Quantities,
             submit_order(symbol, NewOrder(id, side, type, price, qty))
      PROVE  \E call, about : StepOf(symbol, call, about)
  <2>1. PICK o : o = NewOrder(id, side, type, price, qty)
    OBVIOUS
  <2>2. IsOrder(o, OrderIds, Prices)
    BY <2>1, NumberAssumption DEF NewOrder, IsOrder
  <2> QED
    BY <1>1, <1>2, <2>1, <2>2, SubmitCallIsGood DEF submit_order, StepOf
<1>3. ASSUME NEW symbol \in Symbols, NEW id \in OrderIds, cancel_order(symbol, id)
      PROVE  \E call, about : StepOf(symbol, call, about)
  BY <1>1, <1>3, CancelCallIsGood DEF cancel_order, StepOf
<1>4. ASSUME NEW symbol \in Symbols, NEW id \in OrderIds, NEW qty \in Quantities \cap Nat,
             NEW price \in Prices, modify_order(symbol, id, qty, price)
      PROVE  \E call, about : StepOf(symbol, call, about)
  BY <1>1, <1>4, ModifyCallIsGood, NoCallIsGood DEF modify_order, StepOf
<1>5. ASSUME NEW symbol \in Symbols, Query(symbol)
      PROVE  \E call, about : StepOf(symbol, call, about)
  BY <1>1, <1>5, NoCallIsGood DEF Query, StepOf
<1> QED
  BY <1>2, <1>3, <1>4, <1>5 DEF Next

-----------------------------------------------------------------------------
(* The feeds *)

Feeds ==
  /\ bbo_feed = [symbol \in Symbols |-> bbo_feed[symbol]]
  /\ depth_feed = [symbol \in Symbols |-> depth_feed[symbol]]

Messages ==
  \A symbol \in Symbols, s \in Side :
    IsMessage(bbo_feed[symbol][s], 1) /\ IsMessage(depth_feed[symbol][s], Depth)

Trades == \A k \in DOMAIN trade_feed : trade_feed[k].symbol \in Symbols

IInv == Feeds /\ Messages /\ Trades /\ Books /\ BboFeedIsCurrent /\ FeedsAgree

(* There are no books in the beginning. *)
LEMMA InitIInv == Init => IInv
<1> SUFFICES ASSUME Init PROVE IInv
  OBVIOUS
<1>1. DOMAIN books = {}
  BY DEF Init
<1>2. \A symbol : get_or_create_book(symbol) = EmptyBook
  BY <1>1 DEF get_or_create_book
<1>3. Books /\ BboFeedIsCurrent /\ FeedsAgree
  BY <1>1, <1>2 DEF Books, BboFeedIsCurrent, FeedsAgree
<1>4. Feeds /\ Trades
  BY DEF Init, Feeds, Trades
<1>5. Messages
  <2>1. \A symbol \in Symbols, s \in Side :
          bbo_feed[symbol][s] = <<>> /\ depth_feed[symbol][s] = <<>>
    BY DEF Init, NoLevels
  <2>2. IsMessage(<<>>, 1) /\ IsMessage(<<>>, Depth)
    <3>1. Depth \in Nat
      BY FeedAssumption
    <3>2. <<>> \in Seq(Text) /\ Len(<<>>) = 0
      OBVIOUS
    <3> QED
      BY <3>1, <3>2 DEF IsMessage
  <2> QED
    BY <2>1, <2>2 DEF Messages
<1> QED
  BY <1>3, <1>4, <1>5 DEF IInv

(* What a call leaves of the books and of the feeds of each symbol. *)
LEMMA CallEffect ==
  ASSUME Feeds, NEW symbol \in Symbols, NEW call, Perform(symbol, call)
  PROVE  /\ Feeds'
         /\ DOMAIN books' = DOMAIN books \cup {symbol}
         /\ get_or_create_book(symbol)' = call.book
         /\ bbo_feed'[symbol] = IF call.bbo THEN get_bbo(call.book) ELSE bbo_feed[symbol]
         /\ depth_feed'[symbol] =
              IF call.depth THEN get_l2_depth(call.book) ELSE depth_feed[symbol]
         /\ \A other :
              other # symbol => get_or_create_book(other)' = get_or_create_book(other)
         /\ \A other \in Symbols \ {symbol} :
              /\ bbo_feed'[other] = bbo_feed[other]
              /\ depth_feed'[other] = depth_feed[other]
         /\ trade_feed' = [k \in DOMAIN call.fills |->
                             [symbol |-> symbol, trade |-> call.fills[k]]]
<1>1. books' = [other \in DOMAIN books \cup {symbol} |->
                  IF other = symbol THEN call.book ELSE books[other]]
  BY DEF Perform
<1>2. bbo_feed' = IF call.bbo THEN [bbo_feed EXCEPT ![symbol] = get_bbo(call.book)]
                  ELSE bbo_feed
  BY DEF Perform, SendBbo
<1>3. depth_feed' = IF call.depth
                    THEN [depth_feed EXCEPT ![symbol] = get_l2_depth(call.book)]
                    ELSE depth_feed
  BY DEF Perform, SendDepth
<1>4. /\ DOMAIN books' = DOMAIN books \cup {symbol}
      /\ get_or_create_book(symbol)' = call.book
      /\ \A other :
           other # symbol => get_or_create_book(other)' = get_or_create_book(other)
  BY <1>1 DEF get_or_create_book
<1>5. /\ bbo_feed' = [other \in Symbols |-> bbo_feed'[other]]
      /\ bbo_feed'[symbol] = IF call.bbo THEN get_bbo(call.book) ELSE bbo_feed[symbol]
      /\ \A other \in Symbols \ {symbol} : bbo_feed'[other] = bbo_feed[other]
  BY <1>2 DEF Feeds
<1>6. /\ depth_feed' = [other \in Symbols |-> depth_feed'[other]]
      /\ depth_feed'[symbol] =
           IF call.depth THEN get_l2_depth(call.book) ELSE depth_feed[symbol]
      /\ \A other \in Symbols \ {symbol} : depth_feed'[other] = depth_feed[other]
  BY <1>3 DEF Feeds
<1>7. trade_feed' = [k \in DOMAIN call.fills |->
                       [symbol |-> symbol, trade |-> call.fills[k]]]
  BY DEF Perform, SendTrades
<1> QED
  BY <1>4, <1>5, <1>6, <1>7 DEF Feeds

(* A good call keeps the feeds right, and tells of every BBO it changes. *)
LEMMA CallKeepsIInv ==
  ASSUME IInv, NEW symbol \in Symbols, NEW call, NEW id, StepOf(symbol, call, id)
  PROVE  /\ IInv'
         /\ \A other \in Symbols :
              Bbo(other)' # Bbo(other) => bbo_feed'[other] = Bbo(other)'
<1> DEFINE old == get_or_create_book(symbol)
           new == call.book
<1>1. /\ Feeds'
      /\ DOMAIN books' = DOMAIN books \cup {symbol}
      /\ get_or_create_book(symbol)' = new
      /\ bbo_feed'[symbol] = IF call.bbo THEN get_bbo(new) ELSE bbo_feed[symbol]
      /\ depth_feed'[symbol] = IF call.depth THEN get_l2_depth(new) ELSE depth_feed[symbol]
      /\ \A other :
           other # symbol => get_or_create_book(other)' = get_or_create_book(other)
      /\ \A other \in Symbols \ {symbol} :
           /\ bbo_feed'[other] = bbo_feed[other]
           /\ depth_feed'[other] = depth_feed[other]
      /\ trade_feed' = [k \in DOMAIN call.fills |->
                          [symbol |-> symbol, trade |-> call.fills[k]]]
  BY CallEffect DEF IInv, StepOf
<1>2. /\ IsBook(new)
      /\ call.bbo => call.depth
      /\ ~ call.bbo => get_bbo(new) = get_bbo(old)
  BY DEF StepOf, GoodCall
<1>3. new # EmptyBook => get_bbo(new) # get_bbo(EmptyBook)
  BY <1>2, BboShowsOrders
<1>4. old # EmptyBook => bbo_feed[symbol] = get_bbo(old)
  BY DEF IInv, BboFeedIsCurrent, Bbo
<1>5. new # EmptyBook => bbo_feed'[symbol] = get_bbo(new)
  BY <1>1, <1>2, <1>3, <1>4
<1>6. BboFeedIsCurrent'
  <2> SUFFICES ASSUME NEW other \in Symbols, (get_or_create_book(other) # EmptyBook)'
               PROVE  (bbo_feed[other] = Bbo(other))'
    BY DEF BboFeedIsCurrent
  <2>1. CASE other = symbol
    BY <2>1, <1>1, <1>5 DEF Bbo
  <2>2. CASE other # symbol
    BY <2>2, <1>1 DEF Bbo, IInv, BboFeedIsCurrent
  <2> QED
    BY <2>1, <2>2
<1>7. Books'
  <2>0. DOMAIN books' \subseteq Symbols
    BY <1>1 DEF IInv, Books
  <2> SUFFICES ASSUME NEW other \in DOMAIN books'
               PROVE  IsBook(get_or_create_book(other)')
    BY <2>0 DEF Books, get_or_create_book
  <2>1. CASE other = symbol
    BY <2>1, <1>1, <1>2
  <2>2. CASE other # symbol
    <3>1. other \in DOMAIN books
      BY <2>2, <1>1
    <3>2. IsBook(get_or_create_book(other))
      BY <3>1 DEF IInv, Books, get_or_create_book
    <3> QED
      BY <2>2, <3>2, <1>1
  <2> QED
    BY <2>1, <2>2
<1>8. FeedsAgree'
  <2> SUFFICES ASSUME NEW other \in Symbols, (get_or_create_book(other) # EmptyBook)',
                      NEW s \in Side
               PROVE  (bbo_feed[other][s] = SubSeq(depth_feed[other][s], 1,
                         Min({1, Len(depth_feed[other][s])})))'
    BY DEF FeedsAgree
  <2>1. CASE other # symbol
    BY <2>1, <1>1 DEF IInv, FeedsAgree
  <2>2. CASE other = symbol /\ call.depth
    <3>1. bbo_feed'[symbol] = get_bbo(new) /\ depth_feed'[symbol] = get_l2_depth(new)
      BY <2>2, <1>1, <1>5
    <3>2. get_bbo(new)[s] = SubSeq(get_l2_depth(new)[s], 1,
                                   Min({1, Len(get_l2_depth(new)[s])}))
      BY <1>2, DepthBeginsWithBbo
    <3> QED
      BY <2>2, <3>1, <3>2
  <2>3. CASE other = symbol /\ ~ call.depth
    <3>1. bbo_feed'[symbol] = bbo_feed[symbol] /\ depth_feed'[symbol] = depth_feed[symbol]
      BY <2>3, <1>1, <1>2
    <3>2. old # EmptyBook
      BY <2>3, <1>1, <1>2, <1>3
    <3> QED
      BY <2>3, <3>1, <3>2 DEF IInv, FeedsAgree
  <2> QED
    BY <2>1, <2>2, <2>3
<1>9. ASSUME NEW other \in Symbols, Bbo(other)' # Bbo(other)
      PROVE  bbo_feed'[other] = Bbo(other)'
  <2>1. other = symbol
    BY <1>1, <1>9 DEF Bbo
  <2>2. Bbo(symbol)' = get_bbo(new) /\ Bbo(symbol) = get_bbo(old)
    BY <1>1 DEF Bbo
  <2> QED
    BY <2>1, <2>2, <1>1, <1>2, <1>9
<1>10. Trades'
  BY <1>1 DEF Trades
<1>11. Messages'
  <2> SUFFICES ASSUME NEW other \in Symbols, NEW s \in Side
               PROVE  /\ IsMessage(bbo_feed'[other][s], 1)
                      /\ IsMessage(depth_feed'[other][s], Depth)
    BY DEF Messages
  <2>1. /\ IsMessage(bbo_feed[other][s], 1) /\ IsMessage(depth_feed[other][s], Depth)
    BY DEF IInv, Messages
  <2>2. IsMessage(get_bbo(new)[s], 1) /\ IsMessage(get_l2_depth(new)[s], Depth)
    BY <1>2, MessagesAreText
  <2> QED
    BY <1>1, <2>1, <2>2
<1> QED
  BY <1>1, <1>6, <1>7, <1>8, <1>9, <1>10, <1>11 DEF IInv

LEMMA StepIInv == IInv /\ [Next]_vars => IInv'
<1> SUFFICES ASSUME IInv, [Next]_vars PROVE IInv'
  OBVIOUS
<1>1. CASE reset
  <2>1. /\ DOMAIN books' = {} /\ bbo_feed' = bbo_feed /\ depth_feed' = depth_feed
        /\ trade_feed' = <<>>
    BY <1>1 DEF reset
  <2>2. \A symbol : get_or_create_book(symbol)' = EmptyBook
    BY <2>1 DEF get_or_create_book
  <2> QED
    BY <2>1, <2>2 DEF IInv, Feeds, Messages, Trades, Books, BboFeedIsCurrent, FeedsAgree
<1>2. CASE \E symbol \in Symbols : \E call, id : StepOf(symbol, call, id)
  BY <1>2, CallKeepsIInv
<1>3. CASE UNCHANGED vars
  BY <1>3 DEF vars, IInv, Feeds, Messages, Trades, Books, BboFeedIsCurrent, FeedsAgree,
              Bbo, get_or_create_book
<1> QED
  BY <1>1, <1>2, <1>3, EveryCallIsGood DEF IInv

(* In every state the feeds tell the best prices of every book with orders.  *)
THEOREM FeedInvariant == Spec => []IInv
BY InitIInv, StepIInv, PTL DEF Spec

LEMMA TypesFollow == IInv => TypeOK
<1> SUFFICES ASSUME IInv PROVE TypeOK
  OBVIOUS
<1>1. ASSUME NEW symbol \in DOMAIN books, NEW s \in Side,
             NEW i \in DOMAIN books[symbol][s]
      PROVE  /\ books[symbol][s][i].order_id \in OrderIds
             /\ books[symbol][s][i].order_type \in OrderType
             /\ books[symbol][s][i].price \in Prices
             /\ books[symbol][s][i].remaining_quantity \in Nat \ {0}
  <2>1. books[symbol][s] \in Seq(Entry(OrderIds, Prices))
    BY DEF IInv, Books, IsBook, Book
  <2>2. books[symbol][s][i] \in Entry(OrderIds, Prices)
    BY <2>1
  <2> QED
    BY <2>2 DEF Entry
<1> QED
  BY <1>1 DEF TypeOK, IInv, Books, Messages, IsMessage, Trades

(* Books hold typed orders with something left, and messages are at most one *)
(* level or Depth levels of numbers, whatever calls were made.               *)
THEOREM FeedTypes == Spec => []TypeOK
BY FeedInvariant, TypesFollow, PTL

(* The BBO feed is current for every book that holds an order, whichever     *)
(* calls said nothing because nothing had changed.                           *)
THEOREM BboFeedAlwaysCurrent == Spec => []BboFeedIsCurrent
<1>1. IInv => BboFeedIsCurrent
  BY DEF IInv
<1> QED
  BY <1>1, FeedInvariant, PTL

(* The BBO and depth feeds, sent on different conditions, never contradict   *)
(* each other.                                                               *)
THEOREM FeedsAlwaysAgree == Spec => []FeedsAgree
<1>1. IInv => FeedsAgree
  BY DEF IInv
<1> QED
  BY <1>1, FeedInvariant, PTL

(* No call but a reset changes a BBO without a message. *)
THEOREM ResetAloneIsSilent == Spec => OnlyResetIsSilent
<1> DEFINE Step == \A symbol \in Symbols :
             Bbo(symbol)' # Bbo(symbol) => WasReset \/ bbo_feed'[symbol] = Bbo(symbol)'
<1>1. IInv /\ [Next]_vars => [Step]_vars
  <2> SUFFICES ASSUME IInv, Next PROVE Step
    OBVIOUS
  <2>1. CASE reset
    BY <2>1 DEF reset, WasReset
  <2>2. CASE \E symbol \in Symbols : \E call, id : StepOf(symbol, call, id)
    BY <2>2, CallKeepsIInv
  <2> QED
    BY <2>1, <2>2, EveryCallIsGood DEF IInv
<1> QED
  BY <1>1, FeedInvariant, PTL DEF Spec, OnlyResetIsSilent

-----------------------------------------------------------------------------
(* What a call tells of the depth and of the orders *)

(* A call without a depth message keeps every level it does not replace.     *)
LEMMA CallMissesOnlyOneOrder ==
  ASSUME IInv, NEW symbol \in Symbols, NEW call, NEW id, StepOf(symbol, call, id),
         NEW other \in Symbols, L2Depth(other)' # L2Depth(other)
  PROVE  \/ depth_feed'[other] = L2Depth(other)'
         \/ /\ trade_feed' = <<>>
            /\ Bbo(other)' = Bbo(other)
            /\ \E subject \in OrderIds :
                 /\ Without(get_or_create_book(other), subject)'
                      = Without(get_or_create_book(other), subject)
                 /\ Types(other, subject)' \subseteq {FOK}
                 /\ Types(other, subject)' # {} => subject \in BinanceIds
<1> DEFINE old == get_or_create_book(symbol)
           new == call.book
<1>1. /\ get_or_create_book(symbol)' = new
      /\ depth_feed'[symbol] = IF call.depth THEN get_l2_depth(new) ELSE depth_feed[symbol]
      /\ \A any : any # symbol => get_or_create_book(any)' = get_or_create_book(any)
      /\ trade_feed' = [k \in DOMAIN call.fills |->
                          [symbol |-> symbol, trade |-> call.fills[k]]]
  BY CallEffect DEF IInv, StepOf
<1>2. other = symbol
  BY <1>1 DEF L2Depth
<1>3. L2Depth(symbol)' = get_l2_depth(new) /\ Bbo(symbol)' = get_bbo(new)
  BY <1>1 DEF L2Depth, Bbo
<1>4. CASE call.depth
  BY <1>1, <1>2, <1>3, <1>4
<1>5. CASE ~ call.depth
  <2>1. /\ call.fills = <<>>
        /\ new = old \/ Swapped(old, new, id)
        /\ get_bbo(new) = get_bbo(old)
    BY <1>5 DEF StepOf, GoodCall
  <2>2. new # old
    BY <1>2, <1>3 DEF L2Depth
  <2>3. /\ id \in OrderIds
        /\ Without(new, id) = Without(old, id)
        /\ \A s \in Side : \A i \in DOMAIN new[s] :
             new[s][i].order_id = id => new[s][i].order_type = FOK /\ id \in BinanceIds
    BY <2>1, <2>2 DEF Swapped
  <2>4. trade_feed' = <<>>
    BY <1>1, <2>1
  <2>5. Types(symbol, id)'
          = {m.order_type : m \in {m \in UNION {ToSet(new[s]) : s \in Side} :
                                     m.order_id = id}}
    BY <1>1 DEF Types
  <2>6. ASSUME NEW type \in Types(symbol, id)'
        PROVE  type = FOK /\ id \in BinanceIds
    <3>1. PICK s \in Side : \E i \in DOMAIN new[s] :
            new[s][i].order_id = id /\ type = new[s][i].order_type
      BY <2>5, <2>6 DEF ToSet
    <3> QED
      BY <3>1, <2>3
  <2>7. Types(symbol, id)' \subseteq {FOK} /\ (Types(symbol, id)' # {} => id \in BinanceIds)
    BY <2>6
  <2>8. /\ Bbo(symbol)' = Bbo(symbol)
        /\ Without(get_or_create_book(symbol), id)' = Without(get_or_create_book(symbol), id)
    BY <1>1, <1>3, <2>1, <2>3 DEF Bbo
  <2> QED
    BY <1>2, <2>3, <2>4, <2>7, <2>8
<1> QED
  BY <1>4, <1>5

(* Whoever follows the depth feed misses one order at a time, away from the  *)
(* best prices: one replaced by an order that neither traded nor rests, or a *)
(* Binance FOK order that passed its dry run and met only Binance orders.    *)
THEOREM DepthMissesOneOrder == Spec => DepthMissesOnlyOneOrder
<1> DEFINE Step == \A symbol \in Symbols :
       L2Depth(symbol)' # L2Depth(symbol) =>
         \/ WasReset
         \/ depth_feed'[symbol] = L2Depth(symbol)'
         \/ /\ trade_feed' = <<>>
            /\ Bbo(symbol)' = Bbo(symbol)
            /\ \E id \in OrderIds :
                 /\ Without(get_or_create_book(symbol), id)'
                      = Without(get_or_create_book(symbol), id)
                 /\ Types(symbol, id)' \subseteq {FOK}
                 /\ Types(symbol, id)' # {} => id \in BinanceIds
<1>1. IInv /\ [Next]_vars => [Step]_vars
  <2> SUFFICES ASSUME IInv, Next PROVE Step
    OBVIOUS
  <2>1. CASE reset
    BY <2>1 DEF reset, WasReset
  <2>2. CASE \E symbol \in Symbols : \E call, id : StepOf(symbol, call, id)
    BY <2>2, CallMissesOnlyOneOrder
  <2> QED
    BY <2>1, <2>2, EveryCallIsGood DEF IInv
<1> QED
  BY <1>1, FeedInvariant, PTL DEF Spec, DepthMissesOnlyOneOrder

(* The trade feed reports of a book what the fills of the call say. *)
LEMMA FillsAreReported ==
  ASSUME NEW symbol, NEW fills,
         trade_feed' = [k \in DOMAIN fills |-> [symbol |-> symbol, trade |-> fills[k]]],
         NEW other, NEW id
  PROVE  Reported(other, id)' = IF other = symbol THEN Taken(fills, id) ELSE 0
<1>1. PICK feed : feed = [k \in DOMAIN fills |-> [symbol |-> symbol, trade |-> fills[k]]]
  OBVIOUS
<1>2. PICK about : about = {k \in DOMAIN feed :
                     feed[k].symbol = other /\ feed[k].trade.maker_order_id = id}
  OBVIOUS
<1>3. PICK f : f = [k \in about |-> feed[k].trade.quantity]
  OBVIOUS
<1>4. Reported(other, id)' = SumFunction(f)
  BY <1>1, <1>2, <1>3 DEF Reported
<1>5. CASE other = symbol
  <2>1. about = {k \in DOMAIN fills : fills[k].maker_order_id = id}
    BY <1>1, <1>2, <1>5
  <2>2. f = [k \in {k \in DOMAIN fills : fills[k].maker_order_id = id} |-> fills[k].quantity]
    BY <1>1, <1>3, <2>1
  <2> QED
    BY <1>4, <1>5, <2>2, Zenon DEF Taken
<1>6. CASE other # symbol
  <2>1. DOMAIN f = {}
    BY <1>1, <1>2, <1>3, <1>6
  <2>2. SumFunction(f) = Sum(f, DOMAIN f)
    BY DEF SumFunction, Sum
  <2> QED
    BY <1>4, <1>6, <2>1, <2>2, SumEmpty
<1> QED
  BY <1>5, <1>6

LEMMA CallAccounts ==
  ASSUME IInv, NEW symbol \in Symbols, NEW call, NEW id, StepOf(symbol, call, id)
  PROVE  Unreported \subseteq {<<symbol, id>>}
<1>1. /\ get_or_create_book(symbol)' = call.book
      /\ \A other : other # symbol => get_or_create_book(other)' = get_or_create_book(other)
      /\ trade_feed' = [k \in DOMAIN call.fills |->
                          [symbol |-> symbol, trade |-> call.fills[k]]]
  BY CallEffect DEF IInv, StepOf
<1>2. \A other, order :
        Reported(other, order)' = IF other = symbol THEN Taken(call.fills, order) ELSE 0
  BY <1>1, FillsAreReported
<1>3. ASSUME NEW other \in Symbols, NEW order \in OrderIds, <<other, order>> # <<symbol, id>>
      PROVE  Left(other, order)' = Left(other, order) - Reported(other, order)'
  <2>1. CASE other = symbol
    <3>1. LeftInBook(call.book, order)
            = LeftInBook(get_or_create_book(symbol), order) - Taken(call.fills, order)
      BY <1>3, <2>1 DEF StepOf, GoodCall, Accounts
    <3> QED
      BY <1>1, <1>2, <2>1, <3>1 DEF Left
  <2>2. CASE other # symbol
    <3>1. IsBook(get_or_create_book(other))
      BY EmptyIsBook DEF IInv, Books, get_or_create_book
    <3>2. Left(other, order) \in Nat
      BY <3>1, LeftInBookType DEF Left, IsBook
    <3>3. Left(other, order)' = Left(other, order) /\ Reported(other, order)' = 0
      BY <1>1, <1>2, <2>2 DEF Left
    <3> QED
      BY <3>2, <3>3
  <2> QED
    BY <2>1, <2>2
<1> QED
  BY <1>3 DEF Unreported

(* The trade feed accounts to the last lot for every order that a call is    *)
(* not about, in every book.                                                 *)
THEOREM TradeFeedAlwaysAccounts == Spec => TradeFeedAccounts
<1> DEFINE Step == WasReset \/ Cardinality(Unreported) <= 1
<1>1. IInv /\ [Next]_vars => [Step]_vars
  <2> SUFFICES ASSUME IInv, Next PROVE Step
    OBVIOUS
  <2>1. CASE reset
    BY <2>1 DEF reset, WasReset
  <2>2. CASE \E symbol \in Symbols : \E call, id : StepOf(symbol, call, id)
    <3>1. PICK symbol \in Symbols : \E call, id : StepOf(symbol, call, id)
      BY <2>2
    <3>2. PICK call, id : StepOf(symbol, call, id)
      BY <3>1
    <3>3. Unreported \subseteq {<<symbol, id>>}
      BY <3>2, CallAccounts
    <3>4. IsFiniteSet({<<symbol, id>>}) /\ Cardinality({<<symbol, id>>}) = 1
      BY FS_Singleton
    <3>5. /\ IsFiniteSet(Unreported)
          /\ Cardinality(Unreported) <= Cardinality({<<symbol, id>>})
      BY <3>3, <3>4, FS_Subset
    <3> QED
      BY <3>4, <3>5
  <2> QED
    BY <2>1, <2>2, EveryCallIsGood DEF IInv
<1> QED
  BY <1>1, FeedInvariant, PTL DEF Spec, TradeFeedAccounts
=============================================================================
