--------------------------- MODULE MatchingEngine ---------------------------
(* MatchingEngineManager, src/matching_engine.cpp: one book per symbol and   *)
(* the three feeds its callbacks drive.  mutex_ is held from before the book *)
(* is found until after the last callback, so a call is one step.  A book is *)
(* the closed form of PriorityRules, which OrderBookRefinement shows the     *)
(* loops of order_book.cpp to implement.                                     *)
EXTENDS PriorityRules

CONSTANTS
  Symbols,
  OrderIds,      \* order identifiers; one may rest in several books
  Prices,
  Quantities,
  Depth,         \* the levels per side a depth message shows, 10 in the code
  Resolution     \* the smallest amount std::to_string shows, 0.000001

ASSUME FeedAssumption == Depth \in Nat \ {0} /\ Resolution \in Nat \ {0}

ASSUME NumberAssumption == Prices \subseteq Int /\ Quantities \subseteq Int

VARIABLES
  books,        \* symbol -> its book, for the symbols that have one
  bbo_feed,     \* symbol -> the last BBO message sent
  depth_feed,   \* symbol -> the last depth message sent
  trade_feed    \* the trade messages the latest call sent, in order

vars == <<books, bbo_feed, depth_feed, trade_feed>>

EmptyBook == [s \in Side |-> <<>>]
NoLevels  == [s \in Side |-> <<>>]

(* The book a call works on; it is created when there is none. *)
get_or_create_book(symbol) ==
  IF symbol \in DOMAIN books THEN books[symbol] ELSE EmptyBook

-----------------------------------------------------------------------------
(* What the feeds show of a book *)

(* std::to_string rounds to its last decimal. *)
to_string(x) == (2 * x + Resolution) \div (2 * Resolution)

(* to_json of a trade: its numbers as text. *)
Told(fills) ==
  [k \in DOMAIN fills |->
    [fills[k] EXCEPT !.price = to_string(@), !.quantity = to_string(@)]]

(* The n best levels of a side: their prices and total quantities, as text.  *)
Top(b, side, n) ==
  LET prices  == {m.price : m \in ToSet(b[side])}
      rank(p) == Cardinality({q \in prices : Before(side, q, p)}) + 1
      total(p) == Wanted(b[side], {i \in DOMAIN b[side] : b[side][i].price = p})
  IN  [k \in 1 .. Min({n, Cardinality(prices)}) |->
        LET p == CHOOSE q \in prices : rank(q) = k
        IN  <<to_string(p), to_string(total(p))>>]

(* An empty side shows "0.0", which is no level's text. *)
get_bbo(b) == [s \in Side |-> Top(b, s, 1)]

get_l2_depth(b) == [s \in Side |-> Top(b, s, Depth)]

-----------------------------------------------------------------------------
(* The calls.  modify_order is called with the new size of the order: never  *)
(* negative.                                                                *)

Init ==
  /\ books = <<>>
  /\ bbo_feed = [symbol \in Symbols |-> NoLevels]
  /\ depth_feed = [symbol \in Symbols |-> NoLevels]
  /\ trade_feed = <<>>

SendBbo(symbol, b)   == bbo_feed' = [bbo_feed EXCEPT ![symbol] = get_bbo(b)]
SendDepth(symbol, b) == depth_feed' = [depth_feed EXCEPT ![symbol] = get_l2_depth(b)]

SendTrades(symbol, fills) ==
  trade_feed' = [k \in DOMAIN fills |-> [symbol |-> symbol, trade |-> fills[k]]]

(* Fault: only the best prices are compared. *)
BestPricesChanged(old, new) ==
  \E s \in Side : [k \in DOMAIN get_bbo(old)[s] |-> get_bbo(old)[s][k][1]]
                # [k \in DOMAIN get_bbo(new)[s] |-> get_bbo(new)[s][k][1]]

(* Prices and quantities are compared as text. *)
bbo_changed(old, new) == get_bbo(old) # get_bbo(new)

(* Fault: a changed BBO is no reason to send the depth. *)
DepthDueWithoutBbo(changed, fills, type) == fills # <<>> \/ type = LIMIT

(* Fault: a resting order is no reason to send the depth. *)
DepthDueWithoutLimit(changed, fills, type) == changed \/ fills # <<>>

DepthDue(changed, fills, type) == changed \/ fills # <<>> \/ type = LIMIT

(* What a call does: the book it leaves, its fills, and whether it sends a   *)
(* BBO and a depth message.                                                  *)
SubmitCall(old, o) ==
  LET new     == Submitted(old, o)
      changed == bbo_changed(old, new.book)
  IN  [book |-> new.book, fills |-> new.fills,
       bbo |-> changed, depth |-> DepthDue(changed, new.fills, o.order_type)]

Rests(b, id) == \E s \in Side : \E i \in DOMAIN b[s] : b[s][i].order_id = id

NoCall(old) == [book |-> old, fills |-> <<>>, bbo |-> FALSE, depth |-> FALSE]

(* Fault: a cancellation sends no BBO. *)
CancelWithoutBbo(old, id) ==
  IF Rests(old, id)
  THEN [book |-> Without(old, id), fills |-> <<>>, bbo |-> FALSE, depth |-> TRUE]
  ELSE NoCall(old)

CancelCall(old, id) ==
  IF Rests(old, id)
  THEN [book |-> Without(old, id), fills |-> <<>>, bbo |-> TRUE, depth |-> TRUE]
  ELSE NoCall(old)

(* What a modification makes of the order at position i of a side. *)
Modified(b, side, i, qty, price) ==
  LET m == b[side][i]
  IN  IF Kept(m, qty, price)
      THEN [fills |-> <<>>, book |-> Reduced(b, side, i, qty)]
      ELSE Submitted(b, NewOrder(m.order_id, side, m.order_type, price, qty))

(* Fault: the fills of a modification are not sent. *)
ModifyWithoutTrades(old, side, i, qty, price) ==
  [book |-> Modified(old, side, i, qty, price).book, fills |-> <<>>,
   bbo |-> TRUE, depth |-> TRUE]

ModifyCall(old, side, i, qty, price) ==
  LET new == Modified(old, side, i, qty, price)
  IN  [book |-> new.book, fills |-> new.fills, bbo |-> TRUE, depth |-> TRUE]

Perform(symbol, call) ==
  /\ books' = [other \in DOMAIN books \cup {symbol} |->
                IF other = symbol THEN call.book ELSE books[other]]
  /\ SendTrades(symbol, call.fills)
  /\ IF call.bbo THEN SendBbo(symbol, call.book) ELSE UNCHANGED bbo_feed
  /\ IF call.depth THEN SendDepth(symbol, call.book) ELSE UNCHANGED depth_feed

submit_order(symbol, o) ==
  \E call \in {SubmitCall(get_or_create_book(symbol), o)} : Perform(symbol, call)

cancel_order(symbol, id) == Perform(symbol, CancelCall(get_or_create_book(symbol), id))

modify_order(symbol, id, qty, price) ==
  LET old == get_or_create_book(symbol)
  IN  \/ \E side \in Side : \E i \in DOMAIN old[side] :
           /\ old[side][i].order_id = id
           /\ \E call \in {ModifyCall(old, side, i, qty, price)} : Perform(symbol, call)
      \/ ~ Rests(old, id) /\ Perform(symbol, NoCall(old))

(* get_bbo and get_l2_depth of the manager: asking creates the book. *)
Query(symbol) == Perform(symbol, NoCall(get_or_create_book(symbol)))

(* Every book is dropped and no callback is made. *)
reset ==
  /\ books' = <<>>
  /\ trade_feed' = <<>>
  /\ UNCHANGED <<bbo_feed, depth_feed>>

Next ==
  \/ \E symbol \in Symbols, id \in OrderIds, side \in Side, type \in OrderType,
        price \in Prices, qty \in Quantities :
       submit_order(symbol, NewOrder(id, side, type, price, qty))
  \/ \E symbol \in Symbols, id \in OrderIds : cancel_order(symbol, id)
  \/ \E symbol \in Symbols, id \in OrderIds, qty \in Quantities \cap Nat, price \in Prices :
       modify_order(symbol, id, qty, price)
  \/ \E symbol \in Symbols : Query(symbol)
  \/ reset

Spec == Init /\ [][Next]_vars

-----------------------------------------------------------------------------
(* What the feeds promise *)

Bbo(symbol)    == get_bbo(get_or_create_book(symbol))
L2Depth(symbol) == get_l2_depth(get_or_create_book(symbol))

(* The types of the orders with an identifier that rest in a book. *)
Types(symbol, id) ==
  LET b == get_or_create_book(symbol)
  IN  {m.order_type : m \in {m \in UNION {ToSet(b[s]) : s \in Side} : m.order_id = id}}

(* What is left of an order in a book; 0 when it does not rest there. *)
Left(symbol, id) == LeftInBook(get_or_create_book(symbol), id)

WasReset == DOMAIN books' = {}

Text == Seq(Int)

(* Messages and books keep their types; a resting order has something left.  *)
TypeOK ==
  /\ DOMAIN books \subseteq Symbols
  /\ \A symbol \in DOMAIN books :
       \A s \in Side : \A i \in DOMAIN books[symbol][s] :
         LET m == books[symbol][s][i]
         IN  /\ m.order_id \in OrderIds /\ m.order_type \in OrderType
             /\ m.price \in Prices /\ m.remaining_quantity \in Nat \ {0}
  /\ \A symbol \in Symbols, s \in Side :
       /\ bbo_feed[symbol][s] \in Seq(Text) /\ Len(bbo_feed[symbol][s]) <= 1
       /\ depth_feed[symbol][s] \in Seq(Text) /\ Len(depth_feed[symbol][s]) <= Depth
  /\ \A k \in DOMAIN trade_feed : trade_feed[k].symbol \in Symbols

(* Whoever listens to the BBO feed knows the best prices of every book that  *)
(* holds an order, whatever calls changed them and whichever were silent.    *)
BboFeedIsCurrent ==
  \A symbol \in Symbols :
    get_or_create_book(symbol) # EmptyBook => bbo_feed[symbol] = Bbo(symbol)

(* Only a reset makes the BBO feed wrong: any other call that empties or     *)
(* moves a side says so in its own messages.                                 *)
OnlyResetIsSilent ==
  [][\A symbol \in Symbols :
       Bbo(symbol)' # Bbo(symbol) => WasReset \/ bbo_feed'[symbol] = Bbo(symbol)']_vars

(* The two feeds never contradict each other about the best prices while     *)
(* there are any, although they are sent on different conditions.            *)
FeedsAgree ==
  \A symbol \in Symbols :
    get_or_create_book(symbol) # EmptyBook =>
      \A s \in Side : bbo_feed[symbol][s] = SubSeq(depth_feed[symbol][s], 1,
                         Min({1, Len(depth_feed[symbol][s])}))

(* The one depth change no message tells, a reset apart, is about one order  *)
(* away from the best prices: it left, replaced by one that neither traded   *)
(* nor rests; or it came, a Binance FOK order that passed its dry run and    *)
(* met only orders it must not trade with.                                   *)
DepthMissesOnlyOneOrder ==
  [][\A symbol \in Symbols :
       L2Depth(symbol)' # L2Depth(symbol) =>
         \/ WasReset
         \/ depth_feed'[symbol] = L2Depth(symbol)'
         \/ /\ trade_feed' = <<>>
            /\ Bbo(symbol)' = Bbo(symbol)
            /\ \E id \in OrderIds :
                 /\ Without(get_or_create_book(symbol), id)'
                      = Without(get_or_create_book(symbol), id)
                 /\ Types(symbol, id)' \subseteq {FOK}
                 /\ Types(symbol, id)' # {} => id \in BinanceIds]_vars

(* What the trade feed says a maker lost in the latest call. *)
Reported(symbol, id) ==
  LET about == {k \in DOMAIN trade_feed :
                  trade_feed[k].symbol = symbol /\ trade_feed[k].trade.maker_order_id = id}
  IN  SumFunction([k \in about |-> trade_feed[k].trade.quantity])

(* An order that is not the subject of a call changes by what the trade feed *)
(* reports, to the last lot, in its own book: in one call one order at most  *)
(* appears, leaves or changes for any other reason.                          *)
Unreported ==
  {o \in Symbols \X OrderIds :
     Left(o[1], o[2])' # Left(o[1], o[2]) - Reported(o[1], o[2])'}

TradeFeedAccounts == [][WasReset \/ Cardinality(Unreported) <= 1]_vars

(* explanations/matching_engine.md: the depth callback is triggered when the *)
(* depth changes.  A reset aside.                                            *)
DepthSentOnEveryChange ==
  [][\A symbol \in Symbols :
       L2Depth(symbol)' # L2Depth(symbol) =>
         WasReset \/ depth_feed'[symbol] = L2Depth(symbol)']_vars
=============================================================================
