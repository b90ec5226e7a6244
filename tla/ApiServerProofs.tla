--------------------------- MODULE ApiServerProofs --------------------------
(* What the clients of ApiServer hear and may conclude, for any number of    *)
(* connections, any requests and any names.                                  *)
EXTENDS ApiServer, MatchingEngineProofs

(* Orders rest under names that submissions have had. *)
Named == \A symbol \in DOMAIN books : books[symbol] \in Book(used, Prices)

Answers == used \subseteq OrderIds /\ latest.about \subseteq OrderIds

(* The thread that serves clients runs while main waits for it to end. *)
ThreadOK == io_thread # "none" => main \in {"waiting", "joining", "done"}

Functions ==
  /\ conn = [c \in Connections |-> conn[c]]
  /\ path = [c \in Connections |-> path[c]]
  /\ asked = [c \in Connections |-> asked[c]]
  /\ owed = [c \in Connections |-> owed[c]]
  /\ conns = [p \in Paths |-> conns[p]]

Heard ==
  /\ heard = [c \in Connections |-> heard[c]]
  /\ \A c \in Connections : heard[c] = [symbol \in Symbols |-> heard[c][symbol]]
  /\ \A c \in Connections, symbol \in Symbols : heard[c][symbol] =
       [bbo |-> heard[c][symbol].bbo, depth |-> heard[c][symbol].depth,
        trades |-> heard[c][symbol].trades]

(* A connection is in the set of its path from its opening until its loss is *)
(* noticed, and in no other.                                                 *)
Sets ==
  /\ \A c \in Connections : conn[c] = "open" => path[c] \in Paths /\ c \in conns[path[c]]
  /\ \A p \in Paths : \A c \in conns[p] :
       c \in Connections /\ conn[c] # "none" /\ path[c] = p

Asked ==
  /\ \A c \in Connections : asked[c] \in Seq(Requests)
  /\ \A c \in Connections : owed[c] > 0 => conn[c] = "open"

SInv ==
  /\ IInv /\ Named /\ Answers /\ ThreadOK
  /\ Functions /\ Sets /\ Asked
  /\ Heard /\ ListenersAreCurrent

-----------------------------------------------------------------------------
(* Requests *)

(* Call call, about order id, is made on a book and broadcast, and its       *)
(* client, if it is answered, is told of its fills.                          *)
CallBy(symbol, call, id) ==
  /\ StepOf(symbol, call, id)
  /\ Broadcast(symbol, call)
  /\ id \in latest'.about
  /\ latest'.status = "none" \/ latest'.trades = Told(call.fills)
  /\ call.book \in Book(used', Prices) /\ used \subseteq used'

Called == \E symbol \in Symbols : \E call, id : CallBy(symbol, call, id)

LEMMA BooksAreNamed ==
  ASSUME Named, NEW symbol
  PROVE  get_or_create_book(symbol) \in Book(used, Prices)
<1>1. EmptyBook \in Book(used, Prices)
  <2>1. <<>> \in Seq(Entry(used, Prices))
    OBVIOUS
  <2> QED
    BY <2>1 DEF EmptyBook, Book
<1> QED
  BY <1>1 DEF get_or_create_book, Named

LEMMA BooksAreBooks ==
  ASSUME Books, NEW symbol
  PROVE  IsBook(get_or_create_book(symbol))
BY EmptyIsBook DEF get_or_create_book, Books

(* What a request was about is known whether its answer is heard or not, and *)
(* the process loses its thread at most.                                     *)
LEMMA AnswerIs ==
  ASSUME NEW sending, NEW request, Answer(sending, request)
  PROVE  /\ latest' = request \/ latest' = [request EXCEPT !.status = "none", !.trades = <<>>]
         /\ Process!HandlerThrows \/ UNCHANGED process
BY DEF Answer

LEMMA SubmitCalls ==
  ASSUME SInv, NEW o \in Submissions, NEW sending, Submit(o, sending)
  PROVE  Called /\ Answers' /\ (Process!HandlerThrows \/ UNCHANGED process)
<1>1. PICK name, call :
        /\ name \in NamesFor(o)
        /\ call = SubmitCall(get_or_create_book(o.symbol), OrderOf(o, name))
        /\ PerformAndBroadcast(o.symbol, call)
        /\ used' = used \cup {name}
        /\ Answer(sending,
             [status  |-> IF BroadcastThrows(call) THEN "error" ELSE "success",
              trades  |-> IF BroadcastThrows(call) THEN <<>> ELSE Told(call.fills),
              about   |-> {name}, clocked |-> o.order_id = NoId])
  BY DEF Submit
<1>2. /\ o.symbol \in Symbols /\ o.order_id \in Names \cup {NoId} /\ o.side \in Side
      /\ o.order_type \in OrderType /\ o.price \in Prices /\ o.quantity \in Int
  BY SubmissionAssumption, NumberAssumption
<1>3. name \in OrderIds
  BY <1>1, <1>2, NamesAssumption DEF NamesFor
<1>4. PICK order, old : order = OrderOf(o, name) /\ old = get_or_create_book(o.symbol)
  OBVIOUS
<1>5. IsOrder(order, used', Prices) /\ IsOrder(order, OrderIds, Prices) /\ order.order_id = name
  <2>1. order = NewOrder(name, o.side, o.order_type,
                         IF o.order_type = MARKET THEN 0 ELSE o.price, o.quantity)
    BY <1>4 DEF OrderOf
  <2>2. name \in used'
    BY <1>1
  <2> QED
    BY <2>1, <2>2, <1>2, <1>3 DEF IsOrder, NewOrder, LIMIT, FOK, MARKET
<1>6. old \in Book(used, Prices) /\ IsBook(old)
  BY <1>4, BooksAreNamed, BooksAreBooks DEF SInv, IInv
<1>7. StepOf(o.symbol, call, name)
  BY <1>1, <1>4, <1>5, <1>6, SubmitCallIsGood DEF StepOf, PerformAndBroadcast
<1>8. used \subseteq used' /\ call.book \in Book(used', Prices)
  <2>1. used \subseteq used'
    BY <1>1
  <2>2. old \in Book(used', Prices)
    BY <1>6, <2>1, BookGrows
  <2>3. Submitted(old, order).book \in Book(used', Prices)
    BY <1>5, <2>2, SubmittedType
  <2> QED
    BY <1>1, <1>4, <2>1, <2>3 DEF SubmitCall
<1>9. PICK request :
        request = [status |-> "success", trades |-> Told(call.fills), about |-> {name},
                   clocked |-> o.order_id = NoId]
  OBVIOUS
<1>10. Answer(sending, request)
  BY <1>1, <1>9 DEF BroadcastThrows
<1>11. /\ latest'.about = {name}
       /\ latest'.status = "none" \/ latest'.trades = Told(call.fills)
  <2>1. CASE latest' = request
    BY <1>9, <2>1
  <2>2. CASE latest' = [request EXCEPT !.status = "none", !.trades = <<>>]
    BY <1>9, <2>2
  <2> QED
    BY <1>10, <2>1, <2>2, AnswerIs
<1>12. Called
  BY <1>1, <1>2, <1>7, <1>8, <1>11 DEF Called, CallBy, PerformAndBroadcast
<1>13. Answers'
  BY <1>1, <1>3, <1>11 DEF SInv, Answers
<1> QED
  BY <1>10, <1>12, <1>13, AnswerIs

LEMMA CancelCalls ==
  ASSUME SInv, NEW symbol \in Symbols, NEW id \in OrderIds, NEW sending,
         Cancel(symbol, id, sending)
  PROVE  Called /\ Answers' /\ (Process!HandlerThrows \/ UNCHANGED process)
<1>1. PICK old, call : /\ old = get_or_create_book(symbol)
                       /\ call = CancelCall(old, id)
  OBVIOUS
<1>2. old \in Book(used, Prices) /\ IsBook(old)
  BY <1>1, BooksAreNamed, BooksAreBooks DEF SInv, IInv
<1>3. PICK request : request = [NoRequest EXCEPT
        !.status = IF Rests(old, id) THEN "success" ELSE "error", !.about = {id}]
  OBVIOUS
<1>4. PerformAndBroadcast(symbol, call) /\ Answer(sending, request) /\ used' = used
  BY <1>1, <1>3 DEF Cancel
<1>5. latest'.about = {id} /\ latest'.trades = <<>>
  <2>1. request.about = {id} /\ request.trades = <<>>
    BY <1>3 DEF NoRequest
  <2>2. request = [status |-> request.status, trades |-> request.trades,
                   about |-> request.about, clocked |-> request.clocked]
    BY <1>3 DEF NoRequest
  <2> QED
    BY <1>4, <2>1, <2>2, AnswerIs
<1>6. Told(call.fills) = <<>>
  BY <1>1 DEF CancelCall, NoCall, Told
<1>7. StepOf(symbol, call, id)
  BY <1>1, <1>2, <1>4, CancelCallIsGood DEF StepOf, PerformAndBroadcast
<1>8. call.book \in Book(used, Prices)
  <2>1. Without(old, id) \in Book(used, Prices)
    BY <1>2, WithoutType
  <2> QED
    BY <1>1, <1>2, <2>1 DEF CancelCall, NoCall
<1>9. Called
  BY <1>4, <1>5, <1>6, <1>7, <1>8 DEF Called, CallBy, PerformAndBroadcast
<1> QED
  BY <1>4, <1>5, <1>9, AnswerIs DEF SInv, Answers

LEMMA FailChangesNothing ==
  ASSUME SInv, NEW request, NEW sending, Fail(request, sending)
  PROVE  /\ UNCHANGED <<market, heard, used>> /\ Answers'
         /\ Process!HandlerThrows \/ UNCHANGED process
<1>1. PICK how, answer : /\ Answer(how, answer)
                         /\ answer = NoRequest \/ answer = [NoRequest EXCEPT !.status = "error"]
  BY DEF Fail
<1>2. /\ answer.about = {}
      /\ answer = [status |-> answer.status, trades |-> answer.trades,
                   about |-> answer.about, clocked |-> answer.clocked]
  BY <1>1 DEF NoRequest
<1>3. latest'.about = {} /\ (Process!HandlerThrows \/ UNCHANGED process)
  BY <1>1, <1>2, AnswerIs
<1> QED
  BY <1>3 DEF Fail, SInv, Answers

(* A request makes a call or touches neither the market nor what was heard.  *)
LEMMA HandleCalls ==
  ASSUME SInv, NEW request \in Requests, NEW sending, Handle(request, sending)
  PROVE  /\ Answers' /\ (Called \/ UNCHANGED <<market, heard, used>>)
         /\ Process!HandlerThrows \/ UNCHANGED process
<1>1. CASE request.action = "submit" /\ Submit(request.order, sending)
  <2>1. request.order \in Submissions
    BY <1>1, FailuresAssumption DEF Requests
  <2> QED
    BY <1>1, <2>1, SubmitCalls
<1>2. CASE request.action = "cancel" /\ Cancel(request.symbol, request.order_id, sending)
  <2>1. request.symbol \in Symbols /\ request.order_id \in OrderIds
    BY <1>2, FailuresAssumption DEF Requests
  <2> QED
    BY <1>2, <2>1, CancelCalls
<1>3. CASE Fail(request, sending)
  BY <1>3, FailChangesNothing
<1> QED
  BY <1>1, <1>2, <1>3 DEF Handle

-----------------------------------------------------------------------------
(* What listeners hear *)

LEMMA BroadcastEffect ==
  ASSUME Heard, NEW symbol \in Symbols, NEW call, Broadcast(symbol, call)
  PROVE  /\ Heard'
         /\ \A c \in Connections, other \in Symbols \ {symbol} :
              heard'[c][other] = heard[c][other]
         /\ \A c \in Connections : c \in Reached("market-data") =>
              /\ heard'[c][symbol].bbo =
                   IF call.bbo THEN <<get_bbo(call.book)>> ELSE heard[c][symbol].bbo
              /\ heard'[c][symbol].depth =
                   IF call.depth THEN <<get_l2_depth(call.book)>> ELSE heard[c][symbol].depth
         /\ \A c \in Connections : c \in Reached("trades") =>
              heard'[c][symbol].trades =
                IF call.fills # <<>> THEN Told(call.fills) ELSE heard[c][symbol].trades
<1>1. PICK heardOf : heardOf = [c \in Connections |->
        [bbo    |-> IF c \in Reached("market-data") /\ call.bbo
                    THEN <<get_bbo(call.book)>> ELSE heard[c][symbol].bbo,
         depth  |-> IF c \in Reached("market-data") /\ call.depth
                    THEN <<get_l2_depth(call.book)>> ELSE heard[c][symbol].depth,
         trades |-> IF c \in Reached("trades") /\ call.fills # <<>>
                    THEN Told(call.fills) ELSE heard[c][symbol].trades]]
  OBVIOUS
<1>2. heard' = [c \in Connections |-> [heard[c] EXCEPT ![symbol] = heardOf[c]]]
  BY <1>1 DEF Broadcast
<1>3. ASSUME NEW c \in Connections
      PROVE  /\ heard'[c] = [other \in Symbols |-> heard'[c][other]]
             /\ \A other \in Symbols \ {symbol} : heard'[c][other] = heard[c][other]
             /\ heard'[c][symbol] = heardOf[c]
  <2>1. heard[c] = [other \in Symbols |-> heard[c][other]]
    BY DEF Heard
  <2>2. heard'[c] = [heard[c] EXCEPT ![symbol] = heardOf[c]]
    BY <1>2
  <2> QED
    BY <2>1, <2>2
<1>4. ASSUME NEW c \in Connections
      PROVE  /\ c \in Reached("market-data") =>
                  /\ heardOf[c].bbo =
                       IF call.bbo THEN <<get_bbo(call.book)>> ELSE heard[c][symbol].bbo
                  /\ heardOf[c].depth =
                       IF call.depth THEN <<get_l2_depth(call.book)>>
                       ELSE heard[c][symbol].depth
             /\ c \in Reached("trades") => heardOf[c].trades =
                  IF call.fills # <<>> THEN Told(call.fills) ELSE heard[c][symbol].trades
             /\ heardOf[c] = [bbo |-> heardOf[c].bbo, depth |-> heardOf[c].depth,
                              trades |-> heardOf[c].trades]
  BY <1>1
<1>5. ASSUME NEW c \in Connections, NEW other \in Symbols
      PROVE  heard'[c][other] = [bbo |-> heard'[c][other].bbo, depth |-> heard'[c][other].depth,
                                 trades |-> heard'[c][other].trades]
  <2>1. CASE other = symbol
    BY <2>1, <1>3, <1>4
  <2>2. CASE other # symbol
    <3>1. heard'[c][other] = heard[c][other]
      BY <2>2, <1>3
    <3>2. heard[c][other] = [bbo |-> heard[c][other].bbo, depth |-> heard[c][other].depth,
                             trades |-> heard[c][other].trades]
      BY DEF Heard
    <3> QED
      BY <3>1, <3>2
  <2> QED
    BY <2>1, <2>2
<1>6. heard' = [c \in Connections |-> heard'[c]]
  BY <1>2
<1>7. Heard'
  BY <1>3, <1>5, <1>6 DEF Heard
<1>8. \A c \in Connections, other \in Symbols \ {symbol} :
        heard'[c][other] = heard[c][other]
  BY <1>3
<1>9. ASSUME NEW c \in Connections, c \in Reached("market-data")
      PROVE  /\ heard'[c][symbol].bbo =
                  IF call.bbo THEN <<get_bbo(call.book)>> ELSE heard[c][symbol].bbo
             /\ heard'[c][symbol].depth =
                  IF call.depth THEN <<get_l2_depth(call.book)>> ELSE heard[c][symbol].depth
  <2>1. heard'[c][symbol] = heardOf[c]
    BY <1>3
  <2>2. /\ heardOf[c].bbo =
             IF call.bbo THEN <<get_bbo(call.book)>> ELSE heard[c][symbol].bbo
        /\ heardOf[c].depth =
             IF call.depth THEN <<get_l2_depth(call.book)>> ELSE heard[c][symbol].depth
    BY <1>4, <1>9
  <2> QED
    BY <2>1, <2>2
<1>10. ASSUME NEW c \in Connections, c \in Reached("trades")
       PROVE  heard'[c][symbol].trades =
                IF call.fills # <<>> THEN Told(call.fills) ELSE heard[c][symbol].trades
  BY <1>3, <1>4, <1>10
<1> QED
  BY <1>7, <1>8, <1>9, <1>10

(* A live listener hears the messages of every call. *)
LEMMA CallKeeps ==
  ASSUME SInv, NEW symbol \in Symbols, NEW call, NEW id, CallBy(symbol, call, id),
         UNCHANGED <<conn, path>>
  PROVE  IInv' /\ Named' /\ Heard' /\ ListenersAreCurrent'
<1>1. PICK old, new : old = get_or_create_book(symbol) /\ new = call.book
  OBVIOUS
<1>2. IInv' /\ IInv
  BY CallKeepsIInv DEF SInv, CallBy
<1>3. /\ DOMAIN books' = DOMAIN books \cup {symbol}
      /\ get_or_create_book(symbol)' = new
      /\ \A other :
           other # symbol => get_or_create_book(other)' = get_or_create_book(other)
  BY <1>1, <1>2, CallEffect DEF IInv, CallBy, StepOf
<1>4. /\ IsBook(new) /\ new \in Book(used', Prices) /\ used \subseteq used'
      /\ call.bbo => call.depth
      /\ ~ call.bbo => get_bbo(new) = get_bbo(old)
  BY <1>1 DEF CallBy, StepOf, GoodCall
<1>5. new # EmptyBook => get_bbo(new) # get_bbo(EmptyBook)
  BY <1>4, BboShowsOrders
<1>6. Named'
  <2> SUFFICES ASSUME NEW other \in DOMAIN books'
               PROVE  books'[other] \in Book(used', Prices)
    BY DEF Named
  <2>1. CASE other = symbol
    BY <2>1, <1>3, <1>4 DEF get_or_create_book
  <2>2. CASE other # symbol
    <3>1. other \in DOMAIN books /\ books'[other] = books[other]
      BY <2>2, <1>3 DEF get_or_create_book
    <3>2. books[other] \in Book(used, Prices)
      BY <3>1 DEF SInv, Named
    <3> QED
      BY <3>1, <3>2, <1>4, BookGrows
  <2> QED
    BY <2>1, <2>2
<1>7. /\ Heard'
      /\ \A c \in Connections, other \in Symbols \ {symbol} :
           heard'[c][other] = heard[c][other]
      /\ \A c \in Connections : c \in Reached("market-data") =>
           /\ heard'[c][symbol].bbo = IF call.bbo THEN <<get_bbo(new)>>
                                      ELSE heard[c][symbol].bbo
           /\ heard'[c][symbol].depth = IF call.depth THEN <<get_l2_depth(new)>>
                                        ELSE heard[c][symbol].depth
  BY <1>1, BroadcastEffect DEF CallBy, SInv
<1>8. ASSUME NEW c \in Connections, conn[c] = "open", path[c] = "market-data",
             heard'[c][symbol].bbo # <<>>, new # EmptyBook, NEW s \in Side
      PROVE  /\ heard'[c][symbol].bbo = <<get_bbo(new)>>
             /\ get_bbo(new)[s] =
                  SubSeq(heard'[c][symbol].depth[1][s], 1, Len(get_bbo(new)[s]))
  <2>1. c \in Reached("market-data")
    BY <1>8 DEF SInv, Sets, Reached
  <2>2. PICK b, d : b = get_bbo(new)[s] /\ d = get_l2_depth(new)[s]
    OBVIOUS
  <2>3. CASE call.depth
    <3>1. heard'[c][symbol].depth[1] = get_l2_depth(new)
      BY <2>1, <2>3, <1>7
    <3>2. b = SubSeq(d, 1, Min({1, Len(d)})) /\ d \in Seq(Text)
      BY <2>2, <1>4, DepthBeginsWithBbo, MessagesAreText DEF IsMessage
    <3>3. Min({1, Len(d)}) \in 0 .. Len(d)
      <4>1. Len(d) \in Nat
        BY <3>2
      <4>2. Min({1, Len(d)}) = IF Len(d) = 0 THEN 0 ELSE 1
        BY <4>1 DEF Min
      <4> QED
        BY <4>1, <4>2
    <3>4. Len(b) = Min({1, Len(d)})
      BY <3>2, <3>3
    <3>5. heard'[c][symbol].bbo = <<get_bbo(new)>>
      <4>1. CASE call.bbo
        BY <2>1, <4>1, <1>7
      <4>2. CASE ~ call.bbo
        <5>1. heard'[c][symbol].bbo = heard[c][symbol].bbo /\ get_bbo(new) = get_bbo(old)
          BY <2>1, <4>2, <1>4, <1>7
        <5>2. old # EmptyBook
          BY <5>1, <1>5, <1>8
        <5> QED
          BY <5>1, <5>2, <1>1, <1>8 DEF SInv, ListenersAreCurrent, Bbo
      <4> QED
        BY <4>1, <4>2
    <3> QED
      BY <2>2, <3>1, <3>2, <3>4, <3>5
  <2>4. CASE ~ call.depth
    <3>1. heard'[c][symbol].bbo = heard[c][symbol].bbo /\ get_bbo(new) = get_bbo(old)
      BY <2>1, <2>4, <1>4, <1>7
    <3>2. heard'[c][symbol].depth = heard[c][symbol].depth
      BY <2>1, <2>4, <1>7
    <3>3. old # EmptyBook
      BY <3>1, <1>5, <1>8
    <3> QED
      BY <3>1, <3>2, <3>3, <1>1, <1>8 DEF SInv, ListenersAreCurrent, Bbo
  <2> QED
    BY <2>3, <2>4
<1>9. ListenersAreCurrent'
  <2> SUFFICES ASSUME NEW c \in Connections, NEW other \in Symbols,
                      conn[c] = "open", path[c] = "market-data",
                      heard'[c][other].bbo # <<>>,
                      get_or_create_book(other)' # EmptyBook
               PROVE  /\ heard'[c][other].bbo = <<Bbo(other)'>>
                      /\ \A s \in Side : Bbo(other)'[s] =
                           SubSeq(heard'[c][other].depth[1][s], 1, Len(Bbo(other)'[s]))
    BY DEF ListenersAreCurrent, EmptyBook
  <2>1. CASE other = symbol
    <3>1. Bbo(other)' = get_bbo(new) /\ new # EmptyBook
      BY <2>1, <1>3 DEF Bbo
    <3>2. BUY \in Side
      BY DEF Side
    <3> QED
      BY <2>1, <3>1, <3>2, <1>8
  <2>2. CASE other # symbol
    <3>1. Bbo(other)' = Bbo(other) /\ get_or_create_book(other) # EmptyBook
      BY <2>2, <1>3 DEF Bbo
    <3> QED
      BY <2>2, <3>1, <1>7 DEF SInv, ListenersAreCurrent
  <2> QED
    BY <2>1, <2>2
<1> QED
  BY <1>2, <1>6, <1>7, <1>9

(* A step that makes no call keeps every book, or empties it. *)
LEMMA SilenceKeeps ==
  ASSUME SInv, UNCHANGED <<conn, path, heard>>, used \subseteq used',
         \A symbol : \/ get_or_create_book(symbol)' = get_or_create_book(symbol)
                     \/ get_or_create_book(symbol)' = EmptyBook
  PROVE  Named' /\ Heard' /\ ListenersAreCurrent'
<1>1. \A symbol : get_or_create_book(symbol)' \in Book(used', Prices)
  <2>1. ASSUME NEW symbol
        PROVE  get_or_create_book(symbol) \in Book(used', Prices)
    BY BooksAreNamed, BookGrows DEF SInv
  <2>2. EmptyBook \in Book(used', Prices)
    <3>1. <<>> \in Seq(Entry(used', Prices))
      OBVIOUS
    <3> QED
      BY <3>1 DEF EmptyBook, Book
  <2> QED
    BY <2>1, <2>2
<1>2. Named'
  BY <1>1 DEF Named, get_or_create_book
<1>3. Heard'
  BY DEF SInv, Heard
<1>4. ListenersAreCurrent'
  <2> SUFFICES ASSUME NEW c \in Connections, NEW symbol \in Symbols,
                      conn[c] = "open", path[c] = "market-data",
                      heard[c][symbol].bbo # <<>>,
                      get_or_create_book(symbol)' # EmptyBook
               PROVE  /\ heard[c][symbol].bbo = <<Bbo(symbol)'>>
                      /\ \A s \in Side : Bbo(symbol)'[s] =
                           SubSeq(heard[c][symbol].depth[1][s], 1, Len(Bbo(symbol)'[s]))
    BY DEF ListenersAreCurrent, EmptyBook
  <2>1. Bbo(symbol)' = Bbo(symbol) /\ get_or_create_book(symbol) # EmptyBook
    BY DEF Bbo
  <2> QED
    BY <2>1 DEF SInv, ListenersAreCurrent
<1> QED
  BY <1>2, <1>3, <1>4
-----------------------------------------------------------------------------
(* The steps *)

LEMMA InitSInv == ServerInit => SInv
<1> SUFFICES ASSUME ServerInit PROVE SInv
  OBVIOUS
<1>1. IInv /\ DOMAIN books = {}
  BY InitIInv DEF ServerInit, Init
<1>2. Named /\ ListenersAreCurrent
  BY <1>1 DEF Named, ListenersAreCurrent, get_or_create_book
<1>3. Answers /\ ThreadOK
  BY DEF ServerInit, Answers, NoRequest, ThreadOK, Process!NotStarted
<1>4. Functions /\ Sets /\ Asked
  BY DEF ServerInit, Functions, Sets, Asked
<1>5. Heard
  <2>1. \A c \in Connections : heard[c] = Unheard
    BY DEF ServerInit
  <2>2. heard = [c \in Connections |-> heard[c]]
    BY DEF ServerInit
  <2>3. /\ Unheard = [symbol \in Symbols |-> Unheard[symbol]]
        /\ \A symbol \in Symbols : Unheard[symbol] =
             [bbo |-> Unheard[symbol].bbo, depth |-> Unheard[symbol].depth,
              trades |-> Unheard[symbol].trades]
    BY DEF Unheard
  <2> QED
    BY <2>1, <2>2, <2>3 DEF Heard
<1> QED
  BY <1>1, <1>2, <1>3, <1>4, <1>5 DEF SInv

(* The process never has its thread before main waits or after it is gone.   *)
LEMMA ProcessKeepsThread ==
  ASSUME ThreadOK, Process!Boot \/ Process!Signal \/ Process!Run \/ Process!HandlerThrows
  PROVE  ThreadOK'
BY DEF ThreadOK, Process!Boot, Process!Signal, Process!Run, Process!InstallHandlers,
       Process!start, Process!stop, Process!RunReturns, Process!Join,
       Process!HandlerThrows, Process!Serving, Process!Gone

(* What the market is in does not change what SInv says of it. *)
LEMMA MarketKeeps ==
  ASSUME SInv, UNCHANGED <<market, used>>
  PROVE  /\ IInv' /\ Named'
         /\ \A symbol : get_or_create_book(symbol)' = get_or_create_book(symbol)
<1>1. IInv'
  BY StepIInv DEF SInv, market
<1>2. \A symbol : get_or_create_book(symbol)' = get_or_create_book(symbol)
  BY DEF market, vars, get_or_create_book
<1>3. Named'
  BY DEF SInv, Named, market, vars
<1> QED
  BY <1>1, <1>2, <1>3

(* A connection that opens has heard nothing, and joins the set of its path. *)
LEMMA OpenKeeps ==
  ASSUME SInv, NEW c \in Connections, NEW p \in Paths, on_open(c, p)
  PROVE  SInv'
<1>1. /\ IInv' /\ Named'
      /\ \A symbol : get_or_create_book(symbol)' = get_or_create_book(symbol)
  BY MarketKeeps DEF on_open
<1>2. /\ UNCHANGED <<process, used, latest, asked, owed>>
      /\ conn[c] = "none" /\ conn' = [conn EXCEPT ![c] = "open"]
      /\ path' = [path EXCEPT ![c] = p]
      /\ conns' = [conns EXCEPT ![p] = @ \cup {c}]
      /\ heard' = [heard EXCEPT ![c] = Unheard]
  BY DEF on_open
<1>3. Answers' /\ ThreadOK'
  BY <1>2 DEF SInv, Answers, ThreadOK, process
<1>4. Functions'
  BY <1>2 DEF SInv, Functions
<1>5. /\ \A other \in Connections : conn'[other] = IF other = c THEN "open" ELSE conn[other]
      /\ \A other \in Connections : path'[other] = IF other = c THEN p ELSE path[other]
      /\ \A q \in Paths : conns'[q] = IF q = p THEN conns[q] \cup {c} ELSE conns[q]
  BY <1>2 DEF SInv, Functions
<1>6. Sets'
  BY <1>2, <1>5 DEF SInv, Sets
<1>7. Asked'
  BY <1>2, <1>5 DEF SInv, Asked
<1>8. /\ heard' = [other \in Connections |-> heard'[other]]
      /\ \A other \in Connections : heard'[other] = IF other = c THEN Unheard ELSE heard[other]
  BY <1>2 DEF SInv, Heard
<1>9. /\ Unheard = [symbol \in Symbols |-> Unheard[symbol]]
      /\ \A symbol \in Symbols : Unheard[symbol] =
           [bbo |-> Unheard[symbol].bbo, depth |-> Unheard[symbol].depth,
            trades |-> Unheard[symbol].trades]
      /\ \A symbol \in Symbols : Unheard[symbol].bbo = <<>>
  BY DEF Unheard
<1>10. Heard'
  <2>1. \A other \in Connections :
          /\ heard'[other] = [symbol \in Symbols |-> heard'[other][symbol]]
          /\ \A symbol \in Symbols : heard'[other][symbol] =
               [bbo |-> heard'[other][symbol].bbo, depth |-> heard'[other][symbol].depth,
                trades |-> heard'[other][symbol].trades]
    <3> SUFFICES ASSUME NEW other \in Connections
                 PROVE  /\ heard'[other] = [symbol \in Symbols |-> heard'[other][symbol]]
                        /\ \A symbol \in Symbols : heard'[other][symbol] =
                             [bbo |-> heard'[other][symbol].bbo,
                              depth |-> heard'[other][symbol].depth,
                              trades |-> heard'[other][symbol].trades]
      OBVIOUS
    <3>1. CASE other = c
      BY <3>1, <1>8, <1>9
    <3>2. CASE other # c
      <4>1. heard'[other] = heard[other]
        BY <3>2, <1>8
      <4>2. /\ heard[other] = [symbol \in Symbols |-> heard[other][symbol]]
            /\ \A symbol \in Symbols : heard[other][symbol] =
                 [bbo |-> heard[other][symbol].bbo, depth |-> heard[other][symbol].depth,
                  trades |-> heard[other][symbol].trades]
        BY DEF SInv, Heard
      <4> QED
        BY <4>1, <4>2
    <3> QED
      BY <3>1, <3>2
  <2> QED
    BY <2>1, <1>8 DEF Heard
<1>11. ListenersAreCurrent'
  BY <1>1, <1>5, <1>8, <1>9 DEF SInv, ListenersAreCurrent, Bbo
<1> QED
  BY <1>1, <1>3, <1>4, <1>6, <1>7, <1>10, <1>11 DEF SInv

(* Asking, going and closing change nothing a live listener has heard. *)
LEMMA ClientKeeps ==
  ASSUME SInv, UNCHANGED <<market, path, heard, used, latest>>, ThreadOK',
         \A c \in Connections : conn'[c] = "open" => conn[c] = "open"
  PROVE  IInv' /\ Named' /\ Answers' /\ Heard' /\ ListenersAreCurrent'
<1>1. /\ IInv' /\ Named'
      /\ \A symbol : get_or_create_book(symbol)' = get_or_create_book(symbol)
  BY MarketKeeps
<1>2. Answers' /\ Heard'
  BY DEF SInv, Answers, Heard
<1>3. ListenersAreCurrent'
  BY <1>1 DEF SInv, ListenersAreCurrent, Bbo
<1> QED
  BY <1>1, <1>2, <1>3

LEMMA AskKeeps ==
  ASSUME SInv, NEW c \in Connections, NEW request \in Requests, Ask(c, request)
  PROVE  SInv'
<1>1. /\ UNCHANGED <<process, market, conn, path, conns, heard, used, latest>>
      /\ conn[c] = "open"
      /\ asked' = [asked EXCEPT ![c] = Append(asked[c], request)]
      /\ \/ owed' = [owed EXCEPT ![c] = owed[c] + 1]
         \/ owed' = owed
  BY DEF Ask
<1>2. ThreadOK'
  BY <1>1 DEF SInv, ThreadOK, process
<1>3. Functions' /\ Sets'
  BY <1>1 DEF SInv, Functions, Sets
<1>4. Asked'
  <2>1. \A other \in Connections :
          asked'[other] = IF other = c THEN Append(asked[c], request) ELSE asked[other]
    BY <1>1 DEF SInv, Functions
  <2>2. \A other \in Connections : asked'[other] \in Seq(Requests)
    <3>1. \A other \in Connections : asked[other] \in Seq(Requests)
      BY DEF SInv, Asked
    <3>2. Append(asked[c], request) \in Seq(Requests)
      BY <3>1
    <3> QED
      BY <2>1, <3>1, <3>2
  <2>3. \A other \in Connections : owed'[other] > 0 => conn'[other] = "open"
    BY <1>1 DEF SInv, Asked, Functions
  <2> QED
    BY <2>2, <2>3 DEF Asked
<1> QED
  BY <1>1, <1>2, <1>3, <1>4, ClientKeeps DEF SInv

LEMMA LoseKeeps ==
  ASSUME SInv, NEW c \in Connections, Lose(c)
  PROVE  SInv'
<1>1. /\ UNCHANGED <<process, market, path, conns, heard, used, latest>>
      /\ conn[c] = "open"
      /\ conn' = [conn EXCEPT ![c] = "lost"]
      /\ owed' = [owed EXCEPT ![c] = 0]
  BY DEF Lose
<1>2. PICK n \in 0 .. Len(asked[c]) : asked' = [asked EXCEPT ![c] = SubSeq(asked[c], 1, n)]
  BY DEF Lose
<1>3. ThreadOK'
  BY <1>1 DEF SInv, ThreadOK, process
<1>4. /\ Functions'
      /\ \A other \in Connections : conn'[other] = IF other = c THEN "lost" ELSE conn[other]
      /\ \A other \in Connections : owed'[other] = IF other = c THEN 0 ELSE owed[other]
      /\ \A other \in Connections :
           asked'[other] = IF other = c THEN SubSeq(asked[c], 1, n) ELSE asked[other]
  BY <1>1, <1>2 DEF SInv, Functions
<1>5. Sets'
  BY <1>1, <1>4 DEF SInv, Sets
<1>6. Asked'
  <2>1. SubSeq(asked[c], 1, n) \in Seq(Requests)
    BY <1>2 DEF SInv, Asked
  <2>2. \A other \in Connections : asked'[other] \in Seq(Requests)
    BY <1>4, <2>1 DEF SInv, Asked
  <2>3. \A other \in Connections : owed'[other] > 0 => conn'[other] = "open"
    <3>1. \A other \in Connections : owed[other] > 0 => conn[other] = "open"
      BY DEF SInv, Asked
    <3> QED
      BY <1>4, <3>1
  <2> QED
    BY <2>2, <2>3 DEF Asked
<1> QED
  BY <1>1, <1>3, <1>4, <1>5, <1>6, ClientKeeps DEF SInv

LEMMA CloseKeeps ==
  ASSUME SInv, NEW c \in Connections, on_close(c)
  PROVE  SInv'
<1>1. /\ UNCHANGED <<process, market, path, owed, heard, used, latest>>
      /\ conn[c] = "lost"
      /\ conn' = [conn EXCEPT ![c] = "none"]
      /\ conns' = [p \in Paths |-> conns[p] \ {c}]
      /\ asked' = [asked EXCEPT ![c] = <<>>]
  BY DEF on_close
<1>2. ThreadOK'
  BY <1>1 DEF SInv, ThreadOK, process
<1>3. /\ Functions'
      /\ \A other \in Connections : conn'[other] = IF other = c THEN "none" ELSE conn[other]
      /\ \A other \in Connections : asked'[other] = IF other = c THEN <<>> ELSE asked[other]
  BY <1>1 DEF SInv, Functions
<1>4. Sets'
  BY <1>1, <1>3 DEF SInv, Sets
<1>5. Asked'
  BY <1>1, <1>3 DEF SInv, Asked
<1> QED
  BY <1>1, <1>2, <1>3, <1>4, <1>5, ClientKeeps DEF SInv

(* A request, whoever sent it, makes a call, resets, or changes no book.     *)
Silent ==
  /\ UNCHANGED heard
  /\ \A symbol : get_or_create_book(symbol)' = get_or_create_book(symbol)

Emptied ==
  /\ UNCHANGED heard
  /\ latest'.about = OrderIds
  /\ \A symbol : get_or_create_book(symbol)' = EmptyBook

LEMMA HandleKinds ==
  ASSUME SInv, NEW request \in Requests, NEW sending, Handle(request, sending),
         UNCHANGED <<conn, path>>
  PROVE  /\ IInv' /\ Named' /\ Answers' /\ ThreadOK' /\ Heard' /\ ListenersAreCurrent'
         /\ Called \/ Silent
<1>1. /\ Answers' /\ (Called \/ UNCHANGED <<market, heard, used>>)
      /\ Process!HandlerThrows \/ UNCHANGED process
  BY HandleCalls
<1>2. ThreadOK'
  BY <1>1, ProcessKeepsThread DEF SInv, ThreadOK, process
<1>3. ASSUME Called
      PROVE  IInv' /\ Named' /\ Heard' /\ ListenersAreCurrent'
  BY <1>3, CallKeeps DEF Called
<1>4. ASSUME UNCHANGED <<market, heard, used>>
      PROVE  IInv' /\ Named' /\ Heard' /\ ListenersAreCurrent' /\ Silent
  <2>1. /\ IInv' /\ Named'
        /\ \A symbol : get_or_create_book(symbol)' = get_or_create_book(symbol)
    BY <1>4, MarketKeeps
  <2>2. used \subseteq used'
    BY <1>4
  <2> QED
    BY <1>4, <2>1, <2>2, SilenceKeeps DEF Silent
<1> QED
  BY <1>1, <1>2, <1>3, <1>4

LEMMA QueryKeeps ==
  ASSUME SInv, NEW symbol \in Symbols, Query(symbol), UNCHANGED <<conn, path, heard, used>>
  PROVE  IInv' /\ Named' /\ Heard' /\ ListenersAreCurrent' /\ Silent
<1>1. PICK old, call, id : /\ old = get_or_create_book(symbol)
                           /\ call = NoCall(old) /\ id = symbol
  OBVIOUS
<1>2. StepOf(symbol, call, id)
  BY <1>1, BooksAreBooks, NoCallIsGood DEF StepOf, Query, SInv, IInv
<1>3. IInv'
  BY <1>2, CallKeepsIInv DEF SInv
<1>4. \A other : get_or_create_book(other)' = get_or_create_book(other)
  <2>1. call.book = old
    BY <1>1 DEF NoCall
  <2> QED
    BY <1>1, <1>2, <2>1, CallEffect DEF SInv, IInv, StepOf
<1>5. used \subseteq used'
  OBVIOUS
<1> QED
  BY <1>3, <1>4, <1>5, SilenceKeeps DEF Silent

LEMMA ResetKeeps ==
  ASSUME SInv, reset, UNCHANGED <<conn, path, heard, used>>, latest'.about = OrderIds
  PROVE  IInv' /\ Named' /\ Heard' /\ ListenersAreCurrent' /\ Emptied
<1>1. IInv'
  BY StepIInv DEF SInv, Next
<1>2. \A symbol : get_or_create_book(symbol)' = EmptyBook
  BY DEF reset, get_or_create_book
<1>3. used \subseteq used'
  OBVIOUS
<1> QED
  BY <1>1, <1>2, <1>3, SilenceKeeps DEF Emptied

LEMMA MessageKeeps ==
  ASSUME SInv, NEW c \in Connections, on_message(c)
  PROVE  SInv' /\ (Called \/ Silent)
<1>1. /\ UNCHANGED <<conn, path, conns>>
      /\ conn[c] # "none" /\ asked[c] # <<>>
      /\ asked' = [asked EXCEPT ![c] = Tail(asked[c])]
      /\ \/ owed' = [owed EXCEPT ![c] = owed[c] - 1] /\ owed[c] > 0
         \/ owed' = owed
  BY DEF on_message
<1>2. /\ Functions' /\ Sets'
      /\ \A other \in Connections :
           asked'[other] = IF other = c THEN Tail(asked[c]) ELSE asked[other]
  BY <1>1 DEF SInv, Functions, Sets
<1>3. Asked'
  <2>1. \A other \in Connections : asked'[other] \in Seq(Requests)
    BY <1>1, <1>2 DEF SInv, Asked
  <2>2. \A other \in Connections : owed'[other] > 0 => conn'[other] = "open"
    BY <1>1 DEF SInv, Asked, Functions
  <2> QED
    BY <2>1, <2>2 DEF Asked
<1>4. /\ IInv' /\ Named' /\ Answers' /\ ThreadOK' /\ Heard' /\ ListenersAreCurrent'
      /\ Called \/ Silent
  <2>1. CASE OrderPath(c)
    <3>1. \E sending : Handle(Head(asked[c]), sending)
      BY <2>1 DEF on_message
    <3>2. Head(asked[c]) \in Requests
      BY <1>1 DEF SInv, Asked
    <3> QED
      BY <1>1, <3>1, <3>2, HandleKinds
  <2>2. CASE ~ OrderPath(c)
    <3>1. latest' = NoRequest /\ UNCHANGED <<process, market, heard, used>>
      BY <2>2 DEF on_message
    <3>2. Answers' /\ ThreadOK'
      BY <3>1 DEF SInv, Answers, NoRequest, ThreadOK, process
    <3>3. /\ IInv' /\ Named'
          /\ \A symbol : get_or_create_book(symbol)' = get_or_create_book(symbol)
      BY <3>1, MarketKeeps
    <3>4. used \subseteq used'
      BY <3>1
    <3> QED
      BY <1>1, <3>1, <3>2, <3>3, <3>4, SilenceKeeps DEF Silent
  <2> QED
    BY <2>1, <2>2
<1> QED
  BY <1>2, <1>3, <1>4 DEF SInv

LEMMA HttpKeeps ==
  ASSUME SInv, on_http
  PROVE  SInv' /\ (Called \/ Silent \/ Emptied)
<1>1. UNCHANGED <<conn, path, conns, asked, owed>>
  BY DEF on_http
<1>2. Functions' /\ Sets' /\ Asked'
  BY <1>1 DEF SInv, Functions, Sets, Asked
<1>3. /\ IInv' /\ Named' /\ Answers' /\ ThreadOK' /\ Heard' /\ ListenersAreCurrent'
      /\ Called \/ Silent \/ Emptied
  <2>1. CASE \E request \in Requests, sending \in {"sent", "dropped"} : Handle(request, sending)
    BY <1>1, <2>1, HandleKinds
  <2>2. ASSUME UNCHANGED <<process, heard, used>>, latest'.about \subseteq OrderIds
        PROVE  Answers' /\ ThreadOK'
    BY <2>2 DEF SInv, Answers, ThreadOK, process
  <2>3. CASE /\ reset
             /\ latest' = [NoRequest EXCEPT !.status = "success", !.about = OrderIds]
             /\ UNCHANGED <<process, heard, used>>
    <3>1. latest'.about = OrderIds
      BY <2>3 DEF NoRequest
    <3> QED
      BY <1>1, <2>2, <2>3, <3>1, ResetKeeps
  <2>4. CASE /\ \E symbol \in Symbols : Query(symbol)
             /\ latest' = [NoRequest EXCEPT !.status = "success"]
             /\ UNCHANGED <<process, heard, used>>
    <3>1. latest'.about = {}
      BY <2>4 DEF NoRequest
    <3> QED
      BY <1>1, <2>2, <2>4, <3>1, QueryKeeps
  <2>5. CASE /\ latest' = [NoRequest EXCEPT !.status = "error"]
             /\ UNCHANGED <<process, market, heard, used>>
    <3>0. latest'.about = {}
      BY <2>5 DEF NoRequest
    <3>1. /\ IInv' /\ Named'
          /\ \A symbol : get_or_create_book(symbol)' = get_or_create_book(symbol)
      BY <2>5, MarketKeeps
    <3>2. used \subseteq used'
      BY <2>5
    <3> QED
      BY <1>1, <2>2, <2>5, <3>0, <3>1, <3>2, SilenceKeeps DEF Silent
  <2> QED
    BY <2>1, <2>3, <2>4, <2>5 DEF on_http
<1> QED
  BY <1>2, <1>3 DEF SInv

(* Every step makes a call, empties the books or leaves them. *)
LEMMA StepKinds ==
  ASSUME SInv, [ServerNext]_server_vars
  PROVE  /\ SInv'
         /\ Called \/ Emptied
                   \/ \A symbol : get_or_create_book(symbol)' = get_or_create_book(symbol)
<1>1. ASSUME NEW c \in Connections, NEW p \in Paths, on_open(c, p)
      PROVE  SInv' /\ UNCHANGED market
  BY <1>1, OpenKeeps DEF on_open
<1>2. ASSUME NEW c \in Connections, NEW request \in Requests, Ask(c, request)
      PROVE  SInv' /\ UNCHANGED market
  BY <1>2, AskKeeps DEF Ask
<1>3. ASSUME NEW c \in Connections, Lose(c)
      PROVE  SInv' /\ UNCHANGED market
  BY <1>3, LoseKeeps DEF Lose
<1>4. ASSUME NEW c \in Connections, on_close(c)
      PROVE  SInv' /\ UNCHANGED market
  BY <1>4, CloseKeeps DEF on_close
<1>5. ASSUME NEW c \in Connections, on_message(c)
      PROVE  SInv' /\ (Called \/ Silent)
  BY <1>5, MessageKeeps
<1>6. ASSUME on_http
      PROVE  SInv' /\ (Called \/ Silent \/ Emptied)
  BY <1>6, HttpKeeps
<1>7. ASSUME ProcessStep \/ UNCHANGED server_vars
      PROVE  SInv' /\ UNCHANGED market
  <2>1. UNCHANGED <<market, clients, used, latest>>
    BY <1>7 DEF ProcessStep, server_vars
  <2>2. ThreadOK'
    BY <1>7, ProcessKeepsThread DEF ProcessStep, server_vars, process, SInv, ThreadOK
  <2>3. Functions' /\ Sets' /\ Asked'
    BY <2>1 DEF clients, SInv, Functions, Sets, Asked
  <2>4. IInv' /\ Named' /\ Answers' /\ Heard' /\ ListenersAreCurrent'
    BY <2>1, <2>2, ClientKeeps DEF clients
  <2> QED
    BY <2>1, <2>2, <2>3, <2>4 DEF SInv
<1>8. UNCHANGED market => \A symbol : get_or_create_book(symbol)' = get_or_create_book(symbol)
  BY DEF market, vars, get_or_create_book
<1> QED
  BY <1>1, <1>2, <1>3, <1>4, <1>5, <1>6, <1>7, <1>8 DEF ServerNext, Silent
-----------------------------------------------------------------------------
(* What clients may rely on *)

(* The invariant every promise to a client rests on: orders rest under names *)
(* that submissions have had, live connections are in their sets, and what a *)
(* listener has heard of a book that holds orders is what it holds.          *)
THEOREM ServerInvariant == ServerSpec => []SInv
<1>1. SInv /\ [ServerNext]_server_vars => SInv'
  BY StepKinds
<1> QED
  BY InitSInv, <1>1, PTL DEF ServerSpec

(* The sets of connections hold live or lost connections of their own path,  *)
(* and answers are owed to live ones only.                                  *)
THEOREM ServerTypes == ServerSpec => []ServerTypeOK
<1>1. SInv => ServerTypeOK
  <2> SUFFICES ASSUME SInv PROVE ServerTypeOK
    OBVIOUS
  <2>1. TypeOK
    BY TypesFollow DEF SInv
  <2>2. io_thread # "none" => main \in {"waiting", "joining", "done"}
    BY DEF SInv, ThreadOK
  <2>3. /\ \A p \in Paths : \A c \in conns[p] : conn[c] # "none" /\ path[c] = p
        /\ \A c \in Connections : owed[c] > 0 => conn[c] = "open"
    BY DEF SInv, Sets, Asked
  <2> QED
    BY <2>1, <2>2, <2>3 DEF SInv, Answers, ServerTypeOK
<1> QED
  BY <1>1, ServerInvariant, PTL

(* Whenever it opened and whoever else comes and goes, a live listener of    *)
(* market data that has heard a BBO of a book that holds orders has heard    *)
(* the current one and a depth that begins with it.                          *)
THEOREM ListenersAlwaysCurrent == ServerSpec => []ListenersAreCurrent
<1>1. SInv => ListenersAreCurrent
  BY DEF SInv
<1> QED
  BY <1>1, ServerInvariant, PTL

LEMMA LeftIsNat ==
  ASSUME SInv, NEW symbol, NEW id
  PROVE  Left(symbol, id) \in Nat
BY BooksAreBooks, LeftInBookType DEF SInv, IInv, Left, IsBook

(* What rests has a name that a submission has had. *)
LEMMA RestingIsUsed ==
  ASSUME SInv, NEW symbol, NEW id, Left(symbol, id) # 0
  PROVE  id \in used
<1>1. get_or_create_book(symbol) \in Book(used, Prices)
  BY BooksAreNamed DEF SInv
<1> QED
  BY <1>1, StrangerHasNothing DEF Left

(* What the trades of a message tell of fills. *)
LEMMA ToldIsNear ==
  ASSUME NEW fills \in Seq(FillRecords(OrderIds, Prices)), NEW id
  PROVE  Tells(Told(fills), id, Taken(fills, id))
<1>1. PICK K, told : /\ K = {k \in DOMAIN fills : fills[k].maker_order_id = id}
                     /\ told = Told(fills)
  OBVIOUS
<1>2. ASSUME NEW k \in DOMAIN fills
      PROVE  /\ fills[k].quantity \in Int /\ told[k].maker_order_id = fills[k].maker_order_id
             /\ told[k].quantity = to_string(fills[k].quantity)
  <2>1. fills[k] \in FillRecords(OrderIds, Prices)
    OBVIOUS
  <2>2. PICK m : m = fills[k]
    OBVIOUS
  <2>3. told[k] = [m EXCEPT !.price = to_string(@), !.quantity = to_string(@)]
    BY <1>1, <2>2 DEF Told
  <2>4. m = [maker_order_id |-> m.maker_order_id, taker_order_id |-> m.taker_order_id,
             aggressor_side |-> m.aggressor_side, price |-> m.price,
             quantity |-> m.quantity] /\ m.quantity \in Int
    BY <2>1, <2>2 DEF FillRecords
  <2>5. told[k].maker_order_id = m.maker_order_id /\ told[k].quantity = to_string(m.quantity)
    BY <2>3, <2>4
  <2> QED
    BY <2>2, <2>4, <2>5
<1>3. K = {k \in DOMAIN told : told[k].maker_order_id = id}
  <2>1. DOMAIN told = DOMAIN fills
    BY <1>1 DEF Told
  <2> QED
    BY <1>1, <1>2, <2>1
<1>4. PICK w, v, u : /\ w = [k \in K |-> fills[k].quantity]
                     /\ v = [k \in K |-> told[k].quantity]
                     /\ u = [k \in K |-> Resolution * v[k]]
  OBVIOUS
<1>5. Taken(fills, id) = Sum(w, K) /\ Taken(told, id) = Sum(v, K)
  BY <1>1, <1>3, <1>4 DEF Taken, SumFunction, Sum
<1>6. IsFiniteSet(K)
  BY <1>1, SeqPositions
<1>7. Resolution \in Nat /\ Resolution \in Int
  BY FeedAssumption
<1>8. \A k \in K : /\ w[k] \in Int /\ v[k] \in Int /\ u[k] = Resolution * v[k] /\ u[k] \in Int
                   /\ -Resolution <= 2 * (w[k] - u[k]) /\ 2 * (w[k] - u[k]) <= Resolution
  <2> SUFFICES ASSUME NEW k \in K
               PROVE  /\ w[k] \in Int /\ v[k] \in Int /\ u[k] = Resolution * v[k]
                      /\ u[k] \in Int
                      /\ -Resolution <= 2 * (w[k] - u[k])
                      /\ 2 * (w[k] - u[k]) <= Resolution
    OBVIOUS
  <2>1. k \in DOMAIN fills
    BY <1>1
  <2>2. PICK x : x = fills[k].quantity
    OBVIOUS
  <2>3. x \in Int /\ told[k].quantity = to_string(x)
    BY <1>2, <2>1, <2>2
  <2>4. w[k] = x /\ v[k] = to_string(x) /\ u[k] = Resolution * v[k]
    BY <1>4, <2>2, <2>3
  <2>5. to_string(x) \in Int /\ Resolution * to_string(x) \in Int
    BY <1>7, <2>3, TextType
  <2> QED
    BY <2>3, <2>4, <2>5, TextIsNear
<1>9. Sum(u, K) = Resolution * Sum(v, K)
  BY <1>6, <1>7, <1>8, SumTimes
<1>10. /\ -(Resolution * Cardinality(K)) <= 2 * (Sum(w, K) - Sum(u, K))
       /\ 2 * (Sum(w, K) - Sum(u, K)) <= Resolution * Cardinality(K)
  BY <1>6, <1>7, <1>8, SumsNear
<1> QED
  BY <1>1, <1>3, <1>5, <1>9, <1>10 DEF Tells

(* What a step takes from an order that its request is not about, a listener *)
(* of trades hears, the client of the request is told of, and the trade feed *)
(* reports.                                                                  *)
LEMMA LossIsTold ==
  ASSUME SInv, [ServerNext]_server_vars, NEW symbol \in Symbols, NEW id \in OrderIds,
         Left(symbol, id) > Left(symbol, id)', id \notin latest'.about
  PROVE  LET lost == Left(symbol, id) - Left(symbol, id)'
         IN  /\ lost = Reported(symbol, id)'
             /\ latest'.status = "none" \/ Tells(latest'.trades, id, lost)
             /\ \A c \in Connections : conn[c] = "open" /\ path[c] = "trades" =>
                  Tells(heard'[c][symbol].trades, id, lost)
<1>1. Left(symbol, id) \in Nat /\ Left(symbol, id)' \in Nat
  <2>1. SInv'
    BY StepKinds
  <2>2. IsBook(get_or_create_book(symbol)')
    BY <2>1, EmptyIsBook DEF SInv, IInv, Books, get_or_create_book
  <2> QED
    BY <2>2, LeftIsNat, LeftInBookType DEF Left, IsBook
<1>2. get_or_create_book(symbol)' # get_or_create_book(symbol)
  BY <1>1 DEF Left
<1>3. PICK where \in Symbols : \E call, about : CallBy(where, call, about)
  BY <1>2, StepKinds DEF Called, Emptied
<1>4. PICK call, about : CallBy(where, call, about)
  BY <1>3
<1>5. /\ get_or_create_book(where)' = call.book
      /\ \A other : other # where => get_or_create_book(other)' = get_or_create_book(other)
      /\ trade_feed' = [k \in DOMAIN call.fills |->
                          [symbol |-> where, trade |-> call.fills[k]]]
  BY <1>4, CallEffect DEF SInv, IInv, CallBy, StepOf
<1>6. where = symbol
  BY <1>2, <1>5
<1>7. id # about
  BY <1>1, <1>4, <1>6 DEF CallBy
<1>8. Left(symbol, id)' = Left(symbol, id) - Taken(call.fills, id)
  BY <1>4, <1>5, <1>6, <1>7 DEF CallBy, StepOf, GoodCall, Accounts, Left
<1>9. Reported(symbol, id)' = Taken(call.fills, id)
  BY <1>5, <1>6, FillsAreReported
<1>10. Taken(call.fills, id) \in Nat /\ call.fills # <<>>
  <2>1. call.fills \in Seq(FillRecords(OrderIds, Prices))
    BY <1>4 DEF CallBy, StepOf, GoodCall
  <2>2. Taken(call.fills, id) \in Nat
    BY <2>1, TakenType
  <2>3. Taken(<<>>, id) = 0
    BY TakenOfNothing
  <2> QED
    BY <1>1, <1>8, <2>2, <2>3
<1>11. PICK lost : lost = Left(symbol, id) - Left(symbol, id)' /\ lost = Taken(call.fills, id)
  BY <1>1, <1>8, <1>10
<1>12. Tells(Told(call.fills), id, lost)
  <2>1. call.fills \in Seq(FillRecords(OrderIds, Prices))
    BY <1>4 DEF CallBy, StepOf, GoodCall
  <2> QED
    BY <1>11, <2>1, ToldIsNear
<1>13. ASSUME NEW c \in Connections, conn[c] = "open", path[c] = "trades"
       PROVE  Tells(heard'[c][symbol].trades, id, lost)
  <2>1. c \in Reached("trades")
    BY <1>13 DEF SInv, Sets, Reached
  <2>2. heard'[c][symbol].trades = Told(call.fills)
    BY <1>4, <1>6, <1>10, <2>1, BroadcastEffect DEF CallBy, SInv
  <2> QED
    BY <1>12, <2>2
<1>14. latest'.status = "none" \/ Tells(latest'.trades, id, lost)
  BY <1>4, <1>12 DEF CallBy
<1> QED
  BY <1>9, <1>11, <1>13, <1>14

LEMMA LossIsNat ==
  ASSUME SInv, SInv', NEW symbol, NEW id, Left(symbol, id) - Left(symbol, id)' > 0
  PROVE  Left(symbol, id) > Left(symbol, id)'
<1>1. IsBook(get_or_create_book(symbol)')
  BY EmptyIsBook DEF SInv, IInv, Books, get_or_create_book
<1>2. Left(symbol, id) \in Nat /\ Left(symbol, id)' \in Nat
  BY <1>1, LeftIsNat, LeftInBookType DEF Left, IsBook
<1> QED
  BY <1>2

(* Every live listener of trades hears of each order that the request is not *)
(* about what the books lost, up to the rounding of each trade, so two of    *)
(* them hear the same; whether the request's own answer was sent or not.     *)
THEOREM TradesAlwaysReachListeners == ServerSpec => TradesReachListeners
<1> DEFINE Step == \A c \in Connections, symbol \in Symbols, id \in OrderIds :
       LET lost == Left(symbol, id) - Left(symbol, id)'
       IN  /\ conn[c] = "open" /\ path[c] = "trades"
           /\ lost > 0 /\ id \notin latest'.about
           => Tells(heard'[c][symbol].trades, id, lost)
<1>1. SInv /\ SInv' /\ [ServerNext]_server_vars => [Step]_server_vars
  BY LossIsNat, LossIsTold
<1>2. []SInv /\ [][ServerNext]_server_vars => [][Step]_server_vars
  BY <1>1, PTL
<1> QED
  BY <1>2, ServerInvariant, PTL DEF ServerSpec, TradesReachListeners

(* A client that hears an answer, success or error, is told in it of every   *)
(* fill its request caused, up to the rounding of each; only a send that     *)
(* fails, or a client that has gone, keeps that from it.                     *)
THEOREM AnswersAlwaysTellFills == ServerSpec => AnswersTellFills
<1> DEFINE Step == \A symbol \in Symbols, id \in OrderIds :
       LET lost == Left(symbol, id) - Left(symbol, id)'
       IN  lost > 0 /\ id \notin latest'.about /\ latest'.status # "none"
           => Tells(latest'.trades, id, lost)
<1>1. SInv /\ SInv' /\ [ServerNext]_server_vars => [Step]_server_vars
  BY LossIsNat, LossIsTold
<1>2. []SInv /\ [][ServerNext]_server_vars => [][Step]_server_vars
  BY <1>1, PTL
<1> QED
  BY <1>2, ServerInvariant, PTL DEF ServerSpec, AnswersTellFills

(* With a clock that may repeat itself, step back or read what clients have  *)
(* chosen, an order that rests is only lost to fills the trade feed reports, *)
(* to a request in which a client names it, or to the clock giving another   *)
(* order a name that a submission had before.                                *)
THEOREM OrdersAreAlwaysKept == ServerSpec => OrdersAreKept
<1> DEFINE Step == \A symbol \in Symbols, id \in OrderIds :
       Left(symbol, id) > Left(symbol, id)' =>
         \/ id \in latest'.about /\ (latest'.clocked => id \in used)
         \/ Left(symbol, id)' = Left(symbol, id) - Reported(symbol, id)'
<1>1. ASSUME SInv, SInv', [ServerNext]_server_vars, NEW symbol \in Symbols, NEW id \in OrderIds,
             Left(symbol, id) > Left(symbol, id)'
      PROVE  \/ id \in latest'.about /\ id \in used
             \/ Left(symbol, id)' = Left(symbol, id) - Reported(symbol, id)'
  <2>1. Left(symbol, id) \in Nat /\ Left(symbol, id)' \in Nat
    <3>1. IsBook(get_or_create_book(symbol)')
      BY <1>1, EmptyIsBook DEF SInv, IInv, Books, get_or_create_book
    <3> QED
      BY <1>1, <3>1, LeftIsNat, LeftInBookType DEF Left, IsBook
  <2>2. id \in used
    BY <1>1, <2>1, RestingIsUsed
  <2>3. CASE id \notin latest'.about
    <3>1. Left(symbol, id) - Left(symbol, id)' = Reported(symbol, id)'
      BY <1>1, <2>3, LossIsTold
    <3> QED
      BY <2>1, <3>1
  <2> QED
    BY <2>2, <2>3
<1>2. SInv /\ SInv' /\ [ServerNext]_server_vars => [Step]_server_vars
  BY <1>1
<1>3. []SInv /\ [][ServerNext]_server_vars => [][Step]_server_vars
  BY <1>2, PTL
<1> QED
  BY <1>3, ServerInvariant, PTL DEF ServerSpec, OrdersAreKept
=============================================================================
