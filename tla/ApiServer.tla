----------------------------- MODULE ApiServer ------------------------------
(* ApiServer, src/api_server.cpp, between the manager of MatchingEngine and  *)
(* clients that come and go.  One thread runs every handler, so a handler is *)
(* one step; it calls the manager, which calls the broadcasts back.          *)
EXTENDS MatchingEngine

CONSTANTS
  Names,         \* the order identifiers that clients choose
  Readings,      \* what the clock may read, as an identifier
  Connections,   \* connections there may be at a time
  Submissions,   \* the orders clients submit
  Failures,      \* requests besides: "bad", "other", "unprintable"
  MaxAsked,      \* bound: requests under way on a connection
  Signals,       \* whether a signal may end the engine
  NoId           \* a submission names no identifier

(* A client may choose what the clock reads. *)
ASSUME NamesAssumption == OrderIds = Names \cup Readings /\ NoId \notin OrderIds

ASSUME SubmissionAssumption ==
  Submissions \subseteq [symbol : Symbols, order_id : Names \cup {NoId}, side : Side,
                        order_type : OrderType, price : Prices, quantity : Quantities]

ASSUME FailuresAssumption == Failures \subseteq {"bad", "other", "unprintable"}

VARIABLES
  main, io_thread, g_running, stopped,        \* of EngineProcess
  conn,      \* connection -> "none", "open", or "lost" until that is noticed
  path,      \* connection -> the path it was opened on
  conns,     \* path -> the connections of the set of that name
  asked,     \* connection -> requests it has sent that are not handled
  owed,      \* connection -> answers a client on /ws/orders waits for
  heard,     \* connection -> symbol -> the last BBO and depth it received,
             \* and the trades of the last call that made any
  used,      \* the identifiers submissions have had
  latest     \* the latest request: the status and trades its client heard, the
             \* identifiers it is about, whether the clock gave its identifier

Process == INSTANCE EngineProcess

process == <<main, io_thread, g_running, stopped>>
market  == vars   \* of MatchingEngine
clients == <<conn, path, conns, asked, owed, heard>>
server_vars == <<process, market, clients, used, latest>>

Paths    == {"market-data", "trades", "orders"}
NoRequest == [status |-> "none", trades |-> <<>>, about |-> {}, clocked |-> FALSE]
Unheard  == [symbol \in Symbols |-> [bbo |-> <<>>, depth |-> <<>>, trades |-> <<>>]]

(* A client sends a submission, a cancellation, a request that throws while  *)
(* it is read, one of another action, or one whose error cannot be dumped.   *)
Requests ==
  [action : {"submit"}, order : Submissions]
    \cup [action : {"cancel"}, symbol : Symbols, order_id : OrderIds]
    \cup [action : Failures]

-----------------------------------------------------------------------------
(* Clients *)

ServerInit ==
  /\ Process!NotStarted
  /\ Init
  /\ conn = [c \in Connections |-> "none"]
  /\ path = [c \in Connections |-> "orders"]
  /\ conns = [p \in Paths |-> {}]
  /\ asked = [c \in Connections |-> <<>>]
  /\ owed = [c \in Connections |-> 0]
  /\ heard = [c \in Connections |-> Unheard]
  /\ used = {}
  /\ latest = NoRequest

on_open(c, p) ==
  /\ Process!Serving
  /\ conn[c] = "none"
  /\ conn' = [conn EXCEPT ![c] = "open"]
  /\ path' = [path EXCEPT ![c] = p]
  /\ conns' = [conns EXCEPT ![p] = @ \cup {c}]
  /\ heard' = [heard EXCEPT ![c] = Unheard]
  /\ UNCHANGED <<process, market, asked, owed, used, latest>>

(* What a client says on another path is not read: one message stands for    *)
(* all.                                                                      *)
Ask(c, request) ==
  /\ conn[c] = "open"
  /\ path[c] # "orders" => request.action = "other"
  /\ Len(asked[c]) < MaxAsked
  /\ asked' = [asked EXCEPT ![c] = Append(@, request)]
  /\ owed' = IF path[c] = "orders" /\ request.action # "other"
             THEN [owed EXCEPT ![c] = @ + 1] ELSE owed
  /\ UNCHANGED <<process, market, conn, path, conns, heard, used, latest>>

(* The client goes or the network fails; what it has sent may be on its way. *)
Lose(c) ==
  /\ conn[c] = "open"
  /\ conn' = [conn EXCEPT ![c] = "lost"]
  /\ \E n \in 0 .. Len(asked[c]) : asked' = [asked EXCEPT ![c] = SubSeq(@, 1, n)]
  /\ owed' = [owed EXCEPT ![c] = 0]
  /\ UNCHANGED <<process, market, path, conns, heard, used, latest>>

(* Fault: the connection stays in the set of trade listeners. *)
CloseKeepingTrades(c) ==
  /\ Process!Serving
  /\ conn[c] = "lost"
  /\ conn' = [conn EXCEPT ![c] = "none"]
  /\ conns' = [p \in Paths |-> IF p = "trades" THEN conns[p] ELSE conns[p] \ {c}]
  /\ asked' = [asked EXCEPT ![c] = <<>>]
  /\ UNCHANGED <<process, market, path, owed, heard, used, latest>>

on_close(c) ==
  /\ Process!Serving
  /\ conn[c] = "lost"
  /\ conn' = [conn EXCEPT ![c] = "none"]
  /\ conns' = [p \in Paths |-> conns[p] \ {c}]
  /\ asked' = [asked EXCEPT ![c] = <<>>]
  /\ UNCHANGED <<process, market, path, owed, heard, used, latest>>

-----------------------------------------------------------------------------
(* Broadcasts *)

(* Fault: the loop over the subscribers ends at the first that fails. *)
ReachedUntilFailure(p) ==
  IF \E c \in conns[p] : conn[c] = "lost" THEN {} ELSE conns[p]

(* Sending takes an error_code: a lost subscriber receives nothing and       *)
(* keeps nobody else from it.                                                *)
Reached(p) == {c \in conns[p] : conn[c] = "open"}

(* Fault: the sends take no error_code. *)
BroadcastThrowsOnLoss(call) ==
  \E c \in conns["market-data"] : conn[c] = "lost" /\ (call.bbo \/ call.depth)

(* Nothing a broadcast does reaches its caller. *)
BroadcastThrows(call) == FALSE

(* broadcast_trade, broadcast_bbo and broadcast_depth, as far as the call    *)
(* makes the manager call them back.                                         *)
Broadcast(symbol, call) ==
  heard' = [c \in Connections |-> [heard[c] EXCEPT ![symbol] =
    [bbo    |-> IF c \in Reached("market-data") /\ call.bbo
                THEN <<get_bbo(call.book)>> ELSE @.bbo,
     depth  |-> IF c \in Reached("market-data") /\ call.depth
                THEN <<get_l2_depth(call.book)>> ELSE @.depth,
     trades |-> IF c \in Reached("trades") /\ call.fills # <<>>
                THEN Told(call.fills) ELSE @.trades]]]

-----------------------------------------------------------------------------
(* Requests *)

(* Fault: the clock is read once, when the server starts. *)
OrderOfCachedClock(o, name) ==
  NewOrder(IF o.order_id = NoId THEN CHOOSE r \in Readings : TRUE ELSE name,
           o.side, o.order_type, IF o.order_type = MARKET THEN 0 ELSE o.price, o.quantity)

(* The order a submission makes: a market order has no price, and a missing  *)
(* price is 0.                                                               *)
OrderOf(o, name) ==
  NewOrder(name, o.side, o.order_type, IF o.order_type = MARKET THEN 0 ELSE o.price,
           o.quantity)

(* The clock names an order its client does not: that of the system, which   *)
(* may read what it has read before.                                         *)
NamesFor(o) == IF o.order_id = NoId THEN Readings ELSE {o.order_id}

(* A lost connection loses the answer, or makes the send throw.              *)
Sendings(c) == IF conn[c] = "open" THEN {"sent"} ELSE {"dropped", "thrown"}

(* A send that throws is caught, the catch block sends the error, and that   *)
(* send throws out of the handler.                                           *)
Answer(sending, request) ==
  /\ latest' = IF sending = "sent" THEN request
               ELSE [request EXCEPT !.status = "none", !.trades = <<>>]
  /\ IF sending = "thrown" THEN Process!HandlerThrows ELSE UNCHANGED process

PerformAndBroadcast(symbol, call) ==
  /\ Perform(symbol, call)
  /\ Broadcast(symbol, call)

Submit(o, sending) ==
  \E name \in NamesFor(o) :
  \E call \in {SubmitCall(get_or_create_book(o.symbol), OrderOf(o, name))} :
    /\ PerformAndBroadcast(o.symbol, call)
    /\ used' = used \cup {name}
    /\ Answer(sending,
         [status  |-> IF BroadcastThrows(call) THEN "error" ELSE "success",
          trades  |-> IF BroadcastThrows(call) THEN <<>> ELSE Told(call.fills),
          about   |-> {name}, clocked |-> o.order_id = NoId])

Cancel(symbol, id, sending) ==
  LET old == get_or_create_book(symbol)
  IN  /\ PerformAndBroadcast(symbol, CancelCall(old, id))
      /\ UNCHANGED used
      /\ Answer(sending, [NoRequest EXCEPT
           !.status = IF Rests(old, id) THEN "success" ELSE "error", !.about = {id}])

(* Fault: the catch block answers nothing. *)
FailSilently(request, sending) ==
  /\ UNCHANGED <<market, heard, used>>
  /\ Answer(IF request.action = "unprintable" THEN "thrown" ELSE "sent", NoRequest)

(* What throws while it is read is answered with the error from the catch    *)
(* block; an error that cannot be dumped throws again, and leaves it.        *)
Fail(request, sending) ==
  /\ UNCHANGED <<market, heard, used>>
  /\ \/ request.action = "bad" /\ Answer(sending, [NoRequest EXCEPT !.status = "error"])
     \/ request.action = "other" /\ Answer("sent", NoRequest)
     \/ request.action = "unprintable" /\ Answer("thrown", NoRequest)

Handle(request, sending) ==
  \/ request.action = "submit" /\ Submit(request.order, sending)
  \/ request.action = "cancel" /\ Cancel(request.symbol, request.order_id, sending)
  \/ request.action \in Failures /\ Fail(request, sending)

OrderPath(c) == path[c] = "orders"

(* A message on any other path is ignored. *)
on_message(c) ==
  /\ Process!Serving
  /\ conn[c] # "none"
  /\ asked[c] # <<>>
  /\ asked' = [asked EXCEPT ![c] = Tail(@)]
  /\ IF OrderPath(c)
     THEN \E sending \in Sendings(c) : Handle(Head(asked[c]), sending)
     ELSE latest' = NoRequest /\ UNCHANGED <<process, market, heard, used>>
  /\ owed' = IF owed[c] > 0 /\ latest'.status # "none"
             THEN [owed EXCEPT ![c] = @ - 1] ELSE owed
  /\ UNCHANGED <<conn, path, conns>>

(* An HTTP request is answered by the handler, unless its answer throws; its *)
(* client may not wait for that.  OPTIONS and unknown paths are answered and *)
(* change nothing.                                                           *)
on_http ==
  /\ Process!Serving
  /\ \/ \E request \in Requests, sending \in {"sent", "dropped"} :
          request.action # "other" /\ Handle(request, sending)
     \/ /\ reset
        /\ latest' = [NoRequest EXCEPT !.status = "success", !.about = OrderIds]
        /\ UNCHANGED <<process, heard, used>>
     \/ /\ \E symbol \in Symbols : Query(symbol)
        /\ latest' = [NoRequest EXCEPT !.status = "success"]
        /\ UNCHANGED <<process, heard, used>>
     \/ /\ latest' = [NoRequest EXCEPT !.status = "error"]
        /\ UNCHANGED <<process, market, heard, used>>
  /\ UNCHANGED <<conn, path, conns, asked, owed>>

ProcessStep ==
  /\ Process!Boot \/ (Signals /\ Process!Signal) \/ Process!Run
  /\ UNCHANGED <<market, clients, used, latest>>

ServerNext ==
  \/ \E c \in Connections, p \in Paths : on_open(c, p)
  \/ \E c \in Connections, request \in Requests : Ask(c, request)
  \/ \E c \in Connections : Lose(c)
  \/ \E c \in Connections : on_close(c)
  \/ \E c \in Connections : on_message(c)
  \/ on_http
  \/ ProcessStep

ServerSpec == ServerInit /\ [][ServerNext]_server_vars

(* The thread reads every connection in turn, and the process goes on. *)
FairSpec ==
  /\ ServerSpec
  /\ \A c \in Connections : WF_server_vars(on_message(c))
  /\ WF_server_vars(Process!Run /\ UNCHANGED <<market, clients, used, latest>>)

-----------------------------------------------------------------------------
(* What the server promises *)

ServerTypeOK ==
  /\ TypeOK
  /\ io_thread # "none" => main \in {"waiting", "joining", "done"}
  /\ \A p \in Paths : \A c \in conns[p] : conn[c] # "none" /\ path[c] = p
  /\ \A c \in Connections : owed[c] > 0 => conn[c] = "open"
  /\ used \subseteq OrderIds /\ latest.about \subseteq OrderIds

(* Whenever it opened and whoever else comes and goes, a live listener of    *)
(* market data has either heard no BBO of a book that holds orders, or has   *)
(* heard its current one and a depth that agrees with it.                    *)
ListenersAreCurrent ==
  \A c \in Connections, symbol \in Symbols :
    /\ conn[c] = "open" /\ path[c] = "market-data"
    /\ heard[c][symbol].bbo # <<>>
    /\ get_or_create_book(symbol) # EmptyBook
    => /\ heard[c][symbol].bbo = <<Bbo(symbol)>>
       /\ \A s \in Side : Bbo(symbol)[s] =
            SubSeq(heard[c][symbol].depth[1][s], 1, Len(Bbo(symbol)[s]))

(* What trades tell that a maker gave, each rounded to its last decimal.     *)
Tells(trades, id, given) ==
  LET error == 2 * (given - Resolution * Taken(trades, id))
      most  == Resolution * Cardinality({k \in DOMAIN trades : trades[k].maker_order_id = id})
  IN  -most <= error /\ error <= most

(* Two listeners of trades that are live at a call that trades hear the same *)
(* fills, and they are what the books lost.                                  *)
TradesReachListeners ==
  [][\A c \in Connections, symbol \in Symbols, id \in OrderIds :
       LET lost == Left(symbol, id) - Left(symbol, id)'
       IN  /\ conn[c] = "open" /\ path[c] = "trades"
           /\ lost > 0 /\ id \notin latest'.about
           => Tells(heard'[c][symbol].trades, id, lost)]_server_vars

(* Whoever is answered, and with whatever status, is told of every fill that *)
(* the request caused: an error never hides that others have traded.         *)
AnswersTellFills ==
  [][\A symbol \in Symbols, id \in OrderIds :
       LET lost == Left(symbol, id) - Left(symbol, id)'
       IN  lost > 0 /\ id \notin latest'.about /\ latest'.status # "none"
           => Tells(latest'.trades, id, lost)]_server_vars

(* What rests is only lost to a fill, to a request in which a client names   *)
(* it, or to the clock naming another order as one was named before: a clock *)
(* that repeats itself, or reads what a client chose.                        *)
OrdersAreKept ==
  [][\A symbol \in Symbols, id \in OrderIds :
       Left(symbol, id) > Left(symbol, id)' =>
         \/ id \in latest'.about /\ (latest'.clocked => id \in used)
         \/ Left(symbol, id)' = Left(symbol, id) - Reported(symbol, id)']_server_vars

(* A client on the order path is answered, whatever it and others ask, until *)
(* it goes or the thread that serves it ends.                                *)
RequestsAreAnswered ==
  \A c \in Connections :
    owed[c] > 0 ~> owed[c] = 0 \/ conn[c] # "open" \/ ~ Process!Serving

(* An engine that is asked to end does, also when a handler has thrown.      *)
EndsOnSignal == Process!SignalEndsProcess
=============================================================================
