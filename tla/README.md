# BlockSprint in TLA+

A model of the BlockSprint matching engine and of the programs around it: the order book of
`src/src/order_book.cpp` loop by loop, the manager of `src/src/matching_engine.cpp` with the feeds
its callbacks drive, the server of `src/src/api_server.cpp` with its clients and its process, the
Binance connector, the trade validator, the benchmark and the launch harness; TLC runs that check
them on small instances; and TLAPS proofs for every value of their constants. Paths below are
relative to the directory that holds `src/`, the repository; the repository's own sources are in
`src/src/`.

## The system

| Component | State | Operations | What is hard, and what makes it correct |
|---|---|---|---|
| Order book, `order_book.cpp`, `order_book.hpp`, `models.hpp` | `bids_`, `asks_` (price to `PriceLevel`: a list of orders and their total), `orders_lookup_` (identifier to order), a list iterator in each order | `submit_order` (limit, market, IOC, FOK), `cancel_order`, `modify_order`, `get_bbo`, `get_l2_depth` | four linked structures updated by hand in a dozen places; erasing while iterating; self-trade prevention (STP) skips makers; the FOK dry run must predict the sweep. Price-time priority, exact totals, one consistent index, users never crossed |
| Matching engine manager, `matching_engine.cpp` | `books_`, the three callbacks, `mutex_` | `submit_order`, `cancel_order`, `modify_order`, queries, `reset` | which change is published, and when: the feeds must describe the books |
| API server, `api_server.cpp` | three sets of connections, `connection_mutex_`, the io thread | HTTP and WebSocket handlers, broadcasts, start, stop | subscribers join a feed in its middle and are lost in the middle of a broadcast; requests fail at any point, also when the books have changed and the answer cannot be sent; the clock names orders. Listeners know the books, answers tell what was traded, orders are kept, requests are answered |
| Entry point, `main.cpp` | `g_running` | registers callbacks, starts, waits for a signal, stops | keeps waiting when the io thread has ended; must still end on a signal |
| Logger, `logger.hpp` | a file and a mutex | log lines | none that another part sees |
| Binance connector, `scripts/binance_connector.py` | `active_orders`, two WebSockets | reset, snapshot, deltas, reconnection | its picture of the engine's book across failures of three connections, restarts and users' fills; it must be able to take back what it posted |
| Validator, `scripts/interactive_test.py` | none | predicts fills from the depth, submits, compares | the prediction is per level, read from rounded text, and may be stale or cut off; a failure it reports must have a cause |
| Performance client, `scripts/perf_test.py` | a semaphore and the counts of two tasks | sends and receives | no permit leaks, nothing is counted twice, it ends |
| Launch harness, `scripts/run_all.py` | two child processes | start, wait, stop, kill | interrupts and failures between any two statements; no child outlives it |
| Demo client, tests, vendored JSON, build files | | | not modelled |

Clients reach the engine through the API server, whose handlers all run on the one thread that
runs `server_.run()`; a handler calls the manager, which takes `mutex_`, finds or creates the book
of the symbol, calls it, and calls back into the server's broadcasts before it unlocks. So a call
on a book is never interleaved with another call. What is interleaved is calls of different
clients; what is hard inside a call is its loops over structures it changes.

## Modules

| Module | What it is |
|---|---|
| `Models` | sides, order types, the order of prices (`models.hpp`, the two map comparators) |
| `BinanceOrders` | which identifiers belong to the connector, and what self-trade prevention forbids them |
| `OrderBook` | one book; every call, with the sweep one loop iteration per step |
| `PriorityRules` | the closed form: what one submission does to a book given as one priority queue per side |
| `PriorityBook` | the abstract book: every call takes effect at once, by `PriorityRules` |
| `OrderBookRefinement` | `OrderBook` implements `PriorityBook` under a refinement mapping |
| `MatchingEngine` | books per symbol, by `PriorityRules`, and the BBO, depth and trade feeds |
| `EngineProcess` | the process: `main`, its signals, the io thread, start, stop, join |
| `ApiServer` | connections, requests, broadcasts: composes `MatchingEngine` and `EngineProcess` |
| `BinanceConnector` | the connector between an exchange, its connections and the engine |
| `TradeValidator` | the validator, on a book of `MatchingEngine` that others use |
| `PerfClient` | the benchmark's two tasks, its window and its connection |
| `RunAll` | the harness and its children: composes `EngineProcess` |
| `PriorityRulesProofs` | lemmas on sums, ranks and sequences in priority, and on `PriorityRules`: what a submission leaves, fills and accounts for, and how its first fill may be taken for a submission of its own |
| `OrderBookProofs`, `MatchingEngineProofs`, `ApiServerProofs`, `BinanceConnectorProofs`, `TradeValidatorProofs`, `PerfClientProofs` | the theorems; the one on `RunAll` stands in `RunAll` |
| `MCOrderBook`, `MCMatchingEngine`, `MCApiServer`, `MCBinanceConnector`, `MCTradeValidator` | what the small instances need besides constants: symmetry, requests, books of the exchange |

Definitions marked `Fault:` are plausible bugs of the definition that follows them. No
specification uses them; each is there to show that a property fails when the code is wrong in
that way.

### OrderBook

`orders_lookup` is the hash map. `levels[side]` are the keys of `bids_` or `asks_`,
`orders[side][price]` is the list of a level and `total_quantity[side][price]` its published total.
`taker`, `pc`, `level_it`, `order_it` and `trades` are the locals of the call in progress:

- `submit_order`, and `modify_order` when it re-queues, start with `Begin`: an identifier that
  rests is cancelled, then the order becomes the taker;
- `pc = "dry_run"`: `can_fok_be_fully_filled`, then the sweep or the return with no trade;
- `pc = "outer"`: the test of the outer loop and the limit check (`EnterLevel`, `StopSweep`);
- `pc = "inner"`: one iteration of the inner loop (`SkipBlocked` for STP, `MatchMaker` for a fill)
  or its end (`LeaveLevel`: an emptied level is erased and the outer loop goes on, any other
  breaks it);
- `pc = "swept"`: the remainder rests (`Rest`, limit and FOK) or is dropped (`Discard`).

The code repeats the sweep six times, for two sides and three routines; the copies were compared
and differ in the side, in the limit check a market order lacks, and in what follows the sweep.
The model has one sweep with these three as parameters. Invariants therefore speak of the book
between any two iterations, not only of results.

Left out: `is_cancelled` (a cancelled order has always left its list, so the tests of it in the
loops are never true), `has_iterator` (true exactly for queued orders), trade identifiers and
timestamps, the symbol. Prices and quantities are integers, a number of ticks and of lots; the code
has `double`, and what rounding may do is not modelled. `modify_order` is given quantities that
are not negative: it is reached from no endpoint, only from C++ callers and tests. Quantities of
submissions are not restricted, because the API does not restrict them; the runs include zero,
the theorems any integer.

### PriorityRules, PriorityBook and the refinement

`PriorityRules` states price-time priority with no loops: which makers count for a FOK order
(`Countable`), which a sweep can reach (`Reachable`: no blocked maker at a better price), how much
each reachable maker is given (`Allotment`), and the book and fills that follow (`Settle`).
`PriorityBook` lets a call take effect at once and hold its answer until `Answer`.

The mapping of `OrderBookRefinement` orders the resting orders of a side by `Ahead`: the better
price first, at one price the earlier place in the list (`Priority`; the position of an order is how
many are `UpTo` it). During a sweep the abstract book is what the closed form makes of the book as it stands, and the abstract
fills are those made so far followed by those the closed form predicts. So each loop iteration
must be a stutter: the fill it makes must be the one that was predicted, and the rest of the
prediction must not change. A sweep that skips, repeats or misallots shows at the first such step.

### MatchingEngine

`books` has a book in the form of `PriorityRules` for each symbol that has one; the refinement above
is why a call may be one step. `bbo_feed` and `depth_feed` hold the last message sent for each
symbol, what a client that listened from the start knows; `trade_feed` holds the messages of the
latest call. `to_string` rounds like `std::to_string`, to multiples of `Resolution`, because the
code decides on the text of prices and quantities whether the BBO changed. `Depth` is the 10 of
`get_l2_depth(10)`. A query or a failed call creates the book, as the code does. Callbacks are
registered in `main` before the server starts, so they are always present. Trade identifiers, from
one counter for all books, are left out. `trade_feed` has the fills as the callback is given them;
`Told` is what `to_json` makes of their numbers, and what clients of the server and the validator
read.

### EngineProcess

`main` goes from `"loading"` (no handler installed: a signal is deadly) through `"starting"`
(`listen` may throw, which nobody catches) to `"waiting"` for `g_running`, then `stop` and `Join`.
`io_thread` is `server_thread_`; `HandlerThrows` is an exception that leaves `run()`, which the
thread logs before it ends while `main` keeps waiting. `ApiServer` and `RunAll` both use it.

### ApiServer

All handlers run on the thread of `ws_server_.run()`, so one handler, with the call of the manager
and the broadcasts that call makes, is one step. `conns` are the three sets of connections; `conn`
says whether the client is there, and `"lost"` is the time between its loss and the close handler,
when it is still in its set and sending to it fails. `asked` are the requests a connection has
sent. `ServerInit`, `ServerNext` and `ServerSpec` name the server's behaviours, since `Init`, `Next`
and `Spec` are the manager's. `Handle` is the common part of `on_message` and `on_http`: a submission, a cancellation, or
one of three failures: `"bad"` throws while it is read and is answered from the catch block,
`"other"` names no action and is not answered, and `"unprintable"` makes the answer in the catch
block throw again (its text cannot be dumped as JSON), so the exception leaves the handler.

An answer is sent when the books have changed. On a connection that is lost (`Sendings`) it is
dropped, or `send` throws: then the catch block sends the error on the same connection, which
throws out of the handler and ends the thread (`Answer`, `HandlerThrows`). The client of an HTTP
request may not wait for its answer. `latest` is what the client of the latest request heard:
`"none"` when that is nothing, otherwise the status and the trades it was told.

An order without an identifier is named by the clock: `NamesFor` lets it read any of `Readings`,
the same one again or an earlier one, since `getCurrentTimestampNs` reads the clock of the system,
and a client may choose a number that the clock reads, as `Names` and `Readings` may overlap.
`used` are the identifiers that submissions have had, and `clocked` whether the clock named the
latest one; both are kept for the properties only.

`heard` is what each client has received since it connected, as text: there is no snapshot.
`reset` tells nobody.

### BinanceConnector

One symbol. The control flow of `sync_websocket_deltas` is `pc`: reset, connect, the snapshot
request, posting it, reading frames, and the wait after an exception. What the engine has not
executed is in `wire` (the orders connection of this session) and `late` (what connections that
have ended left under way: orders, and a reset that timed out at the client); `late` is a bag,
since connections are served in any order. This allows more orders of execution than there are,
two messages of one ended connection may be swapped. Of the engine it keeps the connector's own
orders, `resting`; users take from them at any time (`UserTakes`, and on arrival in `Execute`). An
engine that stops forgets everything. `exchange` moves at will; the stream sends its best levels
whenever they change. `mirrored`, `clean` and `disturbed` are kept for the properties only: what
the session last read, whether the latest reset was executed and overtook nothing, and which keys
somebody else changed since this session's last message about them.

### TradeValidator, PerfClient, RunAll

`TradeValidator` has one action per phase of `run_interactive_test`, other clients before and
between them, and the prediction as a fold over the levels of a depth message, like the loop of
`predict_matching_trades`. The engine trades numbers, the script reads text: of the depth (`Read`)
and of the trades it is answered (`ReadTrades`), each number rounded to a multiple of `Resolution`
(`Shown`). Its tolerance of `1e-6` is one `Resolution`, but two neighbouring texts are as doubles
a little less or a little more than that apart, so `Compare` takes `delta` just below it or at it.
`levels`, what the order could meet, is kept for the properties; `Late` bounds what others submit
between the depth and the submission, and cancellations are not bounded. When the script ends its
variables are gone (`End`), the verdict excepted.

`PerfClient` has one action per stretch between two awaits of
`send_orders`, `receive_confirmations` and `run_benchmark`; orders and answers are counted, not
named, because the server answers a connection in order. `RunAll` has one action per statement of
`run_all.py` that can fail, block or reach a child, with `Interrupt` between any two.

## Runs

| Run | Shows | Bounds |
|---|---|---|
| `book` | the safety of one book | 2 users, 2 Binance orders, 3 prices, quantities 0 to 2 |
| `book_refinement` | `ImplementsPriorityBook`, `CallsReturn` | 1 user, 2 Binance orders, 2 prices, quantities 0, 1, 3 |
| `feeds` | the feeds of one symbol | 2 users, 1 Binance order, 3 prices, quantities 0 to 2, depth 2, resolution 3 |
| `feeds_shielded` | which depth change goes unseen behind shielded liquidity | 1 user, 3 Binance orders, 3 prices, quantity 1, depth 2, resolution 3 |
| `server` | listeners, answers and orders | 2 connections, 1 request each, 3 submissions, 2 readings of the clock of which one is a client's name, resolution 2 |
| `server_liveness` | answers and shutdown | 1 connection, 1 order, signals |
| `connector` | the mirror, safety and liveness | 2 books of the exchange over 3 prices, 2 frames ahead, depths 1 and 2 |
| `validator` | what a prediction and a verdict are worth | 3 other orders, prices 3, 4, 6, 9, quantities 0, 3, 4, 7, depth 2, resolution 3, late orders of 3 at 6 |
| `benchmark` | the window and the report | 7 orders, a window of 3 |
| `harness` | no child outlives the harness | none needed |
| `fok` | violation, see below | 1 user, 2 Binance orders, 2 prices, quantities 1, 2 |
| `depth_replacement` | violation, see below | 1 symbol, 2 users, 2 prices, 1 quantity |

What `book` checks, in the order of what could go wrong:

- `IndexConsistent`: the lookup, the maps and the lists describe one set of orders.
- `SweepPosition`: the sweep passes no maker it may trade with.
- `TotalsExact`: a level's total is the sum of its orders.
- `PriceTimePriority`, `QueuesAreFifo`, `RestingOrdersOnlyShrink`: who is filled, who stands where,
  and what costs an order its place.
- `SweepIsComplete`, `UsersNeverCross`: a sweep leaves behind only what STP shields, so two users
  never rest crossed.
- `UserFokFills`, `OnlyLimitOrdersRest`: the order types keep their promises, a FOK order of the
  Binance connector excepted.

What `feeds` checks: `BboFeedIsCurrent` and `FeedsAgree` (a listener knows the best prices of a book
with orders, from either feed), `OnlyResetIsSilent`, `DepthMissesOnlyOneOrder` (exactly which
changes go unseen: one order below the best price, replaced without a trade, or a Binance FOK order
that comes to rest), and `TradeFeedAccounts` (at most one order changes in a call by anything but
what the trade feed says, to the last lot). `feeds_shielded` asks for the second of the unseen
changes, which takes three Binance orders; `feeds` reaches the first.

What `server` checks: `ListenersAreCurrent` (whoever listens knows nothing or the truth, whenever
it joined and whoever else is lost during a broadcast), `TradesReachListeners` (every live listener
of trades hears all that makers gave, up to the rounding of each fill), `AnswersTellFills` (whoever
is answered, and with whatever status, is told of every fill the request caused: a failure never
hides that others have traded; it would fail if a broadcast, or anything else between the
submission and the answer, could throw), `OrdersAreKept` (an order is only lost to fills, to a
request in which a client names it, or to the clock naming another order as one was named before)
and in `ServerTypeOK` that the sets hold connections that are open or about to be closed, on their
path. `server_liveness`: `RequestsAreAnswered` while the thread lives, and `EndsOnSignal`, also
after an exception has ended the thread that serves.

What `connector` checks: `WireMirrorsLastRead` (when the wire is drained, a level differs from what
was last read only if somebody else changed it since), `NothingBeyondLastRead` (after a clean reset
no order of an earlier session is left, and never more is offered than was read),
`UntrackedAreCancelled` (what `active_orders` has lost sight of is about to be cancelled),
`CatchesUp` (when nothing disturbs it any more the engine ends up with the exchange's levels) and
`LossIsNoticed` (as long as the exchange moves, a session on a lost connection ends).

What `validator` checks: `PredictsEachLevel` (on a book that has not changed, is no deeper than the
depth and has levels that their text shows exactly, the quantity traded at every price is predicted
for every type, up to the rounding of each fill) and `FailuresAreExplained` (a FAIL means that the
book changed, the depth was cut off, a level it could meet was rounded, or a level traded several
orders). Each condition is needed: without any one of them the run finds a violation. What `benchmark` checks: `WindowIsKept`, `ReportIsComplete` (every order
confirmed, every permit back, every success measured), and `EndsUnlessStuck`: the benchmark ends,
except when the receiver has ended with the connection while the sender waits for a permit. What
`harness` checks: `NothingOutlivesCleanUp` and `ServicesEnd`.

Why the bounds are enough. Four orders at three prices give levels with several orders, several
levels a side, a blocked order before, between and behind others, a sweep that empties a level and
enters the next, and a partial fill at either end. Quantity 0 reaches the cancelling modification
and the empty order; 2 against 1 gives partial fills; 3 in the refinement a sweep of several makers
that ends inside one. Depth 2 with three prices truncates a message, and resolution 3 makes
quantities that differ look equal. For the validator 3, 6 and 9 are shown exactly, 4 and 7 are
rounded down and 7 is more than two exact levels offer, so that a cut depth matters; depth 2 cuts a
third level off. Two connections give a listener and a trader, two listeners of
which one is lost, and a close that races a request; one request under way each is enough because
handlers take them one by one. The books of the exchange make a price change sides, a level come
to be listed as empty and a side deeper than a snapshot; one message of an ended connection
(`MaxLate = 1`) is enough for a reset or an order to arrive in a later session, two frames ahead
for the stream to be behind, and `MaxWire` bounds only when the next frame is read. Seven orders
and a window of three fill the window twice over. Users are interchangeable, and so are the
connector's orders and the connections, since the code only looks at the prefix of an identifier:
the symmetry sets permute each group. Liveness is checked without symmetry. Books need no bound in
the actions: a book holds an order per identifier at most. Deadlock is checked where the system
never stops; `CHECK_DEADLOCK FALSE` stands in the runs of processes that end: the server, the
validator, the benchmark and the harness.

Fairness. `OrderBook`: `WF_vars(Match)` only; once a call has begun its thread holds the mutex and
waits for nothing until it returns. `ApiServer`: each connection's messages are read in turn by the
io thread, and the process goes on; nothing of clients. `BinanceConnector`: the script goes on, the
engine executes or drops what it has received; nothing of the exchange, of users, of connections or
of restarts, and `CatchesUp` asks what happens once these are quiet. `PerfClient`: each task of the
event loop runs when it can, and the server answers while connected. `RunAll`: the harness goes on
except where it waits for the validator's user, and its children do what they have been asked to.

## Where the code and its documentation disagree

- **fok** (`order_book.cpp:541`). The dry run counts every maker within the limit that STP does not
  block; the sweep stops at the first level that keeps a blocked maker. A Binance FOK order can pass
  the dry run, trade in part or not at all, and rest. `README.md:23` says such an order "is killed
  instantly without generating trades". The connector sends only limit orders, so this takes
  another client that uses the prefix. For users the property holds (`UserFokFills`).
- **depth_replacement** (`matching_engine.cpp:47`). A market, IOC or FOK order that reuses the
  identifier of an order below the best price removes it unseen; `explanations/matching_engine.md:15`
  says the depth callback is triggered when the depth changes. The same goes for a Binance FOK order
  that passes its dry run, meets only orders it must not trade with, and rests below the best price.
  `DepthMissesOnlyOneOrder` proves that there is no third case.

Other divergences met while modelling are not runs of their own; the property named with each says
exactly how far the code goes:

- `order_book.cpp:220`: a Binance order stops at a level with a blocked maker although deeper levels
  within its limit could fill it, and may rest crossed with a user; `explanations/order_book.md:17`
  says it trades until filled or until the price boundary. `SweepIsComplete` has the exception.
- `matching_engine.cpp:117`: a reset empties every book and sends nothing;
  `explanations/matching_engine.md:14` says the BBO callback is triggered when the BBO changes.
  `OnlyResetIsSilent` proves it the only such call.
- `binance_connector.py:27`: a failed reset is printed and forgotten, so a session may start on the
  orders of the last one; `:22` and `:135` promise a clean start. `NothingBeyondLastRead` and
  `UntrackedAreCancelled` therefore speak of sessions after a clean reset.
- `interactive_test.py:173`: the prediction has one trade per level and the engine one per order, so
  a level with two orders makes the validator report a deviation of a correct engine; `:27` says it
  replicates the engine's rules, and `:190` that a mismatch is the engine's. `FailuresAreExplained`
  has the case.
- `interactive_test.py:36`: the prediction reads six decimals and the engine trades doubles. A limit
  buy at 0.0000122 is predicted to trade with a level at 0.00001234, which is shown as 0.000012, and
  does not; a FOK order for 1.0000004 on a level of 1.0000004, shown as 1.000000, is predicted to be
  killed and fills. Both are reported as the engine's mistakes. `Exact` in `FailuresAreExplained`
  and `PredictsEachLevel` is this exception.
- `api_server.cpp:90`, `:225`: the clock's identifiers are not kept from repeating or from being a
  client's, so an order may replace another client's. `OrdersAreKept` has the exception.
- `run_all.py:40`: the connector is started before the `try` whose `finally` stops the children; when
  `uv` cannot be run the engine is left running, although `README.md:149` promises to shut down all
  services on exit. `ServicesEnd` assumes that both were started.
- `api_server.cpp:261`: an error whose text cannot be dumped throws from the catch block and ends the
  thread that serves all clients while `main` waits for a signal; `RequestsAreAnswered` ends there.

## Proofs

Each table lists what holds of every behaviour, for all values of the constants that satisfy the
assumptions named. The runs evaluate the assumptions.

### The order book

`OrderBookProofs`, for any set of identifiers, of integer prices and of integer quantities
(`IdAssumption`, `NumberAssumption`, and `NoOrderAssumption`: the absence of an order is not one):

| Theorem | Property |
|---|---|
| `TypeCorrect` | `TypeOK` |
| `IndexAlwaysConsistent` | `IndexConsistent` |
| `CallsStayConsistent` | `CallConsistent`, `SweepPosition` |
| `SweepsAreComplete` | `SweepIsComplete` |
| `UsersAreNeverCrossed` | `UsersNeverCross` |
| `TotalsAreExact` | `TotalsExact` |
| `UserFokOrdersFill` | `UserFokFills` |
| `OnlyLimitOrdersEverRest` | `OnlyLimitOrdersRest` |
| `FillsFollowPriority` | `PriceTimePriority` |
| `ListsAreFifo` | `QueuesAreFifo` |
| `OrdersOnlyShrink` | `RestingOrdersOnlyShrink` |

The inductive invariant `IInv` adds three facts to those the run checks: a replaced order is gone
before its successor is matched (`CallConsistent`), finitely many orders rest (`LiveIsFinite`), and
what the dry run of a user's order counted still covers the order during its sweep (`FokCovered`).
They lean on each other. That a sweep ends complete (`SweepIsComplete`) needs to know where it stood:
at the best level, behind blocked makers only (`SweepPosition`). That the best level has the best
order needs the maps and lists to hold every live order (`IndexConsistent`), which in turn needs the
taker to be out of the book when it comes to rest (`CallConsistent`). That users never cross follows
when a user's remainder rests: nothing blocks a user, so a complete sweep left nothing within its
limit. `UserFokFills` follows from both: what the dry run counted covers what is left of the order
(`FokCovered`, through each fill by `FillTakesFromFillable`), and a complete sweep has left none of
it. Only then is it known what may rest (`OnlyLimitOrdersRest`).

The proofs go by the disjuncts of `Next` (`Steps`). The lemmas on `RemoveAt` and `Append` say what
erasing from and queueing in a list of distinct identifiers does; `EraseKeepsIndex`,
`AppendKeepsIndex` and `ResizeKeepsIndex` carry them to the index, and `EraseKeepsTotals`,
`AppendKeepsTotals` and `ResizeKeepsTotals` to the totals; fills, cancellations, replacements and
modifications all use them. `ListStep` says how any step may change one list, and `FifoStep` needs
no more.

### The refinement

The second half of `OrderBookProofs`, with the same assumptions:

| Theorem | Property |
|---|---|
| `Refines` | `ImplementsPriorityBook` |

So the loops of `order_book.cpp`, with their iterators, erasures and early ends, answer every call
with the fills of the closed form and leave its book, for any identifiers, prices and quantities.
Every step of `OrderBook` is shown to be a step of `PriorityBook` or a stutter (`StepSimulates`); a
call takes effect when it begins, each loop iteration is a stutter, and the end of the call is
`Answer`. The invariant is `RInv`: the `IInv` above, and that nothing is recorded as traded before
the sweep (`NoTradesYet`), so that what a call answers is its own. The argument has three parts.

- The queues. The mapping reads a side as one sequence, the code changes one element of one list,
  and there is no induction to relate them. Instead, a sequence of distinct entries in priority is
  determined by which entries it has (`ListedOneWay`: matching their entries is increasing, and two
  sets of positions so matched count alike up to any of them), and the queue of a side is that
  sequence (`PriorityLists`). A step therefore changes a queue as it changes the set of resting
  orders: one is gone (`GoneFromStanding`), has less left (`ResizedInStanding`), or has joined
  behind all at its price (`JoinedStanding`).
- One fill. By `SweepPosition` the maker of a fill is the first that the rules reach
  (`FirstIsMaker`), and the fill takes all of it or all of the taker. Either way the outcome of the
  closed form is that fill followed by the outcome of what is left, on the book as the fill leaves
  it, and both end in the same book (`PeelWhole` and `PeelPart` of `PriorityRulesProofs`, carried
  over by `FillPeels`). That is what makes the prediction stand from one iteration to the next.
- The ends. A sweep that stops reaches nothing more (`NothingIsReached`), so what it does with the
  remainder is what the closed form does with an order that meets no maker (`LeftBehind`). The dry
  run counts what `Countable` does, although one sums over identifiers and the other
  over positions (`CountedAlike`), so it decides as `Passes` does (`DryRunPasses`).

### Sums and ranks

`PriorityRulesProofs` begins with what the libraries lack. Sums over a finite set, which the models
write with `SumFunction`, are shown to exist by taking a smallest subset without one (`SumsExist`),
so that no induction is needed; then they split, change, rename and subtract as sums do.
`PricesAreRanked` says that the prices of a side have the ranks 1 to their number, each once. A
subsequence that is chosen by positions is determined by which they are (`ChosenIsAligned`,
`ChosenAligned`), which is how a queue, the fills of a sweep and what it leaves are compared with
those of another book.

Then it has what the closed form does to a book: an order leaves, comes and is reduced as it should
(`WithoutAccounts`, `SubmittedAccounts`, `ReducedAccounts`), what a maker loses is what the fills
say it gave (`SettleAccounts`, from `AllotmentGives`: the allotment gives no maker more than it
has), a submission that is no limit order and fills nothing takes away the order it replaces and
adds one only if it is a Binance FOK order (`SilentSubmission`), and the first maker a submission
reaches may be served in a submission of its own (`PeelWhole` when it is used up, `PeelPart` when it
is not).

### The manager

`MatchingEngineProofs`, for any symbols, orders, depth and resolution (`FeedAssumption`,
`NumberAssumption`):

| Theorem | Property |
|---|---|
| `FeedTypes` | `TypeOK` |
| `BboFeedAlwaysCurrent` | `BboFeedIsCurrent` |
| `FeedsAlwaysAgree` | `FeedsAgree` |
| `ResetAloneIsSilent` | `OnlyResetIsSilent` |
| `DepthMissesOneOrder` | `DepthMissesOnlyOneOrder` |
| `TradeFeedAlwaysAccounts` | `TradeFeedAccounts` |

Neither feed is right by itself: a call that sends nothing keeps them right only because it left
the BBO as it was and the last messages were right before it. So the invariant `IInv`
(`FeedInvariant`) has both, with the fact that books hold typed orders (`Books`). Two lemmas say what
messages are worth: a book that holds an order has a BBO unlike that of an empty one
(`BboShowsOrders`; without it a silent call could fill a book that a reset emptied), and a depth
message begins with the BBO (`DepthBeginsWithBbo`). `EveryCallIsGood` reduces `Next` to one kind of
step: a call that makes a book of a book, sends the BBO when it changes it, and changes every order
but the one it is about by what its fills say. `CallMissesOnlyOneOrder` and `CallAccounts` follow it
to the feeds. `TradeFeedAccounts` counts over all books at once, so it also says that a call on one
symbol leaves the books of the others alone, although they may hold the same identifiers; the runs
have one symbol, the theorem any number.

### The server

`ApiServerProofs`, for any connections, names and requests (`NamesAssumption`,
`SubmissionAssumption`, `FailuresAssumption`):

| Theorem | Property |
|---|---|
| `ServerTypes` | `ServerTypeOK` |
| `ListenersAlwaysCurrent` | `ListenersAreCurrent` |
| `TradesAlwaysReachListeners` | `TradesReachListeners` |
| `OrdersAreAlwaysKept` | `OrdersAreKept` |
| `AnswersAlwaysTellFills` | `AnswersTellFills` |

The invariant `SInv` (`ServerInvariant`) contains the manager's: every step of the server is one
of the manager's calls with its broadcasts, a query, a reset, or leaves the books alone
(`StepKinds`). What a client has heard was sent while it was in its set, so `Sets` has to say that an
open connection is in the set of its path until its loss is noticed. Whoever has heard no BBO of a
book is promised nothing; a call that sends one sends the depth as well, and a call that sends none
leaves the BBO as it was (`CallKeeps`). `Named` has orders rest
under names that submissions have had, so an order under a name that none has had replaces nothing
(`RestingIsUsed`): that is all `OrdersAreKept` can promise of the clock, and nothing is assumed of
it. `LossIsTold` says once what a step that takes from an order it is not about has told: the feed
exactly, the listeners and the client up to rounding, fill by fill (`ToldIsNear`, from `TextIsNear`
and `SumsNear`). A request whose answer failed told nobody, and no other kind of answer leaves
fills out.

### The connector

`BinanceConnectorProofs`, for any books of the exchange, depths and bounds (`ExchangeAssumption`,
`DepthAssumption`, `BoundAssumption`, and `PriceAssumption`: prices are finitely many integers, as
doubles are finitely many numbers):

| Theorem | Property |
|---|---|
| `ConnectorTypes` | `TypeOK` |
| `MirrorAlwaysFollows` | `WireMirrorsLastRead` |
| `MirrorNeverExceeds` | `NothingBeyondLastRead` |
| `SessionKnowsItsOrders` | `UntrackedAreCancelled` |

None of the three promises is inductive: each leaves open what `active_orders` holds of the levels
that are listed, on which the next frame's cancellations depend. The invariant `CInv`
(`ConnectorInvariant`) says of every key of a session that listens (`Mirrors`): what is listed is
tracked; the last message about the key, if there is one, asks for what was last read, and cancels
if the key is not tracked; and without a message what rests is what was read, unless somebody
disturbed it. A frame says something of every key that is tracked or listed (`SyncSays`), which
becomes the last message about it (`AppendedLast`); of the other keys nothing was listed, so nothing
has to be said. Until the snapshot is posted (`Starting`) nothing is under way and what rests is
disturbed; a clean session then has nothing resting and nothing late (`Clean`). `Connections` says
what a loss or a restart leaves.

### The validator

`TradeValidatorProofs`, for any orders of others, integer prices and quantities, any depth, any
resolution of the text and any late orders (`OwnAssumption`: the user's order is new and no Binance
order; `NumberAssumption`):

| Theorem | Property |
|---|---|
| `PredictionsHold` | `PredictsEachLevel` |
| `FailuresHaveCauses` | `FailuresAreExplained` |

The script walks over levels, each a price and a total, and takes from one after another until the
order is filled or a level is beyond its limit. The engine allots to orders, and the order of a queue
is the only thing that tells it of levels. Both are shown to trade at a price `LevelShare`: nothing
if the price is beyond the limit, otherwise what the better prices leave of the order, up to what
the orders at this price hold.

- The script. `Walk` is a fold, which TLA+ defines by the recursion a `CHOOSE` solves. `WalkStages`
  has the solution exist (a smallest set of levels without one is no such set) and gives the
  state after each level; `WalkIs` says what that state is, with `EveryOne` in the place of an
  induction over the levels. A depth that is not cut off and shows each level exactly has every price of a queue with its total,
  best first (`DepthShows`, by `PricesAreRanked`; `ShownIsNear` bounds what a text is off by), and the levels up to one hold what the orders at prices
  better than the next do (`UpToLevelWanted`), so the walk trades `LevelShare` (`PredictedShare`) and
  fills the order when the orders within its limit can (`WalkFills`).
- The engine. Nothing blocks the user's order, so it reaches all orders that are not beyond its limit
  (`ReachesAll`). Those before a given one are the better prices and the earlier orders at its own
  price (`TakenBefore`); this needs the queue to be in the order of prices, which every submission
  and cancellation of others keeps (`SubmittedInOrder`, `WithoutInOrder`). Orders that take their
  shares in turn have taken the share of their sum (`SharesAddUp`): `GivenAtPrice`, `EngineTrades`.
- FOK. What the engine counts before it passes an order is what `WalkFills` is about, so either both
  trade nothing or both trade as an IOC order would (`ScriptPredicts`), orders for nothing or less
  included.

The answer is text as well. Where prices are exact it has the price of each fill and its quantity
up to half a text (`AnswerReads`), so the total at a price is off by half a text for each fill
(`ReadTotals`). The invariant `VInv` (`ValidatorInvariant`) carries to the comparison that there are
trades with the expected totals from which the answer is read (`Foreseen`, by `PlacedAsForeseen`).
The prediction has one trade for each price (`PredictedOnce`). When what the engine traded has
so too, both lists sort by price alone: the place of a trade is the number of prices up to its own
(`PlaceIs`, `SamePlace`), equal places have equal prices, and the quantities differ by half a text at
most, which is within either `delta` (`NoDifference`). When it has not, that is the last cause of
`FailuresAreExplained`.

### The benchmark and the harness

`PerfClientProofs` proves `WindowIsKept` and `ReportIsComplete` (`WindowAlwaysKept`,
`ReportsAreComplete`) for any number of orders and any window (`SizeAssumption`); its invariant
adds that what is timed is what has had a permit (`Timed`) and which task has ended (`Stage`).
`RunAll` itself ends with the proof of `NothingOutlivesCleanUp` (`CleanUpIsComplete`); its invariant adds that the
wait for the connector follows the engine's end, and that an ended process stays so.

### Only model-checked

Every liveness property (`CallsReturn`, `RequestsAreAnswered`, `EndsOnSignal`, `CatchesUp`,
`LossIsNoticed`, `EndsUnlessStuck`, `ServicesEnd`) is out of the prover's reach. The two properties
that TLC finds violated, `FokFillsOrKills` and `DepthSentOnEveryChange`, are no theorems. Every
other property of every run is proved.

## Plan

Done: every component with a decision of its own; proofs of every safety property of the book, the
manager, the server, the connector, the validator, the benchmark and the harness; and the proof
that the book implements its closed form, which is the book the manager, the server and the
validator are built on. Left: two symbols in one connector session.

## Not modelled

- The logger, the demo client, the C++ tests, the build and the vendored JSON library: no state
  another part reads.
- JSON, HTTP routing and headers, ISO time stamps, the layout of messages: data that no property tells
  apart, the six decimals of prices and quantities excepted. That a value cannot be parsed or dumped
  is a request that fails.
- Floating point. Prices and quantities are integers, and so is the smallest amount their text
  shows; what rounding does to sums of doubles that should cancel is out of reach of TLC and of the
  provers. A level whose total, summed in doubles, is not the number of its text is a rounded level
  to the validator.
- Modifications to a negative quantity (`order_book.cpp:63`): no endpoint calls `modify_order`.
- `get_active_symbols` of the connector, and sessions of more than one symbol: the symbols share
  both connections but no order.
- The growth of the registry of books by calls that name new symbols: nothing bounds it, so there is
  no promise to check.
- Whose engine answers on the port of the harness, what `uv run` does with signals, a SIGTERM to
  the harness, and a KeyboardInterrupt inside a statement rather than between two.
