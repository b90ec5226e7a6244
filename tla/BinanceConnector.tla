-------------------------- MODULE BinanceConnector --------------------------
(* scripts/binance_connector.py: it mirrors the exchange's best levels as    *)
(* orders in the engine.  One symbol; an order is known by its side and      *)
(* price, which is what get_order_id makes its identifier of.  Of the engine *)
(* this module keeps the connector's own orders: a submission replaces the   *)
(* order of its identifier, never trades with another Binance order and may  *)
(* trade with users' orders, and users take the best order first, which is   *)
(* what OrderBook shows of order_book.cpp.                                   *)
EXTENDS Models, FiniteSets, SequencesExt, Bags

CONSTANTS
  Prices,
  ExchangeBooks,   \* books of the exchange: side -> listed price -> quantity
  SnapshotDepth,   \* the levels per side of a REST snapshot, 5 in the code
  FrameDepth,      \* the levels per side of a frame of the stream, 10
  MaxFrames,       \* bound: frames the exchange sends ahead of the connector
  MaxWire,         \* bound: messages under way when a frame is sent
  MaxLate          \* bound: messages of ended connections under way

Key == Side \X Prices

ASSUME DepthAssumption == SnapshotDepth \in Nat /\ FrameDepth \in Nat

(* The bounds bound something. *)
ASSUME BoundAssumption == MaxFrames \in Nat /\ MaxWire \in Nat /\ MaxLate \in Nat

(* Prices are doubles: there are finitely many. *)
ASSUME PriceAssumption == Prices \subseteq Int /\ IsFiniteSet(Prices)

ASSUME ExchangeAssumption ==
  \A b \in ExchangeBooks : \A s \in Side :
    DOMAIN b[s] \subseteq Prices /\ \A p \in DOMAIN b[s] : b[s][p] \in Nat

VARIABLES
  exchange,        \* the exchange's book
  frames,          \* frames the exchange has sent and the connector not read
  pc,              \* where sync_websocket_deltas stands
  linked,          \* engine_ws is connected
  active_orders,   \* the keys of the orders this session has posted
  wire,            \* messages on engine_ws the engine has not executed
  late,            \* the same, of connections that are gone: a bag
  engine_up,       \* the engine runs
  resting,         \* key -> what is left of its order in the engine, 0: none
  mirrored,        \* what this session last read of the exchange
  clean,           \* the latest reset was executed and overtook nothing
  disturbed        \* keys whose order was last changed by anything but this session

connector == <<pc, linked, active_orders, mirrored, clean>>
engine    == <<engine_up, resting, disturbed>>
vars == <<exchange, frames, connector, wire, late, engine>>

Nothing   == [s \in Side |-> <<>>]
NoOrders  == [k \in Key |-> 0]

(* The n best levels of each side. *)
Shown(b, n) ==
  [s \in Side |->
     Restrict(b[s], {p \in DOMAIN b[s] :
                       Cardinality({q \in DOMAIN b[s] : Before(s, q, p)}) < n})]

Listed(levels, key) ==
  IF key[2] \in DOMAIN levels[key[1]] THEN levels[key[1]][key[2]] ELSE 0

InSession == pc \in {"snapshot", "post", "listen"}

-----------------------------------------------------------------------------
(* Messages to the engine *)

submit(side, price, qty) == [action |-> "submit", key |-> <<side, price>>, quantity |-> qty]
cancel(side, price)      == [action |-> "cancel", key |-> <<side, price>>, quantity |-> 0]

BestFirst(side, prices) ==
  [k \in 1 .. Cardinality(prices) |->
     CHOOSE p \in prices : Cardinality({q \in prices : Before(side, q, p)}) + 1 = k]

(* Every level of a snapshot is posted, an empty one too. *)
Post(side, levels) ==
  LET prices == BestFirst(side, DOMAIN levels[side])
  IN  [k \in DOMAIN prices |-> submit(side, prices[k], levels[side][prices[k]])]

(* Fault: what the new frame no longer lists is left alone. *)
SyncWithoutStale(side, levels) ==
  LET prices == BestFirst(side, {p \in DOMAIN levels[side] : levels[side][p] > 0})
  IN  [k \in DOMAIN prices |-> submit(side, prices[k], levels[side][prices[k]])]

(* A frame: what it no longer lists is cancelled; then each level it lists   *)
(* is posted in full, or cancelled when it is empty and was posted.          *)
Sync(side, levels) ==
  LET posted == {p \in Prices : <<side, p>> \in active_orders}
      gone   == BestFirst(side, posted \ DOMAIN levels[side])
      kept   == BestFirst(side, {p \in DOMAIN levels[side] :
                                   levels[side][p] > 0 \/ p \in posted})
  IN  [k \in DOMAIN gone |-> cancel(side, gone[k])] \o
      [k \in DOMAIN kept |->
         IF levels[side][kept[k]] = 0
         THEN cancel(side, kept[k])
         ELSE submit(side, kept[k], levels[side][kept[k]])]

-----------------------------------------------------------------------------
Init ==
  /\ exchange \in ExchangeBooks
  /\ frames = <<>>
  /\ pc = "reset"
  /\ linked = FALSE
  /\ active_orders = {}
  /\ wire = <<>> /\ late = EmptyBag
  /\ engine_up = TRUE
  /\ resting = NoOrders
  /\ mirrored = Nothing
  /\ clean = TRUE
  /\ disturbed = {}

(* Fault: the stream is opened after the snapshot has been read. *)
SubscribedLate == pc = "listen"

(* The stream delivers from the time the session has connected. *)
Subscribed == InSession

(* The exchange's book changes and, when its best levels do, so does the     *)
(* stream.                                                                   *)
Move ==
  /\ exchange' \in ExchangeBooks \ {exchange}
  /\ IF Subscribed /\ Shown(exchange', FrameDepth) # Shown(exchange, FrameDepth)
     THEN /\ Len(frames) < MaxFrames
          /\ frames' = Append(frames, Shown(exchange', FrameDepth))
     ELSE UNCHANGED frames
  /\ UNCHANGED <<connector, wire, late, engine>>

(* Fault: a new session relies on the reset of an earlier one. *)
SkipReset ==
  /\ pc = "reset"
  /\ late = EmptyBag
  /\ pc' = "connect"
  /\ UNCHANGED <<exchange, frames, linked, active_orders, mirrored, clean, wire, late, engine>>

(* reset_engine: a failure is printed and forgotten.  The request may fail,  *)
(* or time out and be executed later; and orders of the last session may     *)
(* still be under way on its connection.                                     *)
reset_engine ==
  /\ pc = "reset"
  /\ pc' = "connect"
  /\ \/ /\ engine_up
        /\ resting' = NoOrders
        /\ clean' = (late = EmptyBag)
        /\ UNCHANGED late
     \/ /\ clean' = ~ engine_up
        /\ UNCHANGED <<resting, late>>
     \/ /\ engine_up /\ BagCardinality(late) < MaxLate
        /\ late' = late (+) SetToBag({[action |-> "reset"]})
        /\ clean' = FALSE
        /\ UNCHANGED resting
  /\ UNCHANGED <<exchange, frames, linked, active_orders, mirrored, wire, engine_up, disturbed>>

connect ==
  /\ pc = "connect"
  /\ engine_up
  /\ pc' = "snapshot"
  /\ linked' = TRUE
  /\ active_orders' = {}
  /\ mirrored' = Nothing
  /\ disturbed' = {k \in Key : resting[k] > 0}
  /\ UNCHANGED <<exchange, frames, clean, wire, late, engine_up, resting>>

(* Fault: a send on a lost connection is ignored. *)
NeverRaises(messages) == FALSE

(* A send on a lost connection raises.  Nothing else notices that the engine *)
(* is gone: drain_responses swallows it.                                     *)
Raises(messages) == ~ linked /\ messages # <<>>

Counted(messages) ==
  [m \in ToSet(messages) |-> Cardinality({i \in DOMAIN messages : messages[i] = m})]

(* What a connection leaves under way when it ends: the messages on it up to *)
(* any point.                                                                *)
Outlasting ==
  {late (+) Counted(SubSeq(wire, 1, n)) :
     n \in {n \in 0 .. Len(wire) : BagCardinality(late) + n <= MaxLate}}

(* Fault: frames of the old stream are read by the next session. *)
EndSessionKeepingFrames ==
  /\ pc' = "retry"
  /\ linked' = FALSE
  /\ late' = late /\ wire' = <<>>
  /\ UNCHANGED <<frames, active_orders, mirrored, clean>>

(* The session ends with an exception. *)
EndSession ==
  /\ pc' = "retry"
  /\ linked' = FALSE
  /\ frames' = <<>>
  /\ late' \in Outlasting
  /\ wire' = <<>>
  /\ UNCHANGED <<active_orders, mirrored, clean>>

(* The snapshot is one request, and posting it takes time. *)
get_snapshot ==
  /\ pc = "snapshot"
  /\ mirrored' = Shown(exchange, SnapshotDepth)
  /\ pc' = "post"
  /\ UNCHANGED <<exchange, frames, linked, active_orders, clean, wire, late, engine>>

post_snapshot ==
  /\ pc = "post"
  /\ LET messages == Post(BUY, mirrored) \o Post(SELL, mirrored)
     IN  \/ /\ ~ Raises(messages)
            /\ wire' = wire \o messages
            /\ active_orders' = active_orders \cup
                 {k \in Key : k[2] \in DOMAIN mirrored[k[1]]}
            /\ pc' = "listen"
            /\ UNCHANGED <<frames, linked, mirrored, clean, late>>
         \/ Raises(messages) /\ EndSession
  /\ UNCHANGED <<exchange, engine>>

load_rest_snapshots == get_snapshot \/ post_snapshot

(* Fault: an order that is posted again drops out of the map. *)
TrackOnlyNew(levels) == {k \in Key : Listed(levels, k) > 0} \ active_orders

(* The orders that are posted once a frame has been gone through. *)
Track(levels) == {k \in Key : Listed(levels, k) > 0}

(* One frame: every message about it, bids before asks.                      *)
SyncFrame ==
  /\ pc = "listen"
  /\ frames # <<>>
  /\ Len(wire) <= MaxWire
  /\ LET levels   == Head(frames)
         messages == Sync(BUY, levels) \o Sync(SELL, levels)
     IN  \/ /\ ~ Raises(messages)
            /\ wire' = wire \o messages
            /\ active_orders' = Track(levels)
            /\ mirrored' = levels
            /\ frames' = Tail(frames)
            /\ UNCHANGED <<pc, linked, clean, late>>
         \/ Raises(messages) /\ EndSession
  /\ UNCHANGED <<exchange, engine>>

(* The connection to the exchange is lost, or a snapshot request fails.      *)
LoseExchange == InSession /\ EndSession /\ UNCHANGED <<exchange, engine>>

(* Connecting fails, whichever side refuses. *)
FailToConnect ==
  /\ pc = "connect"
  /\ pc' = "retry"
  /\ UNCHANGED <<exchange, frames, linked, active_orders, mirrored, clean, wire, late, engine>>

Retry ==
  /\ pc = "retry"
  /\ pc' = "reset"
  /\ UNCHANGED <<exchange, frames, linked, active_orders, mirrored, clean, wire, late, engine>>

-----------------------------------------------------------------------------
(* The engine *)

(* An order replaces the one of its key; resting users may fill it on        *)
(* arrival, in part or entirely.                                             *)
Execute(m) ==
  \E left \in IF m.action = "submit" THEN 0 .. m.quantity ELSE {0} :
    /\ resting' = [resting EXCEPT ![m.key] = left]
    /\ disturbed' = IF left = m.quantity THEN disturbed \ {m.key}
                    ELSE disturbed \cup {m.key}

ExecuteWire ==
  /\ wire # <<>> /\ linked
  /\ Execute(Head(wire))
  /\ wire' = Tail(wire)
  /\ UNCHANGED <<exchange, frames, connector, late, engine_up>>

(* Several connections may have ended: their messages come in any order.     *)
ExecuteLate ==
  /\ \E m \in BagToSet(late) :
       /\ late' = late (-) SetToBag({m})
       /\ IF m.action = "reset"
          THEN resting' = NoOrders /\ disturbed' = Key
          ELSE \E left \in 0 .. m.quantity :
                 /\ resting' = [resting EXCEPT ![m.key] = left]
                 /\ disturbed' = disturbed \cup {m.key}
  /\ UNCHANGED <<exchange, frames, connector, wire, engine_up>>

DropLate ==
  /\ late # EmptyBag
  /\ late' = EmptyBag
  /\ UNCHANGED <<exchange, frames, connector, wire, engine>>

(* A user takes from the best order of a side. *)
UserTakes ==
  /\ \E k \in Key :
       /\ resting[k] > 0
       /\ \A p \in Prices : Before(k[1], p, k[2]) => resting[<<k[1], p>>] = 0
       /\ \E left \in 0 .. resting[k] - 1 : resting' = [resting EXCEPT ![k] = left]
       /\ disturbed' = disturbed \cup {k}
  /\ UNCHANGED <<exchange, frames, connector, wire, late, engine_up>>

(* The connection to the engine is lost, which nobody notices yet. *)
LoseEngine ==
  /\ linked
  /\ linked' = FALSE
  /\ late' \in Outlasting
  /\ wire' = <<>>
  /\ UNCHANGED <<exchange, frames, pc, active_orders, mirrored, clean, engine>>

(* The engine keeps nothing across a restart. *)
EngineStops ==
  /\ engine_up
  /\ engine_up' = FALSE
  /\ linked' = FALSE
  /\ wire' = <<>> /\ late' = EmptyBag
  /\ resting' = NoOrders
  /\ UNCHANGED <<exchange, frames, pc, active_orders, mirrored, clean, disturbed>>

EngineStarts ==
  /\ ~ engine_up
  /\ engine_up' = TRUE
  /\ UNCHANGED <<exchange, frames, connector, wire, late, resting, disturbed>>

ResetFails == reset_engine /\ ~ clean'

Disturbance ==
  Move \/ LoseExchange \/ FailToConnect \/ ResetFails \/ UserTakes \/ LoseEngine \/ EngineStops

Connector == reset_engine \/ connect \/ load_rest_snapshots \/ SyncFrame \/ Retry

Next ==
  \/ Disturbance
  \/ Connector
  \/ ExecuteWire \/ ExecuteLate \/ DropLate
  \/ EngineStarts

Spec == Init /\ [][Next]_vars

(* The script goes on as long as it can, and the engine executes what it has *)
(* received.  Nothing is assumed of the exchange, of users, or of restarts.  *)
FairSpec ==
  Spec /\ WF_vars(Connector) /\ WF_vars(ExecuteWire) /\ WF_vars(ExecuteLate \/ DropLate)

-----------------------------------------------------------------------------
(* What the mirror promises *)

(* The quantity a key will have when the wire has been executed. *)
Pending(k) == {i \in DOMAIN wire : wire[i].key = k}
Drained(k) == IF Pending(k) = {} THEN resting[k] ELSE wire[Max(Pending(k))].quantity

Mirroring == pc = "listen" /\ linked

(* The variables keep their types and what is on a connection belongs to it. *)
TypeOK ==
  /\ exchange \in ExchangeBooks
  /\ Len(frames) <= MaxFrames /\ (frames # <<>> => InSession)
  /\ pc \in {"reset", "connect", "snapshot", "post", "listen", "retry"}
  /\ linked => engine_up /\ InSession
  /\ ~ linked => wire = <<>>
  /\ active_orders \subseteq Key /\ disturbed \subseteq Key
  /\ DOMAIN resting = Key /\ \A k \in Key : resting[k] \in Nat

(* Once what is under way has been executed the engine holds, level by       *)
(* level, what the connector last read of the exchange: only a level that    *)
(* somebody else changed since then may differ, and only until the next      *)
(* message about it.                                                         *)
WireMirrorsLastRead ==
  Mirroring => \A k \in Key :
    Drained(k) = Listed(mirrored, k) \/ (k \in disturbed /\ Pending(k) = {})

(* Through failures of either connection and restarts of the engine, no      *)
(* order of an earlier session survives into one that follows a clean reset, *)
(* and the engine never ends up offering more than the connector read.       *)
NothingBeyondLastRead ==
  Mirroring /\ clean => \A k \in Key : Drained(k) <= Listed(mirrored, k)

(* An order in the engine that a session after a clean reset does not track  *)
(* is about to be cancelled: the session can take back all it has posted.    *)
UntrackedAreCancelled ==
  Mirroring /\ clean => \A k \in Key :
    resting[k] > 0 /\ k \notin active_orders =>
      Pending(k) # {} /\ wire[Max(Pending(k))].action = "cancel"

(* If from some time on the exchange, the users and the connections are      *)
(* quiet, the engine ends up with levels the exchange has, as deep as the    *)
(* last message about them, or there is no session after a clean reset.      *)
CaughtUp ==
  Mirroring /\ clean => \E n \in {SnapshotDepth, FrameDepth} : \A k \in Key :
    LET offered == Listed(Shown(exchange, n), k)
    IN  IF k \in disturbed THEN resting[k] <= offered ELSE resting[k] = offered

CatchesUp == <>[][~ Disturbance]_vars => <>[]CaughtUp

(* As long as the exchange keeps moving, a lost engine is noticed: a session *)
(* that is not linked does not go on forever.                                *)
LossIsNoticed ==
  []<><<Move /\ frames' # frames>>_vars => []<>(pc # "listen" \/ linked)
=============================================================================
