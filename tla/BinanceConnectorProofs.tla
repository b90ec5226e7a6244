----------------------- MODULE BinanceConnectorProofs -----------------------
(* What the mirror of BinanceConnector is worth, for any exchange, any       *)
(* depths and any bounds.                                                    *)
EXTENDS BinanceConnector, PriorityRulesProofs

(* Messages on a connection; a cancellation asks for nothing. *)
Message ==
  {m \in [action : {"submit", "cancel"}, key : Key, quantity : Nat] :
     m.action = "cancel" => m.quantity = 0}

(* What the connector may read of a book. *)
Views ==
  {Nothing} \cup {Shown(b, n) : b \in ExchangeBooks, n \in {SnapshotDepth, FrameDepth}}

Types ==
  /\ exchange \in ExchangeBooks
  /\ mirrored \in Views
  /\ frames \in Seq(Views) /\ Len(frames) <= MaxFrames
  /\ wire \in Seq(Message)
  /\ DOMAIN late \subseteq Message \cup {[action |-> "reset"]}
  /\ resting \in [Key -> Nat]
  /\ active_orders \subseteq Key /\ disturbed \subseteq Key
  /\ linked \in BOOLEAN /\ engine_up \in BOOLEAN /\ clean \in BOOLEAN
  /\ pc \in {"reset", "connect", "snapshot", "post", "listen", "retry"}

(* What is on a connection belongs to it, and an engine that is down holds   *)
(* nothing.                                                                  *)
Connections ==
  /\ frames # <<>> => InSession
  /\ linked => engine_up /\ InSession
  /\ ~ linked => wire = <<>>
  /\ ~ engine_up => resting = NoOrders /\ late = EmptyBag

(* After a clean reset nothing rests but what the session brings. *)
Clean ==
  /\ clean /\ (pc = "connect" \/ linked) => late = EmptyBag
  /\ clean /\ (pc = "connect" \/ (linked /\ pc # "listen")) => resting = NoOrders

(* Until the snapshot is posted, what rests is not this session's. *)
Starting ==
  linked /\ pc # "listen" =>
    /\ wire = <<>>
    /\ \A k \in Key : resting[k] = 0 \/ k \in disturbed

IsLast(k, i) == i \in Pending(k) /\ \A j \in Pending(k) : j <= i

(* The last message about a key asks for what was read, and so does what     *)
(* rests when there is none; what is listed is tracked, and the last message *)
(* about a key that is not is a cancellation.                                *)
Mirrors(k) ==
  /\ Listed(mirrored, k) > 0 => k \in active_orders
  /\ \A i : IsLast(k, i) =>
       /\ wire[i].quantity = Listed(mirrored, k)
       /\ k \notin active_orders => wire[i].action = "cancel"
  /\ Pending(k) = {} =>
       /\ resting[k] = Listed(mirrored, k) \/ k \in disturbed
       /\ clean => resting[k] <= Listed(mirrored, k)

Listening == Mirroring => \A k \in Key : Mirrors(k)

CInv == Types /\ Connections /\ Clean /\ Starting /\ Listening

-----------------------------------------------------------------------------
(* Books and messages *)

LEMMA ShownType ==
  ASSUME NEW b \in ExchangeBooks, NEW n, NEW s \in Side
  PROVE  /\ DOMAIN Shown(b, n)[s] \subseteq Prices
         /\ \A p \in DOMAIN Shown(b, n)[s] : Shown(b, n)[s][p] \in Nat
<1>1. DOMAIN b[s] \subseteq Prices /\ \A p \in DOMAIN b[s] : b[s][p] \in Nat
  BY ExchangeAssumption
<1>2. PICK P : P = {p \in DOMAIN b[s] :
                      Cardinality({q \in DOMAIN b[s] : Before(s, q, p)}) < n}
  OBVIOUS
<1>3. Shown(b, n)[s] = Restrict(b[s], P)
  BY <1>2 DEF Shown
<1>4. P \subseteq DOMAIN b[s]
  BY <1>2
<1> QED
  BY <1>1, <1>3, <1>4 DEF Restrict

LEMMA ViewType ==
  ASSUME NEW v \in Views, NEW s \in Side
  PROVE  DOMAIN v[s] \subseteq Prices /\ \A p \in DOMAIN v[s] : v[s][p] \in Nat
<1>1. CASE v = Nothing
  BY <1>1 DEF Nothing
<1>2. CASE \E b \in ExchangeBooks : \E n \in {SnapshotDepth, FrameDepth} : v = Shown(b, n)
  BY <1>2, ShownType
<1> QED
  BY <1>1, <1>2 DEF Views

LEMMA ListedType ==
  ASSUME NEW v \in Views, NEW k \in Key
  PROVE  Listed(v, k) \in Nat
<1>1. k[1] \in Side
  BY DEF Key
<1> QED
  BY <1>1, ViewType DEF Listed

LEMMA BestFirstIs ==
  ASSUME NEW side \in Side, NEW S, S \subseteq Prices
  PROVE  \E n \in Nat : /\ DOMAIN BestFirst(side, S) = 1 .. n
                        /\ \A k \in 1 .. n : BestFirst(side, S)[k] \in S
                        /\ \A p \in S : \E k \in 1 .. n : BestFirst(side, S)[k] = p
<1>1. S \subseteq Int /\ IsFiniteSet(S)
  <2>1. Prices \subseteq Int /\ IsFiniteSet(Prices)
    BY PriceAssumption
  <2>2. IsFiniteSet(S)
    BY <2>1, FS_Subset
  <2> QED
    BY <2>1, <2>2
<1>2. PICK n : n = Cardinality(S)
  OBVIOUS
<1>3. /\ n \in Nat
      /\ \A p \in S : Rank(side, S, p) \in 1 .. n
      /\ \A p, q \in S : Rank(side, S, p) = Rank(side, S, q) => p = q
      /\ \A k \in 1 .. n : \E p \in S : Rank(side, S, p) = k
  <2>1. /\ Cardinality(S) \in Nat
        /\ \A p \in S : Rank(side, S, p) \in 1 .. Cardinality(S)
        /\ \A p, q \in S : Rank(side, S, p) = Rank(side, S, q) => p = q
        /\ \A k \in 1 .. Cardinality(S) : \E p \in S : Rank(side, S, p) = k
    BY ONLY <1>1, PricesAreRanked
  <2> QED
    BY <1>2, <2>1
<1>4. BestFirst(side, S) = [k \in 1 .. n |-> CHOOSE p \in S : Rank(side, S, p) = k]
  BY <1>2 DEF BestFirst, Rank
<1>5. ASSUME NEW k \in 1 .. n
      PROVE  BestFirst(side, S)[k] \in S /\ Rank(side, S, BestFirst(side, S)[k]) = k
  BY <1>3, <1>4
<1>6. ASSUME NEW p \in S
      PROVE  \E k \in 1 .. n : BestFirst(side, S)[k] = p
  <2>1. PICK k \in 1 .. n : k = Rank(side, S, p)
    BY <1>3
  <2> QED
    BY <2>1, <1>3, <1>5
<1> QED
  BY <1>3, <1>4, <1>5, <1>6

(* A sequence of messages says said[k] of the keys in K, and nothing else.   *)
About(messages, K, said) ==
  /\ messages \in Seq(Message)
  /\ \A i \in DOMAIN messages : messages[i].key \in K /\ messages[i] = said[messages[i].key]
  /\ \A k \in K : \E i \in DOMAIN messages : messages[i].key = k

Sayable(said) == \A k \in Key : said[k] \in Message /\ said[k].key = k

LEMMA AboutPrices ==
  ASSUME NEW said, Sayable(said), NEW side \in Side, NEW S, S \subseteq Prices
  PROVE  About([k \in DOMAIN BestFirst(side, S) |-> said[<<side, BestFirst(side, S)[k]>>]],
               {<<side, p>> : p \in S}, said)
<1>1. PICK f : f = BestFirst(side, S)
  OBVIOUS
<1>2. PICK n \in Nat : /\ DOMAIN f = 1 .. n
                       /\ \A k \in 1 .. n : f[k] \in S
                       /\ \A p \in S : \E k \in 1 .. n : f[k] = p
  BY <1>1, BestFirstIs
<1>3. PICK messages : messages = [k \in 1 .. n |-> said[<<side, f[k]>>]]
  OBVIOUS
<1>4. \A p \in S : <<side, p>> \in Key
  BY DEF Key
<1>5. \A k \in 1 .. n : messages[k] \in Message /\ messages[k].key = <<side, f[k]>>
  BY <1>2, <1>3, <1>4 DEF Sayable
<1>6. messages \in Seq(Message) /\ DOMAIN messages = 1 .. n
  <2>1. messages = [k \in 1 .. n |-> messages[k]] /\ \A k \in 1 .. n : messages[k] \in Message
    BY <1>3, <1>5
  <2> QED
    BY <2>1
<1>7. About(messages, {<<side, p>> : p \in S}, said)
  <2>1. ASSUME NEW k \in 1 .. n
        PROVE  /\ messages[k].key \in {<<side, p>> : p \in S}
               /\ messages[k] = said[messages[k].key]
    BY <1>2, <1>3, <1>5
  <2>2. ASSUME NEW p \in S
        PROVE  \E k \in 1 .. n : messages[k].key = <<side, p>>
    BY <1>2, <1>5
  <2>3. PICK K : K = {<<side, p>> : p \in S}
    OBVIOUS
  <2>4. \A k \in 1 .. n : messages[k].key \in K /\ messages[k] = said[messages[k].key]
    BY <2>1, <2>3
  <2>5. \A key \in K : \E k \in 1 .. n : messages[k].key = key
    BY <2>2, <2>3
  <2>6. About(messages, K, said)
    BY ONLY <1>6, <2>4, <2>5 DEF About
  <2> QED
    BY <2>3, <2>6
<1> QED
  BY <1>1, <1>2, <1>3, <1>7

LEMMA AboutBoth ==
  ASSUME NEW said, NEW K, NEW L, NEW m, NEW n, About(m, K, said), About(n, L, said)
  PROVE  About(m \o n, K \cup L, said)
<1>1. m \in Seq(Message) /\ n \in Seq(Message)
  BY DEF About
<1>2. /\ m \o n \in Seq(Message)
      /\ Len(m) \in Nat /\ Len(n) \in Nat /\ DOMAIN m = 1 .. Len(m) /\ DOMAIN n = 1 .. Len(n)
      /\ DOMAIN (m \o n) = 1 .. Len(m) + Len(n)
      /\ \A i \in 1 .. Len(m) + Len(n) :
           (m \o n)[i] = IF i <= Len(m) THEN m[i] ELSE n[i - Len(m)]
  BY <1>1
<1>3. ASSUME NEW i \in DOMAIN (m \o n)
      PROVE  /\ (m \o n)[i].key \in K \cup L
             /\ (m \o n)[i] = said[(m \o n)[i].key]
  <2>1. CASE i <= Len(m)
    <3>1. i \in DOMAIN m /\ (m \o n)[i] = m[i]
      BY <1>2, <1>3, <2>1
    <3> QED
      BY <3>1 DEF About
  <2>2. CASE i > Len(m)
    <3>1. i - Len(m) \in DOMAIN n /\ (m \o n)[i] = n[i - Len(m)]
      BY <1>2, <1>3, <2>2
    <3> QED
      BY <3>1 DEF About
  <2> QED
    BY <1>2, <1>3, <2>1, <2>2
<1>4. ASSUME NEW k \in K
      PROVE  \E i \in DOMAIN (m \o n) : (m \o n)[i].key = k
  <2>1. PICK i \in DOMAIN m : m[i].key = k
    BY <1>4 DEF About
  <2>2. i \in DOMAIN (m \o n) /\ (m \o n)[i] = m[i]
    BY <1>2
  <2> QED
    BY <2>1, <2>2
<1>5. ASSUME NEW k \in L
      PROVE  \E i \in DOMAIN (m \o n) : (m \o n)[i].key = k
  <2>1. PICK i \in DOMAIN n : n[i].key = k
    BY <1>5 DEF About
  <2>2. i + Len(m) \in DOMAIN (m \o n) /\ (m \o n)[i + Len(m)] = n[i]
    BY <1>2
  <2> QED
    BY <2>1, <2>2
<1> QED
  BY <1>2, <1>3, <1>4, <1>5 DEF About

(* Posting a snapshot says its quantity of every level it lists. *)
LEMMA PostSays ==
  ASSUME NEW v \in Views, NEW said,
         said = [k \in Key |-> [action |-> "submit", key |-> k, quantity |-> Listed(v, k)]]
  PROVE  About(Post(BUY, v) \o Post(SELL, v), {k \in Key : k[2] \in DOMAIN v[k[1]]}, said)
<1>1. Sayable(said)
  BY ListedType DEF Sayable, Message
<1>2. ASSUME NEW side \in Side
      PROVE  About(Post(side, v), {<<side, p>> : p \in DOMAIN v[side]}, said)
  <2>1. DOMAIN v[side] \subseteq Prices
    BY ViewType
  <2>2. PICK prices : prices = BestFirst(side, DOMAIN v[side])
    OBVIOUS
  <2>3. PICK n \in Nat : /\ DOMAIN prices = 1 .. n
                         /\ \A k \in 1 .. n : prices[k] \in DOMAIN v[side]
    BY <2>1, <2>2, BestFirstIs
  <2>4. \A p \in DOMAIN v[side] : said[<<side, p>>] = submit(side, p, v[side][p])
    BY <2>1 DEF Key, Listed, submit
  <2>5. Post(side, v) = [k \in DOMAIN prices |-> said[<<side, prices[k]>>]]
    BY <2>2, <2>3, <2>4 DEF Post
  <2> QED
    BY <1>1, <2>1, <2>2, <2>5, AboutPrices
<1>3. PICK bids, asks : /\ bids = {<<BUY, p>> : p \in DOMAIN v[BUY]}
                        /\ asks = {<<SELL, p>> : p \in DOMAIN v[SELL]}
  OBVIOUS
<1>4. BUY \in Side /\ SELL \in Side
  BY DEF Side
<1>5. About(Post(BUY, v) \o Post(SELL, v), bids \cup asks, said)
  <2>1. About(Post(BUY, v), bids, said) /\ About(Post(SELL, v), asks, said)
    BY <1>2, <1>3, <1>4
  <2> QED
    BY <2>1, AboutBoth
<1>6. {k \in Key : k[2] \in DOMAIN v[k[1]]} = bids \cup asks
  <2>1. DOMAIN v[BUY] \subseteq Prices /\ DOMAIN v[SELL] \subseteq Prices
    BY <1>4, ViewType
  <2> QED
    BY <1>3, <2>1 DEF Key, Side
<1> QED
  BY <1>5, <1>6

(* A frame makes an order of every level it lists, and cancels what it does  *)
(* not list or lists as empty among the orders that are tracked.             *)
LEMMA SyncSays ==
  ASSUME NEW v \in Views, active_orders \subseteq Key, NEW said,
         said = [k \in Key |-> [action |-> IF Listed(v, k) = 0 THEN "cancel" ELSE "submit",
                                key |-> k, quantity |-> Listed(v, k)]]
  PROVE  About(Sync(BUY, v) \o Sync(SELL, v),
               {k \in Key : k \in active_orders \/ Listed(v, k) > 0}, said)
<1>1. Sayable(said)
  BY ListedType DEF Sayable, Message
<1>2. ASSUME NEW side \in Side
      PROVE  About(Sync(side, v), {<<side, p>> : p \in {p \in Prices :
                     <<side, p>> \in active_orders \/ Listed(v, <<side, p>>) > 0}}, said)
  <2>1. DOMAIN v[side] \subseteq Prices /\ \A p \in DOMAIN v[side] : v[side][p] \in Nat
    BY ViewType
  <2>2. PICK posted : posted = {p \in Prices : <<side, p>> \in active_orders}
    OBVIOUS
  <2>3. PICK G, K : /\ G = posted \ DOMAIN v[side]
                    /\ K = {p \in DOMAIN v[side] : v[side][p] > 0 \/ p \in posted}
    OBVIOUS
  <2>4. G \subseteq Prices /\ K \subseteq Prices
    BY <2>1, <2>2, <2>3
  <2>5. PICK gone, kept : gone = BestFirst(side, G) /\ kept = BestFirst(side, K)
    OBVIOUS
  <2>6. (\A k \in DOMAIN gone : gone[k] \in G) /\ (\A k \in DOMAIN kept : kept[k] \in K)
    BY <2>4, <2>5, BestFirstIs
  <2>7. \A p \in G : said[<<side, p>>] = cancel(side, p)
    BY <2>3, <2>4 DEF Key, Listed, cancel
  <2>8. \A p \in K : said[<<side, p>>] = IF v[side][p] = 0 THEN cancel(side, p)
                                          ELSE submit(side, p, v[side][p])
    BY <2>3, <2>4 DEF Key, Listed, cancel, submit
  <2>9. Sync(side, v) = [k \in DOMAIN gone |-> cancel(side, gone[k])] \o
          [k \in DOMAIN kept |-> IF v[side][kept[k]] = 0 THEN cancel(side, kept[k])
                                 ELSE submit(side, kept[k], v[side][kept[k]])]
    BY <2>2, <2>3, <2>5 DEF Sync
  <2>10. Sync(side, v) = [k \in DOMAIN gone |-> said[<<side, gone[k]>>]] \o
                         [k \in DOMAIN kept |-> said[<<side, kept[k]>>]]
    <3>1. [k \in DOMAIN gone |-> cancel(side, gone[k])]
            = [k \in DOMAIN gone |-> said[<<side, gone[k]>>]]
      BY <2>6, <2>7
    <3>2. [k \in DOMAIN kept |-> IF v[side][kept[k]] = 0 THEN cancel(side, kept[k])
                                 ELSE submit(side, kept[k], v[side][kept[k]])]
            = [k \in DOMAIN kept |-> said[<<side, kept[k]>>]]
      BY <2>6, <2>8
    <3> QED
      BY <2>9, <3>1, <3>2
  <2>11. About(Sync(side, v), {<<side, p>> : p \in G} \cup {<<side, p>> : p \in K}, said)
    <3>1. /\ About([k \in DOMAIN gone |-> said[<<side, gone[k]>>]],
                   {<<side, p>> : p \in G}, said)
          /\ About([k \in DOMAIN kept |-> said[<<side, kept[k]>>]],
                   {<<side, p>> : p \in K}, said)
      BY <1>1, <2>4, <2>5, AboutPrices
    <3> QED
      BY <2>10, <3>1, AboutBoth
  <2>12. G \cup K = {p \in Prices : <<side, p>> \in active_orders \/ Listed(v, <<side, p>>) > 0}
    BY <2>1, <2>2, <2>3 DEF Listed
  <2>13. {<<side, p>> : p \in G} \cup {<<side, p>> : p \in K} = {<<side, p>> : p \in G \cup K}
    OBVIOUS
  <2> QED
    BY <2>11, <2>12, <2>13
<1>3. PICK bids, asks :
        /\ bids = {<<BUY, p>> : p \in {p \in Prices :
             <<BUY, p>> \in active_orders \/ Listed(v, <<BUY, p>>) > 0}}
        /\ asks = {<<SELL, p>> : p \in {p \in Prices :
             <<SELL, p>> \in active_orders \/ Listed(v, <<SELL, p>>) > 0}}
  OBVIOUS
<1>4. About(Sync(BUY, v) \o Sync(SELL, v), bids \cup asks, said)
  <2>1. BUY \in Side /\ SELL \in Side
    BY DEF Side
  <2>2. About(Sync(BUY, v), bids, said) /\ About(Sync(SELL, v), asks, said)
    BY <1>2, <1>3, <2>1
  <2> QED
    BY <2>2, AboutBoth
<1>5. {k \in Key : k \in active_orders \/ Listed(v, k) > 0} = bids \cup asks
  <2>1. ASSUME NEW side \in Side, NEW p \in Prices
        PROVE  <<side, p>> \in active_orders \/ Listed(v, <<side, p>>) > 0
                 <=> <<side, p>> \in bids \cup asks
    <3>1. CASE side = BUY
      <4>1. <<side, p>> \notin asks
        BY <1>3, <3>1 DEF BUY, SELL
      <4>2. <<side, p>> \in bids <=>
              <<side, p>> \in active_orders \/ Listed(v, <<side, p>>) > 0
        BY <1>3, <3>1
      <4> QED
        BY <4>1, <4>2
    <3>2. CASE side = SELL
      <4>1. <<side, p>> \notin bids
        BY <1>3, <3>2 DEF BUY, SELL
      <4>2. <<side, p>> \in asks <=>
              <<side, p>> \in active_orders \/ Listed(v, <<side, p>>) > 0
        BY <1>3, <3>2
      <4> QED
        BY <4>1, <4>2
    <3> QED
      BY <3>1, <3>2 DEF Side
  <2>2. bids \cup asks \subseteq Key
    <3>1. \A p \in Prices : <<BUY, p>> \in Key /\ <<SELL, p>> \in Key
      BY DEF Key, Side
    <3>2. bids \subseteq Key /\ asks \subseteq Key
      BY <1>3, <3>1
    <3> QED
      BY <3>2
  <2>3. \A k \in Key : \E side \in Side, p \in Prices : k = <<side, p>>
    BY DEF Key
  <2> QED
    BY <2>1, <2>2, <2>3 DEF Key
<1> QED
  BY <1>4, <1>5

-----------------------------------------------------------------------------
(* The last message about a key *)

At(w, k) == {i \in DOMAIN w : w[i].key = k}

LastAt(w, k, i) == i \in At(w, k) /\ \A j \in At(w, k) : j <= i

LEMMA LastExists ==
  ASSUME NEW w \in Seq(Message), NEW k, At(w, k) # {}
  PROVE  LastAt(w, k, Max(At(w, k)))
<1>1. Len(w) \in Nat /\ DOMAIN w = 1 .. Len(w)
  OBVIOUS
<1>2. IsFiniteSet(1 .. Len(w))
  BY <1>1, FS_Interval
<1>3. IsFiniteSet(At(w, k)) /\ At(w, k) \subseteq Int
  BY <1>1, <1>2, FS_Subset DEF At
<1> QED
  BY <1>3, GreatestIs DEF LastAt

Joined(v, w, m) == v = w \o m

(* New messages are the last about the keys they are about, and change       *)
(* nothing for the others.                                                   *)
LEMMA AppendedLast ==
  ASSUME NEW w \in Seq(Message), NEW m, NEW K, NEW said, About(m, K, said), NEW v,
         Joined(v, w, m)
  PROVE  /\ v \in Seq(Message)
         /\ \A k \in K : At(v, k) # {} /\ \A i : LastAt(v, k, i) => v[i] = said[k]
         /\ \A k : k \notin K =>
              /\ At(v, k) = At(w, k)
              /\ \A i : LastAt(v, k, i) => LastAt(w, k, i) /\ v[i] = w[i]
<1>1. m \in Seq(Message)
  BY DEF About
<1>2. PICK n, l : n = Len(w) /\ l = Len(m)
  OBVIOUS
<1>3. /\ v \in Seq(Message)
      /\ n \in Nat /\ l \in Nat /\ DOMAIN w = 1 .. n /\ DOMAIN m = 1 .. l
      /\ DOMAIN v = 1 .. n + l
      /\ \A i \in 1 .. n + l : v[i] = IF i <= n THEN w[i] ELSE m[i - n]
  BY <1>1, <1>2 DEF Joined
<1>4. ASSUME NEW k \in K
      PROVE  \E i \in At(v, k) : i > n
  <2>1. PICK j \in 1 .. l : m[j].key = k
    BY <1>3 DEF About
  <2>2. j + n \in 1 .. n + l /\ ~ (j + n <= n) /\ j + n - n = j
    BY <1>3
  <2>3. v[j + n] = m[j]
    BY <1>3, <2>2
  <2>4. j + n \in At(v, k)
    <3>1. j + n \in DOMAIN v
      BY <1>3, <2>2
    <3> QED
      BY <2>1, <2>3, <3>1 DEF At
  <2> QED
    BY <1>3, <2>1, <2>4
<1>5. ASSUME NEW k \in K, NEW i, LastAt(v, k, i)
      PROVE  v[i] = said[k]
  <2>1. i \in 1 .. n + l /\ v[i].key = k /\ i > n
    <3>1. i \in At(v, k) /\ \A j \in At(v, k) : j <= i
      BY <1>5 DEF LastAt
    <3>2. PICK j \in At(v, k) : j > n
      BY <1>4
    <3>3. i \in 1 .. n + l /\ v[i].key = k /\ j \in 1 .. n + l
      BY <1>3, <3>1 DEF At
    <3> QED
      BY <1>3, <3>1, <3>2, <3>3
  <2>2. PICK j \in 1 .. l : v[i] = m[j]
    <3>1. i - n \in 1 .. l /\ v[i] = m[i - n]
      BY <1>3, <2>1
    <3> QED
      BY <3>1
  <2>3. m[j] = said[m[j].key]
    BY <1>3 DEF About
  <2> QED
    BY <2>1, <2>2, <2>3
<1>6. ASSUME NEW k, k \notin K
      PROVE  At(v, k) = At(w, k) /\ \A i \in At(w, k) : v[i] = w[i]
  <2>1. ASSUME NEW i \in At(v, k)
        PROVE  i \in At(w, k)
    <3>1. i \in 1 .. n + l /\ v[i].key = k
      BY <1>3 DEF At
    <3>2. i <= n
      <4> SUFFICES ASSUME i > n PROVE FALSE
        BY <1>3, <3>1
      <4>1. i - n \in 1 .. l /\ v[i] = m[i - n]
        BY <1>3, <3>1
      <4> QED
        BY <1>3, <1>6, <3>1, <4>1 DEF About
    <3> QED
      BY <1>3, <3>1, <3>2 DEF At
  <2>2. ASSUME NEW i \in At(w, k)
        PROVE  i \in At(v, k) /\ v[i] = w[i]
    <3>1. i \in 1 .. n /\ w[i].key = k
      BY <1>3 DEF At
    <3>2. i \in 1 .. n + l /\ v[i] = w[i]
      BY <1>3, <3>1
    <3> QED
      BY <1>3, <3>1, <3>2 DEF At
  <2> QED
    BY <2>1, <2>2
<1> QED
  BY <1>3, <1>4, <1>5, <1>6 DEF LastAt

(* Without its first message a connection has the same last one about every  *)
(* key, or none about the key of the first.                                  *)
LEMMA TailLast ==
  ASSUME NEW w \in Seq(Message), w # <<>>, NEW v, v = Tail(w)
  PROVE  /\ v \in Seq(Message) /\ Head(w) \in Message /\ w[1] = Head(w)
         /\ \A k, i : LastAt(v, k, i) => LastAt(w, k, i + 1) /\ v[i] = w[i + 1]
         /\ \A k : At(v, k) = {} => \/ At(w, k) = {} /\ Head(w).key # k
                                    \/ LastAt(w, k, 1)
<1>1. PICK n \in Nat : n = Len(w) - 1
  <2>1. Len(w) \in Nat /\ Len(w) # 0
    OBVIOUS
  <2> QED
    BY <2>1
<1>2. /\ v \in Seq(Message) /\ Head(w) \in Message /\ w[1] = Head(w)
      /\ DOMAIN w = 1 .. n + 1 /\ DOMAIN v = 1 .. n
      /\ \A i \in 1 .. n : v[i] = w[i + 1]
  BY <1>1
<1>3. ASSUME NEW k
      PROVE  \A i \in 1 .. n : i \in At(v, k) <=> i + 1 \in At(w, k)
  BY <1>2 DEF At
<1>4. ASSUME NEW k
      PROVE  At(v, k) \subseteq 1 .. n /\ At(w, k) \subseteq 1 .. n + 1
  BY <1>2 DEF At
<1>5. ASSUME NEW k, NEW i, LastAt(v, k, i)
      PROVE  LastAt(w, k, i + 1) /\ v[i] = w[i + 1]
  <2>1. i \in 1 .. n /\ i \in At(v, k) /\ \A j \in At(v, k) : j <= i
    BY <1>4, <1>5 DEF LastAt
  <2>2. ASSUME NEW j \in At(w, k)
        PROVE  j <= i + 1
    <3>1. j \in 1 .. n + 1
      BY <1>4
    <3>2. CASE j = 1
      BY <2>1, <3>2
    <3>3. CASE j # 1
      <4>1. j - 1 \in 1 .. n /\ (j - 1) + 1 = j
        BY <3>1, <3>3
      <4>2. j - 1 \in At(v, k)
        BY <1>3, <4>1
      <4> QED
        BY <2>1, <3>1, <4>1, <4>2
    <3> QED
      BY <3>2, <3>3
  <2> QED
    BY <1>2, <1>3, <2>1, <2>2 DEF LastAt
<1>6. ASSUME NEW k, At(v, k) = {}
      PROVE  \/ At(w, k) = {} /\ Head(w).key # k
             \/ LastAt(w, k, 1)
  <2>1. At(w, k) \subseteq {1}
    <3>1. ASSUME NEW j \in At(w, k), j # 1
          PROVE  FALSE
      <4>1. j - 1 \in 1 .. n /\ (j - 1) + 1 = j
        BY <1>4, <3>1
      <4> QED
        BY <1>3, <1>6, <4>1
    <3> QED
      BY <3>1
  <2>2. CASE 1 \in At(w, k)
    <3>1. At(w, k) = {1}
      BY <2>1, <2>2
    <3> QED
      BY <3>1 DEF LastAt
  <2>3. CASE 1 \notin At(w, k)
    BY <1>2, <2>1, <2>3 DEF At
  <2> QED
    BY <2>2, <2>3
<1> QED
  BY <1>2, <1>5, <1>6

LEMMA PendingIs == \A k, i : Pending(k) = At(wire, k) /\ (IsLast(k, i) <=> LastAt(wire, k, i))
BY DEF Pending, At, IsLast, LastAt

-----------------------------------------------------------------------------
(* The steps *)

LEMMA UnlinkedKeeps == Types /\ Connections /\ Clean /\ ~ linked => CInv
BY DEF CInv, Starting, Listening, Mirroring

(* A mirror depends on these variables only. *)
LEMMA MirrorsFrame ==
  ASSUME UNCHANGED <<wire, resting, mirrored, active_orders, disturbed, clean>>
  PROVE  \A k : Mirrors(k)' <=> Mirrors(k)
BY DEF Mirrors, IsLast, Pending

LEMMA NothingLate == DOMAIN EmptyBag = {}
BY DEF EmptyBag, SetToBag

(* What outlasts a connection was on it, and nothing outlasts an engine. *)
LEMMA OutlastingIs ==
  ASSUME Types, Connections, NEW l \in Outlasting
  PROVE  /\ DOMAIN l \subseteq Message \cup {[action |-> "reset"]}
         /\ ~ engine_up => l = EmptyBag
<1>1. PICK n \in 0 .. Len(wire) : l = late (+) Counted(SubSeq(wire, 1, n))
  BY DEF Outlasting
<1>2. PICK s : s = SubSeq(wire, 1, n)
  OBVIOUS
<1>3. s \in Seq(Message) /\ Len(s) = n /\ DOMAIN s = 1 .. n
  <2>1. wire \in Seq(Message) /\ Len(wire) \in Nat /\ n \in Nat /\ n <= Len(wire)
    <3>1. wire \in Seq(Message)
      BY DEF Types
    <3>2. Len(wire) \in Nat
      BY <3>1
    <3> QED
      BY <1>1, <3>1, <3>2
  <2> QED
    BY <1>2, <2>1
<1>4. ToSet(s) = {s[i] : i \in 1 .. n}
  BY <1>3 DEF ToSet
<1>5. DOMAIN Counted(s) = ToSet(s)
  BY DEF Counted
<1>6. DOMAIN l = DOMAIN late \cup ToSet(s)
  BY <1>1, <1>2, <1>5 DEF (+)
<1>7. ToSet(s) \subseteq Message
  BY <1>3, <1>4
<1>8. ASSUME ~ engine_up PROVE l = EmptyBag
  <2>1. wire = <<>> /\ late = EmptyBag
    BY <1>8 DEF Connections
  <2>2. n = 0
    BY <1>1, <2>1
  <2>3. DOMAIN l = {}
    BY <1>4, <1>6, <2>1, <2>2, NothingLate
  <2>4. l = [e \in {} |-> 1]
    BY <1>1, <1>6, <2>3 DEF (+)
  <2> QED
    BY <2>4 DEF EmptyBag, SetToBag
<1> QED
  BY <1>6, <1>7, <1>8 DEF Types

LEMMA EndSessionKeeps ==
  ASSUME CInv, EndSession, UNCHANGED <<exchange, engine>>
  PROVE  CInv'
<1>1. Types /\ Connections
  BY DEF CInv
<1>2. /\ DOMAIN late' \subseteq Message \cup {[action |-> "reset"]}
      /\ ~ engine_up => late' = EmptyBag
  BY <1>1, OutlastingIs DEF EndSession
<1>3. Types'
  <2>1. frames' = <<>> /\ <<>> \in Seq(Views) /\ Len(<<>>) = 0 /\ 0 <= MaxFrames
    BY BoundAssumption DEF EndSession
  <2>2. wire' = <<>> /\ <<>> \in Seq(Message)
    BY DEF EndSession
  <2> QED
    BY <1>1, <1>2, <2>1, <2>2 DEF EndSession, engine, Types
<1>4. Connections' /\ Clean' /\ ~ linked'
  BY <1>1, <1>2 DEF EndSession, engine, Connections, Clean, InSession
<1> QED
  BY <1>3, <1>4, UnlinkedKeeps, PTL

LEMMA MoveKeeps == CInv /\ Move => CInv'
<1> SUFFICES ASSUME CInv, Move PROVE CInv'
  OBVIOUS
<1>1. Types /\ Connections /\ Clean /\ Starting /\ Listening
  BY DEF CInv
<1>2. UNCHANGED <<connector, wire, late, engine>> /\ exchange' \in ExchangeBooks
  BY DEF Move
<1>3. frames' \in Seq(Views) /\ Len(frames') <= MaxFrames
  <2>1. CASE frames' = frames
    BY <1>1, <2>1 DEF Types
  <2>2. CASE /\ Len(frames) < MaxFrames
             /\ frames' = Append(frames, Shown(exchange', FrameDepth))
    <3>1. Shown(exchange', FrameDepth) \in Views
      BY <1>2 DEF Views
    <3>2. frames \in Seq(Views) /\ MaxFrames \in Nat
      BY <1>1, BoundAssumption DEF Types
    <3> QED
      BY <2>2, <3>1, <3>2
  <2> QED
    BY <2>1, <2>2 DEF Move
<1>4. Types'
  BY <1>1, <1>2, <1>3 DEF Types, connector, engine
<1>5. frames' # <<>> => InSession'
  <2>1. InSession' <=> InSession
    BY <1>2 DEF InSession, connector
  <2>2. frames' = frames \/ InSession
    BY DEF Move, Subscribed
  <2> QED
    BY <1>1, <2>1, <2>2 DEF Connections
<1>6. Connections' /\ Clean' /\ Starting'
  BY <1>1, <1>2, <1>5 DEF Connections, Clean, Starting, InSession, connector, engine
<1>7. Listening'
  <2>1. \A k : Mirrors(k)' <=> Mirrors(k)
    BY <1>2, MirrorsFrame DEF connector, engine
  <2> QED
    BY <1>1, <1>2, <2>1 DEF Listening, Mirroring, connector
<1> QED
  BY <1>4, <1>6, <1>7 DEF CInv

LEMMA ResetKeeps == CInv /\ reset_engine => CInv'
<1> SUFFICES ASSUME CInv, reset_engine PROVE CInv'
  OBVIOUS
<1>1. Types /\ Connections
  BY DEF CInv
<1>2. /\ pc = "reset" /\ pc' = "connect" /\ ~ linked /\ frames = <<>>
      /\ UNCHANGED <<exchange, frames, linked, active_orders, mirrored, wire, engine_up, disturbed>>
  BY <1>1 DEF reset_engine, Connections, InSession
<1>3. /\ resting' \in [Key -> Nat] /\ clean' \in BOOLEAN
      /\ DOMAIN late' \subseteq Message \cup {[action |-> "reset"]}
      /\ ~ engine_up => resting' = NoOrders /\ late' = EmptyBag
      /\ clean' => resting' = NoOrders /\ late' = EmptyBag
  <2>1. CASE engine_up /\ resting' = NoOrders /\ clean' = (late = EmptyBag) /\ UNCHANGED late
    BY <1>1, <2>1 DEF NoOrders, Types
  <2>2. CASE clean' = ~ engine_up /\ UNCHANGED <<resting, late>>
    BY <1>1, <2>2 DEF Types, Connections
  <2>3. CASE /\ engine_up
             /\ late' = late (+) SetToBag({[action |-> "reset"]})
             /\ clean' = FALSE
             /\ UNCHANGED resting
    <3>1. DOMAIN late' = DOMAIN late \cup {[action |-> "reset"]}
      BY <2>3 DEF (+), SetToBag
    <3> QED
      BY <1>1, <2>3, <3>1 DEF Types
  <2> QED
    BY <2>1, <2>2, <2>3 DEF reset_engine
<1>4. Types'
  BY <1>1, <1>2, <1>3 DEF Types
<1>5. Connections' /\ Clean' /\ ~ linked'
  BY <1>1, <1>2, <1>3 DEF Connections, Clean, InSession
<1> QED
  BY <1>4, <1>5, UnlinkedKeeps, PTL

LEMMA ConnectKeeps == CInv /\ connect => CInv'
<1> SUFFICES ASSUME CInv, connect PROVE CInv'
  OBVIOUS
<1>1. Types /\ Connections /\ Clean
  BY DEF CInv
<1>2. /\ pc = "connect" /\ engine_up /\ pc' = "snapshot" /\ linked' = TRUE
      /\ active_orders' = {} /\ mirrored' = Nothing
      /\ disturbed' = {k \in Key : resting[k] > 0}
      /\ UNCHANGED <<exchange, frames, clean, wire, late, engine_up, resting>>
  BY DEF connect
<1>3. wire = <<>> /\ frames = <<>>
  BY <1>1, <1>2 DEF Connections, InSession
<1>4. Types'
  <2>1. Nothing \in Views
    BY DEF Views
  <2> QED
    BY <1>1, <1>2, <2>1 DEF Types
<1>5. Connections' /\ Clean'
  BY <1>1, <1>2, <1>3 DEF Connections, Clean, InSession
<1>6. Starting'
  <2>1. \A k \in Key : resting[k] \in Nat
    BY <1>1 DEF Types
  <2>2. \A k \in Key : resting[k] = 0 \/ resting[k] > 0
    BY <2>1
  <2> QED
    BY <1>2, <1>3, <2>2 DEF Starting
<1>7. Listening'
  BY <1>2 DEF Listening, Mirroring
<1> QED
  BY <1>4, <1>5, <1>6, <1>7 DEF CInv

LEMMA WaitKeeps == CInv /\ (FailToConnect \/ Retry) => CInv'
<1> SUFFICES ASSUME CInv, FailToConnect \/ Retry PROVE CInv'
  OBVIOUS
<1>1. Types /\ Connections /\ Clean
  BY DEF CInv
<1>2. /\ pc \in {"connect", "retry"} /\ pc' \in {"retry", "reset"}
      /\ UNCHANGED <<exchange, frames, linked, active_orders, mirrored, clean, wire, late, engine>>
  BY DEF FailToConnect, Retry
<1>3. ~ linked /\ frames = <<>>
  BY <1>1, <1>2 DEF Connections, InSession
<1>4. Types'
  BY <1>1, <1>2 DEF Types, engine
<1>5. Connections' /\ Clean' /\ ~ linked'
  BY <1>1, <1>2, <1>3 DEF Connections, Clean, InSession, engine
<1> QED
  BY <1>4, <1>5, UnlinkedKeeps, PTL

LEMMA SnapshotKeeps == CInv /\ get_snapshot => CInv'
<1> SUFFICES ASSUME CInv, get_snapshot PROVE CInv'
  OBVIOUS
<1>1. Types /\ Connections /\ Clean /\ Starting
  BY DEF CInv
<1>2. /\ pc = "snapshot" /\ pc' = "post" /\ mirrored' = Shown(exchange, SnapshotDepth)
      /\ UNCHANGED <<exchange, frames, linked, active_orders, clean, wire, late, engine>>
  BY DEF get_snapshot
<1>3. Types'
  <2>1. Shown(exchange, SnapshotDepth) \in Views
    BY <1>1 DEF Types, Views
  <2> QED
    BY <1>1, <1>2, <2>1 DEF Types, engine
<1>4. Connections' /\ Clean' /\ Starting'
  BY <1>1, <1>2 DEF Connections, Clean, Starting, InSession, engine
<1>5. Listening'
  BY <1>2 DEF Listening, Mirroring
<1> QED
  BY <1>3, <1>4, <1>5 DEF CInv

(* The snapshot is all that is under way, and nothing rests that it does not *)
(* list but what is disturbed.                                               *)
LEMMA PostKeeps == CInv /\ post_snapshot => CInv'
<1> SUFFICES ASSUME CInv, post_snapshot PROVE CInv'
  OBVIOUS
<1>1. Types /\ Connections /\ Clean /\ Starting
  BY DEF CInv
<1>2. PICK messages : messages = Post(BUY, mirrored) \o Post(SELL, mirrored)
  OBVIOUS
<1>3. PICK K : K = {k \in Key : k[2] \in DOMAIN mirrored[k[1]]}
  OBVIOUS
<1>4. pc = "post" /\ UNCHANGED <<exchange, engine>>
  BY DEF post_snapshot
<1>5. CASE EndSession
  BY <1>4, <1>5, EndSessionKeeps
<1>6. CASE /\ ~ Raises(messages)
           /\ wire' = wire \o messages
           /\ active_orders' = active_orders \cup K
           /\ pc' = "listen"
           /\ UNCHANGED <<frames, linked, mirrored, clean, late>>
  <2>1. PICK said :
          said = [k \in Key |-> [action |-> "submit", key |-> k, quantity |-> Listed(mirrored, k)]]
    OBVIOUS
  <2>2. About(messages, K, said)
    BY <1>1, <1>2, <1>3, <2>1, PostSays DEF Types
  <2>3. wire \in Seq(Message)
    BY <1>1 DEF Types
  <2>4. PICK w : w = wire'
    OBVIOUS
  <2>5. /\ w \in Seq(Message)
        /\ \A k \in K : At(w, k) # {} /\ \A i : LastAt(w, k, i) => w[i] = said[k]
        /\ \A k : k \notin K => At(w, k) = At(wire, k)
    <3>1. Joined(w, wire, messages)
      BY <1>6, <2>4 DEF Joined
    <3> QED
      BY <2>2, <2>3, <3>1, AppendedLast
  <2>6. Types'
    <3>1. K \subseteq Key
      BY <1>3
    <3> QED
      BY <1>1, <1>4, <1>6, <2>4, <2>5, <3>1 DEF Types, engine
  <2>7. CASE ~ linked
    <3>1. messages = <<>> /\ wire = <<>>
      BY <1>1, <1>6, <2>7 DEF Raises, Connections
    <3>2. wire' = <<>>
      BY <1>6, <3>1
    <3>3. Connections' /\ Clean' /\ ~ linked'
      BY <1>1, <1>4, <1>6, <2>7, <3>2 DEF Connections, Clean, InSession, engine
    <3> QED
      BY <2>6, <3>3, UnlinkedKeeps, PTL
  <2>8. CASE linked
    <3>1. /\ wire = <<>>
          /\ \A k \in Key : resting[k] = 0 \/ k \in disturbed
          /\ clean => resting = NoOrders
      BY <1>1, <1>4, <2>8 DEF Starting, Clean
    <3>2. \A k : At(wire, k) = {}
      BY <3>1 DEF At
    <3>3. Connections' /\ Clean' /\ Starting'
      BY <1>1, <1>4, <1>6, <2>8 DEF Connections, Clean, Starting, InSession, engine
    <3>4. ASSUME NEW k \in Key PROVE Mirrors(k)'
      <4>1. /\ Pending(k)' = At(w, k)
            /\ \A i : IsLast(k, i)' <=> LastAt(w, k, i)
        BY <2>4 DEF Pending, At, IsLast, LastAt
      <4>2. UNCHANGED <<mirrored, resting, disturbed, clean>>
        BY <1>4, <1>6 DEF engine
      <4>3. CASE k \in K
        <5>1. k \in active_orders'
          BY <1>6, <4>3
        <5>2. At(w, k) # {} /\ \A i : LastAt(w, k, i) => w[i] = said[k]
          BY <2>5, <4>3
        <5>3. said[k].quantity = Listed(mirrored, k)
          BY <2>1
        <5>4. \A i : IsLast(k, i)' => wire'[i].quantity = Listed(mirrored, k)
          BY <2>4, <4>1, <5>2, <5>3
        <5>5. Listed(mirrored, k)' = Listed(mirrored, k)
          BY <4>2 DEF Listed
        <5> QED
          BY <4>1, <5>1, <5>2, <5>4, <5>5 DEF Mirrors
      <4>4. CASE k \notin K
        <5>1. Listed(mirrored, k) = 0 /\ Listed(mirrored, k)' = 0
          BY <1>3, <4>2, <4>4 DEF Listed
        <5>2. At(w, k) = {}
          BY <2>5, <3>2, <4>4
        <5>3. \A i : ~ IsLast(k, i)'
          BY <4>1, <5>2 DEF LastAt
        <5>4. resting[k] = 0 \/ k \in disturbed
          BY <3>1
        <5>5. clean => resting[k] <= 0
          BY <3>1 DEF NoOrders
        <5> QED
          BY <4>2, <5>1, <5>3, <5>4, <5>5 DEF Mirrors
      <4> QED
        BY <4>3, <4>4
    <3> QED
      BY <2>6, <3>3, <3>4 DEF CInv, Listening
  <2> QED
    BY <2>7, <2>8
<1> QED
  BY <1>2, <1>3, <1>5, <1>6 DEF post_snapshot

(* A frame speaks of all that is tracked or listed; what it does not speak   *)
(* of was not listed before, so that nothing of it is meant to rest.         *)
LEMMA FrameKeeps == CInv /\ SyncFrame => CInv'
<1> SUFFICES ASSUME CInv, SyncFrame PROVE CInv'
  OBVIOUS
<1>1. Types /\ Connections /\ Clean /\ Starting /\ Listening
  BY DEF CInv
<1>2. PICK levels : levels = Head(frames)
  OBVIOUS
<1>3. PICK messages : messages = Sync(BUY, levels) \o Sync(SELL, levels)
  OBVIOUS
<1>4. pc = "listen" /\ frames # <<>> /\ UNCHANGED <<exchange, engine>>
  BY DEF SyncFrame
<1>5. CASE EndSession
  BY <1>4, <1>5, EndSessionKeeps
<1>6. CASE /\ ~ Raises(messages)
           /\ wire' = wire \o messages
           /\ active_orders' = Track(levels)
           /\ mirrored' = levels
           /\ frames' = Tail(frames)
           /\ UNCHANGED <<pc, linked, clean, late>>
  <2>1. /\ levels \in Views /\ frames' \in Seq(Views) /\ Len(frames') <= MaxFrames
        /\ frames' # <<>> => frames # <<>>
    <3>1. frames \in Seq(Views) /\ frames # <<>> /\ Len(frames) <= MaxFrames /\ MaxFrames \in Nat
      BY <1>1, <1>4, BoundAssumption DEF Types
    <3> QED
      BY <1>2, <1>6, <3>1
  <2>2. PICK said :
          said = [k \in Key |-> [action |-> IF Listed(levels, k) = 0 THEN "cancel" ELSE "submit",
                                 key |-> k, quantity |-> Listed(levels, k)]]
    OBVIOUS
  <2>3. PICK K : K = {k \in Key : k \in active_orders \/ Listed(levels, k) > 0}
    OBVIOUS
  <2>4. About(messages, K, said)
    BY <1>1, <1>3, <2>1, <2>2, <2>3, SyncSays DEF Types
  <2>5. wire \in Seq(Message)
    BY <1>1 DEF Types
  <2>6. PICK w : w = wire'
    OBVIOUS
  <2>7. /\ w \in Seq(Message)
        /\ \A k \in K : At(w, k) # {} /\ \A i : LastAt(w, k, i) => w[i] = said[k]
        /\ \A k : k \notin K =>
             /\ At(w, k) = At(wire, k)
             /\ \A i : LastAt(w, k, i) => LastAt(wire, k, i) /\ w[i] = wire[i]
    <3>1. Joined(w, wire, messages)
      BY <1>6, <2>6 DEF Joined
    <3> QED
      BY <2>4, <2>5, <3>1, AppendedLast
  <2>8. Types'
    <3>1. Track(levels) \subseteq Key
      BY DEF Track
    <3> QED
      BY <1>1, <1>4, <1>6, <2>1, <2>6, <2>7, <3>1 DEF Types, engine
  <2>9. CASE ~ linked
    <3>1. messages = <<>> /\ wire = <<>>
      BY <1>1, <1>6, <2>9 DEF Raises, Connections
    <3>2. wire' = <<>>
      BY <1>6, <3>1
    <3>3. Connections' /\ Clean' /\ ~ linked'
      BY <1>1, <1>4, <1>6, <2>1, <2>9, <3>2 DEF Connections, Clean, InSession, engine
    <3> QED
      BY <2>8, <3>3, UnlinkedKeeps, PTL
  <2>10. CASE linked
    <3>1. Connections' /\ Clean' /\ Starting'
      BY <1>1, <1>4, <1>6, <2>10 DEF Connections, Clean, Starting, InSession, engine
    <3>2. ASSUME NEW k \in Key PROVE Mirrors(k)'
      <4>1. /\ Pending(k)' = At(w, k)
            /\ \A i : IsLast(k, i)' <=> LastAt(w, k, i)
        BY <2>6 DEF Pending, At, IsLast, LastAt
      <4>2. UNCHANGED <<resting, disturbed, clean>>
        BY <1>4, <1>6 DEF engine
      <4>3. PICK q \in Nat : q = Listed(levels, k)
        BY <2>1, ListedType
      <4>4. Listed(mirrored, k)' = q
        BY <1>6, <4>3 DEF Listed
      <4>5. k \in active_orders' <=> q > 0
        BY <1>6, <4>3 DEF Track
      <4>6. CASE k \in K
        <5>1. At(w, k) # {} /\ \A i : LastAt(w, k, i) => w[i] = said[k]
          BY <2>7, <4>6
        <5>2. said[k].quantity = q /\ (q = 0 => said[k].action = "cancel")
          BY <2>2, <4>3
        <5>3. \A i : IsLast(k, i)' => wire'[i].quantity = q /\ (q = 0 => wire'[i].action = "cancel")
          BY <2>6, <4>1, <5>1, <5>2
        <5>4. k \notin active_orders' => q = 0
          BY <4>3, <4>5
        <5> QED
          BY <4>1, <4>4, <4>5, <5>1, <5>3, <5>4 DEF Mirrors
      <4>7. CASE k \notin K
        <5>1. q = 0 /\ k \notin active_orders
          BY <2>3, <4>3, <4>7
        <5>2. Mirrors(k)
          BY <1>1, <1>4, <2>10 DEF Listening, Mirroring
        <5>3. Listed(mirrored, k) = 0
          <6>1. Listed(mirrored, k) \in Nat
            BY <1>1, ListedType DEF Types
          <6> QED
            BY <5>1, <5>2, <6>1 DEF Mirrors
        <5>4. /\ At(w, k) = At(wire, k)
              /\ \A i : LastAt(w, k, i) => LastAt(wire, k, i) /\ w[i] = wire[i]
          BY <2>7, <4>7
        <5>5. Pending(k) = At(wire, k) /\ \A i : IsLast(k, i) <=> LastAt(wire, k, i)
          BY PendingIs
        <5>6. \A i : IsLast(k, i)' => wire'[i].quantity = 0 /\ wire'[i].action = "cancel"
          BY <2>6, <4>1, <5>1, <5>2, <5>3, <5>4, <5>5 DEF Mirrors
        <5>7. Pending(k)' = {} => (resting[k] = 0 \/ k \in disturbed) /\ (clean => resting[k] <= 0)
          BY <4>1, <5>2, <5>3, <5>4, <5>5 DEF Mirrors
        <5> QED
          BY <4>2, <4>4, <4>5, <5>1, <5>6, <5>7 DEF Mirrors
      <4> QED
        BY <4>6, <4>7
    <3> QED
      BY <2>8, <3>1, <3>2 DEF CInv, Listening
  <2> QED
    BY <2>9, <2>10
<1> QED
  BY <1>2, <1>3, <1>5, <1>6 DEF SyncFrame

(* Executing the last message about a key makes its order what was read, or  *)
(* less of it and disturbed.                                                 *)
LEMMA WireKeeps == CInv /\ ExecuteWire => CInv'
<1> SUFFICES ASSUME CInv, ExecuteWire PROVE CInv'
  OBVIOUS
<1>1. Types /\ Connections /\ Clean /\ Starting /\ Listening
  BY DEF CInv
<1>2. PICK m : m = Head(wire)
  OBVIOUS
<1>3. /\ wire # <<>> /\ linked /\ Execute(m) /\ wire' = Tail(wire)
      /\ UNCHANGED <<exchange, frames, connector, late, engine_up>>
  BY <1>2 DEF ExecuteWire
<1>4. PICK w : w = wire'
  OBVIOUS
<1>5. /\ w \in Seq(Message) /\ m \in Message /\ wire[1] = m
      /\ \A k, i : LastAt(w, k, i) => LastAt(wire, k, i + 1) /\ w[i] = wire[i + 1]
      /\ \A k : At(w, k) = {} => (At(wire, k) = {} /\ m.key # k) \/ LastAt(wire, k, 1)
  <2>1. wire \in Seq(Message)
    BY <1>1 DEF Types
  <2>2. w = Tail(wire)
    BY <1>3, <1>4
  <2> QED
    BY <1>2, <1>3, <2>1, <2>2, TailLast
<1>6. m.key \in Key /\ m.quantity \in Nat /\ (m.action = "cancel" => m.quantity = 0)
      /\ m.action \in {"submit", "cancel"}
  BY <1>5 DEF Message
<1>7. PICK left \in Nat :
        /\ left <= m.quantity
        /\ resting' = [resting EXCEPT ![m.key] = left]
        /\ disturbed' = IF left = m.quantity THEN disturbed \ {m.key}
                        ELSE disturbed \cup {m.key}
  <2>1. PICK left \in (IF m.action = "submit" THEN 0 .. m.quantity ELSE {0}) :
          /\ resting' = [resting EXCEPT ![m.key] = left]
          /\ disturbed' = IF left = m.quantity THEN disturbed \ {m.key}
                          ELSE disturbed \cup {m.key}
    BY <1>3 DEF Execute
  <2>2. left \in Nat /\ left <= m.quantity
    BY <1>6, <2>1
  <2> QED
    BY <2>1, <2>2
<1>8. pc = "listen"
  BY <1>1, <1>3 DEF Starting
<1>9. Types'
  <2>1. resting' \in [Key -> Nat] /\ disturbed' \subseteq Key
    BY <1>1, <1>6, <1>7 DEF Types
  <2> QED
    BY <1>1, <1>3, <1>4, <1>5, <2>1 DEF Types, connector
<1>10. Connections' /\ Clean' /\ Starting'
  BY <1>1, <1>3, <1>8 DEF Connections, Clean, Starting, InSession, connector
<1>11. ASSUME NEW k \in Key PROVE Mirrors(k)'
  <2>1. /\ Pending(k)' = At(w, k)
        /\ \A i : IsLast(k, i)' <=> LastAt(w, k, i)
    BY <1>4 DEF Pending, At, IsLast, LastAt
  <2>2. Pending(k) = At(wire, k) /\ \A i : IsLast(k, i) <=> LastAt(wire, k, i)
    BY PendingIs
  <2>3. UNCHANGED <<mirrored, active_orders, clean>>
    BY <1>3 DEF connector
  <2>4. Mirrors(k)
    BY <1>1, <1>3, <1>8 DEF Listening, Mirroring
  <2>5. PICK q \in Nat : q = Listed(mirrored, k)
    BY <1>1, ListedType DEF Types
  <2>6. Listed(mirrored, k)' = q
    BY <2>3, <2>5 DEF Listed
  <2>7. \A i : IsLast(k, i)' => wire'[i].quantity = q /\ (k \notin active_orders => wire'[i].action = "cancel")
    <3> SUFFICES ASSUME NEW i, LastAt(w, k, i)
                 PROVE  w[i].quantity = q /\ (k \notin active_orders => w[i].action = "cancel")
      BY <1>4, <2>1
    <3>1. LastAt(wire, k, i + 1) /\ w[i] = wire[i + 1]
      BY <1>5
    <3>2. IsLast(k, i + 1)
      BY <2>2, <3>1
    <3> QED
      BY <2>4, <2>5, <3>1, <3>2 DEF Mirrors
  <2>8. Pending(k)' = {} => /\ resting'[k] = q \/ k \in disturbed'
                            /\ clean => resting'[k] <= q
    <3> SUFFICES ASSUME At(w, k) = {}
                 PROVE  (resting'[k] = q \/ k \in disturbed') /\ (clean => resting'[k] <= q)
      BY <2>1
    <3>1. CASE m.key = k
      <4>1. IsLast(k, 1)
        BY <1>5, <2>2, <3>1
      <4>2. m.quantity = q
        BY <1>5, <2>4, <2>5, <4>1 DEF Mirrors
      <4>3. resting'[k] = left
        BY <1>1, <1>7, <3>1 DEF Types
      <4> QED
        BY <1>7, <3>1, <4>2, <4>3
    <3>2. CASE m.key # k
      <4>1. At(wire, k) = {}
        <5>1. ~ LastAt(wire, k, 1)
          BY <1>5, <3>2 DEF LastAt, At
        <5> QED
          BY <1>5, <5>1
      <4>2. (resting[k] = q \/ k \in disturbed) /\ (clean => resting[k] <= q)
        BY <2>2, <2>4, <2>5, <4>1 DEF Mirrors
      <4>3. resting'[k] = resting[k] /\ (k \in disturbed' <=> k \in disturbed)
        BY <1>1, <1>6, <1>7, <3>2 DEF Types
      <4> QED
        BY <4>2, <4>3
    <3> QED
      BY <3>1, <3>2
  <2>9. Listed(mirrored, k)' > 0 => k \in active_orders'
    BY <2>3, <2>4, <2>5, <2>6 DEF Mirrors
  <2> QED
    BY <2>3, <2>6, <2>7, <2>8, <2>9 DEF Mirrors
<1> QED
  BY <1>9, <1>10, <1>11 DEF CInv, Listening

(* A message that outlasted its connection disturbs what it changes, and     *)
(* arrives in a session that is not clean.                                   *)
LEMMA LateKeeps == CInv /\ ExecuteLate => CInv'
<1> SUFFICES ASSUME CInv, ExecuteLate PROVE CInv'
  OBVIOUS
<1>1. Types /\ Connections /\ Clean /\ Starting /\ Listening
  BY DEF CInv
<1>2. PICK m \in DOMAIN late :
        /\ late' = late (-) SetToBag({m})
        /\ IF m.action = "reset"
           THEN resting' = NoOrders /\ disturbed' = Key
           ELSE \E left \in 0 .. m.quantity :
                  /\ resting' = [resting EXCEPT ![m.key] = left]
                  /\ disturbed' = disturbed \cup {m.key}
  BY DEF ExecuteLate, BagToSet
<1>3. UNCHANGED <<exchange, frames, connector, wire, engine_up>>
  BY DEF ExecuteLate
<1>4. late # EmptyBag
  BY <1>2, NothingLate
<1>5. engine_up /\ ~ (clean /\ (pc = "connect" \/ linked))
  BY <1>1, <1>4 DEF Connections, Clean
<1>6. DOMAIN late' \subseteq DOMAIN late
  BY <1>2 DEF (-)
<1>7. /\ resting' \in [Key -> Nat] /\ disturbed' \subseteq Key
      /\ \A k \in Key : k \in disturbed' \/ (resting'[k] = resting[k] /\ k \notin disturbed)
                                         \/ (resting'[k] = resting[k] /\ k \in disturbed')
      /\ disturbed \subseteq disturbed'
  <2>1. CASE m.action = "reset"
    BY <1>1, <1>2, <2>1 DEF Types, NoOrders
  <2>2. CASE m.action # "reset"
    <3>1. m \in Message
      BY <1>1, <1>2, <2>2 DEF Types
    <3>2. m.key \in Key /\ m.quantity \in Nat
      BY <3>1 DEF Message
    <3>3. PICK left \in 0 .. m.quantity : /\ resting' = [resting EXCEPT ![m.key] = left]
                                          /\ disturbed' = disturbed \cup {m.key}
      BY <1>2, <2>2
    <3>4. left \in Nat
      BY <3>2, <3>3
    <3> QED
      BY <1>1, <3>2, <3>3, <3>4 DEF Types
  <2> QED
    BY <2>1, <2>2
<1>8. Types'
  BY <1>1, <1>3, <1>6, <1>7 DEF Types, connector
<1>9. Connections' /\ Clean'
  BY <1>1, <1>3, <1>5 DEF Connections, Clean, InSession, connector
<1>10. Starting'
  BY <1>1, <1>3, <1>7 DEF Starting, connector
<1>11. Listening'
  <2> SUFFICES ASSUME Mirroring, NEW k \in Key PROVE Mirrors(k)'
    BY <1>3 DEF Listening, Mirroring, connector
  <2>1. Mirrors(k) /\ ~ clean
    BY <1>1, <1>5 DEF Listening, Mirroring
  <2>2. UNCHANGED <<mirrored, active_orders, clean, wire>>
    BY <1>3 DEF connector
  <2>3. Listed(mirrored, k)' = Listed(mirrored, k)
    BY <2>2 DEF Listed
  <2> QED
    BY <1>7, <2>1, <2>2, <2>3 DEF Mirrors, Pending, IsLast
<1> QED
  BY <1>8, <1>9, <1>10, <1>11 DEF CInv

LEMMA DropKeeps == CInv /\ DropLate => CInv'
<1> SUFFICES ASSUME CInv, DropLate PROVE CInv'
  OBVIOUS
<1>1. Types /\ Connections /\ Clean /\ Starting /\ Listening
  BY DEF CInv
<1>2. /\ late' = EmptyBag
      /\ UNCHANGED <<exchange, frames, connector, wire, engine>>
  BY DEF DropLate
<1>3. Types'
  BY <1>1, <1>2, NothingLate DEF Types, connector, engine
<1>4. Connections' /\ Clean' /\ Starting'
  BY <1>1, <1>2 DEF Connections, Clean, Starting, InSession, connector, engine
<1>5. Listening'
  <2>1. \A k : Mirrors(k)' <=> Mirrors(k)
    BY <1>2, MirrorsFrame DEF connector, engine
  <2> QED
    BY <1>1, <1>2, <2>1 DEF Listening, Mirroring, connector
<1> QED
  BY <1>3, <1>4, <1>5 DEF CInv

(* A user only takes, and disturbs what it takes from. *)
LEMMA UserKeeps == CInv /\ UserTakes => CInv'
<1> SUFFICES ASSUME CInv, UserTakes PROVE CInv'
  OBVIOUS
<1>1. Types /\ Connections /\ Clean /\ Starting /\ Listening
  BY DEF CInv
<1>2. PICK t \in Key :
        /\ resting[t] > 0
        /\ \E left \in 0 .. resting[t] - 1 : resting' = [resting EXCEPT ![t] = left]
        /\ disturbed' = disturbed \cup {t}
  BY DEF UserTakes
<1>3. PICK left \in 0 .. resting[t] - 1 : resting' = [resting EXCEPT ![t] = left]
  BY <1>2
<1>4. UNCHANGED <<exchange, frames, connector, wire, late, engine_up>>
  BY DEF UserTakes
<1>5. resting[t] \in Nat /\ left \in Nat /\ left <= resting[t]
  <2>1. resting[t] \in Nat
    BY <1>1, <1>2 DEF Types
  <2> QED
    BY <2>1, <1>3
<1>6. resting # NoOrders
  BY <1>2, <1>5 DEF NoOrders
<1>7. /\ resting' \in [Key -> Nat] /\ disturbed' \subseteq Key
      /\ \A k \in Key : /\ resting'[k] <= resting[k]
                        /\ k \in disturbed' \/ resting'[k] = resting[k]
      /\ disturbed \subseteq disturbed'
  <2>1. \A k \in Key : resting[k] \in Nat
    BY <1>1 DEF Types
  <2> QED
    BY <1>1, <1>2, <1>3, <1>5, <2>1 DEF Types
<1>8. Types'
  BY <1>1, <1>4, <1>7 DEF Types, connector
<1>9. Connections' /\ Clean'
  BY <1>1, <1>4, <1>6 DEF Connections, Clean, InSession, connector
<1>10. Starting'
  BY <1>1, <1>4, <1>7 DEF Starting, connector
<1>11. Listening'
  <2> SUFFICES ASSUME Mirroring, NEW k \in Key PROVE Mirrors(k)'
    BY <1>4 DEF Listening, Mirroring, connector
  <2>1. Mirrors(k)
    BY <1>1 DEF Listening
  <2>2. UNCHANGED <<mirrored, active_orders, clean, wire>>
    BY <1>4 DEF connector
  <2>3. PICK q \in Nat : q = Listed(mirrored, k) /\ Listed(mirrored, k)' = q
    <3>1. Listed(mirrored, k)' = Listed(mirrored, k)
      BY <2>2 DEF Listed
    <3> QED
      BY <1>1, <3>1, ListedType DEF Types
  <2>4. resting[k] \in Nat /\ resting'[k] \in Nat
    BY <1>1, <1>7 DEF Types
  <2>5. Pending(k)' = Pending(k) /\ \A i : IsLast(k, i)' <=> IsLast(k, i)
    BY <2>2 DEF Pending, IsLast
  <2>6. Pending(k) = {} => /\ resting'[k] = q \/ k \in disturbed'
                           /\ clean => resting'[k] <= q
    <3>1. Pending(k) = {} => /\ resting[k] = q \/ k \in disturbed
                             /\ clean => resting[k] <= q
      BY <2>1, <2>3 DEF Mirrors
    <3> QED
      BY <1>7, <2>4, <3>1
  <2> QED
    BY <2>1, <2>2, <2>3, <2>5, <2>6 DEF Mirrors
<1> QED
  BY <1>8, <1>9, <1>10, <1>11 DEF CInv

LEMMA LossKeeps == CInv /\ LoseEngine => CInv'
<1> SUFFICES ASSUME CInv, LoseEngine PROVE CInv'
  OBVIOUS
<1>1. Types /\ Connections
  BY DEF CInv
<1>2. /\ linked /\ linked' = FALSE /\ late' \in Outlasting /\ wire' = <<>>
      /\ UNCHANGED <<exchange, frames, pc, active_orders, mirrored, clean, engine>>
  BY DEF LoseEngine
<1>3. DOMAIN late' \subseteq Message \cup {[action |-> "reset"]}
  BY <1>1, <1>2, OutlastingIs
<1>4. Types'
  <2>1. <<>> \in Seq(Message)
    OBVIOUS
  <2> QED
    BY <1>1, <1>2, <1>3, <2>1 DEF Types, engine
<1>5. Connections' /\ Clean' /\ ~ linked'
  BY <1>1, <1>2 DEF Connections, Clean, InSession, engine
<1> QED
  BY <1>4, <1>5, UnlinkedKeeps, PTL

LEMMA RestartKeeps == CInv /\ (EngineStops \/ EngineStarts) => CInv'
<1> SUFFICES ASSUME CInv, EngineStops \/ EngineStarts PROVE CInv'
  OBVIOUS
<1>1. Types /\ Connections /\ Clean
  BY DEF CInv
<1>2. CASE EngineStops
  <2>1. /\ engine_up' = FALSE /\ linked' = FALSE /\ wire' = <<>> /\ late' = EmptyBag
        /\ resting' = NoOrders
        /\ UNCHANGED <<exchange, frames, pc, active_orders, mirrored, clean, disturbed>>
    BY <1>2 DEF EngineStops
  <2>2. Types'
    <3>1. <<>> \in Seq(Message) /\ NoOrders \in [Key -> Nat]
      BY DEF NoOrders
    <3> QED
      BY <1>1, <2>1, <3>1, NothingLate DEF Types
  <2>3. Connections' /\ Clean' /\ ~ linked'
    BY <1>1, <2>1 DEF Connections, Clean, InSession
  <2> QED
    BY <2>2, <2>3, UnlinkedKeeps, PTL
<1>3. CASE EngineStarts
  <2>1. /\ ~ engine_up /\ engine_up' = TRUE
        /\ UNCHANGED <<exchange, frames, connector, wire, late, resting, disturbed>>
    BY <1>3 DEF EngineStarts
  <2>2. Types'
    BY <1>1, <2>1 DEF Types, connector
  <2>3. Connections' /\ Clean' /\ ~ linked'
    BY <1>1, <2>1 DEF Connections, Clean, InSession, connector
  <2> QED
    BY <2>2, <2>3, UnlinkedKeeps, PTL
<1> QED
  BY <1>2, <1>3

LEMMA StutterKeeps == CInv /\ UNCHANGED vars => CInv'
<1> SUFFICES ASSUME CInv, UNCHANGED vars PROVE CInv'
  OBVIOUS
<1>1. Types' /\ Connections' /\ Clean' /\ Starting'
  BY DEF CInv, vars, connector, engine, Types, Connections, Clean, Starting, InSession
<1>2. \A k : Mirrors(k)' <=> Mirrors(k)
  BY MirrorsFrame DEF vars, connector, engine
<1> QED
  BY <1>1, <1>2 DEF CInv, Listening, Mirroring, vars, connector

LEMMA InitHolds == Init => CInv
<1> SUFFICES ASSUME Init PROVE CInv
  OBVIOUS
<1>1. Types
  <2>1. Nothing \in Views
    BY DEF Views
  <2>2. frames = <<>> /\ <<>> \in Seq(Views) /\ Len(<<>>) = 0 /\ 0 <= MaxFrames
    BY BoundAssumption DEF Init
  <2>3. NoOrders \in [Key -> Nat] /\ <<>> \in Seq(Message)
    BY DEF NoOrders
  <2> QED
    BY <2>1, <2>2, <2>3, NothingLate DEF Init, Types
<1>2. Connections /\ Clean /\ ~ linked
  BY DEF Init, Connections, Clean
<1> QED
  BY <1>1, <1>2, UnlinkedKeeps

-----------------------------------------------------------------------------
(* What always holds *)

(* The mirror's invariant: what is under way ends in what was read, level by *)
(* level, whatever fails or restarts in between.                             *)
THEOREM ConnectorInvariant == Spec => []CInv
<1>1. CInv /\ [Next]_vars => CInv'
  <2> SUFFICES ASSUME CInv, Next \/ UNCHANGED vars PROVE CInv'
    OBVIOUS
  <2>1. CASE Move
    BY <2>1, MoveKeeps
  <2>2. CASE LoseExchange
    BY <2>2, EndSessionKeeps DEF LoseExchange
  <2>3. CASE FailToConnect \/ Retry
    BY <2>3, WaitKeeps
  <2>4. CASE reset_engine
    BY <2>4, ResetKeeps
  <2>5. CASE UserTakes
    BY <2>5, UserKeeps
  <2>6. CASE LoseEngine
    BY <2>6, LossKeeps
  <2>7. CASE EngineStops \/ EngineStarts
    BY <2>7, RestartKeeps
  <2>8. CASE connect
    BY <2>8, ConnectKeeps
  <2>9. CASE get_snapshot
    BY <2>9, SnapshotKeeps
  <2>10. CASE post_snapshot
    BY <2>10, PostKeeps
  <2>11. CASE SyncFrame
    BY <2>11, FrameKeeps
  <2>12. CASE ExecuteWire
    BY <2>12, WireKeeps
  <2>13. CASE ExecuteLate
    BY <2>13, LateKeeps
  <2>14. CASE DropLate
    BY <2>14, DropKeeps
  <2>15. CASE UNCHANGED vars
    BY <2>15, StutterKeeps
  <2> QED
    BY <2>1, <2>2, <2>3, <2>4, <2>5, <2>6, <2>7, <2>8, <2>9, <2>10, <2>11, <2>12, <2>13,
       <2>14, <2>15
    DEF Next, Disturbance, Connector, ResetFails, load_rest_snapshots
<1> QED
  BY <1>1, InitHolds, PTL DEF Spec

(* What will rest is the quantity the last message about the key asks for,   *)
(* or what rests now when there is none.                                     *)
LEMMA DrainedIs ==
  ASSUME CInv, NEW k \in Key
  PROVE  IF Pending(k) = {} THEN Drained(k) = resting[k]
         ELSE IsLast(k, Max(Pending(k))) /\ Drained(k) = wire[Max(Pending(k))].quantity
<1>1. PICK w : w = wire
  OBVIOUS
<1>2. w \in Seq(Message)
  BY <1>1 DEF CInv, Types
<1>3. Pending(k) = At(w, k) /\ \A i : IsLast(k, i) <=> LastAt(w, k, i)
  BY <1>1, PendingIs
<1>4. At(w, k) # {} => LastAt(w, k, Max(At(w, k)))
  BY <1>2, LastExists
<1> QED
  BY <1>3, <1>4 DEF Drained

(* TypeOK: the connector's variables keep their types, and what is on a      *)
(* connection belongs to it.                                                 *)
THEOREM ConnectorTypes == Spec => []TypeOK
<1>1. CInv => TypeOK
  BY DEF CInv, Types, Connections, TypeOK
<1> QED
  BY <1>1, ConnectorInvariant, PTL

(* WireMirrorsLastRead: what SyncFrame and post_snapshot send, executed in   *)
(* order, leaves every level as the connector last read it, unless somebody  *)
(* else has changed it since.                                                *)
THEOREM MirrorAlwaysFollows == Spec => []WireMirrorsLastRead
<1>1. CInv => WireMirrorsLastRead
  <2> SUFFICES ASSUME CInv, Mirroring, NEW k \in Key
               PROVE  \/ Drained(k) = Listed(mirrored, k)
                      \/ k \in disturbed /\ Pending(k) = {}
    BY DEF WireMirrorsLastRead
  <2>1. Mirrors(k)
    BY DEF CInv, Listening
  <2> QED
    BY <2>1, DrainedIs DEF Mirrors
<1> QED
  BY <1>1, ConnectorInvariant, PTL

(* NothingBeyondLastRead: after a clean reset_engine the engine never ends   *)
(* up offering more at a level than the connector read, whatever sessions,   *)
(* connections and engines ended before.                                     *)
THEOREM MirrorNeverExceeds == Spec => []NothingBeyondLastRead
<1>1. CInv => NothingBeyondLastRead
  <2> SUFFICES ASSUME CInv, Mirroring, clean, NEW k \in Key
               PROVE  Drained(k) <= Listed(mirrored, k)
    BY DEF NothingBeyondLastRead
  <2>1. Mirrors(k)
    BY DEF CInv, Listening
  <2>2. Listed(mirrored, k) \in Nat
    BY ListedType DEF CInv, Types
  <2> QED
    BY <2>1, <2>2, DrainedIs DEF Mirrors
<1> QED
  BY <1>1, ConnectorInvariant, PTL

(* UntrackedAreCancelled: the session's active_orders holds every order it   *)
(* has posted, or the cancellation of that order is under way.               *)
THEOREM SessionKnowsItsOrders == Spec => []UntrackedAreCancelled
<1>1. CInv => UntrackedAreCancelled
  <2> SUFFICES ASSUME CInv, Mirroring, clean, NEW k \in Key,
                      resting[k] > 0, k \notin active_orders
               PROVE  Pending(k) # {} /\ wire[Max(Pending(k))].action = "cancel"
    BY DEF UntrackedAreCancelled
  <2>1. Mirrors(k)
    BY DEF CInv, Listening
  <2>2. Listed(mirrored, k) \in Nat /\ resting[k] \in Nat
    BY ListedType DEF CInv, Types
  <2>3. Listed(mirrored, k) = 0
    BY <2>1, <2>2 DEF Mirrors
  <2>4. Pending(k) # {}
    BY <2>1, <2>2, <2>3 DEF Mirrors
  <2> QED
    BY <2>1, <2>4, DrainedIs DEF Mirrors
<1> QED
  BY <1>1, ConnectorInvariant, PTL
=============================================================================
