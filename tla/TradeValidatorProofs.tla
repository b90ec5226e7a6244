----------------------- MODULE TradeValidatorProofs ------------------------
(* What the verdicts of TradeValidator are worth: on the book whose depth it *)
(* read, the script predicts what the engine trades at every price, and a    *)
(* failure it reports has a cause.                                           *)
EXTENDS TradeValidator, PriorityRulesProofs

-----------------------------------------------------------------------------
(* Sums and shares *)

(* A sum over two sets that do not meet. *)
LEMMA SumUnion ==
  ASSUME NEW w, NEW S, IsFiniteSet(S), NEW A \in SUBSET S, NEW C \in SUBSET S,
         S = A \cup C, A \cap C = {}, \A x \in S : w[x] \in Int
  PROVE  Sum(w, S) = Sum(w, A) + Sum(w, C)
<1>1. PICK v, u : /\ v = [x \in S |-> IF x \in A THEN w[x] ELSE 0]
                  /\ u = [x \in S |-> IF x \in A THEN 0 ELSE w[x]]
  OBVIOUS
<1>2. \A x \in S : v[x] \in Int /\ w[x] \in Int /\ u[x] = w[x] - v[x] /\ u[x] \in Int
  BY <1>1
<1>3. Sum(u, S) = Sum(w, S) - Sum(v, S)
  BY <1>2, SumMinus
<1>4. Sum(v, S) = Sum(v, A)
  <2>1. \A x \in S \ A : v[x] = 0
    BY <1>1
  <2> QED
    BY <1>2, <2>1, SumSubset
<1>5. Sum(u, S) = Sum(u, C)
  <2>1. \A x \in S \ C : u[x] = 0
    BY <1>1
  <2> QED
    BY <1>2, <2>1, SumSubset
<1>6. IsFiniteSet(A) /\ IsFiniteSet(C)
  BY FS_Subset
<1>7. Sum(v, A) = Sum(w, A)
  <2>1. \A x \in A : v[x] = w[x]
    BY <1>1
  <2> QED
    BY <1>6, <2>1, SumEqual
<1>8. Sum(u, C) = Sum(w, C)
  <2>1. \A x \in C : u[x] = w[x]
    BY <1>1
  <2> QED
    BY <1>6, <2>1, SumEqual
<1>9. Sum(w, S) \in Int /\ Sum(w, A) \in Int
  BY <1>6, SumType
<1> QED
  BY <1>3, <1>4, <1>5, <1>7, <1>8, <1>9

(* A larger set has a larger sum. *)
LEMMA SumGrows ==
  ASSUME NEW w, NEW S, IsFiniteSet(S), NEW A \in SUBSET S, \A x \in S : w[x] \in Nat
  PROVE  Sum(w, A) \in Nat /\ Sum(w, S) \in Nat /\ Sum(w, A) <= Sum(w, S)
<1>1. IsFiniteSet(A) /\ IsFiniteSet(S \ A)
  BY FS_Subset
<1>2. Sum(w, S) = Sum(w, A) + Sum(w, S \ A)
  BY SumUnion
<1>3. Sum(w, A) \in Nat /\ Sum(w, S \ A) \in Nat /\ Sum(w, S) \in Nat
  BY <1>1, SumType
<1> QED
  BY <1>2, <1>3

(* The share of two together is the share of one and what it leaves the other. *)
LEMMA ShareOfBoth ==
  ASSUME NEW x \in Nat, NEW y \in Nat, NEW left \in Int
  PROVE  Share(x + y, left) = Share(x, left) + Share(y, left - x)
BY DEF Share

(* A share is no more than there is. *)
LEMMA ShareType ==
  ASSUME NEW x \in Nat, NEW left \in Int
  PROVE  Share(x, left) \in 0 .. x
BY DEF Share

(* Each of some positions gives its share of what those before it leave.     *)
SharesInTurn(given, w, S, left) ==
  \A i \in S : /\ w[i] \in Nat
               /\ given[i] = Share(w[i], left - Sum(w, {j \in S : j < i}))

(* Then they give their share together. *)
LEMMA SharesAddUp ==
  ASSUME NEW S \in SUBSET Int, IsFiniteSet(S), NEW w, NEW given, NEW left \in Int,
         SharesInTurn(given, w, S, left)
  PROVE  Sum(given, S) = Share(Sum(w, S), left)
<1> DEFINE Down(A) == \A i \in A : \A j \in S : j < i => j \in A
           Wrong   == {A \in SUBSET S : Down(A) /\ Sum(given, A) # Share(Sum(w, A), left)}
<1>1. SUFFICES ASSUME Wrong # {} PROVE FALSE
  OBVIOUS
<1>2. Wrong \subseteq FiniteSubsetsOf(S)
  BY FS_Subset DEF FiniteSubsetsOf
<1>3. PICK A : A \in Wrong /\ \A C \in Wrong : ~ (C \subseteq A /\ C # A)
  <2> HIDE DEF Wrong
  <2> QED BY <1>1, <1>2, SmallestSubset
<1>4. A \in SUBSET S /\ Down(A) /\ IsFiniteSet(A)
  BY <1>3, FS_Subset
<1>5. Sum(given, A) # Share(Sum(w, A), left)
  BY <1>3
<1>6. A # {}
  <2>1. Sum(w, {}) = 0 /\ Sum(given, {}) = 0
    BY SumEmpty
  <2> QED
    BY <1>5, <2>1 DEF Share
<1>7. PICK m \in A : \A j \in A : j <= m
  <2>1. A \subseteq Int
    BY <1>4
  <2> QED
    BY <1>4, <1>6, <2>1, GreatestIs
<1>8. PICK C : C = A \ {m}
  OBVIOUS
<1>9. C \in SUBSET S /\ C \subseteq A /\ C # A /\ IsFiniteSet(C) /\ m \in S /\ m \in Int
  BY <1>4, <1>8, FS_Subset
<1>10. Down(C)
  <2>1. ASSUME NEW i \in C, NEW j \in S, j < i
        PROVE  j \in C
    <3>1. j \in A /\ j # m
      <4>1. i \in A /\ i <= m /\ j \in Int /\ i \in Int
        BY <1>4, <1>7, <1>8
      <4> QED
        BY <1>4, <1>9, <2>1, <4>1
    <3> QED
      BY <1>8, <3>1
  <2> QED
    BY <2>1
<1>11. Sum(given, C) = Share(Sum(w, C), left)
  BY <1>3, <1>9, <1>10
<1>12. {j \in S : j < m} = C
  <2>1. ASSUME NEW j \in S
        PROVE  j < m <=> j \in C
    <3>1. j < m => j \in A
      BY <1>4
    <3>2. j \in A => j <= m
      BY <1>7
    <3> QED
      BY <1>8, <1>9, <3>1, <3>2
  <2> QED
    BY <1>9, <2>1
<1>13. \A i \in S : w[i] \in Nat /\ given[i] \in Int
  <2>1. ASSUME NEW i \in S PROVE w[i] \in Nat /\ given[i] \in Int
    <3>1. w[i] \in Nat
      BY DEF SharesInTurn
    <3>2. Sum(w, {j \in S : j < i}) \in Nat
      <4>1. {j \in S : j < i} \in SUBSET S /\ \A j \in S : w[j] \in Nat
        BY DEF SharesInTurn
      <4> QED
        BY <4>1, SumGrows
    <3>3. given[i] = Share(w[i], left - Sum(w, {j \in S : j < i}))
      BY DEF SharesInTurn
    <3> QED
      <4>1. left - Sum(w, {j \in S : j < i}) \in Int
        BY <3>2
      <4>2. given[i] \in 0 .. w[i]
        BY <3>1, <3>3, <4>1, ShareType
      <4> QED
        BY <3>1, <4>2
  <2> QED
    BY <2>1
<1>14. given[m] = Share(w[m], left - Sum(w, C))
  BY <1>9, <1>12 DEF SharesInTurn
<1>15. \A x \in A : given[x] \in Int /\ w[x] \in Int
  BY <1>4, <1>13
<1>16. Sum(given, A) = given[m] + Sum(given, C) /\ Sum(w, A) = w[m] + Sum(w, C)
  <2>1. /\ IsFiniteSet(A) /\ m \in A
        /\ \A x \in A : given[x] \in Int
        /\ \A x \in A : w[x] \in Int
    BY <1>4, <1>15
  <2>2. Sum(given, A) = given[m] + Sum(given, A \ {m})
    BY ONLY <2>1, SumSplit
  <2>3. Sum(w, A) = w[m] + Sum(w, A \ {m})
    BY ONLY <2>1, SumSplit
  <2> QED
    BY <1>8, <2>2, <2>3
<1>17. Sum(w, C) \in Nat /\ w[m] \in Nat
  BY <1>9, <1>13, SumType
<1>18. Share(Sum(w, C) + w[m], left) = Share(Sum(w, C), left) + Share(w[m], left - Sum(w, C))
  BY <1>17, ShareOfBoth
<1>19. given[m] \in Int /\ Share(Sum(w, C), left) \in Int
  BY <1>9, <1>13, <1>17, ShareType
<1>20. Sum(w, C) + w[m] = w[m] + Sum(w, C)
  BY <1>17
<1>21. Share(Sum(w, A), left) = Share(Sum(w, C), left) + given[m]
  BY <1>14, <1>16, <1>18, <1>20, Zenon
<1> QED
  <2> HIDE DEF Wrong, Down
  <2> QED BY <1>5, <1>11, <1>16, <1>19, <1>21

-----------------------------------------------------------------------------
(* The order of prices *)

(* No order of a queue stands before one of a better price. *)
Sorted(q, side) ==
  \A i, j \in DOMAIN q : i < j => ~ Before(side, q[j].price, q[i].price)

InOrder(b) == \A s \in Side : Sorted(b[s], s)

(* What is chosen from a queue is in its order. *)
LEMMA ChosenSorted ==
  ASSUME NEW at \in SUBSET Int, IsFiniteSet(at), NEW q, NEW side,
         \A i, j \in at : i < j => ~ Before(side, q[j].price, q[i].price)
  PROVE  Sorted(Chosen(q, at), side)
<1>1. /\ Cardinality(at) \in Nat
      /\ DOMAIN Chosen(q, at) = 1 .. Cardinality(at)
      /\ \A k \in 1 .. Cardinality(at) :
           \E i \in at : PlaceOf(at, i) = k /\ Chosen(q, at)[k] = q[i]
  <2>1. Chosen(q, at) = [k \in 1 .. Cardinality(at) |-> Chosen(q, at)[k]]
    BY ChosenPlaces
  <2>2. DOMAIN [k \in 1 .. Cardinality(at) |-> Chosen(q, at)[k]] = 1 .. Cardinality(at)
    OBVIOUS
  <2>3. DOMAIN Chosen(q, at) = 1 .. Cardinality(at)
    BY <2>1, <2>2, Zenon
  <2> QED
    BY <2>3, ChosenPlaces
<1>2. ASSUME NEW k \in 1 .. Cardinality(at), NEW l \in 1 .. Cardinality(at), k < l
      PROVE  ~ Before(side, Chosen(q, at)[l].price, Chosen(q, at)[k].price)
  <2>1. PICK i \in at : PlaceOf(at, i) = k /\ Chosen(q, at)[k] = q[i]
    BY <1>1
  <2>2. PICK j \in at : PlaceOf(at, j) = l /\ Chosen(q, at)[l] = q[j]
    BY <1>1
  <2>3. i < j
    <3>1. SUFFICES ASSUME ~ (i < j) PROVE FALSE
      OBVIOUS
    <3>2. i = j \/ j < i
      BY <3>1
    <3>3. j < i => l < k
      BY <2>1, <2>2, PlacesInOrder
    <3>4. i = j => k = l
      BY <2>1, <2>2
    <3> QED
      BY <1>1, <1>2, <3>2, <3>3, <3>4
  <2> QED
    BY <2>1, <2>2, <2>3
<1> QED
  BY <1>1, <1>2 DEF Sorted

(* A newcomer goes where the order of prices has it. *)
LEMMA QueuedSorted ==
  ASSUME NEW T, NEW q \in Seq(T), NEW o, NEW qty, NewEntry(o, qty) \in T,
         \A e \in T : e.price \in Int, o.side \in Side, Sorted(q, o.side)
  PROVE  Sorted(Queued(q, o, qty), o.side)
<1> DEFINE A == InFront(q, o)
<1>1. /\ Len(q) \in Nat /\ DOMAIN q = 1 .. Len(q)
      /\ \A i \in 1 .. Len(q) : q[i].price \in Int
  BY SeqPositions
<1>2. o.price \in Int
  <2>1. NewEntry(o, qty).price = o.price
    BY DEF NewEntry
  <2> QED
    BY <2>1
<1>3. A \in SUBSET (1 .. Len(q))
  BY <1>1 DEF InFront
<1>4. ASSUME NEW i \in A, NEW j \in 1 .. Len(q), j < i
      PROVE  j \in A
  <2>1. i \in 1 .. Len(q) /\ ~ Before(o.side, o.price, q[i].price)
    BY <1>1 DEF InFront
  <2>2. ~ Before(o.side, q[i].price, q[j].price)
    BY <1>1, <1>4, <2>1 DEF Sorted
  <2>3. q[i].price \in Int /\ q[j].price \in Int
    BY <1>1, <2>1
  <2>4. ~ Before(o.side, o.price, q[j].price)
    BY <1>2, <2>1, <2>2, <2>3 DEF Before, Side
  <2> QED
    BY <1>1, <2>4 DEF InFront
<1>5. PICK c \in 0 .. Len(q) : c = Cardinality(A) /\ A = 1 .. c
  <2> HIDE DEF A
  <2> QED BY <1>1, <1>3, <1>4, FirstOnes
<1> HIDE DEF A
<1>12. c \in Int /\ 0 <= c /\ c <= Len(q) /\ Len(q) \in Int
  BY <1>1, <1>5
<1>6. PICK w : w = Queued(q, o, qty)
  OBVIOUS
<1>7. w \in Seq(T) /\ Len(w) = Len(q) + 1 /\ LetIn(w, q, c, NewEntry(o, qty))
  BY <1>5, <1>6, NewcomerPlace DEF A
<1>8. DOMAIN w = 1 .. Len(q) + 1
  BY <1>7, SeqPositions
<1>9. NewEntry(o, qty).price = o.price
  BY DEF NewEntry
<1>10. \A i \in 1 .. Len(q) : i <= c <=> ~ Before(o.side, o.price, q[i].price)
  <2>1. \A i \in 1 .. Len(q) : i \in A <=> ~ Before(o.side, o.price, q[i].price)
    BY <1>1 DEF A, InFront
  <2>2. \A i \in 1 .. Len(q) : i \in A <=> i <= c
    <3>1. A = 1 .. c
      BY <1>5
    <3>2. \A i \in 1 .. Len(q) : i \in 1 .. c <=> i <= c
      BY <1>12
    <3> QED
      BY <3>1, <3>2, Zenon
  <2> QED
    BY <2>1, <2>2
<1>11. ASSUME NEW i \in DOMAIN w, NEW j \in DOMAIN w, i < j
       PROVE  ~ Before(o.side, w[j].price, w[i].price)
  <2>1. /\ i \in 1 .. Len(q) + 1 /\ j \in 1 .. Len(q) + 1 /\ i \in Int /\ j \in Int
        /\ c \in Int /\ Len(q) \in Int
    BY <1>1, <1>5, <1>8
  <2>2. \A k \in 1 .. Len(q) + 1 :
          w[k] = IF k <= c THEN q[k] ELSE IF k = c + 1 THEN NewEntry(o, qty) ELSE q[k - 1]
    BY <1>7 DEF LetIn
  <2>3. \A k, l \in 1 .. Len(q) : k < l => ~ Before(o.side, q[l].price, q[k].price)
    BY <1>1 DEF Sorted
  <2>4. CASE j <= c
    BY <1>5, <1>11, <2>1, <2>2, <2>3, <2>4
  <2>5. CASE j = c + 1
    <3>1. i <= c /\ i \in 1 .. Len(q)
      <4>1. c \in Int /\ c <= Len(q) /\ i < c + 1 /\ i >= 1
        BY <1>11, <1>12, <2>1, <2>5
      <4> QED
        BY <2>1, <4>1
    <3>2. w[i] = q[i] /\ w[j] = NewEntry(o, qty)
      BY <2>1, <2>2, <2>5, <3>1
    <3> QED
      BY <1>9, <1>10, <3>1, <3>2
  <2>6. CASE j > c + 1
    <3>1. w[j] = q[j - 1] /\ j - 1 \in 1 .. Len(q) /\ ~ (j - 1 <= c)
      BY <1>5, <2>1, <2>2, <2>6
    <3>2. CASE i <= c
      BY <1>5, <1>11, <2>1, <2>2, <2>3, <3>1, <3>2
    <3>3. CASE i = c + 1
      <4>1. w[i] = NewEntry(o, qty)
        BY <2>1, <2>2, <3>3
      <4>2. Before(o.side, o.price, q[j - 1].price)
        BY <1>10, <3>1
      <4>3. q[j - 1].price \in Int
        BY <1>1, <3>1
      <4>4. ~ Before(o.side, q[j - 1].price, o.price)
        BY <1>2, <4>2, <4>3 DEF Before, Side
      <4> QED
        BY <1>9, <3>1, <4>1, <4>4
    <3>4. CASE i > c + 1
      <4>1. i - 1 \in 1 .. Len(q) /\ i - 1 < j - 1 /\ ~ (i <= c) /\ i # c + 1
        BY <1>11, <1>12, <2>1, <3>4
      <4>2. w[i] = q[i - 1]
        BY <2>1, <2>2, <4>1
      <4> QED
        BY <2>3, <3>1, <4>1, <4>2
    <3> QED
      BY <2>1, <3>2, <3>3, <3>4
  <2> QED
    BY <2>1, <2>4, <2>5, <2>6
<1> QED
  BY <1>6, <1>11 DEF Sorted

(* A cancellation leaves the order as it is. *)
LEMMA WithoutInOrder ==
  ASSUME NEW ids, NEW prices, NEW b \in Book(ids, prices), InOrder(b), NEW id
  PROVE  InOrder(Without(b, id))
<1>1. ASSUME NEW s \in Side
      PROVE  Sorted(Without(b, id)[s], s)
  <2>1. PICK at : at = {i \in DOMAIN b[s] : b[s][i].order_id # id}
    OBVIOUS
  <2>2. Without(b, id)[s] = Chosen(b[s], at)
    BY <2>1 DEF Without
  <2>3. b[s] \in Seq(Entry(ids, prices))
    BY DEF Book
  <2>4. at \in SUBSET Int /\ IsFiniteSet(at) /\ at \subseteq DOMAIN b[s]
    BY <2>1, <2>3, SeqPositions
  <2>5. \A i, j \in at : i < j => ~ Before(s, b[s][j].price, b[s][i].price)
    BY <2>4 DEF InOrder, Sorted
  <2> QED
    BY <2>2, <2>4, <2>5, ChosenSorted
<1> QED
  BY <1>1 DEF InOrder

(* So does a submission. *)
LEMMA SubmittedInOrder ==
  ASSUME NEW ids, NEW prices, prices \subseteq Int, NEW b \in Book(ids, prices), InOrder(b),
         NEW o, IsOrder(o, ids, prices)
  PROVE  InOrder(Submitted(b, o).book)
<1>1. PICK rest, given : rest \in Book(ids, prices) /\ Sweeps(b, o, rest, given)
  BY SubmittedIs
<1>2. InOrder(rest) /\ Shares(given, rest[Opposite(o.side)])
  BY <1>1, WithoutInOrder DEF Sweeps
<1>3. CASE ~ Passes(rest, o)
  <2>1. Submitted(b, o) = [fills |-> <<>>, book |-> rest]
    BY <1>1, <1>3 DEF Sweeps
  <2> QED
    BY <1>2, <2>1
<1>4. CASE Passes(rest, o)
  <2>1. Submitted(b, o) = Settle(rest, o, given)
    BY <1>1, <1>4 DEF Sweeps
  <2>2. PICK after, fill, left : Parts(ids, prices, rest, o, given, after, fill, left)
    BY <1>1, <1>2, SettleParts
  <2>3. PICK new : new = Settle(rest, o, given)
    OBVIOUS
  <2>4. PICK makers, s : makers = rest[Opposite(o.side)] /\ s = Opposite(o.side)
    OBVIOUS
  <2>5. /\ makers \in Seq(Entry(ids, prices)) /\ rest[o.side] \in Seq(Entry(ids, prices))
        /\ s \in Side /\ o.side \in Side /\ s # o.side /\ left \in Int
        /\ \A i \in DOMAIN makers : after[i] = After(makers[i], given[i])
        /\ new.book[s]
             = Chosen(after, {i \in DOMAIN makers : after[i].remaining_quantity > 0})
        /\ new.book[o.side] = IF o.order_type \in {LIMIT, FOK} /\ left > 0
                              THEN Queued(rest[o.side], o, left) ELSE rest[o.side]
    BY <2>2, <2>3, <2>4 DEF Parts
  <2>6. Sorted(new.book[s], s)
    <3>1. PICK at : at = {i \in DOMAIN makers : after[i].remaining_quantity > 0}
      OBVIOUS
    <3>2. at \in SUBSET Int /\ IsFiniteSet(at) /\ at \subseteq DOMAIN makers
      BY <2>5, <3>1, SeqPositions
    <3>3. \A i \in DOMAIN makers : after[i].price = makers[i].price
      <4>1. ASSUME NEW i \in DOMAIN makers PROVE after[i].price = makers[i].price
        <5>1. makers[i] \in Entry(ids, prices)
          BY <2>5, EntryHasLeft
        <5>2. after[i] = [makers[i] EXCEPT !.remaining_quantity = @ - given[i]]
          BY <2>5 DEF After
        <5> QED
          BY <5>1, <5>2 DEF Entry
      <4> QED
        BY <4>1
    <3>4. \A i, j \in at : i < j => ~ Before(s, after[j].price, after[i].price)
      BY <1>2, <2>4, <2>5, <3>2, <3>3 DEF InOrder, Sorted
    <3> QED
      BY <2>5, <3>1, <3>2, <3>4, ChosenSorted
  <2>7. Sorted(new.book[o.side], o.side)
    <3>1. Sorted(rest[o.side], o.side)
      BY <1>2, <2>5 DEF InOrder
    <3>2. ASSUME o.order_type \in {LIMIT, FOK}, left > 0
          PROVE  Sorted(Queued(rest[o.side], o, left), o.side)
      <4>1. NewEntry(o, left) \in Entry(ids, prices)
        BY <2>5, <3>2 DEF NewEntry, Entry, IsOrder
      <4>2. \A e \in Entry(ids, prices) : e.price \in Int
        BY DEF Entry
      <4> QED
        BY <2>5, <3>1, <4>1, <4>2, QueuedSorted
    <3> QED
      BY <2>5, <3>1, <3>2
  <2>8. \A t \in Side : t = s \/ t = o.side
    BY <2>4, <2>5 DEF Side, Opposite
  <2> QED
    BY <2>1, <2>3, <2>6, <2>7, <2>8 DEF InOrder
<1> QED
  BY <1>3, <1>4

-----------------------------------------------------------------------------
(* The walk over the levels *)

(* One round of the recursion that defines the walk over the levels L, the   *)
(* last of them last, and the functions that solve it.                       *)
Start(o) == [done |-> FALSE, remaining |-> o.quantity, trades |-> <<>>]

WalkRound(o, L, f, s) ==
  IF s = {} THEN Start(o) ELSE MatchLevel(o, f[s \ {Max(s)}], L[Max(s)])

Walks(f, o, L, S) == f = [s \in SUBSET S |-> WalkRound(o, L, f, s)]

(* The walk is a solution, at all levels. *)
LEMMA WalkDefinition ==
  ASSUME NEW o, NEW L
  PROVE  Walk(o, L) = (CHOOSE f : Walks(f, o, L, DOMAIN L))[DOMAIN L]
BY DEF Walk, FoldLeft, MapThenFoldSet, Walks, WalkRound, Start

(* Two solutions agree on what they have in common. *)
LEMMA WalksAgree ==
  ASSUME NEW o, NEW L, NEW S \in SUBSET Int, NEW T \in SUBSET Int,
         NEW f, NEW g, Walks(f, o, L, S), Walks(g, o, L, T),
         NEW s \in SUBSET (S \cap T), IsFiniteSet(s)
  PROVE  f[s] = g[s]
<1> DEFINE Differ == {u \in SUBSET s : f[u] # g[u]}
<1>1. SUFFICES ASSUME Differ # {} PROVE FALSE
  OBVIOUS
<1>2. Differ \subseteq FiniteSubsetsOf(s)
  BY FS_Subset DEF FiniteSubsetsOf
<1>3. PICK u : u \in Differ /\ \A t \in Differ : ~ (t \subseteq u /\ t # u)
  <2> HIDE DEF Differ
  <2> QED BY <1>1, <1>2, SmallestSubset
<1>4. u \in SUBSET s /\ u \in SUBSET S /\ u \in SUBSET T /\ f[u] # g[u]
  BY <1>3
<1>5. f[u] = WalkRound(o, L, f, u) /\ g[u] = WalkRound(o, L, g, u)
  BY <1>4 DEF Walks
<1>6. CASE u = {}
  BY <1>4, <1>5, <1>6 DEF WalkRound
<1>7. CASE u # {}
  <2>1. PICK m : m = Max(u)
    OBVIOUS
  <2>2. m \in u
    <3>1. u \subseteq Int /\ IsFiniteSet(u)
      BY <1>4, FS_Subset
    <3> QED
      BY <1>7, <2>1, <3>1, GreatestIs
  <2>3. u \ {m} \in SUBSET s /\ u \ {m} \subseteq u /\ u \ {m} # u
    BY <1>4, <2>2
  <2>4. f[u \ {m}] = g[u \ {m}]
    BY <1>3, <2>3
  <2>5. /\ f[u] = MatchLevel(o, f[u \ {m}], L[m])
        /\ g[u] = MatchLevel(o, g[u \ {m}], L[m])
    BY <1>5, <1>7, <2>1 DEF WalkRound
  <2> QED
    BY <1>4, <2>4, <2>5
<1> QED
  BY <1>6, <1>7

(* The recursion has a solution. *)
LEMMA WalksExist ==
  ASSUME NEW o, NEW L, NEW S \in SUBSET Int, IsFiniteSet(S)
  PROVE  \E f : Walks(f, o, L, S)
<1> DEFINE Missing == {T \in SUBSET S : ~ \E f : Walks(f, o, L, T)}
<1>1. SUFFICES ASSUME Missing # {} PROVE FALSE
  OBVIOUS
<1>2. Missing \subseteq FiniteSubsetsOf(S)
  BY FS_Subset DEF FiniteSubsetsOf
<1>3. PICK T : T \in Missing /\ \A U \in Missing : ~ (U \subseteq T /\ U # T)
  <2> HIDE DEF Missing
  <2> QED BY <1>1, <1>2, SmallestSubset
<1>4. T \in SUBSET S /\ IsFiniteSet(T) /\ ~ \E f : Walks(f, o, L, T)
  BY <1>3, FS_Subset
<1> DEFINE walk(U) == CHOOSE f : Walks(f, o, L, U)
           known == [U \in SUBSET T |-> walk(U)[U]]
           g == [U \in SUBSET T |-> IF U = T THEN WalkRound(o, L, known, T) ELSE walk(U)[U]]
<1>5. ASSUME NEW U \in SUBSET T, U # T
      PROVE  /\ Walks(walk(U), o, L, U)
             /\ walk(U)[U] = WalkRound(o, L, walk(U), U)
             /\ g[U] = walk(U)[U]
  <2>1. Walks(walk(U), o, L, U)
    BY <1>3, <1>4, <1>5
  <2>2. g[U] = walk(U)[U]
    BY <1>5
  <2> HIDE DEF walk
  <2> QED
    BY <2>1, <2>2 DEF Walks
<1>6. ASSUME NEW U \in SUBSET T, U # {}
      PROVE  Max(U) \in U /\ U \ {Max(U)} \in SUBSET T /\ U \ {Max(U)} # T
  <2>1. U \subseteq Int /\ IsFiniteSet(U)
    BY <1>4, FS_Subset
  <2>2. Max(U) \in U
    BY <1>6, <2>1, GreatestIs
  <2> QED
    BY <2>2
<1>7. ASSUME NEW U \in SUBSET T
      PROVE  g[U] = WalkRound(o, L, g, U)
  <2>1. CASE U = {}
    <3>1. \A h : WalkRound(o, L, h, U) = Start(o)
      BY <2>1 DEF WalkRound
    <3>2. CASE U = T
      <4>1. g[U] = WalkRound(o, L, known, U)
        BY <3>2
      <4> QED
        BY <3>1, <4>1
    <3>3. CASE U # T
      <4> HIDE DEF g, walk
      <4> QED
        BY <1>5, <3>1, <3>3
    <3> QED
      BY <3>2, <3>3
  <2>2. CASE U # {}
    <3>1. PICK m, V : m = Max(U) /\ V = U \ {Max(U)}
      OBVIOUS
    <3>2. m \in U /\ V \in SUBSET T /\ V # T /\ V \in SUBSET U
      BY <1>6, <2>2, <3>1
    <3>3. \A h : WalkRound(o, L, h, U) = MatchLevel(o, h[V], L[m])
      BY <2>2, <3>1 DEF WalkRound
    <3>4. g[V] = walk(V)[V] /\ Walks(walk(V), o, L, V)
      <4> HIDE DEF g, walk
      <4> QED
        BY <1>5, <3>2
    <3>5. CASE U = T
      <4>1. g[U] = WalkRound(o, L, known, U)
        BY <3>5
      <4>2. known[V] = walk(V)[V]
        BY <3>2
      <4> HIDE DEF g, walk, known
      <4> QED
        BY <3>3, <3>4, <4>1, <4>2
    <3>6. CASE U # T
      <4>1. Walks(walk(U), o, L, U) /\ g[U] = WalkRound(o, L, walk(U), U)
        <5> HIDE DEF g, walk
        <5> QED
          BY <1>5, <3>6
      <4>2. IsFiniteSet(V) /\ V \in SUBSET (U \cap V) /\ U \in SUBSET Int /\ V \in SUBSET Int
        BY <1>4, <3>2, FS_Subset
      <4> HIDE DEF g, walk
      <4>3. walk(U)[V] = walk(V)[V]
        BY <3>4, <4>1, <4>2, WalksAgree
      <4> QED
        BY <3>3, <3>4, <4>1, <4>3
    <3> QED
      BY <3>5, <3>6
  <2> QED
    BY <2>1, <2>2
<1>8. g = [U \in SUBSET T |-> g[U]]
  <2> HIDE DEF walk, known
  <2> QED OBVIOUS
<1> HIDE DEF g, walk
<1>9. [U \in SUBSET T |-> g[U]] = [U \in SUBSET T |-> WalkRound(o, L, g, U)]
  BY <1>7
<1>10. Walks(g, o, L, T)
  BY <1>8, <1>9, Zenon DEF Walks
<1> QED
  BY <1>4, <1>10

(* The walk, level by level. *)
Stages(W, o, L, n) ==
  /\ W[0] = Start(o)
  /\ \A k \in 1 .. n : W[k] = MatchLevel(o, W[k - 1], L[k])

(* So the walk has a state after each level. *)
LEMMA WalkStages ==
  ASSUME NEW o, NEW L, NEW n \in Nat, DOMAIN L = 1 .. n
  PROVE  \E W : Stages(W, o, L, n) /\ Walk(o, L) = W[n]
<1>1. 1 .. n \in SUBSET Int /\ IsFiniteSet(1 .. n)
  BY FS_Interval
<1>2. PICK f : Walks(f, o, L, 1 .. n) /\ f = (CHOOSE h : Walks(h, o, L, 1 .. n))
  BY <1>1, WalksExist
<1>3. Walk(o, L) = f[1 .. n]
  BY <1>2, WalkDefinition
<1>4. PICK W : W = [k \in 0 .. n |-> f[1 .. k]]
  OBVIOUS
<1>5. W[0] = Start(o)
  <2>1. W[0] = f[{}]
    BY <1>4
  <2>2. f[{}] = WalkRound(o, L, f, {})
    BY <1>2 DEF Walks
  <2> QED
    BY <2>1, <2>2 DEF WalkRound
<1>6. ASSUME NEW k \in 1 .. n
      PROVE  W[k] = MatchLevel(o, W[k - 1], L[k])
  <2>1. W[k] = f[1 .. k] /\ W[k - 1] = f[1 .. k - 1]
    BY <1>4
  <2>2. 1 .. k \in SUBSET (1 .. n) /\ 1 .. k # {} /\ IsFiniteSet(1 .. k) /\ 1 .. k \subseteq Int
    <3>1. k \in Int /\ 1 \in Int
      OBVIOUS
    <3>2. IsFiniteSet(1 .. k)
      BY <3>1, FS_Interval
    <3>3. k \in 1 .. k /\ 1 .. k \in SUBSET (1 .. n) /\ 1 .. k \subseteq Int
      OBVIOUS
    <3> QED
      BY <3>2, <3>3
  <2>3. Max(1 .. k) = k
    <3>1. PICK m : m = Max(1 .. k)
      OBVIOUS
    <3>2. m \in 1 .. k /\ \A x \in 1 .. k : x <= m
      BY <2>2, <3>1, GreatestIs
    <3>3. k \in 1 .. k
      OBVIOUS
    <3>4. k <= m
      BY <3>2, <3>3, Zenon
    <3> QED
      BY <3>1, <3>2, <3>4
  <2>4. (1 .. k) \ {k} = 1 .. k - 1
    OBVIOUS
  <2>5. f[1 .. k] = WalkRound(o, L, f, 1 .. k)
    BY <1>2, <2>2 DEF Walks
  <2>6. f[1 .. k] = MatchLevel(o, f[(1 .. k) \ {Max(1 .. k)}], L[Max(1 .. k)])
    BY <2>2, <2>5 DEF WalkRound
  <2> QED
    BY <2>1, <2>3, <2>4, <2>6
<1>7. W[n] = f[1 .. n]
  BY <1>4
<1> QED
  BY <1>3, <1>5, <1>6, <1>7 DEF Stages

(* Levels as a depth message has them, n of them. *)
IsLevels(L, n) ==
  DOMAIN L = 1 .. n /\ \A k \in 1 .. n : L[k][1] \in Int /\ L[k][2] \in Nat \ {0}

(* What the first k levels hold. *)
UpToLevel(L, k) == Sum([j \in 1 .. k |-> L[j][2]], 1 .. k)

(* What a prediction consists of. *)
PredictedTrades == Seq([price : Int, quantity : Nat \ {0}])

(* The trade that the walk predicts for level k. *)
TradeAt(o, L, k) ==
  [price |-> L[k][1], quantity |-> Share(L[k][2], o.quantity - UpToLevel(L, k - 1))]

(* The first levels of k are those traded with, each at its share, and the   *)
(* next of them, if there is one, is beyond the limit or not needed.         *)
Walked(o, L, st, k) ==
  LET m == Len(st.trades)
  IN  /\ st \in [done : BOOLEAN, remaining : Int, trades : PredictedTrades]
      /\ st.remaining = o.quantity - Share(UpToLevel(L, m), o.quantity)
      /\ \A j \in 1 .. m : /\ ~ Beyond(o, L[j][1])
                           /\ o.quantity - UpToLevel(L, j - 1) > 0
                           /\ st.trades[j] = TradeAt(o, L, j)
      /\ m <= k
      /\ m < k => Beyond(o, L[m + 1][1]) \/ st.remaining <= 0
      /\ st.done <=> m < k

(* Each level adds what it holds. *)
LEMMA UpToLevelIs ==
  ASSUME NEW L, NEW n \in Nat, IsLevels(L, n)
  PROVE  /\ UpToLevel(L, 0) = 0
         /\ \A k \in 0 .. n : UpToLevel(L, k) \in Nat
         /\ \A k \in 1 .. n : UpToLevel(L, k) = UpToLevel(L, k - 1) + L[k][2]
<1>1. UpToLevel(L, 0) = 0
  <2>1. 1 .. 0 = {}
    OBVIOUS
  <2> QED
    BY <2>1, SumEmpty DEF UpToLevel
<1>2. ASSUME NEW k \in 0 .. n
      PROVE  UpToLevel(L, k) \in Nat
  <2>1. PICK w : w = [j \in 1 .. k |-> L[j][2]]
    OBVIOUS
  <2>2. \A j \in 1 .. k : w[j] \in Nat
    BY <2>1 DEF IsLevels
  <2>3. IsFiniteSet(1 .. k)
    <3>1. k \in Int /\ 1 \in Int
      OBVIOUS
    <3> QED
      BY <3>1, FS_Interval
  <2>4. Sum(w, 1 .. k) \in Nat
    BY <2>2, <2>3, SumType
  <2> QED
    BY <2>1, <2>4 DEF UpToLevel
<1>3. ASSUME NEW k \in 1 .. n
      PROVE  UpToLevel(L, k) = UpToLevel(L, k - 1) + L[k][2]
  <2>1. PICK w, v : w = [j \in 1 .. k |-> L[j][2]] /\ v = [j \in 1 .. k - 1 |-> L[j][2]]
    OBVIOUS
  <2>2. /\ \A j \in 1 .. k : w[j] \in Int
        /\ \A j \in 1 .. k - 1 : w[j] = v[j]
        /\ w[k] = L[k][2] /\ w[k] \in Int
    BY <2>1 DEF IsLevels
  <2>3. IsFiniteSet(1 .. k) /\ IsFiniteSet(1 .. k - 1)
    <3>1. k \in Int /\ 1 \in Int /\ k - 1 \in Int
      OBVIOUS
    <3> QED
      BY <3>1, FS_Interval
  <2>4. Sum(w, 1 .. k) = w[k] + Sum(w, (1 .. k) \ {k})
    <3>1. k \in 1 .. k
      OBVIOUS
    <3> QED
      BY <2>2, <2>3, <3>1, SumSplit
  <2>5. (1 .. k) \ {k} = 1 .. k - 1
    OBVIOUS
  <2>6. Sum(w, 1 .. k - 1) = Sum(v, 1 .. k - 1)
    BY <2>2, <2>3, SumEqual
  <2>7. Sum(v, 1 .. k - 1) \in Int
    <3>1. k - 1 \in 0 .. n
      OBVIOUS
    <3> QED
      BY <1>2, <2>1, <3>1 DEF UpToLevel
  <2>8. UpToLevel(L, k) = Sum(w, 1 .. k) /\ UpToLevel(L, k - 1) = Sum(v, 1 .. k - 1)
    BY <2>1 DEF UpToLevel
  <2>9. Sum(w, 1 .. k) = w[k] + Sum(v, 1 .. k - 1)
    BY <2>4, <2>5, <2>6, Zenon
  <2> QED
    BY <2>2, <2>7, <2>8, <2>9
<1> QED
  BY <1>1, <1>2, <1>3

(* Before the first level nothing is predicted. *)
LEMMA WalkedFirst ==
  ASSUME NEW o, o.quantity \in Int, NEW L, NEW n \in Nat, IsLevels(L, n)
  PROVE  Walked(o, L, Start(o), 0)
<1>1. UpToLevel(L, 0) = 0
  BY UpToLevelIs
<1>2. PICK st : st = Start(o)
  OBVIOUS
<1>3. st \in [done : BOOLEAN, remaining : Int, trades : PredictedTrades]
  BY <1>2 DEF Start, PredictedTrades
<1>4. st.done = FALSE /\ st.remaining = o.quantity /\ Len(st.trades) = 0
  BY <1>2 DEF Start
<1>5. st.remaining = o.quantity - Share(UpToLevel(L, Len(st.trades)), o.quantity)
  BY <1>1, <1>4 DEF Share
<1>6. Walked(o, L, st, 0)
  BY <1>3, <1>4, <1>5 DEF Walked
<1> QED
  BY <1>2, <1>6

(* One level further. *)
LEMMA WalkedFurther ==
  ASSUME NEW o, o.quantity \in Int, NEW L, NEW n \in Nat, IsLevels(L, n),
         NEW k \in 1 .. n, NEW st, Walked(o, L, st, k - 1)
  PROVE  Walked(o, L, MatchLevel(o, st, L[k]), k)
<1>1. PICK m, q, rem, seq, last :
        /\ m = Len(st.trades) /\ q = o.quantity /\ rem = st.remaining /\ seq = st.trades
        /\ last = UpToLevel(L, m)
  OBVIOUS
<1>2. /\ st \in [done : BOOLEAN, remaining : Int, trades : PredictedTrades]
      /\ seq \in PredictedTrades /\ rem \in Int
      /\ rem = q - Share(last, q)
      /\ \A j \in 1 .. m : /\ ~ Beyond(o, L[j][1])
                           /\ q - UpToLevel(L, j - 1) > 0
                           /\ seq[j] = TradeAt(o, L, j)
      /\ m <= k - 1
      /\ m < k - 1 => Beyond(o, L[m + 1][1]) \/ rem <= 0
      /\ st.done <=> m < k - 1
  BY <1>1 DEF Walked
<1>3. m \in Nat /\ q \in Int /\ m = Len(seq)
  BY <1>1, <1>2 DEF PredictedTrades
<1>4. last \in Nat
  <2>1. m \in 0 .. n
    BY <1>2, <1>3
  <2> QED
    BY <1>1, <2>1, UpToLevelIs
<1>5. CASE st.done \/ Beyond(o, L[k][1]) \/ rem <= 0
  <2>1. MatchLevel(o, st, L[k]) = [st EXCEPT !.done = TRUE]
    BY <1>1, <1>5 DEF MatchLevel
  <2>2. m < k /\ (Beyond(o, L[m + 1][1]) \/ rem <= 0)
    <3>1. CASE m < k - 1
      BY <1>2, <1>3, <3>1
    <3>2. CASE m = k - 1
      <4>1. m + 1 = k /\ ~ st.done
        BY <1>2, <3>2
      <4> QED
        BY <1>3, <1>5, <4>1
    <3> QED
      BY <1>2, <1>3, <3>1, <3>2
  <2>3. PICK new : new = MatchLevel(o, st, L[k])
    OBVIOUS
  <2>4. /\ new.done = TRUE /\ new.remaining = rem /\ new.trades = seq
        /\ new \in [done : BOOLEAN, remaining : Int, trades : PredictedTrades]
    BY <1>1, <1>2, <2>1, <2>3
  <2>5. /\ Len(new.trades) = m /\ m <= k /\ m < k
        /\ new.remaining = q - Share(UpToLevel(L, m), q)
    BY <1>1, <1>2, <1>3, <2>2, <2>4
  <2>6. Walked(o, L, new, k)
    BY <1>1, <1>2, <2>2, <2>4, <2>5 DEF Walked
  <2> QED
    BY <2>3, <2>6
<1>6. CASE ~ st.done /\ ~ Beyond(o, L[k][1]) /\ ~ (rem <= 0)
  <2>1. m = k - 1
    BY <1>2, <1>3, <1>6
  <2>2. PICK x : x = L[k][2]
    OBVIOUS
  <2>3. x \in Nat /\ x > 0 /\ L[k][1] \in Int
    BY <2>2 DEF IsLevels
  <2>4. last < q /\ rem = q - last /\ rem \in Int
    BY <1>2, <1>3, <1>4, <1>6 DEF Share
  <2>5. PICK g : g = Share(x, q - last)
    OBVIOUS
  <2>6. Min({rem, x}) = g /\ g \in Nat /\ g > 0
    <3>1. Min({rem, x}) = IF rem <= x THEN rem ELSE x
      <4>1. x \in Int
        BY <2>3
      <4> QED
        BY <2>4, <4>1, MinOfTwo
    <3> QED
      BY <1>3, <1>4, <2>3, <2>4, <2>5, <3>1 DEF Share
  <2>7. PICK t : t = [price |-> L[k][1], quantity |-> g]
    OBVIOUS
  <2>8. MatchLevel(o, st, L[k])
          = [done |-> FALSE, remaining |-> rem - g, trades |-> Append(seq, t)]
    BY <1>1, <1>6, <2>2, <2>6, <2>7 DEF MatchLevel
  <2>9. t = TradeAt(o, L, k)
    BY <1>1, <2>1, <2>2, <2>5, <2>7 DEF TradeAt
  <2>10. t \in [price : Int, quantity : Nat \ {0}]
    BY <2>3, <2>6, <2>7
  <2>11. PICK more : more = Append(seq, t)
    OBVIOUS
  <2>12. /\ more \in PredictedTrades /\ Len(more) = k
         /\ more[k] = t /\ \A j \in 1 .. m : more[j] = seq[j]
    <3>1. PICK T : T = [price : Int, quantity : Nat \ {0}]
      OBVIOUS
    <3>2. seq \in Seq(T) /\ t \in T /\ PredictedTrades = Seq(T) /\ Len(seq) + 1 = k
      BY <1>2, <1>3, <2>1, <2>10, <3>1 DEF PredictedTrades
    <3>3. /\ more \in Seq(T) /\ Len(more) = Len(seq) + 1 /\ more[Len(seq) + 1] = t
          /\ \A j \in 1 .. Len(seq) : more[j] = seq[j]
      BY <2>11, <3>2
    <3> QED
      BY <1>3, <3>2, <3>3
  <2>13. UpToLevel(L, k) = last + x
    BY <1>1, <2>1, <2>2, UpToLevelIs
  <2>14. rem - g = q - Share(UpToLevel(L, k), q)
    <3>1. Share(last + x, q) = Share(last, q) + Share(x, q - last)
      <4>1. x \in Nat /\ last \in Nat /\ q \in Int
        BY <1>3, <1>4, <2>3
      <4> QED
        BY ONLY <4>1, ShareOfBoth
    <3>2. Share(last, q) = last
      BY <1>3, <1>4, <2>4 DEF Share
    <3>3. Share(UpToLevel(L, k), q) = last + g
      BY <2>5, <2>13, <3>1, <3>2, Zenon
    <3> QED
      BY <1>3, <1>4, <2>4, <2>6, <3>3
  <2>15. ASSUME NEW j \in 1 .. k
         PROVE  /\ ~ Beyond(o, L[j][1])
                /\ q - UpToLevel(L, j - 1) > 0
                /\ more[j] = TradeAt(o, L, j)
    <3>1. CASE j = k
      BY <1>1, <1>3, <1>4, <1>6, <2>1, <2>4, <2>9, <2>12, <3>1
    <3>2. CASE j # k
      <4>1. j \in 1 .. m
        BY <2>1, <3>2
      <4> QED
        BY <1>2, <2>12, <4>1
    <3> QED
      BY <3>1, <3>2
  <2>16. PICK new : new = MatchLevel(o, st, L[k])
    OBVIOUS
  <2>17. /\ new.done = FALSE /\ new.remaining = rem - g /\ new.trades = more
         /\ new \in [done : BOOLEAN, remaining : Int, trades : PredictedTrades]
    BY <2>4, <2>6, <2>8, <2>11, <2>12, <2>16
  <2>18. Len(new.trades) = k /\ new.remaining = q - Share(UpToLevel(L, k), q)
    BY <2>12, <2>14, <2>17
  <2>19. Walked(o, L, new, k)
    BY <1>1, <2>15, <2>17, <2>18 DEF Walked
  <2> QED
    BY <2>16, <2>19
<1> QED
  BY <1>5, <1>6

(* What holds of 0, and of k when it holds of k - 1, holds of n. *)
LEMMA EveryOne ==
  ASSUME NEW n \in Nat, NEW good, 0 \in good,
         \A k \in 1 .. n : k - 1 \in good => k \in good
  PROVE  n \in good
<1>1. PICK bad : bad = {x \in 0 .. n : n - x \notin good}
  OBVIOUS
<1>2. SUFFICES ASSUME n \notin good PROVE FALSE
  OBVIOUS
<1>3. 0 \in bad /\ bad \subseteq Int /\ IsFiniteSet(bad)
  <2>1. IsFiniteSet(0 .. n)
    BY FS_Interval
  <2>2. bad \subseteq 0 .. n
    BY <1>1
  <2> QED
    BY <1>1, <1>2, <2>1, <2>2, FS_Subset
<1>4. PICK m : m \in bad /\ \A x \in bad : x <= m
  BY <1>3, GreatestIs
<1>5. m \in 0 .. n /\ n - m \notin good
  BY <1>1, <1>4
<1>6. m # n
  BY <1>5
<1>7. n - (m + 1) = (n - m) - 1 /\ n - m \in 1 .. n /\ m + 1 \in 0 .. n
  BY <1>5, <1>6
<1>8. n - (m + 1) \notin good
  BY <1>5, <1>7
<1>9. m + 1 \in bad
  BY <1>1, <1>7, <1>8
<1> QED
  BY <1>4, <1>5, <1>9

(* What the walk comes to. *)
LEMMA WalkIs ==
  ASSUME NEW o, o.quantity \in Int, NEW L, NEW n \in Nat, IsLevels(L, n)
  PROVE  Walked(o, L, Walk(o, L), n)
<1>1. PICK W : Stages(W, o, L, n) /\ Walk(o, L) = W[n]
  BY WalkStages DEF IsLevels
<1>2. PICK good : good = {k \in 0 .. n : Walked(o, L, W[k], k)}
  OBVIOUS
<1>3. 0 \in good
  BY <1>1, <1>2, WalkedFirst DEF Stages
<1>4. \A k \in 1 .. n : k - 1 \in good => k \in good
  <2>1. ASSUME NEW k \in 1 .. n, k - 1 \in good
        PROVE  k \in good
    <3>1. Walked(o, L, W[k - 1], k - 1)
      BY <1>2, <2>1
    <3>2. W[k] = MatchLevel(o, W[k - 1], L[k])
      BY <1>1 DEF Stages
    <3>3. Walked(o, L, MatchLevel(o, W[k - 1], L[k]), k)
      BY <3>1, WalkedFurther
    <3> QED
      BY <1>2, <3>2, <3>3
  <2> QED
    BY <2>1
<1>5. n \in good
  BY <1>3, <1>4, EveryOne
<1> QED
  BY <1>1, <1>2, <1>5

-----------------------------------------------------------------------------
(* The levels of a depth message *)

(* The prices of a queue, the positions at a price, and those before it. *)
PricesIn(q) == {m.price : m \in ToSet(q)}

AtPrice(q, p) == {i \in DOMAIN q : q[i].price = p}

BetterThan(q, side, p) == {i \in DOMAIN q : Before(side, q[i].price, p)}

(* L has every level of a queue, best first. *)
ShowsLevels(L, q, side) ==
  /\ Cardinality(PricesIn(q)) \in Nat
  /\ DOMAIN L = 1 .. Cardinality(PricesIn(q))
  /\ \A k \in 1 .. Cardinality(PricesIn(q)) :
       /\ L[k][1] \in PricesIn(q)
       /\ Rank(side, PricesIn(q), L[k][1]) = k
       /\ L[k][2] = Wanted(q, AtPrice(q, L[k][1]))

(* A queue has finitely many prices. *)
LEMMA PricesAreFinite ==
  ASSUME NEW ids, NEW prices, prices \subseteq Int, NEW q \in Seq(Entry(ids, prices))
  PROVE  /\ IsFiniteSet(PricesIn(q)) /\ PricesIn(q) \subseteq Int
         /\ Cardinality(PricesIn(q)) \in Nat
         /\ PricesIn(q) = {q[i].price : i \in DOMAIN q}
<1>1. DOMAIN q = 1 .. Len(q) /\ Len(q) \in Nat /\ IsFiniteSet(DOMAIN q)
  BY SeqPositions
<1>2. PricesIn(q) = {q[i].price : i \in DOMAIN q}
  BY DEF PricesIn, ToSet
<1>3. PICK f : f = [i \in DOMAIN q |-> q[i].price]
  OBVIOUS
<1>4. f \in Surjection(DOMAIN q, PricesIn(q))
  BY <1>2, <1>3 DEF Surjection
<1>5. IsFiniteSet(PricesIn(q))
  BY <1>1, <1>4, FS_Surjection
<1>6. \A i \in DOMAIN q : q[i].price \in Int
  BY EntryHasLeft DEF Entry
<1> QED
  BY <1>2, <1>5, <1>6, FS_CardinalityType

(* The instance of the engine has the same operators: its sums, *)
LEMMA SumsAgreeThere ==
  ASSUME NEW q, NEW at
  PROVE  Engine!Wanted(q, at) = Wanted(q, at)
BY DEF Wanted, Engine!Wanted, SumFunction, Engine!SumFunction,
   SumFunctionOnSet, Engine!SumFunctionOnSet, FoldFunctionOnSet, Engine!FoldFunctionOnSet,
   MapThenFoldSet, Engine!MapThenFoldSet

(* its texts, off by half of the smallest amount shown at most, *)
LEMMA ShownIsNear ==
  ASSUME NEW x \in Int
  PROVE  /\ Shown(x) \in Int
         /\ -Resolution <= 2 * (Shown(x) - x)
         /\ 2 * (Shown(x) - x) <= Resolution
<1>1. Resolution \in Nat /\ Resolution > 0
  BY NumberAssumption
<1>2. PICK a, b, d : a = 2 * x + Resolution /\ b = 2 * Resolution /\ d = a \div b
  OBVIOUS
<1>3. a \in Int /\ b \in Int /\ b > 0
  BY <1>1, <1>2
<1>4. d \in Int /\ b * d <= a /\ a < b * d + b
  BY <1>2, <1>3
<1>5. b * d = 2 * (Resolution * d) /\ Resolution * d \in Int
  BY <1>1, <1>2, <1>4
<1>6. Shown(x) = Resolution * d
  BY <1>2 DEF Shown, float, Engine!to_string
<1> QED
  BY <1>1, <1>2, <1>4, <1>5, <1>6

(* its depth message, *)
LEMMA TopThere ==
  ASSUME NEW b
  PROVE  Engine!get_l2_depth(b) = [t \in Side |-> Engine!Top(b, t, Depth)]
BY DEF Engine!get_l2_depth, Side, BUY, SELL, Engine!Side, Engine!BUY, Engine!SELL

(* and the levels of a side. *)
LEMMA LevelThere ==
  ASSUME NEW b, NEW s
  PROVE  Engine!Top(b, s, Depth) =
    [k \in 1 .. Min({Depth, Cardinality(PricesIn(b[s]))}) |->
       <<Engine!to_string(CHOOSE p \in PricesIn(b[s]) : Rank(s, PricesIn(b[s]), p) = k),
         Engine!to_string(Wanted(b[s], AtPrice(b[s],
            CHOOSE p \in PricesIn(b[s]) : Rank(s, PricesIn(b[s]), p) = k)))>>]
BY SumsAgreeThere DEF Engine!Top, PricesIn, AtPrice, Rank, ToSet, Engine!ToSet,
   Before, Engine!Before, Cardinality, Engine!Cardinality, Min, Engine!Min,
   BUY, Engine!BUY

(* The better of two prices has the lower rank. *)
LEMMA RanksFollow ==
  ASSUME NEW side \in Side, NEW P, P \subseteq Int, IsFiniteSet(P), NEW p \in P, NEW r \in P
  PROVE  Before(side, p, r) <=> Rank(side, P, p) < Rank(side, P, r)
<1> DEFINE above(x) == {z \in P : Before(side, z, x)}
<1>1. ASSUME NEW x \in P, NEW y \in P, Before(side, x, y)
      PROVE  Rank(side, P, x) < Rank(side, P, y)
  <2>1. x \in Int /\ y \in Int /\ \A z \in P : z \in Int
    OBVIOUS
  <2>2. above(x) \subseteq above(y)
    <3>1. ASSUME NEW z \in P, Before(side, z, x)
          PROVE  Before(side, z, y)
      <4>1. z \in Int /\ x \in Int /\ y \in Int
        BY <2>1, <3>1
      <4>2. IF side = BUY THEN z > x /\ x > y ELSE z < x /\ x < y
        BY <1>1, <3>1 DEF Before
      <4> QED
        BY <4>1, <4>2 DEF Before
    <3> QED
      BY <3>1
  <2>3. x \in above(y) /\ x \notin above(x)
    BY <1>1, <2>1 DEF Before
  <2>4. above(y) \subseteq P
    OBVIOUS
  <2> HIDE DEF above
  <2>5. IsFiniteSet(above(y)) /\ IsFiniteSet(above(x))
    BY <2>2, <2>4, FS_Subset
  <2>6. Cardinality(above(x)) < Cardinality(above(y))
    <3>1. above(x) # above(y)
      BY <2>3
    <3>2. Cardinality(above(x)) <= Cardinality(above(y))
      BY <2>2, <2>5, FS_Subset
    <3>3. Cardinality(above(x)) # Cardinality(above(y))
      BY <2>2, <2>5, <3>1, FS_Subset
    <3>4. Cardinality(above(x)) \in Nat /\ Cardinality(above(y)) \in Nat
      BY <2>5, FS_CardinalityType
    <3> QED
      BY <3>2, <3>3, <3>4
  <2>7. Cardinality(above(x)) \in Nat /\ Cardinality(above(y)) \in Nat
    BY <2>5, FS_CardinalityType
  <2>8. /\ Rank(side, P, x) = Cardinality(above(x)) + 1
        /\ Rank(side, P, y) = Cardinality(above(y)) + 1
    BY DEF Rank, above
  <2> QED
    BY <2>6, <2>7, <2>8
<1>2. Rank(side, P, p) \in Int /\ Rank(side, P, r) \in Int
  <2>1. Cardinality(P) \in Nat /\ \A x \in P : Rank(side, P, x) \in 1 .. Cardinality(P)
    BY PricesAreRanked
  <2>2. Rank(side, P, p) \in 1 .. Cardinality(P) /\ Rank(side, P, r) \in 1 .. Cardinality(P)
    BY <2>1
  <2> QED
    BY <2>1, <2>2
<1>3. p = r \/ Before(side, p, r) \/ Before(side, r, p)
  <2>1. p \in Int /\ r \in Int
    OBVIOUS
  <2> QED
    BY <2>1 DEF Before
<1>4. CASE Before(side, p, r)
  BY <1>1, <1>4
<1>5. CASE p = r
  <2>1. p \in Int
    OBVIOUS
  <2>2. ~ Before(side, p, r)
    BY <1>5, <2>1 DEF Before
  <2> QED
    BY <1>2, <1>5, <2>2
<1>6. CASE Before(side, r, p)
  <2>1. Rank(side, P, r) < Rank(side, P, p)
    BY <1>1, <1>6
  <2>2. ~ Before(side, p, r)
    <3>1. p \in Int /\ r \in Int
      OBVIOUS
    <3> QED
      BY <1>6, <3>1 DEF Before
  <2> QED
    BY <1>2, <2>1, <2>2
<1> QED
  BY <1>3, <1>4, <1>5, <1>6

(* A queue whose prices and totals are what their texts say. *)
ShownAsIs(q) ==
  \A p \in PricesIn(q) : Shown(p) = p /\ Shown(Wanted(q, AtPrice(q, p))) = Wanted(q, AtPrice(q, p))

(* A depth message that is not cut off and rounds nothing has every level. *)
LEMMA DepthShows ==
  ASSUME NEW ids, NEW prices, prices \subseteq Int, NEW b \in Book(ids, prices),
         NEW s \in Side, Cardinality(PricesIn(b[s])) <= Depth, ShownAsIs(b[s])
  PROVE  ShowsLevels(Read(Engine!get_l2_depth(b))[s], b[s], s)
<1>1. PICK q, P, n : q = b[s] /\ P = PricesIn(q) /\ n = Cardinality(P)
  OBVIOUS
<1>2. q \in Seq(Entry(ids, prices))
  BY <1>1 DEF Book
<1>3. IsFiniteSet(P) /\ P \subseteq Int /\ n \in Nat
  BY <1>1, <1>2, PricesAreFinite
<1>4. /\ \A p \in P : Rank(s, P, p) \in 1 .. n
      /\ \A p, r \in P : Rank(s, P, p) = Rank(s, P, r) => p = r
      /\ \A k \in 1 .. n : \E p \in P : Rank(s, P, p) = k
  BY <1>1, <1>3, PricesAreRanked
<1>5. Min({Depth, n}) = n
  <2>1. Depth \in Int /\ n \in Int /\ n <= Depth
    BY <1>1, <1>3, NumberAssumption
  <2>2. Min({Depth, n}) = IF Depth <= n THEN Depth ELSE n
    BY <2>1, MinOfTwo
  <2> QED
    BY <2>1, <2>2
<1>6. PICK M, L : M = Engine!get_l2_depth(b)[s] /\ L = Read(Engine!get_l2_depth(b))[s]
  OBVIOUS
<1>7. M = [k \in 1 .. n |->
             <<Engine!to_string(CHOOSE p \in P : Rank(s, P, p) = k),
               Engine!to_string(Wanted(q, AtPrice(q, CHOOSE p \in P : Rank(s, P, p) = k)))>>]
  <2>1. Engine!get_l2_depth(b)[s] = Engine!Top(b, s, Depth)
    BY TopThere
  <2>2. M = Engine!Top(b, s, Depth)
    BY <1>6, <2>1, Zenon
  <2>3. Cardinality(PricesIn(b[s])) = n /\ PricesIn(b[s]) = P /\ b[s] = q
    BY <1>1
  <2>4. Engine!Top(b, s, Depth) =
          [k \in 1 .. Min({Depth, Cardinality(PricesIn(b[s]))}) |->
             <<Engine!to_string(CHOOSE p \in PricesIn(b[s]) : Rank(s, PricesIn(b[s]), p) = k),
               Engine!to_string(Wanted(b[s], AtPrice(b[s],
                  CHOOSE p \in PricesIn(b[s]) : Rank(s, PricesIn(b[s]), p) = k)))>>]
    BY LevelThere
  <2> QED
    BY <1>5, <2>2, <2>3, <2>4, Zenon
<1>8. DOMAIN M = 1 .. n
  BY <1>7
<1>9. DOMAIN L = 1 .. n /\ \A k \in 1 .. n : L[k] = <<float(M[k][1]), float(M[k][2])>>
  <2>1. Read(Engine!get_l2_depth(b))[s]
          = [k \in DOMAIN M |-> <<float(M[k][1]), float(M[k][2])>>]
    BY <1>6 DEF Read
  <2> QED
    BY <1>6, <1>8, <2>1
<1>10. ASSUME NEW k \in 1 .. n
      PROVE  /\ L[k][1] \in P
             /\ Rank(s, P, L[k][1]) = k
             /\ L[k][2] = Wanted(q, AtPrice(q, L[k][1]))
  <2>1. PICK p : p = CHOOSE r \in P : Rank(s, P, r) = k
    OBVIOUS
  <2>2. p \in P /\ Rank(s, P, p) = k
    BY <1>4, <2>1
  <2>3. M[k] = <<Engine!to_string(p), Engine!to_string(Wanted(q, AtPrice(q, p)))>>
    BY <1>7, <2>1, Zenon
  <2>4. L[k] = <<Shown(p), Shown(Wanted(q, AtPrice(q, p)))>>
    <3>1. L[k] = <<float(M[k][1]), float(M[k][2])>>
      BY <1>9
    <3>2. /\ M[k][1] = Engine!to_string(p)
          /\ M[k][2] = Engine!to_string(Wanted(q, AtPrice(q, p)))
      BY <2>3
    <3> QED
      BY <3>1, <3>2 DEF Shown
  <2>5. Shown(p) = p /\ Shown(Wanted(q, AtPrice(q, p))) = Wanted(q, AtPrice(q, p))
    BY <1>1, <2>2 DEF ShownAsIs
  <2>6. L[k] = <<p, Wanted(q, AtPrice(q, p))>>
    BY <2>4, <2>5, Zenon
  <2>7. L[k][1] = p /\ L[k][2] = Wanted(q, AtPrice(q, p))
    BY <2>6
  <2> QED
    BY <2>2, <2>7
<1>11. DOMAIN L = 1 .. n
  BY <1>9
<1>12. ShowsLevels(L, q, s)
  BY <1>1, <1>3, <1>10, <1>11, Zenon DEF ShowsLevels
<1> QED
  BY <1>1, <1>6, <1>12

(* The positions of a queue at the k best prices. *)
UpToRank(q, side, k) == {i \in DOMAIN q : Rank(side, PricesIn(q), q[i].price) <= k}

(* A queue, its prices and its levels. *)
Levelled(L, q, side, ids, prices) ==
  /\ side \in Side /\ prices \subseteq Int /\ q \in Seq(Entry(ids, prices))
  /\ ShowsLevels(L, q, side)

(* What is wanted of some positions of a queue. *)
LEMMA QueueWanted ==
  ASSUME NEW ids, NEW prices, NEW q \in Seq(Entry(ids, prices)), NEW at \in SUBSET DOMAIN q
  PROVE  /\ IsFiniteSet(at)
         /\ Wanted(q, at) \in Nat
         /\ at # {} => Wanted(q, at) > 0
         /\ \A A \in SUBSET at : Wanted(q, A) <= Wanted(q, at)
<1>1. IsFiniteSet(DOMAIN q)
  BY SeqPositions
<1>2. PICK w : w = [i \in DOMAIN q |-> q[i].remaining_quantity]
  OBVIOUS
<1>3. \A i \in DOMAIN q : w[i] = q[i].remaining_quantity /\ w[i] \in Nat /\ w[i] > 0
  BY <1>2, EntryHasLeft
<1>4. \A A \in SUBSET DOMAIN q : IsFiniteSet(A)
  BY <1>1, FS_Subset
<1>5. ASSUME NEW A \in SUBSET DOMAIN q
      PROVE  Wanted(q, A) = Sum(w, A)
  <2>1. \A i \in A : w[i] = q[i].remaining_quantity
    BY <1>3
  <2> QED
    BY <1>4, <2>1, WantedIs
<1>6. ASSUME NEW A \in SUBSET at
      PROVE  Wanted(q, A) \in Nat /\ Wanted(q, at) \in Nat /\ Wanted(q, A) <= Wanted(q, at)
  <2>1. Sum(w, A) \in Nat /\ Sum(w, at) \in Nat /\ Sum(w, A) <= Sum(w, at)
    <3>1. \A i \in at : w[i] \in Nat
      BY <1>3
    <3> QED
      BY <1>4, <3>1, SumGrows
  <2>2. A \in SUBSET DOMAIN q
    OBVIOUS
  <2> QED
    BY <1>5, <2>1, <2>2
<1>8. ASSUME at # {}
      PROVE  Wanted(q, at) > 0
  <2>1. PICK i : i \in at
    BY <1>8
  <2>2. Sum(w, at) = w[i] + Sum(w, at \ {i})
    <3>1. \A x \in at : w[x] \in Int
      BY <1>3
    <3> QED
      BY <1>4, <2>1, <3>1, SumSplit
  <2>3. Sum(w, at \ {i}) \in Nat
    <3>1. at \ {i} \in SUBSET at /\ at \ {i} \in SUBSET DOMAIN q
      OBVIOUS
    <3> QED
      BY <1>5, <1>6, <3>1
  <2>4. w[i] \in Nat /\ w[i] > 0
    BY <1>3, <2>1
  <2>5. Wanted(q, at) = Sum(w, at)
    BY <1>5
  <2> QED
    BY <2>2, <2>3, <2>4, <2>5
<1>9. Wanted(q, at) \in Nat
  BY <1>6
<1> QED
  BY <1>4, <1>6, <1>8, <1>9

(* Nothing is wanted of an empty set of positions. *)
LEMMA WantedNone ==
  ASSUME NEW q
  PROVE  Wanted(q, {}) = 0
<1>1. PICK w : w = [i \in {} |-> 0]
  OBVIOUS
<1>2. IsFiniteSet({}) /\ \A i \in {} : w[i] = q[i].remaining_quantity
  BY FS_EmptySet
<1>3. Wanted(q, {}) = Sum(w, {})
  BY <1>2, WantedIs
<1> QED
  BY <1>3, SumEmpty

(* Two sets of positions that do not meet have what each of them has. *)
LEMMA WantedTogether ==
  ASSUME NEW ids, NEW prices, NEW q \in Seq(Entry(ids, prices)),
         NEW A \in SUBSET DOMAIN q, NEW C \in SUBSET DOMAIN q, A \cap C = {}
  PROVE  Wanted(q, A \cup C) = Wanted(q, A) + Wanted(q, C)
<1>1. IsFiniteSet(A) /\ IsFiniteSet(C) /\ IsFiniteSet(A \cup C)
  <2>1. A \cup C \in SUBSET DOMAIN q
    OBVIOUS
  <2> QED
    BY <2>1, SeqPositions, FS_Subset
<1>2. PICK w : w = [i \in DOMAIN q |-> q[i].remaining_quantity]
  OBVIOUS
<1>3. \A i \in DOMAIN q : w[i] = q[i].remaining_quantity /\ w[i] \in Int
  BY <1>2, EntryHasLeft
<1>4. Wanted(q, A) = Sum(w, A)
  BY <1>1, <1>3, WantedIs
<1>5. Wanted(q, C) = Sum(w, C)
  BY <1>1, <1>3, WantedIs
<1>6. PICK S : S = A \cup C
  OBVIOUS
<1>7. \A i \in S : w[i] = q[i].remaining_quantity /\ w[i] \in Int
  BY <1>3, <1>6
<1>8. Wanted(q, S) = Sum(w, S)
  BY <1>1, <1>6, <1>7, WantedIs
<1>9. Sum(w, S) = Sum(w, A) + Sum(w, C)
  <2>1. IsFiniteSet(S) /\ A \in SUBSET S /\ C \in SUBSET S
    BY <1>1, <1>6
  <2> QED
    BY <1>6, <1>7, <2>1, SumUnion
<1> QED
  BY <1>4, <1>5, <1>6, <1>8, <1>9

(* The levels are levels, in their order, and every price is one. *)
LEMMA LevelsAre ==
  ASSUME NEW ids, NEW prices, NEW q, NEW side, NEW L, Levelled(L, q, side, ids, prices)
  PROVE  /\ Cardinality(PricesIn(q)) \in Nat
         /\ IsLevels(L, Cardinality(PricesIn(q)))
         /\ \A k, l \in 1 .. Cardinality(PricesIn(q)) :
              k < l <=> Before(side, L[k][1], L[l][1])
         /\ \A k, l \in 1 .. Cardinality(PricesIn(q)) : L[k][1] = L[l][1] => k = l
         /\ \A p \in PricesIn(q) : \E k \in 1 .. Cardinality(PricesIn(q)) : L[k][1] = p
<1>0. /\ side \in Side /\ prices \subseteq Int /\ q \in Seq(Entry(ids, prices))
      /\ ShowsLevels(L, q, side)
  BY DEF Levelled
<1>1. PICK P, n : P = PricesIn(q) /\ n = Cardinality(P)
  OBVIOUS
<1>2. /\ n \in Nat /\ DOMAIN L = 1 .. n
      /\ \A k \in 1 .. n : L[k][1] \in P /\ Rank(side, P, L[k][1]) = k
                           /\ L[k][2] = Wanted(q, AtPrice(q, L[k][1]))
  BY <1>0, <1>1 DEF ShowsLevels
<1>3. IsFiniteSet(P) /\ P \subseteq Int /\ P = {q[i].price : i \in DOMAIN q}
  BY <1>0, <1>1, PricesAreFinite
<1>4. ASSUME NEW k \in 1 .. n
      PROVE  L[k][1] \in Int /\ L[k][2] \in Nat \ {0}
  <2>1. PICK i : i \in DOMAIN q /\ q[i].price = L[k][1]
    BY <1>2, <1>3
  <2>2. i \in AtPrice(q, L[k][1]) /\ AtPrice(q, L[k][1]) \in SUBSET DOMAIN q
    BY <2>1 DEF AtPrice
  <2>3. PICK at : at = AtPrice(q, L[k][1])
    OBVIOUS
  <2>4. Wanted(q, at) \in Nat /\ Wanted(q, at) > 0
    <3>1. at \in SUBSET DOMAIN q /\ at # {}
      BY <2>2, <2>3
    <3>2. q \in Seq(Entry(ids, prices))
      BY <1>0
    <3> QED
      BY ONLY <3>1, <3>2, QueueWanted
  <2>5. L[k][2] = Wanted(q, at) /\ L[k][1] \in P
    BY <1>2, <2>3, Zenon
  <2>6. L[k][1] \in Int
    BY <1>3, <2>5
  <2> QED
    BY <2>4, <2>5, <2>6
<1>5. IsLevels(L, n)
  BY <1>2, <1>4 DEF IsLevels
<1>6. ASSUME NEW k \in 1 .. n, NEW l \in 1 .. n
      PROVE  /\ k < l <=> Before(side, L[k][1], L[l][1])
             /\ L[k][1] = L[l][1] => k = l
  <2>1. PICK x, y : x = L[k][1] /\ y = L[l][1]
    OBVIOUS
  <2>2. x \in P /\ y \in P /\ Rank(side, P, x) = k /\ Rank(side, P, y) = l
    BY <1>2, <2>1
  <2>3. Before(side, x, y) <=> Rank(side, P, x) < Rank(side, P, y)
    BY <1>0, <1>3, <2>2, RanksFollow
  <2> QED
    BY <2>1, <2>2, <2>3
<1>7. ASSUME NEW p \in P
      PROVE  \E k \in 1 .. n : L[k][1] = p
  <2>1. PICK k : k = Rank(side, P, p)
    OBVIOUS
  <2>2. k \in 1 .. n /\ \A r, s \in P : Rank(side, P, r) = Rank(side, P, s) => r = s
    BY <1>0, <1>1, <1>3, <2>1, PricesAreRanked
  <2>3. L[k][1] = p
    BY <1>2, <2>1, <2>2
  <2> QED
    BY <2>2, <2>3
<1> QED
  BY <1>1, <1>2, <1>5, <1>6, <1>7

(* What the first levels hold is what the orders at the best prices hold. *)
LEMMA UpToLevelWanted ==
  ASSUME NEW ids, NEW prices, NEW q, NEW side, NEW L, Levelled(L, q, side, ids, prices)
  PROVE  \A k \in 0 .. Cardinality(PricesIn(q)) :
           UpToLevel(L, k) = Wanted(q, UpToRank(q, side, k))
<1>0. /\ side \in Side /\ prices \subseteq Int /\ q \in Seq(Entry(ids, prices))
      /\ ShowsLevels(L, q, side)
  BY DEF Levelled
<1>1. PICK P, n : P = PricesIn(q) /\ n = Cardinality(P)
  OBVIOUS
<1>2. /\ n \in Nat
      /\ \A k \in 1 .. n : L[k][1] \in P /\ Rank(side, P, L[k][1]) = k
                           /\ L[k][2] = Wanted(q, AtPrice(q, L[k][1]))
  BY <1>0, <1>1 DEF ShowsLevels
<1>3. IsFiniteSet(P) /\ P \subseteq Int /\ P = {q[i].price : i \in DOMAIN q}
  BY <1>0, <1>1, PricesAreFinite
<1>4. IsLevels(L, n)
  BY <1>1, LevelsAre
<1>5. /\ \A p \in P : Rank(side, P, p) \in 1 .. n
      /\ \A p, r \in P : Rank(side, P, p) = Rank(side, P, r) => p = r
  BY <1>0, <1>1, <1>3, PricesAreRanked
<1>6. \A i \in DOMAIN q : q[i].price \in P
  BY <1>3
<1>7. SUFFICES ASSUME NEW x \in 0 .. n
               PROVE  UpToLevel(L, x) = Wanted(q, UpToRank(q, side, x))
  BY <1>1
<1>8. PICK good : good = {k \in 0 .. x : UpToLevel(L, k) = Wanted(q, UpToRank(q, side, k))}
  OBVIOUS
<1>9. 0 \in good
  <2>1. UpToRank(q, side, 0) = {}
    BY <1>1, <1>5, <1>6 DEF UpToRank
  <2>2. Wanted(q, {}) = 0
    BY WantedNone
  <2>3. UpToLevel(L, 0) = 0
    BY <1>2, <1>4, UpToLevelIs
  <2> QED
    BY <1>8, <2>1, <2>2, <2>3
<1>10. ASSUME NEW k \in 1 .. x, k - 1 \in good
       PROVE  k \in good
  <2>0. k \in 1 .. n
    BY <1>2
  <2>1. PICK A, C, B : /\ A = UpToRank(q, side, k - 1) /\ C = AtPrice(q, L[k][1])
                       /\ B = UpToRank(q, side, k)
    OBVIOUS
  <2>2. ASSUME NEW i \in DOMAIN q
        PROVE  /\ i \in B <=> i \in A \/ i \in C
               /\ ~ (i \in A /\ i \in C)
    <3>1. PICK r : r = Rank(side, P, q[i].price)
      OBVIOUS
    <3>2. r \in Int /\ (r = k <=> q[i].price = L[k][1])
      BY <1>2, <1>5, <1>6, <2>0, <3>1
    <3>3. /\ i \in A <=> r <= k - 1
          /\ i \in B <=> r <= k
          /\ i \in C <=> q[i].price = L[k][1]
      BY <1>1, <2>1, <3>1 DEF UpToRank, AtPrice
    <3> QED
      BY <3>2, <3>3
  <2>3. A \subseteq DOMAIN q /\ C \subseteq DOMAIN q /\ B \subseteq DOMAIN q
    BY <2>1 DEF UpToRank, AtPrice
  <2>4. B = A \cup C /\ A \cap C = {}
    BY <2>2, <2>3
  <2>5. Wanted(q, B) = Wanted(q, A) + Wanted(q, C)
    <3>1. q \in Seq(Entry(ids, prices)) /\ A \in SUBSET DOMAIN q /\ C \in SUBSET DOMAIN q
      BY <1>0, <2>3
    <3>2. Wanted(q, A \cup C) = Wanted(q, A) + Wanted(q, C)
      BY <2>4, <3>1, WantedTogether
    <3> QED
      BY <2>4, <3>2
  <2>6. UpToLevel(L, k) = UpToLevel(L, k - 1) + L[k][2]
    BY <1>2, <1>4, <2>0, UpToLevelIs
  <2>7. L[k][2] = Wanted(q, C)
    BY <1>2, <2>0, <2>1
  <2>8. UpToLevel(L, k - 1) = Wanted(q, A)
    BY <1>8, <1>10, <2>1
  <2>9. UpToLevel(L, k) = Wanted(q, B)
    BY <2>5, <2>6, <2>7, <2>8, Zenon
  <2>10. k \in 0 .. x
    OBVIOUS
  <2> QED
    BY <1>8, <2>1, <2>9, <2>10
<1>11. x \in good
  <2>1. x \in Nat
    OBVIOUS
  <2> QED
    BY <1>9, <1>10, <2>1, EveryOne
<1> QED
  BY <1>8, <1>11

-----------------------------------------------------------------------------
(* What the script predicts *)

(* What an order takes at a price, when the better prices come first. *)
LevelShare(q, o, p) ==
  IF Beyond(o, p) THEN 0
  ELSE Share(Wanted(q, AtPrice(q, p)),
             o.quantity - Wanted(q, BetterThan(q, Opposite(o.side), p)))

(* The positions of a queue that are not beyond the order's limit. *)
Within(q, o) == {i \in DOMAIN q : ~ Beyond(o, q[i].price)}

(* What the walk needs of an order. *)
Asks(o) == o.side \in Side /\ o.quantity \in Int /\ o.price \in Int

(* A price after one that is beyond the limit is beyond it too. *)
LEMMA BeyondLater ==
  ASSUME NEW o, Asks(o), NEW p \in Int, NEW r \in Int, Beyond(o, p),
         Before(Opposite(o.side), p, r)
  PROVE  Beyond(o, r)
<1>1. o.side \in Side /\ o.price \in Int
  BY DEF Asks
<1>2. CASE o.side = BUY
  BY <1>1, <1>2 DEF Beyond, Before, Opposite, BUY, SELL
<1>3. CASE o.side = SELL
  BY <1>1, <1>3 DEF Beyond, Before, Opposite, BUY, SELL
<1> QED
  BY <1>1, <1>2, <1>3 DEF Side

(* What a list trades at a price is a sum over its positions. *)
LEMMA TradedIs ==
  ASSUME NEW trades, NEW p, IsFiniteSet(DOMAIN trades),
         NEW w, \A k \in DOMAIN trades : w[k] = trades[k].quantity
  PROVE  Traded(trades, p) = Sum(w, {k \in DOMAIN trades : trades[k].price = p})
<1>1. PICK K : K = {k \in DOMAIN trades : trades[k].price = p}
  OBVIOUS
<1>2. K \subseteq DOMAIN trades /\ IsFiniteSet(K)
  BY <1>1, FS_Subset
<1>3. PICK v : v = [k \in K |-> trades[k].quantity]
  OBVIOUS
<1>4. Traded(trades, p) = Sum(v, K)
  <2>1. DOMAIN v = K
    BY <1>3
  <2>2. Traded(trades, p) = SumFunction(v)
    BY <1>1, <1>3 DEF Traded, At
  <2> QED
    BY <2>1, <2>2 DEF SumFunction, Sum
<1>5. \A k \in K : v[k] = w[k]
  BY <1>2, <1>3
<1>6. Sum(v, K) = Sum(w, K)
  BY <1>2, <1>5, SumEqual
<1> QED
  BY <1>1, <1>4, <1>6

(* A sum over one. *)
LEMMA SumOne ==
  ASSUME NEW w, NEW x, w[x] \in Int
  PROVE  Sum(w, {x}) = w[x]
<1>1. IsFiniteSet({x}) /\ x \in {x} /\ \A y \in {x} : w[y] \in Int
  BY FS_Singleton
<1>2. Sum(w, {x}) = w[x] + Sum(w, {x} \ {x})
  BY <1>1, SumSplit
<1>3. {x} \ {x} = {}
  OBVIOUS
<1>4. Sum(w, {}) = 0
  BY SumEmpty
<1> QED
  BY <1>2, <1>3, <1>4

(* How far the walk goes over the levels of a queue: the first m of them.    *)
WentTo(m, o, L, n, st) ==
  /\ n \in Nat /\ m \in 0 .. n /\ m = Len(st.trades) /\ DOMAIN st.trades = 1 .. m
  /\ st.trades \in PredictedTrades /\ st.remaining \in Int
  /\ st.remaining = o.quantity - Share(UpToLevel(L, m), o.quantity)
  /\ \A j \in 1 .. m : ~ Beyond(o, L[j][1]) /\ st.trades[j] = TradeAt(o, L, j)
  /\ \A j \in 1 .. n : m < j => Beyond(o, L[j][1]) \/ st.remaining <= 0

(* What it has left, and what the levels it has not taken are. *)
LEMMA WalkGoes ==
  ASSUME NEW ids, NEW prices, NEW q, NEW o, Asks(o), NEW L,
         Levelled(L, q, Opposite(o.side), ids, prices)
  PROVE  WentTo(Len(Walk(o, L).trades), o, L, Cardinality(PricesIn(q)), Walk(o, L))
<1>1. PICK st, m, n, side :
        st = Walk(o, L) /\ m = Len(st.trades) /\ n = Cardinality(PricesIn(q))
        /\ side = Opposite(o.side)
  OBVIOUS
<1>2. /\ n \in Nat /\ IsLevels(L, n)
      /\ \A k, l \in 1 .. n : k < l <=> Before(side, L[k][1], L[l][1])
  BY <1>1, LevelsAre
<1>3. Walked(o, L, st, n)
  BY <1>1, <1>2, WalkIs DEF Asks
<1>4. /\ st \in [done : BOOLEAN, remaining : Int, trades : PredictedTrades]
      /\ st.remaining = o.quantity - Share(UpToLevel(L, m), o.quantity)
      /\ \A j \in 1 .. m : ~ Beyond(o, L[j][1]) /\ st.trades[j] = TradeAt(o, L, j)
      /\ m <= n
      /\ m < n => Beyond(o, L[m + 1][1]) \/ st.remaining <= 0
  BY <1>1, <1>3 DEF Walked
<1>5. st.trades \in PredictedTrades /\ st.remaining \in Int
  BY <1>4
<1>6. m \in Nat /\ DOMAIN st.trades = 1 .. m
  BY <1>1, <1>5 DEF PredictedTrades
<1>7. ASSUME NEW j \in 1 .. n, m < j, ~ (st.remaining <= 0)
      PROVE  Beyond(o, L[j][1])
  <2>1. m + 1 \in 1 .. n /\ Beyond(o, L[m + 1][1])
    BY <1>2, <1>4, <1>6, <1>7
  <2>2. CASE j = m + 1
    BY <2>1, <2>2
  <2>3. CASE j # m + 1
    <3>1. m + 1 < j
      BY <1>6, <1>7, <2>3
    <3>2. Before(side, L[m + 1][1], L[j][1])
      BY <1>2, <2>1, <3>1
    <3>3. L[m + 1][1] \in Int /\ L[j][1] \in Int
      BY <1>2, <2>1 DEF IsLevels
    <3> QED
      BY <1>1, <2>1, <3>2, <3>3, BeyondLater
  <2> QED
    BY <2>2, <2>3
<1>8. m \in 0 .. n
  BY <1>2, <1>4, <1>6
<1>9. WentTo(m, o, L, n, st)
  BY <1>1, <1>2, <1>4, <1>5, <1>6, <1>7, <1>8 DEF WentTo
<1> QED
  BY <1>1, <1>9

(* What is better than a level is what the levels before it hold. *)
LEMMA BetterIsBefore ==
  ASSUME NEW ids, NEW prices, NEW q, NEW side, NEW L, Levelled(L, q, side, ids, prices),
         NEW k \in 1 .. Cardinality(PricesIn(q))
  PROVE  /\ UpToLevel(L, k - 1) = Wanted(q, BetterThan(q, side, L[k][1]))
         /\ L[k][2] = Wanted(q, AtPrice(q, L[k][1]))
<1>0. /\ side \in Side /\ prices \subseteq Int /\ q \in Seq(Entry(ids, prices))
      /\ ShowsLevels(L, q, side)
  BY DEF Levelled
<1>1. PICK P, n : P = PricesIn(q) /\ n = Cardinality(P)
  OBVIOUS
<1>2. /\ n \in Nat /\ L[k][1] \in P /\ Rank(side, P, L[k][1]) = k
      /\ L[k][2] = Wanted(q, AtPrice(q, L[k][1]))
  BY <1>0, <1>1 DEF ShowsLevels
<1>3. IsFiniteSet(P) /\ P \subseteq Int /\ P = {q[i].price : i \in DOMAIN q}
  BY <1>0, <1>1, PricesAreFinite
<1>4. ASSUME NEW i \in DOMAIN q
      PROVE  i \in UpToRank(q, side, k - 1) <=> i \in BetterThan(q, side, L[k][1])
  <2>1. PICK p : p = q[i].price
    OBVIOUS
  <2>2. p \in P
    BY <1>3, <2>1
  <2>3. Before(side, p, L[k][1]) <=> Rank(side, P, p) < Rank(side, P, L[k][1])
    BY <1>0, <1>2, <1>3, <2>2, RanksFollow
  <2>4. Rank(side, P, p) \in Int
    <3>1. Rank(side, P, p) \in 1 .. n
      BY <1>0, <1>1, <1>3, <2>2, PricesAreRanked
    <3> QED
      BY <1>2, <3>1
  <2>5. Rank(side, P, p) <= k - 1 <=> Before(side, p, L[k][1])
    BY <1>1, <1>2, <2>3, <2>4
  <2> QED
    BY <1>1, <2>1, <2>5 DEF UpToRank, BetterThan
<1>5. UpToRank(q, side, k - 1) = BetterThan(q, side, L[k][1])
  BY <1>4 DEF UpToRank, BetterThan
<1>6. UpToLevel(L, k - 1) = Wanted(q, UpToRank(q, side, k - 1))
  <2>1. k - 1 \in 0 .. Cardinality(PricesIn(q))
    BY <1>1, <1>2
  <2> QED
    BY <2>1, UpToLevelWanted
<1> QED
  BY <1>2, <1>5, <1>6, Zenon

(* At a price that no order has, nothing is taken. *)
LEMMA NoShareElsewhere ==
  ASSUME NEW ids, NEW prices, NEW q \in Seq(Entry(ids, prices)), NEW o, Asks(o),
         NEW p, p \notin PricesIn(q)
  PROVE  LevelShare(q, o, p) = 0
<1>1. PICK Q : Q = BetterThan(q, Opposite(o.side), p)
  OBVIOUS
<1>2. Q \in SUBSET DOMAIN q
  BY <1>1 DEF BetterThan
<1>3. Wanted(q, Q) \in Nat
  BY <1>2, QueueWanted
<1>4. AtPrice(q, p) = {}
  BY DEF AtPrice, PricesIn, ToSet
<1>5. Wanted(q, AtPrice(q, p)) = 0
  BY <1>4, WantedNone
<1>6. o.quantity \in Int
  BY DEF Asks
<1>7. PICK left : left = o.quantity - Wanted(q, Q)
  OBVIOUS
<1>8. left \in Int
  BY <1>3, <1>6, <1>7
<1>9. LevelShare(q, o, p) = IF Beyond(o, p) THEN 0 ELSE Share(0, left)
  BY <1>1, <1>5, <1>7 DEF LevelShare
<1>10. Share(0, left) = 0
  BY <1>8 DEF Share
<1> QED
  BY <1>9, <1>10

(* The walk predicts at every price what the order takes there. *)
LEMMA PredictedShare ==
  ASSUME NEW ids, NEW prices, NEW q, NEW o, Asks(o), NEW L,
         Levelled(L, q, Opposite(o.side), ids, prices), NEW p
  PROVE  Traded(Walk(o, L).trades, p) = LevelShare(q, o, p)
<1>0. Opposite(o.side) \in Side /\ prices \subseteq Int /\ q \in Seq(Entry(ids, prices))
  BY DEF Levelled
<1>1. PICK st, m, n, side :
        st = Walk(o, L) /\ m = Len(st.trades) /\ n = Cardinality(PricesIn(q))
        /\ side = Opposite(o.side)
  OBVIOUS
<1>2. /\ n \in Nat /\ m \in 0 .. n /\ DOMAIN st.trades = 1 .. m
      /\ st.trades \in PredictedTrades /\ st.remaining \in Int
      /\ st.remaining = o.quantity - Share(UpToLevel(L, m), o.quantity)
      /\ \A j \in 1 .. m : ~ Beyond(o, L[j][1]) /\ st.trades[j] = TradeAt(o, L, j)
      /\ \A j \in 1 .. n : m < j => Beyond(o, L[j][1]) \/ st.remaining <= 0
  <2>1. WentTo(Len(Walk(o, L).trades), o, L, Cardinality(PricesIn(q)), Walk(o, L))
    BY WalkGoes
  <2>2. WentTo(m, o, L, n, st)
    BY <1>1, <2>1, Zenon
  <2> QED
    BY <2>2 DEF WentTo
<1>3. /\ IsLevels(L, n)
      /\ \A k, l \in 1 .. n : L[k][1] = L[l][1] => k = l
      /\ \A r \in PricesIn(q) : \E k \in 1 .. n : L[k][1] = r
  BY <1>1, LevelsAre
<1>4. ASSUME NEW j \in 1 .. m
      PROVE  /\ j \in 1 .. n /\ st.trades[j].price = L[j][1]
             /\ st.trades[j].quantity = Share(L[j][2], o.quantity - UpToLevel(L, j - 1))
  <2>1. st.trades[j] = TradeAt(o, L, j)
    BY <1>2
  <2>2. /\ TradeAt(o, L, j).price = L[j][1]
        /\ TradeAt(o, L, j).quantity = Share(L[j][2], o.quantity - UpToLevel(L, j - 1))
    BY DEF TradeAt
  <2> QED
    BY <1>2, <2>1, <2>2
<1>5. PICK w : w = [j \in 1 .. m |-> st.trades[j].quantity]
  OBVIOUS
<1>6. PICK K : K = {j \in DOMAIN st.trades : st.trades[j].price = p}
  OBVIOUS
<1>7. Traded(st.trades, p) = Sum(w, K)
  <2>1. IsFiniteSet(1 .. m)
    <3>1. m \in Int /\ 1 \in Int
      BY <1>2
    <3> QED
      BY <3>1, FS_Interval
  <2>2. IsFiniteSet(DOMAIN st.trades) /\ \A k \in DOMAIN st.trades : w[k] = st.trades[k].quantity
    BY <1>2, <1>5, <2>1
  <2> QED
    BY <1>6, <2>2, TradedIs
<1>8. CASE p \notin PricesIn(q)
  <2>1. \A j \in 1 .. m : L[j][1] \in PricesIn(q)
    BY <1>0, <1>1, <1>4 DEF Levelled, ShowsLevels
  <2>2. K = {}
    BY <1>2, <1>4, <1>6, <1>8, <2>1
  <2>3. Traded(st.trades, p) = 0
    BY <1>7, <2>2, SumEmpty
  <2>4. LevelShare(q, o, p) = 0
    BY <1>0, <1>8, NoShareElsewhere
  <2> QED
    BY <1>1, <2>3, <2>4
<1>9. CASE p \in PricesIn(q)
  <2>1. PICK k : k \in 1 .. n /\ L[k][1] = p
    BY <1>3, <1>9
  <2>2. PICK x, before : x = L[k][2] /\ before = UpToLevel(L, k - 1)
    OBVIOUS
  <2>3. /\ before = Wanted(q, BetterThan(q, side, p))
        /\ x = Wanted(q, AtPrice(q, p))
    BY <1>1, <2>1, <2>2, BetterIsBefore
  <2>4. LevelShare(q, o, p) = IF Beyond(o, p) THEN 0 ELSE Share(x, o.quantity - before)
    BY <1>1, <2>3, Zenon DEF LevelShare
  <2>5. x \in Nat /\ before \in Nat /\ o.quantity \in Int
    <3>1. k - 1 \in 0 .. n
      BY <1>2, <2>1
    <3>2. before \in Nat
      BY <1>2, <1>3, <2>2, <3>1, UpToLevelIs
    <3> QED
      BY <1>3, <2>1, <2>2, <3>2 DEF IsLevels, Asks
  <2>6. CASE k \in 1 .. m
    <3>1. K = {k}
      BY <1>2, <1>3, <1>4, <1>6, <2>1, <2>6
    <3>2. w[k] = Share(x, o.quantity - before) /\ ~ Beyond(o, p)
      BY <1>2, <1>4, <1>5, <2>1, <2>2, <2>6
    <3>3. w[k] \in Int
      <4>1. o.quantity - before \in Int
        BY <2>5
      <4>2. Share(x, o.quantity - before) \in 0 .. x
        BY <2>5, <4>1, ShareType
      <4> QED
        BY <2>5, <3>2, <4>2
    <3>4. Sum(w, {k}) = w[k]
      BY <3>3, SumOne
    <3> QED
      BY <1>1, <1>7, <2>4, <3>1, <3>2, <3>4
  <2>7. CASE k \notin 1 .. m
    <3>1. K = {}
      BY <1>2, <1>3, <1>4, <1>6, <2>1, <2>7
    <3>2. Traded(st.trades, p) = 0
      BY <1>7, <3>1, SumEmpty
    <3>3. m < k
      BY <1>2, <2>1, <2>7
    <3>4. Beyond(o, p) \/ st.remaining <= 0
      BY <1>2, <2>1, <3>3
    <3>5. CASE st.remaining <= 0
      <4>1. PICK held : held = UpToLevel(L, m)
        OBVIOUS
      <4>2. held \in Nat /\ held <= before
        <5>1. PICK A, C : A = UpToRank(q, side, m) /\ C = UpToRank(q, side, k - 1)
          OBVIOUS
        <5>2. held = Wanted(q, A) /\ before = Wanted(q, C)
          <6>1. /\ m \in 0 .. Cardinality(PricesIn(q)) /\ k - 1 \in 0 .. Cardinality(PricesIn(q))
                /\ \A l \in 0 .. Cardinality(PricesIn(q)) :
                     UpToLevel(L, l) = Wanted(q, UpToRank(q, side, l))
            BY <1>1, <1>2, <2>1, UpToLevelWanted
          <6> QED
            BY <2>2, <4>1, <5>1, <6>1
        <5>3. A \in SUBSET C /\ C \in SUBSET DOMAIN q
          <6>1. ASSUME NEW i \in DOMAIN q
                PROVE  i \in A => i \in C
            <7>1. Rank(side, PricesIn(q), q[i].price) \in Int
              <8>1. IsFiniteSet(PricesIn(q)) /\ PricesIn(q) \subseteq Int
                    /\ PricesIn(q) = {q[j].price : j \in DOMAIN q}
                BY <1>0, PricesAreFinite
              <8>2. q[i].price \in PricesIn(q)
                BY <8>1
              <8>3. Rank(side, PricesIn(q), q[i].price) \in 1 .. n
                BY <1>0, <1>1, <8>1, <8>2, PricesAreRanked
              <8> QED
                BY <1>2, <8>3
            <7> QED
              BY <1>2, <2>1, <3>3, <5>1, <7>1 DEF UpToRank
          <6> QED
            BY <5>1, <6>1 DEF UpToRank
        <5> QED
          BY <1>0, <5>2, <5>3, QueueWanted
      <4>3. st.remaining = o.quantity - Share(held, o.quantity)
        BY <1>2, <4>1
      <4>4. o.quantity - before <= 0
        BY <2>5, <3>5, <4>2, <4>3 DEF Share
      <4>5. Share(x, o.quantity - before) = 0
        BY <2>5, <4>4 DEF Share
      <4> QED
        BY <1>1, <2>4, <3>2, <4>5
    <3> QED
      BY <1>1, <2>4, <3>2, <3>4, <3>5
  <2> QED
    BY <2>6, <2>7
<1> QED
  BY <1>8, <1>9

(* The walk fills the order when the orders within its limit can. *)
LEMMA WalkFills ==
  ASSUME NEW ids, NEW prices, NEW q, NEW o, Asks(o), NEW L,
         Levelled(L, q, Opposite(o.side), ids, prices)
  PROVE  Walk(o, L).remaining <= 0 <=>
           o.quantity <= 0 \/ Wanted(q, Within(q, o)) >= o.quantity
<1>0. Opposite(o.side) \in Side /\ prices \subseteq Int /\ q \in Seq(Entry(ids, prices))
  BY DEF Levelled
<1>1. PICK st, m, n, side :
        st = Walk(o, L) /\ m = Len(st.trades) /\ n = Cardinality(PricesIn(q))
        /\ side = Opposite(o.side)
  OBVIOUS
<1>2. /\ n \in Nat /\ m \in 0 .. n /\ st.remaining \in Int
      /\ st.remaining = o.quantity - Share(UpToLevel(L, m), o.quantity)
      /\ \A j \in 1 .. m : ~ Beyond(o, L[j][1])
      /\ \A j \in 1 .. n : m < j => Beyond(o, L[j][1]) \/ st.remaining <= 0
  <2>1. WentTo(Len(Walk(o, L).trades), o, L, Cardinality(PricesIn(q)), Walk(o, L))
    BY WalkGoes
  <2>2. WentTo(m, o, L, n, st)
    BY <1>1, <2>1, Zenon
  <2> QED
    BY <2>2 DEF WentTo
<1>3. PICK A, C, held, all :
        A = UpToRank(q, side, m) /\ C = Within(q, o)
        /\ held = UpToLevel(L, m) /\ all = Wanted(q, C)
  OBVIOUS
<1>4. A \in SUBSET DOMAIN q /\ C \in SUBSET DOMAIN q
  BY <1>3 DEF UpToRank, Within
<1>5. held = Wanted(q, A)
  BY <1>1, <1>2, <1>3, UpToLevelWanted
<1>6. ASSUME NEW i \in DOMAIN q
      PROVE  \E k \in 1 .. n : L[k][1] = q[i].price /\ (i \in A <=> k <= m)
  <2>1. PICK P : P = PricesIn(q)
    OBVIOUS
  <2>2. q[i].price \in P
    BY <1>0, <2>1, PricesAreFinite
  <2>3. PICK k : k \in 1 .. n /\ L[k][1] = q[i].price
    BY <1>1, <2>1, <2>2, LevelsAre
  <2>4. Rank(side, P, q[i].price) = k
    BY <1>0, <1>1, <2>1, <2>3 DEF Levelled, ShowsLevels
  <2> QED
    BY <1>3, <2>1, <2>3, <2>4 DEF UpToRank
<1>7. A \subseteq C
  <2>1. ASSUME NEW i \in A
        PROVE  i \in C
    <3>1. i \in DOMAIN q
      BY <1>4
    <3>2. PICK k : k \in 1 .. n /\ L[k][1] = q[i].price /\ k <= m
      BY <1>6, <3>1
    <3>3. ~ Beyond(o, q[i].price)
      BY <1>2, <3>2
    <3> QED
      BY <1>3, <3>1, <3>3 DEF Within
  <2> QED
    BY <2>1
<1>8. held \in Nat /\ all \in Nat /\ held <= all
  BY <1>0, <1>3, <1>4, <1>5, <1>7, QueueWanted
<1>9. o.quantity \in Int
  BY DEF Asks
<1>10. st.remaining = o.quantity - Share(held, o.quantity)
  BY <1>2, <1>3
<1>11. ASSUME st.remaining <= 0
       PROVE  o.quantity <= 0 \/ all >= o.quantity
  BY <1>8, <1>9, <1>10, <1>11 DEF Share
<1>12. ASSUME ~ (st.remaining <= 0)
       PROVE  ~ (o.quantity <= 0 \/ all >= o.quantity)
  <2>1. C \subseteq A
    <3>1. ASSUME NEW i \in C
          PROVE  i \in A
      <4>1. i \in DOMAIN q /\ ~ Beyond(o, q[i].price)
        BY <1>3 DEF Within
      <4>2. PICK k : k \in 1 .. n /\ L[k][1] = q[i].price /\ (i \in A <=> k <= m)
        BY <1>6, <4>1
      <4>3. ~ (m < k)
        BY <1>2, <1>12, <4>1, <4>2
      <4> QED
        BY <1>2, <4>2, <4>3
    <3> QED
      BY <3>1
  <2>2. C = A
    BY <1>7, <2>1
  <2>3. all = held
    BY <1>3, <1>5, <2>2
  <2> QED
    BY <1>2, <1>8, <1>9, <1>10, <1>12, <2>3 DEF Share
<1> QED
  BY <1>1, <1>3, <1>11, <1>12

-----------------------------------------------------------------------------
(* What the engine trades *)

(* An order that self-trade prevention does not concern and that does not    *)
(* rest, and a book in the order of prices.                                  *)
Meets(ids, prices, b, o) ==
  /\ prices \subseteq Int /\ b \in Book(ids, prices) /\ InOrder(b)
  /\ IsOrder(o, ids, prices) /\ Asks(o) /\ o.order_id \notin BinanceIds
  /\ \A s \in Side : Absent(b[s], o.order_id)

(* It can then take every order that is not beyond its limit. *)
LEMMA ReachesAll ==
  ASSUME NEW ids, NEW prices, NEW b, NEW o, Meets(ids, prices, b, o)
  PROVE  /\ Countable(b, o) = Within(b[Opposite(o.side)], o)
         /\ Reachable(b, o) = Within(b[Opposite(o.side)], o)
<1>1. PICK q : q = b[Opposite(o.side)]
  OBVIOUS
<1>2. \A m : ~ Barred(o, m)
  BY DEF Meets, Barred, SelfTrade
<1>3. q \in Seq(Entry(ids, prices))
  <2>1. Opposite(o.side) \in Side
    BY OppositeIsSide DEF Meets, Asks
  <2> QED
    BY <1>1, <2>1 DEF Meets, Book
<1>4. ASSUME NEW i \in DOMAIN q
      PROVE  Acceptable(o, q[i]) <=> ~ Beyond(o, q[i].price)
  <2>1. q[i].price \in Int
    <3>1. q[i] \in Entry(ids, prices)
      BY <1>3, EntryHasLeft
    <3>2. prices \subseteq Int
      BY DEF Meets
    <3> QED
      BY <3>1, <3>2 DEF Entry
  <2>2. o.price \in Int
    BY DEF Meets, Asks
  <2> QED
    BY <2>1, <2>2 DEF Acceptable, Beyond, Accepts
<1>5. Countable(b, o) = Within(q, o)
  BY <1>1, <1>2, <1>4 DEF Countable, Within
<1>6. Reachable(b, o) = Countable(b, o)
  BY <1>2 DEF Reachable
<1> QED
  BY <1>1, <1>5, <1>6

(* The orders before position i that it can take are those at better prices  *)
(* and the earlier ones at the same price.                                   *)
LEMMA TakenBefore ==
  ASSUME NEW ids, NEW prices, prices \subseteq Int, NEW q \in Seq(Entry(ids, prices)),
         NEW o, Asks(o), Sorted(q, Opposite(o.side)),
         NEW i \in DOMAIN q, ~ Beyond(o, q[i].price)
  PROVE  \A j \in DOMAIN q : j \in Within(q, o) /\ j < i <=>
           \/ j \in BetterThan(q, Opposite(o.side), q[i].price)
           \/ j \in AtPrice(q, q[i].price) /\ j < i
<1>1. PICK p, side : p = q[i].price /\ side = Opposite(o.side)
  OBVIOUS
<1>2. DOMAIN q = 1 .. Len(q) /\ Len(q) \in Nat
  BY SeqPositions
<1>3. \A j \in DOMAIN q : q[j].price \in Int
  BY EntryHasLeft DEF Entry
<1>4. ASSUME NEW j \in DOMAIN q
      PROVE  (j < i /\ ~ Beyond(o, q[j].price))
               <=> Before(side, q[j].price, p) \/ (q[j].price = p /\ j < i)
  <2>1. PICK r : r = q[j].price
    OBVIOUS
  <2>2. r \in Int /\ p \in Int /\ j \in Int /\ i \in Int
    BY <1>1, <1>2, <1>3, <2>1
  <2>3. r = p \/ Before(side, r, p) \/ Before(side, p, r)
    BY <2>2 DEF Before
  <2>4. ~ (Before(side, r, p) /\ Before(side, p, r))
        /\ ~ (r = p /\ (Before(side, r, p) \/ Before(side, p, r)))
    BY <2>2 DEF Before
  <2>5. /\ j < i => ~ Before(side, p, r)
        /\ i < j => ~ Before(side, r, p)
    BY <1>1, <2>1 DEF Sorted
  <2>6. Before(side, r, p) => ~ Beyond(o, r)
    BY <1>1, <2>2, BeyondLater
  <2>7. i = j => r = p
    BY <1>1, <2>1
  <2>8. r = p => ~ Beyond(o, r)
    BY <1>1
  <2> QED
    BY <2>1, <2>2, <2>3, <2>4, <2>5, <2>6, <2>7, <2>8
<1> QED
  BY <1>1, <1>4 DEF Within, BetterThan, AtPrice

(* What the orders at a price are given together. *)
LEMMA GivenAtPrice ==
  ASSUME NEW ids, NEW prices, prices \subseteq Int, NEW q \in Seq(Entry(ids, prices)),
         NEW o, Asks(o), Sorted(q, Opposite(o.side)), NEW p
  PROVE  Sum(Allotment(q, Within(q, o), o.quantity), AtPrice(q, p)) = LevelShare(q, o, p)
<1>1. PICK given, reach, S, Q :
        /\ reach = Within(q, o) /\ given = Allotment(q, reach, o.quantity)
        /\ S = AtPrice(q, p) /\ Q = BetterThan(q, Opposite(o.side), p)
  OBVIOUS
<1>2. reach \in SUBSET DOMAIN q /\ S \in SUBSET DOMAIN q /\ Q \in SUBSET DOMAIN q
  BY <1>1 DEF Within, AtPrice, BetterThan
<1>3. o.quantity \in Int
  BY DEF Asks
<1>4. IsFiniteSet(S) /\ S \in SUBSET Int
  BY <1>2, SeqPositions
<1>5. Gives(given, q, reach, o.quantity)
  BY <1>1, <1>2, <1>3, AllotmentIs
<1>6. CASE Beyond(o, p)
  <2>1. \A i \in S : given[i] = 0
    <3>1. ASSUME NEW i \in S
          PROVE  given[i] = 0
      <4>1. i \in DOMAIN q /\ i \notin reach
        BY <1>1, <1>2, <1>6 DEF AtPrice, Within
      <4> QED
        BY <1>5, <4>1 DEF Gives
    <3> QED
      BY <3>1
  <2>2. Sum(given, S) = Sum(given, {})
    <3>1. \A i \in S : given[i] \in Int
      BY <2>1
    <3> QED
      BY <1>4, <2>1, <3>1, SumSubset
  <2>3. Sum(given, S) = 0
    BY <2>2, SumEmpty
  <2> QED
    BY <1>1, <1>6, <2>3 DEF LevelShare
<1>7. CASE ~ Beyond(o, p)
  <2>1. PICK w, left : w = [i \in DOMAIN q |-> q[i].remaining_quantity]
                       /\ left = o.quantity - Wanted(q, Q)
    OBVIOUS
  <2>2. \A i \in DOMAIN q : w[i] = q[i].remaining_quantity /\ w[i] \in Nat
    BY <2>1, EntryHasLeft
  <2>3. Wanted(q, Q) \in Nat
    BY <1>2, QueueWanted
  <2>4. left \in Int
    BY <1>3, <2>1, <2>3
  <2>5. ASSUME NEW i \in S
        PROVE  /\ w[i] \in Nat
               /\ given[i] = Share(w[i], left - Sum(w, {j \in S : j < i}))
    <3>1. i \in DOMAIN q /\ q[i].price = p /\ i \in reach
      BY <1>1, <1>2, <1>7 DEF AtPrice, Within
    <3>2. PICK F : F = {j \in S : j < i}
      OBVIOUS
    <3>3. {j \in reach : j < i} = Q \cup F
      <4>1. i \in DOMAIN q /\ ~ Beyond(o, q[i].price)
        BY <1>7, <3>1
      <4>2. \A j \in DOMAIN q : j \in Within(q, o) /\ j < i <=>
              \/ j \in BetterThan(q, Opposite(o.side), q[i].price)
              \/ j \in AtPrice(q, q[i].price) /\ j < i
        BY <4>1, TakenBefore
      <4>3. \A j \in DOMAIN q : j \in reach /\ j < i <=> j \in Q \/ j \in F
        BY <1>1, <3>1, <3>2, <4>2
      <4> QED
        BY <1>2, <3>2, <4>3
    <3>4. F \in SUBSET DOMAIN q
      BY <1>2, <3>2
    <3>5. Q \cap F = {}
      <4>1. ASSUME NEW j \in DOMAIN q, j \in Q, j \in F
            PROVE  FALSE
        <5>1. q[j].price = p /\ Before(Opposite(o.side), q[j].price, p)
          BY <1>1, <3>2, <4>1 DEF AtPrice, BetterThan
        <5>2. q[j] \in Entry(ids, prices)
          BY EntryHasLeft
        <5>3. q[j].price \in Int
          BY <5>2 DEF Entry
        <5> QED
          BY <5>1, <5>3 DEF Before
      <4> QED
        BY <3>4, <4>1
    <3>6. Wanted(q, Q \cup F) = Wanted(q, Q) + Wanted(q, F)
      BY <1>2, <3>4, <3>5, WantedTogether
    <3>7. Wanted(q, F) = Sum(w, F)
      <4>1. IsFiniteSet(F)
        BY <3>4, SeqPositions
      <4>2. \A j \in F : w[j] = q[j].remaining_quantity
        BY <2>2, <3>4
      <4> QED
        BY <4>1, <4>2, WantedIs
    <3>8. given[i] = Share(q[i].remaining_quantity, o.quantity - Wanted(q, {j \in reach : j < i}))
      BY <1>5, <3>1 DEF Gives, WantedBefore
    <3>9. Wanted(q, F) \in Nat
      BY <3>4, QueueWanted
    <3>10. o.quantity - (Wanted(q, Q) + Wanted(q, F)) = left - Wanted(q, F)
      BY <1>3, <2>1, <2>3, <3>9
    <3>11. given[i] = Share(w[i], left - Sum(w, F))
      <4>1. given[i] = Share(w[i], o.quantity - (Wanted(q, Q) + Wanted(q, F)))
        BY <2>2, <3>1, <3>3, <3>6, <3>8, Zenon
      <4> QED
        BY <3>7, <3>10, <4>1, Zenon
    <3>12. w[i] \in Nat
      BY <2>2, <3>1
    <3> QED
      BY <3>2, <3>11, <3>12
  <2>6. Sum(given, S) = Share(Sum(w, S), left)
    <3>1. SharesInTurn(given, w, S, left)
      BY <2>5 DEF SharesInTurn
    <3> QED
      BY <1>4, <2>4, <3>1, SharesAddUp
  <2>7. Wanted(q, S) = Sum(w, S)
    <3>1. \A j \in S : w[j] = q[j].remaining_quantity
      BY <1>2, <2>2
    <3> QED
      BY <1>4, <3>1, WantedIs
  <2>8. LevelShare(q, o, p) = Share(Wanted(q, S), left)
    BY <1>1, <1>7, <2>1 DEF LevelShare
  <2> QED
    BY <1>1, <2>6, <2>7, <2>8, Zenon
<1> QED
  BY <1>6, <1>7

(* Trades as the script lists them. *)
TradesOf(fills) ==
  [k \in DOMAIN fills |-> [price |-> fills[k].price, quantity |-> fills[k].quantity]]

(* An empty list trades nothing. *)
LEMMA NothingTraded ==
  ASSUME NEW p
  PROVE  Traded(<<>>, p) = 0
<1>1. PICK w : w = [k \in {} |-> 0]
  OBVIOUS
<1>2. /\ DOMAIN <<>> = {} /\ {k \in DOMAIN <<>> : <<>>[k].price = p} = {}
      /\ \A k \in DOMAIN <<>> : w[k] = <<>>[k].quantity
  OBVIOUS
<1>3. Traded(<<>>, p) = Sum(w, {})
  <2>1. IsFiniteSet(DOMAIN <<>>)
    BY <1>2, FS_EmptySet
  <2>2. Traded(<<>>, p) = Sum(w, {k \in DOMAIN <<>> : <<>>[k].price = p})
    BY <1>2, <2>1, TradedIs
  <2> QED
    BY <1>2, <2>2
<1> QED
  BY <1>3, SumEmpty

(* What chosen fills trade at a price is what the makers of that price give. *)
LEMMA TradedOfChosen ==
  ASSUME NEW at \in SUBSET Int, IsFiniteSet(at), NEW fill, NEW p,
         \A i \in at : fill[i].quantity \in Int,
         NEW w, \A i \in at : w[i] = fill[i].quantity
  PROVE  Traded(TradesOf(Chosen(fill, at)), p) = Sum(w, {i \in at : fill[i].price = p})
<1>1. PICK n, c, t : n = Cardinality(at) /\ c = Chosen(fill, at) /\ t = TradesOf(c)
  OBVIOUS
<1>2. /\ n \in Nat
      /\ DOMAIN c = 1 .. n
      /\ \A i \in at : /\ PlaceOf(at, i) \in 1 .. n
                       /\ c[PlaceOf(at, i)] = fill[i]
  BY ONLY IsFiniteSet(at), <1>1, ChosenPlaces
<1>3. /\ DOMAIN t = 1 .. n
      /\ \A k \in 1 .. n : t[k].price = c[k].price /\ t[k].quantity = c[k].quantity
  BY <1>1, <1>2 DEF TradesOf
<1>4. PICK K, A : /\ K = {k \in DOMAIN t : t[k].price = p}
                  /\ A = {i \in at : fill[i].price = p}
  OBVIOUS
<1>5. PICK v : v = [k \in 1 .. n |-> t[k].quantity]
  OBVIOUS
<1>6. \A i \in at : PlaceOf(at, i) \in K <=> i \in A
  BY <1>2, <1>3, <1>4
<1>7. \A i \in A : w[i] \in Int /\ v[PlaceOf(at, i)] = w[i]
  BY <1>2, <1>3, <1>4, <1>5
<1>8. Traded(t, p) = Sum(v, K)
  <2>1. IsFiniteSet(1 .. n)
    <3>1. n \in Int /\ 1 \in Int
      BY <1>2
    <3> QED
      BY <3>1, FS_Interval
  <2>2. IsFiniteSet(DOMAIN t) /\ \A k \in DOMAIN t : v[k] = t[k].quantity
    BY <1>3, <1>5, <2>1
  <2> QED
    BY <1>4, <2>2, TradedIs
<1>9. Placed(at, A, K, w, v)
  BY <1>1, <1>3, <1>4, <1>6, <1>7 DEF Placed
<1>10. Sum(v, K) = Sum(w, A)
  BY <1>9, ChosenSum
<1> QED
  BY <1>1, <1>4, <1>8, <1>10

(* What the engine trades at a price. *)
LEMMA EngineTrades ==
  ASSUME NEW ids, NEW prices, NEW b, NEW o, Meets(ids, prices, b, o), NEW p
  PROVE  Traded(TradesOf(Submitted(b, o).fills), p) =
           IF Passes(b, o) THEN LevelShare(b[Opposite(o.side)], o, p) ELSE 0
<1>1. /\ prices \subseteq Int /\ b \in Book(ids, prices) /\ InOrder(b)
      /\ IsOrder(o, ids, prices) /\ Asks(o)
      /\ \A s \in Side : Absent(b[s], o.order_id)
  BY DEF Meets
<1>2. PICK rest, given : rest \in Book(ids, prices) /\ Sweeps(b, o, rest, given)
  BY <1>1, SubmittedIs
<1>3. rest = b
  <2>1. \A s \in Side : \A i \in DOMAIN b[s] : b[s][i].order_id # o.order_id
    BY <1>1 DEF Absent
  <2>2. Without(b, o.order_id) = b
    BY <1>1, <2>1, WithoutAbsent
  <2> QED
    BY <1>2, <2>2 DEF Sweeps
<1>4. PICK q : q = b[Opposite(o.side)]
  OBVIOUS
<1>5. Opposite(o.side) \in Side /\ q \in Seq(Entry(ids, prices)) /\ Sorted(q, Opposite(o.side))
  <2>1. Opposite(o.side) \in Side
    BY <1>1, OppositeIsSide DEF Asks
  <2> QED
    BY <1>1, <1>4, <2>1 DEF Book, InOrder
<1>6. given = Allotment(q, Within(q, o), o.quantity)
  <2>1. Reachable(b, o) = Within(q, o)
    BY <1>4, ReachesAll
  <2>2. o.remaining_quantity = o.quantity
    BY <1>1 DEF IsOrder
  <2>3. given = Allotment(b[Opposite(o.side)], Reachable(b, o), o.remaining_quantity)
    BY <1>2, <1>3 DEF Sweeps
  <2> QED
    BY <1>4, <2>1, <2>2, <2>3, Zenon
<1>7. /\ Shares(given, q)
      /\ Submitted(b, o) = IF Passes(b, o) THEN Settle(b, o, given)
                           ELSE [fills |-> <<>>, book |-> b]
  BY <1>2, <1>3, <1>4 DEF Sweeps
<1>8. CASE ~ Passes(b, o)
  <2>1. Submitted(b, o).fills = <<>>
    BY <1>7, <1>8
  <2>2. TradesOf(<<>>) = <<>>
    BY DEF TradesOf
  <2>3. Traded(<<>>, p) = 0
    BY NothingTraded
  <2> QED
    BY <1>8, <2>1, <2>2, <2>3
<1>9. CASE Passes(b, o)
  <2>1. PICK after, fill, left : Parts(ids, prices, b, o, given, after, fill, left)
    BY <1>1, <1>4, <1>7, SettleParts
  <2>2. PICK at : at = {i \in DOMAIN q : given[i] > 0}
    OBVIOUS
  <2>3. /\ \A i \in DOMAIN q : fill[i] = FillOf(q[i], o, given[i])
        /\ Submitted(b, o).fills = Chosen(fill, at)
    BY <1>4, <1>7, <1>9, <2>1, <2>2 DEF Parts
  <2>4. \A i \in DOMAIN q : given[i] \in Nat
    <3>1. ASSUME NEW i \in DOMAIN q
          PROVE  given[i] \in Nat
      <4>1. given[i] \in 0 .. q[i].remaining_quantity /\ q[i].remaining_quantity \in Nat
        BY <1>5, <1>7, EntryHasLeft DEF Shares
      <4> QED
        BY <4>1
    <3> QED
      BY <3>1
  <2>5. at \in SUBSET DOMAIN q /\ at \in SUBSET Int /\ IsFiniteSet(at) /\ IsFiniteSet(DOMAIN q)
    <3>1. at \in SUBSET DOMAIN q
      BY <2>2
    <3> QED
      BY <1>5, <3>1, SeqPositions
  <2>6. ASSUME NEW i \in at
        PROVE  fill[i].price = q[i].price /\ fill[i].quantity = given[i]
               /\ fill[i].quantity \in Int
    <3>1. i \in DOMAIN q
      BY <2>5
    <3>2. fill[i] = FillOf(q[i], o, given[i]) /\ given[i] \in Int
      BY <2>3, <2>4, <3>1
    <3>3. /\ FillOf(q[i], o, given[i]).price = q[i].price
          /\ FillOf(q[i], o, given[i]).quantity = given[i]
      BY DEF FillOf
    <3> QED
      BY <3>2, <3>3
  <2>7. PICK A : A = {i \in at : fill[i].price = p}
    OBVIOUS
  <2>8. Traded(TradesOf(Chosen(fill, at)), p) = Sum(given, A)
    <3>1. \A i \in at : fill[i].quantity \in Int /\ given[i] = fill[i].quantity
      BY <2>6
    <3>2. Traded(TradesOf(Chosen(fill, at)), p) = Sum(given, {i \in at : fill[i].price = p})
      BY ONLY <2>5, <3>1, TradedOfChosen
    <3> QED
      BY <2>7, <3>2
  <2>9. A \in SUBSET AtPrice(q, p) /\ \A i \in AtPrice(q, p) \ A : given[i] = 0
    <3>1. AtPrice(q, p) \subseteq DOMAIN q /\ A \in SUBSET AtPrice(q, p)
      BY <2>5, <2>6, <2>7 DEF AtPrice
    <3>2. ASSUME NEW i \in AtPrice(q, p), i \notin A
          PROVE  given[i] = 0
      <4>1. i \in DOMAIN q /\ q[i].price = p
        BY DEF AtPrice
      <4>2. ~ (given[i] > 0)
        BY <2>2, <2>6, <2>7, <3>2, <4>1
      <4> QED
        BY <2>4, <4>1, <4>2
    <3> QED
      BY <3>1, <3>2
  <2>10. Sum(given, AtPrice(q, p)) = Sum(given, A)
    <3>1. AtPrice(q, p) \in SUBSET DOMAIN q
      BY DEF AtPrice
    <3>2. IsFiniteSet(AtPrice(q, p)) /\ \A i \in AtPrice(q, p) : given[i] \in Int
      BY <2>4, <2>5, <3>1, FS_Subset
    <3> QED
      BY <2>9, <3>2, SumSubset
  <2>11. Sum(given, AtPrice(q, p)) = LevelShare(q, o, p)
    BY <1>1, <1>5, <1>6, GivenAtPrice
  <2> QED
    BY <1>4, <1>9, <2>3, <2>8, <2>10, <2>11
<1> QED
  BY <1>8, <1>9

(* It trades at prices of the opposite queue only. *)
LEMMA FillPrices ==
  ASSUME NEW ids, NEW prices, NEW b \in Book(ids, prices), NEW o, IsOrder(o, ids, prices),
         \A s \in Side : Absent(b[s], o.order_id),
         NEW k \in DOMAIN Submitted(b, o).fills
  PROVE  Submitted(b, o).fills[k].price \in PricesIn(b[Opposite(o.side)])
<1>1. PICK rest, given : rest \in Book(ids, prices) /\ Sweeps(b, o, rest, given)
  BY SubmittedIs
<1>2. rest = b
  <2>1. \A s \in Side : \A i \in DOMAIN b[s] : b[s][i].order_id # o.order_id
    BY DEF Absent
  <2>2. Without(b, o.order_id) = b
    BY <2>1, WithoutAbsent
  <2> QED
    BY <1>1, <2>2 DEF Sweeps
<1>3. PICK q : q = b[Opposite(o.side)]
  OBVIOUS
<1>4. /\ Shares(given, q)
      /\ Submitted(b, o) = IF Passes(b, o) THEN Settle(b, o, given)
                           ELSE [fills |-> <<>>, book |-> b]
  BY <1>1, <1>2, <1>3 DEF Sweeps
<1>5. Passes(b, o)
  <2>1. ASSUME ~ Passes(b, o)
        PROVE  FALSE
    <3>1. Submitted(b, o).fills = <<>>
      BY <1>4, <2>1
    <3> QED
      BY <3>1
  <2> QED
    BY <2>1
<1>6. PICK after, fill, left : Parts(ids, prices, b, o, given, after, fill, left)
  BY <1>3, <1>4, SettleParts
<1>7. PICK at : at = {i \in DOMAIN q : given[i] > 0}
  OBVIOUS
<1>8. /\ \A i \in DOMAIN q : fill[i] = FillOf(q[i], o, given[i])
      /\ Submitted(b, o).fills = Chosen(fill, at)
      /\ q \in Seq(Entry(ids, prices))
  BY <1>3, <1>4, <1>5, <1>6, <1>7 DEF Parts
<1>9. at \in SUBSET DOMAIN q /\ at \in SUBSET Int /\ IsFiniteSet(at)
  <2>1. at \in SUBSET DOMAIN q
    BY <1>7
  <2> QED
    BY <1>8, <2>1, SeqPositions
<1>10. PICK i : i \in at /\ Submitted(b, o).fills[k] = fill[i]
  <2>1. PICK c : c = Chosen(fill, at)
    OBVIOUS
  <2>2. /\ c = [j \in 1 .. Cardinality(at) |-> c[j]]
        /\ \A j \in 1 .. Cardinality(at) : \E i \in at : c[j] = fill[i]
    BY <1>9, <2>1, ChosenPlaces
  <2>3. k \in 1 .. Cardinality(at)
    BY <1>8, <2>1, <2>2
  <2> QED
    BY <1>8, <2>1, <2>2, <2>3
<1>11. Submitted(b, o).fills[k].price = q[i].price
  <2>1. i \in DOMAIN q
    BY <1>9, <1>10
  <2>2. Submitted(b, o).fills[k] = FillOf(q[i], o, given[i])
    BY <1>8, <1>10, <2>1
  <2>3. FillOf(q[i], o, given[i]).price = q[i].price
    BY DEF FillOf
  <2> QED
    BY <2>2, <2>3
<1> QED
  BY <1>3, <1>8, <1>9, <1>10, <1>11 DEF PricesIn, ToSet

(* What the script predicts. *)
LEMMA ScriptPredicts ==
  ASSUME NEW ids, NEW prices, NEW b, NEW o, Meets(ids, prices, b, o),
         NEW depth, ShowsLevels(depth[Opposite(o.side)], b[Opposite(o.side)], Opposite(o.side)),
         NEW p
  PROVE  Traded(predict_matching_trades(o, depth), p)
           = Traded(TradesOf(Submitted(b, o).fills), p)
<1>1. PICK q, L, walk, side :
        q = b[side] /\ L = depth[side] /\ walk = Walk(o, L) /\ side = Opposite(o.side)
  OBVIOUS
<1>2. prices \subseteq Int /\ b \in Book(ids, prices) /\ Asks(o) /\ o.quantity \in Int
  BY DEF Meets, Asks
<1>3. side \in Side /\ q \in Seq(Entry(ids, prices))
  <2>1. side \in Side
    BY <1>1, <1>2, OppositeIsSide DEF Asks
  <2> QED
    BY <1>1, <1>2, <2>1 DEF Book
<1>4. Levelled(L, q, Opposite(o.side), ids, prices)
  BY <1>1, <1>2, <1>3 DEF Levelled
<1>5. PICK share : share = LevelShare(q, o, p)
  OBVIOUS
<1>6. Traded(walk.trades, p) = share
  <2>1. Traded(Walk(o, L).trades, p) = LevelShare(q, o, p)
    BY <1>2, <1>4, PredictedShare
  <2> QED
    BY <1>1, <1>5, <2>1
<1>7. Traded(TradesOf(Submitted(b, o).fills), p) = IF Passes(b, o) THEN share ELSE 0
  BY <1>1, <1>5, EngineTrades
<1>8. predict_matching_trades(o, depth) =
        IF o.order_type = FOK /\ walk.remaining > 0 THEN <<>> ELSE walk.trades
  BY <1>1 DEF predict_matching_trades
<1>9. Traded(<<>>, p) = 0
  BY NothingTraded
<1>10. PICK all : all = Wanted(q, Within(q, o))
  OBVIOUS
<1>11. /\ all \in Nat
       /\ walk.remaining \in Int
       /\ walk.remaining <= 0 <=> o.quantity <= 0 \/ all >= o.quantity
  <2>1. Within(q, o) \in SUBSET DOMAIN q
    BY DEF Within
  <2>2. all \in Nat
    BY <1>3, <1>10, <2>1, QueueWanted
  <2>3. WentTo(Len(Walk(o, L).trades), o, L, Cardinality(PricesIn(q)), Walk(o, L))
    BY <1>2, <1>4, WalkGoes
  <2>4. walk.remaining \in Int
    BY <1>1, <2>3 DEF WentTo
  <2>5. walk.remaining <= 0 <=> o.quantity <= 0 \/ all >= o.quantity
    BY <1>1, <1>2, <1>4, <1>10, WalkFills
  <2> QED
    BY <2>2, <2>4, <2>5
<1>12. Passes(b, o) <=> (o.order_type = FOK => Within(q, o) # {} /\ all >= o.quantity)
  <2>1. Countable(b, o) = Within(q, o)
    BY <1>1, ReachesAll
  <2> QED
    BY <1>1, <1>10, <2>1 DEF Passes
<1>13. CASE o.order_type # FOK
  BY <1>6, <1>7, <1>8, <1>12, <1>13
<1>14. CASE o.order_type = FOK /\ walk.remaining > 0
  <2>1. ~ (all >= o.quantity)
    BY <1>11, <1>14
  <2> QED
    BY <1>7, <1>8, <1>9, <1>12, <1>14, <2>1
<1>15. CASE o.order_type = FOK /\ ~ (walk.remaining > 0) /\ o.quantity > 0
  <2>1. all >= o.quantity /\ all # 0
    BY <1>2, <1>11, <1>15
  <2>2. Within(q, o) # {}
    BY <1>10, <2>1, WantedNone
  <2> QED
    BY <1>6, <1>7, <1>8, <1>12, <1>15, <2>1, <2>2
<1>16. CASE o.order_type = FOK /\ ~ (walk.remaining > 0) /\ ~ (o.quantity > 0)
  <2>1. share = 0
    <3>1. PICK Q : Q = BetterThan(q, Opposite(o.side), p)
      OBVIOUS
    <3>2. Q \in SUBSET DOMAIN q
      BY <3>1 DEF BetterThan
    <3>3. Wanted(q, Q) \in Nat
      BY <1>3, <3>2, QueueWanted
    <3>4. o.quantity - Wanted(q, Q) <= 0
      BY <1>2, <1>16, <3>3
    <3> QED
      BY <1>5, <3>1, <3>4 DEF LevelShare, Share
  <2> QED
    BY <1>6, <1>7, <1>8, <1>16, <2>1
<1> QED
  BY <1>13, <1>14, <1>15, <1>16

-----------------------------------------------------------------------------
(* The comparison *)

(* Lists of trades. *)
TradeList(prices) == Seq([price : prices, quantity : Nat \ {0}])

(* At most one trade at each price. *)
OneEach(x) == \A j, k \in DOMAIN x : x[j].price = x[k].price => j = k

(* The parts of a list of trades. *)
LEMMA TradesAre ==
  ASSUME NEW prices, NEW x \in TradeList(prices)
  PROVE  /\ Len(x) \in Nat /\ DOMAIN x = 1 .. Len(x)
         /\ IsFiniteSet(DOMAIN x) /\ Cardinality(DOMAIN x) = Len(x)
         /\ \A k \in DOMAIN x : x[k] = [price |-> x[k].price, quantity |-> x[k].quantity]
         /\ \A k \in DOMAIN x : /\ x[k].price \in prices
                                /\ x[k].quantity \in Nat /\ x[k].quantity > 0
<1>1. PICK T : T = [price : prices, quantity : Nat \ {0}]
  OBVIOUS
<1>2. x \in Seq(T)
  BY <1>1 DEF TradeList
<1>3. /\ Len(x) \in Nat /\ DOMAIN x = 1 .. Len(x)
      /\ IsFiniteSet(DOMAIN x) /\ Cardinality(DOMAIN x) = Len(x)
  BY <1>2, SeqPositions
<1>4. \A k \in DOMAIN x : x[k] \in T
  BY <1>2, <1>3
<1>5. ASSUME NEW k \in DOMAIN x
      PROVE  /\ x[k] = [price |-> x[k].price, quantity |-> x[k].quantity]
             /\ x[k].price \in prices
             /\ x[k].quantity \in Nat /\ x[k].quantity > 0
  <2>1. x[k] \in [price : prices, quantity : Nat \ {0}]
    BY <1>1, <1>4
  <2> QED
    BY <2>1
<1> QED
  BY <1>3, <1>5

(* Then a price trades what its trade says, or nothing. *)
LEMMA TradedOnce ==
  ASSUME NEW prices, NEW x \in TradeList(prices), OneEach(x)
  PROVE  /\ \A k \in DOMAIN x : Traded(x, x[k].price) = x[k].quantity
         /\ \A p : Traded(x, p) # 0 => \E k \in DOMAIN x : x[k].price = p
<1>1. IsFiniteSet(DOMAIN x)
  BY TradesAre
<1>2. PICK w : w = [k \in DOMAIN x |-> x[k].quantity]
  OBVIOUS
<1>3. \A k \in DOMAIN x : w[k] = x[k].quantity /\ w[k] \in Int
  BY <1>2, TradesAre
<1>4. ASSUME NEW k \in DOMAIN x
      PROVE  Traded(x, x[k].price) = x[k].quantity
  <2>1. PICK p : p = x[k].price
    OBVIOUS
  <2>2. {l \in DOMAIN x : x[l].price = p} = {k}
    BY <2>1 DEF OneEach
  <2>3. Traded(x, p) = Sum(w, {l \in DOMAIN x : x[l].price = p})
    BY <1>1, <1>3, TradedIs
  <2>4. Sum(w, {k}) = w[k]
    BY <1>3, SumOne
  <2> QED
    BY <1>3, <2>1, <2>2, <2>3, <2>4
<1>5. ASSUME NEW p, ~ \E k \in DOMAIN x : x[k].price = p
      PROVE  Traded(x, p) = 0
  <2>1. {l \in DOMAIN x : x[l].price = p} = {}
    BY <1>5
  <2>2. Traded(x, p) = Sum(w, {l \in DOMAIN x : x[l].price = p})
    BY <1>1, <1>3, TradedIs
  <2> QED
    BY <2>1, <2>2, SumEmpty
<1> QED
  BY <1>4, <1>5

(* What trades the same at each price has the same trades. *)
LEMMA SameTrade ==
  ASSUME NEW prices, NEW x \in TradeList(prices), OneEach(x),
         NEW y \in TradeList(prices), OneEach(y),
         \A p \in prices : Traded(x, p) = Traded(y, p),
         NEW k \in DOMAIN x
  PROVE  \E l \in DOMAIN y : y[l] = x[k]
<1>1. PICK p, n : p = x[k].price /\ n = x[k].quantity
  OBVIOUS
<1>2. x[k] = [price |-> p, quantity |-> n] /\ n \in Nat /\ n > 0
  BY <1>1, TradesAre
<1>3. p \in prices
  <2>1. x[k].price \in prices
    BY TradesAre
  <2> QED
    BY <1>1, <2>1
<1>4. Traded(y, p) = n
  BY <1>1, <1>3, TradedOnce
<1>5. PICK l : l \in DOMAIN y /\ y[l].price = p
  <2>1. Traded(y, p) # 0
    BY <1>2, <1>4
  <2> QED
    BY <2>1, TradedOnce
<1>6. y[l].quantity = n
  BY <1>4, <1>5, TradedOnce
<1>7. y[l] = [price |-> y[l].price, quantity |-> y[l].quantity]
  BY <1>5, TradesAre
<1> QED
  BY <1>2, <1>5, <1>6, <1>7

(* Lists, of one trade at a price, that trade the same at every price; and   *)
(* that have the same trades, and as many.                                   *)
Agreeing(prices, x, y) ==
  /\ x \in TradeList(prices) /\ OneEach(x)
  /\ y \in TradeList(prices) /\ OneEach(y)
  /\ \A p \in prices : Traded(x, p) = Traded(y, p)

Alike(x, y) ==
  /\ Len(x) = Len(y)
  /\ \A k \in DOMAIN x : \E l \in DOMAIN y : y[l] = x[k]
  /\ \A l \in DOMAIN y : \E k \in DOMAIN x : x[k] = y[l]

(* The former is the latter. *)
LEMMA SameTrades ==
  ASSUME NEW prices, NEW x, NEW y, Agreeing(prices, x, y)
  PROVE  Alike(x, y)
<1>0. /\ x \in TradeList(prices) /\ OneEach(x)
      /\ y \in TradeList(prices) /\ OneEach(y)
      /\ \A p \in prices : Traded(x, p) = Traded(y, p)
  BY DEF Agreeing
<1>1. \A k \in DOMAIN x : \E l \in DOMAIN y : y[l] = x[k]
  BY <1>0, SameTrade
<1>2. \A l \in DOMAIN y : \E k \in DOMAIN x : x[k] = y[l]
  BY <1>0, SameTrade
<1>3. PICK h : h = [k \in DOMAIN x |-> CHOOSE l \in DOMAIN y : y[l] = x[k]]
  OBVIOUS
<1>4. \A k \in DOMAIN x : h[k] \in DOMAIN y /\ y[h[k]] = x[k]
  BY <1>1, <1>3
<1>5. \A j, k \in DOMAIN x : h[j] = h[k] => j = k
  <2>1. ASSUME NEW j \in DOMAIN x, NEW k \in DOMAIN x, h[j] = h[k]
        PROVE  j = k
    <3>1. x[j].price = x[k].price
      BY <1>4, <2>1
    <3> QED
      BY <1>0, <3>1 DEF OneEach
  <2> QED
    BY <2>1
<1>6. \A l \in DOMAIN y : \E k \in DOMAIN x : h[k] = l
  <2>1. ASSUME NEW l \in DOMAIN y
        PROVE  \E k \in DOMAIN x : h[k] = l
    <3>1. PICK k : k \in DOMAIN x /\ x[k] = y[l]
      BY <1>2
    <3>2. h[k] \in DOMAIN y /\ y[h[k]].price = y[l].price
      BY <1>4, <3>1
    <3>3. h[k] = l
      BY <1>0, <3>2 DEF OneEach
    <3> QED
      BY <3>1, <3>3
  <2> QED
    BY <2>1
<1>7. IsFiniteSet(DOMAIN x) /\ \A k \in DOMAIN x : h[k] \in DOMAIN y
  BY <1>0, <1>4, TradesAre
<1>8. Cardinality(DOMAIN y) = Cardinality(DOMAIN x)
  BY ONLY <1>5, <1>6, <1>7, CountCarried
<1>9. Cardinality(DOMAIN x) = Len(x)
  BY <1>0, TradesAre
<1>10. Cardinality(DOMAIN y) = Len(y)
  BY <1>0, TradesAre
<1> QED
  BY <1>1, <1>2, <1>8, <1>9, <1>10 DEF Alike

(* A list of trades, of which two have never the same price, as numbers.     *)
Singly(x) ==
  /\ IsFiniteSet(DOMAIN x) /\ OneEach(x)
  /\ \A k \in DOMAIN x : k \in Int /\ x[k].price \in Int

TradePrices(x) == {x[k].price : k \in DOMAIN x}

(* The place of a trade in such a list, sorted, is that of its price. *)
LEMMA PlaceIs ==
  ASSUME NEW x, Singly(x), NEW k \in DOMAIN x
  PROVE  /\ Place(x, k) = Cardinality({p \in TradePrices(x) : p <= x[k].price})
         /\ IsFiniteSet(TradePrices(x))
<1>1. /\ IsFiniteSet(DOMAIN x) /\ k \in Int
      /\ \A j \in DOMAIN x : x[j].price \in Int
      /\ \A i, j \in DOMAIN x : x[i].price = x[j].price => i = j
  BY DEF Singly, OneEach
<1>2. PICK S, T, h : /\ S = {j \in DOMAIN x : x[j].price <= x[k].price}
                     /\ T = {p \in TradePrices(x) : p <= x[k].price}
                     /\ h = [j \in DOMAIN x |-> x[j].price]
  OBVIOUS
<1>3. {j \in DOMAIN x : Less(x[j], x[k]) \/ (x[j] = x[k] /\ j <= k)} = S
  <2>1. ASSUME NEW j \in DOMAIN x
        PROVE  Less(x[j], x[k]) \/ (x[j] = x[k] /\ j <= k) <=> x[j].price <= x[k].price
    <3>1. x[j].price \in Int /\ x[k].price \in Int
      BY <1>1
    <3>2. CASE j = k
      BY <1>1, <3>1, <3>2
    <3>3. CASE j # k
      <4>1. x[j].price # x[k].price
        BY <1>1, <3>3
      <4> QED
        BY <3>1, <4>1 DEF Less
    <3> QED
      BY <3>2, <3>3
  <2> QED
    BY <1>2, <2>1
<1>4. S \in SUBSET DOMAIN x /\ IsFiniteSet(S)
  BY <1>1, <1>2, FS_Subset
<1>5. /\ \A j \in S : h[j] \in T
      /\ \A i, j \in S : h[i] = h[j] => i = j
      /\ \A p \in T : \E j \in S : h[j] = p
  <2>1. \A j \in S : j \in DOMAIN x /\ h[j] = x[j].price /\ h[j] <= x[k].price
    BY <1>2
  <2>2. \A j \in S : h[j] \in T
    BY <1>2, <2>1 DEF TradePrices
  <2>3. \A i, j \in S : h[i] = h[j] => i = j
    BY <1>1, <2>1
  <2>4. ASSUME NEW p \in T
        PROVE  \E j \in S : h[j] = p
    <3>1. PICK j : j \in DOMAIN x /\ p = x[j].price /\ p <= x[k].price
      BY <1>2 DEF TradePrices
    <3>2. j \in S
      BY <1>2, <3>1
    <3> QED
      BY <2>1, <3>1, <3>2
  <2> QED
    BY <2>2, <2>3, <2>4
<1>6. Cardinality(T) = Cardinality(S)
  BY <1>4, <1>5, CountCarried
<1>7. Place(x, k) = Cardinality(S)
  BY <1>3 DEF Place
<1>8. IsFiniteSet(TradePrices(x))
  <2>1. h \in Surjection(DOMAIN x, TradePrices(x))
    BY <1>2 DEF TradePrices, Surjection
  <2> QED
    BY <1>1, <2>1, FS_Surjection
<1> QED
  BY <1>2, <1>6, <1>7, <1>8

(* So at the same place of lists with the same prices there is the same price. *)
LEMMA SamePlace ==
  ASSUME NEW x, Singly(x), NEW y, Singly(y), TradePrices(x) = TradePrices(y),
         NEW j \in DOMAIN x, NEW k \in DOMAIN y, Place(x, j) = Place(y, k)
  PROVE  x[j].price = y[k].price
<1>1. PICK P, p, r : P = TradePrices(x) /\ p = x[j].price /\ r = y[k].price
  OBVIOUS
<1>2. p \in P /\ r \in P /\ p \in Int /\ r \in Int /\ \A z \in P : z \in Int
  BY <1>1 DEF TradePrices, Singly
<1>3. IsFiniteSet(P)
  BY <1>1, PlaceIs
<1>4. Cardinality({z \in P : z <= p}) = Cardinality({z \in P : z <= r})
  <2>1. Place(x, j) = Cardinality({z \in P : z <= p})
    BY <1>1, PlaceIs
  <2>2. Place(y, k) = Cardinality({z \in P : z <= r})
    <3>1. Place(y, k) = Cardinality({z \in TradePrices(y) : z <= y[k].price})
      BY PlaceIs
    <3> QED
      BY <1>1, <3>1
  <2> QED
    BY <2>1, <2>2
<1>5. ASSUME NEW a \in P, NEW c \in P, a < c
      PROVE  Cardinality({z \in P : z <= a}) # Cardinality({z \in P : z <= c})
  <2>1. PICK A, C : A = {z \in P : z <= a} /\ C = {z \in P : z <= c}
    OBVIOUS
  <2>2. IsFiniteSet(C) /\ C \subseteq P
    BY <1>3, <2>1, FS_Subset
  <2>3. A \subseteq C
    <3>1. ASSUME NEW z \in P, z <= a
          PROVE  z <= c
      <4>1. z \in Int /\ a \in Int /\ c \in Int
        BY <1>2
      <4> QED
        BY <1>5, <3>1, <4>1
    <3> QED
      BY <2>1, <3>1
  <2>4. c \in C /\ c \notin A
    <3>1. a \in Int /\ c \in Int
      BY <1>2
    <3>2. c <= c /\ ~ (c <= a)
      BY <1>5, <3>1
    <3> QED
      BY <2>1, <3>2
  <2>5. A # C
    BY <2>4
  <2>6. Cardinality(A) # Cardinality(C)
    BY ONLY <2>2, <2>3, <2>5, FS_Subset
  <2> QED
    BY <2>1, <2>6
<1>6. ~ (p < r) /\ ~ (r < p)
  BY <1>2, <1>4, <1>5
<1> QED
  BY <1>1, <1>2, <1>6

(* y is what is read of the texts of trades, whose prices are shown as they  *)
(* are.                                                                      *)
Reads(y, trades) ==
  /\ DOMAIN y = DOMAIN trades /\ Len(y) = Len(trades)
  /\ \A k \in DOMAIN trades :
       /\ y[k].price = trades[k].price
       /\ y[k].quantity \in Int
       /\ -Resolution <= 2 * (y[k].quantity - trades[k].quantity)
       /\ 2 * (y[k].quantity - trades[k].quantity) <= Resolution

(* What is read trades at each price what was traded, up to the rounding of  *)
(* each trade.                                                               *)
LEMMA ReadTotals ==
  ASSUME NEW prices, NEW trades \in TradeList(prices), NEW y, Reads(y, trades), NEW p
  PROVE  LET error == 2 * (Traded(trades, p) - Traded(y, p))
             most  == Resolution * Cardinality(At(y, p))
         IN  -most <= error /\ error <= most
<1>1. PICK v, w, K : /\ v = [k \in DOMAIN trades |-> trades[k].quantity]
                     /\ w = [k \in DOMAIN trades |-> y[k].quantity]
                     /\ K = {k \in DOMAIN trades : trades[k].price = p}
  OBVIOUS
<1>2. IsFiniteSet(DOMAIN trades) /\ \A k \in DOMAIN trades : trades[k].quantity \in Nat
  BY TradesAre
<1>3. K \in SUBSET DOMAIN trades /\ IsFiniteSet(K)
  BY <1>1, <1>2, FS_Subset
<1>4. Traded(trades, p) = Sum(v, K)
  <2>1. \A k \in DOMAIN trades : v[k] = trades[k].quantity
    BY <1>1
  <2> QED
    BY <1>1, <1>2, <2>1, TradedIs
<1>5. /\ DOMAIN y = DOMAIN trades
      /\ {k \in DOMAIN y : y[k].price = p} = K
      /\ \A k \in DOMAIN y : w[k] = y[k].quantity
  BY <1>1 DEF Reads
<1>6. Traded(y, p) = Sum(w, K)
  BY <1>2, <1>5, TradedIs
<1>7. At(y, p) = K
  BY <1>5 DEF At
<1>8. Resolution \in Nat
  BY NumberAssumption
<1>9. ASSUME NEW k \in K
      PROVE  /\ v[k] \in Int /\ w[k] \in Int
             /\ -Resolution <= 2 * (w[k] - v[k]) /\ 2 * (w[k] - v[k]) <= Resolution
  <2>1. k \in DOMAIN trades
    BY <1>3
  <2>2. v[k] = trades[k].quantity /\ w[k] = y[k].quantity /\ trades[k].quantity \in Nat
    BY <1>1, <1>2, <2>1
  <2> QED
    BY <2>1, <2>2 DEF Reads
<1>10. /\ -(Resolution * Cardinality(K)) <= 2 * (Sum(w, K) - Sum(v, K))
       /\ 2 * (Sum(w, K) - Sum(v, K)) <= Resolution * Cardinality(K)
  BY ONLY <1>3, <1>8, <1>9, SumsNear
<1>11. /\ Sum(w, K) \in Int /\ Sum(v, K) \in Int /\ Resolution * Cardinality(K) \in Int
  <2>1. Sum(w, K) \in Int
    BY <1>3, <1>9, SumType
  <2>2. Sum(v, K) \in Int
    BY <1>3, <1>9, SumType
  <2>3. Cardinality(K) \in Nat
    BY <1>3, FS_CardinalityType
  <2> QED
    BY <1>8, <2>1, <2>2, <2>3
<1> QED
  BY <1>4, <1>6, <1>7, <1>10, <1>11

(* The comparison of what was expected with what is read of the same trades  *)
(* finds no difference.                                                      *)
LEMMA NoDifference ==
  ASSUME NEW prices, prices \subseteq Int, NEW x, NEW trades, Agreeing(prices, x, trades),
         NEW y, Reads(y, trades), NEW delta \in {Resolution - 1, Resolution}
  PROVE  match_ok(x, y, delta)
<1>0. /\ x \in TradeList(prices) /\ OneEach(x)
      /\ trades \in TradeList(prices) /\ OneEach(trades)
  BY DEF Agreeing
<1>1. Resolution \in Nat /\ Resolution > 0
  BY NumberAssumption
<1>2. /\ Len(x) = Len(trades)
      /\ \A k \in DOMAIN x : \E l \in DOMAIN trades : trades[l] = x[k]
      /\ \A l \in DOMAIN trades : \E k \in DOMAIN x : x[k] = trades[l]
  BY SameTrades DEF Alike
<1>3. Singly(x) /\ Singly(trades)
  <2>1. ASSUME NEW z \in TradeList(prices), OneEach(z)
        PROVE  Singly(z)
    <3>1. /\ DOMAIN z = 1 .. Len(z) /\ Len(z) \in Nat /\ IsFiniteSet(DOMAIN z)
          /\ \A k \in DOMAIN z : z[k].price \in prices
      BY TradesAre
    <3>2. ASSUME NEW k \in DOMAIN z
          PROVE  k \in Int /\ z[k].price \in Int
      <4>1. k \in Int
        BY <3>1
      <4>2. z[k].price \in prices /\ \A r \in prices : r \in Int
        BY <3>1
      <4> QED
        BY <4>1, <4>2
    <3> QED
      BY <2>1, <3>1, <3>2 DEF Singly
  <2> QED
    BY <1>0, <2>1
<1>4. /\ DOMAIN y = DOMAIN trades
      /\ \A k \in DOMAIN trades : y[k].price = trades[k].price
  BY DEF Reads
<1>5. Singly(y) /\ TradePrices(y) = TradePrices(trades)
  <2>1. Singly(y)
    BY <1>3, <1>4 DEF Singly, OneEach
  <2> QED
    BY <1>4, <2>1 DEF TradePrices
<1>6. TradePrices(x) = TradePrices(trades)
  <2>1. ASSUME NEW p \in TradePrices(x)
        PROVE  p \in TradePrices(trades)
    <3>1. PICK k : k \in DOMAIN x /\ p = x[k].price
      BY DEF TradePrices
    <3>2. PICK l : l \in DOMAIN trades /\ trades[l] = x[k]
      BY <1>2, <3>1
    <3> QED
      BY <3>1, <3>2 DEF TradePrices
  <2>2. ASSUME NEW p \in TradePrices(trades)
        PROVE  p \in TradePrices(x)
    <3>1. PICK l : l \in DOMAIN trades /\ p = trades[l].price
      BY DEF TradePrices
    <3>2. PICK k : k \in DOMAIN x /\ x[k] = trades[l]
      BY <1>2, <3>1
    <3> QED
      BY <3>1, <3>2 DEF TradePrices
  <2> QED
    BY <2>1, <2>2
<1>7. ASSUME NEW j \in DOMAIN x, NEW k \in DOMAIN y, Place(x, j) = Place(y, k)
      PROVE  Near(x[j].price, y[k].price, delta) /\ Near(x[j].quantity, y[k].quantity, delta)
  <2>1. x[j].price = y[k].price
    <3>1. Singly(x) /\ Singly(y) /\ TradePrices(x) = TradePrices(y)
      BY <1>3, <1>5, <1>6
    <3> QED
      BY <1>7, <3>1, SamePlace
  <2>2. k \in DOMAIN trades /\ trades[k].price = x[j].price
    BY <1>4, <2>1
  <2>3. PICK l : l \in DOMAIN trades /\ trades[l] = x[j]
    BY <1>2
  <2>4. l = k
    BY <1>0, <2>2, <2>3 DEF OneEach
  <2>5. x[j].quantity = trades[k].quantity /\ x[j].quantity \in Nat /\ x[j].price \in Int
    <3>1. x[j].quantity \in Nat /\ x[j].price \in prices
      BY <1>0, TradesAre
    <3> QED
      BY <2>3, <2>4, <3>1
  <2>6. /\ y[k].quantity \in Int
        /\ -Resolution <= 2 * (y[k].quantity - x[j].quantity)
        /\ 2 * (y[k].quantity - x[j].quantity) <= Resolution
    BY <2>2, <2>5 DEF Reads
  <2>7. delta \in Int /\ 0 <= delta /\ Resolution - 1 <= delta
    BY <1>1
  <2>8. Near(x[j].price, y[k].price, delta)
    BY <2>1, <2>5, <2>7 DEF Near
  <2>9. PICK d : d = y[k].quantity - x[j].quantity
    OBVIOUS
  <2>10. d \in Int /\ -Resolution <= 2 * d /\ 2 * d <= Resolution
    BY <2>5, <2>6, <2>9
  <2>11. d <= Resolution - 1 /\ -(Resolution - 1) <= d
    BY <1>1, <2>10
  <2>12. Near(x[j].quantity, y[k].quantity, delta)
    BY <1>1, <2>5, <2>6, <2>7, <2>9, <2>10, <2>11 DEF Near
  <2> QED
    BY <2>8, <2>12
<1>8. Len(x) = Len(y)
  BY <1>2 DEF Reads
<1> QED
  BY <1>7, <1>8 DEF match_ok

(* What the script predicts has one trade for each price. *)
LEMMA PredictedOnce ==
  ASSUME NEW ids, NEW prices, NEW q, NEW o, Asks(o), NEW depth,
         Levelled(depth[Opposite(o.side)], q, Opposite(o.side), ids, prices)
  PROVE  /\ predict_matching_trades(o, depth) \in TradeList(prices)
         /\ OneEach(predict_matching_trades(o, depth))
<1>1. PICK L, x, m, n :
        L = depth[Opposite(o.side)] /\ x = Walk(o, L).trades /\ m = Len(x)
        /\ n = Cardinality(PricesIn(q))
  OBVIOUS
<1>2. /\ n \in Nat /\ m \in 0 .. n /\ DOMAIN x = 1 .. m /\ x \in PredictedTrades
      /\ \A j \in 1 .. m : x[j] = TradeAt(o, L, j)
  <2>1. WentTo(Len(Walk(o, L).trades), o, L, Cardinality(PricesIn(q)), Walk(o, L))
    BY <1>1, WalkGoes
  <2> QED
    BY <1>1, <2>1 DEF WentTo
<1>3. /\ \A k, l \in 1 .. n : L[k][1] = L[l][1] => k = l
      /\ \A k \in 1 .. n : L[k][1] \in prices
  <2>1. \A k, l \in 1 .. n : L[k][1] = L[l][1] => k = l
    BY <1>1, LevelsAre
  <2>2. ASSUME NEW k \in 1 .. n
        PROVE  L[k][1] \in prices
    <3>1. q \in Seq(Entry(ids, prices)) /\ prices \subseteq Int
          /\ L[k][1] \in PricesIn(q)
      BY <1>1 DEF Levelled, ShowsLevels
    <3>2. PICK i : i \in DOMAIN q /\ q[i].price = L[k][1]
      BY <3>1 DEF PricesIn, ToSet
    <3>3. q[i] \in Entry(ids, prices)
      BY <3>1, <3>2, EntryHasLeft
    <3> QED
      BY <3>2, <3>3 DEF Entry
  <2> QED
    BY <2>1, <2>2
<1>4. ASSUME NEW j \in 1 .. m
      PROVE  j \in 1 .. n /\ x[j].price = L[j][1]
  <2>1. x[j].price = TradeAt(o, L, j).price
    BY <1>2
  <2> QED
    BY <1>2, <2>1 DEF TradeAt
<1>5. x \in TradeList(prices)
  <2>1. PICK T : T = [price : prices, quantity : Nat \ {0}]
    OBVIOUS
  <2>2. \A j \in 1 .. m : x[j] \in T
    <3>1. ASSUME NEW j \in 1 .. m
          PROVE  x[j] \in T
      <4>1. /\ x[j] = [price |-> x[j].price, quantity |-> x[j].quantity]
            /\ x[j].quantity \in Nat /\ x[j].quantity > 0
        <5>1. x \in TradeList(Int) /\ j \in DOMAIN x
          BY <1>2 DEF PredictedTrades, TradeList
        <5> QED
          BY <5>1, TradesAre
      <4>2. x[j].price \in prices
        BY <1>3, <1>4
      <4>3. x[j] = [price |-> x[j].price, quantity |-> x[j].quantity]
            /\ x[j].quantity \in Nat \ {0}
        BY <4>1
      <4> QED
        BY <2>1, <4>2, <4>3
    <3> QED
      BY <3>1
  <2>3. x = [j \in 1 .. m |-> x[j]] /\ m \in Nat
    BY <1>2 DEF PredictedTrades
  <2>4. x \in Seq(T)
    BY <2>2, <2>3, FunctionIsSeq
  <2> QED
    BY <2>1, <2>4 DEF TradeList
<1>6. OneEach(x)
  BY <1>2, <1>3, <1>4 DEF OneEach
<1>7. <<>> \in TradeList(prices) /\ OneEach(<<>>)
  BY DEF TradeList, OneEach
<1>8. predict_matching_trades(o, depth) = x \/ predict_matching_trades(o, depth) = <<>>
  BY <1>1 DEF predict_matching_trades
<1> QED
  BY <1>5, <1>6, <1>7, <1>8

(* What the engine trades is a list of trades. *)
LEMMA TradesOfFills ==
  ASSUME NEW ids, NEW prices, NEW fills \in Seq(FillRecords(ids, prices))
  PROVE  TradesOf(fills) \in TradeList(prices)
<1>1. PICK T, t, n : /\ T = [price : prices, quantity : Nat \ {0}]
                     /\ t = TradesOf(fills) /\ n = Len(fills)
  OBVIOUS
<1>2. n \in Nat /\ DOMAIN fills = 1 .. n
  BY <1>1
<1>3. \A k \in 1 .. n : fills[k] \in FillRecords(ids, prices)
  BY <1>1, <1>2
<1>4. t = [k \in 1 .. n |-> t[k]]
  BY <1>1, <1>2 DEF TradesOf
<1>5. ASSUME NEW k \in 1 .. n
      PROVE  t[k] \in T
  <2>1. t[k] = [price |-> fills[k].price, quantity |-> fills[k].quantity]
    BY <1>1, <1>2 DEF TradesOf
  <2>2. fills[k].price \in prices /\ fills[k].quantity \in Nat \ {0}
    BY <1>3 DEF FillRecords
  <2> QED
    BY <1>1, <2>1, <2>2
<1>6. t \in Seq(T)
  BY <1>2, <1>4, <1>5, FunctionIsSeq
<1> QED
  BY <1>1, <1>6 DEF TradeList

-----------------------------------------------------------------------------
(* The invariant *)

(* What the user has asked for, as an order of the engine's. *)
Asked(o) == IsOrder(o, {Own}, Prices) /\ o.price \in Int

(* There are trades with the totals that were expected, which are read from  *)
(* the answer.                                                               *)
Foreseen ==
  \E trades \in TradeList(Prices) :
    /\ Reads(actual, trades)
    /\ expected \in TradeList(Prices) /\ OneEach(expected)
    /\ \A p \in Prices : Traded(expected, p) = Traded(trades, p)

(* The causes a failure may have. *)
Explained ==
  \/ changed \/ ~ Uncut \/ ~ Exact
  \/ \E j, k \in DOMAIN actual : j < k /\ actual[j].price = actual[k].price

(* The inductive invariant.  Until the order is placed the book holds orders *)
(* of others, in the order of prices; the order is the user's, and what is   *)
(* expected comes from this book unless it has changed.  Then the answer is  *)
(* as foreseen, which the comparison needs to find nothing.                  *)
VInv ==
  /\ changed \in BOOLEAN
  /\ pc \in {"ask", "submit"} => book \in Book(Others, Prices) /\ InOrder(book)
  /\ pc = "submit" => Asked(order)
  /\ pc = "submit" /\ ~ changed =>
       expected = predict_matching_trades(order, Read(Engine!get_l2_depth(book)))
  /\ pc = "compare" /\ ~ changed /\ Uncut /\ Exact => Foreseen
  /\ pc \in {"ask", "submit", "compare"} => verdict # "FAIL"

(* The asked order and the others' book are what the prediction is about. *)
LEMMA AskedMeets ==
  ASSUME book \in Book(Others, Prices), InOrder(book), Asked(order)
  PROVE  Meets(Others \cup {Own}, Prices, book, order)
<1>1. order.order_id = Own /\ Own \notin Others /\ Own \notin BinanceIds
  BY OwnAssumption DEF Asked, IsOrder
<1>2. Prices \subseteq Int
  BY NumberAssumption
<1>3. book \in Book(Others \cup {Own}, Prices)
  <2>1. Others \subseteq Others \cup {Own}
    OBVIOUS
  <2> QED
    BY <2>1, BookGrows
<1>4. IsOrder(order, Others \cup {Own}, Prices) /\ Asks(order)
  BY <1>2 DEF Asked, IsOrder, Asks
<1>5. ASSUME NEW s \in Side
      PROVE  Absent(book[s], order.order_id)
  <2>1. book[s] \in Seq(Entry(Others, Prices))
    BY DEF Book
  <2>2. ASSUME NEW i \in DOMAIN book[s]
        PROVE  book[s][i].order_id # order.order_id
    <3>1. book[s][i] \in Entry(Others, Prices)
      BY <2>1, EntryHasLeft
    <3>2. book[s][i].order_id \in Others
      BY <3>1 DEF Entry
    <3> QED
      BY <1>1, <3>2
  <2> QED
    BY <2>2 DEF Absent
<1> QED
  BY <1>1, <1>2, <1>3, <1>4, <1>5 DEF Meets

(* What the script reads of the engine's answer. *)
LEMMA AnswerReads ==
  ASSUME NEW ids, NEW fills \in Seq(FillRecords(ids, Prices)),
         \A k \in DOMAIN fills : Shown(fills[k].price) = fills[k].price
  PROVE  Reads(ReadTrades(Engine!Told(fills)), TradesOf(fills))
<1>0. PICK m : m = Engine!Told(fills)
  OBVIOUS
<1>1. PICK n, t, y : n = Len(fills) /\ t = TradesOf(fills) /\ y = ReadTrades(m)
  OBVIOUS
<1>2. n \in Nat /\ DOMAIN fills = 1 .. n /\ \A k \in 1 .. n : fills[k] \in FillRecords(ids, Prices)
  BY <1>1
<1>3. DOMAIN t = 1 .. n /\ DOMAIN m = 1 .. n /\ DOMAIN y = 1 .. n
  <2>1. DOMAIN t = 1 .. n
    BY <1>1, <1>2 DEF TradesOf
  <2>2. DOMAIN m = 1 .. n
    BY <1>0, <1>2, Zenon DEF Engine!Told
  <2>3. DOMAIN y = 1 .. n
    BY <1>1, <2>2 DEF ReadTrades
  <2> QED
    BY <2>1, <2>2, <2>3
<1>4. ASSUME NEW k \in 1 .. n
      PROVE  /\ t[k].price = fills[k].price /\ t[k].quantity = fills[k].quantity
             /\ y[k].price = Shown(fills[k].price)
             /\ y[k].quantity = Shown(fills[k].quantity)
  <2>1. t[k].price = fills[k].price /\ t[k].quantity = fills[k].quantity
    BY <1>1, <1>2 DEF TradesOf
  <2>2. /\ m[k].price = Engine!to_string(fills[k].price)
        /\ m[k].quantity = Engine!to_string(fills[k].quantity)
    <3>1. m[k] = [fills[k] EXCEPT !.price = Engine!to_string(@),
                                  !.quantity = Engine!to_string(@)]
      BY <1>0, <1>2, Zenon DEF Engine!Told
    <3>2. fills[k] \in FillRecords(ids, Prices)
      BY <1>2
    <3> QED
      BY <3>1, <3>2 DEF FillRecords
  <2>3. y[k] = [price |-> float(m[k].price), quantity |-> float(m[k].quantity)]
    BY <1>1, <1>3 DEF ReadTrades
  <2>4. y[k].price = float(m[k].price) /\ y[k].quantity = float(m[k].quantity)
    BY <2>3
  <2> QED
    BY <2>1, <2>2, <2>4 DEF Shown
<1>5. Len(t) = n /\ Len(y) = n
  <2>1. t = [k \in 1 .. n |-> t[k]]
    BY <1>1, <1>2 DEF TradesOf
  <2>2. y = [k \in 1 .. n |-> y[k]]
    BY <1>1, <1>3 DEF ReadTrades
  <2>3. PICK T, Y : T = {t[k] : k \in 1 .. n} /\ Y = {y[k] : k \in 1 .. n}
    OBVIOUS
  <2>4. \A k \in 1 .. n : t[k] \in T /\ y[k] \in Y
    BY <2>3
  <2>5. Len(t) = n
    BY <1>2, <2>1, <2>4, FunctionIsSeq
  <2>6. Len(y) = n
    BY <1>2, <2>2, <2>4, FunctionIsSeq
  <2> QED
    BY <2>5, <2>6
<1>6. ASSUME NEW k \in DOMAIN t
      PROVE  /\ y[k].price = t[k].price
             /\ y[k].quantity \in Int
             /\ -Resolution <= 2 * (y[k].quantity - t[k].quantity)
             /\ 2 * (y[k].quantity - t[k].quantity) <= Resolution
  <2>1. k \in 1 .. n
    BY <1>3
  <2>2. fills[k].quantity \in Int
    <3>1. fills[k] \in FillRecords(ids, Prices)
      BY <1>2, <2>1
    <3> QED
      BY <3>1 DEF FillRecords
  <2>3. PICK g : g = fills[k].quantity
    OBVIOUS
  <2>4. /\ Shown(g) \in Int
        /\ -Resolution <= 2 * (Shown(g) - g) /\ 2 * (Shown(g) - g) <= Resolution
    BY <2>2, <2>3, ShownIsNear
  <2>5. y[k].quantity = Shown(g) /\ t[k].quantity = g
    BY <1>4, <2>1, <2>3
  <2>6. y[k].price = t[k].price
    BY <1>2, <1>4, <2>1
  <2> QED
    BY <2>4, <2>5, <2>6
<1>7. Reads(y, t)
  BY <1>3, <1>5, <1>6 DEF Reads
<1> QED
  BY <1>0, <1>1, <1>7

(* The submission of the asked order, on the book whose depth was read.      *)
LEMMA PlacedAsForeseen ==
  ASSUME VInv, PlaceOrder, ~ changed', Uncut', Exact'
  PROVE  Foreseen'
<1>1. /\ pc = "submit" /\ changed' = changed /\ expected' = expected
      /\ levels' = LevelsOf(book[Opposite(order.side)])
      /\ actual' = ReadTrades(Engine!Told(Submitted(book, order).fills))
  BY DEF PlaceOrder
<1>2. /\ book \in Book(Others, Prices) /\ InOrder(book) /\ Asked(order)
      /\ expected = predict_matching_trades(order, Read(Engine!get_l2_depth(book)))
  BY <1>1 DEF VInv
<1>3. PICK ids, side, depth, fills :
        /\ ids = Others \cup {Own} /\ side = Opposite(order.side)
        /\ depth = Read(Engine!get_l2_depth(book))
        /\ fills = Submitted(book, order).fills
  OBVIOUS
<1>4. Meets(ids, Prices, book, order)
  BY <1>2, <1>3, AskedMeets
<1>5. /\ Prices \subseteq Int /\ book \in Book(ids, Prices)
      /\ IsOrder(order, ids, Prices) /\ Asks(order)
      /\ \A s \in Side : Absent(book[s], order.order_id)
  BY <1>4 DEF Meets
<1>6. side \in Side /\ book[side] \in Seq(Entry(ids, Prices))
  <2>1. side \in Side
    BY <1>3, <1>5, OppositeIsSide DEF Asks
  <2> QED
    BY <1>5, <2>1 DEF Book
<1>7. /\ DOMAIN levels' = PricesIn(book[side])
      /\ \A p \in PricesIn(book[side]) : levels'[p] = Wanted(book[side], AtPrice(book[side], p))
  BY <1>1, <1>3 DEF LevelsOf, PricesIn, AtPrice
<1>8. Cardinality(PricesIn(book[side])) <= Depth /\ ShownAsIs(book[side])
  BY <1>7 DEF Uncut, Exact, ShownAsIs
<1>9. ShowsLevels(depth[side], book[side], side)
  BY <1>3, <1>5, <1>6, <1>8, DepthShows
<1>10. Levelled(depth[side], book[side], side, ids, Prices)
  BY <1>5, <1>6, <1>9 DEF Levelled
<1>11. expected \in TradeList(Prices) /\ OneEach(expected)
  BY <1>2, <1>3, <1>5, <1>10, PredictedOnce
<1>12. fills \in Seq(FillRecords(ids, Prices)) /\ TradesOf(fills) \in TradeList(Prices)
  <2>1. fills \in Seq(FillRecords(ids, Prices))
    BY <1>3, <1>5, SubmittedType
  <2> QED
    BY <2>1, TradesOfFills
<1>13. \A k \in DOMAIN fills : Shown(fills[k].price) = fills[k].price
  <2>1. ASSUME NEW k \in DOMAIN fills
        PROVE  Shown(fills[k].price) = fills[k].price
    <3>1. fills[k].price \in PricesIn(book[side])
      BY <1>3, <1>5, FillPrices
    <3> QED
      BY <1>8, <3>1 DEF ShownAsIs
  <2> QED
    BY <2>1
<1>14. Reads(actual', TradesOf(fills))
  BY <1>1, <1>3, <1>12, <1>13, AnswerReads
<1>15. ASSUME NEW p \in Prices
       PROVE  Traded(expected, p) = Traded(TradesOf(fills), p)
  BY <1>2, <1>3, <1>4, <1>9, ScriptPredicts
<1> QED
  BY <1>1, <1>11, <1>12, <1>14, <1>15 DEF Foreseen

(* It holds at first: the book is empty and nothing has been asked. *)
LEMMA VInvInit ==
  ASSUME Init
  PROVE  VInv
<1>1. book = [s \in Side |-> <<>>]
  BY DEF Init, Engine!EmptyBook, Engine!Side, Engine!BUY, Engine!SELL, Side, BUY, SELL
<1>2. book \in Book(Others, Prices)
  BY <1>1 DEF Book
<1>3. InOrder(book)
  BY <1>1 DEF InOrder, Sorted
<1>4. changed = FALSE /\ pc = "ask" /\ verdict = "none"
  BY DEF Init
<1> QED
  BY <1>2, <1>3, <1>4 DEF VInv

(* Others leave a book of their orders, in its order. *)
LEMMA VInvOthers ==
  ASSUME VInv, OthersAct
  PROVE  VInv'
<1>1. /\ pc \in {"ask", "submit"} /\ pc' = pc /\ order' = order /\ verdict' = verdict
      /\ changed' = (pc = "submit")
  BY DEF OthersAct
<1>2. book \in Book(Others, Prices) /\ InOrder(book) /\ (pc = "submit" => Asked(order))
      /\ verdict # "FAIL"
  BY <1>1 DEF VInv
<1>3. book' \in Book(Others, Prices) /\ InOrder(book')
  <2>1. ASSUME NEW id \in Others, NEW side \in Side, NEW price \in Prices,
               NEW qty \in Quantities,
               book' = Submitted(book, NewOrder(id, side, LIMIT, price, qty)).book
        PROVE  book' \in Book(Others, Prices) /\ InOrder(book')
    <3>1. PICK o : o = NewOrder(id, side, LIMIT, price, qty)
      OBVIOUS
    <3>2. IsOrder(o, Others, Prices)
      BY <3>1, NumberAssumption DEF IsOrder, NewOrder, OrderType
    <3>3. Submitted(book, o).book \in Book(Others, Prices)
      BY <1>2, <3>2, SubmittedType
    <3>4. InOrder(Submitted(book, o).book)
      BY <1>2, <3>2, NumberAssumption, SubmittedInOrder
    <3> QED
      BY <2>1, <3>1, <3>3, <3>4
  <2>2. ASSUME NEW id \in Others, book' = Without(book, id)
        PROVE  book' \in Book(Others, Prices) /\ InOrder(book')
    <3>1. Without(book, id) \in Book(Others, Prices)
      BY <1>2, WithoutType
    <3>2. InOrder(Without(book, id))
      BY <1>2, WithoutInOrder
    <3> QED
      BY <2>2, <3>1, <3>2
  <2> QED
    BY <2>1, <2>2 DEF OthersAct
<1>4. Asked(order)' <=> Asked(order)
  BY <1>1 DEF Asked, IsOrder
<1>5. changed' \in BOOLEAN /\ (pc' = "submit" => changed')
  BY <1>1
<1> QED
  BY <1>1, <1>2, <1>3, <1>4, <1>5 DEF VInv

(* Asking makes an order and its prediction, and leaves the book alone. *)
LEMMA VInvAsk ==
  ASSUME VInv, Ask
  PROVE  VInv'
<1>1. /\ pc = "ask" /\ pc' = "submit" /\ book' = book /\ verdict' = verdict
      /\ changed' = changed
      /\ expected' = predict_matching_trades(order', Read(Engine!get_l2_depth(book)))
  BY DEF Ask
<1>2. /\ book \in Book(Others, Prices) /\ InOrder(book)
      /\ changed \in BOOLEAN /\ verdict # "FAIL"
  BY <1>1 DEF VInv
<1>3. PICK side, type, price, qty :
        /\ side \in Side /\ type \in OrderType /\ price \in Prices /\ qty \in Quantities
        /\ order' = NewOrder(Own, side, type, IF type = MARKET THEN 0 ELSE price, qty)
  BY DEF Ask
<1>4. Asked(order')
  <2>1. Prices \subseteq Int /\ Quantities \subseteq Int
    BY NumberAssumption
  <2>2. /\ order'.order_id = Own /\ order'.side = side /\ order'.order_type = type
        /\ order'.price = (IF type = MARKET THEN 0 ELSE price)
        /\ order'.quantity = qty /\ order'.remaining_quantity = qty
    BY <1>3 DEF NewOrder
  <2>3. type \in {LIMIT, FOK} => type # MARKET
    BY DEF LIMIT, FOK, MARKET
  <2> QED
    BY <1>3, <2>1, <2>2, <2>3 DEF Asked, IsOrder
<1>5. Read(Engine!get_l2_depth(book')) = Read(Engine!get_l2_depth(book))
  BY <1>1
<1> QED
  BY <1>1, <1>2, <1>4, <1>5 DEF VInv

(* A failed comparison has its reason. *)
LEMMA FailureHasCause ==
  ASSUME VInv, Compare, verdict' = "FAIL"
  PROVE  Explained
<1>1. PICK delta \in {Resolution - 1, Resolution} :
        verdict' = IF match_ok(expected, actual, delta) THEN "PASS" ELSE "FAIL"
  BY DEF Compare
<1>2. pc = "compare" /\ ~ match_ok(expected, actual, delta)
  BY <1>1 DEF Compare
<1>3. ASSUME ~ Explained
      PROVE  match_ok(expected, actual, delta)
  <2>1. Foreseen
    BY <1>2, <1>3 DEF VInv, Explained
  <2>2. PICK trades \in TradeList(Prices) :
          /\ Reads(actual, trades)
          /\ expected \in TradeList(Prices) /\ OneEach(expected)
          /\ \A p \in Prices : Traded(expected, p) = Traded(trades, p)
    BY <2>1 DEF Foreseen
  <2>3. OneEach(trades)
    <3>1. ASSUME NEW j \in DOMAIN trades, NEW k \in DOMAIN trades,
                 trades[j].price = trades[k].price
          PROVE  j = k
      <4>1. j \in Int /\ k \in Int
        <5>1. DOMAIN trades = 1 .. Len(trades) /\ Len(trades) \in Nat
          BY TradesAre
        <5> QED
          BY <5>1
      <4>2. /\ j \in DOMAIN actual /\ k \in DOMAIN actual
            /\ actual[j].price = actual[k].price
        BY <2>2, <3>1 DEF Reads
      <4>3. ~ (j < k) /\ ~ (k < j)
        BY <1>3, <4>2 DEF Explained
      <4> QED
        BY <4>1, <4>3
    <3> QED
      BY <3>1 DEF OneEach
  <2>4. Agreeing(Prices, expected, trades)
    BY <2>2, <2>3 DEF Agreeing
  <2>5. Prices \subseteq Int
    BY NumberAssumption
  <2> QED
    BY <2>2, <2>4, <2>5, NoDifference
<1> QED
  BY <1>2, <1>3

(* Every step keeps the invariant. *)
LEMMA VInvNext ==
  ASSUME VInv, [Next]_vars
  PROVE  VInv'
<1>1. CASE OthersAct
  BY <1>1, VInvOthers
<1>2. CASE Ask
  BY <1>2, VInvAsk
<1>3. CASE PlaceOrder
  <2>1. pc = "submit" /\ pc' = "compare" /\ changed' = changed /\ verdict' = verdict
    BY <1>3 DEF PlaceOrder
  <2>2. changed \in BOOLEAN /\ verdict # "FAIL"
    BY <2>1 DEF VInv
  <2>3. ~ changed' /\ Uncut' /\ Exact' => Foreseen'
    BY <1>3, PlacedAsForeseen
  <2> QED
    BY <2>1, <2>2, <2>3 DEF VInv
<1>4. CASE End
  <2>1. pc' = "done" /\ changed' = FALSE
    BY <1>4 DEF End
  <2> QED
    BY <2>1 DEF VInv
<1>5. CASE UNCHANGED vars
  <2>1. /\ book' = book /\ pc' = pc /\ order' = order /\ expected' = expected
        /\ actual' = actual /\ verdict' = verdict /\ changed' = changed /\ levels' = levels
    BY <1>5 DEF vars
  <2>2. (Uncut' <=> Uncut) /\ (Exact' <=> Exact)
    BY <2>1 DEF Uncut, Exact
  <2>3. Foreseen' <=> Foreseen
    BY <2>1 DEF Foreseen
  <2>4. Asked(order') <=> Asked(order)
    BY <2>1
  <2>5. Read(Engine!get_l2_depth(book')) = Read(Engine!get_l2_depth(book))
    BY <2>1
  <2> QED
    BY <2>1, <2>2, <2>3, <2>4, <2>5 DEF VInv
<1> QED
  BY <1>1, <1>2, <1>3, <1>4, <1>5 DEF Next, Compare, Exit

(* The invariant holds in every state of the script. *)
THEOREM ValidatorInvariant == Spec => []VInv
<1>1. Init => VInv
  BY VInvInit
<1>2. VInv /\ [Next]_vars => VInv'
  BY VInvNext
<1> QED
  BY <1>1, <1>2, PTL DEF Spec

(* On a book that has not changed since its depth was read, and whose levels *)
(* the depth shows exactly and all, the script predicts what the engine      *)
(* trades at every price, up to the rounding of each fill in the answer, for *)
(* any books, quantities, limits, order types and decimals.                  *)
THEOREM PredictionsHold == Spec => []PredictsEachLevel
<1>1. ASSUME VInv
      PROVE  PredictsEachLevel
  <2>1. ASSUME pc = "compare", ~ changed, Uncut, Exact, NEW price \in Prices
        PROVE  LET error == 2 * (Traded(expected, price) - Traded(actual, price))
                   most  == Resolution * Cardinality(At(actual, price))
               IN  -most <= error /\ error <= most
    <3>1. Foreseen
      BY <1>1, <2>1 DEF VInv
    <3>2. PICK trades \in TradeList(Prices) :
            Reads(actual, trades) /\ Traded(expected, price) = Traded(trades, price)
      BY <3>1 DEF Foreseen
    <3> QED
      BY <3>2, ReadTotals
  <2> QED
    BY <2>1 DEF PredictsEachLevel
<1> QED
  BY <1>1, ValidatorInvariant, PTL

(* A verdict against the engine means that the book changed, that its depth  *)
(* was cut off or rounded, or that several orders traded at one price.       *)
THEOREM FailuresHaveCauses == Spec => FailuresAreExplained
<1> DEFINE Cause == verdict' = "FAIL" =>
                      \/ changed \/ ~ Uncut \/ ~ Exact
                      \/ \E j, k \in DOMAIN actual : j < k /\ actual[j].price = actual[k].price
<1>1. ASSUME VInv, [Next]_vars
      PROVE  [Cause]_vars
  <2>1. CASE Compare
    BY <1>1, <2>1, FailureHasCause DEF Explained
  <2>2. CASE OthersAct \/ Ask \/ PlaceOrder \/ Exit
    <3>1. pc \in {"ask", "submit", "compare"} /\ verdict' = verdict
      BY <2>2 DEF OthersAct, Ask, PlaceOrder, Exit
    <3>2. verdict' # "FAIL"
      BY <1>1, <3>1 DEF VInv
    <3> QED
      BY <3>2
  <2> QED
    BY <1>1, <2>1, <2>2 DEF Next
<1> QED
  BY <1>1, ValidatorInvariant, PTL DEF Spec, FailuresAreExplained
=============================================================================
