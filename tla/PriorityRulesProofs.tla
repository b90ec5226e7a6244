------------------------- MODULE PriorityRulesProofs ------------------------
(* What the closed form of PriorityRules makes of a book, for books of any   *)
(* identifiers and prices: that it is a book again, what it does to the      *)
(* orders a submission does not name, and that its first fill may be taken   *)
(* for a submission of its own (PeelWhole, PeelPart).                        *)
EXTENDS PriorityRules, FiniteSetTheorems, SequenceTheorems, TLAPS

-----------------------------------------------------------------------------
(* Sums over finite sets and ranks in them.  SumFunction of the community    *)
(* modules adds by taking out one element after the other, in any order; a   *)
(* rank counts what stands before an element.  Induction is by a smallest    *)
(* counterexample, which needs no operator parameter.                        *)

(* The sum of the values of function w over S. *)
Sum(w, S) == SumFunctionOnSet(w, S)

(* One round of the recursion that defines a sum. *)
Round(w, f, s) ==
  IF s = {} THEN 0 ELSE w[CHOOSE x \in s : TRUE] + f[s \ {CHOOSE x \in s : TRUE}]

(* f is the function that the sum over S is defined by. *)
Sums(f, w, S) == f = [s \in SUBSET S |-> Round(w, f, s)]

LEMMA SumDefinition ==
  ASSUME NEW w, NEW S
  PROVE  Sum(w, S) = (CHOOSE f : Sums(f, w, S))[S]
BY DEF Sum, SumFunctionOnSet, FoldFunctionOnSet, MapThenFoldSet, Sums, Round

(* A nonempty set of finite subsets of S has a smallest one, none of its     *)
(* proper subsets being in the set: the ground of every induction below.     *)
LEMMA SmallestSubset ==
  ASSUME NEW S, NEW T, T \subseteq FiniteSubsetsOf(S), T # {}
  PROVE  \E s \in T : \A u \in T : ~ (u \subseteq s /\ u # s)
<1>1. IsWellFoundedOn(StrictSubsetOrdering(S), FiniteSubsetsOf(S))
  BY FS_StrictSubsetOrderingWellFounded
<1>2. PICK s \in T : \A u \in T : <<u, s>> \notin StrictSubsetOrdering(S)
  BY <1>1, WFMin, SMTT(30)
<1>3. ASSUME NEW u \in T, u \subseteq s, u # s
      PROVE  FALSE
  <2>1. u \in SUBSET S /\ s \in SUBSET S
    BY DEF FiniteSubsetsOf
  <2>2. <<u, s>> \in StrictSubsetOrdering(S)
    BY <1>3, <2>1 DEF StrictSubsetOrdering
  <2> QED
    BY <1>2, <2>2
<1> QED
  BY <1>3

(* The functions by which two sums of equal values are defined agree on what *)
(* they have in common.                                                      *)
LEMMA SumsAgree ==
  ASSUME NEW w, NEW v, NEW S, NEW T, NEW f, NEW g, Sums(f, w, S), Sums(g, v, T),
         NEW s \in SUBSET (S \cap T), IsFiniteSet(s), \A x \in s : w[x] = v[x]
  PROVE  f[s] = g[s]
<1> DEFINE Differ == {u \in SUBSET s : f[u] # g[u]}
<1>1. SUFFICES ASSUME Differ # {} PROVE FALSE
  OBVIOUS
<1>2. Differ \subseteq FiniteSubsetsOf(s)
  BY FS_Subset DEF FiniteSubsetsOf
<1>3. PICK u \in Differ : \A t \in Differ : ~ (t \subseteq u /\ t # u)
  <2> HIDE DEF Differ
  <2> QED BY <1>1, <1>2, SmallestSubset
<1>4. u \in SUBSET s /\ u \in SUBSET S /\ u \in SUBSET T
  OBVIOUS
<1>5. f[u] = Round(w, f, u) /\ g[u] = Round(v, g, u)
  BY <1>4 DEF Sums
<1>6. CASE u = {}
  BY <1>3, <1>5, <1>6 DEF Round
<1>7. CASE u # {}
  <2> DEFINE x == CHOOSE x \in u : TRUE
  <2>1. x \in u /\ u \ {x} \in SUBSET s /\ u \ {x} # u
    BY <1>4, <1>7
  <2>2. f[u \ {x}] = g[u \ {x}]
    BY <2>1, <1>3
  <2>3. f[u] = w[x] + f[u \ {x}] /\ g[u] = v[x] + g[u \ {x}]
    BY <1>5, <1>7 DEF Round
  <2>4. w[x] = v[x]
    BY <2>1, <1>4
  <2> QED
    BY <2>2, <2>3, <2>4, <1>3
<1> QED
  BY <1>6, <1>7

LEMMA SumsRestricted ==
  ASSUME NEW w, NEW S, NEW f, Sums(f, w, S), NEW s \in SUBSET S
  PROVE  Sums([u \in SUBSET s |-> f[u]], w, s)
<1> DEFINE g == [u \in SUBSET s |-> f[u]]
<1>1. ASSUME NEW u \in SUBSET s
      PROVE  f[u] = Round(w, g, u)
  <2>1. f[u] = Round(w, f, u)
    BY DEF Sums
  <2>2. CASE u = {}
    BY <2>1, <2>2 DEF Round
  <2>3. CASE u # {}
    <3>1. u \ {CHOOSE x \in u : TRUE} \in SUBSET s
      OBVIOUS
    <3> QED
      BY <2>1, <3>1 DEF Round
  <2> QED
    BY <2>2, <2>3
<1>2. g = [u \in SUBSET s |-> Round(w, g, u)]
  BY <1>1
<1> QED
  BY <1>2 DEF Sums

(* The recursion that defines a sum has a solution. *)
LEMMA SumsExist ==
  ASSUME NEW w, NEW S, IsFiniteSet(S)
  PROVE  \E f : Sums(f, w, S)
<1> DEFINE Missing == {T \in SUBSET S : ~ \E f : Sums(f, w, T)}
<1>1. SUFFICES ASSUME Missing # {} PROVE FALSE
  OBVIOUS
<1>2. Missing \subseteq FiniteSubsetsOf(S)
  BY FS_Subset DEF FiniteSubsetsOf
<1>3. PICK T \in Missing : \A U \in Missing : ~ (U \subseteq T /\ U # T)
  <2> HIDE DEF Missing
  <2> QED BY <1>1, <1>2, SmallestSubset
<1>4. T \in SUBSET S /\ IsFiniteSet(T)
  BY FS_Subset
<1> DEFINE sums(U) == CHOOSE f : Sums(f, w, U)
           below(U) == IF U = T THEN Round(w, [u \in SUBSET T |-> sums(u)[u]], T)
                       ELSE sums(U)[U]
           g == [U \in SUBSET T |-> below(U)]
<1>5. ASSUME NEW U \in SUBSET T, U # T
      PROVE  Sums(sums(U), w, U)
  BY <1>3, <1>4, <1>5
<1>6. ASSUME NEW U \in SUBSET T
      PROVE  g[U] = Round(w, g, U)
  <2> DEFINE x == CHOOSE x \in U : TRUE
  <2>1. CASE U = {}
    <3>1. CASE U = T
      BY <2>1, <3>1 DEF Round
    <3>2. CASE U # T
      <4>1. sums(U)[U] = Round(w, sums(U), U)
        <5> HIDE DEF sums
        <5> QED BY <1>5, <3>2 DEF Sums
      <4> QED
        BY <2>1, <3>2, <4>1 DEF Round
    <3> QED
      BY <3>1, <3>2
  <2>2. CASE U # {}
    <3>1. x \in U /\ U \ {x} \in SUBSET T /\ U \ {x} # T /\ U \ {x} \in SUBSET U
      BY <2>2
    <3>2. g[U \ {x}] = sums(U \ {x})[U \ {x}]
      BY <3>1
    <3>3. CASE U = T
      <4>1. g[U] = Round(w, [u \in SUBSET T |-> sums(u)[u]], T)
        BY <3>3
      <4>2. g[U] = w[x] + sums(U \ {x})[U \ {x}]
        <5> HIDE DEF sums, g
        <5> QED BY <3>1, <3>3, <4>1, <2>2 DEF Round
      <4> QED
        <5> HIDE DEF sums, g
        <5> QED BY <3>2, <4>2, <2>2 DEF Round
    <3>4. CASE U # T
      <4>1. Sums(sums(U), w, U) /\ Sums(sums(U \ {x}), w, U \ {x})
        <5> HIDE DEF sums
        <5> QED BY <1>5, <3>1, <3>4
      <4>2. IsFiniteSet(U \ {x})
        BY <1>4, <3>1, FS_Subset
      <4>3. sums(U)[U \ {x}] = sums(U \ {x})[U \ {x}]
        <5> HIDE DEF sums
        <5>1. U \ {x} \in SUBSET (U \cap (U \ {x}))
          OBVIOUS
        <5>2. \A y \in U \ {x} : w[y] = w[y]
          OBVIOUS
        <5> HIDE DEF x
        <5> QED BY <4>1, <4>2, <5>1, <5>2, SumsAgree
      <4>4. g[U] = sums(U)[U]
        BY <3>4
      <4>5. sums(U)[U] = w[x] + sums(U)[U \ {x}]
        <5> HIDE DEF sums
        <5> QED BY <4>1, <2>2 DEF Sums, Round
      <4>6. g[U] = w[x] + g[U \ {x}]
        <5> HIDE DEF sums, g, x
        <5> QED BY <4>3, <4>4, <4>5, <3>2
      <4> QED
        <5> HIDE DEF sums, g
        <5> QED BY <4>6, <2>2 DEF Round
    <3> QED
      BY <3>3, <3>4
  <2> QED
    BY <2>1, <2>2
<1>7. g = [U \in SUBSET T |-> Round(w, g, U)]
  <2>1. g = [U \in SUBSET T |-> g[U]]
    <3> HIDE DEF below
    <3> QED OBVIOUS
  <2>2. \A U \in SUBSET T : g[U] = Round(w, g, U)
    BY <1>6
  <2> HIDE DEF g
  <2>3. [U \in SUBSET T |-> g[U]] = [U \in SUBSET T |-> Round(w, g, U)]
    BY <2>2
  <2> QED
    BY <2>1, <2>3, Zenon
<1>8. Sums(g, w, T)
  <2> HIDE DEF g
  <2> QED BY <1>7 DEF Sums
<1> QED
  <2> HIDE DEF g
  <2> QED BY <1>3, <1>8

(* The value of a sum is the value of any function that solves its recursion *)
(* over a larger set. *)
LEMMA SumIs ==
  ASSUME NEW w, NEW S, IsFiniteSet(S), NEW f, Sums(f, w, S), NEW s \in SUBSET S
  PROVE  Sum(w, s) = f[s]
<1> DEFINE g == CHOOSE g : Sums(g, w, s)
<1>1. IsFiniteSet(s)
  BY FS_Subset
<1>2. Sums(g, w, s)
  BY <1>1, SumsExist
<1>3. Sum(w, s) = g[s]
  BY SumDefinition
<1> HIDE DEF g
<1>4. s \in SUBSET (s \cap S) /\ \A x \in s : w[x] = w[x]
  OBVIOUS
<1>5. g[s] = f[s]
  BY <1>1, <1>2, <1>4, SumsAgree
<1> QED
  BY <1>3, <1>5

(* The sum over the empty set. *)
LEMMA SumEmpty ==
  ASSUME NEW w
  PROVE  Sum(w, {}) = 0
<1>1. PICK f : Sums(f, w, {})
  BY SumsExist, FS_EmptySet
<1>2. Sum(w, {}) = f[{}]
  BY <1>1, SumIs, FS_EmptySet
<1>3. f[{}] = Round(w, f, {})
  BY <1>1 DEF Sums
<1> QED
  BY <1>2, <1>3 DEF Round

(* A sum is some element's value and the sum over the others. *)
LEMMA SumRound ==
  ASSUME NEW w, NEW S, IsFiniteSet(S), S # {}
  PROVE  \E x \in S : Sum(w, S) = w[x] + Sum(w, S \ {x})
<1> DEFINE x == CHOOSE x \in S : TRUE
<1>1. PICK f : Sums(f, w, S)
  BY SumsExist
<1>2. S \in SUBSET S /\ S \ {x} \in SUBSET S
  OBVIOUS
<1>3. Sum(w, S) = f[S] /\ Sum(w, S \ {x}) = f[S \ {x}]
  BY <1>1, <1>2, SumIs
<1>4. f[S] = Round(w, f, S)
  BY <1>1, <1>2 DEF Sums
<1>5. f[S] = w[x] + f[S \ {x}]
  BY <1>4 DEF Round
<1>6. x \in S
  OBVIOUS
<1> HIDE DEF x
<1> QED
  BY <1>3, <1>5, <1>6

(* Equal values have equal sums. *)
LEMMA SumEqual ==
  ASSUME NEW w, NEW v, NEW S, IsFiniteSet(S), \A x \in S : w[x] = v[x]
  PROVE  Sum(w, S) = Sum(v, S)
<1>1. PICK f : Sums(f, w, S)
  BY SumsExist
<1>2. PICK g : Sums(g, v, S)
  BY SumsExist
<1>3. S \in SUBSET S /\ S \in SUBSET (S \cap S)
  OBVIOUS
<1>4. Sum(w, S) = f[S] /\ Sum(v, S) = g[S]
  BY <1>1, <1>2, <1>3, SumIs
<1>5. f[S] = g[S]
  BY <1>1, <1>2, <1>3, SumsAgree
<1> QED
  BY <1>4, <1>5

(* A sum of integers is an integer, of natural numbers a natural number. *)
LEMMA SumType ==
  ASSUME NEW w, NEW S, IsFiniteSet(S), NEW T \in {Nat, Int}, \A x \in S : w[x] \in T
  PROVE  Sum(w, S) \in T
<1> DEFINE Odd == {s \in SUBSET S : Sum(w, s) \notin T}
<1>1. SUFFICES ASSUME Odd # {} PROVE FALSE
  OBVIOUS
<1>2. Odd \subseteq FiniteSubsetsOf(S)
  BY FS_Subset DEF FiniteSubsetsOf
<1>3. PICK s \in Odd : \A u \in Odd : ~ (u \subseteq s /\ u # s)
  <2> HIDE DEF Odd
  <2> QED BY <1>1, <1>2, SmallestSubset
<1>4. s \in SUBSET S /\ IsFiniteSet(s)
  BY FS_Subset
<1>5. CASE s = {}
  <2>1. Sum(w, s) = 0
    BY <1>5, SumEmpty
  <2> QED
    BY <1>3, <2>1
<1>6. CASE s # {}
  <2>2. PICK x \in s : Sum(w, s) = w[x] + Sum(w, s \ {x})
    BY <1>4, <1>6, SumRound
  <2>1. x \in s /\ s \ {x} \in SUBSET S /\ s \ {x} # s /\ s \ {x} \subseteq s
    BY <1>4
  <2>3. Sum(w, s \ {x}) \in T
    BY <2>1, <1>3
  <2>4. w[x] \in T
    BY <2>1, <1>4
  <2>5. Sum(w, s) \in T
    BY <2>2, <2>3, <2>4
  <2> QED
    BY <1>3, <2>5
<1> QED
  BY <1>5, <1>6

(* Any element may be taken out first. *)
LEMMA SumSplit ==
  ASSUME NEW w, NEW S, IsFiniteSet(S), \A x \in S : w[x] \in Int, NEW e \in S
  PROVE  Sum(w, S) = w[e] + Sum(w, S \ {e})
<1> DEFINE Odd == {s \in SUBSET S : \E x \in s : Sum(w, s) # w[x] + Sum(w, s \ {x})}
<1>1. SUFFICES ASSUME Odd # {} PROVE FALSE
  OBVIOUS
<1>2. Odd \subseteq FiniteSubsetsOf(S)
  BY FS_Subset DEF FiniteSubsetsOf
<1>3. PICK s \in Odd : \A u \in Odd : ~ (u \subseteq s /\ u # s)
  <2> HIDE DEF Odd
  <2> QED BY <1>1, <1>2, SmallestSubset
<1>4. s \in SUBSET S /\ IsFiniteSet(s)
  BY FS_Subset
<1>5. PICK x \in s : Sum(w, s) # w[x] + Sum(w, s \ {x})
  BY <1>3
<1>6. PICK y \in s : Sum(w, s) = w[y] + Sum(w, s \ {y})
  BY <1>4, SumRound
<1>7. x # y
  BY <1>5, <1>6
<1> DEFINE both == (s \ {x}) \ {y}
<1>8. /\ s \ {y} \in SUBSET S /\ s \ {y} \subseteq s /\ s \ {y} # s /\ x \in s \ {y}
      /\ s \ {x} \in SUBSET S /\ s \ {x} \subseteq s /\ s \ {x} # s /\ y \in s \ {x}
      /\ both = (s \ {y}) \ {x} /\ both \in SUBSET S
  BY <1>4, <1>6, <1>7
<1>9. /\ Sum(w, s \ {y}) = w[x] + Sum(w, both)
      /\ Sum(w, s \ {x}) = w[y] + Sum(w, both)
  <2> HIDE DEF both
  <2>1. s \ {y} \notin Odd /\ s \ {x} \notin Odd
    <3> HIDE DEF Odd
    <3> QED BY <1>3, <1>8
  <2>2. \A z \in s \ {y} : Sum(w, s \ {y}) = w[z] + Sum(w, (s \ {y}) \ {z})
    BY <2>1, <1>8
  <2>3. \A z \in s \ {x} : Sum(w, s \ {x}) = w[z] + Sum(w, (s \ {x}) \ {z})
    BY <2>1, <1>8
  <2> QED
    BY <2>2, <2>3, <1>8 DEF both
<1>10. IsFiniteSet(both)
  BY <1>8, FS_Subset
<1>11. Sum(w, both) \in Int
  <2> HIDE DEF both
  <2> QED BY <1>8, <1>10, SumType
<1>12. w[x] \in Int /\ w[y] \in Int
  BY <1>4, <1>6
<1> HIDE DEF both, Odd
<1> QED
  BY <1>5, <1>6, <1>9, <1>11, <1>12

(* One more element adds its value. *)
LEMMA SumAdd ==
  ASSUME NEW w, NEW S, IsFiniteSet(S), NEW e, e \notin S, \A x \in S \cup {e} : w[x] \in Int
  PROVE  Sum(w, S \cup {e}) = w[e] + Sum(w, S)
<1>1. IsFiniteSet(S \cup {e}) /\ (S \cup {e}) \ {e} = S /\ e \in S \cup {e}
  BY FS_AddElement
<1>2. Sum(w, S \cup {e}) = w[e] + Sum(w, (S \cup {e}) \ {e})
  BY <1>1, SumSplit
<1> QED
  BY <1>1, <1>2

(* Where one value changes the sum changes by as much. *)
LEMMA SumChange ==
  ASSUME NEW w, NEW v, NEW S, IsFiniteSet(S), NEW e \in S,
         \A x \in S : w[x] \in Int /\ v[x] \in Int,
         \A x \in S : x # e => v[x] = w[x]
  PROVE  Sum(v, S) = Sum(w, S) + v[e] - w[e]
<1>1. IsFiniteSet(S \ {e}) /\ \A x \in S \ {e} : v[x] = w[x] /\ w[x] \in Int
  BY FS_RemoveElement
<1>2. Sum(w, S) = w[e] + Sum(w, S \ {e}) /\ Sum(v, S) = v[e] + Sum(v, S \ {e})
  BY SumSplit
<1>3. Sum(w, S \ {e}) = Sum(v, S \ {e})
  BY <1>1, SumEqual
<1>4. Sum(w, S \ {e}) \in Int
  BY <1>1, SumType
<1>5. w[e] \in Int /\ v[e] \in Int
  OBVIOUS
<1> QED
  BY <1>2, <1>3, <1>4, <1>5

(* Elements without value may be left out. *)
LEMMA SumSubset ==
  ASSUME NEW w, NEW S, IsFiniteSet(S), \A x \in S : w[x] \in Int,
         NEW T \in SUBSET S, \A x \in S \ T : w[x] = 0
  PROVE  Sum(w, S) = Sum(w, T)
<1> DEFINE Odd == {s \in SUBSET S : T \subseteq s /\ Sum(w, s) # Sum(w, T)}
<1>1. SUFFICES ASSUME Odd # {} PROVE FALSE
  OBVIOUS
<1>2. Odd \subseteq FiniteSubsetsOf(S)
  BY FS_Subset DEF FiniteSubsetsOf
<1>3. PICK s \in Odd : \A u \in Odd : ~ (u \subseteq s /\ u # s)
  <2> HIDE DEF Odd
  <2> QED BY <1>1, <1>2, SmallestSubset
<1>4. s \in SUBSET S /\ IsFiniteSet(s) /\ T \subseteq s /\ Sum(w, s) # Sum(w, T)
  BY FS_Subset
<1>5. PICK x \in s : x \notin T
  BY <1>4
<1>6. Sum(w, s) = w[x] + Sum(w, s \ {x})
  BY <1>4, SumSplit
<1>7. Sum(w, s \ {x}) = Sum(w, T)
  BY <1>3, <1>4, <1>5
<1>8. w[x] = 0 /\ Sum(w, T) \in Int
  <2>1. IsFiniteSet(T)
    BY FS_Subset
  <2>2. Sum(w, T) \in Int
    BY <2>1, SumType
  <2> QED
    BY <2>2, <1>4, <1>5
<1> HIDE DEF Odd
<1> QED
  BY <1>4, <1>6, <1>7, <1>8

(* Renaming the elements keeps the sum. *)
LEMMA SumRenamed ==
  ASSUME NEW w, NEW v, NEW S, IsFiniteSet(S), NEW T, NEW f,
         \A x \in S : f[x] \in T /\ w[x] \in Int /\ v[f[x]] = w[x],
         \A x, y \in S : f[x] = f[y] => x = y,
         \A y \in T : \E x \in S : f[x] = y
  PROVE  Sum(v, T) = Sum(w, S) /\ IsFiniteSet(T)
<1> DEFINE image(s) == {f[x] : x \in s}
           Odd == {s \in SUBSET S : Sum(v, image(s)) # Sum(w, s)}
<1>1. image(S) = T
  OBVIOUS
<1>2. ASSUME NEW s \in SUBSET S
      PROVE  IsFiniteSet(image(s))
  <2> DEFINE g == [x \in s |-> f[x]]
  <2>1. g \in Surjection(s, image(s))
    BY DEF Surjection
  <2>2. IsFiniteSet(s)
    BY FS_Subset
  <2> HIDE DEF g, image
  <2> QED
    BY <2>1, <2>2, FS_Surjection
<1>3. ASSUME Odd # {} PROVE FALSE
  <2>1. Odd \subseteq FiniteSubsetsOf(S)
    BY FS_Subset DEF FiniteSubsetsOf
  <2>2. PICK s \in Odd : \A u \in Odd : ~ (u \subseteq s /\ u # s)
    <3> HIDE DEF Odd
    <3> QED BY <1>3, <2>1, SmallestSubset
  <2>3. s \in SUBSET S /\ IsFiniteSet(s) /\ Sum(v, image(s)) # Sum(w, s)
    BY FS_Subset
  <2>4. CASE s = {}
    <3>1. image(s) = {}
      BY <2>4
    <3>2. Sum(v, {}) = 0 /\ Sum(w, {}) = 0
      BY SumEmpty
    <3> HIDE DEF image
    <3> QED
      BY <2>3, <2>4, <3>1, <3>2
  <2>5. CASE s # {}
    <3>1. PICK x \in s : TRUE
      BY <2>5
    <3>2. Sum(w, s) = w[x] + Sum(w, s \ {x})
      BY <2>3, <3>1, SumSplit
    <3>3. image(s) \ {f[x]} = image(s \ {x})
      BY <2>3, <3>1
    <3>4. IsFiniteSet(image(s)) /\ f[x] \in image(s) /\ \A y \in image(s) : v[y] \in Int
      BY <1>2, <2>3, <3>1
    <3>5. Sum(v, image(s)) = v[f[x]] + Sum(v, image(s) \ {f[x]})
      <4> HIDE DEF image
      <4> QED BY <3>4, SumSplit
    <3>6. Sum(v, image(s \ {x})) = Sum(w, s \ {x})
      <4>1. s \ {x} \in SUBSET S /\ s \ {x} \subseteq s /\ s \ {x} # s
        BY <2>3, <3>1
      <4>2. s \ {x} \notin Odd
        <5> HIDE DEF Odd
        <5> QED BY <4>1, <2>2
      <4> QED
        BY <4>1, <4>2
    <3>7. v[f[x]] = w[x]
      BY <2>3, <3>1
    <3> HIDE DEF image, Odd
    <3> QED
      BY <2>3, <3>2, <3>3, <3>5, <3>6, <3>7
  <2> QED
    BY <2>4, <2>5
<1>4. S \notin Odd
  BY <1>3
<1>5. Sum(v, image(S)) = Sum(w, S)
  BY <1>4
<1>6. IsFiniteSet(image(S))
  BY <1>2
<1> HIDE DEF image, Odd
<1> QED
  BY <1>1, <1>5, <1>6

(* The sum of differences is the difference of the sums. *)
LEMMA SumMinus ==
  ASSUME NEW u, NEW v, NEW w, NEW S, IsFiniteSet(S),
         \A x \in S : v[x] \in Int /\ w[x] \in Int /\ u[x] = w[x] - v[x]
  PROVE  Sum(u, S) = Sum(w, S) - Sum(v, S)
<1> DEFINE Odd == {s \in SUBSET S : Sum(u, s) # Sum(w, s) - Sum(v, s)}
<1>1. SUFFICES ASSUME Odd # {} PROVE FALSE
  OBVIOUS
<1>2. Odd \subseteq FiniteSubsetsOf(S)
  BY FS_Subset DEF FiniteSubsetsOf
<1>3. PICK s \in Odd : \A t \in Odd : ~ (t \subseteq s /\ t # s)
  <2> HIDE DEF Odd
  <2> QED BY <1>1, <1>2, SmallestSubset
<1>4. s \in SUBSET S /\ IsFiniteSet(s) /\ Sum(u, s) # Sum(w, s) - Sum(v, s)
  BY FS_Subset
<1>5. CASE s = {}
  <2>1. Sum(u, {}) = 0 /\ Sum(v, {}) = 0 /\ Sum(w, {}) = 0
    BY SumEmpty
  <2> QED
    BY <1>4, <1>5, <2>1
<1>6. CASE s # {}
  <2>1. PICK x \in s : TRUE
    BY <1>6
  <2>2. \A y \in s : u[y] \in Int /\ v[y] \in Int /\ w[y] \in Int
    BY <1>4
  <2>3. /\ Sum(u, s) = u[x] + Sum(u, s \ {x})
        /\ Sum(v, s) = v[x] + Sum(v, s \ {x})
        /\ Sum(w, s) = w[x] + Sum(w, s \ {x})
    BY <1>4, <2>1, <2>2, SumSplit
  <2>4. Sum(u, s \ {x}) = Sum(w, s \ {x}) - Sum(v, s \ {x})
    <3>1. s \ {x} \in SUBSET S /\ s \ {x} \subseteq s /\ s \ {x} # s
      BY <1>4, <2>1
    <3>2. s \ {x} \notin Odd
      <4> HIDE DEF Odd
      <4> QED BY <3>1, <1>3
    <3> QED
      BY <3>1, <3>2
  <2>5. IsFiniteSet(s \ {x}) /\ \A y \in s \ {x} : v[y] \in Int /\ w[y] \in Int
    BY <1>4, <2>2, FS_Subset
  <2>6. Sum(v, s \ {x}) \in Int /\ Sum(w, s \ {x}) \in Int
    BY <2>5, SumType
  <2>7. v[x] \in Int /\ w[x] \in Int /\ u[x] = w[x] - v[x]
    BY <1>4, <2>1
  <2> HIDE DEF Odd
  <2> QED
    BY <1>4, <2>3, <2>4, <2>6, <2>7
<1> QED
  BY <1>5, <1>6

(* Values multiplied by r have a sum multiplied by r. *)
LEMMA SumTimes ==
  ASSUME NEW v, NEW w, NEW r \in Int, NEW S, IsFiniteSet(S),
         \A x \in S : v[x] \in Int /\ w[x] = r * v[x]
  PROVE  Sum(w, S) = r * Sum(v, S)
<1> DEFINE Odd == {s \in SUBSET S : Sum(w, s) # r * Sum(v, s)}
<1>1. SUFFICES ASSUME Odd # {} PROVE FALSE
  OBVIOUS
<1>2. Odd \subseteq FiniteSubsetsOf(S)
  BY FS_Subset DEF FiniteSubsetsOf
<1>3. PICK s \in Odd : \A t \in Odd : ~ (t \subseteq s /\ t # s)
  <2> HIDE DEF Odd
  <2> QED BY <1>1, <1>2, SmallestSubset
<1>4. s \in SUBSET S /\ IsFiniteSet(s) /\ Sum(w, s) # r * Sum(v, s)
  BY FS_Subset
<1>5. CASE s = {}
  BY <1>4, <1>5, SumEmpty
<1>6. CASE s # {}
  <2>1. PICK x \in s : TRUE
    BY <1>6
  <2>2. \A y \in s : v[y] \in Int /\ w[y] \in Int /\ w[y] = r * v[y]
    BY <1>4
  <2>3. Sum(v, s) = v[x] + Sum(v, s \ {x}) /\ Sum(w, s) = w[x] + Sum(w, s \ {x})
    BY <1>4, <2>1, <2>2, SumSplit
  <2>4. Sum(w, s \ {x}) = r * Sum(v, s \ {x})
    <3>1. s \ {x} \in SUBSET S /\ s \ {x} \subseteq s /\ s \ {x} # s
      BY <1>4, <2>1
    <3>2. s \ {x} \notin Odd
      <4> HIDE DEF Odd
      <4> QED BY <3>1, <1>3
    <3> QED
      BY <3>1, <3>2
  <2>5. IsFiniteSet(s \ {x}) /\ \A y \in s \ {x} : v[y] \in Int
    BY <1>4, <2>2, FS_Subset
  <2>6. Sum(v, s \ {x}) \in Int
    BY <2>5, SumType
  <2>7. \A a, b \in Int : r * (a + b) = r * a + r * b
    OBVIOUS
  <2>8. r * Sum(v, s) = r * v[x] + r * Sum(v, s \ {x})
    BY <2>1, <2>2, <2>3, <2>6, <2>7
  <2> HIDE DEF Odd
  <2> QED
    BY <1>4, <2>1, <2>2, <2>3, <2>4, <2>8
<1> QED
  BY <1>5, <1>6

(* Values that differ by at most half of r have sums that differ by at most  *)
(* as many halves as there are values.                                       *)
LEMMA SumsNear ==
  ASSUME NEW v, NEW w, NEW r \in Nat, NEW S, IsFiniteSet(S),
         \A x \in S : /\ v[x] \in Int /\ w[x] \in Int
                      /\ -r <= 2 * (w[x] - v[x]) /\ 2 * (w[x] - v[x]) <= r
  PROVE  /\ -(r * Cardinality(S)) <= 2 * (Sum(w, S) - Sum(v, S))
         /\ 2 * (Sum(w, S) - Sum(v, S)) <= r * Cardinality(S)
<1> DEFINE Near(s) == /\ -(r * Cardinality(s)) <= 2 * (Sum(w, s) - Sum(v, s))
                      /\ 2 * (Sum(w, s) - Sum(v, s)) <= r * Cardinality(s)
           Odd == {s \in SUBSET S : ~ Near(s)}
<1>1. SUFFICES ASSUME Odd # {} PROVE FALSE
  OBVIOUS
<1>2. Odd \subseteq FiniteSubsetsOf(S)
  BY FS_Subset DEF FiniteSubsetsOf
<1>3. PICK s \in Odd : \A t \in Odd : ~ (t \subseteq s /\ t # s)
  <2> HIDE DEF Odd
  <2> QED BY <1>1, <1>2, SmallestSubset
<1>4. s \in SUBSET S /\ IsFiniteSet(s) /\ ~ Near(s)
  <2> HIDE DEF Near
  <2> QED BY FS_Subset
<1>5. CASE s = {}
  <2>1. Sum(v, s) = 0 /\ Sum(w, s) = 0 /\ Cardinality(s) = 0
    BY <1>5, SumEmpty, FS_EmptySet
  <2>2. Near(s)
    BY <2>1
  <2> QED
    BY <1>4, <2>2
<1>6. CASE s # {}
  <2>1. PICK x \in s : TRUE
    BY <1>6
  <2>2. \A y \in s : v[y] \in Int /\ w[y] \in Int
    BY <1>4
  <2>3. Sum(v, s) = v[x] + Sum(v, s \ {x}) /\ Sum(w, s) = w[x] + Sum(w, s \ {x})
    BY <1>4, <2>1, <2>2, SumSplit
  <2>4. Near(s \ {x})
    <3>1. s \ {x} \in SUBSET S /\ s \ {x} \subseteq s /\ s \ {x} # s
      BY <1>4, <2>1
    <3>2. s \ {x} \notin Odd
      <4> HIDE DEF Odd
      <4> QED BY <3>1, <1>3
    <3> HIDE DEF Near
    <3> QED
      BY <3>1, <3>2
  <2>5. IsFiniteSet(s \ {x}) /\ \A y \in s \ {x} : v[y] \in Int /\ w[y] \in Int
    BY <1>4, <2>2, FS_Subset
  <2>6. Sum(v, s \ {x}) \in Int /\ Sum(w, s \ {x}) \in Int
    BY <2>5, SumType
  <2>7. Cardinality(s \ {x}) = Cardinality(s) - 1 /\ Cardinality(s) \in Nat
    BY <1>4, <2>1, FS_RemoveElement, FS_CardinalityType
  <2>8. \A n \in Int : r * n = r * (n - 1) + r /\ r * (n - 1) \in Int
    OBVIOUS
  <2>9. PICK most : most = r * (Cardinality(s) - 1)
    OBVIOUS
  <2>9a. most \in Int /\ r * Cardinality(s) = most + r
    <3>1. Cardinality(s) \in Int
      BY <2>7
    <3> QED
      BY <2>8, <2>9, <3>1
  <2>10. /\ v[x] \in Int /\ w[x] \in Int
         /\ -r <= 2 * (w[x] - v[x]) /\ 2 * (w[x] - v[x]) <= r
    BY <1>4, <2>1
  <2>11. /\ -most <= 2 * (Sum(w, s \ {x}) - Sum(v, s \ {x}))
         /\ 2 * (Sum(w, s \ {x}) - Sum(v, s \ {x})) <= most
    BY <2>4, <2>7, <2>9
  <2>12. ASSUME NEW a \in Int, NEW b \in Int, NEW c \in Int, NEW d \in Int,
                -r <= 2 * (b - a), 2 * (b - a) <= r,
                -most <= 2 * (d - c), 2 * (d - c) <= most
         PROVE  /\ -(most + r) <= 2 * ((b + d) - (a + c))
                /\ 2 * ((b + d) - (a + c)) <= most + r
    <3>1. most \in Int /\ r \in Int
      BY <2>9a
    <3> QED
      BY ONLY <3>1, <2>12
  <2>13. Near(s)
    BY <2>3, <2>6, <2>9a, <2>10, <2>11, <2>12
  <2> HIDE DEF Near
  <2> QED
    BY <1>4, <2>13
<1> QED
  BY <1>5, <1>6

-----------------------------------------------------------------------------
(* Ranks.  r[x] is the set of those elements that stand before x, and x      *)
(* itself: of any two such sets one contains the other.                      *)

LEMMA RanksAreUnique ==
  ASSUME NEW S, IsFiniteSet(S), NEW r,
         \A x \in S : x \in r[x] /\ r[x] \subseteq S,
         \A x, y \in S : r[x] \subseteq r[y] \/ r[y] \subseteq r[x],
         \A x, y \in S : r[x] = r[y] => x = y
  PROVE  /\ Cardinality(S) \in Nat
         /\ \A x \in S : Cardinality(r[x]) \in 1 .. Cardinality(S)
         /\ \A x, y \in S : Cardinality(r[x]) = Cardinality(r[y]) => x = y
         /\ \A k \in 1 .. Cardinality(S) : \E x \in S : Cardinality(r[x]) = k
<1> DEFINE n == Cardinality(S)
           f == [x \in S |-> Cardinality(r[x])]
<1>1. n \in Nat
  BY FS_CardinalityType
<1>2. ASSUME NEW x \in S
      PROVE  Cardinality(r[x]) \in 1 .. n /\ IsFiniteSet(r[x])
  <2>1. IsFiniteSet(r[x]) /\ Cardinality(r[x]) <= n
    BY FS_Subset
  <2>2. Cardinality(r[x]) \in Nat /\ Cardinality(r[x]) # 0
    BY <2>1, FS_CardinalityType, FS_EmptySet
  <2> QED
    BY <1>1, <2>1, <2>2
<1>3. ASSUME NEW x \in S, NEW y \in S, Cardinality(r[x]) = Cardinality(r[y])
      PROVE  x = y
  <2>1. IsFiniteSet(r[x]) /\ IsFiniteSet(r[y])
    BY <1>2
  <2>2. CASE r[x] \subseteq r[y]
    <3>1. r[x] = r[y]
      BY <2>1, <2>2, <1>3, FS_Subset
    <3> QED
      BY <3>1
  <2>3. CASE r[y] \subseteq r[x]
    <3>1. r[x] = r[y]
      BY <2>1, <2>3, <1>3, FS_Subset
    <3> QED
      BY <3>1
  <2> QED
    BY <2>2, <2>3
<1>4. f \in Injection(S, 1 .. n)
  BY <1>2, <1>3 DEF Injection, IsInjective
<1>5. IsFiniteSet(1 .. n) /\ Cardinality(1 .. n) = n
  <2>1. \A m \in Nat : IsFiniteSet(1 .. m) /\ Cardinality(1 .. m) = m
    BY FS_Interval
  <2> HIDE DEF n
  <2> QED
    BY <1>1, <2>1
<1>6. f \in Surjection(S, 1 .. n)
  <2> HIDE DEF f
  <2> QED
    BY <1>4, <1>5, FS_Injection
<1>7. \A k \in 1 .. n : \E x \in S : f[x] = k
  BY <1>6 DEF Surjection
<1> QED
  BY <1>1, <1>2, <1>3, <1>7

Rank(side, P, p) == Cardinality({q \in P : Before(side, q, p)}) + 1

(* Of a finite set of prices there is one best, one second best, and so on.  *)
LEMMA PricesAreRanked ==
  ASSUME NEW side \in Side, NEW P, P \subseteq Int, IsFiniteSet(P)
  PROVE  /\ Cardinality(P) \in Nat
         /\ \A p \in P : Rank(side, P, p) \in 1 .. Cardinality(P)
         /\ \A p, q \in P : Rank(side, P, p) = Rank(side, P, q) => p = q
         /\ \A k \in 1 .. Cardinality(P) : \E p \in P : Rank(side, P, p) = k
<1> DEFINE ahead(p) == {q \in P : Before(side, q, p)}
           r == [p \in P |-> ahead(p) \cup {p}]
<1>0. P \subseteq Int
  OBVIOUS
<1>1. \A p \in P : p \in r[p] /\ r[p] \subseteq P
  OBVIOUS
<1>2. \A p, q \in P : Before(side, p, q) \/ Before(side, q, p) \/ p = q
  BY ONLY <1>0 DEF Before
<1>3. \A p, q, t \in P : Before(side, p, q) /\ Before(side, q, t) => Before(side, p, t)
  BY ONLY <1>0 DEF Before
<1>4. \A p \in P : ~ Before(side, p, p)
  BY ONLY <1>0 DEF Before
<1>5. ASSUME NEW p \in P, NEW q \in P, Before(side, p, q)
      PROVE  r[p] \subseteq r[q] /\ r[p] # r[q]
  <2>1. r[p] \subseteq r[q]
    BY <1>3, <1>5
  <2>2. q \in r[q] /\ q \notin r[p]
    BY <1>3, <1>4, <1>5
  <2> QED
    BY <2>1, <2>2
<1>6. /\ \A p, q \in P : r[p] \subseteq r[q] \/ r[q] \subseteq r[p]
      /\ \A p, q \in P : r[p] = r[q] => p = q
  <2> SUFFICES ASSUME NEW p \in P, NEW q \in P
               PROVE  /\ r[p] \subseteq r[q] \/ r[q] \subseteq r[p]
                      /\ r[p] = r[q] => p = q
    OBVIOUS
  <2> HIDE DEF r
  <2> QED
    BY <1>2, <1>5
<1>7. ASSUME NEW p \in P
      PROVE  Cardinality(r[p]) = Rank(side, P, p)
  <2>1. r[p] = ahead(p) \cup {p} /\ p \notin ahead(p)
    BY <1>4
  <2>2. IsFiniteSet(ahead(p)) /\ Rank(side, P, p) = Cardinality(ahead(p)) + 1
    BY FS_Subset DEF Rank
  <2> HIDE DEF ahead, r
  <2> QED
    BY <2>1, <2>2, FS_AddElement
<1> HIDE DEF r
<1>8. /\ Cardinality(P) \in Nat
      /\ \A p \in P : Cardinality(r[p]) \in 1 .. Cardinality(P)
      /\ \A p, q \in P : Cardinality(r[p]) = Cardinality(r[q]) => p = q
      /\ \A k \in 1 .. Cardinality(P) : \E p \in P : Cardinality(r[p]) = k
  <2>1. IsFiniteSet(P)
    OBVIOUS
  <2> QED
    BY ONLY <2>1, <1>1, <1>6, RanksAreUnique
<1> QED
  BY <1>7, <1>8

(* A finite set of numbers that is not empty has a greatest one. *)
LEMMA GreatestIs ==
  ASSUME NEW S, S \subseteq Int, IsFiniteSet(S), S # {}
  PROVE  Max(S) \in S /\ \A x \in S : x <= Max(S)
<1> DEFINE from(x) == {y \in S : y >= x}
           T == {from(x) : x \in S}
<1>0. \A x \in S : x \in Int
  OBVIOUS
<1>1. T \subseteq FiniteSubsetsOf(S)
  <2>1. ASSUME NEW x \in S
        PROVE  from(x) \in FiniteSubsetsOf(S)
    <3>1. from(x) \subseteq S /\ IsFiniteSet(S)
      OBVIOUS
    <3>2. IsFiniteSet(from(x))
      BY ONLY <3>1, FS_Subset
    <3> QED
      BY <3>1, <3>2 DEF FiniteSubsetsOf
  <2> HIDE DEF from
  <2> QED
    BY <2>1
<1>2. T # {} /\ \A x \in S : from(x) \in T
  OBVIOUS
<1>3. \A s \in T : \E x \in S : s = from(x)
  OBVIOUS
<1> HIDE DEF T
<1>4. PICK s \in T : \A u \in T : ~ (u \subseteq s /\ u # s)
  BY <1>1, <1>2, SmallestSubset
<1>5. PICK x \in S : s = from(x)
  BY <1>3
<1>6. ASSUME NEW y \in S
      PROVE  y <= x
  <2>1. SUFFICES ASSUME y > x PROVE FALSE
    BY <1>0
  <2>2. x \in Int /\ y \in Int /\ \A z \in S : z \in Int /\ (z >= y => z >= x)
    BY <1>0, <2>1
  <2>3. from(y) \subseteq from(x)
    BY <2>2
  <2>4. x \in from(x) /\ x \notin from(y)
    BY <2>1, <2>2
  <2> QED
    BY <1>2, <1>4, <1>5, <2>3, <2>4
<1>7. \A y \in S : x >= y
  BY <1>0, <1>6
<1>8. Max(S) \in S /\ \A y \in S : Max(S) >= y
  BY <1>7 DEF Max
<1> QED
  BY <1>0, <1>8

-----------------------------------------------------------------------------
(* Books *)

(* Resting orders, and books of them: a resting order has something left. *)
Entry(ids, prices) ==
  [order_id : ids, order_type : OrderType, price : prices, remaining_quantity : Nat \ {0}]

Book(ids, prices) == [Side -> Seq(Entry(ids, prices))]

LEMMA OppositeIsSide ==
  ASSUME NEW side \in Side
  PROVE  Opposite(side) \in Side /\ Opposite(side) # side
BY DEF Opposite, Side, BUY, SELL

-----------------------------------------------------------------------------
(* Choosing some members of a sequence *)

(* A function on the first so many numbers is a sequence. *)
LEMMA FunctionIsSeq ==
  ASSUME NEW n \in Nat, NEW T, NEW q, q = [k \in 1 .. n |-> q[k]],
         \A k \in 1 .. n : q[k] \in T
  PROVE  q \in Seq(T) /\ Len(q) = n
<1>1. q \in [1 .. n -> T]
  OBVIOUS
<1>2. q \in Seq(T)
  BY <1>1, SeqDef
<1>3. DOMAIN q = 1 .. n
  OBVIOUS
<1> QED
  BY <1>2, <1>3

(* How many of the chosen positions are up to the i-th. *)
PlaceOf(at, i) == Cardinality({j \in at : j <= i})

(* The k-th chosen is the one with k chosen positions up to its own. *)
LEMMA ChosenPlaces ==
  ASSUME NEW q, NEW at \in SUBSET Int, IsFiniteSet(at)
  PROVE  /\ Cardinality(at) \in Nat
         /\ Chosen(q, at) = [k \in 1 .. Cardinality(at) |-> Chosen(q, at)[k]]
         /\ \A i \in at : /\ PlaceOf(at, i) \in 1 .. Cardinality(at)
                          /\ Chosen(q, at)[PlaceOf(at, i)] = q[i]
         /\ \A i, j \in at :
              PlaceOf(at, i) = PlaceOf(at, j) => i = j
         /\ \A k \in 1 .. Cardinality(at) :
              \E i \in at : /\ PlaceOf(at, i) = k
                            /\ Chosen(q, at)[k] = q[i]
<1> DEFINE r == [i \in at |-> {j \in at : j <= i}]
<1>1. \A i \in at : i \in r[i] /\ r[i] \subseteq at
  OBVIOUS
<1>2. \A i, j \in at : r[i] \subseteq r[j] \/ r[j] \subseteq r[i]
  <2> SUFFICES ASSUME NEW i \in at, NEW j \in at
               PROVE  r[i] \subseteq r[j] \/ r[j] \subseteq r[i]
    OBVIOUS
  <2>1. r[i] = {l \in at : l <= i} /\ r[j] = {l \in at : l <= j}
    OBVIOUS
  <2>2. \A l \in at : l \in Int
    OBVIOUS
  <2>3. \A l \in at : (l \in r[i] <=> l <= i) /\ (l \in r[j] <=> l <= j)
    BY <2>1
  <2>4. r[i] \subseteq at /\ r[j] \subseteq at
    BY <2>1
  <2> HIDE DEF r
  <2>5. CASE i <= j
    <3>1. \A l \in at : l <= i => l <= j
      BY <2>2, <2>5
    <3> QED
      BY <2>3, <2>4, <3>1, Zenon
  <2>6. CASE j <= i
    <3>1. \A l \in at : l <= j => l <= i
      BY <2>2, <2>6
    <3> QED
      BY <2>3, <2>4, <3>1, Zenon
  <2> QED
    BY <2>2, <2>5, <2>6
<1>3. \A i, j \in at : r[i] = r[j] => i = j
  <2> SUFFICES ASSUME NEW i \in at, NEW j \in at, r[i] = r[j] PROVE i = j
    OBVIOUS
  <2>1. i \in r[j] /\ j \in r[i]
    BY <1>1
  <2>2. i <= j /\ j <= i
    BY <2>1
  <2> QED
    BY <2>2
<1>4. \A i \in at : r[i] = {j \in at : j <= i}
  OBVIOUS
<1> HIDE DEF r
<1>5. /\ Cardinality(at) \in Nat
      /\ \A i \in at : Cardinality(r[i]) \in 1 .. Cardinality(at)
      /\ \A i, j \in at : Cardinality(r[i]) = Cardinality(r[j]) => i = j
      /\ \A k \in 1 .. Cardinality(at) : \E i \in at : Cardinality(r[i]) = k
  BY <1>1, <1>2, <1>3, RanksAreUnique
<1>6. /\ Cardinality(at) \in Nat
      /\ \A i \in at : PlaceOf(at, i) \in 1 .. Cardinality(at)
      /\ \A i, j \in at :
           PlaceOf(at, i) = PlaceOf(at, j) => i = j
      /\ \A k \in 1 .. Cardinality(at) : \E i \in at : PlaceOf(at, i) = k
  <2>1. \A i \in at : PlaceOf(at, i) = Cardinality(r[i])
    BY <1>4 DEF PlaceOf
  <2> QED
    BY <1>5, <2>1
<1>7. ASSUME NEW k \in 1 .. Cardinality(at), NEW i \in at,
             PlaceOf(at, i) = k
      PROVE  Chosen(q, at)[k] = q[i]
  <2> DEFINE p == CHOOSE p \in at : PlaceOf(at, p) = k
  <2>1. p \in at /\ PlaceOf(at, p) = k
    BY <1>7
  <2>2. Chosen(q, at)[k] = q[p]
    BY DEF Chosen, PlaceOf
  <2> HIDE DEF p
  <2>3. p = i
    BY <2>1, <1>6, <1>7
  <2> QED
    BY <2>2, <2>3
<1>8. Chosen(q, at) = [k \in 1 .. Cardinality(at) |-> Chosen(q, at)[k]]
  BY DEF Chosen
<1> QED
  BY <1>6, <1>7, <1>8

(* What is chosen of members of T is a sequence of members of T. *)
LEMMA ChosenType ==
  ASSUME NEW q, NEW at \in SUBSET Int, IsFiniteSet(at), NEW T, \A i \in at : q[i] \in T
  PROVE  /\ Chosen(q, at) \in Seq(T)
         /\ Len(Chosen(q, at)) = Cardinality(at)
<1>0. \A k \in 1 .. Cardinality(at) :
        \E i \in at : PlaceOf(at, i) = k /\ Chosen(q, at)[k] = q[i]
  BY ONLY IsFiniteSet(at), ChosenPlaces
<1>1. ASSUME NEW k \in 1 .. Cardinality(at)
      PROVE  Chosen(q, at)[k] \in T
  <2>1. PICK i \in at : /\ PlaceOf(at, i) = k
                        /\ Chosen(q, at)[k] = q[i]
    BY <1>0, Zenon
  <2> QED
    BY <2>1
<1> QED
  BY <1>1, ChosenPlaces, FunctionIsSeq

(* Positions of a sequence. *)
LEMMA SeqPositions ==
  ASSUME NEW T, NEW q \in Seq(T)
  PROVE  /\ Len(q) \in Nat /\ DOMAIN q = 1 .. Len(q)
         /\ IsFiniteSet(DOMAIN q) /\ Cardinality(DOMAIN q) = Len(q)
         /\ \A at \in SUBSET DOMAIN q : at \in SUBSET Int /\ IsFiniteSet(at)
<1>1. Len(q) \in Nat /\ DOMAIN q = 1 .. Len(q)
  OBVIOUS
<1>2. \A n \in Nat : IsFiniteSet(1 .. n) /\ Cardinality(1 .. n) = n
  BY FS_Interval
<1> QED
  BY <1>1, <1>2, FS_Subset

(* Choosing every member leaves the sequence as it is. *)
LEMMA ChosenAll ==
  ASSUME NEW T, NEW q \in Seq(T)
  PROVE  Chosen(q, DOMAIN q) = q
<1>1. /\ Len(q) \in Nat /\ DOMAIN q = 1 .. Len(q) /\ DOMAIN q \in SUBSET Int
      /\ IsFiniteSet(DOMAIN q) /\ Cardinality(DOMAIN q) = Len(q)
  BY SeqPositions
<1>2. Chosen(q, DOMAIN q) \in Seq(T) /\ Len(Chosen(q, DOMAIN q)) = Len(q)
  BY <1>1, ChosenType
<1>3. ASSUME NEW k \in 1 .. Len(q)
      PROVE  Chosen(q, DOMAIN q)[k] = q[k]
  <2>1. {j \in DOMAIN q : j <= k} = 1 .. k
    BY <1>1
  <2>2. Cardinality(1 .. k) = k
    BY FS_Interval
  <2>3. PlaceOf(DOMAIN q, k) = k
    BY <2>1, <2>2 DEF PlaceOf
  <2>4. \A i \in DOMAIN q : Chosen(q, DOMAIN q)[PlaceOf(DOMAIN q, i)] = q[i]
    BY <1>1, ChosenPlaces
  <2> QED
    BY <1>1, <2>3, <2>4
<1> QED
  BY <1>2, <1>3, SeqEqual

LEMMA WithoutType ==
  ASSUME NEW ids, NEW prices, NEW b \in Book(ids, prices), NEW id
  PROVE  /\ Without(b, id) \in Book(ids, prices)
         /\ \A s \in Side : \A i \in DOMAIN Without(b, id)[s] :
              Without(b, id)[s][i].order_id # id
<1>1. ASSUME NEW s \in Side
      PROVE  /\ Without(b, id)[s] \in Seq(Entry(ids, prices))
             /\ \A i \in DOMAIN Without(b, id)[s] : Without(b, id)[s][i].order_id # id
  <2> DEFINE at == {i \in DOMAIN b[s] : b[s][i].order_id # id}
             q  == b[s]
  <2>1. q \in Seq(Entry(ids, prices))
    BY DEF Book
  <2>2. /\ at \in SUBSET Int /\ IsFiniteSet(at)
        /\ \A i \in at : q[i] \in {m \in Entry(ids, prices) : m.order_id # id}
    BY <2>1, SeqPositions
  <2>3. Without(b, id)[s] = Chosen(q, at)
    BY DEF Without
  <2> HIDE DEF at, q
  <2>4. Chosen(q, at) \in Seq({m \in Entry(ids, prices) : m.order_id # id})
    BY <2>2, ChosenType
  <2> QED
    BY <2>3, <2>4
<1>2. Without(b, id) = [s \in Side |-> Without(b, id)[s]]
  BY DEF Without
<1> QED
  BY <1>1, <1>2 DEF Book

(* An order that does not rest in a book cannot leave it. *)
LEMMA WithoutAbsent ==
  ASSUME NEW ids, NEW prices, NEW b \in Book(ids, prices), NEW id,
         \A s \in Side : \A i \in DOMAIN b[s] : b[s][i].order_id # id
  PROVE  Without(b, id) = b
<1>1. ASSUME NEW s \in Side
      PROVE  Without(b, id)[s] = b[s]
  <2>1. {i \in DOMAIN b[s] : b[s][i].order_id # id} = DOMAIN b[s]
    OBVIOUS
  <2>2. b[s] \in Seq(Entry(ids, prices))
    BY DEF Book
  <2> QED
    BY <2>1, <2>2, ChosenAll DEF Without
<1>2. Without(b, id) = [s \in Side |-> Without(b, id)[s]]
  BY DEF Without
<1> QED
  BY <1>1, <1>2 DEF Book

-----------------------------------------------------------------------------
(* Joining a queue *)

NewEntry(o, qty) ==
  [order_id |-> o.order_id, order_type |-> o.order_type, price |-> o.price,
   remaining_quantity |-> qty]

LEMMA InsertAtIsConcat ==
  ASSUME NEW q, NEW k \in Nat, NEW e
  PROVE  InsertAt(q, k + 1, e) = SubSeq(q, 1, k) \o <<e>> \o SubSeq(q, k + 1, Len(q))
<1>1. PICK i : i = k + 1
  OBVIOUS
<1>2. i - 1 = k
  BY <1>1
<1>3. InsertAt(q, i, e) = SubSeq(q, 1, i - 1) \o <<e>> \o SubSeq(q, i, Len(q))
  BY DEF InsertAt
<1> QED
  BY <1>1, <1>2, <1>3, Zenon

(* w is q with e let in behind the first c.                                  *)
LetIn(w, q, c, e) ==
  \A k \in 1 .. Len(q) + 1 :
    w[k] = IF k <= c THEN q[k] ELSE IF k = c + 1 THEN e ELSE q[k - 1]

(* The orders of q that a newcomer o stands behind. *)
InFront(q, o) == {i \in DOMAIN q : ~ Before(o.side, o.price, q[i].price)}

(* So many orders stay in front of the newcomer, the others move back.       *)
LEMMA NewcomerPlace ==
  ASSUME NEW T, NEW q \in Seq(T), NEW o, NEW qty, NewEntry(o, qty) \in T
  PROVE  /\ Queued(q, o, qty) \in Seq(T)
         /\ Len(Queued(q, o, qty)) = Len(q) + 1
         /\ Cardinality(InFront(q, o)) \in 0 .. Len(q)
         /\ LetIn(Queued(q, o, qty), q, Cardinality(InFront(q, o)), NewEntry(o, qty))
<1> DEFINE ahead == {i \in DOMAIN q : ~ Before(o.side, o.price, q[i].price)}
           e     == NewEntry(o, qty)
           c     == Cardinality(ahead)
           n     == Len(q)
           front == SubSeq(q, 1, c)
           back  == SubSeq(q, c + 1, n)
<1>1. c \in 0 .. n /\ n \in Nat
  <2>1. /\ n \in Nat /\ Cardinality(DOMAIN q) = n /\ IsFiniteSet(DOMAIN q)
    BY SeqPositions
  <2>2. IsFiniteSet(ahead) /\ Cardinality(ahead) <= n
    BY <2>1, FS_Subset
  <2> QED
    BY <2>1, <2>2, FS_CardinalityType
<1>2. Queued(q, o, qty) = InsertAt(q, c + 1, e)
  BY DEF Queued, NewEntry
<1> HIDE DEF ahead, e, c, n
<1>3. /\ front \in Seq(T) /\ Len(front) = c
      /\ \A k \in 1 .. c : front[k] = q[k]
  <2>1. \A i \in 1 .. c : q[i] \in T
    BY <1>1 DEF n
  <2>2. /\ front \in Seq(T) /\ Len(front) = IF 1 <= c THEN c - 1 + 1 ELSE 0
        /\ \A k \in 1 .. c - 1 + 1 : front[k] = q[1 + k - 1]
    BY <1>1, <2>1, SubSeqProperties
  <2>3. \A k \in 1 .. c : k \in 1 .. c - 1 + 1 /\ 1 + k - 1 = k
    BY <1>1
  <2> HIDE DEF front
  <2>4. Len(front) = c
    BY <1>1, <2>2
  <2>5. ASSUME NEW k \in 1 .. c
        PROVE  front[k] = q[k]
    <3>1. front[k] = q[1 + k - 1]
      BY <2>2, <2>3
    <3> QED
      BY <2>3, <3>1
  <2> QED
    BY <2>2, <2>4, <2>5
<1>4. /\ back \in Seq(T) /\ Len(back) = n - c
      /\ \A k \in 1 .. n - c : back[k] = q[c + k]
  <2>1. \A i \in c + 1 .. n : q[i] \in T
    BY <1>1 DEF n
  <2>2. /\ back \in Seq(T) /\ Len(back) = IF c + 1 <= n THEN n - (c + 1) + 1 ELSE 0
        /\ \A k \in 1 .. n - (c + 1) + 1 : back[k] = q[c + 1 + k - 1]
    BY <1>1, <2>1, SubSeqProperties
  <2>3. \A k \in 1 .. n - c : k \in 1 .. n - (c + 1) + 1 /\ c + 1 + k - 1 = c + k
    BY <1>1
  <2> HIDE DEF back
  <2>4. Len(back) = n - c
    BY <1>1, <2>2
  <2>5. ASSUME NEW k \in 1 .. n - c
        PROVE  back[k] = q[c + k]
    <3>1. back[k] = q[c + 1 + k - 1]
      BY <2>2, <2>3
    <3> QED
      BY <2>3, <3>1
  <2> QED
    BY <2>2, <2>4, <2>5
<1>5. Queued(q, o, qty) = front \o <<e>> \o back
  <2>1. c \in Nat
    BY <1>1
  <2> QED
    BY <1>2, <2>1, InsertAtIsConcat DEF n
<1> HIDE DEF front, back
<1>6. <<e>> \in Seq(T) /\ Len(<<e>>) = 1 /\ <<e>>[1] = e
  BY DEF e
<1> DEFINE head == front \o <<e>>
<1>7. /\ head \in Seq(T) /\ Len(head) = c + 1
      /\ \A i \in 1 .. c + 1 : head[i] = IF i <= c THEN front[i] ELSE <<e>>[i - c]
  BY <1>3, <1>6, ConcatProperties
<1>8. /\ head \o back \in Seq(T)
      /\ Len(head \o back) = c + 1 + (n - c)
      /\ \A i \in 1 .. c + 1 + (n - c) :
           (head \o back)[i] = IF i <= c + 1 THEN head[i] ELSE back[i - (c + 1)]
  <2> HIDE DEF head
  <2>1. /\ head \o back \in Seq(T)
        /\ Len(head \o back) = Len(head) + Len(back)
        /\ \A i \in 1 .. Len(head) + Len(back) :
             (head \o back)[i] = IF i <= Len(head) THEN head[i] ELSE back[i - Len(head)]
    BY <1>4, <1>7, ConcatProperties
  <2> QED
    BY <2>1, <1>4, <1>7
<1>9. Queued(q, o, qty) = head \o back
  BY <1>5
<1> DEFINE w == head \o back
<1>10. ASSUME NEW k \in 1 .. n + 1
       PROVE  w[k] = IF k <= c THEN q[k] ELSE IF k = c + 1 THEN e ELSE q[k - 1]
  <2>1. CASE k <= c
    <3>1. k \in 1 .. c /\ k \in 1 .. c + 1 /\ k <= c + 1 /\ k \in 1 .. c + 1 + (n - c)
      BY <2>1, <1>1
    <3>2. w[k] = head[k] /\ head[k] = front[k] /\ front[k] = q[k]
      BY <3>1, <1>3, <1>7, <1>8
    <3> QED
      BY <2>1, <3>2
  <2>2. CASE k = c + 1
    <3>1. k \in 1 .. c + 1 /\ ~ (k <= c) /\ k - c = 1 /\ k \in 1 .. c + 1 + (n - c)
      BY <2>2, <1>1
    <3>2. w[k] = head[k] /\ head[k] = <<e>>[k - c]
      BY <3>1, <2>2, <1>7, <1>8
    <3> QED
      BY <2>2, <3>1, <3>2, <1>6
  <2>3. CASE k > c + 1
    <3>1. /\ ~ (k <= c + 1) /\ ~ (k <= c) /\ k # c + 1 /\ k - (c + 1) \in 1 .. n - c
          /\ c + (k - (c + 1)) = k - 1 /\ k \in 1 .. c + 1 + (n - c)
      BY <2>3, <1>1
    <3>2. w[k] = back[k - (c + 1)] /\ back[k - (c + 1)] = q[c + (k - (c + 1))]
      BY <3>1, <1>4, <1>8
    <3> QED
      BY <3>1, <3>2
  <2>4. k <= c \/ k = c + 1 \/ k > c + 1
    BY <1>1
  <2> HIDE DEF w
  <2> QED
    BY <2>1, <2>2, <2>3, <2>4
<1>11. Len(w) = n + 1 /\ w \in Seq(T)
  <2>1. c + 1 + (n - c) = n + 1
    BY <1>1
  <2> HIDE DEF head
  <2> QED
    BY <2>1, <1>8
<1> HIDE DEF w, head
<1> QED
  <2>1. LetIn(w, q, c, e)
    BY <1>10 DEF LetIn, n
  <2>2. c = Cardinality(InFront(q, o))
    BY DEF c, ahead, InFront
  <2> QED
    BY <1>1, <1>9, <1>11, <2>1, <2>2 DEF w, n, e

LEMMA QueuedPlaces ==
  ASSUME NEW T, NEW q \in Seq(T), NEW o, NEW qty, NewEntry(o, qty) \in T
  PROVE  /\ Queued(q, o, qty) \in Seq(T)
         /\ Len(Queued(q, o, qty)) = Len(q) + 1
         /\ \E c \in 0 .. Len(q) : LetIn(Queued(q, o, qty), q, c, NewEntry(o, qty))
BY NewcomerPlace

LEMMA CountAllButOne ==
  ASSUME NEW m \in Nat, NEW c \in 1 .. m + 1
  PROVE  /\ IsFiniteSet((1 .. m + 1) \ {c})
         /\ Cardinality((1 .. m + 1) \ {c}) = m
<1>1. m + 1 \in Nat
  OBVIOUS
<1>2. IsFiniteSet(1 .. m + 1) /\ Cardinality(1 .. m + 1) = m + 1
  BY <1>1, FS_Interval
<1>3. /\ IsFiniteSet((1 .. m + 1) \ {c})
      /\ Cardinality((1 .. m + 1) \ {c})
           = IF c \in 1 .. m + 1 THEN Cardinality(1 .. m + 1) - 1 ELSE Cardinality(1 .. m + 1)
  BY <1>2, FS_RemoveElement
<1> QED
  BY <1>2, <1>3

(* Without the newcomer the queue is what it was. *)
LEMMA WithoutNewcomer ==
  ASSUME NEW T, NEW q \in Seq(T), NEW o, NEW qty, NewEntry(o, qty) \in T,
         \A i \in DOMAIN q : q[i].order_id # o.order_id
  PROVE  Chosen(Queued(q, o, qty),
                {i \in DOMAIN Queued(q, o, qty) :
                   Queued(q, o, qty)[i].order_id # o.order_id}) = q
<1>0. /\ Queued(q, o, qty) \in Seq(T)
      /\ Len(Queued(q, o, qty)) = Len(q) + 1
      /\ \E c \in 0 .. Len(q) : LetIn(Queued(q, o, qty), q, c, NewEntry(o, qty))
  BY QueuedPlaces
<1> DEFINE w  == Queued(q, o, qty)
           at == {i \in DOMAIN w : w[i].order_id # o.order_id}
           n  == Len(q)
<1>1. w \in Seq(T) /\ Len(w) = n + 1
  BY <1>0
<1>2. PICK c \in 0 .. n : \A k \in 1 .. n + 1 :
        w[k] = IF k <= c THEN q[k] ELSE IF k = c + 1 THEN NewEntry(o, qty) ELSE q[k - 1]
  BY <1>0 DEF LetIn
<1>3. n \in Nat /\ DOMAIN q = 1 .. n /\ DOMAIN w = 1 .. n + 1
  BY <1>1
<1> HIDE DEF w, n
<1>4. at = (1 .. n + 1) \ {c + 1}
  <2>1. ASSUME NEW i \in 1 .. n + 1
        PROVE  w[i].order_id # o.order_id <=> i # c + 1
    <3>1. CASE i <= c
      <4>1. i \in DOMAIN q /\ w[i] = q[i] /\ i # c + 1
        BY <3>1, <1>2, <1>3
      <4> QED
        BY <4>1
    <3>2. CASE i = c + 1
      <4>1. w[i] = NewEntry(o, qty)
        BY <3>2, <1>2, <1>3
      <4> QED
        BY <3>2, <4>1 DEF NewEntry
    <3>3. CASE i > c + 1
      <4>1. i - 1 \in DOMAIN q /\ w[i] = q[i - 1] /\ i # c + 1
        BY <3>3, <1>2, <1>3
      <4> QED
        BY <4>1
    <3> QED
      BY <3>1, <3>2, <3>3, <1>3
  <2> QED
    BY <2>1, <1>3
<1>5. \A m \in Nat : IsFiniteSet(1 .. m) /\ Cardinality(1 .. m) = m
  BY FS_Interval
<1>6. /\ at \in SUBSET Int /\ IsFiniteSet(at) /\ Cardinality(at) = n
      /\ \A i \in at : w[i] \in T
  <2>1. c + 1 \in 1 .. n + 1
    BY <1>3
  <2>2. IsFiniteSet(at) /\ Cardinality(at) = n
    BY <2>1, <1>3, <1>4, CountAllButOne
  <2> QED
    BY <2>2, <1>1, <1>3, <1>4
<1> HIDE DEF at
<1>7. Chosen(w, at) \in Seq(T) /\ Len(Chosen(w, at)) = n
  BY <1>6, ChosenType
<1>8. ASSUME NEW k \in 1 .. n
      PROVE  Chosen(w, at)[k] = q[k]
  <2> DEFINE i == IF k <= c THEN k ELSE k + 1
  <2>1. i \in at /\ w[i] = q[k]
    <3>1. CASE k <= c
      <4>1. k \in 1 .. n + 1 /\ k # c + 1 /\ w[k] = q[k]
        BY <3>1, <1>2, <1>3
      <4> QED
        BY <3>1, <4>1, <1>4
    <3>2. CASE ~ (k <= c)
      <4>1. /\ k + 1 \in 1 .. n + 1 /\ k + 1 # c + 1 /\ ~ (k + 1 <= c)
            /\ k + 1 - 1 = k
        BY <3>2, <1>3
      <4>2. w[k + 1] = q[k]
        BY <4>1, <1>2
      <4> QED
        BY <3>2, <4>1, <4>2, <1>4
    <3> QED
      BY <3>1, <3>2
  <2>2. PlaceOf(at, i) = k
    <3>1. CASE k <= c
      <4>1. {j \in at : j <= i} = 1 .. k
        BY <3>1, <1>3, <1>4
      <4>2. k \in Nat
        BY <1>3
      <4> HIDE DEF i
      <4> QED
        BY <4>1, <4>2, <1>5 DEF PlaceOf
    <3>2. CASE ~ (k <= c)
      <4>1. {j \in at : j <= i} = (1 .. k + 1) \ {c + 1}
        BY <3>2, <1>3, <1>4
      <4>2. k \in Nat /\ c + 1 \in 1 .. k + 1
        BY <3>2
      <4>3. Cardinality((1 .. k + 1) \ {c + 1}) = k
        BY <4>2, CountAllButOne
      <4> HIDE DEF i
      <4> QED
        BY <4>1, <4>3 DEF PlaceOf
    <3> QED
      BY <3>1, <3>2
  <2> HIDE DEF i
  <2>3. Chosen(w, at)[PlaceOf(at, i)] = w[i]
    BY <2>1, <1>6, ChosenPlaces
  <2> QED
    BY <2>1, <2>2, <2>3
<1>9. Chosen(w, at) = q
  BY <1>7, <1>8, SeqEqual DEF n
<1> QED
  BY <1>9 DEF w, at

-----------------------------------------------------------------------------
(* What a sweep gives the makers *)

LEMMA WantedIs ==
  ASSUME NEW makers, NEW at, IsFiniteSet(at), NEW w,
         \A i \in at : w[i] = makers[i].remaining_quantity
  PROVE  Wanted(makers, at) = Sum(w, at)
<1> DEFINE v == [i \in at |-> makers[i].remaining_quantity]
<1>1. Wanted(makers, at) = Sum(v, at)
  BY DEF Wanted, SumFunction, Sum
<1>2. \A i \in at : v[i] = w[i]
  OBVIOUS
<1> HIDE DEF v
<1> QED
  BY <1>1, <1>2, SumEqual

LEMMA WantedType ==
  ASSUME NEW makers, NEW at, IsFiniteSet(at), NEW T \in {Nat, Int},
         \A i \in at : makers[i].remaining_quantity \in T
  PROVE  Wanted(makers, at) \in T
<1> DEFINE v == [i \in at |-> makers[i].remaining_quantity]
<1>1. \A i \in at : v[i] = makers[i].remaining_quantity /\ v[i] \in T
  OBVIOUS
<1> HIDE DEF v
<1> QED
  BY <1>1, WantedIs, SumType

LEMMA EntryHasLeft ==
  ASSUME NEW ids, NEW prices, NEW q \in Seq(Entry(ids, prices)), NEW i \in DOMAIN q
  PROVE  /\ q[i] \in Entry(ids, prices)
         /\ q[i].remaining_quantity \in Nat /\ q[i].remaining_quantity > 0
<1>1. q[i] \in Entry(ids, prices)
  OBVIOUS
<1>2. q[i].remaining_quantity \in Nat \ {0}
  BY <1>1 DEF Entry
<1> QED
  BY <1>1, <1>2

LEMMA MinOfTwo ==
  ASSUME NEW x \in Int, NEW y \in Int
  PROVE  Min({x, y}) = IF x <= y THEN x ELSE y
BY DEF Min

LEMMA MaxWithZero ==
  ASSUME NEW y \in Int
  PROVE  Max({0, y}) = IF 0 >= y THEN 0 ELSE y
BY DEF Max

(* A share is what a maker may get: nothing up to all it has left. *)
Shares(given, makers) ==
  /\ DOMAIN given = DOMAIN makers
  /\ \A i \in DOMAIN makers : given[i] \in 0 .. makers[i].remaining_quantity

LEMMA AllotmentShares ==
  ASSUME NEW ids, NEW prices, NEW makers \in Seq(Entry(ids, prices)),
         NEW reach \in SUBSET DOMAIN makers, NEW quantity \in Int
  PROVE  Shares(Allotment(makers, reach, quantity), makers)
<1> DEFINE given == Allotment(makers, reach, quantity)
<1>1. DOMAIN given = DOMAIN makers
  BY DEF Allotment
<1>2. ASSUME NEW i \in DOMAIN makers
      PROVE  given[i] \in 0 .. makers[i].remaining_quantity
  <2> DEFINE rem   == makers[i].remaining_quantity
             first == Wanted(makers, {j \in reach : j < i})
  <2>1. rem \in Nat
    BY EntryHasLeft
  <2>2. first \in Int
    <3>1. IsFiniteSet({j \in reach : j < i})
      BY SeqPositions, FS_Subset
    <3>2. \A j \in {j \in reach : j < i} : makers[j].remaining_quantity \in Int
      BY EntryHasLeft
    <3> QED
      BY <3>1, <3>2, WantedType
  <2>3. given[i] = IF i \in reach THEN Min({rem, Max({0, quantity - first})}) ELSE 0
    BY DEF Allotment
  <2> HIDE DEF rem, first, given
  <2>4. PICK want \in Int : want = quantity - first
    BY <2>2
  <2>5. PICK more \in Nat : more = Max({0, want})
    <3>1. Max({0, want}) = IF 0 >= want THEN 0 ELSE want
      BY MaxWithZero
    <3> QED
      BY <3>1
  <2>6. Min({rem, more}) = IF rem <= more THEN rem ELSE more
    <3>1. rem \in Int /\ more \in Int
      BY <2>1
    <3> QED
      BY <3>1, MinOfTwo
  <2>7. given[i] = IF i \in reach THEN Min({rem, more}) ELSE 0
    BY <2>3, <2>4, <2>5
  <2>8. given[i] \in 0 .. rem
    BY <2>1, <2>6, <2>7
  <2> QED
    BY <2>8 DEF rem
<1> HIDE DEF given
<1>3. Shares(given, makers)
  BY <1>1, <1>2 DEF Shares
<1> QED
  BY <1>3 DEF given

(* The first maker within reach gets something. *)
LEMMA AllotmentGives ==
  ASSUME NEW ids, NEW prices, NEW makers \in Seq(Entry(ids, prices)),
         NEW reach \in SUBSET DOMAIN makers, reach # {}, NEW quantity \in Nat \ {0}
  PROVE  \E i \in DOMAIN makers : Allotment(makers, reach, quantity)[i] > 0
<1>1. PICK i \in reach : \A j \in reach : i <= j
  <2>1. reach \in SUBSET Int /\ IsFiniteSet(reach)
    BY SeqPositions
  <2>2. Cardinality(reach) \in Nat /\ Cardinality(reach) # 0
    BY <2>1, FS_CardinalityType, FS_EmptySet
  <2>3. 1 \in 1 .. Cardinality(reach)
    BY <2>2
  <2>4. PICK i \in reach : PlaceOf(reach, i) = 1
    <3>1. \A k \in 1 .. Cardinality(reach) :
            \E i \in reach : /\ PlaceOf(reach, i) = k
                             /\ Chosen(makers, reach)[k] = makers[i]
      BY <2>1, ChosenPlaces
    <3> QED
      BY <3>1, <2>3, Zenon
  <2>5. IsFiniteSet({j \in reach : j <= i})
    BY <2>1, FS_Subset
  <2>6. PICK x : {j \in reach : j <= i} = {x}
    BY <2>4, <2>5, FS_Singleton DEF PlaceOf
  <2>7. i <= i
    BY <2>1
  <2>8. ASSUME NEW j \in reach, ~ (i <= j)
        PROVE  FALSE
    <3>1. j <= i /\ j # i
      BY <2>1, <2>8
    <3> QED
      BY <2>6, <2>7, <3>1
  <2> QED
    BY <2>8
<1>2. {j \in reach : j < i} = {}
  <2>1. \A j \in reach : j \in Int
    BY SeqPositions
  <2> QED
    BY <1>1, <2>1
<1>3. Wanted(makers, {}) = 0
  <2>1. Wanted(makers, {}) = Sum([j \in {} |-> makers[j].remaining_quantity], {})
    BY FS_EmptySet, WantedIs
  <2> QED
    BY <2>1, SumEmpty
<1> DEFINE rem == makers[i].remaining_quantity
<1>4. rem \in Nat /\ rem > 0
  BY EntryHasLeft
<1>5. Allotment(makers, reach, quantity)[i] = Min({rem, Max({0, quantity - 0})})
  BY <1>2, <1>3 DEF Allotment
<1> HIDE DEF rem
<1>6. Max({0, quantity - 0}) = quantity
  <2>1. quantity - 0 = quantity
    OBVIOUS
  <2>2. Max({0, quantity}) = IF 0 >= quantity THEN 0 ELSE quantity
    <3>1. quantity \in Int
      OBVIOUS
    <3> QED
      BY <3>1, MaxWithZero
  <2> QED
    BY <2>1, <2>2
<1>7. Min({rem, quantity}) > 0
  <2>1. rem \in Int /\ quantity \in Int
    BY <1>4
  <2>2. Min({rem, quantity}) = IF rem <= quantity THEN rem ELSE quantity
    BY <2>1, MinOfTwo
  <2> QED
    BY <1>4, <2>2
<1> QED
  BY <1>5, <1>6, <1>7

-----------------------------------------------------------------------------
(* Matching an order *)

(* A maker that has given g, and the fill that says so. *)
After(m, g) == [m EXCEPT !.remaining_quantity = @ - g]

FillOf(m, o, g) ==
  [maker_order_id |-> m.order_id, taker_order_id |-> o.order_id,
   aggressor_side |-> o.side, price |-> m.price, quantity |-> g]

FillRecords(ids, prices) ==
  [maker_order_id : ids, taker_order_id : ids, aggressor_side : Side,
   price : prices, quantity : Nat \ {0}]

(* An order that may rest has a price. *)
IsOrder(o, ids, prices) ==
  /\ o.order_id \in ids /\ o.side \in Side /\ o.order_type \in OrderType
  /\ o.order_type \in {LIMIT, FOK} => o.price \in prices
  /\ o.quantity \in Int /\ o.remaining_quantity = o.quantity

LEMMA AfterIs ==
  ASSUME NEW ids, NEW prices, NEW m \in Entry(ids, prices),
         NEW g \in 0 .. m.remaining_quantity
  PROVE  /\ After(m, g).order_id = m.order_id
         /\ After(m, g).remaining_quantity = m.remaining_quantity - g
         /\ m.remaining_quantity \in Nat
         /\ After(m, g).remaining_quantity \in Nat
         /\ After(m, g).remaining_quantity > 0 => After(m, g) \in Entry(ids, prices)
         /\ g = 0 => After(m, g) = m /\ After(m, g).remaining_quantity > 0
<1> DEFINE r == m.remaining_quantity
           a == [order_id |-> m.order_id, order_type |-> m.order_type,
                 price |-> m.price, remaining_quantity |-> r - g]
<1>1. /\ m = [order_id |-> m.order_id, order_type |-> m.order_type,
              price |-> m.price, remaining_quantity |-> r]
      /\ r \in Nat \ {0} /\ m.order_id \in ids /\ m.order_type \in OrderType
      /\ m.price \in prices
  BY DEF Entry
<1>2. After(m, g) = a
  BY <1>1 DEF After
<1>3. g \in Nat /\ g <= r /\ r - g \in Nat
  BY <1>1
<1>4. a.order_id = m.order_id /\ a.remaining_quantity = r - g
  OBVIOUS
<1>5. r - g > 0 => a \in Entry(ids, prices)
  BY <1>1, <1>3 DEF Entry
<1>6. g = 0 => r - g = r
  BY <1>1
<1>7. g = 0 => a = m
  BY <1>1, <1>6
<1> HIDE DEF a
<1> QED
  BY <1>1, <1>2, <1>3, <1>4, <1>5, <1>6, <1>7

LEMMA FillIs ==
  ASSUME NEW ids, NEW prices, NEW m \in Entry(ids, prices), NEW o, IsOrder(o, ids, prices),
         NEW g \in Nat \ {0}
  PROVE  FillOf(m, o, g) \in FillRecords(ids, prices)
BY DEF FillOf, FillRecords, IsOrder, Entry

(* The parts of what matching makes. *)
Parts(ids, prices, b, o, given, after, fill, left) ==
  LET makers == b[Opposite(o.side)]
      new    == Settle(b, o, given)
  IN  /\ makers \in Seq(Entry(ids, prices)) /\ b[o.side] \in Seq(Entry(ids, prices))
      /\ Opposite(o.side) \in Side /\ o.side \in Side /\ Opposite(o.side) # o.side
      /\ \A i \in DOMAIN makers : /\ after[i] = After(makers[i], given[i])
                                  /\ fill[i] = FillOf(makers[i], o, given[i])
      /\ left \in Int
      /\ left = o.quantity - Sum(given, DOMAIN makers)
      /\ new.fills = Chosen(fill, {i \in DOMAIN makers : given[i] > 0})
      /\ new.book = [s \in Side |-> new.book[s]]
      /\ new.book[Opposite(o.side)]
           = Chosen(after, {i \in DOMAIN makers : after[i].remaining_quantity > 0})
      /\ new.book[o.side] = IF o.order_type \in {LIMIT, FOK} /\ left > 0
                            THEN Queued(b[o.side], o, left) ELSE b[o.side]

LEMMA SettleParts ==
  ASSUME NEW ids, NEW prices, NEW b \in Book(ids, prices),
         NEW o, IsOrder(o, ids, prices), NEW given,
         Shares(given, b[Opposite(o.side)])
  PROVE  \E after, fill, left : Parts(ids, prices, b, o, given, after, fill, left)
<1> DEFINE makers == b[Opposite(o.side)]
           after  == [i \in DOMAIN makers |->
                        [makers[i] EXCEPT !.remaining_quantity = @ - given[i]]]
           fill   == [i \in DOMAIN makers |->
                        [maker_order_id |-> makers[i].order_id, taker_order_id |-> o.order_id,
                         aggressor_side |-> o.side, price |-> makers[i].price,
                         quantity |-> given[i]]]
           left   == o.remaining_quantity - SumFunctionOnSet(given, DOMAIN makers)
           gone   == Chosen(fill, {i \in DOMAIN makers : given[i] > 0})
           kept   == Chosen(after, {i \in DOMAIN makers : after[i].remaining_quantity > 0})
           new    == [s \in Side |->
                        IF s = Opposite(o.side) THEN kept
                        ELSE IF o.order_type \in {LIMIT, FOK} /\ left > 0
                        THEN Queued(b[s], o, left)
                        ELSE b[s]]
<1>1. Settle(b, o, given) = [fills |-> gone, book |-> new]
  BY DEF Settle
<1>2. o.side \in Side /\ Opposite(o.side) \in Side /\ Opposite(o.side) # o.side
  BY OppositeIsSide DEF IsOrder
<1>3. makers \in Seq(Entry(ids, prices)) /\ b[o.side] \in Seq(Entry(ids, prices))
  BY <1>2 DEF Book
<1>4. \A i \in DOMAIN makers : after[i] = After(makers[i], given[i])
  BY DEF After
<1>5. \A i \in DOMAIN makers : fill[i] = FillOf(makers[i], o, given[i])
  BY DEF FillOf
<1>6. left = o.quantity - Sum(given, DOMAIN makers) /\ left \in Int
  <2>1. IsFiniteSet(DOMAIN makers)
    BY <1>3, SeqPositions
  <2>2. \A i \in DOMAIN makers : given[i] \in Int
    BY DEF Shares
  <2>3. Sum(given, DOMAIN makers) \in Int
    <3> HIDE DEF makers
    <3> QED BY <2>1, <2>2, SumType
  <2>4. left = o.quantity - Sum(given, DOMAIN makers)
    BY DEF Sum, IsOrder
  <2> HIDE DEF left, makers
  <2> QED
    BY <2>3, <2>4 DEF IsOrder
<1> HIDE DEF after, fill, left
<1>7. Settle(b, o, given).fills = gone /\ Settle(b, o, given).book = new
  <2> HIDE DEF gone, new
  <2> QED BY <1>1
<1>8. new[Opposite(o.side)] = kept
  <2> HIDE DEF kept
  <2> QED BY <1>2
<1>9. new[o.side] = IF o.order_type \in {LIMIT, FOK} /\ left > 0
                    THEN Queued(b[o.side], o, left) ELSE b[o.side]
  BY <1>2
<1>10. new = [s \in Side |-> new[s]]
  <2> HIDE DEF kept
  <2> QED OBVIOUS
<1> HIDE DEF new, makers, gone, kept
<1>11. Parts(ids, prices, b, o, given, after, fill, left)
  BY <1>2, <1>3, <1>4, <1>5, <1>6, <1>7, <1>8, <1>9, <1>10
     DEF Parts, makers, gone, kept
<1> QED
  BY <1>11

(* Matching makes a book of a book, and fills of shares. *)
LEMMA SettleType ==
  ASSUME NEW ids, NEW prices, NEW b \in Book(ids, prices),
         NEW o, IsOrder(o, ids, prices), NEW given,
         Shares(given, b[Opposite(o.side)])
  PROVE  /\ Settle(b, o, given).book \in Book(ids, prices)
         /\ Settle(b, o, given).fills \in Seq(FillRecords(ids, prices))
<1> DEFINE E == Entry(ids, prices)
           side == o.side
           other == Opposite(o.side)
           new == Settle(b, o, given)
<1>0. PICK after, fill, left : Parts(ids, prices, b, o, given, after, fill, left)
  BY SettleParts
<1> DEFINE makers == b[other]
<1>1. /\ makers \in Seq(E) /\ b[side] \in Seq(E)
      /\ other \in Side /\ other # side
      /\ \A i \in DOMAIN makers : /\ after[i] = After(makers[i], given[i])
                                  /\ fill[i] = FillOf(makers[i], o, given[i])
      /\ left \in Int
      /\ new.fills = Chosen(fill, {i \in DOMAIN makers : given[i] > 0})
      /\ new.book = [s \in Side |-> new.book[s]]
      /\ new.book[other]
           = Chosen(after, {i \in DOMAIN makers : after[i].remaining_quantity > 0})
      /\ new.book[side] = IF o.order_type \in {LIMIT, FOK} /\ left > 0
                          THEN Queued(b[side], o, left) ELSE b[side]
  BY <1>0 DEF Parts
<1>2. \A at \in SUBSET DOMAIN makers : at \in SUBSET Int /\ IsFiniteSet(at)
  BY <1>1, SeqPositions
<1>3. \A i \in DOMAIN makers : /\ makers[i] \in E
                               /\ given[i] \in 0 .. makers[i].remaining_quantity
                               /\ given[i] \in Nat
  <2>1. ASSUME NEW i \in DOMAIN makers
        PROVE  /\ makers[i] \in E
               /\ given[i] \in 0 .. makers[i].remaining_quantity
               /\ given[i] \in Nat
    <3>1. makers[i] \in E /\ makers[i].remaining_quantity \in Nat
      BY <1>1, EntryHasLeft
    <3>2. given[i] \in 0 .. makers[i].remaining_quantity
      BY <1>1 DEF Shares
    <3> QED
      BY <3>1, <3>2
  <2> QED
    BY <2>1
<1>4. new.fills \in Seq(FillRecords(ids, prices))
  <2> DEFINE at == {i \in DOMAIN makers : given[i] > 0}
  <2>1. \A i \in at : fill[i] \in FillRecords(ids, prices)
    BY <1>1, <1>3, FillIs
  <2>2. at \in SUBSET Int /\ IsFiniteSet(at)
    BY <1>2
  <2> HIDE DEF at
  <2>3. Chosen(fill, at) \in Seq(FillRecords(ids, prices))
    BY <2>1, <2>2, ChosenType
  <2> QED
    BY <1>1, <2>3 DEF at
<1>5. new.book[other] \in Seq(E)
  <2> DEFINE at == {i \in DOMAIN makers : after[i].remaining_quantity > 0}
  <2>1. \A i \in at : after[i] \in E
    BY <1>1, <1>3, AfterIs
  <2>2. at \in SUBSET Int /\ IsFiniteSet(at)
    BY <1>2
  <2> HIDE DEF at, E
  <2>3. Chosen(after, at) \in Seq(E)
    BY <2>1, <2>2, ChosenType
  <2> QED
    BY <1>1, <2>3 DEF at
<1>6. new.book[side] \in Seq(E)
  <2>1. CASE o.order_type \in {LIMIT, FOK} /\ left > 0
    <3>1. NewEntry(o, left) \in E
      BY <1>1, <2>1 DEF NewEntry, IsOrder, Entry
    <3>2. Queued(b[side], o, left) \in Seq(E)
      <4> HIDE DEF E
      <4> QED BY <1>1, <3>1, QueuedPlaces
    <3> QED
      BY <1>1, <2>1, <3>2
  <2>2. CASE ~ (o.order_type \in {LIMIT, FOK} /\ left > 0)
    BY <1>1, <2>2
  <2> QED
    BY <2>1, <2>2
<1>7. \A s \in Side : s = other \/ s = side
  BY DEF IsOrder, Opposite, Side
<1>8. \A s \in Side : new.book[s] \in Seq(E)
  <2> HIDE DEF E, new
  <2> QED BY <1>5, <1>6, <1>7
<1>9. new.book \in Book(ids, prices)
  <2> HIDE DEF new
  <2> QED BY <1>1, <1>8 DEF Book
<1> QED
  BY <1>4, <1>9

-----------------------------------------------------------------------------
(* A submission *)

(* Submitting o to b finds the book rest, where a sweep gives the makers     *)
(* given, and leaves rest or what the sweep makes of it.                     *)
Sweeps(b, o, rest, given) ==
  /\ rest = Without(b, o.order_id)
  /\ given = Allotment(rest[Opposite(o.side)], Reachable(rest, o), o.remaining_quantity)
  /\ Reachable(rest, o) \in SUBSET DOMAIN rest[Opposite(o.side)]
  /\ Shares(given, rest[Opposite(o.side)])
  /\ Submitted(b, o) = IF Passes(rest, o) THEN Settle(rest, o, given)
                       ELSE [fills |-> <<>>, book |-> rest]

(* The result is the book without the order's identifier, or that book after *)
(* matching.                                                                 *)
LEMMA SubmittedIs ==
  ASSUME NEW ids, NEW prices, NEW b \in Book(ids, prices),
         NEW o, IsOrder(o, ids, prices)
  PROVE  \E rest, given : rest \in Book(ids, prices) /\ Sweeps(b, o, rest, given)
<1> DEFINE rest  == Without(b, o.order_id)
           makers == rest[Opposite(o.side)]
           given == Allotment(makers, Reachable(rest, o), o.remaining_quantity)
<1>1. rest \in Book(ids, prices)
  BY WithoutType
<1>2. Submitted(b, o) = IF Passes(rest, o) THEN Outcome(rest, o)
                        ELSE [fills |-> <<>>, book |-> rest]
  BY DEF Submitted
<1> HIDE DEF rest
<1>3. Outcome(rest, o) = Settle(rest, o, given)
  BY DEF Outcome
<1>4. Reachable(rest, o) \in SUBSET DOMAIN makers
  BY DEF Reachable, Countable
<1>5. makers \in Seq(Entry(ids, prices))
  BY <1>1, OppositeIsSide DEF Book, IsOrder
<1>6. o.remaining_quantity \in Int
  BY DEF IsOrder
<1> HIDE DEF makers
<1>7. Shares(given, makers)
  BY <1>4, <1>5, <1>6, AllotmentShares
<1> QED
  <2>1. Sweeps(b, o, rest, given)
    BY <1>2, <1>3, <1>4, <1>7 DEF Sweeps, rest, makers
  <2> QED
    BY <1>1, <2>1

LEMMA SubmittedType ==
  ASSUME NEW ids, NEW prices, NEW b \in Book(ids, prices),
         NEW o, IsOrder(o, ids, prices)
  PROVE  /\ Submitted(b, o).book \in Book(ids, prices)
         /\ Submitted(b, o).fills \in Seq(FillRecords(ids, prices))
<1>0. PICK rest, given : rest \in Book(ids, prices) /\ Sweeps(b, o, rest, given)
  BY SubmittedIs
<1>1. /\ rest \in Book(ids, prices)
      /\ Shares(given, rest[Opposite(o.side)])
      /\ Submitted(b, o) = IF Passes(rest, o) THEN Settle(rest, o, given)
                           ELSE [fills |-> <<>>, book |-> rest]
  BY <1>0 DEF Sweeps
<1>2. CASE Passes(rest, o)
  BY <1>1, <1>2, SettleType
<1>3. CASE ~ Passes(rest, o)
  <2>1. Submitted(b, o).book = rest /\ Submitted(b, o).fills = <<>>
    BY <1>1, <1>3
  <2>2. <<>> \in Seq(FillRecords(ids, prices))
    OBVIOUS
  <2> QED
    BY <1>1, <2>1, <2>2
<1> QED
  BY <1>2, <1>3

(* What is chosen depends on the members at the chosen positions only. *)
LEMMA ChosenSame ==
  ASSUME NEW at \in SUBSET Int, IsFiniteSet(at), NEW q, NEW p, \A i \in at : q[i] = p[i]
  PROVE  Chosen(q, at) = Chosen(p, at)
<1>1. /\ Chosen(q, at) = [k \in 1 .. Cardinality(at) |-> Chosen(q, at)[k]]
      /\ Chosen(p, at) = [k \in 1 .. Cardinality(at) |-> Chosen(p, at)[k]]
  BY ChosenPlaces
<1>2. \A k \in 1 .. Cardinality(at) :
        \E i \in at : /\ PlaceOf(at, i) = k
                      /\ Chosen(q, at)[k] = q[i]
  BY ChosenPlaces
<1>3. \A i \in at : Chosen(p, at)[PlaceOf(at, i)] = p[i]
  BY ChosenPlaces
<1>4. ASSUME NEW k \in 1 .. Cardinality(at)
      PROVE  Chosen(q, at)[k] = Chosen(p, at)[k]
  <2>1. PICK i \in at : /\ PlaceOf(at, i) = k
                        /\ Chosen(q, at)[k] = q[i]
    BY <1>2, Zenon
  <2>2. Chosen(p, at)[k] = p[i]
    BY <2>1, <1>3
  <2> QED
    BY <2>1, <2>2
<1>5. [k \in 1 .. Cardinality(at) |-> Chosen(q, at)[k]]
        = [k \in 1 .. Cardinality(at) |-> Chosen(p, at)[k]]
  BY <1>4
<1> QED
  BY <1>1, <1>5, Zenon

(* Whoever stands in the queue stood there before or is the newcomer. *)
LEMMA QueuedMember ==
  ASSUME NEW T, NEW q \in Seq(T), NEW o, NEW qty, NewEntry(o, qty) \in T
  PROVE  \A i \in DOMAIN Queued(q, o, qty) :
           \/ Queued(q, o, qty)[i] = NewEntry(o, qty)
           \/ \E j \in DOMAIN q : Queued(q, o, qty)[i] = q[j]
<1>1. /\ Queued(q, o, qty) \in Seq(T)
      /\ Len(Queued(q, o, qty)) = Len(q) + 1
      /\ \E c \in 0 .. Len(q) : LetIn(Queued(q, o, qty), q, c, NewEntry(o, qty))
  BY QueuedPlaces
<1> SUFFICES ASSUME NEW i \in DOMAIN Queued(q, o, qty)
             PROVE  \/ Queued(q, o, qty)[i] = NewEntry(o, qty)
                    \/ \E j \in DOMAIN q : Queued(q, o, qty)[i] = q[j]
  OBVIOUS
<1>3. PICK c \in 0 .. Len(q) : \A k \in 1 .. Len(q) + 1 :
        Queued(q, o, qty)[k] = IF k <= c THEN q[k]
                               ELSE IF k = c + 1 THEN NewEntry(o, qty) ELSE q[k - 1]
  BY <1>1 DEF LetIn
<1> DEFINE n == Len(q)
<1>2. n \in Nat /\ DOMAIN q = 1 .. n /\ i \in 1 .. n + 1
  BY <1>1
<1>4. CASE i <= c
  BY <1>2, <1>3, <1>4
<1>5. CASE i = c + 1
  BY <1>2, <1>3, <1>5
<1>6. CASE i > c + 1
  BY <1>2, <1>3, <1>6
<1> QED
  BY <1>2, <1>4, <1>5, <1>6

(* Matching that makes no fill leaves every maker as it was. *)
LEMMA SettleNothing ==
  ASSUME NEW ids, NEW prices, NEW b \in Book(ids, prices),
         NEW o, IsOrder(o, ids, prices), NEW given,
         Shares(given, b[Opposite(o.side)]),
         Settle(b, o, given).fills = <<>>
  PROVE  /\ \A i \in DOMAIN b[Opposite(o.side)] : given[i] = 0
         /\ Settle(b, o, given).book[Opposite(o.side)] = b[Opposite(o.side)]
<1> DEFINE E == Entry(ids, prices)
           makers == b[Opposite(o.side)]
           new == Settle(b, o, given)
<1>1. PICK after, fill, left : Parts(ids, prices, b, o, given, after, fill, left)
  BY SettleParts
<1>2. /\ makers \in Seq(E)
      /\ \A i \in DOMAIN makers : after[i] = After(makers[i], given[i])
      /\ new.fills = Chosen(fill, {i \in DOMAIN makers : given[i] > 0})
      /\ new.book[Opposite(o.side)]
           = Chosen(after, {i \in DOMAIN makers : after[i].remaining_quantity > 0})
  BY <1>1 DEF Parts
<1>3. new.fills = <<>>
  OBVIOUS
<1> HIDE DEF new, makers
<1>4. \A i \in DOMAIN makers : given[i] \in 0 .. makers[i].remaining_quantity
  BY DEF Shares, makers
<1>5. {i \in DOMAIN makers : given[i] > 0} = {}
  <2> DEFINE at == {i \in DOMAIN makers : given[i] > 0}
  <2>1. at \in SUBSET Int /\ IsFiniteSet(at)
    BY <1>2, SeqPositions
  <2>2. /\ Cardinality(at) \in Nat
        /\ Chosen(fill, at) = [k \in 1 .. Cardinality(at) |-> Chosen(fill, at)[k]]
    <3> HIDE DEF at
    <3> QED BY <2>1, ChosenPlaces
  <2>3. Chosen(fill, at) = <<>>
    BY <1>2, <1>3
  <2> HIDE DEF at
  <2>4. 1 .. Cardinality(at) = {}
    BY <2>2, <2>3
  <2>5. Cardinality(at) = 0
    BY <2>2, <2>4
  <2>6. at = {}
    BY <2>1, <2>5, FS_EmptySet
  <2> QED
    BY <2>6 DEF at
<1>6. ASSUME NEW i \in DOMAIN makers
      PROVE  given[i] = 0 /\ makers[i] \in E
  <2>1. makers[i].remaining_quantity \in Nat /\ makers[i] \in E
    BY <1>2, EntryHasLeft
  <2>2. given[i] \in 0 .. makers[i].remaining_quantity /\ ~ (given[i] > 0)
    BY <1>4, <1>5
  <2> QED
    BY <2>1, <2>2
<1>7. ASSUME NEW i \in DOMAIN makers
      PROVE  after[i] = makers[i] /\ after[i].remaining_quantity > 0
  <2>1. given[i] \in 0 .. makers[i].remaining_quantity /\ makers[i] \in E /\ given[i] = 0
    BY <1>4, <1>6
  <2> QED
    BY <2>1, <1>2, AfterIs
<1>8. {i \in DOMAIN makers : after[i].remaining_quantity > 0} = DOMAIN makers
  BY <1>7
<1>9. Chosen(after, DOMAIN makers) = Chosen(makers, DOMAIN makers)
  <2>1. DOMAIN makers \in SUBSET Int /\ IsFiniteSet(DOMAIN makers)
    BY <1>2, SeqPositions
  <2>2. \A i \in DOMAIN makers : after[i] = makers[i]
    BY <1>7
  <2> QED
    BY <2>1, <2>2, ChosenSame
<1>10. Chosen(makers, DOMAIN makers) = makers
  BY <1>2, ChosenAll
<1> QED
  BY <1>2, <1>6, <1>8, <1>9, <1>10 DEF new, makers

(* A submission that is no LIMIT order and makes no fill takes from the book *)
(* the order it replaces, and adds one only if it is a Binance FOK order.    *)
LEMMA SilentSubmission ==
  ASSUME NEW ids, NEW prices, NEW b \in Book(ids, prices),
         NEW o, IsOrder(o, ids, prices), o.order_type # LIMIT,
         Submitted(b, o).fills = <<>>
  PROVE  /\ Without(Submitted(b, o).book, o.order_id) = Without(b, o.order_id)
         /\ \A s \in Side : \A i \in DOMAIN Submitted(b, o).book[s] :
              Submitted(b, o).book[s][i].order_id = o.order_id =>
                /\ Submitted(b, o).book[s][i].order_type = FOK
                /\ o.order_id \in BinanceIds
<1> DEFINE rest  == Without(b, o.order_id)
           side  == o.side
           other == Opposite(o.side)
           reach == Reachable(rest, o)
           given == Allotment(rest[other], reach, o.remaining_quantity)
           new   == Submitted(b, o).book
           E     == Entry(ids, prices)
<1>1. /\ rest \in Book(ids, prices)
      /\ reach \in SUBSET DOMAIN rest[other]
      /\ Shares(given, rest[other])
      /\ Submitted(b, o) = IF Passes(rest, o) THEN Settle(rest, o, given)
                           ELSE [fills |-> <<>>, book |-> rest]
  <2>1. PICK old, shares : old \in Book(ids, prices) /\ Sweeps(b, o, old, shares)
    BY SubmittedIs
  <2>2. old = rest
    BY <2>1 DEF Sweeps
  <2>3. shares = given
    BY <2>1, <2>2 DEF Sweeps
  <2> HIDE DEF rest, given
  <2> QED
    BY <2>1, <2>2, <2>3 DEF Sweeps
<1>2. \A s \in Side : \A i \in DOMAIN rest[s] : rest[s][i].order_id # o.order_id
  BY WithoutType
<1>3. side \in Side /\ other \in Side /\ other # side /\ \A s \in Side : s \in {side, other}
  BY OppositeIsSide DEF IsOrder, Opposite, Side
<1>4. rest[side] \in Seq(E) /\ rest[other] \in Seq(E)
  BY <1>1, <1>3 DEF Book
<1>5. ASSUME new = rest
      PROVE  /\ Without(new, o.order_id) = rest
             /\ \A s \in Side : \A i \in DOMAIN new[s] : new[s][i].order_id # o.order_id
  <2> HIDE DEF rest, new
  <2> QED
    BY <1>1, <1>2, <1>5, WithoutAbsent
<1>6. CASE ~ Passes(rest, o)
  <2>1. new = rest
    <3> HIDE DEF rest
    <3> QED BY <1>1, <1>6
  <2> QED
    BY <1>5, <2>1
<1>7. CASE Passes(rest, o)
  <2>1. Submitted(b, o) = Settle(rest, o, given)
    BY <1>1, <1>7
  <2> HIDE DEF rest, given, reach
  <2>2. Settle(rest, o, given).fills = <<>> /\ new = Settle(rest, o, given).book
    BY <2>1
  <2>3. /\ \A i \in DOMAIN rest[other] : given[i] = 0
        /\ new[other] = rest[other]
    BY <1>1, <2>2, SettleNothing
  <2>4. PICK after, fill, left : Parts(ids, prices, rest, o, given, after, fill, left)
    BY <1>1, SettleParts
  <2>5. /\ left = o.quantity - Sum(given, DOMAIN rest[other])
        /\ left \in Int
        /\ new = [s \in Side |-> new[s]]
        /\ new[side] = IF o.order_type \in {LIMIT, FOK} /\ left > 0
                       THEN Queued(rest[side], o, left) ELSE rest[side]
    BY <2>2, <2>4 DEF Parts
  <2>6. CASE ~ (o.order_type \in {LIMIT, FOK} /\ left > 0)
    <3>1. new[side] = rest[side]
      BY <2>5, <2>6
    <3>2. rest = [s \in Side |-> rest[s]]
      BY <1>1 DEF Book
    <3>3. new = rest
      <4> HIDE DEF new, side, other
      <4>1. \A s \in Side : new[s] = rest[s]
        BY <3>1, <2>3, <1>3
      <4> QED
        BY <3>2, <2>5, <4>1
    <3> QED
      BY <1>5, <3>3 DEF rest
  <2>7. CASE o.order_type \in {LIMIT, FOK} /\ left > 0
    <3>1. new[side] = Queued(rest[side], o, left) /\ o.order_type = FOK /\ left > 0
      BY <2>5, <2>7
    <3>2. NewEntry(o, left) \in E
      BY <2>5, <2>7 DEF NewEntry, IsOrder, Entry
    <3>3. Without(new, o.order_id)[side] = rest[side]
      <4>1. Without(new, o.order_id)[side]
              = Chosen(new[side], {i \in DOMAIN new[side] : new[side][i].order_id # o.order_id})
        BY <1>3 DEF Without
      <4> HIDE DEF new, side, E
      <4> QED
        BY <4>1, <3>1, <3>2, <1>2, <1>3, <1>4, WithoutNewcomer
    <3>4. Without(new, o.order_id)[other] = rest[other]
      <4>1. Without(new, o.order_id)[other]
              = Chosen(new[other], {i \in DOMAIN new[other] : new[other][i].order_id # o.order_id})
        BY <1>3 DEF Without
      <4>2. {i \in DOMAIN rest[other] : rest[other][i].order_id # o.order_id}
              = DOMAIN rest[other]
        BY <1>2, <1>3
      <4> HIDE DEF new, other, E
      <4> QED
        BY <4>1, <4>2, <2>3, <1>4, ChosenAll
    <3>5. Without(new, o.order_id) = rest
      <4>1. Without(new, o.order_id) = [s \in Side |-> Without(new, o.order_id)[s]]
        BY DEF Without
      <4>2. rest = [s \in Side |-> rest[s]]
        BY <1>1 DEF Book
      <4> HIDE DEF new, side, other
      <4>3. \A s \in Side : Without(new, o.order_id)[s] = rest[s]
        BY <3>3, <3>4, <1>3
      <4> QED
        BY <4>1, <4>2, <4>3
    <3>6. o.order_id \in BinanceIds
      <4> SUFFICES ASSUME o.order_id \notin BinanceIds PROVE FALSE
        OBVIOUS
      <4>1. reach = Countable(rest, o) /\ Countable(rest, o) # {}
        <5>1. reach = Countable(rest, o)
          BY DEF reach, Reachable, Barred, SelfTrade
        <5> QED
          BY <5>1, <1>7, <3>1 DEF Passes
      <4>2. Sum(given, DOMAIN rest[other]) = 0
        <5> DEFINE all == DOMAIN rest[other]
        <5>1. IsFiniteSet(all)
          BY <1>4, SeqPositions
        <5>2. \A i \in all : given[i] = 0 /\ given[i] \in Int
          BY <2>3
        <5>3. {} \in SUBSET all /\ \A i \in all \ {} : given[i] = 0
          BY <5>2
        <5> HIDE DEF all
        <5>4. Sum(given, all) = Sum(given, {})
          BY <5>1, <5>2, <5>3, SumSubset
        <5> QED
          BY <5>4, SumEmpty DEF all
      <4>3. o.quantity = left /\ o.quantity \in Nat \ {0} /\ o.remaining_quantity = o.quantity
        BY <4>2, <2>5, <3>1 DEF IsOrder
      <4>4. \E i \in DOMAIN rest[other] :
              Allotment(rest[other], reach, o.remaining_quantity)[i] > 0
        <5> HIDE DEF other, E
        <5>1. reach \in SUBSET DOMAIN rest[other] /\ reach # {}
          BY <1>1, <4>1
        <5> QED
          BY <5>1, <4>3, <1>4, AllotmentGives DEF E
      <4> QED
        BY <4>4, <2>3 DEF given
    <3>7. ASSUME NEW s \in Side, NEW i \in DOMAIN new[s], new[s][i].order_id = o.order_id
          PROVE  new[s][i].order_type = FOK
      <4>1. CASE s = other
        BY <4>1, <3>7, <2>3, <1>2, <1>3
      <4>2. CASE s = side
        <5>1. i \in DOMAIN Queued(rest[side], o, left)
          BY <3>1, <4>2
        <5>2. \/ new[s][i] = NewEntry(o, left)
              \/ \E j \in DOMAIN rest[side] : new[s][i] = rest[side][j]
          <6> HIDE DEF E, side
          <6> QED
            BY <3>1, <3>2, <4>2, <5>1, <1>4, QueuedMember
        <5> QED
          BY <5>2, <3>1, <3>7, <1>2, <1>3 DEF NewEntry
      <4> QED
        BY <1>3, <4>1, <4>2
    <3> QED
      BY <3>5, <3>6, <3>7 DEF rest
  <2> QED
    BY <2>6, <2>7
<1> QED
  BY <1>6, <1>7

-----------------------------------------------------------------------------
(* Accounts: what an order has left, and what fills say it gave              *)

(* f carries S onto T, one to one, and the values of w to those of v. *)
Carries(f, S, T, w, v) ==
  /\ \A x \in S : f[x] \in T /\ w[x] \in Int /\ v[f[x]] = w[x]
  /\ \A x, y \in S : f[x] = f[y] => x = y
  /\ \A y \in T : \E x \in S : f[x] = y

LEMMA SumCarried ==
  ASSUME NEW w, NEW v, NEW S, IsFiniteSet(S), NEW T, NEW f, Carries(f, S, T, w, v)
  PROVE  Sum(v, T) = Sum(w, S)
BY SumRenamed DEF Carries

(* Positions K of what is chosen are those of the members A. *)
Placed(at, A, K, w, v) ==
  /\ A \subseteq at /\ K \subseteq 1 .. Cardinality(at)
  /\ \A i \in at : PlaceOf(at, i) \in K <=> i \in A
  /\ \A i \in A : w[i] \in Int /\ v[PlaceOf(at, i)] = w[i]

(* A sum over chosen members is a sum over the positions they came from. *)
LEMMA ChosenSum ==
  ASSUME NEW at \in SUBSET Int, IsFiniteSet(at),
         NEW A, NEW w, NEW K, NEW v, Placed(at, A, K, w, v)
  PROVE  Sum(v, K) = Sum(w, A)
<1>0. /\ A \subseteq at /\ K \subseteq 1 .. Cardinality(at)
      /\ \A i \in at : PlaceOf(at, i) \in K <=> i \in A
      /\ \A i \in A : w[i] \in Int /\ v[PlaceOf(at, i)] = w[i]
  BY DEF Placed
<1>1. \A q : \A k \in 1 .. Cardinality(at) :
        \E i \in at : /\ PlaceOf(at, i) = k
                      /\ Chosen(q, at)[k] = q[i]
  BY ChosenPlaces
<1>2. PICK f : f = [i \in A |-> PlaceOf(at, i)]
  OBVIOUS
<1>3. \A i \in A : f[i] = PlaceOf(at, i)
  BY <1>2
<1>4. ASSUME NEW k \in K
      PROVE  \E i \in A : f[i] = k
  <2>1. k \in 1 .. Cardinality(at)
    BY <1>0
  <2>2. PICK i \in at : PlaceOf(at, i) = k
    BY <1>1, <2>1, Zenon
  <2>3. i \in A
    BY <1>0, <2>2
  <2> QED
    BY <1>3, <2>2, <2>3
<1>5. \A i \in A : f[i] \in K /\ w[i] \in Int /\ v[f[i]] = w[i]
  BY <1>0, <1>3
<1>6. \A i, j \in at : PlaceOf(at, i) = PlaceOf(at, j) => i = j
  BY ChosenPlaces
<1>7. ASSUME NEW i \in A, NEW j \in A, f[i] = f[j]
      PROVE  i = j
  <2>1. PlaceOf(at, i) = PlaceOf(at, j)
    BY <1>3, <1>7
  <2>2. i \in at /\ j \in at
    BY <1>0
  <2> QED
    BY <1>6, <2>1, <2>2, Zenon
<1>8. \A i, j \in A : f[i] = f[j] => i = j
  BY <1>7
<1>9. \A k \in K : \E i \in A : f[i] = k
  BY <1>4
<1>10. IsFiniteSet(A)
  BY <1>0, FS_Subset
<1>11. Carries(f, A, K, w, v)
  BY ONLY <1>5, <1>8, <1>9 DEF Carries
<1> QED
  BY <1>10, <1>11, SumCarried

LEMMA LeftInChosen ==
  ASSUME NEW at \in SUBSET Int, IsFiniteSet(at), NEW q, NEW id,
         \A i \in at : q[i].remaining_quantity \in Int
  PROVE  LeftIn(Chosen(q, at), id) = Wanted(q, {i \in at : q[i].order_id = id})
<1>1. PICK n, c : n = Cardinality(at) /\ c = Chosen(q, at)
  OBVIOUS
<1>2. /\ n \in Nat
      /\ DOMAIN c = 1 .. n
      /\ \A i \in at : /\ PlaceOf(at, i) \in 1 .. n
                       /\ c[PlaceOf(at, i)] = q[i]
  BY ONLY IsFiniteSet(at), <1>1, ChosenPlaces
<1>3. PICK K, A : /\ K = {k \in 1 .. n : c[k].order_id = id}
                  /\ A = {i \in at : q[i].order_id = id}
  OBVIOUS
<1>4. PICK v, w : /\ v = [k \in K |-> c[k].remaining_quantity]
                  /\ w = [i \in A |-> q[i].remaining_quantity]
  OBVIOUS
<1>5. \A i \in at : PlaceOf(at, i) \in K <=> i \in A
  BY <1>2, <1>3
<1>6. \A i \in A : /\ w[i] = q[i].remaining_quantity /\ w[i] \in Int
                   /\ v[PlaceOf(at, i)] = w[i]
  BY <1>2, <1>3, <1>4, <1>5
<1>7. \A k \in K : v[k] = c[k].remaining_quantity
  BY <1>4
<1>8. IsFiniteSet(K) /\ IsFiniteSet(A)
  <2>1. \A m \in Nat : IsFiniteSet(1 .. m)
    BY FS_Interval
  <2>2. IsFiniteSet(1 .. n) /\ K \subseteq 1 .. n /\ A \subseteq at
    BY <1>2, <1>3, <2>1
  <2> QED
    BY <2>2, FS_Subset
<1>9. LeftIn(c, id) = Wanted(c, K)
  BY <1>2, <1>3 DEF LeftIn
<1>10. Placed(at, A, K, w, v)
  BY <1>1, <1>3, <1>5, <1>6 DEF Placed
<1>11. Wanted(c, K) = Sum(v, K) /\ Wanted(q, A) = Sum(w, A)
  BY <1>6, <1>7, <1>8, WantedIs
<1>12. Sum(v, K) = Sum(w, A)
  BY <1>10, ChosenSum
<1> QED
  BY <1>1, <1>3, <1>9, <1>11, <1>12

LEMMA TakenOfChosen ==
  ASSUME NEW at \in SUBSET Int, IsFiniteSet(at), NEW q, NEW id, NEW w,
         \A i \in at : q[i].quantity \in Int /\ w[i] = q[i].quantity
  PROVE  Taken(Chosen(q, at), id) = Sum(w, {i \in at : q[i].maker_order_id = id})
<1>1. PICK n, c : n = Cardinality(at) /\ c = Chosen(q, at)
  OBVIOUS
<1>2. /\ n \in Nat
      /\ DOMAIN c = 1 .. n
      /\ \A i \in at : /\ PlaceOf(at, i) \in 1 .. n
                       /\ c[PlaceOf(at, i)] = q[i]
  BY ONLY IsFiniteSet(at), <1>1, ChosenPlaces
<1>3. PICK K, A : /\ K = {k \in 1 .. n : c[k].maker_order_id = id}
                  /\ A = {i \in at : q[i].maker_order_id = id}
  OBVIOUS
<1>4. PICK v : v = [k \in K |-> c[k].quantity]
  OBVIOUS
<1>5. \A i \in at : PlaceOf(at, i) \in K <=> i \in A
  BY <1>2, <1>3
<1>6. \A i \in A : w[i] \in Int /\ v[PlaceOf(at, i)] = w[i]
  BY <1>2, <1>3, <1>4, <1>5
<1>7. Taken(c, id) = Sum(v, K)
  BY <1>2, <1>3, <1>4 DEF Taken, SumFunction, Sum
<1>8. Placed(at, A, K, w, v)
  BY <1>1, <1>3, <1>5, <1>6 DEF Placed
<1>9. Sum(v, K) = Sum(w, A)
  BY <1>8, ChosenSum
<1> QED
  BY <1>1, <1>3, <1>7, <1>9

LEMMA LeftInType ==
  ASSUME NEW ids, NEW prices, NEW q \in Seq(Entry(ids, prices)), NEW id
  PROVE  LeftIn(q, id) \in Nat
<1> DEFINE at == {i \in DOMAIN q : q[i].order_id = id}
<1>1. IsFiniteSet(at)
  BY SeqPositions
<1>2. \A i \in at : q[i].remaining_quantity \in Nat
  BY EntryHasLeft
<1> HIDE DEF at
<1>3. Wanted(q, at) \in Nat
  BY <1>1, <1>2, WantedType
<1> QED
  BY <1>3 DEF LeftIn, at

(* Other orders keep what they have when an order leaves. *)
LEMMA LeftInWithout ==
  ASSUME NEW ids, NEW prices, NEW b \in Book(ids, prices), NEW s \in Side,
         NEW gone, NEW id, id # gone
  PROVE  LeftIn(Without(b, gone)[s], id) = LeftIn(b[s], id)
<1> DEFINE q  == b[s]
           at == {i \in DOMAIN q : q[i].order_id # gone}
<1>1. q \in Seq(Entry(ids, prices))
  BY DEF Book
<1>2. at \in SUBSET Int /\ IsFiniteSet(at)
  BY <1>1, SeqPositions
<1>3. \A i \in at : q[i].remaining_quantity \in Int
  BY <1>1, EntryHasLeft
<1>4. Without(b, gone)[s] = Chosen(q, at)
  BY DEF Without
<1>5. {i \in at : q[i].order_id = id} = {i \in DOMAIN q : q[i].order_id = id}
  OBVIOUS
<1> HIDE DEF at, q
<1>6. LeftIn(Chosen(q, at), id) = Wanted(q, {i \in at : q[i].order_id = id})
  BY <1>2, <1>3, LeftInChosen
<1> QED
  BY <1>4, <1>5, <1>6 DEF LeftIn, q

(* ... and when another one joins. *)
LEMMA LeftInQueued ==
  ASSUME NEW ids, NEW prices, NEW q \in Seq(Entry(ids, prices)), NEW o, NEW qty,
         NewEntry(o, qty) \in Entry(ids, prices),
         \A i \in DOMAIN q : q[i].order_id # o.order_id, NEW id, id # o.order_id
  PROVE  LeftIn(Queued(q, o, qty), id) = LeftIn(q, id)
<1> DEFINE w  == Queued(q, o, qty)
           at == {i \in DOMAIN w : w[i].order_id # o.order_id}
<1>1. w \in Seq(Entry(ids, prices))
  BY QueuedPlaces
<1>2. Chosen(w, at) = q
  BY WithoutNewcomer
<1> HIDE DEF w
<1>3. at \in SUBSET Int /\ IsFiniteSet(at)
  BY <1>1, SeqPositions
<1>4. \A i \in at : w[i].remaining_quantity \in Int
  BY <1>1, EntryHasLeft
<1>5. {i \in at : w[i].order_id = id} = {i \in DOMAIN w : w[i].order_id = id}
  OBVIOUS
<1> HIDE DEF at
<1>6. LeftIn(Chosen(w, at), id) = Wanted(w, {i \in at : w[i].order_id = id})
  BY <1>3, <1>4, LeftInChosen
<1> QED
  BY <1>2, <1>5, <1>6 DEF LeftIn, w

Absent(queue, id) == \A i \in DOMAIN queue : queue[i].order_id # id

(* Matching takes from every other order what the fills say it gave. *)
LEMMA SettleAccounts ==
  ASSUME NEW ids, NEW prices, NEW b \in Book(ids, prices),
         NEW o, IsOrder(o, ids, prices), NEW given,
         Shares(given, b[Opposite(o.side)]),
         Absent(b[o.side], o.order_id),
         NEW id, id # o.order_id
  PROVE  LET new == Settle(b, o, given)
         IN  /\ LeftIn(new.book[Opposite(o.side)], id)
                  = LeftIn(b[Opposite(o.side)], id) - Taken(new.fills, id)
             /\ LeftIn(new.book[o.side], id) = LeftIn(b[o.side], id)
<1> DEFINE E == Entry(ids, prices)
<1>1. PICK after, fill, left : Parts(ids, prices, b, o, given, after, fill, left)
  BY SettleParts
<1>2. PICK makers, new : makers = b[Opposite(o.side)] /\ new = Settle(b, o, given)
  OBVIOUS
<1>3. /\ makers \in Seq(E) /\ b[o.side] \in Seq(E)
      /\ \A i \in DOMAIN makers : /\ after[i] = After(makers[i], given[i])
                                  /\ fill[i] = FillOf(makers[i], o, given[i])
      /\ left \in Int
      /\ new.fills = Chosen(fill, {i \in DOMAIN makers : given[i] > 0})
      /\ new.book[Opposite(o.side)]
           = Chosen(after, {i \in DOMAIN makers : after[i].remaining_quantity > 0})
      /\ new.book[o.side] = IF o.order_type \in {LIMIT, FOK} /\ left > 0
                            THEN Queued(b[o.side], o, left) ELSE b[o.side]
  BY <1>1, <1>2 DEF Parts
<1>4. ASSUME NEW i \in DOMAIN makers
      PROVE  /\ given[i] \in Nat
             /\ makers[i].remaining_quantity \in Int
             /\ after[i].remaining_quantity = makers[i].remaining_quantity - given[i]
             /\ after[i].remaining_quantity \in Nat
             /\ after[i].order_id = makers[i].order_id
             /\ fill[i].maker_order_id = makers[i].order_id
             /\ fill[i].quantity = given[i]
  <2>1. makers[i] \in E /\ makers[i].remaining_quantity \in Nat
    BY <1>3, EntryHasLeft
  <2>2. given[i] \in 0 .. makers[i].remaining_quantity
    BY <1>2 DEF Shares
  <2>3. given[i] \in Nat
    BY <2>1, <2>2
  <2>4. /\ After(makers[i], given[i]).order_id = makers[i].order_id
        /\ After(makers[i], given[i]).remaining_quantity
             = makers[i].remaining_quantity - given[i]
        /\ After(makers[i], given[i]).remaining_quantity \in Nat
    BY <2>1, <2>2, AfterIs
  <2>5. FillOf(makers[i], o, given[i]).maker_order_id = makers[i].order_id
        /\ FillOf(makers[i], o, given[i]).quantity = given[i]
    BY DEF FillOf
  <2> QED
    BY <1>3, <2>1, <2>3, <2>4, <2>5
<1>5. PICK A, kept, paid : /\ A = {i \in DOMAIN makers : makers[i].order_id = id}
                           /\ kept = {i \in DOMAIN makers : after[i].remaining_quantity > 0}
                           /\ paid = {i \in DOMAIN makers : given[i] > 0}
  OBVIOUS
<1>6. /\ IsFiniteSet(A)
      /\ kept \in SUBSET Int /\ IsFiniteSet(kept)
      /\ paid \in SUBSET Int /\ IsFiniteSet(paid)
  BY <1>3, <1>5, SeqPositions
<1>7. PICK u, w : /\ u = [i \in A |-> after[i].remaining_quantity]
                  /\ w = [i \in A |-> makers[i].remaining_quantity]
  OBVIOUS
<1>8. \A i \in A : /\ given[i] \in Int /\ w[i] \in Int /\ u[i] \in Int
                   /\ u[i] = w[i] - given[i]
                   /\ u[i] = after[i].remaining_quantity
                   /\ w[i] = makers[i].remaining_quantity
  BY <1>4, <1>5, <1>7
<1>9. Sum(u, A) = Sum(w, A) - Sum(given, A)
  <2>1. \A i \in A : given[i] \in Int /\ w[i] \in Int /\ u[i] = w[i] - given[i]
    BY <1>8
  <2> QED
    BY ONLY <1>6, <2>1, SumMinus
<1>10. LeftIn(makers, id) = Sum(w, A)
  <2>1. LeftIn(makers, id) = Wanted(makers, A)
    BY <1>5 DEF LeftIn
  <2> QED
    BY <2>1, <1>6, <1>8, WantedIs
<1>11. LeftIn(Chosen(after, kept), id) = Sum(u, A)
  <2>1. PICK B : B = {i \in kept : after[i].order_id = id}
    OBVIOUS
  <2>2. \A i \in kept : after[i].remaining_quantity \in Int
    BY <1>4, <1>5
  <2>3. LeftIn(Chosen(after, kept), id) = Wanted(after, B)
    BY <1>6, <2>1, <2>2, LeftInChosen
  <2>4. B \in SUBSET A /\ IsFiniteSet(B)
    BY <1>4, <1>5, <1>6, <2>1, FS_Subset
  <2>5. \A i \in A \ B : u[i] = 0
    <3> SUFFICES ASSUME NEW i \in A, i \notin B PROVE u[i] = 0
      OBVIOUS
    <3>1. i \in DOMAIN makers /\ makers[i].order_id = id
      BY <1>5
    <3>2. after[i].order_id = id /\ after[i].remaining_quantity \in Nat
      BY <1>4, <3>1
    <3>3. ~ (after[i].remaining_quantity > 0)
      BY <1>5, <2>1, <3>1, <3>2
    <3> QED
      BY <1>8, <3>2, <3>3
  <2>6. \A i \in B : u[i] \in Int /\ u[i] = after[i].remaining_quantity
    BY <1>8, <2>4
  <2>7. Wanted(after, B) = Sum(u, B)
    BY <2>4, <2>6, WantedIs
  <2>8. Sum(u, A) = Sum(u, B)
    BY <1>6, <1>8, <2>4, <2>5, SumSubset
  <2> QED
    BY <2>3, <2>7, <2>8
<1>12. Taken(Chosen(fill, paid), id) = Sum(given, A)
  <2>1. PICK B : B = {i \in paid : fill[i].maker_order_id = id}
    OBVIOUS
  <2>2. \A i \in paid : fill[i].quantity \in Int /\ given[i] = fill[i].quantity
    BY <1>4, <1>5
  <2>3. Taken(Chosen(fill, paid), id) = Sum(given, B)
    BY <1>6, <2>1, <2>2, TakenOfChosen
  <2>4. B \in SUBSET A
    BY <1>4, <1>5, <2>1
  <2>5. \A i \in A \ B : given[i] = 0
    BY <1>4, <1>5, <2>1
  <2>6. Sum(given, A) = Sum(given, B)
    BY <1>6, <1>8, <2>4, <2>5, SumSubset
  <2> QED
    BY <2>3, <2>6
<1>13. LeftIn(new.book[Opposite(o.side)], id) = LeftIn(makers, id) - Taken(new.fills, id)
  BY <1>3, <1>5, <1>9, <1>10, <1>11, <1>12
<1>14. LeftIn(new.book[o.side], id) = LeftIn(b[o.side], id)
  <2>1. CASE o.order_type \in {LIMIT, FOK} /\ left > 0
    <3>1. NewEntry(o, left) \in E
      BY <1>3, <2>1 DEF NewEntry, IsOrder, Entry
    <3>2. LeftIn(Queued(b[o.side], o, left), id) = LeftIn(b[o.side], id)
      BY <1>3, <3>1, LeftInQueued DEF Absent
    <3> QED
      BY <1>3, <2>1, <3>2
  <2>2. CASE ~ (o.order_type \in {LIMIT, FOK} /\ left > 0)
    BY <1>3, <2>2
  <2> QED
    BY <2>1, <2>2
<1> QED
  BY <1>2, <1>13, <1>14

LEMMA TakenOfNothing ==
  ASSUME NEW id
  PROVE  Taken(<<>>, id) = 0
<1>1. {k \in DOMAIN <<>> : <<>>[k].maker_order_id = id} = {}
  OBVIOUS
<1>2. PICK f : f = [k \in {k \in DOMAIN <<>> : <<>>[k].maker_order_id = id} |->
                     <<>>[k].quantity]
  OBVIOUS
<1>3. DOMAIN f = {}
  BY <1>1, <1>2
<1>4. Taken(<<>>, id) = Sum(f, DOMAIN f)
  BY <1>2 DEF Taken, SumFunction, Sum
<1> QED
  BY <1>3, <1>4, SumEmpty

LEMMA TakenType ==
  ASSUME NEW ids, NEW prices, NEW fills \in Seq(FillRecords(ids, prices)), NEW id
  PROVE  Taken(fills, id) \in Nat
<1>1. PICK K : K = {k \in DOMAIN fills : fills[k].maker_order_id = id}
  OBVIOUS
<1>2. PICK f : f = [k \in K |-> fills[k].quantity]
  OBVIOUS
<1>3. \A k \in K : f[k] \in Nat
  <2>1. \A k \in DOMAIN fills : fills[k].quantity \in Nat
    <3> SUFFICES ASSUME NEW k \in DOMAIN fills PROVE fills[k].quantity \in Nat
      OBVIOUS
    <3>1. fills[k] \in FillRecords(ids, prices)
      OBVIOUS
    <3> QED
      BY <3>1 DEF FillRecords
  <2> QED
    BY <1>1, <1>2, <2>1
<1>4. IsFiniteSet(K)
  BY <1>1, SeqPositions
<1>5. Sum(f, K) \in Nat
  BY <1>3, <1>4, SumType
<1> QED
  BY <1>1, <1>2, <1>5 DEF Taken, SumFunction, Sum

(* A submission takes from every other order what its fills say it gave.     *)
LEMMA SubmittedAccounts ==
  ASSUME NEW ids, NEW prices, NEW b \in Book(ids, prices),
         NEW o, IsOrder(o, ids, prices), NEW id, id # o.order_id
  PROVE  LeftInBook(Submitted(b, o).book, id)
           = LeftInBook(b, id) - Taken(Submitted(b, o).fills, id)
<1>1. PICK rest, given :
        /\ rest = Without(b, o.order_id)
        /\ rest \in Book(ids, prices)
        /\ Shares(given, rest[Opposite(o.side)])
        /\ Submitted(b, o) = IF Passes(rest, o) THEN Settle(rest, o, given)
                             ELSE [fills |-> <<>>, book |-> rest]
  <2>1. PICK rest, given : rest \in Book(ids, prices) /\ Sweeps(b, o, rest, given)
    BY SubmittedIs
  <2> QED
    BY <2>1 DEF Sweeps
<1>2. \A s \in Side : \A i \in DOMAIN rest[s] : rest[s][i].order_id # o.order_id
  BY <1>1, WithoutType
<1>3. \A s \in Side : LeftIn(rest[s], id) = LeftIn(b[s], id)
  BY <1>1, LeftInWithout
<1>4. \A s \in Side : LeftIn(b[s], id) \in Nat
  <2>1. \A s \in Side : b[s] \in Seq(Entry(ids, prices))
    BY DEF Book
  <2> QED
    BY <2>1, LeftInType
<1>5. \/ o.side = BUY /\ Opposite(o.side) = SELL
      \/ o.side = SELL /\ Opposite(o.side) = BUY
  BY DEF IsOrder, Side, Opposite, BUY, SELL
<1>6. BUY \in Side /\ SELL \in Side
  BY DEF Side
<1>7. PICK t : t = Taken(Submitted(b, o).fills, id)
  OBVIOUS
<1>8. ASSUME Passes(rest, o)
      PROVE  /\ LeftIn(Submitted(b, o).book[Opposite(o.side)], id)
                  = LeftIn(b[Opposite(o.side)], id) - t
             /\ LeftIn(Submitted(b, o).book[o.side], id) = LeftIn(b[o.side], id)
  <2>1. Submitted(b, o) = Settle(rest, o, given)
    BY <1>1, <1>8
  <2>2. Absent(rest[o.side], o.order_id)
    BY <1>2, <1>5, <1>6 DEF Absent
  <2>3. /\ LeftIn(Settle(rest, o, given).book[Opposite(o.side)], id)
             = LeftIn(rest[Opposite(o.side)], id) - Taken(Settle(rest, o, given).fills, id)
        /\ LeftIn(Settle(rest, o, given).book[o.side], id) = LeftIn(rest[o.side], id)
    <3>1. rest \in Book(ids, prices) /\ Shares(given, rest[Opposite(o.side)])
      BY <1>1
    <3> QED
      BY ONLY <3>1, <2>2, IsOrder(o, ids, prices), id # o.order_id, SettleAccounts
  <2> QED
    BY <1>3, <1>5, <1>6, <1>7, <2>1, <2>3
<1>9. CASE Passes(rest, o)
  <2>1. t \in Int
    <3>1. Submitted(b, o).fills \in Seq(FillRecords(ids, prices))
      BY SubmittedType
    <3> QED
      BY <1>7, <3>1, TakenType
  <2>2. LeftIn(b[BUY], id) \in Nat /\ LeftIn(b[SELL], id) \in Nat
    BY <1>4, <1>6
  <2> QED
    BY <1>5, <1>7, <1>8, <1>9, <2>1, <2>2 DEF LeftInBook
<1>10. CASE ~ Passes(rest, o)
  <2>1. Submitted(b, o).book = rest /\ Submitted(b, o).fills = <<>>
    BY <1>1, <1>10
  <2>2. Taken(<<>>, id) = 0
    BY TakenOfNothing
  <2>3. LeftIn(b[BUY], id) \in Nat /\ LeftIn(b[SELL], id) \in Nat
    BY <1>4, <1>6
  <2> QED
    BY <1>3, <1>6, <2>1, <2>2, <2>3 DEF LeftInBook
<1> QED
  BY <1>9, <1>10

-----------------------------------------------------------------------------
(* A reduction *)

LEMMA ReducedType ==
  ASSUME NEW ids, NEW prices, NEW b \in Book(ids, prices), NEW side \in Side,
         NEW i \in DOMAIN b[side], NEW qty \in Nat
  PROVE  Reduced(b, side, i, qty) \in Book(ids, prices)
<1> DEFINE E == Entry(ids, prices)
           m == [b[side][i] EXCEPT !.remaining_quantity = qty]
           q == [b[side] EXCEPT ![i] = m]
<1>1. CASE qty = 0
  BY <1>1, WithoutType DEF Reduced
<1>2. CASE qty # 0
  <2>1. Reduced(b, side, i, qty) = [b EXCEPT ![side] = q]
    BY <1>2 DEF Reduced
  <2>2. b[side] \in Seq(E)
    BY DEF Book
  <2>3. m \in E
    <3>1. b[side][i] \in Entry(ids, prices)
      BY <2>2
    <3>2. qty \in Nat \ {0}
      BY <1>2
    <3> QED
      BY <3>1, <3>2 DEF Entry
  <2> HIDE DEF m, E
  <2>4. q \in Seq(E)
    BY <2>2, <2>3
  <2> HIDE DEF q
  <2> QED
    BY <2>1, <2>4 DEF Book, E
<1> QED
  BY <1>1, <1>2

(* A reduction changes what its own order has left and nothing else. *)
LEMMA ReducedAccounts ==
  ASSUME NEW ids, NEW prices, NEW b \in Book(ids, prices), NEW side \in Side,
         NEW i \in DOMAIN b[side], NEW qty \in Nat, NEW id, id # b[side][i].order_id
  PROVE  LeftInBook(Reduced(b, side, i, qty), id) = LeftInBook(b, id)
<1>0. BUY \in Side /\ SELL \in Side
  BY DEF Side
<1>1. CASE qty = 0
  <2>1. PICK gone : gone = b[side][i].order_id
    OBVIOUS
  <2>2. \A s \in Side : LeftIn(Without(b, gone)[s], id) = LeftIn(b[s], id)
    BY <2>1, LeftInWithout
  <2>3. Reduced(b, side, i, qty) = Without(b, gone)
    BY <1>1, <2>1 DEF Reduced
  <2> QED
    BY <1>0, <2>2, <2>3 DEF LeftInBook
<1>2. CASE qty # 0
  <2>1. PICK m, q : /\ m = [b[side][i] EXCEPT !.remaining_quantity = qty]
                    /\ q = [b[side] EXCEPT ![i] = m]
    OBVIOUS
  <2>2. Reduced(b, side, i, qty) = [b EXCEPT ![side] = q]
    BY <1>2, <2>1 DEF Reduced
  <2>3. m.order_id = b[side][i].order_id
    <3>1. b[side][i] \in Entry(ids, prices)
      BY DEF Book
    <3> QED
      BY <2>1, <3>1 DEF Entry
  <2>4. PICK at : at = {j \in DOMAIN b[side] : b[side][j].order_id = id}
    OBVIOUS
  <2>5. {j \in DOMAIN q : q[j].order_id = id} = at
    BY <2>1, <2>3, <2>4
  <2>6. \A j \in at : q[j] = b[side][j]
    BY <2>1, <2>4
  <2>7. Wanted(q, at) = Wanted(b[side], at)
    <3>1. [j \in at |-> q[j].remaining_quantity]
            = [j \in at |-> b[side][j].remaining_quantity]
      BY <2>6
    <3> QED
      BY <3>1, Zenon DEF Wanted
  <2>8. LeftIn(q, id) = LeftIn(b[side], id)
    BY <2>4, <2>5, <2>7 DEF LeftIn
  <2>9. \A s \in Side : LeftIn(Reduced(b, side, i, qty)[s], id) = LeftIn(b[s], id)
    BY <2>2, <2>8 DEF Book
  <2> QED
    BY <1>0, <2>9 DEF LeftInBook
<1> QED
  BY <1>1, <1>2

(* An order that leaves a book takes nothing with it. *)
LEMMA WithoutAccounts ==
  ASSUME NEW ids, NEW prices, NEW b \in Book(ids, prices), NEW gone, NEW id, id # gone
  PROVE  LeftInBook(Without(b, gone), id) = LeftInBook(b, id)
<1>1. \A s \in Side : LeftIn(Without(b, gone)[s], id) = LeftIn(b[s], id)
  BY LeftInWithout
<1>2. BUY \in Side /\ SELL \in Side
  BY DEF Side
<1> QED
  BY <1>1, <1>2 DEF LeftInBook

LEMMA LeftInBookType ==
  ASSUME NEW ids, NEW prices, NEW b \in Book(ids, prices), NEW id
  PROVE  LeftInBook(b, id) \in Nat
<1>1. \A s \in Side : b[s] \in Seq(Entry(ids, prices))
  BY DEF Book
<1>2. \A s \in Side : LeftIn(b[s], id) \in Nat
  BY <1>1, LeftInType
<1>3. BUY \in Side /\ SELL \in Side
  BY DEF Side
<1> QED
  BY <1>2, <1>3 DEF LeftInBook

-----------------------------------------------------------------------------
(* Identifiers *)

(* More identifiers and prices make more books. *)
LEMMA BookGrows ==
  ASSUME NEW ids, NEW prices, NEW b \in Book(ids, prices), NEW more, ids \subseteq more
  PROVE  b \in Book(more, prices)
<1>1. Entry(ids, prices) \subseteq Entry(more, prices)
  BY DEF Entry
<1>2. Seq(Entry(ids, prices)) \subseteq Seq(Entry(more, prices))
  BY <1>1
<1> QED
  BY <1>2 DEF Book

(* An order that was never given an identifier has nothing left. *)
LEMMA StrangerHasNothing ==
  ASSUME NEW ids, NEW prices, NEW b \in Book(ids, prices), NEW id, id \notin ids
  PROVE  LeftInBook(b, id) = 0
<1>1. ASSUME NEW s \in Side
      PROVE  LeftIn(b[s], id) = 0
  <2>1. b[s] \in Seq(Entry(ids, prices))
    BY DEF Book
  <2>2. \A i \in DOMAIN b[s] : b[s][i].order_id \in ids
    <3> SUFFICES ASSUME NEW i \in DOMAIN b[s] PROVE b[s][i].order_id \in ids
      OBVIOUS
    <3>1. b[s][i] \in Entry(ids, prices)
      BY <2>1
    <3> QED
      BY <3>1 DEF Entry
  <2>3. {i \in DOMAIN b[s] : b[s][i].order_id = id} = {}
    BY <2>2
  <2>4. LeftIn(b[s], id) = Wanted(b[s], {})
    BY <2>3 DEF LeftIn
  <2>5. PICK w : w = [i \in {} |-> b[s][i].remaining_quantity]
    OBVIOUS
  <2>6. Wanted(b[s], {}) = Sum(w, {})
    <3>1. IsFiniteSet({}) /\ \A i \in {} : w[i] = b[s][i].remaining_quantity
      BY FS_EmptySet
    <3> QED
      BY <3>1, WantedIs
  <2> QED
    BY <2>4, <2>6, SumEmpty
<1>2. BUY \in Side /\ SELL \in Side
  BY DEF Side
<1> QED
  BY <1>1, <1>2 DEF LeftInBook

-----------------------------------------------------------------------------
(* Sequences that hold the same members in the same order *)

(* A set has as many elements as one that some function carries it onto, one *)
(* to one.                                                                   *)
LEMMA CountCarried ==
  ASSUME NEW S, IsFiniteSet(S), NEW T, NEW h,
         \A x \in S : h[x] \in T,
         \A x, y \in S : h[x] = h[y] => x = y,
         \A y \in T : \E x \in S : h[x] = y
  PROVE  IsFiniteSet(T) /\ Cardinality(T) = Cardinality(S)
<1> DEFINE f == [x \in S |-> h[x]]
<1>1. f \in Bijection(S, T)
  BY DEF Bijection, Injection, Surjection, IsInjective
<1>2. ExistsBijection(S, T)
  BY <1>1 DEF ExistsBijection
<1> QED
  BY <1>2, FS_Bijection

(* h carries positions at of q onto positions on of p, in order and with     *)
(* their members.                                                            *)
Aligned(h, at, q, on, p) ==
  /\ \A i \in at : h[i] \in on /\ p[h[i]] = q[i]
  /\ \A i, j \in at : i < j => h[i] < h[j]
  /\ \A k \in on : \E i \in at : h[i] = k

(* A member has the same place among those it is aligned with. *)
LEMMA AlignedPlaces ==
  ASSUME NEW at \in SUBSET Int, IsFiniteSet(at), NEW on \in SUBSET Int,
         NEW h, NEW q, NEW p, Aligned(h, at, q, on, p)
  PROVE  /\ IsFiniteSet(on) /\ Cardinality(on) = Cardinality(at)
         /\ \A i \in at : PlaceOf(on, h[i]) = PlaceOf(at, i)
<1>1. /\ \A i \in at : h[i] \in on /\ h[i] \in Int /\ i \in Int
      /\ \A i, j \in at : i < j => h[i] < h[j]
      /\ \A k \in on : \E i \in at : h[i] = k
  BY DEF Aligned
<1>2. ASSUME NEW i \in at, NEW j \in at
      PROVE  /\ h[i] = h[j] => i = j
             /\ h[j] <= h[i] <=> j <= i
  <2>1. i < j \/ j < i \/ i = j
    BY <1>1
  <2> QED
    BY <1>1, <2>1
<1>3. IsFiniteSet(on) /\ Cardinality(on) = Cardinality(at)
  <2>1. \A i \in at : h[i] \in on
    BY <1>1
  <2>2. \A i, j \in at : h[i] = h[j] => i = j
    BY <1>2
  <2>3. \A k \in on : \E i \in at : h[i] = k
    BY <1>1
  <2> QED
    BY <2>1, <2>2, <2>3, CountCarried
<1>4. ASSUME NEW i \in at
      PROVE  PlaceOf(on, h[i]) = PlaceOf(at, i)
  <2> DEFINE S == {j \in at : j <= i}
             T == {k \in on : k <= h[i]}
  <2>0. S \subseteq at
    OBVIOUS
  <2>1. IsFiniteSet(S)
    <3> HIDE DEF S
    <3> QED
      BY <2>0, FS_Subset
  <2>2. \A x \in S : h[x] \in T
    BY <1>1, <1>2
  <2>3. \A x, y \in S : h[x] = h[y] => x = y
    BY <1>2
  <2>4. \A y \in T : \E x \in S : h[x] = y
    <3> SUFFICES ASSUME NEW y \in T PROVE \E x \in S : h[x] = y
      OBVIOUS
    <3>1. PICK x \in at : h[x] = y
      BY <1>1
    <3>2. x <= i
      BY <1>2, <3>1
    <3> QED
      BY <3>1, <3>2
  <2> HIDE DEF S, T
  <2>5. Cardinality(T) = Cardinality(S)
    BY <2>1, <2>2, <2>3, <2>4, CountCarried
  <2> QED
    BY <2>5 DEF PlaceOf, S, T
<1> QED
  BY <1>3, <1>4

(* Aligned positions choose the same members. *)
LEMMA ChosenAligned ==
  ASSUME NEW at \in SUBSET Int, IsFiniteSet(at), NEW on \in SUBSET Int,
         NEW h, NEW q, NEW p, Aligned(h, at, q, on, p)
  PROVE  Chosen(p, on) = Chosen(q, at)
<1>1. /\ IsFiniteSet(on) /\ Cardinality(on) = Cardinality(at)
      /\ \A i \in at : PlaceOf(on, h[i]) = PlaceOf(at, i)
  BY AlignedPlaces
<1>2. \A i \in at : h[i] \in on /\ p[h[i]] = q[i]
  BY DEF Aligned
<1>3. /\ Chosen(q, at) = [k \in 1 .. Cardinality(at) |-> Chosen(q, at)[k]]
      /\ \A k \in 1 .. Cardinality(at) :
           \E i \in at : PlaceOf(at, i) = k /\ Chosen(q, at)[k] = q[i]
  BY ChosenPlaces
<1>4. /\ Chosen(p, on) = [k \in 1 .. Cardinality(on) |-> Chosen(p, on)[k]]
      /\ \A i \in on : Chosen(p, on)[PlaceOf(on, i)] = p[i]
  BY <1>1, ChosenPlaces
<1>5. ASSUME NEW k \in 1 .. Cardinality(at)
      PROVE  Chosen(p, on)[k] = Chosen(q, at)[k]
  <2>1. PICK i \in at : PlaceOf(at, i) = k /\ Chosen(q, at)[k] = q[i]
    BY <1>3, Zenon
  <2>2. Chosen(p, on)[PlaceOf(on, h[i])] = p[h[i]]
    BY <1>2, <1>4
  <2> QED
    BY <1>1, <1>2, <2>1, <2>2
<1> QED
  BY <1>1, <1>3, <1>4, <1>5

(* Nothing chosen is the empty sequence. *)
LEMMA ChosenNone ==
  ASSUME NEW q
  PROVE  Chosen(q, {}) = <<>>
<1>1. {} \in SUBSET Int /\ IsFiniteSet({}) /\ Cardinality({}) = 0
  BY FS_EmptySet
<1>2. Chosen(q, {}) \in Seq({}) /\ Len(Chosen(q, {})) = Cardinality({})
  BY <1>1, ChosenType
<1> QED
  BY <1>1, <1>2

Leads(f, at) == f \in at /\ \A i \in at : f <= i

(* The first position comes first. *)
LEMMA ChosenFirst ==
  ASSUME NEW at \in SUBSET Int, IsFiniteSet(at), NEW q, NEW f, Leads(f, at)
  PROVE  Chosen(q, at) = <<q[f]>> \o Chosen(q, at \ {f})
<1>0. f \in at /\ \A i \in at : f <= i
  BY DEF Leads
<1>0a. PICK T : \A i \in at : q[i] \in T
  <2>1. \A i \in at : q[i] \in {q[j] : j \in at}
    OBVIOUS
  <2> QED
    BY <2>1
<1> DEFINE rest == at \ {f}
           n == Cardinality(at)
<1>1. rest \in SUBSET Int /\ IsFiniteSet(rest) /\ Cardinality(rest) = n - 1 /\ n \in Nat
  <2>1. IsFiniteSet(rest) /\ Cardinality(rest) = IF f \in at THEN n - 1 ELSE n
    BY FS_RemoveElement
  <2> QED
    BY <1>0, <2>1, FS_CardinalityType
<1>2. /\ Chosen(q, at) \in Seq(T) /\ Len(Chosen(q, at)) = n
      /\ Chosen(q, rest) \in Seq(T) /\ Len(Chosen(q, rest)) = n - 1
  <2>1. \A i \in rest : q[i] \in T
    BY <1>0a
  <2> HIDE DEF rest
  <2> QED
    BY <1>0a, <1>1, <2>1, ChosenType
<1>3. \A i \in rest : PlaceOf(at, i) = PlaceOf(rest, i) + 1
  <2> SUFFICES ASSUME NEW i \in rest PROVE PlaceOf(at, i) = PlaceOf(rest, i) + 1
    OBVIOUS
  <2> DEFINE S == {j \in rest : j <= i}
  <2>1. IsFiniteSet(S) /\ f \notin S
    BY <1>1, FS_Subset
  <2>2. {j \in at : j <= i} = S \cup {f}
    BY <1>0
  <2> HIDE DEF S
  <2>3. Cardinality(S \cup {f}) = Cardinality(S) + 1
    BY <2>1, FS_AddElement
  <2> QED
    BY <2>2, <2>3 DEF PlaceOf, S
<1>4. PlaceOf(at, f) = 1
  <2>1. {j \in at : j <= f} = {f}
    <3>1. \A j \in at : j <= f => j = f
      BY <1>0
    <3> QED
      BY <1>0, <3>1
  <2>2. Cardinality({f}) = 1
    BY FS_Singleton
  <2> QED
    BY <2>1, <2>2 DEF PlaceOf
<1>5. /\ \A i \in at : Chosen(q, at)[PlaceOf(at, i)] = q[i]
      /\ \A k \in 1 .. Cardinality(rest) :
           \E i \in rest : PlaceOf(rest, i) = k /\ Chosen(q, rest)[k] = q[i]
  <2> HIDE DEF rest
  <2> QED
    BY <1>1, ChosenPlaces
<1>6. ASSUME NEW k \in 1 .. n - 1
      PROVE  Chosen(q, at)[k + 1] = Chosen(q, rest)[k]
  <2>1. PICK i \in rest : PlaceOf(rest, i) = k /\ Chosen(q, rest)[k] = q[i]
    BY <1>1, <1>5, Zenon
  <2> QED
    BY <2>1, <1>3, <1>5
<1> HIDE DEF rest, n
<1>7. <<q[f]>> \in Seq(T) /\ Len(<<q[f]>>) = 1 /\ <<q[f]>>[1] = q[f]
  BY <1>0, <1>0a
<1>8. /\ <<q[f]>> \o Chosen(q, rest) \in Seq(T)
      /\ Len(<<q[f]>> \o Chosen(q, rest)) = 1 + (n - 1)
      /\ \A i \in 1 .. 1 + (n - 1) : (<<q[f]>> \o Chosen(q, rest))[i] =
           IF i <= 1 THEN <<q[f]>>[i] ELSE Chosen(q, rest)[i - 1]
  <2>1. /\ <<q[f]>> \o Chosen(q, rest) \in Seq(T)
        /\ Len(<<q[f]>> \o Chosen(q, rest)) = Len(<<q[f]>>) + Len(Chosen(q, rest))
        /\ \A i \in 1 .. Len(<<q[f]>>) + Len(Chosen(q, rest)) :
             (<<q[f]>> \o Chosen(q, rest))[i] =
               IF i <= Len(<<q[f]>>) THEN <<q[f]>>[i]
               ELSE Chosen(q, rest)[i - Len(<<q[f]>>)]
    BY <1>2, <1>7, ConcatProperties
  <2> QED
    BY <2>1, <1>2, <1>7
<1>9. \A i \in 1 .. n : Chosen(q, at)[i] = (<<q[f]>> \o Chosen(q, rest))[i]
  <2> SUFFICES ASSUME NEW i \in 1 .. n
               PROVE  Chosen(q, at)[i] = (<<q[f]>> \o Chosen(q, rest))[i]
    OBVIOUS
  <2>1. CASE i = 1
    <3>1. Chosen(q, at)[1] = q[f]
      BY <1>0, <1>4, <1>5
    <3> QED
      BY <1>1, <1>7, <1>8, <2>1, <3>1
  <2>2. CASE i # 1
    <3>1. i - 1 \in 1 .. n - 1 /\ (i - 1) + 1 = i /\ ~ (i <= 1) /\ i \in 1 .. 1 + (n - 1)
      BY <1>1, <2>2
    <3>2. Chosen(q, at)[(i - 1) + 1] = Chosen(q, rest)[i - 1]
      BY <1>6, <3>1
    <3> QED
      BY <1>8, <3>1, <3>2
  <2> QED
    BY <2>1, <2>2
<1>10. Chosen(q, at) = <<q[f]>> \o Chosen(q, rest)
  <2>1. 1 + (n - 1) = n
    BY <1>1
  <2> QED
    BY <1>2, <1>8, <1>9, <2>1, SeqEqual
<1> QED
  BY <1>10 DEF rest

-----------------------------------------------------------------------------
(* What an outcome is made of, and the share of each maker *)

(* Places keep the order of positions. *)
LEMMA PlacesInOrder ==
  ASSUME NEW at \in SUBSET Int, IsFiniteSet(at), NEW i \in at, NEW j \in at, i < j
  PROVE  PlaceOf(at, i) < PlaceOf(at, j)
<1> DEFINE S == {l \in at : l <= i}
           T == {l \in at : l <= j}
<1>1. T \subseteq at /\ S \subseteq T /\ j \in T /\ j \notin S
  <2>1. i \in Int /\ j \in Int /\ \A l \in at : l \in Int /\ (l <= i => l <= j)
    OBVIOUS
  <2>2. ~ (j <= i) /\ j <= j
    BY <2>1
  <2>3. T \subseteq at /\ j \in T /\ j \notin S
    BY <2>2
  <2>4. S \subseteq T
    BY <2>1
  <2> QED
    BY <2>3, <2>4
<1> HIDE DEF S, T
<1>2. IsFiniteSet(T)
  BY <1>1, FS_Subset
<1>3. IsFiniteSet(S) /\ Cardinality(S) <= Cardinality(T)
      /\ (Cardinality(S) = Cardinality(T) => S = T)
  BY <1>1, <1>2, FS_Subset
<1>4. Cardinality(S) \in Nat /\ Cardinality(T) \in Nat
  BY <1>2, <1>3, FS_CardinalityType
<1> QED
  BY <1>1, <1>3, <1>4 DEF PlaceOf, S, T

(* What is chosen is aligned with the positions it is chosen from. *)
LEMMA ChosenIsAligned ==
  ASSUME NEW at \in SUBSET Int, IsFiniteSet(at), NEW q
  PROVE  Aligned([i \in at |-> PlaceOf(at, i)], at, q, 1 .. Cardinality(at), Chosen(q, at))
<1> DEFINE h == [i \in at |-> PlaceOf(at, i)]
<1>1. /\ \A i \in at : /\ PlaceOf(at, i) \in 1 .. Cardinality(at)
                       /\ Chosen(q, at)[PlaceOf(at, i)] = q[i]
      /\ \A k \in 1 .. Cardinality(at) :
           \E i \in at : PlaceOf(at, i) = k /\ Chosen(q, at)[k] = q[i]
  BY ChosenPlaces
<1>2. \A i \in at : h[i] = PlaceOf(at, i)
  OBVIOUS
<1>3. \A i, j \in at : i < j => PlaceOf(at, i) < PlaceOf(at, j)
  BY PlacesInOrder
<1> HIDE DEF h
<1>4. \A i \in at : h[i] \in 1 .. Cardinality(at) /\ Chosen(q, at)[h[i]] = q[i]
  BY <1>1, <1>2
<1>5. \A i, j \in at : i < j => h[i] < h[j]
  BY <1>2, <1>3
<1>6. \A k \in 1 .. Cardinality(at) : \E i \in at : h[i] = k
  <2> SUFFICES ASSUME NEW k \in 1 .. Cardinality(at) PROVE \E i \in at : h[i] = k
    OBVIOUS
  <2>1. PICK i \in at : PlaceOf(at, i) = k
    BY <1>1, Zenon
  <2> QED
    BY <1>2, <2>1
<1>7. Aligned(h, at, q, 1 .. Cardinality(at), Chosen(q, at))
  BY <1>4, <1>5, <1>6 DEF Aligned
<1> QED
  BY <1>7 DEF h

-----------------------------------------------------------------------------
(* One fill of a sweep *)

(* What an order with so much left takes of a maker with remaining r. *)
Share(r, left) == IF left <= 0 THEN 0 ELSE IF r <= left THEN r ELSE left

(* What the makers within reach before position i want. *)
WantedBefore(makers, reach, i) == Wanted(makers, {j \in reach : j < i})

(* given allots quantity to the makers within reach, in their order. *)
Gives(given, makers, reach, quantity) ==
  /\ \A i \in reach :
       /\ WantedBefore(makers, reach, i) \in Nat
       /\ given[i] = Share(makers[i].remaining_quantity,
                           quantity - WantedBefore(makers, reach, i))
  /\ \A i \in DOMAIN makers \ reach : given[i] = 0

(* A reachable maker gives its share of what those before it leave. *)
LEMMA AllotmentIs ==
  ASSUME NEW ids, NEW prices, NEW makers \in Seq(Entry(ids, prices)),
         NEW reach \in SUBSET DOMAIN makers, NEW quantity \in Int
  PROVE  /\ DOMAIN Allotment(makers, reach, quantity) = DOMAIN makers
         /\ Gives(Allotment(makers, reach, quantity), makers, reach, quantity)
<1> DEFINE given == Allotment(makers, reach, quantity)
<1>1. DOMAIN given = DOMAIN makers
  BY DEF Allotment
<1>2. ASSUME NEW i \in reach
      PROVE  /\ WantedBefore(makers, reach, i) \in Nat
             /\ given[i] = Share(makers[i].remaining_quantity,
                                 quantity - WantedBefore(makers, reach, i))
  <2> DEFINE rem   == makers[i].remaining_quantity
             first == Wanted(makers, {j \in reach : j < i})
  <2>1. rem \in Nat
    BY EntryHasLeft
  <2>2. first \in Nat
    <3>1. IsFiniteSet({j \in reach : j < i})
      BY SeqPositions, FS_Subset
    <3>2. \A j \in {j \in reach : j < i} : makers[j].remaining_quantity \in Nat
      BY EntryHasLeft
    <3> QED
      BY <3>1, <3>2, WantedType
  <2>3. given[i] = Min({rem, Max({0, quantity - first})})
    BY DEF Allotment
  <2> HIDE DEF rem, first, given
  <2>4. PICK want \in Int : want = quantity - first
    BY <2>2
  <2>5. PICK more \in Nat : more = Max({0, want})
    <3>1. Max({0, want}) = IF 0 >= want THEN 0 ELSE want
      BY MaxWithZero
    <3> QED
      BY <3>1
  <2>6. more = IF 0 >= want THEN 0 ELSE want
    BY <2>5, MaxWithZero
  <2>7. Min({rem, more}) = IF rem <= more THEN rem ELSE more
    <3>1. rem \in Int /\ more \in Int
      BY <2>1
    <3> QED
      BY <3>1, MinOfTwo
  <2>8. given[i] = Min({rem, more})
    BY <2>3, <2>4, <2>5
  <2>9. given[i] = Share(rem, want)
    BY <2>1, <2>6, <2>7, <2>8 DEF Share
  <2> QED
    BY <2>2, <2>4, <2>9 DEF rem, first, WantedBefore
<1>3. \A i \in DOMAIN makers \ reach : given[i] = 0
  BY DEF Allotment
<1> HIDE DEF given
<1>4. Gives(given, makers, reach, quantity)
  BY <1>2, <1>3 DEF Gives
<1> QED
  BY <1>1, <1>4 DEF given

(* What matching o against b gives each maker, the fills and makers that     *)
(* come of it, and what it leaves of o.                                      *)
Given(b, o) == Allotment(b[Opposite(o.side)], Reachable(b, o), o.remaining_quantity)

FillsOf(b, o) ==
  [i \in DOMAIN b[Opposite(o.side)] |-> FillOf(b[Opposite(o.side)][i], o, Given(b, o)[i])]

AfterOf(b, o) ==
  [i \in DOMAIN b[Opposite(o.side)] |-> After(b[Opposite(o.side)][i], Given(b, o)[i])]

LeftOf(b, o) == o.remaining_quantity - Sum(Given(b, o), DOMAIN b[Opposite(o.side)])

Giving(b, o) == {i \in DOMAIN b[Opposite(o.side)] : Given(b, o)[i] > 0}

Lasting(b, o) == {i \in DOMAIN b[Opposite(o.side)] : AfterOf(b, o)[i].remaining_quantity > 0}

(* The outcome, by its parts. *)
LEMMA OutcomeIs ==
  ASSUME NEW b, NEW o, o.side \in Side
  PROVE  /\ Outcome(b, o).fills = Chosen(FillsOf(b, o), Giving(b, o))
         /\ Outcome(b, o).book = [s \in Side |-> Outcome(b, o).book[s]]
         /\ Outcome(b, o).book[Opposite(o.side)] = Chosen(AfterOf(b, o), Lasting(b, o))
         /\ Outcome(b, o).book[o.side] =
              IF o.order_type \in {LIMIT, FOK} /\ LeftOf(b, o) > 0
              THEN Queued(b[o.side], o, LeftOf(b, o))
              ELSE b[o.side]
<1>1. Outcome(b, o) = Settle(b, o, Given(b, o))
  BY DEF Outcome, Given
<1>2. PICK given : given = Given(b, o)
  OBVIOUS
<1>3. /\ Settle(b, o, given).fills
           = Chosen([i \in DOMAIN b[Opposite(o.side)] |->
                       FillOf(b[Opposite(o.side)][i], o, given[i])],
                    {i \in DOMAIN b[Opposite(o.side)] : given[i] > 0})
  BY DEF Settle, FillOf
<1>4. Settle(b, o, given).book
        = [s \in Side |->
             IF s = Opposite(o.side)
             THEN Chosen([i \in DOMAIN b[Opposite(o.side)] |->
                            After(b[Opposite(o.side)][i], given[i])],
                         {i \in DOMAIN b[Opposite(o.side)] :
                            [j \in DOMAIN b[Opposite(o.side)] |->
                               After(b[Opposite(o.side)][j], given[j])][i].remaining_quantity > 0})
             ELSE IF o.order_type \in {LIMIT, FOK}
                     /\ o.remaining_quantity - Sum(given, DOMAIN b[Opposite(o.side)]) > 0
             THEN Queued(b[s], o, o.remaining_quantity
                                    - Sum(given, DOMAIN b[Opposite(o.side)]))
             ELSE b[s]]
  BY DEF Settle, After, Sum
<1>5. Opposite(o.side) \in Side /\ Opposite(o.side) # o.side
  BY OppositeIsSide
<1> QED
  BY <1>1, <1>2, <1>3, <1>4, <1>5 DEF FillsOf, AfterOf, LeftOf, Giving, Lasting

-----------------------------------------------------------------------------
(* An outcome that gives nothing, and the share of the first maker *)

(* Matching that gives nothing leaves the makers; a rest may queue. *)
LEMMA OutcomeOfNothing ==
  ASSUME NEW ids, NEW prices, NEW b \in Book(ids, prices), NEW o, o.side \in Side,
         o.remaining_quantity \in Int,
         o.remaining_quantity <= 0 \/ Reachable(b, o) = {}
  PROVE  /\ Outcome(b, o).fills = <<>>
         /\ Outcome(b, o).book = [s \in Side |-> Outcome(b, o).book[s]]
         /\ Outcome(b, o).book[Opposite(o.side)] = b[Opposite(o.side)]
         /\ Outcome(b, o).book[o.side] =
              IF o.order_type \in {LIMIT, FOK} /\ o.remaining_quantity > 0
              THEN Queued(b[o.side], o, o.remaining_quantity)
              ELSE b[o.side]
<1> DEFINE makers == b[Opposite(o.side)]
           reach == Reachable(b, o)
           given == Given(b, o)
<1>0. PICK n \in Int : n = o.remaining_quantity
  OBVIOUS
<1>1. makers \in Seq(Entry(ids, prices))
  BY OppositeIsSide DEF Book
<1>2. reach \in SUBSET DOMAIN makers
  BY DEF Reachable, Countable
<1>3. given = Allotment(makers, reach, n)
  BY <1>0 DEF Given
<1> HIDE DEF makers, reach, given
<1>3a. Gives(given, makers, reach, n)
  BY ONLY <1>1, <1>2, <1>3, n \in Int, AllotmentIs
<1>4. ASSUME NEW i \in DOMAIN makers
      PROVE  given[i] = 0
  <2>1. CASE i \in reach
    <3>1. /\ WantedBefore(makers, reach, i) \in Nat
          /\ given[i] = Share(makers[i].remaining_quantity,
                              n - WantedBefore(makers, reach, i))
      BY <1>3a, <2>1 DEF Gives
    <3>2. n <= 0
      BY <1>0, <2>1 DEF reach
    <3>3. n - WantedBefore(makers, reach, i) <= 0
      BY <3>1, <3>2
    <3> QED
      BY <3>1, <3>3 DEF Share
  <2>2. CASE i \notin reach
    BY <1>3a, <2>2 DEF Gives
  <2> QED
    BY <2>1, <2>2
<1>5. Giving(b, o) = {}
  BY <1>4 DEF Giving, makers, given
<1>6. Outcome(b, o).fills = <<>>
  <2>1. Outcome(b, o).fills = Chosen(FillsOf(b, o), Giving(b, o))
    BY OutcomeIs
  <2> QED
    BY <1>5, <2>1, ChosenNone, Zenon
<1>7. AfterOf(b, o) = makers
  <2>1. ASSUME NEW i \in DOMAIN makers
        PROVE  After(makers[i], given[i]) = makers[i]
    <3>1. PICK m \in Entry(ids, prices) : m = makers[i]
      BY <1>1, EntryHasLeft
    <3>2. 0 \in 0 .. m.remaining_quantity
      BY <3>1 DEF Entry
    <3>3. After(m, 0) = m
      BY <3>2, AfterIs
    <3> QED
      BY <1>4, <3>1, <3>3
  <2>2. AfterOf(b, o) = [i \in DOMAIN makers |-> After(makers[i], given[i])]
    BY DEF AfterOf, makers, given
  <2>3. [i \in DOMAIN makers |-> After(makers[i], given[i])] = [i \in DOMAIN makers |-> makers[i]]
    BY <2>1, Zenon
  <2>4. makers = [i \in DOMAIN makers |-> makers[i]]
    BY <1>1
  <2> QED
    BY <2>2, <2>3, <2>4, Zenon
<1>8. Lasting(b, o) = DOMAIN makers
  <2>1. \A i \in DOMAIN makers : makers[i].remaining_quantity > 0
    BY <1>1, EntryHasLeft
  <2> QED
    BY <1>7, <2>1 DEF Lasting, makers
<1>9. Chosen(makers, DOMAIN makers) = makers
  BY <1>1, ChosenAll
<1>10. Sum(given, DOMAIN makers) = 0
  <2>1. IsFiniteSet(DOMAIN makers) /\ {} \in SUBSET DOMAIN makers
    BY <1>1, SeqPositions
  <2>2. \A i \in DOMAIN makers : given[i] \in Int
    BY <1>4
  <2>3. \A i \in DOMAIN makers \ {} : given[i] = 0
    BY <1>4
  <2>4. Sum(given, DOMAIN makers) = Sum(given, {})
    BY <2>1, <2>2, <2>3, SumSubset
  <2> QED
    BY <2>4, SumEmpty
<1>11. LeftOf(b, o) = o.remaining_quantity
  BY <1>10 DEF LeftOf, makers, given
<1> QED
  BY <1>6, <1>7, <1>8, <1>9, <1>11, OutcomeIs DEF makers

(* What is left of an order with the same identity. *)
SameOrder(r, o) ==
  /\ r.order_id = o.order_id /\ r.side = o.side
  /\ r.order_type = o.order_type /\ r.price = o.price

(* Such orders queue alike. *)
LEMMA SameQueued ==
  ASSUME NEW r, NEW o, SameOrder(r, o), NEW q, NEW qty
  PROVE  Queued(q, r, qty) = Queued(q, o, qty)
BY DEF Queued, SameOrder

(* f is where the sweep begins. *)
FirstReached(f, b, o) ==
  f \in Reachable(b, o) /\ \A i \in Reachable(b, o) : f <= i

(* The first maker gets what both want; each of the others gets nothing      *)
(* before the first is exhausted.                                            *)
GivesLater(f, given, makers, reach, more) ==
  \A i \in reach \ {f} :
    /\ WantedBefore(makers, reach \ {f}, i) \in Nat
    /\ given[i] = Share(makers[i].remaining_quantity,
                        more - WantedBefore(makers, reach \ {f}, i))

(* The first maker gives first. *)
LEMMA FirstShare ==
  ASSUME NEW ids, NEW prices, NEW b \in Book(ids, prices), NEW o, o.side \in Side,
         o.remaining_quantity \in Nat \ {0}, NEW f, FirstReached(f, b, o)
  PROVE  /\ f \in DOMAIN b[Opposite(o.side)]
         /\ Given(b, o)[f] = Share(b[Opposite(o.side)][f].remaining_quantity,
                                   o.remaining_quantity)
         /\ GivesLater(f, Given(b, o), b[Opposite(o.side)], Reachable(b, o),
                       o.remaining_quantity - b[Opposite(o.side)][f].remaining_quantity)
<1> DEFINE makers == b[Opposite(o.side)]
           reach == Reachable(b, o)
           given == Given(b, o)
<1>0. PICK n \in Nat \ {0} : n = o.remaining_quantity
  OBVIOUS
<1>1. makers \in Seq(Entry(ids, prices))
  BY OppositeIsSide DEF Book
<1>2. reach \in SUBSET DOMAIN makers
  BY DEF Reachable, Countable
<1>3. given = Allotment(makers, reach, n)
  BY <1>0 DEF Given
<1>4. f \in reach /\ \A i \in reach : f <= i
  BY DEF FirstReached
<1>5. \A i \in reach : i \in Int
  BY <1>1, <1>2, SeqPositions
<1> HIDE DEF makers, reach, given
<1>6a. Gives(given, makers, reach, n)
  <2>1. n \in Int
    BY <1>0
  <2> QED
    BY ONLY <1>1, <1>2, <1>3, <2>1, AllotmentIs
<1>6. \A i \in reach :
        /\ WantedBefore(makers, reach, i) \in Nat
        /\ given[i] = Share(makers[i].remaining_quantity,
                            n - WantedBefore(makers, reach, i))
  BY <1>6a DEF Gives
<1>7. given[f] = Share(makers[f].remaining_quantity, n)
  <2>1. {j \in reach : j < f} = {}
    BY <1>4, <1>5
  <2>2. Wanted(makers, {}) = 0
    <3>1. Wanted(makers, {}) = Sum([j \in {} |-> makers[j].remaining_quantity], {})
      BY FS_EmptySet, WantedIs
    <3> QED
      BY <3>1, SumEmpty
  <2>3. given[f] = Share(makers[f].remaining_quantity, n - 0)
    BY <1>4, <1>6, <2>1, <2>2 DEF WantedBefore
  <2> QED
    BY <2>3
<1>8. ASSUME NEW i \in reach \ {f}
      PROVE  /\ WantedBefore(makers, reach \ {f}, i) \in Nat
             /\ given[i] = Share(makers[i].remaining_quantity,
                                 (n - makers[f].remaining_quantity)
                                    - WantedBefore(makers, reach \ {f}, i))
  <2> DEFINE S == {j \in reach : j < i}
             T == {j \in reach \ {f} : j < i}
             w == [j \in reach |-> makers[j].remaining_quantity]
  <2>1. f \in S /\ S \ {f} = T /\ S \subseteq reach
    BY <1>4, <1>5
  <2>2. IsFiniteSet(reach)
    BY <1>1, <1>2, SeqPositions
  <2>3. \A j \in reach : w[j] = makers[j].remaining_quantity /\ w[j] \in Nat
    BY <1>1, <1>2, EntryHasLeft
  <2>4. Wanted(makers, S) \in Nat
        /\ given[i] = Share(makers[i].remaining_quantity, n - Wanted(makers, S))
    BY <1>6 DEF WantedBefore
  <2> HIDE DEF S, T, w
  <2>5. IsFiniteSet(S) /\ IsFiniteSet(T) /\ T \subseteq reach
    BY <2>1, <2>2, FS_Subset
  <2>6. Wanted(makers, S) = Sum(w, S) /\ Wanted(makers, T) = Sum(w, T)
    BY <2>1, <2>3, <2>5, WantedIs
  <2>7. Sum(w, S) = w[f] + Sum(w, T)
    <3>1. \A j \in S : w[j] \in Int
      BY <2>1, <2>3
    <3> QED
      BY <2>1, <2>5, <3>1, SumSplit
  <2>8. Sum(w, T) \in Nat
    <3>1. \A j \in T : w[j] \in Nat
      BY <2>3, <2>5
    <3> QED
      BY <2>5, <3>1, SumType
  <2>9. w[f] \in Nat /\ w[f] = makers[f].remaining_quantity
    BY <1>4, <2>3
  <2>10. n - Wanted(makers, S) = (n - makers[f].remaining_quantity) - Wanted(makers, T)
    BY <2>6, <2>7, <2>8, <2>9
  <2> QED
    BY <2>4, <2>6, <2>8, <2>10 DEF T, WantedBefore
<1>9. GivesLater(f, given, makers, reach, n - makers[f].remaining_quantity)
  BY <1>8 DEF GivesLater
<1> QED
  BY <1>0, <1>2, <1>4, <1>7, <1>9 DEF makers, reach, given

-----------------------------------------------------------------------------
(* After the first fill, the rest of a sweep is a sweep of what is left *)

(* Who may be taken of makers p is decided as of makers q, but for the first *)
(* of q: p is q without it, and it shields nobody.                           *)
LEMMA ReachableLater ==
  ASSUME NEW ids, NEW prices, NEW b \in Book(ids, prices), NEW o, o.side \in Side,
         NEW f, f \in Reachable(b, o), NEW c \in Book(ids, prices), NEW r, SameOrder(r, o),
         NEW h, Aligned(h, DOMAIN b[Opposite(o.side)] \ {f}, b[Opposite(o.side)],
                        DOMAIN c[Opposite(o.side)], c[Opposite(o.side)])
  PROVE  \A i \in DOMAIN b[Opposite(o.side)] \ {f} :
           h[i] \in Reachable(c, r) <=> i \in Reachable(b, o)
<1> DEFINE side == Opposite(o.side)
           q == b[side]
           p == c[side]
           at == DOMAIN q \ {f}
           Good(m) == Acceptable(o, m) /\ ~ Barred(o, m)
           Hidden(u, m) == \E j \in DOMAIN u : Before(side, u[j].price, m.price) /\ Barred(o, u[j])
<1>1. /\ \A i \in at : h[i] \in DOMAIN p /\ p[h[i]] = q[i]
      /\ \A k \in DOMAIN p : \E i \in at : h[i] = k
  BY DEF Aligned
<1>2. r.side = o.side /\ \A m : Acceptable(r, m) <=> Acceptable(o, m)
  BY DEF SameOrder, Acceptable
<1>3. \A m : Barred(r, m) <=> Barred(o, m)
  BY DEF SameOrder, Barred
<1>4. Reachable(b, o) = {i \in DOMAIN q : Good(q[i]) /\ ~ Hidden(q, q[i])}
  BY DEF Reachable, Countable
<1>5. Reachable(c, r) = {k \in DOMAIN p : Good(p[k]) /\ ~ Hidden(p, p[k])}
  BY <1>2, <1>3 DEF Reachable, Countable
<1>6. ASSUME NEW m
      PROVE  Hidden(p, m) <=> Hidden(q, m)
  <2>1. ~ Barred(o, q[f])
    BY <1>4
  <2>2. ASSUME NEW k \in DOMAIN p, Before(side, p[k].price, m.price), Barred(o, p[k])
        PROVE  Hidden(q, m)
    <3>1. PICK i \in at : h[i] = k
      BY <1>1
    <3>2. p[k] = q[i] /\ i \in DOMAIN q
      BY <1>1, <3>1
    <3> QED
      BY <2>2, <3>2
  <2>3. ASSUME NEW i \in DOMAIN q, Before(side, q[i].price, m.price), Barred(o, q[i])
        PROVE  Hidden(p, m)
    <3>1. i \in at
      BY <2>1, <2>3
    <3>2. h[i] \in DOMAIN p /\ p[h[i]] = q[i]
      BY <1>1, <3>1
    <3> QED
      BY <2>3, <3>2
  <2> QED
    BY <2>2, <2>3
<1> SUFFICES ASSUME NEW i \in at
             PROVE  h[i] \in Reachable(c, r) <=> i \in Reachable(b, o)
  OBVIOUS
<1>7. h[i] \in DOMAIN p /\ p[h[i]] = q[i] /\ i \in DOMAIN q
  BY <1>1
<1>8. Hidden(p, q[i]) <=> Hidden(q, q[i])
  BY <1>6
<1> HIDE DEF Good, Hidden, p, q
<1> QED
  BY <1>4, <1>5, <1>7, <1>8

(* r is what is left of o once it has taken all of maker f.                  *)
Spent(r, o, f, b) ==
  /\ SameOrder(r, o)
  /\ r.remaining_quantity
       = o.remaining_quantity - b[Opposite(o.side)][f].remaining_quantity

(* How the rest of a sweep stands to all of it: the makers but the first,    *)
(* with what each is given.                                                  *)
RestOfSweep(h, f, q, p, g, d) ==
  /\ Aligned(h, DOMAIN q \ {f}, q, DOMAIN p, p)
  /\ \A i \in DOMAIN q \ {f} : d[h[i]] = g[i]

(* Each of the others gets what it would have got had the first not been     *)
(* there and the order wanted so much less.                                  *)
LEMMA GivenLater ==
  ASSUME NEW ids, NEW prices, NEW b \in Book(ids, prices), NEW o, o.side \in Side,
         o.remaining_quantity \in Nat \ {0}, NEW f, FirstReached(f, b, o),
         NEW c \in Book(ids, prices), NEW r, Spent(r, o, f, b),
         NEW h, Aligned(h, DOMAIN b[Opposite(o.side)] \ {f}, b[Opposite(o.side)],
                        DOMAIN c[Opposite(o.side)], c[Opposite(o.side)])
  PROVE  RestOfSweep(h, f, b[Opposite(o.side)], c[Opposite(o.side)], Given(b, o), Given(c, r))
<1> DEFINE side == Opposite(o.side)
           q == b[side]
           p == c[side]
           at == DOMAIN q \ {f}
           R == Reachable(b, o)
           L == Reachable(c, r)
           more == r.remaining_quantity
<1>0. /\ SameOrder(r, o)
      /\ r.remaining_quantity
           = o.remaining_quantity - b[Opposite(o.side)][f].remaining_quantity
  BY DEF Spent
<1>1. /\ \A i \in at : h[i] \in DOMAIN p /\ p[h[i]] = q[i]
      /\ \A i, j \in at : i < j => h[i] < h[j]
      /\ \A k \in DOMAIN p : \E i \in at : h[i] = k
  BY DEF Aligned
<1>2. q \in Seq(Entry(ids, prices)) /\ p \in Seq(Entry(ids, prices))
  BY OppositeIsSide DEF Book
<1>3. f \in R /\ R \in SUBSET DOMAIN q /\ L \in SUBSET DOMAIN p
  <2>1. r.side = o.side
    BY <1>0 DEF SameOrder
  <2> QED
    BY <2>1 DEF FirstReached, Reachable, Countable
<1>4. \A i \in at : h[i] \in L <=> i \in R
  BY <1>0, <1>3, ReachableLater
<1>5. /\ q[f].remaining_quantity \in Nat /\ more \in Int
      /\ more = o.remaining_quantity - q[f].remaining_quantity
  BY <1>0, <1>2, <1>3, EntryHasLeft
<1>6. GivesLater(f, Given(b, o), q, R, more)
  <2>1. GivesLater(f, Given(b, o), q, R, o.remaining_quantity - q[f].remaining_quantity)
    BY FirstShare
  <2> QED
    BY <1>5, <2>1, Zenon
<1>7. Gives(Given(b, o), q, R, o.remaining_quantity)
  <2>1. Given(b, o) = Allotment(q, R, o.remaining_quantity) /\ o.remaining_quantity \in Int
    BY DEF Given
  <2> HIDE DEF q, R, p, L
  <2> QED
    BY ONLY <1>2, <1>3, <2>1, AllotmentIs
<1>8. Given(c, r) = Allotment(p, L, more)
  BY <1>0 DEF Given, SameOrder
<1> HIDE DEF side, q, p, R, L, more
<1>9. Gives(Given(c, r), p, L, more)
  BY ONLY <1>2, <1>3, <1>5, <1>8, AllotmentIs
<1>10. ASSUME NEW i \in R \ {f}
       PROVE  WantedBefore(p, L, h[i]) = WantedBefore(q, R \ {f}, i)
  <2> DEFINE S == {j \in R \ {f} : j < i}
             T == {k \in L : k < h[i]}
             w == [j \in DOMAIN q |-> q[j].remaining_quantity]
             v == [k \in DOMAIN p |-> p[k].remaining_quantity]
  <2>1. \A j \in DOMAIN q : j \in Int
    BY <1>2, SeqPositions
  <2>2. \A k \in DOMAIN p : k \in Int
    BY <1>2, SeqPositions
  <2>3. \A x, y \in at : h[x] = h[y] => x = y
    <3> SUFFICES ASSUME NEW x \in at, NEW y \in at, h[x] = h[y] PROVE x = y
      OBVIOUS
    <3>1. h[x] \in Int /\ h[y] \in Int /\ x \in Int /\ y \in Int
      BY <1>1, <2>1, <2>2
    <3>2. ~ (x < y) /\ ~ (y < x)
      BY <1>1, <3>1
    <3> QED
      BY <3>1, <3>2
  <2>4. \A j \in at : h[j] < h[i] <=> j < i
    <3> SUFFICES ASSUME NEW j \in at PROVE h[j] < h[i] <=> j < i
      OBVIOUS
    <3>1. i \in at
      BY <1>3
    <3>2. h[j] \in Int /\ h[i] \in Int /\ j \in Int /\ i \in Int
      BY <1>1, <2>1, <2>2, <3>1
    <3>3. (j < i => h[j] < h[i]) /\ (i < j => h[i] < h[j])
      BY <1>1, <3>1
    <3>4. i = j => ~ (h[j] < h[i])
      BY <3>2
    <3> QED
      BY <3>2, <3>3, <3>4
  <2>5. S \subseteq at /\ S \subseteq R \ {f} /\ T \subseteq L
    BY <1>3
  <2>6. IsFiniteSet(S) /\ IsFiniteSet(T)
    <3>1. S \subseteq DOMAIN q /\ T \subseteq DOMAIN p
      BY <1>3, <2>5
    <3> HIDE DEF S, T
    <3> QED
      BY <1>2, <3>1, SeqPositions
  <2>7. \A j \in DOMAIN q : w[j] = q[j].remaining_quantity /\ w[j] \in Int
    BY <1>2, EntryHasLeft
  <2>8. \A k \in DOMAIN p : v[k] = p[k].remaining_quantity
    OBVIOUS
  <2>9. \A j \in S : h[j] \in T /\ w[j] \in Int /\ v[h[j]] = w[j]
    <3> SUFFICES ASSUME NEW j \in S PROVE h[j] \in T /\ w[j] \in Int /\ v[h[j]] = w[j]
      OBVIOUS
    <3>1. j \in at /\ j \in R /\ j < i
      BY <2>5
    <3>2. h[j] \in T
      BY <1>4, <2>4, <3>1
    <3> HIDE DEF S, T, w, v
    <3> QED
      BY <1>1, <2>7, <2>8, <3>1, <3>2
  <2>10. \A k \in T : \E j \in S : h[j] = k
    <3> SUFFICES ASSUME NEW k \in T PROVE \E j \in S : h[j] = k
      OBVIOUS
    <3>1. PICK j \in at : h[j] = k
      BY <1>1, <1>3, <2>5
    <3>2. j \in R /\ j < i
      BY <1>4, <2>4, <3>1
    <3> QED
      BY <3>1, <3>2
  <2>11. WantedBefore(q, R \ {f}, i) = Wanted(q, S) /\ WantedBefore(p, L, h[i]) = Wanted(p, T)
    BY DEF WantedBefore
  <2> HIDE DEF S, T, w, v
  <2>12. Carries(h, S, T, w, v)
    <3>1. \A x, y \in S : h[x] = h[y] => x = y
      BY <2>3, <2>5
    <3> QED
      BY <2>9, <2>10, <3>1 DEF Carries
  <2>13. Sum(v, T) = Sum(w, S)
    BY <2>6, <2>12, SumCarried
  <2>14. Wanted(q, S) = Sum(w, S)
    <3>1. \A j \in S : w[j] = q[j].remaining_quantity
      BY <1>3, <2>5, <2>7
    <3> QED
      BY <2>6, <3>1, WantedIs
  <2>15. Wanted(p, T) = Sum(v, T)
    <3>1. \A k \in T : v[k] = p[k].remaining_quantity
      BY <1>3, <2>5, <2>8
    <3> QED
      BY <2>6, <3>1, WantedIs
  <2> QED
    BY <2>11, <2>13, <2>14, <2>15
<1>11. ASSUME NEW i \in at
       PROVE  Given(c, r)[h[i]] = Given(b, o)[i]
  <2>1. CASE i \in R
    <3>1. h[i] \in L /\ i \in R \ {f} /\ p[h[i]] = q[i]
      BY <1>1, <1>4, <2>1
    <3>2. WantedBefore(p, L, h[i]) = WantedBefore(q, R \ {f}, i)
      BY <1>10, <3>1
    <3>3. Given(c, r)[h[i]] = Share(p[h[i]].remaining_quantity, more - WantedBefore(p, L, h[i]))
      BY <1>9, <3>1 DEF Gives
    <3>4. Given(b, o)[i] = Share(q[i].remaining_quantity, more - WantedBefore(q, R \ {f}, i))
      BY <1>6, <3>1 DEF GivesLater
    <3> QED
      BY <3>1, <3>2, <3>3, <3>4
  <2>2. CASE i \notin R
    BY <1>1, <1>4, <1>7, <1>9, <2>2 DEF Gives
  <2> QED
    BY <2>1, <2>2
<1> QED
  BY <1>11 DEF RestOfSweep, q, p, at, side

-----------------------------------------------------------------------------
(* A first fill that exhausts its maker *)

(* A part of aligned positions is aligned with its image.                    *)
LEMMA AlignedWithin ==
  ASSUME NEW at, NEW on, NEW h, NEW q, NEW p, Aligned(h, at, q, on, p),
         NEW A \in SUBSET at, NEW K \in SUBSET on, \A i \in at : h[i] \in K <=> i \in A,
         NEW u, NEW v, \A i \in A : v[h[i]] = u[i]
  PROVE  Aligned(h, A, u, K, v)
<1>1. \A i \in A : h[i] \in K /\ v[h[i]] = u[i]
  OBVIOUS
<1>2. \A i, j \in A : i < j => h[i] < h[j]
  BY DEF Aligned
<1>3. ASSUME NEW k \in K PROVE \E i \in A : h[i] = k
  <2>1. PICK i \in at : h[i] = k
    BY DEF Aligned
  <2> QED
    BY <2>1
<1> QED
  BY <1>1, <1>2, <1>3 DEF Aligned

(* The rest of a sweep is a sweep of the rest. *)
LEMMA RestOfSweepIs ==
  ASSUME NEW ids, NEW prices, NEW b \in Book(ids, prices), NEW o, o.side \in Side,
         o.remaining_quantity \in Nat \ {0}, NEW f, FirstReached(f, b, o),
         NEW c \in Book(ids, prices), NEW r, Spent(r, o, f, b),
         c[Opposite(o.side)]
           = Chosen(b[Opposite(o.side)], DOMAIN b[Opposite(o.side)] \ {f})
  PROVE  \E h : RestOfSweep(h, f, b[Opposite(o.side)], c[Opposite(o.side)],
                            Given(b, o), Given(c, r))
<1>1. PICK q : q = b[Opposite(o.side)]
  OBVIOUS
<1>2. PICK p : p = c[Opposite(o.side)]
  OBVIOUS
<1>3. q \in Seq(Entry(ids, prices))
  BY <1>1, OppositeIsSide DEF Book
<1>4. PICK at : at = DOMAIN q \ {f}
  OBVIOUS
<1>5. at \in SUBSET Int /\ IsFiniteSet(at) /\ at \subseteq DOMAIN q
  BY <1>3, <1>4, SeqPositions
<1>6. p = Chosen(q, at)
  BY <1>1, <1>2, <1>4
<1>7. DOMAIN p = 1 .. Cardinality(at)
  BY <1>5, <1>6, ChosenPlaces
<1>8. PICK h : Aligned(h, at, q, 1 .. Cardinality(at), p)
  BY <1>5, <1>6, ChosenIsAligned
<1>9. Aligned(h, DOMAIN q \ {f}, q, DOMAIN p, p)
  BY <1>4, <1>7, <1>8
<1>10. RestOfSweep(h, f, b[Opposite(o.side)], c[Opposite(o.side)], Given(b, o), Given(c, r))
  <2>1. Aligned(h, DOMAIN b[Opposite(o.side)] \ {f}, b[Opposite(o.side)],
                DOMAIN c[Opposite(o.side)], c[Opposite(o.side)])
    BY <1>1, <1>2, <1>9
  <2> QED
    BY <2>1, GivenLater
<1> QED
  BY <1>10

(* A sweep that exhausts its first maker is that fill, then the sweep of     *)
(* what is left, by what is left of the order.                               *)
(* c and r are what is left of the book and the order when the fill exhausts *)
(* the first maker; or leaves it smaller, and nothing of the order.          *)
UsesUp(b, o, f, c, r) ==
  /\ o.side \in Side /\ o.remaining_quantity \in Nat \ {0} /\ FirstReached(f, b, o)
  /\ b[Opposite(o.side)][f].remaining_quantity <= o.remaining_quantity
  /\ Spent(r, o, f, b)
  /\ c[o.side] = b[o.side]
  /\ c[Opposite(o.side)]
       = Chosen(b[Opposite(o.side)], DOMAIN b[Opposite(o.side)] \ {f})

(* The outcome is a fill with the first maker, then that of what is left.    *)
FillFirst(b, o, f, c, r, qty) ==
  /\ Outcome(b, o).fills
       = <<FillOf(b[Opposite(o.side)][f], o, qty)>> \o Outcome(c, r).fills
  /\ Outcome(b, o).book = Outcome(c, r).book

(* The outcome is that fill, then the outcome of what is left. *)
LEMMA PeelWhole ==
  ASSUME NEW ids, NEW prices, NEW b \in Book(ids, prices), NEW c \in Book(ids, prices),
         NEW o, NEW r, NEW f, UsesUp(b, o, f, c, r)
  PROVE  FillFirst(b, o, f, c, r, b[Opposite(o.side)][f].remaining_quantity)
<1>a. o.side \in Side
  BY DEF UsesUp
<1>b. o.remaining_quantity \in Nat \ {0} /\ FirstReached(f, b, o)
  BY DEF UsesUp
<1>c. b[Opposite(o.side)][f].remaining_quantity <= o.remaining_quantity
  BY DEF UsesUp
<1>d. Spent(r, o, f, b)
  BY DEF UsesUp
<1>e. c[o.side] = b[o.side]
  BY DEF UsesUp
<1>f. c[Opposite(o.side)]
        = Chosen(b[Opposite(o.side)], DOMAIN b[Opposite(o.side)] \ {f})
  BY DEF UsesUp
<1> USE <1>a, <1>b, <1>c, <1>d, <1>e, <1>f
<1>0. /\ SameOrder(r, o)
      /\ r.remaining_quantity
           = o.remaining_quantity - b[Opposite(o.side)][f].remaining_quantity
  BY DEF Spent
<1>1. PICK q : q = b[Opposite(o.side)]
  OBVIOUS
<1>2. PICK p : p = c[Opposite(o.side)]
  OBVIOUS
<1>3. PICK g : g = Given(b, o)
  OBVIOUS
<1>4. PICK d : d = Given(c, r)
  OBVIOUS
<1>5. PICK h : RestOfSweep(h, f, q, p, g, d)
  BY <1>1, <1>2, <1>3, <1>4, RestOfSweepIs
<1>6. q \in Seq(Entry(ids, prices)) /\ p \in Seq(Entry(ids, prices))
  BY <1>1, <1>2, OppositeIsSide DEF Book
<1>7. r.side = o.side /\ r.side \in Side
  BY <1>0 DEF SameOrder
<1>8. f \in DOMAIN q /\ q[f].remaining_quantity \in Nat \ {0}
      /\ g[f] = q[f].remaining_quantity
  <2>1. f \in DOMAIN q /\ g[f] = Share(q[f].remaining_quantity, o.remaining_quantity)
    BY <1>1, <1>3, FirstShare
  <2>2. q[f].remaining_quantity \in Nat \ {0}
    BY <1>6, <2>1, EntryHasLeft
  <2> QED
    BY <1>1, <2>1, <2>2 DEF Share
<1>9. \A i \in DOMAIN q : g[i] \in 0 .. q[i].remaining_quantity
  <2>1. Reachable(b, o) \in SUBSET DOMAIN q
    BY <1>1 DEF Reachable, Countable
  <2>2. g = Allotment(q, Reachable(b, o), o.remaining_quantity)
    BY <1>1, <1>3 DEF Given
  <2>3. o.remaining_quantity \in Int
    OBVIOUS
  <2> QED
    BY ONLY <1>6, <2>1, <2>2, <2>3, AllotmentShares DEF Shares
<1>10. \A i \in DOMAIN q : g[i] > 0 => f <= i
  <2>1. Reachable(b, o) \in SUBSET DOMAIN q
    BY <1>1 DEF Reachable, Countable
  <2>2. g = Allotment(q, Reachable(b, o), o.remaining_quantity)
    BY <1>1, <1>3 DEF Given
  <2>3. o.remaining_quantity \in Int
    OBVIOUS
  <2>4. Gives(g, q, Reachable(b, o), o.remaining_quantity)
    BY ONLY <1>6, <2>1, <2>2, <2>3, AllotmentIs
  <2>5. ASSUME NEW i \in DOMAIN q, g[i] > 0 PROVE f <= i
    <3>1. i \in Reachable(b, o)
      BY <2>4, <2>5 DEF Gives
    <3> QED
      BY <3>1 DEF FirstReached
  <2> QED
    BY <2>5
<1>11. /\ Aligned(h, DOMAIN q \ {f}, q, DOMAIN p, p)
       /\ \A i \in DOMAIN q \ {f} : d[h[i]] = g[i]
  BY <1>5 DEF RestOfSweep
<1>12. \A i \in DOMAIN q \ {f} : h[i] \in DOMAIN p /\ p[h[i]] = q[i]
  BY <1>11 DEF Aligned
<1>13. DOMAIN q \in SUBSET Int /\ IsFiniteSet(DOMAIN q)
       /\ DOMAIN p \in SUBSET Int /\ IsFiniteSet(DOMAIN p)
  BY <1>6, SeqPositions
<1>14. PICK u : u = FillsOf(b, o)
  OBVIOUS
<1>15. PICK v : v = FillsOf(c, r)
  OBVIOUS
<1>16. /\ u = [i \in DOMAIN q |-> FillOf(q[i], o, g[i])]
       /\ v = [k \in DOMAIN p |-> FillOf(p[k], r, d[k])]
  BY <1>1, <1>2, <1>3, <1>4, <1>7, <1>14, <1>15 DEF FillsOf
<1>17. PICK A : A = {i \in DOMAIN q : g[i] > 0}
  OBVIOUS
<1>18. PICK K : K = {k \in DOMAIN p : d[k] > 0}
  OBVIOUS
<1>19. Giving(b, o) = A /\ Giving(c, r) = K
  BY <1>1, <1>2, <1>3, <1>4, <1>7, <1>17, <1>18 DEF Giving
<1>20. Chosen(v, K) = Chosen(u, A \ {f})
  <2>1. A \ {f} \in SUBSET (DOMAIN q \ {f}) /\ K \in SUBSET DOMAIN p
    BY <1>17, <1>18
  <2>2. \A i \in DOMAIN q \ {f} : h[i] \in K <=> i \in A \ {f}
    BY <1>11, <1>12, <1>17, <1>18
  <2>3. ASSUME NEW i \in A \ {f} PROVE v[h[i]] = u[i]
    <3>1. i \in DOMAIN q \ {f}
      BY <2>1
    <3>2. h[i] \in DOMAIN p /\ p[h[i]] = q[i] /\ d[h[i]] = g[i]
      BY <1>11, <1>12, <3>1
    <3>3. v[h[i]] = FillOf(q[i], r, g[i]) /\ u[i] = FillOf(q[i], o, g[i])
      BY <1>16, <3>1, <3>2
    <3> QED
      BY <1>0, <3>3 DEF FillOf, SameOrder
  <2>4. Aligned(h, A \ {f}, u, K, v)
    <3>1. \A i \in A \ {f} : v[h[i]] = u[i]
      BY <2>3
    <3> QED
      BY ONLY <1>11, <2>1, <2>2, <3>1, AlignedWithin
  <2>5. A \ {f} \in SUBSET Int /\ IsFiniteSet(A \ {f}) /\ K \in SUBSET Int
    <3>1. A \ {f} \subseteq DOMAIN q
      BY <2>1
    <3> QED
      BY <1>13, <2>1, <3>1, FS_Subset
  <2> QED
    BY <2>4, <2>5, ChosenAligned
<1>21. Chosen(u, A) = <<u[f]>> \o Chosen(u, A \ {f})
  <2>1. A \in SUBSET Int /\ IsFiniteSet(A) /\ A \subseteq DOMAIN q
    <3>1. A \subseteq DOMAIN q
      BY <1>17
    <3> QED
      BY <1>13, <3>1, FS_Subset
  <2>2. Leads(f, A)
    BY <1>8, <1>10, <1>17 DEF Leads
  <2> QED
    BY <2>1, <2>2, ChosenFirst
<1>22. u[f] = FillOf(q[f], o, q[f].remaining_quantity)
  BY <1>8, <1>16
<1>23. Outcome(b, o).fills = Chosen(u, A) /\ Outcome(c, r).fills = Chosen(v, K)
  <2>1. Outcome(b, o).fills = Chosen(FillsOf(b, o), Giving(b, o))
    BY OutcomeIs
  <2>2. Outcome(c, r).fills = Chosen(FillsOf(c, r), Giving(c, r))
    BY <1>7, OutcomeIs
  <2> QED
    BY <1>14, <1>15, <1>19, <2>1, <2>2
<1>24. Outcome(b, o).fills
         = <<FillOf(q[f], o, q[f].remaining_quantity)>> \o Outcome(c, r).fills
  BY <1>20, <1>21, <1>22, <1>23
<1>25. Outcome(c, r).book[Opposite(o.side)] = Outcome(b, o).book[Opposite(o.side)]
  <2>1. PICK x : x = AfterOf(b, o)
    OBVIOUS
  <2>2. PICK y : y = AfterOf(c, r)
    OBVIOUS
  <2>3. /\ x = [i \in DOMAIN q |-> After(q[i], g[i])]
        /\ y = [k \in DOMAIN p |-> After(p[k], d[k])]
    BY <1>1, <1>2, <1>3, <1>4, <1>7, <2>1, <2>2 DEF AfterOf
  <2>4. PICK B : B = {i \in DOMAIN q : x[i].remaining_quantity > 0}
    OBVIOUS
  <2>5. PICK L : L = {k \in DOMAIN p : y[k].remaining_quantity > 0}
    OBVIOUS
  <2>6. Lasting(b, o) = B /\ Lasting(c, r) = L
    BY <1>1, <1>2, <1>7, <2>1, <2>2, <2>4, <2>5 DEF Lasting
  <2>7. f \notin B
    <3>1. PICK m \in Entry(ids, prices) : m = q[f]
      BY <1>6, <1>8, EntryHasLeft
    <3>2. m.remaining_quantity \in 0 .. m.remaining_quantity
      BY <1>8, <3>1
    <3>3. After(m, m.remaining_quantity).remaining_quantity
            = m.remaining_quantity - m.remaining_quantity
      BY <3>1, <3>2, AfterIs
    <3>4. x[f].remaining_quantity = 0
      BY <1>8, <2>3, <3>1, <3>3
    <3> QED
      BY <2>4, <3>4
  <2>8. B \in SUBSET (DOMAIN q \ {f}) /\ L \in SUBSET DOMAIN p
    BY <2>4, <2>5, <2>7
  <2>9. \A i \in DOMAIN q \ {f} : y[h[i]] = x[i]
    BY <1>11, <1>12, <2>3
  <2>10. \A i \in DOMAIN q \ {f} : h[i] \in L <=> i \in B
    BY <1>12, <2>4, <2>5, <2>9
  <2>11. Aligned(h, B, x, L, y)
    <3>1. \A i \in B : y[h[i]] = x[i]
      BY <2>8, <2>9
    <3> QED
      BY ONLY <1>11, <2>8, <2>10, <3>1, AlignedWithin
  <2>12. B \in SUBSET Int /\ IsFiniteSet(B) /\ L \in SUBSET Int
    <3>1. B \subseteq DOMAIN q
      BY <2>8
    <3> QED
      BY <1>13, <2>8, <3>1, FS_Subset
  <2>13. Chosen(y, L) = Chosen(x, B)
    BY <2>11, <2>12, ChosenAligned
  <2>14. Outcome(b, o).book[Opposite(o.side)] = Chosen(AfterOf(b, o), Lasting(b, o))
    BY OutcomeIs
  <2>15. Outcome(c, r).book[Opposite(r.side)] = Chosen(AfterOf(c, r), Lasting(c, r))
    BY <1>7, OutcomeIs
  <2> QED
    BY <1>7, <2>1, <2>2, <2>6, <2>13, <2>14, <2>15
<1>26. LeftOf(c, r) = LeftOf(b, o)
  <2>1. \A i \in DOMAIN q : g[i] \in Int
    BY <1>6, <1>9, EntryHasLeft
  <2>2. PICK at : at = DOMAIN q \ {f}
    OBVIOUS
  <2>3. IsFiniteSet(at) /\ at \subseteq DOMAIN q
    BY <1>13, <2>2, FS_Subset
  <2>4. Sum(g, DOMAIN q) = g[f] + Sum(g, at)
    BY <1>8, <1>13, <2>1, <2>2, SumSplit
  <2>5. Carries(h, at, DOMAIN p, g, d)
    <3>1. \A i \in at : h[i] \in DOMAIN p /\ g[i] \in Int /\ d[h[i]] = g[i]
      BY <1>11, <1>12, <2>1, <2>2
    <3>2. \A y \in DOMAIN p : \E i \in at : h[i] = y
      BY <1>11, <2>2 DEF Aligned
    <3>3. ASSUME NEW i \in at, NEW j \in at, h[i] = h[j] PROVE i = j
      <4>1. i \in Int /\ j \in Int /\ h[i] \in Int /\ h[j] \in Int
        BY <1>13, <2>3, <3>1
      <4>2. (i < j => h[i] < h[j]) /\ (j < i => h[j] < h[i])
        BY <1>11, <2>2 DEF Aligned
      <4> QED
        BY <3>3, <4>1, <4>2
    <3> QED
      BY <3>1, <3>2, <3>3 DEF Carries
  <2>6. Sum(d, DOMAIN p) = Sum(g, at)
    BY <2>3, <2>5, SumCarried
  <2>7. Sum(g, at) \in Int
    BY <2>1, <2>3, SumType
  <2>8. LeftOf(b, o) = o.remaining_quantity - Sum(g, DOMAIN q)
    BY <1>1, <1>3 DEF LeftOf
  <2>9. LeftOf(c, r) = r.remaining_quantity - Sum(d, DOMAIN p)
    BY <1>2, <1>4, <1>7 DEF LeftOf
  <2>10. r.remaining_quantity = o.remaining_quantity - q[f].remaining_quantity
    BY <1>0, <1>1
  <2> QED
    BY <1>8, <2>4, <2>6, <2>7, <2>8, <2>9, <2>10
<1>27. Outcome(c, r).book[o.side] = Outcome(b, o).book[o.side]
  <2>1. Outcome(b, o).book[o.side] =
          IF o.order_type \in {LIMIT, FOK} /\ LeftOf(b, o) > 0
          THEN Queued(b[o.side], o, LeftOf(b, o))
          ELSE b[o.side]
    BY OutcomeIs
  <2>2. Outcome(c, r).book[r.side] =
          IF r.order_type \in {LIMIT, FOK} /\ LeftOf(c, r) > 0
          THEN Queued(c[r.side], r, LeftOf(c, r))
          ELSE c[r.side]
    BY <1>7, OutcomeIs
  <2>3. Queued(b[o.side], r, LeftOf(b, o)) = Queued(b[o.side], o, LeftOf(b, o))
    BY <1>0, SameQueued
  <2>4. r.order_type = o.order_type
    BY <1>0 DEF SameOrder
  <2> QED
    BY <1>7, <1>26, <2>1, <2>2, <2>3, <2>4
<1>28. Outcome(b, o).book = Outcome(c, r).book
  <2>1. /\ Outcome(b, o).book = [s \in Side |-> Outcome(b, o).book[s]]
        /\ Outcome(c, r).book = [s \in Side |-> Outcome(c, r).book[s]]
    BY <1>7, OutcomeIs
  <2>2. ASSUME NEW s \in Side PROVE Outcome(b, o).book[s] = Outcome(c, r).book[s]
    <3>1. s = o.side \/ s = Opposite(o.side)
      BY DEF Side, Opposite, BUY, SELL
    <3> QED
      BY <1>25, <1>27, <3>1
  <2>3. [s \in Side |-> Outcome(b, o).book[s]] = [s \in Side |-> Outcome(c, r).book[s]]
    BY <2>2, Zenon
  <2> QED
    BY <2>1, <2>3, Zenon
<1>z. /\ Outcome(b, o).fills
           = <<FillOf(b[Opposite(o.side)][f], o, b[Opposite(o.side)][f].remaining_quantity)>>
               \o Outcome(c, r).fills
      /\ Outcome(b, o).book = Outcome(c, r).book
  BY <1>1, <1>24, <1>28
<1> QED
  BY <1>z DEF FillFirst

-----------------------------------------------------------------------------
(* A first fill that leaves its maker something *)

(* A fill that leaves the maker something is the last one.                   *)
LeavesSmaller(b, o, f, c, r) ==
  /\ o.side \in Side /\ o.remaining_quantity \in Nat \ {0} /\ FirstReached(f, b, o)
  /\ o.remaining_quantity < b[Opposite(o.side)][f].remaining_quantity
  /\ SameOrder(r, o) /\ r.remaining_quantity = 0
  /\ c[o.side] = b[o.side]
  /\ c[Opposite(o.side)]
       = [b[Opposite(o.side)] EXCEPT ![f] = After(@, o.remaining_quantity)]

(* The outcome is that fill; nothing is left to give another. *)
LEMMA PeelPart ==
  ASSUME NEW ids, NEW prices, NEW b \in Book(ids, prices), NEW c \in Book(ids, prices),
         NEW o, NEW r, NEW f, LeavesSmaller(b, o, f, c, r)
  PROVE  FillFirst(b, o, f, c, r, o.remaining_quantity)
<1>a. o.side \in Side
  BY DEF LeavesSmaller
<1>b. o.remaining_quantity \in Nat \ {0} /\ FirstReached(f, b, o)
  BY DEF LeavesSmaller
<1>c. o.remaining_quantity < b[Opposite(o.side)][f].remaining_quantity
  BY DEF LeavesSmaller
<1>d. SameOrder(r, o) /\ r.remaining_quantity = 0
  BY DEF LeavesSmaller
<1>e. c[o.side] = b[o.side]
  BY DEF LeavesSmaller
<1>f. c[Opposite(o.side)]
        = [b[Opposite(o.side)] EXCEPT ![f] = After(@, o.remaining_quantity)]
  BY DEF LeavesSmaller
<1> USE <1>a, <1>b, <1>c, <1>d, <1>e, <1>f
<1>0. /\ Outcome(b, o).fills = Chosen(FillsOf(b, o), Giving(b, o))
      /\ Outcome(b, o).book = [s \in Side |-> Outcome(b, o).book[s]]
      /\ Outcome(b, o).book[Opposite(o.side)] = Chosen(AfterOf(b, o), Lasting(b, o))
      /\ Outcome(b, o).book[o.side] =
           IF o.order_type \in {LIMIT, FOK} /\ LeftOf(b, o) > 0
           THEN Queued(b[o.side], o, LeftOf(b, o))
           ELSE b[o.side]
  BY OutcomeIs
<1>1. PICK q : q = b[Opposite(o.side)]
  OBVIOUS
<1>2. PICK p : p = c[Opposite(o.side)]
  OBVIOUS
<1>3. PICK g : g = Given(b, o)
  OBVIOUS
<1>4. PICK n \in Nat \ {0} : n = o.remaining_quantity
  OBVIOUS
<1>6. q \in Seq(Entry(ids, prices)) /\ p \in Seq(Entry(ids, prices))
  BY <1>1, <1>2, OppositeIsSide DEF Book
<1>7. r.side = o.side /\ r.side \in Side /\ r.order_type = o.order_type
  BY DEF SameOrder
<1>8. /\ f \in DOMAIN q /\ f \in Int /\ q[f].remaining_quantity \in Nat \ {0}
      /\ n < q[f].remaining_quantity /\ g[f] = n
      /\ GivesLater(f, g, q, Reachable(b, o), n - q[f].remaining_quantity)
  <2>1. /\ f \in DOMAIN q /\ g[f] = Share(q[f].remaining_quantity, n)
        /\ GivesLater(f, g, q, Reachable(b, o), n - q[f].remaining_quantity)
    BY <1>1, <1>3, <1>4, FirstShare
  <2>2. q[f].remaining_quantity \in Nat \ {0}
    BY <1>6, <2>1, EntryHasLeft
  <2>3. n < q[f].remaining_quantity
    BY <1>1, <1>4
  <2>4. f \in Int
    BY <1>6, <2>1, SeqPositions
  <2>5. g[f] = n
    BY <1>4, <2>1, <2>2, <2>3 DEF Share
  <2> QED
    BY <2>1, <2>2, <2>3, <2>4, <2>5
<1>9. ASSUME NEW i \in DOMAIN q, i # f PROVE g[i] = 0
  <2>1. Reachable(b, o) \in SUBSET DOMAIN q
    BY <1>1 DEF Reachable, Countable
  <2>2. g = Allotment(q, Reachable(b, o), n)
    BY <1>1, <1>3, <1>4 DEF Given
  <2>3. n \in Int
    OBVIOUS
  <2>4. Gives(g, q, Reachable(b, o), n)
    BY ONLY <1>6, <2>1, <2>2, <2>3, AllotmentIs
  <2>5. CASE i \in Reachable(b, o)
    <3>1. /\ WantedBefore(q, Reachable(b, o) \ {f}, i) \in Nat
          /\ g[i] = Share(q[i].remaining_quantity,
                          (n - q[f].remaining_quantity)
                            - WantedBefore(q, Reachable(b, o) \ {f}, i))
      BY <1>8, <1>9, <2>5 DEF GivesLater
    <3>2. (n - q[f].remaining_quantity) - WantedBefore(q, Reachable(b, o) \ {f}, i) <= 0
      BY <1>8, <3>1
    <3> QED
      BY <3>1, <3>2 DEF Share
  <2>6. CASE i \notin Reachable(b, o)
    BY <2>4, <2>6 DEF Gives
  <2> QED
    BY <2>5, <2>6
<1>10. DOMAIN q \in SUBSET Int /\ IsFiniteSet(DOMAIN q)
  BY <1>6, SeqPositions
<1>11. p = [q EXCEPT ![f] = After(@, n)]
  BY <1>1, <1>2, <1>4
<1>12. DOMAIN p = DOMAIN q /\ p[f] = After(q[f], n) /\ \A i \in DOMAIN q : i # f => p[i] = q[i]
  BY <1>8, <1>11
<1>13. Giving(b, o) = {f}
  BY <1>1, <1>3, <1>8, <1>9 DEF Giving
<1>14. Outcome(b, o).fills = <<FillOf(q[f], o, n)>>
  <2>1. Outcome(b, o).fills = Chosen(FillsOf(b, o), {f})
    BY <1>0, <1>13
  <2>2. {f} \in SUBSET Int /\ IsFiniteSet({f}) /\ Leads(f, {f})
    <3>1. IsFiniteSet({f})
      BY FS_Singleton
    <3>2. {f} \in SUBSET Int /\ \A i \in {f} : f <= i
      BY <1>8
    <3> QED
      BY <3>1, <3>2 DEF Leads
  <2>3. Chosen(FillsOf(b, o), {f}) = <<FillsOf(b, o)[f]>> \o Chosen(FillsOf(b, o), {f} \ {f})
    BY ONLY <2>2, ChosenFirst
  <2>4. Chosen(FillsOf(b, o), {f} \ {f}) = <<>>
    <3>1. {f} \ {f} = {}
      OBVIOUS
    <3> QED
      BY <3>1, ChosenNone, Zenon
  <2>5. FillsOf(b, o)[f] = FillOf(q[f], o, n)
    BY <1>1, <1>3, <1>8 DEF FillsOf
  <2>6. <<FillsOf(b, o)[f]>> \o <<>> = <<FillsOf(b, o)[f]>>
    <3>0. <<FillsOf(b, o)[f]>> \in Seq({FillsOf(b, o)[f]})
      OBVIOUS
    <3>1. PICK w \in Seq({FillsOf(b, o)[f]}) : w = <<FillsOf(b, o)[f]>>
      BY <3>0
    <3>2. w \o <<>> = w
      BY ConcatEmptySeq
    <3> QED
      BY <3>1, <3>2
  <2> QED
    BY <2>1, <2>3, <2>4, <2>5, <2>6
<1>15. AfterOf(b, o) = p
  <2>1. ASSUME NEW i \in DOMAIN q PROVE After(q[i], g[i]) = p[i]
    <3>1. CASE i = f
      BY <1>8, <1>12, <3>1
    <3>2. CASE i # f
      <4>1. PICK m \in Entry(ids, prices) : m = q[i]
        BY <1>6, EntryHasLeft
      <4>2. 0 \in 0 .. m.remaining_quantity
        BY <4>1 DEF Entry
      <4>3. After(m, 0) = m
        BY <4>2, AfterIs
      <4> QED
        BY <1>9, <1>12, <3>2, <4>1, <4>3
    <3> QED
      BY <3>1, <3>2
  <2>2. AfterOf(b, o) = [i \in DOMAIN q |-> After(q[i], g[i])]
    BY <1>1, <1>3 DEF AfterOf
  <2>3. [i \in DOMAIN q |-> After(q[i], g[i])] = [i \in DOMAIN q |-> p[i]]
    BY <2>1, Zenon
  <2>4. p = [i \in DOMAIN p |-> p[i]]
    BY <1>6
  <2> QED
    BY <1>12, <2>2, <2>3, <2>4, Zenon
<1>16. Lasting(b, o) = DOMAIN p
  <2>1. \A i \in DOMAIN p : p[i].remaining_quantity > 0
    BY <1>6, EntryHasLeft
  <2> QED
    BY <1>1, <1>12, <1>15, <2>1 DEF Lasting
<1>17. Outcome(b, o).book[Opposite(o.side)] = p
  <2>1. Chosen(p, DOMAIN p) = p
    BY <1>6, ChosenAll
  <2> QED
    BY <1>0, <1>15, <1>16, <2>1
<1>18. LeftOf(b, o) = 0
  <2>1. \A i \in DOMAIN q : g[i] \in Int
    BY <1>8, <1>9
  <2>2. {f} \in SUBSET DOMAIN q /\ \A i \in DOMAIN q \ {f} : g[i] = 0
    BY <1>8, <1>9
  <2>3. Sum(g, DOMAIN q) = Sum(g, {f})
    BY <1>10, <2>1, <2>2, SumSubset
  <2>4. Sum(g, {f}) = g[f] + Sum(g, {f} \ {f})
    <3>1. IsFiniteSet({f}) /\ f \in {f} /\ \A i \in {f} : g[i] \in Int
      <4>1. IsFiniteSet({f})
        BY FS_Singleton
      <4>2. \A i \in {f} : g[i] \in Int
        BY <1>8
      <4> QED
        BY <4>1, <4>2
    <3> QED
      BY ONLY <3>1, SumSplit
  <2>5. Sum(g, {f} \ {f}) = 0
    <3>1. {f} \ {f} = {}
      OBVIOUS
    <3> QED
      BY <3>1, SumEmpty
  <2>6. LeftOf(b, o) = n - Sum(g, DOMAIN q)
    BY <1>1, <1>3, <1>4 DEF LeftOf
  <2> QED
    BY <1>8, <2>3, <2>4, <2>5, <2>6
<1>19. Outcome(b, o).book[o.side] = b[o.side]
  BY <1>0, <1>18
<1>20. /\ Outcome(c, r).fills = <<>>
       /\ Outcome(c, r).book = [s \in Side |-> Outcome(c, r).book[s]]
       /\ Outcome(c, r).book[Opposite(o.side)] = p
       /\ Outcome(c, r).book[o.side] = b[o.side]
  <2>1. r.remaining_quantity \in Int /\ r.remaining_quantity <= 0 /\ ~ (r.remaining_quantity > 0)
    OBVIOUS
  <2>2. /\ Outcome(c, r).fills = <<>>
        /\ Outcome(c, r).book = [s \in Side |-> Outcome(c, r).book[s]]
        /\ Outcome(c, r).book[Opposite(r.side)] = c[Opposite(r.side)]
        /\ Outcome(c, r).book[r.side] =
              IF r.order_type \in {LIMIT, FOK} /\ r.remaining_quantity > 0
              THEN Queued(c[r.side], r, r.remaining_quantity)
              ELSE c[r.side]
    BY <1>7, <2>1, OutcomeOfNothing
  <2> QED
    BY <1>2, <1>7, <2>1, <2>2
<1>21. Outcome(b, o).book = Outcome(c, r).book
  <2>2. ASSUME NEW s \in Side PROVE Outcome(b, o).book[s] = Outcome(c, r).book[s]
    <3>1. s = o.side \/ s = Opposite(o.side)
      BY DEF Side, Opposite, BUY, SELL
    <3> QED
      BY <1>17, <1>19, <1>20, <3>1
  <2>3. [s \in Side |-> Outcome(b, o).book[s]] = [s \in Side |-> Outcome(c, r).book[s]]
    BY <2>2, Zenon
  <2> QED
    BY <1>0, <1>20, <2>3, Zenon
<1>22. <<FillOf(q[f], o, n)>> \o <<>> = <<FillOf(q[f], o, n)>>
  <2>1. <<FillOf(q[f], o, n)>> \in Seq({FillOf(q[f], o, n)})
    OBVIOUS
  <2>2. PICK w \in Seq({FillOf(q[f], o, n)}) : w = <<FillOf(q[f], o, n)>>
    BY <2>1
  <2>3. w \o <<>> = w
    BY ConcatEmptySeq
  <2> QED
    BY <2>2, <2>3
<1>z. /\ Outcome(b, o).fills
           = <<FillOf(b[Opposite(o.side)][f], o, o.remaining_quantity)>>
               \o Outcome(c, r).fills
      /\ Outcome(b, o).book = Outcome(c, r).book
  BY <1>1, <1>4, <1>14, <1>20, <1>21, <1>22
<1> QED
  BY <1>z DEF FillFirst

-----------------------------------------------------------------------------
(* Queues in order *)

(* q lists the entries S, each once, in the order that ahead gives their     *)
(* identifiers.                                                              *)
Lists(q, S, ahead) ==
  /\ q \in Seq(S)
  /\ \A e \in S : \E k \in DOMAIN q : q[k] = e
  /\ \A i, j \in DOMAIN q : i < j => <<q[i].order_id, q[j].order_id>> \in ahead

Asymmetric(ahead) == \A x, y : <<x, y>> \in ahead => <<y, x>> \notin ahead

(* An identifier has one place. *)
LEMMA ListedOnce ==
  ASSUME NEW S, NEW ahead, Asymmetric(ahead), NEW q, Lists(q, S, ahead)
  PROVE  \A i, j \in DOMAIN q : q[i].order_id = q[j].order_id => i = j
<1> SUFFICES ASSUME NEW i \in DOMAIN q, NEW j \in DOMAIN q, q[i].order_id = q[j].order_id
             PROVE  i = j
  OBVIOUS
<1>1. i \in Int /\ j \in Int
  <2>1. q \in Seq(S)
    BY DEF Lists
  <2> QED
    BY <2>1, SeqPositions
<1>2. ~ (i < j) /\ ~ (j < i)
  BY DEF Lists, Asymmetric
<1> QED
  BY <1>1, <1>2

(* There is one way to list them. *)
LEMMA ListedOneWay ==
  ASSUME NEW S, NEW ahead, Asymmetric(ahead),
         NEW q, Lists(q, S, ahead), NEW p, Lists(p, S, ahead)
  PROVE  q = p
<1>1. /\ q \in Seq(S) /\ p \in Seq(S)
      /\ \A i \in DOMAIN q : q[i] \in S
      /\ \A k \in DOMAIN p : p[k] \in S
  BY DEF Lists
<1>2. /\ DOMAIN q \in SUBSET Int /\ IsFiniteSet(DOMAIN q)
      /\ DOMAIN p \in SUBSET Int
  BY <1>1, SeqPositions
<1>3. PICK h : h = [i \in DOMAIN q |-> CHOOSE k \in DOMAIN p : p[k] = q[i]]
  OBVIOUS
<1>4. ASSUME NEW i \in DOMAIN q
      PROVE  h[i] \in DOMAIN p /\ p[h[i]] = q[i]
  <2>1. \E k \in DOMAIN p : p[k] = q[i]
    BY <1>1 DEF Lists
  <2> QED
    BY <1>3, <2>1
<1>5. ASSUME NEW i \in DOMAIN q, NEW j \in DOMAIN q, i < j
      PROVE  h[i] < h[j]
  <2>1. <<q[i].order_id, q[j].order_id>> \in ahead
    BY <1>5 DEF Lists
  <2>2. <<p[h[i]].order_id, p[h[j]].order_id>> \in ahead
    BY <1>4, <2>1
  <2>3. <<p[h[j]].order_id, p[h[i]].order_id>> \notin ahead
    BY <2>2 DEF Asymmetric
  <2>3a. h[i] \in DOMAIN p /\ h[j] \in DOMAIN p
    BY <1>4
  <2>3b. ~ (h[j] < h[i])
    BY <2>3, <2>3a DEF Lists
  <2>3c. h[i] # h[j]
    BY <2>2, <2>3
  <2>4. h[i] \in Int /\ h[j] \in Int
    BY <1>2, <1>4
  <2> QED
    BY <2>3b, <2>3c, <2>4
<1>6. ASSUME NEW k \in DOMAIN p
      PROVE  \E i \in DOMAIN q : h[i] = k
  <2>1. PICK i \in DOMAIN q : q[i] = p[k]
    BY <1>1 DEF Lists
  <2>2. p[h[i]].order_id = p[k].order_id /\ h[i] \in DOMAIN p
    BY <1>4, <2>1
  <2>3. h[i] = k
    BY <2>2, ListedOnce
  <2> QED
    BY <2>3
<1>7. Aligned(h, DOMAIN q, q, DOMAIN p, p)
  BY <1>4, <1>5, <1>6 DEF Aligned
<1>8. Chosen(p, DOMAIN p) = Chosen(q, DOMAIN q)
  BY <1>2, <1>7, ChosenAligned
<1> QED
  BY <1>1, <1>8, ChosenAll

(* An order of more, or other, identifiers that agrees on those listed.      *)
LEMMA ListedToo ==
  ASSUME NEW S, NEW ahead, NEW q, Lists(q, S, ahead), NEW wider,
         \A e, m \in S : <<e.order_id, m.order_id>> \in ahead
                           => <<e.order_id, m.order_id>> \in wider
  PROVE  Lists(q, S, wider)
<1>1. q \in Seq(S)
  BY DEF Lists
<1>2. \A i \in DOMAIN q : q[i] \in S
  BY <1>1
<1> QED
  BY <1>1, <1>2 DEF Lists

(* Some of those listed, chosen, are listed. *)
LEMMA ListedFewer ==
  ASSUME NEW S, NEW ahead, NEW q, Lists(q, S, ahead), NEW Z \in SUBSET S,
         NEW at, at = {i \in DOMAIN q : q[i] \in Z}
  PROVE  Lists(Chosen(q, at), Z, ahead)
<1>1. q \in Seq(S)
  BY DEF Lists
<1>2. at \in SUBSET Int /\ IsFiniteSet(at) /\ at \subseteq DOMAIN q
  <2>1. at \subseteq DOMAIN q
    OBVIOUS
  <2> QED
    BY <1>1, <2>1, SeqPositions
<1>3. PICK c : c = Chosen(q, at)
  OBVIOUS
<1>4. c \in Seq(Z)
  <2>1. \A i \in at : q[i] \in Z
    OBVIOUS
  <2> QED
    BY <1>2, <1>3, <2>1, ChosenType
<1>5. /\ \A i \in at : PlaceOf(at, i) \in DOMAIN c /\ c[PlaceOf(at, i)] = q[i]
      /\ \A k \in DOMAIN c : \E i \in at : PlaceOf(at, i) = k /\ c[k] = q[i]
  <2>1. /\ Chosen(q, at) = [k \in 1 .. Cardinality(at) |-> Chosen(q, at)[k]]
        /\ \A i \in at : /\ PlaceOf(at, i) \in 1 .. Cardinality(at)
                         /\ Chosen(q, at)[PlaceOf(at, i)] = q[i]
        /\ \A k \in 1 .. Cardinality(at) :
             \E i \in at : /\ PlaceOf(at, i) = k
                           /\ Chosen(q, at)[k] = q[i]
    BY ONLY <1>2, ChosenPlaces
  <2>2. DOMAIN c = 1 .. Cardinality(at)
    BY <1>3, <2>1
  <2> QED
    BY <1>3, <2>1, <2>2
<1>6. ASSUME NEW e \in Z
      PROVE  \E k \in DOMAIN c : c[k] = e
  <2>1. PICK i \in DOMAIN q : q[i] = e
    BY DEF Lists
  <2> QED
    BY <1>5, <2>1
<1>7. ASSUME NEW k \in DOMAIN c, NEW l \in DOMAIN c, k < l
      PROVE  <<c[k].order_id, c[l].order_id>> \in ahead
  <2>1. PICK i \in at : PlaceOf(at, i) = k /\ c[k] = q[i]
    BY <1>5, Zenon
  <2>2. PICK j \in at : PlaceOf(at, j) = l /\ c[l] = q[j]
    BY <1>5, Zenon
  <2>3. i \in Int /\ j \in Int /\ k \in Int /\ l \in Int
    BY <1>2, <1>4, SeqPositions
  <2>4. i # j
    BY <1>7, <2>1, <2>2, <2>3
  <2>5. ~ (j < i)
    <3>1. j < i => l < k
      BY <1>2, <2>1, <2>2, PlacesInOrder
    <3> QED
      BY <1>7, <2>3, <3>1
  <2>6. i < j /\ i \in DOMAIN q /\ j \in DOMAIN q
    BY <1>2, <2>3, <2>4, <2>5
  <2> QED
    BY <2>1, <2>2, <2>6 DEF Lists
<1> QED
  BY <1>3, <1>4, <1>6, <1>7 DEF Lists

(* An entry changes where it stands. *)
LEMMA ListedChanged ==
  ASSUME NEW S, NEW ahead, Asymmetric(ahead), NEW q, Lists(q, S, ahead),
         NEW f \in DOMAIN q, NEW e, e.order_id = q[f].order_id
  PROVE  Lists([q EXCEPT ![f] = e], (S \ {q[f]}) \cup {e}, ahead)
<1>1. q \in Seq(S) /\ \A i \in DOMAIN q : q[i] \in S
  BY DEF Lists
<1>2. PICK Z : Z = (S \ {q[f]}) \cup {e}
  OBVIOUS
<1>3. PICK p : p = [q EXCEPT ![f] = e]
  OBVIOUS
<1>4. /\ DOMAIN p = DOMAIN q /\ p[f] = e
      /\ \A i \in DOMAIN q : i # f => p[i] = q[i] /\ q[i] # q[f]
  <2>1. \A i \in DOMAIN q : q[i].order_id = q[f].order_id => i = f
    BY ListedOnce
  <2> QED
    BY <1>3, <2>1
<1>5. p \in Seq(Z)
  <2>1. \A i \in DOMAIN p : p[i] \in Z
    BY <1>1, <1>2, <1>4
  <2>2. DOMAIN p = 1 .. Len(q) /\ Len(q) \in Nat
    BY <1>1, <1>4, SeqPositions
  <2>3. p = [i \in DOMAIN p |-> p[i]]
    BY <1>3
  <2> QED
    BY <2>1, <2>2, <2>3, FunctionIsSeq
<1>6. ASSUME NEW m \in Z
      PROVE  \E k \in DOMAIN p : p[k] = m
  <2>1. CASE m = e
    BY <1>4, <2>1
  <2>2. CASE m # e
    <3>1. m \in S /\ m # q[f]
      BY <1>2, <2>2
    <3>2. PICK k \in DOMAIN q : q[k] = m
      BY <3>1 DEF Lists
    <3> QED
      BY <1>4, <3>1, <3>2
  <2> QED
    BY <2>1, <2>2
<1>7. \A i \in DOMAIN q : p[i].order_id = q[i].order_id
  BY <1>4
<1>8. \A i, j \in DOMAIN p : i < j => <<p[i].order_id, p[j].order_id>> \in ahead
  BY <1>4, <1>7 DEF Lists
<1> QED
  BY <1>2, <1>3, <1>5, <1>6, <1>8 DEF Lists

(* A set of the first positions is an interval. *)
LEMMA FirstOnes ==
  ASSUME NEW n \in Nat, NEW A \in SUBSET (1 .. n),
         \A i \in A : \A j \in 1 .. n : j < i => j \in A
  PROVE  A = 1 .. Cardinality(A) /\ Cardinality(A) \in 0 .. n
<1>1. IsFiniteSet(A) /\ A \subseteq Int /\ \A i \in A : i \in 1 .. n
  <2>1. IsFiniteSet(1 .. n)
    BY FS_Interval
  <2>2. IsFiniteSet(A)
    BY <2>1, FS_Subset
  <2> QED
    BY <2>2
<1>2. CASE A = {}
  <2>1. Cardinality(A) = 0
    BY <1>2, FS_EmptySet
  <2> QED
    BY <1>2, <2>1
<1>3. CASE A # {}
  <2>1. Max(A) \in A /\ \A x \in A : x <= Max(A)
    BY <1>1, <1>3, GreatestIs
  <2>2. PICK m \in A : \A x \in A : x <= m
    BY <2>1
  <2>3. m \in 1 .. n
    BY <1>1
  <2>4. A = 1 .. m
    <3>1. \A x \in A : x \in 1 .. m
      BY <1>1, <2>2
    <3>2. \A x \in 1 .. m : x \in A
      <4> SUFFICES ASSUME NEW x \in 1 .. m PROVE x \in A
        OBVIOUS
      <4>1. x \in 1 .. n /\ (x = m \/ x < m)
        BY <2>3
      <4> QED
        BY <4>1
    <3> QED
      BY <3>1, <3>2
  <2>5. Cardinality(1 .. m) = m
    <3>1. Cardinality(1 .. m) = IF 1 > m THEN 0 ELSE m - 1 + 1
      BY <2>3, FS_Interval
    <3> QED
      BY <2>3, <3>1
  <2> QED
    BY <2>3, <2>4, <2>5
<1> QED
  BY <1>2, <1>3

(* Where a newcomer finds its place: those listed stand in the order of      *)
(* their prices, and the wider order puts the newcomer behind every one at   *)
(* its price or a better one and ahead of the others.                        *)
Joins(o, S, ahead, wider) ==
  /\ \A e, m \in S : <<e.order_id, m.order_id>> \in ahead =>
       /\ <<e.order_id, m.order_id>> \in wider
       /\ ~ Before(o.side, m.price, e.price)
  /\ \A e \in S :
       /\ e.price \in Int
       /\ Before(o.side, o.price, e.price) => <<o.order_id, e.order_id>> \in wider
       /\ ~ Before(o.side, o.price, e.price) => <<e.order_id, o.order_id>> \in wider

(* The queue with the newcomer lists the newcomer too. *)
LEMMA ListedNewcomer ==
  ASSUME NEW S, NEW ahead, NEW q, Lists(q, S, ahead), NEW o, o.price \in Int,
         NEW qty, NEW wider, Joins(o, S, ahead, wider)
  PROVE  Lists(Queued(q, o, qty), S \cup {NewEntry(o, qty)}, wider)
<1>1. PICK n : n = Len(q)
  OBVIOUS
<1>2. PICK e : e = NewEntry(o, qty)
  OBVIOUS
<1>3. PICK Z : Z = S \cup {e}
  OBVIOUS
<1>4. PICK w : w = Queued(q, o, qty)
  OBVIOUS
<1>5. PICK A : A = InFront(q, o)
  OBVIOUS
<1>6. PICK c : c = Cardinality(A)
  OBVIOUS
<1>7. /\ q \in Seq(S) /\ n \in Nat /\ DOMAIN q = 1 .. n
      /\ \A i \in 1 .. n : q[i] \in S
      /\ \A m \in S : \E k \in 1 .. n : q[k] = m
      /\ \A i, j \in 1 .. n : i < j => <<q[i].order_id, q[j].order_id>> \in ahead
  <2>1. q \in Seq(S)
    BY DEF Lists
  <2>2. n \in Nat /\ DOMAIN q = 1 .. n
    BY <1>1, <2>1, SeqPositions
  <2>3. \A i \in DOMAIN q : q[i] \in S
    BY <2>1
  <2>4. /\ \A m \in S : \E k \in DOMAIN q : q[k] = m
        /\ \A i, j \in DOMAIN q : i < j => <<q[i].order_id, q[j].order_id>> \in ahead
    BY DEF Lists
  <2> QED
    BY <2>1, <2>2, <2>3, <2>4
<1>8. /\ w \in Seq(Z) /\ DOMAIN w = 1 .. n + 1 /\ c \in 0 .. n
      /\ LetIn(w, q, c, e)
  <2>1. q \in Seq(Z) /\ NewEntry(o, qty) \in Z
    BY <1>2, <1>3, <1>7
  <2>2. /\ w \in Seq(Z) /\ Len(w) = n + 1 /\ c \in 0 .. n /\ LetIn(w, q, c, e)
    BY <1>1, <1>2, <1>4, <1>5, <1>6, <2>1, NewcomerPlace
  <2> QED
    BY <2>2
<1>9. A = {i \in 1 .. n : ~ Before(o.side, o.price, q[i].price)}
  BY <1>5, <1>7 DEF InFront
<1>10. A = 1 .. c
  <2>1. ASSUME NEW i \in A, NEW j \in 1 .. n, j < i
        PROVE  j \in A
    <3>1. i \in 1 .. n /\ <<q[j].order_id, q[i].order_id>> \in ahead
      BY <1>7, <1>9, <2>1
    <3>2. q[i] \in S /\ q[j] \in S
      BY <1>7, <3>1
    <3>3. ~ Before(o.side, q[i].price, q[j].price) /\ q[i].price \in Int /\ q[j].price \in Int
      BY <3>1, <3>2 DEF Joins
    <3>4. ~ Before(o.side, o.price, q[i].price)
      BY <1>9
    <3>5. ~ Before(o.side, o.price, q[j].price)
      BY <3>3, <3>4 DEF Before
    <3> QED
      BY <1>9, <3>5
  <2>2. \A i \in A : \A j \in 1 .. n : j < i => j \in A
    BY <2>1
  <2>3. A \in SUBSET (1 .. n)
    BY <1>9
  <2> QED
    BY ONLY <1>6, <1>7, <2>2, <2>3, FirstOnes
<1>11. \A k \in 1 .. n + 1 :
         w[k] = IF k <= c THEN q[k] ELSE IF k = c + 1 THEN e ELSE q[k - 1]
  BY <1>1, <1>8 DEF LetIn
<1>12. ASSUME NEW m \in Z
       PROVE  \E k \in DOMAIN w : w[k] = m
  <2>1. CASE m = e
    <3>1. c + 1 \in 1 .. n + 1 /\ ~ (c + 1 <= c)
      BY <1>7, <1>8
    <3> QED
      BY <1>8, <1>11, <2>1, <3>1
  <2>2. CASE m \in S
    <3>1. PICK k \in 1 .. n : q[k] = m
      BY <1>7, <2>2
    <3>2. CASE k <= c
      <4>1. k \in 1 .. n + 1
        BY <1>7
      <4> QED
        BY <1>8, <1>11, <3>1, <3>2, <4>1
    <3>3. CASE ~ (k <= c)
      <4>1. k + 1 \in 1 .. n + 1 /\ ~ (k + 1 <= c) /\ k + 1 # c + 1 /\ (k + 1) - 1 = k
        BY <1>7, <1>8, <3>3
      <4> QED
        BY <1>8, <1>11, <3>1, <4>1
    <3> QED
      BY <3>2, <3>3
  <2> QED
    BY <1>3, <2>1, <2>2
<1>13. ASSUME NEW i \in 1 .. n + 1, NEW j \in 1 .. n + 1, i < j
       PROVE  <<w[i].order_id, w[j].order_id>> \in wider
  <2>1. e.order_id = o.order_id
    BY <1>2 DEF NewEntry
  <2>2. ASSUME NEW k \in 1 .. n, NEW l \in 1 .. n, k < l
        PROVE  <<q[k].order_id, q[l].order_id>> \in wider
    BY <1>7, <2>2 DEF Joins
  <2>3. ASSUME NEW k \in 1 .. n
        PROVE  /\ k <= c => <<q[k].order_id, o.order_id>> \in wider
               /\ ~ (k <= c) => <<o.order_id, q[k].order_id>> \in wider
    <3>1. q[k] \in S
      BY <1>7
    <3>2. k \in A <=> k <= c
      BY <1>8, <1>10
    <3> QED
      BY <1>9, <3>1, <3>2 DEF Joins
  <2>4. CASE j <= c
    <3>1. i <= c /\ i \in 1 .. n /\ j \in 1 .. n
      BY <1>7, <1>8, <1>13, <2>4
    <3> QED
      BY <1>11, <1>13, <2>2, <2>4, <3>1
  <2>5. CASE j = c + 1
    <3>1. i <= c /\ i \in 1 .. n /\ ~ (j <= c)
      BY <1>7, <1>8, <1>13, <2>5
    <3>2. w[i] = q[i] /\ w[j] = e
      BY <1>11, <2>5, <3>1
    <3> QED
      BY <2>1, <2>3, <3>1, <3>2
  <2>6. CASE j > c + 1
    <3>1. j - 1 \in 1 .. n /\ ~ (j <= c) /\ j # c + 1 /\ ~ (j - 1 <= c)
      BY <1>7, <1>8, <2>6
    <3>2. w[j] = q[j - 1]
      BY <1>11, <3>1
    <3>3. CASE i <= c
      <4>1. i \in 1 .. n /\ i < j - 1
        BY <1>7, <1>8, <2>6, <3>3
      <4> QED
        BY <1>11, <2>2, <3>1, <3>2, <3>3, <4>1
    <3>4. CASE i = c + 1
      <4>1. w[i] = e
        BY <1>8, <1>11, <3>4
      <4> QED
        BY <2>1, <2>3, <3>1, <3>2, <4>1
    <3>5. CASE i > c + 1
      <4>1. i - 1 \in 1 .. n /\ ~ (i <= c) /\ i # c + 1 /\ i - 1 < j - 1
        BY <1>7, <1>8, <1>13, <3>5
      <4>2. w[i] = q[i - 1]
        BY <1>11, <4>1
      <4> QED
        BY <2>2, <3>1, <3>2, <4>1, <4>2
    <3> QED
      BY <1>8, <3>3, <3>4, <3>5
  <2> QED
    BY <1>8, <2>4, <2>5, <2>6
<1>14. Lists(w, Z, wider)
  BY <1>8, <1>12, <1>13 DEF Lists
<1> QED
  BY <1>2, <1>3, <1>4, <1>14
=============================================================================
