--------------------------- MODULE StackingProofs ---------------------------
(***************************************************************************)
(* For any number of cards, columns and placements, and any gap and range  *)
(* of keys: keys are unique in a column and fit the stored integer, a key  *)
(* chosen under the column's lock stays free and in its place until it is  *)
(* taken, a card lands at the index asked for, and no other card's order   *)
(* changes, a column spread back out included.                             *)
(*                                                                         *)
(* First the arithmetic: distinct keys make the ranks of a stack exactly   *)
(* 0..n-1, so that the neighbours an index names exist and nothing lies    *)
(* between them.  Then the lock: while a placement holds its column, the   *)
(* column can only lose cards, and none that the placement has rewritten.  *)
(***************************************************************************)
EXTENDS Stacking, FiniteSetTheorems, TLAPS

\* A stack whose keys are integers, no two the same.
Sorted(k, S) ==
    /\ IsFiniteSet(S)
    /\ \A c \in S : k[c] \in Int
    /\ \A c, d \in S : c # d => k[c] # k[d]

-----------------------------------------------------------------------------
(* Ranks.                                                                   *)

\* A rank is a place of the stack: RankIn counts cards of the stack other than
\* the card itself.
LEMMA RankBounds ==
  ASSUME NEW k, NEW S, Sorted(k, S), NEW c \in S
  PROVE  /\ Cardinality(S) \in Nat /\ Cardinality(S) > 0
         /\ RankIn(k, S, c) \in 0..Cardinality(S) - 1
<1> DEFINE U == {d \in S : k[d] < k[c]}
<1>1. IsFiniteSet(S \ {c}) /\ Cardinality(S \ {c}) = Cardinality(S) - 1
  BY FS_RemoveElement DEF Sorted
<1>2. Cardinality(S) \in Nat /\ Cardinality(S \ {c}) \in Nat
  BY <1>1, FS_CardinalityType DEF Sorted
<1>3. U \in SUBSET (S \ {c})
  BY DEF Sorted
<1>4. IsFiniteSet(U) /\ Cardinality(U) <= Cardinality(S \ {c})
  BY <1>1, <1>3, FS_Subset
<1>5. Cardinality(U) \in Nat
  BY <1>4, FS_CardinalityType
<1>6. RankIn(k, S, c) = Cardinality(U)
  BY DEF RankIn
<1>7. QED
  BY <1>1, <1>2, <1>4, <1>5, <1>6

\* A card above another has the smaller rank.
LEMMA RankAbove ==
  ASSUME NEW k, NEW S, Sorted(k, S), NEW c \in S, NEW d \in S, k[c] < k[d]
  PROVE  RankIn(k, S, c) < RankIn(k, S, d)
<1> DEFINE U(e) == {b \in S : k[b] < k[e]}
<1>1. U(d) \in SUBSET S /\ U(c) \in SUBSET U(d)
  BY DEF Sorted
<1>2. IsFiniteSet(U(d))
  BY <1>1, FS_Subset DEF Sorted
<1>3. /\ Cardinality(U(c)) <= Cardinality(U(d))
      /\ (Cardinality(U(d)) = Cardinality(U(c)) => U(d) = U(c))
  BY <1>1, <1>2, FS_Subset
<1>4. c \in U(d) /\ c \notin U(c)
  BY DEF Sorted
<1>5. Cardinality(U(c)) \in Nat /\ Cardinality(U(d)) \in Nat
  BY <1>1, <1>2, FS_Subset, FS_CardinalityType
<1>6. RankIn(k, S, c) = Cardinality(U(c)) /\ RankIn(k, S, d) = Cardinality(U(d))
  BY DEF RankIn
<1> HIDE DEF U
<1>7. QED
  BY <1>3, <1>4, <1>5, <1>6

\* Cards stand in the order of their ranks.
LEMMA RankOrder ==
  ASSUME NEW k, NEW S, Sorted(k, S), NEW c \in S, NEW d \in S
  PROVE  /\ k[c] < k[d] <=> RankIn(k, S, c) < RankIn(k, S, d)
         /\ RankIn(k, S, c) = RankIn(k, S, d) => c = d
<1>1. /\ RankIn(k, S, c) \in Int /\ RankIn(k, S, d) \in Int
      /\ k[c] \in Int /\ k[d] \in Int
  BY RankBounds DEF Sorted
<1>2. k[c] < k[d] => RankIn(k, S, c) < RankIn(k, S, d)
  BY RankAbove
<1>3. k[d] < k[c] => RankIn(k, S, d) < RankIn(k, S, c)
  BY RankAbove
<1>4. k[c] = k[d] => c = d
  BY DEF Sorted
<1>5. QED
  BY <1>1, <1>2, <1>3, <1>4

\* Every place of the stack is taken: the offset of a query that reads the
\* stack in order finds a card.
LEMMA RankOnto ==
  ASSUME NEW k, NEW S, Sorted(k, S), NEW i \in 0..Cardinality(S) - 1
  PROVE  \E c \in S : RankIn(k, S, c) = i
<1> DEFINE n == Cardinality(S)
           T == (0..n - 1) \ {i}
           f == [c \in S |-> RankIn(k, S, c)]
<1>0. n \in Nat
  BY FS_CardinalityType DEF Sorted
<1>1. SUFFICES ASSUME \A c \in S : RankIn(k, S, c) # i PROVE FALSE
  OBVIOUS
<1>2. IsFiniteSet(0..n - 1) /\ Cardinality(0..n - 1) = n
  <2>1. 0 \in Int /\ n - 1 \in Int /\ ~(0 > n - 1)
    BY <1>0
  <2>2. QED
    BY <1>0, <2>1, FS_Interval
<1>3. IsFiniteSet(T) /\ Cardinality(T) = n - 1
  BY <1>2, FS_RemoveElement
<1>4. f \in [S -> T]
  BY <1>1, RankBounds
<1>5. Cardinality(T) < Cardinality(S)
  BY <1>0, <1>3
<1> HIDE DEF f, T, n
<1>6. IsFiniteSet(S)
  BY DEF Sorted
<1>7. PICK x, y \in S : x # y /\ f[x] = f[y]
  BY <1>3, <1>4, <1>5, <1>6, FS_PigeonHole
<1>8. RankIn(k, S, x) = RankIn(k, S, y)
  BY <1>7 DEF f
<1>9. QED
  BY <1>7, <1>8, RankOrder

-----------------------------------------------------------------------------
(* The key a placement chooses.                                             *)

\* The card at a place of the stack: the offset of the code's query.
Nth(k, S, i) == CHOOSE c \in S : RankIn(k, S, c) = i

\* There is a card at every place, and those above it are those of a smaller
\* rank.
LEMMA NthCard ==
  ASSUME NEW k, NEW S, Sorted(k, S), NEW i \in 0..Cardinality(S) - 1
  PROVE  /\ Nth(k, S, i) \in S
         /\ RankIn(k, S, Nth(k, S, i)) = i
         /\ \A d \in S : k[d] < k[Nth(k, S, i)] <=> RankIn(k, S, d) < i
<1>1. Nth(k, S, i) \in S /\ RankIn(k, S, Nth(k, S, i)) = i
  BY RankOnto DEF Nth
<1>2. QED
  BY <1>1, RankOrder

\* KeyAt by cases: nothing to look at, the top, between two, the bottom.
LEMMA KeyAtCases ==
  ASSUME NEW k, NEW S, NEW index \in Nat, Cardinality(S) \in Nat
  PROVE  LET n == Cardinality(S) IN
         /\ n = 0 => KeyAt(k, S, index) = 0
         /\ n > 0 /\ index = 0 => KeyAt(k, S, index) = AboveTop(k[Nth(k, S, 0)])
         /\ index \in 1..n - 1 =>
              KeyAt(k, S, index) = Between(k[Nth(k, S, index - 1)], k[Nth(k, S, index)])
         /\ n > 0 /\ index >= n => KeyAt(k, S, index) = BelowBottom(k[Nth(k, S, n - 1)])
<1> DEFINE n == Cardinality(S)
<1>1. CASE n = 0
  BY <1>1 DEF KeyAt
<1>2. CASE n > 0 /\ index = 0
  BY <1>2 DEF KeyAt, Nth
<1>3. CASE index \in 1..n - 1
  BY <1>3 DEF KeyAt, Nth
<1>4. CASE n > 0 /\ index >= n
  BY <1>4 DEF KeyAt, Nth
<1>5. QED
  BY <1>1, <1>2, <1>3, <1>4

\* What a key chosen between two neighbours, or beyond an end, is.
LEMMA KeysChosen ==
  ASSUME NEW a \in Keys, NEW b \in Keys
  PROVE  /\ Between(a, b) # NoRoom => Between(a, b) \in Keys /\ a < Between(a, b) /\ Between(a, b) < b
         /\ Between(a, b) = NoRoom => b - a < 2
         /\ AboveTop(a) # NoRoom => AboveTop(a) \in Keys /\ AboveTop(a) < a
         /\ AboveTop(a) = NoRoom => a - GAP < LOWEST
         /\ BelowBottom(a) # NoRoom => BelowBottom(a) \in Keys /\ a < BelowBottom(a)
         /\ BelowBottom(a) = NoRoom => a + GAP > HIGHEST
<1>1. /\ a \in Int /\ b \in Int /\ LOWEST <= a /\ a <= HIGHEST /\ LOWEST <= b /\ b <= HIGHEST
      /\ GAP \in Nat /\ GAP >= 2 /\ LOWEST \in Int /\ HIGHEST \in Int
  BY StackingConstants DEF Keys
<1>2. /\ Between(a, b) # NoRoom => Between(a, b) \in Keys /\ a < Between(a, b) /\ Between(a, b) < b
      /\ Between(a, b) = NoRoom => b - a < 2
  <2>1. CASE b - a < 2
    BY <1>1, <2>1 DEF Between, NoRoom
  <2>2. CASE ~(b - a < 2)
    <3> DEFINE h == (b - a) \div 2
    <3>1. h \in Int /\ 1 <= h /\ h < b - a
      BY <1>1, <2>2
    <3>2. Between(a, b) = a + h
      BY <2>2 DEF Between
    <3> HIDE DEF h
    <3>3. QED
      BY <1>1, <2>2, <3>1, <3>2 DEF Keys, NoRoom
  <2>3. QED
    BY <2>1, <2>2
<1>3. /\ AboveTop(a) # NoRoom => AboveTop(a) \in Keys /\ AboveTop(a) < a
      /\ AboveTop(a) = NoRoom => a - GAP < LOWEST
  BY <1>1 DEF AboveTop, NoRoom, Keys
<1>4. /\ BelowBottom(a) # NoRoom => BelowBottom(a) \in Keys /\ a < BelowBottom(a)
      /\ BelowBottom(a) = NoRoom => a + GAP > HIGHEST
  BY <1>1 DEF BelowBottom, NoRoom, Keys
<1>5. QED
  BY <1>2, <1>3, <1>4

\* A key that is found fits the stored integer, is nobody's in the stack, and
\* has above it as many cards as the index asked for, or all of a shorter
\* stack.
Places(k, S, index, h) ==
    /\ h \in Keys
    /\ \A d \in S : k[d] # h
    /\ Cardinality({d \in S : k[d] < h}) = Smaller(index, Cardinality(S))

LEMMA ChosenKey ==
  ASSUME NEW k, NEW S, Sorted(k, S), \A c \in S : k[c] \in Keys, NEW index \in Nat,
         KeyAt(k, S, index) # NoRoom
  PROVE  Places(k, S, index, KeyAt(k, S, index))
<1> DEFINE n == Cardinality(S)
           h == KeyAt(k, S, index)
<1>0. n \in Nat /\ IsFiniteSet(S) /\ \A c \in S : k[c] \in Int
  BY FS_CardinalityType DEF Sorted
<1>1. CASE n = 0
  <2>1. S = {}
    BY <1>0, <1>1, FS_EmptySet
  <2>2. h = 0
    BY <1>0, <1>1, KeyAtCases
  <2>3. {d \in S : k[d] < h} = {}
    BY <2>1
  <2>4. 0 \in Keys
    BY StackingConstants DEF Keys
  <2>5. Smaller(index, n) = 0
    BY <1>1 DEF Smaller
  <2>6. QED
    BY <1>1, <2>1, <2>2, <2>3, <2>4, <2>5, FS_EmptySet DEF Places
<1>2. CASE n > 0 /\ index = 0
  <2> DEFINE t == Nth(k, S, 0)
  <2>1. t \in S /\ \A d \in S : ~(k[d] < k[t])
    <3>1. 0 \in 0..n - 1
      BY <1>0, <1>2
    <3>2. \A d \in S : ~(RankIn(k, S, d) < 0)
      BY RankBounds
    <3>3. QED
      BY <3>1, <3>2, NthCard
  <2>2. h = AboveTop(k[t])
    BY <1>0, <1>2, KeyAtCases
  <2> HIDE DEF t, h
  <2>3. h \in Keys /\ h < k[t]
    BY <2>1, <2>2, KeysChosen DEF h
  <2>4. h \in Int
    BY <2>3 DEF Keys
  <2>5. \A d \in S : h < k[d]
    BY <1>0, <2>1, <2>3, <2>4
  <2>6. {d \in S : k[d] < h} = {}
    BY <1>0, <2>4, <2>5
  <2>7. Smaller(index, n) = 0
    BY <1>0, <1>2 DEF Smaller
  <2>8. QED
    BY <1>0, <2>3, <2>4, <2>5, <2>6, <2>7, FS_EmptySet DEF Places, h
<1>3. CASE index \in 1..n - 1
  <2> DEFINE t == Nth(k, S, index)
             s == Nth(k, S, index - 1)
  <2>1. t \in S /\ RankIn(k, S, t) = index /\ \A d \in S : k[d] < k[t] <=> RankIn(k, S, d) < index
    <3>1. index \in 0..n - 1
      BY <1>0, <1>3
    <3>2. QED
      BY <3>1, NthCard
  <2>2. s \in S /\ RankIn(k, S, s) = index - 1
    <3>1. index - 1 \in 0..n - 1
      BY <1>0, <1>3
    <3>2. QED
      BY <3>1, NthCard
  <2>3. h = Between(k[s], k[t])
    BY <1>0, <1>3, KeyAtCases
  <2> HIDE DEF s, t, h
  <2>4. h \in Keys /\ k[s] < h /\ h < k[t]
    BY <2>1, <2>2, <2>3, KeysChosen DEF h
  <2>5. h \in Int
    BY <2>4 DEF Keys
  <2>6. \A d \in S : k[d] < k[t] => k[d] <= k[s]
    <3>1. SUFFICES ASSUME NEW d \in S, k[d] < k[t] PROVE k[d] <= k[s]
      OBVIOUS
    <3>2. RankIn(k, S, d) < index /\ RankIn(k, S, d) \in Int
      BY <2>1, <3>1, RankBounds
    <3>3. ~(RankIn(k, S, s) < RankIn(k, S, d))
      BY <2>2, <3>2
    <3>4. ~(k[s] < k[d])
      BY <2>2, <3>3, RankOrder
    <3>5. QED
      BY <1>0, <2>2, <3>4
  <2>7. \A d \in S : k[d] # h /\ (k[d] < h <=> k[d] < k[t])
    BY <1>0, <2>1, <2>2, <2>4, <2>5, <2>6
  <2>8. {d \in S : k[d] < h} = {d \in S : k[d] < k[t]}
    BY <2>7
  <2>9. Cardinality({d \in S : k[d] < h}) = index
    BY <2>1, <2>8 DEF RankIn
  <2>10. Smaller(index, n) = index
    BY <1>0, <1>3 DEF Smaller
  <2>11. QED
    BY <2>4, <2>7, <2>9, <2>10 DEF Places, h
<1>4. CASE n > 0 /\ index >= n
  <2> DEFINE t == Nth(k, S, n - 1)
  <2>1. t \in S /\ \A d \in S : k[d] <= k[t]
    <3>1. n - 1 \in 0..n - 1
      BY <1>0, <1>4
    <3>2. t \in S /\ RankIn(k, S, t) = n - 1
      BY <3>1, NthCard
    <3>3. \A d \in S : ~(RankIn(k, S, t) < RankIn(k, S, d))
      BY <1>0, <3>2, RankBounds
    <3>4. \A d \in S : ~(k[t] < k[d])
      BY <3>2, <3>3, RankOrder
    <3>5. QED
      BY <1>0, <3>2, <3>4
  <2>2. h = BelowBottom(k[t])
    BY <1>0, <1>4, KeyAtCases
  <2> HIDE DEF t, h
  <2>3. h \in Keys /\ k[t] < h
    BY <2>1, <2>2, KeysChosen DEF h
  <2>4. h \in Int
    BY <2>3 DEF Keys
  <2>5. \A d \in S : k[d] < h
    BY <1>0, <2>1, <2>3, <2>4
  <2>6. {d \in S : k[d] < h} = S
    BY <2>5
  <2>7. Smaller(index, n) = n
    BY <1>0, <1>4 DEF Smaller
  <2>8. QED
    BY <1>0, <2>3, <2>4, <2>5, <2>6, <2>7 DEF Places, h
<1>5. QED
  BY <1>0, <1>1, <1>2, <1>3, <1>4

-----------------------------------------------------------------------------
(* A column spread back out.                                                *)

\* More steps go further.
LEMMA TimesMonotone ==
  ASSUME NEW a \in Nat, NEW b \in Nat, NEW s \in Nat, a <= b
  PROVE  a * s \in Nat /\ b * s \in Nat /\ a * s <= b * s
<1> DEFINE d == b - a
<1>1. d \in Nat /\ b = a + d
  OBVIOUS
<1> HIDE DEF d
<1>2. b * s = a * s + d * s
  BY <1>1
<1>3. a * s \in Nat /\ d * s \in Nat
  BY <1>1
<1>4. QED
  BY <1>2, <1>3

\* The step is at most the gap, and the gap itself while that fits; the keys
\* of `count' cards and one more step are within the range.
LEMMA StepFits ==
  ASSUME NEW count \in Nat, count < HIGHEST
  PROVE  /\ Step(count) \in Nat /\ 1 <= Step(count)
         /\ (count + 1) * Step(count) <= HIGHEST
         /\ (count + 1) * GAP <= HIGHEST => Step(count) = GAP
<1> DEFINE q == HIGHEST \div (count + 1)
<1>0. HIGHEST \in Nat /\ GAP \in Nat /\ GAP >= 2 /\ count + 1 \in Nat /\ count + 1 > 0
  BY StackingConstants
<1>1. q \in Nat /\ q * (count + 1) <= HIGHEST /\ HIGHEST < (q + 1) * (count + 1)
  BY <1>0
<1>2. Step(count) = IF GAP <= q THEN GAP ELSE q
  BY DEF Step, Smaller
<1> HIDE DEF q
<1>3. q >= 1
  <2>1. q = 0 => (q + 1) * (count + 1) = count + 1
    BY <1>0
  <2>2. QED
    BY <1>0, <1>1, <2>1
<1>4. \A s \in Nat : s <= q => (count + 1) * s <= HIGHEST
  <2>1. SUFFICES ASSUME NEW s \in Nat, s <= q PROVE (count + 1) * s <= HIGHEST
    OBVIOUS
  <2>2. (count + 1) * s <= (count + 1) * q
    <3>1. s * (count + 1) <= q * (count + 1)
      BY <1>0, <1>1, <2>1, TimesMonotone
    <3>2. (count + 1) * s = s * (count + 1) /\ (count + 1) * q = q * (count + 1)
      BY <1>0, <1>1, <2>1
    <3>3. QED
      BY <3>1, <3>2
  <2>3. (count + 1) * q = q * (count + 1)
    BY <1>0, <1>1
  <2>30. (count + 1) * s \in Nat /\ q * (count + 1) \in Nat
    BY <1>0, <1>1, <2>1
  <2>4. QED
    BY <1>0, <1>1, <2>2, <2>3, <2>30
<1>5. (count + 1) * GAP <= HIGHEST => GAP <= q
  <2>1. SUFFICES ASSUME (count + 1) * GAP <= HIGHEST, q + 1 <= GAP PROVE FALSE
    BY <1>0, <1>1
  <2>2. (q + 1) * (count + 1) <= (count + 1) * GAP
    <3>1. (q + 1) * (count + 1) <= GAP * (count + 1)
      BY <1>0, <1>1, <2>1, TimesMonotone
    <3>2. GAP * (count + 1) = (count + 1) * GAP
      BY <1>0
    <3>3. QED
      BY <3>1, <3>2
  <2>3. (q + 1) * (count + 1) \in Nat /\ (count + 1) * GAP \in Nat
    BY <1>0, <1>1
  <2>4. QED
    BY <1>0, <1>1, <2>1, <2>2, <2>3
<1>6. QED
  BY <1>0, <1>1, <1>2, <1>3, <1>4, <1>5

\* A column spread back out keeps its order, its keys are a step apart, and a
\* step is left at either end.
Spreads(k, S, R, s) ==
    /\ R \in [S -> Keys]
    /\ \A c, d \in S : k[c] < k[d] <=> R[c] < R[d]
    /\ \A c, d \in S : R[c] < R[d] => R[c] + s <= R[d]
    /\ \A c \in S : s <= R[c] /\ R[c] + s <= HIGHEST

LEMMA RespacedKeepsOrder ==
  ASSUME NEW k, NEW S, Sorted(k, S), Cardinality(S) < HIGHEST
  PROVE  Spreads(k, S, Respaced(k, S), Step(Cardinality(S)))
<1> DEFINE n == Cardinality(S)
           s == Step(n)
           R == Respaced(k, S)
           rank(c) == RankIn(k, S, c)
<1>0. n \in Nat /\ HIGHEST \in Nat /\ LOWEST \in Int /\ LOWEST <= 0
  BY FS_CardinalityType, StackingConstants DEF Sorted
<1>1. s \in Nat /\ 1 <= s /\ (n + 1) * s <= HIGHEST
  BY <1>0, StepFits
<1>2. \A c \in S : rank(c) \in 0..n - 1
  BY RankBounds
<1>3. \A c \in S : R[c] = (rank(c) + 1) * s
  BY DEF Respaced, SpreadKey
<1>4. \A c, d \in S : k[c] < k[d] <=> rank(c) < rank(d)
  BY RankOrder
<1>5. DOMAIN R = S /\ R = [c \in S |-> R[c]]
  BY DEF Respaced
<1> HIDE DEF n, s, R, rank
<1>6. \A c, d \in S : rank(c) < rank(d) => R[c] + s <= R[d]
  <2>1. SUFFICES ASSUME NEW c \in S, NEW d \in S, rank(c) < rank(d) PROVE R[c] + s <= R[d]
    OBVIOUS
  <2>2. rank(c) \in Nat /\ rank(d) \in Nat /\ rank(c) + 2 <= rank(d) + 1
    BY <1>0, <1>2, <2>1
  <2>3. (rank(c) + 2) * s <= (rank(d) + 1) * s
    BY <1>1, <2>2, TimesMonotone
  <2>4. (rank(c) + 2) * s = (rank(c) + 1) * s + s
    BY <1>1, <2>2
  <2>5. QED
    BY <1>3, <2>3, <2>4
<1>7. \A c \in S : R[c] \in Int /\ s <= R[c] /\ R[c] + s <= HIGHEST
  <2>1. SUFFICES ASSUME NEW c \in S PROVE R[c] \in Int /\ s <= R[c] /\ R[c] + s <= HIGHEST
    OBVIOUS
  <2>2. rank(c) \in Nat /\ rank(c) + 2 <= n + 1
    BY <1>0, <1>2
  <2>3. (rank(c) + 2) * s <= (n + 1) * s /\ (n + 1) * s \in Nat
    BY <1>0, <1>1, <2>2, TimesMonotone
  <2>4. 1 * s <= (rank(c) + 1) * s /\ (rank(c) + 1) * s \in Nat
    BY <1>0, <1>1, <2>2, TimesMonotone
  <2>5. (rank(c) + 2) * s = (rank(c) + 1) * s + s /\ 1 * s = s
    BY <1>0, <1>1, <2>2
  <2>6. QED
    BY <1>0, <1>1, <1>3, <2>3, <2>4, <2>5
<1>8. R \in [S -> Keys]
  <2>1. \A c \in S : R[c] \in Keys
    BY <1>0, <1>1, <1>7 DEF Keys
  <2>2. QED
    BY <1>5, <2>1
<1>9. \A c, d \in S : k[c] < k[d] <=> R[c] < R[d]
  <2>1. SUFFICES ASSUME NEW c \in S, NEW d \in S PROVE rank(c) < rank(d) <=> R[c] < R[d]
    BY <1>4
  <2>2. rank(c) \in Int /\ rank(d) \in Int /\ R[c] \in Int /\ R[d] \in Int
    BY <1>0, <1>2, <1>7
  <2>3. rank(d) < rank(c) => R[d] < R[c]
    BY <1>1, <1>6, <2>2
  <2>4. rank(c) < rank(d) => R[c] < R[d]
    BY <1>1, <1>6, <2>2
  <2>5. rank(c) = rank(d) => R[c] = R[d]
    BY <1>3
  <2>6. QED
    BY <2>2, <2>3, <2>4, <2>5
<1>10. \A c, d \in S : R[c] < R[d] => R[c] + s <= R[d]
  BY <1>4, <1>6, <1>9
<1>11. QED
  BY <1>7, <1>8, <1>9, <1>10 DEF Spreads, n, s, R

\* In a column whose keys are a whole gap apart every place asked for has room.
LEMMA RoomWhenApart ==
  ASSUME NEW k, NEW S, Sorted(k, S), NEW index \in Nat,
         \A c \in S : k[c] \in Keys /\ GAP <= k[c] /\ k[c] + GAP <= HIGHEST,
         \A c, d \in S : k[c] < k[d] => k[c] + GAP <= k[d]
  PROVE  KeyAt(k, S, index) # NoRoom
<1> DEFINE n == Cardinality(S)
           h == KeyAt(k, S, index)
<1>0. n \in Nat /\ \A c \in S : k[c] \in Int
  BY FS_CardinalityType DEF Sorted
<1>00. GAP \in Nat /\ GAP >= 2 /\ LOWEST \in Int /\ LOWEST + GAP <= 0 /\ HIGHEST \in Nat
  BY StackingConstants
<1>1. CASE n = 0
  BY <1>0, <1>00, <1>1, KeyAtCases DEF NoRoom
<1>2. CASE n > 0 /\ index = 0
  <2>1. 0 \in 0..n - 1
    BY <1>0, <1>2
  <2>2. PICK t \in S : h = AboveTop(k[t])
    BY <1>0, <1>2, <2>1, NthCard, KeyAtCases
  <2>3. k[t] - GAP >= LOWEST
    BY <1>0, <1>00
  <2>4. QED
    BY <1>0, <1>00, <2>2, <2>3, KeysChosen
<1>3. CASE index \in 1..n - 1
  <2>1. index \in 0..n - 1 /\ index - 1 \in 0..n - 1
    BY <1>0, <1>3
  <2>2. PICK s \in S, t \in S : k[s] < k[t] /\ h = Between(k[s], k[t])
    <3>1. Nth(k, S, index) \in S /\ Nth(k, S, index - 1) \in S
      BY <2>1, NthCard
    <3>2. RankIn(k, S, Nth(k, S, index - 1)) < index
      BY <2>1, NthCard
    <3>3. k[Nth(k, S, index - 1)] < k[Nth(k, S, index)]
      BY <2>1, <3>1, <3>2, NthCard
    <3>4. QED
      BY <1>0, <1>3, <3>1, <3>3, KeyAtCases
  <2>3. ~(k[t] - k[s] < 2)
    BY <1>0, <1>00, <2>2
  <2>4. QED
    BY <2>2, <2>3, KeysChosen
<1>4. CASE n > 0 /\ index >= n
  <2>1. n - 1 \in 0..n - 1
    BY <1>0, <1>4
  <2>2. PICK t \in S : h = BelowBottom(k[t])
    BY <1>0, <1>4, <2>1, NthCard, KeyAtCases
  <2>3. ~(k[t] + GAP > HIGHEST)
    BY <1>0, <1>00
  <2>4. QED
    BY <2>2, <2>3, KeysChosen
<1>5. QED
  BY <1>0, <1>1, <1>2, <1>3, <1>4

-----------------------------------------------------------------------------
(* The inductive invariant.                                                 *)

Loaded == [col : Columns \cup {None}, key : Keys \cup {None}]

Spreadings == UNION {[D -> Keys] : D \in SUBSET Cards}

Placement ==
    [card : Cards \cup {None}, to : Columns \cup {None}, index : Nat \cup {None},
     seen : Loaded \cup {None}, state : {"idle", "loaded", "placed", "failed"},
     key : Int \cup {None}, spread : Spreadings, above : SUBSET Cards]

\* Cards have keys in columns only, and requests are records of their fields.
Shapes ==
    /\ col \in [Cards -> Columns \cup {None}]
    /\ key \in [Cards -> Keys \cup {None}]
    /\ \A c \in Cards : IF col[c] = None THEN key[c] = None ELSE key[c] \in Keys
    /\ req \in [Requests -> Placement]

\* uq_task_column_id_position.
UniqueKeys ==
    \A c, d \in Cards : c # d /\ col[c] # None /\ col[c] = col[d] => key[c] # key[d]

\* Of two placements, each has a card of its own, and a column of its own once
\* it has chosen its key.
Apart(p, q) ==
    /\ p.state # "idle" /\ q.state # "idle" => p.card # q.card
    /\ p.state = "placed" /\ q.state = "placed" => p.to # q.to

OwnCards == \A r, q \in Requests : r # q => Apart(req[r], req[q])

\* What a placement loaded of its card's column is still so.
Current(p) ==
    p.state # "idle" =>
        /\ p.card \in Cards /\ p.to \in Columns /\ p.index \in Nat /\ p.seen \in Loaded
        /\ p.seen.col = col[p.card]
        /\ p.seen.col = None => p.seen.key = None

\* The key a card will have once a placement is written.
KeyAfter(p, d) == IF d \in DOMAIN p.spread THEN p.spread[d] ELSE key[d]

\* A placement spreads out the whole of its column or nothing of it, in the
\* order the column has, and the key it chose is free and in its place.
Settled(p) ==
    p.state = "placed" =>
        /\ p.key \in Keys
        /\ DOMAIN p.spread = {} \/ DOMAIN p.spread = Stack(p.to)
        /\ \A c, d \in DOMAIN p.spread : key[c] < key[d] <=> p.spread[c] < p.spread[d]
        /\ \A d \in Stack(p.to) \ {p.card} :
              /\ d \notin DOMAIN p.spread => key[d] # p.key
              /\ KeyAfter(p, d) < p.key <=> d \in p.above

\* A placement that failed spread out more cards than fit a whole gap apart.
Full(p) == p.state = "failed" => (Cardinality(DOMAIN p.spread) + 1) * GAP > HIGHEST

IInv ==
    /\ Shapes
    /\ UniqueKeys
    /\ OwnCards
    /\ \A r \in Requests : Current(req[r]) /\ Settled(req[r]) /\ Full(req[r])

-----------------------------------------------------------------------------
(* One placement's step.                                                    *)

\* A placement that spreads nothing out.
LEMMA NoSpread == <<>> \in Spreadings /\ DOMAIN <<>> = {}
<1>1. <<>> \in [{} -> Keys]
  OBVIOUS
<1>2. QED
  BY <1>1 DEF Spreadings

\* The invariant holds when the program starts.
LEMMA InitIInv == Init => IInv
<1> SUFFICES ASSUME Init PROVE IInv
  OBVIOUS
<1>0. \A r \in Requests : req[r] = Idle
  BY DEF Init
<1>1. Idle \in Placement
  BY NoSpread DEF Idle, Placement
<1>2. Shapes
  BY <1>1 DEF Init, Shapes
<1>3. UniqueKeys
  BY DEF Init, UniqueKeys
<1>4. OwnCards
  BY <1>0 DEF OwnCards, Apart, Idle
<1>5. \A r \in Requests : Current(req[r]) /\ Settled(req[r]) /\ Full(req[r])
  BY <1>0 DEF Current, Settled, Full, Idle
<1>6. QED
  BY <1>2, <1>3, <1>4, <1>5 DEF IInv

\* A step that changes one placement's record alone keeps the invariant if the
\* new record agrees with the cards and with the other placements.
LEMMA RecordStep ==
  ASSUME IInv, NEW r \in Requests, NEW p \in Placement,
         Current(p), Settled(p), Full(p), \A q \in Requests \ {r} : Apart(p, req[q]),
         req' = [req EXCEPT ![r] = p], UNCHANGED <<col, key>>
  PROVE  IInv'
<1>1. req \in [Requests -> Placement]
  BY DEF IInv, Shapes
<1>2. /\ req' \in [Requests -> Placement]
      /\ \A q \in Requests : req'[q] = IF q = r THEN p ELSE req[q]
  BY <1>1
<1>3. Shapes' /\ UniqueKeys'
  BY <1>2 DEF IInv, Shapes, UniqueKeys
<1>4. \A x, y : Apart(x, y) => Apart(y, x)
  BY DEF Apart
<1>5. \A x, y \in Requests : x # y => Apart(req'[x], req'[y])
  BY <1>2, <1>4 DEF IInv, OwnCards
<1>6. \A q \in Requests : Current(req'[q]) /\ Settled(req'[q]) /\ Full(req'[q])
  BY <1>2 DEF IInv
<1>7. \A x : Current(x) => Current(x)'
  BY DEF Current
<1>8. \A x : Settled(x) => Settled(x)'
  BY DEF Settled, KeyAfter, Stack
<1>9. QED
  BY <1>3, <1>5, <1>6, <1>7, <1>8 DEF IInv, OwnCards, Apart, Current, Settled, Full, KeyAfter, Stack

LEMMA LoadKeepsIInv ==
  ASSUME IInv, NEW r \in Requests, Load(r)
  PROVE  IInv'
<1>1. PICK c \in Cards, to \in Columns, index \in 0..Cardinality(Cards) - 1 :
         /\ ~InFlight(r)
         /\ \A q \in Requests : req[q].card # c
         /\ req' = [req EXCEPT ![r] =
                      [Idle EXCEPT !.card = c, !.to = to, !.index = index,
                                   !.seen = [col |-> col[c], key |-> key[c]],
                                   !.state = "loaded"]]
         /\ UNCHANGED <<col, key>>
  BY DEF Load
<1> DEFINE p == [Idle EXCEPT !.card = c, !.to = to, !.index = index,
                             !.seen = [col |-> col[c], key |-> key[c]],
                             !.state = "loaded"]
<1>2. /\ p.card = c /\ p.to = to /\ p.index = index /\ p.state = "loaded"
      /\ p.seen = [col |-> col[c], key |-> key[c]]
  BY DEF Idle
<1>3. index \in Nat
  BY <1>1, StackingConstants, FS_CardinalityType
<1>4. /\ col[c] \in Columns \cup {None} /\ key[c] \in Keys \cup {None}
      /\ col[c] = None => key[c] = None
  BY DEF IInv, Shapes
<1>5. [col |-> col[c], key |-> key[c]] \in Loaded
  BY <1>4 DEF Loaded
<1>6. p \in Placement
  BY <1>3, <1>5, NoSpread DEF Idle, Placement
<1>7. Current(p)
  BY <1>2, <1>3, <1>4, <1>5 DEF Current
<1>8. Settled(p) /\ Full(p)
  BY <1>2 DEF Settled, Full
<1>9. \A q \in Requests \ {r} : Apart(p, req[q])
  BY <1>1, <1>2 DEF Apart
<1>10. req' = [req EXCEPT ![r] = p]
  BY <1>1
<1> HIDE DEF p
<1>11. QED
  BY <1>1, <1>6, <1>7, <1>8, <1>9, <1>10, RecordStep

LEMMA AbortKeepsIInv ==
  ASSUME IInv, NEW r \in Requests, Abort(r)
  PROVE  IInv'
<1>1. Idle \in Placement
  BY NoSpread DEF Idle, Placement
<1>2. Current(Idle) /\ Settled(Idle) /\ Full(Idle)
  BY DEF Current, Settled, Full, Idle
<1>3. \A q \in Requests \ {r} : Apart(Idle, req[q])
  BY DEF Apart, Idle
<1>4. QED
  BY <1>1, <1>2, <1>3, RecordStep DEF Abort

-----------------------------------------------------------------------------
(* Choosing a key.                                                          *)

\* The cards of a column, and any of them, are a sorted stack.
LEMMA StackSorted ==
  ASSUME IInv, NEW column \in Columns
  PROVE  /\ Sorted(key, Stack(column)) /\ \A d \in Stack(column) : key[d] \in Keys
         /\ Cardinality(Stack(column)) \in Nat /\ Cardinality(Stack(column)) < HIGHEST
<1> DEFINE S == Stack(column)
<1>1. \A d \in S : d \in Cards /\ col[d] = column /\ column # None
  BY StackingConstants DEF Stack
<1>2. \A d \in S : key[d] \in Keys
  BY <1>1 DEF IInv, Shapes
<1>3. \A d \in S : key[d] \in Int
  BY <1>2 DEF Keys
<1>4. S \in SUBSET Cards
  BY DEF Stack
<1>5. IsFiniteSet(S) /\ Cardinality(S) <= Cardinality(Cards)
  BY <1>4, StackingConstants, FS_Subset
<1>6. \A c, d \in S : c # d => key[c] # key[d]
  BY <1>1 DEF IInv, UniqueKeys
<1>7. Cardinality(S) \in Nat /\ Cardinality(Cards) \in Nat /\ HIGHEST \in Nat /\ Cardinality(Cards) < HIGHEST
  BY <1>5, FS_CardinalityType, StackingConstants
<1>8. QED
  BY <1>2, <1>3, <1>5, <1>6, <1>7 DEF Sorted

LEMMA PartSorted ==
  ASSUME NEW k, NEW S, Sorted(k, S), NEW T \in SUBSET S
  PROVE  Sorted(k, T)
<1>1. IsFiniteSet(T)
  BY FS_Subset DEF Sorted
<1>2. QED
  BY <1>1 DEF Sorted

\* The keys of the cards, some of them spread out.
Now(R) == [d \in Cards |-> IF d \in DOMAIN R THEN R[d] ELSE key[d]]

\* What a placement reads again after it has spread its column: as sorted as
\* before, and roomy unless the column holds more cards than fit a gap apart.
LEMMA SpreadStack ==
  ASSUME IInv, NEW column \in Columns, NEW c, NEW index \in Nat
  PROVE  LET all == Stack(column)
             R   == Respaced(key, all)
             k   == Now(R)
         IN  /\ Spreads(key, all, R, Step(Cardinality(all)))
             /\ Sorted(k, all \ {c}) /\ \A d \in all \ {c} : k[d] \in Keys
             /\ KeyAt(k, all \ {c}, index) = NoRoom =>
                  (Cardinality(all) + 1) * GAP > HIGHEST
<1> DEFINE all == Stack(column)
           R == Respaced(key, all)
           n == Cardinality(all)
           s == Step(n)
           k == Now(R)
           T == all \ {c}
<1>1. /\ Sorted(key, all) /\ n \in Nat /\ n < HIGHEST
      /\ all \subseteq Cards
  BY StackSorted DEF Stack
<1>2. Spreads(key, all, R, s)
  BY <1>1, RespacedKeepsOrder
<1>3. DOMAIN R = all
  BY DEF Respaced
<1>4. \A d \in all : k[d] = R[d]
  BY <1>1, <1>3 DEF Now
<1>5. /\ \A d \in all : R[d] \in Keys /\ s <= R[d] /\ R[d] + s <= HIGHEST
      /\ \A d, e \in all : key[d] < key[e] <=> R[d] < R[e]
      /\ \A d, e \in all : R[d] < R[e] => R[d] + s <= R[e]
  BY <1>2 DEF Spreads
<1> HIDE DEF all, R, n, s, k
<1>6. \A d \in all : R[d] \in Int
  BY <1>5 DEF Keys
<1>7. Sorted(k, all)
  <2>1. IsFiniteSet(all) /\ \A d \in all : key[d] \in Int
    BY <1>1 DEF Sorted
  <2>2. \A d, e \in all : d # e => key[d] < key[e] \/ key[e] < key[d]
    BY <1>1, <2>1 DEF Sorted
  <2>3. \A d, e \in all : d # e => R[d] # R[e]
    BY <1>5, <1>6, <2>2
  <2>4. QED
    BY <1>4, <1>6, <2>1, <2>3 DEF Sorted
<1>8. Sorted(k, T) /\ \A d \in T : k[d] \in Keys
  BY <1>4, <1>5, <1>7, PartSorted
<1>9. ASSUME KeyAt(k, T, index) = NoRoom, ~((n + 1) * GAP > HIGHEST) PROVE FALSE
  <2>1. (n + 1) * GAP \in Nat /\ HIGHEST \in Nat
    BY <1>1, StackingConstants
  <2>2. s = GAP
    BY <1>1, <1>9, <2>1, StepFits DEF s
  <2>3. \A d \in T : k[d] \in Keys /\ GAP <= k[d] /\ k[d] + GAP <= HIGHEST
    BY <1>4, <1>5, <2>2
  <2>4. \A d, e \in T : k[d] < k[e] => k[d] + GAP <= k[e]
    BY <1>4, <1>5, <2>2
  <2>5. KeyAt(k, T, index) # NoRoom
    BY <1>8, <2>3, <2>4, RoomWhenApart
  <2>6. QED
    BY <1>9, <2>5
<1>10. QED
  BY <1>2, <1>8, <1>9 DEF all, R, n, s, k

\* What a placement writes down of the key it chose.
Chosen(r, R, h) ==
    [req[r] EXCEPT !.key = h, !.spread = R,
                   !.state = IF h = NoRoom THEN "failed" ELSE "placed",
                   !.above = IF h = NoRoom THEN {}
                             ELSE {d \in Stack(req[r].to) \ {req[r].card} : Now(R)[d] < h}]

\* A key is chosen among the neighbours as they are, or, when they leave no
\* room, in the column spread out: Slot, in the words of this module.
LEMMA SlotChooses ==
  ASSUME IInv, NEW r \in Requests, Slot(r)
  PROVE  LET to  == req[r].to
             T   == Stack(to) \ {req[r].card}
             R   == IF KeyAt(key, T, req[r].index) = NoRoom THEN Respaced(key, Stack(to)) ELSE <<>>
         IN  /\ req[r].state = "loaded" /\ ColumnFree(r, to)
             /\ UNCHANGED <<col, key>>
             /\ req' = [req EXCEPT ![r] = Chosen(r, R, KeyAt(Now(R), T, req[r].index))]
<1> DEFINE to  == req[r].to
           T   == Stack(to) \ {req[r].card}
           R   == IF KeyAt(key, T, req[r].index) = NoRoom THEN Respaced(key, Stack(to)) ELSE <<>>
           k   == Now(R)
           h   == KeyAt(k, T, req[r].index)
<1>1. /\ req[r].state = "loaded" /\ ColumnFree(r, to) /\ UNCHANGED <<col, key>>
      /\ req' = [req EXCEPT ![r].key = h, ![r].spread = R,
                    ![r].state = IF h = NoRoom THEN "failed" ELSE "placed",
                    ![r].above = IF h = NoRoom THEN {} ELSE {d \in T : k[d] < h}]
  BY DEF Slot, Now
<1> DEFINE up == IF h = NoRoom THEN {} ELSE {d \in T : k[d] < h}
<1>2. Chosen(r, R, h) = [req[r] EXCEPT !.key = h, !.spread = R,
                            !.state = IF h = NoRoom THEN "failed" ELSE "placed", !.above = up]
  BY DEF Chosen
<1>3. req \in [Requests -> Placement]
  BY DEF IInv, Shapes
<1>4. /\ req' = [req EXCEPT ![r].key = h, ![r].spread = R,
                    ![r].state = IF h = NoRoom THEN "failed" ELSE "placed", ![r].above = up]
  BY <1>1
<1> HIDE DEF h, R, k, T, up
<1>5. req' = [req EXCEPT ![r] = [req[r] EXCEPT !.key = h, !.spread = R,
                            !.state = IF h = NoRoom THEN "failed" ELSE "placed", !.above = up]]
  BY <1>3, <1>4
<1>6. req' = [req EXCEPT ![r] = Chosen(r, R, h)]
  BY <1>2, <1>5
<1>7. QED
  BY <1>1, <1>6 DEF h, R, k, T

\* What it chose has a place, or the column is full; what it spread out is the
\* whole column, in order.
Outcome(r, R, h) ==
    LET to == req[r].to
        T  == Stack(to) \ {req[r].card}
    IN  /\ R \in Spreadings
        /\ DOMAIN R = {} \/ DOMAIN R = Stack(to)
        /\ \A c, d \in DOMAIN R : key[c] < key[d] <=> R[c] < R[d]
        /\ h = NoRoom => (Cardinality(DOMAIN R) + 1) * GAP > HIGHEST
        /\ h # NoRoom => Places(Now(R), T, req[r].index, h)

LEMMA SlotOutcome ==
  ASSUME IInv, NEW r \in Requests, Slot(r)
  PROVE  \E R, h : /\ Outcome(r, R, h)
                   /\ req' = [req EXCEPT ![r] = Chosen(r, R, h)]
<1> DEFINE to  == req[r].to
           all == Stack(to)
           T   == all \ {req[r].card}
           R   == IF KeyAt(key, T, req[r].index) = NoRoom THEN Respaced(key, all) ELSE <<>>
           h   == KeyAt(Now(R), T, req[r].index)
<1>1. req[r].state = "loaded" /\ req' = [req EXCEPT ![r] = Chosen(r, R, h)]
  BY SlotChooses
<1>2. to \in Columns /\ req[r].index \in Nat
  BY <1>1 DEF IInv, Current
<1>3. CASE KeyAt(key, T, req[r].index) # NoRoom
  <2>1. R = <<>> /\ DOMAIN R = {}
    BY <1>3, NoSpread
  <2>2. Now(R) = key
    <3>1. Now(R) = [d \in Cards |-> key[d]]
      BY <2>1 DEF Now
    <3>2. key \in [Cards -> Keys \cup {None}]
      BY DEF IInv, Shapes
    <3>3. QED
      BY <3>1, <3>2
  <2>3. Sorted(key, T) /\ \A d \in T : key[d] \in Keys
    BY <1>2, StackSorted, PartSorted
  <2>4. h # NoRoom /\ Places(Now(R), T, req[r].index, h)
    BY <1>2, <1>3, <2>2, <2>3, ChosenKey
  <2>5. Outcome(r, R, h)
    BY <2>1, <2>4, NoSpread DEF Outcome
  <2>6. QED
    BY <1>1, <2>5
<1>4. CASE KeyAt(key, T, req[r].index) = NoRoom
  <2>1. R = Respaced(key, all) /\ DOMAIN R = all
    BY <1>4 DEF Respaced
  <2>2. /\ Spreads(key, all, R, Step(Cardinality(all)))
        /\ Sorted(Now(R), T) /\ \A d \in T : Now(R)[d] \in Keys
        /\ h = NoRoom => (Cardinality(all) + 1) * GAP > HIGHEST
    BY <1>2, <2>1, SpreadStack
  <2>3. R \in Spreadings
    <3>1. R \in [all -> Keys] /\ all \in SUBSET Cards
      BY <2>2 DEF Spreads, Stack
    <3>2. QED
      BY <3>1 DEF Spreadings
  <2>4. \A c, d \in DOMAIN R : key[c] < key[d] <=> R[c] < R[d]
    BY <2>1, <2>2 DEF Spreads
  <2>5. h # NoRoom => Places(Now(R), T, req[r].index, h)
    BY <1>2, <2>2, ChosenKey
  <2>6. Outcome(r, R, h)
    BY <2>1, <2>2, <2>3, <2>4, <2>5 DEF Outcome
  <2>7. QED
    BY <1>1, <2>6
<1>5. QED
  BY <1>3, <1>4

LEMMA SlotKeepsIInv ==
  ASSUME IInv, NEW r \in Requests, Slot(r)
  PROVE  IInv'
<1>1. req[r].state = "loaded" /\ ColumnFree(r, req[r].to) /\ UNCHANGED <<col, key>>
  BY SlotChooses
<1>2. PICK R, h : Outcome(r, R, h) /\ req' = [req EXCEPT ![r] = Chosen(r, R, h)]
  BY SlotOutcome
<1> DEFINE p == Chosen(r, R, h)
           T == Stack(req[r].to) \ {req[r].card}
<1>3. req[r] \in Placement
  BY DEF IInv, Shapes
<1>4. /\ p.card = req[r].card /\ p.to = req[r].to /\ p.index = req[r].index /\ p.seen = req[r].seen
      /\ p.key = h /\ p.spread = R
      /\ p.state = IF h = NoRoom THEN "failed" ELSE "placed"
      /\ p.above = IF h = NoRoom THEN {} ELSE {d \in T : Now(R)[d] < h}
  BY <1>3 DEF Chosen, Placement
<1>5. R \in Spreadings /\ h \in Int
  BY <1>2, StackingConstants DEF Outcome, Places, NoRoom, Keys
<1>6. p \in Placement
  <2>1. T \in SUBSET Cards
    BY DEF Stack
  <2>2. QED
    BY <1>3, <1>5, <2>1 DEF Chosen, Placement
<1>7. Current(p)
  BY <1>1, <1>4 DEF IInv, Current
<1>8. Full(p)
  BY <1>2, <1>4 DEF Full, Outcome
<1>9. Settled(p)
  <2>1. SUFFICES ASSUME h # NoRoom PROVE Settled(p)
    BY <1>4 DEF Settled
  <2>2. Places(Now(R), T, req[r].index, h)
    BY <1>2, <2>1 DEF Outcome
  <2>3. \A d \in T : d \in Cards /\ Now(R)[d] # h /\ Now(R)[d] = KeyAfter(p, d)
    BY <1>4, <2>2 DEF Places, Now, KeyAfter, Stack
  <2>4. \A d \in T : d \notin DOMAIN R => key[d] # h
    BY <1>4, <2>3 DEF KeyAfter
  <2>5. \A d \in T : KeyAfter(p, d) < h <=> d \in p.above
    BY <1>4, <2>1, <2>3
  <2>6. h \in Keys
    BY <2>2 DEF Places
  <2>7. QED
    BY <1>2, <1>4, <2>4, <2>5, <2>6 DEF Settled, Outcome
<1>10. \A q \in Requests \ {r} : Apart(p, req[q])
  <2>1. \A q \in Requests \ {r} : Apart(req[r], req[q])
    BY DEF IInv, OwnCards
  <2>2. QED
    BY <1>1, <1>4, <2>1 DEF Apart, ColumnFree
<1> HIDE DEF p
<1>11. QED
  BY <1>1, <1>2, <1>6, <1>7, <1>8, <1>9, <1>10, RecordStep DEF p

-----------------------------------------------------------------------------
(* What other placements and departures do to a settled one.                *)

\* A column that only loses cards, and none that the placement has rewritten,
\* leaves a settled placement settled: what the column's lock is for.
LEMMA StaysSettled ==
  ASSUME NEW p \in Placement, Settled(p), p.to \in Columns,
         \A d \in Cards : col'[d] = p.to => col[d] = p.to /\ key'[d] = key[d],
         \A d \in DOMAIN p.spread : col[d] = p.to => col'[d] = p.to
  PROVE  Settled(p)'
<1> SUFFICES ASSUME p.state = "placed" PROVE Settled(p)'
  BY DEF Settled
<1>1. /\ p.key \in Keys
      /\ DOMAIN p.spread = {} \/ DOMAIN p.spread = Stack(p.to)
      /\ \A c, d \in DOMAIN p.spread : key[c] < key[d] <=> p.spread[c] < p.spread[d]
      /\ \A d \in Stack(p.to) \ {p.card} :
            /\ d \notin DOMAIN p.spread => key[d] # p.key
            /\ KeyAfter(p, d) < p.key <=> d \in p.above
  BY DEF Settled
<1>2. \A d \in Stack(p.to)' : d \in Stack(p.to) /\ key'[d] = key[d]
  BY DEF Stack
<1>3. DOMAIN p.spread = Stack(p.to) => Stack(p.to)' = Stack(p.to)
  BY <1>2 DEF Stack
<1>4. DOMAIN p.spread = {} \/ DOMAIN p.spread = Stack(p.to)'
  BY <1>1, <1>3
<1>5. \A d \in DOMAIN p.spread : key'[d] = key[d]
  BY <1>2, <1>4
<1>6. \A c, d \in DOMAIN p.spread : key'[c] < key'[d] <=> p.spread[c] < p.spread[d]
  BY <1>1, <1>5
<1>7. \A d \in Stack(p.to)' \ {p.card} :
         /\ d \notin DOMAIN p.spread => key'[d] # p.key
         /\ KeyAfter(p, d)' < p.key <=> d \in p.above
  BY <1>1, <1>2 DEF KeyAfter
<1>8. QED
  BY <1>1, <1>4, <1>6, <1>7 DEF Settled

LEMMA LeaveKeepsIInv ==
  ASSUME IInv, NEW c \in Cards, Leave(c)
  PROVE  IInv'
<1>1. /\ col' = [col EXCEPT ![c] = None] /\ key' = [key EXCEPT ![c] = None] /\ req' = req
      /\ \A r \in Requests : req[r].card # c /\ c \notin DOMAIN req[r].spread
  BY DEF Leave
<1>2. /\ col \in [Cards -> Columns \cup {None}] /\ key \in [Cards -> Keys \cup {None}]
      /\ req \in [Requests -> Placement]
      /\ \A d \in Cards : IF col[d] = None THEN key[d] = None ELSE key[d] \in Keys
  BY DEF IInv, Shapes
<1>3. \A d \in Cards : /\ col'[d] = IF d = c THEN None ELSE col[d]
                       /\ key'[d] = IF d = c THEN None ELSE key[d]
  BY <1>1, <1>2
<1>4. col' \in [Cards -> Columns \cup {None}] /\ key' \in [Cards -> Keys \cup {None}]
  BY <1>1, <1>2
<1>5. Shapes'
  BY <1>1, <1>2, <1>3, <1>4 DEF Shapes
<1>6. UniqueKeys'
  BY <1>3 DEF IInv, UniqueKeys
<1>7. OwnCards'
  BY <1>1 DEF IInv, OwnCards, Apart
<1>8. ASSUME NEW r \in Requests PROVE (Current(req[r]) /\ Settled(req[r]) /\ Full(req[r]))'
  <2>1. PICK p \in Placement : p = req[r]
    BY <1>2
  <2>2. Current(p) /\ Settled(p) /\ Full(p) /\ p.card # c /\ c \notin DOMAIN p.spread
    BY <1>1, <2>1 DEF IInv
  <2>3. Current(p)'
    BY <1>3, <2>2 DEF Current
  <2>4. Full(p)'
    BY <2>2 DEF Full
  <2>5. Settled(p)'
    <3>1. CASE p.state = "placed"
      <4>1. p.to \in Columns /\ p.to # None /\ DOMAIN p.spread \subseteq Cards
        BY <2>2, <3>1, StackingConstants DEF Current, Settled, Stack
      <4>2. \A d \in Cards : col'[d] = p.to => col[d] = p.to /\ key'[d] = key[d]
        BY <1>3, <4>1
      <4>3. \A d \in DOMAIN p.spread : col[d] = p.to => col'[d] = p.to
        BY <1>3, <2>2, <4>1
      <4>4. QED
        BY <2>2, <4>1, <4>2, <4>3, StaysSettled
    <3>2. CASE p.state # "placed"
      BY <3>2 DEF Settled
    <3>3. QED
      BY <3>1, <3>2
  <2>6. req'[r] = p
    BY <1>1, <2>1
  <2>7. QED
    BY <2>3, <2>4, <2>5, <2>6 DEF Current, Settled, Full, KeyAfter, Stack
<1>9. QED
  BY <1>5, <1>6, <1>7, <1>8 DEF IInv

-----------------------------------------------------------------------------
(* Writing a placement down.                                                *)

\* What a commit writes: its card comes into its column under a key nobody in
\* it has; the others keep their columns and take the keys it spread out.
LEMMA CommitWrites ==
  ASSUME IInv, NEW r \in Requests, Commit(r), NEW p, p = req[r]
  PROVE  /\ p \in Placement /\ p.state = "placed" /\ p.card \in Cards /\ p.to \in Columns /\ p.to # None
         /\ DOMAIN p.spread \subseteq Stack(p.to) /\ \A d \in DOMAIN p.spread : p.spread[d] \in Keys
         /\ \A q \in Requests \ {r} : p.card \notin DOMAIN req[q].spread
         /\ req' = [req EXCEPT ![r] = Idle]
         /\ col' = [col EXCEPT ![p.card] = p.to]
         /\ key' \in [Cards -> Keys \cup {None}] /\ key'[p.card] \in Keys
         /\ \A d \in Cards \ {p.card} : /\ key'[d] = KeyAfter(p, d)
                                        /\ col[d] = p.to => key'[d] # key'[p.card]
<1> DEFINE c      == p.card
           now    == [d \in Cards |-> IF d \in DOMAIN p.spread THEN p.spread[d] ELSE key[d]]
           held   == IF c \in DOMAIN p.spread THEN p.spread[c] ELSE p.seen.key
           newKey == IF p.key # held THEN p.key ELSE now[c]
           newCol == IF p.to # p.seen.col THEN p.to ELSE col[c]
<1>1. /\ p.state = "placed"
      /\ RowFree(r, c)
      /\ \A d \in Cards \ {c} : col[d] = newCol => now[d] # newKey
      /\ col' = [col EXCEPT ![c] = newCol]
      /\ key' = [now EXCEPT ![c] = newKey]
      /\ req' = [req EXCEPT ![r] = Idle]
  BY DEF Commit
<1>2. p \in Placement /\ Current(p) /\ Settled(p)
  BY DEF IInv, Shapes
<1>3. /\ c \in Cards /\ p.to \in Columns /\ p.to # None /\ p.seen.col = col[c]
      /\ p.seen.col = None => p.seen.key = None
  BY <1>1, <1>2, StackingConstants DEF Current
<1>4. newCol = p.to
  BY <1>3
<1>5. /\ p.key \in Keys
      /\ DOMAIN p.spread \subseteq Stack(p.to)
  BY <1>1, <1>2 DEF Settled
<1>6. \A d \in DOMAIN p.spread : p.spread[d] \in Keys
  <2>1. PICK D \in SUBSET Cards : p.spread \in [D -> Keys]
    BY <1>2 DEF Placement, Spreadings
  <2>2. QED
    BY <2>1
<1>7. \A d \in Cards : IF col[d] = None THEN key[d] = None ELSE key[d] \in Keys
  BY DEF IInv, Shapes
<1>8. \A d \in Cards : now[d] = KeyAfter(p, d) /\ now[d] \in Keys \cup {None}
  BY <1>6, <1>7 DEF KeyAfter
<1>9. newKey \in Keys
  <2>1. CASE c \in DOMAIN p.spread
    BY <1>3, <1>5, <1>6, <2>1
  <2>2. CASE c \notin DOMAIN p.spread /\ col[c] # None
    BY <1>3, <1>5, <1>7, <2>2
  <2>3. CASE c \notin DOMAIN p.spread /\ col[c] = None
    BY <1>3, <1>5, <1>7, <2>3
  <2>4. QED
    BY <2>1, <2>2, <2>3
<1>10. now \in [Cards -> Keys \cup {None}]
  BY <1>8
<1> HIDE DEF now, held, newKey, newCol
<1>11. key' \in [Cards -> Keys \cup {None}] /\ key'[c] = newKey
  BY <1>1, <1>3, <1>9, <1>10
<1>12. \A d \in Cards \ {c} : key'[d] = now[d]
  BY <1>1, <1>10
<1>13. QED
  BY <1>1, <1>2, <1>3, <1>4, <1>5, <1>6, <1>8, <1>9, <1>11, <1>12 DEF RowFree

LEMMA CommitKeepsIInv ==
  ASSUME IInv, NEW r \in Requests, Commit(r)
  PROVE  IInv'
<1>1. PICK p \in Placement : p = req[r]
  BY DEF IInv, Shapes
<1> DEFINE c == p.card
<1>2. /\ p.state = "placed" /\ c \in Cards /\ p.to \in Columns /\ p.to # None
      /\ DOMAIN p.spread \subseteq Stack(p.to) /\ \A d \in DOMAIN p.spread : p.spread[d] \in Keys
      /\ \A q \in Requests \ {r} : c \notin DOMAIN req[q].spread
      /\ req' = [req EXCEPT ![r] = Idle]
      /\ col' = [col EXCEPT ![c] = p.to]
      /\ key' \in [Cards -> Keys \cup {None}] /\ key'[c] \in Keys
      /\ \A d \in Cards \ {c} : key'[d] = KeyAfter(p, d) /\ (col[d] = p.to => key'[d] # key'[c])
  BY <1>1, CommitWrites
<1>3. /\ col \in [Cards -> Columns \cup {None}] /\ req \in [Requests -> Placement]
      /\ \A d \in Cards : IF col[d] = None THEN key[d] = None ELSE key[d] \in Keys
  BY DEF IInv, Shapes
<1>4. /\ col' \in [Cards -> Columns \cup {None}]
      /\ \A d \in Cards : col'[d] = IF d = c THEN p.to ELSE col[d]
  BY <1>2, <1>3
<1>5. /\ req' \in [Requests -> Placement]
      /\ \A q \in Requests : req'[q] = IF q = r THEN Idle ELSE req[q]
  <2>1. Idle \in Placement
    BY NoSpread DEF Idle, Placement
  <2>2. QED
    BY <1>2, <1>3, <2>1
<1>6. \A d \in DOMAIN p.spread : d \in Cards /\ col[d] = p.to
  BY <1>2 DEF Stack
<1> HIDE DEF c
<1>7. Shapes'
  <2>1. ASSUME NEW d \in Cards
        PROVE  IF col'[d] = None THEN key'[d] = None ELSE key'[d] \in Keys
    <3>1. CASE d = c
      BY <1>2, <1>4, <3>1
    <3>2. CASE d # c /\ d \in DOMAIN p.spread
      BY <1>2, <1>4, <1>6, <3>2 DEF KeyAfter
    <3>3. CASE d # c /\ d \notin DOMAIN p.spread
      BY <1>2, <1>3, <1>4, <3>3 DEF KeyAfter
    <3>4. QED
      BY <3>1, <3>2, <3>3
  <2>2. QED
    BY <1>2, <1>4, <1>5, <2>1 DEF Shapes
<1>8. /\ DOMAIN p.spread = {} \/ DOMAIN p.spread = Stack(p.to)
      /\ \A d, e \in DOMAIN p.spread : key[d] < key[e] <=> p.spread[d] < p.spread[e]
  BY <1>1, <1>2 DEF IInv, Settled
<1>9. UniqueKeys'
  <2>1. ASSUME NEW d \in Cards, NEW e \in Cards, d # e, d # c, e # c,
               col'[d] # None, col'[d] = col'[e]
        PROVE  key'[d] # key'[e]
    <3>1. col[d] = col[e] /\ col[d] # None /\ key[d] # key[e]
      BY <1>4, <2>1 DEF IInv, UniqueKeys
    <3>2. key[d] \in Int /\ key[e] \in Int
      BY <1>3, <3>1 DEF Keys
    <3>3. CASE d \in DOMAIN p.spread
      <4>1. e \in DOMAIN p.spread
        BY <1>6, <1>8, <3>1, <3>3 DEF Stack
      <4>2. p.spread[d] \in Int /\ p.spread[e] \in Int
        BY <1>2, <3>3, <4>1 DEF Keys
      <4>3. p.spread[d] # p.spread[e]
        BY <1>8, <3>1, <3>2, <3>3, <4>1, <4>2
      <4>4. QED
        BY <1>2, <2>1, <3>3, <4>1, <4>3 DEF KeyAfter
    <3>4. CASE d \notin DOMAIN p.spread
      <4>1. e \notin DOMAIN p.spread
        BY <1>6, <1>8, <3>1, <3>4 DEF Stack
      <4>2. QED
        BY <1>2, <2>1, <3>1, <3>4, <4>1 DEF KeyAfter
    <3>5. QED
      BY <3>3, <3>4
  <2>2. ASSUME NEW d \in Cards, d # c, col'[d] = col'[c]
        PROVE  key'[d] # key'[c]
    BY <1>2, <1>4, <2>2
  <2>3. QED
    BY <1>2, <2>1, <2>2 DEF UniqueKeys
<1>10. OwnCards'
  <2>1. \A q, s \in Requests : q # s => Apart(req'[q], req'[s])
    BY <1>5 DEF IInv, OwnCards, Apart, Idle
  <2>2. QED
    BY <2>1 DEF OwnCards, Apart
<1>11. ASSUME NEW q \in Requests PROVE (Current(req[q]) /\ Settled(req[q]) /\ Full(req[q]))'
  <2>1. CASE q = r
    <3>1. req'[q] = Idle
      BY <1>5, <2>1
    <3>2. QED
      BY <3>1 DEF Current, Settled, Full, Idle
  <2>2. CASE q # r
    <3>1. PICK s \in Placement : s = req[q] /\ s = req'[q]
      BY <1>3, <1>5, <2>2
    <3>2. Current(s) /\ Settled(s) /\ Full(s) /\ c \notin DOMAIN s.spread
      BY <1>2, <2>2, <3>1 DEF IInv
    <3>3. Apart(p, s)
      BY <1>1, <2>2, <3>1 DEF IInv, OwnCards
    <3>4. Current(s)'
      <4>1. s.state # "idle" => s.card # c
        BY <1>2, <3>3 DEF Apart, c
      <4>2. QED
        BY <1>4, <3>2, <4>1 DEF Current
    <3>5. Settled(s)'
      <4>1. CASE s.state = "placed"
        <5>1. s.to \in Columns /\ s.to # p.to
          BY <1>2, <3>2, <3>3, <4>1 DEF Current, Apart
        <5>2. \A d \in Cards : col'[d] = s.to => d # c /\ col[d] = s.to /\ key'[d] = key[d]
          <6>1. SUFFICES ASSUME NEW d \in Cards, col'[d] = s.to
                         PROVE  d # c /\ col[d] = s.to /\ key'[d] = key[d]
            OBVIOUS
          <6>2. d # c /\ col[d] = s.to
            BY <1>4, <5>1, <6>1
          <6>3. d \notin DOMAIN p.spread
            BY <1>6, <5>1, <6>2
          <6>4. QED
            BY <1>2, <6>2, <6>3 DEF KeyAfter
        <5>3. \A d \in DOMAIN s.spread : col[d] = s.to => col'[d] = s.to
          <6>1. DOMAIN s.spread \subseteq Cards
            BY <3>2, <4>1 DEF Settled, Stack
          <6>2. QED
            BY <1>4, <3>2, <6>1
        <5>4. QED
          BY <3>2, <5>1, <5>2, <5>3, StaysSettled
      <4>2. CASE s.state # "placed"
        BY <4>2 DEF Settled
      <4>3. QED
        BY <4>1, <4>2
    <3>6. Full(s)'
      BY <3>2 DEF Full
    <3>7. QED
      BY <3>1, <3>4, <3>5, <3>6 DEF Current, Settled, Full, KeyAfter, Stack
  <2>3. QED
    BY <2>1, <2>2
<1>12. QED
  BY <1>7, <1>9, <1>10, <1>11 DEF IInv

LEMMA NextIInv == IInv /\ [Next]_vars => IInv'
<1> SUFFICES ASSUME IInv, [Next]_vars PROVE IInv'
  OBVIOUS
<1>1. ASSUME NEW r \in Requests, Load(r) PROVE IInv'
  BY <1>1, LoadKeepsIInv
<1>2. ASSUME NEW r \in Requests, Slot(r) PROVE IInv'
  BY <1>2, SlotKeepsIInv
<1>3. ASSUME NEW r \in Requests, Commit(r) PROVE IInv'
  BY <1>3, CommitKeepsIInv
<1>4. ASSUME NEW r \in Requests, Abort(r) PROVE IInv'
  BY <1>4, AbortKeepsIInv
<1>5. ASSUME NEW c \in Cards, Leave(c) PROVE IInv'
  BY <1>5, LeaveKeepsIInv
<1>6. CASE UNCHANGED vars
  BY <1>6 DEF vars, IInv, Shapes, UniqueKeys, OwnCards, Apart, Current, Settled, Full,
              KeyAfter, Stack
<1>7. QED
  BY <1>1, <1>2, <1>3, <1>4, <1>5, <1>6 DEF Next

THEOREM Invariant == Spec => []IInv
  BY InitIInv, NextIInv, PTL DEF Spec

-----------------------------------------------------------------------------
(* What the invariant says.                                                 *)

\* A card has a key exactly while it is in a column, every key that is stored
\* or about to be fits the 32 bits of its row (stacking.py, LOWEST and HIGHEST).
THEOREM TypeCorrect == Spec => []TypeOK
<1>1. IInv => TypeOK
  BY DEF IInv, Shapes, Settled, TypeOK
<1>2. QED
  BY Invariant, <1>1, PTL

\* No two cards of a column have the same key, at any time: what the unique
\* constraint is a backstop for (stacking.py, 14-20).
THEOREM KeysAreUnique == Spec => []UniqueKeys
<1>1. IInv => UniqueKeys
  BY DEF IInv
<1>2. QED
  BY Invariant, <1>1, PTL

\* A key chosen under the column's lock is free until its card takes it
\* (stacking.py, slot and _lock).
THEOREM KeyStaysFree == Spec => []ChosenKeyStaysFree
<1>1. IInv => ChosenKeyStaysFree
  BY DEF IInv, Settled, ChosenKeyStaysFree, Stack
<1>2. QED
  BY Invariant, <1>1, PTL

\* What the key was chosen between stays as it was until the card takes it:
\* none of the cards above it drops below, and none arrives (stacking.py, slot).
THEOREM PlaceHolds == Spec => []ChosenPlaceHolds
<1>1. IInv => ChosenPlaceHolds
  <2>1. SUFFICES ASSUME IInv, NEW r \in Requests, req[r].state = "placed",
                        NEW d \in Cards \ {req[r].card}, col[d] = req[r].to
                 PROVE  KeyAfter(req[r], d) < req[r].key <=> d \in req[r].above
    BY DEF ChosenPlaceHolds, KeyAfter
  <2>2. d \in Stack(req[r].to) \ {req[r].card}
    BY <2>1 DEF Stack
  <2>3. Settled(req[r])
    BY <2>1 DEF IInv
  <2>4. QED
    BY <2>1, <2>2, <2>3 DEF Settled
<1>2. QED
  BY Invariant, <1>1, PTL

\* A placement that finds no room even in the column it spread out fails only
\* when that column has more cards than fit a whole gap apart.
FailsOnlyWhenFull ==
    \A r \in Requests : req[r].state = "failed" =>
        (Cardinality(DOMAIN req[r].spread) + 1) * GAP > HIGHEST

\* A placement fails only in a column of more cards than fit a whole gap apart:
\* any other, spread out, has room at both ends and between any two
\* (stacking.py, respace and the error of slot).
THEOREM RoomIsMade == Spec => []FailsOnlyWhenFull
<1>1. IInv => FailsOnlyWhenFull
  BY DEF IInv, Full, FailsOnlyWhenFull
<1>2. QED
  BY Invariant, <1>1, PTL

\* It does fail then: at the code's own sizes a column of 32,768 cards, spread
\* out, has no room for one more at its bottom.  The comment on the error of
\* slot (stacking.py, 91-92) has it that there is room at both ends "until it
\* holds hundreds of millions of cards"; but the last key is 32,768 steps of
\* 65,534, and a whole gap beyond that is one past HIGHEST.
THEOREM NoRoomAtTheBottom ==
  ASSUME GAP = 65536, HIGHEST = 2147483647,
         NEW k, NEW S, Sorted(k, S), Cardinality(S) = 32768
  PROVE  KeyAt(Respaced(k, S), S, 32768) = NoRoom
<1> DEFINE R == Respaced(k, S)
           t == Nth(R, S, 32767)
<1>1. Step(32768) = 65534
  BY DEF Step, Smaller
<1>2. Spreads(k, S, R, 65534)
  BY <1>1, RespacedKeepsOrder
<1>3. /\ \A c \in S : R[c] \in Int
      /\ \A c, d \in S : k[c] < k[d] <=> R[c] < R[d]
  BY <1>2 DEF Spreads, Keys
<1>4. \A c \in S : R[c] = (RankIn(k, S, c) + 1) * 65534
  BY <1>1 DEF Respaced, SpreadKey
<1> HIDE DEF R
<1>5. Sorted(R, S)
  <2>1. IsFiniteSet(S) /\ \A c, d \in S : c # d => k[c] < k[d] \/ k[d] < k[c]
    BY DEF Sorted
  <2>2. \A c, d \in S : c # d => R[c] # R[d]
    BY <1>3, <2>1
  <2>3. QED
    BY <1>3, <2>1, <2>2 DEF Sorted
<1>6. t \in S /\ RankIn(R, S, t) = 32767
  BY <1>5, NthCard
<1>7. RankIn(k, S, t) = 32767
  <2>1. {d \in S : k[d] < k[t]} = {d \in S : R[d] < R[t]}
    BY <1>3, <1>6
  <2>2. QED
    BY <1>6, <2>1 DEF RankIn
<1>8. R[t] = 2147418112
  BY <1>4, <1>6, <1>7
<1>9. KeyAt(R, S, 32768) = BelowBottom(R[t])
  BY KeyAtCases
<1>10. QED
  BY <1>8, <1>9 DEF BelowBottom, NoRoom, R

\* The place chosen is the index asked for, or the bottom of a shorter stack
\* (stacking.py, slot and _key_at).
THEOREM PlacedWhereAsked == Spec => ChosenWhereAsked
<1>1. IInv /\ [Next]_vars =>
        [\A r \in Requests : (req[r].state = "loaded" /\ req'[r].state = "placed") =>
             LET others == Stack(req[r].to) \ {req[r].card} IN
             Cardinality(req'[r].above) = Smaller(req[r].index, Cardinality(others))]_vars
  <2> SUFFICES ASSUME IInv, [Next]_vars, NEW r \in Requests,
                      req[r].state = "loaded", req'[r].state = "placed"
               PROVE  LET others == Stack(req[r].to) \ {req[r].card} IN
                      Cardinality(req'[r].above) = Smaller(req[r].index, Cardinality(others))
    OBVIOUS
  <2>0. req \in [Requests -> Placement]
    BY DEF IInv, Shapes
  <2>1. ASSUME NEW q \in Requests, Load(q) \/ Commit(q) \/ Abort(q) PROVE FALSE
    <3>1. \E p : p.state # "placed" /\ req' = [req EXCEPT ![q] = p]
      <4>1. ASSUME Load(q) PROVE \E p : p.state = "loaded" /\ req' = [req EXCEPT ![q] = p]
        <5>1. PICK c \in Cards, to \in Columns, index \in 0..Cardinality(Cards) - 1 :
                 req' = [req EXCEPT ![q] =
                           [Idle EXCEPT !.card = c, !.to = to, !.index = index,
                                        !.seen = [col |-> col[c], key |-> key[c]],
                                        !.state = "loaded"]]
          BY <4>1 DEF Load
        <5>2. [Idle EXCEPT !.card = c, !.to = to, !.index = index,
                           !.seen = [col |-> col[c], key |-> key[c]],
                           !.state = "loaded"].state = "loaded"
          BY DEF Idle
        <5>3. QED
          BY <5>1, <5>2
      <4>2. ASSUME Commit(q) \/ Abort(q) PROVE req' = [req EXCEPT ![q] = Idle] /\ Idle.state = "idle"
        BY <4>2 DEF Commit, Abort, Idle
      <4>3. QED
        BY <2>1, <4>1, <4>2
    <3>2. QED
      BY <2>0, <3>1
  <2>2. ASSUME NEW c \in Cards, Leave(c) PROVE FALSE
    BY <2>2 DEF Leave
  <2>3. CASE UNCHANGED vars
    BY <2>3 DEF vars
  <2>4. ASSUME NEW q \in Requests, Slot(q), q # r PROVE FALSE
    <3>1. PICK p : req' = [req EXCEPT ![q] = p]
      BY <2>4, SlotChooses
    <3>2. QED
      BY <2>0, <2>4, <3>1
  <2>5. CASE Slot(r)
    <3> DEFINE T == Stack(req[r].to) \ {req[r].card}
    <3>1. PICK R, h : Outcome(r, R, h) /\ req' = [req EXCEPT ![r] = Chosen(r, R, h)]
      BY <2>5, SlotOutcome
    <3>2. req'[r] = Chosen(r, R, h)
      BY <2>0, <3>1
    <3>3. req[r] \in Placement
      BY <2>0
    <3>4. h # NoRoom /\ req'[r].above = {d \in T : Now(R)[d] < h}
      BY <3>2, <3>3 DEF Chosen, Placement
    <3>5. Places(Now(R), T, req[r].index, h)
      BY <3>1, <3>4 DEF Outcome
    <3>6. QED
      BY <3>4, <3>5 DEF Places
  <2>6. QED
    BY <2>1, <2>2, <2>3, <2>4, <2>5 DEF Next
<1>2. QED
  BY Invariant, <1>1, PTL DEF Spec, ChosenWhereAsked

\* No step changes the order of two cards that neither was placed by it nor
\* left: a column spread back out keeps the order it had (stacking.py, respace).
THEOREM OrderIsKept == Spec => OthersKeepTheirOrder
<1> DEFINE placed == {req[r].card : r \in {q \in Requests :
                          req[q].state = "placed" /\ req'[q].state = "idle"}}
           Kept == \A c, d \in Cards :
                      ( /\ c \notin placed /\ d \notin placed
                        /\ col[c] # None /\ col[c] = col[d]
                        /\ col'[c] = col[c] /\ col'[d] = col[d] )
                      => ((key[c] < key[d]) <=> (key'[c] < key'[d]))
<1>1. IInv /\ [Next]_vars => Kept
  <2> SUFFICES ASSUME IInv, [Next]_vars, NEW c \in Cards, NEW d \in Cards,
                      c \notin placed, d \notin placed,
                      col[c] # None, col[c] = col[d], col'[c] = col[c], col'[d] = col[d]
               PROVE  (key[c] < key[d]) <=> (key'[c] < key'[d])
    OBVIOUS
  <2>1. ASSUME key' = key PROVE (key[c] < key[d]) <=> (key'[c] < key'[d])
    BY <2>1
  <2>2. ASSUME NEW r \in Requests, Load(r) \/ Abort(r) PROVE key' = key
    BY <2>2 DEF Load, Abort
  <2>3. ASSUME NEW r \in Requests, Slot(r) PROVE key' = key
    BY <2>3, SlotChooses
  <2>4. ASSUME NEW e \in Cards, Leave(e) PROVE (key[c] < key[d]) <=> (key'[c] < key'[d])
    <3>1. /\ col' = [col EXCEPT ![e] = None] /\ key' = [key EXCEPT ![e] = None]
          /\ col \in [Cards -> Columns \cup {None}] /\ key \in [Cards -> Keys \cup {None}]
      BY <2>4 DEF Leave, IInv, Shapes
    <3>2. c # e /\ d # e
      BY <3>1
    <3>3. key'[c] = key[c] /\ key'[d] = key[d]
      BY <3>1, <3>2
    <3>4. QED
      BY <3>3
  <2>5. ASSUME NEW r \in Requests, Commit(r) PROVE (key[c] < key[d]) <=> (key'[c] < key'[d])
    <3>0. PICK p \in Placement : p = req[r]
      BY DEF IInv, Shapes
    <3>1. /\ p.state = "placed" /\ p.card \in Cards /\ DOMAIN p.spread \subseteq Stack(p.to)
          /\ req' = [req EXCEPT ![r] = Idle]
          /\ \A e \in Cards \ {p.card} : key'[e] = KeyAfter(p, e)
      BY <2>5, <3>0, CommitWrites
    <3>2. c # p.card /\ d # p.card
      <4>1. req'[r].state = "idle"
        BY <3>1 DEF IInv, Shapes, Idle
      <4>2. p.card \in placed
        BY <3>0, <3>1, <4>1
      <4>3. QED
        BY <4>2
    <3>3. key'[c] = KeyAfter(p, c) /\ key'[d] = KeyAfter(p, d)
      BY <3>1, <3>2
    <3>4. Settled(p)
      BY <3>0 DEF IInv
    <3>5. CASE c \in DOMAIN p.spread
      <4>1. d \in DOMAIN p.spread
        BY <3>1, <3>4, <3>5 DEF Settled, Stack
      <4>2. QED
        BY <3>1, <3>3, <3>4, <3>5, <4>1 DEF Settled, KeyAfter
    <3>6. CASE c \notin DOMAIN p.spread
      <4>1. d \notin DOMAIN p.spread
        BY <3>1, <3>4, <3>6 DEF Settled, Stack
      <4>2. QED
        BY <3>3, <3>6, <4>1 DEF KeyAfter
    <3>7. QED
      BY <3>5, <3>6
  <2>6. CASE UNCHANGED vars
    BY <2>6 DEF vars
  <2>7. QED
    BY <2>1, <2>2, <2>3, <2>4, <2>5, <2>6 DEF Next
<1>2. IInv /\ [Next]_vars => [Kept]_vars
  BY <1>1
<1>3. QED
  BY Invariant, <1>2, PTL DEF Spec, OthersKeepTheirOrder
=============================================================================
