-------------------------------- MODULE Sums --------------------------------
(***************************************************************************)
(* What sums over finite sets do, for the proofs about amounts, balances   *)
(* and counters.  The models sum with MapThenSumSet, which picks the       *)
(* elements of the set one by one in an order of its own; the lemmas say   *)
(* that the order does not matter, and what changing one summand or adding *)
(* one does.  They are proved by looking for a smallest counterexample, as *)
(* is what the loop that spreads a payment returns.                        *)
(***************************************************************************)
EXTENDS Allocation, FiniteSetsExt, FiniteSetTheorems, SequenceTheorems, WellFoundedInduction,
        TLAPS

Some(s) == CHOOSE x \in s : TRUE

\* h is a fold over every subset of S: pick takes the next element, and turn adds
\* it to what the others came to.
Folds(h, base, turn, pick, S) ==
    h = [s \in SUBSET S |-> IF s = {} THEN base ELSE turn[<<pick[s], h[s \ {pick[s]}]>>]]

\* h is the sum of f over every subset of S.
Adds(h, f, S) == h = [s \in SUBSET S |-> IF s = {} THEN 0
                                         ELSE f[Some(s)] + h[s \ {Some(s)}]]

\* The sum of f over S.
SumOver(f, S) == CHOOSE t : \E h : Adds(h, f, S) /\ t = h[S]
-----------------------------------------------------------------------------
\* A set of numbers that is not empty has a least element.
LEMMA LeastNumber == ASSUME NEW T \in SUBSET Nat, T # {} PROVE \E n \in T : \A m \in T : n <= m
<1> DEFINE R == {ss \in Nat \X Nat : ss[1] < ss[2]}
<1>1. IsWellFoundedOn(R, Nat)
  BY NatLessThanWellFounded DEF OpToRel
<1>2. \E n \in T : \A m \in T : <<m, n>> \notin R
  <2> HIDE DEF R
  <2> QED BY <1>1, WFMin
<1>3. PICK n \in T : \A m \in T : <<m, n>> \notin R
  BY <1>2
<1>4. \A m \in T : ~(m < n)
  BY <1>3
<1> QED BY <1>4

\* An element of a set that is not empty, and a subset without it.
LEMMA SomeOf ==
    ASSUME NEW S, IsFiniteSet(S), NEW s \in SUBSET S, NEW x \in s
    PROVE  /\ Some(s) \in s /\ IsFiniteSet(s) /\ Cardinality(s) \in Nat
           /\ s \ {x} \in SUBSET S /\ Cardinality(s \ {x}) = Cardinality(s) - 1
  BY FS_Subset, FS_RemoveElement, FS_CardinalityType DEF Some

\* There is such a function for every f.
LEMMA SumExists ==
    ASSUME NEW S, IsFiniteSet(S), NEW f PROVE \E h : Adds(h, f, S)
<1> DEFINE Small(n) == {s \in SUBSET S : Cardinality(s) <= n}
           Value(h, s) == IF s = {} THEN 0 ELSE f[Some(s)] + h[s \ {Some(s)}]
           AddsUpTo(h, n) == h = [s \in Small(n) |-> Value(h, s)]
           Bad == {n \in Nat : ~ \E h : AddsUpTo(h, n)}
<1>1. 0 \in Nat /\ \E h : AddsUpTo(h, 0)
  <2> DEFINE h == [s \in Small(0) |-> 0]
  <2>1. \A s \in Small(0) : s = {}
    BY FS_Subset, FS_EmptySet, FS_CardinalityType
  <2>2. \A s \in Small(0) : h[s] = Value(h, s)
    BY <2>1
  <2>3. h = [s \in Small(0) |-> Value(h, s)]
    BY <2>2
  <2> QED BY <2>3
<1>2. ASSUME NEW n \in Nat, NEW h, AddsUpTo(h, n) PROVE \E g : AddsUpTo(g, n + 1)
  <2> DEFINE g == [s \in Small(n + 1) |-> Value(h, s)]
  <2>1. \A s \in Small(n) : s \in Small(n + 1) /\ h[s] = Value(h, s)
    <3>1. \A s \in Small(n) : h[s] = Value(h, s)
      BY <1>2
    <3>2. \A s \in Small(n) : Cardinality(s) \in Nat
      BY FS_Subset, FS_CardinalityType
    <3> QED BY <3>1, <3>2
  <2>2. \A s \in Small(n + 1) : s # {} => s \ {Some(s)} \in Small(n)
    <3> TAKE s \in Small(n + 1)
    <3> HAVE s # {}
    <3>1. PICK x \in s : TRUE
      OBVIOUS
    <3>2. Some(s) \in s /\ Cardinality(s) \in Nat
      BY <3>1, SomeOf
    <3> QED BY <3>2, SomeOf
  <2>3. \A s \in Small(n + 1) : g[s] = Value(g, s)
    BY <2>1, <2>2
  <2>4. g = [s \in Small(n + 1) |-> Value(g, s)]
    BY <2>3
  <2> QED BY <2>4
<1>3. Bad = {}
  <2> SUFFICES ASSUME Bad # {} PROVE FALSE
    OBVIOUS
  <2>1. PICK n \in Bad : \A m \in Bad : n <= m
    BY LeastNumber
  <2> HIDE DEF AddsUpTo
  <2>2. n \in Nat /\ n # 0
    BY <1>1
  <2>3. n - 1 \in Nat /\ n - 1 \notin Bad
    BY <2>1, <2>2
  <2>4. PICK h : AddsUpTo(h, n - 1)
    BY <2>3
  <2>5. \E g : AddsUpTo(g, (n - 1) + 1)
    BY <1>2, <2>3, <2>4
  <2>6. (n - 1) + 1 = n
    BY <2>2
  <2> QED BY <2>5, <2>6
<1>4. Cardinality(S) \in Nat /\ Small(Cardinality(S)) = SUBSET S
  BY FS_Subset, FS_CardinalityType
<1>5. PICK h : AddsUpTo(h, Cardinality(S))
  BY <1>3, <1>4
<1>6. Adds(h, f, S)
  BY <1>4, <1>5 DEF Adds
<1> QED BY <1>6

\* There is a fold for every turn, as long as pick takes an element of the set.
LEMMA FoldExists ==
    ASSUME NEW S, IsFiniteSet(S), NEW base, NEW turn, NEW pick,
           \A s \in SUBSET S : s # {} => pick[s] \in s
    PROVE  \E h : Folds(h, base, turn, pick, S)
<1> DEFINE Small(n) == {s \in SUBSET S : Cardinality(s) <= n}
           Value(h, s) == IF s = {} THEN base ELSE turn[<<pick[s], h[s \ {pick[s]}]>>]
           AddsUpTo(h, n) == h = [s \in Small(n) |-> Value(h, s)]
           Bad == {n \in Nat : ~ \E h : AddsUpTo(h, n)}
<1>1. 0 \in Nat /\ \E h : AddsUpTo(h, 0)
  <2> DEFINE h == [s \in Small(0) |-> base]
  <2>1. \A s \in Small(0) : s = {}
    BY FS_Subset, FS_EmptySet, FS_CardinalityType
  <2>2. \A s \in Small(0) : h[s] = Value(h, s)
    BY <2>1
  <2>3. h = [s \in Small(0) |-> Value(h, s)]
    BY <2>2
  <2> QED BY <2>3
<1>2. ASSUME NEW n \in Nat, NEW h, AddsUpTo(h, n) PROVE \E g : AddsUpTo(g, n + 1)
  <2> DEFINE g == [s \in Small(n + 1) |-> Value(h, s)]
  <2>1. \A s \in Small(n) : s \in Small(n + 1) /\ h[s] = Value(h, s)
    <3>1. \A s \in Small(n) : h[s] = Value(h, s)
      BY <1>2
    <3>2. \A s \in Small(n) : Cardinality(s) \in Nat
      BY FS_Subset, FS_CardinalityType
    <3> QED BY <3>1, <3>2
  <2>2. \A s \in Small(n + 1) : s # {} => s \ {pick[s]} \in Small(n)
    <3> TAKE s \in Small(n + 1)
    <3> HAVE s # {}
    <3>1. pick[s] \in s
      OBVIOUS
    <3>2. Cardinality(s) \in Nat
      BY <3>1, SomeOf
    <3> QED BY <3>1, <3>2, SomeOf
  <2>3. \A s \in Small(n + 1) : g[s] = Value(g, s)
    BY <2>1, <2>2
  <2>4. g = [s \in Small(n + 1) |-> Value(g, s)]
    BY <2>3
  <2> QED BY <2>4
<1>3. Bad = {}
  <2> SUFFICES ASSUME Bad # {} PROVE FALSE
    OBVIOUS
  <2>1. PICK n \in Bad : \A m \in Bad : n <= m
    BY LeastNumber
  <2> HIDE DEF AddsUpTo
  <2>2. n \in Nat /\ n # 0
    BY <1>1
  <2>3. n - 1 \in Nat /\ n - 1 \notin Bad
    BY <2>1, <2>2
  <2>4. PICK h : AddsUpTo(h, n - 1)
    BY <2>3
  <2>5. \E g : AddsUpTo(g, (n - 1) + 1)
    BY <1>2, <2>3, <2>4
  <2>6. (n - 1) + 1 = n
    BY <2>2
  <2> QED BY <2>5, <2>6
<1>4. Cardinality(S) \in Nat /\ Small(Cardinality(S)) = SUBSET S
  BY FS_Subset, FS_CardinalityType
<1>5. PICK h : AddsUpTo(h, Cardinality(S))
  BY <1>3, <1>4
<1>6. Folds(h, base, turn, pick, S)
  BY <1>4, <1>5 DEF Folds
<1> QED BY <1>6

\* A sum of integers is one.
LEMMA SumIsInt ==
    ASSUME NEW S, IsFiniteSet(S), NEW f, \A x \in S : f[x] \in Int, NEW h, Adds(h, f, S),
           NEW s \in SUBSET S
    PROVE  h[s] \in Int
<1> DEFINE Bad == {s2 \in SUBSET S : h[s2] \notin Int}
           Sizes == {Cardinality(s2) : s2 \in Bad}
<1> SUFFICES ASSUME Bad # {} PROVE FALSE
  OBVIOUS
<1>1. Sizes \in SUBSET Nat /\ Sizes # {}
  BY FS_Subset, FS_CardinalityType
<1>2. PICK n \in Sizes : \A m \in Sizes : n <= m
  BY <1>1, LeastNumber
<1>3. PICK b \in Bad : Cardinality(b) = n
  BY <1>2
<1>4. h[b] = IF b = {} THEN 0 ELSE f[Some(b)] + h[b \ {Some(b)}]
  BY DEF Adds
<1>5. b # {}
  BY <1>4
<1>6. PICK x \in b : TRUE
  BY <1>5
<1>7. Some(b) \in b /\ n \in Nat
  BY <1>1, <1>6, SomeOf
<1>8. b \ {Some(b)} \in SUBSET S /\ Cardinality(b \ {Some(b)}) = n - 1
  BY <1>3, <1>7, SomeOf
<1>9. b \ {Some(b)} \notin Bad
  BY <1>2, <1>7, <1>8
<1> QED BY <1>4, <1>5, <1>7, <1>8, <1>9

\* Any element may be taken first.
LEMMA SumTakes ==
    ASSUME NEW S, IsFiniteSet(S), NEW f, \A x \in S : f[x] \in Int, NEW h, Adds(h, f, S),
           NEW s \in SUBSET S, NEW x \in s
    PROVE  h[s] = f[x] + h[s \ {x}]
<1> DEFINE Fine(b) == \A y \in b : h[b] = f[y] + h[b \ {y}]
           Bad == {b \in SUBSET S : ~Fine(b)}
           Sizes == {Cardinality(b) : b \in Bad}
<1> SUFFICES ASSUME Bad # {} PROVE FALSE
  OBVIOUS
<1>1. Sizes \in SUBSET Nat /\ Sizes # {}
  BY FS_Subset, FS_CardinalityType
<1>2. PICK n \in Sizes : \A m \in Sizes : n <= m
  BY <1>1, LeastNumber
<1>3. PICK b \in Bad : Cardinality(b) = n
  BY <1>2
<1>4. PICK y \in b : h[b] # f[y] + h[b \ {y}]
  BY <1>3
<1>5. PICK p : p = Some(b)
  OBVIOUS
<1>6. p \in b /\ h[b] = f[p] + h[b \ {p}] /\ n \in Nat
  BY <1>1, <1>4, <1>5, SomeOf DEF Adds
<1>7. p # y
  BY <1>4, <1>6
<1>8. \A z \in b : b \ {z} \in SUBSET S /\ Cardinality(b \ {z}) = n - 1
  BY <1>3, SomeOf
<1>9. \A z \in b : Fine(b \ {z})
  BY <1>2, <1>6, <1>8
<1>10. /\ h[b \ {p}] = f[y] + h[(b \ {p}) \ {y}]
       /\ h[b \ {y}] = f[p] + h[(b \ {y}) \ {p}]
  BY <1>6, <1>7, <1>9
<1>11. (b \ {p}) \ {y} = (b \ {y}) \ {p} /\ (b \ {p}) \ {y} \in SUBSET S
  BY <1>8
<1>12. h[(b \ {p}) \ {y}] \in Int /\ f[p] \in Int /\ f[y] \in Int
  BY <1>6, <1>11, SumIsInt
<1>13. PICK k \in Int : k = h[(b \ {p}) \ {y}]
  BY <1>12
<1>14. h[b \ {p}] = f[y] + k /\ h[b \ {y}] = f[p] + k
  BY <1>10, <1>11, <1>13
<1>15. h[b] = f[p] + (f[y] + k) /\ h[b] # f[y] + (f[p] + k)
  BY <1>4, <1>6, <1>14
<1> QED BY <1>12, <1>15

\* Two sums agree where their summands do.
LEMMA SumAgrees ==
    ASSUME NEW S, IsFiniteSet(S), NEW f, \A x \in S : f[x] \in Int, NEW h, Adds(h, f, S),
           NEW T, IsFiniteSet(T), NEW e, NEW g, Adds(g, e, T),
           NEW U, U \subseteq S, U \subseteq T, \A x \in U : f[x] = e[x]
    PROVE  h[U] = g[U]
<1> DEFINE Bad == {b \in SUBSET U : h[b] # g[b]}
           Sizes == {Cardinality(b) : b \in Bad}
<1> SUFFICES ASSUME Bad # {} PROVE FALSE
  OBVIOUS
<1>1. Sizes \in SUBSET Nat /\ Sizes # {}
  BY FS_Subset, FS_CardinalityType
<1>2. PICK n \in Sizes : \A m \in Sizes : n <= m
  BY <1>1, LeastNumber
<1>3. PICK b \in Bad : Cardinality(b) = n
  BY <1>2
<1>4. b \in SUBSET S /\ b \in SUBSET T
  OBVIOUS
<1>5. /\ h[b] = IF b = {} THEN 0 ELSE f[Some(b)] + h[b \ {Some(b)}]
      /\ g[b] = IF b = {} THEN 0 ELSE e[Some(b)] + g[b \ {Some(b)}]
  BY <1>4 DEF Adds
<1>6. b # {}
  BY <1>5
<1>7. PICK x \in b : TRUE
  BY <1>6
<1>8. Some(b) \in b /\ n \in Nat
  BY <1>1, <1>4, <1>7, SomeOf
<1>9. Cardinality(b \ {Some(b)}) = n - 1
  BY <1>3, <1>4, <1>8, SomeOf
<1>10. b \ {Some(b)} \notin Bad
  BY <1>2, <1>8, <1>9
<1> QED BY <1>5, <1>6, <1>8, <1>10
-----------------------------------------------------------------------------
\* SumOver is what every such function has for the whole set.
LEMMA SumIs ==
    ASSUME NEW S, IsFiniteSet(S), NEW f, \A x \in S : f[x] \in Int, NEW h, Adds(h, f, S)
    PROVE  SumOver(f, S) = h[S]
<1>1. \A g : Adds(g, f, S) => g[S] = h[S]
  BY SumAgrees
<1>2. \E t : \E g : Adds(g, f, S) /\ t = g[S]
  OBVIOUS
<1>3. PICK g : Adds(g, f, S) /\ SumOver(f, S) = g[S]
  BY <1>2 DEF SumOver
<1> QED BY <1>1, <1>3

\* The sum over nothing.
LEMMA SumNone == ASSUME NEW f PROVE SumOver(f, {}) = 0
<1>1. PICK h : Adds(h, f, {})
  BY SumExists, FS_EmptySet
<1>2. h[{}] = 0
  BY <1>1 DEF Adds
<1> QED BY <1>1, <1>2, SumIs, FS_EmptySet

\* The sum of integers is one.
LEMMA SumType ==
    ASSUME NEW S, IsFiniteSet(S), NEW f, \A x \in S : f[x] \in Int
    PROVE  SumOver(f, S) \in Int
<1>1. PICK h : Adds(h, f, S)
  BY SumExists
<1> QED BY <1>1, SumIs, SumIsInt

\* The sum depends on the summands alone.
LEMMA SumSame ==
    ASSUME NEW S, IsFiniteSet(S), NEW f, NEW e, \A x \in S : f[x] \in Int /\ e[x] = f[x]
    PROVE  SumOver(e, S) = SumOver(f, S)
<1>1. PICK h : Adds(h, f, S)
  BY SumExists
<1>2. PICK g : Adds(g, e, S)
  BY SumExists
<1>3. h[S] = g[S]
  BY <1>1, <1>2, SumAgrees
<1> QED BY <1>1, <1>2, <1>3, SumIs

\* One summand may be taken out of a sum.
LEMMA SumWithout ==
    ASSUME NEW S, IsFiniteSet(S), NEW f, \A y \in S : f[y] \in Int, NEW x \in S
    PROVE  /\ IsFiniteSet(S \ {x}) /\ SumOver(f, S \ {x}) \in Int
           /\ SumOver(f, S) = f[x] + SumOver(f, S \ {x})
<1>1. IsFiniteSet(S \ {x})
  BY FS_RemoveElement
<1>2. PICK h : Adds(h, f, S)
  BY SumExists
<1>3. PICK g : Adds(g, f, S \ {x})
  BY <1>1, SumExists
<1>4. h[S \ {x}] = g[S \ {x}]
  BY <1>1, <1>2, <1>3, SumAgrees
<1>5. h[S] = f[x] + h[S \ {x}]
  BY <1>2, SumTakes
<1> QED BY <1>1, <1>2, <1>3, <1>4, <1>5, SumIs, SumType

\* One more summand is added to a sum.
LEMMA SumWith ==
    ASSUME NEW S, IsFiniteSet(S), NEW x, x \notin S, NEW f,
           \A y \in S \cup {x} : f[y] \in Int
    PROVE  /\ IsFiniteSet(S \cup {x}) /\ SumOver(f, S) \in Int
           /\ SumOver(f, S \cup {x}) = SumOver(f, S) + f[x]
<1>1. IsFiniteSet(S \cup {x}) /\ (S \cup {x}) \ {x} = S
  BY FS_AddElement
<1>2. SumOver(f, S) \in Int
  BY SumType
<1>3. SumOver(f, S \cup {x}) = f[x] + SumOver(f, (S \cup {x}) \ {x})
  BY <1>1, SumWithout
<1>4. PICK k \in Int : k = SumOver(f, S)
  BY <1>2
<1>5. SumOver(f, S \cup {x}) = f[x] + k /\ f[x] \in Int
  BY <1>1, <1>3, <1>4
<1> QED BY <1>1, <1>4, <1>5

\* When one summand changes, the sum changes by as much.
LEMMA SumChanged ==
    ASSUME NEW S, IsFiniteSet(S), NEW f, \A y \in S : f[y] \in Int,
           NEW e, NEW x \in S, e[x] \in Int, \A y \in S \ {x} : e[y] = f[y]
    PROVE  SumOver(e, S) = SumOver(f, S) + e[x] - f[x]
<1>1. SumOver(f, S) = f[x] + SumOver(f, S \ {x}) /\ SumOver(f, S \ {x}) \in Int
  BY SumWithout
<1>2. SumOver(e, S) = e[x] + SumOver(e, S \ {x})
  BY SumWithout
<1>3. SumOver(e, S \ {x}) = SumOver(f, S \ {x})
  BY SumSame, FS_RemoveElement
<1>4. PICK k \in Int : k = SumOver(f, S \ {x})
  BY <1>1
<1>5. SumOver(f, S) = f[x] + k /\ SumOver(e, S) = e[x] + k /\ f[x] \in Int
  BY <1>1, <1>2, <1>3, <1>4
<1> QED BY <1>4, <1>5

\* A sum of amounts that are not negative is none, and no less than any part.
LEMMA SumOfPart ==
    ASSUME NEW S, IsFiniteSet(S), NEW f, \A y \in S : f[y] \in Nat, NEW U \in SUBSET S
    PROVE  /\ SumOver(f, U) \in Nat /\ SumOver(f, S) \in Nat
           /\ SumOver(f, U) <= SumOver(f, S)
<1> DEFINE Fine(b) == SumOver(f, U \cap b) \in Nat /\ SumOver(f, b) \in Nat
                      /\ SumOver(f, U \cap b) <= SumOver(f, b)
           Bad == {b \in SUBSET S : ~Fine(b)}
           Sizes == {Cardinality(b) : b \in Bad}
<1>1. Bad = {}
  <2> SUFFICES ASSUME Bad # {} PROVE FALSE
    OBVIOUS
  <2>1. Sizes \in SUBSET Nat /\ Sizes # {}
    <3> HIDE DEF Fine
    <3> QED BY FS_Subset, FS_CardinalityType
  <2>2. PICK n \in Sizes : \A m \in Sizes : n <= m
    BY <2>1, LeastNumber
  <2>3. PICK b \in Bad : Cardinality(b) = n
    BY <2>2
  <2>4. b # {}
    <3> SUFFICES ASSUME b = {} PROVE FALSE
      OBVIOUS
    <3>1. U \cap b = {} /\ SumOver(f, {}) = 0
      BY SumNone
    <3> QED BY <3>1
  <2>5. PICK x \in b : TRUE
    BY <2>4
  <2>6. /\ b \ {x} \in SUBSET S /\ Cardinality(b \ {x}) = n - 1 /\ n \in Nat
        /\ IsFiniteSet(b) /\ IsFiniteSet(U \cap b)
    BY <2>1, <2>3, <2>5, SomeOf, FS_Subset
  <2> HIDE DEF Fine
  <2>7. Fine(b \ {x})
    BY <2>2, <2>6
  <2>8. SumOver(f, b) = f[x] + SumOver(f, b \ {x}) /\ f[x] \in Nat
    BY <2>5, <2>6, SumWithout
  <2>9. CASE x \in U
    <3>1. /\ SumOver(f, U \cap b) = f[x] + SumOver(f, (U \cap b) \ {x})
          /\ (U \cap b) \ {x} = U \cap (b \ {x})
      BY <2>5, <2>6, <2>9, SumWithout
    <3>2. PICK j \in Nat, k \in Nat :
              j = SumOver(f, U \cap (b \ {x})) /\ k = SumOver(f, b \ {x}) /\ j <= k
      BY <2>7 DEF Fine
    <3>3. SumOver(f, U \cap b) = f[x] + j /\ SumOver(f, b) = f[x] + k /\ f[x] \in Nat
      BY <2>8, <3>1, <3>2
    <3>4. Fine(b)
      BY <3>2, <3>3 DEF Fine
    <3> QED BY <2>3, <3>4
  <2>10. CASE x \notin U
    <3>1. U \cap b = U \cap (b \ {x})
      BY <2>10
    <3> QED BY <2>3, <2>7, <2>8, <3>1 DEF Fine
  <2> QED BY <2>9, <2>10
<1>2. Fine(S) /\ U \cap S = U
  BY <1>1
<1> QED BY <1>2

\* Induction along subsets: what holds of the empty set, and of a set when it holds
\* of it without one element, holds of all subsets of a finite set.
LEMMA AlongSubsets ==
    ASSUME NEW S, IsFiniteSet(S), NEW P \in SUBSET (SUBSET S), {} \in P,
           \A b \in SUBSET S, x \in S : x \in b /\ b \ {x} \in P => b \in P
    PROVE  P = SUBSET S
<1> DEFINE Bad == (SUBSET S) \ P
           Sizes == {Cardinality(b) : b \in Bad}
<1> SUFFICES ASSUME Bad # {} PROVE FALSE
  OBVIOUS
<1>1. Sizes \in SUBSET Nat /\ Sizes # {}
  <2>1. \A b \in SUBSET S : Cardinality(b) \in Nat
    BY FS_Subset, FS_CardinalityType
  <2> QED BY <2>1
<1>2. PICK b \in Bad : \A m \in Sizes : Cardinality(b) <= m
  <2>1. PICK k \in Sizes : \A m \in Sizes : k <= m
    BY <1>1, LeastNumber
  <2> QED BY <2>1
<1>3. PICK x \in b : TRUE
  BY <1>2
<1>4. /\ b \ {x} \in SUBSET S /\ Cardinality(b) \in Nat
      /\ Cardinality(b \ {x}) = Cardinality(b) - 1
  BY <1>2, <1>3, SomeOf
<1>5. ~(Cardinality(b) <= Cardinality(b \ {x}))
  <2> HIDE DEF Sizes, Bad
  <2> QED BY <1>4
<1>6. b \ {x} \notin Bad
  BY <1>2, <1>5
<1> QED BY <1>2, <1>3, <1>4, <1>6

\* Summands that are zero do not count.
LEMMA SumSupport ==
    ASSUME NEW S, IsFiniteSet(S), NEW f, NEW U \in SUBSET S,
           \A y \in S : f[y] \in Int, \A y \in S \ U : f[y] = 0
    PROVE  SumOver(f, S) = SumOver(f, U)
<1> DEFINE P == {b \in SUBSET S : SumOver(f, b) = SumOver(f, U \cap b)}
<1>1. {} \in P
  <2>1. U \cap {} = {}
    OBVIOUS
  <2> QED BY <2>1
<1>2. ASSUME NEW b \in SUBSET S, NEW x \in S, x \in b, b \ {x} \in P
      PROVE  b \in P
  <2>1. IsFiniteSet(b) /\ IsFiniteSet(U \cap b) /\ \A y \in b : f[y] \in Int
    BY FS_Subset
  <2>2. SumOver(f, b) = f[x] + SumOver(f, b \ {x}) /\ SumOver(f, b \ {x}) \in Int
    BY <1>2, <2>1, SumWithout
  <2>3. SumOver(f, b \ {x}) = SumOver(f, U \cap (b \ {x}))
    BY <1>2
  <2>4. CASE x \in U
    <3>1. x \in U \cap b /\ (U \cap b) \ {x} = U \cap (b \ {x})
      BY <1>2, <2>4
    <3>2. SumOver(f, U \cap b) = f[x] + SumOver(f, (U \cap b) \ {x})
      BY <2>1, <3>1, SumWithout
    <3> QED BY <2>2, <2>3, <3>1, <3>2
  <2>5. CASE x \notin U
    <3>1. U \cap (b \ {x}) = U \cap b /\ f[x] = 0
      BY <2>5
    <3>2. SumOver(f, b \ {x}) = SumOver(f, U \cap b)
      BY <2>3, <3>1
    <3>3. SumOver(f, b) = SumOver(f, b \ {x})
      BY <2>2, <3>1
    <3> QED BY <3>2, <3>3
  <2> QED BY <2>4, <2>5
<1>3. P = SUBSET S
  <2>1. P \in SUBSET (SUBSET S)
    OBVIOUS
  <2> HIDE DEF P
  <2> QED BY <1>1, <1>2, <2>1, AlongSubsets
<1>4. S \in P /\ U \cap S = U
  BY <1>3
<1> QED BY <1>4

\* A sum of sums.
LEMMA SumPlus ==
    ASSUME NEW S, IsFiniteSet(S), NEW f, NEW g, NEW e,
           \A y \in S : f[y] \in Int /\ g[y] \in Int /\ e[y] = f[y] + g[y]
    PROVE  SumOver(e, S) = SumOver(f, S) + SumOver(g, S)
<1> DEFINE P == {b \in SUBSET S : SumOver(e, b) = SumOver(f, b) + SumOver(g, b)}
<1>1. {} \in P
  BY SumNone
<1>2. ASSUME NEW b \in SUBSET S, NEW x \in S, x \in b, b \ {x} \in P
      PROVE  b \in P
  <2>1. /\ IsFiniteSet(b)
        /\ (\A y \in b : f[y] \in Int) /\ (\A y \in b : g[y] \in Int)
        /\ (\A y \in b : e[y] \in Int)
    BY FS_Subset
  <2>2. SumOver(f, b) = f[x] + SumOver(f, b \ {x}) /\ SumOver(f, b \ {x}) \in Int
    BY <1>2, <2>1, SumWithout
  <2>3. SumOver(g, b) = g[x] + SumOver(g, b \ {x}) /\ SumOver(g, b \ {x}) \in Int
    BY <1>2, <2>1, SumWithout
  <2>4. SumOver(e, b) = e[x] + SumOver(e, b \ {x})
    BY <1>2, <2>1, SumWithout
  <2>5. SumOver(e, b \ {x}) = SumOver(f, b \ {x}) + SumOver(g, b \ {x})
    BY <1>2
  <2>6. SumOver(e, b) = SumOver(f, b) + SumOver(g, b)
    BY <2>2, <2>3, <2>4, <2>5
  <2> QED BY <2>6
<1>3. P = SUBSET S
  <2>1. P \in SUBSET (SUBSET S)
    OBVIOUS
  <2> HIDE DEF P
  <2> QED BY <1>1, <1>2, <2>1, AlongSubsets
<1>4. S \in P
  BY <1>3
<1> QED BY <1>4

\* Summands that go to different, no smaller summands add up to no more.
LEMMA SumInto ==
    ASSUME NEW S, IsFiniteSet(S), NEW T, IsFiniteSet(T), NEW f, NEW g, NEW m,
           \A x \in S : f[x] \in Nat /\ m[x] \in T /\ f[x] <= g[m[x]],
           \A x, y \in S : m[x] = m[y] => x = y, \A y \in T : g[y] \in Nat
    PROVE  SumOver(f, S) <= SumOver(g, T)
<1> DEFINE Into(b, c) == \A x \in b : m[x] \in c
           Fine(b) == \A c \in SUBSET T : Into(b, c) => SumOver(f, b) <= SumOver(g, c)
           Bad == {b \in SUBSET S : ~Fine(b)}
           Sizes == {Cardinality(b) : b \in Bad}
<1>1. Bad = {}
  <2> SUFFICES ASSUME Bad # {} PROVE FALSE
    OBVIOUS
  <2>1. Sizes \in SUBSET Nat /\ Sizes # {}
    <3> HIDE DEF Fine
    <3> QED BY FS_Subset, FS_CardinalityType
  <2>2. PICK n \in Sizes : \A k \in Sizes : n <= k
    BY <2>1, LeastNumber
  <2>3. PICK b \in Bad : Cardinality(b) = n
    BY <2>2
  <2>4. PICK c \in SUBSET T : Into(b, c) /\ ~(SumOver(f, b) <= SumOver(g, c))
    BY <2>3
  <2>5. SumOver(g, c) \in Nat /\ IsFiniteSet(c)
    BY FS_Subset, SumOfPart
  <2>6. b # {}
    BY <2>4, <2>5, SumNone
  <2>7. PICK x \in b : TRUE
    BY <2>6
  <2>8. /\ b \ {x} \in SUBSET S /\ Cardinality(b \ {x}) = n - 1 /\ n \in Nat /\ IsFiniteSet(b)
    BY <2>1, <2>3, <2>7, SomeOf, FS_Subset
  <2>9. m[x] \in c /\ f[x] \in Nat /\ f[x] <= g[m[x]] /\ g[m[x]] \in Nat
    BY <2>4, <2>7
  <2>10. Into(b \ {x}, c \ {m[x]})
    BY <2>3, <2>4, <2>7
  <2> HIDE DEF Fine, Into
  <2>11. Fine(b \ {x})
    BY <2>2, <2>8
  <2>12. SumOver(f, b \ {x}) <= SumOver(g, c \ {m[x]})
    BY <2>10, <2>11 DEF Fine
  <2>13. SumOver(f, b) = f[x] + SumOver(f, b \ {x}) /\ SumOver(f, b \ {x}) \in Int
    BY <2>7, <2>8, SumWithout
  <2>14. SumOver(g, c) = g[m[x]] + SumOver(g, c \ {m[x]}) /\ SumOver(g, c \ {m[x]}) \in Int
    BY <2>5, <2>9, SumWithout
  <2> QED BY <2>4, <2>9, <2>12, <2>13, <2>14
<1>2. Fine(S) /\ Into(S, T)
  BY <1>1
<1> QED BY <1>2
-----------------------------------------------------------------------------
\* A sum as the models take it is the sum over the set.
LEMMA MapSum ==
    ASSUME NEW S, IsFiniteSet(S), NEW f, \A x \in S : f[x] \in Int
    PROVE  /\ MapThenSumSet(LAMBDA x : f[x], S) = SumOver(f, S)
           /\ SumOver(f, S) \in Int
<1> DEFINE pick(s) == CHOOSE x \in s : TRUE
           Sum(h) == [s \in SUBSET S |-> IF s = {} THEN 0 ELSE f[pick(s)] + h[s \ {pick(s)}]]
           total == CHOOSE h : h = Sum(h)
<1>1. MapThenSumSet(LAMBDA x : f[x], S) = total[S]
  BY DEF MapThenSumSet, MapThenFoldSet
<1>2. \A s : Some(s) = pick(s)
  BY DEF Some
<1> HIDE DEF pick
<1>3. PICK h : Adds(h, f, S)
  BY SumExists
<1>4. \A g : Adds(g, f, S) <=> g = Sum(g)
  <2>1. ASSUME NEW g, NEW s \in SUBSET S
        PROVE  (IF s = {} THEN 0 ELSE f[Some(s)] + g[s \ {Some(s)}])
                 = (IF s = {} THEN 0 ELSE f[pick(s)] + g[s \ {pick(s)}])
    BY <1>2
  <2> QED BY <2>1 DEF Adds
<1>5. Adds(total, f, S)
  BY <1>3, <1>4
<1> HIDE DEF total
<1> QED BY <1>1, <1>5, SumIs, SumType

\* The amounts of a set of records, as payments and entries are.
Amounts(S) == [x \in S |-> x.amount]

\* A sum as the model takes it is the sum over the set.
LEMMA AmountsSum ==
    ASSUME NEW S, IsFiniteSet(S), \A x \in S : x.amount \in Int
    PROVE  MapThenSumSet(LAMBDA x : x.amount, S) = SumOver(Amounts(S), S)
<1> DEFINE pick(s) == CHOOSE x \in s : TRUE
           Sum(h) == [s \in SUBSET S |-> IF s = {} THEN 0
                                         ELSE pick(s).amount + h[s \ {pick(s)}]]
           total == CHOOSE h : h = Sum(h)
<1>1. MapThenSumSet(LAMBDA x : x.amount, S) = total[S]
  BY DEF MapThenSumSet, MapThenFoldSet
<1>2. \A s \in SUBSET S : s = {} \/ pick(s) \in s
  OBVIOUS
<1>3. \A s : Some(s) = pick(s)
  BY DEF Some
<1>4. \A x \in S : Amounts(S)[x] = x.amount /\ Amounts(S)[x] \in Int
  BY DEF Amounts
<1> HIDE DEF pick
<1>5. PICK h : Adds(h, Amounts(S), S)
  BY SumExists
<1>6. \A g : Adds(g, Amounts(S), S) <=> g = Sum(g)
  <2>1. ASSUME NEW g, NEW s \in SUBSET S
        PROVE  (IF s = {} THEN 0 ELSE Amounts(S)[Some(s)] + g[s \ {Some(s)}])
                 = (IF s = {} THEN 0 ELSE pick(s).amount + g[s \ {pick(s)}])
    BY <1>2, <1>3, <1>4
  <2> QED BY <2>1 DEF Adds
<1>7. total = Sum(total)
  BY <1>5, <1>6
<1>8. Adds(total, Amounts(S), S)
  BY <1>6, <1>7
<1> HIDE DEF total
<1> QED BY <1>1, <1>4, <1>8, SumIs

\* The sums of nothing, of one and of more.
LEMMA AmountsNat ==
    ASSUME NEW S, IsFiniteSet(S), \A x \in S : x.amount \in Nat
    PROVE  /\ SumOver(Amounts(S), S) \in Nat
           /\ S = {} => SumOver(Amounts(S), S) = 0
           /\ \A x : S = {x} => SumOver(Amounts(S), S) = x.amount
<1>1. \A x \in S : Amounts(S)[x] = x.amount /\ Amounts(S)[x] \in Nat
  BY DEF Amounts
<1>2. SumOver(Amounts(S), S) \in Nat
  BY <1>1, SumOfPart
<1>3. S = {} => SumOver(Amounts(S), S) = 0
  BY SumNone
<1>4. ASSUME NEW x, S = {x} PROVE SumOver(Amounts(S), S) = x.amount
  <2>1. x \in S /\ \A y \in S : Amounts(S)[y] \in Int
    BY <1>1, <1>4
  <2>2. /\ S \ {x} = {} /\ SumOver(Amounts(S), S \ {x}) = 0
        /\ SumOver(Amounts(S), S) = Amounts(S)[x] + SumOver(Amounts(S), S \ {x})
    <3>1. S \ {x} = {}
      BY <1>4
    <3> QED BY <2>1, <3>1, SumWithout, SumNone
  <2>3. x.amount \in Nat /\ Amounts(S)[x] = x.amount
    BY <1>1, <2>1
  <2> QED BY <2>2, <2>3
<1> QED BY <1>2, <1>3, <1>4

\* One more record adds its amount.
LEMMA AmountsWith ==
    ASSUME NEW S, IsFiniteSet(S), \A y \in S : y.amount \in Nat,
           NEW x, x \notin S, x.amount \in Nat
    PROVE  SumOver(Amounts(S \cup {x}), S \cup {x}) = SumOver(Amounts(S), S) + x.amount
<1> DEFINE f == Amounts(S \cup {x})
           T == S \cup {x}
<1>1. \A y \in T : f[y] = y.amount /\ f[y] \in Int
  BY DEF Amounts
<1>2. \A y \in S : Amounts(S)[y] = y.amount /\ Amounts(S)[y] \in Int
  BY DEF Amounts
<1> HIDE DEF f
<1>3. SumOver(f, T) = SumOver(f, S) + f[x]
  BY <1>1, SumWith
<1>4. \A y \in S : Amounts(S)[y] \in Int /\ f[y] = Amounts(S)[y]
  BY <1>1, <1>2
<1>5. SumOver(f, S) = SumOver(Amounts(S), S)
  BY <1>4, SumSame
<1>6. f[x] = x.amount
  BY <1>1
<1> QED BY <1>3, <1>5, <1>6 DEF f
-----------------------------------------------------------------------------
(* Sequences, and sums along them *)

\* A sequence, with one element changed and with one more.
LEMMA SeqFacts ==
    ASSUME NEW S, NEW s \in Seq(S)
    PROVE  /\ Len(s) \in Nat /\ DOMAIN s = 1..Len(s) /\ IsFiniteSet(DOMAIN s)
           /\ \A i \in DOMAIN s : s[i] \in S /\ i \in Nat
           /\ \A i \in DOMAIN s, e \in S :
                 /\ [s EXCEPT ![i] = e] \in Seq(S)
                 /\ DOMAIN [s EXCEPT ![i] = e] = DOMAIN s
           /\ \A e \in S :
                 /\ Append(s, e) \in Seq(S)
                 /\ Len(Append(s, e)) = Len(s) + 1
                 /\ DOMAIN Append(s, e) = DOMAIN s \cup {Len(s) + 1}
                 /\ Append(s, e)[Len(s) + 1] = e
                 /\ \A i \in DOMAIN s : Append(s, e)[i] = s[i]
<1>1. Len(s) \in Nat /\ DOMAIN s = 1..Len(s)
  OBVIOUS
<1>2. IsFiniteSet(DOMAIN s)
  BY <1>1, FS_Interval
<1>3. ASSUME NEW i \in DOMAIN s, NEW e \in S
      PROVE  [s EXCEPT ![i] = e] \in Seq(S) /\ DOMAIN [s EXCEPT ![i] = e] = DOMAIN s
  BY <1>1, ExceptSeq
<1>4. ASSUME NEW e \in S
      PROVE  /\ Append(s, e) \in Seq(S) /\ Len(Append(s, e)) = Len(s) + 1
             /\ DOMAIN Append(s, e) = DOMAIN s \cup {Len(s) + 1}
             /\ Append(s, e)[Len(s) + 1] = e
             /\ \A i \in DOMAIN s : Append(s, e)[i] = s[i]
  <2>1. /\ Append(s, e) \in Seq(S) /\ Len(Append(s, e)) = Len(s) + 1
        /\ Append(s, e)[Len(s) + 1] = e /\ \A i \in 1..Len(s) : Append(s, e)[i] = s[i]
    BY AppendProperties
  <2>2. DOMAIN Append(s, e) = 1..(Len(s) + 1)
    BY <2>1
  <2> QED BY <1>1, <2>1, <2>2
<1> QED BY <1>1, <1>2, <1>3, <1>4

\* A sum along a sequence, as FoldLeft takes it from the front: h is what its
\* folds come to, over every set of positions.
InTurn(h, base, f, n) ==
    h = [s \in SUBSET (1..n) |-> IF s = {} THEN base ELSE h[s \ {Max(s)}] + f[Max(s)]]

\* A set of positions has a last one.
LEMMA LastPosition ==
    ASSUME NEW n \in Nat, NEW s \in SUBSET (1..n), s # {}
    PROVE  Max(s) \in s /\ \A m \in s : m <= Max(s)
<1> DEFINE T == {n - k : k \in s}
<1>1. T \in SUBSET Nat /\ T # {}
  <2>1. \A k \in s : n - k \in Nat
    OBVIOUS
  <2> QED BY <2>1
<1>2. PICK t \in T : \A m \in T : t <= m
  BY <1>1, LeastNumber
<1>3. PICK k \in s : t = n - k
  BY <1>2
<1>4. \A m \in s : k >= m
  <2> TAKE m \in s
  <2>1. t <= n - m
    BY <1>2
  <2> QED BY <1>3, <2>1
<1> QED BY <1>4 DEF Max

\* Induction along positions: what holds of no positions, and of some when it
\* holds of them without the last, holds of all.
LEMMA AlongPositions ==
    ASSUME NEW n \in Nat, NEW P \in SUBSET (SUBSET (1..n)), {} \in P,
           \A s \in SUBSET (1..n) : s # {} /\ s \ {Max(s)} \in P => s \in P
    PROVE  P = SUBSET (1..n)
<1> DEFINE Bad == (SUBSET (1..n)) \ P
           Sizes == {Cardinality(s) : s \in Bad}
<1> SUFFICES ASSUME Bad # {} PROVE FALSE
  OBVIOUS
<1>1. IsFiniteSet(1..n)
  BY FS_Interval
<1>2. Sizes \in SUBSET Nat /\ Sizes # {}
  <2>1. \A s \in SUBSET (1..n) : Cardinality(s) \in Nat
    BY <1>1, FS_Subset, FS_CardinalityType
  <2> QED BY <2>1
<1>3. PICK b \in Bad : \A m \in Sizes : Cardinality(b) <= m
  <2>1. PICK k \in Sizes : \A m \in Sizes : k <= m
    BY <1>2, LeastNumber
  <2> QED BY <2>1
<1>4. PICK x \in b : x = Max(b)
  BY <1>3, LastPosition
<1>5. /\ b \ {x} \in SUBSET (1..n) /\ Cardinality(b) \in Nat
      /\ Cardinality(b \ {x}) = Cardinality(b) - 1
  BY <1>1, <1>3, <1>4, SomeOf
<1>6. b \ {x} \notin Bad
  <2>1. ASSUME b \ {x} \in Bad PROVE FALSE
    <3>1. Cardinality(b \ {x}) \in Sizes
      BY <2>1
    <3>2. Cardinality(b) <= Cardinality(b \ {x})
      BY <1>3, <3>1
    <3> HIDE DEF Sizes, Bad
    <3> QED BY <1>5, <3>2
  <2> QED BY <2>1
<1> QED BY <1>3, <1>4, <1>5, <1>6

\* h is a fold along the positions: turn makes what a position comes to of what the
\* positions before it came to.
FoldsAlong(h, base, turn, n) ==
    h = [s \in SUBSET (1..n) |-> IF s = {} THEN base ELSE turn[<<Max(s), h[s \ {Max(s)}]>>]]

\* A fold along positions exists, and stays within what its turns stay within.
LEMMA FoldStays ==
    ASSUME NEW n \in Nat, NEW A, NEW base \in A, NEW turn,
           \A k \in 1..n, v \in A : turn[<<k, v>>] \in A
    PROVE  \E h : FoldsAlong(h, base, turn, n) /\ \A s \in SUBSET (1..n) : h[s] \in A
<1> DEFINE S == 1..n
           pick == [s \in SUBSET S |-> Max(s)]
<1>1. IsFiniteSet(S)
  BY FS_Interval
<1>2. \A s \in SUBSET S : pick[s] = Max(s) /\ (s # {} => Max(s) \in s)
  BY LastPosition
<1> HIDE DEF pick, S
<1>3. PICK h : Folds(h, base, turn, pick, S)
  BY <1>1, <1>2, FoldExists
<1>4. h = [s \in SUBSET S |-> IF s = {} THEN base ELSE turn[<<Max(s), h[s \ {Max(s)}]>>]]
  BY <1>2, <1>3 DEF Folds
<1> DEFINE P == {s \in SUBSET S : h[s] \in A}
<1>5. {} \in P
  BY <1>4
<1>6. ASSUME NEW s \in SUBSET S, s # {}, s \ {Max(s)} \in P PROVE s \in P
  <2>1. PICK k \in S, v \in A : k = Max(s) /\ v = h[s \ {Max(s)}]
    BY <1>2, <1>6
  <2>2. turn[<<k, v>>] \in A
    BY DEF S
  <2>3. h[s] = turn[<<k, v>>]
    BY <1>4, <1>6, <2>1
  <2> QED BY <2>2, <2>3
<1>7. P = SUBSET S
  <2> HIDE DEF P
  <2>1. P \in SUBSET (SUBSET S)
    BY DEF P
  <2> QED BY <1>5, <1>6, <2>1, AlongPositions DEF S
<1> QED BY <1>4, <1>7 DEF S, FoldsAlong

\* Such a fold exists, and comes to the sum.
LEMMA InTurnIs ==
    ASSUME NEW n \in Nat, NEW f, \A k \in 1..n : f[k] \in Int, NEW base \in Int
    PROVE  (CHOOSE h : InTurn(h, base, f, n))[1..n] = base + SumOver(f, 1..n)
<1> DEFINE S == 1..n
<1>1. IsFiniteSet(S) /\ S \in SUBSET S /\ \A x \in S : f[x] \in Int
  BY FS_Interval
<1> HIDE DEF S
<1>2. PICK g : Adds(g, f, S)
  BY <1>1, SumExists
<1>3. \A s \in SUBSET S : g[s] \in Int
  BY <1>1, <1>2, SumIsInt
<1>4. g[{}] = 0
  BY <1>2 DEF Adds
<1>5. SumOver(f, S) = g[S]
  BY <1>1, <1>2, SumIs
<1>6. ASSUME NEW s \in SUBSET S, s # {}
      PROVE  /\ Max(s) \in s /\ s \ {Max(s)} \in SUBSET S
             /\ g[s] = f[Max(s)] + g[s \ {Max(s)}] /\ f[Max(s)] \in Int
             /\ Cardinality(s) \in Nat /\ Cardinality(s \ {Max(s)}) = Cardinality(s) - 1
  <2>1. PICK x \in s : x = Max(s)
    BY <1>6, LastPosition DEF S
  <2>2. g[s] = f[x] + g[s \ {x}]
    BY <1>1, <1>2, <1>6, SumTakes
  <2>3. f[x] \in Int
    BY <1>1
  <2>4. Cardinality(s) \in Nat /\ Cardinality(s \ {x}) = Cardinality(s) - 1
    BY <1>1, SomeOf
  <2> QED BY <2>1, <2>2, <2>3, <2>4
<1>7. \E h : InTurn(h, base, f, n)
  <2> DEFINE h == [s \in SUBSET S |-> base + g[s]]
  <2>1. \A s \in SUBSET S : h[s] = IF s = {} THEN base ELSE h[s \ {Max(s)}] + f[Max(s)]
    <3> TAKE s \in SUBSET S
    <3>1. CASE s = {}
      BY <1>4, <3>1
    <3>2. CASE s # {}
      BY <1>3, <1>6, <3>2
    <3> QED BY <3>1, <3>2
  <2>2. h = [s \in SUBSET S |-> h[s]]
    OBVIOUS
  <2> HIDE DEF h
  <2>3. InTurn(h, base, f, n)
    BY <2>1, <2>2 DEF InTurn, S
  <2> QED BY <2>3
<1>8. ASSUME NEW h, InTurn(h, base, f, n) PROVE h[S] = base + g[S]
  <2> DEFINE Bad == {s \in SUBSET S : h[s] # base + g[s]}
             Sizes == {Cardinality(s) : s \in Bad}
  <2> SUFFICES ASSUME Bad # {} PROVE FALSE
    BY <1>1
  <2>1. Sizes \in SUBSET Nat /\ Sizes # {}
    BY <1>1, FS_Subset, FS_CardinalityType
  <2>2. PICK b \in Bad : \A m \in Sizes : Cardinality(b) <= m
    BY <2>1, LeastNumber
  <2>3. \A s \in SUBSET S : h[s] = IF s = {} THEN base ELSE h[s \ {Max(s)}] + f[Max(s)]
    BY <1>8 DEF InTurn, S
  <2>4. b # {}
    <3>1. CASE b = {}
      <4>1. h[{}] = base
        BY <2>3
      <4>2. base = base + g[{}]
        BY <1>4
      <4> QED BY <2>2, <3>1, <4>1, <4>2
    <3> QED BY <3>1
  <2>5. b \ {Max(b)} \in SUBSET S /\ b \ {Max(b)} \notin Bad
    <3>1. CASE b \ {Max(b)} \in Bad
      <4>1. Cardinality(b) <= Cardinality(b \ {Max(b)})
        BY <2>2, <3>1
      <4> QED BY <1>6, <2>2, <2>4, <4>1
    <3> QED BY <1>6, <2>2, <2>4, <3>1
  <2>6. h[b] = h[b \ {Max(b)}] + f[Max(b)] /\ h[b \ {Max(b)}] = base + g[b \ {Max(b)}]
    BY <2>2, <2>3, <2>4, <2>5
  <2>7. g[b] = f[Max(b)] + g[b \ {Max(b)}] /\ f[Max(b)] \in Int /\ g[b \ {Max(b)}] \in Int
    BY <1>3, <1>6, <2>2, <2>4, <2>5
  <2>8. h[b] = base + g[b]
    BY <2>6, <2>7
  <2> QED BY <2>2, <2>8
<1>9. PICK h : h = (CHOOSE h2 : InTurn(h2, base, f, n)) /\ InTurn(h, base, f, n)
  BY <1>7
<1> QED BY <1>5, <1>8, <1>9 DEF S

\* A sum along one position more.
LEMMA SumGrows ==
    ASSUME NEW n \in Nat, NEW f, NEW g, g[n + 1] \in Int,
           \A k \in 1..n : f[k] \in Int /\ g[k] = f[k]
    PROVE  SumOver(g, 1..(n + 1)) = SumOver(f, 1..n) + g[n + 1]
<1>1. 1..(n + 1) = (1..n) \cup {n + 1} /\ n + 1 \notin 1..n
  OBVIOUS
<1>2. IsFiniteSet(1..n)
  BY FS_Interval
<1>3. PICK S : S = 1..n
  OBVIOUS
<1>4. \A k \in S \cup {n + 1} : g[k] \in Int
  BY <1>3
<1>5. SumOver(g, S \cup {n + 1}) = SumOver(g, S) + g[n + 1]
  BY <1>1, <1>2, <1>3, <1>4, SumWith
<1>6. SumOver(g, S) = SumOver(f, S)
  BY <1>2, <1>3, SumSame
<1> QED BY <1>1, <1>3, <1>5, <1>6

\* A sum along the positions, one of them changed.
LEMMA SumMoves ==
    ASSUME NEW n \in Nat, NEW f, NEW g, NEW k \in 1..n, \A j \in 1..n : f[j] \in Int,
           g[k] \in Int, \A j \in (1..n) \ {k} : g[j] = f[j]
    PROVE  SumOver(g, 1..n) = SumOver(f, 1..n) + g[k] - f[k]
<1>1. IsFiniteSet(1..n)
  BY FS_Interval
<1> DEFINE S == 1..n
<1> HIDE DEF S
<1>2. IsFiniteSet(S) /\ k \in S
  BY <1>1 DEF S
<1>3. (\A j \in S : f[j] \in Int) /\ \A j \in S \ {k} : g[j] = f[j]
  BY DEF S
<1>4. \A j \in S : g[j] \in Int
  BY <1>3
<1>5. SumOver(f, S) = f[k] + SumOver(f, S \ {k}) /\ SumOver(f, S \ {k}) \in Int
      /\ IsFiniteSet(S \ {k})
  BY <1>2, <1>3, SumWithout
<1>6. SumOver(g, S) = g[k] + SumOver(g, S \ {k})
  BY <1>2, <1>4, SumWithout
<1>7. SumOver(g, S \ {k}) = SumOver(f, S \ {k})
  BY <1>3, <1>5, SumSame
<1>8. f[k] \in Int /\ g[k] \in Int
  BY <1>2, <1>3
<1>9. SumOver(g, S) = SumOver(f, S) + g[k] - f[k]
  BY <1>5, <1>6, <1>7, <1>8
<1> QED BY <1>9 DEF S
-----------------------------------------------------------------------------
(* The allocation of a payment *)

\* What the loop over the items has when it begins.
NoParts(payment) == [left |-> payment, total |-> 0, parts |-> <<>>]

\* The states the loop may be in.
Loops(n) == [left : Int, total : Int, parts : Seq([item : 1..n, amount : Int])]

\* The parts after the first n items: oldest first, each at most what its item
\* owes.
PartsOf(parts, items, selected, n) ==
    /\ parts \in Seq([item : 1..n, amount : Int])
    /\ \A j \in DOMAIN parts :
          /\ parts[j].amount > 0
          /\ parts[j].amount <= Owed(items[parts[j].item])
          /\ selected = {} \/ parts[j].item \in selected
          /\ \A k \in 1..(j - 1) : parts[k].item < parts[j].item

\* A turn of the loop.
TurnTo(acc, items, selected, k) ==
    IF selected = {} \/ k \in selected THEN AllocateTo(acc, items[k], k) ELSE acc

LEMMA TurnIs ==
    ASSUME NEW n \in Nat, NEW acc \in Loops(n), NEW items, NEW selected, NEW k \in 1..n,
           items[k].total \in Int, items[k].paid \in Int
    PROVE  TurnTo(acc, items, selected, k) \in Loops(n)
<1>1. PICK left \in Int, total \in Int, parts \in Seq([item : 1..n, amount : Int]) :
         acc = [left |-> left, total |-> total, parts |-> parts]
  BY DEF Loops
<1>2. PICK owed \in Int : owed = Owed(items[k])
  BY DEF Owed
<1>3. PICK amount \in Int : amount = Least(left, owed)
  BY DEF Least
<1>4. Append(parts, [item |-> k, amount |-> amount]) \in Seq([item : 1..n, amount : Int])
  <2>1. [item |-> k, amount |-> amount] \in [item : 1..n, amount : Int]
    OBVIOUS
  <2> QED BY <2>1, AppendProperties
<1> QED BY <1>1, <1>2, <1>3, <1>4 DEF TurnTo, AllocateTo, Loops

LEMMA LoopsGrow == ASSUME NEW n \in Nat PROVE Loops(n) \subseteq Loops(n + 1)
<1>1. [item : 1..n, amount : Int] \subseteq [item : 1..(n + 1), amount : Int]
  OBVIOUS
<1>2. Seq([item : 1..n, amount : Int]) \subseteq Seq([item : 1..(n + 1), amount : Int])
  BY <1>1, SeqMonotonic
<1> QED BY <1>2 DEF Loops

LEMMA TurnKeeps ==
    ASSUME NEW n \in Nat, NEW acc \in Loops(n), NEW items, NEW selected,
           items[n + 1].total \in Int, items[n + 1].paid \in Int,
           PartsOf(acc.parts, items, selected, n)
    PROVE  PartsOf(TurnTo(acc, items, selected, n + 1).parts, items, selected, n + 1)
<1> DEFINE new == TurnTo(acc, items, selected, n + 1)
           Part == [item : 1..(n + 1), amount : Int]
<1>1. PICK left \in Int, total \in Int, parts \in Seq([item : 1..n, amount : Int]) :
         acc = [left |-> left, total |-> total, parts |-> parts]
  BY DEF Loops
<1>2. PICK owed \in Int : owed = Owed(items[n + 1])
  BY DEF Owed
<1>3. PICK amount \in Int : amount = Least(left, owed)
  BY DEF Least
<1>4. parts \in Seq(Part) /\ acc.parts = parts /\ Len(parts) \in Nat /\ DOMAIN parts = 1..Len(parts)
      /\ \A j \in 1..Len(parts) : parts[j].item \in 1..n
  <2>1. Len(parts) \in Nat /\ DOMAIN parts = 1..Len(parts)
    BY <1>1, LenProperties
  <2>2. \A j \in 1..Len(parts) : parts[j] \in [item : 1..n, amount : Int]
    BY <1>1, ElementOfSeq
  <2>3. [item : 1..n, amount : Int] \subseteq Part
    OBVIOUS
  <2>4. parts \in Seq(Part)
    BY <1>1, <2>3, SeqMonotonic
  <2> QED BY <1>1, <2>1, <2>2, <2>4
<1>5. CASE ~(selected = {} \/ n + 1 \in selected) \/ left <= 0 \/ owed <= 0
  <2>1. new = acc
    BY <1>1, <1>2, <1>5 DEF TurnTo, AllocateTo
  <2> QED BY <1>4, <2>1 DEF PartsOf
<1>6. CASE (selected = {} \/ n + 1 \in selected) /\ left > 0 /\ owed > 0
  <2>1. PICK part \in Part : part = [item |-> n + 1, amount |-> amount]
    <3>1. n + 1 \in 1..(n + 1)
      OBVIOUS
    <3> QED BY <3>1
  <2>2. new.parts = Append(parts, part)
    BY <1>1, <1>2, <1>3, <1>6, <2>1 DEF TurnTo, AllocateTo
  <2>3. /\ new.parts \in Seq(Part) /\ DOMAIN new.parts = 1..(Len(parts) + 1)
        /\ new.parts[Len(parts) + 1] = part
        /\ \A j \in 1..Len(parts) : new.parts[j] = parts[j]
    <3> HIDE DEF new, Part
    <3> QED BY <1>4, <2>1, <2>2, AppendProperties
  <2>4. amount > 0 /\ amount <= owed
    BY <1>3, <1>6 DEF Least
  <2>5. \A j \in 1..Len(parts) :
          /\ parts[j].amount > 0
          /\ parts[j].amount <= Owed(items[parts[j].item])
          /\ selected = {} \/ parts[j].item \in selected
          /\ \A k \in 1..(j - 1) : parts[k].item < parts[j].item
    BY <1>4 DEF PartsOf
  <2>6. ASSUME NEW j \in DOMAIN new.parts
        PROVE  /\ new.parts[j].amount > 0
               /\ new.parts[j].amount <= Owed(items[new.parts[j].item])
               /\ selected = {} \/ new.parts[j].item \in selected
               /\ \A k \in 1..(j - 1) : new.parts[k].item < new.parts[j].item
    <3> HIDE DEF new
    <3>1. CASE j \in 1..Len(parts)
      <4>1. \A k \in 1..(j - 1) : k \in 1..Len(parts)
        BY <1>4, <3>1
      <4> QED BY <2>3, <2>5, <3>1, <4>1
    <3>2. CASE j = Len(parts) + 1
      <4>1. \A k \in 1..(j - 1) : k \in 1..Len(parts) /\ parts[k].item < n + 1
        BY <1>4, <3>2, SMTT(20)
      <4>2. part.item = n + 1 /\ part.amount = amount
        BY <2>1
      <4>3. new.parts[j] = part /\ \A k \in 1..(j - 1) : new.parts[k] = parts[k]
        BY <2>3, <3>2, <4>1
      <4>4. amount <= Owed(items[n + 1])
        BY <1>2, <2>4
      <4> QED BY <1>6, <2>4, <4>1, <4>2, <4>3, <4>4
    <3>3. j \in 1..Len(parts) \/ j = Len(parts) + 1
      BY <1>4, <2>3
    <3> QED BY <3>1, <3>2, <3>3
  <2>7. PartsOf(new.parts, items, selected, n + 1)
    <3> HIDE DEF new
    <3> QED BY <2>3, <2>6 DEF PartsOf
  <2> QED BY <2>7
<1> QED BY <1>1, <1>2, <1>5, <1>6

\* A payment is spread over items that owe something, oldest first and each once,
\* and no item gets more than it owes (calculatePaymentAllocation).
LEMMA AllocateParts ==
    ASSUME NEW n \in Nat, NEW items, DOMAIN items = 1..n,
           \A k \in 1..n : items[k].total \in Int /\ items[k].paid \in Int,
           NEW selected, NEW payment \in Int
    PROVE  PartsOf(Allocate(items, selected, payment).parts, items, selected, n)
<1> DEFINE S == 1..n
           pick == [s \in SUBSET S |-> Max(s)]
           turn == [p \in S \X Loops(n) |-> TurnTo(p[2], items, selected, p[1])]
           Own(h) == h = [s \in SUBSET S |->
                            IF s = {} THEN NoParts(payment)
                            ELSE TurnTo(h[s \ {Max(s)}], items, selected, Max(s))]
           own == CHOOSE h : Own(h)
           line == [k \in DOMAIN items |-> k]
           Along(h) == h = [s \in SUBSET DOMAIN line |->
                             IF s = {} THEN NoParts(payment)
                             ELSE TurnTo(h[s \ {Max(s)}], items, selected, line[Max(s)])]
           end == CHOOSE h : Along(h)
<1>1. Allocate(items, selected, payment).parts = end[DOMAIN line].parts
  BY DEF Allocate, FoldLeft, MapThenFoldSet, TurnTo, NoParts
<1>2. IsFiniteSet(S)
  BY FS_Interval
<1>3. ASSUME NEW s \in SUBSET S, s # {} PROVE Max(s) \in s /\ s \ {Max(s)} \in SUBSET S
  BY <1>3, LastPosition
<1>4. \A h : Along(h) <=> Own(h)
  <2>1. DOMAIN line = S /\ \A s \in SUBSET S : s # {} => line[Max(s)] = Max(s)
    BY <1>3
  <2>2. ASSUME NEW h, NEW s \in SUBSET S
        PROVE  (IF s = {} THEN NoParts(payment)
                ELSE TurnTo(h[s \ {Max(s)}], items, selected, line[Max(s)]))
                 = (IF s = {} THEN NoParts(payment)
                    ELSE TurnTo(h[s \ {Max(s)}], items, selected, Max(s)))
    <3> HIDE DEF line, S
    <3>1. CASE s = {}
      BY <3>1
    <3>2. CASE s # {}
      <4>1. line[Max(s)] = Max(s)
        BY <2>1, <3>2
      <4> QED BY <4>1
    <3> QED BY <3>1, <3>2
  <2> HIDE DEF line
  <2> QED BY <2>1, <2>2
<1>5. end = own /\ DOMAIN line = S
  BY <1>4
<1>6. PICK h : Folds(h, NoParts(payment), turn, pick, S)
  <2>1. \A s \in SUBSET S : s # {} => pick[s] \in s
    BY <1>3
  <2> HIDE DEF S, pick, turn
  <2> QED BY <1>2, <2>1, FoldExists
<1>7. \A s \in SUBSET S : h[s] = IF s = {} THEN NoParts(payment)
                                 ELSE turn[<<pick[s], h[s \ {pick[s]}]>>]
  BY <1>6 DEF Folds
<1>8. NoParts(payment) \in Loops(n)
  <2>1. <<>> \in Seq([item : 1..n, amount : Int])
    OBVIOUS
  <2> QED BY <2>1 DEF NoParts, Loops
<1>9. ASSUME NEW s \in SUBSET S, s # {}, h[s \ {Max(s)}] \in Loops(n)
      PROVE  /\ h[s] = TurnTo(h[s \ {Max(s)}], items, selected, Max(s))
             /\ h[s] \in Loops(n)
  <2>1. Max(s) \in S /\ pick[s] = Max(s)
    BY <1>3, <1>9
  <2>2. PICK v \in Loops(n) : v = h[s \ {Max(s)}]
    BY <1>9
  <2>3. <<Max(s), v>> \in S \X Loops(n)
    BY <2>1, <2>2
  <2>4. turn[<<Max(s), v>>] = TurnTo(v, items, selected, Max(s))
    BY <2>3
  <2>5. h[s] = turn[<<Max(s), v>>]
    BY <1>7, <1>9, <2>1, <2>2
  <2> HIDE DEF turn
  <2>6. h[s] = TurnTo(v, items, selected, Max(s))
    BY <2>4, <2>5
  <2>7. TurnTo(v, items, selected, Max(s)) \in Loops(n)
    BY <2>1, TurnIs
  <2> QED BY <2>2, <2>6, <2>7
<1>10. \A s \in SUBSET S : h[s] \in Loops(n)
  <2> DEFINE Bad == {s \in SUBSET S : h[s] \notin Loops(n)}
             Sizes == {Cardinality(s) : s \in Bad}
  <2> SUFFICES ASSUME Bad # {} PROVE FALSE
    OBVIOUS
  <2>1. Sizes \in SUBSET Nat /\ Sizes # {}
    <3>1. \A s \in SUBSET S : Cardinality(s) \in Nat
      BY <1>2, FS_Subset, FS_CardinalityType
    <3> QED BY <3>1
  <2>2. PICK b \in Bad : \A m \in Sizes : Cardinality(b) <= m
    BY <2>1, LeastNumber
  <2>3. b # {}
    BY <1>7, <1>8, <2>2
  <2>4. /\ b \ {Max(b)} \in SUBSET S /\ Cardinality(b \ {Max(b)}) = Cardinality(b) - 1
        /\ Cardinality(b) \in Nat
    <3>1. b \in SUBSET S /\ Max(b) \in b
      BY <1>3, <2>2, <2>3
    <3>2. PICK x \in b : x = Max(b)
      BY <3>1
    <3> HIDE DEF S, Bad
    <3> QED BY <1>2, <3>1, <3>2, SomeOf
  <2>5. b \ {Max(b)} \notin Bad
    <3>1. CASE b \ {Max(b)} \in Bad
      <4>1. Cardinality(b) <= Cardinality(b \ {Max(b)})
        BY <2>2, <3>1
      <4> QED BY <2>4, <4>1
    <3> QED BY <3>1
  <2> QED BY <1>9, <2>2, <2>3, <2>4, <2>5
<1>11. Own(h)
  <2>1. ASSUME NEW s \in SUBSET S, s # {}
        PROVE  h[s] = TurnTo(h[s \ {Max(s)}], items, selected, Max(s))
    BY <1>3, <1>9, <1>10, <2>1
  <2>2. h = [s \in SUBSET S |-> h[s]]
    BY <1>6 DEF Folds
  <2>3. h[{}] = NoParts(payment)
    BY <1>7
  <2>4. \A s \in SUBSET S :
           h[s] = IF s = {} THEN NoParts(payment)
                  ELSE TurnTo(h[s \ {Max(s)}], items, selected, Max(s))
    BY <2>1, <2>3
  <2> QED BY <2>2, <2>4
<1>12. Own(own)
  BY <1>11
<1>13. \A s \in SUBSET S : own[s] = IF s = {} THEN NoParts(payment)
                                   ELSE TurnTo(own[s \ {Max(s)}], items, selected, Max(s))
  <2> HIDE DEF own
  <2> QED BY <1>12
<1> DEFINE Done(k) == own[1..k] \in Loops(k) /\ PartsOf(own[1..k].parts, items, selected, k)
<1>14. Done(0)
  <2>1. own[1..0] = NoParts(payment)
    <3>1. 1..0 = {}
      OBVIOUS
    <3> HIDE DEF own
    <3> QED BY <1>13, <3>1
  <2>2. NoParts(payment) \in Loops(0) /\ PartsOf(NoParts(payment).parts, items, selected, 0)
    BY DEF NoParts, Loops, PartsOf
  <2> HIDE DEF own
  <2> QED BY <2>1, <2>2
<1>15. ASSUME NEW k \in Nat, k + 1 <= n, Done(k) PROVE Done(k + 1)
  <2> HIDE DEF own
  <2>1. k + 1 \in 1..n /\ 1..(k + 1) \in SUBSET S /\ 1..(k + 1) # {}
        /\ (1..(k + 1)) \ {k + 1} = 1..k
    <3>1. \A m \in Int : m \in (1..(k + 1)) \ {k + 1} <=> m \in 1..k
      OBVIOUS
    <3>2. (1..(k + 1)) \ {k + 1} = 1..k
      BY <3>1
    <3>3. k + 1 \in 1..n /\ k + 1 \in 1..(k + 1)
      BY <1>15
    <3>4. \A m \in 1..(k + 1) : m \in 1..n
      BY <1>15
    <3> QED BY <3>2, <3>3, <3>4
  <2>2. Max(1..(k + 1)) = k + 1
    <3>1. \A y \in 1..(k + 1) : (\A z \in 1..(k + 1) : y >= z) <=> y = k + 1
      OBVIOUS
    <3> QED BY <2>1, <3>1 DEF Max
  <2>3. own[1..(k + 1)] = TurnTo(own[1..k], items, selected, k + 1)
    BY <1>13, <2>1, <2>2
  <2>4. own[1..k] \in Loops(k + 1) /\ k + 1 \in 1..(k + 1) /\ k + 1 \in Nat
    BY <1>15, LoopsGrow
  <2>5. TurnTo(own[1..k], items, selected, k + 1) \in Loops(k + 1)
    BY <2>1, <2>4, TurnIs
  <2>6. PartsOf(TurnTo(own[1..k], items, selected, k + 1).parts, items, selected, k + 1)
    BY <1>15, <2>1, TurnKeeps
  <2> QED BY <2>3, <2>5, <2>6
<1>16. Done(n)
  <2> DEFINE Bad == {k \in Nat : k <= n /\ ~Done(k)}
  <2> SUFFICES ASSUME Bad # {} PROVE FALSE
    <3> HIDE DEF Done
    <3> QED OBVIOUS
  <2> HIDE DEF Done
  <2>1. PICK k \in Bad : \A m \in Bad : k <= m
    BY LeastNumber
  <2>2. k # 0
    BY <1>14, <2>1
  <2>3. k - 1 \in Nat /\ k - 1 <= n /\ k - 1 \notin Bad
    BY <2>1, <2>2
  <2>4. Done((k - 1) + 1)
    BY <1>15, <2>1, <2>3
  <2>5. (k - 1) + 1 = k
    BY <2>1
  <2> QED BY <2>1, <2>4, <2>5
<1> QED BY <1>1, <1>5, <1>16
=============================================================================
