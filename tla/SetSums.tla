------------------------------ MODULE SetSums ------------------------------
(***************************************************************************)
(* Sums over finite sets.  The modules add with MapThenSumSet; here are    *)
(* the facts about it that their proofs need, for any set and any amounts. *)
(*                                                                         *)
(* Amounts are a function on the set, so that one lemma serves every sum.  *)
(* Each fact about all finite sets is shown for a smallest set that would  *)
(* break it, which the library's well-founded ordering of finite subsets   *)
(* provides.                                                               *)
(***************************************************************************)
EXTENDS Integers, FiniteSets, FiniteSetsExt, FiniteSetTheorems, TLAPS

\* The element that a sum takes out next, and the recursion it follows.
AnyOf(s) == CHOOSE x \in s : TRUE

Adds(h, amount, S) ==
    h = [s \in SUBSET S |-> IF s = {} THEN 0 ELSE amount[AnyOf(s)] + h[s \ {AnyOf(s)}]]

Total(amount, S) == (CHOOSE h : Adds(h, amount, S))[S]

-----------------------------------------------------------------------------
\* Finite sets have smallest elements: of a family of subsets of a finite set,
\* one has no other member of the family inside.
LEMMA SmallestSet ==
    ASSUME NEW S, IsFiniteSet(S), NEW Bad, Bad \subseteq SUBSET S, Bad # {}
    PROVE  \E T \in Bad : \A U \in SUBSET T : U # T => U \notin Bad
<1>1. IsWellFoundedOn(StrictSubsetOrdering(S), SUBSET S)
  BY FS_StrictSubsetOrderingWellFounded, FS_FiniteSubsetsOfFinite
<1>2. PICK T \in Bad : \A U \in Bad : ~ (<<U, T>> \in StrictSubsetOrdering(S))
  BY <1>1, WFMin
<1>3. ASSUME NEW U \in SUBSET T, U # T, U \in Bad
      PROVE  FALSE
  <2>1. <<U, T>> \in StrictSubsetOrdering(S)
    BY <1>3 DEF StrictSubsetOrdering
  <2> QED
    BY <1>2, <1>3, <2>1
<1> QED
  BY <1>2, <1>3

LEMMA AnyOfIsIn ==
    ASSUME NEW s, s # {}
    PROVE  AnyOf(s) \in s
BY DEF AnyOf

\* Two recursions agree where both are defined.
LEMMA AddsAgree ==
    ASSUME NEW S, IsFiniteSet(S), NEW T, NEW amount, NEW h, NEW k,
           Adds(h, amount, S), Adds(k, amount, T), NEW s \in SUBSET (S \intersect T)
    PROVE  h[s] = k[s]
<1> DEFINE Bad == {u \in SUBSET (S \intersect T) : h[u] # k[u]}
<1>1. SUFFICES ASSUME Bad # {} PROVE FALSE
  OBVIOUS
<1>2. PICK u \in Bad : \A v \in SUBSET u : v # u => v \notin Bad
  <2>1. Bad \subseteq SUBSET S
    OBVIOUS
  <2> HIDE DEF Bad
  <2> QED
    BY <1>1, <2>1, SmallestSet
<1>3. h[u] = IF u = {} THEN 0 ELSE amount[AnyOf(u)] + h[u \ {AnyOf(u)}]
  BY DEF Adds
<1>4. k[u] = IF u = {} THEN 0 ELSE amount[AnyOf(u)] + k[u \ {AnyOf(u)}]
  BY DEF Adds
<1>5. u # {}
  BY <1>3, <1>4
<1>6. h[u \ {AnyOf(u)}] = k[u \ {AnyOf(u)}]
  BY <1>2, <1>5, AnyOfIsIn
<1> QED
  BY <1>3, <1>4, <1>6

\* The recursion has a solution.
LEMMA AddsExists ==
    ASSUME NEW S, IsFiniteSet(S), NEW amount
    PROVE  \E h : Adds(h, amount, S)
<1> DEFINE Bad == {T \in SUBSET S : ~ \E h : Adds(h, amount, T)}
<1>1. SUFFICES ASSUME Bad # {} PROVE FALSE
  OBVIOUS
<1>2. PICK T \in Bad : \A U \in SUBSET T : U # T => U \notin Bad
  <2>1. Bad \subseteq SUBSET S
    OBVIOUS
  <2> HIDE DEF Bad
  <2> QED
    BY <1>1, <2>1, SmallestSet
<1>3. \A U \in SUBSET T : U # T => Adds(CHOOSE h : Adds(h, amount, U), amount, U)
  BY <1>2
<1> DEFINE below[U \in SUBSET T] == (CHOOSE h : Adds(h, amount, U))[U]
<1> DEFINE h == [s \in SUBSET T |->
                    IF s = {} THEN 0 ELSE amount[AnyOf(s)] + below[s \ {AnyOf(s)}]]
<1>4. ASSUME NEW U \in SUBSET T, U # T
      PROVE  h[U] = below[U]
  <2> DEFINE k == CHOOSE k : Adds(k, amount, U)
  <2>1. Adds(k, amount, U)
    BY <1>3, <1>4
  <2>2. k[U] = IF U = {} THEN 0 ELSE amount[AnyOf(U)] + k[U \ {AnyOf(U)}]
    BY <2>1 DEF Adds
  <2>3. CASE U = {}
    BY <2>2, <2>3
  <2>4. CASE U # {}
    <3> DEFINE V == U \ {AnyOf(U)}
    <3>1. V \in SUBSET U /\ V # U /\ V \in SUBSET T /\ V # T
      BY <2>4, <1>4, AnyOfIsIn
    <3>2. Adds(CHOOSE g : Adds(g, amount, V), amount, V)
      BY <1>3, <3>1
    <3>3. IsFiniteSet(U)
      BY FS_Subset
    <3>4. k[V] = below[V]
      BY <2>1, <3>1, <3>2, <3>3, AddsAgree
    <3> QED
      BY <2>2, <2>4, <3>1, <3>4
  <2> QED
    BY <2>3, <2>4
<1>5. Adds(h, amount, T)
  <2>1. ASSUME NEW s \in SUBSET T, s # {}
        PROVE  below[s \ {AnyOf(s)}] = h[s \ {AnyOf(s)}]
    BY <2>1, <1>4, AnyOfIsIn
  <2>2. h = [s \in SUBSET T |-> IF s = {} THEN 0 ELSE amount[AnyOf(s)] + h[s \ {AnyOf(s)}]]
    <3>1. \A s \in SUBSET T : s # {} => below[s \ {AnyOf(s)}] = h[s \ {AnyOf(s)}]
      BY <2>1
    <3> HIDE DEF below
    <3> QED
      BY <3>1
  <2> HIDE DEF h
  <2> QED
    BY <2>2 DEF Adds
<1> QED
  BY <1>2, <1>5

\* A sum of the modules is what its recursion gives for the whole set.
LEMMA TotalIsSolution ==
    ASSUME NEW S, IsFiniteSet(S), NEW amount, NEW h, Adds(h, amount, S)
    PROVE  h[S] = Total(amount, S)
<1> DEFINE k == CHOOSE k : Adds(k, amount, S)
<1>1. Adds(k, amount, S)
  BY AddsExists
<1>2. h[S] = k[S]
  <2> HIDE DEF k
  <2> QED
    BY <1>1, AddsAgree
<1> QED
  BY <1>2 DEF Total

-----------------------------------------------------------------------------
\* Induction over a finite set: Good holds of the empty set, and of a set if it
\* does without the element that is taken out next.
LEMMA SetByElements ==
    ASSUME NEW S, IsFiniteSet(S), NEW Good, {} \in Good,
           \A T \in SUBSET S : T # {} /\ T \ {AnyOf(T)} \in Good => T \in Good
    PROVE  S \in Good
<1> DEFINE Bad == {T \in SUBSET S : T \notin Good}
<1>1. SUFFICES ASSUME S \notin Good PROVE FALSE
  OBVIOUS
<1>2. Bad \subseteq SUBSET S /\ Bad # {}
  BY <1>1
<1>3. PICK T \in Bad : \A U \in SUBSET T : U # T => U \notin Bad
  <2> HIDE DEF Bad
  <2> QED
    BY <1>2, SmallestSet
<1>4. T # {} /\ T \ {AnyOf(T)} \in SUBSET T /\ T \ {AnyOf(T)} # T
  BY AnyOfIsIn
<1> QED
  BY <1>3, <1>4

\* The total follows the recursion.
LEMMA TotalEmpty ==
    ASSUME NEW amount
    PROVE  Total(amount, {}) = 0
<1>1. PICK h : Adds(h, amount, {})
  BY AddsExists, FS_EmptySet
<1>2. h[{}] = 0
  BY <1>1 DEF Adds
<1> QED
  BY <1>1, <1>2, TotalIsSolution, FS_EmptySet

LEMMA TotalNext ==
    ASSUME NEW S, IsFiniteSet(S), S # {}, NEW amount
    PROVE  Total(amount, S) = amount[AnyOf(S)] + Total(amount, S \ {AnyOf(S)})
<1> DEFINE rest == S \ {AnyOf(S)}
<1>1. IsFiniteSet(rest)
  BY FS_RemoveElement
<1>2. PICK h : Adds(h, amount, S)
  BY AddsExists
<1>3. PICK k : Adds(k, amount, rest)
  BY <1>1, AddsExists
<1>4. h[rest] = k[rest]
  BY <1>2, <1>3, AddsAgree
<1>5. h[S] = amount[AnyOf(S)] + h[rest]
  BY <1>2 DEF Adds
<1> QED
  BY <1>1, <1>2, <1>3, <1>4, <1>5, TotalIsSolution

LEMMA TotalInt ==
    ASSUME NEW S, IsFiniteSet(S), NEW amount, \A x \in S : amount[x] \in Int
    PROVE  Total(amount, S) \in Int
<1> DEFINE Good == {T \in SUBSET S : Total(amount, T) \in Int}
<1>1. {} \in Good
  BY TotalEmpty
<1>2. ASSUME NEW T \in SUBSET S, T # {}, T \ {AnyOf(T)} \in Good
      PROVE  T \in Good
  <2>1. Total(amount, T) = amount[AnyOf(T)] + Total(amount, T \ {AnyOf(T)})
    BY <1>2, TotalNext, FS_Subset
  <2> QED
    BY <1>2, <2>1, AnyOfIsIn
<1>3. S \in Good
  <2> HIDE DEF Good
  <2> QED
    BY <1>1, <1>2, SetByElements
<1> QED
  BY <1>3

LEMMA TotalNat ==
    ASSUME NEW S, IsFiniteSet(S), NEW amount, \A x \in S : amount[x] \in Nat
    PROVE  Total(amount, S) \in Nat
<1> DEFINE Good == {T \in SUBSET S : Total(amount, T) \in Nat}
<1>1. {} \in Good
  BY TotalEmpty
<1>2. ASSUME NEW T \in SUBSET S, T # {}, T \ {AnyOf(T)} \in Good
      PROVE  T \in Good
  <2>1. Total(amount, T) = amount[AnyOf(T)] + Total(amount, T \ {AnyOf(T)})
    BY <1>2, TotalNext, FS_Subset
  <2> QED
    BY <1>2, <2>1, AnyOfIsIn
<1>3. S \in Good
  <2> HIDE DEF Good
  <2> QED
    BY <1>1, <1>2, SetByElements
<1> QED
  BY <1>3

\* Any element may be taken out first.
LEMMA TotalRemove ==
    ASSUME NEW S, IsFiniteSet(S), NEW amount, \A z \in S : amount[z] \in Int, NEW x \in S
    PROVE  Total(amount, S) = amount[x] + Total(amount, S \ {x})
<1> DEFINE Takes(T, z) == Total(amount, T) = amount[z] + Total(amount, T \ {z})
           Bad == {T \in SUBSET S : \E z \in T : ~ Takes(T, z)}
<1>1. SUFFICES ASSUME Bad # {} PROVE FALSE
  OBVIOUS
<1>2. PICK T \in Bad : \A U \in SUBSET T : U # T => U \notin Bad
  <2>1. Bad \subseteq SUBSET S
    OBVIOUS
  <2> HIDE DEF Bad
  <2> QED
    BY <1>1, <2>1, SmallestSet
<1>3. PICK z \in T : ~ Takes(T, z)
  OBVIOUS
<1> DEFINE y == AnyOf(T)
<1>4. y \in T /\ IsFiniteSet(T)
  BY AnyOfIsIn, FS_Subset
<1>5. Takes(T, y)
  BY <1>4, TotalNext
<1>6. y # z
  BY <1>3, <1>5
<1>7. Takes(T \ {y}, z) /\ Takes(T \ {z}, y)
  BY <1>2, <1>4, <1>6
<1>8. (T \ {y}) \ {z} = (T \ {z}) \ {y}
  OBVIOUS
<1>9. amount[y] \in Int /\ amount[z] \in Int /\ Total(amount, (T \ {y}) \ {z}) \in Int
  <2>1. IsFiniteSet((T \ {y}) \ {z})
    BY <1>4, FS_RemoveElement
  <2> QED
    BY <1>4, <2>1, TotalInt
<1>10. Takes(T, z)
  <2> DEFINE rest == Total(amount, (T \ {y}) \ {z})
  <2>1. Total(amount, T) = amount[y] + (amount[z] + rest)
    BY <1>5, <1>7
  <2>2. Total(amount, T \ {z}) = amount[y] + rest
    BY <1>7, <1>8
  <2> QED
    BY <2>1, <2>2, <1>9
<1> QED
  BY <1>3, <1>10

-----------------------------------------------------------------------------
\* Sums of related amounts.

LEMMA TotalSame ==
    ASSUME NEW S, IsFiniteSet(S), NEW a, NEW b, \A x \in S : a[x] = b[x]
    PROVE  Total(a, S) = Total(b, S)
<1> DEFINE Good == {T \in SUBSET S : Total(a, T) = Total(b, T)}
<1>1. {} \in Good
  BY TotalEmpty
<1>2. ASSUME NEW T \in SUBSET S, T # {}, T \ {AnyOf(T)} \in Good
      PROVE  T \in Good
  <2>1. IsFiniteSet(T) /\ AnyOf(T) \in T
    BY <1>2, FS_Subset, AnyOfIsIn
  <2>2. /\ Total(a, T) = a[AnyOf(T)] + Total(a, T \ {AnyOf(T)})
        /\ Total(b, T) = b[AnyOf(T)] + Total(b, T \ {AnyOf(T)})
    BY <1>2, <2>1, TotalNext
  <2> QED
    BY <1>2, <2>1, <2>2
<1>3. S \in Good
  <2> HIDE DEF Good
  <2> QED
    BY <1>1, <1>2, SetByElements
<1> QED
  BY <1>3

LEMMA TotalOfSums ==
    ASSUME NEW S, IsFiniteSet(S), NEW a, NEW b, NEW c,
           \A x \in S : a[x] \in Int /\ b[x] \in Int /\ c[x] = a[x] + b[x]
    PROVE  Total(c, S) = Total(a, S) + Total(b, S)
<1> DEFINE Good == {T \in SUBSET S : Total(c, T) = Total(a, T) + Total(b, T)}
<1>1. {} \in Good
  BY TotalEmpty
<1>2. ASSUME NEW T \in SUBSET S, T # {}, T \ {AnyOf(T)} \in Good
      PROVE  T \in Good
  <2> DEFINE rest == T \ {AnyOf(T)}
  <2>1. IsFiniteSet(T) /\ AnyOf(T) \in T /\ IsFiniteSet(rest)
    BY <1>2, FS_Subset, AnyOfIsIn
  <2>2. /\ Total(a, T) = a[AnyOf(T)] + Total(a, rest)
        /\ Total(b, T) = b[AnyOf(T)] + Total(b, rest)
        /\ Total(c, T) = c[AnyOf(T)] + Total(c, rest)
    BY <1>2, <2>1, TotalNext
  <2>3. Total(a, rest) \in Int /\ Total(b, rest) \in Int
    BY <2>1, TotalInt
  <2>4. a[AnyOf(T)] \in Int /\ b[AnyOf(T)] \in Int
    BY <2>1
  <2>5. Total(c, rest) = Total(a, rest) + Total(b, rest)
    BY <1>2
  <2>6. c[AnyOf(T)] = a[AnyOf(T)] + b[AnyOf(T)]
    BY <2>1
  <2>7. Total(c, T) = Total(a, T) + Total(b, T)
    <3> HIDE DEF rest
    <3> QED
      BY <2>2, <2>3, <2>4, <2>5, <2>6
  <2> QED
    BY <2>7
<1>3. S \in Good
  <2> HIDE DEF Good
  <2> QED
    BY <1>1, <1>2, SetByElements
<1> QED
  BY <1>3

LEMMA TotalOfMultiples ==
    ASSUME NEW S, IsFiniteSet(S), NEW a, NEW b, NEW n \in Int,
           \A x \in S : a[x] \in Int /\ b[x] = n * a[x]
    PROVE  Total(b, S) = n * Total(a, S)
<1> DEFINE Good == {T \in SUBSET S : Total(b, T) = n * Total(a, T)}
<1>1. {} \in Good
  BY TotalEmpty
<1>2. ASSUME NEW T \in SUBSET S, T # {}, T \ {AnyOf(T)} \in Good
      PROVE  T \in Good
  <2> DEFINE rest == T \ {AnyOf(T)}
  <2>1. IsFiniteSet(T) /\ AnyOf(T) \in T /\ IsFiniteSet(rest)
    BY <1>2, FS_Subset, AnyOfIsIn
  <2>2. /\ Total(a, T) = a[AnyOf(T)] + Total(a, rest)
        /\ Total(b, T) = b[AnyOf(T)] + Total(b, rest)
    BY <1>2, <2>1, TotalNext
  <2>3. Total(a, rest) \in Int /\ a[AnyOf(T)] \in Int
    BY <2>1, TotalInt
  <2>4. b[AnyOf(T)] = n * a[AnyOf(T)] /\ Total(b, rest) = n * Total(a, rest)
    BY <1>2, <2>1
  <2>5. \A p, q \in Int : n * (p + q) = n * p + n * q
    OBVIOUS
  <2>6. Total(b, T) = n * Total(a, T)
    <3> HIDE DEF rest
    <3> QED
      BY <2>2, <2>3, <2>4, <2>5
  <2> QED
    BY <2>6
<1>3. S \in Good
  <2> HIDE DEF Good
  <2> QED
    BY <1>1, <1>2, SetByElements
<1> QED
  BY <1>3

LEMMA TotalMonotone ==
    ASSUME NEW S, IsFiniteSet(S), NEW a, NEW b,
           \A x \in S : a[x] \in Int /\ b[x] \in Int /\ a[x] <= b[x]
    PROVE  Total(a, S) <= Total(b, S)
<1> DEFINE Good == {T \in SUBSET S : Total(a, T) <= Total(b, T)}
<1>1. {} \in Good
  BY TotalEmpty
<1>2. ASSUME NEW T \in SUBSET S, T # {}, T \ {AnyOf(T)} \in Good
      PROVE  T \in Good
  <2> DEFINE rest == T \ {AnyOf(T)}
  <2>1. IsFiniteSet(T) /\ AnyOf(T) \in T /\ IsFiniteSet(rest)
    BY <1>2, FS_Subset, AnyOfIsIn
  <2>2. /\ Total(a, T) = a[AnyOf(T)] + Total(a, rest)
        /\ Total(b, T) = b[AnyOf(T)] + Total(b, rest)
    BY <1>2, <2>1, TotalNext
  <2>3. /\ Total(a, rest) \in Int /\ Total(b, rest) \in Int
        /\ a[AnyOf(T)] \in Int /\ b[AnyOf(T)] \in Int /\ a[AnyOf(T)] <= b[AnyOf(T)]
    BY <2>1, TotalInt
  <2>4. Total(a, rest) <= Total(b, rest)
    BY <1>2
  <2>5. Total(a, T) <= Total(b, T)
    <3> HIDE DEF rest
    <3> QED
      BY <2>2, <2>3, <2>4
  <2> QED
    BY <2>5
<1>3. S \in Good
  <2> HIDE DEF Good
  <2> QED
    BY <1>1, <1>2, SetByElements
<1> QED
  BY <1>3

\* What is zero outside a subset adds up to the total of the subset.
LEMMA TotalOfPart ==
    ASSUME NEW S, IsFiniteSet(S), NEW P \in SUBSET S, NEW a,
           \A x \in S : a[x] \in Int /\ (x \notin P => a[x] = 0)
    PROVE  Total(a, S) = Total(a, P)
<1> DEFINE Good == {T \in SUBSET S : Total(a, T) = Total(a, T \intersect P)}
<1>1. {} \in Good
  BY TotalEmpty
<1>2. ASSUME NEW T \in SUBSET S, T # {}, T \ {AnyOf(T)} \in Good
      PROVE  T \in Good
  <2> DEFINE x == AnyOf(T)
             rest == T \ {x}
  <2>1. IsFiniteSet(T) /\ x \in T /\ IsFiniteSet(rest) /\ IsFiniteSet(T \intersect P)
    BY <1>2, FS_Subset, AnyOfIsIn
  <2>2. Total(a, T) = a[x] + Total(a, rest)
    BY <1>2, <2>1, TotalNext
  <2>3. Total(a, rest) = Total(a, rest \intersect P) /\ Total(a, rest) \in Int
    BY <1>2, <2>1, TotalInt
  <2>4. CASE x \in P
    <3>1. Total(a, T \intersect P) = a[x] + Total(a, (T \intersect P) \ {x})
      BY <2>1, <2>4, TotalRemove
    <3>2. (T \intersect P) \ {x} = rest \intersect P
      OBVIOUS
    <3> QED
      BY <2>2, <2>3, <3>1, <3>2
  <2>5. CASE x \notin P
    <3>1. T \intersect P = rest \intersect P
      BY <2>5
    <3>2. a[x] = 0
      BY <2>1, <2>5
    <3>3. Total(a, T) = Total(a, rest)
      <4> HIDE DEF rest, x
      <4> QED
        BY <2>2, <2>3, <3>2
    <3>4. Total(a, T \intersect P) = Total(a, rest \intersect P)
      BY <3>1
    <3> QED
      BY <2>3, <3>3, <3>4
  <2> QED
    BY <2>4, <2>5
<1>3. S \in Good
  <2> HIDE DEF Good
  <2> QED
    BY <1>1, <1>2, SetByElements
<1>4. S \intersect P = P
  OBVIOUS
<1> QED
  BY <1>3, <1>4

\* Ones add up to how many there are.
LEMMA TotalOfOnes ==
    ASSUME NEW S, IsFiniteSet(S), NEW a, \A x \in S : a[x] = 1
    PROVE  Total(a, S) = Cardinality(S)
<1> DEFINE Good == {T \in SUBSET S : Total(a, T) = Cardinality(T)}
<1>1. {} \in Good
  BY TotalEmpty, FS_EmptySet
<1>2. ASSUME NEW T \in SUBSET S, T # {}, T \ {AnyOf(T)} \in Good
      PROVE  T \in Good
  <2>1. IsFiniteSet(T) /\ AnyOf(T) \in T
    BY <1>2, FS_Subset, AnyOfIsIn
  <2>2. Total(a, T) = 1 + Cardinality(T \ {AnyOf(T)})
    BY <1>2, <2>1, TotalNext
  <2>3. Cardinality(T \ {AnyOf(T)}) = Cardinality(T) - 1 /\ Cardinality(T) \in Nat
    BY <2>1, FS_RemoveElement, FS_CardinalityType
  <2> QED
    BY <2>2, <2>3
<1>3. S \in Good
  <2> HIDE DEF Good
  <2> QED
    BY <1>1, <1>2, SetByElements
<1> QED
  BY <1>3

\* One amount changes.
LEMMA TotalChange ==
    ASSUME NEW S, IsFiniteSet(S), NEW x \in S, NEW a, NEW b,
           \A y \in S : a[y] \in Int /\ b[y] \in Int /\ (y # x => b[y] = a[y])
    PROVE  Total(b, S) = Total(a, S) - a[x] + b[x]
<1>1. IsFiniteSet(S \ {x})
  BY FS_RemoveElement
<1>2. Total(a, S \ {x}) = Total(b, S \ {x}) /\ Total(a, S \ {x}) \in Int
  BY <1>1, TotalSame, TotalInt
<1>3. Total(a, S) = a[x] + Total(a, S \ {x}) /\ Total(b, S) = b[x] + Total(b, S \ {x})
  BY TotalRemove
<1> QED
  BY <1>2, <1>3

=============================================================================
