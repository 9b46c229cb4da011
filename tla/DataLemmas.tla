----------------------------- MODULE DataLemmas -----------------------------
(***************************************************************************)
(* Facts about the data of the models that the proofs about the components *)
(* cite: sequences, stated element by element, what they hold and in which *)
(* order, induction over numbers and over the subsets of a finite set, and *)
(* sums.  The induction theorems of the library take a predicate as a      *)
(* parameter, which the provers cannot instantiate; here induction is over *)
(* a set of numbers, or of subsets, and follows from the well-founded      *)
(* orders of the library.                                                  *)
(***************************************************************************)
EXTENDS Integers, Sequences, SequencesExt, SequenceTheorems, FiniteSetTheorems, TLAPS

\* A non-empty sequence has a first element.
LEMMA NonEmptySeq ==
  ASSUME NEW S, NEW q \in Seq(S), q # <<>>
  PROVE  /\ Len(q) \in Nat \ {0} /\ DOMAIN q = 1 .. Len(q)
         /\ Head(q) = q[1] /\ q[1] \in S
OBVIOUS

\* A concatenation holds the elements of its first part, then of its second.
LEMMA ConcatAt ==
  ASSUME NEW S, NEW a \in Seq(S), NEW b \in Seq(S),
         NEW n \in Nat, n = Len(a), NEW m \in Nat, m = Len(b),
         NEW r, r = a \o b
  PROVE  /\ r \in Seq(S) /\ n + m = Len(r)
         /\ \A i \in 1 .. n : r[i] = a[i]
         /\ \A i \in 1 .. m : r[n + i] = b[i]
<1>1. /\ r \in Seq(S) /\ n + m = Len(r)
      /\ \A i \in 1 .. n + m : r[i] = IF i <= n THEN a[i] ELSE b[i - n]
  BY ConcatProperties
<1>2. ASSUME NEW i \in 1 .. n PROVE r[i] = a[i]
  BY <1>1
<1>3. ASSUME NEW i \in 1 .. m PROVE r[n + i] = b[i]
  <2>1. n + i \in 1 .. n + m /\ ~(n + i <= n) /\ n + i - n = i
    OBVIOUS
  <2> QED BY <1>1, <2>1
<1> QED BY <1>1, <1>2, <1>3

\* Sequence t, of length n, with element e put at position k.
Inserted(t, n, k, e) ==
  [i \in 1 .. n + 1 |-> IF i < k THEN t[i] ELSE IF i = k THEN e ELSE t[i - 1]]

\* InsertAt puts an element between those before its position and the others.
LEMMA InsertAtFacts ==
  ASSUME NEW S, NEW t \in Seq(S), NEW e \in S,
         NEW n \in Nat, n = Len(t), NEW k \in 1 .. n + 1,
         NEW r, r = InsertAt(t, k, e)
  PROVE  /\ r \in Seq(S) /\ n + 1 = Len(r)
         /\ r = Inserted(t, n, k, e)
<1> DEFINE a  == SubSeq(t, 1, k - 1)
           b  == SubSeq(t, k, n)
           x  == <<e>>
           ax == a \o x
           m  == n - k + 1
           l  == k - 1
           o  == 1
<1>1. k \in Nat /\ l \in Nat /\ m \in Nat /\ l + 1 = k /\ k + m = n + 1
  OBVIOUS
<1>2. r = ax \o b
  BY DEF InsertAt
<1>3. a \in Seq(S) /\ l = Len(a) /\ \A i \in 1 .. l : a[i] = t[i]
  <2>1. \A i \in 1 .. k - 1 : t[i] \in S
    OBVIOUS
  <2> QED BY <2>1, SubSeqProperties
<1>4. /\ b \in Seq(S) /\ m = Len(b)
      /\ \A i \in 1 .. m : b[i] = t[k + i - 1]
  <2>1. \A i \in k .. n : t[i] \in S
    OBVIOUS
  <2> QED BY <2>1, SubSeqProperties
<1>5. x \in Seq(S) /\ o = Len(x) /\ e = x[o] /\ o \in Nat /\ l + o = k /\ o \in 1 .. o
  OBVIOUS
<1> HIDE DEF a, b, x, m, l, o
<1>6. /\ ax \in Seq(S) /\ k = Len(ax)
      /\ \A i \in 1 .. l : ax[i] = a[i]
      /\ ax[k] = e
  <2>1. /\ ax \in Seq(S) /\ l + o = Len(ax)
        /\ \A i \in 1 .. l : ax[i] = a[i]
        /\ \A i \in 1 .. o : ax[l + i] = x[i]
    BY <1>1, <1>3, <1>5, ConcatAt
  <2> QED BY <1>1, <1>5, <2>1
<1> HIDE DEF ax
<1>7. /\ r \in Seq(S) /\ k + m = Len(r)
      /\ \A i \in 1 .. k : r[i] = ax[i]
      /\ \A i \in 1 .. m : r[k + i] = b[i]
  BY <1>1, <1>2, <1>4, <1>6, ConcatAt
<1>8. ASSUME NEW i \in 1 .. n + 1, i < k PROVE r[i] = t[i]
  <2>1. i \in 1 .. l /\ i \in 1 .. k
    BY <1>1, <1>8
  <2> QED BY <1>3, <1>6, <1>7, <2>1
<1>9. r[k] = e
  BY <1>1, <1>6, <1>7
<1>10. ASSUME NEW i \in 1 .. n + 1, i > k PROVE r[i] = t[i - 1]
  <2> DEFINE j == i - k
  <2>1. j \in 1 .. m /\ k + j = i /\ k + j - 1 = i - 1
    BY <1>1, <1>10
  <2> HIDE DEF j
  <2> QED BY <1>4, <1>7, <2>1
<1> DEFINE f == Inserted(t, n, k, e)
<1>11. ASSUME NEW i \in 1 .. n + 1 PROVE r[i] = f[i]
  <2>1. i < k \/ i = k \/ i > k
    OBVIOUS
  <2>2. f[i] = IF i < k THEN t[i] ELSE IF i = k THEN e ELSE t[i - 1]
    BY DEF Inserted
  <2> HIDE DEF f
  <2> QED BY <1>8, <1>9, <1>10, <2>1, <2>2
<1>12. r \in [1 .. n + 1 -> S] /\ f \in [1 .. n + 1 -> S]
  <2>1. r \in [1 .. n + 1 -> S]
    BY <1>1, <1>7, LenProperties
  <2>2. \A i \in 1 .. n + 1 : f[i] \in S
    BY <1>11, <2>1
  <2> QED BY <2>1, <2>2 DEF Inserted
<1> HIDE DEF f
<1>13. r = f
  BY <1>11, <1>12
<1> QED BY <1>1, <1>7, <1>13 DEF f

-----------------------------------------------------------------------------
\* A set of numbers that has 0 and, with every number, the next one has all.
LEMMA NaturalInduction ==
  ASSUME NEW T, 0 \in T, \A n \in Nat : n \in T => n + 1 \in T
  PROVE  Nat \subseteq T
<1>1. SUFFICES ASSUME Nat \ T # {} PROVE FALSE
  OBVIOUS
<1> DEFINE less == {ss \in Nat \X Nat : ss[1] < ss[2]}
<1>2. IsWellFoundedOn(less, Nat)
  BY NatLessThanWellFounded DEF OpToRel
<1>3. PICK m \in Nat \ T : \A k \in Nat \ T : ~ (<<k, m>> \in less)
  <2> HIDE DEF less
  <2>1. Nat \ T \subseteq Nat
    OBVIOUS
  <2> QED BY <1>1, <1>2, <2>1, WFMin
<1>4. m # 0 /\ m - 1 \in Nat /\ m - 1 < m /\ m - 1 + 1 = m
  BY <1>3
<1>5. m - 1 \in T
  BY <1>3, <1>4
<1> QED BY <1>3, <1>4, <1>5

\* A collection that has every subset of a finite set as soon as it has all
\* that are smaller has all of them.
LEMMA SubsetInduction ==
  ASSUME NEW S, IsFiniteSet(S), NEW Good,
         \A T \in SUBSET S :
           (\A U \in SUBSET T : U # T => U \in Good) => T \in Good
  PROVE  SUBSET S \subseteq Good
<1>1. SUFFICES ASSUME (SUBSET S) \ Good # {} PROVE FALSE
  OBVIOUS
<1>2. IsWellFoundedOn(StrictSubsetOrdering(S), SUBSET S)
  <2>1. FiniteSubsetsOf(S) = SUBSET S
    BY FS_FiniteSubsetsOfFinite
  <2>2. IsWellFoundedOn(StrictSubsetOrdering(S), FiniteSubsetsOf(S))
    BY FS_StrictSubsetOrderingWellFounded
  <2> QED BY <2>1, <2>2
<1>3. PICK T \in (SUBSET S) \ Good : \A U \in (SUBSET S) \ Good : <<U, T>> \notin StrictSubsetOrdering(S)
  <2>1. (SUBSET S) \ Good \subseteq SUBSET S
    OBVIOUS
  <2> DEFINE R == StrictSubsetOrdering(S)
             D == SUBSET S
             B == (SUBSET S) \ Good
  <2>2. IsWellFoundedOn(R, D) /\ B \subseteq D /\ B # {}
    BY <1>1, <1>2, <2>1
  <2>3. SUFFICES \E T \in B : \A U \in B : ~ (<<U, T>> \in R)
    OBVIOUS
  <2> HIDE DEF R, D, B
  <2> QED BY <2>2, WFMin
<1>4. ASSUME NEW U \in SUBSET T, U # T PROVE U \in Good
  <2>1. U \in SUBSET S
    BY <1>3
  <2>2. <<U, T>> \in StrictSubsetOrdering(S)
    <3>1. T \in SUBSET S
      BY <1>3
    <3>2. <<U, T>> \in (SUBSET S) \X (SUBSET S)
      BY <2>1, <3>1
    <3> QED BY <3>2, <1>4 DEF StrictSubsetOrdering
  <2> QED BY <1>3, <2>1, <2>2
<1> QED BY <1>3, <1>4

\* The element that a fold over s starts with.
First(s) == CHOOSE x \in s : TRUE

LEMMA FirstIn == ASSUME NEW s, s # {} PROVE First(s) \in s
BY DEF First

\* Function g gives the sum of f over each set of a collection.
Sums(g, f, C) ==
  g = [s \in C |-> IF s = {} THEN 0 ELSE f[First(s)] + g[s \ {First(s)}]]

SumOn(f, S) == LET g == CHOOSE g : Sums(g, f, SUBSET S) IN g[S]

LEMMA SumIsSumOn ==
  ASSUME NEW f, NEW S
  PROVE  SumFunctionOnSet(f, S) = SumOn(f, S)
BY DEF SumFunctionOnSet, FoldFunctionOnSet, MapThenFoldSet, SumOn, Sums, First

LEMMA SumsExist ==
  ASSUME NEW f, NEW S, IsFiniteSet(S)
  PROVE  \E g : Sums(g, f, SUBSET S)
<1> DEFINE Level(n) == {s \in SUBSET S : Cardinality(s) <= n}
           Good == {n \in Nat : \E g : Sums(g, f, Level(n))}
<1>1. ASSUME NEW s \in SUBSET S
      PROVE  /\ IsFiniteSet(s) /\ Cardinality(s) \in Nat
             /\ Cardinality(s) <= Cardinality(S)
             /\ Cardinality(s) = 0 <=> s = {}
             /\ s # {} => Cardinality(s \ {First(s)}) = Cardinality(s) - 1
  <2>1. IsFiniteSet(s) /\ Cardinality(s) <= Cardinality(S)
    BY FS_Subset
  <2>2. Cardinality(s) \in Nat /\ (Cardinality(s) = 0 <=> s = {})
    BY <2>1, FS_CardinalityType, FS_EmptySet
  <2>3. ASSUME s # {} PROVE Cardinality(s \ {First(s)}) = Cardinality(s) - 1
    BY <2>1, <2>3, FS_RemoveElement, FirstIn
  <2> QED BY <2>1, <2>2, <2>3
<1>2. 0 \in Good
  <2> DEFINE g == [s \in Level(0) |-> 0]
  <2>1. ASSUME NEW s \in Level(0) PROVE s = {}
    <3>1. s \in SUBSET S /\ Cardinality(s) <= 0
      OBVIOUS
    <3>2. Cardinality(s) \in Nat /\ (Cardinality(s) = 0 <=> s = {})
      BY <1>1, <3>1
    <3> QED BY <3>1, <3>2
  <2>2. g = [s \in Level(0) |-> IF s = {} THEN 0 ELSE f[First(s)] + g[s \ {First(s)}]]
    <3>1. \A s \in Level(0) : (IF s = {} THEN 0 ELSE f[First(s)] + g[s \ {First(s)}]) = 0
      BY <2>1
    <3>2. g = [s \in Level(0) |-> 0]
      OBVIOUS
    <3> HIDE DEF Level, g
    <3> QED BY <3>1, <3>2
  <2>3. Sums(g, f, Level(0))
    <3> HIDE DEF Level
    <3> QED BY <2>2 DEF Sums
  <2> QED BY <2>3
<1>3. ASSUME NEW n \in Nat, n \in Good PROVE n + 1 \in Good
  <2>1. PICK g : Sums(g, f, Level(n))
    BY <1>3
  <2> DEFINE Val(h, s) == IF s = {} THEN 0 ELSE f[First(s)] + h[s \ {First(s)}]
             h == [s \in Level(n + 1) |-> Val(g, s)]
  <2>2. \A s \in Level(n) : g[s] = Val(g, s)
    <3> HIDE DEF Level
    <3> QED BY <2>1 DEF Sums
  <2>3. \A s \in Level(n + 1) : h[s] = Val(g, s)
    OBVIOUS
  <2>4. ASSUME NEW s \in Level(n + 1), s # {}
        PROVE  s \ {First(s)} \in Level(n) /\ s \ {First(s)} \in Level(n + 1)
    <3>1. s \ {First(s)} \in SUBSET S
      OBVIOUS
    <3>2. Cardinality(s \ {First(s)}) = Cardinality(s) - 1 /\ Cardinality(s) \in Nat
      BY <1>1, <2>4
    <3> QED BY <3>1, <3>2
  <2>5. ASSUME NEW s \in Level(n + 1) PROVE Val(h, s) = Val(g, s)
    <3>1. CASE s = {}
      BY <3>1
    <3>2. CASE s # {}
      <4> DEFINE r == s \ {First(s)}
      <4>1. r \in Level(n) /\ r \in Level(n + 1)
        BY <2>4, <3>2
      <4>2. h[r] = g[r]
        <5> HIDE DEF Level, h, r, Val
        <5> QED BY <2>2, <2>3, <4>1
      <4> HIDE DEF h
      <4> QED BY <4>2, <3>2
    <3> QED BY <3>1, <3>2
  <2>6. h = [s \in Level(n + 1) |-> Val(h, s)]
    <3>1. h = [s \in Level(n + 1) |-> Val(g, s)]
      OBVIOUS
    <3> HIDE DEF h, Val, Level
    <3> QED BY <3>1, <2>5
  <2>7. Sums(h, f, Level(n + 1))
    <3> HIDE DEF h, Level
    <3> QED BY <2>6 DEF Sums
  <2> QED BY <2>7
<1>4. Cardinality(S) \in Good
  <2> HIDE DEF Good
  <2>1. Nat \subseteq Good
    BY <1>2, <1>3, NaturalInduction
  <2> QED BY <2>1, FS_CardinalityType
<1>5. SUBSET S = Level(Cardinality(S))
  BY <1>1
<1> QED BY <1>4, <1>5

\* Over a finite set, SumOn is what it adds up.
LEMMA SumOnIsSums ==
  ASSUME NEW f, NEW S, IsFiniteSet(S)
  PROVE  \E g : Sums(g, f, SUBSET S) /\ SumOn(f, S) = g[S]
<1> DEFINE g == CHOOSE g : Sums(g, f, SUBSET S)
<1>1. Sums(g, f, SUBSET S)
  BY SumsExist
<1> QED BY <1>1 DEF SumOn

\* The sum over a set does not depend on the set it is a part of, nor on the
\* values of the function elsewhere.
LEMMA SumsAgree ==
  ASSUME NEW f, NEW e, NEW S, NEW R, NEW g, NEW h,
         IsFiniteSet(S), R \subseteq S, \A x \in R : e[x] = f[x],
         Sums(g, f, SUBSET S), Sums(h, e, SUBSET R)
  PROVE  h[R] = g[R]
<1> DEFINE Good == {s \in SUBSET R : h[s] = g[s]}
<1>1. IsFiniteSet(R)
  BY FS_Subset
<1>2. ASSUME NEW T \in SUBSET R, \A U \in SUBSET T : U # T => U \in Good
      PROVE  T \in Good
  <2>1. T \in SUBSET S
    OBVIOUS
  <2>2. g[T] = IF T = {} THEN 0 ELSE f[First(T)] + g[T \ {First(T)}]
    BY <2>1 DEF Sums
  <2>3. h[T] = IF T = {} THEN 0 ELSE e[First(T)] + h[T \ {First(T)}]
    BY DEF Sums
  <2>4. CASE T = {}
    BY <2>2, <2>3, <2>4
  <2>5. CASE T # {}
    <3>1. First(T) \in T
      BY <2>5, FirstIn
    <3>2. T \ {First(T)} \in Good
      BY <3>1, <1>2
    <3>3. h[T \ {First(T)}] = g[T \ {First(T)}] /\ e[First(T)] = f[First(T)]
      BY <3>1, <3>2
    <3> QED BY <2>2, <2>3, <2>5, <3>3
  <2> QED BY <2>4, <2>5
<1>3. R \in Good
  <2> HIDE DEF Good
  <2> QED BY <1>1, <1>2, SubsetInduction
<1> QED BY <1>3

\* What g gives the subsets of S are integers, whichever element comes first.
AnyOrder(g, f, S) ==
  \A T \in SUBSET S : /\ g[T] \in Int
                       /\ \A x \in T : g[T] = f[x] + g[T \ {x}]

\* Sums of integers are integers, and any element may be the first.
LEMMA SumsAnyOrder ==
  ASSUME NEW f, NEW S, NEW g,
         IsFiniteSet(S), \A x \in S : f[x] \in Int, Sums(g, f, SUBSET S)
  PROVE  AnyOrder(g, f, S)
<1> DEFINE Adds(T) == /\ g[T] \in Int
                      /\ \A x \in T : g[T] = f[x] + g[T \ {x}]
           Good == {T \in SUBSET S : Adds(T)}
<1>1. ASSUME NEW T \in SUBSET S, \A U \in SUBSET T : U # T => U \in Good
      PROVE  T \in Good
  <2>1. g[T] = IF T = {} THEN 0 ELSE f[First(T)] + g[T \ {First(T)}]
    BY DEF Sums
  <2>2. CASE T = {}
    BY <2>1, <2>2
  <2>3. CASE T # {}
    <3> DEFINE c == First(T)
    <3>1. c \in T
      BY <2>3, FirstIn
    <3> HIDE DEF c
    <3>2. ASSUME NEW x \in T
          PROVE  T \ {x} \in Good
      BY <1>1
    <3>3. Adds(T \ {c}) /\ f[c] \in Int
      BY <3>1, <3>2
    <3>4. g[T] = f[c] + g[T \ {c}]
      BY <2>1, <2>3 DEF c
    <3>5. g[T] \in Int
      BY <3>3, <3>4
    <3>6. ASSUME NEW x \in T PROVE g[T] = f[x] + g[T \ {x}]
      <4>1. CASE x = c
        BY <4>1, <3>4
      <4>2. CASE x # c
        <5> DEFINE r == (T \ {c}) \ {x}
        <5>1. r = (T \ {x}) \ {c} /\ x \in T \ {c} /\ c \in T \ {x}
          BY <3>1, <4>2
        <5>2. g[T \ {c}] = f[x] + g[r]
          BY <3>3, <5>1
        <5>3. Adds(T \ {x})
          BY <3>2
        <5>4. g[T \ {x}] = f[c] + g[r]
          BY <5>1, <5>3
        <5>5. r \in Good
          <6>1. r \in SUBSET T /\ r # T
            BY <3>1
          <6> QED BY <6>1, <1>1
        <5>6. g[r] \in Int /\ f[x] \in Int /\ f[c] \in Int
          BY <5>5, <3>3
        <5> HIDE DEF r
        <5> QED BY <3>4, <5>2, <5>4, <5>6
      <4> QED BY <4>1, <4>2
    <3> QED BY <3>5, <3>6
  <2> QED BY <2>2, <2>3
<1>2. SUBSET S \subseteq Good
  <2> HIDE DEF Good
  <2> QED BY <1>1, SubsetInduction
<1> QED BY <1>2 DEF AnyOrder

\* The sum over the empty set.
LEMMA SumEmpty == ASSUME NEW f PROVE SumFunctionOnSet(f, {}) = 0
<1>1. PICK g : Sums(g, f, SUBSET {}) /\ SumOn(f, {}) = g[{}]
  BY FS_EmptySet, SumOnIsSums
<1>2. g[{}] = 0
  BY <1>1 DEF Sums
<1> QED BY <1>1, <1>2, SumIsSumOn

\* The sum over a set depends on the values in the set only.
LEMMA SumAgrees ==
  ASSUME NEW f, NEW e, NEW S, IsFiniteSet(S), \A x \in S : e[x] = f[x]
  PROVE  SumFunctionOnSet(e, S) = SumFunctionOnSet(f, S)
<1>1. PICK g : Sums(g, f, SUBSET S) /\ SumOn(f, S) = g[S]
  BY SumOnIsSums
<1>2. PICK h : Sums(h, e, SUBSET S) /\ SumOn(e, S) = h[S]
  BY SumOnIsSums
<1>3. g[S] = h[S]
  <2>1. S \subseteq S
    OBVIOUS
  <2>2. Sums(g, f, SUBSET S) /\ Sums(h, e, SUBSET S)
    BY <1>1, <1>2
  <2> QED BY <2>1, <2>2, SumsAgree
<1> QED BY <1>1, <1>2, <1>3, SumIsSumOn

\* One more element adds its value.
LEMMA SumAdd ==
  ASSUME NEW f, NEW S, IsFiniteSet(S), NEW x, x \notin S, f[x] \in Int,
         \A y \in S : f[y] \in Int
  PROVE  /\ SumFunctionOnSet(f, S) \in Int
         /\ SumFunctionOnSet(f, S \cup {x}) = SumFunctionOnSet(f, S) + f[x]
<1> DEFINE T == S \cup {x}
<1>1. IsFiniteSet(T)
  BY FS_AddElement
<1>2. PICK g : Sums(g, f, SUBSET T) /\ SumOn(f, T) = g[T]
  BY <1>1, SumOnIsSums
<1>3. PICK h : Sums(h, f, SUBSET S) /\ SumOn(f, S) = h[S]
  BY SumOnIsSums
<1>4. S \in SUBSET T /\ S \subseteq T /\ x \in T /\ T \in SUBSET T /\ T \ {x} = S /\ \A y \in T : f[y] \in Int
  OBVIOUS
<1> HIDE DEF T
<1>5. h[S] = g[S]
  <2>1. Sums(g, f, SUBSET T) /\ Sums(h, f, SUBSET S)
    BY <1>2, <1>3
  <2>2. \A y \in S : f[y] = f[y]
    OBVIOUS
  <2> QED BY <1>1, <1>4, <2>1, <2>2, SumsAgree
<1>6. /\ g[S] \in Int
      /\ g[T] = f[x] + g[T \ {x}]
  <2>1. Sums(g, f, SUBSET T)
    BY <1>2
  <2>2. AnyOrder(g, f, T)
    BY <1>1, <1>4, <2>1, SumsAnyOrder
  <2> QED BY <1>4, <2>2 DEF AnyOrder
<1>7. g[T] = g[S] + f[x]
  <2>1. g[T] = f[x] + g[S]
    BY <1>4, <1>6
  <2> QED BY <1>6, <2>1
<1> QED BY <1>2, <1>3, <1>5, <1>6, <1>7, SumIsSumOn DEF T

\* Sums of integers are integers, those of natural numbers natural numbers.
LEMMA SumType ==
  ASSUME NEW f, NEW S, IsFiniteSet(S), \A x \in S : f[x] \in Int
  PROVE  /\ SumFunctionOnSet(f, S) \in Int
         /\ (\A x \in S : f[x] \in Nat) => SumFunctionOnSet(f, S) \in Nat
<1>1. SumFunctionOnSet(f, S) \in Int
  <2>1. PICK g : Sums(g, f, SUBSET S) /\ SumOn(f, S) = g[S]
    BY SumOnIsSums
  <2>2. AnyOrder(g, f, S)
    BY <2>1, SumsAnyOrder
  <2>3. g[S] \in Int
    BY <2>2 DEF AnyOrder
  <2> QED BY <2>1, <2>3, SumIsSumOn
<1>2. ASSUME \A x \in S : f[x] \in Nat
      PROVE  SumFunctionOnSet(f, S) \in Nat
  <2> DEFINE Good == {T \in SUBSET S : SumFunctionOnSet(f, T) \in Nat}
  <2>1. ASSUME NEW T \in SUBSET S, \A U \in SUBSET T : U # T => U \in Good
        PROVE  T \in Good
    <3>1. CASE T = {}
      BY <3>1, SumEmpty
    <3>2. CASE T # {}
      <4>1. PICK x \in T : TRUE
        BY <3>2
      <4> DEFINE U == T \ {x}
      <4>2. U \in Good /\ x \notin U /\ T = U \cup {x} /\ f[x] \in Nat /\ f[x] \in Int
        BY <4>1, <2>1, <1>2
      <4>3. IsFiniteSet(U) /\ \A y \in U : f[y] \in Int
        BY FS_Subset
      <4>4. SumFunctionOnSet(f, U) \in Nat
        BY <4>2
      <4> HIDE DEF U
      <4>5. SumFunctionOnSet(f, U \cup {x}) = SumFunctionOnSet(f, U) + f[x]
        BY <4>2, <4>3, SumAdd
      <4>6. SumFunctionOnSet(f, T) \in Nat
        BY <4>2, <4>4, <4>5
      <4> QED BY <4>6
    <3> QED BY <3>1, <3>2
  <2>2. SUBSET S \subseteq Good
    <3> HIDE DEF Good
    <3> QED BY <2>1, SubsetInduction
  <2> QED BY <2>2
<1> QED BY <1>1, <1>2

\* A value that changes by n changes the sum by n.
LEMMA SumChange ==
  ASSUME NEW f, NEW e, NEW S, IsFiniteSet(S), NEW x \in S, NEW n \in Int,
         \A y \in S : f[y] \in Int,
         e[x] = f[x] + n, \A y \in S \ {x} : e[y] = f[y]
  PROVE  SumFunctionOnSet(e, S) = SumFunctionOnSet(f, S) + n
<1> DEFINE R == S \ {x}
<1>1. /\ R \cup {x} = S /\ x \notin R /\ IsFiniteSet(R)
      /\ f[x] \in Int /\ e[x] \in Int
      /\ \A y \in R : f[y] \in Int /\ e[y] \in Int /\ e[y] = f[y]
  BY FS_Subset
<1> HIDE DEF R
<1>2. /\ SumFunctionOnSet(f, R) \in Int
      /\ SumFunctionOnSet(f, R \cup {x}) = SumFunctionOnSet(f, R) + f[x]
  <2>1. \A y \in R : f[y] \in Int
    BY <1>1
  <2> QED BY <1>1, <2>1, SumAdd
<1>3. SumFunctionOnSet(e, R \cup {x}) = SumFunctionOnSet(e, R) + e[x]
  <2>1. \A y \in R : e[y] \in Int
    BY <1>1
  <2> QED BY <1>1, <2>1, SumAdd
<1>4. SumFunctionOnSet(e, R) = SumFunctionOnSet(f, R)
  <2>1. \A y \in R : e[y] = f[y]
    BY <1>1
  <2> QED BY <1>1, <2>1, SumAgrees
<1>5. SumFunctionOnSet(e, S) = SumFunctionOnSet(e, R) + e[x]
  BY <1>1, <1>3
<1>6. SumFunctionOnSet(f, S) = SumFunctionOnSet(f, R) + f[x]
  BY <1>1, <1>2
<1>7. SumFunctionOnSet(f, R) \in Int /\ e[x] = f[x] + n /\ f[x] \in Int
  BY <1>1, <1>2
<1> QED BY <1>4, <1>5, <1>6, <1>7

\* A sum of sums is the sum of the values added up.
LEMMA SumPlus ==
  ASSUME NEW f, NEW g, NEW h, NEW S, IsFiniteSet(S),
         \A x \in S : f[x] \in Int /\ g[x] \in Int /\ h[x] = f[x] + g[x]
  PROVE  SumFunctionOnSet(h, S) = SumFunctionOnSet(f, S) + SumFunctionOnSet(g, S)
<1> DEFINE Good == {T \in SUBSET S :
             SumFunctionOnSet(h, T) = SumFunctionOnSet(f, T) + SumFunctionOnSet(g, T)}
<1>1. ASSUME NEW T \in SUBSET S, \A U \in SUBSET T : U # T => U \in Good
      PROVE  T \in Good
  <2>1. CASE T = {}
    BY <2>1, SumEmpty
  <2>2. CASE T # {}
    <3>1. PICK x \in T : TRUE
      BY <2>2
    <3> DEFINE U == T \ {x}
    <3>2. U \in Good /\ x \notin U /\ T = U \cup {x} /\ x \in S
      BY <3>1, <1>1
    <3>3. IsFiniteSet(U)
      BY FS_Subset
    <3>4. SumFunctionOnSet(h, U) = SumFunctionOnSet(f, U) + SumFunctionOnSet(g, U)
      BY <3>2
    <3>5. /\ \A y \in U : f[y] \in Int
          /\ \A y \in U : g[y] \in Int
          /\ \A y \in U : h[y] \in Int
      OBVIOUS
    <3>6. f[x] \in Int /\ g[x] \in Int /\ h[x] \in Int /\ h[x] = f[x] + g[x]
      BY <3>2
    <3> HIDE DEF U
    <3>7. /\ SumFunctionOnSet(f, U) \in Int
          /\ SumFunctionOnSet(f, U \cup {x}) = SumFunctionOnSet(f, U) + f[x]
      BY <3>2, <3>3, <3>5, <3>6, SumAdd
    <3>8. /\ SumFunctionOnSet(g, U) \in Int
          /\ SumFunctionOnSet(g, U \cup {x}) = SumFunctionOnSet(g, U) + g[x]
      BY <3>2, <3>3, <3>5, <3>6, SumAdd
    <3>9. SumFunctionOnSet(h, U \cup {x}) = SumFunctionOnSet(h, U) + h[x]
      BY <3>2, <3>3, <3>5, <3>6, SumAdd
    <3>10. SumFunctionOnSet(h, T) = SumFunctionOnSet(f, T) + SumFunctionOnSet(g, T)
      BY <3>2, <3>4, <3>6, <3>7, <3>8, <3>9
    <3> QED BY <3>10
  <2> QED BY <2>1, <2>2
<1>2. SUBSET S \subseteq Good
  <2> HIDE DEF Good
  <2> QED BY <1>1, SubsetInduction
<1> QED BY <1>2

\* A sum of zeros is zero.
LEMMA SumZero ==
  ASSUME NEW f, NEW S, IsFiniteSet(S), \A x \in S : f[x] = 0
  PROVE  SumFunctionOnSet(f, S) = 0
<1> DEFINE Good == {T \in SUBSET S : SumFunctionOnSet(f, T) = 0}
<1>1. ASSUME NEW T \in SUBSET S, \A U \in SUBSET T : U # T => U \in Good
      PROVE  T \in Good
  <2>1. CASE T = {}
    BY <2>1, SumEmpty
  <2>2. CASE T # {}
    <3>1. PICK x \in T : TRUE
      BY <2>2
    <3> DEFINE U == T \ {x}
    <3>2. U \in Good /\ x \notin U /\ T = U \cup {x} /\ f[x] = 0 /\ f[x] \in Int
      BY <3>1, <1>1
    <3>3. IsFiniteSet(U) /\ \A y \in U : f[y] \in Int
      BY FS_Subset
    <3>4. SumFunctionOnSet(f, U) = 0
      BY <3>2
    <3> HIDE DEF U
    <3>5. SumFunctionOnSet(f, U \cup {x}) = SumFunctionOnSet(f, U) + f[x]
      BY <3>2, <3>3, SumAdd
    <3>6. SumFunctionOnSet(f, T) = 0
      BY <3>2, <3>4, <3>5
    <3> QED BY <3>6
  <2> QED BY <2>1, <2>2
<1>2. SUBSET S \subseteq Good
  <2> HIDE DEF Good
  <2> QED BY <1>1, SubsetInduction
<1> QED BY <1>2

\* The sum of the first n values of a function.
SumTo(f, n) == SumFunctionOnSet(f, 1 .. n)

\* A total starts at zero and grows by one value at a time.
LEMMA SumToStep ==
  ASSUME NEW f, NEW n \in Nat, \A i \in 1 .. n + 1 : f[i] \in Int
  PROVE  /\ SumTo(f, 0) = 0
         /\ SumTo(f, n) \in Int
         /\ SumTo(f, n + 1) = SumTo(f, n) + f[n + 1]
<1>1. 1 .. 0 = {} /\ (1 .. n) \cup {n + 1} = 1 .. n + 1 /\ n + 1 \notin 1 .. n
  OBVIOUS
<1>2. IsFiniteSet(1 .. n) /\ f[n + 1] \in Int /\ \A i \in 1 .. n : f[i] \in Int
  BY FS_Interval
<1> DEFINE S == 1 .. n
           x == n + 1
<1>3. IsFiniteSet(S) /\ x \notin S /\ f[x] \in Int /\ \A y \in S : f[y] \in Int
  BY <1>1, <1>2
<1>4. /\ SumFunctionOnSet(f, S) \in Int
      /\ SumFunctionOnSet(f, S \cup {x}) = SumFunctionOnSet(f, S) + f[x]
  <2> HIDE DEF S, x
  <2> QED BY <1>3, SumAdd
<1>5. SumFunctionOnSet(f, {}) = 0
  BY SumEmpty
<1> QED BY <1>1, <1>4, <1>5 DEF SumTo

\* Functions that agree on the first n numbers have the same total.
LEMMA SumToAgrees ==
  ASSUME NEW f, NEW e, NEW n \in Nat, \A i \in 1 .. n : e[i] = f[i]
  PROVE  SumTo(e, n) = SumTo(f, n)
<1> DEFINE S == 1 .. n
<1>1. IsFiniteSet(S) /\ \A i \in S : e[i] = f[i]
  BY FS_Interval
<1>2. SumFunctionOnSet(e, S) = SumFunctionOnSet(f, S)
  <2> HIDE DEF S
  <2> QED BY <1>1, SumAgrees
<1> QED BY <1>2 DEF SumTo

LEMMA SumToType ==
  ASSUME NEW f, NEW n \in Nat, \A i \in 1 .. n : f[i] \in Nat
  PROVE  SumTo(f, n) \in Nat
<1>1. IsFiniteSet(1 .. n) /\ \A i \in 1 .. n : f[i] \in Int
  BY FS_Interval
<1> QED BY <1>1, SumType DEF SumTo

\* The first n values of f are those of a, the next m values those of b.
Joined(f, a, n, b, m) ==
  /\ \A i \in 1 .. n : f[i] = a[i] /\ a[i] \in Int
  /\ \A i \in 1 .. m : f[n + i] = b[i] /\ b[i] \in Int

\* The total of two runs of values, one after the other.
LEMMA SumToConcat ==
  ASSUME NEW f, NEW a, NEW n \in Nat, NEW b, NEW m \in Nat, Joined(f, a, n, b, m)
  PROVE  SumTo(f, n + m) = SumTo(a, n) + SumTo(b, m)
<1>0. /\ \A i \in 1 .. n : f[i] = a[i] /\ a[i] \in Int
      /\ \A i \in 1 .. m : f[n + i] = b[i] /\ b[i] \in Int
  BY DEF Joined
<1> DEFINE T == {k \in Nat : k <= m => SumTo(f, n + k) = SumTo(a, n) + SumTo(b, k)}
<1>1. SumTo(f, n) = SumTo(a, n) /\ SumTo(a, n) \in Int
  <2>1. IsFiniteSet(1 .. n)
    BY FS_Interval
  <2> QED BY <1>0, <2>1, SumToAgrees, SumType DEF SumTo
<1>2. 0 \in T
  <2>1. SumTo(b, 0) = 0
    BY SumEmpty DEF SumTo
  <2> QED BY <1>1, <2>1
<1>3. ASSUME NEW k \in Nat, k \in T PROVE k + 1 \in T
  <2>1. SUFFICES ASSUME k + 1 <= m
                 PROVE  SumTo(f, n + k + 1) = SumTo(a, n) + SumTo(b, k + 1)
    OBVIOUS
  <2>2. SumTo(f, n + k) = SumTo(a, n) + SumTo(b, k)
    BY <1>3, <2>1
  <2>3. SumTo(b, k) \in Int /\ SumTo(b, k + 1) = SumTo(b, k) + b[k + 1]
    <3>1. \A i \in 1 .. k + 1 : b[i] \in Int
      BY <1>0, <2>1
    <3> QED BY <3>1, SumToStep
  <2>4. SumTo(f, n + k + 1) = SumTo(f, n + k) + f[n + k + 1]
    <3>1. ASSUME NEW i \in 1 .. n + k + 1 PROVE f[i] \in Int
      <4>1. CASE i <= n
        BY <1>0, <4>1
      <4>2. CASE i > n
        <5>1. i - n \in 1 .. m /\ n + (i - n) = i
          BY <4>2, <2>1
        <5> QED BY <1>0, <5>1
      <4> QED BY <4>1, <4>2
    <3>2. n + k \in Nat
      OBVIOUS
    <3> QED BY <3>1, <3>2, SumToStep
  <2>5. f[n + k + 1] = b[k + 1] /\ b[k + 1] \in Int
    <3>1. k + 1 \in 1 .. m /\ n + (k + 1) = n + k + 1
      BY <2>1
    <3> QED BY <1>0, <3>1
  <2> QED BY <1>1, <2>2, <2>3, <2>4, <2>5
<1>4. m \in T
  <2>1. Nat \subseteq T
    <3> HIDE DEF T
    <3> QED BY <1>2, <1>3, NaturalInduction
  <2> QED BY <2>1
<1> QED BY <1>4

\* No value is more than the sum that it is a part of.
LEMMA SumAtLeast ==
  ASSUME NEW f, NEW S, IsFiniteSet(S), \A y \in S : f[y] \in Nat, NEW x \in S
  PROVE  f[x] <= SumFunctionOnSet(f, S)
<1> DEFINE R == S \ {x}
<1>1. R \cup {x} = S /\ x \notin R /\ IsFiniteSet(R) /\ f[x] \in Nat /\ \A y \in R : f[y] \in Nat
  BY FS_Subset
<1> HIDE DEF R
<1>2. f[x] \in Int /\ \A y \in R : f[y] \in Int
  BY <1>1
<1>3. SumFunctionOnSet(f, R \cup {x}) = SumFunctionOnSet(f, R) + f[x]
  BY <1>1, <1>2, SumAdd
<1>4. SumFunctionOnSet(f, R) \in Nat
  BY <1>1, <1>2, SumType
<1> QED BY <1>1, <1>3, <1>4

-----------------------------------------------------------------------------
\* What a sequence holds, and in which order.

\* No element of q is in B.
NoneIn(q, B) == \A i \in DOMAIN q : q[i] \notin B

\* Some element of q is in G, and none after it in B.
LastIn(q, G, B) == \E i \in DOMAIN q : q[i] \in G /\ \A j \in DOMAIN q : i < j => q[j] \notin B

\* The elements of q in L come before those in G.
AllBefore(q, L, G) == \A i, j \in DOMAIN q : q[i] \in L /\ q[j] \in G => i < j

\* At most one element of q is in G.
AtMostOne(q, G) == \A i, j \in DOMAIN q : q[i] \in G /\ q[j] \in G => i = j

\* The places of a concatenation, and of what follows the first element.
LEMMA Places ==
  ASSUME NEW S, NEW q \in Seq(S)
  PROVE  /\ DOMAIN q = 1 .. Len(q) /\ Len(q) \in Nat
         /\ q # <<>> => /\ Tail(q) \in Seq(S)
                        /\ Len(Tail(q)) = Len(q) - 1 /\ DOMAIN Tail(q) = 1 .. (Len(q) - 1)
                        /\ \A i \in 1 .. (Len(q) - 1) : Tail(q)[i] = q[i + 1]
OBVIOUS

LEMMA NoneInAppended ==
  ASSUME NEW S, NEW q \in Seq(S), NEW r \in Seq(S), NEW B
  PROVE  NoneIn(q \o r, B) <=> NoneIn(q, B) /\ NoneIn(r, B)
<1> DEFINE n == Len(q)
           m == Len(r)
           c == q \o r
<1>1. /\ c \in Seq(S) /\ n \in Nat /\ m \in Nat /\ n + m = Len(c)
      /\ \A i \in 1 .. n : c[i] = q[i]
      /\ \A i \in 1 .. m : c[n + i] = r[i]
  BY ConcatAt, Places
<1>2. DOMAIN q = 1 .. n /\ DOMAIN r = 1 .. m /\ DOMAIN c = 1 .. (n + m)
  BY <1>1, Places
<1> HIDE DEF n, m, c
<1>3. NoneIn(c, B) => NoneIn(q, B) /\ NoneIn(r, B)
  <2>1. ASSUME NoneIn(c, B), NEW i \in 1 .. n PROVE q[i] \notin B
    <3>1. i \in 1 .. (n + m) BY <1>1
    <3> QED BY <2>1, <3>1, <1>1, <1>2 DEF NoneIn
  <2>2. ASSUME NoneIn(c, B), NEW i \in 1 .. m PROVE r[i] \notin B
    <3>1. n + i \in 1 .. (n + m) BY <1>1
    <3> QED BY <2>2, <3>1, <1>1, <1>2 DEF NoneIn
  <2> QED BY <2>1, <2>2, <1>2 DEF NoneIn
<1>4. ASSUME NoneIn(q, B), NoneIn(r, B), NEW i \in 1 .. (n + m) PROVE c[i] \notin B
  <2>1. CASE i <= n
    <3>1. i \in 1 .. n BY <2>1, <1>1
    <3> QED BY <3>1, <1>4, <1>1, <1>2 DEF NoneIn
  <2>2. CASE i > n
    <3>1. i - n \in 1 .. m /\ n + (i - n) = i BY <2>2, <1>1
    <3>2. c[i] = r[i - n] BY <3>1, <1>1
    <3> QED BY <3>1, <3>2, <1>4, <1>2 DEF NoneIn
  <2> QED BY <2>1, <2>2, <1>1
<1>5. NoneIn(q, B) /\ NoneIn(r, B) => NoneIn(c, B) BY <1>4, <1>2 DEF NoneIn
<1> QED BY <1>3, <1>5 DEF c

LEMMA LastInAppended ==
  ASSUME NEW S, NEW q \in Seq(S), NEW r \in Seq(S), NEW G, NEW B
  PROVE  /\ LastIn(q, G, B) /\ NoneIn(r, B) => LastIn(q \o r, G, B)
         /\ LastIn(r, G, B) => LastIn(q \o r, G, B)
<1> DEFINE n == Len(q)
           m == Len(r)
           c == q \o r
<1>1. /\ c \in Seq(S) /\ n \in Nat /\ m \in Nat /\ n + m = Len(c)
      /\ \A i \in 1 .. n : c[i] = q[i]
      /\ \A i \in 1 .. m : c[n + i] = r[i]
  BY ConcatAt, Places
<1>2. DOMAIN q = 1 .. n /\ DOMAIN r = 1 .. m /\ DOMAIN c = 1 .. (n + m)
  BY <1>1, Places
<1> HIDE DEF n, m, c
<1>3. ASSUME NEW j \in 1 .. (n + m), j > n PROVE j - n \in 1 .. m /\ c[j] = r[j - n]
  <2>1. j - n \in 1 .. m /\ n + (j - n) = j BY <1>3, <1>1
  <2> QED BY <2>1, <1>1
<1>4. ASSUME LastIn(q, G, B), NoneIn(r, B) PROVE LastIn(c, G, B)
  <2>1. PICK i \in 1 .. n : q[i] \in G /\ \A j \in 1 .. n : i < j => q[j] \notin B
    BY <1>4, <1>2 DEF LastIn
  <2>2. i \in 1 .. (n + m) /\ c[i] \in G BY <2>1, <1>1
  <2>3. ASSUME NEW j \in 1 .. (n + m), i < j PROVE c[j] \notin B
    <3>1. CASE j <= n
      <4>1. j \in 1 .. n BY <3>1, <1>1
      <4> QED BY <4>1, <2>1, <2>3, <1>1
    <3>2. CASE j > n BY <3>2, <1>3, <1>4, <1>2 DEF NoneIn
    <3> QED BY <3>1, <3>2, <1>1
  <2> QED BY <2>2, <2>3, <1>2 DEF LastIn
<1>5. ASSUME LastIn(r, G, B) PROVE LastIn(c, G, B)
  <2>1. PICK i \in 1 .. m : r[i] \in G /\ \A j \in 1 .. m : i < j => r[j] \notin B
    BY <1>5, <1>2 DEF LastIn
  <2>2. n + i \in 1 .. (n + m) /\ c[n + i] \in G BY <2>1, <1>1
  <2>3. ASSUME NEW j \in 1 .. (n + m), n + i < j PROVE c[j] \notin B
    <3>1. j > n /\ i < j - n BY <2>3, <1>1
    <3> QED BY <3>1, <1>3, <2>1
  <2> QED BY <2>2, <2>3, <1>2 DEF LastIn
<1> QED BY <1>4, <1>5 DEF c

LEMMA NoneInTail ==
  ASSUME NEW S, NEW q \in Seq(S), q # <<>>, NEW B
  PROVE  NoneIn(q, B) <=> Head(q) \notin B /\ NoneIn(Tail(q), B)
<1> DEFINE n == Len(q)
           t == Tail(q)
<1>1. /\ n \in Nat \ {0} /\ DOMAIN q = 1 .. n /\ Head(q) = q[1] /\ DOMAIN t = 1 .. (n - 1)
      /\ \A i \in 1 .. (n - 1) : t[i] = q[i + 1]
  BY NonEmptySeq, Places
<1> HIDE DEF n, t
<1>2. ASSUME NoneIn(q, B), NEW i \in 1 .. (n - 1) PROVE t[i] \notin B
  <2>1. i + 1 \in 1 .. n BY <1>1
  <2> QED BY <2>1, <1>1, <1>2 DEF NoneIn
<1>3. ASSUME Head(q) \notin B, NoneIn(t, B), NEW i \in 1 .. n PROVE q[i] \notin B
  <2>1. CASE i = 1 BY <2>1, <1>1, <1>3
  <2>2. CASE i # 1
    <3>1. i - 1 \in 1 .. (n - 1) /\ (i - 1) + 1 = i BY <2>2, <1>1
    <3>2. t[i - 1] = q[i] BY <3>1, <1>1
    <3> QED BY <3>1, <3>2, <1>1, <1>3 DEF NoneIn
  <2> QED BY <2>1, <2>2
<1>4. 1 \in 1 .. n BY <1>1
<1> QED BY <1>1, <1>2, <1>3, <1>4 DEF NoneIn, t

LEMMA LastInTail ==
  ASSUME NEW S, NEW q \in Seq(S), q # <<>>, NEW G, NEW B
  PROVE  /\ LastIn(q, G, B) =>
              LastIn(Tail(q), G, B) \/ (Head(q) \in G /\ NoneIn(Tail(q), B))
         /\ LastIn(Tail(q), G, B) => LastIn(q, G, B)
<1> DEFINE n == Len(q)
           t == Tail(q)
<1>1. /\ n \in Nat \ {0} /\ DOMAIN q = 1 .. n /\ Head(q) = q[1] /\ DOMAIN t = 1 .. (n - 1)
      /\ \A i \in 1 .. (n - 1) : t[i] = q[i + 1]
  BY NonEmptySeq, Places
<1> HIDE DEF n, t
<1>2. ASSUME NEW j \in 1 .. (n - 1) PROVE j + 1 \in 1 .. n /\ t[j] = q[j + 1]
  BY <1>1
<1>3. ASSUME LastIn(q, G, B)
      PROVE  LastIn(t, G, B) \/ (Head(q) \in G /\ NoneIn(t, B))
  <2>1. PICK i \in 1 .. n : q[i] \in G /\ \A j \in 1 .. n : i < j => q[j] \notin B
    BY <1>3, <1>1 DEF LastIn
  <2>2. CASE i = 1
    <3>1. ASSUME NEW j \in 1 .. (n - 1) PROVE t[j] \notin B
      <4>1. i < j + 1 BY <2>2, <1>1
      <4> QED BY <4>1, <1>2, <2>1
    <3> QED BY <3>1, <2>1, <2>2, <1>1 DEF NoneIn
  <2>3. CASE i # 1
    <3>1. i - 1 \in 1 .. (n - 1) /\ (i - 1) + 1 = i BY <2>3, <1>1
    <3>2. t[i - 1] \in G BY <3>1, <1>1, <2>1
    <3>3. ASSUME NEW j \in 1 .. (n - 1), i - 1 < j PROVE t[j] \notin B
      <4>1. i < j + 1 BY <3>3, <1>1
      <4> QED BY <4>1, <1>2, <2>1
    <3> QED BY <3>1, <3>2, <3>3, <1>1 DEF LastIn
  <2> QED BY <2>2, <2>3
<1>4. ASSUME LastIn(t, G, B) PROVE LastIn(q, G, B)
  <2>1. PICK i \in 1 .. (n - 1) : t[i] \in G /\ \A j \in 1 .. (n - 1) : i < j => t[j] \notin B
    BY <1>4, <1>1 DEF LastIn
  <2>2. i + 1 \in 1 .. n /\ q[i + 1] \in G BY <2>1, <1>2
  <2>3. ASSUME NEW j \in 1 .. n, i + 1 < j PROVE q[j] \notin B
    <3>1. j - 1 \in 1 .. (n - 1) /\ i < j - 1 /\ (j - 1) + 1 = j BY <2>3, <1>1
    <3>2. t[j - 1] = q[j] BY <3>1, <1>2
    <3> QED BY <3>1, <3>2, <2>1
  <2> QED BY <2>2, <2>3, <1>1 DEF LastIn
<1> QED BY <1>3, <1>4 DEF t

LEMMA AllBeforeAppended ==
  ASSUME NEW S, NEW q \in Seq(S), NEW r \in Seq(S), NEW L, NEW G, NoneIn(r, L),
         AllBefore(q, L, G)
  PROVE  AllBefore(q \o r, L, G)
<1> DEFINE n == Len(q)
           m == Len(r)
           c == q \o r
<1>1. /\ c \in Seq(S) /\ n \in Nat /\ m \in Nat /\ n + m = Len(c)
      /\ \A i \in 1 .. n : c[i] = q[i]
      /\ \A i \in 1 .. m : c[n + i] = r[i]
  BY ConcatAt, Places
<1>2. DOMAIN q = 1 .. n /\ DOMAIN r = 1 .. m /\ DOMAIN c = 1 .. (n + m)
  BY <1>1, Places
<1> HIDE DEF n, m, c
<1>3. ASSUME NEW i \in 1 .. (n + m), c[i] \in L PROVE i \in 1 .. n
  <2>1. CASE i > n
    <3>1. i - n \in 1 .. m /\ n + (i - n) = i BY <2>1, <1>1
    <3>2. c[i] = r[i - n] BY <3>1, <1>1
    <3> QED BY <3>1, <3>2, <1>3, <1>2 DEF NoneIn
  <2>2. CASE i <= n BY <2>2, <1>1
  <2> QED BY <2>1, <2>2, <1>1
<1>4. ASSUME NEW i \in 1 .. (n + m), NEW j \in 1 .. (n + m), c[i] \in L, c[j] \in G
      PROVE  i < j
  <2>1. i \in 1 .. n BY <1>3, <1>4
  <2>2. CASE j > n BY <2>1, <2>2, <1>1
  <2>3. CASE j <= n
    <3>1. j \in 1 .. n BY <2>3, <1>1
    <3> QED BY <3>1, <2>1, <1>1, <1>2, <1>4 DEF AllBefore
  <2> QED BY <2>2, <2>3, <1>1
<1>5. AllBefore(c, L, G) BY <1>4, <1>2 DEF AllBefore
<1> QED BY <1>5 DEF c

LEMMA AllBeforeTail ==
  ASSUME NEW S, NEW q \in Seq(S), q # <<>>, NEW L, NEW G, AllBefore(q, L, G)
  PROVE  /\ AllBefore(Tail(q), L, G)
         /\ Head(q) \in G => NoneIn(q, L)
<1> DEFINE n == Len(q)
           t == Tail(q)
<1>1. /\ n \in Nat \ {0} /\ DOMAIN q = 1 .. n /\ Head(q) = q[1] /\ DOMAIN t = 1 .. (n - 1)
      /\ \A i \in 1 .. (n - 1) : t[i] = q[i + 1]
  BY NonEmptySeq, Places
<1> HIDE DEF n, t
<1>2. ASSUME NEW j \in 1 .. (n - 1) PROVE j + 1 \in 1 .. n /\ t[j] = q[j + 1]
  BY <1>1
<1>3. ASSUME NEW i \in 1 .. (n - 1), NEW j \in 1 .. (n - 1), t[i] \in L, t[j] \in G
      PROVE  i < j
  <2>1. i + 1 < j + 1 BY <1>1, <1>2, <1>3 DEF AllBefore
  <2> QED BY <2>1, <1>1
<1>4. ASSUME Head(q) \in G, NEW i \in 1 .. n PROVE q[i] \notin L
  <2>1. 1 \in 1 .. n /\ ~(i < 1) BY <1>1
  <2> QED BY <2>1, <1>1, <1>4 DEF AllBefore
<1>5. AllBefore(t, L, G) BY <1>3, <1>1 DEF AllBefore
<1> QED BY <1>4, <1>5, <1>1 DEF NoneIn, t

LEMMA AtMostOneAppended ==
  ASSUME NEW S, NEW q \in Seq(S), NEW x \in S, NEW G
  PROVE  /\ NoneIn(q, G) => AtMostOne(q \o <<x>>, G)
         /\ AtMostOne(q, G) /\ x \notin G => AtMostOne(q \o <<x>>, G)
<1> DEFINE n == Len(q)
           c == q \o <<x>>
<1>1. /\ n \in Nat /\ DOMAIN q = 1 .. n /\ DOMAIN c = 1 .. (n + 1)
      /\ \A i \in 1 .. n : c[i] = q[i]
      /\ c[n + 1] = x
  OBVIOUS
<1> HIDE DEF n, c
<1>2. ASSUME NEW i \in 1 .. (n + 1) PROVE i \in 1 .. n \/ i = n + 1
  BY <1>1
<1>3. ASSUME NoneIn(q, G), NEW i \in 1 .. (n + 1), c[i] \in G PROVE i = n + 1
  BY <1>1, <1>2, <1>3 DEF NoneIn
<1>4. ASSUME AtMostOne(q, G), x \notin G, NEW i \in 1 .. (n + 1), NEW j \in 1 .. (n + 1),
             c[i] \in G, c[j] \in G
      PROVE  i = j
  <2>1. i \in 1 .. n /\ j \in 1 .. n BY <1>1, <1>2, <1>4
  <2> QED BY <2>1, <1>1, <1>4 DEF AtMostOne
<1>5. NoneIn(q, G) => AtMostOne(c, G) BY <1>3, <1>1 DEF AtMostOne
<1>6. AtMostOne(q, G) /\ x \notin G => AtMostOne(c, G) BY <1>4, <1>1 DEF AtMostOne
<1> QED BY <1>5, <1>6 DEF c

LEMMA AtMostOneKept ==
  ASSUME NEW S, NEW q \in Seq(S), NEW r \in Seq(S), NEW G, AtMostOne(q, G), NoneIn(r, G)
  PROVE  AtMostOne(q \o r, G)
<1> DEFINE n == Len(q)
           m == Len(r)
           c == q \o r
<1>1. /\ c \in Seq(S) /\ n \in Nat /\ m \in Nat /\ n + m = Len(c)
      /\ \A i \in 1 .. n : c[i] = q[i]
      /\ \A i \in 1 .. m : c[n + i] = r[i]
  BY ConcatAt, Places
<1>2. DOMAIN q = 1 .. n /\ DOMAIN r = 1 .. m /\ DOMAIN c = 1 .. (n + m)
  BY <1>1, Places
<1> HIDE DEF n, m, c
<1>3. ASSUME NEW i \in 1 .. (n + m), c[i] \in G PROVE i \in 1 .. n /\ q[i] \in G
  <2>1. CASE i > n
    <3>1. i - n \in 1 .. m /\ n + (i - n) = i BY <2>1, <1>1
    <3>2. c[i] = r[i - n] BY <3>1, <1>1
    <3> QED BY <3>1, <3>2, <1>3, <1>2 DEF NoneIn
  <2>2. CASE i <= n
    <3>1. i \in 1 .. n BY <2>2, <1>1
    <3> QED BY <3>1, <1>1, <1>3
  <2> QED BY <2>1, <2>2, <1>1
<1>4. AtMostOne(c, G) BY <1>2, <1>3 DEF AtMostOne
<1> QED BY <1>4 DEF c

LEMMA AtMostOneTail ==
  ASSUME NEW S, NEW q \in Seq(S), q # <<>>, NEW G, AtMostOne(q, G)
  PROVE  /\ AtMostOne(Tail(q), G)
         /\ Head(q) \in G => NoneIn(Tail(q), G)
<1> DEFINE n == Len(q)
           t == Tail(q)
<1>1. /\ n \in Nat \ {0} /\ DOMAIN q = 1 .. n /\ Head(q) = q[1] /\ DOMAIN t = 1 .. (n - 1)
      /\ \A i \in 1 .. (n - 1) : t[i] = q[i + 1]
  BY NonEmptySeq, Places
<1> HIDE DEF n, t
<1>2. ASSUME NEW j \in 1 .. (n - 1) PROVE j + 1 \in 1 .. n /\ t[j] = q[j + 1] /\ j + 1 # 1
  BY <1>1
<1>3. ASSUME NEW i \in 1 .. (n - 1), NEW j \in 1 .. (n - 1), t[i] \in G, t[j] \in G
      PROVE  i = j
  <2>1. i + 1 = j + 1 BY <1>1, <1>2, <1>3 DEF AtMostOne
  <2> QED BY <2>1, <1>1
<1>4. ASSUME Head(q) \in G, NEW i \in 1 .. (n - 1) PROVE t[i] \notin G
  <2>1. 1 \in 1 .. n BY <1>1
  <2> QED BY <2>1, <1>1, <1>2, <1>4 DEF AtMostOne
<1>5. AtMostOne(t, G) BY <1>3, <1>1 DEF AtMostOne
<1> QED BY <1>4, <1>5, <1>1 DEF NoneIn, t

\* The empty sequence, and a sequence of one element.
LEMMA NoneInEmpty == ASSUME NEW B PROVE NoneIn(<<>>, B) /\ AtMostOne(<<>>, B)
<1>1. DOMAIN <<>> = {} BY EmptySeq
<1> QED BY <1>1 DEF NoneIn, AtMostOne

LEMMA NotLastInEmpty == ASSUME NEW G, NEW B PROVE ~LastIn(<<>>, G, B)
<1>1. DOMAIN <<>> = {} BY EmptySeq
<1> QED BY <1>1 DEF LastIn

LEMMA NoneInOne == ASSUME NEW x, NEW B PROVE NoneIn(<<x>>, B) <=> x \notin B
<1>1. DOMAIN <<x>> = {1} /\ <<x>>[1] = x OBVIOUS
<1> QED BY <1>1 DEF NoneIn

LEMMA LastInOne == ASSUME NEW x, NEW G, x \in G, NEW B PROVE LastIn(<<x>>, G, B)
<1>1. DOMAIN <<x>> = {1} /\ <<x>>[1] = x OBVIOUS
<1>2. ~(1 < 1) OBVIOUS
<1> QED BY <1>1, <1>2 DEF LastIn

\* The members of a finite set, one after the other.
LEMMA SetToSeqFacts ==
  ASSUME NEW S, IsFiniteSet(S)
  PROVE  /\ SetToSeq(S) \in Seq(S)
         /\ \A x \in S : \E i \in DOMAIN SetToSeq(S) : SetToSeq(S)[i] = x
<1> DEFINE n == Cardinality(S)
           q == SetToSeq(S)
<1>1. n \in Nat /\ \E f \in [1 .. n -> S] : IsInjective(f)
  <2>1. n \in Nat /\ ExistsBijection(1 .. n, S)
    BY FS_CardinalityType
  <2> QED BY <2>1 DEF ExistsBijection, Bijection, Injection, IsInjective
<1>2. q \in [1 .. n -> S] /\ IsInjective(q)
  BY <1>1 DEF SetToSeq
<1>3. IsFiniteSet(1 .. n) /\ Cardinality(1 .. n) = n
  BY <1>1, FS_Interval
<1>4. q \in Injection(1 .. n, S)
  BY <1>2 DEF Injection, IsInjective
<1>5. q \in Surjection(1 .. n, S)
  BY <1>3, <1>4, FS_Injection
<1>6. \A x \in S : \E i \in 1 .. n : q[i] = x
  BY <1>5 DEF Surjection
<1>7. q \in Seq(S) /\ DOMAIN q = 1 .. n
  BY <1>1, <1>2
<1> QED BY <1>6, <1>7
=============================================================================
