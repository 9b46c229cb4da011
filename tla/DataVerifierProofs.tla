------------------------- MODULE DataVerifierProofs -------------------------
(***************************************************************************)
(* Proofs about DataVerifier, for any trades, any numbers of them, any     *)
(* size of the turns, and any number of queries that fail.                 *)
(***************************************************************************)
EXTENDS DataVerifier, DataLemmas

-----------------------------------------------------------------------------
\* The k-th number of a set.

\* How many numbers of S come before i, and the number that k - 1 come before.
Rank(S, i) == Cardinality({j \in S : j < i})
Nth(S, k)  == CHOOSE i \in S : Rank(S, i) = k - 1

\* The ranks of the n numbers of S tell them apart, and grow with them.
Ranked(S, n) ==
  /\ \A i \in S : Rank(S, i) \in 0 .. n - 1
  /\ \A i, j \in S : i < j => Rank(S, i) < Rank(S, j)

\* Each rank below n is that of one of the numbers.
HasRanks(S, n) ==
  /\ \A k \in 1 .. n : Nth(S, k) \in S /\ Rank(S, Nth(S, k)) = k - 1
  /\ \A i \in S : Rank(S, i) + 1 \in 1 .. n /\ Nth(S, Rank(S, i) + 1) = i

LEMMA RanksGrow ==
  ASSUME NEW S \in SUBSET Nat, NEW n \in Nat, IsFiniteSet(S), Cardinality(S) = n
  PROVE  Ranked(S, n)
<1> DEFINE Before(i) == {j \in S : j < i}
<1>1. ASSUME NEW i \in S
      PROVE  /\ IsFiniteSet(Before(i)) /\ Rank(S, i) = Cardinality(Before(i))
             /\ Rank(S, i) \in Nat /\ Rank(S, i) < n
  <2>1. Rank(S, i) = Cardinality(Before(i))
    BY DEF Rank
  <2>2. Before(i) \in SUBSET S /\ i \notin Before(i)
    OBVIOUS
  <2> HIDE DEF Before
  <2>3. /\ IsFiniteSet(Before(i)) /\ Cardinality(Before(i)) <= n
        /\ n = Cardinality(Before(i)) => S = Before(i)
    BY <2>2, FS_Subset
  <2>4. Cardinality(Before(i)) \in Nat
    BY <2>3, FS_CardinalityType
  <2>5. n # Cardinality(Before(i))
    BY <2>2, <2>3
  <2> QED BY <2>1, <2>3, <2>4, <2>5
<1>2. ASSUME NEW i \in S, NEW j \in S, i < j
      PROVE  Rank(S, i) < Rank(S, j)
  <2>1. Before(i) \in SUBSET Before(j) /\ i \in Before(j) /\ i \notin Before(i)
    <3>1. i \in Nat /\ j \in Nat
      OBVIOUS
    <3>2. ASSUME NEW h \in S, h < i
          PROVE  h < j
      <4>1. h \in Nat
        OBVIOUS
      <4> QED BY <1>2, <3>1, <3>2, <4>1
    <3>3. ~(i < i)
      BY <3>1
    <3> QED BY <1>2, <3>2, <3>3
  <2>2. /\ IsFiniteSet(Before(j))
        /\ Rank(S, i) = Cardinality(Before(i)) /\ Rank(S, j) = Cardinality(Before(j))
        /\ Rank(S, i) \in Nat /\ Rank(S, j) \in Nat
    BY <1>1
  <2> HIDE DEF Before
  <2>3. /\ Cardinality(Before(i)) <= Cardinality(Before(j))
        /\ Cardinality(Before(j)) = Cardinality(Before(i)) => Before(j) = Before(i)
    BY <2>1, <2>2, FS_Subset
  <2> QED BY <2>1, <2>2, <2>3
<1>3. \A i \in S : Rank(S, i) \in 0 .. n - 1
  <2> HIDE DEF Before
  <2>1. ASSUME NEW i \in S, NEW r, r = Rank(S, i)
        PROVE  r \in 0 .. n - 1
    <3>1. r \in Nat /\ r < n
      BY <1>1, <2>1
    <3> QED BY <3>1
  <2> QED BY <2>1
<1>4. \A i, j \in S : i < j => Rank(S, i) < Rank(S, j)
  BY <1>2
<1> QED BY <1>3, <1>4 DEF Ranked

LEMMA EveryRank ==
  ASSUME NEW S \in SUBSET Nat, NEW n \in Nat, IsFiniteSet(S), Cardinality(S) = n
  PROVE  HasRanks(S, n)
<1>1. /\ \A i \in S : Rank(S, i) \in 0 .. n - 1
      /\ \A i, j \in S : i < j => Rank(S, i) < Rank(S, j)
  BY RanksGrow DEF Ranked
<1> DEFINE f == [i \in S |-> Rank(S, i) + 1]
<1>2. \A i, j \in S : Rank(S, i) = Rank(S, j) => i = j
  <2>1. ASSUME NEW i \in S, NEW j \in S, Rank(S, i) = Rank(S, j)
        PROVE  i = j
    <3>1. ~(i < j) /\ ~(j < i)
      BY <1>1, <2>1
    <3> QED BY <3>1
  <2> QED BY <2>1
<1>3. f \in Injection(S, 1 .. n)
  <2>1. f \in [S -> 1 .. n]
    BY <1>1
  <2>2. \A i, j \in S : f[i] = f[j] => i = j
    BY <1>1, <1>2
  <2> QED BY <2>1, <2>2 DEF Injection, IsInjective
<1>4. IsFiniteSet(1 .. n) /\ Cardinality(1 .. n) = n
  BY FS_Interval
<1>5. f \in Surjection(S, 1 .. n)
  <2> HIDE DEF f
  <2> QED BY <1>3, <1>4, FS_Injection
<1>6. ASSUME NEW k \in 1 .. n
      PROVE  Nth(S, k) \in S /\ Rank(S, Nth(S, k)) = k - 1
  <2>1. PICK i \in S : f[i] = k
    BY <1>5 DEF Surjection
  <2>2. Rank(S, i) = k - 1
    BY <1>1, <2>1
  <2> QED BY <2>2 DEF Nth
<1>7. ASSUME NEW i \in S
      PROVE  Rank(S, i) + 1 \in 1 .. n /\ Nth(S, Rank(S, i) + 1) = i
  <2>1. Rank(S, i) + 1 \in 1 .. n
    BY <1>1
  <2>2. PICK k \in 1 .. n : k = Rank(S, i) + 1
    BY <2>1
  <2>3. Nth(S, k) \in S /\ Rank(S, Nth(S, k)) = k - 1 /\ Rank(S, i) = k - 1
    BY <1>1, <1>6, <2>2
  <2>4. Nth(S, k) = i
    BY <1>2, <2>3
  <2> QED BY <2>2, <2>4
<1> QED BY <1>6, <1>7 DEF HasRanks

-----------------------------------------------------------------------------
\* The values of one symbol.

\* The values x of symbol s in data d: each of the positions has its place.
LEMMA BySymbolFacts ==
  ASSUME NEW d \in Seq(Trade), NEW s, NEW x, NEW n,
         x = BySymbol(d, s), n = Cardinality(PositionsOf(d, s))
  PROVE  /\ n \in Nat /\ IsFiniteSet(PositionsOf(d, s))
         /\ x \in Seq(Trade) /\ n = Len(x)
         /\ HasRanks(PositionsOf(d, s), n)
         /\ \A k \in 1 .. n : x[k] = d[Nth(PositionsOf(d, s), k)]
<1> DEFINE S == PositionsOf(d, s)
<1>1. S \in SUBSET (1 .. Len(d)) /\ S \in SUBSET Nat /\ Len(d) \in Nat
  BY DEF PositionsOf
<1>2. IsFiniteSet(S)
  <2> HIDE DEF S
  <2>1. IsFiniteSet(1 .. Len(d))
    BY <1>1, FS_Interval
  <2> QED BY <1>1, <2>1, FS_Subset
<1>3. n \in Nat
  BY <1>2, FS_CardinalityType
<1>4. x = [k \in 1 .. n |-> d[Nth(S, k)]]
  BY DEF BySymbol, Nth, Rank
<1> HIDE DEF S
<1>5. HasRanks(S, n)
  BY <1>1, <1>2, <1>3, EveryRank DEF S
<1>6. \A k \in 1 .. n : d[Nth(S, k)] \in Trade
  <2>1. \A k \in 1 .. n : Nth(S, k) \in S
    BY <1>5 DEF HasRanks
  <2>2. \A i \in S : d[i] \in Trade
    BY <1>1
  <2> QED BY <2>1, <2>2
<1>7. x \in Seq(Trade) /\ n = Len(x)
  BY <1>3, <1>4, <1>6
<1> QED BY <1>2, <1>3, <1>4, <1>5, <1>7 DEF S

\* Its positions whose values have key k, and those of the data.
KeyIn(x, k) == {p \in DOMAIN x : x[p].key = k}
KeyAt(d, s, k) == {i \in PositionsOf(d, s) : d[i].key = k}

\* A key occurs as often among the values of its symbol as in the data.
LEMMA KeysCounted ==
  ASSUME NEW d \in Seq(Trade), NEW s, NEW k, NEW x, x = BySymbol(d, s)
  PROVE  /\ IsFiniteSet(KeyIn(x, k))
         /\ Cardinality(KeyIn(x, k)) = Cardinality(KeyAt(d, s, k))
<1> DEFINE S == PositionsOf(d, s)
           I == KeyAt(d, s, k)
           P == KeyIn(x, k)
           f == [i \in I |-> Rank(S, i) + 1]
<1>1. PICK n : n = Cardinality(PositionsOf(d, s))
  OBVIOUS
<1>2. /\ n \in Nat /\ IsFiniteSet(S) /\ x \in Seq(Trade) /\ n = Len(x) /\ HasRanks(S, n)
      /\ \A j \in 1 .. n : x[j] = d[Nth(S, j)]
  BY <1>1, BySymbolFacts
<1>3. P = {p \in 1 .. n : x[p].key = k} /\ I = {i \in S : d[i].key = k}
  BY <1>2 DEF KeyIn, KeyAt
<1> HIDE DEF S, I, P
<1>4. /\ \A j \in 1 .. n : Nth(S, j) \in S /\ Rank(S, Nth(S, j)) = j - 1
      /\ \A i \in S : Rank(S, i) + 1 \in 1 .. n /\ Nth(S, Rank(S, i) + 1) = i
  BY <1>2 DEF HasRanks
<1>5. f \in [I -> P]
  <2>1. ASSUME NEW i \in I
        PROVE  Rank(S, i) + 1 \in P
    <3>1. PICK j \in 1 .. n : j = Rank(S, i) + 1
      BY <1>3, <1>4
    <3>2. x[j] = d[i]
      BY <1>2, <1>3, <1>4, <3>1
    <3> QED BY <1>3, <3>1, <3>2
  <2> QED BY <2>1
<1>6. \A i, j \in I : f[i] = f[j] => i = j
  <2>1. ASSUME NEW i \in I, NEW j \in I, Rank(S, i) + 1 = Rank(S, j) + 1
        PROVE  i = j
    <3>1. Nth(S, Rank(S, i) + 1) = i /\ Nth(S, Rank(S, j) + 1) = j
      BY <1>3, <1>4
    <3> QED BY <2>1, <3>1
  <2> QED BY <2>1
<1>7. \A p \in P : \E i \in I : f[i] = p
  <2>1. ASSUME NEW p \in P
        PROVE  \E i \in I : Rank(S, i) + 1 = p
    <3>1. p \in 1 .. n /\ x[p].key = k
      BY <1>3
    <3>2. /\ Nth(S, p) \in S /\ Rank(S, Nth(S, p)) = p - 1
          /\ x[p] = d[Nth(S, p)]
      BY <1>2, <1>4, <3>1
    <3>3. Nth(S, p) \in I /\ Rank(S, Nth(S, p)) + 1 = p
      BY <1>3, <3>1, <3>2
    <3> QED BY <3>3
  <2> QED BY <2>1
<1>8. ExistsBijection(I, P)
  <2> HIDE DEF f
  <2>1. f \in Injection(I, P)
    <3>1. DOMAIN f = I
      BY <1>5
    <3> QED BY <1>5, <1>6, <3>1 DEF Injection, IsInjective
  <2>2. f \in Surjection(I, P)
    BY <1>5, <1>7 DEF Surjection
  <2> QED BY <2>1, <2>2 DEF ExistsBijection, Bijection
<1>9. IsFiniteSet(I)
  BY <1>2, <1>3, FS_Subset
<1>10. IsFiniteSet(P) /\ Cardinality(P) = Cardinality(I)
  BY <1>8, <1>9, FS_Bijection
<1> QED BY <1>10 DEF P, I

\* Both sources have each key of symbol s as often.
SameCounts(d, e, s) ==
  \A k \in {t.key : t \in Trade} : Cardinality(KeyAt(d, s, k)) = Cardinality(KeyAt(e, s, k))

\* The positions of symbol s whose key is in L.
KeysAt(d, s, L) == {i \in PositionsOf(d, s) : d[i].key \in L}

\* The keys of a symbol are finitely many.
LEMMA FiniteKeys ==
  ASSUME NEW d \in Seq(Trade), NEW s
  PROVE  /\ IsFiniteSet(PositionsOf(d, s))
         /\ IsFiniteSet({d[i].key : i \in PositionsOf(d, s)})
         /\ {d[i].key : i \in PositionsOf(d, s)} \subseteq {t.key : t \in Trade}
<1> DEFINE S == PositionsOf(d, s)
           K == {d[i].key : i \in S}
           f == [i \in S |-> d[i].key]
<1>1. IsFiniteSet(S)
  BY BySymbolFacts
<1>2. \A i \in S : d[i] \in Trade
  BY DEF PositionsOf
<1> HIDE DEF S
<1>3. f \in Surjection(S, K)
  BY DEF Surjection
<1>4. IsFiniteSet(K)
  <2> HIDE DEF f, K
  <2> QED BY <1>1, <1>3, FS_Surjection
<1>5. K \subseteq {t.key : t \in Trade}
  BY <1>2
<1> QED BY <1>1, <1>4, <1>5 DEF S

\* One more key of the set: the positions that have it are added.
LEMMA KeysAtAdd ==
  ASSUME NEW d \in Seq(Trade), NEW s, NEW U, NEW k, k \notin U
  PROVE  /\ Cardinality(KeysAt(d, s, U \cup {k}))
              = Cardinality(KeysAt(d, s, U)) + Cardinality(KeyAt(d, s, k))
         /\ Cardinality(KeysAt(d, s, U)) \in Nat /\ Cardinality(KeyAt(d, s, k)) \in Nat
<1> DEFINE A == KeysAt(d, s, U)
           B == KeyAt(d, s, k)
<1>1. /\ A \cup B = KeysAt(d, s, U \cup {k}) /\ A \cap B = {}
      /\ A \in SUBSET PositionsOf(d, s) /\ B \in SUBSET PositionsOf(d, s)
  BY DEF KeysAt, KeyAt
<1> HIDE DEF A, B
<1>2. IsFiniteSet(A) /\ IsFiniteSet(B)
  <2>1. IsFiniteSet(PositionsOf(d, s))
    BY FiniteKeys
  <2> QED BY <1>1, <2>1, FS_Subset
<1>3. Cardinality(A) \in Nat /\ Cardinality(B) \in Nat
  BY <1>2, FS_CardinalityType
<1>4. Cardinality(A \cup B) = Cardinality(A) + Cardinality(B) - Cardinality(A \cap B)
  BY <1>2, FS_Union
<1>5. Cardinality(A \cap B) = 0
  BY <1>1, FS_EmptySet
<1>6. Cardinality(A \cup B) = Cardinality(A) + Cardinality(B)
  BY <1>3, <1>4, <1>5
<1>7. A = KeysAt(d, s, U) /\ B = KeyAt(d, s, k)
  BY DEF A, B
<1> QED BY <1>1, <1>3, <1>6, <1>7

\* Then they have as many values of it.
LEMMA SameNumber ==
  ASSUME NEW d \in Seq(Trade), NEW e \in Seq(Trade), NEW s, SameCounts(d, e, s)
  PROVE  Cardinality(PositionsOf(d, s)) = Cardinality(PositionsOf(e, s))
<1> DEFINE KD == {d[i].key : i \in PositionsOf(d, s)}
           KE == {e[i].key : i \in PositionsOf(e, s)}
           K  == KD \cup KE
           Same(L) == Cardinality(KeysAt(d, s, L)) = Cardinality(KeysAt(e, s, L))
           Good == {L \in SUBSET K : Same(L)}
<1>1. IsFiniteSet(K) /\ K \subseteq {t.key : t \in Trade}
  <2>1. IsFiniteSet(KD) /\ IsFiniteSet(KE)
        /\ KD \subseteq {t.key : t \in Trade} /\ KE \subseteq {t.key : t \in Trade}
    BY FiniteKeys
  <2> HIDE DEF KD, KE
  <2> QED BY <2>1, FS_Union
<1>2. KeysAt(d, s, K) = PositionsOf(d, s) /\ KeysAt(e, s, K) = PositionsOf(e, s)
  BY DEF KeysAt
<1> HIDE DEF K
<1>3. ASSUME NEW L \in SUBSET K, \A U \in SUBSET L : U # L => U \in Good
      PROVE  L \in Good
  <2>1. CASE L = {}
    <3>1. KeysAt(d, s, L) = {} /\ KeysAt(e, s, L) = {}
      BY <2>1 DEF KeysAt
    <3> QED BY <3>1
  <2>2. CASE L # {}
    <3>1. PICK k \in L : TRUE
      BY <2>2
    <3> DEFINE U == L \ {k}
    <3>2. U \in Good /\ k \notin U /\ L = U \cup {k} /\ k \in K
      BY <1>3, <3>1
    <3>3. Same(U)
      BY <3>2
    <3> HIDE DEF U
    <3>4. Cardinality(KeyAt(d, s, k)) = Cardinality(KeyAt(e, s, k))
      BY <1>1, <3>2 DEF SameCounts
    <3>5. Cardinality(KeysAt(d, s, U \cup {k}))
            = Cardinality(KeysAt(d, s, U)) + Cardinality(KeyAt(d, s, k))
      BY <3>2, KeysAtAdd
    <3>6. Cardinality(KeysAt(e, s, U \cup {k}))
            = Cardinality(KeysAt(e, s, U)) + Cardinality(KeyAt(e, s, k))
      BY <3>2, KeysAtAdd
    <3>7. Same(L)
      BY <3>2, <3>3, <3>4, <3>5, <3>6
    <3> QED BY <3>7
  <2> QED BY <2>1, <2>2
<1>4. SUBSET K \subseteq Good
  <2> HIDE DEF Good
  <2> QED BY <1>1, <1>3, SubsetInduction
<1>5. Same(K)
  <2>1. K \in SUBSET K
    OBVIOUS
  <2> QED BY <1>4, <2>1
<1> QED BY <1>2, <1>5

\* Lists of a symbol that have each key as often are not found different,
\* in whatever order the keys come: a key that is left over in the first
\* list is left over in the second, too.
LEMMA SameKeysAgree ==
  ASSUME NEW d \in Seq(Trade), NEW e \in Seq(Trade), NEW s, SameCounts(d, e, s),
         PositionsOf(d, s) # {}
  PROVE  ~Differs(BySymbol(d, s), BySymbol(e, s))
<1>1. PICK x, y, n : x = BySymbol(d, s) /\ y = BySymbol(e, s) /\ n = Cardinality(PositionsOf(d, s))
  OBVIOUS
<1>2. n = Cardinality(PositionsOf(e, s))
  BY <1>1, SameNumber
<1>3. n \in Nat /\ IsFiniteSet(PositionsOf(d, s)) /\ x \in Seq(Trade) /\ n = Len(x)
  BY <1>1, BySymbolFacts
<1>4. y \in Seq(Trade) /\ n = Len(y)
  BY <1>1, <1>2, BySymbolFacts
<1>5. n # 0
  BY <1>1, <1>3, FS_EmptySet
<1>6. y # <<>>
  BY <1>4, <1>5
<1>7. ASSUME NEW i \in Unmatched(x, y)
      PROVE  \E j \in Unmatched(x, y) : y[j].key = x[i].key
  <2>1. SUFFICES ASSUME \A j \in Unmatched(x, y) : y[j].key # x[i].key
                 PROVE  FALSE
    OBVIOUS
  <2>2. PICK k : k = x[i].key
    OBVIOUS
  <2>0. DOMAIN x = 1 .. n /\ DOMAIN y = 1 .. n
    BY <1>3, <1>4, Places
  <2>3. /\ i \in 1 .. n /\ x[i] \in Trade
        /\ \A j \in 1 .. n : j \in Unmatched(x, y) <=> ~CompareTradeJsonElement(x[j], y[j])
    BY <1>3, <2>0 DEF Unmatched
  <2>4. Cardinality(KeyAt(d, s, k)) = Cardinality(KeyAt(e, s, k))
    BY <2>2, <2>3 DEF SameCounts
  <2>5. /\ IsFiniteSet(KeyIn(x, k))
        /\ Cardinality(KeyIn(x, k)) = Cardinality(KeyAt(d, s, k))
    BY <1>1, KeysCounted
  <2>6. Cardinality(KeyIn(y, k)) = Cardinality(KeyAt(e, s, k))
    BY <1>1, KeysCounted
  <2>7. KeyIn(y, k) \in SUBSET KeyIn(x, k)
    <3>1. ASSUME NEW j \in 1 .. n, y[j].key = k
          PROVE  x[j].key = k
      <4>1. j \notin Unmatched(x, y)
        BY <2>1, <2>2, <3>1
      <4>2. CompareTradeJsonElement(x[j], y[j])
        BY <2>3, <4>1
      <4> QED BY <3>1, <4>2 DEF CompareTradeJsonElement
    <3> QED BY <2>0, <3>1 DEF KeyIn
  <2>8. i \in KeyIn(x, k) /\ i \notin KeyIn(y, k)
    BY <2>0, <2>1, <2>2, <2>3 DEF KeyIn
  <2>9. KeyIn(x, k) = KeyIn(y, k)
    BY <2>4, <2>5, <2>6, <2>7, FS_Subset
  <2> QED BY <2>8, <2>9
<1> QED BY <1>1, <1>6, <1>7 DEF Differs

-----------------------------------------------------------------------------
\* What a query answers.

\* The m entries e of d that follow offset o.
Following(d, o, e, m) ==
  /\ m \in Nat /\ e \in Seq(Trade) /\ m = Len(e) /\ DOMAIN e = 1 .. m
  /\ \A i \in 1 .. m : e[i] = d[o + i]

\* The entries asked for in a turn of r at offset o: those up to o + r, as far
\* as there are that many.
LEMMA EntriesOfTurn ==
  ASSUME NEW d \in Seq(Trade), NEW r \in Nat \ {0}, NEW o \in Nat, NEW e, NEW m,
         o < Len(d), e = DataEntries(d, r, o), m = Lesser(Len(d), o + r) - o
  PROVE  Following(d, o, e, m)
<1>1. PICK n : n = Len(d)
  OBVIOUS
<1>2. n \in Nat /\ o < n /\ \A i \in 1 .. n : d[i] \in Trade
  BY <1>1
<1>3. PICK l : l = Lesser(n, o + r)
  OBVIOUS
<1>4. l \in Nat /\ o < l /\ l <= n /\ m = l - o
  BY <1>1, <1>2, <1>3 DEF Lesser
<1>5. e = SubSeq(d, o + 1, l)
  BY <1>1, <1>3 DEF DataEntries
<1>6. \A i \in o + 1 .. l : d[i] \in Trade
  BY <1>2, <1>4
<1>7. /\ e \in Seq(Trade)
      /\ Len(e) = IF o + 1 <= l THEN l - (o + 1) + 1 ELSE 0
      /\ \A i \in 1 .. l - (o + 1) + 1 : e[i] = d[o + 1 + i - 1]
  <2>1. o + 1 \in Int /\ l \in Int
    BY <1>4
  <2> QED BY <1>5, <1>6, <2>1, SubSeqProperties
<1>8. m \in Nat /\ m = Len(e) /\ l - (o + 1) + 1 = m
  BY <1>4, <1>7
<1>9. DOMAIN e = 1 .. m
  BY <1>7, <1>8, Places
<1>10. \A i \in 1 .. m : o + 1 + i - 1 = o + i
  BY <1>8
<1> QED BY <1>7, <1>8, <1>9, <1>10 DEF Following

\* All of them are asked for with their number as the limit.
LEMMA AllEntries ==
  ASSUME NEW d \in Seq(Trade)
  PROVE  DataEntries(d, Len(d), 0) = d
<1>1. Len(d) \in Nat
  OBVIOUS
<1>2. (IF Len(d) = 0 THEN Len(d) ELSE Lesser(Len(d), 0 + Len(d))) = Len(d)
  BY <1>1 DEF Lesser
<1>3. SubSeq(d, 1, Len(d)) = d
  BY SubSeqFull
<1> QED BY <1>2, <1>3 DEF DataEntries

\* A turn over ordered sources finds what differs between o and o + r; the
\* loop leaves the second source when that has less to give.
LEMMA TurnFinds ==
  ASSUME NEW x \in Seq(Trade), NEW y \in Seq(Trade), NEW r \in Nat \ {0}, NEW o \in Nat,
         NEW n, NEW ex, NEW ey, n = Lesser(Len(x), Len(y)), o < n,
         ex = DataEntries(x, r, o), ey = DataEntries(y, r, o)
  PROVE  /\ (\E i \in DOMAIN ex \cap DOMAIN ey : ~CompareTradeJsonElement(ex[i], ey[i]))
              <=> \E i \in 1 .. n : o < i /\ i <= o + r /\ ~CompareTradeJsonElement(x[i], y[i])
         /\ Len(ex) > Len(ey) => Len(x) > Len(y) /\ Len(y) < o + r
<1>1. PICK lx, ly : lx = Len(x) /\ ly = Len(y)
  OBVIOUS
<1>2. lx \in Nat /\ ly \in Nat /\ o < lx /\ o < ly /\ n \in Nat
      /\ n = IF lx < ly THEN lx ELSE ly
  BY <1>1 DEF Lesser
<1>3. PICK mx, my : mx = Lesser(Len(x), o + r) - o /\ my = Lesser(Len(y), o + r) - o
  OBVIOUS
<1>4. /\ mx \in Nat /\ mx = Len(ex) /\ DOMAIN ex = 1 .. mx
      /\ \A i \in 1 .. mx : ex[i] = x[o + i]
  <2>1. o < Len(x) /\ mx = Lesser(Len(x), o + r) - o
    BY <1>1, <1>2, <1>3
  <2>2. Following(x, o, ex, mx)
    BY <2>1, EntriesOfTurn
  <2> QED BY <2>2 DEF Following
<1>5. /\ my \in Nat /\ my = Len(ey) /\ DOMAIN ey = 1 .. my
      /\ \A i \in 1 .. my : ey[i] = y[o + i]
  <2>1. o < Len(y) /\ my = Lesser(Len(y), o + r) - o
    BY <1>1, <1>2, <1>3
  <2>2. Following(y, o, ey, my)
    BY <2>1, EntriesOfTurn
  <2> QED BY <2>2 DEF Following
<1>6. /\ mx = (IF lx < o + r THEN lx ELSE o + r) - o
      /\ my = (IF ly < o + r THEN ly ELSE o + r) - o
  BY <1>1, <1>3 DEF Lesser
<1>7. ASSUME NEW i \in DOMAIN ex \cap DOMAIN ey, ~CompareTradeJsonElement(ex[i], ey[i])
      PROVE  \E j \in 1 .. n : o < j /\ j <= o + r /\ ~CompareTradeJsonElement(x[j], y[j])
  <2>1. i \in 1 .. mx /\ i \in 1 .. my
    BY <1>4, <1>5
  <2>2. o + i \in 1 .. n /\ o < o + i /\ o + i <= o + r
    BY <1>2, <1>4, <1>5, <1>6, <2>1
  <2>3. ex[i] = x[o + i] /\ ey[i] = y[o + i]
    BY <1>4, <1>5, <2>1
  <2> QED BY <1>7, <2>2, <2>3
<1>8. ASSUME NEW j \in 1 .. n, o < j, j <= o + r, ~CompareTradeJsonElement(x[j], y[j])
      PROVE  \E i \in DOMAIN ex \cap DOMAIN ey : ~CompareTradeJsonElement(ex[i], ey[i])
  <2>1. PICK i : i = j - o
    OBVIOUS
  <2>2. i \in 1 .. mx /\ i \in 1 .. my /\ o + i = j
    BY <1>2, <1>4, <1>5, <1>6, <1>8, <2>1
  <2>3. ex[i] = x[j] /\ ey[i] = y[j]
    BY <1>4, <1>5, <2>2
  <2> QED BY <1>4, <1>5, <1>8, <2>2, <2>3
<1>9. Len(ex) > Len(ey) => Len(x) > Len(y) /\ Len(y) < o + r
  BY <1>1, <1>2, <1>4, <1>5, <1>6
<1> QED BY <1>7, <1>8, <1>9

\* A turn over unordered sources finds the trades between o and o + r that
\* the second source does not have.
LEMMA TurnLooksUp ==
  ASSUME NEW x \in Seq(Trade), NEW y, NEW r \in Nat \ {0}, NEW o \in Nat, NEW ex,
         o < Len(x), ex = DataEntries(x, r, o)
  PROVE  (\E i \in DOMAIN ex : ~Contains(y, ex[i]))
           <=> \E i \in DOMAIN x : o < i /\ i <= o + r /\ ~Contains(y, x[i])
<1>1. PICK n : n = Len(x)
  OBVIOUS
<1>2. n \in Nat /\ o < n /\ DOMAIN x = 1 .. n
  BY <1>1
<1>3. PICK m : m = Lesser(Len(x), o + r) - o
  OBVIOUS
<1>4. m \in Nat /\ DOMAIN ex = 1 .. m /\ \A i \in 1 .. m : ex[i] = x[o + i]
  <2>1. o < Len(x) /\ m = Lesser(Len(x), o + r) - o
    BY <1>1, <1>2, <1>3
  <2>2. Following(x, o, ex, m)
    BY <2>1, EntriesOfTurn
  <2> QED BY <1>2, <2>2 DEF Following
<1>5. m = (IF n < o + r THEN n ELSE o + r) - o
  BY <1>1, <1>3 DEF Lesser
<1>6. ASSUME NEW i \in 1 .. m, ~Contains(y, ex[i])
      PROVE  \E j \in 1 .. n : o < j /\ j <= o + r /\ ~Contains(y, x[j])
  <2>1. o + i \in 1 .. n /\ o < o + i /\ o + i <= o + r
    BY <1>2, <1>4, <1>5
  <2> QED BY <1>4, <1>6, <2>1
<1>7. ASSUME NEW j \in 1 .. n, o < j, j <= o + r, ~Contains(y, x[j])
      PROVE  \E i \in 1 .. m : ~Contains(y, ex[i])
  <2>1. PICK i : i = j - o
    OBVIOUS
  <2>2. i \in 1 .. m /\ o + i = j
    BY <1>2, <1>4, <1>5, <1>7, <2>1
  <2> QED BY <1>4, <1>7, <2>2
<1> QED BY <1>2, <1>4, <1>6, <1>7

\* A last turn of r entries that goes beyond n: n is no multiple of r.
LEMMA TurnsUneven ==
  ASSUME NEW n \in Nat, NEW r \in Nat \ {0}, NEW c \in Nat, NEW o,
         o = c * r, o < n, n < o + r
  PROVE  n % r # 0
<1> SUFFICES ASSUME n % r = 0
             PROVE  FALSE
  OBVIOUS
<1>1. PICK q : q = n \div r
  OBVIOUS
<1>2. q \in Int /\ n = r * q + (n % r)
  BY <1>1
<1>3. n = r * q
  BY <1>2
<1>4. c * r = r * c /\ r * (c + 1) = r * c + r
  OBVIOUS
<1>5. r * c < r * q /\ r * q < r * (c + 1)
  BY <1>3, <1>4
<1>6. c < q
  BY <1>2, <1>5
<1>7. q < c + 1
  BY <1>2, <1>5
<1> QED BY <1>2, <1>6, <1>7

\* The first n entries.
LEMMA FirstEntries ==
  ASSUME NEW d \in Seq(Trade), NEW n \in Nat, NEW p, n <= Len(d), p = Prefix(n, d)
  PROVE  DOMAIN p = 1 .. n /\ \A i \in 1 .. n : p[i] = d[i]
<1>1. \A i \in 1 .. n : d[i] \in Trade
  OBVIOUS
<1>2. p \in Seq(Trade) /\ Len(p) = n /\ \A i \in 1 .. n : p[i] = d[i]
  BY <1>1, SubSeqProperties DEF Prefix
<1> QED BY <1>2, Places

\* Lists of a symbol that are not found different: the second one is there,
\* and as far as both reach it has the keys of the first.
LEMMA NotDifferent ==
  ASSUME NEW x \in Seq(Trade), NEW y \in Seq(Trade), NEW m,
         ~Differs(x, y), x # <<>>, m = Lesser(Len(x), Len(y))
  PROVE  /\ m > 0
         /\ {u.key : u \in ToSet(Prefix(m, x))} \subseteq {u.key : u \in ToSet(Prefix(m, y))}
<1>1. PICK lx, ly : lx = Len(x) /\ ly = Len(y)
  OBVIOUS
<1>2. /\ lx \in Nat \ {0} /\ ly \in Nat \ {0} /\ DOMAIN x = 1 .. lx /\ DOMAIN y = 1 .. ly
      /\ \A i \in 1 .. lx : x[i] \in Trade
      /\ \A i \in 1 .. ly : y[i] \in Trade
  BY <1>1, NonEmptySeq DEF Differs
<1>3. m = IF lx < ly THEN lx ELSE ly
  BY <1>1 DEF Lesser
<1>4. m \in Nat /\ m > 0 /\ m <= lx /\ m <= ly
  BY <1>2, <1>3
<1>5. DOMAIN x \cap DOMAIN y = 1 .. m
  BY <1>2, <1>3
<1>6. PICK p, q : p = Prefix(m, x) /\ q = Prefix(m, y)
  OBVIOUS
<1>7. DOMAIN p = 1 .. m /\ \A i \in 1 .. m : p[i] = x[i]
  BY <1>1, <1>4, <1>6, FirstEntries
<1>8. DOMAIN q = 1 .. m /\ \A i \in 1 .. m : q[i] = y[i]
  BY <1>1, <1>4, <1>6, FirstEntries
<1>9. ASSUME NEW i \in 1 .. m
      PROVE  \E j \in 1 .. m : y[j].key = x[i].key
  <2>1. CASE CompareTradeJsonElement(x[i], y[i])
    BY <2>1 DEF CompareTradeJsonElement
  <2>2. CASE ~CompareTradeJsonElement(x[i], y[i])
    <3>1. Unmatched(x, y) \subseteq 1 .. m /\ i \in Unmatched(x, y)
      BY <1>5, <2>2 DEF Unmatched
    <3>2. {x[j].key : j \in Unmatched(x, y)} \subseteq {y[j].key : j \in Unmatched(x, y)}
      BY DEF Differs
    <3> QED BY <3>1, <3>2
  <2> QED BY <2>1, <2>2
<1>10. ASSUME NEW u \in ToSet(p)
       PROVE  \E v \in ToSet(q) : v.key = u.key
  <2>1. PICK i \in 1 .. m : u = x[i]
    BY <1>7 DEF ToSet
  <2>2. PICK j \in 1 .. m : y[j].key = x[i].key
    BY <1>9
  <2>3. y[j] \in ToSet(q)
    BY <1>8 DEF ToSet
  <2> QED BY <2>1, <2>2, <2>3
<1> QED BY <1>4, <1>6, <1>10

-----------------------------------------------------------------------------
(***************************************************************************)
(* The invariant: as long as no query has failed, the limits are the       *)
(* numbers of trades, the turns have gone as far as offset says, and       *)
(* inconsistency_found says what the part already compared has to say.     *)
(***************************************************************************)

VerifierTypes ==
  /\ a \in Seq(Trade) /\ b \in Seq(Trade) /\ mode \in Mode
  /\ each_turn \in Nat /\ failures \in Nat /\ offset \in Nat
  /\ limits \in Nat \X Nat
  /\ inconsistency_found \in BOOLEAN

\* How far the comparison goes, and the entries of one turn.
Common   == Lesser(Len(a), Len(b))
TurnSize == IF each_turn = 0 THEN Common ELSE Lesser(Common, each_turn)

\* What there is to be found, in each mode, in the part already compared.
PositionDiffers == \E i \in 1 .. Common : i <= offset /\ ~CompareTradeJsonElement(a[i], b[i])
TradeMissing    == \E i \in DOMAIN a : i <= offset /\ ~Contains(b, a[i])
SymbolDiffers   ==
  \E i \in DOMAIN a : /\ a[i].symbol \notin symbols
                      /\ Differs(BySymbol(a, a[i].symbol), BySymbol(b, a[i].symbol))

\* Nothing is found before the comparison.
Begins ==
  phase \in {"start", "load"} => offset = 0 /\ symbols = {} /\ ~inconsistency_found

\* The numbers of trades are known, and not both 0.
Measured ==
  phase \in {"load", "compare", "undefined"} =>
    /\ limits = <<Len(a), Len(b)>>
    /\ ~(Len(a) = 0 /\ Len(b) = 0)
    /\ remaining = Common - offset

\* The turns have the same size.
EvenTurns ==
  phase = "compare" =>
    /\ mode # "ordered by symbol" => symbols = {}
    /\ \E c \in Nat : offset = c * TurnSize

\* The flag says what has been found.
FlagIsTrue ==
  phase = "compare" =>
    /\ mode = "fully ordered" => (inconsistency_found <=> PositionDiffers)
    /\ mode = "unordered" => (inconsistency_found <=> TradeMissing)
    /\ mode = "ordered by symbol" =>
         /\ loaded = <<a, b>> /\ symbols \subseteq {a[i].symbol : i \in DOMAIN a}
         /\ inconsistency_found <=> SymbolDiffers

\* How the reading beyond the end comes about.
OutOfBounds ==
  phase = "undefined" =>
    /\ mode = "fully ordered"
    /\ Len(a) > Len(b) /\ each_turn # 0 /\ Len(b) % each_turn # 0

Progress ==
  failures = 0 => /\ Begins /\ Measured /\ EvenTurns /\ FlagIsTrue /\ OutOfBounds
                  /\ phase = "load" => mode = "ordered by symbol"

VerifierInv ==
  /\ VerifierTypes
  /\ Progress
  /\ verdict = "equal" => phase = "done"
  /\ NoFalseAlarm /\ ComparedPartAgrees

\* The data do not change, nor what they amount to.
LEMMA SourcesKept ==
  UNCHANGED sources =>
    /\ a' = a /\ b' = b /\ mode' = mode /\ each_turn' = each_turn
    /\ Common' = Common /\ TurnSize' = TurnSize /\ SameData' = SameData
<1> SUFFICES ASSUME UNCHANGED sources
             PROVE  /\ a' = a /\ b' = b /\ mode' = mode /\ each_turn' = each_turn
                    /\ Common' = Common /\ TurnSize' = TurnSize /\ SameData' = SameData
  OBVIOUS
<1>1. a' = a /\ b' = b /\ mode' = mode /\ each_turn' = each_turn
  BY DEF sources
<1>2. Common' = Common /\ TurnSize' = TurnSize
  BY <1>1 DEF Common, TurnSize
<1>3. SameData' = SameData
  BY <1>1 DEF SameData, SameKeys
<1> QED BY <1>1, <1>2, <1>3

\* A query that does not fail is answered with what was asked for.
LEMMA QueryFacts ==
  ASSUME NEW right, NEW without, NEW q \in Query(right, without)
  PROVE  /\ q.failed \in {0, 1} /\ q.value \in {right, without}
         /\ q.failed = 0 => q.value = right
BY DEF Query

\* Where no query has failed so far, none has failed in this step.
LEMMA NoneFailed ==
  ASSUME failures \in Nat, NEW m \in Nat, NEW n \in Nat, Fail(m + n)
  PROVE  failures' \in Nat /\ (failures' = 0 => failures = 0 /\ m = 0 /\ n = 0)
BY DEF Fail

\* Entries are trades, whatever limit and offset.
LEMMA EntriesType ==
  ASSUME NEW d \in Seq(Trade), NEW r \in Nat, NEW o \in Nat
  PROVE  DataEntries(d, r, o) \in Seq(Trade)
<1>1. PICK l : l = IF r = 0 THEN Len(d) ELSE Lesser(Len(d), o + r)
  OBVIOUS
<1>2. l \in Nat /\ l <= Len(d)
  BY <1>1 DEF Lesser
<1>3. \A i \in o + 1 .. l : d[i] \in Trade
  BY <1>2
<1>4. SubSeq(d, o + 1, l) \in Seq(Trade)
  <2>1. o + 1 \in Int /\ l \in Int
    BY <1>2
  <2> QED BY <1>3, <2>1, SubSeqProperties
<1> QED BY <1>1, <1>4 DEF DataEntries

\* The sizes are numbers; a turn of the model has TurnSize entries once the
\* limits are those of the sources.
LEMMA Sizes ==
  ASSUME VerifierTypes
  PROVE  /\ Len(a) \in Nat /\ Len(b) \in Nat
         /\ DOMAIN a = 1 .. Len(a) /\ DOMAIN b = 1 .. Len(b)
         /\ Common \in Nat /\ Common <= Len(a) /\ Common <= Len(b)
         /\ Len(a) <= Len(b) => Common = Len(a)
         /\ Len(b) <= Len(a) => Common = Len(b)
         /\ ToRetrieve \in Nat /\ TurnSize \in Nat
         /\ limits = <<Len(a), Len(b)>> => ToRetrieve = TurnSize
         /\ Common > 0 => TurnSize # 0
         /\ TurnSize = Common \/ (TurnSize = each_turn /\ each_turn # 0)
<1>1. /\ Len(a) \in Nat /\ Len(b) \in Nat
      /\ DOMAIN a = 1 .. Len(a) /\ DOMAIN b = 1 .. Len(b)
  BY Places DEF VerifierTypes
<1>2. Common = IF Len(a) < Len(b) THEN Len(a) ELSE Len(b)
  BY DEF Common, Lesser
<1>3. each_turn \in Nat /\ limits[1] \in Nat /\ limits[2] \in Nat
  BY DEF VerifierTypes
<1>4. Common \in Nat /\ Common <= Len(a) /\ Common <= Len(b)
  BY <1>1, <1>2
<1>5. TurnSize = IF each_turn = 0 THEN Common ELSE IF Common < each_turn THEN Common ELSE each_turn
  BY DEF TurnSize, Lesser
<1>6. ToRetrieve \in Nat
  BY <1>3 DEF ToRetrieve, Lesser
<1>7. limits = <<Len(a), Len(b)>> => ToRetrieve = TurnSize
  BY DEF ToRetrieve, TurnSize, Common
<1>8. PICK la, lb, n, t, e : la = Len(a) /\ lb = Len(b) /\ n = Common /\ t = TurnSize
                              /\ e = each_turn
  OBVIOUS
<1>9. /\ la \in Nat /\ lb \in Nat /\ e \in Nat /\ n = IF la < lb THEN la ELSE lb
      /\ t = IF e = 0 THEN n ELSE IF n < e THEN n ELSE e
  BY <1>1, <1>2, <1>3, <1>5, <1>8
<1>10. /\ t \in Nat /\ (n > 0 => t # 0) /\ (t = n \/ (t = e /\ e # 0))
       /\ (la <= lb => n = la) /\ (lb <= la => n = lb)
  BY <1>9
<1> QED BY <1>1, <1>4, <1>6, <1>7, <1>8, <1>10

LEMMA VerifierInit == Init => VerifierInv
<1> SUFFICES ASSUME Init
             PROVE  VerifierInv
  OBVIOUS
<1>1. a \in Seq(Trade) /\ b \in Seq(Trade)
  <2>1. a \in BoundedSeq(Trade, MaxA) /\ b \in BoundedSeq(Trade, MaxB)
    BY DEF Init
  <2> QED BY <2>1 DEF BoundedSeq, SeqOf
<1>2. each_turn \in Nat
  <2>1. each_turn = 0 \/ each_turn \in EachTurn
    BY DEF Init
  <2>2. EachTurn \subseteq Nat
    BY BoundsAssumption
  <2>3. \A e \in EachTurn : e \in Nat
    BY <2>2, Zenon
  <2> QED BY <2>1, <2>3
<1>3. VerifierTypes
  BY <1>1, <1>2 DEF Init, VerifierTypes
<1>4. Progress
  BY DEF Init, Progress, Begins, Measured, EvenTurns, FlagIsTrue, OutOfBounds
<1>5. NoFalseAlarm /\ ComparedPartAgrees /\ verdict # "equal"
  BY DEF Init, NoFalseAlarm, ComparedPartAgrees
<1> QED BY <1>3, <1>4, <1>5 DEF VerifierInv

\* A verdict is there only when the verifier is done, so that a step before
\* it leaves nothing to show about what has been found equal.
LEMMA NotYetEqual ==
  ASSUME VerifierInv, phase # "done", verdict' = verdict \/ verdict' = "different"
  PROVE  verdict' # "equal" /\ ComparedPartAgrees'
<1>1. verdict' # "equal"
  BY DEF VerifierInv
<1> QED BY <1>1 DEF ComparedPartAgrees

LEMMA VerifyEqualityKeeps == VerifierInv /\ VerifyEquality => VerifierInv'
<1> SUFFICES ASSUME VerifierInv, VerifyEquality
             PROVE  VerifierInv'
  OBVIOUS
<1>1. phase = "start" /\ UNCHANGED <<sources, offset, loaded, symbols, inconsistency_found>>
  BY DEF VerifyEquality
<1>2. /\ a' = a /\ b' = b /\ mode' = mode /\ each_turn' = each_turn /\ Common' = Common
      /\ offset' = offset /\ symbols' = symbols /\ inconsistency_found' = inconsistency_found
  <2>1. UNCHANGED sources
    BY <1>1
  <2> QED BY <1>1, <2>1, SourcesKept
<1>3. VerifierTypes /\ Progress
  BY DEF VerifierInv
<1>4. Len(a) \in Nat /\ Len(b) \in Nat
  BY <1>3, Sizes
<1>5. PICK na \in Query(Len(a), 0), nb \in Query(Len(b), 0) :
        /\ Fail(na.failed + nb.failed)
        /\ IF na.value = 0 /\ nb.value = 0
           THEN phase' = "done" /\ verdict' = "different" /\ UNCHANGED <<limits, remaining>>
           ELSE /\ phase' = IF mode = "ordered by symbol" THEN "load" ELSE "compare"
                /\ limits' = <<na.value, nb.value>>
                /\ remaining' = Lesser(na.value, nb.value)
                /\ UNCHANGED verdict
  BY DEF VerifyEquality
<1>6. /\ na.failed \in {0, 1} /\ na.value \in {Len(a), 0} /\ (na.failed = 0 => na.value = Len(a))
      /\ nb.failed \in {0, 1} /\ nb.value \in {Len(b), 0} /\ (nb.failed = 0 => nb.value = Len(b))
  BY QueryFacts
<1>7. /\ failures' \in Nat
      /\ failures' = 0 => failures = 0 /\ na.value = Len(a) /\ nb.value = Len(b)
  <2>1. failures \in Nat /\ na.failed \in Nat /\ nb.failed \in Nat
    BY <1>3, <1>6 DEF VerifierTypes
  <2> QED BY <1>5, <1>6, <2>1, NoneFailed
<1>8. ComparedPartAgrees' /\ verdict' # "equal"
  <2>1. verdict' = verdict \/ verdict' = "different"
    BY <1>5
  <2> QED BY <1>1, <2>1, NotYetEqual
<1>9. VerifierTypes'
  <2>1. limits' \in Nat \X Nat
    <3>1. CASE UNCHANGED limits
      BY <1>3, <3>1 DEF VerifierTypes
    <3>2. CASE limits' = <<na.value, nb.value>>
      BY <1>4, <1>6, <3>2
    <3> QED BY <1>5, <3>1, <3>2
  <2> QED BY <1>2, <1>3, <1>7, <2>1 DEF VerifierTypes
<1>10. CASE na.value = 0 /\ nb.value = 0
  <2>1. phase' = "done" /\ verdict' = "different"
    BY <1>5, <1>10
  <2>2. Progress'
    BY <2>1 DEF Progress, Begins, Measured, EvenTurns, FlagIsTrue, OutOfBounds
  <2>3. failures' = 0 => a' = <<>>
    <3>1. a \in Seq(Trade)
      BY <1>3 DEF VerifierTypes
    <3> QED BY <1>2, <1>7, <1>10, <3>1
  <2>4. NoFalseAlarm'
    BY <2>3 DEF NoFalseAlarm
  <2> QED BY <1>8, <1>9, <2>1, <2>2, <2>4 DEF VerifierInv
<1>11. CASE ~(na.value = 0 /\ nb.value = 0)
  <2>1. /\ phase' = IF mode = "ordered by symbol" THEN "load" ELSE "compare"
        /\ limits' = <<na.value, nb.value>> /\ remaining' = Lesser(na.value, nb.value)
    BY <1>5, <1>11
  <2>2. NoFalseAlarm'
    BY <2>1 DEF NoFalseAlarm
  <2>3. ASSUME failures' = 0
        PROVE  /\ Begins' /\ Measured' /\ EvenTurns' /\ FlagIsTrue' /\ OutOfBounds'
               /\ phase' = "load" => mode' = "ordered by symbol"
    <3>1. failures = 0 /\ na.value = Len(a) /\ nb.value = Len(b)
      BY <1>7, <2>3
    <3>2. offset = 0 /\ symbols = {} /\ ~inconsistency_found
      BY <1>1, <1>3, <3>1 DEF Progress, Begins
    <3>3. Begins'
      BY <1>2, <3>2 DEF Begins
    <3>4. Measured'
      <4>1. remaining' = Common /\ Common - 0 = Common
        <5>1. remaining' = Common
          BY <2>1, <3>1 DEF Common
        <5>2. Common - 0 = Common
          BY <1>3, Sizes
        <5> QED BY <5>1, <5>2
      <4> QED BY <1>2, <1>11, <2>1, <3>1, <3>2, <4>1 DEF Measured
    <3>5. EvenTurns'
      <4>1. 0 = 0 * TurnSize
        BY <1>3, Sizes
      <4>2. TurnSize' = TurnSize
        <5>1. UNCHANGED sources
          BY <1>1
        <5> QED BY <5>1, SourcesKept
      <4>3. \E c \in Nat : offset' = c * TurnSize'
        BY <1>2, <3>2, <4>1, <4>2
      <4> QED BY <1>2, <3>2, <4>3 DEF EvenTurns
    <3>6. FlagIsTrue'
      <4>1. ~PositionDiffers'
        <5>1. \A i \in 1 .. Common : ~(i <= 0)
          BY <1>3, Sizes
        <5> QED BY <1>2, <3>2, <5>1 DEF PositionDiffers
      <4>2. ~TradeMissing'
        <5>1. \A i \in DOMAIN a : ~(i <= 0)
          BY <1>3, Sizes
        <5> QED BY <1>2, <3>2, <5>1 DEF TradeMissing
      <4>3. phase' = "compare" => mode' # "ordered by symbol"
        BY <1>2, <2>1
      <4> QED BY <1>2, <3>2, <4>1, <4>2, <4>3 DEF FlagIsTrue
    <3>7. OutOfBounds' /\ (phase' = "load" => mode' = "ordered by symbol")
      BY <1>2, <2>1 DEF OutOfBounds
    <3> QED BY <3>3, <3>4, <3>5, <3>6, <3>7
  <2>4. Progress'
    BY <2>3 DEF Progress
  <2> QED BY <1>8, <1>9, <2>2, <2>4 DEF VerifierInv
<1> QED BY <1>10, <1>11

\* The numbers of a turn: what remains after it, and where the next begins.
LEMMA TurnRemains ==
  ASSUME NEW n \in Nat, NEW o \in Nat, NEW r \in Nat
  PROVE  (n - o) - r = n - (o + r)
OBVIOUS

LEMMA NextTurnAt ==
  ASSUME NEW r \in Nat, NEW c \in Nat
  PROVE  (c + 1) * r = c * r + r /\ c + 1 \in Nat
OBVIOUS

\* What a turn does when no query has failed, whatever the mode.
LEMMA TurnFacts ==
  VerifierInv /\ phase = "compare" /\ remaining > 0 /\ failures = 0 =>
    /\ ToRetrieve = TurnSize /\ TurnSize \in Nat \ {0} /\ Common \in Nat /\ offset \in Nat
    /\ offset < Common /\ remaining = Common - offset
    /\ \E c \in Nat : offset = c * TurnSize
    /\ limits = <<Len(a), Len(b)>> /\ ~(Len(a) = 0 /\ Len(b) = 0)
<1> SUFFICES ASSUME VerifierInv, phase = "compare", remaining > 0, failures = 0
             PROVE  /\ ToRetrieve = TurnSize /\ TurnSize \in Nat \ {0} /\ Common \in Nat
                    /\ offset \in Nat /\ offset < Common /\ remaining = Common - offset
                    /\ \E c \in Nat : offset = c * TurnSize
                    /\ limits = <<Len(a), Len(b)>> /\ ~(Len(a) = 0 /\ Len(b) = 0)
  OBVIOUS
<1>1. VerifierTypes /\ offset \in Nat
  BY DEF VerifierInv, VerifierTypes
<1>2. /\ limits = <<Len(a), Len(b)>> /\ ~(Len(a) = 0 /\ Len(b) = 0)
      /\ remaining = Common - offset
      /\ \E c \in Nat : offset = c * TurnSize
  BY DEF VerifierInv, Progress, Measured, EvenTurns
<1>3. Common \in Nat /\ TurnSize \in Nat /\ (Common > 0 => TurnSize # 0) /\ ToRetrieve = TurnSize
  BY <1>1, <1>2, Sizes
<1>4. PICK n, o : n = Common /\ o = offset
  OBVIOUS
<1>5. o < n /\ n > 0
  BY <1>1, <1>2, <1>3, <1>4
<1> QED BY <1>1, <1>2, <1>3, <1>4, <1>5

\* What stays true of the turns after one more of them.
LEMMA TurnKeeps ==
  VerifierInv /\ phase = "compare" /\ remaining > 0 /\ failures = 0 /\ NextTurn
    /\ UNCHANGED <<sources, limits, symbols>> /\ phase' \in {"compare", "undefined"}
    /\ mode # "ordered by symbol"
  => Begins' /\ Measured' /\ EvenTurns'
<1> SUFFICES ASSUME VerifierInv, phase = "compare", remaining > 0, failures = 0, NextTurn,
                    UNCHANGED <<sources, limits, symbols>>,
                    phase' \in {"compare", "undefined"}, mode # "ordered by symbol"
             PROVE  Begins' /\ Measured' /\ EvenTurns'
  OBVIOUS
<1>1. /\ ToRetrieve = TurnSize /\ TurnSize \in Nat \ {0} /\ Common \in Nat /\ offset \in Nat
      /\ offset < Common /\ remaining = Common - offset
      /\ \E c \in Nat : offset = c * TurnSize
      /\ limits = <<Len(a), Len(b)>> /\ ~(Len(a) = 0 /\ Len(b) = 0)
  BY TurnFacts
<1>2. UNCHANGED sources
  OBVIOUS
<1>3. /\ a' = a /\ b' = b /\ mode' = mode /\ Common' = Common /\ TurnSize' = TurnSize
      /\ limits' = limits /\ symbols' = symbols
  BY <1>2, SourcesKept
<1>4. PICK n, o, r, c \in Nat :
        n = Common /\ o = offset /\ r = TurnSize /\ o = c * r
  BY <1>1
<1>5. n \in Nat /\ o \in Nat /\ r \in Nat /\ offset' = o + r /\ remaining' = (n - o) - r
  BY <1>1, <1>4 DEF NextTurn
<1>6. remaining' = n - (o + r)
  <2>1. (n - o) - r = n - (o + r)
    BY TurnRemains, Zenon
  <2> QED BY <1>5, <2>1
<1>7. Measured'
  BY <1>1, <1>3, <1>4, <1>5, <1>6 DEF Measured
<1>8. \E d \in Nat : offset' = d * TurnSize'
  <2>1. (c + 1) * r = c * r + r /\ c + 1 \in Nat
    BY NextTurnAt, Zenon
  <2>2. offset' = (c + 1) * r
    BY <1>4, <1>5, <2>1
  <2> QED BY <1>3, <1>4, <2>1, <2>2
<1>9. symbols = {}
  BY DEF VerifierInv, Progress, EvenTurns
<1>10. EvenTurns'
  BY <1>3, <1>8, <1>9 DEF EvenTurns
<1> QED BY <1>7, <1>10 DEF Begins

\* A turn of r entries that leaves a source of n entries behind is no turn
\* over all of them, and the turns do not come out even.
LEMMA BeyondTheEnd ==
  ASSUME NEW n \in Nat, NEW r \in Nat \ {0}, NEW c \in Nat, NEW o, NEW e \in Nat,
         o = c * r, o < n, n < o + r, r = n \/ (r = e /\ e # 0)
  PROVE  e # 0 /\ n % e # 0
<1>1. r # n
  <2> SUFFICES ASSUME r = n
               PROVE  FALSE
    OBVIOUS
  <2>1. c = 0 \/ c >= 1
    OBVIOUS
  <2>2. CASE c = 0
    BY <2>2
  <2>3. CASE c >= 1
    <3>1. PICK d \in Nat : c = d + 1
      <4>1. c - 1 \in Nat /\ c = (c - 1) + 1
        BY <2>3
      <4> QED BY <4>1
    <3>2. c * r = d * r + r /\ d * r \in Nat
      BY <3>1
    <3> QED BY <3>2
  <2> QED BY <2>1, <2>2, <2>3
<1>2. r = e /\ e # 0
  BY <1>1
<1>3. n % r # 0
  BY TurnsUneven
<1> QED BY <1>2, <1>3

LEMMA CompareTurnKeeps == VerifierInv /\ CompareTurn => VerifierInv'
<1> SUFFICES ASSUME VerifierInv, CompareTurn
             PROVE  VerifierInv'
  OBVIOUS
<1>1. /\ phase = "compare" /\ mode = "fully ordered" /\ remaining > 0 /\ NextTurn
      /\ UNCHANGED <<sources, limits, loaded, symbols, verdict>>
  BY DEF CompareTurn
<1>2. UNCHANGED sources
  BY <1>1
<1>3. /\ a' = a /\ b' = b /\ mode' = mode /\ each_turn' = each_turn /\ Common' = Common
      /\ limits' = limits /\ symbols' = symbols /\ loaded' = loaded /\ SameData' = SameData
      /\ verdict' = verdict
  BY <1>1, <1>2, SourcesKept
<1>4. VerifierTypes /\ Progress
  BY DEF VerifierInv
<1>5. ToRetrieve \in Nat /\ offset \in Nat /\ a \in Seq(Trade) /\ b \in Seq(Trade)
  BY <1>4, Sizes DEF VerifierTypes
<1>6. PICK ea \in Query(DataEntries(a, ToRetrieve, offset), <<>>),
           eb \in Query(DataEntries(b, ToRetrieve, offset), <<>>) :
        /\ Fail(ea.failed + eb.failed)
        /\ phase' = IF Len(ea.value) > Len(eb.value) THEN "undefined" ELSE phase
        /\ inconsistency_found' =
             \/ inconsistency_found
             \/ \E i \in DOMAIN ea.value \cap DOMAIN eb.value :
                  ~CompareTradeJsonElement(ea.value[i], eb.value[i])
  BY DEF CompareTurn
<1>7. /\ failures' \in Nat
      /\ failures' = 0 => /\ failures = 0
                          /\ ea.value = DataEntries(a, ToRetrieve, offset)
                          /\ eb.value = DataEntries(b, ToRetrieve, offset)
  <2>1. /\ ea.failed \in {0, 1} /\ (ea.failed = 0 => ea.value = DataEntries(a, ToRetrieve, offset))
        /\ eb.failed \in {0, 1} /\ (eb.failed = 0 => eb.value = DataEntries(b, ToRetrieve, offset))
    BY QueryFacts
  <2>2. failures \in Nat /\ ea.failed \in Nat /\ eb.failed \in Nat
    BY <1>4, <2>1 DEF VerifierTypes
  <2>3. failures' \in Nat /\ (failures' = 0 => failures = 0 /\ ea.failed = 0 /\ eb.failed = 0)
    BY <1>6, <2>2, NoneFailed
  <2> QED BY <2>1, <2>3
<1>8. ComparedPartAgrees' /\ verdict' # "equal"
  BY <1>1, <1>3, NotYetEqual
<1>9. VerifierTypes'
  <2>1. inconsistency_found' \in BOOLEAN
    BY <1>6
  <2>2. offset' \in Nat
    <3>1. PICK o \in Nat, t \in Nat : o = offset /\ t = ToRetrieve
      BY <1>5
    <3>2. offset' = o + t
      BY <1>1, <3>1 DEF NextTurn
    <3> QED BY <3>2
  <2> QED BY <1>3, <1>4, <1>7, <2>1, <2>2 DEF VerifierTypes
<1>10. phase' \in {"compare", "undefined"}
  BY <1>1, <1>6
<1>11. ASSUME failures' = 0
       PROVE  /\ Begins' /\ Measured' /\ EvenTurns' /\ FlagIsTrue' /\ OutOfBounds'
              /\ phase' # "load"
  <2>1. /\ ToRetrieve = TurnSize /\ TurnSize \in Nat \ {0} /\ Common \in Nat /\ offset \in Nat
        /\ offset < Common /\ remaining = Common - offset
        /\ \E c \in Nat : offset = c * TurnSize
    BY <1>1, <1>7, <1>11, TurnFacts
  <2>2. Begins' /\ Measured' /\ EvenTurns'
    BY <1>1, <1>7, <1>10, <1>11, TurnKeeps
  <2>3. PICK o, r, n, x, y : /\ o = offset /\ r = TurnSize /\ n = Common
                             /\ x = ea.value /\ y = eb.value
    OBVIOUS
  <2>4. r \in Nat \ {0} /\ o \in Nat /\ n \in Nat /\ o < n /\ offset' = o + r
    BY <1>1, <2>1, <2>3 DEF NextTurn
  <2>5. /\ (\E i \in DOMAIN x \cap DOMAIN y : ~CompareTradeJsonElement(x[i], y[i]))
             <=> \E i \in 1 .. n : o < i /\ i <= o + r /\ ~CompareTradeJsonElement(a[i], b[i])
        /\ Len(x) > Len(y) => Len(a) > Len(b) /\ Len(b) < o + r
    <3>1. /\ x = DataEntries(a, r, o) /\ y = DataEntries(b, r, o)
          /\ n = Lesser(Len(a), Len(b))
      BY <1>7, <1>11, <2>1, <2>3 DEF Common
    <3> QED BY <1>5, <2>4, <3>1, TurnFinds
  <2>6. inconsistency_found <=> \E i \in 1 .. n : i <= o /\ ~CompareTradeJsonElement(a[i], b[i])
    <3>1. inconsistency_found <=> PositionDiffers
      BY <1>1, <1>4, <1>7, <1>11 DEF Progress, FlagIsTrue
    <3> QED BY <2>3, <3>1 DEF PositionDiffers
  <2>7. inconsistency_found'
          <=> \E i \in 1 .. n : i <= o + r /\ ~CompareTradeJsonElement(a[i], b[i])
    <3>1. \A i \in 1 .. n : i <= o + r <=> i <= o \/ (o < i /\ i <= o + r)
      BY <2>4
    <3>2. inconsistency_found'
            <=> \/ inconsistency_found
                \/ \E i \in DOMAIN x \cap DOMAIN y : ~CompareTradeJsonElement(x[i], y[i])
      BY <1>6, <2>3
    <3> QED BY <2>5, <2>6, <3>1, <3>2
  <2>8. FlagIsTrue'
    <3>1. inconsistency_found' <=> PositionDiffers'
      BY <1>3, <2>3, <2>4, <2>7 DEF PositionDiffers
    <3> QED BY <1>1, <1>3, <3>1 DEF FlagIsTrue
  <2>9. OutOfBounds'
    <3> SUFFICES ASSUME phase' = "undefined"
                 PROVE  Len(a) > Len(b) /\ each_turn # 0 /\ Len(b) % each_turn # 0
      BY <1>1, <1>3 DEF OutOfBounds
    <3>1. Len(a) > Len(b) /\ Len(b) < o + r
      BY <1>1, <1>6, <2>3, <2>5
    <3>2. /\ Len(a) \in Nat /\ Len(b) \in Nat /\ (Len(b) <= Len(a) => Common = Len(b))
          /\ TurnSize = Common \/ (TurnSize = each_turn /\ each_turn # 0)
      BY <1>4, Sizes
    <3>3. n = Len(b)
      BY <2>3, <3>1, <3>2
    <3>4. PICK c \in Nat, e \in Nat : o = c * r /\ e = each_turn
      BY <1>4, <2>1, <2>3 DEF VerifierTypes
    <3>5. n < o + r /\ (r = n \/ (r = e /\ e # 0))
      BY <2>3, <3>1, <3>2, <3>3, <3>4
    <3>6. e # 0 /\ n % e # 0
      BY <2>4, <3>4, <3>5, BeyondTheEnd
    <3> QED BY <3>1, <3>3, <3>4, <3>6
  <2> QED BY <1>10, <2>2, <2>8, <2>9
<1>12. Progress'
  BY <1>11 DEF Progress
<1>13. NoFalseAlarm'
  <2> SUFFICES ASSUME phase' = "undefined", failures' = 0, SameData
               PROVE  FALSE
    BY <1>3, <1>10 DEF NoFalseAlarm
  <2>1. Len(a) > Len(b)
    BY <1>3, <1>11 DEF OutOfBounds
  <2>2. Len(a) = Len(b)
    BY <1>1 DEF SameData
  <2> QED BY <1>4, <2>1, <2>2, Sizes
<1> QED BY <1>8, <1>9, <1>12, <1>13 DEF VerifierInv

LEMMA FindTurnKeeps == VerifierInv /\ FindTurn => VerifierInv'
<1> SUFFICES ASSUME VerifierInv, FindTurn
             PROVE  VerifierInv'
  OBVIOUS
<1>1. /\ phase = "compare" /\ mode = "unordered" /\ remaining > 0 /\ NextTurn
      /\ UNCHANGED <<sources, phase, limits, loaded, symbols, verdict>>
  BY DEF FindTurn
<1>2. UNCHANGED sources
  BY <1>1
<1>3. /\ a' = a /\ b' = b /\ mode' = mode /\ each_turn' = each_turn /\ Common' = Common
      /\ limits' = limits /\ symbols' = symbols /\ loaded' = loaded
      /\ verdict' = verdict /\ phase' = phase
  BY <1>1, <1>2, SourcesKept
<1>4. VerifierTypes /\ Progress
  BY DEF VerifierInv
<1>5. ToRetrieve \in Nat /\ offset \in Nat /\ a \in Seq(Trade)
  BY <1>4, Sizes DEF VerifierTypes
<1>6. PICK ea \in Query(DataEntries(a, ToRetrieve, offset), <<>>) :
        \E unanswered \in SUBSET DOMAIN ea.value :
          /\ Fail(ea.failed + Cardinality(unanswered))
          /\ inconsistency_found' =
               \/ inconsistency_found
               \/ \E i \in DOMAIN ea.value \ unanswered : ~Contains(b, ea.value[i])
  BY DEF FindTurn
<1>7. PICK unanswered \in SUBSET DOMAIN ea.value :
        /\ Fail(ea.failed + Cardinality(unanswered))
        /\ inconsistency_found' =
             \/ inconsistency_found
             \/ \E i \in DOMAIN ea.value \ unanswered : ~Contains(b, ea.value[i])
  BY <1>6
<1>8. /\ failures' \in Nat
      /\ failures' = 0 => /\ failures = 0 /\ unanswered = {}
                          /\ ea.value = DataEntries(a, ToRetrieve, offset)
  <2>1. /\ ea.failed \in {0, 1} /\ ea.value \in {DataEntries(a, ToRetrieve, offset), <<>>}
        /\ ea.failed = 0 => ea.value = DataEntries(a, ToRetrieve, offset)
    BY QueryFacts
  <2>2. ea.value \in Seq(Trade)
    <3>1. DataEntries(a, ToRetrieve, offset) \in Seq(Trade)
      BY <1>5, EntriesType
    <3>2. <<>> \in Seq(Trade)
      OBVIOUS
    <3> QED BY <2>1, <3>1, <3>2
  <2>3. IsFiniteSet(unanswered)
    <3>1. PICK m \in Nat : DOMAIN ea.value = 1 .. m
      BY <2>2, Places
    <3>2. IsFiniteSet(1 .. m)
      BY FS_Interval
    <3> QED BY <1>7, <3>1, <3>2, FS_Subset
  <2>4. Cardinality(unanswered) \in Nat /\ (Cardinality(unanswered) = 0 <=> unanswered = {})
    BY <2>3, FS_CardinalityType, FS_EmptySet
  <2>5. failures \in Nat /\ ea.failed \in Nat
    BY <1>4, <2>1 DEF VerifierTypes
  <2>6. failures' \in Nat
        /\ (failures' = 0 => failures = 0 /\ ea.failed = 0 /\ Cardinality(unanswered) = 0)
    BY <1>7, <2>4, <2>5, NoneFailed
  <2> QED BY <2>1, <2>4, <2>6
<1>9. ComparedPartAgrees' /\ verdict' # "equal"
  BY <1>1, <1>3, NotYetEqual
<1>10. VerifierTypes'
  <2>1. inconsistency_found' \in BOOLEAN
    BY <1>7
  <2>2. offset' \in Nat
    <3>1. PICK o \in Nat, t \in Nat : o = offset /\ t = ToRetrieve
      BY <1>5
    <3>2. offset' = o + t
      BY <1>1, <3>1 DEF NextTurn
    <3> QED BY <3>2
  <2> QED BY <1>3, <1>4, <1>8, <2>1, <2>2 DEF VerifierTypes
<1>11. ASSUME failures' = 0
       PROVE  Begins' /\ Measured' /\ EvenTurns' /\ FlagIsTrue' /\ OutOfBounds' /\ phase' # "load"
  <2>1. /\ ToRetrieve = TurnSize /\ TurnSize \in Nat \ {0} /\ Common \in Nat /\ offset \in Nat
        /\ offset < Common
    BY <1>1, <1>8, <1>11, TurnFacts
  <2>2. Begins' /\ Measured' /\ EvenTurns'
    BY <1>1, <1>3, <1>8, <1>11, TurnKeeps
  <2>3. PICK o, r, n, x, l : /\ o = offset /\ r = TurnSize /\ n = Common
                             /\ x = ea.value /\ l = Len(a)
    OBVIOUS
  <2>4. /\ r \in Nat \ {0} /\ o \in Nat /\ l \in Nat /\ o < l /\ offset' = o + r
        /\ DOMAIN a = 1 .. l
    <3>1. n \in Nat /\ o \in Nat /\ l \in Nat /\ o < n /\ n <= l /\ DOMAIN a = 1 .. l
      BY <1>4, <2>1, <2>3, Sizes
    <3>2. o < l
      BY <3>1
    <3> QED BY <1>1, <2>1, <2>3, <3>1, <3>2 DEF NextTurn
  <2>5. (\E i \in DOMAIN x : ~Contains(b, x[i]))
          <=> \E i \in DOMAIN a : o < i /\ i <= o + r /\ ~Contains(b, a[i])
    <3>1. x = DataEntries(a, r, o) /\ o < Len(a)
      BY <1>8, <1>11, <2>1, <2>3, <2>4
    <3> QED BY <1>5, <2>4, <3>1, TurnLooksUp
  <2>6. inconsistency_found <=> \E i \in DOMAIN a : i <= o /\ ~Contains(b, a[i])
    <3>1. inconsistency_found <=> TradeMissing
      BY <1>1, <1>4, <1>8, <1>11 DEF Progress, FlagIsTrue
    <3> QED BY <2>3, <3>1 DEF TradeMissing
  <2>7. inconsistency_found' <=> \E i \in DOMAIN a : i <= o + r /\ ~Contains(b, a[i])
    <3>1. \A i \in DOMAIN a : i <= o + r <=> i <= o \/ (o < i /\ i <= o + r)
      BY <2>4
    <3>2. inconsistency_found'
            <=> inconsistency_found \/ \E i \in DOMAIN x : ~Contains(b, x[i])
      BY <1>7, <1>8, <1>11, <2>3
    <3> QED BY <2>5, <2>6, <3>1, <3>2
  <2>8. FlagIsTrue'
    <3>1. inconsistency_found' <=> TradeMissing'
      BY <1>3, <2>3, <2>4, <2>7 DEF TradeMissing
    <3> QED BY <1>1, <1>3, <3>1 DEF FlagIsTrue
  <2> QED BY <1>1, <1>3, <2>2, <2>8 DEF OutOfBounds
<1>12. Progress'
  BY <1>11 DEF Progress
<1>13. NoFalseAlarm'
  BY <1>1, <1>3 DEF NoFalseAlarm
<1> QED BY <1>9, <1>10, <1>12, <1>13 DEF VerifierInv

LEMMA LoadKeeps == VerifierInv /\ Load => VerifierInv'
<1> SUFFICES ASSUME VerifierInv, Load
             PROVE  VerifierInv'
  OBVIOUS
<1>1. /\ phase = "load" /\ phase' = "compare"
      /\ UNCHANGED <<sources, limits, turns, inconsistency_found, verdict>>
  BY DEF Load
<1>2. UNCHANGED sources /\ UNCHANGED turns
  BY <1>1
<1>3. /\ a' = a /\ b' = b /\ mode' = mode /\ each_turn' = each_turn /\ Common' = Common
      /\ TurnSize' = TurnSize
      /\ limits' = limits /\ remaining' = remaining /\ offset' = offset
      /\ inconsistency_found' = inconsistency_found /\ verdict' = verdict
  BY <1>1, <1>2, SourcesKept DEF turns
<1>4. VerifierTypes /\ Progress /\ a \in Seq(Trade) /\ b \in Seq(Trade)
  BY DEF VerifierInv, VerifierTypes
<1>5. PICK ea \in Query(DataEntries(a, limits[1], 0), <<>>),
           eb \in Query(DataEntries(b, limits[2], 0), <<>>) :
        /\ Fail(ea.failed + eb.failed)
        /\ loaded' = <<ea.value, eb.value>>
        /\ symbols' = {ea.value[i].symbol : i \in DOMAIN ea.value}
  BY DEF Load
<1>6. /\ failures' \in Nat
      /\ failures' = 0 => /\ failures = 0
                          /\ ea.value = DataEntries(a, limits[1], 0)
                          /\ eb.value = DataEntries(b, limits[2], 0)
  <2>1. /\ ea.failed \in {0, 1} /\ (ea.failed = 0 => ea.value = DataEntries(a, limits[1], 0))
        /\ eb.failed \in {0, 1} /\ (eb.failed = 0 => eb.value = DataEntries(b, limits[2], 0))
    BY QueryFacts
  <2>2. failures \in Nat /\ ea.failed \in Nat /\ eb.failed \in Nat
    BY <1>4, <2>1 DEF VerifierTypes
  <2>3. failures' \in Nat /\ (failures' = 0 => failures = 0 /\ ea.failed = 0 /\ eb.failed = 0)
    BY <1>5, <2>2, NoneFailed
  <2> QED BY <2>1, <2>3
<1>7. ComparedPartAgrees' /\ verdict' # "equal"
  BY <1>1, <1>3, NotYetEqual
<1>8. VerifierTypes'
  BY <1>3, <1>4, <1>6 DEF VerifierTypes
<1>9. ASSUME failures' = 0
      PROVE  Begins' /\ Measured' /\ EvenTurns' /\ FlagIsTrue' /\ OutOfBounds' /\ phase' # "load"
  <2>1. /\ limits = <<Len(a), Len(b)>> /\ ~(Len(a) = 0 /\ Len(b) = 0)
        /\ remaining = Common - offset /\ offset = 0 /\ ~inconsistency_found
        /\ mode = "ordered by symbol"
    BY <1>1, <1>4, <1>6, <1>9 DEF Progress, Begins, Measured
  <2>2. ea.value = a /\ eb.value = b
    <3>1. limits[1] = Len(a) /\ limits[2] = Len(b)
      BY <2>1
    <3>2. DataEntries(a, Len(a), 0) = a /\ DataEntries(b, Len(b), 0) = b
      BY <1>4, AllEntries
    <3> QED BY <1>6, <1>9, <3>1, <3>2
  <2>3. loaded' = <<a', b'>> /\ symbols' = {a'[i].symbol : i \in DOMAIN a'}
    BY <1>3, <1>5, <2>2
  <2>4. Measured'
    BY <1>3, <2>1 DEF Measured
  <2>5. EvenTurns'
    <3>1. 0 = 0 * TurnSize
      BY <1>4, Sizes
    <3>2. \E c \in Nat : offset' = c * TurnSize'
      BY <1>3, <2>1, <3>1
    <3> QED BY <1>3, <2>1, <3>2 DEF EvenTurns
  <2>6. FlagIsTrue'
    <3>1. ~SymbolDiffers'
      BY <2>3 DEF SymbolDiffers
    <3> QED BY <1>3, <2>1, <2>3, <3>1 DEF FlagIsTrue
  <2> QED BY <1>1, <2>4, <2>5, <2>6 DEF Begins, OutOfBounds
<1>10. Progress'
  BY <1>9 DEF Progress
<1>11. NoFalseAlarm'
  BY <1>1 DEF NoFalseAlarm
<1> QED BY <1>7, <1>8, <1>10, <1>11 DEF VerifierInv

LEMMA CompareSymbolKeeps == VerifierInv /\ CompareSymbol => VerifierInv'
<1> SUFFICES ASSUME VerifierInv, CompareSymbol
             PROVE  VerifierInv'
  OBVIOUS
<1>1. /\ phase = "compare" /\ mode = "ordered by symbol"
      /\ UNCHANGED <<sources, phase, limits, turns, loaded, verdict, failures>>
  BY DEF CompareSymbol
<1>2. UNCHANGED sources /\ UNCHANGED turns
  BY <1>1
<1>3. /\ a' = a /\ b' = b /\ mode' = mode /\ each_turn' = each_turn /\ Common' = Common
      /\ TurnSize' = TurnSize
      /\ limits' = limits /\ remaining' = remaining /\ offset' = offset /\ loaded' = loaded
      /\ verdict' = verdict /\ phase' = phase /\ failures' = failures
  BY <1>1, <1>2, SourcesKept DEF turns
<1>4. VerifierTypes /\ Progress
  BY DEF VerifierInv
<1>5. PICK s \in symbols :
        /\ symbols' = symbols \ {s}
        /\ inconsistency_found' =
             (inconsistency_found \/ Differs(BySymbol(loaded[1], s), BySymbol(loaded[2], s)))
  BY DEF CompareSymbol
<1>6. ComparedPartAgrees' /\ verdict' # "equal"
  BY <1>1, <1>3, NotYetEqual
<1>7. VerifierTypes'
  <2>1. inconsistency_found' \in BOOLEAN
    BY <1>5
  <2> QED BY <1>3, <1>4, <2>1 DEF VerifierTypes
<1>8. ASSUME failures' = 0
      PROVE  Begins' /\ Measured' /\ EvenTurns' /\ FlagIsTrue' /\ OutOfBounds' /\ phase' # "load"
  <2>1. /\ Measured /\ (\E c \in Nat : offset = c * TurnSize)
        /\ loaded = <<a, b>> /\ symbols \subseteq {a[i].symbol : i \in DOMAIN a}
        /\ inconsistency_found <=> SymbolDiffers
    BY <1>1, <1>3, <1>4, <1>8 DEF Progress, EvenTurns, FlagIsTrue
  <2>2. inconsistency_found' <=> inconsistency_found \/ Differs(BySymbol(a, s), BySymbol(b, s))
    <3>1. loaded[1] = a /\ loaded[2] = b
      BY <2>1
    <3> QED BY <1>5, <3>1
  <2>3. inconsistency_found' <=> SymbolDiffers'
    <3>1. SymbolDiffers' <=>
            \E i \in DOMAIN a : /\ a[i].symbol \notin symbols \ {s}
                                /\ Differs(BySymbol(a, a[i].symbol), BySymbol(b, a[i].symbol))
      BY <1>3, <1>5 DEF SymbolDiffers
    <3>2. PICK j \in DOMAIN a : a[j].symbol = s
      BY <1>5, <2>1
    <3> QED BY <2>1, <2>2, <3>1, <3>2 DEF SymbolDiffers
  <2>4. FlagIsTrue'
    <3>1. loaded' = <<a', b'>> /\ symbols' \subseteq {a'[i].symbol : i \in DOMAIN a'}
      BY <1>3, <1>5, <2>1
    <3> QED BY <1>1, <1>3, <2>3, <3>1 DEF FlagIsTrue
  <2>5. Measured' /\ EvenTurns'
    BY <1>1, <1>3, <2>1 DEF Measured, EvenTurns
  <2> QED BY <1>1, <1>3, <2>4, <2>5 DEF Begins, OutOfBounds
<1>9. Progress'
  BY <1>8 DEF Progress
<1>10. NoFalseAlarm'
  BY <1>1, <1>3 DEF NoFalseAlarm
<1> QED BY <1>6, <1>7, <1>9, <1>10 DEF VerifierInv

\* The two sources are the same as far as the mode can tell: then nothing is
\* found at the end of the comparison.
LEMMA NothingFound ==
  VerifierInv /\ phase = "compare" /\ failures = 0 /\ (remaining <= 0 \/ mode = "ordered by symbol")
    /\ symbols = {} /\ SameData
  => ~inconsistency_found
<1> SUFFICES ASSUME VerifierInv, phase = "compare", failures = 0, SameData
             PROVE  ~inconsistency_found
  OBVIOUS
<1>1. /\ VerifierTypes /\ FlagIsTrue /\ a \in Seq(Trade) /\ b \in Seq(Trade) /\ mode \in Mode
  BY DEF VerifierInv, Progress, VerifierTypes
<1>2. CASE mode = "fully ordered"
  <2>1. \A i \in DOMAIN a : CompareTradeJsonElement(a[i], b[i])
    BY <1>2 DEF SameData, CompareTradeJsonElement
  <2>2. \A i \in 1 .. Common : i \in DOMAIN a
    BY <1>1, Sizes
  <2>3. ~PositionDiffers
    BY <2>1, <2>2 DEF PositionDiffers
  <2> QED BY <1>1, <1>2, <2>3 DEF FlagIsTrue
<1>3. CASE mode = "unordered"
  <2>1. \A i \in DOMAIN a : Contains(b, a[i])
    <3>1. ToSet(a) \subseteq ToSet(b)
      BY <1>3 DEF SameData
    <3>2. DOMAIN b = 1 .. Len(b)
      BY <1>1, Sizes
    <3> QED BY <3>1, <3>2 DEF ToSet, Contains
  <2>2. ~TradeMissing
    BY <2>1 DEF TradeMissing
  <2> QED BY <1>1, <1>3, <2>2 DEF FlagIsTrue
<1>4. CASE mode = "ordered by symbol"
  <2>1. ASSUME NEW i \in DOMAIN a
        PROVE  ~Differs(BySymbol(a, a[i].symbol), BySymbol(b, a[i].symbol))
    <3>1. PICK s : s = a[i].symbol
      OBVIOUS
    <3>2. a[i] \in Trade /\ i \in PositionsOf(a, s)
      BY <1>1, <2>1, <3>1 DEF PositionsOf
    <3>3. SameKeys(s)
      BY <1>4, <3>1, <3>2 DEF SameData
    <3>4. SameCounts(a, b, s)
      BY <3>3 DEF SameKeys, SameCounts, KeyAt
    <3> QED BY <1>1, <3>1, <3>2, <3>4, SameKeysAgree
  <2>2. ~SymbolDiffers
    BY <2>1 DEF SymbolDiffers
  <2> QED BY <1>1, <1>4, <2>2 DEF FlagIsTrue
<1> QED BY <1>1, <1>2, <1>3, <1>4 DEF Mode

\* Where nothing remains, the turns have reached every position.
LEMMA NothingRemains ==
  ASSUME NEW n \in Nat, NEW o \in Nat, NEW l \in Nat, n - o <= 0, n <= l
  PROVE  \A i \in 1 .. n : i <= o /\ i \in 1 .. l
OBVIOUS

\* Nothing has been found: the sources agree as far as they were compared.
LEMMA FoundEqual ==
  ASSUME VerifierInv, phase = "compare", failures = 0, ~inconsistency_found, symbols = {},
         remaining <= 0 \/ mode = "ordered by symbol"
  PROVE  /\ mode = "fully ordered" =>
              \A i \in 1 .. Common : a[i].symbol = b[i].symbol /\ a[i].key = b[i].key
         /\ mode = "ordered by symbol" =>
              \A t \in ToSet(a) : ~Differs(BySymbol(a, t.symbol), BySymbol(b, t.symbol))
         /\ mode = "unordered" => ToSet(Prefix(Common, a)) \subseteq ToSet(b)
<1>1. /\ VerifierTypes /\ FlagIsTrue /\ a \in Seq(Trade) /\ b \in Seq(Trade) /\ offset \in Nat
      /\ remaining = Common - offset
  BY DEF VerifierInv, Progress, VerifierTypes, Measured
<1>2. Common \in Nat /\ Common <= Len(a) /\ DOMAIN a = 1 .. Len(a) /\ DOMAIN b = 1 .. Len(b)
      /\ Len(a) \in Nat
  BY <1>1, Sizes
<1>3. mode # "ordered by symbol" => \A i \in 1 .. Common : i <= offset /\ i \in DOMAIN a
  <2> SUFFICES ASSUME remaining <= 0
               PROVE  \A i \in 1 .. Common : i <= offset /\ i \in DOMAIN a
    OBVIOUS
  <2>1. PICK n \in Nat, o \in Nat, l \in Nat : n = Common /\ o = offset /\ l = Len(a)
    BY <1>1, <1>2
  <2>2. n - o <= 0 /\ n <= l
    BY <1>1, <1>2, <2>1
  <2>3. \A i \in 1 .. n : i <= o /\ i \in 1 .. l
    BY <2>2, NothingRemains
  <2> QED BY <1>2, <2>1, <2>3
<1>4. ASSUME mode = "fully ordered", NEW i \in 1 .. Common
      PROVE  a[i].symbol = b[i].symbol /\ a[i].key = b[i].key
  <2>1. CompareTradeJsonElement(a[i], b[i])
    BY <1>1, <1>3, <1>4 DEF FlagIsTrue, PositionDiffers
  <2> QED BY <2>1 DEF CompareTradeJsonElement
<1>5. ASSUME mode = "ordered by symbol", NEW t \in ToSet(a)
      PROVE  ~Differs(BySymbol(a, t.symbol), BySymbol(b, t.symbol))
  <2>1. PICK i \in DOMAIN a : a[i] = t
    BY DEF ToSet
  <2>2. ~SymbolDiffers
    BY <1>1, <1>5 DEF FlagIsTrue
  <2> QED BY <2>1, <2>2 DEF SymbolDiffers
<1>6. ASSUME mode = "unordered"
      PROVE  ToSet(Prefix(Common, a)) \subseteq ToSet(b)
  <2>1. PICK n \in Nat : n = Common
    BY <1>2
  <2>2. PICK p : p = Prefix(n, a)
    OBVIOUS
  <2>3. DOMAIN p = 1 .. n /\ \A i \in 1 .. n : p[i] = a[i]
    <3>1. n <= Len(a)
      BY <1>2, <2>1
    <3> QED BY <1>1, <2>2, <3>1, FirstEntries
  <2>4. ~TradeMissing
    BY <1>1, <1>6 DEF FlagIsTrue
  <2>5. \A i \in 1 .. n : Contains(b, a[i])
    BY <1>3, <1>6, <2>1, <2>4 DEF TradeMissing
  <2> QED BY <1>2, <2>1, <2>2, <2>3, <2>5 DEF ToSet, Contains
<1> QED BY <1>4, <1>5, <1>6

LEMMA ReturnKeeps == VerifierInv /\ Return => VerifierInv'
<1> SUFFICES ASSUME VerifierInv, Return
             PROVE  VerifierInv'
  OBVIOUS
<1>1. /\ phase = "compare" /\ (remaining <= 0 \/ mode = "ordered by symbol") /\ symbols = {}
      /\ phase' = "done" /\ verdict' = IF inconsistency_found THEN "different" ELSE "equal"
      /\ UNCHANGED <<sources, limits, turns, loaded, symbols, inconsistency_found, failures>>
  BY DEF Return
<1>2. UNCHANGED sources /\ UNCHANGED turns
  BY <1>1
<1>3. /\ a' = a /\ b' = b /\ mode' = mode /\ each_turn' = each_turn /\ SameData' = SameData
      /\ limits' = limits /\ offset' = offset
      /\ inconsistency_found' = inconsistency_found /\ failures' = failures
  BY <1>1, <1>2, SourcesKept DEF turns
<1>4. VerifierTypes'
  BY <1>3 DEF VerifierInv, VerifierTypes
<1>5. Progress'
  BY <1>1 DEF Progress, Begins, Measured, EvenTurns, FlagIsTrue, OutOfBounds
<1>6. NoFalseAlarm'
  <2> SUFFICES ASSUME failures = 0, SameData
               PROVE  verdict' = "equal"
    BY <1>3 DEF NoFalseAlarm
  <2> QED BY <1>1, NothingFound
<1>7. ComparedPartAgrees'
  <2>1. CASE failures # 0 \/ inconsistency_found
    <3>1. ~(verdict' = "equal" /\ failures' = 0)
      BY <1>1, <1>3, <2>1
    <3> QED BY <3>1 DEF ComparedPartAgrees
  <2>2. CASE failures = 0 /\ ~inconsistency_found
    <3>1. /\ mode = "fully ordered" =>
               \A i \in 1 .. Common : a[i].symbol = b[i].symbol /\ a[i].key = b[i].key
          /\ mode = "ordered by symbol" =>
               \A t \in ToSet(a) : ~Differs(BySymbol(a, t.symbol), BySymbol(b, t.symbol))
          /\ mode = "unordered" => ToSet(Prefix(Common, a)) \subseteq ToSet(b)
      BY <1>1, <2>2, FoundEqual
    <3>2. a \in Seq(Trade) /\ b \in Seq(Trade) /\ mode \in Mode
      BY DEF VerifierInv, VerifierTypes
    <3>3. CASE mode = "fully ordered"
      BY <1>3, <3>1, <3>3 DEF ComparedPartAgrees, Common
    <3>4. CASE mode = "unordered"
      BY <1>3, <3>1, <3>4 DEF ComparedPartAgrees, Common
    <3>5. CASE mode = "ordered by symbol"
      <4>1. ASSUME NEW t \in ToSet(a), NEW x, NEW y, NEW m,
                   x = BySymbol(a, t.symbol), y = BySymbol(b, t.symbol),
                   m = Lesser(Len(x), Len(y))
            PROVE  /\ m > 0
                   /\ {u.key : u \in ToSet(Prefix(m, x))}
                        \subseteq {u.key : u \in ToSet(Prefix(m, y))}
        <5>1. PICK i \in DOMAIN a : t = a[i]
          BY DEF ToSet
        <5>2. PICK s, n, k : /\ s = t.symbol /\ n = Cardinality(PositionsOf(a, s))
                             /\ k = Cardinality(PositionsOf(b, s))
          OBVIOUS
        <5>3. /\ n \in Nat /\ IsFiniteSet(PositionsOf(a, s)) /\ x \in Seq(Trade) /\ n = Len(x)
          BY <3>2, <4>1, <5>2, BySymbolFacts
        <5>4. y \in Seq(Trade)
          BY <3>2, <4>1, <5>2, BySymbolFacts
        <5>5. i \in PositionsOf(a, s)
          BY <5>1, <5>2 DEF PositionsOf
        <5>6. n # 0
          BY <5>2, <5>3, <5>5, FS_EmptySet
        <5>7. x # <<>>
          BY <5>3, <5>6
        <5>8. ~Differs(x, y)
          BY <3>1, <3>5, <4>1
        <5> QED BY <4>1, <5>3, <5>4, <5>7, <5>8, NotDifferent
      <4>2. \A t \in ToSet(a) :
              LET x == BySymbol(a, t.symbol)
                  y == BySymbol(b, t.symbol)
                  m == Lesser(Len(x), Len(y))
              IN /\ m > 0
                 /\ {u.key : u \in ToSet(Prefix(m, x))}
                      \subseteq {u.key : u \in ToSet(Prefix(m, y))}
        BY <4>1
      <4> QED BY <1>3, <3>5, <4>2 DEF ComparedPartAgrees
    <3> QED BY <3>2, <3>3, <3>4, <3>5 DEF Mode
  <2> QED BY <2>1, <2>2
<1> QED BY <1>1, <1>4, <1>5, <1>6, <1>7 DEF VerifierInv

LEMMA NothingKeepsVerifier == VerifierInv /\ UNCHANGED vars => VerifierInv'
<1> SUFFICES ASSUME VerifierInv, UNCHANGED vars
             PROVE  VerifierInv'
  OBVIOUS
<1>1. UNCHANGED sources /\ UNCHANGED turns
  BY DEF vars
<1>2. /\ a' = a /\ b' = b /\ mode' = mode /\ each_turn' = each_turn /\ Common' = Common
      /\ TurnSize' = TurnSize /\ SameData' = SameData
  BY <1>1, SourcesKept
<1>3. /\ phase' = phase /\ limits' = limits /\ remaining' = remaining /\ offset' = offset
      /\ loaded' = loaded /\ symbols' = symbols /\ verdict' = verdict /\ failures' = failures
      /\ inconsistency_found' = inconsistency_found
  BY <1>1 DEF vars, turns
<1>4. VerifierTypes'
  BY <1>2, <1>3 DEF VerifierInv, VerifierTypes
<1>5. /\ PositionDiffers' = PositionDiffers /\ TradeMissing' = TradeMissing
      /\ SymbolDiffers' = SymbolDiffers
  BY <1>2, <1>3 DEF PositionDiffers, TradeMissing, SymbolDiffers
<1>6. Begins' = Begins /\ Measured' = Measured /\ EvenTurns' = EvenTurns
  BY <1>2, <1>3 DEF Begins, Measured, EvenTurns
<1>7. FlagIsTrue' = FlagIsTrue /\ OutOfBounds' = OutOfBounds
  BY <1>2, <1>3, <1>5 DEF FlagIsTrue, OutOfBounds
<1>8. Progress'
  BY <1>2, <1>3, <1>6, <1>7 DEF VerifierInv, Progress
<1>9. NoFalseAlarm'
  BY <1>2, <1>3 DEF VerifierInv, NoFalseAlarm
<1>10. ComparedPartAgrees'
  BY <1>2, <1>3 DEF VerifierInv, ComparedPartAgrees
<1> QED BY <1>3, <1>4, <1>8, <1>9, <1>10 DEF VerifierInv

LEMMA VerifierInvariant == Spec => []VerifierInv
<1>1. Init => VerifierInv
  BY VerifierInit
<1>2. VerifierInv /\ [Next]_vars => VerifierInv'
  BY VerifyEqualityKeeps, CompareTurnKeeps, FindTurnKeeps, LoadKeeps, CompareSymbolKeeps,
     ReturnKeeps, NothingKeepsVerifier DEF Next
<1> QED BY <1>1, <1>2, PTL DEF Spec

-----------------------------------------------------------------------------
\* Data that are the same, in the sense of the mode, are found equal when no
\* query fails: whatever the size of the turns, and in whatever order the
\* trades of a symbol come where the order does not count.
THEOREM SameIsEqual == Spec => []NoFalseAlarm
<1>1. VerifierInv => NoFalseAlarm
  BY DEF VerifierInv
<1> QED BY <1>1, VerifierInvariant, PTL

\* Data found equal agree as far as they have been compared: the turns leave
\* nothing out between the first trade and the end of the shorter source.
THEOREM EqualAgrees == Spec => []ComparedPartAgrees
<1>1. VerifierInv => ComparedPartAgrees
  BY DEF VerifierInv
<1> QED BY <1>1, VerifierInvariant, PTL

\* The second source is read past its end only when it is the shorter one and
\* its entries do not fill the last turn.
THEOREM OutOfBoundsOnlyUneven == Spec => []ReadsInBounds
<1>1. VerifierInv => ReadsInBounds
  BY DEF VerifierInv, Progress, OutOfBounds, ReadsInBounds
<1> QED BY <1>1, VerifierInvariant, PTL
=============================================================================
