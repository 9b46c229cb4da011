-------------------------- MODULE MatchActorProofs --------------------------
(***************************************************************************)
(* Proofs about MatchActor, for every set of prices and amounts and for    *)
(* any number of orders.                                                   *)
(***************************************************************************)
EXTENDS MatchActor, DataLemmas

-----------------------------------------------------------------------------
(* One trade.                                                              *)

\* The amount of a trade is within both orders, and empties one of them.
LEMMA TradeAmountFacts ==
  ASSUME NEW m \in Order, NEW t \in Order
  PROVE  /\ TradeAmount(m, t) \in Nat
         /\ TradeAmount(m, t) <= m.amount
         /\ TradeAmount(m, t) <= t.amount
         /\ TradeAmount(m, t) = m.amount \/ TradeAmount(m, t) = t.amount
BY DEF TradeAmount, Order

\* A remainder is an order that differs in its amount only.
LEMMA RemainderFacts ==
  ASSUME NEW o \in Order, NEW n \in Nat, n <= o.amount
  PROVE  /\ Remainder(o, n) \in Order
         /\ Remainder(o, n).id = o.id
         /\ Remainder(o, n).side = o.side
         /\ Remainder(o, n).price = o.price
         /\ Remainder(o, n).amount = o.amount - n
BY DEF Remainder, Order

\* A trade of two orders is a trade.
LEMMA MakeTradeType ==
  ASSUME NEW m \in Order, NEW t \in Order
  PROVE  MakeTrade(m, t) \in Trade
BY TradeAmountFacts DEF MakeTrade, Order, Trade

LEMMA SideFacts ==
  ASSUME NEW s \in Side
  PROVE  Opposite(s) \in Side /\ Opposite(s) # s
BY DEF Side, Opposite

-----------------------------------------------------------------------------
(* The operations on a table: what they do to each level.                  *)

Table == Seq(Seq(Order))

\* A table whose levels all hold an order.
NoEmptyLevel(t) == \A i \in DOMAIN t : t[i] # <<>>

\* A non-empty table has a front order.
LEMMA FrontFacts ==
  ASSUME NEW t \in Table, t # <<>>, NoEmptyLevel(t)
  PROVE  /\ Len(t) \in Nat \ {0} /\ DOMAIN t = 1 .. Len(t)
         /\ Head(t) = t[1] /\ t[1] \in Seq(Order)
         /\ Len(t[1]) \in Nat \ {0} /\ DOMAIN t[1] = 1 .. Len(t[1])
         /\ Head(Head(t)) = t[1][1] /\ t[1][1] \in Order
<1>1. /\ Len(t) \in Nat \ {0} /\ DOMAIN t = 1 .. Len(t)
      /\ Head(t) = t[1] /\ t[1] \in Seq(Order)
  BY NonEmptySeq DEF Table
<1>2. t[1] # <<>>
  BY <1>1 DEF NoEmptyLevel
<1> QED BY <1>1, <1>2, NonEmptySeq

\* The tail of a sequence, element by element.
LEMMA TailFacts ==
  ASSUME NEW S, NEW q \in Seq(S), NEW n \in Nat \ {0}, n = Len(q),
         NEW r, r = Tail(q)
  PROVE  /\ r \in Seq(S) /\ n - 1 = Len(r)
         /\ \A i \in 1 .. n - 1 : r[i] = q[i + 1]
BY HeadTailProperties

LEMMA PositiveFacts ==
  ASSUME NEW n \in Nat \ {0}
  PROVE  n = 1 \/ n > 1
OBVIOUS

\* Table r is table t, of N levels, the first of M orders, without its first
\* level, without the first order of that level, or with n less in that order.
LevelGone(r, t, N, M, n) ==
  /\ t[1][1].amount = n
  /\ M = 1
  /\ N - 1 = Len(r)
  /\ \A i \in 1 .. N - 1 : r[i] = t[i + 1]

OrderGone(r, t, N, M, n) ==
  /\ t[1][1].amount = n
  /\ M > 1
  /\ N = Len(r)
  /\ M - 1 = Len(r[1])
  /\ \A j \in 1 .. M - 1 : r[1][j] = t[1][j + 1]
  /\ \A i \in 2 .. N : r[i] = t[i]

OrderReduced(r, t, N, M, n) ==
  /\ t[1][1].amount # n
  /\ N = Len(r)
  /\ M = Len(r[1])
  /\ r[1][1] = Remainder(t[1][1], n)
  /\ \A j \in 2 .. M : r[1][j] = t[1][j]
  /\ \A i \in 2 .. N : r[i] = t[i]

\* After a trade the table has lost its first level, or that level its first
\* order, or that order a part of its amount; the rest is as it was.
LEMMA AfterTradeFacts ==
  ASSUME NEW t \in Table, t # <<>>, NoEmptyLevel(t),
         NEW N \in Nat, N = Len(t), NEW M \in Nat, M = Len(t[1]),
         NEW n \in Nat, n <= t[1][1].amount,
         NEW r, r = AfterTrade(t, n)
  PROVE  /\ r \in Table
         /\ \/ LevelGone(r, t, N, M, n)
            \/ OrderGone(r, t, N, M, n)
            \/ OrderReduced(r, t, N, M, n)
<1>1. /\ N \in Nat \ {0} /\ M \in Nat \ {0} /\ 1 <= N /\ 1 <= M
      /\ Head(t) = t[1] /\ t[1] \in Seq(Order)
      /\ Head(Head(t)) = t[1][1] /\ t[1][1] \in Order
  BY FrontFacts
<1>0. M = 1 \/ M > 1
  BY <1>1, PositiveFacts
<1>2. CASE t[1][1].amount = n /\ M = 1
  <2>1. r = Tail(t)
    BY <1>1, <1>2 DEF AfterTrade, WithoutFront
  <2>2. r \in Table /\ N - 1 = Len(r) /\ \A i \in 1 .. N - 1 : r[i] = t[i + 1]
    BY <1>1, <2>1, TailFacts DEF Table
  <2> QED BY <1>1, <1>2, <2>2 DEF LevelGone
<1>3. CASE t[1][1].amount = n /\ M > 1
  <2> DEFINE l == Tail(t[1])
  <2>1. r = [t EXCEPT ![1] = l]
    BY <1>1, <1>3 DEF AfterTrade, WithoutFront
  <2>2. l \in Seq(Order) /\ M - 1 = Len(l) /\ \A j \in 1 .. M - 1 : l[j] = t[1][j + 1]
    BY <1>1, TailFacts
  <2> HIDE DEF l
  <2>3. r \in Table /\ N = Len(r) /\ l = r[1] /\ \A i \in 2 .. N : r[i] = t[i]
    BY <1>1, <2>1, <2>2, ExceptSeq DEF Table
  <2> QED BY <1>1, <1>3, <2>2, <2>3 DEF OrderGone
<1>4. CASE t[1][1].amount # n
  <2> DEFINE l == [t[1] EXCEPT ![1] = Remainder(t[1][1], n)]
  <2>1. r = [t EXCEPT ![1] = l]
    BY <1>1, <1>4 DEF AfterTrade
  <2>2. /\ l \in Seq(Order) /\ M = Len(l)
        /\ l[1] = Remainder(t[1][1], n)
        /\ \A j \in 2 .. M : l[j] = t[1][j]
    BY <1>1, ExceptSeq, RemainderFacts
  <2> HIDE DEF l
  <2>3. r \in Table /\ N = Len(r) /\ l = r[1] /\ \A i \in 2 .. N : r[i] = t[i]
    BY <1>1, <2>1, <2>2, ExceptSeq DEF Table
  <2> QED BY <1>1, <1>4, <2>2, <2>3 DEF OrderReduced
<1> QED BY <1>0, <1>2, <1>3, <1>4

\* Table r is table t, of N levels, with order o last in its level k, or with
\* a new level k that holds o alone.
JoinsLevel(r, t, N, k, o) ==
  /\ k \in 1 .. N /\ o.price = t[k][1].price
  /\ N = Len(r)
  /\ r[k] = Append(t[k], o)
  /\ \A i \in 1 .. N : i # k => r[i] = t[i]

OpensLevel(r, t, N, k, o) ==
  /\ k <= N => o.price # t[k][1].price
  /\ N + 1 = Len(r)
  /\ r[k] = <<o>>
  /\ \A i \in 1 .. N : i < k => r[i] = t[i]
  /\ \A i \in 1 .. N : i >= k => r[i + 1] = t[i]

\* The order ends up last in the level of its price, or alone in a level
\* between those before its place and those from it on.
LEMMA AddToOrderTableFacts ==
  ASSUME NEW t \in Table, NoEmptyLevel(t), NEW o \in Order,
         NEW N \in Nat, N = Len(t), NEW k \in 1 .. N + 1,
         NEW r, r = AddToOrderTable(t, o, k)
  PROVE  /\ r \in Table
         /\ JoinsLevel(r, t, N, k, o) \/ OpensLevel(r, t, N, k, o)
<1>1. ASSUME NEW i \in 1 .. N
      PROVE  t[i] \in Seq(Order) /\ Head(t[i]) = t[i][1]
  <2>1. t[i] \in Seq(Order) /\ t[i] # <<>>
    BY ElementOfSeq DEF Table, NoEmptyLevel
  <2> QED BY <2>1, NonEmptySeq
<1>2. CASE k <= N /\ o.price = t[k][1].price
  <2> DEFINE l == Append(t[k], o)
  <2>1. r = [t EXCEPT ![k] = l]
    BY <1>1, <1>2 DEF AddToOrderTable
  <2>2. l \in Seq(Order) /\ k \in 1 .. N
    BY <1>1, <1>2, AppendProperties
  <2> HIDE DEF l
  <2>3. r \in Table /\ N = Len(r) /\ r[k] = l /\ \A i \in 1 .. N : i # k => r[i] = t[i]
    BY <2>1, <2>2, ExceptSeq DEF Table
  <2> QED BY <1>2, <2>2, <2>3 DEF l, JoinsLevel
<1>3. CASE ~(k <= N /\ o.price = t[k][1].price)
  <2> DEFINE Level == Seq(Order)
             l == <<o>>
  <2>1. r = InsertAt(t, k, l)
    BY <1>1, <1>3 DEF AddToOrderTable
  <2>2. t \in Seq(Level) /\ l \in Level
    BY DEF Table
  <2> HIDE DEF Level, l
  <2>3. r \in Seq(Level) /\ N + 1 = Len(r) /\ r = Inserted(t, N, k, l)
    BY <2>1, <2>2, InsertAtFacts
  <2>4. /\ r[k] = l
        /\ \A i \in 1 .. N : i < k => r[i] = t[i]
        /\ \A i \in 1 .. N : i >= k => r[i + 1] = t[i]
    BY <2>3 DEF Inserted
  <2>5. r[k] = <<o>> /\ r \in Table
    BY <2>3, <2>4 DEF l, Level, Table
  <2> QED BY <1>3, <2>3, <2>4, <2>5 DEF OpensLevel
<1> QED BY <1>2, <1>3

-----------------------------------------------------------------------------
(* The order of a table is kept by both operations.                        *)

\* A table of one side: what LevelsWellFormed, BestPriceFirst and
\* EarliestFirst say of it.
WellFormed(t, s) ==
  \A i \in DOMAIN t :
    /\ t[i] # <<>>
    /\ \A j \in DOMAIN t[i] :
         /\ t[i][j].side = s
         /\ t[i][j].price = t[i][1].price
         /\ t[i][j].amount > 0

PricesSorted(t, s) ==
  \A i, j \in DOMAIN t : i < j => Better(s, t[i][1].price, t[j][1].price)

ArrivalsSorted(t) ==
  \A k \in DOMAIN t : \A i, j \in DOMAIN t[k] : i < j => t[k][i].id < t[k][j].id

Sorted(t, s) == WellFormed(t, s) /\ PricesSorted(t, s) /\ ArrivalsSorted(t)

LEMMA DomainFacts ==
  ASSUME NEW t \in Table
  PROVE  /\ Len(t) \in Nat /\ DOMAIN t = 1 .. Len(t)
         /\ \A i \in DOMAIN t : /\ t[i] \in Seq(Order)
                               /\ Len(t[i]) \in Nat /\ DOMAIN t[i] = 1 .. Len(t[i])
                               /\ \A j \in DOMAIN t[i] : t[i][j] \in Order
<1>1. Len(t) \in Nat /\ DOMAIN t = 1 .. Len(t)
  BY DEF Table
<1>2. ASSUME NEW i \in DOMAIN t PROVE t[i] \in Seq(Order)
  BY ElementOfSeq, <1>1 DEF Table
<1>3. ASSUME NEW l \in Seq(Order)
      PROVE  Len(l) \in Nat /\ DOMAIN l = 1 .. Len(l) /\ \A j \in DOMAIN l : l[j] \in Order
  OBVIOUS
<1> QED BY <1>1, <1>2, <1>3

\* Nothing in table r is new to table t: every level of r has the price of a
\* level of t, and every order of r is one of t, up to its amount.
ComesFrom(r, t) ==
  \A i \in DOMAIN r : \E u \in DOMAIN t :
    /\ r[i][1].price = t[u][1].price
    /\ \A j \in DOMAIN r[i] : \E v \in DOMAIN t[u] : r[i][j].id = t[u][v].id

\* A trade with the front order leaves a sorted table sorted.
LEMMA TradeKeepsTable ==
  ASSUME NEW s \in Side, NEW t \in Table, t # <<>>, Sorted(t, s),
         NEW n \in Nat, n <= t[1][1].amount,
         NEW r, r = AfterTrade(t, n)
  PROVE  r \in Table /\ Sorted(r, s) /\ ComesFrom(r, t)
<1> DEFINE N == Len(t)
           M == Len(t[1])
<1>1. NoEmptyLevel(t)
  BY DEF NoEmptyLevel, Sorted, WellFormed
<1>2. /\ N \in Nat \ {0} /\ DOMAIN t = 1 .. N
      /\ M \in Nat \ {0} /\ DOMAIN t[1] = 1 .. M
      /\ t[1][1] \in Order /\ t[1] \in Seq(Order)
  BY <1>1, FrontFacts
<1>3. \A i \in 1 .. N : t[i] \in Seq(Order) /\ DOMAIN t[i] = 1 .. Len(t[i]) /\ Len(t[i]) \in Nat
  BY <1>2, DomainFacts
<1>4. /\ r \in Table
      /\ \/ LevelGone(r, t, N, M, n)
         \/ OrderGone(r, t, N, M, n)
         \/ OrderReduced(r, t, N, M, n)
  BY <1>1, <1>2, AfterTradeFacts
<1>5. DOMAIN r = 1 .. Len(r)
  BY <1>4, DomainFacts
<1>6. \A i \in 1 .. Len(r) : DOMAIN r[i] = 1 .. Len(r[i])
  BY <1>4, <1>5, DomainFacts
<1> HIDE DEF N, M
<1>7. CASE LevelGone(r, t, N, M, n)
  <2>1. \A i \in DOMAIN r : i + 1 \in DOMAIN t /\ r[i] = t[i + 1] /\ i \in Nat
    BY <1>2, <1>5, <1>7 DEF LevelGone
  <2>2. WellFormed(r, s)
    BY <2>1 DEF Sorted, WellFormed
  <2>3. PricesSorted(r, s)
    <3> SUFFICES ASSUME NEW i \in DOMAIN r, NEW j \in DOMAIN r, i < j
                 PROVE  Better(s, r[i][1].price, r[j][1].price)
      BY DEF PricesSorted
    <3>1. i + 1 < j + 1
      BY <2>1
    <3> QED BY <2>1, <3>1 DEF Sorted, PricesSorted
  <2>4. ArrivalsSorted(r)
    BY <2>1 DEF Sorted, ArrivalsSorted
  <2>5. ComesFrom(r, t)
    BY <2>1, <2>2 DEF ComesFrom, WellFormed
  <2> QED BY <1>4, <2>2, <2>3, <2>4, <2>5 DEF Sorted
<1>8. CASE OrderGone(r, t, N, M, n)
  <2>1. /\ DOMAIN r = DOMAIN t /\ 1 \in DOMAIN t
        /\ DOMAIN r[1] = 1 .. M - 1
        /\ \A i \in DOMAIN r : i \in Nat /\ (i # 1 => r[i] = t[i])
    BY <1>2, <1>5, <1>6, <1>8 DEF OrderGone
  <2>2. \A j \in DOMAIN r[1] : j + 1 \in DOMAIN t[1] /\ r[1][j] = t[1][j + 1] /\ j \in Nat
    BY <1>2, <1>8, <2>1 DEF OrderGone
  <2>3. /\ 1 \in DOMAIN r[1] /\ 1 + 1 \in DOMAIN t[1] /\ r[1][1] = t[1][1 + 1]
        /\ r[1][1].price = t[1][1].price
    <3>1. 1 \in 1 .. M - 1
      BY <1>2, <1>8 DEF OrderGone
    <3> QED BY <2>1, <2>2, <3>1 DEF Sorted, WellFormed
  <2>4. \A i \in DOMAIN r : r[i][1].price = t[i][1].price
    BY <2>1, <2>3
  <2>5. WellFormed(r, s)
    <3>1. r[1] # <<>>
      BY <2>3
    <3>2. \A j \in DOMAIN r[1] : r[1][j].side = s /\ r[1][j].price = r[1][1].price /\ r[1][j].amount > 0
      BY <2>1, <2>2, <2>3 DEF Sorted, WellFormed
    <3>3. \A i \in DOMAIN r : i # 1 =>
            /\ r[i] # <<>>
            /\ \A j \in DOMAIN r[i] : r[i][j].side = s /\ r[i][j].price = r[i][1].price /\ r[i][j].amount > 0
      BY <2>1 DEF Sorted, WellFormed
    <3> QED BY <3>1, <3>2, <3>3 DEF WellFormed
  <2>6. PricesSorted(r, s)
    BY <2>1, <2>4 DEF Sorted, PricesSorted
  <2>7. ArrivalsSorted(r)
    <3>1. ASSUME NEW i \in DOMAIN r[1], NEW j \in DOMAIN r[1], i < j
          PROVE  r[1][i].id < r[1][j].id
      <4>1. i + 1 < j + 1
        BY <2>2, <3>1
      <4> QED BY <2>1, <2>2, <4>1 DEF Sorted, ArrivalsSorted
    <3> QED BY <2>1, <3>1 DEF Sorted, ArrivalsSorted
  <2>8. ComesFrom(r, t)
    <3>1. ASSUME NEW i \in DOMAIN r, NEW j \in DOMAIN r[i]
          PROVE  \E v \in DOMAIN t[i] : r[i][j].id = t[i][v].id
      <4>1. CASE i = 1
        <5>1. j + 1 \in DOMAIN t[1] /\ r[1][j] = t[1][j + 1]
          BY <2>2, <4>1
        <5> QED BY <4>1, <5>1
      <4>2. CASE i # 1
        BY <2>1, <4>2
      <4> QED BY <4>1, <4>2
    <3> QED BY <2>1, <2>4, <3>1 DEF ComesFrom
  <2> QED BY <1>4, <2>5, <2>6, <2>7, <2>8 DEF Sorted
<1>9. CASE OrderReduced(r, t, N, M, n)
  <2>1. /\ DOMAIN r = DOMAIN t /\ 1 \in DOMAIN t /\ 1 \in DOMAIN t[1]
        /\ DOMAIN r[1] = DOMAIN t[1]
        /\ \A i \in DOMAIN r : i # 1 => r[i] = t[i]
    BY <1>2, <1>5, <1>6, <1>9 DEF OrderReduced
  <2>2. \A j \in DOMAIN r[1] : j # 1 => r[1][j] = t[1][j]
    BY <1>2, <1>9, <2>1 DEF OrderReduced
  <2>3. /\ r[1][1].id = t[1][1].id /\ r[1][1].side = t[1][1].side
        /\ r[1][1].price = t[1][1].price /\ r[1][1].amount > 0
    <3>1. r[1][1].amount = t[1][1].amount - n /\ t[1][1].amount \in Nat
      BY <1>2, <1>9, RemainderFacts DEF Order, OrderReduced
    <3>2. r[1][1].amount > 0
      BY <1>9, <3>1 DEF OrderReduced
    <3> QED BY <1>2, <1>9, <3>2, RemainderFacts DEF OrderReduced
  <2>4. \A j \in DOMAIN r[1] : /\ r[1][j].id = t[1][j].id /\ r[1][j].side = t[1][j].side
                               /\ r[1][j].price = t[1][j].price /\ r[1][j].amount > 0
    BY <2>1, <2>2, <2>3 DEF Sorted, WellFormed
  <2>5. \A i \in DOMAIN r : r[i][1].price = t[i][1].price
    BY <2>1, <2>3
  <2>6. WellFormed(r, s)
    <3>1. r[1] # <<>>
      BY <2>1
    <3>2. \A j \in DOMAIN r[1] : r[1][j].side = s /\ r[1][j].price = r[1][1].price /\ r[1][j].amount > 0
      BY <2>1, <2>4 DEF Sorted, WellFormed
    <3> QED BY <2>1, <3>1, <3>2 DEF Sorted, WellFormed
  <2>7. PricesSorted(r, s)
    BY <2>1, <2>5 DEF Sorted, PricesSorted
  <2>8. ArrivalsSorted(r)
    BY <2>1, <2>4 DEF Sorted, ArrivalsSorted
  <2>9. ComesFrom(r, t)
    BY <2>1, <2>4, <2>5 DEF ComesFrom
  <2> QED BY <1>4, <2>6, <2>7, <2>8, <2>9 DEF Sorted
<1> QED BY <1>4, <1>7, <1>8, <1>9

\* Better is a strict total order of the prices.
LEMMA BetterFacts ==
  ASSUME NEW s \in Side, NEW p \in Int, NEW q \in Int, NEW x \in Int
  PROVE  /\ p = q \/ Better(s, p, q) \/ Better(s, q, p)
         /\ Better(s, p, q) /\ Better(s, q, x) => Better(s, p, x)
BY DEF Better

\* Where the place of an order is, in terms of the prices of the levels.
LEMMA PlaceFacts ==
  ASSUME NEW s \in Side, NEW t \in Table, Sorted(t, s),
         NEW N \in Nat, N = Len(t),
         NEW o \in Order, o.side = s,
         NEW k \in 1 .. N + 1, IsPlace(t, o, k)
  PROVE  /\ \A i \in 1 .. N : i < k => Better(s, t[i][1].price, o.price)
         /\ k <= N /\ o.price # t[k][1].price =>
              \A i \in 1 .. N : i >= k => Better(s, o.price, t[i][1].price)
<1>1. ASSUME NEW i \in 1 .. N
      PROVE  t[i][1].price \in Int /\ Head(t[i]) = t[i][1]
  <2>1. t[i] \in Seq(Order) /\ t[i] # <<>>
    BY DomainFacts DEF Sorted, WellFormed
  <2>2. t[i][1] \in Order /\ Head(t[i]) = t[i][1]
    BY <2>1, NonEmptySeq
  <2> QED BY <2>2, PriceAssumption DEF Order
<1>2. o.price \in Int
  BY PriceAssumption DEF Order
<1>3. ASSUME NEW i \in 1 .. N, i < k
      PROVE  Better(s, t[i][1].price, o.price)
  <2>1. i \in 1 .. k - 1
    BY <1>3
  <2>2. o.price # t[i][1].price /\ ~Better(s, o.price, t[i][1].price)
    BY <1>1, <2>1 DEF IsPlace, StopsAt
  <2> QED BY <1>1, <1>2, <2>2, BetterFacts
<1>4. ASSUME k <= N, o.price # t[k][1].price, NEW i \in 1 .. N, i >= k
      PROVE  Better(s, o.price, t[i][1].price)
  <2>1. k \in 1 .. N
    BY <1>4
  <2>2. Better(s, o.price, t[k][1].price)
    BY <1>1, <1>4, <2>1 DEF IsPlace, StopsAt
  <2>3. CASE i = k
    BY <2>2, <2>3
  <2>4. CASE i > k
    <3>1. i \in DOMAIN t /\ k \in DOMAIN t
      BY <2>1, DomainFacts
    <3>2. Better(s, t[k][1].price, t[i][1].price)
      BY <2>4, <3>1 DEF Sorted, PricesSorted
    <3> QED BY <1>1, <1>2, <2>1, <2>2, <3>2, BetterFacts
  <2> QED BY <1>4, <2>3, <2>4
<1> QED BY <1>3, <1>4

\* An order that arrives last, put at its place, leaves a sorted table sorted.
LEMMA AddKeepsTable ==
  ASSUME NEW s \in Side, NEW t \in Table, Sorted(t, s),
         NEW N \in Nat, N = Len(t),
         NEW o \in Order, o.side = s, o.amount > 0,
         \A i \in DOMAIN t : \A j \in DOMAIN t[i] : t[i][j].id < o.id,
         NEW k \in 1 .. N + 1, IsPlace(t, o, k),
         NEW r, r = AddToOrderTable(t, o, k)
  PROVE  /\ r \in Table /\ Sorted(r, s)
         /\ \A i \in DOMAIN r :
              /\ r[i][1].price = o.price \/ \E u \in DOMAIN t : r[i][1].price = t[u][1].price
              /\ \A j \in DOMAIN r[i] :
                   \/ r[i][j] = o
                   \/ \E u \in DOMAIN t : \E v \in DOMAIN t[u] : r[i][j] = t[u][v]
<1>1. NoEmptyLevel(t)
  BY DEF NoEmptyLevel, Sorted, WellFormed
<1>2. r \in Table /\ (JoinsLevel(r, t, N, k, o) \/ OpensLevel(r, t, N, k, o))
  BY <1>1, AddToOrderTableFacts
<1>3. /\ DOMAIN t = 1 .. N
      /\ \A i \in DOMAIN t : t[i] \in Seq(Order) /\ DOMAIN t[i] = 1 .. Len(t[i]) /\ Len(t[i]) \in Nat
  BY DomainFacts
<1>4. DOMAIN r = 1 .. Len(r)
  BY <1>2, DomainFacts
<1>5. \A i \in DOMAIN t : t[i] # <<>> /\ 1 \in DOMAIN t[i]
  <2> SUFFICES ASSUME NEW i \in DOMAIN t PROVE t[i] # <<>> /\ 1 \in DOMAIN t[i]
    OBVIOUS
  <2>1. t[i] # <<>> /\ t[i] \in Seq(Order)
    BY <1>3 DEF Sorted, WellFormed
  <2> QED BY <2>1
<1>6. CASE JoinsLevel(r, t, N, k, o)
  <2> DEFINE L == Len(t[k])
             l == t[k]
  <2>1. /\ k \in DOMAIN t /\ DOMAIN r = DOMAIN t /\ o.price = t[k][1].price
        /\ \A i \in DOMAIN r : i # k => r[i] = t[i]
    BY <1>3, <1>4, <1>6 DEF JoinsLevel
  <2>2. L \in Nat /\ DOMAIN t[k] = 1 .. L /\ 1 \in DOMAIN t[k] /\ l \in Seq(Order) /\ L = Len(l)
    BY <1>3, <1>5, <2>1
  <2>3. r[k] = Append(l, o)
    BY <1>6 DEF JoinsLevel
  <2> HIDE DEF L
  <2>4. /\ DOMAIN r[k] = 1 .. L + 1
        /\ \A j \in 1 .. L : r[k][j] = t[k][j]
        /\ r[k][L + 1] = o
    <3> HIDE DEF l
    <3>1. /\ DOMAIN r[k] = 1 .. L + 1 /\ \A j \in 1 .. L : r[k][j] = l[j]
          /\ r[k][L + 1] = o
      BY <2>2, <2>3, AppendProperties
    <3> QED BY <3>1 DEF l
  <2>5. \A i \in DOMAIN r : r[i][1].price = t[i][1].price
    BY <2>1, <2>2, <2>4
  <2>6. ASSUME NEW j \in DOMAIN r[k]
        PROVE  \/ j \in DOMAIN t[k] /\ r[k][j] = t[k][j]
               \/ j = L + 1 /\ r[k][j] = o
    <3>1. j \in 1 .. L \/ j = L + 1
      BY <2>2, <2>4
    <3> QED BY <2>2, <2>4, <3>1
  <2>7. WellFormed(r, s)
    <3>1. r[k] # <<>>
      BY <2>2, <2>4
    <3>2. ASSUME NEW j \in DOMAIN r[k]
          PROVE  r[k][j].side = s /\ r[k][j].price = r[k][1].price /\ r[k][j].amount > 0
      BY <2>1, <2>5, <2>6 DEF Sorted, WellFormed
    <3>3. \A i \in DOMAIN r : i # k =>
            /\ r[i] # <<>>
            /\ \A j \in DOMAIN r[i] : r[i][j].side = s /\ r[i][j].price = r[i][1].price /\ r[i][j].amount > 0
      BY <2>1 DEF Sorted, WellFormed
    <3> QED BY <3>1, <3>2, <3>3 DEF WellFormed
  <2>8. PricesSorted(r, s)
    BY <2>1, <2>5 DEF Sorted, PricesSorted
  <2>9. ArrivalsSorted(r)
    <3>1. ASSUME NEW i \in DOMAIN r[k], NEW j \in DOMAIN r[k], i < j
          PROVE  r[k][i].id < r[k][j].id
      <4>1. i \in DOMAIN t[k] /\ r[k][i] = t[k][i]
        BY <2>2, <2>4, <3>1
      <4>2. CASE j = L + 1
        BY <2>1, <2>4, <4>1, <4>2
      <4>3. CASE j # L + 1
        BY <2>1, <2>6, <3>1, <4>1, <4>3 DEF Sorted, ArrivalsSorted
      <4> QED BY <4>2, <4>3
    <3> QED BY <2>1, <3>1 DEF Sorted, ArrivalsSorted
  <2>10. ASSUME NEW i \in DOMAIN r, NEW j \in DOMAIN r[i]
         PROVE  r[i][j] = o \/ \E u \in DOMAIN t : \E v \in DOMAIN t[u] : r[i][j] = t[u][v]
    BY <2>1, <2>6
  <2> QED BY <1>2, <2>1, <2>5, <2>7, <2>8, <2>9, <2>10 DEF Sorted
<1>7. CASE OpensLevel(r, t, N, k, o)
  <2>0. /\ DOMAIN r = 1 .. N + 1 /\ k \in DOMAIN r /\ r[k] = <<o>>
        /\ \A i \in DOMAIN r : i \in Nat
    <3> DEFINE n == N + 1
    <3>1. n = Len(r) /\ r[k] = <<o>>
      BY <1>7 DEF OpensLevel
    <3>2. k \in 1 .. n /\ n \in Nat
      OBVIOUS
    <3> HIDE DEF n
    <3>3. DOMAIN r = 1 .. n
      BY <1>4, <3>1
    <3>4. \A i \in 1 .. n : i \in Nat
      BY <3>2
    <3> QED BY <3>1, <3>2, <3>3, <3>4 DEF n
  <2>1. ASSUME NEW i \in DOMAIN r, i < k
        PROVE  i \in DOMAIN t /\ i \in 1 .. N /\ r[i] = t[i]
    <3>1. i \in 1 .. N
      BY <2>0, <2>1
    <3> QED BY <1>3, <1>7, <2>1, <3>1 DEF OpensLevel
  <2>2. ASSUME NEW i \in DOMAIN r, i > k
        PROVE  i - 1 \in DOMAIN t /\ r[i] = t[i - 1] /\ i - 1 >= k
    <3>1. i - 1 \in 1 .. N /\ i - 1 >= k /\ (i - 1) + 1 = i
      BY <2>0, <2>2
    <3>2. r[(i - 1) + 1] = t[i - 1]
      BY <1>7, <3>1 DEF OpensLevel
    <3> QED BY <1>3, <3>1, <3>2
  <2>3. \A i \in DOMAIN r : i < k \/ i = k \/ i > k
    BY <2>0
  <2>4. \A i \in DOMAIN r : r[i] = <<o>> \/ \E u \in DOMAIN t : r[i] = t[u]
    <3> SUFFICES ASSUME NEW i \in DOMAIN r
                 PROVE  r[i] = <<o>> \/ \E u \in DOMAIN t : r[i] = t[u]
      OBVIOUS
    <3>1. CASE i > k
      BY <2>2, <3>1
    <3>2. CASE i = k
      BY <2>0, <3>2
    <3>3. CASE i < k
      BY <2>1, <3>3
    <3> QED BY <2>3, <3>1, <3>2, <3>3
  <2>5. WellFormed(r, s)
    <3> SUFFICES ASSUME NEW i \in DOMAIN r
                 PROVE  /\ r[i] # <<>>
                        /\ \A j \in DOMAIN r[i] :
                             /\ r[i][j].side = s
                             /\ r[i][j].price = r[i][1].price
                             /\ r[i][j].amount > 0
      BY DEF WellFormed
    <3>1. CASE r[i] = <<o>>
      BY <3>1
    <3>2. CASE \E u \in DOMAIN t : r[i] = t[u]
      BY <3>2 DEF Sorted, WellFormed
    <3> QED BY <2>4, <3>1, <3>2
  <2>6. PricesSorted(r, s)
    <3> SUFFICES ASSUME NEW i \in DOMAIN r, NEW j \in DOMAIN r, i < j
                 PROVE  Better(s, r[i][1].price, r[j][1].price)
      BY DEF PricesSorted
    <3>0. i \in Nat /\ j \in Nat /\ k \in Nat
      BY <2>0
    <3>1. CASE j < k
      <4>1. i < k
        BY <3>0, <3>1
      <4> QED BY <2>1, <3>1, <4>1 DEF Sorted, PricesSorted
    <3>2. CASE j = k
      <4>1. i < k
        BY <3>0, <3>2
      <4>2. i \in DOMAIN t /\ r[i] = t[i] /\ r[j] = <<o>> /\ i \in 1 .. N
        BY <2>0, <2>1, <3>2, <4>1
      <4>3. Better(s, t[i][1].price, o.price)
        BY <4>1, <4>2, PlaceFacts
      <4> QED BY <4>2, <4>3
    <3>3. CASE j > k /\ i < k
      <4>1. i < j - 1
        BY <3>0, <3>3
      <4>2. i \in DOMAIN t /\ r[i] = t[i]
        BY <2>1, <3>3
      <4> QED BY <2>2, <3>3, <4>1, <4>2 DEF Sorted, PricesSorted
    <3>4. CASE j > k /\ i = k
      <4>1. r[i] = <<o>>
        BY <2>0, <3>4
      <4>0. r[j] = t[j - 1] /\ j - 1 \in 1 .. N /\ j - 1 >= k
        BY <1>3, <2>2, <3>4
      <4>2. k <= N /\ o.price # t[k][1].price
        <5>1. k <= N
          BY <4>0
        <5> QED BY <1>7, <5>1 DEF OpensLevel
      <4>3. Better(s, o.price, t[j - 1][1].price)
        BY <4>0, <4>2, PlaceFacts
      <4> QED BY <4>0, <4>1, <4>3
    <3>5. CASE j > k /\ i > k
      <4>1. i - 1 < j - 1
        BY <3>0
      <4> QED BY <2>2, <3>5, <4>1 DEF Sorted, PricesSorted
    <3> QED BY <2>3, <3>1, <3>2, <3>3, <3>4, <3>5
  <2>7. ArrivalsSorted(r)
    <3> SUFFICES ASSUME NEW i \in DOMAIN r, NEW u \in DOMAIN r[i], NEW v \in DOMAIN r[i], u < v
                 PROVE  r[i][u].id < r[i][v].id
      BY DEF ArrivalsSorted
    <3>1. CASE r[i] = <<o>>
      BY <3>1
    <3>2. CASE \E w \in DOMAIN t : r[i] = t[w]
      BY <3>2 DEF Sorted, ArrivalsSorted
    <3> QED BY <2>4, <3>1, <3>2
  <2>8. ASSUME NEW i \in DOMAIN r
        PROVE  /\ r[i][1].price = o.price \/ \E u \in DOMAIN t : r[i][1].price = t[u][1].price
               /\ \A j \in DOMAIN r[i] :
                    \/ r[i][j] = o
                    \/ \E u \in DOMAIN t : \E v \in DOMAIN t[u] : r[i][j] = t[u][v]
    <3>1. CASE r[i] = <<o>>
      BY <3>1
    <3>2. CASE \E u \in DOMAIN t : r[i] = t[u]
      BY <3>2
    <3> QED BY <2>4, <3>1, <3>2
  <2> QED BY <1>2, <2>5, <2>6, <2>7, <2>8 DEF Sorted
<1> QED BY <1>2, <1>6, <1>7

-----------------------------------------------------------------------------
(* The inductive invariant of the book.                                    *)

\* What ties the book to the history: resting orders have arrived, and the
\* order being matched arrived after all of them.
Arrivals ==
  /\ Len(filled) = Len(received)
  /\ phase = "matching" => taker \in Order /\ taker.id = Len(received)
  /\ \A s \in Side : \A i \in DOMAIN table[s] : \A j \in DOMAIN table[s][i] :
       /\ table[s][i][j].id <= Len(received)
       /\ phase = "matching" => table[s][i][j].id < taker.id

Ordered == LevelsWellFormed /\ BestPriceFirst /\ EarliestFirst

BookInv == TypeOK /\ Ordered /\ NotCrossed /\ Arrivals

LEMMA OrderedFacts ==
  Ordered <=> \A s \in Side : Sorted(table[s], s)
BY DEF Ordered, LevelsWellFormed, BestPriceFirst, EarliestFirst,
       Sorted, WellFormed, PricesSorted, ArrivalsSorted

LEMMA BookInit == Init => BookInv
<1> SUFFICES ASSUME Init PROVE BookInv
  OBVIOUS
<1>1. \A s \in Side : table[s] = <<>> /\ DOMAIN table[s] = {}
  BY DEF Init
<1>2. TypeOK
  <2>1. \A S : <<>> \in Seq(S)
    OBVIOUS
  <2>2. table \in [Side -> Seq(Seq(Order))]
    BY <2>1 DEF Init
  <2>3. /\ trade_list \in Seq(Trade) /\ outbox \in Seq(Trade) /\ trades \in Seq(Trade)
        /\ unheard \in Seq(Trade)
        /\ received \in Seq(Order) /\ filled \in Seq(Nat)
    BY <2>1 DEF Init
  <2> QED BY <2>2, <2>3 DEF Init, TypeOK, Phase
<1>3. Ordered
  BY <1>1 DEF Ordered, LevelsWellFormed, BestPriceFirst, EarliestFirst
<1>4. NotCrossed
  BY <1>1 DEF NotCrossed, Side
<1>5. Arrivals
  BY <1>1 DEF Init, Arrivals
<1> QED BY <1>2, <1>3, <1>4, <1>5 DEF BookInv

\* The table stays what it is: the steps that do not touch the book.
LEMMA BookUntouched ==
  ASSUME BookInv, UNCHANGED table, TypeOK', Arrivals'
  PROVE  BookInv'
BY DEF BookInv, Ordered, LevelsWellFormed, BestPriceFirst, EarliestFirst, NotCrossed

LEMMA BookReceiveOrder ==
  ASSUME BookInv, ReceiveOrder
  PROVE  BookInv'
<1>1. PICK s \in Side, p \in Price, a \in Amount :
        LET order == [id |-> Len(received) + 1, side |-> s, price |-> p, amount |-> a]
        IN taker' = order /\ received' = Append(received, order)
  BY DEF ReceiveOrder
<1> DEFINE order == [id |-> Len(received) + 1, side |-> s, price |-> p, amount |-> a]
           L == Len(received)
<1>2. received \in Seq(Order) /\ filled \in Seq(Nat) /\ L \in Nat /\ Len(filled) = L
  BY DEF BookInv, TypeOK, Arrivals
<1>3. order \in Order /\ order.id = L + 1
  BY <1>2, AmountAssumption DEF Order
<1>4. /\ received' \in Seq(Order) /\ Len(received') = L + 1
      /\ filled' \in Seq(Nat) /\ Len(filled') = L + 1
  BY <1>1, <1>2, <1>3, AppendProperties DEF ReceiveOrder
<1>5. taker' = order /\ taker' \in Order /\ taker'.id = L + 1
  BY <1>1, <1>3
<1> HIDE DEF order
<1>6. TypeOK'
  BY <1>4, <1>5 DEF BookInv, TypeOK, ReceiveOrder, Phase
<1>7. Arrivals'
  <2>1. \A t \in Side : \A i \in DOMAIN table[t] : \A j \in DOMAIN table[t][i] :
          table[t][i][j].id <= L /\ table[t][i][j].id \in Nat
    BY DomainFacts DEF BookInv, Arrivals, TypeOK, Table, Order
  <2> HIDE DEF L
  <2>2. \A t \in Side : \A i \in DOMAIN table[t] : \A j \in DOMAIN table[t][i] :
          table[t][i][j].id <= L + 1 /\ table[t][i][j].id < L + 1
    BY <1>2, <2>1
  <2>3. table' = table /\ L + 1 = Len(received') /\ L + 1 = Len(filled') /\ L + 1 = taker'.id
    BY <1>4, <1>5 DEF ReceiveOrder
  <2> QED BY <1>5, <2>2, <2>3 DEF Arrivals
<1> QED BY <1>6, <1>7, BookUntouched DEF ReceiveOrder

\* Resting orders that come from the other table's orders keep their arrivals.
LEMMA ArrivalsInherited ==
  ASSUME NEW r \in Table, NEW t \in Table, ComesFrom(r, t), NEW n,
         \A i \in DOMAIN t : \A j \in DOMAIN t[i] : t[i][j].id < n
  PROVE  \A i \in DOMAIN r : \A j \in DOMAIN r[i] : r[i][j].id < n
BY DEF ComesFrom

\* Once both tables come from two tables that do not cross, they do not.
LEMMA NotCrossedInherited ==
  ASSUME NEW b, NEW a, NEW B, NEW A, ComesFrom(b, B), ComesFrom(a, A),
         \A i \in DOMAIN B, j \in DOMAIN A : B[i][1].price < A[j][1].price
  PROVE  \A i \in DOMAIN b, j \in DOMAIN a : b[i][1].price < a[j][1].price
BY DEF ComesFrom

LEMMA ComesFromItself ==
  ASSUME NEW t
  PROVE  ComesFrom(t, t)
BY DEF ComesFrom

\* A sequence of numbers stays one when two of them grow.
LEMMA FilledFacts ==
  ASSUME NEW f \in Seq(Nat), NEW L \in Nat, L = Len(f),
         NEW a \in 1 .. L, NEW b \in 1 .. L, a # b, NEW n \in Nat,
         NEW g, g = [f EXCEPT ![a] = @ + n, ![b] = @ + n]
  PROVE  g \in Seq(Nat) /\ L = Len(g)
<1>1. f \in [1 .. L -> Nat]
  BY LenProperties
<1>2. g \in [1 .. L -> Nat]
  BY <1>1
<1>3. g \in Seq(Nat) /\ DOMAIN g = 1 .. L
  BY <1>2
<1> QED BY <1>3, LenProperties

LEMMA BookTradeWithFront ==
  ASSUME BookInv, TradeWithFront
  PROVE  BookInv'
<1> DEFINE o == Opposite(taker.side)
           t == table[o]
           m == Head(Head(t))
           n == TradeAmount(m, taker)
           r == AfterTrade(t, n)
<1>1. /\ table \in [Side -> Table] /\ taker \in Order /\ taker.id = Len(received)
      /\ phase = "matching" /\ t # <<>>
      /\ \A s \in Side : Sorted(table[s], s)
  BY OrderedFacts DEF BookInv, TypeOK, Arrivals, TradeWithFront, CanMatch, MakerTable, Table
<1>2. o \in Side /\ t \in Table /\ Sorted(t, o)
  BY <1>1, SideFacts DEF Order
<1>3. NoEmptyLevel(t)
  BY <1>2 DEF NoEmptyLevel, Sorted, WellFormed
<1>4. /\ m = t[1][1] /\ m \in Order /\ 1 \in DOMAIN t /\ 1 \in DOMAIN t[1]
  BY <1>1, <1>2, <1>3, FrontFacts
<1>5. n \in Nat /\ n <= m.amount /\ n <= taker.amount
  BY <1>1, <1>4, TradeAmountFacts
<1>6. /\ table' = [table EXCEPT ![o] = r]
      /\ taker' = Remainder(taker, n)
      /\ trade_list' = Append(trade_list, MakeTrade(m, taker))
      /\ trades' = Append(trades, MakeTrade(m, taker))
      /\ filled' = [filled EXCEPT ![m.id] = @ + n, ![taker.id] = @ + n]
      /\ UNCHANGED <<phase, match_result_actor, outbox, received, unheard>>
  BY DEF TradeWithFront, FrontMaker, MakerTable
<1>7. r \in Table /\ Sorted(r, o) /\ ComesFrom(r, t)
  <2> HIDE DEF t, m, n
  <2> QED BY <1>1, <1>2, <1>4, <1>5, TradeKeepsTable
<1> HIDE DEF n, r, m
<1>8. /\ table'[o] = r
      /\ \A s \in Side : s # o => table'[s] = table[s]
      /\ table' \in [Side -> Table]
  BY <1>1, <1>2, <1>6, <1>7
<1> HIDE DEF o
<1>9. taker' \in Order /\ taker'.id = taker.id
  BY <1>1, <1>5, <1>6, RemainderFacts
<1>10. filled' \in Seq(Nat) /\ Len(filled') = Len(filled)
  <2>1. /\ filled \in Seq(Nat) /\ Len(filled) = Len(received) /\ received \in Seq(Order)
    BY DEF BookInv, TypeOK, Arrivals
  <2> DEFINE L == Len(filled)
  <2>2. L \in Nat /\ taker.id = L /\ taker.id \in 1 .. L
    BY <1>1, <2>1 DEF Order
  <2>3. m.id \in Nat \ {0} /\ m.id < taker.id
    BY <1>1, <1>2, <1>4 DEF BookInv, Arrivals, Order, t
  <2>4. m.id \in 1 .. L /\ m.id # taker.id
    BY <2>2, <2>3
  <2> HIDE DEF L
  <2>5. filled' \in Seq(Nat) /\ L = Len(filled')
    BY <1>5, <1>6, <2>1, <2>2, <2>4, FilledFacts DEF L
  <2> QED BY <2>5 DEF L
<1>11. TypeOK'
  <2>1. trade_list' \in Seq(Trade) /\ trades' \in Seq(Trade)
    <3>1. trade_list \in Seq(Trade) /\ trades \in Seq(Trade) /\ MakeTrade(m, taker) \in Trade
      BY <1>1, <1>4, MakeTradeType DEF BookInv, TypeOK
    <3> QED BY <1>6, <3>1, AppendProperties
  <2> QED BY <1>6, <1>8, <1>9, <1>10, <2>1 DEF BookInv, TypeOK, Table
<1>12. Ordered'
  <2>1. \A s \in Side : Sorted(table'[s], s)
    BY <1>1, <1>7, <1>8
  <2> QED BY <2>1 DEF Ordered, LevelsWellFormed, BestPriceFirst, EarliestFirst,
                     Sorted, WellFormed, PricesSorted, ArrivalsSorted
<1>13. \A s \in Side : ComesFrom(table'[s], table[s])
  BY <1>7, <1>8, ComesFromItself DEF t
<1>14. NotCrossed'
  BY <1>13, NotCrossedInherited DEF BookInv, NotCrossed, Side
<1>15. Arrivals'
  <2>1. \A s \in Side : table'[s] \in Table /\ table[s] \in Table
    BY <1>1, <1>8
  <2>2. ASSUME NEW s \in Side
        PROVE  \A i \in DOMAIN table'[s] : \A j \in DOMAIN table'[s][i] :
                 table'[s][i][j].id < taker.id
    <3>1. \A i \in DOMAIN table[s] : \A j \in DOMAIN table[s][i] : table[s][i][j].id < taker.id
      BY <1>1 DEF BookInv, Arrivals
    <3> QED BY <1>13, <2>1, <3>1, ArrivalsInherited
  <2>3. ASSUME NEW s \in Side, NEW i \in DOMAIN table'[s], NEW j \in DOMAIN table'[s][i]
        PROVE  table'[s][i][j].id <= Len(received)
    <3>1. table'[s][i][j].id < taker.id
      BY <2>2
    <3>2. table'[s][i][j] \in Order
      BY <2>1, DomainFacts
    <3>3. table'[s][i][j].id \in Nat /\ taker.id \in Nat
      BY <1>1, <3>2 DEF Order
    <3> QED BY <1>1, <3>1, <3>3
  <2> QED BY <1>1, <1>6, <1>9, <1>10, <2>2, <2>3 DEF BookInv, Arrivals
<1> QED BY <1>11, <1>12, <1>14, <1>15 DEF BookInv

\* When the taker can trade no further, every price of the other side is
\* out of its reach.
LEMMA NotCrossingFacts ==
  ASSUME NEW x \in Order, NEW o \in Side, o = Opposite(x.side),
         NEW t \in Table, Sorted(t, o),
         t = <<>> \/ ~Crosses(x, Head(Head(t)))
  PROVE  \A i \in DOMAIN t : Better(x.side, t[i][1].price, x.price)
<1> SUFFICES ASSUME NEW i \in DOMAIN t PROVE Better(x.side, t[i][1].price, x.price)
  OBVIOUS
<1>1. t # <<>> /\ NoEmptyLevel(t) /\ i \in Nat \ {0} /\ 1 \in DOMAIN t
  BY DomainFacts DEF NoEmptyLevel, Sorted, WellFormed
<1>2. Head(Head(t)) = t[1][1] /\ t[1][1] \in Order
  BY <1>1, FrontFacts
<1>3. t[i][1] \in Order
  <2>1. t[i] \in Seq(Order) /\ t[i] # <<>>
    BY <1>1, DomainFacts DEF NoEmptyLevel
  <2> QED BY <2>1, NonEmptySeq
<1>4. x.price \in Int /\ t[1][1].price \in Int /\ t[i][1].price \in Int /\ x.side \in Side
  BY <1>2, <1>3, PriceAssumption DEF Order
<1>5. t[i][1].price = t[1][1].price \/ Better(o, t[1][1].price, t[i][1].price)
  <2>1. i = 1 \/ 1 < i
    BY <1>1
  <2> QED BY <1>1, <2>1 DEF Sorted, PricesSorted
<1>6. ~Crosses(x, t[1][1])
  BY <1>1, <1>2
<1>7. CASE x.side = "buy"
  BY <1>4, <1>5, <1>6, <1>7 DEF Crosses, Better, Opposite
<1>8. CASE x.side = "sell"
  BY <1>4, <1>5, <1>6, <1>8 DEF Crosses, Better, Opposite
<1> QED BY <1>4, <1>7, <1>8 DEF Side

LEMMA BookRestRemainder ==
  ASSUME BookInv, RestRemainder
  PROVE  BookInv'
<1>1. /\ table \in [Side -> Table] /\ taker \in Order /\ taker.id = Len(received)
      /\ phase = "matching" /\ taker.side \in Side
      /\ \A s \in Side : Sorted(table[s], s)
  BY OrderedFacts DEF BookInv, TypeOK, Arrivals, RestRemainder, Table, Order
<1>2. CASE taker.amount = 0 /\ UNCHANGED table
  <2>1. TypeOK'
    BY <1>1, <1>2 DEF BookInv, TypeOK, RestRemainder, Phase, ghosts
  <2>2. Arrivals'
    BY <1>2 DEF BookInv, Arrivals, RestRemainder, ghosts
  <2> QED BY <1>2, <2>1, <2>2, BookUntouched
<1>3. CASE taker.amount # 0
  <2> DEFINE s == taker.side
             t == table[s]
             N == Len(t)
  <2>1. PICK k \in 1 .. N + 1 :
          /\ IsPlace(t, taker, k)
          /\ table' = [table EXCEPT ![s] = AddToOrderTable(t, taker, k)]
    BY <1>3 DEF RestRemainder
  <2> DEFINE r == AddToOrderTable(t, taker, k)
  <2>2. s \in Side /\ t \in Table /\ Sorted(t, s) /\ N \in Nat
    BY <1>1, DomainFacts
  <2>3. taker.amount > 0
    BY <1>1, <1>3 DEF Order
  <2>4. \A i \in DOMAIN t : \A j \in DOMAIN t[i] : t[i][j].id < taker.id
    BY <1>1 DEF BookInv, Arrivals
  <2>5. /\ r \in Table /\ Sorted(r, s)
        /\ \A i \in DOMAIN r :
             /\ r[i][1].price = taker.price \/ \E u \in DOMAIN t : r[i][1].price = t[u][1].price
             /\ \A j \in DOMAIN r[i] :
                  \/ r[i][j] = taker
                  \/ \E u \in DOMAIN t : \E v \in DOMAIN t[u] : r[i][j] = t[u][v]
    <3> HIDE DEF t
    <3> QED BY <1>1, <2>1, <2>2, <2>3, <2>4, AddKeepsTable
  <2> HIDE DEF r
  <2>6. /\ table'[s] = r
        /\ \A x \in Side : x # s => table'[x] = table[x]
        /\ table' \in [Side -> Table]
    BY <1>1, <2>1, <2>5 DEF r
  <2>7. TypeOK'
    BY <1>1, <2>6 DEF BookInv, TypeOK, RestRemainder, Phase, Table, ghosts
  <2>8. Ordered'
    <3>1. \A x \in Side : Sorted(table'[x], x)
      BY <1>1, <2>5, <2>6
    <3> QED BY <3>1 DEF Ordered, LevelsWellFormed, BestPriceFirst, EarliestFirst,
                       Sorted, WellFormed, PricesSorted, ArrivalsSorted
  <2>9. NotCrossed'
    <3> DEFINE o == Opposite(s)
    <3>1. o \in Side /\ o # s /\ table[o] \in Table /\ Sorted(table[o], o) /\ table'[o] = table[o]
      BY <1>1, <2>6, SideFacts
    <3>2. \A i \in DOMAIN table[o] : Better(s, table[o][i][1].price, taker.price)
      <4>1. table[o] = <<>> \/ ~Crosses(taker, Head(Head(table[o])))
        BY <1>3 DEF RestRemainder, CanMatch, MakerTable, FrontMaker
      <4> HIDE DEF o
      <4>2. o = Opposite(taker.side)
        BY DEF o
      <4> QED BY <1>1, <3>1, <4>1, <4>2, NotCrossingFacts
    <3>4. CASE s = "buy"
      <4>1. o = "sell"
        BY <3>4 DEF Opposite
      <4>2. ASSUME NEW i \in DOMAIN r, NEW j \in DOMAIN table["sell"]
            PROVE  r[i][1].price < table["sell"][j][1].price
        <5>1. CASE r[i][1].price = taker.price
          BY <3>2, <3>4, <4>1, <5>1 DEF Better
        <5>2. CASE \E u \in DOMAIN t : r[i][1].price = t[u][1].price
          BY <3>4, <5>2 DEF BookInv, NotCrossed
        <5> QED BY <2>5, <5>1, <5>2
      <4> QED BY <2>6, <3>1, <3>4, <4>1, <4>2 DEF NotCrossed
    <3>5. CASE s = "sell"
      <4>1. o = "buy"
        BY <3>5 DEF Opposite
      <4>2. ASSUME NEW i \in DOMAIN r, NEW j \in DOMAIN table["buy"]
            PROVE  table["buy"][j][1].price < r[i][1].price
        <5>1. CASE r[i][1].price = taker.price
          BY <3>2, <3>5, <4>1, <5>1 DEF Better
        <5>2. CASE \E u \in DOMAIN t : r[i][1].price = t[u][1].price
          BY <3>5, <5>2 DEF BookInv, NotCrossed
        <5> QED BY <2>5, <5>1, <5>2
      <4> QED BY <2>6, <3>1, <3>5, <4>1, <4>2 DEF NotCrossed
    <3> QED BY <2>2, <3>4, <3>5 DEF Side
  <2>10. Arrivals'
    <3>1. \A x \in Side : table[x] \in Table
      BY <1>1
    <3>2. /\ phase' # "matching" /\ UNCHANGED <<taker, received, filled>>
      BY DEF RestRemainder, ghosts
    <3>3. ASSUME NEW x \in Side, NEW i \in DOMAIN table'[x], NEW j \in DOMAIN table'[x][i]
          PROVE  table'[x][i][j].id <= Len(received)
      <4>1. CASE x = s
        <5>1. \/ table'[x][i][j] = taker
              \/ \E u \in DOMAIN t : \E v \in DOMAIN t[u] : table'[x][i][j] = t[u][v]
          BY <2>5, <2>6, <4>1
        <5>2. taker.id <= Len(received)
          BY <1>1 DEF Order
        <5>3. \A u \in DOMAIN t : \A v \in DOMAIN t[u] : t[u][v].id <= Len(received)
          BY <1>1 DEF BookInv, Arrivals
        <5> QED BY <5>1, <5>2, <5>3
      <4>2. CASE x # s
        BY <2>6, <4>2 DEF BookInv, Arrivals
      <4> QED BY <4>1, <4>2
    <3> QED BY <3>2, <3>3 DEF BookInv, Arrivals
  <2> QED BY <2>7, <2>8, <2>9, <2>10 DEF BookInv
<1> QED BY <1>2, <1>3 DEF RestRemainder

LEMMA BookSendMatchResult ==
  ASSUME BookInv, SendMatchResult
  PROVE  BookInv'
<1>1. outbox' \in Seq(Trade)
  <2>1. outbox \in Seq(Trade) /\ trade_list \in Seq(Trade)
    BY DEF BookInv, TypeOK
  <2>2. outbox \o trade_list \in Seq(Trade)
    BY <2>1, ConcatProperties
  <2> QED BY <2>1, <2>2 DEF SendMatchResult
<1>2. TypeOK'
  BY <1>1 DEF BookInv, TypeOK, Arrivals, SendMatchResult, Phase, ghosts
<1>3. Arrivals'
  BY DEF BookInv, Arrivals, SendMatchResult, ghosts
<1> QED BY <1>2, <1>3, BookUntouched DEF SendMatchResult

LEMMA BookSetResultActor ==
  ASSUME BookInv, SetResultActor
  PROVE  BookInv'
<1>1. TypeOK'
  BY DEF BookInv, TypeOK, SetResultActor, ghosts
<1>2. Arrivals'
  BY DEF BookInv, Arrivals, SetResultActor, ghosts
<1> QED BY <1>1, <1>2, BookUntouched DEF SetResultActor

LEMMA BookNext ==
  ASSUME BookInv, [Next]_vars
  PROVE  BookInv'
<1>1. CASE ReceiveOrder
  BY <1>1, BookReceiveOrder
<1>2. CASE TradeWithFront
  BY <1>2, BookTradeWithFront
<1>3. CASE RestRemainder
  BY <1>3, BookRestRemainder
<1>4. CASE SendMatchResult
  BY <1>4, BookSendMatchResult
<1>5. CASE SetResultActor
  BY <1>5, BookSetResultActor
<1>6. CASE UNCHANGED vars
  <2>1. UNCHANGED <<table, phase, taker, trade_list, match_result_actor, outbox, received, filled, trades, unheard>>
    BY <1>6 DEF vars, ghosts
  <2>2. TypeOK'
    BY <2>1 DEF BookInv, TypeOK
  <2>3. Arrivals'
    BY <2>1 DEF BookInv, Arrivals
  <2> QED BY <2>1, <2>2, <2>3, BookUntouched
<1> QED BY <1>1, <1>2, <1>3, <1>4, <1>5, <1>6 DEF Next, Handle

\* The inductive invariant holds in every state of every behaviour.
LEMMA BookAlways == Spec => []BookInv
<1>1. Init => BookInv
  BY BookInit
<1>2. BookInv /\ [Next]_vars => BookInv'
  BY BookNext
<1> QED BY <1>1, <1>2, PTL DEF Spec

\* Every variable of the match actor keeps its type, whatever orders arrive.
THEOREM TypeCorrect == Spec => []TypeOK
<1>1. BookInv => TypeOK
  BY DEF BookInv
<1> QED BY <1>1, BookAlways, PTL

\* The levels of both lists hold orders of one price, never an empty level:
\* reading order_list.begin() is always defined.
THEOREM LevelsAlwaysWellFormed == Spec => []LevelsWellFormed
<1>1. BookInv => LevelsWellFormed
  BY DEF BookInv, Ordered
<1> QED BY <1>1, BookAlways, PTL

\* Levels stand from the best price to the worst.
THEOREM PricePriority == Spec => []BestPriceFirst
<1>1. BookInv => BestPriceFirst
  BY DEF BookInv, Ordered
<1> QED BY <1>1, BookAlways, PTL

\* Within a level orders stand in the order of their arrival.
THEOREM TimePriority == Spec => []EarliestFirst
<1>1. BookInv => EarliestFirst
  BY DEF BookInv, Ordered
<1> QED BY <1>1, BookAlways, PTL

\* The best bid stays below the best ask, in the middle of a match too.
THEOREM BookNeverCrossed == Spec => []NotCrossed
<1>1. BookInv => NotCrossed
  BY DEF BookInv
<1> QED BY <1>1, BookAlways, PTL

-----------------------------------------------------------------------------
(***************************************************************************)
(* From here on: what relates the book to the orders received and the      *)
(* trades made so far, and the proof that the actor trades by price and    *)
(* then by time, as PriceTimePriority promises.                            *)
(***************************************************************************)

-----------------------------------------------------------------------------
(* A table seen as the set of its orders.                                  *)

OrdersOf(t) == UNION {{t[i][j] : j \in DOMAIN t[i]} : i \in DOMAIN t}

\* An order stands at one position of its table only.
OneEach(t) ==
  \A i, k \in DOMAIN t : \A j \in DOMAIN t[i], l \in DOMAIN t[k] :
    t[i][j].id = t[k][l].id => i = k /\ j = l

LEMMA OrdersOfMember ==
  ASSUME NEW t, NEW o
  PROVE  o \in OrdersOf(t) <=> \E i \in DOMAIN t : \E j \in DOMAIN t[i] : o = t[i][j]
BY DEF OrdersOf

LEMMA RestingMember ==
  ASSUME NEW o
  PROVE  o \in Resting <=> \E s \in Side : o \in OrdersOf(table[s])
BY DEF Resting, OrdersOf

\* What a trade of n with the front order m makes of the orders o.
Reduced(o, m, n) ==
  (o \ {m}) \cup (IF m.amount = n THEN {} ELSE {Remainder(m, n)})

\* The orders of r that do not lead their level do not lead it in t either.
LaterIn(r, t) ==
  \A i \in DOMAIN r : \A j \in DOMAIN r[i] :
    j # 1 => \E u \in DOMAIN t : \E v \in DOMAIN t[u] : v # 1 /\ r[i][j] = t[u][v]

\* A trade takes the front order out of the table, or reduces it there, and
\* brings no other order forward but to the front.
LEMMA OrdersAfterTrade ==
  ASSUME NEW t \in Table, t # <<>>, NoEmptyLevel(t), OneEach(t),
         NEW n \in Nat, n <= t[1][1].amount,
         NEW r, r = AfterTrade(t, n)
  PROVE  OrdersOf(r) = Reduced(OrdersOf(t), t[1][1], n) /\ LaterIn(r, t)
<1> DEFINE N == Len(t)
           M == Len(t[1])
           m == t[1][1]
<1>1. /\ N \in Nat \ {0} /\ DOMAIN t = 1 .. N
      /\ M \in Nat \ {0} /\ DOMAIN t[1] = 1 .. M
      /\ m \in Order
  BY FrontFacts
<1>2. /\ r \in Table
      /\ \/ LevelGone(r, t, N, M, n)
         \/ OrderGone(r, t, N, M, n)
         \/ OrderReduced(r, t, N, M, n)
  BY <1>1, AfterTradeFacts
<1>3. /\ DOMAIN r = 1 .. Len(r)
      /\ \A i \in DOMAIN r : DOMAIN r[i] = 1 .. Len(r[i])
  BY <1>2, DomainFacts
<1>4. m.id = t[1][1].id
  OBVIOUS
<1> HIDE DEF N, M
<1>5. 1 \in DOMAIN t /\ 1 \in DOMAIN t[1] /\ m = t[1][1]
  BY <1>1
<1>6. ASSUME NEW i \in DOMAIN t, NEW j \in DOMAIN t[i], i # 1 \/ j # 1
      PROVE  t[i][j] # m
  BY <1>5, <1>6 DEF OneEach
<1> HIDE DEF m
<1>7. CASE LevelGone(r, t, N, M, n)
  <2>1. m.amount = n /\ DOMAIN t[1] = {1}
    BY <1>1, <1>5, <1>7 DEF LevelGone
  <2>2. ASSUME NEW i \in DOMAIN r
        PROVE  i + 1 \in DOMAIN t /\ i + 1 # 1 /\ r[i] = t[i + 1]
    BY <1>1, <1>3, <1>7 DEF LevelGone
  <2>3. ASSUME NEW i \in DOMAIN t, i # 1
        PROVE  \E u \in DOMAIN r : r[u] = t[i]
    <3> DEFINE u == i - 1
    <3>1. u \in DOMAIN r /\ u + 1 = i
      BY <1>1, <1>3, <1>7, <2>3 DEF LevelGone
    <3> HIDE DEF u
    <3> QED BY <2>2, <3>1
  <2>4. ASSUME NEW o PROVE o \in OrdersOf(r) <=> o \in OrdersOf(t) /\ o # m
    <3>1. ASSUME NEW i \in DOMAIN r, NEW j \in DOMAIN r[i], o = r[i][j]
          PROVE  o \in OrdersOf(t) /\ o # m
      BY <1>6, <2>2, <3>1, OrdersOfMember
    <3>2. ASSUME NEW i \in DOMAIN t, NEW j \in DOMAIN t[i], o = t[i][j], o # m
          PROVE  o \in OrdersOf(r)
      <4>1. i # 1
        BY <1>5, <2>1, <3>2
      <4>2. PICK u \in DOMAIN r : r[u] = t[i]
        BY <2>3, <4>1
      <4> QED BY <3>2, <4>2, OrdersOfMember
    <3> QED BY <3>1, <3>2, OrdersOfMember
  <2>5. OrdersOf(r) = Reduced(OrdersOf(t), m, n)
    BY <2>1, <2>4 DEF Reduced
  <2>6. LaterIn(r, t)
    BY <2>2 DEF LaterIn
  <2> QED BY <2>5, <2>6 DEF m
<1>8. CASE OrderGone(r, t, N, M, n)
  <2>1. /\ m.amount = n /\ DOMAIN r = DOMAIN t
        /\ \A i \in DOMAIN t : i # 1 => r[i] = t[i]
    BY <1>1, <1>3, <1>5, <1>8 DEF OrderGone
  <2>2. ASSUME NEW j \in DOMAIN r[1]
        PROVE  j + 1 \in DOMAIN t[1] /\ j + 1 # 1 /\ r[1][j] = t[1][j + 1]
    <3>1. DOMAIN r[1] = 1 .. M - 1 /\ \A k \in 1 .. M - 1 : r[1][k] = t[1][k + 1]
      BY <1>3, <1>5, <1>8, <2>1 DEF OrderGone
    <3>2. j \in 1 .. M - 1
      BY <3>1
    <3>3. j + 1 \in 1 .. M /\ j + 1 # 1
      BY <1>1, <3>2
    <3> QED BY <1>1, <3>1, <3>2, <3>3
  <2>3. ASSUME NEW j \in DOMAIN t[1], j # 1
        PROVE  \E v \in DOMAIN r[1] : r[1][v] = t[1][j]
    <3> DEFINE v == j - 1
    <3>1. v \in DOMAIN r[1] /\ v + 1 = j
      BY <1>1, <1>3, <1>5, <1>8, <2>1, <2>3 DEF OrderGone
    <3> HIDE DEF v
    <3> QED BY <2>2, <3>1
  <2>4. ASSUME NEW o PROVE o \in OrdersOf(r) <=> o \in OrdersOf(t) /\ o # m
    <3>1. ASSUME NEW i \in DOMAIN r, NEW j \in DOMAIN r[i], o = r[i][j]
          PROVE  o \in OrdersOf(t) /\ o # m
      <4>1. CASE i = 1
        <5>1. j + 1 \in DOMAIN t[1] /\ j + 1 # 1 /\ o = t[1][j + 1]
          BY <2>2, <3>1, <4>1
        <5> QED BY <1>5, <1>6, <5>1, OrdersOfMember
      <4>2. CASE i # 1
        BY <1>6, <2>1, <3>1, <4>2, OrdersOfMember
      <4> QED BY <4>1, <4>2
    <3>2. ASSUME NEW i \in DOMAIN t, NEW j \in DOMAIN t[i], o = t[i][j], o # m
          PROVE  o \in OrdersOf(r)
      <4>1. CASE i = 1
        <5>1. j # 1
          BY <1>5, <3>2, <4>1
        <5>2. PICK v \in DOMAIN r[1] : r[1][v] = t[1][j]
          BY <2>3, <4>1, <5>1
        <5> QED BY <1>5, <2>1, <3>2, <4>1, <5>2, OrdersOfMember
      <4>2. CASE i # 1
        BY <2>1, <3>2, <4>2, OrdersOfMember
      <4> QED BY <4>1, <4>2
    <3> QED BY <3>1, <3>2, OrdersOfMember
  <2>5. OrdersOf(r) = Reduced(OrdersOf(t), m, n)
    BY <2>1, <2>4 DEF Reduced
  <2>6. LaterIn(r, t)
    BY <1>5, <2>1, <2>2 DEF LaterIn
  <2> QED BY <2>5, <2>6 DEF m
<1>9. CASE OrderReduced(r, t, N, M, n)
  <2>1. /\ m.amount # n /\ DOMAIN r = DOMAIN t /\ DOMAIN r[1] = DOMAIN t[1]
        /\ r[1][1] = Remainder(m, n)
        /\ \A i \in DOMAIN t : i # 1 => r[i] = t[i]
        /\ \A j \in DOMAIN t[1] : j # 1 => r[1][j] = t[1][j]
    BY <1>1, <1>3, <1>5, <1>9 DEF OrderReduced
  <2>2. ASSUME NEW o
        PROVE  o \in OrdersOf(r) <=> (o \in OrdersOf(t) /\ o # m) \/ o = Remainder(m, n)
    <3>1. ASSUME NEW i \in DOMAIN r, NEW j \in DOMAIN r[i], o = r[i][j]
          PROVE  (o \in OrdersOf(t) /\ o # m) \/ o = Remainder(m, n)
      <4>1. CASE i = 1 /\ j = 1
        BY <2>1, <3>1, <4>1
      <4>2. CASE ~(i = 1 /\ j = 1)
        <5>1. j \in DOMAIN t[i] /\ r[i][j] = t[i][j]
          BY <2>1, <4>2
        <5> QED BY <1>6, <2>1, <3>1, <4>2, <5>1, OrdersOfMember
      <4> QED BY <4>1, <4>2
    <3>2. ASSUME NEW i \in DOMAIN t, NEW j \in DOMAIN t[i], o = t[i][j], o # m
          PROVE  o \in OrdersOf(r)
      <4>1. i # 1 \/ j # 1
        BY <1>5, <3>2
      <4>2. j \in DOMAIN r[i] /\ r[i][j] = t[i][j]
        BY <2>1, <4>1
      <4> QED BY <2>1, <3>2, <4>2, OrdersOfMember
    <3>3. Remainder(m, n) \in OrdersOf(r)
      BY <1>5, <2>1, OrdersOfMember
    <3> QED BY <3>1, <3>2, <3>3, OrdersOfMember
  <2>3. OrdersOf(r) = Reduced(OrdersOf(t), m, n)
    BY <2>1, <2>2 DEF Reduced
  <2>4. LaterIn(r, t)
    BY <2>1 DEF LaterIn
  <2> QED BY <2>3, <2>4 DEF m
<1> QED BY <1>2, <1>7, <1>8, <1>9

\* The orders of r that do not lead their level, but for o, which may also be
\* behind orders of its own price, do not lead it in t either.
LaterOrJoined(r, t, o) ==
  \A i \in DOMAIN r : \A j \in DOMAIN r[i] :
    j # 1 =>
      \/ r[i][j] = o /\ \E u \in DOMAIN t : t[u][1].price = o.price
      \/ \E u \in DOMAIN t : \E v \in DOMAIN t[u] : v # 1 /\ r[i][j] = t[u][v]

\* AddToOrderTable adds its order, and brings no other order forward or back.
LEMMA OrdersAfterAdd ==
  ASSUME NEW t \in Table, NoEmptyLevel(t), NEW o \in Order,
         NEW N \in Nat, N = Len(t), NEW k \in 1 .. N + 1,
         NEW r, r = AddToOrderTable(t, o, k)
  PROVE  OrdersOf(r) = OrdersOf(t) \cup {o} /\ LaterOrJoined(r, t, o)
<1>1. r \in Table /\ (JoinsLevel(r, t, N, k, o) \/ OpensLevel(r, t, N, k, o))
  BY AddToOrderTableFacts
<1>2. /\ DOMAIN t = 1 .. N
      /\ \A i \in DOMAIN t : t[i] \in Seq(Order) /\ DOMAIN t[i] = 1 .. Len(t[i])
  BY DomainFacts
<1>3. DOMAIN r = 1 .. Len(r)
  BY <1>1, DomainFacts
<1>4. CASE JoinsLevel(r, t, N, k, o)
  <2> DEFINE l == t[k]
             L == Len(l)
  <2>1. /\ k \in DOMAIN t /\ DOMAIN r = DOMAIN t /\ o.price = t[k][1].price
        /\ \A i \in DOMAIN r : i # k => r[i] = t[i]
        /\ r[k] = Append(l, o)
    BY <1>2, <1>3, <1>4 DEF JoinsLevel
  <2>2. l \in Seq(Order) /\ L \in Nat /\ DOMAIN l = 1 .. L
    BY <1>2, <2>1
  <2> HIDE DEF L
  <2>3. /\ DOMAIN r[k] = 1 .. L + 1 /\ \A j \in 1 .. L : r[k][j] = l[j]
        /\ r[k][L + 1] = o
    <3> HIDE DEF l
    <3> QED BY <2>1, <2>2, AppendProperties DEF L
  <2>4. /\ L + 1 \in DOMAIN r[k] /\ \A j \in DOMAIN l : j \in DOMAIN r[k]
        /\ \A j \in DOMAIN r[k] : j = L + 1 \/ j \in DOMAIN l
    BY <2>2, <2>3
  <2>5. ASSUME NEW i \in DOMAIN r, NEW j \in DOMAIN r[i]
        PROVE  \/ r[i][j] = o /\ i = k
               \/ j \in DOMAIN t[i] /\ r[i][j] = t[i][j]
    BY <2>1, <2>2, <2>3, <2>4
  <2>6. ASSUME NEW i \in DOMAIN t, NEW j \in DOMAIN t[i]
        PROVE  j \in DOMAIN r[i] /\ r[i][j] = t[i][j]
    BY <2>1, <2>2, <2>3, <2>4
  <2>7. ASSUME NEW x PROVE x \in OrdersOf(r) <=> x \in OrdersOf(t) \/ x = o
    <3>1. ASSUME NEW i \in DOMAIN r, NEW j \in DOMAIN r[i], x = r[i][j]
          PROVE  x \in OrdersOf(t) \/ x = o
      BY <2>1, <2>5, <3>1, OrdersOfMember
    <3>2. ASSUME NEW i \in DOMAIN t, NEW j \in DOMAIN t[i], x = t[i][j]
          PROVE  x \in OrdersOf(r)
      BY <2>1, <2>6, <3>2, OrdersOfMember
    <3>3. o \in OrdersOf(r)
      BY <2>1, <2>3, <2>4, OrdersOfMember
    <3> QED BY <3>1, <3>2, <3>3, OrdersOfMember
  <2>8. LaterOrJoined(r, t, o)
    BY <2>1, <2>5 DEF LaterOrJoined
  <2> QED BY <2>7, <2>8
<1>5. CASE OpensLevel(r, t, N, k, o)
  <2> DEFINE n == N + 1
  <2>1. DOMAIN r = 1 .. n /\ n \in Nat /\ k \in 1 .. n /\ r[k] = <<o>>
    <3>1. n = Len(r) /\ r[k] = <<o>>
      BY <1>5 DEF OpensLevel
    <3>2. k \in 1 .. n /\ n \in Nat
      OBVIOUS
    <3> HIDE DEF n
    <3> QED BY <1>3, <3>1, <3>2
  <2>2. ASSUME NEW i \in DOMAIN r
        PROVE  r[i] = <<o>> \/ \E u \in DOMAIN t : r[i] = t[u]
    <3>1. CASE i < k
      <4>1. i \in 1 .. N
        BY <2>1, <3>1
      <4> QED BY <1>2, <1>5, <3>1, <4>1 DEF OpensLevel
    <3>2. CASE i = k
      BY <2>1, <3>2
    <3>3. CASE i > k
      <4> DEFINE u == i - 1
      <4>1. u \in 1 .. N /\ u >= k /\ u + 1 = i
        BY <2>1, <3>3
      <4>2. r[u + 1] = t[u]
        BY <1>5, <4>1 DEF OpensLevel
      <4> QED BY <1>2, <4>1, <4>2
    <3> QED BY <2>1, <3>1, <3>2, <3>3
  <2>3. ASSUME NEW i \in DOMAIN t
        PROVE  \E u \in DOMAIN r : r[u] = t[i]
    <3>1. i \in 1 .. N /\ i \in 1 .. n /\ i + 1 \in 1 .. n
      BY <1>2
    <3>2. i < k \/ i >= k
      BY <3>1
    <3> QED BY <1>5, <2>1, <3>1, <3>2 DEF OpensLevel
  <2>4. DOMAIN <<o>> = {1} /\ <<o>>[1] = o
    OBVIOUS
  <2>5. ASSUME NEW x PROVE x \in OrdersOf(r) <=> x \in OrdersOf(t) \/ x = o
    <3>1. ASSUME NEW i \in DOMAIN r, NEW j \in DOMAIN r[i], x = r[i][j]
          PROVE  x \in OrdersOf(t) \/ x = o
      <4>1. CASE r[i] = <<o>>
        BY <2>4, <3>1, <4>1
      <4>2. CASE \E u \in DOMAIN t : r[i] = t[u]
        BY <3>1, <4>2, OrdersOfMember
      <4> QED BY <2>2, <4>1, <4>2
    <3>2. ASSUME NEW i \in DOMAIN t, NEW j \in DOMAIN t[i], x = t[i][j]
          PROVE  x \in OrdersOf(r)
      BY <2>3, <3>2, OrdersOfMember
    <3>3. o \in OrdersOf(r)
      <4>1. 1 \in DOMAIN r[k] /\ r[k][1] = o
        BY <2>1, <2>4
      <4> QED BY <2>1, <4>1, OrdersOfMember
    <3> QED BY <3>1, <3>2, <3>3, OrdersOfMember
  <2>6. LaterOrJoined(r, t, o)
    <3> SUFFICES ASSUME NEW i \in DOMAIN r, NEW j \in DOMAIN r[i], j # 1
                 PROVE  \E u \in DOMAIN t : \E v \in DOMAIN t[u] : v # 1 /\ r[i][j] = t[u][v]
      BY DEF LaterOrJoined
    <3>1. r[i] # <<o>>
      BY <2>4
    <3> QED BY <2>2, <3>1
  <2> QED BY <2>5, <2>6
<1> QED BY <1>1, <1>4, <1>5

-----------------------------------------------------------------------------
(* The book and what has been received and traded.                         *)

\* A taker that has begun to trade has no resting order of its side at its
\* price: what remains of it will open a level of its own.
NoPeers ==
  phase = "matching" /\ filled[taker.id] > 0 =>
    \A i \in DOMAIN table[taker.side] : table[taker.side][i][1].price # taker.price

LEMMA RemainderTwice ==
  ASSUME NEW o \in Order, NEW a \in Nat, NEW b \in Nat
  PROVE  Remainder(Remainder(o, a), b) = Remainder(o, a + b)
<1> DEFINE With(x) == [id |-> o.id, side |-> o.side, price |-> o.price, amount |-> x]
           c == a + b
<1>1. ASSUME NEW n \in Nat PROVE Remainder(o, n) = With(o.amount - n)
  BY DEF Remainder, Order
<1>2. Remainder(With(o.amount - a), b) = With((o.amount - a) - b)
  BY DEF Remainder
<1>3. o.amount \in Nat /\ c \in Nat /\ (o.amount - a) - b = o.amount - c
  BY DEF Order
<1> HIDE DEF With, c
<1>4. Remainder(Remainder(o, a), b) = With(o.amount - c) /\ Remainder(o, c) = With(o.amount - c)
  BY <1>1, <1>2, <1>3
<1> QED BY <1>4 DEF c

LEMMA RemainderOfNothing ==
  ASSUME NEW o \in Order
  PROVE  Remainder(o, 0) = o
BY DEF Remainder, Order

\* What AmountsConserved says of one open order.
Accounted(o) ==
  /\ o.id \in DOMAIN received
  /\ o = Remainder(received[o.id], filled[o.id])
  /\ filled[o.id] <= received[o.id].amount

LEMMA AccountedFacts ==
  ASSUME received \in Seq(Order), filled \in Seq(Nat), Len(filled) = Len(received),
         NEW o, Accounted(o)
  PROVE  /\ o \in Order /\ received[o.id] \in Order /\ filled[o.id] \in Nat
         /\ o.id = received[o.id].id
         /\ o.side = received[o.id].side
         /\ o.price = received[o.id].price
         /\ o.amount = received[o.id].amount - filled[o.id]
<1>1. received[o.id] \in Order /\ filled[o.id] \in Nat
  BY DEF Accounted
<1>2. o = Remainder(received[o.id], filled[o.id]) /\ filled[o.id] <= received[o.id].amount
  BY DEF Accounted
<1> QED BY <1>1, <1>2, RemainderFacts

LEMMA OpenAccounted ==
  AmountsConserved <=>
    /\ \A o \in Open : Accounted(o)
    /\ \A i \in DOMAIN received :
         (\A o \in Open : o.id # i) => filled[i] = received[i].amount
BY DEF AmountsConserved, Accounted

\* Open orders of the same id are the same order.
LEMMA OpenUnique ==
  ASSUME AmountsConserved, NEW o \in Open, NEW p \in Open, o.id = p.id
  PROVE  o = p
BY OpenAccounted DEF Accounted

LEMMA RestingIsOpen == Resting \subseteq Open
BY DEF Open

\* In the book no order stands twice.
LEMMA OneEachAlways ==
  ASSUME BookInv, AmountsConserved, NEW s \in Side
  PROVE  OneEach(table[s])
<1> DEFINE t == table[s]
<1>1. t \in Table /\ Sorted(t, s)
  BY OrderedFacts DEF BookInv, TypeOK, Table
<1>2. received \in Seq(Order) /\ filled \in Seq(Nat) /\ Len(filled) = Len(received)
  BY DEF BookInv, TypeOK, Arrivals
<1>3. ASSUME NEW i \in DOMAIN t, NEW j \in DOMAIN t[i]
      PROVE  t[i][j].price = received[t[i][j].id].price
  <2>1. t[i][j] \in Open
    BY RestingMember, OrdersOfMember, RestingIsOpen
  <2>2. Accounted(t[i][j])
    BY <2>1, OpenAccounted
  <2> QED BY <1>2, <2>2, AccountedFacts
<1> HIDE DEF t
<1>4. ASSUME NEW i \in DOMAIN t, NEW k \in DOMAIN t, i < k
      PROVE  t[i][1].price # t[k][1].price
  <2>1. Better(s, t[i][1].price, t[k][1].price)
    BY <1>1, <1>4 DEF Sorted, PricesSorted
  <2>2. /\ t[i] \in Seq(Order) /\ t[i] # <<>> /\ t[k] \in Seq(Order) /\ t[k] # <<>>
    BY <1>1, DomainFacts DEF Sorted, WellFormed
  <2>3. t[i][1] \in Order /\ t[k][1] \in Order
    BY <2>2, NonEmptySeq
  <2>4. t[i][1].price \in Int /\ t[k][1].price \in Int
    BY <2>3, PriceAssumption DEF Order
  <2> QED BY <2>1, <2>4 DEF Better
<1>5. ASSUME NEW i \in DOMAIN t, NEW k \in DOMAIN t,
             NEW j \in DOMAIN t[i], NEW l \in DOMAIN t[k], t[i][j].id = t[k][l].id
      PROVE  i = k /\ j = l
  <2>1. t[i][j].price = t[k][l].price
    BY <1>3, <1>5
  <2>2. t[i][1].price = t[k][1].price
    BY <1>1, <2>1 DEF Sorted, WellFormed
  <2>3. i \in Nat /\ k \in Nat /\ j \in Nat /\ l \in Nat
    BY <1>1, DomainFacts
  <2>4. i = k
    BY <1>4, <2>2, <2>3
  <2>5. ASSUME NEW x \in DOMAIN t[i], NEW y \in DOMAIN t[i], x < y
        PROVE  t[i][x].id # t[i][y].id
    <3>1. t[i][x].id < t[i][y].id
      BY <1>1, <2>5 DEF Sorted, ArrivalsSorted
    <3>2. t[i][x] \in Order /\ t[i][y] \in Order
      BY <1>1, DomainFacts
    <3> QED BY <3>1, <3>2 DEF Order
  <2>6. j = l
    BY <1>5, <2>3, <2>4, <2>5
  <2> QED BY <2>4, <2>6
<1> QED BY <1>5 DEF OneEach, t

\* Everything a trade with the front order does to the book: the front order
\* is one of the other side that the taker crosses, and all other resting
\* orders stay as they are.
LEMMA TradeFacts ==
  ASSUME BookInv, AmountsConserved, TradeWithFront,
         NEW m, m = FrontMaker, NEW n, n = TradeAmount(m, taker)
  PROVE  /\ taker \in Order /\ taker.id = Len(received) /\ taker.id \in DOMAIN received
         /\ taker \in Open /\ Open = Resting \cup {taker}
         /\ m \in Order /\ m \in Resting /\ m.side = Opposite(taker.side) /\ m.id < taker.id
         /\ m.amount > 0 /\ Crosses(taker, m)
         /\ n \in Nat /\ n <= m.amount /\ n <= taker.amount
         /\ Resting' = Reduced(Resting, m, n)
         /\ Open' = Reduced(Resting, m, n) \cup {Remainder(taker, n)}
         /\ \A s \in Side : LaterIn(table'[s], table[s]) \/ table'[s] = table[s]
<1> DEFINE o == Opposite(taker.side)
           t == table[o]
           r == AfterTrade(t, n)
<1>1. /\ table \in [Side -> Table] /\ taker \in Order /\ taker.id = Len(received)
      /\ phase = "matching" /\ t # <<>> /\ Crosses(taker, m)
      /\ \A s \in Side : Sorted(table[s], s)
  BY OrderedFacts
     DEF BookInv, TypeOK, Arrivals, TradeWithFront, CanMatch, MakerTable, FrontMaker, Table
<1>2. o \in Side /\ t \in Table /\ Sorted(t, o)
  BY <1>1, SideFacts DEF Order
<1>3. NoEmptyLevel(t)
  BY <1>2 DEF NoEmptyLevel, Sorted, WellFormed
<1>4. m = t[1][1] /\ m \in Order /\ 1 \in DOMAIN t /\ 1 \in DOMAIN t[1]
  <2>1. m = Head(Head(t))
    BY DEF FrontMaker, MakerTable
  <2> QED BY <1>1, <1>2, <1>3, <2>1, FrontFacts
<1>5. n \in Nat /\ n <= m.amount /\ n <= taker.amount
  BY <1>1, <1>4, TradeAmountFacts
<1>6. m.side = o /\ m.amount > 0 /\ m.id < taker.id /\ m \in Resting
  <2>1. m \in OrdersOf(t)
    BY <1>4, OrdersOfMember
  <2>2. m.id < taker.id
    BY <1>1, <1>2, <1>4 DEF BookInv, Arrivals
  <2>3. m.side = o /\ m.amount > 0
    BY <1>2, <1>4 DEF Sorted, WellFormed
  <2> QED BY <1>2, <2>1, <2>2, <2>3, RestingMember
<1>7. /\ table' = [table EXCEPT ![o] = r]
      /\ taker' = Remainder(taker, n) /\ phase' = phase
  BY DEF TradeWithFront, FrontMaker, MakerTable
<1>8. OrdersOf(r) = Reduced(OrdersOf(t), m, n) /\ LaterIn(r, t)
  <2>1. OneEach(t)
    BY <1>2, OneEachAlways
  <2>2. n <= t[1][1].amount
    BY <1>4, <1>5
  <2> HIDE DEF t
  <2> QED BY <1>1, <1>2, <1>3, <1>4, <1>5, <2>1, <2>2, OrdersAfterTrade
<1> HIDE DEF r
<1>9. table'[o] = r /\ \A s \in Side : s # o => table'[s] = table[s]
  BY <1>1, <1>2, <1>7
<1>10. Resting' = Reduced(Resting, m, n)
  <2>1. ASSUME NEW x PROVE x \in Resting' <=> \E s \in Side : x \in OrdersOf(table'[s])
    BY DEF Resting, OrdersOf
  <2>2. ASSUME NEW s \in Side, s # o, NEW x \in OrdersOf(table[s]) PROVE x.side # o /\ x # m
    <3>1. x.side = s
      BY <1>1, <2>2, OrdersOfMember DEF Sorted, WellFormed
    <3> QED BY <1>6, <2>2, <3>1
  <2> HIDE DEF o
  <2>3. ASSUME NEW x PROVE x \in Resting' <=> x \in Reduced(Resting, m, n)
    <3>1. x \in OrdersOf(r) <=> x \in Reduced(OrdersOf(table[o]), m, n)
      BY <1>8
    <3>2. ASSUME NEW s \in Side, s # o
          PROVE  x \in OrdersOf(table'[s]) <=> x \in OrdersOf(table[s]) /\ x # m
      BY <1>9, <2>2, <3>2
    <3>3. x \in Resting' <=> \/ x \in Reduced(OrdersOf(table[o]), m, n)
                             \/ \E s \in Side : s # o /\ x \in OrdersOf(table[s]) /\ x # m
      BY <1>2, <1>9, <2>1, <3>1, <3>2
    <3>4. x \in Resting <=> \/ x \in OrdersOf(table[o])
                            \/ \E s \in Side : s # o /\ x \in OrdersOf(table[s])
      BY <1>2, RestingMember
    <3> QED BY <3>3, <3>4 DEF Reduced
  <2> QED BY <2>3
<1>11. Open = Resting \cup {taker} /\ Open' = Resting' \cup {taker'}
  BY <1>1, <1>7 DEF Open
<1>12. taker.id \in DOMAIN received
  BY <1>1 DEF Order, BookInv, TypeOK
<1>13. \A s \in Side : LaterIn(table'[s], table[s]) \/ table'[s] = table[s]
  BY <1>8, <1>9
<1> QED BY <1>1, <1>4, <1>5, <1>6, <1>7, <1>10, <1>11, <1>12, <1>13

\* Everything that putting the remainder to rest does to the book.
LEMMA RestFacts ==
  ASSUME BookInv, RestRemainder
  PROVE  /\ taker \in Order /\ taker.id = Len(received) /\ taker.id \in DOMAIN received
         /\ Open = Resting \cup {taker} /\ Open' = Resting'
         /\ Resting' = Resting \cup (IF taker.amount = 0 THEN {} ELSE {taker})
         /\ \A s \in Side :
              \/ table'[s] = table[s]
              \/ s = taker.side /\ LaterOrJoined(table'[s], table[s], taker)
<1>1. /\ table \in [Side -> Table] /\ taker \in Order /\ taker.id = Len(received)
      /\ phase = "matching" /\ phase' = "sending" /\ taker' = taker
      /\ \A s \in Side : Sorted(table[s], s)
      /\ received \in Seq(Order)
  BY OrderedFacts DEF BookInv, TypeOK, Arrivals, RestRemainder, Table
<1>2. Open = Resting \cup {taker} /\ Open' = Resting' /\ taker.id \in DOMAIN received
  BY <1>1 DEF Open, Order
<1>3. CASE taker.amount = 0 /\ UNCHANGED table
  BY <1>1, <1>2, <1>3 DEF Resting
<1>4. CASE taker.amount # 0
  <2> DEFINE s == taker.side
             t == table[s]
             N == Len(t)
  <2>1. PICK k \in 1 .. N + 1 : table' = [table EXCEPT ![s] = AddToOrderTable(t, taker, k)]
    BY <1>4 DEF RestRemainder
  <2> DEFINE r == AddToOrderTable(t, taker, k)
  <2>2. s \in Side /\ t \in Table /\ NoEmptyLevel(t) /\ N \in Nat
    BY <1>1, DomainFacts DEF Order, NoEmptyLevel, Sorted, WellFormed
  <2>3. OrdersOf(r) = OrdersOf(t) \cup {taker} /\ LaterOrJoined(r, t, taker)
    <3> HIDE DEF t
    <3> QED BY <1>1, <2>2, OrdersAfterAdd
  <2> HIDE DEF r
  <2>4. table'[s] = r /\ \A x \in Side : x # s => table'[x] = table[x]
    BY <1>1, <2>1, <2>2 DEF r
  <2>5. Resting' = Resting \cup {taker}
    <3>1. ASSUME NEW x PROVE x \in Resting' <=> \E y \in Side : x \in OrdersOf(table'[y])
      BY DEF Resting, OrdersOf
    <3> HIDE DEF s
    <3>2. ASSUME NEW x PROVE x \in Resting' <=> x \in Resting \/ x = taker
      BY <2>2, <2>3, <2>4, <3>1, RestingMember
    <3> QED BY <3>2
  <2> QED BY <1>1, <1>2, <1>4, <2>3, <2>4, <2>5
<1> QED BY <1>3, <1>4 DEF RestRemainder

-----------------------------------------------------------------------------
(* Amounts are conserved by every step.                                    *)

\* The types the proofs below need of the histories.
LEMMA HistoryTypes ==
  ASSUME BookInv
  PROVE  /\ received \in Seq(Order) /\ filled \in Seq(Nat) /\ trades \in Seq(Trade)
         /\ Len(received) \in Nat /\ Len(filled) = Len(received)
         /\ DOMAIN received = 1 .. Len(received) /\ DOMAIN filled = DOMAIN received
         /\ \A i \in DOMAIN received : received[i] \in Order /\ filled[i] \in Nat
<1>1. /\ received \in Seq(Order) /\ filled \in Seq(Nat) /\ trades \in Seq(Trade)
      /\ Len(filled) = Len(received)
  BY DEF BookInv, TypeOK, Arrivals
<1>2. DOMAIN received = 1 .. Len(received) /\ DOMAIN filled = DOMAIN received
  BY <1>1
<1> QED BY <1>1, <1>2

\* What the arrival of an order does to the histories.
LEMMA ReceiveFacts ==
  ASSUME BookInv, ReceiveOrder
  PROVE  /\ phase = "idle" /\ phase' = "matching" /\ table' = table /\ trades' = trades
         /\ taker' \in Order /\ taker'.id = Len(received) + 1
         /\ Len(received) + 1 \in DOMAIN received'
         /\ DOMAIN received' = DOMAIN received \cup {Len(received) + 1}
         /\ \A i \in DOMAIN received : received'[i] = received[i] /\ filled'[i] = filled[i]
         /\ received'[Len(received) + 1] = taker' /\ filled'[Len(received) + 1] = 0
<1> DEFINE L == Len(received)
           L1 == L + 1
<1>1. PICK s \in Side, p \in Price, a \in Amount :
        LET order == [id |-> Len(received) + 1, side |-> s, price |-> p, amount |-> a]
        IN taker' = order /\ received' = Append(received, order)
  BY DEF ReceiveOrder
<1>2. /\ received \in Seq(Order) /\ filled \in Seq(Nat) /\ L \in Nat /\ L = Len(filled)
      /\ DOMAIN received = 1 .. L
  BY HistoryTypes
<1>3. taker' \in Order /\ taker'.id = L1
  BY <1>1, <1>2, AmountAssumption DEF Order
<1>4. received' = Append(received, taker') /\ filled' = Append(filled, 0)
  BY <1>1 DEF ReceiveOrder
<1>5. L1 \in 1 .. L1 /\ 1 .. L1 = 1 .. L \cup {L1}
  BY <1>2
<1> DEFINE x == taker'
<1> HIDE DEF L, x
<1>6. /\ DOMAIN received' = 1 .. L + 1
      /\ \A i \in 1 .. L : received'[i] = received[i] /\ filled'[i] = filled[i]
      /\ received'[L + 1] = x /\ filled'[L + 1] = 0
  BY <1>2, <1>3, <1>4, AppendProperties DEF L, x
<1> QED BY <1>2, <1>3, <1>5, <1>6 DEF ReceiveOrder, L, x

LEMMA ConservedReceiveOrder ==
  ASSUME BookInv, AmountsConserved, ReceiveOrder
  PROVE  AmountsConserved'
<1> DEFINE L1 == Len(received) + 1
<1>1. /\ phase = "idle" /\ phase' = "matching" /\ table' = table
      /\ taker' \in Order /\ taker'.id = L1 /\ L1 \in DOMAIN received'
      /\ DOMAIN received' = DOMAIN received \cup {L1}
      /\ \A i \in DOMAIN received : received'[i] = received[i] /\ filled'[i] = filled[i]
      /\ received'[L1] = taker' /\ filled'[L1] = 0
  BY ReceiveFacts
<1> HIDE DEF L1
<1>2. Open = Resting /\ Open' = Resting \cup {taker'}
  BY <1>1 DEF Open, Resting
<1>3. ASSUME NEW o \in Resting
      PROVE  /\ o.id \in DOMAIN received'
             /\ o = Remainder(received'[o.id], filled'[o.id])
             /\ filled'[o.id] <= received'[o.id].amount
  <2>1. Accounted(o)
    BY <1>2, OpenAccounted
  <2> QED BY <1>1, <2>1 DEF Accounted
<1>4. taker' = Remainder(received'[L1], filled'[L1]) /\ filled'[L1] <= received'[L1].amount
  <2>1. taker' = Remainder(taker', 0)
    BY <1>1, RemainderOfNothing
  <2>2. 0 <= taker'.amount
    BY <1>1 DEF Order
  <2> QED BY <1>1, <2>1, <2>2
<1>5. ASSUME NEW i \in DOMAIN received', \A o \in Open' : o.id # i
      PROVE  filled'[i] = received'[i].amount
  <2>1. i # L1
    BY <1>1, <1>2, <1>5
  <2>2. i \in DOMAIN received /\ \A o \in Open : o.id # i
    BY <1>1, <1>2, <1>5, <2>1
  <2>3. filled[i] = received[i].amount
    BY <2>2, OpenAccounted
  <2> QED BY <1>1, <2>2, <2>3
<1> QED BY <1>1, <1>2, <1>3, <1>4, <1>5 DEF AmountsConserved

\* What a trade does to the amounts that have been filled.
LEMMA TradeFilled ==
  ASSUME BookInv, AmountsConserved, TradeWithFront,
         NEW m, m = FrontMaker, NEW n, n = TradeAmount(m, taker)
  PROVE  /\ m.id \in DOMAIN received /\ taker.id \in DOMAIN received /\ m.id # taker.id
         /\ received' = received
         /\ filled'[m.id] = filled[m.id] + n /\ filled'[taker.id] = filled[taker.id] + n
         /\ \A i \in DOMAIN received : i # m.id /\ i # taker.id => filled'[i] = filled[i]
<1>1. /\ taker.id \in DOMAIN received /\ taker \in Order /\ m \in Order
      /\ m \in Resting /\ m.id < taker.id /\ n \in Nat
  BY TradeFacts
<1>2. Accounted(m)
  BY <1>1, RestingIsOpen, OpenAccounted
<1>3. m.id \in DOMAIN received /\ m.id # taker.id
  BY <1>1, <1>2 DEF Accounted, Order
<1>4. filled' = [filled EXCEPT ![m.id] = @ + n, ![taker.id] = @ + n] /\ received' = received
  BY DEF TradeWithFront
<1>5. filled \in Seq(Nat) /\ DOMAIN filled = DOMAIN received
  BY HistoryTypes
<1> QED BY <1>1, <1>3, <1>4, <1>5

LEMMA ConservedTradeWithFront ==
  ASSUME BookInv, AmountsConserved, TradeWithFront
  PROVE  AmountsConserved'
<1> DEFINE m == FrontMaker
           n == TradeAmount(m, taker)
<1>1. /\ taker \in Order /\ taker \in Open /\ Open = Resting \cup {taker}
      /\ m \in Order /\ m \in Resting /\ m.id < taker.id
      /\ n \in Nat /\ n <= m.amount /\ n <= taker.amount
      /\ Open' = Reduced(Resting, m, n) \cup {Remainder(taker, n)}
  BY TradeFacts
<1>2. /\ m.id \in DOMAIN received /\ taker.id \in DOMAIN received /\ m.id # taker.id
      /\ received' = received
      /\ filled'[m.id] = filled[m.id] + n /\ filled'[taker.id] = filled[taker.id] + n
      /\ \A i \in DOMAIN received : i # m.id /\ i # taker.id => filled'[i] = filled[i]
  BY TradeFilled
<1> HIDE DEF m, n
<1>3. ASSUME NEW o \in Open, o = m \/ o = taker
      PROVE  /\ Remainder(o, n).id = o.id
             /\ Remainder(o, n) = Remainder(received[o.id], filled[o.id] + n)
             /\ filled[o.id] + n <= received[o.id].amount
             /\ o.amount = n => filled[o.id] + n = received[o.id].amount
  <2>1. Accounted(o) /\ o \in Order /\ n <= o.amount
    BY <1>1, <1>3, OpenAccounted
  <2> DEFINE R == received[o.id]
             F == filled[o.id]
  <2>2. /\ R \in Order /\ F \in Nat /\ o.amount = R.amount - F
        /\ o = Remainder(R, F)
    BY <2>1, HistoryTypes, AccountedFacts DEF Accounted
  <2>3. Remainder(o, n).id = o.id
    BY <1>1, <2>1, RemainderFacts
  <2> HIDE DEF R, F
  <2>4. Remainder(o, n) = Remainder(R, F + n)
    BY <1>1, <2>2, RemainderTwice
  <2>5. F + n <= R.amount /\ (o.amount = n => F + n = R.amount)
    <3>1. R.amount \in Nat /\ o.amount \in Nat
      BY <2>1, <2>2 DEF Order
    <3> QED BY <1>1, <2>1, <2>2, <3>1
  <2> QED BY <2>3, <2>4, <2>5 DEF R, F
<1>4. ASSUME NEW o \in Resting, o # m
      PROVE  o.id # m.id /\ o.id # taker.id
  <2>1. o.id # m.id
    BY <1>1, <1>4, OpenUnique
  <2>2. o.id < taker.id
    <3>1. PICK s \in Side : o \in OrdersOf(table[s])
      BY RestingMember
    <3> QED BY <3>1, OrdersOfMember DEF BookInv, Arrivals, TradeWithFront
  <2>3. o \in Order
    BY HistoryTypes, AccountedFacts, OpenAccounted, RestingIsOpen
  <2> QED BY <1>1, <2>1, <2>2, <2>3 DEF Order
<1>5. ASSUME NEW o \in Open'
      PROVE  /\ o.id \in DOMAIN received'
             /\ o = Remainder(received'[o.id], filled'[o.id])
             /\ filled'[o.id] <= received'[o.id].amount
  <2>1. CASE o \in Resting /\ o # m
    <3>1. Accounted(o)
      BY <1>1, <2>1, OpenAccounted
    <3> QED BY <1>2, <1>4, <2>1, <3>1 DEF Accounted
  <2>2. CASE o = Remainder(m, n)
    BY <1>1, <1>2, <1>3, <2>2
  <2>3. CASE o = Remainder(taker, n)
    BY <1>1, <1>2, <1>3, <2>3
  <2> QED BY <1>1, <2>1, <2>2, <2>3 DEF Reduced
<1>6. ASSUME NEW i \in DOMAIN received', \A o \in Open' : o.id # i
      PROVE  filled'[i] = received'[i].amount
  <2>1. i # taker.id
    BY <1>1, <1>3, <1>6
  <2>2. CASE i = m.id
    <3>1. m.amount = n
      BY <1>1, <1>3, <1>6, <2>2 DEF Reduced
    <3> QED BY <1>1, <1>2, <1>3, <2>2, <3>1
  <2>3. CASE i # m.id
    <3>1. \A o \in Open : o.id # i
      BY <1>1, <1>6, <2>1, <2>3 DEF Reduced
    <3>2. filled[i] = received[i].amount
      BY <1>2, <3>1, OpenAccounted
    <3> QED BY <1>2, <2>1, <2>3, <3>2
  <2> QED BY <2>2, <2>3
<1> QED BY <1>5, <1>6 DEF AmountsConserved

LEMMA ConservedRestRemainder ==
  ASSUME BookInv, AmountsConserved, RestRemainder
  PROVE  AmountsConserved'
<1>1. /\ taker \in Order /\ Open = Resting \cup {taker}
      /\ Open' = Resting \cup (IF taker.amount = 0 THEN {} ELSE {taker})
  BY RestFacts
<1>2. received' = received /\ filled' = filled
  BY DEF RestRemainder, ghosts
<1>3. Open' \subseteq Open /\ \A o \in Open : o \in Open' \/ (o = taker /\ taker.amount = 0)
  BY <1>1
<1>4. ASSUME NEW i \in DOMAIN received, \A o \in Open' : o.id # i
      PROVE  filled[i] = received[i].amount
  <2>1. CASE \A o \in Open : o.id # i
    BY <2>1, OpenAccounted
  <2>2. CASE i = taker.id /\ taker.amount = 0
    <3>1. Accounted(taker)
      BY <1>1, OpenAccounted
    <3>2. /\ 0 = received[taker.id].amount - filled[taker.id]
          /\ received[taker.id] \in Order /\ filled[taker.id] \in Nat
      BY <2>2, <3>1, HistoryTypes, AccountedFacts
    <3> QED BY <2>2, <3>2 DEF Order
  <2> QED BY <1>3, <1>4, <2>1, <2>2
<1> QED BY <1>2, <1>3, <1>4 DEF AmountsConserved

\* A step that leaves the book, the histories and the open orders alone.
LEMMA ConservedElsewhere ==
  ASSUME AmountsConserved, UNCHANGED <<received, filled>>, Open' = Open
  PROVE  AmountsConserved'
BY DEF AmountsConserved

-----------------------------------------------------------------------------
(* The trades that have been made respect the orders as they arrived.      *)

\* What TradesWithinLimits says of one trade.
WithinLimits(t) ==
  /\ t.maker < t.taker /\ t.taker \in DOMAIN received
  /\ received[t.maker].side # received[t.taker].side
  /\ t.price = received[t.maker].price
  /\ Crosses(received[t.taker], received[t.maker])

LEMMA WithinLimitsAll ==
  TradesWithinLimits <=> \A i \in DOMAIN trades : WithinLimits(trades[i])
BY DEF TradesWithinLimits, WithinLimits

\* Whether two orders cross depends on the taker's side and on the prices.
LEMMA CrossesByPrice ==
  ASSUME NEW x, NEW y, NEW u, NEW v,
         x.side = u.side, x.price = u.price, y.price = v.price
  PROVE  Crosses(x, y) <=> Crosses(u, v)
BY DEF Crosses

LEMMA LimitsReceiveOrder ==
  ASSUME BookInv, TradesWithinLimits, ReceiveOrder
  PROVE  TradesWithinLimits'
<1>1. /\ trades' = trades /\ DOMAIN received \subseteq DOMAIN received'
      /\ \A i \in DOMAIN received : received'[i] = received[i]
  BY ReceiveFacts
<1>2. ASSUME NEW i \in DOMAIN trades PROVE WithinLimits(trades[i])'
  <2> DEFINE t == trades[i]
  <2>1. WithinLimits(t) /\ t' = t
    BY <1>1, WithinLimitsAll
  <2>2. t \in Trade
    BY HistoryTypes, ElementOfSeq
  <2> HIDE DEF t
  <2>3. t.maker \in DOMAIN received /\ t.taker \in DOMAIN received
    <3> DEFINE L == Len(received)
    <3>1. DOMAIN received = 1 .. L /\ L \in Nat
      BY HistoryTypes
    <3> HIDE DEF L
    <3>2. t.taker \in 1 .. L /\ t.maker < t.taker /\ t.maker \in Nat \ {0}
      BY <2>1, <2>2, <3>1 DEF WithinLimits, Trade
    <3> QED BY <3>1, <3>2
  <2>4. received'[t.maker] = received[t.maker] /\ received'[t.taker] = received[t.taker]
    BY <1>1, <2>3
  <2>5. WithinLimits(t)'
    BY <1>1, <2>1, <2>3, <2>4 DEF WithinLimits
  <2> QED BY <2>5 DEF t
<1> QED BY <1>1, <1>2 DEF TradesWithinLimits, WithinLimits

LEMMA LimitsTradeWithFront ==
  ASSUME BookInv, AmountsConserved, TradesWithinLimits, TradeWithFront
  PROVE  TradesWithinLimits'
<1> DEFINE m == FrontMaker
           t == MakeTrade(m, taker)
<1>1. /\ taker \in Order /\ taker \in Open /\ taker.id \in DOMAIN received
      /\ m \in Order /\ m \in Open /\ m.side = Opposite(taker.side) /\ m.id < taker.id
      /\ Crosses(taker, m)
  BY TradeFacts, RestingIsOpen
<1>2. trades' = Append(trades, t) /\ received' = received
  BY DEF TradeWithFront
<1> HIDE DEF m
<1>3. /\ received[m.id].side = m.side /\ received[m.id].price = m.price
      /\ received[taker.id].side = taker.side /\ received[taker.id].price = taker.price
  BY <1>1, HistoryTypes, OpenAccounted, AccountedFacts
<1>4. WithinLimits(t)
  <2>1. t.maker = m.id /\ t.taker = taker.id /\ t.price = m.price
    BY DEF MakeTrade
  <2>2. Crosses(received[taker.id], received[m.id])
    BY <1>1, <1>3, CrossesByPrice
  <2>3. m.side # taker.side
    BY <1>1, SideFacts DEF Order
  <2> QED BY <1>1, <1>3, <2>1, <2>2, <2>3 DEF WithinLimits
<1>5. trades \in Seq(Trade) /\ t \in Trade
  BY <1>1, HistoryTypes, MakeTradeType
<1> HIDE DEF t
<1>6. \A i \in DOMAIN trades' : WithinLimits(trades'[i])
  <2> DEFINE T == trades'
             n == Len(trades)
  <2>1. /\ DOMAIN T = 1 .. n + 1 /\ \A i \in 1 .. n : T[i] = trades[i]
        /\ T[n + 1] = t /\ n \in Nat /\ DOMAIN trades = 1 .. n
    BY <1>2, <1>5, AppendProperties
  <2> SUFFICES ASSUME NEW i \in DOMAIN T PROVE WithinLimits(T[i])
    OBVIOUS
  <2> HIDE DEF T, n
  <2>2. i \in 1 .. n \/ i = n + 1
    BY <2>1
  <2> QED BY <1>4, <2>1, <2>2, WithinLimitsAll
<1> QED BY <1>2, <1>6 DEF TradesWithinLimits, WithinLimits

-----------------------------------------------------------------------------
(* An order that has begun to trade leads its level.                       *)

LEMMA LeadsTradeWithFront ==
  ASSUME BookInv, AmountsConserved, PartlyFilledLeads, TradeWithFront
  PROVE  PartlyFilledLeads'
<1> DEFINE m == FrontMaker
           n == TradeAmount(m, taker)
<1>1. /\ \A s \in Side : LaterIn(table'[s], table[s]) \/ table'[s] = table[s]
      /\ taker \in Order /\ m \in Resting /\ m.side \in Side
      /\ m.side = Opposite(taker.side)
  BY TradeFacts, SideFacts DEF Order
<1>2. \A i \in DOMAIN received : i # m.id /\ i # taker.id => filled'[i] = filled[i]
  BY TradeFilled
<1> HIDE DEF m, n
<1> SUFFICES ASSUME NEW s \in Side, NEW k \in DOMAIN table'[s],
                    NEW j \in DOMAIN table'[s][k], j # 1
             PROVE  ~(filled'[table'[s][k][j].id] > 0)
  BY DEF PartlyFilledLeads
<1>3. PICK u \in DOMAIN table[s] : \E v \in DOMAIN table[s][u] :
        v # 1 /\ table'[s][k][j] = table[s][u][v]
  BY <1>1 DEF LaterIn
<1>4. PICK v \in DOMAIN table[s][u] : v # 1 /\ table'[s][k][j] = table[s][u][v]
  BY <1>3
<1> DEFINE o == table[s][u][v]
<1>5. o \in Resting /\ ~(filled[o.id] > 0) /\ o.id < taker.id
  <2>1. o \in Resting
    BY RestingMember, OrdersOfMember
  <2> QED BY <1>4, <2>1 DEF PartlyFilledLeads, BookInv, Arrivals, TradeWithFront
<1>6. o # m
  <2>1. OneEach(table[s]) /\ OneEach(table[m.side])
    BY <1>1, OneEachAlways
  <2>2. /\ m = table[m.side][1][1] /\ 1 \in DOMAIN table[m.side]
        /\ 1 \in DOMAIN table[m.side][1]
    <3>1. /\ table[m.side] \in Table /\ table[m.side] # <<>> /\ NoEmptyLevel(table[m.side])
          /\ m = Head(Head(table[m.side]))
      BY <1>1, OrderedFacts, ZenonT(40)
         DEF BookInv, TypeOK, Table, TradeWithFront, CanMatch, MakerTable, FrontMaker,
             NoEmptyLevel, Sorted, WellFormed, m
    <3> QED BY <3>1, FrontFacts
  <2>3. CASE s = m.side
    <3> SUFFICES ASSUME o.id = m.id PROVE FALSE
      OBVIOUS
    <3>1. o.id = table[s][1][1].id
      BY <2>2, <2>3
    <3> QED BY <1>4, <2>1, <2>2, <2>3, <3>1 DEF OneEach
  <2>4. CASE s # m.side
    <3>1. o.side = s
      BY <1>4 DEF BookInv, Ordered, LevelsWellFormed
    <3> QED BY <2>4, <3>1
  <2> QED BY <2>3, <2>4
<1>7. o.id \in DOMAIN received /\ o.id # m.id /\ o.id # taker.id
  <2>1. Accounted(o) /\ o \in Order
    BY <1>5, HistoryTypes, AccountedFacts, OpenAccounted, RestingIsOpen
  <2>2. o.id # m.id
    BY <1>1, <1>5, <1>6, OpenUnique, RestingIsOpen
  <2> QED BY <1>1, <1>5, <2>1, <2>2 DEF Accounted, Order
<1> QED BY <1>2, <1>4, <1>5, <1>7

LEMMA LeadsReceiveOrder ==
  ASSUME BookInv, AmountsConserved, PartlyFilledLeads, ReceiveOrder
  PROVE  PartlyFilledLeads'
<1>1. table' = table /\ \A i \in DOMAIN received : filled'[i] = filled[i]
  BY ReceiveFacts
<1>2. ASSUME NEW s \in Side, NEW k \in DOMAIN table[s], NEW j \in DOMAIN table[s][k]
      PROVE  filled'[table[s][k][j].id] = filled[table[s][k][j].id]
  <2>1. table[s][k][j] \in Resting
    BY RestingMember, OrdersOfMember
  <2>2. Accounted(table[s][k][j])
    BY <2>1, RestingIsOpen, OpenAccounted
  <2> QED BY <1>1, <2>2 DEF Accounted
<1> QED BY <1>1, <1>2 DEF PartlyFilledLeads

LEMMA LeadsRestRemainder ==
  ASSUME BookInv, AmountsConserved, PartlyFilledLeads, NoPeers, RestRemainder
  PROVE  PartlyFilledLeads'
<1>1. /\ taker \in Order /\ taker.id \in DOMAIN received
      /\ \A s \in Side :
           \/ table'[s] = table[s]
           \/ s = taker.side /\ LaterOrJoined(table'[s], table[s], taker)
  BY RestFacts
<1>2. filled' = filled /\ phase = "matching"
  BY DEF RestRemainder, ghosts
<1> SUFFICES ASSUME NEW s \in Side, NEW k \in DOMAIN table'[s],
                    NEW j \in DOMAIN table'[s][k], j # 1, filled[table'[s][k][j].id] > 0
             PROVE  FALSE
  BY <1>2 DEF PartlyFilledLeads
<1>3. CASE table'[s] = table[s]
  BY <1>3 DEF PartlyFilledLeads
<1>4. CASE s = taker.side /\ LaterOrJoined(table'[s], table[s], taker)
  <2>1. \/ table'[s][k][j] = taker /\ \E u \in DOMAIN table[s] : table[s][u][1].price = taker.price
        \/ \E u \in DOMAIN table[s] : \E v \in DOMAIN table[s][u] :
             v # 1 /\ table'[s][k][j] = table[s][u][v]
    BY <1>4 DEF LaterOrJoined
  <2> QED BY <1>2, <1>4, <2>1 DEF PartlyFilledLeads, NoPeers
<1> QED BY <1>1, <1>3, <1>4

\* The taker crosses a maker; as the book is not crossed, no order of its own
\* side stands at its price.
LEMMA PeersTradeWithFront ==
  ASSUME BookInv, AmountsConserved, TradeWithFront
  PROVE  NoPeers'
<1> DEFINE m == FrontMaker
           s == taker.side
           o == Opposite(s)
<1>1. /\ taker \in Order /\ m \in Order /\ Crosses(taker, m)
      /\ TradeAmount(m, taker) \in Nat /\ TradeAmount(m, taker) <= taker.amount
  BY TradeFacts
<1>2. /\ o \in Side /\ o # s /\ s \in Side
  BY <1>1, SideFacts DEF Order
<1>3. m = table[o][1][1] /\ 1 \in DOMAIN table[o]
  <2>1. /\ table[o] \in Table /\ table[o] # <<>> /\ NoEmptyLevel(table[o])
        /\ m = Head(Head(table[o]))
    BY <1>2, OrderedFacts
       DEF BookInv, TypeOK, Table, TradeWithFront, CanMatch, MakerTable, FrontMaker,
           NoEmptyLevel, Sorted, WellFormed
  <2> QED BY <2>1, FrontFacts
<1>4. taker'.side = s /\ taker'.price = taker.price
  BY <1>1, RemainderFacts DEF TradeWithFront
<1>5. table'[s] = table[s]
  BY <1>2 DEF TradeWithFront, BookInv, TypeOK
<1>6. ASSUME NEW i \in DOMAIN table[s] PROVE table[s][i][1].price # taker.price
  <2>1. table[s][i][1] \in Order
    <3>1. table[s][i] \in Seq(Order) /\ table[s][i] # <<>>
      BY <1>2, DomainFacts DEF BookInv, TypeOK, Table, Ordered, LevelsWellFormed
    <3> QED BY <3>1, NonEmptySeq
  <2>2. table[s][i][1].price \in Int /\ m.price \in Int /\ taker.price \in Int
    BY <1>1, <2>1, PriceAssumption DEF Order
  <2> HIDE DEF m
  <2>3. CASE s = "buy"
    <3>1. table[s][i][1].price < m.price
      BY <1>3, <2>3 DEF BookInv, NotCrossed, Opposite
    <3>2. m.price <= taker.price
      BY <1>1, <2>2, <2>3 DEF Crosses
    <3> QED BY <2>2, <3>1, <3>2
  <2>4. CASE s = "sell"
    <3>1. m.price < table[s][i][1].price
      BY <1>3, <2>4 DEF BookInv, NotCrossed, Opposite
    <3>2. taker.price <= m.price
      BY <1>1, <2>2, <2>4 DEF Crosses
    <3> QED BY <2>2, <3>1, <3>2
  <2> QED BY <1>2, <2>3, <2>4 DEF Side
<1> QED BY <1>4, <1>5, <1>6 DEF NoPeers

-----------------------------------------------------------------------------
(* No trade is lost on the way out once the receiver is known.             *)

LEMMA ReportTypes ==
  ASSUME BookInv
  PROVE  /\ trade_list \in Seq(Trade) /\ trades \in Seq(Trade)
         /\ outbox \in Seq(Trade) /\ unheard \in Seq(Trade)
BY DEF BookInv, TypeOK

LEMMA ReportTradeWithFront ==
  ASSUME BookInv, ReportedInOrder, TradeWithFront
  PROVE  ReportedInOrder'
<1> DEFINE t == MakeTrade(FrontMaker, taker)
           s == unheard \o outbox
<1>1. /\ trade_list' = Append(trade_list, t) /\ trades' = Append(trades, t)
      /\ UNCHANGED <<outbox, unheard, match_result_actor>>
      /\ phase = "matching" /\ phase' = "matching"
  BY DEF TradeWithFront
<1>2. trade_list \in Seq(Trade) /\ s \in Seq(Trade)
  BY ReportTypes, ConcatProperties
<1>3. t \in Trade
  <2>1. trades' \in Seq(Trade) /\ trades \in Seq(Trade)
    BY BookTradeWithFront, ReportTypes DEF BookInv, TypeOK
  <2> DEFINE n == Len(trades)
  <2>2. n + 1 \in DOMAIN trades' /\ trades'[n + 1] = t
    <3> HIDE DEF t
    <3> QED BY <1>1, <2>1
  <2> QED BY <2>1, <2>2, ElementOfSeq
<1>4. s \o Append(trade_list, t) = Append(s \o trade_list, t)
  <2> HIDE DEF s, t
  <2> QED BY <1>2, <1>3
<1>5. CASE match_result_actor
  <2>1. trades = s \o trade_list
    BY <1>1, <1>5 DEF ReportedInOrder
  <2> HIDE DEF t
  <2>2. trades' = s \o trade_list' /\ s' = s
    BY <1>1, <1>4, <2>1
  <2> QED BY <1>1, <1>5, <2>2 DEF ReportedInOrder
<1>6. CASE ~match_result_actor
  BY <1>1, <1>6 DEF ReportedInOrder
<1> QED BY <1>5, <1>6

LEMMA ReportSendMatchResult ==
  ASSUME BookInv, ReportedInOrder, SendMatchResult
  PROVE  ReportedInOrder'
<1>1. /\ phase = "sending" /\ phase' = "idle"
      /\ UNCHANGED <<trades, unheard, match_result_actor>>
  BY DEF SendMatchResult, ghosts
<1>2. CASE match_result_actor
  <2>1. outbox' = outbox \o trade_list /\ trades = unheard \o outbox \o trade_list
    BY <1>1, <1>2 DEF SendMatchResult, ReportedInOrder
  <2>2. unheard \o (outbox \o trade_list) \o <<>> = unheard \o outbox \o trade_list
    <3>1. trade_list \in Seq(Trade) /\ outbox \in Seq(Trade) /\ unheard \in Seq(Trade)
      BY ReportTypes
    <3>2. unheard \o (outbox \o trade_list) = unheard \o outbox \o trade_list
      BY <3>1, ConcatAssociative
    <3>3. unheard \o outbox \o trade_list \in Seq(Trade)
      BY <3>1, ConcatProperties
    <3> QED BY <3>2, <3>3, ConcatEmptySeq
  <2> QED BY <1>1, <1>2, <2>1, <2>2 DEF ReportedInOrder
<1>3. CASE ~match_result_actor
  BY <1>1, <1>3 DEF SendMatchResult, ReportedInOrder
<1> QED BY <1>2, <1>3

LEMMA ReportSetResultActor ==
  ASSUME BookInv, ReportedInOrder, SetResultActor
  PROVE  ReportedInOrder'
<1>1. /\ phase = "idle" /\ match_result_actor'
      /\ UNCHANGED <<phase, trade_list, outbox, trades>>
      /\ unheard' = IF match_result_actor THEN unheard ELSE trades
  BY DEF SetResultActor
<1>2. CASE match_result_actor
  BY <1>1, <1>2 DEF ReportedInOrder
<1>3. CASE ~match_result_actor
  <2>1. outbox = <<>>
    BY <1>3 DEF ReportedInOrder
  <2>2. trades \o <<>> \o <<>> = trades
    BY ReportTypes, ConcatEmptySeq
  <2> QED BY <1>1, <1>3, <2>1, <2>2 DEF ReportedInOrder
<1> QED BY <1>2, <1>3

LEMMA ReportNext ==
  ASSUME BookInv, ReportedInOrder, [Next]_vars
  PROVE  ReportedInOrder'
<1>1. CASE ReceiveOrder
  <2>1. /\ phase = "idle" /\ trade_list' = <<>>
        /\ UNCHANGED <<outbox, unheard, trades, match_result_actor>>
    BY <1>1 DEF ReceiveOrder
  <2> QED BY <2>1 DEF ReportedInOrder
<1>2. CASE TradeWithFront
  BY <1>2, ReportTradeWithFront
<1>3. CASE RestRemainder
  BY <1>3 DEF RestRemainder, ReportedInOrder, ghosts
<1>4. CASE SendMatchResult
  BY <1>4, ReportSendMatchResult
<1>5. CASE SetResultActor
  BY <1>5, ReportSetResultActor
<1>6. CASE UNCHANGED vars
  BY <1>6 DEF vars, ghosts, ReportedInOrder
<1> QED BY <1>1, <1>2, <1>3, <1>4, <1>5, <1>6 DEF Next, Handle

-----------------------------------------------------------------------------
(* The inductive invariant of the book and its history.                    *)

HistoryInv ==
  /\ BookInv
  /\ AmountsConserved
  /\ TradesWithinLimits
  /\ PartlyFilledLeads /\ NoPeers
  /\ ReportedInOrder

LEMMA HistoryInit == Init => HistoryInv
<1> SUFFICES ASSUME Init PROVE HistoryInv
  OBVIOUS
<1>1. BookInv
  BY BookInit
<1>2. \A s \in Side : DOMAIN table[s] = {}
  BY DEF Init
<1>3. Open = {} /\ received = <<>> /\ trades = <<>> /\ phase = "idle" /\ DOMAIN received = {}
  BY <1>2 DEF Init, Open, Resting
<1>4. AmountsConserved /\ PartlyFilledLeads /\ NoPeers
  BY <1>2, <1>3 DEF AmountsConserved, PartlyFilledLeads, NoPeers
<1>5. TradesWithinLimits
  BY <1>3 DEF TradesWithinLimits
<1>6. ReportedInOrder
  BY DEF Init, ReportedInOrder
<1> QED BY <1>1, <1>4, <1>5, <1>6 DEF HistoryInv

\* Steps that change neither the book nor the histories, and after which no
\* order is being matched, as before.
LEMMA HistoryElsewhere ==
  ASSUME HistoryInv, BookInv', ReportedInOrder', UNCHANGED <<table, taker, received, filled, trades>>,
         (phase' = "matching") <=> (phase = "matching")
  PROVE  HistoryInv'
<1>1. Open' = Open
  BY DEF Open, Resting
<1>2. AmountsConserved'
  BY <1>1, ConservedElsewhere DEF HistoryInv
<1>3. TradesWithinLimits' /\ PartlyFilledLeads' /\ NoPeers'
  BY DEF HistoryInv, TradesWithinLimits, PartlyFilledLeads, NoPeers
<1> QED BY <1>2, <1>3 DEF HistoryInv

LEMMA HistoryNext ==
  ASSUME HistoryInv, [Next]_vars
  PROVE  HistoryInv'
<1>1. BookInv' /\ ReportedInOrder'
  BY BookNext, ReportNext DEF HistoryInv
<1>2. CASE ReceiveOrder
  <2>1. NoPeers'
    <3>1. filled'[taker'.id] = 0
      BY <1>2, ReceiveFacts DEF HistoryInv
    <3> QED BY <3>1 DEF NoPeers
  <2> QED BY <1>1, <1>2, <2>1, ConservedReceiveOrder, LimitsReceiveOrder, LeadsReceiveOrder
          DEF HistoryInv
<1>3. CASE TradeWithFront
  BY <1>1, <1>3, ConservedTradeWithFront, LimitsTradeWithFront, LeadsTradeWithFront,
     PeersTradeWithFront DEF HistoryInv
<1>4. CASE RestRemainder
  <2>1. TradesWithinLimits' /\ NoPeers'
    BY <1>4 DEF HistoryInv, RestRemainder, ghosts, TradesWithinLimits, NoPeers
  <2> QED BY <1>1, <1>4, <2>1, ConservedRestRemainder, LeadsRestRemainder DEF HistoryInv
<1>5. CASE SendMatchResult
  BY <1>1, <1>5, HistoryElsewhere DEF SendMatchResult, ghosts
<1>6. CASE SetResultActor
  BY <1>1, <1>6, HistoryElsewhere DEF SetResultActor, ghosts
<1>7. CASE UNCHANGED vars
  BY <1>1, <1>7, HistoryElsewhere DEF vars, ghosts
<1> QED BY <1>2, <1>3, <1>4, <1>5, <1>6, <1>7 DEF Next, Handle

LEMMA HistoryAlways == Spec => []HistoryInv
<1>1. Init => HistoryInv
  BY HistoryInit
<1>2. HistoryInv /\ [Next]_vars => HistoryInv'
  BY HistoryNext
<1> QED BY <1>1, <1>2, PTL DEF Spec

\* Whatever orders arrive, what an order has traded and what is left of it add
\* up to the amount it arrived with; MakeTrade loses and creates nothing.
THEOREM NothingLostOrCreated == Spec => []AmountsConserved
<1>1. HistoryInv => AmountsConserved
  BY DEF HistoryInv
<1> QED BY <1>1, HistoryAlways, PTL

\* Every trade respects the limits of both of its orders, and its maker came
\* before its taker.
THEOREM LimitsRespected == Spec => []TradesWithinLimits
<1>1. HistoryInv => TradesWithinLimits
  BY DEF HistoryInv
<1> QED BY <1>1, HistoryAlways, PTL

\* No order is overtaken in its level once it has begun to trade: what remains
\* of a taker always opens a level of its own.
THEOREM PartlyFilledStaysFirst == Spec => []PartlyFilledLeads
<1>1. HistoryInv => PartlyFilledLeads
  BY DEF HistoryInv
<1> QED BY <1>1, HistoryAlways, PTL

\* Nothing is sent before the receiver is known; the trades made since then
\* have been sent, or are about to be, in their order, none lost or repeated.
THEOREM NoTradeLostOnTheWay == Spec => []ReportedInOrder
<1>1. HistoryInv => ReportedInOrder
  BY DEF HistoryInv
<1> QED BY <1>1, HistoryAlways, PTL

-----------------------------------------------------------------------------
(* The actor implements PriceTimePriority.                                 *)

\* The front order has priority over all orders of its side.
LEMMA FrontHasPriority ==
  ASSUME BookInv, AmountsConserved, TradeWithFront
  PROVE  Priority!HasPriority(FrontMaker)
<1> DEFINE m == FrontMaker
           s == m.side
           t == table[s]
<1>1. taker \in Order /\ m \in Order /\ s = Opposite(taker.side) /\ s \in Side
  BY TradeFacts, SideFacts DEF Order
<1>2. t \in Table /\ Sorted(t, s) /\ t # <<>> /\ NoEmptyLevel(t) /\ m = Head(Head(t))
  BY <1>1, OrderedFacts
     DEF BookInv, TypeOK, Table, TradeWithFront, CanMatch, MakerTable, FrontMaker,
         NoEmptyLevel, Sorted, WellFormed
<1>3. m = t[1][1] /\ 1 \in DOMAIN t /\ 1 \in DOMAIN t[1]
  BY <1>2, FrontFacts
<1>4. ASSUME NEW o \in Resting, o.side = s, o # m
      PROVE  Better(s, m.price, o.price) \/ (m.price = o.price /\ m.id < o.id)
  <2>1. PICK x \in Side : o \in OrdersOf(table[x])
    BY RestingMember
  <2>2. x = s
    BY <1>4, <2>1, OrdersOfMember DEF BookInv, Ordered, LevelsWellFormed
  <2> HIDE DEF s, t
  <2>3. PICK i \in DOMAIN t : \E j \in DOMAIN t[i] : o = t[i][j]
    BY <2>1, <2>2, OrdersOfMember DEF t
  <2>4. PICK j \in DOMAIN t[i] : o = t[i][j]
    BY <2>3
  <2>5. i \in Nat \ {0} /\ j \in Nat \ {0} /\ o.price = t[i][1].price
    BY <1>2, <2>4, DomainFacts DEF Sorted, WellFormed
  <2>6. CASE i = 1
    <3>1. 1 < j
      BY <1>3, <1>4, <2>4, <2>5, <2>6
    <3>2. m.id < o.id
      BY <1>2, <1>3, <2>4, <2>6, <3>1 DEF Sorted, ArrivalsSorted
    <3> QED BY <1>3, <2>5, <2>6, <3>2
  <2>7. CASE i # 1
    <3>1. 1 < i
      BY <2>5, <2>7
    <3> QED BY <1>2, <1>3, <2>5, <3>1 DEF Sorted, PricesSorted
  <2> QED BY <2>6, <2>7
<1> HIDE DEF m
<1>5. Priority!HasPriority(m)
  BY <1>4 DEF Priority!HasPriority, Priority!Better, Better, s
<1> QED BY <1>5 DEF m

LEMMA PriorityTrade ==
  ASSUME BookInv, AmountsConserved, TradeWithFront
  PROVE  Priority!TradeWithBest
<1> DEFINE m == FrontMaker
           n == TradeAmount(m, taker)
<1>1. /\ m \in Resting /\ m.side = Opposite(taker.side) /\ Crosses(taker, m)
      /\ Resting' = Reduced(Resting, m, n)
  BY TradeFacts
<1>2. Priority!HasPriority(m)
  BY FrontHasPriority
<1>3. /\ phase = "matching" /\ phase' = phase /\ received' = received
      /\ trades' = Append(trades, MakeTrade(m, taker))
      /\ taker' = Remainder(taker, n)
  BY DEF TradeWithFront
<1> HIDE DEF m
<1>4. m \in Priority!Eligible
  BY <1>1 DEF Priority!Eligible, Priority!Opposite, Opposite, Priority!Crosses, Crosses
<1>5. /\ n = Priority!TradeAmount(m, taker)
      /\ MakeTrade(m, taker) = Priority!MakeTrade(m, taker)
      /\ Remainder(taker, n) = Priority!Remainder(taker, n)
      /\ Remainder(m, n) = Priority!Remainder(m, n)
  BY DEF Priority!TradeAmount, TradeAmount, Priority!MakeTrade, MakeTrade,
         Priority!Remainder, Remainder
<1> HIDE DEF n
<1>6. Resting' = (Resting \ {m}) \cup (IF m.amount = n THEN {} ELSE {Priority!Remainder(m, n)})
  BY <1>1, <1>5 DEF Reduced
<1> QED BY <1>2, <1>3, <1>4, <1>5, <1>6 DEF Priority!TradeWithBest

LEMMA PriorityAccept ==
  ASSUME BookInv, ReceiveOrder
  PROVE  Priority!Accept
<1>1. Len(received') = Len(received) + 1
  <2> DEFINE L == Len(received)
  <2>1. received' \in Seq(Order) /\ DOMAIN received' = DOMAIN received \cup {L + 1}
    BY ReceiveFacts, BookReceiveOrder DEF BookInv, TypeOK
  <2>2. L \in Nat /\ DOMAIN received = 1 .. L
    BY HistoryTypes
  <2> HIDE DEF L
  <2>3. DOMAIN received' = 1 .. Len(received') /\ Len(received') \in Nat
    BY <2>1
  <2>4. Len(received') = L + 1
    BY <2>1, <2>2, <2>3
  <2> QED BY <2>4 DEF L
<1>2. Resting' = Resting
  BY DEF Resting, ReceiveOrder
<1>3. \E s \in Side, p \in Price, a \in Amount :
        taker' = [id |-> Len(received) + 1, side |-> s, price |-> p, amount |-> a]
  BY DEF ReceiveOrder
<1> QED BY <1>1, <1>2, <1>3 DEF ReceiveOrder, Priority!Accept, Priority!Side, Side

\* Once the taker can trade no further, nobody in the book can trade with it.
LEMMA NobodyEligible ==
  ASSUME BookInv, RestRemainder
  PROVE  taker.amount = 0 \/ Priority!Eligible = {}
<1> SUFFICES ASSUME taker.amount # 0, NEW o \in Priority!Eligible PROVE FALSE
  OBVIOUS
<1> DEFINE s == Opposite(taker.side)
           t == table[s]
<1>1. /\ taker \in Order /\ s \in Side /\ t \in Table /\ Sorted(t, s)
      /\ t = <<>> \/ ~Crosses(taker, Head(Head(t)))
  <2>1. taker \in Order
    BY RestFacts
  <2>2. s \in Side
    BY <2>1, SideFacts DEF Order
  <2> QED BY <2>1, <2>2, OrderedFacts
          DEF BookInv, TypeOK, Table, RestRemainder, CanMatch, MakerTable, FrontMaker
<1>2. o \in Resting /\ o.side = s /\ Crosses(taker, o)
  BY DEF Priority!Eligible, Priority!Opposite, Opposite, Priority!Crosses, Crosses
<1>3. PICK x \in Side : o \in OrdersOf(table[x])
  BY <1>2, RestingMember
<1>4. x = s
  BY <1>2, <1>3, OrdersOfMember DEF BookInv, Ordered, LevelsWellFormed
<1> HIDE DEF t
<1>5. PICK i \in DOMAIN t : \E j \in DOMAIN t[i] : o = t[i][j]
  BY <1>3, <1>4, OrdersOfMember DEF t
<1>6. Better(taker.side, t[i][1].price, taker.price)
  BY <1>1, NotCrossingFacts
<1>7. o.price = t[i][1].price /\ o \in Order
  BY <1>1, <1>5, DomainFacts DEF Sorted, WellFormed
<1>8. o.price \in Int /\ taker.price \in Int /\ taker.side \in Side
  BY <1>1, <1>7, PriceAssumption DEF Order
<1> QED BY <1>2, <1>6, <1>7, <1>8 DEF Better, Crosses, Side

LEMMA PriorityFinish ==
  ASSUME BookInv, RestRemainder
  PROVE  Priority!Finish
<1>1. Resting' = Resting \cup (IF taker.amount = 0 THEN {} ELSE {taker})
  BY RestFacts
<1>2. taker.amount = 0 \/ Priority!Eligible = {}
  BY NobodyEligible
<1>3. /\ phase = "matching" /\ phase' # "matching" /\ taker' = taker
      /\ received' = received /\ trades' = trades
  BY DEF RestRemainder, ghosts
<1> QED BY <1>1, <1>2, <1>3 DEF Priority!Finish

LEMMA PriorityStep ==
  ASSUME HistoryInv, [Next]_vars
  PROVE  [Priority!Next]_(Priority!vars)
<1>1. CASE ReceiveOrder
  BY <1>1, PriorityAccept DEF HistoryInv, Priority!Next
<1>2. CASE TradeWithFront
  BY <1>2, PriorityTrade DEF HistoryInv, Priority!Next
<1>3. CASE RestRemainder
  BY <1>3, PriorityFinish DEF HistoryInv, Priority!Next
<1>4. CASE SendMatchResult
  BY <1>4 DEF SendMatchResult, ghosts, Resting, Priority!vars
<1>5. CASE SetResultActor
  BY <1>5 DEF SetResultActor, ghosts, Resting, Priority!vars
<1>6. CASE UNCHANGED vars
  BY <1>6 DEF vars, ghosts, Resting, Priority!vars
<1> QED BY <1>1, <1>2, <1>3, <1>4, <1>5, <1>6 DEF Next, Handle

LEMMA PriorityInit == Init => Priority!Init
<1> SUFFICES ASSUME Init PROVE Priority!Init
  OBVIOUS
<1>1. \A s \in Side : DOMAIN table[s] = {}
  BY DEF Init
<1>2. Resting = {}
  BY <1>1 DEF Resting
<1> QED BY <1>2 DEF Init, Priority!Init

\* The two sorted lists and the loops over them trade exactly as the promise
\* says: always with the best price, and at one price with the oldest order.
THEOREM ImplementsPriority == Spec => TradesByPriority
<1>1. Init => Priority!Init
  BY PriorityInit
<1>2. HistoryInv /\ [Next]_vars => [Priority!Next]_(Priority!vars)
  BY PriorityStep
<1> QED BY <1>1, <1>2, HistoryAlways, PTL DEF Spec, TradesByPriority, Priority!Spec

-----------------------------------------------------------------------------
(***************************************************************************)
(* The handler of an order counts down: it makes at most one trade with    *)
(* each order that arrived before, and there is always a place for what    *)
(* remains.  HandlerEnds follows from that by the fairness of Handle, a    *)
(* conclusion that is left to TLC.                                         *)
(***************************************************************************)

\* The makers of this run of the handler arrived before its taker, and are
\* different orders.
MakersOnce ==
  /\ received = <<>> => trade_list = <<>>
  /\ \A i \in DOMAIN trade_list : trade_list[i].maker \in 1 .. Len(received) - 1
  /\ \A i, j \in DOMAIN trade_list : trade_list[i].maker = trade_list[j].maker => i = j

\* A taker that goes on has left no maker in the book.
MakersGone ==
  phase = "matching" /\ taker.amount # 0 =>
    \A i \in DOMAIN trade_list : \A o \in Resting : o.id # trade_list[i].maker

MakersInv == MakersOnce /\ MakersGone

LEMMA MakersReceiveOrder ==
  ASSUME BookInv, ReceiveOrder
  PROVE  MakersInv'
<1>1. trade_list' = <<>>
  BY DEF ReceiveOrder
<1>2. DOMAIN trade_list' = {}
  BY <1>1
<1> QED BY <1>1, <1>2 DEF MakersInv, MakersOnce, MakersGone

\* The maker of the next trade has not traded in this run of the handler.
LEMMA MakerIsNew ==
  ASSUME BookInv, AmountsConserved, MakersInv, TradeWithFront
  PROVE  /\ FrontMaker.id \in 1 .. Len(received) - 1
         /\ \A i \in DOMAIN trade_list : trade_list[i].maker # FrontMaker.id
<1> DEFINE m == FrontMaker
           L == Len(received)
<1>1. /\ m \in Order /\ m \in Resting /\ m.id < taker.id /\ taker.id = L
  BY TradeFacts
<1>2. L \in Nat /\ m.id \in Nat \ {0}
  BY <1>1, HistoryTypes DEF Order
<1>3. phase = "matching" /\ (taker.amount # 0 \/ trade_list = <<>>)
  BY DEF TradeWithFront, CanMatch
<1>4. \A i \in DOMAIN trade_list : trade_list[i].maker # m.id
  <2>1. CASE trade_list = <<>>
    <3>1. DOMAIN trade_list = {}
      BY <2>1
    <3> QED BY <3>1
  <2>2. CASE taker.amount # 0
    BY <1>1, <1>3, <2>2 DEF MakersInv, MakersGone
  <2> QED BY <1>3, <2>1, <2>2
<1>5. m.id \in 1 .. L - 1
  <2> HIDE DEF m, L
  <2> QED BY <1>1, <1>2
<1> QED BY <1>4, <1>5

LEMMA MakersTradeWithFront ==
  ASSUME BookInv, AmountsConserved, MakersInv, TradeWithFront
  PROVE  MakersInv'
<1> DEFINE m == FrontMaker
           n == TradeAmount(m, taker)
           t == MakeTrade(m, taker)
           l == trade_list
<1>1. /\ taker \in Order /\ m \in Order /\ m \in Resting
      /\ n \in Nat /\ n <= m.amount /\ n <= taker.amount
      /\ Resting' = Reduced(Resting, m, n)
  BY TradeFacts
<1>2. /\ trade_list' = Append(l, t) /\ taker' = Remainder(taker, n)
      /\ received' = received /\ phase = "matching"
  BY DEF TradeWithFront
<1>3. l \in Seq(Trade) /\ t.maker = m.id
  BY DEF BookInv, TypeOK, MakeTrade
<1> DEFINE N == Len(l)
<1>4. /\ DOMAIN trade_list' = DOMAIN l \cup {N + 1} /\ N + 1 \notin DOMAIN l
      /\ \A i \in DOMAIN l : trade_list'[i] = l[i]
      /\ trade_list'[N + 1] = t
  <2> HIDE DEF t, l
  <2> QED BY <1>2, <1>3
<1>5. /\ m.id \in 1 .. Len(received) - 1
      /\ \A i \in DOMAIN l : l[i].maker # m.id
  BY MakerIsNew
<1>6. MakersOnce'
  <2>1. received # <<>>
    BY <1>5
  <2> HIDE DEF m, t, N, l
  <2>2. \A i \in DOMAIN l : l[i].maker \in 1 .. Len(received) - 1
    BY DEF MakersInv, MakersOnce, l
  <2>3. \A i, j \in DOMAIN l : l[i].maker = l[j].maker => i = j
    BY DEF MakersInv, MakersOnce, l
  <2>4. \A i \in DOMAIN trade_list' : trade_list'[i].maker \in 1 .. Len(received') - 1
    BY <1>2, <1>3, <1>4, <1>5, <2>2
  <2>5. \A i, j \in DOMAIN trade_list' : trade_list'[i].maker = trade_list'[j].maker => i = j
    BY <1>3, <1>4, <1>5, <2>3
  <2> QED BY <1>2, <2>1, <2>4, <2>5 DEF MakersOnce
<1>7. MakersGone'
  <2> SUFFICES ASSUME taker'.amount # 0,
                      NEW i \in DOMAIN trade_list', NEW o \in Resting'
               PROVE  o.id # trade_list'[i].maker
    BY DEF MakersGone
  <2>1. taker'.amount = taker.amount - n /\ taker.amount \in Nat
    BY <1>1, <1>2, RemainderFacts DEF Order
  <2>2. n = m.amount /\ taker.amount # 0
    <3>1. n = m.amount \/ n = taker.amount
      BY <1>1, TradeAmountFacts
    <3> HIDE DEF n
    <3> QED BY <1>1, <2>1, <3>1
  <2> HIDE DEF n
  <2>3. o \in Resting /\ o # m
    BY <1>1, <2>2 DEF Reduced
  <2>4. o.id # m.id
    BY <1>1, <2>3, OpenUnique, RestingIsOpen
  <2>5. \A j \in DOMAIN l : o.id # l[j].maker
    BY <1>2, <2>2, <2>3 DEF MakersInv, MakersGone
  <2> HIDE DEF m, t, N, l
  <2> QED BY <1>3, <1>4, <2>4, <2>5
<1> QED BY <1>6, <1>7 DEF MakersInv

LEMMA MakersNext ==
  ASSUME HistoryInv, MakersInv, [Next]_vars
  PROVE  MakersInv'
<1>1. CASE ReceiveOrder
  BY <1>1, MakersReceiveOrder DEF HistoryInv
<1>2. CASE TradeWithFront
  BY <1>2, MakersTradeWithFront DEF HistoryInv
<1>3. CASE RestRemainder
  BY <1>3 DEF RestRemainder, MakersInv, MakersOnce, MakersGone, ghosts
<1>4. CASE SendMatchResult
  BY <1>4 DEF SendMatchResult, MakersInv, MakersOnce, MakersGone, ghosts
<1>5. CASE SetResultActor
  BY <1>5 DEF SetResultActor, MakersInv, MakersOnce, MakersGone, ghosts, Resting
<1>6. CASE UNCHANGED vars
  BY <1>6 DEF vars, ghosts, MakersInv, MakersOnce, MakersGone, Resting
<1> QED BY <1>1, <1>2, <1>3, <1>4, <1>5, <1>6 DEF Next, Handle

LEMMA MakersAlways == Spec => [](HistoryInv /\ MakersInv)
<1>1. Init => MakersInv
  <2>1. ASSUME Init PROVE trade_list = <<>> /\ DOMAIN trade_list = {} /\ phase = "idle"
    BY <2>1 DEF Init
  <2> QED BY <2>1 DEF MakersInv, MakersOnce, MakersGone
<1>2. HistoryInv /\ MakersInv /\ [Next]_vars => MakersInv'
  BY MakersNext
<1> QED BY <1>1, <1>2, HistoryAlways, PTL DEF Spec

\* Different numbers below n + 1 are at most n.
LEMMA FewNumbers ==
  ASSUME NEW f, NEW k \in Nat, NEW n \in Nat,
         \A i \in 1 .. k : f[i] \in 1 .. n,
         \A i, j \in 1 .. k : f[i] = f[j] => i = j
  PROVE  k <= n
<1> DEFINE g == [i \in 1 .. k |-> f[i]]
<1>1. g \in Injection(1 .. k, 1 .. n)
  BY DEF Injection, IsInjective
<1>2. /\ IsFiniteSet(1 .. n) /\ Cardinality(1 .. n) = n
      /\ Cardinality(1 .. k) = k
  BY FS_Interval
<1> HIDE DEF g
<1>3. Cardinality(1 .. k) <= Cardinality(1 .. n)
  BY <1>1, <1>2, FS_Injection
<1> QED BY <1>2, <1>3

\* The steps the handler can still take.
StepsLeft ==
  CASE phase = "idle"     -> 0
    [] phase = "sending"  -> 1
    [] phase = "matching" -> Len(received) + 1 - Len(trade_list)

LEMMA StepsLeftFacts ==
  ASSUME HistoryInv, MakersInv
  PROVE  /\ StepsLeft \in Nat
         /\ phase = "matching" => StepsLeft > 1
         /\ Len(received) \in Nat /\ trade_list \in Seq(Trade) /\ Len(trade_list) \in Nat
<1> DEFINE L == Len(received)
           k == Len(trade_list)
<1>1. /\ trade_list \in Seq(Trade) /\ L \in Nat /\ phase \in Phase
      /\ k \in Nat /\ DOMAIN trade_list = 1 .. k
  BY HistoryTypes DEF HistoryInv, BookInv, TypeOK
<1>2. CASE phase = "matching"
  <2>1. L - 1 \in Nat
    <3>1. taker \in Order /\ taker.id = L
      BY <1>2 DEF HistoryInv, BookInv, TypeOK, Arrivals
    <3>2. L # 0
      BY <3>1 DEF Order
    <3> QED BY <1>1, <3>2
  <2> DEFINE f == [i \in 1 .. k |-> trade_list[i].maker]
             n == L - 1
  <2>2. \A i \in 1 .. k : f[i] \in 1 .. n
    BY <1>1 DEF MakersInv, MakersOnce
  <2>3. \A i, j \in 1 .. k : f[i] = f[j] => i = j
    BY <1>1 DEF MakersInv, MakersOnce
  <2>4. k <= n
    <3> HIDE DEF f, n, k
    <3> QED BY <1>1, <2>1, <2>2, <2>3, FewNumbers DEF n
  <2>5. StepsLeft = L + 1 - k
    BY <1>2 DEF StepsLeft
  <2> HIDE DEF L, k
  <2>6. L + 1 - k \in Nat /\ L + 1 - k > 1
    BY <1>1, <2>4
  <2> QED BY <1>1, <2>5, <2>6 DEF L, k
<1>3. CASE phase # "matching"
  BY <1>1, <1>3 DEF StepsLeft, Phase
<1> QED BY <1>2, <1>3

\* Every step of the handler brings it nearer to its end.
CountsDown == Handle => StepsLeft' < StepsLeft

\* The handler never waits: while it matches, there is a trade to make, or
\* AddToOrderTable finds a place for the remainder.
NeverStuck ==
  phase = "matching" =>
    \/ CanMatch
    \/ taker.amount = 0
    \/ \E k \in 1 .. Len(table[taker.side]) + 1 : IsPlace(table[taker.side], taker, k)

LEMMA HandleCountsDown ==
  ASSUME HistoryInv, MakersInv, HistoryInv', MakersInv'
  PROVE  CountsDown
<1>1. /\ StepsLeft \in Nat
      /\ phase = "matching" => StepsLeft > 1
      /\ Len(received) \in Nat /\ trade_list \in Seq(Trade) /\ Len(trade_list) \in Nat
  BY StepsLeftFacts
<1>2. CASE TradeWithFront
  <2> DEFINE t == MakeTrade(FrontMaker, taker)
  <2>1. /\ phase = "matching" /\ phase' = "matching" /\ received' = received
        /\ trade_list' = Append(trade_list, t)
    BY <1>2 DEF TradeWithFront
  <2>2. StepsLeft = Len(received) + 1 - Len(trade_list)
    BY <2>1 DEF StepsLeft
  <2>3. StepsLeft' = Len(received) + 1 - Len(trade_list')
    BY <2>1 DEF StepsLeft
  <2>4. Len(trade_list') = Len(trade_list) + 1
    <3> HIDE DEF t
    <3> QED BY <1>1, <2>1
  <2>5. StepsLeft' < StepsLeft
    BY <1>1, <2>2, <2>3, <2>4
  <2> QED BY <2>5 DEF CountsDown
<1>3. CASE RestRemainder
  <2>1. phase = "matching" /\ StepsLeft' = 1
    BY <1>3 DEF RestRemainder, StepsLeft
  <2> QED BY <1>1, <2>1 DEF CountsDown
<1>4. CASE SendMatchResult
  <2>1. StepsLeft = 1 /\ StepsLeft' = 0
    BY <1>4 DEF SendMatchResult, StepsLeft
  <2> QED BY <2>1 DEF CountsDown
<1> QED BY <1>2, <1>3, <1>4 DEF Handle, CountsDown

\* There is a place for every order in every table: the first level that
\* AddToOrderTable stops at, or the end.
LEMMA PlaceFound ==
  ASSUME NEW t, Len(t) \in Nat, NEW o
  PROVE  \E k \in 1 .. Len(t) + 1 : IsPlace(t, o, k)
<1> DEFINE N == Len(t)
           T == {n \in Nat : n <= N => \/ \E k \in 1 .. n : IsPlace(t, o, k)
                                       \/ \A i \in 1 .. n : ~StopsAt(t[i], o)}
<1>1. 0 \in T
  OBVIOUS
<1>2. ASSUME NEW n \in Nat, n \in T PROVE n + 1 \in T
  <2> SUFFICES ASSUME n + 1 <= N
               PROVE  \/ \E k \in 1 .. n + 1 : IsPlace(t, o, k)
                      \/ \A i \in 1 .. n + 1 : ~StopsAt(t[i], o)
    OBVIOUS
  <2>1. /\ n <= N /\ 1 .. n + 1 = 1 .. n \cup {n + 1}
        /\ 1 .. (n + 1) - 1 = 1 .. n
    OBVIOUS
  <2>2. CASE \E k \in 1 .. n : IsPlace(t, o, k)
    BY <2>1, <2>2
  <2>3. CASE \A i \in 1 .. n : ~StopsAt(t[i], o)
    <3>1. CASE StopsAt(t[n + 1], o)
      <4>1. IsPlace(t, o, n + 1)
        BY <2>1, <2>3, <3>1 DEF IsPlace
      <4> QED BY <2>1, <4>1
    <3>2. CASE ~StopsAt(t[n + 1], o)
      BY <2>1, <2>3, <3>2
    <3> QED BY <3>1, <3>2
  <2> QED BY <1>2, <2>1, <2>2, <2>3
<1>3. N \in T
  <2> HIDE DEF T
  <2> QED BY <1>1, <1>2, NaturalInduction
<1>4. CASE \E k \in 1 .. N : IsPlace(t, o, k)
  <2>1. 1 .. N \subseteq 1 .. N + 1
    OBVIOUS
  <2> QED BY <1>4, <2>1
<1>5. CASE \A i \in 1 .. N : ~StopsAt(t[i], o)
  <2>1. /\ (N + 1) - 1 = N /\ N + 1 \in 1 .. N + 1 /\ ~(N + 1 <= N)
    OBVIOUS
  <2>2. IsPlace(t, o, N + 1)
    BY <1>5, <2>1 DEF IsPlace
  <2> QED BY <2>1, <2>2
<1> QED BY <1>3, <1>4, <1>5

\* The handler of every order is bounded and never waits: each of its steps
\* lowers a natural number, which starts at most at one more than the number
\* of orders received, and one of them is always possible.
THEOREM HandlerCountsDown ==
  Spec => [](StepsLeft \in 0 .. Len(received) + 1 /\ NeverStuck) /\ [][CountsDown]_vars
<1>1. HistoryInv /\ MakersInv => StepsLeft \in 0 .. Len(received) + 1 /\ NeverStuck
  <2> SUFFICES ASSUME HistoryInv, MakersInv
               PROVE  StepsLeft \in 0 .. Len(received) + 1 /\ NeverStuck
    OBVIOUS
  <2>1. StepsLeft \in Nat /\ Len(received) \in Nat /\ Len(trade_list) \in Nat
    BY StepsLeftFacts
  <2>2. \/ StepsLeft = 0 \/ StepsLeft = 1 \/ StepsLeft = Len(received) + 1 - Len(trade_list)
    BY DEF StepsLeft, HistoryInv, BookInv, TypeOK, Phase
  <2>3. StepsLeft \in 0 .. Len(received) + 1
    BY <2>1, <2>2
  <2>4. NeverStuck
    <3> SUFFICES ASSUME phase = "matching"
                 PROVE  \E k \in 1 .. Len(table[taker.side]) + 1 :
                          IsPlace(table[taker.side], taker, k)
      BY DEF NeverStuck
    <3>1. table[taker.side] \in Table
      BY DEF HistoryInv, BookInv, TypeOK, Arrivals, Table, Order
    <3>2. Len(table[taker.side]) \in Nat
      BY <3>1 DEF Table
    <3> QED BY <3>2, PlaceFound
  <2> QED BY <2>3, <2>4
<1>2. HistoryInv /\ MakersInv /\ (HistoryInv /\ MakersInv)' => CountsDown
  BY HandleCountsDown
<1> QED BY <1>1, <1>2, MakersAlways, PTL

-----------------------------------------------------------------------------
(***************************************************************************)
(* OrderManager supposes of the engine that it is a set of accepted orders *)
(* and that two of them with something left trade.  Seen that way, with    *)
(* the trades in the order in which they are made, the match actor does    *)
(* what OrderManager supposes.                                             *)
(***************************************************************************)

\* What OrderManager sees of order i.
Accepted(i) == [id |-> i, time |-> 0, left |-> received[i].amount - filled[i]]

AcceptedOrders == {Accepted(i) : i \in DOMAIN received}

\* What it sees of the trades.
Reported ==
  [i \in DOMAIN trades |->
     [maker |-> trades[i].maker, taker |-> trades[i].taker, amount |-> trades[i].amount]]

\* An order manager that only listens.
Manager == INSTANCE OrderManager
  WITH engine <- AcceptedOrders, stream <- Reported, subscription <- "open",
       Worker <- {}, MaxRestarts <- 0, ClockSteps <- {0}, TestMode <- {FALSE},
       order_id_ <- 0, order_id_to_order_status_ <- <<>>, pc <- <<>>, order <- <<>>,
       to_persist <- <<>>, store <- <<>>, database <- <<>>,
       test_mode_is_open_ <- FALSE, clock <- 0, missed <- <<>>, placed <- {},
       overtaken <- {}, requests <- 0, restarts <- 0,
       MaxFailures <- 0, io_thread <- "running", lost <- {}, failures <- 0

\* An order arrives with all that it asks for, as in Match of OrderManager.
OrderAccepted ==
  \E a \in Amount :
    /\ AcceptedOrders' = AcceptedOrders \cup
                           {[id |-> Len(received) + 1, time |-> 0, left |-> a]}
    /\ Reported' = Reported

\* Each step of the match actor shows the order manager an order accepted, a
\* trade as EngineTrades makes it, or nothing.
AsManagerSupposes ==
  [][OrderAccepted \/ Manager!EngineTrades]_<<AcceptedOrders, Reported>>

\* A taker with nothing left has traded.
NoneEmpty == phase = "matching" /\ taker.amount = 0 => trade_list # <<>>

\* Every step keeps that.
LEMMA NoneEmptyNext ==
  ASSUME 0 \notin Amount, BookInv, NoneEmpty, [Next]_vars
  PROVE  NoneEmpty'
<1>1. CASE ReceiveOrder
  <2>1. taker'.amount \in Amount
    BY <1>1 DEF ReceiveOrder
  <2> QED BY <2>1 DEF NoneEmpty
<1>2. CASE TradeWithFront
  <2> DEFINE t == MakeTrade(FrontMaker, taker)
  <2>1. trade_list' = Append(trade_list, t) /\ trade_list \in Seq(Trade)
    BY <1>2 DEF TradeWithFront, BookInv, TypeOK
  <2>2. trade_list' # <<>>
    <3> HIDE DEF t
    <3> QED BY <2>1
  <2> QED BY <2>2 DEF NoneEmpty
<1>3. CASE RestRemainder
  BY <1>3 DEF RestRemainder, NoneEmpty
<1>4. CASE SendMatchResult
  BY <1>4 DEF SendMatchResult, NoneEmpty
<1>5. CASE SetResultActor
  BY <1>5 DEF SetResultActor, NoneEmpty
<1>6. CASE UNCHANGED vars
  BY <1>6 DEF vars, NoneEmpty
<1> QED BY <1>1, <1>2, <1>3, <1>4, <1>5, <1>6 DEF Next, Handle

\* What the order manager sees of a trade more.
LEMMA ReportedAppended ==
  ASSUME BookInv, NEW t, t \in Trade, trades' = Append(trades, t)
  PROVE  Reported' = Append(Reported, [maker |-> t.maker, taker |-> t.taker, amount |-> t.amount])
<1> DEFINE N == Len(trades)
           S(x) == [maker |-> x.maker, taker |-> x.taker, amount |-> x.amount]
           q == trades
           r == Append(q, t)
<1>1. q \in Seq(Trade) /\ N \in Nat /\ DOMAIN q = 1 .. N
  BY DEF BookInv, TypeOK
<1>2. /\ DOMAIN r = 1 .. N + 1
      /\ \A i \in 1 .. N : r[i] = q[i]
      /\ r[N + 1] = t
  <2> HIDE DEF q
  <2> QED BY <1>1 DEF q
<1>3. Reported = [i \in DOMAIN q |-> S(q[i])] /\ Reported' = [i \in DOMAIN r |-> S(r[i])]
  BY DEF Reported
<1> HIDE DEF S, r, N, q
<1> DEFINE A == [i \in 1 .. N |-> S(q[i])]
           B == [i \in 1 .. N + 1 |-> S(r[i])]
<1>4. Reported = A /\ Reported' = B
  BY <1>1, <1>2, <1>3
<1>5. A \in Seq({S(x) : x \in Trade}) /\ Len(A) = N
  <2>1. \A i \in 1 .. N : q[i] \in Trade
    BY <1>1
  <2> QED BY <1>1, <2>1
<1>6. B = Append(A, S(t))
  BY <1>1, <1>2, <1>5
<1> QED BY <1>4, <1>6 DEF S

\* The smaller of two numbers.
LEMMA SmallerOne ==
  ASSUME NEW x \in Nat, NEW y \in Nat
  PROVE  Manager!Min({x, y}) = IF x < y THEN x ELSE y
BY DEF Manager!Min

\* A trade with the front order is one that the order manager supposes.
LEMMA TradeSeen ==
  ASSUME BookInv, AmountsConserved, NoneEmpty, TradeWithFront
  PROVE  Manager!EngineTrades
<1> DEFINE m == FrontMaker
           n == TradeAmount(m, taker)
           M == Accepted(m.id)
           K == Accepted(taker.id)
           t == MakeTrade(m, taker)
<1>1. /\ taker \in Order /\ taker \in Open /\ m \in Order /\ m \in Resting
      /\ m.amount > 0 /\ n \in Nat
  BY TradeFacts
<1>2. /\ m.id \in DOMAIN received /\ taker.id \in DOMAIN received /\ m.id # taker.id
      /\ received' = received
      /\ filled'[m.id] = filled[m.id] + n /\ filled'[taker.id] = filled[taker.id] + n
      /\ \A i \in DOMAIN received : i # m.id /\ i # taker.id => filled'[i] = filled[i]
  BY TradeFilled
<1>3. /\ m.amount = received[m.id].amount - filled[m.id]
      /\ taker.amount = received[taker.id].amount - filled[taker.id]
  <2>1. Accounted(m) /\ Accounted(taker)
    BY <1>1, RestingIsOpen, OpenAccounted
  <2> QED BY <2>1, HistoryTypes, AccountedFacts
<1>4. \A i \in DOMAIN received : received[i].amount \in Nat /\ filled[i] \in Nat
  BY HistoryTypes DEF Order
<1>5. taker.amount # 0 /\ taker.amount \in Nat /\ m.amount \in Nat
  BY <1>1 DEF TradeWithFront, CanMatch, NoneEmpty, Order
<1>6. /\ M \in AcceptedOrders /\ K \in AcceptedOrders /\ M # K
      /\ M.id = m.id /\ K.id = taker.id
      /\ M.left = m.amount /\ K.left = taker.amount
  BY <1>2, <1>3 DEF AcceptedOrders, Accepted
<1>7. n = Manager!Min({M.left, K.left})
  <2>1. n = IF m.amount < taker.amount THEN m.amount ELSE taker.amount
    BY DEF TradeAmount
  <2> DEFINE x == m.amount
             y == taker.amount
  <2> HIDE DEF n, M, K, m
  <2>2. Manager!Min({x, y}) = IF x < y THEN x ELSE y
    <3> HIDE DEF x, y
    <3> QED BY <1>5, SmallerOne DEF x, y
  <2> QED BY <1>6, <2>1, <2>2
<1> DEFINE M1 == [M EXCEPT !.left = @ - n]
           K1 == [K EXCEPT !.left = @ - n]
<1>8. ASSUME NEW i \in DOMAIN received
      PROVE  Accepted(i)' = IF i = m.id THEN M1 ELSE IF i = taker.id THEN K1 ELSE Accepted(i)
  <2> DEFINE a == received[i].amount
             f == filled[i]
             g == filled'[i]
  <2>1. Accepted(i)' = [id |-> i, time |-> 0, left |-> a - g]
    BY <1>2 DEF Accepted
  <2>2. CASE i = m.id \/ i = taker.id
    <3>1. g = f + n
      BY <1>2, <2>2
    <3>2. a - (f + n) = (a - f) - n
      BY <1>1, <1>4
    <3>3. [Accepted(i) EXCEPT !.left = @ - n] = [id |-> i, time |-> 0, left |-> (a - f) - n]
      BY DEF Accepted
    <3> HIDE DEF a, f, g, n
    <3>4. Accepted(i)' = [Accepted(i) EXCEPT !.left = @ - n]
      BY <2>1, <3>1, <3>2, <3>3
    <3> HIDE DEF m
    <3> QED BY <1>2, <2>2, <3>4
  <2>3. CASE i # m.id /\ i # taker.id
    <3>1. g = f
      BY <1>2, <2>3
    <3> QED BY <2>1, <2>3, <3>1 DEF Accepted
  <2> QED BY <2>2, <2>3
<1> DEFINE E == (AcceptedOrders \ {M, K})
                  \cup {M1, K1}
<1>9. AcceptedOrders' = E
  <2>1. \A x : x \in AcceptedOrders' <=> \E i \in DOMAIN received : x = Accepted(i)'
    BY <1>2 DEF AcceptedOrders
  <2>2. \A x : x \in AcceptedOrders \ {M, K} <=>
               \E i \in DOMAIN received : i # m.id /\ i # taker.id /\ x = Accepted(i)
    <3>1. \A i \in DOMAIN received : Accepted(i).id = i
      BY DEF Accepted
    <3> QED BY <1>6, <3>1 DEF AcceptedOrders
  <2>3. \A x : x \in E <=> x \in AcceptedOrders \ {M, K} \/ x = M1 \/ x = K1
    OBVIOUS
  <2> HIDE DEF m, n, M, K, E, M1, K1
  <2>4. ASSUME NEW x PROVE x \in AcceptedOrders' <=> x \in E
    BY <1>2, <1>8, <2>1, <2>2, <2>3
  <2> QED BY <2>4
<1>10. Reported' = Append(Reported, [maker |-> M.id, taker |-> K.id, amount |-> n])
  <2>1. t \in Trade /\ t.maker = m.id /\ t.taker = taker.id /\ t.amount = n
    BY <1>1 DEF MakeTrade, Trade, Order, TradeWithFront
  <2>2. trades' = Append(trades, t)
    BY DEF TradeWithFront
  <2> HIDE DEF m, n, t, M, K
  <2> QED BY <1>6, <2>1, <2>2, ReportedAppended
<1>11. M.left > 0 /\ K.left > 0
  BY <1>1, <1>5, <1>6
<1> HIDE DEF m, n, M, K, M1, K1, E
<1>12. /\ M \in AcceptedOrders /\ K \in AcceptedOrders /\ M # K /\ M.left > 0 /\ K.left > 0
       /\ Manager!Min({M.left, K.left}) = n
       /\ AcceptedOrders' = (AcceptedOrders \ {M, K})
                  \cup {[M EXCEPT !.left = @ - n], [K EXCEPT !.left = @ - n]}
       /\ Reported' = Append(Reported, [maker |-> M.id, taker |-> K.id, amount |-> n])
  BY <1>6, <1>7, <1>9, <1>10, <1>11 DEF E, M1, K1
<1> QED BY <1>12 DEF Manager!EngineTrades, Manager!manager, Manager!records,
                     Manager!ghosts, Manager!counts, Manager!posting

\* The arrival of an order is one of the engine's accepting it.
LEMMA OrderSeen ==
  ASSUME BookInv, ReceiveOrder
  PROVE  OrderAccepted
<1> DEFINE L1 == Len(received) + 1
<1>1. /\ L1 \in DOMAIN received' /\ DOMAIN received' = DOMAIN received \cup {L1}
      /\ \A i \in DOMAIN received : received'[i] = received[i] /\ filled'[i] = filled[i]
      /\ received'[L1] = taker' /\ filled'[L1] = 0 /\ trades' = trades
  BY ReceiveFacts
<1>2. taker'.amount \in Amount
  BY DEF ReceiveOrder
<1> DEFINE a == taker'.amount
           x == [id |-> L1, time |-> 0, left |-> a]
<1>3. a \in Nat
  BY <1>2, AmountAssumption
<1> HIDE DEF a, L1
<1>4. ASSUME NEW i \in DOMAIN received'
      PROVE  Accepted(i)' = IF i = L1 THEN x ELSE Accepted(i)
  <2>1. Accepted(i)' = [id |-> i, time |-> 0, left |-> received'[i].amount - filled'[i]]
    BY DEF Accepted
  <2>2. CASE i = L1
    <3>1. received'[i].amount - filled'[i] = a - 0 /\ a - 0 = a
      BY <1>1, <1>3, <2>2 DEF a
    <3> QED BY <2>1, <2>2, <3>1
  <2>3. CASE i # L1
    BY <1>1, <2>1, <2>3 DEF Accepted
  <2> QED BY <2>2, <2>3
<1>5. L1 \notin DOMAIN received
  <2>1. Len(received) \in Nat /\ DOMAIN received = 1 .. Len(received)
    BY HistoryTypes
  <2> QED BY <2>1 DEF L1
<1> HIDE DEF x
<1>6. AcceptedOrders' = AcceptedOrders \cup {x}
  <2>1. \A y : y \in AcceptedOrders' <=> \E i \in DOMAIN received' : y = Accepted(i)'
    BY DEF AcceptedOrders
  <2>2. \A y : y \in AcceptedOrders <=> \E i \in DOMAIN received : y = Accepted(i)
    BY DEF AcceptedOrders
  <2> QED BY <1>1, <1>4, <1>5, <2>1, <2>2
<1>7. Reported' = Reported
  BY <1>1 DEF Reported
<1> QED BY <1>2, <1>6, <1>7 DEF OrderAccepted, x, a, L1

\* The other steps show the order manager nothing.
LEMMA NothingSeen ==
  UNCHANGED <<received, filled, trades>> => UNCHANGED <<AcceptedOrders, Reported>>
BY DEF AcceptedOrders, Accepted, Reported

\* For an order manager, which takes no order of amount zero, the match actor
\* is the engine that the theorems about OrderManager suppose: it trades
\* accepted orders that have something left, for the smaller of the two.
THEOREM EngineAsSupposed ==
  ASSUME 0 \notin Amount
  PROVE  Spec => AsManagerSupposes
<1>1. Init => NoneEmpty
  BY DEF Init, NoneEmpty
<1>2. HistoryInv /\ NoneEmpty /\ [Next]_vars => NoneEmpty'
  BY NoneEmptyNext DEF HistoryInv
<1>3. HistoryInv /\ NoneEmpty /\ [Next]_vars
        => [OrderAccepted \/ Manager!EngineTrades]_<<AcceptedOrders, Reported>>
  <2> SUFFICES ASSUME HistoryInv, NoneEmpty, [Next]_vars
               PROVE  [OrderAccepted \/ Manager!EngineTrades]_<<AcceptedOrders, Reported>>
    OBVIOUS
  <2>1. CASE ReceiveOrder
    BY <2>1, OrderSeen DEF HistoryInv
  <2>2. CASE TradeWithFront
    BY <2>2, TradeSeen DEF HistoryInv
  <2>3. CASE RestRemainder \/ SendMatchResult \/ SetResultActor \/ UNCHANGED vars
    BY <2>3, NothingSeen DEF RestRemainder, SendMatchResult, SetResultActor, vars, ghosts
  <2> QED BY <2>1, <2>2, <2>3 DEF Next, Handle
<1> QED BY <1>1, <1>2, <1>3, HistoryAlways, PTL DEF Spec, AsManagerSupposes
=============================================================================
