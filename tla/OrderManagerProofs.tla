------------------------- MODULE OrderManagerProofs -------------------------
(***************************************************************************)
(* What the order manager keeps true for any number of worker threads,     *)
(* orders, amounts and clock steps.                                        *)
(***************************************************************************)
EXTENDS OrderManager, DataLemmas

open == order_id_to_order_status_

Trade == [maker: 1 .. MaxOrders, taker: 1 .. MaxOrders, amount: Nat \ {0}]
Point == [time: Nat, id: Nat, status: Status, concluded: Nat]

\* The parts of the type invariant.  No request passes the counter by.
CountersTyped ==
  /\ order_id_ \in Nat /\ order_id_ <= requests /\ requests \in 0 .. MaxOrders
  /\ restarts \in 0 .. MaxRestarts
  /\ test_mode_is_open_ \in BOOLEAN
  /\ subscription \in {"connecting", "open", "ended"}
  /\ clock \in Nat

OpenTyped ==
  /\ DOMAIN open \subseteq 1 .. MaxOrders
  /\ \A id \in DOMAIN open :
       /\ open[id] \in [amount: Amount, time: 0 .. clock, concluded: Nat]
       /\ open[id].concluded < open[id].amount

WorkersTyped ==
  /\ pc \in [Worker -> PC]
  /\ DOMAIN order = Worker
  /\ \A w \in Worker :
       IF pc[w] = "idle" THEN order[w] = NoOrder
       ELSE order[w] \in [id: 1 .. MaxOrders, time: 0 .. clock, amount: Amount]

WritesTyped ==
  /\ to_persist \in Seq(Point)
  /\ \A i \in DOMAIN to_persist : to_persist[i].time \in 0 .. clock

Stored(s) ==
  /\ DOMAIN s \subseteq 0 .. clock
  /\ \A t \in DOMAIN s : s[t] \in [id: Nat, status: Status, concluded: Nat]

EngineTyped == engine \subseteq [id: 1 .. MaxOrders, time: 0 .. clock, left: Nat]

TradesTyped == stream \in Seq(Trade) /\ missed \in Seq(Trade)

HistoryTyped ==
  /\ placed \subseteq [id: 1 .. MaxOrders, time: 0 .. clock, amount: Amount]
  /\ overtaken \subseteq 0 .. clock

PostingTyped ==
  /\ io_thread \in {"running", "ended"}
  /\ lost \subseteq 0 .. clock
  /\ failures \in 0 .. MaxFailures

TypeInv ==
  /\ CountersTyped /\ OpenTyped /\ WorkersTyped /\ WritesTyped
  /\ Stored(store) /\ Stored(database)
  /\ EngineTyped /\ TradesTyped /\ HistoryTyped

USE AmountAssumption, BoundsAssumption, ClockAssumption, TestModeAssumption

-----------------------------------------------------------------------------
\* The parts together are the type invariant.
LEMMA TypeParts == TypeInv /\ PostingTyped => TypeOK
<1> SUFFICES ASSUME TypeInv, PostingTyped PROVE TypeOK
  OBVIOUS
<1>1. \A i \in DOMAIN to_persist :
        to_persist[i] \in [time: 0 .. clock, id: Nat, status: Status, concluded: Nat]
  <2>1. \A i \in DOMAIN to_persist : to_persist[i] \in Point /\ to_persist[i].time \in 0 .. clock
    BY DEF TypeInv, WritesTyped
  <2> QED BY <2>1 DEF Point
<1>2. \A s \in {stream, missed} : \A i \in DOMAIN s :
        s[i] \in [maker: 1 .. MaxOrders, taker: 1 .. MaxOrders, amount: Nat \ {0}]
  <2>1. \A s \in {stream, missed} : \A i \in DOMAIN s : s[i] \in Trade
    BY DEF TypeInv, TradesTyped
  <2> QED BY <2>1 DEF Trade
<1>3. \A s \in {store, database} :
        /\ DOMAIN s \subseteq 0 .. clock
        /\ \A t \in DOMAIN s : s[t] \in [id: Nat, status: Status, concluded: Nat]
  BY DEF TypeInv, Stored
<1>4. /\ order_id_ \in 0 .. MaxOrders
      /\ test_mode_is_open_ \in BOOLEAN
      /\ subscription \in {"connecting", "open", "ended"}
      /\ requests \in 0 .. MaxOrders
      /\ restarts \in 0 .. MaxRestarts
  BY DEF TypeInv, CountersTyped
<1>5. /\ DOMAIN open \subseteq 1 .. MaxOrders
      /\ \A id \in DOMAIN open :
           /\ open[id] \in [amount: Amount, time: 0 .. clock, concluded: Nat]
           /\ open[id].concluded < open[id].amount
  BY DEF TypeInv, OpenTyped
<1>6. /\ pc \in [Worker -> PC]
      /\ \A w \in Worker :
           IF pc[w] = "idle" THEN order[w] = NoOrder
           ELSE order[w] \in [id: 1 .. MaxOrders, time: 0 .. clock, amount: Amount]
  BY DEF TypeInv, WorkersTyped
<1>7. /\ \A e \in engine : e \in [id: 1 .. MaxOrders, time: 0 .. clock, left: Nat]
      /\ placed \subseteq [id: 1 .. MaxOrders, time: 0 .. clock, amount: Amount]
      /\ overtaken \subseteq 0 .. clock
  BY DEF TypeInv, EngineTyped, HistoryTyped
<1>8. /\ io_thread \in {"running", "ended"}
      /\ lost \subseteq 0 .. clock
      /\ failures \in 0 .. MaxFailures
  BY DEF PostingTyped
<1> QED BY <1>1, <1>2, <1>3, <1>4, <1>5, <1>6, <1>7, <1>8 DEF TypeOK, open

LEMMA TypeInit == Init => TypeInv
<1>1. <<>> \in Seq(Point) /\ <<>> \in Seq(Trade) /\ DOMAIN <<>> = {}
  BY EmptySeq
<1> QED BY <1>1 DEF Init, TypeInv, CountersTyped, OpenTyped, WorkersTyped, WritesTyped,
                    Stored, EngineTyped, TradesTyped, HistoryTyped, PC, NoOrder, open

\* As the clock goes on, what keeps its value keeps its type.
LEMMA ClockGoesOn ==
  ASSUME TypeInv, clock' \in Nat, clock <= clock'
  PROVE  /\ UNCHANGED order_id_to_order_status_ => OpenTyped'
         /\ UNCHANGED to_persist => WritesTyped'
         /\ UNCHANGED store => Stored(store)'
         /\ UNCHANGED database => Stored(database)'
         /\ UNCHANGED engine => EngineTyped'
         /\ UNCHANGED <<placed, overtaken>> => HistoryTyped'
<1>1. 0 .. clock \subseteq 0 .. clock' /\ clock \in Nat
  BY DEF TypeInv, CountersTyped
<1>2. UNCHANGED order_id_to_order_status_ => OpenTyped'
  BY <1>1 DEF TypeInv, OpenTyped, open
<1>3. UNCHANGED to_persist => WritesTyped'
  BY <1>1 DEF TypeInv, WritesTyped
<1>4. UNCHANGED store => Stored(store)'
  BY <1>1 DEF TypeInv, Stored
<1>5. UNCHANGED database => Stored(database)'
  BY <1>1 DEF TypeInv, Stored
<1>6. UNCHANGED engine => EngineTyped'
  BY <1>1 DEF TypeInv, EngineTyped
<1>7. UNCHANGED <<placed, overtaken>> => HistoryTyped'
  BY <1>1 DEF TypeInv, HistoryTyped
<1> QED BY <1>2, <1>3, <1>4, <1>5, <1>6, <1>7

LEMMA TypeBuildOrder ==
  ASSUME NEW w \in Worker, BuildOrder(w), TypeInv
  PROVE  TypeInv'
<1>1. CountersTyped' /\ clock <= clock'
  BY DEF BuildOrder, TypeInv, CountersTyped
<1>2. WorkersTyped'
  <2>1. PICK a \in Amount :
          order' = [order EXCEPT ![w] = [id |-> order_id_ + 1, time |-> clock', amount |-> a]]
    BY DEF BuildOrder
  <2>2. order_id_ + 1 \in 1 .. MaxOrders /\ clock' \in 0 .. clock' /\ 0 .. clock \subseteq 0 .. clock'
    BY <1>1 DEF BuildOrder, TypeInv, CountersTyped
  <2> QED BY <2>1, <2>2 DEF BuildOrder, TypeInv, WorkersTyped, PC
<1>3. TradesTyped'
  BY DEF BuildOrder, outside, TypeInv, TradesTyped
<1>4. UNCHANGED <<order_id_to_order_status_, to_persist, store, database, engine, placed, overtaken>>
  BY DEF BuildOrder, records, outside, ghosts
<1> QED BY <1>1, <1>2, <1>3, <1>4, ClockGoesOn DEF TypeInv, CountersTyped

LEMMA TypeSaveOrderStatus ==
  ASSUME NEW w \in Worker, SaveOrderStatus(w), TypeInv
  PROVE  TypeInv'
<1> DEFINE o == order[w]
<1>1. o \in [id: 1 .. MaxOrders, time: 0 .. clock, amount: Amount]
  BY DEF SaveOrderStatus, TypeInv, WorkersTyped
<1>2. OpenTyped'
  <2>1. open' = Put(open, o.id, [amount |-> o.amount, time |-> o.time, concluded |-> 0])
    BY DEF SaveOrderStatus, open
  <2>2. clock' = clock
    BY DEF SaveOrderStatus
  <2>3. o.id \in 1 .. MaxOrders /\ o.time \in 0 .. clock /\ o.amount \in Amount /\ 0 < o.amount
    <3>1. o.id \in 1 .. MaxOrders /\ o.time \in 0 .. clock /\ o.amount \in Amount
      BY <1>1
    <3>2. o.amount \in Nat \ {0}
      BY <3>1
    <3> QED BY <3>1, <3>2
  <2> DEFINE new == [amount |-> o.amount, time |-> o.time, concluded |-> 0]
  <2>4. new \in [amount: Amount, time: 0 .. clock, concluded: Nat] /\ new.concluded < new.amount
    BY <2>3
  <2>5. DOMAIN open' = DOMAIN open \cup {o.id}
    BY <2>1 DEF Put
  <2>6. \A id \in DOMAIN open' : open'[id] = IF id = o.id THEN new ELSE open[id]
    BY <2>1 DEF Put
  <2> HIDE DEF new, o
  <2> QED BY <2>2, <2>3, <2>4, <2>5, <2>6 DEF TypeInv, OpenTyped
<1>3. WorkersTyped'
  BY DEF SaveOrderStatus, TypeInv, WorkersTyped, PC
<1>4. HistoryTyped'
  BY <1>1 DEF SaveOrderStatus, TypeInv, HistoryTyped
<1>5. CountersTyped' /\ WritesTyped' /\ Stored(store)' /\ Stored(database)' /\ EngineTyped' /\ TradesTyped'
  BY DEF SaveOrderStatus, TypeInv, CountersTyped, WritesTyped, Stored, EngineTyped, TradesTyped,
         records, outside, counts
<1> QED BY <1>2, <1>3, <1>4, <1>5 DEF TypeInv

\* A point is written over the one with its time.
LEMMA TypePersistOrder ==
  ASSUME NEW s, Stored(s), NEW p \in Point, p.time \in 0 .. clock
  PROVE  Stored(PersistOrder(s, p))
BY DEF Stored, PersistOrder, Put, Point

LEMMA TypePersistProgress ==
  ASSUME NEW w \in Worker, NEW status \in Status, PersistProgress(w, status),
         TypeInv, pc[w] # "idle", UNCHANGED <<clock, placed>>
  PROVE  Stored(store)' /\ HistoryTyped'
<1> DEFINE p == Write(order[w], status, 0)
<1>1. order[w] \in [id: 1 .. MaxOrders, time: 0 .. clock, amount: Amount] /\ clock \in Nat
  BY DEF TypeInv, WorkersTyped, CountersTyped
<1>2. p \in Point /\ p.time \in 0 .. clock
  BY <1>1 DEF Write, Point
<1>3. Stored(PersistOrder(store, p))
  BY <1>2, TypePersistOrder DEF TypeInv
<1>4. Stored(store)'
  BY <1>3 DEF PersistProgress, Stored
<1>5. HistoryTyped'
  BY <1>1 DEF PersistProgress, TypeInv, HistoryTyped
<1> QED BY <1>4, <1>5

LEMMA TypePersistUnsubmitted ==
  ASSUME NEW w \in Worker, PersistUnsubmitted(w), TypeInv
  PROVE  TypeInv'
<1>1. Stored(store)' /\ HistoryTyped'
  BY TypePersistProgress DEF PersistUnsubmitted, Status, counts
<1>2. WorkersTyped'
  BY DEF PersistUnsubmitted, TypeInv, WorkersTyped, PC
<1>3. CountersTyped' /\ OpenTyped' /\ WritesTyped' /\ Stored(database)' /\ EngineTyped' /\ TradesTyped'
  BY DEF PersistUnsubmitted, TypeInv, CountersTyped, OpenTyped, WritesTyped, Stored, EngineTyped,
         TradesTyped, manager, outside, counts, open
<1> QED BY <1>1, <1>2, <1>3 DEF TypeInv

LEMMA TypeMatch ==
  ASSUME NEW w \in Worker, Match(w), TypeInv
  PROVE  TypeInv'
<1>1. order[w] \in [id: 1 .. MaxOrders, time: 0 .. clock, amount: Amount]
  BY DEF Match, TypeInv, WorkersTyped
<1>2. PICK accepted \in BOOLEAN, answered \in BOOLEAN :
        /\ engine' = engine \cup
            (IF accepted THEN {[id |-> order[w].id, time |-> order[w].time,
                                left |-> order[w].amount]} ELSE {})
        /\ pc' = [pc EXCEPT ![w] =
                   IF test_mode_is_open_ THEN "idle"
                   ELSE IF accepted /\ answered THEN "submitted"
                   ELSE "submission error"]
  BY DEF Match
<1>3. EngineTyped'
  <2>1. [id |-> order[w].id, time |-> order[w].time, left |-> order[w].amount]
          \in [id: 1 .. MaxOrders, time: 0 .. clock, left: Nat]
    BY <1>1
  <2>2. UNCHANGED clock
    BY DEF Match
  <2> QED BY <1>2, <2>1, <2>2 DEF TypeInv, EngineTyped
<1>4. WorkersTyped'
  <2>1. order' = IF test_mode_is_open_ THEN [order EXCEPT ![w] = NoOrder] ELSE order
    BY DEF Match
  <2>2. UNCHANGED clock
    BY DEF Match
  <2>3. CASE test_mode_is_open_
    BY <1>2, <2>1, <2>2, <2>3 DEF TypeInv, WorkersTyped, PC
  <2>4. CASE ~test_mode_is_open_
    BY <1>1, <1>2, <2>1, <2>2, <2>4 DEF TypeInv, WorkersTyped, PC
  <2> QED BY <2>3, <2>4
<1>5. CountersTyped' /\ OpenTyped' /\ WritesTyped' /\ Stored(store)' /\ Stored(database)' /\ TradesTyped'
      /\ HistoryTyped'
  BY DEF Match, TypeInv, CountersTyped, OpenTyped, WritesTyped, Stored, HistoryTyped,
         TradesTyped, manager, records, ghosts, counts, open
<1> QED BY <1>3, <1>4, <1>5 DEF TypeInv

LEMMA TypePersistSubmission ==
  ASSUME NEW w \in Worker, PersistSubmission(w), TypeInv
  PROVE  TypeInv'
<1>1. Stored(store)' /\ HistoryTyped'
  BY TypePersistProgress DEF PersistSubmission, Status, counts
<1>2. WorkersTyped'
  BY DEF PersistSubmission, TypeInv, WorkersTyped, PC
<1>3. CountersTyped' /\ OpenTyped' /\ WritesTyped' /\ Stored(database)' /\ EngineTyped' /\ TradesTyped'
  BY DEF PersistSubmission, TypeInv, CountersTyped, OpenTyped, WritesTyped, Stored, EngineTyped,
         TradesTyped, manager, outside, counts, open
<1> QED BY <1>1, <1>2, <1>3 DEF TypeInv

LEMMA TypeSubscribe == ASSUME Subscribe, TypeInv PROVE TypeInv'
BY DEF Subscribe, TypeInv, CountersTyped, OpenTyped, WorkersTyped, WritesTyped, Stored, EngineTyped,
       TradesTyped, HistoryTyped, manager, records, outside, ghosts, counts, open

LEMMA TypeSubscriptionEnds == ASSUME SubscriptionEnds, TypeInv PROVE TypeInv'
<1>1. TradesTyped'
  <2>1. missed \o stream \in Seq(Trade) /\ <<>> \in Seq(Trade)
    BY EmptySeq DEF TypeInv, TradesTyped
  <2> QED BY <2>1 DEF SubscriptionEnds, TradesTyped
<1>2. /\ CountersTyped' /\ OpenTyped' /\ WorkersTyped' /\ WritesTyped' /\ Stored(store)'
      /\ Stored(database)' /\ EngineTyped' /\ HistoryTyped'
  BY DEF SubscriptionEnds, TypeInv, CountersTyped, OpenTyped, WorkersTyped, WritesTyped, Stored, EngineTyped,
         HistoryTyped, manager, records, ghosts, counts, open
<1> QED BY <1>1, <1>2 DEF TypeInv

\* What happens when two orders trade: they trade the smaller of what is left
\* of them, and at least one of them is used up.
Trading(m, k, n, t) ==
  /\ m \in engine /\ k \in engine /\ m # k
  /\ n \in Nat \ {0} /\ n <= m.left /\ n <= k.left
  /\ t = [maker |-> m.id, taker |-> k.id, amount |-> n]
  /\ engine' = (engine \ {m, k}) \cup {[m EXCEPT !.left = @ - n], [k EXCEPT !.left = @ - n]}
  /\ \/ stream' = Append(stream, t) /\ UNCHANGED missed
     \/ missed' = Append(missed, t) /\ UNCHANGED stream

LEMMA EngineTradesFacts ==
  ASSUME EngineTrades, TypeInv
  PROVE  /\ \E m, k, n, t : Trading(m, k, n, t)
         /\ UNCHANGED <<manager, pc, order, to_persist, records, test_mode_is_open_,
                        subscription, clock, ghosts, counts>>
<1>1. PICK m \in engine, k \in engine :
        /\ m # k /\ m.left > 0 /\ k.left > 0
        /\ LET n == Min({m.left, k.left})
               t == [maker |-> m.id, taker |-> k.id, amount |-> n]
           IN /\ engine' = (engine \ {m, k})
                           \cup {[m EXCEPT !.left = @ - n], [k EXCEPT !.left = @ - n]}
              /\ IF subscription = "open"
                 THEN stream' = Append(stream, t) /\ UNCHANGED missed
                 ELSE missed' = Append(missed, t) /\ UNCHANGED stream
  BY DEF EngineTrades
<1> DEFINE n == Min({m.left, k.left})
           t == [maker |-> m.id, taker |-> k.id, amount |-> n]
<1>2. m.left \in Nat /\ k.left \in Nat
  BY DEF TypeInv, EngineTyped
<1>3. n \in Nat \ {0} /\ n <= m.left /\ n <= k.left
  <2> DEFINE a == m.left
             b == k.left
  <2>1. a \in Nat /\ b \in Nat /\ a > 0 /\ b > 0
    BY <1>1, <1>2
  <2> HIDE DEF a, b
  <2>2. Min({a, b}) \in {a, b} /\ Min({a, b}) <= a /\ Min({a, b}) <= b
    BY <2>1 DEF Min
  <2>3. n = Min({a, b})
    BY DEF a, b
  <2> HIDE DEF n
  <2> QED BY <2>1, <2>2, <2>3 DEF a, b
<1>4. Trading(m, k, n, t)
  <2> HIDE DEF n
  <2>1. engine' = (engine \ {m, k}) \cup {[m EXCEPT !.left = @ - n], [k EXCEPT !.left = @ - n]}
    BY <1>1 DEF n
  <2>2. \/ stream' = Append(stream, t) /\ UNCHANGED missed
        \/ missed' = Append(missed, t) /\ UNCHANGED stream
    BY <1>1 DEF n
  <2> QED BY <1>1, <1>3, <2>1, <2>2 DEF Trading
<1>5. UNCHANGED <<manager, pc, order, to_persist, records, test_mode_is_open_,
                  subscription, clock, ghosts, counts>>
  BY DEF EngineTrades
<1> QED BY <1>4, <1>5

LEMMA TypeEngineTrades == ASSUME EngineTrades, TypeInv PROVE TypeInv'
<1>1. PICK m, k, n, t : Trading(m, k, n, t)
  BY EngineTradesFacts
<1>2. UNCHANGED <<manager, pc, order, to_persist, records, test_mode_is_open_,
                  subscription, clock, ghosts, counts>>
  BY EngineTradesFacts
<1>3. EngineTyped'
  <2>1. /\ m \in [id: 1 .. MaxOrders, time: 0 .. clock, left: Nat]
        /\ k \in [id: 1 .. MaxOrders, time: 0 .. clock, left: Nat]
    BY <1>1 DEF Trading, TypeInv, EngineTyped
  <2>2. m.left - n \in Nat /\ k.left - n \in Nat
    BY <1>1, <2>1 DEF Trading
  <2>3. /\ [m EXCEPT !.left = @ - n] \in [id: 1 .. MaxOrders, time: 0 .. clock, left: Nat]
        /\ [k EXCEPT !.left = @ - n] \in [id: 1 .. MaxOrders, time: 0 .. clock, left: Nat]
    BY <2>1, <2>2
  <2> QED BY <1>1, <1>2, <2>3 DEF Trading, TypeInv, EngineTyped
<1>4. TradesTyped'
  <2>1. t \in Trade
    BY <1>1 DEF Trading, Trade, TypeInv, EngineTyped
  <2>2. stream \in Seq(Trade) /\ missed \in Seq(Trade)
    BY DEF TypeInv, TradesTyped
  <2>3. Append(stream, t) \in Seq(Trade) /\ Append(missed, t) \in Seq(Trade)
    BY <2>1, <2>2, AppendProperties
  <2> QED BY <1>1, <2>2, <2>3 DEF Trading, TradesTyped
<1>5. /\ CountersTyped' /\ OpenTyped' /\ WorkersTyped' /\ WritesTyped' /\ Stored(store)'
      /\ Stored(database)' /\ HistoryTyped'
  BY <1>2 DEF TypeInv, CountersTyped, OpenTyped, WorkersTyped, WritesTyped, Stored,
         HistoryTyped, manager, records, ghosts, counts, open
<1> QED BY <1>3, <1>4, <1>5 DEF TypeInv

\* Trade t has been handled: orders are credited, and leave the map once they
\* have been concluded to the full.
LEMMA CreditType ==
  ASSUME NEW t \in Trade, NEW id PROVE Credit(t, id) \in Nat
BY DEF Credit, Trade

LEMMA AfterMatchFacts ==
  ASSUME NEW t \in Trade, TypeInv, {t.maker, t.taker} \subseteq DOMAIN open,
         NEW id \in DOMAIN open
  PROVE  LET concluded == open[id].concluded + Credit(t, id)
         IN  /\ concluded \in Nat
             /\ id \in DOMAIN AfterMatch(open, t) <=> concluded < open[id].amount
             /\ id \in DOMAIN AfterMatch(open, t) =>
                  AfterMatch(open, t)[id] = [open[id] EXCEPT !.concluded = concluded]
<1> DEFINE credited == [i \in DOMAIN open |-> [open[i] EXCEPT !.concluded = @ + Credit(t, i)]]
           full(i) == credited[i].amount <= credited[i].concluded
           concluded == open[id].concluded + Credit(t, id)
<1>1. /\ open[id] \in [amount: Amount, time: 0 .. clock, concluded: Nat]
      /\ open[id].concluded < open[id].amount
  BY DEF TypeInv, OpenTyped
<1>2. concluded \in Nat /\ open[id].amount \in Nat /\ Credit(t, id) \in Nat
  <2>1. Credit(t, id) \in Nat
    BY CreditType
  <2>2. open[id].concluded \in Nat /\ open[id].amount \in Amount
    BY <1>1
  <2>3. open[id].amount \in Nat
    BY <2>2
  <2> DEFINE a == open[id].concluded
             b == Credit(t, id)
  <2>4. a \in Nat /\ b \in Nat
    BY <2>1, <2>2
  <2>5. a + b \in Nat
    <3> HIDE DEF a, b
    <3> QED BY <2>4
  <2> QED BY <2>1, <2>3, <2>5
<1>3. credited[id].amount = open[id].amount /\ credited[id].concluded = concluded
  BY <1>1
<1>4. /\ DOMAIN AfterMatch(open, t) = DOMAIN open \ {i \in {t.maker, t.taker} : full(i)}
      /\ \A i \in DOMAIN AfterMatch(open, t) : AfterMatch(open, t)[i] = credited[i]
  BY DEF AfterMatch
<1>5. id \notin {t.maker, t.taker} => concluded = open[id].concluded
  BY <1>1 DEF Credit
<1>6. id \in DOMAIN AfterMatch(open, t) <=> ~(id \in {t.maker, t.taker} /\ open[id].amount <= concluded)
  <2> HIDE DEF credited, concluded
  <2> QED BY <1>3, <1>4
<1>7. id \in DOMAIN AfterMatch(open, t) <=> concluded < open[id].amount
  <2> HIDE DEF concluded
  <2>1. CASE id \in {t.maker, t.taker}
    BY <1>2, <1>6, <2>1
  <2>2. CASE id \notin {t.maker, t.taker}
    BY <1>1, <1>5, <1>6, <2>2
  <2> QED BY <2>1, <2>2
<1>8. id \in DOMAIN AfterMatch(open, t) =>
        AfterMatch(open, t)[id] = [open[id] EXCEPT !.concluded = concluded]
  BY <1>4
<1> QED BY <1>2, <1>7, <1>8

LEMMA TypeHandleMatchResult == ASSUME HandleMatchResult, TypeInv PROVE TypeInv'
<1> DEFINE t == Head(stream)
           known == {t.maker, t.taker} \subseteq DOMAIN open
<1>1. /\ open' = IF known THEN AfterMatch(open, t) ELSE open
      /\ to_persist' = IF known /\ ~test_mode_is_open_
                       THEN <<MatchWrite(open, t, t.maker), MatchWrite(open, t, t.taker)>>
                       ELSE <<>>
      /\ stream' = Tail(stream) /\ stream # <<>>
  BY DEF HandleMatchResult, open
<1>2. UNCHANGED <<order_id_, pc, order, records, test_mode_is_open_, subscription,
                  clock, engine, missed, ghosts, counts>>
  BY DEF HandleMatchResult
<1>3. t \in Trade /\ Tail(stream) \in Seq(Trade)
  BY <1>1 DEF TypeInv, TradesTyped
<1> HIDE DEF t
<1>4. OpenTyped'
  <2>1. CASE ~known
    BY <1>1, <1>2, <2>1 DEF TypeInv, OpenTyped
  <2>2. CASE known
    <3>1. DOMAIN open' \subseteq DOMAIN open
      BY <1>1, <2>2 DEF AfterMatch
    <3>2. ASSUME NEW id \in DOMAIN open'
          PROVE  /\ open'[id] \in [amount: Amount, time: 0 .. clock, concluded: Nat]
                 /\ open'[id].concluded < open'[id].amount
      <4> DEFINE concluded == open[id].concluded + Credit(t, id)
      <4>1. id \in DOMAIN open
        BY <3>1
      <4>2. /\ concluded \in Nat /\ concluded < open[id].amount
            /\ open'[id] = [open[id] EXCEPT !.concluded = concluded]
        <5>1. open' = AfterMatch(open, t)
          BY <1>1, <2>2
        <5> QED BY <1>3, <2>2, <4>1, <5>1, AfterMatchFacts
      <4>3. open[id] \in [amount: Amount, time: 0 .. clock, concluded: Nat]
        BY <4>1 DEF TypeInv, OpenTyped
      <4> HIDE DEF concluded
      <4> QED BY <4>2, <4>3
    <3> QED BY <3>1, <3>2, <1>2 DEF TypeInv, OpenTyped
  <2> QED BY <2>1, <2>2
<1>5. WritesTyped'
  <2>1. CASE known /\ ~test_mode_is_open_
    <3>1. ASSUME NEW id \in DOMAIN open
          PROVE  MatchWrite(open, t, id) \in Point /\ MatchWrite(open, t, id).time \in 0 .. clock
      <4>1. open[id] \in [amount: Amount, time: 0 .. clock, concluded: Nat] /\ id \in Nat
        BY DEF TypeInv, OpenTyped
      <4>2. open[id].concluded + Credit(t, id) \in Nat
        BY <1>3, <4>1, CreditType
      <4>3. ConcludedStatus(open[id].amount, open[id].concluded + Credit(t, id)) \in Status
        BY DEF ConcludedStatus, Status
      <4>4. open[id].time \in 0 .. clock /\ clock \in Nat
        BY <4>1 DEF TypeInv, CountersTyped
      <4> QED BY <4>1, <4>2, <4>3, <4>4 DEF MatchWrite, Write, Point
    <3>2. to_persist' = <<MatchWrite(open, t, t.maker), MatchWrite(open, t, t.taker)>>
      BY <1>1, <2>1
    <3> QED BY <1>2, <2>1, <3>1, <3>2 DEF WritesTyped
  <2>2. CASE ~(known /\ ~test_mode_is_open_)
    <3>1. to_persist' = <<>>
      BY <1>1, <2>2
    <3> QED BY <3>1, EmptySeq DEF WritesTyped
  <2> QED BY <2>1, <2>2
<1>6. TradesTyped'
  BY <1>1, <1>2, <1>3 DEF TypeInv, TradesTyped
<1>7. /\ CountersTyped' /\ WorkersTyped' /\ Stored(store)'
      /\ Stored(database)' /\ EngineTyped' /\ HistoryTyped'
  BY <1>2 DEF TypeInv, CountersTyped, WorkersTyped, Stored, EngineTyped,
         HistoryTyped, records, ghosts, counts
<1> QED BY <1>4, <1>5, <1>6, <1>7 DEF TypeInv

LEMMA TypePersistMatch == ASSUME PersistMatch, TypeInv PROVE TypeInv'
<1>1. /\ to_persist # <<>> /\ to_persist \in Seq(Point)
      /\ store' = PersistOrder(store, Head(to_persist)) /\ to_persist' = Tail(to_persist)
      /\ \A i \in DOMAIN to_persist : to_persist[i].time \in 0 .. clock
  BY DEF PersistMatch, TypeInv, WritesTyped
<1>2. Head(to_persist) \in Point /\ Head(to_persist).time \in 0 .. clock
  <2>1. Head(to_persist) = to_persist[1] /\ 1 \in DOMAIN to_persist /\ to_persist[1] \in Point
    BY <1>1, NonEmptySeq
  <2> QED BY <1>1, <2>1
<1>3. UNCHANGED <<manager, pc, order, database, test_mode_is_open_, subscription,
                  clock, outside, ghosts, counts>>
  BY DEF PersistMatch
<1>4. Stored(store)'
  <2>1. Stored(PersistOrder(store, Head(to_persist)))
    BY <1>2, TypePersistOrder DEF TypeInv
  <2> QED BY <1>1, <1>3, <2>1 DEF Stored
<1>5. WritesTyped'
  <2>1. /\ Tail(to_persist) \in Seq(Point)
        /\ \A i \in DOMAIN Tail(to_persist) : i + 1 \in DOMAIN to_persist /\ Tail(to_persist)[i] = to_persist[i + 1]
    BY <1>1
  <2> QED BY <1>1, <1>3, <2>1 DEF WritesTyped
<1>6. /\ CountersTyped' /\ OpenTyped' /\ WorkersTyped'
      /\ Stored(database)' /\ EngineTyped' /\ TradesTyped' /\ HistoryTyped'
  BY <1>3 DEF TypeInv, CountersTyped, OpenTyped, WorkersTyped, Stored, EngineTyped, TradesTyped,
         HistoryTyped, manager, outside, ghosts, counts, open
<1> QED BY <1>4, <1>5, <1>6 DEF TypeInv

LEMMA TypeFlush == ASSUME Flush, TypeInv PROVE TypeInv'
BY DEF Flush, TypeInv, CountersTyped, OpenTyped, WorkersTyped, WritesTyped, Stored, EngineTyped,
       TradesTyped, HistoryTyped, manager, outside, ghosts, counts, open

LEMMA TypePostFails == ASSUME PostFails, TypeInv PROVE TypeInv'
<1>1. database' \in {store, database} /\ store' = database' /\ clock' = clock
  BY DEF PostFails, BatchFails
<1>2. Stored(store)' /\ Stored(database)'
  BY <1>1 DEF TypeInv, Stored
<1>3. /\ CountersTyped' /\ OpenTyped' /\ WorkersTyped' /\ WritesTyped' /\ EngineTyped'
      /\ TradesTyped' /\ HistoryTyped'
  BY DEF PostFails, BatchFails, TypeInv, CountersTyped, OpenTyped, WorkersTyped, WritesTyped, EngineTyped,
         TradesTyped, HistoryTyped, manager, outside, ghosts, counts, open
<1> QED BY <1>2, <1>3 DEF TypeInv

LEMMA TypeRestart == ASSUME Restart, TypeInv PROVE TypeInv'
<1>1. CountersTyped' /\ clock' \in Nat /\ clock <= clock'
  BY DEF Restart, TypeInv, CountersTyped
<1>2. <<>> \in Seq(Point) /\ <<>> \in Seq(Trade) /\ DOMAIN <<>> = {}
  BY EmptySeq
<1>3. OpenTyped' /\ WritesTyped' /\ WorkersTyped'
  BY <1>2 DEF Restart, OpenTyped, WritesTyped, WorkersTyped, PC, open
<1>4. TradesTyped'
  BY <1>2 DEF Restart, TypeInv, TradesTyped
<1>5. Stored(database)' /\ EngineTyped' /\ HistoryTyped'
  BY <1>1, ClockGoesOn DEF Restart, ghosts
<1>6. Stored(store)'
  BY <1>5 DEF Restart, Stored
<1> QED BY <1>1, <1>3, <1>4, <1>5, <1>6 DEF TypeInv

LEMMA TypeUnchanged == ASSUME UNCHANGED vars, TypeInv PROVE TypeInv'
BY DEF vars, TypeInv, CountersTyped, OpenTyped, WorkersTyped, WritesTyped, Stored, EngineTyped,
       TradesTyped, HistoryTyped, manager, records, outside, ghosts, counts, open

\* Every step keeps the types.
LEMMA TypeStep == TypeInv /\ [Next]_vars => TypeInv'
<1> SUFFICES ASSUME TypeInv, [Next]_vars PROVE TypeInv'
  OBVIOUS
<1>1. ASSUME NEW w \in Worker, BuildOrder(w) \/ PlaceOrder(w) PROVE TypeInv'
  BY <1>1, TypeBuildOrder, TypeSaveOrderStatus, TypePersistUnsubmitted, TypeMatch,
     TypePersistSubmission DEF PlaceOrder
<1>2. CASE Subscribe
  BY <1>2, TypeSubscribe
<1>3. CASE SubscriptionEnds
  BY <1>3, TypeSubscriptionEnds
<1>4. CASE Subscription
  BY <1>4, TypeHandleMatchResult, TypePersistMatch DEF Subscription
<1>5. CASE EngineTrades
  BY <1>5, TypeEngineTrades
<1>6. CASE Flush
  BY <1>6, TypeFlush
<1>7. CASE PostFails
  BY <1>7, TypePostFails
<1>8. CASE Restart
  BY <1>8, TypeRestart
<1>9. CASE UNCHANGED vars
  BY <1>9, TypeUnchanged
<1> QED BY <1>1, <1>2, <1>3, <1>4, <1>5, <1>6, <1>7, <1>8, <1>9 DEF Next

\* The clock does not go back.
LEMMA ClockStep ==
  ASSUME TypeInv, [Next]_vars
  PROVE  clock \in Nat /\ clock' \in Nat /\ clock <= clock'
<1>1. TypeInv'
  BY TypeStep
<1>2. clock \in Nat /\ clock' \in Nat
  BY <1>1 DEF TypeInv, CountersTyped
<1>3. ASSUME NEW w \in Worker, BuildOrder(w) PROVE clock <= clock'
  BY <1>2, <1>3 DEF BuildOrder
<1>4. CASE Restart
  BY <1>2, <1>4 DEF Restart
<1>5. CASE clock' = clock
  BY <1>2, <1>5
<1>6. \/ \E w \in Worker : BuildOrder(w)
      \/ Restart \/ clock' = clock
  BY DEF Next, PlaceOrder, SaveOrderStatus, PersistUnsubmitted, Match, PersistSubmission, Subscribe,
     SubscriptionEnds, Subscription, HandleMatchResult, PersistMatch, EngineTrades, Flush, PostFails, BatchFails, vars
<1> QED BY <1>2, <1>3, <1>4, <1>5, <1>6

\* Only posts that fail and the writes that make up for them change what is
\* known of the posts; a restart has the IO thread run again.
LEMMA PostingKept ==
  ASSUME [Next]_vars, ~PersistMatch, ~PostFails, ~Restart
  PROVE  UNCHANGED posting
<1>1. CASE UNCHANGED vars
  BY <1>1 DEF vars
<1>2. ASSUME NEW w \in Worker, BuildOrder(w) \/ PlaceOrder(w) PROVE UNCHANGED posting
  BY <1>2 DEF BuildOrder, PlaceOrder, SaveOrderStatus, PersistUnsubmitted, Match, PersistSubmission
<1>3. CASE Subscribe \/ SubscriptionEnds \/ HandleMatchResult \/ EngineTrades \/ Flush
  BY <1>3 DEF Subscribe, SubscriptionEnds, HandleMatchResult, EngineTrades, Flush
<1> QED BY <1>1, <1>2, <1>3 DEF Next, Subscription

LEMMA PostingStep ==
  ASSUME TypeInv, PostingTyped, [Next]_vars PROVE PostingTyped'
<1>1. 0 .. clock \subseteq 0 .. clock'
  BY ClockStep
<1>2. CASE PersistMatch
  BY <1>1, <1>2 DEF PersistMatch, PostingTyped
<1>3. CASE PostFails
  <2>1. DOMAIN store \subseteq 0 .. clock
    BY DEF TypeInv, Stored
  <2>2. lost' \subseteq 0 .. clock
    BY <1>3, <2>1 DEF PostFails, BatchFails, PostingTyped
  <2>3. failures' \in 0 .. MaxFailures /\ io_thread' \in {"running", "ended"}
    BY <1>3 DEF PostFails, BatchFails, PostingTyped
  <2> QED BY <1>1, <2>2, <2>3 DEF PostingTyped
<1>4. CASE Restart
  BY <1>1, <1>4 DEF Restart, PostingTyped
<1>5. CASE ~PersistMatch /\ ~PostFails /\ ~Restart
  BY <1>1, <1>5, PostingKept DEF posting, PostingTyped
<1> QED BY <1>2, <1>3, <1>4, <1>5

LEMMA TypeInvariant == Spec => []TypeInv
<1>1. Init => TypeInv
  BY TypeInit
<1>2. TypeInv /\ [Next]_vars => TypeInv'
  BY TypeStep
<1> QED BY <1>1, <1>2, PTL DEF Spec

\* The variables of the order manager keep their types, through restarts
\* and failed posts too, and the map never keeps an order that has been filled: the last of
\* the trades of an order, as maker or as taker, erases it
\* (order_manager.cc:255-262).
THEOREM TypeCorrect == Spec => []TypeOK
<1>1. Init => TypeInv /\ PostingTyped
  BY TypeInit DEF Init, PostingTyped
<1>2. TypeInv /\ PostingTyped /\ [Next]_vars => (TypeInv /\ PostingTyped)'
  BY TypeStep, PostingStep
<1>3. TypeInv /\ PostingTyped => TypeOK
  BY TypeParts
<1> QED BY <1>1, <1>2, <1>3, PTL DEF Spec

-----------------------------------------------------------------------------
(***************************************************************************)
(* Between restarts: what the manager has counted is what the engine has   *)
(* traded.                                                                 *)
(***************************************************************************)

\* Every order has an id of its own, and is saved before the engine sees it.
IdsGivenOut ==
  /\ \A w \in Worker : pc[w] # "idle" => order[w].id <= order_id_
  /\ \A v, w \in Worker :
       v # w /\ pc[v] # "idle" /\ pc[w] # "idle" => order[v].id # order[w].id

SavedOnce ==
  /\ \A o \in placed : o.id <= order_id_
  /\ \A o, p \in placed : o.id = p.id => o = p
  /\ \A w \in Worker : pc[w] = "save" => \A o \in placed : o.id # order[w].id
  /\ \A w \in Worker : pc[w] \notin {"idle", "save"} => order[w] \in placed

InEngine(id) == \E e \in engine : e.id = id

EngineKnows ==
  /\ \A e \in engine : \E o \in placed : o.id = e.id
  /\ \A d, e \in engine : d.id = e.id => d = e
  /\ \A w \in Worker : pc[w] \in {"unsubmitted", "match"} => ~InEngine(order[w].id)

\* The map has the amounts of the orders, and nothing for those that have not
\* reached the engine.
MapAgrees ==
  /\ \A o \in placed : o.id \in DOMAIN open =>
       open[o.id].amount = o.amount /\ open[o.id].time = o.time
  /\ \A o \in placed : ~InEngine(o.id) =>
       o.id \in DOMAIN open /\ open[o.id].concluded = 0

TradesOfEngine ==
  /\ \A s \in {stream, missed} : \A i \in DOMAIN s :
       s[i].maker # s[i].taker /\ InEngine(s[i].maker) /\ InEngine(s[i].taker)
  /\ \A id \in Nat : ~InEngine(id) => Credits(stream, id) = 0 /\ Credits(missed, id) = 0

CountingParts ==
  /\ IdsGivenOut /\ SavedOnce /\ EngineKnows /\ MapAgrees
  /\ TradesOfEngine /\ EveryTradeCounted

CountingInv == TypeInv /\ CountingParts

-----------------------------------------------------------------------------
\* The credits of an order, trade by trade.
CreditOf(s, id) == [i \in DOMAIN s |-> Credit(s[i], id)]

LEMMA CreditsSum ==
  ASSUME NEW s \in Seq(Trade), NEW id
  PROVE  /\ Credits(s, id) = SumTo(CreditOf(s, id), Len(s))
         /\ Len(s) \in Nat
         /\ \A i \in 1 .. Len(s) : CreditOf(s, id)[i] = Credit(s[i], id) /\ Credit(s[i], id) \in Nat
         /\ Credits(s, id) \in Nat
<1>1. DOMAIN s = 1 .. Len(s) /\ Len(s) \in Nat /\ \A i \in 1 .. Len(s) : s[i] \in Trade
  OBVIOUS
<1>2. DOMAIN CreditOf(s, id) = 1 .. Len(s)
  BY <1>1 DEF CreditOf
<1>3. Credits(s, id) = SumTo(CreditOf(s, id), Len(s))
  BY <1>2 DEF Credits, CreditOf, SumFunction, SumTo
<1>4. \A i \in 1 .. Len(s) : CreditOf(s, id)[i] = Credit(s[i], id) /\ Credit(s[i], id) \in Nat
  BY <1>1, CreditType DEF CreditOf
<1>5. SumTo(CreditOf(s, id), Len(s)) \in Nat
  BY <1>1, <1>4, SumToType
<1> QED BY <1>1, <1>3, <1>4, <1>5

LEMMA CreditsConcat ==
  ASSUME NEW s \in Seq(Trade), NEW r \in Seq(Trade), NEW id
  PROVE  Credits(s \o r, id) = Credits(s, id) + Credits(r, id)
<1> DEFINE c == s \o r
           n == Len(s)
           m == Len(r)
           f == CreditOf(c, id)
           a == CreditOf(s, id)
           b == CreditOf(r, id)
<1>1. c \in Seq(Trade) /\ n \in Nat /\ m \in Nat
  OBVIOUS
<1>2. /\ n + m = Len(c) /\ \A i \in 1 .. n : c[i] = s[i]
      /\ \A i \in 1 .. m : c[n + i] = r[i]
  BY ConcatAt
<1>3. /\ Credits(c, id) = SumTo(f, Len(c)) /\ \A i \in 1 .. Len(c) : f[i] = Credit(c[i], id)
      /\ Credits(s, id) = SumTo(a, n) /\ \A i \in 1 .. n : a[i] = Credit(s[i], id) /\ a[i] \in Int
      /\ Credits(r, id) = SumTo(b, m) /\ \A i \in 1 .. m : b[i] = Credit(r[i], id) /\ b[i] \in Int
  <2> HIDE DEF c
  <2> QED BY <1>1, CreditsSum
<1> HIDE DEF c, n, m, f, a, b
<1>4. \A i \in 1 .. n : f[i] = a[i] /\ a[i] \in Int
  BY <1>1, <1>2, <1>3
<1>5. \A i \in 1 .. m : f[n + i] = b[i] /\ b[i] \in Int
  BY <1>1, <1>2, <1>3
<1>6. SumTo(f, n + m) = SumTo(a, n) + SumTo(b, m)
  <2>1. Joined(f, a, n, b, m)
    BY <1>4, <1>5 DEF Joined
  <2> QED BY <1>1, <2>1, SumToConcat
<1> QED BY <1>2, <1>3, <1>6 DEF c

LEMMA CreditsOne ==
  ASSUME NEW t \in Trade, NEW id
  PROVE  Credits(<<t>>, id) = Credit(t, id) /\ Credits(<<>>, id) = 0
<1> DEFINE s == <<t>>
           f == CreditOf(s, id)
           e == CreditOf(<<>>, id)
<1>1. s \in Seq(Trade) /\ Len(s) = 1 /\ s[1] = t
  OBVIOUS
<1>2. <<>> \in Seq(Trade) /\ Len(<<>>) = 0
  OBVIOUS
<1>3. Credits(s, id) = SumTo(f, 1) /\ f[1] = Credit(t, id) /\ Credit(t, id) \in Int
  <2> HIDE DEF s, f
  <2>1. Credits(s, id) = SumTo(CreditOf(s, id), Len(s)) /\ CreditOf(s, id)[1] = Credit(s[1], id)
        /\ Credit(s[1], id) \in Nat
    BY <1>1, CreditsSum
  <2> QED BY <1>1, <2>1 DEF f
<1>4. Credits(<<>>, id) = SumTo(e, 0)
  BY <1>2, CreditsSum
<1> HIDE DEF s, f, e
<1>5. SumTo(f, 0) = 0 /\ SumTo(f, 0 + 1) = SumTo(f, 0) + f[0 + 1]
  <2>1. \A i \in 1 .. 0 + 1 : f[i] \in Int
    BY <1>3
  <2> QED BY <2>1, SumToStep
<1>6. SumTo(e, 0) = 0
  BY SumEmpty DEF SumTo
<1> QED BY <1>3, <1>4, <1>5, <1>6 DEF s

LEMMA CreditsAppend ==
  ASSUME NEW s \in Seq(Trade), NEW t \in Trade, NEW id
  PROVE  Credits(Append(s, t), id) = Credits(s, id) + Credit(t, id)
<1>1. Append(s, t) = s \o <<t>> /\ <<t>> \in Seq(Trade)
  OBVIOUS
<1>2. Credits(s \o <<t>>, id) = Credits(s, id) + Credits(<<t>>, id)
  BY <1>1, CreditsConcat
<1> QED BY <1>1, <1>2, CreditsOne

LEMMA CreditsTail ==
  ASSUME NEW s \in Seq(Trade), s # <<>>, NEW id
  PROVE  Credits(s, id) = Credit(Head(s), id) + Credits(Tail(s), id)
<1>1. Head(s) \in Trade /\ Tail(s) \in Seq(Trade) /\ <<Head(s)>> \in Seq(Trade)
  OBVIOUS
<1>2. s = <<Head(s)>> \o Tail(s)
  OBVIOUS
<1>3. Credits(<<Head(s)>> \o Tail(s), id) = Credits(<<Head(s)>>, id) + Credits(Tail(s), id)
  BY <1>1, CreditsConcat
<1> QED BY <1>1, <1>2, <1>3, CreditsOne

\* A trade on its way is a part of the credits of both of its orders.
LEMMA CreditsAtLeast ==
  ASSUME NEW s \in Seq(Trade), NEW i \in DOMAIN s
  PROVE  Credits(s, s[i].maker) > 0 /\ Credits(s, s[i].taker) > 0
<1>1. i \in 1 .. Len(s) /\ s[i] \in Trade
  OBVIOUS
<1>2. ASSUME NEW id \in {s[i].maker, s[i].taker} PROVE Credits(s, id) > 0
  <2> DEFINE S == 1 .. Len(s)
             f == CreditOf(s, id)
  <2>1. /\ Credits(s, id) = SumTo(f, Len(s)) /\ Credits(s, id) \in Nat
        /\ \A j \in S : f[j] = Credit(s[j], id) /\ f[j] \in Nat
    BY CreditsSum
  <2>2. Credit(s[i], id) > 0
    BY <1>1 DEF Credit, Trade
  <2>3. IsFiniteSet(S) /\ i \in S
    BY <1>1, FS_Interval
  <2>4. SumTo(f, Len(s)) = SumFunctionOnSet(f, S)
    BY DEF SumTo
  <2> HIDE DEF f, S
  <2>5. f[i] <= SumFunctionOnSet(f, S)
    BY <2>1, <2>3, SumAtLeast
  <2>6. f[i] > 0 /\ f[i] \in Nat
    BY <2>1, <2>2, <2>3
  <2> QED BY <2>1, <2>4, <2>5, <2>6
<1> QED BY <1>2

LEMMA CountingInit == Init => CountingInv
<1> SUFFICES ASSUME Init PROVE CountingInv
  OBVIOUS
<1>1. TypeInv
  BY TypeInit
<1>2. DOMAIN stream = {} /\ DOMAIN missed = {}
  BY EmptySeq DEF Init
<1>3. \A id \in Nat : Credits(stream, id) = 0 /\ Credits(missed, id) = 0
  <2>1. 1 \in Nat /\ MaxOrders \in Nat
    OBVIOUS
  <2>2. ASSUME NEW id \in Nat PROVE Credits(<<>>, id) = 0
    <3>1. <<>> \in Seq(Trade) /\ Len(<<>>) = 0
      OBVIOUS
    <3>2. Credits(<<>>, id) = SumTo(CreditOf(<<>>, id), 0)
      BY <3>1, CreditsSum
    <3> QED BY <3>2, SumEmpty DEF SumTo
  <2> QED BY <2>2 DEF Init
<1>4. CountingParts
  BY <1>2, <1>3 DEF Init, CountingParts, IdsGivenOut, SavedOnce, EngineKnows, MapAgrees,
                    TradesOfEngine, EveryTradeCounted, InEngine
<1> QED BY <1>1, <1>4 DEF CountingInv

LEMMA CountingUnchanged ==
  ASSUME CountingInv,
         UNCHANGED <<order_id_, order_id_to_order_status_, pc, order, engine, stream, missed, placed>>
  PROVE  CountingParts'
BY DEF CountingInv, CountingParts, IdsGivenOut, SavedOnce, EngineKnows, MapAgrees,
       TradesOfEngine, EveryTradeCounted, InEngine, Concluded, open

\* While map, engine, trades and saved orders stay, so does what is counted.
LEMMA AccountsUnchanged ==
  ASSUME CountingInv,
         UNCHANGED <<order_id_to_order_status_, engine, stream, missed, placed>>
  PROVE  MapAgrees' /\ TradesOfEngine' /\ EveryTradeCounted'
BY DEF CountingInv, CountingParts, MapAgrees, TradesOfEngine, EveryTradeCounted, InEngine,
       Concluded, open

LEMMA CountingBuildOrder ==
  ASSUME NEW w \in Worker, BuildOrder(w), CountingInv
  PROVE  CountingParts'
<1>1. PICK a \in Amount :
        order' = [order EXCEPT ![w] = [id |-> order_id_ + 1, time |-> clock', amount |-> a]]
  BY DEF BuildOrder
<1>2. /\ pc[w] = "idle" /\ pc' = [pc EXCEPT ![w] = "save"] /\ order_id_' = order_id_ + 1
      /\ UNCHANGED <<order_id_to_order_status_, engine, stream, missed, placed>>
  BY DEF BuildOrder, outside, ghosts
<1>3. /\ pc \in [Worker -> PC] /\ DOMAIN order = Worker /\ order_id_ \in Nat
      /\ \A v \in Worker : pc[v] # "idle" => order[v].id \in Nat
      /\ \A o \in placed : o.id \in Nat
  BY DEF CountingInv, TypeInv, WorkersTyped, CountersTyped, HistoryTyped
<1>4. /\ \A v \in Worker : v # w => order'[v] = order[v] /\ pc'[v] = pc[v]
      /\ order'[w].id = order_id_ + 1 /\ pc'[w] = "save"
  BY <1>1, <1>2, <1>3
<1>5. IdsGivenOut'
  <2>1. \A v \in Worker : pc[v] # "idle" => order[v].id <= order_id_ /\ order[v].id # order_id_ + 1
    BY <1>3 DEF CountingInv, CountingParts, IdsGivenOut
  <2>2. ASSUME NEW v \in Worker, pc'[v] # "idle" PROVE order'[v].id <= order_id_'
    BY <1>2, <1>3, <1>4, <2>1, <2>2
  <2>3. ASSUME NEW u \in Worker, NEW v \in Worker, u # v, pc'[u] # "idle", pc'[v] # "idle"
        PROVE  order'[u].id # order'[v].id
    BY <1>4, <2>1, <2>3 DEF CountingInv, CountingParts, IdsGivenOut
  <2> QED BY <2>2, <2>3 DEF IdsGivenOut
<1>6. SavedOnce'
  <2>1. \A o \in placed : o.id <= order_id_ /\ o.id # order_id_ + 1
    BY <1>3 DEF CountingInv, CountingParts, SavedOnce
  <2>2. \A o \in placed' : o.id <= order_id_'
    BY <1>2, <1>3, <2>1
  <2> QED BY <1>2, <1>4, <2>1, <2>2 DEF CountingInv, CountingParts, SavedOnce
<1>7. EngineKnows'
  BY <1>2, <1>4 DEF CountingInv, CountingParts, EngineKnows, InEngine
<1> QED BY <1>2, <1>5, <1>6, <1>7, AccountsUnchanged DEF CountingParts

LEMMA CountingSaveOrderStatus ==
  ASSUME NEW w \in Worker, SaveOrderStatus(w), CountingInv
  PROVE  CountingParts'
<1> DEFINE o == order[w]
<1>1. /\ pc[w] = "save" /\ placed' = placed \cup {o}
      /\ open' = Put(open, o.id, [amount |-> o.amount, time |-> o.time, concluded |-> 0])
      /\ pc' = [pc EXCEPT ![w] = IF test_mode_is_open_ THEN "match" ELSE "unsubmitted"]
      /\ UNCHANGED <<order_id_, order, engine, stream, missed>>
  BY DEF SaveOrderStatus, outside, open
<1>2. /\ pc \in [Worker -> PC] /\ o.id \in Nat
  BY <1>1 DEF CountingInv, TypeInv, WorkersTyped
<1>3. /\ \A v \in Worker : v # w => pc'[v] = pc[v]
      /\ pc'[w] \in {"match", "unsubmitted"}
  BY <1>1, <1>2
<1>4. o.id <= order_id_ /\ \A p \in placed : p.id # o.id
  BY <1>1 DEF CountingInv, CountingParts, IdsGivenOut, SavedOnce
<1>5. ~InEngine(o.id)
  BY <1>4 DEF CountingInv, CountingParts, EngineKnows, InEngine
<1>6. DOMAIN open' = DOMAIN open \cup {o.id}
  BY <1>1 DEF Put
<1>7. \A id \in DOMAIN open' :
        open'[id] = IF id = o.id THEN [amount |-> o.amount, time |-> o.time, concluded |-> 0]
                    ELSE open[id]
  BY <1>1 DEF Put
<1>8. IdsGivenOut'
  BY <1>1, <1>3 DEF CountingInv, CountingParts, IdsGivenOut
<1>9. SavedOnce'
  <2>1. \A p \in placed' : p.id <= order_id_'
    BY <1>1, <1>4 DEF CountingInv, CountingParts, SavedOnce
  <2>2. \A p, q \in placed' : p.id = q.id => p = q
    BY <1>1, <1>4 DEF CountingInv, CountingParts, SavedOnce
  <2>3. ASSUME NEW v \in Worker, pc'[v] = "save", NEW p \in placed' PROVE p.id # order'[v].id
    <3>1. v # w /\ pc[v] = "save"
      BY <1>3, <2>3
    <3>2. order[v].id # o.id
      BY <1>1, <3>1 DEF CountingInv, CountingParts, IdsGivenOut
    <3>3. p \in placed => p.id # order[v].id
      BY <3>1 DEF CountingInv, CountingParts, SavedOnce
    <3> QED BY <1>1, <3>2, <3>3
  <2>4. ASSUME NEW v \in Worker, pc'[v] \notin {"idle", "save"} PROVE order'[v] \in placed'
    BY <1>1, <1>3, <2>4 DEF CountingInv, CountingParts, SavedOnce
  <2> QED BY <2>1, <2>2, <2>3, <2>4 DEF SavedOnce
<1>10. EngineKnows'
  BY <1>1, <1>3, <1>5 DEF CountingInv, CountingParts, EngineKnows, InEngine
<1>11. TradesOfEngine'
  BY <1>1 DEF CountingInv, CountingParts, TradesOfEngine, InEngine
<1>12. MapAgrees'
  <2>1. \A p \in placed : p.id \in DOMAIN open' => p.id \in DOMAIN open /\ open'[p.id] = open[p.id]
    BY <1>4, <1>6, <1>7
  <2>2. o.id \in DOMAIN open' /\ open'[o.id] = [amount |-> o.amount, time |-> o.time, concluded |-> 0]
    BY <1>6, <1>7
  <2>3. \A p \in placed' : p.id \in DOMAIN open' =>
          open'[p.id].amount = p.amount /\ open'[p.id].time = p.time
    BY <1>1, <2>1, <2>2 DEF CountingInv, CountingParts, MapAgrees
  <2>4. \A p \in placed' : ~InEngine(p.id) => p.id \in DOMAIN open' /\ open'[p.id].concluded = 0
    BY <1>1, <1>6, <2>1, <2>2 DEF CountingInv, CountingParts, MapAgrees
  <2>5. \A id : InEngine(id)' = InEngine(id)
    BY <1>1 DEF InEngine
  <2> QED BY <2>3, <2>4, <2>5 DEF MapAgrees
<1>13. EveryTradeCounted'
  <2>1. \A p \in placed : Concluded(p)' = Concluded(p)
    BY <1>4, <1>6, <1>7 DEF Concluded, open
  <2>2. \A e \in engine : e.id # o.id
    BY <1>5 DEF InEngine
  <2> QED BY <1>1, <2>1, <2>2 DEF CountingInv, CountingParts, EveryTradeCounted
<1> QED BY <1>8, <1>9, <1>10, <1>11, <1>12, <1>13 DEF CountingParts

LEMMA CountingPersistUnsubmitted ==
  ASSUME NEW w \in Worker, PersistUnsubmitted(w), CountingInv
  PROVE  CountingParts'
<1>1. /\ pc[w] = "unsubmitted" /\ pc' = [pc EXCEPT ![w] = "match"] /\ pc \in [Worker -> PC]
      /\ UNCHANGED <<order_id_, order, order_id_to_order_status_, engine, stream, missed, placed>>
  BY DEF PersistUnsubmitted, CountingInv, TypeInv, WorkersTyped, manager, outside
<1>2. IdsGivenOut' /\ SavedOnce' /\ EngineKnows'
  BY <1>1 DEF CountingInv, CountingParts, IdsGivenOut, SavedOnce, EngineKnows, InEngine
<1> QED BY <1>1, <1>2, AccountsUnchanged DEF CountingParts

LEMMA CountingPersistSubmission ==
  ASSUME NEW w \in Worker, PersistSubmission(w), CountingInv
  PROVE  CountingParts'
<1>1. /\ pc[w] # "idle" /\ pc' = [pc EXCEPT ![w] = "idle"] /\ pc \in [Worker -> PC]
      /\ order' = [order EXCEPT ![w] = NoOrder] /\ DOMAIN order = Worker
      /\ UNCHANGED <<order_id_, order_id_to_order_status_, engine, stream, missed, placed>>
  BY DEF PersistSubmission, CountingInv, TypeInv, WorkersTyped, manager, outside
<1>2. /\ \A v \in Worker : v # w => order'[v] = order[v] /\ pc'[v] = pc[v]
      /\ pc'[w] = "idle"
  BY <1>1
<1>3. IdsGivenOut' /\ SavedOnce' /\ EngineKnows'
  BY <1>1, <1>2 DEF CountingInv, CountingParts, IdsGivenOut, SavedOnce, EngineKnows, InEngine
<1> QED BY <1>1, <1>3, AccountsUnchanged DEF CountingParts

LEMMA CountingMatch ==
  ASSUME NEW w \in Worker, Match(w), CountingInv
  PROVE  CountingParts'
<1> DEFINE o == order[w]
           e == [id |-> o.id, time |-> o.time, left |-> o.amount]
<1>1. PICK accepted \in BOOLEAN, answered \in BOOLEAN :
        /\ engine' = engine \cup (IF accepted THEN {e} ELSE {})
        /\ pc' = [pc EXCEPT ![w] =
                   IF test_mode_is_open_ THEN "idle"
                   ELSE IF accepted /\ answered THEN "submitted"
                   ELSE "submission error"]
  BY DEF Match
<1>2. /\ pc[w] = "match"
      /\ order' = IF test_mode_is_open_ THEN [order EXCEPT ![w] = NoOrder] ELSE order
      /\ UNCHANGED <<order_id_, order_id_to_order_status_, stream, missed, placed>>
  BY DEF Match, manager, ghosts
<1>3. pc \in [Worker -> PC] /\ DOMAIN order = Worker
  BY DEF CountingInv, TypeInv, WorkersTyped
<1>4. o \in placed /\ ~InEngine(o.id) /\ o.id \in Nat /\ o.amount \in Nat
  <2>1. o \in placed /\ ~InEngine(o.id)
    BY <1>2 DEF CountingInv, CountingParts, SavedOnce, EngineKnows
  <2>2. o.id \in Nat /\ o.amount \in Amount
    BY <2>1 DEF CountingInv, TypeInv, HistoryTyped
  <2> QED BY <2>1, <2>2
<1>5. /\ \A v \in Worker : pc'[v] # "idle" => pc[v] # "idle" /\ order'[v] = order[v]
      /\ \A v \in Worker : pc'[v] \in {"save", "unsubmitted", "match"} => v # w /\ pc[v] = pc'[v]
      /\ \A v \in Worker : pc'[v] \notin {"idle", "save"} => pc[v] \notin {"idle", "save"}
  <2>1. \A v \in Worker : v # w => order'[v] = order[v] /\ pc'[v] = pc[v]
    BY <1>1, <1>2, <1>3
  <2>2. pc'[w] \in {"idle", "submitted", "submission error"}
    BY <1>1, <1>3
  <2>3. pc'[w] # "idle" => order'[w] = order[w]
    BY <1>1, <1>2, <1>3
  <2> QED BY <1>2, <2>1, <2>2, <2>3
<1>6. IdsGivenOut' /\ SavedOnce'
  <2>1. IdsGivenOut'
    BY <1>2, <1>5 DEF CountingInv, CountingParts, IdsGivenOut
  <2>2. SavedOnce'
    BY <1>2, <1>4, <1>5 DEF CountingInv, CountingParts, SavedOnce
  <2> QED BY <2>1, <2>2
<1>7. CASE ~accepted
  <2>1. UNCHANGED engine
    BY <1>1, <1>7
  <2>2. EngineKnows'
    BY <1>2, <1>5, <2>1 DEF CountingInv, CountingParts, EngineKnows, InEngine
  <2> QED BY <1>2, <1>6, <2>1, <2>2, AccountsUnchanged DEF CountingParts
<1>8. CASE accepted
  <2>1. engine' = engine \cup {e} /\ e.id = o.id
    BY <1>1, <1>8
  <2>2. \A d \in engine : d.id # o.id
    BY <1>4 DEF InEngine
  <2>3. \A id : InEngine(id)' <=> InEngine(id) \/ id = o.id
    BY <2>1 DEF InEngine
  <2>4. EngineKnows'
    <3>1. \A d \in engine' : \E p \in placed' : p.id = d.id
      BY <1>2, <1>4, <2>1 DEF CountingInv, CountingParts, EngineKnows
    <3>2. \A d, f \in engine' : d.id = f.id => d = f
      BY <2>1, <2>2 DEF CountingInv, CountingParts, EngineKnows
    <3>3. ASSUME NEW v \in Worker, pc'[v] \in {"unsubmitted", "match"}
          PROVE  ~InEngine(order[v].id)'
      <4>1. v # w /\ pc[v] \in {"unsubmitted", "match"} /\ order'[v] = order[v]
        BY <1>5, <3>3
      <4>2. order[v].id # o.id /\ ~InEngine(order[v].id)
        BY <1>2, <4>1 DEF CountingInv, CountingParts, IdsGivenOut, EngineKnows
      <4> QED BY <4>1, <4>2, <2>1 DEF InEngine
    <3> QED BY <3>1, <3>2, <3>3 DEF EngineKnows
  <2>5. MapAgrees'
    BY <1>2, <2>3 DEF CountingInv, CountingParts, MapAgrees, open
  <2>6. TradesOfEngine'
    BY <1>2, <2>3 DEF CountingInv, CountingParts, TradesOfEngine
  <2>7. EveryTradeCounted'
    <3>1. SUFFICES ASSUME NEW p \in placed, NEW d \in engine', d.id = p.id
                   PROVE  Concluded(p) + Credits(stream, p.id) + Credits(missed, p.id) + d.left = p.amount
      BY <1>2 DEF EveryTradeCounted, Concluded, open
    <3>2. CASE d \in engine
      BY <3>1, <3>2 DEF CountingInv, CountingParts, EveryTradeCounted
    <3>3. CASE d = e
      <4>1. p = o
        BY <1>4, <3>1, <3>3 DEF CountingInv, CountingParts, SavedOnce
      <4>2. Concluded(o) = 0
        BY <1>4 DEF CountingInv, CountingParts, MapAgrees, Concluded, open
      <4>3. Credits(stream, o.id) = 0 /\ Credits(missed, o.id) = 0
        BY <1>4 DEF CountingInv, CountingParts, TradesOfEngine
      <4>4. d.left = o.amount
        BY <3>3
      <4> HIDE DEF o
      <4> QED BY <1>4, <4>1, <4>2, <4>3, <4>4
    <3> QED BY <2>1, <3>1, <3>2, <3>3
  <2> QED BY <1>6, <2>4, <2>5, <2>6, <2>7 DEF CountingParts
<1> QED BY <1>7, <1>8

LEMMA CountingSubscriptionEnds ==
  ASSUME SubscriptionEnds, CountingInv
  PROVE  CountingParts'
<1>1. /\ missed' = missed \o stream /\ stream' = <<>>
      /\ UNCHANGED <<order_id_, order_id_to_order_status_, pc, order, engine, placed>>
  BY DEF SubscriptionEnds, manager, ghosts
<1>2. stream \in Seq(Trade) /\ missed \in Seq(Trade)
  BY DEF CountingInv, TypeInv, TradesTyped
<1>3. \A id : /\ Credits(stream', id) = 0
              /\ Credits(missed', id) = Credits(missed, id) + Credits(stream, id)
              /\ Credits(missed, id) \in Nat /\ Credits(stream, id) \in Nat
  <2>1. ASSUME NEW id PROVE Credits(<<>>, id) = 0
    <3>1. <<>> \in Seq(Trade) /\ Len(<<>>) = 0
      OBVIOUS
    <3>2. Credits(<<>>, id) = SumTo(CreditOf(<<>>, id), 0)
      BY <3>1, CreditsSum
    <3> QED BY <3>2, SumEmpty DEF SumTo
  <2> QED BY <1>1, <1>2, <2>1, CreditsConcat, CreditsSum
<1>4. \A i \in DOMAIN missed' :
        \E s \in {stream, missed} : \E j \in DOMAIN s : missed'[i] = s[j]
  <2> DEFINE n == Len(missed)
             m == Len(stream)
  <2>1. /\ n \in Nat /\ m \in Nat /\ DOMAIN missed = 1 .. n /\ DOMAIN stream = 1 .. m
        /\ DOMAIN missed' = 1 .. n + m
        /\ \A i \in 1 .. n : missed'[i] = missed[i]
        /\ \A i \in 1 .. m : missed'[n + i] = stream[i]
    <3>1. /\ missed' \in Seq(Trade) /\ n + m = Len(missed')
          /\ \A i \in 1 .. n : missed'[i] = missed[i]
          /\ \A i \in 1 .. m : missed'[n + i] = stream[i]
      BY <1>1, <1>2, ConcatAt
    <3> QED BY <1>2, <3>1
  <2> HIDE DEF n, m
  <2>2. ASSUME NEW i \in 1 .. n + m PROVE i \in 1 .. n \/ (i - n \in 1 .. m /\ n + (i - n) = i)
    BY <2>1
  <2> QED BY <2>1, <2>2
<1>5. TradesOfEngine'
  <2>1. \A i \in DOMAIN missed' : /\ missed'[i].maker # missed'[i].taker
                                  /\ InEngine(missed'[i].maker) /\ InEngine(missed'[i].taker)
    BY <1>4 DEF CountingInv, CountingParts, TradesOfEngine
  <2>2. DOMAIN stream' = {}
    BY <1>1, EmptySeq
  <2>3. \A id : InEngine(id)' = InEngine(id)
    BY <1>1 DEF InEngine
  <2>4. \A id \in Nat : ~InEngine(id) => Credits(stream', id) = 0 /\ Credits(missed', id) = 0
    BY <1>3 DEF CountingInv, CountingParts, TradesOfEngine
  <2> QED BY <2>1, <2>2, <2>3, <2>4 DEF TradesOfEngine
<1>6. EveryTradeCounted'
  <2>1. SUFFICES ASSUME NEW p \in placed, NEW d \in engine, d.id = p.id
                 PROVE  Concluded(p) + Credits(stream', p.id) + Credits(missed', p.id) + d.left = p.amount
    BY <1>1 DEF EveryTradeCounted, Concluded, open
  <2>2. Concluded(p) + Credits(stream, p.id) + Credits(missed, p.id) + d.left = p.amount
    BY <2>1 DEF CountingInv, CountingParts, EveryTradeCounted
  <2>3. Concluded(p) \in Nat /\ d.left \in Nat
    <3>1. p.amount \in Amount /\ d.left \in Nat
      BY DEF CountingInv, TypeInv, HistoryTyped, EngineTyped
    <3>2. p.id \in DOMAIN open => open[p.id].concluded \in Nat
      BY DEF CountingInv, TypeInv, OpenTyped
    <3> QED BY <3>1, <3>2 DEF Concluded, open
  <2> QED BY <1>3, <2>2, <2>3
<1>7. IdsGivenOut' /\ SavedOnce' /\ EngineKnows' /\ MapAgrees'
  BY <1>1 DEF CountingInv, CountingParts, IdsGivenOut, SavedOnce, EngineKnows, MapAgrees, InEngine, open
<1> QED BY <1>5, <1>6, <1>7 DEF CountingParts

\* The amounts that an order has been counted are natural numbers.
LEMMA CountedAmounts ==
  ASSUME CountingInv, NEW p \in placed
  PROVE  /\ p.id \in Nat /\ p.amount \in Nat \ {0}
         /\ Concluded(p) \in Nat
         /\ Credits(stream, p.id) \in Nat /\ Credits(missed, p.id) \in Nat
<1>1. p.amount \in Amount /\ p.id \in Nat
  BY DEF CountingInv, TypeInv, HistoryTyped
<1>2. p.id \in DOMAIN open => open[p.id].concluded \in Nat
  BY DEF CountingInv, TypeInv, OpenTyped
<1>3. stream \in Seq(Trade) /\ missed \in Seq(Trade)
  BY DEF CountingInv, TypeInv, TradesTyped
<1> QED BY <1>1, <1>2, <1>3, CreditsSum DEF Concluded, open

LEMMA CountingEngineTrades ==
  ASSUME EngineTrades, CountingInv
  PROVE  CountingParts'
<1>1. PICK m, k, n, t : Trading(m, k, n, t)
  BY EngineTradesFacts DEF CountingInv
<1>2. UNCHANGED <<order_id_, order_id_to_order_status_, pc, order, placed>>
  BY EngineTradesFacts DEF CountingInv, manager, ghosts
<1> DEFINE mm == [m EXCEPT !.left = @ - n]
           kk == [k EXCEPT !.left = @ - n]
<1>3. /\ m \in engine /\ k \in engine /\ m # k /\ n \in Nat \ {0} /\ n <= m.left /\ n <= k.left
      /\ t = [maker |-> m.id, taker |-> k.id, amount |-> n]
      /\ engine' = (engine \ {m, k}) \cup {mm, kk}
  BY <1>1 DEF Trading
<1>4. /\ m.left \in Nat /\ k.left \in Nat /\ m.id \in 1 .. MaxOrders /\ k.id \in 1 .. MaxOrders
      /\ mm.id = m.id /\ kk.id = k.id /\ mm.left = m.left - n /\ kk.left = k.left - n
  <2>1. engine \subseteq [id: 1 .. MaxOrders, time: 0 .. clock, left: Nat]
    BY DEF CountingInv, TypeInv, EngineTyped
  <2> QED BY <1>3, <2>1
<1>5. t \in Trade /\ t.maker = m.id /\ t.taker = k.id
  BY <1>3, <1>4 DEF Trade
<1> HIDE DEF mm, kk
<1>6. m.id # k.id
  BY <1>3 DEF CountingInv, CountingParts, EngineKnows
<1>7. /\ Credit(t, m.id) = n /\ Credit(t, k.id) = n
      /\ \A id : id \notin {m.id, k.id} => Credit(t, id) = 0
  BY <1>3, <1>6 DEF Credit
<1>8. stream \in Seq(Trade) /\ missed \in Seq(Trade)
  BY DEF CountingInv, TypeInv, TradesTyped
<1>9. \A id : /\ Credits(stream', id) + Credits(missed', id)
                   = Credits(stream, id) + Credits(missed, id) + Credit(t, id)
              /\ Credits(stream, id) \in Nat /\ Credits(missed, id) \in Nat /\ Credit(t, id) \in Nat
              /\ Credits(stream', id) \in Nat /\ Credits(missed', id) \in Nat
  <2> TAKE id
  <2>1. Credits(stream, id) \in Nat /\ Credits(missed, id) \in Nat /\ Credit(t, id) \in Nat
    BY <1>5, <1>8, CreditType, CreditsSum
  <2>2. CASE stream' = Append(stream, t) /\ UNCHANGED missed
    <3>1. Credits(stream', id) = Credits(stream, id) + Credit(t, id)
      BY <1>5, <1>8, <2>2, CreditsAppend
    <3> QED BY <2>1, <2>2, <3>1
  <2>3. CASE missed' = Append(missed, t) /\ UNCHANGED stream
    <3>1. Credits(missed', id) = Credits(missed, id) + Credit(t, id)
      BY <1>5, <1>8, <2>3, CreditsAppend
    <3> QED BY <2>1, <2>3, <3>1
  <2> QED BY <1>1, <2>2, <2>3 DEF Trading
<1>10. \A id : InEngine(id)' = InEngine(id)
  BY <1>3, <1>4 DEF InEngine
<1>11. IdsGivenOut' /\ SavedOnce' /\ MapAgrees'
  BY <1>2, <1>10 DEF CountingInv, CountingParts, IdsGivenOut, SavedOnce, MapAgrees, open
<1>12. EngineKnows'
  <2>1. \A d, e \in engine : d.id = e.id => d = e
    BY DEF CountingInv, CountingParts, EngineKnows
  <2>2. \A d, e \in engine' : d.id = e.id => d = e
    BY <1>3, <1>4, <1>6, <2>1
  <2>3. \A d \in engine' : \E o \in placed : o.id = d.id
    BY <1>3, <1>4 DEF CountingInv, CountingParts, EngineKnows
  <2>4. \A w \in Worker : pc[w] \in {"unsubmitted", "match"} => ~InEngine(order[w].id)
    BY DEF CountingInv, CountingParts, EngineKnows
  <2> QED BY <1>2, <1>10, <2>2, <2>3, <2>4 DEF EngineKnows
<1>13. TradesOfEngine'
  <2>1. InEngine(t.maker) /\ InEngine(t.taker) /\ t.maker # t.taker
    BY <1>3, <1>5, <1>6 DEF InEngine
  <2>2. ASSUME NEW s \in {stream, missed}, NEW i \in DOMAIN Append(s, t)
        PROVE  \/ Append(s, t)[i] = t
               \/ i \in DOMAIN s /\ Append(s, t)[i] = s[i]
    <3>1. s \in Seq(Trade)
      BY <1>8
    <3> QED BY <1>5, <3>1
  <2>3. \A s \in {stream', missed'} : \A i \in DOMAIN s :
          s[i].maker # s[i].taker /\ InEngine(s[i].maker) /\ InEngine(s[i].taker)
    <3>1. \A s \in {stream, missed} : \A i \in DOMAIN s :
            s[i].maker # s[i].taker /\ InEngine(s[i].maker) /\ InEngine(s[i].taker)
      BY DEF CountingInv, CountingParts, TradesOfEngine
    <3>2. \A s \in {stream, missed} : \A i \in DOMAIN Append(s, t) :
            LET u == Append(s, t)[i] IN u.maker # u.taker /\ InEngine(u.maker) /\ InEngine(u.taker)
      BY <2>1, <2>2, <3>1
    <3> QED BY <1>1, <3>1, <3>2 DEF Trading
  <2>4. \A id \in Nat : ~InEngine(id) => Credits(stream', id) = 0 /\ Credits(missed', id) = 0
    <3>1. ASSUME NEW id \in Nat, ~InEngine(id)
          PROVE  Credits(stream', id) = 0 /\ Credits(missed', id) = 0
      <4>1. Credits(stream, id) = 0 /\ Credits(missed, id) = 0 /\ Credit(t, id) = 0
        BY <1>3, <1>7, <3>1 DEF InEngine, CountingInv, CountingParts, TradesOfEngine
      <4> QED BY <1>9, <4>1
    <3> QED BY <3>1
  <2> QED BY <1>10, <2>3, <2>4 DEF TradesOfEngine
<1>14. EveryTradeCounted'
  <2>1. SUFFICES ASSUME NEW p \in placed, NEW d \in engine', d.id = p.id
                 PROVE  Concluded(p) + Credits(stream', p.id) + Credits(missed', p.id) + d.left = p.amount
    BY <1>2 DEF EveryTradeCounted, Concluded, open
  <2>2. \A e \in engine : e.id = p.id =>
          Concluded(p) + Credits(stream, p.id) + Credits(missed, p.id) + e.left = p.amount
    BY DEF CountingInv, CountingParts, EveryTradeCounted
  <2>3. \E e \in engine : e.id = p.id /\ e.left \in Nat /\ d.left = e.left - Credit(t, p.id)
    <3>1. CASE d = mm
      BY <1>3, <1>4, <1>7, <2>1, <3>1
    <3>2. CASE d = kk
      BY <1>3, <1>4, <1>7, <2>1, <3>2
    <3>3. CASE d \in engine \ {m, k}
      <4>1. d.id \notin {m.id, k.id}
        BY <1>3, <3>3 DEF CountingInv, CountingParts, EngineKnows
      <4>2. d.left \in Nat
        BY <3>3 DEF CountingInv, TypeInv, EngineTyped
      <4> QED BY <1>7, <2>1, <3>3, <4>1, <4>2
    <3> QED BY <1>3, <3>1, <3>2, <3>3
  <2>4. PICK e \in engine : e.id = p.id /\ e.left \in Nat /\ d.left = e.left - Credit(t, p.id)
    BY <2>3
  <2>5. Concluded(p) + Credits(stream, p.id) + Credits(missed, p.id) + e.left = p.amount
    BY <2>2, <2>4
  <2>6. Concluded(p) \in Nat
    BY CountedAmounts
  <2> QED BY <1>9, <2>4, <2>5, <2>6
<1> QED BY <1>11, <1>12, <1>13, <1>14 DEF CountingParts

\* A trade on its way still has something to add to both of its orders, so
\* that neither can have left the map.
LEMMA CountingFindsOrders == CountingInv => TradesFindOrders
<1> SUFFICES ASSUME CountingInv, NEW i \in DOMAIN stream
             PROVE  {stream[i].maker, stream[i].taker} \subseteq DOMAIN open
  BY DEF TradesFindOrders, open
<1>1. ASSUME NEW id \in {stream[i].maker, stream[i].taker} PROVE id \in DOMAIN open
  <2>1. PICK e \in engine : e.id = id
    BY DEF CountingInv, CountingParts, TradesOfEngine, InEngine
  <2>2. PICK p \in placed : p.id = id
    BY <2>1 DEF CountingInv, CountingParts, EngineKnows
  <2>3. Concluded(p) + Credits(stream, p.id) + Credits(missed, p.id) + e.left = p.amount
    BY <2>1, <2>2 DEF CountingInv, CountingParts, EveryTradeCounted
  <2>4. Credits(stream, id) > 0
    <3>1. stream \in Seq(Trade)
      BY DEF CountingInv, TypeInv, TradesTyped
    <3> QED BY <3>1, CreditsAtLeast
  <2>5. /\ p.amount \in Nat /\ Credits(stream, p.id) \in Nat /\ Credits(missed, p.id) \in Nat
        /\ e.left \in Nat
    BY CountedAmounts DEF CountingInv, TypeInv, EngineTyped
  <2>6. Concluded(p) # p.amount
    <3> DEFINE a == p.amount
               c == Credits(stream, p.id)
               d == Credits(missed, p.id)
               l == e.left
    <3>1. SUFFICES ASSUME Concluded(p) = a PROVE FALSE
      OBVIOUS
    <3>2. a + c + d + l = a /\ a \in Nat /\ c \in Nat /\ d \in Nat /\ l \in Nat /\ c > 0
      BY <2>2, <2>3, <2>4, <2>5, <3>1
    <3> HIDE DEF a, c, d, l
    <3> QED BY <3>2
  <2> QED BY <2>2, <2>6 DEF Concluded, open
<1> QED BY <1>1

\* A trade adds to what has been counted of its orders, and of no others.
LEMMA HandleCounts ==
  ASSUME HandleMatchResult, CountingInv, NEW p \in placed
  PROVE  Concluded(p)' = Concluded(p) + Credit(Head(stream), p.id)
<1> DEFINE t == Head(stream)
<1>1. stream # <<>> /\ stream \in Seq(Trade) /\ missed \in Seq(Trade)
  BY DEF HandleMatchResult, CountingInv, TypeInv, TradesTyped
<1>2. t \in Trade /\ Tail(stream) \in Seq(Trade) /\ 1 \in DOMAIN stream /\ t = stream[1]
  BY <1>1
<1>3. {t.maker, t.taker} \subseteq DOMAIN open
  BY <1>2, CountingFindsOrders DEF TradesFindOrders, open
<1>4. /\ open' = AfterMatch(open, t) /\ stream' = Tail(stream)
      /\ UNCHANGED placed
  BY <1>3 DEF HandleMatchResult, open, ghosts
<1>5. \A id : /\ Credits(stream, id) = Credit(t, id) + Credits(stream', id)
              /\ Credit(t, id) \in Nat /\ Credits(stream', id) \in Nat
  BY <1>1, <1>2, <1>4, CreditsTail, CreditType, CreditsSum
<1>6. DOMAIN open' \subseteq DOMAIN open
  BY <1>4 DEF AfterMatch
<1> HIDE DEF t
<1>7. \A id \in DOMAIN open :
        LET concluded == open[id].concluded + Credit(t, id)
        IN  /\ concluded \in Nat
            /\ id \in DOMAIN open' <=> concluded < open[id].amount
            /\ id \in DOMAIN open' => open'[id] = [open[id] EXCEPT !.concluded = concluded]
  BY <1>2, <1>3, <1>4, AfterMatchFacts DEF CountingInv
<1>8. \A id \in DOMAIN open : open[id] \in [amount: Amount, time: 0 .. clock, concluded: Nat]
  BY DEF CountingInv, TypeInv, OpenTyped
<1>9. \A id \in DOMAIN open' : /\ id \in DOMAIN open
                               /\ open'[id].amount = open[id].amount /\ open'[id].time = open[id].time
                               /\ open'[id].concluded = open[id].concluded + Credit(t, id)
  BY <1>6, <1>7, <1>8
<1>10. SUFFICES Concluded(p)' = Concluded(p) + Credit(t, p.id)
  BY DEF t
<1> DEFINE c == Credit(t, p.id)
           a == p.amount
           old == Concluded(p)
<1>11. a \in Nat /\ old \in Nat /\ c \in Nat
  BY <1>5, CountedAmounts
<1>12. CASE p.id \notin DOMAIN open
  <2>1. old = a /\ p.id \notin DOMAIN open'
    BY <1>6, <1>12 DEF Concluded, open
  <2>2. Concluded(p)' = a
    BY <2>1 DEF Concluded, open
  <2>3. c = 0
    BY <1>3, <1>12 DEF Credit
  <2> HIDE DEF c, a, old
  <2>4. Concluded(p)' = old + c
    BY <1>11, <2>1, <2>2, <2>3
  <2> QED BY <2>4 DEF c, old
<1>13. CASE p.id \in DOMAIN open
  <2>1. old = open[p.id].concluded /\ open[p.id].amount = a
    BY <1>13 DEF Concluded, open, CountingInv, CountingParts, MapAgrees
  <2>2. /\ p.id \in DOMAIN open' => old + c < a
        /\ p.id \notin DOMAIN open' => ~(old + c < a)
    BY <1>7, <1>13, <2>1
  <2>3. p.id \in DOMAIN open' => Concluded(p)' = old + c
    BY <1>9, <2>1 DEF Concluded, open
  <2>4. p.id \notin DOMAIN open' => Concluded(p)' = a /\ old + c = a
    <3>1. SUFFICES ASSUME p.id \notin DOMAIN open' PROVE Concluded(p)' = a /\ old + c = a
      OBVIOUS
    <3>2. Concluded(p)' = a
      BY <3>1 DEF Concluded, open
    <3>3. ~(old + c < a)
      BY <2>2, <3>1
    <3>4. PICK e \in engine : e.id = p.id
      <4>1. SUFFICES ASSUME ~InEngine(p.id) PROVE FALSE
        BY DEF InEngine
      <4>2. old = 0 /\ a > 0
        BY <2>1, <4>1, CountedAmounts DEF CountingInv, CountingParts, MapAgrees
      <4>3. Credits(stream, p.id) = 0
        BY <4>1, CountedAmounts DEF CountingInv, CountingParts, TradesOfEngine
      <4>4. c = 0
        BY <1>5, <4>3
      <4> HIDE DEF c, a, old
      <4> QED BY <3>3, <4>2, <4>4
    <3> DEFINE r == Credits(stream', p.id)
               d == Credits(missed, p.id)
               l == e.left
    <3>5. /\ old + (c + r) + d + l = a
          /\ r \in Nat /\ d \in Nat /\ l \in Nat
      BY <1>5, <3>4, CountedAmounts DEF CountingInv, CountingParts, EveryTradeCounted, TypeInv, EngineTyped
    <3> HIDE DEF c, a, old, r, d, l
    <3>6. old + c = a
      BY <1>11, <3>3, <3>5
    <3> QED BY <3>2, <3>6
  <2> QED BY <2>3, <2>4 DEF c, old
<1> QED BY <1>12, <1>13

LEMMA CountingHandleMatchResult ==
  ASSUME HandleMatchResult, CountingInv
  PROVE  CountingParts'
<1> DEFINE t == Head(stream)
<1>1. stream # <<>> /\ stream \in Seq(Trade) /\ missed \in Seq(Trade)
  BY DEF HandleMatchResult, CountingInv, TypeInv, TradesTyped
<1>2. t \in Trade /\ Tail(stream) \in Seq(Trade) /\ 1 \in DOMAIN stream /\ t = stream[1]
  BY <1>1
<1>3. {t.maker, t.taker} \subseteq DOMAIN open
  BY <1>2, CountingFindsOrders DEF TradesFindOrders, open
<1>4. /\ open' = AfterMatch(open, t) /\ stream' = Tail(stream)
      /\ UNCHANGED <<order_id_, pc, order, engine, missed, placed>>
  BY <1>3 DEF HandleMatchResult, open, ghosts
<1>5. \A id : /\ Credits(stream, id) = Credit(t, id) + Credits(stream', id)
              /\ Credit(t, id) \in Nat /\ Credits(stream', id) \in Nat
  BY <1>1, <1>2, <1>4, CreditsTail, CreditType, CreditsSum
<1>6. DOMAIN open' \subseteq DOMAIN open
  BY <1>4 DEF AfterMatch
<1> HIDE DEF t
<1>7. \A id \in DOMAIN open :
        LET concluded == open[id].concluded + Credit(t, id)
        IN  /\ concluded \in Nat
            /\ id \in DOMAIN open' <=> concluded < open[id].amount
            /\ id \in DOMAIN open' => open'[id] = [open[id] EXCEPT !.concluded = concluded]
  BY <1>2, <1>3, <1>4, AfterMatchFacts DEF CountingInv
<1>8. \A id \in DOMAIN open : open[id] \in [amount: Amount, time: 0 .. clock, concluded: Nat]
  BY DEF CountingInv, TypeInv, OpenTyped
<1>9. \A id \in DOMAIN open' : /\ id \in DOMAIN open
                               /\ open'[id].amount = open[id].amount /\ open'[id].time = open[id].time
                               /\ open'[id].concluded = open[id].concluded + Credit(t, id)
  BY <1>6, <1>7, <1>8
<1>10. \A id : InEngine(id)' = InEngine(id)
  BY <1>4 DEF InEngine
<1>11. MapAgrees'
  <2>1. \A p \in placed : p.id \in DOMAIN open' => open'[p.id].amount = p.amount /\ open'[p.id].time = p.time
    BY <1>9 DEF CountingInv, CountingParts, MapAgrees
  <2>2. ASSUME NEW p \in placed, ~InEngine(p.id)
        PROVE  p.id \in DOMAIN open' /\ open'[p.id].concluded = 0
    <3>1. p.id \in DOMAIN open /\ open[p.id].concluded = 0 /\ open[p.id].amount = p.amount
      BY <2>2 DEF CountingInv, CountingParts, MapAgrees
    <3>2. Credits(stream, p.id) = 0 /\ p.amount \in Nat \ {0}
      BY <2>2, CountedAmounts DEF CountingInv, CountingParts, TradesOfEngine
    <3>3. Credit(t, p.id) = 0
      BY <1>5, <3>2
    <3>4. open[p.id].concluded + Credit(t, p.id) = 0 /\ 0 < open[p.id].amount
      BY <3>1, <3>2, <3>3
    <3>5. p.id \in DOMAIN open'
      BY <1>7, <3>1, <3>4
    <3>6. open'[p.id].concluded = open[p.id].concluded + Credit(t, p.id)
      BY <1>9, <3>5
    <3> QED BY <3>4, <3>5, <3>6
  <2> QED BY <1>4, <1>10, <2>1, <2>2 DEF MapAgrees
<1>12. EveryTradeCounted'
  <2>1. SUFFICES ASSUME NEW p \in placed, NEW e \in engine, e.id = p.id
                 PROVE  Concluded(p)' + Credits(stream', p.id) + Credits(missed, p.id) + e.left = p.amount
    BY <1>4 DEF EveryTradeCounted
  <2>2. Concluded(p) + Credits(stream, p.id) + Credits(missed, p.id) + e.left = p.amount
    BY <2>1 DEF CountingInv, CountingParts, EveryTradeCounted
  <2>3. /\ p.amount \in Nat /\ Credits(missed, p.id) \in Nat /\ e.left \in Nat /\ Concluded(p) \in Nat
    BY CountedAmounts DEF CountingInv, TypeInv, EngineTyped
  <2> DEFINE c == Credit(t, p.id)
             r == Credits(stream', p.id)
             d == Credits(missed, p.id)
             l == e.left
             a == p.amount
             old == Concluded(p)
  <2>4. /\ old + (c + r) + d + l = a
        /\ old \in Nat /\ c \in Nat /\ r \in Nat /\ d \in Nat /\ l \in Nat /\ a \in Nat
    BY <1>5, <2>2, <2>3
  <2>5. Concluded(p)' = old + c
    BY HandleCounts DEF t
  <2> HIDE DEF c, r, d, l, a, old
  <2>6. Concluded(p)' + r + d + l = a
    BY <2>4, <2>5
  <2> QED BY <2>6 DEF r, d, l, a
<1>13. TradesOfEngine'
  <2>1. \A i \in DOMAIN stream' : i + 1 \in DOMAIN stream /\ stream'[i] = stream[i + 1]
    BY <1>1, <1>4
  <2>2. \A i \in DOMAIN stream' : /\ stream'[i].maker # stream'[i].taker
                                  /\ InEngine(stream'[i].maker) /\ InEngine(stream'[i].taker)
    BY <2>1 DEF CountingInv, CountingParts, TradesOfEngine
  <2>3. ASSUME NEW id \in Nat, ~InEngine(id) PROVE Credits(stream', id) = 0 /\ Credits(missed, id) = 0
    <3>1. Credits(stream, id) = 0 /\ Credits(missed, id) = 0
      BY <2>3 DEF CountingInv, CountingParts, TradesOfEngine
    <3> QED BY <1>5, <3>1
  <2>4. \A i \in DOMAIN missed : /\ missed[i].maker # missed[i].taker
                                 /\ InEngine(missed[i].maker) /\ InEngine(missed[i].taker)
    BY DEF CountingInv, CountingParts, TradesOfEngine
  <2> QED BY <1>4, <1>10, <2>2, <2>3, <2>4 DEF TradesOfEngine
<1>14. IdsGivenOut' /\ SavedOnce' /\ EngineKnows'
  BY <1>4 DEF CountingInv, CountingParts, IdsGivenOut, SavedOnce, EngineKnows, InEngine
<1> QED BY <1>11, <1>12, <1>13, <1>14 DEF CountingParts

\* Until the first restart, every step keeps the accounts.
UntilRestart == TypeInv /\ (restarts = 0 => CountingParts)

LEMMA CountingStep == UntilRestart /\ [Next]_vars => UntilRestart'
<1> SUFFICES ASSUME UntilRestart, [Next]_vars PROVE UntilRestart'
  OBVIOUS
<1>1. TypeInv'
  BY TypeStep DEF UntilRestart
<1>2. SUFFICES ASSUME restarts' = 0 PROVE CountingParts'
  BY <1>1 DEF UntilRestart
<1>3. ~Restart
  BY <1>2 DEF Restart, UntilRestart, TypeInv, CountersTyped
<1>4. restarts = 0
  BY <1>2, <1>3 DEF Next, BuildOrder, PlaceOrder, SaveOrderStatus, PersistUnsubmitted, Match,
     PersistSubmission, Subscribe, SubscriptionEnds, Subscription, HandleMatchResult, PersistMatch,
     EngineTrades, Flush, PostFails, BatchFails, counts, vars
<1>5. CountingInv
  BY <1>4 DEF UntilRestart, CountingInv
<1>6. ASSUME NEW w \in Worker, BuildOrder(w) \/ PlaceOrder(w) PROVE CountingParts'
  BY <1>5, <1>6, CountingBuildOrder, CountingSaveOrderStatus, CountingPersistUnsubmitted, CountingMatch,
     CountingPersistSubmission DEF PlaceOrder
<1>7. CASE Subscribe
  BY <1>5, <1>7, CountingUnchanged DEF Subscribe, manager, outside, ghosts
<1>8. CASE SubscriptionEnds
  BY <1>5, <1>8, CountingSubscriptionEnds
<1>9. CASE HandleMatchResult
  BY <1>5, <1>9, CountingHandleMatchResult
<1>10. CASE PersistMatch
  BY <1>5, <1>10, CountingUnchanged DEF PersistMatch, manager, outside, ghosts
<1>11. CASE EngineTrades
  BY <1>5, <1>11, CountingEngineTrades
<1>12. CASE Flush
  BY <1>5, <1>12, CountingUnchanged DEF Flush, manager, outside, ghosts
<1>13. CASE PostFails
  BY <1>5, <1>13, CountingUnchanged DEF PostFails, BatchFails, manager, outside, ghosts
<1>14. CASE UNCHANGED vars
  BY <1>5, <1>14, CountingUnchanged DEF vars, manager, outside, ghosts
<1> QED BY <1>3, <1>6, <1>7, <1>8, <1>9, <1>10, <1>11, <1>12, <1>13, <1>14 DEF Next, Subscription

LEMMA CountingInvariant == Spec => []UntilRestart
<1>1. Init => UntilRestart
  BY CountingInit DEF UntilRestart, CountingInv
<1>2. UntilRestart /\ [Next]_vars => UntilRestart'
  BY CountingStep
<1> QED BY <1>1, <1>2, PTL DEF Spec

\* Until the order manager is restarted, what it has counted of every
\* order, what is on its way, what never came and what the engine has left
\* add up to the amount of the order, for any interleaving of the worker
\* threads with the subscription thread.
THEOREM TradesAddUp == Spec => [](restarts = 0 => EveryTradeCounted)
<1>1. UntilRestart => (restarts = 0 => EveryTradeCounted)
  BY DEF UntilRestart, CountingParts
<1> QED BY <1>1, CountingInvariant, PTL

\* Until the order manager is restarted, every trade that arrives finds
\* both of its orders in the map: the error log at order_manager.cc:294 is
\* never reached.
THEOREM OrdersAlwaysFound == Spec => [](restarts = 0 => TradesFindOrders)
<1>1. UntilRestart => (restarts = 0 => TradesFindOrders)
  BY CountingFindsOrders DEF UntilRestart, CountingInv
<1> QED BY <1>1, CountingInvariant, PTL

-----------------------------------------------------------------------------
(***************************************************************************)
(* The records, through restarts too.                                      *)
(***************************************************************************)

\* A record is of an order that has been saved.
IsOf(o, time, id) == o.time = time /\ o.id = id

\* The number of a request and its time tell its order from all others, also
\* when the numbers start again.
OrdersDiffer ==
  /\ \A w \in Worker : pc[w] # "idle" => order[w].id <= order_id_
  /\ \A v, w \in Worker :
       v # w /\ pc[v] # "idle" /\ pc[w] # "idle" => order[v].id # order[w].id
  /\ \A p \in placed : p.id > order_id_ => p.time < clock
  /\ \A w \in Worker : pc[w] = "save" => order[w] \notin placed
  /\ \A w \in Worker : pc[w] \notin {"idle", "save"} => order[w] \in placed

Recorded(s) == \A t \in DOMAIN s : \E o \in placed : IsOf(o, t, s[t].id)

RecordsOfOrders ==
  /\ Recorded(store) /\ Recorded(database)
  /\ \A i \in DOMAIN to_persist : \E o \in placed : IsOf(o, to_persist[i].time, to_persist[i].id)
  /\ \A id \in DOMAIN open : \E o \in placed : IsOf(o, open[id].time, id)

\* The status says whether a trade has been recorded.
Consistent(r) == r.status \in {"partially concluded", "concluded"} <=> r.concluded > 0

RecordsConsistent ==
  /\ \A t \in DOMAIN store : Consistent(store[t])
  /\ \A t \in DOMAIN database : Consistent(database[t])
  /\ \A i \in DOMAIN to_persist : to_persist[i].concluded > 0 /\ Consistent(to_persist[i])

Unshared(orders, t) == t \notin SharedTimes(orders)

\* The map is not behind the writes to be made, nor these behind the store.
MapNotBehind ==
  /\ \A id \in DOMAIN open : Unshared(placed, open[id].time) =>
       /\ open[id].time \in DOMAIN store => store[open[id].time].concluded <= open[id].concluded
       /\ \A i \in DOMAIN to_persist : to_persist[i].time = open[id].time =>
            to_persist[i].concluded <= open[id].concluded
  /\ \A i \in DOMAIN to_persist : Unshared(placed, to_persist[i].time) =>
       /\ to_persist[i].time \in DOMAIN store =>
            store[to_persist[i].time].concluded <= to_persist[i].concluded
       /\ \A j \in DOMAIN to_persist : to_persist[j].time = to_persist[i].time =>
            to_persist[j].concluded = to_persist[i].concluded

\* Nor is the database ahead of the map, or of the writes to be made.
DatabaseBehind ==
  /\ \A id \in DOMAIN open :
       Unshared(placed, open[id].time) /\ open[id].time \in DOMAIN database =>
         database[open[id].time].concluded <= open[id].concluded
  /\ \A i \in DOMAIN to_persist :
       Unshared(placed, to_persist[i].time) /\ to_persist[i].time \in DOMAIN database =>
         database[to_persist[i].time].concluded <= to_persist[i].concluded

\* Before PlaceOrder has recorded its order only a trade can have been.
FirstWriteIn(s) ==
  \A w \in Worker :
    /\ pc[w] = "unsubmitted" /\ Unshared(placed, order[w].time) /\ order[w].time \in DOMAIN s
    => s[order[w].time].concluded > 0

FirstWrite == FirstWriteIn(store) /\ FirstWriteIn(database)

DatabaseNotAhead ==
  /\ DOMAIN database \subseteq DOMAIN store
  /\ \A t \in DOMAIN database : t \notin overtaken \cup SharedTimes(placed) =>
       Progress(store[t]) >= Progress(database[t])

RecordsParts ==
  /\ OrdersDiffer /\ RecordsOfOrders /\ RecordsConsistent
  /\ MapNotBehind /\ DatabaseBehind /\ FirstWrite /\ DatabaseNotAhead

RecordsInv == TypeInv /\ RecordsParts

\* An unshared time belongs to one order, and has never been a shared one.
LEMMA UnsharedFacts ==
  /\ \A o, p \in placed : o.time = p.time /\ Unshared(placed, o.time) => o = p
  /\ placed \subseteq placed' => \A t : Unshared(placed', t) => Unshared(placed, t)
BY DEF Unshared, SharedTimes

LEMMA PersistFacts ==
  ASSUME NEW s, NEW p
  PROVE  /\ DOMAIN PersistOrder(s, p) = DOMAIN s \cup {p.time}
         /\ \A t \in DOMAIN s : t # p.time => PersistOrder(s, p)[t] = s[t]
BY DEF PersistOrder, Put

LEMMA PersistedPoint ==
  ASSUME NEW s, NEW p
  PROVE  PersistOrder(s, p)[p.time] = [id |-> p.id, status |-> p.status, concluded |-> p.concluded]
BY DEF PersistOrder, Put

LEMMA RecordsInit == Init => RecordsInv
<1> SUFFICES ASSUME Init PROVE RecordsInv
  OBVIOUS
<1>1. DOMAIN <<>> = {}
  BY EmptySeq
<1> QED BY <1>1, TypeInit DEF Init, RecordsInv, RecordsParts, OrdersDiffer, RecordsOfOrders, Recorded,
       RecordsConsistent, MapNotBehind, DatabaseBehind, FirstWrite, FirstWriteIn,
       DatabaseNotAhead, open

\* Steps of the engine, the stream and the clock leave the records alone.
LEMMA RecordsKept ==
  ASSUME RecordsInv,
         UNCHANGED <<order_id_to_order_status_, to_persist, store, database, placed, overtaken>>
  PROVE  /\ RecordsOfOrders' /\ RecordsConsistent' /\ MapNotBehind' /\ DatabaseBehind'
         /\ DatabaseNotAhead'
<1>1. RecordsOfOrders'
  BY DEF RecordsInv, RecordsParts, RecordsOfOrders, Recorded, IsOf, open
<1>2. RecordsConsistent'
  BY DEF RecordsInv, RecordsParts, RecordsConsistent, Consistent
<1>3. MapNotBehind'
  BY DEF RecordsInv, RecordsParts, MapNotBehind, Unshared, open
<1>4. DatabaseNotAhead'
  BY DEF RecordsInv, RecordsParts, DatabaseNotAhead
<1>5. DatabaseBehind'
  BY DEF RecordsInv, RecordsParts, DatabaseBehind, Unshared, open
<1> QED BY <1>1, <1>2, <1>3, <1>4, <1>5

LEMMA RecordsUnchanged ==
  ASSUME RecordsInv,
         UNCHANGED <<order_id_, order_id_to_order_status_, pc, order, to_persist, store, database,
                     clock, placed, overtaken>>
  PROVE  RecordsParts'
<1>1. OrdersDiffer' /\ FirstWrite'
  BY DEF RecordsInv, RecordsParts, OrdersDiffer, FirstWrite, FirstWriteIn, Unshared
<1> QED BY <1>1, RecordsKept DEF RecordsParts

LEMMA RecordsBuildOrder ==
  ASSUME NEW w \in Worker, BuildOrder(w), RecordsInv
  PROVE  RecordsParts'
<1>1. PICK a \in Amount :
        order' = [order EXCEPT ![w] = [id |-> order_id_ + 1, time |-> clock', amount |-> a]]
  BY DEF BuildOrder
<1>2. /\ pc[w] = "idle" /\ pc' = [pc EXCEPT ![w] = "save"] /\ order_id_' = order_id_ + 1
      /\ UNCHANGED <<order_id_to_order_status_, to_persist, store, database, placed, overtaken>>
  BY DEF BuildOrder, records, ghosts
<1>3. /\ pc \in [Worker -> PC] /\ DOMAIN order = Worker /\ order_id_ \in Nat
      /\ \A v \in Worker : pc[v] # "idle" => order[v].id \in Nat
      /\ \A o \in placed : o.id \in Nat /\ o.time \in Nat
      /\ clock \in Nat /\ clock' \in Nat /\ clock <= clock'
  <2>1. clock \in Nat /\ clock' \in Nat /\ clock <= clock' /\ order_id_ \in Nat
    BY DEF BuildOrder, RecordsInv, TypeInv, CountersTyped
  <2> QED BY <2>1 DEF RecordsInv, TypeInv, WorkersTyped, HistoryTyped
<1>4. /\ \A v \in Worker : v # w => order'[v] = order[v] /\ pc'[v] = pc[v]
      /\ order'[w].id = order_id_ + 1 /\ order'[w].time = clock' /\ pc'[w] = "save"
  BY <1>1, <1>2, <1>3
<1>5. OrdersDiffer'
  <2>1. \A v \in Worker : pc[v] # "idle" => order[v].id <= order_id_ /\ order[v].id # order_id_ + 1
    BY <1>3 DEF RecordsInv, RecordsParts, OrdersDiffer
  <2>2. ASSUME NEW v \in Worker, pc'[v] # "idle" PROVE order'[v].id <= order_id_'
    BY <1>2, <1>3, <1>4, <2>1, <2>2
  <2>3. ASSUME NEW u \in Worker, NEW v \in Worker, u # v, pc'[u] # "idle", pc'[v] # "idle"
        PROVE  order'[u].id # order'[v].id
    BY <1>4, <2>1, <2>3 DEF RecordsInv, RecordsParts, OrdersDiffer
  <2>4. \A p \in placed : p.id > order_id_ => p.time < clock
    BY DEF RecordsInv, RecordsParts, OrdersDiffer
  <2>5. ASSUME NEW p \in placed, p.id > order_id_' PROVE p.time < clock'
    BY <1>2, <1>3, <2>4, <2>5
  <2>6. order'[w] \notin placed
    <3>1. SUFFICES ASSUME NEW p \in placed, p = order'[w] PROVE FALSE
      OBVIOUS
    <3>2. p.id = order_id_ + 1 /\ p.time = clock'
      BY <1>4, <3>1
    <3>3. p.time < clock
      BY <1>3, <2>4, <3>2
    <3> QED BY <1>3, <3>2, <3>3
  <2>7. ASSUME NEW v \in Worker, pc'[v] = "save" PROVE order'[v] \notin placed
    BY <1>4, <2>6, <2>7 DEF RecordsInv, RecordsParts, OrdersDiffer
  <2>8. ASSUME NEW v \in Worker, pc'[v] \notin {"idle", "save"} PROVE order'[v] \in placed
    BY <1>4, <2>8 DEF RecordsInv, RecordsParts, OrdersDiffer
  <2> QED BY <1>2, <2>2, <2>3, <2>5, <2>7, <2>8 DEF OrdersDiffer
<1>6. FirstWrite'
  BY <1>2, <1>4 DEF RecordsInv, RecordsParts, FirstWrite, FirstWriteIn, Unshared
<1> QED BY <1>2, <1>5, <1>6, RecordsKept DEF RecordsParts

LEMMA RecordsSaveOrderStatus ==
  ASSUME NEW w \in Worker, SaveOrderStatus(w), RecordsInv
  PROVE  RecordsParts'
<1> DEFINE o == order[w]
           new == [amount |-> o.amount, time |-> o.time, concluded |-> 0]
<1>1. /\ pc[w] = "save" /\ placed' = placed \cup {o}
      /\ open' = Put(open, o.id, new)
      /\ pc' = [pc EXCEPT ![w] = IF test_mode_is_open_ THEN "match" ELSE "unsubmitted"]
      /\ UNCHANGED <<order_id_, order, to_persist, store, database, clock, overtaken>>
  BY DEF SaveOrderStatus, records, open
<1>2. /\ pc \in [Worker -> PC] /\ o.id \in Nat
  BY <1>1 DEF RecordsInv, TypeInv, WorkersTyped
<1>3. /\ \A v \in Worker : v # w => pc'[v] = pc[v]
      /\ pc'[w] \in {"match", "unsubmitted"}
  BY <1>1, <1>2
<1>4. o.id <= order_id_ /\ o \notin placed /\ order_id_ \in Nat
  BY <1>1 DEF RecordsInv, RecordsParts, OrdersDiffer, TypeInv, CountersTyped
<1>5. /\ DOMAIN open' = DOMAIN open \cup {o.id}
      /\ \A id \in DOMAIN open' : open'[id] = IF id = o.id THEN new ELSE open[id]
  BY <1>1 DEF Put
<1> HIDE DEF o
<1>6. new.time = o.time /\ new.concluded = 0
  OBVIOUS
<1> HIDE DEF new
<1>7. \A p \in placed' : p.time = o.time /\ Unshared(placed', o.time) => p = o
  BY <1>1 DEF Unshared, SharedTimes
<1>8. \A t : Unshared(placed', t) => Unshared(placed, t)
  BY <1>1, UnsharedFacts
<1>9. OrdersDiffer'
  <2>1. \A p \in placed' : p.id > order_id_' => p.time < clock'
    BY <1>1, <1>2, <1>4 DEF RecordsInv, RecordsParts, OrdersDiffer
  <2>2. ASSUME NEW v \in Worker, pc'[v] = "save" PROVE order'[v] \notin placed'
    <3>1. v # w /\ pc[v] = "save"
      BY <1>3, <2>2
    <3>2. order[v] # o /\ order[v] \notin placed
      BY <1>1, <3>1 DEF RecordsInv, RecordsParts, OrdersDiffer, o
    <3> QED BY <1>1, <3>2
  <2>3. ASSUME NEW v \in Worker, pc'[v] \notin {"idle", "save"} PROVE order'[v] \in placed'
    BY <1>1, <1>3, <2>3 DEF RecordsInv, RecordsParts, OrdersDiffer, o
  <2>4. \A v \in Worker : pc'[v] # "idle" => pc[v] # "idle"
    BY <1>1, <1>3
  <2>5. /\ \A v \in Worker : pc'[v] # "idle" => order'[v].id <= order_id_'
        /\ \A u, v \in Worker : u # v /\ pc'[u] # "idle" /\ pc'[v] # "idle" => order'[u].id # order'[v].id
    BY <1>1, <2>4 DEF RecordsInv, RecordsParts, OrdersDiffer
  <2> QED BY <2>1, <2>2, <2>3, <2>5 DEF OrdersDiffer
<1>10. RecordsOfOrders'
  <2>1. Recorded(store)' /\ Recorded(database)'
    BY <1>1 DEF RecordsInv, RecordsParts, RecordsOfOrders, Recorded, IsOf
  <2>2. \A i \in DOMAIN to_persist' : \E p \in placed' : IsOf(p, to_persist'[i].time, to_persist'[i].id)
    BY <1>1 DEF RecordsInv, RecordsParts, RecordsOfOrders, IsOf
  <2>3. \A id \in DOMAIN open' : \E p \in placed' : IsOf(p, open'[id].time, id)
    BY <1>1, <1>5, <1>6 DEF RecordsInv, RecordsParts, RecordsOfOrders, IsOf
  <2> QED BY <2>1, <2>2, <2>3 DEF RecordsOfOrders, IsOf
<1>11. RecordsConsistent'
  BY <1>1 DEF RecordsInv, RecordsParts, RecordsConsistent, Consistent
\* No record of an earlier order has the time of this one, unless it is shared.
<1>12. ASSUME Unshared(placed', o.time)
       PROVE  /\ o.time \notin DOMAIN store /\ o.time \notin DOMAIN database
              /\ \A i \in DOMAIN to_persist : to_persist[i].time # o.time
  <2>1. \A p \in placed : p.time # o.time
    BY <1>1, <1>4, <1>7, <1>12
  <2> QED BY <2>1 DEF RecordsInv, RecordsParts, RecordsOfOrders, Recorded, IsOf
<1>13. MapNotBehind'
  <2>1. ASSUME NEW id \in DOMAIN open', Unshared(placed', open'[id].time)
        PROVE  /\ open'[id].time \in DOMAIN store => store[open'[id].time].concluded <= open'[id].concluded
               /\ \A i \in DOMAIN to_persist : to_persist[i].time = open'[id].time =>
                    to_persist[i].concluded <= open'[id].concluded
    <3>1. CASE id = o.id
      <4>1. open'[id].time = o.time
        BY <1>5, <1>6, <3>1
      <4> QED BY <1>12, <2>1, <4>1
    <3>2. CASE id # o.id
      <4>1. id \in DOMAIN open /\ open'[id] = open[id] /\ Unshared(placed, open[id].time)
        BY <1>5, <1>8, <2>1, <3>2
      <4> QED BY <4>1 DEF RecordsInv, RecordsParts, MapNotBehind
    <3> QED BY <3>1, <3>2
  <2>2. ASSUME NEW i \in DOMAIN to_persist, Unshared(placed', to_persist[i].time)
        PROVE  /\ to_persist[i].time \in DOMAIN store =>
                    store[to_persist[i].time].concluded <= to_persist[i].concluded
               /\ \A j \in DOMAIN to_persist : to_persist[j].time = to_persist[i].time =>
                    to_persist[j].concluded = to_persist[i].concluded
    BY <1>8, <2>2 DEF RecordsInv, RecordsParts, MapNotBehind
  <2> QED BY <1>1, <2>1, <2>2 DEF MapNotBehind
<1>14. FirstWrite'
  <2>1. SUFFICES ASSUME NEW s \in {store, database}, NEW v \in Worker, pc'[v] = "unsubmitted",
                        Unshared(placed', order[v].time), order[v].time \in DOMAIN s
                 PROVE  s[order[v].time].concluded > 0
    BY <1>1 DEF FirstWrite, FirstWriteIn
  <2>2. CASE v = w
    BY <1>12, <2>1, <2>2 DEF o
  <2>3. CASE v # w
    BY <1>3, <1>8, <2>1, <2>3 DEF RecordsInv, RecordsParts, FirstWrite, FirstWriteIn
  <2> QED BY <2>2, <2>3
<1>16. DatabaseBehind'
  <2>1. ASSUME NEW id \in DOMAIN open', Unshared(placed', open'[id].time),
               open'[id].time \in DOMAIN database
        PROVE  database[open'[id].time].concluded <= open'[id].concluded
    <3>1. id # o.id
      BY <1>5, <1>6, <1>12, <2>1
    <3>2. id \in DOMAIN open /\ open'[id] = open[id] /\ Unshared(placed, open[id].time)
      BY <1>5, <1>8, <2>1, <3>1
    <3> QED BY <2>1, <3>2 DEF RecordsInv, RecordsParts, DatabaseBehind
  <2>2. ASSUME NEW i \in DOMAIN to_persist, Unshared(placed', to_persist[i].time),
               to_persist[i].time \in DOMAIN database
        PROVE  database[to_persist[i].time].concluded <= to_persist[i].concluded
    BY <1>8, <2>2 DEF RecordsInv, RecordsParts, DatabaseBehind
  <2> QED BY <1>1, <2>1, <2>2 DEF DatabaseBehind
<1>15. DatabaseNotAhead'
  <2>1. SharedTimes(placed) \subseteq SharedTimes(placed')
    BY <1>1 DEF SharedTimes
  <2> QED BY <1>1, <2>1 DEF RecordsInv, RecordsParts, DatabaseNotAhead
<1> QED BY <1>9, <1>10, <1>11, <1>13, <1>14, <1>15, <1>16 DEF RecordsParts

\* What a record stands for, by what has been recorded in it.
LEMMA ProgressFacts ==
  ASSUME NEW r, r.concluded \in Nat, r.status \in Status, Consistent(r)
  PROVE  /\ Progress(r) \in Nat
         /\ r.concluded > 0 => Progress(r) = 1 + r.concluded
         /\ r.concluded = 0 => Progress(r) <= 1
<1>1. CASE r.status \in {"partially concluded", "concluded"}
  <2>1. Progress(r) = 1 + r.concluded
    BY <1>1 DEF Progress
  <2>2. r.concluded > 0
    BY <1>1 DEF Consistent
  <2> QED BY <2>1, <2>2
<1>2. CASE r.status \in {"unsubmitted", "submitted", "submission error"}
  <2>1. Progress(r) \in {0, 1}
    BY <1>2 DEF Progress
  <2>2. ~(r.concluded > 0)
    BY <1>2 DEF Consistent
  <2> QED BY <2>1, <2>2
<1> QED BY <1>1, <1>2 DEF Status

LEMMA ProgressType == ASSUME NEW r, r.concluded \in Nat PROVE Progress(r) \in Nat
<1>1. Progress(r) \in {0, 1, 1 + r.concluded}
  BY DEF Progress
<1> QED BY <1>1

LEMMA StoredFacts ==
  ASSUME TypeInv
  PROVE  /\ \A t \in DOMAIN store : store[t].concluded \in Nat /\ store[t].status \in Status
         /\ \A t \in DOMAIN database : database[t].concluded \in Nat /\ database[t].status \in Status
         /\ \A id \in DOMAIN open : open[id].concluded \in Nat
         /\ to_persist \in Seq(Point)
<1>1. TypeInv
  OBVIOUS
<1> QED BY <1>1 DEF TypeInv, WritesTyped, Stored, OpenTyped

\* An order that goes on stays apart from the others.
LEMMA OrdersStillDiffer ==
  ASSUME OrdersDiffer, order_id_' = order_id_, clock' = clock, placed' = placed,
         \A v \in Worker : pc'[v] # "idle" => pc[v] # "idle" /\ order'[v] = order[v],
         \A v \in Worker : pc'[v] = "save" => pc[v] = "save",
         \A v \in Worker : pc'[v] \notin {"idle", "save"} => pc[v] \notin {"idle", "save"}
  PROVE  OrdersDiffer'
<1>1. /\ \A v \in Worker : pc'[v] # "idle" => order'[v].id <= order_id_'
      /\ \A p \in placed' : p.id > order_id_' => p.time < clock'
  BY DEF OrdersDiffer
<1>2. \A u, v \in Worker : u # v /\ pc'[u] # "idle" /\ pc'[v] # "idle" => order'[u].id # order'[v].id
  BY DEF OrdersDiffer
<1>3. ASSUME NEW v \in Worker, pc'[v] = "save" PROVE order'[v] \notin placed'
  BY <1>3 DEF OrdersDiffer
<1>4. ASSUME NEW v \in Worker, pc'[v] \notin {"idle", "save"} PROVE order'[v] \in placed'
  <2>1. pc[v] \notin {"idle", "save"} /\ order'[v] = order[v]
    BY <1>4
  <2> QED BY <2>1 DEF OrdersDiffer
<1> QED BY <1>1, <1>2, <1>3, <1>4 DEF OrdersDiffer

\* Thread w goes on after a write of PlaceOrder, or is done with the order.
GoesOn(w) ==
  /\ pc'[w] \in {"match", "idle"} /\ (pc'[w] # "idle" => order'[w] = order[w])
  /\ \A v \in Worker : v # w => pc'[v] = pc[v] /\ order'[v] = order[v]

PlacingStatus == {"unsubmitted", "submitted", "submission error"}

\* A write of PlaceOrder: it takes a record back only when a trade has been
\* recorded, and then the time of the order is one of the overtaken.
LEMMA RecordsPersistProgress ==
  ASSUME NEW w \in Worker, NEW status \in PlacingStatus,
         pc[w] = status, PersistProgress(w, status), RecordsInv,
         GoesOn(w),
         UNCHANGED <<order_id_, order_id_to_order_status_, to_persist, database, clock, placed>>
  PROVE  RecordsParts'
<1> DEFINE o == order[w]
           r == [id |-> o.id, status |-> status, concluded |-> 0]
<1>1. o \in placed
  BY DEF RecordsInv, RecordsParts, OrdersDiffer, PlacingStatus
<1>2. /\ store' = PersistOrder(store, Write(o, status, 0))
      /\ overtaken' = overtaken \cup (IF HasTradeRecorded(o) THEN {o.time} ELSE {})
      /\ open' = open
  BY DEF PersistProgress, open
<1> HIDE DEF o
<1>3. /\ DOMAIN store' = DOMAIN store \cup {o.time}
      /\ \A t \in DOMAIN store' : store'[t] = IF t = o.time THEN r ELSE store[t]
  <2> DEFINE p == Write(o, status, 0)
  <2>1. p.time = o.time /\ r = [id |-> p.id, status |-> p.status, concluded |-> p.concluded]
    BY DEF Write
  <2>2. store' = PersistOrder(store, p)
    BY <1>2
  <2> HIDE DEF p, r
  <2>3. DOMAIN PersistOrder(store, p) = DOMAIN store \cup {p.time}
    BY PersistFacts
  <2>4. \A t \in DOMAIN store \cup {p.time} :
          PersistOrder(store, p)[t] = IF t = p.time THEN r ELSE store[t]
    <3>1. r = [id |-> p.id, status |-> p.status, concluded |-> p.concluded]
      BY <2>1
    <3>2. PersistOrder(store, p)[p.time] = r
      BY <3>1, PersistedPoint
    <3>3. \A t \in DOMAIN store \cup {p.time} : t # p.time => PersistOrder(store, p)[t] = store[t]
      BY PersistFacts
    <3> QED BY <3>2, <3>3
  <2> QED BY <2>1, <2>2, <2>3, <2>4
<1>4. /\ r.concluded = 0 /\ r.status = status /\ r.id = o.id /\ Consistent(r)
      /\ status # "unsubmitted" => Progress(r) = 1
  <2>1. r.concluded = 0 /\ r.status = status /\ r.id = o.id
    OBVIOUS
  <2> HIDE DEF r
  <2>2. Consistent(r)
    <3>1. ~(r.concluded > 0)
      BY <2>1
    <3>2. r.status \notin {"partially concluded", "concluded"}
      BY <2>1 DEF PlacingStatus
    <3> QED BY <3>1, <3>2, Zenon DEF Consistent
  <2>3. status # "unsubmitted" => Progress(r) = 1
    BY <2>1 DEF Progress, PlacingStatus
  <2> QED BY <2>1, <2>2, <2>3
<1> HIDE DEF r
<1>5. OrdersDiffer'
  <2>1. /\ order_id_' = order_id_ /\ clock' = clock /\ placed' = placed
        /\ \A v \in Worker : pc'[v] # "idle" => pc[v] # "idle" /\ order'[v] = order[v]
        /\ \A v \in Worker : pc'[v] = "save" => pc[v] = "save"
        /\ \A v \in Worker : pc'[v] \notin {"idle", "save"} => pc[v] \notin {"idle", "save"}
    BY DEF GoesOn, PlacingStatus
  <2> QED BY <2>1, OrdersStillDiffer DEF RecordsInv, RecordsParts
<1>6. RecordsOfOrders'
  <2>1. \A t \in DOMAIN store' : \E p \in placed : IsOf(p, t, store'[t].id)
    <3>1. SUFFICES ASSUME NEW t \in DOMAIN store' PROVE \E p \in placed : IsOf(p, t, store'[t].id)
      OBVIOUS
    <3>2. CASE t = o.time
      BY <1>1, <1>3, <1>4, <3>2 DEF IsOf
    <3>3. CASE t # o.time
      BY <1>3, <3>3 DEF RecordsInv, RecordsParts, RecordsOfOrders, Recorded
    <3> QED BY <3>2, <3>3
  <2>2. \A t \in DOMAIN database : \E p \in placed : IsOf(p, t, database[t].id)
    BY DEF RecordsInv, RecordsParts, RecordsOfOrders, Recorded
  <2>3. /\ \A i \in DOMAIN to_persist : \E p \in placed : IsOf(p, to_persist[i].time, to_persist[i].id)
        /\ \A id \in DOMAIN open : \E p \in placed : IsOf(p, open[id].time, id)
    BY DEF RecordsInv, RecordsParts, RecordsOfOrders
  <2>4. placed' = placed /\ to_persist' = to_persist /\ database' = database
    OBVIOUS
  <2>5. Recorded(store)' /\ Recorded(database)'
    BY <2>1, <2>2, <2>4 DEF Recorded, IsOf
  <2> QED BY <1>2, <2>3, <2>4, <2>5 DEF RecordsOfOrders, IsOf
<1>7. RecordsConsistent'
  BY <1>3, <1>4 DEF RecordsInv, RecordsParts, RecordsConsistent, Consistent
<1>8. \A t \in DOMAIN store' : store'[t].concluded = 0 \/ (t \in DOMAIN store /\ store'[t] = store[t])
  <2>1. SUFFICES ASSUME NEW t \in DOMAIN store'
                 PROVE  store'[t].concluded = 0 \/ (t \in DOMAIN store /\ store'[t] = store[t])
    OBVIOUS
  <2>2. CASE t = o.time
    <3>1. r.concluded = 0
      BY <1>4
    <3>2. store'[t] = r
      BY <1>3, <2>2
    <3> QED BY <3>1, <3>2
  <2>3. CASE t # o.time
    BY <1>3, <2>3
  <2> QED BY <2>2, <2>3
<1>9. MapNotBehind'
  <2>1. /\ \A id \in DOMAIN open : 0 <= open[id].concluded
        /\ \A i \in DOMAIN to_persist : 0 <= to_persist[i].concluded
    <3>1. to_persist \in Seq(Point) /\ \A id \in DOMAIN open : open[id].concluded \in Nat
      BY StoredFacts DEF RecordsInv
    <3>2. \A i \in DOMAIN to_persist : to_persist[i] \in Point
      BY <3>1
    <3>3. \A i \in DOMAIN to_persist : to_persist[i].concluded \in Nat
      BY <3>2 DEF Point
    <3> QED BY <3>1, <3>3
  <2>2. MapNotBehind /\ placed' = placed /\ to_persist' = to_persist
    BY DEF RecordsInv, RecordsParts
  <2>3. ASSUME NEW id \in DOMAIN open, Unshared(placed, open[id].time)
        PROVE  /\ open[id].time \in DOMAIN store' => store'[open[id].time].concluded <= open[id].concluded
               /\ \A i \in DOMAIN to_persist : to_persist[i].time = open[id].time =>
                    to_persist[i].concluded <= open[id].concluded
    BY <1>8, <2>1, <2>2, <2>3 DEF MapNotBehind
  <2>4. ASSUME NEW i \in DOMAIN to_persist, Unshared(placed, to_persist[i].time)
        PROVE  /\ to_persist[i].time \in DOMAIN store' =>
                    store'[to_persist[i].time].concluded <= to_persist[i].concluded
               /\ \A j \in DOMAIN to_persist : to_persist[j].time = to_persist[i].time =>
                    to_persist[j].concluded = to_persist[i].concluded
    BY <1>8, <2>1, <2>2, <2>4 DEF MapNotBehind
  <2> QED BY <1>2, <2>2, <2>3, <2>4 DEF MapNotBehind
<1>10. FirstWrite'
  <2>1. ASSUME NEW v \in Worker, pc'[v] = "unsubmitted", Unshared(placed, order'[v].time),
               order'[v].time \in DOMAIN store'
        PROVE  store'[order'[v].time].concluded > 0
    <3>2. v # w /\ pc[v] = "unsubmitted" /\ order'[v] = order[v]
      BY <2>1 DEF GoesOn
    <3>3. order[v] \in placed /\ order[v].id # o.id
      BY <3>2 DEF RecordsInv, RecordsParts, OrdersDiffer, PlacingStatus, o
    <3>4. order[v].time # o.time
      BY <1>1, <2>1, <3>2, <3>3, UnsharedFacts
    <3> QED BY <1>3, <2>1, <3>2, <3>4 DEF RecordsInv, RecordsParts, FirstWrite, FirstWriteIn
  <2>2. ASSUME NEW v \in Worker, pc'[v] = "unsubmitted", Unshared(placed, order'[v].time),
               order'[v].time \in DOMAIN database
        PROVE  database[order'[v].time].concluded > 0
    <3>1. pc[v] = "unsubmitted" /\ order'[v] = order[v]
      BY <2>2 DEF GoesOn
    <3> QED BY <2>2, <3>1 DEF RecordsInv, RecordsParts, FirstWrite, FirstWriteIn
  <2> QED BY <2>1, <2>2 DEF FirstWrite, FirstWriteIn, Unshared
<1>11. DatabaseNotAhead'
  <2>1. DOMAIN database \subseteq DOMAIN store'
    BY <1>3 DEF RecordsInv, RecordsParts, DatabaseNotAhead
  <2>2. ASSUME NEW t \in DOMAIN database, t \notin overtaken' \cup SharedTimes(placed)
        PROVE  Progress(store'[t]) >= Progress(database[t])
    <3>1. Progress(store[t]) >= Progress(database[t]) /\ t \in DOMAIN store
      BY <1>2, <2>2 DEF RecordsInv, RecordsParts, DatabaseNotAhead
    <3>2. CASE t # o.time
      BY <1>3, <3>1, <3>2
    <3>3. CASE t = o.time
      <4>1. ~(store[t].concluded > 0)
        BY <1>2, <2>2, <3>1, <3>3 DEF HasTradeRecorded
      <4>2. status # "unsubmitted"
        BY <2>2, <3>1, <3>3, <4>1 DEF RecordsInv, RecordsParts, FirstWrite, FirstWriteIn, Unshared, o
      <4>3. Progress(store[t]) <= 1 /\ Progress(store[t]) \in Nat
        <5>1. store[t].concluded \in Nat /\ store[t].status \in Status /\ Consistent(store[t])
          BY <3>1, StoredFacts DEF RecordsInv, RecordsParts, RecordsConsistent
        <5>2. store[t].concluded = 0
          BY <4>1, <5>1
        <5> QED BY <5>1, <5>2, ProgressFacts
      <4>4. Progress(database[t]) \in Nat
        <5>1. database[t].concluded \in Nat
          BY StoredFacts DEF RecordsInv
        <5> QED BY <5>1, ProgressType
      <4>5. Progress(store'[t]) = 1
        BY <1>3, <1>4, <3>1, <3>3, <4>2
      <4> QED BY <3>1, <4>3, <4>4, <4>5
    <3> QED BY <3>2, <3>3
  <2> QED BY <2>1, <2>2 DEF DatabaseNotAhead
<1>12. DatabaseBehind'
  BY <1>2 DEF RecordsInv, RecordsParts, DatabaseBehind, Unshared
<1> QED BY <1>5, <1>6, <1>7, <1>9, <1>10, <1>11, <1>12 DEF RecordsParts

LEMMA RecordsPersistUnsubmitted ==
  ASSUME NEW w \in Worker, PersistUnsubmitted(w), RecordsInv
  PROVE  RecordsParts'
<1>1. /\ pc[w] = "unsubmitted" /\ PersistProgress(w, "unsubmitted") /\ pc' = [pc EXCEPT ![w] = "match"]
      /\ UNCHANGED <<order, order_id_, order_id_to_order_status_, to_persist, database, clock, placed>>
  BY DEF PersistUnsubmitted, manager
<1>2. pc \in [Worker -> PC]
  BY DEF RecordsInv, TypeInv, WorkersTyped
<1>3. GoesOn(w) /\ pc[w] \in PlacingStatus
  BY <1>1, <1>2 DEF GoesOn, PlacingStatus
<1> QED BY <1>1, <1>3, RecordsPersistProgress

LEMMA RecordsPersistSubmission ==
  ASSUME NEW w \in Worker, PersistSubmission(w), RecordsInv
  PROVE  RecordsParts'
<1>1. /\ pc[w] \in {"submitted", "submission error"} /\ PersistProgress(w, pc[w])
      /\ pc' = [pc EXCEPT ![w] = "idle"] /\ order' = [order EXCEPT ![w] = NoOrder]
      /\ UNCHANGED <<order_id_, order_id_to_order_status_, to_persist, database, clock, placed>>
  BY DEF PersistSubmission, manager
<1>2. pc \in [Worker -> PC] /\ DOMAIN order = Worker
  BY DEF RecordsInv, TypeInv, WorkersTyped
<1>3. GoesOn(w) /\ pc[w] \in PlacingStatus
  BY <1>1, <1>2 DEF GoesOn, PlacingStatus
<1> QED BY <1>1, <1>3, RecordsPersistProgress

LEMMA RecordsMatch ==
  ASSUME NEW w \in Worker, Match(w), RecordsInv
  PROVE  RecordsParts'
<1>1. /\ pc[w] = "match"
      /\ \E at \in {"idle", "submitted", "submission error"} :
            pc' = [pc EXCEPT ![w] = at] /\ (at = "idle" \/ order' = order)
      /\ order' = order \/ order' = [order EXCEPT ![w] = NoOrder]
      /\ UNCHANGED <<order_id_, order_id_to_order_status_, to_persist, store, database, clock, placed, overtaken>>
  BY DEF Match, manager, records, ghosts
<1>2. pc \in [Worker -> PC] /\ DOMAIN order = Worker
  BY DEF RecordsInv, TypeInv, WorkersTyped
<1>3. /\ \A v \in Worker : v # w => pc'[v] = pc[v] /\ order'[v] = order[v]
      /\ pc'[w] \in {"idle", "submitted", "submission error"} /\ (pc'[w] # "idle" => order'[w] = order[w])
  BY <1>1, <1>2
<1>4. OrdersDiffer'
  <2>1. /\ order_id_' = order_id_ /\ clock' = clock /\ placed' = placed
        /\ \A v \in Worker : pc'[v] # "idle" => pc[v] # "idle" /\ order'[v] = order[v]
        /\ \A v \in Worker : pc'[v] = "save" => pc[v] = "save"
        /\ \A v \in Worker : pc'[v] \notin {"idle", "save"} => pc[v] \notin {"idle", "save"}
    BY <1>1, <1>3
  <2> QED BY <2>1, OrdersStillDiffer DEF RecordsInv, RecordsParts
<1>5. FirstWrite'
  BY <1>1, <1>3 DEF RecordsInv, RecordsParts, FirstWrite, FirstWriteIn, Unshared
<1> QED BY <1>1, <1>4, <1>5, RecordsKept DEF RecordsParts

\* What the subscription thread is to write of a trade of known orders.
LEMMA MatchWrites ==
  ASSUME NEW t \in Trade, TypeInv, {t.maker, t.taker} \subseteq DOMAIN open,
         NEW id \in {t.maker, t.taker}
  PROVE  /\ MatchWrite(open, t, id).time = open[id].time /\ MatchWrite(open, t, id).id = id
         /\ MatchWrite(open, t, id).concluded = open[id].concluded + Credit(t, id)
         /\ MatchWrite(open, t, id).concluded > 0 /\ Consistent(MatchWrite(open, t, id))
         /\ MatchWrite(open, t, id).status = ConcludedStatus(open[id].amount, open[id].concluded + Credit(t, id))
<1> DEFINE c == Credit(t, id)
           k == open[id].concluded
<1>1. k \in Nat /\ c \in Nat /\ c > 0
  <2>1. t.amount \in Nat \ {0}
    BY DEF Trade
  <2>2. k \in Nat
    BY StoredFacts
  <2>3. (IF t.maker = id THEN t.amount ELSE 0) \in Nat /\ (IF t.taker = id THEN t.amount ELSE 0) \in Nat
    BY <2>1
  <2>4. t.maker = id \/ t.taker = id
    OBVIOUS
  <2>5. c \in Nat /\ c > 0
    <3> DEFINE a == IF t.maker = id THEN t.amount ELSE 0
               b == IF t.taker = id THEN t.amount ELSE 0
    <3>1. a \in Nat /\ b \in Nat /\ (a > 0 \/ b > 0)
      BY <2>1, <2>3, <2>4
    <3>2. c = a + b
      BY DEF Credit
    <3> HIDE DEF a, b, c
    <3> QED BY <3>1, <3>2
  <2> QED BY <2>2, <2>5
<1> HIDE DEF c, k
<1>2. MatchWrite(open, t, id) =
        [time |-> open[id].time, id |-> id, status |-> ConcludedStatus(open[id].amount, k + c), concluded |-> k + c]
  BY DEF MatchWrite, Write, c, k
<1>3. ConcludedStatus(open[id].amount, k + c) \in {"partially concluded", "concluded"}
  BY DEF ConcludedStatus
<1>4. k + c > 0
  BY <1>1
<1>5. Consistent(MatchWrite(open, t, id))
  <2> DEFINE r == MatchWrite(open, t, id)
  <2>1. r.status = ConcludedStatus(open[id].amount, k + c) /\ r.concluded = k + c
    BY <1>2
  <2> HIDE DEF r
  <2>2. r.status \in {"partially concluded", "concluded"} /\ r.concluded > 0
    BY <1>3, <1>4, <2>1
  <2>3. Consistent(r)
    BY <2>2, Zenon DEF Consistent
  <2> QED BY <2>3 DEF r
<1> QED BY <1>2, <1>4, <1>5 DEF c, k

\* The two ways that HandleMatchResult can go.
LEMMA HandleMatchResultFacts ==
  ASSUME HandleMatchResult, TypeInv
  PROVE  LET t == Head(stream)
         IN  /\ t \in Trade
             /\ \/ open' = open /\ to_persist' = <<>>
                \/ /\ {t.maker, t.taker} \subseteq DOMAIN open /\ open' = AfterMatch(open, t)
                   /\ \/ to_persist' = <<>>
                      \/ to_persist' = <<MatchWrite(open, t, t.maker), MatchWrite(open, t, t.taker)>>
<1> DEFINE t == Head(stream)
<1>1. stream # <<>> /\ stream \in Seq(Trade)
  BY DEF HandleMatchResult, TypeInv, TradesTyped
<1>2. t \in Trade
  BY <1>1
<1> HIDE DEF t
<1>3. CASE {t.maker, t.taker} \subseteq DOMAIN open
  BY <1>2, <1>3 DEF HandleMatchResult, open, t
<1>4. CASE ~({t.maker, t.taker} \subseteq DOMAIN open)
  BY <1>2, <1>4 DEF HandleMatchResult, open, t
<1> QED BY <1>3, <1>4

\* Trades credit the map first and the store later.
LEMMA RecordsHandleMatchResult ==
  ASSUME HandleMatchResult, RecordsInv
  PROVE  RecordsParts'
<1> DEFINE t == Head(stream)
<1>1. UNCHANGED <<order_id_, pc, order, store, database, clock, placed, overtaken>>
  BY DEF HandleMatchResult, records, ghosts
<1>2. /\ t \in Trade
      /\ \/ open' = open /\ to_persist' = <<>>
         \/ /\ {t.maker, t.taker} \subseteq DOMAIN open /\ open' = AfterMatch(open, t)
            /\ \/ to_persist' = <<>>
               \/ to_persist' = <<MatchWrite(open, t, t.maker), MatchWrite(open, t, t.taker)>>
  BY HandleMatchResultFacts DEF RecordsInv
<1> HIDE DEF t
<1>3. \A id \in DOMAIN open' : /\ id \in DOMAIN open /\ open'[id].time = open[id].time
                               /\ open'[id].concluded \in Nat /\ open[id].concluded <= open'[id].concluded
                               /\ open' # open => open'[id].concluded = open[id].concluded + Credit(t, id)
  <2>1. CASE open' = open
    BY <2>1, StoredFacts DEF RecordsInv
  <2>2. CASE open' # open
    <3>1. {t.maker, t.taker} \subseteq DOMAIN open /\ open' = AfterMatch(open, t)
      BY <1>2, <2>2
    <3>2. \A id \in DOMAIN open' :
            /\ id \in DOMAIN open
            /\ open'[id] = [open[id] EXCEPT !.concluded = open[id].concluded + Credit(t, id)]
      BY <1>2, <3>1, AfterMatchFacts DEF RecordsInv, AfterMatch
    <3>3. \A id \in DOMAIN open : /\ open[id] \in [amount: Amount, time: 0 .. clock, concluded: Nat]
                                  /\ open[id].concluded \in Nat /\ Credit(t, id) \in Nat
      BY <1>2, CreditType DEF RecordsInv, TypeInv, OpenTyped
    <3> QED BY <3>2, <3>3
  <2> QED BY <2>1, <2>2
\* The writes to be made are what the map holds, or is about to lose.
<1>4. \A i \in DOMAIN to_persist' : \E id \in {t.maker, t.taker} :
        {t.maker, t.taker} \subseteq DOMAIN open /\ open' = AfterMatch(open, t) /\ to_persist'[i] = MatchWrite(open, t, id)
  BY <1>2, EmptySeq
<1>5. OrdersDiffer' /\ FirstWrite'
  BY <1>1 DEF RecordsInv, RecordsParts, OrdersDiffer, FirstWrite, FirstWriteIn, Unshared
<1>6. DatabaseNotAhead'
  BY <1>1 DEF RecordsInv, RecordsParts, DatabaseNotAhead
<1> DEFINE WriteOf(i, id) ==
             /\ to_persist'[i].time = open[id].time /\ to_persist'[i].id = id
             /\ to_persist'[i].concluded = open[id].concluded + Credit(t, id)
             /\ to_persist'[i].concluded > 0 /\ Consistent(to_persist'[i])
             /\ id \in DOMAIN open' => to_persist'[i].concluded = open'[id].concluded
<1>7. \A i \in DOMAIN to_persist' : \E id \in DOMAIN open : WriteOf(i, id)
  <2>1. SUFFICES ASSUME NEW i \in DOMAIN to_persist' PROVE \E id \in DOMAIN open : WriteOf(i, id)
    OBVIOUS
  <2>2. PICK id \in {t.maker, t.taker} :
          {t.maker, t.taker} \subseteq DOMAIN open /\ open' = AfterMatch(open, t) /\ to_persist'[i] = MatchWrite(open, t, id)
    BY <1>4
  <2>3. /\ to_persist'[i].time = open[id].time /\ to_persist'[i].id = id
        /\ to_persist'[i].concluded = open[id].concluded + Credit(t, id)
        /\ to_persist'[i].concluded > 0 /\ Consistent(to_persist'[i])
    BY <1>2, <2>2, MatchWrites DEF RecordsInv
  <2>4. id \in DOMAIN open' => open'[id] = [open[id] EXCEPT !.concluded = open[id].concluded + Credit(t, id)]
    BY <1>2, <2>2, AfterMatchFacts DEF RecordsInv
  <2>5. id \in DOMAIN open /\ open[id] \in [amount: Amount, time: 0 .. clock, concluded: Nat]
    BY <2>2 DEF RecordsInv, TypeInv, OpenTyped
  <2> QED BY <2>3, <2>4, <2>5
<1>8. RecordsOfOrders'
  <2>1. /\ \A i \in DOMAIN to_persist' : \E p \in placed : IsOf(p, to_persist'[i].time, to_persist'[i].id)
        /\ \A id \in DOMAIN open' : \E p \in placed : IsOf(p, open'[id].time, id)
    BY <1>3, <1>7 DEF RecordsInv, RecordsParts, RecordsOfOrders
  <2> QED BY <1>1, <2>1 DEF RecordsInv, RecordsParts, RecordsOfOrders, Recorded, IsOf
<1>9. RecordsConsistent'
  BY <1>1, <1>7 DEF RecordsInv, RecordsParts, RecordsConsistent, Consistent
\* An unshared time is that of one open order.
<1>10. \A i, j \in DOMAIN open : open[i].time = open[j].time /\ Unshared(placed, open[i].time) => i = j
  <2>1. SUFFICES ASSUME NEW i \in DOMAIN open, NEW j \in DOMAIN open, open[i].time = open[j].time,
                        Unshared(placed, open[i].time)
                 PROVE  i = j
    OBVIOUS
  <2>2. PICK p \in placed : IsOf(p, open[i].time, i)
    BY DEF RecordsInv, RecordsParts, RecordsOfOrders
  <2>3. PICK q \in placed : IsOf(q, open[j].time, j)
    BY DEF RecordsInv, RecordsParts, RecordsOfOrders
  <2> QED BY <2>1, <2>2, <2>3, UnsharedFacts DEF IsOf
<1>11. \A s : s \in DOMAIN store => store[s].concluded \in Nat
  BY StoredFacts DEF RecordsInv
<1>12. ASSUME NEW id \in DOMAIN open, Unshared(placed, open[id].time), open[id].time \in DOMAIN store
       PROVE  store[open[id].time].concluded <= open[id].concluded
  BY <1>12 DEF RecordsInv, RecordsParts, MapNotBehind
<1>13. ASSUME NEW id \in DOMAIN open', Unshared(placed, open'[id].time)
       PROVE  /\ open'[id].time \in DOMAIN store => store[open'[id].time].concluded <= open'[id].concluded
              /\ \A i \in DOMAIN to_persist' : to_persist'[i].time = open'[id].time =>
                   to_persist'[i].concluded <= open'[id].concluded
  <2>1. id \in DOMAIN open /\ open'[id].time = open[id].time
    BY <1>3
  <2>2. open'[id].time \in DOMAIN store => store[open'[id].time].concluded <= open'[id].concluded
    <3>1. SUFFICES ASSUME open[id].time \in DOMAIN store
                   PROVE  store[open[id].time].concluded <= open'[id].concluded
      BY <2>1
    <3>2. store[open[id].time].concluded <= open[id].concluded
      BY <1>12, <1>13, <2>1, <3>1
    <3>3. open[id].concluded <= open'[id].concluded /\ open'[id].concluded \in Nat /\ open[id].concluded \in Nat
          /\ store[open[id].time].concluded \in Nat
      BY <1>3, <1>11, <2>1, <3>1, StoredFacts DEF RecordsInv
    <3> QED BY <3>2, <3>3
  <2>3. ASSUME NEW i \in DOMAIN to_persist', to_persist'[i].time = open'[id].time
        PROVE  to_persist'[i].concluded <= open'[id].concluded
    <3>1. PICK k \in DOMAIN open : /\ to_persist'[i].time = open[k].time
                                   /\ k \in DOMAIN open' => to_persist'[i].concluded = open'[k].concluded
      BY <1>7
    <3>2. k = id
      BY <1>10, <1>13, <2>1, <2>3, <3>1
    <3>3. to_persist'[i].concluded = open'[id].concluded /\ open'[id].concluded \in Nat
      BY <1>3, <3>1, <3>2
    <3> QED BY <3>3
  <2> QED BY <2>2, <2>3
<1>14. ASSUME NEW i \in DOMAIN to_persist', Unshared(placed, to_persist'[i].time)
       PROVE  /\ to_persist'[i].time \in DOMAIN store =>
                   store[to_persist'[i].time].concluded <= to_persist'[i].concluded
              /\ \A j \in DOMAIN to_persist' : to_persist'[j].time = to_persist'[i].time =>
                   to_persist'[j].concluded = to_persist'[i].concluded
  <2>1. PICK k \in DOMAIN open : /\ to_persist'[i].time = open[k].time
                                 /\ to_persist'[i].concluded = open[k].concluded + Credit(t, k)
    BY <1>7
  <2>2. open[k].concluded \in Nat /\ Credit(t, k) \in Nat
    BY <1>2, StoredFacts, CreditType DEF RecordsInv
  <2>3. ASSUME to_persist'[i].time \in DOMAIN store
        PROVE  store[to_persist'[i].time].concluded <= to_persist'[i].concluded
    <3>1. store[open[k].time].concluded <= open[k].concluded /\ store[open[k].time].concluded \in Nat
      BY <1>11, <1>12, <1>14, <2>1, <2>3
    <3> QED BY <2>1, <2>2, <3>1
  <2>4. ASSUME NEW j \in DOMAIN to_persist', to_persist'[j].time = to_persist'[i].time
        PROVE  to_persist'[j].concluded = to_persist'[i].concluded
    <3>1. PICK l \in DOMAIN open : /\ to_persist'[j].time = open[l].time
                                   /\ to_persist'[j].concluded = open[l].concluded + Credit(t, l)
      BY <1>7
    <3>2. k = l
      BY <1>10, <1>14, <2>1, <2>4, <3>1
    <3> QED BY <2>1, <3>1, <3>2
  <2> QED BY <2>3, <2>4
<1>15. MapNotBehind'
  BY <1>1, <1>13, <1>14 DEF MapNotBehind, Unshared
\* The database stays, and the map and the writes have only got ahead.
<1>16. DatabaseBehind'
  <2>1. ASSUME NEW id \in DOMAIN open, Unshared(placed, open[id].time), open[id].time \in DOMAIN database
        PROVE  /\ database[open[id].time].concluded <= open[id].concluded
               /\ database[open[id].time].concluded \in Nat /\ open[id].concluded \in Nat
    BY <2>1, StoredFacts DEF RecordsInv, RecordsParts, DatabaseBehind
  <2>2. ASSUME NEW id \in DOMAIN open', Unshared(placed, open'[id].time),
               open'[id].time \in DOMAIN database
        PROVE  database[open'[id].time].concluded <= open'[id].concluded
    <3>1. id \in DOMAIN open /\ open'[id].time = open[id].time /\ open'[id].concluded \in Nat
          /\ open[id].concluded <= open'[id].concluded
      BY <1>3
    <3> QED BY <2>1, <2>2, <3>1
  <2>3. ASSUME NEW i \in DOMAIN to_persist', Unshared(placed, to_persist'[i].time),
               to_persist'[i].time \in DOMAIN database
        PROVE  database[to_persist'[i].time].concluded <= to_persist'[i].concluded
    <3>1. PICK k \in DOMAIN open : /\ to_persist'[i].time = open[k].time
                                   /\ to_persist'[i].concluded = open[k].concluded + Credit(t, k)
      BY <1>7
    <3>2. Credit(t, k) \in Nat
      BY <1>2, CreditType
    <3> QED BY <2>1, <2>3, <3>1, <3>2
  <2> QED BY <1>1, <2>2, <2>3 DEF DatabaseBehind, Unshared
<1> QED BY <1>5, <1>6, <1>8, <1>9, <1>15, <1>16 DEF RecordsParts

\* The next of the writes to be made replaces a record that is not ahead.
LEMMA RecordsPersistMatch ==
  ASSUME PersistMatch, RecordsInv
  PROVE  RecordsParts'
<1> DEFINE p == Head(to_persist)
           r == [id |-> p.id, status |-> p.status, concluded |-> p.concluded]
<1>1. /\ to_persist # <<>> /\ store' = PersistOrder(store, p) /\ to_persist' = Tail(to_persist) /\ open' = open
      /\ UNCHANGED <<order_id_, pc, order, database, clock, placed, overtaken>>
  BY DEF PersistMatch, manager, ghosts, open
<1>2. to_persist \in Seq(Point)
  BY StoredFacts DEF RecordsInv
<1>3. 1 \in DOMAIN to_persist /\ p = to_persist[1] /\ p \in Point
  BY <1>1, <1>2
<1>4. \A i \in DOMAIN to_persist' : i + 1 \in DOMAIN to_persist /\ to_persist'[i] = to_persist[i + 1]
  BY <1>1, <1>2
<1>5. p.concluded \in Nat /\ p.concluded > 0 /\ Consistent(p) /\ p.status \in Status
  BY <1>3 DEF RecordsInv, RecordsParts, RecordsConsistent, Point
<1>6. PICK o \in placed : IsOf(o, p.time, p.id)
  BY <1>3 DEF RecordsInv, RecordsParts, RecordsOfOrders
<1>7. /\ p.time \in DOMAIN store => (Unshared(placed, p.time) => store[p.time].concluded <= p.concluded)
      /\ \A id \in DOMAIN open : Unshared(placed, open[id].time) /\ p.time = open[id].time =>
           p.concluded <= open[id].concluded
      /\ \A i \in DOMAIN to_persist : Unshared(placed, p.time) /\ to_persist[i].time = p.time =>
           to_persist[i].concluded = p.concluded
  BY <1>3 DEF RecordsInv, RecordsParts, MapNotBehind
<1> HIDE DEF p
<1>8. /\ r.id = p.id /\ r.concluded = p.concluded /\ r.status = p.status /\ Consistent(r)
  <2>1. r.id = p.id /\ r.concluded = p.concluded /\ r.status = p.status
    OBVIOUS
  <2>2. Consistent(r)
    BY <1>5, <2>1 DEF Consistent
  <2> QED BY <2>1, <2>2
<1>9. DOMAIN store' = DOMAIN store \cup {p.time} /\ store'[p.time] = r
  <2>1. DOMAIN PersistOrder(store, p) = DOMAIN store \cup {p.time}
    BY PersistFacts
  <2>2. PersistOrder(store, p)[p.time] = r
    BY PersistedPoint
  <2> QED BY <1>1, <2>1, <2>2
<1>10. \A t \in DOMAIN store : t # p.time => store'[t] = store[t]
  BY <1>1, PersistFacts
<1> HIDE DEF r
<1>11. OrdersDiffer'
  BY <1>1 DEF RecordsInv, RecordsParts, OrdersDiffer
<1>12. RecordsOfOrders'
  <2>1. Recorded(store)'
    <3>1. SUFFICES ASSUME NEW t \in DOMAIN store' PROVE \E q \in placed : IsOf(q, t, store'[t].id)
      BY <1>1 DEF Recorded, IsOf
    <3>2. CASE t = p.time
      BY <1>6, <1>8, <1>9, <3>2
    <3>3. CASE t # p.time
      BY <1>9, <1>10, <3>3 DEF RecordsInv, RecordsParts, RecordsOfOrders, Recorded
    <3> QED BY <3>2, <3>3
  <2>2. Recorded(database)'
    BY <1>1 DEF RecordsInv, RecordsParts, RecordsOfOrders, Recorded, IsOf
  <2>3. \A i \in DOMAIN to_persist' : \E q \in placed' : IsOf(q, to_persist'[i].time, to_persist'[i].id)
    BY <1>1, <1>4 DEF RecordsInv, RecordsParts, RecordsOfOrders, IsOf
  <2>4. \A id \in DOMAIN open' : \E q \in placed' : IsOf(q, open'[id].time, id)
    BY <1>1 DEF RecordsInv, RecordsParts, RecordsOfOrders, IsOf
  <2> QED BY <2>1, <2>2, <2>3, <2>4 DEF RecordsOfOrders, IsOf
<1>13. RecordsConsistent'
  <2>1. ASSUME NEW t \in DOMAIN store' PROVE Consistent(store'[t])
    <3>1. CASE t = p.time
      BY <1>8, <1>9, <3>1
    <3>2. CASE t # p.time
      BY <1>9, <1>10, <3>2 DEF RecordsInv, RecordsParts, RecordsConsistent
    <3> QED BY <3>1, <3>2
  <2>2. \A i \in DOMAIN to_persist' : to_persist'[i].concluded > 0 /\ Consistent(to_persist'[i])
    BY <1>4 DEF RecordsInv, RecordsParts, RecordsConsistent
  <2>3. \A t \in DOMAIN database' : Consistent(database'[t])
    BY <1>1 DEF RecordsInv, RecordsParts, RecordsConsistent
  <2> QED BY <2>1, <2>2, <2>3 DEF RecordsConsistent, Consistent
<1>14. MapNotBehind'
  <2>1. MapNotBehind
    BY DEF RecordsInv, RecordsParts
  <2>2. ASSUME NEW id \in DOMAIN open, Unshared(placed, open[id].time)
        PROVE  /\ open[id].time \in DOMAIN store' => store'[open[id].time].concluded <= open[id].concluded
               /\ \A i \in DOMAIN to_persist' : to_persist'[i].time = open[id].time =>
                    to_persist'[i].concluded <= open[id].concluded
    <3>1. CASE open[id].time = p.time
      BY <1>4, <1>7, <1>8, <1>9, <2>1, <2>2, <3>1 DEF MapNotBehind
    <3>2. CASE open[id].time # p.time
      BY <1>4, <1>9, <1>10, <2>1, <2>2, <3>2 DEF MapNotBehind
    <3> QED BY <3>1, <3>2
  <2>3. ASSUME NEW i \in DOMAIN to_persist', Unshared(placed, to_persist'[i].time)
        PROVE  /\ to_persist'[i].time \in DOMAIN store' =>
                    store'[to_persist'[i].time].concluded <= to_persist'[i].concluded
               /\ \A j \in DOMAIN to_persist' : to_persist'[j].time = to_persist'[i].time =>
                    to_persist'[j].concluded = to_persist'[i].concluded
    <3>1. \A j \in DOMAIN to_persist' : to_persist'[j].time = to_persist'[i].time =>
            to_persist'[j].concluded = to_persist'[i].concluded
      BY <1>4, <2>1, <2>3 DEF MapNotBehind
    <3>2. CASE to_persist'[i].time = p.time
      <4>1. to_persist'[i].concluded = p.concluded
        BY <1>4, <1>7, <2>3, <3>2
      <4> QED BY <1>5, <1>8, <1>9, <3>1, <3>2, <4>1
    <3>3. CASE to_persist'[i].time # p.time
      <4>1. to_persist'[i].time \in DOMAIN store => store[to_persist'[i].time].concluded <= to_persist'[i].concluded
        BY <1>4, <2>1, <2>3 DEF MapNotBehind
      <4> QED BY <1>9, <1>10, <3>1, <3>3, <4>1
    <3> QED BY <3>2, <3>3
  <2> QED BY <1>1, <2>2, <2>3 DEF MapNotBehind
<1>15. FirstWrite'
  <2>1. SUFFICES ASSUME NEW v \in Worker, pc[v] = "unsubmitted", Unshared(placed, order[v].time),
                        order[v].time \in DOMAIN store'
                 PROVE  store'[order[v].time].concluded > 0
    BY <1>1 DEF FirstWrite, FirstWriteIn, RecordsInv, RecordsParts
  <2>2. CASE order[v].time = p.time
    BY <1>5, <1>8, <1>9, <2>2
  <2>3. CASE order[v].time # p.time
    BY <1>9, <1>10, <2>1, <2>3 DEF RecordsInv, RecordsParts, FirstWrite, FirstWriteIn
  <2> QED BY <2>2, <2>3
<1>16. DatabaseNotAhead'
  <2>1. DOMAIN database \subseteq DOMAIN store /\ DOMAIN database \subseteq DOMAIN store'
    BY <1>9 DEF RecordsInv, RecordsParts, DatabaseNotAhead
  <2>2. ASSUME NEW t \in DOMAIN database, t \notin overtaken \cup SharedTimes(placed)
        PROVE  Progress(store'[t]) >= Progress(database[t])
    <3>1. Progress(store[t]) >= Progress(database[t])
      BY <2>2 DEF RecordsInv, RecordsParts, DatabaseNotAhead
    <3>2. CASE t # p.time
      BY <1>10, <2>1, <3>1, <3>2
    <3>3. CASE t = p.time
      <4>1. store[t].concluded <= p.concluded
        BY <1>7, <2>1, <2>2, <3>3 DEF Unshared
      <4>2. store[t].concluded \in Nat /\ store[t].status \in Status /\ Consistent(store[t])
        BY <2>1, StoredFacts DEF RecordsInv, RecordsParts, RecordsConsistent
      <4>3. Progress(store[t]) \in Nat /\ Progress(store[t]) <= 1 + store[t].concluded
        <5>1. /\ Progress(store[t]) \in Nat
              /\ store[t].concluded > 0 => Progress(store[t]) = 1 + store[t].concluded
              /\ store[t].concluded = 0 => Progress(store[t]) <= 1
          BY <4>2, ProgressFacts
        <5>2. store[t].concluded \in Nat
          BY <4>2
        <5> QED BY <5>1, <5>2
      <4>4. Progress(store'[t]) = 1 + p.concluded
        <5>1. r.concluded \in Nat /\ r.status \in Status /\ Consistent(r) /\ r.concluded > 0
          BY <1>5, <1>8
        <5>2. Progress(r) = 1 + r.concluded
          BY <5>1, ProgressFacts
        <5> QED BY <1>8, <1>9, <3>3, <5>2
      <4>5. Progress(database[t]) \in Nat
        <5>1. database[t].concluded \in Nat
          BY StoredFacts DEF RecordsInv
        <5> QED BY <5>1, ProgressType
      <4>6. store[t].concluded \in Nat /\ p.concluded \in Nat
        BY <1>5, <4>2
      <4> QED BY <3>1, <4>1, <4>3, <4>4, <4>5, <4>6
    <3> QED BY <3>2, <3>3
  <2> QED BY <1>1, <2>1, <2>2 DEF DatabaseNotAhead
<1>17. DatabaseBehind'
  BY <1>1, <1>4 DEF RecordsInv, RecordsParts, DatabaseBehind
<1> QED BY <1>11, <1>12, <1>13, <1>14, <1>15, <1>16, <1>17 DEF RecordsParts

LEMMA RecordsFlush ==
  ASSUME Flush, RecordsInv
  PROVE  RecordsParts'
<1>1. /\ database' = store
      /\ UNCHANGED <<order_id_, order_id_to_order_status_, pc, order, to_persist, store, clock, placed, overtaken>>
  BY DEF Flush, manager, ghosts
<1>2. OrdersDiffer' /\ FirstWrite'
  BY <1>1 DEF RecordsInv, RecordsParts, OrdersDiffer, FirstWrite, FirstWriteIn, Unshared
<1>3. RecordsOfOrders'
  BY <1>1 DEF RecordsInv, RecordsParts, RecordsOfOrders, Recorded, IsOf, open
<1>4. RecordsConsistent'
  BY <1>1 DEF RecordsInv, RecordsParts, RecordsConsistent, Consistent
<1>5. MapNotBehind'
  BY <1>1 DEF RecordsInv, RecordsParts, MapNotBehind, Unshared, open
<1>6. DatabaseNotAhead'
  <2>1. \A t \in DOMAIN store : Progress(store[t]) \in Nat
    BY StoredFacts, ProgressType DEF RecordsInv
  <2>2. \A t \in DOMAIN store : Progress(store[t]) >= Progress(store[t])
    BY <2>1
  <2> QED BY <1>1, <2>2 DEF DatabaseNotAhead
<1>7. DatabaseBehind'
  BY <1>1 DEF RecordsInv, RecordsParts, MapNotBehind, DatabaseBehind, Unshared, open
<1> QED BY <1>2, <1>3, <1>4, <1>5, <1>6, <1>7 DEF RecordsParts

\* A post that fails takes the store back to what the database holds, which is
\* not ahead of anything either.
LEMMA RecordsPostFails ==
  ASSUME PostFails, RecordsInv
  PROVE  RecordsParts'
<1>1. /\ database' \in {database, store} /\ store' = database'
      /\ UNCHANGED <<order_id_, order_id_to_order_status_, pc, order, to_persist, clock, placed, overtaken>>
  BY DEF PostFails, BatchFails, manager, ghosts
<1>2. OrdersDiffer' /\ FirstWrite'
  BY <1>1 DEF RecordsInv, RecordsParts, OrdersDiffer, FirstWrite, FirstWriteIn, Unshared
<1>3. RecordsOfOrders'
  BY <1>1 DEF RecordsInv, RecordsParts, RecordsOfOrders, Recorded, IsOf, open
<1>4. RecordsConsistent'
  BY <1>1 DEF RecordsInv, RecordsParts, RecordsConsistent, Consistent
<1>5. MapNotBehind' /\ DatabaseBehind'
  BY <1>1 DEF RecordsInv, RecordsParts, MapNotBehind, DatabaseBehind, Unshared, open
<1>6. DatabaseNotAhead'
  <2>1. \A t \in DOMAIN database' : Progress(database'[t]) \in Nat
    BY <1>1, StoredFacts, ProgressType DEF RecordsInv
  <2>2. \A t \in DOMAIN database' : Progress(database'[t]) >= Progress(database'[t])
    BY <2>1
  <2> QED BY <1>1, <2>2 DEF DatabaseNotAhead
<1> QED BY <1>2, <1>3, <1>4, <1>5, <1>6 DEF RecordsParts

\* A restart forgets the writes not yet flushed; the clock has gone on, so
\* that the numbers that are given out again come with other times.
LEMMA RecordsRestart ==
  ASSUME Restart, RecordsInv
  PROVE  RecordsParts'
<1>1. /\ order_id_' = 0 /\ open' = <<>> /\ to_persist' = <<>> /\ store' = database /\ clock' = clock + 1
      /\ pc' = [w \in Worker |-> "idle"]
      /\ UNCHANGED <<database, placed, overtaken>>
  BY DEF Restart, ghosts, open
<1>2. DOMAIN open' = {} /\ DOMAIN to_persist' = {}
  BY <1>1, EmptySeq
<1>3. \A w \in Worker : pc'[w] = "idle"
  BY <1>1
<1>4. OrdersDiffer'
  <2>1. \A p \in placed : p.time < clock'
    BY <1>1 DEF RecordsInv, TypeInv, HistoryTyped, CountersTyped
  <2> QED BY <1>1, <1>3, <2>1 DEF OrdersDiffer
<1>5. FirstWrite'
  BY <1>3 DEF FirstWrite, FirstWriteIn
<1>6. RecordsOfOrders'
  BY <1>1, <1>2 DEF RecordsInv, RecordsParts, RecordsOfOrders, Recorded, IsOf
<1>7. RecordsConsistent'
  <2>1. \A t \in DOMAIN database : Consistent(database[t])
    BY DEF RecordsInv, RecordsParts, RecordsConsistent
  <2> QED BY <1>1, <1>2, <2>1 DEF RecordsConsistent, Consistent
<1>8. MapNotBehind' /\ DatabaseBehind'
  BY <1>2 DEF MapNotBehind, DatabaseBehind
<1>9. DatabaseNotAhead'
  <2>1. \A t \in DOMAIN database : Progress(database[t]) \in Nat
    BY StoredFacts, ProgressType DEF RecordsInv
  <2>2. \A t \in DOMAIN database : Progress(database[t]) >= Progress(database[t])
    BY <2>1
  <2> QED BY <1>1, <2>2 DEF DatabaseNotAhead
<1> QED BY <1>4, <1>5, <1>6, <1>7, <1>8, <1>9 DEF RecordsParts

LEMMA RecordsStep == RecordsInv /\ [Next]_vars => RecordsInv'
<1> SUFFICES ASSUME RecordsInv, [Next]_vars PROVE RecordsInv'
  OBVIOUS
<1>1. TypeInv'
  BY TypeStep DEF RecordsInv
<1> SUFFICES RecordsParts'
  BY <1>1 DEF RecordsInv
<1>2. ASSUME NEW w \in Worker, BuildOrder(w) \/ PlaceOrder(w) PROVE RecordsParts'
  BY <1>2, RecordsBuildOrder, RecordsSaveOrderStatus, RecordsPersistUnsubmitted, RecordsMatch,
     RecordsPersistSubmission DEF PlaceOrder
<1>3. CASE Subscribe
  BY <1>3, RecordsUnchanged DEF Subscribe, manager, records, ghosts
<1>4. CASE SubscriptionEnds
  BY <1>4, RecordsUnchanged DEF SubscriptionEnds, manager, records, ghosts
<1>5. CASE EngineTrades
  BY <1>5, RecordsUnchanged DEF EngineTrades, manager, records, ghosts
<1>6. CASE HandleMatchResult
  BY <1>6, RecordsHandleMatchResult
<1>7. CASE PersistMatch
  BY <1>7, RecordsPersistMatch
<1>8. CASE Flush
  BY <1>8, RecordsFlush
<1>9. CASE Restart
  BY <1>9, RecordsRestart
<1>10. CASE PostFails
  BY <1>10, RecordsPostFails
<1>11. CASE UNCHANGED vars
  BY <1>11, RecordsUnchanged DEF vars, manager, records, ghosts
<1> QED BY <1>2, <1>3, <1>4, <1>5, <1>6, <1>7, <1>8, <1>9, <1>10, <1>11 DEF Next, Subscription

LEMMA RecordsInvariant == Spec => []RecordsInv
<1>1. Init => RecordsInv
  BY RecordsInit
<1>2. RecordsInv /\ [Next]_vars => RecordsInv'
  BY RecordsStep
<1> QED BY <1>1, <1>2, PTL DEF Spec

\* What RecordsOnlyAdvance says of a step.
Advances ==
  \A t \in DOMAIN database :
    t \notin overtaken' \cup SharedTimes(placed') =>
      /\ t \in DOMAIN database'
      /\ database'[t].id = database[t].id
      /\ Progress(database'[t]) >= Progress(database[t])

LEMMA DatabaseStays == ASSUME RecordsInv, database' = database PROVE Advances
<1>1. \A t \in DOMAIN database : Progress(database[t]) \in Nat
  BY StoredFacts, ProgressType DEF RecordsInv
<1>2. \A t \in DOMAIN database : Progress(database[t]) >= Progress(database[t])
  BY <1>1
<1> QED BY <1>2 DEF Advances

LEMMA PostAdvances ==
  ASSUME RecordsInv, database' = store, placed' = placed, overtaken' = overtaken PROVE Advances
<1>2. ASSUME NEW t \in DOMAIN database, t \notin overtaken \cup SharedTimes(placed)
      PROVE  /\ t \in DOMAIN store /\ store[t].id = database[t].id
             /\ Progress(store[t]) >= Progress(database[t])
  <2>1. t \in DOMAIN store /\ Progress(store[t]) >= Progress(database[t])
    BY <1>2 DEF RecordsInv, RecordsParts, DatabaseNotAhead
  <2>2. PICK o \in placed : IsOf(o, t, store[t].id)
    BY <2>1 DEF RecordsInv, RecordsParts, RecordsOfOrders, Recorded
  <2>3. PICK p \in placed : IsOf(p, t, database[t].id)
    BY DEF RecordsInv, RecordsParts, RecordsOfOrders, Recorded
  <2>4. o = p
    BY <1>2, <2>2, <2>3, UnsharedFacts DEF IsOf, Unshared
  <2> QED BY <2>1, <2>2, <2>3, <2>4 DEF IsOf
<1> QED BY <1>2 DEF Advances

\* In the database, the record of an order only advances and stays with its
\* order, for any number of restarts, failed posts, threads and orders, unless
\* the order traded before its submission was recorded or shares its time stamp.
THEOREM RecordsAdvance == Spec => RecordsOnlyAdvance
<1>1. RecordsInv /\ [Next]_vars => [Advances]_vars
  <2> SUFFICES ASSUME RecordsInv, Next PROVE Advances
    BY DatabaseStays DEF vars
  <2>1. CASE Flush \/ PostFails
    BY <2>1, PostAdvances, DatabaseStays DEF Flush, PostFails, BatchFails, ghosts
  <2>2. CASE ~(Flush \/ PostFails)
    <3>1. database' = database
      BY <2>2 DEF Next, BuildOrder, PlaceOrder, SaveOrderStatus, PersistUnsubmitted, Match, PersistSubmission,
         Subscribe, SubscriptionEnds, Subscription, HandleMatchResult, PersistMatch, EngineTrades, Restart, records
    <3> QED BY <3>1, DatabaseStays
  <2> QED BY <2>1, <2>2
<1>2. RecordsInv /\ [Next]_vars =>
        [\A t \in DOMAIN database :
           t \notin overtaken' \cup SharedTimes(placed') =>
             /\ t \in DOMAIN database'
             /\ database'[t].id = database[t].id
             /\ Progress(database'[t]) >= Progress(database[t])]_vars
  BY <1>1 DEF Advances
<1> QED BY <1>2, RecordsInvariant, PTL DEF Spec, RecordsOnlyAdvance

-----------------------------------------------------------------------------
(***************************************************************************)
(* Between restarts: the record of an order says what the manager knows.   *)
(***************************************************************************)

\* Order o has been saved, and nothing is written of it yet.
Unsubmitted(o) == \E w \in Worker : pc[w] = "unsubmitted" /\ order[w] = o

BeingPlaced(o) == \E w \in Worker : pc[w] # "idle" /\ order[w] = o

\* No write is to be made at the time of order o.
NonePending(o) == \A i \in DOMAIN to_persist : to_persist[i].time # o.time

\* Record r says what the manager has counted of order o.
SaysCounted(r, o) ==
  /\ r.id = o.id
  /\ Concluded(o) > 0
  /\ r.concluded = Concluded(o)
  /\ r.status = ConcludedStatus(o.amount, Concluded(o))

\* Record r is from before the first trade of order o.
SaysNothing(r, o) ==
  /\ r.id = o.id
  /\ Concluded(o) = 0
  /\ r.concluded = 0

Answered(r) == r.status \in {"submitted", "submission error"}

\* The writes that are still to be made of order o say what has been counted.
PendingOf(o) ==
  \A i \in DOMAIN to_persist : to_persist[i].time = o.time => SaysCounted(to_persist[i], o)

\* What the store says of an order, given the writes that are still to be made.
StoreOf(o) ==
  /\ Unsubmitted(o) => o.time \notin DOMAIN store
  /\ ~Unsubmitted(o) => o.time \in DOMAIN store
  /\ o.time \in DOMAIN store =>
       /\ store[o.time].id = o.id
       /\ NonePending(o) => SaysCounted(store[o.time], o) \/ SaysNothing(store[o.time], o)
       /\ NonePending(o) /\ SaysNothing(store[o.time], o) => BeingPlaced(o) \/ Answered(store[o.time])

\* The writes to be made are right even when an earlier one was lost.
RecordOf(o) == PendingOf(o) /\ (o.time \notin lost => StoreOf(o))

RecordsTrue ==
  ~test_mode_is_open_ =>
    \A o \in placed : o.time \notin overtaken \cup SharedTimes(placed) => RecordOf(o)

\* Where the record, the writes and the place of an order stay, it stays true.
LEMMA RecordOfKept ==
  ASSUME NEW o, RecordOf(o), to_persist' = to_persist, Concluded(o)' = Concluded(o),
         o.time \notin lost' =>
           /\ o.time \notin lost
           /\ o.time \in DOMAIN store' <=> o.time \in DOMAIN store
           /\ o.time \in DOMAIN store => store'[o.time] = store[o.time],
         Unsubmitted(o)' <=> Unsubmitted(o), BeingPlaced(o) => BeingPlaced(o)'
  PROVE  RecordOf(o)'
<1>1. NonePending(o)' <=> NonePending(o)
  BY DEF NonePending
<1>2. \A r : SaysCounted(r, o)' <=> SaysCounted(r, o)
  BY DEF SaysCounted
<1>3. \A r : SaysNothing(r, o)' <=> SaysNothing(r, o)
  BY DEF SaysNothing
<1>4. PendingOf(o)'
  BY <1>2 DEF RecordOf, PendingOf
<1>5. ASSUME o.time \notin lost' PROVE StoreOf(o)'
  BY <1>1, <1>2, <1>3, <1>5 DEF RecordOf, StoreOf
<1> QED BY <1>4, <1>5 DEF RecordOf

\* What holds between restarts, and not in test mode.
TruthInv ==
  /\ CountingInv /\ RecordsParts
  /\ \A o \in placed : o.time \notin overtaken \cup SharedTimes(placed) => RecordOf(o)

\* The order has a time of its own, and was not overtaken by a trade.
Plain(o, orders, times) == o.time \notin times /\ Unshared(orders, o.time)

LEMMA PlainBefore ==
  ASSUME TruthInv, placed \subseteq placed', overtaken \subseteq overtaken',
         NEW o \in placed, Plain(o, placed', overtaken')
  PROVE  Unshared(placed, o.time) /\ o.time \notin overtaken /\ RecordOf(o)
<1>1. Unshared(placed, o.time) /\ o.time \notin overtaken
  BY UnsharedFacts DEF Plain
<1> QED BY <1>1 DEF TruthInv, Unshared

\* It is enough to look at the plain orders one at a time.
LEMMA TruthFromEach ==
  ASSUME \A o \in placed' : Plain(o, placed', overtaken') => RecordOf(o)'
  PROVE  (\A o \in placed : o.time \notin overtaken \cup SharedTimes(placed) => RecordOf(o))'
BY DEF Plain, Unshared

\* Steps that leave the map, the writes and the store alone.
LEMMA TruthKept ==
  ASSUME TruthInv,
         UNCHANGED <<order_id_to_order_status_, to_persist, store, placed, overtaken, lost>>,
         \A o \in placed : (Unsubmitted(o)' <=> Unsubmitted(o)) /\ (BeingPlaced(o) => BeingPlaced(o)')
  PROVE  (\A o \in placed : o.time \notin overtaken \cup SharedTimes(placed) => RecordOf(o))'
<1> SUFFICES ASSUME NEW o \in placed', Plain(o, placed', overtaken') PROVE RecordOf(o)'
  BY TruthFromEach
<1>1. o \in placed /\ RecordOf(o)
  BY PlainBefore
<1>2. Concluded(o)' = Concluded(o)
  BY DEF Concluded
<1> QED BY <1>1, <1>2, RecordOfKept

\* The same for the steps that leave the workers alone too.
LEMMA TruthUnchanged ==
  ASSUME TruthInv,
         UNCHANGED <<order_id_to_order_status_, pc, order, to_persist, store, placed, overtaken, lost>>
  PROVE  (\A o \in placed : o.time \notin overtaken \cup SharedTimes(placed) => RecordOf(o))'
<1>1. \A o \in placed : (Unsubmitted(o)' <=> Unsubmitted(o)) /\ (BeingPlaced(o) => BeingPlaced(o)')
  BY DEF Unsubmitted, BeingPlaced
<1> QED BY <1>1, TruthKept

LEMMA TruthBuildOrder ==
  ASSUME NEW w \in Worker, BuildOrder(w), TruthInv
  PROVE  (\A o \in placed : o.time \notin overtaken \cup SharedTimes(placed) => RecordOf(o))'
<1>1. /\ pc[w] = "idle" /\ pc' = [pc EXCEPT ![w] = "save"]
      /\ \E o : order' = [order EXCEPT ![w] = o]
      /\ UNCHANGED <<order_id_to_order_status_, to_persist, store, placed, overtaken, lost>>
  BY DEF BuildOrder, records, ghosts, posting
<1>2. pc \in [Worker -> PC] /\ DOMAIN order = Worker
  BY DEF TruthInv, CountingInv, TypeInv, WorkersTyped
<1>3. /\ \A v \in Worker : v # w => order'[v] = order[v] /\ pc'[v] = pc[v]
      /\ pc[w] = "idle" /\ pc'[w] = "save"
  BY <1>1, <1>2
<1>4. \A o \in placed : (Unsubmitted(o)' <=> Unsubmitted(o)) /\ (BeingPlaced(o) => BeingPlaced(o)')
  BY <1>3 DEF Unsubmitted, BeingPlaced
<1> QED BY <1>1, <1>4, TruthKept

LEMMA TruthMatch ==
  ASSUME NEW w \in Worker, Match(w), TruthInv, ~test_mode_is_open_
  PROVE  (\A o \in placed : o.time \notin overtaken \cup SharedTimes(placed) => RecordOf(o))'
<1>1. /\ pc[w] = "match" /\ order' = order
      /\ \E at \in {"submitted", "submission error"} : pc' = [pc EXCEPT ![w] = at]
      /\ UNCHANGED <<order_id_to_order_status_, to_persist, store, placed, overtaken, lost>>
  BY DEF Match, manager, records, ghosts, posting
<1>2. pc \in [Worker -> PC]
  BY DEF TruthInv, CountingInv, TypeInv, WorkersTyped
<1>3. /\ \A v \in Worker : v # w => pc'[v] = pc[v]
      /\ pc'[w] \in {"submitted", "submission error"}
  BY <1>1, <1>2
<1>4. \A o \in placed : (Unsubmitted(o)' <=> Unsubmitted(o)) /\ (BeingPlaced(o) => BeingPlaced(o)')
  BY <1>1, <1>3 DEF Unsubmitted, BeingPlaced
<1> QED BY <1>1, <1>4, TruthKept

\* Nothing is recorded, or about to be, at the time of an order that has just
\* been saved and shares its time with no other.
LEMMA NothingAtNewTime ==
  ASSUME RecordsParts, NEW o, o \notin placed, placed' = placed \cup {o}, Unshared(placed', o.time)
  PROVE  o.time \notin DOMAIN store /\ \A i \in DOMAIN to_persist : to_persist[i].time # o.time
<1>1. \A p \in placed : p.time # o.time
  BY DEF Unshared, SharedTimes
<1> QED BY <1>1 DEF RecordsParts, RecordsOfOrders, Recorded, IsOf

LEMMA TruthSaveOrderStatus ==
  ASSUME NEW w \in Worker, SaveOrderStatus(w), TruthInv, ~test_mode_is_open_
  PROVE  (\A o \in placed : o.time \notin overtaken \cup SharedTimes(placed) => RecordOf(o))'
<1> DEFINE o == order[w]
<1>1. /\ pc[w] = "save" /\ placed' = placed \cup {o} /\ pc' = [pc EXCEPT ![w] = "unsubmitted"]
      /\ open' = Put(open, o.id, [amount |-> o.amount, time |-> o.time, concluded |-> 0])
      /\ UNCHANGED <<order, to_persist, store, overtaken, lost>>
  BY DEF SaveOrderStatus, records, open, posting
<1>2. pc \in [Worker -> PC]
  BY DEF TruthInv, CountingInv, TypeInv, WorkersTyped
<1>3. (\A v \in Worker : v # w => pc'[v] = pc[v]) /\ pc'[w] = "unsubmitted"
  BY <1>1, <1>2
<1>4. \A p \in placed : p.id # o.id
  BY <1>1 DEF TruthInv, CountingInv, CountingParts, SavedOnce
<1> HIDE DEF o
<1> SUFFICES ASSUME NEW p \in placed', Plain(p, placed', overtaken') PROVE RecordOf(p)'
  BY TruthFromEach
<1>5. CASE p = o
  <2>1. o.time \notin DOMAIN store /\ \A i \in DOMAIN to_persist : to_persist[i].time # o.time
    BY <1>1, <1>4, <1>5, NothingAtNewTime DEF TruthInv, Plain
  <2>2. Unsubmitted(p)'
    BY <1>1, <1>3, <1>5 DEF Unsubmitted, o
  <2>3. PendingOf(p)'
    BY <1>1, <1>5, <2>1 DEF PendingOf
  <2>4. StoreOf(p)'
    BY <1>1, <1>5, <2>1, <2>2 DEF StoreOf
  <2> QED BY <2>3, <2>4 DEF RecordOf
<1>6. CASE p # o
  <2>1. p \in placed /\ RecordOf(p)
    BY <1>1, <1>6, PlainBefore
  <2>2. Concluded(p)' = Concluded(p)
    BY <1>1, <1>4, <2>1 DEF Concluded, open, Put
  <2>3. Unsubmitted(p)' <=> Unsubmitted(p)
    BY <1>1, <1>3, <1>6 DEF Unsubmitted, o
  <2>4. BeingPlaced(p) => BeingPlaced(p)'
    BY <1>1, <1>3 DEF BeingPlaced
  <2> QED BY <1>1, <2>1, <2>2, <2>3, <2>4, RecordOfKept
<1> QED BY <1>5, <1>6

\* A worker's order is in no other worker's hands.
LEMMA OneWorkerPerOrder ==
  ASSUME TruthInv, NEW v \in Worker, NEW w \in Worker, pc[v] # "idle", pc[w] # "idle", order[v] = order[w]
  PROVE  v = w
BY DEF TruthInv, RecordsParts, OrdersDiffer

\* A write of PlaceOrder leaves the records of the other plain orders alone.
LEMMA OtherRecordsStay ==
  ASSUME NEW w \in Worker, NEW status \in PlacingStatus, pc[w] = status, PersistProgress(w, status),
         TruthInv, GoesOn(w), UNCHANGED <<order_id_to_order_status_, to_persist, placed, lost>>,
         NEW p \in placed, Plain(p, placed', overtaken'), p # order[w]
  PROVE  RecordOf(p)'
<1> DEFINE o == order[w]
           r == Write(o, status, 0)
<1>1. o \in placed
  BY DEF TruthInv, RecordsParts, OrdersDiffer, PlacingStatus
<1>2. store' = PersistOrder(store, r) /\ overtaken \subseteq overtaken' /\ r.time = o.time
  BY DEF PersistProgress, Write
<1> HIDE DEF o, r
<1>3. RecordOf(p) /\ Unshared(placed, p.time)
  BY <1>2, PlainBefore
<1>4. p.time # o.time
  BY <1>1, <1>3, UnsharedFacts DEF o
<1>5. store' = PersistOrder(store, r) /\ r.time # p.time
  BY <1>2, <1>4
<1>6. DOMAIN store' = DOMAIN store \cup {r.time}
  BY <1>5, PersistFacts
<1>7. p.time \in DOMAIN store' <=> p.time \in DOMAIN store
  BY <1>5, <1>6
<1>8. p.time \in DOMAIN store => store'[p.time] = store[p.time]
  BY <1>5, PersistFacts
<1>9. Concluded(p)' = Concluded(p)
  BY DEF Concluded
<1>10. Unsubmitted(p)' <=> Unsubmitted(p)
  BY DEF Unsubmitted, GoesOn
<1>11. BeingPlaced(p) => BeingPlaced(p)'
  BY DEF BeingPlaced, GoesOn
<1> QED BY <1>3, <1>7, <1>8, <1>9, <1>10, <1>11, RecordOfKept

\* The point that a write of PlaceOrder leaves.
LEMMA ProgressPoint ==
  ASSUME NEW w, NEW status, PersistProgress(w, status)
  PROVE  /\ order[w].time \in DOMAIN store'
         /\ store'[order[w].time].id = order[w].id
         /\ store'[order[w].time].concluded = 0
         /\ store'[order[w].time].status = status
<1> DEFINE r == Write(order[w], status, 0)
<1>1. r.time = order[w].time /\ r.id = order[w].id /\ r.concluded = 0 /\ r.status = status
  BY DEF Write
<1>2. store' = PersistOrder(store, r)
  BY DEF PersistProgress
<1> HIDE DEF r
<1>3. r.time \in DOMAIN store'
  BY <1>2, PersistFacts
<1>4. store'[r.time] = [id |-> r.id, status |-> r.status, concluded |-> r.concluded]
  BY <1>2, PersistedPoint
<1> QED BY <1>1, <1>3, <1>4

LEMMA TruthPersistUnsubmitted ==
  ASSUME NEW w \in Worker, PersistUnsubmitted(w), TruthInv
  PROVE  (\A o \in placed : o.time \notin overtaken \cup SharedTimes(placed) => RecordOf(o))'
<1> DEFINE o == order[w]
<1>1. /\ pc[w] = "unsubmitted" /\ PersistProgress(w, "unsubmitted") /\ pc' = [pc EXCEPT ![w] = "match"]
      /\ UNCHANGED <<order, order_id_to_order_status_, to_persist, placed, lost>>
  BY DEF PersistUnsubmitted, manager, posting
<1>2. (\A v \in Worker : v # w => pc'[v] = pc[v]) /\ pc'[w] = "match"
  BY <1>1 DEF TruthInv, CountingInv, TypeInv, WorkersTyped
<1>3. GoesOn(w) /\ "unsubmitted" \in PlacingStatus
  BY <1>1, <1>2 DEF GoesOn, PlacingStatus
<1> SUFFICES ASSUME NEW p \in placed, Plain(p, placed', overtaken') PROVE RecordOf(p)'
  BY <1>1, TruthFromEach
<1>4. CASE p # o
  BY <1>1, <1>3, <1>4, OtherRecordsStay
<1>5. CASE p = o
  <2>1. p.time \in DOMAIN store' /\ store'[p.time].id = p.id /\ store'[p.time].concluded = 0
    BY <1>1, <1>5, ProgressPoint
  <2>2. overtaken \subseteq overtaken'
    BY <1>1 DEF PersistProgress
  <2>3. RecordOf(p)
    BY <1>1, <2>2, PlainBefore
  <2>4. ~InEngine(p.id)
    BY <1>1, <1>5 DEF TruthInv, CountingInv, CountingParts, EngineKnows
  <2>5. Concluded(p) = 0 /\ Concluded(p)' = 0
    BY <1>1, <2>4 DEF TruthInv, CountingInv, CountingParts, MapAgrees, Concluded, open
  <2>6. ~(0 > 0)
    OBVIOUS
  <2>7. \A i \in DOMAIN to_persist : to_persist[i].time # p.time
    BY <2>3, <2>5, <2>6 DEF RecordOf, PendingOf, SaysCounted
  <2>9. BeingPlaced(p)'
    BY <1>1, <1>2, <1>5 DEF BeingPlaced
  <2>10. ~Unsubmitted(p)'
    <3>1. SUFFICES ASSUME NEW v \in Worker, pc'[v] = "unsubmitted", order'[v] = p PROVE FALSE
      BY DEF Unsubmitted
    <3>2. v # w /\ pc[v] # "idle" /\ pc[w] # "idle" /\ order[v] = order[w]
      BY <1>1, <1>2, <1>5, <3>1
    <3> QED BY <3>2, OneWorkerPerOrder
  <2> QED BY <1>1, <2>1, <2>5, <2>7, <2>9, <2>10 DEF RecordOf, PendingOf, StoreOf, SaysNothing
<1> QED BY <1>4, <1>5

LEMMA TruthPersistSubmission ==
  ASSUME NEW w \in Worker, PersistSubmission(w), TruthInv
  PROVE  (\A o \in placed : o.time \notin overtaken \cup SharedTimes(placed) => RecordOf(o))'
<1> DEFINE o == order[w]
<1>1. /\ pc[w] \in {"submitted", "submission error"} /\ PersistProgress(w, pc[w])
      /\ pc' = [pc EXCEPT ![w] = "idle"] /\ order' = [order EXCEPT ![w] = NoOrder]
      /\ UNCHANGED <<order_id_to_order_status_, to_persist, placed, lost>>
  BY DEF PersistSubmission, manager, posting
<1>2. /\ \A v \in Worker : v # w => pc'[v] = pc[v] /\ order'[v] = order[v]
      /\ pc'[w] = "idle"
  BY <1>1 DEF TruthInv, CountingInv, TypeInv, WorkersTyped
<1>3. GoesOn(w) /\ pc[w] \in PlacingStatus
  BY <1>1, <1>2 DEF GoesOn, PlacingStatus
<1> SUFFICES ASSUME NEW p \in placed, Plain(p, placed', overtaken') PROVE RecordOf(p)'
  BY <1>1, TruthFromEach
<1>4. CASE p # o
  BY <1>1, <1>3, <1>4, OtherRecordsStay
<1>5. CASE p = o
  <2>1. /\ p.time \in DOMAIN store' /\ store'[p.time].id = p.id /\ store'[p.time].concluded = 0
        /\ store'[p.time].status = pc[w]
    BY <1>1, <1>5, ProgressPoint
  <2>2. overtaken' = overtaken \cup (IF HasTradeRecorded(p) THEN {p.time} ELSE {})
    BY <1>1, <1>5 DEF PersistProgress
  <2>3. RecordOf(p) /\ ~HasTradeRecorded(p)
    BY <1>1, <2>2, PlainBefore DEF Plain
  <2>4. ~Unsubmitted(p)
    <3>1. SUFFICES ASSUME NEW v \in Worker, pc[v] = "unsubmitted", order[v] = p PROVE FALSE
      BY DEF Unsubmitted
    <3>2. v # w /\ pc[v] # "idle" /\ pc[w] # "idle" /\ order[v] = order[w]
      BY <1>1, <1>5, <3>1
    <3> QED BY <3>2, OneWorkerPerOrder
  <2>5. ~Unsubmitted(p)'
    <3>1. SUFFICES ASSUME NEW v \in Worker, pc'[v] = "unsubmitted", order'[v] = p PROVE FALSE
      BY DEF Unsubmitted
    <3>2. v # w /\ pc[v] = "unsubmitted" /\ order[v] = p
      BY <1>2, <3>1
    <3> QED BY <2>4, <3>2 DEF Unsubmitted
  <2>6. NonePending(p) /\ p.time \notin lost => Concluded(p) = 0
    <3>1. SUFFICES ASSUME NonePending(p), p.time \notin lost PROVE Concluded(p) = 0
      OBVIOUS
    <3>2. p.time \in DOMAIN store /\ (SaysCounted(store[p.time], p) \/ SaysNothing(store[p.time], p))
      BY <2>3, <2>4, <3>1 DEF RecordOf, StoreOf
    <3>3. ~(store[p.time].concluded > 0)
      BY <2>3, <3>2 DEF HasTradeRecorded
    <3>4. ~SaysCounted(store[p.time], p)
      BY <3>3 DEF SaysCounted
    <3> QED BY <3>2, <3>4 DEF SaysNothing
  <2>7. Concluded(p)' = Concluded(p)
    BY <1>1 DEF Concluded
  <2>8. NonePending(p)' <=> NonePending(p)
    BY <1>1 DEF NonePending
  <2>9. NonePending(p)' /\ p.time \notin lost' => Concluded(p)' = 0
    BY <1>1, <2>6, <2>7, <2>8
  <2>10. Answered(store'[p.time])
    BY <1>1, <2>1 DEF Answered
  <2>11. \A r : SaysCounted(r, p)' <=> SaysCounted(r, p)
    BY <2>7 DEF SaysCounted
  <2>12. PendingOf(p)'
    BY <1>1, <2>3, <2>11 DEF RecordOf, PendingOf
  <2>13. ASSUME p.time \notin lost' PROVE StoreOf(p)'
    BY <2>1, <2>5, <2>9, <2>10, <2>13 DEF StoreOf, Answered, SaysNothing
  <2> QED BY <2>12, <2>13 DEF RecordOf
<1> QED BY <1>4, <1>5

LEMMA TruthHandleMatchResult ==
  ASSUME HandleMatchResult, TruthInv, ~test_mode_is_open_
  PROVE  (\A o \in placed : o.time \notin overtaken \cup SharedTimes(placed) => RecordOf(o))'
<1> DEFINE t == Head(stream)
           ids == {t.maker, t.taker}
           W(id) == MatchWrite(open, t, id)
<1>1. /\ t \in Trade /\ ids \subseteq DOMAIN open /\ to_persist = <<>>
      /\ to_persist' = <<W(t.maker), W(t.taker)>>
      /\ UNCHANGED <<pc, order, store, placed, overtaken, lost>>
  <2>1. stream # <<>> /\ stream \in Seq(Trade)
    BY DEF HandleMatchResult, TruthInv, CountingInv, TypeInv, TradesTyped
  <2>2. t \in Trade /\ 1 \in DOMAIN stream /\ t = stream[1]
    BY <2>1
  <2>3. ids \subseteq DOMAIN open
    BY <2>2, CountingFindsOrders DEF TradesFindOrders, open, TruthInv
  <2> QED BY <2>2, <2>3 DEF HandleMatchResult, open, records, ghosts, posting
<1>2. TypeInv
  BY DEF TruthInv, CountingInv
<1>3. \A i \in DOMAIN to_persist' : \E id \in ids : to_persist'[i] = W(id)
  BY <1>1
<1>4. \A id \in ids : \E i \in DOMAIN to_persist' : to_persist'[i] = W(id)
  BY <1>1
<1> HIDE DEF t, W
<1>5. \A id \in ids : /\ W(id).time = open[id].time /\ W(id).id = id
                      /\ W(id).concluded = open[id].concluded + Credit(t, id) /\ W(id).concluded > 0
                      /\ W(id).status = ConcludedStatus(open[id].amount, open[id].concluded + Credit(t, id))
  BY <1>1, <1>2, MatchWrites DEF W
<1> SUFFICES ASSUME NEW p \in placed', Plain(p, placed', overtaken') PROVE RecordOf(p)'
  BY TruthFromEach
<1>6. p \in placed /\ RecordOf(p) /\ Unshared(placed, p.time)
  BY <1>1, PlainBefore
<1>7. NonePending(p)
  BY <1>1, EmptySeq DEF NonePending
<1>8. Concluded(p)' = Concluded(p) + Credit(t, p.id)
  BY <1>6, HandleCounts DEF t, TruthInv
\* A write at the time of the order is one of the order.
<1>9. \A id \in ids : open[id].time = p.time => id = p.id
  <2>1. SUFFICES ASSUME NEW id \in ids, open[id].time = p.time PROVE id = p.id
    OBVIOUS
  <2>2. PICK q \in placed : IsOf(q, open[id].time, id)
    BY <1>1 DEF TruthInv, RecordsParts, RecordsOfOrders
  <2> QED BY <1>6, <2>1, <2>2, UnsharedFacts DEF IsOf
<1>10. \A i \in DOMAIN to_persist' : to_persist'[i].time = p.time => p.id \in ids /\ to_persist'[i] = W(p.id)
  BY <1>3, <1>5, <1>9
<1>11. (Unsubmitted(p)' <=> Unsubmitted(p)) /\ (BeingPlaced(p)' <=> BeingPlaced(p))
  BY <1>1 DEF Unsubmitted, BeingPlaced
<1>12. p.time \notin lost' /\ p.time \in DOMAIN store' => store'[p.time].id = p.id
  BY <1>1, <1>6 DEF RecordOf, StoreOf
<1>13. p.time \notin lost' =>
         /\ Unsubmitted(p)' => p.time \notin DOMAIN store'
         /\ ~Unsubmitted(p)' => p.time \in DOMAIN store'
  BY <1>1, <1>6, <1>11 DEF RecordOf, StoreOf
<1>14. CASE p.id \in ids
  <2>1. Concluded(p) = open[p.id].concluded /\ open[p.id].amount = p.amount /\ open[p.id].time = p.time
    BY <1>1, <1>6, <1>14 DEF Concluded, open, TruthInv, CountingInv, CountingParts, MapAgrees
  <2>2. ~NonePending(p)'
    <3>1. PICK i \in DOMAIN to_persist' : to_persist'[i] = W(p.id)
      BY <1>4, <1>14
    <3> QED BY <1>5, <1>14, <2>1, <3>1 DEF NonePending
  <2>3. /\ W(p.id).id = p.id /\ Concluded(p)' > 0 /\ W(p.id).concluded = Concluded(p)'
        /\ W(p.id).status = ConcludedStatus(p.amount, Concluded(p)')
    BY <1>5, <1>8, <1>14, <2>1
  <2>4. PendingOf(p)'
    BY <1>10, <2>3 DEF SaysCounted, PendingOf
  <2> QED BY <1>12, <1>13, <2>2, <2>4 DEF RecordOf, StoreOf
<1>15. CASE p.id \notin ids
  <2>1. NonePending(p)'
    BY <1>10, <1>15 DEF NonePending
  <2>2. Credit(t, p.id) = 0
    BY <1>15 DEF Credit
  <2>3. Concluded(p)' = Concluded(p)
    BY <1>6, <1>8, <2>2, CountedAmounts DEF TruthInv
  <2>4. \A r : SaysCounted(r, p)' <=> SaysCounted(r, p)
    BY <2>3 DEF SaysCounted
  <2>5. \A r : SaysNothing(r, p)' <=> SaysNothing(r, p)
    BY <2>3 DEF SaysNothing
  <2>6. (\A i \in DOMAIN to_persist : to_persist[i].time # p.time)'
    BY <2>1 DEF NonePending
  <2>7. PendingOf(p)'
    BY <2>6 DEF PendingOf
  <2>8. ASSUME p.time \notin lost' PROVE StoreOf(p)'
    BY <1>1, <1>6, <1>7, <1>11, <1>12, <1>13, <2>4, <2>5, <2>8 DEF RecordOf, StoreOf, Answered
  <2> QED BY <2>7, <2>8 DEF RecordOf
<1> QED BY <1>14, <1>15

\* What a trade has recorded is true again, whatever was lost before.
LEMMA TruthPersistMatch ==
  ASSUME PersistMatch, TruthInv
  PROVE  (\A o \in placed : o.time \notin overtaken \cup SharedTimes(placed) => RecordOf(o))'
<1> DEFINE h == Head(to_persist)
<1>1. /\ to_persist # <<>> /\ store' = PersistOrder(store, h) /\ to_persist' = Tail(to_persist)
      /\ lost' = lost \ {h.time}
      /\ UNCHANGED <<order_id_to_order_status_, pc, order, placed, overtaken>>
  BY DEF PersistMatch, manager, ghosts
<1>2. to_persist \in Seq(Point)
  BY StoredFacts DEF TruthInv, CountingInv
<1>3. 1 \in DOMAIN to_persist /\ h = to_persist[1]
  BY <1>1, <1>2
<1>4. \A i \in DOMAIN to_persist' : i + 1 \in DOMAIN to_persist /\ to_persist'[i] = to_persist[i + 1]
  BY <1>1, <1>2
<1>5. \A i \in DOMAIN to_persist : i = 1 \/ \E j \in DOMAIN to_persist' : to_persist'[j] = to_persist[i]
  <2>1. SUFFICES ASSUME NEW i \in DOMAIN to_persist, i # 1
                 PROVE  i - 1 \in DOMAIN to_persist' /\ to_persist'[i - 1] = to_persist[i]
    OBVIOUS
  <2>2. i \in 2 .. Len(to_persist) /\ Len(to_persist) \in Nat
    BY <1>2, <2>1
  <2> QED BY <1>1, <1>2, <2>2
<1> HIDE DEF h
<1> SUFFICES ASSUME NEW p \in placed', Plain(p, placed', overtaken') PROVE RecordOf(p)'
  BY TruthFromEach
<1>6. p \in placed /\ RecordOf(p)
  BY <1>1, PlainBefore
<1>7. Concluded(p)' = Concluded(p)
  BY <1>1 DEF Concluded
<1>8. \A r : SaysCounted(r, p)' <=> SaysCounted(r, p)
  BY <1>7 DEF SaysCounted
<1>9. \A r : SaysNothing(r, p)' <=> SaysNothing(r, p)
  BY <1>7 DEF SaysNothing
<1>10. (Unsubmitted(p)' <=> Unsubmitted(p)) /\ (BeingPlaced(p)' <=> BeingPlaced(p))
  BY <1>1 DEF Unsubmitted, BeingPlaced
<1>11. \A i \in DOMAIN to_persist' : to_persist'[i].time = p.time => SaysCounted(to_persist'[i], p)
  BY <1>4, <1>6 DEF RecordOf, PendingOf
<1>12. PendingOf(p)'
  BY <1>8, <1>11 DEF PendingOf
<1>13. DOMAIN store' = DOMAIN store \cup {h.time}
  BY <1>1, PersistFacts
<1>14. CASE h.time = p.time
  <2>1. SaysCounted(h, p)
    BY <1>3, <1>6, <1>14 DEF RecordOf, PendingOf
  <2>2. store'[p.time].id = h.id /\ store'[p.time].status = h.status /\ store'[p.time].concluded = h.concluded
    <3>1. store'[h.time] = [id |-> h.id, status |-> h.status, concluded |-> h.concluded]
      BY <1>1, PersistedPoint
    <3> QED BY <1>14, <3>1
  <2>3. /\ store'[p.time].id = p.id /\ Concluded(p)' > 0 /\ store'[p.time].concluded = Concluded(p)'
        /\ store'[p.time].status = ConcludedStatus(p.amount, Concluded(p)')
    BY <1>7, <2>1, <2>2 DEF SaysCounted
  <2>4. Concluded(p)' # 0
    BY <2>3
  <2>5. ~Unsubmitted(p)
    <3>1. SUFFICES ASSUME Unsubmitted(p) PROVE FALSE
      OBVIOUS
    <3>2. ~InEngine(p.id)
      BY <3>1 DEF Unsubmitted, TruthInv, CountingInv, CountingParts, EngineKnows
    <3>3. Concluded(p) = 0
      BY <1>6, <3>2 DEF TruthInv, CountingInv, CountingParts, MapAgrees, Concluded, open
    <3> QED BY <1>7, <2>4, <3>3
  <2>6. StoreOf(p)'
    BY <1>10, <1>13, <1>14, <2>3, <2>4, <2>5 DEF StoreOf, SaysCounted, SaysNothing
  <2> QED BY <1>12, <2>6 DEF RecordOf
<1>15. CASE h.time # p.time
  <2>1. p.time \in DOMAIN store' <=> p.time \in DOMAIN store
    BY <1>13, <1>15
  <2>2. p.time \in DOMAIN store => store'[p.time] = store[p.time]
    BY <1>1, <1>15, PersistFacts
  <2>3. NonePending(p)' => NonePending(p)
    BY <1>3, <1>5, <1>15 DEF NonePending
  <2>4. p.time \notin lost' => p.time \notin lost
    BY <1>1, <1>15
  <2>5. ASSUME p.time \notin lost' PROVE StoreOf(p)'
    BY <1>6, <1>8, <1>9, <1>10, <2>1, <2>2, <2>3, <2>4, <2>5 DEF RecordOf, StoreOf, Answered
  <2> QED BY <1>12, <2>5 DEF RecordOf
<1> QED BY <1>14, <1>15

\* A post that fails takes back only what it has lost.
LEMMA TruthPostFails ==
  ASSUME PostFails, TruthInv
  PROVE  (\A o \in placed : o.time \notin overtaken \cup SharedTimes(placed) => RecordOf(o))'
<1>1. /\ database' \in {database, store} /\ store' = database'
      /\ lost' = lost \cup {t \in DOMAIN store : t \notin DOMAIN store' \/ store'[t] # store[t]}
      /\ UNCHANGED <<order_id_to_order_status_, pc, order, to_persist, placed, overtaken>>
  BY DEF PostFails, BatchFails, manager, ghosts
<1>2. DOMAIN store' \subseteq DOMAIN store
  BY <1>1 DEF TruthInv, RecordsParts, DatabaseNotAhead
<1> SUFFICES ASSUME NEW o \in placed', Plain(o, placed', overtaken') PROVE RecordOf(o)'
  BY TruthFromEach
<1>3. o \in placed /\ RecordOf(o)
  BY <1>1, PlainBefore
<1>4. Concluded(o)' = Concluded(o) /\ (Unsubmitted(o)' <=> Unsubmitted(o)) /\ (BeingPlaced(o) => BeingPlaced(o)')
  BY <1>1 DEF Concluded, Unsubmitted, BeingPlaced
<1>5. ASSUME o.time \notin lost'
      PROVE  /\ o.time \notin lost
             /\ o.time \in DOMAIN store' <=> o.time \in DOMAIN store
             /\ o.time \in DOMAIN store => store'[o.time] = store[o.time]
  BY <1>1, <1>2, <1>5
<1> QED BY <1>1, <1>3, <1>4, <1>5, RecordOfKept

\* Until the first restart, every step keeps the records true.
TrueUntilRestart ==
  /\ UntilRestart /\ RecordsInv
  /\ restarts = 0 => RecordsTrue

LEMMA TruthStep == TrueUntilRestart /\ [Next]_vars => TrueUntilRestart'
<1> SUFFICES ASSUME TrueUntilRestart, [Next]_vars PROVE TrueUntilRestart'
  OBVIOUS
<1>1. UntilRestart' /\ RecordsInv'
  BY CountingStep, RecordsStep DEF TrueUntilRestart
<1>2. SUFFICES ASSUME restarts' = 0, ~test_mode_is_open_'
               PROVE  (\A o \in placed : o.time \notin overtaken \cup SharedTimes(placed) => RecordOf(o))'
  BY <1>1 DEF TrueUntilRestart, RecordsTrue
<1>3. ~Restart
  BY <1>2 DEF Restart, TrueUntilRestart, UntilRestart, TypeInv, CountersTyped
<1>4. restarts = 0 /\ ~test_mode_is_open_
  <2>1. restarts' = restarts
    BY <1>3 DEF Next, BuildOrder, PlaceOrder, SaveOrderStatus, PersistUnsubmitted, Match,
       PersistSubmission, Subscribe, SubscriptionEnds, Subscription, HandleMatchResult, PersistMatch,
       EngineTrades, Flush, PostFails, BatchFails, counts, vars
  <2>2. test_mode_is_open_' = test_mode_is_open_
    BY DEF Next, BuildOrder, PlaceOrder, SaveOrderStatus, PersistUnsubmitted, Match,
       PersistSubmission, Subscribe, SubscriptionEnds, Subscription, HandleMatchResult, PersistMatch,
       EngineTrades, Flush, PostFails, BatchFails, Restart, vars
  <2> QED BY <1>2, <2>1, <2>2
<1>5. TruthInv
  BY <1>4 DEF TrueUntilRestart, UntilRestart, RecordsInv, RecordsTrue, CountingInv, TruthInv
<1>6. ASSUME NEW w \in Worker, BuildOrder(w) \/ PlaceOrder(w)
      PROVE  (\A o \in placed : o.time \notin overtaken \cup SharedTimes(placed) => RecordOf(o))'
  BY <1>4, <1>5, <1>6, TruthBuildOrder, TruthSaveOrderStatus, TruthPersistUnsubmitted, TruthMatch,
     TruthPersistSubmission DEF PlaceOrder
<1>7. CASE Subscribe
  BY <1>5, <1>7, TruthUnchanged DEF Subscribe, manager, records, ghosts, posting
<1>8. CASE SubscriptionEnds
  BY <1>5, <1>8, TruthUnchanged DEF SubscriptionEnds, manager, records, ghosts, posting
<1>9. CASE HandleMatchResult
  BY <1>4, <1>5, <1>9, TruthHandleMatchResult
<1>10. CASE PersistMatch
  BY <1>5, <1>10, TruthPersistMatch
<1>11. CASE EngineTrades
  BY <1>5, <1>11, TruthUnchanged DEF EngineTrades, manager, records, ghosts, posting
<1>12. CASE Flush
  BY <1>5, <1>12, TruthUnchanged DEF Flush, manager, ghosts, posting
<1>13. CASE PostFails
  BY <1>5, <1>13, TruthPostFails
<1>14. CASE UNCHANGED vars
  BY <1>5, <1>14, TruthUnchanged DEF vars, manager, records, ghosts, posting
<1> QED BY <1>3, <1>6, <1>7, <1>8, <1>9, <1>10, <1>11, <1>12, <1>13, <1>14 DEF Next, Subscription

LEMMA RecordsTrueAtRest ==
  ASSUME TruthInv, Settled, ~test_mode_is_open_ PROVE RecordIsTrue
<1> SUFFICES ASSUME NEW o \in placed, o.time \notin overtaken \cup lost \cup SharedTimes(placed)
             PROVE  /\ database[o.time].id = o.id
                    /\ database[o.time].concluded = Concluded(o)
                    /\ database[o.time].status \in
                         IF Concluded(o) = 0 THEN {"submitted", "submission error"}
                         ELSE {ConcludedStatus(o.amount, Concluded(o))}
  BY DEF RecordIsTrue
<1>1. StoreOf(o)
  BY DEF TruthInv, RecordOf
<1>2. ~Unsubmitted(o) /\ ~BeingPlaced(o)
  BY DEF Settled, Unsubmitted, BeingPlaced
<1>3. NonePending(o)
  BY EmptySeq DEF Settled, NonePending
<1>4. database = store
  BY DEF Settled
<1>5. store[o.time].id = o.id
  BY <1>1, <1>2 DEF StoreOf
<1>6. CASE SaysCounted(store[o.time], o)
  <2>1. /\ store[o.time].concluded = Concluded(o) /\ Concluded(o) # 0
        /\ store[o.time].status = ConcludedStatus(o.amount, Concluded(o))
    BY <1>6 DEF SaysCounted
  <2> QED BY <1>4, <1>5, <2>1
<1>7. CASE SaysNothing(store[o.time], o)
  <2>1. store[o.time].concluded = Concluded(o) /\ Concluded(o) = 0
    BY <1>7 DEF SaysNothing
  <2>2. store[o.time].status \in {"submitted", "submission error"}
    BY <1>1, <1>2, <1>3, <1>7 DEF StoreOf, Answered
  <2> QED BY <1>4, <1>5, <2>1, <2>2
<1> QED BY <1>1, <1>2, <1>3, <1>6, <1>7 DEF StoreOf

\* Until the order manager is restarted, whenever all threads are at rest
\* and the buffer has been posted, the database says of every order what the
\* manager knows of it, whichever posts have failed before, unless the order
\* shares its time stamp, was overtaken by a trade, or had a write in a post
\* that failed and has not traded since (database_interface.cc:113-133): what
\* is written of a trade has all that the order has been concluded for, and
\* so makes up for what was lost.
THEOREM RecordsAreTrue == Spec => []RecordIsTrue
<1>1. Init => TrueUntilRestart
  BY CountingInit, RecordsInit DEF Init, TrueUntilRestart, UntilRestart, CountingInv, RecordsTrue
<1>2. TrueUntilRestart /\ [Next]_vars => TrueUntilRestart'
  BY TruthStep
<1>3. TrueUntilRestart => RecordIsTrue
  <2>1. SUFFICES ASSUME TrueUntilRestart, restarts = 0, Settled, ~test_mode_is_open_ PROVE RecordIsTrue
    BY DEF RecordIsTrue
  <2>2. TruthInv
    BY <2>1 DEF TrueUntilRestart, UntilRestart, RecordsInv, RecordsTrue, CountingInv, TruthInv
  <2> QED BY <2>1, <2>2, RecordsTrueAtRest
<1> QED BY <1>1, <1>2, <1>3, PTL DEF Spec
=============================================================================
