---------------------------- MODULE OrderManager ----------------------------
(***************************************************************************)
(* The order manager (order_manager/src/order_manager.cc): gRPC worker     *)
(* threads run PlaceOrder, one subscription thread runs HandleMatchResult  *)
(* on the trades the match engine streams back, and both record the state  *)
(* of an order with PersistOrder.  They share the order id counter, the    *)
(* map order_id_to_order_status_ (under mutex_) and the order store.       *)
(*                                                                         *)
(* The match engine is seen from here as a set of accepted orders that may *)
(* trade with each other; MatchActor says which ones do.  A point of the   *)
(* database is identified by its time stamp alone (PersistOrder writes no  *)
(* tags), so that a later write with the same submit_time replaces it.     *)
(* The writes wait in the buffer of common/src/database_interface.cc; a    *)
(* post that fails clears them, and ends the IO thread when it was its.    *)
(***************************************************************************)
EXTENDS Integers, Sequences, FiniteSets, FiniteSetsExt

CONSTANTS
  Worker,        \* the worker threads of the gRPC server
  Amount,        \* the amounts of the orders
  MaxOrders,     \* bound on the orders placed
  MaxRestarts,   \* bound on the restarts of the order manager
  MaxFailures,   \* bound on the posts to the database that fail
  ClockSteps,    \* what the clock may move on by from one request to the next
  TestMode       \* the values test_mode_is_open_ may have

ASSUME AmountAssumption   == Amount \subseteq Nat \ {0}
ASSUME BoundsAssumption   == MaxOrders \in Nat /\ MaxRestarts \in Nat /\ MaxFailures \in Nat
ASSUME ClockAssumption    == ClockSteps \subseteq Nat
ASSUME TestModeAssumption == TestMode \subseteq BOOLEAN

VARIABLES
  order_id_,                 \* the last order id given out
  order_id_to_order_status_, \* the open orders: id -> amount, time, concluded
  pc,                        \* where each worker thread is
  order,                     \* the order each worker thread works on
  to_persist,                \* the writes the subscription thread has to make
  store,                     \* what the database holds once the buffer is posted
  database,                  \* what the database holds
  io_thread,                 \* of the database writer: running, ended
  test_mode_is_open_,
  subscription,              \* of the match results: connecting, open, ended
  clock,                     \* what system_clock::now() says
  engine,                    \* orders the engine has accepted, and what is left
  stream,                    \* trades on their way to the order manager
  missed,                    \* history: trades that never reached it
  placed,                    \* history: orders whose state has been saved
  overtaken,                 \* history: times of the orders that had a trade
                             \* recorded before the last write of PlaceOrder
  lost,                      \* history: times of the orders of which a write
                             \* was lost in a post, and no trade recorded since
  requests,                  \* number of calls of PlaceOrder
  restarts,                  \* number of restarts
  failures                   \* number of failed posts

manager == <<order_id_, order_id_to_order_status_>>
records == <<store, database>>
outside == <<engine, stream, missed>>
ghosts  == <<placed, overtaken>>
counts  == <<requests, restarts>>
posting == <<io_thread, lost, failures>>
vars == <<manager, pc, order, to_persist, records, test_mode_is_open_,
          subscription, clock, outside, ghosts, counts, posting>>

-----------------------------------------------------------------------------
\* What PersistOrder writes for order o.
Write(o, status, concluded) ==
  [time |-> o.time, id |-> o.id, status |-> status, concluded |-> concluded]

\* Map m with value v at key k.
Put(m, k, v) == [x \in DOMAIN m \cup {k} |-> IF x = k THEN v ELSE m[x]]

\* Mutant of PersistOrder: points are told apart by the order id.
PersistById(s, w) ==
  Put(s, w.id, [id |-> w.id, status |-> w.status, concluded |-> w.concluded])

\* A point with the time of the write is replaced, whichever order it is of.
PersistOrder(s, w) ==
  Put(s, w.time, [id |-> w.id, status |-> w.status, concluded |-> w.concluded])

\* Mutant of Credit: the maker is forgotten.
CreditTaker(t, id) == IF t.taker = id THEN t.amount ELSE 0

\* What trade t adds to the concluded amount of an order.
Credit(t, id) == (IF t.maker = id THEN t.amount ELSE 0)
               + (IF t.taker = id THEN t.amount ELSE 0)

Credits(trades, id) ==
  SumFunction([i \in DOMAIN trades |-> Credit(trades[i], id)])

\* The status that HandleMatchResult gives an order.
ConcludedStatus(amount, concluded) ==
  IF amount <= concluded THEN "concluded" ELSE "partially concluded"

\* Mutant of AfterMatch: when an order is filled, both leave the map.
EraseBoth(open, t) ==
  LET credited == [id \in DOMAIN open |->
                     [open[id] EXCEPT !.concluded = @ + Credit(t, id)]]
      filled   == {id \in {t.maker, t.taker} :
                     credited[id].amount <= credited[id].concluded}
  IN [id \in DOMAIN open \ (IF filled = {} THEN {} ELSE {t.maker, t.taker})
       |-> credited[id]]

\* Mutant of AfterMatch: an order filled to the amount stays in the map.
EraseBeyond(open, t) ==
  LET credited == [id \in DOMAIN open |->
                     [open[id] EXCEPT !.concluded = @ + Credit(t, id)]]
      filled   == {id \in {t.maker, t.taker} :
                     credited[id].amount < credited[id].concluded}
  IN [id \in DOMAIN open \ filled |-> credited[id]]

\* The open orders after trade t: both are credited, the filled ones erased.
AfterMatch(open, t) ==
  LET credited == [id \in DOMAIN open |->
                     [open[id] EXCEPT !.concluded = @ + Credit(t, id)]]
      filled   == {id \in {t.maker, t.taker} :
                     credited[id].amount <= credited[id].concluded}
  IN [id \in DOMAIN open \ filled |-> credited[id]]

\* Mutant of MatchWrite: only the amount of this trade is written.
WriteLastTrade(open, t, id) ==
  Write([id |-> id, time |-> open[id].time],
        ConcludedStatus(open[id].amount, Credit(t, id)), Credit(t, id))

\* Mutant of MatchWrite: what is written leaves out the trade itself.
WriteBeforeTrade(open, t, id) ==
  Write([id |-> id, time |-> open[id].time],
        ConcludedStatus(open[id].amount, open[id].concluded), open[id].concluded)

\* The write for one of the two orders of trade t.
MatchWrite(open, t, id) ==
  LET concluded == open[id].concluded + Credit(t, id)
  IN Write([id |-> id, time |-> open[id].time],
           ConcludedStatus(open[id].amount, concluded), concluded)

NoOrder == <<>>

-----------------------------------------------------------------------------
Init ==
  /\ order_id_ = 0
  /\ order_id_to_order_status_ = <<>>
  /\ pc = [w \in Worker |-> "idle"]
  /\ order = [w \in Worker |-> NoOrder]
  /\ to_persist = <<>>
  /\ store = <<>>
  /\ database = <<>>
  /\ test_mode_is_open_ \in TestMode
  /\ subscription = "connecting"
  /\ clock = 0
  /\ engine = {}
  /\ stream = <<>>
  /\ missed = <<>>
  /\ placed = {}
  /\ overtaken = {}
  /\ requests = 0
  /\ restarts = 0
  /\ io_thread = "running"
  /\ lost = {}
  /\ failures = 0

\* A request arrives; BuildOrder takes the next id and reads the clock, which
\* need not have moved on since the last request.
BuildOrder(w) ==
  /\ pc[w] = "idle"
  /\ requests < MaxOrders
  /\ requests' = requests + 1
  /\ order_id_' = order_id_ + 1
  /\ \E step \in ClockSteps : clock' = clock + step
  /\ \E a \in Amount :
       order' = [order EXCEPT ![w] = [id |-> order_id_ + 1, time |-> clock', amount |-> a]]
  /\ pc' = [pc EXCEPT ![w] = "save"]
  /\ UNCHANGED <<order_id_to_order_status_, to_persist, records, test_mode_is_open_,
                 subscription, outside, ghosts, restarts, posting>>

\* Test mode writes nothing to the store.
SaveOrderStatus(w) ==
  /\ pc[w] = "save"
  /\ order_id_to_order_status_' =
       Put(order_id_to_order_status_, order[w].id,
           [amount |-> order[w].amount, time |-> order[w].time, concluded |-> 0])
  /\ placed' = placed \cup {order[w]}
  /\ pc' = [pc EXCEPT ![w] = IF test_mode_is_open_ THEN "match" ELSE "unsubmitted"]
  /\ UNCHANGED <<order_id_, order, to_persist, records, test_mode_is_open_,
                 subscription, clock, outside, overtaken, counts, posting>>

HasTradeRecorded(o) == o.time \in DOMAIN store /\ store[o.time].concluded > 0

\* A write of PlaceOrder does not look at what became of the order before it.
PersistProgress(w, status) ==
  /\ store' = PersistOrder(store, Write(order[w], status, 0))
  /\ overtaken' = overtaken \cup
       (IF HasTradeRecorded(order[w]) THEN {order[w].time} ELSE {})

PersistUnsubmitted(w) ==
  /\ pc[w] = "unsubmitted"
  /\ PersistProgress(w, "unsubmitted")
  /\ pc' = [pc EXCEPT ![w] = "match"]
  /\ UNCHANGED <<manager, order, to_persist, database, test_mode_is_open_,
                 subscription, clock, outside, placed, counts, posting>>

\* The call of the engine: it accepts the order and says so, or refuses it,
\* or accepts it and the reply is lost.  Test mode ends the request here.
Match(w) ==
  /\ pc[w] = "match"
  /\ \E accepted, answered \in BOOLEAN :
       /\ engine' = engine \cup
            (IF accepted THEN {[id |-> order[w].id, time |-> order[w].time,
                                left |-> order[w].amount]} ELSE {})
       /\ pc' = [pc EXCEPT ![w] =
                   IF test_mode_is_open_ THEN "idle"
                   ELSE IF accepted /\ answered THEN "submitted"
                   ELSE "submission error"]
  /\ order' = IF test_mode_is_open_ THEN [order EXCEPT ![w] = NoOrder] ELSE order
  /\ UNCHANGED <<manager, to_persist, records, test_mode_is_open_, subscription,
                 clock, stream, missed, ghosts, counts, posting>>

\* The last write of PlaceOrder, and its reply.
PersistSubmission(w) ==
  /\ pc[w] \in {"submitted", "submission error"}
  /\ PersistProgress(w, pc[w])
  /\ pc' = [pc EXCEPT ![w] = "idle"]
  /\ order' = [order EXCEPT ![w] = NoOrder]
  /\ UNCHANGED <<manager, to_persist, database, test_mode_is_open_, subscription,
                 clock, outside, placed, counts, posting>>

-----------------------------------------------------------------------------
\* The subscription thread has the engine register its stream.
Subscribe ==
  /\ subscription = "connecting"
  /\ subscription' = "open"
  /\ UNCHANGED <<manager, pc, order, to_persist, records, test_mode_is_open_,
                 clock, outside, ghosts, counts, posting>>

\* The engine cannot be reached, or the stream breaks: Read returns false
\* and the thread ends.  Nothing starts it again.
SubscriptionEnds ==
  /\ subscription \in {"connecting", "open"}
  /\ to_persist = <<>>
  /\ subscription' = "ended"
  /\ missed' = missed \o stream
  /\ stream' = <<>>
  /\ UNCHANGED <<manager, pc, order, to_persist, records, test_mode_is_open_,
                 clock, engine, ghosts, counts, posting>>

\* Two accepted orders trade.  Without a subscriber nobody hears of it.
EngineTrades ==
  /\ \E m, k \in engine :
       /\ m # k /\ m.left > 0 /\ k.left > 0
       /\ LET n == Min({m.left, k.left})
              t == [maker |-> m.id, taker |-> k.id, amount |-> n]
          IN /\ engine' = (engine \ {m, k})
                          \cup {[m EXCEPT !.left = @ - n], [k EXCEPT !.left = @ - n]}
             /\ IF subscription = "open"
                THEN stream' = Append(stream, t) /\ UNCHANGED missed
                ELSE missed' = Append(missed, t) /\ UNCHANGED stream
  /\ UNCHANGED <<manager, pc, order, to_persist, records, test_mode_is_open_,
                 subscription, clock, ghosts, counts, posting>>

\* Mutant of HandleMatchResult: a trade of unknown orders is waited with.
HandleWhenKnown ==
  /\ subscription = "open"
  /\ to_persist = <<>>
  /\ stream # <<>>
  /\ LET t == Head(stream)
         open == order_id_to_order_status_
         known == {t.maker, t.taker} \subseteq DOMAIN open
     IN /\ known
        /\ order_id_to_order_status_' = AfterMatch(open, t)
        /\ to_persist' = IF ~test_mode_is_open_
                         THEN <<MatchWrite(open, t, t.maker), MatchWrite(open, t, t.taker)>>
                         ELSE <<>>
  /\ stream' = Tail(stream)
  /\ UNCHANGED <<order_id_, pc, order, records, test_mode_is_open_, subscription,
                 clock, engine, missed, ghosts, counts, posting>>

\* A trade of which either order is unknown is logged and dropped.
HandleMatchResult ==
  /\ subscription = "open"
  /\ to_persist = <<>>
  /\ stream # <<>>
  /\ LET t == Head(stream)
         open == order_id_to_order_status_
         known == {t.maker, t.taker} \subseteq DOMAIN open
     IN /\ order_id_to_order_status_' = IF known THEN AfterMatch(open, t) ELSE open
        /\ to_persist' = IF known /\ ~test_mode_is_open_
                         THEN <<MatchWrite(open, t, t.maker), MatchWrite(open, t, t.taker)>>
                         ELSE <<>>
  /\ stream' = Tail(stream)
  /\ UNCHANGED <<order_id_, pc, order, records, test_mode_is_open_, subscription,
                 clock, engine, missed, ghosts, counts, posting>>

\* The subscription thread records what became of the maker, then the taker.
\* The write has all that the order has been concluded for, so that it makes
\* up for the writes that were lost.
PersistMatch ==
  /\ to_persist # <<>>
  /\ store' = PersistOrder(store, Head(to_persist))
  /\ to_persist' = Tail(to_persist)
  /\ lost' = lost \ {Head(to_persist).time}
  /\ UNCHANGED <<manager, pc, order, database, test_mode_is_open_, subscription,
                 clock, outside, ghosts, counts, io_thread, failures>>

\* The writer's buffer is posted (InfluxWriter), by its IO thread or by the
\* write that has filled it.
Flush ==
  /\ database # store
  /\ database' = store
  /\ UNCHANGED <<manager, pc, order, to_persist, store, test_mode_is_open_,
                 subscription, clock, outside, ghosts, counts, posting>>

\* What a failed post does to the writes: the batch may have been stored
\* nevertheless, and the buffer is cleared all the same.
BatchFails ==
  /\ database # store
  /\ database' \in {database, store}
  /\ store' = database'

\* The post fails, and the IO thread ends when it was its post.
PostFails ==
  /\ failures < MaxFailures
  /\ failures' = failures + 1
  /\ BatchFails
  /\ lost' = lost \cup {t \in DOMAIN store : t \notin DOMAIN store' \/ store'[t] # store[t]}
  /\ io_thread' \in {io_thread, "ended"}
  /\ UNCHANGED <<manager, pc, order, to_persist, test_mode_is_open_,
                 subscription, clock, outside, ghosts, counts>>

\* The process is killed and started again.  The counter and the map live in
\* memory only, like the writes not yet flushed; the engine keeps its orders.
\* Time goes by.
Restart ==
  /\ restarts < MaxRestarts
  /\ restarts' = restarts + 1
  /\ order_id_' = 0
  /\ order_id_to_order_status_' = <<>>
  /\ pc' = [w \in Worker |-> "idle"]
  /\ order' = [w \in Worker |-> NoOrder]
  /\ to_persist' = <<>>
  /\ store' = database
  /\ subscription' = "connecting"
  /\ missed' = missed \o stream
  /\ stream' = <<>>
  /\ clock' = clock + 1
  /\ io_thread' = "running"
  /\ UNCHANGED <<database, test_mode_is_open_, engine, ghosts, requests, lost, failures>>

-----------------------------------------------------------------------------
PlaceOrder(w) ==
  \/ SaveOrderStatus(w) \/ PersistUnsubmitted(w)
  \/ Match(w) \/ PersistSubmission(w)

Subscription == HandleMatchResult \/ PersistMatch

Next ==
  \/ \E w \in Worker : BuildOrder(w) \/ PlaceOrder(w)
  \/ Subscribe \/ SubscriptionEnds \/ Subscription
  \/ EngineTrades \/ Flush \/ PostFails \/ Restart

\* Threads that can run do run, and the IO thread posts what there is every
\* few seconds for as long as it runs; no request, trade, disconnection,
\* failure or restart has to happen.
Spec ==
  /\ Init /\ [][Next]_vars
  /\ \A w \in Worker : WF_vars(PlaceOrder(w))
  /\ WF_vars(Subscription)
  /\ WF_vars(io_thread = "running" /\ (Flush \/ PostFails))
-----------------------------------------------------------------------------
Status == {"unsubmitted", "submitted", "submission error",
           "partially concluded", "concluded"}
PC == {"idle", "save", "unsubmitted", "match", "submitted", "submission error"}

\* The types of the variables; the map keeps no order that has been filled.
TypeOK ==
  /\ order_id_ \in 0 .. MaxOrders
  /\ DOMAIN order_id_to_order_status_ \subseteq 1 .. MaxOrders
  /\ \A id \in DOMAIN order_id_to_order_status_ :
       /\ order_id_to_order_status_[id] \in [amount: Amount, time: 0 .. clock, concluded: Nat]
       /\ order_id_to_order_status_[id].concluded < order_id_to_order_status_[id].amount
  /\ pc \in [Worker -> PC]
  /\ \A w \in Worker :
       IF pc[w] = "idle" THEN order[w] = NoOrder
       ELSE order[w] \in [id: 1 .. MaxOrders, time: 0 .. clock, amount: Amount]
  /\ \A i \in DOMAIN to_persist :
       to_persist[i] \in [time: 0 .. clock, id: Nat, status: Status, concluded: Nat]
  /\ \A s \in {store, database} :
       /\ DOMAIN s \subseteq 0 .. clock
       /\ \A t \in DOMAIN s : s[t] \in [id: Nat, status: Status, concluded: Nat]
  /\ test_mode_is_open_ \in BOOLEAN
  /\ subscription \in {"connecting", "open", "ended"}
  /\ \A e \in engine : e \in [id: 1 .. MaxOrders, time: 0 .. clock, left: Nat]
  /\ \A s \in {stream, missed} : \A i \in DOMAIN s :
       s[i] \in [maker: 1 .. MaxOrders, taker: 1 .. MaxOrders, amount: Nat \ {0}]
  /\ placed \subseteq [id: 1 .. MaxOrders, time: 0 .. clock, amount: Amount]
  /\ overtaken \subseteq 0 .. clock
  /\ requests \in 0 .. MaxOrders
  /\ restarts \in 0 .. MaxRestarts
  /\ io_thread \in {"running", "ended"}
  /\ lost \subseteq 0 .. clock
  /\ failures \in 0 .. MaxFailures

\* What the manager has counted for an order: an order that is no longer
\* in the map has been concluded to its full amount.
Concluded(o) ==
  IF o.id \in DOMAIN order_id_to_order_status_
  THEN order_id_to_order_status_[o.id].concluded
  ELSE o.amount

\* Between restarts, the engine and the manager agree on every order: what
\* the manager has counted, what the stream still holds, what never came
\* and what the engine has left add up to the amount of the order.  So no
\* trade is counted twice, for the wrong order, or beyond the amount.
EveryTradeCounted ==
  \A o \in placed : \A e \in engine :
    e.id = o.id =>
      Concluded(o) + Credits(stream, o.id) + Credits(missed, o.id) + e.left = o.amount

\* Between restarts, every trade that arrives finds both of its orders: an
\* order is saved before the engine sees it, and stays until it is filled.
\* The error log at order_manager.cc:294 is never reached.
TradesFindOrders ==
  \A i \in DOMAIN stream :
    {stream[i].maker, stream[i].taker} \subseteq DOMAIN order_id_to_order_status_

\* All threads are at rest and the buffer is empty, or has nothing new in it.
Settled ==
  /\ \A w \in Worker : pc[w] = "idle"
  /\ stream = <<>> /\ to_persist = <<>>
  /\ database = store

\* The orders that have the time stamp, and with it the point, of another.
SharedTimes(orders) == {o.time : o \in {o \in orders : \E p \in orders \ {o} : p.time = o.time}}

\* Until the manager restarts, and forgets the orders, the database says at
\* rest of every order what the manager knows of it,
\* whichever posts have failed, unless it came at the same instant as another
\* one, or a trade was recorded before the last write of PlaceOrder, or a post
\* that failed has lost a write of it and no trade of it was recorded since.
\* (Once the IO thread has ended the buffer may never be posted again, and
\* then the manager is not at rest.)
RecordIsTrue ==
  restarts = 0 /\ Settled /\ ~test_mode_is_open_ =>
    \A o \in placed :
      o.time \notin overtaken \cup lost \cup SharedTimes(placed) =>
        /\ database[o.time].id = o.id
        /\ database[o.time].concluded = Concluded(o)
        /\ database[o.time].status \in
             IF Concluded(o) = 0 THEN {"submitted", "submission error"}
             ELSE {ConcludedStatus(o.amount, Concluded(o))}

\* The progress a record stands for.
Progress(r) ==
  CASE r.status = "unsubmitted" -> 0
    [] r.status \in {"submitted", "submission error"} -> 1
    [] OTHER -> 1 + r.concluded

\* In the database a record only advances and stays with its order, through
\* restarts and failed posts too, unless its order traded before its
\* submission was recorded or came at the same instant as another one.
RecordsOnlyAdvance ==
  [][\A t \in DOMAIN database :
       t \notin overtaken' \cup SharedTimes(placed') =>
         /\ t \in DOMAIN database'
         /\ database'[t].id = database[t].id
         /\ Progress(database'[t]) >= Progress(database[t])]_vars

\* The trades that reach the order manager get counted and recorded.
StreamDrains == []<>(stream = <<>> /\ to_persist = <<>>)

\* The documentation's meaning of a status: "submitted: the order has been
\* submitted to the match engine, no result yet".  At rest, an order whose
\* trades have been counted is not recorded as submitted.
SubmittedMeansNoResult ==
  Settled =>
    \A o \in placed :
      o.time \in DOMAIN database /\ database[o.time].status = "submitted"
        => Concluded(o) = 0

=============================================================================
