-------------------------- MODULE DatabasePrograms --------------------------
(***************************************************************************)
(* The programs around the database, each with the writer of InfluxWriter: *)
(*   - the trade persistence tool (trade_persistence_client.cc), which     *)
(*     reads trades off the stream of a match engine until it ends, with   *)
(*     an IO thread;                                                       *)
(*   - the order generator (create_orders.cc), which makes orders up,      *)
(*     without an IO thread, and after it the request generator            *)
(*     (RequestGenerator), which places what it finds in the database.     *)
(*                                                                         *)
(* Points have no tags: of two with the same time stamp, the database      *)
(* keeps the one that came last.  An earlier run of the order generator    *)
(* may have left its orders, at the times that the next run uses again.    *)
(***************************************************************************)
EXTENDS InfluxWriter, SequencesExt, TLC

CONSTANTS
  Symbol,
  Earlier,          \* what an earlier run may have left: sequences of symbols
  MaxOrders,        \* bound on the orders in the database
  NumOfOrders,
  num_of_threads_,
  Servers

ASSUME EarlierAssumption == Earlier \subseteq Seq(Symbol)

ASSUME NumbersAssumption ==
  /\ MaxOrders \in Nat
  /\ num_of_threads_ \in Nat \ {0} /\ Servers \in Nat \ {0}
  /\ NumOfOrders \subseteq Nat \cup {-1}

VARIABLES
  entities,         \* what has been given to write()
  earlier,          \* the orders that were in the database before
  clock,            \* the clock of the trade persistence tool
  num_of_orders_, main, orders_, symbol_to_thread_, thread_num_now,
  orders_for_thread_, server_index, count_each_server, finished,
  requests_count_, count_each_server_, placed, succeeded

sending == <<num_of_orders_, main, orders_, symbol_to_thread_, thread_num_now,
             orders_for_thread_, server_index, count_each_server, finished,
             requests_count_, count_each_server_, placed, succeeded>>
all == <<vars, entities, earlier, clock, sending>>

\* Only the trade persistence tool leaves enable_thread at its default.
TradeTool == enable_thread

-----------------------------------------------------------------------------
\* Mutant of TimeStamp: a trade is stamped with the time of its order.
TimeOfOrder(e) == IF TradeTool THEN e.submit_time ELSE e.i

\* TradeEntity::to_entity reads the clock; create_orders counts.
TimeStamp(e) == IF TradeTool THEN e.now ELSE e.i

\* The entities that the database still has: no later one took their place.
Points ==
  {i \in database : \A j \in database : j > i => TimeStamp(entities[j]) # TimeStamp(entities[i])}

\* The symbol of the order at each time that has one.
OrderAt ==
  [t \in {i - 1 : i \in database \cup DOMAIN earlier} |->
     IF t + 1 \in database THEN entities[t + 1].symbol ELSE earlier[t + 1]]

\* select * from orders order by time
GetOrders ==
  IF TradeTool THEN <<>>
  ELSE LET times == DOMAIN OrderAt
       IN [k \in 1 .. Cardinality(times) |->
             OrderAt[CHOOSE t \in times : Cardinality({s \in times : s < t}) = k - 1]]

Requests == INSTANCE RequestGenerator WITH database <- GetOrders

-----------------------------------------------------------------------------
ProgramsInit ==
  /\ Init
  /\ entities = <<>>
  /\ clock = 0
  /\ earlier \in IF TradeTool THEN {<<>>} ELSE Earlier
  /\ Requests!Init

\* PersistTrades reads the next trade and writes it.  Several trades of one
\* order have its submit_time; the clock need not have moved on.
ReadTrade ==
  /\ TradeTool
  /\ Write
  /\ clock' \in {clock, clock + 1}
  /\ \E submit_time \in 0 .. 1 :
       entities' = Append(entities, [now |-> clock', submit_time |-> submit_time])
  /\ UNCHANGED <<earlier, sending>>

\* create_orders makes up the next order and writes it.
CreateOrder ==
  /\ ~TradeTool
  /\ Write
  /\ \E s \in Symbol : entities' = Append(entities, [i |-> written, symbol |-> s])
  /\ UNCHANGED <<earlier, clock, sending>>

\* The stream has ended, or all orders have been made up: main returns.
MainReturns == (Destroy \/ Join) /\ UNCHANGED <<entities, earlier, clock, sending>>

WriterThread == IOThread /\ UNCHANGED <<entities, earlier, clock, sending>>

\* The request generator runs once the order generator has.
PlaceRequests ==
  /\ ~TradeTool
  /\ owner = "gone"
  /\ UNCHANGED <<vars, entities, earlier, clock>>
  /\ Requests!Next

ProgramsNext ==
  \/ ReadTrade \/ CreateOrder
  \/ MainReturns \/ WriterThread
  \/ PlaceRequests

\* As in InfluxWriter; nothing obliges a trade, an order or a request.
ProgramsSpec ==
  ProgramsInit /\ [][ProgramsNext]_all /\ WF_vars(IOThread) /\ WF_vars(Join)

-----------------------------------------------------------------------------
\* When the trade persistence tool has ended and no post has failed, every
\* trade that it has read is in the database, or another one that it has
\* read at the same instant of its clock.
EveryTradeStored ==
  TradeTool /\ owner = "gone" /\ failed = {} =>
    \A i \in 1 .. written :
      \E j \in Points : j >= i /\ entities[j].now = entities[i].now

\* When the order generator's posts and all requests have worked, the order
\* managers have got every order generated, once, and beyond them only what
\* an earlier and longer run had left.
PlacedAsGenerated ==
  main = "report" /\ num_of_orders_ = -1 /\ failed = {} /\ succeeded = Len(GetOrders) =>
    /\ Range(placed) = DOMAIN GetOrders
    /\ Len(placed) = IF written >= Len(earlier) THEN written ELSE Len(earlier)
    /\ \A i \in 1 .. written : GetOrders[i] = entities[i].symbol
    /\ \A i \in written + 1 .. Len(placed) : GetOrders[i] = earlier[i]

SymbolsInOrder  == Requests!SymbolsInOrder
RequestsCounted == Requests!RequestsCounted
=============================================================================
