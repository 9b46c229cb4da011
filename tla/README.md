# CTE: TLA+ models, checks and proofs

This directory holds a formal model of the CDCF Trading Engine: TLA+ modules translated from the C++
sources, TLC configurations that check them on small instances, and theorems that the TLA+ proof
system checks for every value of the constants. `PROJECT.json` lists the components, the runs with
their properties, the source lines behind every definition (`map`), the hazards of the code with the
properties that guard against them, and the theorems. Paths below are relative to the repository.

    tlc -workers 2 -config MCMatchActor.cfg MCMatchActor     # a run
    tlapm MatchActorProofs.tla                               # the proofs

## 1. The system

An order travels

    request generator --PlaceOrder--> order manager --Match--> match engine node (gRPC service)
      --> router actor of that node --> match actor of the symbol (perhaps on another node)

and its trades travel back

    match actor --> result actor on the result host --> stream of every subscriber
      --> order manager (updates the records of the two orders)
      --> trade persistence tool (records the trade)

with InfluxDB as the store of orders and trades. The order generator fills the database with orders,
and the data verifier compares the trades of two measurements.

| Component | State | Operations | Talks to |
|---|---|---|---|
| match actor (`match_engine/src/match_actor.cc`) | `sell_list`, `buy_list`: lists of price levels, each a list of orders; `match_result_actor_` | handler of a `RawOrder`: match, rest the remainder, send the trades; handler that sets the result actor | gets messages of the router, sends to the result actor |
| engine cluster (`match_grpc_server.cc`, `match_engine_cluster.cc`, `symbol_id_router.cc`) | per router `symbol_actor_map_`, `node_symbol_map_`, `local_symbol_actors_`; the CAF mailboxes; where `caf_main` is; the switch `engine_is_open_` of each node | start of a node, cluster observer, `AddNewNode`, the six message handlers of the router, `Match`, `OpenCloseEngine` | CAF requests between nodes, cluster events |
| trade feed (`match_engine_grpc_impl.cc`, `match_result_sender_actor.cc`) | `match_result_writer_keepers`, a promise per call | `SubscribeMatchResult` on gRPC threads, `SendMatchResult` on the actor's thread | shares the vector without a lock |
| order manager (`order_manager/src/order_manager.cc`) | `order_id_`, `order_id_to_order_status_` under `mutex_` | `PlaceOrder` on gRPC threads, `HandleMatchResult` on the subscription thread, test mode | gRPC to the engine, `PersistOrder` to the store |
| record mode (`order_manager/src/order_manager.cc`) | `record_is_start_`, atomic amounts, three plain vectors of rows | `StartEndManager` and `PrintRecordResult` on gRPC threads, a detached thread of `RecordTracker`, the counting of `PlaceOrder` and `HandleMatchResult` | writes a report file |
| InfluxDB writer (`common/src/database_interface.cc`) | the buffer under `buffer_mutex`, the end flag | `write`, the IO thread, the destructor | HTTP post |
| request generator (`request_generator/src/generator.cc`) | the queues of its threads, shared totals under a mutex | read, deal out by symbol, send, count | `PlaceOrder` |
| data verifier (`data_verifier/src/`) | offset and remaining number, the loaded trades by symbol | three comparisons | queries |
| trade persistence tool (`trade_persistence_tool/src/`) | its writer | reads trades until the stream ends, stamps and writes them | the feed, the writer |
| order generator (`order_generator/src/create_orders.cc`) | its writer, without an IO thread | makes orders up and writes them, with time stamps counted from 0 | the writer |

### What is hard here

* **Long sequences of legal calls.** The order book edits two nested lists while it scans them; a
  level left empty, or an order put one place too far, shows only several orders later.
* **Interleavings.** `PlaceOrder` writes the record of an order before and after the call of the
  engine while the subscription thread writes the same record for its trades. Calls of `Match` of
  several threads are under way at a time. gRPC threads push into a vector that the sender actor
  iterates over. Two threads of a node run `AddNewNode`. A detached
  thread fills the vectors that another call prints and clears.
* **Crashes.** Order ids and open orders live in memory only; unflushed writes are lost; a node of
  the engine that restarts has new actors and must be routed to again.
* **Partial failure.** A post that fails clears the buffer and ends the IO thread; a call of the
  engine may have worked although its reply was lost; a lookup between routers may time out and is
  never repeated. A subscriber that stops reading holds up the actor that writes to all.
* **Ordering.** Orders of a symbol take different ways through the nodes.
* **Identity.** Points of the database are known by their time stamp only: of two orders or trades of
  one instant, or of two runs of the order generator, one replaces the other.
* **Numbers.** Orders of amount zero, limits of zero, the last turn of a paged comparison, an amount
  that is tested and then read again to divide by it.

### What makes each component correct

* *match actor*: price-time priority; the book is never crossed; no amount is lost; trades are
  reported once, in order; every handler ends.
* *engine cluster*: once the start or restart of a node has settled, every router knows the living
  actor of every symbol and every match actor the result actor; of the orders of a symbol, the one
  answered before the other was sent arrives first; a closed engine lets no order in but those whose
  calls were under way.
* *trade feed*: a connected subscriber gets every trade once and in order; no writer is used after its
  call has returned; the loop ends unless a subscriber that does not read holds it up.
* *order manager*: the amounts counted agree with the engine; every trade finds its orders; the map
  holds open orders only; records are right at rest, but for what failed posts have lost, and never
  fall back.
* *record mode*: reports add up and stay within their vectors; the totals are those of the recording,
  but for the calls under way; the trackers end.
* *InfluxDB writer*: every entity is posted once, and none is left behind at the end.
* *request generator*: the orders of a symbol stay in order; the totals are right.
* *trade persistence tool, order generator*: a trade is lost to one of the same instant only; what was
  generated is what is placed.
* *data verifier*: no false alarm; what is found equal agrees as far as it has been compared.

## 2. The modules

| Module | Models | Remarks |
|---|---|---|
| `LimitOrders` | orders, trades, the rules of one trade | shared by the next two |
| `PriceTimePriority` | what a match actor promises, with the book as a set | abstract specification |
| `MatchActor` | `match_actor.cc` | `Priority == INSTANCE PriceTimePriority WITH ...` |
| `MatchActorProofs` | proofs about `MatchActor`, its refinement, and what `OrderManager` supposes of it | section 6 |
| `OrderManager` | `order_manager.cc`, `order_store_influxdb.cc`, the subscription of `match_engine_stub_grpc.cc` | the engine is a set of accepted orders |
| `OrderManagerProofs` | proofs about `OrderManager` | section 6 |
| `InfluxWriter` | `database_interface.cc` | |
| `ResultFeed` | the result side of `match_engine_grpc_impl.cc` and the sender actor | |
| `ResultFeedProofs` | proofs about `ResultFeed` | section 6 |
| `EngineCluster` | `caf_main`, the cluster observer, the routers, the engine switches, round robin of the stubs | |
| `EngineClusterProofs` | proofs about `EngineCluster` | section 6 |
| `RecordMode` | `StartEndManager`, `RecordTracker`, `PrintRecordResult`, and what `PlaceOrder` and `HandleMatchResult` count | |
| `RecordModeProofs` | proofs about `RecordMode` | section 6 |
| `DataVerifier` | `data_verifier.cc`, the queries of `data_source_influxdb.cc` | |
| `DataVerifierProofs` | proofs about `DataVerifier` | section 6 |
| `RequestGenerator` | `generator.cc` | |
| `DatabasePrograms` | `trade_persistence_client.cc`, `trade_entity.cc`, `create_orders.cc`, `Influxdb_reader.cc` | composes `InfluxWriter` (EXTENDS) and `RequestGenerator` (INSTANCE) |
| `DatabaseProofs` | proofs about `InfluxWriter`, `RequestGenerator`, `DatabasePrograms`, and what `OrderManager` supposes of the writer | section 6 |
| `DataLemmas` | nothing: facts about sequences, sets and sums for the proofs | section 6 |
| `MC...` | model values and definitions for TLC | |

The names of the code are kept where TLA+ allows it. Definitions that say "Mutant of D" are variants
of D with a plausible bug in them; nothing refers to them but `mutants` in `PROJECT.json`, which pairs
each property with a variant that breaks it.

**MatchActor.** `table` holds both lists, `phase` says where the handler of an order is, and `taker`
is that order with what remains of it. The handler is split into the trades of its loops
(`TradeWithFront` = one `MakeTrade` with what the loops do after it), the insertion of the remainder
(`RestRemainder` = the end of the loops and `AddToOrderTable`) and `SendMatchResult`. CAF runs one
handler at a time, so nothing comes between these steps; they are split for the sake of properties
about the middle of a match. `unheard` remembers the trades that had been made when the receiver
became known, which the code drops. Because `MakeTrade` always empties one of the two orders, the iterators
of the loops stand at the first order of the first level whenever they are used, and they are not
modelled. An order of amount zero makes one trade of amount zero before the loops look at it.

**OrderManager.** Worker threads run `PlaceOrder` in the steps `BuildOrder`, `SaveOrderStatus` (under
`mutex_`), `PersistUnsubmitted`, `Match` and `PersistSubmission`; the subscription thread runs
`HandleMatchResult` (under `mutex_`) and then `PersistMatch` for each of the two records. `store` is
what the database will hold once the writer's buffer is posted, `database` what it holds; a point is
known by its time stamp, as `PersistOrder` writes no tags. A post succeeds (`Flush`) or fails
(`PostFails`): the batch may have been stored or not, the buffer is cleared, and the IO thread may have
ended, after which only a write that fills the buffer posts it. `lost` remembers the orders of
which a write went that way and no trade has been recorded since; the record of a trade has all that
the order has been concluded for, and makes up for what was lost. `Restart` loses everything but the
database and the engine. `ClockSteps` says how far the clock may move from one request to the next:
with 0 among them, two orders may have one time stamp, and one point.

**RecordMode.** A call of `StartEndManager` goes through the steps of the code (test, open, start the
tracker; print, stop, reset, clear), and a tracker through those of its round (test, sample, push,
log, divide), so that calls, trackers and counting threads meet in every way. The vectors are not
atomic: two threads in them at a time (`Race`) and a division by zero (`crashed`) end a behaviour.
`overlap` remembers whether a call came during another call or a round of a tracker, or a start
before the last tracker had ended; it is what the properties allow the loss to.

**InfluxWriter.** `buffer_mutex` is held over each critical section, the post included, so that each
is one action. `Post` clears the buffer whatever becomes of the post, and a post without an answer
may have been stored. `FlushAt` stands for the 10000 in `write`.

**ResultFeed.** `push_back` takes two steps, so that TLC can put one inside the other or inside the
loop of the sender actor. Releasing a call (`WriteFails`, `set_value`) and erasing its keeper
(`EraseKeeper`) are two steps, with `erasing` between them, in which the call may return while its
keeper is still in the vector. A client that is connected may stop reading and go on (`Stall`,
`Resume`); a write to it (`WriteBuffered`) returns or does not, as the buffers of gRPC have room or
not. `broken` is set where the C++ standard no longer says what happens; the
model stops there, and the properties speak of what comes before.

**EngineCluster.** Each node runs its `caf_main` (`Publish` to `Serve`), the observer, and a router
that handles one message of its mailbox per step. `Match` of the gRPC service tests the switch of
its node and delivers the order to the node's own router in a later step (`RouteMatched`), so that
`OpenCloseEngine` may come in between. `matching` is the set of the calls between the two: the threads
of the order manager make them at the same time, and they go on in any order. Each carries the orders
that had been answered when it was sent (`after`), which is all the order there is between threads.
`admitted` are the calls under way when the switch was closed, `stragglers` the orders delivered since
it was closed. `AddNewNode` is the steps `Ask`, `AddSymbols`, `Connect` and
`AddResultActor`, which both `main` and the observer go through. A request may fail for the node it is
sent to, and the lookup of the result actor (`Connect`) may fail although it is published, which
`unconnected` remembers: nobody repeats either. An actor is its node and that
node's incarnation, so that an actor of a node that has restarted is a dead one. What the cluster
library does (events, the list of members) is external and modelled from its use.

**DataVerifier, RequestGenerator.** One action per query and comparison, and one per loop round of a
thread.

**DatabasePrograms.** The writer with an IO thread belongs to the trade persistence tool, the one
without to the order generator: `enable_thread` tells which program it is. `entities` holds what each
entity of the writer says. What the order generator leaves in the database, with the orders of an
earlier run under the time stamps it has not reached (`OrderAt`), is what the request generator reads
(`database <- GetOrders`); it starts when the order generator has ended.

## 3. The runs

| Run | Question | Bounds | Distinct states |
|---|---|---|---|
| `match_actor` | Does the book keep its structure, lose nothing and implement price-time priority? | 4 orders, prices 1 to 3, amounts 0, 1, 3, the result actor set at any time | 972,496 |
| `order_manager` | Do counts, map and records agree with the engine? | 3 orders, 2 threads, test mode on and off | 1,032,691 |
| `order_manager_restart` | Are the records right where a post fails, do they survive a restart and orders of one instant, and is every trade dealt with? | 2 orders, 2 threads, 1 restart, 1 failed post, a clock that may stand still | 1,058,265 |
| `order_manager_submitted` | Does "submitted" mean that there is no result yet? (violated) | 2 orders | stops at the violation |
| `database_programs` | Is every entity posted once, is a trade lost to one of its instant only, are the orders placed those generated, each symbol in order? | 3 entities, posted at 2, any post or call failing; 3 symbols, 3 orders left by an earlier run or none, 2 threads, 2 servers | 305,630 |
| `result_feed` | Does who stays connected get every trade, and is no writer used too late? | 3 subscribers, 3 trades, each subscriber reading or not | 534,667 |
| `engine_cluster` | Do all nodes come to serve, and are the routes complete once starts and a restart have settled? | 2 nodes, 1 symbol, 1 restart, the requests it makes fail | 430,338 |
| `engine_cluster_orders` | Do orders of concurrent threads keep what order they have, does a closed engine stay closed, and are the match actors told the result actor when a request or lookup has failed? | 2 nodes, 1 symbol, 2 orders, 1 call of the switch, 1 failure | 1,230,831 |
| `engine_cluster_stubs` | The same order with the round robin over two nodes (violated) | 2 nodes, 2 orders | stops at the violation |
| `data_verifier` | Are equal data found equal, and does "equal" mean what was compared agrees? | sources of up to 4 and 3 trades, 4 kinds of trade, turns of 2 or all, 1 failed query | 2,052,447 |
| `record_mode` | Do reports add up, are totals right, does anything go wrong without an overlap, do trackers end? | one caller with 4 calls, 2 rounds; or two with 3 and 1, 1 round; 2 orders or trades recorded | 850,170 |
| `record_mode_latency` | Does a report show the latencies of its recording? (violated) | as `record_mode` | stops at the violation |

### Why the bounds are enough

* `match_actor`: three prices give a level better than, equal to and worse than a given one; four
  orders fill a level with two, put a better one before it and cross them; the amounts 1 and 3 give
  exact, partial and multiple fills, 0 the order that is no order. The theorems of section 6 lift all
  but `HandlerEnds` to any number.
* `order_manager`: an order can be filled by two others in two trades, as maker and as taker, while
  its own worker is still between the call of the engine and its last write, with a second worker in
  any of its steps.
* `order_manager_restart`: orders of one instant need two requests. One restart makes ids
  collide; a second would repeat the first. A post fails at any moment, may or may not be stored, and
  may end the IO thread; a trade that follows makes up for what was lost. What several failed posts
  and longer series of trades do to a record is proved (`RecordsAreTrue`).
* `database_programs`: a buffer posted at two is posted by `write`, with one more left to the thread or
  the end of the program. Three orders of an earlier run are more than, as many as or fewer than those
  of the next; of three symbols and two threads, one thread serves two symbols.
* `record_mode`: two recordings show what one leaves to the next, and two rounds what a row takes from
  the rows before; the second caller needs one call to meet each call of the first. With one worker
  thread, `CountsItsOrders` allows one order more than were sent, and two can be recorded.
* `result_feed`: with three subscribers one can leave before, at and behind the place of the loop, and
  the vector grows twice (capacity 1, 2, 4); with three trades a list of two is followed by another.
  Each subscriber may stop reading and go on at any step.
* `engine_cluster`: the protocol between two nodes is pairwise; the second one starts before, during
  and after each step of the first, and either restarts at each of its steps, with the requests under
  way to it failing or not. The symbol is on the node that is not the result host; on the result host
  the match actor is told by its own `main`.
* `engine_cluster_orders`: two calls are under way at once, or one is answered before the other; a
  switch that is closed once may be closed before, during and after each `Match`. The failure hits any
  request or lookup of the start. Restarts and failures together are left to the theorems
  `EveryActorIsKnown` and `EveryTradeHasAReceiver`, which have no bound.
* `data_verifier`: a turn of two entries over sources of one to four comes out even and uneven; two
  trades that differ in their orders only show that keys, not ids, are compared.

`CHECK_DEADLOCK FALSE` stands in every configuration whose system may really have nothing left to do
(all orders placed, the program ended, nobody connected). The match actor can always take the
message that names its receiver, and is checked for deadlock.

## 4. Fairness

* `MatchActor`: `WF(Handle)`. CAF runs a handler to its end once it has begun; nothing obliges an
  order to arrive.
* `OrderManager`: weak fairness of the steps of a worker inside `PlaceOrder`, of the subscription
  thread and, as long as the IO thread runs, of a post, successful or not (it posts every five
  seconds). None for requests, trades, failures, restarts or the end of the subscription.
* `RecordMode`: weak fairness of each tracker, a thread that spins until the recording ends. None for
  calls, orders or trades.
* `InfluxWriter` and `DatabasePrograms`: weak fairness of the IO thread, which only sleeps and posts, and of `Join`, which
  goes on as soon as the thread has ended. None for `Write` or `Destroy`.
* `ResultFeed`: weak fairness of the sender actor's loop, but not of its write to a client that is
  connected and does not read (`WriteBuffered`), which may wait for ever. The write to a client that
  reads or has gone returns. None for clients.
* `EngineCluster`: weak fairness of `System`, the steps of main threads, observers and routers and the
  end of a request, which CAF bounds by ten seconds, taken together: some of them goes on as long as
  any can. These steps come to an end by themselves, so that no thread needs fairness of its own. None
  for orders, switches or restarts.
* `DataVerifier` and `RequestGenerator` have no liveness properties and no fairness of their own.

## 5. Where documents and code differ

* **A concluded order can stay "submitted".** The document says of this status that there is no result yet; `PlaceOrder`
  writes it after `Match` has returned, over the record of a trade that came in between
  (`order_manager_submitted`). `RecordIsTrue` and `RecordsOnlyAdvance` therefore leave out orders in
  `overtaken`, those whose trade was recorded first, and show that nothing else goes wrong.
* **Round robin breaks time priority.** An order that is sent after another of its symbol has been
  answered reaches the match actor by way of another node, and may arrive first
  (`engine_cluster_stubs`). With one stub it cannot (`engine_cluster_orders`). Orders that two threads
  send at the same time have no order of their own, and may arrive in either with any number of stubs.
* **A second report has the latencies of the first.** `StartEndManager` clears the vectors of the
  amounts, but not that of the latencies, and the report goes through the three by one index
  (`record_mode_latency`).

Other behaviour of the code that the properties are stated around: after a node has restarted while
the main thread of another one was adding it, a late answer may replace the new actors by dead ones
(`overtaken` of `EngineCluster`); a request that timed out leaves the routes incomplete (hence
`timeouts = 0` in `RoutersComplete`; `ResultActorKnown` holds without it); a lookup of the published
result actor that fails leaves the match actors of that node without a receiver until the result host
restarts (`unconnected`); a post that fails loses the writes in the buffer, and may end the thread
that posts them (`lost` of `OrderManager`); a subscriber that does not read holds up all (`Blocked`);
the vector of keepers is misused when a
client subscribes at the wrong moment (`broken`); the last turn of the fully ordered comparison reads
past the end of the second source when the first is longer (`ReadsInBounds` says that it is only
then); trades made before the result actor is known are dropped; the data verifier compares as many
entries as the smaller source has, only logs the rest, and so finds an empty source equal to any; a
MANAGER_END during a round of the tracker may divide by zero or meet it in a vector, and a
MANAGER_START soon after it leaves two trackers running (`overlap`); a restart of a node opens its
engine again; orders and trades of one instant replace each other, and the order generator leaves the
orders of a longer earlier run in the database, to be placed with its own.

## 6. What is proved

The proofs are in modules of their own; tlapm checks them to the last leaf. They rest on nothing but
the named ASSUMEs on the constants: prices are integers; amounts are natural numbers, those of the
order manager positive (it counts an order as concluded once nothing is left); the bounds are natural
numbers and `FlushAt` is positive; `Home` gives each symbol a node, the symbols are finitely many and
there is a stub; what an earlier run left are symbols, and there are threads and order managers to
send with; a trade of the data verifier has its three fields; the threads of record mode are finitely many, and none of them is the subscriber. TLC
evaluates them in the runs. The bounds (`MaxOrders`, `MaxRestarts`, ...) are arbitrary, so that a
theorem speaks of any number of orders, restarts and so on, and `Client`, `Worker`, `Caller`, `Node`
are arbitrary sets. Theorems that bound restarts or stubs state so in their text.

Every safety proof has one shape: an inductive invariant, a lemma that it holds at the start, one
lemma per action that the action keeps it, and a theorem per property that it implies.
Each invariant was first an INVARIANT of the component's run (that of the routers also of
simulations with three nodes and three restarts), and only then proved.

**MatchActorProofs**, for every set of prices and amounts and any number of orders:

| Theorem | Says |
|---|---|
| `TypeCorrect` | `Spec => []TypeOK` |
| `LevelsAlwaysWellFormed` | no empty level, one price and one side per level, no order at zero: `order_list.begin()` is always defined |
| `PricePriority` | levels stand strictly from best to worst |
| `TimePriority` | orders of a level stand in the order of arrival |
| `BookNeverCrossed` | the best bid stays below the best ask, during a match too |

They follow from one inductive invariant, `BookInv`: types, the order of the book (`Ordered`), `NotCrossed`, and
`Arrivals`, which says that the orders in the book are among those received and that, while an order is being
matched, it came later than every order in the book. None of the five is inductive without the others: time priority
at an insertion needs `Arrivals`; that the remainder does not cross the other side needs that the
first level decides for all, which is price priority; and that the trade removes the front order
needs levels that are not empty. The argument goes through what the operations do to a table level by
level (`AfterTradeFacts`, `JoinsLevel` and the lemmas around them), on facts about sequences in
`DataLemmas`, and then has one lemma per action.

The rest of the module is about what the book makes of what has arrived:

| Theorem | Says |
|---|---|
| `NothingLostOrCreated` | the rest of an order and its trades add up to the amount it came with |
| `LimitsRespected` | every trade respects both limits, and its maker came first |
| `PartlyFilledStaysFirst` | an order that has begun to trade is not overtaken in its level |
| `NoTradeLostOnTheWay` | before the receiver is known nothing is sent; the trades made since then are those sent, in their order, and after them those of the order being handled: none is lost or sent twice |
| `ImplementsPriority` | `Spec` implements price-time priority: each trade is a step of `PriceTimePriority`, every other step changes nothing there |

`HistoryInv` adds to `BookInv` the first four, that a taker which has begun to trade finds no level of
its own price to rest behind (`NoPeers`). The refinement needs, beyond `BookInv`,
what the tables hold as a set (`OrdersOf`) and that the front order of the first level is the one the
abstract rule chooses, which is price and time priority again. Two more theorems build on `HistoryInv`:

| Theorem | Says |
|---|---|
| `HandlerCountsDown` | each step of the handler lowers `StepsLeft`, a natural number of at most one more than the orders received, and the handler never waits (`NeverStuck`) |
| `EngineAsSupposed` | without orders of amount zero, what `OrderManager` sees of the actor are orders accepted and steps of its own action `EngineTrades` |

The first is the part of `HandlerEnds` that is not fairness: a maker is either used up or the last one
of its run (`MakersGone`), so that the makers of a run are different orders that arrived before its
taker; and `AddToOrderTable` finds a place in every table. The second closes the gap between the two
models: what `OrderManager` supposes of the engine, from which its theorems are proved, is what the match actor does.
Orders of amount zero, which `OrderManager` leaves out, are why the theorem has a hypothesis: they
make a trade of amount zero.

**DatabaseProofs**, for every buffer limit and any number of entities, orders, symbols, threads and
order managers:

| Theorem | Says |
|---|---|
| `EveryEntityPostedOnce` | in the buffer or posted, never both, the latest ones in order |
| `WriterLeavesNothingBehind` | a writer that has ended without a failed post has stored everything |
| `TradesAreStored` | the trade persistence tool loses a trade to one of its own instant only |
| `OrdersKeepTheirOrder` | the orders of a symbol arrive in the order of the database, each at most once, whatever calls fail |
| `TotalsAreRight` | the totals reported are the requests that succeeded, and every order selected has been sent |
| `EveryOrderPlacedOnce` | when all posts and requests have worked, what was generated is placed, once, and beyond it only what an earlier, longer run had left |
| `DestructorCountsDown` | a destructor that waits ends after at most five steps of the IO thread and its own |
| `WriterDoesAsSupposed` | what `OrderManager` sees of the writer are writes of single points, steps of its own action `Flush`, and, for a post that fails, what its action `PostFails` does to the writes (`BatchFails`) |

The first two and `DestructorCountsDown` hold of the writer alone (`Spec`) and in the programs (`ProgramsSpec`). The invariant
`WriterInv` adds to `PostedOnce` who may still write (`EndsInOrder`: the flag is only
raised by an owner that has stopped writing) and what holds when nobody is left to post the buffer
(`NobodyLeftToPost`). The second is what `CheckEnd` is about: the mutex is free between the scan and
the test of the flag, so that the test must look at the buffer again. `EntitiesInv` says what the
entities are, by their numbers; the two together are `WritingInv`. `SendingInv` is the invariant of the request generator: the orders selected
are dealt out in order (`DealtInOrder`); each queue goes up and holds orders of its thread's symbols only
(`QueuesOrdered`); what a thread has placed goes up, and comes before all it still has to send
(`PlacedOrdered`); no order gets lost (`AllSent`: what is sent, queued and still to be dealt adds up);
and the totals are those of the threads that have finished (`Counted`).
The query sorts by time: `GetOrders` takes the k-th time as the one that k - 1 times
come before, and a bijection between times and ranks gives its length and its elements.

`WriterDoesAsSupposed` is the counterpart of `EngineAsSupposed` for the other side of the order manager:
with `ToStore`, the latest points of the entities stored or in the buffer, and `Stored`, those of the
entities stored, for `store` and `database`. A write that fills the buffer is a write and a post in one.

**DataVerifierProofs**, for any trades, sources, turns and numbers of failed queries:

| Theorem | Says |
|---|---|
| `SameIsEqual` | the same data are found equal, in the sense of each mode |
| `EqualAgrees` | data found equal agree as far as they have been compared |
| `OutOfBoundsOnlyUneven` | the second source is read past its end only if the first is longer and the turns do not divide its number of trades |

The invariant, `VerifierInv`, says, as long as no query has failed, where the comparison stands
(`Begins`; `Measured`: what remains is the smaller number of trades without the offset; `EvenTurns`: the
offset is a multiple of the turn's size) and that an inconsistency has been found exactly when there is
one in the part already compared (`FlagIsTrue`). The mode that goes symbol by symbol needs counting.
`BySymbol` takes the k-th value of a symbol from the position that k - 1 positions of the symbol come
before; `RanksGrow` and `EveryRank` show that positions and ranks correspond one to one, and with that
`KeysCounted` that a key is as frequent among the values as in the data. If a key were left unmatched in
the first list only, every place that has it in the second would have it in the first, and one more
(`SameKeysAgree`): the same data have no such key.

**OrderManagerProofs**, for any number of workers and orders and all amounts and clock steps:

| Theorem | Says |
|---|---|
| `TypeCorrect` | `Spec => []TypeOK`; no filled order stays in the map |
| `TradesAddUp` | until a restart, what is counted, under way, missed and left add up for every order |
| `OrdersAlwaysFound` | until a restart, every trade finds both of its orders |
| `RecordsAdvance` | `Spec => RecordsOnlyAdvance`, restarts and failed posts included |
| `RecordsAreTrue` | until a restart, records at rest say what became of their orders, whatever posts fail, but for the orders in `lost`, `overtaken` or of one instant |

`restarts = 0` stands in the second and the third theorem, and in `RecordIsTrue` itself, because these
properties say "until a restart": after one the map is empty and ids start again. `CountingParts` is what makes the accounts inductive: an id is
given out once (`IdsGivenOut`, `SavedOnce`), the engine knows an order only after the map does
(`EngineKnows`), and map, stream and engine agree. The records rest on a second invariant,
`RecordsInv`, which relates the three places where a record can be: in a write to come, in `store` and
in `database`; each is not behind the next, and none ahead of the map (`MapNotBehind`,
`DatabaseNotAhead`). `DatabaseBehind` says that a point of the database is not ahead of the one that is to
be stored, and has its order, so that a post that fails can take `store` back to it. `TrueUntilRestart` adds to the two what the record of each order says, and what
the writes for it that are still to come will say; an order leaves `lost` with the next record of a
trade, which does not build on what the earlier ones have stored.

**RecordModeProofs**, for any number of callers, workers, trackers and rounds:

| Theorem | Says |
|---|---|
| `OrdersAreCounted` | the total sent differs from that of the orders recorded by at most one per thread |
| `OnlyOverlapLoses` | without an overlap no two threads meet in the vectors, and none divides by zero |
| `RowsAddUpToTotals` | the vectors stay in step; the rows of a report add up |

`CountInv` counts the threads between their test and their count. `RecordInv` says, as long as nothing
has overlapped, which thread may be where (`Orderly`) and what the lists then hold (`RowsRecorded`,
`RowsCleared`); once something has, only that the lists stay in step.

**ResultFeedProofs**, for any number of subscribers and trades:

| Theorem | Says |
|---|---|
| `WritersStayAlive` | every keeper in the vector belongs to a call that waits, but the one about to be erased, which is not written to again |
| `NothingMissed` | a connected keeper has been sent every trade since it joined, once and in order, whoever stops reading |

`FeedInv` adds that a client is in the vector at most once, has read nothing before, that the list
being sent holds the latest trades, and that the loop stands at the keeper it has released until it has
erased it (`Released`); the proof follows the places of the keepers when one is taken out.

**EngineClusterProofs**, for any number of nodes, symbols, orders, restarts and failed requests:

| Theorem | Says |
|---|---|
| `ClosedStaysClosed` | a closed engine lets in no orders but those whose calls were under way, any number of them |
| `OneStubKeepsTheOrder` | with one stub (`Len(Stubs) = 1`), no order arrives before one of its symbol that had been answered when it was sent, however many threads send |
| `EveryActorIsKnown` | `Spec => []RoutersComplete`: no start, restart or order of messages leaves a router without a living actor |
| `EveryTradeHasAReceiver` | `Spec => []ResultActorKnown`: every match actor is told the living result actor, whatever requests for symbols fail, unless the last lookup of the result actor failed on its node |

The hypothesis of the second is the finding of section 5: with two stubs it is false. Its invariant
(`OneWay`) follows the order along its one way, from the calls over the mailbox of the stub's router to
that of the next and into the book: an order answered is past the calls, and what is sent later stays
behind it. The last two are
statements about a system at rest; what makes them inductive is to say, at any moment, where the news
of an actor is. `WillKnow` follows it: the last word of the cluster about its node is an event not yet
taken; or a thread looks that node up, with a request in a mailbox behind which no message follows
that would make its answer stale; or the answer is in the mailbox of the router with nothing behind it
that takes it back; or the router has it. Each step moves the news from one of these to
another. `GetsAwaited`, `GetsPast`, `StaleObserver` and `StaleMain` say which requests and answers can
be left over from before a restart, and are why `overtaken` is needed and is enough. `WillBeTold` does
the same for the result actor. It needs no `timeouts = 0`: a request that timed out leaves the routes
of that node incomplete, but `AddNewNode` looks up the result actor in any case; only where this lookup
itself has failed (`unconnected`) does the news end.

**DataLemmas** holds what these proofs share: sequences element by element, what a sequence holds last
or before what (`LastIn`, `AllBefore`, `AtMostOne`), induction and sums. The induction theorems of the
library take a predicate as a parameter, which the provers cannot instantiate; induction here is over a
set of numbers or of subsets of a finite set, from the well-founded orders of the library.
With it the recursive functions of the community modules (`FoldFunction` and what is built from it)
have their values proved, too.

Only model-checked: the liveness properties (`HandlerEnds`, `StreamDrains`, `TrackersEnd`,
`ListsGetSent`, `EveryNodeServes`, `EveryEntityPosted`, `DestructorEnds`), which need fairness and
ENABLED, beyond the provers; of the first and the last, all but that is proved (`HandlerCountsDown`,
`DestructorCountsDown`). Every invariant and action property
that a run checks, and the refinement of `PriceTimePriority`, has its theorem. `LimitsRespected` and
`TotalsAreRight` are proved only. The three runs that
end in a violation show what is not a theorem.

## 7. What is not modelled

* The values of the latencies in the **record mode**, with their sum, minimum and maximum: the two last
  are updated by a test and a store, so that one of two calls at once may be forgotten.
* Of the **order generator** the prices, users and amounts it makes up, and the creation of the
  database; of the **request generator** its configuration and a query without a result; of the **data
  verifier** the parsing of JSON, a database that cannot be reached at all, a turn of 0 entries (with
  which its loop does not end), and `CompareTradeJson`, which only the tests call.
* Negative amounts and prices outside the type: no handler rejects them; the generators do not make
  them.
* The single-threaded `scoped_actor` used by several threads: undefined behaviour inside the library.
* Configuration, command lines, logging, wire formats, deployment, mocks and tests.
* The vendored headers `json.hpp`, `cxxopts.hpp` and `influxdb.hpp` in `common/include`: third-party
  code, and more lines than the rest of the repository together. The programs only parse with them and
  post and query through them; the post is `Post` of `InfluxWriter`.

## 8. Plan

What is modelled follows the components of section 1; every safety property of the runs is proved. What
could follow, in the order of its worth:

1. The feed as `OrderManager` supposes it: `ResultFeed`, for one client, as the stream and the missed trades.
   A trade that is being sent while the client joins is missed or not by what happens later, so that
   the mapping needs a prophecy of it.
2. The part without fairness of the other liveness properties, as `HandlerCountsDown` and
   `DestructorCountsDown` have it: first the start of a node (`EveryNodeServes`), whose steps come to an end by
   themselves.
3. A negative amount, once a handler says what is to become of it.

Runs are merged rather than added: a new property joins the run that already has the states it
speaks of.
