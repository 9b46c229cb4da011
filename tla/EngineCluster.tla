--------------------------- MODULE EngineCluster ---------------------------
(***************************************************************************)
(* The nodes of the match engine and how orders find the actor of their    *)
(* symbol (match_engine/src/match_grpc_server.cc, match_engine_cluster.cc, *)
(* symbol_id_router.cc, Match and OpenCloseEngine of                       *)
(* match_engine_grpc_impl.cc).  Each node runs a router actor that handles *)
(* one message at a time, and has an engine switch of its own.  When a     *)
(* node starts, and when the cluster (external) reports another one,       *)
(* AddNewNode asks the other router for its local symbols and, of the      *)
(* result host, for the actor that receives the trades.  Two threads may   *)
(* run AddNewNode: main, for the members there are, and the observer.      *)
(*                                                                         *)
(* The threads of the order manager send orders round robin over its stubs *)
(* (match_engine_stub_grpc.cc), and a node runs each call of Match on a    *)
(* gRPC thread of its own.  An actor is known by its node and that node's  *)
(* incarnation.                                                            *)
(***************************************************************************)
EXTENDS Integers, Sequences, FiniteSets, Functions, SequencesExt

CONSTANTS
  Node,
  Symbol,
  Home,          \* the node of which symbol_id_list names the symbol
  ResultHost,    \* the node with the role of result host
  Stubs,         \* request_stubs_: the nodes that orders are sent to
  MaxOrders,     \* bound on the orders
  MaxRestarts,   \* bound on the restarts of nodes
  MaxTimeouts,   \* bound on the requests and lookups that fail for a node
                 \* that is there
  MaxSwitches    \* bound on the calls of OpenCloseEngine

ASSUME HomeAssumption  == Home \in [Symbol -> Node] /\ ResultHost \in Node
ASSUME SymbolAssumption == IsFiniteSet(Symbol)
ASSUME StubsAssumption == Stubs \in Seq(Node) /\ Stubs # <<>>
ASSUME BoundAssumption == {MaxOrders, MaxRestarts, MaxTimeouts, MaxSwitches} \subseteq Nat

VARIABLES
  pc,                 \* where caf_main of each node is
  incarnation,        \* number of restarts of each node
  inbox,              \* the mailbox of each router
  local_symbols,      \* local_symbol_actors of each router
  symbol_actor_map,   \* of each router: symbol -> actor
  node_symbol_map,    \* of each router: node -> the symbols added for it
  observing,          \* whether AddObserver has been called
  events,             \* cluster events not yet handled by the observer
  members,            \* members that main has still to add
  lookup,             \* the AddNewNode each thread of a node is in
  match_result_actor, \* per symbol, the result actor its match actor knows
  arrived,            \* per symbol, the orders that came to its match actor
  orders,             \* number of orders sent
  matching,           \* the calls of Match that have found their engine open
  answered,           \* history: the orders whose Match has been answered with
                      \* success
  engine_is_open_,    \* the switch of each node
  switches,           \* number of calls of OpenCloseEngine
  stragglers,         \* history: the orders that each router got since its
                      \* engine was last closed
  admitted,           \* history: the orders whose calls were under way on each
                      \* node when its engine was last closed
  timeouts,           \* number of failed requests and lookups
  unconnected,        \* history: nodes whose last lookup of the result actor
                      \* has failed although it was published
  overtaken           \* history: nodes whose main thread was adding a member
                      \* at the moment it restarted

routers == <<inbox, local_symbols, symbol_actor_map, node_symbol_map, match_result_actor>>
cluster == <<pc, incarnation, observing, events, members>>
switch  == <<engine_is_open_, switches, stragglers, admitted>>
flow    == <<arrived, orders, matching, answered, switch>>
failure == <<timeouts, unconnected>>
vars    == <<routers, cluster, lookup, flow, failure, overtaken>>

Thread == {"main", "observer"}
None == <<>>

Actor(n) == [node |-> n, incarnation |-> incarnation[n]]

LocalSymbols(n) == {s \in Symbol : Home[s] = n}

\* Map m with value v at key k.
Put(m, k, v) == [x \in DOMAIN m \cup {k} |-> IF x = k THEN v ELSE m[x]]

\* Messages to a router, one after the other.
Deliver(n, messages) == inbox' = [inbox EXCEPT ![n] = @ \o messages]

-----------------------------------------------------------------------------
Init ==
  /\ pc = [n \in Node |-> "publish"]
  /\ incarnation = [n \in Node |-> 0]
  /\ inbox = [n \in Node |-> <<>>]
  /\ local_symbols = [n \in Node |-> {}]
  /\ symbol_actor_map = [n \in Node |-> <<>>]
  /\ node_symbol_map = [n \in Node |-> [m \in Node |-> <<>>]]
  /\ observing = [n \in Node |-> FALSE]
  /\ events = [n \in Node |-> <<>>]
  /\ members = [n \in Node |-> {}]
  /\ lookup = [n \in Node |-> [t \in Thread |-> None]]
  /\ match_result_actor = [s \in Symbol |-> None]
  /\ arrived = [s \in Symbol |-> <<>>]
  /\ orders = 0
  /\ matching = {}
  /\ answered = {}
  /\ engine_is_open_ = [n \in Node |-> TRUE]
  /\ switches = 0
  /\ stragglers = [n \in Node |-> {}]
  /\ admitted = [n \in Node |-> {}]
  /\ timeouts = 0
  /\ unconnected = {}
  /\ overtaken = {}

\* caf_main publishes the router ...
Publish(n) ==
  /\ pc[n] = "publish"
  /\ pc' = [pc EXCEPT ![n] = "register"]
  /\ UNCHANGED <<routers, incarnation, observing, events, members, lookup, flow, failure, overtaken>>

\* ... spawns the local match actors and sends them to the router, and on
\* the result host the result actor after them ...
Register(n) ==
  /\ pc[n] = "register"
  /\ Deliver(n, SetToSeq({[type |-> "local", symbol |-> s] : s \in LocalSymbols(n)})
                \o (IF n = ResultHost THEN <<[type |-> "result", actor |-> Actor(n)]>>
                    ELSE <<>>))
  /\ pc' = [pc EXCEPT ![n] = "observe"]
  /\ UNCHANGED <<local_symbols, symbol_actor_map, node_symbol_map, match_result_actor,
                 incarnation, observing, events, members, lookup, flow, failure, overtaken>>

\* ... calls AddObserver ...
AddObserver(n) ==
  /\ pc[n] = "observe"
  /\ observing' = [observing EXCEPT ![n] = TRUE]
  /\ pc' = [pc EXCEPT ![n] = "notify"]
  /\ UNCHANGED <<routers, incarnation, events, members, lookup, flow, failure, overtaken>>

\* Mutant of Tell: a node listens only once it has added the members.
TellServing(n, status) ==
  events' = [m \in Node |-> IF m # n /\ observing[m] /\ pc[m] = "serve"
                            THEN Append(events[m], [status |-> status, node |-> n])
                            ELSE events[m]]

\* The cluster tells the observers of the other nodes.
Tell(n, status) ==
  events' = [m \in Node |-> IF m # n /\ observing[m]
                            THEN Append(events[m], [status |-> status, node |-> n])
                            ELSE events[m]]

\* ... lets the cluster announce the node ...
NotifyReady(n) ==
  /\ pc[n] = "notify"
  /\ Tell(n, "up")
  /\ pc' = [pc EXCEPT ![n] = "members"]
  /\ UNCHANGED <<routers, incarnation, observing, members, lookup, flow, failure, overtaken>>

\* ... and asks it for the members that are there already: the nodes that it
\* has announced, and perhaps others.
GetMembers(n) ==
  /\ pc[n] = "members"
  /\ \E there \in SUBSET (Node \ {n}) :
       /\ {m \in Node \ {n} : pc[m] \in {"members", "add", "serve"}} \subseteq there
       /\ members' = [members EXCEPT ![n] = there]
  /\ pc' = [pc EXCEPT ![n] = "add"]
  /\ UNCHANGED <<routers, incarnation, observing, events, lookup, flow, failure, overtaken>>

\* The gRPC service starts when all members have been added.
Serve(n) ==
  /\ pc[n] = "add"
  /\ members[n] = {} /\ lookup[n]["main"] = None
  /\ pc' = [pc EXCEPT ![n] = "serve"]
  /\ UNCHANGED <<routers, incarnation, observing, events, members, lookup, flow, failure, overtaken>>

-----------------------------------------------------------------------------
\* AddNewNode(m): the request for the local symbols is sent, unless the
\* router of m is not published yet.
Ask(n, t, m) ==
  /\ lookup' = [lookup EXCEPT ![n][t] =
                  [actor |-> Actor(m), symbols |-> {},
                   state |-> IF pc[m] = "publish" THEN "failed" ELSE "asked"]]
  /\ IF pc[m] = "publish" THEN UNCHANGED inbox
     ELSE Deliver(m, <<[type |-> "get", from |-> Actor(n), thread |-> t]>>)

AddMember(n) ==
  /\ pc[n] = "add"
  /\ lookup[n]["main"] = None
  /\ \E m \in members[n] :
       /\ members' = [members EXCEPT ![n] = @ \ {m}]
       /\ Ask(n, "main", m)
  /\ UNCHANGED <<local_symbols, symbol_actor_map, node_symbol_map, match_result_actor,
                 pc, incarnation, observing, events, flow, failure, overtaken>>

\* The observer has the router forget a node that is down ...
UpdateDown(n) ==
  /\ lookup[n]["observer"] = None
  /\ events[n] # <<>> /\ Head(events[n]).status = "down"
  /\ Deliver(n, <<[type |-> "remove", host |-> Head(events[n]).node]>>)
  /\ events' = [events EXCEPT ![n] = Tail(@)]
  /\ UNCHANGED <<local_symbols, symbol_actor_map, node_symbol_map, match_result_actor,
                 pc, incarnation, observing, members, lookup, flow, failure, overtaken>>

\* ... and adds one that is up.
UpdateUp(n) ==
  /\ lookup[n]["observer"] = None
  /\ events[n] # <<>> /\ Head(events[n]).status = "up"
  /\ Ask(n, "observer", Head(events[n]).node)
  /\ events' = [events EXCEPT ![n] = Tail(@)]
  /\ UNCHANGED <<local_symbols, symbol_actor_map, node_symbol_map, match_result_actor,
                 pc, incarnation, observing, members, flow, failure, overtaken>>

\* The router of m cannot be connected to, or the request fails: the node has
\* restarted, or the ten seconds are over.  This is logged, and never tried
\* again.  (A request of a router that was not reached is not waited for, and
\* RouteGet drops its answer.)
RequestFails(n, t) ==
  /\ lookup[n][t] # None /\ lookup[n][t].state = "asked"
  /\ LET m == lookup[n][t].actor.node
         pending == \E i \in DOMAIN inbox[m] :
                      inbox[m][i] = [type |-> "get", from |-> Actor(n), thread |-> t]
     IN \/ ~pending /\ UNCHANGED timeouts
        \/ timeouts < MaxTimeouts /\ timeouts' = timeouts + 1
  /\ lookup' = [lookup EXCEPT ![n][t].state = "failed"]
  /\ UNCHANGED <<routers, cluster, flow, unconnected, overtaken>>

\* Mutant of AddSymbols: nothing handles the failure of the request.
AddSymbolsAnswered(n, t) ==
  /\ lookup[n][t] # None /\ lookup[n][t].state = "answered"
  /\ LET a == lookup[n][t]
     IN /\ Deliver(n, SetToSeq({[type |-> "remote", symbol |-> s, actor |-> a.actor] :
                                  s \in a.symbols}))
        /\ lookup' = [lookup EXCEPT ![n][t] =
                        IF a.actor.node = ResultHost THEN [@ EXCEPT !.state = "connect"]
                        ELSE None]
  /\ UNCHANGED <<local_symbols, symbol_actor_map, node_symbol_map, match_result_actor,
                 cluster, flow, failure, overtaken>>

\* Mutant of AddSymbols: after a request that has failed nothing more is done.
AddSymbolsOrGiveUp(n, t) ==
  /\ lookup[n][t] # None /\ lookup[n][t].state \in {"answered", "failed"}
  /\ LET a == lookup[n][t]
     IN /\ Deliver(n, SetToSeq({[type |-> "remote", symbol |-> s, actor |-> a.actor] :
                                  s \in a.symbols}))
        /\ lookup' = [lookup EXCEPT ![n][t] =
                        IF a.actor.node = ResultHost /\ a.state = "answered"
                        THEN [@ EXCEPT !.state = "connect"] ELSE None]
  /\ UNCHANGED <<local_symbols, symbol_actor_map, node_symbol_map, match_result_actor,
                 cluster, flow, failure, overtaken>>

\* The symbols in the answer go to the node's own router.
AddSymbols(n, t) ==
  /\ lookup[n][t] # None /\ lookup[n][t].state \in {"answered", "failed"}
  /\ LET a == lookup[n][t]
     IN /\ Deliver(n, SetToSeq({[type |-> "remote", symbol |-> s, actor |-> a.actor] :
                                  s \in a.symbols}))
        /\ lookup' = [lookup EXCEPT ![n][t] =
                        IF a.actor.node = ResultHost THEN [@ EXCEPT !.state = "connect"]
                        ELSE None]
  /\ UNCHANGED <<local_symbols, symbol_actor_map, node_symbol_map, match_result_actor,
                 cluster, flow, failure, overtaken>>

ResultPublished == pc[ResultHost] \notin {"publish", "register"}

\* The result actor of the result host is looked up.  This may fail although
\* it is published, is logged as well, and never tried again.
Connect(n, t) ==
  /\ lookup[n][t] # None /\ lookup[n][t].state = "connect"
  /\ \/ /\ ResultPublished
        /\ lookup' = [lookup EXCEPT ![n][t] =
                        [@ EXCEPT !.actor = Actor(ResultHost), !.state = "connected"]]
        /\ unconnected' = unconnected \ {n}
        /\ UNCHANGED timeouts
     \/ /\ ResultPublished /\ timeouts < MaxTimeouts
        /\ timeouts' = timeouts + 1
        /\ unconnected' = unconnected \cup {n}
        /\ lookup' = [lookup EXCEPT ![n][t] = None]
     \/ /\ ~ResultPublished
        /\ lookup' = [lookup EXCEPT ![n][t] = None]
        /\ UNCHANGED failure
  /\ UNCHANGED <<routers, cluster, flow, overtaken>>

\* ... and goes to the node's own router.
AddResultActor(n, t) ==
  /\ lookup[n][t] # None /\ lookup[n][t].state = "connected"
  /\ Deliver(n, <<[type |-> "result", actor |-> lookup[n][t].actor]>>)
  /\ lookup' = [lookup EXCEPT ![n][t] = None]
  /\ UNCHANGED <<local_symbols, symbol_actor_map, node_symbol_map, match_result_actor,
                 cluster, flow, failure, overtaken>>

AddNewNode(n, t) == AddSymbols(n, t) \/ Connect(n, t) \/ AddResultActor(n, t)

-----------------------------------------------------------------------------
\* The router of n handles the next message, one of the given type.
Receives(n, type) ==
  /\ inbox[n] # <<>> /\ Head(inbox[n]).type = type
  /\ inbox' = [inbox EXCEPT ![n] = Tail(@)]

RouteLocal(n) ==
  /\ Receives(n, "local")
  /\ LET s == Head(inbox[n]).symbol
     IN /\ local_symbols' = [local_symbols EXCEPT ![n] = @ \cup {s}]
        /\ symbol_actor_map' = [symbol_actor_map EXCEPT ![n] = Put(@, s, Actor(n))]
  /\ UNCHANGED <<node_symbol_map, match_result_actor, cluster, lookup, flow, failure, overtaken>>

RouteRemote(n) ==
  /\ Receives(n, "remote")
  /\ LET m == Head(inbox[n])
     IN /\ symbol_actor_map' = [symbol_actor_map EXCEPT ![n] = Put(@, m.symbol, m.actor)]
        /\ node_symbol_map' = [node_symbol_map EXCEPT ![n][m.actor.node] = Append(@, m.symbol)]
  /\ UNCHANGED <<local_symbols, match_result_actor, cluster, lookup, flow, failure, overtaken>>

\* Every symbol once added for the host is erased, whoever serves it now.
RouteRemove(n) ==
  /\ Receives(n, "remove")
  /\ LET host == Head(inbox[n]).host
         kept == DOMAIN symbol_actor_map[n] \ Range(node_symbol_map[n][host])
     IN /\ symbol_actor_map' = [symbol_actor_map EXCEPT ![n] = Restrict(@, kept)]
        /\ node_symbol_map' = [node_symbol_map EXCEPT ![n][host] = <<>>]
  /\ UNCHANGED <<local_symbols, match_result_actor, cluster, lookup, flow, failure, overtaken>>

\* The answer is dropped when nobody waits for it any more.
RouteGet(n) ==
  /\ Receives(n, "get")
  /\ LET m == Head(inbox[n])
         waits == /\ m.from = Actor(m.from.node)
                  /\ lookup[m.from.node][m.thread] # None
                  /\ lookup[m.from.node][m.thread].state = "asked"
                  /\ lookup[m.from.node][m.thread].actor = Actor(n)
     IN lookup' = IF waits
                  THEN [lookup EXCEPT ![m.from.node][m.thread] =
                          [@ EXCEPT !.state = "answered", !.symbols = local_symbols[n]]]
                  ELSE lookup
  /\ UNCHANGED <<local_symbols, symbol_actor_map, node_symbol_map, match_result_actor,
                 cluster, flow, failure, overtaken>>

\* The match actors there are at the moment are told of the result actor.
RouteResult(n) ==
  /\ Receives(n, "result")
  /\ match_result_actor' = [s \in Symbol |-> IF s \in local_symbols[n]
                                             THEN Head(inbox[n]).actor
                                             ELSE match_result_actor[s]]
  /\ UNCHANGED <<local_symbols, symbol_actor_map, node_symbol_map, cluster, lookup, flow,
                 failure, overtaken>>

\* An order for an actor that has died is lost, and so is one of an unknown
\* symbol: looking it up with [] enters an actor that is none.
RouteOrder(n) ==
  /\ Receives(n, "order")
  /\ LET o == Head(inbox[n])
         looked_up == IF o.symbol \in DOMAIN symbol_actor_map[n] THEN symbol_actor_map[n]
                      ELSE Put(symbol_actor_map[n], o.symbol, None)
     IN /\ symbol_actor_map' = [symbol_actor_map EXCEPT ![n] = looked_up]
        /\ arrived' = IF looked_up[o.symbol] = Actor(Home[o.symbol])
                      THEN [arrived EXCEPT ![o.symbol] = Append(@, [id |-> o.id, after |-> o.after])]
                      ELSE arrived
  /\ UNCHANGED <<local_symbols, node_symbol_map, match_result_actor,
                 cluster, lookup, orders, matching, answered, switch, failure, overtaken>>

\* The call of Match for the next order, at the node that is next in turn:
\* `after' names the orders answered before, whichever thread sent them.
Call(s) ==
  [node |-> Stubs[(orders % Len(Stubs)) + 1], symbol |-> s, id |-> orders + 1, after |-> answered]

\* Mutant of Match: the switch is not looked at.
MatchAnyway ==
  /\ orders < MaxOrders
  /\ \/ \E s \in Symbol : pc[Call(s).node] = "serve" /\ matching' = matching \cup {Call(s)}
     \/ UNCHANGED matching
  /\ orders' = orders + 1
  /\ UNCHANGED <<routers, cluster, lookup, arrived, answered, switch, failure, overtaken>>

\* A thread of the order manager sends an order to the node that is next in
\* turn, while calls of other threads may be under way there.  The call goes
\* on when it finds the engine open; it fails when the engine is closed
\* (UNAVAILABLE), when TransformGrpcOrder does not know its side
\* (FAILED_PRECONDITION), or when the node cannot be reached.
Match ==
  /\ orders < MaxOrders
  /\ \/ \E s \in Symbol :
          LET n == Call(s).node
          IN /\ pc[n] = "serve" /\ engine_is_open_[n]
             /\ matching' = matching \cup {Call(s)}
     \/ UNCHANGED matching
  /\ orders' = orders + 1
  /\ UNCHANGED <<routers, cluster, lookup, arrived, answered, switch, failure, overtaken>>

\* The message to the router for the call c.
OrderOf(c) == [type |-> "order", symbol |-> c.symbol, id |-> c.id, after |-> c.after]

\* Mutant of RouteMatched: the order goes ahead of the messages that wait.
RouteMatchedFirst ==
  /\ \E c \in matching :
       /\ inbox' = [inbox EXCEPT ![c.node] = <<OrderOf(c)>> \o @]
       /\ matching' = matching \ {c}
       /\ answered' = answered \cup {c.id}
       /\ stragglers' = [stragglers EXCEPT ![c.node] =
                           IF engine_is_open_[c.node] THEN {} ELSE @ \cup {c.id}]
  /\ UNCHANGED <<local_symbols, symbol_actor_map, node_symbol_map, match_result_actor, cluster,
                 lookup, arrived, orders, engine_is_open_, switches, admitted, failure, overtaken>>

\* One of the calls goes on: its order goes to the node's own router, and it
\* is answered.
RouteMatched ==
  /\ \E c \in matching :
       /\ Deliver(c.node, <<OrderOf(c)>>)
       /\ matching' = matching \ {c}
       /\ answered' = answered \cup {c.id}
       /\ stragglers' = [stragglers EXCEPT ![c.node] =
                           IF engine_is_open_[c.node] THEN {} ELSE @ \cup {c.id}]
  /\ UNCHANGED <<local_symbols, symbol_actor_map, node_symbol_map, match_result_actor, cluster,
                 lookup, arrived, orders, engine_is_open_, switches, admitted, failure, overtaken>>

\* The orders of the calls under way on a node.
UnderWay(n) == {c.id : c \in {d \in matching : d.node = n}}

\* Somebody opens or closes the engine of a node that serves: the opposite of
\* what it is, as the same again changes nothing.
OpenCloseEngine(n) ==
  /\ pc[n] = "serve"
  /\ switches < MaxSwitches
  /\ switches' = switches + 1
  /\ engine_is_open_' = [engine_is_open_ EXCEPT ![n] = ~@]
  /\ stragglers' = [stragglers EXCEPT ![n] = {}]
  /\ admitted' = [admitted EXCEPT ![n] = IF engine_is_open_[n] THEN UnderWay(n) ELSE {}]
  /\ UNCHANGED <<routers, cluster, lookup, arrived, orders, matching, answered, failure, overtaken>>

\* A node dies and starts again, with its engine open; its order books and
\* its calls are lost, and the cluster tells the others that it is down.
Restart(n) ==
  /\ Cardinality({r \in Node \X (1 .. MaxRestarts) : r[2] <= incarnation[r[1]]})
       < MaxRestarts
  /\ incarnation' = [incarnation EXCEPT ![n] = @ + 1]
  /\ pc' = [pc EXCEPT ![n] = "publish"]
  /\ inbox' = [inbox EXCEPT ![n] = <<>>]
  /\ local_symbols' = [local_symbols EXCEPT ![n] = {}]
  /\ symbol_actor_map' = [symbol_actor_map EXCEPT ![n] = <<>>]
  /\ node_symbol_map' = [node_symbol_map EXCEPT ![n] = [m \in Node |-> <<>>]]
  /\ observing' = [observing EXCEPT ![n] = FALSE]
  /\ events' = [m \in Node |-> IF m = n THEN <<>>
                               ELSE IF observing[m]
                               THEN Append(events[m], [status |-> "down", node |-> n])
                               ELSE events[m]]
  /\ members' = [members EXCEPT ![n] = {}]
  /\ lookup' = [lookup EXCEPT ![n] = [t \in Thread |-> None]]
  /\ match_result_actor' = [s \in Symbol |-> IF Home[s] = n THEN None
                                             ELSE match_result_actor[s]]
  /\ arrived' = [s \in Symbol |-> IF Home[s] = n THEN <<>> ELSE arrived[s]]
  /\ matching' = {c \in matching : c.node # n}
  /\ engine_is_open_' = [engine_is_open_ EXCEPT ![n] = TRUE]
  /\ stragglers' = [stragglers EXCEPT ![n] = {}]
  /\ admitted' = [admitted EXCEPT ![n] = {}]
  /\ unconnected' = IF n = ResultHost THEN {} ELSE unconnected \ {n}
  /\ overtaken' = (overtaken \ {n}) \cup
       {m \in Node \ {n} : lookup[m]["main"] # None /\ lookup[m]["main"].actor.node = n}
  /\ UNCHANGED <<orders, answered, switches, timeouts>>

-----------------------------------------------------------------------------
Main(n) ==
  \/ Publish(n) \/ Register(n) \/ AddObserver(n) \/ NotifyReady(n) \/ GetMembers(n)
  \/ AddMember(n) \/ AddNewNode(n, "main") \/ Serve(n)

Observer(n) == UpdateDown(n) \/ UpdateUp(n) \/ AddNewNode(n, "observer")

Router(n) ==
  \/ RouteLocal(n) \/ RouteRemote(n) \/ RouteRemove(n)
  \/ RouteGet(n) \/ RouteResult(n) \/ RouteOrder(n)

System ==
  \E n \in Node : \/ Main(n) \/ Observer(n) \/ Router(n)
                 \/ \E t \in Thread : RequestFails(n, t)

Next ==
  \/ System
  \/ Match \/ RouteMatched
  \/ \E n \in Range(Stubs) : OpenCloseEngine(n)
  \/ \E n \in Node : Restart(n)

\* As long as a thread or a router can go on, or a request can fail, one of
\* them does; nothing obliges an order, a switch or a restart to come.
Spec == Init /\ [][Next]_vars /\ WF_vars(System)

-----------------------------------------------------------------------------
\* Nothing is under way between the nodes.
Settled ==
  \A n \in Node :
    /\ pc[n] = "serve" /\ inbox[n] = <<>> /\ events[n] = <<>>
    /\ \A t \in Thread : lookup[n][t] = None

\* When no request has timed out and all has settled, every router knows
\* the living match actor of every symbol, whatever the order in which the
\* nodes started or started again: unless a node restarted just as the main
\* thread was adding it, whose late answer may replace the new actors.
RoutersComplete ==
  Settled /\ timeouts = 0 =>
    \A n \in Node \ overtaken, s \in Symbol :
      s \in DOMAIN symbol_actor_map[n] /\ symbol_actor_map[n][s] = Actor(Home[s])

\* Then every match actor knows the living result actor, whatever requests for
\* symbols have timed out, so that no trade is dropped for want of a receiver:
\* unless its node was overtaken so, or the last lookup of the published
\* result actor failed there, which nobody repeats.
ResultActorKnown ==
  Settled =>
    \A s \in Symbol : Home[s] \notin overtaken \cup unconnected =>
                       match_result_actor[s] = Actor(ResultHost)

\* However the starts of the nodes meet, and whichever requests fail because a
\* node restarts, all nodes come to serve: none waits for ever for another one
\* that waits for it, or that has died.
EveryNodeServes == []<>(\A n \in Node : pc[n] = "serve")

\* The documentation's "time priority", as far as it can be asked for: no order
\* of a symbol comes to its match actor before one whose Match had been
\* answered when it was sent.  Orders sent at the same time may come in either
\* order.
InSubmissionOrder ==
  \A s \in Symbol : \A i, j \in DOMAIN arrived[s] :
    i < j => arrived[s][j].id \notin arrived[s][i].after

\* The documentation's "When you close match engine, order manager cannot
\* submit orders": what a closed engine still lets in are orders whose calls
\* of Match had found it open and were under way at the moment it was closed,
\* however many, until somebody opens it again.
ClosedLetsNoneIn ==
  \A n \in Node : ~engine_is_open_[n] => stragglers[n] \cup UnderWay(n) \subseteq admitted[n]
=============================================================================
