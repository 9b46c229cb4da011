------------------------ MODULE EngineClusterProofs ------------------------
(***************************************************************************)
(* What holds of the nodes of the match engine for every number of nodes,  *)
(* symbols, orders, calls under way, restarts, and failed requests and     *)
(* lookups, with proofs.                                                   *)
(*                                                                         *)
(* The switch needs no more than the types of its variables.  That no      *)
(* order overtakes one that was answered before it was sent is a matter of *)
(* the one way they take (OneWay).  That the routers come to know every    *)
(* actor is shown by following the news of an actor from the cluster's     *)
(* event, over the lookup of a thread and the mailboxes of two routers,    *)
(* into the map: one of these always holds it, and nothing that comes      *)
(* after it there takes it back (WillKnow); that the match actors come to  *)
(* know the result actor is shown in the same way (WillBeTold).            *)
(***************************************************************************)
EXTENDS EngineCluster, DataLemmas

-----------------------------------------------------------------------------
\* Types: what a router, an observer and a thread can be busy with.

Phase == {"publish", "register", "observe", "notify", "members", "add", "serve"}

ActorId == [node : Node, incarnation : Nat]

\* The messages to the router of n.
LocalMessage(n)  == [type : {"local"}, symbol : LocalSymbols(n)]
RemoteMessage(n) ==
  {x \in [type : {"remote"}, symbol : Symbol, actor : ActorId] :
     x.actor.node = Home[x.symbol] /\ x.actor.node # n}
RemoveMessage(n) == [type : {"remove"}, host : Node \ {n}]
GetMessage       == [type : {"get"}, from : ActorId, thread : Thread]
ResultMessage    == [type : {"result"}, actor : ActorId]
OrderMessage     == [type : {"order"}, symbol : Symbol, id : Nat, after : SUBSET Nat]

Message(n) ==
  LocalMessage(n) \cup RemoteMessage(n) \cup RemoveMessage(n) \cup GetMessage
    \cup ResultMessage \cup OrderMessage

Event(n) == [status : {"up", "down"}, node : Node \ {n}]

\* The AddNewNode a thread of n is in: always of another node, whose own
\* symbols are the only ones it may have been answered.
Lookup(n) ==
  {l \in [actor : ActorId, symbols : SUBSET Symbol,
          state : {"asked", "failed", "answered", "connect", "connected"}] :
     /\ l.actor.node # n
     /\ l.symbols \subseteq LocalSymbols(l.actor.node)
     /\ l.state \in {"connect", "connected"} => l.actor.node = ResultHost}

\* The calls of Match, and the orders that have come to a match actor.
Matching == [node : Range(Stubs), symbol : Symbol, id : Nat, after : SUBSET Nat]
Arrival  == [id : Nat, after : SUBSET Nat]

NodesTyped ==
  /\ pc \in [Node -> Phase]
  /\ incarnation \in [Node -> Nat]
  /\ observing \in [Node -> BOOLEAN]
  /\ DOMAIN events = Node /\ \A n \in Node : events[n] \in Seq(Event(n))
  /\ DOMAIN members = Node /\ \A n \in Node : members[n] \in SUBSET (Node \ {n})
  /\ DOMAIN lookup = Node
  /\ \A n \in Node : /\ DOMAIN lookup[n] = Thread
                     /\ \A t \in Thread : lookup[n][t] \in Lookup(n) \cup {None}

RoutersTyped ==
  /\ DOMAIN inbox = Node /\ \A n \in Node : inbox[n] \in Seq(Message(n))
  /\ DOMAIN local_symbols = Node
  /\ \A n \in Node : local_symbols[n] \in SUBSET LocalSymbols(n)
  /\ DOMAIN symbol_actor_map = Node
  /\ DOMAIN node_symbol_map = Node
  /\ \A n \in Node : /\ DOMAIN node_symbol_map[n] = Node
                     /\ \A h \in Node : node_symbol_map[n][h] \in Seq(LocalSymbols(h))

FlowTyped ==
  /\ arrived \in [Symbol -> Seq(Arrival)]
  /\ orders \in Nat /\ timeouts \in Nat
  /\ matching \in SUBSET Matching /\ answered \in SUBSET Nat
  /\ engine_is_open_ \in [Node -> BOOLEAN]
  /\ stragglers \in [Node -> SUBSET Nat] /\ admitted \in [Node -> SUBSET Nat]

TypeInv == NodesTyped /\ RoutersTyped /\ FlowTyped

\* Nobody is no call of anybody.
LEMMA LookupIsSome == ASSUME NEW n, NEW l \in Lookup(n) PROVE l # None
BY DEF Lookup, None

\* What kind of message one is shows in its type.
LEMMA MessageKinds ==
  ASSUME NEW n, NEW x \in Message(n)
  PROVE  /\ x.type = "local" => x \in LocalMessage(n)
         /\ x.type = "remote" => x \in RemoteMessage(n)
         /\ x.type = "remove" => x \in RemoveMessage(n)
         /\ x.type = "get" => x \in GetMessage
         /\ x.type = "result" => x \in ResultMessage
         /\ x.type = "order" => x \in OrderMessage
BY DEF Message, LocalMessage, RemoteMessage, RemoveMessage, GetMessage, ResultMessage,
   OrderMessage

\* The messages that a step sends, as sequences.
LocalsOf(n) == {[type |-> "local", symbol |-> s] : s \in LocalSymbols(n)}

LEMMA LocalsSent ==
  ASSUME NEW n \in Node, NEW r, r = SetToSeq(LocalsOf(n))
  PROVE  /\ r \in Seq(LocalMessage(n))
         /\ \A s \in LocalSymbols(n) : \E i \in DOMAIN r : r[i] = [type |-> "local", symbol |-> s]
<1> DEFINE S == LocalSymbols(n)
           T == LocalsOf(n)
           f == [s \in S |-> [type |-> "local", symbol |-> s]]
<1>1. IsFiniteSet(S) BY SymbolAssumption, FS_Subset DEF LocalSymbols
<1>2. f \in Surjection(S, T) BY DEF Surjection, LocalsOf
<1>3. IsFiniteSet(T) BY <1>1, <1>2, FS_Surjection
<1>4. r \in Seq(T) /\ \A x \in T : \E i \in DOMAIN r : r[i] = x
  BY <1>3, SetToSeqFacts
<1>5. T \subseteq LocalMessage(n) BY DEF LocalMessage, LocalsOf
<1>6. r \in Seq(LocalMessage(n)) BY <1>4, <1>5
<1> QED BY <1>4, <1>6 DEF LocalsOf

RemotesOf(S, a) == {[type |-> "remote", symbol |-> s, actor |-> a] : s \in S}

LEMMA RemotesSent ==
  ASSUME NEW n \in Node, NEW S, NEW a \in ActorId, NEW r, a.node # n,
         S \subseteq LocalSymbols(a.node), r = SetToSeq(RemotesOf(S, a))
  PROVE  /\ r \in Seq(RemotesOf(S, a))
         /\ r \in Seq(RemoteMessage(n))
         /\ \A s \in S :
              \E i \in DOMAIN r : r[i] = [type |-> "remote", symbol |-> s, actor |-> a]
<1> DEFINE T == RemotesOf(S, a)
           f == [s \in S |-> [type |-> "remote", symbol |-> s, actor |-> a]]
<1>1. IsFiniteSet(S) BY SymbolAssumption, FS_Subset DEF LocalSymbols
<1>2. f \in Surjection(S, T) BY DEF Surjection, RemotesOf
<1>3. IsFiniteSet(T) BY <1>1, <1>2, FS_Surjection
<1>4. r \in Seq(T) /\ \A x \in T : \E i \in DOMAIN r : r[i] = x
  BY <1>3, SetToSeqFacts
<1>5. T \subseteq RemoteMessage(n) BY DEF RemoteMessage, LocalSymbols, ActorId, RemotesOf
<1>6. r \in Seq(RemoteMessage(n)) BY <1>4, <1>5
<1> QED BY <1>4, <1>6 DEF RemotesOf

\* A sequence of messages of one kind is one of messages.
LEMMA MessagesSent ==
  ASSUME NEW n, NEW r
  PROVE  /\ r \in Seq(LocalMessage(n)) => r \in Seq(Message(n))
         /\ r \in Seq(RemoteMessage(n)) => r \in Seq(Message(n))
<1>1. LocalMessage(n) \subseteq Message(n) /\ RemoteMessage(n) \subseteq Message(n)
  BY DEF Message
<1> QED BY <1>1

\* The mailboxes when messages are sent to one, and when one receives.
LEMMA Delivered ==
  ASSUME RoutersTyped, NEW k \in Node, NEW r \in Seq(Message(k)), Deliver(k, r)
  PROVE  /\ DOMAIN inbox' = Node
         /\ inbox'[k] = inbox[k] \o r
         /\ \A n \in Node \ {k} : inbox'[n] = inbox[n]
         /\ \A n \in Node : inbox'[n] \in Seq(Message(n))
<1>1. /\ DOMAIN inbox' = Node /\ inbox'[k] = inbox[k] \o r
      /\ \A n \in Node \ {k} : inbox'[n] = inbox[n]
  BY DEF Deliver, RoutersTyped
<1>2. inbox[k] \o r \in Seq(Message(k)) BY DEF RoutersTyped
<1> QED BY <1>1, <1>2 DEF RoutersTyped

LEMMA Received ==
  ASSUME RoutersTyped, NEW k \in Node, NEW y, Receives(k, y)
  PROVE  /\ DOMAIN inbox' = Node
         /\ inbox[k] # <<>> /\ Head(inbox[k]) \in Message(k) /\ Head(inbox[k]).type = y
         /\ inbox'[k] = Tail(inbox[k])
         /\ \A n \in Node \ {k} : inbox'[n] = inbox[n]
         /\ \A n \in Node : inbox'[n] \in Seq(Message(n))
<1>1. /\ DOMAIN inbox' = Node /\ inbox'[k] = Tail(inbox[k]) /\ inbox[k] # <<>>
      /\ Head(inbox[k]).type = y
      /\ \A n \in Node \ {k} : inbox'[n] = inbox[n]
  BY DEF Receives, RoutersTyped
<1>2. inbox[k] \in Seq(Message(k)) BY DEF RoutersTyped
<1>3. Head(inbox[k]) \in Message(k) BY <1>1, <1>2, NonEmptySeq
<1>4. Tail(inbox[k]) \in Seq(Message(k)) BY <1>1, <1>2, Places
<1> QED BY <1>1, <1>3, <1>4 DEF RoutersTyped

-----------------------------------------------------------------------------
\* Every step keeps the types.

LEMMA InitTyped == Init => TypeInv
<1> SUFFICES ASSUME Init PROVE TypeInv OBVIOUS
<1>1. \A S : <<>> \in Seq(S) OBVIOUS
<1>2. NodesTyped
  BY <1>1 DEF Init, NodesTyped, Phase
<1>3. RoutersTyped
  BY <1>1 DEF Init, RoutersTyped
<1>4. FlowTyped
  BY <1>1 DEF Init, FlowTyped
<1> QED BY <1>2, <1>3, <1>4 DEF TypeInv

\* A step that leaves a group of variables as they are keeps their types.
LEMMA RoutersUnchanged == RoutersTyped /\ UNCHANGED routers => RoutersTyped'
BY DEF RoutersTyped, routers

LEMMA ClusterUnchanged == NodesTyped /\ UNCHANGED <<cluster, lookup>> => NodesTyped'
BY DEF NodesTyped, cluster

LEMMA FlowUnchanged == FlowTyped /\ UNCHANGED <<flow, failure>> => FlowTyped'
BY DEF FlowTyped, flow, switch, failure

\* The messages that are waiting change, and nothing else of the routers.
LEMMA OnlyMailboxes ==
  ASSUME RoutersTyped, DOMAIN inbox' = Node, \A n \in Node : inbox'[n] \in Seq(Message(n)),
         UNCHANGED <<local_symbols, symbol_actor_map, node_symbol_map>>
  PROVE  RoutersTyped'
BY DEF RoutersTyped

LEMMA PublishTyped == ASSUME TypeInv, NEW k \in Node, Publish(k) PROVE TypeInv'
<1>1. NodesTyped' BY DEF TypeInv, NodesTyped, Publish, Phase
<1>2. RoutersTyped' /\ FlowTyped' BY RoutersUnchanged, FlowUnchanged DEF TypeInv, Publish
<1> QED BY <1>1, <1>2 DEF TypeInv

LEMMA RegisterTyped == ASSUME TypeInv, NEW k \in Node, Register(k) PROVE TypeInv'
<1>1. NodesTyped' BY DEF TypeInv, NodesTyped, Register, Phase
<1>2. FlowTyped' BY FlowUnchanged DEF TypeInv, Register
<1> DEFINE r == SetToSeq(LocalsOf(k))
           x == [type |-> "result", actor |-> Actor(k)]
           q == IF k = ResultHost THEN <<x>> ELSE <<>>
<1>3. r \in Seq(Message(k)) BY LocalsSent, MessagesSent
<1>4. x \in Message(k)
  BY DEF TypeInv, NodesTyped, Actor, ActorId, Message, ResultMessage
<1>5. q \in Seq(Message(k)) BY <1>4
<1>6. Deliver(k, r \o q) BY DEF Register, LocalsOf
<1> HIDE DEF r, q
<1>7. r \o q \in Seq(Message(k)) BY <1>3, <1>5
<1>8. RoutersTyped'
  <2>1. DOMAIN inbox' = Node /\ \A n \in Node : inbox'[n] \in Seq(Message(n))
    BY <1>6, <1>7, Delivered DEF TypeInv
  <2> QED BY <2>1, OnlyMailboxes DEF TypeInv, Register
<1> QED BY <1>1, <1>2, <1>8 DEF TypeInv

LEMMA AddObserverTyped == ASSUME TypeInv, NEW k \in Node, AddObserver(k) PROVE TypeInv'
<1>1. NodesTyped' BY DEF TypeInv, NodesTyped, AddObserver, Phase
<1>2. RoutersTyped' /\ FlowTyped' BY RoutersUnchanged, FlowUnchanged DEF TypeInv, AddObserver
<1> QED BY <1>1, <1>2 DEF TypeInv

LEMMA NotifyReadyTyped == ASSUME TypeInv, NEW k \in Node, NotifyReady(k) PROVE TypeInv'
<1>1. ASSUME NEW n \in Node PROVE events'[n] \in Seq(Event(n))
  <2>1. events[n] \in Seq(Event(n)) BY DEF TypeInv, NodesTyped
  <2>2. events'[n] = IF n # k /\ observing[n]
                     THEN Append(events[n], [status |-> "up", node |-> k]) ELSE events[n]
    BY DEF NotifyReady, Tell
  <2>3. n # k => [status |-> "up", node |-> k] \in Event(n) BY DEF Event
  <2> QED BY <2>1, <2>2, <2>3
<1>2. DOMAIN events' = Node BY DEF NotifyReady, Tell
<1>3. NodesTyped' BY <1>1, <1>2 DEF TypeInv, NodesTyped, NotifyReady, Phase
<1>4. RoutersTyped' /\ FlowTyped' BY RoutersUnchanged, FlowUnchanged DEF TypeInv, NotifyReady
<1> QED BY <1>3, <1>4 DEF TypeInv

LEMMA GetMembersTyped == ASSUME TypeInv, NEW k \in Node, GetMembers(k) PROVE TypeInv'
<1>1. NodesTyped' BY DEF TypeInv, NodesTyped, GetMembers, Phase
<1>2. RoutersTyped' /\ FlowTyped' BY RoutersUnchanged, FlowUnchanged DEF TypeInv, GetMembers
<1> QED BY <1>1, <1>2 DEF TypeInv

LEMMA ServeTyped == ASSUME TypeInv, NEW k \in Node, Serve(k) PROVE TypeInv'
<1>1. NodesTyped' BY DEF TypeInv, NodesTyped, Serve, Phase
<1>2. RoutersTyped' /\ FlowTyped' BY RoutersUnchanged, FlowUnchanged DEF TypeInv, Serve
<1> QED BY <1>1, <1>2 DEF TypeInv

\* What Ask does to the lookup and the mailbox of the node asked.
\* What Ask does to the calls, and to the mailboxes.
NewCall(k, t, m) ==
  /\ DOMAIN lookup' = Node
  /\ \A n \in Node : DOMAIN lookup'[n] = Thread
  /\ \A n \in Node, u \in Thread : n # k \/ u # t => lookup'[n][u] = lookup[n][u]
  /\ lookup'[k][t] = [actor |-> Actor(m), symbols |-> {},
                      state |-> IF pc[m] = "publish" THEN "failed" ELSE "asked"]
  /\ lookup'[k][t] \in Lookup(k)

NewRequest(k, t, m) ==
  /\ pc[m] = "publish" => UNCHANGED inbox
  /\ pc[m] # "publish" =>
       inbox'[m] = inbox[m] \o <<[type |-> "get", from |-> Actor(k), thread |-> t]>>
  /\ [type |-> "get", from |-> Actor(k), thread |-> t] \in GetMessage
  /\ \A n \in Node \ {m} : inbox'[n] = inbox[n]
  /\ DOMAIN inbox' = Node
  /\ \A n \in Node : inbox'[n] \in Seq(Message(n))

LEMMA AskFacts ==
  ASSUME TypeInv, NEW k \in Node, NEW t \in Thread, NEW m \in Node \ {k}, Ask(k, t, m)
  PROVE  NewCall(k, t, m) /\ NewRequest(k, t, m)
<1>1. Actor(m) \in ActorId /\ Actor(k) \in ActorId /\ Actor(m).node = m
  BY DEF TypeInv, NodesTyped, Actor, ActorId
<1> DEFINE l == [actor |-> Actor(m), symbols |-> {},
                 state |-> IF pc[m] = "publish" THEN "failed" ELSE "asked"]
           x == [type |-> "get", from |-> Actor(k), thread |-> t]
<1>2. l \in Lookup(k) BY <1>1 DEF Lookup
<1>3. x \in GetMessage BY <1>1 DEF GetMessage
<1>4. /\ DOMAIN lookup' = Node
      /\ \A n \in Node : DOMAIN lookup'[n] = Thread
      /\ \A n \in Node, u \in Thread : n # k \/ u # t => lookup'[n][u] = lookup[n][u]
      /\ lookup'[k][t] = l
  BY DEF Ask, TypeInv, NodesTyped
<1>5. CASE pc[m] = "publish"
  <2>1. UNCHANGED inbox BY <1>5 DEF Ask
  <2> QED BY <1>2, <1>3, <1>4, <1>5, <2>1 DEF TypeInv, RoutersTyped, NewCall, NewRequest
<1>6. CASE pc[m] # "publish"
  <2>1. Deliver(m, <<x>>) BY <1>6 DEF Ask
  <2>2. x \in Message(m) BY <1>3 DEF Message
  <2>3. <<x>> \in Seq(Message(m)) BY <2>2
  <2>4. /\ DOMAIN inbox' = Node
        /\ inbox'[m] = inbox[m] \o <<x>>
        /\ \A n \in Node \ {m} : inbox'[n] = inbox[n]
        /\ \A n \in Node : inbox'[n] \in Seq(Message(n))
    BY <2>1, <2>3, Delivered DEF TypeInv
  <2> QED BY <1>2, <1>3, <1>4, <1>6, <2>4 DEF NewCall, NewRequest
<1> QED BY <1>5, <1>6

LEMMA AddMemberTyped == ASSUME TypeInv, NEW k \in Node, AddMember(k) PROVE TypeInv'
<1>1. PICK m \in members[k] : members' = [members EXCEPT ![k] = @ \ {m}] /\ Ask(k, "main", m)
  BY DEF AddMember
<1>2. m \in Node \ {k} /\ "main" \in Thread BY DEF TypeInv, NodesTyped, Thread
<1>3. /\ DOMAIN lookup' = Node
      /\ \A n \in Node : DOMAIN lookup'[n] = Thread
      /\ \A n \in Node, u \in Thread : n # k \/ u # "main" => lookup'[n][u] = lookup[n][u]
      /\ lookup'[k]["main"] \in Lookup(k)
      /\ DOMAIN inbox' = Node
      /\ \A n \in Node : inbox'[n] \in Seq(Message(n))
  <2>1. NewCall(k, "main", m) /\ NewRequest(k, "main", m) BY <1>1, <1>2, AskFacts
  <2> QED BY <2>1 DEF NewCall, NewRequest
<1>4. \A n \in Node, t \in Thread : lookup'[n][t] \in Lookup(n) \cup {None}
  BY <1>3 DEF TypeInv, NodesTyped
<1>5. NodesTyped' BY <1>1, <1>3, <1>4 DEF TypeInv, NodesTyped, AddMember
<1>6. RoutersTyped' BY <1>3, OnlyMailboxes DEF TypeInv, AddMember
<1>7. FlowTyped' BY FlowUnchanged DEF TypeInv, AddMember
<1> QED BY <1>5, <1>6, <1>7 DEF TypeInv

\* The event that an observer takes, and what it leaves.
LEMMA EventTaken ==
  ASSUME TypeInv, NEW k \in Node, events[k] # <<>>, events' = [events EXCEPT ![k] = Tail(@)]
  PROVE  /\ Head(events[k]) \in Event(k)
         /\ Head(events[k]).node \in Node \ {k}
         /\ DOMAIN events' = Node
         /\ events'[k] = Tail(events[k])
         /\ \A n \in Node \ {k} : events'[n] = events[n]
         /\ \A n \in Node : events'[n] \in Seq(Event(n))
<1>1. events[k] \in Seq(Event(k)) BY DEF TypeInv, NodesTyped
<1>2. Head(events[k]) \in Event(k) /\ Tail(events[k]) \in Seq(Event(k))
  BY <1>1, NonEmptySeq, Places
<1>3. Head(events[k]).node \in Node \ {k} BY <1>2 DEF Event
<1> QED BY <1>2, <1>3 DEF TypeInv, NodesTyped

LEMMA UpdateDownTyped == ASSUME TypeInv, NEW k \in Node, UpdateDown(k) PROVE TypeInv'
<1> DEFINE x == [type |-> "remove", host |-> Head(events[k]).node]
<1>1. /\ Head(events[k]).node \in Node \ {k}
      /\ DOMAIN events' = Node
      /\ \A n \in Node : events'[n] \in Seq(Event(n))
  <2>1. events[k] # <<>> /\ events' = [events EXCEPT ![k] = Tail(@)] BY DEF UpdateDown
  <2> QED BY <2>1, EventTaken
<1>2. x \in Message(k) BY <1>1 DEF Message, RemoveMessage
<1>3. <<x>> \in Seq(Message(k)) BY <1>2
<1>4. Deliver(k, <<x>>) BY DEF UpdateDown
<1>5. DOMAIN inbox' = Node /\ \A n \in Node : inbox'[n] \in Seq(Message(n))
  BY <1>3, <1>4, Delivered DEF TypeInv
<1>6. RoutersTyped' BY <1>5, OnlyMailboxes DEF TypeInv, UpdateDown
<1>7. NodesTyped' BY <1>1 DEF TypeInv, NodesTyped, UpdateDown
<1>8. FlowTyped' BY FlowUnchanged DEF TypeInv, UpdateDown
<1> QED BY <1>6, <1>7, <1>8 DEF TypeInv

LEMMA UpdateUpTyped == ASSUME TypeInv, NEW k \in Node, UpdateUp(k) PROVE TypeInv'
<1>1. /\ Head(events[k]).node \in Node \ {k}
      /\ DOMAIN events' = Node
      /\ \A n \in Node : events'[n] \in Seq(Event(n))
  <2>1. events[k] # <<>> /\ events' = [events EXCEPT ![k] = Tail(@)] BY DEF UpdateUp
  <2> QED BY <2>1, EventTaken
<1>2. PICK m \in Node \ {k} : Ask(k, "observer", m) BY <1>1 DEF UpdateUp
<1> "observer" \in Thread BY DEF Thread
<1>3. /\ DOMAIN lookup' = Node
      /\ \A n \in Node : DOMAIN lookup'[n] = Thread
      /\ \A n \in Node, u \in Thread : n # k \/ u # "observer" => lookup'[n][u] = lookup[n][u]
      /\ lookup'[k]["observer"] \in Lookup(k)
      /\ DOMAIN inbox' = Node
      /\ \A n \in Node : inbox'[n] \in Seq(Message(n))
  <2>1. NewCall(k, "observer", m) /\ NewRequest(k, "observer", m) BY <1>2, AskFacts
  <2> QED BY <2>1 DEF NewCall, NewRequest
<1>4. \A n \in Node, t \in Thread : lookup'[n][t] \in Lookup(n) \cup {None}
  BY <1>3 DEF TypeInv, NodesTyped
<1>5. NodesTyped' BY <1>1, <1>3, <1>4 DEF TypeInv, NodesTyped, UpdateUp
<1>6. RoutersTyped' BY <1>3, OnlyMailboxes DEF TypeInv, UpdateUp
<1>7. FlowTyped' BY FlowUnchanged DEF TypeInv, UpdateUp
<1> QED BY <1>5, <1>6, <1>7 DEF TypeInv

\* What a step that changes the call of thread t of node k does to the calls.
LEMMA CallChanged ==
  ASSUME TypeInv, NEW k \in Node, NEW t \in Thread, NEW l \in Lookup(k) \cup {None},
         lookup' = [lookup EXCEPT ![k][t] = l]
  PROVE  /\ DOMAIN lookup' = Node
         /\ \A n \in Node : DOMAIN lookup'[n] = Thread
         /\ \A n \in Node, u \in Thread : n # k \/ u # t => lookup'[n][u] = lookup[n][u]
         /\ lookup'[k][t] = l
         /\ \A n \in Node, u \in Thread : lookup'[n][u] \in Lookup(n) \cup {None}
<1>1. /\ DOMAIN lookup' = Node
      /\ \A n \in Node : DOMAIN lookup'[n] = Thread
      /\ \A n \in Node, u \in Thread : n # k \/ u # t => lookup'[n][u] = lookup[n][u]
      /\ lookup'[k][t] = l
  BY DEF TypeInv, NodesTyped
<1> QED BY <1>1 DEF TypeInv, NodesTyped

\* A call in progress is one of another node.
LEMMA CallTyped ==
  ASSUME TypeInv, NEW k \in Node, NEW t \in Thread, NEW l, l = lookup[k][t], l # None
  PROVE  /\ l \in Lookup(k)
         /\ l.actor \in ActorId /\ l.actor.node \in Node \ {k}
         /\ l.symbols \subseteq LocalSymbols(l.actor.node)
         /\ l.state \in {"connect", "connected"} => l.actor.node = ResultHost
<1>1. l \in Lookup(k) BY DEF TypeInv, NodesTyped
<1>2. /\ l.actor \in ActorId /\ l.actor.node # k
      /\ l.symbols \subseteq LocalSymbols(l.actor.node)
      /\ l.state \in {"connect", "connected"} => l.actor.node = ResultHost
  BY <1>1 DEF Lookup
<1>3. l.actor.node \in Node BY <1>2 DEF ActorId
<1> QED BY <1>1, <1>2, <1>3

\* RequestFails, spelled out.
LEMMA RequestFailsFacts ==
  ASSUME TypeInv, NEW k \in Node, NEW t \in Thread, RequestFails(k, t)
  PROVE  \E l \in Lookup(k) :
           /\ l = lookup[k][t] /\ l.state = "asked"
           /\ [l EXCEPT !.state = "failed"] \in Lookup(k)
           /\ lookup' = [lookup EXCEPT ![k][t] = [l EXCEPT !.state = "failed"]]
<1>1. PICK l : l = lookup[k][t] OBVIOUS
<1>2. l # None /\ l.state = "asked" BY <1>1 DEF RequestFails
<1>3. l \in Lookup(k) BY <1>1, <1>2, CallTyped
<1>4. [l EXCEPT !.state = "failed"] \in Lookup(k) BY <1>3 DEF Lookup
<1>5. lookup' = [lookup EXCEPT ![k][t] = [l EXCEPT !.state = "failed"]]
  BY <1>1, <1>3 DEF RequestFails, TypeInv, NodesTyped, Lookup
<1> QED BY <1>1, <1>2, <1>3, <1>4, <1>5

LEMMA RequestFailsTyped ==
  ASSUME TypeInv, NEW k \in Node, NEW t \in Thread, RequestFails(k, t) PROVE TypeInv'
<1>1. PICK l \in Lookup(k) :
         /\ [l EXCEPT !.state = "failed"] \in Lookup(k)
         /\ lookup' = [lookup EXCEPT ![k][t] = [l EXCEPT !.state = "failed"]]
  BY RequestFailsFacts
<1>2. /\ DOMAIN lookup' = Node
      /\ \A n \in Node : DOMAIN lookup'[n] = Thread
      /\ \A n \in Node, u \in Thread : lookup'[n][u] \in Lookup(n) \cup {None}
  BY <1>1, CallChanged
<1>3. NodesTyped' BY <1>2 DEF TypeInv, NodesTyped, RequestFails, cluster
<1>4. RoutersTyped' BY RoutersUnchanged DEF TypeInv, RequestFails
<1>5. timeouts' \in Nat BY DEF RequestFails, TypeInv, FlowTyped
<1>6. FlowTyped' BY <1>5 DEF TypeInv, FlowTyped, RequestFails, flow, switch
<1> QED BY <1>3, <1>4, <1>6 DEF TypeInv

\* AddSymbols, spelled out.
LEMMA AddSymbolsFacts ==
  ASSUME TypeInv, NEW k \in Node, NEW t \in Thread, AddSymbols(k, t)
  PROVE  \E l \in Lookup(k), next \in Lookup(k) \cup {None}, r \in Seq(Message(k)) :
           /\ l = lookup[k][t] /\ l.state \in {"answered", "failed"}
           /\ r = SetToSeq(RemotesOf(l.symbols, l.actor))
           /\ r \in Seq(RemotesOf(l.symbols, l.actor))
           /\ \A s \in l.symbols :
                \E i \in DOMAIN r : r[i] = [type |-> "remote", symbol |-> s, actor |-> l.actor]
           /\ Deliver(k, r)
           /\ lookup' = [lookup EXCEPT ![k][t] = next]
           /\ l.actor.node = ResultHost =>
                /\ next \in Lookup(k) /\ next.actor = l.actor /\ next.state = "connect"
           /\ l.actor.node # ResultHost => next = None
<1>1. PICK l : l = lookup[k][t] OBVIOUS
<1>2. l # None /\ l.state \in {"answered", "failed"} BY <1>1 DEF AddSymbols
<1>3. /\ l \in Lookup(k)
      /\ l.actor \in ActorId /\ l.actor.node \in Node \ {k}
      /\ l.symbols \subseteq LocalSymbols(l.actor.node)
  BY <1>1, <1>2, CallTyped
<1>4. PICK r :
        r = SetToSeq(RemotesOf(l.symbols, l.actor))
  OBVIOUS
<1>5. /\ r \in Seq(RemotesOf(l.symbols, l.actor))
      /\ r \in Seq(RemoteMessage(k))
      /\ \A s \in l.symbols :
           \E i \in DOMAIN r : r[i] = [type |-> "remote", symbol |-> s, actor |-> l.actor]
  BY <1>3, <1>4, RemotesSent
<1>6. r \in Seq(Message(k)) BY <1>5, MessagesSent
<1>7. PICK next : next = IF l.actor.node = ResultHost THEN [l EXCEPT !.state = "connect"]
                         ELSE None
  OBVIOUS
<1>8. /\ l.actor.node = ResultHost =>
           /\ next \in Lookup(k) /\ next.actor = l.actor /\ next.state = "connect"
      /\ l.actor.node # ResultHost => next = None
  BY <1>3, <1>7 DEF Lookup
<1>9. Deliver(k, r) BY <1>1, <1>4 DEF AddSymbols, RemotesOf
<1>10. lookup' = [lookup EXCEPT ![k][t] = next]
  BY <1>1, <1>3, <1>7 DEF AddSymbols, TypeInv, NodesTyped, Lookup
<1>11. l \in Lookup(k) /\ next \in Lookup(k) \cup {None} BY <1>3, <1>8
<1> QED BY <1>1, <1>2, <1>4, <1>5, <1>6, <1>8, <1>9, <1>10, <1>11

LEMMA AddSymbolsTyped ==
  ASSUME TypeInv, NEW k \in Node, NEW t \in Thread, AddSymbols(k, t) PROVE TypeInv'
<1>1. PICK next \in Lookup(k) \cup {None}, r \in Seq(Message(k)) :
         /\ Deliver(k, r)
         /\ lookup' = [lookup EXCEPT ![k][t] = next]
  BY AddSymbolsFacts
<1>2. /\ DOMAIN lookup' = Node
      /\ \A n \in Node : DOMAIN lookup'[n] = Thread
      /\ \A n \in Node, u \in Thread : lookup'[n][u] \in Lookup(n) \cup {None}
  BY <1>1, CallChanged
<1>3. NodesTyped' BY <1>2 DEF TypeInv, NodesTyped, AddSymbols, cluster
<1>4. DOMAIN inbox' = Node /\ \A n \in Node : inbox'[n] \in Seq(Message(n))
  BY <1>1, Delivered DEF TypeInv
<1>5. RoutersTyped' BY <1>4, OnlyMailboxes DEF TypeInv, AddSymbols
<1>6. FlowTyped' BY FlowUnchanged DEF TypeInv, AddSymbols
<1> QED BY <1>3, <1>5, <1>6 DEF TypeInv

\* Connect, spelled out: when it does not get the result actor, the node is
\* among the unconnected ones from then on, unless there was none to get.
LEMMA ConnectFacts ==
  ASSUME TypeInv, NEW k \in Node, NEW t \in Thread, Connect(k, t)
  PROVE  \E l \in Lookup(k), next \in Lookup(k) \cup {None} :
           /\ l = lookup[k][t] /\ l.state = "connect" /\ l.actor.node = ResultHost
           /\ lookup' = [lookup EXCEPT ![k][t] = next]
           /\ pc[ResultHost] \in {"publish", "register"} => next = None
           /\ pc[ResultHost] \notin {"publish", "register"} =>
                \/ next = None /\ unconnected' = unconnected \cup {k}
                \/ /\ next \in Lookup(k) /\ next.actor = Actor(ResultHost)
                   /\ next.state = "connected"
           /\ unconnected \ {k} \subseteq unconnected'
<1>1. PICK l : l = lookup[k][t] OBVIOUS
<1>2. l # None /\ l.state = "connect" BY <1>1 DEF Connect
<1>3. l \in Lookup(k) /\ l.actor.node = ResultHost /\ ResultHost # k
  BY <1>1, <1>2, CallTyped
<1>4. Actor(ResultHost) \in ActorId /\ Actor(ResultHost).node = ResultHost
  BY HomeAssumption DEF TypeInv, NodesTyped, Actor, ActorId
<1>5. PICK next :
        next = IF ResultPublished /\ unconnected' = unconnected \ {k} /\ UNCHANGED timeouts
                  /\ lookup' = [lookup EXCEPT ![k][t] =
                                  [@ EXCEPT !.actor = Actor(ResultHost), !.state = "connected"]]
               THEN [l EXCEPT !.actor = Actor(ResultHost), !.state = "connected"] ELSE None
  OBVIOUS
<1>6. [l EXCEPT !.actor = Actor(ResultHost), !.state = "connected"] \in Lookup(k)
  BY <1>3, <1>4 DEF Lookup
<1>7. \/ /\ next \in Lookup(k) /\ next.actor = Actor(ResultHost) /\ next.state = "connected"
         /\ ResultPublished
      \/ next = None
  BY <1>3, <1>5, <1>6 DEF Lookup
<1>8. lookup' = [lookup EXCEPT ![k][t] = next]
  BY <1>1, <1>3, <1>5 DEF Connect, TypeInv, NodesTyped, Lookup
<1>9. next = None /\ ResultPublished => unconnected' = unconnected \cup {k}
  <2>1. next = None => next # [l EXCEPT !.actor = Actor(ResultHost), !.state = "connected"]
    BY <1>6, LookupIsSome
  <2> QED BY <1>5, <2>1 DEF Connect
<1>10. unconnected \ {k} \subseteq unconnected'
  BY DEF Connect, failure
<1>11. next \in Lookup(k) \cup {None} BY <1>7
<1> QED BY <1>1, <1>2, <1>3, <1>7, <1>8, <1>9, <1>10, <1>11 DEF ResultPublished

LEMMA ConnectTyped ==
  ASSUME TypeInv, NEW k \in Node, NEW t \in Thread, Connect(k, t) PROVE TypeInv'
<1>1. PICK next \in Lookup(k) \cup {None} : lookup' = [lookup EXCEPT ![k][t] = next]
  BY ConnectFacts
<1>2. /\ DOMAIN lookup' = Node
      /\ \A n \in Node : DOMAIN lookup'[n] = Thread
      /\ \A n \in Node, u \in Thread : lookup'[n][u] \in Lookup(n) \cup {None}
  BY <1>1, CallChanged
<1>3. NodesTyped' BY <1>2 DEF TypeInv, NodesTyped, Connect, cluster
<1>4. RoutersTyped' BY RoutersUnchanged DEF TypeInv, Connect
<1>5. timeouts' \in Nat BY DEF Connect, failure, TypeInv, FlowTyped
<1>6. FlowTyped' BY <1>5 DEF TypeInv, FlowTyped, Connect, flow, switch
<1> QED BY <1>3, <1>4, <1>6 DEF TypeInv

LEMMA AddResultActorTyped ==
  ASSUME TypeInv, NEW k \in Node, NEW t \in Thread, AddResultActor(k, t) PROVE TypeInv'
<1>1. PICK l : l = lookup[k][t] OBVIOUS
<1>2. l # None BY <1>1 DEF AddResultActor
<1>3. l.actor \in ActorId BY <1>1, <1>2, CallTyped
<1> DEFINE x == [type |-> "result", actor |-> l.actor]
<1>4. x \in Message(k) BY <1>3 DEF Message, ResultMessage
<1>5. <<x>> \in Seq(Message(k)) BY <1>4
<1>6. Deliver(k, <<x>>) BY <1>1 DEF AddResultActor
<1>7. DOMAIN inbox' = Node /\ \A n \in Node : inbox'[n] \in Seq(Message(n))
  BY <1>5, <1>6, Delivered DEF TypeInv
<1>8. /\ DOMAIN lookup' = Node
      /\ \A n \in Node : DOMAIN lookup'[n] = Thread
      /\ \A n \in Node, u \in Thread : lookup'[n][u] \in Lookup(n) \cup {None}
  BY CallChanged DEF AddResultActor
<1>9. NodesTyped' BY <1>8 DEF TypeInv, NodesTyped, AddResultActor, cluster
<1>10. RoutersTyped' BY <1>7, OnlyMailboxes DEF TypeInv, AddResultActor
<1>11. FlowTyped' BY FlowUnchanged DEF TypeInv, AddResultActor
<1> QED BY <1>9, <1>10, <1>11 DEF TypeInv

LEMMA RouteLocalTyped == ASSUME TypeInv, NEW k \in Node, RouteLocal(k) PROVE TypeInv'
<1> DEFINE x == Head(inbox[k])
<1>1. /\ DOMAIN inbox' = Node /\ \A n \in Node : inbox'[n] \in Seq(Message(n))
      /\ x \in Message(k) /\ x.type = "local"
  BY Received DEF TypeInv, RouteLocal
<1>2. x.symbol \in LocalSymbols(k) BY <1>1, MessageKinds DEF LocalMessage
<1>3. RoutersTyped' BY <1>1, <1>2 DEF TypeInv, RoutersTyped, RouteLocal
<1>4. NodesTyped' BY ClusterUnchanged DEF TypeInv, RouteLocal
<1>5. FlowTyped' BY FlowUnchanged DEF TypeInv, RouteLocal
<1> QED BY <1>3, <1>4, <1>5 DEF TypeInv

LEMMA RouteRemoteTyped == ASSUME TypeInv, NEW k \in Node, RouteRemote(k) PROVE TypeInv'
<1>1. PICK x : x = Head(inbox[k]) OBVIOUS
<1>2. /\ DOMAIN inbox' = Node /\ \A n \in Node : inbox'[n] \in Seq(Message(n))
      /\ x \in Message(k) /\ x.type = "remote"
  BY <1>1, Received DEF TypeInv, RouteRemote
<1>3. /\ x.symbol \in Symbol /\ x.actor \in ActorId /\ x.actor.node = Home[x.symbol]
  BY <1>2, MessageKinds DEF RemoteMessage
<1>4. x.actor.node \in Node /\ x.symbol \in LocalSymbols(x.actor.node)
  BY <1>3 DEF ActorId, LocalSymbols
<1>5. node_symbol_map' = [node_symbol_map EXCEPT ![k][x.actor.node] = Append(@, x.symbol)]
  BY <1>1 DEF RouteRemote
<1>6. ASSUME NEW n \in Node, NEW h \in Node
      PROVE  /\ DOMAIN node_symbol_map'[n] = Node
             /\ node_symbol_map'[n][h] \in Seq(LocalSymbols(h))
  <2>1. DOMAIN node_symbol_map[n] = Node /\ node_symbol_map[n][h] \in Seq(LocalSymbols(h))
        /\ DOMAIN node_symbol_map = Node
    BY DEF TypeInv, RoutersTyped
  <2>2. CASE n = k /\ h = x.actor.node
    <3>1. node_symbol_map'[n][h] = Append(node_symbol_map[n][h], x.symbol)
      BY <2>1, <2>2, <1>5
    <3>2. DOMAIN node_symbol_map'[n] = Node BY <2>1, <2>2, <1>5
    <3> QED BY <3>1, <3>2, <2>1, <2>2, <1>4
  <2>3. CASE ~(n = k /\ h = x.actor.node)
    BY <2>1, <2>3, <1>5
  <2> QED BY <2>2, <2>3
<1>7. DOMAIN symbol_actor_map' = Node /\ DOMAIN node_symbol_map' = Node
  BY <1>5 DEF TypeInv, RoutersTyped, RouteRemote
<1>8. RoutersTyped' BY <1>2, <1>6, <1>7 DEF TypeInv, RoutersTyped, RouteRemote
<1>9. NodesTyped' BY ClusterUnchanged DEF TypeInv, RouteRemote
<1>10. FlowTyped' BY FlowUnchanged DEF TypeInv, RouteRemote
<1> QED BY <1>8, <1>9, <1>10 DEF TypeInv

LEMMA RouteRemoveTyped == ASSUME TypeInv, NEW k \in Node, RouteRemove(k) PROVE TypeInv'
<1>1. PICK x : x = Head(inbox[k]) OBVIOUS
<1>2. /\ DOMAIN inbox' = Node /\ \A n \in Node : inbox'[n] \in Seq(Message(n))
      /\ x \in Message(k) /\ x.type = "remove"
  BY <1>1, Received DEF TypeInv, RouteRemove
<1>3. node_symbol_map' = [node_symbol_map EXCEPT ![k][x.host] = <<>>]
  BY <1>1 DEF RouteRemove
<1>4. \A S : <<>> \in Seq(S) OBVIOUS
<1>5. ASSUME NEW n \in Node, NEW h \in Node
      PROVE  /\ DOMAIN node_symbol_map'[n] = Node
             /\ node_symbol_map'[n][h] \in Seq(LocalSymbols(h))
  BY <1>3, <1>4 DEF TypeInv, RoutersTyped
<1>6. DOMAIN symbol_actor_map' = Node /\ DOMAIN node_symbol_map' = Node
  BY <1>3 DEF TypeInv, RoutersTyped, RouteRemove
<1>7. RoutersTyped' BY <1>2, <1>5, <1>6 DEF TypeInv, RoutersTyped, RouteRemove
<1>8. NodesTyped' BY ClusterUnchanged DEF TypeInv, RouteRemove
<1>9. FlowTyped' BY FlowUnchanged DEF TypeInv, RouteRemove
<1> QED BY <1>7, <1>8, <1>9 DEF TypeInv

\* Whether the thread that has sent request x still waits for it at router k.
Waits(x, k) ==
  /\ x.from = Actor(x.from.node)
  /\ lookup[x.from.node][x.thread] # None
  /\ lookup[x.from.node][x.thread].state = "asked"
  /\ lookup[x.from.node][x.thread].actor = Actor(k)

\* RouteGet, spelled out.
LEMMA RouteGetFacts ==
  ASSUME TypeInv, NEW k \in Node, RouteGet(k)
  PROVE  \E x \in GetMessage :
           /\ x = Head(inbox[k]) /\ x.from.node \in Node /\ x.thread \in Thread
           /\ ~Waits(x, k) => UNCHANGED lookup
           /\ Waits(x, k) =>
                \E l, next \in Lookup(x.from.node) :
                   /\ l = lookup[x.from.node][x.thread]
                   /\ next = [l EXCEPT !.state = "answered", !.symbols = local_symbols[k]]
                   /\ lookup' = [lookup EXCEPT ![x.from.node][x.thread] = next]
<1>1. PICK x : x = Head(inbox[k]) OBVIOUS
<1>2. x \in Message(k) /\ x.type = "get" BY <1>1, Received DEF TypeInv, RouteGet
<1>3. x \in GetMessage BY <1>2, MessageKinds
<1>4. x.from.node \in Node /\ x.thread \in Thread BY <1>3 DEF GetMessage, ActorId
<1>5. ~Waits(x, k) => UNCHANGED lookup BY <1>1 DEF RouteGet, Waits
<1>6. ASSUME Waits(x, k)
      PROVE  \E l, next \in Lookup(x.from.node) :
                   /\ l = lookup[x.from.node][x.thread]
                   /\ next = [l EXCEPT !.state = "answered", !.symbols = local_symbols[k]]
                   /\ lookup' = [lookup EXCEPT ![x.from.node][x.thread] = next]
  <2>1. PICK l : l = lookup[x.from.node][x.thread] OBVIOUS
  <2>2. l # None /\ l.actor = Actor(k) BY <1>6, <2>1 DEF Waits
  <2>3. l \in Lookup(x.from.node) /\ l.actor.node = k
    BY <2>1, <2>2, <1>4, CallTyped DEF Actor
  <2>4. local_symbols[k] \subseteq LocalSymbols(k) /\ LocalSymbols(k) \subseteq Symbol
    BY DEF TypeInv, RoutersTyped, LocalSymbols
  <2>5. PICK next : next = [l EXCEPT !.state = "answered", !.symbols = local_symbols[k]]
    OBVIOUS
  <2>6. next \in Lookup(x.from.node) BY <2>3, <2>4, <2>5 DEF Lookup
  <2>7. lookup' = [lookup EXCEPT ![x.from.node][x.thread] =
                     [@ EXCEPT !.state = "answered", !.symbols = local_symbols[k]]]
    BY <1>1, <1>6 DEF RouteGet, Waits
  <2>8. lookup' = [lookup EXCEPT ![x.from.node][x.thread] = next]
    BY <2>1, <2>5, <2>7, <1>4 DEF TypeInv, NodesTyped
  <2> QED BY <2>1, <2>3, <2>5, <2>6, <2>8
<1> QED BY <1>1, <1>3, <1>4, <1>5, <1>6

LEMMA RouteGetTyped == ASSUME TypeInv, NEW k \in Node, RouteGet(k) PROVE TypeInv'
<1>1. /\ DOMAIN inbox' = Node /\ \A n \in Node : inbox'[n] \in Seq(Message(n))
  BY Received DEF TypeInv, RouteGet
<1>2. PICK x \in GetMessage :
           /\ x.from.node \in Node /\ x.thread \in Thread
           /\ ~Waits(x, k) => UNCHANGED lookup
           /\ Waits(x, k) =>
                \E next \in Lookup(x.from.node) :
                   lookup' = [lookup EXCEPT ![x.from.node][x.thread] = next]
  BY RouteGetFacts
<1>3. /\ DOMAIN lookup' = Node
      /\ \A n \in Node : DOMAIN lookup'[n] = Thread
      /\ \A n \in Node, u \in Thread : lookup'[n][u] \in Lookup(n) \cup {None}
  <2>1. CASE Waits(x, k) BY <2>1, <1>2, CallChanged
  <2>2. CASE ~Waits(x, k) BY <2>2, <1>2 DEF TypeInv, NodesTyped
  <2> QED BY <2>1, <2>2
<1>4. NodesTyped' BY <1>3 DEF TypeInv, NodesTyped, RouteGet, cluster
<1>5. RoutersTyped' BY <1>1, OnlyMailboxes DEF TypeInv, RouteGet
<1>6. FlowTyped' BY FlowUnchanged DEF TypeInv, RouteGet
<1> QED BY <1>4, <1>5, <1>6 DEF TypeInv

LEMMA RouteResultTyped == ASSUME TypeInv, NEW k \in Node, RouteResult(k) PROVE TypeInv'
<1>1. /\ DOMAIN inbox' = Node /\ \A n \in Node : inbox'[n] \in Seq(Message(n))
  BY Received DEF TypeInv, RouteResult
<1>2. RoutersTyped' BY <1>1, OnlyMailboxes DEF TypeInv, RouteResult
<1>3. NodesTyped' BY ClusterUnchanged DEF TypeInv, RouteResult
<1>4. FlowTyped' BY FlowUnchanged DEF TypeInv, RouteResult
<1> QED BY <1>2, <1>3, <1>4 DEF TypeInv

LEMMA RouteOrderTyped == ASSUME TypeInv, NEW k \in Node, RouteOrder(k) PROVE TypeInv'
<1>1. PICK o : o = Head(inbox[k]) OBVIOUS
<1>2. /\ DOMAIN inbox' = Node /\ \A n \in Node : inbox'[n] \in Seq(Message(n))
      /\ o \in Message(k) /\ o.type = "order"
  BY <1>1, Received DEF TypeInv, RouteOrder
<1>3. o.symbol \in Symbol /\ [id |-> o.id, after |-> o.after] \in Arrival
  BY <1>2, MessageKinds DEF OrderMessage, Arrival
<1>4. \/ arrived' = [arrived EXCEPT ![o.symbol] = Append(@, [id |-> o.id, after |-> o.after])]
      \/ UNCHANGED arrived
  BY <1>1 DEF RouteOrder
<1>5. arrived' \in [Symbol -> Seq(Arrival)]
  <2>1. Append(arrived[o.symbol], [id |-> o.id, after |-> o.after]) \in Seq(Arrival)
    BY <1>3 DEF TypeInv, FlowTyped
  <2> QED BY <2>1, <1>3, <1>4 DEF TypeInv, FlowTyped
<1>6. FlowTyped' BY <1>5 DEF TypeInv, FlowTyped, RouteOrder, switch, failure
<1>7. DOMAIN symbol_actor_map' = Node BY DEF RouteOrder, TypeInv, RoutersTyped
<1>8. RoutersTyped' BY <1>2, <1>7 DEF TypeInv, RoutersTyped, RouteOrder
<1>9. NodesTyped' BY ClusterUnchanged DEF TypeInv, RouteOrder
<1> QED BY <1>6, <1>8, <1>9 DEF TypeInv

\* The node an order goes to is one of the stubs.
LEMMA TurnIsAStub == orders \in Nat => Stubs[(orders % Len(Stubs)) + 1] \in Range(Stubs)
<1> SUFFICES ASSUME orders \in Nat PROVE Stubs[(orders % Len(Stubs)) + 1] \in Range(Stubs)
  OBVIOUS
<1>1. PICK l : l = Len(Stubs) OBVIOUS
<1>2. l \in Nat \ {0} /\ DOMAIN Stubs = 1 .. l BY <1>1, StubsAssumption, NonEmptySeq
<1>3. (orders % l) + 1 \in 1 .. l BY <1>2
<1> QED BY <1>1, <1>2, <1>3 DEF Range

LEMMA StubsAreNodes == Range(Stubs) \subseteq Node
BY StubsAssumption DEF Range

\* Match, spelled out: one more call, or the same ones.
LEMMA MatchFacts ==
  ASSUME TypeInv, Match
  PROVE  /\ \A s \in Symbol : Call(s) \in Matching
         /\ orders' = orders + 1
         /\ UNCHANGED <<routers, cluster, lookup, arrived, answered, switch, failure, overtaken>>
         /\ \/ \E s \in Symbol : /\ engine_is_open_[Call(s).node]
                                 /\ matching' = matching \cup {Call(s)}
            \/ matching' = matching
<1>1. orders \in Nat /\ answered \in SUBSET Nat BY DEF TypeInv, FlowTyped
<1>2. Stubs[(orders % Len(Stubs)) + 1] \in Range(Stubs) BY <1>1, TurnIsAStub
<1>3. \A s \in Symbol : Call(s) \in Matching BY <1>1, <1>2 DEF Call, Matching
<1> QED BY <1>3 DEF Match

LEMMA MatchTyped == ASSUME TypeInv, Match PROVE TypeInv'
<1>1. orders' \in Nat /\ matching' \in SUBSET Matching BY MatchFacts DEF TypeInv, FlowTyped
<1>2. FlowTyped' BY <1>1, MatchFacts DEF TypeInv, FlowTyped, switch, failure
<1>3. RoutersTyped' /\ NodesTyped'
  BY RoutersUnchanged, ClusterUnchanged, MatchFacts DEF TypeInv
<1> QED BY <1>2, <1>3 DEF TypeInv

\* RouteMatched, spelled out.
LEMMA RouteMatchedFacts ==
  ASSUME TypeInv, RouteMatched
  PROVE  \E c \in matching :
           /\ c \in Matching /\ c.node \in Node
           /\ OrderOf(c) \in OrderMessage
           /\ <<OrderOf(c)>> \in Seq(Message(c.node))
           /\ Deliver(c.node, <<OrderOf(c)>>)
           /\ matching' = matching \ {c} /\ answered' = answered \cup {c.id}
           /\ stragglers' = [stragglers EXCEPT ![c.node] =
                               IF engine_is_open_[c.node] THEN {} ELSE @ \cup {c.id}]
<1>1. PICK c \in matching :
        /\ Deliver(c.node, <<OrderOf(c)>>)
        /\ matching' = matching \ {c} /\ answered' = answered \cup {c.id}
        /\ stragglers' = [stragglers EXCEPT ![c.node] =
                            IF engine_is_open_[c.node] THEN {} ELSE @ \cup {c.id}]
  BY DEF RouteMatched
<1>2. c \in Matching BY DEF TypeInv, FlowTyped
<1>3. c.node \in Range(Stubs) /\ c.symbol \in Symbol /\ c.id \in Nat /\ c.after \in SUBSET Nat
  BY <1>2 DEF Matching
<1>4. c.node \in Node BY <1>3, StubsAreNodes
<1>5. OrderOf(c) \in OrderMessage BY <1>3 DEF OrderMessage, OrderOf
<1>6. OrderOf(c) \in Message(c.node) BY <1>5 DEF Message
<1>7. <<OrderOf(c)>> \in Seq(Message(c.node)) BY <1>6
<1> QED BY <1>1, <1>2, <1>4, <1>5, <1>7

LEMMA RouteMatchedTyped == ASSUME TypeInv, RouteMatched PROVE TypeInv'
<1>1. PICK c \in matching :
        /\ c \in Matching /\ c.node \in Node
        /\ <<OrderOf(c)>> \in Seq(Message(c.node)) /\ Deliver(c.node, <<OrderOf(c)>>)
        /\ matching' = matching \ {c} /\ answered' = answered \cup {c.id}
        /\ stragglers' = [stragglers EXCEPT ![c.node] =
                            IF engine_is_open_[c.node] THEN {} ELSE @ \cup {c.id}]
  BY RouteMatchedFacts
<1>2. DOMAIN inbox' = Node /\ \A n \in Node : inbox'[n] \in Seq(Message(n))
  BY <1>1, Delivered DEF TypeInv
<1>3. RoutersTyped' BY <1>2, OnlyMailboxes DEF TypeInv, RouteMatched
<1>4. NodesTyped' BY ClusterUnchanged DEF TypeInv, RouteMatched
<1>5. c.id \in Nat BY <1>1 DEF Matching
<1>6. stragglers' \in [Node -> SUBSET Nat] BY <1>1, <1>5 DEF TypeInv, FlowTyped
<1>7. matching' \in SUBSET Matching /\ answered' \in SUBSET Nat
  BY <1>1, <1>5 DEF TypeInv, FlowTyped
<1>8. FlowTyped' BY <1>6, <1>7 DEF TypeInv, FlowTyped, RouteMatched, failure
<1> QED BY <1>3, <1>4, <1>8 DEF TypeInv

LEMMA OpenCloseEngineTyped ==
  ASSUME TypeInv, NEW k \in Node, OpenCloseEngine(k) PROVE TypeInv'
<1>1. RoutersTyped' /\ NodesTyped'
  BY RoutersUnchanged, ClusterUnchanged DEF TypeInv, OpenCloseEngine
<1>2. UnderWay(k) \subseteq Nat BY DEF UnderWay, Matching, TypeInv, FlowTyped
<1>3. FlowTyped' BY <1>2 DEF TypeInv, FlowTyped, OpenCloseEngine, failure
<1> QED BY <1>1, <1>3 DEF TypeInv

LEMMA RestartTyped == ASSUME TypeInv, NEW k \in Node, Restart(k) PROVE TypeInv'
<1>1. \A S : <<>> \in Seq(S) OBVIOUS
<1>2. ASSUME NEW n \in Node PROVE events'[n] \in Seq(Event(n))
  <2>1. events[n] \in Seq(Event(n)) BY DEF TypeInv, NodesTyped
  <2>2. events'[n] = IF n = k THEN <<>>
                     ELSE IF observing[n] THEN Append(events[n], [status |-> "down", node |-> k])
                     ELSE events[n]
    BY DEF Restart
  <2>3. n # k => [status |-> "down", node |-> k] \in Event(n) BY DEF Event
  <2> QED BY <2>1, <2>2, <2>3, <1>1
<1>3. DOMAIN events' = Node BY DEF Restart
<1>4. /\ DOMAIN lookup' = Node
      /\ \A n \in Node : /\ DOMAIN lookup'[n] = Thread
                         /\ \A t \in Thread : lookup'[n][t] \in Lookup(n) \cup {None}
  BY DEF Restart, TypeInv, NodesTyped
<1>5. /\ pc' \in [Node -> Phase] /\ incarnation' \in [Node -> Nat]
      /\ observing' \in [Node -> BOOLEAN]
      /\ DOMAIN members' = Node /\ \A n \in Node : members'[n] \in SUBSET (Node \ {n})
  BY DEF Restart, TypeInv, NodesTyped, Phase
<1>6. NodesTyped' BY <1>2, <1>3, <1>4, <1>5 DEF NodesTyped
<1>7. /\ DOMAIN inbox' = Node /\ \A n \in Node : inbox'[n] \in Seq(Message(n))
      /\ DOMAIN local_symbols' = Node
      /\ \A n \in Node : local_symbols'[n] \in SUBSET LocalSymbols(n)
      /\ DOMAIN symbol_actor_map' = Node
  BY <1>1 DEF Restart, TypeInv, RoutersTyped
<1>8. /\ DOMAIN node_symbol_map' = Node
      /\ \A n \in Node : /\ DOMAIN node_symbol_map'[n] = Node
                         /\ \A h \in Node : node_symbol_map'[n][h] \in Seq(LocalSymbols(h))
  BY <1>1 DEF Restart, TypeInv, RoutersTyped
<1>9. RoutersTyped' BY <1>7, <1>8 DEF RoutersTyped
<1>10. arrived' \in [Symbol -> Seq(Arrival)] BY <1>1 DEF Restart, TypeInv, FlowTyped
<1>11. FlowTyped' BY <1>10 DEF TypeInv, FlowTyped, Restart
<1> QED BY <1>6, <1>9, <1>11 DEF TypeInv

\* The steps there are.
LEMMA NextCases ==
  ASSUME Next
  PROVE  \/ Match \/ RouteMatched
         \/ \E k \in Node :
              \/ Publish(k) \/ Register(k) \/ AddObserver(k) \/ NotifyReady(k) \/ GetMembers(k)
              \/ AddMember(k) \/ Serve(k) \/ UpdateDown(k) \/ UpdateUp(k)
              \/ RouteLocal(k) \/ RouteRemote(k) \/ RouteRemove(k) \/ RouteGet(k)
              \/ RouteResult(k) \/ RouteOrder(k) \/ OpenCloseEngine(k) \/ Restart(k)
              \/ \E t \in Thread : \/ RequestFails(k, t) \/ AddSymbols(k, t)
                                   \/ Connect(k, t) \/ AddResultActor(k, t)
<1>1. "main" \in Thread /\ "observer" \in Thread BY DEF Thread
<1>2. CASE Match \/ RouteMatched BY <1>2
<1>3. CASE \E n \in Range(Stubs) : OpenCloseEngine(n) BY <1>3, StubsAreNodes
<1>4. CASE \E n \in Node : Restart(n) BY <1>4
<1>5. ASSUME NEW n \in Node, Main(n) \/ Observer(n) \/ Router(n)
      PROVE  \/ Publish(n) \/ Register(n) \/ AddObserver(n) \/ NotifyReady(n) \/ GetMembers(n)
             \/ AddMember(n) \/ Serve(n) \/ UpdateDown(n) \/ UpdateUp(n)
             \/ RouteLocal(n) \/ RouteRemote(n) \/ RouteRemove(n) \/ RouteGet(n)
             \/ RouteResult(n) \/ RouteOrder(n)
             \/ \E t \in Thread : AddSymbols(n, t) \/ Connect(n, t) \/ AddResultActor(n, t)
  BY <1>1, <1>5 DEF Main, Observer, Router, AddNewNode
<1>6. CASE System BY <1>5, <1>6 DEF System
<1> QED BY <1>2, <1>3, <1>4, <1>6 DEF Next

LEMMA StepTyped == TypeInv /\ [Next]_vars => TypeInv'
<1> SUFFICES ASSUME TypeInv, [Next]_vars PROVE TypeInv' OBVIOUS
<1>1. CASE Next
  <2>1. CASE Match BY <2>1, MatchTyped
  <2>2. CASE RouteMatched BY <2>2, RouteMatchedTyped
  <2>3. ASSUME NEW k \in Node,
               \/ Publish(k) \/ Register(k) \/ AddObserver(k) \/ NotifyReady(k) \/ GetMembers(k)
               \/ AddMember(k) \/ Serve(k) \/ UpdateDown(k) \/ UpdateUp(k)
        PROVE  TypeInv'
    BY <2>3, PublishTyped, RegisterTyped, AddObserverTyped, NotifyReadyTyped, GetMembersTyped,
       AddMemberTyped, ServeTyped, UpdateDownTyped, UpdateUpTyped
  <2>4. ASSUME NEW k \in Node,
               \/ RouteLocal(k) \/ RouteRemote(k) \/ RouteRemove(k) \/ RouteGet(k)
               \/ RouteResult(k) \/ RouteOrder(k) \/ OpenCloseEngine(k) \/ Restart(k)
        PROVE  TypeInv'
    BY <2>4, RouteLocalTyped, RouteRemoteTyped, RouteRemoveTyped, RouteGetTyped,
       RouteResultTyped, RouteOrderTyped, OpenCloseEngineTyped, RestartTyped
  <2>5. ASSUME NEW k \in Node, NEW t \in Thread,
               RequestFails(k, t) \/ AddSymbols(k, t) \/ Connect(k, t) \/ AddResultActor(k, t)
        PROVE  TypeInv'
    BY <2>5, RequestFailsTyped, AddSymbolsTyped, ConnectTyped, AddResultActorTyped
  <2> QED BY <1>1, <2>1, <2>2, <2>3, <2>4, <2>5, NextCases
<1>2. CASE UNCHANGED vars
  <2>1. UNCHANGED routers /\ UNCHANGED <<cluster, lookup>> /\ UNCHANGED <<flow, failure>>
    BY <1>2 DEF vars
  <2> QED BY <2>1, RoutersUnchanged, ClusterUnchanged, FlowUnchanged DEF TypeInv
<1> QED BY <1>1, <1>2

LEMMA AlwaysTyped == Spec => []TypeInv
<1>1. Init => TypeInv BY InitTyped
<1>2. TypeInv /\ [Next]_vars => TypeInv' BY StepTyped
<1> QED BY <1>1, <1>2, PTL DEF Spec

-----------------------------------------------------------------------------
\* The engine switch.  What the property says of a closed engine is kept by
\* every step: a call that starts has found its engine open, and an order that
\* is delivered was under way before.

\* An engine that was closed already, and is left as it is.
LEMMA StillClosed ==
  ASSUME ClosedLetsNoneIn, NEW n \in Node, ~engine_is_open_[n], admitted'[n] = admitted[n],
         stragglers'[n] \cup UnderWay(n)' \subseteq stragglers[n] \cup UnderWay(n)
  PROVE  stragglers'[n] \cup UnderWay(n)' \subseteq admitted'[n]
BY DEF ClosedLetsNoneIn

LEMMA SwitchStep == TypeInv /\ ClosedLetsNoneIn /\ [Next]_vars => ClosedLetsNoneIn'
<1> SUFFICES ASSUME TypeInv, ClosedLetsNoneIn, [Next]_vars, NEW n \in Node,
                    ~engine_is_open_'[n]
             PROVE  stragglers'[n] \cup UnderWay(n)' \subseteq admitted'[n]
  BY DEF ClosedLetsNoneIn
<1>1. CASE UNCHANGED <<engine_is_open_, stragglers, admitted, matching>>
  BY <1>1, StillClosed DEF UnderWay
<1>2. CASE Match
  <2>1. ~engine_is_open_[n] /\ admitted'[n] = admitted[n] /\ stragglers'[n] = stragglers[n]
    BY <1>2, MatchFacts DEF switch
  <2>2. UnderWay(n)' \subseteq UnderWay(n)
    BY <1>2, <2>1, MatchFacts DEF UnderWay
  <2> QED BY <2>1, <2>2, StillClosed
<1>3. CASE RouteMatched
  <2>1. ~engine_is_open_[n] /\ admitted'[n] = admitted[n]
    BY <1>3 DEF RouteMatched
  <2>2. PICK c \in matching :
          /\ matching' = matching \ {c}
          /\ stragglers' = [stragglers EXCEPT ![c.node] =
                              IF engine_is_open_[c.node] THEN {} ELSE @ \cup {c.id}]
    BY <1>3, RouteMatchedFacts
  <2>3. stragglers'[n] \subseteq stragglers[n] \cup UnderWay(n)
    BY <2>2 DEF TypeInv, FlowTyped, UnderWay
  <2>4. UnderWay(n)' \subseteq UnderWay(n)
    BY <2>2 DEF UnderWay
  <2> QED BY <2>1, <2>3, <2>4, StillClosed
<1>4. ASSUME NEW k \in Node, OpenCloseEngine(k)
      PROVE  stragglers'[n] \cup UnderWay(n)' \subseteq admitted'[n]
  <2>1. UnderWay(n)' = UnderWay(n)
    BY <1>4 DEF OpenCloseEngine, UnderWay
  <2>2. CASE n = k
    <3>1. engine_is_open_[n] BY <1>4, <2>2 DEF OpenCloseEngine, TypeInv, FlowTyped
    <3>2. stragglers'[n] = {} /\ admitted'[n] = UnderWay(n)
      BY <1>4, <2>2, <3>1 DEF OpenCloseEngine, TypeInv, FlowTyped
    <3> QED BY <2>1, <3>2
  <2>3. CASE n # k
    <3>1. /\ ~engine_is_open_[n] /\ stragglers'[n] = stragglers[n]
          /\ admitted'[n] = admitted[n]
      BY <1>4, <2>3 DEF OpenCloseEngine, TypeInv, FlowTyped
    <3> QED BY <2>1, <3>1, StillClosed
  <2> QED BY <2>2, <2>3
<1>5. ASSUME NEW k \in Node, Restart(k)
      PROVE  stragglers'[n] \cup UnderWay(n)' \subseteq admitted'[n]
  <2>1. /\ n # k /\ ~engine_is_open_[n] /\ stragglers'[n] = stragglers[n]
        /\ admitted'[n] = admitted[n]
    BY <1>5 DEF Restart, TypeInv, FlowTyped
  <2>2. UnderWay(n)' \subseteq UnderWay(n)
    BY <1>5 DEF Restart, UnderWay
  <2> QED BY <2>1, <2>2, StillClosed
<1>6. CASE Next
  <2>1. ASSUME NEW k \in Node,
               \/ Publish(k) \/ Register(k) \/ AddObserver(k) \/ NotifyReady(k) \/ GetMembers(k)
               \/ AddMember(k) \/ Serve(k) \/ UpdateDown(k) \/ UpdateUp(k)
        PROVE  UNCHANGED <<engine_is_open_, stragglers, admitted, matching>>
    BY <2>1 DEF Publish, Register, AddObserver, NotifyReady, GetMembers, AddMember, Serve,
       UpdateDown, UpdateUp, flow, switch
  <2>2. ASSUME NEW k \in Node,
               \/ RouteLocal(k) \/ RouteRemote(k) \/ RouteRemove(k) \/ RouteGet(k)
               \/ RouteResult(k) \/ RouteOrder(k)
        PROVE  UNCHANGED <<engine_is_open_, stragglers, admitted, matching>>
    BY <2>2 DEF RouteLocal, RouteRemote, RouteRemove, RouteGet, RouteResult, RouteOrder,
       flow, switch
  <2>3. ASSUME NEW k \in Node, NEW t \in Thread,
               RequestFails(k, t) \/ AddSymbols(k, t) \/ Connect(k, t) \/ AddResultActor(k, t)
        PROVE  UNCHANGED <<engine_is_open_, stragglers, admitted, matching>>
    BY <2>3 DEF RequestFails, AddSymbols, Connect, AddResultActor, flow, switch
  <2> QED BY <1>1, <1>2, <1>3, <1>4, <1>5, <1>6, <2>1, <2>2, <2>3, NextCases
<1>7. CASE UNCHANGED vars
  BY <1>1, <1>7 DEF vars, flow, switch
<1> QED BY <1>6, <1>7

\* A closed engine lets in no orders but those whose calls of Match had found
\* it open before, any number of which may be under way, however the calls,
\* the switches and the restarts interleave (OpenCloseEngine and Match of
\* match_engine_grpc_impl.cc).
THEOREM ClosedStaysClosed == Spec => []ClosedLetsNoneIn
<1>1. Init => ClosedLetsNoneIn BY DEF Init, ClosedLetsNoneIn
<1>2. TypeInv /\ ClosedLetsNoneIn /\ [Next]_vars => ClosedLetsNoneIn' BY SwitchStep
<1> QED BY <1>1, <1>2, AlwaysTyped, PTL DEF Spec

-----------------------------------------------------------------------------
\* The orders arrive in the order in which they were sent, if all of them are
\* sent to one node: its mailbox is the only way they take.  An order that is
\* not yet in the mailbox has not been answered, and so nobody was sent after
\* its answer.

\* No order of q was sent after the answer to one behind it, ...
InOrder(q) ==
  \A i, j \in DOMAIN q :
    q[i] \in OrderMessage /\ q[j] \in OrderMessage /\ i < j => q[j].id \notin q[i].after

\* ... no order of q is one of S, and those known to q are.
NoneOf(q, S)      == \A i \in DOMAIN q : q[i] \in OrderMessage => q[i].id \notin S
AfterWithin(q, S) == \A i \in DOMAIN q : q[i] \in OrderMessage => q[i].after \subseteq S

ArrivedInOrder(w) == \A i, j \in DOMAIN w : i < j => w[j].id \notin w[i].after

\* The calls under way are those of orders not yet answered, one of each.
CallsApart ==
  /\ answered \subseteq 1 .. orders
  /\ \A c \in matching : c.id \in (1 .. orders) \ answered /\ c.after \subseteq answered
  /\ \A c, d \in matching : c.id = d.id => c = d

OneWay ==
  /\ \A n \in Node : n # Stubs[1] => NoneIn(inbox[n], OrderMessage)
  /\ InOrder(inbox[Stubs[1]]) /\ AfterWithin(inbox[Stubs[1]], answered)
  /\ \A s \in Symbol : ArrivedInOrder(arrived[s])
  /\ \A s \in Symbol : \A i \in DOMAIN arrived[s] :
       /\ NoneOf(inbox[Stubs[1]], arrived[s][i].after)
       /\ arrived[s][i].after \subseteq answered
  /\ CallsApart

\* The orders in q2 are orders of q, d places earlier there.
Embeds(q2, q, d) ==
  \A i \in DOMAIN q2 : q2[i] \in OrderMessage => i + d \in DOMAIN q /\ q[i + d] = q2[i]

LEMMA EmbedsAppended ==
  ASSUME NEW S, NEW q \in Seq(S), NEW r \in Seq(S), NoneIn(r, OrderMessage)
  PROVE  Embeds(q \o r, q, 0)
<1> DEFINE n == Len(q)
           m == Len(r)
           c == q \o r
<1>1. /\ c \in Seq(S) /\ n \in Nat /\ m \in Nat /\ n + m = Len(c)
      /\ \A i \in 1 .. n : c[i] = q[i]
      /\ \A i \in 1 .. m : c[n + i] = r[i]
  BY ConcatAt, Places
<1>2. DOMAIN q = 1 .. n /\ DOMAIN r = 1 .. m /\ DOMAIN c = 1 .. (n + m)
  BY <1>1, Places
<1> HIDE DEF n, m, c
<1>3. ASSUME NEW i \in 1 .. (n + m), c[i] \in OrderMessage
      PROVE  i + 0 \in 1 .. n /\ q[i + 0] = c[i]
  <2>1. CASE i > n
    <3>1. i - n \in 1 .. m /\ n + (i - n) = i BY <2>1, <1>1
    <3>2. c[i] = r[i - n] BY <3>1, <1>1
    <3> QED BY <3>1, <3>2, <1>3, <1>2 DEF NoneIn
  <2>2. CASE i <= n
    <3>1. i \in 1 .. n /\ i + 0 = i BY <2>2, <1>1
    <3> QED BY <3>1, <1>1
  <2> QED BY <2>1, <2>2, <1>1
<1>4. Embeds(c, q, 0) BY <1>3, <1>2 DEF Embeds
<1> QED BY <1>4 DEF c

LEMMA EmbedsTail ==
  ASSUME NEW S, NEW q \in Seq(S), q # <<>> PROVE Embeds(Tail(q), q, 1)
<1> DEFINE n == Len(q)
           t == Tail(q)
<1>1. /\ n \in Nat \ {0} /\ DOMAIN q = 1 .. n /\ DOMAIN t = 1 .. (n - 1)
      /\ \A i \in 1 .. (n - 1) : t[i] = q[i + 1]
  BY NonEmptySeq, Places
<1> HIDE DEF n, t
<1>2. ASSUME NEW i \in 1 .. (n - 1) PROVE i + 1 \in 1 .. n BY <1>1
<1>3. Embeds(t, q, 1) BY <1>1, <1>2 DEF Embeds
<1> QED BY <1>3 DEF t

LEMMA EmbedsSame ==
  ASSUME NEW S, NEW q \in Seq(S) PROVE Embeds(q, q, 0) /\ Embeds(<<>>, q, 0)
<1>1. \A i \in DOMAIN q : i + 0 = i OBVIOUS
<1>2. DOMAIN <<>> = {} BY EmptySeq
<1> QED BY <1>1, <1>2 DEF Embeds

\* What holds of the orders in q holds of those embedded in it.
LEMMA EmbedsKeeps ==
  ASSUME NEW S, NEW q \in Seq(S), NEW q2 \in Seq(S), NEW d \in Nat, Embeds(q2, q, d)
  PROVE  /\ NoneIn(q, OrderMessage) => NoneIn(q2, OrderMessage)
         /\ InOrder(q) => InOrder(q2)
         /\ \A T : NoneOf(q, T) => NoneOf(q2, T)
         /\ \A T : AfterWithin(q, T) => AfterWithin(q2, T)
<1>1. ASSUME NEW i \in DOMAIN q2, q2[i] \in OrderMessage
      PROVE  i + d \in DOMAIN q /\ q[i + d] = q2[i]
  BY <1>1 DEF Embeds
<1>2. NoneIn(q, OrderMessage) => NoneIn(q2, OrderMessage) BY <1>1 DEF NoneIn
<1>3. ASSUME InOrder(q), NEW i \in DOMAIN q2, NEW j \in DOMAIN q2,
             q2[i] \in OrderMessage, q2[j] \in OrderMessage, i < j
      PROVE  q2[j].id \notin q2[i].after
  <2>1. i + d < j + d BY <1>3
  <2> QED BY <2>1, <1>1, <1>3 DEF InOrder
<1>4. ASSUME NEW T, NoneOf(q, T) PROVE NoneOf(q2, T)
  BY <1>1, <1>4 DEF NoneOf
<1>5. ASSUME NEW T, AfterWithin(q, T) PROVE AfterWithin(q2, T)
  BY <1>1, <1>5 DEF AfterWithin
<1> QED BY <1>2, <1>3, <1>4, <1>5 DEF InOrder

\* The steps that send no order.
LEMMA DeliveredEmbeds ==
  ASSUME RoutersTyped, NEW k \in Node, NEW r \in Seq(Message(k)), Deliver(k, r),
         NoneIn(r, OrderMessage), NEW n \in Node
  PROVE  \E d \in Nat : Embeds(inbox'[n], inbox[n], d)
<1>1. inbox[n] \in Seq(Message(n)) BY DEF RoutersTyped
<1>2. inbox'[k] = inbox[k] \o r /\ (n # k => inbox'[n] = inbox[n]) BY Delivered
<1>3. n = k => Embeds(inbox[k] \o r, inbox[n], 0) BY <1>1, EmbedsAppended
<1>4. Embeds(inbox[n], inbox[n], 0) BY <1>1, EmbedsSame
<1> QED BY <1>2, <1>3, <1>4

LEMMA ReceivedEmbeds ==
  ASSUME RoutersTyped, NEW k \in Node, NEW y, Receives(k, y), NEW n \in Node
  PROVE  \E d \in Nat : Embeds(inbox'[n], inbox[n], d)
<1>1. inbox[n] \in Seq(Message(n)) BY DEF RoutersTyped
<1>2. /\ inbox[k] # <<>> /\ inbox'[k] = Tail(inbox[k])
      /\ n # k => inbox'[n] = inbox[n]
  BY Received
<1>3. n = k => Embeds(Tail(inbox[k]), inbox[n], 1) BY <1>1, <1>2, EmbedsTail
<1>4. Embeds(inbox[n], inbox[n], 0) BY <1>1, EmbedsSame
<1> QED BY <1>2, <1>3, <1>4

LEMMA UnchangedEmbeds ==
  ASSUME RoutersTyped, UNCHANGED inbox, NEW n \in Node
  PROVE  \E d \in Nat : Embeds(inbox'[n], inbox[n], d)
<1>1. inbox[n] \in Seq(Message(n)) BY DEF RoutersTyped
<1> QED BY <1>1, EmbedsSame

\* Messages that are no orders.
LEMMA OtherMessages ==
  ASSUME NEW n
  PROVE  /\ \A x \in LocalMessage(n) : x \notin OrderMessage
         /\ \A x \in RemoteMessage(n) : x \notin OrderMessage
         /\ \A x \in RemoveMessage(n) : x \notin OrderMessage
         /\ \A x \in GetMessage : x \notin OrderMessage
         /\ \A x \in ResultMessage : x \notin OrderMessage
BY DEF LocalMessage, RemoteMessage, RemoveMessage, GetMessage, ResultMessage, OrderMessage

LEMMA RegisterEmbeds ==
  ASSUME TypeInv, NEW k \in Node, Register(k), NEW n \in Node
  PROVE  \E d \in Nat : Embeds(inbox'[n], inbox[n], d)
<1> DEFINE r == SetToSeq(LocalsOf(k))
           x == [type |-> "result", actor |-> Actor(k)]
           q == IF k = ResultHost THEN <<x>> ELSE <<>>
<1>1. r \in Seq(LocalMessage(k)) BY LocalsSent
<1>2. x \in ResultMessage BY DEF TypeInv, NodesTyped, Actor, ActorId, ResultMessage
<1>3. Deliver(k, r \o q) BY DEF Register, LocalsOf
<1>4. q \in Seq(ResultMessage) BY <1>2
<1> HIDE DEF r, q
<1>5. r \o q \in Seq(LocalMessage(k) \cup ResultMessage) BY <1>1, <1>4
<1>6. \A i \in DOMAIN (r \o q) : (r \o q)[i] \in LocalMessage(k) \cup ResultMessage
  BY <1>5
<1>7. NoneIn(r \o q, OrderMessage) BY <1>6, OtherMessages DEF NoneIn
<1>8. r \o q \in Seq(Message(k)) BY <1>5 DEF Message
<1> QED BY <1>3, <1>7, <1>8, DeliveredEmbeds DEF TypeInv

LEMMA AskEmbeds ==
  ASSUME TypeInv, NEW k \in Node, NEW t \in Thread, NEW m \in Node \ {k}, Ask(k, t, m),
         NEW n \in Node
  PROVE  \E d \in Nat : Embeds(inbox'[n], inbox[n], d)
<1> DEFINE x == [type |-> "get", from |-> Actor(k), thread |-> t]
<1>1. x \in GetMessage BY AskFacts DEF NewRequest
<1>2. x \in Message(m) /\ x \notin OrderMessage BY <1>1, OtherMessages DEF Message
<1>3. <<x>> \in Seq(Message(m)) /\ NoneIn(<<x>>, OrderMessage)
  BY <1>2, NoneInOne
<1>4. Deliver(m, <<x>>) \/ UNCHANGED inbox BY DEF Ask
<1> QED BY <1>3, <1>4, DeliveredEmbeds, UnchangedEmbeds DEF TypeInv

LEMMA UpdateDownEmbeds ==
  ASSUME TypeInv, NEW k \in Node, UpdateDown(k), NEW n \in Node
  PROVE  \E d \in Nat : Embeds(inbox'[n], inbox[n], d)
<1> DEFINE x == [type |-> "remove", host |-> Head(events[k]).node]
<1>1. Head(events[k]).node \in Node \ {k} BY EventTaken DEF UpdateDown
<1>2. x \in RemoveMessage(k) BY <1>1 DEF RemoveMessage
<1>3. x \in Message(k) /\ x \notin OrderMessage BY <1>2, OtherMessages DEF Message
<1>4. <<x>> \in Seq(Message(k)) /\ NoneIn(<<x>>, OrderMessage)
  BY <1>3, NoneInOne
<1>5. Deliver(k, <<x>>) BY DEF UpdateDown
<1> QED BY <1>4, <1>5, DeliveredEmbeds DEF TypeInv

LEMMA AddSymbolsEmbeds ==
  ASSUME TypeInv, NEW k \in Node, NEW t \in Thread, AddSymbols(k, t), NEW n \in Node
  PROVE  \E d \in Nat : Embeds(inbox'[n], inbox[n], d)
<1>1. PICK l \in Lookup(k), r \in Seq(Message(k)) :
         /\ r \in Seq(RemotesOf(l.symbols, l.actor)) /\ Deliver(k, r)
  BY AddSymbolsFacts
<1>2. \A x \in RemotesOf(l.symbols, l.actor) : x \notin OrderMessage
  BY DEF RemotesOf, OrderMessage
<1>3. \A i \in DOMAIN r : r[i] \in RemotesOf(l.symbols, l.actor) BY <1>1
<1>4. NoneIn(r, OrderMessage) BY <1>2, <1>3 DEF NoneIn
<1> QED BY <1>1, <1>4, DeliveredEmbeds DEF TypeInv

LEMMA AddResultActorEmbeds ==
  ASSUME TypeInv, NEW k \in Node, NEW t \in Thread, AddResultActor(k, t), NEW n \in Node
  PROVE  \E d \in Nat : Embeds(inbox'[n], inbox[n], d)
<1>1. PICK l : l = lookup[k][t] OBVIOUS
<1>2. l # None BY <1>1 DEF AddResultActor
<1>3. l.actor \in ActorId BY <1>1, <1>2, CallTyped
<1> DEFINE x == [type |-> "result", actor |-> l.actor]
<1>4. x \in ResultMessage BY <1>3 DEF ResultMessage
<1>5. x \in Message(k) /\ x \notin OrderMessage BY <1>4, OtherMessages DEF Message
<1>6. <<x>> \in Seq(Message(k)) /\ NoneIn(<<x>>, OrderMessage)
  BY <1>5, NoneInOne
<1>7. Deliver(k, <<x>>) BY <1>1 DEF AddResultActor
<1> QED BY <1>6, <1>7, DeliveredEmbeds DEF TypeInv

LEMMA FirstStub == Stubs[1] \in Node
<1>1. 1 \in DOMAIN Stubs BY StubsAssumption, NonEmptySeq
<1> QED BY <1>1, StubsAssumption

\* Steps that send no order, and in which none arrives.
LEMMA OneWayKept ==
  ASSUME TypeInv, TypeInv', OneWay, \A n \in Node : \E d \in Nat : Embeds(inbox'[n], inbox[n], d),
         UNCHANGED <<orders, answered>>, matching' \subseteq matching,
         \A s \in Symbol : arrived'[s] = arrived[s] \/ arrived'[s] = <<>>
  PROVE  OneWay'
<1> DEFINE h == Stubs[1]
<1>1. h \in Node BY FirstStub
<1>2. ASSUME NEW n \in Node
      PROVE  /\ NoneIn(inbox[n], OrderMessage) => NoneIn(inbox'[n], OrderMessage)
             /\ InOrder(inbox[n]) => InOrder(inbox'[n])
             /\ \A T : NoneOf(inbox[n], T) => NoneOf(inbox'[n], T)
             /\ \A T : AfterWithin(inbox[n], T) => AfterWithin(inbox'[n], T)
  <2>1. inbox[n] \in Seq(Message(n)) /\ inbox'[n] \in Seq(Message(n))
    BY DEF TypeInv, RoutersTyped
  <2>2. PICK d \in Nat : Embeds(inbox'[n], inbox[n], d) OBVIOUS
  <2> QED BY <2>1, <2>2, EmbedsKeeps
<1>3. DOMAIN <<>> = {} BY EmptySeq
<1>4. \A n \in Node : n # Stubs[1] => NoneIn(inbox'[n], OrderMessage)
  BY <1>2 DEF OneWay
<1>5. InOrder(inbox'[h]) /\ AfterWithin(inbox'[h], answered')
  BY <1>1, <1>2 DEF OneWay
<1>6. ASSUME NEW s \in Symbol
      PROVE  /\ ArrivedInOrder(arrived'[s])
             /\ \A i \in DOMAIN arrived'[s] :
                  /\ NoneOf(inbox'[h], arrived'[s][i].after)
                  /\ arrived'[s][i].after \subseteq answered'
  <2>1. CASE arrived'[s] = <<>> BY <2>1, <1>3 DEF ArrivedInOrder
  <2>2. CASE arrived'[s] = arrived[s]
    <3>1. ArrivedInOrder(arrived[s]) BY DEF OneWay
    <3>2. \A i \in DOMAIN arrived[s] : /\ NoneOf(inbox[h], arrived[s][i].after)
                                       /\ arrived[s][i].after \subseteq answered
      BY DEF OneWay
    <3> QED BY <2>2, <3>1, <3>2, <1>1, <1>2
  <2> QED BY <2>1, <2>2
<1>7. CallsApart' BY DEF OneWay, CallsApart
<1> QED BY <1>4, <1>5, <1>6, <1>7 DEF OneWay

\* The next order is sent or refused.
LEMMA MatchOneWay == ASSUME TypeInv, OneWay, Match PROVE OneWay'
<1>1. /\ orders' = orders + 1 /\ orders \in Nat
      /\ UNCHANGED <<inbox, arrived, answered>>
  BY MatchFacts DEF TypeInv, FlowTyped, routers
<1>2. CallsApart BY DEF OneWay
<1>3. 1 .. orders \subseteq 1 .. orders' /\ orders + 1 \in 1 .. orders' BY <1>1
<1>4. orders + 1 \notin 1 .. orders BY <1>1
<1>5. ASSUME NEW s \in Symbol, NEW c, c = Call(s), matching' = matching \cup {c}
      PROVE  CallsApart'
  <2>1. c.id = orders + 1 /\ c.after = answered BY <1>5 DEF Call
  <2>2. \A d \in matching : d.id # c.id BY <2>1, <1>2, <1>4 DEF CallsApart
  <2>3. \A d, e \in matching' : d.id = e.id => d = e BY <2>2, <1>2, <1>5 DEF CallsApart
  <2>4. \A d \in matching' : d.id \in (1 .. orders') \ answered' /\ d.after \subseteq answered'
    BY <2>1, <1>1, <1>2, <1>3, <1>4, <1>5 DEF CallsApart
  <2> QED BY <2>3, <2>4, <1>1, <1>2, <1>3 DEF CallsApart
<1>6. matching' = matching => CallsApart' BY <1>1, <1>2, <1>3 DEF CallsApart
<1>7. CallsApart' BY <1>5, <1>6, MatchFacts
<1> QED BY <1>1, <1>7 DEF OneWay

\* The order is put into the mailbox.
LEMMA RouteMatchedOneWay ==
  ASSUME Len(Stubs) = 1, TypeInv, OneWay, RouteMatched PROVE OneWay'
<1>1. PICK c \in matching :
        /\ c \in Matching /\ OrderOf(c) \in OrderMessage
        /\ <<OrderOf(c)>> \in Seq(Message(c.node)) /\ Deliver(c.node, <<OrderOf(c)>>)
        /\ matching' = matching \ {c} /\ answered' = answered \cup {c.id}
  BY RouteMatchedFacts
<1>2. PICK o : o = OrderOf(c) OBVIOUS
<1>3. PICK q : q = inbox[Stubs[1]] OBVIOUS
<1>4. c.node = Stubs[1] /\ Stubs[1] \in Node
  <2>1. DOMAIN Stubs = {1} BY StubsAssumption, NonEmptySeq
  <2>2. c.node \in Range(Stubs) BY <1>1 DEF Matching
  <2> QED BY <2>1, <2>2, FirstStub DEF Range
<1>5. /\ inbox'[Stubs[1]] = q \o <<o>>
      /\ \A n \in Node \ {Stubs[1]} : inbox'[n] = inbox[n]
      /\ q \in Seq(Message(Stubs[1]))
  BY <1>1, <1>2, <1>3, <1>4, Delivered DEF TypeInv, RoutersTyped
<1>6. UNCHANGED <<orders, arrived>> BY DEF RouteMatched
<1>7. CallsApart BY DEF OneWay
<1>8. /\ o \in OrderMessage /\ o.id = c.id /\ o.after = c.after
      /\ o.id \notin answered /\ o.after \subseteq answered
  BY <1>1, <1>2, <1>7 DEF OrderOf, CallsApart
<1> DEFINE n == Len(q)
           w == q \o <<o>>
<1>9. /\ n \in Nat /\ DOMAIN q = 1 .. n /\ DOMAIN w = 1 .. (n + 1)
      /\ \A i \in 1 .. n : w[i] = q[i]
      /\ w[n + 1] = o
  BY <1>5
<1> HIDE DEF n, w
<1>10. ASSUME NEW i \in 1 .. (n + 1) PROVE (i \in 1 .. n /\ w[i] = q[i]) \/ (i = n + 1 /\ w[i] = o)
  BY <1>9
<1>11. AfterWithin(q, answered) BY <1>3 DEF OneWay
<1>12. ASSUME NEW i \in 1 .. (n + 1), NEW j \in 1 .. (n + 1), w[i] \in OrderMessage,
              w[j] \in OrderMessage, i < j
       PROVE  w[j].id \notin w[i].after
  <2>1. i \in 1 .. n /\ w[i] = q[i] BY <1>9, <1>10, <1>12
  <2>2. CASE j \in 1 .. n /\ w[j] = q[j]
    <3>1. InOrder(q) BY <1>3 DEF OneWay
    <3> QED BY <3>1, <2>1, <2>2, <1>9, <1>12 DEF InOrder
  <2>3. CASE w[j] = o
    <3>1. w[i].after \subseteq answered BY <2>1, <1>9, <1>11, <1>12 DEF AfterWithin
    <3> QED BY <3>1, <2>3, <1>8
  <2> QED BY <1>10, <2>2, <2>3
<1>13. InOrder(w) BY <1>9, <1>12 DEF InOrder
<1>14. AfterWithin(w, answered') BY <1>1, <1>8, <1>9, <1>10, <1>11 DEF AfterWithin
<1>15. ASSUME NEW s \in Symbol, NEW k \in DOMAIN arrived[s]
       PROVE  NoneOf(w, arrived[s][k].after) /\ arrived[s][k].after \subseteq answered'
  <2>1. NoneOf(q, arrived[s][k].after) /\ arrived[s][k].after \subseteq answered
    BY <1>3 DEF OneWay
  <2> QED BY <2>1, <1>1, <1>8, <1>9, <1>10 DEF NoneOf
<1>16. CallsApart'
  <2>1. \A d \in matching' : d.id # c.id BY <1>1, <1>7 DEF CallsApart
  <2>2. answered' \subseteq 1 .. orders BY <1>1, <1>7 DEF CallsApart
  <2> QED BY <2>1, <2>2, <1>1, <1>6, <1>7 DEF CallsApart
<1>17. inbox'[Stubs[1]] = w BY <1>5 DEF w
<1>18. \A m \in Node : m # Stubs[1] => NoneIn(inbox'[m], OrderMessage)
  BY <1>5 DEF OneWay
<1>19. \A s \in Symbol : ArrivedInOrder(arrived'[s]) BY <1>6 DEF OneWay
<1>20. \A s \in Symbol : \A i \in DOMAIN arrived'[s] :
         /\ NoneOf(inbox'[Stubs[1]], arrived'[s][i].after)
         /\ arrived'[s][i].after \subseteq answered'
  BY <1>6, <1>15, <1>17
<1> QED BY <1>13, <1>14, <1>16, <1>17, <1>18, <1>19, <1>20 DEF OneWay

\* The router takes an order, which may arrive.
LEMMA RouteOrderOneWay ==
  ASSUME TypeInv, TypeInv', OneWay, NEW k \in Node, RouteOrder(k) PROVE OneWay'
<1>1. PICK o : o = Head(inbox[k]) OBVIOUS
<1>2. /\ inbox[k] # <<>> /\ inbox[k] \in Seq(Message(k))
      /\ o \in Message(k) /\ o.type = "order" /\ inbox'[k] = Tail(inbox[k])
      /\ \A n \in Node \ {k} : inbox'[n] = inbox[n]
  BY <1>1, Received DEF TypeInv, RouteOrder, RoutersTyped
<1>3. o \in OrderMessage /\ o.symbol \in Symbol /\ o.id \in Nat /\ o.after \in SUBSET Nat
  BY <1>2, MessageKinds DEF OrderMessage
<1>4. k = Stubs[1]
  <2>1. ~NoneIn(inbox[k], OrderMessage) BY <1>1, <1>2, <1>3, NoneInTail
  <2> QED BY <2>1 DEF OneWay
<1>5. PICK q : q = inbox[k] OBVIOUS
<1> DEFINE n == Len(q)
           t == Tail(q)
<1>6. /\ n \in Nat \ {0} /\ DOMAIN q = 1 .. n /\ q[1] = o /\ DOMAIN t = 1 .. (n - 1)
      /\ \A i \in 1 .. (n - 1) : t[i] = q[i + 1]
  BY <1>1, <1>2, <1>5, NonEmptySeq, Places
<1>7. t = inbox'[k] BY <1>2, <1>5
<1> HIDE DEF n, t
<1>8. ASSUME NEW m \in Node PROVE \E d \in Nat : Embeds(inbox'[m], inbox[m], d)
  BY ReceivedEmbeds DEF TypeInv, RouteOrder
<1>9. UNCHANGED <<orders, matching, answered>> BY DEF RouteOrder
<1>10. PICK x : x = [id |-> o.id, after |-> o.after] OBVIOUS
<1>11. \/ arrived' = [arrived EXCEPT ![o.symbol] = Append(@, x)]
       \/ arrived' = arrived
  BY <1>1, <1>10 DEF RouteOrder
<1>12. CASE arrived' = arrived
  BY <1>8, <1>9, <1>12, OneWayKept
<1>13. CASE arrived' = [arrived EXCEPT ![o.symbol] = Append(@, x)]
  <2>1. InOrder(q) /\ AfterWithin(q, answered) BY <1>4, <1>5 DEF OneWay
  <2>2. ASSUME NEW i \in 1 .. (n - 1), t[i] \in OrderMessage PROVE t[i].id \notin o.after
    <3>1. 1 \in 1 .. n /\ i + 1 \in 1 .. n /\ 1 < i + 1 BY <1>6
    <3> QED BY <3>1, <2>1, <2>2, <1>3, <1>6 DEF InOrder
  <2>3. NoneOf(t, x.after) /\ x.after \subseteq answered
    <3>1. 1 \in 1 .. n BY <1>6
    <3>2. o.after \subseteq answered BY <3>1, <2>1, <1>3, <1>6 DEF AfterWithin
    <3> QED BY <3>2, <2>2, <1>6, <1>10 DEF NoneOf
  <2>4. PICK w : w = arrived[o.symbol] OBVIOUS
  <2> DEFINE l == Len(w)
             v == Append(w, x)
  <2>5. /\ l \in Nat /\ DOMAIN w = 1 .. l /\ DOMAIN v = 1 .. (l + 1)
        /\ \A i \in 1 .. l : v[i] = w[i]
        /\ v[l + 1] = x
    <3>1. w \in Seq(Arrival) BY <2>4, <1>3 DEF TypeInv, FlowTyped
    <3>2. x \in Arrival BY <1>3, <1>10 DEF Arrival
    <3> QED BY <3>1, <3>2
  <2>6. arrived'[o.symbol] = v /\ \A s \in Symbol \ {o.symbol} : arrived'[s] = arrived[s]
    BY <1>3, <1>13, <2>4 DEF TypeInv, FlowTyped
  <2> HIDE DEF l, v
  <2>7. ASSUME NEW i \in 1 .. (l + 1)
        PROVE  (i \in 1 .. l /\ v[i] = w[i]) \/ (i = l + 1 /\ v[i] = x)
    BY <2>5
  <2>8. ASSUME NEW i \in 1 .. l PROVE x.id \notin w[i].after
    <3>1. NoneOf(q, w[i].after) BY <2>4, <2>5, <1>3, <1>4, <1>5 DEF OneWay
    <3>2. 1 \in 1 .. n BY <1>6
    <3> QED BY <3>1, <3>2, <1>3, <1>6, <1>10 DEF NoneOf
  <2>9. ArrivedInOrder(w) BY <2>4, <1>3 DEF OneWay
  <2>10. ASSUME NEW i \in 1 .. (l + 1), NEW j \in 1 .. (l + 1), i < j
         PROVE  v[j].id \notin v[i].after
    <3>1. i \in 1 .. l /\ v[i] = w[i] BY <2>5, <2>7, <2>10
    <3>2. CASE j \in 1 .. l /\ v[j] = w[j]
      BY <3>1, <3>2, <2>5, <2>9, <2>10 DEF ArrivedInOrder
    <3>3. CASE v[j] = x BY <3>1, <3>3, <2>8
    <3> QED BY <3>2, <3>3, <2>7
  <2>11. ArrivedInOrder(v) BY <2>5, <2>10 DEF ArrivedInOrder
  <2>12. PICK d \in Nat : Embeds(t, q, d) BY <1>5, <1>7, <1>8
  <2>13. q \in Seq(Message(k)) /\ t \in Seq(Message(k))
    BY <1>2, <1>5, <1>7 DEF TypeInv, RoutersTyped
  <2>14. InOrder(t) /\ AfterWithin(t, answered) BY <2>1, <2>12, <2>13, EmbedsKeeps
  <2>15. ASSUME NEW s \in Symbol, NEW i \in DOMAIN arrived'[s], NEW a, a = arrived'[s][i]
         PROVE  NoneOf(t, a.after) /\ a.after \subseteq answered
    <3>1. ASSUME NEW r \in Symbol, NEW j \in DOMAIN arrived[r], a = arrived[r][j]
          PROVE  NoneOf(t, a.after) /\ a.after \subseteq answered
      <4>1. NoneOf(q, a.after) /\ a.after \subseteq answered BY <3>1, <1>4, <1>5 DEF OneWay
      <4> QED BY <4>1, <2>12, <2>13, EmbedsKeeps
    <3>2. CASE s # o.symbol BY <3>1, <3>2, <2>6, <2>15
    <3>3. CASE s = o.symbol /\ a = x BY <3>3, <2>3
    <3>4. CASE s = o.symbol /\ i \in 1 .. l /\ v[i] = w[i]
      BY <3>1, <3>4, <2>4, <2>5, <2>6, <2>15
    <3>5. s = o.symbol => i \in 1 .. (l + 1) /\ a = v[i] BY <2>5, <2>6, <2>15
    <3> QED BY <3>2, <3>3, <3>4, <3>5, <2>7
  <2>16. \A m \in Node : m # Stubs[1] => NoneIn(inbox'[m], OrderMessage)
    BY <1>2, <1>4 DEF OneWay
  <2>17. \A s \in Symbol : ArrivedInOrder(arrived'[s]) BY <2>6, <2>11 DEF OneWay
  <2>18. CallsApart' BY <1>9 DEF OneWay, CallsApart
  <2> QED BY <2>14, <2>15, <2>16, <2>17, <2>18, <1>4, <1>7, <1>9 DEF OneWay
<1> QED BY <1>11, <1>12, <1>13

LEMMA OneWayStep == Len(Stubs) = 1 /\ TypeInv /\ OneWay /\ [Next]_vars => OneWay'
<1> SUFFICES ASSUME Len(Stubs) = 1, TypeInv, OneWay, [Next]_vars PROVE OneWay' OBVIOUS
<1>1. TypeInv' BY StepTyped
<1>2. ASSUME UNCHANGED <<inbox, flow>> PROVE OneWay'
  <2>1. \A n \in Node : \E d \in Nat : Embeds(inbox'[n], inbox[n], d)
    BY <1>2, UnchangedEmbeds DEF TypeInv
  <2> QED BY <2>1, <1>1, <1>2, OneWayKept DEF flow
<1>3. ASSUME \A n \in Node : \E d \in Nat : Embeds(inbox'[n], inbox[n], d), UNCHANGED flow
      PROVE  OneWay'
  BY <1>1, <1>3, OneWayKept DEF flow
<1>4. CASE Next
  <2>1. CASE Match BY <2>1, MatchOneWay
  <2>2. CASE RouteMatched BY <2>2, RouteMatchedOneWay
  <2>3. ASSUME NEW k \in Node,
               \/ Publish(k) \/ AddObserver(k) \/ NotifyReady(k) \/ GetMembers(k) \/ Serve(k)
        PROVE  OneWay'
    BY <1>2, <2>3 DEF Publish, AddObserver, NotifyReady, GetMembers, Serve, routers
  <2>4. ASSUME NEW k \in Node, Register(k) PROVE OneWay'
    <3>1. UNCHANGED flow BY <2>4 DEF Register
    <3>2. \A n \in Node : \E d \in Nat : Embeds(inbox'[n], inbox[n], d)
      BY <2>4, RegisterEmbeds
    <3> QED BY <3>1, <3>2, <1>3
  <2>5. ASSUME NEW k \in Node, AddMember(k) PROVE OneWay'
    <3>1. UNCHANGED flow BY <2>5 DEF AddMember
    <3>2. PICK m \in Node \ {k} : Ask(k, "main", m)
      BY <2>5 DEF AddMember, TypeInv, NodesTyped
    <3>3. "main" \in Thread BY DEF Thread
    <3>4. \A n \in Node : \E d \in Nat : Embeds(inbox'[n], inbox[n], d)
      BY <3>2, <3>3, AskEmbeds
    <3> QED BY <3>1, <3>4, <1>3
  <2>6. ASSUME NEW k \in Node, UpdateUp(k) PROVE OneWay'
    <3>1. UNCHANGED flow BY <2>6 DEF UpdateUp
    <3>2. PICK m \in Node \ {k} : Ask(k, "observer", m)
      BY <2>6, EventTaken DEF UpdateUp
    <3>3. "observer" \in Thread BY DEF Thread
    <3>4. \A n \in Node : \E d \in Nat : Embeds(inbox'[n], inbox[n], d)
      BY <3>2, <3>3, AskEmbeds
    <3> QED BY <3>1, <3>4, <1>3
  <2>7. ASSUME NEW k \in Node, UpdateDown(k) PROVE OneWay'
    <3>1. UNCHANGED flow BY <2>7 DEF UpdateDown
    <3>2. \A n \in Node : \E d \in Nat : Embeds(inbox'[n], inbox[n], d)
      BY <2>7, UpdateDownEmbeds
    <3> QED BY <3>1, <3>2, <1>3
  <2>8. ASSUME NEW k \in Node,
               \/ RouteLocal(k) \/ RouteRemote(k) \/ RouteRemove(k) \/ RouteGet(k)
               \/ RouteResult(k)
        PROVE  OneWay'
    <3>1. UNCHANGED flow
      BY <2>8 DEF RouteLocal, RouteRemote, RouteRemove, RouteGet, RouteResult
    <3>2. PICK y : Receives(k, y)
      BY <2>8 DEF RouteLocal, RouteRemote, RouteRemove, RouteGet, RouteResult
    <3>3. \A n \in Node : \E d \in Nat : Embeds(inbox'[n], inbox[n], d)
      BY <3>2, ReceivedEmbeds DEF TypeInv
    <3> QED BY <3>1, <3>3, <1>3
  <2>9. ASSUME NEW k \in Node, RouteOrder(k) PROVE OneWay'
    BY <2>9, <1>1, RouteOrderOneWay
  <2>10. ASSUME NEW k \in Node, OpenCloseEngine(k) PROVE OneWay'
    <3>1. UNCHANGED <<inbox, arrived, orders, matching, answered>>
      BY <2>10 DEF OpenCloseEngine, routers
    <3>2. \A n \in Node : \E d \in Nat : Embeds(inbox'[n], inbox[n], d)
      BY <3>1, UnchangedEmbeds DEF TypeInv
    <3> QED BY <3>1, <3>2, <1>1, OneWayKept
  <2>11. ASSUME NEW k \in Node, Restart(k) PROVE OneWay'
    <3>1. /\ UNCHANGED <<orders, answered>> /\ matching' \subseteq matching
          /\ \A s \in Symbol : arrived'[s] = arrived[s] \/ arrived'[s] = <<>>
      BY <2>11 DEF Restart
    <3>2. ASSUME NEW n \in Node PROVE \E d \in Nat : Embeds(inbox'[n], inbox[n], d)
      <4>1. inbox'[n] = inbox[n] \/ inbox'[n] = <<>>
        BY <2>11 DEF Restart, TypeInv, RoutersTyped
      <4>2. inbox[n] \in Seq(Message(n)) BY DEF TypeInv, RoutersTyped
      <4>3. Embeds(inbox[n], inbox[n], 0) /\ Embeds(<<>>, inbox[n], 0)
        BY <4>2, EmbedsSame
      <4> QED BY <4>1, <4>3
    <3> QED BY <3>1, <3>2, <1>1, OneWayKept
  <2>12. ASSUME NEW k \in Node, NEW t \in Thread,
                RequestFails(k, t) \/ Connect(k, t)
         PROVE  OneWay'
    BY <1>2, <2>12 DEF RequestFails, Connect, routers
  <2>13. ASSUME NEW k \in Node, NEW t \in Thread,
                AddSymbols(k, t) \/ AddResultActor(k, t)
         PROVE  OneWay'
    <3>1. UNCHANGED flow BY <2>13 DEF AddSymbols, AddResultActor
    <3>2. \A n \in Node : \E d \in Nat : Embeds(inbox'[n], inbox[n], d)
      BY <2>13, AddSymbolsEmbeds, AddResultActorEmbeds
    <3> QED BY <3>1, <3>2, <1>3
  <2> QED BY <1>4, <2>1, <2>2, <2>3, <2>4, <2>5, <2>6, <2>7, <2>8, <2>9, <2>10, <2>11, <2>12,
             <2>13, NextCases
<1>5. CASE UNCHANGED vars
  BY <1>2, <1>5 DEF vars, routers
<1> QED BY <1>4, <1>5

LEMMA InitOneWay == Init => OneWay
<1> SUFFICES ASSUME Init PROVE OneWay OBVIOUS
<1>1. DOMAIN <<>> = {} BY EmptySeq
<1>2. /\ \A n \in Node : inbox[n] = <<>>
      /\ \A s \in Symbol : arrived[s] = <<>>
      /\ matching = {} /\ answered = {}
  BY DEF Init
<1> QED BY <1>1, <1>2, FirstStub DEF OneWay, NoneIn, InOrder, AfterWithin, ArrivedInOrder,
       CallsApart

\* With one match engine to send them to, no order comes to its match actor
\* before one of its symbol whose Match had been answered when it was sent,
\* however many threads send orders at the same time, and however the nodes
\* start, fail and route (GetNextRequestStub of match_engine_stub_grpc.cc,
\* Match of match_engine_grpc_impl.cc, and the router).  With more stubs one
\* may.
THEOREM OneStubKeepsTheOrder ==
  ASSUME Len(Stubs) = 1
  PROVE  Spec => []InSubmissionOrder
<1>1. Init => OneWay BY InitOneWay
<1>2. TypeInv /\ OneWay /\ [Next]_vars => OneWay' BY OneWayStep
<1>3. OneWay => InSubmissionOrder BY DEF OneWay, InSubmissionOrder, ArrivedInOrder
<1> QED BY <1>1, <1>2, <1>3, AlwaysTyped, PTL DEF Spec

-----------------------------------------------------------------------------
\* The routers.  First, which steps of caf_main, of the observer and of the
\* router exclude each other.

Registered(n) == pc[n] \notin {"publish", "register"}

\* The cluster has told the nodes that listen of n, and names it to others.
Announced(n) == pc[n] \in {"members", "add", "serve"}

Phases ==
  \A n \in Node :
    /\ observing[n] <=> pc[n] \in {"notify", "members", "add", "serve"}
    /\ ~observing[n] => events[n] = <<>> /\ lookup[n]["observer"] = None
    /\ pc[n] # "add" => members[n] = {} /\ lookup[n]["main"] = None

\* No step but Ask begins a call.
NoNewCalls == \A n \in Node, u \in Thread : lookup[n][u] = None => lookup'[n][u] = None

LEMMA CallGoesOn ==
  ASSUME TypeInv, NEW k \in Node, NEW t \in Thread, NEW l \in Lookup(k) \cup {None},
         lookup[k][t] # None, lookup' = [lookup EXCEPT ![k][t] = l]
  PROVE  NoNewCalls
BY CallChanged DEF NoNewCalls

LEMMA StepsOfCalls ==
  ASSUME TypeInv, NEW k \in Node, NEW t \in Thread,
         \/ RequestFails(k, t) \/ AddSymbols(k, t) \/ Connect(k, t) \/ AddResultActor(k, t)
  PROVE  NoNewCalls
<1>1. lookup[k][t] # None
  BY DEF RequestFails, AddSymbols, Connect, AddResultActor
<1>2. \E l \in Lookup(k) \cup {None} : lookup' = [lookup EXCEPT ![k][t] = l]
  <2>1. CASE RequestFails(k, t)
    <3>1. PICK l \in Lookup(k) :
             /\ [l EXCEPT !.state = "failed"] \in Lookup(k)
             /\ lookup' = [lookup EXCEPT ![k][t] = [l EXCEPT !.state = "failed"]]
      BY <2>1, RequestFailsFacts
    <3> QED BY <3>1
  <2>2. CASE AddSymbols(k, t) BY <2>2, AddSymbolsFacts
  <2>3. CASE Connect(k, t) BY <2>3, ConnectFacts
  <2>4. CASE AddResultActor(k, t) BY <2>4 DEF AddResultActor
  <2> QED BY <2>1, <2>2, <2>3, <2>4
<1> QED BY <1>1, <1>2, CallGoesOn

LEMMA AnswersAreAwaited == ASSUME TypeInv, NEW k \in Node, RouteGet(k) PROVE NoNewCalls
<1>1. PICK x \in GetMessage :
           /\ x.from.node \in Node /\ x.thread \in Thread
           /\ ~Waits(x, k) => UNCHANGED lookup
           /\ Waits(x, k) =>
                \E next \in Lookup(x.from.node) :
                   lookup' = [lookup EXCEPT ![x.from.node][x.thread] = next]
  BY RouteGetFacts
<1>2. CASE Waits(x, k)
  <2>1. lookup[x.from.node][x.thread] # None BY <1>2 DEF Waits
  <2> QED BY <1>1, <1>2, <2>1, CallGoesOn
<1>3. CASE ~Waits(x, k) BY <1>1, <1>3 DEF NoNewCalls
<1> QED BY <1>2, <1>3

LEMMA PhasesKept ==
  ASSUME TypeInv, Phases, UNCHANGED cluster, NoNewCalls
  PROVE  Phases'
<1>1. "main" \in Thread /\ "observer" \in Thread BY DEF Thread
<1> QED BY <1>1 DEF Phases, cluster, NoNewCalls

LEMMA MainPhases ==
  ASSUME TypeInv, Phases, NEW k \in Node,
         \/ Publish(k) \/ Register(k) \/ AddObserver(k) \/ NotifyReady(k) \/ GetMembers(k)
         \/ Serve(k)
  PROVE  Phases'
<1> SUFFICES ASSUME NEW n \in Node
             PROVE  /\ observing'[n] <=> pc'[n] \in {"notify", "members", "add", "serve"}
                    /\ ~observing'[n] => events'[n] = <<>> /\ lookup'[n]["observer"] = None
                    /\ pc'[n] # "add" => members'[n] = {} /\ lookup'[n]["main"] = None
  BY DEF Phases
<1>1. /\ pc \in [Node -> Phase] /\ observing \in [Node -> BOOLEAN]
      /\ DOMAIN members = Node
  BY DEF TypeInv, NodesTyped
<1>2. /\ observing[n] <=> pc[n] \in {"notify", "members", "add", "serve"}
      /\ ~observing[n] => events[n] = <<>> /\ lookup[n]["observer"] = None
      /\ pc[n] # "add" => members[n] = {} /\ lookup[n]["main"] = None
  BY DEF Phases
<1>3. CASE Publish(k) BY <1>1, <1>2, <1>3 DEF Publish
<1>4. CASE Register(k) BY <1>1, <1>2, <1>4 DEF Register
<1>5. CASE AddObserver(k) BY <1>1, <1>2, <1>5 DEF AddObserver
<1>6. CASE NotifyReady(k)
  <2>1. ~observing[n] => events'[n] = events[n] BY <1>6 DEF NotifyReady, Tell
  <2> QED BY <2>1, <1>1, <1>2, <1>6 DEF NotifyReady
<1>7. CASE GetMembers(k) BY <1>1, <1>2, <1>7 DEF GetMembers
<1>8. CASE Serve(k) BY <1>1, <1>2, <1>8 DEF Serve
<1> QED BY <1>3, <1>4, <1>5, <1>6, <1>7, <1>8

LEMMA AskPhases ==
  ASSUME TypeInv, Phases, NEW k \in Node, AddMember(k) \/ UpdateUp(k) \/ UpdateDown(k)
  PROVE  Phases'
<1> SUFFICES ASSUME NEW n \in Node
             PROVE  /\ observing'[n] <=> pc'[n] \in {"notify", "members", "add", "serve"}
                    /\ ~observing'[n] => events'[n] = <<>> /\ lookup'[n]["observer"] = None
                    /\ pc'[n] # "add" => members'[n] = {} /\ lookup'[n]["main"] = None
  BY DEF Phases
<1>1. "main" \in Thread /\ "observer" \in Thread /\ "main" # "observer" BY DEF Thread
<1>2. /\ observing[n] <=> pc[n] \in {"notify", "members", "add", "serve"}
      /\ ~observing[n] => events[n] = <<>> /\ lookup[n]["observer"] = None
      /\ pc[n] # "add" => members[n] = {} /\ lookup[n]["main"] = None
  BY DEF Phases
<1>3. CASE AddMember(k)
  <2>1. PICK m \in members[k] : members' = [members EXCEPT ![k] = @ \ {m}] /\ Ask(k, "main", m)
    BY <1>3 DEF AddMember
  <2>2. m \in Node \ {k} BY DEF TypeInv, NodesTyped
  <2>3. \A j \in Node, u \in Thread : j # k \/ u # "main" => lookup'[j][u] = lookup[j][u]
    <3>1. "main" \in Thread BY DEF Thread
    <3>2. NewCall(k, "main", m) BY <2>1, <2>2, <3>1, AskFacts
    <3> QED BY <3>2 DEF NewCall
  <2>4. n # k => members'[n] = members[n] BY <2>1 DEF TypeInv, NodesTyped
  <2> QED BY <1>1, <1>2, <1>3, <2>3, <2>4 DEF AddMember
<1>4. CASE UpdateUp(k)
  <2>1. PICK m \in Node \ {k} : Ask(k, "observer", m)
    BY <1>4, EventTaken DEF UpdateUp
  <2>2. \A j \in Node, u \in Thread : j # k \/ u # "observer" => lookup'[j][u] = lookup[j][u]
    <3>1. "observer" \in Thread BY DEF Thread
    <3>2. NewCall(k, "observer", m) BY <2>1, <3>1, AskFacts
    <3> QED BY <3>2 DEF NewCall
  <2>3. n # k => events'[n] = events[n]
    BY <1>4 DEF UpdateUp, TypeInv, NodesTyped
  <2>4. observing[k]
    <3>1. events[k] # <<>> BY <1>4 DEF UpdateUp
    <3> QED BY <3>1 DEF Phases
  <2>5. UNCHANGED <<pc, observing, members>> BY <1>4 DEF UpdateUp
  <2> QED BY <1>1, <1>2, <2>2, <2>3, <2>4, <2>5
<1>5. CASE UpdateDown(k)
  <2>1. n # k => events'[n] = events[n]
    BY <1>5 DEF UpdateDown, TypeInv, NodesTyped
  <2>2. observing[k]
    <3>1. events[k] # <<>> BY <1>5 DEF UpdateDown
    <3> QED BY <3>1 DEF Phases
  <2>3. UNCHANGED <<pc, observing, members, lookup>> BY <1>5 DEF UpdateDown
  <2> QED BY <1>2, <2>1, <2>2, <2>3
<1> QED BY <1>3, <1>4, <1>5

LEMMA RestartPhases == ASSUME TypeInv, Phases, NEW k \in Node, Restart(k) PROVE Phases'
<1> SUFFICES ASSUME NEW n \in Node
             PROVE  /\ observing'[n] <=> pc'[n] \in {"notify", "members", "add", "serve"}
                    /\ ~observing'[n] => events'[n] = <<>> /\ lookup'[n]["observer"] = None
                    /\ pc'[n] # "add" => members'[n] = {} /\ lookup'[n]["main"] = None
  BY DEF Phases
<1>1. "main" \in Thread /\ "observer" \in Thread BY DEF Thread
<1>2. CASE n = k
  <2>1. /\ pc'[n] = "publish" /\ ~observing'[n] /\ events'[n] = <<>> /\ members'[n] = {}
        /\ \A t \in Thread : lookup'[n][t] = None
    BY <1>2 DEF Restart, TypeInv, NodesTyped
  <2> QED BY <2>1, <1>1
<1>3. CASE n # k
  <2>1. /\ pc'[n] = pc[n] /\ observing'[n] = observing[n] /\ members'[n] = members[n]
        /\ lookup'[n] = lookup[n]
    BY <1>3 DEF Restart, TypeInv, NodesTyped
  <2>2. ~observing[n] => events'[n] = events[n] BY <1>3 DEF Restart
  <2> QED BY <2>1, <2>2 DEF Phases
<1> QED BY <1>2, <1>3

LEMMA StepPhases == TypeInv /\ Phases /\ [Next]_vars => Phases'
<1> SUFFICES ASSUME TypeInv, Phases, [Next]_vars PROVE Phases' OBVIOUS
<1>1. ASSUME UNCHANGED <<cluster, lookup>> PROVE Phases'
  BY <1>1, PhasesKept DEF NoNewCalls
<1>2. CASE Next
  <2>1. CASE Match \/ RouteMatched BY <1>1, <2>1 DEF Match, RouteMatched
  <2>2. ASSUME NEW k \in Node,
               \/ Publish(k) \/ Register(k) \/ AddObserver(k) \/ NotifyReady(k)
               \/ GetMembers(k) \/ Serve(k)
        PROVE  Phases'
    BY <2>2, MainPhases
  <2>3. ASSUME NEW k \in Node, AddMember(k) \/ UpdateUp(k) \/ UpdateDown(k) PROVE Phases'
    BY <2>3, AskPhases
  <2>4. ASSUME NEW k \in Node,
               \/ RouteLocal(k) \/ RouteRemote(k) \/ RouteRemove(k)
               \/ RouteResult(k) \/ RouteOrder(k) \/ OpenCloseEngine(k)
        PROVE  Phases'
    BY <1>1, <2>4 DEF RouteLocal, RouteRemote, RouteRemove, RouteResult, RouteOrder,
       OpenCloseEngine
  <2>5. ASSUME NEW k \in Node, RouteGet(k) PROVE Phases'
    BY <2>5, AnswersAreAwaited, PhasesKept DEF RouteGet
  <2>6. ASSUME NEW k \in Node, Restart(k) PROVE Phases' BY <2>6, RestartPhases
  <2>7. ASSUME NEW k \in Node, NEW t \in Thread,
               RequestFails(k, t) \/ AddSymbols(k, t) \/ Connect(k, t) \/ AddResultActor(k, t)
        PROVE  Phases'
    <3>1. UNCHANGED cluster BY <2>7 DEF RequestFails, AddSymbols, Connect, AddResultActor
    <3> QED BY <2>7, <3>1, StepsOfCalls, PhasesKept
  <2> QED BY <1>2, <2>1, <2>2, <2>3, <2>4, <2>5, <2>6, <2>7, NextCases
<1>3. CASE UNCHANGED vars BY <1>1, <1>3 DEF vars
<1> QED BY <1>2, <1>3

-----------------------------------------------------------------------------
\* What a message does to the map of the router that receives it.

HasActor(n, s, a) == s \in DOMAIN symbol_actor_map[n] /\ symbol_actor_map[n][s] = a

LEMMA PutFacts ==
  ASSUME NEW f, NEW x, NEW v
  PROVE  /\ x \in DOMAIN Put(f, x, v) /\ Put(f, x, v)[x] = v
         /\ \A y : y # x /\ y \in DOMAIN f =>
                     y \in DOMAIN Put(f, x, v) /\ Put(f, x, v)[y] = f[y]
BY DEF Put

LEMMA RouteLocalMap ==
  ASSUME TypeInv, NEW k \in Node, RouteLocal(k)
  PROVE  \E s0 \in LocalSymbols(k) :
           /\ Head(inbox[k]) = [type |-> "local", symbol |-> s0]
           /\ local_symbols'[k] = local_symbols[k] \cup {s0}
           /\ \A n \in Node \ {k} : local_symbols'[n] = local_symbols[n]
           /\ \A a : a = Actor(k) => HasActor(k, s0, a)'
           /\ \A n \in Node : \A s, a : HasActor(n, s, a) /\ (n # k \/ s # s0)
                                          => HasActor(n, s, a)'
<1>1. PICK x : x = Head(inbox[k]) OBVIOUS
<1>2. x \in LocalMessage(k)
  BY <1>1, Received, MessageKinds DEF TypeInv, RouteLocal
<1>3. PICK s0 \in LocalSymbols(k) : x = [type |-> "local", symbol |-> s0]
  BY <1>2 DEF LocalMessage
<1>4. x.symbol = s0 BY <1>3
<1>5. PICK f : f = symbol_actor_map[k] OBVIOUS
<1>6. /\ symbol_actor_map'[k] = Put(f, s0, Actor(k))
      /\ \A n \in Node \ {k} : symbol_actor_map'[n] = symbol_actor_map[n]
      /\ local_symbols'[k] = local_symbols[k] \cup {s0}
      /\ \A n \in Node \ {k} : local_symbols'[n] = local_symbols[n]
  BY <1>1, <1>4, <1>5 DEF RouteLocal, TypeInv, RoutersTyped
<1>7. ASSUME NEW a, a = Actor(k) PROVE HasActor(k, s0, a)'
  BY <1>6, <1>7, PutFacts DEF HasActor
<1>8. ASSUME NEW n \in Node, NEW s, NEW a, HasActor(n, s, a), n # k \/ s # s0
      PROVE  HasActor(n, s, a)'
  <2>1. CASE n # k BY <2>1, <1>6, <1>8 DEF HasActor
  <2>2. CASE n = k BY <2>2, <1>5, <1>6, <1>8, PutFacts DEF HasActor
  <2> QED BY <2>1, <2>2
<1> QED BY <1>1, <1>3, <1>6, <1>7, <1>8

LEMMA RouteRemoteMap ==
  ASSUME TypeInv, NEW k \in Node, RouteRemote(k)
  PROVE  \E s0 \in Symbol, a0 \in ActorId :
           /\ Head(inbox[k]) = [type |-> "remote", symbol |-> s0, actor |-> a0]
           /\ a0.node = Home[s0] /\ a0.node # k
           /\ HasActor(k, s0, a0)'
           /\ \A n \in Node : \A s, a : HasActor(n, s, a) /\ (n # k \/ s # s0)
                                          => HasActor(n, s, a)'
<1>1. PICK x : x = Head(inbox[k]) OBVIOUS
<1>2. x \in RemoteMessage(k)
  BY <1>1, Received, MessageKinds DEF TypeInv, RouteRemote
<1>3. PICK s0 \in Symbol, a0 \in ActorId :
        x = [type |-> "remote", symbol |-> s0, actor |-> a0]
  BY <1>2 DEF RemoteMessage
<1>4. x.symbol = s0 /\ x.actor = a0 /\ a0.node = Home[s0] /\ a0.node # k
  BY <1>2, <1>3 DEF RemoteMessage
<1>5. PICK f : f = symbol_actor_map[k] OBVIOUS
<1>6. /\ symbol_actor_map'[k] = Put(f, s0, a0)
      /\ \A n \in Node \ {k} : symbol_actor_map'[n] = symbol_actor_map[n]
  BY <1>1, <1>4, <1>5 DEF RouteRemote, TypeInv, RoutersTyped
<1>7. HasActor(k, s0, a0)'
  BY <1>6, PutFacts DEF HasActor
<1>8. ASSUME NEW n \in Node, NEW s, NEW a, HasActor(n, s, a), n # k \/ s # s0
      PROVE  HasActor(n, s, a)'
  <2>1. CASE n # k BY <2>1, <1>6, <1>8 DEF HasActor
  <2>2. CASE n = k BY <2>2, <1>5, <1>6, <1>8, PutFacts DEF HasActor
  <2> QED BY <2>1, <2>2
<1> QED BY <1>1, <1>3, <1>4, <1>7, <1>8

LEMMA RouteRemoveMap ==
  ASSUME TypeInv, NEW k \in Node, RouteRemove(k)
  PROVE  \E h \in Node \ {k} :
           /\ Head(inbox[k]) = [type |-> "remove", host |-> h]
           /\ \A n \in Node, s \in Symbol : \A a : HasActor(n, s, a) /\ (n # k \/ Home[s] # h)
                                                     => HasActor(n, s, a)'
<1>1. PICK x : x = Head(inbox[k]) OBVIOUS
<1>2. x \in RemoveMessage(k)
  BY <1>1, Received, MessageKinds DEF TypeInv, RouteRemove
<1>3. PICK h \in Node \ {k} : x = [type |-> "remove", host |-> h]
  BY <1>2 DEF RemoveMessage
<1>4. x.host = h BY <1>3
<1>5. PICK kept : kept = DOMAIN symbol_actor_map[k] \ Range(node_symbol_map[k][h])
  OBVIOUS
<1>6. /\ symbol_actor_map'[k] = Restrict(symbol_actor_map[k], kept)
      /\ \A n \in Node \ {k} : symbol_actor_map'[n] = symbol_actor_map[n]
  BY <1>1, <1>4, <1>5 DEF RouteRemove, TypeInv, RoutersTyped
<1>7. \A s \in Range(node_symbol_map[k][h]) : Home[s] = h
  <2>1. node_symbol_map[k][h] \in Seq(LocalSymbols(h)) BY DEF TypeInv, RoutersTyped
  <2>2. \A i \in DOMAIN node_symbol_map[k][h] : node_symbol_map[k][h][i] \in LocalSymbols(h)
    BY <2>1
  <2> QED BY <2>2 DEF Range, LocalSymbols
<1>8. ASSUME NEW n \in Node, NEW s \in Symbol, NEW a, HasActor(n, s, a), n # k \/ Home[s] # h
      PROVE  HasActor(n, s, a)'
  <2>1. CASE n # k BY <2>1, <1>6, <1>8 DEF HasActor
  <2>2. CASE n = k
    <3>1. s \in kept BY <2>2, <1>5, <1>7, <1>8 DEF HasActor
    <3> QED BY <3>1, <2>2, <1>6, <1>8 DEF HasActor, Restrict
  <2> QED BY <2>1, <2>2
<1> QED BY <1>1, <1>3, <1>8

LEMMA RouteOrderMap ==
  ASSUME TypeInv, NEW k \in Node, RouteOrder(k)
  PROVE  /\ Head(inbox[k]) \in OrderMessage
         /\ \A n \in Node : \A s, a : HasActor(n, s, a) => HasActor(n, s, a)'
<1>1. PICK o : o = Head(inbox[k]) OBVIOUS
<1>2. o \in OrderMessage
  BY <1>1, Received, MessageKinds DEF TypeInv, RouteOrder
<1>3. PICK f : f = symbol_actor_map[k] OBVIOUS
<1>4. /\ \/ symbol_actor_map'[k] = f
         \/ o.symbol \notin DOMAIN f /\ symbol_actor_map'[k] = Put(f, o.symbol, None)
      /\ \A n \in Node \ {k} : symbol_actor_map'[n] = symbol_actor_map[n]
  BY <1>1, <1>3 DEF RouteOrder, TypeInv, RoutersTyped
<1>5. ASSUME NEW n \in Node, NEW s, NEW a, HasActor(n, s, a) PROVE HasActor(n, s, a)'
  <2>1. CASE n # k BY <2>1, <1>4, <1>5 DEF HasActor
  <2>2. CASE n = k /\ symbol_actor_map'[k] = f BY <2>2, <1>3, <1>5 DEF HasActor
  <2>3. CASE n = k /\ o.symbol \notin DOMAIN f /\ symbol_actor_map'[k] = Put(f, o.symbol, None)
    BY <2>3, <1>3, <1>5, PutFacts DEF HasActor
  <2> QED BY <2>1, <2>2, <2>3, <1>4
<1> QED BY <1>1, <1>2, <1>5

-----------------------------------------------------------------------------
\* The messages and events a fact about the routers is about.
LocalOf(s)     == {[type |-> "local", symbol |-> s]}
RemoteOf(s, a) == {[type |-> "remote", symbol |-> s, actor |-> a]}
GetOf(b, t)    == {[type |-> "get", from |-> b, thread |-> t]}
ResultOf(a)    == {[type |-> "result", actor |-> a]}
UpOf(m)        == {[status |-> "up", node |-> m]}
EventsOf(m)    == [status : {"up", "down"}, node : {m}]

\* The messages after which a router no longer knows actor a of symbol s, and
\* those after which its match actors no longer know result actor a.
Erases(s, a) ==
  [type : {"remove"}, host : {a.node}]
    \cup [type : {"remote"}, symbol : {s}, actor : ActorId \ {a}]
Renames(a) == [type : {"result"}, actor : ActorId \ {a}]

\* What a message of a given kind is not.
LEMMA KindsDiffer ==
  ASSUME NEW n \in Node, NEW s, NEW a, NEW b, NEW t
  PROVE  /\ \A x \in LocalMessage(n) :
              x \notin GetOf(b, t) /\ x \notin RemoteOf(s, a) /\ x \notin ResultOf(a)
              /\ x \notin Erases(s, a) /\ x \notin Renames(a)
         /\ \A x \in RemoteMessage(n) :
              x \notin GetOf(b, t) /\ x \notin LocalOf(s) /\ x \notin ResultOf(a)
              /\ x \notin Renames(a)
         /\ \A x \in RemoveMessage(n) :
              x \notin GetOf(b, t) /\ x \notin LocalOf(s) /\ x \notin RemoteOf(s, a)
              /\ x \notin ResultOf(a) /\ x \notin Renames(a)
         /\ \A x \in GetMessage :
              x \notin LocalOf(s) /\ x \notin RemoteOf(s, a) /\ x \notin ResultOf(a)
              /\ x \notin Erases(s, a) /\ x \notin Renames(a)
         /\ \A x \in ResultMessage :
              x \notin GetOf(b, t) /\ x \notin LocalOf(s) /\ x \notin RemoteOf(s, a)
              /\ x \notin Erases(s, a)
         /\ \A x \in OrderMessage :
              x \notin GetOf(b, t) /\ x \notin LocalOf(s) /\ x \notin RemoteOf(s, a)
              /\ x \notin ResultOf(a) /\ x \notin Erases(s, a) /\ x \notin Renames(a)
BY DEF LocalMessage, RemoteMessage, RemoveMessage, GetMessage, ResultMessage, OrderMessage,
   LocalOf, RemoteOf, GetOf, ResultOf, Erases, Renames

\* A sequence whose elements are not in B has none in B.
LEMMA NoneOfKind ==
  ASSUME NEW S, NEW r \in Seq(S), NEW B, \A x \in S : x \notin B
  PROVE  NoneIn(r, B)
<1>1. \A i \in DOMAIN r : r[i] \in S OBVIOUS
<1> QED BY <1>1 DEF NoneIn

-----------------------------------------------------------------------------
\* The steps that send, and what.

LEMMA RegisterSends ==
  ASSUME TypeInv, NEW k \in Node, Register(k)
  PROVE  \E r \in Seq(Message(k)) :
           /\ inbox'[k] = inbox[k] \o r
           /\ \A n \in Node \ {k} : inbox'[n] = inbox[n]
           /\ \A b, t : NoneIn(r, GetOf(b, t))
           /\ \A s, a : NoneIn(r, Erases(s, a))
           /\ \A s \in LocalSymbols(k) : ~NoneIn(r, LocalOf(s))
           /\ k = ResultHost => \A a : a = Actor(k) =>
                \A s : LastIn(r, ResultOf(a), LocalOf(s) \cup Renames(a))
<1> DEFINE c == SetToSeq(LocalsOf(k))
           x == [type |-> "result", actor |-> Actor(k)]
           q == IF k = ResultHost THEN <<x>> ELSE <<>>
<1>1. /\ c \in Seq(LocalMessage(k))
      /\ \A s \in LocalSymbols(k) : \E i \in DOMAIN c : c[i] = [type |-> "local", symbol |-> s]
  BY LocalsSent
<1>2. c \in Seq(Message(k)) BY <1>1, MessagesSent
<1>3. x \in Message(k)
  BY DEF TypeInv, NodesTyped, Actor, ActorId, Message, ResultMessage
<1>4. q \in Seq(Message(k)) /\ (k = ResultHost => q = <<x>>) BY <1>3
<1> x \in ResultMessage
  BY DEF TypeInv, NodesTyped, Actor, ActorId, ResultMessage
<1> q \in Seq(ResultMessage) OBVIOUS
<1>5. Deliver(k, c \o q) BY DEF Register, LocalsOf
<1>6. \A a : a = Actor(k) => x \in ResultOf(a) BY DEF ResultOf
<1> HIDE DEF c, q, x
<1>7. c \o q \in Seq(Message(k)) BY <1>2, <1>4
<1>8. inbox'[k] = inbox[k] \o (c \o q) /\ \A n \in Node \ {k} : inbox'[n] = inbox[n]
  BY <1>5, <1>7, Delivered DEF TypeInv
<1>9. ASSUME NEW s \in LocalSymbols(k) PROVE ~NoneIn(c \o q, LocalOf(s))
  <2>1. ~NoneIn(c, LocalOf(s)) BY <1>1 DEF NoneIn, LocalOf
  <2> QED BY <2>1, <1>2, <1>4, NoneInAppended
<1>10. ASSUME k = ResultHost, NEW a, a = Actor(k), NEW s
       PROVE  LastIn(c \o q, ResultOf(a), LocalOf(s) \cup Renames(a))
  <2>1. LastIn(q, ResultOf(a), LocalOf(s) \cup Renames(a))
    BY <1>4, <1>6, <1>10, LastInOne
  <2> QED BY <2>1, <1>2, <1>4, LastInAppended
<1>11. ASSUME NEW b, NEW t PROVE NoneIn(c \o q, GetOf(b, t))
  <2>1. NoneIn(c, GetOf(b, t)) BY <1>1, KindsDiffer, NoneOfKind
  <2>2. NoneIn(q, GetOf(b, t)) BY KindsDiffer, NoneOfKind
  <2> QED BY <2>1, <2>2, <1>2, <1>4, NoneInAppended
<1>12. ASSUME NEW s, NEW a PROVE NoneIn(c \o q, Erases(s, a))
  <2>1. NoneIn(c, Erases(s, a)) BY <1>1, KindsDiffer, NoneOfKind
  <2>2. NoneIn(q, Erases(s, a)) BY KindsDiffer, NoneOfKind
  <2> QED BY <2>1, <2>2, <1>2, <1>4, NoneInAppended
<1> QED BY <1>7, <1>8, <1>9, <1>10, <1>11, <1>12

LEMMA UpdateDownSends ==
  ASSUME TypeInv, NEW k \in Node, UpdateDown(k)
  PROVE  \E x \in RemoveMessage(k) :
           /\ <<x>> \in Seq(Message(k))
           /\ x.host = Head(events[k]).node
           /\ inbox'[k] = inbox[k] \o <<x>>
           /\ \A n \in Node \ {k} : inbox'[n] = inbox[n]
<1>1. PICK x : x = [type |-> "remove", host |-> Head(events[k]).node] OBVIOUS
<1>2. Head(events[k]).node \in Node \ {k} BY EventTaken DEF UpdateDown
<1>3. x \in RemoveMessage(k) /\ x.host = Head(events[k]).node BY <1>1, <1>2 DEF RemoveMessage
<1>4. x \in Message(k) BY <1>3 DEF Message
<1>5. <<x>> \in Seq(Message(k)) BY <1>4
<1>6. Deliver(k, <<x>>) BY <1>1 DEF UpdateDown
<1>7. inbox'[k] = inbox[k] \o <<x>> /\ \A n \in Node \ {k} : inbox'[n] = inbox[n]
  BY <1>5, <1>6, Delivered DEF TypeInv
<1> QED BY <1>3, <1>5, <1>7

LEMMA AddSymbolsSends ==
  ASSUME TypeInv, NEW k \in Node, NEW t \in Thread, AddSymbols(k, t)
  PROVE  \E l \in Lookup(k), r \in Seq(Message(k)) :
           /\ l = lookup[k][t] /\ l.state \in {"answered", "failed"}
           /\ r \in Seq(RemotesOf(l.symbols, l.actor))
           /\ \A s \in l.symbols :
                \E i \in DOMAIN r : r[i] = [type |-> "remote", symbol |-> s, actor |-> l.actor]
           /\ inbox'[k] = inbox[k] \o r
           /\ \A n \in Node \ {k} : inbox'[n] = inbox[n]
<1>1. PICK l \in Lookup(k), r \in Seq(Message(k)) :
           /\ l = lookup[k][t] /\ l.state \in {"answered", "failed"}
           /\ r \in Seq(RemotesOf(l.symbols, l.actor))
           /\ \A s \in l.symbols :
                \E i \in DOMAIN r : r[i] = [type |-> "remote", symbol |-> s, actor |-> l.actor]
           /\ Deliver(k, r)
  BY AddSymbolsFacts
<1>2. inbox'[k] = inbox[k] \o r /\ \A n \in Node \ {k} : inbox'[n] = inbox[n]
  BY <1>1, Delivered DEF TypeInv
<1> QED BY <1>1, <1>2

LEMMA AddResultActorSends ==
  ASSUME TypeInv, NEW k \in Node, NEW t \in Thread, AddResultActor(k, t)
  PROVE  \E l \in Lookup(k), x \in ResultMessage :
           /\ l = lookup[k][t] /\ l.state = "connected" /\ l.actor.node = ResultHost
           /\ x = [type |-> "result", actor |-> l.actor]
           /\ <<x>> \in Seq(Message(k))
           /\ inbox'[k] = inbox[k] \o <<x>>
           /\ \A n \in Node \ {k} : inbox'[n] = inbox[n]
           /\ lookup' = [lookup EXCEPT ![k][t] = None]
<1>1. PICK l : l = lookup[k][t] OBVIOUS
<1>2. l # None /\ l.state = "connected" BY <1>1 DEF AddResultActor
<1>3. l \in Lookup(k) /\ l.actor \in ActorId /\ l.actor.node = ResultHost
  BY <1>1, <1>2, CallTyped
<1>4. PICK x : x = [type |-> "result", actor |-> l.actor] OBVIOUS
<1>5. x \in ResultMessage BY <1>3, <1>4 DEF ResultMessage
<1>6. x \in Message(k) BY <1>5 DEF Message
<1>7. <<x>> \in Seq(Message(k)) BY <1>6
<1>8. Deliver(k, <<x>>) BY <1>1, <1>4 DEF AddResultActor
<1>9. inbox'[k] = inbox[k] \o <<x>> /\ \A n \in Node \ {k} : inbox'[n] = inbox[n]
  BY <1>7, <1>8, Delivered DEF TypeInv
<1>10. lookup' = [lookup EXCEPT ![k][t] = None] BY DEF AddResultActor
<1> QED BY <1>1, <1>2, <1>3, <1>4, <1>5, <1>7, <1>9, <1>10

LEMMA RouteMatchedSends ==
  ASSUME TypeInv, RouteMatched
  PROVE  \E k \in Node, x \in OrderMessage :
           /\ <<x>> \in Seq(Message(k))
           /\ inbox'[k] = inbox[k] \o <<x>>
           /\ \A n \in Node \ {k} : inbox'[n] = inbox[n]
<1>1. PICK k \in Node, x \in OrderMessage :
        /\ <<x>> \in Seq(Message(k)) /\ Deliver(k, <<x>>)
  BY RouteMatchedFacts
<1>2. inbox'[k] = inbox[k] \o <<x>> /\ \A n \in Node \ {k} : inbox'[n] = inbox[n]
  BY <1>1, Delivered DEF TypeInv
<1> QED BY <1>1, <1>2

\* Mailboxes to which messages have at most been added.
OnlySent ==
  \A n \in Node : \/ inbox'[n] = inbox[n]
                  \/ \E r \in Seq(Message(n)) : inbox'[n] = inbox[n] \o r

LEMMA StepsThatSend ==
  ASSUME TypeInv, NEW k \in Node, NEW t \in Thread,
         \/ Publish(k) \/ Register(k) \/ AddObserver(k) \/ NotifyReady(k) \/ GetMembers(k)
         \/ AddMember(k) \/ Serve(k) \/ UpdateDown(k) \/ UpdateUp(k) \/ OpenCloseEngine(k)
         \/ RequestFails(k, t) \/ AddSymbols(k, t) \/ Connect(k, t) \/ AddResultActor(k, t)
         \/ Match \/ RouteMatched
  PROVE  OnlySent
<1>1. ASSUME UNCHANGED inbox PROVE OnlySent BY <1>1 DEF OnlySent
<1>2. ASSUME NEW j \in Node, NEW r \in Seq(Message(j)), inbox'[j] = inbox[j] \o r,
             \A n \in Node \ {j} : inbox'[n] = inbox[n]
      PROVE  OnlySent
  BY <1>2 DEF OnlySent
<1>3. CASE \/ Publish(k) \/ AddObserver(k) \/ NotifyReady(k) \/ GetMembers(k)
           \/ Serve(k) \/ OpenCloseEngine(k) \/ RequestFails(k, t) \/ Connect(k, t) \/ Match
  BY <1>1, <1>3 DEF Publish, AddObserver, NotifyReady, GetMembers, Serve, OpenCloseEngine,
     RequestFails, Connect, Match, routers
<1>4. CASE Register(k) BY <1>2, <1>4, RegisterSends
<1>5. ASSUME NEW m \in Node \ {k}, NEW u \in Thread, Ask(k, u, m) PROVE OnlySent
  <2> NewRequest(k, u, m) BY <1>5, AskFacts
  <2>1. CASE pc[m] = "publish" BY <2>1, <1>1 DEF NewRequest
  <2>2. CASE pc[m] # "publish"
    <3>1. PICK x : x = [type |-> "get", from |-> Actor(k), thread |-> u] OBVIOUS
    <3>2. /\ inbox'[m] = inbox[m] \o <<x>> /\ \A n \in Node \ {m} : inbox'[n] = inbox[n]
          /\ x \in GetMessage
      BY <2>2, <3>1 DEF NewRequest
    <3>3. x \in Message(m) BY <3>2 DEF Message
    <3>4. <<x>> \in Seq(Message(m)) BY <3>3
    <3> QED BY <3>2, <3>4, <1>2
  <2> QED BY <2>1, <2>2
<1>6. CASE AddMember(k)
  <2>1. PICK m \in Node \ {k} : Ask(k, "main", m) /\ "main" \in Thread
    BY <1>6 DEF AddMember, TypeInv, NodesTyped, Thread
  <2> QED BY <2>1, <1>5
<1>7. CASE UpdateUp(k)
  <2>1. PICK m \in Node \ {k} : Ask(k, "observer", m) /\ "observer" \in Thread
    BY <1>7, EventTaken DEF UpdateUp, Thread
  <2> QED BY <2>1, <1>5
<1>8. CASE UpdateDown(k) BY <1>2, <1>8, UpdateDownSends
<1>9. CASE AddSymbols(k, t) BY <1>2, <1>9, AddSymbolsSends
<1>10. CASE AddResultActor(k, t)
  <2>1. PICK x : /\ <<x>> \in Seq(Message(k)) /\ inbox'[k] = inbox[k] \o <<x>>
                 /\ \A n \in Node \ {k} : inbox'[n] = inbox[n]
    BY <1>10, AddResultActorSends
  <2> QED BY <2>1, <1>2
<1>11. CASE RouteMatched
  <2>1. PICK j \in Node, x \in OrderMessage :
           /\ <<x>> \in Seq(Message(j)) /\ inbox'[j] = inbox[j] \o <<x>>
           /\ \A n \in Node \ {j} : inbox'[n] = inbox[n]
    BY <1>11, RouteMatchedSends
  <2> QED BY <2>1, <1>2
<1> QED BY <1>3, <1>4, <1>6, <1>7, <1>8, <1>9, <1>10, <1>11

-----------------------------------------------------------------------------
\* Every router comes to know the symbols of its own node: the message that
\* tells it of one waits, or it has been handled and nothing undoes it.

Own(n, s) ==
  \/ ~NoneIn(inbox[n], LocalOf(s))
  \/ s \in local_symbols[n] /\ \A a : a = Actor(n) => HasActor(n, s, a)

OwnSymbols == \A n \in Node : \A s \in LocalSymbols(n) : Registered(n) => Own(n, s)

LEMMA OwnSent ==
  ASSUME TypeInv, OnlySent, NEW n \in Node, NEW s, Own(n, s),
         UNCHANGED <<local_symbols, symbol_actor_map, incarnation>>
  PROVE  Own(n, s)'
<1>1. CASE inbox'[n] = inbox[n] BY <1>1 DEF Own, HasActor, Actor
<1>2. ASSUME NEW r \in Seq(Message(n)), inbox'[n] = inbox[n] \o r PROVE Own(n, s)'
  <2>1. inbox[n] \in Seq(Message(n)) BY DEF TypeInv, RoutersTyped
  <2>2. ~NoneIn(inbox[n], LocalOf(s)) => ~NoneIn(inbox'[n], LocalOf(s))
    BY <1>2, <2>1, NoneInAppended
  <2> QED BY <2>2 DEF Own, HasActor, Actor
<1> QED BY <1>1, <1>2 DEF OnlySent

\* The message that is handled is another one.
LEMMA OwnReceived ==
  ASSUME TypeInv, NEW k \in Node, NEW y, Receives(k, y), NEW n \in Node, NEW s, Own(n, s),
         n = k => Head(inbox[k]) \notin LocalOf(s),
         UNCHANGED incarnation,
         s \in local_symbols[n] => s \in local_symbols'[n],
         \A a : a = Actor(n) /\ HasActor(n, s, a) => HasActor(n, s, a)'
  PROVE  Own(n, s)'
<1>1. inbox[n] \in Seq(Message(n)) BY DEF TypeInv, RoutersTyped
<1>2. /\ inbox[k] # <<>> /\ inbox'[k] = Tail(inbox[k])
      /\ n # k => inbox'[n] = inbox[n]
  BY Received DEF TypeInv
<1>3. ~NoneIn(inbox[n], LocalOf(s)) => ~NoneIn(inbox'[n], LocalOf(s))
  BY <1>1, <1>2, NoneInTail
<1>4. \A a : a = Actor(n)' <=> a = Actor(n) BY DEF Actor
<1> QED BY <1>3, <1>4 DEF Own

LEMMA RouteOwn ==
  ASSUME TypeInv, OwnSymbols, NEW k \in Node,
         \/ RouteLocal(k) \/ RouteRemote(k) \/ RouteRemove(k) \/ RouteGet(k)
         \/ RouteResult(k) \/ RouteOrder(k)
  PROVE  OwnSymbols'
<1>1. UNCHANGED cluster
  BY DEF RouteLocal, RouteRemote, RouteRemove, RouteGet, RouteResult, RouteOrder
<1> SUFFICES ASSUME NEW n \in Node, NEW s \in LocalSymbols(n), Own(n, s) PROVE Own(n, s)'
  BY <1>1 DEF OwnSymbols, Registered, cluster
<1>2. UNCHANGED incarnation BY <1>1 DEF cluster
<1>3. s \in Symbol /\ Home[s] = n BY DEF LocalSymbols
<1>4. CASE RouteLocal(k)
  <2>1. PICK s0 \in LocalSymbols(k) :
           /\ Head(inbox[k]) = [type |-> "local", symbol |-> s0]
           /\ local_symbols'[k] = local_symbols[k] \cup {s0}
           /\ \A m \in Node \ {k} : local_symbols'[m] = local_symbols[m]
           /\ \A a : a = Actor(k) => HasActor(k, s0, a)'
           /\ \A m \in Node : \A c, a : HasActor(m, c, a) /\ (m # k \/ c # s0)
                                          => HasActor(m, c, a)'
    BY <1>4, RouteLocalMap
  <2>2. \A a : a = Actor(n)' <=> a = Actor(n) BY <1>2 DEF Actor
  <2>3. CASE n = k /\ s = s0
    BY <2>1, <2>2, <2>3 DEF Own
  <2>4. CASE ~(n = k /\ s = s0)
    <3>1. n = k => Head(inbox[k]) \notin LocalOf(s) BY <2>1, <2>4 DEF LocalOf
    <3>2. s \in local_symbols[n] => s \in local_symbols'[n] BY <2>1
    <3>3. \A a : HasActor(n, s, a) => HasActor(n, s, a)' BY <2>1, <2>4
    <3>4. Receives(k, "local") BY <1>4 DEF RouteLocal
    <3> QED BY <3>1, <3>2, <3>3, <3>4, <1>2, OwnReceived
  <2> QED BY <2>3, <2>4
<1>5. CASE RouteRemote(k)
  <2>1. PICK s0 \in Symbol, a0 \in ActorId :
           /\ Head(inbox[k]) = [type |-> "remote", symbol |-> s0, actor |-> a0]
           /\ a0.node = Home[s0] /\ a0.node # k
           /\ \A m \in Node : \A c, a : HasActor(m, c, a) /\ (m # k \/ c # s0)
                                          => HasActor(m, c, a)'
    BY <1>5, RouteRemoteMap
  <2>2. Head(inbox[k]) \notin LocalOf(s) BY <2>1 DEF LocalOf
  <2>3. n # k \/ s # s0 BY <2>1, <1>3
  <2>4. \A a : HasActor(n, s, a) => HasActor(n, s, a)' BY <2>1, <2>3
  <2>5. Receives(k, "remote") /\ UNCHANGED local_symbols BY <1>5 DEF RouteRemote
  <2> QED BY <2>2, <2>4, <2>5, <1>2, OwnReceived
<1>6. CASE RouteRemove(k)
  <2>1. PICK h \in Node \ {k} :
           /\ Head(inbox[k]) = [type |-> "remove", host |-> h]
           /\ \A m \in Node, c \in Symbol : \A a : HasActor(m, c, a) /\ (m # k \/ Home[c] # h)
                                                     => HasActor(m, c, a)'
    BY <1>6, RouteRemoveMap
  <2>2. Head(inbox[k]) \notin LocalOf(s) BY <2>1 DEF LocalOf
  <2>3. \A a : HasActor(n, s, a) => HasActor(n, s, a)' BY <2>1, <1>3
  <2>4. Receives(k, "remove") /\ UNCHANGED local_symbols BY <1>6 DEF RouteRemove
  <2> QED BY <2>2, <2>3, <2>4, <1>2, OwnReceived
<1>7. CASE RouteGet(k) \/ RouteResult(k)
  <2>1. PICK y \in {"get", "result"} : Receives(k, y)
    BY <1>7 DEF RouteGet, RouteResult
  <2>2. Head(inbox[k]) \notin LocalOf(s) BY <2>1, Received DEF LocalOf, TypeInv
  <2>3. UNCHANGED <<local_symbols, symbol_actor_map>> BY <1>7 DEF RouteGet, RouteResult
  <2>4. \A a : HasActor(n, s, a) => HasActor(n, s, a)' BY <2>3 DEF HasActor
  <2> QED BY <2>1, <2>2, <2>3, <2>4, <1>2, OwnReceived
<1>8. CASE RouteOrder(k)
  <2>1. Head(inbox[k]) \notin LocalOf(s) BY <1>8, RouteOrderMap, KindsDiffer
  <2>2. \A a : HasActor(n, s, a) => HasActor(n, s, a)' BY <1>8, RouteOrderMap
  <2>3. Receives(k, "order") /\ UNCHANGED local_symbols BY <1>8 DEF RouteOrder
  <2> QED BY <2>1, <2>2, <2>3, <1>2, OwnReceived
<1> QED BY <1>4, <1>5, <1>6, <1>7, <1>8

LEMMA StepOwn == TypeInv /\ OwnSymbols /\ [Next]_vars => OwnSymbols'
<1> SUFFICES ASSUME TypeInv, OwnSymbols, [Next]_vars PROVE OwnSymbols' OBVIOUS
<1>1. ASSUME OnlySent, UNCHANGED <<local_symbols, symbol_actor_map, incarnation>>,
             \A n \in Node : Registered(n)' => Registered(n)
      PROVE  OwnSymbols'
  BY <1>1, OwnSent DEF OwnSymbols
<1>2. \A n \in Node : pc' = pc => (Registered(n)' => Registered(n)) BY DEF Registered
<1>3. CASE Next
  <2>1. CASE Match \/ RouteMatched
    <3>1. UNCHANGED <<local_symbols, symbol_actor_map, incarnation, pc>>
      BY <2>1 DEF Match, RouteMatched, routers, cluster
    <3>2. "main" \in Thread /\ ResultHost \in Node BY HomeAssumption DEF Thread
    <3>3. OnlySent BY <2>1, <3>2, StepsThatSend
    <3> QED BY <3>1, <3>3, <1>1, <1>2
  <2>2. ASSUME NEW k \in Node,
               \/ Publish(k) \/ AddObserver(k) \/ NotifyReady(k)
               \/ GetMembers(k) \/ Serve(k) \/ OpenCloseEngine(k)
               \/ AddMember(k) \/ UpdateUp(k) \/ UpdateDown(k)
        PROVE  OwnSymbols'
    <3>1. UNCHANGED <<local_symbols, symbol_actor_map, incarnation>>
      BY <2>2 DEF Publish, AddObserver, NotifyReady, GetMembers, Serve, OpenCloseEngine,
         AddMember, UpdateUp, UpdateDown, routers, cluster
    <3>2. "main" \in Thread BY DEF Thread
    <3>3. OnlySent BY <2>2, <3>2, StepsThatSend
    <3>4. \A n \in Node : Registered(n)' => Registered(n)
      BY <2>2 DEF Registered, Publish, AddObserver, NotifyReady, GetMembers, Serve,
         OpenCloseEngine, AddMember, UpdateUp, UpdateDown, cluster, TypeInv, NodesTyped
    <3> QED BY <3>1, <3>3, <3>4, <1>1
  <2>3. ASSUME NEW k \in Node, Register(k) PROVE OwnSymbols'
    <3>1. UNCHANGED <<local_symbols, symbol_actor_map, incarnation>>
      BY <2>3 DEF Register
    <3>2. PICK r \in Seq(Message(k)) :
             /\ inbox'[k] = inbox[k] \o r
             /\ \A s \in LocalSymbols(k) : ~NoneIn(r, LocalOf(s))
      BY <2>3, RegisterSends
    <3>3. inbox[k] \in Seq(Message(k)) BY DEF TypeInv, RoutersTyped
    <3>4. \A s \in LocalSymbols(k) : Own(k, s)'
      BY <3>2, <3>3, NoneInAppended DEF Own
    <3>5. "main" \in Thread BY DEF Thread
    <3>6. OnlySent BY <2>3, <3>5, StepsThatSend
    <3>7. \A n \in Node \ {k} : Registered(n)' => Registered(n)
      BY <2>3 DEF Registered, Register, TypeInv, NodesTyped
    <3>8. ASSUME NEW n \in Node \ {k}, NEW s \in LocalSymbols(n), Registered(n)'
          PROVE  Own(n, s)'
      BY <3>1, <3>6, <3>7, <3>8, OwnSent DEF OwnSymbols
    <3> QED BY <3>4, <3>8 DEF OwnSymbols
  <2>4. ASSUME NEW k \in Node,
               \/ RouteLocal(k) \/ RouteRemote(k) \/ RouteRemove(k) \/ RouteGet(k)
               \/ RouteResult(k) \/ RouteOrder(k)
        PROVE  OwnSymbols'
    BY <2>4, RouteOwn
  <2>5. ASSUME NEW k \in Node, Restart(k) PROVE OwnSymbols'
    <3> SUFFICES ASSUME NEW n \in Node, NEW s \in LocalSymbols(n), Registered(n)'
                 PROVE  Own(n, s)'
      BY DEF OwnSymbols
    <3>1. n # k BY <2>5 DEF Restart, Registered, TypeInv, NodesTyped
    <3>2. /\ inbox'[n] = inbox[n] /\ local_symbols'[n] = local_symbols[n] /\ pc'[n] = pc[n]
          /\ symbol_actor_map'[n] = symbol_actor_map[n] /\ incarnation'[n] = incarnation[n]
      BY <2>5, <3>1 DEF Restart, TypeInv, NodesTyped, RoutersTyped
    <3> QED BY <3>2 DEF OwnSymbols, Own, Registered, HasActor, Actor
  <2>6. ASSUME NEW k \in Node, NEW t \in Thread,
               RequestFails(k, t) \/ AddSymbols(k, t) \/ Connect(k, t) \/ AddResultActor(k, t)
        PROVE  OwnSymbols'
    <3>1. UNCHANGED <<local_symbols, symbol_actor_map, incarnation, pc>>
      BY <2>6 DEF RequestFails, AddSymbols, Connect, AddResultActor, routers, cluster
    <3>2. OnlySent BY <2>6, StepsThatSend
    <3> QED BY <3>1, <3>2, <1>1, <1>2
  <2> QED BY <1>3, <2>1, <2>2, <2>3, <2>4, <2>5, <2>6, NextCases
<1>4. CASE UNCHANGED vars
  <2>1. UNCHANGED <<inbox, local_symbols, symbol_actor_map, incarnation, pc>>
    BY <1>4 DEF vars, routers, cluster
  <2>2. OnlySent BY <2>1 DEF OnlySent
  <2> QED BY <2>1, <2>2, <1>1, <1>2
<1> QED BY <1>3, <1>4

-----------------------------------------------------------------------------
\* The requests between routers.  As long as none has timed out, a request of
\* a node's present incarnation is the only one of its thread, and the thread
\* waits for it; no request is of an incarnation still to come.

Awaited(n, m, t, a, b) ==
  /\ AtMostOne(inbox[m], GetOf(b, t))
  /\ ~NoneIn(inbox[m], GetOf(b, t)) =>
       /\ lookup[n][t] # None /\ lookup[n][t].state = "asked" /\ lookup[n][t].actor = a

GetsAwaited ==
  \A n, m \in Node, t \in Thread : \A a, b :
    a = Actor(m) /\ b = Actor(n) /\ timeouts = 0 => Awaited(n, m, t, a, b)

GetsPast ==
  \A n, m \in Node, t \in Thread, b \in ActorId :
    b.node = n /\ incarnation[n] < b.incarnation => NoneIn(inbox[m], GetOf(b, t))

\* The mailboxes get no request.
NoGetsSent ==
  \A n \in Node : \/ inbox'[n] = inbox[n]
                  \/ \E r \in Seq(Message(n)) : /\ inbox'[n] = inbox[n] \o r
                                                /\ \A b, t : NoneIn(r, GetOf(b, t))

LEMMA StepsWithoutGets ==
  ASSUME TypeInv, NEW k \in Node, NEW t \in Thread,
         \/ Publish(k) \/ Register(k) \/ AddObserver(k) \/ NotifyReady(k) \/ GetMembers(k)
         \/ Serve(k) \/ UpdateDown(k) \/ OpenCloseEngine(k)
         \/ RequestFails(k, t) \/ AddSymbols(k, t) \/ Connect(k, t) \/ AddResultActor(k, t)
         \/ Match \/ RouteMatched
  PROVE  NoGetsSent
<1>1. ASSUME UNCHANGED inbox PROVE NoGetsSent BY <1>1 DEF NoGetsSent
<1>2. ASSUME NEW j \in Node, NEW r \in Seq(Message(j)), inbox'[j] = inbox[j] \o r,
             \A n \in Node \ {j} : inbox'[n] = inbox[n],
             \A b, u : NoneIn(r, GetOf(b, u))
      PROVE  NoGetsSent
  BY <1>2 DEF NoGetsSent
<1>3. ASSUME NEW x, \A b, u : x \notin GetOf(b, u) PROVE \A b, u : NoneIn(<<x>>, GetOf(b, u))
  BY <1>3, NoneInOne
<1>4. CASE \/ Publish(k) \/ AddObserver(k) \/ NotifyReady(k) \/ GetMembers(k)
           \/ Serve(k) \/ OpenCloseEngine(k) \/ RequestFails(k, t) \/ Connect(k, t) \/ Match
  BY <1>1, <1>4 DEF Publish, AddObserver, NotifyReady, GetMembers, Serve, OpenCloseEngine,
     RequestFails, Connect, Match, routers
<1>5. CASE Register(k) BY <1>2, <1>5, RegisterSends
<1>6. CASE UpdateDown(k)
  <2>1. PICK x \in RemoveMessage(k) :
           /\ <<x>> \in Seq(Message(k)) /\ inbox'[k] = inbox[k] \o <<x>>
           /\ \A n \in Node \ {k} : inbox'[n] = inbox[n]
    BY <1>6, UpdateDownSends
  <2>2. \A b, u : x \notin GetOf(b, u) BY KindsDiffer
  <2> QED BY <2>1, <2>2, <1>2, <1>3
<1>7. CASE AddSymbols(k, t)
  <2>1. PICK l \in Lookup(k), r \in Seq(Message(k)) :
           /\ r \in Seq(RemotesOf(l.symbols, l.actor))
           /\ inbox'[k] = inbox[k] \o r
           /\ \A n \in Node \ {k} : inbox'[n] = inbox[n]
    BY <1>7, AddSymbolsSends
  <2>2. \A x \in RemotesOf(l.symbols, l.actor) : \A b, u : x \notin GetOf(b, u)
    BY DEF RemotesOf, GetOf
  <2>3. \A b, u : NoneIn(r, GetOf(b, u)) BY <2>1, <2>2, NoneOfKind
  <2> QED BY <2>1, <2>3, <1>2
<1>8. CASE AddResultActor(k, t)
  <2>1. PICK x \in ResultMessage :
           /\ <<x>> \in Seq(Message(k)) /\ inbox'[k] = inbox[k] \o <<x>>
           /\ \A n \in Node \ {k} : inbox'[n] = inbox[n]
    BY <1>8, AddResultActorSends
  <2>2. \A b, u : x \notin GetOf(b, u) BY KindsDiffer
  <2> QED BY <2>1, <2>2, <1>2, <1>3
<1>9. CASE RouteMatched
  <2>1. PICK j \in Node, x \in OrderMessage :
           /\ <<x>> \in Seq(Message(j)) /\ inbox'[j] = inbox[j] \o <<x>>
           /\ \A n \in Node \ {j} : inbox'[n] = inbox[n]
    BY <1>9, RouteMatchedSends
  <2>2. \A b, u : x \notin GetOf(b, u) BY KindsDiffer
  <2> QED BY <2>1, <2>2, <1>2, <1>3
<1> QED BY <1>4, <1>5, <1>6, <1>7, <1>8, <1>9

\* The request that Ask sends, if the router asked is published.
LEMMA AskSends ==
  ASSUME TypeInv, NEW k \in Node, NEW t \in Thread, NEW m \in Node \ {k}, Ask(k, t, m)
  PROVE  \E x \in GetMessage :
           /\ \A b, u : x \in GetOf(b, u) => b = Actor(k) /\ u = t
           /\ \A b : b = Actor(k) => x \in GetOf(b, t)
           /\ <<x>> \in Seq(Message(m))
           /\ pc[m] = "publish" => inbox'[m] = inbox[m]
           /\ pc[m] # "publish" => inbox'[m] = inbox[m] \o <<x>>
           /\ \A n \in Node \ {m} : inbox'[n] = inbox[n]
<1> DEFINE x == [type |-> "get", from |-> Actor(k), thread |-> t]
<1>1. /\ x \in GetMessage
      /\ pc[m] = "publish" => UNCHANGED inbox
      /\ pc[m] # "publish" => inbox'[m] = inbox[m] \o <<x>>
      /\ \A n \in Node \ {m} : inbox'[n] = inbox[n]
  <2>1. NewRequest(k, t, m) BY AskFacts
  <2> QED BY <2>1 DEF NewRequest
<1>2. x \in Message(m) BY <1>1 DEF Message
<1>3. <<x>> \in Seq(Message(m)) BY <1>2
<1>4. \A b, u : x \in GetOf(b, u) => b = Actor(k) /\ u = t
  <2>1. x.from = Actor(k) /\ x.thread = t OBVIOUS
  <2> HIDE DEF x
  <2> QED BY <2>1 DEF GetOf
<1>5. \A b : b = Actor(k) => x \in GetOf(b, t) BY DEF GetOf
<1>6. pc[m] = "publish" => inbox'[m] = inbox[m] BY <1>1
<1> HIDE DEF x
<1> QED BY <1>1, <1>3, <1>4, <1>5, <1>6

\* What these steps and those of a router keep.
LEMMA NoGetsAdded ==
  ASSUME TypeInv, NEW m \in Node, NEW b, NEW t,
         NoGetsSent \/ \E k \in Node : \E y : Receives(k, y)
  PROVE  /\ AtMostOne(inbox[m], GetOf(b, t)) => AtMostOne(inbox'[m], GetOf(b, t))
         /\ NoneIn(inbox[m], GetOf(b, t)) => NoneIn(inbox'[m], GetOf(b, t))
<1>1. inbox[m] \in Seq(Message(m)) BY DEF TypeInv, RoutersTyped
<1>2. CASE inbox'[m] = inbox[m] BY <1>2
<1>3. ASSUME NEW r \in Seq(Message(m)), inbox'[m] = inbox[m] \o r, NoneIn(r, GetOf(b, t))
      PROVE  /\ AtMostOne(inbox[m], GetOf(b, t)) => AtMostOne(inbox'[m], GetOf(b, t))
             /\ NoneIn(inbox[m], GetOf(b, t)) => NoneIn(inbox'[m], GetOf(b, t))
  BY <1>1, <1>3, AtMostOneKept, NoneInAppended
<1>4. CASE inbox[m] # <<>> /\ inbox'[m] = Tail(inbox[m])
  BY <1>1, <1>4, AtMostOneTail, NoneInTail
<1>5. CASE NoGetsSent BY <1>2, <1>3, <1>5 DEF NoGetsSent
<1>6. ASSUME NEW k \in Node, NEW y, Receives(k, y)
      PROVE  inbox'[m] = inbox[m] \/ (inbox[m] # <<>> /\ inbox'[m] = Tail(inbox[m]))
  BY <1>6, Received DEF TypeInv
<1> QED BY <1>2, <1>4, <1>5, <1>6

LEMMA StepGetsPast == TypeInv /\ GetsPast /\ [Next]_vars => GetsPast'
<1> SUFFICES ASSUME TypeInv, GetsPast, [Next]_vars,
                    NEW n \in Node, NEW m \in Node, NEW t \in Thread, NEW b \in ActorId,
                    b.node = n, incarnation'[n] < b.incarnation
             PROVE  NoneIn(inbox'[m], GetOf(b, t))
  BY DEF GetsPast
<1>1. incarnation[n] \in Nat /\ b.incarnation \in Nat
  BY DEF TypeInv, NodesTyped, ActorId
<1>2. inbox[m] \in Seq(Message(m)) BY DEF TypeInv, RoutersTyped
<1>3. ASSUME incarnation' = incarnation, NoGetsSent \/ \E k \in Node : \E y : Receives(k, y)
      PROVE  NoneIn(inbox'[m], GetOf(b, t))
  BY <1>3, NoGetsAdded DEF GetsPast
<1>4. ASSUME NEW k \in Node, NEW u \in Thread, NEW j \in Node \ {k}, Ask(k, u, j),
             incarnation' = incarnation
      PROVE  NoneIn(inbox'[m], GetOf(b, t))
  <2>1. NoneIn(inbox[m], GetOf(b, t)) BY <1>4 DEF GetsPast
  <2>2. PICK x \in GetMessage :
           /\ \A c, v : x \in GetOf(c, v) => c = Actor(k) /\ v = u
           /\ \A c : c = Actor(k) => x \in GetOf(c, u)
           /\ <<x>> \in Seq(Message(j))
           /\ pc[j] = "publish" => inbox'[j] = inbox[j]
           /\ pc[j] # "publish" => inbox'[j] = inbox[j] \o <<x>>
           /\ \A i \in Node \ {j} : inbox'[i] = inbox[i]
    <3>1. Ask(k, u, j) /\ k \in Node /\ u \in Thread /\ j \in Node \ {k} BY <1>4
    <3> HIDE DEF Ask
    <3> QED BY <3>1, AskSends
  <2>3. x \notin GetOf(b, t)
    <3>1. SUFFICES ASSUME Actor(k) = b PROVE FALSE BY <2>2
    <3>2. k = n /\ b.incarnation = incarnation[n] BY <3>1 DEF Actor
    <3> QED BY <3>2, <1>1, <1>4
  <2>4. NoneIn(<<x>>, GetOf(b, t)) BY <2>3, NoneInOne
  <2>5. CASE inbox'[m] = inbox[m] BY <2>1, <2>5
  <2>6. CASE m = j /\ inbox'[m] = inbox[m] \o <<x>>
    <3>1. <<x>> \in Seq(Message(m)) BY <2>2, <2>6
    <3>2. NoneIn(inbox[m] \o <<x>>, GetOf(b, t)) BY <3>1, <2>1, <2>4, <1>2, NoneInAppended
    <3> QED BY <3>2, <2>6
  <2> QED BY <2>2, <2>5, <2>6
<1>5. CASE Next
  <2>1. CASE Match \/ RouteMatched
    <3>1. incarnation' = incarnation BY <2>1 DEF Match, RouteMatched, cluster
    <3>2. "main" \in Thread BY DEF Thread
    <3> QED BY <2>1, <3>1, <3>2, <1>3, StepsWithoutGets
  <2>2. ASSUME NEW k \in Node,
               \/ Publish(k) \/ Register(k) \/ AddObserver(k) \/ NotifyReady(k)
               \/ GetMembers(k) \/ Serve(k) \/ OpenCloseEngine(k) \/ UpdateDown(k)
        PROVE  NoneIn(inbox'[m], GetOf(b, t))
    <3>1. incarnation' = incarnation
      BY <2>2 DEF Publish, Register, AddObserver, NotifyReady, GetMembers, Serve,
         OpenCloseEngine, UpdateDown, cluster
    <3>2. "main" \in Thread BY DEF Thread
    <3> QED BY <2>2, <3>1, <3>2, <1>3, StepsWithoutGets
  <2>3. ASSUME NEW k \in Node, AddMember(k) PROVE NoneIn(inbox'[m], GetOf(b, t))
    <3>1. PICK j \in Node \ {k} : Ask(k, "main", j) /\ "main" \in Thread
      BY <2>3 DEF AddMember, TypeInv, NodesTyped, Thread
    <3> QED BY <2>3, <3>1, <1>4 DEF AddMember
  <2>4. ASSUME NEW k \in Node, UpdateUp(k) PROVE NoneIn(inbox'[m], GetOf(b, t))
    <3>1. PICK j \in Node \ {k} : Ask(k, "observer", j) /\ "observer" \in Thread
      BY <2>4, EventTaken DEF UpdateUp, Thread
    <3> QED BY <2>4, <3>1, <1>4 DEF UpdateUp
  <2>5. ASSUME NEW k \in Node,
               \/ RouteLocal(k) \/ RouteRemote(k) \/ RouteRemove(k) \/ RouteGet(k)
               \/ RouteResult(k) \/ RouteOrder(k)
        PROVE  NoneIn(inbox'[m], GetOf(b, t))
    BY <2>5, <1>3 DEF RouteLocal, RouteRemote, RouteRemove, RouteGet, RouteResult, RouteOrder,
       cluster
  <2>6. ASSUME NEW k \in Node, Restart(k) PROVE NoneIn(inbox'[m], GetOf(b, t))
    <3>1. incarnation[n] < b.incarnation
      <4>1. incarnation'[n] = incarnation[n] \/ incarnation'[n] = incarnation[n] + 1
        BY <2>6 DEF Restart, TypeInv, NodesTyped
      <4> QED BY <4>1, <1>1
    <3>2. inbox'[m] = inbox[m] \/ inbox'[m] = <<>>
      BY <2>6 DEF Restart, TypeInv, RoutersTyped
    <3> QED BY <3>1, <3>2, NoneInEmpty DEF GetsPast
  <2>7. ASSUME NEW k \in Node, NEW u \in Thread,
               RequestFails(k, u) \/ AddSymbols(k, u) \/ Connect(k, u) \/ AddResultActor(k, u)
        PROVE  NoneIn(inbox'[m], GetOf(b, t))
    <3>1. incarnation' = incarnation
      BY <2>7 DEF RequestFails, AddSymbols, Connect, AddResultActor, cluster
    <3>2. NoGetsSent BY <2>7, StepsWithoutGets
    <3> QED BY <3>1, <3>2, <1>3
  <2> QED BY <1>5, <2>1, <2>2, <2>3, <2>4, <2>5, <2>6, <2>7, NextCases
<1>6. CASE UNCHANGED vars
  BY <1>3, <1>6 DEF vars, routers, cluster, NoGetsSent
<1> QED BY <1>5, <1>6

LEMMA TimeoutsGrow == ASSUME TypeInv, [Next]_vars, timeouts' = 0 PROVE timeouts = 0
<1>1. timeouts \in Nat BY DEF TypeInv, FlowTyped
<1>2. ASSUME NEW k \in Node, NEW t \in Thread, RequestFails(k, t) \/ Connect(k, t)
      PROVE  timeouts' = timeouts \/ timeouts' = timeouts + 1
  BY <1>2 DEF RequestFails, Connect, failure
<1>3. ASSUME NEW k \in Node,
             \/ Publish(k) \/ Register(k) \/ AddObserver(k) \/ NotifyReady(k) \/ GetMembers(k)
             \/ AddMember(k) \/ Serve(k) \/ UpdateDown(k) \/ UpdateUp(k)
             \/ \E t \in Thread : AddSymbols(k, t) \/ AddResultActor(k, t)
      PROVE  timeouts' = timeouts
  BY <1>3 DEF Publish, Register, AddObserver, NotifyReady, GetMembers, AddMember, Serve,
     UpdateDown, UpdateUp, AddSymbols, AddResultActor, failure
<1>4. ASSUME NEW k \in Node,
             \/ RouteLocal(k) \/ RouteRemote(k) \/ RouteRemove(k) \/ RouteGet(k)
             \/ RouteResult(k) \/ RouteOrder(k) \/ OpenCloseEngine(k) \/ Restart(k)
      PROVE  timeouts' = timeouts
  BY <1>4 DEF RouteLocal, RouteRemote, RouteRemove, RouteGet, RouteResult, RouteOrder,
     OpenCloseEngine, Restart, failure
<1>5. CASE Match \/ RouteMatched BY <1>1, <1>5 DEF Match, RouteMatched, failure
<1>6. CASE UNCHANGED vars BY <1>1, <1>6 DEF vars, failure
<1>7. CASE Next BY <1>1, <1>2, <1>3, <1>4, <1>5, <1>7, NextCases
<1> QED BY <1>6, <1>7

\* A step that sends no request, and changes only calls that wait for none.
LEMMA AwaitedKept ==
  ASSUME TypeInv, NEW n \in Node, NEW m \in Node, NEW t \in Thread, NEW a, NEW b,
         Awaited(n, m, t, a, b),
         NoGetsSent \/ \E k \in Node : \E y : Receives(k, y),
         lookup'[n][t] = lookup[n][t] \/ NoneIn(inbox[m], GetOf(b, t))
  PROVE  Awaited(n, m, t, a, b)'
<1>1. /\ AtMostOne(inbox[m], GetOf(b, t)) => AtMostOne(inbox'[m], GetOf(b, t))
      /\ NoneIn(inbox[m], GetOf(b, t)) => NoneIn(inbox'[m], GetOf(b, t))
  BY NoGetsAdded
<1> QED BY <1>1 DEF Awaited

LEMMA AskAwaited ==
  ASSUME TypeInv, NEW n \in Node, NEW m \in Node, NEW t \in Thread, NEW a, NEW b,
         a = Actor(m), b = Actor(n), Awaited(n, m, t, a, b),
         NEW k \in Node, NEW u \in Thread, NEW j \in Node \ {k}, Ask(k, u, j),
         lookup[k][u] = None
  PROVE  Awaited(n, m, t, a, b)'
<1>1. PICK x \in GetMessage :
         /\ \A c, v : x \in GetOf(c, v) => c = Actor(k) /\ v = u
         /\ \A c : c = Actor(k) => x \in GetOf(c, u)
         /\ <<x>> \in Seq(Message(j))
         /\ pc[j] = "publish" => inbox'[j] = inbox[j]
         /\ pc[j] # "publish" => inbox'[j] = inbox[j] \o <<x>>
         /\ \A i \in Node \ {j} : inbox'[i] = inbox[i]
  <2> HIDE DEF Ask
  <2> QED BY AskSends
<1>2. PICK l : /\ l = lookup'[k][u]
               /\ l = [actor |-> Actor(j), symbols |-> {},
                       state |-> IF pc[j] = "publish" THEN "failed" ELSE "asked"]
               /\ l \in Lookup(k)
               /\ \A i \in Node, v \in Thread : i # k \/ v # u => lookup'[i][v] = lookup[i][v]
  <2>1. NewCall(k, u, j) BY AskFacts
  <2> QED BY <2>1 DEF NewCall
<1>3. l.actor = Actor(j) /\ (pc[j] # "publish" => l.state = "asked") /\ l # None
  BY <1>2, LookupIsSome
<1>4. inbox[m] \in Seq(Message(m)) /\ inbox[j] \in Seq(Message(j))
  BY DEF TypeInv, RoutersTyped
<1>5. CASE ~(n = k /\ t = u)
  <2>1. lookup'[n][t] = lookup[n][t] BY <1>2, <1>5
  <2>2. x \notin GetOf(b, t)
    <3>1. SUFFICES ASSUME Actor(n) = Actor(k), t = u PROVE FALSE BY <1>1
    <3> QED BY <3>1, <1>5 DEF Actor
  <2>3. NoneIn(<<x>>, GetOf(b, t)) BY <2>2, NoneInOne
  <2>4. CASE inbox'[m] = inbox[m] BY <2>1, <2>4 DEF Awaited
  <2>5. CASE m = j /\ inbox'[m] = inbox[m] \o <<x>>
    <3>1. /\ NoneIn(inbox[m] \o <<x>>, GetOf(b, t)) <=> NoneIn(inbox[m], GetOf(b, t))
      BY <2>3, <2>5, <1>1, <1>4, NoneInAppended
    <3>2. AtMostOne(inbox[m] \o <<x>>, GetOf(b, t))
      BY <2>3, <2>5, <1>1, <1>4, AtMostOneKept DEF Awaited
    <3> QED BY <3>1, <3>2, <2>1, <2>5 DEF Awaited
  <2> QED BY <2>4, <2>5, <1>1
<1>6. CASE n = k /\ t = u
  <2>1. NoneIn(inbox[m], GetOf(b, t)) BY <1>6 DEF Awaited
  <2>2. CASE inbox'[m] = inbox[m]
    BY <2>1, <2>2 DEF Awaited, AtMostOne, NoneIn
  <2>3. CASE m = j /\ pc[j] # "publish" /\ inbox'[m] = inbox[m] \o <<x>>
    <3>1. AtMostOne(inbox[m] \o <<x>>, GetOf(b, t))
      BY <2>1, <2>3, <1>1, <1>4, AtMostOneAppended
    <3>2. lookup'[n][t] # None /\ lookup'[n][t].state = "asked" /\ lookup'[n][t].actor = a
      BY <2>3, <1>2, <1>3, <1>6
    <3> QED BY <3>1, <3>2, <2>3 DEF Awaited
  <2> QED BY <2>2, <2>3, <1>1
<1> QED BY <1>5, <1>6

LEMMA FailAwaited ==
  ASSUME TypeInv, NEW n \in Node, NEW m \in Node, NEW t \in Thread, NEW a, NEW b,
         a = Actor(m), b = Actor(n), Awaited(n, m, t, a, b), timeouts' = 0,
         NEW k \in Node, NEW u \in Thread, RequestFails(k, u)
  PROVE  Awaited(n, m, t, a, b)'
<1>1. NoGetsSent BY StepsWithoutGets
<1>2. PICK l \in Lookup(k) :
         /\ l = lookup[k][u] /\ l.state = "asked"
         /\ [l EXCEPT !.state = "failed"] \in Lookup(k)
         /\ lookup' = [lookup EXCEPT ![k][u] = [l EXCEPT !.state = "failed"]]
  BY RequestFailsFacts
<1>3. CASE ~(n = k /\ t = u)
  <2>1. lookup'[n][t] = lookup[n][t] BY <1>2, <1>3, CallChanged
  <2> QED BY <2>1, <1>1, AwaitedKept
<1>4. CASE n = k /\ t = u
  <2>1. CASE NoneIn(inbox[m], GetOf(b, t)) BY <2>1, <1>1, AwaitedKept
  <2>2. CASE ~NoneIn(inbox[m], GetOf(b, t))
    <3>1. lookup[k][u].actor.node = m BY <2>2, <1>4 DEF Awaited, Actor
    <3>2. \E i \in DOMAIN inbox[m] :
             inbox[m][i] = [type |-> "get", from |-> Actor(k), thread |-> u]
      BY <2>2, <1>4 DEF NoneIn, GetOf
    <3>3. timeouts' = timeouts + 1 BY <3>1, <3>2 DEF RequestFails
    <3> QED BY <3>3 DEF TypeInv, FlowTyped
  <2> QED BY <2>1, <2>2
<1> QED BY <1>3, <1>4

LEMMA AnswerAwaited ==
  ASSUME TypeInv, NEW n \in Node, NEW m \in Node, NEW t \in Thread, NEW a, NEW b,
         a = Actor(m), b = Actor(n), Awaited(n, m, t, a, b), NEW k \in Node, RouteGet(k)
  PROVE  Awaited(n, m, t, a, b)'
<1>1. PICK x \in GetMessage :
         /\ x = Head(inbox[k]) /\ x.from.node \in Node /\ x.thread \in Thread
         /\ ~Waits(x, k) => UNCHANGED lookup
         /\ Waits(x, k) =>
              \E l, next \in Lookup(x.from.node) :
                 /\ l = lookup[x.from.node][x.thread]
                 /\ next = [l EXCEPT !.state = "answered", !.symbols = local_symbols[k]]
                 /\ lookup' = [lookup EXCEPT ![x.from.node][x.thread] = next]
  BY RouteGetFacts
<1>2. Receives(k, "get") BY DEF RouteGet
<1>3. CASE lookup'[n][t] = lookup[n][t] BY <1>2, <1>3, AwaitedKept
<1>4. CASE lookup'[n][t] # lookup[n][t]
  <2>1. Waits(x, k) BY <1>1, <1>4
  <2>2. x.from.node = n /\ x.thread = t
    <3>1. PICK next \in Lookup(x.from.node) :
             lookup' = [lookup EXCEPT ![x.from.node][x.thread] = next]
      BY <2>1, <1>1
    <3>2. PICK j \in Node, u \in Thread : j = x.from.node /\ u = x.thread BY <1>1
    <3>3. next \in Lookup(j) /\ lookup' = [lookup EXCEPT ![j][u] = next] BY <3>1, <3>2
    <3>4. \A i \in Node, v \in Thread : i # j \/ v # u => lookup'[i][v] = lookup[i][v]
      BY <3>3, CallChanged
    <3> QED BY <3>2, <3>4, <1>4
  <2>3. x.from = b /\ lookup[n][t].actor = Actor(k) BY <2>1, <2>2 DEF Waits
  <2>4. CASE m # k
    <3>1. a # Actor(k) BY <2>4 DEF Actor
    <3>2. NoneIn(inbox[m], GetOf(b, t)) BY <3>1, <2>3 DEF Awaited
    <3> QED BY <3>2, <1>2, AwaitedKept
  <2>5. CASE m = k
    <3>1. x \in GetOf(b, t) BY <2>2, <2>3 DEF GetMessage, GetOf
    <3>2. inbox[k] \in Seq(Message(k)) BY DEF TypeInv, RoutersTyped
    <3>3. inbox[k] # <<>> /\ inbox'[k] = Tail(inbox[k]) BY <1>2, Received DEF TypeInv
    <3>4. AtMostOne(inbox[k], GetOf(b, t)) /\ Head(inbox[k]) \in GetOf(b, t)
      BY <3>1, <2>5, <1>1 DEF Awaited
    <3>5. AtMostOne(Tail(inbox[k]), GetOf(b, t)) /\ NoneIn(Tail(inbox[k]), GetOf(b, t))
      BY <3>2, <3>3, <3>4, AtMostOneTail
    <3> QED BY <3>3, <3>5, <2>5 DEF Awaited
  <2> QED BY <2>4, <2>5
<1> QED BY <1>3, <1>4

LEMMA RestartAwaited ==
  ASSUME TypeInv, GetsAwaited, GetsPast, timeouts = 0,
         NEW n \in Node, NEW m \in Node, NEW t \in Thread, NEW a, NEW b,
         a = Actor(m)', b = Actor(n)', NEW k \in Node, Restart(k)
  PROVE  Awaited(n, m, t, a, b)'
<1>1. /\ inbox'[k] = <<>>
      /\ \A i \in Node \ {k} : /\ inbox'[i] = inbox[i] /\ lookup'[i] = lookup[i]
                               /\ incarnation'[i] = incarnation[i]
      /\ incarnation'[k] = incarnation[k] + 1 /\ incarnation[k] \in Nat
  BY DEF Restart, TypeInv, NodesTyped, RoutersTyped
<1>2. CASE m = k
  <2>1. NoneIn(<<>>, GetOf(b, t)) /\ AtMostOne(<<>>, GetOf(b, t)) BY NoneInEmpty
  <2> QED BY <2>1, <1>1, <1>2 DEF Awaited
<1>3. CASE m # k /\ n = k
  <2>1. /\ b \in ActorId /\ b.node = n /\ incarnation[n] < b.incarnation
    BY <1>1, <1>3 DEF Actor, ActorId
  <2>2. NoneIn(inbox[m], GetOf(b, t)) BY <2>1 DEF GetsPast
  <2> QED BY <2>2, <1>1, <1>3 DEF Awaited, AtMostOne, NoneIn
<1>4. CASE m # k /\ n # k
  <2>1. a = Actor(m) /\ b = Actor(n) BY <1>1, <1>4 DEF Actor
  <2>2. Awaited(n, m, t, a, b) BY <2>1 DEF GetsAwaited
  <2> QED BY <2>2, <1>1, <1>4 DEF Awaited
<1> QED BY <1>2, <1>3, <1>4

LEMMA StepGetsAwaited ==
  TypeInv /\ Phases /\ GetsAwaited /\ GetsPast /\ [Next]_vars => GetsAwaited'
<1> SUFFICES ASSUME TypeInv, Phases, GetsAwaited, GetsPast, [Next]_vars,
                    NEW n \in Node, NEW m \in Node, NEW t \in Thread, NEW a, NEW b,
                    a = Actor(m)', b = Actor(n)', timeouts' = 0
             PROVE  Awaited(n, m, t, a, b)'
  BY DEF GetsAwaited
<1>1. timeouts = 0 BY TimeoutsGrow
<1>2. "main" \in Thread /\ "observer" \in Thread BY DEF Thread
<1>3. incarnation' = incarnation => a = Actor(m) /\ b = Actor(n) /\ Awaited(n, m, t, a, b)
  BY <1>1 DEF GetsAwaited, Actor
<1>4. ASSUME incarnation' = incarnation, UNCHANGED lookup,
             NoGetsSent \/ \E k \in Node : \E y : Receives(k, y)
      PROVE  Awaited(n, m, t, a, b)'
  BY <1>3, <1>4, AwaitedKept
<1>5. CASE Next
  <2>1. CASE Match \/ RouteMatched
    <3>1. UNCHANGED <<incarnation, lookup>> BY <2>1 DEF Match, RouteMatched, cluster
    <3> QED BY <2>1, <3>1, <1>2, <1>4, StepsWithoutGets
  <2>2. ASSUME NEW k \in Node,
               \/ Publish(k) \/ Register(k) \/ AddObserver(k) \/ NotifyReady(k)
               \/ GetMembers(k) \/ Serve(k) \/ OpenCloseEngine(k) \/ UpdateDown(k)
        PROVE  Awaited(n, m, t, a, b)'
    <3>1. UNCHANGED <<incarnation, lookup>>
      BY <2>2 DEF Publish, Register, AddObserver, NotifyReady, GetMembers, Serve,
         OpenCloseEngine, UpdateDown, cluster
    <3> QED BY <2>2, <3>1, <1>2, <1>4, StepsWithoutGets
  <2>3. ASSUME NEW k \in Node, AddMember(k) PROVE Awaited(n, m, t, a, b)'
    <3>1. PICK j \in Node \ {k} : Ask(k, "main", j)
      BY <2>3 DEF AddMember, TypeInv, NodesTyped
    <3>2. lookup[k]["main"] = None /\ incarnation' = incarnation BY <2>3 DEF AddMember
    <3> HIDE DEF Ask
    <3> QED BY <3>1, <3>2, <1>2, <1>3, AskAwaited
  <2>4. ASSUME NEW k \in Node, UpdateUp(k) PROVE Awaited(n, m, t, a, b)'
    <3>1. PICK j \in Node \ {k} : Ask(k, "observer", j)
      BY <2>4, EventTaken DEF UpdateUp
    <3>2. lookup[k]["observer"] = None /\ incarnation' = incarnation BY <2>4 DEF UpdateUp
    <3> QED BY <3>1, <3>2, <1>2, <1>3, AskAwaited
  <2>5. ASSUME NEW k \in Node,
               RouteLocal(k) \/ RouteRemote(k) \/ RouteRemove(k) \/ RouteResult(k) \/ RouteOrder(k)
        PROVE  Awaited(n, m, t, a, b)'
    BY <2>5, <1>4 DEF RouteLocal, RouteRemote, RouteRemove, RouteResult, RouteOrder, cluster
  <2>6. ASSUME NEW k \in Node, RouteGet(k) PROVE Awaited(n, m, t, a, b)'
    <3>1. incarnation' = incarnation BY <2>6 DEF RouteGet, cluster
    <3> QED BY <2>6, <3>1, <1>3, AnswerAwaited
  <2>7. ASSUME NEW k \in Node, Restart(k) PROVE Awaited(n, m, t, a, b)'
    BY <2>7, <1>1, RestartAwaited
  <2>8. ASSUME NEW k \in Node, NEW u \in Thread, RequestFails(k, u)
        PROVE  Awaited(n, m, t, a, b)'
    <3>1. incarnation' = incarnation BY <2>8 DEF RequestFails, cluster
    <3> QED BY <2>8, <3>1, <1>3, FailAwaited
  <2>9. ASSUME NEW k \in Node, NEW u \in Thread,
               AddSymbols(k, u) \/ Connect(k, u) \/ AddResultActor(k, u)
        PROVE  Awaited(n, m, t, a, b)'
    <3>1. incarnation' = incarnation BY <2>9 DEF AddSymbols, Connect, AddResultActor, cluster
    <3>2. NoGetsSent BY <2>9, StepsWithoutGets
    <3>3. \E l \in Lookup(k) \cup {None} : lookup' = [lookup EXCEPT ![k][u] = l]
      <4>1. CASE AddSymbols(k, u) BY <4>1, AddSymbolsFacts
      <4>2. CASE Connect(k, u) BY <4>2, ConnectFacts
      <4>3. CASE AddResultActor(k, u) BY <4>3 DEF AddResultActor
      <4> QED BY <2>9, <4>1, <4>2, <4>3
    <3>4. n # k \/ t # u => lookup'[n][t] = lookup[n][t] BY <3>3, CallChanged
    <3>5. lookup[k][u].state # "asked" BY <2>9 DEF AddSymbols, Connect, AddResultActor
    <3>6. n = k /\ t = u => NoneIn(inbox[m], GetOf(b, t)) BY <3>1, <3>5, <1>3 DEF Awaited
    <3> QED BY <3>1, <3>2, <3>4, <3>6, <1>3, AwaitedKept
  <2> QED BY <1>5, <2>1, <2>2, <2>3, <2>4, <2>5, <2>6, <2>7, <2>8, <2>9, NextCases
<1>6. CASE UNCHANGED vars
  <2>1. UNCHANGED <<incarnation, lookup, inbox>> BY <1>6 DEF vars, routers, cluster
  <2>2. NoGetsSent BY <2>1 DEF NoGetsSent
  <2> QED BY <2>1, <2>2, <1>4
<1> QED BY <1>5, <1>6

-----------------------------------------------------------------------------
\* A thread may be asking an incarnation that is no more.  The observer has
\* then the event before it that tells so; of the main thread it is recorded.

StaleObserver ==
  \A n, m \in Node : \A a :
    /\ lookup[n]["observer"] # None /\ lookup[n]["observer"].actor.node = m
    /\ a = Actor(m) /\ lookup[n]["observer"].actor # a
    => ~NoneIn(events[n], EventsOf(m))

StaleMain ==
  \A n, m \in Node : \A a :
    /\ lookup[n]["main"] # None /\ lookup[n]["main"].actor.node = m
    /\ a = Actor(m) /\ lookup[n]["main"].actor # a
    => n \in overtaken

\* A call goes on with the actor it has, or turns to a living one.
CallsCurrent ==
  \A n \in Node, t \in Thread :
    \/ lookup'[n][t] = None
    \/ lookup[n][t] # None /\ lookup'[n][t].actor = lookup[n][t].actor
    \/ \E m \in Node : lookup'[n][t].actor = Actor(m)

LEMMA CallCurrent ==
  ASSUME TypeInv, NEW k \in Node, NEW t \in Thread, NEW l \in Lookup(k) \cup {None},
         lookup' = [lookup EXCEPT ![k][t] = l],
         \/ l = None
         \/ lookup[k][t] # None /\ l.actor = lookup[k][t].actor
         \/ \E m \in Node : l.actor = Actor(m)
  PROVE  CallsCurrent
<1>1. /\ lookup'[k][t] = l
      /\ \A n \in Node, u \in Thread : n # k \/ u # t => lookup'[n][u] = lookup[n][u]
  BY DEF TypeInv, NodesTyped
<1> QED BY <1>1 DEF CallsCurrent

LEMMA StepsOfActors ==
  ASSUME TypeInv, NEW k \in Node, NEW t \in Thread,
         \/ RequestFails(k, t) \/ AddSymbols(k, t) \/ Connect(k, t) \/ AddResultActor(k, t)
         \/ RouteGet(k)
  PROVE  CallsCurrent
<1>1. CASE RequestFails(k, t)
  <2>1. PICK l \in Lookup(k) :
           /\ l = lookup[k][t] /\ l.state = "asked"
           /\ [l EXCEPT !.state = "failed"] \in Lookup(k)
           /\ lookup' = [lookup EXCEPT ![k][t] = [l EXCEPT !.state = "failed"]]
    BY <1>1, RequestFailsFacts
  <2>2. PICK next : next = [l EXCEPT !.state = "failed"] OBVIOUS
  <2>3. next.actor = l.actor BY <2>2 DEF Lookup
  <2>4. l # None BY LookupIsSome
  <2> QED BY <2>1, <2>2, <2>3, <2>4, CallCurrent
<1>2. CASE AddSymbols(k, t)
  <2>1. PICK l \in Lookup(k), next \in Lookup(k) \cup {None}, r \in Seq(Message(k)) :
           /\ l = lookup[k][t]
           /\ lookup' = [lookup EXCEPT ![k][t] = next]
           /\ l.actor.node = ResultHost =>
                /\ next \in Lookup(k) /\ next.actor = l.actor /\ next.state = "connect"
           /\ l.actor.node # ResultHost => next = None
    BY <1>2, AddSymbolsFacts
  <2>2. l # None BY LookupIsSome
  <2> QED BY <2>1, <2>2, CallCurrent
<1>3. CASE Connect(k, t)
  <2>1. PICK l \in Lookup(k), next \in Lookup(k) \cup {None} :
           /\ l = lookup[k][t] /\ l.state = "connect" /\ l.actor.node = ResultHost
           /\ lookup' = [lookup EXCEPT ![k][t] = next]
           /\ pc[ResultHost] \in {"publish", "register"} => next = None
           /\ pc[ResultHost] \notin {"publish", "register"} =>
                \/ next = None /\ unconnected' = unconnected \cup {k}
                \/ /\ next \in Lookup(k) /\ next.actor = Actor(ResultHost)
                   /\ next.state = "connected"
    BY <1>3, ConnectFacts
  <2> QED BY <2>1, CallCurrent, HomeAssumption
<1>4. CASE AddResultActor(k, t) BY <1>4, CallCurrent DEF AddResultActor
<1>5. CASE RouteGet(k)
  <2>1. PICK x \in GetMessage :
           /\ x = Head(inbox[k]) /\ x.from.node \in Node /\ x.thread \in Thread
           /\ ~Waits(x, k) => UNCHANGED lookup
           /\ Waits(x, k) =>
                \E l, next \in Lookup(x.from.node) :
                   /\ l = lookup[x.from.node][x.thread]
                   /\ next = [l EXCEPT !.state = "answered", !.symbols = local_symbols[k]]
                   /\ lookup' = [lookup EXCEPT ![x.from.node][x.thread] = next]
    BY <1>5, RouteGetFacts
  <2>2. CASE ~Waits(x, k) BY <2>1, <2>2 DEF CallsCurrent
  <2>3. CASE Waits(x, k)
    <3>1. PICK j \in Node, u \in Thread : j = x.from.node /\ u = x.thread BY <2>1
    <3>2. PICK l, next \in Lookup(x.from.node) :
             /\ l = lookup[x.from.node][x.thread]
             /\ next = [l EXCEPT !.state = "answered", !.symbols = local_symbols[k]]
             /\ lookup' = [lookup EXCEPT ![x.from.node][x.thread] = next]
      BY <2>1, <2>3
    <3>3. next.actor = l.actor BY <3>2 DEF Lookup
    <3>4. l # None BY LookupIsSome
    <3>5. /\ next \in Lookup(j) \cup {None} /\ l = lookup[j][u]
          /\ lookup' = [lookup EXCEPT ![j][u] = next]
      BY <3>1, <3>2
    <3> QED BY <3>3, <3>4, <3>5, CallCurrent
  <2> QED BY <2>2, <2>3
<1> QED BY <1>1, <1>2, <1>3, <1>4, <1>5

LEMMA AskCurrent ==
  ASSUME TypeInv, NEW k \in Node, NEW t \in Thread, NEW m \in Node \ {k}, Ask(k, t, m)
  PROVE  CallsCurrent
<1>1. PICK l : /\ l = lookup'[k][t]
               /\ l = [actor |-> Actor(m), symbols |-> {},
                       state |-> IF pc[m] = "publish" THEN "failed" ELSE "asked"]
               /\ \A i \in Node, v \in Thread : i # k \/ v # t => lookup'[i][v] = lookup[i][v]
  <2>1. NewCall(k, t, m) BY AskFacts
  <2> QED BY <2>1 DEF NewCall
<1>2. lookup'[k][t].actor = Actor(m) BY <1>1
<1> QED BY <1>1, <1>2 DEF CallsCurrent

\* An event that comes last.
LEMMA EventsAppended ==
  ASSUME TypeInv, NEW n \in Node, NEW k \in Node \ {n}, NEW e,
         e \in EventsOf(k), events'[n] = Append(events[n], e), NEW m
  PROVE  /\ m = k => ~NoneIn(events'[n], EventsOf(m))
         /\ m = k /\ e \in UpOf(m) => LastIn(events'[n], UpOf(m), EventsOf(m))
         /\ m # k => (NoneIn(events'[n], EventsOf(m)) <=> NoneIn(events[n], EventsOf(m)))
         /\ m # k /\ LastIn(events[n], UpOf(m), EventsOf(m))
              => LastIn(events'[n], UpOf(m), EventsOf(m))
<1>1. events[n] \in Seq(Event(n)) BY DEF TypeInv, NodesTyped
<1>2. e \in Event(n) BY DEF EventsOf, Event
<1>3. <<e>> \in Seq(Event(n)) BY <1>2
<1>4. PICK q : q = events[n] OBVIOUS
<1>5. events'[n] = q \o <<e>> /\ q \in Seq(Event(n)) BY <1>1, <1>2, <1>4
<1>6. NoneIn(events'[n], EventsOf(m)) <=> NoneIn(q, EventsOf(m)) /\ e \notin EventsOf(m)
  <2>1. NoneIn(q \o <<e>>, EventsOf(m)) <=> NoneIn(q, EventsOf(m)) /\ NoneIn(<<e>>, EventsOf(m))
    BY <1>3, <1>5, NoneInAppended
  <2>2. NoneIn(<<e>>, EventsOf(m)) <=> e \notin EventsOf(m) BY NoneInOne
  <2> QED BY <2>1, <2>2, <1>5
<1>7. m # k => e \notin EventsOf(m) BY DEF EventsOf
<1>8. ASSUME e \in UpOf(m) PROVE LastIn(events'[n], UpOf(m), EventsOf(m))
  <2>1. LastIn(<<e>>, UpOf(m), EventsOf(m)) BY <1>8, LastInOne
  <2> QED BY <2>1, <1>3, <1>5, LastInAppended
<1>9. ASSUME m # k, LastIn(q, UpOf(m), EventsOf(m))
      PROVE  LastIn(events'[n], UpOf(m), EventsOf(m))
  <2>1. NoneIn(<<e>>, EventsOf(m)) BY <1>7, <1>9, NoneInOne
  <2> QED BY <2>1, <1>3, <1>5, <1>9, LastInAppended
<1> QED BY <1>4, <1>6, <1>7, <1>8, <1>9

\* What a step but Restart does to the events of n.
StaleKept(n) ==
  lookup[n]["observer"] # None =>
    \A B : NoneIn(events'[n], B) => NoneIn(events[n], B)

LEMMA StaleStays ==
  ASSUME TypeInv, StaleObserver, StaleMain, CallsCurrent,
         incarnation' = incarnation, overtaken' = overtaken,
         \A n \in Node : StaleKept(n)
  PROVE  StaleObserver' /\ StaleMain'
<1>1. "main" \in Thread /\ "observer" \in Thread BY DEF Thread
<1>2. \A m \in Node : \A a : a = Actor(m)' <=> a = Actor(m) BY DEF Actor
<1>3. \A m \in Node : Actor(m).node = m BY DEF Actor
<1>4. ASSUME NEW n \in Node, NEW m \in Node, NEW t \in Thread, NEW a, a = Actor(m),
             lookup'[n][t] # None, lookup'[n][t].actor.node = m, lookup'[n][t].actor # a
      PROVE  /\ lookup[n][t] # None /\ lookup[n][t].actor.node = m /\ lookup[n][t].actor # a
  <2>1. CASE \E i \in Node : lookup'[n][t].actor = Actor(i)
    BY <2>1, <1>3, <1>4
  <2>2. CASE lookup[n][t] # None /\ lookup'[n][t].actor = lookup[n][t].actor
    BY <2>2, <1>4
  <2> QED BY <2>1, <2>2, <1>4 DEF CallsCurrent
<1>5. StaleMain'
  <2> SUFFICES ASSUME NEW n \in Node, NEW m \in Node, NEW a,
                      lookup'[n]["main"] # None, lookup'[n]["main"].actor.node = m,
                      a = Actor(m)', lookup'[n]["main"].actor # a
               PROVE  n \in overtaken'
    BY DEF StaleMain
  <2>1. a = Actor(m) BY <1>2
  <2>2. lookup[n]["main"] # None /\ lookup[n]["main"].actor.node = m
        /\ lookup[n]["main"].actor # a
    BY <2>1, <1>1, <1>4
  <2> QED BY <2>1, <2>2 DEF StaleMain
<1>6. StaleObserver'
  <2> SUFFICES ASSUME NEW n \in Node, NEW m \in Node, NEW a,
                      lookup'[n]["observer"] # None, lookup'[n]["observer"].actor.node = m,
                      a = Actor(m)', lookup'[n]["observer"].actor # a
               PROVE  ~NoneIn(events'[n], EventsOf(m))
    BY DEF StaleObserver
  <2>1. a = Actor(m) BY <1>2
  <2>2. lookup[n]["observer"] # None /\ lookup[n]["observer"].actor.node = m
        /\ lookup[n]["observer"].actor # a
    BY <2>1, <1>1, <1>4
  <2>3. ~NoneIn(events[n], EventsOf(m)) BY <2>1, <2>2 DEF StaleObserver
  <2> QED BY <2>2, <2>3 DEF StaleKept
<1> QED BY <1>5, <1>6

LEMMA RestartEvents ==
  ASSUME TypeInv, NEW k \in Node, Restart(k), NEW n \in Node \ {k}
  PROVE  /\ ~observing[n] => events'[n] = events[n]
         /\ observing[n] => \E e \in EventsOf(k) : events'[n] = Append(events[n], e)
<1>1. PICK e : e = [status |-> "down", node |-> k] OBVIOUS
<1>2. e \in EventsOf(k) BY <1>1 DEF EventsOf
<1>3. events'[n] = IF observing[n] THEN Append(events[n], e) ELSE events[n]
  BY <1>1 DEF Restart
<1> QED BY <1>2, <1>3

LEMMA NotifyEvents ==
  ASSUME TypeInv, NEW k \in Node, NotifyReady(k), NEW n \in Node
  PROVE  /\ n = k \/ ~observing[n] => events'[n] = events[n]
         /\ n # k /\ observing[n] =>
              \E e \in EventsOf(k) : e \in UpOf(k) /\ events'[n] = Append(events[n], e)
<1>1. PICK e : e = [status |-> "up", node |-> k] OBVIOUS
<1>2. e \in EventsOf(k) /\ e \in UpOf(k) BY <1>1 DEF EventsOf, UpOf
<1>3. events'[n] = IF n # k /\ observing[n] THEN Append(events[n], e) ELSE events[n]
  BY <1>1 DEF NotifyReady, Tell
<1> QED BY <1>2, <1>3

LEMMA RestartStale ==
  ASSUME TypeInv, Phases, StaleObserver, StaleMain, NEW k \in Node, Restart(k)
  PROVE  StaleObserver' /\ StaleMain'
<1>1. \A t \in Thread : lookup'[k][t] = None BY DEF Restart, TypeInv, NodesTyped
<1>2. \A n \in Node \ {k} : lookup'[n] = lookup[n] /\ incarnation'[n] = incarnation[n]
  BY DEF Restart, TypeInv, NodesTyped
<1>3. \A m \in Node \ {k} : \A a : a = Actor(m)' <=> a = Actor(m) BY <1>2 DEF Actor
<1>4. "main" \in Thread /\ "observer" \in Thread BY DEF Thread
<1>5. StaleMain'
  <2> SUFFICES ASSUME NEW n \in Node, NEW m \in Node, NEW a,
                      lookup'[n]["main"] # None, lookup'[n]["main"].actor.node = m,
                      a = Actor(m)', lookup'[n]["main"].actor # a
               PROVE  n \in overtaken'
    BY DEF StaleMain
  <2>1. n # k /\ lookup'[n] = lookup[n] BY <1>1, <1>2, <1>4
  <2>2. CASE m = k BY <2>1, <2>2 DEF Restart
  <2>3. CASE m # k
    <3>1. n \in overtaken BY <2>1, <2>3, <1>3 DEF StaleMain
    <3> QED BY <3>1, <2>1 DEF Restart
  <2> QED BY <2>2, <2>3
<1>6. StaleObserver'
  <2> SUFFICES ASSUME NEW n \in Node, NEW m \in Node, NEW a,
                      lookup'[n]["observer"] # None, lookup'[n]["observer"].actor.node = m,
                      a = Actor(m)', lookup'[n]["observer"].actor # a
               PROVE  ~NoneIn(events'[n], EventsOf(m))
    BY DEF StaleObserver
  <2>1. n # k /\ lookup'[n] = lookup[n] BY <1>1, <1>2, <1>4
  <2>2. observing[n] BY <2>1 DEF Phases
  <2>3. PICK e \in EventsOf(k) : events'[n] = Append(events[n], e)
    BY <2>1, <2>2, RestartEvents
  <2>4. m # k => ~NoneIn(events[n], EventsOf(m)) BY <2>1, <1>3 DEF StaleObserver
  <2> QED BY <2>1, <2>3, <2>4, EventsAppended
<1> QED BY <1>5, <1>6

LEMMA StepStale ==
  TypeInv /\ Phases /\ StaleObserver /\ StaleMain /\ [Next]_vars => StaleObserver' /\ StaleMain'
<1> SUFFICES ASSUME TypeInv, Phases, StaleObserver, StaleMain, [Next]_vars
             PROVE  StaleObserver' /\ StaleMain'
  OBVIOUS
<1>1. "main" \in Thread /\ "observer" \in Thread BY DEF Thread
<1>2. UNCHANGED lookup => CallsCurrent BY DEF CallsCurrent
<1>3. UNCHANGED events => \A n \in Node : StaleKept(n) BY DEF StaleKept
<1>4. ASSUME CallsCurrent, UNCHANGED <<incarnation, overtaken, events>>
      PROVE  StaleObserver' /\ StaleMain'
  BY <1>3, <1>4, StaleStays
<1>5. CASE Next
  <2>1. CASE Match \/ RouteMatched
    BY <2>1, <1>2, <1>4 DEF Match, RouteMatched, cluster
  <2>2. ASSUME NEW k \in Node,
               \/ Publish(k) \/ Register(k) \/ AddObserver(k)
               \/ GetMembers(k) \/ Serve(k) \/ OpenCloseEngine(k)
               \/ RouteLocal(k) \/ RouteRemote(k) \/ RouteRemove(k) \/ RouteResult(k)
               \/ RouteOrder(k)
        PROVE  StaleObserver' /\ StaleMain'
    <3>1. UNCHANGED <<incarnation, overtaken, events, lookup>>
      BY <2>2 DEF Publish, Register, AddObserver, GetMembers, Serve, OpenCloseEngine,
         RouteLocal, RouteRemote, RouteRemove, RouteResult, RouteOrder, cluster
    <3> QED BY <3>1, <1>2, <1>4
  <2>3. ASSUME NEW k \in Node, NotifyReady(k) PROVE StaleObserver' /\ StaleMain'
    <3>1. UNCHANGED <<incarnation, overtaken, lookup>> BY <2>3 DEF NotifyReady
    <3>2. ASSUME NEW n \in Node PROVE StaleKept(n)
      <4>1. events[n] \in Seq(Event(n)) BY DEF TypeInv, NodesTyped
      <4>2. CASE events'[n] = events[n] BY <4>2 DEF StaleKept
      <4>3. CASE n # k /\ observing[n]
        <5>1. PICK e \in EventsOf(k) : events'[n] = Append(events[n], e)
          BY <4>3, <2>3, NotifyEvents
        <5>2. e \in Event(n) BY <4>3 DEF EventsOf, Event
        <5>3. <<e>> \in Seq(Event(n)) /\ Append(events[n], e) = events[n] \o <<e>>
          BY <5>2, <4>1
        <5> QED BY <5>1, <5>3, <4>1, NoneInAppended DEF StaleKept
      <4> QED BY <4>2, <4>3, <2>3, NotifyEvents
    <3> QED BY <3>1, <3>2, <1>2, StaleStays
  <2>4. ASSUME NEW k \in Node, AddMember(k) PROVE StaleObserver' /\ StaleMain'
    <3>1. PICK j \in Node \ {k} : Ask(k, "main", j)
      BY <2>4 DEF AddMember, TypeInv, NodesTyped
    <3>2. UNCHANGED <<incarnation, overtaken, events>> BY <2>4 DEF AddMember
    <3> QED BY <3>1, <3>2, <1>1, <1>4, AskCurrent
  <2>5. ASSUME NEW k \in Node, UpdateUp(k) \/ UpdateDown(k) PROVE StaleObserver' /\ StaleMain'
    <3>1. CallsCurrent
      <4>1. CASE UpdateUp(k)
        <5>1. PICK j \in Node \ {k} : Ask(k, "observer", j)
          BY <4>1, EventTaken DEF UpdateUp
        <5> QED BY <5>1, <1>1, AskCurrent
      <4>2. CASE UpdateDown(k) BY <4>2, <1>2 DEF UpdateDown
      <4> QED BY <2>5, <4>1, <4>2
    <3>2. UNCHANGED <<incarnation, overtaken>> BY <2>5 DEF UpdateUp, UpdateDown
    <3>3. /\ lookup[k]["observer"] = None
          /\ \A n \in Node \ {k} : events'[n] = events[n]
      BY <2>5, EventTaken DEF UpdateUp, UpdateDown
    <3>4. \A n \in Node : StaleKept(n) BY <3>3 DEF StaleKept
    <3> QED BY <3>1, <3>2, <3>4, StaleStays
  <2>6. ASSUME NEW k \in Node, Restart(k) PROVE StaleObserver' /\ StaleMain'
    BY <2>6, RestartStale
  <2>7. ASSUME NEW k \in Node, RouteGet(k) PROVE StaleObserver' /\ StaleMain'
    BY <2>7, <1>1, <1>4, StepsOfActors DEF RouteGet, cluster
  <2>8. ASSUME NEW k \in Node, NEW t \in Thread,
               RequestFails(k, t) \/ AddSymbols(k, t) \/ Connect(k, t) \/ AddResultActor(k, t)
        PROVE  StaleObserver' /\ StaleMain'
    <3>1. UNCHANGED <<incarnation, overtaken, events>>
      BY <2>8 DEF RequestFails, AddSymbols, Connect, AddResultActor, cluster
    <3> QED BY <3>1, <2>8, <1>4, StepsOfActors
  <2> QED BY <1>5, <2>1, <2>2, <2>3, <2>4, <2>5, <2>6, <2>7, <2>8, NextCases
<1>6. CASE UNCHANGED vars
  BY <1>2, <1>4, <1>6 DEF vars, cluster
<1> QED BY <1>5, <1>6

-----------------------------------------------------------------------------
\* How router n comes to know actor a of symbol s, of node m: the event that
\* announces m waits and is the last one about m, or none about m waits and
\* the main thread still has to add m, a thread is asking m and will hear of
\* s, or the message with the answer has come and nothing after it erases it.

\* The request of thread t of n waits at m, behind the messages about s.
Awaits(n, t, m, s) ==
  \A b : b = Actor(n) => /\ ~NoneIn(inbox[m], GetOf(b, t))
                         /\ AllBefore(inbox[m], LocalOf(s), GetOf(b, t))

Looks(n, t, m, s, a) ==
  /\ lookup[n][t] # None /\ lookup[n][t].actor = a
  /\ \/ lookup[n][t].state = "asked" /\ Awaits(n, t, m, s)
     \/ lookup[n][t].state = "answered" /\ s \in lookup[n][t].symbols

Knows(n, s, a) ==
  \/ LastIn(inbox[n], RemoteOf(s, a), Erases(s, a))
  \/ NoneIn(inbox[n], Erases(s, a)) /\ HasActor(n, s, a)

OnItsWay(n, m, s, a) ==
  \/ pc[n] \in {"notify", "members"}
  \/ m \in members[n]
  \/ \E t \in Thread : Looks(n, t, m, s, a)
  \/ Knows(n, s, a)

WillKnow(n, m, s, a) ==
  \/ LastIn(events[n], UpOf(m), EventsOf(m))
  \/ NoneIn(events[n], EventsOf(m)) /\ OnItsWay(n, m, s, a)

\* Actor a of symbol s lives on m, which is announced, and n is another node.
Lives(n, m, s, a) == m # n /\ s \in LocalSymbols(m) /\ a = Actor(m) /\ Announced(m)

\* What a step may do to the two mailboxes and disturb nothing.
Harmless(n, m, s, a) ==
  /\ \/ inbox'[m] = inbox[m]
     \/ \E r \in Seq(Message(m)) : inbox'[m] = inbox[m] \o r /\ NoneIn(r, LocalOf(s))
  /\ \/ inbox'[n] = inbox[n]
     \/ \E r \in Seq(Message(n)) : inbox'[n] = inbox[n] \o r /\ NoneIn(r, Erases(s, a))

LEMMA HarmlessLooks ==
  ASSUME TypeInv, NEW n \in Node, NEW m \in Node, NEW s, NEW a, NEW t \in Thread,
         Harmless(n, m, s, a), incarnation'[n] = incarnation[n],
         lookup'[n][t] = lookup[n][t], Looks(n, t, m, s, a)
  PROVE  Looks(n, t, m, s, a)'
<1>1. inbox[m] \in Seq(Message(m)) BY DEF TypeInv, RoutersTyped
<1>2. \A b : b = Actor(n)' <=> b = Actor(n) BY DEF Actor
<1>3. ASSUME Awaits(n, t, m, s) PROVE Awaits(n, t, m, s)'
  <2> SUFFICES ASSUME NEW b, b = Actor(n)
               PROVE  /\ ~NoneIn(inbox'[m], GetOf(b, t))
                      /\ AllBefore(inbox'[m], LocalOf(s), GetOf(b, t))
    BY <1>2 DEF Awaits
  <2>1. ~NoneIn(inbox[m], GetOf(b, t)) /\ AllBefore(inbox[m], LocalOf(s), GetOf(b, t))
    BY <1>3 DEF Awaits
  <2>2. CASE inbox'[m] = inbox[m] BY <2>1, <2>2
  <2>3. ASSUME NEW r \in Seq(Message(m)), inbox'[m] = inbox[m] \o r, NoneIn(r, LocalOf(s))
        PROVE  /\ ~NoneIn(inbox'[m], GetOf(b, t))
               /\ AllBefore(inbox'[m], LocalOf(s), GetOf(b, t))
    <3>1. ~NoneIn(inbox[m] \o r, GetOf(b, t)) BY <1>1, <2>1, <2>3, NoneInAppended
    <3>2. AllBefore(inbox[m] \o r, LocalOf(s), GetOf(b, t))
      BY <1>1, <2>1, <2>3, AllBeforeAppended
    <3> QED BY <3>1, <3>2, <2>3
  <2> QED BY <2>2, <2>3 DEF Harmless
<1> QED BY <1>3 DEF Looks

LEMMA HarmlessKnows ==
  ASSUME TypeInv, NEW n \in Node, NEW m \in Node, NEW s, NEW a,
         Harmless(n, m, s, a), symbol_actor_map'[n] = symbol_actor_map[n], Knows(n, s, a)
  PROVE  Knows(n, s, a)'
<1>1. inbox[n] \in Seq(Message(n)) BY DEF TypeInv, RoutersTyped
<1>2. HasActor(n, s, a) => HasActor(n, s, a)' BY DEF HasActor
<1>3. CASE inbox'[n] = inbox[n] BY <1>2, <1>3 DEF Knows
<1>4. ASSUME NEW r \in Seq(Message(n)), inbox'[n] = inbox[n] \o r, NoneIn(r, Erases(s, a))
      PROVE  Knows(n, s, a)'
  <2>1. LastIn(inbox[n], RemoteOf(s, a), Erases(s, a))
          => LastIn(inbox[n] \o r, RemoteOf(s, a), Erases(s, a))
    BY <1>1, <1>4, LastInAppended
  <2>2. NoneIn(inbox[n], Erases(s, a)) => NoneIn(inbox[n] \o r, Erases(s, a))
    BY <1>1, <1>4, NoneInAppended
  <2> QED BY <2>1, <2>2, <1>2, <1>4 DEF Knows
<1> QED BY <1>3, <1>4 DEF Harmless

\* A step that does no more than send harmless messages.
LEMMA HarmlessWay ==
  ASSUME TypeInv, NEW n \in Node, NEW m \in Node, NEW s, NEW a,
         Harmless(n, m, s, a), OnItsWay(n, m, s, a),
         incarnation'[n] = incarnation[n], symbol_actor_map'[n] = symbol_actor_map[n],
         \A t \in Thread : Looks(n, t, m, s, a) => lookup'[n][t] = lookup[n][t],
         pc[n] \in {"notify", "members"} =>
           pc'[n] \in {"notify", "members"} \/ m \in members'[n],
         m \in members[n] => m \in members'[n] \/ \E t \in Thread : Looks(n, t, m, s, a)'
  PROVE  OnItsWay(n, m, s, a)'
<1>1. \A t \in Thread : Looks(n, t, m, s, a) => Looks(n, t, m, s, a)'
  BY HarmlessLooks
<1>2. Knows(n, s, a) => Knows(n, s, a)' BY HarmlessKnows
<1> QED BY <1>1, <1>2 DEF OnItsWay

LEMMA HarmlessSent ==
  ASSUME NEW n \in Node, NEW m \in Node, NEW s, NEW a, NEW k \in Node,
         NEW r \in Seq(Message(k)), inbox'[k] = inbox[k] \o r,
         \A i \in Node \ {k} : inbox'[i] = inbox[i],
         k = m => NoneIn(r, LocalOf(s)), k = n => NoneIn(r, Erases(s, a))
  PROVE  Harmless(n, m, s, a)
<1>1. inbox'[m] = inbox[m]
        \/ \E q \in Seq(Message(m)) : inbox'[m] = inbox[m] \o q /\ NoneIn(q, LocalOf(s))
  <2>1. CASE k = m BY <2>1
  <2>2. CASE k # m BY <2>2
  <2> QED BY <2>1, <2>2
<1>2. inbox'[n] = inbox[n]
        \/ \E q \in Seq(Message(n)) : inbox'[n] = inbox[n] \o q /\ NoneIn(q, Erases(s, a))
  <2>1. CASE k = n BY <2>1
  <2>2. CASE k # n BY <2>2
  <2> QED BY <2>1, <2>2
<1> QED BY <1>1, <1>2 DEF Harmless

LEMMA StepsHarmless ==
  ASSUME TypeInv, NEW n \in Node, NEW m \in Node, NEW s, NEW a, Lives(n, m, s, a),
         NEW k \in Node, NEW t \in Thread,
         \/ Publish(k) \/ Register(k) \/ AddObserver(k) \/ NotifyReady(k) \/ GetMembers(k)
         \/ Serve(k) \/ OpenCloseEngine(k) \/ RequestFails(k, t) \/ Connect(k, t)
         \/ AddResultActor(k, t) \/ Match \/ RouteMatched
         \/ UpdateDown(k) /\ (k = n => Head(events[n]).node # m)
         \/ AddSymbols(k, t) /\ (k = n /\ lookup[n][t].actor.node = m => lookup[n][t].actor = a)
  PROVE  Harmless(n, m, s, a)
<1>1. CASE \/ Publish(k) \/ AddObserver(k) \/ NotifyReady(k) \/ GetMembers(k) \/ Serve(k)
           \/ OpenCloseEngine(k) \/ RequestFails(k, t) \/ Connect(k, t) \/ Match
  <2>1. UNCHANGED inbox
    BY <1>1 DEF Publish, AddObserver, NotifyReady, GetMembers, Serve, OpenCloseEngine,
       RequestFails, Connect, Match, routers
  <2> QED BY <2>1 DEF Harmless
<1>2. CASE Register(k)
  <2>1. PICK r \in Seq(Message(k)) :
           /\ inbox'[k] = inbox[k] \o r
           /\ \A i \in Node \ {k} : inbox'[i] = inbox[i]
           /\ NoneIn(r, Erases(s, a))
    BY <1>2, RegisterSends
  <2>2. k # m BY <1>2 DEF Register, Lives, Announced
  <2> QED BY <2>1, <2>2, HarmlessSent
<1>3. CASE UpdateDown(k) /\ (k = n => Head(events[n]).node # m)
  <2>1. PICK x \in RemoveMessage(k) :
           /\ <<x>> \in Seq(Message(k))
           /\ x.host = Head(events[k]).node
           /\ inbox'[k] = inbox[k] \o <<x>>
           /\ \A i \in Node \ {k} : inbox'[i] = inbox[i]
    BY <1>3, UpdateDownSends
  <2>2. NoneIn(<<x>>, LocalOf(s)) BY NoneInOne, KindsDiffer
  <2>3. a.node = m BY DEF Lives, Actor
  <2>4. k = n => x \notin Erases(s, a)
    BY <1>3, <2>1, <2>3 DEF Erases, RemoveMessage
  <2>5. k = n => NoneIn(<<x>>, Erases(s, a)) BY <2>4, NoneInOne
  <2> QED BY <2>1, <2>2, <2>5, HarmlessSent
<1>4. CASE AddSymbols(k, t) /\ (k = n /\ lookup[n][t].actor.node = m => lookup[n][t].actor = a)
  <2>1. PICK l \in Lookup(k), r \in Seq(Message(k)) :
           /\ l = lookup[k][t] /\ l.state \in {"answered", "failed"}
           /\ r \in Seq(RemotesOf(l.symbols, l.actor))
           /\ \A c \in l.symbols :
                \E i \in DOMAIN r : r[i] = [type |-> "remote", symbol |-> c, actor |-> l.actor]
           /\ inbox'[k] = inbox[k] \o r
           /\ \A i \in Node \ {k} : inbox'[i] = inbox[i]
    BY <1>4, AddSymbolsSends
  <2>2. \A x \in RemotesOf(l.symbols, l.actor) : x \notin LocalOf(s)
    BY DEF RemotesOf, LocalOf
  <2>3. k = n => \A x \in RemotesOf(l.symbols, l.actor) : x \notin Erases(s, a)
    <3> SUFFICES ASSUME k = n, NEW c \in l.symbols
                 PROVE  [type |-> "remote", symbol |-> c, actor |-> l.actor] \notin Erases(s, a)
      BY DEF RemotesOf
    <3>1. l.symbols \subseteq LocalSymbols(l.actor.node) BY DEF Lookup
    <3>2. c = s => l.actor.node = m BY <3>1 DEF Lives, LocalSymbols
    <3>3. c = s => l.actor = a BY <3>2, <2>1, <1>4
    <3> QED BY <3>3 DEF Erases
  <2>4. NoneIn(r, LocalOf(s)) /\ (k = n => NoneIn(r, Erases(s, a)))
    BY <2>1, <2>2, <2>3, NoneOfKind
  <2> QED BY <2>1, <2>4, HarmlessSent
<1>5. CASE AddResultActor(k, t)
  <2>1. PICK x \in ResultMessage :
           /\ <<x>> \in Seq(Message(k)) /\ inbox'[k] = inbox[k] \o <<x>>
           /\ \A i \in Node \ {k} : inbox'[i] = inbox[i]
    BY <1>5, AddResultActorSends
  <2>2. NoneIn(<<x>>, LocalOf(s)) /\ NoneIn(<<x>>, Erases(s, a)) BY NoneInOne, KindsDiffer
  <2> QED BY <2>1, <2>2, HarmlessSent
<1>6. CASE RouteMatched
  <2>1. PICK j \in Node, x \in OrderMessage :
           /\ <<x>> \in Seq(Message(j)) /\ inbox'[j] = inbox[j] \o <<x>>
           /\ \A i \in Node \ {j} : inbox'[i] = inbox[i]
    BY <1>6, RouteMatchedSends
  <2>2. NoneIn(<<x>>, LocalOf(s)) /\ NoneIn(<<x>>, Erases(s, a)) BY NoneInOne, KindsDiffer
  <2> QED BY <2>1, <2>2, HarmlessSent
<1> QED BY <1>1, <1>2, <1>3, <1>4, <1>5, <1>6

LEMMA AskWay ==
  ASSUME TypeInv, GetsAwaited, timeouts = 0,
         NEW n \in Node, NEW m \in Node, NEW s, NEW a, Lives(n, m, s, a),
         NEW k \in Node, NEW u \in Thread, NEW j \in Node \ {k}, Ask(k, u, j),
         lookup[k][u] = None, incarnation' = incarnation
  PROVE  /\ Harmless(n, m, s, a)
         /\ \A t \in Thread : Looks(n, t, m, s, a) => lookup'[n][t] = lookup[n][t]
         /\ k = n /\ j = m => Looks(n, u, m, s, a)'
<1>1. PICK x \in GetMessage :
         /\ \A c, v : x \in GetOf(c, v) => c = Actor(k) /\ v = u
         /\ \A c : c = Actor(k) => x \in GetOf(c, u)
         /\ <<x>> \in Seq(Message(j))
         /\ pc[j] = "publish" => inbox'[j] = inbox[j]
         /\ pc[j] # "publish" => inbox'[j] = inbox[j] \o <<x>>
         /\ \A i \in Node \ {j} : inbox'[i] = inbox[i]
  <2> HIDE DEF Ask
  <2> QED BY AskSends
<1>2. PICK l : /\ l = lookup'[k][u]
               /\ l = [actor |-> Actor(j), symbols |-> {},
                       state |-> IF pc[j] = "publish" THEN "failed" ELSE "asked"]
               /\ l \in Lookup(k)
               /\ \A i \in Node, v \in Thread : i # k \/ v # u => lookup'[i][v] = lookup[i][v]
  <2>1. NewCall(k, u, j) BY AskFacts
  <2> QED BY <2>1 DEF NewCall
<1>3. l.actor = Actor(j) /\ (pc[j] # "publish" => l.state = "asked") /\ l # None
  BY <1>2, LookupIsSome
<1>4. NoneIn(<<x>>, LocalOf(s)) /\ NoneIn(<<x>>, Erases(s, a)) BY NoneInOne, KindsDiffer
<1>5. Harmless(n, m, s, a)
  <2>1. CASE pc[j] = "publish" BY <2>1, <1>1 DEF Harmless
  <2>2. CASE pc[j] # "publish" BY <2>2, <1>1, <1>4, HarmlessSent
  <2> QED BY <2>1, <2>2
<1>6. \A t \in Thread : Looks(n, t, m, s, a) => lookup'[n][t] = lookup[n][t]
  BY <1>2 DEF Looks
<1>7. ASSUME k = n, j = m PROVE Looks(n, u, m, s, a)'
  <2>1. pc[m] # "publish" BY DEF Lives, Announced
  <2>2. lookup'[n][u] # None /\ lookup'[n][u].actor = a /\ lookup'[n][u].state = "asked"
    BY <1>2, <1>3, <1>7, <2>1 DEF Lives
  <2>3. ASSUME NEW b, b = Actor(n)
        PROVE  /\ ~NoneIn(inbox'[m], GetOf(b, u))
               /\ AllBefore(inbox'[m], LocalOf(s), GetOf(b, u))
    <3>1. Awaited(n, m, u, a, b) BY <2>3 DEF GetsAwaited, Lives
    <3>2. NoneIn(inbox[m], GetOf(b, u)) BY <3>1, <1>7 DEF Awaited
    <3>3. AllBefore(inbox[m], LocalOf(s), GetOf(b, u)) BY <3>2 DEF AllBefore, NoneIn
    <3>4. inbox[m] \in Seq(Message(m)) /\ <<x>> \in Seq(Message(m))
      BY <1>1, <1>7 DEF TypeInv, RoutersTyped
    <3>5. x \in GetOf(b, u) BY <1>1, <1>7, <2>3
    <3>6. ~NoneIn(<<x>>, GetOf(b, u)) BY <3>5, NoneInOne
    <3>7. /\ ~NoneIn(inbox[m] \o <<x>>, GetOf(b, u))
          /\ AllBefore(inbox[m] \o <<x>>, LocalOf(s), GetOf(b, u))
      BY <3>3, <3>4, <3>6, <1>4, NoneInAppended, AllBeforeAppended
    <3>8. inbox'[m] = inbox[m] \o <<x>> BY <1>1, <1>7, <2>1
    <3> QED BY <3>7, <3>8
  <2>4. Actor(n)' = Actor(n) BY DEF Actor
  <2>5. Awaits(n, u, m, s)' BY <2>3, <2>4 DEF Awaits
  <2> QED BY <2>2, <2>5 DEF Looks
<1> QED BY <1>5, <1>6, <1>7

LEMMA CallWay ==
  ASSUME TypeInv, timeouts' = 0,
         NEW n \in Node, NEW m \in Node, NEW s, NEW a, Lives(n, m, s, a), OnItsWay(n, m, s, a),
         NEW k \in Node, NEW t \in Thread,
         RequestFails(k, t) \/ Connect(k, t) \/ AddResultActor(k, t)
  PROVE  OnItsWay(n, m, s, a)'
<1>1. Harmless(n, m, s, a) BY StepsHarmless
<1>2. UNCHANGED <<incarnation, symbol_actor_map, pc, members>>
  BY DEF RequestFails, Connect, AddResultActor, routers, cluster
<1>3. \E l \in Lookup(k) \cup {None} : lookup' = [lookup EXCEPT ![k][t] = l]
  <2>1. CASE RequestFails(k, t)
    <3>1. PICK l \in Lookup(k) :
             /\ l = lookup[k][t] /\ l.state = "asked"
             /\ [l EXCEPT !.state = "failed"] \in Lookup(k)
             /\ lookup' = [lookup EXCEPT ![k][t] = [l EXCEPT !.state = "failed"]]
      BY <2>1, RequestFailsFacts
    <3> QED BY <3>1
  <2>2. CASE Connect(k, t) BY <2>2, ConnectFacts
  <2>3. CASE AddResultActor(k, t) BY <2>3 DEF AddResultActor
  <2> QED BY <2>1, <2>2, <2>3
<1>4. \A u \in Thread : n # k \/ u # t => lookup'[n][u] = lookup[n][u] BY <1>3, CallChanged
<1>5. n = k => ~Looks(n, t, m, s, a)
  <2> SUFFICES ASSUME n = k, Looks(n, t, m, s, a) PROVE FALSE OBVIOUS
  <2>1. RequestFails(k, t) BY DEF Connect, AddResultActor, Looks
  <2>2. lookup[n][t].state = "asked" BY <2>1 DEF RequestFails
  <2>3. lookup[n][t].actor.node = m BY DEF Looks, Lives, Actor
  <2>4. ~NoneIn(inbox[m], GetOf(Actor(n), t)) BY <2>2 DEF Looks, Awaits
  <2>5. \E i \in DOMAIN inbox[m] :
           inbox[m][i] = [type |-> "get", from |-> Actor(n), thread |-> t]
    BY <2>4 DEF NoneIn, GetOf
  <2>6. timeouts' = timeouts + 1 BY <2>1, <2>3, <2>5 DEF RequestFails
  <2> QED BY <2>6 DEF TypeInv, FlowTyped
<1>6. \A u \in Thread : Looks(n, u, m, s, a) => lookup'[n][u] = lookup[n][u] BY <1>4, <1>5
<1> QED BY <1>1, <1>2, <1>6, HarmlessWay

LEMMA AddSymbolsWay ==
  ASSUME TypeInv,
         NEW n \in Node, NEW m \in Node, NEW s, NEW a, Lives(n, m, s, a), OnItsWay(n, m, s, a),
         NEW k \in Node, NEW t \in Thread, AddSymbols(k, t),
         k = n /\ lookup[n][t].actor.node = m => lookup[n][t].actor = a
  PROVE  OnItsWay(n, m, s, a)'
<1>1. Harmless(n, m, s, a) BY StepsHarmless
<1>2. UNCHANGED <<incarnation, symbol_actor_map, pc, members>>
  BY DEF AddSymbols, cluster
<1>3. PICK l \in Lookup(k), r \in Seq(Message(k)) :
         /\ l = lookup[k][t] /\ l.state \in {"answered", "failed"}
         /\ r \in Seq(RemotesOf(l.symbols, l.actor))
         /\ \A c \in l.symbols :
              \E i \in DOMAIN r : r[i] = [type |-> "remote", symbol |-> c, actor |-> l.actor]
         /\ inbox'[k] = inbox[k] \o r
         /\ \A i \in Node \ {k} : inbox'[i] = inbox[i]
  BY AddSymbolsSends
<1>4. \A u \in Thread : n # k \/ u # t => lookup'[n][u] = lookup[n][u]
  <2>1. \E next \in Lookup(k) \cup {None} : lookup' = [lookup EXCEPT ![k][t] = next]
    BY AddSymbolsFacts
  <2> QED BY <2>1, CallChanged
<1>5. CASE n = k => ~Looks(n, t, m, s, a)
  <2>1. \A u \in Thread : Looks(n, u, m, s, a) => lookup'[n][u] = lookup[n][u]
    BY <1>4, <1>5
  <2> QED BY <1>1, <1>2, <2>1, HarmlessWay
<1>6. CASE n = k /\ Looks(n, t, m, s, a)
  <2>1. l.actor = a /\ s \in l.symbols BY <1>3, <1>6 DEF Looks
  <2>2. PICK i \in DOMAIN r : r[i] = [type |-> "remote", symbol |-> s, actor |-> a]
    BY <1>3, <2>1
  <2>3. NoneIn(r, Erases(s, a))
    <3>1. \A x \in RemotesOf(l.symbols, a) : x \notin Erases(s, a) BY DEF RemotesOf, Erases
    <3> QED BY <3>1, <1>3, <2>1, NoneOfKind
  <2>4. LastIn(r, RemoteOf(s, a), Erases(s, a))
    <3>1. r[i] \in RemoteOf(s, a) BY <2>2 DEF RemoteOf
    <3> QED BY <3>1, <2>3 DEF LastIn, NoneIn
  <2>5. inbox[n] \in Seq(Message(n)) BY DEF TypeInv, RoutersTyped
  <2>6. inbox'[n] = inbox[n] \o r BY <1>3, <1>6
  <2>7. LastIn(inbox[n] \o r, RemoteOf(s, a), Erases(s, a))
    BY <2>4, <2>5, <1>3, <1>6, LastInAppended
  <2> QED BY <2>6, <2>7 DEF OnItsWay, Knows
<1> QED BY <1>5, <1>6

LEMMA MainWay ==
  ASSUME TypeInv,
         NEW n \in Node, NEW m \in Node, NEW s, NEW a, Lives(n, m, s, a), OnItsWay(n, m, s, a),
         NEW k \in Node,
         \/ Publish(k) \/ Register(k) \/ AddObserver(k) \/ NotifyReady(k) \/ GetMembers(k)
         \/ Serve(k) \/ OpenCloseEngine(k) \/ Match \/ RouteMatched
         \/ UpdateDown(k) /\ (k = n => Head(events[n]).node # m)
  PROVE  OnItsWay(n, m, s, a)'
<1>1. "main" \in Thread BY DEF Thread
<1>2. Harmless(n, m, s, a) BY <1>1, StepsHarmless
<1>3. UNCHANGED <<lookup, incarnation, symbol_actor_map>>
  BY DEF Publish, Register, AddObserver, NotifyReady, GetMembers, Serve, OpenCloseEngine,
     Match, RouteMatched, UpdateDown, routers, cluster
<1>4. /\ pc[n] \in {"notify", "members"} =>
           pc'[n] \in {"notify", "members"} \/ m \in members'[n]
      /\ m \in members[n] => m \in members'[n]
  <2>1. CASE GetMembers(k)
    <3>1. PICK there \in SUBSET (Node \ {k}) :
             /\ {i \in Node \ {k} : pc[i] \in {"members", "add", "serve"}} \subseteq there
             /\ members' = [members EXCEPT ![k] = there]
      BY <2>1 DEF GetMembers
    <3>2. DOMAIN members = Node BY DEF TypeInv, NodesTyped
    <3>3. CASE n = k
      <4>1. m \in members'[n] BY <3>1, <3>2, <3>3 DEF Lives, Announced
      <4> QED BY <4>1
    <3>4. CASE n # k
      BY <2>1, <3>1, <3>2, <3>4 DEF GetMembers, TypeInv, NodesTyped
    <3> QED BY <3>3, <3>4
  <2>2. CASE \/ Publish(k) \/ Register(k) \/ AddObserver(k) \/ NotifyReady(k)
             \/ Serve(k) \/ OpenCloseEngine(k) \/ Match \/ RouteMatched \/ UpdateDown(k)
    BY <2>2 DEF Publish, Register, AddObserver, NotifyReady, Serve, OpenCloseEngine,
       Match, RouteMatched, UpdateDown, cluster, TypeInv, NodesTyped
  <2> QED BY <2>1, <2>2
<1> QED BY <1>2, <1>3, <1>4, HarmlessWay

\* The routers handle messages.
LEMMA KnowsReceived ==
  ASSUME TypeInv, NEW n \in Node, NEW s, NEW a, NEW k \in Node, NEW y, Receives(k, y),
         Knows(n, s, a),
         n = k /\ Head(inbox[k]) \in RemoteOf(s, a) => HasActor(n, s, a)',
         HasActor(n, s, a) /\ (n = k => Head(inbox[k]) \notin Erases(s, a))
           => HasActor(n, s, a)'
  PROVE  Knows(n, s, a)'
<1>1. inbox[n] \in Seq(Message(n)) BY DEF TypeInv, RoutersTyped
<1>2. /\ inbox[k] # <<>> /\ inbox'[k] = Tail(inbox[k])
      /\ n # k => inbox'[n] = inbox[n]
  BY Received DEF TypeInv
<1>3. CASE n # k BY <1>2, <1>3 DEF Knows
<1>4. CASE n = k
  <2>1. LastIn(inbox[n], RemoteOf(s, a), Erases(s, a)) =>
           \/ LastIn(Tail(inbox[n]), RemoteOf(s, a), Erases(s, a))
           \/ Head(inbox[n]) \in RemoteOf(s, a) /\ NoneIn(Tail(inbox[n]), Erases(s, a))
    BY <1>1, <1>2, <1>4, LastInTail
  <2>2. NoneIn(inbox[n], Erases(s, a)) =>
           Head(inbox[n]) \notin Erases(s, a) /\ NoneIn(Tail(inbox[n]), Erases(s, a))
    BY <1>1, <1>2, <1>4, NoneInTail
  <2> QED BY <2>1, <2>2, <1>2, <1>4 DEF Knows
<1> QED BY <1>3, <1>4

LEMMA LooksReceived ==
  ASSUME TypeInv, NEW n \in Node, NEW m \in Node, NEW s, NEW a, NEW t \in Thread,
         NEW k \in Node, NEW y, Receives(k, y), Looks(n, t, m, s, a),
         lookup'[n][t] = lookup[n][t], incarnation' = incarnation,
         k = m /\ lookup[n][t].state = "asked" =>
           \A b : b = Actor(n) => Head(inbox[k]) \notin GetOf(b, t)
  PROVE  Looks(n, t, m, s, a)'
<1>1. inbox[m] \in Seq(Message(m)) BY DEF TypeInv, RoutersTyped
<1>2. /\ inbox[k] # <<>> /\ inbox'[k] = Tail(inbox[k])
      /\ m # k => inbox'[m] = inbox[m]
  BY Received DEF TypeInv
<1>3. \A b : b = Actor(n)' <=> b = Actor(n) BY DEF Actor
<1>4. ASSUME Awaits(n, t, m, s), lookup[n][t].state = "asked" PROVE Awaits(n, t, m, s)'
  <2> SUFFICES ASSUME NEW b, b = Actor(n)
               PROVE  /\ ~NoneIn(inbox'[m], GetOf(b, t))
                      /\ AllBefore(inbox'[m], LocalOf(s), GetOf(b, t))
    BY <1>3 DEF Awaits
  <2>1. ~NoneIn(inbox[m], GetOf(b, t)) /\ AllBefore(inbox[m], LocalOf(s), GetOf(b, t))
    BY <1>4 DEF Awaits
  <2>2. CASE m # k BY <2>1, <2>2, <1>2
  <2>3. CASE m = k
    <3>1. Head(inbox[m]) \notin GetOf(b, t) BY <2>3, <1>4
    <3>2. ~NoneIn(Tail(inbox[m]), GetOf(b, t)) BY <3>1, <2>1, <2>3, <1>1, <1>2, NoneInTail
    <3>3. AllBefore(Tail(inbox[m]), LocalOf(s), GetOf(b, t))
      BY <2>1, <2>3, <1>1, <1>2, AllBeforeTail
    <3> QED BY <3>2, <3>3, <2>3, <1>2
  <2> QED BY <2>2, <2>3
<1> QED BY <1>4 DEF Looks

LEMMA MapsWay ==
  ASSUME TypeInv,
         NEW n \in Node, NEW m \in Node, NEW s, NEW a, Lives(n, m, s, a), OnItsWay(n, m, s, a),
         NEW k \in Node,
         RouteLocal(k) \/ RouteRemote(k) \/ RouteRemove(k) \/ RouteResult(k) \/ RouteOrder(k)
  PROVE  OnItsWay(n, m, s, a)'
<1>1. PICK y \in {"local", "remote", "remove", "result", "order"} : Receives(k, y)
  BY DEF RouteLocal, RouteRemote, RouteRemove, RouteResult, RouteOrder
<1>2. UNCHANGED <<lookup, incarnation, pc, members>>
  BY DEF RouteLocal, RouteRemote, RouteRemove, RouteResult, RouteOrder, cluster
<1>3. Head(inbox[k]).type = y BY <1>1, Received DEF TypeInv
<1>4. \A b, t : Head(inbox[k]) \notin GetOf(b, t) BY <1>3 DEF GetOf
<1>5. \A t \in Thread : Looks(n, t, m, s, a) => Looks(n, t, m, s, a)'
  BY <1>1, <1>2, <1>4, LooksReceived
<1>6. s \in Symbol /\ Home[s] = m /\ a.node = m /\ m # n
  BY DEF Lives, LocalSymbols, Actor
<1>7. /\ n = k /\ Head(inbox[k]) \in RemoteOf(s, a) => HasActor(n, s, a)'
      /\ HasActor(n, s, a) /\ (n = k => Head(inbox[k]) \notin Erases(s, a))
           => HasActor(n, s, a)'
  <2>1. CASE RouteLocal(k)
    <3>1. PICK s0 \in LocalSymbols(k) :
             /\ Head(inbox[k]) = [type |-> "local", symbol |-> s0]
             /\ \A i \in Node : \A c, v : HasActor(i, c, v) /\ (i # k \/ c # s0)
                                            => HasActor(i, c, v)'
      BY <2>1, RouteLocalMap
    <3>2. Head(inbox[k]) \notin RemoteOf(s, a) BY <3>1 DEF RemoteOf
    <3>3. n # k \/ s # s0 BY <1>6 DEF LocalSymbols
    <3> QED BY <3>1, <3>2, <3>3
  <2>2. CASE RouteRemote(k)
    <3>1. PICK s0 \in Symbol, a0 \in ActorId :
             /\ Head(inbox[k]) = [type |-> "remote", symbol |-> s0, actor |-> a0]
             /\ a0.node = Home[s0] /\ a0.node # k
             /\ HasActor(k, s0, a0)'
             /\ \A i \in Node : \A c, v : HasActor(i, c, v) /\ (i # k \/ c # s0)
                                            => HasActor(i, c, v)'
      BY <2>2, RouteRemoteMap
    <3>2. Head(inbox[k]) \in RemoteOf(s, a) => s0 = s /\ a0 = a BY <3>1 DEF RemoteOf
    <3>3. s0 = s /\ Head(inbox[k]) \notin Erases(s, a) => a0 = a BY <3>1 DEF Erases
    <3> QED BY <3>1, <3>2, <3>3
  <2>3. CASE RouteRemove(k)
    <3>1. PICK h \in Node \ {k} :
             /\ Head(inbox[k]) = [type |-> "remove", host |-> h]
             /\ \A i \in Node, c \in Symbol : \A v : HasActor(i, c, v) /\ (i # k \/ Home[c] # h)
                                                       => HasActor(i, c, v)'
      BY <2>3, RouteRemoveMap
    <3>2. Head(inbox[k]) \notin RemoteOf(s, a) BY <3>1 DEF RemoteOf
    <3>3. Head(inbox[k]) \notin Erases(s, a) => h # m BY <3>1, <1>6 DEF Erases
    <3> QED BY <3>1, <3>2, <3>3, <1>6
  <2>4. CASE RouteResult(k)
    <3>1. Receives(k, "result") /\ UNCHANGED symbol_actor_map BY <2>4 DEF RouteResult
    <3>2. Head(inbox[k]) \notin RemoteOf(s, a) BY <3>1, Received DEF RemoteOf, TypeInv
    <3> QED BY <3>1, <3>2 DEF HasActor
  <2>5. CASE RouteOrder(k)
    <3>1. Head(inbox[k]) \notin RemoteOf(s, a) BY <2>5, RouteOrderMap, KindsDiffer
    <3> QED BY <3>1, <2>5, RouteOrderMap
  <2> QED BY <2>1, <2>2, <2>3, <2>4, <2>5
<1>8. Knows(n, s, a) => Knows(n, s, a)' BY <1>1, <1>7, KnowsReceived
<1> QED BY <1>2, <1>5, <1>8 DEF OnItsWay

\* The answer holds the symbol: what told the router of it came before.
LEMMA AnswerWay ==
  ASSUME TypeInv, OwnSymbols,
         NEW n \in Node, NEW m \in Node, NEW s, NEW a, Lives(n, m, s, a), OnItsWay(n, m, s, a),
         NEW k \in Node, RouteGet(k)
  PROVE  OnItsWay(n, m, s, a)'
<1>1. Receives(k, "get") BY DEF RouteGet
<1>2. UNCHANGED <<symbol_actor_map, incarnation, pc, members>> BY DEF RouteGet, cluster
<1>3. Knows(n, s, a) => Knows(n, s, a)'
  <2>1. Head(inbox[k]) \notin RemoteOf(s, a) BY <1>1, Received DEF RemoteOf, TypeInv
  <2>2. HasActor(n, s, a) => HasActor(n, s, a)' BY <1>2 DEF HasActor
  <2> QED BY <2>1, <2>2, <1>1, KnowsReceived
<1>4. PICK x \in GetMessage :
         /\ x = Head(inbox[k]) /\ x.from.node \in Node /\ x.thread \in Thread
         /\ ~Waits(x, k) => UNCHANGED lookup
         /\ Waits(x, k) =>
              \E l, next \in Lookup(x.from.node) :
                 /\ l = lookup[x.from.node][x.thread]
                 /\ next = [l EXCEPT !.state = "answered", !.symbols = local_symbols[k]]
                 /\ lookup' = [lookup EXCEPT ![x.from.node][x.thread] = next]
  BY RouteGetFacts
<1>5. ASSUME NEW t \in Thread, Looks(n, t, m, s, a), ~(Waits(x, k) /\ x.from.node = n /\ x.thread = t)
      PROVE  Looks(n, t, m, s, a)'
  <2>1. lookup'[n][t] = lookup[n][t]
    <3>1. CASE ~Waits(x, k) BY <3>1, <1>4
    <3>2. CASE Waits(x, k)
      <4>1. PICK j \in Node, u \in Thread : j = x.from.node /\ u = x.thread BY <1>4
      <4>2. PICK next \in Lookup(x.from.node) :
               lookup' = [lookup EXCEPT ![x.from.node][x.thread] = next]
        BY <3>2, <1>4
      <4>3. next \in Lookup(j) /\ lookup' = [lookup EXCEPT ![j][u] = next] BY <4>1, <4>2
      <4>4. n # j \/ t # u BY <3>2, <4>1, <1>5
      <4> QED BY <4>3, <4>4, CallChanged
    <3> QED BY <3>1, <3>2
  <2>2. ASSUME k = m, lookup[n][t].state = "asked", NEW b, b = Actor(n), x \in GetOf(b, t)
        PROVE  FALSE
    <3>1. x.from = Actor(n) /\ x.thread = t BY <2>2 DEF GetOf
    <3>2. x.from.node = n BY <3>1 DEF Actor
    <3>3. lookup[n][t] # None /\ lookup[n][t].actor = Actor(k)
      BY <2>2, <1>5 DEF Looks, Lives
    <3>4. Waits(x, k) BY <3>1, <3>2, <3>3, <2>2 DEF Waits
    <3> QED BY <3>1, <3>2, <3>4, <1>5
  <2>3. k = m /\ lookup[n][t].state = "asked" =>
           \A b : b = Actor(n) => Head(inbox[k]) \notin GetOf(b, t)
    BY <2>2, <1>4
  <2> QED BY <2>1, <2>3, <1>1, <1>2, <1>5, LooksReceived
<1>6. ASSUME NEW t \in Thread, Looks(n, t, m, s, a), Waits(x, k), x.from.node = n, x.thread = t
      PROVE  Looks(n, t, m, s, a)'
  <2>1. x.from = Actor(n) /\ lookup[n][t].state = "asked" /\ lookup[n][t].actor = Actor(k)
    BY <1>6 DEF Waits
  <2>2. k = m BY <2>1, <1>6 DEF Looks, Lives, Actor
  <2>3. inbox[m] \in Seq(Message(m)) /\ inbox[m] # <<>>
    BY <1>1, <2>2 DEF Receives, TypeInv, RoutersTyped
  <2>4. PICK b : b = Actor(n) OBVIOUS
  <2>5. x \in GetOf(b, t) BY <2>1, <2>4, <1>6 DEF GetOf, GetMessage
  <2>6. AllBefore(inbox[m], LocalOf(s), GetOf(b, t))
    BY <2>1, <2>4, <1>6 DEF Looks, Awaits
  <2>7. NoneIn(inbox[m], LocalOf(s)) BY <2>2, <2>3, <2>5, <2>6, <1>4, AllBeforeTail
  <2>8. s \in local_symbols[m]
    BY <2>7 DEF OwnSymbols, Own, Lives, Announced, Registered
  <2>9. PICK l, next \in Lookup(x.from.node) :
           /\ l = lookup[x.from.node][x.thread]
           /\ next = [l EXCEPT !.state = "answered", !.symbols = local_symbols[k]]
           /\ lookup' = [lookup EXCEPT ![x.from.node][x.thread] = next]
    BY <1>4, <1>6
  <2>10. l = lookup[n][t] /\ l \in Lookup(n) /\ next \in Lookup(n) /\ lookup'[n][t] = next
    <3>1. /\ l = lookup[n][t] /\ l \in Lookup(n) /\ next \in Lookup(n)
          /\ lookup' = [lookup EXCEPT ![n][t] = next]
      BY <2>9, <1>6
    <3> QED BY <3>1 DEF TypeInv, NodesTyped
  <2>11. next.state = "answered" /\ next.symbols = local_symbols[k] /\ next.actor = l.actor
    BY <2>9 DEF Lookup
  <2>12. next # None BY LookupIsSome
  <2> QED BY <2>2, <2>8, <2>9, <2>10, <2>11, <2>12, <1>6 DEF Looks
<1>7. \A t \in Thread : Looks(n, t, m, s, a) => Looks(n, t, m, s, a)' BY <1>5, <1>6
<1> QED BY <1>2, <1>3, <1>7 DEF OnItsWay

-----------------------------------------------------------------------------
\* As long as no request has timed out, a router that is not overtaken will
\* know every actor that lives on another, announced node.

RoutersComing ==
  timeouts = 0 =>
    \A n, m \in Node : \A s, a :
      n \notin overtaken /\ observing[n] /\ Lives(n, m, s, a) => WillKnow(n, m, s, a)

LEMMA LivedBefore ==
  ASSUME NEW n \in Node, NEW m \in Node, NEW s, NEW a, Lives(n, m, s, a)',
         incarnation'[m] = incarnation[m], Announced(m)' => Announced(m)
  PROVE  Lives(n, m, s, a)
BY DEF Lives, Actor

LEMMA SameEvents ==
  ASSUME NEW n \in Node, NEW m \in Node, NEW s, NEW a, WillKnow(n, m, s, a),
         events'[n] = events[n],
         NoneIn(events[n], EventsOf(m)) /\ OnItsWay(n, m, s, a) => OnItsWay(n, m, s, a)'
  PROVE  WillKnow(n, m, s, a)'
BY DEF WillKnow

\* An event about another node comes.
LEMMA OtherEvents ==
  ASSUME TypeInv, NEW n \in Node, NEW m \in Node, NEW s, NEW a, WillKnow(n, m, s, a),
         NEW k \in Node \ {n}, k # m, NEW e \in EventsOf(k), events'[n] = Append(events[n], e),
         OnItsWay(n, m, s, a) => OnItsWay(n, m, s, a)'
  PROVE  WillKnow(n, m, s, a)'
BY EventsAppended DEF WillKnow

\* The observer takes the first event.
LEMMA EventHandled ==
  ASSUME TypeInv, NEW n \in Node, NEW m \in Node, NEW s, NEW a, WillKnow(n, m, s, a),
         events[n] # <<>>, events' = [events EXCEPT ![n] = Tail(@)],
         Head(events[n]) \in UpOf(m) => OnItsWay(n, m, s, a)',
         Head(events[n]).node # m /\ OnItsWay(n, m, s, a) => OnItsWay(n, m, s, a)'
  PROVE  WillKnow(n, m, s, a)'
<1>1. events[n] \in Seq(Event(n)) BY DEF TypeInv, NodesTyped
<1>2. Head(events[n]) \in Event(n) /\ events'[n] = Tail(events[n]) BY EventTaken
<1>3. CASE LastIn(events[n], UpOf(m), EventsOf(m))
  <2>1. \/ LastIn(Tail(events[n]), UpOf(m), EventsOf(m))
        \/ Head(events[n]) \in UpOf(m) /\ NoneIn(Tail(events[n]), EventsOf(m))
    BY <1>1, <1>3, LastInTail
  <2> QED BY <2>1, <1>2 DEF WillKnow
<1>4. CASE NoneIn(events[n], EventsOf(m)) /\ OnItsWay(n, m, s, a)
  <2>1. Head(events[n]) \notin EventsOf(m) /\ NoneIn(Tail(events[n]), EventsOf(m))
    BY <1>1, <1>4, NoneInTail
  <2>2. Head(events[n]).node # m BY <2>1, <1>2 DEF Event, EventsOf
  <2> QED BY <2>1, <2>2, <1>2, <1>4 DEF WillKnow
<1> QED BY <1>3, <1>4 DEF WillKnow

\* The steps of caf_main and of the observer.
LEMMA MainComing ==
  ASSUME TypeInv, Phases,
         NEW n \in Node, NEW m \in Node, NEW s, NEW a, observing'[n], Lives(n, m, s, a)',
         observing[n] /\ Lives(n, m, s, a) => WillKnow(n, m, s, a),
         NEW k \in Node,
         \/ Publish(k) \/ Register(k) \/ AddObserver(k) \/ NotifyReady(k) \/ GetMembers(k)
         \/ Serve(k) \/ OpenCloseEngine(k) \/ Match \/ RouteMatched \/ UpdateDown(k)
  PROVE  WillKnow(n, m, s, a)'
<1>1. UNCHANGED incarnation
  BY DEF Publish, Register, AddObserver, NotifyReady, GetMembers, Serve, OpenCloseEngine,
     Match, RouteMatched, UpdateDown, cluster
<1>2. n # m BY DEF Lives
<1>3. CASE AddObserver(k) /\ k = n
  <2>1. ~observing[n] /\ events[n] = <<>>
    BY <1>3 DEF AddObserver, Phases
  <2>2. pc'[n] = "notify" /\ events'[n] = <<>>
    BY <2>1, <1>3 DEF AddObserver, TypeInv, NodesTyped
  <2>3. NoneIn(<<>>, EventsOf(m)) BY NoneInEmpty
  <2> QED BY <2>2, <2>3 DEF WillKnow, OnItsWay
<1>4. CASE NotifyReady(k) /\ k = m
  <2>1. observing[n] BY <1>4 DEF NotifyReady
  <2>2. PICK e \in EventsOf(k) : e \in UpOf(k) /\ events'[n] = Append(events[n], e)
    BY <2>1, <1>2, <1>4, NotifyEvents
  <2>3. LastIn(events'[n], UpOf(m), EventsOf(m)) BY <2>2, <1>2, <1>4, EventsAppended
  <2> QED BY <2>3 DEF WillKnow
<1>5. CASE ~(AddObserver(k) /\ k = n) /\ ~(NotifyReady(k) /\ k = m)
  <2>1. observing[n]
    <3>1. CASE AddObserver(k)
      BY <3>1, <1>5 DEF AddObserver, TypeInv, NodesTyped
    <3>2. CASE ~AddObserver(k)
      BY <3>2 DEF Publish, Register, NotifyReady, GetMembers, Serve, OpenCloseEngine,
         Match, RouteMatched, UpdateDown, cluster
    <3> QED BY <3>1, <3>2
  <2>2. Announced(m)' => Announced(m)
    BY <1>5 DEF Announced, Publish, Register, AddObserver, NotifyReady, GetMembers, Serve,
       OpenCloseEngine, Match, RouteMatched, UpdateDown, cluster, TypeInv, NodesTyped
  <2>3. Lives(n, m, s, a) BY <2>2, <1>1, LivedBefore
  <2>4. WillKnow(n, m, s, a) BY <2>1, <2>3
  <2>5. ~(UpdateDown(k) /\ k = n /\ Head(events[n]).node = m) =>
           (OnItsWay(n, m, s, a) => OnItsWay(n, m, s, a)')
    BY <2>3, MainWay
  <2>6. CASE NotifyReady(k)
    <3>1. ~UpdateDown(k) \/ k # n \/ Head(events[n]).node # m
      BY <2>6 DEF NotifyReady, UpdateDown, TypeInv, NodesTyped
    <3>2. CASE k = n
      <4>1. events'[n] = events[n] BY <2>6, <3>2, NotifyEvents
      <4> QED BY <4>1, <3>1, <2>4, <2>5, SameEvents
    <3>3. CASE k # n
      <4>1. PICK e \in EventsOf(k) : events'[n] = Append(events[n], e)
        BY <2>1, <2>6, <3>3, NotifyEvents
      <4> QED BY <4>1, <3>1, <3>3, <2>4, <2>5, <2>6, <1>5, OtherEvents
    <3> QED BY <3>2, <3>3
  <2>7. CASE UpdateDown(k) /\ k = n
    <3>1. /\ events[n] # <<>> /\ Head(events[n]).status = "down"
          /\ events' = [events EXCEPT ![n] = Tail(@)]
      BY <2>7 DEF UpdateDown
    <3>2. Head(events[n]) \notin UpOf(m) BY <3>1 DEF UpOf
    <3> QED BY <3>1, <3>2, <2>4, <2>5, EventHandled
  <2>8. CASE ~NotifyReady(k) /\ ~(UpdateDown(k) /\ k = n)
    <3>1. events'[n] = events[n]
      BY <2>8 DEF Publish, Register, AddObserver, GetMembers, Serve, OpenCloseEngine,
         Match, RouteMatched, UpdateDown, cluster, TypeInv, NodesTyped
    <3> QED BY <3>1, <2>8, <2>4, <2>5, SameEvents
  <2> QED BY <2>6, <2>7, <2>8
<1> QED BY <1>3, <1>4, <1>5

\* The steps that begin to add another node.
LEMMA AskComing ==
  ASSUME TypeInv, GetsAwaited, timeouts = 0,
         NEW n \in Node, NEW m \in Node, NEW s, NEW a, Lives(n, m, s, a), WillKnow(n, m, s, a),
         NEW k \in Node, AddMember(k) \/ UpdateUp(k)
  PROVE  WillKnow(n, m, s, a)'
<1>1. "main" \in Thread /\ "observer" \in Thread BY DEF Thread
<1>2. UNCHANGED <<incarnation, symbol_actor_map, pc>> BY DEF AddMember, UpdateUp
<1>3. CASE AddMember(k)
  <2>1. PICK j \in members[k] : members' = [members EXCEPT ![k] = @ \ {j}] /\ Ask(k, "main", j)
    BY <1>3 DEF AddMember
  <2>2. j \in Node \ {k} BY <2>1 DEF TypeInv, NodesTyped
  <2>3. lookup[k]["main"] = None /\ events' = events BY <1>3 DEF AddMember
  <2>4. /\ Harmless(n, m, s, a)
        /\ \A t \in Thread : Looks(n, t, m, s, a) => lookup'[n][t] = lookup[n][t]
        /\ k = n /\ j = m => Looks(n, "main", m, s, a)'
    <3>1. Ask(k, "main", j) BY <2>1
    <3> HIDE DEF Ask
    <3> QED BY <3>1, <2>2, <2>3, <1>1, <1>2, AskWay
  <2>5. m \in members[n] => m \in members'[n] \/ \E t \in Thread : Looks(n, t, m, s, a)'
    <3>1. m \in members[n] => m \in members'[n] \/ (k = n /\ j = m)
      BY <2>1 DEF TypeInv, NodesTyped
    <3> QED BY <3>1, <2>4, <1>1
  <2>6. OnItsWay(n, m, s, a) => OnItsWay(n, m, s, a)'
    BY <2>4, <2>5, <1>2, HarmlessWay
  <2> QED BY <2>3, <2>6, SameEvents
<1>4. CASE UpdateUp(k)
  <2>1. PICK j \in Node \ {k} : j = Head(events[k]).node /\ Ask(k, "observer", j)
    BY <1>4, EventTaken DEF UpdateUp
  <2>2. /\ lookup[k]["observer"] = None /\ members' = members
        /\ events[k] # <<>> /\ events' = [events EXCEPT ![k] = Tail(@)]
    BY <1>4 DEF UpdateUp
  <2>3. /\ Harmless(n, m, s, a)
        /\ \A t \in Thread : Looks(n, t, m, s, a) => lookup'[n][t] = lookup[n][t]
        /\ k = n /\ j = m => Looks(n, "observer", m, s, a)'
    BY <2>1, <2>2, <1>1, <1>2, AskWay
  <2>4. OnItsWay(n, m, s, a) => OnItsWay(n, m, s, a)'
    BY <2>2, <2>3, <1>2, HarmlessWay
  <2>5. CASE k # n
    <3>1. events'[n] = events[n] BY <2>2, <2>5, EventTaken
    <3> QED BY <3>1, <2>4, SameEvents
  <2>6. CASE k = n
    <3>1. Head(events[n]) \in UpOf(m) => OnItsWay(n, m, s, a)'
      <4>1. Head(events[n]) \in UpOf(m) => j = m BY <2>1, <2>6 DEF UpOf
      <4> QED BY <4>1, <2>3, <2>6, <1>1 DEF OnItsWay
    <3> QED BY <3>1, <2>2, <2>4, <2>6, EventHandled
  <2> QED BY <2>5, <2>6
<1> QED BY <1>3, <1>4

LEMMA CallComing ==
  ASSUME TypeInv, StaleObserver, StaleMain, timeouts' = 0,
         NEW n \in Node, NEW m \in Node, NEW s, NEW a, Lives(n, m, s, a), WillKnow(n, m, s, a),
         n \notin overtaken, NEW k \in Node, NEW t \in Thread,
         RequestFails(k, t) \/ AddSymbols(k, t) \/ Connect(k, t) \/ AddResultActor(k, t)
  PROVE  WillKnow(n, m, s, a)'
<1>1. events' = events
  BY DEF RequestFails, AddSymbols, Connect, AddResultActor, cluster
<1>2. CASE RequestFails(k, t) \/ Connect(k, t) \/ AddResultActor(k, t)
  BY <1>1, <1>2, CallWay, SameEvents
<1>3. CASE AddSymbols(k, t)
  <2>1. ASSUME NoneIn(events[n], EventsOf(m)), k = n, lookup[n][t].actor.node = m
        PROVE  lookup[n][t].actor = a
    <3>1. lookup[n][t] # None BY <1>3, <2>1 DEF AddSymbols
    <3>2. CASE t = "observer" BY <2>1, <3>1, <3>2 DEF StaleObserver, Lives
    <3>3. CASE t = "main" BY <2>1, <3>1, <3>3 DEF StaleMain, Lives
    <3> QED BY <3>2, <3>3 DEF Thread
  <2> QED BY <2>1, <1>1, <1>3, AddSymbolsWay, SameEvents
<1> QED BY <1>2, <1>3

LEMMA RouteComing ==
  ASSUME TypeInv, OwnSymbols,
         NEW n \in Node, NEW m \in Node, NEW s, NEW a, Lives(n, m, s, a), WillKnow(n, m, s, a),
         NEW k \in Node,
         \/ RouteLocal(k) \/ RouteRemote(k) \/ RouteRemove(k) \/ RouteGet(k)
         \/ RouteResult(k) \/ RouteOrder(k)
  PROVE  WillKnow(n, m, s, a)'
<1>1. events' = events
  BY DEF RouteLocal, RouteRemote, RouteRemove, RouteGet, RouteResult, RouteOrder, cluster
<1> QED BY <1>1, MapsWay, AnswerWay, SameEvents

LEMMA RestartComing ==
  ASSUME TypeInv, RoutersComing, timeouts = 0,
         NEW n \in Node, NEW m \in Node, NEW s, NEW a,
         n \notin overtaken', observing'[n], Lives(n, m, s, a)',
         NEW k \in Node, Restart(k)
  PROVE  WillKnow(n, m, s, a)'
<1>1. n # k BY DEF Restart, TypeInv, NodesTyped
<1>2. m # k BY DEF Restart, TypeInv, NodesTyped, Lives, Announced
<1>3. \A i \in Node \ {k} :
         /\ inbox'[i] = inbox[i] /\ lookup'[i] = lookup[i] /\ pc'[i] = pc[i]
         /\ incarnation'[i] = incarnation[i] /\ observing'[i] = observing[i]
         /\ symbol_actor_map'[i] = symbol_actor_map[i] /\ members'[i] = members[i]
  BY DEF Restart, TypeInv, NodesTyped, RoutersTyped
<1>4. Lives(n, m, s, a) BY <1>2, <1>3, LivedBefore DEF Announced
<1>5. n \notin overtaken BY <1>1 DEF Restart
<1>6. WillKnow(n, m, s, a) BY <1>1, <1>3, <1>4, <1>5 DEF RoutersComing
<1>7. Harmless(n, m, s, a) BY <1>1, <1>2, <1>3 DEF Harmless
<1>8. OnItsWay(n, m, s, a) => OnItsWay(n, m, s, a)'
  BY <1>1, <1>3, <1>7, HarmlessWay
<1>9. PICK e \in EventsOf(k) : events'[n] = Append(events[n], e)
  BY <1>1, <1>3, RestartEvents
<1> QED BY <1>1, <1>2, <1>6, <1>8, <1>9, OtherEvents

LEMMA StepComing ==
  ASSUME TypeInv, Phases, OwnSymbols, GetsAwaited, StaleObserver, StaleMain, RoutersComing,
         [Next]_vars
  PROVE  RoutersComing'
<1> SUFFICES ASSUME timeouts' = 0, NEW n \in Node, NEW m \in Node, NEW s, NEW a,
                    n \notin overtaken', observing'[n], Lives(n, m, s, a)'
             PROVE  WillKnow(n, m, s, a)'
  BY DEF RoutersComing
<1>1. timeouts = 0 BY TimeoutsGrow
<1>2. ASSUME UNCHANGED <<incarnation, pc, observing, overtaken>>
      PROVE  n \notin overtaken /\ Lives(n, m, s, a) /\ WillKnow(n, m, s, a)
  <2>1. Lives(n, m, s, a) BY <1>2, LivedBefore DEF Announced
  <2> QED BY <2>1, <1>1, <1>2 DEF RoutersComing
<1>3. CASE Next
  <2>1. ASSUME NEW k \in Node,
               \/ Publish(k) \/ Register(k) \/ AddObserver(k) \/ NotifyReady(k) \/ GetMembers(k)
               \/ Serve(k) \/ OpenCloseEngine(k) \/ Match \/ RouteMatched \/ UpdateDown(k)
        PROVE  WillKnow(n, m, s, a)'
    <3>1. n \notin overtaken
      BY <2>1 DEF Publish, Register, AddObserver, NotifyReady, GetMembers, Serve,
         OpenCloseEngine, Match, RouteMatched, UpdateDown
    <3>2. observing[n] /\ Lives(n, m, s, a) => WillKnow(n, m, s, a)
      BY <3>1, <1>1 DEF RoutersComing
    <3> QED BY <2>1, <3>2, MainComing
  <2>2. CASE Match \/ RouteMatched BY <2>1, <2>2, HomeAssumption
  <2>3. ASSUME NEW k \in Node, AddMember(k) \/ UpdateUp(k) PROVE WillKnow(n, m, s, a)'
    <3>1. UNCHANGED <<incarnation, pc, observing, overtaken>>
      BY <2>3 DEF AddMember, UpdateUp
    <3> QED BY <3>1, <2>3, <1>1, <1>2, AskComing
  <2>4. ASSUME NEW k \in Node,
               \/ RouteLocal(k) \/ RouteRemote(k) \/ RouteRemove(k) \/ RouteGet(k)
               \/ RouteResult(k) \/ RouteOrder(k)
        PROVE  WillKnow(n, m, s, a)'
    <3>1. UNCHANGED <<incarnation, pc, observing, overtaken>>
      BY <2>4 DEF RouteLocal, RouteRemote, RouteRemove, RouteGet, RouteResult, RouteOrder,
         cluster
    <3> QED BY <3>1, <2>4, <1>2, RouteComing
  <2>5. ASSUME NEW k \in Node, NEW t \in Thread,
               RequestFails(k, t) \/ AddSymbols(k, t) \/ Connect(k, t) \/ AddResultActor(k, t)
        PROVE  WillKnow(n, m, s, a)'
    <3>1. UNCHANGED <<incarnation, pc, observing, overtaken>>
      BY <2>5 DEF RequestFails, AddSymbols, Connect, AddResultActor, cluster
    <3> QED BY <3>1, <2>5, <1>2, CallComing
  <2>6. ASSUME NEW k \in Node, Restart(k) PROVE WillKnow(n, m, s, a)'
    BY <2>6, <1>1, RestartComing
  <2> QED BY <1>3, <2>1, <2>2, <2>3, <2>4, <2>5, <2>6, NextCases
<1>4. CASE UNCHANGED vars
  <2>1. UNCHANGED <<incarnation, pc, observing, overtaken, inbox, lookup, members, events,
                    symbol_actor_map>>
    BY <1>4 DEF vars, routers, cluster
  <2>2. Harmless(n, m, s, a) BY <2>1 DEF Harmless
  <2> QED BY <2>1, <2>2, <1>2, HarmlessWay, SameEvents
<1> QED BY <1>3, <1>4

\* The inductive invariant of the routers.
ComingInv ==
  /\ TypeInv /\ Phases /\ OwnSymbols
  /\ GetsAwaited /\ GetsPast
  /\ StaleObserver /\ StaleMain
  /\ RoutersComing

LEMMA InitComing == Init => ComingInv
<1> SUFFICES ASSUME Init PROVE ComingInv OBVIOUS
<1>1. TypeInv BY InitTyped
<1>2. \A n \in Node : /\ pc[n] = "publish" /\ inbox[n] = <<>> /\ observing[n] = FALSE
                      /\ events[n] = <<>> /\ members[n] = {}
                      /\ \A t \in Thread : lookup[n][t] = None
  BY DEF Init
<1>3. "main" \in Thread /\ "observer" \in Thread BY DEF Thread
<1>4. Phases BY <1>2, <1>3 DEF Phases
<1>5. OwnSymbols BY <1>2 DEF OwnSymbols, Registered
<1>6. GetsAwaited BY <1>2, NoneInEmpty DEF GetsAwaited, Awaited
<1>7. GetsPast BY <1>2, NoneInEmpty DEF GetsPast
<1>8. StaleObserver /\ StaleMain BY <1>2, <1>3 DEF StaleObserver, StaleMain
<1>9. RoutersComing BY <1>2 DEF RoutersComing
<1> QED BY <1>1, <1>4, <1>5, <1>6, <1>7, <1>8, <1>9 DEF ComingInv

LEMMA ComingStep == ComingInv /\ [Next]_vars => ComingInv'
BY StepTyped, StepPhases, StepOwn, StepGetsAwaited, StepGetsPast, StepStale, StepComing
   DEF ComingInv

LEMMA AlwaysComing == Spec => []ComingInv
BY InitComing, ComingStep, PTL DEF Spec

\* When all has settled, what was on its way has come.
LEMMA ComingIsComplete == ComingInv => RoutersComplete
<1> SUFFICES ASSUME ComingInv, Settled, timeouts = 0,
                    NEW n \in Node \ overtaken, NEW s \in Symbol
             PROVE  s \in DOMAIN symbol_actor_map[n] /\ symbol_actor_map[n][s] = Actor(Home[s])
  BY DEF RoutersComplete
<1>1. PICK m \in Node : m = Home[s] BY HomeAssumption
<1>2. PICK a : a = Actor(m) OBVIOUS
<1>3. /\ \A i \in Node : pc[i] = "serve" /\ inbox[i] = <<>> /\ events[i] = <<>>
      /\ \A i \in Node, t \in Thread : lookup[i][t] = None
      /\ members[n] = {} /\ observing[n]
  BY DEF Settled, ComingInv, Phases
<1>4. s \in LocalSymbols(m) BY <1>1 DEF LocalSymbols
<1> SUFFICES HasActor(n, s, a) BY <1>1, <1>2 DEF HasActor
<1>5. CASE m = n
  <2>1. Own(n, s) BY <1>3, <1>4, <1>5 DEF ComingInv, OwnSymbols, Registered
  <2> QED BY <2>1, <1>2, <1>3, <1>5, NoneInEmpty DEF Own
<1>6. CASE m # n
  <2>1. Lives(n, m, s, a) BY <1>2, <1>3, <1>4, <1>6 DEF Lives, Announced
  <2>2. WillKnow(n, m, s, a) BY <2>1, <1>3 DEF ComingInv, RoutersComing
  <2>3. OnItsWay(n, m, s, a) BY <2>2, <1>3, NotLastInEmpty DEF WillKnow
  <2>4. Knows(n, s, a) BY <2>3, <1>3 DEF OnItsWay, Looks
  <2> QED BY <2>4, <1>3, NotLastInEmpty DEF Knows
<1> QED BY <1>5, <1>6

\* When no request has timed out and all has settled, every router knows the
\* living match actor of every symbol (RoutersComplete): however many nodes
\* there are, and in whatever order they start, fail and start again, what
\* caf_main, the observer and AddNewNode do is enough.
THEOREM EveryActorIsKnown == Spec => []RoutersComplete
<1>1. ComingInv => RoutersComplete BY ComingIsComplete
<1> QED BY <1>1, AlwaysComing, PTL

-----------------------------------------------------------------------------
\* How the match actor of symbol s, of node n, comes to know the result actor
\* a: as above, but that a thread which is still adding the result host is
\* enough, as it looks the result actor up whatever the routers answer; and
\* the message that names it comes after the one with the match actor.  When
\* the lookup fails the node is among the unconnected, until a later one of a
\* thread that adds the host succeeds, or one of the two starts again.

Told(n, s, a) ==
  \/ LastIn(inbox[n], ResultOf(a), LocalOf(s) \cup Renames(a))
  \/ NoneIn(inbox[n], Renames(a)) /\ match_result_actor[s] = a

Adds(n, a) ==
  \/ \E t \in Thread : lookup[n][t] # None /\ lookup[n][t].actor = a
  \/ n \in unconnected

ToldOnItsWay(n, s, a) ==
  \/ pc[n] \in {"notify", "members"}
  \/ ResultHost \in members[n]
  \/ Adds(n, a)
  \/ Told(n, s, a)

WillBeTold(n, s, a) ==
  \/ LastIn(events[n], UpOf(ResultHost), EventsOf(ResultHost))
  \/ NoneIn(events[n], EventsOf(ResultHost)) /\ ToldOnItsWay(n, s, a)

\* Result actor a lives, and symbol s is one of another node n.
ResultLives(n, s, a) ==
  n # ResultHost /\ s \in LocalSymbols(n) /\ a = Actor(ResultHost) /\ Announced(ResultHost)

ResultComing ==
  \A n \in Node : \A s, a :
    n \notin overtaken /\ observing[n] /\ ResultLives(n, s, a) => WillBeTold(n, s, a)

\* The match actors of the result host itself.
OwnResult ==
  \A s \in LocalSymbols(ResultHost) : \A a :
    Registered(ResultHost) /\ a = Actor(ResultHost) => Told(ResultHost, s, a)

\* What a step may do to the mailbox and disturb nothing.
Gentle(n, s, a) ==
  \/ inbox'[n] = inbox[n]
  \/ \E r \in Seq(Message(n)) : /\ inbox'[n] = inbox[n] \o r
                                /\ NoneIn(r, LocalOf(s) \cup Renames(a))

LEMMA GentleTold ==
  ASSUME TypeInv, NEW n \in Node, NEW s, NEW a, Gentle(n, s, a),
         match_result_actor'[s] = match_result_actor[s], Told(n, s, a)
  PROVE  Told(n, s, a)'
<1>1. inbox[n] \in Seq(Message(n)) BY DEF TypeInv, RoutersTyped
<1>2. CASE inbox'[n] = inbox[n] BY <1>2 DEF Told
<1>3. ASSUME NEW r \in Seq(Message(n)), inbox'[n] = inbox[n] \o r,
             NoneIn(r, LocalOf(s) \cup Renames(a))
      PROVE  Told(n, s, a)'
  <2>1. NoneIn(r, Renames(a)) BY <1>3 DEF NoneIn
  <2>2. LastIn(inbox[n], ResultOf(a), LocalOf(s) \cup Renames(a))
          => LastIn(inbox[n] \o r, ResultOf(a), LocalOf(s) \cup Renames(a))
    BY <1>1, <1>3, LastInAppended
  <2>3. NoneIn(inbox[n], Renames(a)) => NoneIn(inbox[n] \o r, Renames(a))
    BY <1>1, <1>3, <2>1, NoneInAppended
  <2> QED BY <2>2, <2>3, <1>3 DEF Told
<1> QED BY <1>2, <1>3 DEF Gentle

LEMMA GentleSent ==
  ASSUME NEW n \in Node, NEW s, NEW a, NEW k \in Node,
         NEW r \in Seq(Message(k)), inbox'[k] = inbox[k] \o r,
         \A i \in Node \ {k} : inbox'[i] = inbox[i],
         k = n => NoneIn(r, LocalOf(s) \cup Renames(a))
  PROVE  Gentle(n, s, a)
<1>1. CASE k = n BY <1>1 DEF Gentle
<1>2. CASE k # n BY <1>2 DEF Gentle
<1> QED BY <1>1, <1>2

LEMMA StepsGentle ==
  ASSUME TypeInv, NEW n \in Node, NEW s, NEW a, NEW k \in Node, NEW t \in Thread,
         \/ Publish(k) \/ AddObserver(k) \/ NotifyReady(k) \/ GetMembers(k)
         \/ Serve(k) \/ OpenCloseEngine(k) \/ RequestFails(k, t) \/ Connect(k, t)
         \/ AddSymbols(k, t) \/ UpdateDown(k) \/ Match \/ RouteMatched
         \/ Register(k) /\ k # n
         \/ AddResultActor(k, t) /\ (k = n => lookup[n][t].actor = a)
  PROVE  Gentle(n, s, a)
<1>1. CASE \/ Publish(k) \/ AddObserver(k) \/ NotifyReady(k) \/ GetMembers(k) \/ Serve(k)
           \/ OpenCloseEngine(k) \/ RequestFails(k, t) \/ Connect(k, t) \/ Match
  <2>1. UNCHANGED inbox
    BY <1>1 DEF Publish, AddObserver, NotifyReady, GetMembers, Serve, OpenCloseEngine,
       RequestFails, Connect, Match, routers
  <2> QED BY <2>1 DEF Gentle
<1>2. CASE Register(k) /\ k # n
  <2>1. PICK r \in Seq(Message(k)) :
           /\ inbox'[k] = inbox[k] \o r
           /\ \A i \in Node \ {k} : inbox'[i] = inbox[i]
    BY <1>2, RegisterSends
  <2> QED BY <2>1, <1>2, GentleSent
<1>3. CASE UpdateDown(k)
  <2>1. PICK x \in RemoveMessage(k) :
           /\ <<x>> \in Seq(Message(k))
           /\ inbox'[k] = inbox[k] \o <<x>>
           /\ \A i \in Node \ {k} : inbox'[i] = inbox[i]
    BY <1>3, UpdateDownSends
  <2>2. x \notin LocalOf(s) \cup Renames(a) BY KindsDiffer
  <2>3. NoneIn(<<x>>, LocalOf(s) \cup Renames(a)) BY <2>2, NoneInOne
  <2> QED BY <2>1, <2>3, GentleSent
<1>4. CASE AddSymbols(k, t)
  <2>1. PICK l \in Lookup(k), r \in Seq(Message(k)) :
           /\ l = lookup[k][t] /\ l.state \in {"answered", "failed"}
           /\ r \in Seq(RemotesOf(l.symbols, l.actor))
           /\ \A c \in l.symbols :
                \E i \in DOMAIN r : r[i] = [type |-> "remote", symbol |-> c, actor |-> l.actor]
           /\ inbox'[k] = inbox[k] \o r
           /\ \A i \in Node \ {k} : inbox'[i] = inbox[i]
    BY <1>4, AddSymbolsSends
  <2>2. \A x \in RemotesOf(l.symbols, l.actor) : x \notin LocalOf(s) \cup Renames(a)
    BY DEF RemotesOf, LocalOf, Renames
  <2>3. NoneIn(r, LocalOf(s) \cup Renames(a)) BY <2>1, <2>2, NoneOfKind
  <2> QED BY <2>1, <2>3, GentleSent
<1>5. CASE AddResultActor(k, t) /\ (k = n => lookup[n][t].actor = a)
  <2>1. PICK l \in Lookup(k), x \in ResultMessage :
           /\ l = lookup[k][t] /\ l.state = "connected" /\ l.actor.node = ResultHost
           /\ x = [type |-> "result", actor |-> l.actor]
           /\ <<x>> \in Seq(Message(k))
           /\ inbox'[k] = inbox[k] \o <<x>>
           /\ \A i \in Node \ {k} : inbox'[i] = inbox[i]
           /\ lookup' = [lookup EXCEPT ![k][t] = None]
    BY <1>5, AddResultActorSends
  <2>2. k = n => x \notin LocalOf(s) \cup Renames(a) BY <2>1, <1>5 DEF LocalOf, Renames
  <2>3. k = n => NoneIn(<<x>>, LocalOf(s) \cup Renames(a)) BY <2>2, NoneInOne
  <2> QED BY <2>1, <2>3, GentleSent
<1>6. CASE RouteMatched
  <2>1. PICK j \in Node, x \in OrderMessage :
           /\ <<x>> \in Seq(Message(j)) /\ inbox'[j] = inbox[j] \o <<x>>
           /\ \A i \in Node \ {j} : inbox'[i] = inbox[i]
    BY <1>6, RouteMatchedSends
  <2>2. x \notin LocalOf(s) \cup Renames(a) BY KindsDiffer
  <2>3. NoneIn(<<x>>, LocalOf(s) \cup Renames(a)) BY <2>2, NoneInOne
  <2> QED BY <2>1, <2>3, GentleSent
<1> QED BY <1>1, <1>2, <1>3, <1>4, <1>5, <1>6

LEMMA AskGentle ==
  ASSUME TypeInv, NEW n \in Node, NEW s, NEW a,
         NEW k \in Node, NEW u \in Thread, NEW j \in Node \ {k}, Ask(k, u, j)
  PROVE  Gentle(n, s, a)
<1>1. PICK x \in GetMessage :
         /\ \A c, v : x \in GetOf(c, v) => c = Actor(k) /\ v = u
         /\ \A c : c = Actor(k) => x \in GetOf(c, u)
         /\ <<x>> \in Seq(Message(j))
         /\ pc[j] = "publish" => inbox'[j] = inbox[j]
         /\ pc[j] # "publish" => inbox'[j] = inbox[j] \o <<x>>
         /\ \A i \in Node \ {j} : inbox'[i] = inbox[i]
  <2> HIDE DEF Ask
  <2> QED BY AskSends
<1>2. x \notin LocalOf(s) \cup Renames(a) BY KindsDiffer
<1>3. NoneIn(<<x>>, LocalOf(s) \cup Renames(a)) BY <1>2, NoneInOne
<1>4. CASE pc[j] = "publish" BY <1>1, <1>4 DEF Gentle
<1>5. CASE pc[j] # "publish" BY <1>1, <1>3, <1>5, GentleSent
<1> QED BY <1>4, <1>5

\* Router k handles a message.
LEMMA ToldReceived ==
  ASSUME TypeInv, NEW n \in Node, NEW s, NEW a, NEW k \in Node, NEW y, Receives(k, y),
         Told(n, s, a),
         n = k /\ Head(inbox[k]) \in ResultOf(a) /\ NoneIn(Tail(inbox[k]), LocalOf(s))
           => match_result_actor'[s] = a,
         match_result_actor[s] = a /\ (n = k => Head(inbox[k]) \notin Renames(a))
           => match_result_actor'[s] = a
  PROVE  Told(n, s, a)'
<1>1. inbox[n] \in Seq(Message(n)) BY DEF TypeInv, RoutersTyped
<1>2. /\ inbox[k] # <<>> /\ inbox'[k] = Tail(inbox[k])
      /\ n # k => inbox'[n] = inbox[n]
  BY Received DEF TypeInv
<1>3. CASE n # k BY <1>2, <1>3 DEF Told
<1>4. CASE n = k
  <2>1. LastIn(inbox[n], ResultOf(a), LocalOf(s) \cup Renames(a)) =>
           \/ LastIn(Tail(inbox[n]), ResultOf(a), LocalOf(s) \cup Renames(a))
           \/ /\ Head(inbox[n]) \in ResultOf(a)
              /\ NoneIn(Tail(inbox[n]), LocalOf(s) \cup Renames(a))
    BY <1>1, <1>2, <1>4, LastInTail
  <2>2. NoneIn(inbox[n], Renames(a)) =>
           Head(inbox[n]) \notin Renames(a) /\ NoneIn(Tail(inbox[n]), Renames(a))
    BY <1>1, <1>2, <1>4, NoneInTail
  <2>3. NoneIn(Tail(inbox[n]), LocalOf(s) \cup Renames(a)) =>
           NoneIn(Tail(inbox[n]), LocalOf(s)) /\ NoneIn(Tail(inbox[n]), Renames(a))
    BY DEF NoneIn
  <2> QED BY <2>1, <2>2, <2>3, <1>2, <1>4 DEF Told
<1> QED BY <1>3, <1>4

\* The match actors that are told are those the router knows: what came
\* before has told it of them.
LEMMA RouteTold ==
  ASSUME TypeInv, OwnSymbols,
         NEW n \in Node, NEW s \in LocalSymbols(n), NEW a, Registered(n), Told(n, s, a),
         NEW k \in Node,
         \/ RouteLocal(k) \/ RouteRemote(k) \/ RouteRemove(k) \/ RouteGet(k)
         \/ RouteResult(k) \/ RouteOrder(k)
  PROVE  Told(n, s, a)'
<1>1. CASE RouteLocal(k) \/ RouteRemote(k) \/ RouteRemove(k) \/ RouteGet(k) \/ RouteOrder(k)
  <2>1. PICK y \in {"local", "remote", "remove", "get", "order"} : Receives(k, y)
    BY <1>1 DEF RouteLocal, RouteRemote, RouteRemove, RouteGet, RouteOrder
  <2>2. Head(inbox[k]).type = y BY <2>1, Received DEF TypeInv
  <2>3. Head(inbox[k]) \notin ResultOf(a) BY <2>2 DEF ResultOf
  <2>4. UNCHANGED match_result_actor
    BY <1>1 DEF RouteLocal, RouteRemote, RouteRemove, RouteGet, RouteOrder
  <2> QED BY <2>1, <2>3, <2>4, ToldReceived
<1>2. CASE RouteResult(k)
  <2>1. Receives(k, "result") BY <1>2 DEF RouteResult
  <2>2. PICK x : x = Head(inbox[k]) OBVIOUS
  <2>3. x \in Message(k) /\ x.type = "result" /\ inbox[k] # <<>>
    BY <2>1, <2>2, Received DEF TypeInv
  <2>4. x \in ResultMessage BY <2>3, MessageKinds
  <2>5. s \in Symbol /\ Home[s] = n BY DEF LocalSymbols
  <2>6. match_result_actor'[s] = IF s \in local_symbols[k] THEN x.actor
                                 ELSE match_result_actor[s]
    BY <1>2, <2>2, <2>5 DEF RouteResult
  <2>7. s \in local_symbols[k] => k = n
    BY <2>5 DEF TypeInv, RoutersTyped, LocalSymbols
  <2>8. ASSUME n = k, x \in ResultOf(a), NoneIn(Tail(inbox[k]), LocalOf(s))
        PROVE  match_result_actor'[s] = a
    <3>1. inbox[n] \in Seq(Message(n)) BY DEF TypeInv, RoutersTyped
    <3>2. x \notin LocalOf(s) BY <2>4, KindsDiffer
    <3>3. NoneIn(inbox[n], LocalOf(s)) BY <3>1, <3>2, <2>2, <2>3, <2>8, NoneInTail
    <3>4. s \in local_symbols[k] BY <3>3, <2>8 DEF OwnSymbols, Own
    <3>5. x.actor = a BY <2>8 DEF ResultOf
    <3> QED BY <3>4, <3>5, <2>6
  <2>9. ASSUME match_result_actor[s] = a, n = k => x \notin Renames(a)
        PROVE  match_result_actor'[s] = a
    <3>1. n = k => x.actor = a BY <2>4, <2>9 DEF ResultMessage, Renames
    <3> QED BY <3>1, <2>6, <2>7, <2>9
  <2> QED BY <2>1, <2>2, <2>8, <2>9, ToldReceived
<1> QED BY <1>1, <1>2

\* A step that does no more than send gentle messages.
LEMMA GentleWay ==
  ASSUME TypeInv, NEW n \in Node, NEW s, NEW a, Gentle(n, s, a), ToldOnItsWay(n, s, a),
         match_result_actor'[s] = match_result_actor[s],
         Adds(n, a) => Adds(n, a)' \/ Told(n, s, a)',
         pc[n] \in {"notify", "members"} =>
           pc'[n] \in {"notify", "members"} \/ ResultHost \in members'[n],
         ResultHost \in members[n] => ResultHost \in members'[n] \/ Adds(n, a)'
  PROVE  ToldOnItsWay(n, s, a)'
<1>1. Told(n, s, a) => Told(n, s, a)' BY GentleTold
<1> QED BY <1>1 DEF ToldOnItsWay

\* A thread that adds the result host goes on until it has sent the actor.
LEMMA CallAdds ==
  ASSUME TypeInv, StaleObserver, StaleMain,
         NEW n \in Node, NEW s, NEW a, ResultLives(n, s, a), n \notin overtaken,
         NoneIn(events[n], EventsOf(ResultHost)), NEW k \in Node, NEW t \in Thread,
         RequestFails(k, t) \/ AddSymbols(k, t) \/ Connect(k, t) \/ AddResultActor(k, t)
  PROVE  /\ Gentle(n, s, a)
         /\ Adds(n, a) => Adds(n, a)' \/ Told(n, s, a)'
<1>1. a = Actor(ResultHost) /\ a.node = ResultHost /\ ResultHost \in Node /\ Announced(ResultHost)
  BY HomeAssumption DEF ResultLives, Actor
<1>2. ASSUME NEW l \in Lookup(k) \cup {None}, lookup' = [lookup EXCEPT ![k][t] = l],
             lookup[k][t] # None /\ lookup[k][t].actor = a /\ k = n =>
               (l # None /\ l.actor = a) \/ Told(n, s, a)' \/ n \in unconnected',
             n \in unconnected => n \in unconnected' \/ (k = n /\ l # None /\ l.actor = a)
      PROVE  Adds(n, a) => Adds(n, a)' \/ Told(n, s, a)'
  <2>1. lookup' = [lookup EXCEPT ![k][t] = l] BY <1>2
  <2>2. /\ \A i \in Node, u \in Thread : i # k \/ u # t => lookup'[i][u] = lookup[i][u]
        /\ lookup'[k][t] = l
    BY <2>1 DEF TypeInv, NodesTyped
  <2> QED BY <2>2, <1>2 DEF Adds
<1>3. CASE RequestFails(k, t)
  <2>1. PICK l \in Lookup(k) :
           /\ l = lookup[k][t] /\ l.state = "asked"
           /\ [l EXCEPT !.state = "failed"] \in Lookup(k)
           /\ lookup' = [lookup EXCEPT ![k][t] = [l EXCEPT !.state = "failed"]]
    BY <1>3, RequestFailsFacts
  <2>2. PICK next : next = [l EXCEPT !.state = "failed"] OBVIOUS
  <2>3. next \in Lookup(k) /\ next.actor = l.actor BY <2>1, <2>2 DEF Lookup
  <2>4. next # None BY <2>3, LookupIsSome
  <2>5. UNCHANGED unconnected BY <1>3 DEF RequestFails
  <2>6. Adds(n, a) => Adds(n, a)' \/ Told(n, s, a)'
    BY <2>1, <2>2, <2>3, <2>4, <2>5, <1>2
  <2> QED BY <2>6, <1>3, StepsGentle
<1>4. CASE AddSymbols(k, t)
  <2>1. PICK l \in Lookup(k), next \in Lookup(k) \cup {None}, r \in Seq(Message(k)) :
           /\ l = lookup[k][t]
           /\ lookup' = [lookup EXCEPT ![k][t] = next]
           /\ l.actor.node = ResultHost =>
                /\ next \in Lookup(k) /\ next.actor = l.actor /\ next.state = "connect"
           /\ l.actor.node # ResultHost => next = None
    BY <1>4, AddSymbolsFacts
  <2>2. l.actor = a => next # None /\ next.actor = a BY <2>1, <1>1, LookupIsSome
  <2>3. UNCHANGED unconnected BY <1>4 DEF AddSymbols, failure
  <2>4. Adds(n, a) => Adds(n, a)' \/ Told(n, s, a)' BY <2>1, <2>2, <2>3, <1>2
  <2> QED BY <2>4, <1>4, StepsGentle
<1>5. CASE Connect(k, t)
  <2>1. PICK l \in Lookup(k), next \in Lookup(k) \cup {None} :
           /\ l = lookup[k][t] /\ l.state = "connect" /\ l.actor.node = ResultHost
           /\ lookup' = [lookup EXCEPT ![k][t] = next]
           /\ pc[ResultHost] \in {"publish", "register"} => next = None
           /\ pc[ResultHost] \notin {"publish", "register"} =>
                \/ next = None /\ unconnected' = unconnected \cup {k}
                \/ /\ next \in Lookup(k) /\ next.actor = Actor(ResultHost)
                   /\ next.state = "connected"
           /\ unconnected \ {k} \subseteq unconnected'
    BY <1>5, ConnectFacts
  <2>2. pc[ResultHost] \notin {"publish", "register"} BY <1>1 DEF Announced
  <2>3. k \in unconnected' \/ (next # None /\ next.actor = a)
    BY <2>1, <2>2, <1>1, LookupIsSome
  <2>4. Adds(n, a) => Adds(n, a)' \/ Told(n, s, a)' BY <2>1, <2>3, <1>2
  <2> QED BY <2>4, <1>5, StepsGentle
<1>6. CASE AddResultActor(k, t)
  <2>1. PICK l \in Lookup(k), x \in ResultMessage :
           /\ l = lookup[k][t] /\ l.state = "connected" /\ l.actor.node = ResultHost
           /\ x = [type |-> "result", actor |-> l.actor]
           /\ <<x>> \in Seq(Message(k))
           /\ inbox'[k] = inbox[k] \o <<x>>
           /\ \A i \in Node \ {k} : inbox'[i] = inbox[i]
           /\ lookup' = [lookup EXCEPT ![k][t] = None]
    BY <1>6, AddResultActorSends
  <2>2. l # None BY LookupIsSome
  <2>3. k = n => l.actor = a
    <3>1. CASE t = "observer" BY <2>1, <2>2, <3>1, <1>1 DEF StaleObserver
    <3>2. CASE t = "main" BY <2>1, <2>2, <3>2, <1>1 DEF StaleMain
    <3> QED BY <3>1, <3>2 DEF Thread
  <2>4. ASSUME k = n PROVE Told(n, s, a)'
    <3>1. x \in ResultOf(a) BY <2>1, <2>3, <2>4 DEF ResultOf
    <3>2. LastIn(<<x>>, ResultOf(a), LocalOf(s) \cup Renames(a)) BY <3>1, LastInOne
    <3>3. inbox[n] \in Seq(Message(n)) /\ <<x>> \in Seq(Message(n))
      BY <2>1, <2>4 DEF TypeInv, RoutersTyped
    <3>4. LastIn(inbox[n] \o <<x>>, ResultOf(a), LocalOf(s) \cup Renames(a))
      BY <3>2, <3>3, LastInAppended
    <3>5. inbox'[n] = inbox[n] \o <<x>> BY <2>1, <2>4
    <3> QED BY <3>4, <3>5 DEF Told
  <2>5. UNCHANGED unconnected BY <1>6 DEF AddResultActor, failure
  <2>6. Adds(n, a) => Adds(n, a)' \/ Told(n, s, a)' BY <2>1, <2>4, <2>5, <1>2
  <2> QED BY <2>1, <2>3, <2>6, <1>6, StepsGentle
<1> QED BY <1>3, <1>4, <1>5, <1>6

\* An answer leaves the actor of the call as it is.
LEMMA AnswerAdds ==
  ASSUME TypeInv, NEW n \in Node, NEW a, Adds(n, a), NEW k \in Node, RouteGet(k)
  PROVE  Adds(n, a)'
<1>1. PICK x \in GetMessage :
         /\ x = Head(inbox[k]) /\ x.from.node \in Node /\ x.thread \in Thread
         /\ ~Waits(x, k) => UNCHANGED lookup
         /\ Waits(x, k) =>
              \E l, next \in Lookup(x.from.node) :
                 /\ l = lookup[x.from.node][x.thread]
                 /\ next = [l EXCEPT !.state = "answered", !.symbols = local_symbols[k]]
                 /\ lookup' = [lookup EXCEPT ![x.from.node][x.thread] = next]
  BY RouteGetFacts
<1> UNCHANGED unconnected BY DEF RouteGet, failure
<1>2. CASE ~Waits(x, k) BY <1>1, <1>2 DEF Adds
<1>3. CASE Waits(x, k)
  <2>1. PICK j \in Node, u \in Thread : j = x.from.node /\ u = x.thread BY <1>1
  <2>2. PICK l, next \in Lookup(x.from.node) :
           /\ l = lookup[x.from.node][x.thread]
           /\ next = [l EXCEPT !.state = "answered", !.symbols = local_symbols[k]]
           /\ lookup' = [lookup EXCEPT ![x.from.node][x.thread] = next]
    BY <1>1, <1>3
  <2>3. next.actor = l.actor BY <2>2 DEF Lookup
  <2>4. next # None BY LookupIsSome
  <2>5. /\ next \in Lookup(j) \cup {None} /\ l = lookup[j][u]
        /\ lookup' = [lookup EXCEPT ![j][u] = next]
    BY <2>1, <2>2
  <2>6. /\ \A i \in Node, t \in Thread : i # j \/ t # u => lookup'[i][t] = lookup[i][t]
        /\ lookup'[j][u] = next
    BY <2>5 DEF TypeInv, NodesTyped
  <2> QED BY <2>3, <2>4, <2>5, <2>6 DEF Adds
<1> QED BY <1>2, <1>3

\* The steps of caf_main and of the observer.
LEMMA MainGentle ==
  ASSUME TypeInv, NEW n \in Node, NEW s, NEW a, ResultLives(n, s, a), ToldOnItsWay(n, s, a),
         NEW k \in Node,
         \/ Publish(k) \/ (Register(k) /\ k # n) \/ AddObserver(k) \/ NotifyReady(k)
         \/ GetMembers(k) \/ Serve(k) \/ OpenCloseEngine(k) \/ Match \/ RouteMatched
         \/ UpdateDown(k)
  PROVE  ToldOnItsWay(n, s, a)'
<1>1. "main" \in Thread BY DEF Thread
<1>2. Gentle(n, s, a) BY <1>1, StepsGentle
<1>3. UNCHANGED <<lookup, incarnation, match_result_actor, unconnected>>
  BY DEF Publish, Register, AddObserver, NotifyReady, GetMembers, Serve, OpenCloseEngine,
     Match, RouteMatched, UpdateDown, routers, cluster, failure
<1>4. /\ pc[n] \in {"notify", "members"} =>
           pc'[n] \in {"notify", "members"} \/ ResultHost \in members'[n]
      /\ ResultHost \in members[n] => ResultHost \in members'[n]
  <2>1. CASE GetMembers(k)
    <3>1. PICK there \in SUBSET (Node \ {k}) :
             /\ {i \in Node \ {k} : pc[i] \in {"members", "add", "serve"}} \subseteq there
             /\ members' = [members EXCEPT ![k] = there]
      BY <2>1 DEF GetMembers
    <3>2. DOMAIN members = Node BY DEF TypeInv, NodesTyped
    <3>3. CASE n = k
      <4>1. ResultHost \in members'[n]
        BY <3>1, <3>2, <3>3, HomeAssumption DEF ResultLives, Announced
      <4> QED BY <4>1
    <3>4. CASE n # k
      BY <2>1, <3>1, <3>2, <3>4 DEF GetMembers, TypeInv, NodesTyped
    <3> QED BY <3>3, <3>4
  <2>2. CASE \/ Publish(k) \/ Register(k) \/ AddObserver(k) \/ NotifyReady(k)
             \/ Serve(k) \/ OpenCloseEngine(k) \/ Match \/ RouteMatched \/ UpdateDown(k)
    BY <2>2 DEF Publish, Register, AddObserver, NotifyReady, Serve, OpenCloseEngine,
       Match, RouteMatched, UpdateDown, cluster, TypeInv, NodesTyped
  <2> QED BY <2>1, <2>2
<1>5. Adds(n, a) => Adds(n, a)' BY <1>3 DEF Adds
<1> QED BY <1>2, <1>3, <1>4, <1>5, GentleWay

\* The events: as above.
LEMMA ResultEvents ==
  ASSUME TypeInv, NEW n \in Node, NEW s, NEW a, WillBeTold(n, s, a),
         NoneIn(events[n], EventsOf(ResultHost)) /\ ToldOnItsWay(n, s, a)
           => ToldOnItsWay(n, s, a)'
  PROVE  /\ events'[n] = events[n] => WillBeTold(n, s, a)'
         /\ \A k \in Node \ {n} :
              /\ k # ResultHost
              /\ \E e \in EventsOf(k) : events'[n] = Append(events[n], e)
              => WillBeTold(n, s, a)'
<1>1. ASSUME NEW k \in Node \ {n}, k # ResultHost,
             NEW e \in EventsOf(k), events'[n] = Append(events[n], e)
      PROVE  WillBeTold(n, s, a)'
  BY <1>1, EventsAppended DEF WillBeTold
<1>2. events'[n] = events[n] => WillBeTold(n, s, a)' BY DEF WillBeTold
<1> QED BY <1>1, <1>2

LEMMA ResultEventHandled ==
  ASSUME TypeInv, NEW n \in Node, NEW s, NEW a, WillBeTold(n, s, a),
         events[n] # <<>>, events' = [events EXCEPT ![n] = Tail(@)],
         Head(events[n]) \in UpOf(ResultHost) => ToldOnItsWay(n, s, a)',
         ToldOnItsWay(n, s, a) => ToldOnItsWay(n, s, a)'
  PROVE  WillBeTold(n, s, a)'
<1>1. events[n] \in Seq(Event(n)) BY DEF TypeInv, NodesTyped
<1>2. events'[n] = Tail(events[n]) BY EventTaken
<1>3. CASE LastIn(events[n], UpOf(ResultHost), EventsOf(ResultHost))
  <2>1. \/ LastIn(Tail(events[n]), UpOf(ResultHost), EventsOf(ResultHost))
        \/ /\ Head(events[n]) \in UpOf(ResultHost)
           /\ NoneIn(Tail(events[n]), EventsOf(ResultHost))
    BY <1>1, <1>3, LastInTail
  <2> QED BY <2>1, <1>2 DEF WillBeTold
<1>4. CASE NoneIn(events[n], EventsOf(ResultHost)) /\ ToldOnItsWay(n, s, a)
  <2>1. NoneIn(Tail(events[n]), EventsOf(ResultHost))
    BY <1>1, <1>4, NoneInTail
  <2> QED BY <2>1, <1>2, <1>4 DEF WillBeTold
<1> QED BY <1>3, <1>4 DEF WillBeTold

LEMMA MainResult ==
  ASSUME TypeInv, Phases,
         NEW n \in Node, NEW s, NEW a, observing'[n], ResultLives(n, s, a)',
         observing[n] /\ ResultLives(n, s, a) => WillBeTold(n, s, a),
         NEW k \in Node,
         \/ Publish(k) \/ Register(k) \/ AddObserver(k) \/ NotifyReady(k) \/ GetMembers(k)
         \/ Serve(k) \/ OpenCloseEngine(k) \/ Match \/ RouteMatched \/ UpdateDown(k)
  PROVE  WillBeTold(n, s, a)'
<1>1. UNCHANGED incarnation
  BY DEF Publish, Register, AddObserver, NotifyReady, GetMembers, Serve, OpenCloseEngine,
     Match, RouteMatched, UpdateDown, cluster
<1>2. n # ResultHost /\ ResultHost \in Node BY HomeAssumption DEF ResultLives
<1>3. CASE AddObserver(k) /\ k = n
  <2>1. ~observing[n] /\ events[n] = <<>>
    BY <1>3 DEF AddObserver, Phases
  <2>2. pc'[n] = "notify" /\ events'[n] = <<>>
    BY <2>1, <1>3 DEF AddObserver, TypeInv, NodesTyped
  <2>3. NoneIn(<<>>, EventsOf(ResultHost)) BY NoneInEmpty
  <2> QED BY <2>2, <2>3 DEF WillBeTold, ToldOnItsWay
<1>4. CASE NotifyReady(k) /\ k = ResultHost
  <2>1. observing[n] BY <1>4 DEF NotifyReady
  <2>2. PICK e \in EventsOf(k) : e \in UpOf(k) /\ events'[n] = Append(events[n], e)
    BY <2>1, <1>2, <1>4, NotifyEvents
  <2>3. LastIn(events'[n], UpOf(ResultHost), EventsOf(ResultHost))
    BY <2>2, <1>2, <1>4, EventsAppended
  <2> QED BY <2>3 DEF WillBeTold
<1>5. CASE ~(AddObserver(k) /\ k = n) /\ ~(NotifyReady(k) /\ k = ResultHost)
  <2>1. observing[n]
    <3>1. CASE AddObserver(k)
      BY <3>1, <1>5 DEF AddObserver, TypeInv, NodesTyped
    <3>2. CASE ~AddObserver(k)
      BY <3>2 DEF Publish, Register, NotifyReady, GetMembers, Serve, OpenCloseEngine,
         Match, RouteMatched, UpdateDown, cluster
    <3> QED BY <3>1, <3>2
  <2>2. Announced(ResultHost)' => Announced(ResultHost)
    BY <1>2, <1>5 DEF Announced, Publish, Register, AddObserver, NotifyReady, GetMembers, Serve,
       OpenCloseEngine, Match, RouteMatched, UpdateDown, cluster, TypeInv, NodesTyped
  <2>3. ResultLives(n, s, a) BY <2>2, <1>1 DEF ResultLives, Actor
  <2>4. WillBeTold(n, s, a) BY <2>1, <2>3
  <2>5. Register(k) => k # n BY <2>1 DEF Register, Phases
  <2>6. ToldOnItsWay(n, s, a) => ToldOnItsWay(n, s, a)'
    BY <2>3, <2>5, MainGentle
  <2>7. CASE NotifyReady(k) /\ k # n
    <3>1. PICK e \in EventsOf(k) : events'[n] = Append(events[n], e)
      BY <2>1, <2>7, NotifyEvents
    <3> QED BY <3>1, <2>4, <2>6, <2>7, <1>5, ResultEvents
  <2>8. CASE UpdateDown(k) /\ k = n
    <3>1. /\ events[n] # <<>> /\ Head(events[n]).status = "down"
          /\ events' = [events EXCEPT ![n] = Tail(@)]
      BY <2>8 DEF UpdateDown
    <3>2. Head(events[n]) \notin UpOf(ResultHost) BY <3>1 DEF UpOf
    <3> QED BY <3>1, <3>2, <2>4, <2>6, ResultEventHandled
  <2>9. CASE ~(NotifyReady(k) /\ k # n) /\ ~(UpdateDown(k) /\ k = n)
    <3>1. events'[n] = events[n]
      <4>1. CASE NotifyReady(k) BY <4>1, <2>9, NotifyEvents
      <4>2. CASE ~NotifyReady(k)
        BY <4>2, <2>9 DEF Publish, Register, AddObserver, GetMembers, Serve, OpenCloseEngine,
           Match, RouteMatched, UpdateDown, cluster, TypeInv, NodesTyped
      <4> QED BY <4>1, <4>2
    <3> QED BY <3>1, <2>4, <2>6, ResultEvents
  <2> QED BY <2>7, <2>8, <2>9
<1> QED BY <1>3, <1>4, <1>5

\* The steps that begin to add another node.
LEMMA AskAdds ==
  ASSUME TypeInv, NEW n \in Node, NEW s, NEW a, ResultLives(n, s, a),
         NEW k \in Node, NEW u \in Thread, NEW j \in Node \ {k}, Ask(k, u, j),
         lookup[k][u] = None, UNCHANGED unconnected
  PROVE  /\ Gentle(n, s, a)
         /\ Adds(n, a) => Adds(n, a)'
         /\ k = n /\ j = ResultHost => Adds(n, a)'
<1>1. PICK l : /\ l = lookup'[k][u]
               /\ l = [actor |-> Actor(j), symbols |-> {},
                       state |-> IF pc[j] = "publish" THEN "failed" ELSE "asked"]
               /\ l \in Lookup(k)
               /\ \A i \in Node, v \in Thread : i # k \/ v # u => lookup'[i][v] = lookup[i][v]
  <2>1. NewCall(k, u, j) BY AskFacts
  <2> QED BY <2>1 DEF NewCall
<1>2. l.actor = Actor(j) /\ l # None
  <2>1. l.actor = Actor(j) BY <1>1
  <2>2. l \in Lookup(k) BY <1>1
  <2> QED BY <2>1, <2>2, LookupIsSome
<1>3. Adds(n, a) => Adds(n, a)' BY <1>1 DEF Adds
<1>4. k = n /\ j = ResultHost => Adds(n, a)' BY <1>1, <1>2 DEF Adds, ResultLives
<1>5. Gentle(n, s, a)
  <2> HIDE DEF Ask
  <2> QED BY AskGentle
<1> QED BY <1>3, <1>4, <1>5

LEMMA AskResult ==
  ASSUME TypeInv,
         NEW n \in Node, NEW s, NEW a, ResultLives(n, s, a), WillBeTold(n, s, a),
         NEW k \in Node, AddMember(k) \/ UpdateUp(k)
  PROVE  WillBeTold(n, s, a)'
<1>1. "main" \in Thread /\ "observer" \in Thread BY DEF Thread
<1>2. UNCHANGED <<match_result_actor, pc, unconnected>> BY DEF AddMember, UpdateUp, failure
<1>3. CASE AddMember(k)
  <2>1. PICK j \in members[k] : members' = [members EXCEPT ![k] = @ \ {j}] /\ Ask(k, "main", j)
    BY <1>3 DEF AddMember
  <2>2. j \in Node \ {k} BY <2>1 DEF TypeInv, NodesTyped
  <2>3. lookup[k]["main"] = None /\ events' = events BY <1>3 DEF AddMember
  <2>4. /\ Gentle(n, s, a)
        /\ Adds(n, a) => Adds(n, a)'
        /\ k = n /\ j = ResultHost => Adds(n, a)'
    <3>1. Ask(k, "main", j) BY <2>1
    <3> HIDE DEF Ask
    <3> QED BY <3>1, <2>2, <2>3, <1>1, <1>2, AskAdds
  <2>5. ResultHost \in members[n] => ResultHost \in members'[n] \/ Adds(n, a)'
    <3>1. ResultHost \in members[n] => ResultHost \in members'[n] \/ (k = n /\ j = ResultHost)
      BY <2>1 DEF TypeInv, NodesTyped
    <3> QED BY <3>1, <2>4
  <2>6. ToldOnItsWay(n, s, a) => ToldOnItsWay(n, s, a)'
    BY <2>4, <2>5, <1>2, GentleWay
  <2> QED BY <2>3, <2>6, ResultEvents
<1>4. CASE UpdateUp(k)
  <2>1. PICK j \in Node \ {k} : j = Head(events[k]).node /\ Ask(k, "observer", j)
    BY <1>4, EventTaken DEF UpdateUp
  <2>2. /\ lookup[k]["observer"] = None /\ members' = members
        /\ events[k] # <<>> /\ events' = [events EXCEPT ![k] = Tail(@)]
    BY <1>4 DEF UpdateUp
  <2>3. /\ Gentle(n, s, a)
        /\ Adds(n, a) => Adds(n, a)'
        /\ k = n /\ j = ResultHost => Adds(n, a)'
    BY <2>1, <2>2, <1>1, <1>2, AskAdds
  <2>4. ToldOnItsWay(n, s, a) => ToldOnItsWay(n, s, a)'
    BY <2>2, <2>3, <1>2, GentleWay
  <2>5. CASE k # n
    <3>1. events'[n] = events[n] BY <2>2, <2>5, EventTaken
    <3> QED BY <3>1, <2>4, ResultEvents
  <2>6. CASE k = n
    <3>1. Head(events[n]) \in UpOf(ResultHost) => ToldOnItsWay(n, s, a)'
      <4>1. Head(events[n]) \in UpOf(ResultHost) => j = ResultHost BY <2>1, <2>6 DEF UpOf
      <4> QED BY <4>1, <2>3, <2>6 DEF ToldOnItsWay
    <3> QED BY <3>1, <2>2, <2>4, <2>6, ResultEventHandled
  <2> QED BY <2>5, <2>6
<1> QED BY <1>3, <1>4

LEMMA CallResult ==
  ASSUME TypeInv, StaleObserver, StaleMain,
         NEW n \in Node, NEW s, NEW a, ResultLives(n, s, a), WillBeTold(n, s, a),
         n \notin overtaken, NEW k \in Node, NEW t \in Thread,
         RequestFails(k, t) \/ AddSymbols(k, t) \/ Connect(k, t) \/ AddResultActor(k, t)
  PROVE  WillBeTold(n, s, a)'
<1>1. UNCHANGED <<events, match_result_actor, pc, members>>
  BY DEF RequestFails, AddSymbols, Connect, AddResultActor, routers, cluster
<1>2. ASSUME NoneIn(events[n], EventsOf(ResultHost)), ToldOnItsWay(n, s, a)
      PROVE  ToldOnItsWay(n, s, a)'
  <2>1. Gentle(n, s, a) /\ (Adds(n, a) => Adds(n, a)' \/ Told(n, s, a)')
    BY <1>2, CallAdds
  <2> QED BY <2>1, <1>1, <1>2, GentleWay
<1> QED BY <1>1, <1>2, ResultEvents

LEMMA RouteResultComing ==
  ASSUME TypeInv, Phases, OwnSymbols,
         NEW n \in Node, NEW s, NEW a, observing[n], ResultLives(n, s, a), WillBeTold(n, s, a),
         NEW k \in Node,
         \/ RouteLocal(k) \/ RouteRemote(k) \/ RouteRemove(k) \/ RouteGet(k)
         \/ RouteResult(k) \/ RouteOrder(k)
  PROVE  WillBeTold(n, s, a)'
<1>1. UNCHANGED <<events, pc, members>>
  BY DEF RouteLocal, RouteRemote, RouteRemove, RouteGet, RouteResult, RouteOrder, cluster
<1>2. Registered(n) BY DEF Phases, Registered
<1>3. s \in LocalSymbols(n) BY DEF ResultLives
<1>4. Told(n, s, a) => Told(n, s, a)' BY <1>2, <1>3, RouteTold
<1>5. Adds(n, a) => Adds(n, a)'
  <2>1. CASE RouteGet(k) BY <2>1, AnswerAdds
  <2>2. CASE ~RouteGet(k)
    <3>1. UNCHANGED <<lookup, unconnected>>
      BY <2>2 DEF RouteLocal, RouteRemote, RouteRemove, RouteResult, RouteOrder, failure
    <3> QED BY <3>1 DEF Adds
  <2> QED BY <2>1, <2>2
<1>6. ToldOnItsWay(n, s, a) => ToldOnItsWay(n, s, a)'
  BY <1>1, <1>4, <1>5 DEF ToldOnItsWay
<1> QED BY <1>1, <1>6, ResultEvents

LEMMA RestartResult ==
  ASSUME TypeInv, ResultComing,
         NEW n \in Node, NEW s, NEW a,
         n \notin overtaken', observing'[n], ResultLives(n, s, a)',
         NEW k \in Node, Restart(k)
  PROVE  WillBeTold(n, s, a)'
<1>1. n # k BY DEF Restart, TypeInv, NodesTyped
<1>2. ResultHost # k
  BY HomeAssumption DEF Restart, TypeInv, NodesTyped, ResultLives, Announced
<1>3. \A i \in Node \ {k} :
         /\ inbox'[i] = inbox[i] /\ lookup'[i] = lookup[i] /\ pc'[i] = pc[i]
         /\ incarnation'[i] = incarnation[i] /\ observing'[i] = observing[i]
         /\ members'[i] = members[i]
  BY DEF Restart, TypeInv, NodesTyped, RoutersTyped
<1>4. ResultLives(n, s, a)
  BY <1>2, <1>3, HomeAssumption DEF ResultLives, Announced, Actor
<1>5. n \notin overtaken BY <1>1 DEF Restart
<1>6. WillBeTold(n, s, a) BY <1>1, <1>3, <1>4, <1>5 DEF ResultComing
<1>7. match_result_actor'[s] = match_result_actor[s]
  <2>1. s \in Symbol /\ Home[s] # k BY <1>1, <1>4 DEF ResultLives, LocalSymbols
  <2> QED BY <2>1 DEF Restart
<1>8. ToldOnItsWay(n, s, a) => ToldOnItsWay(n, s, a)'
  <2>1. Gentle(n, s, a) BY <1>1, <1>3 DEF Gentle
  <2>2. Adds(n, a) => Adds(n, a)' BY <1>1, <1>2, <1>3 DEF Adds, Restart
  <2> QED BY <2>1, <2>2, <1>1, <1>3, <1>7, GentleWay
<1>9. PICK e \in EventsOf(k) : events'[n] = Append(events[n], e)
  BY <1>1, <1>3, RestartEvents
<1> QED BY <1>1, <1>2, <1>6, <1>8, <1>9, ResultEvents

LEMMA StepResult ==
  ASSUME TypeInv, Phases, OwnSymbols, StaleObserver, StaleMain, ResultComing, [Next]_vars
  PROVE  ResultComing'
<1> SUFFICES ASSUME NEW n \in Node, NEW s, NEW a,
                    n \notin overtaken', observing'[n], ResultLives(n, s, a)'
             PROVE  WillBeTold(n, s, a)'
  BY DEF ResultComing
<1>1. ASSUME UNCHANGED <<incarnation, pc, observing, overtaken>>
      PROVE  /\ n \notin overtaken /\ observing[n]
             /\ ResultLives(n, s, a) /\ WillBeTold(n, s, a)
  <2>1. ResultLives(n, s, a) BY <1>1 DEF ResultLives, Announced, Actor
  <2> QED BY <2>1, <1>1 DEF ResultComing
<1>2. CASE Next
  <2>1. ASSUME NEW k \in Node,
               \/ Publish(k) \/ Register(k) \/ AddObserver(k) \/ NotifyReady(k) \/ GetMembers(k)
               \/ Serve(k) \/ OpenCloseEngine(k) \/ Match \/ RouteMatched \/ UpdateDown(k)
        PROVE  WillBeTold(n, s, a)'
    <3>1. n \notin overtaken
      BY <2>1 DEF Publish, Register, AddObserver, NotifyReady, GetMembers, Serve,
         OpenCloseEngine, Match, RouteMatched, UpdateDown
    <3>2. observing[n] /\ ResultLives(n, s, a) => WillBeTold(n, s, a)
      BY <3>1 DEF ResultComing
    <3> QED BY <2>1, <3>2, MainResult
  <2>2. CASE Match \/ RouteMatched BY <2>1, <2>2, HomeAssumption
  <2>3. ASSUME NEW k \in Node, AddMember(k) \/ UpdateUp(k) PROVE WillBeTold(n, s, a)'
    <3>1. UNCHANGED <<incarnation, pc, observing, overtaken>>
      BY <2>3 DEF AddMember, UpdateUp
    <3> QED BY <3>1, <2>3, <1>1, AskResult
  <2>4. ASSUME NEW k \in Node,
               \/ RouteLocal(k) \/ RouteRemote(k) \/ RouteRemove(k) \/ RouteGet(k)
               \/ RouteResult(k) \/ RouteOrder(k)
        PROVE  WillBeTold(n, s, a)'
    <3>1. UNCHANGED <<incarnation, pc, observing, overtaken>>
      BY <2>4 DEF RouteLocal, RouteRemote, RouteRemove, RouteGet, RouteResult, RouteOrder,
         cluster
    <3> QED BY <3>1, <2>4, <1>1, RouteResultComing
  <2>5. ASSUME NEW k \in Node, NEW t \in Thread,
               RequestFails(k, t) \/ AddSymbols(k, t) \/ Connect(k, t) \/ AddResultActor(k, t)
        PROVE  WillBeTold(n, s, a)'
    <3>1. UNCHANGED <<incarnation, pc, observing, overtaken>>
      BY <2>5 DEF RequestFails, AddSymbols, Connect, AddResultActor, cluster
    <3> QED BY <3>1, <2>5, <1>1, CallResult
  <2>6. ASSUME NEW k \in Node, Restart(k) PROVE WillBeTold(n, s, a)'
    BY <2>6, RestartResult
  <2> QED BY <1>2, <2>1, <2>2, <2>3, <2>4, <2>5, <2>6, NextCases
<1>3. CASE UNCHANGED vars
  <2>1. UNCHANGED <<incarnation, pc, observing, overtaken, inbox, lookup, members, events,
                    match_result_actor, unconnected>>
    BY <1>3 DEF vars, routers, cluster, failure
  <2>2. Gentle(n, s, a) /\ (Adds(n, a) => Adds(n, a)') BY <2>1 DEF Gentle, Adds
  <2>3. ToldOnItsWay(n, s, a) => ToldOnItsWay(n, s, a)' BY <2>1, <2>2, GentleWay
  <2> QED BY <2>1, <2>3, <1>1, ResultEvents
<1> QED BY <1>2, <1>3

\* On the result host itself, caf_main sends the result actor right after the
\* match actors.
LEMMA StepOwnResult ==
  ASSUME TypeInv, Phases, OwnSymbols, OwnResult, [Next]_vars
  PROVE  OwnResult'
<1>1. PICK n \in Node : n = ResultHost BY HomeAssumption
<1> SUFFICES ASSUME NEW s \in LocalSymbols(n), NEW a, Registered(n)', a = Actor(n)'
             PROVE  Told(n, s, a)'
  BY <1>1 DEF OwnResult
<1>2. ASSUME UNCHANGED incarnation, Registered(n) PROVE Told(n, s, a)
  <2>1. a = Actor(n) BY <1>2 DEF Actor
  <2> QED BY <2>1, <1>1, <1>2 DEF OwnResult
<1>3. ASSUME Gentle(n, s, a), UNCHANGED <<incarnation, match_result_actor>>, Registered(n)
      PROVE  Told(n, s, a)'
  BY <1>2, <1>3, GentleTold
<1>4. CASE Next
  <2>1. ASSUME NEW k \in Node,
               \/ Publish(k) \/ (Register(k) /\ k # n) \/ AddObserver(k) \/ NotifyReady(k)
               \/ GetMembers(k) \/ Serve(k) \/ OpenCloseEngine(k) \/ Match \/ RouteMatched
               \/ UpdateDown(k)
        PROVE  Told(n, s, a)'
    <3>1. UNCHANGED <<incarnation, match_result_actor>>
      BY <2>1 DEF Publish, Register, AddObserver, NotifyReady, GetMembers, Serve,
         OpenCloseEngine, Match, RouteMatched, UpdateDown, routers, cluster
    <3>2. Registered(n)
      BY <2>1 DEF Registered, Publish, Register, AddObserver, NotifyReady, GetMembers, Serve,
         OpenCloseEngine, Match, RouteMatched, UpdateDown, cluster, TypeInv, NodesTyped
    <3>3. "main" \in Thread BY DEF Thread
    <3>4. Gentle(n, s, a) BY <2>1, <3>3, StepsGentle
    <3> QED BY <3>1, <3>2, <3>4, <1>3
  <2>2. CASE Match \/ RouteMatched BY <2>1, <2>2
  <2>3. CASE Register(n)
    <3>1. PICK r \in Seq(Message(n)) :
             /\ inbox'[n] = inbox[n] \o r
             /\ \A i \in Node \ {n} : inbox'[i] = inbox[i]
             /\ \A b, t : NoneIn(r, GetOf(b, t))
             /\ \A c, b : NoneIn(r, Erases(c, b))
             /\ \A c \in LocalSymbols(n) : ~NoneIn(r, LocalOf(c))
             /\ n = ResultHost => \A b : b = Actor(n) =>
                  \A c : LastIn(r, ResultOf(b), LocalOf(c) \cup Renames(b))
      BY <2>3, RegisterSends
    <3>2. a = Actor(n) BY <2>3 DEF Register, Actor
    <3>3. LastIn(r, ResultOf(a), LocalOf(s) \cup Renames(a)) BY <3>1, <3>2, <1>1
    <3>4. inbox[n] \in Seq(Message(n)) BY DEF TypeInv, RoutersTyped
    <3>5. LastIn(inbox[n] \o r, ResultOf(a), LocalOf(s) \cup Renames(a))
      BY <3>3, <3>4, LastInAppended
    <3> QED BY <3>1, <3>5 DEF Told
  <2>4. ASSUME NEW k \in Node, AddMember(k) \/ UpdateUp(k) PROVE Told(n, s, a)'
    <3>1. UNCHANGED <<incarnation, match_result_actor, pc>> BY <2>4 DEF AddMember, UpdateUp
    <3>2. Registered(n) BY <3>1 DEF Registered
    <3>3. Gentle(n, s, a)
      <4>1. CASE AddMember(k)
        <5>1. PICK j \in Node \ {k} : Ask(k, "main", j)
          BY <4>1 DEF AddMember, TypeInv, NodesTyped
        <5>2. "main" \in Thread BY DEF Thread
        <5> HIDE DEF Ask
        <5> QED BY <5>1, <5>2, AskGentle
      <4>2. CASE UpdateUp(k)
        <5>1. PICK j \in Node \ {k} : Ask(k, "observer", j)
          BY <4>2, EventTaken DEF UpdateUp
        <5>2. "observer" \in Thread BY DEF Thread
        <5> QED BY <5>1, <5>2, AskGentle
      <4> QED BY <2>4, <4>1, <4>2
    <3> QED BY <3>1, <3>2, <3>3, <1>3
  <2>5. ASSUME NEW k \in Node,
               \/ RouteLocal(k) \/ RouteRemote(k) \/ RouteRemove(k) \/ RouteGet(k)
               \/ RouteResult(k) \/ RouteOrder(k)
        PROVE  Told(n, s, a)'
    <3>1. UNCHANGED <<incarnation, pc>>
      BY <2>5 DEF RouteLocal, RouteRemote, RouteRemove, RouteGet, RouteResult, RouteOrder,
         cluster
    <3>2. Registered(n) BY <3>1 DEF Registered
    <3> QED BY <3>1, <3>2, <2>5, <1>2, RouteTold
  <2>6. ASSUME NEW k \in Node, NEW t \in Thread,
               RequestFails(k, t) \/ AddSymbols(k, t) \/ Connect(k, t) \/ AddResultActor(k, t)
        PROVE  Told(n, s, a)'
    <3>1. UNCHANGED <<incarnation, match_result_actor, pc>>
      BY <2>6 DEF RequestFails, AddSymbols, Connect, AddResultActor, routers, cluster
    <3>2. Registered(n) BY <3>1 DEF Registered
    <3>3. AddResultActor(k, t) => k # n
      <4> SUFFICES ASSUME AddResultActor(k, t), k = n PROVE FALSE OBVIOUS
      <4>1. PICK l : l = lookup[k][t] OBVIOUS
      <4>2. l # None /\ l.state = "connected" BY <4>1 DEF AddResultActor
      <4>3. l.actor.node = ResultHost /\ l.actor.node \in Node \ {k}
        BY <4>1, <4>2, CallTyped
      <4> QED BY <4>3, <1>1
    <3>4. Gentle(n, s, a) BY <2>6, <3>3, StepsGentle
    <3> QED BY <3>1, <3>2, <3>4, <1>3
  <2>7. ASSUME NEW k \in Node, Restart(k) PROVE Told(n, s, a)'
    <3>1. n # k BY <2>7 DEF Restart, Registered, TypeInv, NodesTyped
    <3>2. inbox'[n] = inbox[n] /\ incarnation'[n] = incarnation[n] /\ pc'[n] = pc[n]
      BY <2>7, <3>1 DEF Restart, TypeInv, NodesTyped, RoutersTyped
    <3>3. match_result_actor'[s] = match_result_actor[s]
      <4>1. s \in Symbol /\ Home[s] # k BY <3>1 DEF LocalSymbols
      <4> QED BY <4>1, <2>7 DEF Restart
    <3>4. a = Actor(n) /\ Registered(n) BY <3>2 DEF Actor, Registered
    <3>5. Told(n, s, a) BY <3>4, <1>1 DEF OwnResult
    <3>6. Gentle(n, s, a) BY <3>2 DEF Gentle
    <3> QED BY <3>3, <3>5, <3>6, GentleTold
  <2>8. \A k \in Node : Register(k) => Told(n, s, a)' BY <2>1, <2>3
  <2> QED BY <1>4, <2>1, <2>2, <2>4, <2>5, <2>6, <2>7, <2>8, NextCases
<1>5. CASE UNCHANGED vars
  <2>1. UNCHANGED <<incarnation, pc, inbox, match_result_actor>>
    BY <1>5 DEF vars, routers, cluster
  <2>2. Gentle(n, s, a) /\ Registered(n) BY <2>1 DEF Gentle, Registered
  <2> QED BY <2>1, <2>2, <1>3
<1> QED BY <1>4, <1>5

\* The inductive invariant of the match actors.
ResultInv == ComingInv /\ ResultComing /\ OwnResult

LEMMA InitResult == Init => ResultInv
<1> SUFFICES ASSUME Init PROVE ResultInv OBVIOUS
<1>1. \A n \in Node : pc[n] = "publish" /\ observing[n] = FALSE BY DEF Init
<1>2. ResultComing BY <1>1 DEF ResultComing
<1>3. OwnResult BY <1>1, HomeAssumption DEF OwnResult, Registered
<1> QED BY <1>2, <1>3, InitComing DEF ResultInv

LEMMA ResultStep == ResultInv /\ [Next]_vars => ResultInv'
<1> SUFFICES ASSUME ResultInv, [Next]_vars PROVE ResultInv' OBVIOUS
<1>1. ComingInv' BY ComingStep DEF ResultInv
<1>2. TypeInv /\ Phases /\ OwnSymbols /\ StaleObserver /\ StaleMain
  BY DEF ResultInv, ComingInv
<1>3. ResultComing' BY <1>2, StepResult DEF ResultInv
<1>4. OwnResult' BY <1>2, StepOwnResult DEF ResultInv
<1> QED BY <1>1, <1>3, <1>4 DEF ResultInv

LEMMA ResultIsKnown == ResultInv => ResultActorKnown
<1> SUFFICES ASSUME ResultInv, Settled, NEW s \in Symbol,
                    Home[s] \notin overtaken \cup unconnected
             PROVE  match_result_actor[s] = Actor(ResultHost)
  BY DEF ResultActorKnown
<1>1. PICK n \in Node : n = Home[s] BY HomeAssumption
<1>2. PICK a : a = Actor(ResultHost) OBVIOUS
<1>3. /\ \A i \in Node : pc[i] = "serve" /\ inbox[i] = <<>> /\ events[i] = <<>>
      /\ \A i \in Node, t \in Thread : lookup[i][t] = None
      /\ members[n] = {} /\ observing[n]
  BY DEF Settled, ResultInv, ComingInv, Phases
<1>4. s \in LocalSymbols(n) BY <1>1 DEF LocalSymbols
<1>5. Told(n, s, a)
  <2>1. CASE n = ResultHost
    BY <2>1, <1>2, <1>3, <1>4 DEF ResultInv, OwnResult, Registered
  <2>2. CASE n # ResultHost
    <3>1. ResultLives(n, s, a)
      BY <2>2, <1>2, <1>3, <1>4, HomeAssumption DEF ResultLives, Announced
    <3>2. WillBeTold(n, s, a) BY <3>1, <1>1, <1>3 DEF ResultInv, ResultComing
    <3>3. ToldOnItsWay(n, s, a) BY <3>2, <1>3, NotLastInEmpty DEF WillBeTold
    <3> QED BY <3>3, <1>1, <1>3 DEF ToldOnItsWay, Adds
  <2> QED BY <2>1, <2>2
<1> QED BY <1>2, <1>3, <1>5, NotLastInEmpty DEF Told

\* When all has settled, every match actor knows the living result actor
\* (ResultActorKnown), unless the last lookup of it has failed on its node, or
\* the node was overtaken: no trade is dropped for want of a receiver, however
\* many nodes there are, in whatever order they start, fail and start again,
\* and whichever requests for symbols, and earlier lookups, have failed.
THEOREM EveryTradeHasAReceiver == Spec => []ResultActorKnown
<1>1. ResultInv => ResultActorKnown BY ResultIsKnown
<1> QED BY <1>1, InitResult, ResultStep, PTL DEF Spec
=============================================================================
