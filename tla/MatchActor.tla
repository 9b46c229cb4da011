----------------------------- MODULE MatchActor -----------------------------
(***************************************************************************)
(* The actor that keeps the order book of one symbol and matches the       *)
(* orders the router sends it (match_engine/src/match_actor.cc).  CAF runs *)
(* one message handler of an actor at a time; the handler of a RawOrder is *)
(* split here into the steps of its loops, so that what each trade does is *)
(* a step of its own.  MakeTrade always empties one of the two orders, so  *)
(* the loops of MatchOrderFromTable and MatchOrderFromList only ever look  *)
(* at the first order of the first level: the iterators are not modelled.  *)
(***************************************************************************)
EXTENDS LimitOrders, Sequences, SequencesExt

CONSTANT MaxOrders   \* bound on the orders received

ASSUME MaxOrdersAssumption == MaxOrders \in Nat

VARIABLES
  table,              \* sell_list and buy_list: per side a list of price
                      \* levels, each the list of the orders at one price
  phase,              \* where the handler is; "idle" between two messages
  taker,              \* the order the handler works on
  trade_list,         \* the trades made by this run of the handler
  match_result_actor, \* TRUE once the receiver of trades is known
  outbox,             \* the trades sent to match_result_actor
  received,           \* history: the orders as they arrived
  filled,             \* history: how much of each order has been traded
  trades,             \* history: all trades made
  unheard             \* history: the trades that had been made when the
                      \* receiver became known

ghosts == <<received, filled, trades, unheard>>
vars   == <<table, phase, taker, trade_list, match_result_actor, outbox, ghosts>>

-----------------------------------------------------------------------------
MakerTable == table[Opposite(taker.side)]

\* The first order of the first level of the other side.
FrontMaker == Head(Head(MakerTable))

\* MatchOrderFromList returns false as soon as the taker is used up, which
\* it only looks at after a trade; the loops end with the table.
CanMatch ==
  /\ MakerTable # <<>>
  /\ Crosses(taker, FrontMaker)
  /\ taker.amount # 0 \/ trade_list = <<>>

\* Mutant of WithoutFront: a level that has become empty stays.
WithoutFrontOrder(t) == [t EXCEPT ![1] = Tail(@)]

\* A table once its first order is used up, or n of it is traded.  An order
\* at zero is erased from its level, and then an empty level from the table.
WithoutFront(t) ==
  IF Len(Head(t)) = 1 THEN Tail(t) ELSE [t EXCEPT ![1] = Tail(@)]

\* Mutant of AfterTrade: the maker is erased whatever is left of it.
AlwaysErased(t, n) == WithoutFront(t)

AfterTrade(t, n) ==
  IF Head(Head(t)).amount = n
  THEN WithoutFront(t)
  ELSE [t EXCEPT ![1][1] = Remainder(@, n)]

\* Mutant of StopsAt: both tables are kept in the order of sell_list.
StopsAtHigher(level, order) == order.price <= Head(level).price

\* AddToOrderTable scans the levels from the best price on; it stops at the
\* level with the order's own price, and at the first worse one.
StopsAt(level, order) ==
  \/ order.price = Head(level).price
  \/ Better(order.side, order.price, Head(level).price)

IsPlace(t, order, k) ==
  /\ \A i \in 1 .. k - 1 : ~StopsAt(t[i], order)
  /\ k <= Len(t) => StopsAt(t[k], order)

\* Mutant of AddToOrderTable: the order goes to the front of its level.
AddInFront(t, order, k) ==
  IF k <= Len(t) /\ order.price = Head(t[k]).price
  THEN [t EXCEPT ![k] = <<order>> \o @]
  ELSE InsertAt(t, k, <<order>>)

\* The order joins the level at its place, or makes a level of its own there.
AddToOrderTable(t, order, k) ==
  IF k <= Len(t) /\ order.price = Head(t[k]).price
  THEN [t EXCEPT ![k] = Append(@, order)]
  ELSE InsertAt(t, k, <<order>>)

-----------------------------------------------------------------------------
Init ==
  /\ table = [s \in Side |-> <<>>]
  /\ phase = "idle"
  /\ taker = <<>>
  /\ trade_list = <<>>
  /\ match_result_actor = FALSE
  /\ outbox = <<>>
  /\ received = <<>>
  /\ filled = <<>>
  /\ trades = <<>>
  /\ unheard = <<>>

\* The handler of a RawOrder starts.
ReceiveOrder ==
  /\ phase = "idle"
  /\ Len(received) < MaxOrders
  /\ \E s \in Side, p \in Price, a \in Amount :
       LET order == [id |-> Len(received) + 1, side |-> s, price |-> p, amount |-> a]
       IN /\ taker' = order
          /\ received' = Append(received, order)
  /\ filled' = Append(filled, 0)
  /\ trade_list' = <<>>
  /\ phase' = "matching"
  /\ UNCHANGED <<table, match_result_actor, outbox, trades, unheard>>

\* MakeTrade with the front maker, which is erased when nothing is left.
TradeWithFront ==
  /\ phase = "matching"
  /\ CanMatch
  /\ LET m == FrontMaker
         n == TradeAmount(m, taker)
     IN /\ table' = [table EXCEPT ![Opposite(taker.side)] = AfterTrade(@, n)]
        /\ taker' = Remainder(taker, n)
        /\ trade_list' = Append(trade_list, MakeTrade(m, taker))
        /\ trades' = Append(trades, MakeTrade(m, taker))
        /\ filled' = [filled EXCEPT ![m.id] = @ + n, ![taker.id] = @ + n]
  /\ UNCHANGED <<phase, match_result_actor, outbox, received, unheard>>

\* The loops have ended; what remains of the order joins its own side.
RestRemainder ==
  /\ phase = "matching"
  /\ ~CanMatch
  /\ \/ taker.amount = 0 /\ UNCHANGED table
     \/ /\ taker.amount # 0
        /\ \E k \in 1 .. Len(table[taker.side]) + 1 :
             /\ IsPlace(table[taker.side], taker, k)
             /\ table' = [table EXCEPT ![taker.side] = AddToOrderTable(@, taker, k)]
  /\ phase' = "sending"
  /\ UNCHANGED <<taker, trade_list, match_result_actor, outbox, ghosts>>

\* Mutant of SendMatchResult: the first trades after the receiver has become
\* known are dropped like those before.
SendAfterFirst ==
  /\ phase = "sending"
  /\ outbox' = IF match_result_actor /\ trades # unheard \o trade_list
               THEN outbox \o trade_list ELSE outbox
  /\ phase' = "idle"
  /\ UNCHANGED <<table, taker, trade_list, match_result_actor, ghosts>>

\* Mutant of SendMatchResult: the handler waits for a receiver.
SendWhenKnown ==
  /\ phase = "sending"
  /\ trade_list # <<>> => match_result_actor
  /\ outbox' = outbox \o trade_list
  /\ phase' = "idle"
  /\ UNCHANGED <<table, taker, trade_list, match_result_actor, ghosts>>

\* Without a receiver the trades are dropped with a warning.  The reply is
\* only logged, and the handler does not wait for it.
SendMatchResult ==
  /\ phase = "sending"
  /\ outbox' = IF match_result_actor THEN outbox \o trade_list ELSE outbox
  /\ phase' = "idle"
  /\ UNCHANGED <<table, taker, trade_list, match_result_actor, ghosts>>

\* The handler of the message that names the receiver of trades.
SetResultActor ==
  /\ phase = "idle"
  /\ match_result_actor' = TRUE
  /\ unheard' = IF match_result_actor THEN unheard ELSE trades
  /\ UNCHANGED <<table, phase, taker, trade_list, outbox, received, filled, trades>>

Handle == TradeWithFront \/ RestRemainder \/ SendMatchResult

Next == ReceiveOrder \/ Handle \/ SetResultActor

\* The actor runs the handler it has started to its end; nothing obliges an
\* order or a receiver to arrive.
Spec == Init /\ [][Next]_vars /\ WF_vars(Handle)

-----------------------------------------------------------------------------
Phase == {"idle", "matching", "sending"}

\* The types of the variables.
TypeOK ==
  /\ table \in [Side -> Seq(Seq(Order))]
  /\ phase \in Phase
  /\ taker \in Order \/ (taker = <<>> /\ received = <<>> /\ phase = "idle")
  /\ trade_list \in Seq(Trade)
  /\ match_result_actor \in BOOLEAN
  /\ outbox \in Seq(Trade)
  /\ received \in Seq(Order)
  /\ filled \in Seq(Nat)
  /\ trades \in Seq(Trade)
  /\ unheard \in Seq(Trade)

\* Every level of the book holds at least one order, all of them at one
\* price and of the table's side, none of them used up.  MatchOrderFromList
\* and AddToOrderTable read order_list.begin()->price, which an empty level
\* would make undefined.
LevelsWellFormed ==
  \A s \in Side : \A i \in DOMAIN table[s] :
    /\ table[s][i] # <<>>
    /\ \A j \in DOMAIN table[s][i] :
         /\ table[s][i][j].side = s
         /\ table[s][i][j].price = table[s][i][1].price
         /\ table[s][i][j].amount > 0

\* The levels go from the best price to the worst, each price once: the scan
\* of MatchOrderFromTable may stop at the first level that does not cross.
BestPriceFirst ==
  \A s \in Side : \A i, j \in DOMAIN table[s] :
    i < j => Better(s, table[s][i][1].price, table[s][j][1].price)

\* Inside a level, orders stand in the order of their arrival.
EarliestFirst ==
  \A s \in Side : \A k \in DOMAIN table[s] :
    \A i, j \in DOMAIN table[s][k] :
      i < j => table[s][k][i].id < table[s][k][j].id

\* No two resting orders could trade with each other: the best bid stays
\* below the best ask, during the matching of an order and after it.
NotCrossed ==
  \A b \in DOMAIN table["buy"], a \in DOMAIN table["sell"] :
    table["buy"][b][1].price < table["sell"][a][1].price

Resting == UNION {UNION {{table[s][i][j] : j \in DOMAIN table[s][i]} : i \in DOMAIN table[s]} : s \in Side}

\* The orders that still wait for a trade: the resting ones and the taker.
Open == Resting \cup (IF phase = "matching" THEN {taker} ELSE {})

\* Nothing is lost or created: what is left of an open order and what it has
\* traded add up to the amount it arrived with, and an order that is no
\* longer open has traded all of it.
AmountsConserved ==
  /\ \A o \in Open : /\ o.id \in DOMAIN received
                     /\ o = Remainder(received[o.id], filled[o.id])
                     /\ filled[o.id] <= received[o.id].amount
  /\ \A i \in DOMAIN received :
       (\A o \in Open : o.id # i) => filled[i] = received[i].amount

\* An order that has traded a part of its amount stands first in its level:
\* no order is overtaken once it has begun to trade.
PartlyFilledLeads ==
  \A s \in Side : \A k \in DOMAIN table[s] :
    \A j \in DOMAIN table[s][k] :
      filled[table[s][k][j].id] > 0 => j = 1

\* Every trade respects the limits of both orders, taken as they arrived,
\* and its maker arrived before its taker.
TradesWithinLimits ==
  \A i \in DOMAIN trades :
    LET t == trades[i]
    IN /\ t.maker < t.taker /\ t.taker \in DOMAIN received
       /\ received[t.maker].side # received[t.taker].side
       /\ t.price = received[t.maker].price
       /\ Crosses(received[t.taker], received[t.maker])

\* Nothing is sent before the receiver is known, and from that moment on no
\* trade is lost, repeated or reordered on the way out: the trades made since
\* are exactly the ones sent, followed by those of the handler under way.
ReportedInOrder ==
  IF match_result_actor
  THEN trades = unheard \o outbox \o (IF phase = "idle" THEN <<>> ELSE trade_list)
  ELSE outbox = <<>>

\* The book, seen as the set of its orders, trades by price and then by
\* time: the engine implements its abstract specification.
Priority == INSTANCE PriceTimePriority
  WITH resting  <- Resting,
       matching <- phase = "matching",
       received <- Len(received)

TradesByPriority == Priority!Spec

\* The handler of every order comes to an end.
HandlerEnds == phase # "idle" ~> phase = "idle"
=============================================================================
