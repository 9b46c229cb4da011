------------------------- MODULE PriceTimePriority -------------------------
(***************************************************************************)
(* What the match engine promises for one symbol, without saying how the   *)
(* book is stored: the resting orders are a set, and an incoming order     *)
(* trades with the best resting order of the other side, "price priority   *)
(* and time priority" (document/CTE Develop Document.md:31), for as long   *)
(* as a price allows it; what is left of it then rests.  MatchActor        *)
(* implements this specification.                                          *)
(***************************************************************************)
EXTENDS LimitOrders, Sequences

CONSTANT MaxOrders   \* bound on the orders received

VARIABLES
  resting,    \* the resting orders, with what remains of each
  taker,      \* the order being matched, the last one received
  matching,   \* TRUE while taker is being matched
  received,   \* number of orders received
  trades      \* the trades made, oldest first

vars == <<resting, taker, matching, received, trades>>

-----------------------------------------------------------------------------
Init ==
  /\ resting = {}
  /\ taker = <<>>
  /\ matching = FALSE
  /\ received = 0
  /\ trades = <<>>

\* The engine turns to the next order.
Accept ==
  /\ ~matching
  /\ received < MaxOrders
  /\ \E s \in Side, p \in Price, a \in Amount :
       taker' = [id |-> received + 1, side |-> s, price |-> p, amount |-> a]
  /\ matching' = TRUE
  /\ received' = received + 1
  /\ UNCHANGED <<resting, trades>>

\* m has priority over every other order of its side: a better price, or
\* the same price and an earlier arrival.
HasPriority(m) ==
  \A o \in {r \in resting : r.side = m.side} \ {m} :
    \/ Better(m.side, m.price, o.price)
    \/ m.price = o.price /\ m.id < o.id

Eligible == {o \in resting : o.side = Opposite(taker.side) /\ Crosses(taker, o)}

\* taker trades with the resting order that has priority.
TradeWithBest ==
  /\ matching
  /\ \E m \in Eligible :
       LET n == TradeAmount(m, taker)
       IN /\ HasPriority(m)
          /\ trades' = Append(trades, MakeTrade(m, taker))
          /\ taker' = Remainder(taker, n)
          /\ resting' = (resting \ {m})
                        \cup (IF m.amount = n THEN {} ELSE {Remainder(m, n)})
  /\ UNCHANGED <<matching, received>>

\* taker is filled, or nobody can trade with it and its remainder rests.
Finish ==
  /\ matching
  /\ taker.amount = 0 \/ Eligible = {}
  /\ resting' = resting \cup (IF taker.amount = 0 THEN {} ELSE {taker})
  /\ matching' = FALSE
  /\ UNCHANGED <<taker, received, trades>>

Next == Accept \/ TradeWithBest \/ Finish

Spec == Init /\ [][Next]_vars
=============================================================================
