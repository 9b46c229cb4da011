---------------------------- MODULE LimitOrders ----------------------------
(***************************************************************************)
(* The data that orders and trades carry through the trading system, and   *)
(* the rules of one trade between a resting order (the maker) and an       *)
(* incoming one (the taker).  Symbol and user ids, time stamps and the     *)
(* wire formats are left out: no decision of the matching code reads them. *)
(***************************************************************************)
EXTENDS Integers

CONSTANTS
  Price,   \* the prices an order may carry
  Amount   \* the amounts an order may ask for

ASSUME PriceAssumption  == Price \subseteq Int
ASSUME AmountAssumption == Amount \subseteq Nat

Side == {"buy", "sell"}

Opposite(side) == IF side = "buy" THEN "sell" ELSE "buy"

\* A RawOrder.  Its id is its arrival number at the match actor; its amount
\* is what remains of it, which the matching code updates in place.
Order == [id: Nat \ {0}, side: Side, price: Price, amount: Nat]

\* A MatchedTrade; side is the taker's trading_side.
Trade == [maker: Nat \ {0}, taker: Nat \ {0}, side: Side, price: Price, amount: Nat]

\* Mutant of Crosses: orders at the very same price do not trade.
CrossesStrictly(taker, maker) ==
  IF taker.side = "sell" THEN taker.price < maker.price
                         ELSE taker.price > maker.price

\* The prices of the two orders allow a trade.
Crosses(taker, maker) ==
  IF taker.side = "sell" THEN taker.price <= maker.price
                         ELSE taker.price >= maker.price

\* Price p comes before price q among the resting orders of a side.
Better(side, p, q) == IF side = "buy" THEN p > q ELSE p < q

\* Mutant of TradeAmount: the maker is taken to be large enough.
TradeAmountOfTaker(maker, taker) == taker.amount

\* The smaller of the two amounts changes hands.
TradeAmount(maker, taker) ==
  IF maker.amount < taker.amount THEN maker.amount ELSE taker.amount

\* What remains of an order once n of it is traded.
Remainder(order, n) == [order EXCEPT !.amount = @ - n]

\* The trade is made at the maker's price.
MakeTrade(maker, taker) ==
  [maker |-> maker.id, taker |-> taker.id, side |-> taker.side,
   price |-> maker.price, amount |-> TradeAmount(maker, taker)]
=============================================================================
