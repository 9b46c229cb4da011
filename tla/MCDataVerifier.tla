-------------------------- MODULE MCDataVerifier ---------------------------
(***************************************************************************)
(* DataVerifier with four trades: two of one symbol, one of another, and   *)
(* one that differs from the first in its orders only.                     *)
(***************************************************************************)
EXTENDS DataVerifier

FourTrades ==
  {[symbol |-> 1, key |-> "k", orders |-> 1], [symbol |-> 1, key |-> "l", orders |-> 1],
   [symbol |-> 2, key |-> "k", orders |-> 1], [symbol |-> 1, key |-> "k", orders |-> 2]}
=============================================================================
