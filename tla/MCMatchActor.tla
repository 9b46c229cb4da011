---------------------------- MODULE MCMatchActor ----------------------------
(***************************************************************************)
(* MatchActor on small sets of prices and amounts.                         *)
(***************************************************************************)
EXTENDS MatchActor
=============================================================================
