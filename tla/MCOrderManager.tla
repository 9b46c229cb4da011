--------------------------- MODULE MCOrderManager ---------------------------
(***************************************************************************)
(* OrderManager with a few worker threads, which are interchangeable.      *)
(***************************************************************************)
EXTENDS OrderManager, TLC

WorkerSymmetry == Permutations(Worker)
=============================================================================
