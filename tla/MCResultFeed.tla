---------------------------- MODULE MCResultFeed ----------------------------
(***************************************************************************)
(* ResultFeed with a few clients.                                          *)
(***************************************************************************)
EXTENDS ResultFeed
=============================================================================
