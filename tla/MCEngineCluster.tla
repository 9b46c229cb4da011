-------------------------- MODULE MCEngineCluster --------------------------
(***************************************************************************)
(* EngineCluster with two nodes, the first of which is the result host,    *)
(* and a symbol on each or on the second one only.                         *)
(***************************************************************************)
EXTENDS EngineCluster, TLC

CONSTANTS n1, n2, s1, s2

HomeOfTwo == (s1 :> n1) @@ (s2 :> n2)
HomeOfOne == s2 :> n2
OneStub   == <<n1>>
TwoStubs  == <<n1, n2>>
=============================================================================
