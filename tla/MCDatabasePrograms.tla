------------------------ MODULE MCDatabasePrograms ------------------------
(***************************************************************************)
(* DatabasePrograms with a buffer of a few entities, and an earlier run    *)
(* that left no orders or three.                                           *)
(***************************************************************************)
EXTENDS DatabasePrograms

AllOrSome    == {-1, 0, 2}
NoneOrThree  == {<<>>, <<3, 1, 3>>}
=============================================================================
