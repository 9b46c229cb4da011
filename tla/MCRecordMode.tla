---------------------------- MODULE MCRecordMode ----------------------------
(***************************************************************************)
(* RecordMode with a caller that records twice; and with a second caller   *)
(* whose call may come at any moment of a shorter run.                     *)
(***************************************************************************)
EXTENDS RecordMode, TLC

CONSTANTS c1, c2

OneAfterAnother ==
  [calls |-> c1 :> 4 @@ c2 :> 0, recorded |-> 2, rounds |-> 2]
AllAtOnce ==
  [calls |-> c1 :> 3 @@ c2 :> 1, recorded |-> 2, rounds |-> 1]

Both == {OneAfterAnother, AllAtOnce}
=============================================================================
