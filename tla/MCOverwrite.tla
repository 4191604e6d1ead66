---------------------------- MODULE MCOverwrite ----------------------------
(* Two producers, one overwriting values and one overwriting exceptions.      *)
EXTENDS FutureQueue, TLC

CONSTANTS p1, p2

MCCalls    == p1 :> {"push_overwrite"} @@ p2 :> {"push_overwrite_exception"}
MCMaxCalls == p1 :> 3 @@ p2 :> 1
=============================================================================
