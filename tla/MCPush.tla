------------------------------- MODULE MCPush -------------------------------
(* Two producers using push() and push_exception(), one consumer.             *)
EXTENDS FutureQueue, TLC

CONSTANTS p1, p2

MCCalls    == p1 :> {"push"} @@ p2 :> {"push_exception"}
MCMaxCalls == p1 :> 3 @@ p2 :> 1
=============================================================================
