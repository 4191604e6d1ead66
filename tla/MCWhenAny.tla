------------------------------ MODULE MCWhenAny ------------------------------
(* Two queues of length 1 and 2.  For when_any() one producer fills both,      *)
(* another the longer; for when_all() each has its own.                        *)
EXTENDS WhenAny, TLC

CONSTANTS p1, p2

MCQueues      == 0 .. 1
MCLength      == 0 :> 1 @@ 1 :> 2
Each(s1, s2)  == p1 :> s1 @@ p2 :> s2
MCTargets     == [any |-> Each({0, 1}, {1}), all |-> Each({0}, {1}), then |-> Each({0}, {1})]
MCOverwriters == [any |-> {p2}, all |-> {}, then |-> {}]
MCMaxPushes   == [any |-> Each(2, 3), all |-> Each(2, 3), then |-> Each(1, 2)]
=============================================================================
