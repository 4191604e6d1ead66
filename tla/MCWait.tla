------------------------------- MODULE MCWait -------------------------------
(* A consumer that blocks, a producer that pushes and one that overwrites.    *)
(* The latter first fills the queue, while nobody else moves; what follows    *)
(* starts from the full queue: the consumer takes elements and sleeps on the  *)
(* next one while it is locked for overwriting, put back or written again.    *)
EXTENDS FutureQueue, TLC

CONSTANTS p1, p2

MCCalls    == p1 :> {"push"} @@ p2 :> {"push_overwrite"}
MCMaxCalls == p1 :> 1 @@ p2 :> Length + 1

Filling == calls[p2] < Length \/ (calls[p2] = Length /\ pc[p2] # "idle")
Fill    == ProducerStep(p2) \/ \E f \in Calls[p2] : Call(p2, f)

FilledNext == (Filling /\ Fill) \/ (~Filling /\ Next)
FilledSpec == Init /\ [][FilledNext]_vars /\ Fairness
=============================================================================
