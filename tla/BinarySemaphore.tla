-------------------------- MODULE BinarySemaphore --------------------------
(* What cppext::semaphore promises: a flag that unlock() raises and that       *)
(* exactly one taker lowers, where takers either try or block.  FutureQueue    *)
(* uses its semaphores this way, as one atomic flag per slot.                  *)
CONSTANT Threads

VARIABLES
    ready,      \* is_ready()
    blocked     \* the threads inside wait_and_reset()

vars == <<ready, blocked>>

Init == ready = FALSE /\ blocked = {}

Unlock == ~ready /\ ready' = TRUE /\ UNCHANGED blocked

Take(t) == t \notin blocked /\ ready /\ ready' = FALSE /\ UNCHANGED blocked

Block(t) == t \notin blocked /\ ~ready /\ blocked' = blocked \cup {t} /\ UNCHANGED ready

Unblock(t) == t \in blocked /\ ready /\ ready' = FALSE /\ blocked' = blocked \ {t}

Next == Unlock \/ \E t \in Threads : Take(t) \/ Block(t) \/ Unblock(t)

Safe == Init /\ [][Next]_vars

(* A semaphore that stays ready lets a blocked thread go.                      *)
Spec == Safe /\ WF_vars(\E t \in Threads : Unblock(t))
=============================================================================
