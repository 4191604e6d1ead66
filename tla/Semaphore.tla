----------------------------- MODULE Semaphore -----------------------------
(* cppext::semaphore, the pure C++ 11 implementation (semaphore.hpp): a        *)
(* counter, a mutex and a condition variable.  Every function runs under the   *)
(* mutex except while a thread sleeps in _condition.wait(), so the steps are   *)
(* the stretches between two sleeps.  is_ready() changes nothing.              *)
(* The client calls unlock() only while the semaphore is not ready, as its     *)
(* comment demands and as AssertionsHold of FutureQueue shows of the queue.    *)
EXTENDS Integers, FiniteSets

CONSTANT Threads    \* the threads that take the semaphore

ASSUME ThreadsAssumption == IsFiniteSet(Threads) /\ Threads # {}

VARIABLES
    _count,     \* 0 when ready
    pc          \* "out", "asleep" in _condition, "awake" and about to check

vars == <<_count, pc>>

Asleep == {t \in Threads : pc[t] = "asleep"}
Awake  == {t \in Threads : pc[t] = "awake"}

Init == _count = 1 /\ pc = [t \in Threads |-> "out"]

(* notify_one() wakes any one of the sleepers, if there is one.                *)
NotifyNobody == {pc}                                    \* mutant of NotifyOne
NotifyOne ==
    IF Asleep = {} THEN {pc} ELSE {[pc EXCEPT ![t] = "awake"] : t \in Asleep}

unlock ==
    /\ _count > 0
    /\ _count' = _count - 1
    /\ IF _count' = 0 THEN pc' \in NotifyOne ELSE UNCHANGED pc

(* A condition variable may wake a sleeper without notification.               *)
WakeSpuriously(t) ==
    /\ pc[t] = "asleep"
    /\ pc' = [pc EXCEPT ![t] = "awake"]
    /\ UNCHANGED _count

(* wait_and_reset(): check on entry and after every wake-up.                   *)
ReadyUnchecked(t) == pc[t] = "awake" \/ _count = 0      \* mutant of Ready
Ready(t) == _count = 0

Sleep(t) ==
    /\ pc[t] \in {"out", "awake"} /\ ~Ready(t)
    /\ pc' = [pc EXCEPT ![t] = "asleep"]
    /\ UNCHANGED _count

Reset(t) ==
    /\ pc[t] \in {"out", "awake"} /\ Ready(t)
    /\ pc' = [pc EXCEPT ![t] = "out"]
    /\ _count' = 1

(* A successful is_ready_and_reset().                                          *)
is_ready_and_reset(t) ==
    /\ pc[t] = "out" /\ _count = 0
    /\ _count' = 1
    /\ UNCHANGED pc

Next == \/ unlock
        \/ \E t \in Threads : WakeSpuriously(t) \/ Sleep(t) \/ Reset(t) \/ is_ready_and_reset(t)

Spec == Init /\ [][Next]_vars

(* The mutex and the scheduler let a woken thread check the counter; nothing   *)
(* is assumed about spurious wake-ups, and nobody is obliged to call.          *)
FairSpec ==
    /\ Spec
    /\ \A t \in Threads : WF_vars(pc[t] = "awake" /\ (Sleep(t) \/ Reset(t)))

-----------------------------------------------------------------------------
TypeOK == _count \in {0, 1} /\ pc \in [Threads -> {"out", "asleep", "awake"}]

(* A ready semaphore with sleepers has notified one of them: although the     *)
(* notification may go to a thread that finds the semaphore taken again, and  *)
(* although unlock() wakes only one thread, none is lost.                      *)
NoLostWakeup == _count = 0 /\ Asleep # {} => Awake # {}

(* The semaphore is a binary semaphore: each unlock() lets exactly one thread *)
(* through, and a blocked thread goes on when the semaphore stays ready.       *)
Binary == INSTANCE BinarySemaphore WITH
    ready <- _count = 0, blocked <- Asleep \cup Awake

ImplementsBinary == Binary!Spec
=============================================================================
