------------------------------ MODULE Barrier ------------------------------
(* cppext::barrier (barrier.hpp).  wait() runs under _mutex from its first to *)
(* its last line except while the thread sleeps in _condition.wait(), so the  *)
(* steps are the stretches between two sleeps.                                *)
EXTENDS Integers, FiniteSets

CONSTANTS
    Threads,    \* the threads sharing the barrier; _nThreads is their number
    MaxWaits    \* bound: how often each thread calls wait()

ASSUME ThreadsAssumption  == IsFiniteSet(Threads) /\ Threads # {}
ASSUME MaxWaitsAssumption == MaxWaits \in Nat \ {0}

VARIABLES
    _count, _barrierReached,
    pc,         \* "out", "asleep" in _condition, "awake" and about to check
    waits,      \* how many calls of wait() a thread has begun
    passed      \* how many calls of wait() a thread has finished

vars == <<_count, _barrierReached, pc, waits, passed>>

_nThreads == Cardinality(Threads)

Init ==
    /\ _count = _nThreads /\ _barrierReached = FALSE
    /\ pc = [t \in Threads |-> "out"]
    /\ waits = [t \in Threads |-> 0]
    /\ passed = [t \in Threads |-> 0]

Begin(t) == /\ pc[t] = "out" /\ waits[t] < MaxWaits
            /\ waits' = [waits EXCEPT ![t] = @ + 1]

(* --_count; an earlier thread goes to sleep ...                              *)
ArriveEarly(t) ==
    /\ Begin(t)
    /\ _count > 1
    /\ _count' = _count - 1
    /\ _barrierReached' = FALSE
    /\ pc' = [pc EXCEPT ![t] = "asleep"]
    /\ UNCHANGED passed

(* ... the last one wakes them all and does not sleep itself.                 *)
NotifyOne == {[u \in Threads |-> IF u = t THEN "awake" ELSE pc[u]] :    \* mutant of NotifyAll
                 t \in {u \in Threads : pc[u] = "asleep"}}
NotifyAll == {[u \in Threads |-> IF pc[u] = "asleep" THEN "awake" ELSE pc[u]]}

LastEarly == _count <= 2                                                \* mutant of Last
Last == _count = 1

ArriveLast(t) ==
    /\ Begin(t)
    /\ Last
    /\ _barrierReached' = TRUE
    /\ pc' \in NotifyAll
    /\ _count' = _nThreads
    /\ passed' = [passed EXCEPT ![t] = @ + 1]

(* A condition variable may wake a sleeper without notification.              *)
WakeSpuriously(t) ==
    /\ pc[t] = "asleep"
    /\ pc' = [pc EXCEPT ![t] = "awake"]
    /\ UNCHANGED <<_count, _barrierReached, waits, passed>>

Leave(t) ==
    /\ pc[t] = "awake" /\ _barrierReached
    /\ pc' = [pc EXCEPT ![t] = "out"]
    /\ passed' = [passed EXCEPT ![t] = @ + 1]
    /\ UNCHANGED <<_count, _barrierReached, waits>>

SleepAgain(t) ==
    /\ pc[t] = "awake" /\ ~_barrierReached
    /\ pc' = [pc EXCEPT ![t] = "asleep"]
    /\ UNCHANGED <<_count, _barrierReached, waits, passed>>

Next == \E t \in Threads :
          \/ ArriveEarly(t) \/ ArriveLast(t) \/ WakeSpuriously(t) \/ Leave(t) \/ SleepAgain(t)

Spec == Init /\ [][Next]_vars

(* Every thread comes to the barrier, and the scheduler and the mutex let a   *)
(* woken thread check the flag; nothing is assumed about spurious wakeups.    *)
FairSpec ==
    Spec /\ \A t \in Threads : /\ WF_vars(ArriveEarly(t) \/ ArriveLast(t))
                               /\ WF_vars(Leave(t) \/ SleepAgain(t))

-----------------------------------------------------------------------------
TypeOK ==
    /\ _count \in 1 .. _nThreads
    /\ _barrierReached \in BOOLEAN
    /\ pc \in [Threads -> {"out", "asleep", "awake"}]
    /\ waits \in [Threads -> 0 .. MaxWaits]
    /\ passed \in [Threads -> 0 .. MaxWaits]

(* Nobody leaves its n-th wait() before everybody has begun its n-th wait(),  *)
(* whether the threads come back to the barrier or not.                       *)
NobodyLeavesEarly == \A t, u \in Threads : passed[t] <= waits[u]

(* The barrier may be used again, but only by threads that wait until all     *)
(* have left: the first to come back clears the flag, and whoever has still   *)
(* to check it sleeps for good.                                               *)
BackInOrder == \A t, u \in Threads : waits[u] <= passed[t] + 1

(* No lost wake-up: with that, a thread sleeps in its n-th wait() only while  *)
(* somebody has not begun its n-th; otherwise nobody is left to notify it.    *)
SleepersAreAwaiting ==
    BackInOrder => \A t \in Threads : pc[t] = "asleep" => \E u \in Threads : waits[u] < waits[t]

(* Everybody leaves every wait() in the end, if they come back in order.      *)
EverybodyPasses == []BackInOrder => <>(\A t \in Threads : passed[t] = MaxWaits)
=============================================================================
