-------------------------- MODULE SemaphoreProofs --------------------------
(* The fallback semaphore loses no wake-up and behaves as a binary semaphore,  *)
(* for any set of threads.                                                     *)
EXTENDS Semaphore, TLAPS

Inv == TypeOK /\ NoLostWakeup

LEMMA Inductive == Spec => []Inv
<1>1. Init => Inv
  BY DEF Init, Inv, TypeOK, NoLostWakeup
<1>2. Inv /\ [Next]_vars => Inv'
  <2> SUFFICES ASSUME Inv, [Next]_vars PROVE Inv'
    OBVIOUS
  <2> USE DEF Inv, TypeOK, NoLostWakeup, Asleep, Awake
  <2>1. CASE unlock
    <3>1. _count' = 0
      BY <2>1 DEF unlock
    <3>2. pc' \in NotifyOne
      BY <2>1, <3>1 DEF unlock
    <3>3. CASE Asleep = {}
      BY <3>1, <3>2, <3>3 DEF NotifyOne
    <3>4. CASE Asleep # {}
      <4>1. PICK t \in Asleep : pc' = [pc EXCEPT ![t] = "awake"]
        BY <3>2, <3>4 DEF NotifyOne
      <4>2. t \in Threads /\ pc'[t] = "awake"
        BY <4>1
      <4> QED BY <3>1, <4>1, <4>2
    <3> QED BY <3>3, <3>4
  <2>2. ASSUME NEW t \in Threads, WakeSpuriously(t) PROVE Inv'
    BY <2>2 DEF WakeSpuriously
  <2>3. ASSUME NEW t \in Threads, Sleep(t) PROVE Inv'
    BY <2>3 DEF Sleep, Ready
  <2>4. ASSUME NEW t \in Threads, Reset(t) PROVE Inv'
    BY <2>4 DEF Reset
  <2>5. ASSUME NEW t \in Threads, is_ready_and_reset(t) PROVE Inv'
    BY <2>5 DEF is_ready_and_reset
  <2>6. CASE UNCHANGED vars
    BY <2>6 DEF vars
  <2> QED BY <2>1, <2>2, <2>3, <2>4, <2>5, <2>6 DEF Next
<1> QED BY <1>1, <1>2, PTL DEF Spec

(* A ready semaphore with sleepers has notified one of them, so no call of     *)
(* unlock() (semaphore.hpp) is lost on the waiting threads.                    *)
THEOREM WakeupsKept == Spec => []NoLostWakeup
BY Inductive, PTL DEF Inv

(* Every behaviour of the mutex and condition variable is one of the binary    *)
(* semaphore: one unlock(), one thread let through.                            *)
THEOREM BinarySafety == Spec => Binary!Safe
<1>1. Init => Binary!Init
  BY DEF Init, Binary!Init, Asleep, Awake
<1>2. Inv /\ [Next]_vars => [Binary!Next]_(Binary!vars)
  <2> SUFFICES ASSUME Inv, [Next]_vars PROVE [Binary!Next]_(Binary!vars)
    OBVIOUS
  <2> USE DEF Inv, TypeOK, Asleep, Awake
  <2>1. CASE unlock
    <3>1. _count = 1 /\ _count' = 0
      BY <2>1 DEF unlock
    <3>2. (Asleep \cup Awake)' = Asleep \cup Awake
      <4>1. pc' \in NotifyOne
        BY <2>1, <3>1 DEF unlock
      <4>2. CASE pc' = pc
        BY <4>2
      <4>3. CASE \E t \in Asleep : pc' = [pc EXCEPT ![t] = "awake"]
        BY <4>3
      <4> QED BY <4>1, <4>2, <4>3 DEF NotifyOne
    <3> QED BY <3>1, <3>2 DEF Binary!Next, Binary!Unlock
  <2>2. ASSUME NEW t \in Threads, WakeSpuriously(t) PROVE UNCHANGED Binary!vars
    BY <2>2 DEF WakeSpuriously, Binary!vars
  <2>3. ASSUME NEW t \in Threads, Sleep(t) PROVE [Binary!Block(t)]_(Binary!vars)
    <3>1. CASE pc[t] = "out"
      BY <2>3, <3>1 DEF Sleep, Ready, Binary!Block
    <3>2. CASE pc[t] = "awake"
      BY <2>3, <3>2 DEF Sleep, Ready, Binary!vars
    <3> QED BY <2>3, <3>1, <3>2 DEF Sleep
  <2>4. ASSUME NEW t \in Threads, Reset(t) PROVE Binary!Take(t) \/ Binary!Unblock(t)
    <3>1. CASE pc[t] = "out"
      BY <2>4, <3>1 DEF Reset, Ready, Binary!Take
    <3>2. CASE pc[t] = "awake"
      BY <2>4, <3>2 DEF Reset, Ready, Binary!Unblock
    <3> QED BY <2>4, <3>1, <3>2 DEF Reset
  <2>5. ASSUME NEW t \in Threads, is_ready_and_reset(t) PROVE Binary!Take(t)
    BY <2>5 DEF is_ready_and_reset, Binary!Take
  <2>6. CASE UNCHANGED vars
    BY <2>6 DEF vars, Binary!vars
  <2> QED BY <2>1, <2>2, <2>3, <2>4, <2>5, <2>6 DEF Next, Binary!Next
<1> QED BY Inductive, <1>1, <1>2, PTL DEF Spec, Binary!Safe
=============================================================================
