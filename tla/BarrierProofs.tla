--------------------------- MODULE BarrierProofs ---------------------------
(* The barrier holds everybody back, in every round and for any number of      *)
(* threads.  Its state has no round number; the inductive invariant says that  *)
(* one exists: all threads have begun r or r + 1 waits, those that have begun  *)
(* r + 1 are in wait(), and _count counts the others.                          *)
EXTENDS Barrier, FiniteSetTheorems, TLAPS

ArrivedIn(r) == {t \in Threads : waits[t] = r + 1}

InRound(r) ==
    /\ \A t \in Threads : waits[t] \in {r, r + 1}
    /\ \A t \in ArrivedIn(r) : pc[t] # "out"
    /\ _count = _nThreads - Cardinality(ArrivedIn(r))
    /\ _barrierReached => ArrivedIn(r) = {}

Passes == \A t \in Threads : passed[t] = IF pc[t] = "out" THEN waits[t] ELSE waits[t] - 1

Inv == TypeOK /\ Passes /\ \E r \in Nat : InRound(r)

LEMMA ThreadsFinite == IsFiniteSet(Threads) /\ _nThreads \in Nat /\ _nThreads >= 1
<1>1. IsFiniteSet(Threads) /\ Cardinality(Threads) \in Nat
  BY ThreadsAssumption, FS_CardinalityType
<1>2. Cardinality(Threads) # 0
  BY ThreadsAssumption, FS_EmptySet
<1> QED BY <1>1, <1>2 DEF _nThreads

(* The number of threads that have arrived, when another one does.             *)
LEMMA OneMore ==
  ASSUME NEW r, NEW t \in Threads, t \notin ArrivedIn(r)
  PROVE  /\ Cardinality(ArrivedIn(r)) \in Nat
         /\ Cardinality(ArrivedIn(r) \cup {t}) = Cardinality(ArrivedIn(r)) + 1
         /\ Cardinality(ArrivedIn(r)) + 1 = _nThreads => ArrivedIn(r) \cup {t} = Threads
<1>1. ArrivedIn(r) \subseteq Threads
  BY DEF ArrivedIn
<1>2. IsFiniteSet(ArrivedIn(r))
  BY <1>1, ThreadsFinite, FS_Subset
<1>3. Cardinality(ArrivedIn(r)) \in Nat
  BY <1>2, FS_CardinalityType
<1>4. Cardinality(ArrivedIn(r) \cup {t}) = Cardinality(ArrivedIn(r)) + 1
  BY <1>2, FS_AddElement
<1>5. ASSUME Cardinality(ArrivedIn(r) \cup {t}) = Cardinality(Threads)
      PROVE  ArrivedIn(r) \cup {t} = Threads
  <2>1. ArrivedIn(r) \cup {t} \in SUBSET Threads
    BY <1>1
  <2> QED BY <2>1, <1>5, ThreadsFinite, FS_Subset
<1> QED BY <1>3, <1>4, <1>5 DEF _nThreads

LEMMA NobodyIn ==
  ASSUME NEW r
  PROVE  ArrivedIn(r) = {} => Cardinality(ArrivedIn(r)) = 0
BY FS_EmptySet

LEMMA InitInv == Init => Inv
<1> SUFFICES ASSUME Init PROVE Inv
  OBVIOUS
<1>1. ArrivedIn(0) = {}
  BY DEF Init, ArrivedIn
<1>2. InRound(0)
  BY <1>1, NobodyIn, ThreadsFinite DEF Init, InRound
<1>3. TypeOK
  <2>1. 0 \in 0 .. MaxWaits /\ _nThreads \in 1 .. _nThreads
    BY ThreadsFinite, MaxWaitsAssumption
  <2> QED BY <2>1 DEF Init, TypeOK
<1>4. Passes
  BY DEF Init, Passes
<1> QED BY <1>2, <1>3, <1>4 DEF Inv

LEMMA StepInv == Inv /\ [Next]_vars => Inv'
<1> SUFFICES ASSUME Inv, [Next]_vars PROVE Inv'
  OBVIOUS
<1>1. PICK r \in Nat : InRound(r)
  BY DEF Inv
<1> USE ThreadsFinite, MaxWaitsAssumption DEF Inv, TypeOK, Passes
<1>2. ASSUME NEW t \in Threads, ArriveEarly(t) PROVE Inv'
  <2>1. pc[t] = "out" /\ t \notin ArrivedIn(r) /\ waits[t] = r
    BY <1>1, <1>2 DEF ArriveEarly, Begin, InRound, ArrivedIn
  <2>2. ArrivedIn(r)' = ArrivedIn(r) \cup {t}
    BY <1>2, <2>1 DEF ArriveEarly, Begin, ArrivedIn
  <2>3. InRound(r)'
    <3>1. \A u \in Threads : waits'[u] \in {r, r + 1}
      BY <1>1, <1>2, <2>1 DEF ArriveEarly, Begin, InRound
    <3>2. \A u \in ArrivedIn(r)' : pc'[u] # "out"
      BY <1>1, <1>2, <2>2 DEF ArriveEarly, InRound, ArrivedIn
    <3>3. _count' = _nThreads - Cardinality(ArrivedIn(r)')
      BY <1>1, <1>2, <2>1, <2>2, OneMore DEF ArriveEarly, InRound
    <3> QED BY <1>2, <3>1, <3>2, <3>3 DEF ArriveEarly, InRound
  <2>4. TypeOK'
    <3>1. _count' \in 1 .. _nThreads
      BY <1>2 DEF ArriveEarly
    <3>2. waits' \in [Threads -> 0 .. MaxWaits]
      <4>1. waits[t] + 1 \in 0 .. MaxWaits
        BY <1>2 DEF ArriveEarly, Begin
      <4> QED BY <1>2, <4>1 DEF ArriveEarly, Begin
    <3> QED BY <1>2, <3>1, <3>2 DEF ArriveEarly
  <2>5. Passes'
    <3>1. passed[t] = waits[t] /\ pc'[t] = "asleep" /\ waits'[t] = waits[t] + 1
      BY <1>2, <2>1 DEF ArriveEarly, Begin
    <3> QED BY <1>2, <3>1 DEF ArriveEarly, Begin
  <2> QED BY <2>3, <2>4, <2>5
<1>3. ASSUME NEW t \in Threads, ArriveLast(t) PROVE Inv'
  <2>1. pc[t] = "out" /\ t \notin ArrivedIn(r) /\ waits[t] = r
    BY <1>1, <1>3 DEF ArriveLast, Begin, InRound, ArrivedIn
  <2>2. ArrivedIn(r) \cup {t} = Threads
    <3>1. Cardinality(ArrivedIn(r)) \in Nat
      BY <2>1, OneMore
    <3>2. _nThreads - Cardinality(ArrivedIn(r)) = 1
      BY <1>1, <1>3 DEF ArriveLast, Last, InRound
    <3>3. Cardinality(ArrivedIn(r)) + 1 = _nThreads
      BY <3>1, <3>2
    <3> QED BY <2>1, <3>3, OneMore
  <2>3. pc' = [u \in Threads |-> IF pc[u] = "asleep" THEN "awake" ELSE pc[u]]
    BY <1>3 DEF ArriveLast, NotifyAll
  <2>4. waits' = [waits EXCEPT ![t] = @ + 1] /\ \A u \in Threads : waits'[u] = r + 1
    BY <1>1, <1>3, <2>1, <2>2 DEF ArriveLast, Begin, ArrivedIn
  <2>5. ArrivedIn(r + 1)' = {}
    BY <2>4 DEF ArrivedIn
  <2>6. InRound(r + 1)'
    <3>1. Cardinality(ArrivedIn(r + 1)') = 0
      BY <2>5, FS_EmptySet
    <3>2. _count' = _nThreads - 0
      BY <1>3 DEF ArriveLast
    <3>3. (\A u \in Threads : waits[u] \in {r + 1, r + 1 + 1})'
      BY <2>4
    <3> QED BY <2>5, <3>1, <3>2, <3>3 DEF InRound
  <2>7. TypeOK' /\ Passes'
    <3>1. pc'[t] = "out" /\ \A u \in Threads : pc'[u] = "out" <=> pc[u] = "out"
      BY <2>1, <2>3
    <3>2. passed[t] = waits[t] /\ waits[t] < MaxWaits
      BY <1>3, <2>1 DEF ArriveLast, Begin
    <3>3. Passes'
      BY <1>3, <2>3, <2>4, <3>1, <3>2 DEF ArriveLast
    <3> QED BY <1>3, <2>3, <2>4, <3>2, <3>3 DEF ArriveLast
  <2> QED BY <2>6, <2>7
<1>4. ASSUME NEW t \in Threads, WakeSpuriously(t) \/ SleepAgain(t) PROVE Inv'
  <2>1. /\ UNCHANGED <<_count, _barrierReached, waits, passed>>
        /\ pc[t] # "out" /\ pc'[t] # "out" /\ pc' \in [Threads -> {"out", "asleep", "awake"}]
        /\ \A u \in Threads \ {t} : pc'[u] = pc[u]
    BY <1>4 DEF WakeSpuriously, SleepAgain
  <2>2. ArrivedIn(r)' = ArrivedIn(r)
    BY <2>1 DEF ArrivedIn
  <2>3. InRound(r)'
    BY <1>1, <2>1, <2>2 DEF InRound, ArrivedIn
  <2>4. Passes'
    BY <2>1
  <2> QED BY <2>1, <2>3, <2>4
<1>5. ASSUME NEW t \in Threads, Leave(t) PROVE Inv'
  <2>1. ArrivedIn(r)' = ArrivedIn(r) /\ ArrivedIn(r) = {}
    BY <1>1, <1>5 DEF Leave, ArrivedIn, InRound
  <2>2. InRound(r)'
    BY <1>1, <1>5, <2>1 DEF Leave, InRound
  <2>3. passed[t] + 1 = waits[t]
    BY <1>5 DEF Leave
  <2>4. TypeOK' /\ Passes'
    BY <1>5, <2>3 DEF Leave
  <2> QED BY <2>2, <2>4
<1>6. CASE UNCHANGED vars
  <2>1. InRound(r)'
    BY <1>1, <1>6 DEF vars, InRound, ArrivedIn
  <2> QED BY <1>6, <2>1 DEF vars
<1> QED BY <1>2, <1>3, <1>4, <1>5, <1>6 DEF Next

(* Nobody leaves its n-th call of barrier::wait() before everybody has begun   *)
(* theirs, for every number of threads and of calls.                           *)
THEOREM BarrierHolds == Spec => []NobodyLeavesEarly
<1>1. Inv => NobodyLeavesEarly
  <2> SUFFICES ASSUME Inv, NEW t \in Threads, NEW u \in Threads PROVE passed[t] <= waits[u]
    BY DEF NobodyLeavesEarly
  <2>1. PICK r \in Nat : InRound(r)
    BY DEF Inv
  <2>2. waits[t] \in {r, r + 1} /\ waits[u] \in {r, r + 1}
    BY <2>1 DEF InRound
  <2>3. passed[t] <= r
    <3>1. CASE waits[t] = r
      BY <3>1 DEF Inv, Passes
    <3>2. CASE waits[t] = r + 1
      BY <2>1, <3>2 DEF Inv, Passes, InRound, ArrivedIn
    <3> QED BY <2>2, <3>1, <3>2
  <2>4. passed[t] \in Int /\ waits[u] \in Int
    BY <2>2, MaxWaitsAssumption DEF Inv, TypeOK
  <2> QED BY <2>2, <2>3, <2>4
<1> QED BY <1>1, InitInv, StepInv, PTL DEF Spec

------------------------------------------------------------------------------
(* In a round r that nobody has entered the barrier is still open from the     *)
(* last one, and everybody was woken.                                          *)
Open == \A r \in Nat \ {0} :
            (\A t \in Threads : waits[t] = r) => _barrierReached /\ \A t \in Threads : pc[t] # "asleep"

LEMMA OpenStep == Inv /\ Open /\ [Next]_vars => Open'
<1> SUFFICES ASSUME Inv, Open, [Next]_vars, NEW r \in Nat \ {0}, \A t \in Threads : waits'[t] = r
             PROVE  _barrierReached' /\ \A t \in Threads : pc'[t] # "asleep"
  BY DEF Open
<1>1. PICK n \in Nat : InRound(n)
  BY DEF Inv
<1>2. ASSUME NEW t \in Threads, ArriveEarly(t) PROVE FALSE
  <2>1. /\ t \notin ArrivedIn(n) /\ waits[t] = n
        /\ waits' = [waits EXCEPT ![t] = @ + 1]
    BY <1>1, <1>2 DEF ArriveEarly, Begin, InRound, ArrivedIn
  <2>2. r = n + 1
    BY <2>1 DEF Inv, TypeOK
  <2>3. \A u \in Threads \ {t} : u \in ArrivedIn(n)
    BY <2>1, <2>2 DEF ArrivedIn, Inv, TypeOK
  <2>4. ArrivedIn(n) \cup {t} = Threads
    BY <2>3 DEF ArrivedIn
  <2>5. Cardinality(ArrivedIn(n)) \in Nat /\ Cardinality(Threads) = Cardinality(ArrivedIn(n)) + 1
    BY <2>1, <2>4, OneMore
  <2>6. _count = Cardinality(Threads) - Cardinality(ArrivedIn(n)) /\ _count > 1
    BY <1>1, <1>2 DEF InRound, ArriveEarly, _nThreads
  <2> QED BY <2>5, <2>6
<1>3. ASSUME NEW t \in Threads, ArriveLast(t)
      PROVE  _barrierReached' /\ \A u \in Threads : pc'[u] # "asleep"
  BY <1>3 DEF ArriveLast, NotifyAll
<1>4. ASSUME NEW t \in Threads, WakeSpuriously(t) \/ Leave(t) \/ SleepAgain(t)
      PROVE  _barrierReached' /\ \A u \in Threads : pc'[u] # "asleep"
  <2>1. UNCHANGED <<_barrierReached, waits>>
    BY <1>4 DEF WakeSpuriously, Leave, SleepAgain
  <2>2. _barrierReached /\ \A u \in Threads : pc[u] # "asleep"
    BY <2>1 DEF Open
  <2> QED BY <1>4, <2>1, <2>2 DEF WakeSpuriously, Leave, SleepAgain, Inv, TypeOK
<1>5. CASE UNCHANGED vars
  BY <1>5 DEF vars, Open
<1> QED BY <1>2, <1>3, <1>4, <1>5 DEF Next

LEMMA AwaitingNow == Inv /\ Open => SleepersAreAwaiting
<1> SUFFICES ASSUME Inv, Open, BackInOrder, NEW t \in Threads, pc[t] = "asleep",
                    \A u \in Threads : ~(waits[u] < waits[t])
             PROVE  FALSE
  BY DEF SleepersAreAwaiting
<1>1. PICK r \in Nat : InRound(r)
  BY DEF Inv
<1>2. passed[t] = waits[t] - 1 /\ passed[t] \in Nat /\ \A u \in Threads : waits[u] \in Nat
  BY MaxWaitsAssumption DEF Inv, TypeOK, Passes
<1>3. \A u \in Threads : waits[u] = waits[t]
  BY <1>2 DEF BackInOrder
<1>4. waits[t] \in Nat \ {0}
  BY <1>2
<1> QED BY <1>3, <1>4 DEF Open

(* No thread sleeps in its n-th wait() after everybody has come to it, as long *)
(* as those that use the barrier again come back after all have left: for      *)
(* every number of threads and of rounds.                                      *)
THEOREM NoThreadLeftAsleep == Spec => []SleepersAreAwaiting
<1>1. Init => Open
  BY ThreadsAssumption DEF Init, Open
<1> QED BY <1>1, InitInv, StepInv, OpenStep, AwaitingNow, PTL DEF Spec
=============================================================================
