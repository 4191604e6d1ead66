------------------------ MODULE FutureQueueCounting ------------------------
(* More theorems about FutureQueue: the assertions of the code hold, and       *)
(* notifyerQueue_previousData never falls below the number of entries that    *)
(* wait for the consumer, although push_overwrite() removes entries without    *)
(* touching the counter and may fail after that.  With push() and              *)
(* push_exception() only, the counter and read_available() are exact, whatever *)
(* is below readIndexMax is published, and a refusal means a full queue.       *)
EXTENDS FutureQueueProofs, FiniteSetTheorems

-----------------------------------------------------------------------------
(* What the producers know besides their index.                               *)

Scanning == {"urim_m", "urim_scan", "urim_cas", "urim_while"}

LocalOK ==
    \A p \in Producers :
        /\ pc[p] = "idle" => ret[p]
        /\ call[p] \in Calls[p] \cup {"none"}
        /\ pc[p] \in {"reset"} \cup Locking => index[p] >= 2
        /\ pc[p] \in {"urim_r", "urim_w"} => writeIndex >= 1
        /\ pc[p] \in Scanning => urim[p].w >= 1

LEMMA InitLocalOK == Init => LocalOK
BY DEF Init, LocalOK, Locking, Scanning

(* Once something has been pushed the queue keeps a positive write index: an  *)
(* overwriting producer moves it back from 2 at least.                        *)
LEMMA WriteIndexStays ==
  ASSUME IndInv, LocalOK, [Next]_vars, writeIndex >= 1
  PROVE  writeIndex' >= 1
<1> USE DEF IndInv, TypeOK, shared, payload, producer, consumer, function
<1>1. ASSUME NEW p \in Producers, ObtainCas(p) PROVE writeIndex' >= 1
  BY <1>1 DEF ObtainCas
<1>2. ASSUME NEW p \in Producers, OverwriteRollback(p) PROVE writeIndex' >= 1
  BY <1>2 DEF OverwriteRollback, Goto, LocalOK, Locking
<1>3. ASSUME NEW p \in Producers, ProducerStep(p) \/ \E f \in Calls[p] : Call(p, f),
             ~ObtainCas(p), ~OverwriteRollback(p)
      PROVE  UNCHANGED writeIndex
  BY <1>3 DEF ProducerStep, ObtainStep, OverwriteStep, PublishStep, UpdateStep, Call,
       ObtainLoad, ObtainNotFull, ObtainFull, ObtainFullOverwrite, ObtainCasFails,
       OverwriteReset, OverwriteResetFails, OverwriteRollbackFails, OverwriteRestore,
       Write, CountPreviousData, Post, UpdateLoadReadIndex, UpdateLoadWriteIndex, UpdateLoadReadIndexMax,
       UpdateScan, UpdateScanEnd, UpdateCas, UpdateCasFails, UpdateAgain, UpdateDone
<1>4. ConsumerStep => UNCHANGED writeIndex
  BY DEF ConsumerStep, Pop, PopWait, PopWaitWake, Empty, Wait, WaitWake, Read, Advance, Decrement
<1> QED BY <1>1, <1>2, <1>3, <1>4 DEF Next, vars

(* The part of LocalOK about one producer, in the next state.                 *)
LocalNext(p) ==
    /\ pc'[p] = "idle" => ret'[p]
    /\ call'[p] \in Calls[p] \cup {"none"}
    /\ pc'[p] \in {"reset"} \cup Locking => index'[p] >= 2
    /\ pc'[p] \in {"urim_r", "urim_w"} => writeIndex' >= 1
    /\ pc'[p] \in Scanning => urim'[p].w >= 1

LEMMA LocalStep ==
  ASSUME IndInv, LocalOK, NEW p \in Producers, ProducerStep(p) \/ \E f \in Calls[p] : Call(p, f),
         writeIndex >= 1 => writeIndex' >= 1
  PROVE  LocalNext(p)
<1> USE DEF IndInv, TypeOK, Goto, Return, shared, payload, consumer, function, Locking, Scanning
<1>0. /\ pc[p] = "idle" => ret[p]
      /\ call[p] \in Calls[p] \cup {"none"}
      /\ pc[p] \in {"reset"} \cup Locking => index[p] >= 2
      /\ pc[p] \in {"urim_r", "urim_w"} => writeIndex >= 1
      /\ pc[p] \in Scanning => urim[p].w >= 1
  BY DEF LocalOK
<1>1. ASSUME NEW f \in Calls[p], Call(p, f) PROVE LocalNext(p)
  BY <1>0, <1>1 DEF Call, LocalNext
<1>2. ASSUME ObtainFullOverwrite(p) PROVE LocalNext(p)
  <2>1. Length > 1
    BY <1>0, <1>2, OverwriteAssumption DEF ObtainFullOverwrite, OverwriteCalls
  <2>2. index[p] >= 2
    BY <1>2, <2>1, LengthAssumption DEF ObtainFullOverwrite, IsFull, nBuffers
  <2> QED BY <1>0, <1>2, <2>2 DEF ObtainFullOverwrite, LocalNext
<1>3. ASSUME ObtainStep(p), ~ObtainFullOverwrite(p) PROVE LocalNext(p)
  BY <1>0, <1>3 DEF ObtainStep, ObtainLoad, ObtainNotFull, ObtainFull, ObtainCas, ObtainCasFails, LocalNext
<1>4. ASSUME OverwriteStep(p) PROVE LocalNext(p)
  BY <1>0, <1>4 DEF OverwriteStep, OverwriteReset, OverwriteResetFails, OverwriteRollback,
                    OverwriteRollbackFails, OverwriteRestore, LocalNext
<1>5. ASSUME Write(p) \/ CountPreviousData(p) PROVE LocalNext(p)
  BY <1>0, <1>5 DEF Write, AfterWrite, CountPreviousData, LocalNext
<1>6. ASSUME Post(p) PROVE LocalNext(p)
  <2>1. writeIndex >= 1
    BY <1>6 DEF Post, IndexOK, Writing
  <2> QED BY <1>0, <1>6, <2>1 DEF Post, LocalNext
<1>7. ASSUME UpdateLoadWriteIndex(p) PROVE LocalNext(p)
  <2>1. Clamped(writeIndex, urim[p].r) >= 1
    BY <1>0, <1>7, LengthAssumption, SMTT(30) DEF UpdateLoadWriteIndex, Clamped, nBuffers
  <2> QED BY <1>0, <1>7, <2>1 DEF UpdateLoadWriteIndex, LocalNext
<1>8. ASSUME UpdateLoadReadIndex(p) PROVE LocalNext(p)
  <2>1. pc'[p] = "urim_w" /\ pc[p] = "urim_r" /\ UNCHANGED <<ret, call, index>>
    BY <1>8 DEF UpdateLoadReadIndex
  <2> QED BY <1>0, <2>1 DEF LocalNext
<1>9. ASSUME UpdateLoadReadIndexMax(p) PROVE LocalNext(p)
  <2>1. pc'[p] = "urim_scan" /\ pc[p] = "urim_m" /\ UNCHANGED <<ret, call, index>>
    BY <1>9 DEF UpdateLoadReadIndexMax
  <2>2. urim'[p].w = urim[p].w
    BY <1>9 DEF UpdateLoadReadIndexMax
  <2> QED BY <1>0, <2>1, <2>2 DEF LocalNext
<1>10. ASSUME UpdateScan(p) \/ UpdateScanEnd(p) \/ UpdateAgain(p) \/ UpdateCas(p) \/ UpdateCasFails(p)
       PROVE  LocalNext(p)
  <2>1. pc'[p] \in Scanning /\ pc[p] \in Scanning /\ UNCHANGED <<ret, call, index>>
    BY <1>10 DEF UpdateScan, UpdateScanEnd, UpdateAgain, UpdateCas, UpdateCasFails
  <2>2. urim'[p].w = urim[p].w
    <3>1. CASE UpdateScan(p)
      BY <3>1 DEF UpdateScan
    <3>2. CASE UpdateScanEnd(p) \/ UpdateCas(p)
      BY <3>2 DEF UpdateScanEnd, UpdateCas
    <3>3. CASE UpdateAgain(p) \/ UpdateCasFails(p)
      BY <3>3 DEF UpdateAgain, UpdateCasFails
    <3> QED BY <1>10, <3>1, <3>2, <3>3
  <2> QED BY <1>0, <2>1, <2>2 DEF LocalNext
<1>11. ASSUME UpdateDone(p) PROVE LocalNext(p)
  BY <1>0, <1>11 DEF UpdateDone, LocalNext
<1> QED BY <1>1, <1>2, <1>3, <1>4, <1>5, <1>6, <1>7, <1>8, <1>9, <1>10, <1>11
    DEF ProducerStep, PublishStep, UpdateStep

(* The other producers do not notice.                                         *)
Same(q) == /\ pc'[q] = pc[q] /\ ret'[q] = ret[q] /\ call'[q] = call[q]
           /\ index'[q] = index[q] /\ urim'[q] = urim[q]

LEMMA OthersSame ==
  ASSUME IndInv, NEW p \in Producers, ProducerStep(p) \/ \E f \in Calls[p] : Call(p, f)
  PROVE  \A q \in Producers \ {p} : Same(q)
<1> USE DEF IndInv, TypeOK, Goto, Return, shared, payload, consumer, function, Same
<1>1. ASSUME NEW f \in Calls[p], Call(p, f) PROVE \A q \in Producers \ {p} : Same(q)
  BY <1>1 DEF Call
<1>2. ASSUME ObtainStep(p) PROVE \A q \in Producers \ {p} : Same(q)
  BY <1>2 DEF ObtainStep, ObtainLoad, ObtainNotFull, ObtainFull, ObtainFullOverwrite, ObtainCas, ObtainCasFails
<1>3. ASSUME OverwriteStep(p) PROVE \A q \in Producers \ {p} : Same(q)
  BY <1>3 DEF OverwriteStep, OverwriteReset, OverwriteResetFails, OverwriteRollback,
              OverwriteRollbackFails, OverwriteRestore
<1>4. ASSUME PublishStep(p) PROVE \A q \in Producers \ {p} : Same(q)
  BY <1>4 DEF PublishStep, Write, CountPreviousData, Post
<1>5. ASSUME UpdateStep(p) PROVE \A q \in Producers \ {p} : Same(q)
  BY <1>5 DEF UpdateStep, UpdateLoadReadIndex, UpdateLoadWriteIndex, UpdateLoadReadIndexMax,
              UpdateScan, UpdateScanEnd, UpdateCas, UpdateCasFails, UpdateAgain, UpdateDone
<1> QED BY <1>1, <1>2, <1>3, <1>4, <1>5 DEF ProducerStep

LEMMA LocalOKStep == ASSUME IndInv, LocalOK, [Next]_vars PROVE LocalOK'
<1>1. writeIndex >= 1 => writeIndex' >= 1
  BY WriteIndexStays
<1>2. ASSUME NEW p \in Producers, ProducerStep(p) \/ \E f \in Calls[p] : Call(p, f) PROVE LocalOK'
  <2>1. LocalNext(p) /\ \A q \in Producers \ {p} : Same(q)
    BY <1>1, <1>2, LocalStep, OthersSame
  <2>2. ASSUME NEW q \in Producers PROVE LocalNext(q)
    BY <1>1, <2>1 DEF LocalNext, Same, LocalOK
  <2> QED BY <2>2 DEF LocalNext, LocalOK
<1>3. ASSUME UNCHANGED producer PROVE LocalOK'
  BY <1>1, <1>3 DEF producer, function, LocalOK
<1>4. ConsumerStep => UNCHANGED producer
  BY DEF ConsumerStep, Pop, PopWait, PopWaitWake, Empty, Wait, WaitWake, Read, Advance, Decrement
<1> QED BY <1>2, <1>3, <1>4 DEF Next, vars

-----------------------------------------------------------------------------
(* The counter.  Entries that are ready or in the consumer's hands have been  *)
(* counted; so has everything a producer still owes the consumer: a counted   *)
(* entry about to be posted, a ready entry it has locked, and the entry it    *)
(* has removed and will replace (or not, when the second attempt fails).      *)

Counted == ReadySlots \cup ConsumerSlots
Debt(p) == pc[p] \in {"post"} \cup Locking \/ (~ret[p] /\ pc[p] \in {"load", "check", "cas", "write"})
Debtors == {p \in Producers : Debt(p)}
Popping == IF cpc = "decrement" THEN 1 ELSE 0

CountOK == previousData >= Cardinality(Counted) + Cardinality(Debtors) + Popping

CountInv == IndInv /\ LocalOK /\ CountOK

LEMMA Finite ==
  ASSUME IndInv
  PROVE  /\ Counted \subseteq Slots /\ IsFiniteSet(Counted) /\ Cardinality(Counted) \in Nat
         /\ IsFiniteSet(Debtors) /\ Cardinality(Debtors) \in Nat
<1>1. IsFiniteSet(Slots)
  BY FS_Interval, LengthAssumption DEF Slots
<1>2. Counted \subseteq Slots
  BY SlotType DEF Counted, ReadySlots, ConsumerSlots, Front, IndInv, TypeOK
<1>3. Debtors \subseteq Producers
  BY DEF Debtors
<1> QED BY <1>1, <1>2, <1>3, FS_Subset, FS_CardinalityType, ProducersAssumption

LEMMA InitCountInv == Init => CountInv
<1> SUFFICES ASSUME Init PROVE CountInv
  OBVIOUS
<1>1. Counted = {} /\ Debtors = {} /\ Popping = 0 /\ previousData = 0
  BY DEF Init, Counted, ReadySlots, ConsumerSlots, Debtors, Debt, Locking, Popping
<1> QED BY <1>1, InitIndInv, InitLocalOK, FS_EmptySet DEF CountInv, CountOK

(* Nothing is added ...                                                       *)
LEMMA CountShrinks ==
  ASSUME IndInv, CountOK, Counted' \subseteq Counted, Debtors' \subseteq Debtors,
         Popping' = Popping, previousData' = previousData
  PROVE  CountOK'
<1>1. Cardinality(Counted') <= Cardinality(Counted) /\ Cardinality(Counted') \in Nat
  BY Finite, FS_Subset, FS_CardinalityType
<1>2. Cardinality(Debtors') <= Cardinality(Debtors) /\ Cardinality(Debtors') \in Nat
  BY Finite, FS_Subset, FS_CardinalityType
<1>3. Popping \in {0, 1} /\ previousData \in Int
  BY DEF Popping, IndInv, TypeOK
<1> QED BY <1>1, <1>2, <1>3, Finite DEF CountOK

(* ... or an entry turns into a debt, or a debt into an entry.                *)
LEMMA EntryBecomesDebt ==
  ASSUME IndInv, CountOK, NEW s \in Counted, NEW p, Counted' = Counted \ {s}, Debtors' \subseteq Debtors \cup {p},
         Popping' = Popping, previousData' = previousData
  PROVE  CountOK'
<1>1. Cardinality(Counted') = Cardinality(Counted) - 1
  BY Finite, FS_RemoveElement
<1>2. Cardinality(Debtors') <= Cardinality(Debtors) + 1 /\ Cardinality(Debtors') \in Nat
  <2>1. /\ IsFiniteSet(Debtors \cup {p})
        /\ Cardinality(Debtors \cup {p}) = IF p \in Debtors THEN Cardinality(Debtors) ELSE Cardinality(Debtors) + 1
    BY Finite, FS_AddElement
  <2>2. Cardinality(Debtors') <= Cardinality(Debtors \cup {p}) /\ Cardinality(Debtors') \in Nat
    BY <2>1, FS_Subset, FS_CardinalityType
  <2> QED BY <2>1, <2>2, Finite
<1>3. Popping \in {0, 1} /\ previousData \in Int
  BY DEF Popping, IndInv, TypeOK
<1> QED BY <1>1, <1>2, <1>3, Finite DEF CountOK

LEMMA DebtBecomesEntry ==
  ASSUME IndInv, CountOK, NEW s, NEW p \in Debtors, Counted' = Counted \cup {s}, Debtors' \subseteq Debtors \ {p},
         Popping' = Popping, previousData' = previousData
  PROVE  CountOK'
<1>1. Cardinality(Counted') <= Cardinality(Counted) + 1 /\ Cardinality(Counted') \in Nat
  <2>1. /\ IsFiniteSet(Counted \cup {s})
        /\ Cardinality(Counted \cup {s}) = IF s \in Counted THEN Cardinality(Counted) ELSE Cardinality(Counted) + 1
    BY Finite, FS_AddElement
  <2> QED BY <2>1, Finite
<1>2. Cardinality(Debtors') <= Cardinality(Debtors) - 1 /\ Cardinality(Debtors') \in Nat
  <2>1. IsFiniteSet(Debtors \ {p}) /\ Cardinality(Debtors \ {p}) = Cardinality(Debtors) - 1
    BY Finite, FS_RemoveElement
  <2>2. Cardinality(Debtors') <= Cardinality(Debtors \ {p}) /\ Cardinality(Debtors') \in Nat
    BY <2>1, FS_Subset, FS_CardinalityType
  <2> QED BY <2>1, <2>2
<1>3. Popping \in {0, 1} /\ previousData \in Int
  BY DEF Popping, IndInv, TypeOK
<1> QED BY <1>1, <1>2, <1>3, Finite DEF CountOK

(* get_notification_queue() counts what is posted next.                       *)
LEMMA DebtIsCounted ==
  ASSUME IndInv, CountOK, NEW p, Counted' = Counted, Debtors' \subseteq Debtors \cup {p},
         Popping' = Popping, previousData' = previousData + 1
  PROVE  CountOK'
<1>1. Cardinality(Debtors') <= Cardinality(Debtors) + 1 /\ Cardinality(Debtors') \in Nat
  <2>1. /\ IsFiniteSet(Debtors \cup {p})
        /\ Cardinality(Debtors \cup {p}) = IF p \in Debtors THEN Cardinality(Debtors) ELSE Cardinality(Debtors) + 1
    BY Finite, FS_AddElement
  <2>2. Cardinality(Debtors') <= Cardinality(Debtors \cup {p}) /\ Cardinality(Debtors') \in Nat
    BY <2>1, FS_Subset, FS_CardinalityType
  <2> QED BY <2>1, <2>2, Finite
<1>2. Popping \in {0, 1} /\ previousData \in Int
  BY DEF Popping, IndInv, TypeOK
<1> QED BY <1>1, <1>2, Finite DEF CountOK

-----------------------------------------------------------------------------
(* Every step keeps the counter large enough.                                 *)

LEMMA ProducerCount ==
  ASSUME CountInv, NEW p \in Producers, ProducerStep(p) \/ \E f \in Calls[p] : Call(p, f)
  PROVE  CountOK'
<1> USE DEF CountInv
<1>1. \A q \in Producers \ {p} : Debt(q)' = Debt(q)
  BY OthersSame DEF Same, Debt
<1>2. /\ ~Debt(p)' => Debtors' \subseteq Debtors \ {p}
      /\ Debt(p)' => Debtors' \subseteq Debtors \cup {p}
      /\ (Debt(p)' => Debt(p)) => Debtors' \subseteq Debtors
  BY <1>1 DEF Debtors
<1>3. Popping' = Popping /\ ConsumerSlots' = ConsumerSlots
  <2>1. UNCHANGED <<cpc, hasFrontOwnership, readIndex>>
    BY DEF ProducerStep, ObtainStep, OverwriteStep, PublishStep, UpdateStep, Call, shared, consumer,
       ObtainLoad, ObtainNotFull, ObtainFull, ObtainFullOverwrite, ObtainCas, ObtainCasFails,
       OverwriteReset, OverwriteResetFails, OverwriteRollback, OverwriteRollbackFails, OverwriteRestore,
       Write, CountPreviousData, Post, UpdateLoadReadIndex, UpdateLoadWriteIndex, UpdateLoadReadIndexMax,
       UpdateScan, UpdateScanEnd, UpdateCas, UpdateCasFails, UpdateAgain, UpdateDone
  <2> QED BY <2>1 DEF Popping, ConsumerSlots, Front
<1>4. /\ pc[p] = "idle" => ret[p]
      /\ pc \in [Producers -> ProducerPcs] /\ ret \in [Producers -> BOOLEAN] /\ index[p] \in Nat
  BY DEF LocalOK, IndInv, TypeOK
<1>5. ASSUME UNCHANGED <<ready, previousData>>, Debt(p)' => Debt(p) PROVE CountOK'
  <2>1. Counted' \subseteq Counted
    BY <1>3, <1>5 DEF Counted, ReadySlots
  <2> QED BY <1>2, <1>3, <1>5, <2>1, CountShrinks
<1>6. ASSUME NEW f \in Calls[p], Call(p, f) PROVE CountOK'
  BY <1>4, <1>5, <1>6 DEF Call, Goto, shared, Debt, Locking
<1>7. ASSUME ObtainStep(p) PROVE CountOK'
  BY <1>4, <1>5, <1>7 DEF ObtainStep, ObtainLoad, ObtainNotFull, ObtainFull, ObtainFullOverwrite, ObtainCas,
     ObtainCasFails, Goto, Return, shared, Debt, Locking
<1>8. ASSUME OverwriteResetFails(p) \/ OverwriteRollback(p) \/ OverwriteRollbackFails(p) PROVE CountOK'
  BY <1>4, <1>5, <1>8 DEF OverwriteResetFails, OverwriteRollback, OverwriteRollbackFails,
     Goto, Return, shared, Debt, Locking
<1>9. ASSUME Write(p) PROVE CountOK'
  BY <1>4, <1>5, <1>9 DEF Write, AfterWrite, Goto, Debt, Locking
<1>10. ASSUME UpdateStep(p) PROVE CountOK'
  BY <1>4, <1>5, <1>10 DEF UpdateStep, UpdateLoadReadIndex, UpdateLoadWriteIndex, UpdateLoadReadIndexMax,
     UpdateScan, UpdateScanEnd, UpdateCas, UpdateCasFails, UpdateAgain, UpdateDone, Goto, Return, shared, Debt, Locking
<1>11. ASSUME CountPreviousData(p) PROVE CountOK'
  <2>1. Counted' = Counted /\ previousData' = previousData + 1 /\ Debt(p)'
    BY <1>3, <1>4, <1>11 DEF CountPreviousData, Goto, Counted, ReadySlots, Debt
  <2> QED BY <1>2, <1>3, <2>1, DebtIsCounted
<1>12. ASSUME Post(p) PROVE CountOK'
  <2>1. Counted' = Counted \cup {Slot(index[p])} /\ previousData' = previousData
    BY <1>3, <1>4, <1>12, SlotType DEF Post, Counted, ReadySlots, IndInv, TypeOK
  <2>2. p \in Debtors /\ ~Debt(p)'
    BY <1>4, <1>12 DEF Post, Goto, Debtors, Debt, Locking
  <2> QED BY <1>2, <1>3, <2>1, <2>2, DebtBecomesEntry
<1>13. ASSUME OverwriteRestore(p) PROVE CountOK'
  <2> DEFINE s == Slot(index[p] - 1)
  <2>1. index[p] - 1 \in Nat
    BY <1>4, <1>13 DEF OverwriteRestore, IndexOK, Locking, IndInv
  <2>2. Counted' = Counted \cup {s} /\ previousData' = previousData
    BY <1>3, <1>13, <2>1, SlotType DEF OverwriteRestore, Counted, ReadySlots, IndInv, TypeOK
  <2>3. p \in Debtors /\ ~Debt(p)'
    BY <1>4, <1>13 DEF OverwriteRestore, Return, Debtors, Debt, Locking
  <2> QED BY <1>2, <1>3, <2>2, <2>3, DebtBecomesEntry
<1>14. ASSUME OverwriteReset(p) PROVE CountOK'
  <2> DEFINE s == Slot(index[p] - 1)
  <2>1. index[p] - 1 \in Nat /\ s \in Slots
    BY <1>4, <1>14, SlotType DEF OverwriteReset, Goto, IndexOK, IndInv
  <2>2. ready[s] /\ ready' = [ready EXCEPT ![s] = FALSE] /\ previousData' = previousData
    BY <1>14 DEF OverwriteReset
  <2>3. s \in ReadySlots /\ ReadySlots' = ReadySlots \ {s}
    BY <2>1, <2>2 DEF ReadySlots, IndInv, TypeOK
  <2>4. s \notin ConsumerSlots
    BY <2>3 DEF IndInv, SlotOwnership
  <2>5. s \in Counted /\ Counted' = Counted \ {s}
    BY <1>3, <2>3, <2>4 DEF Counted
  <2>6. Debtors' \subseteq Debtors \cup {p}
    BY <1>2
  <2> QED BY <1>3, <2>2, <2>5, <2>6, EntryBecomesDebt
<1> QED BY <1>6, <1>7, <1>8, <1>9, <1>10, <1>11, <1>12, <1>13, <1>14
    DEF ProducerStep, OverwriteStep, PublishStep

LEMMA ConsumerCount == ASSUME CountInv, ConsumerStep PROVE CountOK'
<1> USE DEF CountInv
<1>1. Debtors' = Debtors
  <2>1. UNCHANGED <<pc, ret>>
    BY DEF ConsumerStep, Pop, PopWait, PopWaitWake, Empty, Wait, WaitWake, Read, Advance, Decrement, producer
  <2> QED BY <2>1 DEF Debtors, Debt
<1>2. Front \in Slots
  BY SlotType DEF Front, IndInv, TypeOK
<1>3. ASSUME TakeFront, ConsumerSlots' = {Front} PROVE Counted' \subseteq Counted
  BY <1>2, <1>3 DEF TakeFront, Counted, ReadySlots, IndInv, TypeOK
<1>4. ASSUME UNCHANGED ready, ConsumerSlots' \subseteq ConsumerSlots PROVE Counted' \subseteq Counted
  BY <1>4 DEF Counted, ReadySlots
<1>5. ASSUME Pop PROVE CountOK'
  <2>1. Counted' \subseteq Counted
    BY <1>3, <1>4, <1>5 DEF Pop, ConsumerSlots, Front, producer
  <2> QED BY <1>1, <1>5, <2>1, CountShrinks DEF Pop, Popping
<1>6. ASSUME PopWaitWake \/ Empty \/ WaitWake PROVE CountOK'
  <2>1. Counted' \subseteq Counted
    BY <1>3, <1>6 DEF PopWaitWake, Empty, WaitWake, ConsumerSlots, Front
  <2> QED BY <1>1, <1>6, <2>1, CountShrinks DEF PopWaitWake, Empty, WaitWake, Popping
<1>7. ASSUME PopWait \/ Wait \/ Read PROVE CountOK'
  <2>1. Counted' \subseteq Counted
    BY <1>4, <1>7 DEF PopWait, Wait, Read, ConsumerSlots, Front, shared
  <2> QED BY <1>1, <1>7, <2>1, CountShrinks DEF PopWait, Wait, Read, Popping, shared
<1>8. ASSUME Advance PROVE CountOK'
  <2>1. /\ cpc = "advance" /\ cpc' = "decrement" /\ ~hasFrontOwnership'
        /\ UNCHANGED <<ready, previousData>>
    BY <1>8 DEF Advance
  <2>2. ConsumerSlots = {Front} /\ ConsumerSlots' = {} /\ ReadySlots' = ReadySlots
    BY <2>1 DEF ConsumerSlots, ReadySlots
  <2>3. Front \in Counted /\ Counted' = Counted \ {Front}
    BY <2>2 DEF Counted, IndInv, SlotOwnership
  <2>4. Cardinality(Counted') = Cardinality(Counted) - 1
    BY <2>3, Finite, FS_RemoveElement
  <2>5. Popping = 0 /\ Popping' = 1
    BY <2>1 DEF Popping
  <2> QED BY <1>1, <2>1, <2>4, <2>5, Finite DEF CountOK, IndInv, TypeOK
<1>9. ASSUME Decrement PROVE CountOK'
  <2>1. Popping = 1 /\ Popping' = 0 /\ previousData' = previousData - 1 /\ UNCHANGED ready
    BY <1>9 DEF Decrement, Popping
  <2>2. Counted' = Counted
    BY <1>9, <2>1 DEF Decrement, Counted, ReadySlots, ConsumerSlots, Front
  <2> QED BY <1>1, <2>1, <2>2, Finite DEF CountOK, IndInv, TypeOK
<1> QED BY <1>5, <1>6, <1>7, <1>8, <1>9 DEF ConsumerStep

LEMMA CountInductive == CountInv /\ [Next]_vars => CountInv'
<1> SUFFICES ASSUME CountInv, [Next]_vars PROVE CountInv'
  OBVIOUS
<1>1. IndInv' /\ LocalOK'
  BY Inductive, LocalOKStep DEF CountInv
<1>2. CountOK'
  <2>1. CASE Next
    BY <2>1, ProducerCount, ConsumerCount DEF Next
  <2>2. CASE UNCHANGED vars
    <3>1. Counted' = Counted /\ Debtors' = Debtors /\ Popping' = Popping /\ previousData' = previousData
      BY <2>2 DEF vars, shared, producer, consumer, Counted, Debtors, Debt, Popping, ReadySlots,
         ConsumerSlots, Front
    <3> QED BY <3>1 DEF CountInv, CountOK
  <2> QED BY <2>1, <2>2
<1> QED BY <1>1, <1>2 DEF CountInv

(* decrement_previous_data_counter() never makes the counter miss an entry    *)
(* that a when_any() placed now would have to announce, nor one that an       *)
(* overwriting push has locked and may put back.                              *)
THEOREM CounterSufficient == Spec => []PreviousDataSufficient
<1>1. CountInv => PreviousDataSufficient
  <2> SUFFICES ASSUME CountInv PROVE PreviousDataSufficient
    OBVIOUS
  <2> DEFINE Restoring == {p \in Producers : pc[p] = "restore"}
  <2>1. Restoring \subseteq Debtors
    BY DEF Debtors, Debt, Locking
  <2>2. Cardinality(Restoring) <= Cardinality(Debtors) /\ Cardinality(Restoring) \in Nat
    BY <2>1, Finite, FS_Subset, FS_CardinalityType DEF CountInv
  <2>3. previousData \in Int /\ Popping \in {0, 1} /\ Cardinality(Counted) \in Nat /\ Cardinality(Debtors) \in Nat
    BY Finite DEF Popping, CountInv, IndInv, TypeOK
  <2> HIDE DEF Restoring
  <2>4. previousData >= Cardinality(Counted) + Cardinality(Restoring) + Popping
    BY <2>2, <2>3 DEF CountInv, CountOK
  <2> QED BY <2>4 DEF PreviousDataSufficient, Counted, Popping, Restoring
<1> QED BY <1>1, InitCountInv, CountInductive, PTL DEF Spec

(* The assertions of the code, and the subtractions on size_t that it takes   *)
(* for granted, for any number of pushing threads and any queue length.       *)
THEOREM AssertionsNeverFail == Spec => []AssertionsHold
<1>1. CountInv => AssertionsHold
  <2> SUFFICES ASSUME CountInv PROVE AssertionsHold
    OBVIOUS
  <2> USE DEF CountInv, IndInv, TypeOK
  <2>1. ASSUME NEW p \in Producers
        PROVE  /\ pc[p] = "post" => ~ready[Slot(index[p])]
               /\ pc[p] = "restore" => ~ready[Slot(index[p] - 1)]
               /\ pc[p] \in {"reset"} \cup Locking => index[p] >= 1
               /\ pc[p] = "urim_scan" => urim[p].w >= 1
    <3>1. index[p] \in Nat /\ (pc[p] \in {"reset"} \cup Locking => index[p] >= 1)
      BY DEF IndexOK
    <3>2. pc[p] = "post" => ~ready[Slot(index[p])]
      BY <3>1, SlotType DEF SlotOwnership, HeldSlots, Writing, ReadySlots
    <3>3. pc[p] = "restore" => ~ready[Slot(index[p] - 1)]
      <4> SUFFICES ASSUME pc[p] = "restore" PROVE ~ready[Slot(index[p] - 1)]
        OBVIOUS
      <4>1. index[p] - 1 \in Nat /\ HeldSlots(p) = {Slot(index[p] - 1)}
        BY <3>1 DEF HeldSlots, Writing, Locking
      <4> QED BY <4>1, SlotType DEF SlotOwnership, ReadySlots
    <3>4. pc[p] = "urim_scan" => urim[p].w >= 1
      BY DEF LocalOK, Scanning
    <3> QED BY <3>1, <3>2, <3>3, <3>4
  <2>2. cpc = "advance" => readIndex < writeIndex
    <3> SUFFICES ASSUME cpc = "advance" PROVE readIndex < writeIndex
      OBVIOUS
    <3>1. Front \in Occupied
      BY DEF SlotOwnership, ConsumerSlots
    <3> QED BY <3>1, SpanMembers DEF Occupied
  <2>3. cpc = "decrement" => previousData > 0
    BY Finite DEF CountOK, Popping
  <2> QED BY <2>1, <2>2, <2>3 DEF AssertionsHold
<1> QED BY <1>1, InitCountInv, CountInductive, PTL DEF Spec

-----------------------------------------------------------------------------
(* Used with push() and push_exception() only: what the queue promises beyond *)
(* the case of overwriting.                                                   *)
PushOnly == \A p \in Producers : Calls[p] \cap OverwriteCalls = {}

(* Nobody overwrites, so no producer is on its second attempt.                *)
PlainOK == \A p \in Producers :
    /\ call[p] \notin OverwriteCalls /\ ret[p]
    /\ pc[p] \notin {"reset"} \cup Locking

PlainInv == IndInv /\ PlainOK

PlainStep(p) == \/ \E f \in Calls[p] : Call(p, f)
                \/ ObtainLoad(p) \/ ObtainNotFull(p) \/ ObtainFull(p) \/ ObtainCas(p) \/ ObtainCasFails(p)
                \/ PublishStep(p) \/ UpdateStep(p)

LEMMA PlainSteps ==
  ASSUME PlainInv, NEW p \in Producers, ProducerStep(p) \/ \E f \in Calls[p] : Call(p, f)
  PROVE  PlainStep(p)
<1>1. ~ObtainFullOverwrite(p) /\ ~OverwriteStep(p)
  BY DEF PlainInv, PlainOK, Locking, ObtainFullOverwrite, OverwriteStep, OverwriteReset, OverwriteResetFails,
     OverwriteRollback, OverwriteRollbackFails, OverwriteRestore, Goto
<1> QED BY <1>1 DEF PlainStep, ProducerStep, ObtainStep

LEMMA PlainOKStep == ASSUME PushOnly, PlainInv, [Next]_vars PROVE PlainOK'
<1> USE DEF PlainInv, Locking
<1>1. ASSUME NEW p \in Producers, ProducerStep(p) \/ \E f \in Calls[p] : Call(p, f) PROVE PlainOK'
  <2> DEFINE Mine == call'[p] \notin OverwriteCalls /\ ret'[p] /\ pc'[p] \notin {"reset"} \cup Locking
  <2>0. /\ call[p] \notin OverwriteCalls /\ ret[p] /\ "none" \notin OverwriteCalls
        /\ pc \in [Producers -> ProducerPcs] /\ ret \in [Producers -> BOOLEAN]
        /\ call \in [Producers -> AllCalls \cup {"none"}]
    BY DEF PlainOK, OverwriteCalls, IndInv, TypeOK
  <2>1. ASSUME NEW f \in Calls[p], Call(p, f) PROVE Mine
    BY <2>0, <2>1 DEF Call, Goto, PushOnly
  <2>2. ASSUME ObtainLoad(p) \/ ObtainNotFull(p) \/ ObtainFull(p) \/ ObtainCas(p) \/ ObtainCasFails(p) PROVE Mine
    BY <2>0, <2>2 DEF ObtainLoad, ObtainNotFull, ObtainFull, ObtainCas, ObtainCasFails, Goto, Return, function
  <2>3. ASSUME PublishStep(p) PROVE Mine
    BY <2>0, <2>3 DEF PublishStep, Write, AfterWrite, CountPreviousData, Post, Goto, function
  <2>4. ASSUME UpdateStep(p) PROVE Mine
    BY <2>0, <2>4 DEF UpdateStep, UpdateLoadReadIndex, UpdateLoadWriteIndex, UpdateLoadReadIndexMax,
       UpdateScan, UpdateScanEnd, UpdateCas, UpdateCasFails, UpdateAgain, UpdateDone, Goto, Return, function
  <2>5. Mine
    BY <1>1, <2>1, <2>2, <2>3, <2>4, PlainSteps DEF PlainStep
  <2>6. \A q \in Producers \ {p} : Same(q)
    BY <1>1, OthersSame
  <2> QED BY <2>5, <2>6 DEF PlainOK, Same
<1>2. ConsumerStep \/ UNCHANGED vars => UNCHANGED producer
  BY DEF vars, ConsumerStep, Pop, PopWait, PopWaitWake, Empty, Wait, WaitWake, Read, Advance, Decrement
<1>3. ASSUME UNCHANGED producer PROVE PlainOK'
  BY <1>3 DEF PlainOK, producer, function
<1> QED BY <1>1, <1>2, <1>3 DEF Next

LEMMA PlainInvStep == PushOnly /\ PlainInv /\ [Next]_vars => PlainInv'
BY Inductive, PlainOKStep DEF PlainInv

LEMMA InitPlainInv == Init => PlainInv
BY InitIndInv DEF PlainInv, PlainOK, Init, OverwriteCalls, Locking

(* What the step of a producer, or of the consumer, does to the indices and   *)
(* the semaphores.                                                            *)
LEMMA ProducerFrame ==
  ASSUME PlainInv, NEW p \in Producers, ProducerStep(p) \/ \E f \in Calls[p] : Call(p, f)
  PROVE  /\ UNCHANGED consumer /\ readIndex' = readIndex
         /\ writeIndex' = writeIndex \/ (ObtainCas(p) /\ writeIndex' = writeIndex + 1)
         /\ ready' = ready \/ (Post(p) /\ ready' = [ready EXCEPT ![Slot(index[p])] = TRUE])
<1> USE DEF shared, payload, consumer
<1> QED BY PlainSteps DEF PlainStep, PublishStep, UpdateStep, Call,
     ObtainLoad, ObtainNotFull, ObtainFull, ObtainCas, ObtainCasFails, Write, CountPreviousData, Post,
     UpdateLoadReadIndex, UpdateLoadWriteIndex, UpdateLoadReadIndexMax,
     UpdateScan, UpdateScanEnd, UpdateCas, UpdateCasFails, UpdateAgain, UpdateDone

LEMMA ConsumerFrame ==
  ASSUME ConsumerStep
  PROVE  /\ UNCHANGED <<producer, writeIndex, readIndexMax>>
         /\ readIndex' = readIndex \/ Advance
BY DEF ConsumerStep, Pop, PopWait, PopWaitWake, Empty, Wait, WaitWake, Read, Advance, Decrement, shared

(* Nobody moves the write index back.                                         *)
LEMMA IndicesGrow ==
  ASSUME PlainInv, [Next]_vars
  PROVE  writeIndex' >= writeIndex /\ readIndex' >= readIndex /\ readIndex' \in Nat /\ writeIndex' \in Nat
<1>1. writeIndex \in Nat /\ readIndex \in Nat
  BY DEF PlainInv, IndInv, TypeOK
<1>2. Advance => readIndex' = readIndex + 1
  BY DEF Advance
<1> QED BY <1>1, <1>2, ProducerFrame, ConsumerFrame DEF Next, vars, shared

-----------------------------------------------------------------------------
(* Refusing.  The write index a producer has checked may be old, but it is    *)
(* not ahead of the queue's.                                                  *)

SeenOK == \A p \in Producers : pc[p] = "check" => index[p] <= writeIndex

LEMMA SeenStep == ASSUME PlainInv, SeenOK, [Next]_vars PROVE SeenOK'
<1> USE DEF PlainInv, IndInv, TypeOK
<1>1. ASSUME NEW p \in Producers, ProducerStep(p) \/ \E f \in Calls[p] : Call(p, f) PROVE SeenOK'
  <2>1. pc'[p] = "check" => index'[p] = writeIndex
    <3>1. ASSUME NEW f \in Calls[p], Call(p, f) PROVE pc'[p] # "check"
      BY <3>1 DEF Call, Goto
    <3>2. ASSUME ObtainLoad(p) \/ ObtainCasFails(p) PROVE index'[p] = writeIndex
      BY <3>2 DEF ObtainLoad, ObtainCasFails
    <3>3. ASSUME ObtainNotFull(p) \/ ObtainFull(p) \/ ObtainCas(p) \/ PublishStep(p) PROVE pc'[p] # "check"
      BY <3>3 DEF ObtainNotFull, ObtainFull, ObtainCas, PublishStep, Write, AfterWrite, CountPreviousData, Post,
         Goto, Return
    <3>4. ASSUME UpdateStep(p) PROVE pc'[p] # "check"
      BY <3>4 DEF UpdateStep, UpdateLoadReadIndex, UpdateLoadWriteIndex, UpdateLoadReadIndexMax,
         UpdateScan, UpdateScanEnd, UpdateCas, UpdateCasFails, UpdateAgain, UpdateDone, Goto, Return
    <3> QED BY <1>1, <3>1, <3>2, <3>3, <3>4, PlainSteps DEF PlainStep
  <2>2. \A q \in Producers \ {p} : pc'[q] = pc[q] /\ index'[q] = index[q]
    BY <1>1, OthersSame DEF Same
  <2>3. writeIndex' >= writeIndex /\ writeIndex' \in Nat
    BY IndicesGrow
  <2>4. ASSUME NEW q \in Producers, pc'[q] = "check" PROVE index'[q] <= writeIndex'
    <3>1. CASE q = p
      BY <2>1, <2>3, <2>4, <3>1
    <3>2. CASE q # p
      BY <2>2, <2>3, <2>4, <3>2, SMTT(30) DEF SeenOK
    <3> QED BY <3>1, <3>2
  <2> QED BY <2>4 DEF SeenOK
<1>2. ASSUME UNCHANGED <<producer, writeIndex>> PROVE SeenOK'
  BY <1>2 DEF SeenOK, producer
<1> QED BY <1>1, <1>2, ConsumerFrame DEF Next, vars, shared

(* A plain push is refused in a full queue only, although it compares a write *)
(* index it has read earlier with the present read index.                     *)
THEOREM RefusalJustified == ASSUME PushOnly PROVE Spec => RefusedOnlyWhenFull
<1>1. Init => PlainInv /\ SeenOK
  BY InitPlainInv DEF Init, SeenOK
<1>2. PlainInv /\ SeenOK /\ [Next]_vars => PlainInv' /\ SeenOK'
  BY PlainInvStep, SeenStep
<1>3. ASSUME PlainInv, SeenOK, NEW p \in Producers, ObtainFull(p) PROVE writeIndex - readIndex = Length
  <2>1. index[p] >= readIndex + Length /\ index[p] <= writeIndex
    BY <1>3, LengthAssumption DEF ObtainFull, IsFull, nBuffers, SeenOK, PlainInv, IndInv, TypeOK
  <2> QED BY <1>3, <2>1, LengthAssumption DEF PlainInv, IndInv, TypeOK, WithinCapacity
<1>4. PlainInv /\ SeenOK
        => [\A p \in Producers : ObtainFull(p) => writeIndex - readIndex = Length]_vars
  BY <1>3
<1> QED BY <1>1, <1>2, <1>4, PTL DEF Spec, RefusedOnlyWhenFull

-----------------------------------------------------------------------------
(* Published entries stay published until they are popped, so what a scan of  *)
(* update_read_index_max() has found stays true, however long the producer    *)
(* takes to store it.                                                         *)

LEMMA PublishedStays ==
  ASSUME PlainInv, [Next]_vars, NEW i \in Nat, readIndex' <= i, i < writeIndex, Published(Slot(i))
  PROVE  Published(Slot(i))'
<1> USE DEF PlainInv, IndInv, TypeOK
<1>0. Slot(i) \in Slots /\ Front \in Slots
  BY SlotType DEF Front
<1>1. ASSUME NEW p \in Producers, ProducerStep(p) \/ \E f \in Calls[p] : Call(p, f)
      PROVE  Published(Slot(i))'
  <2>1. ConsumerSlots' = ConsumerSlots
    <3>1. UNCHANGED <<hasFrontOwnership, cpc, readIndex>>
      BY <1>1, ProducerFrame DEF consumer
    <3> QED BY <3>1 DEF ConsumerSlots, Front
  <2>2. ready[Slot(i)] => ready'[Slot(i)]
    BY <1>0, <1>1, ProducerFrame
  <2> QED BY <2>1, <2>2 DEF Published, Slot
<1>2. ASSUME UNCHANGED ready, ConsumerSlots \subseteq ConsumerSlots' PROVE Published(Slot(i))'
  BY <1>2 DEF Published, Slot
<1>3. ASSUME TakeFront, ConsumerSlots' = {Front} PROVE Published(Slot(i))'
  <2>1. ConsumerSlots \subseteq {Front} /\ (ready[Slot(i)] => ready'[Slot(i)] \/ Slot(i) = Front)
    BY <1>0, <1>3 DEF TakeFront, ConsumerSlots
  <2> QED BY <1>3, <2>1 DEF Published, Slot
<1>4. ASSUME Pop PROVE Published(Slot(i))'
  BY <1>2, <1>3, <1>4 DEF Pop, ConsumerSlots, Front
<1>5. ASSUME PopWaitWake \/ Empty \/ WaitWake PROVE Published(Slot(i))'
  BY <1>3, <1>5 DEF PopWaitWake, Empty, WaitWake, ConsumerSlots, Front
<1>6. ASSUME PopWait \/ Wait \/ Read \/ Decrement PROVE Published(Slot(i))'
  BY <1>2, <1>6 DEF PopWait, Wait, Read, Decrement, ConsumerSlots, Front, shared
<1>7. ASSUME Advance PROVE Published(Slot(i))'
  <2>1. readIndex' = readIndex + 1 /\ ready' = ready /\ ConsumerSlots \subseteq {Front}
    BY <1>7 DEF Advance, ConsumerSlots
  <2>2. Slot(i) # Front
    BY <2>1, SlotDistinct, LengthAssumption DEF Front, WithinCapacity
  <2> QED BY <2>1, <2>2 DEF Published, Slot
<1>8. ASSUME UNCHANGED vars PROVE Published(Slot(i))'
  BY <1>2, <1>8 DEF vars, shared, consumer, ConsumerSlots, Front
<1> QED BY <1>1, <1>4, <1>5, <1>6, <1>7, <1>8 DEF Next, ConsumerStep

(* All indices from readIndex up to n are published.                          *)
Claim(n) == \A i \in readIndex .. n - 1 : i < writeIndex /\ Published(Slot(i))
ClaimNext(n) == \A i \in readIndex' .. n - 1 : i < writeIndex' /\ Published(Slot(i))'

LEMMA ClaimKept == ASSUME PlainInv, [Next]_vars, NEW n \in Nat, Claim(n) PROVE ClaimNext(n)
<1> SUFFICES ASSUME NEW i \in readIndex' .. n - 1 PROVE i < writeIndex' /\ Published(Slot(i))'
  BY DEF ClaimNext
<1>1. /\ writeIndex \in Nat /\ readIndex \in Nat
      /\ writeIndex' >= writeIndex /\ readIndex' >= readIndex /\ readIndex' \in Nat /\ writeIndex' \in Nat
  BY IndicesGrow DEF PlainInv, IndInv, TypeOK
<1>2. i \in Nat /\ readIndex' <= i /\ i \in readIndex .. n - 1
  BY <1>1
<1>3. i < writeIndex /\ Published(Slot(i))
  BY <1>2 DEF Claim
<1> QED BY <1>1, <1>2, <1>3, PublishedStays

(* What the producers in update_read_index_max() know.                        *)
ScanOK ==
    /\ Claim(readIndexMax)
    /\ \A p \in Producers :
         /\ pc[p] \in Scanning => urim[p].w <= writeIndex
         /\ pc[p] \in {"urim_scan", "urim_cas", "urim_while"} => Claim(urim[p].new)
         /\ pc[p] = "urim_scan" => Claim(urim[p].i)

ScanInv == PlainInv /\ UrimOK /\ ScanOK

ScanNext(p) ==
    /\ pc'[p] \in Scanning => urim'[p].w <= writeIndex'
    /\ pc'[p] \in {"urim_scan", "urim_cas", "urim_while"} => ClaimNext(urim'[p].new)
    /\ pc'[p] = "urim_scan" => ClaimNext(urim'[p].i)

LEMMA ScanStep ==
  ASSUME ScanInv, NEW p \in Producers, ProducerStep(p) \/ \E f \in Calls[p] : Call(p, f), [Next]_vars
  PROVE  ScanNext(p) /\ ClaimNext(readIndexMax')
<1> USE DEF Goto, Return, shared, Scanning
<1> DEFINE Updating == {"urim_scan", "urim_cas", "urim_while"}
<1>0. /\ urim[p] \in [r : Nat, w : Nat, m : Nat, new : Nat, i : Nat]
      /\ pc \in [Producers -> ProducerPcs] /\ urim \in [Producers -> [r : Nat, w : Nat, m : Nat, new : Nat, i : Nat]]
      /\ readIndexMax \in Nat /\ writeIndex \in Nat /\ readIndex \in Nat
      /\ writeIndex' \in Nat /\ writeIndex' >= writeIndex
  BY IndicesGrow DEF ScanInv, PlainInv, IndInv, TypeOK
<1>1. /\ pc[p] \in Scanning => urim[p].w <= writeIndex
      /\ pc[p] \in Updating => Claim(urim[p].new) /\ urim[p].m <= readIndexMax
      /\ pc[p] = "urim_scan" => Claim(urim[p].i)
      /\ Claim(readIndexMax)
  BY DEF ScanInv, ScanOK, UrimOK
<1>2. \A n \in Nat : Claim(n) => ClaimNext(n)
  BY ClaimKept DEF ScanInv
<1>3. ASSUME readIndexMax' = readIndexMax, pc'[p] \notin Scanning PROVE ScanNext(p) /\ ClaimNext(readIndexMax')
  BY <1>0, <1>1, <1>2, <1>3 DEF ScanNext
<1> HIDE DEF Updating
<1>4. ASSUME NEW f \in Calls[p], Call(p, f) PROVE ScanNext(p) /\ ClaimNext(readIndexMax')
  BY <1>0, <1>3, <1>4 DEF Call
<1>5. ASSUME ObtainLoad(p) \/ ObtainNotFull(p) \/ ObtainFull(p) \/ ObtainCas(p) \/ ObtainCasFails(p)
      PROVE  ScanNext(p) /\ ClaimNext(readIndexMax')
  BY <1>0, <1>3, <1>5 DEF ObtainLoad, ObtainNotFull, ObtainFull, ObtainCas, ObtainCasFails
<1>6. ASSUME PublishStep(p) \/ UpdateLoadReadIndex(p) \/ UpdateDone(p)
      PROVE  ScanNext(p) /\ ClaimNext(readIndexMax')
  BY <1>0, <1>3, <1>6 DEF PublishStep, Write, AfterWrite, CountPreviousData, Post, UpdateLoadReadIndex, UpdateDone
<1>7. ASSUME UpdateLoadWriteIndex(p) PROVE ScanNext(p) /\ ClaimNext(readIndexMax')
  <2>1. /\ pc'[p] = "urim_m" /\ urim'[p].w = Clamped(writeIndex, urim[p].r)
        /\ writeIndex' = writeIndex /\ readIndexMax' = readIndexMax
    BY <1>0, <1>7 DEF UpdateLoadWriteIndex
  <2>2. Clamped(writeIndex, urim[p].r) <= writeIndex
    BY <1>0, LengthAssumption DEF Clamped, nBuffers
  <2> QED BY <1>0, <1>1, <1>2, <2>1, <2>2 DEF ScanNext
<1>8. ASSUME UpdateLoadReadIndexMax(p) PROVE ScanNext(p) /\ ClaimNext(readIndexMax')
  <2>1. /\ pc[p] = "urim_m" /\ pc'[p] = "urim_scan" /\ urim'[p].w = urim[p].w
        /\ urim'[p].new = readIndexMax /\ urim'[p].i = readIndexMax
        /\ writeIndex' = writeIndex /\ readIndexMax' = readIndexMax
    BY <1>0, <1>8 DEF UpdateLoadReadIndexMax
  <2> QED BY <1>0, <1>1, <1>2, <2>1 DEF ScanNext
<1>9. ASSUME UpdateScan(p) PROVE ScanNext(p) /\ ClaimNext(readIndexMax')
  <2>1. /\ pc[p] = "urim_scan" /\ pc'[p] = "urim_scan" /\ urim'[p].w = urim[p].w
        /\ urim'[p].new = urim[p].i + 1 /\ urim'[p].i = urim[p].i + 1
        /\ writeIndex' = writeIndex /\ readIndexMax' = readIndexMax
    BY <1>0, <1>9 DEF UpdateScan
  <2>2. urim[p].i < writeIndex /\ Published(Slot(urim[p].i))
    BY <1>0, <1>1, <1>9, <2>1 DEF UpdateScan, Scannable, Published
  <2>3. Claim(urim[p].i + 1)
    BY <1>0, <1>1, <2>1, <2>2 DEF Claim
  <2> QED BY <1>0, <1>1, <1>2, <2>1, <2>3 DEF ScanNext
<1>10. ASSUME UpdateScanEnd(p) PROVE ScanNext(p) /\ ClaimNext(readIndexMax')
  <2>1. pc[p] = "urim_scan" /\ pc'[p] = "urim_cas" /\ UNCHANGED <<urim, writeIndex, readIndexMax>>
    BY <1>0, <1>10 DEF UpdateScanEnd
  <2> QED BY <1>0, <1>1, <1>2, <2>1 DEF ScanNext, Updating
<1>11. ASSUME UpdateCas(p) PROVE ScanNext(p) /\ ClaimNext(readIndexMax')
  <2>1. /\ pc[p] = "urim_cas" /\ pc'[p] = "urim_while" /\ UNCHANGED <<urim, writeIndex>>
        /\ readIndexMax' = urim[p].new
    BY <1>0, <1>11 DEF UpdateCas
  <2> QED BY <1>0, <1>1, <1>2, <2>1 DEF ScanNext, Updating
<1>12. ASSUME UpdateCasFails(p) PROVE ScanNext(p) /\ ClaimNext(readIndexMax')
  <2>1. /\ pc[p] = "urim_cas" /\ pc'[p] = "urim_while" /\ UNCHANGED <<writeIndex, readIndexMax>>
        /\ urim'[p].new = urim[p].new /\ urim'[p].w = urim[p].w
    BY <1>0, <1>12 DEF UpdateCasFails
  <2> QED BY <1>0, <1>1, <1>2, <2>1 DEF ScanNext, Updating
<1>13. ASSUME UpdateAgain(p) PROVE ScanNext(p) /\ ClaimNext(readIndexMax')
  <2>1. /\ pc[p] = "urim_while" /\ pc'[p] = "urim_scan" /\ UNCHANGED <<writeIndex, readIndexMax>>
        /\ urim'[p].new = urim[p].new /\ urim'[p].w = urim[p].w /\ urim'[p].i = urim[p].m
    BY <1>0, <1>13 DEF UpdateAgain
  <2>2. Claim(urim[p].m) /\ Claim(urim[p].new)
    BY <1>0, <1>1, <2>1 DEF Claim, Updating
  <2> QED BY <1>0, <1>1, <1>2, <2>1, <2>2 DEF ScanNext
<1> QED BY <1>4, <1>5, <1>6, <1>7, <1>8, <1>9, <1>10, <1>11, <1>12, <1>13, PlainSteps
    DEF ScanInv, PlainStep, UpdateStep

LEMMA ScanInvStep == ASSUME PushOnly, ScanInv, [Next]_vars PROVE ScanInv'
<1>0. PlainInv' /\ UrimOK' /\ writeIndex' >= writeIndex /\ writeIndex \in Nat /\ writeIndex' \in Nat
      /\ readIndexMax \in Nat /\ urim \in [Producers -> [r : Nat, w : Nat, m : Nat, new : Nat, i : Nat]]
  BY PlainInvStep, UrimStep, IndicesGrow DEF ScanInv, PlainInv, IndInv, TypeOK
<1>1. \A n \in Nat : Claim(n) => ClaimNext(n)
  BY ClaimKept DEF ScanInv
<1>2. ASSUME NEW q \in Producers, pc'[q] = pc[q], urim'[q] = urim[q] PROVE ScanNext(q)
  BY <1>0, <1>1, <1>2 DEF ScanNext, ScanInv, ScanOK
<1>3. ASSUME ClaimNext(readIndexMax'), \A q \in Producers : ScanNext(q) PROVE ScanOK'
  BY <1>3 DEF ScanOK, ScanNext, Claim, ClaimNext
<1>4. ASSUME NEW p \in Producers, ProducerStep(p) \/ \E f \in Calls[p] : Call(p, f) PROVE ScanOK'
  <2>1. ScanNext(p) /\ ClaimNext(readIndexMax')
    BY <1>4, ScanStep
  <2>2. \A q \in Producers \ {p} : ScanNext(q)
    BY <1>2, <1>4, OthersSame DEF Same, ScanInv, PlainInv
  <2> QED BY <1>3, <2>1, <2>2
<1>5. ASSUME UNCHANGED <<pc, urim, readIndexMax>> PROVE ScanOK'
  <2>1. \A q \in Producers : ScanNext(q)
    BY <1>2, <1>5
  <2>2. ClaimNext(readIndexMax')
    BY <1>0, <1>1, <1>5 DEF ScanInv, ScanOK
  <2> QED BY <1>3, <2>1, <2>2
<1>6. ConsumerStep \/ UNCHANGED vars => UNCHANGED <<pc, urim, readIndexMax>>
  BY ConsumerFrame DEF vars, producer, shared
<1> QED BY <1>0, <1>4, <1>5, <1>6 DEF ScanInv, Next

LEMMA InitScanInv == Init => ScanInv
<1> SUFFICES ASSUME Init PROVE ScanInv
  OBVIOUS
<1>1. UrimOK /\ ScanOK
  BY DEF Init, UrimOK, ScanOK, Claim, Scanning
<1> QED BY <1>1, InitPlainInv DEF ScanInv

(* Everything below readIndexMax can be popped, although the producers store  *)
(* there what they found in the semaphores some time ago.                     *)
THEOREM MaxIsPublished == ASSUME PushOnly PROVE Spec => []PublishedBelowMax
<1>1. ScanInv => PublishedBelowMax
  BY DEF ScanInv, ScanOK, Claim, PublishedBelowMax
<1>2. ScanInv /\ [Next]_vars => ScanInv'
  BY ScanInvStep
<1> QED BY <1>1, <1>2, InitScanInv, PTL DEF Spec

-----------------------------------------------------------------------------
(* Counting.  An entry is counted before it is posted and until it has been   *)
(* popped; with nobody removing entries the count is exact.                   *)

Posting == {p \in Producers : pc[p] = "post"}

ExactInv == PlainInv /\ previousData = Cardinality(Counted) + Cardinality(Posting) + Popping

LEMMA PostingFinite ==
  PlainInv => /\ IsFiniteSet(Counted) /\ Cardinality(Counted) \in Nat /\ Popping \in {0, 1}
              /\ IsFiniteSet(Posting) /\ Cardinality(Posting) \in Nat
<1>1. Posting \subseteq Producers
  BY DEF Posting
<1> QED BY <1>1, Finite, FS_Subset, FS_CardinalityType, ProducersAssumption DEF Popping, PlainInv

LEMMA ProducerExact ==
  ASSUME ExactInv, NEW p \in Producers, ProducerStep(p) \/ \E f \in Calls[p] : Call(p, f)
  PROVE  previousData' = Cardinality(Counted') + Cardinality(Posting') + Popping'
<1> DEFINE Goal == previousData' = Cardinality(Counted') + Cardinality(Posting') + Popping'
<1> USE DEF ExactInv
<1>1. /\ pc \in [Producers -> ProducerPcs] /\ ready \in [Slots -> BOOLEAN] /\ previousData \in Int
      /\ index[p] \in Nat
  BY DEF PlainInv, IndInv, TypeOK
<1>2. Popping' = Popping /\ ConsumerSlots' = ConsumerSlots
  <2>1. UNCHANGED <<cpc, hasFrontOwnership, readIndex>>
    BY ProducerFrame DEF consumer
  <2> QED BY <2>1 DEF Popping, ConsumerSlots, Front
<1>3. \A q \in Producers \ {p} : pc'[q] = pc[q]
  BY OthersSame DEF Same, PlainInv
<1>4. ASSUME UNCHANGED <<ready, previousData>>, pc[p] # "post", pc'[p] # "post" PROVE Goal
  <2>1. Posting' = Posting
    BY <1>3, <1>4 DEF Posting
  <2>2. Counted' = Counted
    BY <1>2, <1>4 DEF Counted, ReadySlots
  <2> QED BY <1>2, <1>4, <2>1, <2>2
<1>5. ASSUME CountPreviousData(p) PROVE Goal
  <2>1. pc[p] = "count" /\ pc'[p] = "post" /\ previousData' = previousData + 1 /\ ready' = ready
    BY <1>1, <1>5 DEF CountPreviousData, Goto
  <2>2. p \notin Posting /\ Posting' = Posting \cup {p}
    BY <1>3, <2>1 DEF Posting
  <2>3. Counted' = Counted
    BY <1>2, <2>1 DEF Counted, ReadySlots
  <2>4. Cardinality(Posting') = Cardinality(Posting) + 1
    BY <2>2, PostingFinite, FS_AddElement
  <2> QED BY <1>2, <2>1, <2>3, <2>4, PostingFinite
<1>6. ASSUME Post(p) PROVE Goal
  <2> DEFINE s == Slot(index[p])
  <2>1. pc[p] = "post" /\ pc'[p] = "urim_r" /\ previousData' = previousData /\ ready' = [ready EXCEPT ![s] = TRUE]
    BY <1>1, <1>6 DEF Post, Goto
  <2>2. p \in Posting /\ Posting' = Posting \ {p}
    BY <1>3, <2>1 DEF Posting
  <2>3. s \in Slots /\ HeldSlots(p) = {s}
    BY <1>1, <2>1, SlotType DEF HeldSlots, Writing
  <2>4. s \notin Counted
    BY <2>3 DEF Counted, PlainInv, IndInv, SlotOwnership
  <2>5. Counted' = Counted \cup {s}
    BY <1>1, <1>2, <2>1, <2>3 DEF Counted, ReadySlots
  <2>6. Cardinality(Posting') = Cardinality(Posting) - 1 /\ Cardinality(Counted') = Cardinality(Counted) + 1
    BY <2>2, <2>4, <2>5, PostingFinite, FS_AddElement, FS_RemoveElement
  <2> QED BY <1>2, <2>1, <2>6, PostingFinite
<1> HIDE DEF Goal
<1> USE DEF Goto, Return, shared
<1>7. ASSUME NEW f \in Calls[p], Call(p, f) PROVE Goal
  BY <1>1, <1>4, <1>7 DEF Call
<1>8. ASSUME ObtainLoad(p) \/ ObtainNotFull(p) \/ ObtainFull(p) \/ ObtainCas(p) \/ ObtainCasFails(p) PROVE Goal
  BY <1>1, <1>4, <1>8 DEF ObtainLoad, ObtainNotFull, ObtainFull, ObtainCas, ObtainCasFails
<1>9. ASSUME Write(p) PROVE Goal
  <2>1. ret[p]
    BY DEF PlainInv, PlainOK
  <2> QED BY <1>1, <1>4, <1>9, <2>1 DEF Write, AfterWrite
<1>10. ASSUME UpdateStep(p) PROVE Goal
  BY <1>1, <1>4, <1>10 DEF UpdateStep, UpdateLoadReadIndex, UpdateLoadWriteIndex, UpdateLoadReadIndexMax,
     UpdateScan, UpdateScanEnd, UpdateCas, UpdateCasFails, UpdateAgain, UpdateDone
<1>11. Goal
  BY <1>5, <1>6, <1>7, <1>8, <1>9, <1>10, PlainSteps DEF PlainStep, PublishStep
<1> QED BY <1>11 DEF Goal

LEMMA ConsumerExact ==
  ASSUME ExactInv, ConsumerStep
  PROVE  previousData' = Cardinality(Counted') + Cardinality(Posting') + Popping'
<1> DEFINE Goal == previousData' = Cardinality(Counted') + Cardinality(Posting') + Popping'
<1> USE DEF ExactInv
<1>1. /\ ready \in [Slots -> BOOLEAN] /\ previousData \in Int /\ readIndex \in Nat /\ Front \in Slots
      /\ hasFrontOwnership \in BOOLEAN /\ Posting' = Posting
  BY ConsumerFrame, SlotType DEF PlainInv, IndInv, TypeOK, Front, Posting, producer
<1>2. ASSUME UNCHANGED previousData, Popping' = Popping, Counted' = Counted PROVE Goal
  BY <1>1, <1>2
<1>3. ASSUME TakeFront, ConsumerSlots' = {Front} PROVE Counted' = Counted
  <2>1. Front \in ReadySlots /\ ReadySlots' = ReadySlots \ {Front} /\ ConsumerSlots \subseteq {Front}
    BY <1>1, <1>3 DEF TakeFront, ReadySlots, ConsumerSlots
  <2> QED BY <1>3, <2>1 DEF Counted
<1>4. ASSUME UNCHANGED ready, ConsumerSlots' = ConsumerSlots PROVE Counted' = Counted
  BY <1>4 DEF Counted, ReadySlots
<1> HIDE DEF Goal
<1>5. ASSUME Pop PROVE Goal
  <2>1. Counted' = Counted
    BY <1>3, <1>4, <1>5 DEF Pop, ConsumerSlots, Front
  <2> QED BY <1>2, <1>5, <2>1 DEF Pop, Popping
<1>6. ASSUME PopWaitWake \/ Empty \/ WaitWake PROVE Goal
  <2>1. Counted' = Counted
    BY <1>3, <1>6 DEF PopWaitWake, Empty, WaitWake, ConsumerSlots, Front
  <2> QED BY <1>2, <1>6, <2>1 DEF PopWaitWake, Empty, WaitWake, Popping
<1>7. ASSUME PopWait \/ Wait \/ Read PROVE Goal
  <2>1. UNCHANGED ready /\ ConsumerSlots' = ConsumerSlots
    BY <1>1, <1>7 DEF PopWait, Wait, Read, ConsumerSlots, Front, shared
  <2> QED BY <1>2, <1>4, <1>7, <2>1 DEF PopWait, Wait, Read, Popping, shared
<1>8. ASSUME Advance PROVE Goal
  <2>1. /\ cpc = "advance" /\ cpc' = "decrement" /\ ~hasFrontOwnership'
        /\ UNCHANGED <<ready, previousData>>
    BY <1>8 DEF Advance
  <2>2. ConsumerSlots = {Front} /\ ConsumerSlots' = {} /\ ReadySlots' = ReadySlots
    BY <2>1 DEF ConsumerSlots, ReadySlots
  <2>3. Front \in Counted /\ Counted' = Counted \ {Front}
    BY <2>2 DEF Counted, PlainInv, IndInv, SlotOwnership
  <2>4. Cardinality(Counted') = Cardinality(Counted) - 1
    BY <2>3, PostingFinite, FS_RemoveElement
  <2>5. Popping = 0 /\ Popping' = 1
    BY <2>1 DEF Popping
  <2> QED BY <1>1, <2>1, <2>4, <2>5, PostingFinite DEF Goal
<1>9. ASSUME Decrement PROVE Goal
  <2>1. Popping = 1 /\ Popping' = 0 /\ previousData' = previousData - 1 /\ UNCHANGED ready
    BY <1>9 DEF Decrement, Popping
  <2>2. Counted' = Counted
    BY <1>9, <2>1 DEF Decrement, Counted, ReadySlots, ConsumerSlots, Front
  <2> QED BY <1>1, <2>1, <2>2, PostingFinite DEF Goal
<1>10. Goal
  BY <1>5, <1>6, <1>7, <1>8, <1>9 DEF ConsumerStep
<1> QED BY <1>10 DEF Goal

(* What a when_any() placed now is told of this queue is exactly what it has  *)
(* to announce: the entries ready or in the consumer's hands, and those about *)
(* to be posted.                                                              *)
THEOREM CounterExact == ASSUME PushOnly PROVE Spec => []PreviousDataExact
<1>1. Init => ExactInv
  <2> SUFFICES ASSUME Init PROVE ExactInv
    OBVIOUS
  <2>1. Counted = {} /\ Posting = {} /\ Popping = 0 /\ previousData = 0
    BY DEF Init, Counted, ReadySlots, ConsumerSlots, Posting, Popping
  <2> QED BY <2>1, InitPlainInv, FS_EmptySet DEF ExactInv
<1>2. ExactInv /\ [Next]_vars => ExactInv'
  <2> SUFFICES ASSUME ExactInv, [Next]_vars PROVE ExactInv'
    OBVIOUS
  <2>1. PlainInv'
    BY PlainInvStep DEF ExactInv
  <2>2. CASE Next
    BY <2>1, <2>2, ProducerExact, ConsumerExact DEF Next, ExactInv
  <2>3. CASE UNCHANGED vars
    <3>1. Counted' = Counted /\ Posting' = Posting /\ Popping' = Popping /\ previousData' = previousData
      BY <2>3 DEF vars, shared, producer, consumer, Counted, Posting, Popping, ReadySlots, ConsumerSlots, Front
    <3> QED BY <2>1, <3>1 DEF ExactInv
  <2> QED BY <2>2, <2>3
<1>3. ExactInv => PreviousDataExact
  BY DEF ExactInv, PreviousDataExact, Counted, Posting, Popping
<1> QED BY <1>1, <1>2, <1>3, PTL DEF Spec

-----------------------------------------------------------------------------
(* Before the consumer takes anything, no published entry is overlooked:      *)
(* while readIndexMax is behind a filled prefix of the queue, some producer   *)
(* is still bound to move it beyond.                                          *)

Untouched == delivered = <<>> /\ ConsumerSlots = {}
Filled(k) == \A j \in 0 .. k : ready[Slot(j)]

Covers(p, k) ==
    \/ pc[p] \in {"urim_r", "urim_w"}
    \/ pc[p] \in {"urim_m", "urim_scan"} /\ k < urim[p].w
    \/ pc[p] \in {"urim_cas", "urim_while"} /\ k < urim[p].w /\ k < urim[p].new

CoverOK ==
    Untouched => \A k \in 0 .. Length :
        Filled(k) /\ readIndexMax <= k => \E p \in Producers : Covers(p, k)

AheadOK == \A p \in Producers : pc[p] = "urim_scan" => urim[p].i <= urim[p].new

CoverInv == ScanInv /\ readIndex = Len(delivered) /\ AheadOK /\ CoverOK

LEMMA AheadStep ==
  ASSUME IndInv, UrimOK, AheadOK, [Next]_vars
  PROVE  AheadOK'
<1> USE DEF IndInv, TypeOK, Goto, Return
<1>1. ASSUME NEW p \in Producers, ProducerStep(p) \/ \E f \in Calls[p] : Call(p, f) PROVE AheadOK'
  <2>1. \A q \in Producers \ {p} : pc'[q] = pc[q] /\ urim'[q] = urim[q]
    BY <1>1, OthersSame DEF Same
  <2>2. pc'[p] = "urim_scan" => urim'[p].i <= urim'[p].new
    <3>0. pc[p] = "urim_scan" => urim[p].i <= urim[p].new
      BY DEF AheadOK
    <3>1. ASSUME NEW f \in Calls[p], Call(p, f) PROVE pc'[p] # "urim_scan"
      BY <3>1 DEF Call
    <3>2. ASSUME ObtainStep(p) PROVE pc'[p] # "urim_scan"
      BY <3>2 DEF ObtainStep, ObtainLoad, ObtainNotFull, ObtainFull, ObtainFullOverwrite, ObtainCas, ObtainCasFails
    <3>3. ASSUME OverwriteStep(p) PROVE pc'[p] # "urim_scan"
      BY <3>3 DEF OverwriteStep, OverwriteReset, OverwriteResetFails, OverwriteRollback, OverwriteRollbackFails,
         OverwriteRestore
    <3>4. ASSUME PublishStep(p) PROVE pc'[p] # "urim_scan"
      BY <3>4 DEF PublishStep, Write, AfterWrite, CountPreviousData, Post
    <3>5. ASSUME UpdateLoadReadIndex(p) \/ UpdateLoadWriteIndex(p) \/ UpdateScanEnd(p) \/ UpdateCas(p)
                 \/ UpdateCasFails(p) \/ UpdateDone(p)
          PROVE  pc'[p] # "urim_scan"
      BY <3>5 DEF UpdateLoadReadIndex, UpdateLoadWriteIndex, UpdateScanEnd, UpdateCas, UpdateCasFails, UpdateDone
    <3>6. ASSUME UpdateLoadReadIndexMax(p) \/ UpdateScan(p) PROVE urim'[p].i = urim'[p].new
      <4>1. CASE UpdateLoadReadIndexMax(p)
        BY <4>1 DEF UpdateLoadReadIndexMax
      <4>2. CASE UpdateScan(p)
        BY <4>2 DEF UpdateScan
      <4> QED BY <3>6, <4>1, <4>2
    <3>7. ASSUME UpdateAgain(p) PROVE urim'[p].i <= urim'[p].new
      <4>1. urim'[p].i = urim[p].m /\ urim'[p].new = urim[p].new /\ readIndexMax < urim[p].new /\ pc[p] = "urim_while"
        BY <3>7 DEF UpdateAgain, Behind
      <4> QED BY <4>1 DEF UrimOK
    <3>8. urim' \in [Producers -> [r : Nat, w : Nat, m : Nat, new : Nat, i : Nat]]
      BY Inductive
    <3> QED BY <1>1, <3>1, <3>2, <3>3, <3>4, <3>5, <3>6, <3>7, <3>8 DEF ProducerStep, UpdateStep
  <2> QED BY <2>1, <2>2 DEF AheadOK
<1>2. ConsumerStep \/ UNCHANGED vars => UNCHANGED <<pc, urim>>
  BY ConsumerFrame DEF vars, producer
<1>3. ASSUME UNCHANGED <<pc, urim>> PROVE AheadOK'
  BY <1>3 DEF AheadOK
<1> QED BY <1>1, <1>2, <1>3 DEF Next

(* The consumer has taken nothing: the first entry is in slot 0.              *)
LEMMA UntouchedAtZero == ASSUME CoverInv, Untouched PROVE readIndex = 0
BY DEF CoverInv, Untouched

LEMMA FilledBelowWriteIndex ==
  ASSUME CoverInv, Untouched, NEW k \in 0 .. Length, Filled(k)
  PROVE  k < writeIndex
<1> USE DEF CoverInv, ScanInv, PlainInv, IndInv, TypeOK
<1>1. readIndex = 0 /\ writeIndex \in Nat /\ writeIndex <= Length /\ k \in Nat
  BY UntouchedAtZero, LengthAssumption DEF WithinCapacity
<1>2. Slot(k) \in ReadySlots
  BY <1>1, SlotType DEF Filled, ReadySlots
<1>3. Slot(k) \in Span(0, writeIndex)
  BY <1>1, <1>2 DEF SlotOwnership, Occupied
<1>4. PICK i \in 0 .. writeIndex - 1 : Slot(k) = Slot(i)
  BY <1>1, <1>3 DEF Span
<1>5. i = k
  BY <1>1, <1>4, SlotDistinct, LengthAssumption
<1> QED BY <1>1, <1>5

(* A producer that covers an entry either still does after its step or has    *)
(* moved readIndexMax beyond.                                                 *)
LEMMA CoverLasts ==
  ASSUME CoverInv, Untouched, NEW p \in Producers, ProducerStep(p) \/ \E f \in Calls[p] : Call(p, f),
         NEW k \in 0 .. Length, Filled(k), Covers(p, k), readIndexMax' <= k
  PROVE  Covers(p, k)'
<1> USE DEF Goto, Return, shared
<1>1. /\ urim[p] \in [r : Nat, w : Nat, m : Nat, new : Nat, i : Nat]
      /\ pc \in [Producers -> ProducerPcs] /\ urim \in [Producers -> [r : Nat, w : Nat, m : Nat, new : Nat, i : Nat]]
      /\ readIndexMax \in Nat /\ writeIndex \in Nat /\ writeIndex <= Length /\ k \in Nat
      /\ pc[p] = "urim_scan" => urim[p].i <= urim[p].new
  <2>1. readIndex = 0
    BY UntouchedAtZero
  <2> QED BY <2>1, LengthAssumption DEF CoverInv, ScanInv, PlainInv, IndInv, TypeOK, WithinCapacity, AheadOK
<1>2. k < writeIndex
  BY FilledBelowWriteIndex
<1>3. pc[p] \in {"urim_r", "urim_w"} \cup Scanning
  BY DEF Covers, Scanning
<1>4. ASSUME NEW f \in Calls[p], Call(p, f) PROVE FALSE
  BY <1>3, <1>4 DEF Call, Scanning
<1>5. ASSUME ObtainLoad(p) \/ ObtainNotFull(p) \/ ObtainFull(p) \/ ObtainCas(p) \/ ObtainCasFails(p) PROVE FALSE
  BY <1>3, <1>5 DEF ObtainLoad, ObtainNotFull, ObtainFull, ObtainCas, ObtainCasFails, Scanning
<1>6. ASSUME PublishStep(p) PROVE FALSE
  BY <1>3, <1>6 DEF PublishStep, Write, CountPreviousData, Post, Scanning
<1>7. ASSUME UpdateLoadReadIndex(p) PROVE Covers(p, k)'
  <2>1. pc'[p] = "urim_w"
    BY <1>1, <1>7 DEF UpdateLoadReadIndex
  <2> QED BY <2>1 DEF Covers
<1>8. ASSUME UpdateLoadWriteIndex(p) PROVE Covers(p, k)'
  <2>1. pc'[p] = "urim_m" /\ urim'[p].w = Clamped(writeIndex, urim[p].r)
    BY <1>1, <1>8 DEF UpdateLoadWriteIndex
  <2>2. Clamped(writeIndex, urim[p].r) = writeIndex
    BY <1>1, LengthAssumption DEF Clamped, nBuffers
  <2> QED BY <1>2, <2>1, <2>2 DEF Covers
<1>9. ASSUME UpdateLoadReadIndexMax(p) \/ UpdateScan(p) \/ UpdateAgain(p) PROVE Covers(p, k)'
  <2>1. pc'[p] = "urim_scan" /\ urim'[p].w = urim[p].w
    <3>1. CASE UpdateLoadReadIndexMax(p)
      BY <1>1, <3>1 DEF UpdateLoadReadIndexMax
    <3>2. CASE UpdateScan(p)
      BY <1>1, <3>2 DEF UpdateScan
    <3>3. CASE UpdateAgain(p)
      BY <1>1, <3>3 DEF UpdateAgain
    <3> QED BY <1>9, <3>1, <3>2, <3>3
  <2>2. k < urim[p].w
    BY <1>9 DEF Covers, UpdateLoadReadIndexMax, UpdateScan, UpdateAgain
  <2> QED BY <2>1, <2>2 DEF Covers
<1>10. ASSUME UpdateScanEnd(p) PROVE Covers(p, k)'
  <2>1. pc[p] = "urim_scan" /\ pc'[p] = "urim_cas" /\ urim' = urim /\ ~Scannable(p)
    BY <1>1, <1>10 DEF UpdateScanEnd
  <2>2. k < urim[p].w
    BY <2>1 DEF Covers
  <2>3. urim[p].i <= k => Scannable(p)
    BY <1>1, <2>2 DEF Scannable, Filled
  <2>4. k < urim[p].new
    BY <1>1, <2>1, <2>3
  <2> QED BY <2>1, <2>2, <2>4 DEF Covers
<1>11. ASSUME UpdateCas(p) PROVE FALSE
  <2>1. pc[p] = "urim_cas" /\ readIndexMax' = urim[p].new
    BY <1>11 DEF UpdateCas
  <2> QED BY <1>1, <2>1 DEF Covers
<1>12. ASSUME UpdateCasFails(p) PROVE Covers(p, k)'
  <2>1. pc[p] = "urim_cas" /\ pc'[p] = "urim_while" /\ urim'[p].w = urim[p].w /\ urim'[p].new = urim[p].new
    BY <1>1, <1>12 DEF UpdateCasFails
  <2> QED BY <2>1 DEF Covers
<1>13. ASSUME UpdateDone(p) PROVE FALSE
  <2>1. pc[p] = "urim_while" /\ readIndexMax' = readIndexMax /\ ~(readIndexMax < urim[p].new)
    BY <1>13 DEF UpdateDone, Behind
  <2> QED BY <1>1, <2>1 DEF Covers
<1>14. PlainStep(p)
  BY PlainSteps DEF CoverInv, ScanInv
<1> QED BY <1>4, <1>5, <1>6, <1>7, <1>8, <1>9, <1>10, <1>11, <1>12, <1>13, <1>14 DEF PlainStep, UpdateStep

LEMMA CoverStep ==
  ASSUME PushOnly, CoverInv, [Next]_vars
  PROVE  CoverOK'
<1> SUFFICES ASSUME Untouched', NEW k \in 0 .. Length, Filled(k)', readIndexMax' <= k
             PROVE  \E p \in Producers : Covers(p, k)'
  BY DEF CoverOK
<1>1. readIndexMax' >= readIndexMax /\ readIndexMax \in Nat /\ readIndexMax' \in Nat /\ k \in Nat
      /\ ready \in [Slots -> BOOLEAN]
  BY UrimStep, PlainInvStep, LengthAssumption, SMTT(30) DEF CoverInv, ScanInv, PlainInv, IndInv, TypeOK
<1>2. ASSUME Untouched, ready' = ready PROVE \E q \in Producers : Covers(q, k)
  <2>1. Filled(k) /\ readIndexMax <= k
    BY <1>1, <1>2 DEF Filled, Slot
  <2> QED BY <1>2, <2>1 DEF CoverInv, CoverOK
<1>3. ASSUME NEW p \in Producers, ProducerStep(p) \/ \E f \in Calls[p] : Call(p, f)
      PROVE  \E q \in Producers : Covers(q, k)'
  <2>1. Untouched
    <3>1. UNCHANGED <<hasFrontOwnership, cpc, delivered, readIndex>>
      BY <1>3, ProducerFrame DEF CoverInv, ScanInv, consumer
    <3> QED BY <3>1 DEF Untouched, ConsumerSlots, Front
  <2>2. CASE Post(p)
    <3>1. pc'[p] = "urim_r"
      BY <2>2 DEF Post, Goto, CoverInv, ScanInv, PlainInv, IndInv, TypeOK
    <3> QED BY <3>1 DEF Covers
  <2>3. CASE ~Post(p)
    <3>1. ready' = ready
      BY <1>3, <2>3, ProducerFrame DEF CoverInv, ScanInv
    <3>2. PICK q \in Producers : Covers(q, k)
      BY <1>2, <2>1, <3>1
    <3>3. Filled(k)
      BY <3>1 DEF Filled, Slot
    <3>4. CASE q = p
      BY <1>3, <2>1, <3>2, <3>3, <3>4, CoverLasts
    <3>5. CASE q # p
      <4>1. pc'[q] = pc[q] /\ urim'[q] = urim[q]
        BY <1>3, <3>5, OthersSame DEF Same, CoverInv, ScanInv, PlainInv
      <4> QED BY <3>2, <4>1 DEF Covers
    <3> QED BY <3>4, <3>5
  <2> QED BY <2>2, <2>3
<1>4. ASSUME ConsumerStep \/ UNCHANGED vars PROVE \E q \in Producers : Covers(q, k)'
  <2>1. Untouched /\ ready' = ready
    <3>1. CASE UNCHANGED vars
      BY <3>1 DEF vars, shared, consumer, Untouched, ConsumerSlots, Front
    <3>2. CASE Pop \/ PopWaitWake \/ Empty \/ WaitWake \/ Read
      BY <3>2 DEF Pop, PopWaitWake, Empty, WaitWake, Read, Untouched, ConsumerSlots
    <3>3. CASE PopWait
      BY <3>3 DEF PopWait, shared, Untouched, ConsumerSlots, CoverInv, ScanInv, PlainInv, IndInv, TypeOK
    <3>4. CASE Wait \/ Decrement
      BY <3>4 DEF Wait, Decrement, shared, Untouched, ConsumerSlots
    <3>5. CASE Advance
      <4>1. delivered' = Append(delivered, item) /\ delivered' = <<>>
        BY <3>5 DEF Advance, Untouched
      <4>2. delivered \in Seq(Entry) /\ item \in Entry
        BY DEF CoverInv, ScanInv, PlainInv, IndInv, TypeOK
      <4>3. Append(delivered, item) # <<>>
        <5>1. Len(Append(delivered, item)) = Len(delivered) + 1 /\ Len(delivered) \in Nat /\ Len(<<>>) = 0
          BY <4>2
        <5> QED BY <5>1
      <4> QED BY <4>1, <4>3
    <3> QED BY <1>4, <3>1, <3>2, <3>3, <3>4, <3>5 DEF ConsumerStep
  <2>2. PICK q \in Producers : Covers(q, k)
    BY <1>2, <2>1
  <2>3. pc' = pc /\ urim' = urim
    BY <1>4, ConsumerFrame DEF vars, producer
  <2> QED BY <2>2, <2>3 DEF Covers
<1> QED BY <1>3, <1>4 DEF Next

LEMMA DeliveredStep ==
  ASSUME PlainInv, readIndex = Len(delivered), [Next]_vars
  PROVE  readIndex' = Len(delivered')
<1> USE DEF PlainInv, IndInv, TypeOK
<1>1. ASSUME Advance PROVE readIndex' = Len(delivered')
  BY <1>1 DEF Advance
<1>2. ConsumerStep => UNCHANGED <<readIndex, delivered>> \/ Advance
  BY DEF ConsumerStep, Pop, PopWait, PopWaitWake, Empty, Wait, WaitWake, Read, Decrement, shared
<1>3. ASSUME NEW p \in Producers, ProducerStep(p) \/ \E f \in Calls[p] : Call(p, f)
      PROVE  UNCHANGED <<readIndex, delivered>>
  BY <1>3, ProducerFrame DEF consumer
<1>4. UNCHANGED vars => UNCHANGED <<readIndex, delivered>>
  BY DEF vars, shared, consumer
<1> QED BY <1>1, <1>2, <1>3, <1>4 DEF Next

LEMMA CoverInvStep == ASSUME PushOnly, CoverInv, [Next]_vars PROVE CoverInv'
<1>1. ScanInv' /\ AheadOK' /\ readIndex' = Len(delivered')
  BY ScanInvStep, AheadStep, DeliveredStep DEF CoverInv, ScanInv, PlainInv
<1> QED BY <1>1, CoverStep DEF CoverInv

(* With no push running read_available() has missed nothing, however the      *)
(* scans of the pushes overlapped.                                            *)
THEOREM AvailableExact == ASSUME PushOnly PROVE Spec => []ReadAvailableExact
<1>1. Init => CoverInv
  <2> SUFFICES ASSUME Init PROVE CoverInv
    OBVIOUS
  <2>1. AheadOK /\ readIndex = Len(delivered)
    BY DEF Init, AheadOK
  <2>2. ASSUME NEW k \in 0 .. Length PROVE ~Filled(k)
    <3>1. 0 \in 0 .. k /\ Slot(0) \in Slots
      BY SlotType, LengthAssumption
    <3> QED BY <3>1 DEF Init, Filled
  <2> QED BY <2>1, <2>2, InitScanInv DEF CoverInv, CoverOK
<1>2. CoverInv /\ [Next]_vars => CoverInv'
  BY CoverInvStep
<1>3. CoverInv => ReadAvailableExact
  <2> SUFFICES ASSUME CoverInv, AtRest, delivered = <<>>, ~hasFrontOwnership
               PROVE  readIndexMax - readIndex = writeIndex - readIndex
    BY DEF ReadAvailableExact, read_available
  <2> USE DEF CoverInv, ScanInv, PlainInv, IndInv, TypeOK
  <2>1. Untouched /\ readIndex = 0
    BY UntouchedAtZero DEF Untouched, ConsumerSlots, AtRest
  <2>2. writeIndex \in Nat /\ readIndexMax \in Nat /\ writeIndex <= Length
    BY <2>1, LengthAssumption DEF WithinCapacity
  <2>3. readIndexMax <= writeIndex
    <3> SUFFICES ASSUME readIndexMax > writeIndex PROVE FALSE
      BY <2>2
    <3>1. readIndexMax - 1 \in readIndex .. readIndexMax - 1
      BY <2>1, <2>2
    <3>2. readIndexMax - 1 < writeIndex
      BY <3>1 DEF ScanOK, Claim
    <3> QED BY <2>2, <3>2
  <2>4. ASSUME readIndexMax < writeIndex PROVE FALSE
    <3> DEFINE k == writeIndex - 1
    <3>1. k \in 0 .. Length /\ readIndexMax <= k
      BY <2>2, <2>4, LengthAssumption
    <3>2. Occupied = ReadySlots
      <4>1. \A p \in Producers : HeldSlots(p) = {}
        BY DEF AtRest, HeldSlots, Writing, Locking
      <4> QED BY <2>1, <4>1 DEF SlotOwnership, Untouched
    <3>3. ASSUME NEW j \in 0 .. k PROVE ready[Slot(j)]
      <4>1. Slot(j) \in Occupied
        BY <2>1, <2>2, SpanMembers DEF Occupied
      <4> QED BY <3>2, <4>1 DEF ReadySlots
    <3>4. PICK p \in Producers : Covers(p, k)
      BY <2>1, <3>1, <3>3 DEF CoverOK, Filled
    <3> QED BY <3>4 DEF AtRest, Covers
  <2> QED BY <2>1, <2>2, <2>3, <2>4
<1> QED BY <1>1, <1>2, <1>3, PTL DEF Spec
=============================================================================
