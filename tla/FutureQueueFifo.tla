-------------------------- MODULE FutureQueueFifo --------------------------
(* More theorems about FutureQueue: it is first-in first-out.  The entries of *)
(* a producer come out in the order of its calls, the returned boolean tells  *)
(* whether an entry arrived, and the queue implements FifoQueue.              *)
EXTENDS FutureQueueCounting, SequenceTheorems

-----------------------------------------------------------------------------
(* What the slots contain.                                                    *)

(* A producer that has written but not posted has its own entry in the slot;  *)
(* the consumer has read the entry that is at the front; calls are counted    *)
(* and bounded.                                                               *)
ContentOK ==
    /\ \A p \in Producers :
         /\ pc[p] \in {"count", "post"} => EntryAt(Slot(index[p])).id = Id(p)
         /\ calls[p] <= MaxCalls[p]
         /\ pc[p] # "idle" => calls[p] >= 1
    /\ cpc = "advance" => item = EntryAt(Front)
    /\ Len(delivered) = readIndex

ContentInv == IndInv /\ ContentOK

(* What a step of a producer leaves alone.                                    *)
LEMMA PusherFrame ==
  ASSUME IndInv, NEW p \in Producers, ProducerStep(p) \/ \E f \in Calls[p] : Call(p, f)
  PROVE  /\ UNCHANGED <<consumer, readIndex>>
         /\ writeIndex' = writeIndex \/ ObtainCas(p) \/ OverwriteRollback(p)
         /\ UNCHANGED payload \/ Write(p)
         /\ calls' = calls \/ \E f \in Calls[p] : Call(p, f)
         /\ \A q \in Producers \ {p} : calls'[q] = calls[q] /\ result'[q] = result[q]
<1> USE DEF IndInv, TypeOK, Return, shared, function
<1>1. ASSUME NEW f \in Calls[p], Call(p, f)
      PROVE  /\ UNCHANGED <<consumer, readIndex, writeIndex, payload, result>>
             /\ \A q \in Producers \ {p} : calls'[q] = calls[q]
  BY <1>1 DEF Call
<1>2. ASSUME ObtainStep(p)
      PROVE  /\ UNCHANGED <<consumer, readIndex, payload, calls>>
             /\ writeIndex' = writeIndex \/ ObtainCas(p)
             /\ \A q \in Producers \ {p} : result'[q] = result[q]
  BY <1>2 DEF ObtainStep, ObtainLoad, ObtainNotFull, ObtainFull, ObtainFullOverwrite, ObtainCas, ObtainCasFails
<1>3. ASSUME OverwriteStep(p)
      PROVE  /\ UNCHANGED <<consumer, readIndex, payload, calls>>
             /\ writeIndex' = writeIndex \/ OverwriteRollback(p)
             /\ \A q \in Producers \ {p} : result'[q] = result[q]
  BY <1>3 DEF OverwriteStep, OverwriteReset, OverwriteResetFails, OverwriteRollback,
              OverwriteRollbackFails, OverwriteRestore
<1>4. ASSUME PublishStep(p)
      PROVE  /\ UNCHANGED <<consumer, readIndex, writeIndex, calls, result>>
             /\ UNCHANGED payload \/ Write(p)
  BY <1>4 DEF PublishStep, Write, CountPreviousData, Post
<1>5. ASSUME UpdateStep(p)
      PROVE  /\ UNCHANGED <<consumer, readIndex, writeIndex, payload, calls>>
             /\ \A q \in Producers \ {p} : result'[q] = result[q]
  BY <1>5 DEF UpdateStep, UpdateLoadReadIndex, UpdateLoadWriteIndex, UpdateLoadReadIndexMax,
              UpdateScan, UpdateScanEnd, UpdateCas, UpdateCasFails, UpdateAgain, UpdateDone
<1> QED BY <1>1, <1>2, <1>3, <1>4, <1>5 DEF ProducerStep

LEMMA TakerFrame ==
  ASSUME ConsumerStep
  PROVE  /\ UNCHANGED <<producer, payload, writeIndex>>
         /\ UNCHANGED <<readIndex, delivered>> \/ Advance
BY DEF ConsumerStep, Pop, PopWait, PopWaitWake, Empty, Wait, WaitWake, Read, Advance, Decrement, shared, payload

(* Only the producer that holds a slot changes what is in it.                 *)
LEMMA WriteFrame ==
  ASSUME IndInv, NEW p \in Producers, Write(p), NEW s \in Slots
  PROVE  /\ s # Slot(index[p]) => EntryAt(s)' = EntryAt(s)
         /\ s = Slot(index[p]) => (EntryAt(s)').id = Id(p) /\ (EntryAt(s)').kind \in {"value", "exception"}
<1> USE DEF IndInv, TypeOK
<1>1. /\ exceptions' = [exceptions EXCEPT ![Slot(index[p])] = ExceptionWritten(p)]
      /\ buffers' = [buffers EXCEPT ![Slot(index[p])] = BufferWritten(p)]
  BY DEF Write
<1>2. s # Slot(index[p]) => exceptions'[s] = exceptions[s] /\ buffers'[s] = buffers[s]
  BY <1>1
<1>3. s = Slot(index[p]) => exceptions'[s] = ExceptionWritten(p) /\ buffers'[s] = BufferWritten(p)
  BY <1>1
<1>4. Id(p) # NoData
  BY NoDataAssumption DEF Id, Ids
<1>5. \/ ExceptionWritten(p) = Id(p)
      \/ ExceptionWritten(p) = NoData /\ BufferWritten(p) = Id(p)
  BY DEF ExceptionWritten, BufferWritten
<1> QED BY <1>2, <1>3, <1>4, <1>5 DEF EntryAt

LEMMA EntryStays == ASSUME UNCHANGED payload, NEW s PROVE EntryAt(s)' = EntryAt(s)
BY DEF payload, EntryAt

LEMMA ContentStep == ASSUME ContentInv, [Next]_vars PROVE ContentOK'
<1> USE DEF ContentInv
<1>0. /\ pc \in [Producers -> ProducerPcs] /\ calls \in [Producers -> Nat] /\ index \in [Producers -> Nat]
      /\ readIndex \in Nat /\ delivered \in Seq(Entry) /\ item \in Entry
  BY DEF IndInv, TypeOK
<1>1. ASSUME NEW p \in Producers, ProducerStep(p) \/ \E f \in Calls[p] : Call(p, f) PROVE ContentOK'
  <2>1. \A q \in Producers \ {p} : Same(q) /\ calls'[q] = calls[q]
    BY <1>1, OthersSame, PusherFrame
  <2>2. UNCHANGED <<readIndex, cpc, item, delivered, hasFrontOwnership>>
    BY <1>1, PusherFrame DEF consumer
  <2>3. ASSUME NEW s \in Slots, ~(Write(p) /\ s = Slot(index[p])) PROVE EntryAt(s)' = EntryAt(s)
    BY <1>1, <2>3, PusherFrame, WriteFrame, EntryStays
  <2>4. \A q \in Producers : calls'[q] <= MaxCalls[q] /\ (pc'[q] # "idle" => calls'[q] >= 1)
    <3>1. ASSUME NEW f \in Calls[p], Call(p, f) PROVE calls'[p] <= MaxCalls[p] /\ calls'[p] >= 1
      <4>1. calls'[p] = calls[p] + 1 /\ calls[p] < MaxCalls[p] /\ calls[p] \in Nat /\ MaxCalls[p] \in Nat
        BY <1>0, <3>1, BudgetAssumption DEF Call
      <4> QED BY <4>1
    <3>2. ASSUME ProducerStep(p) PROVE pc[p] # "idle"
      BY <3>2 DEF ProducerStep, ObtainStep, OverwriteStep, PublishStep, UpdateStep, Goto,
         ObtainLoad, ObtainNotFull, ObtainFull, ObtainFullOverwrite, ObtainCas, ObtainCasFails,
         OverwriteReset, OverwriteResetFails, OverwriteRollback, OverwriteRollbackFails, OverwriteRestore,
         Write, CountPreviousData, Post, UpdateLoadReadIndex, UpdateLoadWriteIndex, UpdateLoadReadIndexMax,
         UpdateScan, UpdateScanEnd, UpdateCas, UpdateCasFails, UpdateAgain, UpdateDone
    <3>3. CASE \E f \in Calls[p] : Call(p, f)
      BY <2>1, <3>1, <3>3 DEF ContentOK, Same
    <3>4. CASE calls' = calls /\ ProducerStep(p)
      BY <2>1, <3>2, <3>4 DEF ContentOK, Same
    <3> QED BY <1>1, <3>3, <3>4, PusherFrame
  <2>5. ASSUME NEW q \in Producers, pc'[q] \in {"count", "post"} PROVE EntryAt(Slot(index[q])).id' = Id(q)'
    <3>0. index[q] \in Nat /\ Slot(index[q]) \in Slots
      BY <1>0, SlotType
    <3>1. index'[q] = index[q] /\ calls'[q] = calls[q] /\ pc[q] \in Writing
          /\ (~(Write(p) /\ q = p) => pc[q] \in {"count", "post"})
      <4>1. CASE q # p
        BY <2>1, <2>5, <4>1 DEF Same, Writing
      <4>2. CASE q = p
        <5>1. ASSUME NEW f \in Calls[p], Call(p, f) PROVE FALSE
          BY <1>0, <2>5, <4>2, <5>1 DEF Call, Goto
        <5>2. ASSUME ObtainStep(p) PROVE FALSE
          BY <1>0, <2>5, <4>2, <5>2 DEF ObtainStep, ObtainLoad, ObtainNotFull, ObtainFull, ObtainFullOverwrite,
             ObtainCas, ObtainCasFails, Goto, Return
        <5>3. ASSUME OverwriteStep(p) PROVE FALSE
          BY <1>0, <2>5, <4>2, <5>3 DEF OverwriteStep, OverwriteReset, OverwriteResetFails, OverwriteRollback,
             OverwriteRollbackFails, OverwriteRestore, Goto, Return
        <5>4. ASSUME UpdateStep(p) PROVE FALSE
          BY <1>0, <2>5, <4>2, <5>4 DEF UpdateStep, UpdateLoadReadIndex, UpdateLoadWriteIndex,
             UpdateLoadReadIndexMax, UpdateScan, UpdateScanEnd, UpdateCas, UpdateCasFails, UpdateAgain, UpdateDone,
             Goto, Return
        <5>5. CASE PublishStep(p)
          BY <1>0, <2>5, <4>2, <5>5 DEF PublishStep, Write, CountPreviousData, Post, Goto, Writing, function
        <5> QED BY <1>1, <5>1, <5>2, <5>3, <5>4, <5>5 DEF ProducerStep
      <4> QED BY <4>1, <4>2
    <3>2. CASE Write(p) /\ q = p
      BY <3>0, <3>1, <3>2, WriteFrame DEF EntryAt, Id, Slot
    <3>3. CASE ~(Write(p) /\ q = p)
      <4>1. EntryAt(Slot(index[q])).id = Id(q)
        BY <3>1, <3>3 DEF ContentOK
      <4>2. Write(p) => Slot(index[q]) # Slot(index[p])
        <5>1. ASSUME Write(p), q # p PROVE HeldSlots(p) = {Slot(index[p])} /\ HeldSlots(q) = {Slot(index[q])}
          BY <3>1, <5>1 DEF Write, Goto, HeldSlots, Writing
        <5> QED BY <3>3, <5>1 DEF IndInv, SlotOwnership
      <4> QED BY <2>3, <3>0, <3>1, <4>1, <4>2 DEF EntryAt, Id, Slot
    <3> QED BY <3>2, <3>3
  <2>6. cpc' = "advance" => item' = EntryAt(Front)'
    <3> SUFFICES ASSUME cpc = "advance" PROVE item = EntryAt(Front)'
      BY <2>2
    <3>1. Front \in Slots /\ Front \in ConsumerSlots
      BY <1>0, SlotType DEF Front, ConsumerSlots
    <3>2. ~(Write(p) /\ Front = Slot(index[p]))
      <4>1. Write(p) => HeldSlots(p) = {Slot(index[p])}
        BY DEF Write, Goto, HeldSlots, Writing
      <4> QED BY <3>1, <4>1 DEF IndInv, SlotOwnership
    <3> QED BY <2>2, <2>3, <3>1, <3>2 DEF ContentOK, EntryAt, Front, Slot
  <2> QED BY <2>2, <2>4, <2>5, <2>6 DEF ContentOK
<1>2. ASSUME UNCHANGED <<producer, payload>>, cpc' = "advance" => item' = EntryAt(Front)',
             Len(delivered') = readIndex'
      PROVE  ContentOK'
  BY <1>2 DEF ContentOK, producer, function, payload, EntryAt, Id, Slot
<1>3. ASSUME ConsumerStep PROVE ContentOK'
  <2>1. cpc' = "advance" => item' = EntryAt(Front)'
    <3>1. CASE Read
      BY <3>1 DEF Read, shared, payload, EntryAt, Front, Slot
    <3>2. ASSUME ~Read PROVE cpc' # "advance" \/ UNCHANGED <<cpc, item, readIndex>>
      BY <1>3, <3>2 DEF ConsumerStep, Pop, PopWait, PopWaitWake, Empty, Wait, WaitWake, Advance, Decrement
    <3>3. CASE UNCHANGED <<cpc, item, readIndex>>
      BY <1>3, <3>3, TakerFrame DEF ContentOK, payload, EntryAt, Front, Slot
    <3> QED BY <3>1, <3>2, <3>3
  <2>2. Len(delivered') = readIndex'
    <3>1. CASE Advance
      BY <1>0, <3>1 DEF Advance, ContentOK
    <3> QED BY <1>3, <3>1, TakerFrame DEF ContentOK
  <2> QED BY <1>2, <1>3, <2>1, <2>2, TakerFrame
<1>4. CASE UNCHANGED vars
  BY <1>2, <1>4 DEF vars, shared, consumer, ContentOK, payload, EntryAt, Front, Slot
<1> QED BY <1>1, <1>3, <1>4 DEF Next

LEMMA ContentInductive == ContentInv /\ [Next]_vars => ContentInv'
BY ContentStep, Inductive DEF ContentInv

LEMMA InitContentInv == Init => ContentInv
BY InitIndInv, BudgetAssumption DEF ContentInv, ContentOK, Init

-----------------------------------------------------------------------------
(* The line of all entries ever stored and not removed by overwriting: entry  *)
(* i is the one of index i, delivered or still in its slot.  It is genuine    *)
(* unless its producer is still writing.                                      *)

EntryOf(i) == IF i < readIndex THEN delivered[i + 1] ELSE EntryAt(Slot(i))
Line       == 0 .. writeIndex - 1
Genuine(i) == \A p \in Producers : pc[p] \in Writing => index[p] # i
From(i, p) == Genuine(i) /\ EntryOf(i).id[1] = p
Number(i)  == EntryOf(i).id[2]

Unpublished(p) == pc[p] \in {"load", "check", "cas", "reset", "write", "count", "post"} \cup Locking

OrderOK ==
    /\ \A i \in Line : Genuine(i) => EntryOf(i).id \in Ids
    /\ \A p \in Producers, i \in Line : From(i, p) =>
         /\ 1 <= Number(i) /\ Number(i) <= calls[p]
         /\ Unpublished(p) => Number(i) < calls[p]
         /\ pc[p] \in Writing => i < index[p]
    /\ \A p \in Producers, i, j \in Line : i < j /\ From(i, p) /\ From(j, p) => Number(i) < Number(j)

OrderInv == ContentInv /\ OrderOK

(* No step but the one that writes it changes a stored entry; moving from its *)
(* slot to the consumer does not either.                                      *)
LEMMA EntryOfStays ==
  ASSUME ContentInv, [Next]_vars, NEW i \in Nat, i < writeIndex,
         \A p \in Producers : Write(p) => index[p] # i
  PROVE  EntryOf(i)' = EntryOf(i)
<1> USE DEF ContentInv
<1>0. /\ index \in [Producers -> Nat] /\ readIndex \in Nat /\ writeIndex \in Nat /\ writeIndex <= readIndex + Length
      /\ delivered \in Seq(Entry) /\ item \in Entry /\ Len(delivered) = readIndex /\ Slot(i) \in Slots
  BY SlotType DEF IndInv, TypeOK, ContentOK, WithinCapacity
<1>1. ASSUME UNCHANGED <<readIndex, delivered>>, i >= readIndex => EntryAt(Slot(i))' = EntryAt(Slot(i))
      PROVE  EntryOf(i)' = EntryOf(i)
  BY <1>0, <1>1 DEF EntryOf
<1>2. ASSUME UNCHANGED payload PROVE EntryAt(Slot(i))' = EntryAt(Slot(i))
  BY <1>2 DEF payload, EntryAt, Slot
<1>3. ASSUME NEW p \in Producers, ProducerStep(p) \/ \E f \in Calls[p] : Call(p, f)
      PROVE  EntryOf(i)' = EntryOf(i)
  <2>1. UNCHANGED <<readIndex, delivered>>
    BY <1>3, PusherFrame DEF consumer
  <2>2. ASSUME Write(p), i >= readIndex PROVE EntryAt(Slot(i))' = EntryAt(Slot(i))
    <3>1. readIndex <= index[p] /\ index[p] < writeIndex /\ index[p] # i
      BY <2>2 DEF Write, Goto, IndInv, IndexOK, Writing
    <3>2. Slot(i) # Slot(index[p])
      BY <1>0, <2>2, <3>1, SlotDistinct, LengthAssumption
    <3> QED BY <1>0, <2>2, <3>2, WriteFrame DEF EntryAt, Slot
  <2> QED BY <1>1, <1>2, <1>3, <2>1, <2>2, PusherFrame
<1>4. ASSUME Advance PROVE EntryOf(i)' = EntryOf(i)
  <2>1. /\ readIndex' = readIndex + 1 /\ delivered' = Append(delivered, item) /\ UNCHANGED payload
        /\ cpc = "advance" /\ item = EntryAt(Front)
    BY <1>4 DEF Advance, ContentOK, payload
  <2>2. CASE i < readIndex
    <3>1. delivered'[i + 1] = delivered[i + 1] /\ i < readIndex'
      BY <1>0, <2>1, <2>2
    <3> QED BY <2>2, <3>1 DEF EntryOf
  <2>3. CASE i = readIndex
    <3>1. delivered'[i + 1] = item /\ i < readIndex' /\ ~(i < readIndex)
      BY <1>0, <2>1, <2>3
    <3> QED BY <2>1, <2>3, <3>1 DEF EntryOf, Front
  <2>4. CASE i > readIndex
    <3>1. ~(i < readIndex) /\ ~(i < readIndex')
      BY <1>0, <2>1, <2>4
    <3> QED BY <1>2, <2>1, <3>1 DEF EntryOf
  <2> QED BY <1>0, <2>2, <2>3, <2>4
<1>5. CASE ConsumerStep
  BY <1>1, <1>2, <1>4, <1>5, TakerFrame
<1>6. CASE UNCHANGED vars
  BY <1>1, <1>2, <1>6 DEF vars, shared, consumer
<1> QED BY <1>3, <1>5, <1>6 DEF Next

(* A step that makes no entry genuine.                                        *)
LEMMA OrderKept ==
  ASSUME OrderInv, calls' \in [Producers -> Nat], index' \in [Producers -> Nat],
         \A i \in Line' : Genuine(i)' => i \in Line /\ Genuine(i) /\ EntryOf(i)' = EntryOf(i),
         \A q \in Producers : calls[q] <= calls'[q],
         \A q \in Producers : Unpublished(q)' => Unpublished(q) \/ calls[q] < calls'[q],
         \A q \in Producers : pc'[q] \in Writing =>
             (pc[q] \in Writing /\ index'[q] = index[q]) \/ index'[q] >= writeIndex
  PROVE  OrderOK'
<1>0. /\ writeIndex \in Nat /\ calls \in [Producers -> Nat] /\ index \in [Producers -> Nat]
  BY DEF OrderInv, ContentInv, IndInv, TypeOK
<1>1. ASSUME NEW i \in Line', Genuine(i)' PROVE EntryOf(i).id' \in Ids
  BY <1>1 DEF OrderInv, OrderOK
<1>2. ASSUME NEW q \in Producers, NEW i \in Line', From(i, q)'
      PROVE  i \in Line /\ From(i, q) /\ Number(i)' = Number(i) /\ Number(i) \in Nat
  <2>1. i \in Line /\ Genuine(i) /\ EntryOf(i)' = EntryOf(i)
    BY <1>2 DEF From
  <2>2. EntryOf(i).id \in Ids
    BY <2>1 DEF OrderInv, OrderOK
  <2> QED BY <1>2, <2>1, <2>2 DEF From, Number, Ids
<1>3. ASSUME NEW q \in Producers, NEW i \in Line', From(i, q)'
      PROVE  /\ 1 <= Number(i)' /\ Number(i)' <= calls'[q]
             /\ Unpublished(q)' => Number(i)' < calls'[q]
             /\ pc'[q] \in Writing => i < index'[q]
  <2>1. i \in Line /\ From(i, q) /\ Number(i)' = Number(i) /\ Number(i) \in Nat
    BY <1>2, <1>3
  <2>2. /\ 1 <= Number(i) /\ Number(i) <= calls[q] /\ (Unpublished(q) => Number(i) < calls[q])
        /\ pc[q] \in Writing => i < index[q]
    BY <2>1 DEF OrderInv, OrderOK
  <2>3. calls[q] \in Nat /\ calls'[q] \in Nat /\ calls[q] <= calls'[q]
    BY <1>0
  <2>4. pc'[q] \in Writing => i < index'[q]
    <3>1. i \in Nat /\ i < writeIndex
      BY <1>0, <2>1 DEF Line
    <3>2. CASE pc[q] \in Writing /\ index'[q] = index[q]
      BY <2>2, <3>2
    <3>3. CASE index'[q] >= writeIndex
      <4>1. index'[q] \in Nat
        OBVIOUS
      <4> QED BY <1>0, <3>1, <3>3, <4>1
    <3> QED BY <3>2, <3>3
  <2> QED BY <2>1, <2>2, <2>3, <2>4
<1>4. ASSUME NEW q \in Producers, NEW i \in Line', NEW j \in Line', i < j, From(i, q)', From(j, q)'
      PROVE  Number(i)' < Number(j)'
  BY <1>2, <1>4 DEF OrderInv, OrderOK
<1> QED BY <1>1, <1>3, <1>4 DEF OrderOK

(* Posting makes the entry of the running call genuine.                       *)
LEMMA PostOrder == ASSUME OrderInv, NEW p \in Producers, Post(p), [Next]_vars PROVE OrderOK'
<1> USE DEF OrderInv, ContentInv
<1>0. /\ writeIndex \in Nat /\ readIndex \in Nat /\ calls \in [Producers -> Nat] /\ index \in [Producers -> Nat]
      /\ pc \in [Producers -> ProducerPcs]
  BY DEF IndInv, TypeOK
<1>1. /\ pc[p] = "post" /\ pc' = [pc EXCEPT ![p] = "urim_r"] /\ UNCHANGED <<writeIndex, calls, index>>
  BY DEF Post, Goto, function
<1>2. index[p] \in Line /\ readIndex <= index[p] /\ index[p] < writeIndex
  BY <1>0, <1>1 DEF IndInv, IndexOK, Writing, Line
<1>3. \A i \in Line : EntryOf(i)' = EntryOf(i)
  <2>1. \A q \in Producers : ~Write(q)
    BY <1>0, <1>1 DEF Write, Goto, AfterWrite
  <2>2. \A i \in Line : i \in Nat /\ i < writeIndex
    BY <1>0 DEF Line
  <2> QED BY <2>1, <2>2, EntryOfStays
<1>4. EntryOf(index[p]).id = Id(p)
  BY <1>0, <1>1, <1>2 DEF EntryOf, ContentOK
<1>5. ASSUME NEW i \in Line, Genuine(i)', i # index[p] PROVE Genuine(i)
  BY <1>0, <1>1, <1>5 DEF Genuine
<1>6. Line' = Line
  BY <1>1 DEF Line
<1>7. Id(p) \in Ids /\ Id(p)[1] = p /\ Id(p)[2] = calls[p] /\ calls[p] >= 1
  BY <1>0, <1>1 DEF Id, Ids, ContentOK
<1>8. ASSUME NEW i \in Line, Genuine(i)' PROVE EntryOf(i).id' \in Ids
  BY <1>3, <1>4, <1>5, <1>7, <1>8 DEF OrderOK
<1>9. ASSUME NEW q \in Producers, NEW i \in Line, From(i, q)', ~(q = p /\ i = index[p])
      PROVE  From(i, q) /\ Number(i)' = Number(i)
  <2>1. i # index[p]
    BY <1>3, <1>4, <1>7, <1>9 DEF From
  <2> QED BY <1>3, <1>5, <1>9, <2>1 DEF From, Number
<1>10. Number(index[p])' = calls[p]
  BY <1>2, <1>3, <1>4, <1>7, <1>1 DEF Number
<1>11. ASSUME NEW q \in Producers, NEW i \in Line, From(i, q)'
       PROVE  /\ 1 <= Number(i)' /\ Number(i)' <= calls'[q]
              /\ Unpublished(q)' => Number(i)' < calls'[q]
              /\ pc'[q] \in Writing => i < index'[q]
  <2>1. CASE q = p /\ i = index[p]
    <3>1. ~Unpublished(p)' /\ pc'[p] \notin Writing
      BY <1>0, <1>1 DEF Unpublished, Writing, Locking
    <3>2. Number(i)' = calls[p]
      BY <1>10, <1>1, <2>1 DEF Number, EntryOf
    <3> QED BY <1>0, <1>1, <1>7, <2>1, <3>1, <3>2
  <2>2. CASE ~(q = p /\ i = index[p])
    <3>1. From(i, q) /\ Number(i)' = Number(i)
      BY <1>9, <1>11, <2>2
    <3>2. (Unpublished(q)' => Unpublished(q)) /\ (pc'[q] \in Writing => pc[q] \in Writing)
      BY <1>0, <1>1 DEF Unpublished, Writing, Locking
    <3> QED BY <1>1, <3>1, <3>2 DEF OrderOK
  <2> QED BY <2>1, <2>2
<1>12. ASSUME NEW q \in Producers, NEW i \in Line, NEW j \in Line, i < j, From(i, q)', From(j, q)'
       PROVE  Number(i)' < Number(j)'
  <2>1. CASE q # p \/ (i # index[p] /\ j # index[p])
    BY <1>9, <1>12, <2>1 DEF OrderOK
  <2>2. CASE q = p /\ j = index[p]
    <3>1. i # index[p]
      BY <1>0, <1>12, <2>2 DEF Line
    <3>2. From(i, p) /\ Number(i)' = Number(i)
      BY <1>9, <1>12, <2>2, <3>1
    <3>3. Number(i) < calls[p]
      BY <1>1, <3>2 DEF OrderOK, Unpublished
    <3>4. Number(j)' = calls[p]
      BY <1>10, <1>1, <2>2 DEF Number, EntryOf
    <3> QED BY <3>2, <3>3, <3>4
  <2>3. CASE q = p /\ i = index[p]
    <3>1. j # index[p] /\ j > index[p]
      BY <1>0, <1>12, <2>3 DEF Line
    <3>2. From(j, p)
      BY <1>9, <1>12, <2>3, <3>1
    <3>3. j < index[p]
      BY <1>1, <3>2 DEF OrderOK, Writing
    <3> QED BY <1>0, <3>1, <3>3 DEF Line
  <2> QED BY <2>1, <2>2, <2>3
<1> QED BY <1>1, <1>6, <1>8, <1>11, <1>12 DEF OrderOK

(* What a step does to the position of its producer.                          *)
LEMMA PositionFrame ==
  ASSUME IndInv, NEW p \in Producers, ProducerStep(p) \/ \E f \in Calls[p] : Call(p, f), ~Post(p)
  PROVE  /\ Unpublished(p)' => Unpublished(p) \/ calls'[p] = calls[p] + 1
         /\ pc'[p] \in Writing => (pc[p] \in Writing /\ index'[p] = index[p] /\ ~ObtainCas(p) /\ ~OverwriteRollback(p))
                                  \/ (ObtainCas(p) /\ index'[p] = writeIndex)
         /\ pc[p] \in Writing => pc'[p] \in Writing
<1> USE DEF IndInv, TypeOK, Goto, Return, Unpublished, Writing, Locking, function
<1>1. ASSUME NEW f \in Calls[p], Call(p, f)
      PROVE  calls'[p] = calls[p] + 1 /\ pc'[p] \notin Writing /\ pc[p] \notin Writing
  BY <1>1 DEF Call
<1>2. ASSUME ObtainStep(p), ~ObtainCas(p)
      PROVE  Unpublished(p) /\ pc'[p] \notin Writing /\ pc[p] \notin Writing
  BY <1>2 DEF ObtainStep, ObtainLoad, ObtainNotFull, ObtainFull, ObtainFullOverwrite, ObtainCasFails
<1>3. ASSUME ObtainCas(p)
      PROVE  Unpublished(p) /\ index'[p] = writeIndex /\ pc[p] \notin Writing
  BY <1>3 DEF ObtainCas
<1>4. ASSUME OverwriteStep(p)
      PROVE  Unpublished(p) /\ pc'[p] \notin Writing /\ pc[p] \notin Writing
  BY <1>4 DEF OverwriteStep, OverwriteReset, OverwriteResetFails, OverwriteRollback,
              OverwriteRollbackFails, OverwriteRestore
<1>5. ASSUME Write(p) \/ CountPreviousData(p)
      PROVE  /\ Unpublished(p) /\ pc[p] \in Writing /\ pc'[p] \in Writing /\ index'[p] = index[p]
             /\ ~ObtainCas(p) /\ ~OverwriteRollback(p)
  BY <1>5 DEF Write, AfterWrite, CountPreviousData, ObtainCas, OverwriteRollback
<1>6. ASSUME UpdateStep(p)
      PROVE  ~Unpublished(p)' /\ pc'[p] \notin Writing /\ pc[p] \notin Writing
  BY <1>6 DEF UpdateStep, UpdateLoadReadIndex, UpdateLoadWriteIndex, UpdateLoadReadIndexMax,
              UpdateScan, UpdateScanEnd, UpdateCas, UpdateCasFails, UpdateAgain, UpdateDone
<1> HIDE DEF Unpublished, Writing
<1> QED BY <1>1, <1>2, <1>3, <1>4, <1>5, <1>6 DEF ProducerStep, PublishStep

LEMMA InRange ==
  ASSUME NEW i, NEW v \in Nat, NEW w \in Nat, i \in 0 .. v - 1, v <= w \/ (v = w + 1 /\ i # w)
  PROVE  i \in 0 .. w - 1
OBVIOUS

LEMMA OrderStep == ASSUME OrderInv, [Next]_vars PROVE OrderOK'
<1> USE DEF OrderInv, ContentInv
<1>0. /\ writeIndex \in Nat /\ calls \in [Producers -> Nat] /\ index \in [Producers -> Nat]
      /\ writeIndex' \in Nat /\ calls' \in [Producers -> Nat] /\ index' \in [Producers -> Nat]
  BY Inductive DEF IndInv, TypeOK
<1>1. ASSUME NEW p \in Producers, ProducerStep(p) \/ \E f \in Calls[p] : Call(p, f), ~Post(p) PROVE OrderOK'
  <2>1. \A q \in Producers \ {p} : Same(q) /\ calls'[q] = calls[q]
    BY <1>1, OthersSame, PusherFrame
  <2>2. /\ Unpublished(p)' => Unpublished(p) \/ calls'[p] = calls[p] + 1
        /\ pc'[p] \in Writing => (pc[p] \in Writing /\ index'[p] = index[p] /\ ~ObtainCas(p) /\ ~OverwriteRollback(p))
                                  \/ (ObtainCas(p) /\ index'[p] = writeIndex)
        /\ pc[p] \in Writing => pc'[p] \in Writing
    BY <1>1, PositionFrame
  <2>3. calls'[p] = calls[p] \/ calls'[p] = calls[p] + 1
    BY <1>0, <1>1, PusherFrame DEF Call
  <2>4. \A q \in Producers : calls[q] <= calls'[q]
    BY <1>0, <2>1, <2>3
  <2>5. \A q \in Producers : Unpublished(q)' => Unpublished(q) \/ calls[q] < calls'[q]
    <3>1. \A q \in Producers \ {p} : Unpublished(q)' => Unpublished(q)
      BY <2>1 DEF Same, Unpublished
    <3> QED BY <1>0, <2>2, <3>1
  <2>6. \A q \in Producers : pc'[q] \in Writing =>
             (pc[q] \in Writing /\ index'[q] = index[q]) \/ index'[q] >= writeIndex
    BY <1>0, <2>1, <2>2 DEF Same
  <2>7. ASSUME NEW i \in Line', Genuine(i)' PROVE i \in Line /\ Genuine(i) /\ EntryOf(i)' = EntryOf(i)
    <3>1. i \in Line
      <4>1. writeIndex' = writeIndex \/ (writeIndex' = writeIndex + 1 /\ ObtainCas(p)) \/ writeIndex' = writeIndex - 1
        BY <1>1, PusherFrame DEF ObtainCas, OverwriteRollback
      <4>2. ObtainCas(p) => i # writeIndex
        <5>1. ObtainCas(p) => pc'[p] \in Writing /\ index'[p] = writeIndex
          BY DEF ObtainCas, Goto, Writing, IndInv, TypeOK
        <5> QED BY <2>7, <5>1 DEF Genuine
      <4>3. i \in 0 .. writeIndex' - 1
        BY <2>7 DEF Line
      <4>4. writeIndex' <= writeIndex \/ (writeIndex' = writeIndex + 1 /\ i # writeIndex)
        BY <1>0, <4>1, <4>2
      <4> QED BY <1>0, <4>3, <4>4, InRange DEF Line
    <3>2. Genuine(i)
      <4>1. \A q \in Producers : pc[q] \in Writing => pc'[q] \in Writing /\ index'[q] = index[q]
        <5>1. pc[p] \in Writing => ~ObtainCas(p)
          BY DEF ObtainCas, Goto, Writing
        <5> QED BY <2>1, <2>2, <5>1 DEF Same
      <4> QED BY <2>7, <4>1 DEF Genuine
    <3>3. \A q \in Producers : Write(q) => index[q] # i
      <4>1. \A q \in Producers : Write(q) => pc[q] \in Writing
        BY DEF Write, Goto, Writing
      <4> QED BY <3>2, <4>1 DEF Genuine
    <3>4. i \in Nat /\ i < writeIndex
      BY <1>0, <3>1 DEF Line
    <3> QED BY <3>1, <3>2, <3>3, <3>4, EntryOfStays
  <2> QED BY <1>0, <2>4, <2>5, <2>6, <2>7, OrderKept
<1>2. CASE ConsumerStep \/ UNCHANGED vars
  <2>1. UNCHANGED <<pc, calls, index, writeIndex>>
    BY <1>2, TakerFrame DEF vars, shared, producer, function
  <2>2. ASSUME NEW i \in Line', Genuine(i)' PROVE i \in Line /\ Genuine(i) /\ EntryOf(i)' = EntryOf(i)
    <3>1. i \in Line /\ Genuine(i) /\ i \in Nat /\ i < writeIndex
      BY <1>0, <2>1, <2>2 DEF Line, Genuine
    <3>2. \A q \in Producers : ~Write(q)
      BY <2>1 DEF Write, Goto, AfterWrite, IndInv, TypeOK
    <3> QED BY <3>1, <3>2, EntryOfStays
  <2>3. \A q \in Producers : /\ calls[q] <= calls'[q]
                             /\ Unpublished(q)' => Unpublished(q)
                             /\ pc'[q] \in Writing => (pc[q] \in Writing /\ index'[q] = index[q])
    BY <1>0, <2>1 DEF Unpublished
  <2> QED BY <1>0, <2>2, <2>3, OrderKept
<1> QED BY <1>1, <1>2, PostOrder DEF Next

LEMMA OrderInductive == OrderInv /\ [Next]_vars => OrderInv'
BY OrderStep, ContentInductive DEF OrderInv

LEMMA InitOrderInv == Init => OrderInv
<1> SUFFICES ASSUME Init PROVE OrderInv
  OBVIOUS
<1>1. Line = {}
  BY DEF Init, Line
<1> QED BY <1>1, InitContentInv DEF OrderInv, OrderOK

(* The delivered entries and the settled stored ones in the line.             *)
LEMMA InLine ==
  ASSUME OrderInv
  PROVE  /\ \A j \in DOMAIN delivered :
              j - 1 \in Line /\ j - 1 < readIndex /\ Genuine(j - 1) /\ EntryOf(j - 1) = delivered[j]
         /\ \A k \in DOMAIN Stored :
              /\ readIndex + k - 1 \in Line /\ readIndex + k - 1 >= readIndex
              /\ EntryOf(readIndex + k - 1) = Stored[k]
              /\ Settled(k) => Genuine(readIndex + k - 1)
<1> USE DEF OrderInv, ContentInv
<1>0. /\ index \in [Producers -> Nat] /\ readIndex \in Nat /\ writeIndex \in Nat /\ readIndex <= writeIndex
      /\ delivered \in Seq(Entry) /\ Len(delivered) = readIndex /\ DOMAIN delivered = 1 .. readIndex
  BY DEF IndInv, TypeOK, ContentOK, WithinCapacity
<1>1. ASSUME NEW j \in DOMAIN delivered
      PROVE  j - 1 \in Line /\ j - 1 < readIndex /\ Genuine(j - 1) /\ EntryOf(j - 1) = delivered[j]
  <2>1. j \in Nat /\ 1 <= j /\ j <= readIndex
    BY <1>0
  <2>2. j - 1 \in Line /\ j - 1 < readIndex /\ (j - 1) + 1 = j
    BY <1>0, <2>1 DEF Line
  <2>3. Genuine(j - 1)
    BY <1>0, <2>2 DEF Genuine, IndInv, IndexOK
  <2> QED BY <2>2, <2>3 DEF EntryOf
<1>2. ASSUME NEW k \in DOMAIN Stored
      PROVE  /\ readIndex + k - 1 \in Line /\ readIndex + k - 1 >= readIndex
             /\ EntryOf(readIndex + k - 1) = Stored[k]
             /\ Settled(k) => Genuine(readIndex + k - 1)
  <2> DEFINE i == readIndex + k - 1
  <2>1. k \in 1 .. writeIndex - readIndex /\ Stored[k] = EntryAt(Slot(i))
    BY DEF Stored
  <2>2. i \in Line /\ i >= readIndex /\ i \in Nat
    BY <1>0, <2>1 DEF Line
  <2>3. EntryOf(i) = Stored[k]
    BY <1>0, <2>1, <2>2 DEF EntryOf
  <2>4. ASSUME Settled(k), NEW p \in Producers, pc[p] \in Writing, index[p] = i PROVE FALSE
    <3>1. Slot(i) \in Slots /\ Published(Slot(i))
      BY <2>2, <2>4, SlotType DEF Settled
    <3>2. Slot(i) \in ReadySlots \cup ConsumerSlots
      BY <3>1 DEF Published, ReadySlots
    <3>3. Slot(i) \in HeldSlots(p)
      BY <2>4 DEF HeldSlots
    <3> QED BY <3>2, <3>3 DEF IndInv, SlotOwnership
  <2> QED BY <2>2, <2>3, <2>4 DEF Genuine
<1> QED BY <1>1, <1>2

(* The entries of each producer are delivered in the order of its calls, none *)
(* twice, whatever push_overwrite() removes, restores and replaces.           *)
THEOREM ProducersOrdered == Spec => []ProducerOrder
<1>1. OrderInv => ProducerOrder
  <2> SUFFICES ASSUME OrderInv PROVE ProducerOrder
    OBVIOUS
  <2>1. ASSUME NEW i \in Line, NEW j \in Line, i < j, Genuine(i), Genuine(j), EntryOf(i).id[1] = EntryOf(j).id[1]
        PROVE  EntryOf(i).id[2] < EntryOf(j).id[2]
    <3> DEFINE p == EntryOf(i).id[1]
    <3>1. p \in Producers
      BY <2>1 DEF OrderInv, OrderOK, Ids
    <3>2. From(i, p) /\ From(j, p)
      BY <2>1 DEF From
    <3> QED BY <2>1, <3>1, <3>2 DEF OrderInv, OrderOK, Number
  <2>2. readIndex \in Nat /\ DOMAIN delivered \subseteq Nat /\ DOMAIN Stored \subseteq Nat
    <3>1. delivered \in Seq(Entry)
      BY DEF OrderInv, ContentInv, IndInv, TypeOK
    <3> QED BY <3>1 DEF Stored, OrderInv, ContentInv, IndInv, TypeOK
  <2>3. ASSUME NEW j \in DOMAIN delivered, NEW k \in DOMAIN delivered, j < k,
               delivered[j].id[1] = delivered[k].id[1]
        PROVE  delivered[j].id[2] < delivered[k].id[2]
    <3>1. j - 1 < k - 1
      BY <2>2, <2>3
    <3> QED BY <2>1, <2>3, <3>1, InLine
  <2>4. ASSUME NEW j \in DOMAIN delivered, NEW k \in DOMAIN Stored, Settled(k),
               delivered[j].id[1] = Stored[k].id[1]
        PROVE  delivered[j].id[2] < Stored[k].id[2]
    <3>1. j - 1 < readIndex + k - 1
      <4>1. j - 1 < readIndex /\ readIndex + k - 1 >= readIndex
        BY InLine
      <4> QED BY <2>2, <4>1
    <3> QED BY <2>1, <2>4, <3>1, InLine
  <2>5. ASSUME NEW j \in DOMAIN Stored, NEW k \in DOMAIN Stored, j < k, Settled(j), Settled(k),
               Stored[j].id[1] = Stored[k].id[1]
        PROVE  Stored[j].id[2] < Stored[k].id[2]
    <3>1. readIndex + j - 1 < readIndex + k - 1
      BY <2>2, <2>5
    <3> QED BY <2>1, <2>5, <3>1, InLine
  <2> QED BY <2>3, <2>4, <2>5 DEF ProducerOrder
<1> QED BY <1>1, InitOrderInv, OrderInductive, PTL DEF Spec

-----------------------------------------------------------------------------
(* With push() and push_exception(): what becomes of the running call.        *)
Present(p) == \E i \in Line : Genuine(i) /\ EntryOf(i).id = Id(p)

ArrivalOK ==
    \A p \in Producers : calls[p] > 0 =>
        /\ pc[p] \in {"urim_r", "urim_w"} \cup Scanning \/ (pc[p] = "idle" /\ result[p]) => Present(p)
        /\ pc[p] = "idle" /\ ~result[p] => ~Present(p)

ArrivalInv == PlainInv /\ OrderInv /\ ArrivalOK

(* Without overwriting nothing leaves the line, and only Post() adds to it.   *)
LEMMA LineKept ==
  ASSUME PlainInv, OrderInv, [Next]_vars, NEW i \in Nat, \A p \in Producers : Post(p) => index[p] # i
  PROVE  /\ i \in Line' /\ Genuine(i)' <=> i \in Line /\ Genuine(i)
         /\ i \in Line /\ Genuine(i) => EntryOf(i)' = EntryOf(i)
<1> USE DEF OrderInv, ContentInv
<1>0. /\ writeIndex \in Nat /\ index \in [Producers -> Nat] /\ pc \in [Producers -> ProducerPcs]
      /\ writeIndex' \in Nat
  BY Inductive DEF IndInv, TypeOK
<1>1. ASSUME i \in Line, Genuine(i) PROVE EntryOf(i)' = EntryOf(i)
  <2>1. \A q \in Producers : Write(q) => index[q] # i
    <3>1. \A q \in Producers : Write(q) => pc[q] \in Writing
      BY DEF Write, Goto, Writing
    <3> QED BY <1>1, <3>1 DEF Genuine
  <2>2. i < writeIndex
    BY <1>0, <1>1 DEF Line
  <2> QED BY <2>1, <2>2, EntryOfStays
<1>2. ASSUME NEW p \in Producers, ProducerStep(p) \/ \E f \in Calls[p] : Call(p, f)
      PROVE  i \in Line' /\ Genuine(i)' <=> i \in Line /\ Genuine(i)
  <2>1. \A q \in Producers \ {p} : pc'[q] = pc[q] /\ index'[q] = index[q]
    BY <1>2, OthersSame DEF Same
  <2>2. CASE ObtainCas(p)
    <3>1. /\ writeIndex = index[p] /\ writeIndex' = writeIndex + 1 /\ pc[p] \notin Writing
          /\ pc'[p] \in Writing /\ index'[p] = writeIndex
      BY <1>0, <2>2 DEF ObtainCas, Goto, Writing
    <3>2. i \in Line' <=> i \in Line \/ i = writeIndex
      BY <1>0, <3>1 DEF Line
    <3>3. i = writeIndex => ~Genuine(i)'
      BY <3>1 DEF Genuine
    <3>4. i # writeIndex => (Genuine(i)' <=> Genuine(i))
      BY <2>1, <3>1 DEF Genuine
    <3>5. i = writeIndex => i \notin Line
      BY <1>0 DEF Line
    <3> QED BY <3>2, <3>3, <3>4, <3>5
  <2>3. CASE ~ObtainCas(p)
    <3>1. writeIndex' = writeIndex
      BY <1>2, <2>3, ProducerFrame
    <3>2. CASE Post(p)
      <4>1. index'[p] = index[p] /\ pc'[p] \notin Writing /\ index[p] # i
        BY <1>0, <3>2 DEF Post, Goto, Writing
      <4> QED BY <2>1, <3>1, <4>1 DEF Genuine, Line
    <3>3. CASE ~Post(p)
      <4>1. pc'[p] \in Writing <=> pc[p] \in Writing
        BY <1>2, <2>3, <3>3, PositionFrame
      <4>2. pc'[p] \in Writing => index'[p] = index[p]
        BY <1>2, <2>3, <3>3, PositionFrame
      <4> QED BY <2>1, <3>1, <4>1, <4>2 DEF Genuine, Line
    <3> QED BY <3>2, <3>3
  <2> QED BY <2>2, <2>3
<1>3. ASSUME ConsumerStep \/ UNCHANGED vars
      PROVE  i \in Line' /\ Genuine(i)' <=> i \in Line /\ Genuine(i)
  <2>1. UNCHANGED <<pc, index, writeIndex>>
    BY <1>3, TakerFrame DEF vars, shared, producer
  <2>2. Line' = Line
    BY <2>1 DEF Line
  <2>3. Genuine(i)' <=> Genuine(i)
    BY <2>1 DEF Genuine
  <2> QED BY <2>2, <2>3
<1> QED BY <1>1, <1>2, <1>3 DEF Next

LEMMA RangeNat == ASSUME NEW w \in Nat PROVE \A i \in 0 .. w - 1 : i \in Nat
OBVIOUS

LEMMA PresentKept ==
  ASSUME PlainInv, OrderInv, [Next]_vars, NEW q \in Producers, calls'[q] = calls[q], ~Post(q)
  PROVE  Present(q)' <=> Present(q)
<1> USE DEF OrderInv, ContentInv
<1>0. /\ writeIndex \in Nat /\ writeIndex' \in Nat /\ calls \in [Producers -> Nat] /\ index \in [Producers -> Nat]
      /\ pc \in [Producers -> ProducerPcs]
  BY Inductive DEF IndInv, TypeOK
<1>1. Id(q)' = Id(q)
  BY DEF Id
<1>2. \A i \in Line \cup Line' : i \in Nat
  BY <1>0, RangeNat DEF Line
<1>3. ASSUME NEW i \in Nat, \A p \in Producers : Post(p) => index[p] # i
      PROVE  (i \in Line' /\ Genuine(i)' /\ EntryOf(i).id' = Id(q)') <=> (i \in Line /\ Genuine(i) /\ EntryOf(i).id = Id(q))
  BY <1>1, <1>3, LineKept
<1>4. ASSUME NEW p \in Producers, Post(p)
      PROVE  /\ ~Genuine(index[p])
             /\ EntryOf(index[p]).id' # Id(q)'
  <2>1. /\ pc[p] = "post" /\ p # q /\ UNCHANGED <<writeIndex, calls, index>>
        /\ pc' = [pc EXCEPT ![p] = "urim_r"]
    BY <1>4 DEF Post, Goto, function
  <2>2. index[p] \in Nat /\ readIndex <= index[p] /\ index[p] < writeIndex /\ readIndex \in Nat
    BY <1>0, <2>1 DEF IndInv, IndexOK, Writing, TypeOK
  <2>3. EntryOf(index[p]).id = Id(p)
    BY <2>1, <2>2 DEF EntryOf, ContentOK
  <2>4. \A r \in Producers : ~Write(r)
    BY <1>0, <2>1 DEF Write, Goto, AfterWrite
  <2>5. EntryOf(index[p])' = EntryOf(index[p])
    <3> DEFINE i == index[p]
    <3>1. EntryOf(i)' = EntryOf(i)
      <4> HIDE DEF i
      <4>1. ASSUME NEW k \in Nat, k < writeIndex PROVE EntryOf(k)' = EntryOf(k)
        BY <2>4, <4>1, EntryOfStays
      <4>2. i \in Nat /\ i < writeIndex
        BY <2>2 DEF i
      <4>3. i' = i
        BY <2>1 DEF i
      <4> QED BY <4>1, <4>2, <4>3 DEF EntryOf
    <3> QED BY <3>1
  <2>6. Id(p) # Id(q)
    BY <2>1 DEF Id
  <2>7. ~Genuine(index[p])
    BY <2>1 DEF Genuine, Writing
  <2> QED BY <1>1, <2>3, <2>5, <2>6, <2>7
<1>5. ASSUME NEW i \in Nat
      PROVE  (i \in Line' /\ Genuine(i)' /\ EntryOf(i).id' = Id(q)') <=> (i \in Line /\ Genuine(i) /\ EntryOf(i).id = Id(q))
  <2>1. CASE \A p \in Producers : Post(p) => index[p] # i
    BY <1>3, <2>1
  <2>2. CASE \E p \in Producers : Post(p) /\ index[p] = i
    <3>1. PICK p \in Producers : Post(p) /\ index[p] = i
      BY <2>2
    <3>2. index'[p] = i
      BY <3>1 DEF Post
    <3> QED BY <1>4, <3>1, <3>2 DEF EntryOf
  <2> QED BY <2>1, <2>2
<1> QED BY <1>2, <1>5 DEF Present

LEMMA PostArrives == ASSUME OrderInv, NEW p \in Producers, Post(p), [Next]_vars PROVE Present(p)'
<1> USE DEF OrderInv, ContentInv
<1>0. /\ writeIndex \in Nat /\ readIndex \in Nat /\ calls \in [Producers -> Nat] /\ index \in [Producers -> Nat]
      /\ pc \in [Producers -> ProducerPcs]
  BY DEF IndInv, TypeOK
<1>1. pc[p] = "post" /\ pc' = [pc EXCEPT ![p] = "urim_r"] /\ UNCHANGED <<writeIndex, calls, index>>
  BY DEF Post, Goto, function
<1> DEFINE i == index[p]
<1>2. i \in Nat /\ readIndex <= i /\ i < writeIndex
  BY <1>0, <1>1 DEF IndInv, IndexOK, Writing
<1>3. EntryOf(i).id = Id(p)
  BY <1>0, <1>1, <1>2 DEF EntryOf, ContentOK
<1>4. \A q \in Producers \ {p} : pc[q] \in Writing => index[q] # i
  <2> SUFFICES ASSUME NEW q \in Producers \ {p}, pc[q] \in Writing, index[q] = i PROVE FALSE
    OBVIOUS
  <2>1. HeldSlots(q) = {Slot(i)} /\ HeldSlots(p) = {Slot(i)}
    BY <1>1 DEF HeldSlots, Writing
  <2> QED BY <2>1 DEF IndInv, SlotOwnership
<1> HIDE DEF i
<1>5. Genuine(i)'
  BY <1>0, <1>1, <1>4 DEF Genuine, Writing, i
<1>6. EntryOf(i)' = EntryOf(i)
  <2>1. \A q \in Producers : ~Write(q)
    BY <1>0, <1>1 DEF Write, Goto, AfterWrite
  <2>2. ASSUME NEW k \in Nat, k < writeIndex PROVE EntryOf(k)' = EntryOf(k)
    BY <2>1, <2>2, EntryOfStays
  <2>3. i' = i
    BY <1>1 DEF i
  <2> QED BY <1>2, <2>2, <2>3 DEF EntryOf
<1>7. i \in Line' /\ i' = i
  BY <1>0, <1>1, <1>2 DEF Line, i
<1> QED BY <1>1, <1>3, <1>5, <1>6, <1>7 DEF Present, Id

LEMMA ArrivalStep == ASSUME PushOnly, ArrivalInv, [Next]_vars PROVE ArrivalOK'
<1> USE DEF ArrivalInv
<1>0. /\ pc \in [Producers -> ProducerPcs] /\ calls \in [Producers -> Nat] /\ result \in [Producers -> BOOLEAN]
      /\ \A p \in Producers : ret[p]
  BY DEF PlainInv, PlainOK, IndInv, TypeOK
<1> DEFINE Passed == {"urim_r", "urim_w"} \cup Scanning
<1>1. ASSUME NEW q \in Producers, UNCHANGED <<pc[q], calls[q], result[q]>>
      PROVE  calls'[q] > 0 =>
                /\ pc'[q] \in Passed \/ (pc'[q] = "idle" /\ result'[q]) => Present(q)'
                /\ pc'[q] = "idle" /\ ~result'[q] => ~Present(q)'
  <2>1. ~Post(q)
    BY <1>0, <1>1 DEF Post, Goto
  <2>2. Present(q)' <=> Present(q)
    BY <1>1, <2>1, PresentKept
  <2> QED BY <1>1, <2>2 DEF ArrivalOK
<1>2. ASSUME NEW p \in Producers, ProducerStep(p) \/ \E f \in Calls[p] : Call(p, f)
      PROVE  calls'[p] > 0 =>
                /\ pc'[p] \in Passed \/ (pc'[p] = "idle" /\ result'[p]) => Present(p)'
                /\ pc'[p] = "idle" /\ ~result'[p] => ~Present(p)'
  <2>1. PlainStep(p)
    BY <1>2, PlainSteps
  <2>2. ASSUME calls'[p] = calls[p], ~Post(p) PROVE Present(p)' <=> Present(p)
    BY <2>2, PresentKept
  <2>3. ASSUME NEW f \in Calls[p], Call(p, f) PROVE pc'[p] = "load"
    BY <1>0, <2>3 DEF Call, Goto
  <2>4. ASSUME ObtainLoad(p) \/ ObtainNotFull(p) \/ ObtainCas(p) \/ ObtainCasFails(p) \/ Write(p) \/ CountPreviousData(p)
        PROVE  pc'[p] \in {"check", "cas", "write", "count", "post"}
    BY <1>0, <2>4 DEF ObtainLoad, ObtainNotFull, ObtainCas, ObtainCasFails, Write, AfterWrite, CountPreviousData, Goto
  <2>5. ASSUME ObtainFull(p) PROVE pc'[p] = "idle" /\ ~result'[p] /\ ~Present(p)'
    <3>1. pc[p] = "check" /\ pc'[p] = "idle" /\ ~result'[p] /\ calls' = calls /\ ~Post(p)
      BY <1>0, <2>5 DEF ObtainFull, Return, Post, Goto
    <3>2. ~Present(p)
      <4> SUFFICES ASSUME NEW i \in Line, Genuine(i), EntryOf(i).id = Id(p) PROVE FALSE
        BY DEF Present
      <4>1. From(i, p) /\ Number(i) = calls[p]
        BY DEF From, Number, Id
      <4>2. Number(i) < calls[p]
        BY <3>1, <4>1 DEF OrderInv, OrderOK, Unpublished
      <4> QED BY <1>0, <4>1, <4>2
    <3> QED BY <2>2, <3>1, <3>2
  <2>6. ASSUME Post(p) PROVE pc'[p] # "idle" /\ Present(p)'
    BY <1>0, <2>6, PostArrives DEF Post, Goto
  <2>7. ASSUME UpdateStep(p), ~UpdateDone(p) PROVE pc[p] \in Passed /\ pc'[p] # "idle" /\ calls' = calls /\ ~Post(p)
    BY <1>0, <2>7 DEF UpdateStep, UpdateLoadReadIndex, UpdateLoadWriteIndex, UpdateLoadReadIndexMax,
       UpdateScan, UpdateScanEnd, UpdateCas, UpdateCasFails, UpdateAgain, Goto, Scanning, function, Post
  <2>8. ASSUME UpdateDone(p) PROVE pc[p] \in Passed /\ pc'[p] = "idle" /\ result'[p] /\ calls' = calls /\ ~Post(p)
    BY <1>0, <2>8 DEF UpdateDone, Return, Goto, Scanning, Post
  <2>9. ASSUME UpdateStep(p) PROVE Present(p)' <=> Present(p)
    BY <2>2, <2>7, <2>8, <2>9
  <2>10. Passed \cap {"idle", "load", "check", "cas", "write", "count", "post"} = {}
    BY DEF Scanning
  <2>11. CASE ~UpdateStep(p)
    BY <2>1, <2>3, <2>4, <2>5, <2>6, <2>10, <2>11 DEF PlainStep, PublishStep
  <2>12. CASE UpdateStep(p)
    <3>1. calls' = calls /\ pc[p] \in Passed
      BY <2>7, <2>8, <2>12
    <3>2. calls[p] > 0 => Present(p)
      BY <3>1 DEF ArrivalOK
    <3> QED BY <2>7, <2>8, <2>9, <2>12, <3>1, <3>2
  <2> QED BY <2>11, <2>12
<1>3. ASSUME NEW p \in Producers, ProducerStep(p) \/ \E f \in Calls[p] : Call(p, f)
      PROVE  ArrivalOK'
  <2>1. \A q \in Producers \ {p} : UNCHANGED <<pc[q], calls[q], result[q]>>
    BY <1>3, OthersSame, PusherFrame DEF Same, PlainInv
  <2> QED BY <1>1, <1>2, <1>3, <2>1 DEF ArrivalOK
<1>4. CASE ConsumerStep \/ UNCHANGED vars
  <2>1. \A q \in Producers : UNCHANGED <<pc[q], calls[q], result[q]>>
    BY <1>4, TakerFrame DEF vars, producer, function
  <2> QED BY <1>1, <2>1 DEF ArrivalOK
<1> QED BY <1>3, <1>4 DEF Next

(* With push() and push_exception() only, the returned boolean tells whether  *)
(* the entry went in, whatever other producers and the consumer did meanwhile.*)
THEOREM ResultHonest == ASSUME PushOnly PROVE Spec => []ResultTellsArrival
<1>1. Init => ArrivalInv
  BY InitPlainInv, InitOrderInv DEF ArrivalInv, ArrivalOK, Init
<1>2. ArrivalInv /\ [Next]_vars => ArrivalInv'
  BY PlainInvStep, OrderInductive, ArrivalStep DEF ArrivalInv
<1>3. ArrivalInv => ResultTellsArrival
  <2> SUFFICES ASSUME ArrivalInv, NEW p \in Producers, pc[p] = "idle", calls[p] > 0
               PROVE  result[p] <=> Arrived(Id(p))
    BY DEF ResultTellsArrival
  <2> USE DEF ArrivalInv, OrderInv, ContentInv
  <2>0. /\ readIndex \in Nat /\ writeIndex \in Nat /\ result[p] \in BOOLEAN
        /\ writeIndex <= readIndex + Length /\ readIndex <= writeIndex
        /\ delivered \in Seq(Entry) /\ Len(delivered) = readIndex /\ index \in [Producers -> Nat]
    BY DEF IndInv, TypeOK, WithinCapacity, ContentOK
  <2>1. result[p] <=> Present(p)
    BY <2>0 DEF ArrivalOK
  <2>2. Arrived(Id(p)) => Present(p)
    BY InLine DEF Arrived, Present
  <2>3. ASSUME NEW i \in Line, Genuine(i), EntryOf(i).id = Id(p) PROVE Arrived(Id(p))
    <3>1. i \in Nat /\ i < writeIndex
      BY <2>0 DEF Line
    <3>2. CASE i < readIndex
      <4>1. i + 1 \in DOMAIN delivered /\ delivered[i + 1].id = Id(p)
        BY <2>0, <2>3, <3>1, <3>2 DEF EntryOf
      <4> QED BY <4>1 DEF Arrived
    <3>3. CASE i >= readIndex
      <4> DEFINE k == i - readIndex + 1
      <4>1. k \in 1 .. writeIndex - readIndex /\ readIndex + k - 1 = i
        BY <2>0, <3>1, <3>3
      <4>2. k \in DOMAIN Stored /\ Stored[k] = EntryAt(Slot(i)) /\ EntryAt(Slot(i)) = EntryOf(i)
        BY <2>0, <3>1, <3>3, <4>1 DEF Stored, EntryOf
      <4>3. Slot(i) \in Occupied
        BY <2>0, <3>1, <3>3, SpanMembers DEF Occupied
      <4>4. ASSUME NEW q \in Producers PROVE Slot(i) \notin HeldSlots(q)
        <5> SUFFICES ASSUME Slot(i) \in HeldSlots(q) PROVE FALSE
          OBVIOUS
        <5>1. pc[q] \in Writing /\ Slot(i) = Slot(index[q])
          BY DEF HeldSlots, PlainInv, PlainOK
        <5>2. readIndex <= index[q] /\ index[q] < writeIndex /\ index[q] # i /\ index[q] \in Nat
          BY <2>0, <2>3, <5>1 DEF IndInv, IndexOK, Genuine
        <5>3. index[q] <= i + Length /\ i <= index[q] + Length
          BY <2>0, <3>1, <3>3, <5>2, LengthAssumption
        <5> QED BY <3>1, <5>1, <5>2, <5>3, SlotDistinct
      <4>5. Published(Slot(i))
        BY <4>3, <4>4 DEF IndInv, SlotOwnership, ReadySlots, Published
      <4>6. Settled(k)
        BY <4>1, <4>5 DEF Settled
      <4> QED BY <2>3, <4>2, <4>6 DEF Arrived
    <3> QED BY <2>0, <3>1, <3>2, <3>3
  <2> QED BY <2>1, <2>2, <2>3 DEF Present
<1> QED BY <1>1, <1>2, <1>3, PTL DEF Spec

-----------------------------------------------------------------------------
(* The refinement of FifoQueue.  Sequences first.                             *)

LEMMA AppendIs ==
  ASSUME NEW S, NEW s \in Seq(S), NEW t \in Seq(S), NEW x \in S, Len(t) = Len(s) + 1,
         \A k \in 1 .. Len(s) : t[k] = s[k], t[Len(s) + 1] = x
  PROVE  t = Append(s, x)
<1>1. /\ Append(s, x) \in Seq(S) /\ Len(Append(s, x)) = Len(s) + 1 /\ Len(s) \in Nat
      /\ \A i \in 1 .. Len(s) : Append(s, x)[i] = s[i]
      /\ Append(s, x)[Len(s) + 1] = x
  BY AppendProperties, LenProperties
<1>2. \A i \in 1 .. Len(t) : t[i] = Append(s, x)[i]
  <2> SUFFICES ASSUME NEW i \in 1 .. Len(s) + 1 PROVE t[i] = Append(s, x)[i]
    OBVIOUS
  <2>1. CASE i = Len(s) + 1
    BY <1>1, <2>1
  <2>2. CASE i \in 1 .. Len(s)
    BY <1>1, <2>2
  <2> QED BY <1>1, <2>1, <2>2
<1> QED BY <1>1, <1>2, SeqEqual

LEMMA TailIs ==
  ASSUME NEW S, NEW s \in Seq(S), NEW t \in Seq(S), s # <<>>, Len(t) = Len(s) - 1,
         \A k \in 1 .. Len(t) : t[k] = s[k + 1]
  PROVE  t = Tail(s)
<1>1. Tail(s) \in Seq(S) /\ Len(Tail(s)) = Len(s) - 1 /\ \A k \in 1 .. Len(Tail(s)) : Tail(s)[k] = s[k + 1]
  BY HeadTailProperties
<1> QED BY <1>1, SeqEqual

LEMMA DropIs ==
  ASSUME NEW S, NEW s \in Seq(S), NEW t \in Seq(S), Len(s) >= 1, Len(t) = Len(s) - 1,
         \A k \in 1 .. Len(t) : t[k] = s[k]
  PROVE  t = SubSeq(s, 1, Len(s) - 1)
<1>0. Len(s) \in Nat /\ s \in [1 .. Len(s) -> S]
  BY LenProperties
<1> DEFINE n == Len(s) - 1
<1>1. n \in Int /\ \A i \in 1 .. n : s[i] \in S
  BY <1>0
<1>2. /\ SubSeq(s, 1, n) \in Seq(S)
      /\ Len(SubSeq(s, 1, n)) = IF 1 <= n THEN n - 1 + 1 ELSE 0
      /\ \A i \in 1 .. n - 1 + 1 : SubSeq(s, 1, n)[i] = s[1 + i - 1]
  <2> HIDE DEF n
  <2> QED BY <1>1, SubSeqProperties
<1>3. Len(SubSeq(s, 1, n)) = n
  BY <1>0, <1>2
<1>4. \A k \in 1 .. Len(t) : t[k] = SubSeq(s, 1, n)[k]
  BY <1>0, <1>2
<1> QED BY <1>2, <1>3, <1>4, SeqEqual

(* The cells, and what is in them.                                            *)
Cells   == [k \in 1 .. writeIndex - readIndex |-> CellAt(Slot(readIndex + k - 1))]
CellSet == [state : {"full", "pending", "locked"}, by : Producers \cup {NoData}, entry : Entry]
Size    == writeIndex - readIndex
At(k)   == Slot(readIndex + k - 1)

CellTable ==
    \A s \in Occupied :
        /\ CellAt(s) \in CellSet
        /\ Published(s) => CellAt(s) = Fifo!Full(EntryAt(s))
        /\ Published(s) \/ \E p \in Producers : s \in HeldSlots(p)
        /\ \A p \in Producers : s \in HeldSlots(p) =>
             /\ ~Published(s)
             /\ pc[p] \in Writing => CellAt(s) = Fifo!Pending(p)
             /\ pc[p] \in Locking => CellAt(s) = Fifo!Locked(p, EntryAt(s))

LEMMA EntryType == ASSUME TypeOK, NEW s \in Slots PROVE EntryAt(s) \in Entry
BY DEF TypeOK, EntryAt, Entry

LEMMA CellTableNow == IndInv => CellTable
<1> SUFFICES ASSUME IndInv, NEW s \in Occupied
             PROVE  /\ CellAt(s) \in CellSet
                    /\ Published(s) => CellAt(s) = Fifo!Full(EntryAt(s))
                    /\ Published(s) \/ \E p \in Producers : s \in HeldSlots(p)
                    /\ \A p \in Producers : s \in HeldSlots(p) =>
                         /\ ~Published(s)
                         /\ pc[p] \in Writing => CellAt(s) = Fifo!Pending(p)
                         /\ pc[p] \in Locking => CellAt(s) = Fifo!Locked(p, EntryAt(s))
  BY DEF CellTable
<1> USE DEF IndInv
<1>1. s \in Slots
  BY SpanMembers DEF Occupied, TypeOK
<1>2. EntryAt(s) \in Entry /\ NoItem \in Entry
  BY <1>1, EntryType DEF NoItem, Entry
<1>3. Published(s) <=> s \in ReadySlots \cup ConsumerSlots
  BY <1>1 DEF Published, ReadySlots
<1>4. Published(s) \/ \E p \in Producers : s \in HeldSlots(p)
  BY <1>3 DEF SlotOwnership
<1>5. ASSUME NEW p \in Producers, s \in HeldSlots(p)
      PROVE  /\ ~Published(s) /\ Holder(s) = p
             /\ pc[p] \in Writing \/ pc[p] \in Locking
  <2>1. ~Published(s)
    BY <1>3, <1>5 DEF SlotOwnership
  <2>2. Holder(s) \in Producers /\ s \in HeldSlots(Holder(s))
    BY <1>5 DEF Holder
  <2>3. Holder(s) = p
    BY <1>5, <2>2 DEF SlotOwnership
  <2> QED BY <1>5, <2>1, <2>3 DEF HeldSlots
<1>6. Published(s) => CellAt(s) = Fifo!Full(EntryAt(s)) /\ CellAt(s) \in CellSet
  BY <1>2 DEF CellAt, Fifo!Full, CellSet
<1>7. ASSUME NEW p \in Producers, s \in HeldSlots(p)
      PROVE  /\ pc[p] \in Writing => CellAt(s) = Fifo!Pending(p)
             /\ pc[p] \in Locking => CellAt(s) = Fifo!Locked(p, EntryAt(s))
             /\ CellAt(s) \in CellSet
  <2>1. Writing \cap Locking = {}
    BY DEF Writing, Locking
  <2> QED BY <1>2, <1>5, <1>7, <2>1 DEF CellAt, Fifo!Pending, Fifo!Locked, CellSet
<1> QED BY <1>4, <1>5, <1>6, <1>7

LEMMA CellTableNext == IndInv' => CellTable'
BY CellTableNow, PTL

(* The positions of the occupied slots.                                       *)
PlacesOK ==
    /\ Size \in 0 .. Length
    /\ \A k \in 1 .. Size : At(k) \in Occupied /\ readIndex + k - 1 \in Nat
    /\ \A s \in Occupied : \E k \in 1 .. Size : s = At(k)
    /\ \A j, k \in 1 .. Size : At(j) = At(k) => j = k
    /\ Cells \in Seq(CellSet) /\ Len(Cells) = Size
    /\ \A k \in 1 .. Size, s \in Occupied : s = At(k) => Cells[k] = CellAt(s)

LEMMA PlacesNow == IndInv => PlacesOK
<1> SUFFICES ASSUME IndInv PROVE PlacesOK
  OBVIOUS
<1>0. /\ readIndex \in Nat /\ writeIndex \in Nat /\ readIndex <= writeIndex /\ writeIndex <= readIndex + Length
      /\ Length \in Nat
  BY LengthAssumption DEF IndInv, TypeOK, WithinCapacity
<1>1. Size \in 0 .. Length
  BY <1>0 DEF Size
<1>2. ASSUME NEW k \in 1 .. Size PROVE At(k) \in Occupied /\ readIndex + k - 1 \in Nat
  <2>1. readIndex + k - 1 \in Nat /\ readIndex <= readIndex + k - 1 /\ readIndex + k - 1 < writeIndex
    BY <1>0, <1>2 DEF Size
  <2> QED BY <1>0, <2>1, SpanMembers DEF At, Occupied
<1>3. ASSUME NEW s \in Occupied PROVE \E k \in 1 .. Size : s = At(k)
  <2>1. PICK i \in readIndex .. writeIndex - 1 : s = Slot(i)
    BY DEF Occupied, Span
  <2>2. i - readIndex + 1 \in 1 .. Size /\ readIndex + (i - readIndex + 1) - 1 = i
    BY <1>0 DEF Size
  <2> QED BY <2>1, <2>2 DEF At
<1>4. ASSUME NEW j \in 1 .. Size, NEW k \in 1 .. Size, At(j) = At(k), j < k PROVE FALSE
  <2> DEFINE a == readIndex + j - 1
             b == readIndex + k - 1
  <2>1. a \in Nat /\ b \in Nat /\ a < b /\ b <= a + Length
    BY <1>0, <1>4 DEF Size
  <2> QED BY <1>4, <2>1, SlotDistinct DEF At
<1>5. \A j, k \in 1 .. Size : At(j) = At(k) => j = k
  BY <1>4
<1>6. \A k \in 1 .. Size : CellAt(At(k)) \in CellSet
  BY <1>2, CellTableNow DEF CellTable
<1>7. Cells = [k \in 1 .. Size |-> CellAt(At(k))]
  BY DEF Cells, Size, At
<1>8. Cells \in Seq(CellSet) /\ Len(Cells) = Size
  BY <1>1, <1>6, <1>7
<1> QED BY <1>1, <1>2, <1>3, <1>5, <1>7, <1>8 DEF PlacesOK

LEMMA PlacesNext == IndInv' => PlacesOK'
BY PlacesNow, PTL

LEMMA SameCells ==
  ASSUME IndInv, IndInv', UNCHANGED <<readIndex, writeIndex>>, \A s \in Occupied : CellAt(s)' = CellAt(s)
  PROVE  Cells' = Cells
<1>1. PlacesOK /\ PlacesOK'
  BY PlacesNow, PlacesNext
<1>2. Size' = Size /\ Occupied' = Occupied /\ \A k : At(k)' = At(k)
  BY DEF Size, Occupied, At, Slot
<1>3. \A k \in 1 .. Size : Cells'[k] = Cells[k]
  BY <1>1, <1>2 DEF PlacesOK
<1>4. Cells \in Seq(CellSet) /\ Cells' \in Seq(CellSet) /\ Len(Cells') = Len(Cells) /\ Len(Cells) = Size
  BY <1>1, <1>2 DEF PlacesOK
<1> QED BY <1>3, <1>4, SeqEqual

LEMMA ChangedCell ==
  ASSUME IndInv, IndInv', UNCHANGED <<readIndex, writeIndex>>, NEW s \in Occupied, NEW k \in 1 .. Size, s = At(k),
         \A t \in Occupied \ {s} : CellAt(t)' = CellAt(t)
  PROVE  Cells' = [Cells EXCEPT ![k] = CellAt(s)']
<1>1. PlacesOK /\ PlacesOK' /\ CellTable'
  BY PlacesNow, PlacesNext, CellTableNext
<1>2. Size' = Size /\ Occupied' = Occupied /\ \A j : At(j)' = At(j)
  BY DEF Size, Occupied, At, Slot
<1>3. /\ Cells \in Seq(CellSet) /\ Cells' \in Seq(CellSet) /\ Len(Cells') = Len(Cells) /\ Len(Cells) = Size
      /\ CellAt(s)' \in CellSet
  BY <1>1, <1>2 DEF PlacesOK, CellTable
<1>4. \A j \in 1 .. Size : Cells'[j] = IF j = k THEN CellAt(s)' ELSE Cells[j]
  <2>1. Cells'[k] = CellAt(s)'
    BY <1>1, <1>2 DEF PlacesOK
  <2>2. ASSUME NEW j \in 1 .. Size, j # k PROVE Cells'[j] = Cells[j]
    <3>1. At(j) \in Occupied \ {s}
      BY <1>1, <2>2 DEF PlacesOK
    <3> QED BY <1>1, <1>2, <3>1 DEF PlacesOK
  <2> QED BY <2>1, <2>2
<1>5. /\ [Cells EXCEPT ![k] = CellAt(s)'] \in Seq(CellSet)
      /\ Len([Cells EXCEPT ![k] = CellAt(s)']) = Size
      /\ \A j \in 1 .. Size : [Cells EXCEPT ![k] = CellAt(s)'][j] = IF j = k THEN CellAt(s)' ELSE Cells[j]
  BY <1>3, ExceptSeq
<1> QED BY <1>3, <1>4, <1>5, SeqEqual

(* What a producer holds in FifoQueue are the places of its slots.            *)
LEMMA HeldPlaces ==
  ASSUME IndInv, NEW p \in Producers
  PROVE  Fifo!HeldBy(p) = {k \in 1 .. Size : At(k) \in HeldSlots(p)}
<1>1. PlacesOK /\ CellTable
  BY PlacesNow, CellTableNow
<1>2. Fifo!HeldBy(p) = {k \in 1 .. Size : Cells[k].by = p}
  BY <1>1 DEF Fifo!HeldBy, Fifo!Places, Cells, PlacesOK
<1>3. ASSUME NEW k \in 1 .. Size PROVE Cells[k].by = p <=> At(k) \in HeldSlots(p)
  <2> DEFINE s == At(k)
  <2>1. s \in Occupied /\ Cells[k] = CellAt(s)
    BY <1>1 DEF PlacesOK
  <2> HIDE DEF s
  <2>2. CASE Published(s)
    <3>1. Cells[k].by = NoData
      BY <1>1, <2>1, <2>2 DEF CellTable, Fifo!Full
    <3>2. s \notin HeldSlots(p)
      BY <1>1, <2>1, <2>2 DEF CellTable
    <3> QED BY <3>1, <3>2, NoDataAssumption DEF s
  <2>3. CASE ~Published(s)
    <3>1. PICK q \in Producers : s \in HeldSlots(q)
      BY <1>1, <2>1, <2>3 DEF CellTable
    <3>2. Cells[k].by = q
      <4>1. pc[q] \in Writing \/ pc[q] \in Locking
        BY <3>1 DEF HeldSlots
      <4> QED BY <1>1, <2>1, <3>1, <4>1 DEF CellTable, Fifo!Pending, Fifo!Locked
    <3>3. s \in HeldSlots(p) <=> p = q
      BY <3>1 DEF IndInv, SlotOwnership
    <3> QED BY <3>2, <3>3 DEF s
  <2> QED BY <2>2, <2>3
<1> QED BY <1>2, <1>3

(* A step of a producer leaves the cells of the slots it does not hold.       *)
LEMMA ReadyFrame ==
  ASSUME IndInv, NEW p \in Producers, ProducerStep(p) \/ \E f \in Calls[p] : Call(p, f)
  PROVE  \/ UNCHANGED ready
         \/ Post(p) /\ ready' = [ready EXCEPT ![Slot(index[p])] = TRUE]
         \/ OverwriteReset(p) /\ ready' = [ready EXCEPT ![Slot(index[p] - 1)] = FALSE]
         \/ OverwriteRestore(p) /\ ready' = [ready EXCEPT ![Slot(index[p] - 1)] = TRUE]
<1> USE DEF shared
<1>1. (\E f \in Calls[p] : Call(p, f)) => UNCHANGED ready
  BY DEF Call
<1>2. ObtainStep(p) => UNCHANGED ready
  BY DEF ObtainStep, ObtainLoad, ObtainNotFull, ObtainFull, ObtainFullOverwrite, ObtainCas, ObtainCasFails
<1>3. OverwriteStep(p) => \/ UNCHANGED ready
                          \/ OverwriteReset(p) /\ ready' = [ready EXCEPT ![Slot(index[p] - 1)] = FALSE]
                          \/ OverwriteRestore(p) /\ ready' = [ready EXCEPT ![Slot(index[p] - 1)] = TRUE]
  BY DEF OverwriteStep, OverwriteReset, OverwriteResetFails, OverwriteRollback, OverwriteRollbackFails,
     OverwriteRestore
<1>4. PublishStep(p) => \/ UNCHANGED ready
                        \/ Post(p) /\ ready' = [ready EXCEPT ![Slot(index[p])] = TRUE]
  BY DEF PublishStep, Write, CountPreviousData, Post
<1>5. UpdateStep(p) => UNCHANGED ready
  BY DEF UpdateStep, UpdateLoadReadIndex, UpdateLoadWriteIndex, UpdateLoadReadIndexMax,
     UpdateScan, UpdateScanEnd, UpdateCas, UpdateCasFails, UpdateAgain, UpdateDone
<1> QED BY <1>1, <1>2, <1>3, <1>4, <1>5 DEF ProducerStep

LEMMA OtherCell ==
  ASSUME IndInv, IndInv', NEW p \in Producers, ProducerStep(p) \/ \E f \in Calls[p] : Call(p, f),
         NEW s \in Occupied, s \in Occupied', s \notin HeldSlots(p), s \notin HeldSlots(p)'
  PROVE  CellAt(s)' = CellAt(s)
<1> USE DEF IndInv
<1>0. /\ s \in Slots /\ ready \in [Slots -> BOOLEAN] /\ pc \in [Producers -> ProducerPcs]
      /\ index \in [Producers -> Nat]
  BY SpanMembers DEF Occupied, TypeOK
<1>1. CellTable /\ CellTable'
  BY CellTableNow, CellTableNext
<1>2. ready'[s] = ready[s]
  <2>1. Post(p) => Slot(index[p]) \in HeldSlots(p)
    BY DEF Post, Goto, HeldSlots, Writing
  <2>2. OverwriteRestore(p) => Slot(index[p] - 1) \in HeldSlots(p)
    BY DEF OverwriteRestore, HeldSlots, Locking, Writing
  <2>3. OverwriteReset(p) => Slot(index[p] - 1) \in HeldSlots(p)'
    BY <1>0 DEF OverwriteReset, Goto, HeldSlots, Locking, Writing
  <2> QED BY <1>0, <2>1, <2>2, <2>3, ReadyFrame
<1>3. ConsumerSlots' = ConsumerSlots
  BY PusherFrame, SMTT(30) DEF consumer, ConsumerSlots, Front
<1>4. Published(s)' <=> Published(s)
  BY <1>2, <1>3 DEF Published
<1>5. EntryAt(s)' = EntryAt(s)
  <2>1. Write(p) => Slot(index[p]) \in HeldSlots(p)
    BY DEF Write, Goto, HeldSlots, Writing
  <2> QED BY <1>0, <2>1, PusherFrame, WriteFrame, EntryStays
<1>6. CASE Published(s)
  <2>1. CellAt(s) = Fifo!Full(EntryAt(s)) /\ CellAt(s)' = Fifo!Full(EntryAt(s)')
    BY <1>1, <1>4, <1>6 DEF CellTable, Fifo!Full
  <2> QED BY <1>5, <2>1
<1>7. CASE ~Published(s)
  <2>1. PICK q \in Producers : s \in HeldSlots(q)
    BY <1>1, <1>7 DEF CellTable
  <2>2. pc'[q] = pc[q] /\ index'[q] = index[q]
    BY <2>1, OthersSame DEF Same
  <2>3. s \in HeldSlots(q)'
    BY <2>1, <2>2 DEF HeldSlots, Slot
  <2>4. CASE pc[q] \in Writing
    BY <1>1, <2>1, <2>2, <2>3, <2>4 DEF CellTable, Fifo!Pending
  <2>5. CASE pc[q] \in Locking
    BY <1>1, <1>5, <2>1, <2>2, <2>3, <2>5 DEF CellTable, Fifo!Locked
  <2> QED BY <2>1, <2>4, <2>5 DEF HeldSlots
<1> QED BY <1>6, <1>7

(* The other steps of a producer are not visible.                             *)
Visible(p) == ObtainCas(p) \/ OverwriteReset(p) \/ OverwriteRollback(p) \/ OverwriteRestore(p) \/ Post(p)

LEMMA QuietPush ==
  ASSUME IndInv, NEW p \in Producers, ProducerStep(p) \/ \E f \in Calls[p] : Call(p, f), ~Visible(p)
  PROVE  /\ UNCHANGED <<readIndex, writeIndex>>
         /\ HeldSlots(p)' = HeldSlots(p)
         /\ pc'[p] \in Writing <=> pc[p] \in Writing
         /\ pc'[p] \in Locking <=> pc[p] \in Locking
<1> USE DEF IndInv, TypeOK, Goto, Return, Writing, Locking, HeldSlots, Slot
<1>1. UNCHANGED <<readIndex, writeIndex>>
  BY PusherFrame DEF Visible
<1>2. CASE \E f \in Calls[p] : Call(p, f)
  BY <1>1, <1>2 DEF Call
<1>3. CASE ObtainStep(p)
  BY <1>1, <1>3 DEF ObtainStep, ObtainLoad, ObtainNotFull, ObtainFull, ObtainFullOverwrite, ObtainCasFails, Visible
<1>4. CASE OverwriteStep(p)
  BY <1>1, <1>4 DEF OverwriteStep, OverwriteResetFails, OverwriteRollbackFails, Visible
<1>5. CASE PublishStep(p)
  BY <1>1, <1>5 DEF PublishStep, Write, AfterWrite, CountPreviousData, Visible
<1>6. CASE UpdateStep(p)
  BY <1>1, <1>6 DEF UpdateStep, UpdateLoadReadIndex, UpdateLoadWriteIndex, UpdateLoadReadIndexMax,
     UpdateScan, UpdateScanEnd, UpdateCas, UpdateCasFails, UpdateAgain, UpdateDone
<1> QED BY <1>2, <1>3, <1>4, <1>5, <1>6 DEF ProducerStep

LEMMA QuietCells ==
  ASSUME IndInv, IndInv', NEW p \in Producers, ProducerStep(p) \/ \E f \in Calls[p] : Call(p, f), ~Visible(p)
  PROVE  UNCHANGED Fifo!vars
<1>1. /\ UNCHANGED <<readIndex, writeIndex>> /\ HeldSlots(p)' = HeldSlots(p)
      /\ pc'[p] \in Writing <=> pc[p] \in Writing
      /\ pc'[p] \in Locking <=> pc[p] \in Locking
  BY QuietPush
<1>2. CellTable /\ CellTable' /\ Occupied' = Occupied
  BY <1>1, CellTableNow, CellTableNext DEF Occupied
<1>3. ASSUME NEW s \in Occupied PROVE CellAt(s)' = CellAt(s)
  <2>1. CASE s \notin HeldSlots(p)
    BY <1>1, <1>2, <2>1, OtherCell
  <2>2. CASE s \in HeldSlots(p) /\ pc[p] \in Writing
    BY <1>1, <1>2, <2>2 DEF CellTable, Fifo!Pending
  <2>3. CASE s \in HeldSlots(p) /\ pc[p] \in Locking
    <3>1. ~Write(p)
      BY <2>3 DEF Write, Goto, Locking
    <3>2. EntryAt(s)' = EntryAt(s)
      BY <3>1, PusherFrame, EntryStays
    <3> QED BY <1>1, <1>2, <2>3, <3>2 DEF CellTable, Fifo!Locked
  <2> QED BY <2>1, <2>2, <2>3 DEF HeldSlots
<1>4. Cells' = Cells
  BY <1>1, <1>3, SameCells
<1>5. ConsumerSlots' = ConsumerSlots /\ delivered' = delivered
  BY PusherFrame DEF consumer, ConsumerSlots, Front
<1> QED BY <1>4, <1>5 DEF Fifo!vars, Cells

-----------------------------------------------------------------------------
(* The visible steps of a producer.                                           *)

LEMMA Basics ==
  ASSUME IndInv
  PROVE  /\ readIndex \in Nat /\ writeIndex \in Nat /\ readIndex <= writeIndex /\ Length \in Nat
         /\ ready \in [Slots -> BOOLEAN] /\ pc \in [Producers -> ProducerPcs]
         /\ index \in [Producers -> Nat] /\ calls \in [Producers -> Nat]
         /\ hasFrontOwnership \in BOOLEAN /\ cpc \in ConsumerPcs
BY LengthAssumption DEF IndInv, TypeOK, WithinCapacity

(* The slot a producer holds, or the consumer, is in use.                     *)
LEMMA HeldOccupied ==
  ASSUME IndInv, NEW p \in Producers, NEW s \in HeldSlots(p)
  PROVE  s \in Occupied /\ s \in Slots
BY SpanMembers DEF IndInv, TypeOK, SlotOwnership, Occupied

LEMMA ReserveStep ==
  ASSUME IndInv, IndInv', NEW p \in Producers, ObtainCas(p)
  PROVE  Fifo!Reserve(p)
<1>0. ObtainStep(p) /\ ProducerStep(p)
  BY DEF ObtainStep, ProducerStep
<1>1. /\ writeIndex = index[p] /\ writeIndex' = writeIndex + 1 /\ pc[p] = "cas" /\ pc'[p] = "write"
      /\ UNCHANGED <<readIndex, index, hasFrontOwnership, cpc, delivered>>
  BY Basics DEF ObtainCas, Goto, consumer
<1>2. HeldSlots(p) = {} /\ HeldSlots(p)' = {Slot(writeIndex)}
  BY <1>1 DEF HeldSlots, Writing, Locking, Slot
<1>3. PlacesOK /\ PlacesOK' /\ CellTable'
  BY PlacesNow, PlacesNext, CellTableNext
<1>4. Size' = Size + 1 /\ Size \in Nat /\ Size < Length
  <2>1. Size' = Size + 1
    BY <1>1, Basics DEF Size
  <2>2. Size \in 0 .. Length /\ Size' \in 0 .. Length
    BY <1>3 DEF PlacesOK
  <2> QED BY <2>1, <2>2, LengthAssumption
<1>5. \A k : At(k)' = At(k)
  BY <1>1 DEF At, Slot
<1>6. At(Size + 1) = Slot(writeIndex)
  <2>1. readIndex + (Size + 1) - 1 = writeIndex
    BY Basics DEF Size
  <2> QED BY <2>1 DEF At
<1>7. ASSUME NEW k \in 1 .. Size PROVE Cells'[k] = Cells[k]
  <2>1. PICK s \in Occupied : s = At(k)
    BY <1>3 DEF PlacesOK
  <2>2. k \in 1 .. Size' /\ Size + 1 \in 1 .. Size' /\ k # Size + 1
    BY <1>4
  <2>3. s \in Occupied' /\ Cells'[k] = CellAt(s)'
    <3>1. At(k)' \in Occupied'
      BY <1>3, <2>2 DEF PlacesOK
    <3>2. \A r \in Occupied' : r = At(k)' => Cells'[k] = CellAt(r)'
      BY <1>3, <2>2 DEF PlacesOK
    <3> QED BY <1>5, <2>1, <3>1, <3>2
  <2>4. s # Slot(writeIndex)
    <3>1. PICK n \in 1 .. Size' : n = Size + 1
      BY <2>2
    <3>2. At(k)' = At(n)' => k = n
      BY <1>3, <2>2 DEF PlacesOK
    <3> QED BY <1>5, <1>6, <2>1, <2>2, <3>1, <3>2
  <2>5. CellAt(s)' = CellAt(s)
    BY <1>0, <1>2, <2>3, <2>4, OtherCell
  <2>6. Cells[k] = CellAt(s)
    BY <1>3, <2>1 DEF PlacesOK
  <2> QED BY <2>3, <2>5, <2>6
<1>8. Cells'[Size + 1] = Fifo!Pending(p) /\ Fifo!Pending(p) \in CellSet
  <2>1. PICK k \in 1 .. Size' : k = Size + 1
    BY <1>4
  <2>2. PICK s \in Occupied' : s = At(k)
    <3>1. At(k)' \in Occupied'
      BY <1>3 DEF PlacesOK
    <3> QED BY <1>5, <3>1
  <2>3. s \in HeldSlots(p)'
    BY <1>2, <1>6, <2>1, <2>2
  <2>4. Cells'[k] = CellAt(s)'
    <3>1. \A r \in Occupied' : r = At(k)' => Cells'[k] = CellAt(r)'
      BY <1>3 DEF PlacesOK
    <3> QED BY <1>5, <2>2, <3>1
  <2>5. pc'[p] \in Writing
    BY <1>1 DEF Writing
  <2>6. CellAt(s)' = Fifo!Pending(p) /\ CellAt(s)' \in CellSet
    BY <1>3, <2>3, <2>5 DEF CellTable, Fifo!Pending
  <2> QED BY <2>1, <2>4, <2>6
<1>9. Cells' = Append(Cells, Fifo!Pending(p))
  <2>1. Cells \in Seq(CellSet) /\ Cells' \in Seq(CellSet) /\ Len(Cells) = Size /\ Len(Cells') = Size + 1
    BY <1>3, <1>4 DEF PlacesOK
  <2>2. \A k \in 1 .. Len(Cells) : Cells'[k] = Cells[k]
    BY <1>7, <2>1
  <2>3. Cells'[Len(Cells) + 1] = Fifo!Pending(p)
    BY <1>8, <2>1
  <2> HIDE DEF Cells
  <2>4. PICK x \in CellSet : x = Fifo!Pending(p)
    BY <1>8
  <2>5. Len(Cells') = Len(Cells) + 1 /\ Cells'[Len(Cells) + 1] = x
    BY <2>1, <2>3, <2>4
  <2>6. Cells' = Append(Cells, x)
    BY <2>1, <2>2, <2>5, AppendIs
  <2> QED BY <2>4, <2>6
<1>10. Fifo!HeldBy(p) = {}
  BY <1>2, HeldPlaces
<1>11. Len(Cells) < Length
  BY <1>3, <1>4 DEF PlacesOK
<1>12. ConsumerSlots' = ConsumerSlots
  BY <1>1 DEF ConsumerSlots, Front, Slot
<1> QED BY <1>1, <1>9, <1>10, <1>11, <1>12 DEF Fifo!Reserve, Cells

(* The steps that change one cell.                                            *)
LEMMA OneCell ==
  ASSUME IndInv, IndInv', NEW p \in Producers, ProducerStep(p), UNCHANGED <<readIndex, writeIndex>>,
         NEW s \in Occupied, HeldSlots(p) \subseteq {s}, HeldSlots(p)' \subseteq {s}
  PROVE  \E k \in 1 .. Size :
            /\ s = At(k) /\ k \in 1 .. Len(Cells) /\ Cells[k] = CellAt(s)
            /\ Cells' = [Cells EXCEPT ![k] = CellAt(s)']
<1>1. PlacesOK
  BY PlacesNow
<1>2. PICK k \in 1 .. Size : s = At(k)
  BY <1>1 DEF PlacesOK
<1>3. Occupied' = Occupied
  BY DEF Occupied
<1>4. \A t \in Occupied \ {s} : CellAt(t)' = CellAt(t)
  BY <1>3, OtherCell
<1> QED BY <1>1, <1>2, <1>4, ChangedCell DEF PlacesOK

LEMMA PostIsPublish ==
  ASSUME ContentInv, IndInv', NEW p \in Producers, Post(p)
  PROVE  Fifo!Publish(p)
<1>0. IndInv /\ PublishStep(p) /\ ProducerStep(p)
  BY DEF ContentInv, PublishStep, ProducerStep
<1>1. PICK s \in Occupied : s = Slot(index[p]) /\ s \in Slots
  BY <1>0, HeldOccupied DEF Post, Goto, HeldSlots, Writing
<1>2. /\ pc[p] = "post" /\ pc'[p] = "urim_r" /\ ready' = [ready EXCEPT ![s] = TRUE]
      /\ UNCHANGED <<readIndex, writeIndex, payload, hasFrontOwnership, cpc, delivered>>
  BY <1>0, <1>1, Basics DEF Post, Goto, consumer
<1>3. HeldSlots(p) = {s} /\ HeldSlots(p)' = {}
  BY <1>1, <1>2 DEF HeldSlots, Writing, Locking
<1>4. CellTable /\ CellTable' /\ Occupied' = Occupied
  BY <1>0, <1>2, CellTableNow, CellTableNext DEF Occupied
<1>5. EntryAt(s)' = EntryAt(s)
  BY <1>2, EntryStays
<1>6. CellAt(s) = Fifo!Pending(p)
  BY <1>1, <1>2, <1>3, <1>4 DEF CellTable, Writing
<1>7. CellAt(s)' = Fifo!Full(EntryAt(s))
  <2>1. ready'[s]
    BY <1>0, <1>1, <1>2, Basics
  <2>2. Published(s)' /\ s \in Occupied'
    BY <1>1, <1>4, <2>1 DEF Published
  <2>3. CellAt(s)' = Fifo!Full(EntryAt(s)')
    BY <1>4, <2>2 DEF CellTable, Fifo!Full
  <2> QED BY <1>5, <2>3
<1>8. PICK k \in 1 .. Size : /\ s = At(k) /\ k \in 1 .. Len(Cells) /\ Cells[k] = CellAt(s)
                             /\ Cells' = [Cells EXCEPT ![k] = CellAt(s)']
  BY <1>0, <1>2, <1>3, OneCell
<1>9. k \in Fifo!HeldBy(p)
  BY <1>0, <1>3, <1>8, HeldPlaces
<1>10. EntryAt(s).id = Id(p)
  BY <1>1, <1>2 DEF ContentInv, ContentOK
<1>11. EntryAt(s) \in [kind : {"value", "exception"}, id : UNION {{q} \X (1 .. MaxCalls[q]) : q \in Producers}]
  <2>1. calls[p] \in 1 .. MaxCalls[p]
    BY <1>0, <1>2, Basics, BudgetAssumption DEF ContentInv, ContentOK
  <2>2. Id(p) \in {p} \X (1 .. MaxCalls[p])
    BY <2>1 DEF Id
  <2>3. Id(p) \in UNION {{q} \X (1 .. MaxCalls[q]) : q \in Producers}
    BY <2>2
  <2>4. EntryAt(s) = [kind |-> EntryAt(s).kind, id |-> EntryAt(s).id] /\ EntryAt(s).kind \in {"value", "exception"}
    BY DEF EntryAt
  <2> QED BY <1>10, <2>3, <2>4
<1>12. EntryAt(s).id[1] = p
  BY <1>10 DEF Id
<1>13. ConsumerSlots' = ConsumerSlots
  BY <1>2 DEF ConsumerSlots, Front, Slot
<1>14. Cells[k] = Fifo!Pending(p) /\ Cells' = [Cells EXCEPT ![k] = Fifo!Full(EntryAt(s))]
  BY <1>6, <1>7, <1>8
<1> QED BY <1>2, <1>9, <1>11, <1>12, <1>13, <1>14 DEF Fifo!Publish, Cells

LEMMA ResetIsLock ==
  ASSUME IndInv, IndInv', NEW p \in Producers, OverwriteReset(p)
  PROVE  Fifo!Lock(p)
<1>0. OverwriteStep(p) /\ ProducerStep(p)
  BY DEF OverwriteStep, ProducerStep
<1>1. PICK s \in Slots : s = Slot(index[p] - 1)
  <2>1. index[p] - 1 \in Nat
    BY Basics DEF IndInv, IndexOK, OverwriteReset, Goto
  <2> QED BY <2>1, SlotType
<1>2. /\ pc[p] = "reset" /\ pc'[p] = "rollback" /\ ready[s] /\ ready' = [ready EXCEPT ![s] = FALSE]
      /\ UNCHANGED <<readIndex, writeIndex, index, payload, hasFrontOwnership, cpc, delivered>>
  BY <1>1, Basics DEF OverwriteReset, Goto, consumer
<1>3. HeldSlots(p) = {} /\ HeldSlots(p)' = {s}
  BY <1>1, <1>2 DEF HeldSlots, Writing, Locking, Slot
<1>4. s \in Occupied /\ s \notin ConsumerSlots /\ Published(s)
  BY <1>2 DEF IndInv, SlotOwnership, ReadySlots, Published
<1>5. CellTable /\ CellTable' /\ Occupied' = Occupied
  BY <1>2, CellTableNow, CellTableNext DEF Occupied
<1>6. EntryAt(s)' = EntryAt(s)
  BY <1>2, EntryStays
<1>7. CellAt(s) = Fifo!Full(EntryAt(s))
  BY <1>4, <1>5 DEF CellTable
<1>8. CellAt(s)' = Fifo!Locked(p, EntryAt(s))
  <2>1. pc'[p] \in Locking
    BY <1>2 DEF Locking
  <2> QED BY <1>3, <1>4, <1>5, <1>6, <2>1 DEF CellTable, Fifo!Locked
<1>9. PICK k \in 1 .. Size : /\ s = At(k) /\ k \in 1 .. Len(Cells) /\ Cells[k] = CellAt(s)
                             /\ Cells' = [Cells EXCEPT ![k] = CellAt(s)']
  BY <1>0, <1>2, <1>3, <1>4, OneCell
<1>10. ConsumerSlots # {} => k # 1
  <2>1. SUFFICES ASSUME ConsumerSlots # {}, k = 1 PROVE FALSE
    OBVIOUS
  <2>2. ConsumerSlots = {Front}
    BY <2>1 DEF ConsumerSlots
  <2>3. At(k) = Front
    BY <2>1, Basics DEF At, Front
  <2> QED BY <1>4, <1>9, <2>2, <2>3
<1>11. Fifo!HeldBy(p) = {}
  BY <1>3, HeldPlaces
<1>12. Cells[k].state = "full" /\ Cells' = [Cells EXCEPT ![k] = Fifo!Locked(p, Cells[k].entry)]
  <2>1. Cells[k].state = "full" /\ Cells[k].entry = EntryAt(s)
    BY <1>7, <1>9 DEF Fifo!Full
  <2>2. Cells' = [Cells EXCEPT ![k] = Fifo!Locked(p, EntryAt(s))]
    BY <1>8, <1>9
  <2> QED BY <2>1, <2>2
<1>13. ConsumerSlots' = ConsumerSlots
  BY <1>2 DEF ConsumerSlots, Front, Slot
<1> QED BY <1>2, <1>9, <1>10, <1>11, <1>12, <1>13 DEF Fifo!Lock, Fifo!Places, Cells

LEMMA RestoreIsUnlock ==
  ASSUME IndInv, IndInv', NEW p \in Producers, OverwriteRestore(p)
  PROVE  Fifo!Unlock(p)
<1>0. OverwriteStep(p) /\ ProducerStep(p)
  BY DEF OverwriteStep, ProducerStep
<1>1. PICK s \in Occupied : s = Slot(index[p] - 1) /\ s \in Slots
  BY HeldOccupied DEF OverwriteRestore, HeldSlots, Writing, Locking
<1>2. /\ pc[p] = "restore" /\ pc'[p] = "idle" /\ ready' = [ready EXCEPT ![s] = TRUE]
      /\ UNCHANGED <<readIndex, writeIndex, payload, hasFrontOwnership, cpc, delivered>>
  BY <1>1, Basics DEF OverwriteRestore, Return, consumer
<1>3. HeldSlots(p) = {s} /\ HeldSlots(p)' = {}
  BY <1>1, <1>2 DEF HeldSlots, Writing, Locking
<1>4. CellTable /\ CellTable' /\ Occupied' = Occupied
  BY <1>2, CellTableNow, CellTableNext DEF Occupied
<1>5. EntryAt(s)' = EntryAt(s)
  BY <1>2, EntryStays
<1>6. CellAt(s) = Fifo!Locked(p, EntryAt(s))
  BY <1>1, <1>2, <1>3, <1>4 DEF CellTable, Locking
<1>7. CellAt(s)' = Fifo!Full(EntryAt(s))
  <2>1. ready'[s]
    BY <1>1, <1>2, Basics
  <2>2. Published(s)' /\ s \in Occupied'
    BY <1>1, <1>4, <2>1 DEF Published
  <2>3. CellAt(s)' = Fifo!Full(EntryAt(s)')
    BY <1>4, <2>2 DEF CellTable, Fifo!Full
  <2> QED BY <1>5, <2>3
<1>8. PICK k \in 1 .. Size : /\ s = At(k) /\ k \in 1 .. Len(Cells) /\ Cells[k] = CellAt(s)
                             /\ Cells' = [Cells EXCEPT ![k] = CellAt(s)']
  BY <1>0, <1>2, <1>3, OneCell
<1>9. k \in Fifo!HeldBy(p)
  BY <1>3, <1>8, HeldPlaces
<1>10. Cells[k].state = "locked" /\ Cells' = [Cells EXCEPT ![k] = Fifo!Full(Cells[k].entry)]
  <2>1. Cells[k].state = "locked" /\ Cells[k].entry = EntryAt(s)
    BY <1>6, <1>8 DEF Fifo!Locked
  <2>2. Cells' = [Cells EXCEPT ![k] = Fifo!Full(EntryAt(s))]
    BY <1>7, <1>8
  <2> QED BY <2>1, <2>2
<1>11. ConsumerSlots' = ConsumerSlots
  BY <1>2 DEF ConsumerSlots, Front, Slot
<1> QED BY <1>2, <1>9, <1>10, <1>11 DEF Fifo!Unlock, Cells

LEMMA RollbackIsDropLast ==
  ASSUME IndInv, IndInv', NEW p \in Producers, OverwriteRollback(p)
  PROVE  Fifo!DropLast(p)
<1>0. OverwriteStep(p) /\ ProducerStep(p)
  BY DEF OverwriteStep, ProducerStep
<1>1. PICK s \in Occupied : s = Slot(index[p] - 1) /\ s \in Slots
  BY HeldOccupied DEF OverwriteRollback, Goto, HeldSlots, Writing, Locking
<1>2. /\ pc[p] = "rollback" /\ pc'[p] = "load" /\ writeIndex = index[p] /\ writeIndex' = writeIndex - 1
      /\ UNCHANGED <<readIndex, payload, hasFrontOwnership, cpc, delivered>>
  BY <1>1, Basics DEF OverwriteRollback, Goto, consumer
<1>3. HeldSlots(p) = {s} /\ HeldSlots(p)' = {}
  BY <1>1, <1>2 DEF HeldSlots, Writing, Locking
<1>4. PlacesOK /\ PlacesOK' /\ CellTable
  BY PlacesNow, PlacesNext, CellTableNow
<1>5. Size \in Nat /\ Size >= 1 /\ Size' = Size - 1
  <2>1. Size' = Size - 1
    BY <1>2, Basics DEF Size
  <2>2. Size \in 0 .. Length /\ Size' \in 0 .. Length
    BY <1>4 DEF PlacesOK
  <2> QED BY <2>1, <2>2, LengthAssumption
<1>6. \A k : At(k)' = At(k)
  BY <1>2 DEF At, Slot
<1>7. PICK n \in 1 .. Size : n = Size
  BY <1>5
<1>8. At(n) = s
  <2>1. readIndex + n - 1 = index[p] - 1
    BY <1>2, <1>7, Basics DEF Size
  <2> QED BY <1>1, <2>1 DEF At
<1>9. CellAt(s) = Fifo!Locked(p, EntryAt(s)) /\ Cells[n] = CellAt(s)
  <2>1. pc[p] \in Locking
    BY <1>2 DEF Locking
  <2> QED BY <1>3, <1>4, <1>8, <2>1 DEF CellTable, PlacesOK
<1>10. ASSUME NEW k \in 1 .. Size' PROVE Cells'[k] = Cells[k]
  <2>1. k \in 1 .. Size /\ k # n
    BY <1>5, <1>7
  <2>2. PICK r \in Occupied : r = At(k)
    BY <1>4, <2>1 DEF PlacesOK
  <2>3. r # s
    BY <1>4, <1>8, <2>1, <2>2 DEF PlacesOK
  <2>4. r \in Occupied' /\ Cells'[k] = CellAt(r)'
    <3>1. At(k)' \in Occupied'
      BY <1>4 DEF PlacesOK
    <3>2. \A q \in Occupied' : q = At(k)' => Cells'[k] = CellAt(q)'
      BY <1>4 DEF PlacesOK
    <3> QED BY <1>6, <2>2, <3>1, <3>2
  <2>5. CellAt(r)' = CellAt(r)
    BY <1>0, <1>3, <2>3, <2>4, OtherCell
  <2>6. Cells[k] = CellAt(r)
    BY <1>4, <2>1, <2>2 DEF PlacesOK
  <2> QED BY <2>4, <2>5, <2>6
<1>11. Cells' = SubSeq(Cells, 1, Len(Cells) - 1)
  <2>1. Cells \in Seq(CellSet) /\ Cells' \in Seq(CellSet) /\ Len(Cells) = Size /\ Len(Cells') = Size - 1
    BY <1>4, <1>5 DEF PlacesOK
  <2>2. \A k \in 1 .. Len(Cells') : Cells'[k] = Cells[k]
    BY <1>5, <1>10, <2>1
  <2> HIDE DEF Cells
  <2>3. Len(Cells) >= 1 /\ Len(Cells') = Len(Cells) - 1
    BY <1>5, <2>1
  <2> QED BY <2>1, <2>2, <2>3, DropIs
<1>12. n \in Fifo!HeldBy(p)
  BY <1>3, <1>8, HeldPlaces
<1>13. Cells[n].state = "locked" /\ n = Len(Cells)
  BY <1>4, <1>7, <1>9 DEF Fifo!Locked, PlacesOK
<1>14. ConsumerSlots' = ConsumerSlots
  BY <1>2 DEF ConsumerSlots, Front, Slot
<1> QED BY <1>2, <1>11, <1>12, <1>13, <1>14 DEF Fifo!DropLast, Fifo!DropEnd, Cells

-----------------------------------------------------------------------------
(* The steps of the consumer.                                                 *)

LEMMA ConsumerCell ==
  ASSUME IndInv, IndInv', UNCHANGED <<producer, payload>>,
         NEW s \in Occupied, s \in Occupied', Published(s)' <=> Published(s)
  PROVE  CellAt(s)' = CellAt(s)
<1>1. CellTable /\ CellTable'
  BY CellTableNow, CellTableNext
<1>2. EntryAt(s)' = EntryAt(s)
  BY EntryStays
<1>3. UNCHANGED <<pc, index>>
  BY DEF producer
<1>4. CASE Published(s)
  <2>1. CellAt(s) = Fifo!Full(EntryAt(s)) /\ CellAt(s)' = Fifo!Full(EntryAt(s)')
    BY <1>1, <1>4 DEF CellTable, Fifo!Full
  <2> QED BY <1>2, <2>1
<1>5. CASE ~Published(s)
  <2>1. PICK q \in Producers : s \in HeldSlots(q)
    BY <1>1, <1>5 DEF CellTable
  <2>2. s \in HeldSlots(q)'
    BY <1>3, <2>1 DEF HeldSlots, Slot
  <2>3. CASE pc[q] \in Writing
    BY <1>1, <1>3, <2>1, <2>2, <2>3 DEF CellTable, Fifo!Pending
  <2>4. CASE pc[q] \in Locking
    BY <1>1, <1>2, <1>3, <2>1, <2>2, <2>4 DEF CellTable, Fifo!Locked
  <2> QED BY <2>1, <2>3, <2>4 DEF HeldSlots
<1> QED BY <1>4, <1>5

LEMMA ConsumerStutter ==
  ASSUME IndInv, IndInv', UNCHANGED <<producer, payload, writeIndex, readIndex, ready, delivered>>,
         ConsumerSlots' = ConsumerSlots
  PROVE  UNCHANGED Fifo!vars
<1>1. Occupied' = Occupied
  BY DEF Occupied
<1>2. ASSUME NEW s \in Occupied PROVE CellAt(s)' = CellAt(s)
  <2>1. Published(s)' <=> Published(s)
    BY DEF Published
  <2> QED BY <1>1, <2>1, ConsumerCell
<1>3. Cells' = Cells
  BY <1>2, SameCells
<1> QED BY <1>3 DEF Fifo!vars, Cells

(* Taking the semaphore of the front.  That the front is ready already says   *)
(* that the consumer does not hold it.                                        *)
LEMMA FrontIsTaken ==
  ASSUME IndInv, IndInv', TakeFront, UNCHANGED <<producer, payload, writeIndex, readIndex, delivered>>,
         ConsumerSlots' # {}
  PROVE  Fifo!Take
<1>1. Front \in Slots /\ ready[Front] /\ Front' = Front
  BY Basics, SlotType DEF Front, TakeFront, Slot
<1>2. ConsumerSlots = {} /\ ConsumerSlots' = {Front}
  <2>1. Front \in ReadySlots
    BY <1>1 DEF ReadySlots
  <2>2. Front \notin ConsumerSlots
    BY <2>1 DEF IndInv, SlotOwnership
  <2> QED BY <1>1, <2>2 DEF ConsumerSlots
<1>3. Front \in Occupied /\ Published(Front)
  BY <1>1 DEF IndInv, SlotOwnership, ReadySlots, Published
<1>4. Occupied' = Occupied
  BY DEF Occupied
<1>5. ASSUME NEW s \in Occupied PROVE CellAt(s)' = CellAt(s)
  <2>1. s \in Slots
    BY Basics, SpanMembers DEF Occupied
  <2>2. ready' = [ready EXCEPT ![Front] = FALSE] /\ ready \in [Slots -> BOOLEAN]
    BY Basics DEF TakeFront
  <2>3. Published(s)' <=> Published(s)
    BY <1>1, <1>2, <2>1, <2>2 DEF Published
  <2> QED BY <1>4, <2>3, ConsumerCell
<1>6. Cells' = Cells
  BY <1>5, SameCells
<1>7. Cells # <<>> /\ Cells[1].state = "full"
  <2>1. PlacesOK /\ CellTable
    BY PlacesNow, CellTableNow
  <2>2. PICK k \in 1 .. Size : Front = At(k)
    BY <1>3, <2>1 DEF PlacesOK
  <2>3. 1 \in 1 .. Size /\ At(1) = Front
    BY Basics DEF At, Front, Size
  <2>4. Cells[1] = Fifo!Full(EntryAt(Front))
    BY <1>3, <2>1, <2>3 DEF PlacesOK, CellTable
  <2>5. Len(Cells) >= 1
    BY <2>1, <2>3 DEF PlacesOK
  <2> QED BY <2>4, <2>5 DEF Fifo!Full
<1> QED BY <1>2, <1>6, <1>7 DEF Fifo!Take, Cells

LEMMA AdvanceIsRemove ==
  ASSUME ContentInv, IndInv', Advance
  PROVE  Fifo!Remove
<1>0. IndInv
  BY DEF ContentInv
<1>1. /\ cpc = "advance" /\ cpc' = "decrement" /\ readIndex' = readIndex + 1 /\ hasFrontOwnership' = FALSE
      /\ delivered' = Append(delivered, item) /\ item = EntryAt(Front)
      /\ UNCHANGED <<producer, payload, writeIndex, ready>>
  BY DEF Advance, ContentInv, ContentOK
<1>2. ConsumerSlots = {Front} /\ ConsumerSlots' = {}
  BY <1>1 DEF ConsumerSlots
<1>3. Front \in Occupied /\ Published(Front)
  BY <1>0, <1>2 DEF IndInv, SlotOwnership, Published
<1>4. PlacesOK /\ PlacesOK' /\ CellTable
  BY <1>0, PlacesNow, PlacesNext, CellTableNow
<1>5. Size \in Nat /\ Size >= 1 /\ Size' = Size - 1 /\ Size' \in Nat
  <2>1. Size' = Size - 1
    BY <1>0, <1>1, Basics DEF Size
  <2>2. Size \in 0 .. Length /\ Size' \in 0 .. Length
    BY <1>4 DEF PlacesOK
  <2> QED BY <2>1, <2>2, LengthAssumption
<1>6. ASSUME NEW k \in 1 .. Size' PROVE At(k)' = At(k + 1)
  <2>1. k \in Nat /\ (readIndex + 1) + k - 1 = readIndex + (k + 1) - 1
    BY <1>0, <1>5, Basics
  <2>2. At(k)' = Slot((readIndex + 1) + k - 1)
    BY <1>1 DEF At, Slot
  <2> QED BY <2>1, <2>2 DEF At
<1>7. 1 \in 1 .. Size /\ At(1) = Front
  BY <1>0, <1>5, Basics DEF At, Front
<1>8. Cells[1] = Fifo!Full(EntryAt(Front))
  BY <1>3, <1>4, <1>7 DEF PlacesOK, CellTable
<1>9. ASSUME NEW k \in 1 .. Size' PROVE Cells'[k] = Cells[k + 1]
  <2>1. PICK j \in 1 .. Size : j = k + 1 /\ j # 1
    BY <1>5
  <2>2. PICK s \in Occupied : s = At(j)
    BY <1>4 DEF PlacesOK
  <2>3. s # Front
    BY <1>4, <1>7, <2>1, <2>2 DEF PlacesOK
  <2>4. s \in Occupied' /\ Cells'[k] = CellAt(s)'
    <3>1. At(k)' \in Occupied'
      BY <1>4 DEF PlacesOK
    <3>2. \A q \in Occupied' : q = At(k)' => Cells'[k] = CellAt(q)'
      BY <1>4 DEF PlacesOK
    <3> QED BY <1>6, <2>1, <2>2, <3>1, <3>2
  <2>5. Published(s)' <=> Published(s)
    BY <1>1, <1>2, <2>3 DEF Published
  <2>6. CellAt(s)' = CellAt(s)
    BY <1>0, <1>1, <2>4, <2>5, ConsumerCell
  <2>7. Cells[j] = CellAt(s)
    BY <1>4, <2>2 DEF PlacesOK
  <2> QED BY <2>1, <2>4, <2>6, <2>7
<1>10. Cells' = Tail(Cells)
  <2>1. Cells \in Seq(CellSet) /\ Cells' \in Seq(CellSet) /\ Len(Cells) = Size /\ Len(Cells') = Size - 1
    BY <1>4, <1>5 DEF PlacesOK
  <2>2. \A k \in 1 .. Len(Cells') : Cells'[k] = Cells[k + 1]
    BY <1>5, <1>9, <2>1
  <2> HIDE DEF Cells
  <2>3. Cells # <<>> /\ Len(Cells') = Len(Cells) - 1
    BY <1>5, <2>1
  <2> QED BY <2>1, <2>2, <2>3, TailIs
<1>11. delivered' = Append(delivered, Cells[1].entry)
  BY <1>1, <1>8 DEF Fifo!Full
<1> QED BY <1>2, <1>10, <1>11 DEF Fifo!Remove, Cells

LEMMA ConsumerImplements ==
  ASSUME ContentInv, IndInv', ConsumerStep
  PROVE  Fifo!Next \/ UNCHANGED Fifo!vars
<1>0. IndInv
  BY DEF ContentInv
<1>1. ASSUME Advance PROVE Fifo!Next
  BY <1>1, AdvanceIsRemove DEF Fifo!Next
<1>2. ASSUME Pop, ~hasFrontOwnership PROVE Fifo!Next
  <2>1. TakeFront /\ ConsumerSlots' # {} /\ UNCHANGED <<producer, payload, writeIndex, readIndex, delivered>>
    BY <1>2 DEF Pop, ConsumerSlots
  <2> QED BY <1>0, <2>1, FrontIsTaken DEF Fifo!Next
<1>3. ASSUME PopWaitWake PROVE Fifo!Next
  <2>1. TakeFront /\ ConsumerSlots' # {} /\ UNCHANGED <<producer, payload, writeIndex, readIndex, delivered>>
    BY <1>3 DEF PopWaitWake, ConsumerSlots
  <2> QED BY <1>0, <2>1, FrontIsTaken DEF Fifo!Next
<1>4. ASSUME Empty PROVE Fifo!Next
  <2>1. TakeFront /\ ConsumerSlots' # {} /\ UNCHANGED <<producer, payload, writeIndex, readIndex, delivered>>
    BY <1>4 DEF Empty, ConsumerSlots
  <2> QED BY <1>0, <2>1, FrontIsTaken DEF Fifo!Next
<1>5. ASSUME WaitWake PROVE Fifo!Next
  <2>1. TakeFront /\ ConsumerSlots' # {} /\ UNCHANGED <<producer, payload, writeIndex, readIndex, delivered>>
    BY <1>5 DEF WaitWake, ConsumerSlots
  <2> QED BY <1>0, <2>1, FrontIsTaken DEF Fifo!Next
<1>6. ASSUME (Pop /\ hasFrontOwnership) \/ PopWait \/ Wait \/ Read \/ Decrement
      PROVE  UNCHANGED Fifo!vars
  <2>1. /\ UNCHANGED <<producer, payload, writeIndex, readIndex, ready, delivered>>
        /\ ConsumerSlots' = ConsumerSlots
    <3>1. CASE Pop /\ hasFrontOwnership
      BY <3>1 DEF Pop, ConsumerSlots, Front, Slot
    <3>2. CASE PopWait
      BY <1>0, <3>2, Basics DEF PopWait, shared, ConsumerSlots, Front, Slot
    <3>3. CASE Wait
      BY <3>3 DEF Wait, shared, ConsumerSlots, Front, Slot
    <3>4. CASE Read
      BY <3>4 DEF Read, shared, ConsumerSlots, Front, Slot
    <3>5. CASE Decrement
      BY <3>5 DEF Decrement, ConsumerSlots, Front, Slot
    <3> QED BY <1>6, <3>1, <3>2, <3>3, <3>4, <3>5
  <2> QED BY <1>0, <2>1, ConsumerStutter
<1> QED BY <1>1, <1>2, <1>3, <1>4, <1>5, <1>6 DEF ConsumerStep

-----------------------------------------------------------------------------
(* The theorem.                                                               *)

LEMMA PusherImplements ==
  ASSUME ContentInv, IndInv', NEW p \in Producers, ProducerStep(p) \/ \E f \in Calls[p] : Call(p, f)
  PROVE  Fifo!Next \/ UNCHANGED Fifo!vars
<1>0. IndInv
  BY DEF ContentInv
<1>1. CASE ~Visible(p)
  BY <1>0, <1>1, QuietCells
<1>2. CASE Visible(p)
  <2>1. \/ Fifo!Reserve(p) \/ Fifo!Publish(p) \/ Fifo!Lock(p) \/ Fifo!Unlock(p) \/ Fifo!DropLast(p)
    BY <1>0, <1>2, ReserveStep, ResetIsLock, RollbackIsDropLast, RestoreIsUnlock, PostIsPublish DEF Visible
  <2> QED BY <2>1 DEF Fifo!Next
<1> QED BY <1>1, <1>2

(* Every step of the queue is a step of FifoQueue or invisible to its users:  *)
(* with push functions of any mix, overwriting included, and any interleaving *)
(* of their accesses to memory with those of the receiving functions.         *)
THEOREM FifoImplemented == Spec => ImplementsFifo
<1>1. Init => Fifo!Init
  <2> SUFFICES ASSUME Init PROVE Fifo!Init
    OBVIOUS
  <2>1. PlacesOK
    BY InitIndInv, PlacesNow
  <2>2. Cells = <<>>
    <3>1. Cells \in Seq(CellSet) /\ Len(Cells) = 0
      BY <2>1 DEF PlacesOK, Init, Size
    <3> HIDE DEF Cells
    <3> QED BY <3>1, EmptySeq
  <2>3. ConsumerSlots = {} /\ delivered = <<>>
    BY DEF Init, ConsumerSlots
  <2> QED BY <2>2, <2>3 DEF Fifo!Init, Cells
<1>2. ContentInv /\ IndInv' /\ [Next]_vars => [Fifo!Next]_(Fifo!vars)
  <2> SUFFICES ASSUME ContentInv, IndInv', [Next]_vars PROVE Fifo!Next \/ UNCHANGED Fifo!vars
    OBVIOUS
  <2>1. CASE \E p \in Producers : ProducerStep(p) \/ \E f \in Calls[p] : Call(p, f)
    BY <2>1, PusherImplements
  <2>2. CASE ConsumerStep
    BY <2>2, ConsumerImplements
  <2>3. CASE UNCHANGED vars
    <3>1. /\ UNCHANGED <<producer, payload, writeIndex, readIndex, ready, delivered>>
          /\ ConsumerSlots' = ConsumerSlots
      BY <2>3 DEF vars, shared, consumer, ConsumerSlots, Front, Slot
    <3> QED BY <3>1, ConsumerStutter DEF ContentInv
  <2> QED BY <2>1, <2>2, <2>3 DEF Next
<1>3. Init => ContentInv
  BY InitContentInv
<1>4. ContentInv /\ [Next]_vars => ContentInv'
  BY ContentInductive
<1>5. ContentInv => IndInv
  BY DEF ContentInv
<1> QED BY <1>1, <1>2, <1>3, <1>4, <1>5, PTL DEF Spec, ImplementsFifo, Fifo!Spec
=============================================================================
