------------------------- MODULE FutureQueueProofs -------------------------
(* Theorems about FutureQueue, for any number of producers and calls and any  *)
(* length.  They rest on one inductive invariant: the types, the capacity,    *)
(* the ownership of the slots, and what the producers know about the index    *)
(* they hold.                                                                 *)
EXTENDS FutureQueue, TLAPS

-----------------------------------------------------------------------------
(* Arithmetic of the ring.                                                    *)

(* Two indices less than N apart are in different places modulo N.            *)
LEMMA ModuloDistinct ==
  ASSUME NEW N \in Nat, N > 0, NEW a \in Nat, NEW b \in Nat, a < b, b - a < N
  PROVE  a % N # b % N
<1> DEFINE qa == a \div N
           qb == b \div N
<1>1. /\ a = N * qa + (a % N) /\ b = N * qb + (b % N)
      /\ qa \in Nat /\ qb \in Nat /\ a % N \in Nat /\ b % N \in Nat
  OBVIOUS
<1> SUFFICES ASSUME a % N = b % N PROVE FALSE
  OBVIOUS
<1> HIDE DEF qa, qb
<1>2. b - a = N * qb - N * qa
  BY <1>1
<1>3. PICK k \in Int : k = qb - qa
  BY <1>1
<1>4. N * qb - N * qa = N * k
  BY <1>1, <1>3
<1>5. CASE k <= 0
  <2>1. N * k <= 0
    BY <1>5, <1>3
  <2> QED BY <2>1, <1>4, <1>2
<1>6. CASE k >= 1
  <2>1. N * k >= N
    BY <1>6, <1>3
  <2> QED BY <2>1, <1>4, <1>2
<1> QED BY <1>3, <1>5, <1>6

(* Slot() maps an index to a slot, injectively on nBuffers successive ones.   *)
LEMMA SlotType == ASSUME NEW i \in Nat PROVE Slot(i) \in Slots
BY LengthAssumption DEF Slot, Slots, nBuffers

LEMMA SlotDistinct ==
  ASSUME NEW i \in Nat, NEW j \in Nat, i < j, j <= i + Length
  PROVE  Slot(i) # Slot(j)
<1>1. nBuffers \in Nat /\ nBuffers > 0 /\ j - i < nBuffers
  BY LengthAssumption DEF nBuffers
<1> QED BY <1>1, ModuloDistinct DEF Slot

(* Obtaining a slot adds one that was free; removing the last or the first    *)
(* element frees exactly its slot.                                            *)
LEMMA SpanGrows ==
  ASSUME NEW r \in Nat, NEW w \in Nat, r <= w, w < r + Length
  PROVE  Span(r, w + 1) = Span(r, w) \cup {Slot(w)} /\ Slot(w) \notin Span(r, w)
<1>1. \A i \in r .. w - 1 : Slot(i) # Slot(w)
  BY SlotDistinct, LengthAssumption
<1>2. r .. w + 1 - 1 = (r .. w - 1) \cup {w}
  OBVIOUS
<1> QED BY <1>1, <1>2 DEF Span

LEMMA SpanLosesLast ==
  ASSUME NEW r \in Nat, NEW w \in Nat, r < w, w <= r + Length
  PROVE  Span(r, w - 1) = Span(r, w) \ {Slot(w - 1)}
<1>1. w - 1 \in Nat /\ r <= w - 1 /\ w - 1 < r + Length /\ w - 1 + 1 = w
  BY LengthAssumption
<1>2. Span(r, w - 1 + 1) = Span(r, w - 1) \cup {Slot(w - 1)} /\ Slot(w - 1) \notin Span(r, w - 1)
  BY <1>1, SpanGrows
<1> QED BY <1>1, <1>2

LEMMA SpanLosesFirst ==
  ASSUME NEW r \in Nat, NEW w \in Nat, r < w, w <= r + Length
  PROVE  Span(r + 1, w) = Span(r, w) \ {Slot(r)}
<1>1. \A i \in r + 1 .. w - 1 : Slot(i) # Slot(r)
  BY SlotDistinct, LengthAssumption
<1>2. r .. w - 1 = (r + 1 .. w - 1) \cup {r}
  OBVIOUS
<1> QED BY <1>1, <1>2 DEF Span

LEMMA SpanMembers ==
  ASSUME NEW r \in Nat, NEW w \in Nat
  PROVE  /\ Span(r, w) # {} => r < w
         /\ \A i \in Nat : r <= i /\ i < w => Slot(i) \in Span(r, w)
         /\ Span(r, w) \subseteq Slots
BY SlotType DEF Span

-----------------------------------------------------------------------------
(* The inductive invariant.                                                   *)

(* What a producer knows about its index: it writes an element of the queue;  *)
(* after the check there was room below readIndex + Length, and readIndex     *)
(* only grows; and an overwriting producer has seen a full queue.             *)
IndexOK ==
    \A p \in Producers :
        /\ pc[p] \in Writing => readIndex <= index[p] /\ index[p] < writeIndex
        /\ pc[p] = "cas" => index[p] < readIndex + Length
        /\ pc[p] \in {"reset"} \cup Locking => index[p] >= 1

IndInv == TypeOK /\ WithinCapacity /\ IndexOK /\ SlotOwnership

LEMMA InitIndInv == Init => IndInv
<1> SUFFICES ASSUME Init PROVE IndInv
  OBVIOUS
<1> USE LengthAssumption
<1>1. TypeOK
  <2>1. delivered \in Seq(Entry) /\ item \in Entry
    BY DEF Init, Entry, NoItem
  <2>2. urim \in [Producers -> [r : Nat, w : Nat, m : Nat, new : Nat, i : Nat]]
    BY DEF Init, NoLocals
  <2>3. pc \in [Producers -> ProducerPcs] /\ call \in [Producers -> AllCalls \cup {"none"}]
    BY DEF Init, ProducerPcs
  <2>4. cpc \in ConsumerPcs
    BY DEF Init, ConsumerPcs
  <2>5. ready \in [Slots -> BOOLEAN] /\ hasFrontOwnership \in BOOLEAN
    BY DEF Init
  <2>6. ret \in [Producers -> BOOLEAN] /\ result \in [Producers -> BOOLEAN]
    BY DEF Init
  <2>7. /\ calls \in [Producers -> Nat] /\ index \in [Producers -> Nat]
        /\ buffers \in [Slots -> Ids \cup {NoData}] /\ exceptions \in [Slots -> Ids \cup {NoData}]
    BY DEF Init
  <2>8. writeIndex \in Nat /\ readIndexMax \in Nat /\ readIndex \in Nat /\ previousData \in Int
    BY DEF Init
  <2> QED BY <2>1, <2>2, <2>3, <2>4, <2>5, <2>6, <2>7, <2>8 DEF TypeOK
<1>2. WithinCapacity
  BY DEF Init, WithinCapacity
<1>3. IndexOK
  BY DEF Init, IndexOK, Writing, Locking
<1>4. SlotOwnership
  <2>1. Occupied = {} /\ ReadySlots = {} /\ ConsumerSlots = {}
    BY DEF Init, Occupied, Span, ReadySlots, ConsumerSlots
  <2>2. \A p \in Producers : HeldSlots(p) = {}
    BY DEF Init, HeldSlots, Writing, Locking
  <2> QED BY <2>1, <2>2 DEF SlotOwnership
<1> QED BY <1>1, <1>2, <1>3, <1>4 DEF IndInv
-----------------------------------------------------------------------------
(* Every step preserves the types.                                            *)

LEMMA ReturnType ==
  ASSUME TypeOK, NEW p \in Producers, NEW b \in BOOLEAN, Return(p, b)
  PROVE  /\ pc' \in [Producers -> ProducerPcs]
         /\ call' \in [Producers -> AllCalls \cup {"none"}]
         /\ calls' \in [Producers -> Nat] /\ index' \in [Producers -> Nat]
         /\ ret' \in [Producers -> BOOLEAN] /\ result' \in [Producers -> BOOLEAN]
         /\ urim' \in [Producers -> [r : Nat, w : Nat, m : Nat, new : Nat, i : Nat]]
<1>1. NoLocals \in [r : Nat, w : Nat, m : Nat, new : Nat, i : Nat] /\ "idle" \in ProducerPcs
  BY DEF NoLocals, ProducerPcs
<1> QED BY <1>1 DEF TypeOK, Return

LEMMA ProducerType ==
  ASSUME TypeOK, IndexOK, NEW p \in Producers, ProducerStep(p) \/ \E f \in Calls[p] : Call(p, f)
  PROVE  TypeOK'
<1> USE LengthAssumption DEF TypeOK, Goto, shared, payload, producer, function, consumer, ProducerPcs
<1>1. ASSUME NEW f \in Calls[p], Call(p, f) PROVE TypeOK'
  <2>1. f \in AllCalls
    BY CallsAssumption
  <2>2. call' \in [Producers -> AllCalls \cup {"none"}] /\ calls' \in [Producers -> Nat]
    BY <1>1, <2>1 DEF Call
  <2> QED BY <1>1, <2>2 DEF Call
<1>2. ASSUME ObtainLoad(p) PROVE TypeOK'
  BY <1>2 DEF ObtainLoad
<1>3. ASSUME ObtainNotFull(p) PROVE TypeOK'
  BY <1>3 DEF ObtainNotFull
<1>4. ASSUME ObtainFullOverwrite(p) PROVE TypeOK'
  BY <1>4 DEF ObtainFullOverwrite
<1>5. ASSUME ObtainCas(p) PROVE TypeOK'
  <2>1. writeIndex' \in Nat
    BY <1>5 DEF ObtainCas
  <2> QED BY <1>5, <2>1 DEF ObtainCas
<1>6. ASSUME ObtainCasFails(p) PROVE TypeOK'
  BY <1>6 DEF ObtainCasFails
<1>7. ASSUME OverwriteReset(p) PROVE TypeOK'
  BY <1>7 DEF OverwriteReset
<1>8. ASSUME OverwriteRollback(p) PROVE TypeOK'
  <2>1. writeIndex' \in Nat
    BY <1>8 DEF OverwriteRollback, IndexOK, Locking
  <2> QED BY <1>8, <2>1 DEF OverwriteRollback
<1>9. ASSUME OverwriteRollbackFails(p) PROVE TypeOK'
  BY <1>9 DEF OverwriteRollbackFails
<1>10. ASSUME Write(p) PROVE TypeOK'
  <2>1. Id(p) \in Ids
    BY DEF Id, Ids
  <2>2. /\ BufferWritten(p) \in Ids \cup {NoData} /\ ExceptionWritten(p) \in Ids \cup {NoData}
        /\ AfterWrite(p) \in ProducerPcs
    <3>1. index[p] \in Nat /\ Slot(index[p]) \in Slots
      BY SlotType
    <3> QED BY <2>1, <3>1 DEF BufferWritten, ExceptionWritten, AfterWrite
  <2>3. /\ buffers' \in [Slots -> Ids \cup {NoData}] /\ exceptions' \in [Slots -> Ids \cup {NoData}]
        /\ pc' \in [Producers -> ProducerPcs]
    BY <1>10, <2>2 DEF Write
  <2> QED BY <1>10, <2>3 DEF Write
<1>11. ASSUME CountPreviousData(p) PROVE TypeOK'
  BY <1>11 DEF CountPreviousData
<1>12. ASSUME Post(p) PROVE TypeOK'
  BY <1>12 DEF Post
<1>13. ASSUME UpdateLoadReadIndex(p) PROVE TypeOK'
  BY <1>13 DEF UpdateLoadReadIndex
<1>14. ASSUME UpdateLoadWriteIndex(p) PROVE TypeOK'
  <2>1. Clamped(writeIndex, urim[p].r) \in Nat
    BY DEF Clamped, nBuffers
  <2>2. urim' \in [Producers -> [r : Nat, w : Nat, m : Nat, new : Nat, i : Nat]]
    <3>1. urim' = [urim EXCEPT ![p] = [urim[p] EXCEPT !.w = Clamped(writeIndex, urim[p].r)]]
      BY <1>14 DEF UpdateLoadWriteIndex
    <3>2. [urim[p] EXCEPT !.w = Clamped(writeIndex, urim[p].r)]
            \in [r : Nat, w : Nat, m : Nat, new : Nat, i : Nat]
      <4>1. urim[p] \in [r : Nat, w : Nat, m : Nat, new : Nat, i : Nat]
        OBVIOUS
      <4> HIDE DEF IndInv, TypeOK
      <4> QED BY <2>1, <4>1
    <3> QED BY <3>1, <3>2
  <2> QED BY <1>14, <2>2 DEF UpdateLoadWriteIndex
<1>15. ASSUME UpdateLoadReadIndexMax(p) PROVE TypeOK'
  <2>1. urim' \in [Producers -> [r : Nat, w : Nat, m : Nat, new : Nat, i : Nat]]
    <3> DEFINE l == [urim[p] EXCEPT !.m = readIndexMax, !.new = readIndexMax, !.i = readIndexMax]
    <3>1. urim' = [urim EXCEPT ![p] = l]
      BY <1>15 DEF UpdateLoadReadIndexMax
    <3>2. l \in [r : Nat, w : Nat, m : Nat, new : Nat, i : Nat]
      <4>1. urim[p] \in [r : Nat, w : Nat, m : Nat, new : Nat, i : Nat] /\ readIndexMax \in Nat
        OBVIOUS
      <4> HIDE DEF IndInv, TypeOK
      <4> QED BY <4>1
    <3> QED BY <3>1, <3>2
  <2> QED BY <1>15, <2>1 DEF UpdateLoadReadIndexMax
<1>16. ASSUME UpdateScan(p) PROVE TypeOK'
  <2>1. urim[p].i + 1 \in Nat
    OBVIOUS
  <2>2. [urim[p] EXCEPT !.i = urim[p].i + 1, !.new = urim[p].i + 1]
          \in [r : Nat, w : Nat, m : Nat, new : Nat, i : Nat]
    <3>1. urim[p] \in [r : Nat, w : Nat, m : Nat, new : Nat, i : Nat]
      OBVIOUS
    <3> HIDE DEF IndInv, TypeOK
    <3> QED BY <2>1, <3>1
  <2>3. urim' \in [Producers -> [r : Nat, w : Nat, m : Nat, new : Nat, i : Nat]]
    <3>1. urim' = [urim EXCEPT ![p] = [urim[p] EXCEPT !.i = urim[p].i + 1, !.new = urim[p].i + 1]]
      BY <1>16 DEF UpdateScan
    <3> QED BY <2>2, <3>1
  <2> QED BY <1>16, <2>3 DEF UpdateScan
<1>17. ASSUME UpdateScanEnd(p) PROVE TypeOK'
  BY <1>17 DEF UpdateScanEnd
<1>18. ASSUME UpdateCas(p) PROVE TypeOK'
  BY <1>18 DEF UpdateCas
<1>19. ASSUME UpdateCasFails(p) PROVE TypeOK'
  BY <1>19 DEF UpdateCasFails
<1>20. ASSUME UpdateAgain(p) PROVE TypeOK'
  <2>1. [urim[p] EXCEPT !.i = urim[p].m] \in [r : Nat, w : Nat, m : Nat, new : Nat, i : Nat]
    <3>1. urim[p] \in [r : Nat, w : Nat, m : Nat, new : Nat, i : Nat]
      OBVIOUS
    <3> HIDE DEF IndInv, TypeOK
    <3> QED BY <3>1
  <2>2. urim' \in [Producers -> [r : Nat, w : Nat, m : Nat, new : Nat, i : Nat]]
    <3>1. urim' = [urim EXCEPT ![p] = [urim[p] EXCEPT !.i = urim[p].m]]
      BY <1>20 DEF UpdateAgain
    <3> QED BY <2>1, <3>1
  <2> QED BY <1>20, <2>2 DEF UpdateAgain
<1>21. ASSUME ObtainFull(p) PROVE TypeOK'
  BY <1>21, ReturnType DEF ObtainFull
<1>22. ASSUME OverwriteResetFails(p) PROVE TypeOK'
  BY <1>22, ReturnType DEF OverwriteResetFails
<1>23. ASSUME OverwriteRestore(p) PROVE TypeOK'
  BY <1>23, ReturnType DEF OverwriteRestore
<1>24. ASSUME UpdateDone(p) PROVE TypeOK'
  BY <1>24, ReturnType DEF UpdateDone
<1> QED
  BY <1>1, <1>2, <1>3, <1>4, <1>5, <1>6, <1>7, <1>8, <1>9, <1>10, <1>11, <1>12, <1>13, <1>14, <1>15, <1>16, <1>17, <1>18, <1>19, <1>20, <1>21, <1>22, <1>23, <1>24
  DEF ProducerStep, ObtainStep, OverwriteStep, PublishStep, UpdateStep

LEMMA ConsumerType == ASSUME TypeOK, ConsumerStep PROVE TypeOK'
<1> USE LengthAssumption DEF TypeOK, shared, payload, producer, function, consumer, ConsumerPcs, TakeFront
<1>1. ASSUME Pop PROVE TypeOK'
  BY <1>1 DEF Pop
<1>2. ASSUME PopWait PROVE TypeOK'
  BY <1>2 DEF PopWait
<1>3. ASSUME PopWaitWake PROVE TypeOK'
  BY <1>3 DEF PopWaitWake
<1>4. ASSUME Empty PROVE TypeOK'
  BY <1>4 DEF Empty
<1>5. ASSUME Wait PROVE TypeOK'
  BY <1>5 DEF Wait
<1>6. ASSUME WaitWake PROVE TypeOK'
  BY <1>6 DEF WaitWake
<1>7. ASSUME Read PROVE TypeOK'
  <2>1. readIndex % nBuffers \in Slots
    BY SlotType DEF Slot
  <2>2. EntryAt(Front) \in Entry
    BY <2>1 DEF Entry, EntryAt, Front, Slot
  <2> QED BY <1>7, <2>2 DEF Read
<1>8. ASSUME Advance PROVE TypeOK'
  <2>1. NoItem \in Entry
    BY DEF Entry, NoItem
  <2>2. delivered' \in Seq(Entry)
    BY <1>8 DEF Advance
  <2>3. readIndex' \in Nat
    BY <1>8 DEF Advance
  <2>4. hasFrontOwnership' \in BOOLEAN /\ cpc' \in ConsumerPcs /\ item' \in Entry
    BY <1>8, <2>1 DEF Advance
  <2>5. UNCHANGED <<writeIndex, readIndexMax, ready, payload, previousData, producer>>
    BY <1>8 DEF Advance
  <2> QED BY <2>2, <2>3, <2>4, <2>5
<1>9. ASSUME Decrement PROVE TypeOK'
  BY <1>9 DEF Decrement
<1> QED BY <1>1, <1>2, <1>3, <1>4, <1>5, <1>6, <1>7, <1>8, <1>9 DEF ConsumerStep
-----------------------------------------------------------------------------
(* Ownership, abstractly: the occupied slots O are shared out among the ready *)
(* ones R, the consumer's C and the producers' H[p].                          *)

Owned(O, R, C, H) ==
    /\ O = R \cup C \cup UNION {H[p] : p \in Producers}
    /\ R \cap C = {}
    /\ \A p \in Producers :
         /\ H[p] \cap (R \cup C) = {}
         /\ \A q \in Producers \ {p} : H[p] \cap H[q] = {}

Held == [p \in Producers |-> HeldSlots(p)]

LEMMA SlotOwnershipIsOwned == SlotOwnership <=> Owned(Occupied, ReadySlots, ConsumerSlots, Held)
<1>1. \A p \in Producers : Held[p] = HeldSlots(p)
  BY DEF Held
<1>2. {Held[p] : p \in Producers} = {HeldSlots(p) : p \in Producers}
  BY <1>1
<1> QED BY <1>1, <1>2 DEF SlotOwnership, Owned

(* A slot changes hands: a producer obtains a free one, locks a ready one,    *)
(* makes its own ready, or frees it; the consumer takes a ready one or frees  *)
(* its own.                                                                   *)
LEMMA ObtainFree ==
  ASSUME NEW O, NEW R, NEW C, NEW H \in [Producers -> SUBSET Slots], NEW p \in Producers, NEW s \in Slots,
         Owned(O, R, C, H), s \notin O, H[p] = {}
  PROVE  Owned(O \cup {s}, R, C, [H EXCEPT ![p] = {s}])
BY DEF Owned

LEMMA LockReady ==
  ASSUME NEW O, NEW R, NEW C, NEW H \in [Producers -> SUBSET Slots], NEW p \in Producers, NEW s \in Slots,
         Owned(O, R, C, H), s \in R, H[p] = {}
  PROVE  Owned(O, R \ {s}, C, [H EXCEPT ![p] = {s}])
BY DEF Owned

LEMMA MakeReady ==
  ASSUME NEW O, NEW R, NEW C, NEW H \in [Producers -> SUBSET Slots], NEW p \in Producers, NEW s \in Slots,
         Owned(O, R, C, H), H[p] = {s}
  PROVE  Owned(O, R \cup {s}, C, [H EXCEPT ![p] = {}])
BY DEF Owned

LEMMA FreeOwn ==
  ASSUME NEW O, NEW R, NEW C, NEW H \in [Producers -> SUBSET Slots], NEW p \in Producers, NEW s \in Slots,
         Owned(O, R, C, H), H[p] = {s}
  PROVE  Owned(O \ {s}, R, C, [H EXCEPT ![p] = {}])
BY DEF Owned

LEMMA ConsumerTakes ==
  ASSUME NEW O, NEW R, NEW H \in [Producers -> SUBSET Slots], NEW s \in Slots,
         Owned(O, R, {}, H), s \in R
  PROVE  Owned(O, R \ {s}, {s}, H)
BY DEF Owned

LEMMA ConsumerFrees ==
  ASSUME NEW O, NEW R, NEW H \in [Producers -> SUBSET Slots], NEW s \in Slots,
         Owned(O, R, {s}, H)
  PROVE  Owned(O \ {s}, R, {}, H)
BY DEF Owned

LEMMA OwnedMembers ==
  ASSUME NEW O, NEW R, NEW C, NEW H \in [Producers -> SUBSET Slots], Owned(O, R, C, H)
  PROVE  R \subseteq O /\ C \subseteq O /\ \A p \in Producers : H[p] \subseteq O
BY DEF Owned
-----------------------------------------------------------------------------
(* Every step preserves capacity, indices and ownership.                      *)

LEMMA HeldType ==
  ASSUME TypeOK, IndexOK
  PROVE  /\ Held \in [Producers -> SUBSET Slots]
         /\ \A p \in Producers : Held[p] = HeldSlots(p)
<1>1. ASSUME NEW p \in Producers PROVE HeldSlots(p) \subseteq Slots
  <2>1. CASE pc[p] \in Writing
    BY <2>1, SlotType DEF HeldSlots, TypeOK
  <2>2. CASE pc[p] \notin Writing /\ pc[p] \in Locking
    <3>1. index[p] - 1 \in Nat
      BY <2>2 DEF TypeOK, IndexOK
    <3> QED BY <3>1, <2>2, SlotType DEF HeldSlots
  <2>3. CASE pc[p] \notin Writing /\ pc[p] \notin Locking
    BY <2>3 DEF HeldSlots
  <2> QED BY <2>1, <2>2, <2>3
<1> QED BY <1>1 DEF Held

LEMMA OwnedNow == ASSUME IndInv PROVE Owned(Occupied, ReadySlots, ConsumerSlots, Held)
BY SlotOwnershipIsOwned DEF IndInv

LEMMA OwnedNext == Owned(Occupied', ReadySlots', ConsumerSlots', Held') => SlotOwnership'
<1>1. (SlotOwnership <=> Owned(Occupied, ReadySlots, ConsumerSlots, Held))'
  BY SlotOwnershipIsOwned, PTL
<1>2. Owned(Occupied, ReadySlots, ConsumerSlots, Held)'
        <=> Owned(Occupied', ReadySlots', ConsumerSlots', Held')
  BY DEF Owned
<1> QED BY <1>1, <1>2

(* A step that moves no index, takes no semaphore and leaves every producer   *)
(* with the slots it had.                                                     *)
Quiet == /\ UNCHANGED <<writeIndex, readIndex, ready>>
         /\ ConsumerSlots' = ConsumerSlots
         /\ \A q \in Producers : HeldSlots(q)' = HeldSlots(q)

LEMMA QuietStep == ASSUME IndInv, Quiet PROVE SlotOwnership' /\ WithinCapacity'
<1>1. Held' = Held
  BY DEF Quiet, Held
<1>2. Occupied' = Occupied /\ ReadySlots' = ReadySlots /\ ConsumerSlots' = ConsumerSlots
  BY DEF Quiet, Occupied, ReadySlots
<1>3. WithinCapacity'
  BY DEF Quiet, IndInv, WithinCapacity
<1> QED BY <1>1, <1>2, <1>3, OwnedNow, OwnedNext

(* What a producer obtains when it reserves: the slot of writeIndex.          *)
LEMMA ObtainCasOwnership ==
  ASSUME IndInv, NEW p \in Producers, ObtainCas(p)
  PROVE  SlotOwnership' /\ WithinCapacity' /\ IndexOK'
<1> USE DEF IndInv, TypeOK
<1>1. /\ writeIndex = index[p] /\ writeIndex' = writeIndex + 1 /\ pc[p] = "cas"
      /\ pc' = [pc EXCEPT ![p] = "write"]
      /\ UNCHANGED <<readIndex, ready, hasFrontOwnership, cpc, index>>
  BY DEF ObtainCas, Goto, consumer
<1>2. writeIndex < readIndex + Length /\ readIndex <= writeIndex
  BY <1>1 DEF IndexOK, WithinCapacity
<1>3. Occupied' = Occupied \cup {Slot(writeIndex)} /\ Slot(writeIndex) \notin Occupied
  BY <1>1, <1>2, SpanGrows DEF Occupied
<1>4. ReadySlots' = ReadySlots /\ ConsumerSlots' = ConsumerSlots
  BY <1>1 DEF ReadySlots, ConsumerSlots, Front
<1>5. HeldSlots(p) = {} /\ HeldSlots(p)' = {Slot(writeIndex)}
  BY <1>1 DEF HeldSlots, Writing, Locking
<1>6. \A q \in Producers \ {p} : HeldSlots(q)' = HeldSlots(q)
  BY <1>1 DEF HeldSlots
<1>7. Held' = [Held EXCEPT ![p] = {Slot(writeIndex)}] /\ Held[p] = {}
  BY <1>5, <1>6 DEF Held
<1>8. Slot(writeIndex) \in Slots
  BY SlotType
<1>9. Owned(Occupied', ReadySlots', ConsumerSlots', Held')
  BY <1>3, <1>4, <1>7, <1>8, OwnedNow, HeldType, ObtainFree
<1>10. WithinCapacity'
  BY <1>1, <1>2, LengthAssumption DEF WithinCapacity
<1>11. IndexOK'
  <2> SUFFICES ASSUME NEW q \in Producers
               PROVE  /\ pc'[q] \in Writing => readIndex <= index[q] /\ index[q] < writeIndex + 1
                      /\ pc'[q] = "cas" => index[q] < readIndex + Length
                      /\ pc'[q] \in {"reset"} \cup Locking => index[q] >= 1
    BY <1>1 DEF IndexOK
  <2>1. CASE q = p
    BY <2>1, <1>1, <1>2 DEF Writing, Locking
  <2>2. CASE q # p
    <3>1. pc'[q] = pc[q]
      BY <2>2, <1>1
    <3>2. /\ pc[q] \in Writing => readIndex <= index[q] /\ index[q] < writeIndex
          /\ pc[q] = "cas" => index[q] < readIndex + Length
          /\ pc[q] \in {"reset"} \cup Locking => index[q] >= 1
      BY DEF IndexOK
    <3>3. index[q] \in Nat /\ writeIndex \in Nat
      OBVIOUS
    <3> HIDE DEF IndInv, TypeOK
    <3> QED BY <3>1, <3>2, <3>3
  <2> QED BY <2>1, <2>2
<1> QED BY <1>9, <1>10, <1>11, OwnedNext

(* Locking the last element takes its semaphore ...                           *)
LEMMA OverwriteResetOwnership ==
  ASSUME IndInv, NEW p \in Producers, OverwriteReset(p)
  PROVE  SlotOwnership' /\ WithinCapacity' /\ IndexOK'
<1> USE DEF IndInv, TypeOK
<1> DEFINE s == Slot(index[p] - 1)
<1>1. /\ ready[s] /\ ready' = [ready EXCEPT ![s] = FALSE] /\ pc[p] = "reset"
      /\ pc' = [pc EXCEPT ![p] = "rollback"]
      /\ UNCHANGED <<writeIndex, readIndex, hasFrontOwnership, cpc, index>>
  BY DEF OverwriteReset, Goto, consumer
<1>2. index[p] - 1 \in Nat /\ s \in Slots
  BY <1>1, SlotType DEF IndexOK
<1>3. Occupied' = Occupied /\ ConsumerSlots' = ConsumerSlots
  BY <1>1 DEF Occupied, ConsumerSlots, Front
<1>4. ReadySlots' = ReadySlots \ {s} /\ s \in ReadySlots
  BY <1>1, <1>2 DEF ReadySlots
<1>5. HeldSlots(p) = {} /\ HeldSlots(p)' = {s}
  BY <1>1 DEF HeldSlots, Writing, Locking
<1>6. \A q \in Producers \ {p} : HeldSlots(q)' = HeldSlots(q)
  BY <1>1 DEF HeldSlots
<1>7. Held' = [Held EXCEPT ![p] = {s}] /\ Held[p] = {}
  BY <1>5, <1>6 DEF Held
<1>8. Owned(Occupied', ReadySlots', ConsumerSlots', Held')
  BY <1>2, <1>3, <1>4, <1>7, OwnedNow, HeldType, LockReady
<1>9. WithinCapacity'
  BY <1>1 DEF WithinCapacity
<1>10. IndexOK'
  BY <1>1 DEF IndexOK, Writing, Locking
<1> QED BY <1>8, <1>9, <1>10, OwnedNext

(* ... and if nobody moved writeIndex meanwhile, the element is gone: no      *)
(* other thread holds its slot, so every index in use stays in range.         *)
LEMMA OverwriteRollbackOwnership ==
  ASSUME IndInv, NEW p \in Producers, OverwriteRollback(p)
  PROVE  SlotOwnership' /\ WithinCapacity' /\ IndexOK'
<1> USE DEF IndInv, TypeOK
<1> DEFINE s == Slot(writeIndex - 1)
<1>1. /\ writeIndex = index[p] /\ writeIndex' = writeIndex - 1 /\ pc[p] = "rollback"
      /\ pc' = [pc EXCEPT ![p] = "load"]
      /\ UNCHANGED <<readIndex, ready, hasFrontOwnership, cpc, index>>
  BY DEF OverwriteRollback, Goto, consumer
<1>2. HeldSlots(p) = {s} /\ HeldSlots(p)' = {}
  BY <1>1 DEF HeldSlots, Writing, Locking
<1>3. \A q \in Producers \ {p} : HeldSlots(q)' = HeldSlots(q)
  BY <1>1 DEF HeldSlots
<1>4. Held' = [Held EXCEPT ![p] = {}] /\ Held[p] = {s}
  BY <1>2, <1>3 DEF Held
<1>5. Held[p] \subseteq Occupied
  BY OwnedNow, HeldType, OwnedMembers
<1>6. readIndex < writeIndex /\ writeIndex <= readIndex + Length
  BY <1>4, <1>5, SpanMembers DEF Occupied, WithinCapacity
<1>7. Occupied' = Occupied \ {s} /\ s \in Slots
  BY <1>1, <1>6, SpanLosesLast, SlotType DEF Occupied
<1>8. ReadySlots' = ReadySlots /\ ConsumerSlots' = ConsumerSlots
  BY <1>1 DEF ReadySlots, ConsumerSlots, Front
<1>9. Owned(Occupied', ReadySlots', ConsumerSlots', Held')
  BY <1>4, <1>7, <1>8, OwnedNow, HeldType, FreeOwn
<1>10. WithinCapacity'
  BY <1>1, <1>6, LengthAssumption DEF WithinCapacity
<1>11. ASSUME NEW q \in Producers, pc[q] \in Writing PROVE index[q] # writeIndex - 1
  <2>1. q # p
    BY <1>1, <1>11 DEF Writing
  <2>2. HeldSlots(q) = {Slot(index[q])}
    BY <1>11 DEF HeldSlots
  <2> QED BY <2>1, <2>2, <1>2 DEF SlotOwnership
<1>12. IndexOK'
  <2> SUFFICES ASSUME NEW q \in Producers
               PROVE  /\ pc'[q] \in Writing => readIndex' <= index'[q] /\ index'[q] < writeIndex'
                      /\ pc'[q] = "cas" => index'[q] < readIndex' + Length
                      /\ pc'[q] \in {"reset"} \cup Locking => index'[q] >= 1
    BY DEF IndexOK
  <2>1. index'[q] = index[q] /\ index[q] \in Nat
    BY <1>1
  <2>2. pc'[q] = IF q = p THEN "load" ELSE pc[q]
    BY <1>1
  <2>3. CASE q = p
    BY <2>2, <2>3 DEF Writing, Locking
  <2>4. CASE q # p
    <3>1. pc'[q] = pc[q]
      BY <2>2, <2>4
    <3>2. pc[q] \in Writing => readIndex <= index[q] /\ index[q] < writeIndex - 1
      <4>1. pc[q] \in Writing => readIndex <= index[q] /\ index[q] < writeIndex
        BY DEF IndexOK
      <4>2. pc[q] \in Writing => index[q] # writeIndex - 1
        BY <1>11
      <4>3. index[q] \in Nat /\ writeIndex \in Nat /\ readIndex \in Nat
        BY <2>1
      <4> HIDE DEF IndInv, TypeOK
      <4> QED BY <4>1, <4>2, <4>3
    <3> QED BY <2>1, <3>1, <3>2, <1>1 DEF IndexOK
  <2> QED BY <2>3, <2>4
<1> QED BY <1>9, <1>10, <1>12, OwnedNext

(* Making a slot ready: the end of a push, and the end of an overwriting push *)
(* that another one has overtaken.                                            *)
LEMMA MakeReadyOwnership ==
  ASSUME IndInv, NEW p \in Producers, NEW s \in Slots, HeldSlots(p) = {s}, HeldSlots(p)' = {},
         ready' = [ready EXCEPT ![s] = TRUE], UNCHANGED <<writeIndex, readIndex>>,
         ConsumerSlots' = ConsumerSlots, \A q \in Producers \ {p} : HeldSlots(q)' = HeldSlots(q)
  PROVE  SlotOwnership' /\ WithinCapacity'
<1> USE DEF IndInv
<1>1. Held' = [Held EXCEPT ![p] = {}] /\ Held[p] = {s}
  BY DEF Held
<1>2. Occupied' = Occupied /\ ReadySlots' = ReadySlots \cup {s}
  BY DEF Occupied, ReadySlots, TypeOK
<1>3. Owned(Occupied', ReadySlots', ConsumerSlots', Held')
  BY <1>1, <1>2, OwnedNow, HeldType, MakeReady
<1>4. WithinCapacity'
  <2>1. WithinCapacity /\ writeIndex' = writeIndex /\ readIndex' = readIndex
    OBVIOUS
  <2> QED BY <2>1 DEF WithinCapacity
<1> QED BY <1>3, <1>4, OwnedNext
LEMMA PostOwnership ==
  ASSUME IndInv, NEW p \in Producers, Post(p)
  PROVE  SlotOwnership' /\ WithinCapacity' /\ IndexOK'
<1> USE DEF IndInv, TypeOK
<1>1. /\ pc[p] = "post" /\ pc' = [pc EXCEPT ![p] = "urim_r"]
      /\ ready' = [ready EXCEPT ![Slot(index[p])] = TRUE]
      /\ UNCHANGED <<writeIndex, readIndex, hasFrontOwnership, cpc, index>>
  BY DEF Post, Goto, consumer
<1>2. HeldSlots(p) = {Slot(index[p])} /\ HeldSlots(p)' = {}
  BY <1>1 DEF HeldSlots, Writing, Locking
<1>3. \A q \in Producers \ {p} : HeldSlots(q)' = HeldSlots(q)
  BY <1>1 DEF HeldSlots
<1>4. ConsumerSlots' = ConsumerSlots /\ Slot(index[p]) \in Slots
  BY <1>1, SlotType DEF ConsumerSlots, Front
<1>5. IndexOK'
  BY <1>1 DEF IndexOK, Writing, Locking
<1> QED BY <1>1, <1>2, <1>3, <1>4, <1>5, MakeReadyOwnership

LEMMA OverwriteRestoreOwnership ==
  ASSUME IndInv, NEW p \in Producers, OverwriteRestore(p)
  PROVE  SlotOwnership' /\ WithinCapacity' /\ IndexOK'
<1> USE DEF IndInv, TypeOK
<1>1. /\ pc[p] = "restore" /\ pc' = [pc EXCEPT ![p] = "idle"]
      /\ index' = [index EXCEPT ![p] = 0]
      /\ ready' = [ready EXCEPT ![Slot(index[p] - 1)] = TRUE]
      /\ UNCHANGED <<writeIndex, readIndex, hasFrontOwnership, cpc>>
  BY DEF OverwriteRestore, Return, consumer
<1>2. HeldSlots(p) = {Slot(index[p] - 1)} /\ HeldSlots(p)' = {}
  BY <1>1 DEF HeldSlots, Writing, Locking
<1>3. \A q \in Producers \ {p} : HeldSlots(q)' = HeldSlots(q)
  BY <1>1 DEF HeldSlots
<1>4. index[p] - 1 \in Nat
  BY <1>1 DEF IndexOK, Locking
<1>5. ConsumerSlots' = ConsumerSlots /\ Slot(index[p] - 1) \in Slots
  BY <1>1, <1>4, SlotType DEF ConsumerSlots, Front
<1>6. IndexOK'
  BY <1>1 DEF IndexOK, Writing, Locking
<1> QED BY <1>1, <1>2, <1>3, <1>5, <1>6, MakeReadyOwnership

(* The other steps of a producer leave its slots alone.                       *)
LEMMA KeepOwnership ==
  ASSUME IndInv, NEW p \in Producers, NEW to \in ProducerPcs, NEW i \in Nat,
         pc' = [pc EXCEPT ![p] = to], index' = [index EXCEPT ![p] = i],
         UNCHANGED <<writeIndex, readIndex, ready, hasFrontOwnership, cpc>>,
         HeldSlots(p)' = HeldSlots(p),
         to \in Writing => readIndex <= i /\ i < writeIndex,
         to = "cas" => i < readIndex + Length,
         to \in {"reset"} \cup Locking => i >= 1
  PROVE  SlotOwnership' /\ WithinCapacity' /\ IndexOK'
<1> USE DEF IndInv, TypeOK
<1>1. \A q \in Producers \ {p} : HeldSlots(q)' = HeldSlots(q)
  BY DEF HeldSlots
<1>2. ConsumerSlots' = ConsumerSlots
  BY DEF ConsumerSlots, Front
<1>3. Quiet
  BY <1>1, <1>2 DEF Quiet
<1>4. IndexOK'
  <2> SUFFICES ASSUME NEW q \in Producers
               PROVE  /\ pc'[q] \in Writing => readIndex <= index'[q] /\ index'[q] < writeIndex
                      /\ pc'[q] = "cas" => index'[q] < readIndex + Length
                      /\ pc'[q] \in {"reset"} \cup Locking => index'[q] >= 1
    BY DEF IndexOK
  <2>1. CASE q = p
    BY <2>1
  <2>2. CASE q # p
    BY <2>2 DEF IndexOK
  <2> QED BY <2>1, <2>2
<1> QED BY <1>3, <1>4, QuietStep

Holding == Writing \cup Locking

LEMMA IdleOwnership ==
  ASSUME IndInv, NEW p \in Producers, NEW to \in ProducerPcs, NEW i \in Nat,
         pc' = [pc EXCEPT ![p] = to], index' = [index EXCEPT ![p] = i],
         UNCHANGED <<writeIndex, readIndex, ready, hasFrontOwnership, cpc>>,
         pc[p] \notin Holding, to \notin Holding \cup {"cas", "reset"}
  PROVE  SlotOwnership' /\ WithinCapacity' /\ IndexOK'
<1>1. HeldSlots(p) = {} /\ HeldSlots(p)' = {}
  BY DEF HeldSlots, Holding, IndInv, TypeOK
<1> QED BY <1>1, KeepOwnership DEF Holding

LEMMA ProducerOwnership ==
  ASSUME IndInv, NEW p \in Producers, ProducerStep(p) \/ \E f \in Calls[p] : Call(p, f)
  PROVE  SlotOwnership' /\ WithinCapacity' /\ IndexOK'
<1> DEFINE Goal == SlotOwnership' /\ WithinCapacity' /\ IndexOK'
<1> USE DEF Goto, Return, shared, payload, consumer, function, Holding, Writing, Locking, ProducerPcs
<1>0. /\ index \in [Producers -> Nat] /\ index[p] \in Nat /\ writeIndex \in Nat /\ readIndex \in Nat
      /\ index = [index EXCEPT ![p] = index[p]]
  BY DEF IndInv, TypeOK
<1> HIDE DEF Goal
<1>1. ASSUME NEW f \in Calls[p], Call(p, f) PROVE Goal
  <2>1. /\ pc[p] = "idle" /\ pc' = [pc EXCEPT ![p] = "load"] /\ index' = index
        /\ UNCHANGED <<writeIndex, readIndex, ready, hasFrontOwnership, cpc>>
    BY <1>1 DEF Call
  <2>2. "load" \in ProducerPcs /\ "load" \notin Holding \cup {"cas", "reset"} /\ pc[p] \notin Holding
    BY <2>1
  <2>3. index' = [index EXCEPT ![p] = index[p]]
    BY <1>0, <2>1
  <2> QED BY <2>1, <2>2, <2>3, <1>0, IdleOwnership DEF Goal
<1>2. ASSUME ObtainLoad(p) PROVE Goal
  BY <1>2, <1>0, IdleOwnership DEF Goal, ObtainLoad
<1>3. ASSUME ObtainFull(p) PROVE Goal
  BY <1>3, <1>0, IdleOwnership DEF Goal, ObtainFull
<1>4. ASSUME ObtainCasFails(p) PROVE Goal
  BY <1>4, <1>0, IdleOwnership DEF Goal, ObtainCasFails
<1>5. ASSUME OverwriteResetFails(p) PROVE Goal
  BY <1>5, <1>0, IdleOwnership DEF Goal, OverwriteResetFails
<1>6. ASSUME UpdateLoadReadIndex(p) PROVE Goal
  BY <1>6, <1>0, IdleOwnership DEF Goal, UpdateLoadReadIndex
<1>7. ASSUME UpdateLoadWriteIndex(p) PROVE Goal
  BY <1>7, <1>0, IdleOwnership DEF Goal, UpdateLoadWriteIndex
<1>8. ASSUME UpdateLoadReadIndexMax(p) PROVE Goal
  BY <1>8, <1>0, IdleOwnership DEF Goal, UpdateLoadReadIndexMax
<1>9. ASSUME UpdateScan(p) PROVE Goal
  BY <1>9, <1>0, IdleOwnership DEF Goal, UpdateScan
<1>10. ASSUME UpdateScanEnd(p) PROVE Goal
  BY <1>10, <1>0, IdleOwnership DEF Goal, UpdateScanEnd
<1>11. ASSUME UpdateCas(p) PROVE Goal
  BY <1>11, <1>0, IdleOwnership DEF Goal, UpdateCas
<1>12. ASSUME UpdateCasFails(p) PROVE Goal
  BY <1>12, <1>0, IdleOwnership DEF Goal, UpdateCasFails
<1>13. ASSUME UpdateAgain(p) PROVE Goal
  BY <1>13, <1>0, IdleOwnership DEF Goal, UpdateAgain
<1>14. ASSUME UpdateDone(p) PROVE Goal
  BY <1>14, <1>0, IdleOwnership DEF Goal, UpdateDone
<1>15. ASSUME ObtainNotFull(p) PROVE Goal
  <2>1. index[p] < readIndex + Length /\ HeldSlots(p)' = HeldSlots(p)
    BY <1>15, <1>0, LengthAssumption DEF ObtainNotFull, IsFull, nBuffers, HeldSlots, IndInv, TypeOK
  <2> QED BY <1>15, <1>0, <2>1, KeepOwnership DEF Goal, ObtainNotFull
<1>16. ASSUME ObtainFullOverwrite(p) PROVE Goal
  <2>1. index[p] >= 1 /\ HeldSlots(p)' = HeldSlots(p)
    BY <1>16, <1>0, LengthAssumption DEF ObtainFullOverwrite, IsFull, nBuffers, HeldSlots, IndInv, TypeOK
  <2> QED BY <1>16, <1>0, <2>1, KeepOwnership DEF Goal, ObtainFullOverwrite
<1>17. ASSUME OverwriteRollbackFails(p) PROVE Goal
  <2>1. index[p] >= 1 /\ HeldSlots(p)' = HeldSlots(p)
    BY <1>17, <1>0 DEF OverwriteRollbackFails, HeldSlots, IndInv, TypeOK, IndexOK
  <2> QED BY <1>17, <1>0, <2>1, KeepOwnership DEF Goal, OverwriteRollbackFails
<1>18. ASSUME Write(p) PROVE Goal
  <2>1. readIndex <= index[p] /\ index[p] < writeIndex /\ HeldSlots(p)' = HeldSlots(p)
    BY <1>18, <1>0 DEF Write, AfterWrite, HeldSlots, IndInv, TypeOK, IndexOK
  <2> QED BY <1>18, <1>0, <2>1, KeepOwnership DEF Goal, Write, AfterWrite
<1>19. ASSUME CountPreviousData(p) PROVE Goal
  <2>1. readIndex <= index[p] /\ index[p] < writeIndex /\ HeldSlots(p)' = HeldSlots(p)
    BY <1>19, <1>0 DEF CountPreviousData, HeldSlots, IndInv, TypeOK, IndexOK
  <2> QED BY <1>19, <1>0, <2>1, KeepOwnership DEF Goal, CountPreviousData
<1>20. ASSUME ObtainCas(p) PROVE Goal
  BY <1>20, ObtainCasOwnership DEF Goal
<1>21. ASSUME OverwriteReset(p) PROVE Goal
  BY <1>21, OverwriteResetOwnership DEF Goal
<1>22. ASSUME OverwriteRollback(p) PROVE Goal
  BY <1>22, OverwriteRollbackOwnership DEF Goal
<1>23. ASSUME Post(p) PROVE Goal
  BY <1>23, PostOwnership DEF Goal
<1>24. ASSUME OverwriteRestore(p) PROVE Goal
  BY <1>24, OverwriteRestoreOwnership DEF Goal
<1> QED
  BY <1>1, <1>2, <1>3, <1>4, <1>5, <1>6, <1>7, <1>8, <1>9, <1>10, <1>11, <1>12, <1>13, <1>14, <1>15, <1>16, <1>17, <1>18, <1>19, <1>20, <1>21, <1>22, <1>23, <1>24
  DEF Goal, ProducerStep, ObtainStep, OverwriteStep, PublishStep, UpdateStep
(* The consumer: taking the front ...                                         *)
LEMMA TakeFrontOwnership ==
  ASSUME IndInv, TakeFront, ConsumerSlots = {}, ConsumerSlots' = {Front},
         UNCHANGED <<writeIndex, readIndex, pc, index>>
  PROVE  SlotOwnership' /\ WithinCapacity' /\ IndexOK'
<1> USE DEF IndInv, TypeOK
<1>1. Front \in Slots
  BY SlotType DEF Front
<1>2. Occupied' = Occupied /\ Held' = Held
  BY DEF Occupied, Held, HeldSlots
<1>3. Front \in ReadySlots /\ ReadySlots' = ReadySlots \ {Front}
  BY <1>1 DEF TakeFront, ReadySlots
<1>4. Owned(Occupied', ReadySlots', ConsumerSlots', Held')
  BY <1>1, <1>2, <1>3, OwnedNow, HeldType, ConsumerTakes
<1>5. WithinCapacity' /\ IndexOK'
  BY DEF WithinCapacity, IndexOK
<1> QED BY <1>4, <1>5, OwnedNext

(* ... leaving it, or keeping it for the coming pop ...                       *)
LEMMA StayOwnership ==
  ASSUME IndInv, ConsumerSlots' = ConsumerSlots, UNCHANGED <<writeIndex, readIndex, ready, pc, index>>
  PROVE  SlotOwnership' /\ WithinCapacity' /\ IndexOK'
<1>1. Quiet
  BY DEF Quiet, HeldSlots
<1>2. IndexOK'
  BY DEF IndInv, IndexOK
<1> QED BY <1>1, <1>2, QuietStep

(* ... and freeing its slot: no producer writes there.                        *)
LEMMA AdvanceOwnership ==
  ASSUME IndInv, Advance
  PROVE  SlotOwnership' /\ WithinCapacity' /\ IndexOK'
<1> USE DEF IndInv, TypeOK
<1>1. /\ cpc = "advance" /\ cpc' = "decrement" /\ readIndex' = readIndex + 1 /\ hasFrontOwnership' = FALSE
      /\ UNCHANGED <<writeIndex, ready, pc, index>>
  BY DEF Advance, producer
<1>2. ConsumerSlots = {Front} /\ ConsumerSlots' = {}
  BY <1>1 DEF ConsumerSlots
<1>3. Front \in Occupied
  BY <1>2, OwnedNow, HeldType, OwnedMembers
<1>4. readIndex < writeIndex /\ writeIndex <= readIndex + Length
  BY <1>3, SpanMembers DEF Occupied, WithinCapacity
<1>5. Occupied' = Occupied \ {Front} /\ Front \in Slots
  BY <1>1, <1>4, SpanLosesFirst, SlotType DEF Occupied, Front
<1>6. ReadySlots' = ReadySlots /\ Held' = Held
  BY <1>1 DEF ReadySlots, Held, HeldSlots
<1>7. Owned(Occupied', ReadySlots', ConsumerSlots', Held')
  BY <1>2, <1>5, <1>6, OwnedNow, HeldType, ConsumerFrees
<1>8. WithinCapacity'
  BY <1>1, <1>4, LengthAssumption DEF WithinCapacity
<1>9. ASSUME NEW q \in Producers, pc[q] \in Writing PROVE index[q] # readIndex
  <2>1. HeldSlots(q) = {Slot(index[q])}
    BY <1>9 DEF HeldSlots
  <2> QED BY <2>1, <1>2 DEF SlotOwnership, Front
<1>10. IndexOK'
  <2> SUFFICES ASSUME NEW q \in Producers
               PROVE  /\ pc[q] \in Writing => readIndex + 1 <= index[q] /\ index[q] < writeIndex
                      /\ pc[q] = "cas" => index[q] < readIndex + 1 + Length
                      /\ pc[q] \in {"reset"} \cup Locking => index[q] >= 1
    BY <1>1 DEF IndexOK
  <2> QED BY <1>9, LengthAssumption DEF IndexOK
<1> QED BY <1>7, <1>8, <1>10, OwnedNext

LEMMA ConsumerOwnership ==
  ASSUME IndInv, ConsumerStep
  PROVE  SlotOwnership' /\ WithinCapacity' /\ IndexOK'
<1> DEFINE Goal == SlotOwnership' /\ WithinCapacity' /\ IndexOK'
<1> USE DEF shared, payload, producer
<1>0. TakeFront => ConsumerSlots = {}
  BY SlotType DEF TakeFront, ConsumerSlots, ReadySlots, SlotOwnership, Front, IndInv, TypeOK
<1> HIDE DEF Goal
<1>1. ASSUME Pop PROVE Goal
  <2>1. CASE hasFrontOwnership
    BY <1>1, <2>1, StayOwnership DEF Goal, Pop, ConsumerSlots, Front
  <2>2. CASE ~hasFrontOwnership
    <3>1. TakeFront /\ ConsumerSlots' = {Front}
      BY <1>1, <2>2 DEF Pop, ConsumerSlots, Front
    <3> QED BY <1>0, <1>1, <3>1, TakeFrontOwnership DEF Goal, Pop
  <2> QED BY <2>1, <2>2
<1>2. ASSUME PopWait PROVE Goal
  BY <1>2, StayOwnership DEF Goal, PopWait, ConsumerSlots, Front, IndInv, TypeOK
<1>3. ASSUME PopWaitWake PROVE Goal
  <2>1. TakeFront /\ ConsumerSlots' = {Front}
    BY <1>3 DEF PopWaitWake, ConsumerSlots, Front
  <2> QED BY <1>0, <1>3, <2>1, TakeFrontOwnership DEF Goal, PopWaitWake
<1>4. ASSUME Empty PROVE Goal
  <2>1. TakeFront /\ ConsumerSlots' = {Front}
    BY <1>4 DEF Empty, ConsumerSlots, Front
  <2> QED BY <1>0, <1>4, <2>1, TakeFrontOwnership DEF Goal, Empty
<1>5. ASSUME WaitWake PROVE Goal
  <2>1. TakeFront /\ ConsumerSlots' = {Front}
    BY <1>5 DEF WaitWake, ConsumerSlots, Front
  <2> QED BY <1>0, <1>5, <2>1, TakeFrontOwnership DEF Goal, WaitWake
<1>6. ASSUME Wait PROVE Goal
  BY <1>6, StayOwnership DEF Goal, Wait, ConsumerSlots, Front
<1>7. ASSUME Read PROVE Goal
  BY <1>7, StayOwnership DEF Goal, Read, ConsumerSlots, Front
<1>8. ASSUME Decrement PROVE Goal
  BY <1>8, StayOwnership DEF Goal, Decrement, ConsumerSlots, Front
<1>9. ASSUME Advance PROVE Goal
  BY <1>9, AdvanceOwnership DEF Goal
<1> QED BY <1>1, <1>2, <1>3, <1>4, <1>5, <1>6, <1>7, <1>8, <1>9 DEF Goal, ConsumerStep

-----------------------------------------------------------------------------
(* The theorems.                                                              *)

THEOREM Inductive == IndInv /\ [Next]_vars => IndInv'
<1> SUFFICES ASSUME IndInv, [Next]_vars PROVE IndInv'
  OBVIOUS
<1>1. ASSUME NEW p \in Producers, ProducerStep(p) \/ \E f \in Calls[p] : Call(p, f) PROVE IndInv'
  BY <1>1, ProducerType, ProducerOwnership DEF IndInv
<1>2. ASSUME ConsumerStep PROVE IndInv'
  BY <1>2, ConsumerType, ConsumerOwnership DEF IndInv
<1>3. ASSUME UNCHANGED vars PROVE IndInv'
  <2>1. SlotOwnership' /\ WithinCapacity' /\ IndexOK'
    BY <1>3, StayOwnership DEF vars, shared, producer, consumer, payload, ConsumerSlots, Front
  <2>2. TypeOK'
    BY <1>3 DEF vars, shared, producer, consumer, payload, function, TypeOK, IndInv
  <2> QED BY <2>1, <2>2 DEF IndInv
<1> QED BY <1>1, <1>2, <1>3 DEF Next

(* The variables of the queue and its threads always have their types.        *)
THEOREM TypeCorrect == Spec => []TypeOK
<1>1. IndInv => TypeOK
  BY DEF IndInv
<1> QED BY <1>1, InitIndInv, Inductive, PTL DEF Spec

(* The queue never holds more than Length elements, for any number of         *)
(* producers racing in obtain_write_slot() with each other, with overwriting  *)
(* producers and with the consumer.                                           *)
THEOREM CapacityRespected == Spec => []WithinCapacity
<1>1. IndInv => WithinCapacity
  BY DEF IndInv
<1> QED BY <1>1, InitIndInv, Inductive, PTL DEF Spec

(* Every slot has exactly one owner at any time: no element is lost, no slot  *)
(* is written twice, none is written while the consumer reads it.             *)
THEOREM SlotsOwned == Spec => []SlotOwnership
<1>1. IndInv => SlotOwnership
  BY DEF IndInv
<1> QED BY <1>1, InitIndInv, Inductive, PTL DEF Spec
-----------------------------------------------------------------------------
(* The entry the consumer owns.                                               *)

LEMMA OwnedFrontStep ==
  ASSUME IndInv, [Next]_vars, hasFrontOwnership, readIndex' = readIndex
  PROVE  EntryAt(Front)' = EntryAt(Front)
<1> USE DEF shared, payload, producer, consumer, function
<1>1. CASE UNCHANGED payload
  BY <1>1 DEF EntryAt, Front
<1>2. ASSUME NEW p \in Producers, Write(p) PROVE EntryAt(Front)' = EntryAt(Front)
  <2>1. HeldSlots(p) = {Slot(index[p])}
    BY <1>2 DEF Write, Goto, HeldSlots, Writing
  <2>2. Slot(index[p]) # Front
    BY <2>1 DEF IndInv, SlotOwnership, ConsumerSlots
  <2>3. Front \in Slots
    BY SlotType DEF Front, IndInv, TypeOK
  <2>4. /\ buffers' = buffers \/ \E v : buffers' = [buffers EXCEPT ![Slot(index[p])] = v]
        /\ \E v : exceptions' = [exceptions EXCEPT ![Slot(index[p])] = v]
    BY <1>2 DEF Write
  <2>5. buffers'[Front] = buffers[Front] /\ exceptions'[Front] = exceptions[Front]
    BY <2>2, <2>3, <2>4 DEF IndInv, TypeOK
  <2> QED BY <2>5 DEF EntryAt, Front
<1>3. ASSUME NEW p \in Producers, ProducerStep(p) \/ \E f \in Calls[p] : Call(p, f), ~Write(p)
      PROVE  UNCHANGED payload
  BY <1>3 DEF ProducerStep, ObtainStep, OverwriteStep, PublishStep, UpdateStep, Call,
       ObtainLoad, ObtainNotFull, ObtainFull, ObtainFullOverwrite, ObtainCas, ObtainCasFails,
       OverwriteReset, OverwriteResetFails, OverwriteRollback, OverwriteRollbackFails, OverwriteRestore,
       CountPreviousData, Post, UpdateLoadReadIndex, UpdateLoadWriteIndex, UpdateLoadReadIndexMax,
       UpdateScan, UpdateScanEnd, UpdateCas, UpdateCasFails, UpdateAgain, UpdateDone
<1>4. ConsumerStep => UNCHANGED payload
  BY DEF ConsumerStep, Pop, PopWait, PopWaitWake, Empty, Wait, WaitWake, Read, Advance, Decrement
<1> QED BY <1>1, <1>2, <1>3, <1>4 DEF Next, vars

(* What empty() or wait() has shown the consumer is what the next pop gives   *)
(* it: no push_overwrite() of any producer touches it.                        *)
THEOREM OwnedFrontKept == Spec => OwnedFrontStable
<1>1. IndInv /\ [Next]_vars
        => [hasFrontOwnership /\ readIndex' = readIndex => EntryAt(Front)' = EntryAt(Front)]_vars
  BY OwnedFrontStep
<1> QED BY <1>1, InitIndInv, Inductive, PTL DEF Spec, OwnedFrontStable

-----------------------------------------------------------------------------
(* readIndexMax.                                                              *)

(* The exchange of update_read_index_max() is tried with a value that is not  *)
(* below the expected one, although the loop reloads the latter alone.        *)
UrimOK ==
    \A p \in Producers :
        /\ pc[p] \in {"urim_scan", "urim_cas"} => urim[p].m <= urim[p].new /\ urim[p].m <= urim[p].i
        /\ pc[p] \in {"urim_scan", "urim_cas", "urim_while"} => urim[p].m <= readIndexMax

LEMMA UrimStep ==
  ASSUME IndInv, UrimOK, [Next]_vars
  PROVE  UrimOK' /\ readIndexMax' >= readIndexMax
<1> USE DEF IndInv, TypeOK, Goto, Return, shared, payload, producer, consumer, function
<1> DEFINE Others(p) == \A q \in Producers \ {p} : pc'[q] = pc[q] /\ urim'[q] = urim[q]
<1>1. ASSUME UNCHANGED <<readIndexMax, pc, urim>> PROVE UrimOK' /\ readIndexMax' >= readIndexMax
  BY <1>1 DEF UrimOK
<1>2. ASSUME ConsumerStep PROVE UNCHANGED <<readIndexMax, pc, urim>>
  BY <1>2 DEF ConsumerStep, Pop, PopWait, PopWaitWake, Empty, Wait, WaitWake, Read, Advance, Decrement
<1>3. ASSUME NEW p \in Producers, UNCHANGED readIndexMax, Others(p),
             pc'[p] \notin {"urim_scan", "urim_cas", "urim_while"}
      PROVE  UrimOK' /\ readIndexMax' >= readIndexMax
  <2>1. readIndexMax' = readIndexMax
    BY <1>3
  <2>2. ASSUME NEW q \in Producers
        PROVE  /\ pc'[q] \in {"urim_scan", "urim_cas"}
                    => urim'[q].m <= urim'[q].new /\ urim'[q].m <= urim'[q].i
               /\ pc'[q] \in {"urim_scan", "urim_cas", "urim_while"} => urim'[q].m <= readIndexMax
    <3>1. CASE q = p
      BY <1>3, <3>1
    <3>2. CASE q # p
      BY <1>3, <3>2 DEF UrimOK
    <3> QED BY <3>1, <3>2
  <2> QED BY <2>1, <2>2 DEF UrimOK
<1>4. ASSUME NEW p \in Producers, NEW f \in Calls[p], Call(p, f)
      PROVE  UrimOK' /\ readIndexMax' >= readIndexMax
  BY <1>3, <1>4 DEF Call
<1>5. ASSUME NEW p \in Producers, ObtainStep(p)
      PROVE  UrimOK' /\ readIndexMax' >= readIndexMax
  BY <1>3, <1>5 DEF ObtainStep, ObtainLoad, ObtainNotFull, ObtainFull, ObtainFullOverwrite, ObtainCas,
                    ObtainCasFails
<1>6. ASSUME NEW p \in Producers, OverwriteStep(p)
      PROVE  UrimOK' /\ readIndexMax' >= readIndexMax
  BY <1>3, <1>6 DEF OverwriteStep, OverwriteReset, OverwriteResetFails, OverwriteRollback,
                    OverwriteRollbackFails, OverwriteRestore
<1>7. ASSUME NEW p \in Producers, PublishStep(p)
      PROVE  UrimOK' /\ readIndexMax' >= readIndexMax
  <2>1. CASE Write(p)
    <3>1. pc' = [pc EXCEPT ![p] = AfterWrite(p)] /\ UNCHANGED <<readIndexMax, urim>>
      BY <2>1 DEF Write
    <3>2. pc'[p] = "count" \/ pc'[p] = "post"
      BY <3>1 DEF AfterWrite
    <3> QED BY <1>3, <3>1, <3>2
  <2>2. CASE CountPreviousData(p) \/ Post(p)
    BY <1>3, <2>2 DEF CountPreviousData, Post
  <2> QED BY <1>7, <2>1, <2>2 DEF PublishStep
<1>8. ASSUME NEW p \in Producers, UpdateStep(p)
      PROVE  UrimOK' /\ readIndexMax' >= readIndexMax
  <2> DEFINE Goal == UrimOK' /\ readIndexMax' >= readIndexMax
  <2>1. CASE UpdateLoadReadIndex(p) \/ UpdateLoadWriteIndex(p) \/ UpdateDone(p)
    BY <1>3, <2>1 DEF UpdateLoadReadIndex, UpdateLoadWriteIndex, UpdateDone
  <2>2. CASE UpdateLoadReadIndexMax(p)
    BY <2>2 DEF UpdateLoadReadIndexMax, UrimOK
  <2>3. CASE UpdateScan(p)
    BY <2>3 DEF UpdateScan, UrimOK
  <2>4. CASE UpdateScanEnd(p)
    BY <2>4 DEF UpdateScanEnd, UrimOK
  <2>5. CASE UpdateCas(p)
    <3>1. readIndexMax' >= readIndexMax
      BY <2>5 DEF UpdateCas, UrimOK
    <3>2. \A q \in Producers : urim'[q] = urim[q] /\ urim[q].m \in Nat /\ urim[q].new \in Nat
      BY <2>5 DEF UpdateCas
    <3>3. ASSUME NEW q \in Producers
          PROVE  /\ pc'[q] \in {"urim_scan", "urim_cas"}
                      => urim[q].m <= urim[q].new /\ urim[q].m <= urim[q].i
                 /\ pc'[q] \in {"urim_scan", "urim_cas", "urim_while"} => urim[q].m <= readIndexMax
      <4>1. CASE q = p
        BY <2>5, <4>1 DEF UpdateCas
      <4>2. CASE q # p
        <5>1. pc'[q] = pc[q]
          BY <2>5, <4>2 DEF UpdateCas
        <5> QED BY <5>1 DEF UrimOK
      <4> QED BY <4>1, <4>2
    <3>4. readIndexMax \in Nat /\ readIndexMax' \in Nat
      BY <2>5 DEF UpdateCas
    <3>5. \A q \in Producers : urim[q].m <= readIndexMax => urim[q].m <= readIndexMax'
      BY <3>1, <3>2, <3>4, SMTT(30)
    <3> QED BY <3>1, <3>2, <3>3, <3>5 DEF UrimOK
  <2>6. CASE UpdateCasFails(p)
    BY <2>6 DEF UpdateCasFails, UrimOK
  <2>7. CASE UpdateAgain(p)
    BY <2>7 DEF UpdateAgain, Behind, UrimOK
  <2> QED BY <1>8, <2>1, <2>2, <2>3, <2>4, <2>5, <2>6, <2>7 DEF UpdateStep
<1> QED BY <1>1, <1>2, <1>4, <1>5, <1>6, <1>7, <1>8 DEF Next, ProducerStep, vars

(* readIndexMax never moves back, whatever the producers that update it       *)
(* concurrently have read of the other indices.                               *)
THEOREM ReadIndexMaxNeverFalls == Spec => ReadIndexMaxMonotone
<1>1. Init => UrimOK
  BY DEF Init, UrimOK
<1>2. IndInv /\ UrimOK /\ [Next]_vars => UrimOK'
  BY UrimStep
<1>3. IndInv /\ UrimOK /\ [Next]_vars => [readIndexMax' >= readIndexMax]_readIndexMax
  BY UrimStep
<1> QED BY <1>1, <1>2, <1>3, InitIndInv, Inductive, PTL DEF Spec, ReadIndexMaxMonotone
=============================================================================
