---------------------------- MODULE FutureQueue ----------------------------
(* One plain cppext::future_queue (future_queue.hpp), used by any number of   *)
(* producer threads and one consumer thread.  The shared state is the one of  *)
(* detail::shared_state_base / shared_state<T>; every action is one access to *)
(* shared memory (an atomic, a semaphore or a buffer) together with the       *)
(* thread-local code around it, so every interleaving of accesses is a        *)
(* behaviour.  Indices are mathematical integers (the size_t overrun is the   *)
(* @todo FIXME of future_queue.hpp:387); every subtraction the code makes on  *)
(* them is shown not to underflow, except the one of read_available().       *)
(* Operators marked as mutants are not used by the specification: each is a   *)
(* plausible mistake in the operator below it, kept to show that the          *)
(* properties notice it.                                                      *)
EXTENDS Integers, FiniteSets, Sequences

CONSTANTS
    Producers,      \* the threads that push
    Length,         \* constructor argument of future_queue
    Calls,          \* the pushing functions each producer calls
    ConsumerCalls,  \* the receiving functions the consumer calls
    MaxCalls,       \* bound: how many calls each producer makes
    NoData          \* nullptr / the default constructed element

OverwriteCalls == {"push_overwrite", "push_overwrite_exception"}
ExceptionCalls == {"push_exception", "push_overwrite_exception"}
AllCalls       == {"push", "push_exception"} \cup OverwriteCalls
AllConsumerCalls == {"pop", "pop_wait", "empty", "wait"}

ASSUME ProducersAssumption == IsFiniteSet(Producers)
ASSUME LengthAssumption == Length \in Nat \ {0}
ASSUME CallsAssumption  == /\ Calls \in [Producers -> SUBSET AllCalls]
                           /\ ConsumerCalls \subseteq AllConsumerCalls
(* assert(d->nBuffers - 1 > 1) of push_overwrite()                            *)
ASSUME OverwriteAssumption == 
    \A p \in Producers : Calls[p] \cap OverwriteCalls # {} => Length > 1
ASSUME BudgetAssumption == MaxCalls \in [Producers -> Nat]

VARIABLES
    writeIndex, readIndexMax, readIndex,    \* the three atomic indices
    ready,              \* semaphores: ready[s] is the semaphore's value
    buffers,            \* payload of each slot
    exceptions,         \* exception_ptr of each slot, NoData for nullptr
    previousData,       \* when_any_notification.notifyerQueue_previousData
    hasFrontOwnership,  \* consumer only
    pc, call, calls,    \* producer: position, running function, calls made
    index, ret,         \* producer: myIndex and ret of the running function
    result,             \* producer: what the last finished call returned
    urim,               \* producer: the locals of update_read_index_max()
    cpc, item,          \* consumer: position, the entry read from the front
    delivered           \* what the finished pops handed out, in order

payload  == <<buffers, exceptions>>
shared   == <<writeIndex, readIndexMax, readIndex, ready, payload, previousData>>
function == <<call, calls, result>>
producer == <<pc, function, index, ret, urim>>
consumer == <<hasFrontOwnership, cpc, item, delivered>>
vars     == <<shared, producer, consumer>>

nBuffers == Length + 1
Slots    == 0 .. Length
Slot(i)  == i % nBuffers

(* The payload of producer p's n-th call, and what a pop makes of a slot.     *)
Ids         == Producers \X Nat
Id(p)       == <<p, calls[p]>>
ASSUME NoDataAssumption == NoData \notin Producers /\ NoData \notin Ids
Entry       == [kind : {"none", "value", "exception"}, id : Ids \cup {NoData}]
NoItem      == [kind |-> "none", id |-> NoData]
EntryAt(s)  == IF exceptions[s] # NoData THEN [kind |-> "exception", id |-> exceptions[s]]
                                         ELSE [kind |-> "value", id |-> buffers[s]]

NoLocals == [r |-> 0, w |-> 0, m |-> 0, new |-> 0, i |-> 0]

ProducerPcs == {"idle", "load", "check", "cas", "reset", "rollback", "restore",
                "write", "count", "post",
                "urim_r", "urim_w", "urim_m", "urim_scan", "urim_cas", "urim_while"}
ConsumerPcs == {"idle", "pop_wait", "wait", "read", "advance", "decrement"}

Init ==
    /\ writeIndex = 0 /\ readIndexMax = 0 /\ readIndex = 0
    /\ ready = [s \in Slots |-> FALSE]
    /\ buffers = [s \in Slots |-> NoData]
    /\ exceptions = [s \in Slots |-> NoData]
    /\ previousData = 0
    /\ hasFrontOwnership = FALSE
    /\ pc = [p \in Producers |-> "idle"]
    /\ call = [p \in Producers |-> "none"]
    /\ calls = [p \in Producers |-> 0]
    /\ index = [p \in Producers |-> 0]
    /\ ret = [p \in Producers |-> TRUE]
    /\ result = [p \in Producers |-> TRUE]
    /\ urim = [p \in Producers |-> NoLocals]
    /\ cpc = "idle" /\ item = NoItem /\ delivered = <<>>

Goto(p, from, to) == pc[p] = from /\ pc' = [pc EXCEPT ![p] = to]

(* Leave the running function, returning b; its locals are gone.              *)
Return(p, b) ==
    /\ pc' = [pc EXCEPT ![p] = "idle"]
    /\ call' = [call EXCEPT ![p] = "none"]
    /\ result' = [result EXCEPT ![p] = b]
    /\ index' = [index EXCEPT ![p] = 0]
    /\ ret' = [ret EXCEPT ![p] = TRUE]
    /\ urim' = [urim EXCEPT ![p] = NoLocals]
    /\ UNCHANGED calls

-----------------------------------------------------------------------------
(* Producers.  push(), push_exception(), push_overwrite() and                 *)
(* push_overwrite_exception() share obtain_write_slot(),                      *)
(* get_notification_queue() and update_read_index_max().                      *)

Call(p, f) ==
    /\ calls[p] < MaxCalls[p]
    /\ Goto(p, "idle", "load")
    /\ call' = [call EXCEPT ![p] = f]
    /\ calls' = [calls EXCEPT ![p] = @ + 1]
    /\ UNCHANGED <<shared, consumer, result, index, ret, urim>>

(* obtain_write_slot(): index = d->writeIndex                                 *)
ObtainLoad(p) ==
    /\ Goto(p, "load", "check")
    /\ index' = [index EXCEPT ![p] = writeIndex]
    /\ UNCHANGED <<shared, consumer, function, ret, urim>>

IsFullOffByOne(i) == i > readIndex + nBuffers - 1       \* mutant of IsFull
IsFullEarly(i)    == i >= readIndex + nBuffers - 2      \* mutant of IsFull
IsFull(i) == i >= readIndex + nBuffers - 1

ObtainNotFull(p) ==
    /\ ~IsFull(index[p])
    /\ Goto(p, "check", "cas")
    /\ UNCHANGED <<shared, consumer, function, index, ret, urim>>

(* The queue is full: a plain push gives up, and so does an overwriting push  *)
(* whose second attempt finds the slot it has freed taken by someone else.    *)
ObtainFull(p) ==
    /\ pc[p] = "check" /\ IsFull(index[p])
    /\ call[p] \notin OverwriteCalls \/ ~ret[p]
    /\ Return(p, FALSE)
    /\ UNCHANGED <<shared, consumer>>

ObtainFullOverwrite(p) ==
    /\ IsFull(index[p])
    /\ call[p] \in OverwriteCalls /\ ret[p]
    /\ Goto(p, "check", "reset")
    /\ UNCHANGED <<shared, consumer, function, index, ret, urim>>

ObtainWithoutCompare(p) ==                              \* mutant of ObtainCas
    /\ Goto(p, "cas", "write")
    /\ writeIndex' = index[p] + 1
    /\ UNCHANGED <<readIndexMax, readIndex, ready, payload, previousData>>
    /\ UNCHANGED <<consumer, function, index, ret, urim>>
ObtainCas(p) ==
    /\ writeIndex = index[p]
    /\ Goto(p, "cas", "write")
    /\ writeIndex' = index[p] + 1
    /\ UNCHANGED <<readIndexMax, readIndex, ready, payload, previousData>>
    /\ UNCHANGED <<consumer, function, index, ret, urim>>

(* compare_exchange_weak fails, possibly spuriously, and reloads index.       *)
ObtainCasFails(p) ==
    /\ Goto(p, "cas", "check")
    /\ index' = [index EXCEPT ![p] = writeIndex]
    /\ UNCHANGED <<shared, consumer, function, ret, urim>>

(* Overwriting: lock the last element by taking its semaphore ...             *)
OverwriteReset(p) ==
    /\ ready[Slot(index[p] - 1)]
    /\ Goto(p, "reset", "rollback")
    /\ ready' = [ready EXCEPT ![Slot(index[p] - 1)] = FALSE]
    /\ UNCHANGED <<writeIndex, readIndexMax, readIndex, payload, previousData>>
    /\ UNCHANGED <<consumer, function, index, ret, urim>>

(* ... which fails when it is not (or no longer) available: return false.     *)
OverwriteResetFails(p) ==
    /\ pc[p] = "reset"
    /\ ~ready[Slot(index[p] - 1)]
    /\ Return(p, FALSE)
    /\ UNCHANGED <<shared, consumer>>

(* compare_exchange_strong(expectedIndex, myIndex - 1) removes the element;   *)
(* the function then obtains a slot a second time.                            *)
OverwriteRollback(p) ==
    /\ writeIndex = index[p]
    /\ Goto(p, "rollback", "load")
    /\ writeIndex' = index[p] - 1
    /\ ret' = [ret EXCEPT ![p] = FALSE]
    /\ UNCHANGED <<readIndexMax, readIndex, ready, payload, previousData>>
    /\ UNCHANGED <<consumer, function, index, urim>>

OverwriteRollbackRetried(p) ==                          \* mutant of OverwriteRollbackFails
    /\ writeIndex # index[p]
    /\ Goto(p, "rollback", "rollback")
    /\ UNCHANGED <<shared, consumer, function, index, ret, urim>>
OverwriteRollbackFails(p) ==
    /\ writeIndex # index[p]
    /\ Goto(p, "rollback", "restore")
    /\ UNCHANGED <<shared, consumer, function, index, ret, urim>>

OverwriteRestoreForgotten(p) ==                         \* mutant of OverwriteRestore
    /\ pc[p] = "restore"
    /\ Return(p, FALSE)
    /\ UNCHANGED <<shared, consumer>>
OverwriteRestore(p) ==
    /\ pc[p] = "restore"
    /\ ready' = [ready EXCEPT ![Slot(index[p] - 1)] = TRUE]
    /\ Return(p, FALSE)
    /\ UNCHANGED <<writeIndex, readIndexMax, readIndex, payload, previousData, consumer>>

(* The payload: a value clears the slot's exception, an exception leaves the  *)
(* slot's buffer alone.                                                       *)
ExceptionNotCleared(p) ==                               \* mutant of ExceptionWritten
    IF call[p] \in ExceptionCalls THEN Id(p) ELSE exceptions[Slot(index[p])]
ExceptionWritten(p) == IF call[p] \in ExceptionCalls THEN Id(p) ELSE NoData
BufferWritten(p) == IF call[p] \in ExceptionCalls THEN buffers[Slot(index[p])] ELSE Id(p)

AfterWriteUncounted(p) == "post"                        \* mutant of AfterWrite
AfterWrite(p) == IF ret[p] THEN "count" ELSE "post"

Write(p) ==
    /\ Goto(p, "write", AfterWrite(p))
    /\ exceptions' = [exceptions EXCEPT ![Slot(index[p])] = ExceptionWritten(p)]
    /\ buffers' = [buffers EXCEPT ![Slot(index[p])] = BufferWritten(p)]
    /\ UNCHANGED <<writeIndex, readIndexMax, readIndex, ready, previousData>>
    /\ UNCHANGED <<consumer, function, index, ret, urim>>

(* get_notification_queue() without a notifyer queue: an atomic increment.    *)
CountPreviousData(p) ==
    /\ Goto(p, "count", "post")
    /\ previousData' = previousData + 1
    /\ UNCHANGED <<writeIndex, readIndexMax, readIndex, ready, payload>>
    /\ UNCHANGED <<consumer, function, index, ret, urim>>

Post(p) ==
    /\ Goto(p, "post", "urim_r")
    /\ ready' = [ready EXCEPT ![Slot(index[p])] = TRUE]
    /\ UNCHANGED <<writeIndex, readIndexMax, readIndex, payload, previousData>>
    /\ UNCHANGED <<consumer, function, index, ret, urim>>

(* update_read_index_max(): three loads, then readIndexMax is advanced over   *)
(* the ready slots.                                                           *)
UpdateLoadReadIndex(p) ==
    /\ Goto(p, "urim_r", "urim_w")
    /\ urim' = [urim EXCEPT ![p].r = readIndex]
    /\ UNCHANGED <<shared, consumer, function, index, ret>>

ClampedByRing(w, r) == IF w >= r + nBuffers - 1 THEN w - nBuffers ELSE w   \* mutant of Clamped
Clamped(w, r) == IF w >= r + nBuffers THEN r + nBuffers - 1 ELSE w

UpdateLoadWriteIndex(p) ==
    /\ Goto(p, "urim_w", "urim_m")
    /\ urim' = [urim EXCEPT ![p].w = Clamped(writeIndex, urim[p].r)]
    /\ UNCHANGED <<shared, consumer, function, index, ret>>

UpdateLoadReadIndexMax(p) ==
    /\ Goto(p, "urim_m", "urim_scan")
    /\ urim' = [urim EXCEPT ![p] = [@ EXCEPT !.m = readIndexMax, !.new = readIndexMax, !.i = readIndexMax]]
    /\ UNCHANGED <<shared, consumer, function, index, ret>>

ScannableUnchecked(p) == urim[p].i <= urim[p].w - 1     \* mutant of Scannable
Scannable(p) == urim[p].i <= urim[p].w - 1 /\ ready[Slot(urim[p].i)]

UpdateScan(p) ==
    /\ Scannable(p)
    /\ Goto(p, "urim_scan", "urim_scan")
    /\ urim' = [urim EXCEPT ![p] = [@ EXCEPT !.i = urim[p].i + 1, !.new = urim[p].i + 1]]
    /\ UNCHANGED <<shared, consumer, function, index, ret>>

UpdateScanEnd(p) ==
    /\ ~Scannable(p)
    /\ Goto(p, "urim_scan", "urim_cas")
    /\ UNCHANGED <<shared, consumer, function, index, ret, urim>>

UpdateCas(p) ==
    /\ readIndexMax = urim[p].m
    /\ Goto(p, "urim_cas", "urim_while")
    /\ readIndexMax' = urim[p].new
    /\ UNCHANGED <<writeIndex, readIndex, ready, payload, previousData>>
    /\ UNCHANGED <<consumer, function, index, ret, urim>>

UpdateCasFails(p) ==
    /\ Goto(p, "urim_cas", "urim_while")
    /\ urim' = [urim EXCEPT ![p].m = readIndexMax]
    /\ UNCHANGED <<shared, consumer, function, index, ret>>

BehindOrAhead(p) == readIndexMax # urim[p].new          \* mutant of Behind
BehindNever(p)   == FALSE                               \* mutant of Behind
Behind(p) == readIndexMax < urim[p].new

UpdateAgain(p) ==
    /\ Behind(p)
    /\ Goto(p, "urim_while", "urim_scan")
    /\ urim' = [urim EXCEPT ![p].i = urim[p].m]
    /\ UNCHANGED <<shared, consumer, function, index, ret>>

(* Nobody to notify: send_notification(nullptr) does nothing.                 *)
UpdateDone(p) ==
    /\ pc[p] = "urim_while"
    /\ ~Behind(p)
    /\ Return(p, ret[p])
    /\ UNCHANGED <<shared, consumer>>

ObtainStep(p) == \/ ObtainLoad(p) \/ ObtainNotFull(p) \/ ObtainFull(p)
                 \/ ObtainFullOverwrite(p) \/ ObtainCas(p) \/ ObtainCasFails(p)
OverwriteStep(p) == \/ OverwriteReset(p) \/ OverwriteResetFails(p) \/ OverwriteRollback(p)
                    \/ OverwriteRollbackFails(p) \/ OverwriteRestore(p)
PublishStep(p) == Write(p) \/ CountPreviousData(p) \/ Post(p)
UpdateStep(p) == \/ UpdateLoadReadIndex(p) \/ UpdateLoadWriteIndex(p) \/ UpdateLoadReadIndexMax(p)
                 \/ UpdateScan(p) \/ UpdateScanEnd(p) \/ UpdateCas(p) \/ UpdateCasFails(p)
                 \/ UpdateAgain(p) \/ UpdateDone(p)
ProducerStep(p) == ObtainStep(p) \/ OverwriteStep(p) \/ PublishStep(p) \/ UpdateStep(p)

-----------------------------------------------------------------------------
(* The consumer.  A call that finds no data and returns at once (a failing    *)
(* pop(), empty() returning true, front(), a repeated empty() or wait())      *)
(* changes nothing and is a stuttering step.                                  *)

Front == Slot(readIndex)

TakeFrontNoReset == ready[Front] /\ UNCHANGED ready     \* mutant of TakeFront
TakeFront == ready[Front] /\ ready' = [ready EXCEPT ![Front] = FALSE]

Pop ==
    /\ "pop" \in ConsumerCalls
    /\ cpc = "idle" /\ cpc' = "read"
    /\ IF hasFrontOwnership THEN UNCHANGED ready ELSE TakeFront
    /\ UNCHANGED <<writeIndex, readIndexMax, readIndex, payload, previousData>>
    /\ UNCHANGED <<producer, hasFrontOwnership, item, delivered>>

PopWait ==
    /\ "pop_wait" \in ConsumerCalls
    /\ cpc = "idle" /\ cpc' = IF hasFrontOwnership THEN "read" ELSE "pop_wait"
    /\ hasFrontOwnership' = FALSE
    /\ UNCHANGED <<shared, producer, item, delivered>>

PopWaitWake ==
    /\ cpc = "pop_wait" /\ cpc' = "read"
    /\ TakeFront
    /\ UNCHANGED <<writeIndex, readIndexMax, readIndex, payload, previousData>>
    /\ UNCHANGED <<producer, hasFrontOwnership, item, delivered>>

Empty ==
    /\ "empty" \in ConsumerCalls
    /\ cpc = "idle" /\ ~hasFrontOwnership
    /\ TakeFront
    /\ hasFrontOwnership' = TRUE
    /\ UNCHANGED <<writeIndex, readIndexMax, readIndex, payload, previousData>>
    /\ UNCHANGED <<producer, cpc, item, delivered>>

Wait ==
    /\ "wait" \in ConsumerCalls
    /\ cpc = "idle" /\ ~hasFrontOwnership
    /\ cpc' = "wait"
    /\ UNCHANGED <<shared, producer, hasFrontOwnership, item, delivered>>

WaitWake ==
    /\ cpc = "wait" /\ cpc' = "idle"
    /\ TakeFront
    /\ hasFrontOwnership' = TRUE
    /\ UNCHANGED <<writeIndex, readIndexMax, readIndex, payload, previousData>>
    /\ UNCHANGED <<producer, item, delivered>>

Read ==
    /\ cpc = "read" /\ cpc' = "advance"
    /\ item' = EntryAt(Front)
    /\ UNCHANGED <<shared, producer, hasFrontOwnership, delivered>>

(* A query, without effect.                                                   *)
read_available == readIndexMax - readIndex

(* readIndex++, which frees the slot for the producers.                       *)
Advance ==
    /\ cpc = "advance" /\ cpc' = "decrement"
    /\ readIndex' = readIndex + 1
    /\ hasFrontOwnership' = FALSE
    /\ delivered' = Append(delivered, item)
    /\ item' = NoItem
    /\ UNCHANGED <<writeIndex, readIndexMax, ready, payload, previousData, producer>>

(* decrement_previous_data_counter(), then the value or exception is out.     *)
Decrement ==
    /\ cpc = "decrement" /\ cpc' = "idle"
    /\ previousData' = previousData - 1
    /\ UNCHANGED <<writeIndex, readIndexMax, readIndex, ready, payload>>
    /\ UNCHANGED <<producer, hasFrontOwnership, item, delivered>>

ConsumerStep == \/ Pop \/ PopWait \/ PopWaitWake \/ Empty \/ Wait \/ WaitWake
                \/ Read \/ Advance \/ Decrement

Next == \/ \E p \in Producers : ProducerStep(p) \/ \E f \in Calls[p] : Call(p, f)
        \/ ConsumerStep

Spec == Init /\ [][Next]_vars

(* A thread inside a push function keeps running, and the weak               *)
(* compare-exchange does not fail for ever by itself; a thread blocked in a   *)
(* semaphore or inside a pop keeps running too.  Nobody is obliged to call.   *)
Fairness ==
    /\ \A p \in Producers : WF_vars(ProducerStep(p)) /\ SF_vars(ObtainCas(p)) /\ SF_vars(UpdateCas(p))
    /\ WF_vars(PopWaitWake \/ WaitWake \/ Read \/ Advance \/ Decrement)

FairSpec == Spec /\ Fairness
-----------------------------------------------------------------------------
(* Who holds a slot.                                                          *)

Writing   == {"write", "count", "post"}
Locking   == {"rollback", "restore"}

HeldSlots(p) == IF pc[p] \in Writing THEN {Slot(index[p])}
                ELSE IF pc[p] \in Locking THEN {Slot(index[p] - 1)} ELSE {}

ConsumerSlots == IF hasFrontOwnership \/ cpc \in {"read", "advance"} THEN {Front} ELSE {}

ReadySlots == {s \in Slots : ready[s]}
Span(r, w) == {Slot(i) : i \in r .. w - 1}
Occupied   == Span(readIndex, writeIndex)

(* Types.                                                                     *)
TypeOK ==
    /\ writeIndex \in Nat /\ readIndexMax \in Nat /\ readIndex \in Nat
    /\ ready \in [Slots -> BOOLEAN]
    /\ buffers \in [Slots -> Ids \cup {NoData}]
    /\ exceptions \in [Slots -> Ids \cup {NoData}]
    /\ previousData \in Int
    /\ hasFrontOwnership \in BOOLEAN
    /\ pc \in [Producers -> ProducerPcs]
    /\ call \in [Producers -> AllCalls \cup {"none"}]
    /\ calls \in [Producers -> Nat]
    /\ index \in [Producers -> Nat]
    /\ ret \in [Producers -> BOOLEAN]
    /\ result \in [Producers -> BOOLEAN]
    /\ urim \in [Producers -> [r : Nat, w : Nat, m : Nat, new : Nat, i : Nat]]
    /\ cpc \in ConsumerPcs
    /\ item \in Entry
    /\ delivered \in Seq(Entry)

(* obtain_write_slot() keeps the queue within its capacity although it checks *)
(* a stale write index against a moving read index.                           *)
WithinCapacity == readIndex <= writeIndex /\ writeIndex <= readIndex + Length

(* Every slot between the indices has exactly one holder: it is ready for the *)
(* consumer, or one producer writes or locks it, or the consumer has it; a    *)
(* slot outside the indices has none.  Hence no slot is lost, none is written *)
(* by two producers, and none is written while the consumer looks at it.      *)
SlotOwnership ==
    /\ Occupied = ReadySlots \cup ConsumerSlots \cup UNION {HeldSlots(p) : p \in Producers}
    /\ ReadySlots \cap ConsumerSlots = {}
    /\ \A p \in Producers :
         /\ HeldSlots(p) \cap (ReadySlots \cup ConsumerSlots) = {}
         /\ \A q \in Producers \ {p} : HeldSlots(p) \cap HeldSlots(q) = {}

(* The assertions of the code and what it takes for granted: a semaphore is   *)
(* never posted twice, a pop never runs ahead of the pushes, the counter of   *)
(* previous data is incremented before the pop that decrements it, and none   *)
(* of the size_t subtractions underflows.                                     *)
AssertionsHold ==
    /\ \A p \in Producers :
         /\ pc[p] = "post" => ~ready[Slot(index[p])]
         /\ pc[p] = "restore" => ~ready[Slot(index[p] - 1)]
         /\ pc[p] \in {"reset"} \cup Locking => index[p] >= 1
         /\ pc[p] = "urim_scan" => urim[p].w >= 1
    /\ cpc = "advance" => readIndex < writeIndex
    /\ cpc = "decrement" => previousData > 0

(* The entries of one producer come out in the order of its calls, none       *)
(* twice: what was delivered, followed by what is ready, increases.           *)
Stored == [k \in 1 .. writeIndex - readIndex |-> EntryAt(Slot(readIndex + k - 1))]
Published(s) == ready[s] \/ s \in ConsumerSlots
Settled(k) == Published(Slot(readIndex + k - 1))
ProducerOrder ==
    /\ \A j, k \in DOMAIN delivered :
         j < k /\ delivered[j].id[1] = delivered[k].id[1] => delivered[j].id[2] < delivered[k].id[2]
    /\ \A j \in DOMAIN delivered, k \in DOMAIN Stored :
         Settled(k) /\ delivered[j].id[1] = Stored[k].id[1] => delivered[j].id[2] < Stored[k].id[2]
    /\ \A j, k \in DOMAIN Stored :
         j < k /\ Settled(j) /\ Settled(k) /\ Stored[j].id[1] = Stored[k].id[1]
           => Stored[j].id[2] < Stored[k].id[2]

(* With push() and push_exception() only, the returned boolean tells whether  *)
(* the entry went in: the entries of the finished calls that returned true    *)
(* are delivered or ready, those of the calls that returned false are not.    *)
Arrived(id) == \/ \E k \in DOMAIN delivered : delivered[k].id = id
               \/ \E k \in DOMAIN Stored : Settled(k) /\ Stored[k].id = id
ResultTellsArrival ==
    \A p \in Producers : pc[p] = "idle" /\ calls[p] > 0 => (result[p] <=> Arrived(Id(p)))

(* readIndexMax never moves back although several producers exchange it with  *)
(* values computed from stale indices.                                        *)
ReadIndexMaxMonotone == [][readIndexMax' >= readIndexMax]_readIndexMax

(* With push() and push_exception() only, everything below readIndexMax has   *)
(* been published, so it can be popped.                                       *)
PublishedBelowMax ==
    \A i \in readIndex .. readIndexMax - 1 :
        i < writeIndex /\ Published(Slot(i))

(* read_available() before the consumer takes anything: when no push is       *)
(* running it is exact, so overlapping scans of several pushes do not hide an *)
(* element from each other.  Once the consumer takes elements that are not    *)
(* scanned yet, readIndexMax may stay behind, and the difference even wrap.   *)
AtRest == cpc = "idle" /\ \A p \in Producers : pc[p] = "idle"
ReadAvailableExact ==
    AtRest /\ delivered = <<>> /\ ~hasFrontOwnership => read_available = writeIndex - readIndex

(* With push() and push_exception() only, notifyerQueue_previousData counts   *)
(* the entries a when_any() placed now would have to announce: those whose    *)
(* push has counted them and whose pop has not.                               *)
PreviousDataExact ==
    previousData = Cardinality(ReadySlots \cup ConsumerSlots)
                   + Cardinality({p \in Producers : pc[p] = "post"})
                   + (IF cpc = "decrement" THEN 1 ELSE 0)

(* With overwriting the counter may exceed that number, never fall below it.  *)
PreviousDataSufficient ==
    previousData >= Cardinality(ReadySlots \cup ConsumerSlots)
                    + Cardinality({p \in Producers : pc[p] = "restore"})
                    + (IF cpc = "decrement" THEN 1 ELSE 0)

(* A plain push is refused only in a moment in which the queue is full.       *)
RefusedOnlyWhenFull ==
    [][\A p \in Producers : ObtainFull(p) => writeIndex - readIndex = Length]_vars

(* An entry the consumer owns (after empty() or wait()) is what it gets: no   *)
(* push_overwrite() replaces it.                                              *)
OwnedFrontStable ==
    [][hasFrontOwnership /\ readIndex' = readIndex => EntryAt(Front)' = EntryAt(Front)]_vars

(* A consumer blocked in pop_wait() or wait() gets an entry once a producer   *)
(* has obtained a slot.                                                       *)
WaitIsServed ==
    (cpc \in {"pop_wait", "wait"} /\ writeIndex > readIndex) ~> cpc \notin {"pop_wait", "wait"}

(* Every call of a pushing function returns: neither the retry loop of        *)
(* obtain_write_slot() nor the one of update_read_index_max() runs for ever.  *)
CallsReturn == \A p \in Producers : pc[p] # "idle" ~> pc[p] = "idle"

-----------------------------------------------------------------------------
(* The queue implements the abstract FIFO queue: cell k is slot               *)
(* readIndex + k - 1.                                                         *)
Holder(s) == CHOOSE p \in Producers : s \in HeldSlots(p)
CellAt(s) ==
    IF Published(s)
    THEN [state |-> "full", by |-> NoData, entry |-> EntryAt(s)]
    ELSE IF pc[Holder(s)] \in Writing
         THEN [state |-> "pending", by |-> Holder(s), entry |-> NoItem]
         ELSE [state |-> "locked", by |-> Holder(s), entry |-> EntryAt(s)]

Fifo == INSTANCE FifoQueue WITH
    Entries <- [kind : {"value", "exception"}, id : UNION {{p} \X (1 .. MaxCalls[p]) : p \in Producers}],
    Nobody  <- NoData,
    cells   <- [k \in 1 .. writeIndex - readIndex |-> CellAt(Slot(readIndex + k - 1))],
    taken   <- ConsumerSlots # {},
    out     <- delivered

ImplementsFifo == Fifo!Spec
=============================================================================
