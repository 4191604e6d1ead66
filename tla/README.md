# Formal model of future_queue

TLA+ specifications of `cppext::future_queue` (`include/future_queue.hpp`), its semaphore
(`include/semaphore.hpp`) and its barrier (`include/barrier.hpp`), the TLC configurations that check
them on small instances, and proofs, checked by TLAPS, of what holds for every instance.

## 1. The system

| Component | State | Operations | Interacts with |
|---|---|---|---|
| Queue core (`shared_state_base`, `future_queue_base`, `future_queue<T>`) | `writeIndex`, `readIndexMax`, `readIndex`, one semaphore, buffer and `exception_ptr` per slot, `hasFrontOwnership`, `when_any_notification` | `push`, `push_exception`, `push_overwrite`, `push_overwrite_exception`, `pop`, `pop_wait`, `front`, `empty`, `wait`, `size`, `read_available`, `write_available` | any number of producer threads, one consumer thread, all through atomics and semaphores |
| `when_any`, `when_all` | the pair (`notifyerQueue`, `notifyerQueue_previousData`) in each queue, the notification queue | setting up, `get_notification_queue`, `send_notification`, `decrement_previous_data_counter` | each push of a participating queue pushes to the notification queue too |
| Continuations, `then()` | `is_continuation_*`, internal thread, two `std::function`s, `continuation_origin` | deferred processing inside `pop`/`empty`/`wait`, asynchronous processing in a thread | origin queue (as consumer), result queue (as producer), `free()` terminates the thread |
| Life cycle, `shared_state_ptr` | `reference_count` | copy, assign, release, `free()` | every copy of a queue, the functions and threads that hold copies, `when_any` |
| Semaphore | POSIX: `sem_t`; fallback: counter, mutex, condition variable | `unlock`, `is_ready`, `wait_and_reset`, `is_ready_and_reset` | one per slot of a queue |
| Barrier | `_count`, `_barrierReached`, mutex, condition variable | `wait` | used by the performance test |
| `finally`, `type_erasing_vector`, `ranges`, `threadName`, `threadsafe_unit_test`, build files | none that is shared | | not modelled: sequential helpers |

What is hard about it:

* Everything in the queue is lock-free.  A producer decides on indices it read earlier, obtains a slot
  with one compare-exchange, and publishes the slot later, in an order of its own.
* An overwriting producer acts on the consumer's end of the protocol: it takes a semaphore, and moves
  `writeIndex` back.
* `readIndexMax` is computed by every producer from three separate loads and a scan.
* `when_any()` changes what a push has to do while pushes are running.
* A deferred continuation runs in whoever reads its queue, an asynchronous one in a thread that only an exception
  pushed to the right queue can stop; `free()` has to find out which reference is the last one that counts.
* The fallback semaphore and the barrier depend on condition variables with spurious wake-ups.

What makes each component correct is stated below, property by property.  `PROJECT.json` lists the
hazards, each at its line, with the properties that would notice it.

## 2. Modules

| Module | Models | Runs |
|---|---|---|
| `FutureQueue` | the queue core, one action per access to shared memory | `push`, `overwrite`, `wait` |
| `FifoQueue` | what the core promises: a bounded queue with reservation, publication, locking and removal | refined in run `overwrite` |
| `FutureQueueProofs` | proofs about `FutureQueue`: types, capacity, ownership of the slots | |
| `FutureQueueCounting` | assertions and counters; what holds without overwriting (`PushOnly`) | |
| `FutureQueueFifo` | order, results, the refinement of `FifoQueue` | |
| `WhenAny` | `when_any()`, `when_all()`, three kinds of receiver, over queues as `FifoQueue` describes them | `when_any`, `when_all_race` |
| `Semaphore` | the fallback semaphore, at the level of the mutex and the condition variable | `semaphore` |
| `BinarySemaphore` | what a semaphore promises, and what `FutureQueue` takes a semaphore for | refined in run `semaphore` |
| `Barrier` | the barrier | `barrier` |
| `Continuation` | plain, deferred and asynchronous queues: the reader, the handles of the result queue, `free()` | `continuation`, `continuation_chain`, `then_again`, `deferred_exception`, `release_race` |
| `ContinuationProofs` | proofs about `Continuation`: types, the life cycle of the shared state | |
| `ContinuationOrder` | order of the results, and no element lost | |
| `WhenAnyProofs`, `SemaphoreProofs`, `BarrierProofs` | proofs about `WhenAny`, `Semaphore`, `Barrier` | |
| `MCPush`, `MCOverwrite`, `MCWait`, `MCWhenAny`, `MCContinuation` | instances for TLC | |

The modules build on each other: `Semaphore` implements `BinarySemaphore`, a slot of which is
`ready[s]` in `FutureQueue`; `FutureQueue` implements `FifoQueue`, several of which, with the
notification protocol between them, are `WhenAny`; the queues of `Continuation` are seen from further away
still, a push or a pop being one step.  The client rule of the semaphore, no `unlock()`
while it is ready, is a guard in `Semaphore` and is checked of its client by `AssertionsHold` in
`FutureQueue`.

### FutureQueue

The variables carry the names of the code.  Each producer has a program position `pc`, its `myIndex`
(`index`), its `ret` and the locals of `update_read_index_max()` (`urim`).  The four pushing functions
have the same skeleton and share the actions; `call[p]` says which one runs, and decides whether a full
queue is overwritten (`ObtainFullOverwrite`) and what is written (`ExceptionWritten`, `BufferWritten`).
Each load, store, exchange and semaphore call is an action.  A loop around a compare-exchange that
only increments or decrements (`get_notification_queue()`, `decrement_previous_data_counter()`) is the
atomic increment it implements.  Payload and `exceptions` of the slot are written in one action,
since only the holder of the slot looks at them, which is what `SlotOwnership` shows.

The consumer's calls that find nothing and return at once change nothing and are stuttering steps, as is
`front()`.  `read_available()` is a state function.  The payload is the pair (producer, number of its call).
Memory is sequentially consistent: the code uses the default order for all accesses but one acquire load
followed by an exchange.

`compare_exchange_weak` may fail although the value is the expected one (`ObtainCasFails`,
`UpdateCasFails` have no condition on it).  Assertions of the code are properties, not guards.

### WhenAny

A data queue is the sequence of its places, each with its writer until it is published.  `Push`,
`GetNotificationQueue`, `Post` and `Send...` are the steps of `push()`, and of `push_overwrite()` while there is
room; a full queue has its last place locked again and rewritten (`OverwriteLast`, `Post`), without counting
and without a notification, as in the code.  `overwriters` are the producers that call `push_overwrite()`, each the only
producer of its queues, as the documentation asks.  `SetNotificationQueue`, `Announce` and
`Announced` are the loop of `when_any()`, run by the receiver while others push.  The receiver may pop before it
calls `when_any()`.  What it does then is the mode:

* "any": it takes one value per notification with `pop_wait()`;
* "all": it calls `pop_wait()` or `pop()` on the queue `when_all()` returned and then takes a value from every queue;
* "then": it is the internal thread of an asynchronous continuation of the `when_all()` queue, only waits, and `user`
  may release the continuation.  `free()` pushes the termination exception to the notification queue, the origin of the
  origin (`PushTermination`); it leaves the loop of `when_all()` and that of the thread.

The place of a notification is freed in a step of its own (`AnyRemove`, `AllRemove`), because a
notification that finds the queue full is lost.  `raced` is a history variable: the queues that had a push
between counting and publishing when `when_any()` reached them.  Which queues a producer pushes to, whether it may
overwrite and how often it pushes depends on the mode.

A receiver of `when_any()` that was told of a queue finds a value there, or a place whose producer is about to publish it
(`NotifiedIsComing`, for any number of producers); with one producer that does not overwrite, and no raced
call, the value is there at once (`NotifiedAvailableUnlessRaced`).

What `when_all()` promises, that `pop_wait()` returns once every queue has data (`AllServedUnlessRaced`), holds when the
system is `Orderly`: no push was between counting and publishing at the call, and each queue has one producer, which
does not overwrite.  `NoSleepOverData` is the safety property it rests on.  Section 6 says what happens otherwise.

### Continuation

`queue[0]` is where elements are pushed, `queue[1]` to `queue[depth]` are deferred continuations (of length 1), and
`queue[Result]` is the queue whose handles are modelled: the last of the deferred continuations, the output of an
asynchronous one, or without any `then()` the queue itself (`policy`).  `void[k]` chooses between the
forms the template specialisations have for the queue that is read: `wait()` or `empty()`, `front()`, push, `pop()` for a value,
`pop_wait()` or `pop()`, push for void.

Looking for an element of a deferred continuation runs its function in the calling thread, which looks for its own
input.  So there is one reader (`tpc`, `at`), which starts at `queue[0]` and carries an element through the callables:
the internal thread of an asynchronous continuation, or the consumer inside a call (`BeginCall` to `EndCall`).  A polling
call may find nothing (`FindNothing`), and in the one form that lacks a handler it may be left by an exception.  The exception
passes through the calls above it, up to a continuation from void to void, which puts it in its own queue (`CatchAbove`), or
out of the consumer's call (`Escape`).
A full output queue drops the result, as in the code.

`Release` to `Delete` are the steps of `free()` for the handle of a user, in the order of the code: decrement, flags, then
the destruction of the two functions (`ClearFunctions`, with the references in them), or the loop (`TestTerminated`, `PushTermination`)
and join, then delete with its assertion (`AssertionFails`).  The internal thread goes through its own `free()` when it leaves
(`ThreadRelease`, `ThreadExit`), and finding itself the last user it would join itself (`ThreadAborts`).  Handles can
be copied again while somebody holds one.

When the result queue is gone, elements and termination exceptions may be left in its origin.  They can be
popped (`PopLeftOver`), or `then()` is called again (`ThenAgain`): the new thread runs before `then()` has set the flags and
returned (`ThenReturns`).  `stale` records that this `then()` has met a termination exception.

### Semaphore and Barrier

Functions run under a mutex, so a step is what happens between two sleeps.  A condition variable may
wake a sleeper at any time (`WakeSpuriously`).  The POSIX semaphore is not modelled beyond
`BinarySemaphore`, the contract its functions have as long as nobody unlocks a ready semaphore.

## 3. Runs

| Run | Instance | Shows |
|---|---|---|
| `push` | producers: 3 × `push`, 1 × `push_exception`; consumer: `pop`, `wait`; length 2 | `TypeOK`; `SlotOwnership`: every slot has exactly one holder; `AssertionsHold`: the code's assertions and no unsigned underflow; `ProducerOrder`; `ResultTellsArrival`: true iff the entry went in; `PublishedBelowMax`; `ReadAvailableExact`: overlapping scans hide nothing; `PreviousDataExact`; `ReadIndexMaxMonotone`; `RefusedOnlyWhenFull` |
| `overwrite` | producers: 3 × `push_overwrite`, 1 × `push_overwrite_exception`; consumer: `empty`, `pop_wait`; length 2 | `WithinCapacity`; `SlotOwnership`; `AssertionsHold`; `PreviousDataSufficient`: with overwriting the counter is never too small; `OwnedFrontStable`; `ImplementsFifo` |
| `wait` | producers: 1 × `push`, 3 × `push_overwrite`, of which the first two fill the queue; consumer: `pop_wait`, `wait`; length 2 | `WaitIsServed`: a consumer asleep on a place in use gets it, also one that is locked, put back or rewritten meanwhile; `CallsReturn`: also a call that meets a full queue, twice, or an exchange that failed |
| `when_any` | queues of length 1 and 2; mode "any": 2 pushes to either, 3 pushes or overwriting pushes to the second; modes "all" and "then": a producer for each queue, 2 and 3, or 1 and 2 pushes | `AnnouncedOnce`, overwriting included; `NotificationsFit`; `NotifiedAvailableUnlessRaced`; `NoSleepOverData`; `NotifiedIsComing`; `NotifiedIsServed`; `AllServedUnlessRaced`; `ReleaseReturns` |
| `semaphore` | 4 threads, any number of calls | `NoLostWakeup`; `ImplementsBinary` with its liveness |
| `barrier` | 5 threads, 2 rounds | `NobodyLeavesEarly`; `SleepersAreAwaiting`; `EverybodyPasses` |
| `continuation` | origin of length 1; a plain queue, a chain of one or three deferred continuations, or an asynchronous one alone or behind a deferred one, every combination of void and other queues; 3 pushes of either kind or fewer and a second `then()`; the callable throws for the second element; 2 users | `TypeOK`; `ResultsInOrder`: results in order, at most once, exceptions where due, never the internal one; `LostOnlyAtFullResult`; `DeletedWhenUnused`; `ReleaseReturns`; `ElementsProcessed` |
| `when_all_race`, `continuation_chain`, `then_again`, `deferred_exception`, `release_race` | smaller instances of the same modules | expected violations, section 6 |

The bounds.  Length 2 is the least that `push_overwrite()` allows, and with 4 calls the three-slot
ring is used beyond its end, so that slots are reused, a slot that held an exception gets a value, and a
full queue is overwritten repeatedly.  Two producers are enough for each pair of accesses to
interleave; what needs more is covered by the theorems, which hold for any number.  Liveness of the queue is the one
question without a theorem, and the run `wait` with fairness for each thread is the most expensive per state.  So it starts where it is
hard: `FilledSpec` lets the overwriting producer fill the queue by itself before the others move.  Its steps are steps of `Next`, so
its behaviours are behaviours of `FairSpec`.  From there the consumer sleeps on the front element while the overwriting producer has it
locked, gives it back because the push has moved `writeIndex`, or rolls back and writes it again, and the rolled back
producer finds its place taken by the push.  One overwriting producer is what the documentation
allows (`future_queue.hpp:260-270`); two are in the run `overwrite` and in the theorems.  The number of calls
(`MaxCalls`, `MaxPushes`, `MaxWaits`) is the only bound of the models; indices are below it.  In `when_any`,
five pushes exceed the three places of the notification queue, so notifications are lost in mode "all"; in mode "then"
three fill it, so that the termination exception meets a full queue.  In `Continuation` the calls of `push()` and
`then()` together are bounded by `MaxCalls`, the first `then()` counted (also for the plain queue): with 4, the third element meets a full result
queue if nobody pops, a full origin if the reader is slow, and the termination exception any of these.
The runs of `FutureQueue`, `WhenAny`, `Barrier` and `Continuation` end when the calls are used up, so deadlock is not
checked there; it is in `semaphore`.

Fairness.  A thread inside a function goes on (weak fairness of its steps); nobody is obliged to
call a function, except that in `Barrier` every thread comes to the barrier, as the property supposes.
`ObtainCas` and `UpdateCas` are strongly fair: a weak compare-exchange does not fail spuriously for ever.
In `WhenAny` the receiver goes on once `when_any()` is called.  In `Continuation` the reader and a thread inside `free()`
go on (the callable returns); nobody is obliged to push, pop, call, copy or release.  Spurious wake-ups are allowed
and never relied on.

Every property has a mutant in `PROJECT.json`, a plausible mistake in one definition, under which the run
reports the property violated.  The mutated operators stand beside the originals in the modules.

## 4. Proofs

Every invariant and every action property of the passing runs is proved, and so are the refinement of `FifoQueue`
and the safety part of that of `BinarySemaphore`: for any set of producers or users, any number and length of queues, any
depth of a chain and any number of calls.

* `FutureQueueProofs`.  The inductive invariant is

      IndInv == TypeOK /\ WithinCapacity /\ IndexOK /\ SlotOwnership

  `WithinCapacity` alone is not inductive: a producer at the compare-exchange carries the result of an old
  test.  `IndexOK` keeps what that result is still worth: the index passed the test against a
  read index that has only grown since, so that the exchange, which succeeds only if `writeIndex` still is
  that index, cannot exceed the capacity.  `SlotOwnership` is needed because moving `writeIndex` back is only
  allowed to the producer that holds the last slot.  It speaks of slots modulo the ring size; the lemmas
  `ModuloDistinct`, `SlotDistinct` and `Span...` say that indices less than a ring apart have
  different slots and how the set of slots in use changes at either end.  There is one lemma per way
  of passing a slot on, and one step per action.  From it follow `TypeCorrect`, `CapacityRespected`,
  `SlotsOwned` and, as action properties, `OwnedFrontKept` and `ReadIndexMaxNeverFalls`.
* `FutureQueueCounting`.  `AssertionsNeverFail` and `CounterSufficient` need two additions,

      CountInv == IndInv /\ LocalOK /\ CountOK

  `LocalOK` says what a producer knows besides its index: once something is pushed `writeIndex` stays positive, because
  only a producer that has seen a full queue of length 2 or more moves it back, so `l_writeIndex - 1` does not underflow.  `CountOK` balances
  the counter against the entries that are ready or with the consumer *and* against the debts of the producers: an
  entry that is counted and not posted yet, one that is locked for overwriting, and one that was removed and whose
  replacement is still to be stored.  Each step turns an entry into a debt, a debt into an entry, or drops one of
  them, and there is one lemma for each of these.
  The rest of the module is about queues without overwriting.  The hypothesis is `PushOnly`, no producer has an overwriting
  call in `Calls`, since with overwriting these properties are false: a replaced entry is uncounted, taken out below
  `readIndexMax`, lost after its call returned true, or makes room for a push that has already found the queue full.  `RefusalJustified` follows from `PlainInv` (nobody is in
  the overwriting part of the code).  `ScanInv` says for each local index of `update_read_index_max()` what it
  *claims*, that everything below is published, and a claim once true stays true; `MaxIsPublished` follows although the
  claim is stored late.  `ExactInv` turns the inequality of `CountOK` into an equation (`CounterExact`).
  For `AvailableExact`, `CoverInv` says that, before the consumer takes anything, every entry at the end of a published
  prefix that is not below `readIndexMax` is *covered*: a producer has still to scan it, or has scanned past it and
  still to store what it found.
* `FutureQueueFifo`.  `ContentInv` says which entry is in which slot, up to the one the consumer has in its hands.
  `OrderInv` lays all entries, delivered or not, in one line by index: those of one producer are in the order of its
  calls, and a producer that is writing is behind all its earlier ones (`ProducersOrdered`).  `ArrivalInv` adds
  that the entry of a call that returned true is in that line and that of a refused one is not (`ResultHonest`, with
  `PushOnly`: an overwritten entry is gone).  `FifoImplemented` maps position k of the abstract queue to slot `readIndex + k - 1`.
  `CellTable` gives the cell of each slot in use: full, pending or locked by its holder.  Then `ObtainCas` is Reserve, `Post`
  is Publish, `OverwriteReset`, `OverwriteRestore` and `OverwriteRollback` are Lock, Unlock and DropLast, the consumer's steps are Take and Remove,
  and each of the others is shown to leave the abstract queue unchanged.
* `ContinuationProofs`.  `LifeInv == Types /\ (Working \/ Aborted)`.  While the system works, the reference count is
  the number of handles plus the references the queue holds on itself (in its functions or its thread), each user inside
  `free()` knows whether it was the last, at most one was, and it gets to delete only after the functions are cleared or the
  thread has given up its own reference.  `Aborted` is the end of a `then()` on a stale termination exception
  (section 6), which the property sets aside.  `SharedStateSafe` and `ContinuationTypes` follow.
* `ContinuationOrder`.  The queues, the reader's hand and the delivered results form one line of stations, and
  `Ordered` says that elements are ordered within each station and across them; the element in the reader's hand is behind all
  that are further on and before all that come after it (`ResultsOrdered`).  `NoElementLost` adds `WayInv`: the queue of
  a deferred continuation is empty unless its element is just being passed on.  Its hypothesis is `ShortChains`: at most
  one deferred continuation before an asynchronous one.  Behind two of them, the termination exception lands in the queue of
  one, as in `continuation_chain`, and fills the place the next element is to be put in.
* `WhenAnyProofs`.  `IndInv == Shape /\ AllCounted /\ Covered`, where `Shape` says who holds which place of a queue, how far
  the set-up is, and that a value counted before and published after it is in `raced`.  `AllCounted` is the balance of
  `AnnouncedOnce`, proved by counting sets: each step moves a producer, a place or a notification from one set to another.  It
  holds for `when_any()` always, and for `when_all()` until it is set up.  `NotificationsFit` comes out of it: no queue has more
  notifications than places, so all of them map injectively into the set `Places`, whose number is the length of the
  notification queue; a producer about to send is one more announcement, so one place is free.  A receiver
  that was told of a queue is an announcement too, so the queue has a value or a producer with a place (`NotifiedIsOnItsWay`).
  For `when_all()` notifications are lost and consumed in vain, so there is no balance.  `Covered` is what remains: *some* queue has
  at most as many values as announcements (or the termination exception is on its way).  A lost notification
  keeps it, since a full notification queue cannot be short of every queue at once.  A receiver that has consumed
  a notification has a *credit* for every queue until it finds one empty, and that queue then is the one.
  A sleeping receiver has no credit, so a queue with a value at its front has an announcement (`SleeperWillBeWoken`).
  The attempt to prove this without `Orderly` found the second case of section 6 in which `when_all()` sleeps over data.
* `SemaphoreProofs`.  `NoLostWakeup` is inductive with the types (`WakeupsKept`); with it every step
  maps to a step of `BinarySemaphore` or a stutter (`BinarySafety`).
* `BarrierProofs`.  The code has no round number; the invariant says that there is one, r: every thread has
  begun r or r + 1 waits, those with r + 1 are inside `wait()`, `_count` counts the others, and the
  flag is only up while nobody has begun r + 1.  `BarrierHolds` follows, for every number of rounds.  `NoThreadLeftAsleep`
  holds for threads that come back in order (`BackInOrder`, section 6).  `Open` adds what is needed: when all
  threads have begun equally many waits, the flag is up and nobody is asleep.

The assumptions are those named in the modules: the length is positive, and at least 2 where
something is overwritten (an assertion of the code); `Calls`, `ConsumerCalls` name functions; the
producers of a queue and the threads of a barrier or semaphore are finitely many; the queues of `when_any()` are
a range `0 .. n`; `NoData`, the null pointer, is not an element (`NoDataAssumption`).  The length of the notification queue,
a sum in the code, is written as the number of all places (`Places`), which is the same and needs no recursion.

Only model-checked: the liveness properties (`WaitIsServed`, `CallsReturn`, `NotifiedIsServed`, `AllServedUnlessRaced`,
`ReleaseReturns`, `ElementsProcessed`, `EverybodyPasses` and the liveness in `ImplementsBinary`), since fairness and
ENABLED are out of reach of TLAPS.

## 5. Not modelled

* `write_available()`: a query of two loads.  It loads `writeIndex` first, so a push between the loads makes the result too
  big, against the comment in front of it.
* The overrun of the `size_t` indices after 2^64 calls (a `@todo` of the code), and relaxed memory.
* Payloads: `data_assign` is a sequential move or swap by the holder of the slot, and does not fail in the model.
* Participants of `when_any()` that are continuations or `when_all()` queues: the former only forward the notification
  queue to their origin, the latter are never notified (section 6).
* The reference a queue with a notification queue holds on it, and the chain of releases when a deleted queue
  was the last to hold its origin: each is one more `free()` on another queue, without interleavings of its own, since
  the thread that deletes is the only one left with access.  Assignment of handles is a release and a copy.
* `sem_wait()` interrupted by a signal.
* `finally`, `type_erasing_vector`, `ranges`, `threadName`, `threadsafe_unit_test` and the build files: sequential
  helpers without state that outlives a call.

## 6. Where the code and its documentation differ

* `when_all_race`: a push counts its value before it publishes it, so a `when_any()` in between announces a value that is not
  there yet.  `when_all()` consumes that announcement in vain; its `pop_wait()` sleeps although every queue has data.
* `continuation_chain`: releasing an asynchronous continuation that is two deferred ones away from the queue the
  elements are pushed to never returns; the termination exception is pushed one queue too far down.
* `then_again`: the thread of a continuation leaves the termination exception in its origin.  The thread of the next
  continuation of that queue reads it and leaves while its queue is in use, and may even join itself.
* `deferred_exception`: the polling form of a deferred continuation from void to another type has no exception
  handler, so `empty()` throws what `pop()` should.
* `release_race`: `free()` gives up its reference and then reads flags of the shared state, which another
  release may have deleted.

Met on the way, without a run of its own:

* `push_overwrite()` of the only producer drops its own value when the consumer has taken every element's semaphore but
  not yet advanced `readIndex` at the moment of the full test;
* the early announcement of `when_all_race` also contradicts an assertion of `testStresstest.cc` about `when_any()`;
* `push_overwrite()` locks an element that was announced; `when_all()` looking at that moment finds the queue empty, and
  the element returns without another notification (hence "does not overwrite" in `Orderly`);
* two producers of one queue may publish out of the order of their places.  The notification of the second comes first,
  `when_all()` finds the front of the queue not published and consumes it in vain.  The notification of the first serves to
  take the first value; for the second there is none left, and `pop_wait()` sleeps over it (hence "one producer" in `Orderly`);
* `read_available()` may stay too small for good, or wrap around, when the consumer pops an element between its publication
  and the scan of `update_read_index_max()` (`future_queue.md` calls it unreliable; `ReadAvailableExact` is what remains);
* a thread that comes back to the barrier before all have left it clears the flag they still have to see, and the barrier can leave every
  thread asleep (hence `BackInOrder`; the performance test uses each barrier once);
* `when_any()` over a queue of `when_all()` is never notified.

All of them are in the list of hazards.

## 7. Plan

1. Done: `FutureQueue` with `FifoQueue`, proofs of ownership and counting; `Semaphore`, `Barrier` with proofs; `WhenAny` with overwriting
   and with a continuation of the `when_all()` queue; `Continuation` with deferred and asynchronous processing, a second `then()`, and
   `free()` of every kind of queue.
2. Done: proofs of every safety and action property of the passing runs, and of the refinement of `FifoQueue`.
3. A thread that calls `write_available()`, and the size of the index type, in `FutureQueue`.
4. Safety properties behind the liveness properties that are only model-checked, such as `NoSleepOverData` behind
   `AllServedUnlessRaced` and `NotifiedIsComing` behind `NotifiedIsServed`: what a blocked consumer of `FutureQueue`, the thread of a continuation or its last user
   is waiting for is always on its way.
