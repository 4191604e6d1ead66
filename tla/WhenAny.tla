------------------------------ MODULE WhenAny ------------------------------
(* when_any() and when_all() (future_queue.hpp) over several queues: pushing   *)
(* threads announce each value in the notification queue, and one receiver     *)
(* sets the notification queue up while they push and then uses it.            *)
(* Each data queue is the queue of reserved and published places FutureQueue   *)
(* implements (FifoQueue), with push() and push_overwrite() as its pushing     *)
(* functions; so is the notification queue, with push() only.  The queue that  *)
(* when_all() returns belongs to the receiver, which pushes to it and pops     *)
(* from it within one call: what is left of it is whether that call succeeds.  *)
(* In mode "then" it is the input of an asynchronous continuation: the         *)
(* receiver is the internal thread, and the last handle of the continuation    *)
(* may be released (free()).                                                   *)
(* Operators marked as mutants are not used by the specification.              *)
EXTENDS Integers, FiniteSets, Sequences, FiniteSetsExt

CONSTANTS
    Producers,
    Queues,         \* the range given to when_any(), in its order: 0 .. n - 1
    Length,         \* size() of each queue
    Targets,        \* for each mode, the queues each producer pushes to
    Overwriters,    \* for each mode, the producers that may use push_overwrite()
    MaxPushes,      \* bound: for each mode, how many calls each producer makes
    Modes,          \* what the receiver does: "any", "all", "then"
    Nobody

ASSUME ProducersAssumption == IsFiniteSet(Producers) /\ Nobody \notin Producers
ASSUME QueuesAssumption  == Max(Queues) \in Nat /\ Queues = 0 .. Max(Queues)
ASSUME LengthAssumption  == Length \in [Queues -> Nat \ {0}]
ASSUME TargetsAssumption == \A m \in Modes : Targets[m] \in [Producers -> SUBSET Queues]
(* assert(d->nBuffers - 1 > 1) of push_overwrite()                            *)
ASSUME OverwriteAssumption ==
    \A m \in Modes :
        /\ Overwriters[m] \subseteq Producers
        /\ \A p \in Overwriters[m], q \in Queues : q \in Targets[m][p] => Length[q] > 1
ASSUME BudgetAssumption  == \A m \in Modes : MaxPushes[m] \in [Producers -> Nat]
ASSUME ModesAssumption   == Modes \subseteq {"any", "all", "then"}

VARIABLES
    data,           \* data[q]: the places in use, by their writer, Nobody once published
    hasFrontOwnership,
    info,           \* when_any_notification of each queue
    notify,         \* the notification queue: index sent, and writer until published
    ppc, target, notification_queue, pushes,    \* producers
    overwriters,                                \* those that call push_overwrite()
    rpc, mode, at, todo,                        \* receiver
    raced,          \* history: the queues that had a push between counting
                    \* and publishing when their notification queue was set
    user            \* mode "then": the one holding the continuation

queues   == <<data, hasFrontOwnership, info, notify>>
producer == <<ppc, target, notification_queue, pushes, overwriters>>
receiver == <<rpc, mode, at, todo, raced, user>>
vars     == <<queues, producer, receiver>>

Last      == Max(Queues)
Terminate == Last + 1       \* in place of an index in the notification queue

(* The length of the notification queue, the sum of the others: as many as     *)
(* there are places in all of them.                                            *)
LongestLength == Max({Length[q] : q \in Queues})            \* mutant of summedLength
Places        == UNION {{q} \X (1 .. Length[q]) : q \in Queues}
summedLength  == Cardinality(Places)

ReadyFront(q)   == data[q] # <<>> /\ Head(data[q]) = Nobody
NotifyReady     == notify # <<>> /\ Head(notify).by = Nobody
NotifyFull      == Len(notify) >= summedLength
Published(s, p) == [k \in DOMAIN s |-> IF s[k] = p THEN Nobody ELSE s[k]]

Init ==
    /\ data = [q \in Queues |-> <<>>]
    /\ hasFrontOwnership = [q \in Queues |-> FALSE]
    /\ info = [q \in Queues |-> [notifyerQueue |-> FALSE, previousData |-> 0]]
    /\ notify = <<>>
    /\ ppc = [p \in Producers |-> "idle"]
    /\ target = [p \in Producers |-> 0]
    /\ notification_queue = [p \in Producers |-> FALSE]
    /\ pushes = [p \in Producers |-> 0]
    /\ rpc = "start" /\ mode \in Modes /\ at = 0 /\ todo = 0 /\ raced = {}
    /\ overwriters \in SUBSET Overwriters[mode] /\ user = "holding"

-----------------------------------------------------------------------------
(* push(), or push_overwrite() with room: obtain a place, obtain the           *)
(* notification queue or count the value, publish the value, send the          *)
(* notification.  push_overwrite() without room: replace the last value and    *)
(* publish the new one, without counting and notification.                     *)
AfterSwapped ==                                             \* mutant of After
    [count |-> "send", send |-> "notify", notify |-> "post", post |-> "idle", replace |-> "idle"]
After ==
    [count |-> "post", post |-> "send", send |-> "notify", notify |-> "idle", replace |-> "idle"]

Step(p, from) == ppc[p] = from /\ ppc' = [ppc EXCEPT ![p] = After[from]]

(* push_overwrite() is for queues with one producer only.                     *)
PushesTo(p, q) == q \in Targets[mode][p] /\ \A o \in overwriters \ {p} : q \notin Targets[mode][o]

Call(p, q, to) ==
    /\ PushesTo(p, q)
    /\ ppc[p] = "idle" /\ pushes[p] < MaxPushes[mode][p]
    /\ ppc' = [ppc EXCEPT ![p] = to]
    /\ target' = [target EXCEPT ![p] = q]
    /\ pushes' = [pushes EXCEPT ![p] = @ + 1]
    /\ UNCHANGED <<hasFrontOwnership, info, notify, overwriters, receiver>>

Push(p, q) ==
    /\ Len(data[q]) < Length[q]
    /\ Call(p, q, "count")
    /\ data' = [data EXCEPT ![q] = Append(@, p)]
    /\ UNCHANGED notification_queue

OverwriteLast(p, q) ==
    /\ p \in overwriters
    /\ Len(data[q]) = Length[q] /\ data[q][Length[q]] = Nobody
    /\ Call(p, q, "replace")
    /\ data' = [data EXCEPT ![q][Length[q]] = p]
    /\ notification_queue' = [notification_queue EXCEPT ![p] = FALSE]

CountedTwice(n) == n + 2                                    \* mutant of Counted
Counted(n)      == n + 1

(* get_notification_queue(): a compare-exchange on both fields of info.        *)
GetNotificationQueue(p) ==
    /\ Step(p, "count")
    /\ notification_queue' = [notification_queue EXCEPT ![p] = info[target[p]].notifyerQueue]
    /\ info' = IF info[target[p]].notifyerQueue THEN info
               ELSE [info EXCEPT ![target[p]].previousData = Counted(@)]
    /\ UNCHANGED <<data, hasFrontOwnership, notify, target, pushes, overwriters, receiver>>

Post(p) ==
    /\ Step(p, "post") \/ Step(p, "replace")
    /\ data' = [data EXCEPT ![target[p]] = Published(@, p)]
    /\ UNCHANGED <<hasFrontOwnership, info, notify, target, notification_queue, pushes, overwriters, receiver>>

(* send_notification(): push the index of the queue, whether there is room or *)
(* not ...                                                                     *)
SendReserve(p) ==
    /\ notification_queue[p] /\ ~NotifyFull
    /\ Step(p, "send")
    /\ notify' = Append(notify, [id |-> target[p], by |-> p])
    /\ UNCHANGED <<data, hasFrontOwnership, info, target, notification_queue, pushes, overwriters, receiver>>

SendPublish(p) ==
    /\ Step(p, "notify")
    /\ notify' = [k \in DOMAIN notify |->
                    IF notify[k].by = p THEN [notify[k] EXCEPT !.by = Nobody] ELSE notify[k]]
    /\ UNCHANGED <<data, hasFrontOwnership, info, target, notification_queue, pushes, overwriters, receiver>>

(* ... or do nothing without a notification queue.                             *)
SendNothing(p) ==
    /\ ppc[p] = "send" /\ (notification_queue[p] => NotifyFull)
    /\ ppc' = [ppc EXCEPT ![p] = After["notify"]]
    /\ UNCHANGED <<queues, target, notification_queue, pushes, overwriters, receiver>>

PushStep(p) == \/ GetNotificationQueue(p) \/ Post(p)
               \/ SendReserve(p) \/ SendPublish(p) \/ SendNothing(p)

-----------------------------------------------------------------------------
(* The receiver.  Popping before when_any() is called counts the value down    *)
(* (decrement_previous_data_counter()), after it does not.                     *)
PopBefore(q) ==
    /\ rpc = "start" /\ ReadyFront(q)
    /\ data' = [data EXCEPT ![q] = Tail(@)]
    /\ info' = [info EXCEPT ![q].previousData = @ - 1]
    /\ UNCHANGED <<hasFrontOwnership, notify, producer, receiver>>

(* when_any(): setNotificationQueue() exchanges info and tells how many values *)
(* were counted before; one notification for each of them follows.             *)
PreviousMissesOne(q) == Max({0, info[q].previousData - 1})  \* mutant of Previous
Previous(q)          == info[q].previousData

Counting(q) == {p \in Producers : target[p] = q /\ ppc[p] = "post" /\ ~notification_queue[p]}

SetNotificationQueue ==
    /\ rpc \in {"start", "place"} /\ rpc' = "announce"
    /\ info' = [info EXCEPT ![at] = [notifyerQueue |-> TRUE, previousData |-> 0]]
    /\ todo' = Previous(at)
    /\ raced' = IF Counting(at) = {} THEN raced ELSE raced \cup {at}
    /\ UNCHANGED <<data, hasFrontOwnership, notify, producer, mode, at, user>>

Announce ==
    /\ rpc = "announce" /\ todo > 0
    /\ notify' = IF NotifyFull THEN notify ELSE Append(notify, [id |-> at, by |-> Nobody])
    /\ todo' = todo - 1
    /\ UNCHANGED <<data, hasFrontOwnership, info, producer, rpc, mode, at, raced, user>>

Announced ==
    /\ rpc = "announce" /\ todo = 0
    /\ IF at = Last THEN rpc' = "idle" /\ at' = 0 ELSE rpc' = "place" /\ at' = at + 1
    /\ UNCHANGED <<queues, producer, mode, todo, raced, user>>

(* pop_wait() on the notification queue frees its place only after the index   *)
(* has been read.                                                              *)
TakeNotification ==
    /\ NotifyReady
    /\ \/ mode = "any" /\ rpc = "idle" /\ rpc' = "any_taken"
       \/ rpc = "all_wait" /\ rpc' = "all_taken"
    /\ UNCHANGED <<queues, producer, mode, at, todo, raced, user>>

(* A receiver of when_any() then takes a value from the queue it was told.     *)
AnyRemove ==
    /\ rpc = "any_taken" /\ rpc' = "any_pop"
    /\ at' = Head(notify).id
    /\ notify' = Tail(notify)
    /\ UNCHANGED <<data, hasFrontOwnership, info, producer, mode, todo, raced, user>>

AnyPop ==
    /\ rpc = "any_pop" /\ rpc' = "idle"
    /\ ReadyFront(at)
    /\ data' = [data EXCEPT ![at] = Tail(@)]
    /\ UNCHANGED <<hasFrontOwnership, info, notify, producer, mode, at, todo, raced, user>>

(* pop_wait() on the queue of when_all(): wait for any notification and look   *)
(* whether every queue has data, until it is so.  todo = 1 marks the blocking  *)
(* call.  The termination exception leaves both loops, this one and the one of *)
(* the internal thread.                                                        *)
AllWait ==
    /\ mode \in {"all", "then"} /\ rpc = "idle" /\ rpc' = "all_wait"
    /\ todo' = 1
    /\ UNCHANGED <<queues, producer, mode, at, raced, user>>

AllRemove ==
    /\ rpc = "all_taken"
    /\ rpc' = IF Head(notify).id = Terminate THEN "exited" ELSE "all_check"
    /\ at' = 0
    /\ notify' = Tail(notify)
    /\ UNCHANGED <<data, hasFrontOwnership, info, producer, mode, todo, raced, user>>

(* pop() on that queue looks at once and does not consume a notification.      *)
AllPop ==
    /\ mode = "all" /\ rpc = "idle" /\ rpc' = "all_check"
    /\ at' = 0 /\ todo' = 0
    /\ UNCHANGED <<queues, producer, mode, raced, user>>

(* empty() on the next queue takes its front, or ends the look.                *)
AllCheck ==
    /\ rpc = "all_check"
    /\ hasFrontOwnership[at] \/ ReadyFront(at)
    /\ hasFrontOwnership' = [hasFrontOwnership EXCEPT ![at] = TRUE]
    /\ IF at = Last THEN rpc' = "all_pop" /\ at' = 0 ELSE at' = at + 1 /\ UNCHANGED rpc
    /\ UNCHANGED <<data, info, notify, producer, mode, todo, raced, user>>

AllEmpty ==
    /\ rpc = "all_check" /\ rpc' = IF todo = 1 THEN "all_wait" ELSE "idle"
    /\ ~hasFrontOwnership[at] /\ ~ReadyFront(at)
    /\ UNCHANGED <<queues, producer, mode, at, todo, raced, user>>

(* The receiver takes one value from each queue.                               *)
AllTake ==
    /\ rpc = "all_pop"
    /\ data' = [data EXCEPT ![at] = Tail(@)]
    /\ hasFrontOwnership' = [hasFrontOwnership EXCEPT ![at] = FALSE]
    /\ IF at = Last THEN rpc' = "idle" /\ at' = 0 ELSE at' = at + 1 /\ UNCHANGED rpc
    /\ UNCHANGED <<info, notify, producer, mode, todo, raced, user>>

(* free() of an asynchronous continuation of that queue: the termination       *)
(* exception goes to the notification queue, the origin of the origin.         *)
UserGoes(from, to) == mode = "then" /\ user = from /\ user' = to

Release ==
    /\ rpc \notin {"start", "place", "announce"}
    /\ UserGoes("holding", "loop")
    /\ UNCHANGED <<queues, producer, rpc, mode, at, todo, raced>>

TestTerminated ==
    /\ UserGoes("loop", IF rpc = "exited" THEN "gone" ELSE "push")
    /\ UNCHANGED <<queues, producer, rpc, mode, at, todo, raced>>

NotTerminated == notify                                     \* mutant of Terminated
Terminated    == IF NotifyFull THEN notify ELSE Append(notify, [id |-> Terminate, by |-> Nobody])

PushTermination ==
    /\ UserGoes("push", "loop")
    /\ notify' = Terminated
    /\ UNCHANGED <<data, hasFrontOwnership, info, producer, rpc, mode, at, todo, raced>>

FreeStep == TestTerminated \/ PushTermination

ReceiverStep == \/ SetNotificationQueue \/ Announce \/ Announced
                \/ TakeNotification \/ AnyRemove \/ AnyPop
                \/ AllWait \/ AllPop \/ AllRemove \/ AllCheck \/ AllEmpty \/ AllTake

Next == \/ \E p \in Producers : PushStep(p) \/ \E q \in Queues : Push(p, q) \/ OverwriteLast(p, q)
        \/ \E q \in Queues : PopBefore(q)
        \/ ReceiverStep
        \/ Release \/ FreeStep

Spec == Init /\ [][Next]_vars

(* Running calls go on; nobody is obliged to push or to call the receiver's    *)
(* functions.                                                                  *)
FairSpec ==
    /\ Spec
    /\ \A p \in Producers : WF_vars(PushStep(p))
    /\ WF_vars(rpc # "start" /\ ReceiverStep)
    /\ WF_vars(FreeStep)

-----------------------------------------------------------------------------
(* Every value is announced exactly once.  The values of a queue, those       *)
(* about to be published included, are as many as the announcements that      *)
(* exist, are being sent or made, or are counted for a when_any() to come.    *)
AtQueue(q, places) == {p \in Producers : target[p] = q /\ ppc[p] \in places}
Values(q) == Cardinality({k \in DOMAIN data[q] : data[q][k] = Nobody})
             + Cardinality(AtQueue(q, {"post", "replace"}))
Announcements(q) ==
    info[q].previousData
    + (IF rpc = "announce" /\ at = q THEN todo ELSE 0)
    + Cardinality({p \in AtQueue(q, {"post", "send"}) : notification_queue[p]})
    + Cardinality({k \in DOMAIN notify : notify[k].id = q})
    + (IF rpc = "any_pop" /\ at = q THEN 1 ELSE 0)
AnnouncedOnce == mode = "any" => \A q \in Queues : Values(q) = Announcements(q)

(* A receiver of when_any() that pops a value per notification leaves room for *)
(* every notification: none is lost in send_notification().                    *)
NotificationsFit ==
    mode = "any" /\ NotifyFull =>
        /\ rpc = "announce" => todo = 0
        /\ \A p \in Producers : ppc[p] = "send" => ~notification_queue[p]

(* The value is available when its notification is received, if the queue has *)
(* one producer, which does not overwrite, and no push was between counting    *)
(* and publishing when when_any() reached the queue.                           *)
SingleProducer(q) == \E p \in Producers \ overwriters : {o \in Producers : PushesTo(o, q)} = {p}
NotifiedAvailableUnlessRaced ==
    rpc = "any_pop" /\ SingleProducer(at) /\ at \notin raced => ReadyFront(at)

(* With several producers the front may be a place that is not yet published; *)
(* but it is a place of the queue, and its producer is about to publish it.   *)
NotifiedIsComing ==
    rpc = "any_pop" =>
        /\ data[at] # <<>>
        /\ \/ ReadyFront(at)
           \/ \E p \in AtQueue(at, {"count", "post", "replace"}) : Head(data[at]) = p

(* A receiver that waits for the value it was told of gets it.                 *)
NotifiedIsServed == rpc = "any_pop" ~> rpc # "any_pop"

(* pop_wait() on the queue of when_all() returns once every queue has data,    *)
(* although notifications are lost when the notification queue is full: if no  *)
(* push was between counting and publishing when when_all() was called, and    *)
(* each queue has one producer, which does not overwrite.  (Of two producers,  *)
(* the second may publish and notify first: that notification finds the front  *)
(* of the queue unpublished and is consumed in vain.)                          *)
Waiting  == rpc \in {"all_wait", "all_taken", "all_check"} /\ todo = 1
AllReady == \A q \in Queues : ReadyFront(q)
Orderly  == raced = {} /\ \A q \in Queues : SingleProducer(q)
AllServedUnlessRaced ==
    (Waiting /\ AllReady /\ Orderly) ~> rpc \in {"all_pop", "exited"}

(* It rests on this: a receiver that sleeps while every queue has data will be *)
(* woken up, by a notification or a push that is about to send one.            *)
NoSleepOverData ==
    rpc = "all_wait" /\ AllReady /\ Orderly =>
        \/ notify # <<>>
        \/ \E p \in Producers : ppc[p] \in {"post", "send"} /\ notification_queue[p]

(* when_all() promises it without that condition.                              *)
AllServed == (Waiting /\ AllReady) ~> rpc = "all_pop"

(* The release of a continuation of a when_all() queue terminates the internal *)
(* thread, which may be working, sleep for a notification or look at a full    *)
(* notification queue.                                                         *)
ReleaseReturns == user = "loop" ~> user = "gone"
=============================================================================
