---------------------------- MODULE Continuation ----------------------------
(* then() and free() (future_queue.hpp): a queue, the continuations of it, the *)
(* handles that share the result queue, and the release of the last of them.   *)
(* An asynchronous continuation has an internal thread that takes the elements *)
(* of its origin, gives them to the callable and pushes the results; free()    *)
(* terminates it.  A deferred continuation has a queue of length one, and      *)
(* whoever reads from that queue runs the callable: the consumer, or the       *)
(* internal thread of an asynchronous continuation of it.  The result queue    *)
(* may also be a plain queue, with handles but no continuation.                *)
(* A push and a pop of a queue is one step, as seen from the other side: what  *)
(* happens within them is in FutureQueue.                                      *)
(* Operators marked as mutants are not used by the specification.              *)
EXTENDS Integers, FiniteSets, Sequences, FiniteSetsExt

CONSTANTS
    Users,          \* who may hold a handle of the result queue
    Consumer,       \* the one that pops the results
    Policies,       \* what the result queue is: "async", "deferred", "none"
    Length,         \* size() of the queue elements are pushed to
    Depths,         \* for each, how many deferred continuations there may be
    MaxCalls,       \* bound: how many calls of push(), push_exception() and then()
    Throws          \* the elements the callable throws for

ASSUME UsersAssumption  == Consumer \in Users /\ IsFiniteSet(Users)
ASSUME PolicyAssumption == Policies \subseteq {"async", "deferred", "none"}
ASSUME LengthAssumption == Length \in Nat \ {0}
ASSUME DepthsAssumption ==
    \A p \in Policies : Depths[p] \subseteq [none |-> {0}, deferred |-> Nat \ {0}, async |-> Nat][p]
ASSUME BoundAssumption  == MaxCalls \in Nat /\ Throws \subseteq 1 .. MaxCalls

VARIABLES
    policy,         \* the launch policy, "none" without then()
    depth,          \* number of deferred continuations: queues 1 .. depth
    void,           \* void[k]: queue k is of type void
    queue,          \* queue[0]: the origin, queue[Result]: the result queue
    pushes, sent,   \* calls made, and (history) the elements that went in
    results,        \* history: what the consumer has got
    tpc, at, v,     \* the reader: where it is, queue it reads, element popped
    call,           \* the call the consumer is in, if it is the reader
    terminated,     \* continuation_process_async_terminated
    refs, deleted,  \* reference_count of the result queue's shared state
    upc, oldCount,  \* the handles, and their local of free()
    thens, stale    \* calls of then(), and (history) whether one of them found
                    \* a termination exception in its origin


config == <<policy, depth, void>>
origin == <<pushes, sent>>
reader == <<tpc, at, v, call, terminated>>
shared == <<refs, deleted>>
users  == <<upc, oldCount>>
again  == <<thens, stale>>
vars   == <<config, queue, origin, results, reader, shared, users, again>>

Item      == [kind : {"value", "exception", "terminate"}, id : Nat]
Terminate == [kind |-> "terminate", id |-> 0]
Result    == IF policy = "async" THEN depth + 1 ELSE depth
Capacity(k) == IF k \in 1 .. depth THEN 1 ELSE Length

RoomNeglected(k) == TRUE                                \* mutant of HasRoom
HasRoom(k) == Len(queue[k]) < Capacity(k)

(* push() or push_exception(), whose result the caller ignores.               *)
PushedOverwriting(k, x) ==                              \* mutant of Pushed
    [queue EXCEPT ![k] = IF HasRoom(k) THEN Append(@, x) ELSE <<x>>]
Pushed(k, x) == IF HasRoom(k) THEN [queue EXCEPT ![k] = Append(@, x)] ELSE queue
Popped(k)    == [queue EXCEPT ![k] = Tail(@)]

(* References besides those of the users: two std::functions, or a thread.    *)
OwnReferences == [none |-> 0, deferred |-> 2, async |-> 1]

NewResult ==
    /\ refs' = 1 + OwnReferences[policy] /\ deleted' = FALSE
    /\ upc' = [upc EXCEPT ![Consumer] = "then"]
    /\ oldCount' = [u \in Users \cup {"thread"} |-> 0]
    /\ terminated' = FALSE

Init ==
    /\ policy \in Policies /\ depth \in Depths[policy] /\ void \in [0 .. depth -> BOOLEAN]
    /\ queue = [k \in 0 .. Result |-> <<>>]
    /\ pushes = 0 /\ sent = <<>> /\ results = <<>>
    /\ tpc = (IF policy = "async" THEN "wait" ELSE "idle")
    /\ at = 0 /\ v = Terminate /\ call = "none" /\ terminated = FALSE
    /\ refs = Cardinality(Users) + OwnReferences[policy] /\ deleted = FALSE
    /\ upc = [u \in Users |-> "holding"] /\ oldCount = [u \in Users \cup {"thread"} |-> 0]
    /\ thens = 1 /\ stale = FALSE

-----------------------------------------------------------------------------
(* The users of the origin and of the result queue.                           *)

Push(kind) ==
    /\ pushes + thens < MaxCalls /\ tpc # "aborted"
    /\ pushes' = pushes + 1
    /\ LET x == [kind |-> kind, id |-> Len(sent) + 1]
       IN  /\ queue' = Pushed(0, x)
           /\ sent' = IF HasRoom(0) THEN Append(sent, x) ELSE sent
    /\ UNCHANGED <<config, results, reader, shared, users, again>>

(* pop() and pop_wait() on a queue that has an element, which the consumer of  *)
(* a deferred continuation has made sure of by empty() or wait().              *)
PopResult ==
    /\ upc[Consumer] = "holding" /\ call = "none" /\ queue[Result] # <<>>
    /\ results' = Append(results, Head(queue[Result]))
    /\ queue' = Popped(Result)
    /\ UNCHANGED <<config, origin, reader, shared, users, again>>

(* The consumer of a deferred continuation calls a function of the result      *)
(* queue and so becomes the reader of the queues before it.                    *)
BeginCall(f) ==
    /\ policy = "deferred" /\ upc[Consumer] = "holding"
    /\ call = "none" /\ queue[Result] = <<>>
    /\ call' = f /\ tpc' = "wait" /\ at' = 0
    /\ UNCHANGED <<config, queue, origin, results, v, terminated, shared, users, again>>

(* Copying a handle.                                                          *)
Copy(from, to) ==
    /\ upc[from] = "holding" /\ upc[to] = "gone"
    /\ upc' = [upc EXCEPT ![to] = "holding"]
    /\ refs' = refs + 1
    /\ UNCHANGED <<config, queue, origin, results, reader, deleted, oldCount, again>>

-----------------------------------------------------------------------------
(* The reader: the internal thread, or the consumer in a call.  Looking for    *)
(* an element of a deferred continuation first runs that continuation, which   *)
(* looks for an element of its own input: the reader starts at the origin and  *)
(* works its way to queue[depth].                                              *)
(* Non-void input: wait() or empty(), front() and push(), then pop().  Void    *)
(* input: pop_wait() or pop(), then push().                                    *)

Input == IF void[at] THEN v ELSE Head(queue[at])

WaitInput ==
    /\ tpc = "wait" /\ at < Result /\ queue[at] # <<>>
    /\ tpc' = "call"
    /\ IF void[at] THEN v' = Head(queue[at]) /\ queue' = Popped(at) ELSE UNCHANGED <<v, queue>>
    /\ UNCHANGED <<config, origin, results, at, call, terminated, shared, users, again>>

(* The next queue to read: the output of the continuation that has just run,   *)
(* or again the origin once the thread has put the result in the result queue. *)
ForwardToLast(k) == IF k = depth THEN depth ELSE k + 1  \* mutant of Forward
Forward(k) == IF k = depth THEN 0 ELSE k + 1

(* front() rethrows an exception of the input, the callable may throw one.     *)
OutputUnthrown(x) == [kind |-> "value", id |-> x.id]    \* mutant of Output
Output(x) == IF x.kind = "value" /\ x.id \in Throws THEN [x EXCEPT !.kind = "exception"] ELSE x

Polling == call \in {"empty", "pop"}

(* The non-blocking function for void input and other output has no handler:   *)
(* the exception leaves the call that made it, of the next continuation, and   *)
(* so on.  Of the continuations above, one from void to void catches it and    *)
(* puts it in its own queue; without any, it leaves the call of the consumer.  *)
Escapes(x) == Polling /\ void[at] /\ ~void[at + 1] /\ Output(x).kind = "exception"

Catchers   == {k \in at + 2 .. depth - 1 : void[k] /\ void[k + 1]}

Ends(x) == x.kind = "terminate" /\ at = depth

CallAndPush ==
    /\ tpc = "call" /\ ~Ends(Input) /\ ~Escapes(Input)
    /\ queue' = Pushed(at + 1, Output(Input))
    /\ IF void[at] THEN tpc' = "wait" /\ at' = Forward(at) ELSE tpc' = "pop" /\ UNCHANGED at
    /\ v' = Terminate
    /\ UNCHANGED <<config, origin, results, call, terminated, shared, users, again>>

PopInput ==
    /\ tpc = "pop" /\ tpc' = "wait"
    /\ queue' = Popped(at)
    /\ at' = Forward(at)
    /\ UNCHANGED <<config, origin, results, v, call, terminated, shared, users, again>>

(* The consumer's call ends: with an element, with an exception from inside,   *)
(* or with nothing, if it does not block.                                      *)
ReturnFromCall == call' = "none" /\ tpc' = "idle" /\ at' = 0 /\ v' = Terminate

EndCall ==
    /\ call # "none" /\ tpc = "wait" /\ at = Result
    /\ ReturnFromCall
    /\ IF call \in {"pop", "pop_wait"}
       THEN results' = Append(results, Head(queue[Result])) /\ queue' = Popped(Result)
       ELSE UNCHANGED <<results, queue>>
    /\ UNCHANGED <<config, origin, terminated, shared, users, again>>

CatchAbove(k) ==
    /\ tpc = "call" /\ Escapes(Input)
    /\ k \in Catchers /\ \A j \in Catchers : k <= j
    /\ queue' = Pushed(k + 1, Output(Input))
    /\ tpc' = "wait" /\ at' = Forward(k) /\ v' = Terminate
    /\ UNCHANGED <<config, origin, results, call, terminated, shared, users, again>>

Escape ==
    /\ tpc = "call" /\ Escapes(Input) /\ Catchers = {}
    /\ ReturnFromCall
    /\ results' = Append(results, Output(Input))
    /\ UNCHANGED <<config, queue, origin, terminated, shared, users, again>>

FindNothing ==
    /\ Polling /\ tpc = "wait" /\ at < Result /\ queue[at] = <<>>
    /\ ReturnFromCall
    /\ UNCHANGED <<config, queue, origin, results, terminated, shared, users, again>>

(* catch(TerminateInternalThread): the thread leaves its loop ...              *)
Leave ==
    /\ tpc = "call" /\ Ends(Input)
    /\ tpc' = "release"
    /\ terminated' = TRUE
    /\ UNCHANGED <<config, queue, origin, results, at, v, call, shared, users, again>>

(* ... and its handle of the result queue goes: free() in the thread.          *)
ThreadRelease ==
    /\ tpc = "release" /\ tpc' = "flags"
    /\ oldCount' = [oldCount EXCEPT !["thread"] = refs]
    /\ refs' = refs - 1
    /\ UNCHANGED <<config, queue, origin, results, at, v, call, terminated, deleted, upc, again>>

(* The last handle, apart from the own references of the continuation.         *)
LastIgnoringOwn(n) == n = OwnReferences[policy] + 2     \* mutant of IsLastUser
IsLastUser(n) == n = OwnReferences[policy] + 1

(* is_continuation_async is set when then() has started the thread.            *)
JoinsItself == IsLastUser(oldCount["thread"]) /\ upc[Consumer] # "then"

(* The end of the process: nobody goes on.                                    *)
Abort == tpc' = "aborted" /\ upc' = [u \in Users |-> "aborted"]

ThreadAborts ==
    /\ tpc = "flags" /\ JoinsItself
    /\ Abort
    /\ UNCHANGED <<config, queue, origin, results, at, v, call, terminated, shared, oldCount, again>>

ThreadExit ==
    /\ tpc = "flags" /\ ~JoinsItself
    /\ tpc' = "exited"
    /\ UNCHANGED <<config, queue, origin, results, at, v, call, terminated, shared, users, again>>

ReaderStep == \/ WaitInput \/ CallAndPush \/ PopInput \/ EndCall \/ Escape \/ FindNothing
              \/ (\E k \in Catchers : CatchAbove(k)) \/ Leave \/ ThreadRelease \/ ThreadExit \/ ThreadAborts

-----------------------------------------------------------------------------
(* free() for the handle of u.                                                *)

UserGoes(u, from, to) == upc[u] = from /\ upc' = [upc EXCEPT ![u] = to]

Release(u) ==
    /\ u = Consumer => call = "none"
    /\ UserGoes(u, "holding", "flags")
    /\ oldCount' = [oldCount EXCEPT ![u] = refs]
    /\ refs' = refs - 1
    /\ UNCHANGED <<config, queue, origin, results, reader, deleted, again>>

FirstOfLast == [none |-> "delete", deferred |-> "clear", async |-> "loop"]

TestFlags(u) ==
    /\ UserGoes(u, "flags", IF IsLastUser(oldCount[u]) THEN FirstOfLast[policy] ELSE "gone")
    /\ UNCHANGED <<config, queue, origin, results, reader, shared, oldCount, again>>

(* The functions of a deferred continuation are destroyed, each with a handle  *)
(* whose own free() finds the count too low to do anything.                    *)
ClearFunctions(u) ==
    /\ UserGoes(u, "clear", "delete")
    /\ refs' = refs - 2
    /\ UNCHANGED <<config, queue, origin, results, reader, deleted, oldCount, again>>

TestTerminated(u) ==
    /\ UserGoes(u, "loop", IF terminated THEN "delete" ELSE "push")
    /\ UNCHANGED <<config, queue, origin, results, reader, shared, oldCount, again>>

(* The termination exception goes to continuation_origin, or to the origin of  *)
(* that if it is a deferred continuation.                                      *)
OriginItself == depth                                   \* mutant of TerminationTarget
TerminationTarget == IF depth = 0 THEN 0 ELSE depth - 1

PushTermination(u) ==
    /\ UserGoes(u, "push", "loop")
    /\ queue' = Pushed(TerminationTarget, Terminate)
    /\ UNCHANGED <<config, origin, results, reader, shared, oldCount, again>>

(* A thread is joined first.  Then the shared state is deleted, unless the     *)
(* assertion fails that no reference is left.                                  *)
Joinable == policy = "async" => tpc = "exited"

AssertionFails(u) ==
    /\ upc[u] = "delete" /\ Joinable /\ refs # 0
    /\ Abort
    /\ UNCHANGED <<config, queue, origin, results, at, v, call, terminated, shared, oldCount, again>>

Delete(u) ==
    /\ Joinable /\ refs = 0
    /\ UserGoes(u, "delete", "gone")
    /\ deleted' = TRUE
    /\ UNCHANGED <<config, queue, origin, results, reader, refs, oldCount, again>>

FreeStep(u) == \/ TestFlags(u) \/ ClearFunctions(u)
               \/ TestTerminated(u) \/ PushTermination(u) \/ Delete(u) \/ AssertionFails(u)

-----------------------------------------------------------------------------
(* What is left of the elements and termination exceptions when the result     *)
(* queue is gone: the user of the origin pops them, or calls then() again.  A  *)
(* queue whose front element was not popped still has hasFrontOwnership set,   *)
(* so the new thread starts there and not at the origin.                       *)

Remaining == {k \in 0 .. depth : queue[k] # <<>>}
Start     == Max({0} \cup Remaining)
NoTermination(k) == \A i \in DOMAIN queue[k] : queue[k][i] # Terminate

PopLeftOver ==
    /\ policy = "async" /\ deleted /\ tpc = "exited" /\ Remaining # {}
    /\ queue' = Popped(Start)
    /\ UNCHANGED <<config, origin, results, reader, shared, users, again>>

ThenAgain ==
    /\ policy = "async" /\ deleted /\ tpc = "exited" /\ \A u \in Users : upc[u] = "gone"
    /\ pushes + thens < MaxCalls
    /\ thens' = thens + 1
    /\ stale' = (stale \/ \E k \in 0 .. depth : ~NoTermination(k))
    /\ NewResult
    /\ queue' = [queue EXCEPT ![Result] = <<>>]
    /\ tpc' = "wait" /\ at' = Start /\ v' = Terminate
    /\ UNCHANGED <<config, origin, results, call>>

ThenReturns ==
    /\ UserGoes(Consumer, "then", "holding")
    /\ UNCHANGED <<config, queue, origin, results, reader, shared, oldCount, again>>

Next == \/ \E kind \in {"value", "exception"} : Push(kind)
        \/ PopResult \/ PopLeftOver \/ ThenAgain \/ ThenReturns
        \/ \E f \in {"pop", "pop_wait", "empty", "wait"} : BeginCall(f)
        \/ ReaderStep
        \/ \E u \in Users : Release(u) \/ FreeStep(u) \/ \E w \in Users : Copy(u, w)

Spec == Init /\ [][Next]_vars

(* Threads keep running: the reader unless it waits for an element, the one    *)
(* inside free() unless it waits in join().                                    *)
Fairness == WF_vars(ReaderStep) /\ \A u \in Users : WF_vars(FreeStep(u))

FairSpec == Spec /\ Fairness

-----------------------------------------------------------------------------
TypeOK ==
    /\ policy \in Policies /\ depth \in Depths[policy] /\ void \in [0 .. depth -> BOOLEAN]
    /\ DOMAIN queue = 0 .. Result
    /\ \A k \in 0 .. Result : queue[k] \in Seq(Item) /\ Len(queue[k]) <= Capacity(k)
    /\ pushes \in Nat /\ sent \in Seq(Item) /\ results \in Seq(Item)
    /\ tpc \in {"idle", "wait", "call", "pop", "release", "flags", "exited", "aborted"}
    /\ at \in 0 .. depth /\ v \in Item /\ terminated \in BOOLEAN
    /\ call \in {"none", "pop", "pop_wait", "empty", "wait"}
    /\ tpc = "pop" \/ (tpc = "call" /\ ~void[at]) => queue[at] # <<>>
    /\ refs \in Nat /\ deleted \in BOOLEAN
    /\ upc \in [Users -> {"then", "holding", "flags", "clear", "loop", "push", "delete", "gone", "aborted"}]
    /\ oldCount \in [Users \cup {"thread"} -> Nat]
    /\ thens \in Nat /\ stale \in BOOLEAN

(* The consumer gets the results in the order of the elements, each at most    *)
(* once, and an exception exactly for an exception in the origin and for an    *)
(* element the callable throws for; it never gets the internal exception.      *)
Thrown(id) == id \in Throws /\ policy # "none"
ExpectedKind(id) == IF Thrown(id) THEN "exception" ELSE sent[id].kind
ResultsInOrder ==
    LET rs == results \o queue[Result]
    IN  /\ \A i \in DOMAIN rs : rs[i].id \in DOMAIN sent /\ rs[i].kind = ExpectedKind(rs[i].id)
        /\ \A i, j \in DOMAIN rs : i < j => rs[i].id < rs[j].id

(* An element that went in is lost only on a full result queue or with the     *)
(* result queue: never on its way, in the queue of a deferred continuation, by *)
(* an exception or by the termination.  (While tpc is "pop" the element at the *)
(* front has already been processed.)  This is so with at most one deferred    *)
(* continuation before an asynchronous one: with more, PushTermination fills   *)
(* the queue of one of them and takes the place of an element.                 *)
IdsOf(s) == {s[i].id : i \in DOMAIN s}
Pending(k) == IF tpc = "pop" /\ k = at THEN Tail(queue[k]) ELSE queue[k]
Underway == IdsOf(results) \cup {v.id} \cup UNION {IdsOf(Pending(k)) : k \in 0 .. Result}
LostOnlyAtFullResult ==
    [][(\E id \in DOMAIN sent : id \in Underway /\ id \notin Underway')
         => deleted \/ (policy = "async" /\ ~HasRoom(Result))]_vars

(* The shared state is deleted once, when nobody holds it or is inside a call  *)
(* and the internal thread has gone, with no reference left; the thread never  *)
(* finds itself the last user, which would make it join itself.  A then() on a *)
(* queue that still holds a termination exception breaks this: its thread may  *)
(* be gone before anybody releases a handle.                                   *)
DeletedWhenUnused ==
    \/ stale
    \/ /\ deleted => tpc \in {"idle", "exited"} /\ \A u \in Users : upc[u] \in {"gone", "flags"}
       /\ tpc # "aborted"
       /\ Cardinality({u \in Users : upc[u] \in {"clear", "loop", "push", "delete"}}) <= 1

(* Who releases the last handle gets out of free(): the termination exception  *)
(* reaches the internal thread, even if the origin is full.                    *)
ReleaseReturns ==
    \A u \in Users : upc[u] = "flags" ~> upc[u] \in {"gone", "holding", "aborted"}

(* While somebody holds the result queue every element is processed, by the    *)
(* internal thread or by the next call of the consumer, which returns.         *)
Reading == policy = "async" \/ call # "none"
ElementsProcessed ==
    queue[0] # <<>> /\ Reading ~>
        queue[0] = <<>> \/ ~Reading \/ stale \/ \A u \in Users : upc[u] # "holding"

(* free() does not look at the shared state after somebody else has deleted    *)
(* it.  With an old count of 1, 2 or 3 it reads the continuation flags.        *)
NoAccessAfterDelete ==
    \A u \in Users : upc[u] = "flags" /\ oldCount[u] \in 1 .. 3 => ~deleted

(* Only the release of its queue ends the internal thread.                     *)
EndedByRelease ==
    terminated => deleted \/ \E u \in Users : upc[u] \in {"loop", "push", "delete"}

(* An exception is thrown by pop() and pop_wait(), not by empty().             *)
EmptyThrowsNothing == [][call = "empty" => results' = results]_vars
=============================================================================
