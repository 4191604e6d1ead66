------------------------- MODULE ContinuationProofs -------------------------
(* Theorems about Continuation, for any number of handles, any number of       *)
(* deferred continuations and any queue length: the types, and the life cycle *)
(* of the shared state, that is the reference counting of free().             *)
EXTENDS Continuation, FiniteSetTheorems, WellFoundedInduction, TLAPS

-----------------------------------------------------------------------------
(* A finite non-empty set of naturals has a greatest element, so the start of  *)
(* a repeated then() is well defined.                                         *)

LEMMA LeastNatural ==
  ASSUME NEW T \in SUBSET Nat, T # {}
  PROVE  \E x \in T : \A y \in T : x <= y
<1> DEFINE R == {ss \in Nat \X Nat : ss[1] < ss[2]}
<1>1. IsWellFoundedOn(R, Nat)
  BY NatLessThanWellFounded DEF OpToRel
<1>2. \A x, y \in Nat : y < x => <<y, x>> \in R
  OBVIOUS
<1> HIDE DEF R
<1>3. PICK x \in T : \A y \in T : ~(<<y, x>> \in R)
  BY <1>1, WFMin
<1>4. ASSUME NEW y \in T PROVE x <= y
  <2>1. x \in Nat /\ y \in Nat /\ ~(y < x)
    BY <1>2, <1>3
  <2> QED BY <2>1
<1> QED BY <1>4

LEMMA GreatestBelow ==
  ASSUME NEW n \in Nat, NEW S \in SUBSET (0 .. n), S # {}
  PROVE  Max(S) \in S /\ \A y \in S : Max(S) >= y
<1> DEFINE T == {t \in Nat : n - t \in S}
<1>1. \A x \in S : n - x \in Nat /\ n - (n - x) = x
  OBVIOUS
<1>2. T # {}
  BY <1>1
<1>3. PICK t \in T : \A y \in T : t <= y
  BY <1>2, LeastNatural
<1>4. \A y \in S : t <= n - y
  BY <1>1, <1>3
<1>5. n - t \in S /\ \A y \in S : n - t >= y
  BY <1>3, <1>4
<1> QED BY <1>5 DEF Max

-----------------------------------------------------------------------------
(* The inductive invariant.                                                   *)

(* The termination exception carries no id.                                   *)
RealItem == {x \in Item : x.kind = "terminate" => x.id = 0}

QueuesOK(q) == /\ q \in [0 .. Result -> Seq(RealItem)]
               /\ \A k \in 0 .. Result : Len(q[k]) <= Capacity(k)

ReaderPcs == {"idle", "wait", "call", "pop", "release", "flags", "exited", "aborted"}
CallNames == {"none", "pop", "pop_wait", "empty", "wait"}
UserPcs   == {"then", "holding", "flags", "clear", "loop", "push", "delete", "gone", "aborted"}

Types ==
    /\ policy \in Policies /\ depth \in Depths[policy] /\ void \in [0 .. depth -> BOOLEAN]
    /\ QueuesOK(queue)
    /\ pushes \in Nat /\ sent \in Seq(Item) /\ results \in Seq(Item)
    /\ tpc \in ReaderPcs
    /\ at \in 0 .. depth /\ v \in RealItem /\ terminated \in BOOLEAN
    /\ call \in CallNames
    /\ refs \in Nat /\ deleted \in BOOLEAN
    /\ upc \in [Users -> UserPcs]
    /\ oldCount \in [Users \cup {"thread"} -> Nat]
    /\ thens \in Nat /\ stale \in BOOLEAN

(* Who reads: the internal thread of an asynchronous continuation, or the     *)
(* consumer in a call; and what it has found.                                 *)
ReaderOK ==
    /\ policy = "none" => tpc = "idle" /\ call = "none"
    /\ policy = "async" => tpc # "idle" /\ call = "none"
    /\ policy = "deferred" => /\ tpc \in {"idle", "wait", "call", "pop"}
                              /\ tpc = "idle" <=> call = "none"
    /\ call # "none" => upc[Consumer] = "holding"
    /\ tpc \in {"call", "pop"} => at < Result
    /\ tpc = "pop" \/ (tpc = "call" /\ ~void[at]) => queue[at] # <<>>
    /\ policy = "deferred" /\ ((tpc = "pop" /\ at + 1 = Result) \/ (tpc = "wait" /\ at = Result))
         => queue[Result] # <<>>

(* How far the users of the three kinds of queues get in free().              *)
UsersOK ==
    \A u \in Users :
        /\ upc[u] \in {"then", "loop", "push"} => policy = "async"
        /\ upc[u] = "then" => u = Consumer
        /\ upc[u] = "clear" => policy = "deferred"
        /\ upc[u] # "aborted"

(* The reference count: one for each handle of a user, and the references of  *)
(* the continuation itself until its functions are cleared or its thread has  *)
(* released its handle.                                                       *)
Holders == {u \in Users : upc[u] \in {"then", "holding"}}
Cleared == deleted \/ \E u \in Users : upc[u] = "delete"
Own == CASE policy = "none" -> 0
         [] policy = "deferred" -> IF Cleared THEN 0 ELSE 2
         [] policy = "async" -> IF tpc \in {"wait", "call", "pop", "release"} THEN 1 ELSE 0

RefsOK == refs = Cardinality(Holders) + Own

(* The user that has found, or is about to find, that its handle was the last *)
(* one: there is no other, there are no handles any more, and it is the only  *)
(* one that terminates the thread.                                            *)
Freeing == {"clear", "loop", "push", "delete"}
IsLast(u) == upc[u] \in Freeing \/ (upc[u] = "flags" /\ IsLastUser(oldCount[u]))
Ending == deleted \/ \E u \in Users : upc[u] \in {"loop", "push", "delete"}
HasTermination(s) == \E i \in DOMAIN s : s[i].kind = "terminate"
TerminationSeen ==
    \/ \E k \in 0 .. depth : HasTermination(queue[k])
    \/ tpc = "call" /\ void[at] /\ v.kind = "terminate"

LifeOK ==
    /\ policy # "async" => ~stale /\ ~TerminationSeen
    /\ ~stale =>
         /\ tpc # "aborted"
         /\ \A u \in Users : IsLast(u) => /\ Holders = {} /\ ~deleted
                                          /\ \A w \in Users \ {u} : ~IsLast(w)
         /\ deleted => Holders = {} /\ (policy = "async" => tpc = "exited")
         /\ tpc \in {"release", "flags", "exited"} \/ TerminationSeen => Ending
         /\ tpc = "flags" => oldCount["thread"] = 1

Working == tpc # "aborted" /\ ReaderOK /\ UsersOK /\ RefsOK /\ LifeOK
Aborted == stale /\ tpc = "aborted" /\ \A u \in Users : upc[u] = "aborted"

LifeInv == Types /\ (Working \/ Aborted)

-----------------------------------------------------------------------------
(* The queues.                                                                *)

LEMMA ConfigFacts ==
  ASSUME Types
  PROVE  /\ policy \in {"async", "deferred", "none"}
         /\ depth \in Nat /\ Result \in Nat /\ at \in 0 .. depth
         /\ policy = "async" => Result = depth + 1
         /\ policy = "deferred" => Result = depth /\ depth > 0
         /\ policy = "none" => Result = 0 /\ depth = 0
         /\ \A k \in 0 .. Result : Capacity(k) \in Nat \ {0}
<1>1. policy \in {"async", "deferred", "none"} /\ depth \in Depths[policy] /\ at \in 0 .. depth
  BY PolicyAssumption DEF Types
<1>2. depth \in Nat /\ (policy = "deferred" => depth > 0) /\ (policy = "none" => depth = 0)
  BY <1>1, DepthsAssumption DEF Types
<1> QED BY <1>1, <1>2, LengthAssumption DEF Result, Capacity

LEMMA AppendFacts ==
  ASSUME NEW s \in Seq(RealItem), NEW x \in RealItem
  PROVE  /\ Append(s, x) \in Seq(RealItem) /\ Append(s, x) # <<>> /\ Len(Append(s, x)) = Len(s) + 1
         /\ HasTermination(Append(s, x)) => HasTermination(s) \/ x.kind = "terminate"
<1>1. Append(s, x) \in Seq(RealItem) /\ Len(Append(s, x)) = Len(s) + 1 /\ Len(s) \in Nat
  OBVIOUS
<1>2. Append(s, x) # <<>>
  <2>1. Len(<<>>) = 0
    OBVIOUS
  <2> QED BY <1>1, <2>1
<1>3. ASSUME NEW i \in DOMAIN Append(s, x) PROVE Append(s, x)[i] = x \/ (i \in DOMAIN s /\ Append(s, x)[i] = s[i])
  BY <1>3
<1> QED BY <1>1, <1>2, <1>3 DEF HasTermination

LEMMA TailFacts ==
  ASSUME NEW s \in Seq(RealItem), s # <<>>
  PROVE  /\ Tail(s) \in Seq(RealItem) /\ Len(Tail(s)) = Len(s) - 1 /\ Head(s) \in RealItem
         /\ HasTermination(Tail(s)) => HasTermination(s)
         /\ Head(s).kind = "terminate" => HasTermination(s)
<1>1. Len(s) \in Nat /\ Len(s) > 0 /\ DOMAIN s = 1 .. Len(s) /\ Head(s) = s[1]
  OBVIOUS
<1>2. /\ Tail(s) \in Seq(RealItem) /\ Len(Tail(s)) = Len(s) - 1
      /\ \A i \in DOMAIN Tail(s) : i + 1 \in DOMAIN s /\ Tail(s)[i] = s[i + 1]
  BY <1>1
<1> QED BY <1>1, <1>2 DEF HasTermination

LEMMA PushedFacts ==
  ASSUME Types, NEW k \in 0 .. Result, NEW x \in RealItem
  PROVE  /\ QueuesOK(Pushed(k, x)) /\ Pushed(k, x)[k] # <<>>
         /\ \A j \in 0 .. Result : /\ j # k => Pushed(k, x)[j] = queue[j]
                                   /\ queue[j] # <<>> => Pushed(k, x)[j] # <<>>
                                   /\ HasTermination(Pushed(k, x)[j])
                                        => HasTermination(queue[j]) \/ x.kind = "terminate"
<1>1. /\ queue \in [0 .. Result -> Seq(RealItem)] /\ queue[k] \in Seq(RealItem) /\ Len(queue[k]) \in Nat
      /\ \A j \in 0 .. Result : Len(queue[j]) <= Capacity(j)
      /\ Capacity(k) \in Nat \ {0}
  <2>1. queue \in [0 .. Result -> Seq(RealItem)] /\ \A j \in 0 .. Result : Len(queue[j]) <= Capacity(j)
    BY DEF Types, QueuesOK
  <2>2. Capacity(k) \in Nat \ {0}
    BY ConfigFacts
  <2> QED BY <2>1, <2>2
<1>2. CASE HasRoom(k)
  <2>1. Pushed(k, x) = [queue EXCEPT ![k] = Append(queue[k], x)]
    BY <1>2 DEF Pushed
  <2>2. Len(Append(queue[k], x)) <= Capacity(k)
    BY <1>1, <1>2 DEF HasRoom
  <2>3. Pushed(k, x) \in [0 .. Result -> Seq(RealItem)]
    BY <1>1, <2>1, AppendFacts
  <2>4. Pushed(k, x)[k] = Append(queue[k], x) /\ \A j \in 0 .. Result : j # k => Pushed(k, x)[j] = queue[j]
    BY <1>1, <2>1
  <2> QED BY <1>1, <2>2, <2>3, <2>4, AppendFacts DEF QueuesOK
<1>3. CASE ~HasRoom(k)
  <2>1. Pushed(k, x) = queue
    BY <1>3 DEF Pushed
  <2>2. queue[k] # <<>>
    <3>1. Len(<<>>) = 0 /\ Len(queue[k]) > 0
      BY <1>1, <1>3 DEF HasRoom
    <3> QED BY <3>1
  <2> QED BY <2>1, <2>2 DEF Types
<1> QED BY <1>2, <1>3

LEMMA PoppedFacts ==
  ASSUME Types, NEW k \in 0 .. Result, queue[k] # <<>>
  PROVE  /\ QueuesOK(Popped(k)) /\ Head(queue[k]) \in RealItem
         /\ Head(queue[k]).kind = "terminate" => HasTermination(queue[k])
         /\ \A j \in 0 .. Result : /\ j # k => Popped(k)[j] = queue[j]
                                   /\ HasTermination(Popped(k)[j]) => HasTermination(queue[j])
<1>1. /\ queue \in [0 .. Result -> Seq(RealItem)] /\ queue[k] \in Seq(RealItem) /\ Len(queue[k]) \in Nat
      /\ \A j \in 0 .. Result : Len(queue[j]) <= Capacity(j)
      /\ Capacity(k) \in Nat \ {0}
  <2>1. queue \in [0 .. Result -> Seq(RealItem)] /\ \A j \in 0 .. Result : Len(queue[j]) <= Capacity(j)
    BY DEF Types, QueuesOK
  <2>2. Capacity(k) \in Nat \ {0}
    BY ConfigFacts
  <2> QED BY <2>1, <2>2
<1>2. Popped(k) = [queue EXCEPT ![k] = Tail(queue[k])]
  BY DEF Popped
<1>3. Popped(k) \in [0 .. Result -> Seq(RealItem)]
  BY <1>1, <1>2, TailFacts
<1>4. Popped(k)[k] = Tail(queue[k]) /\ \A j \in 0 .. Result : j # k => Popped(k)[j] = queue[j]
  BY <1>1, <1>2
<1>5. Len(Tail(queue[k])) <= Capacity(k)
  BY <1>1, TailFacts
<1> QED BY <1>1, <1>3, <1>4, <1>5, TailFacts DEF QueuesOK

-----------------------------------------------------------------------------
(* Types.                                                                     *)

TypesNext ==
    /\ UNCHANGED config
    /\ QueuesOK(queue')
    /\ pushes' \in Nat /\ sent' \in Seq(Item) /\ results' \in Seq(Item)
    /\ tpc' \in ReaderPcs
    /\ at' \in 0 .. depth /\ v' \in RealItem /\ terminated' \in BOOLEAN
    /\ call' \in CallNames
    /\ refs' \in Nat /\ deleted' \in BOOLEAN
    /\ upc' \in [Users -> UserPcs]
    /\ oldCount' \in [Users \cup {"thread"} -> Nat]
    /\ thens' \in Nat /\ stale' \in BOOLEAN

LEMMA TypesPrimed == ASSUME Types, TypesNext PROVE Types'
BY DEF Types, TypesNext, config, QueuesOK, Result, Capacity

LEMMA TerminateType == Terminate \in RealItem
BY DEF Terminate, RealItem, Item

LEMMA StartFacts ==
  ASSUME Types
  PROVE  Start \in 0 .. depth /\ (Remaining # {} => queue[Start] # <<>>)
<1>1. depth \in Nat /\ {0} \cup Remaining \in SUBSET (0 .. depth)
  BY ConfigFacts DEF Remaining
<1>2. Start \in {0} \cup Remaining /\ \A y \in {0} \cup Remaining : Start >= y
  BY <1>1, GreatestBelow DEF Start
<1>3. Remaining # {} => Start \in Remaining
  <2> SUFFICES ASSUME Remaining # {} PROVE Start \in Remaining
    OBVIOUS
  <2>1. PICK k \in Remaining : TRUE
    OBVIOUS
  <2>2. k \in Nat /\ Start >= k
    BY <1>1, <1>2, <2>1
  <2> QED BY <1>2, <2>1, <2>2
<1> QED BY <1>1, <1>2, <1>3 DEF Remaining

(* The element the reader is about to process.                                *)
LEMMA InputFacts ==
  ASSUME Types, Working, tpc = "call"
  PROVE  /\ at \in 0 .. Result /\ at + 1 \in 0 .. Result /\ at \in Nat
         /\ Input \in RealItem /\ Output(Input) \in RealItem
         /\ Output(Input).kind = "terminate" => Input.kind = "terminate"
         /\ Input.kind = "terminate" => TerminationSeen
         /\ ~void[at] => queue[at] # <<>>
<1>1. at \in 0 .. depth /\ depth \in Nat /\ Result \in Nat /\ at < Result /\ (~void[at] => queue[at] # <<>>)
  BY ConfigFacts DEF Working, ReaderOK
<1>2. at \in 0 .. Result /\ at + 1 \in 0 .. Result /\ at \in Nat
  BY <1>1
<1>3. Input \in RealItem /\ (Input.kind = "terminate" => TerminationSeen)
  <2>1. CASE void[at]
    BY <2>1 DEF Input, Types, TerminationSeen
  <2>2. CASE ~void[at]
    BY <1>1, <1>2, <2>2, PoppedFacts DEF Input, TerminationSeen
  <2> QED BY <2>1, <2>2
<1>4. \A x \in RealItem : Output(x) \in RealItem /\ (Output(x).kind = "terminate" => x.kind = "terminate")
  BY DEF Output, RealItem, Item
<1> QED BY <1>1, <1>2, <1>3, <1>4

(* A continuation further up that catches the exception: its output is a       *)
(* deferred continuation's queue, and the one that is read next.              *)
CatchStep == \E k \in Catchers : CatchAbove(k)

LEMMA CatcherFacts ==
  ASSUME Types, Working, NEW k \in Catchers, CatchAbove(k)
  PROVE  /\ k \in Nat /\ k >= at + 2 /\ k < depth
         /\ k + 1 \in 0 .. Result /\ k + 1 \in 0 .. depth /\ at' = k + 1
         /\ tpc = "call" /\ tpc' = "wait" /\ call # "none" /\ policy = "deferred"
         /\ queue' = Pushed(k + 1, Output(Input)) /\ v' = Terminate
<1>1. tpc = "call" /\ tpc' = "wait" /\ queue' = Pushed(k + 1, Output(Input)) /\ v' = Terminate /\ at' = Forward(k)
  BY DEF CatchAbove
<1>2. call # "none"
  BY DEF CatchAbove, Escapes, Polling
<1>3. policy = "deferred"
  BY <1>2, ConfigFacts DEF Working, ReaderOK
<1>4. at \in Nat /\ depth \in Nat /\ k \in at + 2 .. depth - 1 /\ Result = depth
  BY <1>3, ConfigFacts DEF Catchers
<1> QED BY <1>1, <1>2, <1>3, <1>4 DEF Forward

LEMMA OwnFacts ==
  ASSUME Types, Working
  PROVE  /\ Own \in Nat /\ IsFiniteSet(Holders) /\ Cardinality(Holders) \in Nat
         /\ Holders # {} => Cardinality(Holders) >= 1
         /\ \A u \in Users : upc[u] = "clear" => Own = 2 /\ policy = "deferred"
<1>1. Own \in Nat
  BY ConfigFacts DEF Own
<1>2. IsFiniteSet(Holders) /\ Cardinality(Holders) \in Nat
  BY UsersAssumption, FS_Subset, FS_CardinalityType DEF Holders
<1>3. Holders # {} => Cardinality(Holders) >= 1
  BY <1>2, FS_EmptySet
<1>4. ASSUME NEW u \in Users, upc[u] = "clear" PROVE Own = 2 /\ policy = "deferred"
  <2>1. policy = "deferred" /\ ~stale
    BY <1>4 DEF Working, UsersOK, LifeOK
  <2>2. IsLast(u)
    BY <1>4 DEF IsLast, Freeing
  <2>3. ~deleted /\ \A w \in Users : upc[w] # "delete"
    BY <1>4, <2>1, <2>2 DEF Working, LifeOK, IsLast, Freeing
  <2> QED BY <2>1, <2>3 DEF Own, Cleared
<1> QED BY <1>1, <1>2, <1>3, <1>4

LEMMA UserTypes ==
  ASSUME Types, Working, NEW u \in Users, Release(u) \/ FreeStep(u) \/ \E w \in Users : Copy(u, w)
  PROVE  TypesNext
<1> USE DEF UserGoes, config, origin, reader, shared, users, again, Types, UserPcs
<1>1. ASSUME Release(u) PROVE TypesNext
  <2>1. u \in Holders
    BY <1>1 DEF Release, Holders
  <2>2. refs - 1 \in Nat
    BY <2>1, OwnFacts DEF Working, RefsOK
  <2> QED BY <1>1, <2>2 DEF Release, TypesNext
<1>2. ASSUME NEW w \in Users, Copy(u, w) PROVE TypesNext
  BY <1>2 DEF Copy, TypesNext
<1>3. ASSUME TestFlags(u) PROVE TypesNext
  <2>1. FirstOfLast[policy] \in UserPcs
    BY ConfigFacts DEF FirstOfLast
  <2> QED BY <1>3, <2>1 DEF TestFlags, TypesNext
<1>4. ASSUME ClearFunctions(u) PROVE TypesNext
  <2>1. refs - 2 \in Nat
    BY <1>4, OwnFacts DEF ClearFunctions, Working, RefsOK
  <2> QED BY <1>4, <2>1 DEF ClearFunctions, TypesNext
<1>5. ASSUME TestTerminated(u) PROVE TypesNext
  BY <1>5 DEF TestTerminated, TypesNext
<1>6. ASSUME PushTermination(u) PROVE TypesNext
  <2>1. TerminationTarget \in 0 .. Result
    BY ConfigFacts DEF TerminationTarget
  <2>2. QueuesOK(queue')
    BY <1>6, <2>1, PushedFacts, TerminateType DEF PushTermination
  <2> QED BY <1>6, <2>2 DEF PushTermination, TypesNext
<1>7. ASSUME AssertionFails(u) PROVE TypesNext
  BY <1>7 DEF AssertionFails, Abort, TypesNext, ReaderPcs
<1>8. ASSUME Delete(u) PROVE TypesNext
  BY <1>8 DEF Delete, TypesNext
<1> QED BY <1>1, <1>2, <1>3, <1>4, <1>5, <1>6, <1>7, <1>8 DEF FreeStep

LEMMA ReaderTypes == ASSUME Types, Working, ReaderStep PROVE TypesNext
<1> USE DEF config, origin, reader, shared, users, again, Types, ReaderPcs
<1>0. /\ at \in Nat /\ depth \in Nat /\ Result \in Nat /\ depth <= Result /\ at \in 0 .. Result
      /\ TypesNext <=> /\ UNCHANGED config
                       /\ QueuesOK(queue') /\ pushes' \in Nat /\ sent' \in Seq(Item) /\ results' \in Seq(Item)
                       /\ tpc' \in ReaderPcs /\ at' \in 0 .. depth /\ v' \in RealItem /\ terminated' \in BOOLEAN
                       /\ call' \in CallNames /\ refs' \in Nat /\ deleted' \in BOOLEAN
                       /\ upc' \in [Users -> UserPcs] /\ oldCount' \in [Users \cup {"thread"} -> Nat]
                       /\ thens' \in Nat /\ stale' \in BOOLEAN
  BY ConfigFacts DEF TypesNext
<1>1. ASSUME WaitInput PROVE TypesNext
  <2>1. QueuesOK(Popped(at)) /\ Head(queue[at]) \in RealItem
    BY <1>0, <1>1, PoppedFacts DEF WaitInput
  <2> QED BY <1>1, <2>1 DEF WaitInput, TypesNext
<1>2. ASSUME CallAndPush PROVE TypesNext
  <2>1. /\ QueuesOK(queue') /\ v' \in RealItem
    BY <1>2, InputFacts, PushedFacts, TerminateType DEF CallAndPush
  <2>2. tpc' \in ReaderPcs /\ at' \in 0 .. depth
    BY <1>0, <1>2 DEF CallAndPush, Forward
  <2> QED BY <1>2, <2>1, <2>2 DEF CallAndPush, TypesNext
<1>3. ASSUME PopInput PROVE TypesNext
  <2>1. QueuesOK(queue')
    BY <1>0, <1>3, PoppedFacts DEF PopInput, Working, ReaderOK
  <2>2. tpc' \in ReaderPcs /\ at' \in 0 .. depth
    BY <1>0, <1>3 DEF PopInput, Forward
  <2> QED BY <1>3, <2>1, <2>2 DEF PopInput, TypesNext
<1>4. ReturnFromCall => call' \in CallNames /\ tpc' \in ReaderPcs /\ at' \in 0 .. depth /\ v' \in RealItem
  BY <1>0, TerminateType DEF ReturnFromCall, CallNames
<1>5. ASSUME EndCall PROVE TypesNext
  <2>1. policy = "deferred" /\ queue[Result] # <<>> /\ Result \in 0 .. Result
    BY <1>0, <1>5, ConfigFacts DEF EndCall, Working, ReaderOK
  <2>2. QueuesOK(Popped(Result)) /\ Head(queue[Result]) \in Item
    BY <2>1, PoppedFacts DEF RealItem
  <2>3. QueuesOK(queue') /\ results' \in Seq(Item)
    <3>1. CASE call \in {"pop", "pop_wait"}
      <4>1. queue' = Popped(Result) /\ results' = Append(results, Head(queue[Result]))
        BY <1>5, <3>1 DEF EndCall
      <4> QED BY <2>2, <4>1
    <3>2. CASE call \notin {"pop", "pop_wait"}
      BY <1>5, <3>2 DEF EndCall
    <3> QED BY <3>1, <3>2
  <2> QED BY <1>4, <1>5, <2>3 DEF EndCall, TypesNext
<1>6. ASSUME Escape PROVE TypesNext
  <2>1. results' \in Seq(Item)
    BY <1>6, InputFacts DEF Escape, RealItem
  <2> QED BY <1>4, <1>6, <2>1 DEF Escape, TypesNext
<1>7. ASSUME FindNothing PROVE TypesNext
  BY <1>4, <1>7 DEF FindNothing, TypesNext
<1>8. ASSUME Leave PROVE TypesNext
  BY <1>8 DEF Leave, TypesNext
<1>9. ASSUME ThreadRelease PROVE TypesNext
  <2>1. Own = 1
    BY <1>9, ConfigFacts DEF ThreadRelease, Working, ReaderOK, Own
  <2>2. refs - 1 \in Nat
    BY <2>1, OwnFacts DEF Working, RefsOK
  <2> QED BY <1>9, <2>2 DEF ThreadRelease, TypesNext
<1>10. ASSUME ThreadAborts PROVE TypesNext
  BY <1>10 DEF ThreadAborts, Abort, TypesNext, UserPcs
<1>11. ASSUME ThreadExit PROVE TypesNext
  BY <1>11 DEF ThreadExit, TypesNext
<1>12. ASSUME NEW k \in Catchers, CatchAbove(k) PROVE TypesNext
  <2>1. QueuesOK(queue') /\ v' \in RealItem /\ at' \in 0 .. depth /\ tpc' \in ReaderPcs
    BY <1>12, CatcherFacts, InputFacts, PushedFacts, TerminateType
  <2> QED BY <1>12, <2>1 DEF CatchAbove, TypesNext
<1> QED BY <1>1, <1>2, <1>3, <1>5, <1>6, <1>7, <1>8, <1>9, <1>10, <1>11, <1>12 DEF ReaderStep

OuterStep ==
    \/ \E kind \in {"value", "exception"} : Push(kind)
    \/ PopResult \/ PopLeftOver \/ ThenAgain \/ ThenReturns
    \/ \E f \in {"pop", "pop_wait", "empty", "wait"} : BeginCall(f)

LEMMA OuterTypes == ASSUME Types, Working, OuterStep PROVE TypesNext
<1> USE DEF UserGoes, config, origin, reader, shared, users, again, Types, ReaderPcs, UserPcs, CallNames
<1>1. ASSUME NEW kind \in {"value", "exception"}, Push(kind) PROVE TypesNext
  <2> DEFINE x == [kind |-> kind, id |-> Len(sent) + 1]
  <2>1. x \in RealItem /\ x \in Item
    BY DEF RealItem, Item
  <2>2. 0 \in 0 .. Result
    BY ConfigFacts
  <2>3. QueuesOK(queue')
    BY <1>1, <2>1, <2>2, PushedFacts DEF Push
  <2>4. sent' \in Seq(Item) /\ pushes' \in Nat
    BY <1>1, <2>1 DEF Push
  <2> QED BY <1>1, <2>3, <2>4 DEF Push, TypesNext
<1>2. ASSUME PopResult PROVE TypesNext
  <2>1. Result \in 0 .. Result
    BY ConfigFacts
  <2>2. QueuesOK(Popped(Result)) /\ Head(queue[Result]) \in Item
    BY <1>2, <2>1, PoppedFacts DEF PopResult, RealItem
  <2> QED BY <1>2, <2>2 DEF PopResult, TypesNext
<1>3. ASSUME PopLeftOver PROVE TypesNext
  <2>1. Start \in 0 .. Result /\ queue[Start] # <<>>
    BY <1>3, StartFacts, ConfigFacts DEF PopLeftOver
  <2>2. QueuesOK(Popped(Start))
    BY <2>1, PoppedFacts
  <2> QED BY <1>3, <2>2 DEF PopLeftOver, TypesNext
<1>4. ASSUME ThenAgain PROVE TypesNext
  <2>1. queue' = [queue EXCEPT ![Result] = <<>>] /\ <<>> \in Seq(RealItem) /\ Len(<<>>) = 0
    BY <1>4 DEF ThenAgain
  <2>2. \A k \in 0 .. Result : Capacity(k) \in Nat
    BY ConfigFacts
  <2>3. QueuesOK(queue')
    <3>1. queue \in [0 .. Result -> Seq(RealItem)] /\ \A k \in 0 .. Result : Len(queue[k]) <= Capacity(k)
      BY DEF QueuesOK
    <3>2. queue' \in [0 .. Result -> Seq(RealItem)]
      BY <2>1, <3>1
    <3>3. \A k \in 0 .. Result : queue'[k] = queue[k] \/ queue'[k] = <<>>
      BY <2>1, <3>1
    <3> QED BY <2>1, <2>2, <3>1, <3>2, <3>3 DEF QueuesOK
  <2>4. refs' \in Nat
    <3>1. refs' = 1 + OwnReferences[policy]
      BY <1>4 DEF ThenAgain, NewResult
    <3> QED BY <3>1, ConfigFacts DEF OwnReferences
  <2>5. upc' \in [Users -> UserPcs] /\ oldCount' \in [Users \cup {"thread"} -> Nat]
    BY <1>4 DEF ThenAgain, NewResult
  <2>6. stale' \in BOOLEAN /\ thens' \in Nat
    BY <1>4 DEF ThenAgain
  <2>7. at' \in 0 .. depth /\ v' \in RealItem
    BY <1>4, StartFacts, TerminateType DEF ThenAgain
  <2> QED BY <1>4, <2>3, <2>4, <2>5, <2>6, <2>7 DEF ThenAgain, NewResult, TypesNext
<1>5. ASSUME ThenReturns PROVE TypesNext
  BY <1>5 DEF ThenReturns, TypesNext
<1>6. ASSUME NEW f \in {"pop", "pop_wait", "empty", "wait"}, BeginCall(f) PROVE TypesNext
  <2>1. 0 \in 0 .. depth
    BY ConfigFacts
  <2> QED BY <1>6, <2>1 DEF BeginCall, TypesNext
<1> QED BY <1>1, <1>2, <1>3, <1>4, <1>5, <1>6 DEF OuterStep

-----------------------------------------------------------------------------
(* Who reads, and who frees.                                                  *)

ReaderNext ==
    /\ policy = "none" => tpc' = "idle" /\ call' = "none"
    /\ policy = "async" => tpc' # "idle" /\ call' = "none"
    /\ policy = "deferred" => /\ tpc' \in {"idle", "wait", "call", "pop"}
                              /\ tpc' = "idle" <=> call' = "none"
    /\ call' # "none" => upc'[Consumer] = "holding"
    /\ tpc' \in {"call", "pop"} => at' < Result
    /\ tpc' = "pop" \/ (tpc' = "call" /\ ~void[at']) => queue'[at'] # <<>>
    /\ policy = "deferred" /\ ((tpc' = "pop" /\ at' + 1 = Result) \/ (tpc' = "wait" /\ at' = Result))
         => queue'[Result] # <<>>

LEMMA ReaderPrimed == ASSUME ReaderNext, UNCHANGED config PROVE ReaderOK'
BY DEF ReaderNext, ReaderOK, Result, config

LEMMA ReaderReader ==
  ASSUME Types, Working, ReaderStep, ~ThreadAborts
  PROVE  ReaderNext
<1> USE DEF config, origin, reader, shared, users, again
<1>0. /\ ReaderOK /\ at \in 0 .. depth /\ at \in Nat /\ depth \in Nat /\ Result \in Nat /\ depth <= Result
      /\ at \in 0 .. Result /\ Result \in 0 .. Result /\ policy \in {"async", "deferred", "none"}
      /\ policy = "async" => depth < Result
      /\ policy = "deferred" => Result = depth /\ depth > 0
      /\ upc \in [Users -> UserPcs] /\ tpc \in ReaderPcs
  BY ConfigFacts DEF Working, Types
<1>1. ASSUME WaitInput PROVE ReaderNext
  <2>1. tpc = "wait" /\ tpc' = "call" /\ UNCHANGED <<at, call, upc>> /\ at < Result /\ queue[at] # <<>>
    BY <1>1 DEF WaitInput
  <2>2. ~void[at] => queue' = queue
    BY <1>1 DEF WaitInput
  <2> QED BY <1>0, <2>1, <2>2 DEF ReaderOK, ReaderNext
<1>2. ASSUME CallAndPush PROVE ReaderNext
  <2>1. /\ tpc = "call" /\ UNCHANGED <<call, upc>> /\ at < Result
        /\ IF void[at] THEN tpc' = "wait" /\ at' = Forward(at) ELSE tpc' = "pop" /\ at' = at
    BY <1>0, <1>2 DEF CallAndPush, ReaderOK
  <2>2. queue'[at + 1] # <<>> /\ (queue[at] # <<>> => queue'[at] # <<>>)
    <3>1. queue' = Pushed(at + 1, Output(Input))
      BY <1>2 DEF CallAndPush
    <3>2. at + 1 \in 0 .. Result /\ Output(Input) \in RealItem
      BY <2>1, InputFacts
    <3> QED BY <1>0, <3>1, <3>2, PushedFacts
  <2>3. policy = "deferred" /\ Forward(at) = Result => at + 1 = Result
    BY <1>0, <2>1 DEF Forward
  <2> QED BY <1>0, <2>1, <2>2, <2>3 DEF ReaderOK, ReaderNext
<1>3. ASSUME PopInput PROVE ReaderNext
  <2>1. tpc = "pop" /\ tpc' = "wait" /\ at' = Forward(at) /\ UNCHANGED <<call, upc>> /\ at < Result
    BY <1>0, <1>3 DEF PopInput, ReaderOK
  <2>2. policy = "deferred" /\ Forward(at) = Result => at + 1 = Result
    BY <1>0, <2>1 DEF Forward
  <2>3. queue'[Result] = queue[Result]
    BY <1>0, <1>3, <2>1, PoppedFacts DEF PopInput, ReaderOK
  <2> QED BY <1>0, <2>1, <2>2, <2>3 DEF ReaderOK, ReaderNext
<1>4. ASSUME ReturnFromCall, call # "none" PROVE ReaderNext
  <2>1. policy = "deferred"
    BY <1>0, <1>4 DEF ReaderOK
  <2> QED BY <1>0, <1>4, <2>1 DEF ReturnFromCall, ReaderNext
<1>5. EndCall \/ Escape \/ FindNothing => ReturnFromCall /\ call # "none"
  BY DEF EndCall, Escape, Escapes, FindNothing, Polling
<1>6. ASSUME Leave PROVE ReaderNext
  <2>1. policy = "async"
    <3>1. Input.kind = "terminate" /\ tpc = "call"
      BY <1>6 DEF Leave, Ends
    <3>2. TerminationSeen
      BY <3>1, InputFacts
    <3> QED BY <3>2 DEF Working, LifeOK
  <2> QED BY <1>0, <1>6, <2>1 DEF Leave, ReaderOK, ReaderNext
<1>7. ASSUME ThreadRelease \/ ThreadExit PROVE ReaderNext
  BY <1>0, <1>7 DEF ThreadRelease, ThreadExit, ReaderOK, ReaderNext
<1>8. ASSUME NEW k \in Catchers, CatchAbove(k) PROVE ReaderNext
  <2>1. /\ k + 1 \in 0 .. Result /\ tpc = "call" /\ tpc' = "wait" /\ policy = "deferred" /\ at' = k + 1
        /\ queue' = Pushed(k + 1, Output(Input)) /\ UNCHANGED <<call, upc>>
    BY <1>8, CatcherFacts DEF CatchAbove
  <2>2. queue'[k + 1] # <<>>
    BY <2>1, InputFacts, PushedFacts
  <2> QED BY <1>0, <2>1, <2>2 DEF ReaderOK, ReaderNext
<1> QED BY <1>1, <1>2, <1>3, <1>4, <1>5, <1>6, <1>7, <1>8 DEF ReaderStep

LEMMA ReaderOuter ==
  ASSUME Types, Working, OuterStep
  PROVE  ReaderNext
<1> USE DEF config, origin, reader, shared, users, again, UserGoes
<1>0. /\ ReaderOK /\ at \in 0 .. Result /\ 0 \in 0 .. Result /\ policy \in {"async", "deferred", "none"}
      /\ Result \in 0 .. Result /\ (policy = "deferred" => Result > 0)
      /\ upc \in [Users -> UserPcs] /\ Consumer \in Users /\ QueuesOK(queue)
  BY ConfigFacts, UsersAssumption DEF Working, Types
<1>1. ASSUME NEW kind \in {"value", "exception"}, Push(kind) PROVE ReaderNext
  <2> DEFINE x == [kind |-> kind, id |-> Len(sent) + 1]
  <2>1. x \in RealItem
    BY DEF RealItem, Item, Types
  <2>2. \A j \in 0 .. Result : queue[j] # <<>> => queue'[j] # <<>>
    BY <1>0, <1>1, <2>1, PushedFacts DEF Push
  <2> QED BY <1>0, <1>1, <2>2 DEF Push, ReaderOK, ReaderNext
<1>2. ASSUME PopResult PROVE ReaderNext
  <2>1. call = "none" /\ UNCHANGED <<tpc, at, call, upc>> /\ queue' = Popped(Result) /\ queue[Result] # <<>>
    BY <1>2 DEF PopResult
  <2>2. policy = "async" /\ tpc \in {"call", "pop"} => queue'[at] = queue[at]
    BY <1>0, <2>1, PoppedFacts DEF ReaderOK
  <2> QED BY <1>0, <2>1, <2>2 DEF ReaderOK, ReaderNext
<1>3. ASSUME PopLeftOver PROVE ReaderNext
  BY <1>0, <1>3 DEF PopLeftOver, ReaderOK, ReaderNext
<1>4. ASSUME ThenAgain PROVE ReaderNext
  BY <1>0, <1>4 DEF ThenAgain, ReaderOK, ReaderNext
<1>5. ASSUME ThenReturns PROVE ReaderNext
  BY <1>0, <1>5 DEF ThenReturns, ReaderOK, ReaderNext
<1>6. ASSUME NEW f \in {"pop", "pop_wait", "empty", "wait"}, BeginCall(f) PROVE ReaderNext
  BY <1>0, <1>6 DEF BeginCall, ReaderOK, ReaderNext
<1> QED BY <1>1, <1>2, <1>3, <1>4, <1>5, <1>6 DEF OuterStep

LEMMA ReaderUser ==
  ASSUME Types, Working, NEW u \in Users,
         Release(u) \/ FreeStep(u) \/ \E w \in Users : Copy(u, w), ~AssertionFails(u)
  PROVE  ReaderNext
<1> USE DEF config, origin, reader, shared, users, again, UserGoes
<1>0. /\ ReaderOK /\ at \in 0 .. Result
      /\ upc \in [Users -> UserPcs] /\ Consumer \in Users
  BY ConfigFacts, UsersAssumption DEF Working, Types
<1>1. UNCHANGED <<tpc, at, call>>
  BY DEF Release, FreeStep, Copy, TestFlags, ClearFunctions, TestTerminated, PushTermination, Delete
<1>2. call # "none" => upc'[Consumer] = upc[Consumer]
  <2>1. ASSUME Release(u) \/ FreeStep(u), call # "none" PROVE u # Consumer /\ \E x : upc' = [upc EXCEPT ![u] = x]
    BY <1>0, <2>1 DEF Release, FreeStep, TestFlags, ClearFunctions, TestTerminated, PushTermination, Delete, ReaderOK
  <2>2. ASSUME NEW w \in Users, Copy(u, w), call # "none" PROVE upc'[Consumer] = upc[Consumer]
    BY <1>0, <2>2 DEF Copy, ReaderOK
  <2> QED BY <1>0, <2>1, <2>2
<1>3. \A j \in 0 .. Result : queue[j] # <<>> => queue'[j] # <<>>
  <2>1. CASE PushTermination(u)
    <3>1. TerminationTarget \in 0 .. Result
      BY ConfigFacts DEF TerminationTarget
    <3> QED BY <2>1, <3>1, PushedFacts, TerminateType DEF PushTermination
  <2>2. CASE ~PushTermination(u)
    BY <2>2 DEF Release, FreeStep, Copy, TestFlags, ClearFunctions, TestTerminated, Delete
  <2> QED BY <2>1, <2>2
<1>4. Result \in 0 .. Result
  BY ConfigFacts
<1> QED BY <1>0, <1>1, <1>2, <1>3, <1>4 DEF ReaderOK, ReaderNext

-----------------------------------------------------------------------------
(* The reference count and the end of the shared state.                       *)

Running == {"wait", "call", "pop", "release"}
Stopping == {"release", "flags", "exited"}

(* A step that neither releases nor copies a handle, and passes no new        *)
(* termination exception.                                                     *)
LEMMA LifeStays ==
  ASSUME Types, Working, UNCHANGED <<config, refs, deleted, stale, oldCount>>,
         \A u \in Users : upc'[u] = upc[u] \/ (upc[u] = "then" /\ upc'[u] = "holding"),
         tpc' # "aborted", TerminationSeen' => TerminationSeen,
         policy = "async" => (tpc \in Running <=> tpc' \in Running),
         tpc' \in Stopping => tpc \in Stopping \/ TerminationSeen,
         tpc' = "flags" => tpc = "flags", tpc = "exited" => tpc' = "exited"
  PROVE  UsersOK' /\ RefsOK' /\ LifeOK'
<1> USE DEF Running, Stopping, config, Working
<1>1. UsersOK'
  BY DEF UsersOK
<1>2. Holders' = Holders /\ Cleared' = Cleared /\ Ending' = Ending /\ \A u \in Users : IsLast(u)' = IsLast(u)
  BY DEF Holders, Cleared, Ending, IsLast, IsLastUser, Freeing
<1>3. Own' = Own
  BY <1>2, ConfigFacts DEF Own
<1>4. RefsOK'
  BY <1>2, <1>3 DEF RefsOK
<1>5. LifeOK'
  BY <1>2 DEF LifeOK
<1> QED BY <1>1, <1>4, <1>5

LEMMA ReaderLife ==
  ASSUME Types, Working, ReaderStep, ~ThreadAborts, ~ThreadRelease
  PROVE  UsersOK' /\ RefsOK' /\ LifeOK'
<1> USE DEF origin, reader, shared, users, again, Running, Stopping
<1>0. /\ ReaderOK /\ at \in 0 .. depth /\ at \in Nat /\ depth \in Nat /\ Result \in Nat /\ depth <= Result
      /\ at \in 0 .. Result /\ policy \in {"async", "deferred", "none"}
      /\ \A k \in 0 .. depth : k \in 0 .. Result
  BY ConfigFacts DEF Working
<1>1. /\ UNCHANGED <<config, refs, deleted, stale, oldCount, upc>>
      /\ tpc' # "aborted"
      /\ policy = "async" => (tpc \in Running <=> tpc' \in Running)
      /\ tpc' = "flags" => tpc = "flags"
      /\ tpc = "exited" => tpc' = "exited"
  <2>1. EndCall \/ Escape \/ FindNothing \/ CatchStep => policy # "async"
    BY <1>0 DEF EndCall, Escape, CatchStep, CatchAbove, Escapes, FindNothing, Polling, ReaderOK
  <2> QED BY <2>1 DEF ReaderStep, WaitInput, CallAndPush, PopInput, EndCall, Escape, FindNothing, ReturnFromCall,
              Leave, ThreadExit, CatchStep, CatchAbove
<1>2. tpc' \in Stopping => tpc \in Stopping \/ TerminationSeen
  <2>1. Leave => TerminationSeen
    <3>1. Leave => tpc = "call" /\ Input.kind = "terminate"
      BY DEF Leave, Ends
    <3> QED BY <3>1, InputFacts
  <2> QED BY <2>1 DEF ReaderStep, WaitInput, CallAndPush, PopInput, EndCall, Escape, FindNothing, ReturnFromCall,
              ThreadExit, CatchAbove
<1>3. TerminationSeen' => TerminationSeen
  <2>0. UNCHANGED <<depth, void>>
    BY <1>1 DEF config
  <2>1. ASSUME WaitInput PROVE TerminationSeen' => TerminationSeen
    <3>1. /\ queue[at] # <<>> /\ at' = at
          /\ IF void[at] THEN v' = Head(queue[at]) /\ queue' = Popped(at) ELSE v' = v /\ queue' = queue
      BY <2>1 DEF WaitInput
    <3>2. \A k \in 0 .. depth : HasTermination(queue'[k]) => HasTermination(queue[k])
      BY <1>0, <3>1, PoppedFacts
    <3>3. void[at] /\ v'.kind = "terminate" => HasTermination(queue[at])
      BY <1>0, <3>1, PoppedFacts
    <3> QED BY <1>0, <2>0, <3>1, <3>2, <3>3 DEF TerminationSeen
  <2>2. ASSUME CallAndPush PROVE TerminationSeen' => TerminationSeen
    <3>1. tpc = "call" /\ queue' = Pushed(at + 1, Output(Input)) /\ tpc' # "call"
      BY <2>2 DEF CallAndPush
    <3>2. \A k \in 0 .. depth : HasTermination(queue'[k]) => HasTermination(queue[k]) \/ Input.kind = "terminate"
      BY <1>0, <3>1, InputFacts, PushedFacts
    <3> QED BY <2>0, <3>1, <3>2, InputFacts DEF TerminationSeen
  <2>3. ASSUME PopInput PROVE TerminationSeen' => TerminationSeen
    <3>1. tpc = "pop" /\ queue' = Popped(at) /\ tpc' # "call" /\ queue[at] # <<>>
      BY <1>0, <2>3 DEF PopInput, ReaderOK
    <3>2. \A k \in 0 .. depth : HasTermination(queue'[k]) => HasTermination(queue[k])
      BY <1>0, <3>1, PoppedFacts
    <3> QED BY <2>0, <3>1, <3>2 DEF TerminationSeen
  <2>4. ASSUME EndCall PROVE TerminationSeen' => TerminationSeen
    <3>1. /\ tpc' # "call" /\ (queue' = Popped(Result) \/ queue' = queue)
          /\ Result \in 0 .. Result
      BY <1>0, <2>4 DEF EndCall, ReturnFromCall
    <3>2. queue[Result] # <<>>
      BY <1>0, <2>4 DEF EndCall, ReaderOK
    <3>3. \A k \in 0 .. depth : HasTermination(queue'[k]) => HasTermination(queue[k])
      BY <1>0, <3>1, <3>2, PoppedFacts
    <3> QED BY <2>0, <2>4, <3>3 DEF TerminationSeen, EndCall, ReturnFromCall
  <2>5. ASSUME Escape \/ FindNothing \/ Leave \/ ThreadExit PROVE TerminationSeen' => TerminationSeen
    <3>1. queue' = queue /\ tpc' # "call"
      BY <2>5 DEF Escape, FindNothing, ReturnFromCall, Leave, ThreadExit
    <3> QED BY <2>0, <3>1 DEF TerminationSeen
  <2>6. ASSUME NEW k \in Catchers, CatchAbove(k) PROVE TerminationSeen' => TerminationSeen
    <3>1. k + 1 \in 0 .. Result /\ tpc = "call" /\ queue' = Pushed(k + 1, Output(Input)) /\ tpc' # "call"
      BY <2>6, CatcherFacts
    <3>2. \A j \in 0 .. depth : HasTermination(queue'[j]) => HasTermination(queue[j]) \/ Input.kind = "terminate"
      BY <1>0, <3>1, InputFacts, PushedFacts
    <3> QED BY <2>0, <3>1, <3>2, InputFacts DEF TerminationSeen
  <2> QED BY <2>1, <2>2, <2>3, <2>4, <2>5, <2>6 DEF ReaderStep
<1> QED BY <1>1, <1>2, <1>3, LifeStays

LEMMA OuterLife ==
  ASSUME Types, Working, OuterStep, ~ThenAgain
  PROVE  UsersOK' /\ RefsOK' /\ LifeOK'
<1> USE DEF origin, reader, shared, users, again, UserGoes
<1>0. /\ ReaderOK /\ depth \in Nat /\ Result \in Nat /\ 0 \in 0 .. Result /\ Result \in 0 .. Result
      /\ \A k \in 0 .. depth : k \in 0 .. Result
      /\ upc \in [Users -> UserPcs]
  BY ConfigFacts DEF Working, Types
<1>1. /\ UNCHANGED <<config, refs, deleted, stale, oldCount>>
      /\ \A u \in Users : upc'[u] = upc[u] \/ (upc[u] = "then" /\ upc'[u] = "holding")
  BY <1>0 DEF OuterStep, Push, PopResult, PopLeftOver, ThenReturns, BeginCall
<1>2. UNCHANGED tpc \/ (policy = "deferred" /\ tpc = "idle" /\ tpc' = "wait")
  BY <1>0 DEF OuterStep, Push, PopResult, PopLeftOver, ThenReturns, BeginCall, ReaderOK
<1>3. UNCHANGED <<depth, void>>
  BY <1>1 DEF config
<1>4. ASSUME \A k \in 0 .. depth : HasTermination(queue'[k]) => HasTermination(queue[k]), UNCHANGED <<tpc, at, v>>
      PROVE  TerminationSeen' => TerminationSeen
  BY <1>3, <1>4 DEF TerminationSeen
<1>5. TerminationSeen' => TerminationSeen
  <2>1. ASSUME NEW kind \in {"value", "exception"}, Push(kind) PROVE TerminationSeen' => TerminationSeen
    <3> DEFINE x == [kind |-> kind, id |-> Len(sent) + 1]
    <3>1. x \in RealItem /\ x.kind # "terminate"
      BY DEF RealItem, Item, Types
    <3>2. \A k \in 0 .. depth : HasTermination(queue'[k]) => HasTermination(queue[k])
      BY <1>0, <2>1, <3>1, PushedFacts DEF Push
    <3> QED BY <1>4, <2>1, <3>2 DEF Push
  <2>2. ASSUME PopResult PROVE TerminationSeen' => TerminationSeen
    <3>1. \A k \in 0 .. depth : HasTermination(queue'[k]) => HasTermination(queue[k])
      BY <1>0, <2>2, PoppedFacts DEF PopResult
    <3> QED BY <1>4, <2>2, <3>1 DEF PopResult
  <2>3. ASSUME PopLeftOver PROVE TerminationSeen' => TerminationSeen
    <3>1. Start \in 0 .. Result /\ queue[Start] # <<>>
      BY <1>0, <2>3, StartFacts DEF PopLeftOver
    <3>2. \A k \in 0 .. depth : HasTermination(queue'[k]) => HasTermination(queue[k])
      BY <1>0, <2>3, <3>1, PoppedFacts DEF PopLeftOver
    <3> QED BY <1>4, <2>3, <3>2 DEF PopLeftOver
  <2>4. ASSUME ThenReturns PROVE TerminationSeen' => TerminationSeen
    BY <1>4, <2>4 DEF ThenReturns
  <2>5. ASSUME NEW f \in {"pop", "pop_wait", "empty", "wait"}, BeginCall(f) PROVE TerminationSeen' => TerminationSeen
    BY <1>3, <2>5 DEF BeginCall, TerminationSeen
  <2> QED BY <2>1, <2>2, <2>3, <2>4, <2>5 DEF OuterStep
<1>6. tpc # "aborted"
  BY DEF Working
<1> QED BY <1>1, <1>2, <1>5, <1>6, LifeStays DEF Running, Stopping

(* With a handle left nobody has found that its handle was the last, and the  *)
(* continuation has all its own references.                                   *)
LEMMA WhileHeld ==
  ASSUME Types, Working, ~stale, Holders # {}
  PROVE  /\ ~deleted /\ \A w \in Users : ~IsLast(w)
         /\ tpc \notin Stopping /\ ~TerminationSeen
         /\ Own = OwnReferences[policy]
<1>0. LifeOK /\ ReaderOK /\ tpc \in ReaderPcs /\ tpc # "aborted"
  BY DEF Working, Types
<1>1. ~deleted /\ \A w \in Users : ~IsLast(w)
  BY <1>0 DEF LifeOK
<1>2. ~Ending /\ ~Cleared
  BY <1>1 DEF Ending, Cleared, IsLast, Freeing
<1>3. tpc \notin Stopping /\ ~TerminationSeen
  BY <1>0, <1>2 DEF LifeOK, Stopping
<1>4. policy = "async" => tpc \in Running
  BY <1>0, <1>3 DEF ReaderOK, ReaderPcs, Running, Stopping
<1>5. Own = OwnReferences[policy]
  BY <1>2, <1>4, ConfigFacts DEF Own, OwnReferences, Running
<1> QED BY <1>1, <1>3, <1>5

(* Own changes only with these.                                               *)
LEMMA OwnKept ==
  ASSUME Types, UNCHANGED <<policy, tpc>>, policy = "deferred" => Cleared' = Cleared
  PROVE  Own' = Own
BY ConfigFacts DEF Own

LEMMA ReleaseLife ==
  ASSUME Types, Working, NEW u \in Users, Release(u)
  PROVE  UsersOK' /\ RefsOK' /\ LifeOK'
<1> USE DEF config, origin, reader, shared, users, again, UserGoes
<1>1. /\ upc[u] = "holding" /\ upc' = [upc EXCEPT ![u] = "flags"]
      /\ oldCount' = [oldCount EXCEPT ![u] = refs] /\ refs' = refs - 1
      /\ UNCHANGED <<policy, depth, void, queue, tpc, at, v, deleted, stale>>
      /\ upc \in [Users -> UserPcs] /\ oldCount \in [Users \cup {"thread"} -> Nat] /\ refs \in Nat
      /\ UsersOK /\ RefsOK /\ LifeOK
  BY DEF Release, Types, Working
<1>2. upc'[u] = "flags" /\ \A w \in Users \ {u} : upc'[w] = upc[w] /\ oldCount'[w] = oldCount[w]
  BY <1>1
<1>3. UsersOK'
  BY <1>1, <1>2 DEF UsersOK
<1>4. u \in Holders /\ Holders' = Holders \ {u}
  BY <1>1, <1>2 DEF Holders
<1>5. Cardinality(Holders') = Cardinality(Holders) - 1
  BY <1>4, OwnFacts, FS_RemoveElement
<1>6. Cleared' = Cleared /\ Ending' = Ending /\ TerminationSeen' = TerminationSeen
  BY <1>1, <1>2 DEF Cleared, Ending, TerminationSeen
<1>7. RefsOK'
  <2>1. Own' = Own
    BY <1>1, <1>6, OwnKept
  <2> QED BY <1>1, <1>5, <2>1, OwnFacts DEF RefsOK
<1>8. LifeOK'
  <2>1. CASE stale
    BY <1>1, <1>6, <2>1 DEF LifeOK
  <2>2. CASE ~stale
    <3>1. /\ ~deleted /\ \A w \in Users : ~IsLast(w)
          /\ tpc \notin Stopping /\ ~TerminationSeen
          /\ Own = OwnReferences[policy]
      BY <1>4, <2>2, WhileHeld
    <3>2. \A w \in Users \ {u} : ~IsLast(w)'
      BY <1>1, <1>2, <3>1 DEF IsLast, IsLastUser
    <3>3. ASSUME IsLast(u)' PROVE Holders' = {}
      <4>1. oldCount'[u] = refs /\ refs = OwnReferences[policy] + 1
        BY <1>1, <1>2, <3>3 DEF IsLast, IsLastUser, Freeing
      <4>2. Cardinality(Holders') = 0
        BY <1>1, <1>5, <3>1, <4>1, OwnFacts DEF RefsOK
      <4>3. IsFiniteSet(Holders')
        BY <1>4, OwnFacts, FS_Subset
      <4> QED BY <4>2, <4>3, FS_EmptySet
    <3>4. tpc # "aborted"
      BY <1>1, <2>2 DEF LifeOK
    <3> QED BY <1>1, <1>6, <2>2, <3>1, <3>2, <3>3, <3>4 DEF LifeOK, Stopping
  <2> QED BY <2>1, <2>2
<1> QED BY <1>3, <1>7, <1>8

LEMMA CopyLife ==
  ASSUME Types, Working, NEW u \in Users, NEW to \in Users, Copy(u, to)
  PROVE  UsersOK' /\ RefsOK' /\ LifeOK'
<1> USE DEF config, origin, reader, shared, users, again
<1>1. /\ upc[u] = "holding" /\ upc[to] = "gone" /\ upc' = [upc EXCEPT ![to] = "holding"]
      /\ refs' = refs + 1
      /\ UNCHANGED <<policy, depth, void, queue, tpc, at, v, deleted, oldCount, stale>>
      /\ upc \in [Users -> UserPcs] /\ refs \in Nat
      /\ UsersOK /\ RefsOK /\ LifeOK
  BY DEF Copy, Types, Working
<1>2. upc'[to] = "holding" /\ \A w \in Users \ {to} : upc'[w] = upc[w]
  BY <1>1
<1>3. UsersOK'
  BY <1>1, <1>2 DEF UsersOK
<1>4. u \in Holders /\ to \notin Holders /\ Holders' = Holders \cup {to}
  BY <1>1, <1>2 DEF Holders
<1>5. Cardinality(Holders') = Cardinality(Holders) + 1
  BY <1>4, OwnFacts, FS_AddElement
<1>6. Cleared' = Cleared /\ Ending' = Ending /\ TerminationSeen' = TerminationSeen
  BY <1>1, <1>2 DEF Cleared, Ending, TerminationSeen
<1>7. RefsOK'
  <2>1. Own' = Own
    BY <1>1, <1>6, OwnKept
  <2> QED BY <1>1, <1>5, <2>1, OwnFacts DEF RefsOK
<1>8. LifeOK'
  <2>1. ~stale => \A w \in Users : ~IsLast(w)'
    BY <1>1, <1>2, <1>4, WhileHeld DEF IsLast, IsLastUser, Freeing
  <2>2. ~stale => ~deleted
    BY <1>4, WhileHeld
  <2> QED BY <1>1, <1>6, <2>1, <2>2 DEF LifeOK
<1> QED BY <1>3, <1>7, <1>8

LEMMA FreeLife ==
  ASSUME Types, Working, NEW u \in Users, FreeStep(u), ~AssertionFails(u)
  PROVE  UsersOK' /\ RefsOK' /\ LifeOK'
<1> USE DEF config, origin, reader, shared, users, again, UserGoes
<1>0. /\ upc \in [Users -> UserPcs] /\ refs \in Nat
      /\ UsersOK /\ RefsOK /\ LifeOK /\ policy \in {"async", "deferred", "none"}
  BY ConfigFacts DEF Types, Working
<1>1. /\ UNCHANGED <<policy, depth, void, tpc, at, v, oldCount, stale>>
      /\ upc[u] \in {"flags", "clear", "loop", "push", "delete"}
      /\ upc'[u] \in {"clear", "loop", "push", "delete", "gone"}
      /\ \A w \in Users \ {u} : upc'[w] = upc[w]
  <2>1. TestFlags(u) => FirstOfLast[policy] \in {"clear", "loop", "delete"}
    BY <1>0 DEF FirstOfLast
  <2> QED BY <1>0, <2>1 DEF FreeStep, TestFlags, ClearFunctions, TestTerminated, PushTermination, Delete
<1>2. Holders' = Holders
  BY <1>1 DEF Holders
<1>3. \A w \in Users \ {u} : IsLast(w)' = IsLast(w)
  BY <1>1 DEF IsLast, IsLastUser
<1>4. CASE TestFlags(u)
  <2>1. /\ UNCHANGED <<queue, refs, deleted>> /\ upc[u] = "flags"
        /\ upc'[u] = IF IsLastUser(oldCount[u]) THEN FirstOfLast[policy] ELSE "gone"
    BY <1>0, <1>4 DEF TestFlags
  <2>2. UsersOK'
    BY <1>0, <1>1, <2>1 DEF UsersOK, FirstOfLast
  <2>3. policy = "deferred" => Cleared' = Cleared
    BY <1>1, <2>1 DEF Cleared, FirstOfLast
  <2>4. RefsOK'
    BY <1>0, <1>1, <1>2, <2>1, <2>3, OwnKept DEF RefsOK
  <2>5. (IsLast(u)' => IsLast(u)) /\ (Ending => Ending') /\ TerminationSeen' = TerminationSeen
    BY <1>1, <2>1 DEF IsLast, Freeing, Ending, TerminationSeen
  <2>6. LifeOK'
    BY <1>0, <1>1, <1>2, <1>3, <2>1, <2>5 DEF LifeOK
  <2> QED BY <2>2, <2>4, <2>6
<1>5. CASE ClearFunctions(u)
  <2>1. /\ UNCHANGED <<queue, deleted>> /\ refs' = refs - 2
        /\ upc[u] = "clear" /\ upc'[u] = "delete"
    BY <1>0, <1>5 DEF ClearFunctions
  <2>2. UsersOK'
    BY <1>0, <1>1, <2>1 DEF UsersOK
  <2>3. policy = "deferred" /\ Own = 2 /\ Own' = 0
    <3>1. policy = "deferred" /\ Own = 2
      BY <2>1, OwnFacts
    <3>2. Cleared'
      BY <2>1 DEF Cleared
    <3> QED BY <1>1, <3>1, <3>2 DEF Own
  <2>4. RefsOK'
    BY <1>0, <1>2, <2>1, <2>3, OwnFacts DEF RefsOK
  <2>5. IsLast(u)' = IsLast(u) /\ (Ending => Ending') /\ TerminationSeen' = TerminationSeen
    BY <1>1, <2>1 DEF IsLast, Freeing, Ending, TerminationSeen
  <2>6. LifeOK'
    BY <1>0, <1>1, <1>2, <1>3, <2>1, <2>5 DEF LifeOK
  <2> QED BY <2>2, <2>4, <2>6
<1>6. CASE TestTerminated(u) \/ PushTermination(u)
  <2>1. UNCHANGED <<refs, deleted>> /\ upc[u] \in {"loop", "push"} /\ upc'[u] \in {"loop", "push", "delete"}
    BY <1>0, <1>6 DEF TestTerminated, PushTermination
  <2>2. policy = "async"
    BY <1>0, <2>1 DEF UsersOK
  <2>3. UsersOK'
    BY <1>0, <1>1, <2>1, <2>2 DEF UsersOK
  <2>4. RefsOK'
    BY <1>0, <1>1, <1>2, <2>1, <2>2, OwnKept DEF RefsOK
  <2>5. IsLast(u)' = IsLast(u) /\ Ending'
    BY <2>1 DEF IsLast, Freeing, Ending
  <2>6. LifeOK'
    BY <1>0, <1>1, <1>2, <1>3, <2>1, <2>2, <2>5 DEF LifeOK
  <2> QED BY <2>3, <2>4, <2>6
<1>7. CASE Delete(u)
  <2>1. UNCHANGED <<queue, refs>> /\ upc[u] = "delete" /\ upc'[u] = "gone" /\ deleted' = TRUE /\ Joinable
    BY <1>0, <1>7 DEF Delete
  <2>2. UsersOK'
    BY <1>0, <1>1, <2>1 DEF UsersOK
  <2>3. Cleared' = Cleared
    BY <2>1 DEF Cleared
  <2>4. RefsOK'
    BY <1>0, <1>1, <1>2, <2>1, <2>3, OwnKept DEF RefsOK
  <2>5. IsLast(u) /\ ~IsLast(u)' /\ Ending' /\ TerminationSeen' = TerminationSeen
    BY <1>1, <2>1 DEF IsLast, Freeing, Ending, TerminationSeen
  <2>6. LifeOK'
    BY <1>0, <1>1, <1>2, <1>3, <2>1, <2>5 DEF LifeOK, Joinable
  <2> QED BY <2>2, <2>4, <2>6
<1> QED BY <1>4, <1>5, <1>6, <1>7 DEF FreeStep

(* The handle of the thread is the last reference of the shared state.        *)
LEMMA ThreadReleaseLife ==
  ASSUME Types, Working, ThreadRelease
  PROVE  UsersOK' /\ RefsOK' /\ LifeOK'
<1> USE DEF config, origin, reader, shared, users, again
<1>1. /\ tpc = "release" /\ tpc' = "flags"
      /\ oldCount' = [oldCount EXCEPT !["thread"] = refs] /\ refs' = refs - 1
      /\ UNCHANGED <<policy, depth, void, queue, deleted, upc, stale>>
      /\ oldCount \in [Users \cup {"thread"} -> Nat] /\ refs \in Nat
      /\ UsersOK /\ RefsOK /\ LifeOK /\ ReaderOK /\ policy \in {"async", "deferred", "none"}
  BY ConfigFacts DEF ThreadRelease, Types, Working
<1>2. policy = "async"
  BY <1>1 DEF ReaderOK
<1>3. UsersOK'
  BY <1>1 DEF UsersOK
<1>4. Holders' = Holders /\ Ending' = Ending
  BY <1>1 DEF Holders, Ending
<1>5. Own = 1 /\ Own' = 0
  BY <1>1, <1>2 DEF Own
<1>6. RefsOK'
  BY <1>1, <1>4, <1>5, OwnFacts DEF RefsOK
<1>7. ~stale => Ending /\ Holders = {} /\ ~deleted /\ refs = 1
  <2> SUFFICES ASSUME ~stale PROVE Ending /\ Holders = {} /\ ~deleted /\ refs = 1
    OBVIOUS
  <2>1. Ending /\ ~deleted
    BY <1>1, <1>2 DEF LifeOK
  <2>2. PICK u \in Users : IsLast(u)
    BY <2>1 DEF Ending, IsLast, Freeing
  <2>3. Holders = {}
    BY <1>1, <2>2 DEF LifeOK
  <2>4. refs = 1
    BY <1>1, <1>5, <2>3, FS_EmptySet DEF RefsOK
  <2> QED BY <2>1, <2>3, <2>4
<1>8. ~stale => oldCount'["thread"] = 1 /\ \A u \in Users : IsLast(u)' => IsLast(u)
  <2> SUFFICES ASSUME ~stale
               PROVE  oldCount'["thread"] = 1 /\ \A u \in Users : IsLast(u)' => IsLast(u)
    OBVIOUS
  <2>1. oldCount'["thread"] = 1 /\ \A u \in Users : u # "thread" => oldCount'[u] = oldCount[u]
    BY <1>1, <1>7
  <2>2. ~IsLastUser(1)'
    BY <1>1, <1>2 DEF IsLastUser, OwnReferences
  <2>3. ASSUME NEW u \in Users, IsLast(u)' PROVE IsLast(u)
    <3>1. CASE u = "thread"
      BY <1>1, <2>1, <2>2, <2>3, <3>1 DEF IsLast
    <3>2. CASE u # "thread"
      BY <1>1, <2>1, <2>3, <3>2 DEF IsLast, IsLastUser
    <3> QED BY <3>1, <3>2
  <2> QED BY <2>1, <2>3
<1>9. LifeOK'
  BY <1>1, <1>2, <1>4, <1>7, <1>8 DEF LifeOK
<1> QED BY <1>3, <1>6, <1>9

LEMMA ThenAgainLife ==
  ASSUME Types, Working, ThenAgain
  PROVE  UsersOK' /\ RefsOK' /\ LifeOK'
<1> USE DEF config, origin, reader, shared, users, again
<1>1. /\ policy = "async" /\ \A u \in Users : upc[u] = "gone"
      /\ upc' = [upc EXCEPT ![Consumer] = "then"] /\ deleted' = FALSE /\ tpc' = "wait"
      /\ refs' = 1 + OwnReferences[policy]
      /\ queue' = [queue EXCEPT ![Result] = <<>>]
      /\ stale' = (stale \/ \E k \in 0 .. depth : ~NoTermination(k))
      /\ UNCHANGED <<policy, depth, void>>
      /\ upc \in [Users -> UserPcs] /\ Consumer \in Users
      /\ UsersOK /\ LifeOK
  BY UsersAssumption DEF ThenAgain, NewResult, Types, Working
<1>2. upc'[Consumer] = "then" /\ \A w \in Users \ {Consumer} : upc'[w] = "gone"
  BY <1>1
<1>3. UsersOK'
  BY <1>1, <1>2 DEF UsersOK
<1>4. Holders' = {Consumer}
  BY <1>1, <1>2 DEF Holders
<1>5. RefsOK'
  <2>1. Cardinality(Holders') = 1
    BY <1>4, FS_Singleton
  <2>2. Own' = 1 /\ refs' = 2
    BY <1>1 DEF Own, OwnReferences
  <2> QED BY <2>1, <2>2 DEF RefsOK
<1>6. ~stale' => ~TerminationSeen'
  <2> SUFFICES ASSUME ~stale', NEW k \in 0 .. depth PROVE ~HasTermination(queue'[k])
    BY <1>1 DEF TerminationSeen
  <2>0. k \in 0 .. Result /\ k # Result /\ queue \in [0 .. Result -> Seq(RealItem)]
    BY <1>1, ConfigFacts DEF Types, QueuesOK
  <2>1. queue'[k] = queue[k]
    BY <1>1, <2>0
  <2>2. queue[k] \in Seq(RealItem)
    BY <2>0
  <2>3. \A x \in RealItem : x.kind = "terminate" => x = Terminate
    BY DEF RealItem, Item, Terminate
  <2>4. NoTermination(k)
    BY <1>1
  <2> QED BY <2>1, <2>2, <2>3, <2>4 DEF HasTermination, NoTermination
<1>7. \A w \in Users : ~IsLast(w)'
  BY <1>2 DEF IsLast, Freeing
<1>8. LifeOK'
  BY <1>1, <1>6, <1>7 DEF LifeOK
<1> QED BY <1>3, <1>5, <1>8

(* Only a stale then() makes the process end: otherwise the thread releases   *)
(* the last reference and not the last handle, and no reference is left when  *)
(* the shared state is deleted.                                               *)
LEMMA AbortsWhenStale ==
  ASSUME Types, Working, ThreadAborts \/ \E u \in Users : AssertionFails(u)
  PROVE  Aborted'
<1>1. LifeOK /\ ReaderOK /\ RefsOK /\ policy \in {"async", "deferred", "none"}
  BY ConfigFacts DEF Working
<1>2. UNCHANGED <<policy, stale>> /\ tpc' = "aborted" /\ \A u \in Users : upc'[u] = "aborted"
  BY DEF ThreadAborts, AssertionFails, Abort, config, again
<1>3. ThreadAborts => stale
  <2> SUFFICES ASSUME tpc = "flags", IsLastUser(oldCount["thread"]), ~stale PROVE FALSE
    BY DEF ThreadAborts, JoinsItself
  <2>1. policy = "async"
    BY <1>1 DEF ReaderOK
  <2>2. oldCount["thread"] = 1
    BY <1>1 DEF LifeOK
  <2> QED BY <2>1, <2>2 DEF IsLastUser, OwnReferences
<1>4. ASSUME NEW u \in Users, AssertionFails(u) PROVE stale
  <2> SUFFICES ASSUME ~stale PROVE FALSE
    OBVIOUS
  <2>1. upc[u] = "delete" /\ Joinable /\ refs # 0
    BY <1>4 DEF AssertionFails
  <2>2. Holders = {}
    BY <1>1, <2>1 DEF LifeOK, IsLast, Freeing
  <2>3. Own = 0
    BY <1>1, <2>1 DEF Own, Cleared, Joinable
  <2> QED BY <1>1, <2>1, <2>2, <2>3, FS_EmptySet DEF RefsOK
<1> QED BY <1>2, <1>3, <1>4 DEF Aborted

(* ... and then nothing happens any more.                                     *)
LEMMA AbortedEnds == Aborted => ~Next
<1> SUFFICES ASSUME Aborted, Next PROVE FALSE
  OBVIOUS
<1>1. tpc = "aborted" /\ Consumer \in Users /\ \A u \in Users : upc[u] = "aborted"
  BY UsersAssumption DEF Aborted
<1>2. ~ReaderStep
  BY <1>1 DEF ReaderStep, WaitInput, CallAndPush, PopInput, EndCall, Escape, FindNothing, CatchAbove, Leave,
         ThreadRelease, ThreadExit, ThreadAborts
<1>3. \A u \in Users : ~Release(u) /\ ~FreeStep(u) /\ \A w \in Users : ~Copy(u, w)
  BY <1>1 DEF Release, Copy, FreeStep, UserGoes, TestFlags, ClearFunctions, TestTerminated, PushTermination,
         Delete, AssertionFails
<1>4. ~OuterStep
  BY <1>1 DEF OuterStep, UserGoes, Push, PopResult, PopLeftOver, ThenAgain, ThenReturns, BeginCall
<1> QED BY <1>2, <1>3, <1>4 DEF Next, OuterStep

-----------------------------------------------------------------------------
(* The invariant holds.                                                       *)

LEMMA LifeInit == Init => LifeInv
<1> SUFFICES ASSUME Init PROVE Types /\ Working
  BY DEF LifeInv
<1>1. /\ policy \in Policies /\ depth \in Depths[policy] /\ void \in [0 .. depth -> BOOLEAN]
      /\ policy \in {"async", "deferred", "none"} /\ depth \in Nat
      /\ policy = "deferred" => depth > 0
      /\ policy = "none" => depth = 0
  BY PolicyAssumption, DepthsAssumption DEF Init
<1>2. /\ Result \in Nat /\ (policy = "async" => Result = depth + 1) /\ (policy = "deferred" => Result = depth)
      /\ \A k \in 0 .. Result : Capacity(k) \in Nat \ {0}
  BY <1>1, LengthAssumption DEF Result, Capacity
<1>3. QueuesOK(queue) /\ \A k \in 0 .. Result : ~HasTermination(queue[k])
  <2>1. queue = [k \in 0 .. Result |-> <<>>]
    BY DEF Init
  <2>2. <<>> \in Seq(RealItem) /\ Len(<<>>) = 0 /\ ~HasTermination(<<>>)
    BY DEF HasTermination
  <2> QED BY <1>2, <2>1, <2>2 DEF QueuesOK
<1>4. Cardinality(Users) \in Nat
  BY UsersAssumption, FS_CardinalityType
<1>5. \A u \in Users : upc[u] = "holding"
  BY DEF Init
<1>6. Holders = Users /\ ~Cleared /\ ~Ending
  BY <1>5 DEF Holders, Cleared, Ending, Init
<1>7. Types
  <2>1. refs \in Nat
    BY <1>1, <1>4 DEF Init, OwnReferences
  <2>2. upc \in [Users -> UserPcs] /\ oldCount \in [Users \cup {"thread"} -> Nat]
    BY DEF Init, UserPcs
  <2>3. at \in 0 .. depth /\ v \in RealItem
    BY <1>1, TerminateType DEF Init
  <2>4. pushes \in Nat /\ sent \in Seq(Item) /\ results \in Seq(Item) /\ thens \in Nat
    BY DEF Init
  <2>5. tpc \in ReaderPcs /\ call \in CallNames
    BY DEF Init, ReaderPcs, CallNames
  <2>6. terminated \in BOOLEAN /\ deleted \in BOOLEAN /\ stale \in BOOLEAN
    BY DEF Init
  <2> QED BY <1>1, <1>3, <2>1, <2>2, <2>3, <2>4, <2>5, <2>6 DEF Types
<1>8. ReaderOK
  BY <1>1, <1>2 DEF Init, ReaderOK
<1>9. UsersOK
  BY <1>5 DEF UsersOK
<1>10. RefsOK
  <2>1. Own = OwnReferences[policy] /\ refs = Cardinality(Users) + OwnReferences[policy]
    BY <1>1, <1>6 DEF Own, OwnReferences, Init
  <2> QED BY <1>6, <2>1 DEF RefsOK
<1>11. LifeOK
  <2>1. ~TerminationSeen
    <3>1. tpc # "call" /\ \A k \in 0 .. depth : k \in 0 .. Result
      BY <1>1, <1>2 DEF Init, Result
    <3> QED BY <1>3, <3>1 DEF TerminationSeen
  <2>2. \A u \in Users : ~IsLast(u)
    BY <1>5 DEF IsLast, Freeing
  <2> QED BY <1>1, <2>1, <2>2 DEF LifeOK, Init
<1>12. tpc # "aborted"
  BY DEF Init
<1> QED BY <1>7, <1>8, <1>9, <1>10, <1>11, <1>12 DEF Working

LEMMA LifeStep == LifeInv /\ [Next]_vars => LifeInv'
<1> SUFFICES ASSUME LifeInv, [Next]_vars PROVE LifeInv'
  OBVIOUS
<1>1. CASE UNCHANGED vars
  <2> USE <1>1 DEF vars, config, origin, reader, shared, users, again
  <2>1. Types'
    BY DEF LifeInv, Types, QueuesOK, Result, Capacity
  <2>2. Aborted => Aborted'
    BY DEF Aborted
  <2>3. Working => Working'
    <3>1. ReaderOK => ReaderOK'
      BY DEF ReaderOK, Result
    <3>2. UsersOK => UsersOK'
      BY DEF UsersOK
    <3>3. Holders' = Holders /\ Cleared' = Cleared /\ Ending' = Ending /\ TerminationSeen' = TerminationSeen
      BY DEF Holders, Cleared, Ending, TerminationSeen
    <3>4. RefsOK => RefsOK'
      BY <3>3 DEF RefsOK, Own
    <3>5. LifeOK => LifeOK'
      BY <3>3 DEF LifeOK, IsLast, IsLastUser, Freeing
    <3> QED BY <3>1, <3>2, <3>4, <3>5 DEF Working
  <2> QED BY <2>1, <2>2, <2>3 DEF LifeInv
<1>2. CASE Next
  <2>1. Types /\ Working
    BY <1>2, AbortedEnds DEF LifeInv
  <2>2. OuterStep \/ ReaderStep \/ \E u \in Users : Release(u) \/ FreeStep(u) \/ \E w \in Users : Copy(u, w)
    BY <1>2 DEF Next, OuterStep
  <2>3. TypesNext
    BY <2>1, <2>2, OuterTypes, ReaderTypes, UserTypes
  <2>4. Types' /\ UNCHANGED config
    BY <2>1, <2>3, TypesPrimed DEF TypesNext
  <2>5. CASE ThreadAborts \/ \E u \in Users : AssertionFails(u)
    BY <2>1, <2>4, <2>5, AbortsWhenStale DEF LifeInv
  <2>6. CASE ~ThreadAborts /\ \A u \in Users : ~AssertionFails(u)
    <3>1. tpc' # "aborted"
      BY <2>1, <2>2, <2>6 DEF Working, OuterStep, Push, PopResult, PopLeftOver, ThenAgain, ThenReturns, BeginCall,
         ReaderStep, WaitInput, CallAndPush, PopInput, EndCall, Escape, FindNothing, CatchAbove, ReturnFromCall, Leave,
         ThreadRelease, ThreadExit, Release, Copy, FreeStep, TestFlags, ClearFunctions, TestTerminated,
         PushTermination, Delete, reader
    <3>2. ReaderOK'
      BY <2>1, <2>2, <2>4, <2>6, ReaderOuter, ReaderReader, ReaderUser, ReaderPrimed
    <3>3. UsersOK' /\ RefsOK' /\ LifeOK'
      <4>1. CASE OuterStep
        BY <2>1, <4>1, OuterLife, ThenAgainLife
      <4>2. CASE ReaderStep
        BY <2>1, <2>6, <4>2, ReaderLife, ThreadReleaseLife
      <4>3. CASE \E u \in Users : Release(u) \/ FreeStep(u) \/ \E w \in Users : Copy(u, w)
        BY <2>1, <2>6, <4>3, ReleaseLife, FreeLife, CopyLife
      <4> QED BY <2>2, <4>1, <4>2, <4>3
    <3> QED BY <2>4, <3>1, <3>2, <3>3 DEF LifeInv, Working
  <2> QED BY <2>5, <2>6
<1> QED BY <1>1, <1>2

LEMMA LifeAlways == Spec => []LifeInv
BY LifeInit, LifeStep, PTL DEF Spec

-----------------------------------------------------------------------------
(* Every variable has its type, no queue holds more than its capacity, and     *)
(* whenever the reader uses the front element of its input there is one.       *)
THEOREM ContinuationTypes == Spec => []TypeOK
<1>1. LifeInv => TypeOK
  <2> SUFFICES ASSUME LifeInv PROVE TypeOK
    OBVIOUS
  <2>1. Types /\ (tpc = "pop" \/ (tpc = "call" /\ ~void[at]) => queue[at] # <<>>)
    BY DEF LifeInv, Working, Aborted, ReaderOK
  <2>2. DOMAIN queue = 0 .. Result /\ \A k \in 0 .. Result : queue[k] \in Seq(Item) /\ Len(queue[k]) <= Capacity(k)
    <3>1. RealItem \subseteq Item
      BY DEF RealItem
    <3>2. \A s \in Seq(RealItem) : s \in Seq(Item)
      BY <3>1
    <3> QED BY <2>1, <3>2 DEF Types, QueuesOK
  <2>3. v \in Item
    BY <2>1 DEF Types, RealItem
  <2> QED BY <2>1, <2>2, <2>3 DEF TypeOK, Types, ReaderPcs, CallNames, UserPcs
<1> QED BY <1>1, LifeAlways, PTL

(* free(): the shared state is deleted once, when nobody holds it or is in a   *)
(* call of it and its thread has gone; the assertion that no reference is left *)
(* holds, and the thread does not join itself.                                *)
THEOREM SharedStateSafe == Spec => []DeletedWhenUnused
<1>1. LifeInv => DeletedWhenUnused
  <2> SUFFICES ASSUME LifeInv, ~stale
               PROVE  /\ deleted => tpc \in {"idle", "exited"} /\ \A u \in Users : upc[u] \in {"gone", "flags"}
                      /\ tpc # "aborted"
                      /\ Cardinality({u \in Users : upc[u] \in Freeing}) <= 1
    BY DEF DeletedWhenUnused, Freeing
  <2>1. Types /\ Working
    BY DEF LifeInv, Aborted
  <2>2. /\ LifeOK /\ ReaderOK /\ tpc # "aborted" /\ policy \in {"async", "deferred", "none"}
        /\ upc \in [Users -> UserPcs] /\ Consumer \in Users
    BY <2>1, ConfigFacts, UsersAssumption DEF Working, Types
  <2> USE DEF UserPcs, Freeing
  <2>3. ASSUME deleted PROVE tpc \in {"idle", "exited"} /\ \A u \in Users : upc[u] \in {"gone", "flags"}
    <3>1. Holders = {} /\ \A u \in Users : ~IsLast(u)
      BY <2>2, <2>3 DEF LifeOK
    <3>2. \A u \in Users : upc[u] \in {"gone", "flags", "aborted"}
      BY <2>2, <3>1 DEF Holders, IsLast
    <3>3. call = "none"
      BY <2>2, <3>2 DEF ReaderOK
    <3>4. tpc \in {"idle", "exited"}
      BY <2>2, <2>3, <3>3 DEF ReaderOK, LifeOK
    <3>5. \A u \in Users : upc[u] # "aborted"
      BY <2>1 DEF Working, UsersOK
    <3> QED BY <3>2, <3>4, <3>5
  <2>4. Cardinality({u \in Users : upc[u] \in Freeing}) <= 1
    <3>1. CASE \E u \in Users : upc[u] \in Freeing
      <4>1. PICK u \in Users : upc[u] \in Freeing
        BY <3>1
      <4>2. {w \in Users : upc[w] \in Freeing} = {u}
        BY <2>2, <4>1 DEF LifeOK, IsLast
      <4>3. Cardinality({u}) = 1
        BY FS_Singleton
      <4> HIDE DEF Freeing
      <4> QED BY <4>2, <4>3
    <3>2. CASE \A u \in Users : upc[u] \notin Freeing
      <4>1. {w \in Users : upc[w] \in Freeing} = {}
        BY <3>2
      <4> QED BY <4>1, FS_EmptySet
    <3> QED BY <3>1, <3>2
  <2> QED BY <2>2, <2>3, <2>4
<1> QED BY <1>1, LifeAlways, PTL
=============================================================================
