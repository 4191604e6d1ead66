--------------------------- MODULE WhenAnyProofs ---------------------------
(* Theorems about WhenAny, for any queues, lengths and producers.  For         *)
(* when_any() every value is announced exactly once, hence the notification   *)
(* queue never overflows, and a value is there when its notification arrives  *)
(* unless a push raced the call of when_any().  For when_all(), where         *)
(* notifications get lost, nobody sleeps while every queue has data.          *)
EXTENDS WhenAny, FiniteSetTheorems, SequenceTheorems, TLAPS

-----------------------------------------------------------------------------
(* Counting.                                                                  *)

One(b) == IF b THEN 1 ELSE 0

(* Two sets that differ at x only.                                            *)
LEMMA CountMoves ==
  ASSUME NEW S, NEW T, NEW x, IsFiniteSet(S), S \ {x} = T \ {x}
  PROVE  /\ IsFiniteSet(T) /\ Cardinality(S) \in Nat /\ Cardinality(T) \in Nat
         /\ Cardinality(T) = Cardinality(S) - One(x \in S) + One(x \in T)
<1> DEFINE R == S \ {x}
<1>1. IsFiniteSet(R) /\ Cardinality(R) \in Nat
  BY FS_RemoveElement, FS_CardinalityType
<1> HIDE DEF R
<1>2. S = (IF x \in S THEN R \cup {x} ELSE R) /\ T = (IF x \in T THEN R \cup {x} ELSE R) /\ x \notin R
  BY DEF R
<1>3. IsFiniteSet(R \cup {x}) /\ Cardinality(R \cup {x}) = Cardinality(R) + 1
  BY <1>1, <1>2, FS_AddElement
<1>4. IsFiniteSet(S) /\ Cardinality(S) = Cardinality(R) + One(x \in S)
  <2>1. CASE x \in S
    BY <1>1, <1>2, <1>3, <2>1 DEF One
  <2>2. CASE x \notin S
    BY <1>1, <1>2, <2>2 DEF One
  <2> QED BY <2>1, <2>2
<1>5. IsFiniteSet(T) /\ Cardinality(T) = Cardinality(R) + One(x \in T)
  <2>1. CASE x \in T
    BY <1>1, <1>2, <1>3, <2>1 DEF One
  <2>2. CASE x \notin T
    BY <1>1, <1>2, <2>2 DEF One
  <2> QED BY <2>1, <2>2
<1> QED BY <1>1, <1>4, <1>5 DEF One

(* Where x is in f, and the same after the first element is gone.             *)
Positions(f, n, x) == {k \in 1 .. n : f[k] = x}

LEMMA PositionsFinite ==
  ASSUME NEW n \in Nat, NEW f, NEW x
  PROVE  IsFiniteSet(Positions(f, n, x)) /\ Cardinality(Positions(f, n, x)) \in Nat
<1>1. IsFiniteSet(1 .. n)
  BY FS_Interval
<1>2. IsFiniteSet(Positions(f, n, x))
  BY <1>1, FS_Subset DEF Positions
<1> QED BY <1>2, FS_CardinalityType

LEMMA CountTail ==
  ASSUME NEW n \in Nat \ {0}, NEW f, NEW g, NEW x, \A k \in 1 .. n - 1 : g[k] = f[k + 1]
  PROVE  Cardinality(Positions(f, n, x)) = Cardinality(Positions(g, n - 1, x)) + One(f[1] = x)
<1> DEFINE P == Positions(f, n, x)
           Q == Positions(g, n - 1, x)
<1>1. IsFiniteSet(P) /\ IsFiniteSet(Q) /\ Cardinality(P) \in Nat /\ Cardinality(Q) \in Nat
  BY PositionsFinite
<1>2. IsFiniteSet(P \ {1}) /\ Cardinality(P \ {1}) = IF 1 \in P THEN Cardinality(P) - 1 ELSE Cardinality(P)
  BY <1>1, FS_RemoveElement
<1>3. Cardinality(P \ {1}) = Cardinality(Q)
  <2> DEFINE h == [k \in Q |-> k + 1]
  <2>1. h \in [Q -> P \ {1}]
    BY DEF Positions
  <2>2. \A a, b \in Q : h[a] = h[b] => a = b
    BY DEF Positions
  <2>3. \A b \in P \ {1} : \E a \in Q : h[a] = b
    <3> SUFFICES ASSUME NEW b \in P \ {1} PROVE \E a \in Q : h[a] = b
      OBVIOUS
    <3>1. b - 1 \in 1 .. n - 1 /\ b - 1 + 1 = b /\ f[b] = x
      BY DEF Positions
    <3>2. b - 1 \in Q
      BY <3>1 DEF Positions
    <3> QED BY <3>1, <3>2
  <2>4. h \in Bijection(Q, P \ {1})
    BY <2>1, <2>2, <2>3 DEF Bijection, Injection, Surjection, IsInjective
  <2>5. ExistsBijection(Q, P \ {1})
    BY <2>4 DEF ExistsBijection
  <2> QED BY <1>1, <2>5, FS_Bijection
<1>4. 1 \in P <=> f[1] = x
  BY DEF Positions
<1> QED BY <1>1, <1>2, <1>3, <1>4 DEF One

-----------------------------------------------------------------------------
(* The inductive invariant.                                                   *)

Holding   == {"count", "post", "replace"}
SettingUp == {"start", "place", "announce"}
Working   == {"idle", "any_taken", "any_pop", "all_wait", "all_taken", "all_check", "all_pop", "exited"}
Ids       == Queues \cup {Terminate}
Note      == [id : Ids, by : Producers \cup {Nobody}]
Sent      == [k \in DOMAIN notify |-> notify[k].id]
Ended     == \E k \in DOMAIN notify : notify[k].id = Terminate

Types ==
    /\ data \in [Queues -> Seq(Producers \cup {Nobody})]
    /\ hasFrontOwnership \in [Queues -> BOOLEAN]
    /\ info \in [Queues -> [notifyerQueue : BOOLEAN, previousData : Nat]]
    /\ notify \in Seq(Note)
    /\ ppc \in [Producers -> {"idle", "count", "post", "send", "notify", "replace"}]
    /\ target \in [Producers -> Queues]
    /\ notification_queue \in [Producers -> BOOLEAN]
    /\ rpc \in SettingUp \cup Working /\ at \in Queues /\ todo \in Nat
    /\ mode \in Modes /\ overwriters \subseteq Overwriters[mode]
    /\ \A q \in Queues : Len(data[q]) <= Length[q]

(* How far when_any() has come, and who may be where.                         *)
Setup ==
    /\ rpc = "start" => notify = <<>> /\ at = 0 /\ \A p \in Producers : ~notification_queue[p]
    /\ \A q \in Queues :
         info[q].notifyerQueue <=> \/ rpc = "place" /\ q < at
                                   \/ rpc = "announce" /\ q <= at
                                   \/ rpc \in Working
    /\ \A q \in Queues : info[q].notifyerQueue => info[q].previousData = 0
    /\ rpc \in {"any_taken", "all_taken"} => notify # <<>>
    /\ rpc \in {"any_taken", "any_pop"} => mode = "any"
    /\ rpc \in {"all_wait", "all_taken", "all_check", "all_pop", "exited"} => mode # "any"

(* A termination exception comes from a release.                              *)
Released ==
    /\ user # "holding" => mode = "then" /\ rpc \in Working
    /\ Ended => user # "holding"

(* A front the receiver owns stays, and it owns those it is about to take.    *)
Fronts ==
    /\ \A q \in Queues : hasFrontOwnership[q] => ReadyFront(q) /\ rpc \in Working /\ mode # "any"
    /\ \A q \in Queues : rpc = "all_check" /\ q < at => hasFrontOwnership[q]
    /\ \A q \in Queues : rpc = "all_pop" /\ q >= at => hasFrontOwnership[q]

(* A pushing producer has one place, in the queue it pushes to, and in a      *)
(* queue of a single producer it is the last one.                             *)
Held ==
    /\ \A p \in Producers : ppc[p] \in Holding =>
         /\ \E k \in DOMAIN data[target[p]] : data[target[p]][k] = p
         /\ PushesTo(p, target[p])
         /\ ppc[p] = "replace" => p \in overwriters
    /\ \A q \in Queues : \A k \in DOMAIN data[q] : data[q][k] # Nobody =>
         /\ ppc[data[q][k]] \in Holding /\ target[data[q][k]] = q
         /\ \A j \in DOMAIN data[q] : data[q][j] = data[q][k] => j = k
         /\ SingleProducer(q) => k = Len(data[q])

(* A value counted before when_any() came and published after it has raced.   *)
RaceSeen ==
    \A p \in Producers :
        ppc[p] = "post" /\ ~notification_queue[p] /\ info[target[p]].notifyerQueue => target[p] \in raced

(* Announcements are exact until they are used, and for when_any() always.    *)
Exact      == mode = "any" \/ rpc \in SettingUp
AllCounted == Exact => \A q \in Queues : Values(q) = Announcements(q)

(* For when_all() there is always one queue that has no more values than      *)
(* announcements.  The one the receiver has just used to look at the queues,  *)
(* and takes a value for, still counts.                                       *)
Credit(q) == One(rpc = "all_check" \/ (rpc = "all_pop" /\ q >= at))
Covered   == rpc \in Working /\ Orderly =>
                 rpc = "exited" \/ Ended \/ \E q \in Queues : Values(q) <= Announcements(q) + Credit(q)

Shape  == Types /\ Setup /\ Released /\ Fronts /\ Held /\ RaceSeen
IndInv == Shape /\ AllCounted /\ Covered

LEMMA QueueRange == Last \in Nat /\ Queues = 0 .. Last /\ Terminate \notin Queues
BY QueuesAssumption DEF Last, Terminate

(* The kinds of steps.                                                        *)
PushingStep(p) == \/ \E q \in Queues : Push(p, q) \/ OverwriteLast(p, q)
                  \/ PushStep(p)
AnyStep == \/ \E q \in Queues : PopBefore(q)
           \/ SetNotificationQueue \/ Announce \/ Announced
           \/ TakeNotification \/ AnyRemove \/ AnyPop
AllStep == AllWait \/ AllPop \/ AllRemove \/ AllCheck \/ AllEmpty \/ AllTake

LEMMA Steps == Next => \/ \E p \in Producers : PushingStep(p)
                       \/ AnyStep \/ AllStep \/ Release \/ FreeStep
BY DEF Next, ReceiverStep, AnyStep, AllStep, PushingStep

-----------------------------------------------------------------------------
(* The counts of Values() and Announcements().                                *)

Pub(q) == Positions(data[q], Len(data[q]), Nobody)
Mid(q) == AtQueue(q, {"post", "replace"})
Snd(q) == {p \in AtQueue(q, {"post", "send"}) : notification_queue[p]}
Nts(q) == Positions(Sent, Len(notify), q)
Todo(q)    == IF rpc = "announce" /\ at = q THEN todo ELSE 0
Popping(q) == One(rpc = "any_pop" /\ at = q)

CountsOK ==
    \A q \in Queues :
        /\ IsFiniteSet(Pub(q)) /\ IsFiniteSet(Mid(q)) /\ IsFiniteSet(Snd(q)) /\ IsFiniteSet(Nts(q))
        /\ Cardinality(Pub(q)) \in Nat /\ Cardinality(Mid(q)) \in Nat
        /\ Cardinality(Snd(q)) \in Nat /\ Cardinality(Nts(q)) \in Nat
        /\ info[q].previousData \in Nat /\ Todo(q) \in Nat /\ Popping(q) \in {0, 1}
        /\ Values(q) = Cardinality(Pub(q)) + Cardinality(Mid(q))
        /\ Announcements(q) = info[q].previousData + Todo(q) + Cardinality(Snd(q))
                              + Cardinality(Nts(q)) + Popping(q)

LEMMA CountsNow == Types => CountsOK
<1> SUFFICES ASSUME Types, NEW q \in Queues
             PROVE  /\ IsFiniteSet(Pub(q)) /\ IsFiniteSet(Mid(q)) /\ IsFiniteSet(Snd(q)) /\ IsFiniteSet(Nts(q))
                    /\ Cardinality(Pub(q)) \in Nat /\ Cardinality(Mid(q)) \in Nat
                    /\ Cardinality(Snd(q)) \in Nat /\ Cardinality(Nts(q)) \in Nat
                    /\ info[q].previousData \in Nat /\ Todo(q) \in Nat /\ Popping(q) \in {0, 1}
                    /\ Values(q) = Cardinality(Pub(q)) + Cardinality(Mid(q))
                    /\ Announcements(q) = info[q].previousData + Todo(q) + Cardinality(Snd(q))
                                          + Cardinality(Nts(q)) + Popping(q)
  BY DEF CountsOK
<1>1. /\ Len(data[q]) \in Nat /\ DOMAIN data[q] = 1 .. Len(data[q])
      /\ Len(notify) \in Nat /\ DOMAIN notify = 1 .. Len(notify)
  BY LenProperties DEF Types
<1>2. IsFiniteSet(Pub(q)) /\ IsFiniteSet(Nts(q)) /\ Cardinality(Pub(q)) \in Nat /\ Cardinality(Nts(q)) \in Nat
  BY <1>1, PositionsFinite DEF Pub, Nts
<1>3. IsFiniteSet(Mid(q)) /\ IsFiniteSet(Snd(q)) /\ Cardinality(Mid(q)) \in Nat /\ Cardinality(Snd(q)) \in Nat
  <2>1. Mid(q) \subseteq Producers /\ Snd(q) \subseteq Producers
    BY DEF Mid, Snd, AtQueue
  <2>2. IsFiniteSet(Mid(q)) /\ IsFiniteSet(Snd(q))
    BY <2>1, ProducersAssumption, FS_Subset
  <2> QED BY <2>2, FS_CardinalityType
<1>4. info[q].previousData \in Nat /\ Todo(q) \in Nat /\ Popping(q) \in {0, 1}
  BY DEF Types, Todo, Popping, One
<1>5. Values(q) = Cardinality(Pub(q)) + Cardinality(Mid(q))
  BY <1>1 DEF Values, Pub, Mid, Positions
<1>6. Nts(q) = {k \in DOMAIN notify : notify[k].id = q}
  BY <1>1 DEF Nts, Sent, Positions
<1>7. Announcements(q) = info[q].previousData + Todo(q) + Cardinality(Snd(q)) + Cardinality(Nts(q)) + Popping(q)
  BY <1>6 DEF Announcements, Todo, Snd, Popping, One
<1> QED BY <1>2, <1>3, <1>4, <1>5, <1>7

LEMMA CountsNext == Types' => CountsOK'
BY CountsNow, PTL

-----------------------------------------------------------------------------
(* The notification queue has room.                                           *)

(* A queue holds its published values and those of the producers at work.     *)
LEMMA ValuesFit ==
  ASSUME Types, Held, NEW q \in Queues
  PROVE  Values(q) <= Length[q]
<1> DEFINE n == Len(data[q])
           I == 1 .. n
           R == I \ Pub(q)
           f == [p \in Mid(q) |-> CHOOSE k \in I : data[q][k] = p]
<1>1. n \in Nat /\ DOMAIN data[q] = I /\ n <= Length[q] /\ Length[q] \in Nat
  BY LenProperties, LengthAssumption DEF Types
<1>2. CountsOK
  BY CountsNow
<1>3. IsFiniteSet(I) /\ Cardinality(I) = n
  <2> HIDE DEF n
  <2> QED BY <1>1, FS_Interval
<1>4. I \cap Pub(q) = Pub(q)
  BY DEF Pub, Positions
<1>5. IsFiniteSet(R) /\ Cardinality(R) = n - Cardinality(Pub(q))
  <2> HIDE DEF n, I
  <2> QED BY <1>3, <1>4, FS_Difference
<1>6. ASSUME NEW p \in Mid(q) PROVE f[p] \in R /\ data[q][f[p]] = p
  <2>1. p \in Producers /\ target[p] = q /\ ppc[p] \in Holding /\ p # Nobody
    BY ProducersAssumption DEF Mid, AtQueue, Holding
  <2>2. \E k \in I : data[q][k] = p
    BY <1>1, <2>1 DEF Held
  <2>3. f[p] \in I /\ data[q][f[p]] = p
    BY <2>2
  <2> QED BY <2>1, <2>3 DEF Pub, Positions
<1> HIDE DEF R, f
<1>7. f \in Injection(Mid(q), R)
  <2>1. f \in [Mid(q) -> R]
    BY <1>6 DEF f
  <2> QED BY <1>6, <2>1 DEF Injection, IsInjective
<1>8. Cardinality(Mid(q)) <= Cardinality(R)
  BY <1>5, <1>7, FS_Injection
<1> QED BY <1>1, <1>2, <1>5, <1>8 DEF CountsOK

LEMMA PlacesFinite == IsFiniteSet(Places) /\ Cardinality(Places) \in Nat
<1> DEFINE A(q) == {q} \X (1 .. Length[q])
           S == {A(q) : q \in Queues}
           f == [q \in Queues |-> A(q)]
<1>1. IsFiniteSet(Queues)
  BY QueueRange, FS_Interval
<1>2. ASSUME NEW q \in Queues PROVE IsFiniteSet(A(q))
  <2>1. PICK n \in Nat : n = Length[q]
    BY LengthAssumption
  <2>2. IsFiniteSet(1 .. n)
    BY FS_Interval
  <2>3. IsFiniteSet({q})
    BY FS_Singleton
  <2> QED BY <2>1, <2>2, <2>3, FS_Product
<1>3. f \in Surjection(Queues, S)
  BY DEF Surjection
<1>4. IsFiniteSet(S)
  BY <1>1, <1>3, FS_Surjection
<1>5. IsFiniteSet(UNION S)
  BY <1>2, <1>4, FS_UNION
<1>6. Places = UNION S
  BY DEF Places
<1> QED BY <1>5, <1>6, FS_CardinalityType

(* A set of at most n elements maps into 1 .. n.                              *)
LEMMA FitsInto ==
  ASSUME NEW S, IsFiniteSet(S), NEW n \in Nat, Cardinality(S) <= n
  PROVE  \E f \in [S -> 1 .. n] : \A a, b \in S : f[a] = f[b] => a = b
<1> DEFINE c == Cardinality(S)
<1>1. c \in Nat /\ IsFiniteSet(1 .. c) /\ Cardinality(1 .. c) = c
  BY FS_CardinalityType, FS_Interval
<1>2. ExistsBijection(S, 1 .. c)
  BY <1>1, FS_SameCardinalityBij
<1>3. PICK f \in Bijection(S, 1 .. c) : TRUE
  BY <1>2 DEF ExistsBijection
<1>4. f \in [S -> 1 .. c] /\ \A a, b \in S : f[a] = f[b] => a = b
  BY <1>3 DEF Bijection, Injection, IsInjective
<1>5. 1 .. c \subseteq 1 .. n
  BY <1>1
<1> QED BY <1>4, <1>5

(* If a queue has fewer notifications than places, and none has more, there   *)
(* is room in the notification queue.                                         *)
LEMMA RoomLeft ==
  ASSUME Types, ~Ended, \A q \in Queues : Cardinality(Nts(q)) <= Length[q],
         NEW q0 \in Queues, Cardinality(Nts(q0)) < Length[q0]
  PROVE  Len(notify) < summedLength
<1>1. CountsOK
  BY CountsNow
<1> DEFINE room == [q \in Queues |-> IF q = q0 THEN Length[q] - 1 ELSE Length[q]]
           F == [q \in Queues |-> CHOOSE f \in [Nts(q) -> 1 .. room[q]] : \A a, b \in Nts(q) : f[a] = f[b] => a = b]
           I == 1 .. Len(notify)
           g == [k \in I |-> <<Sent[k], F[Sent[k]][k]>>]
           R == Places \ {<<q0, Length[q0]>>}
<1>2. Len(notify) \in Nat /\ DOMAIN notify = I
  BY LenProperties DEF Types
<1>3. ASSUME NEW q \in Queues PROVE room[q] \in Nat /\ Cardinality(Nts(q)) <= room[q]
  <2>1. Cardinality(Nts(q)) \in Nat /\ Length[q] \in Nat \ {0}
    BY <1>1, LengthAssumption DEF CountsOK
  <2> QED BY <2>1
<1>4. ASSUME NEW q \in Queues
      PROVE  F[q] \in [Nts(q) -> 1 .. room[q]] /\ \A a, b \in Nts(q) : F[q][a] = F[q][b] => a = b
  <2>1. IsFiniteSet(Nts(q))
    BY <1>1 DEF CountsOK
  <2>2. \E f \in [Nts(q) -> 1 .. room[q]] : \A a, b \in Nts(q) : f[a] = f[b] => a = b
    BY <1>3, <2>1, FitsInto
  <2> QED BY <2>2
<1>5. ASSUME NEW k \in I PROVE Sent[k] \in Queues /\ k \in Nts(Sent[k])
  <2>1. notify[k] \in Note /\ notify[k].id # Terminate
    BY <1>2, ElementOfSeq DEF Types, Ended
  <2> QED BY <1>2, <2>1 DEF Sent, Nts, Positions, Note, Ids
<1> HIDE DEF F
<1>6. ASSUME NEW k \in I PROVE g[k] \in R
  <2>1. F[Sent[k]][k] \in 1 .. room[Sent[k]]
    BY <1>4, <1>5
  <2>2. F[Sent[k]][k] \in 1 .. Length[Sent[k]] /\ (Sent[k] = q0 => F[Sent[k]][k] # Length[q0])
    BY <1>5, <2>1, LengthAssumption
  <2>3. g[k] \in {Sent[k]} \X (1 .. Length[Sent[k]])
    BY <2>2
  <2> QED BY <1>5, <2>2, <2>3 DEF Places
<1>7. g \in Injection(I, R)
  <2>1. g \in [I -> R]
    BY <1>6
  <2>2. ASSUME NEW j \in I, NEW k \in I, g[j] = g[k] PROVE j = k
    <3>1. Sent[j] = Sent[k] /\ F[Sent[j]][j] = F[Sent[k]][k]
      BY <2>2
    <3>2. j \in Nts(Sent[k]) /\ k \in Nts(Sent[k]) /\ Sent[k] \in Queues
      BY <1>5, <3>1
    <3> QED BY <1>4, <3>1, <3>2
  <2> QED BY <2>1, <2>2 DEF Injection, IsInjective
<1> HIDE DEF g, R, I
<1>8. IsFiniteSet(R) /\ Cardinality(R) = Cardinality(Places) - 1
  <2>1. <<q0, Length[q0]>> \in Places
    <3>1. Length[q0] \in 1 .. Length[q0]
      BY LengthAssumption
    <3> QED BY <3>1 DEF Places
  <2> QED BY <2>1, PlacesFinite, FS_RemoveElement DEF R
<1>9. IsFiniteSet(I) /\ Cardinality(I) = Len(notify)
  <2>1. PICK n \in Nat : n = Len(notify)
    BY <1>2
  <2>2. IsFiniteSet(1 .. n) /\ Cardinality(1 .. n) = n
    BY FS_Interval
  <2> QED BY <2>1, <2>2 DEF I
<1>10. Cardinality(I) <= Cardinality(R)
  BY <1>7, <1>8, FS_Injection
<1> QED BY <1>2, <1>8, <1>9, <1>10, PlacesFinite DEF summedLength

(* As long as announcements are exact, every one of them finds room.          *)
Fits == Exact /\ NotifyFull =>
            /\ rpc = "announce" => todo = 0
            /\ \A p \in Producers : ppc[p] = "send" => ~notification_queue[p]

LEMMA FitNow == IndInv => Fits
<1> SUFFICES ASSUME IndInv, Exact, NotifyFull
             PROVE  /\ rpc = "announce" => todo = 0
                    /\ \A p \in Producers : ppc[p] = "send" => ~notification_queue[p]
  BY DEF Fits
<1>1. Types /\ Held /\ CountsOK /\ \A q \in Queues : Values(q) = Announcements(q)
  BY CountsNow DEF IndInv, Shape, AllCounted
<1>2. Len(notify) \in Nat /\ summedLength \in Nat /\ Len(notify) >= summedLength
  BY <1>1, LenProperties, PlacesFinite DEF Types, NotifyFull, summedLength
<1>3. ~Ended
  <2>1. Working \cap SettingUp = {}
    BY DEF Working, SettingUp
  <2> QED BY <2>1 DEF IndInv, Shape, Released, Exact
<1>4. \A q \in Queues : Cardinality(Nts(q)) <= Length[q]
  <2>1. ASSUME NEW q \in Queues PROVE Cardinality(Nts(q)) <= Length[q]
    <3>1. Cardinality(Nts(q)) <= Announcements(q) /\ Cardinality(Nts(q)) \in Nat /\ Announcements(q) \in Nat
      BY <1>1 DEF CountsOK
    <3>2. Announcements(q) <= Length[q] /\ Length[q] \in Nat
      BY <1>1, ValuesFit, LengthAssumption
    <3> QED BY <3>1, <3>2
  <2> QED BY <2>1
<1>5. ASSUME NEW q \in Queues PROVE Cardinality(Nts(q)) >= Announcements(q)
  <2>1. SUFFICES ASSUME Cardinality(Nts(q)) < Announcements(q) PROVE FALSE
    BY <1>1 DEF CountsOK
  <2>2. Announcements(q) <= Length[q] /\ Length[q] \in Nat /\ Announcements(q) \in Nat /\ Cardinality(Nts(q)) \in Nat
    BY <1>1, ValuesFit, LengthAssumption DEF CountsOK
  <2>3. Cardinality(Nts(q)) < Length[q]
    BY <2>1, <2>2
  <2>4. Len(notify) < summedLength
    BY <1>1, <1>3, <1>4, <2>3, RoomLeft
  <2> QED BY <1>2, <2>4
<1>6. ASSUME rpc = "announce", todo # 0 PROVE FALSE
  <2>1. Todo(at) >= 1 /\ at \in Queues
    BY <1>1, <1>6 DEF Todo, Types
  <2>2. Cardinality(Nts(at)) + 1 <= Announcements(at)
    BY <1>1, <2>1 DEF CountsOK
  <2> QED BY <1>1, <1>5, <2>1, <2>2 DEF CountsOK
<1>7. ASSUME NEW p \in Producers, ppc[p] = "send", notification_queue[p] PROVE FALSE
  <2> DEFINE q == target[p]
  <2>1. p \in Snd(q) /\ q \in Queues
    BY <1>1, <1>7 DEF Snd, AtQueue, Types
  <2> HIDE DEF q
  <2>2. Cardinality(Snd(q)) >= 1
    <3>1. Cardinality(Snd(q)) # 0
      BY <1>1, <2>1, FS_EmptySet DEF CountsOK
    <3> QED BY <1>1, <2>1, <3>1 DEF CountsOK
  <2>3. Cardinality(Nts(q)) + 1 <= Announcements(q)
    BY <1>1, <2>1, <2>2 DEF CountsOK
  <2> QED BY <1>1, <1>5, <2>1, <2>3 DEF CountsOK
<1> QED BY <1>6, <1>7

(* A full notification queue leaves a queue without unannounced values.       *)
LEMMA FullCovers ==
  ASSUME Types, Held, ~Ended, NotifyFull
  PROVE  \E q \in Queues : Values(q) <= Cardinality(Nts(q))
<1> SUFFICES ASSUME \A q \in Queues : ~(Values(q) <= Cardinality(Nts(q))) PROVE FALSE
  OBVIOUS
<1>1. CountsOK
  BY CountsNow
<1>2. ASSUME NEW q \in Queues PROVE Cardinality(Nts(q)) < Length[q]
  <2>1. Values(q) \in Nat /\ Cardinality(Nts(q)) \in Nat /\ Length[q] \in Nat
    BY <1>1, LengthAssumption DEF CountsOK
  <2>2. Values(q) <= Length[q]
    BY ValuesFit
  <2> QED BY <2>1, <2>2
<1>3. \A q \in Queues : Cardinality(Nts(q)) <= Length[q]
  <2>1. \A q \in Queues : Cardinality(Nts(q)) \in Nat /\ Length[q] \in Nat
    BY <1>1, LengthAssumption DEF CountsOK
  <2> QED BY <1>2, <2>1
<1>4. 0 \in Queues
  BY QueueRange
<1>5. Len(notify) < summedLength
  BY <1>2, <1>3, <1>4, RoomLeft
<1>6. Len(notify) \in Nat /\ summedLength \in Nat
  BY LenProperties, PlacesFinite DEF Types, summedLength
<1> QED BY <1>5, <1>6 DEF NotifyFull

-----------------------------------------------------------------------------
(* What the steps do to the queues.                                           *)

Row == Seq(Producers \cup {Nobody})

(* The four ways in which the places of a queue change: one is added at the   *)
(* end, the last one is locked, those of p are published, the first is freed. *)
Added(s, t, p)  == Len(t) = Len(s) + 1 /\ t[Len(s) + 1] = p /\ \A k \in 1 .. Len(s) : t[k] = s[k]
Locked(s, t, p) == /\ Len(t) = Len(s) /\ Len(s) \in 1 .. Len(s) /\ s[Len(s)] = Nobody /\ t[Len(s)] = p
                   /\ \A k \in 1 .. Len(s) : k # Len(s) => t[k] = s[k]
Shown(s, t, p)  == Len(t) = Len(s) /\ \A k \in 1 .. Len(s) : t[k] = IF s[k] = p THEN Nobody ELSE s[k]
Freed(s, t)     == /\ Len(s) \in Nat \ {0} /\ Len(t) = Len(s) - 1 /\ s[1] = Nobody
                   /\ \A k \in 1 .. Len(s) - 1 : t[k] = s[k + 1]

OnlyRow(q) == \A r \in Queues \ {q} : data'[r] = data[r]

LEMMA RowFacts ==
  ASSUME Types, NEW q \in Queues
  PROVE  /\ data[q] \in Row /\ Len(data[q]) \in Nat /\ DOMAIN data[q] = 1 .. Len(data[q])
         /\ Len(data[q]) <= Length[q]
BY LenProperties DEF Types, Row

LEMMA PushRow ==
  ASSUME Types, NEW p \in Producers, NEW q \in Queues, Push(p, q)
  PROVE  /\ data' \in [Queues -> Row] /\ OnlyRow(q) /\ Added(data[q], data'[q], p)
         /\ Len(data'[q]) <= Length[q]
<1>1. data' = [data EXCEPT ![q] = Append(data[q], p)] /\ Len(data[q]) < Length[q]
  BY DEF Push
<1>2. data[q] \in Row /\ Len(data[q]) \in Nat /\ p \in Producers \cup {Nobody} /\ Length[q] \in Nat
  BY RowFacts, LengthAssumption
<1>3. /\ Append(data[q], p) \in Row /\ Len(Append(data[q], p)) = Len(data[q]) + 1
      /\ \A k \in 1 .. Len(data[q]) : Append(data[q], p)[k] = data[q][k]
      /\ Append(data[q], p)[Len(data[q]) + 1] = p
  BY <1>2, AppendProperties DEF Row
<1>4. data' \in [Queues -> Row] /\ OnlyRow(q) /\ data'[q] = Append(data[q], p)
  BY <1>1, <1>3 DEF Types, Row, OnlyRow
<1> QED BY <1>1, <1>2, <1>3, <1>4 DEF Added

LEMMA OverwriteRow ==
  ASSUME Types, NEW p \in Producers, NEW q \in Queues, OverwriteLast(p, q)
  PROVE  /\ data' \in [Queues -> Row] /\ OnlyRow(q) /\ Locked(data[q], data'[q], p)
         /\ Len(data'[q]) <= Length[q]
<1> DEFINE s == data[q]
           n == Len(s)
           t == [s EXCEPT ![n] = p]
<1>1. /\ data' = [data EXCEPT ![q] = [data[q] EXCEPT ![Length[q]] = p]]
      /\ n = Length[q] /\ s[Length[q]] = Nobody
  BY DEF OverwriteLast
<1>2. s \in Row /\ n \in 1 .. n /\ p \in Producers \cup {Nobody} /\ data \in [Queues -> Row]
  <2>1. Length[q] \in Nat \ {0}
    BY LengthAssumption
  <2>2. s \in Row /\ data \in [Queues -> Row]
    BY DEF Types, Row
  <2> QED BY <1>1, <2>1, <2>2
<1>3. t \in Row /\ Len(t) = n /\ \A k \in 1 .. n : t[k] = IF k = n THEN p ELSE s[k]
  <2> HIDE DEF s, n
  <2> QED BY <1>2, ExceptSeq DEF Row, n
<1>4. data' = [data EXCEPT ![q] = t] /\ n <= Length[q] /\ s[n] = Nobody
  BY <1>1, <1>2, LengthAssumption
<1> HIDE DEF t
<1>5. data' \in [Queues -> Row] /\ OnlyRow(q) /\ data'[q] = t
  BY <1>2, <1>3, <1>4 DEF OnlyRow
<1> QED BY <1>2, <1>3, <1>4, <1>5 DEF Locked

LEMMA PostRow ==
  ASSUME Types, NEW p \in Producers, Post(p), NEW q \in Queues, q = target[p]
  PROVE  /\ data' \in [Queues -> Row] /\ OnlyRow(q) /\ Shown(data[q], data'[q], p)
         /\ Len(data'[q]) <= Length[q]
<1> DEFINE s == data[q]
           t == Published(s, p)
<1>1. data' = [data EXCEPT ![q] = t]
  BY DEF Post
<1>2. s \in Row /\ Len(s) \in Nat /\ DOMAIN s = 1 .. Len(s) /\ Len(s) <= Length[q] /\ data \in [Queues -> Row]
  BY RowFacts DEF Types, Row
<1>3. t \in Row /\ Len(t) = Len(s) /\ \A k \in 1 .. Len(s) : t[k] = IF s[k] = p THEN Nobody ELSE s[k]
  <2>1. \A k \in 1 .. Len(s) : s[k] \in Producers \cup {Nobody}
    BY <1>2, ElementOfSeq DEF Row
  <2>2. t = [k \in 1 .. Len(s) |-> IF s[k] = p THEN Nobody ELSE s[k]]
    BY <1>2 DEF Published
  <2> HIDE DEF s, t
  <2> QED BY <1>2, <2>1, <2>2 DEF Row
<1> HIDE DEF t
<1>4. data' \in [Queues -> Row] /\ OnlyRow(q) /\ data'[q] = t
  BY <1>1, <1>2, <1>3 DEF OnlyRow
<1> QED BY <1>2, <1>3, <1>4 DEF Shown

LEMMA PopRow ==
  ASSUME Types, NEW q \in Queues, ReadyFront(q), data' = [data EXCEPT ![q] = Tail(@)]
  PROVE  /\ data' \in [Queues -> Row] /\ OnlyRow(q) /\ Freed(data[q], data'[q])
         /\ Len(data'[q]) <= Length[q]
<1>1. /\ data[q] \in Row /\ data[q] # <<>> /\ data[q][1] = Nobody /\ Len(data[q]) \in Nat
      /\ Len(data[q]) <= Length[q] /\ Length[q] \in Nat
  BY RowFacts, LengthAssumption DEF ReadyFront
<1>2. /\ Tail(data[q]) \in Row /\ Len(Tail(data[q])) = Len(data[q]) - 1
      /\ \A k \in 1 .. Len(Tail(data[q])) : Tail(data[q])[k] = data[q][k + 1]
  BY <1>1, HeadTailProperties DEF Row
<1>3. Len(data[q]) # 0
  BY <1>1, EmptySeq DEF Row
<1>4. data' \in [Queues -> Row] /\ OnlyRow(q) /\ data'[q] = Tail(data[q])
  BY <1>2 DEF Types, Row, OnlyRow
<1> QED BY <1>1, <1>2, <1>3, <1>4 DEF Freed

(* The notification queue: what was sent, by queue.                           *)
MoreSent(q) == /\ Len(notify') = Len(notify) + 1 /\ Sent'[Len(notify) + 1] = q
               /\ \A k \in 1 .. Len(notify) : Sent'[k] = Sent[k]
SameSent    == Len(notify') = Len(notify) /\ \A k \in 1 .. Len(notify) : Sent'[k] = Sent[k]
LessSent(q) == /\ Len(notify) \in Nat \ {0} /\ Len(notify') = Len(notify) - 1 /\ Sent[1] = q
               /\ \A k \in 1 .. Len(notify) - 1 : Sent'[k] = Sent[k + 1]

LEMMA NoteFacts ==
  ASSUME Types
  PROVE  /\ Len(notify) \in Nat /\ DOMAIN notify = 1 .. Len(notify)
         /\ \A k \in 1 .. Len(notify) : notify[k] \in Note /\ Sent[k] = notify[k].id
<1>1. Len(notify) \in Nat /\ DOMAIN notify = 1 .. Len(notify)
  BY LenProperties DEF Types
<1>2. \A k \in 1 .. Len(notify) : notify[k] \in Note
  BY ElementOfSeq DEF Types
<1> QED BY <1>1, <1>2 DEF Sent

LEMMA SentAppend ==
  ASSUME Types, NEW n \in Note, notify' = Append(notify, n)
  PROVE  notify' \in Seq(Note) /\ MoreSent(n.id)
<1>1. /\ notify' \in Seq(Note) /\ Len(notify') = Len(notify) + 1 /\ Len(notify) \in Nat
      /\ \A k \in 1 .. Len(notify) : notify'[k] = notify[k]
      /\ notify'[Len(notify) + 1] = n
  BY AppendProperties, NoteFacts DEF Types
<1>2. DOMAIN notify' = 1 .. Len(notify) + 1
  BY <1>1, LenProperties
<1>3. \A k \in 1 .. Len(notify) + 1 : Sent'[k] = notify'[k].id
  BY <1>2 DEF Sent
<1>4. /\ \A k \in 1 .. Len(notify) : k \in 1 .. Len(notify) + 1
      /\ Len(notify) + 1 \in 1 .. Len(notify) + 1
  BY <1>1
<1> QED BY <1>1, <1>3, <1>4, NoteFacts DEF MoreSent

LEMMA SentShown ==
  ASSUME Types, NEW p \in Producers, SendPublish(p)
  PROVE  notify' \in Seq(Note) /\ SameSent
<1> DEFINE n == Len(notify)
<1>1. n \in Nat /\ DOMAIN notify = 1 .. n /\ \A k \in 1 .. n : notify[k] \in Note /\ Sent[k] = notify[k].id
  BY NoteFacts
<1>2. notify' = [k \in 1 .. n |-> IF notify[k].by = p THEN [notify[k] EXCEPT !.by = Nobody] ELSE notify[k]]
  BY <1>1 DEF SendPublish
<1> HIDE DEF n
<1>3. ASSUME NEW k \in 1 .. n
      PROVE  notify'[k] \in Note /\ notify'[k].id = notify[k].id
  BY <1>1, <1>2 DEF Note
<1>4. notify' \in Seq(Note) /\ Len(notify') = n /\ DOMAIN notify' = 1 .. n
  BY <1>1, <1>2, <1>3
<1> QED BY <1>1, <1>3, <1>4 DEF SameSent, Sent, n

LEMMA SentRemoved ==
  ASSUME Types, notify # <<>>, notify' = Tail(notify)
  PROVE  notify' \in Seq(Note) /\ Head(notify).id \in Ids /\ LessSent(Head(notify).id)
<1> DEFINE n == Len(notify)
<1>1. n \in Nat /\ DOMAIN notify = 1 .. n /\ \A k \in 1 .. n : notify[k] \in Note /\ Sent[k] = notify[k].id
  BY NoteFacts
<1>2. n # 0
  BY <1>1, EmptySeq DEF Types
<1>3. /\ notify' \in Seq(Note) /\ Len(notify') = n - 1
      /\ \A k \in 1 .. n - 1 : notify'[k] = notify[k + 1]
  BY HeadTailProperties DEF Types
<1>4. DOMAIN notify' = 1 .. n - 1
  BY <1>3, LenProperties
<1>5. Head(notify) = notify[1] /\ notify[1] \in Note
  BY <1>1, <1>2
<1> HIDE DEF n
<1>6. \A k \in 1 .. n - 1 : Sent'[k] = notify'[k].id
  BY <1>4 DEF Sent
<1>7. \A k \in 1 .. n - 1 : k + 1 \in 1 .. n
  BY <1>1
<1>8. \A k \in 1 .. n - 1 : Sent'[k] = Sent[k + 1]
  BY <1>1, <1>3, <1>6, <1>7
<1>9. Sent[1] = Head(notify).id /\ Head(notify).id \in Ids
  BY <1>1, <1>2, <1>5 DEF Note
<1> QED BY <1>1, <1>2, <1>3, <1>8, <1>9 DEF LessSent, n

-----------------------------------------------------------------------------
(* Announced once: the steps of a producer.                                   *)

(* Only p moves.                                                              *)
OnlyMover(p) ==
    \A o \in Producers \ {p} :
        ppc'[o] = ppc[o] /\ target'[o] = target[o] /\ notification_queue'[o] = notification_queue[o]

LEMMA ProducerMoves ==
  ASSUME Types, Types', NEW p \in Producers, OnlyMover(p), NEW q \in Queues
  PROVE  /\ Cardinality(Mid(q)') = Cardinality(Mid(q)) - One(p \in Mid(q)) + One(p \in Mid(q)')
         /\ Cardinality(Snd(q)') = Cardinality(Snd(q)) - One(p \in Snd(q)) + One(p \in Snd(q)')
<1>1. Mid(q) \ {p} = Mid(q)' \ {p}
  BY DEF Mid, AtQueue, OnlyMover
<1>2. Snd(q) \ {p} = Snd(q)' \ {p}
  BY DEF Snd, AtQueue, OnlyMover
<1>3. IsFiniteSet(Mid(q)) /\ IsFiniteSet(Snd(q))
  BY CountsNow DEF CountsOK
<1> QED BY <1>1, <1>2, <1>3, CountMoves

LEMMA SamePub ==
  ASSUME NEW q \in Queues, data'[q] = data[q]
  PROVE  Pub(q)' = Pub(q)
BY DEF Pub, Positions

LEMMA SameNotes == ASSUME UNCHANGED notify PROVE \A q \in Queues : Nts(q)' = Nts(q)
BY DEF Nts, Sent, Positions

LEMMA MoreNotes ==
  ASSUME Types, Types', NEW q, MoreSent(q), NEW r \in Queues
  PROVE  Cardinality(Nts(r)') = Cardinality(Nts(r)) + One(r = q)
<1> DEFINE n == Len(notify)
<1>1. n \in Nat /\ Len(notify') = n + 1 /\ Sent'[n + 1] = q /\ \A k \in 1 .. n : Sent'[k] = Sent[k]
  BY NoteFacts DEF MoreSent
<1>2. Nts(r)' = {k \in 1 .. n + 1 : Sent'[k] = r} /\ Nts(r) = {k \in 1 .. n : Sent[k] = r}
  BY <1>1 DEF Nts, Positions
<1> HIDE DEF n
<1>3. Nts(r) \ {n + 1} = Nts(r)' \ {n + 1} /\ n + 1 \notin Nts(r) /\ (n + 1 \in Nts(r)' <=> r = q)
  BY <1>1, <1>2
<1>4. IsFiniteSet(Nts(r)) /\ Cardinality(Nts(r)) \in Nat
  BY CountsNow DEF CountsOK
<1>5. Cardinality(Nts(r)') = Cardinality(Nts(r)) - One(n + 1 \in Nts(r)) + One(n + 1 \in Nts(r)')
  BY <1>3, <1>4, CountMoves
<1> QED BY <1>3, <1>4, <1>5 DEF One

LEMMA LessNotes ==
  ASSUME Types, NEW q, LessSent(q), NEW r \in Queues
  PROVE  Cardinality(Nts(r)) = Cardinality(Nts(r)') + One(r = q)
<1> DEFINE n == Len(notify)
<1>1. n \in Nat \ {0} /\ Len(notify') = n - 1 /\ Sent[1] = q /\ \A k \in 1 .. n - 1 : Sent'[k] = Sent[k + 1]
  BY DEF LessSent
<1>2. Nts(r)' = Positions(Sent', n - 1, r) /\ Nts(r) = Positions(Sent, n, r)
  BY <1>1 DEF Nts, Positions
<1> HIDE DEF n
<1>3. Cardinality(Positions(Sent, n, r)) = Cardinality(Positions(Sent', n - 1, r)) + One(Sent[1] = r)
  BY <1>1, CountTail
<1> QED BY <1>1, <1>2, <1>3 DEF One

(* The published values under the four changes of a queue.                    *)
LEMMA PubAdded ==
  ASSUME Types, Types', NEW q \in Queues, NEW p \in Producers, Added(data[q], data'[q], p)
  PROVE  Cardinality(Pub(q)') = Cardinality(Pub(q))
<1> DEFINE n == Len(data[q])
<1>1. /\ n \in Nat /\ Len(data'[q]) = n + 1 /\ data'[q][n + 1] = p /\ p # Nobody
      /\ \A k \in 1 .. n : data'[q][k] = data[q][k]
  BY RowFacts, ProducersAssumption DEF Added
<1>2. Pub(q)' = {k \in 1 .. n + 1 : data'[q][k] = Nobody} /\ Pub(q) = {k \in 1 .. n : data[q][k] = Nobody}
  BY <1>1 DEF Pub, Positions
<1> HIDE DEF n
<1>3. Pub(q)' = Pub(q)
  BY <1>1, <1>2
<1> QED BY <1>3

LEMMA PubLocked ==
  ASSUME Types, Types', NEW q \in Queues, NEW p \in Producers, Locked(data[q], data'[q], p)
  PROVE  Cardinality(Pub(q)') = Cardinality(Pub(q)) - 1
<1> DEFINE n == Len(data[q])
<1>1. /\ n \in 1 .. n /\ n \in Nat /\ Len(data'[q]) = n /\ data[q][n] = Nobody /\ data'[q][n] = p /\ p # Nobody
      /\ \A k \in 1 .. n : k # n => data'[q][k] = data[q][k]
  BY RowFacts, ProducersAssumption DEF Locked
<1>2. Pub(q)' = {k \in 1 .. n : data'[q][k] = Nobody} /\ Pub(q) = {k \in 1 .. n : data[q][k] = Nobody}
  BY <1>1 DEF Pub, Positions
<1> HIDE DEF n
<1>3. Pub(q) \ {n} = Pub(q)' \ {n} /\ n \in Pub(q) /\ n \notin Pub(q)'
  BY <1>1, <1>2
<1>4. IsFiniteSet(Pub(q)) /\ Cardinality(Pub(q)) \in Nat
  BY CountsNow DEF CountsOK
<1>5. Cardinality(Pub(q)') = Cardinality(Pub(q)) - One(n \in Pub(q)) + One(n \in Pub(q)')
  BY <1>3, <1>4, CountMoves
<1> QED BY <1>3, <1>4, <1>5 DEF One

LEMMA PubShown ==
  ASSUME Types, Types', Held, NEW q \in Queues, NEW p \in Producers, target[p] = q, ppc[p] \in Holding,
         Shown(data[q], data'[q], p)
  PROVE  Cardinality(Pub(q)') = Cardinality(Pub(q)) + 1
<1> DEFINE n == Len(data[q])
<1>1. /\ n \in Nat /\ DOMAIN data[q] = 1 .. n /\ Len(data'[q]) = n /\ p # Nobody
      /\ \A k \in 1 .. n : data'[q][k] = IF data[q][k] = p THEN Nobody ELSE data[q][k]
  BY RowFacts, ProducersAssumption DEF Shown
<1>2. PICK j \in 1 .. n : data[q][j] = p
  BY <1>1 DEF Held
<1>3. \A k \in 1 .. n : data[q][k] = p => k = j
  BY <1>1, <1>2 DEF Held
<1>4. Pub(q)' = {k \in 1 .. n : data'[q][k] = Nobody} /\ Pub(q) = {k \in 1 .. n : data[q][k] = Nobody}
  BY <1>1 DEF Pub, Positions
<1> HIDE DEF n
<1>5. Pub(q) \ {j} = Pub(q)' \ {j} /\ j \notin Pub(q) /\ j \in Pub(q)'
  BY <1>1, <1>2, <1>3, <1>4
<1>6. IsFiniteSet(Pub(q)) /\ Cardinality(Pub(q)) \in Nat
  BY CountsNow DEF CountsOK
<1>7. Cardinality(Pub(q)') = Cardinality(Pub(q)) - One(j \in Pub(q)) + One(j \in Pub(q)')
  BY <1>5, <1>6, CountMoves
<1> QED BY <1>5, <1>6, <1>7 DEF One

LEMMA PubFreed ==
  ASSUME Types, NEW q \in Queues, Freed(data[q], data'[q])
  PROVE  Cardinality(Pub(q)) = Cardinality(Pub(q)') + 1
<1> DEFINE n == Len(data[q])
<1>1. /\ n \in Nat \ {0} /\ Len(data'[q]) = n - 1 /\ data[q][1] = Nobody
      /\ \A k \in 1 .. n - 1 : data'[q][k] = data[q][k + 1]
  BY DEF Freed
<1>2. Pub(q)' = Positions(data'[q], n - 1, Nobody) /\ Pub(q) = Positions(data[q], n, Nobody)
  BY <1>1 DEF Pub, Positions
<1> HIDE DEF n
<1>3. Cardinality(Positions(data[q], n, Nobody))
        = Cardinality(Positions(data'[q], n - 1, Nobody)) + One(data[q][1] = Nobody)
  BY <1>1, CountTail
<1> QED BY <1>1, <1>2, <1>3 DEF One

-----------------------------------------------------------------------------
(* Types.                                                                     *)

LEMMA RowsTyped ==
  ASSUME Types, NEW q \in Queues, data' \in [Queues -> Row], OnlyRow(q), Len(data'[q]) <= Length[q]
  PROVE  data' \in [Queues -> Seq(Producers \cup {Nobody})] /\ \A r \in Queues : Len(data'[r]) <= Length[r]
BY DEF Types, OnlyRow, Row

LEMMA InfoCounted ==
  ASSUME Types, NEW p \in Producers, GetNotificationQueue(p), NEW t \in Queues, t = target[p]
  PROVE  /\ info' \in [Queues -> [notifyerQueue : BOOLEAN, previousData : Nat]]
         /\ \A r \in Queues :
              /\ info'[r].notifyerQueue = info[r].notifyerQueue
              /\ info'[r].previousData = info[r].previousData + One(r = t /\ ~info[t].notifyerQueue)
<1> DEFINE new == [info[t] EXCEPT !.previousData = info[t].previousData + 1]
<1>1. info \in [Queues -> [notifyerQueue : BOOLEAN, previousData : Nat]]
  BY DEF Types
<1>2. /\ new \in [notifyerQueue : BOOLEAN, previousData : Nat]
      /\ new.notifyerQueue = info[t].notifyerQueue /\ new.previousData = info[t].previousData + 1
  BY <1>1
<1>3. info' = IF info[t].notifyerQueue THEN info ELSE [info EXCEPT ![t] = new]
  BY DEF GetNotificationQueue, Counted
<1> HIDE DEF new
<1>4. CASE info[t].notifyerQueue
  BY <1>1, <1>3, <1>4 DEF One
<1>5. CASE ~info[t].notifyerQueue
  BY <1>1, <1>2, <1>3, <1>5 DEF One
<1> QED BY <1>4, <1>5

LEMMA PushTypes ==
  ASSUME Types, NEW p \in Producers, PushingStep(p)
  PROVE  Types' /\ OnlyMover(p)
<1>1. ASSUME NEW q \in Queues, Push(p, q) PROVE Types' /\ OnlyMover(p)
  <2>1. data' \in [Queues -> Seq(Producers \cup {Nobody})] /\ \A r \in Queues : Len(data'[r]) <= Length[r]
    BY <1>1, PushRow, RowsTyped
  <2> QED BY <1>1, <2>1 DEF Push, Call, Types, OnlyMover, receiver
<1>2. ASSUME NEW q \in Queues, OverwriteLast(p, q) PROVE Types' /\ OnlyMover(p)
  <2>1. data' \in [Queues -> Seq(Producers \cup {Nobody})] /\ \A r \in Queues : Len(data'[r]) <= Length[r]
    BY <1>2, OverwriteRow, RowsTyped
  <2> QED BY <1>2, <2>1 DEF OverwriteLast, Call, Types, OnlyMover, receiver
<1>3. ASSUME GetNotificationQueue(p) PROVE Types' /\ OnlyMover(p)
  <2>0. target[p] \in Queues
    BY DEF Types
  <2>1. info' \in [Queues -> [notifyerQueue : BOOLEAN, previousData : Nat]]
    BY <1>3, <2>0, InfoCounted
  <2> QED BY <1>3, <2>1 DEF GetNotificationQueue, Step, After, Types, OnlyMover, receiver
<1>4. ASSUME Post(p) PROVE Types' /\ OnlyMover(p)
  <2>1. PICK q \in Queues : q = target[p]
    BY DEF Types
  <2>2. data' \in [Queues -> Seq(Producers \cup {Nobody})] /\ \A r \in Queues : Len(data'[r]) <= Length[r]
    BY <1>4, <2>1, PostRow, RowsTyped
  <2> QED BY <1>4, <2>2 DEF Post, Step, After, Types, OnlyMover, receiver
<1>5. ASSUME SendReserve(p) PROVE Types' /\ OnlyMover(p)
  <2>1. [id |-> target[p], by |-> p] \in Note
    BY DEF Types, Note, Ids
  <2>2. notify' \in Seq(Note)
    BY <1>5, <2>1, SentAppend DEF SendReserve
  <2> QED BY <1>5, <2>2 DEF SendReserve, Step, After, Types, OnlyMover, receiver
<1>6. ASSUME SendPublish(p) PROVE Types' /\ OnlyMover(p)
  <2>1. notify' \in Seq(Note)
    BY <1>6, SentShown
  <2> QED BY <1>6, <2>1 DEF SendPublish, Step, After, Types, OnlyMover, receiver
<1>7. ASSUME SendNothing(p) PROVE Types' /\ OnlyMover(p)
  BY <1>7 DEF SendNothing, After, Types, OnlyMover, receiver, queues
<1> QED BY <1>1, <1>2, <1>3, <1>4, <1>5, <1>6, <1>7 DEF PushingStep, PushStep

-----------------------------------------------------------------------------
(* Announced once, step by step.                                              *)

LEMMA SumMoves ==
  ASSUME NEW a \in Int, NEW t \in Int, NEW s \in Int, NEW n \in Int, NEW e \in Int,
         NEW a2 \in Int, NEW s2 \in Int, NEW n2 \in Int, NEW i \in Int, NEW i2 \in Int, s2 = s - i + i2
  PROVE  a2 + t + s2 + n2 + e = (a + t + s + n + e) + ((a2 - a) - i + i2 + (n2 - n))
OBVIOUS

(* A push keeps values and announcements in step, unless it gives up sending. *)
LEMMA PushBalance ==
  ASSUME Types, Types', Held, NEW p \in Producers, PushingStep(p), ~(SendNothing(p) /\ notification_queue[p]),
         NEW r \in Queues
  PROVE  Values(r)' - Announcements(r)' = Values(r) - Announcements(r)
<1> DEFINE inMid  == One(p \in Mid(r))
           inMid2 == One(p \in Mid(r)')
           inSnd  == One(p \in Snd(r))
           inSnd2 == One(p \in Snd(r)')
           Balance == Cardinality(Pub(r)') - Cardinality(Pub(r)) - inMid + inMid2
                        = (info'[r].previousData - info[r].previousData) - inSnd + inSnd2
                          + (Cardinality(Nts(r)') - Cardinality(Nts(r)))
<1>0. CountsOK /\ CountsOK' /\ OnlyMover(p)
  BY CountsNow, CountsNext, PushTypes
<1>1. /\ Cardinality(Mid(r)') = Cardinality(Mid(r)) - inMid + inMid2
      /\ Cardinality(Snd(r)') = Cardinality(Snd(r)) - inSnd + inSnd2
  BY <1>0, ProducerMoves
<1>2. UNCHANGED receiver
  BY DEF PushingStep, Push, OverwriteLast, Call, PushStep, GetNotificationQueue, Post, SendReserve,
     SendPublish, SendNothing
<1>3. Todo(r)' = Todo(r) /\ Popping(r)' = Popping(r)
  BY <1>2 DEF receiver, Todo, Popping, One
<1>4. PICK t \in Queues : t = target[p]
  BY DEF Types
<1>6. inMid \in {0, 1} /\ inMid2 \in {0, 1} /\ inSnd \in {0, 1} /\ inSnd2 \in {0, 1}
  BY DEF One
<1>7. SUFFICES Balance
  <2> HIDE DEF inMid, inMid2, inSnd, inSnd2
  <2>1. /\ Values(r) = Cardinality(Pub(r)) + Cardinality(Mid(r))
        /\ Announcements(r) = info[r].previousData + Todo(r) + Cardinality(Snd(r)) + Cardinality(Nts(r)) + Popping(r)
        /\ Cardinality(Pub(r)) \in Nat /\ Cardinality(Mid(r)) \in Nat /\ info[r].previousData \in Nat
        /\ Todo(r) \in Nat /\ Cardinality(Snd(r)) \in Nat /\ Cardinality(Nts(r)) \in Nat /\ Popping(r) \in {0, 1}
    BY <1>0 DEF CountsOK
  <2>2. /\ Values(r)' = Cardinality(Pub(r)') + Cardinality(Mid(r)')
        /\ Announcements(r)' = info'[r].previousData + Todo(r)' + Cardinality(Snd(r)') + Cardinality(Nts(r)') + Popping(r)'
        /\ Cardinality(Pub(r)') \in Nat /\ info'[r].previousData \in Nat /\ Cardinality(Nts(r)') \in Nat
    BY <1>0 DEF CountsOK
  <2>3. Values(r)' = Values(r) + (Cardinality(Pub(r)') - Cardinality(Pub(r)) - inMid + inMid2)
    BY <1>1, <1>6, <2>1, <2>2
  <2>4. Announcements(r)' = Announcements(r) + ((info'[r].previousData - info[r].previousData) - inSnd + inSnd2
                                                + (Cardinality(Nts(r)') - Cardinality(Nts(r))))
    <3>1. /\ info[r].previousData \in Int /\ Todo(r) \in Int /\ Cardinality(Snd(r)) \in Int
          /\ Cardinality(Nts(r)) \in Int /\ Popping(r) \in Int
      BY <2>1
    <3>2. /\ info'[r].previousData \in Int /\ Cardinality(Nts(r)') \in Int /\ inSnd \in Int /\ inSnd2 \in Int
      BY <1>6, <2>2
    <3>3. Cardinality(Snd(r)') \in Int
      BY <1>1, <3>1, <3>2
    <3>4. info'[r].previousData + Todo(r) + Cardinality(Snd(r)') + Cardinality(Nts(r)') + Popping(r)
            = (info[r].previousData + Todo(r) + Cardinality(Snd(r)) + Cardinality(Nts(r)) + Popping(r))
              + ((info'[r].previousData - info[r].previousData) - inSnd + inSnd2
                 + (Cardinality(Nts(r)') - Cardinality(Nts(r))))
      BY <1>1, <3>1, <3>2, <3>3, SumMoves
    <3> QED BY <1>3, <2>1, <2>2, <3>4
  <2>5. Values(r) \in Int /\ Announcements(r) \in Int
    BY <2>1
  <2> DEFINE up == Cardinality(Pub(r)') - Cardinality(Pub(r)) - inMid + inMid2
             sent == (info'[r].previousData - info[r].previousData) - inSnd + inSnd2
                       + (Cardinality(Nts(r)') - Cardinality(Nts(r)))
  <2>6. up \in Int /\ sent \in Int /\ up = sent
    BY <1>6, <1>7, <2>1, <2>2
  <2> HIDE DEF up, sent
  <2>7. Values(r)' = Values(r) + up /\ Announcements(r)' = Announcements(r) + sent
    BY <2>3, <2>4 DEF up, sent
  <2> QED BY <2>5, <2>6, <2>7
<1> HIDE DEF inMid, inMid2, inSnd, inSnd2
<1>8. /\ Cardinality(Pub(r)) \in Nat /\ Cardinality(Pub(r)') \in Nat /\ info[r].previousData \in Nat
      /\ info'[r].previousData \in Nat /\ Cardinality(Nts(r)) \in Nat /\ Cardinality(Nts(r)') \in Nat
  BY <1>0 DEF CountsOK
<1>9. ASSUME UNCHANGED notify PROVE Cardinality(Nts(r)') = Cardinality(Nts(r))
  BY <1>9, SameNotes
<1>10. ASSUME NEW q \in Queues, Push(p, q) PROVE Balance
  <2>1. ppc[p] = "idle" /\ ppc'[p] = "count" /\ UNCHANGED <<info, notify>>
    BY <1>10 DEF Push, Call, Types
  <2>2. inMid = 0 /\ inMid2 = 0 /\ inSnd = 0 /\ inSnd2 = 0
    BY <2>1 DEF inMid, inMid2, inSnd, inSnd2, Mid, Snd, AtQueue, One
  <2>3. Cardinality(Pub(r)') = Cardinality(Pub(r))
    <3>1. CASE r = q
      BY <1>10, <3>1, PushRow, PubAdded
    <3>2. CASE r # q
      BY <1>10, <3>2, PushRow, SamePub DEF OnlyRow
    <3> QED BY <3>1, <3>2
  <2> QED BY <1>8, <1>9, <2>1, <2>2, <2>3
<1>11. ASSUME NEW q \in Queues, OverwriteLast(p, q) PROVE Balance
  <2>1. ppc[p] = "idle" /\ ppc'[p] = "replace" /\ target'[p] = q /\ UNCHANGED <<info, notify>>
    BY <1>11 DEF OverwriteLast, Call, Types
  <2>2. inMid = 0 /\ inMid2 = One(r = q) /\ inSnd = 0 /\ inSnd2 = 0
    BY <2>1 DEF inMid, inMid2, inSnd, inSnd2, Mid, Snd, AtQueue, One
  <2>3. Cardinality(Pub(r)') = Cardinality(Pub(r)) - One(r = q)
    <3>1. CASE r = q
      BY <1>11, <3>1, OverwriteRow, PubLocked DEF One
    <3>2. CASE r # q
      BY <1>8, <1>11, <3>2, OverwriteRow, SamePub DEF OnlyRow, One
    <3> QED BY <3>1, <3>2
  <2> QED BY <1>8, <1>9, <2>1, <2>2, <2>3 DEF One
<1>12. ASSUME GetNotificationQueue(p) PROVE Balance
  <2>1. /\ ppc[p] = "count" /\ ppc'[p] = "post" /\ target'[p] = t /\ UNCHANGED <<data, notify>>
        /\ notification_queue'[p] = info[t].notifyerQueue
    BY <1>4, <1>12 DEF GetNotificationQueue, Step, After, Types
  <2>2. inMid = 0 /\ inMid2 = One(r = t) /\ inSnd = 0 /\ inSnd2 = One(r = t /\ info[t].notifyerQueue)
    BY <2>1 DEF inMid, inMid2, inSnd, inSnd2, Mid, Snd, AtQueue, One
  <2>3. info'[r].previousData = info[r].previousData + One(r = t /\ ~info[t].notifyerQueue)
    BY <1>4, <1>12, InfoCounted
  <2>4. Pub(r)' = Pub(r)
    BY <2>1, SamePub
  <2> DEFINE here    == One(r = t)
             sent    == One(r = t /\ info[t].notifyerQueue)
             counted == One(r = t /\ ~info[t].notifyerQueue)
  <2>5. here = sent + counted /\ here \in {0, 1} /\ sent \in {0, 1} /\ counted \in {0, 1}
    BY DEF One
  <2>6. /\ inMid = 0 /\ inMid2 = here /\ inSnd = 0 /\ inSnd2 = sent
        /\ info'[r].previousData = info[r].previousData + counted
    BY <2>2, <2>3
  <2> HIDE DEF here, sent, counted
  <2>7. Cardinality(Pub(r)') - Cardinality(Pub(r)) - inMid + inMid2 = here
    BY <1>8, <2>4, <2>5, <2>6
  <2>8. Cardinality(Nts(r)') - Cardinality(Nts(r)) = 0
    BY <1>8, <1>9, <2>1
  <2>9. info'[r].previousData - info[r].previousData = counted
    BY <1>8, <2>5, <2>6
  <2>10. (info'[r].previousData - info[r].previousData) - inSnd + inSnd2
            + (Cardinality(Nts(r)') - Cardinality(Nts(r))) = here
    BY <2>5, <2>6, <2>8, <2>9
  <2> QED BY <2>7, <2>10
<1>13. ASSUME Post(p) PROVE Balance
  <2>1. /\ ppc[p] \in {"post", "replace"} /\ ppc[p] \in Holding /\ target'[p] = t /\ UNCHANGED <<info, notify>>
        /\ ppc'[p] = (IF ppc[p] = "post" THEN "send" ELSE "idle")
        /\ notification_queue'[p] = notification_queue[p]
    BY <1>4, <1>13 DEF Post, Step, After, Types, Holding
  <2>2. inMid = One(r = t) /\ inMid2 = 0 /\ inSnd = inSnd2
    BY <1>4, <2>1 DEF inMid, inMid2, inSnd, inSnd2, Mid, Snd, AtQueue, One
  <2>3. Cardinality(Pub(r)') = Cardinality(Pub(r)) + One(r = t)
    <3>1. CASE r = t
      BY <1>4, <1>13, <2>1, <3>1, PostRow, PubShown DEF One
    <3>2. CASE r # t
      BY <1>4, <1>8, <1>13, <3>2, PostRow, SamePub DEF OnlyRow, One
    <3> QED BY <3>1, <3>2
  <2> QED BY <1>6, <1>8, <1>9, <2>1, <2>2, <2>3 DEF One
<1>14. ASSUME SendReserve(p) PROVE Balance
  <2>1. /\ ppc[p] = "send" /\ ppc'[p] = "notify" /\ notification_queue[p] /\ UNCHANGED <<data, info>>
        /\ notify' = Append(notify, [id |-> t, by |-> p])
    BY <1>4, <1>14 DEF SendReserve, Step, After, Types
  <2>2. inMid = 0 /\ inMid2 = 0 /\ inSnd = One(r = t) /\ inSnd2 = 0
    BY <1>4, <2>1 DEF inMid, inMid2, inSnd, inSnd2, Mid, Snd, AtQueue, One
  <2>3. Cardinality(Nts(r)') = Cardinality(Nts(r)) + One(r = t)
    <3>1. PICK n \in Note : n = [id |-> t, by |-> p]
      BY <1>4 DEF Note, Ids
    <3>2. MoreSent(t)
      BY <2>1, <3>1, SentAppend
    <3> QED BY <3>2, MoreNotes
  <2>4. Pub(r)' = Pub(r)
    BY <2>1, SamePub
  <2> QED BY <1>8, <2>1, <2>2, <2>3, <2>4 DEF One
<1>15. ASSUME SendPublish(p) PROVE Balance
  <2>1. ppc[p] = "notify" /\ ppc'[p] = "idle" /\ UNCHANGED <<data, info>>
    BY <1>15 DEF SendPublish, Step, After, Types
  <2>2. inMid = 0 /\ inMid2 = 0 /\ inSnd = 0 /\ inSnd2 = 0
    BY <2>1 DEF inMid, inMid2, inSnd, inSnd2, Mid, Snd, AtQueue, One
  <2>3. Nts(r)' = Nts(r)
    BY <1>15, SentShown DEF SameSent, Nts, Positions
  <2>4. Pub(r)' = Pub(r)
    BY <2>1, SamePub
  <2> QED BY <1>8, <2>1, <2>2, <2>3, <2>4
<1>16. ASSUME SendNothing(p) PROVE Balance
  <2>1. /\ ppc[p] = "send" /\ ppc'[p] = "idle" /\ ~notification_queue[p] /\ UNCHANGED <<data, info, notify>>
    BY <1>16 DEF SendNothing, After, Types, queues
  <2>2. inMid = 0 /\ inMid2 = 0 /\ inSnd = 0 /\ inSnd2 = 0
    BY <2>1 DEF inMid, inMid2, inSnd, inSnd2, Mid, Snd, AtQueue, One
  <2>3. Pub(r)' = Pub(r)
    BY <2>1, SamePub
  <2> QED BY <1>8, <1>9, <2>1, <2>2, <2>3
<1> QED BY <1>10, <1>11, <1>12, <1>13, <1>14, <1>15, <1>16 DEF PushingStep, PushStep

(* The steps of the receiver: the types first.                                *)
LEMMA CountedBefore ==
  ASSUME Types, Setup, AllCounted, rpc = "start", NEW q \in Queues, ReadyFront(q)
  PROVE  info[q].previousData >= 1
<1>1. CountsOK
  BY CountsNow
<1>2. Snd(q) = {} /\ Nts(q) = {}
  <2>1. Snd(q) = {}
    BY DEF Snd, AtQueue, Setup
  <2>2. Len(notify) = 0
    BY EmptySeq DEF Setup
  <2> QED BY <2>1, <2>2 DEF Nts, Positions
<1>3. Cardinality(Snd(q)) = 0 /\ Cardinality(Nts(q)) = 0
  BY <1>2, FS_EmptySet
<1>4. Cardinality(Pub(q)) # 0
  <2>1. 1 \in Pub(q)
    <3>1. data[q] # <<>> /\ data[q][1] = Nobody /\ data[q] \in Row /\ Len(data[q]) \in Nat
      BY RowFacts DEF ReadyFront
    <3>2. Len(data[q]) # 0
      BY <3>1, EmptySeq DEF Row
    <3> QED BY <3>1, <3>2 DEF Pub, Positions
  <2> QED BY <1>1, <2>1, FS_EmptySet DEF CountsOK
<1>5. Todo(q) = 0 /\ Popping(q) = 0
  BY DEF Todo, Popping, One
<1>6. Values(q) = Announcements(q)
  BY DEF AllCounted, Exact, SettingUp
<1> QED BY <1>1, <1>3, <1>4, <1>5, <1>6 DEF CountsOK

LEMMA BeforePopped ==
  ASSUME Types, Setup, AllCounted, NEW q \in Queues, PopBefore(q)
  PROVE  /\ info' \in [Queues -> [notifyerQueue : BOOLEAN, previousData : Nat]]
         /\ \A r \in Queues :
              /\ info'[r].notifyerQueue = info[r].notifyerQueue
              /\ info'[r].previousData = info[r].previousData - One(r = q)
<1> DEFINE new == [info[q] EXCEPT !.previousData = info[q].previousData - 1]
<1>1. info \in [Queues -> [notifyerQueue : BOOLEAN, previousData : Nat]]
  BY DEF Types
<1>2. info[q].previousData >= 1
  BY CountedBefore DEF PopBefore
<1>3. /\ new \in [notifyerQueue : BOOLEAN, previousData : Nat]
      /\ new.notifyerQueue = info[q].notifyerQueue /\ new.previousData = info[q].previousData - 1
  BY <1>1, <1>2
<1>4. info' = [info EXCEPT ![q] = new]
  BY DEF PopBefore
<1> HIDE DEF new
<1> QED BY <1>1, <1>3, <1>4 DEF One

LEMMA QueueSet ==
  ASSUME Types, SetNotificationQueue
  PROVE  /\ info' \in [Queues -> [notifyerQueue : BOOLEAN, previousData : Nat]]
         /\ info'[at] = [notifyerQueue |-> TRUE, previousData |-> 0]
         /\ \A r \in Queues \ {at} : info'[r] = info[r]
BY DEF Types, SetNotificationQueue

(* A receiver of when_any() reads no termination exception.                   *)
LEMMA NotifiedQueue ==
  ASSUME Shape, rpc = "any_taken"
  PROVE  notify # <<>> /\ Head(notify).id \in Queues
<1>1. Types /\ notify # <<>> /\ mode = "any" /\ ~Ended
  BY DEF Shape, Setup, Released
<1>2. Len(notify) \in Nat /\ DOMAIN notify = 1 .. Len(notify) /\ Len(notify) # 0
  BY <1>1, NoteFacts, EmptySeq DEF Types
<1>3. 1 \in DOMAIN notify /\ Head(notify) = notify[1] /\ notify[1] \in Note
  BY <1>1, <1>2, NoteFacts
<1> QED BY <1>1, <1>3 DEF Ended, Note, Ids

LEMMA ReceiverTypes ==
  ASSUME Shape, AllCounted, AnyStep \/ AllStep \/ Release \/ FreeStep
  PROVE  Types' /\ UNCHANGED producer
<1>0. Types /\ Setup /\ Released /\ Fronts /\ at \in Queues /\ 0 \in Queues /\ Last \in Nat /\ Queues = 0 .. Last
  BY QueueRange, SMTT(30) DEF Shape, Types
<1>1. ASSUME NEW q \in Queues, PopBefore(q) PROVE Types' /\ UNCHANGED producer
  <2>1. data' \in [Queues -> Seq(Producers \cup {Nobody})] /\ \A r \in Queues : Len(data'[r]) <= Length[r]
    BY <1>0, <1>1, PopRow, RowsTyped DEF PopBefore
  <2>2. info' \in [Queues -> [notifyerQueue : BOOLEAN, previousData : Nat]]
    BY <1>0, <1>1, BeforePopped
  <2> QED BY <1>0, <1>1, <2>1, <2>2 DEF PopBefore, Types, producer, receiver
<1>2. ASSUME SetNotificationQueue PROVE Types' /\ UNCHANGED producer
  <2>1. info' \in [Queues -> [notifyerQueue : BOOLEAN, previousData : Nat]]
    BY <1>0, <1>2, QueueSet
  <2>2. todo' \in Nat /\ rpc' \in SettingUp
    BY <1>0, <1>2 DEF SetNotificationQueue, Previous, Types, SettingUp
  <2> QED BY <1>0, <1>2, <2>1, <2>2 DEF SetNotificationQueue, Types, producer
<1>3. ASSUME Announce PROVE Types' /\ UNCHANGED producer
  <2>1. notify' \in Seq(Note)
    <3>1. [id |-> at, by |-> Nobody] \in Note
      BY <1>0 DEF Note, Ids
    <3>2. CASE NotifyFull
      BY <1>0, <1>3, <3>2 DEF Announce, Types
    <3>3. CASE ~NotifyFull
      <4>1. notify' = Append(notify, [id |-> at, by |-> Nobody])
        BY <1>3, <3>3 DEF Announce
      <4> QED BY <1>0, <3>1, <4>1, SentAppend
    <3> QED BY <3>2, <3>3
  <2>2. todo' \in Nat
    BY <1>0, <1>3 DEF Announce, Types
  <2> QED BY <1>0, <1>3, <2>1, <2>2 DEF Announce, Types, producer
<1>4. ASSUME Announced PROVE Types' /\ UNCHANGED producer
  <2>1. at' \in Queues /\ rpc' \in SettingUp \cup Working
    BY <1>0, <1>4 DEF Announced, SettingUp, Working
  <2> QED BY <1>0, <1>4, <2>1 DEF Announced, Types, producer, queues
<1>5. ASSUME TakeNotification PROVE Types' /\ UNCHANGED producer
  <2>1. rpc' \in Working
    BY <1>5 DEF TakeNotification, Working
  <2> QED BY <1>0, <1>5, <2>1 DEF TakeNotification, Types, producer, queues
<1>6. ASSUME AnyRemove PROVE Types' /\ UNCHANGED producer
  <2>1. notify # <<>> /\ Head(notify).id \in Queues
    BY <1>6, NotifiedQueue DEF AnyRemove
  <2>2. notify' \in Seq(Note)
    BY <1>0, <1>6, <2>1, SentRemoved DEF AnyRemove
  <2>4. at' \in Queues /\ rpc' \in Working
    BY <1>6, <2>1 DEF AnyRemove, Working
  <2> QED BY <1>0, <1>6, <2>2, <2>4 DEF AnyRemove, Types, producer
<1>7. ASSUME AnyPop PROVE Types' /\ UNCHANGED producer
  <2>0. PICK q \in Queues : q = at
    BY <1>0
  <2>1. data' \in [Queues -> Seq(Producers \cup {Nobody})] /\ \A r \in Queues : Len(data'[r]) <= Length[r]
    BY <1>0, <1>7, <2>0, PopRow, RowsTyped DEF AnyPop
  <2> QED BY <1>0, <1>7, <2>1 DEF AnyPop, Types, producer, Working
<1>8. ASSUME AllWait \/ AllPop \/ AllEmpty PROVE Types' /\ UNCHANGED producer
  <2>1. rpc' \in Working /\ at' \in Queues /\ todo' \in Nat
    BY <1>0, <1>8 DEF AllWait, AllPop, AllEmpty, Working, Types
  <2> QED BY <1>0, <1>8, <2>1 DEF AllWait, AllPop, AllEmpty, Types, producer, queues
<1>9. ASSUME AllRemove PROVE Types' /\ UNCHANGED producer
  <2>1. notify' \in Seq(Note)
    BY <1>0, <1>9, SentRemoved DEF AllRemove, Setup
  <2>2. rpc' \in Working
    BY <1>9 DEF AllRemove, Working
  <2> QED BY <1>0, <1>9, <2>1, <2>2 DEF AllRemove, Types, producer
<1>10. ASSUME AllCheck PROVE Types' /\ UNCHANGED producer
  <2>1. at' \in Queues /\ rpc' \in Working
    BY <1>0, <1>10 DEF AllCheck, Working
  <2> QED BY <1>0, <1>10, <2>1 DEF AllCheck, Types, producer
<1>11. ASSUME AllTake PROVE Types' /\ UNCHANGED producer
  <2>0. PICK q \in Queues : q = at
    BY <1>0
  <2>1. ReadyFront(q)
    BY <1>0, <1>11, <2>0 DEF AllTake, Fronts
  <2>2. data' \in [Queues -> Seq(Producers \cup {Nobody})] /\ \A r \in Queues : Len(data'[r]) <= Length[r]
    BY <1>0, <1>11, <2>0, <2>1, PopRow, RowsTyped DEF AllTake
  <2>3. at' \in Queues /\ rpc' \in Working
    BY <1>0, <1>11 DEF AllTake, Working
  <2> QED BY <1>0, <1>11, <2>2, <2>3 DEF AllTake, Types, producer
<1>12. ASSUME Release \/ TestTerminated PROVE Types' /\ UNCHANGED producer
  BY <1>0, <1>12 DEF Release, TestTerminated, Types, producer, queues
<1>13. ASSUME PushTermination PROVE Types' /\ UNCHANGED producer
  <2>1. notify' \in Seq(Note)
    <3>1. [id |-> Terminate, by |-> Nobody] \in Note
      BY DEF Note, Ids
    <3>2. CASE NotifyFull
      BY <1>0, <1>13, <3>2 DEF PushTermination, Terminated, Types
    <3>3. CASE ~NotifyFull
      <4>1. notify' = Append(notify, [id |-> Terminate, by |-> Nobody])
        BY <1>13, <3>3 DEF PushTermination, Terminated
      <4> QED BY <1>0, <3>1, <4>1, SentAppend
    <3> QED BY <3>2, <3>3
  <2> QED BY <1>0, <1>13, <2>1 DEF PushTermination, Types, producer
<1> QED BY <1>1, <1>2, <1>3, <1>4, <1>5, <1>6, <1>7, <1>8, <1>9, <1>10, <1>11, <1>12, <1>13
       DEF AnyStep, AllStep, FreeStep

LEMMA SameProducers ==
  ASSUME UNCHANGED producer
  PROVE  \A r \in Queues : Mid(r)' = Mid(r) /\ Snd(r)' = Snd(r)
BY DEF producer, Mid, Snd, AtQueue

LEMMA ReceiverCounted ==
  ASSUME Shape, Types, Setup, Types', AllCounted, Fits, Exact, AnyStep, UNCHANGED producer, NEW r \in Queues
  PROVE  Values(r)' = Announcements(r)'
<1> DEFINE Balance == Cardinality(Pub(r)') - Cardinality(Pub(r))
                        = (info'[r].previousData - info[r].previousData) + (Todo(r)' - Todo(r))
                          + (Cardinality(Nts(r)') - Cardinality(Nts(r))) + (Popping(r)' - Popping(r))
<1>0. CountsOK /\ CountsOK'
  BY CountsNow, CountsNext
<1>1. Mid(r)' = Mid(r) /\ Snd(r)' = Snd(r)
  BY SameProducers
<1>2. Values(r) = Announcements(r)
  BY DEF AllCounted
<1>3. /\ Cardinality(Pub(r)) \in Nat /\ Cardinality(Pub(r)') \in Nat /\ info[r].previousData \in Nat
      /\ info'[r].previousData \in Nat /\ Cardinality(Nts(r)) \in Nat /\ Cardinality(Nts(r)') \in Nat
      /\ Todo(r) \in Nat /\ Todo(r)' \in Nat /\ Popping(r) \in {0, 1} /\ Popping(r)' \in {0, 1}
  BY <1>0 DEF CountsOK
<1>4. SUFFICES Balance
  <2>1. /\ Values(r) = Cardinality(Pub(r)) + Cardinality(Mid(r))
        /\ Announcements(r) = info[r].previousData + Todo(r) + Cardinality(Snd(r)) + Cardinality(Nts(r)) + Popping(r)
        /\ Cardinality(Mid(r)) \in Nat /\ Cardinality(Snd(r)) \in Nat
    BY <1>0 DEF CountsOK
  <2>2. /\ Values(r)' = Cardinality(Pub(r)') + Cardinality(Mid(r))
        /\ Announcements(r)' = info'[r].previousData + Todo(r)' + Cardinality(Snd(r)) + Cardinality(Nts(r)') + Popping(r)'
    BY <1>0, <1>1 DEF CountsOK
  <2>3. Values(r)' = Values(r) + (Cardinality(Pub(r)') - Cardinality(Pub(r)))
    BY <1>3, <2>1, <2>2
  <2>4. Announcements(r)' = Announcements(r)
            + ((info'[r].previousData - info[r].previousData) + (Todo(r)' - Todo(r))
               + (Cardinality(Nts(r)') - Cardinality(Nts(r))) + (Popping(r)' - Popping(r)))
    BY <1>3, <2>1, <2>2
  <2> QED BY <1>2, <1>4, <2>3, <2>4
<1>5. ASSUME UNCHANGED notify PROVE Cardinality(Nts(r)') - Cardinality(Nts(r)) = 0
  BY <1>3, <1>5, SameNotes
<1>6. ASSUME UNCHANGED data PROVE Cardinality(Pub(r)') - Cardinality(Pub(r)) = 0
  BY <1>3, <1>6, SamePub
<1>7. ASSUME NEW q \in Queues, Freed(data[q], data'[q]), OnlyRow(q)
      PROVE  Cardinality(Pub(r)') - Cardinality(Pub(r)) = 0 - One(r = q)
  <2>1. CASE r = q
    BY <1>3, <1>7, <2>1, PubFreed DEF One
  <2>2. CASE r # q
    BY <1>3, <1>7, <2>2, SamePub DEF OnlyRow, One
  <2> QED BY <2>1, <2>2
<1>8. ASSUME UNCHANGED <<rpc, at, todo>> PROVE Todo(r)' - Todo(r) = 0 /\ Popping(r)' - Popping(r) = 0
  BY <1>3, <1>8 DEF Todo, Popping
<1>9. ASSUME UNCHANGED info PROVE info'[r].previousData - info[r].previousData = 0
  BY <1>3, <1>9
<1>10. ASSUME NEW q \in Queues, PopBefore(q) PROVE Balance
  <2>1. UNCHANGED <<rpc, at, todo>> /\ UNCHANGED notify
    BY <1>10 DEF PopBefore, receiver
  <2>2. Cardinality(Pub(r)') - Cardinality(Pub(r)) = 0 - One(r = q)
    BY <1>7, <1>10, PopRow DEF PopBefore
  <2>3. info'[r].previousData - info[r].previousData = 0 - One(r = q)
    BY <1>3, <1>10, BeforePopped DEF One
  <2> QED BY <1>5, <1>8, <2>1, <2>2, <2>3 DEF One
<1>11. ASSUME SetNotificationQueue PROVE Balance
  <2>1. UNCHANGED notify /\ UNCHANGED data
    BY <1>11 DEF SetNotificationQueue
  <2>2. /\ rpc # "announce" /\ rpc # "any_pop" /\ rpc' = "announce" /\ at' = at /\ at \in Queues
        /\ todo' = info[at].previousData
    BY <1>11 DEF SetNotificationQueue, Previous, Types
  <2>3. Todo(r) = 0 /\ Popping(r) = 0 /\ Popping(r)' = 0
    BY <2>2 DEF Todo, Popping, One
  <2>4. CASE r = at
    <3>1. info'[r].previousData = 0 /\ Todo(r)' = info[r].previousData
      BY <1>11, <2>2, <2>4, QueueSet DEF Todo
    <3> QED BY <1>3, <1>5, <1>6, <2>1, <2>3, <3>1
  <2>5. CASE r # at
    <3>1. info'[r].previousData = info[r].previousData /\ Todo(r)' = 0
      BY <1>11, <2>2, <2>5, QueueSet DEF Todo
    <3> QED BY <1>3, <1>5, <1>6, <2>1, <2>3, <3>1
  <2> QED BY <2>4, <2>5
<1>12. ASSUME Announce PROVE Balance
  <2>1. UNCHANGED info /\ UNCHANGED data
    BY <1>12 DEF Announce
  <2>2. /\ rpc = "announce" /\ rpc' = rpc /\ at' = at /\ todo' = todo - 1 /\ todo > 0 /\ todo \in Nat
        /\ at \in Queues /\ ~NotifyFull
    BY <1>12 DEF Announce, Types, Fits
  <2>3. Todo(r)' - Todo(r) = 0 - One(r = at) /\ Popping(r)' - Popping(r) = 0
    BY <2>2 DEF Todo, Popping, One
  <2>4. Cardinality(Nts(r)') - Cardinality(Nts(r)) = One(r = at)
    <3>1. PICK n \in Note : n = [id |-> at, by |-> Nobody]
      BY <2>2 DEF Note, Ids
    <3>2. MoreSent(at)
      BY <1>12, <2>2, <3>1, SentAppend DEF Announce
    <3> QED BY <1>3, <2>2, <3>2, MoreNotes DEF One
  <2> QED BY <1>6, <1>9, <2>1, <2>3, <2>4 DEF One
<1>13. ASSUME Announced PROVE Balance
  <2>1. UNCHANGED <<info, data, notify>>
    BY <1>13 DEF Announced, queues
  <2>2. rpc = "announce" /\ todo = 0 /\ rpc' \in {"idle", "place"}
    BY <1>13 DEF Announced
  <2>3. Todo(r)' = 0 /\ Todo(r) = 0 /\ Popping(r)' = 0 /\ Popping(r) = 0
    BY <2>2 DEF Todo, Popping, One
  <2> QED BY <1>5, <1>6, <1>9, <2>1, <2>3
<1>14. ASSUME TakeNotification PROVE Balance
  <2>1. UNCHANGED <<info, data, notify>>
    BY <1>14 DEF TakeNotification, queues
  <2>2. rpc \in {"idle", "all_wait"} /\ rpc' \in {"any_taken", "all_taken"}
    BY <1>14 DEF TakeNotification
  <2>3. Todo(r)' = 0 /\ Todo(r) = 0 /\ Popping(r)' = 0 /\ Popping(r) = 0
    BY <2>2 DEF Todo, Popping, One
  <2> QED BY <1>5, <1>6, <1>9, <2>1, <2>3
<1>15. ASSUME AnyRemove PROVE Balance
  <2>1. UNCHANGED info /\ UNCHANGED data
    BY <1>15 DEF AnyRemove
  <2>2. PICK q \in Queues : q = Head(notify).id
    BY <1>15, NotifiedQueue DEF AnyRemove
  <2>3. rpc = "any_taken" /\ rpc' = "any_pop" /\ at' = q
    BY <1>15, <2>2 DEF AnyRemove
  <2>4. Todo(r)' - Todo(r) = 0 /\ Popping(r)' - Popping(r) = One(r = q)
    BY <2>3 DEF Todo, Popping, One
  <2>5. Cardinality(Nts(r)') - Cardinality(Nts(r)) = 0 - One(r = q)
    <3>1. LessSent(q)
      BY <1>15, <2>2, SentRemoved, NotifiedQueue DEF AnyRemove
    <3> QED BY <1>3, <3>1, LessNotes DEF One
  <2> QED BY <1>6, <1>9, <2>1, <2>4, <2>5 DEF One
<1>16. ASSUME AnyPop PROVE Balance
  <2>1. UNCHANGED info /\ UNCHANGED notify
    BY <1>16 DEF AnyPop
  <2>2. PICK q \in Queues : q = at
    BY DEF Types
  <2>3. rpc = "any_pop" /\ rpc' = "idle"
    BY <1>16 DEF AnyPop
  <2>4. Todo(r)' - Todo(r) = 0 /\ Popping(r)' - Popping(r) = 0 - One(r = q)
    BY <2>2, <2>3 DEF Todo, Popping, One
  <2>5. Cardinality(Pub(r)') - Cardinality(Pub(r)) = 0 - One(r = q)
    BY <1>7, <1>16, <2>2, PopRow DEF AnyPop
  <2> QED BY <1>5, <1>9, <2>1, <2>4, <2>5 DEF One
<1> QED BY <1>10, <1>11, <1>12, <1>13, <1>14, <1>15, <1>16 DEF AnyStep

-----------------------------------------------------------------------------
(* The progress of the receiver.                                              *)

LEMMA NoteLen ==
  ASSUME Types
  PROVE  notify = <<>> <=> Len(notify) = 0
BY EmptySeq DEF Types

LEMMA EndedIs == Types => (Ended <=> \E k \in 1 .. Len(notify) : Sent[k] = Terminate)
BY NoteFacts DEF Ended

LEMMA EndedIsNext == Types' => (Ended' <=> \E k \in 1 .. Len(notify') : Sent'[k] = Terminate)
<1>1. Types' => (Ended' <=> (\E k \in 1 .. Len(notify) : Sent[k] = Terminate)')
  BY EndedIs, PTL
<1> QED BY <1>1

LEMMA EndedKept ==
  ASSUME Types, Types'
  PROVE  /\ SameSent => (Ended' <=> Ended)
         /\ \A q : MoreSent(q) => (Ended' <=> Ended \/ q = Terminate)
         /\ \A q : LessSent(q) => (Ended' => Ended) /\ (Ended => Ended' \/ q = Terminate)
<1> DEFINE n == Len(notify)
           m == Len(notify')
<1>0. /\ n \in Nat /\ (Ended <=> \E k \in 1 .. n : Sent[k] = Terminate)
      /\ Ended' <=> \E k \in 1 .. m : Sent'[k] = Terminate
  BY EndedIs, EndedIsNext, NoteFacts
<1>1. ASSUME SameSent PROVE Ended' <=> Ended
  <2>1. m = n /\ \A k \in 1 .. n : Sent'[k] = Sent[k]
    BY <1>1 DEF SameSent
  <2> HIDE DEF n, m
  <2> QED BY <1>0, <2>1
<1>2. ASSUME NEW q, MoreSent(q) PROVE Ended' <=> Ended \/ q = Terminate
  <2>1. m = n + 1 /\ Sent'[n + 1] = q /\ \A k \in 1 .. n : Sent'[k] = Sent[k]
    BY <1>2 DEF MoreSent
  <2> HIDE DEF n, m
  <2>2. 1 .. m = (1 .. n) \cup {n + 1}
    BY <1>0, <2>1
  <2> QED BY <1>0, <2>1, <2>2
<1>3. ASSUME NEW q, LessSent(q) PROVE (Ended' => Ended) /\ (Ended => Ended' \/ q = Terminate)
  <2>1. n \in Nat \ {0} /\ m = n - 1 /\ Sent[1] = q /\ \A k \in 1 .. n - 1 : Sent'[k] = Sent[k + 1]
    BY <1>3 DEF LessSent
  <2> HIDE DEF n, m
  <2>2. \A k \in 1 .. n - 1 : k + 1 \in 1 .. n
    BY <2>1
  <2>3. \A k \in 1 .. n : k # 1 => k - 1 \in 1 .. n - 1 /\ (k - 1) + 1 = k
    BY <2>1
  <2>4. Ended' => Ended
    BY <1>0, <2>1, <2>2
  <2>5. ASSUME Ended, q # Terminate PROVE Ended'
    <3>1. PICK k \in 1 .. n : Sent[k] = Terminate
      BY <1>0, <2>5
    <3>2. k # 1
      BY <2>1, <2>5, <3>1
    <3> QED BY <1>0, <2>1, <2>3, <3>1, <3>2
  <2> QED BY <2>4, <2>5
<1> QED BY <1>1, <1>2, <1>3

(* A step of a producer adds a notification or keeps what was sent.           *)
LEMMA PushSent ==
  ASSUME Types, NEW p \in Producers, PushingStep(p)
  PROVE  \/ SameSent /\ ~SendReserve(p)
         \/ SendReserve(p) /\ \E q \in Queues : MoreSent(q)
<1>1. CASE SendReserve(p)
  <2>0. target[p] \in Queues
    BY DEF Types
  <2>1. PICK n \in Note : n = [id |-> target[p], by |-> p] /\ n.id \in Queues
    <3>1. [id |-> target[p], by |-> p] \in Note
      BY <2>0 DEF Note, Ids
    <3>2. [id |-> target[p], by |-> p].id \in Queues
      BY <2>0
    <3> QED BY <3>1, <3>2
  <2> QED BY <1>1, <2>1, SentAppend DEF SendReserve
<1>2. CASE SendPublish(p)
  BY <1>2, SentShown DEF SendPublish, SendReserve, Step
<1>3. CASE ~SendReserve(p) /\ ~SendPublish(p)
  <2>1. UNCHANGED notify
    BY <1>3 DEF PushingStep, Push, OverwriteLast, Call, PushStep, GetNotificationQueue, Post, SendNothing, queues
  <2> QED BY <1>3, <2>1 DEF SameSent, Sent
<1> QED BY <1>1, <1>2, <1>3

LEMMA PushSetup ==
  ASSUME Types, Types', Setup, Released, NEW p \in Producers, PushingStep(p)
  PROVE  Setup' /\ Released'
<1>1. UNCHANGED receiver
  BY DEF PushingStep, Push, OverwriteLast, Call, PushStep, GetNotificationQueue, Post, SendReserve,
     SendPublish, SendNothing
<1>2. UNCHANGED <<rpc, at, mode, user>>
  BY <1>1 DEF receiver
<1>3. \A q \in Queues : /\ info'[q].notifyerQueue = info[q].notifyerQueue
                        /\ info[q].notifyerQueue => info'[q].previousData = info[q].previousData
  <2>1. CASE GetNotificationQueue(p)
    BY <2>1 DEF GetNotificationQueue, Types
  <2>2. CASE ~GetNotificationQueue(p)
    BY <2>2 DEF PushingStep, Push, OverwriteLast, Call, PushStep, Post, SendReserve, SendPublish,
       SendNothing, queues
  <2> QED BY <2>1, <2>2
<1>4. Len(notify') = Len(notify) \/ (SendReserve(p) /\ Len(notify') = Len(notify) + 1)
  BY PushSent DEF SameSent, MoreSent
<1>5. ASSUME rpc = "start"
      PROVE  notify' = <<>> /\ at = 0 /\ \A o \in Producers : ~notification_queue'[o]
  <2>1. notify = <<>> /\ at = 0 /\ (\A o \in Producers : ~notification_queue[o]) /\ ~SendReserve(p)
    BY <1>5 DEF Setup, SendReserve
  <2>2. notify' = <<>>
    BY <1>4, <2>1, NoteLen, EmptySeq DEF Types
  <2>3. ~notification_queue'[p]
    <3>1. ~info[target[p]].notifyerQueue
      BY <1>5 DEF Setup, Types, Working
    <3> QED BY <2>1, <3>1 DEF PushingStep, Push, OverwriteLast, Call, PushStep, GetNotificationQueue, Post,
                             SendReserve, SendPublish, SendNothing, Types
  <2> QED BY <2>1, <2>2, <2>3, PushTypes DEF OnlyMover
<1>6. rpc \in {"any_taken", "all_taken"} => notify' # <<>>
  <2>1. SUFFICES ASSUME notify # <<>> PROVE notify' # <<>>
    BY DEF Setup
  <2>2. Len(notify) \in Nat \ {0}
    BY <2>1, EmptySeq DEF Types
  <2>3. Len(notify') # 0
    BY <1>4, <2>2
  <2> QED BY <2>3, EmptySeq DEF Types
<1>7. Ended' <=> Ended
  <2>1. Terminate \notin Queues
    BY QueueRange
  <2> QED BY <2>1, PushSent, EndedKept
<1>8. Released'
  BY <1>2, <1>7 DEF Released
<1> QED BY <1>2, <1>3, <1>5, <1>6, <1>8 DEF Setup

LEMMA ReceiverSetup ==
  ASSUME Shape, Types, Types', Setup, Released, Fits, AllCounted, AnyStep \/ AllStep \/ Release \/ FreeStep,
         UNCHANGED producer
  PROVE  Setup'
<1> USE DEF Setup, Working, SettingUp
<1>0. at \in 0 .. Last /\ Last \in Nat /\ Queues = 0 .. Last /\ UNCHANGED notification_queue
  BY QueueRange DEF Types, producer
<1>1. ASSUME NEW q \in Queues, PopBefore(q) PROVE Setup'
  <2>1. \A r \in Queues : info'[r].notifyerQueue = info[r].notifyerQueue /\ ~info[r].notifyerQueue
    BY <1>1, BeforePopped DEF PopBefore
  <2> QED BY <1>0, <1>1, <2>1 DEF PopBefore, receiver
<1>2. ASSUME SetNotificationQueue PROVE Setup'
  <2>1. rpc \in {"start", "place"} /\ rpc' = "announce" /\ at' = at
    BY <1>2 DEF SetNotificationQueue
  <2>2. info'[at].notifyerQueue /\ info'[at].previousData = 0 /\ \A r \in Queues \ {at} : info'[r] = info[r]
    BY <1>2, QueueSet
  <2>3. ASSUME NEW q \in Queues PROVE info'[q].notifyerQueue <=> q <= at
    <3>1. CASE q = at
      BY <1>0, <2>2, <3>1
    <3>2. CASE q # at
      <4>1. info[q].notifyerQueue <=> rpc = "place" /\ q < at
        BY <2>1
      <4>2. rpc = "start" => at = 0
        BY <2>1
      <4> QED BY <1>0, <2>1, <2>2, <3>2, <4>1, <4>2
    <3> QED BY <3>1, <3>2
  <2>4. \A q \in Queues : info'[q].notifyerQueue => info'[q].previousData = 0
    BY <2>1, <2>2
  <2> QED BY <2>1, <2>3, <2>4
<1>3. ASSUME Announce PROVE Setup'
  BY <1>0, <1>3 DEF Announce
<1>4. ASSUME Announced PROVE Setup'
  <2>1. rpc = "announce" /\ UNCHANGED info
    BY <1>4 DEF Announced, queues
  <2>2. \A q \in Queues : info'[q].notifyerQueue <=> q <= at
    BY <2>1
  <2>3. CASE at = Last
    <3>1. rpc' = "idle"
      BY <1>4, <2>3 DEF Announced
    <3>2. \A q \in Queues : q <= at
      BY <1>0, <2>3
    <3> QED BY <2>1, <2>2, <3>1, <3>2
  <2>4. CASE at # Last
    <3>1. rpc' = "place" /\ at' = at + 1
      BY <1>4, <2>4 DEF Announced
    <3>2. \A q \in Queues : q <= at <=> q < at + 1
      BY <1>0
    <3> QED BY <2>1, <2>2, <3>1, <3>2
  <2> QED BY <2>3, <2>4
<1>5. ASSUME TakeNotification PROVE Setup'
  <2>1. UNCHANGED <<info, notify, mode>> /\ notify # <<>>
    BY <1>5 DEF TakeNotification, queues, NotifyReady
  <2>2. \/ rpc = "idle" /\ rpc' = "any_taken" /\ mode = "any"
        \/ rpc = "all_wait" /\ rpc' = "all_taken"
    BY <1>5 DEF TakeNotification
  <2> QED BY <2>1, <2>2
<1>6. ASSUME AnyRemove PROVE Setup'
  BY <1>6 DEF AnyRemove
<1>7. ASSUME AnyPop PROVE Setup'
  BY <1>7 DEF AnyPop
<1>8. ASSUME AllStep PROVE Setup'
  <2>1. UNCHANGED <<info, mode>> /\ mode # "any"
    BY <1>8 DEF AllStep, AllWait, AllPop, AllRemove, AllCheck, AllEmpty, AllTake, queues
  <2>2. rpc \in Working /\ rpc' \in {"idle", "all_wait", "all_check", "all_pop", "exited"}
    BY <1>8 DEF AllStep, AllWait, AllPop, AllRemove, AllCheck, AllEmpty, AllTake
  <2> QED BY <2>1, <2>2
<1>9. ASSUME Release \/ FreeStep PROVE Setup'
  <2>1. UNCHANGED <<info, mode, rpc, at>>
    BY <1>9 DEF Release, FreeStep, TestTerminated, PushTermination, queues
  <2>2. CASE UNCHANGED notify
    BY <1>0, <2>1, <2>2
  <2>3. CASE PushTermination /\ notify' = Append(notify, [id |-> Terminate, by |-> Nobody])
    <3>1. rpc \in Working
      BY <2>3 DEF PushTermination, UserGoes, Released
    <3>2. notify' # <<>>
      <4>1. Len(notify) \in Nat /\ Len(notify') = Len(notify) + 1 /\ notify' \in Seq(Note)
        BY <2>3, NoteFacts DEF Types
      <4>2. Len(notify') # 0
        BY <4>1
      <4> QED BY <4>2, EmptySeq
    <3> QED BY <2>1, <3>1, <3>2
  <2> QED BY <1>9, <2>2, <2>3 DEF Release, FreeStep, TestTerminated, PushTermination, Terminated, queues
<1> QED BY <1>1, <1>2, <1>3, <1>4, <1>5, <1>6, <1>7, <1>8, <1>9 DEF AnyStep

(* What a step of the receiver or of free() does to the notifications.        *)
LEMMA ReceiverReleased ==
  ASSUME Shape, Types, Types', Setup, Released, AnyStep \/ AllStep \/ Release \/ FreeStep
  PROVE  Released'
<1>0. Terminate \notin Queues
  BY QueueRange
<1>1. CASE Announce
  <2>1. UNCHANGED <<rpc, mode, user>>
    BY <1>1 DEF Announce
  <2>2. Ended' <=> Ended
    <3>1. CASE NotifyFull
      BY <1>1, <3>1 DEF Announce, Ended
    <3>2. CASE ~NotifyFull
      <4>1. PICK n \in Note : n = [id |-> at, by |-> Nobody] /\ n.id = at
        <5>1. [id |-> at, by |-> Nobody] \in Note /\ [id |-> at, by |-> Nobody].id = at
          BY DEF Types, Note, Ids
        <5> QED BY <5>1
      <4> QED BY <1>0, <1>1, <3>2, <4>1, SentAppend, EndedKept DEF Announce, Types
    <3> QED BY <3>1, <3>2
  <2> QED BY <2>1, <2>2 DEF Released
<1>2. CASE PushTermination
  <2>1. UNCHANGED <<rpc, mode>> /\ user # "holding" /\ user' = "loop"
    BY <1>2 DEF PushTermination, UserGoes
  <2> QED BY <2>1 DEF Released
<1>3. CASE AnyRemove \/ AllRemove
  <2>1. UNCHANGED <<mode, user>> /\ rpc' \in Working /\ notify # <<>> /\ notify' = Tail(notify)
    BY <1>3 DEF AnyRemove, AllRemove, Setup, Working
  <2>2. Ended' => Ended
    BY <2>1, SentRemoved, EndedKept
  <2> QED BY <2>1, <2>2 DEF Released
<1>4. CASE Release
  BY <1>4 DEF Release, UserGoes, Released, Ended, queues, Types, SettingUp
<1>5. CASE TestTerminated
  BY <1>5 DEF TestTerminated, UserGoes, Released, Ended, queues
<1>6. CASE \/ SetNotificationQueue \/ Announced \/ TakeNotification \/ AnyPop \/ (\E q \in Queues : PopBefore(q))
           \/ AllWait \/ AllPop \/ AllCheck \/ AllEmpty \/ AllTake
  <2>1. UNCHANGED <<mode, user, notify>>
    BY <1>6 DEF SetNotificationQueue, Announced, TakeNotification, AnyPop, PopBefore, AllWait, AllPop, AllCheck,
       AllEmpty, AllTake, queues, receiver
  <2>2. rpc \in Working => rpc' \in Working
    BY <1>6 DEF SetNotificationQueue, Announced, TakeNotification, AnyPop, PopBefore, AllWait, AllPop, AllCheck,
       AllEmpty, AllTake, receiver, Working
  <2> QED BY <2>1, <2>2 DEF Released, Ended
<1> QED BY <1>1, <1>2, <1>3, <1>4, <1>5, <1>6 DEF AnyStep, AllStep, FreeStep

-----------------------------------------------------------------------------
(* What the receiver leaves alone.                                            *)

LEMMA ReceiverMode ==
  ASSUME AnyStep \/ AllStep \/ Release \/ FreeStep
  PROVE  UNCHANGED mode
BY DEF AnyStep, PopBefore, SetNotificationQueue, Announce, Announced, TakeNotification, AnyRemove, AnyPop,
   AllStep, AllWait, AllPop, AllRemove, AllCheck, AllEmpty, AllTake, Release, FreeStep, TestTerminated,
   PushTermination, receiver

LEMMA ReceiverData ==
  ASSUME AnyStep \/ AllStep \/ Release \/ FreeStep
  PROVE  (\E q \in Queues : PopBefore(q)) \/ AnyPop \/ AllTake \/ UNCHANGED data
BY DEF AnyStep, SetNotificationQueue, Announce, Announced, TakeNotification, AnyRemove,
   AllStep, AllWait, AllPop, AllRemove, AllCheck, AllEmpty, Release, FreeStep, TestTerminated,
   PushTermination, queues

-----------------------------------------------------------------------------
(* Races.                                                                     *)

LEMMA PushRaceSeen ==
  ASSUME Types, Types', RaceSeen, NEW p \in Producers, PushingStep(p)
  PROVE  RaceSeen'
<1>1. UNCHANGED raced
  BY DEF PushingStep, Push, OverwriteLast, Call, PushStep, GetNotificationQueue, Post, SendReserve,
     SendPublish, SendNothing, receiver
<1>2. OnlyMover(p)
  BY PushTypes
<1>3. \A q \in Queues : info'[q].notifyerQueue = info[q].notifyerQueue
  <2>1. CASE GetNotificationQueue(p)
    <3>1. target[p] \in Queues
      BY DEF Types
    <3> QED BY <2>1, <3>1, InfoCounted
  <2>2. CASE ~GetNotificationQueue(p)
    BY <2>2 DEF PushingStep, Push, OverwriteLast, Call, PushStep, Post, SendReserve, SendPublish,
       SendNothing, queues
  <2> QED BY <2>1, <2>2
<1>4. ASSUME NEW o \in Producers, ppc'[o] = "post", ~notification_queue'[o], info'[target'[o]].notifyerQueue
      PROVE  target'[o] \in raced
  <2>1. target'[o] \in Queues /\ target[o] \in Queues
    BY DEF Types
  <2>2. CASE o # p
    BY <1>2, <1>3, <1>4, <2>1, <2>2 DEF OnlyMover, RaceSeen
  <2>3. CASE o = p
    <3>1. GetNotificationQueue(p)
      BY <1>4, <2>3 DEF PushingStep, Push, OverwriteLast, Call, PushStep, GetNotificationQueue, Post,
         SendReserve, SendPublish, SendNothing, Step, After, Types
    <3>2. target' = target /\ notification_queue'[p] = info[target[p]].notifyerQueue
      BY <3>1 DEF GetNotificationQueue, Types
    <3> QED BY <1>3, <1>4, <2>1, <2>3, <3>2
  <2> QED BY <2>2, <2>3
<1> QED BY <1>1, <1>4 DEF RaceSeen

LEMMA ReceiverRaceSeen ==
  ASSUME Types, Types', Setup, AllCounted, RaceSeen, AnyStep \/ AllStep \/ Release \/ FreeStep, UNCHANGED producer
  PROVE  RaceSeen'
<1>1. CASE SetNotificationQueue
  <2>1. ASSUME NEW o \in Producers, ppc[o] = "post", ~notification_queue[o], info'[target[o]].notifyerQueue
        PROVE  target[o] \in raced'
    <3>1. CASE target[o] = at
      <4>1. o \in Counting(at)
        BY <2>1, <3>1 DEF Counting
      <4> QED BY <1>1, <3>1, <4>1 DEF SetNotificationQueue
    <3>2. CASE target[o] # at
      <4>1. info'[target[o]] = info[target[o]]
        BY <1>1, <3>2, QueueSet DEF Types
      <4> QED BY <1>1, <2>1, <4>1 DEF RaceSeen, SetNotificationQueue
    <3> QED BY <3>1, <3>2
  <2> QED BY <2>1 DEF RaceSeen, producer
<1>2. CASE \E q \in Queues : PopBefore(q)
  <2>1. \A r \in Queues : info'[r].notifyerQueue = info[r].notifyerQueue
    BY <1>2, BeforePopped
  <2>2. UNCHANGED raced
    BY <1>2 DEF PopBefore, receiver
  <2> QED BY <2>1, <2>2 DEF RaceSeen, producer, Types
<1>3. CASE Announce \/ Announced \/ TakeNotification \/ AnyRemove \/ AnyPop \/ AllStep \/ Release \/ FreeStep
  <2>1. UNCHANGED <<raced, info>>
    BY <1>3 DEF Announce, Announced, TakeNotification, AnyRemove, AnyPop, queues, AllStep, AllWait, AllPop,
       AllRemove, AllCheck, AllEmpty, AllTake, Release, FreeStep, TestTerminated, PushTermination
  <2> QED BY <2>1 DEF RaceSeen, producer
<1> QED BY <1>1, <1>2, <1>3 DEF AnyStep

-----------------------------------------------------------------------------
(* Who holds which place.  Held, for one producer and for one place.          *)

HasPlace(p) ==
    ppc[p] \in Holding =>
        /\ \E k \in 1 .. Len(data[target[p]]) : data[target[p]][k] = p
        /\ PushesTo(p, target[p])
        /\ ppc[p] = "replace" => p \in overwriters
Owned(q, k) ==
    data[q][k] # Nobody =>
        /\ ppc[data[q][k]] \in Holding /\ target[data[q][k]] = q
        /\ \A j \in 1 .. Len(data[q]) : data[q][j] = data[q][k] => j = k
        /\ SingleProducer(q) => k = Len(data[q])

LEMMA HeldIs ==
  Types => (Held <=> /\ \A p \in Producers : HasPlace(p)
                     /\ \A q \in Queues : \A k \in 1 .. Len(data[q]) : Owned(q, k))
<1> SUFFICES ASSUME Types
             PROVE  Held <=> /\ \A p \in Producers : HasPlace(p)
                             /\ \A q \in Queues : \A k \in 1 .. Len(data[q]) : Owned(q, k)
  OBVIOUS
<1>1. \A q \in Queues : DOMAIN data[q] = 1 .. Len(data[q])
  BY RowFacts
<1>2. \A p \in Producers : target[p] \in Queues
  BY DEF Types
<1> QED BY <1>1, <1>2 DEF Held, HasPlace, Owned

LEMMA HeldIsNext ==
  Types' => (Held' <=> /\ \A p \in Producers : HasPlace(p)'
                       /\ \A q \in Queues : \A k \in 1 .. Len(data'[q]) : Owned(q, k)')
<1>1. Types' => (Held' <=> (/\ \A p \in Producers : HasPlace(p)
                            /\ \A q \in Queues : \A k \in 1 .. Len(data[q]) : Owned(q, k))')
  BY HeldIs, PTL
<1> QED BY <1>1

LEMMA Rules ==
  ASSUME UNCHANGED <<overwriters, mode>>
  PROVE  /\ \A p, q : PushesTo(p, q)' = PushesTo(p, q)
         /\ \A q : SingleProducer(q)' = SingleProducer(q)
BY DEF PushesTo, SingleProducer

LEMMA Entries ==
  ASSUME Types, NEW q \in Queues, NEW k \in 1 .. Len(data[q])
  PROVE  data[q][k] \in Producers \cup {Nobody}
<1>1. data[q] \in Row
  BY RowFacts
<1> QED BY <1>1, ElementOfSeq DEF Row

(* The places stay, and so does who holds one.                                *)
LEMMA QuietHeld ==
  ASSUME Types, Types', Held, UNCHANGED <<data, overwriters, mode, target>>,
         \A p \in Producers : /\ ppc'[p] \in Holding <=> ppc[p] \in Holding
                              /\ ppc'[p] = "replace" <=> ppc[p] = "replace"
  PROVE  Held'
<1>1. ASSUME NEW p \in Producers PROVE HasPlace(p)'
  <2>1. HasPlace(p)
    BY HeldIs
  <2> QED BY <2>1, Rules DEF HasPlace
<1>2. ASSUME NEW q \in Queues, NEW k \in 1 .. Len(data[q]) PROVE Owned(q, k)'
  <2>1. Owned(q, k)
    BY HeldIs
  <2> QED BY <2>1, Rules, Entries DEF Owned
<1> QED BY <1>1, <1>2, HeldIsNext

(* The first place of a queue is freed.                                       *)
LEMMA FreedHeld ==
  ASSUME Types, Types', Held, NEW q \in Queues, Freed(data[q], data'[q]), OnlyRow(q), UNCHANGED producer,
         UNCHANGED mode
  PROVE  Held'
<1> DEFINE n == Len(data[q])
<1>0. /\ n \in Nat \ {0} /\ Len(data'[q]) = n - 1 /\ data[q][1] = Nobody
      /\ \A k \in 1 .. n - 1 : data'[q][k] = data[q][k + 1]
  BY DEF Freed
<1>1. UNCHANGED <<ppc, target, overwriters>>
  BY DEF producer
<1>2. ASSUME NEW p \in Producers PROVE HasPlace(p)'
  <2>1. SUFFICES ASSUME ppc[p] \in Holding PROVE \E k \in 1 .. Len(data'[target[p]]) : data'[target[p]][k] = p
    BY <1>1, HeldIs, Rules DEF HasPlace
  <2>2. PICK t \in Queues : t = target[p]
    BY DEF Types
  <2>3. PICK k \in 1 .. Len(data[t]) : data[t][k] = p
    BY <2>1, <2>2, HeldIs DEF HasPlace
  <2>4. CASE t # q
    <3>1. data'[t] = data[t]
      BY <2>4 DEF OnlyRow
    <3> QED BY <2>2, <2>3, <3>1
  <2>5. CASE t = q
    <3>1. k # 1 /\ k \in 1 .. n
      BY <1>0, <2>3, <2>5, ProducersAssumption
    <3>2. k - 1 \in 1 .. n - 1 /\ (k - 1) + 1 = k
      BY <1>0, <3>1
    <3>3. data'[q][k - 1] = p
      BY <1>0, <2>3, <2>5, <3>2
    <3> QED BY <1>0, <2>2, <2>5, <3>2, <3>3
  <2> QED BY <2>4, <2>5
<1>3. ASSUME NEW r \in Queues, NEW k \in 1 .. Len(data'[r]) PROVE Owned(r, k)'
  <2>1. CASE r # q
    <3>1. data'[r] = data[r]
      BY <2>1 DEF OnlyRow
    <3>2. Owned(r, k)
      BY <3>1, HeldIs
    <3> QED BY <1>1, <3>1, <3>2, Rules, Entries DEF Owned
  <2>2. CASE r = q
    <3>1. k \in 1 .. n - 1 /\ k + 1 \in 1 .. n /\ data'[q][k] = data[q][k + 1]
      BY <1>0, <2>2
    <3>2. Owned(q, k + 1)
      BY <3>1, HeldIs
    <3>3. SUFFICES ASSUME data'[q][k] # Nobody
                   PROVE  /\ ppc[data'[q][k]] \in Holding /\ target[data'[q][k]] = q
                          /\ \A j \in 1 .. Len(data'[q]) : data'[q][j] = data'[q][k] => j = k
                          /\ SingleProducer(q) => k = Len(data'[q])
      BY <1>1, <2>2, Rules DEF Owned
    <3>4. /\ ppc[data'[q][k]] \in Holding /\ target[data'[q][k]] = q
          /\ \A j \in 1 .. n : data[q][j] = data[q][k + 1] => j = k + 1
          /\ SingleProducer(q) => k + 1 = n
      BY <3>1, <3>2, <3>3 DEF Owned
    <3>5. ASSUME NEW j \in 1 .. Len(data'[q]), data'[q][j] = data'[q][k] PROVE j = k
      <4>1. j \in 1 .. n - 1 /\ j + 1 \in 1 .. n /\ data'[q][j] = data[q][j + 1]
        BY <1>0
      <4>2. j + 1 = k + 1
        BY <3>1, <3>4, <3>5, <4>1
      <4> QED BY <3>1, <4>1, <4>2
    <3> QED BY <1>0, <3>1, <3>4, <3>5
  <2> QED BY <2>1, <2>2
<1> QED BY <1>2, <1>3, HeldIsNext

(* An idle producer gets the last place of a queue, a new one or one that was *)
(* published.                                                                 *)
LEMMA GivenHeld ==
  ASSUME Types, Types', Held, NEW p \in Producers, NEW q \in Queues, NEW m \in Nat \ {0},
         ppc[p] = "idle", ppc'[p] \in Holding, ppc'[p] = "replace" => p \in overwriters,
         target'[p] = q, PushesTo(p, q), UNCHANGED <<overwriters, mode>>, OnlyMover(p), OnlyRow(q),
         Len(data'[q]) = m, data'[q][m] = p,
         Len(data[q]) = m - 1 \/ (Len(data[q]) = m /\ data[q][m] = Nobody),
         \A k \in 1 .. m - 1 : data'[q][k] = data[q][k]
  PROVE  Held'
<1>0. 1 .. m - 1 \subseteq 1 .. Len(data[q]) /\ p # Nobody /\ m \in 1 .. m
  BY ProducersAssumption
<1>1. ASSUME NEW r \in Queues, NEW k \in 1 .. Len(data[r]) PROVE data[r][k] # p
  BY <1>0, HeldIs DEF Owned, Holding
<1>2. ASSUME NEW o \in Producers PROVE HasPlace(o)'
  <2>1. CASE o = p
    BY <1>0, <2>1, Rules DEF HasPlace
  <2>2. CASE o # p
    <3>1. PICK t \in Queues : t = target[o]
      BY DEF Types
    <3>2. ppc'[o] = ppc[o] /\ target'[o] = t
      BY <2>2, <3>1 DEF OnlyMover
    <3>3. SUFFICES ASSUME ppc[o] \in Holding PROVE \E k \in 1 .. Len(data'[t]) : data'[t][k] = o
      BY <3>1, <3>2, HeldIs, Rules DEF HasPlace
    <3>4. PICK k \in 1 .. Len(data[t]) : data[t][k] = o
      BY <3>1, <3>3, HeldIs DEF HasPlace
    <3>5. CASE t # q
      BY <3>4, <3>5 DEF OnlyRow
    <3>6. CASE t = q
      <4>1. k \in 1 .. m - 1
        <5>1. Len(data[q]) = m /\ data[q][m] = Nobody => k # m
          BY <3>4, <3>6, ProducersAssumption
        <5> QED BY <3>4, <3>6, <5>1
      <4>2. k \in 1 .. Len(data'[q]) /\ data'[q][k] = o
        BY <3>4, <3>6, <4>1
      <4> QED BY <3>6, <4>2
    <3> QED BY <3>5, <3>6
  <2> QED BY <2>1, <2>2
<1>3. ASSUME NEW r \in Queues, NEW k \in 1 .. Len(data'[r]) PROVE Owned(r, k)'
  <2>1. CASE r # q
    <3>1. data'[r] = data[r]
      BY <2>1 DEF OnlyRow
    <3>2. Owned(r, k) /\ data[r][k] # p /\ data[r][k] \in Producers \cup {Nobody}
      BY <1>1, <3>1, HeldIs, Entries
    <3> QED BY <3>1, <3>2, Rules DEF Owned, OnlyMover
  <2>2. CASE r = q /\ k = m
    <3>1. \A j \in 1 .. m : data'[q][j] = p => j = m
      <4>1. ASSUME NEW j \in 1 .. m, j # m PROVE data'[q][j] # p
        <5>1. j \in 1 .. m - 1
          BY <4>1
        <5> QED BY <1>0, <1>1, <5>1
      <4> QED BY <4>1
    <3> QED BY <2>2, <3>1 DEF Owned
  <2>3. CASE r = q /\ k # m
    <3>1. k \in 1 .. m - 1 /\ k \in 1 .. Len(data[q]) /\ data'[q][k] = data[q][k]
      BY <1>0, <2>3
    <3>2. PICK x \in Producers \cup {Nobody} : x = data[q][k]
      BY <3>1, Entries
    <3>3. SUFFICES ASSUME x # Nobody
                   PROVE  /\ ppc'[x] \in Holding /\ target'[x] = q
                          /\ \A j \in 1 .. m : data'[q][j] = x => j = k
                          /\ ~SingleProducer(q)
      BY <2>3, <3>1, <3>2, Rules DEF Owned
    <3>4. x \in Producers /\ x # p /\ ppc'[x] = ppc[x] /\ target'[x] = target[x]
      BY <1>1, <3>1, <3>2, <3>3 DEF OnlyMover
    <3>5. ppc[x] \in Holding /\ target[x] = q /\ \A j \in 1 .. Len(data[q]) : data[q][j] = x => j = k
      BY <3>1, <3>2, <3>3, HeldIs DEF Owned
    <3>6. ASSUME NEW j \in 1 .. m, data'[q][j] = x PROVE j = k
      <4>1. j # m
        BY <3>4, <3>6
      <4>2. j \in 1 .. m - 1
        BY <4>1
      <4> QED BY <1>0, <3>5, <3>6, <4>2
    <3>7. PushesTo(x, q)
      BY <3>4, <3>5, HeldIs DEF HasPlace
    <3>8. ~SingleProducer(q)
      BY <3>4, <3>7 DEF SingleProducer
    <3> QED BY <3>4, <3>5, <3>6, <3>8
  <2> QED BY <2>1, <2>2, <2>3
<1> QED BY <1>2, <1>3, HeldIsNext

(* A producer publishes its place.                                            *)
LEMMA ShownHeld ==
  ASSUME Types, Types', Held, NEW p \in Producers, NEW q \in Queues, q = target[p], ppc[p] \in Holding,
         ppc'[p] \notin Holding, UNCHANGED <<overwriters, mode, target>>, OnlyMover(p), OnlyRow(q),
         Shown(data[q], data'[q], p)
  PROVE  Held'
<1>0. /\ Len(data'[q]) = Len(data[q]) /\ p # Nobody
      /\ \A k \in 1 .. Len(data[q]) : data'[q][k] = IF data[q][k] = p THEN Nobody ELSE data[q][k]
  BY ProducersAssumption DEF Shown
<1>1. ASSUME NEW o \in Producers PROVE HasPlace(o)'
  <2>1. CASE o = p
    BY <2>1 DEF HasPlace
  <2>2. CASE o # p
    <3>1. PICK t \in Queues : t = target[o]
      BY DEF Types
    <3>2. ppc'[o] = ppc[o]
      BY <2>2 DEF OnlyMover
    <3>3. SUFFICES ASSUME ppc[o] \in Holding PROVE \E k \in 1 .. Len(data'[t]) : data'[t][k] = o
      BY <3>1, <3>2, HeldIs, Rules DEF HasPlace
    <3>4. PICK k \in 1 .. Len(data[t]) : data[t][k] = o
      BY <3>1, <3>3, HeldIs DEF HasPlace
    <3>5. CASE t # q
      BY <3>4, <3>5 DEF OnlyRow
    <3>6. CASE t = q
      BY <1>0, <2>2, <3>4, <3>6
    <3> QED BY <3>5, <3>6
  <2> QED BY <2>1, <2>2
<1>2. ASSUME NEW r \in Queues, NEW k \in 1 .. Len(data'[r]) PROVE Owned(r, k)'
  <2>1. CASE r # q
    <3>1. data'[r] = data[r]
      BY <2>1 DEF OnlyRow
    <3>2. Owned(r, k) /\ data[r][k] \in Producers \cup {Nobody}
      BY <3>1, HeldIs, Entries
    <3> QED BY <2>1, <3>1, <3>2, Rules DEF Owned, OnlyMover
  <2>2. CASE r = q
    <3>1. k \in 1 .. Len(data[q])
      BY <1>0, <2>2
    <3>2. SUFFICES ASSUME data'[q][k] # Nobody PROVE Owned(q, k)'
      BY <2>2 DEF Owned
    <3>3. data'[q][k] = data[q][k] /\ data[q][k] # p /\ data[q][k] \in Producers
      BY <1>0, <3>1, <3>2, Entries
    <3>4. Owned(q, k)
      BY <3>1, HeldIs
    <3>5. \A j \in 1 .. Len(data[q]) : data'[q][j] = data[q][k] => data[q][j] = data[q][k]
      BY <1>0, <3>2, <3>3
    <3> QED BY <1>0, <3>2, <3>3, <3>4, <3>5, Rules DEF Owned, OnlyMover
  <2> QED BY <2>1, <2>2
<1> QED BY <1>1, <1>2, HeldIsNext

LEMMA PushHeld ==
  ASSUME Types, Types', Held, NEW p \in Producers, PushingStep(p)
  PROVE  Held'
<1>0. OnlyMover(p)
  BY PushTypes
<1>1. ASSUME NEW q \in Queues, Push(p, q) PROVE Held'
  <2>1. OnlyRow(q) /\ Added(data[q], data'[q], p)
    BY <1>1, PushRow
  <2>2. /\ ppc[p] = "idle" /\ ppc'[p] = "count" /\ target'[p] = q /\ PushesTo(p, q)
        /\ UNCHANGED <<overwriters, mode>>
    BY <1>1 DEF Push, Call, Types, receiver
  <2>3. PICK m \in Nat \ {0} : m = Len(data[q]) + 1
    BY RowFacts
  <2>4. /\ Len(data'[q]) = m /\ data'[q][m] = p /\ Len(data[q]) = m - 1
        /\ \A k \in 1 .. m - 1 : data'[q][k] = data[q][k]
    BY <2>1, <2>3, RowFacts DEF Added
  <2>5. ppc'[p] \in Holding /\ ppc'[p] # "replace"
    BY <2>2 DEF Holding
  <2> QED BY <1>0, <2>1, <2>2, <2>4, <2>5, GivenHeld
<1>2. ASSUME NEW q \in Queues, OverwriteLast(p, q) PROVE Held'
  <2>1. OnlyRow(q) /\ Locked(data[q], data'[q], p)
    BY <1>2, OverwriteRow
  <2>2. /\ ppc[p] = "idle" /\ ppc'[p] = "replace" /\ target'[p] = q /\ PushesTo(p, q)
        /\ UNCHANGED <<overwriters, mode>> /\ p \in overwriters
    BY <1>2 DEF OverwriteLast, Call, Types, receiver
  <2>3. PICK m \in Nat \ {0} : m = Len(data[q])
    BY <2>1, RowFacts DEF Locked
  <2>4. /\ Len(data'[q]) = m /\ data'[q][m] = p /\ Len(data[q]) = m /\ data[q][m] = Nobody
        /\ \A k \in 1 .. m - 1 : data'[q][k] = data[q][k]
    BY <2>1, <2>3 DEF Locked
  <2>5. ppc'[p] \in Holding
    BY <2>2 DEF Holding
  <2> QED BY <1>0, <2>1, <2>2, <2>4, <2>5, GivenHeld
<1>3. ASSUME Post(p) PROVE Held'
  <2>1. PICK q \in Queues : q = target[p]
    BY DEF Types
  <2>2. OnlyRow(q) /\ Shown(data[q], data'[q], p)
    BY <1>3, <2>1, PostRow
  <2>3. ppc[p] \in Holding /\ ppc'[p] \notin Holding /\ UNCHANGED <<overwriters, mode, target>>
    BY <1>3 DEF Post, Step, After, Holding, Types, receiver
  <2> QED BY <1>0, <2>1, <2>2, <2>3, ShownHeld
<1>4. ASSUME GetNotificationQueue(p) \/ SendReserve(p) \/ SendPublish(p) \/ SendNothing(p) PROVE Held'
  <2>1. UNCHANGED <<data, overwriters, mode, target>>
    BY <1>4 DEF GetNotificationQueue, SendReserve, SendPublish, SendNothing, queues, receiver
  <2>2. /\ ppc'[p] \in Holding <=> ppc[p] \in Holding
        /\ ppc'[p] = "replace" <=> ppc[p] = "replace"
    BY <1>4 DEF GetNotificationQueue, SendReserve, SendPublish, SendNothing, Step, After, Holding, Types
  <2>3. \A o \in Producers : /\ ppc'[o] \in Holding <=> ppc[o] \in Holding
                             /\ ppc'[o] = "replace" <=> ppc[o] = "replace"
    BY <1>0, <2>2 DEF OnlyMover
  <2> QED BY <2>1, <2>3, QuietHeld
<1> QED BY <1>1, <1>2, <1>3, <1>4 DEF PushingStep, PushStep

LEMMA ReceiverHeld ==
  ASSUME Types, Types', Setup, Fronts, Held, AnyStep \/ AllStep \/ Release \/ FreeStep, UNCHANGED producer
  PROVE  Held'
<1>0. UNCHANGED mode
  BY ReceiverMode
<1>1. ASSUME NEW q \in Queues, PopBefore(q) PROVE Held'
  <2>1. OnlyRow(q) /\ Freed(data[q], data'[q])
    BY <1>1, PopRow DEF PopBefore
  <2> QED BY <1>0, <2>1, FreedHeld
<1>2. ASSUME AnyPop \/ AllTake PROVE Held'
  <2>1. PICK q \in Queues : q = at
    BY DEF Types
  <2>2. ReadyFront(q) /\ data' = [data EXCEPT ![q] = Tail(data[q])]
    <3>1. CASE AnyPop
      BY <2>1, <3>1 DEF AnyPop, Types
    <3>2. CASE AllTake
      <4>1. q \in 0 .. Last /\ q >= at
        BY <2>1, QueueRange
      <4>2. hasFrontOwnership[q]
        BY <3>2, <4>1 DEF AllTake, Fronts
      <4> QED BY <2>1, <3>2, <4>2 DEF AllTake, Fronts, Types
    <3> QED BY <1>2, <3>1, <3>2
  <2>3. OnlyRow(q) /\ Freed(data[q], data'[q])
    BY <2>2, PopRow
  <2> QED BY <1>0, <2>3, FreedHeld
<1>3. ASSUME UNCHANGED data PROVE Held'
  BY <1>0, <1>3, QuietHeld DEF producer
<1>4. (\E q \in Queues : PopBefore(q)) \/ AnyPop \/ AllTake \/ UNCHANGED data
  BY ReceiverData
<1> QED BY <1>1, <1>2, <1>3, <1>4

-----------------------------------------------------------------------------
(* The fronts the receiver owns.                                              *)

LEMMA ReadyIs ==
  ASSUME Types, NEW q \in Queues
  PROVE  ReadyFront(q) <=> Len(data[q]) # 0 /\ data[q][1] = Nobody
<1>1. data[q] \in Row /\ Len(data[q]) \in Nat
  BY RowFacts
<1>2. data[q] # <<>> <=> Len(data[q]) # 0
  BY <1>1, EmptySeq DEF Row
<1> QED BY <1>1, <1>2 DEF ReadyFront

LEMMA ReadyIsNext ==
  Types' => \A q \in Queues : ReadyFront(q)' <=> Len(data'[q]) # 0 /\ data'[q][1] = Nobody
<1>1. Types => \A q \in Queues : ReadyFront(q) <=> Len(data[q]) # 0 /\ data[q][1] = Nobody
  BY ReadyIs
<1>2. Types' => (\A q \in Queues : ReadyFront(q) <=> Len(data[q]) # 0 /\ data[q][1] = Nobody)'
  BY <1>1, PTL
<1> QED BY <1>2

LEMMA PushFronts ==
  ASSUME Types, Types', Fronts, NEW p \in Producers, PushingStep(p)
  PROVE  Fronts'
<1>1. UNCHANGED <<hasFrontOwnership, rpc, at, mode>>
  BY DEF PushingStep, Push, OverwriteLast, Call, PushStep, GetNotificationQueue, Post, SendReserve,
     SendPublish, SendNothing, receiver, queues
<1>2. ASSUME NEW q \in Queues, ReadyFront(q) PROVE ReadyFront(q)'
  <2>0. Len(data[q]) \in Nat \ {0} /\ data[q][1] = Nobody /\ 1 \in 1 .. Len(data[q])
    BY <1>2, ReadyIs, RowFacts
  <2>1. SUFFICES Len(data'[q]) # 0 /\ data'[q][1] = Nobody
    BY ReadyIsNext
  <2>2. CASE data'[q] = data[q]
    BY <2>0, <2>2
  <2>3. CASE Push(p, q)
    <3>1. Added(data[q], data'[q], p)
      BY <2>3, PushRow
    <3> QED BY <2>0, <3>1 DEF Added
  <2>4. CASE OverwriteLast(p, q)
    <3>1. Locked(data[q], data'[q], p)
      BY <2>4, OverwriteRow
    <3>2. Len(data[q]) > 1
      <4>1. p \in Overwriters[mode] /\ mode \in Modes /\ q \in Targets[mode][p] /\ Len(data[q]) = Length[q]
        BY <2>4 DEF OverwriteLast, Call, PushesTo, Types
      <4> QED BY <4>1, OverwriteAssumption
    <3> QED BY <2>0, <3>1, <3>2 DEF Locked
  <2>5. CASE Post(p) /\ target[p] = q
    <3>1. Shown(data[q], data'[q], p)
      BY <2>5, PostRow
    <3> QED BY <2>0, <3>1 DEF Shown
  <2>6. CASE Post(p) /\ target[p] # q
    <3>1. PICK t \in Queues : t = target[p]
      BY DEF Types
    <3>2. OnlyRow(t)
      BY <2>6, <3>1, PostRow
    <3> QED BY <2>2, <2>6, <3>1, <3>2 DEF OnlyRow
  <2>7. ASSUME NEW t \in Queues, Push(p, t) \/ OverwriteLast(p, t), t # q PROVE data'[q] = data[q]
    <3>1. OnlyRow(t)
      BY <2>7, PushRow, OverwriteRow
    <3> QED BY <2>7, <3>1 DEF OnlyRow
  <2>8. CASE GetNotificationQueue(p) \/ SendReserve(p) \/ SendPublish(p) \/ SendNothing(p)
    BY <2>2, <2>8 DEF GetNotificationQueue, SendReserve, SendPublish, SendNothing, queues
  <2> QED BY <2>2, <2>3, <2>4, <2>5, <2>6, <2>7, <2>8 DEF PushingStep, PushStep
<1> QED BY <1>1, <1>2 DEF Fronts

LEMMA ReceiverFronts ==
  ASSUME Types, Types', Setup, Fronts, AnyStep \/ AllStep \/ Release \/ FreeStep
  PROVE  Fronts'
<1> USE DEF Working
<1>0. /\ at \in 0 .. Last /\ Last \in Nat /\ Queues = 0 .. Last /\ UNCHANGED mode
      /\ hasFrontOwnership \in [Queues -> BOOLEAN] /\ rpc \in SettingUp \cup Working
  BY QueueRange, ReceiverMode DEF Types
<1>1. ASSUME UNCHANGED data PROVE \A q \in Queues : ReadyFront(q)' = ReadyFront(q)
  BY <1>1 DEF ReadyFront
<1>2. ASSUME \/ (\E q \in Queues : PopBefore(q)) \/ SetNotificationQueue \/ Announce \/ Announced
             \/ AnyRemove \/ AnyPop
      PROVE  Fronts'
  <2>1. UNCHANGED hasFrontOwnership /\ rpc' \notin {"all_check", "all_pop"} /\ (rpc \in SettingUp \/ mode = "any")
    BY <1>2 DEF PopBefore, SetNotificationQueue, Announce, Announced, AnyRemove, AnyPop, receiver, queues,
       SettingUp, Setup
  <2>2. \A q \in Queues : ~hasFrontOwnership[q]
    BY <2>1 DEF Fronts, SettingUp
  <2> QED BY <2>1, <2>2 DEF Fronts
<1>3. ASSUME TakeNotification \/ AllWait \/ AllPop \/ AllRemove \/ AllEmpty PROVE Fronts'
  <2>1. UNCHANGED <<hasFrontOwnership, data>> /\ rpc \in Working /\ rpc' \in Working
    BY <1>3 DEF TakeNotification, AllWait, AllPop, AllRemove, AllEmpty, queues
  <2>2. rpc' # "all_pop" /\ (rpc' = "all_check" => at' = 0)
    BY <1>3 DEF TakeNotification, AllWait, AllPop, AllRemove, AllEmpty
  <2> QED BY <1>0, <1>1, <2>1, <2>2 DEF Fronts
<1>4. ASSUME AllCheck PROVE Fronts'
  <2>1. /\ rpc = "all_check" /\ UNCHANGED data /\ hasFrontOwnership' = [hasFrontOwnership EXCEPT ![at] = TRUE]
        /\ ReadyFront(at) /\ mode # "any"
        /\ IF at = Last THEN rpc' = "all_pop" /\ at' = 0 ELSE rpc' = "all_check" /\ at' = at + 1
    BY <1>0, <1>4 DEF AllCheck, Fronts, Setup
  <2>2. \A q \in Queues : hasFrontOwnership'[q] <=> q = at \/ hasFrontOwnership[q]
    BY <1>0, <2>1
  <2>3. \A q \in Queues : hasFrontOwnership'[q] => ReadyFront(q)'
    BY <1>0, <1>1, <2>1, <2>2 DEF Fronts
  <2>4. \A q \in Queues : q <= at => hasFrontOwnership'[q]
    <3>1. \A q \in Queues : q < at => hasFrontOwnership[q]
      BY <2>1 DEF Fronts
    <3> QED BY <1>0, <2>2, <3>1
  <2>5. CASE at = Last
    BY <1>0, <2>1, <2>3, <2>4, <2>5 DEF Fronts
  <2>6. CASE at # Last
    <3>1. \A q \in Queues : q < at + 1 => q <= at
      BY <1>0
    <3> QED BY <1>0, <2>1, <2>3, <2>4, <2>6, <3>1 DEF Fronts
  <2> QED BY <2>5, <2>6
<1>5. ASSUME AllTake PROVE Fronts'
  <2>1. PICK t \in Queues : t = at
    BY <1>0
  <2>2. /\ rpc = "all_pop" /\ hasFrontOwnership' = [hasFrontOwnership EXCEPT ![t] = FALSE] /\ mode # "any"
        /\ data' = [data EXCEPT ![t] = Tail(data[t])]
        /\ IF t = Last THEN rpc' = "idle" /\ at' = 0 ELSE rpc' = "all_pop" /\ at' = t + 1
    BY <1>0, <1>5, <2>1 DEF AllTake, Setup, Types
  <2>3. \A q \in Queues : hasFrontOwnership'[q] <=> q # t /\ hasFrontOwnership[q]
    BY <1>0, <2>2
  <2>4. \A q \in Queues \ {t} : ReadyFront(q)' = ReadyFront(q)
    BY <2>2 DEF ReadyFront, Types
  <2>5. \A q \in Queues : hasFrontOwnership'[q] => ReadyFront(q)'
    BY <2>3, <2>4 DEF Fronts
  <2>6. \A q \in Queues : q >= t + 1 => hasFrontOwnership'[q]
    <3>1. \A q \in Queues : q >= t => hasFrontOwnership[q]
      BY <2>1, <2>2 DEF Fronts
    <3> QED BY <1>0, <2>1, <2>3, <3>1
  <2> QED BY <1>0, <2>2, <2>5, <2>6 DEF Fronts
<1>6. ASSUME Release \/ FreeStep PROVE Fronts'
  <2>1. UNCHANGED <<hasFrontOwnership, data, rpc, at>>
    BY <1>6 DEF Release, FreeStep, TestTerminated, PushTermination, queues
  <2> QED BY <1>0, <1>1, <2>1 DEF Fronts
<1> QED BY <1>2, <1>3, <1>4, <1>5, <1>6 DEF AnyStep, AllStep

-----------------------------------------------------------------------------
(* One queue without unannounced values, for when_all().                      *)

(* The other steps than AnyStep come after the setting up of when_all().      *)
LEMMA NotExact ==
  ASSUME Types, Setup, Released, AllStep \/ Release \/ FreeStep
  PROVE  mode # "any" /\ rpc \in Working /\ rpc' \in Working /\ ~Exact /\ ~Exact'
<1>1. mode # "any" /\ rpc \in Working
  <2>1. CASE AllStep
    BY <2>1 DEF AllStep, AllWait, AllPop, AllRemove, AllCheck, AllEmpty, AllTake, Setup, Working
  <2>2. CASE Release
    BY <2>2 DEF Release, UserGoes, Types, SettingUp
  <2>3. CASE FreeStep
    BY <2>3 DEF FreeStep, TestTerminated, PushTermination, UserGoes, Released
  <2> QED BY <2>1, <2>2, <2>3
<1>2. rpc' \in Working
  BY <1>1 DEF AllStep, AllWait, AllPop, AllRemove, AllCheck, AllEmpty, AllTake, Release, FreeStep, TestTerminated,
     PushTermination, Working
<1>3. UNCHANGED mode /\ Working \cap SettingUp = {}
  BY ReceiverMode DEF Working, SettingUp
<1> QED BY <1>1, <1>2, <1>3 DEF Exact

(* In a queue of one producer, the first place is published if any is.        *)
LEMMA FrontFirst ==
  ASSUME Types, Held, NEW q \in Queues, SingleProducer(q), Pub(q) # {}
  PROVE  ReadyFront(q)
<1>1. PICK k \in 1 .. Len(data[q]) : data[q][k] = Nobody
  BY DEF Pub, Positions
<1>2. Len(data[q]) \in Nat \ {0} /\ 1 \in 1 .. Len(data[q]) /\ data[q] \in Row
  BY <1>1, RowFacts
<1>3. data[q][1] = Nobody
  <2> SUFFICES ASSUME data[q][1] # Nobody PROVE FALSE
    OBVIOUS
  <2>1. 1 = Len(data[q])
    BY <1>2, HeldIs DEF Owned
  <2> QED BY <1>1, <2>1
<1> QED BY <1>2, <1>3, ReadyIs

(* A queue of one producer without a value at its front has only values about *)
(* to be published, and their notification follows unless they raced.         *)
LEMMA EmptyAnnounces ==
  ASSUME Types, Held, RaceSeen, NEW q \in Queues, SingleProducer(q), q \notin raced, info[q].notifyerQueue,
         ~ReadyFront(q)
  PROVE  Values(q) <= Cardinality(Snd(q))
<1>1. CountsOK /\ Pub(q) = {}
  BY CountsNow, FrontFirst
<1>2. PICK p \in Producers \ overwriters : {o \in Producers : PushesTo(o, q)} = {p}
  BY DEF SingleProducer
<1>3. ASSUME NEW o \in Mid(q) PROVE o \in Snd(q)
  <2>1. o \in Producers /\ target[o] = q /\ ppc[o] \in {"post", "replace"}
    BY DEF Mid, AtQueue
  <2>2. PushesTo(o, q) /\ (ppc[o] = "replace" => o \in overwriters)
    BY <2>1, HeldIs DEF HasPlace, Holding
  <2>3. ppc[o] = "post"
    BY <1>2, <2>1, <2>2
  <2>4. notification_queue[o]
    BY <2>1, <2>3 DEF RaceSeen
  <2> QED BY <2>1, <2>3, <2>4 DEF Snd, AtQueue
<1>4. Mid(q) \subseteq Snd(q)
  BY <1>3
<1>5. Cardinality(Mid(q)) <= Cardinality(Snd(q))
  BY <1>1, <1>4, FS_Subset DEF CountsOK
<1>6. Cardinality(Pub(q)) = 0
  BY <1>1, FS_EmptySet
<1>7. Values(q) = Cardinality(Pub(q)) + Cardinality(Mid(q)) /\ Cardinality(Mid(q)) \in Nat
  BY <1>1 DEF CountsOK
<1> QED BY <1>5, <1>6, <1>7

LEMMA FullCoversNext ==
  Types' /\ Held' /\ ~Ended' /\ NotifyFull' => \E q \in Queues : Values(q)' <= Cardinality(Nts(q)')
<1>1. Types /\ Held /\ ~Ended /\ NotifyFull => \E q \in Queues : Values(q) <= Cardinality(Nts(q))
  BY FullCovers
<1>2. Types' /\ Held' /\ ~Ended' /\ NotifyFull' => (\E q \in Queues : Values(q) <= Cardinality(Nts(q)))'
  BY <1>1, PTL
<1> QED BY <1>2

LEMMA PushCovered ==
  ASSUME Types, Types', Held, Held', Covered, NEW p \in Producers, PushingStep(p)
  PROVE  Covered'
<1>0. SUFFICES ASSUME rpc' \in Working, Orderly', rpc' # "exited", ~Ended'
               PROVE  \E q \in Queues : Values(q)' <= Announcements(q)' + Credit(q)'
  BY DEF Covered
<1>1. UNCHANGED <<rpc, at, mode, raced, overwriters>>
  BY DEF PushingStep, Push, OverwriteLast, Call, PushStep, GetNotificationQueue, Post, SendReserve,
     SendPublish, SendNothing, receiver
<1>2. Orderly
  BY <1>0, <1>1, Rules DEF Orderly
<1>3. ~Ended
  <2>1. Terminate \notin Queues
    BY QueueRange
  <2> QED BY <1>0, <2>1, PushSent, EndedKept
<1>4. PICK q \in Queues : Values(q) <= Announcements(q) + Credit(q)
  BY <1>0, <1>1, <1>2, <1>3 DEF Covered
<1>5. CountsOK /\ CountsOK' /\ Credit(q)' = Credit(q) /\ \A r \in Queues : Credit(r)' \in {0, 1}
  BY <1>1, CountsNow, CountsNext DEF Credit, One
<1>6. CASE SendNothing(p) /\ notification_queue[p]
  <2>1. NotifyFull /\ UNCHANGED notify
    BY <1>6 DEF SendNothing, queues
  <2>2. NotifyFull'
    BY <2>1 DEF NotifyFull, summedLength, Places
  <2>3. PICK r \in Queues : Values(r)' <= Cardinality(Nts(r)')
    BY <1>0, <2>2, FullCoversNext
  <2>4. Cardinality(Nts(r)') <= Announcements(r)'
    BY <1>5 DEF CountsOK
  <2>5. Values(r)' \in Int /\ Announcements(r)' \in Int /\ Cardinality(Nts(r)') \in Int
    BY <1>5 DEF CountsOK
  <2> QED BY <1>5, <2>3, <2>4, <2>5
<1>7. CASE ~(SendNothing(p) /\ notification_queue[p])
  <2>1. Values(q)' - Announcements(q)' = Values(q) - Announcements(q)
    BY <1>7, PushBalance
  <2>2. Values(q) \in Int /\ Announcements(q) \in Int /\ Values(q)' \in Int /\ Announcements(q)' \in Int
    BY <1>5 DEF CountsOK
  <2>3. Credit(q) \in Int
    BY DEF Credit, One
  <2> QED BY <1>4, <1>5, <2>1, <2>2, <2>3
<1> QED BY <1>6, <1>7

LEMMA ReceiverMoves ==
  ASSUME Types, Types', UNCHANGED producer, UNCHANGED info, rpc \notin {"announce", "any_pop"},
         rpc' \notin {"announce", "any_pop"}, NEW r \in Queues
  PROVE  /\ Values(r) \in Int /\ Values(r)' \in Int /\ Announcements(r) \in Int /\ Announcements(r)' \in Int
         /\ Cardinality(Pub(r)) \in Int /\ Cardinality(Pub(r)') \in Int
         /\ Cardinality(Nts(r)) \in Int /\ Cardinality(Nts(r)') \in Int
         /\ Values(r)' = Values(r) + (Cardinality(Pub(r)') - Cardinality(Pub(r)))
         /\ Announcements(r)' = Announcements(r) + (Cardinality(Nts(r)') - Cardinality(Nts(r)))
<1>1. CountsOK /\ CountsOK' /\ Mid(r)' = Mid(r) /\ Snd(r)' = Snd(r)
  BY CountsNow, CountsNext, SameProducers
<1>2. Todo(r) = 0 /\ Todo(r)' = 0 /\ Popping(r) = 0 /\ Popping(r)' = 0
  BY DEF Todo, Popping, One
<1>3. /\ Cardinality(Pub(r)) \in Nat /\ Cardinality(Pub(r)') \in Nat /\ info[r].previousData \in Nat
      /\ Cardinality(Nts(r)) \in Nat /\ Cardinality(Nts(r)') \in Nat
      /\ Cardinality(Mid(r)) \in Nat /\ Cardinality(Snd(r)) \in Nat
      /\ Values(r) = Cardinality(Pub(r)) + Cardinality(Mid(r))
      /\ Announcements(r) = info[r].previousData + Todo(r) + Cardinality(Snd(r)) + Cardinality(Nts(r)) + Popping(r)
  BY <1>1 DEF CountsOK
<1>4. /\ Values(r)' = Cardinality(Pub(r)') + Cardinality(Mid(r))
      /\ Announcements(r)' = info[r].previousData + Todo(r)' + Cardinality(Snd(r)) + Cardinality(Nts(r)') + Popping(r)'
  BY <1>1 DEF CountsOK
<1> QED BY <1>2, <1>3, <1>4

LEMMA AllCovered ==
  ASSUME Shape, Types', Covered, mode # "any", rpc \in Working,
         TakeNotification \/ AllStep \/ Release \/ FreeStep, UNCHANGED producer
  PROVE  Covered'
<1> DEFINE Goal == \E q \in Queues : Values(q)' <= Announcements(q)' + Credit(q)'
<1>0. SUFFICES ASSUME Orderly', rpc' # "exited", ~Ended' PROVE Goal
  BY DEF Covered
<1>1. /\ Types /\ Setup /\ Held /\ RaceSeen /\ CountsOK
      /\ at \in 0 .. Last /\ Last \in Nat /\ Queues = 0 .. Last
  BY CountsNow, QueueRange DEF Shape, Types
<1>2. UNCHANGED <<info, raced>> /\ rpc # "exited"
  BY <1>0 DEF TakeNotification, AllStep, AllWait, AllPop, AllRemove, AllCheck, AllEmpty, AllTake, Release, FreeStep,
     TestTerminated, PushTermination, queues
<1>3. Orderly
  <2>1. UNCHANGED <<overwriters, mode>>
    BY ReceiverMode DEF producer, TakeNotification
  <2> QED BY <1>0, <1>2, <2>1, Rules DEF Orderly
<1>4. rpc \notin {"announce", "any_pop"} /\ rpc' \notin {"announce", "any_pop"}
  BY <1>1 DEF Setup, Working, TakeNotification, AllStep, AllWait, AllPop, AllRemove, AllCheck, AllEmpty, AllTake,
     Release, FreeStep, TestTerminated, PushTermination
<1>5. ASSUME NEW q \in Queues
      PROVE  /\ Values(q) \in Int /\ Values(q)' \in Int /\ Announcements(q) \in Int /\ Announcements(q)' \in Int
             /\ Values(q)' = Values(q) + (Cardinality(Pub(q)') - Cardinality(Pub(q)))
             /\ Announcements(q)' = Announcements(q) + (Cardinality(Nts(q)') - Cardinality(Nts(q)))
             /\ Cardinality(Pub(q)) \in Int /\ Cardinality(Pub(q)') \in Int
             /\ Cardinality(Nts(q)) \in Int /\ Cardinality(Nts(q)') \in Int
  BY <1>1, <1>2, <1>4, ReceiverMoves
<1>6. ASSUME UNCHANGED data, UNCHANGED notify, NEW q \in Queues
      PROVE  Values(q)' = Values(q) /\ Announcements(q)' = Announcements(q)
  BY <1>5, <1>6, SamePub, SameNotes
<1>7. ASSUME ~Ended PROVE \E q \in Queues : Values(q) <= Announcements(q) + Credit(q)
  BY <1>2, <1>3, <1>7 DEF Covered
<1>8. ASSUME UNCHANGED notify PROVE ~Ended
  BY <1>0, <1>8 DEF Ended
<1>9. ASSUME UNCHANGED <<data, notify>>, \A q \in Queues : Credit(q)' >= Credit(q) PROVE Goal
  <2>1. PICK q \in Queues : Values(q) <= Announcements(q) + Credit(q)
    BY <1>7, <1>8, <1>9
  <2>2. Credit(q) \in Int /\ Credit(q)' \in Int
    BY DEF Credit, One
  <2> QED BY <1>5, <1>6, <1>9, <2>1, <2>2
<1>10. CASE TakeNotification \/ AllWait \/ AllPop \/ Release \/ TestTerminated
  <2>1. UNCHANGED <<data, notify>>
    BY <1>10 DEF TakeNotification, AllWait, AllPop, Release, TestTerminated, queues
  <2>2. \A q \in Queues : Credit(q)' >= Credit(q)
    BY <1>10 DEF TakeNotification, AllWait, AllPop, Release, TestTerminated, Credit, One
  <2> QED BY <1>9, <2>1, <2>2
<1>11. CASE PushTermination
  <2>1. UNCHANGED <<data, rpc, at>> /\ notify' = Terminated
    BY <1>11 DEF PushTermination
  <2>2. NotifyFull
    <3> SUFFICES ASSUME ~NotifyFull PROVE FALSE
      OBVIOUS
    <3>1. PICK n \in Note : n = [id |-> Terminate, by |-> Nobody] /\ n.id = Terminate
      <4>1. [id |-> Terminate, by |-> Nobody] \in Note /\ [id |-> Terminate, by |-> Nobody].id = Terminate
        BY DEF Note, Ids
      <4> QED BY <4>1
    <3>2. MoreSent(Terminate)
      BY <1>1, <2>1, <3>1, SentAppend DEF Terminated
    <3> QED BY <1>0, <1>1, <3>2, EndedKept
  <2>3. UNCHANGED notify
    BY <2>1, <2>2 DEF Terminated
  <2>4. \A q \in Queues : Credit(q)' >= Credit(q)
    BY <2>1 DEF Credit, One
  <2> QED BY <1>9, <2>1, <2>3, <2>4
<1>12. CASE AllRemove
  <2>1. /\ rpc = "all_taken" /\ notify' = Tail(notify) /\ UNCHANGED data /\ notify # <<>>
        /\ Head(notify).id # Terminate /\ rpc' = "all_check"
    BY <1>0, <1>1, <1>12 DEF AllRemove, Setup
  <2>2. PICK h \in Ids : h = Head(notify).id /\ LessSent(h)
    BY <1>1, <2>1, SentRemoved
  <2>3. ~Ended
    BY <1>0, <1>1, <2>1, <2>2, EndedKept
  <2>4. PICK q \in Queues : Values(q) <= Announcements(q) + Credit(q)
    BY <1>7, <2>3
  <2>5. Credit(q) = 0 /\ Credit(q)' = 1
    BY <2>1 DEF Credit, One
  <2>6. Cardinality(Nts(q)) = Cardinality(Nts(q)') + One(q = h)
    BY <1>1, <2>2, LessNotes
  <2>7. Cardinality(Nts(q)') - Cardinality(Nts(q)) >= -1
    BY <1>5, <2>6 DEF One
  <2>8. Values(q)' = Values(q)
    BY <1>5, <2>1, SamePub
  <2> QED BY <1>5, <2>4, <2>5, <2>7, <2>8
<1>13. CASE AllCheck
  <2>1. /\ UNCHANGED <<data, notify>> /\ rpc = "all_check"
        /\ rpc' = "all_check" \/ (rpc' = "all_pop" /\ at' = 0)
    BY <1>13 DEF AllCheck
  <2>2. \A q \in Queues : q >= 0
    BY <1>1
  <2>3. \A q \in Queues : Credit(q)' >= Credit(q)
    BY <2>1, <2>2 DEF Credit, One
  <2> QED BY <1>9, <2>1, <2>3
<1>14. CASE AllEmpty
  <2>1. PICK t \in Queues : t = at
    BY <1>1
  <2>2. UNCHANGED <<data, notify>> /\ ~ReadyFront(t)
    BY <1>14, <2>1 DEF AllEmpty, queues
  <2>3. SingleProducer(t) /\ t \notin raced /\ info[t].notifyerQueue
    BY <1>1, <1>3 DEF Orderly, Setup
  <2>4. Values(t) <= Cardinality(Snd(t))
    BY <1>1, <2>2, <2>3, EmptyAnnounces
  <2>5. Cardinality(Snd(t)) <= Announcements(t) /\ Cardinality(Snd(t)) \in Int
    <3>1. Todo(t) = 0 /\ Popping(t) = 0
      BY <1>4 DEF Todo, Popping, One
    <3>2. /\ Announcements(t) = info[t].previousData + Todo(t) + Cardinality(Snd(t)) + Cardinality(Nts(t)) + Popping(t)
          /\ info[t].previousData \in Nat /\ Cardinality(Snd(t)) \in Nat /\ Cardinality(Nts(t)) \in Nat
      BY <1>1 DEF CountsOK
    <3> QED BY <3>1, <3>2
  <2>6. Values(t)' = Values(t) /\ Announcements(t)' = Announcements(t)
    BY <1>6, <2>2
  <2>7. Credit(t)' \in {0, 1}
    BY DEF Credit, One
  <2> QED BY <1>5, <2>4, <2>5, <2>6, <2>7
<1>15. CASE AllTake
  <2>1. PICK t \in Queues : t = at
    BY <1>1
  <2>2. /\ rpc = "all_pop" /\ data' = [data EXCEPT ![t] = Tail(@)] /\ UNCHANGED notify
        /\ IF t = Last THEN rpc' = "idle" ELSE rpc' = "all_pop" /\ at' = t + 1
    BY <1>15, <2>1 DEF AllTake
  <2>3. ReadyFront(t)
    <3>1. t >= at
      BY <1>1, <2>1
    <3> QED BY <2>2, <3>1 DEF Shape, Fronts
  <2>4. OnlyRow(t) /\ Freed(data[t], data'[t])
    BY <1>1, <2>2, <2>3, PopRow
  <2>5. PICK q \in Queues : Values(q) <= Announcements(q) + Credit(q)
    BY <1>7, <1>8, <2>2
  <2>6. Announcements(q)' = Announcements(q)
    BY <1>5, <2>2, SameNotes
  <2>7. Credit(q) = One(q >= t) /\ Credit(q)' = One(q > t)
    BY <1>1, <2>1, <2>2 DEF Credit, One
  <2>8. CASE q = t
    <3>1. Values(q)' = Values(q) - 1
      <4>1. Cardinality(Pub(q)) = Cardinality(Pub(q)') + 1
        BY <1>1, <2>4, <2>8, PubFreed
      <4> QED BY <1>5, <4>1
    <3>2. Credit(q) = 1 /\ Credit(q)' = 0
      BY <1>1, <2>7, <2>8 DEF One
    <3> QED BY <1>5, <2>5, <2>6, <3>1, <3>2
  <2>9. CASE q # t
    <3>1. Values(q)' = Values(q)
      <4>1. Pub(q)' = Pub(q)
        BY <2>4, <2>9, SamePub DEF OnlyRow
      <4> QED BY <1>5, <4>1
    <3>2. Credit(q)' = Credit(q)
      BY <1>1, <2>7, <2>9 DEF One
    <3> QED BY <1>5, <2>5, <2>6, <3>1, <3>2
  <2> QED BY <2>8, <2>9
<1> QED BY <1>10, <1>11, <1>12, <1>13, <1>14, <1>15 DEF AllStep, FreeStep

LEMMA ReceiverCovered ==
  ASSUME Shape, Types', AllCounted, Covered, Fits, AnyStep \/ AllStep \/ Release \/ FreeStep, UNCHANGED producer
  PROVE  Covered'
<1>1. Types /\ Setup /\ Released
  BY DEF Shape
<1>2. CASE Exact /\ AnyStep
  <2>1. 0 \in Queues
    BY QueueRange
  <2>2. Values(0)' = Announcements(0)'
    BY <1>1, <1>2, <2>1, ReceiverCounted
  <2>3. Announcements(0)' \in Nat
    BY <2>1, CountsNext DEF CountsOK
  <2>4. Credit(0)' \in {0, 1}
    BY DEF Credit, One
  <2> QED BY <2>1, <2>2, <2>3, <2>4 DEF Covered
<1>3. CASE ~Exact /\ AnyStep
  <2>1. mode # "any" /\ rpc \in Working
    BY <1>1, <1>3 DEF Exact, Types
  <2>2. TakeNotification
    BY <1>1, <1>3, <2>1 DEF AnyStep, PopBefore, SetNotificationQueue, Announce, Announced, AnyRemove, AnyPop, Setup,
       Working
  <2> QED BY <2>1, <2>2, AllCovered
<1>4. CASE AllStep \/ Release \/ FreeStep
  BY <1>1, <1>4, NotExact, AllCovered
<1> QED BY <1>2, <1>3, <1>4

-----------------------------------------------------------------------------
(* The invariant holds.                                                       *)

LEMMA InitIndInv == Init => IndInv
<1> SUFFICES ASSUME Init PROVE IndInv
  OBVIOUS
<1>0. rpc \notin Working /\ notify = <<>>
  BY DEF Init, Working
<1>1. Types
  <2>1. 0 \in Queues
    BY QueueRange
  <2>2. \A q \in Queues : Len(data[q]) = 0 /\ Length[q] \in Nat
    BY LengthAssumption DEF Init
  <2> QED BY <2>1, <2>2 DEF Init, Types, SettingUp
<1>2. Setup /\ Released /\ Fronts
  BY <1>0 DEF Init, Setup, Released, Fronts, Ended
<1>3. Held /\ RaceSeen
  BY DEF Init, Held, RaceSeen, Holding
<1>4. AllCounted
  <2> SUFFICES ASSUME NEW q \in Queues PROVE Values(q) = Announcements(q)
    BY DEF AllCounted
  <2>1. Pub(q) = {} /\ Nts(q) = {}
    BY DEF Init, Pub, Nts, Positions
  <2>2. Mid(q) = {} /\ Snd(q) = {}
    BY DEF Init, Mid, Snd, AtQueue
  <2>3. info[q].previousData = 0 /\ Todo(q) = 0 /\ Popping(q) = 0
    BY DEF Init, Todo, Popping, One
  <2>4. /\ Cardinality(Pub(q)) = 0 /\ Cardinality(Nts(q)) = 0
        /\ Cardinality(Mid(q)) = 0 /\ Cardinality(Snd(q)) = 0
    <3>1. Cardinality({}) = 0
      BY FS_EmptySet
    <3> QED BY <2>1, <2>2, <3>1
  <2>5. /\ Values(q) = Cardinality(Pub(q)) + Cardinality(Mid(q))
        /\ Announcements(q) = info[q].previousData + Todo(q) + Cardinality(Snd(q))
                              + Cardinality(Nts(q)) + Popping(q)
    BY <1>1, CountsNow DEF CountsOK
  <2> QED BY <2>3, <2>4, <2>5
<1>5. Covered
  BY <1>0 DEF Covered
<1> QED BY <1>1, <1>2, <1>3, <1>4, <1>5 DEF IndInv, Shape

LEMMA PushCounted ==
  ASSUME Types, Types', Held, AllCounted, Fits, NEW p \in Producers, PushingStep(p)
  PROVE  AllCounted'
<1>1. UNCHANGED <<rpc, mode>>
  BY DEF PushingStep, Push, OverwriteLast, Call, PushStep, GetNotificationQueue, Post, SendReserve,
     SendPublish, SendNothing, receiver
<1>2. SUFFICES ASSUME Exact, NEW q \in Queues PROVE Values(q)' = Announcements(q)'
  BY <1>1 DEF AllCounted, Exact
<1>3. ~(SendNothing(p) /\ notification_queue[p])
  BY <1>2 DEF SendNothing, Fits
<1>4. Values(q)' - Announcements(q)' = Values(q) - Announcements(q) /\ Values(q) = Announcements(q)
  BY <1>2, <1>3, PushBalance DEF AllCounted
<1>5. Values(q) \in Int /\ Values(q)' \in Int /\ Announcements(q)' \in Int
  BY CountsNow, CountsNext DEF CountsOK
<1> QED BY <1>4, <1>5

LEMMA AllStillCounted ==
  ASSUME Shape, Types', AllCounted, Fits, AnyStep \/ AllStep \/ Release \/ FreeStep, UNCHANGED producer
  PROVE  AllCounted'
<1>1. Types /\ Setup /\ Released
  BY DEF Shape
<1>2. CASE AnyStep
  <2>1. Exact' => Exact
    BY <1>2, ReceiverMode DEF Exact, AnyStep, PopBefore, SetNotificationQueue, Announce, Announced,
       TakeNotification, AnyRemove, AnyPop, receiver, SettingUp
  <2>2. Exact => \A q \in Queues : Values(q)' = Announcements(q)'
    BY <1>1, <1>2, ReceiverCounted
  <2> QED BY <2>1, <2>2 DEF AllCounted
<1>3. CASE AllStep \/ Release \/ FreeStep
  BY <1>1, <1>3, NotExact DEF AllCounted
<1> QED BY <1>2, <1>3

LEMMA IndInvInductive == IndInv /\ [Next]_vars => IndInv'
<1> SUFFICES ASSUME IndInv, [Next]_vars PROVE IndInv'
  OBVIOUS
<1>1. /\ Shape /\ Types /\ Setup /\ Released /\ Fronts /\ Held /\ RaceSeen
      /\ AllCounted /\ Covered /\ Fits
  BY FitNow DEF IndInv, Shape
<1>2. CASE UNCHANGED vars
  <2>1. UNCHANGED <<queues, producer, receiver>>
    BY <1>2 DEF vars
  <2>2. Types' /\ RaceSeen'
    BY <1>1, <2>1 DEF queues, producer, receiver, Types, RaceSeen
  <2>3. Held'
    BY <1>1, <2>1, <2>2, QuietHeld DEF queues, producer, receiver
  <2>4. Setup' /\ Released' /\ Fronts'
    BY <1>1, <2>1 DEF queues, producer, receiver, Setup, Released, Fronts, ReadyFront, Ended
  <2>5. \A q \in Queues : /\ Values(q)' = Values(q) /\ Announcements(q)' = Announcements(q)
                          /\ Credit(q)' = Credit(q)
    BY <2>1 DEF queues, producer, receiver, Values, Announcements, AtQueue, Credit
  <2>6. (Orderly' <=> Orderly) /\ (Ended' <=> Ended) /\ (Exact' <=> Exact) /\ rpc' = rpc
    BY <2>1, Rules DEF queues, producer, receiver, Orderly, Ended, Exact
  <2>7. AllCounted' /\ Covered'
    BY <1>1, <2>5, <2>6 DEF AllCounted, Covered
  <2> QED BY <2>2, <2>3, <2>4, <2>7 DEF IndInv, Shape
<1>3. ASSUME NEW p \in Producers, PushingStep(p) PROVE IndInv'
  <2>1. Types'
    BY <1>1, <1>3, PushTypes
  <2>2. Setup' /\ Released' /\ Fronts' /\ Held' /\ RaceSeen'
    BY <1>1, <1>3, <2>1, PushSetup, PushFronts, PushHeld, PushRaceSeen
  <2>3. AllCounted' /\ Covered'
    BY <1>1, <1>3, <2>1, <2>2, PushCounted, PushCovered
  <2> QED BY <2>1, <2>2, <2>3 DEF IndInv, Shape
<1>4. ASSUME AnyStep \/ AllStep \/ Release \/ FreeStep PROVE IndInv'
  <2>1. Types' /\ UNCHANGED producer
    BY <1>1, <1>4, ReceiverTypes
  <2>2. Setup' /\ Released' /\ Fronts'
    BY <1>1, <1>4, <2>1, ReceiverSetup, ReceiverReleased, ReceiverFronts
  <2>3. Held' /\ RaceSeen'
    BY <1>1, <1>4, <2>1, ReceiverHeld, ReceiverRaceSeen
  <2>4. AllCounted' /\ Covered'
    BY <1>1, <1>4, <2>1, AllStillCounted, ReceiverCovered
  <2> QED BY <2>1, <2>2, <2>3, <2>4 DEF IndInv, Shape
<1> QED BY <1>2, <1>3, <1>4, Steps

LEMMA IndInvHolds == Spec => []IndInv
BY InitIndInv, IndInvInductive, PTL DEF Spec

-----------------------------------------------------------------------------
(* What the invariant gives.                                                  *)

(* Every value pushed to a queue of when_any() is announced exactly once: by a *)
(* notification of its own push(), or by one of those setNotificationQueue()   *)
(* asks when_any() to send because get_notification_queue() counted the value. *)
THEOREM EveryValueAnnounced == Spec => []AnnouncedOnce
<1>1. IndInv => AnnouncedOnce
  BY DEF IndInv, AllCounted, Exact, AnnouncedOnce
<1> QED BY <1>1, IndInvHolds, PTL

(* The notification queue of when_any(), as long as all its queues together,  *)
(* has room whenever send_notification() or when_any() itself pushes to it,    *)
(* as long as the receiver pops one value per notification.                   *)
THEOREM NotificationsHaveRoom == Spec => []NotificationsFit
<1>1. IndInv => NotificationsFit
  BY FitNow DEF Fits, Exact, NotificationsFit
<1> QED BY <1>1, IndInvHolds, PTL

LEMMA AvailableNow == IndInv => NotifiedAvailableUnlessRaced
<1> SUFFICES ASSUME IndInv, rpc = "any_pop", SingleProducer(at), at \notin raced, ~ReadyFront(at)
             PROVE  FALSE
  BY DEF NotifiedAvailableUnlessRaced
<1>1. Types /\ Setup /\ Held /\ RaceSeen /\ AllCounted /\ CountsOK
  BY CountsNow DEF IndInv, Shape
<1>2. PICK q \in Queues : q = at
  BY <1>1 DEF Types
<1>3. info[q].notifyerQueue
  BY <1>1 DEF Setup, Working
<1>4. Values(q) <= Cardinality(Snd(q))
  BY <1>1, <1>2, <1>3, EmptyAnnounces
<1>5. Values(q) = Announcements(q)
  BY <1>1 DEF AllCounted, Exact, Setup
<1>6. Popping(q) = 1
  BY <1>2 DEF Popping, One
<1>7. /\ info[q].previousData \in Nat /\ Todo(q) \in Nat /\ Cardinality(Snd(q)) \in Nat /\ Cardinality(Nts(q)) \in Nat
      /\ Announcements(q) = info[q].previousData + Todo(q) + Cardinality(Snd(q)) + Cardinality(Nts(q)) + Popping(q)
  BY <1>1 DEF CountsOK
<1> QED BY <1>4, <1>5, <1>6, <1>7

(* A receiver of when_any() that was told of a queue finds a value at its      *)
(* front, if the queue has one producer, which does not call push_overwrite(), *)
(* and none of its values was counted but not yet published when when_any()    *)
(* set its notification queue.                                                 *)
THEOREM NotifiedIsThere == Spec => []NotifiedAvailableUnlessRaced
BY AvailableNow, IndInvHolds, PTL

LEMMA ComingNow == IndInv => NotifiedIsComing
<1> SUFFICES ASSUME IndInv, rpc = "any_pop"
             PROVE  /\ data[at] # <<>>
                    /\ \/ ReadyFront(at)
                       \/ \E p \in AtQueue(at, {"count", "post", "replace"}) : Head(data[at]) = p
  BY DEF NotifiedIsComing
<1>1. Types /\ Setup /\ Held /\ AllCounted /\ CountsOK
  BY CountsNow DEF IndInv, Shape
<1>2. PICK q \in Queues : q = at
  BY <1>1 DEF Types
<1>3. Values(q) = Announcements(q)
  BY <1>1 DEF AllCounted, Exact, Setup
<1>4. Popping(q) = 1
  BY <1>2 DEF Popping, One
<1>5. Cardinality(Pub(q)) # 0 \/ Cardinality(Mid(q)) # 0
  <2>1. /\ info[q].previousData \in Nat /\ Todo(q) \in Nat
        /\ Cardinality(Snd(q)) \in Nat /\ Cardinality(Nts(q)) \in Nat
        /\ Announcements(q) = info[q].previousData + Todo(q) + Cardinality(Snd(q))
                              + Cardinality(Nts(q)) + Popping(q)
        /\ Values(q) = Cardinality(Pub(q)) + Cardinality(Mid(q))
    BY <1>1 DEF CountsOK
  <2> QED BY <1>3, <1>4, <2>1
<1>6. Pub(q) # {} \/ Mid(q) # {}
  BY <1>5, FS_EmptySet
<1>7. /\ data[q] \in Seq(Producers \cup {Nobody})
      /\ Len(data[q]) \in Nat /\ DOMAIN data[q] = 1 .. Len(data[q])
  BY <1>1, LenProperties DEF Types
<1>8. \E k \in DOMAIN data[q] : TRUE
  <2>1. CASE Pub(q) # {}
    BY <1>7, <2>1 DEF Pub, Positions
  <2>2. CASE Mid(q) # {}
    BY <1>1, <2>2 DEF Mid, AtQueue, Held, Holding
  <2> QED BY <1>6, <2>1, <2>2
<1>9. data[q] # <<>> /\ 1 \in DOMAIN data[q] /\ Head(data[q]) = data[q][1]
  BY <1>7, <1>8
<1>10. CASE data[q][1] = Nobody
  BY <1>2, <1>9, <1>10 DEF ReadyFront
<1>11. CASE data[q][1] # Nobody
  <2>1. PICK p \in Producers : p = data[q][1]
    BY <1>7, <1>9, <1>11
  <2>2. p \in AtQueue(q, {"count", "post", "replace"})
    BY <1>1, <1>9, <1>11, <2>1 DEF Held, Holding, AtQueue
  <2> QED BY <1>2, <1>9, <2>1, <2>2
<1> QED BY <1>10, <1>11

(* A receiver of when_any() that was told of a queue waits for a value that    *)
(* exists, whoever else pushes to the queue and whether the call of when_any() *)
(* was raced or not: the front place is published, or its producer is in       *)
(* push() or push_overwrite() and about to publish it.                         *)
THEOREM NotifiedIsOnItsWay == Spec => []NotifiedIsComing
BY ComingNow, IndInvHolds, PTL

LEMMA WokenNow == IndInv => NoSleepOverData
<1> SUFFICES ASSUME IndInv, rpc = "all_wait", AllReady, Orderly, notify = <<>>
             PROVE  \E p \in Producers : ppc[p] \in {"post", "send"} /\ notification_queue[p]
  BY DEF NoSleepOverData
<1>1. Types /\ Setup /\ Covered /\ CountsOK
  BY CountsNow DEF IndInv, Shape
<1>2. Len(notify) = 0 /\ ~Ended
  BY <1>1, EndedIs DEF Types
<1>3. PICK q \in Queues : Values(q) <= Announcements(q) + Credit(q)
  BY <1>1, <1>2 DEF Covered, Working
<1>4. Cardinality(Pub(q)) >= 1
  <2>1. 1 \in Pub(q)
    BY <1>1, ReadyIs, RowFacts DEF AllReady, Pub, Positions
  <2>2. IsFiniteSet(Pub(q)) /\ Cardinality(Pub(q)) \in Nat
    BY <1>1 DEF CountsOK
  <2>3. Cardinality(Pub(q)) # 0
    BY <2>1, <2>2, FS_EmptySet
  <2> QED BY <2>2, <2>3
<1>5. info[q].previousData = 0 /\ Todo(q) = 0 /\ Popping(q) = 0 /\ Credit(q) = 0
  BY <1>1 DEF Setup, Working, Todo, Popping, Credit, One
<1>6. Cardinality(Nts(q)) = 0
  <2>1. Nts(q) = {}
    BY <1>2 DEF Nts, Positions
  <2> QED BY <2>1, FS_EmptySet
<1>7. /\ Values(q) = Cardinality(Pub(q)) + Cardinality(Mid(q)) /\ Cardinality(Mid(q)) \in Nat
      /\ Announcements(q) = info[q].previousData + Todo(q) + Cardinality(Snd(q)) + Cardinality(Nts(q)) + Popping(q)
      /\ Cardinality(Snd(q)) \in Nat /\ IsFiniteSet(Snd(q)) /\ Cardinality(Pub(q)) \in Nat
  BY <1>1 DEF CountsOK
<1>8. Cardinality(Snd(q)) # 0
  BY <1>3, <1>4, <1>5, <1>6, <1>7
<1>9. Snd(q) # {}
  BY <1>8, FS_EmptySet
<1> QED BY <1>9 DEF Snd, AtQueue

(* pop_wait() on the queue of when_all() never sleeps for good while every     *)
(* queue has data: there is a notification, or a push() is about to send one.  *)
(* Notifications are lost when the notification queue is full, and most of     *)
(* them are consumed in vain; yet some queue has always as many notifications  *)
(* as values, unless a push raced the call of when_all() or a queue has more   *)
(* than one producer.                                                          *)
THEOREM SleeperWillBeWoken == Spec => []NoSleepOverData
BY WokenNow, IndInvHolds, PTL
=============================================================================
