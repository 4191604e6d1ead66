-------------------------- MODULE ContinuationOrder --------------------------
(* Theorems about Continuation, on top of the life cycle: the consumer gets    *)
(* the results in the order of the elements, and no element is lost on its    *)
(* way.                                                                       *)
EXTENDS ContinuationProofs

-----------------------------------------------------------------------------
(* The order of the elements.  The line is what the elements move along: the   *)
(* queues and, behind the last of them, what the consumer has got.             *)

Line     == [k \in 0 .. Result + 1 |-> IF k = Result + 1 THEN results ELSE queue[k]]
Stations == 0 .. Result + 1
Real(x)  == x.kind # "terminate"

(* The front element has been processed but is not popped yet.                *)
Front(k) == IF tpc = "pop" /\ at = k THEN 2 ELSE 1

(* The items at a station are elements that went in, with the kind that the   *)
(* consumer is to see, except in the origin.                                  *)
Genuine(k, x) == /\ x.id \in 1 .. Len(sent)
                 /\ x.kind = IF k = 0 THEN sent[x.id].kind ELSE ExpectedKind(x.id)

ItemsGenuine == \A k \in Stations : \A n \in DOMAIN Line[k] : Real(Line[k][n]) => Genuine(k, Line[k][n])
OrderWithin  == \A k \in Stations : \A m, n \in DOMAIN Line[k] :
                    m < n /\ Real(Line[k][m]) /\ Real(Line[k][n]) => Line[k][m].id < Line[k][n].id
OrderAcross  == \A j, k \in Stations : \A m \in DOMAIN Line[j], n \in DOMAIN Line[k] :
                    k < j /\ n >= Front(k) /\ Real(Line[j][m]) /\ Real(Line[k][n]) => Line[j][m].id < Line[k][n].id

(* The element the reader has taken from a queue of type void.                *)
InHand == tpc = "call" /\ void[at] /\ Real(v)
OrderInHand ==
    InHand =>
        /\ Genuine(at, v)
        /\ \A k \in Stations : \A n \in DOMAIN Line[k] : Real(Line[k][n]) =>
               IF k > at THEN Line[k][n].id < v.id ELSE v.id < Line[k][n].id

(* The internal exception is not passed on to the result queue.               *)
NoInternalException == \A k \in {Result, Result + 1} : \A n \in DOMAIN Line[k] : Real(Line[k][n])

(* The consumer of a deferred continuation leaves nothing on the way.         *)
NothingOnTheWay ==
    policy = "deferred" =>
        \A k \in 1 .. depth : queue[k] # <<>> =>
            \/ tpc = "idle" /\ k = depth
            \/ tpc = "wait" /\ k = at
            \/ tpc = "call" /\ k = at /\ ~void[at]
            \/ tpc = "pop" /\ k \in {at, at + 1}

OrderInv == /\ ItemsGenuine /\ OrderWithin /\ OrderAcross /\ OrderInHand
            /\ NoInternalException /\ NothingOnTheWay

(* A step in which the items of a station k move up by d[k], and an item x     *)
(* arrives at the end of station t.                                           *)
Moved(d, k, n) ==
    /\ n + d[k] \in DOMAIN Line[k] /\ Line'[k][n] = Line[k][n + d[k]]
    /\ n >= Front(k)' => n + d[k] >= Front(k)
Arrived(t, x, k, n) == k = t /\ n = Len(Line'[k]) /\ Line'[k][n] = x

Fits(d, t, x) ==
    \A k \in Stations : \A n \in DOMAIN Line'[k] : Moved(d, k, n) /\ Real(Line'[k][n]) =>
        /\ k >= t => Line'[k][n].id < x.id
        /\ k < t /\ n >= Front(k)' => x.id < Line'[k][n].id

LineOK ==
    /\ Result \in Nat /\ Stations \subseteq Nat /\ DOMAIN Line = Stations
    /\ \A k \in Stations : /\ Line[k] \in Seq(Item) /\ Len(Line[k]) \in Nat /\ DOMAIN Line[k] = 1 .. Len(Line[k])
                           /\ \A n \in DOMAIN Line[k] : Line[k][n] \in Item
                           /\ Front(k) \in {1, 2}
    /\ \A k \in 0 .. Result : k \in Stations /\ k + 1 \in Stations /\ Line[k] = queue[k]
    /\ Line[Result + 1] = results /\ Result + 1 \in Stations

LEMMA LineTypes == Types => LineOK
<1> SUFFICES ASSUME Types PROVE LineOK
  OBVIOUS
<1>1. Result \in Nat
  BY ConfigFacts
<1>2. \A k \in 0 .. Result : queue[k] \in Seq(Item)
  <2>1. \A s \in Seq(RealItem) : s \in Seq(Item)
    BY DEF RealItem
  <2> QED BY <2>1 DEF Types, QueuesOK
<1>3. results \in Seq(Item)
  BY DEF Types
<1> QED BY <1>1, <1>2, <1>3 DEF LineOK, Line, Stations, Front

LEMMA LineTypesNext == Types' => LineOK'
BY LineTypes, PTL

LEMMA StationsStay == ASSUME UNCHANGED config PROVE Stations' = Stations /\ Result' = Result
BY DEF config, Stations, Result

LEMMA LineNext ==
  ASSUME Types', UNCHANGED config
  PROVE  /\ \A k \in Stations : /\ Line'[k] \in Seq(Item) /\ Len(Line'[k]) \in Nat /\ DOMAIN Line'[k] = 1 .. Len(Line'[k])
                                /\ \A n \in DOMAIN Line'[k] : n \in Nat \ {0} /\ Line'[k][n] \in Item
                                /\ Front(k)' \in {1, 2}
         /\ \A k \in 0 .. Result : Line'[k] = queue'[k]
         /\ Line'[Result + 1] = results'
<1>1. LineOK' /\ Stations' = Stations /\ Result' = Result
  BY LineTypesNext, StationsStay
<1>2. \A k \in Stations : /\ Line'[k] \in Seq(Item) /\ Len(Line'[k]) \in Nat /\ DOMAIN Line'[k] = 1 .. Len(Line'[k])
                          /\ \A n \in DOMAIN Line'[k] : Line'[k][n] \in Item
                          /\ Front(k)' \in {1, 2}
  BY <1>1 DEF LineOK
<1>3. (\A k \in 0 .. Result : Line'[k] = queue'[k]) /\ Line'[Result + 1] = results'
  BY <1>1 DEF LineOK
<1> QED BY <1>2, <1>3

(* Genuine(k, x) after the step.                                              *)
GenuineNext(k, x) ==
    /\ x.id \in 1 .. Len(sent')
    /\ x.kind = IF k = 0 THEN sent'[x.id].kind
                         ELSE IF x.id \in Throws /\ policy # "none" THEN "exception" ELSE sent'[x.id].kind

SentGrows == sent' = sent \/ \E y \in Item : sent' = Append(sent, y)

LEMMA GenuineStays ==
  ASSUME Types, SentGrows, NEW k \in Stations, NEW x \in Item, Genuine(k, x)
  PROVE  GenuineNext(k, x)
<1>1. sent \in Seq(Item) /\ Len(sent) \in Nat
  BY DEF Types
<1>2. x.id \in 1 .. Len(sent) /\ x.id \in 1 .. Len(sent') /\ sent'[x.id] = sent[x.id]
  BY <1>1 DEF Genuine, SentGrows
<1> QED BY <1>2 DEF Genuine, GenuineNext, ExpectedKind, Thrown

LEMMA GenuinePrimed ==
  ASSUME UNCHANGED config, \A k \in Stations : \A n \in DOMAIN Line'[k] :
                             Real(Line'[k][n]) => GenuineNext(k, Line'[k][n])
  PROVE  ItemsGenuine'
BY StationsStay DEF ItemsGenuine, Genuine, GenuineNext, ExpectedKind, Thrown, Real, config

LEMMA WithinPrimed ==
  ASSUME UNCHANGED config, \A k \in Stations : \A m, n \in DOMAIN Line'[k] :
                             m < n /\ Real(Line'[k][m]) /\ Real(Line'[k][n]) => Line'[k][m].id < Line'[k][n].id
  PROVE  OrderWithin'
BY StationsStay DEF OrderWithin, Real

LEMMA AcrossPrimed ==
  ASSUME UNCHANGED config, \A j, k \in Stations : \A m \in DOMAIN Line'[j], n \in DOMAIN Line'[k] :
                             k < j /\ n >= Front(k)' /\ Real(Line'[j][m]) /\ Real(Line'[k][n])
                               => Line'[j][m].id < Line'[k][n].id
  PROVE  OrderAcross'
BY StationsStay DEF OrderAcross, Real

LEMMA OrderStep ==
  ASSUME Types, Types', UNCHANGED config, SentGrows,
         ItemsGenuine, OrderWithin, OrderAcross,
         NEW d \in [Stations -> {0, 1}], NEW t \in Stations, NEW x \in Item,
         GenuineNext(t, x), Fits(d, t, x),
         \A k \in Stations : \A n \in DOMAIN Line'[k] : Real(Line'[k][n]) => Moved(d, k, n) \/ Arrived(t, x, k, n)
  PROVE  ItemsGenuine' /\ OrderWithin' /\ OrderAcross'
<1>1. Stations \subseteq Nat
  BY LineTypes DEF LineOK
<1>2. \A k \in Stations : /\ DOMAIN Line'[k] = 1 .. Len(Line'[k]) /\ Len(Line'[k]) \in Nat
                          /\ \A n \in DOMAIN Line'[k] : Line'[k][n] \in Item
  BY LineNext
<1>4. ItemsGenuine'
  <2> SUFFICES ASSUME NEW k \in Stations, NEW n \in DOMAIN Line'[k], Real(Line'[k][n])
               PROVE  GenuineNext(k, Line'[k][n])
    BY GenuinePrimed
  <2>1. CASE Moved(d, k, n)
    <3>1. Genuine(k, Line'[k][n])
      BY <2>1 DEF ItemsGenuine, Moved
    <3> QED BY <1>2, <3>1, GenuineStays
  <2>2. CASE Arrived(t, x, k, n)
    BY <2>2 DEF Arrived
  <2> QED BY <2>1, <2>2
<1>5. OrderWithin'
  <2> SUFFICES ASSUME NEW k \in Stations, NEW m \in DOMAIN Line'[k], NEW n \in DOMAIN Line'[k], m < n,
                      Real(Line'[k][m]), Real(Line'[k][n])
               PROVE  Line'[k][m].id < Line'[k][n].id
    BY WithinPrimed
  <2>0. m \in Nat /\ n \in Nat /\ n <= Len(Line'[k]) /\ ~Arrived(t, x, k, m) /\ k \in Nat /\ d[k] \in {0, 1}
    BY <1>1, <1>2 DEF Arrived
  <2>1. Moved(d, k, m)
    BY <2>0
  <2>2. CASE Moved(d, k, n)
    <3>1. m + d[k] < n + d[k]
      BY <2>0
    <3> QED BY <2>1, <2>2, <3>1 DEF Moved, OrderWithin
  <2>3. CASE Arrived(t, x, k, n)
    BY <2>0, <2>1, <2>3 DEF Fits, Arrived
  <2> QED BY <2>2, <2>3
<1>6. OrderAcross'
  <2> SUFFICES ASSUME NEW j \in Stations, NEW k \in Stations, NEW m \in DOMAIN Line'[j], NEW n \in DOMAIN Line'[k],
                      k < j, n >= Front(k)', Real(Line'[j][m]), Real(Line'[k][n])
               PROVE  Line'[j][m].id < Line'[k][n].id
    BY AcrossPrimed
  <2>0. j \in Nat /\ k \in Nat /\ t \in Nat
    BY <1>1
  <2>1. CASE Moved(d, j, m) /\ Moved(d, k, n)
    BY <2>1 DEF Moved, OrderAcross
  <2>2. CASE Arrived(t, x, j, m) /\ Moved(d, k, n)
    BY <2>0, <2>2 DEF Fits, Arrived
  <2>3. CASE Moved(d, j, m) /\ Arrived(t, x, k, n)
    BY <2>0, <2>3 DEF Fits, Arrived
  <2>4. ~(Arrived(t, x, j, m) /\ Arrived(t, x, k, n))
    BY <2>0 DEF Arrived
  <2> QED BY <2>1, <2>2, <2>3, <2>4
<1> QED BY <1>4, <1>5, <1>6

(* ... or nothing arrives.                                                    *)
LEMMA OrderMoves ==
  ASSUME Types, Types', UNCHANGED config, SentGrows,
         ItemsGenuine, OrderWithin, OrderAcross,
         NEW d \in [Stations -> {0, 1}],
         \A k \in Stations : \A n \in DOMAIN Line'[k] : Real(Line'[k][n]) => Moved(d, k, n)
  PROVE  ItemsGenuine' /\ OrderWithin' /\ OrderAcross'
<1>1. Stations \subseteq Nat
  BY LineTypes DEF LineOK
<1>2. \A k \in Stations : /\ DOMAIN Line'[k] \subseteq Nat
                          /\ \A n \in DOMAIN Line'[k] : Line'[k][n] \in Item
  BY LineNext
<1>3. ItemsGenuine'
  <2> SUFFICES ASSUME NEW k \in Stations, NEW n \in DOMAIN Line'[k], Real(Line'[k][n])
               PROVE  GenuineNext(k, Line'[k][n])
    BY GenuinePrimed
  <2>1. Genuine(k, Line'[k][n])
    BY DEF ItemsGenuine, Moved
  <2> QED BY <1>2, <2>1, GenuineStays
<1>4. OrderWithin'
  <2> SUFFICES ASSUME NEW k \in Stations, NEW m \in DOMAIN Line'[k], NEW n \in DOMAIN Line'[k], m < n,
                      Real(Line'[k][m]), Real(Line'[k][n])
               PROVE  Line'[k][m].id < Line'[k][n].id
    BY WithinPrimed
  <2>1. m + d[k] < n + d[k]
    BY <1>2
  <2> QED BY <2>1 DEF Moved, OrderWithin
<1>5. OrderAcross'
  <2> SUFFICES ASSUME NEW j \in Stations, NEW k \in Stations, NEW m \in DOMAIN Line'[j], NEW n \in DOMAIN Line'[k],
                      k < j, n >= Front(k)', Real(Line'[j][m]), Real(Line'[k][n])
               PROVE  Line'[j][m].id < Line'[k][n].id
    BY AcrossPrimed
  <2> QED BY DEF Moved, OrderAcross
<1> QED BY <1>3, <1>4, <1>5

(* What a push and a pop of a queue do to the items in the queues.            *)
NoShift    == [j \in Stations |-> 0]
PopShift(k) == [j \in Stations |-> IF j = k THEN 1 ELSE 0]

LEMMA ShiftTypes ==
  /\ NoShift \in [Stations -> {0, 1}]
  /\ \A k : PopShift(k) \in [Stations -> {0, 1}]
BY DEF NoShift, PopShift

LEMMA MovedStay ==
  ASSUME Types, Types', UNCHANGED config, \A j \in Stations : Front(j)' >= Front(j),
         NEW j \in Stations, Line'[j] = Line[j], NEW n \in DOMAIN Line'[j]
  PROVE  Moved(NoShift, j, n)
<1>1. n \in Nat /\ Front(j)' \in Nat /\ Front(j) \in Nat
  BY LineTypes, LineNext DEF LineOK
<1> QED BY <1>1 DEF Moved, NoShift

LEMMA MovedPop ==
  ASSUME Types, Types', UNCHANGED config, NEW k \in 0 .. Result, queue[k] # <<>>, queue' = Popped(k),
         \A j \in Stations : Front(j)' = Front(j) \/ j = k,
         NEW j \in 0 .. Result, NEW n \in DOMAIN Line'[j]
  PROVE  Moved(PopShift(k), j, n) /\ (j = k => n + 1 \in DOMAIN queue[k] /\ Line'[j][n] = queue[k][n + 1])
<1>1. /\ j \in Stations /\ k \in Stations /\ Line[j] = queue[j] /\ Line'[j] = queue'[j]
      /\ n \in Nat \ {0} /\ Front(j)' \in {1, 2} /\ Front(j) \in {1, 2}
  BY LineTypes, LineNext DEF LineOK
<1>2. queue'[j] = IF j = k THEN Tail(queue[k]) ELSE queue[j]
  BY DEF Popped, Types, QueuesOK
<1>3. queue[k] \in Seq(RealItem)
  BY DEF Types, QueuesOK
<1>4. CASE j = k
  <2>1. n \in DOMAIN Tail(queue[k]) /\ Line'[j][n] = Tail(queue[k])[n]
    BY <1>1, <1>2, <1>4
  <2>2. n + 1 \in DOMAIN queue[k] /\ Tail(queue[k])[n] = queue[k][n + 1]
    BY <1>3, <2>1
  <2> QED BY <1>1, <1>4, <2>1, <2>2 DEF Moved, PopShift
<1>5. CASE j # k
  <2>1. n + PopShift(k)[j] = n
    BY <1>1, <1>5 DEF PopShift
  <2> QED BY <1>1, <1>2, <1>5, <2>1 DEF Moved
<1> QED BY <1>4, <1>5

LEMMA MovedPush ==
  ASSUME Types, Types', UNCHANGED config, NEW k \in 0 .. Result, NEW x \in RealItem, queue' = Pushed(k, x),
         \A j \in Stations : Front(j)' >= Front(j),
         NEW j \in 0 .. Result, NEW n \in DOMAIN Line'[j]
  PROVE  Moved(NoShift, j, n) \/ (HasRoom(k) /\ Arrived(k, x, j, n))
<1>1. /\ j \in Stations /\ Line[j] = queue[j] /\ Line'[j] = queue'[j]
      /\ n \in Nat \ {0} /\ Front(j)' \in {1, 2} /\ Front(j) \in {1, 2}
  BY LineTypes, LineNext DEF LineOK
<1>2. queue'[j] = IF j = k /\ HasRoom(k) THEN Append(queue[k], x) ELSE queue[j]
  BY DEF Pushed, Types, QueuesOK
<1>3. queue[k] \in Seq(RealItem)
  BY DEF Types, QueuesOK
<1>4. CASE j = k /\ HasRoom(k)
  <2>1. Line'[j] = Append(queue[k], x) /\ n \in DOMAIN Append(queue[k], x)
    BY <1>1, <1>2, <1>4
  <2>2. CASE n = Len(queue[k]) + 1
    <3>1. Len(Append(queue[k], x)) = Len(queue[k]) + 1 /\ Append(queue[k], x)[n] = x
      BY <1>3, <2>2
    <3> QED BY <1>4, <2>1, <2>2, <3>1 DEF Arrived
  <2>3. CASE n # Len(queue[k]) + 1
    <3>1. n \in DOMAIN queue[k] /\ Append(queue[k], x)[n] = queue[k][n]
      BY <1>3, <2>1, <2>3
    <3>2. n + NoShift[j] = n
      BY <1>1 DEF NoShift
    <3> QED BY <1>1, <1>4, <2>1, <3>1, <3>2 DEF Moved
  <2> QED BY <2>2, <2>3
<1>5. CASE ~(j = k /\ HasRoom(k))
  <2>1. Line'[j] = Line[j]
    BY <1>1, <1>2, <1>5
  <2> QED BY <1>1, <2>1, MovedStay
<1> QED BY <1>4, <1>5

(* The result that arrives at the consumer.                                   *)
LEMMA ResultArrives ==
  ASSUME Types, Types', UNCHANGED config, NEW x \in Item, results' = Append(results, x),
         \A j \in Stations : Front(j)' = Front(j),
         NEW d \in [Stations -> {0, 1}], d[Result + 1] = 0,
         NEW k \in Stations, k = Result + 1, NEW n \in DOMAIN Line'[k]
  PROVE  Moved(d, k, n) \/ Arrived(Result + 1, x, k, n)
<1>1. /\ Result + 1 \in Stations /\ Line[Result + 1] = results /\ Line'[Result + 1] = Append(results, x)
      /\ n \in Nat /\ results \in Seq(Item) /\ Front(k)' = Front(k)
  BY LineTypes, LineNext DEF LineOK
<1>2. CASE n = Len(results) + 1
  BY <1>1, <1>2 DEF Arrived
<1>3. CASE n # Len(results) + 1
  <2>1. n \in DOMAIN results /\ Append(results, x)[n] = results[n] /\ n + d[Result + 1] = n
    BY <1>1, <1>3
  <2> QED BY <1>1, <2>1 DEF Moved
<1> QED BY <1>2, <1>3

LEMMA HandStays ==
  ASSUME Types, Types', UNCHANGED config, SentGrows, OrderInHand, UNCHANGED <<tpc, at, v>>,
         \A k \in Stations : \A n \in DOMAIN Line'[k] : Real(Line'[k][n]) =>
            \/ \E m \in DOMAIN Line[k] : Line[k][m] = Line'[k][n]
            \/ InHand => IF k > at THEN Line'[k][n].id < v.id ELSE v.id < Line'[k][n].id
  PROVE  OrderInHand'
<1> SUFFICES ASSUME InHand PROVE /\ GenuineNext(at, v)
                                 /\ \A k \in Stations : \A n \in DOMAIN Line'[k] : Real(Line'[k][n]) =>
                                      IF k > at THEN Line'[k][n].id < v.id ELSE v.id < Line'[k][n].id
  BY StationsStay DEF OrderInHand, InHand, Genuine, GenuineNext, ExpectedKind, Thrown, Real, config
<1>1. GenuineNext(at, v)
  <2>1. at \in Stations /\ v \in Item
    BY ConfigFacts DEF Stations, Types, RealItem
  <2> QED BY <2>1, GenuineStays DEF OrderInHand
<1>2. ASSUME NEW k \in Stations, NEW n \in DOMAIN Line'[k], Real(Line'[k][n])
      PROVE  IF k > at THEN Line'[k][n].id < v.id ELSE v.id < Line'[k][n].id
  BY <1>2 DEF OrderInHand
<1> QED BY <1>1, <1>2

LEMMA NothingInHand ==
  ASSUME UNCHANGED config, tpc' # "call" \/ ~void[at']
  PROVE  OrderInHand'
BY DEF OrderInHand, InHand, config

LEMMA InternalStays ==
  ASSUME UNCHANGED config, NoInternalException,
         \A k \in {Result, Result + 1} : \A n \in DOMAIN Line'[k] :
            (\E m \in DOMAIN Line[k] : Line[k][m] = Line'[k][n]) \/ Real(Line'[k][n])
  PROVE  NoInternalException'
BY StationsStay DEF NoInternalException, Real

(* Steps that leave the items where they are.                                 *)
LEMMA QuietOrder ==
  ASSUME Types, Types', ItemsGenuine, OrderWithin, OrderAcross, OrderInHand, NoInternalException,
         UNCHANGED <<config, queue, results, sent>>,
         UNCHANGED <<tpc, at, v>> \/ (tpc # "pop" /\ tpc' # "pop" /\ (tpc' # "call" \/ ~void[at']))
  PROVE  ItemsGenuine' /\ OrderWithin' /\ OrderAcross' /\ OrderInHand' /\ NoInternalException'
<1>1. Line' = Line
  BY StationsStay DEF Line, Stations
<1>2. \A j \in Stations : Front(j)' >= Front(j)
  <2>1. \A j \in Stations : Front(j)' = Front(j)
    BY DEF Front
  <2> QED BY <2>1 DEF Front
<1>3. ItemsGenuine' /\ OrderWithin' /\ OrderAcross'
  <2>1. \A k \in Stations : \A n \in DOMAIN Line'[k] : Moved(NoShift, k, n)
    BY <1>1, <1>2, MovedStay
  <2> QED BY <2>1, ShiftTypes, OrderMoves DEF SentGrows
<1>4. OrderInHand'
  <2>1. CASE UNCHANGED <<tpc, at, v>>
    BY <1>1, <2>1, HandStays DEF SentGrows
  <2>2. CASE tpc' # "call" \/ ~void[at']
    BY <2>2, NothingInHand
  <2> QED BY <2>1, <2>2
<1>5. NoInternalException'
  BY <1>1, InternalStays
<1> QED BY <1>3, <1>4, <1>5

(* Steps of a push to a queue of an item x, which follows what is there.      *)
LEMMA PushOrder ==
  ASSUME Types, Types', ItemsGenuine, OrderWithin, OrderAcross, UNCHANGED <<config, results>>, SentGrows,
         NEW k \in 0 .. Result, NEW x \in RealItem, queue' = Pushed(k, x),
         \A j \in Stations : Front(j)' >= Front(j),
         Real(x) /\ HasRoom(k) => GenuineNext(k, x) /\ Fits(NoShift, k, x)
  PROVE  ItemsGenuine' /\ OrderWithin' /\ OrderAcross'
<1>1. \A j \in Stations : j \in 0 .. Result \/ j = Result + 1
  BY ConfigFacts DEF Stations
<1>2. k \in Stations /\ x \in Item
  BY LineTypes DEF LineOK, RealItem
<1>3. ASSUME NEW j \in Stations, NEW n \in DOMAIN Line'[j]
      PROVE  Moved(NoShift, j, n) \/ (HasRoom(k) /\ Arrived(k, x, j, n))
  <2>1. CASE j \in 0 .. Result
    BY <2>1, MovedPush
  <2>2. CASE j = Result + 1
    <3>1. Line'[j] = Line[j]
      BY <2>2, LineTypes, LineNext DEF LineOK
    <3> QED BY <3>1, MovedStay
  <2> QED BY <1>1, <2>1, <2>2
<1>4. CASE Real(x) /\ HasRoom(k)
  BY <1>2, <1>3, <1>4, ShiftTypes, OrderStep
<1>5. CASE ~(Real(x) /\ HasRoom(k))
  <2>1. \A j \in Stations : \A n \in DOMAIN Line'[j] : Real(Line'[j][n]) => Moved(NoShift, j, n)
    BY <1>3, <1>5 DEF Arrived
  <2> QED BY <2>1, ShiftTypes, OrderMoves
<1> QED BY <1>4, <1>5

(* Steps of a pop of a queue.                                                 *)
LEMMA PopOrder ==
  ASSUME Types, Types', ItemsGenuine, OrderWithin, OrderAcross, UNCHANGED <<config, results, sent>>,
         NEW k \in 0 .. Result, queue[k] # <<>>, queue' = Popped(k),
         \A j \in Stations : Front(j)' = Front(j) \/ j = k
  PROVE  ItemsGenuine' /\ OrderWithin' /\ OrderAcross'
<1>1. \A j \in Stations : j \in 0 .. Result \/ j = Result + 1
  BY ConfigFacts DEF Stations
<1>2. ASSUME NEW j \in Stations, NEW n \in DOMAIN Line'[j]
      PROVE  Moved(PopShift(k), j, n)
  <2>1. CASE j \in 0 .. Result
    BY <2>1, MovedPop
  <2>2. CASE j = Result + 1
    <3>1. Line'[j] = Line[j] /\ j # k /\ n \in Nat
      BY <2>2, ConfigFacts, LineTypes, LineNext DEF LineOK
    <3>2. n + PopShift(k)[j] = n
      BY <3>1 DEF PopShift
    <3> QED BY <3>1, <3>2 DEF Moved
  <2> QED BY <1>1, <2>1, <2>2
<1> QED BY <1>2, ShiftTypes, OrderMoves DEF SentGrows

-----------------------------------------------------------------------------
(* The steps that move items.                                                 *)

Ordered == ItemsGenuine /\ OrderWithin /\ OrderAcross /\ OrderInHand /\ NoInternalException

(* Where the item y is: behind all at the stations before k and before all    *)
(* others that are yet to come.                                               *)
Foremost(k, y) ==
    /\ Genuine(k, y)
    /\ \A j \in Stations : \A n \in DOMAIN Line[j] : Real(Line[j][n]) =>
         /\ j > k => Line[j][n].id < y.id
         /\ j < k /\ n >= Front(j) => y.id < Line[j][n].id

LEMMA HeadPlace ==
  ASSUME Types, Ordered, NEW k \in 0 .. Result, queue[k] # <<>>, Front(k) = 1, Real(Head(queue[k]))
  PROVE  /\ Foremost(k, Head(queue[k]))
         /\ \A n \in DOMAIN queue[k] : n > 1 /\ Real(queue[k][n]) => Head(queue[k]).id < queue[k][n].id
<1>1. Line[k] = queue[k] /\ k \in Stations /\ queue[k] \in Seq(RealItem)
  BY LineTypes DEF LineOK, Types, QueuesOK
<1>2. 1 \in DOMAIN queue[k] /\ Head(queue[k]) = queue[k][1]
  BY <1>1
<1>3. Genuine(k, Head(queue[k]))
  BY <1>1, <1>2 DEF Ordered, ItemsGenuine
<1>4. ASSUME NEW n \in DOMAIN queue[k], n > 1, Real(queue[k][n]) PROVE Head(queue[k]).id < queue[k][n].id
  BY <1>1, <1>2, <1>4 DEF Ordered, OrderWithin
<1>5. ASSUME NEW j \in Stations, NEW n \in DOMAIN Line[j], Real(Line[j][n]), j > k PROVE Line[j][n].id < Head(queue[k]).id
  <2>1. k < j /\ 1 >= Front(k) /\ 1 \in DOMAIN Line[k] /\ Line[k][1] = Head(queue[k])
    BY <1>1, <1>2, <1>5
  <2> QED BY <1>1, <1>5, <2>1 DEF Ordered, OrderAcross
<1>6. ASSUME NEW j \in Stations, NEW n \in DOMAIN Line[j], Real(Line[j][n]), j < k, n >= Front(j)
      PROVE  Head(queue[k]).id < Line[j][n].id
  BY <1>1, <1>2, <1>6, LineTypes DEF Ordered, OrderAcross, LineOK
<1> QED BY <1>3, <1>4, <1>5, <1>6 DEF Foremost

LEMMA PushGoesOn ==
  ASSUME Types, Types', Ordered, NEW kind \in {"value", "exception"}, Push(kind)
  PROVE  Ordered'
<1> USE DEF config, reader
<1> DEFINE x == [kind |-> kind, id |-> Len(sent) + 1]
<1>1. /\ UNCHANGED <<config, results, tpc, at, v>> /\ queue' = Pushed(0, x)
      /\ sent' = IF HasRoom(0) THEN Append(sent, x) ELSE sent
      /\ sent \in Seq(Item) /\ Len(sent) \in Nat
  BY DEF Push, Types
<1>2. x \in RealItem /\ x \in Item /\ Real(x) /\ x.id = Len(sent) + 1 /\ x.kind = kind
  BY <1>1 DEF RealItem, Item, Real
<1>3. 0 \in 0 .. Result /\ 0 \in Stations /\ Stations \subseteq Nat
  BY ConfigFacts DEF Stations
<1> HIDE DEF x
<1>4. SentGrows /\ \A j \in Stations : Front(j)' >= Front(j)
  <2>1. \A j \in Stations : Front(j)' = Front(j)
    BY <1>1 DEF Front
  <2> QED BY <1>1, <1>2, <2>1 DEF SentGrows, Front
<1>5. HasRoom(0) => GenuineNext(0, x)
  <2> SUFFICES ASSUME HasRoom(0) PROVE GenuineNext(0, x)
    OBVIOUS
  <2>1. sent' = Append(sent, x)
    BY <1>1
  <2> QED BY <1>1, <1>2, <2>1 DEF GenuineNext
<1>6. \A j \in Stations : \A n \in DOMAIN Line[j] : Real(Line[j][n]) => Line[j][n].id < x.id
  BY <1>1, <1>2 DEF Ordered, ItemsGenuine, Genuine
<1>7. Fits(NoShift, 0, x)
  <2> SUFFICES ASSUME NEW j \in Stations, NEW n \in DOMAIN Line'[j], Moved(NoShift, j, n), Real(Line'[j][n])
               PROVE  Line'[j][n].id < x.id
    BY <1>3 DEF Fits
  <2> QED BY <1>6 DEF Moved
<1>8. ItemsGenuine' /\ OrderWithin' /\ OrderAcross'
  BY <1>1, <1>2, <1>3, <1>4, <1>5, <1>7, PushOrder DEF Ordered
<1>9. ASSUME NEW j \in Stations, NEW n \in DOMAIN Line'[j]
      PROVE  (\E m \in DOMAIN Line[j] : Line[j][m] = Line'[j][n]) \/ (j = 0 /\ Line'[j][n] = x)
  <2>1. CASE j \in 0 .. Result
    <3>1. Moved(NoShift, j, n) \/ Arrived(0, x, j, n)
      BY <1>1, <1>2, <1>3, <1>4, <2>1, MovedPush
    <3> QED BY <3>1 DEF Moved, Arrived
  <2>2. CASE j = Result + 1
    <3>1. Line'[j] = Line[j]
      BY <1>1, <2>2, LineTypes, LineNext DEF LineOK
    <3> QED BY <3>1
  <2> QED BY <2>1, <2>2, ConfigFacts DEF Stations
<1>10. OrderInHand'
  <2>1. InHand => v.id < x.id /\ ~(0 > at)
    BY <1>1, <1>2, ConfigFacts DEF InHand, Ordered, OrderInHand, Genuine
  <2> QED BY <1>1, <1>4, <1>9, <2>1, HandStays DEF Ordered
<1>11. NoInternalException'
  <2>1. {Result, Result + 1} \subseteq Stations
    BY ConfigFacts DEF Stations
  <2> QED BY <1>1, <1>2, <1>9, <2>1, InternalStays DEF Ordered
<1> QED BY <1>8, <1>10, <1>11 DEF Ordered

LEMMA TerminationGoesOn ==
  ASSUME Types, Types', Working, Ordered, NEW u \in Users, PushTermination(u)
  PROVE  Ordered'
<1> USE DEF config, origin, reader
<1>1. /\ UNCHANGED <<config, sent, results, tpc, at, v>> /\ queue' = Pushed(TerminationTarget, Terminate)
      /\ policy = "async"
  BY DEF PushTermination, UserGoes, Working, UsersOK
<1>2. TerminationTarget \in 0 .. Result /\ TerminationTarget < Result
  BY <1>1, ConfigFacts DEF TerminationTarget
<1>3. Terminate \in RealItem /\ ~Real(Terminate)
  BY TerminateType DEF Terminate, Real
<1>4. SentGrows /\ \A j \in Stations : Front(j)' >= Front(j)
  <2>1. \A j \in Stations : Front(j)' = Front(j)
    BY <1>1 DEF Front
  <2> QED BY <1>1, <2>1 DEF SentGrows, Front
<1>5. ItemsGenuine' /\ OrderWithin' /\ OrderAcross'
  BY <1>1, <1>2, <1>3, <1>4, PushOrder DEF Ordered
<1>6. ASSUME NEW j \in Stations, NEW n \in DOMAIN Line'[j]
      PROVE  (\E m \in DOMAIN Line[j] : Line[j][m] = Line'[j][n]) \/ (j = TerminationTarget /\ ~Real(Line'[j][n]))
  <2>1. CASE j \in 0 .. Result
    <3>1. Moved(NoShift, j, n) \/ Arrived(TerminationTarget, Terminate, j, n)
      BY <1>1, <1>2, <1>3, <1>4, <2>1, MovedPush
    <3> QED BY <1>3, <3>1 DEF Moved, Arrived
  <2>2. CASE j = Result + 1
    <3>1. Line'[j] = Line[j]
      BY <1>1, <2>2, LineTypes, LineNext DEF LineOK
    <3> QED BY <3>1
  <2> QED BY <2>1, <2>2, ConfigFacts DEF Stations
<1>7. OrderInHand'
  BY <1>1, <1>4, <1>6, HandStays DEF Ordered
<1>8. NoInternalException'
  <2>1. {Result, Result + 1} \subseteq Stations /\ TerminationTarget \notin {Result, Result + 1}
    BY <1>2, ConfigFacts DEF Stations
  <2> QED BY <1>1, <1>6, <2>1, InternalStays DEF Ordered
<1> QED BY <1>5, <1>7, <1>8 DEF Ordered

LEMMA WaitGoesOn ==
  ASSUME Types, Types', Working, Ordered, WaitInput
  PROVE  Ordered'
<1> USE DEF config, origin
<1>1. /\ UNCHANGED <<config, sent, results, at>> /\ tpc = "wait" /\ tpc' = "call"
      /\ at \in 0 .. Result /\ at \in Stations /\ at < Result /\ queue[at] # <<>>
  BY ConfigFacts DEF WaitInput, Stations
<1>2. CASE ~void[at]
  <2>1. UNCHANGED <<queue, v>>
    BY <1>2 DEF WaitInput
  <2> QED BY <1>1, <1>2, <2>1, QuietOrder DEF Ordered
<1>3. CASE void[at]
  <2>1. v' = Head(queue[at]) /\ queue' = Popped(at)
    BY <1>3 DEF WaitInput
  <2>2. \A j \in Stations : Front(j)' = 1 /\ Front(j) = 1
    BY <1>1 DEF Front
  <2>3. ItemsGenuine' /\ OrderWithin' /\ OrderAcross'
    BY <1>1, <2>1, <2>2, PopOrder DEF Ordered
  <2>4. ASSUME NEW j \in Stations, NEW n \in DOMAIN Line'[j]
        PROVE  \/ j = at /\ n + 1 \in DOMAIN queue[at] /\ n + 1 > 1 /\ Line'[j][n] = queue[at][n + 1]
               \/ j # at /\ n \in DOMAIN Line[j] /\ Line'[j][n] = Line[j][n]
    <3>1. CASE j \in 0 .. Result
      <4>1. Moved(PopShift(at), j, n) /\ (j = at => n + 1 \in DOMAIN queue[at] /\ Line'[j][n] = queue[at][n + 1])
        BY <1>1, <2>1, <2>2, <3>1, MovedPop
      <4>2. n \in Nat \ {0}
        BY <1>1, LineNext
      <4>3. j # at => n + PopShift(at)[j] = n
        BY <4>2 DEF PopShift
      <4> QED BY <4>1, <4>2, <4>3 DEF Moved
    <3>2. CASE j = Result + 1
      <4>1. Line'[j] = Line[j] /\ j # at
        BY <1>1, <3>2, ConfigFacts, LineTypes, LineNext, SMTT(30) DEF LineOK
      <4> QED BY <4>1
    <3> QED BY <3>1, <3>2, ConfigFacts DEF Stations
  <2>5. OrderInHand'
    <3> SUFFICES ASSUME Real(v')
                 PROVE  /\ GenuineNext(at, v')
                        /\ \A k \in Stations : \A n \in DOMAIN Line'[k] : Real(Line'[k][n]) =>
                             IF k > at THEN Line'[k][n].id < v'.id ELSE v'.id < Line'[k][n].id
      BY <1>1, StationsStay DEF OrderInHand, InHand, Genuine, GenuineNext, ExpectedKind, Thrown, Real
    <3>1. /\ Foremost(at, v')
          /\ \A n \in DOMAIN queue[at] : n > 1 /\ Real(queue[at][n]) => v'.id < queue[at][n].id
      BY <1>1, <2>1, <2>2, HeadPlace
    <3>2. GenuineNext(at, v')
      <4>1. Genuine(at, v') /\ v' \in Item
        BY <3>1 DEF Foremost, Types, RealItem
      <4> QED BY <1>1, <4>1, GenuineStays DEF SentGrows
    <3>3. ASSUME NEW k \in Stations, NEW n \in DOMAIN Line'[k], Real(Line'[k][n])
          PROVE  IF k > at THEN Line'[k][n].id < v'.id ELSE v'.id < Line'[k][n].id
      <4>1. CASE k = at
        BY <1>1, <2>4, <3>1, <3>3, <4>1
      <4>2. CASE k # at
        <5>1. n \in DOMAIN Line[k] /\ Line'[k][n] = Line[k][n]
          BY <2>4, <4>2
        <5>2. k \in Nat /\ at \in Nat /\ n >= Front(k)
          BY <1>1, <2>2, LineTypes, LineNext DEF LineOK
        <5> QED BY <3>1, <3>3, <4>2, <5>1, <5>2 DEF Foremost
      <4> QED BY <4>1, <4>2
    <3> QED BY <3>2, <3>3
  <2>6. NoInternalException'
    <3>1. {Result, Result + 1} \subseteq Stations /\ at \notin {Result, Result + 1}
      BY <1>1, ConfigFacts DEF Stations
    <3> QED BY <1>1, <2>4, <3>1, InternalStays DEF Ordered
  <2> QED BY <2>3, <2>5, <2>6 DEF Ordered
<1> QED BY <1>2, <1>3

LEMMA PopInputGoesOn ==
  ASSUME Types, Types', Working, Ordered, PopInput
  PROVE  Ordered'
<1> USE DEF config, origin
<1>1. /\ UNCHANGED <<config, sent, results>> /\ tpc = "pop" /\ tpc' = "wait"
      /\ at \in 0 .. Result /\ at \in Stations /\ at < Result /\ queue[at] # <<>> /\ queue' = Popped(at)
  BY ConfigFacts DEF PopInput, Stations, Working, ReaderOK
<1>2. \A j \in Stations : Front(j)' = Front(j) \/ j = at
  BY <1>1 DEF Front
<1>3. ItemsGenuine' /\ OrderWithin' /\ OrderAcross'
  BY <1>1, <1>2, PopOrder DEF Ordered
<1>4. OrderInHand'
  BY <1>1, NothingInHand
<1>5. NoInternalException'
  <2>1. Line'[Result] = Line[Result] /\ Line'[Result + 1] = Line[Result + 1]
    <3>1. Result \in 0 .. Result /\ queue'[Result] = queue[Result]
      BY <1>1, ConfigFacts, PoppedFacts, SMTT(30)
    <3> QED BY <1>1, <3>1, LineTypes, LineNext DEF LineOK
  <2> QED BY <1>1, <2>1, InternalStays DEF Ordered
<1> QED BY <1>3, <1>4, <1>5 DEF Ordered

(* The reader's input: nothing behind it has a lower id, and the items at the  *)
(* stations up to the input queue, without the input itself, a higher one.    *)
LEMMA InputPlace ==
  ASSUME Types, Working, Ordered, tpc = "call", Real(Input)
  PROVE  /\ Genuine(at, Input)
         /\ \A j \in Stations : \A n \in DOMAIN Line[j] : Real(Line[j][n]) =>
              /\ j > at => Line[j][n].id < Input.id
              /\ j <= at /\ (j < at \/ void[at] \/ n > 1) => Input.id < Line[j][n].id
<1>1. at \in 0 .. Result /\ at \in Nat /\ Stations \subseteq Nat /\ (~void[at] => queue[at] # <<>>) /\ Line[at] = queue[at]
  BY InputFacts, LineTypes DEF LineOK
<1>2. CASE void[at]
  <2>1. Input = v /\ InHand
    BY <1>2 DEF Input, InHand
  <2>2. OrderInHand
    BY DEF Ordered
  <2>3. Genuine(at, Input)
    BY <2>1, <2>2 DEF OrderInHand
  <2>4. ASSUME NEW j \in Stations, NEW n \in DOMAIN Line[j], Real(Line[j][n])
        PROVE  (j > at => Line[j][n].id < Input.id) /\ (j <= at => Input.id < Line[j][n].id)
    <3>1. IF j > at THEN Line[j][n].id < Input.id ELSE Input.id < Line[j][n].id
      BY <2>1, <2>2, <2>4 DEF OrderInHand
    <3>2. j \in Nat
      BY <1>1
    <3> QED BY <1>1, <3>1, <3>2
  <2> QED BY <2>3, <2>4
<1>3. CASE ~void[at]
  <2>1. Input = Head(queue[at]) /\ \A j \in Stations : Front(j) = 1
    BY <1>3 DEF Input, Front
  <2>2. 1 = Front(at)
    BY DEF Front
  <2>3. /\ Foremost(at, Input)
        /\ \A n \in DOMAIN queue[at] : n > 1 /\ Real(queue[at][n]) => Input.id < queue[at][n].id
    BY <1>1, <1>3, <2>1, <2>2, HeadPlace
  <2>4. ASSUME NEW j \in Stations, NEW n \in DOMAIN Line[j], Real(Line[j][n])
        PROVE  /\ j > at => Line[j][n].id < Input.id
               /\ j <= at /\ (j < at \/ n > 1) => Input.id < Line[j][n].id
    <3>1. n \in Nat /\ n >= Front(j) /\ j \in Nat
      BY <1>1, <2>1, LineTypes, SMTT(30) DEF LineOK
    <3>2. CASE j = at
      BY <1>1, <2>3, <2>4, <3>1, <3>2
    <3>3. CASE j # at
      BY <1>1, <2>3, <2>4, <3>1, <3>3 DEF Foremost
    <3> QED BY <3>2, <3>3
  <2> QED BY <1>3, <2>3, <2>4 DEF Foremost
<1> QED BY <1>2, <1>3

(* What the callable returns is what the consumer is to get for the element.  *)
LEMMA OutputGenuine ==
  ASSUME Types, Working, tpc = "call", Real(Input), Genuine(at, Input), NEW k \in Nat \ {0}
  PROVE  Genuine(k, Output(Input)) /\ Real(Output(Input)) /\ Output(Input).id = Input.id
<1>1. Input \in Item /\ policy # "none"
  BY InputFacts DEF RealItem, Working, ReaderOK
<1>2. Input.kind \in {"value", "exception"} /\ Input.id \in Nat
  BY <1>1 DEF Item, Real
<1>3. /\ Output(Input).id = Input.id
      /\ Output(Input).kind = IF Input.kind = "value" /\ Input.id \in Throws THEN "exception" ELSE Input.kind
  BY <1>1 DEF Output, Item
<1>4. Real(Output(Input))
  BY <1>2, <1>3 DEF Real
<1>5. CASE at = 0
  BY <1>1, <1>2, <1>3, <1>4, <1>5 DEF Genuine, ExpectedKind, Thrown
<1>6. CASE at # 0
  BY <1>1, <1>2, <1>3, <1>4, <1>6 DEF Genuine, ExpectedKind, Thrown
<1> QED BY <1>3, <1>4, <1>5, <1>6

LEMMA CallGoesOn ==
  ASSUME Types, Types', Working, Ordered, CallAndPush
  PROVE  Ordered'
<1> USE DEF config, origin
<1> DEFINE x == Output(Input)
<1>1. /\ UNCHANGED <<config, sent, results>> /\ tpc = "call" /\ queue' = Pushed(at + 1, x)
      /\ ~Ends(Input)
      /\ IF void[at] THEN tpc' = "wait" ELSE tpc' = "pop" /\ at' = at
  BY DEF CallAndPush
<1>2. /\ at \in 0 .. Result /\ at + 1 \in 0 .. Result /\ at \in Nat /\ at \in Stations /\ at + 1 \in Stations
      /\ x \in RealItem /\ Input \in RealItem
  BY <1>1, InputFacts, LineTypes DEF LineOK
<1>3. Real(Input) => Genuine(at + 1, x) /\ x.id = Input.id
  BY <1>1, <1>2, InputPlace, OutputGenuine
<1>4. Real(x) => Real(Input)
  BY DEF Output, Real
<1>5. at + 1 = Result => Real(x)
  <2> SUFFICES ASSUME at + 1 = Result PROVE Real(Input)
    BY <1>1, <1>2, <1>3, InputPlace, OutputGenuine
  <2>1. CASE policy = "async"
    BY <1>1, <1>2, <2>1, ConfigFacts DEF Ends, Real
  <2>2. CASE policy # "async"
    BY <1>1, <2>2, InputFacts DEF Real, Working, LifeOK
  <2> QED BY <2>1, <2>2
<1> HIDE DEF x
<1>6. SentGrows /\ \A j \in Stations : Front(j) = 1 /\ Front(j)' \in {1, 2} /\ Front(j)' >= Front(j)
  <2>1. \A j \in Stations : Front(j) = 1 /\ Front(j)' \in {1, 2}
    BY <1>1 DEF Front
  <2> QED BY <1>1, <2>1 DEF SentGrows
<1>7. Real(x) => GenuineNext(at + 1, x)
  BY <1>2, <1>3, <1>4, <1>6, GenuineStays DEF RealItem
<1>8. Real(x) => Fits(NoShift, at + 1, x)
  <2> SUFFICES ASSUME Real(x), NEW j \in Stations, NEW n \in DOMAIN Line'[j], Moved(NoShift, j, n), Real(Line'[j][n])
               PROVE  /\ j >= at + 1 => Line'[j][n].id < x.id
                      /\ j < at + 1 /\ n >= Front(j)' => x.id < Line'[j][n].id
    BY DEF Fits
  <2>1. n \in DOMAIN Line[j] /\ Line'[j][n] = Line[j][n] /\ n \in Nat /\ j \in Nat
    <3>1. n \in Nat /\ j \in Nat
      BY <1>1, LineTypes, LineNext DEF LineOK
    <3>2. n + NoShift[j] = n
      BY <3>1 DEF NoShift
    <3> QED BY <3>1, <3>2 DEF Moved
  <2>2. /\ j > at => Line[j][n].id < x.id
        /\ j <= at /\ (j < at \/ void[at] \/ n > 1) => x.id < Line[j][n].id
    BY <1>1, <1>3, <1>4, <2>1, InputPlace
  <2>3. ~void[at] /\ j = at => Front(j)' = 2
    BY <1>1 DEF Front
  <2> QED BY <1>2, <2>1, <2>2, <2>3
<1>9. ItemsGenuine' /\ OrderWithin' /\ OrderAcross'
  BY <1>1, <1>2, <1>6, <1>7, <1>8, PushOrder DEF Ordered
<1>10. OrderInHand'
  BY <1>1, NothingInHand
<1>11. NoInternalException'
  <2>1. ASSUME NEW j \in {Result, Result + 1}, NEW n \in DOMAIN Line'[j]
        PROVE  (\E m \in DOMAIN Line[j] : Line[j][m] = Line'[j][n]) \/ Real(Line'[j][n])
    <3>1. CASE j = Result
      <4>1. j \in 0 .. Result
        BY <3>1, ConfigFacts
      <4>2. Moved(NoShift, j, n) \/ Arrived(at + 1, x, j, n)
        BY <1>1, <1>2, <1>6, <4>1, MovedPush
      <4> QED BY <1>5, <3>1, <4>2 DEF Moved, Arrived
    <3>2. CASE j = Result + 1
      <4>1. Line'[j] = Line[j]
        BY <1>1, <3>2, LineTypes, LineNext DEF LineOK
      <4> QED BY <4>1
    <3> QED BY <3>1, <3>2
  <2> QED BY <1>1, <2>1, InternalStays DEF Ordered
<1> QED BY <1>9, <1>10, <1>11 DEF Ordered

(* The consumer gets the item at the front of the result queue.               *)
LEMMA ResultGoesOn ==
  ASSUME Types, Types', Working, Ordered, UNCHANGED <<config, sent>>, queue[Result] # <<>>,
         results' = Append(results, Head(queue[Result])), queue' = Popped(Result),
         UNCHANGED <<tpc, at, v>> \/ (tpc = "wait" /\ tpc' = "idle")
  PROVE  Ordered'
<1> USE DEF config
<1> DEFINE x == Head(queue[Result])
<1>1. /\ Result \in 0 .. Result /\ Result + 1 \in Stations /\ Result \in Stations /\ Result \in Nat
      /\ Line[Result] = queue[Result] /\ Line[Result + 1] = results /\ Stations \subseteq Nat
  BY ConfigFacts, LineTypes DEF LineOK
<1>2. x \in RealItem /\ x \in Item /\ Real(x) /\ Line[Result][1] = x /\ 1 \in DOMAIN Line[Result]
  <2>1. x \in RealItem
    BY <1>1, PoppedFacts
  <2>2. Line[Result][1] = x /\ 1 \in DOMAIN Line[Result]
    BY <1>1 DEF Types, QueuesOK
  <2> QED BY <2>1, <2>2 DEF RealItem, Ordered, NoInternalException
<1>3. /\ \A j \in Stations : Front(j)' = Front(j)
      /\ Front(Result) = 1
      /\ \A j \in Stations : Front(j) \in {1, 2}
  BY <1>1 DEF Front, Working, ReaderOK
<1>4. /\ Foremost(Result, x)
      /\ \A n \in DOMAIN queue[Result] : n > 1 /\ Real(queue[Result][n]) => x.id < queue[Result][n].id
  BY <1>1, <1>2, <1>3, HeadPlace
<1> HIDE DEF x
<1>5. GenuineNext(Result + 1, x)
  <2>1. Genuine(Result + 1, x)
    <3>1. Result = 0 => policy = "none"
      BY ConfigFacts
    <3> QED BY <1>1, <1>4, <3>1 DEF Foremost, Genuine, ExpectedKind, Thrown
  <2> QED BY <1>1, <1>2, <2>1, GenuineStays DEF SentGrows
<1>6. ASSUME NEW j \in Stations, NEW n \in DOMAIN Line'[j]
      PROVE  \/ /\ Moved(PopShift(Result), j, n)
                /\ j = Result => n + 1 \in DOMAIN queue[Result] /\ Line'[j][n] = queue[Result][n + 1]
                /\ j # Result => n \in DOMAIN Line[j] /\ Line'[j][n] = Line[j][n]
             \/ Arrived(Result + 1, x, j, n)
  <2>1. n \in Nat
    BY LineNext
  <2>2. j # Result => n + PopShift(Result)[j] = n
    BY <2>1 DEF PopShift
  <2>3. CASE j \in 0 .. Result
    <3>1. Moved(PopShift(Result), j, n)
          /\ (j = Result => n + 1 \in DOMAIN queue[Result] /\ Line'[j][n] = queue[Result][n + 1])
      BY <1>1, <1>3, <2>3, MovedPop
    <3> QED BY <2>2, <3>1 DEF Moved
  <2>4. CASE j = Result + 1
    <3>1. PopShift(Result)[Result + 1] = 0 /\ Result + 1 # Result
      BY <1>1, <1>3 DEF PopShift
    <3>2. results' = Append(results, x)
      BY DEF x
    <3>3. Moved(PopShift(Result), j, n) \/ Arrived(Result + 1, x, j, n)
      BY <1>2, <1>3, <2>4, <3>1, <3>2, ShiftTypes, ResultArrives
    <3> QED BY <2>2, <2>4, <3>1, <3>3 DEF Moved
  <2> QED BY <1>1, <2>3, <2>4 DEF Stations
<1>7. Fits(PopShift(Result), Result + 1, x)
  <2> SUFFICES ASSUME NEW j \in Stations, NEW n \in DOMAIN Line'[j], Moved(PopShift(Result), j, n), Real(Line'[j][n])
               PROVE  /\ j >= Result + 1 => Line'[j][n].id < x.id
                      /\ j < Result + 1 /\ n >= Front(j)' => x.id < Line'[j][n].id
    BY DEF Fits
  <2>1. n \in Nat \ {0} /\ j \in Nat
    BY <1>1, LineNext
  <2>2. CASE j = Result
    <3>1. n + 1 \in DOMAIN queue[Result] /\ Line'[j][n] = queue[Result][n + 1]
      <4>1. ~Arrived(Result + 1, x, j, n)
        BY <1>1, <2>2 DEF Arrived
      <4> QED BY <1>6, <2>2, <4>1
    <3> QED BY <1>1, <1>4, <2>1, <2>2, <3>1
  <2>3. CASE j # Result
    <3>1. n \in DOMAIN Line[j] /\ Line'[j][n] = Line[j][n]
      <4>1. n + PopShift(Result)[j] = n
        BY <2>1, <2>3 DEF PopShift
      <4> QED BY <4>1 DEF Moved
    <3> QED BY <1>1, <1>3, <1>4, <2>1, <2>3, <3>1 DEF Foremost
  <2> QED BY <2>2, <2>3
<1>8. ItemsGenuine' /\ OrderWithin' /\ OrderAcross'
  BY <1>1, <1>2, <1>5, <1>6, <1>7, ShiftTypes, OrderStep DEF Ordered, SentGrows
<1>9. OrderInHand'
  <2>1. CASE tpc' = "idle"
    BY <2>1, NothingInHand
  <2>2. CASE UNCHANGED <<tpc, at, v>>
    <3>1. ASSUME InHand PROVE Result > at /\ x.id < v.id
      <4>1. Result > at
        BY <1>1, <3>1, ConfigFacts DEF InHand, Working, ReaderOK
      <4> QED BY <1>1, <1>2, <3>1, <4>1 DEF Ordered, OrderInHand
    <3>2. ASSUME NEW j \in Stations, NEW n \in DOMAIN Line'[j], Real(Line'[j][n])
          PROVE  \/ \E m \in DOMAIN Line[j] : Line[j][m] = Line'[j][n]
                 \/ InHand => IF j > at THEN Line'[j][n].id < v.id ELSE v.id < Line'[j][n].id
      <4>1. CASE Moved(PopShift(Result), j, n)
        BY <4>1 DEF Moved
      <4>2. CASE Arrived(Result + 1, x, j, n)
        <5>1. InHand => Result + 1 > at
          BY <1>1, <3>1, ConfigFacts
        <5> QED BY <3>1, <4>2, <5>1 DEF Arrived
      <4> QED BY <1>6, <4>1, <4>2
    <3> QED BY <2>2, <3>2, HandStays DEF Ordered, SentGrows
  <2> QED BY <2>1, <2>2
<1>10. NoInternalException'
  <2>1. ASSUME NEW j \in {Result, Result + 1}, NEW n \in DOMAIN Line'[j]
        PROVE  (\E m \in DOMAIN Line[j] : Line[j][m] = Line'[j][n]) \/ Real(Line'[j][n])
    BY <1>1, <1>2, <1>6 DEF Moved, Arrived
  <2> QED BY <2>1, InternalStays DEF Ordered
<1> QED BY <1>8, <1>9, <1>10 DEF Ordered

(* The exception that leaves the consumer's call: nothing is left on the way, *)
(* so it passes no earlier result.                                            *)
LEMMA EscapeGoesOn ==
  ASSUME Types, Types', Working, Ordered, NothingOnTheWay, Escape
  PROVE  Ordered'
<1> USE DEF config, origin
<1> DEFINE x == Output(Input)
<1>1. /\ UNCHANGED <<config, sent, queue>> /\ tpc = "call" /\ tpc' = "idle" /\ results' = Append(results, x)
      /\ void[at] /\ call # "none"
  BY DEF Escape, Escapes, ReturnFromCall, Polling
<1>2. /\ at \in 0 .. Result /\ at \in Nat /\ at < Result /\ Result \in Nat /\ x \in Item /\ Stations \subseteq Nat
      /\ policy = "deferred" /\ Result = depth /\ Result + 1 \in Stations
  BY <1>1, InputFacts, ConfigFacts, LineTypes DEF LineOK, RealItem, Working, ReaderOK
<1>3. Real(Input)
  BY <1>1, <1>2, InputFacts DEF Working, LifeOK, Real
<1>4. Genuine(Result + 1, x) /\ Real(x) /\ x.id = Input.id
  BY <1>1, <1>2, <1>3, InputPlace, OutputGenuine
<1> HIDE DEF x
<1>5. SentGrows /\ \A j \in Stations : Front(j) = 1 /\ Front(j)' = 1
  BY <1>1 DEF SentGrows, Front
<1>6. GenuineNext(Result + 1, x)
  BY <1>2, <1>4, <1>5, GenuineStays
<1>7. \A j \in 0 .. Result : Line'[j] = Line[j]
  BY <1>1, LineTypes, LineNext DEF LineOK
<1>8. ASSUME NEW j \in Stations, NEW n \in DOMAIN Line'[j]
      PROVE  /\ Moved(NoShift, j, n) \/ Arrived(Result + 1, x, j, n)
             /\ Moved(NoShift, j, n) => n \in DOMAIN Line[j] /\ Line'[j][n] = Line[j][n]
  <2>1. n \in Nat
    BY <1>1, LineNext
  <2>2. n + NoShift[j] = n
    BY <2>1 DEF NoShift
  <2>3. CASE j \in 0 .. Result
    <3>1. Line'[j] = Line[j] /\ \A i \in Stations : Front(i)' >= Front(i)
      BY <1>5, <1>7, <2>3
    <3>2. Moved(NoShift, j, n)
      BY <1>1, <3>1, MovedStay
    <3> QED BY <2>2, <3>2 DEF Moved
  <2>4. CASE j = Result + 1
    <3>1. NoShift[Result + 1] = 0
      BY <1>2 DEF NoShift
    <3>2. Moved(NoShift, j, n) \/ Arrived(Result + 1, x, j, n)
      BY <1>1, <1>2, <1>5, <2>4, <3>1, ShiftTypes, ResultArrives
    <3> QED BY <2>2, <3>2 DEF Moved
  <2> QED BY <1>2, <2>3, <2>4 DEF Stations
<1>9. Fits(NoShift, Result + 1, x)
  <2> SUFFICES ASSUME NEW j \in Stations, NEW n \in DOMAIN Line'[j], Moved(NoShift, j, n), Real(Line'[j][n])
               PROVE  /\ j >= Result + 1 => Line'[j][n].id < x.id
                      /\ j < Result + 1 /\ n >= Front(j)' => x.id < Line'[j][n].id
    BY DEF Fits
  <2>1. n \in DOMAIN Line[j] /\ Line'[j][n] = Line[j][n] /\ j \in Nat
    BY <1>2, <1>8
  <2>2. ~(j > at /\ j <= Result)
    <3> SUFFICES ASSUME j > at, j <= Result PROVE FALSE
      OBVIOUS
    <3>1. j \in 1 .. depth /\ j \in 0 .. Result
      BY <1>2, <2>1
    <3>3. Line[j] = queue[j]
      BY <3>1, LineTypes DEF LineOK
    <3>2. queue[j] = <<>>
      BY <1>1, <1>2, <3>1 DEF NothingOnTheWay
    <3> QED BY <2>1, <3>2, <3>3
  <2> QED BY <1>1, <1>2, <1>3, <1>4, <2>1, <2>2, InputPlace
<1>10. ItemsGenuine' /\ OrderWithin' /\ OrderAcross'
  BY <1>1, <1>2, <1>5, <1>6, <1>8, <1>9, ShiftTypes, OrderStep DEF Ordered
<1>11. OrderInHand'
  BY <1>1, NothingInHand
<1>12. NoInternalException'
  <2>1. ASSUME NEW j \in {Result, Result + 1}, NEW n \in DOMAIN Line'[j]
        PROVE  (\E m \in DOMAIN Line[j] : Line[j][m] = Line'[j][n]) \/ Real(Line'[j][n])
    <3>1. j \in Stations
      BY <1>2 DEF Stations
    <3> QED BY <1>4, <1>8, <3>1 DEF Arrived
  <2> QED BY <1>1, <2>1, InternalStays DEF Ordered
<1> QED BY <1>10, <1>11, <1>12 DEF Ordered

(* ... or that a continuation further up catches: it passes no earlier result *)
(* either, and there is room for it.                                          *)
LEMMA CatchPlace ==
  ASSUME Types, Working, NothingOnTheWay, NEW k \in Catchers, CatchAbove(k)
  PROVE  /\ k + 1 \in 0 .. Result /\ k + 1 \in Stations /\ k \in Nat /\ at \in Nat /\ at < k
         /\ void[at] /\ tpc = "call" /\ tpc' = "wait" /\ policy = "deferred" /\ Result = depth
         /\ queue' = Pushed(k + 1, Output(Input)) /\ v' = Terminate
         /\ UNCHANGED <<config, sent, results>>
         /\ \A j \in 1 .. depth : queue[j] = <<>>
         /\ HasRoom(k + 1)
<1>1. /\ k \in Nat /\ k >= at + 2 /\ k < depth /\ k + 1 \in 0 .. Result /\ tpc = "call" /\ tpc' = "wait"
      /\ policy = "deferred" /\ queue' = Pushed(k + 1, Output(Input)) /\ v' = Terminate
  BY CatcherFacts
<1>2. at \in Nat /\ depth \in Nat /\ Result = depth
  BY <1>1, ConfigFacts
<1>3. k + 1 \in Stations /\ at < k /\ k + 1 \in 1 .. depth
  <2>1. at < k /\ k + 1 \in 1 .. depth
    BY <1>1, <1>2
  <2>2. k + 1 \in Stations
    BY <1>1, LineTypes DEF LineOK
  <2> QED BY <2>1, <2>2
<1>4. void[at] /\ UNCHANGED <<config, sent, results>>
  BY DEF CatchAbove, Escapes, origin
<1>5. \A j \in 1 .. depth : queue[j] = <<>>
  BY <1>1, <1>4 DEF NothingOnTheWay
<1>6. HasRoom(k + 1)
  <2>1. Len(<<>>) = 0
    OBVIOUS
  <2> QED BY <1>3, <1>5, <2>1 DEF HasRoom, Capacity
<1> QED BY <1>1, <1>2, <1>3, <1>4, <1>5, <1>6

LEMMA CatchGoesOn ==
  ASSUME Types, Types', Working, Ordered, NothingOnTheWay, NEW k \in Catchers, CatchAbove(k)
  PROVE  Ordered'
<1> DEFINE x == Output(Input)
<1>1. /\ k + 1 \in 0 .. Result /\ k + 1 \in Stations /\ k \in Nat /\ at \in Nat /\ at < k
      /\ void[at] /\ tpc = "call" /\ tpc' = "wait" /\ policy = "deferred" /\ Result = depth
      /\ queue' = Pushed(k + 1, x) /\ UNCHANGED <<config, sent, results>>
      /\ \A j \in 1 .. depth : queue[j] = <<>>
  BY CatchPlace
<1>2. x \in RealItem /\ Real(Input)
  BY <1>1, InputFacts DEF Working, LifeOK, Real
<1>3. Genuine(k + 1, x) /\ Real(x) /\ x.id = Input.id
  <2>1. k + 1 \in Nat \ {0}
    BY <1>1
  <2> QED BY <1>1, <1>2, <2>1, InputPlace, OutputGenuine
<1> HIDE DEF x
<1>4. SentGrows /\ \A j \in Stations : Front(j) = 1 /\ Front(j)' = 1 /\ Front(j)' >= Front(j)
  <2>1. \A j \in Stations : Front(j) = 1 /\ Front(j)' = 1
    BY <1>1 DEF Front
  <2> QED BY <1>1, <2>1 DEF SentGrows
<1>5. GenuineNext(k + 1, x)
  BY <1>1, <1>2, <1>3, <1>4, GenuineStays DEF RealItem
<1>6. Fits(NoShift, k + 1, x)
  <2> SUFFICES ASSUME NEW j \in Stations, NEW n \in DOMAIN Line'[j], Moved(NoShift, j, n), Real(Line'[j][n])
               PROVE  /\ j >= k + 1 => Line'[j][n].id < x.id
                      /\ j < k + 1 /\ n >= Front(j)' => x.id < Line'[j][n].id
    BY DEF Fits
  <2>1. n \in DOMAIN Line[j] /\ Line'[j][n] = Line[j][n] /\ j \in Nat
    <3>1. n \in Nat /\ j \in Nat
      BY <1>1, LineTypes, LineNext DEF LineOK
    <3>2. n + NoShift[j] = n
      BY <3>1 DEF NoShift
    <3> QED BY <3>1, <3>2 DEF Moved
  <2>2. /\ j > at => Line[j][n].id < x.id
        /\ j <= at => x.id < Line[j][n].id
    BY <1>1, <1>2, <1>3, <2>1, InputPlace
  <2>3. ~(j > at /\ j <= Result)
    <3> SUFFICES ASSUME j > at, j <= Result PROVE FALSE
      OBVIOUS
    <3>1. j \in 1 .. depth /\ j \in 0 .. Result
      BY <1>1, <2>1, ConfigFacts
    <3>2. Line[j] = queue[j] /\ queue[j] = <<>>
      BY <1>1, <3>1, LineTypes DEF LineOK
    <3> QED BY <2>1, <3>2
  <2>4. Result \in Nat /\ k + 1 <= Result
    BY <1>1, ConfigFacts
  <2> QED BY <1>1, <2>1, <2>2, <2>3, <2>4
<1>7. ItemsGenuine' /\ OrderWithin' /\ OrderAcross'
  BY <1>1, <1>2, <1>4, <1>5, <1>6, PushOrder DEF Ordered
<1>8. OrderInHand'
  BY <1>1, NothingInHand
<1>9. NoInternalException'
  <2>1. ASSUME NEW j \in {Result, Result + 1}, NEW n \in DOMAIN Line'[j]
        PROVE  (\E m \in DOMAIN Line[j] : Line[j][m] = Line'[j][n]) \/ Real(Line'[j][n])
    <3>1. CASE j = Result
      <4>1. j \in 0 .. Result
        BY <3>1, ConfigFacts
      <4>2. Moved(NoShift, j, n) \/ Arrived(k + 1, x, j, n)
        BY <1>1, <1>2, <1>4, <4>1, MovedPush
      <4> QED BY <1>3, <4>2 DEF Moved, Arrived
    <3>2. CASE j = Result + 1
      <4>1. Line'[j] = Line[j]
        BY <1>1, <3>2, LineTypes, LineNext DEF LineOK
      <4> QED BY <4>1
    <3> QED BY <3>1, <3>2
  <2> QED BY <1>1, <2>1, InternalStays DEF Ordered
<1> QED BY <1>7, <1>8, <1>9 DEF Ordered

LEMMA LeftOverGoesOn ==
  ASSUME Types, Types', Working, Ordered, PopLeftOver
  PROVE  Ordered'
<1> USE DEF config, origin, reader
<1>1. /\ UNCHANGED <<config, sent, results, tpc, at>> /\ tpc = "exited" /\ queue' = Popped(Start)
      /\ Start \in 0 .. Result /\ Start < Result /\ queue[Start] # <<>>
  BY StartFacts, ConfigFacts DEF PopLeftOver
<1>2. \A j \in Stations : Front(j)' = Front(j)
  BY <1>1 DEF Front
<1>3. ItemsGenuine' /\ OrderWithin' /\ OrderAcross'
  BY <1>1, <1>2, PopOrder DEF Ordered
<1>4. OrderInHand'
  BY <1>1, NothingInHand
<1>5. NoInternalException'
  <2>1. Line'[Result] = Line[Result] /\ Line'[Result + 1] = Line[Result + 1]
    <3>1. Result \in 0 .. Result /\ queue'[Result] = queue[Result]
      BY <1>1, ConfigFacts, PoppedFacts
    <3> QED BY <1>1, <3>1, LineTypes, LineNext DEF LineOK
  <2> QED BY <1>1, <2>1, InternalStays DEF Ordered
<1> QED BY <1>3, <1>4, <1>5 DEF Ordered

LEMMA ThenAgainGoesOn ==
  ASSUME Types, Types', Working, Ordered, ThenAgain
  PROVE  Ordered'
<1> USE DEF config, origin
<1>1. /\ UNCHANGED <<config, sent, results>> /\ tpc = "exited" /\ tpc' = "wait"
      /\ queue' = [queue EXCEPT ![Result] = <<>>]
  BY DEF ThenAgain
<1>2. \A j \in Stations : Front(j)' = 1 /\ Front(j) = 1
  BY <1>1 DEF Front
<1>3. ASSUME NEW j \in Stations, NEW n \in DOMAIN Line'[j]
      PROVE  Line'[j] = Line[j] /\ Moved(NoShift, j, n)
  <2>1. CASE j = Result
    <3>1. Result \in 0 .. Result /\ Result' = Result
      BY <1>1, ConfigFacts DEF Result
    <3>2. queue'[Result] = <<>>
      BY <1>1, <3>1 DEF Types, QueuesOK
    <3>3. Line'[j] = queue'[Result]
      BY <1>1, <2>1, <3>1, LineNext
    <3> QED BY <3>2, <3>3
  <2>2. CASE j \in 0 .. Result /\ j # Result
    <3>1. Line'[j] = Line[j]
      <4>1. queue'[j] = queue[j]
        BY <1>1, <2>2 DEF Types, QueuesOK
      <4> QED BY <1>1, <2>2, <4>1, LineTypes, LineNext DEF LineOK
    <3>2. \A i \in Stations : Front(i)' >= Front(i)
      BY <1>2
    <3> QED BY <1>1, <3>1, <3>2, MovedStay
  <2>3. CASE j = Result + 1
    <3>1. Line'[j] = Line[j]
      BY <1>1, <2>3, LineTypes, LineNext DEF LineOK
    <3>2. \A i \in Stations : Front(i)' >= Front(i)
      BY <1>2
    <3> QED BY <1>1, <3>1, <3>2, MovedStay
  <2> QED BY <2>1, <2>2, <2>3, ConfigFacts DEF Stations
<1>4. ItemsGenuine' /\ OrderWithin' /\ OrderAcross'
  BY <1>1, <1>3, ShiftTypes, OrderMoves DEF Ordered, SentGrows
<1>5. OrderInHand'
  BY <1>1, NothingInHand
<1>6. NoInternalException'
  <2>1. {Result, Result + 1} \subseteq Stations
    BY ConfigFacts DEF Stations
  <2> QED BY <1>1, <1>3, <2>1, InternalStays DEF Ordered
<1> QED BY <1>4, <1>5, <1>6 DEF Ordered

-----------------------------------------------------------------------------
(* What the consumer of a deferred continuation leaves on the way.            *)

WayNext ==
    policy = "deferred" =>
        \A k \in 1 .. depth : queue'[k] # <<>> =>
            \/ tpc' = "idle" /\ k = depth
            \/ tpc' = "wait" /\ k = at'
            \/ tpc' = "call" /\ k = at' /\ ~void[at']
            \/ tpc' = "pop" /\ k \in {at', at' + 1}

LEMMA WayPrimed == ASSUME WayNext, UNCHANGED config PROVE NothingOnTheWay'
BY DEF WayNext, NothingOnTheWay, config

LEMMA WayReader ==
  ASSUME Types, Working, NothingOnTheWay, ReaderStep
  PROVE  WayNext
<1> SUFFICES ASSUME policy = "deferred" PROVE WayNext
  BY DEF WayNext
<1>0. /\ ReaderOK /\ at \in 0 .. depth /\ at \in Nat /\ depth \in Nat /\ depth > 0 /\ Result = depth
      /\ Result \in 0 .. Result /\ at \in 0 .. Result
      /\ \A k \in 1 .. depth : k \in 0 .. Result /\ k # 0
  BY ConfigFacts DEF Working
<1>1. \A k \in 1 .. depth : queue[k] \in Seq(RealItem) /\ Capacity(k) = 1 /\ Len(queue[k]) <= 1
  BY <1>0 DEF Types, QueuesOK, Capacity
<1>2. ASSUME NEW k \in 0 .. Result, queue[k] # <<>>, queue' = Popped(k)
      PROVE  (k # 0 => queue'[k] = <<>>) /\ \A j \in 1 .. depth : j # k => queue'[j] = queue[j]
  <2>1. \A j \in 1 .. depth : j # k => queue'[j] = queue[j]
    BY <1>0, <1>2, PoppedFacts
  <2>2. k # 0 => queue'[k] = <<>>
    <3> SUFFICES ASSUME k # 0 PROVE queue'[k] = <<>>
      OBVIOUS
    <3>1. k \in 1 .. depth
      BY <1>0
    <3>2. queue'[k] = Tail(queue[k])
      BY <1>2 DEF Popped, Types, QueuesOK
    <3>3. queue[k] \in Seq(RealItem) /\ Len(queue[k]) <= 1 /\ Len(queue[k]) \in Nat
      BY <1>1, <3>1
    <3>4. Tail(queue[k]) \in Seq(RealItem) /\ Len(Tail(queue[k])) = Len(queue[k]) - 1
      BY <1>2, <3>3, TailFacts
    <3>5. Len(Tail(queue[k])) = 0
      <4>1. Len(Tail(queue[k])) \in Nat
        BY <3>4
      <4>2. \A a, b \in Nat : a <= 1 /\ b = a - 1 => b = 0
        OBVIOUS
      <4> QED BY <3>3, <3>4, <4>1, <4>2
    <3>6. \A s \in Seq(RealItem) : Len(s) = 0 => s = <<>>
      OBVIOUS
    <3> QED BY <3>2, <3>4, <3>5, <3>6
  <2> QED BY <2>1, <2>2
<1>3. CASE WaitInput
  <2>1. tpc = "wait" /\ tpc' = "call" /\ at' = at /\ at < Result /\ queue[at] # <<>>
    BY <1>3 DEF WaitInput
  <2>2. CASE ~void[at]
    <3>1. queue' = queue
      BY <1>3, <2>2 DEF WaitInput
    <3> QED BY <2>1, <2>2, <3>1 DEF WayNext, NothingOnTheWay
  <2>3. CASE void[at]
    <3>1. queue' = Popped(at)
      BY <1>3, <2>3 DEF WaitInput
    <3>2. (at # 0 => queue'[at] = <<>>) /\ \A j \in 1 .. depth : j # at => queue'[j] = queue[j]
      BY <1>0, <1>2, <2>1, <3>1
    <3>3. \A k \in 1 .. depth : queue'[k] = <<>>
      BY <1>0, <2>1, <3>2 DEF NothingOnTheWay
    <3> QED BY <3>3 DEF WayNext
  <2> QED BY <2>2, <2>3
<1>4. CASE CallAndPush
  <2>1. /\ tpc = "call" /\ queue' = Pushed(at + 1, Output(Input)) /\ at + 1 \in 0 .. Result /\ Output(Input) \in RealItem
        /\ IF void[at] THEN tpc' = "wait" /\ at' = Forward(at) ELSE tpc' = "pop" /\ at' = at
    BY <1>4, InputFacts DEF CallAndPush
  <2>2. \A j \in 1 .. depth : j # at + 1 => queue'[j] = queue[j]
    BY <1>0, <2>1, PushedFacts
  <2>3. at < depth /\ Forward(at) = at + 1
    BY <1>0, <2>1 DEF Forward
  <2> QED BY <1>0, <2>1, <2>2, <2>3 DEF WayNext, NothingOnTheWay
<1>5. CASE PopInput
  <2>1. tpc = "pop" /\ tpc' = "wait" /\ at' = Forward(at) /\ queue' = Popped(at) /\ queue[at] # <<>> /\ at < Result
    BY <1>0, <1>5 DEF PopInput, ReaderOK
  <2>2. (at # 0 => queue'[at] = <<>>) /\ \A j \in 1 .. depth : j # at => queue'[j] = queue[j]
    BY <1>0, <1>2, <2>1
  <2>3. Forward(at) = at + 1
    BY <1>0, <2>1 DEF Forward
  <2> QED BY <1>0, <2>1, <2>2, <2>3 DEF WayNext, NothingOnTheWay
<1>6. CASE EndCall
  <2>1. tpc = "wait" /\ at = Result /\ tpc' = "idle" /\ queue[Result] # <<>>
    BY <1>0, <1>6 DEF EndCall, ReturnFromCall, ReaderOK
  <2>2. \A j \in 1 .. depth : j # depth => queue'[j] = queue[j]
    BY <1>0, <1>2, <1>6, <2>1 DEF EndCall
  <2> QED BY <1>0, <2>1, <2>2 DEF WayNext, NothingOnTheWay
<1>7. CASE Escape
  <2>1. tpc = "call" /\ void[at] /\ queue' = queue
    BY <1>7 DEF Escape, Escapes
  <2> QED BY <2>1 DEF WayNext, NothingOnTheWay
<1>8. CASE FindNothing
  <2>1. tpc = "wait" /\ queue[at] = <<>> /\ queue' = queue /\ tpc' = "idle"
    BY <1>8 DEF FindNothing, ReturnFromCall
  <2> QED BY <2>1 DEF WayNext, NothingOnTheWay
<1>9. ~Leave
  <2>1. Leave => tpc = "call" /\ at = depth
    BY DEF Leave, Ends
  <2> QED BY <1>0, <2>1 DEF ReaderOK
<1>10. ~ThreadRelease /\ ~ThreadExit /\ ~ThreadAborts
  BY <1>0 DEF ThreadRelease, ThreadExit, ThreadAborts, ReaderOK
<1>11. ASSUME NEW k \in Catchers, CatchAbove(k) PROVE WayNext
  <2>1. at' = k + 1 /\ tpc' = "wait" /\ k + 1 \in 0 .. Result /\ queue' = Pushed(k + 1, Output(Input)) /\ tpc = "call"
    BY <1>11, CatcherFacts
  <2>2. \A j \in 1 .. depth : queue[j] = <<>>
    BY <1>11, CatchPlace
  <2>3. \A j \in 1 .. depth : j # k + 1 => queue'[j] = queue[j]
    BY <1>0, <2>1, InputFacts, PushedFacts
  <2> QED BY <2>1, <2>2, <2>3 DEF WayNext
<1> QED BY <1>3, <1>4, <1>5, <1>6, <1>7, <1>8, <1>9, <1>10, <1>11 DEF ReaderStep

LEMMA WayOthers ==
  ASSUME Types, Working, NothingOnTheWay,
         OuterStep \/ \E u \in Users : Release(u) \/ FreeStep(u) \/ \E w \in Users : Copy(u, w)
  PROVE  WayNext
<1> USE DEF reader
<1> SUFFICES ASSUME policy = "deferred" PROVE WayNext
  BY DEF WayNext
<1>0. /\ ReaderOK /\ depth \in Nat /\ Result = depth /\ Result \in 0 .. Result /\ 0 \in 0 .. Result
      /\ \A k \in 1 .. depth : k \in 0 .. Result /\ k # 0
  BY ConfigFacts DEF Working
<1>1. ASSUME NEW kind \in {"value", "exception"}, Push(kind) PROVE WayNext
  <2> DEFINE x == [kind |-> kind, id |-> Len(sent) + 1]
  <2>1. x \in RealItem
    BY DEF RealItem, Item, Types
  <2>2. \A j \in 1 .. depth : queue'[j] = queue[j]
    BY <1>0, <1>1, <2>1, PushedFacts DEF Push
  <2> QED BY <1>1, <2>2 DEF Push, WayNext, NothingOnTheWay
<1>2. ASSUME PopResult PROVE WayNext
  <2>1. /\ tpc = "idle" /\ tpc' = "idle" /\ queue' = Popped(Result) /\ queue[Result] # <<>>
    BY <1>0, <1>2 DEF PopResult, ReaderOK
  <2>2. \A j \in 1 .. depth : j # depth => queue'[j] = queue[j]
    BY <1>0, <2>1, PoppedFacts
  <2> QED BY <2>1, <2>2 DEF WayNext, NothingOnTheWay
<1>3. ~PopLeftOver /\ ~ThenAgain
  BY DEF PopLeftOver, ThenAgain
<1>4. ASSUME ThenReturns PROVE WayNext
  BY <1>4 DEF ThenReturns, WayNext, NothingOnTheWay
<1>5. ASSUME NEW f \in {"pop", "pop_wait", "empty", "wait"}, BeginCall(f) PROVE WayNext
  <2>1. tpc = "idle" /\ queue[depth] = <<>> /\ queue' = queue
    BY <1>0, <1>5 DEF BeginCall, ReaderOK
  <2> QED BY <2>1 DEF WayNext, NothingOnTheWay
<1>6. ASSUME NEW u \in Users, Release(u) \/ FreeStep(u) \/ \E w \in Users : Copy(u, w) PROVE WayNext
  <2>1. ~PushTermination(u)
    BY DEF PushTermination, UserGoes, Working, UsersOK
  <2>2. ~AssertionFails(u)
    <3> SUFFICES ASSUME AssertionFails(u) PROVE FALSE
      OBVIOUS
    <3>1. Aborted'
      BY AbortsWhenStale
    <3>2. stale
      BY <3>1 DEF Aborted, AssertionFails, again
    <3> QED BY <3>2 DEF Working, LifeOK
  <2>3. UNCHANGED <<queue, tpc, at>>
    BY <1>6, <2>1, <2>2 DEF Release, Copy, FreeStep, TestFlags, ClearFunctions, TestTerminated, Delete
  <2> QED BY <2>3 DEF WayNext, NothingOnTheWay
<1> QED BY <1>1, <1>2, <1>3, <1>4, <1>5, <1>6 DEF OuterStep

-----------------------------------------------------------------------------
(* The invariant holds.                                                       *)

OrderInvariant == LifeInv /\ Ordered /\ NothingOnTheWay

LEMMA OrderInit == Init => Ordered /\ NothingOnTheWay
<1> SUFFICES ASSUME Init PROVE Ordered /\ NothingOnTheWay
  OBVIOUS
<1>1. Types
  BY LifeInit DEF LifeInv
<1>2. \A k \in Stations : Line[k] = <<>>
  BY <1>1, ConfigFacts DEF Init, Stations, Line
<1>3. Result \in Stations /\ Result + 1 \in Stations /\ \A k \in 1 .. depth : queue[k] = <<>>
  BY <1>1, ConfigFacts DEF Init, Stations, Result
<1>4. tpc # "call"
  BY DEF Init
<1> QED BY <1>2, <1>3, <1>4 DEF Ordered, ItemsGenuine, OrderWithin, OrderAcross, OrderInHand, InHand,
        NoInternalException, NothingOnTheWay

LEMMA OrderNext ==
  ASSUME Types, Types', Working, Ordered, NothingOnTheWay, Next, UNCHANGED config
  PROVE  Ordered' /\ NothingOnTheWay'
<1>1. OuterStep \/ ReaderStep \/ \E u \in Users : Release(u) \/ FreeStep(u) \/ \E w \in Users : Copy(u, w)
  BY DEF Next, OuterStep
<1>2. NothingOnTheWay'
  BY <1>1, WayReader, WayOthers, WayPrimed
<1>3. CASE OuterStep
  <2>1. ASSUME ThenReturns \/ \E f \in {"pop", "pop_wait", "empty", "wait"} : BeginCall(f) PROVE Ordered'
    <3>1. /\ UNCHANGED <<config, queue, results, sent>>
          /\ UNCHANGED <<tpc, at, v>> \/ (tpc # "pop" /\ tpc' # "pop" /\ tpc' # "call")
      BY <2>1 DEF ThenReturns, BeginCall, origin, reader, Working, ReaderOK
    <3> QED BY <3>1, QuietOrder DEF Ordered
  <2>2. ASSUME PopResult PROVE Ordered'
    BY <2>2, ResultGoesOn DEF PopResult, origin, reader
  <2>3. ASSUME NEW kind \in {"value", "exception"}, Push(kind) PROVE Ordered'
    BY <2>3, PushGoesOn
  <2>4. PopLeftOver \/ ThenAgain => Ordered'
    BY LeftOverGoesOn, ThenAgainGoesOn
  <2> QED BY <1>2, <1>3, <2>1, <2>2, <2>3, <2>4 DEF OuterStep
<1>4. CASE ReaderStep
  <2>1. ASSUME FindNothing \/ Leave \/ ThreadRelease \/ ThreadExit \/ ThreadAborts PROVE Ordered'
    <3>1. /\ UNCHANGED <<config, queue, results, sent>> /\ tpc # "pop" /\ tpc' \notin {"pop", "call"}
      BY <2>1 DEF FindNothing, ReturnFromCall, Leave, ThreadRelease, ThreadExit, ThreadAborts, Abort, origin
    <3> QED BY <3>1, QuietOrder DEF Ordered
  <2>2. ASSUME EndCall PROVE Ordered'
    <3>1. UNCHANGED <<config, sent>> /\ tpc = "wait" /\ tpc' = "idle" /\ at = Result /\ policy = "deferred"
      BY <2>2, ConfigFacts DEF EndCall, ReturnFromCall, origin, Working, ReaderOK
    <3>2. CASE call \in {"pop", "pop_wait"}
      <4>1. queue[Result] # <<>>
        BY <3>1 DEF Working, ReaderOK
      <4> QED BY <2>2, <3>1, <3>2, <4>1, ResultGoesOn DEF EndCall
    <3>3. CASE call \notin {"pop", "pop_wait"}
      <4>1. UNCHANGED <<queue, results>>
        BY <2>2, <3>3 DEF EndCall
      <4> QED BY <3>1, <4>1, QuietOrder DEF Ordered
    <3> QED BY <3>2, <3>3
  <2>3. WaitInput \/ CallAndPush \/ PopInput \/ Escape => Ordered'
    BY WaitGoesOn, CallGoesOn, PopInputGoesOn, EscapeGoesOn
  <2>4. (\E k \in Catchers : CatchAbove(k)) => Ordered'
    BY CatchGoesOn
  <2> QED BY <1>2, <1>4, <2>1, <2>2, <2>3, <2>4 DEF ReaderStep
<1>5. ASSUME NEW u \in Users, Release(u) \/ FreeStep(u) \/ \E w \in Users : Copy(u, w) PROVE Ordered'
  <2>1. CASE PushTermination(u)
    BY <2>1, TerminationGoesOn
  <2>2. CASE AssertionFails(u)
    <3>1. policy = "async"
      <4>1. Aborted'
        BY <2>2, AbortsWhenStale
      <4>2. stale
        BY <2>2, <4>1 DEF Aborted, AssertionFails, again
      <4> QED BY <4>2 DEF Working, LifeOK
    <3>2. UNCHANGED <<queue, results, sent>> /\ tpc = "exited" /\ tpc' = "aborted"
      BY <2>2, <3>1 DEF AssertionFails, Joinable, Abort, origin
    <3> QED BY <3>2, QuietOrder DEF Ordered
  <2>3. CASE ~PushTermination(u) /\ ~AssertionFails(u)
    <3>1. UNCHANGED <<queue, results, sent, tpc, at, v>>
      BY <1>5, <2>3 DEF Release, Copy, FreeStep, TestFlags, ClearFunctions, TestTerminated, Delete, origin, reader
    <3> QED BY <3>1, QuietOrder DEF Ordered
  <2> QED BY <2>1, <2>2, <2>3
<1> QED BY <1>1, <1>2, <1>3, <1>4, <1>5

LEMMA OrderStays == OrderInvariant /\ [Next]_vars => OrderInvariant'
<1> SUFFICES ASSUME OrderInvariant, [Next]_vars PROVE OrderInvariant'
  OBVIOUS
<1>1. LifeInv' /\ Types /\ Types'
  BY LifeStep DEF OrderInvariant, LifeInv
<1>2. CASE UNCHANGED vars
  <2>1. UNCHANGED <<config, queue, results, sent, tpc, at, v>>
    BY <1>2 DEF vars, origin, reader
  <2>2. Ordered'
    BY <1>1, <2>1, QuietOrder DEF Ordered, OrderInvariant
  <2>3. NothingOnTheWay'
    BY <2>1 DEF NothingOnTheWay, OrderInvariant, config
  <2> QED BY <1>1, <2>2, <2>3 DEF OrderInvariant
<1>3. CASE Next
  <2>1. Working
    BY <1>3, AbortedEnds DEF OrderInvariant, LifeInv
  <2>2. UNCHANGED config
    <3>1. TypesNext
      BY <1>1, <1>3, <2>1, OuterTypes, ReaderTypes, UserTypes DEF Next, OuterStep
    <3> QED BY <3>1 DEF TypesNext
  <2> QED BY <1>1, <1>3, <2>1, <2>2, OrderNext DEF OrderInvariant
<1> QED BY <1>2, <1>3

LEMMA OrderAlways == Spec => []OrderInvariant
<1>1. Init => OrderInvariant
  BY LifeInit, OrderInit DEF OrderInvariant
<1> QED BY <1>1, OrderStays, PTL DEF Spec

-----------------------------------------------------------------------------
(* The consumer gets the results in the order of the elements, each at most    *)
(* once, as an exception exactly where the origin had one or the callable      *)
(* throws one, and never the internal exception: for every chain of deferred   *)
(* continuations, every mix of void and other queues, whichever calls the      *)
(* consumer makes and whenever the handles are released.                      *)
THEOREM ResultsOrdered == Spec => []ResultsInOrder
<1>1. OrderInvariant => ResultsInOrder
  <2> SUFFICES ASSUME OrderInvariant PROVE ResultsInOrder
    OBVIOUS
  <2>1. Types /\ Ordered
    BY DEF OrderInvariant, LifeInv
  <2>2. /\ Result \in Nat /\ Result + 1 \in Stations /\ Result \in Stations
        /\ Line[Result] = queue[Result] /\ Line[Result + 1] = results
        /\ queue[Result] \in Seq(Item) /\ results \in Seq(Item)
    BY <2>1, ConfigFacts, LineTypes, SMTT(30) DEF LineOK
  <2>3. Front(Result) = 1
    BY <2>2 DEF Front, OrderInvariant, LifeInv, Working, Aborted, ReaderOK
  <2> DEFINE rs == results \o queue[Result]
  <2>4. ASSUME NEW i \in DOMAIN rs
        PROVE  \/ i \in DOMAIN results /\ rs[i] = results[i]
               \/ i > Len(results) /\ i - Len(results) \in DOMAIN queue[Result] /\ rs[i] = queue[Result][i - Len(results)]
    BY <2>2
  <2>5. DOMAIN rs \subseteq Nat /\ Len(results) \in Nat /\ \A i \in DOMAIN results : i <= Len(results)
    BY <2>2
  <2> HIDE DEF rs
  <2>6. Result = 0 => policy = "none"
    BY <2>1, ConfigFacts
  <2>7. ASSUME NEW i \in DOMAIN rs PROVE rs[i].id \in DOMAIN sent /\ rs[i].kind = ExpectedKind(rs[i].id)
    <3>1. Genuine(Result, rs[i]) \/ Genuine(Result + 1, rs[i])
      BY <2>1, <2>2, <2>4 DEF Ordered, ItemsGenuine, NoInternalException
    <3> QED BY <2>1, <2>2, <2>6, <3>1 DEF Genuine, Types, ExpectedKind, Thrown
  <2>8. ASSUME NEW i \in DOMAIN rs, NEW j \in DOMAIN rs, i < j PROVE rs[i].id < rs[j].id
    <3>1. CASE i \in DOMAIN results /\ rs[i] = results[i] /\ j \in DOMAIN results /\ rs[j] = results[j]
      BY <2>1, <2>2, <2>8, <3>1 DEF Ordered, OrderWithin, NoInternalException
    <3>2. CASE /\ i - Len(results) \in DOMAIN queue[Result] /\ rs[i] = queue[Result][i - Len(results)]
               /\ j - Len(results) \in DOMAIN queue[Result] /\ rs[j] = queue[Result][j - Len(results)]
      <4>1. i - Len(results) < j - Len(results)
        BY <2>5, <2>8
      <4> QED BY <2>1, <2>2, <3>2, <4>1 DEF Ordered, OrderWithin, NoInternalException
    <3>3. CASE /\ i \in DOMAIN results /\ rs[i] = results[i]
               /\ j - Len(results) \in DOMAIN queue[Result] /\ rs[j] = queue[Result][j - Len(results)]
      <4>1. j - Len(results) >= Front(Result) /\ Result < Result + 1
        BY <2>2, <2>3, <3>3
      <4> QED BY <2>1, <2>2, <3>3, <4>1 DEF Ordered, OrderAcross, NoInternalException
    <3>4. ~(i > Len(results) /\ j \in DOMAIN results)
      BY <2>5, <2>8
    <3> QED BY <2>4, <3>1, <3>2, <3>3, <3>4
  <2> QED BY <2>7, <2>8 DEF ResultsInOrder, rs
<1> QED BY <1>1, OrderAlways, PTL

-----------------------------------------------------------------------------
(* Nothing is lost.  The hypothesis is needed: with two or more deferred       *)
(* continuations before an asynchronous one, the termination exception is      *)
(* pushed into the queue of one of them and takes the place of an element.     *)

ShortChains == "async" \in Policies => Depths["async"] \subseteq {0, 1}

NothingOnTheWayToThread ==
    policy = "async" /\ depth = 1 /\ queue[1] # <<>> =>
        \/ tpc \in {"release", "flags", "exited", "aborted", "pop"}
        \/ tpc = "wait" /\ at = 1
        \/ tpc = "call" /\ at = 1 /\ ~void[1]

HandClear == v.id # 0 => tpc = "call" /\ void[at]

WayInv == NothingOnTheWay /\ NothingOnTheWayToThread /\ HandClear

(* An item with this id is still to be processed or has become a result.      *)
OnItsWay(id) == v.id = id \/ \E k \in Stations : \E n \in DOMAIN Line[k] : n >= Front(k) /\ Line[k][n].id = id

LEMMA UnderwayMeans ==
  ASSUME Types, tpc = "pop" => queue[at] # <<>>, NEW id
  PROVE  id \in Underway <=> OnItsWay(id)
<1>1. /\ Stations = (0 .. Result) \cup {Result + 1} /\ at \in 0 .. depth /\ depth \in Nat /\ Result \in Nat
      /\ depth <= Result
      /\ \A k \in 0 .. Result : Line[k] = queue[k] /\ queue[k] \in Seq(RealItem)
      /\ Line[Result + 1] = results /\ results \in Seq(Item)
  <2>1. at \in 0 .. depth /\ depth \in Nat /\ Result \in Nat /\ depth <= Result
    BY ConfigFacts
  <2>2. Stations = (0 .. Result) \cup {Result + 1}
    BY <2>1 DEF Stations
  <2>3. (\A k \in 0 .. Result : Line[k] = queue[k]) /\ Line[Result + 1] = results
    BY LineTypes DEF LineOK
  <2>4. (\A k \in 0 .. Result : queue[k] \in Seq(RealItem)) /\ results \in Seq(Item)
    BY DEF Types, QueuesOK
  <2> QED BY <2>1, <2>2, <2>3, <2>4
<1>2. id \in IdsOf(results) <=> \E n \in DOMAIN Line[Result + 1] : n >= Front(Result + 1) /\ Line[Result + 1][n].id = id
  <2>1. Front(Result + 1) = 1 /\ \A n \in DOMAIN results : n >= 1
    BY <1>1 DEF Front
  <2> QED BY <1>1, <2>1 DEF IdsOf
<1>3. ASSUME NEW k \in 0 .. Result
      PROVE  id \in IdsOf(Pending(k)) <=> \E n \in DOMAIN Line[k] : n >= Front(k) /\ Line[k][n].id = id
  <2>1. CASE tpc = "pop" /\ k = at
    <3>1. Pending(k) = Tail(queue[k]) /\ Front(k) = 2 /\ queue[k] # <<>>
      BY <2>1 DEF Pending, Front
    <3>2. \A n \in DOMAIN Tail(queue[k]) : n + 1 \in DOMAIN queue[k] /\ n + 1 >= 2 /\ Tail(queue[k])[n] = queue[k][n + 1]
      BY <1>1, <3>1
    <3>3. \A n \in DOMAIN queue[k] : n >= 2 => n - 1 \in DOMAIN Tail(queue[k]) /\ Tail(queue[k])[n - 1] = queue[k][n]
      BY <1>1, <3>1
    <3>4. id \in IdsOf(Pending(k)) <=> \E n \in DOMAIN Tail(queue[k]) : Tail(queue[k])[n].id = id
      BY <3>1 DEF IdsOf
    <3>5. (\E n \in DOMAIN Tail(queue[k]) : Tail(queue[k])[n].id = id)
            <=> \E n \in DOMAIN queue[k] : n >= 2 /\ queue[k][n].id = id
      <4>1. ASSUME NEW n \in DOMAIN Tail(queue[k]), Tail(queue[k])[n].id = id
            PROVE  \E m \in DOMAIN queue[k] : m >= 2 /\ queue[k][m].id = id
        BY <3>2, <4>1
      <4>2. ASSUME NEW n \in DOMAIN queue[k], n >= 2, queue[k][n].id = id
            PROVE  \E m \in DOMAIN Tail(queue[k]) : Tail(queue[k])[m].id = id
        BY <3>3, <4>2
      <4> QED BY <4>1, <4>2
    <3> QED BY <1>1, <3>1, <3>4, <3>5
  <2>2. CASE ~(tpc = "pop" /\ k = at)
    <3>1. Pending(k) = queue[k] /\ Front(k) = 1
      BY <2>2 DEF Pending, Front
    <3>2. \A n \in DOMAIN queue[k] : n >= 1
      BY <1>1
    <3> QED BY <1>1, <3>1, <3>2 DEF IdsOf
  <2> QED BY <2>1, <2>2
<1>4. id \in Underway <=> id \in IdsOf(results) \/ id = v.id \/ \E k \in 0 .. Result : id \in IdsOf(Pending(k))
  BY DEF Underway
<1> QED BY <1>1, <1>2, <1>3, <1>4 DEF OnItsWay

LEMMA UnderwayMeansNext ==
  ASSUME NEW id
  PROVE  (Types /\ (tpc = "pop" => queue[at] # <<>>))' => (id \in Underway <=> OnItsWay(id))'
<1>1. Types /\ (tpc = "pop" => queue[at] # <<>>) => (id \in Underway <=> OnItsWay(id))
  BY UnderwayMeans
<1> QED BY <1>1, PTL

(* OnItsWay(id) after the step.                                               *)
OnItsWayNext(id) == v'.id = id \/ \E k \in Stations : \E n \in DOMAIN Line'[k] : n >= Front(k)' /\ Line'[k][n].id = id

LEMMA KeptPush ==
  ASSUME Types, Types', UNCHANGED <<config, results>>, NEW k \in 0 .. Result, NEW x \in RealItem, queue' = Pushed(k, x)
  PROVE  /\ \A j \in Stations : \A n \in DOMAIN Line[j] : n \in DOMAIN Line'[j] /\ Line'[j][n] = Line[j][n]
         /\ HasRoom(k) => \E n \in DOMAIN Line'[k] : n = Len(queue[k]) + 1 /\ Line'[k][n] = x
<1>1. /\ \A j \in Stations : j \in 0 .. Result \/ j = Result + 1
      /\ \A j \in 0 .. Result : Line[j] = queue[j] /\ Line'[j] = queue'[j]
      /\ Line[Result + 1] = results /\ Line'[Result + 1] = results
  <2>1. \A j \in Stations : j \in 0 .. Result \/ j = Result + 1
    BY ConfigFacts DEF Stations
  <2>2. (\A j \in 0 .. Result : Line[j] = queue[j]) /\ Line[Result + 1] = results
    BY LineTypes DEF LineOK
  <2>3. (\A j \in 0 .. Result : Line'[j] = queue'[j]) /\ Line'[Result + 1] = results
    BY LineNext
  <2> QED BY <2>1, <2>2, <2>3
<1>2. /\ \A j \in 0 .. Result : queue'[j] = IF j = k /\ HasRoom(k) THEN Append(queue[k], x) ELSE queue[j]
      /\ queue[k] \in Seq(RealItem)
  BY DEF Pushed, Types, QueuesOK
<1>3. /\ \A n \in DOMAIN queue[k] : n \in DOMAIN Append(queue[k], x) /\ Append(queue[k], x)[n] = queue[k][n]
      /\ Len(queue[k]) + 1 \in DOMAIN Append(queue[k], x) /\ Append(queue[k], x)[Len(queue[k]) + 1] = x
  BY <1>2
<1>4. ASSUME NEW j \in Stations, NEW n \in DOMAIN Line[j] PROVE n \in DOMAIN Line'[j] /\ Line'[j][n] = Line[j][n]
  <2>1. CASE j \in 0 .. Result
    BY <1>1, <1>2, <1>3, <2>1
  <2>2. CASE j = Result + 1
    BY <1>1, <2>2
  <2> QED BY <1>1, <2>1, <2>2
<1>5. HasRoom(k) => \E n \in DOMAIN Line'[k] : n = Len(queue[k]) + 1 /\ Line'[k][n] = x
  BY <1>1, <1>2, <1>3
<1> QED BY <1>4, <1>5

LEMMA KeptPop ==
  ASSUME Types, Types', UNCHANGED config, NEW k \in 0 .. Result, queue[k] # <<>>, queue' = Popped(k),
         NEW j \in 0 .. Result, NEW n \in DOMAIN Line[j]
  PROVE  /\ j # k => n \in DOMAIN Line'[j] /\ Line'[j][n] = Line[j][n]
         /\ j = k /\ n > 1 => n - 1 \in DOMAIN Line'[j] /\ Line'[j][n - 1] = Line[j][n]
         /\ j = k /\ ~(n > 1) => Line[j][n] = Head(queue[k])
<1>1. Line[j] = queue[j] /\ Line'[j] = queue'[j]
  BY LineTypes, LineNext DEF LineOK
<1>2. queue'[j] = (IF j = k THEN Tail(queue[k]) ELSE queue[j]) /\ queue[k] \in Seq(RealItem)
  BY DEF Popped, Types, QueuesOK
<1>3. \A m \in DOMAIN queue[k] : /\ m > 1 => m - 1 \in DOMAIN Tail(queue[k]) /\ Tail(queue[k])[m - 1] = queue[k][m]
                                 /\ ~(m > 1) => queue[k][m] = Head(queue[k])
  BY <1>2
<1> QED BY <1>1, <1>2, <1>3

LEMMA KeptResults ==
  ASSUME Types, Types', UNCHANGED config, NEW x \in Item, results' = Append(results, x)
  PROVE  /\ \A n \in DOMAIN Line[Result + 1] : n \in DOMAIN Line'[Result + 1] /\ Line'[Result + 1][n] = Line[Result + 1][n]
         /\ \E n \in DOMAIN Line'[Result + 1] : n = Len(results) + 1 /\ Line'[Result + 1][n] = x
<1>1. Line[Result + 1] = results /\ Line'[Result + 1] = Append(results, x) /\ results \in Seq(Item)
  BY LineTypes, LineNext DEF LineOK, Types
<1> QED BY <1>1

(* A step that moves no item and changes no more than who is at the front.    *)
LEMMA QuietKeeps ==
  ASSUME Types, Types', UNCHANGED <<config, queue, results>>, NEW id \in Nat \ {0}, OnItsWay(id),
         \A j \in Stations : Front(j)' = Front(j), v.id # 0 => v' = v
  PROVE  OnItsWayNext(id)
<1>1. Line' = Line
  BY StationsStay DEF Line, Stations
<1>2. v.id = id => v'.id = id
  OBVIOUS
<1> QED BY <1>1, <1>2 DEF OnItsWay, OnItsWayNext

LEMMA PushKeeps ==
  ASSUME Types, Types', UNCHANGED <<config, results>>, NEW k \in 0 .. Result, NEW x \in RealItem, queue' = Pushed(k, x),
         NEW id \in Nat \ {0}, OnItsWay(id), \A j \in Stations : Front(j)' = Front(j), v' = v
  PROVE  OnItsWayNext(id)
BY KeptPush DEF OnItsWay, OnItsWayNext

LEMMA WaitKeeps ==
  ASSUME Types, Types', Working, HandClear, WaitInput, NEW id \in Nat \ {0}, OnItsWay(id)
  PROVE  OnItsWayNext(id)
<1> USE DEF config
<1>1. /\ UNCHANGED <<config, results, at>> /\ tpc = "wait" /\ tpc' = "call" /\ queue[at] # <<>>
      /\ at \in 0 .. Result /\ at < Result /\ v.id = 0
  BY ConfigFacts DEF WaitInput, HandClear
<1>2. \A j \in Stations : Front(j)' = 1 /\ Front(j) = 1
  BY <1>1 DEF Front
<1>3. CASE ~void[at]
  <2>1. queue' = queue
    BY <1>3 DEF WaitInput
  <2>2. \A j \in Stations : Front(j)' = Front(j)
    BY <1>2
  <2> QED BY <1>1, <2>1, <2>2, QuietKeeps
<1>4. CASE void[at]
  <2>1. v' = Head(queue[at]) /\ queue' = Popped(at)
    BY <1>4 DEF WaitInput
  <2>2. PICK k \in Stations : \E n \in DOMAIN Line[k] : n >= Front(k) /\ Line[k][n].id = id
    BY <1>1 DEF OnItsWay
  <2>3. PICK n \in DOMAIN Line[k] : Line[k][n].id = id
    BY <2>2
  <2>4. n \in Nat /\ \A m \in DOMAIN Line'[k] : m >= Front(k)'
    <3>1. n \in Nat
      BY LineTypes DEF LineOK
    <3>2. \A m \in DOMAIN Line'[k] : m \in Nat \ {0}
      BY <1>1, LineNext
    <3> QED BY <1>2, <3>1, <3>2
  <2>5. CASE k \in 0 .. Result
    <3>1. /\ k # at => n \in DOMAIN Line'[k] /\ Line'[k][n] = Line[k][n]
          /\ k = at /\ n > 1 => n - 1 \in DOMAIN Line'[k] /\ Line'[k][n - 1] = Line[k][n]
          /\ k = at /\ ~(n > 1) => Line[k][n] = Head(queue[at])
      BY <1>1, <2>1, <2>5, KeptPop
    <3> QED BY <2>1, <2>3, <2>4, <3>1 DEF OnItsWayNext
  <2>6. CASE k = Result + 1
    <3>1. Line'[k] = Line[k]
      BY <1>1, <2>6, LineTypes, LineNext DEF LineOK
    <3> QED BY <2>3, <2>4, <3>1 DEF OnItsWayNext
  <2> QED BY <2>5, <2>6, ConfigFacts DEF Stations
<1> QED BY <1>3, <1>4

LEMMA PopInputKeeps ==
  ASSUME Types, Types', Working, HandClear, PopInput, NEW id \in Nat \ {0}, OnItsWay(id)
  PROVE  OnItsWayNext(id)
<1> USE DEF config
<1>1. /\ UNCHANGED <<config, results, v>> /\ tpc = "pop" /\ tpc' = "wait" /\ queue[at] # <<>>
      /\ at \in 0 .. Result /\ at < Result /\ v.id = 0 /\ queue' = Popped(at)
  BY ConfigFacts DEF PopInput, HandClear, Working, ReaderOK
<1>2. \A j \in Stations : Front(j)' = 1 /\ Front(j) = IF j = at THEN 2 ELSE 1
  BY <1>1 DEF Front
<1>3. PICK k \in Stations : \E n \in DOMAIN Line[k] : n >= Front(k) /\ Line[k][n].id = id
  BY <1>1 DEF OnItsWay
<1>4. PICK n \in DOMAIN Line[k] : n >= Front(k) /\ Line[k][n].id = id
  BY <1>3
<1>5. n \in Nat /\ (k = at => n > 1) /\ \A m \in DOMAIN Line'[k] : m >= Front(k)'
  <2>1. n \in Nat
    BY LineTypes DEF LineOK
  <2>2. \A m \in DOMAIN Line'[k] : m \in Nat \ {0}
    BY <1>1, LineNext
  <2> QED BY <1>2, <1>4, <2>1, <2>2
<1>6. CASE k \in 0 .. Result
  <2>1. /\ k # at => n \in DOMAIN Line'[k] /\ Line'[k][n] = Line[k][n]
        /\ k = at /\ n > 1 => n - 1 \in DOMAIN Line'[k] /\ Line'[k][n - 1] = Line[k][n]
    BY <1>1, <1>6, KeptPop
  <2> QED BY <1>4, <1>5, <2>1 DEF OnItsWayNext
<1>7. CASE k = Result + 1
  <2>1. Line'[k] = Line[k]
    BY <1>1, <1>7, LineTypes, LineNext DEF LineOK
  <2> QED BY <1>4, <1>5, <2>1 DEF OnItsWayNext
<1> QED BY <1>6, <1>7, ConfigFacts DEF Stations

(* The result queue's front item becomes a result.                            *)
LEMMA ResultKeeps ==
  ASSUME Types, Types', Working, HandClear, UNCHANGED config, queue[Result] # <<>>,
         results' = Append(results, Head(queue[Result])), queue' = Popped(Result),
         UNCHANGED <<tpc, at, v>> \/ (tpc = "wait" /\ tpc' = "idle"), NEW id \in Nat \ {0}, OnItsWay(id)
  PROVE  OnItsWayNext(id)
<1>1. Result \in 0 .. Result /\ Result + 1 \in Stations /\ Head(queue[Result]) \in Item
  BY ConfigFacts, PoppedFacts DEF Stations, RealItem
<1>2. (\A j \in Stations : Front(j)' = Front(j)) /\ \A j \in Stations : j >= Result => Front(j) = 1
  BY ConfigFacts DEF Front, Working, ReaderOK
<1>3. v.id = id => v'.id = id
  BY DEF HandClear
<1>4. ASSUME NEW k \in Stations, NEW n \in DOMAIN Line[k], n >= Front(k), Line[k][n].id = id PROVE OnItsWayNext(id)
  <2>1. /\ n \in Nat /\ k \in Nat /\ Result \in Nat
        /\ \A j \in Stations : \A m \in DOMAIN Line'[j] : j >= Result => m >= Front(j)'
    BY <1>2, LineTypes, LineNext, SMTT(30) DEF LineOK
  <2>2. CASE k \in 0 .. Result
    <3>1. /\ k # Result => n \in DOMAIN Line'[k] /\ Line'[k][n] = Line[k][n]
          /\ k = Result /\ n > 1 => n - 1 \in DOMAIN Line'[k] /\ Line'[k][n - 1] = Line[k][n]
          /\ k = Result /\ ~(n > 1) => Line[k][n] = Head(queue[Result])
      BY <1>1, <2>2, KeptPop
    <3>2. CASE k # Result
      BY <1>2, <1>4, <3>1, <3>2 DEF OnItsWayNext
    <3>3. CASE k = Result /\ n > 1
      BY <1>4, <2>1, <3>1, <3>3 DEF OnItsWayNext
    <3>4. CASE k = Result /\ ~(n > 1)
      <4>1. PICK m \in DOMAIN Line'[Result + 1] : Line'[Result + 1][m] = Head(queue[Result])
        BY <1>1, KeptResults
      <4>2. \E j \in Stations : j = Result + 1
        BY <1>1
      <4>3. PICK j \in Stations : j = Result + 1
        BY <4>2
      <4>4. m \in DOMAIN Line'[j] /\ m >= Front(j)' /\ Line'[j][m].id = id
        BY <1>4, <2>1, <3>1, <3>4, <4>1, <4>3
      <4> QED BY <4>4 DEF OnItsWayNext
    <3> QED BY <3>2, <3>3, <3>4
  <2>3. CASE k = Result + 1
    <3>1. n \in DOMAIN Line'[k] /\ Line'[k][n] = Line[k][n]
      BY <1>1, <2>3, KeptResults
    <3> QED BY <1>2, <1>4, <3>1 DEF OnItsWayNext
  <2> QED BY <2>1, <2>2, <2>3 DEF Stations
<1> QED BY <1>3, <1>4 DEF OnItsWay, OnItsWayNext

LEMMA RoomAhead ==
  ASSUME Types, Working, WayInv, ShortChains, tpc = "call", policy = "async" => HasRoom(Result)
  PROVE  HasRoom(at + 1)
<1>1. /\ at \in 0 .. depth /\ at \in Nat /\ depth \in Nat /\ at < Result /\ policy \in {"async", "deferred"}
      /\ policy = "async" => Result = depth + 1 /\ depth \in {0, 1}
      /\ policy = "deferred" => Result = depth
  BY ConfigFacts DEF Working, ReaderOK, ShortChains, Types
<1>2. CASE at + 1 = Result /\ policy = "async"
  BY <1>2
<1>3. CASE ~(at + 1 = Result /\ policy = "async")
  <2>1. at + 1 \in 1 .. depth
    BY <1>1, <1>3
  <2>2. queue[at + 1] = <<>>
    <3>1. CASE policy = "deferred"
      BY <1>1, <2>1, <3>1 DEF WayInv, NothingOnTheWay
    <3>2. CASE policy = "async"
      BY <1>1, <2>1, <3>2 DEF WayInv, NothingOnTheWayToThread
    <3> QED BY <1>1, <3>1, <3>2
  <2>3. Len(<<>>) = 0
    OBVIOUS
  <2> QED BY <2>1, <2>2, <2>3 DEF HasRoom, Capacity
<1> QED BY <1>2, <1>3

LEMMA CallKeeps ==
  ASSUME Types, Types', Working, HandClear, CallAndPush, HasRoom(at + 1), NEW id \in Nat \ {0}, OnItsWay(id)
  PROVE  OnItsWayNext(id)
<1> USE DEF config
<1>1. /\ UNCHANGED <<config, results>> /\ tpc = "call" /\ queue' = Pushed(at + 1, Output(Input))
      /\ IF void[at] THEN tpc' = "wait" ELSE tpc' = "pop" /\ at' = at
      /\ at + 1 \in 0 .. Result /\ at \in 0 .. Result /\ at \in Nat /\ Output(Input) \in RealItem
      /\ ~void[at] => queue[at] # <<>>
  BY InputFacts DEF CallAndPush
<1>2. Output(Input).id = Input.id
  BY InputFacts, <1>1 DEF Output, RealItem, Item
<1>3. \A j \in Stations : Front(j) = 1 /\ Front(j)' = IF ~void[at] /\ j = at THEN 2 ELSE 1
  BY <1>1 DEF Front
<1>4. /\ \A j \in Stations : \A n \in DOMAIN Line[j] : n \in DOMAIN Line'[j] /\ Line'[j][n] = Line[j][n]
      /\ \E n \in DOMAIN Line'[at + 1] : n = Len(queue[at + 1]) + 1 /\ Line'[at + 1][n] = Output(Input)
  BY <1>1, KeptPush
<1>5. Input.id = id => OnItsWayNext(id)
  <2> SUFFICES ASSUME Input.id = id PROVE OnItsWayNext(id)
    OBVIOUS
  <2>1. PICK k \in Stations : k = at + 1
    BY <1>1, ConfigFacts DEF Stations
  <2>2. PICK n \in DOMAIN Line'[k] : Line'[k][n] = Output(Input)
    BY <1>4, <2>1
  <2>3. n >= Front(k)'
    BY <1>1, <1>3, <2>1, LineNext
  <2> QED BY <1>2, <2>2, <2>3 DEF OnItsWayNext
<1>6. CASE void[at]
  <2>1. v.id = id => Input.id = id
    BY <1>6 DEF Input
  <2>2. \A j \in Stations : Front(j)' = Front(j)
    BY <1>3, <1>6
  <2> QED BY <1>4, <1>5, <2>1, <2>2 DEF OnItsWay, OnItsWayNext
<1>7. CASE ~void[at]
  <2>1. v.id = 0
    BY <1>7 DEF HandClear
  <2>2. ASSUME NEW k \in Stations, NEW n \in DOMAIN Line[k], Line[k][n].id = id PROVE OnItsWayNext(id)
    <3>1. n \in Nat \ {0} /\ n \in DOMAIN Line'[k] /\ Line'[k][n] = Line[k][n]
      BY <1>4, LineTypes DEF LineOK
    <3>2. CASE k = at /\ n = 1
      <4>1. Input = Line[k][n]
        <5>1. Line[k] = queue[at] /\ queue[at] \in Seq(RealItem)
          BY <1>1, <3>2, LineTypes DEF LineOK, Types, QueuesOK
        <5>2. Head(queue[at]) = queue[at][1]
          BY <1>1, <1>7, <5>1
        <5> QED BY <1>7, <3>2, <5>1, <5>2 DEF Input
      <4> QED BY <1>5, <2>2, <4>1
    <3>3. CASE ~(k = at /\ n = 1)
      <4>1. n >= Front(k)'
        BY <1>3, <3>1, <3>3
      <4> QED BY <2>2, <3>1, <4>1 DEF OnItsWayNext
    <3> QED BY <3>2, <3>3
  <2> QED BY <2>1, <2>2 DEF OnItsWay
<1> QED BY <1>6, <1>7

LEMMA EscapeKeeps ==
  ASSUME Types, Types', Working, Escape, NEW id \in Nat \ {0}, OnItsWay(id)
  PROVE  OnItsWayNext(id)
<1> USE DEF config
<1>1. /\ UNCHANGED <<config, queue>> /\ tpc = "call" /\ tpc' = "idle" /\ void[at]
      /\ results' = Append(results, Output(Input)) /\ Output(Input) \in Item /\ Output(Input).id = v.id
  <2>1. tpc = "call" /\ void[at] /\ Input = v
    BY DEF Escape, Escapes, Input
  <2>2. Output(Input) \in Item /\ v \in Item
    BY <2>1, InputFacts DEF RealItem, Types
  <2>3. Output(Input).id = v.id
    BY <2>1, <2>2 DEF Output, Item
  <2> QED BY <2>1, <2>2, <2>3 DEF Escape, ReturnFromCall
<1>2. \A j \in Stations : Front(j) = 1 /\ Front(j)' = 1
  BY <1>1 DEF Front
<1>3. PICK k \in Stations : k = Result + 1
  BY ConfigFacts DEF Stations
<1>4. PICK m \in DOMAIN Line'[k] : Line'[k][m] = Output(Input)
  BY <1>1, <1>3, KeptResults
<1>5. m >= Front(k)'
  BY <1>1, <1>2, LineNext
<1>6. v.id = id => OnItsWayNext(id)
  BY <1>1, <1>4, <1>5 DEF OnItsWayNext
<1>7. \A j \in Stations : \A n \in DOMAIN Line[j] : n \in DOMAIN Line'[j] /\ Line'[j][n] = Line[j][n]
  <2> SUFFICES ASSUME NEW j \in Stations, NEW n \in DOMAIN Line[j]
               PROVE  n \in DOMAIN Line'[j] /\ Line'[j][n] = Line[j][n]
    OBVIOUS
  <2>1. CASE j \in 0 .. Result
    <3>1. Line'[j] = Line[j]
      BY <1>1, <2>1, LineTypes, LineNext DEF LineOK
    <3> QED BY <3>1
  <2>2. CASE j = Result + 1
    BY <1>1, <2>2, KeptResults
  <2> QED BY <2>1, <2>2, ConfigFacts DEF Stations
<1>8. ASSUME NEW j \in Stations, NEW n \in DOMAIN Line[j], n >= Front(j), Line[j][n].id = id PROVE OnItsWayNext(id)
  BY <1>2, <1>7, <1>8 DEF OnItsWayNext
<1> QED BY <1>6, <1>8 DEF OnItsWay

LEMMA CatchKeeps ==
  ASSUME Types, Types', Working, NothingOnTheWay, NEW k \in Catchers, CatchAbove(k),
         NEW id \in Nat \ {0}, OnItsWay(id)
  PROVE  OnItsWayNext(id)
<1>1. /\ k + 1 \in 0 .. Result /\ k + 1 \in Stations /\ void[at] /\ tpc = "call" /\ tpc' = "wait"
      /\ queue' = Pushed(k + 1, Output(Input)) /\ UNCHANGED <<config, results>> /\ HasRoom(k + 1)
  BY CatchPlace
<1>2. Output(Input) \in RealItem /\ Output(Input).id = v.id
  <2>1. Input = v /\ v \in RealItem /\ Output(Input) \in RealItem
    BY <1>1, InputFacts DEF Input, Types
  <2> QED BY <2>1 DEF Output, RealItem, Item
<1>3. \A j \in Stations : Front(j) = 1 /\ Front(j)' = 1
  BY <1>1 DEF Front
<1>4. /\ \A j \in Stations : \A n \in DOMAIN Line[j] : n \in DOMAIN Line'[j] /\ Line'[j][n] = Line[j][n]
      /\ \E n \in DOMAIN Line'[k + 1] : Line'[k + 1][n] = Output(Input)
  BY <1>1, <1>2, KeptPush
<1>5. v.id = id => OnItsWayNext(id)
  <2>1. PICK j \in Stations : j = k + 1
    BY <1>1
  <2>2. PICK n \in DOMAIN Line'[j] : Line'[j][n] = Output(Input)
    BY <1>4, <2>1
  <2>3. n >= Front(j)'
    BY <1>1, <1>3, LineNext
  <2> QED BY <1>2, <2>2, <2>3 DEF OnItsWayNext
<1>6. ASSUME NEW j \in Stations, NEW n \in DOMAIN Line[j], n >= Front(j), Line[j][n].id = id PROVE OnItsWayNext(id)
  BY <1>3, <1>4, <1>6 DEF OnItsWayNext
<1> QED BY <1>5, <1>6 DEF OnItsWay

-----------------------------------------------------------------------------
(* The queue before the internal thread, and the element in its hand.         *)

LEMMA ToThreadStays ==
  ASSUME Types, Working, NothingOnTheWayToThread, Next, UNCHANGED config
  PROVE  NothingOnTheWayToThread'
<1> SUFFICES ASSUME policy = "async", depth = 1
             PROVE  queue'[1] # <<>> => \/ tpc' \in {"release", "flags", "exited", "aborted", "pop"}
                                        \/ tpc' = "wait" /\ at' = 1
                                        \/ tpc' = "call" /\ at' = 1 /\ ~void[1]
  BY DEF NothingOnTheWayToThread, config
<1> USE DEF reader
<1>0. /\ Result = 2 /\ at \in {0, 1} /\ call = "none" /\ tpc # "idle" /\ {0, 1, 2} \subseteq 0 .. Result
      /\ queue[1] \in Seq(RealItem) /\ Len(queue[1]) <= 1
  <2>1. Result = 2 /\ at \in {0, 1} /\ {0, 1, 2} \subseteq 0 .. Result
    BY ConfigFacts
  <2>2. call = "none" /\ tpc # "idle"
    BY DEF Working, ReaderOK
  <2>3. Capacity(1) = 1
    BY DEF Capacity
  <2>4. queue[1] \in Seq(RealItem) /\ Len(queue[1]) <= Capacity(1)
    BY <2>1 DEF Types, QueuesOK
  <2> QED BY <2>1, <2>2, <2>3, <2>4
<1>1. ASSUME queue[1] # <<>>, queue' = Popped(1) PROVE queue'[1] = <<>>
  <2>1. queue'[1] = Tail(queue[1])
    BY <1>0, <1>1 DEF Popped, Types, QueuesOK
  <2>2. Tail(queue[1]) \in Seq(RealItem) /\ Len(Tail(queue[1])) = Len(queue[1]) - 1
    BY <1>0, <1>1, TailFacts
  <2>3. Len(Tail(queue[1])) = 0
    <3>1. Len(Tail(queue[1])) \in Nat /\ Len(queue[1]) \in Nat
      BY <1>0, <2>2
    <3>2. \A a, b \in Nat : a <= 1 /\ b = a - 1 => b = 0
      OBVIOUS
    <3> QED BY <1>0, <2>2, <3>1, <3>2
  <2>4. \A s \in Seq(RealItem) : Len(s) = 0 => s = <<>>
    OBVIOUS
  <2> QED BY <2>1, <2>2, <2>3, <2>4
<1>2. ASSUME NEW k \in {0, 2}, queue[k] # <<>>, queue' = Popped(k) PROVE queue'[1] = queue[1]
  BY <1>0, <1>2, PoppedFacts
<1>3. ASSUME NEW k \in {0, 2}, NEW x \in RealItem, queue' = Pushed(k, x) PROVE queue'[1] = queue[1]
  BY <1>0, <1>3, PushedFacts
<1>4. OuterStep \/ ReaderStep \/ \E u \in Users : Release(u) \/ FreeStep(u) \/ \E w \in Users : Copy(u, w)
  BY DEF Next, OuterStep
<1>5. CASE OuterStep
  <2>1. ASSUME NEW kind \in {"value", "exception"}, Push(kind) PROVE queue'[1] = queue[1] /\ UNCHANGED <<tpc, at>>
    <3> DEFINE x == [kind |-> kind, id |-> Len(sent) + 1]
    <3>1. x \in RealItem
      BY DEF RealItem, Item, Types
    <3> QED BY <1>3, <2>1, <3>1 DEF Push
  <2>2. PopResult => queue'[1] = queue[1] /\ UNCHANGED <<tpc, at>>
    BY <1>0, <1>2 DEF PopResult
  <2>3. PopLeftOver => tpc' = "exited"
    BY DEF PopLeftOver
  <2>4. ASSUME ThenAgain PROVE queue'[1] # <<>> => tpc' = "wait" /\ at' = 1
    <3>1. queue'[1] = queue[1] /\ tpc' = "wait" /\ at' = Start
      BY <1>0, <2>4 DEF ThenAgain, Types, QueuesOK
    <3>2. queue[1] # <<>> => Start = 1
      <4> SUFFICES ASSUME queue[1] # <<>> PROVE Start = 1
        OBVIOUS
      <4>1. {0} \cup Remaining \in SUBSET (0 .. depth) /\ 1 \in Remaining
        BY <1>0 DEF Remaining
      <4>2. Start \in 0 .. depth /\ Start >= 1
        BY <4>1, GreatestBelow DEF Start
      <4> QED BY <4>2
    <3> QED BY <3>1, <3>2
  <2>5. ThenReturns => UNCHANGED <<queue, tpc, at>>
    BY DEF ThenReturns
  <2>6. \A f \in {"pop", "pop_wait", "empty", "wait"} : ~BeginCall(f)
    BY DEF BeginCall
  <2> QED BY <1>5, <2>1, <2>2, <2>3, <2>4, <2>5, <2>6 DEF OuterStep, NothingOnTheWayToThread
<1>6. CASE ReaderStep
  <2>1. ASSUME WaitInput PROVE queue'[1] # <<>> => tpc' = "call" /\ at' = 1 /\ ~void[1]
    <3>1. tpc = "wait" /\ at' = at /\ tpc' = "call" /\ queue[at] # <<>>
          /\ IF void[at] THEN queue' = Popped(at) ELSE queue' = queue
      BY <2>1 DEF WaitInput
    <3>2. CASE at = 0
      BY <1>2, <3>1, <3>2 DEF NothingOnTheWayToThread
    <3>3. CASE at = 1
      BY <1>1, <3>1, <3>3
    <3> QED BY <1>0, <3>2, <3>3
  <2>2. ASSUME CallAndPush PROVE queue'[1] # <<>> => tpc' = "pop" \/ (tpc' = "wait" /\ at' = 1)
    <3>1. /\ tpc = "call" /\ queue' = Pushed(at + 1, Output(Input)) /\ Output(Input) \in RealItem
          /\ IF void[at] THEN tpc' = "wait" /\ at' = Forward(at) ELSE tpc' = "pop"
      BY <2>2, InputFacts DEF CallAndPush
    <3>2. CASE at = 0
      BY <3>1, <3>2 DEF Forward
    <3>3. CASE at = 1
      <4>1. queue'[1] = queue[1]
        BY <1>3, <3>1, <3>3
      <4> QED BY <3>1, <3>3, <4>1 DEF NothingOnTheWayToThread
    <3> QED BY <1>0, <3>2, <3>3
  <2>3. ASSUME PopInput PROVE queue'[1] # <<>> => tpc' = "wait" /\ at' = 1
    <3>1. tpc' = "wait" /\ at' = Forward(at) /\ queue' = Popped(at) /\ queue[at] # <<>>
      BY <2>3 DEF PopInput, Working, ReaderOK
    <3>2. CASE at = 0
      BY <3>1, <3>2 DEF Forward
    <3>3. CASE at = 1
      BY <1>1, <3>1, <3>3
    <3> QED BY <1>0, <3>2, <3>3
  <2>4. ~EndCall /\ ~Escape /\ ~FindNothing /\ \A k \in Catchers : ~CatchAbove(k)
    BY <1>0 DEF EndCall, Escape, CatchAbove, Escapes, FindNothing, Polling
  <2>5. Leave \/ ThreadRelease \/ ThreadExit \/ ThreadAborts => tpc' \in {"release", "flags", "exited", "aborted"}
    BY DEF Leave, ThreadRelease, ThreadExit, ThreadAborts, Abort
  <2> QED BY <1>6, <2>1, <2>2, <2>3, <2>4, <2>5 DEF ReaderStep
<1>7. ASSUME NEW u \in Users, Release(u) \/ FreeStep(u) \/ \E w \in Users : Copy(u, w)
      PROVE  \/ queue'[1] = queue[1] /\ UNCHANGED <<tpc, at>>
             \/ tpc' = "aborted"
  <2>1. CASE PushTermination(u)
    <3>1. TerminationTarget = 0
      BY DEF TerminationTarget
    <3> QED BY <1>3, <2>1, <3>1, TerminateType DEF PushTermination
  <2>2. CASE ~PushTermination(u)
    BY <1>7, <2>2 DEF Release, FreeStep, Copy, TestFlags, ClearFunctions, TestTerminated, Delete, AssertionFails, Abort
  <2> QED BY <2>1, <2>2
<1> QED BY <1>4, <1>5, <1>6, <1>7 DEF NothingOnTheWayToThread

LEMMA HandStaysClear ==
  ASSUME Types, Working, HandClear, Next, UNCHANGED config
  PROVE  HandClear'
<1> USE DEF reader, HandClear, config
<1>0. Terminate.id = 0
  BY DEF Terminate
<1>4. OuterStep \/ ReaderStep \/ \E u \in Users : Release(u) \/ FreeStep(u) \/ \E w \in Users : Copy(u, w)
  BY DEF Next, OuterStep
<1>5. CASE OuterStep
  <2>1. v' = Terminate \/ (v' = v /\ (UNCHANGED <<tpc, at>> \/ tpc = "idle"))
    BY <1>5 DEF OuterStep, Push, PopResult, PopLeftOver, ThenAgain, ThenReturns, BeginCall, Working, ReaderOK
  <2> QED BY <1>0, <2>1
<1>6. CASE ReaderStep
  <2>1. CASE WaitInput
    <3>1. tpc = "wait" /\ tpc' = "call" /\ at' = at /\ (~void[at] => v' = v)
      BY <2>1 DEF WaitInput
    <3> QED BY <3>1
  <2>2. CASE Leave
    <3>1. tpc = "call" /\ v' = v /\ Input.kind = "terminate"
      BY <2>2 DEF Leave, Ends
    <3>2. v.id = 0
      <4>1. CASE void[at]
        BY <3>1, <4>1 DEF Input, Types, RealItem
      <4>2. CASE ~void[at]
        BY <4>2
      <4> QED BY <4>1, <4>2
    <3> QED BY <3>1, <3>2
  <2>3. CASE CallAndPush \/ EndCall \/ Escape \/ FindNothing \/ (\E k \in Catchers : CatchAbove(k))
    <3>1. v' = Terminate
      BY <2>3 DEF CallAndPush, EndCall, Escape, CatchAbove, FindNothing, ReturnFromCall
    <3> QED BY <1>0, <3>1
  <2>4. CASE PopInput \/ ThreadRelease \/ ThreadExit \/ ThreadAborts
    <3>1. v' = v /\ tpc # "call"
      BY <2>4 DEF PopInput, ThreadRelease, ThreadExit, ThreadAborts
    <3> QED BY <3>1
  <2> QED BY <1>6, <2>1, <2>2, <2>3, <2>4 DEF ReaderStep
<1>7. ASSUME NEW u \in Users, Release(u) \/ FreeStep(u) \/ \E w \in Users : Copy(u, w) PROVE HandClear'
  <2>1. CASE AssertionFails(u)
    <3>1. policy = "async"
      <4>1. Aborted'
        BY <2>1, AbortsWhenStale
      <4>2. stale
        BY <2>1, <4>1 DEF Aborted, AssertionFails, again
      <4> QED BY <4>2 DEF Working, LifeOK
    <3>2. v' = v /\ tpc # "call"
      BY <2>1, <3>1 DEF AssertionFails, Joinable
    <3> QED BY <3>2
  <2>2. CASE ~AssertionFails(u)
    <3>1. UNCHANGED <<tpc, at, v>>
      BY <1>7, <2>2 DEF Release, FreeStep, Copy, TestFlags, ClearFunctions, TestTerminated, PushTermination, Delete
    <3> QED BY <3>1
  <2> QED BY <2>1, <2>2
<1> QED BY <1>4, <1>5, <1>6, <1>7

LostInv == OrderInvariant /\ WayInv

LEMMA LostInit == Init => LostInv
<1> SUFFICES ASSUME Init PROVE LostInv
  OBVIOUS
<1>1. Types /\ OrderInvariant
  BY LifeInit, OrderInit DEF OrderInvariant, LifeInv
<1>2. policy = "async" /\ depth = 1 => queue[1] = <<>>
  BY <1>1, ConfigFacts DEF Init
<1>3. v.id = 0
  BY DEF Init, Terminate
<1> QED BY <1>1, <1>2, <1>3 DEF LostInv, WayInv, OrderInvariant, NothingOnTheWayToThread, HandClear

LEMMA LostStays == LostInv /\ [Next]_vars => LostInv'
<1> SUFFICES ASSUME LostInv, [Next]_vars PROVE LostInv'
  OBVIOUS
<1>1. OrderInvariant /\ OrderInvariant' /\ Types
  BY OrderStays DEF LostInv, OrderInvariant, LifeInv
<1>2. CASE UNCHANGED vars
  BY <1>1, <1>2 DEF LostInv, WayInv, OrderInvariant, NothingOnTheWayToThread, HandClear, vars, config, reader
<1>3. CASE Next
  <2>1. Working
    BY <1>3, AbortedEnds DEF LostInv, OrderInvariant, LifeInv
  <2>2. UNCHANGED config
    <3>1. TypesNext
      BY <1>1, <1>3, <2>1, OuterTypes, ReaderTypes, UserTypes DEF Next, OuterStep
    <3> QED BY <3>1 DEF TypesNext
  <2> QED BY <1>1, <1>3, <2>1, <2>2, ToThreadStays, HandStaysClear DEF LostInv, WayInv, OrderInvariant
<1> QED BY <1>2, <1>3

LEMMA NothingLost ==
  ASSUME Types, Types', Working, WayInv, ShortChains, Next, UNCHANGED config,
         ~deleted, policy = "async" => HasRoom(Result), NEW id \in Nat \ {0}, OnItsWay(id)
  PROVE  OnItsWayNext(id)
<1> USE DEF origin, reader
<1>0. HandClear /\ ReaderOK
  BY DEF WayInv, Working
<1>1. OuterStep \/ ReaderStep \/ \E u \in Users : Release(u) \/ FreeStep(u) \/ \E w \in Users : Copy(u, w)
  BY DEF Next, OuterStep
<1>2. ASSUME UNCHANGED <<queue, results>>, UNCHANGED <<tpc, at>> \/ (tpc # "pop" /\ tpc' # "pop"), v' = v \/ v.id = 0
      PROVE  OnItsWayNext(id)
  <2>1. \A j \in Stations : Front(j)' = Front(j)
    BY <1>2 DEF Front
  <2> QED BY <1>2, <2>1, QuietKeeps
<1>3. ASSUME NEW k \in 0 .. Result, NEW x \in RealItem, queue' = Pushed(k, x), UNCHANGED <<results, tpc, at, v>>
      PROVE  OnItsWayNext(id)
  <2>1. \A j \in Stations : Front(j)' = Front(j)
    BY <1>3 DEF Front
  <2> QED BY <1>3, <2>1, PushKeeps
<1>4. CASE OuterStep
  <2>1. ASSUME NEW kind \in {"value", "exception"}, Push(kind) PROVE OnItsWayNext(id)
    <3> DEFINE x == [kind |-> kind, id |-> Len(sent) + 1]
    <3>1. x \in RealItem /\ 0 \in 0 .. Result
      BY ConfigFacts, SMTT(30) DEF RealItem, Item, Types
    <3>2. queue' = Pushed(0, x) /\ UNCHANGED <<results, tpc, at, v>>
      BY <2>1 DEF Push
    <3> HIDE DEF x
    <3> QED BY <1>3, <3>1, <3>2
  <2>2. PopResult => OnItsWayNext(id)
    BY <1>0, ResultKeeps DEF PopResult
  <2>3. ~PopLeftOver /\ ~ThenAgain
    BY DEF PopLeftOver, ThenAgain
  <2>4. ThenReturns \/ (\E f \in {"pop", "pop_wait", "empty", "wait"} : BeginCall(f)) => OnItsWayNext(id)
    <3>1. ThenReturns => UNCHANGED <<queue, results, tpc, at, v>>
      BY DEF ThenReturns
    <3>2. (\E f \in {"pop", "pop_wait", "empty", "wait"} : BeginCall(f))
            => UNCHANGED <<queue, results, v>> /\ tpc # "pop" /\ tpc' # "pop"
      BY <1>0 DEF BeginCall, ReaderOK
    <3> QED BY <1>2, <3>1, <3>2
  <2> QED BY <1>4, <2>1, <2>2, <2>3, <2>4 DEF OuterStep
<1>5. CASE ReaderStep
  <2>1. CallAndPush => OnItsWayNext(id)
    <3>1. CallAndPush => tpc = "call"
      BY DEF CallAndPush
    <3> QED BY <1>0, <3>1, RoomAhead, CallKeeps
  <2>2. EndCall => OnItsWayNext(id)
    <3> SUFFICES ASSUME EndCall PROVE OnItsWayNext(id)
      OBVIOUS
    <3>1. tpc = "wait" /\ tpc' = "idle" /\ v.id = 0 /\ at = Result /\ policy = "deferred"
      BY <1>0, ConfigFacts DEF EndCall, ReturnFromCall, HandClear, ReaderOK
    <3>2. queue[Result] # <<>>
      BY <1>0, <3>1 DEF ReaderOK
    <3>3. \/ results' = Append(results, Head(queue[Result])) /\ queue' = Popped(Result)
          \/ UNCHANGED <<queue, results>>
      BY DEF EndCall
    <3> QED BY <1>0, <1>2, <3>1, <3>2, <3>3, ResultKeeps
  <2>3. FindNothing \/ Leave \/ ThreadRelease \/ ThreadExit \/ ThreadAborts => OnItsWayNext(id)
    <3> SUFFICES ASSUME FindNothing \/ Leave \/ ThreadRelease \/ ThreadExit \/ ThreadAborts PROVE OnItsWayNext(id)
      OBVIOUS
    <3>1. UNCHANGED <<queue, results>> /\ tpc # "pop" /\ tpc' # "pop"
      BY DEF FindNothing, ReturnFromCall, Leave, ThreadRelease, ThreadExit, ThreadAborts, Abort
    <3>2. v' = v \/ v.id = 0
      BY <1>0 DEF FindNothing, Leave, ThreadRelease, ThreadExit, ThreadAborts, HandClear
    <3> QED BY <1>2, <3>1, <3>2
  <2>4. WaitInput \/ PopInput \/ Escape => OnItsWayNext(id)
    BY <1>0, WaitKeeps, PopInputKeeps, EscapeKeeps
  <2>5. (\E k \in Catchers : CatchAbove(k)) => OnItsWayNext(id)
    BY CatchKeeps DEF WayInv
  <2> QED BY <1>5, <2>1, <2>2, <2>3, <2>4, <2>5 DEF ReaderStep
<1>6. ASSUME NEW u \in Users, Release(u) \/ FreeStep(u) \/ \E w \in Users : Copy(u, w) PROVE OnItsWayNext(id)
  <2>1. CASE PushTermination(u)
    <3>1. TerminationTarget \in 0 .. Result
      BY ConfigFacts DEF TerminationTarget
    <3> QED BY <1>3, <2>1, <3>1, TerminateType DEF PushTermination
  <2>2. CASE AssertionFails(u)
    <3>1. policy = "async"
      <4>1. Aborted'
        BY <2>2, AbortsWhenStale
      <4>2. stale
        BY <2>2, <4>1 DEF Aborted, AssertionFails, again
      <4> QED BY <4>2 DEF Working, LifeOK
    <3> QED BY <1>2, <2>2, <3>1 DEF AssertionFails, Joinable, Abort
  <2>3. CASE ~PushTermination(u) /\ ~AssertionFails(u)
    BY <1>2, <1>6, <2>3 DEF Release, FreeStep, Copy, TestFlags, ClearFunctions, TestTerminated, Delete
  <2> QED BY <2>1, <2>2, <2>3
<1> QED BY <1>1, <1>4, <1>5, <1>6

(* An element that went in is lost only on a full result queue, or when the    *)
(* result queue is gone: not in the queue of a deferred continuation, by an    *)
(* exception, or by the termination of the thread.                            *)
THEOREM NoElementLost == ASSUME ShortChains PROVE Spec => LostOnlyAtFullResult
<1> DEFINE Lost == \E id \in DOMAIN sent : id \in Underway /\ id \notin Underway'
           Allowed == deleted \/ (policy = "async" /\ ~HasRoom(Result))
<1>1. Spec => []LostInv
  BY LostInit, LostStays, PTL DEF Spec
<1>2. LostInv /\ LostInv' /\ [Next]_vars => [Lost => Allowed]_vars
  <2> SUFFICES ASSUME LostInv, LostInv', Next, NEW id \in DOMAIN sent, id \in Underway, ~Allowed
               PROVE  id \in Underway'
    OBVIOUS
  <2>1. LifeInv /\ LifeInv' /\ WayInv
    BY DEF LostInv, OrderInvariant
  <2>2. Types /\ Types' /\ Working
    BY <2>1, AbortedEnds DEF LifeInv
  <2>3. UNCHANGED config
    <3>1. TypesNext
      BY <2>2, OuterTypes, ReaderTypes, UserTypes DEF Next, OuterStep
    <3> QED BY <3>1 DEF TypesNext
  <2>4. id \in Nat \ {0}
    BY <2>2 DEF Types
  <2>5. OnItsWay(id)
    BY <2>2, UnderwayMeans DEF Working, ReaderOK
  <2>6. OnItsWayNext(id)
    BY <2>1, <2>2, <2>3, <2>4, <2>5, NothingLost
  <2>7. OnItsWay(id)'
    BY <2>3, <2>6, StationsStay DEF OnItsWay, OnItsWayNext
  <2>8. tpc' = "pop" => queue'[at'] # <<>>
    BY <2>1 DEF LifeInv, Working, Aborted, ReaderOK
  <2> QED BY <2>2, <2>7, <2>8, UnderwayMeansNext
<1> QED BY <1>1, <1>2, PTL DEF Spec, LostOnlyAtFullResult
=============================================================================
