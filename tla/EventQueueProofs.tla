-------------------------- MODULE EventQueueProofs --------------------------
(***************************************************************************)
(* Proofs about EventQueue, for any finite set of elements and any events. *)
(*                                                                         *)
(* The inductive invariant IInv adds to the type invariant and to element  *)
(* conservation what the program counter promises about the element and    *)
(* the event in hand, and the count of the elements, from which the        *)
(* refinement learns when the queue is full.                               *)
(***************************************************************************)
EXTENDS EventQueue, FiniteSetTheorems, SequenceTheorems, TLAPS

HeldCount == IF app.pc \in {"got", "fill"} THEN 1 ELSE 0

PcInv ==
  /\ app.pc \in {"get", "got", "put", "fill"} => app.e \in Elem
  /\ app.pc \in {"puthead", "put", "fill"} => app.ev \in Event
  /\ app.pc \in {"idle", "gethead", "get", "got"} => app.ev = NoEvent

CountInv ==
  Len(gEventsFreeQueue) + Len(gEventsQueue) + HeldCount = Cardinality(Elem)

FilledInv == \A i \in 1..Len(gEventsQueue) : fields[gEventsQueue[i]] \in Event

IInv ==
  /\ TypeOK
  /\ ElementsConserved
  /\ HeadIsStable
  /\ PcInv
  /\ CountInv
  /\ FilledInv
  /\ app.pc = "got" => fields[app.e] \in Event

-----------------------------------------------------------------------------
(* Dequeue removes exactly its element from a queue without repetitions,   *)
(* and keeps the others in their order.                                    *)
LEMMA DequeueLemma ==
  ASSUME NEW q \in Seq(Elem), NEW e \in Elem, Distinct(q), IsIn(e, q)
  PROVE  /\ Dequeue(q, e) \in Seq(Elem)
         /\ Len(Dequeue(q, e)) = Len(q) - 1
         /\ Distinct(Dequeue(q, e))
         /\ \A x : IsIn(x, Dequeue(q, e)) <=> IsIn(x, q) /\ x # e
<1> DEFINE k == CHOOSE i \in 1..Len(q) : q[i] = e
           d == [i \in 1..(Len(q) - 1) |-> IF i < k THEN q[i] ELSE q[i + 1]]
<1>1. k \in 1..Len(q) /\ q[k] = e
  BY DEF IsIn
<1>2. Len(q) \in Nat /\ Len(q) >= 1 /\ Len(q) - 1 \in Nat
  BY <1>1
<1>3. \A i \in 1..(Len(q) - 1) : d[i] \in Elem
  BY <1>1, <1>2
<1> HIDE DEF k
<1>4. d \in [1..(Len(q) - 1) -> Elem]
  BY <1>3
<1>5. d \in Seq(Elem) /\ Len(d) = Len(q) - 1
  BY <1>2, <1>4, LenProperties
<1>6. Distinct(d)
  <2> SUFFICES ASSUME NEW i \in 1..(Len(q) - 1), NEW j \in 1..(Len(q) - 1), d[i] = d[j]
               PROVE  i = j
    BY <1>5 DEF Distinct
  <2>1. (IF i < k THEN q[i] ELSE q[i + 1]) = (IF j < k THEN q[j] ELSE q[j + 1])
    OBVIOUS
  <2> QED
    BY <2>1, <1>1, <1>2 DEF Distinct
<1>7. ASSUME NEW x PROVE IsIn(x, d) <=> IsIn(x, q) /\ x # e
  <2>1. ASSUME IsIn(x, d) PROVE IsIn(x, q) /\ x # e
    <3>1. PICK i \in 1..(Len(q) - 1) : d[i] = x
      BY <2>1, <1>5 DEF IsIn
    <3>2. x = IF i < k THEN q[i] ELSE q[i + 1]
      BY <3>1
    <3> QED
      BY <3>2, <1>1, <1>2 DEF IsIn, Distinct
  <2>2. ASSUME IsIn(x, q), x # e PROVE IsIn(x, d)
    <3>1. PICK i \in 1..Len(q) : q[i] = x
      BY <2>2 DEF IsIn
    <3>2. i # k
      BY <3>1, <2>2, <1>1
    <3>3. CASE i < k
      <4>1. i \in 1..(Len(q) - 1) /\ d[i] = x
        BY <3>3, <3>1, <1>1, <1>2
      <4> QED
        BY <4>1, <1>5 DEF IsIn
    <3>4. CASE i > k
      <4>1. i - 1 \in 1..(Len(q) - 1) /\ ~(i - 1 < k) /\ (i - 1) + 1 = i
        BY <3>4, <3>1, <1>1, <1>2
      <4>2. d[i - 1] = x
        BY <4>1, <3>1
      <4> QED
        BY <4>1, <4>2, <1>5 DEF IsIn
    <3> QED
      BY <3>2, <3>3, <3>4, <1>1
  <2> QED
    BY <2>1, <2>2
<1>8. Dequeue(q, e) = d
  BY DEF Dequeue, k
<1> HIDE DEF d
<1> QED
  BY <1>5, <1>6, <1>7, <1>8

(* Enqueue adds its element at the end and keeps a queue that did not hold *)
(* it free of repetitions.                                                 *)
LEMMA EnqueueLemma ==
  ASSUME NEW q \in Seq(Elem), NEW e \in Elem, Distinct(q), ~IsIn(e, q)
  PROVE  /\ Enqueue(q, e) \in Seq(Elem)
         /\ Len(Enqueue(q, e)) = Len(q) + 1
         /\ \A i \in 1..Len(q) : Enqueue(q, e)[i] = q[i]
         /\ Enqueue(q, e)[Len(q) + 1] = e
         /\ Distinct(Enqueue(q, e))
         /\ \A x : IsIn(x, Enqueue(q, e)) <=> IsIn(x, q) \/ x = e
<1> DEFINE d == Append(q, e)
<1>1. /\ d \in Seq(Elem)
      /\ Len(d) = Len(q) + 1
      /\ \A i \in 1..Len(q) : d[i] = q[i]
      /\ d[Len(q) + 1] = e
      /\ Len(q) \in Nat
  BY AppendProperties
<1> HIDE DEF d
<1>2. Distinct(d)
  BY <1>1 DEF Distinct, IsIn
<1>3. \A x : IsIn(x, d) <=> IsIn(x, q) \/ x = e
  BY <1>1 DEF IsIn
<1> QED
  BY <1>1, <1>2, <1>3 DEF Enqueue, d

-----------------------------------------------------------------------------
LEMMA InitInv == Init => IInv
<1> SUFFICES ASSUME Init PROVE IInv
  OBVIOUS
<1>1. Cardinality(Elem) \in Nat
  BY ElemAssumption, FS_CardinalityType
<1>2. gEventsFreeQueue \in Seq(Elem) /\ Len(gEventsFreeQueue) = Cardinality(Elem)
  BY <1>1, LenProperties DEF Init
<1>3. Len(gEventsQueue) = 0 /\ gEventsQueue \in Seq(Elem) /\ gEventsQueue = <<>>
  BY DEF Init
<1>4. app.pc = "idle" /\ app.e = NoElem /\ app.ev = NoEvent
  BY DEF Init, Idle
<1>5. TypeOK
  BY <1>2, <1>3 DEF Init, TypeOK, Idle
<1>6. ElementsConserved
  BY <1>2, <1>3, <1>4 DEF Init, ElementsConserved, Distinct, IsIn, Held
<1>7. CountInv
  BY <1>1, <1>2, <1>3, <1>4 DEF CountInv, HeldCount
<1> QED
  BY <1>3, <1>4, <1>5, <1>6, <1>7 DEF IInv, HeadIsStable, PcInv, FilledInv

(* The application level moves on without touching a queue or an element.  *)
LEMMA QuietStep ==
  ASSUME IInv, UNCHANGED <<gEventsFreeQueue, gEventsQueue, fields>>,
         gQueueError' \in BOOLEAN,
         app' \in [pc : {"idle", "gethead", "get", "puthead", "put"},
                   e : Elem \cup {NoElem}, ev : Event \cup {NoEvent}],
         app.pc \notin {"got", "fill"},
         PcInv', HeadIsStable'
  PROVE  IInv'
<1>1. Held = {} /\ Held' = {} /\ HeldCount = 0 /\ HeldCount' = 0
  BY DEF Held, HeldCount, IInv
<1>2. TypeOK'
  BY DEF IInv, TypeOK
<1>3. ElementsConserved'
  BY <1>1 DEF IInv, ElementsConserved, IsIn, Distinct
<1>4. CountInv' /\ FilledInv'
  BY <1>1 DEF IInv, CountInv, FilledInv
<1> QED
  BY <1>2, <1>3, <1>4 DEF IInv

LEMMA NextInv == IInv /\ [Next]_vars => IInv'
<1> SUFFICES ASSUME IInv, [Next]_vars PROVE IInv'
  OBVIOUS
<1> USE DEF IInv
<1>0. /\ Len(gEventsQueue) \in Nat
      /\ Len(gEventsFreeQueue) \in Nat
      /\ Cardinality(Elem) \in Nat
  BY ElemAssumption, FS_CardinalityType DEF TypeOK
<1>1. CASE GetCall
  BY <1>1, QuietStep DEF GetCall, TypeOK, PcInv, HeadIsStable
<1>2. CASE GetHead
  <2>1. gEventsQueue # <<>> => Head(gEventsQueue) \in Elem
    BY DEF TypeOK
  <2>2. app' \in [pc : {"idle", "gethead", "get", "puthead", "put"},
                  e : Elem \cup {NoElem}, ev : Event \cup {NoEvent}]
    BY <1>2, <2>1 DEF GetHead, Idle, TypeOK
  <2>3. PcInv' /\ HeadIsStable'
    BY <1>2, <2>1 DEF GetHead, Idle, PcInv, HeadIsStable
  <2> QED
    BY <1>2, <2>2, <2>3, QuietStep DEF GetHead, TypeOK
<1>3. CASE GetDequeue
  <2>1. app.e \in Elem /\ app.pc = "get" /\ app.ev = NoEvent
    BY <1>3 DEF GetDequeue, PcInv
  <2>2. /\ gEventsQueue # <<>>
        /\ app.e = gEventsQueue[1]
        /\ IsIn(app.e, gEventsQueue)
    BY <2>1, <1>0 DEF HeadIsStable, IsIn, TypeOK
  <2>3. /\ gEventsQueue' = Dequeue(gEventsQueue, app.e)
        /\ app' = [app EXCEPT !.pc = "got"]
        /\ UNCHANGED <<gEventsFreeQueue, fields, gQueueError>>
    BY <1>3, <2>2 DEF GetDequeue
  <2>4. /\ gEventsQueue' \in Seq(Elem)
        /\ Len(gEventsQueue') = Len(gEventsQueue) - 1
        /\ Distinct(gEventsQueue')
        /\ \A x : IsIn(x, gEventsQueue') <=> IsIn(x, gEventsQueue) /\ x # app.e
    BY <2>1, <2>2, <2>3, DequeueLemma DEF TypeOK, ElementsConserved
  <2>5. app'.pc = "got" /\ app'.e = app.e /\ app'.ev = NoEvent
    BY <2>1, <2>3 DEF TypeOK
  <2>6. TypeOK'
    BY <2>3, <2>4 DEF TypeOK
  <2>7. ElementsConserved'
    BY <2>1, <2>2, <2>3, <2>4, <2>5 DEF ElementsConserved, Held
  <2>8. CountInv'
    BY <1>0, <2>1, <2>3, <2>4, <2>5 DEF CountInv, HeldCount
  <2>9. FilledInv' /\ fields'[app'.e] \in Event
    <3>1. \A x : IsIn(x, gEventsQueue) => fields[x] \in Event
      BY DEF FilledInv, IsIn
    <3>2. \A i \in 1..Len(gEventsQueue') : IsIn(gEventsQueue'[i], gEventsQueue')
      BY DEF IsIn
    <3>3. \A i \in 1..Len(gEventsQueue') : fields[gEventsQueue'[i]] \in Event
      BY <3>1, <3>2, <2>4
    <3> QED
      BY <3>1, <3>3, <2>2, <2>3, <2>5 DEF FilledInv
  <2> QED
    BY <2>1, <2>5, <2>6, <2>7, <2>8, <2>9 DEF PcInv, HeadIsStable
<1>4. CASE GetRecycle
  <2>1. app.e \in Elem /\ app.pc = "got" /\ Held = {app.e}
    BY <1>4 DEF GetRecycle, PcInv, Held
  <2>2. ~IsIn(app.e, gEventsFreeQueue) /\ ~IsIn(app.e, gEventsQueue)
    BY <2>1 DEF ElementsConserved
  <2>3. /\ gEventsFreeQueue' \in Seq(Elem)
        /\ Len(gEventsFreeQueue') = Len(gEventsFreeQueue) + 1
        /\ Distinct(gEventsFreeQueue')
        /\ \A x : IsIn(x, gEventsFreeQueue') <=> IsIn(x, gEventsFreeQueue) \/ x = app.e
    BY <1>4, <2>1, <2>2, EnqueueLemma DEF GetRecycle, TypeOK, ElementsConserved
  <2>4. /\ app' = Idle
        /\ UNCHANGED <<gEventsQueue, fields, gQueueError>>
        /\ Held' = {}
    BY <1>4 DEF GetRecycle, Held, Idle
  <2>5. TypeOK'
    BY <2>3, <2>4 DEF TypeOK, Idle
  <2>6. ElementsConserved'
    BY <2>1, <2>2, <2>3, <2>4 DEF ElementsConserved
  <2>7. CountInv'
    BY <1>0, <2>1, <2>3, <2>4 DEF CountInv, HeldCount, Idle
  <2> QED
    BY <2>4, <2>5, <2>6, <2>7 DEF PcInv, HeadIsStable, FilledInv, Idle
<1>5. ASSUME NEW ev \in Event, PutCall(ev) PROVE IInv'
  BY <1>5, QuietStep DEF PutCall, TypeOK, PcInv, HeadIsStable
<1>6. CASE PutHead
  <2>1. gEventsFreeQueue # <<>> => Head(gEventsFreeQueue) \in Elem
    BY DEF TypeOK
  <2>2. app.pc = "puthead" /\ app.ev \in Event
    BY <1>6 DEF PutHead, PcInv
  <2>3. CASE gEventsFreeQueue = <<>>
    <3>1. app' = Idle /\ gQueueError' = TRUE
      BY <1>6, <2>3 DEF PutHead
    <3> QED
      BY <1>6, <3>1, <2>2, QuietStep DEF PutHead, Idle, TypeOK, PcInv, HeadIsStable
  <2>4. CASE gEventsFreeQueue # <<>>
    <3>1. /\ app' = [app EXCEPT !.pc = "put", !.e = Head(gEventsFreeQueue)]
          /\ gQueueError' = gQueueError
      BY <1>6, <2>4 DEF PutHead
    <3>2. app' = [pc |-> "put", e |-> Head(gEventsFreeQueue), ev |-> app.ev]
      BY <3>1 DEF TypeOK
    <3> HIDE DEF IInv
    <3> QED
      BY <1>6, <3>1, <3>2, <2>1, <2>2, <2>4, QuietStep
      DEF PutHead, TypeOK, PcInv, HeadIsStable, IInv
  <2> QED
    BY <2>3, <2>4
<1>7. CASE PutDequeue
  <2>1. app.e \in Elem /\ app.pc = "put" /\ app.ev \in Event
    BY <1>7 DEF PutDequeue, PcInv
  <2>2. CASE ~IsIn(app.e, gEventsFreeQueue)
    BY <1>7, <2>1, <2>2, QuietStep DEF PutDequeue, TypeOK, PcInv, HeadIsStable
  <2>3. CASE IsIn(app.e, gEventsFreeQueue)
    <3>1. /\ gEventsFreeQueue' = Dequeue(gEventsFreeQueue, app.e)
          /\ app' = [app EXCEPT !.pc = "fill"]
          /\ UNCHANGED <<gEventsQueue, fields, gQueueError>>
      BY <1>7, <2>3 DEF PutDequeue
    <3>2. /\ gEventsFreeQueue' \in Seq(Elem)
          /\ Len(gEventsFreeQueue') = Len(gEventsFreeQueue) - 1
          /\ Distinct(gEventsFreeQueue')
          /\ \A x : IsIn(x, gEventsFreeQueue')
                      <=> IsIn(x, gEventsFreeQueue) /\ x # app.e
      BY <2>1, <2>3, <3>1, DequeueLemma DEF TypeOK, ElementsConserved
    <3>3. app'.pc = "fill" /\ app'.e = app.e /\ app'.ev = app.ev
      BY <3>1 DEF TypeOK
    <3>4. TypeOK'
      BY <3>1, <3>2 DEF TypeOK
    <3>5. ElementsConserved'
      BY <2>1, <2>3, <3>1, <3>2, <3>3 DEF ElementsConserved, Held
    <3>6. CountInv'
      BY <1>0, <2>1, <3>1, <3>2, <3>3 DEF CountInv, HeldCount
    <3> QED
      BY <2>1, <3>1, <3>3, <3>4, <3>5, <3>6 DEF PcInv, HeadIsStable, FilledInv
  <2> QED
    BY <2>2, <2>3
<1>8. CASE PutFill
  <2>1. app.e \in Elem /\ app.pc = "fill" /\ app.ev \in Event /\ Held = {app.e}
    BY <1>8 DEF PutFill, PcInv, Held
  <2>2. ~IsIn(app.e, gEventsFreeQueue) /\ ~IsIn(app.e, gEventsQueue)
    BY <2>1 DEF ElementsConserved
  <2>3. /\ gEventsQueue' \in Seq(Elem)
        /\ Len(gEventsQueue') = Len(gEventsQueue) + 1
        /\ \A i \in 1..Len(gEventsQueue) : gEventsQueue'[i] = gEventsQueue[i]
        /\ gEventsQueue'[Len(gEventsQueue) + 1] = app.e
        /\ Distinct(gEventsQueue')
        /\ \A x : IsIn(x, gEventsQueue') <=> IsIn(x, gEventsQueue) \/ x = app.e
    BY <1>8, <2>1, <2>2, EnqueueLemma DEF PutFill, TypeOK, ElementsConserved
  <2>4. /\ app' = Idle
        /\ UNCHANGED <<gEventsFreeQueue, gQueueError>>
        /\ fields' = [fields EXCEPT ![app.e] = app.ev]
        /\ Held' = {}
    BY <1>8 DEF PutFill, Held, Idle
  <2>5. TypeOK'
    BY <2>1, <2>3, <2>4 DEF TypeOK, Idle
  <2>6. ElementsConserved'
    BY <2>1, <2>2, <2>3, <2>4 DEF ElementsConserved
  <2>7. CountInv'
    BY <1>0, <2>1, <2>3, <2>4 DEF CountInv, HeldCount, Idle
  <2>8. FilledInv'
    BY <1>0, <2>1, <2>2, <2>3, <2>4 DEF FilledInv, TypeOK, IsIn
  <2> QED
    BY <2>4, <2>5, <2>6, <2>7, <2>8 DEF PcInv, HeadIsStable, Idle
<1>9. ASSUME NEW ev \in Event, IntrPut(ev) PROVE IInv'
  <2>1. CASE gEventsFreeQueue = <<>>
    BY <1>9, <2>1 DEF IntrPut, TypeOK, ElementsConserved, Held, PcInv, HeadIsStable,
       CountInv, HeldCount, FilledInv
  <2>2. CASE gEventsFreeQueue # <<>>
    <3> DEFINE e == Head(gEventsFreeQueue)
    <3>1. e \in Elem /\ IsIn(e, gEventsFreeQueue)
      BY <2>2, <1>0 DEF TypeOK, IsIn
    <3>2. ~IsIn(e, gEventsQueue) /\ e \notin Held
      BY <3>1 DEF ElementsConserved
    <3> HIDE DEF e
    <3>3. /\ gEventsFreeQueue' = Dequeue(gEventsFreeQueue, e)
          /\ fields' = [fields EXCEPT ![e] = ev]
          /\ gEventsQueue' = Enqueue(gEventsQueue, e)
          /\ UNCHANGED <<gQueueError, app>>
      BY <1>9, <2>2 DEF IntrPut, e
    <3>4. /\ gEventsFreeQueue' \in Seq(Elem)
          /\ Len(gEventsFreeQueue') = Len(gEventsFreeQueue) - 1
          /\ Distinct(gEventsFreeQueue')
          /\ \A x : IsIn(x, gEventsFreeQueue') <=> IsIn(x, gEventsFreeQueue) /\ x # e
      BY <3>1, <3>3, DequeueLemma DEF TypeOK, ElementsConserved
    <3>5. /\ gEventsQueue' \in Seq(Elem)
          /\ Len(gEventsQueue') = Len(gEventsQueue) + 1
          /\ \A i \in 1..Len(gEventsQueue) : gEventsQueue'[i] = gEventsQueue[i]
          /\ gEventsQueue'[Len(gEventsQueue) + 1] = e
          /\ Distinct(gEventsQueue')
          /\ \A x : IsIn(x, gEventsQueue') <=> IsIn(x, gEventsQueue) \/ x = e
      BY <3>1, <3>2, <3>3, EnqueueLemma DEF TypeOK, ElementsConserved
    <3>6. TypeOK'
      BY <3>1, <3>3, <3>4, <3>5 DEF TypeOK
    <3>7. ElementsConserved'
      <4>1. Held' = Held
        BY <3>3 DEF Held
      <4> QED
        BY <4>1, <3>1, <3>2, <3>4, <3>5 DEF ElementsConserved
    <3>8. CountInv' /\ PcInv'
      BY <1>0, <3>3, <3>4, <3>5 DEF CountInv, HeldCount, PcInv
    <3>9. FilledInv'
      BY <1>0, <3>1, <3>2, <3>3, <3>5 DEF FilledInv, TypeOK, IsIn
    <3>10. HeadIsStable'
      <4>1. gEventsQueue # <<>> => /\ Len(gEventsQueue) >= 1
                                   /\ Head(gEventsQueue) = gEventsQueue[1]
        BY <1>0 DEF TypeOK
      <4>2. gEventsQueue' # <<>> /\ Head(gEventsQueue') = gEventsQueue'[1]
        BY <1>0, <3>5
      <4> QED
        BY <1>0, <4>1, <4>2, <3>3, <3>5 DEF HeadIsStable
    <3>11. app'.pc = "got" => fields'[app'.e] \in Event
      BY <3>1, <3>2, <3>3 DEF TypeOK, Held, PcInv
    <3> QED
      BY <3>6, <3>7, <3>8, <3>9, <3>10, <3>11
  <2> QED
    BY <2>1, <2>2
<1>10. CASE UNCHANGED vars
  BY <1>10 DEF vars, TypeOK, ElementsConserved, Held, PcInv, HeadIsStable, CountInv,
     HeldCount, FilledInv
<1> QED
  BY <1>1, <1>2, <1>3, <1>4, <1>5, <1>6, <1>7, <1>8, <1>9, <1>10, EventAssumption
  DEF Next, AppStep, UevWalk, IntrUev

(* No interleaving of netgetevent, netputevent, netputuev and interrupts   *)
(* breaks the inductive invariant.                                         *)
THEOREM Invariance == Spec => []IInv
<1> QED
  BY InitInv, NextInv, PTL DEF Spec

(* The variables keep their types.                                         *)
THEOREM TypeCorrect == Spec => []TypeOK
<1>1. IInv => TypeOK
  BY DEF IInv
<1> QED
  BY <1>1, Invariance, PTL

(* No queue element leaks and none has two owners, however netputevent is  *)
(* interrupted between reading qHead and Dequeue.                          *)
THEOREM Conservation == Spec => []ElementsConserved
<1>1. IInv => ElementsConserved
  BY DEF IInv
<1> QED
  BY <1>1, Invariance, PTL

(* netgetevent always Dequeues the oldest event, at the first attempt.     *)
THEOREM StableHead == Spec => []HeadIsStable
<1>1. IInv => HeadIsStable
  BY DEF IInv
<1> QED
  BY <1>1, Invariance, PTL

-----------------------------------------------------------------------------
(* Element e waits in the event queue with event ev.                       *)
Carries(e, ev) == IsIn(e, gEventsQueue) /\ fields[e] = ev

(* Of an event that only netputuev posts, the queue never holds three, and *)
(* not even two while the application level is about to add one: a walk    *)
(* that finds the event posts nothing, so only a call whose walk is over   *)
(* can still add to what the interrupt level posted.                       *)
DupInv ==
  \A ev \in UniqueEv :
    /\ \A a, b, c \in Elem :
         Carries(a, ev) /\ Carries(b, ev) /\ Carries(c, ev) => a = b \/ b = c \/ a = c
    /\ app.pc \in {"puthead", "put", "fill"} /\ app.ev = ev
         => \A a, b \in Elem : Carries(a, ev) /\ Carries(b, ev) => a = b

(* A set of which no three members differ has at most two.                 *)
LEMMA NoThree ==
  ASSUME NEW S, IsFiniteSet(S), \A a, b, c \in S : a = b \/ b = c \/ a = c
  PROVE  Cardinality(S) <= 2
<1>1. CASE S = {}
  BY <1>1, FS_EmptySet
<1>2. CASE S # {}
  <2>1. PICK a \in S : TRUE
    BY <1>2
  <2>2. PICK b \in S : b # a \/ S = {a}
    BY <2>1
  <2>3. S \subseteq {a, b}
    BY <2>1, <2>2
  <2>4. IsFiniteSet({a, b}) /\ Cardinality({a, b}) <= 2
    <3>1. IsFiniteSet({a}) /\ Cardinality({a}) = 1
      BY FS_Singleton
    <3>2. IsFiniteSet({a} \cup {b})
          /\ Cardinality({a} \cup {b}) = IF b \in {a} THEN 1 ELSE 2
      BY <3>1, FS_AddElement
    <3>3. {a} \cup {b} = {a, b}
      OBVIOUS
    <3> QED
      BY <3>2, <3>3
  <2>5. Cardinality(S) <= Cardinality({a, b})
    BY <2>3, <2>4, FS_Subset
  <2>6. Cardinality(S) \in Nat /\ Cardinality({a, b}) \in Nat
    BY <2>4, FS_CardinalityType
  <2> QED
    BY <2>4, <2>5, <2>6
<1> QED
  BY <1>1, <1>2

(* No step of the application or the interrupt level breaks DupInv.        *)
LEMMA NextDup == IInv /\ DupInv /\ [Next]_vars => DupInv'
<1> SUFFICES ASSUME IInv, DupInv, [Next]_vars PROVE DupInv'
  OBVIOUS
<1> USE DEF IInv
<1> DEFINE Fewer == \A e \in Elem, ev \in UniqueEv : Carries(e, ev)' => Carries(e, ev)
           Posts(e, ev) == \A x \in Elem, v \in UniqueEv :
                              Carries(x, v)' => Carries(x, v) \/ (x = e /\ v = ev)
           Posting == app.pc \in {"puthead", "put", "fill"}
<1>1. ASSUME Fewer,
             Posting' => Posting /\ app'.ev = app.ev
      PROVE  DupInv'
  BY <1>1 DEF DupInv
<1>2. CASE GetCall \/ GetHead \/ GetRecycle \/ PutHead \/ UNCHANGED vars
  <2>1. Fewer
    BY <1>2 DEF GetCall, GetHead, GetRecycle, PutHead, vars, Carries
  <2>2. CASE GetCall \/ GetHead \/ GetRecycle
    <3>1. ~Posting'
      BY <2>2 DEF GetCall, GetHead, GetRecycle, Idle, TypeOK
    <3> QED
      BY <1>1, <2>1, <3>1
  <2>3. CASE PutHead
    <3>1. CASE gEventsFreeQueue = <<>>
      <4>1. ~Posting'
        BY <2>3, <3>1 DEF PutHead, Idle
      <4> QED
        BY <1>1, <2>1, <4>1
    <3>2. CASE gEventsFreeQueue # <<>>
      <4>1. Posting /\ app'.ev = app.ev
        BY <2>3, <3>2 DEF PutHead, TypeOK
      <4> QED
        BY <1>1, <2>1, <4>1
    <3> QED
      BY <3>1, <3>2
  <2>4. CASE UNCHANGED vars
    BY <1>1, <2>1, <2>4 DEF vars
  <2> QED
    BY <1>2, <2>2, <2>3, <2>4
<1>3. CASE PutDequeue
  <2>1. Fewer
    BY <1>3 DEF PutDequeue, Carries
  <2>2. Posting' => Posting /\ app'.ev = app.ev
    BY <1>3 DEF PutDequeue, TypeOK
  <2> QED
    BY <1>1, <2>1, <2>2
<1>4. CASE GetDequeue
  <2>1. Fewer
    <3>1. app.e \in Elem
      BY <1>4 DEF GetDequeue, PcInv
    <3>2. \A x : IsIn(x, gEventsQueue') => IsIn(x, gEventsQueue)
      BY <1>4, <3>1, DequeueLemma DEF GetDequeue, TypeOK, ElementsConserved
    <3> QED
      BY <1>4, <3>2 DEF GetDequeue, Carries
  <2>2. ~Posting'
    BY <1>4 DEF GetDequeue, TypeOK
  <2> QED
    BY <1>1, <2>1, <2>2
<1>5. ASSUME NEW ev \in Event \ UniqueEv, PutCall(ev) PROVE DupInv'
  <2>1. /\ UNCHANGED <<gEventsQueue, fields>>
        /\ app'.ev = ev
    BY <1>5 DEF PutCall, TypeOK
  <2> QED
    BY <2>1 DEF DupInv, Carries
<1>6. ASSUME NEW ev \in UniqueEv, UevWalk(ev) PROVE DupInv'
  <2>1. /\ UNCHANGED <<gEventsQueue, fields>>
        /\ app'.ev = ev
    BY <1>6 DEF UevWalk, PutCall, TypeOK
  <2>2. \A e \in Elem : ~Carries(e, ev)
    BY <1>6 DEF UevWalk, Queued, Carries, IsIn
  <2> QED
    BY <2>1, <2>2 DEF DupInv, Carries
<1>7. ASSUME NEW e \in Elem, NEW ev \in Event, ~IsIn(e, gEventsQueue),
             fields' = [fields EXCEPT ![e] = ev],
             gEventsQueue' = Enqueue(gEventsQueue, e)
      PROVE  Posts(e, ev)
  <2>1. \A x : IsIn(x, gEventsQueue') <=> IsIn(x, gEventsQueue) \/ x = e
    BY <1>7, EnqueueLemma DEF TypeOK, ElementsConserved
  <2>2. \A x \in Elem : fields'[x] = IF x = e THEN ev ELSE fields[x]
    BY <1>7 DEF TypeOK
  <2> QED
    BY <2>1, <2>2 DEF Carries
<1>8. CASE PutFill
  <2>1. app.e \in Elem /\ app.pc = "fill" /\ app.ev \in Event /\ Held = {app.e}
    BY <1>8 DEF PutFill, PcInv, Held
  <2>2. ~IsIn(app.e, gEventsQueue)
    BY <2>1 DEF ElementsConserved
  <2>3. Posts(app.e, app.ev)
    BY <1>7, <1>8, <2>1, <2>2 DEF PutFill
  <2>4. ~Posting'
    BY <1>8 DEF PutFill, Idle
  <2> QED
    BY <2>1, <2>3, <2>4 DEF DupInv
<1>9. ASSUME NEW ev \in Event, IntrPut(ev), ev \in UniqueEv => ~Queued(ev)
      PROVE  DupInv'
  <2>1. CASE gEventsFreeQueue = <<>>
    BY <1>1, <1>9, <2>1 DEF IntrPut, Carries
  <2>2. CASE gEventsFreeQueue # <<>>
    <3> DEFINE e == Head(gEventsFreeQueue)
    <3>1. e \in Elem /\ IsIn(e, gEventsFreeQueue)
      BY <2>2 DEF TypeOK, IsIn
    <3>2. ~IsIn(e, gEventsQueue)
      BY <3>1 DEF ElementsConserved
    <3> HIDE DEF e
    <3>3. Posts(e, ev)
      BY <1>7, <1>9, <2>2, <3>1, <3>2 DEF IntrPut, e
    <3>4. ev \in UniqueEv => \A x \in Elem : ~Carries(x, ev)
      BY <1>9 DEF Queued, Carries, IsIn
    <3>5. app' = app
      BY <1>9 DEF IntrPut
    <3> QED
      BY <3>1, <3>3, <3>4, <3>5 DEF DupInv
  <2> QED
    BY <2>1, <2>2
<1> QED
  BY <1>2, <1>3, <1>4, <1>5, <1>6, <1>8, <1>9, EventAssumption
  DEF Next, AppStep, IntrUev

(* netputuev's unmasked walk costs at most one duplicate: however Notify   *)
(* and the application level interleave, no event that is only posted      *)
(* through netputuev is in the queue three times.                          *)
THEOREM OneDuplicate == Spec => []AtMostOneDuplicate
<1>1. Init => DupInv
  BY DEF Init, DupInv, Carries, IsIn, Idle
<1>2. ASSUME IInv, DupInv PROVE AtMostOneDuplicate
  <2> SUFFICES ASSUME NEW ev \in UniqueEv PROVE Copies(ev) <= 2
    BY DEF AtMostOneDuplicate
  <2> DEFINE S == {i \in 1..Len(gEventsQueue) : fields[gEventsQueue[i]] = ev}
  <2>1. IsFiniteSet(S)
    <3>1. Len(gEventsQueue) \in Nat
      BY <1>2 DEF IInv, TypeOK
    <3>2. IsFiniteSet(1..Len(gEventsQueue))
      BY <3>1, FS_Interval
    <3> QED
      BY <3>2, FS_Subset
  <2>2. \A i \in S : gEventsQueue[i] \in Elem /\ Carries(gEventsQueue[i], ev)
    BY <1>2 DEF IInv, TypeOK, Carries, IsIn
  <2>3. \A i, j \in S : gEventsQueue[i] = gEventsQueue[j] => i = j
    BY <1>2 DEF IInv, ElementsConserved, Distinct
  <2> HIDE DEF S
  <2>4. \A i, j, k \in S : i = j \/ j = k \/ i = k
    BY <1>2, <2>2, <2>3 DEF DupInv
  <2> QED
    BY <2>1, <2>4, NoThree DEF Copies, S
<1> QED
  BY <1>1, <1>2, InitInv, NextInv, NextDup, PTL DEF Spec

-----------------------------------------------------------------------------
(* The refinement mapping of Fifo.                                         *)
Pending == [i \in 1..Len(gEventsQueue) |-> fields[gEventsQueue[i]]]
InHand == IF app.pc = "got" THEN fields[app.e] ELSE NoEvent

LEMMA PendingIsSeq ==
  ASSUME IInv
  PROVE  /\ Pending \in Seq(Event)
         /\ Len(Pending) = Len(gEventsQueue)
         /\ \A i \in 1..Len(gEventsQueue) : Pending[i] = fields[gEventsQueue[i]]
<1>1. Len(gEventsQueue) \in Nat
  BY DEF IInv, TypeOK
<1>2. Pending \in [1..Len(gEventsQueue) -> Event]
  BY DEF IInv, FilledInv, Pending
<1> QED
  BY <1>1, <1>2, LenProperties DEF Pending

(* Filling a fresh element and putting it on the event queue appends its   *)
(* event to the pending ones.                                              *)
LEMMA PostAppends ==
  ASSUME IInv, IInv', NEW e \in Elem, NEW ev \in Event,
         ~IsIn(e, gEventsQueue),
         fields' = [fields EXCEPT ![e] = ev],
         gEventsQueue' = Enqueue(gEventsQueue, e)
  PROVE  Pending' = Append(Pending, ev)
<1>1. /\ Len(gEventsQueue) \in Nat
      /\ Len(gEventsQueue') = Len(gEventsQueue) + 1
      /\ \A i \in 1..Len(gEventsQueue) : gEventsQueue'[i] = gEventsQueue[i]
      /\ gEventsQueue'[Len(gEventsQueue) + 1] = e
  BY EnqueueLemma DEF IInv, TypeOK, ElementsConserved
<1>2. fields'[e] = ev /\ \A x \in Elem : x # e => fields'[x] = fields[x]
  BY DEF IInv, TypeOK
<1>3. \A i \in 1..Len(gEventsQueue) :
         gEventsQueue[i] \in Elem /\ gEventsQueue[i] # e
  BY DEF IInv, TypeOK, IsIn
<1>4. /\ Pending \in Seq(Event)
      /\ Len(Pending) = Len(gEventsQueue)
      /\ \A i \in 1..Len(gEventsQueue) : Pending[i] = fields[gEventsQueue[i]]
  BY PendingIsSeq
<1>5. /\ Append(Pending, ev) \in Seq(Event)
      /\ Len(Append(Pending, ev)) = Len(gEventsQueue) + 1
      /\ \A i \in 1..Len(gEventsQueue) : Append(Pending, ev)[i] = Pending[i]
      /\ Append(Pending, ev)[Len(gEventsQueue) + 1] = ev
  BY <1>4, AppendProperties
<1>6. /\ Pending' \in Seq(Event)
      /\ Len(Pending') = Len(gEventsQueue) + 1
      /\ \A i \in 1..(Len(gEventsQueue) + 1) : Pending'[i] = fields'[gEventsQueue'[i]]
  <2>1. /\ Pending' = [i \in 1..Len(gEventsQueue') |-> fields'[gEventsQueue'[i]]]
        /\ \A i \in 1..Len(gEventsQueue') : fields'[gEventsQueue'[i]] \in Event
    BY DEF Pending, IInv, FilledInv
  <2>2. Pending' \in [1..(Len(gEventsQueue) + 1) -> Event]
    BY <2>1, <1>1
  <2> QED
    BY <2>1, <2>2, <1>1, LenProperties
<1>7. \A i \in 1..(Len(gEventsQueue) + 1) : Pending'[i] = Append(Pending, ev)[i]
  <2>1. ASSUME NEW i \in 1..Len(gEventsQueue)
        PROVE  Pending'[i] = Append(Pending, ev)[i]
    BY <1>1, <1>2, <1>3, <1>4, <1>5, <1>6
  <2>2. Pending'[Len(gEventsQueue) + 1] = Append(Pending, ev)[Len(gEventsQueue) + 1]
    BY <1>1, <1>2, <1>5, <1>6
  <2>3. \A i \in 1..(Len(gEventsQueue) + 1) :
          i \in 1..Len(gEventsQueue) \/ i = Len(gEventsQueue) + 1
    BY <1>1
  <2> QED
    BY <2>1, <2>2, <2>3, Zenon
<1> QED
  BY <1>5, <1>6, <1>7, SeqEqual

(* Taking the oldest element off the event queue removes the oldest        *)
(* pending event.                                                          *)
LEMMA DequeueTakesHead ==
  ASSUME IInv, IInv', gEventsQueue # <<>>, fields' = fields,
         gEventsQueue' = Dequeue(gEventsQueue, Head(gEventsQueue))
  PROVE  /\ Pending # <<>>
         /\ Pending' = Tail(Pending)
         /\ fields[Head(gEventsQueue)] = Head(Pending)
<1> DEFINE q == gEventsQueue
           k == CHOOSE i \in 1..Len(q) : q[i] = Head(q)
<1>1. q \in Seq(Elem) /\ Len(q) \in Nat /\ Len(q) >= 1 /\ Head(q) = q[1]
  BY DEF IInv, TypeOK
<1>2. k = 1
  <2>1. k \in 1..Len(q) /\ q[k] = q[1]
    BY <1>1
  <2> QED
    BY <2>1, <1>1 DEF IInv, ElementsConserved, Distinct
<1>3. q' = [i \in 1..(Len(q) - 1) |-> q[i + 1]]
  <2>1. q' = [i \in 1..(Len(q) - 1) |-> IF i < k THEN q[i] ELSE q[i + 1]]
    BY DEF Dequeue
  <2> HIDE DEF k
  <2> QED
    BY <2>1, <1>1, <1>2
<1>4. Len(q') = Len(q) - 1
  <2>1. q' \in Seq(Elem) /\ DOMAIN q' = 1..(Len(q) - 1) /\ Len(q) - 1 \in Nat
    BY <1>1, <1>3 DEF IInv, TypeOK
  <2> QED
    BY <2>1
<1>5. /\ Pending \in Seq(Event) /\ Len(Pending) = Len(q) /\ Pending # <<>>
      /\ \A i \in 1..Len(q) : Pending[i] = fields[q[i]]
  BY <1>1, PendingIsSeq
<1>6. /\ Tail(Pending) \in Seq(Event) /\ Len(Tail(Pending)) = Len(q) - 1
      /\ \A i \in 1..(Len(q) - 1) : Tail(Pending)[i] = Pending[i + 1]
  BY <1>1, <1>5, HeadTailProperties
<1>7. Pending' = [i \in 1..(Len(q) - 1) |-> fields[q[i + 1]]]
  BY <1>3, <1>4 DEF Pending
<1>8. Pending' \in Seq(Event) /\ Len(Pending') = Len(q) - 1
  <2>1. \A i \in 1..(Len(q) - 1) : i + 1 \in 1..Len(q)
    BY <1>1
  <2>2. \A i \in 1..(Len(q) - 1) : fields[q[i + 1]] \in Event
    BY <2>1 DEF IInv, FilledInv
  <2>3. Pending' \in [1..(Len(q) - 1) -> Event] /\ Len(q) - 1 \in Nat
    BY <2>2, <1>1, <1>7
  <2> HIDE DEF q
  <2> QED
    BY <2>3, LenProperties
<1>9. \A i \in 1..(Len(q) - 1) : Pending'[i] = Tail(Pending)[i]
  <2>1. \A i \in 1..(Len(q) - 1) : i + 1 \in 1..Len(q)
    BY <1>1
  <2> QED
    BY <2>1, <1>5, <1>6, <1>7
<1> QED
  BY <1>1, <1>5, <1>6, <1>8, <1>9, SeqEqual

LEMMA FifoStep == IInv /\ IInv' /\ [Next]_vars => [Fifo!Next]_(Fifo!vars)
<1> SUFFICES ASSUME IInv, IInv', [Next]_vars PROVE [Fifo!Next]_(Fifo!vars)
  OBVIOUS
<1> USE DEF IInv
<1>0. /\ Len(gEventsQueue) \in Nat /\ Len(gEventsFreeQueue) \in Nat
      /\ Cardinality(Elem) \in Nat
      /\ Len(Pending) = Len(gEventsQueue)
  BY ElemAssumption, FS_CardinalityType, PendingIsSeq DEF TypeOK
<1> DEFINE Stutter == Pending' = Pending /\ app'.ev = app.ev /\ InHand' = InHand
                      /\ gQueueError' = gQueueError
<1>1. Stutter => UNCHANGED Fifo!vars
  BY DEF Fifo!vars, Pending, InHand
<1>2. CASE GetCall \/ GetHead
  <2>1. Stutter
    BY <1>2, EventAssumption DEF GetCall, GetHead, Idle, Pending, InHand, TypeOK, PcInv
  <2> QED
    BY <2>1, <1>1
<1>3. CASE GetDequeue
  <2>1. app.pc = "get" /\ app.ev = NoEvent /\ app.e \in Elem
        /\ gEventsQueue # <<>> /\ app.e = Head(gEventsQueue) /\ InHand = NoEvent
    BY <1>3 DEF GetDequeue, PcInv, HeadIsStable, InHand
  <2>2. IsIn(app.e, gEventsQueue)
    BY <2>1, <1>0 DEF IsIn, TypeOK
  <2>3. /\ gEventsQueue' = Dequeue(gEventsQueue, app.e)
        /\ app' = [app EXCEPT !.pc = "got"]
        /\ UNCHANGED <<fields, gQueueError>>
    BY <1>3, <2>2 DEF GetDequeue
  <2>4. Pending # <<>> /\ Pending' = Tail(Pending) /\ fields[app.e] = Head(Pending)
    BY <2>1, <2>3, DequeueTakesHead
  <2>5. app'.ev = app.ev /\ InHand' = fields[app.e]
    BY <2>1, <2>3 DEF TypeOK, InHand
  <2>6. Fifo!Take
    BY <2>1, <2>3, <2>4, <2>5 DEF Fifo!Take, Pending, InHand
  <2> QED
    BY <2>6 DEF Fifo!Next
<1>4. CASE GetRecycle
  <2>1. /\ app.pc = "got" /\ fields[app.e] \in Event /\ app.ev = NoEvent
        /\ app' = Idle /\ UNCHANGED <<gEventsQueue, fields, gQueueError>>
    BY <1>4 DEF GetRecycle, PcInv
  <2>2. InHand # NoEvent /\ InHand' = NoEvent /\ Pending' = Pending /\ app'.ev = app.ev
    BY <2>1, EventAssumption DEF InHand, Pending, Idle
  <2>3. Fifo!Deliver
    BY <2>1, <2>2 DEF Fifo!Deliver, Pending, InHand
  <2> QED
    BY <2>3 DEF Fifo!Next
<1>5. ASSUME NEW ev \in Event, PutCall(ev) PROVE [Fifo!Next]_(Fifo!vars)
  <2>1. /\ app.pc = "idle" /\ app.ev = NoEvent
        /\ app'.pc = "puthead" /\ app'.ev = ev
        /\ UNCHANGED <<gEventsQueue, fields, gQueueError>>
    BY <1>5 DEF PutCall, PcInv, TypeOK
  <2>2. InHand' = InHand /\ Pending' = Pending
    BY <2>1 DEF InHand, Pending
  <2>3. Fifo!Begin(ev)
    BY <2>1, <2>2 DEF Fifo!Begin, Pending, InHand
  <2> QED
    BY <2>3 DEF Fifo!Next
<1>6. CASE PutHead
  <2>1. app.pc = "puthead" /\ app.ev \in Event
    BY <1>6 DEF PutHead, PcInv
  <2>2. CASE gEventsFreeQueue # <<>>
    <3>1. Stutter
      BY <1>6, <2>1, <2>2 DEF PutHead, Pending, InHand, TypeOK
    <3> QED
      BY <3>1, <1>1
  <2>3. CASE gEventsFreeQueue = <<>>
    <3>1. /\ app' = Idle /\ gQueueError' = TRUE
          /\ UNCHANGED <<gEventsQueue, fields>>
      BY <1>6, <2>3 DEF PutHead
    <3>2. Len(gEventsQueue) = Cardinality(Elem)
      BY <1>0, <2>1, <2>3 DEF CountInv, HeldCount
    <3>3. app'.ev = NoEvent /\ InHand' = InHand /\ Pending' = Pending
      BY <3>1, <2>1 DEF InHand, Pending, Idle
    <3>4. Fifo!Lose
      BY <3>1, <3>2, <3>3, <2>1, <1>0, EventAssumption DEF Fifo!Lose, Pending, InHand
    <3> QED
      BY <3>4 DEF Fifo!Next
  <2> QED
    BY <2>2, <2>3
<1>7. CASE PutDequeue
  <2>1. Stutter
    BY <1>7 DEF PutDequeue, Pending, InHand, TypeOK
  <2> QED
    BY <2>1, <1>1
<1>8. CASE PutFill
  <2>1. /\ app.pc = "fill" /\ app.e \in Elem /\ app.ev \in Event /\ Held = {app.e}
        /\ app' = Idle /\ gQueueError' = gQueueError
        /\ fields' = [fields EXCEPT ![app.e] = app.ev]
        /\ gEventsQueue' = Enqueue(gEventsQueue, app.e)
    BY <1>8 DEF PutFill, PcInv, Held
  <2>2. ~IsIn(app.e, gEventsQueue)
    BY <2>1 DEF ElementsConserved
  <2>3. Pending' = Append(Pending, app.ev)
    BY <2>1, <2>2, PostAppends
  <2>4. Len(gEventsQueue) < Cardinality(Elem)
    BY <1>0, <2>1 DEF CountInv, HeldCount
  <2>5. app'.ev = NoEvent /\ InHand' = InHand
    BY <2>1 DEF InHand, Idle
  <2>6. Fifo!Accept
    BY <2>1, <2>3, <2>4, <2>5, <1>0, EventAssumption DEF Fifo!Accept, Pending, InHand
  <2> QED
    BY <2>6 DEF Fifo!Next
<1>9. ASSUME NEW ev \in Event, IntrPut(ev) PROVE [Fifo!Next]_(Fifo!vars)
  <2>1. CASE gEventsFreeQueue = <<>>
    <3>1. /\ gQueueError' = TRUE /\ UNCHANGED <<gEventsQueue, fields, app>>
      BY <1>9, <2>1 DEF IntrPut
    <3>2. Len(gEventsQueue) + 1 >= Cardinality(Elem)
      BY <1>0, <2>1 DEF CountInv, HeldCount
    <3>3. InHand' = InHand /\ Pending' = Pending
      BY <3>1 DEF InHand, Pending
    <3>4. Fifo!InterruptLose
      BY <3>1, <3>2, <3>3, <1>0 DEF Fifo!InterruptLose, Pending, InHand
    <3> QED
      BY <3>4 DEF Fifo!Next
  <2>2. CASE gEventsFreeQueue # <<>>
    <3> DEFINE e == Head(gEventsFreeQueue)
    <3>1. e \in Elem /\ IsIn(e, gEventsFreeQueue) /\ Len(gEventsFreeQueue) >= 1
      BY <2>2, <1>0 DEF TypeOK, IsIn
    <3>2. ~IsIn(e, gEventsQueue) /\ e \notin Held
      BY <3>1 DEF ElementsConserved
    <3> HIDE DEF e
    <3>3. /\ fields' = [fields EXCEPT ![e] = ev]
          /\ gEventsQueue' = Enqueue(gEventsQueue, e)
          /\ UNCHANGED <<gQueueError, app>>
      BY <1>9, <2>2 DEF IntrPut, e
    <3>4. Pending' = Append(Pending, ev)
      BY <3>1, <3>2, <3>3, PostAppends
    <3>5. Len(gEventsQueue) < Cardinality(Elem)
      BY <1>0, <3>1 DEF CountInv, HeldCount
    <3>6. InHand' = InHand
      BY <3>1, <3>2, <3>3 DEF InHand, Held, PcInv, TypeOK
    <3>7. Fifo!InterruptPost(ev)
      BY <3>3, <3>4, <3>5, <3>6, <1>0 DEF Fifo!InterruptPost, Pending, InHand
    <3> QED
      BY <3>7 DEF Fifo!Next
  <2> QED
    BY <2>1, <2>2
<1>10. CASE UNCHANGED vars
  <2>1. Stutter
    BY <1>10 DEF vars, Pending, InHand
  <2> QED
    BY <2>1, <1>1
<1> QED
  BY <1>2, <1>3, <1>4, <1>5, <1>6, <1>7, <1>8, <1>9, <1>10, EventAssumption
  DEF Next, AppStep, UevWalk, IntrUev

(* The queue is a bounded FIFO for every number of elements: an accepted   *)
(* event is handed out once, unchanged and in order, and netputevent at    *)
(* application level loses an event only when all elements are queued.     *)
THEOREM Refinement == Spec => ImplementsFifo
<1>1. Init => Fifo!Init
  <2> SUFFICES ASSUME Init PROVE Fifo!Init
    OBVIOUS
  <2>1. Pending = <<>>
    <3>1. Len(gEventsQueue) = 0
      BY DEF Init
    <3> QED
      BY <3>1 DEF Pending
  <2>2. app.pc = "idle" /\ app.ev = NoEvent /\ gQueueError = FALSE
    BY DEF Init, Idle
  <2> QED
    BY <2>1, <2>2 DEF Fifo!Init, Pending
<1> QED
  BY <1>1, InitInv, NextInv, FifoStep, PTL DEF Spec, ImplementsFifo, Fifo!Spec
=============================================================================
