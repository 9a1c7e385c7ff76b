----------------------------- MODULE EventQueue -----------------------------
(***************************************************************************)
(* The internal event queue (macssh/source/network/netevent.c): a fixed    *)
(* set of queue elements that travel between gEventsFreeQueue and          *)
(* gEventsQueue.                                                           *)
(*                                                                         *)
(* Two levels of execution use it.  The application level (the event loop  *)
(* and the SSH threads, which switch cooperatively and never inside these  *)
(* functions) calls netgetevent, netputevent and netputuev.  The interrupt *)
(* level (MacTCP's Notify and completion routines, the resolver's DNRDone) *)
(* calls netputevent and netputuev and runs to completion between any two  *)
(* instructions of the application level.  Enqueue and Dequeue are the     *)
(* Operating System's: they mask interrupts and Dequeue fails when the     *)
(* element is no longer in the queue.  gQueueInUse and gQueueLength only   *)
(* feed the disabled QUEUE_STATS display and are left out.                 *)
(***************************************************************************)
EXTENDS Naturals, Sequences, FiniteSets

CONSTANTS
  Elem,        \* the queue elements, NEVENTS of them
  NoElem,      \* a NULL element pointer
  Event,       \* the events (class, event, data1, data2) that are posted
  NoEvent,     \* no event
  InterruptEv, \* the events that the interrupt level posts
  UniqueEv     \* the events posted with netputuev only (CONDATA, FTPACT)

ASSUME ElemAssumption == IsFiniteSet(Elem) /\ Elem # {} /\ NoElem \notin Elem
ASSUME EventAssumption == NoEvent \notin Event /\ InterruptEv \subseteq Event /\ UniqueEv \subseteq Event

VARIABLES
  gEventsFreeQueue,  \* the elements that carry no event
  gEventsQueue,      \* the elements that carry a posted event, oldest first
  fields,            \* what each element's eclass, event, data1, data2 hold
  gQueueError,       \* set when an event was lost
  app                \* the call in progress at application level

vars == <<gEventsFreeQueue, gEventsQueue, fields, gQueueError, app>>

Idle == [pc |-> "idle", e |-> NoElem, ev |-> NoEvent]

IsIn(e, q) == \E i \in 1..Len(q) : q[i] = e

(* The Operating System's Dequeue of element e, when it is in q.           *)
Dequeue(q, e) ==
  LET k == CHOOSE i \in 1..Len(q) : q[i] = e
  IN  [i \in 1..(Len(q) - 1) |-> IF i < k THEN q[i] ELSE q[i + 1]]

(* A slip that HeadIsStable rules out: new elements go to the front.       *)
EnqueueAtFront(q, e) == <<e>> \o q

Enqueue(q, e) == Append(q, e)

-----------------------------------------------------------------------------
(* ChangeQueueLength(NEVENTS) at start-up puts every element on the free   *)
(* queue, in some order.                                                   *)
Init ==
  /\ gEventsFreeQueue \in [1..Cardinality(Elem) -> Elem]
  /\ \A i, j \in 1..Cardinality(Elem) :
        gEventsFreeQueue[i] = gEventsFreeQueue[j] => i = j
  /\ \A e \in Elem : IsIn(e, gEventsFreeQueue)
  /\ gEventsQueue = <<>>
  /\ fields = [e \in Elem |-> NoEvent]
  /\ gQueueError = FALSE
  /\ app = Idle

-----------------------------------------------------------------------------
(* netgetevent: read qHead, Dequeue it (again from the new head if someone *)
(* else took it), copy the fields out and recycle the element.             *)
GetCall ==
  /\ app.pc = "idle"
  /\ gEventsQueue # <<>>
  /\ app' = [app EXCEPT !.pc = "gethead"]
  /\ UNCHANGED <<gEventsFreeQueue, gEventsQueue, fields, gQueueError>>

GetHead ==
  /\ app.pc = "gethead"
  /\ app' = IF gEventsQueue = <<>> THEN Idle
            ELSE [pc |-> "get", e |-> Head(gEventsQueue), ev |-> NoEvent]
  /\ UNCHANGED <<gEventsFreeQueue, gEventsQueue, fields, gQueueError>>

GetDequeue ==
  /\ app.pc = "get"
  /\ IF IsIn(app.e, gEventsQueue)
     THEN /\ gEventsQueue' = Dequeue(gEventsQueue, app.e)
          /\ app' = [app EXCEPT !.pc = "got"]
     ELSE /\ app' = [app EXCEPT !.pc = "gethead", !.e = NoElem]
          /\ UNCHANGED gEventsQueue
  /\ UNCHANGED <<gEventsFreeQueue, fields, gQueueError>>

GetRecycle ==
  /\ app.pc = "got"
  /\ gEventsFreeQueue' = Enqueue(gEventsFreeQueue, app.e)
  /\ app' = Idle
  /\ UNCHANGED <<gEventsQueue, fields, gQueueError>>

-----------------------------------------------------------------------------
(* netputevent at application level: read the free queue's qHead, Dequeue  *)
(* it (an interrupt may take it first), fill it in and Enqueue it.         *)
PutCall(ev) ==
  /\ app.pc = "idle"
  /\ app' = [app EXCEPT !.pc = "puthead", !.ev = ev]
  /\ UNCHANGED <<gEventsFreeQueue, gEventsQueue, fields, gQueueError>>

(* A slip that ImplementsFifo rules out: an event lost without a trace.    *)
PutHeadSilent ==
  /\ app.pc = "puthead"
  /\ app' = IF gEventsFreeQueue = <<>> THEN Idle
            ELSE [app EXCEPT !.pc = "put", !.e = Head(gEventsFreeQueue)]
  /\ UNCHANGED <<gEventsFreeQueue, gEventsQueue, fields, gQueueError>>

PutHead ==
  /\ app.pc = "puthead"
  /\ IF gEventsFreeQueue = <<>>
     THEN gQueueError' = TRUE /\ app' = Idle
     ELSE /\ app' = [app EXCEPT !.pc = "put", !.e = Head(gEventsFreeQueue)]
          /\ UNCHANGED gQueueError
  /\ UNCHANGED <<gEventsFreeQueue, gEventsQueue, fields>>

(* Slips in the treatment of a Dequeue that failed because an interrupt    *)
(* took the element first: carry on with the element all the same, carry   *)
(* on with no element, or retry without reading qHead again.               *)
PutDequeueElse(next) ==
  /\ app.pc = "put"
  /\ IF IsIn(app.e, gEventsFreeQueue)
     THEN /\ gEventsFreeQueue' = Dequeue(gEventsFreeQueue, app.e)
          /\ app' = [app EXCEPT !.pc = "fill"]
     ELSE app' = next /\ UNCHANGED gEventsFreeQueue
  /\ UNCHANGED <<gEventsQueue, fields, gQueueError>>

PutDequeueUnchecked == PutDequeueElse([app EXCEPT !.pc = "fill"])
PutDequeueNull == PutDequeueElse([app EXCEPT !.pc = "fill", !.e = NoElem])
PutDequeueStale == PutDequeueElse(app)

PutDequeue ==
  /\ app.pc = "put"
  /\ IF IsIn(app.e, gEventsFreeQueue)
     THEN /\ gEventsFreeQueue' = Dequeue(gEventsFreeQueue, app.e)
          /\ app' = [app EXCEPT !.pc = "fill"]
     ELSE /\ app' = [app EXCEPT !.pc = "puthead", !.e = NoElem]
          /\ UNCHANGED gEventsFreeQueue
  /\ UNCHANGED <<gEventsQueue, fields, gQueueError>>

PutFill ==
  /\ app.pc = "fill"
  /\ fields' = [fields EXCEPT ![app.e] = app.ev]
  /\ gEventsQueue' = Enqueue(gEventsQueue, app.e)
  /\ app' = Idle
  /\ UNCHANGED <<gEventsFreeQueue, gQueueError>>

-----------------------------------------------------------------------------
Queued(ev) == \E i \in 1..Len(gEventsQueue) : fields[gEventsQueue[i]] = ev

(* netputuev at application level.  Interrupts only append to the queue,   *)
(* so the walk decides at its last element; it posts when it found no like *)
(* event.                                                                  *)
UevWalk(ev) ==
  /\ ~Queued(ev)
  /\ PutCall(ev)

(* netputevent as one interrupt-level call.                                *)
IntrPut(ev) ==
  /\ IF gEventsFreeQueue = <<>>
     THEN /\ gQueueError' = TRUE
          /\ UNCHANGED <<gEventsFreeQueue, gEventsQueue, fields>>
     ELSE LET e == Head(gEventsFreeQueue)
          IN  /\ gEventsFreeQueue' = Dequeue(gEventsFreeQueue, e)
              /\ fields' = [fields EXCEPT ![e] = ev]
              /\ gEventsQueue' = Enqueue(gEventsQueue, e)
              /\ UNCHANGED gQueueError
  /\ UNCHANGED app

(* A slip that AtMostOneDuplicate rules out: Notify posts CONDATA without  *)
(* looking for a like event.                                               *)
IntrUevUnsearched(ev) == IntrPut(ev)

(* netputuev as one interrupt-level call.                                  *)
IntrUev(ev) ==
  /\ ~Queued(ev)
  /\ IntrPut(ev)

-----------------------------------------------------------------------------
(* The steps of the call in progress at application level.                 *)
AppStep ==
  \/ GetHead \/ GetDequeue \/ GetRecycle
  \/ PutHead \/ PutDequeue \/ PutFill

Next ==
  \/ GetCall
  \/ AppStep
  \/ \E ev \in Event \ UniqueEv : PutCall(ev)
  \/ \E ev \in UniqueEv : UevWalk(ev)
  \/ \E ev \in InterruptEv \ UniqueEv : IntrPut(ev)
  \/ \E ev \in InterruptEv \cap UniqueEv : IntrUev(ev)

Spec == Init /\ [][Next]_vars

(* A call that has begun runs on, and every turn of the main loop calls    *)
(* netgetevent (DoNetEvents), whatever else is posted in between.          *)
FairSpec == Spec /\ WF_vars(AppStep) /\ SF_vars(GetCall)

-----------------------------------------------------------------------------
(* The element that the application level holds outside both queues.       *)
Held == IF app.pc \in {"got", "fill"} THEN {app.e} ELSE {}

TypeOK ==
  /\ gEventsFreeQueue \in Seq(Elem)
  /\ gEventsQueue \in Seq(Elem)
  /\ fields \in [Elem -> Event \cup {NoEvent}]
  /\ gQueueError \in BOOLEAN
  /\ app \in [pc : {"idle", "gethead", "get", "got", "puthead", "put", "fill"},
               e : Elem \cup {NoElem}, ev : Event \cup {NoEvent}]

Distinct(q) == \A i, j \in 1..Len(q) : q[i] = q[j] => i = j

(* Whatever interrupts netgetevent and netputevent, every queue element is *)
(* in exactly one place: once on the free queue, once on the event queue,  *)
(* or in the hands of the application level.  None leaks and none is       *)
(* handed to two callers ("WHAM! we both have that queue element").        *)
ElementsConserved ==
  /\ Distinct(gEventsFreeQueue)
  /\ Distinct(gEventsQueue)
  /\ \A e \in Elem :
       \/ IsIn(e, gEventsFreeQueue) /\ ~IsIn(e, gEventsQueue) /\ e \notin Held
       \/ IsIn(e, gEventsQueue) /\ ~IsIn(e, gEventsFreeQueue) /\ e \notin Held
       \/ e \in Held /\ ~IsIn(e, gEventsQueue) /\ ~IsIn(e, gEventsFreeQueue)

(* The element netgetevent read at qHead is still there when it Dequeues   *)
(* it: only the application level takes events off, so events leave in the *)
(* order they were posted and the loop in netgetevent never spins.         *)
HeadIsStable ==
  app.pc = "get" => gEventsQueue # <<>> /\ app.e = Head(gEventsQueue)

Copies(ev) ==
  Cardinality({i \in 1..Len(gEventsQueue) : fields[gEventsQueue[i]] = ev})

(* netputuev walks the queue without masking interrupts, so a Notify       *)
(* between its walk and its netputevent can slip in a like event; the race *)
(* costs one duplicate and never more, however many events are posted.     *)
AtMostOneDuplicate == \A ev \in UniqueEv : Copies(ev) <= 2

(* Every posted event is taken off the queue, however fast interrupts and  *)
(* the application keep posting.  So every call ends: netputevent's retry  *)
(* loop is starved only by interrupts that take free elements, and those   *)
(* run out.                                                                *)
EveryEventIsTaken ==
  \A e \in Elem : IsIn(e, gEventsQueue) ~> ~IsIn(e, gEventsQueue)

(* The queue implements the abstract bounded FIFO.                         *)
Fifo == INSTANCE EventFifo WITH
  pending <- [i \in 1..Len(gEventsQueue) |-> fields[gEventsQueue[i]]],
  posting <- app.ev,
  inHand <- IF app.pc = "got" THEN fields[app.e] ELSE NoEvent,
  overflow <- gQueueError,
  Capacity <- Cardinality(Elem)

(* Accepted events come out once, unchanged and in order; netputevent at   *)
(* application level loses one only when every element is queued, and      *)
(* never without raising gQueueError.                                      *)
ImplementsFifo == Fifo!Spec
=============================================================================
