----------------------------- MODULE EventFifo -----------------------------
(***************************************************************************)
(* What the internal event queue of MacSSH promises to the code that posts *)
(* and handles events: a bounded first-in first-out channel.  An event is  *)
(* either accepted, and then handed out unchanged exactly once and in the  *)
(* order of acceptance, or it is lost with the overflow flag raised, which *)
(* may only happen when the channel is full: to the last element for the   *)
(* application level, up to the one element that the application level may *)
(* be holding for an interrupt.                                            *)
(***************************************************************************)
EXTENDS Naturals, Sequences

CONSTANTS
  Event,     \* the events that can be posted
  NoEvent,   \* "nothing is being handed out"
  Capacity   \* the number of queue elements

VARIABLES
  pending,   \* the accepted events not yet handed out, oldest first
  posting,   \* the event the application level is posting
  inHand,    \* the event the dispatcher has taken off the queue
  overflow   \* an event has been lost

vars == <<pending, posting, inHand, overflow>>

Init ==
  /\ pending = <<>>
  /\ posting = NoEvent
  /\ inHand = NoEvent
  /\ overflow = FALSE

(* The application level begins to post ev, and then gets it accepted or   *)
(* loses it.                                                               *)
Begin(ev) ==
  /\ posting = NoEvent
  /\ posting' = ev
  /\ UNCHANGED <<pending, inHand, overflow>>

Accept ==
  /\ posting # NoEvent
  /\ Len(pending) < Capacity
  /\ pending' = Append(pending, posting)
  /\ posting' = NoEvent
  /\ UNCHANGED <<inHand, overflow>>

Lose ==
  /\ posting # NoEvent
  /\ Len(pending) = Capacity
  /\ posting' = NoEvent
  /\ overflow' = TRUE
  /\ UNCHANGED <<pending, inHand>>

(* An interrupt posts in one step; it loses its event also when the last   *)
(* element is in the hands of the application level.                       *)
InterruptPost(ev) ==
  /\ Len(pending) < Capacity
  /\ pending' = Append(pending, ev)
  /\ UNCHANGED <<posting, inHand, overflow>>

InterruptLose ==
  /\ Len(pending) + 1 >= Capacity
  /\ overflow' = TRUE
  /\ UNCHANGED <<pending, posting, inHand>>

Take ==
  /\ pending # <<>>
  /\ inHand = NoEvent
  /\ inHand' = Head(pending)
  /\ pending' = Tail(pending)
  /\ UNCHANGED <<posting, overflow>>

Deliver ==
  /\ inHand # NoEvent
  /\ inHand' = NoEvent
  /\ UNCHANGED <<pending, posting, overflow>>

Next ==
  \/ \E ev \in Event : Begin(ev) \/ InterruptPost(ev)
  \/ Accept \/ Lose \/ InterruptLose
  \/ Take \/ Deliver

Spec == Init /\ [][Next]_vars
=============================================================================
