------------------------- MODULE SessionAloneProofs -------------------------
(***************************************************************************)
(* Proofs about Session with one window at a time, for any ports and any   *)
(* number of sessions in turn: the windows are counted, no thread is       *)
(* orphaned, and windows and streams match.                                *)
(*                                                                         *)
(* What makes them true is the order of the event queue.  A session takes  *)
(* the slot only after its predecessor has left it, so everything that     *)
(* was posted for a predecessor, but for the disconnect indications of     *)
(* threads that end late, stands before the session's own DOMAIN_DONE, and *)
(* is dropped while the window has no port.  The nested event loops of a   *)
(* window that is being closed find it without a stream and its thread     *)
(* told already, so they close nothing that is not being closed.           *)
(***************************************************************************)
EXTENDS SessionProofs

(* One window at a time, and neither the user's cancel nor Close All.  A   *)
(* window that cannot be made leaves its lookup behind, which answers for  *)
(* the next session: that failure is excluded, all others are not.         *)
OneWindow ==
  /\ MaxSess = 1 /\ Ports # {}
  /\ "cancel" \notin May /\ "closeall" \notin May /\ "window" \notin May

(* The operation of the k-th of the unfinished calls s, innermost first.   *)
Op(s, k) == IF k \in 1..Len(s) THEN s[k].op ELSE "none"

(* The calls that take the window away.                                    *)
Leaving == {"removeport", "removed"}

(* The stacks of n calls there can be, a, b, c and d the operations of the *)
(* innermost four: no more than one event loop is nested in a removeport,  *)
(* and no more than one removeport in that.                                *)
Shaped(n, a, b, c, d) ==
  \/ n = 0
  \/ n = 1 /\ a \in {"create", "login", "netclose", "destroyport", "removeport", "removed"}
  \/ /\ n = 2
     /\ \/ a = "netclose" /\ b \in {"login", "removeport"}
        \/ a \in {"protocol_close", "user", "net", "yield"} /\ b \in Leaving
  \/ /\ n = 3 /\ c \in Leaving
     /\ \/ b \in {"net", "yield"} /\ a \in Leaving
        \/ b = "yield" /\ a = "netclose"
  \/ /\ n = 4 /\ d \in Leaving /\ c \in {"net", "yield"}
     /\ \/ a = "netclose" /\ b = "removeport"
        \/ a = "protocol_close" /\ b = "removed"

Outermost(n, a, b, c, d) ==
  IF n = 1 THEN a ELSE IF n = 2 THEN b ELSE IF n = 3 THEN c ELSE IF n = 4 THEN d ELSE "none"

(* The one slot.                                                           *)
W == screens[0]
Open2 == {"OPENING", "ACTIVE"}

(* What the window can be while calls are unfinished.                      *)
ShapeOf(n, a, b, c, d, nw, active) ==
  /\ Shaped(n, a, b, c, d)
  /\ nw \in {0, 1}
  /\ Outermost(n, a, b, c, d) \in {"create", "login"} => nw = 1 /\ active = "NOTINUSE"
  /\ nw = 1 /\ active = "NOTINUSE" => Outermost(n, a, b, c, d) \in {"create", "login"}
  /\ nw = 1 /\ active = "DNRWAIT" => n = 0 \/ (n = 1 /\ a = "netclose")
  /\ nw = 1 /\ active = "OPENING" => n <= 2 /\ a \notin {"user", "net", "yield"}
  /\ a = "user" => nw = 1 /\ active = "ACTIVE"
  /\ a = "destroyport" => nw = 1 /\ active = "ISCORPSE"

(* A window that has been made has a virtual screen, the only one in use.  *)
ScreenOf(nw, active, vs, used) ==
  /\ nw # 1 \/ active = "NOTINUSE" => used = {}
  /\ nw = 1 /\ active # "NOTINUSE" => vs # -1 /\ used = {vs}

(* Only an active window has a thread, and not when it is about to go.     *)
ThreadOf(n, a, b, nw, active, thread) ==
  thread # None =>
    /\ nw = 1 /\ active = "ACTIVE"
    /\ \/ n = 0
       \/ n = 1 /\ a \in {"netclose", "removeport"}
       \/ n = 2 /\ a \in {"netclose", "protocol_close"} /\ b \in Leaving

(* A thread that has neither ended nor been told to is the window's.       *)
Running(c) == c.state # "done" /\ ~c.killed
OnlyRunning(list, thread) == \A t \in 1..Len(list) : Running(list[t]) => thread = t

(* The stream is the open window's, and is released before its window goes *)
(* away; a netclose that comes alone, with arg its port, finds no stream.  *)
StreamOf(n, a, b, c, d, arg, nw, active, port, used) ==
  /\ used # {} => nw = 1 /\ active \in Open2 /\ used = {port}
  /\ nw = 1 /\ active \in Open2 /\ Outermost(n, a, b, c, d) \notin Leaving => used # {}
  /\ Outermost(n, a, b, c, d) \in Leaving /\ ~(n = 2 /\ a = "netclose") => used = {}
  /\ n = 2 /\ a = "netclose" /\ b = "removeport" => arg = port
  /\ a = "netclose" /\ arg \in used => b = "removeport"

(* No event of a kind in S, at most one of the kind a, and none of a kind  *)
(* in S behind one of the kind a.                                          *)
NoEv(e, S) == \A k \in 1..Len(e) : e[k].what \notin S
OneEv(e, a) == \A j, k \in 1..Len(e) : e[j].what = a /\ e[k].what = a => j = k
NoneBehind(e, a, S) == \A j, k \in 1..Len(e) : e[j].what = a /\ e[k].what \in S => k < j

(* What is on its way to the window: one answer of a lookup, for a window  *)
(* that waits for it, and nothing behind it that was meant for another     *)
(* session; and no second CONOPEN, and no CLOSEDONE, for a stream.         *)
QueueOf(e, found, nw, active, used) ==
  /\ OneEv(e, "DOMAIN_DONE")
  /\ NoneBehind(e, "DOMAIN_DONE", {"CONOPEN", "CLOSEDONE"})
  /\ (nw = 1 /\ active = "DNRWAIT" /\ found = {}) \/ NoEv(e, {"DOMAIN_DONE"})
  /\ found # {} => nw = 1 /\ active = "DNRWAIT"
  /\ \A l, m \in found : l = m
  /\ nw = 1 /\ active = "ACTIVE" => NoEv(e, {"CONOPEN"})
  /\ used # {} => NoEv(e, {"CLOSEDONE"}) /\ OneEv(e, "CONOPEN")

(* The stack together with what it says of the window.                     *)
StackOf(n, a, b, c, d, arg, nw, active, port, thread, used) ==
  /\ ShapeOf(n, a, b, c, d, nw, active)
  /\ ThreadOf(n, a, b, nw, active, thread)
  /\ StreamOf(n, a, b, c, d, arg, nw, active, port, used)

StackInv ==
  StackOf(Len(calls), Op(calls, 1), Op(calls, 2), Op(calls, 3), Op(calls, 4), calls[1].arg,
          numwindows, W.active, W.port, W.thread, streams)
ScreenInv == ScreenOf(numwindows, W.active, W.vs, vss)
ThreadInv == OnlyRunning(threads, W.thread)
QueueInv == QueueOf(events, lookups, numwindows, W.active, streams)

AloneInv == StackInv /\ ScreenInv /\ ThreadInv /\ QueueInv

-----------------------------------------------------------------------------
(* The stack.                                                              *)

(* The stack r is s with the calls q put on it.                            *)
OnTop(q, s, r) ==
  /\ r \in Seq(CallSet) /\ Len(q) \in Nat /\ Len(s) \in Nat /\ Len(r) = Len(q) + Len(s)
  /\ \A k \in 1..Len(q) : r[k] = q[k] /\ Op(r, k) = q[k].op
  /\ \A k \in Nat \ {0} : Op(r, Len(q) + k) = Op(s, k)

LEMMA OpPut ==
  ASSUME NEW s \in Seq(CallSet), NEW q \in Seq(CallSet)
  PROVE  OnTop(q, s, q \o s)
<1> DEFINE r == q \o s
<1>1. /\ r \in Seq(CallSet) /\ Len(q) \in Nat /\ Len(s) \in Nat /\ Len(r) = Len(q) + Len(s)
      /\ \A i \in 1..(Len(q) + Len(s)) : r[i] = IF i <= Len(q) THEN q[i] ELSE s[i - Len(q)]
  BY ConcatProperties
<1> HIDE DEF r
<1>2. \A k \in 1..Len(q) : r[k] = q[k] /\ Op(r, k) = q[k].op
  BY <1>1 DEF Op
<1>3. ASSUME NEW k \in Nat \ {0} PROVE Op(r, Len(q) + k) = Op(s, k)
  <2>1. CASE k <= Len(s)
    <3>1. Len(q) + k \in 1..(Len(q) + Len(s)) /\ ~(Len(q) + k <= Len(q)) /\ (Len(q) + k) - Len(q) = k
          /\ k \in 1..Len(s)
      BY <2>1, <1>1
    <3>2. r[Len(q) + k] = s[k]
      BY <3>1, <1>1
    <3> QED
      BY <3>1, <3>2, <1>1 DEF Op
  <2>2. CASE ~(k <= Len(s))
    BY <2>2, <1>1 DEF Op
  <2> QED
    BY <2>1, <2>2
<1> QED
  BY <1>1, <1>2, <1>3 DEF r, OnTop

(* The first operations of such a stack, for no call, one or two.          *)
On0(s, r) ==
  /\ Len(r) = Len(s) /\ Op(r, 1) = Op(s, 1) /\ Op(r, 2) = Op(s, 2)
  /\ Op(r, 3) = Op(s, 3) /\ Op(r, 4) = Op(s, 4)
On1(q, s, r) ==
  /\ Len(r) = Len(s) + 1 /\ r[1] = q[1] /\ Op(r, 1) = q[1].op /\ Op(r, 2) = Op(s, 1)
  /\ Op(r, 3) = Op(s, 2) /\ Op(r, 4) = Op(s, 3)
On2(q, s, r) ==
  /\ Len(r) = Len(s) + 2 /\ r[1] = q[1] /\ Op(r, 1) = q[1].op /\ Op(r, 2) = q[2].op
  /\ Op(r, 3) = Op(s, 1) /\ Op(r, 4) = Op(s, 2)

LEMMA OnTopOps ==
  ASSUME NEW q, NEW s, NEW r, OnTop(q, s, r)
  PROVE  /\ Len(q) = 0 => On0(s, r)
         /\ Len(q) = 1 => On1(q, s, r)
         /\ Len(q) = 2 => On2(q, s, r)
<1>1. /\ Len(q) \in Nat /\ Len(s) \in Nat /\ Len(r) = Len(q) + Len(s)
      /\ \A k \in 1..Len(q) : r[k] = q[k] /\ Op(r, k) = q[k].op
      /\ Op(r, Len(q) + 1) = Op(s, 1) /\ Op(r, Len(q) + 2) = Op(s, 2)
      /\ Op(r, Len(q) + 3) = Op(s, 3) /\ Op(r, Len(q) + 4) = Op(s, 4)
  BY DEF OnTop
<1>2. ASSUME Len(q) = 0 PROVE On0(s, r)
  BY <1>1, <1>2 DEF On0
<1>3. ASSUME Len(q) = 1 PROVE On1(q, s, r)
  BY <1>1, <1>3 DEF On1
<1>4. ASSUME Len(q) = 2 PROVE On2(q, s, r)
  BY <1>1, <1>4 DEF On2
<1> QED
  BY <1>2, <1>3, <1>4

(* A call returns.                                                         *)
LEMMA OpPop ==
  ASSUME NEW s \in Seq(CallSet), s # <<>>
  PROVE  /\ Tail(s) \in Seq(CallSet) /\ Len(s) \in Nat \ {0} /\ Len(Tail(s)) = Len(s) - 1
         /\ Head(s) = s[1] /\ Op(s, 1) = s[1].op
         /\ \A k \in Nat \ {0} : Op(Tail(s), k) = Op(s, k + 1)
<1>1. /\ Tail(s) \in Seq(CallSet) /\ Len(s) \in Nat \ {0} /\ Len(Tail(s)) = Len(s) - 1
      /\ Head(s) = s[1]
      /\ \A k \in 1..(Len(s) - 1) : Tail(s)[k] = s[k + 1]
  BY HeadAndTail
<1>2. Op(s, 1) = s[1].op
  BY <1>1 DEF Op
<1>3. ASSUME NEW k \in Nat \ {0} PROVE Op(Tail(s), k) = Op(s, k + 1)
  <2>1. CASE k <= Len(s) - 1
    <3>1. k \in 1..(Len(s) - 1) /\ k \in 1..Len(Tail(s)) /\ k + 1 \in 1..Len(s)
      BY <2>1, <1>1
    <3> QED
      BY <3>1, <1>1 DEF Op
  <2>2. CASE ~(k <= Len(s) - 1)
    <3>1. k \notin 1..Len(Tail(s)) /\ k + 1 \notin 1..Len(s)
      BY <2>2, <1>1
    <3> QED
      BY <3>1 DEF Op
  <2> QED
    BY <2>1, <2>2
<1> QED
  BY <1>1, <1>2, <1>3

(* The stack t is s without its innermost call, with one other, with two.  *)
Popped(s, t) ==
  /\ Len(t) = Len(s) - 1
  /\ Op(t, 1) = Op(s, 2) /\ Op(t, 2) = Op(s, 3) /\ Op(t, 3) = Op(s, 4) /\ Op(t, 4) = Op(s, 5)
Put1(s, t, a) ==
  /\ Len(t) = Len(s)
  /\ Op(t, 1) = a /\ Op(t, 2) = Op(s, 2) /\ Op(t, 3) = Op(s, 3) /\ Op(t, 4) = Op(s, 4)
Put2(s, t, a, b) ==
  /\ Len(t) = Len(s) + 1
  /\ Op(t, 1) = a /\ Op(t, 2) = b /\ Op(t, 3) = Op(s, 2) /\ Op(t, 4) = Op(s, 3)
Put3(s, t, a, b, c) ==
  /\ Len(t) = Len(s) + 2
  /\ Op(t, 1) = a /\ Op(t, 2) = b /\ Op(t, 3) = c /\ Op(t, 4) = Op(s, 2)

(* A stack of calls and its innermost one.                                 *)
LEMMA OpTop ==
  ASSUME TypeInv
  PROVE  /\ calls \in Seq(CallSet) /\ Len(calls) \in Nat
         /\ calls = <<>> <=> Len(calls) = 0
         /\ Top.op = IF Len(calls) = 0 THEN "loop" ELSE Op(calls, 1)
         /\ Len(calls) > 0 => Top = calls[1] /\ Op(calls, 1) # "loop" /\ calls[1].op = Op(calls, 1)
<1>1. calls \in Seq(CallSet) /\ Len(calls) \in Nat /\ (calls = <<>> <=> Len(calls) = 0)
  BY EmptySeq DEF TypeInv
<1>2. CASE calls = <<>>
  BY <1>1, <1>2 DEF Top, Call
<1>3. CASE calls # <<>>
  <2>1. Head(calls) = calls[1] /\ Op(calls, 1) = calls[1].op /\ Head(calls) \in CallSet
    BY <1>1, <1>3, OpPop, HeadAndTail
  <2>2. Head(calls).op # "loop"
    BY <2>1, CallFields
  <2>3. Top = calls[1]
    BY <1>3, <2>1 DEF Top
  <2> QED
    BY <1>1, <1>3, <2>1, <2>2, <2>3
<1> QED
  BY <1>2, <1>3

LEMMA ReturnOps ==
  ASSUME TypeInv, Len(calls) > 0, Return
  PROVE  Popped(calls, calls')
<1>1. calls \in Seq(CallSet) /\ calls # <<>>
  BY OpTop
<1>2. calls' = Tail(calls)
  BY DEF Return, Below
<1>3. /\ Len(Tail(calls)) = Len(calls) - 1
      /\ \A k \in Nat \ {0} : Op(Tail(calls), k) = Op(calls, k + 1)
  BY <1>1, OpPop
<1>4. /\ Op(Tail(calls), 1) = Op(calls, 1 + 1) /\ Op(Tail(calls), 2) = Op(calls, 2 + 1)
      /\ Op(Tail(calls), 3) = Op(calls, 3 + 1) /\ Op(Tail(calls), 4) = Op(calls, 4 + 1)
  BY <1>3
<1> QED
  BY <1>2, <1>3, <1>4 DEF Popped

LEMMA DoOps ==
  ASSUME TypeInv, Len(calls) > 0
  PROVE  /\ \A c \in CallSet : Do(<<c>>) => Put1(calls, calls', c.op)
         /\ \A c, d \in CallSet : Do(<<c, d>>) => Put2(calls, calls', c.op, d.op)
<1> DEFINE s == Tail(calls)
<1>1. calls \in Seq(CallSet) /\ calls # <<>>
  BY OpTop
<1>2. /\ s \in Seq(CallSet) /\ Len(s) = Len(calls) - 1 /\ Len(calls) \in Nat \ {0}
      /\ \A k \in Nat \ {0} : Op(s, k) = Op(calls, k + 1)
  BY <1>1, OpPop
<1>3. Op(s, 1) = Op(calls, 2) /\ Op(s, 2) = Op(calls, 3) /\ Op(s, 3) = Op(calls, 4)
  <2>1. Op(s, 1) = Op(calls, 1 + 1) /\ Op(s, 2) = Op(calls, 2 + 1) /\ Op(s, 3) = Op(calls, 3 + 1)
    BY <1>2
  <2> QED
    BY <2>1
<1> HIDE DEF s
<1>4. ASSUME NEW c \in CallSet, calls' = <<c>> \o s PROVE Put1(calls, calls', c.op)
  <2> DEFINE q == <<c>>
  <2>1. q \in Seq(CallSet) /\ Len(q) = 1 /\ q[1] = c
    OBVIOUS
  <2>2. calls' = q \o s
    BY <1>4
  <2> HIDE DEF q
  <2>3. OnTop(q, s, calls')
    BY <1>2, <2>1, <2>2, OpPut, Zenon
  <2>4. On1(q, s, calls')
    BY <2>1, <2>3, OnTopOps, Zenon
  <2> QED
    BY <1>2, <1>3, <2>1, <2>4 DEF Put1, On1
<1>5. ASSUME NEW c \in CallSet, NEW d \in CallSet, calls' = <<c, d>> \o s
      PROVE  Put2(calls, calls', c.op, d.op)
  <2> DEFINE q == <<c, d>>
  <2>1. q \in Seq(CallSet) /\ Len(q) = 2 /\ q[1] = c /\ q[2] = d
    OBVIOUS
  <2>2. calls' = q \o s
    BY <1>5
  <2> HIDE DEF q
  <2>3. OnTop(q, s, calls')
    BY <1>2, <2>1, <2>2, OpPut, Zenon
  <2>4. On2(q, s, calls')
    BY <2>1, <2>3, OnTopOps, Zenon
  <2> QED
    BY <1>2, <1>3, <2>1, <2>4 DEF Put2, On2
<1> QED
  BY <1>4, <1>5 DEF Do, Below, s

(* An event is dispatched with the calls q: at the event loop, in the      *)
(* login dialog, or in a nested ssh2_sched, which moves on to op.          *)
LEMMA DispatchOps ==
  ASSUME TypeInv, NEW op \in {"net", "yield"}, NEW q \in Seq(CallSet), Dispatched(op, q),
         AtLoop \/ Len(calls) > 0
  PROVE  /\ AtLoop => OnTop(q, calls, calls')
         /\ ~AtLoop =>
              /\ OnTop(q, <<Call(op, 0)>> \o Tail(calls), calls')
              /\ OnTop(<<Call(op, 0)>>, Tail(calls), <<Call(op, 0)>> \o Tail(calls))
<1>1. calls \in Seq(CallSet) /\ (Len(calls) > 0 => calls # <<>>)
  BY OpTop
<1>2. ASSUME AtLoop PROVE OnTop(q, calls, calls')
  <2>1. calls' = q \o calls
    BY <1>2 DEF Dispatched
  <2> QED
    BY <1>1, <2>1, OpPut, Zenon
<1>3. ASSUME ~AtLoop
      PROVE  /\ OnTop(q, <<Call(op, 0)>> \o Tail(calls), calls')
             /\ OnTop(<<Call(op, 0)>>, Tail(calls), <<Call(op, 0)>> \o Tail(calls))
  <2> DEFINE c == Call(op, 0)
             s == Tail(calls)
  <2>1. c \in CallSet
    BY CallTypes
  <2>2. s \in Seq(CallSet)
    BY <1>1, <1>3, OpPop
  <2>3. calls' = (q \o <<c>>) \o s
    BY <1>3 DEF Dispatched, Below
  <2> HIDE DEF c, s
  <2>4. <<c>> \in Seq(CallSet)
    BY <2>1
  <2>5. calls' = q \o (<<c>> \o s)
    BY <2>2, <2>3, <2>4, ConcatAssociative
  <2>6. OnTop(<<c>>, s, <<c>> \o s)
    BY <2>2, <2>4, OpPut, Zenon
  <2>7. <<c>> \o s \in Seq(CallSet)
    BY <2>2, <2>4, ConcatProperties
  <2>8. OnTop(q, <<c>> \o s, calls')
    BY <2>5, <2>7, OpPut, Zenon
  <2> QED
    BY <2>6, <2>8 DEF c, s
<1> QED
  BY <1>2, <1>3

(* The event loop, and the login dialog; and the part op of a nested event *)
(* loop that follows the part a.                                           *)
InLoop(n, a) == n = 0 \/ (n = 1 /\ a = "login")
NextPart(a, op) == (a = "user" /\ op = "net") \/ (a = "net" /\ op = "yield")

(* The stack after an event without calls, with one, with two.             *)
Disp0(s, t, op) ==
  Len(s) > 1 => Put1(s, t, op)
Disp1(s, t, op, a) ==
  /\ InLoop(Len(s), Op(s, 1)) => Len(t) = Len(s) + 1 /\ Op(t, 1) = a /\ Op(t, 2) = Op(s, 1)
  /\ Len(s) > 1 => Put2(s, t, a, op)
Disp2(s, t, op, a, b) ==
  /\ InLoop(Len(s), Op(s, 1)) => Len(t) = Len(s) + 2 /\ Op(t, 1) = a /\ Op(t, 2) = b
  /\ Len(s) > 1 => Put3(s, t, a, b, op)

LEMMA FewCalls ==
  ASSUME NEW n \in Nat
  PROVE  /\ n <= 1 \/ n > 1
         /\ n <= 1 => ~(n > 1)
         /\ n > 1 => n # 0 /\ n # 1
         /\ n = 0 => n + 1 = 1 /\ n + 2 = 2
         /\ n = 1 => n + 1 = 2
OBVIOUS

LEMMA DispatchedOps ==
  ASSUME TypeInv, NEW op \in {"net", "yield"},
         InLoop(Len(calls), Op(calls, 1))
           \/ (Len(calls) > 1 /\ Op(calls, 1) \in {"user", "net"})
  PROVE  /\ Dispatched(op, <<>>) => Disp0(calls, calls', op)
         /\ \A c \in CallSet :
              Dispatched(op, <<c>>) => Disp1(calls, calls', op, c.op) /\ calls'[1] = c
         /\ \A c, d \in CallSet :
              Dispatched(op, <<c, d>>) => Disp2(calls, calls', op, c.op, d.op) /\ calls'[1] = c
<1> DEFINE s == Tail(calls)
           u == <<Call(op, 0)>>
           v == u \o s
<1>1. /\ calls \in Seq(CallSet) /\ Len(calls) \in Nat /\ (calls = <<>> <=> Len(calls) = 0)
      /\ Top.op = IF Len(calls) = 0 THEN "loop" ELSE Op(calls, 1)
  BY OpTop
<1>0. Len(calls) \in Nat
  BY <1>1
<1>2. /\ Len(calls) > 1 => ~AtLoop
      /\ Len(calls) <= 1 => AtLoop
  <2>1. CASE Len(calls) = 0
    BY <1>1, <2>1 DEF AtLoop
  <2>2. CASE Len(calls) = 1 /\ Op(calls, 1) = "login"
    BY <1>1, <2>2 DEF AtLoop
  <2>3. CASE Len(calls) > 1 /\ Op(calls, 1) \in {"user", "net"}
    <3>1. Len(calls) # 0 /\ ~(Len(calls) <= 1)
      BY <1>0, <2>3
    <3>2. Top.op \in {"user", "net"}
      BY <1>1, <2>3, <3>1
    <3> QED
      BY <3>1, <3>2 DEF AtLoop
  <2> QED
    BY <2>1, <2>2, <2>3, Zenon DEF InLoop
<1>3. Len(calls) > 1 => /\ s \in Seq(CallSet) /\ Len(s) = Len(calls) - 1
                        /\ Op(s, 1) = Op(calls, 1 + 1) /\ Op(s, 2) = Op(calls, 2 + 1)
                        /\ Op(s, 3) = Op(calls, 3 + 1)
  BY <1>1, OpPop
<1>4. u \in Seq(CallSet) /\ Len(u) = 1 /\ u[1].op = op
  BY CallTypes DEF Call
<1>5. ASSUME NEW q \in Seq(CallSet), Dispatched(op, q)
      PROVE  /\ Len(calls) <= 1 => OnTop(q, calls, calls')
             /\ Len(calls) > 1 => OnTop(q, v, calls') /\ OnTop(u, s, v)
  <2>1. Len(calls) > 1 => Len(calls) > 0
    BY <1>1
  <2> QED
    BY <1>1, <1>2, <1>5, <2>1, DispatchOps
<1> HIDE DEF s, u, v
<1>6. ASSUME OnTop(u, s, v), Len(calls) > 1
      PROVE  /\ Len(v) = Len(calls) /\ Op(v, 1) = op /\ Op(v, 2) = Op(calls, 2)
             /\ Op(v, 3) = Op(calls, 3) /\ Op(v, 4) = Op(calls, 4)
  <2>1. On1(u, s, v)
    BY <1>4, <1>6, OnTopOps, Zenon
  <2>2. Len(v) = Len(calls)
    BY <1>1, <1>3, <1>6, <2>1 DEF On1
  <2>3. Op(s, 1) = Op(calls, 2) /\ Op(s, 2) = Op(calls, 3) /\ Op(s, 3) = Op(calls, 4)
    BY <1>3, <1>6
  <2> QED
    BY <1>4, <2>1, <2>2, <2>3, Zenon DEF On1
<1>7. /\ Len(calls) <= 1 \/ Len(calls) > 1
      /\ Len(calls) <= 1 => ~(Len(calls) > 1)
      /\ Len(calls) > 1 => Len(calls) # 0 /\ Len(calls) # 1
      /\ Len(calls) = 0 => Len(calls) + 1 = 1 /\ Len(calls) + 2 = 2
      /\ Len(calls) = 1 => Len(calls) + 1 = 2
  BY <1>0, FewCalls, Zenon
<1>8. ASSUME NEW q \in Seq(CallSet), Dispatched(op, q), Len(q) = 0
      PROVE  Disp0(calls, calls', op)
  <2>1. ASSUME Len(calls) <= 1 PROVE Disp0(calls, calls', op)
    BY <1>7, <2>1, Zenon DEF Disp0
  <2>2. ASSUME Len(calls) > 1 PROVE Disp0(calls, calls', op)
    <3>1. On0(v, calls')
      BY <1>5, <1>8, <2>2, OnTopOps, Zenon
    <3>2. Put1(calls, calls', op)
      BY <1>5, <1>6, <1>8, <2>2, <3>1, Zenon DEF Put1, On0
    <3> QED
      BY <1>7, <2>2, <3>2, Zenon DEF Disp0
  <2> QED
    BY <1>7, <2>1, <2>2, Zenon
<1>9. ASSUME NEW q \in Seq(CallSet), Dispatched(op, q), Len(q) = 1
      PROVE  Disp1(calls, calls', op, q[1].op) /\ calls'[1] = q[1]
  <2>1. ASSUME Len(calls) <= 1
        PROVE  Disp1(calls, calls', op, q[1].op) /\ calls'[1] = q[1]
    <3>1. On1(q, calls, calls')
      BY <1>5, <1>9, <2>1, OnTopOps, Zenon
    <3> QED
      BY <1>7, <2>1, <3>1, Zenon DEF Disp1, On1, InLoop
  <2>2. ASSUME Len(calls) > 1
        PROVE  Disp1(calls, calls', op, q[1].op) /\ calls'[1] = q[1]
    <3>1. On1(q, v, calls') /\ OnTop(u, s, v)
      BY <1>5, <1>9, <2>2, OnTopOps, Zenon
    <3>2. Put2(calls, calls', q[1].op, op)
      BY <1>6, <2>2, <3>1, Zenon DEF Put2, On1
    <3> QED
      BY <1>7, <2>2, <3>1, <3>2, Zenon DEF Disp1, On1, InLoop
  <2> QED
    BY <1>7, <2>1, <2>2, Zenon
<1>10. ASSUME NEW q \in Seq(CallSet), Dispatched(op, q), Len(q) = 2
       PROVE  Disp2(calls, calls', op, q[1].op, q[2].op) /\ calls'[1] = q[1]
  <2>1. ASSUME Len(calls) <= 1
        PROVE  Disp2(calls, calls', op, q[1].op, q[2].op) /\ calls'[1] = q[1]
    <3>1. On2(q, calls, calls')
      BY <1>5, <1>10, <2>1, OnTopOps, Zenon
    <3> QED
      BY <1>7, <2>1, <3>1, Zenon DEF Disp2, On2, InLoop
  <2>2. ASSUME Len(calls) > 1
        PROVE  Disp2(calls, calls', op, q[1].op, q[2].op) /\ calls'[1] = q[1]
    <3>1. On2(q, v, calls') /\ OnTop(u, s, v)
      BY <1>5, <1>10, <2>2, OnTopOps, Zenon
    <3>2. Put3(calls, calls', q[1].op, q[2].op, op)
      BY <1>6, <2>2, <3>1, Zenon DEF Put3, On2
    <3> QED
      BY <1>7, <2>2, <3>1, <3>2, Zenon DEF Disp2, On2, InLoop
  <2> QED
    BY <1>7, <2>1, <2>2, Zenon
<1>11. ASSUME Dispatched(op, <<>>) PROVE Disp0(calls, calls', op)
  <2>1. <<>> \in Seq(CallSet) /\ Len(<<>>) = 0
    OBVIOUS
  <2> QED
    BY <1>8, <1>11, <2>1, Zenon
<1>12. ASSUME NEW c \in CallSet, Dispatched(op, <<c>>)
       PROVE  Disp1(calls, calls', op, c.op) /\ calls'[1] = c
  <2>1. <<c>> \in Seq(CallSet) /\ Len(<<c>>) = 1 /\ <<c>>[1] = c
    OBVIOUS
  <2> QED
    BY <1>9, <1>12, <2>1
<1>13. ASSUME NEW c \in CallSet, NEW d \in CallSet, Dispatched(op, <<c, d>>)
       PROVE  Disp2(calls, calls', op, c.op, d.op) /\ calls'[1] = c
  <2>1. <<c, d>> \in Seq(CallSet) /\ Len(<<c, d>>) = 2 /\ <<c, d>>[1] = c /\ <<c, d>>[2] = d
    OBVIOUS
  <2> QED
    BY <1>10, <1>13, <2>1
<1> QED
  BY <1>11, <1>12, <1>13

-----------------------------------------------------------------------------
(* The queue.                                                              *)

LEMMA EventTail ==
  ASSUME NEW C, NEW e \in Seq(C), e # <<>>
  PROVE  /\ \A S : NoEv(e, S) => NoEv(Tail(e), S)
         /\ \A a : OneEv(e, a) => OneEv(Tail(e), a)
         /\ \A a, S : NoneBehind(e, a, S) => NoneBehind(Tail(e), a, S)
         /\ \A a : OneEv(e, a) /\ Head(e).what = a => NoEv(Tail(e), {a})
         /\ \A a, S : NoneBehind(e, a, S) /\ Head(e).what = a => NoEv(Tail(e), S)
<1>1. /\ Len(e) \in Nat \ {0} /\ Len(Tail(e)) = Len(e) - 1 /\ Head(e) = e[1]
      /\ \A k \in 1..(Len(e) - 1) : Tail(e)[k] = e[k + 1]
  BY HeadAndTail
<1>2. \A k \in 1..Len(Tail(e)) : Tail(e)[k] = e[k + 1] /\ k + 1 \in 1..Len(e) /\ k \in Nat /\ k # 0
  BY <1>1
<1>3. 1 \in 1..Len(e)
  BY <1>1
<1>4. ASSUME NEW S, NoEv(e, S) PROVE NoEv(Tail(e), S)
  BY <1>2, <1>4 DEF NoEv
<1>5. ASSUME NEW a, OneEv(e, a) PROVE OneEv(Tail(e), a)
  <2> SUFFICES ASSUME NEW j \in 1..Len(Tail(e)), NEW k \in 1..Len(Tail(e)),
                      Tail(e)[j].what = a, Tail(e)[k].what = a
               PROVE  j = k
    BY DEF OneEv
  <2>1. j + 1 = k + 1
    BY <1>2, <1>5 DEF OneEv
  <2> QED
    BY <1>2, <2>1
<1>6. ASSUME NEW a, NEW S, NoneBehind(e, a, S) PROVE NoneBehind(Tail(e), a, S)
  <2> SUFFICES ASSUME NEW j \in 1..Len(Tail(e)), NEW k \in 1..Len(Tail(e)),
                      Tail(e)[j].what = a, Tail(e)[k].what \in S
               PROVE  k < j
    BY DEF NoneBehind
  <2>1. k + 1 < j + 1
    BY <1>2, <1>6 DEF NoneBehind
  <2> QED
    BY <1>2, <2>1
<1>7. ASSUME NEW a, OneEv(e, a), Head(e).what = a PROVE NoEv(Tail(e), {a})
  <2> SUFFICES ASSUME NEW k \in 1..Len(Tail(e)), Tail(e)[k].what = a PROVE FALSE
    BY DEF NoEv
  <2>1. 1 = k + 1
    BY <1>1, <1>2, <1>3, <1>7 DEF OneEv
  <2> QED
    BY <1>2, <2>1
<1>8. ASSUME NEW a, NEW S, NoneBehind(e, a, S), Head(e).what = a PROVE NoEv(Tail(e), S)
  <2> SUFFICES ASSUME NEW k \in 1..Len(Tail(e)), Tail(e)[k].what \in S PROVE FALSE
    BY DEF NoEv
  <2>1. k + 1 < 1
    BY <1>1, <1>2, <1>3, <1>8 DEF NoneBehind
  <2> QED
    BY <1>2, <2>1
<1> QED
  BY <1>4, <1>5, <1>6, <1>7, <1>8

LEMMA EventAppend ==
  ASSUME NEW C, NEW e \in Seq(C), NEW v \in C
  PROVE  /\ \A S : NoEv(e, S) /\ v.what \notin S => NoEv(Append(e, v), S)
         /\ \A a : OneEv(e, a) /\ v.what # a => OneEv(Append(e, v), a)
         /\ \A a : NoEv(e, {a}) => OneEv(Append(e, v), a)
         /\ \A a, S : NoneBehind(e, a, S) /\ v.what \notin S => NoneBehind(Append(e, v), a, S)
         /\ \A a, S : NoEv(e, {a}) /\ v.what # a => NoneBehind(Append(e, v), a, S)
<1> DEFINE f == Append(e, v)
           n == Len(e)
<1>1. /\ n \in Nat /\ Len(f) = n + 1 /\ f[n + 1] = v
      /\ \A k \in 1..n : f[k] = e[k]
  BY AppendProperties
<1> HIDE DEF f, n
<1>2. \A k \in 1..Len(f) : (k \in 1..n /\ f[k] = e[k] /\ k < n + 1) \/ (k = n + 1 /\ f[k] = v)
  BY <1>1
<1>3. ASSUME NEW S, NoEv(e, S), v.what \notin S PROVE NoEv(f, S)
  BY <1>2, <1>3 DEF NoEv, n
<1>4. ASSUME NEW a, OneEv(e, a), v.what # a PROVE OneEv(f, a)
  BY <1>2, <1>4 DEF OneEv, n
<1>5. ASSUME NEW a, NoEv(e, {a}) PROVE OneEv(f, a)
  <2>1. \A k \in 1..Len(f) : f[k].what = a => k = n + 1
    BY <1>2, <1>5 DEF NoEv, n
  <2> QED
    BY <2>1 DEF OneEv
<1>6. ASSUME NEW a, NEW S, NoneBehind(e, a, S), v.what \notin S PROVE NoneBehind(f, a, S)
  <2> SUFFICES ASSUME NEW j \in 1..Len(f), NEW k \in 1..Len(f), f[j].what = a, f[k].what \in S
               PROVE  k < j
    BY DEF NoneBehind
  <2>1. k \in 1..n /\ f[k] = e[k] /\ k < n + 1
    BY <1>2, <1>6
  <2>2. CASE j = n + 1
    BY <2>1, <2>2
  <2>3. CASE j # n + 1
    <3>1. j \in 1..n /\ f[j] = e[j]
      BY <1>2, <2>3
    <3> QED
      BY <1>6, <2>1, <3>1 DEF NoneBehind, n
  <2> QED
    BY <2>2, <2>3
<1>7. ASSUME NEW a, NEW S, NoEv(e, {a}), v.what # a PROVE NoneBehind(f, a, S)
  <2>1. \A k \in 1..Len(f) : f[k].what # a
    BY <1>2, <1>7 DEF NoEv, n
  <2> QED
    BY <2>1 DEF NoneBehind
<1> QED
  BY <1>3, <1>4, <1>5, <1>6, <1>7 DEF f

-----------------------------------------------------------------------------
(* The one slot.                                                           *)

LEMMA OneSlot ==
  ASSUME OneWindow, TypeInv, numwindows \in {0, 1}
  PROVE  /\ Slots = {0} /\ screens \in [Slots -> WindSet] /\ W \in WindSet
         /\ Table = IF numwindows = 1 THEN {0} ELSE {}
         /\ \A p : WindByPort(p) = IF numwindows = 1 /\ W.active \in Open2 /\ W.port = p THEN 0 ELSE -1
         /\ \A p : FindWindByPort(p) = IF numwindows = 1 /\ W.port = p THEN 0 ELSE -1
         /\ \A p : findbyVS(p) = IF numwindows = 1 /\ W.vs = p THEN 0 ELSE -1
<1>1. MaxSess = 1 /\ Slots = {0}
  BY DEF OneWindow, Slots
<1>2. screens \in [Slots -> WindSet] /\ W \in WindSet
  BY <1>1 DEF TypeInv, W
<1>3. Table = IF numwindows = 1 THEN {0} ELSE {}
  BY <1>1 DEF Table
<1>4. Min({0}) = 0
  BY MinIsIn
<1>5. First({0}) = 0 /\ First({}) = -1
  BY <1>4 DEF First
<1>6. \A p : {i \in Table : screens[i].port = p /\ Live(i)} = IF numwindows = 1 /\ W.active \in Open2 /\ W.port = p THEN {0} ELSE {}
  BY <1>3 DEF Open2, W, Live
<1>7. \A p : {i \in Table : screens[i].port = p} = IF numwindows = 1 /\ W.port = p THEN {0} ELSE {}
  BY <1>3 DEF W
<1>8. \A p : {i \in Table : screens[i].vs = p} = IF numwindows = 1 /\ W.vs = p THEN {0} ELSE {}
  BY <1>3 DEF W
<1>9. \A p : WindByPort(p) = IF numwindows = 1 /\ W.active \in Open2 /\ W.port = p THEN 0 ELSE -1
  BY <1>5, <1>6, Zenon DEF WindByPort
<1>10. \A p : FindWindByPort(p) = IF numwindows = 1 /\ W.port = p THEN 0 ELSE -1
  BY <1>5, <1>7, Zenon DEF FindWindByPort
<1>11. \A p : findbyVS(p) = IF numwindows = 1 /\ W.vs = p THEN 0 ELSE -1
  BY <1>5, <1>8, Zenon DEF findbyVS
<1> QED
  BY <1>1, <1>2, <1>3, <1>9, <1>10, <1>11

(* destroyport takes the window out of the table and changes no field but  *)
(* active.                                                                 *)
LEMMA ShiftedOne ==
  ASSUME OneWindow, TypeInv, numwindows \in {0, 1}
  PROVE  Shifted(0) = [screens EXCEPT ![0].active = "NOTINUSE"]
<1>1. Slots = {0} /\ screens \in [Slots -> WindSet]
  BY OneSlot
<1> DEFINE m == [screens EXCEPT ![0].active = "NOTINUSE"]
<1>2. m = [i \in Slots |-> m[i]]
  BY <1>1
<1>3. Shifted(0) = [i \in Slots |-> IF i >= 0 /\ i < numwindows - 1 THEN m[i + 1] ELSE m[i]]
  BY DEF Shifted
<1> HIDE DEF m
<1>4. \A i \in Slots : ~(i >= 0 /\ i < numwindows - 1)
  BY <1>1
<1> QED
  BY <1>2, <1>3, <1>4 DEF m

-----------------------------------------------------------------------------
(* The steps.                                                              *)

(* Short stacks.                                                           *)
Ends(s) ==
  /\ Len(s) \in Nat
  /\ Len(s) = 0 => Op(s, 1) = "none" /\ Op(s, 2) = "none"
  /\ Len(s) = 1 => Op(s, 2) = "none"

LEMMA StackEnds ==
  ASSUME NEW s, Len(s) \in Nat
  PROVE  Ends(s)
BY DEF Ends, Op

(* The stack and the window, before and after each kind of step.           *)

(* removeport calls ssh_protocol_close.                                    *)
LEMMA PutRemove ==
  ASSUME NEW n \in Nat, NEW a, NEW b, NEW c, NEW d, NEW arg, NEW nw, NEW active, NEW port,
         NEW thread, NEW used, StackOf(n, a, b, c, d, arg, nw, active, port, thread, used),
         n = 0 => a = "none" /\ b = "none", n = 1 => b = "none",
         NEW x, a = "removeport", n > 0
  PROVE  StackOf(n + 1, "protocol_close", "removed", b, c, x, nw, active, port, thread, used)
BY DEF StackOf, ShapeOf, ThreadOf, StreamOf, Shaped, Outermost, Leaving, Open2

(* ssh_protocol_close finds no thread.                                     *)
LEMMA PopClosed ==
  ASSUME NEW n \in Nat, NEW a, NEW b, NEW c, NEW d, NEW arg, NEW nw, NEW active, NEW port,
         NEW thread, NEW used, StackOf(n, a, b, c, d, arg, nw, active, port, thread, used),
         n = 0 => a = "none" /\ b = "none", n = 1 => b = "none",
         NEW x, NEW e, a = "protocol_close", n > 0, thread = None
  PROVE  StackOf(n - 1, b, c, d, e, x, nw, active, port, thread, used)
BY DEF StackOf, ShapeOf, ThreadOf, StreamOf, Shaped, Outermost, Leaving, Open2

(* ssh_protocol_close tells the thread, and nests an event loop.           *)
LEMMA PutUser ==
  ASSUME NEW n \in Nat, NEW a, NEW b, NEW c, NEW d, NEW arg, NEW nw, NEW active, NEW port,
         NEW thread, NEW used, StackOf(n, a, b, c, d, arg, nw, active, port, thread, used),
         n = 0 => a = "none" /\ b = "none", n = 1 => b = "none",
         NEW x, a = "protocol_close", n > 0, thread # None
  PROVE  StackOf(n, "user", b, c, d, x, nw, active, port, None, used)
BY DEF StackOf, ShapeOf, ThreadOf, StreamOf, Shaped, Outermost, Leaving, Open2

(* netclose has nothing more to do, or has posted CLOSEDONE.               *)
LEMMA PopNetclose ==
  ASSUME NEW n \in Nat, NEW a, NEW b, NEW c, NEW d, NEW arg, NEW nw, NEW active, NEW port,
         NEW thread, NEW used, StackOf(n, a, b, c, d, arg, nw, active, port, thread, used),
         n = 0 => a = "none" /\ b = "none", n = 1 => b = "none",
         NEW x, NEW e, a = "netclose", n > 0
  PROVE  StackOf(n - 1, b, c, d, e, x, nw, active, port, thread, used \ {arg})
BY DEF StackOf, ShapeOf, ThreadOf, StreamOf, Shaped, Outermost, Leaving, Open2

(* netclose goes on to ssh_protocol_close.                                 *)
LEMMA PutClose ==
  ASSUME NEW n \in Nat, NEW a, NEW b, NEW c, NEW d, NEW arg, NEW nw, NEW active, NEW port,
         NEW thread, NEW used, StackOf(n, a, b, c, d, arg, nw, active, port, thread, used),
         n = 0 => a = "none" /\ b = "none", n = 1 => b = "none",
         NEW x, a = "netclose", n > 0, arg \in used
  PROVE  StackOf(n, "protocol_close", b, c, d, x, nw, active, port, thread, used \ {arg})
BY DEF StackOf, ShapeOf, ThreadOf, StreamOf, Shaped, Outermost, Leaving, Open2

(* removeport finds the window gone.                                       *)
LEMMA PopRemoved ==
  ASSUME NEW n \in Nat, NEW a, NEW b, NEW c, NEW d, NEW arg, NEW nw, NEW active, NEW port,
         NEW thread, NEW used, StackOf(n, a, b, c, d, arg, nw, active, port, thread, used),
         n = 0 => a = "none" /\ b = "none", n = 1 => b = "none",
         NEW x, NEW e, a = "removed", n > 0, nw = 0
  PROVE  StackOf(n - 1, b, c, d, e, x, nw, active, port, thread, used)
BY DEF StackOf, ShapeOf, ThreadOf, StreamOf, Shaped, Outermost, Leaving, Open2

(* The window goes.                                                        *)
LEMMA PopDestroyed ==
  ASSUME NEW n \in Nat, NEW a, NEW b, NEW c, NEW d, NEW arg, NEW nw, NEW active, NEW port,
         NEW thread, NEW used, StackOf(n, a, b, c, d, arg, nw, active, port, thread, used),
         n = 0 => a = "none" /\ b = "none", n = 1 => b = "none",
         NEW x, NEW e, NEW y, a = "removed" \/ a = "destroyport", n > 0, nw = 1
  PROVE  StackOf(n - 1, b, c, d, e, x, 0, "NOTINUSE", y, thread, used)
BY DEF StackOf, ShapeOf, ThreadOf, StreamOf, Shaped, Outermost, Leaving, Open2

(* The window stays as a corpse.                                           *)
LEMMA PopCorpse ==
  ASSUME NEW n \in Nat, NEW a, NEW b, NEW c, NEW d, NEW arg, NEW nw, NEW active, NEW port,
         NEW thread, NEW used, StackOf(n, a, b, c, d, arg, nw, active, port, thread, used),
         n = 0 => a = "none" /\ b = "none", n = 1 => b = "none",
         NEW x, NEW e, NEW y, a = "removed", n > 0
  PROVE  StackOf(n - 1, b, c, d, e, x, nw, "ISCORPSE", y, thread, used)
BY DEF StackOf, ShapeOf, ThreadOf, StreamOf, Shaped, Outermost, Leaving, Open2

Creating(a) == a = "create" \/ a = "login"

(* A session takes the slot.                                               *)
LEMMA PutOpen ==
  ASSUME NEW n \in Nat, NEW a, NEW b, NEW c, NEW d, NEW arg, NEW nw, NEW active, NEW port,
         NEW thread, NEW used, StackOf(n, a, b, c, d, arg, nw, active, port, thread, used),
         n = 0 => a = "none" /\ b = "none", n = 1 => b = "none",
         NEW x, NEW y, NEW op, Creating(op), InLoop(n, a), nw = 0, NEW e1, NEW e2, NEW e3
  PROVE  StackOf(n + 1, op, e1, e2, e3, x, 1, "NOTINUSE", y, None, used)
BY DEF StackOf, ShapeOf, ThreadOf, StreamOf, Shaped, Outermost, Leaving, Open2, Creating, InLoop, NextPart

(* Its window is there.                                                    *)
LEMMA PopOpened ==
  ASSUME NEW n \in Nat, NEW a, NEW b, NEW c, NEW d, NEW arg, NEW nw, NEW active, NEW port,
         NEW thread, NEW used, StackOf(n, a, b, c, d, arg, nw, active, port, thread, used),
         n = 0 => a = "none" /\ b = "none", n = 1 => b = "none",
         NEW x, NEW e, Creating(a), n > 0
  PROVE  StackOf(n - 1, b, c, d, e, x, nw, "DNRWAIT", port, thread, used)
BY DEF StackOf, ShapeOf, ThreadOf, StreamOf, Shaped, Outermost, Leaving, Open2, Creating

(* The session is not opened.                                              *)
LEMMA PopFailed ==
  ASSUME NEW n \in Nat, NEW a, NEW b, NEW c, NEW d, NEW arg, NEW nw, NEW active, NEW port,
         NEW thread, NEW used, StackOf(n, a, b, c, d, arg, nw, active, port, thread, used),
         n = 0 => a = "none" /\ b = "none", n = 1 => b = "none",
         NEW x, NEW e, Creating(a), n > 0
  PROVE  StackOf(n - 1, b, c, d, e, x, 0, "NOTINUSE", port, thread, used)
BY DEF StackOf, ShapeOf, ThreadOf, StreamOf, Shaped, Outermost, Leaving, Open2, Creating

(* An open window is closed at the event loop.                             *)
LEMMA PutClosing ==
  ASSUME NEW n \in Nat, NEW a, NEW b, NEW c, NEW d, NEW arg, NEW nw, NEW active, NEW port,
         NEW thread, NEW used, StackOf(n, a, b, c, d, arg, nw, active, port, thread, used),
         n = 0 => a = "none" /\ b = "none", n = 1 => b = "none",
         NEW e1, NEW e2, InLoop(n, a), nw = 1, active \in Open2
  PROVE  StackOf(n + 2, "netclose", "removeport", e1, e2, port, nw, active, port, thread, used)
BY DEF StackOf, ShapeOf, ThreadOf, StreamOf, Shaped, Outermost, Leaving, Open2, InLoop, NextPart

(* A corpse is closed.                                                     *)
LEMMA PutDestroy ==
  ASSUME NEW n \in Nat, NEW a, NEW b, NEW c, NEW d, NEW arg, NEW nw, NEW active, NEW port,
         NEW thread, NEW used, StackOf(n, a, b, c, d, arg, nw, active, port, thread, used),
         n = 0 => a = "none" /\ b = "none", n = 1 => b = "none",
         NEW x, NEW e1, NEW e2, NEW e3, InLoop(n, a), nw = 1, active = "ISCORPSE"
  PROVE  StackOf(n + 1, "destroyport", e1, e2, e3, x, nw, active, port, thread, used)
BY DEF StackOf, ShapeOf, ThreadOf, StreamOf, Shaped, Outermost, Leaving, Open2, InLoop, NextPart

(* A window is closed again in a nested event loop.                        *)
LEMMA PutClosingNested ==
  ASSUME NEW n \in Nat, NEW a, NEW b, NEW c, NEW d, NEW arg, NEW nw, NEW active, NEW port,
         NEW thread, NEW used, StackOf(n, a, b, c, d, arg, nw, active, port, thread, used),
         n = 0 => a = "none" /\ b = "none", n = 1 => b = "none",
         NEW x, NEW op, n > 1, NextPart(a, op)
  PROVE  StackOf(n + 2, "netclose", "removeport", op, b, x, nw, active, port, thread, used)
BY DEF StackOf, ShapeOf, ThreadOf, StreamOf, Shaped, Outermost, Leaving, Open2, InLoop, NextPart

(* The nested event loop moves on.                                         *)
LEMMA PutNested ==
  ASSUME NEW n \in Nat, NEW a, NEW b, NEW c, NEW d, NEW arg, NEW nw, NEW active, NEW port,
         NEW thread, NEW used, StackOf(n, a, b, c, d, arg, nw, active, port, thread, used),
         n = 0 => a = "none" /\ b = "none", n = 1 => b = "none",
         NEW x, NEW op, NextPart(a, op), n > 1
  PROVE  StackOf(n, op, b, c, d, x, nw, active, port, thread, used)
BY DEF StackOf, ShapeOf, ThreadOf, StreamOf, Shaped, Outermost, Leaving, Open2, InLoop, NextPart

(* ssh2_sched returns.                                                     *)
LEMMA PopYield ==
  ASSUME NEW n \in Nat, NEW a, NEW b, NEW c, NEW d, NEW arg, NEW nw, NEW active, NEW port,
         NEW thread, NEW used, StackOf(n, a, b, c, d, arg, nw, active, port, thread, used),
         n = 0 => a = "none" /\ b = "none", n = 1 => b = "none",
         NEW x, NEW e, a = "yield", n > 0
  PROVE  StackOf(n - 1, b, c, d, e, x, nw, active, port, thread, used)
BY DEF StackOf, ShapeOf, ThreadOf, StreamOf, Shaped, Outermost, Leaving, Open2

(* A netclose by itself, at the event loop or in the login dialog.         *)
LEMMA PutNetclose ==
  ASSUME NEW n \in Nat, NEW a, NEW b, NEW c, NEW d, NEW arg, NEW nw, NEW active, NEW port,
         NEW thread, NEW used, StackOf(n, a, b, c, d, arg, nw, active, port, thread, used),
         n = 0 => a = "none" /\ b = "none", n = 1 => b = "none",
         NEW x, NEW e1, NEW e2, x \notin used, InLoop(n, a)
  PROVE  StackOf(n + 1, "netclose", a, e1, e2, x, nw, active, port, thread, used)
BY DEF StackOf, ShapeOf, ThreadOf, StreamOf, Shaped, Outermost, Leaving, Open2, InLoop, NextPart

(* A netclose by itself in a nested event loop.                            *)
LEMMA PutNetcloseNested ==
  ASSUME NEW n \in Nat, NEW a, NEW b, NEW c, NEW d, NEW arg, NEW nw, NEW active, NEW port,
         NEW thread, NEW used, StackOf(n, a, b, c, d, arg, nw, active, port, thread, used),
         n = 0 => a = "none" /\ b = "none", n = 1 => b = "none",
         NEW x, a = "net", n > 1
  PROVE  StackOf(n + 1, "netclose", "yield", b, c, x, nw, active, port, thread, used)
BY DEF StackOf, ShapeOf, ThreadOf, StreamOf, Shaped, Outermost, Leaving, Open2

(* The session has begun.                                                  *)
LEMMA StartThread ==
  ASSUME NEW n \in Nat, NEW a, NEW b, NEW c, NEW d, NEW arg, NEW nw, NEW active, NEW port,
         NEW thread, NEW used, StackOf(n, a, b, c, d, arg, nw, active, port, thread, used),
         n = 0 => a = "none" /\ b = "none", n = 1 => b = "none",
         InLoop(n, a), nw = 1, active \in Open2, NEW y
  PROVE  StackOf(n, a, b, c, d, arg, nw, "ACTIVE", port, y, used)
BY DEF StackOf, ShapeOf, ThreadOf, StreamOf, Shaped, Outermost, Leaving, Open2, InLoop, NextPart

(* The session gets its stream.                                            *)
LEMMA GetStream ==
  ASSUME NEW n \in Nat, NEW a, NEW b, NEW c, NEW d, NEW arg, NEW nw, NEW active, NEW port,
         NEW thread, NEW used, StackOf(n, a, b, c, d, arg, nw, active, port, thread, used),
         n = 0 => a = "none" /\ b = "none", n = 1 => b = "none",
         InLoop(n, a), nw = 1, active = "DNRWAIT", NEW y
  PROVE  StackOf(n, a, b, c, d, arg, nw, "OPENING", y, thread, {y})
BY DEF StackOf, ShapeOf, ThreadOf, StreamOf, Shaped, Outermost, Leaving, Open2, InLoop, NextPart

(* The window goes at the event loop.                                      *)
LEMMA Lost ==
  ASSUME NEW n \in Nat, NEW a, NEW b, NEW c, NEW d, NEW arg, NEW nw, NEW active, NEW port,
         NEW thread, NEW used, StackOf(n, a, b, c, d, arg, nw, active, port, thread, used),
         n = 0 => a = "none" /\ b = "none", n = 1 => b = "none",
         InLoop(n, a), nw = 1, active = "DNRWAIT", NEW y, NEW z
  PROVE  StackOf(n, a, b, c, d, arg, 0, z, y, thread, used)
BY DEF StackOf, ShapeOf, ThreadOf, StreamOf, Shaped, Outermost, Leaving, Open2, InLoop, NextPart

(* The thread has ended.                                                   *)
LEMMA EndThread ==
  ASSUME NEW n \in Nat, NEW a, NEW b, NEW c, NEW d, NEW arg, NEW nw, NEW active, NEW port,
         NEW thread, NEW used, StackOf(n, a, b, c, d, arg, nw, active, port, thread, used),
         n = 0 => a = "none" /\ b = "none", n = 1 => b = "none"
  PROVE  StackOf(n, a, b, c, d, arg, nw, active, port, None, used)
BY DEF StackOf, ShapeOf, ThreadOf, StreamOf, Shaped, Outermost, Leaving, Open2

(* The window when its removal is due.                                     *)
Due(nw, active, thread, used) ==
  used = {} /\ thread = None /\ (nw = 1 => active \notin {"NOTINUSE", "DNRWAIT"})
DueCorpse(nw, active, thread, used) ==
  used = {} /\ thread = None /\ nw = 1 /\ active = "ISCORPSE"

LEMMA RemovedIs ==
  ASSUME NEW n \in Nat, NEW a, NEW b, NEW c, NEW d, NEW arg, NEW nw, NEW active, NEW port,
         NEW thread, NEW used, StackOf(n, a, b, c, d, arg, nw, active, port, thread, used),
         n = 0 => a = "none" /\ b = "none", n = 1 => b = "none",
         a = "removed", n > 0
  PROVE  Due(nw, active, thread, used)
BY DEF Due, StackOf, ShapeOf, ThreadOf, StreamOf, Shaped, Outermost, Leaving, Open2

LEMMA DestroyportIs ==
  ASSUME NEW n \in Nat, NEW a, NEW b, NEW c, NEW d, NEW arg, NEW nw, NEW active, NEW port,
         NEW thread, NEW used, StackOf(n, a, b, c, d, arg, nw, active, port, thread, used),
         n = 0 => a = "none" /\ b = "none", n = 1 => b = "none",
         a = "destroyport", n > 0
  PROVE  DueCorpse(nw, active, thread, used)
BY DEF DueCorpse, StackOf, ShapeOf, ThreadOf, StreamOf, Shaped, Outermost, Leaving, Open2

-----------------------------------------------------------------------------
(* The queue and the window, before and after each kind of step.           *)

(* An event is dropped.                                                    *)
LEMMA DropEvent ==
  ASSUME NEW C, NEW e \in Seq(C), NEW found, NEW nw, NEW active, NEW used,
         QueueOf(e, found, nw, active, used),
         e # <<>>
  PROVE  QueueOf(Tail(e), found, nw, active, used)
BY EventTail DEF QueueOf

(* The stream is released.                                                 *)
LEMMA ReleaseStream ==
  ASSUME NEW C, NEW e \in Seq(C), NEW found, NEW nw, NEW active, NEW used,
         QueueOf(e, found, nw, active, used)
  PROVE  QueueOf(e, found, nw, active, {})
BY DEF QueueOf

(* A disconnect indication.                                                *)
LEMMA PostConclose ==
  ASSUME NEW C, NEW e \in Seq(C), NEW found, NEW nw, NEW active, NEW used,
         QueueOf(e, found, nw, active, used),
         NEW v \in C, v.what = "CONCLOSE"
  PROVE  QueueOf(Append(e, v), found, nw, active, used)
<1>1. v.what \notin {"CONOPEN", "CLOSEDONE"} /\ v.what \notin {"DOMAIN_DONE"}
      /\ v.what \notin {"CONOPEN"} /\ v.what \notin {"CLOSEDONE"}
      /\ v.what # "DOMAIN_DONE" /\ v.what # "CONOPEN"
  OBVIOUS
<1> QED
  BY <1>1, EventAppend, Zenon DEF QueueOf

(* A netclose that is done posts for a window that does not wait.          *)
LEMMA PostClosedone ==
  ASSUME NEW C, NEW e \in Seq(C), NEW found, NEW nw, NEW active, NEW used,
         QueueOf(e, found, nw, active, used),
         NEW v \in C, v.what = "CLOSEDONE", used = {}, nw # 1 \/ active # "DNRWAIT"
  PROVE  QueueOf(Append(e, v), found, nw, active, used)
<1>1. v.what \notin {"DOMAIN_DONE"} /\ v.what # "DOMAIN_DONE" /\ v.what \notin {"CONOPEN"}
  OBVIOUS
<1>2. NoEv(e, {"DOMAIN_DONE"})
  BY DEF QueueOf
<1>3. /\ OneEv(Append(e, v), "DOMAIN_DONE") /\ NoEv(Append(e, v), {"DOMAIN_DONE"})
      /\ NoneBehind(Append(e, v), "DOMAIN_DONE", {"CONOPEN", "CLOSEDONE"})
      /\ NoEv(e, {"CONOPEN"}) => NoEv(Append(e, v), {"CONOPEN"})
  BY <1>1, <1>2, EventAppend, Zenon
<1> QED
  BY <1>3, Zenon DEF QueueOf

(* The window changes, but neither did nor does it wait.                   *)
LEMMA ChangeWindow ==
  ASSUME NEW C, NEW e \in Seq(C), NEW found, NEW nw, NEW active, NEW used,
         QueueOf(e, found, nw, active, used),
         nw # 1 \/ active # "DNRWAIT", used = {}, NEW nw2, NEW active2, nw2 # 1 \/ active2 # "ACTIVE"
  PROVE  QueueOf(e, found, nw2, active2, used)
BY DEF QueueOf

(* A window waits for its lookup, which has been answered already.         *)
LEMMA PostAnswer ==
  ASSUME NEW C, NEW e \in Seq(C), NEW found, NEW nw, NEW active, NEW used,
         QueueOf(e, found, nw, active, used),
         nw # 1 \/ active # "DNRWAIT", used = {}, NEW v \in C, v.what = "DOMAIN_DONE"
  PROVE  QueueOf(Append(e, v), found, 1, "DNRWAIT", used)
<1>1. v.what \notin {"CONOPEN", "CLOSEDONE"}
  OBVIOUS
<1>2. NoEv(e, {"DOMAIN_DONE"}) /\ found = {}
  BY DEF QueueOf
<1>3. OneEv(Append(e, v), "DOMAIN_DONE")
  BY <1>2, EventAppend, Zenon
<1>4. NoneBehind(Append(e, v), "DOMAIN_DONE", {"CONOPEN", "CLOSEDONE"})
  BY <1>1, EventAppend, Zenon DEF QueueOf
<1> QED
  BY <1>2, <1>3, <1>4 DEF QueueOf

(* A window waits for its lookup.                                          *)
LEMMA AskLookup ==
  ASSUME NEW C, NEW e \in Seq(C), NEW found, NEW nw, NEW active, NEW used,
         QueueOf(e, found, nw, active, used),
         nw # 1 \/ active # "DNRWAIT", used = {}, NEW l
  PROVE  QueueOf(e, found \cup {l}, 1, "DNRWAIT", used)
<1>1. found = {}
  BY DEF QueueOf
<1> QED
  BY <1>1 DEF QueueOf

(* The lookup is answered.                                                 *)
LEMMA AnswerLookup ==
  ASSUME NEW C, NEW e \in Seq(C), NEW found, NEW nw, NEW active, NEW used,
         QueueOf(e, found, nw, active, used),
         NEW l \in found, NEW v \in C, v.what = "DOMAIN_DONE"
  PROVE  QueueOf(Append(e, v), found \ {l}, nw, active, used)
<1>1. v.what \notin {"CONOPEN", "CLOSEDONE"} /\ v.what \notin {"CLOSEDONE"} /\ v.what # "CONOPEN"
  OBVIOUS
<1>2. found # {} /\ nw = 1 /\ active = "DNRWAIT" /\ found \ {l} = {}
  BY DEF QueueOf
<1>3. NoEv(e, {"DOMAIN_DONE"})
  BY <1>2 DEF QueueOf
<1>4. OneEv(Append(e, v), "DOMAIN_DONE")
  BY <1>3, EventAppend, Zenon
<1>5. NoneBehind(Append(e, v), "DOMAIN_DONE", {"CONOPEN", "CLOSEDONE"})
  BY <1>1, EventAppend, Zenon DEF QueueOf
<1>6. used # {} => NoEv(Append(e, v), {"CLOSEDONE"}) /\ OneEv(Append(e, v), "CONOPEN")
  BY <1>1, EventAppend, Zenon DEF QueueOf
<1> QED
  BY <1>2, <1>4, <1>5, <1>6 DEF QueueOf

(* The session of the stream begins.                                       *)
LEMMA TakeConopen ==
  ASSUME NEW C, NEW e \in Seq(C), NEW found, NEW nw, NEW active, NEW used,
         QueueOf(e, found, nw, active, used),
         e # <<>>, Head(e).what = "CONOPEN", used # {}, nw = 1, active \in Open2
  PROVE  QueueOf(Tail(e), found, nw, "ACTIVE", used)
<1>1. active # "DNRWAIT"
  BY DEF Open2
<1>2. NoEv(e, {"DOMAIN_DONE"}) /\ found = {} /\ OneEv(e, "CONOPEN")
  BY <1>1 DEF QueueOf
<1>3. NoEv(Tail(e), {"CONOPEN"})
  BY <1>2, EventTail, Zenon
<1>4. QueueOf(Tail(e), found, nw, active, used)
  BY DropEvent, Zenon
<1> QED
  BY <1>2, <1>3, <1>4, EventTail DEF QueueOf

(* A window gets the stream it waited for, or goes.                        *)
LEMMA TakeAnswer ==
  ASSUME NEW C, NEW e \in Seq(C), NEW found, NEW nw, NEW active, NEW used,
         QueueOf(e, found, nw, active, used),
         e # <<>>, Head(e).what = "DOMAIN_DONE"
  PROVE  /\ \A active2 : QueueOf(Tail(e), found, 0, active2, {})
         /\ \A v \in C : \A port : v.what = "CONOPEN" => QueueOf(Append(Tail(e), v), found, 1, "OPENING", {port})
         /\ \A v \in C : \A active2 : v.what = "CONOPEN" => QueueOf(Append(Tail(e), v), found, 0, active2, {})
<1> DEFINE f == Tail(e)
<1>1. ~NoEv(e, {"DOMAIN_DONE"})
  <2>1. Len(e) \in Nat \ {0} /\ Head(e) = e[1]
    BY HeadAndTail
  <2> QED
    BY <2>1 DEF NoEv
<1>2. found = {}
  BY <1>1 DEF QueueOf
<1>3. /\ NoEv(f, {"DOMAIN_DONE"}) /\ NoEv(f, {"CONOPEN", "CLOSEDONE"})
      /\ OneEv(f, "DOMAIN_DONE") /\ NoneBehind(f, "DOMAIN_DONE", {"CONOPEN", "CLOSEDONE"})
  BY EventTail, Zenon DEF QueueOf
<1>4. NoEv(f, {"CONOPEN"}) /\ NoEv(f, {"CLOSEDONE"})
  BY <1>3 DEF NoEv
<1>5. f \in Seq(C)
  BY HeadAndTail
<1> HIDE DEF f
<1>6. \A active2 : QueueOf(f, found, 0, active2, {})
  BY <1>2, <1>3 DEF QueueOf
<1>7. ASSUME NEW v \in C, v.what = "CONOPEN"
      PROVE  /\ OneEv(Append(f, v), "DOMAIN_DONE") /\ NoEv(Append(f, v), {"DOMAIN_DONE"})
             /\ NoneBehind(Append(f, v), "DOMAIN_DONE", {"CONOPEN", "CLOSEDONE"})
             /\ NoEv(Append(f, v), {"CLOSEDONE"}) /\ OneEv(Append(f, v), "CONOPEN")
  <2>1. v.what # "DOMAIN_DONE" /\ v.what \notin {"DOMAIN_DONE"} /\ v.what \notin {"CLOSEDONE"}
    BY <1>7
  <2> QED
    BY <1>3, <1>4, <1>5, <2>1, EventAppend, Zenon
<1>8. ASSUME NEW v \in C, v.what = "CONOPEN", NEW port
      PROVE  QueueOf(Append(f, v), found, 1, "OPENING", {port})
  BY <1>2, <1>7, <1>8 DEF QueueOf
<1>9. ASSUME NEW v \in C, v.what = "CONOPEN", NEW active2
      PROVE  QueueOf(Append(f, v), found, 0, active2, {})
  BY <1>2, <1>7, <1>9 DEF QueueOf
<1> QED
  BY <1>6, <1>8, <1>9 DEF f

-----------------------------------------------------------------------------
(* The actions.                                                            *)

LEMMA ShapedIs ==
  ASSUME NEW n \in Nat, NEW a, NEW b, NEW c, NEW d, Shaped(n, a, b, c, d), n > 0
  PROVE  /\ a # "closeall"
         /\ a \in {"user", "net", "yield"} => n > 1
         /\ a = "login" => n = 1
BY DEF Shaped, Leaving

(* What every step starts from.                                            *)
Now(s) ==
  /\ s \in Seq(CallSet) /\ Len(s) \in Nat
  /\ Len(s) = 0 => Op(s, 1) = "none" /\ Op(s, 2) = "none"
  /\ Len(s) = 1 => Op(s, 2) = "none"
  /\ Shaped(Len(s), Op(s, 1), Op(s, 2), Op(s, 3), Op(s, 4))

LEMMA NowIs ==
  ASSUME OneWindow, TypeInv, AloneInv
  PROVE  /\ Now(calls) /\ StackInv /\ ScreenInv /\ ThreadInv /\ QueueInv
         /\ numwindows \in {0, 1}
         /\ Slots = {0} /\ screens \in [Slots -> WindSet] /\ W \in WindSet
         /\ Top.op # "loop" =>
              /\ Len(calls) > 0 /\ Op(calls, 1) = Top.op /\ calls[1] = Top
              /\ Top.op # "netclose" => Top.arg = 0
         /\ Top.op = "loop" => Len(calls) = 0
<1>1. StackInv /\ ScreenInv /\ ThreadInv /\ QueueInv
  BY DEF AloneInv
<1>2. /\ numwindows \in {0, 1} /\ Shaped(Len(calls), Op(calls, 1), Op(calls, 2), Op(calls, 3), Op(calls, 4))
  BY <1>1 DEF StackInv, StackOf, ShapeOf
<1>3. Slots = {0} /\ screens \in [Slots -> WindSet] /\ W \in WindSet
  BY <1>2, OneSlot
<1>4. /\ calls \in Seq(CallSet) /\ Len(calls) \in Nat /\ Ends(calls)
      /\ Len(calls) = 0 \/ Len(calls) > 0
      /\ Len(calls) = 0 => Top.op = "loop"
      /\ Len(calls) > 0 => Top = calls[1] /\ Op(calls, 1) # "loop" /\ Top.op = Op(calls, 1)
  <2>1. /\ calls \in Seq(CallSet) /\ Len(calls) \in Nat
        /\ Top.op = IF Len(calls) = 0 THEN "loop" ELSE Op(calls, 1)
        /\ Len(calls) > 0 => Top = calls[1] /\ Op(calls, 1) # "loop"
    BY OpTop
  <2>2. /\ Len(calls) = 0 \/ Len(calls) > 0
        /\ Len(calls) > 0 => Len(calls) # 0
    BY <2>1
  <2>3. Ends(calls)
    BY <2>1, StackEnds, Zenon
  <2> QED
    BY <2>1, <2>2, <2>3, Zenon
<1>5. Now(calls)
  BY <1>2, <1>4, Zenon DEF Now, Ends
<1>6. Top.op # "loop" => Len(calls) > 0 /\ Op(calls, 1) = Top.op /\ calls[1] = Top
  BY <1>4, Zenon
<1>7. Top.op = "loop" => Len(calls) = 0
  BY <1>4, Zenon
<1>8. ASSUME Top.op # "loop", Top.op # "netclose" PROVE Top.arg = 0
  <2>1. Top.op # "closeall"
    <3>1. Op(calls, 1) # "closeall"
      BY <1>2, <1>4, <1>6, <1>8, ShapedIs, Zenon
    <3> QED
      BY <1>6, <1>8, <3>1, Zenon
  <2> QED
    BY <1>3, <1>4, <1>8, <2>1, TopIsCall
<1> QED
  BY <1>1, <1>2, <1>3, <1>5, <1>6, <1>7, <1>8, Zenon

(* Only the stack changes.                                                 *)
LEMMA SlotKept ==
  ASSUME AloneInv, UNCHANGED <<screens, numwindows, streams, vss, events, lookups, threads>>
  PROVE  /\ ScreenInv' /\ QueueInv' /\ ThreadInv'
         /\ W' = W /\ numwindows' = numwindows /\ streams' = streams
<1>1. W' = W
  BY DEF W
<1>2. ScreenInv' /\ QueueInv' /\ ThreadInv'
  BY <1>1, Zenon DEF AloneInv, ScreenInv, QueueInv, ThreadInv
<1> QED
  BY <1>1, <1>2

(* The calls that are made.                                                *)
LEMMA MadeCalls ==
  ASSUME Slots = {0}
  PROVE  /\ \A op \in {"user", "net", "yield", "protocol_close", "removeport", "removed",
                       "destroyport"} : Call(op, 0) \in CallSet /\ Call(op, 0).op = op
         /\ \A p \in PortNo : /\ Call("netclose", p) \in CallSet
                              /\ Call("netclose", p).op = "netclose" /\ Call("netclose", p).arg = p
<1>1. 0 \in Slots
  OBVIOUS
<1> QED
  BY <1>1, CallTypes DEF Call

LEMMA RemoveportAlone ==
  ASSUME OneWindow, TypeInv, AloneInv, Removeport
  PROVE  AloneInv'
<1>1. Top.op = "removeport" /\ Top.op # "loop" /\ Top.op # "netclose"
  BY DEF Removeport
<1>2. /\ Now(calls) /\ StackInv /\ Slots = {0} /\ Len(calls) > 0 /\ Op(calls, 1) = "removeport"
      /\ Top.arg = 0
  BY <1>1, NowIs
<1>3. Put2(calls, calls', "protocol_close", "removed")
  <2>1. Do(<<Call("protocol_close", 0), Call("removed", 0)>>)
    BY <1>2 DEF Removeport
  <2> QED
    BY <1>2, <2>1, MadeCalls, DoOps
<1>4. /\ ScreenInv' /\ QueueInv' /\ ThreadInv'
      /\ W' = W /\ numwindows' = numwindows /\ streams' = streams
  BY SlotKept, Zenon DEF Removeport
<1>5. StackOf(Len(calls) + 1, "protocol_close", "removed", Op(calls, 2), Op(calls, 3), calls'[1].arg,
              numwindows, W.active, W.port, W.thread, streams)
  BY <1>2, PutRemove, Zenon DEF Now, StackInv
<1>6. StackInv'
  BY <1>3, <1>4, <1>5, Zenon DEF StackInv, Put2
<1> QED
  BY <1>4, <1>6 DEF AloneInv

(* The window is taken out of the table.                                   *)
LEMMA DestroyAlone ==
  ASSUME OneWindow, TypeInv, AloneInv, Top.op \in {"removed", "destroyport"},
         Len(calls) > 0, Op(calls, 1) = Top.op, destroyport(0), numwindows = 1,
         Popped(calls, calls'), UNCHANGED <<streams, events, lookups, threads>>,
         W.active \notin {"NOTINUSE", "DNRWAIT"}, streams = {}
  PROVE  AloneInv'
<1>1. /\ Now(calls) /\ StackInv /\ ScreenInv /\ ThreadInv /\ QueueInv
      /\ Slots = {0} /\ screens \in [Slots -> WindSet] /\ W \in WindSet
  BY NowIs, Zenon
<1>2. screens' = [screens EXCEPT ![0].active = "NOTINUSE"]
  BY ShiftedOne DEF destroyport
<1>3. /\ W'.active = "NOTINUSE" /\ W'.port = W.port /\ W'.vs = W.vs /\ W'.thread = W.thread
  <2>1. W' = [W EXCEPT !.active = "NOTINUSE"]
    BY <1>1, <1>2 DEF W
  <2> QED
    BY <1>1, <2>1 DEF WindSet
<1>4. numwindows' = 0 /\ vss' = {}
  <2>1. vss = {W.vs}
    BY <1>1 DEF ScreenInv, ScreenOf
  <2> QED
    BY <2>1 DEF destroyport, W
<1>5. StackOf(Len(calls) - 1, Op(calls, 2), Op(calls, 3), Op(calls, 4), Op(calls, 5), calls'[1].arg,
              0, "NOTINUSE", W.port, W.thread, streams)
  <2>1. Op(calls, 1) = "removed" \/ Op(calls, 1) = "destroyport"
    OBVIOUS
  <2> QED
    BY <1>1, <2>1, PopDestroyed, Zenon DEF Now, StackInv
<1>6. StackInv'
  BY <1>3, <1>4, <1>5, Zenon DEF StackInv, Popped
<1>7. ScreenInv'
  BY <1>3, <1>4 DEF ScreenInv, ScreenOf
<1>8. ThreadInv'
  BY <1>1, <1>3, Zenon DEF ThreadInv
<1>9. QueueOf(events, lookups, 0, "NOTINUSE", streams)
  <2>1. events \in Seq(EventSet)
    BY DEF TypeInv
  <2>2. W.active # "DNRWAIT"
    OBVIOUS
  <2> QED
    BY <1>1, <2>1, <2>2, ChangeWindow DEF QueueInv
<1>10. QueueInv'
  BY <1>3, <1>4, <1>9, Zenon DEF QueueInv
<1> QED
  BY <1>6, <1>7, <1>8, <1>10 DEF AloneInv

LEMMA ProtocolCloseAlone ==
  ASSUME OneWindow, TypeInv, AloneInv, ProtocolClose
  PROVE  AloneInv'
<1>1. Top.op = "protocol_close" /\ Top.op # "loop"
  BY DEF ProtocolClose
<1>2. /\ Now(calls) /\ StackInv /\ ScreenInv /\ ThreadInv /\ QueueInv
      /\ Slots = {0} /\ screens \in [Slots -> WindSet] /\ W \in WindSet
      /\ numwindows \in {0, 1}
      /\ Len(calls) > 0 /\ Op(calls, 1) = "protocol_close" /\ calls[1] = Top
      /\ Top.op # "netclose" => Top.arg = 0
  BY <1>1, NowIs, Zenon
<1>3. Top.arg = 0 /\ W.thread = screens[Top.arg].thread
  BY <1>1, <1>2 DEF W
<1>4. CASE W.thread = None
  <2>1. /\ Return
        /\ UNCHANGED <<screens, numwindows, streams, vss, events, lookups, threads>>
    BY <1>3, <1>4 DEF ProtocolClose
  <2>2. Popped(calls, calls')
    BY <1>2, <2>1, ReturnOps
  <2>3. /\ ScreenInv' /\ QueueInv' /\ ThreadInv'
        /\ W' = W /\ numwindows' = numwindows /\ streams' = streams
    BY <2>1, SlotKept, Zenon
  <2>4. StackOf(Len(calls) - 1, Op(calls, 2), Op(calls, 3), Op(calls, 4), Op(calls, 5), calls'[1].arg,
                numwindows, W.active, W.port, W.thread, streams)
    BY <1>2, <1>4, PopClosed, Zenon DEF Now, StackInv
  <2>5. StackInv'
    BY <2>2, <2>3, <2>4, Zenon DEF StackInv, Popped
  <2> QED
    BY <2>3, <2>5 DEF AloneInv
<1>5. CASE W.thread # None
  <2> DEFINE t == W.thread
  <2>1. /\ threads' = [threads EXCEPT ![t].killed = TRUE]
        /\ screens' = [screens EXCEPT ![0].thread = None]
        /\ Do(<<Call("user", 0)>>)
        /\ UNCHANGED <<numwindows, streams, vss, events, lookups>>
    BY <1>3, <1>5 DEF ProtocolClose
  <2>2. Put1(calls, calls', "user")
    BY <1>2, <2>1, MadeCalls, DoOps
  <2>3. W' = [W EXCEPT !.thread = None]
    BY <1>2, <2>1 DEF W
  <2>4. /\ W'.active = W.active /\ W'.port = W.port /\ W'.vs = W.vs /\ W'.thread = None
    BY <1>2, <2>3 DEF WindSet
  <2>5. StackOf(Len(calls), "user", Op(calls, 2), Op(calls, 3), Op(calls, 4), calls'[1].arg,
                numwindows, W.active, W.port, None, streams)
    BY <1>2, <1>5, PutUser, Zenon DEF Now, StackInv
  <2>6. StackInv'
    BY <2>1, <2>2, <2>4, <2>5, Zenon DEF StackInv, Put1
  <2>7. ScreenInv' /\ QueueInv'
    BY <1>2, <2>1, <2>4, Zenon DEF ScreenInv, QueueInv
  <2>8. ThreadInv'
    <3>1. t \in 1..Len(threads) /\ threads \in Seq(ThreadSet)
      BY <1>2, <1>5, SMTT(40) DEF WindSet, Thread, TypeInv, None
    <3>2. \A k \in 1..Len(threads) : threads[k] \in ThreadSet
      BY <3>1, ElementOfSeq
    <3>3. /\ Len(threads') = Len(threads)
          /\ \A k \in 1..Len(threads) : k # t => threads'[k] = threads[k]
          /\ threads'[t] = [threads[t] EXCEPT !.killed = TRUE]
      <4> DEFINE u == [threads[t] EXCEPT !.killed = TRUE]
      <4>1. u \in ThreadSet
        BY <3>1, <3>2 DEF ThreadSet
      <4>2. threads' = [threads EXCEPT ![t] = u]
        BY <2>1
      <4> HIDE DEF t, u
      <4>3. /\ Len(threads') = Len(threads)
            /\ \A k \in 1..Len(threads) : threads'[k] = IF k = t THEN u ELSE threads[k]
        BY <3>1, <4>1, <4>2, ExceptSeq
      <4> QED
        BY <3>1, <4>3 DEF u
    <3>4. ~Running(threads'[t])
      <4>1. threads'[t].killed = TRUE
        BY <3>1, <3>2, <3>3 DEF ThreadSet
      <4> QED
        BY <4>1, Zenon DEF Running
    <3>5. \A k \in 1..Len(threads) : Running(threads[k]) => k = t
      BY <1>2, Zenon DEF ThreadInv, OnlyRunning
    <3>6. \A k \in 1..Len(threads') : ~Running(threads'[k])
      BY <3>3, <3>4, <3>5, Zenon
    <3> QED
      BY <3>6, Zenon DEF ThreadInv, OnlyRunning
  <2> QED
    BY <2>6, <2>7, <2>8 DEF AloneInv
<1> QED
  BY <1>4, <1>5

LEMMA RemovedAlone ==
  ASSUME OneWindow, TypeInv, AloneInv, Removed
  PROVE  AloneInv'
<1>1. Top.op = "removed" /\ Top.op # "loop"
  BY DEF Removed
<1>2. /\ Now(calls) /\ StackInv /\ ScreenInv /\ ThreadInv /\ QueueInv
      /\ Slots = {0} /\ screens \in [Slots -> WindSet] /\ W \in WindSet
      /\ numwindows \in {0, 1}
      /\ Len(calls) > 0 /\ Op(calls, 1) = "removed" /\ calls[1] = Top
      /\ Top.op # "netclose" => Top.arg = 0
  BY <1>1, NowIs, Zenon
<1>3. Top.arg = 0 /\ Return /\ UNCHANGED <<streams, events, lookups, threads>>
  BY <1>1, <1>2 DEF Removed
<1>4. Popped(calls, calls')
  BY <1>2, <1>3, ReturnOps
<1>5. streams = {} /\ (numwindows = 1 => W.active \notin {"NOTINUSE", "DNRWAIT"}) /\ W.thread = None
  <2>1. Due(numwindows, W.active, W.thread, streams)
    BY <1>2, RemovedIs, Zenon DEF Now, StackInv
  <2> QED
    BY <2>1, Zenon DEF Due
<1>6. ASSUME screens' = [screens EXCEPT ![0].port = CorpsePort, ![0].active = "ISCORPSE"],
             UNCHANGED <<numwindows, vss>>
      PROVE  AloneInv'
  <2>1. /\ W'.active = "ISCORPSE" /\ W'.port = CorpsePort /\ W'.vs = W.vs /\ W'.thread = W.thread
    <3>1. W' = [W EXCEPT !.port = CorpsePort, !.active = "ISCORPSE"]
      BY <1>2, <1>6 DEF W
    <3> QED
      BY <1>2, <3>1 DEF WindSet
  <2>2. StackOf(Len(calls) - 1, Op(calls, 2), Op(calls, 3), Op(calls, 4), Op(calls, 5), calls'[1].arg,
                numwindows, "ISCORPSE", CorpsePort, W.thread, streams)
    BY <1>2, PopCorpse, Zenon DEF Now, StackInv
  <2>3. StackInv'
    BY <1>3, <1>4, <1>6, <2>1, <2>2, Zenon DEF StackInv, Popped
  <2>4. ScreenInv'
    BY <1>2, <1>5, <1>6, <2>1 DEF ScreenInv, ScreenOf
  <2>5. ThreadInv'
    BY <1>2, <1>3, <2>1, Zenon DEF ThreadInv
  <2>6. QueueOf(events, lookups, numwindows, "ISCORPSE", streams)
    <3>1. events \in Seq(EventSet)
      BY DEF TypeInv
    <3>2. numwindows # 1 \/ W.active # "DNRWAIT"
      BY <1>5
    <3> QED
      BY <1>2, <1>5, <3>1, <3>2, ChangeWindow DEF QueueInv
  <2> QED
    BY <1>3, <1>6, <2>1, <2>3, <2>4, <2>5, <2>6, Zenon DEF AloneInv, QueueInv
<1>7. ASSUME UNCHANGED <<screens, numwindows, vss>>, numwindows = 0
      PROVE  AloneInv'
  <2>1. /\ ScreenInv' /\ QueueInv' /\ ThreadInv'
        /\ W' = W /\ numwindows' = numwindows /\ streams' = streams
    BY <1>3, <1>7, SlotKept, Zenon
  <2>2. StackOf(Len(calls) - 1, Op(calls, 2), Op(calls, 3), Op(calls, 4), Op(calls, 5), calls'[1].arg,
                numwindows, W.active, W.port, W.thread, streams)
    BY <1>2, <1>7, PopRemoved, Zenon DEF Now, StackInv
  <2>3. StackInv'
    BY <1>4, <2>1, <2>2, Zenon DEF StackInv, Popped
  <2> QED
    BY <2>1, <2>3 DEF AloneInv
<1>8. ASSUME destroyport(0), numwindows = 1
      PROVE  AloneInv'
  BY <1>1, <1>2, <1>3, <1>4, <1>5, <1>8, DestroyAlone, Zenon
<1>9. numwindows = 1 => W.vs >= 0 /\ findbyVS(W.vs) = 0
  BY <1>2, <1>5, OneSlot DEF ScreenInv, ScreenOf, WindSet
<1>10. numwindows = 0 => ~(findbyVS(W.vs) >= 0)
  BY <1>2, OneSlot
<1>11. screens[Top.arg].vs = W.vs
  BY <1>3 DEF W
<1> QED
  BY <1>2, <1>3, <1>6, <1>7, <1>8, <1>9, <1>10, <1>11 DEF Removed

LEMMA DestroyportAlone ==
  ASSUME OneWindow, TypeInv, AloneInv, Destroyport
  PROVE  AloneInv'
<1>1. Top.op = "destroyport" /\ Top.op # "loop"
  BY DEF Destroyport
<1>2. /\ Now(calls) /\ StackInv /\ ScreenInv /\ ThreadInv /\ QueueInv
      /\ Slots = {0} /\ screens \in [Slots -> WindSet] /\ W \in WindSet
      /\ numwindows \in {0, 1}
      /\ Len(calls) > 0 /\ Op(calls, 1) = "destroyport" /\ calls[1] = Top
      /\ Top.op # "netclose" => Top.arg = 0
  BY <1>1, NowIs, Zenon
<1>3. Top.arg = 0 /\ Return /\ UNCHANGED <<streams, events, lookups, threads>> /\ destroyport(0)
  BY <1>1, <1>2 DEF Destroyport
<1>4. streams = {} /\ numwindows = 1 /\ W.active = "ISCORPSE" /\ W.thread = None
  <2>1. DueCorpse(numwindows, W.active, W.thread, streams)
    BY <1>2, DestroyportIs, Zenon DEF Now, StackInv
  <2> QED
    BY <2>1, Zenon DEF DueCorpse
<1>5. Popped(calls, calls') /\ W.active \notin {"NOTINUSE", "DNRWAIT"}
  BY <1>2, <1>3, <1>4, ReturnOps
<1> QED
  BY <1>1, <1>2, <1>3, <1>4, <1>5, DestroyAlone, Zenon

-----------------------------------------------------------------------------
(* The event loops.                                                        *)

(* The stack s would agree with the window as it is.                       *)
StackWith(s) ==
  StackOf(Len(s), Op(s, 1), Op(s, 2), Op(s, 3), Op(s, 4), s[1].arg,
          numwindows, W.active, W.port, W.thread, streams)

(* Where events are dispatched, and which loop op comes after the one that *)
(* is innermost.                                                           *)
AtEvents(s, op) ==
  InLoop(Len(s), Op(s, 1)) \/ (Len(s) > 1 /\ NextPart(Op(s, 1), op))

LEMMA WhereIs ==
  ASSUME OneWindow, TypeInv, AloneInv
  PROVE  /\ Top.op = "loop" => AtLoop /\ Len(calls) = 0
         /\ Top.op = "login" => AtLoop /\ Len(calls) = 1 /\ Op(calls, 1) = "login"
         /\ Top.op = "user" => ~AtLoop /\ Len(calls) > 1 /\ Op(calls, 1) = "user"
         /\ Top.op = "net" => ~AtLoop /\ Len(calls) > 1 /\ Op(calls, 1) = "net"
<1>1. /\ Top.op # "loop" => Len(calls) > 0 /\ Op(calls, 1) = Top.op
      /\ Top.op = "loop" => Len(calls) = 0
  BY NowIs, Zenon
<1>2. Now(calls)
  BY NowIs, Zenon
<1>3. Len(calls) > 0 =>
        /\ Op(calls, 1) \in {"user", "net", "yield"} => Len(calls) > 1
        /\ Op(calls, 1) = "login" => Len(calls) = 1
  BY <1>2, ShapedIs, Zenon DEF Now
<1>4. ASSUME Top.op = "loop" PROVE AtLoop /\ Len(calls) = 0
  BY <1>1, <1>4 DEF AtLoop
<1>5. ASSUME Top.op = "login" PROVE AtLoop /\ Len(calls) = 1 /\ Op(calls, 1) = "login"
  BY <1>1, <1>2, <1>3, <1>5 DEF AtLoop
<1>6. ASSUME Top.op = "user" PROVE ~AtLoop /\ Len(calls) > 1 /\ Op(calls, 1) = "user"
  BY <1>1, <1>2, <1>3, <1>6 DEF AtLoop
<1>7. ASSUME Top.op = "net" PROVE ~AtLoop /\ Len(calls) > 1 /\ Op(calls, 1) = "net"
  BY <1>1, <1>2, <1>3, <1>7 DEF AtLoop
<1> QED
  BY <1>4, <1>5, <1>6, <1>7

LEMMA EventsAt ==
  ASSUME OneWindow, TypeInv, AloneInv
  PROVE  /\ AtNet => AtEvents(calls, "yield")
         /\ AtUser => AtEvents(calls, "net") /\ (Len(calls) = 0 \/ Len(calls) > 1)
         /\ Top.op = "user" => AtEvents(calls, "net")
<1>1. /\ Top.op = "loop" => Len(calls) = 0
      /\ Top.op = "login" => Len(calls) = 1 /\ Op(calls, 1) = "login"
      /\ Top.op = "user" => Len(calls) > 1 /\ Op(calls, 1) = "user"
      /\ Top.op = "net" => Len(calls) > 1 /\ Op(calls, 1) = "net"
  BY WhereIs, Zenon
<1>2. AtNet => Top.op = "loop" \/ Top.op = "login" \/ Top.op = "net"
  BY DEF AtNet, AtLoop
<1>3. AtUser => Top.op = "loop" \/ Top.op = "user"
  BY DEF AtUser
<1> QED
  BY <1>1, <1>2, <1>3, Zenon DEF AtEvents, InLoop, NextPart

(* Where the stack is when events are dispatched, in the words of          *)
(* DispatchedOps.                                                          *)
LEMMA EventsOps ==
  ASSUME NEW op, AtEvents(calls, op)
  PROVE  InLoop(Len(calls), Op(calls, 1))
           \/ (Len(calls) > 1 /\ Op(calls, 1) \in {"user", "net"})
BY DEF AtEvents, NextPart

(* An event is dispatched that calls nothing.                              *)
LEMMA MovesOn ==
  ASSUME OneWindow, TypeInv, AloneInv, NEW op \in {"net", "yield"}, AtEvents(calls, op),
         Dispatched(op, <<>>)
  PROVE  /\ StackWith(calls')
         /\ InLoop(Len(calls), Op(calls, 1)) => calls' = calls
<1>1. Now(calls) /\ StackInv
  BY NowIs, Zenon
<1>2. /\ Len(calls) = 0 => Top.op = "loop"
      /\ Len(calls) = 1 /\ Op(calls, 1) = "login" => Top.op = "login"
      /\ calls \in Seq(CallSet) /\ Len(calls) \in Nat
  BY OpTop
<1>3. ASSUME AtLoop PROVE calls' = calls
  <2>1. calls' = <<>> \o calls
    BY <1>3 DEF Dispatched
  <2> QED
    BY <1>2, <2>1, ConcatEmptySeq
<1>4. CASE InLoop(Len(calls), Op(calls, 1))
  <2>1. AtLoop
    BY <1>2, <1>4 DEF AtLoop, InLoop
  <2>2. calls' = calls
    BY <1>3, <2>1
  <2> QED
    BY <1>1, <2>2, Zenon DEF StackWith, StackInv
<1>5. CASE Len(calls) > 1 /\ NextPart(Op(calls, 1), op)
  <2>1. Disp0(calls, calls', op)
    BY EventsOps, DispatchedOps, Zenon
  <2>2. Put1(calls, calls', op)
    BY <1>5, <2>1, Zenon DEF Disp0
  <2>3. StackOf(Len(calls), op, Op(calls, 2), Op(calls, 3), Op(calls, 4), calls'[1].arg,
                numwindows, W.active, W.port, W.thread, streams)
    BY <1>1, <1>5, PutNested, Zenon DEF Now, StackInv
  <2>4. StackWith(calls')
    BY <2>2, <2>3, Zenon DEF StackWith, Put1
  <2>5. ~InLoop(Len(calls), Op(calls, 1))
    BY <1>2, <1>5, FewCalls, Zenon DEF InLoop
  <2> QED
    BY <2>4, <2>5
<1> QED
  BY <1>4, <1>5, Zenon DEF AtEvents

(* An event is dispatched that closes a port that has no stream.           *)
LEMMA ClosesPort ==
  ASSUME OneWindow, TypeInv, AloneInv, AtEvents(calls, "yield"),
         NEW p \in PortNo, Dispatched("yield", <<Call("netclose", p)>>),
         p \notin streams, Len(calls) > 1 => Op(calls, 1) = "net"
  PROVE  StackWith(calls')
<1>1. Now(calls) /\ StackInv /\ Slots = {0}
  BY NowIs, Zenon
<1>2. /\ Call("netclose", p) \in CallSet /\ Call("netclose", p).op = "netclose"
      /\ Call("netclose", p).arg = p
  BY <1>1, MadeCalls, Zenon
<1>3. Disp1(calls, calls', "yield", "netclose") /\ calls'[1].arg = p
  <2>1. "yield" \in {"net", "yield"}
    OBVIOUS
  <2>2. Disp1(calls, calls', "yield", Call("netclose", p).op) /\ calls'[1] = Call("netclose", p)
    BY <1>2, <2>1, EventsOps, DispatchedOps, Zenon
  <2> QED
    BY <1>2, <2>2, Zenon
<1>4. CASE InLoop(Len(calls), Op(calls, 1))
  <2>1. StackOf(Len(calls) + 1, "netclose", Op(calls, 1), Op(calls', 3), Op(calls', 4), p,
                numwindows, W.active, W.port, W.thread, streams)
    BY <1>1, <1>4, PutNetclose, Zenon DEF Now, StackInv
  <2> QED
    BY <1>3, <1>4, <2>1, Zenon DEF StackWith, Disp1
<1>5. CASE Len(calls) > 1
  <2>1. StackOf(Len(calls) + 1, "netclose", "yield", Op(calls, 2), Op(calls, 3), p,
                numwindows, W.active, W.port, W.thread, streams)
    BY <1>1, <1>5, PutNetcloseNested, Zenon DEF Now, StackInv
  <2> QED
    BY <1>3, <1>5, <2>1, Zenon DEF StackWith, Disp1, Put2
<1> QED
  BY <1>4, <1>5, Zenon DEF AtEvents

(* An event is dispatched that closes the open window.                     *)
LEMMA ClosesWindow ==
  ASSUME OneWindow, TypeInv, AloneInv, NEW op \in {"net", "yield"}, AtEvents(calls, op),
         Dispatched(op, <<Call("netclose", W.port), Call("removeport", 0)>>),
         numwindows = 1, W.active \in Open2
  PROVE  StackWith(calls')
<1>1. Now(calls) /\ StackInv /\ Slots = {0} /\ W \in WindSet
  BY NowIs, Zenon
<1>2. /\ Call("netclose", W.port) \in CallSet /\ Call("netclose", W.port).op = "netclose"
      /\ Call("netclose", W.port).arg = W.port
      /\ Call("removeport", 0) \in CallSet /\ Call("removeport", 0).op = "removeport"
  <2>1. W.port \in PortNo
    BY <1>1 DEF WindSet
  <2> QED
    BY <1>1, <2>1, MadeCalls
<1>3. Disp2(calls, calls', op, "netclose", "removeport") /\ calls'[1].arg = W.port
  <2>1. Disp2(calls, calls', op, Call("netclose", W.port).op, Call("removeport", 0).op)
        /\ calls'[1] = Call("netclose", W.port)
    BY <1>2, EventsOps, DispatchedOps, Zenon
  <2> QED
    BY <1>2, <2>1, Zenon
<1>4. CASE InLoop(Len(calls), Op(calls, 1))
  <2>1. StackOf(Len(calls) + 2, "netclose", "removeport", Op(calls', 3), Op(calls', 4), W.port,
                numwindows, W.active, W.port, W.thread, streams)
    BY <1>1, <1>4, PutClosing, Zenon DEF Now, StackInv
  <2> QED
    BY <1>3, <1>4, <2>1, Zenon DEF StackWith, Disp2
<1>6. CASE Len(calls) > 1 /\ NextPart(Op(calls, 1), op)
  <2>1. StackOf(Len(calls) + 2, "netclose", "removeport", op, Op(calls, 2), W.port,
                numwindows, W.active, W.port, W.thread, streams)
    BY <1>1, <1>6, PutClosingNested, Zenon DEF Now, StackInv
  <2> QED
    BY <1>3, <1>6, <2>1, Zenon DEF StackWith, Disp2, Put3
<1> QED
  BY <1>4, <1>6, Zenon DEF AtEvents

(* Nothing but the stack changes, and it agrees with the window.           *)
LEMMA OnlyStack ==
  ASSUME AloneInv, UNCHANGED <<screens, numwindows, streams, vss, events, lookups, threads>>,
         StackWith(calls')
  PROVE  AloneInv'
<1>1. /\ ScreenInv' /\ QueueInv' /\ ThreadInv'
      /\ W' = W /\ numwindows' = numwindows /\ streams' = streams
  BY SlotKept, Zenon
<1>2. StackInv'
  BY <1>1, Zenon DEF StackInv, StackWith
<1> QED
  BY <1>1, <1>2 DEF AloneInv

LEMMA NoEventAlone ==
  ASSUME OneWindow, TypeInv, AloneInv, NoUserEvent \/ NoNetEvent
  PROVE  AloneInv'
<1>1. UNCHANGED <<screens, numwindows, streams, vss, events, lookups, threads>>
  BY DEF NoUserEvent, NoNetEvent
<1>2. CASE NoUserEvent
  <2>1. Top.op = "user" /\ Dispatched("net", <<>>)
    BY <1>2 DEF NoUserEvent, AfterUser
  <2>2. AtEvents(calls, "net")
    BY <2>1, EventsAt, Zenon
  <2>3. "net" \in {"net", "yield"}
    OBVIOUS
  <2> QED
    BY <1>1, <2>1, <2>2, <2>3, MovesOn, OnlyStack, Zenon
<1>3. CASE NoNetEvent
  <2>1. AtNet /\ Dispatched("yield", <<>>)
    BY <1>3 DEF NoNetEvent, AfterNet, AtNet
  <2>2. AtEvents(calls, "yield")
    BY <2>1, EventsAt, Zenon
  <2>3. "yield" \in {"net", "yield"}
    OBVIOUS
  <2> QED
    BY <1>1, <2>1, <2>2, <2>3, MovesOn, OnlyStack, Zenon
<1> QED
  BY <1>2, <1>3

LEMMA SchedReturnAlone ==
  ASSUME OneWindow, TypeInv, AloneInv, SchedReturn
  PROVE  AloneInv'
<1>1. Top.op # "loop" /\ Top.op = "yield" /\ Return
      /\ UNCHANGED <<screens, numwindows, streams, vss, events, lookups, threads>>
  BY DEF SchedReturn
<1>2. Now(calls) /\ StackInv /\ Len(calls) > 0 /\ Op(calls, 1) = "yield"
  BY <1>1, NowIs, Zenon
<1>3. Popped(calls, calls')
  BY <1>1, <1>2, ReturnOps
<1>4. StackOf(Len(calls) - 1, Op(calls, 2), Op(calls, 3), Op(calls, 4), Op(calls, 5), calls'[1].arg,
              numwindows, W.active, W.port, W.thread, streams)
  BY <1>2, PopYield, Zenon DEF Now, StackInv
<1>5. StackWith(calls')
  BY <1>3, <1>4, Zenon DEF StackWith, Popped
<1> QED
  BY <1>1, <1>5, OnlyStack, Zenon

LEMMA CloseAllTurnAlone ==
  ASSUME OneWindow, TypeInv, AloneInv
  PROVE  ~CloseAllTurn
<1>1. SUFFICES ASSUME CloseAllTurn PROVE FALSE
  OBVIOUS
<1>2. Top.op # "loop" /\ Top.op = "closeall"
  BY <1>1 DEF CloseAllTurn
<1>3. Now(calls) /\ Len(calls) > 0 /\ Op(calls, 1) = "closeall"
  BY <1>2, NowIs, Zenon
<1> QED
  BY <1>3, ShapedIs, Zenon DEF Now

(* What there is to know of a stream.                                      *)
LEMMA StreamIs ==
  ASSUME OneWindow, TypeInv, AloneInv
  PROVE  /\ \A p : p \in streams => /\ numwindows = 1 /\ W.active \in Open2 /\ W.port = p
                                    /\ streams = {p} /\ WindByPort(p) = 0
         /\ \A p : WindByPort(p) = 0 \/ WindByPort(p) = -1
         /\ \A p : WindByPort(p) = 0 => numwindows = 1 /\ W.active \in Open2 /\ W.port = p
<1>1. StackInv /\ numwindows \in {0, 1}
  BY NowIs, Zenon
<1>2. streams # {} => numwindows = 1 /\ W.active \in Open2 /\ streams = {W.port}
  BY <1>1, Zenon DEF StackInv, StackOf, StreamOf
<1>3. \A p : WindByPort(p) = IF numwindows = 1 /\ W.active \in Open2 /\ W.port = p THEN 0 ELSE -1
  BY <1>1, OneSlot, Zenon
<1>4. ASSUME NEW p, p \in streams
      PROVE  /\ numwindows = 1 /\ W.active \in Open2 /\ W.port = p
             /\ streams = {p} /\ WindByPort(p) = 0
  <2>1. numwindows = 1 /\ W.active \in Open2 /\ streams = {W.port}
    BY <1>2, <1>4
  <2> QED
    BY <1>3, <1>4, <2>1
<1>5. ASSUME NEW p, WindByPort(p) = 0
      PROVE  numwindows = 1 /\ W.active \in Open2 /\ W.port = p
  BY <1>3, <1>5
<1>6. \A p : WindByPort(p) = 0 \/ WindByPort(p) = -1
  BY <1>3
<1> QED
  BY <1>4, <1>5, <1>6

LEMMA NetcloseAlone ==
  ASSUME OneWindow, TypeInv, AloneInv, Netclose
  PROVE  AloneInv'
<1> DEFINE p == Top.arg
<1>1. Top.op # "loop" /\ Top.op = "netclose"
      /\ UNCHANGED <<screens, numwindows, vss, lookups, threads>>
      /\ streams' = streams \ {p}
  BY DEF Netclose
<1>2. /\ Now(calls) /\ StackInv /\ ScreenInv /\ ThreadInv /\ QueueInv
      /\ Slots = {0}
      /\ Len(calls) > 0 /\ Op(calls, 1) = "netclose" /\ calls[1] = Top
  BY <1>1, NowIs, Zenon
<1>3. W' = W
  BY <1>1 DEF W
<1>4. ScreenInv' /\ ThreadInv'
  BY <1>1, <1>2, <1>3, Zenon DEF ScreenInv, ThreadInv
<1>5. ASSUME Return PROVE StackInv'
  <2>1. Popped(calls, calls')
    BY <1>2, <1>5, ReturnOps
  <2>2. StackOf(Len(calls) - 1, Op(calls, 2), Op(calls, 3), Op(calls, 4), Op(calls, 5), calls'[1].arg,
                numwindows, W.active, W.port, W.thread, streams \ {calls[1].arg})
    BY <1>2, PopNetclose, Zenon DEF Now, StackInv
  <2> QED
    BY <1>1, <1>2, <1>3, <2>1, <2>2, Zenon DEF StackInv, Popped
<1>6. events \in Seq(EventSet) /\ p \in PortNo
  BY <1>1, TopIsCall DEF TypeInv
<1>7. CASE p \notin streams
  <2>1. Return /\ UNCHANGED events /\ streams' = streams
    BY <1>1, <1>7 DEF Netclose
  <2>2. QueueInv'
    BY <1>1, <1>2, <1>3, <2>1, Zenon DEF QueueInv
  <2> QED
    BY <1>4, <1>5, <2>1, <2>2 DEF AloneInv
<1>8. CASE p \in streams
  <2>1. numwindows = 1 /\ W.active \in Open2 /\ streams = {p} /\ WindByPort(p) = 0
    BY <1>8, StreamIs, Zenon
  <2>2. streams' = {}
    BY <1>1, <2>1
  <2>3. QueueOf(events, lookups, numwindows, W.active, {})
    BY <1>2, <1>6, ReleaseStream, Zenon DEF QueueInv
  <2>4. CASE screens[0].context # None
    <3>1. Do(<<Call("protocol_close", 0)>>) /\ UNCHANGED events
      BY <1>8, <2>1, <2>4 DEF Netclose
    <3>2. Put1(calls, calls', "protocol_close")
      BY <1>2, <3>1, MadeCalls, DoOps
    <3>3. StackOf(Len(calls), "protocol_close", Op(calls, 2), Op(calls, 3), Op(calls, 4), calls'[1].arg,
                  numwindows, W.active, W.port, W.thread, streams \ {calls[1].arg})
      <4>1. calls[1].arg \in streams
        BY <1>2, <1>8
      <4> QED
        BY <1>2, <4>1, PutClose, Zenon DEF Now, StackInv
    <3>4. StackInv'
      BY <1>1, <1>2, <1>3, <3>2, <3>3, Zenon DEF StackInv, Put1
    <3>5. QueueInv'
      BY <1>1, <1>3, <2>2, <2>3, <3>1, Zenon DEF QueueInv
    <3> QED
      BY <1>4, <3>4, <3>5 DEF AloneInv
  <2>5. CASE ~(screens[0].context # None)
    <3> DEFINE v == Ev("CLOSEDONE", p)
    <3>1. Return /\ events' = Append(events, v)
      BY <1>8, <2>1, <2>5 DEF Netclose, Post
    <3>2. v \in EventSet /\ v.what = "CLOSEDONE"
      BY <1>6 DEF EventSet, Ev
    <3> HIDE DEF v
    <3>3. W.active # "DNRWAIT"
      BY <2>1 DEF Open2
    <3>4. QueueOf(Append(events, v), lookups, numwindows, W.active, {})
      BY <1>6, <2>3, <3>2, <3>3, PostClosedone
    <3>5. QueueInv'
      BY <1>1, <1>3, <2>2, <3>1, <3>4, Zenon DEF QueueInv
    <3> QED
      BY <1>4, <1>5, <3>1, <3>5 DEF AloneInv
  <2> QED
    BY <2>4, <2>5
<1> QED
  BY <1>7, <1>8

(* Nothing but the stack changes, and an event is dropped.                 *)
LEMMA OnlyDrop ==
  ASSUME TypeInv, AloneInv, events # <<>>, events' = Tail(events), StackWith(calls'),
         UNCHANGED <<screens, numwindows, streams, vss, lookups, threads>>
  PROVE  AloneInv'
<1>1. W' = W
  BY DEF W
<1>2. ScreenInv' /\ ThreadInv'
  BY <1>1, Zenon DEF AloneInv, ScreenInv, ThreadInv
<1>3. StackInv'
  BY <1>1, Zenon DEF StackInv, StackWith
<1>4. QueueOf(Tail(events), lookups, numwindows, W.active, streams)
  <2>1. events \in Seq(EventSet)
    BY DEF TypeInv
  <2> QED
    BY <2>1, DropEvent, Zenon DEF AloneInv, QueueInv
<1>5. QueueInv'
  BY <1>1, <1>4, Zenon DEF QueueInv
<1> QED
  BY <1>2, <1>3, <1>5 DEF AloneInv

(* Where there is an event of a kind, the queue is not without that kind.  *)
LEMMA EventThere ==
  ASSUME TypeInv, events # <<>>
  PROVE  ~NoEv(events, {Head(events).what})
<1>1. Len(events) \in Nat \ {0} /\ Head(events) = events[1]
  BY HeadAndTail DEF TypeInv
<1> QED
  BY <1>1 DEF NoEv

(* A nested event loop dispatches network events in one place.             *)
LEMMA NetInside ==
  ASSUME OneWindow, TypeInv, AloneInv, AtNet
  PROVE  Len(calls) > 1 => Op(calls, 1) = "net"
<1>1. /\ Top.op = "loop" => Len(calls) = 0
      /\ Top.op = "login" => Len(calls) = 1
      /\ Top.op = "net" => Op(calls, 1) = "net"
  BY WhereIs, Zenon
<1>2. Top.op = "loop" \/ Top.op = "login" \/ Top.op = "net"
  BY DEF AtNet, AtLoop
<1>3. (Len(calls) = 0 => ~(Len(calls) > 1)) /\ (Len(calls) = 1 => ~(Len(calls) > 1))
  <2>1. Len(calls) \in Nat
    BY OpTop
  <2>2. \A n \in Nat : (n = 0 => ~(n > 1)) /\ (n = 1 => ~(n > 1))
    OBVIOUS
  <2> QED
    BY <2>1, <2>2, Zenon
<1> QED
  BY <1>1, <1>2, <1>3, Zenon

LEMMA CloseDoneAlone ==
  ASSUME OneWindow, TypeInv, AloneInv, CloseDone
  PROVE  AloneInv'
<1> DEFINE p == Head(events).port
<1>1. /\ AtNet /\ events # <<>> /\ Head(events).what = "CLOSEDONE"
      /\ Dispatched("yield", <<Call("netclose", p)>>) /\ events' = Tail(events)
      /\ UNCHANGED <<screens, numwindows, streams, vss, lookups, threads>>
  BY DEF CloseDone, Take, AfterNet
<1>2. p \in PortNo
  BY <1>1, TakenEvent
<1>3. streams = {}
  <2>1. ~NoEv(events, {"CLOSEDONE"})
    BY <1>1, EventThere
  <2> QED
    BY <2>1, Zenon DEF AloneInv, QueueInv, QueueOf
<1>4. p \notin streams
  BY <1>3
<1>5. AtEvents(calls, "yield")
  BY <1>1, EventsAt, Zenon
<1>6. Len(calls) > 1 => Op(calls, 1) = "net"
  BY <1>1, NetInside, Zenon
<1> HIDE DEF p
<1> QED
  BY <1>1, <1>2, <1>4, <1>5, <1>6, ClosesPort, OnlyDrop, Zenon

LEMMA ConnectionClosedEventAlone ==
  ASSUME OneWindow, TypeInv, AloneInv, ConnectionClosedEvent
  PROVE  AloneInv'
<1> DEFINE p == Head(events).port
           i == WindByPort(p)
<1>1. /\ AtNet /\ events # <<>> /\ Head(events).what = "CONCLOSE" /\ events' = Tail(events)
      /\ AfterNet(IF i < 0 THEN <<Call("netclose", p)>>
                  ELSE <<Call("netclose", p), Call("removeport", i)>>)
      /\ UNCHANGED <<screens, numwindows, streams, vss, lookups, threads>>
  BY DEF ConnectionClosedEvent, Take
<1>2. p \in PortNo
  BY <1>1, TakenEvent
<1>3. AtEvents(calls, "yield")
  BY <1>1, EventsAt, Zenon
<1>4. Len(calls) > 1 => Op(calls, 1) = "net"
  BY <1>1, NetInside, Zenon
<1>5. "yield" \in {"net", "yield"}
  OBVIOUS
<1>6. i = 0 \/ i = -1
  BY StreamIs, Zenon
<1>7. CASE i = -1
  <2>1. Dispatched("yield", <<Call("netclose", p)>>)
    BY <1>1, <1>7 DEF AfterNet
  <2>2. p \notin streams
    <3>1. ~(i = 0)
      BY <1>7
    <3> QED
      BY <3>1, StreamIs, Zenon
  <2> HIDE DEF p, i
  <2> QED
    BY <1>1, <1>2, <1>3, <1>4, <2>1, <2>2, ClosesPort, OnlyDrop, Zenon
<1>8. CASE i = 0
  <2>1. Dispatched("yield", <<Call("netclose", p), Call("removeport", 0)>>)
    BY <1>1, <1>8 DEF AfterNet
  <2>2. numwindows = 1 /\ W.active \in Open2 /\ W.port = p
    BY <1>8, StreamIs, Zenon
  <2> HIDE DEF p, i
  <2>3. Dispatched("yield", <<Call("netclose", W.port), Call("removeport", 0)>>)
    BY <2>1, <2>2
  <2> QED
    BY <1>1, <1>3, <1>5, <2>2, <2>3, ClosesWindow, OnlyDrop, Zenon
<1> QED
  BY <1>6, <1>7, <1>8

LEMMA CloseAWindowAlone ==
  ASSUME OneWindow, TypeInv, AloneInv, CloseAWindow
  PROVE  AloneInv'
<1>1. AtUser /\ UNCHANGED <<screens, numwindows, streams, vss, events, lookups, threads>>
  BY DEF CloseAWindow
<1>2. /\ Now(calls) /\ StackInv /\ Slots = {0} /\ numwindows \in {0, 1}
  BY NowIs, Zenon
<1>3. /\ numwindows = 1
      /\ \/ W.active = "ISCORPSE" /\ AfterUser(<<Call("destroyport", 0)>>)
         \/ W.active = "ACTIVE" /\ AfterUser(<<Call("netclose", W.port), Call("removeport", 0)>>)
  <2>1. Table = IF numwindows = 1 THEN {0} ELSE {}
    BY <1>2, OneSlot
  <2> QED
    BY <2>1, <1>2 DEF CloseAWindow, W
<1>4. AtEvents(calls, "net") /\ "net" \in {"net", "yield"}
  BY <1>1, EventsAt
<1>5. CASE W.active = "ACTIVE" /\ AfterUser(<<Call("netclose", W.port), Call("removeport", 0)>>)
  <2>1. Dispatched("net", <<Call("netclose", W.port), Call("removeport", 0)>>)
        /\ W.active \in Open2
    BY <1>5 DEF AfterUser, Open2
  <2> QED
    BY <1>1, <1>3, <1>4, <2>1, ClosesWindow, OnlyStack, Zenon
<1>6. CASE W.active = "ISCORPSE" /\ AfterUser(<<Call("destroyport", 0)>>)
  <2>1. InLoop(Len(calls), Op(calls, 1))
    <3>1. Op(calls, 1) # "user"
      BY <1>2, <1>6 DEF StackInv, StackOf, ShapeOf
    <3>2. ~NextPart(Op(calls, 1), "net")
      BY <3>1 DEF NextPart
    <3> QED
      BY <1>4, <3>2 DEF AtEvents
  <2>2. Call("destroyport", 0) \in CallSet /\ Call("destroyport", 0).op = "destroyport"
    BY <1>2, MadeCalls
  <2>3. Disp1(calls, calls', "net", Call("destroyport", 0).op)
    <3>1. Dispatched("net", <<Call("destroyport", 0)>>)
      BY <1>6 DEF AfterUser
    <3> QED
      BY <1>4, <2>2, <3>1, EventsOps, DispatchedOps, Zenon
  <2>4. StackOf(Len(calls) + 1, "destroyport", Op(calls', 2), Op(calls', 3), Op(calls', 4), calls'[1].arg,
                numwindows, W.active, W.port, W.thread, streams)
    BY <1>2, <1>3, <1>6, <2>1, PutDestroy, SMTT(40) DEF Now, StackInv
  <2>5. StackWith(calls')
    BY <2>1, <2>2, <2>3, <2>4, Zenon DEF StackWith, Disp1
  <2> QED
    BY <1>1, <2>5, OnlyStack, Zenon
<1> QED
  BY <1>3, <1>5, <1>6

(* The window while its session is being created.                          *)
Fresh(nw, active, used) == used = {} /\ nw = 1 /\ active = "NOTINUSE"

LEMMA CreatedIs ==
  ASSUME NEW n \in Nat, NEW a, NEW b, NEW c, NEW d, NEW arg, NEW nw, NEW active, NEW port,
         NEW thread, NEW used, StackOf(n, a, b, c, d, arg, nw, active, port, thread, used),
         n = 0 => a = "none" /\ b = "none", n = 1 => b = "none",
         Creating(a), n > 0
  PROVE  Fresh(nw, active, used)
BY DEF Fresh, StackOf, ShapeOf, ThreadOf, StreamOf, Shaped, Outermost, Leaving, Open2, Creating

(* Without a window there is neither a stream nor a thread to refer to,    *)
(* nor a nested event loop that reads user events.                         *)
Empty(a, thread, used) == used = {} /\ thread = None /\ a # "user" /\ a # "login"

LEMMA EmptyIs ==
  ASSUME NEW n \in Nat, NEW a, NEW b, NEW c, NEW d, NEW arg, NEW nw, NEW active, NEW port,
         NEW thread, NEW used, StackOf(n, a, b, c, d, arg, nw, active, port, thread, used),
         n = 0 => a = "none" /\ b = "none", n = 1 => b = "none",
         nw = 0
  PROVE  Empty(a, thread, used)
BY DEF Empty, StackOf, ShapeOf, ThreadOf, StreamOf, Shaped, Outermost, Leaving, Open2

LEMMA OpenAlone ==
  ASSUME OneWindow, TypeInv, AloneInv, Open
  PROVE  AloneInv'
<1>1. /\ Now(calls) /\ StackInv /\ ScreenInv /\ ThreadInv /\ QueueInv
      /\ Slots = {0} /\ screens \in [Slots -> WindSet] /\ W \in WindSet
      /\ numwindows \in {0, 1}
  BY NowIs, Zenon
<1>2. /\ AtUser /\ numwindows = 0 /\ numwindows' = 1
      /\ screens' = [screens EXCEPT ![0] = Reset(screens[0], opens + 1)]
      /\ UNCHANGED <<streams, vss, events, lookups, threads>>
  <2>1. /\ AtUser /\ numwindows < MaxSess /\ numwindows' = numwindows + 1
        /\ screens' = [screens EXCEPT ![numwindows] = Reset(screens[numwindows], opens + 1)]
        /\ UNCHANGED <<streams, vss, events, lookups, threads>>
    BY Zenon DEF Open
  <2>2. numwindows = 0
    BY <1>1, <2>1 DEF OneWindow
  <2> QED
    BY <2>1, <2>2
<1>3. Empty(Op(calls, 1), W.thread, streams)
  BY <1>1, <1>2, EmptyIs, Zenon DEF Now, StackInv
<1>4. /\ W'.active = "NOTINUSE" /\ W'.port = NoPort /\ W'.vs = -1 /\ W'.thread = None
  <2>1. W' = Reset(W, opens + 1)
    BY <1>1, <1>2 DEF W
  <2> QED
    BY <1>1, <2>1 DEF WindSet, Reset
<1>5. Len(calls) = 0
  <2>1. Top.op = "loop" \/ Top.op = "user"
    BY <1>2 DEF AtUser
  <2>2. Top.op # "user"
    BY <1>3, WhereIs, Zenon DEF Empty
  <2> QED
    BY <2>1, <2>2, WhereIs, Zenon
<1>6. PICK op : Creating(op) /\ AfterUser(<<OpenCall(op, 0, opens + 1)>>)
  BY <1>2 DEF Open, Creating
<1>7. Len(calls') = Len(calls) + 1 /\ Op(calls', 1) = op
  <2> DEFINE c == OpenCall(op, 0, opens + 1)
  <2>1. calls = <<>> /\ AtLoop
    BY <1>5, OpTop DEF AtLoop
  <2>2. calls' = <<c>> \o calls
    BY <1>6, <2>1 DEF AfterUser, Dispatched
  <2>3. c.op = op
    BY DEF OpenCall
  <2> HIDE DEF c
  <2>4. calls' = <<c>>
    BY <2>1, <2>2
  <2> QED
    BY <1>5, <2>3, <2>4 DEF Op
<1>8. StackOf(Len(calls) + 1, op, Op(calls', 2), Op(calls', 3), Op(calls', 4), calls'[1].arg,
              1, "NOTINUSE", NoPort, None, streams)
  <2>1. InLoop(Len(calls), Op(calls, 1))
    BY <1>5, Zenon DEF InLoop
  <2> QED
    BY <1>1, <1>2, <1>6, <2>1, PutOpen, Zenon DEF Now, StackInv
<1>9. StackInv'
  BY <1>2, <1>4, <1>7, <1>8, Zenon DEF StackInv
<1>10. ScreenInv'
  BY <1>1, <1>2, <1>4 DEF ScreenInv, ScreenOf
<1>11. ThreadInv'
  BY <1>1, <1>2, <1>3, <1>4, Zenon DEF ThreadInv, Empty
<1>12. QueueOf(events, lookups, 1, "NOTINUSE", streams)
  <2>1. events \in Seq(EventSet) /\ streams = {} /\ numwindows # 1
    BY <1>2, <1>3 DEF TypeInv, Empty
  <2> QED
    BY <1>1, <2>1, ChangeWindow DEF QueueInv
<1>13. QueueInv'
  BY <1>2, <1>4, <1>12, Zenon DEF QueueInv
<1> QED
  BY <1>9, <1>10, <1>11, <1>13 DEF AloneInv

LEMMA OpenFailedAlone ==
  ASSUME OneWindow, TypeInv, AloneInv, OpenFailed
  PROVE  AloneInv'
<1>1. /\ Top.op = "login" /\ Top.op # "loop" /\ Top.op # "netclose" /\ Return
      /\ UNCHANGED <<streams, vss, events, lookups, threads>>
  BY DEF OpenFailed, OneWindow
<1>2. /\ Now(calls) /\ StackInv /\ ScreenInv /\ ThreadInv /\ QueueInv
      /\ Slots = {0} /\ screens \in [Slots -> WindSet] /\ W \in WindSet
      /\ Len(calls) > 0 /\ Op(calls, 1) = "login" /\ Top.arg = 0
  BY <1>1, NowIs, Zenon
<1>0. Creating(Op(calls, 1))
  BY <1>2, Zenon DEF Creating
<1>3. Fresh(numwindows, W.active, streams)
  BY <1>0, <1>2, CreatedIs, Zenon DEF Now, StackInv
<1>4. numwindows' = 0 /\ screens' = [screens EXCEPT ![0].active = "NOTINUSE"]
  BY <1>2, <1>3 DEF OpenFailed, Fresh
<1>5. /\ W'.active = "NOTINUSE" /\ W'.port = W.port /\ W'.vs = W.vs /\ W'.thread = W.thread
  <2>1. W' = [W EXCEPT !.active = "NOTINUSE"]
    BY <1>2, <1>4 DEF W
  <2> QED
    BY <1>2, <2>1 DEF WindSet
<1>6. Popped(calls, calls')
  BY <1>1, <1>2, ReturnOps
<1>7. StackOf(Len(calls) - 1, Op(calls, 2), Op(calls, 3), Op(calls, 4), Op(calls, 5), calls'[1].arg,
              0, "NOTINUSE", W.port, W.thread, streams)
  <2>1. Now(calls) /\ StackInv /\ Len(calls) > 0
    BY <1>2
  <2> QED
    BY <1>0, <2>1, PopFailed, Zenon DEF Now, StackInv
<1>8. StackInv'
  BY <1>1, <1>4, <1>5, <1>6, <1>7, Zenon DEF StackInv, Popped
<1>9. ScreenInv'
  BY <1>1, <1>2, <1>3, <1>4 DEF ScreenInv, ScreenOf, Fresh
<1>10. ThreadInv'
  BY <1>1, <1>2, <1>5, Zenon DEF ThreadInv
<1>11. QueueOf(events, lookups, 0, "NOTINUSE", streams)
  <2>1. events \in Seq(EventSet) /\ streams = {} /\ W.active # "DNRWAIT"
    BY <1>3 DEF TypeInv, Fresh
  <2> QED
    BY <1>2, <2>1, ChangeWindow DEF QueueInv
<1>12. QueueInv'
  BY <1>1, <1>4, <1>5, <1>11, Zenon DEF QueueInv
<1> QED
  BY <1>8, <1>9, <1>10, <1>12 DEF AloneInv

LEMMA OpenWindowAlone ==
  ASSUME OneWindow, TypeInv, AloneInv, OpenWindow
  PROVE  AloneInv'
<1>1. /\ Top.op = "create" \/ Top.op = "login"
      /\ Top.op # "loop" /\ Top.op # "netclose" /\ Return
      /\ UNCHANGED <<streams, threads>>
  BY DEF OpenWindow
<1>2. /\ Now(calls) /\ StackInv /\ ScreenInv /\ ThreadInv /\ QueueInv
      /\ Slots = {0} /\ screens \in [Slots -> WindSet] /\ W \in WindSet
      /\ Len(calls) > 0 /\ Op(calls, 1) = Top.op /\ Top.arg = 0
  BY <1>1, NowIs, Zenon
<1>3. Creating(Op(calls, 1))
  BY <1>1, <1>2, Zenon DEF Creating
<1>4. Fresh(numwindows, W.active, streams)
  BY <1>2, <1>3, CreatedIs, Zenon DEF Now, StackInv
<1>5. streams = {} /\ numwindows = 1 /\ W.active = "NOTINUSE" /\ vss = {}
  BY <1>2, <1>4 DEF ScreenInv, ScreenOf, Fresh
<1> DEFINE vs == Min(VSfree)
<1>6. VSfree = {0, 1} /\ vs \in {0, 1}
  <2>1. VSfree = {0, 1}
    BY <1>5 DEF VSfree, OneWindow
  <2>2. VSfree \in SUBSET Nat /\ VSfree # {}
    BY <2>1
  <2>3. Min(VSfree) \in VSfree
    BY <2>2, MinIsIn, Zenon
  <2> QED
    BY <2>1, <2>3
<1>7. VSfree # {} /\ Outcomes("window") = {TRUE}
  BY <1>6 DEF Outcomes, OneWindow
<1> DEFINE v == DomainDone(0, Top.host, FALSE)
           l == [screen |-> 0, host |-> Top.host]
<1>8. /\ screens' = [screens EXCEPT ![0].active = "DNRWAIT", ![0].vs = vs]
      /\ vss' = vss \cup {vs} /\ numwindows' = numwindows
      /\ \/ events' = Append(events, v) /\ UNCHANGED lookups
         \/ lookups' = lookups \cup {l} /\ UNCHANGED events
  BY <1>2, <1>7 DEF OpenWindow, Post
<1> HIDE DEF vs
<1>9. /\ W'.active = "DNRWAIT" /\ W'.port = W.port /\ W'.vs = vs /\ W'.thread = W.thread
  <2>1. W' = [W EXCEPT !.active = "DNRWAIT", !.vs = vs]
    BY <1>2, <1>8 DEF W
  <2> QED
    BY <1>2, <2>1 DEF WindSet
<1>10. Popped(calls, calls')
  BY <1>1, <1>2, ReturnOps
<1>11. StackOf(Len(calls) - 1, Op(calls, 2), Op(calls, 3), Op(calls, 4), Op(calls, 5), calls'[1].arg,
               numwindows, "DNRWAIT", W.port, W.thread, streams)
  <2>1. Now(calls) /\ StackInv /\ Len(calls) > 0
    BY <1>2
  <2> QED
    BY <1>3, <2>1, PopOpened, Zenon DEF Now, StackInv
<1>12. StackInv'
  BY <1>1, <1>8, <1>9, <1>10, <1>11, Zenon DEF StackInv, Popped
<1>13. ScreenInv'
  <2>1. vss' = {vs} /\ vs # -1
    BY <1>5, <1>6, <1>8
  <2> QED
    BY <1>5, <1>8, <1>9, <2>1 DEF ScreenInv, ScreenOf
<1>14. ThreadInv'
  BY <1>1, <1>2, <1>9, Zenon DEF ThreadInv
<1>15. events \in Seq(EventSet) /\ W.active # "DNRWAIT"
  BY <1>5 DEF TypeInv
<1>16. v \in EventSet /\ v.what = "DOMAIN_DONE"
  <2>1. Top.host \in 1..opens
    BY <1>1, TopIsCall DEF TypeInv
  <2> QED
    BY <1>2, <2>1 DEF EventSet, DomainDone
<1> HIDE DEF v, l
<1>17. CASE events' = Append(events, v) /\ UNCHANGED lookups
  <2>1. QueueOf(Append(events, v), lookups, 1, "DNRWAIT", streams)
    BY <1>2, <1>5, <1>15, <1>16, PostAnswer, Zenon DEF QueueInv
  <2>2. QueueInv'
    BY <1>1, <1>5, <1>8, <1>9, <1>17, <2>1, Zenon DEF QueueInv
  <2> QED
    BY <1>12, <1>13, <1>14, <2>2 DEF AloneInv
<1>18. CASE lookups' = lookups \cup {l} /\ UNCHANGED events
  <2>1. QueueOf(events, lookups \cup {l}, 1, "DNRWAIT", streams)
    BY <1>2, <1>5, <1>15, AskLookup, Zenon DEF QueueInv
  <2>2. QueueInv'
    BY <1>1, <1>5, <1>8, <1>9, <1>18, <2>1, Zenon DEF QueueInv
  <2> QED
    BY <1>12, <1>13, <1>14, <2>2 DEF AloneInv
<1> QED
  BY <1>8, <1>17, <1>18

(* The window when its stream opens, and when its lookup is answered: the  *)
(* main thread is in the event loop.                                       *)
Opening(a, thread) == thread = None /\ a # "user" /\ a # "net"

LEMMA OpeningIs ==
  ASSUME NEW n \in Nat, NEW a, NEW b, NEW c, NEW d, NEW arg, NEW nw, NEW active, NEW port,
         NEW thread, NEW used, StackOf(n, a, b, c, d, arg, nw, active, port, thread, used),
         n = 0 => a = "none" /\ b = "none", n = 1 => b = "none",
         nw = 1, active = "OPENING"
  PROVE  Opening(a, thread)
BY DEF Opening, StackOf, ShapeOf, ThreadOf, StreamOf, Shaped, Outermost, Leaving, Open2

Waiting(n, a, thread, used) == used = {} /\ thread = None /\ (n > 1 => a # "net")

LEMMA WaitingIs ==
  ASSUME NEW n \in Nat, NEW a, NEW b, NEW c, NEW d, NEW arg, NEW nw, NEW active, NEW port,
         NEW thread, NEW used, StackOf(n, a, b, c, d, arg, nw, active, port, thread, used),
         n = 0 => a = "none" /\ b = "none", n = 1 => b = "none",
         nw = 1, active = "DNRWAIT"
  PROVE  Waiting(n, a, thread, used)
BY DEF Waiting, StackOf, ShapeOf, ThreadOf, StreamOf, Shaped, Outermost, Leaving, Open2

(* An open window that is not being closed has its stream.                 *)
LEMMA HasStream ==
  ASSUME NEW n \in Nat, NEW a, NEW b, NEW c, NEW d, NEW arg, NEW nw, NEW active, NEW port,
         NEW thread, NEW used, StackOf(n, a, b, c, d, arg, nw, active, port, thread, used),
         n = 0 => a = "none" /\ b = "none", n = 1 => b = "none",
         nw = 1, active \in Open2, InLoop(n, a)
  PROVE  used # {}
BY DEF StackOf, ShapeOf, ThreadOf, StreamOf, Shaped, Outermost, Leaving, Open2, InLoop

(* Network events, between which only the event loop can be.               *)
LEMMA LoopOnly ==
  ASSUME AtEvents(calls, "yield"), ~(Len(calls) > 1 /\ Op(calls, 1) = "net")
  PROVE  InLoop(Len(calls), Op(calls, 1))
BY DEF AtEvents, NextPart

(* A thread is made for a window that has none.                            *)
LEMMA NewThread ==
  ASSUME threads \in Seq(ThreadSet), NEW c \in ThreadSet, OnlyRunning(threads, None)
  PROVE  OnlyRunning(Append(threads, c), Len(threads) + 1)
<1> DEFINE f == Append(threads, c)
           n == Len(threads)
<1>1. /\ n \in Nat /\ Len(f) = n + 1 /\ \A k \in 1..n : f[k] = threads[k]
  BY AppendProperties
<1> HIDE DEF f
<1>2. ASSUME NEW k \in 1..n, Running(f[k]) PROVE FALSE
  <2>1. Running(threads[k])
    BY <1>1, <1>2, Zenon
  <2>2. None = k
    BY <2>1, Zenon DEF OnlyRunning
  <2> QED
    BY <1>1, <2>2 DEF None
<1>3. \A k \in 1..Len(f) : k \in 1..n \/ n + 1 = k
  BY <1>1
<1>4. \A k \in 1..Len(f) : Running(f[k]) => n + 1 = k
  BY <1>2, <1>3, Zenon
<1> QED
  BY <1>4, Zenon DEF OnlyRunning, f

LEMMA ConnectionOpenEventAlone ==
  ASSUME OneWindow, TypeInv, OwnInv, AloneInv, ConnectionOpenEvent
  PROVE  AloneInv'
<1> DEFINE p == Head(events).port
           i == WindByPort(p)
           t == Len(threads) + 1
<1>1. /\ AtNet /\ events # <<>> /\ Head(events).what = "CONOPEN"
      /\ Dispatched("yield", <<>>)
      /\ UNCHANGED <<numwindows, streams, vss, lookups, opens>>
  BY DEF ConnectionOpenEvent, Take, AfterNet
<1>2. AtEvents(calls, "yield") /\ "yield" \in {"net", "yield"}
  BY <1>1, EventsAt
<1>3. /\ Now(calls) /\ StackInv /\ ScreenInv /\ ThreadInv /\ QueueInv
      /\ Slots = {0} /\ screens \in [Slots -> WindSet] /\ W \in WindSet
  BY NowIs, Zenon
<1>4. StackWith(calls') /\ (InLoop(Len(calls), Op(calls, 1)) => calls' = calls)
  BY <1>1, <1>2, MovesOn, Zenon
<1>5. i = 0 \/ i = -1
  BY StreamIs, Zenon
<1>6. CASE i = -1
  <2>1. events' = Tail(events) /\ UNCHANGED <<screens, threads>>
    BY <1>6 DEF ConnectionOpenEvent
  <2> QED
    BY <1>1, <1>4, <2>1, OnlyDrop, Zenon
<1>7. CASE i = 0
  <2>1. numwindows = 1 /\ W.active \in Open2 /\ W.port = p
    BY <1>7, StreamIs, Zenon
  <2>2. W.active = "OPENING"
    <3>1. ~NoEv(events, {"CONOPEN"})
      BY <1>1, EventThere
    <3>2. W.active # "ACTIVE"
      BY <1>3, <2>1, <3>1, Zenon DEF QueueInv, QueueOf
    <3> QED
      BY <2>1, <3>2 DEF Open2
  <2>3. Opening(Op(calls, 1), W.thread)
    BY <1>3, <2>1, <2>2, OpeningIs, Zenon DEF Now, StackInv
  <2>4. InLoop(Len(calls), Op(calls, 1)) /\ calls' = calls /\ W.thread = None
    BY <1>2, <1>4, <2>3, LoopOnly, Zenon DEF Opening
  <2>5. streams # {}
    BY <1>3, <2>1, <2>4, HasStream, Zenon DEF Now, StackInv
  <2>6. \A y : StackOf(Len(calls), Op(calls, 1), Op(calls, 2), Op(calls, 3), Op(calls, 4), calls[1].arg,
                       numwindows, "ACTIVE", W.port, y, streams)
    BY <1>3, <2>1, <2>4, StartThread, Zenon DEF Now, StackInv
  <2>7. events \in Seq(EventSet) /\ Tail(events) \in Seq(EventSet) /\ threads \in Seq(ThreadSet)
    BY <1>1, TakenEvent DEF TypeInv
  <2>8. QueueOf(Tail(events), lookups, numwindows, "ACTIVE", streams)
    BY <1>1, <1>3, <2>1, <2>5, <2>7, TakeConopen, Zenon DEF QueueInv
  <2>9. ASSUME W'.active = "ACTIVE", W'.port = W.port, W'.vs = W.vs
        PROVE  StackInv' /\ ScreenInv'
    <3>1. StackInv'
      BY <1>1, <2>4, <2>6, <2>9, Zenon DEF StackInv
    <3>2. ScreenInv'
      BY <1>1, <1>3, <2>1, <2>2, <2>9 DEF ScreenInv, ScreenOf
    <3> QED
      BY <3>1, <3>2
  <2>10. CASE /\ events' = Tail(events)
              /\ screens' = [screens EXCEPT ![0].active = "ACTIVE", ![0].thread = t]
              /\ threads' = Append(threads, [state |-> "new", w |-> 0, killed |-> FALSE,
                                             port |-> NoPort, host |-> screens[0].host])
    <3> DEFINE c == [state |-> "new", w |-> 0, killed |-> FALSE, port |-> NoPort,
                     host |-> screens[0].host]
    <3>1. W'.active = "ACTIVE" /\ W'.port = W.port /\ W'.vs = W.vs /\ W'.thread = t
      <4>1. W' = [W EXCEPT !.active = "ACTIVE", !.thread = t]
        BY <1>3, <2>10 DEF W
      <4> HIDE DEF t
      <4> QED
        BY <1>3, <4>1 DEF WindSet
    <3>2. QueueInv'
      BY <1>1, <2>8, <2>10, <3>1, Zenon DEF QueueInv
    <3>3. OnlyRunning(Append(threads, c), Len(threads) + 1)
      <4>1. c \in ThreadSet
        <5>1. screens[0].host \in 1..opens
          <6>1. 0 \in Table /\ W.host \in 0..opens /\ opens \in Nat
            BY <1>3, <2>1 DEF Table, WindSet, TypeInv
          <6> QED
            BY <6>1 DEF OwnInv, None, W
        <5> QED
          BY <1>3, <5>1 DEF ThreadSet, PortNo
      <4>2. OnlyRunning(threads, None)
        BY <1>3, <2>4, Zenon DEF ThreadInv
      <4> HIDE DEF c
      <4> QED
        BY <2>7, <4>1, <4>2, NewThread, Zenon
    <3>4. ThreadInv'
      BY <2>10, <3>1, <3>3, Zenon DEF ThreadInv
    <3> QED
      BY <2>9, <3>1, <3>2, <3>4 DEF AloneInv
  <2>11. CASE /\ events' = Append(Tail(events), Ev("CONCLOSE", screens[0].port))
              /\ screens' = [screens EXCEPT ![0].active = "ACTIVE"]
              /\ UNCHANGED threads
    <3> DEFINE v == Ev("CONCLOSE", screens[0].port)
    <3>1. W'.active = "ACTIVE" /\ W'.port = W.port /\ W'.vs = W.vs /\ W'.thread = W.thread
      <4>1. W' = [W EXCEPT !.active = "ACTIVE"]
        BY <1>3, <2>11 DEF W
      <4> QED
        BY <1>3, <4>1 DEF WindSet
    <3>2. QueueOf(Append(Tail(events), v), lookups, numwindows, "ACTIVE", streams)
      <4>1. v \in EventSet /\ v.what = "CONCLOSE"
        BY <1>3 DEF EventSet, Ev, WindSet
      <4> HIDE DEF v
      <4> QED
        BY <2>7, <2>8, <4>1, PostConclose, Zenon
    <3>3. QueueInv'
      BY <1>1, <2>11, <3>1, <3>2, Zenon DEF QueueInv
    <3>4. ThreadInv'
      BY <1>3, <2>11, <3>1, Zenon DEF ThreadInv
    <3> QED
      BY <2>9, <3>1, <3>3, <3>4 DEF AloneInv
  <2>12. \/ /\ events' = Tail(events)
            /\ screens' = [screens EXCEPT ![i].active = "ACTIVE", ![i].thread = t]
            /\ threads' = Append(threads, [state |-> "new", w |-> i, killed |-> FALSE,
                                           port |-> NoPort, host |-> screens[i].host])
         \/ /\ events' = Append(Tail(events), Ev("CONCLOSE", screens[i].port))
            /\ screens' = [screens EXCEPT ![i].active = "ACTIVE"]
            /\ UNCHANGED threads
    <3>1. ~(i < 0)
      BY <1>7
    <3> QED
      BY <3>1, Zenon DEF ConnectionOpenEvent
  <2> HIDE DEF i, t
  <2> QED
    BY <1>7, <2>10, <2>11, <2>12, Zenon
<1> QED
  BY <1>5, <1>6, <1>7

(* The stream that a window gets when there is none.                       *)
LEMMA FirstStream ==
  ASSUME OneWindow, streams = {}
  PROVE  makestream \in Ports /\ makestream \in Nat /\ ~(makestream < 0)
<1>1. Ports \in SUBSET Nat /\ Ports # {} /\ ~(Ports \subseteq streams) /\ Ports \ streams = Ports
  BY SessionAssumption DEF OneWindow
<1>2. Min(Ports) \in Ports
  BY <1>1, MinIsIn, Zenon
<1>3. makestream = Min(Ports)
  BY <1>1, Zenon DEF makestream
<1>4. makestream \in Ports /\ makestream \in Nat
  BY <1>1, <1>2, <1>3
<1> QED
  BY <1>4

LEMMA CompleteConnectionOpeningAlone ==
  ASSUME OneWindow, TypeInv, AloneInv, CompleteConnectionOpening
  PROVE  AloneInv'
<1> DEFINE ev == Head(events)
<1>1. /\ AtNet /\ events # <<>> /\ ev.what = "DOMAIN_DONE"
      /\ Dispatched("yield", <<>>)
      /\ UNCHANGED <<lookups, threads>>
  BY DEF CompleteConnectionOpening, Take, AfterNet
<1>2. AtEvents(calls, "yield") /\ "yield" \in {"net", "yield"}
  BY <1>1, EventsAt
<1>3. /\ Now(calls) /\ StackInv /\ ScreenInv /\ ThreadInv /\ QueueInv
      /\ Slots = {0} /\ screens \in [Slots -> WindSet] /\ W \in WindSet
      /\ numwindows \in {0, 1}
  BY NowIs, Zenon
<1>4. StackWith(calls') /\ (InLoop(Len(calls), Op(calls, 1)) => calls' = calls)
  BY <1>1, <1>2, MovesOn, Zenon
<1>5. ev.screen = 0
  BY <1>1, <1>3, TakenEvent
<1>6. CASE events' = Tail(events) /\ UNCHANGED <<screens, numwindows, vss, streams>>
  BY <1>1, <1>4, <1>6, OnlyDrop, Zenon
<1>7. /\ numwindows = 1 /\ W.active = "DNRWAIT"
  <2>1. ~NoEv(events, {"DOMAIN_DONE"})
    BY <1>1, EventThere
  <2> QED
    BY <1>3, <2>1, Zenon DEF QueueInv, QueueOf
<1>8. Waiting(Len(calls), Op(calls, 1), W.thread, streams)
  BY <1>3, <1>7, WaitingIs, Zenon DEF Now, StackInv
<1>9. /\ InLoop(Len(calls), Op(calls, 1)) /\ calls' = calls /\ streams = {} /\ W.thread = None
  BY <1>2, <1>4, <1>8, LoopOnly, Zenon DEF Waiting
<1>10. /\ events \in Seq(EventSet) /\ Tail(events) \in Seq(EventSet) /\ vss = {W.vs} /\ W.vs # -1
  BY <1>1, <1>3, <1>7, TakenEvent DEF TypeInv, ScreenInv, ScreenOf
<1>11. /\ \A active2 : QueueOf(Tail(events), lookups, 0, active2, {})
       /\ \A v \in EventSet : \A port : v.what = "CONOPEN" =>
            QueueOf(Append(Tail(events), v), lookups, 1, "OPENING", {port})
       /\ \A v \in EventSet : \A active2 : v.what = "CONOPEN" =>
            QueueOf(Append(Tail(events), v), lookups, 0, active2, {})
  BY <1>1, <1>3, <1>10, TakeAnswer, Zenon DEF QueueInv
<1>12. ASSUME W'.thread = W.thread, numwindows' = 0, vss' = {}, streams' = {},
              QueueOf(events', lookups, 0, W'.active, {})
       PROVE  AloneInv'
  <2>1. StackOf(Len(calls), Op(calls, 1), Op(calls, 2), Op(calls, 3), Op(calls, 4), calls[1].arg,
                0, W'.active, W'.port, W.thread, streams)
    BY <1>3, <1>7, <1>9, Lost, Zenon DEF Now, StackInv
  <2>2. StackInv'
    BY <1>9, <1>12, <2>1, Zenon DEF StackInv
  <2>3. ScreenInv'
    BY <1>12 DEF ScreenInv, ScreenOf
  <2>4. ThreadInv'
    BY <1>1, <1>3, <1>12, Zenon DEF ThreadInv
  <2>5. QueueInv'
    BY <1>1, <1>12, Zenon DEF QueueInv
  <2> QED
    BY <2>2, <2>3, <2>4, <2>5 DEF AloneInv
<1>13. CASE destroyport(0) /\ events' = Tail(events) /\ UNCHANGED streams
  <2>1. screens' = [screens EXCEPT ![0].active = "NOTINUSE"]
    BY <1>3, <1>13, ShiftedOne DEF destroyport
  <2>2. W'.thread = W.thread
    <3>1. W' = [W EXCEPT !.active = "NOTINUSE"]
      BY <1>3, <2>1 DEF W
    <3> QED
      BY <1>3, <3>1 DEF WindSet
  <2>3. numwindows' = 0 /\ vss' = {} /\ streams' = {}
    BY <1>7, <1>9, <1>10, <1>13 DEF destroyport, W
  <2>4. QueueOf(events', lookups, 0, W'.active, {})
    BY <1>11, <1>13, Zenon
  <2> QED
    BY <1>12, <2>2, <2>3, <2>4
<1>14. ASSUME NEW p \in PortNo,
              streams' = IF p < 0 THEN streams ELSE streams \cup {p},
              events' = Append(Tail(events), Ev("CONOPEN", p)),
              IF p < 0
              THEN /\ screens' = WithoutStream(0, p, ev.host)
                   /\ numwindows' = numwindows - 1
                   /\ vss' = vss \ {screens[0].vs}
              ELSE /\ screens' = [screens EXCEPT ![0].port = p, ![0].ip = ev.host,
                                                 ![0].active = "OPENING"]
                   /\ UNCHANGED <<numwindows, vss>>
       PROVE  AloneInv'
  <2> DEFINE v == Ev("CONOPEN", p)
  <2>1. v \in EventSet /\ v.what = "CONOPEN"
    BY DEF EventSet, Ev
  <2>2. CASE p < 0
    <3>1. /\ screens' = WithoutStream(0, p, ev.host)
          /\ numwindows' = 0 /\ vss' = {} /\ streams' = {}
      BY <1>7, <1>9, <1>10, <1>14, <2>2 DEF W
    <3>2. W'.thread = W.thread
      <4>1. ev.host \in 1..opens /\ opens \in Nat
        BY <1>1, TakenEvent DEF TypeInv
      <4>2. WithoutStream(0, p, ev.host)[0].thread = Shifted(0)[0].thread
        <5>1. 0 \in Slots /\ numwindows \in Int /\ numwindows <= MaxSess
          BY <1>3 DEF TypeInv
        <5> QED
          BY <1>3, <4>1, <5>1, WithoutStreamIs
      <4>3. Shifted(0)[0].thread = screens[0].thread
        <5>1. Shifted(0) = [screens EXCEPT ![0].active = "NOTINUSE"]
          BY <1>3, ShiftedOne
        <5>2. Shifted(0)[0] = [W EXCEPT !.active = "NOTINUSE"]
          BY <1>3, <5>1 DEF W
        <5> QED
          BY <1>3, <5>2 DEF WindSet, W
      <4> QED
        BY <3>1, <4>2, <4>3 DEF W
    <3> HIDE DEF v
    <3>3. QueueOf(Append(Tail(events), v), lookups, 0, W'.active, {})
      BY <1>11, <2>1, Zenon
    <3>4. QueueOf(events', lookups, 0, W'.active, {})
      BY <1>14, <3>3, Zenon DEF v
    <3> QED
      BY <1>12, <3>1, <3>2, <3>4
  <2>3. CASE ~(p < 0)
    <3>1. /\ screens' = [screens EXCEPT ![0].port = p, ![0].ip = ev.host, ![0].active = "OPENING"]
          /\ UNCHANGED <<numwindows, vss>> /\ streams' = {p}
      BY <1>9, <1>14, <2>3
    <3>2. /\ W'.active = "OPENING" /\ W'.port = p /\ W'.vs = W.vs /\ W'.thread = W.thread
      <4> DEFINE h == ev.host
      <4>1. W' = [W EXCEPT !.port = p, !.ip = h, !.active = "OPENING"]
        BY <1>3, <3>1 DEF W
      <4> HIDE DEF h
      <4> QED
        BY <1>3, <4>1 DEF WindSet
    <3>3. StackOf(Len(calls), Op(calls, 1), Op(calls, 2), Op(calls, 3), Op(calls, 4), calls[1].arg,
                  numwindows, "OPENING", p, W.thread, {p})
      BY <1>3, <1>7, <1>9, GetStream, Zenon DEF Now, StackInv
    <3>4. StackInv'
      BY <1>9, <3>1, <3>2, <3>3, Zenon DEF StackInv
    <3>5. ScreenInv'
      BY <1>7, <1>10, <3>1, <3>2 DEF ScreenInv, ScreenOf
    <3>6. ThreadInv'
      BY <1>1, <1>3, <3>2, Zenon DEF ThreadInv
    <3> HIDE DEF v
    <3>7. QueueOf(Append(Tail(events), v), lookups, 1, "OPENING", {p})
      BY <1>11, <2>1, Zenon
    <3>8. QueueInv'
      BY <1>1, <1>7, <1>14, <3>1, <3>2, <3>7, Zenon DEF QueueInv, v
    <3> QED
      BY <3>4, <3>5, <3>6, <3>8 DEF AloneInv
  <2> QED
    BY <2>2, <2>3
<1>15. screens[0].active = "DNRWAIT"
  BY <1>7 DEF W
<1>16. \/ events' = Tail(events) /\ UNCHANGED <<screens, numwindows, vss, streams>>
       \/ destroyport(0) /\ events' = Tail(events) /\ UNCHANGED streams
       \/ \E ok \in Outcomes("stream") :
            LET p == IF ok THEN makestream ELSE NoPort
            IN  /\ streams' = IF p < 0 THEN streams ELSE streams \cup {p}
                /\ events' = Append(Tail(events), Ev("CONOPEN", p))
                /\ IF p < 0
                   THEN /\ screens' = WithoutStream(0, p, ev.host)
                        /\ numwindows' = numwindows - 1
                        /\ vss' = vss \ {screens[0].vs}
                   ELSE /\ screens' = [screens EXCEPT ![0].port = p, ![0].ip = ev.host,
                                                      ![0].active = "OPENING"]
                        /\ UNCHANGED <<numwindows, vss>>
  BY <1>5, <1>15, Zenon DEF CompleteConnectionOpening
<1>17. makestream \in PortNo /\ NoPort \in PortNo
  BY <1>9, FirstStream DEF PortNo
<1> QED
  BY <1>6, <1>13, <1>14, <1>16, <1>17, Zenon

LEMMA DNRDoneAlone ==
  ASSUME OneWindow, TypeInv, AloneInv, DNRDone
  PROVE  AloneInv'
<1>1. /\ StackInv /\ ScreenInv /\ ThreadInv /\ QueueInv /\ Slots = {0}
  BY NowIs, Zenon
<1>2. UNCHANGED <<screens, numwindows, streams, vss, threads, calls>>
  BY DEF DNRDone
<1>3. PICK l \in lookups, ok \in Outcomes("dns") :
        /\ lookups' = lookups \ {l}
        /\ IF screens[l.screen].active = "DNRWAIT"
           THEN Post(DomainDone(l.screen, l.host, ~ok))
           ELSE UNCHANGED events
  BY Zenon DEF DNRDone
<1>4. l.screen = 0 /\ l.host \in 1..opens
  BY <1>1 DEF TypeInv
<1>5. screens[l.screen].active = "DNRWAIT"
  <2>1. lookups # {}
    OBVIOUS
  <2>2. W.active = "DNRWAIT"
    BY <1>1, <2>1, Zenon DEF QueueInv, QueueOf
  <2> QED
    BY <1>4, <2>2 DEF W
<1> DEFINE v == DomainDone(l.screen, l.host, ~ok)
<1>6. events' = Append(events, v)
  BY <1>3, <1>5 DEF Post
<1>7. v \in EventSet /\ v.what = "DOMAIN_DONE"
  <2>1. (~ok) \in BOOLEAN
    BY Zenon
  <2> QED
    BY <1>1, <1>4, <2>1 DEF EventSet, DomainDone
<1> HIDE DEF v
<1>8. QueueOf(Append(events, v), lookups \ {l}, numwindows, W.active, streams)
  <2>1. events \in Seq(EventSet)
    BY DEF TypeInv
  <2> QED
    BY <1>1, <1>7, <2>1, AnswerLookup, Zenon DEF QueueInv
<1>9. W' = W
  BY <1>2 DEF W
<1>10. QueueInv'
  BY <1>2, <1>3, <1>6, <1>8, <1>9, Zenon DEF QueueInv
<1>11. StackInv' /\ ScreenInv' /\ ThreadInv'
  BY <1>1, <1>2, <1>9, Zenon DEF StackInv, ScreenInv, ThreadInv
<1> QED
  BY <1>10, <1>11 DEF AloneInv

-----------------------------------------------------------------------------
(* The session threads.                                                    *)

(* The record of thread t changes, and no other.                           *)
LEMMA ThreadChanges ==
  ASSUME threads \in Seq(ThreadSet), NEW t \in 1..Len(threads), NEW c \in ThreadSet,
         threads' = [threads EXCEPT ![t] = c]
  PROVE  /\ threads'[t] = c /\ Len(threads') = Len(threads)
         /\ \A k \in 1..Len(threads) : k # t => threads'[k] = threads[k]
<1>1. /\ Len(threads') = Len(threads)
      /\ \A k \in 1..Len(threads) : threads'[k] = IF k = t THEN c ELSE threads[k]
  BY ExceptSeq
<1> QED
  BY <1>1

(* A thread goes on, or ends.                                              *)
LEMMA ThreadGoesOn ==
  ASSUME threads \in Seq(ThreadSet), NEW t \in 1..Len(threads), NEW c \in ThreadSet,
         threads' = [threads EXCEPT ![t] = c], ThreadInv, W'.thread = W.thread,
         Running(c) => Running(threads[t])
  PROVE  ThreadInv'
<1>1. /\ threads'[t] = c /\ Len(threads') = Len(threads)
      /\ \A k \in 1..Len(threads) : k # t => threads'[k] = threads[k]
  BY ThreadChanges, Zenon
<1>2. \A k \in 1..Len(threads) : Running(threads'[k]) => Running(threads[k])
  BY <1>1, Zenon
<1> QED
  BY <1>1, <1>2, Zenon DEF ThreadInv, OnlyRunning

(* The thread of the window ends, and the window knows.                    *)
LEMMA ThreadEnds ==
  ASSUME threads \in Seq(ThreadSet), NEW t \in 1..Len(threads), NEW c \in ThreadSet,
         threads' = [threads EXCEPT ![t] = c], ThreadInv, W.thread = t, ~Running(c)
  PROVE  ThreadInv'
<1>1. /\ threads'[t] = c /\ Len(threads') = Len(threads)
      /\ \A k \in 1..Len(threads) : k # t => threads'[k] = threads[k]
  BY ThreadChanges, Zenon
<1>2. \A k \in 1..Len(threads) : Running(threads[k]) => k = t
  BY Zenon DEF ThreadInv, OnlyRunning
<1>3. \A k \in 1..Len(threads') : ~Running(threads'[k])
  BY <1>1, <1>2, Zenon
<1> QED
  BY <1>3, Zenon DEF ThreadInv, OnlyRunning

(* The disconnect indication of a thread.                                  *)
LEMMA PostCloseQueue ==
  ASSUME TypeInv, QueueInv, NEW port \in PortNo, PostClose(port)
  PROVE  QueueOf(events', lookups, numwindows, W.active, streams)
<1>1. CASE port = NoPort
  <2>1. events' = events
    BY <1>1 DEF PostClose
  <2> QED
    BY <2>1, Zenon DEF QueueInv
<1>2. CASE port # NoPort
  <2> DEFINE v == Ev("CONCLOSE", port)
  <2>1. events' = Append(events, v)
    BY <1>2 DEF PostClose, Post
  <2>2. events \in Seq(EventSet) /\ v \in EventSet /\ v.what = "CONCLOSE"
    BY DEF TypeInv, EventSet, Ev
  <2> HIDE DEF v
  <2>3. QueueOf(Append(events, v), lookups, numwindows, W.active, streams)
    BY <2>2, PostConclose, Zenon DEF QueueInv
  <2> QED
    BY <2>1, <2>3, Zenon
<1> QED
  BY <1>1, <1>2

(* The window keeps its fields but, perhaps, the thread.                   *)
LEMMA ThreadWindow ==
  ASSUME OneWindow, TypeInv, AloneInv, UNCHANGED <<numwindows, streams, vss, lookups, calls>>,
         W'.active = W.active, W'.port = W.port, W'.vs = W.vs,
         W'.thread = W.thread \/ W'.thread = None, ThreadInv',
         QueueOf(events', lookups, numwindows, W.active, streams)
  PROVE  AloneInv'
<1>1. Now(calls) /\ StackInv /\ ScreenInv
  BY NowIs, Zenon
<1>2. StackOf(Len(calls), Op(calls, 1), Op(calls, 2), Op(calls, 3), Op(calls, 4), calls[1].arg,
              numwindows, W.active, W.port, None, streams)
  BY <1>1, EndThread, Zenon DEF Now, StackInv
<1>3. CASE W'.thread = W.thread
  <2>1. StackInv'
    BY <1>1, <1>3, Zenon DEF StackInv
  <2>2. ScreenInv' /\ QueueInv'
    BY <1>1, Zenon DEF ScreenInv, QueueInv
  <2> QED
    BY <2>1, <2>2 DEF AloneInv
<1>4. CASE W'.thread = None
  <2>1. StackInv'
    BY <1>2, <1>4, Zenon DEF StackInv
  <2>2. ScreenInv' /\ QueueInv'
    BY <1>1, Zenon DEF ScreenInv, QueueInv
  <2> QED
    BY <2>1, <2>2 DEF AloneInv
<1> QED
  BY <1>3, <1>4

LEMMA ThreadStartAlone ==
  ASSUME OneWindow, TypeInv, AloneInv, NEW t \in 1..Len(threads), ThreadStart(t)
  PROVE  AloneInv'
<1> DEFINE port == screens[threads[t].w].port
<1>1. /\ ThreadInv /\ QueueInv
      /\ Slots = {0} /\ screens \in [Slots -> WindSet] /\ W \in WindSet
  BY NowIs, Zenon
<1>2. threads \in Seq(ThreadSet) /\ threads[t] \in ThreadSet
  BY ElementOfSeq DEF TypeInv
<1>3. /\ threads[t].w = 0 /\ port = W.port /\ port \in PortNo
  BY <1>1, <1>2 DEF ThreadSet, WindSet, W
<1>4. /\ threads[t].state = "new"
      /\ UNCHANGED <<numwindows, streams, vss, lookups, calls>>
  BY DEF ThreadStart
<1>5. CASE /\ threads' = [threads EXCEPT ![t].state = "run", ![t].port = port]
           /\ screens' = [screens EXCEPT ![threads[t].w].context = t]
           /\ UNCHANGED events
  <2> DEFINE c == [threads[t] EXCEPT !.state = "run", !.port = port]
  <2>1. W'.active = W.active /\ W'.port = W.port /\ W'.vs = W.vs /\ W'.thread = W.thread
    <3>1. W' = [W EXCEPT !.context = t]
      BY <1>1, <1>3, <1>5 DEF W
    <3> QED
      BY <1>1, <3>1 DEF WindSet
  <2>2. /\ c \in ThreadSet /\ c.killed = threads[t].killed /\ threads[t].state # "done"
    <3> HIDE DEF port
    <3> QED
      BY <1>2, <1>3, <1>4 DEF ThreadSet
  <2>3. threads' = [threads EXCEPT ![t] = c]
    BY <1>2, <1>5
  <2> HIDE DEF c
  <2>4. Running(c) => Running(threads[t])
    BY <2>2, Zenon DEF Running
  <2>5. ThreadInv'
    BY <1>1, <1>2, <2>1, <2>2, <2>3, <2>4, ThreadGoesOn, Zenon
  <2>6. QueueOf(events', lookups, numwindows, W.active, streams)
    BY <1>1, <1>5, Zenon DEF QueueInv
  <2> QED
    BY <1>4, <2>1, <2>5, <2>6, ThreadWindow, Zenon
<1>6. CASE /\ threads' = [threads EXCEPT ![t].state = "done", ![t].port = port]
           /\ PostClose(port)
           /\ UNCHANGED screens
  <2> DEFINE c == [threads[t] EXCEPT !.state = "done", !.port = port]
  <2>1. W' = W
    BY <1>6 DEF W
  <2>2. c \in ThreadSet /\ c.state = "done"
    <3> HIDE DEF port
    <3> QED
      BY <1>2, <1>3 DEF ThreadSet
  <2>3. threads' = [threads EXCEPT ![t] = c]
    BY <1>2, <1>6
  <2>4. QueueOf(events', lookups, numwindows, W.active, streams)
    BY <1>1, <1>3, <1>6, PostCloseQueue, Zenon
  <2> HIDE DEF c
  <2>5. ~Running(c)
    BY <2>2, Zenon DEF Running
  <2>6. W'.thread = W.thread /\ W'.active = W.active /\ W'.port = W.port /\ W'.vs = W.vs
    BY <2>1, Zenon
  <2>7. ThreadInv'
    BY <1>1, <1>2, <2>2, <2>3, <2>5, <2>6, ThreadGoesOn, Zenon
  <2> QED
    BY <1>4, <2>4, <2>6, <2>7, ThreadWindow, Zenon
<1> QED
  BY <1>5, <1>6, Zenon DEF ThreadStart

LEMMA ThreadDoneAlone ==
  ASSUME OneWindow, TypeInv, AloneInv, NEW t \in 1..Len(threads), ThreadDone(t),
         UNCHANGED <<numwindows, streams, vss, lookups, calls>>
  PROVE  AloneInv'
<1> DEFINE port == threads[t].port
           w == IF port < 0 THEN -1 ELSE FindWindByPort(port)
           c == [threads[t] EXCEPT !.state = "done"]
<1>1. /\ ThreadInv /\ QueueInv
      /\ Slots = {0} /\ screens \in [Slots -> WindSet] /\ W \in WindSet
      /\ numwindows \in {0, 1}
  BY NowIs, Zenon
<1>2. threads \in Seq(ThreadSet) /\ threads[t] \in ThreadSet
  BY ElementOfSeq DEF TypeInv
<1>3. port \in PortNo /\ c \in ThreadSet /\ c.state = "done"
  BY <1>2 DEF ThreadSet
<1>4. /\ threads' = [threads EXCEPT ![t] = c]
      /\ PostClose(port)
      /\ screens' = IF w >= 0 /\ screens[w].thread = t
                    THEN [screens EXCEPT ![w].thread = None, ![w].context = None]
                    ELSE screens
  BY <1>2 DEF ThreadDone
<1>5. w = 0 \/ w = -1
  BY <1>1, OneSlot
<1>6. ~Running(c)
  <2> HIDE DEF c
  <2> QED
    BY <1>3, Zenon DEF Running
<1>7. QueueOf(events', lookups, numwindows, W.active, streams)
  BY <1>1, <1>3, <1>4, PostCloseQueue, Zenon
<1> HIDE DEF c, w
<1>8. CASE w >= 0 /\ screens[w].thread = t
  <2>1. screens' = [screens EXCEPT ![0].thread = None, ![0].context = None] /\ W.thread = t
    <3>1. w = 0
      BY <1>5, <1>8
    <3>2. screens' = [screens EXCEPT ![w].thread = None, ![w].context = None]
      BY <1>4, <1>8, Zenon
    <3> QED
      BY <1>8, <3>1, <3>2, Zenon DEF W
  <2>2. W'.active = W.active /\ W'.port = W.port /\ W'.vs = W.vs /\ W'.thread = None
    <3>1. W' = [W EXCEPT !.thread = None, !.context = None]
      BY <1>1, <2>1 DEF W
    <3> QED
      BY <1>1, <3>1 DEF WindSet
  <2>3. ThreadInv'
    BY <1>1, <1>2, <1>3, <1>4, <1>6, <2>1, ThreadEnds, Zenon
  <2> QED
    BY <1>7, <2>2, <2>3, ThreadWindow, Zenon
<1>9. CASE ~(w >= 0 /\ screens[w].thread = t)
  <2>1. screens' = screens
    BY <1>4, <1>9
  <2>2. W'.active = W.active /\ W'.port = W.port /\ W'.vs = W.vs /\ W'.thread = W.thread
    BY <2>1 DEF W
  <2>3. ThreadInv'
    BY <1>1, <1>2, <1>3, <1>4, <1>6, <2>2, ThreadGoesOn, Zenon
  <2> QED
    BY <1>7, <2>2, <2>3, ThreadWindow, Zenon
<1> QED
  BY <1>8, <1>9

-----------------------------------------------------------------------------
(* The invariant, and what follows from it.                                *)

LEMMA AloneStep ==
  ASSUME OneWindow, TypeInv, OwnInv, AloneInv, [Next]_vars
  PROVE  AloneInv'
<1>1. CASE MainCall
  <2>1. ProtocolClose \/ Netclose \/ Removeport \/ Removed \/ Destroyport \/ CloseAllTurn
    BY <1>1, Zenon DEF MainCall
  <2> QED
    BY <2>1, ProtocolCloseAlone, NetcloseAlone, RemoveportAlone, RemovedAlone, DestroyportAlone,
       CloseAllTurnAlone, Zenon
<1>2. CASE NetEvent
  BY <1>2, ConnectionOpenEventAlone, ConnectionClosedEventAlone, CloseDoneAlone,
     CompleteConnectionOpeningAlone, Zenon DEF NetEvent
<1>3. CASE UserEvent
  <2>1. ~displayStatus /\ ~CloseAll
    BY Zenon DEF displayStatus, CloseAll, OneWindow
  <2> QED
    BY <1>3, <2>1, OpenAlone, CloseAWindowAlone, Zenon DEF UserEvent
<1>4. CASE OpenWindow \/ OpenFailed
  BY <1>4, OpenWindowAlone, OpenFailedAlone, Zenon
<1>5. CASE NoUserEvent \/ NoNetEvent \/ SchedReturn
  BY <1>5, NoEventAlone, SchedReturnAlone, Zenon
<1>6. CASE DNRDone
  BY <1>6, DNRDoneAlone, Zenon
<1>7. CASE ThreadStep
  <2>1. PICK t \in 1..Len(threads) : ThreadStart(t) \/ ThreadEnd(t) \/ ThreadKilled(t)
    BY <1>7, Zenon DEF ThreadStep
  <2>2. CASE ThreadStart(t)
    BY <2>2, ThreadStartAlone, Zenon
  <2>3. CASE ThreadEnd(t) \/ ThreadKilled(t)
    <3>1. ThreadDone(t) /\ UNCHANGED <<numwindows, streams, vss, lookups, calls>>
      BY <2>3, Zenon DEF ThreadEnd, ThreadKilled
    <3> QED
      BY <3>1, ThreadDoneAlone, Zenon
  <2> QED
    BY <2>1, <2>2, <2>3, Zenon
<1>8. CASE UNCHANGED vars
  <2>1. UNCHANGED <<screens, numwindows, streams, vss, events, lookups, threads>> /\ calls' = calls
    BY <1>8 DEF vars
  <2>2. StackWith(calls')
    BY <2>1, Zenon DEF AloneInv, StackInv, StackWith
  <2> QED
    BY <2>1, <2>2, OnlyStack, Zenon
<1> QED
  BY <1>1, <1>2, <1>3, <1>4, <1>5, <1>6, <1>7, <1>8, Zenon DEF Next

LEMMA AloneInit ==
  ASSUME OneWindow, Init
  PROVE  AloneInv
<1>1. /\ W.active = "NOTINUSE" /\ W.thread = None
  BY DEF Init, W, Slots, OneWindow, WindRec
<1>2. Len(calls) = 0 /\ numwindows = 0 /\ streams = {} /\ vss = {} /\ lookups = {}
      /\ Len(events) = 0 /\ Len(threads) = 0
  BY DEF Init
<1>3. Op(calls, 1) = "none"
  BY <1>2 DEF Op
<1>4. StackInv
  BY <1>1, <1>2, <1>3 DEF StackInv, StackOf, ShapeOf, ThreadOf, StreamOf, Shaped, Outermost, Leaving
<1>5. ScreenInv
  BY <1>2 DEF ScreenInv, ScreenOf
<1>6. ThreadInv
  <2>1. 1..Len(threads) = {}
    BY <1>2
  <2> QED
    BY <2>1, Zenon DEF ThreadInv, OnlyRunning
<1>7. QueueInv
  <2>1. 1..Len(events) = {}
    BY <1>2
  <2> QED
    BY <1>2, <2>1 DEF QueueInv, QueueOf, NoEv, OneEv, NoneBehind
<1> QED
  BY <1>4, <1>5, <1>6, <1>7 DEF AloneInv

(* With one window at a time the inductive invariant holds: the stack of   *)
(* unfinished calls, the window, its stream, its thread and what is queued *)
(* for it agree, whatever the nested event loops of ssh2_sched dispatch    *)
(* and however late a lookup or a thread ends.                             *)
THEOREM AloneInvariant ==
  ASSUME OneWindow
  PROVE  Spec => []AloneInv
<1>1. Init => AloneInv
  BY AloneInit
<1>2. TypeInv /\ OwnInv /\ AloneInv /\ [Next]_vars => AloneInv'
  BY AloneStep
<1>3. Spec => [](TypeInv /\ OwnInv)
  BY SessionInvariant, PTL
<1> QED
  BY <1>1, <1>2, <1>3, PTL DEF Spec

(* The windows on the screen are those of the table, and the count is      *)
(* right, whenever the main thread is in the event loop: removeport and    *)
(* destroyport, however they are nested, take a window away only once.     *)
THEOREM WindowsAreCounted ==
  ASSUME OneWindow
  PROVE  Spec => []WindowsCounted
<1>1. ASSUME TypeInv, AloneInv PROVE WindowsCounted
  <2>1. /\ Now(calls) /\ StackInv /\ ScreenInv /\ numwindows \in {0, 1}
    BY <1>1, NowIs, Zenon
  <2>2. numwindows \in 0..MaxSess
    BY <2>1 DEF OneWindow
  <2>3. Table = IF numwindows = 1 THEN {0} ELSE {}
    BY <1>1, <2>1, OneSlot, Zenon
  <2>4. ASSUME calls = <<>> PROVE vss = {screens[i].vs : i \in Table} /\ Cardinality(vss) = numwindows
    <3>1. CASE numwindows = 1
      <4>1. W.active # "NOTINUSE"
        <5>1. Len(calls) = 0
          BY <2>4
        <5> QED
          BY <2>1, <3>1, <5>1 DEF StackInv, StackOf, ShapeOf, Outermost
      <4>2. vss = {W.vs}
        BY <2>1, <3>1, <4>1 DEF ScreenInv, ScreenOf
      <4>3. Cardinality(vss) = 1
        BY <4>2, FS_Singleton
      <4> QED
        BY <2>3, <3>1, <4>2, <4>3 DEF W
    <3>2. CASE numwindows = 0
      <4>1. vss = {}
        BY <2>1, <3>2 DEF ScreenInv, ScreenOf
      <4>2. Cardinality(vss) = 0
        BY <4>1, FS_EmptySet
      <4> QED
        BY <2>3, <3>2, <4>1, <4>2
    <3> QED
      BY <2>1, <3>1, <3>2
  <2> QED
    BY <2>2, <2>4 DEF WindowsCounted
<1>2. Spec => [](TypeInv /\ OwnInv /\ NestInv)
  BY SessionInvariant
<1>3. Spec => []AloneInv
  BY AloneInvariant
<1> QED
  BY <1>1, <1>2, <1>3, PTL

(* No thread is left behind: one that has neither ended nor been told to   *)
(* end by ssh_protocol_close belongs to the window, which therefore does   *)
(* not go away without telling it.                                         *)
THEOREM NoThreadOrphaned ==
  ASSUME OneWindow
  PROVE  Spec => []NoOrphan
<1>1. ASSUME TypeInv, AloneInv PROVE NoOrphan
  <2>1. /\ StackInv /\ ThreadInv /\ numwindows \in {0, 1}
    BY <1>1, NowIs, Zenon
  <2> SUFFICES ASSUME NEW t \in 1..Len(threads), threads[t].state # "done", ~threads[t].killed
               PROVE  \E i \in Table : screens[i].thread = t
    BY Zenon DEF NoOrphan
  <2>2. W.thread = t
    BY <2>1, Zenon DEF ThreadInv, OnlyRunning, Running
  <2>3. W.thread # None
    BY <1>1, <2>2 DEF None
  <2>4. numwindows = 1
    BY <2>1, <2>3, Zenon DEF StackInv, StackOf, ThreadOf
  <2>5. 0 \in Table
    BY <1>1, <2>1, <2>4, OneSlot
  <2> QED
    BY <2>2, <2>5 DEF W
<1>2. Spec => [](TypeInv /\ OwnInv /\ NestInv)
  BY SessionInvariant
<1>3. Spec => []AloneInv
  BY AloneInvariant
<1> QED
  BY <1>1, <1>2, <1>3, PTL

(* Between handlers the open window has its stream, and a stream has its   *)
(* window: no CONCLOSE or CLOSEDONE that was posted for an earlier session *)
(* closes a later one that was given the same port, and no stream leaks.   *)
THEOREM WindowsMatchStreams ==
  ASSUME OneWindow
  PROVE  Spec => []StreamsMatch
<1>1. ASSUME TypeInv, AloneInv PROVE StreamsMatch
  <2>1. /\ Now(calls) /\ StackInv /\ numwindows \in {0, 1}
    BY <1>1, NowIs, Zenon
  <2> SUFFICES ASSUME AtLoop
               PROVE  /\ \A i \in Table : Live(i) => screens[i].port \in streams
                      /\ \A p \in streams : \E i \in Table : screens[i].port = p
    BY Zenon DEF StreamsMatch
  <2>2. InLoop(Len(calls), Op(calls, 1))
    <3>1. Top.op = "loop" \/ Top.op = "login"
      BY DEF AtLoop
    <3> QED
      BY <1>1, <3>1, WhereIs, Zenon DEF InLoop
  <2>3. Table = IF numwindows = 1 THEN {0} ELSE {}
    BY <1>1, <2>1, OneSlot, Zenon
  <2>4. streams # {} => numwindows = 1 /\ streams = {W.port}
    BY <2>1, Zenon DEF StackInv, StackOf, StreamOf
  <2>5. ASSUME NEW i \in Table, Live(i) PROVE screens[i].port \in streams
    <3>1. i = 0 /\ numwindows = 1
      BY <2>1, <2>3
    <3>2. W.active \in Open2
      BY <2>5, <3>1 DEF Live, W, Open2
    <3>3. streams # {}
      BY <2>1, <2>2, <3>1, <3>2, HasStream, Zenon DEF Now, StackInv
    <3> QED
      BY <2>4, <3>1, <3>3 DEF W
  <2>6. ASSUME NEW p \in streams PROVE \E i \in Table : screens[i].port = p
    BY <2>3, <2>4 DEF W
  <2> QED
    BY <2>5, <2>6
<1>2. Spec => [](TypeInv /\ OwnInv /\ NestInv)
  BY SessionInvariant
<1>3. Spec => []AloneInv
  BY AloneInvariant
<1> QED
  BY <1>1, <1>2, <1>3, PTL

=============================================================================
