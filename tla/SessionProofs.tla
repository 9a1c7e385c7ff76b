--------------------------- MODULE SessionProofs ---------------------------
(***************************************************************************)
(* Proofs about Session, for any size of the table, any ports, any number  *)
(* of sessions and whatever may happen.                                    *)
(*                                                                         *)
(* The inductive invariant has three parts: the types of everything, what  *)
(* is queued and stacked included; the thread of a slot is of the slot's   *)
(* session, also above numwindows; and, for the depth of the stack, the    *)
(* killed threads that no window of the table refers to any more pay for   *)
(* the nested event loops.                                                 *)
(***************************************************************************)
EXTENDS Session, FiniteSetTheorems, SequenceTheorems, WellFoundedInduction, TLAPS

PortNo == Ports \cup {NoPort, NoStream, CorpsePort}

(* What the slots, the queue, the thread list and the stack can hold.      *)
WindSet ==
  [host : 0..opens, active : {"NOTINUSE", "DNRWAIT", "OPENING", "ACTIVE", "ISCORPSE"},
   port : PortNo, vs : -1..MaxSess, thread : Thread, context : Thread, ip : 0..opens]

EventSet ==
  [what : {"CONOPEN", "CONCLOSE", "CLOSEDONE"}, port : PortNo]
    \cup [what : {"DOMAIN_DONE"}, screen : Slots, host : 1..opens, err : BOOLEAN]

ThreadSet ==
  [state : {"new", "run", "done"}, w : Slots, killed : BOOLEAN, port : PortNo,
   host : 1..opens]

CallSet ==
  [op : {"user", "net", "yield", "protocol_close", "removeport", "removed", "destroyport"},
   arg : Slots, host : {None}]
    \cup [op : {"create", "login"}, arg : Slots, host : 1..opens]
    \cup [op : {"netclose"}, arg : PortNo, host : {None}]
    \cup [op : {"closeall"}, arg : -1..(MaxSess - 1), host : {None}]

TypeInv ==
  /\ screens \in [Slots -> WindSet]
  /\ numwindows \in Int /\ numwindows <= MaxSess
  /\ streams \subseteq Ports /\ vss \subseteq 0..MaxSess
  /\ events \in Seq(EventSet)
  /\ lookups \subseteq [screen : Slots, host : 1..opens]
  /\ threads \in Seq(ThreadSet)
  /\ calls \in Seq(CallSet)
  /\ opens \in 0..MaxOpens /\ ends \in 0..MaxEnds

(* A window of the table has a host, and every slot's thread is its own.   *)
OwnInv ==
  /\ \A i \in Table : screens[i].host # None
  /\ \A i \in Slots :
       screens[i].thread # None => threads[screens[i].thread].host = screens[i].host

(* The calls that dispatch events from within ssh2_sched, and how many of  *)
(* them a stack holds.                                                     *)
Nested == {"user", "net", "yield"}
Nest(s) == Cardinality({k \in 1..Len(s) : s[k].op \in Nested})

(* What stands above an unfinished removeport: the netclose before it, or  *)
(* the event loop that the netclose nests.                                 *)
Openers == Nested \cup {"netclose", "protocol_close"}
Stacked(s) ==
  \A k \in 2..Len(s) :
    /\ s[k].op \notin {"netclose", "protocol_close"}
    /\ s[k].op = "removeport" => s[k - 1].op \in Openers

(* The killed threads that no window refers to: none of these is killed    *)
(* again through the table.                                                *)
Referred(t) == \E i \in Table : screens[i].thread = t
Gone == {t \in 1..Len(threads) : threads[t].killed /\ ~Referred(t)}

(* No two windows share a thread.                                          *)
Unshared ==
  \A i, j \in Table :
    screens[i].thread # None /\ screens[i].thread = screens[j].thread => i = j

(* Each nested event loop is paid for by a thread that is gone.  A stale   *)
(* removeport may kill a thread that does not count, but only after the    *)
(* event loop nested by the netclose before it has returned; without one   *)
(* the index it holds is still in the table.                               *)
NestInv ==
  /\ Unshared
  /\ Stacked(calls)
  /\ Nest(calls) <= Cardinality(Gone)
  /\ Top.op \in {"removeport", "protocol_close"} /\ Top.arg \notin Table
       => Nest(calls) + 1 <= Cardinality(Gone)
  /\ Len(calls) >= 2 /\ Top.op \in {"netclose", "protocol_close"}
                     /\ calls[2].op = "removeport"
       => calls[2].arg \in Table

-----------------------------------------------------------------------------
(* A set of natural numbers that is not empty has a least member, which is *)
(* what Min returns.                                                       *)
LEMMA MinIsIn ==
  ASSUME NEW S \in SUBSET Nat, S # {}
  PROVE  Min(S) \in S /\ \A y \in S : Min(S) <= y
<1>1. PICK x \in S : \A y \in S : ~(<<y, x>> \in OpToRel(<, Nat))
  BY NatLessThanWellFounded, WFMin
<1>2. ASSUME NEW y \in S PROVE x <= y
  <2>1. ASSUME y < x PROVE <<y, x>> \in OpToRel(<, Nat)
    <3>1. <<y, x>> \in Nat \X Nat /\ <<y, x>>[1] = y /\ <<y, x>>[2] = x
      OBVIOUS
    <3>2. <<y, x>>[1] < <<y, x>>[2]
      BY <2>1, <3>1
    <3> QED
      BY <3>1, <3>2, Zenon DEF OpToRel
  <2>2. ~(y < x)
    BY <2>1, <1>1, Zenon
  <2> QED
    BY <2>2
<1> QED
  BY <1>2 DEF Min

(* A search of the table finds a member of the set it searches, or none.   *)
LEMMA FirstIsIn ==
  ASSUME NEW S \in SUBSET Slots
  PROVE  First(S) \in S \/ First(S) = -1
<1>1. S \subseteq Nat
  BY SessionAssumption DEF Slots
<1> QED
  BY <1>1, MinIsIn DEF First

(* The window lookups answer with an index of the table, or -1.            *)
LEMMA LookupsInTable ==
  ASSUME NEW p
  PROVE  /\ WindByPort(p) = -1 \/ WindByPort(p) \in Table
         /\ FindWindByPort(p) = -1 \/ FindWindByPort(p) \in Table
         /\ findbyVS(p) = -1 \/ findbyVS(p) \in Table
<1>1. {i \in Table : screens[i].port = p /\ Live(i)} \in SUBSET Slots
  BY DEF Table
<1>2. {i \in Table : screens[i].port = p} \in SUBSET Slots
  BY DEF Table
<1>3. {i \in Table : screens[i].vs = p} \in SUBSET Slots
  BY DEF Table
<1>4. WindByPort(p) = -1 \/ WindByPort(p) \in {i \in Table : screens[i].port = p /\ Live(i)}
  BY <1>1, FirstIsIn DEF WindByPort
<1>5. FindWindByPort(p) = -1 \/ FindWindByPort(p) \in {i \in Table : screens[i].port = p}
  BY <1>2, FirstIsIn DEF FindWindByPort
<1>6. findbyVS(p) = -1 \/ findbyVS(p) \in {i \in Table : screens[i].vs = p}
  BY <1>3, FirstIsIn DEF findbyVS
<1> QED
  BY <1>4, <1>5, <1>6

-----------------------------------------------------------------------------
(* The stack of calls.                                                     *)

(* The nested calls of a concatenation are those of its parts.             *)
LEMMA NestConcat ==
  ASSUME NEW C, NEW s \in Seq(C), NEW t \in Seq(C)
  PROVE  /\ Nest(s) \in Nat /\ Nest(t) \in Nat
         /\ Nest(s \o t) = Nest(s) + Nest(t)
<1> DEFINE n == Len(s)
           m == Len(t)
           A == {k \in 1..n : s[k].op \in Nested}
           B == {k \in 1..m : t[k].op \in Nested}
           D == {k \in (n + 1)..(n + m) : (s \o t)[k].op \in Nested}
           U == {k \in 1..Len(s \o t) : (s \o t)[k].op \in Nested}
           f == [k \in B |-> k + n]
<1>1. /\ n \in Nat /\ m \in Nat /\ Len(s \o t) = n + m
      /\ \A i \in 1..(n + m) : (s \o t)[i] = IF i <= n THEN s[i] ELSE t[i - n]
  BY ConcatProperties
<1> HIDE DEF n, m
<1>2. IsFiniteSet(A) /\ IsFiniteSet(B) /\ IsFiniteSet(D)
  <2>1. IsFiniteSet(1..n) /\ IsFiniteSet(1..m) /\ IsFiniteSet((n + 1)..(n + m))
    <3>1. 1 \in Int /\ n \in Int /\ m \in Int /\ n + 1 \in Int /\ n + m \in Int
      BY <1>1
    <3> QED
      BY <3>1, FS_Interval
  <2>2. A \in SUBSET (1..n) /\ B \in SUBSET (1..m) /\ D \in SUBSET ((n + 1)..(n + m))
    OBVIOUS
  <2> HIDE DEF A, B, D
  <2> QED
    BY <2>1, <2>2, FS_Subset
<1>3. \A k \in 1..m : (s \o t)[k + n] = t[k]
  <2> SUFFICES ASSUME NEW k \in 1..m PROVE (s \o t)[k + n] = t[k]
    OBVIOUS
  <2>1. k + n \in 1..(n + m) /\ ~(k + n <= n) /\ (k + n) - n = k
    BY <1>1
  <2> QED
    BY <2>1, <1>1
<1>4. f \in Bijection(B, D)
  <2>1. f \in [B -> D]
    <3>1. \A k \in B : k + n \in D
      BY <1>1, <1>3
    <3> QED
      BY <3>1
  <2>2. \A a, b \in B : f[a] = f[b] => a = b
    BY <1>1
  <2>3. \A d \in D : \E b \in B : f[b] = d
    <3> SUFFICES ASSUME NEW d \in D PROVE \E b \in B : f[b] = d
      OBVIOUS
    <3>1. d - n \in 1..m /\ (d - n) + n = d
      BY <1>1
    <3>2. d - n \in B
      BY <3>1, <1>3
    <3> QED
      BY <3>1, <3>2
  <2> HIDE DEF f, B, D
  <2> QED
    BY <2>1, <2>2, <2>3 DEF Bijection, Injection, Surjection, IsInjective
<1>5. Cardinality(D) = Cardinality(B)
  BY <1>2, <1>4, FS_Bijection, ZenonT(40) DEF ExistsBijection
<1>6. U = A \cup D /\ A \cap D = {}
  <2>1. A \cap D = {}
    BY <1>1
  <2>2. \A k : k \in U <=> k \in A \/ k \in D
    BY <1>1
  <2> QED
    BY <2>1, <2>2
<1> HIDE DEF A, B, D, U
<1>7. /\ Cardinality(A) \in Nat /\ Cardinality(B) \in Nat /\ Cardinality(D) \in Nat
      /\ Cardinality(A \cap D) = 0
      /\ Cardinality(A \cup D) = Cardinality(A) + Cardinality(D) - Cardinality(A \cap D)
  BY <1>2, <1>6, FS_CardinalityType, FS_Union, FS_EmptySet
<1>8. Nest(s) = Cardinality(A) /\ Nest(t) = Cardinality(B) /\ Nest(s \o t) = Cardinality(U)
  BY DEF Nest, A, B, U, n, m
<1> QED
  BY <1>5, <1>6, <1>7, <1>8

(* A stack without nested calls, and one nested call.                      *)
LEMMA NestOfFew ==
  ASSUME NEW s, Len(s) \in Nat
  PROVE  /\ (\A k \in 1..Len(s) : s[k].op \notin Nested) => Nest(s) = 0
         /\ Len(s) = 1 /\ s[1].op \in Nested => Nest(s) = 1
<1> DEFINE A == {k \in 1..Len(s) : s[k].op \in Nested}
<1>1. ASSUME \A k \in 1..Len(s) : s[k].op \notin Nested PROVE Nest(s) = 0
  <2>1. A = {}
    BY <1>1
  <2> QED
    BY <2>1, FS_EmptySet DEF Nest
<1>2. ASSUME Len(s) = 1, s[1].op \in Nested PROVE Nest(s) = 1
  <2>1. A = {1}
    BY <1>2
  <2> QED
    BY <2>1, FS_Singleton DEF Nest
<1> QED
  BY <1>1, <1>2

(* The innermost call and the rest make up the stack.                      *)
LEMMA HeadAndTail ==
  ASSUME NEW C, NEW s \in Seq(C), s # <<>>
  PROVE  /\ s = <<Head(s)>> \o Tail(s)
         /\ Head(s) \in C /\ Head(s) = s[1] /\ Tail(s) \in Seq(C)
         /\ Len(s) \in Nat \ {0} /\ Len(Tail(s)) = Len(s) - 1
         /\ \A k \in 1..(Len(s) - 1) : Tail(s)[k] = s[k + 1]
<1>1. /\ Head(s) \in C /\ Head(s) = s[1] /\ Tail(s) \in Seq(C)
      /\ Len(s) \in Nat \ {0} /\ Len(Tail(s)) = Len(s) - 1
      /\ \A k \in 1..Len(Tail(s)) : Tail(s)[k] = s[k + 1]
  BY HeadTailProperties, EmptySeq
<1>2. <<Head(s)>> \in Seq(C) /\ Len(<<Head(s)>>) = 1 /\ <<Head(s)>>[1] = Head(s)
  BY <1>1
<1> DEFINE u == <<Head(s)>> \o Tail(s)
<1>3. /\ u \in Seq(C) /\ Len(u) = Len(s)
      /\ \A i \in 1..Len(s) : u[i] = IF i <= 1 THEN Head(s) ELSE Tail(s)[i - 1]
  BY <1>1, <1>2, ConcatProperties
<1> HIDE DEF u
<1>4. \A i \in 1..Len(s) : u[i] = s[i]
  <2> SUFFICES ASSUME NEW i \in 1..Len(s) PROVE u[i] = s[i]
    OBVIOUS
  <2>1. CASE i = 1
    BY <2>1, <1>1, <1>3
  <2>2. CASE i > 1
    <3>1. i - 1 \in 1..Len(Tail(s)) /\ (i - 1) + 1 = i /\ ~(i <= 1)
      BY <2>2, <1>1
    <3> QED
      BY <3>1, <1>1, <1>3
  <2> QED
    BY <2>1, <2>2, <1>1
<1>5. u = s
  BY <1>3, <1>4, SeqEqual
<1> QED
  BY <1>1, <1>5 DEF u

(* A call is replaced by the calls q that it makes.                        *)
LEMMA ReplaceTop ==
  ASSUME NEW C, NEW s \in Seq(C), s # <<>>, NEW q \in Seq(C), Stacked(s), Stacked(q),
         q # <<>> => q[Len(q)].op \in Openers \/ s[1].op \notin Openers
  PROVE  LET r == q \o Tail(s)
         IN  /\ r \in Seq(C) /\ Stacked(r)
             /\ Nest(s) \in Nat /\ Nest(q) \in Nat /\ Nest(r) \in Nat
             /\ Nest(r) + (IF s[1].op \in Nested THEN 1 ELSE 0) = Nest(q) + Nest(s)
             /\ Len(r) = Len(q) + Len(s) - 1
             /\ \A k \in 1..Len(q) : r[k] = q[k]
             /\ Len(s) >= 2 => r[Len(q) + 1] = s[2]
<1> DEFINE t == Tail(s)
           r == q \o t
<1>1. /\ s = <<s[1]>> \o t /\ s[1] \in C /\ t \in Seq(C)
      /\ Len(s) \in Nat \ {0} /\ Len(t) = Len(s) - 1
      /\ \A k \in 1..(Len(s) - 1) : t[k] = s[k + 1]
  BY HeadAndTail
<1> HIDE DEF t
<1>2. /\ r \in Seq(C) /\ Len(q) \in Nat /\ Len(r) = Len(q) + (Len(s) - 1)
      /\ \A i \in 1..(Len(q) + (Len(s) - 1)) : r[i] = IF i <= Len(q) THEN q[i] ELSE t[i - Len(q)]
  BY <1>1, ConcatProperties DEF t
<1> HIDE DEF r
<1>3. \A k \in 1..Len(q) : r[k] = q[k]
  <2>1. \A k \in 1..Len(q) : k \in 1..(Len(q) + (Len(s) - 1)) /\ k <= Len(q)
    BY <1>1, <1>2
  <2> QED
    BY <2>1, <1>2
<1>4. \A k \in 2..Len(s) : r[Len(q) + k - 1] = s[k]
  <2> SUFFICES ASSUME NEW k \in 2..Len(s) PROVE r[Len(q) + k - 1] = s[k]
    OBVIOUS
  <2> DEFINE i == Len(q) + k - 1
  <2>1. i \in 1..(Len(q) + (Len(s) - 1)) /\ ~(i <= Len(q)) /\ i - Len(q) = k - 1
        /\ k - 1 \in 1..(Len(s) - 1) /\ (k - 1) + 1 = k
    BY <1>1, <1>2
  <2> HIDE DEF i
  <2>2. r[i] = s[k]
    BY <2>1, <1>1, <1>2
  <2> QED
    BY <2>2 DEF i
<1>5. Stacked(r)
  <2> SUFFICES ASSUME NEW k \in 2..Len(r)
               PROVE  /\ r[k].op \notin {"netclose", "protocol_close"}
                      /\ r[k].op = "removeport" => r[k - 1].op \in Openers
    BY DEF Stacked
  <2>1. CASE k <= Len(q)
    <3>1. k \in 2..Len(q) /\ k - 1 \in 1..Len(q) /\ k \in 1..Len(q)
      BY <2>1, <1>1, <1>2
    <3> QED
      BY <3>1, <1>3 DEF Stacked
  <2>2. CASE k > Len(q)
    <3> DEFINE j == k - Len(q) + 1
    <3>1. j \in 2..Len(s) /\ Len(q) + j - 1 = k
      BY <2>2, <1>1, <1>2
    <3>2. r[k] = s[j]
      BY <3>1, <1>4
    <3>3. CASE j = 2 /\ q # <<>>
      <4>1. Len(q) \in 1..Len(q) /\ k - 1 = Len(q) /\ j - 1 = 1
        BY <3>1, <3>3, <1>1, <1>2, EmptySeq
      <4>2. r[k - 1] = q[Len(q)]
        BY <4>1, <1>3
      <4> QED
        BY <3>1, <3>2, <4>1, <4>2, <3>3 DEF Stacked
    <3>4. CASE j = 2 /\ q = <<>>
      <4>1. Len(q) = 0 /\ k = 1
        BY <3>1, <3>4, <1>1, <1>2
      <4> QED
        BY <4>1
    <3>5. CASE j > 2
      <4>1. j - 1 \in 2..Len(s) /\ Len(q) + (j - 1) - 1 = k - 1
        BY <3>1, <3>5, <1>1, <1>2
      <4>2. r[k - 1] = s[j - 1]
        BY <4>1, <1>4
      <4> QED
        BY <3>1, <3>2, <4>2 DEF Stacked
    <3> HIDE DEF j
    <3> QED
      BY <3>1, <3>3, <3>4, <3>5
  <2> QED
    BY <2>1, <2>2, <1>2
<1>6. /\ Nest(s) \in Nat /\ Nest(q) \in Nat /\ Nest(t) \in Nat
      /\ Nest(r) = Nest(q) + Nest(t)
      /\ Nest(s) = Nest(<<s[1]>>) + Nest(t)
  <2>1. <<s[1]>> \in Seq(C)
    BY <1>1
  <2>2. Nest(t) \in Nat /\ Nest(q) \in Nat /\ Nest(q \o t) = Nest(q) + Nest(t)
    BY <1>1, NestConcat
  <2>3. Nest(<<s[1]>> \o t) = Nest(<<s[1]>>) + Nest(t) /\ Nest(s \o t) = Nest(s) + Nest(t)
        /\ Nest(s) \in Nat
    BY <2>1, <1>1, NestConcat
  <2> QED
    BY <2>2, <2>3, <1>1 DEF r
<1>7. Nest(<<s[1]>>) = IF s[1].op \in Nested THEN 1 ELSE 0
  <2>1. Len(<<s[1]>>) = 1 /\ <<s[1]>>[1] = s[1]
    OBVIOUS
  <2> QED
    BY <2>1, NestOfFew
<1>8. Len(s) >= 2 => r[Len(q) + 1] = s[2]
  <2> SUFFICES ASSUME Len(s) >= 2 PROVE r[Len(q) + 1] = s[2]
    OBVIOUS
  <2>1. 2 \in 2..Len(s) /\ Len(q) + 2 - 1 = Len(q) + 1
    BY <1>1, <1>2
  <2> QED
    BY <2>1, <1>4
<1>9. Len(r) = Len(q) + Len(s) - 1
  BY <1>1, <1>2
<1>10. Nest(r) \in Nat /\ Nest(r) + (IF s[1].op \in Nested THEN 1 ELSE 0) = Nest(q) + Nest(s)
  BY <1>6, <1>7
<1> QED
  BY <1>2, <1>3, <1>5, <1>6, <1>8, <1>9, <1>10 DEF r, t

(* Calls are put on an empty stack, or on that of the login dialog.        *)
LEMMA PushCalls ==
  ASSUME NEW C, NEW s \in Seq(C), s # <<>> => s[1].op = "login",
         NEW q \in Seq(C), Stacked(s), Stacked(q)
  PROVE  LET r == q \o s
         IN  /\ r \in Seq(C) /\ Stacked(r)
             /\ Nest(s) \in Nat /\ Nest(q) \in Nat /\ Nest(r) = Nest(q) + Nest(s)
             /\ Len(r) = Len(q) + Len(s)
             /\ \A k \in 1..Len(q) : r[k] = q[k]
             /\ s # <<>> => r[Len(q) + 1] = s[1]
<1> DEFINE r == q \o s
<1>1. /\ r \in Seq(C) /\ Len(q) \in Nat /\ Len(s) \in Nat /\ Len(r) = Len(q) + Len(s)
      /\ \A i \in 1..(Len(q) + Len(s)) : r[i] = IF i <= Len(q) THEN q[i] ELSE s[i - Len(q)]
      /\ s # <<>> => Len(s) >= 1
      /\ s = <<>> => Len(s) = 0
  BY ConcatProperties, EmptySeq
<1> HIDE DEF r
<1>2. \A k \in 1..Len(q) : r[k] = q[k]
  BY <1>1
<1>3. \A k \in 1..Len(s) : r[Len(q) + k] = s[k]
  <2> SUFFICES ASSUME NEW k \in 1..Len(s) PROVE r[Len(q) + k] = s[k]
    OBVIOUS
  <2>1. Len(q) + k \in 1..(Len(q) + Len(s)) /\ ~(Len(q) + k <= Len(q))
        /\ (Len(q) + k) - Len(q) = k
    BY <1>1
  <2> QED
    BY <2>1, <1>1
<1>4. Stacked(r)
  <2> SUFFICES ASSUME NEW k \in 2..Len(r)
               PROVE  /\ r[k].op \notin {"netclose", "protocol_close"}
                      /\ r[k].op = "removeport" => r[k - 1].op \in Openers
    BY DEF Stacked
  <2>1. CASE k <= Len(q)
    <3>1. k \in 2..Len(q) /\ k - 1 \in 1..Len(q) /\ k \in 1..Len(q)
      BY <2>1, <1>1
    <3> QED
      BY <3>1, <1>2 DEF Stacked
  <2>2. CASE k > Len(q)
    <3> DEFINE j == k - Len(q)
    <3>1. j \in 1..Len(s) /\ Len(q) + j = k /\ s # <<>>
      BY <2>2, <1>1
    <3>2. r[k] = s[j]
      BY <3>1, <1>3
    <3>3. CASE j = 1
      BY <3>1, <3>2, <3>3
    <3>4. CASE j > 1
      <4>1. j - 1 \in 1..Len(s) /\ Len(q) + (j - 1) = k - 1 /\ j \in 2..Len(s)
        BY <3>1, <3>4, <1>1
      <4>2. r[k - 1] = s[j - 1]
        BY <4>1, <1>3
      <4> QED
        BY <3>2, <4>1, <4>2 DEF Stacked
    <3> QED
      BY <3>1, <3>3, <3>4
  <2> QED
    BY <2>1, <2>2, <1>1
<1>5. Nest(s) \in Nat /\ Nest(q) \in Nat /\ Nest(r) = Nest(q) + Nest(s)
  BY NestConcat DEF r
<1>6. s # <<>> => r[Len(q) + 1] = s[1]
  BY <1>1, <1>3
<1> QED
  BY <1>1, <1>2, <1>4, <1>5, <1>6 DEF r

(* A call returns.  What it uncovers is a removeport only if it was one of *)
(* the calls that stand above one.                                         *)
LEMMA PopCall ==
  ASSUME NEW C, NEW s \in Seq(C), s # <<>>, Stacked(s)
  PROVE  /\ Tail(s) \in Seq(C) /\ Stacked(Tail(s))
         /\ Nest(s) \in Nat /\ Nest(Tail(s)) \in Nat
         /\ Nest(Tail(s)) + (IF s[1].op \in Nested THEN 1 ELSE 0) = Nest(s)
         /\ Tail(s) # <<>> =>
              /\ Len(s) >= 2 /\ Tail(s)[1] = s[2] /\ Tail(s)[1] \in C
              /\ s[2].op \notin {"netclose", "protocol_close"}
              /\ s[2].op = "removeport" => s[1].op \in Openers
<1>1. /\ Tail(s) \in Seq(C) /\ Len(s) \in Nat \ {0} /\ Len(Tail(s)) = Len(s) - 1
      /\ \A k \in 1..(Len(s) - 1) : Tail(s)[k] = s[k + 1]
  BY HeadAndTail
<1>2. <<>> \o Tail(s) = Tail(s) /\ <<>> \in Seq(C) /\ Len(<<>>) = 0
  BY <1>1, ConcatEmptySeq, EmptySeq
<1>3. Stacked(<<>>) /\ Nest(<<>>) = 0
  BY <1>2, NestOfFew DEF Stacked
<1>4. /\ Stacked(Tail(s)) /\ Nest(s) \in Nat /\ Nest(Tail(s)) \in Nat
      /\ Nest(Tail(s)) + (IF s[1].op \in Nested THEN 1 ELSE 0) = Nest(<<>>) + Nest(s)
  BY <1>2, <1>3, ReplaceTop, ZenonT(40)
<1>5. Tail(s) # <<>> => /\ Len(s) >= 2 /\ Tail(s)[1] = s[2] /\ Tail(s)[1] \in C
                        /\ s[2].op \notin {"netclose", "protocol_close"}
                        /\ s[2].op = "removeport" => s[1].op \in Openers
  <2> SUFFICES ASSUME Tail(s) # <<>>
               PROVE  /\ Len(s) >= 2 /\ Tail(s)[1] = s[2] /\ Tail(s)[1] \in C
                      /\ s[2].op \notin {"netclose", "protocol_close"}
                      /\ s[2].op = "removeport" => s[1].op \in Openers
    OBVIOUS
  <2>1. Len(Tail(s)) \in Nat \ {0}
    BY <1>1, EmptySeq
  <2>2. 1 \in 1..(Len(s) - 1) /\ 2 \in 2..Len(s) /\ Len(s) >= 2 /\ 1 \in 1..Len(Tail(s))
    BY <2>1, <1>1
  <2>3. Tail(s)[1] = s[2] /\ Tail(s)[1] \in C
    BY <2>2, <1>1
  <2>4. s[2].op \notin {"netclose", "protocol_close"}
        /\ (s[2].op = "removeport" => s[2 - 1].op \in Openers)
    BY <2>2 DEF Stacked
  <2> QED
    BY <2>2, <2>3, <2>4
<1> QED
  BY <1>1, <1>3, <1>4, <1>5

(* An event is dispatched at the main loop, in the login dialog or in a    *)
(* nested ssh2_sched, which moves on to op.                                *)
LEMMA DispatchLemma ==
  ASSUME NEW C, calls \in Seq(C), \A c \in C : c.op # "loop",
         NEW op \in {"net", "yield"}, Call(op, 0) \in C,
         AtLoop \/ Top.op \in {"user", "net"},
         NEW q \in Seq(C), Dispatched(op, q),
         Stacked(calls), Stacked(q), Nest(q) = 0
  PROVE  /\ calls' \in Seq(C) /\ Stacked(calls')
         /\ Nest(calls) \in Nat /\ Nest(calls') = Nest(calls)
         /\ q = <<>> /\ calls' # <<>> => calls'[1].op \in {"login", "net", "yield"}
         /\ q # <<>> => calls' # <<>> /\ calls'[1] = q[1]
         /\ Len(q) = 1 /\ Len(calls') >= 2 => calls'[2].op \in {"login", "net", "yield"}
         /\ Len(q) = 2 => calls'[2] = q[2]
<1>0. /\ Len(q) \in Nat /\ Len(calls) \in Nat
      /\ q # <<>> => Len(q) >= 1
      /\ q = <<>> => Len(q) = 0
      /\ calls # <<>> => Len(calls) >= 1 /\ Head(calls) = calls[1] /\ Head(calls) \in C
  BY EmptySeq
<1>1. CASE AtLoop
  <2>1. calls' = q \o calls
    BY <1>1 DEF Dispatched
  <2>2. calls # <<>> => calls[1].op = "login"
    BY <1>0, <1>1 DEF AtLoop, Top
  <2>3. /\ calls' \in Seq(C) /\ Stacked(calls')
        /\ Nest(calls) \in Nat /\ Nest(calls') = Nest(q) + Nest(calls)
        /\ Len(calls') = Len(q) + Len(calls)
        /\ \A k \in 1..Len(q) : calls'[k] = q[k]
        /\ calls # <<>> => calls'[Len(q) + 1] = calls[1]
    BY <2>1, <2>2, PushCalls
  <2>4. q = <<>> /\ calls' # <<>> => calls'[1].op \in {"login", "net", "yield"}
    <3>1. calls' # <<>> => Len(calls') >= 1
      BY <2>3, EmptySeq
    <3>2. q = <<>> /\ calls' # <<>> => calls # <<>> /\ Len(q) + 1 = 1
      BY <3>1, <2>3, <1>0
    <3> QED
      BY <3>2, <2>2, <2>3
  <2>5. q # <<>> => calls' # <<>> /\ calls'[1] = q[1]
    BY <2>3, <1>0
  <2>6. Len(q) = 1 /\ Len(calls') >= 2 => calls'[2].op \in {"login", "net", "yield"}
    BY <2>2, <2>3, <1>0
  <2>7. Len(q) = 2 => calls'[2] = q[2]
    BY <2>3, <1>0
  <2> QED
    BY <2>3, <2>4, <2>5, <2>6, <2>7
<1>2. CASE ~AtLoop
  <2> DEFINE d == q \o <<Call(op, 0)>>
  <2>1. calls # <<>> /\ calls[1].op \in {"user", "net"} /\ calls' = d \o Tail(calls)
    BY <1>0, <1>2 DEF Dispatched, AtLoop, Top, Call, Below
  <2>2. /\ d \in Seq(C) /\ Len(d) = Len(q) + 1
        /\ \A k \in 1..Len(q) : d[k] = q[k]
        /\ d[Len(q) + 1] = Call(op, 0)
    <3>1. d = Append(q, Call(op, 0))
      BY AppendIsConcat
    <3> QED
      BY <3>1, AppendProperties
  <2>3. Nest(d) = 1
    <3>1. <<Call(op, 0)>> \in Seq(C) /\ Len(<<Call(op, 0)>>) = 1 /\ <<Call(op, 0)>>[1].op \in Nested
      BY DEF Call, Nested
    <3>2. Nest(<<Call(op, 0)>>) = 1
      BY <3>1, NestOfFew
    <3>3. Nest(d) = Nest(q) + Nest(<<Call(op, 0)>>)
      BY <3>1, NestConcat
    <3> QED
      BY <3>2, <3>3
  <2> HIDE DEF d
  <2>4. Call(op, 0).op = op /\ op \in Openers
    BY DEF Call, Openers, Nested
  <2>5. Stacked(d)
    <3> SUFFICES ASSUME NEW k \in 2..Len(d)
                 PROVE  /\ d[k].op \notin {"netclose", "protocol_close"}
                        /\ d[k].op = "removeport" => d[k - 1].op \in Openers
      BY DEF Stacked
    <3>1. CASE k = Len(q) + 1
      BY <3>1, <2>2, <2>4
    <3>2. CASE k <= Len(q)
      <4>1. k \in 2..Len(q) /\ k \in 1..Len(q) /\ k - 1 \in 1..Len(q)
        BY <3>2, <1>0
      <4> QED
        BY <4>1, <2>2 DEF Stacked
    <3> QED
      BY <3>1, <3>2, <2>2, <1>0
  <2>6. d[Len(d)].op \in Openers
    BY <2>2, <2>4
  <2>7. /\ calls' \in Seq(C) /\ Stacked(calls')
        /\ Nest(calls) \in Nat /\ Nest(calls') \in Nat
        /\ Nest(calls') + (IF calls[1].op \in Nested THEN 1 ELSE 0) = Nest(d) + Nest(calls)
        /\ Len(calls') = Len(d) + Len(calls) - 1
        /\ \A k \in 1..Len(d) : calls'[k] = d[k]
    <3> DEFINE r == d \o Tail(calls)
    <3>1. /\ r \in Seq(C) /\ Stacked(r)
          /\ Nest(calls) \in Nat /\ Nest(d) \in Nat /\ Nest(r) \in Nat
          /\ Nest(r) + (IF calls[1].op \in Nested THEN 1 ELSE 0) = Nest(d) + Nest(calls)
          /\ Len(r) = Len(d) + Len(calls) - 1
          /\ \A k \in 1..Len(d) : r[k] = d[k]
          /\ Len(calls) >= 2 => r[Len(d) + 1] = calls[2]
      <4>1. d # <<>> => d[Len(d)].op \in Openers \/ calls[1].op \notin Openers
        BY <2>6
      <4>2. calls # <<>> /\ d \in Seq(C)
        BY <2>1, <2>2
      <4> QED
        BY <4>1, <4>2, <2>5, ReplaceTop, SMTT(40)
    <3> HIDE DEF r
    <3>2. calls' = r
      BY <2>1 DEF r
    <3> QED
      BY <3>1, <3>2
  <2>8. Nest(calls') = Nest(calls)
    <3>1. calls[1].op \in Nested
      BY <2>1 DEF Nested
    <3> QED
      BY <3>1, <2>3, <2>7
  <2>9. 1 \in 1..Len(d) /\ calls'[1] = d[1] /\ (q # <<>> => calls'[1] = q[1] /\ calls' # <<>>)
        /\ (q = <<>> => calls'[1] = Call(op, 0))
    BY <1>0, <2>2, <2>7
  <2>10. /\ Len(q) = 1 => calls'[2] = Call(op, 0)
         /\ Len(q) = 2 => calls'[2] = q[2]
    <3>1. Len(q) \in {1, 2} => 2 \in 1..Len(d) /\ calls'[2] = d[2]
      BY <1>0, <2>2, <2>7
    <3> QED
      BY <3>1, <2>2
  <2> QED
    BY <2>4, <2>7, <2>8, <2>9, <2>10
<1> QED
  BY <1>1, <1>2

-----------------------------------------------------------------------------
(* Types.                                                                  *)

(* What the fields of a call on the stack can be, by its operation.        *)
LEMMA CallFields ==
  ASSUME NEW c \in CallSet
  PROVE  /\ c.op # "loop"
         /\ c.op \notin {"netclose", "closeall"} => c.arg \in Slots
         /\ c.op \in {"create", "login"} => c.host \in 1..opens
         /\ c.op = "netclose" => c.arg \in PortNo
         /\ c.op = "closeall" => c.arg \in -1..(MaxSess - 1)
<1>1. CASE c \in [op : {"user", "net", "yield", "protocol_close", "removeport", "removed",
                        "destroyport"}, arg : Slots, host : {None}]
  BY <1>1
<1>2. CASE c \in [op : {"create", "login"}, arg : Slots, host : 1..opens]
  BY <1>2
<1>3. CASE c \in [op : {"netclose"}, arg : PortNo, host : {None}]
  BY <1>3
<1>4. CASE c \in [op : {"closeall"}, arg : -1..(MaxSess - 1), host : {None}]
  BY <1>4
<1> QED
  BY <1>1, <1>2, <1>3, <1>4 DEF CallSet

(* The calls that are made are of the right type.                          *)
LEMMA CallTypes ==
  /\ 0 \in Slots
  /\ \A op \in {"user", "net", "yield", "protocol_close", "removeport", "removed",
                "destroyport"}, i \in Slots : Call(op, i) \in CallSet
  /\ \A p \in PortNo : Call("netclose", p) \in CallSet
  /\ \A i \in -1..(MaxSess - 1) : Call("closeall", i) \in CallSet
  /\ \A op \in {"create", "login"}, i \in Slots, h \in 1..opens : OpenCall(op, i, h) \in CallSet
<1>1. 0 \in Slots
  BY SessionAssumption DEF Slots
<1> QED
  BY <1>1 DEF CallSet, Call, OpenCall

(* The call in progress, unless the main thread is in the event loop.      *)
LEMMA TopIsCall ==
  ASSUME calls \in Seq(CallSet), Top.op # "loop"
  PROVE  /\ calls # <<>> /\ Top = calls[1] /\ Top \in CallSet /\ Tail(calls) \in Seq(CallSet)
         /\ Top.op \notin {"netclose", "closeall"} => Top.arg \in Slots
         /\ Top.op \in {"create", "login"} => Top.host \in 1..opens
         /\ Top.op = "netclose" => Top.arg \in PortNo
         /\ Top.op = "closeall" => Top.arg \in -1..(MaxSess - 1)
<1>1. calls # <<>>
  BY DEF Top, Call
<1>2. Top = calls[1] /\ Top \in CallSet /\ Tail(calls) \in Seq(CallSet)
  BY <1>1, HeadAndTail DEF Top
<1> QED
  BY <1>1, <1>2, CallFields

(* Dispatching typed calls leaves a typed stack.                           *)
LEMMA DispatchType ==
  ASSUME NEW C, calls \in Seq(C), NEW q \in Seq(C), NEW op, Call(op, 0) \in C,
         AtLoop \/ calls # <<>>, Dispatched(op, q)
  PROVE  calls' \in Seq(C)
<1>1. CASE AtLoop
  BY <1>1, ConcatProperties DEF Dispatched
<1>2. CASE ~AtLoop
  <2>1. Tail(calls) \in Seq(C)
    BY <1>2, HeadTailProperties
  <2>2. <<Call(op, 0)>> \in Seq(C)
    OBVIOUS
  <2>3. q \o <<Call(op, 0)>> \in Seq(C)
    BY <2>2, ConcatProperties
  <2>4. calls' = (q \o <<Call(op, 0)>>) \o Tail(calls)
    BY <1>2 DEF Dispatched, Below
  <2> QED
    BY <2>1, <2>3, <2>4, ConcatProperties
<1> QED
  BY <1>1, <1>2

(* The slot whose contents destroyport(w) leaves in slot i.                *)
Source(w, i) == IF i >= w /\ i < numwindows - 1 THEN i + 1 ELSE i

(* destroyport moves whole slots: nothing but active changes within one,   *)
(* no window of the table is doubled and none comes from outside.          *)
LEMMA ShiftedIs ==
  ASSUME screens \in [Slots -> WindSet], numwindows \in Int, numwindows <= MaxSess,
         NEW w \in Slots
  PROVE  /\ Shifted(w) \in [Slots -> WindSet]
         /\ \A i \in Slots :
              /\ Source(w, i) \in Slots
              /\ Shifted(w)[i].host = screens[Source(w, i)].host
              /\ Shifted(w)[i].thread = screens[Source(w, i)].thread
              /\ i < numwindows - 1 => Source(w, i) < numwindows
         /\ \A i, j \in Slots :
              i < numwindows - 1 /\ j < numwindows - 1 /\ Source(w, i) = Source(w, j) => i = j
<1> DEFINE marked == [screens EXCEPT ![w].active = "NOTINUSE"]
<1>0. MaxSess \in Nat \ {0} /\ Slots \subseteq Nat
  BY SessionAssumption DEF Slots
<1>1. marked \in [Slots -> WindSet]
  BY DEF WindSet
<1>2. \A i \in Slots : marked[i].host = screens[i].host /\ marked[i].thread = screens[i].thread
  BY DEF WindSet
<1> HIDE DEF marked
<1>3. \A i \in Slots : Source(w, i) \in Slots
  BY <1>0 DEF Source, Slots
<1>4. Shifted(w) = [i \in Slots |-> marked[Source(w, i)]]
  BY <1>0 DEF Shifted, Source, marked
<1>5. \A i \in Slots : i < numwindows - 1 => Source(w, i) < numwindows
  BY <1>0 DEF Source
<1>6. \A i, j \in Slots :
         i < numwindows - 1 /\ j < numwindows - 1 /\ Source(w, i) = Source(w, j) => i = j
  BY <1>0 DEF Source
<1> QED
  BY <1>1, <1>2, <1>3, <1>4, <1>5, <1>6

(* The same when no stream was left for the window: slot s opens.          *)
LEMMA WithoutStreamIs ==
  ASSUME screens \in [Slots -> WindSet], numwindows \in Int, numwindows <= MaxSess,
         opens \in Nat,
         NEW s \in Slots, NEW p \in PortNo, NEW h \in 1..opens
  PROVE  /\ WithoutStream(s, p, h) \in [Slots -> WindSet]
         /\ \A i \in Slots :
              /\ WithoutStream(s, p, h)[i].host = Shifted(s)[i].host
              /\ WithoutStream(s, p, h)[i].thread = Shifted(s)[i].thread
<1> DEFINE f == Shifted(s)
<1>1. f \in [Slots -> WindSet]
  BY ShiftedIs
<1>2. WithoutStream(s, p, h) =
        [f EXCEPT ![s].active = "OPENING",
                  ![s].port = IF s < numwindows - 1 THEN @ ELSE p,
                  ![s].ip = IF s < numwindows - 1 THEN @ ELSE h]
  BY DEF WithoutStream
<1> HIDE DEF f
<1>3. h \in 0..opens
  OBVIOUS
<1> DEFINE g == WithoutStream(s, p, h)
<1>4. /\ g \in [Slots -> WindSet]
      /\ \A i \in Slots : g[i].host = f[i].host /\ g[i].thread = f[i].thread
  <2>1. \A i \in Slots : i # s => g[i] = f[i]
    BY <1>1, <1>2
  <2>2. g[s] = [f[s] EXCEPT !.active = "OPENING",
                            !.port = IF s < numwindows - 1 THEN @ ELSE p,
                            !.ip = IF s < numwindows - 1 THEN @ ELSE h]
    BY <1>1, <1>2
  <2>3. g[s] \in WindSet /\ g[s].host = f[s].host /\ g[s].thread = f[s].thread
    <3>1. f[s] \in WindSet
      BY <1>1
    <3>2. CASE s < numwindows - 1
      <4>1. g[s] = [f[s] EXCEPT !.active = "OPENING", !.port = f[s].port, !.ip = f[s].ip]
        BY <2>2, <3>2
      <4> HIDE DEF g
      <4> QED
        BY <3>1, <4>1 DEF WindSet
    <3>3. CASE ~(s < numwindows - 1)
      <4>1. g[s] = [f[s] EXCEPT !.active = "OPENING", !.port = p, !.ip = h]
        BY <2>2, <3>3
      <4> HIDE DEF g
      <4> QED
        BY <3>1, <4>1, <1>3 DEF WindSet
    <3> QED
      BY <3>2, <3>3
  <2>4. g = [i \in Slots |-> g[i]]
    BY <1>1, <1>2
  <2> HIDE DEF g
  <2>5. \A i \in Slots : g[i] \in WindSet
    BY <1>1, <2>1, <2>3
  <2>6. g \in [Slots -> WindSet]
    BY <2>4, <2>5
  <2> QED
    BY <2>1, <2>3, <2>6
<1> QED
  BY <1>4 DEF f

(* The sets of values do not change while no session is opened and no      *)
(* thread is made.                                                         *)
LEMMA SameSets ==
  ASSUME opens' = opens, Len(threads') = Len(threads)
  PROVE  WindSet' = WindSet /\ EventSet' = EventSet /\ ThreadSet' = ThreadSet /\ CallSet' = CallSet
BY DEF WindSet, EventSet, ThreadSet, CallSet, Thread

(* Only the stack changes.                                                 *)
LEMMA QuietType ==
  ASSUME TypeInv, calls' \in Seq(CallSet),
         UNCHANGED <<screens, numwindows, streams, vss, events, lookups, threads, opens, ends>>
  PROVE  TypeInv'
BY SameSets DEF TypeInv

(* An event taken from the queue.                                          *)
LEMMA TakenEvent ==
  ASSUME TypeInv, events # <<>>
  PROVE  /\ Head(events) \in EventSet /\ Tail(events) \in Seq(EventSet)
         /\ Head(events).what # "DOMAIN_DONE" => Head(events).port \in PortNo
         /\ Head(events).what = "DOMAIN_DONE" =>
              Head(events).screen \in Slots /\ Head(events).host \in 1..opens
              /\ Head(events).err \in BOOLEAN
<1>1. Head(events) \in EventSet /\ Tail(events) \in Seq(EventSet)
  BY HeadTailProperties DEF TypeInv
<1> QED
  BY <1>1 DEF EventSet

(* The step of the main thread's calls.                                    *)
LEMMA MainCallType ==
  ASSUME TypeInv, MainCall
  PROVE  TypeInv'
<1>0. /\ MaxSess \in Nat \ {0} /\ Slots \subseteq Nat /\ opens \in Nat
      /\ calls \in Seq(CallSet) /\ screens \in [Slots -> WindSet]
      /\ numwindows \in Int /\ numwindows <= MaxSess
      /\ threads \in Seq(ThreadSet) /\ events \in Seq(EventSet) /\ vss \subseteq 0..MaxSess
  BY SessionAssumption DEF Slots, TypeInv
<1>1. Top.op # "loop"
  BY DEF MainCall, ProtocolClose, Netclose, Removeport, Removed, Destroyport, CloseAllTurn
<1>2. /\ calls # <<>> /\ Top = calls[1] /\ Top \in CallSet /\ Tail(calls) \in Seq(CallSet)
      /\ Top.op \notin {"netclose", "closeall"} => Top.arg \in Slots
      /\ Top.op = "netclose" => Top.arg \in PortNo
      /\ Top.op = "closeall" => Top.arg \in -1..(MaxSess - 1)
  BY <1>0, <1>1, TopIsCall
<1>3. \A q \in Seq(CallSet) : q \o Below \in Seq(CallSet)
  BY <1>2, ConcatProperties DEF Below
<1>4. ASSUME NEW w \in Slots, destroyport(w), Return,
             UNCHANGED <<streams, events, lookups, threads, opens, ends>>
      PROVE  TypeInv'
  <2>1. /\ screens' \in [Slots -> WindSet]
        /\ numwindows' \in Int /\ numwindows' <= MaxSess
        /\ vss' \subseteq 0..MaxSess
    <3>1. Shifted(w) \in [Slots -> WindSet]
      BY <1>0, ShiftedIs
    <3>2. screens' = Shifted(w) /\ numwindows' = numwindows - 1 /\ vss' \subseteq vss
      BY <1>4 DEF destroyport
    <3>3. numwindows' \in Int /\ numwindows' <= MaxSess
      BY <1>0, <3>2
    <3>4. vss' \subseteq 0..MaxSess
      BY <1>0, <3>2
    <3> QED
      BY <3>1, <3>2, <3>3, <3>4, Zenon
  <2> QED
    BY <1>2, <1>4, <2>1, SameSets DEF TypeInv, Return, Below
<1>5. CASE ProtocolClose
  <2> DEFINE i == Top.arg
             t == screens[i].thread
  <2>1. i \in Slots /\ screens[i] \in WindSet /\ t \in 0..Len(threads) /\ Len(threads) \in Nat
    BY <1>0, <1>2, <1>5 DEF ProtocolClose, WindSet, Thread
  <2>2. CASE t = None
    BY <1>2, <1>5, <2>2, QuietType DEF ProtocolClose, Return, Below
  <2>3. CASE t # None
    <3>1. /\ threads' = [threads EXCEPT ![t].killed = TRUE]
          /\ screens' = [screens EXCEPT ![i].thread = None]
          /\ calls' = <<Call("user", 0)>> \o Below
          /\ UNCHANGED <<numwindows, streams, vss, events, lookups, opens, ends>>
      BY <1>5, <2>3 DEF ProtocolClose, Do
    <3>2. t \in 1..Len(threads) /\ threads[t] \in ThreadSet
      BY <1>0, <2>1, <2>3 DEF None
    <3>3. [threads[t] EXCEPT !.killed = TRUE] \in ThreadSet
      BY <3>2 DEF ThreadSet
    <3>4. threads' \in Seq(ThreadSet) /\ Len(threads') = Len(threads)
      BY <1>0, <3>1, <3>2, <3>3, ExceptSeq
    <3>5. screens' \in [Slots -> WindSet]
      <4>1. [screens[i] EXCEPT !.thread = None] \in WindSet
        BY <2>1 DEF WindSet, None, Thread
      <4> QED
        BY <1>0, <2>1, <3>1, <4>1
    <3>6. calls' \in Seq(CallSet)
      <4>1. <<Call("user", 0)>> \in Seq(CallSet)
        BY CallTypes
      <4> QED
        BY <3>1, <1>3, <4>1
    <3> QED
      BY <3>1, <3>4, <3>5, <3>6, SameSets DEF TypeInv
  <2> QED
    BY <2>2, <2>3
<1>6. CASE Netclose
  <2> DEFINE p == Top.arg
             i == WindByPort(p)
  <2>1. p \in PortNo /\ (i = -1 \/ i \in Table) /\ Table \subseteq Slots
    BY <1>2, <1>6, LookupsInTable DEF Netclose, Table
  <2>2. /\ streams' = streams \ {p}
        /\ UNCHANGED <<screens, numwindows, vss, lookups, threads, opens, ends>>
    BY <1>6 DEF Netclose
  <2>3. calls' \in Seq(CallSet) /\ events' \in Seq(EventSet)
    <3>1. CASE p \notin streams \/ i < 0
      BY <1>0, <1>2, <1>6, <3>1 DEF Netclose, Return, Below
    <3>2. CASE ~(p \notin streams \/ i < 0) /\ screens[i].context # None
      <4>1. i \in Slots
        BY <2>1, <3>2
      <4>2. Call("protocol_close", i) \in CallSet
        BY <4>1, CallTypes
      <4>3. calls' = <<Call("protocol_close", i)>> \o Below /\ events' = events
        BY <1>6, <3>2 DEF Netclose, Do
      <4> QED
        BY <1>0, <1>3, <4>2, <4>3
    <3>3. CASE ~(p \notin streams \/ i < 0) /\ screens[i].context = None
      <4>1. Ev("CLOSEDONE", p) \in EventSet
        BY <2>1 DEF Ev, EventSet
      <4>2. calls' = Tail(calls) /\ events' = Append(events, Ev("CLOSEDONE", p))
        BY <1>6, <3>3 DEF Netclose, Return, Below, Post
      <4> QED
        BY <1>0, <1>2, <4>1, <4>2, AppendProperties
    <3> QED
      BY <3>1, <3>2, <3>3
  <2> QED
    BY <2>2, <2>3, SameSets DEF TypeInv
<1>7. CASE Removeport
  <2>1. /\ Top.arg \in Slots
        /\ calls' = <<Call("protocol_close", Top.arg), Call("removed", Top.arg)>> \o Below
    BY <1>2, <1>7 DEF Removeport, Do
  <2>2. <<Call("protocol_close", Top.arg), Call("removed", Top.arg)>> \in Seq(CallSet)
    BY <2>1, CallTypes
  <2>3. calls' \in Seq(CallSet)
    BY <2>1, <2>2, <1>3
  <2> QED
    BY <1>7, <2>3, QuietType DEF Removeport
<1>8. CASE Removed
  <2> DEFINE a == Top.arg
             sn == findbyVS(screens[a].vs)
  <2>1. a \in Slots /\ (sn = -1 \/ sn \in Slots)
    BY <1>2, <1>8, LookupsInTable DEF Removed, Table
  <2>2. Return /\ UNCHANGED <<streams, events, lookups, threads, opens, ends>>
    BY <1>8 DEF Removed
  <2>3. CASE /\ screens[a].vs >= 0 /\ sn >= 0
             /\ destroyport(sn)
    <3>1. sn \in Slots
      BY <2>1, <2>3
    <3> HIDE DEF sn
    <3> QED
      BY <1>4, <2>2, <2>3, <3>1
  <2>4. CASE UNCHANGED <<screens, numwindows, vss>>
    BY <1>2, <2>2, <2>4, QuietType DEF Return, Below
  <2>5. CASE /\ screens' = [screens EXCEPT ![a].port = CorpsePort, ![a].active = "ISCORPSE"]
             /\ UNCHANGED <<numwindows, vss>>
    <3>1. CorpsePort \in PortNo
      BY DEF PortNo
    <3>2. screens' \in [Slots -> WindSet]
      <4>1. [screens[a] EXCEPT !.port = CorpsePort, !.active = "ISCORPSE"] \in WindSet
        BY <1>0, <2>1, <3>1 DEF WindSet
      <4>2. screens' = [screens EXCEPT ![a] = [screens[a] EXCEPT !.port = CorpsePort,
                                                                 !.active = "ISCORPSE"]]
        BY <1>0, <2>1, <2>5
      <4> QED
        BY <1>0, <2>1, <4>1, <4>2
    <3> QED
      BY <1>2, <2>2, <2>5, <3>2, SameSets DEF TypeInv, Return, Below
  <2> QED
    BY <1>8, <2>3, <2>4, <2>5 DEF Removed
<1>9. CASE Destroyport
  BY <1>2, <1>4, <1>9 DEF Destroyport
<1>10. CASE CloseAllTurn
  <2>1. CASE Top.arg < 0
    BY <1>2, <1>10, <2>1, QuietType DEF CloseAllTurn, Return, Below
  <2>2. CASE ~(Top.arg < 0)
    <3> DEFINE a == Top.arg
               q == <<Call("netclose", screens[a].port), Call("destroyport", a),
                      Call("closeall", a - 1)>>
    <3>1. a \in Slots /\ a - 1 \in -1..(MaxSess - 1)
      BY <1>0, <1>2, <1>10, <2>2 DEF CloseAllTurn, Slots
    <3>2. screens[a].port \in PortNo
      BY <1>0, <3>1 DEF WindSet
    <3>3. q \in Seq(CallSet)
      BY <3>1, <3>2, CallTypes
    <3>4. calls' = q \o Below
      BY <1>10, <2>2 DEF CloseAllTurn, Do
    <3>5. calls' \in Seq(CallSet)
      BY <1>3, <3>3, <3>4
    <3> QED
      BY <1>10, <3>5, QuietType DEF CloseAllTurn
  <2> QED
    BY <2>1, <2>2
<1> QED
  BY <1>5, <1>6, <1>7, <1>8, <1>9, <1>10 DEF MainCall

(* The user's actions, and what they start.                                *)
LEMMA UserType ==
  ASSUME TypeInv, UserEvent \/ OpenWindow \/ OpenFailed
  PROVE  TypeInv'
<1>0. /\ MaxSess \in Nat \ {0} /\ Slots \subseteq Nat /\ opens \in 0..MaxOpens /\ MaxOpens \in Nat
      /\ calls \in Seq(CallSet) /\ screens \in [Slots -> WindSet]
      /\ numwindows \in Int /\ numwindows <= MaxSess
      /\ threads \in Seq(ThreadSet) /\ events \in Seq(EventSet) /\ vss \subseteq 0..MaxSess
      /\ lookups \subseteq [screen : Slots, host : 1..opens]
      /\ 0 \in Slots
  BY SessionAssumption DEF Slots, TypeInv
<1>1. AtUser => AtLoop \/ calls # <<>>
  BY DEF AtUser, AtLoop, Top, Call
<1>2. ASSUME NEW q \in Seq(CallSet), AtUser, AfterUser(q) PROVE calls' \in Seq(CallSet)
  <2>1. Call("net", 0) \in CallSet
    BY CallTypes
  <2> QED
    BY <1>0, <1>1, <1>2, <2>1, DispatchType DEF AfterUser
<1>3. CASE Open
  <2> DEFINE n == numwindows
  <2>1. /\ AtUser /\ n \in Slots /\ opens' = opens + 1 /\ opens' \in 0..MaxOpens
        /\ screens' = [screens EXCEPT ![n] = Reset(screens[n], opens + 1)]
        /\ numwindows' = n + 1
        /\ UNCHANGED <<streams, vss, events, lookups, threads, ends>>
    BY <1>0, <1>3 DEF Open, Slots
  <2>2. WindSet \subseteq WindSet' /\ EventSet \subseteq EventSet'
        /\ ThreadSet \subseteq ThreadSet' /\ CallSet \subseteq CallSet'
    <3>1. 0..opens \subseteq 0..opens' /\ 1..opens \subseteq 1..opens' /\ Thread' = Thread
      BY <1>0, <2>1 DEF Thread
    <3>2. WindSet \subseteq WindSet'
      BY <3>1 DEF WindSet
    <3>3. EventSet \subseteq EventSet'
      BY <3>1 DEF EventSet
    <3>4. ThreadSet \subseteq ThreadSet'
      BY <3>1 DEF ThreadSet
    <3>5. CallSet \subseteq CallSet'
      BY <3>1 DEF CallSet
    <3> QED
      BY <3>2, <3>3, <3>4, <3>5
  <2>3. screens' \in [Slots -> WindSet']
    <3>1. screens[n] \in WindSet
      BY <1>0, <2>1
    <3>2. NoPort \in PortNo /\ None \in Thread' /\ opens + 1 \in 0..opens' /\ -1 \in -1..MaxSess
      <4>1. Len(threads) \in Nat /\ Thread' = 0..Len(threads)
        BY <1>0, <2>1 DEF Thread
      <4> QED
        BY <1>0, <2>1, <4>1 DEF PortNo, None
    <3>3. screens[n] \in WindSet'
      BY <3>1, <2>2
    <3>4. Reset(screens[n], opens + 1) \in WindSet'
      BY <3>2, <3>3 DEF Reset, WindSet
    <3>5. screens \in [Slots -> WindSet']
      BY <1>0, <2>2
    <3> QED
      BY <2>1, <3>4, <3>5
  <2>4. /\ events' \in Seq(EventSet') /\ threads' \in Seq(ThreadSet')
        /\ calls \in Seq(CallSet')
    BY <1>0, <2>1, <2>2, SeqMonotonic
  <2>5. calls' \in Seq(CallSet')
    <3>1. /\ OpenCall("create", n, opens + 1) \in CallSet'
          /\ OpenCall("login", n, opens + 1) \in CallSet'
          /\ Call("net", 0) \in CallSet'
      <4>1. opens + 1 \in 1..opens'
        BY <1>0, <2>1
      <4> QED
        BY <4>1, <1>0, <2>1 DEF OpenCall, Call, CallSet
    <3>2. \/ Dispatched("net", <<OpenCall("create", n, opens + 1)>>)
          \/ Dispatched("net", <<OpenCall("login", n, opens + 1)>>)
      BY <1>3 DEF Open, AfterUser
    <3>3. /\ <<OpenCall("create", n, opens + 1)>> \in Seq(CallSet')
          /\ <<OpenCall("login", n, opens + 1)>> \in Seq(CallSet')
      BY <3>1
    <3> QED
      BY <1>1, <2>1, <2>4, <3>1, <3>2, <3>3, DispatchType
  <2>6. lookups' \subseteq [screen : Slots, host : 1..opens']
    BY <1>0, <2>1
  <2>7. numwindows' \in Int /\ numwindows' <= MaxSess
    BY <1>0, <2>1 DEF Slots
  <2> QED
    BY <2>1, <2>3, <2>4, <2>5, <2>6, <2>7 DEF TypeInv
<1>4. CASE OpenWindow
  <2> DEFINE cur == Top.arg
  <2>1. /\ calls # <<>> /\ cur \in Slots /\ Top.host \in 1..opens /\ Tail(calls) \in Seq(CallSet)
        /\ calls' = Tail(calls) /\ UNCHANGED <<streams, threads, opens, ends>>
    BY <1>0, <1>4, TopIsCall DEF OpenWindow, Return, Below
  <2>2. PICK ok \in IF VSfree = {} THEN {FALSE} ELSE Outcomes("window") :
          LET vs == IF ok THEN Min(VSfree) ELSE -1
          IN  /\ screens' = [screens EXCEPT ![cur].active = IF ok THEN "DNRWAIT" ELSE "NOTINUSE",
                                            ![cur].vs = vs]
              /\ vss' = IF ok THEN vss \cup {vs} ELSE vss
              /\ numwindows' = IF ok THEN numwindows ELSE numwindows - 1
              /\ \/ /\ Post(DomainDone(cur, Top.host, FALSE))
                    /\ UNCHANGED lookups
                 \/ /\ lookups' = lookups \cup {[screen |-> cur, host |-> Top.host]}
                    /\ UNCHANGED events
    BY <1>4 DEF OpenWindow
  <2> DEFINE vs == IF ok THEN Min(VSfree) ELSE -1
             act == IF ok THEN "DNRWAIT" ELSE "NOTINUSE"
  <2>3. ok => vs \in 0..MaxSess
    <3>1. VSfree \in SUBSET Nat /\ VSfree \subseteq 0..MaxSess
      BY <1>0 DEF VSfree
    <3>2. ok => VSfree # {}
      BY <2>2
    <3> QED
      BY <3>1, <3>2, MinIsIn
  <2>4. vs \in -1..MaxSess /\ act \in {"NOTINUSE", "DNRWAIT"}
    BY <1>0, <2>3
  <2>5. screens' = [screens EXCEPT ![cur].active = act, ![cur].vs = vs]
    BY <2>2
  <2>6. vss' \subseteq 0..MaxSess /\ numwindows' \in Int /\ numwindows' <= MaxSess
    BY <1>0, <2>2, <2>3
  <2> HIDE DEF vs, act
  <2>7. screens' \in [Slots -> WindSet]
    <3>1. [screens[cur] EXCEPT !.active = act, !.vs = vs] \in WindSet
      BY <1>0, <2>1, <2>4, ZenonT(40) DEF WindSet
    <3>2. screens' = [screens EXCEPT ![cur] = [screens[cur] EXCEPT !.active = act, !.vs = vs]]
      BY <1>0, <2>1, <2>5
    <3> QED
      BY <1>0, <2>1, <3>1, <3>2
  <2>8. events' \in Seq(EventSet) /\ lookups' \subseteq [screen : Slots, host : 1..opens]
    <3>1. DomainDone(cur, Top.host, FALSE) \in EventSet
      BY <2>1 DEF DomainDone, EventSet
    <3>2. CASE events' = Append(events, DomainDone(cur, Top.host, FALSE)) /\ lookups' = lookups
      BY <1>0, <3>1, <3>2, AppendProperties
    <3>3. CASE /\ lookups' = lookups \cup {[screen |-> cur, host |-> Top.host]}
               /\ events' = events
      BY <1>0, <2>1, <3>3
    <3> QED
      BY <2>2, <3>2, <3>3 DEF Post
  <2> QED
    BY <2>1, <2>6, <2>7, <2>8, SameSets DEF TypeInv
<1>5. CASE OpenFailed
  <2>1. /\ calls # <<>> /\ Top.arg \in Slots /\ Tail(calls) \in Seq(CallSet)
        /\ screens' = [screens EXCEPT ![Top.arg].active = "NOTINUSE"]
        /\ numwindows' = numwindows - 1 /\ calls' = Tail(calls)
        /\ UNCHANGED <<streams, vss, events, lookups, threads, opens, ends>>
    BY <1>0, <1>5, TopIsCall DEF OpenFailed, Return, Below
  <2>2. screens' \in [Slots -> WindSet]
    <3>1. [screens[Top.arg] EXCEPT !.active = "NOTINUSE"] \in WindSet
      BY <1>0, <2>1, ZenonT(40) DEF WindSet
    <3> QED
      BY <1>0, <2>1, <3>1
  <2>3. numwindows' \in Int /\ numwindows' <= MaxSess
    BY <1>0, <2>1
  <2> QED
    BY <2>1, <2>2, <2>3, SameSets DEF TypeInv
<1>6. ASSUME NEW q \in Seq(CallSet), AtUser, AfterUser(q),
             UNCHANGED <<screens, numwindows, streams, vss, events, lookups, threads, opens, ends>>
      PROVE  TypeInv'
  BY <1>2, <1>6, QuietType
<1>7. CASE CloseAWindow \/ displayStatus
  <2>1. PICK i \in Table : \/ AfterUser(<<Call("destroyport", i)>>)
                           \/ AfterUser(<<Call("netclose", screens[i].port), Call("removeport", i)>>)
                           \/ AfterUser(<<Call("netclose", screens[i].port), Call("destroyport", i)>>)
    BY <1>7 DEF CloseAWindow, displayStatus
  <2>2. i \in Slots /\ screens[i].port \in PortNo
    BY <1>0 DEF Table, WindSet
  <2>3. /\ <<Call("destroyport", i)>> \in Seq(CallSet)
        /\ <<Call("netclose", screens[i].port), Call("removeport", i)>> \in Seq(CallSet)
        /\ <<Call("netclose", screens[i].port), Call("destroyport", i)>> \in Seq(CallSet)
    BY <2>2, CallTypes
  <2>4. /\ AtUser
        /\ UNCHANGED <<screens, numwindows, streams, vss, events, lookups, threads, opens, ends>>
    BY <1>7 DEF CloseAWindow, displayStatus
  <2> QED
    BY <1>6, <2>1, <2>3, <2>4
<1>8. CASE CloseAll
  <2>1. numwindows - 1 \in -1..(MaxSess - 1)
    BY <1>0, <1>8 DEF CloseAll
  <2>2. <<Call("closeall", numwindows - 1)>> \in Seq(CallSet)
    BY <2>1, CallTypes
  <2> QED
    BY <1>6, <1>8, <2>2 DEF CloseAll
<1> QED
  BY <1>3, <1>4, <1>5, <1>7, <1>8 DEF UserEvent

(* A network event is dispatched: what it calls, and the stack after it.   *)
LEMMA NetCalls ==
  ASSUME TypeInv, NetEvent
  PROVE  /\ AtNet /\ events # <<>>
         /\ AtLoop \/ calls # <<>>
         /\ AtLoop \/ Top.op \in {"user", "net"}
         /\ calls' \in Seq(CallSet)
<1>1. AtNet /\ events # <<>>
  BY DEF NetEvent, Take, ConnectionOpenEvent, ConnectionClosedEvent, CloseDone,
     CompleteConnectionOpening
<1>2. (AtLoop \/ calls # <<>>) /\ (AtLoop \/ Top.op \in {"user", "net"})
  BY <1>1 DEF AtNet, AtLoop, Top, Call
<1>3. calls \in Seq(CallSet) /\ Call("yield", 0) \in CallSet /\ <<>> \in Seq(CallSet)
  BY CallTypes, EmptySeq DEF TypeInv
<1>4. ASSUME NEW q \in Seq(CallSet), AfterNet(q) PROVE calls' \in Seq(CallSet)
  BY <1>2, <1>3, <1>4, DispatchType DEF AfterNet
<1>5. CASE ConnectionOpenEvent \/ CompleteConnectionOpening
  <2>1. AfterNet(<<>>)
    BY <1>5, Zenon DEF ConnectionOpenEvent, CompleteConnectionOpening
  <2> QED
    BY <1>1, <1>2, <1>3, <1>4, <2>1
<1> DEFINE p == Head(events).port
           i == WindByPort(p)
<1>6. CASE ConnectionClosedEvent \/ CloseDone
  <2>1. p \in PortNo /\ (i < 0 \/ i \in Slots)
    BY <1>1, <1>6, TakenEvent, LookupsInTable DEF ConnectionClosedEvent, CloseDone, Take, Table
  <2>2. <<Call("netclose", p)>> \in Seq(CallSet)
    BY <2>1, CallTypes
  <2>3. i \in Slots => <<Call("netclose", p), Call("removeport", i)>> \in Seq(CallSet)
    BY <2>1, CallTypes
  <2>4. \/ AfterNet(<<Call("netclose", p)>>)
        \/ i \in Slots /\ AfterNet(<<Call("netclose", p), Call("removeport", i)>>)
    BY <1>6, <2>1 DEF ConnectionClosedEvent, CloseDone
  <2> HIDE DEF p, i
  <2> QED
    BY <1>1, <1>2, <1>4, <2>2, <2>3, <2>4, Zenon
<1> QED
  BY <1>1, <1>2, <1>5, <1>6 DEF NetEvent

LEMMA NetType ==
  ASSUME TypeInv, OwnInv, NetEvent
  PROVE  TypeInv'
<1>0. /\ MaxSess \in Nat \ {0} /\ Slots \subseteq Nat /\ opens \in Nat
      /\ screens \in [Slots -> WindSet] /\ streams \subseteq Ports /\ Ports \subseteq Nat
      /\ numwindows \in Int /\ numwindows <= MaxSess
      /\ threads \in Seq(ThreadSet) /\ Len(threads) \in Nat
      /\ events \in Seq(EventSet) /\ vss \subseteq 0..MaxSess
  BY SessionAssumption DEF Slots, TypeInv
<1>1. events # <<>> /\ calls' \in Seq(CallSet)
  BY NetCalls
<1>2. /\ Head(events) \in EventSet /\ Tail(events) \in Seq(EventSet)
      /\ Head(events).what # "DOMAIN_DONE" => Head(events).port \in PortNo
      /\ Head(events).what = "DOMAIN_DONE" =>
           Head(events).screen \in Slots /\ Head(events).host \in 1..opens
  BY <1>1, TakenEvent
<1>3. \A what \in {"CONOPEN", "CONCLOSE", "CLOSEDONE"}, q \in PortNo :
         Append(Tail(events), Ev(what, q)) \in Seq(EventSet)
  <2>1. \A what \in {"CONOPEN", "CONCLOSE", "CLOSEDONE"}, q \in PortNo : Ev(what, q) \in EventSet
    BY DEF Ev, EventSet
  <2> QED
    BY <1>2, <2>1, AppendProperties
<1>4. CASE ConnectionClosedEvent \/ CloseDone
  <2>1. /\ events' = Tail(events)
        /\ UNCHANGED <<screens, numwindows, streams, vss, lookups, threads, opens, ends>>
    BY <1>4 DEF ConnectionClosedEvent, CloseDone
  <2> QED
    BY <1>1, <1>2, <2>1, SameSets DEF TypeInv
<1>5. CASE ConnectionOpenEvent
  <2> DEFINE i == WindByPort(Head(events).port)
             t == Len(threads) + 1
             th == [state |-> "new", w |-> i, killed |-> FALSE, port |-> NoPort,
                    host |-> screens[i].host]
  <2>1. UNCHANGED <<numwindows, streams, vss, lookups, opens, ends>>
    BY <1>5 DEF ConnectionOpenEvent
  <2>2. i < 0 \/ i \in Table
    BY LookupsInTable
  <2>3. CASE events' = Tail(events) /\ UNCHANGED <<screens, threads>>
    BY <1>1, <1>2, <2>1, <2>3, SameSets DEF TypeInv
  <2>4. ASSUME i \in Table, events' = Tail(events),
               screens' = [screens EXCEPT ![i].active = "ACTIVE", ![i].thread = t],
               threads' = Append(threads, th)
        PROVE  TypeInv'
    <3>1. i \in Slots /\ screens[i] \in WindSet /\ screens[i].host \in 1..opens
      <4>1. i \in Slots /\ screens[i] \in WindSet
        BY <1>0, <2>4 DEF Table
      <4>2. screens[i].host \in 0..opens /\ screens[i].host # None
        BY <2>4, <4>1 DEF OwnInv, WindSet
      <4> QED
        BY <1>0, <4>1, <4>2 DEF None
    <3> HIDE DEF i
    <3>2. th \in ThreadSet
      BY <3>1 DEF ThreadSet, PortNo
    <3>3. threads' \in Seq(ThreadSet) /\ Len(threads') = Len(threads) + 1
      BY <1>0, <2>4, <3>2, AppendProperties
    <3>4. /\ WindSet \subseteq WindSet' /\ t \in Thread' /\ ThreadSet' = ThreadSet
          /\ EventSet' = EventSet /\ CallSet' = CallSet
      <4>1. 0..Len(threads) \subseteq 0..Len(threads') /\ t \in 0..Len(threads')
        BY <1>0, <3>3
      <4>2. Thread \subseteq Thread' /\ t \in Thread'
        BY <4>1 DEF Thread
      <4>3. WindSet \subseteq WindSet'
        BY <4>2, <2>1 DEF WindSet
      <4> QED
        BY <4>2, <4>3, <2>1 DEF ThreadSet, EventSet, CallSet
    <3>5. screens' \in [Slots -> WindSet']
      <4>1. screens[i] \in WindSet' /\ screens \in [Slots -> WindSet']
        BY <1>0, <3>1, <3>4
      <4> HIDE DEF t
      <4>2. [screens[i] EXCEPT !.active = "ACTIVE", !.thread = t] \in WindSet'
        BY <3>4, <4>1 DEF WindSet
      <4>3. screens' = [screens EXCEPT ![i] = [screens[i] EXCEPT !.active = "ACTIVE", !.thread = t]]
        BY <1>0, <2>4, <3>1
      <4> QED
        BY <3>1, <4>1, <4>2, <4>3
    <3>6. events' \in Seq(EventSet') /\ threads' \in Seq(ThreadSet') /\ calls' \in Seq(CallSet')
      BY <1>1, <1>2, <2>4, <3>3, <3>4
    <3> QED
      BY <2>1, <3>5, <3>6 DEF TypeInv
  <2>5. ASSUME i \in Table, events' = Append(Tail(events), Ev("CONCLOSE", screens[i].port)),
               screens' = [screens EXCEPT ![i].active = "ACTIVE"], UNCHANGED threads
        PROVE  TypeInv'
    <3>1. i \in Slots /\ screens[i] \in WindSet /\ screens[i].port \in PortNo
      BY <1>0, <2>5 DEF Table, WindSet
    <3> HIDE DEF i
    <3>2. screens' \in [Slots -> WindSet]
      <4>1. [screens[i] EXCEPT !.active = "ACTIVE"] \in WindSet
        BY <3>1 DEF WindSet
      <4> QED
        BY <1>0, <2>5, <3>1, <4>1
    <3>3. events' \in Seq(EventSet)
      BY <1>3, <2>5, <3>1
    <3> QED
      BY <1>1, <2>1, <2>5, <3>2, <3>3, SameSets DEF TypeInv
  <2> HIDE DEF TypeInv
  <2> QED
    BY <1>5, <2>2, <2>3, <2>4, <2>5 DEF ConnectionOpenEvent
<1>6. CASE CompleteConnectionOpening
  <2> DEFINE ev == Head(events)
             s == ev.screen
  <2>1. s \in Slots /\ ev.host \in 1..opens
    BY <1>2, <1>6 DEF CompleteConnectionOpening, Take
  <2>2. UNCHANGED <<lookups, threads, opens, ends>>
    BY <1>6 DEF CompleteConnectionOpening
  <2>3. CASE events' = Tail(events) /\ UNCHANGED <<screens, numwindows, vss, streams>>
    BY <1>1, <1>2, <2>2, <2>3, SameSets DEF TypeInv
  <2>4. numwindows - 1 \in Int /\ numwindows - 1 <= MaxSess
    BY <1>0
  <2>5. CASE destroyport(s) /\ events' = Tail(events) /\ UNCHANGED streams
    <3>1. Shifted(s) \in [Slots -> WindSet]
      BY <1>0, <2>1, ShiftedIs
    <3>2. screens' = Shifted(s) /\ numwindows' = numwindows - 1 /\ vss' \subseteq vss
      BY <2>5 DEF destroyport
    <3>3. screens' \in [Slots -> WindSet] /\ vss' \subseteq 0..MaxSess
      BY <1>0, <3>1, <3>2, Zenon
    <3> QED
      BY <1>1, <1>2, <2>2, <2>4, <2>5, <3>2, <3>3, SameSets DEF TypeInv
  <2>6. ASSUME NEW ok \in BOOLEAN,
               LET p == IF ok THEN makestream ELSE NoPort
               IN  /\ streams' = IF p < 0 THEN streams ELSE streams \cup {p}
                   /\ events' = Append(Tail(events), Ev("CONOPEN", p))
                   /\ IF p < 0
                      THEN /\ screens' = WithoutStream(s, p, ev.host)
                           /\ numwindows' = numwindows - 1
                           /\ vss' = vss \ {screens[s].vs}
                      ELSE /\ screens' = [screens EXCEPT ![s].port = p, ![s].ip = ev.host,
                                                         ![s].active = "OPENING"]
                           /\ UNCHANGED <<numwindows, vss>>
        PROVE  TypeInv'
    <3> DEFINE p == IF ok THEN makestream ELSE NoPort
    <3>1. p \in PortNo /\ (~(p < 0) => p \in Ports)
      <4>1. Ports \subseteq streams \/ makestream \in Ports
        <5>1. (Ports \ streams) \in SUBSET Nat
          BY <1>0
        <5>2. ~(Ports \subseteq streams) => Ports \ streams # {}
          OBVIOUS
        <5> QED
          BY <5>1, <5>2, MinIsIn DEF makestream
      <4> QED
        BY <4>1 DEF makestream, PortNo, NoPort, NoStream
    <3> HIDE DEF p
    <3>2. streams' \subseteq Ports
      BY <1>0, <2>6, <3>1 DEF p
    <3>3. events' \in Seq(EventSet)
      BY <1>3, <2>6, <3>1 DEF p
    <3>4. CASE p < 0
      <4>1. /\ screens' = WithoutStream(s, p, ev.host)
            /\ numwindows' = numwindows - 1 /\ vss' \subseteq vss
        BY <2>6, <3>4 DEF p
      <4>2. WithoutStream(s, p, ev.host) \in [Slots -> WindSet]
        BY <1>0, <2>1, <3>1, WithoutStreamIs
      <4>3. screens' \in [Slots -> WindSet] /\ vss' \subseteq 0..MaxSess
        BY <1>0, <4>1, <4>2, Zenon
      <4> QED
        BY <1>1, <2>2, <2>4, <3>2, <3>3, <4>1, <4>3, SameSets DEF TypeInv
    <3>5. CASE ~(p < 0)
      <4>1. /\ screens' = [screens EXCEPT ![s].port = p, ![s].ip = ev.host,
                                          ![s].active = "OPENING"]
            /\ UNCHANGED <<numwindows, vss>>
        BY <2>6, <3>5 DEF p
      <4> HIDE DEF s, ev
      <4>2. screens[s] \in WindSet
        BY <1>0, <2>1
      <4>3. [screens[s] EXCEPT !.port = p, !.ip = ev.host, !.active = "OPENING"] \in WindSet
        <5>1. ev.host \in 0..opens
          BY <2>1
        <5> QED
          BY <3>1, <4>2, <5>1 DEF WindSet
      <4>4. screens' = [screens EXCEPT ![s] =
                          [screens[s] EXCEPT !.port = p, !.ip = ev.host, !.active = "OPENING"]]
        BY <1>0, <2>1, <4>1
      <4>5. screens' \in [Slots -> WindSet]
        BY <1>0, <2>1, <4>3, <4>4
      <4> QED
        BY <1>1, <2>2, <3>2, <3>3, <4>1, <4>5, SameSets DEF TypeInv
    <3> QED
      BY <3>4, <3>5
  <2>7. Outcomes("stream") \subseteq BOOLEAN
    BY DEF Outcomes
  <2> HIDE DEF TypeInv
  <2> QED
    BY <1>6, <2>3, <2>5, <2>6, <2>7 DEF CompleteConnectionOpening
<1> QED
  BY <1>4, <1>5, <1>6 DEF NetEvent

(* The session threads.                                                    *)
LEMMA ThreadType ==
  ASSUME TypeInv, ThreadStep
  PROVE  TypeInv'
<1>0. /\ MaxSess \in Nat \ {0} /\ MaxEnds \in Nat
      /\ screens \in [Slots -> WindSet] /\ threads \in Seq(ThreadSet) /\ Len(threads) \in Nat
      /\ events \in Seq(EventSet) /\ ends \in 0..MaxEnds
  BY SessionAssumption DEF TypeInv
<1>1. PICK t \in 1..Len(threads) : ThreadStart(t) \/ ThreadEnd(t) \/ ThreadKilled(t)
  BY DEF ThreadStep
<1>2. /\ threads[t] \in ThreadSet /\ threads[t].w \in Slots /\ threads[t].port \in PortNo
      /\ t \in Thread /\ None \in Thread
  <2>1. threads[t] \in ThreadSet
    BY <1>0, ElementOfSeq
  <2>2. threads[t].w \in Slots /\ threads[t].port \in PortNo
    BY <2>1 DEF ThreadSet
  <2>3. t \in Thread /\ None \in Thread
    BY <1>0 DEF Thread, None
  <2> QED
    BY <2>1, <2>2, <2>3
<1>3. \A p \in PortNo : PostClose(p) => events' \in Seq(EventSet)
  <2>1. \A p \in PortNo : Ev("CONCLOSE", p) \in EventSet
    BY DEF Ev, EventSet
  <2> QED
    BY <1>0, <2>1, AppendProperties DEF PostClose, Post
<1>4. \A r \in ThreadSet : /\ [threads EXCEPT ![t] = r] \in Seq(ThreadSet)
                           /\ Len([threads EXCEPT ![t] = r]) = Len(threads)
  BY <1>0, ExceptSeq
<1>5. CASE ThreadStart(t)
  <2> DEFINE w == threads[t].w
             port == screens[w].port
  <2>1. port \in PortNo /\ screens[w] \in WindSet /\ w \in Slots
    BY <1>0, <1>2 DEF WindSet
  <2>2. UNCHANGED <<numwindows, streams, vss, lookups, calls, opens, ends>>
    BY <1>5 DEF ThreadStart
  <2>3. ASSUME NEW st \in {"run", "done"},
               threads' = [threads EXCEPT ![t].state = st, ![t].port = port]
        PROVE  threads' \in Seq(ThreadSet) /\ Len(threads') = Len(threads)
    <3> HIDE DEF port
    <3>1. [threads[t] EXCEPT !.state = st, !.port = port] \in ThreadSet
      BY <1>2, <2>1 DEF ThreadSet
    <3>2. threads' = [threads EXCEPT ![t] = [threads[t] EXCEPT !.state = st, !.port = port]]
      BY <1>0, <2>3
    <3> QED
      BY <1>4, <3>1, <3>2
  <2>4. CASE /\ threads' = [threads EXCEPT ![t].state = "run", ![t].port = port]
             /\ screens' = [screens EXCEPT ![w].context = t]
             /\ UNCHANGED events
    <3>1. threads' \in Seq(ThreadSet) /\ Len(threads') = Len(threads)
      BY <2>3, <2>4
    <3>2. [screens[w] EXCEPT !.context = t] \in WindSet
      BY <1>2, <2>1 DEF WindSet
    <3> HIDE DEF w
    <3>3. screens' \in [Slots -> WindSet]
      BY <1>0, <2>1, <2>4, <3>2
    <3> QED
      BY <2>2, <2>4, <3>1, <3>3, SameSets DEF TypeInv
  <2>5. CASE /\ threads' = [threads EXCEPT ![t].state = "done", ![t].port = port]
             /\ PostClose(port)
             /\ UNCHANGED screens
    <3>1. threads' \in Seq(ThreadSet) /\ Len(threads') = Len(threads)
      BY <2>3, <2>5
    <3>2. events' \in Seq(EventSet)
      BY <1>3, <2>1, <2>5
    <3> QED
      BY <2>2, <2>5, <3>1, <3>2, SameSets DEF TypeInv
  <2> QED
    BY <1>5, <2>4, <2>5, Zenon DEF ThreadStart
<1>6. CASE ThreadEnd(t) \/ ThreadKilled(t)
  <2> DEFINE port == threads[t].port
             w == IF port < 0 THEN -1 ELSE FindWindByPort(port)
  <2>1. /\ threads' = [threads EXCEPT ![t].state = "done"]
        /\ PostClose(port)
        /\ screens' = IF w >= 0 /\ screens[w].thread = t
                      THEN [screens EXCEPT ![w].thread = None, ![w].context = None]
                      ELSE screens
    BY <1>6 DEF ThreadEnd, ThreadKilled, ThreadDone
  <2>2. /\ UNCHANGED <<numwindows, streams, vss, lookups, calls, opens>>
        /\ ends' \in 0..MaxEnds
    BY <1>0, <1>6 DEF ThreadEnd, ThreadKilled
  <2>3. w = -1 \/ w \in Slots
    BY LookupsInTable DEF Table
  <2> HIDE DEF w
  <2>4. threads' \in Seq(ThreadSet) /\ Len(threads') = Len(threads)
    <3>1. [threads[t] EXCEPT !.state = "done"] \in ThreadSet
      BY <1>2 DEF ThreadSet
    <3> QED
      BY <1>4, <2>1, <3>1
  <2>5. screens' \in [Slots -> WindSet]
    <3>1. CASE w >= 0 /\ screens[w].thread = t
      <4>1. w \in Slots /\ screens[w] \in WindSet
        BY <1>0, <2>3, <3>1
      <4>2. [screens[w] EXCEPT !.thread = None, !.context = None] \in WindSet
        BY <1>2, <4>1 DEF WindSet
      <4>3. screens' = [screens EXCEPT ![w] = [screens[w] EXCEPT !.thread = None, !.context = None]]
        BY <1>0, <2>1, <3>1, <4>1
      <4> QED
        BY <1>0, <4>1, <4>2, <4>3
    <3>2. CASE ~(w >= 0 /\ screens[w].thread = t)
      BY <1>0, <2>1, <3>2
    <3> QED
      BY <3>1, <3>2
  <2>6. events' \in Seq(EventSet)
    BY <1>2, <1>3, <2>1
  <2> QED
    BY <2>2, <2>4, <2>5, <2>6, SameSets DEF TypeInv
<1> QED
  BY <1>1, <1>5, <1>6

LEMMA TypeStep == TypeInv /\ OwnInv /\ [Next]_vars => TypeInv'
<1> SUFFICES ASSUME TypeInv, OwnInv, [Next]_vars PROVE TypeInv'
  OBVIOUS
<1>0. calls \in Seq(CallSet) /\ events \in Seq(EventSet) /\ <<>> \in Seq(CallSet)
      /\ Call("net", 0) \in CallSet /\ Call("yield", 0) \in CallSet
  BY CallTypes, EmptySeq DEF TypeInv
<1>1. CASE NoUserEvent \/ NoNetEvent
  <2>1. AtLoop \/ calls # <<>>
    BY <1>1 DEF NoUserEvent, NoNetEvent, Top, Call
  <2>2. Dispatched("net", <<>>) \/ Dispatched("yield", <<>>)
    BY <1>1 DEF NoUserEvent, NoNetEvent, AfterUser, AfterNet
  <2>3. calls' \in Seq(CallSet)
    BY <1>0, <2>1, <2>2, DispatchType
  <2> QED
    BY <1>1, <2>3, QuietType DEF NoUserEvent, NoNetEvent
<1>2. CASE SchedReturn
  <2>1. calls' \in Seq(CallSet)
    BY <1>0, <1>2, TopIsCall DEF SchedReturn, Return, Below
  <2> QED
    BY <1>2, <2>1, QuietType DEF SchedReturn
<1>3. CASE DNRDone
  <2>1. PICK l \in lookups, ok \in Outcomes("dns") :
          /\ lookups' = lookups \ {l}
          /\ IF screens[l.screen].active = "DNRWAIT"
             THEN Post(DomainDone(l.screen, l.host, ~ok))
             ELSE UNCHANGED events
    BY <1>3 DEF DNRDone
  <2>2. l.screen \in Slots /\ l.host \in 1..opens /\ ok \in BOOLEAN
    BY DEF TypeInv, Outcomes
  <2>3. events' \in Seq(EventSet)
    <3>1. DomainDone(l.screen, l.host, ~ok) \in EventSet
      BY <2>2 DEF DomainDone, EventSet
    <3>2. CASE screens[l.screen].active = "DNRWAIT"
      <4>1. events' = Append(events, DomainDone(l.screen, l.host, ~ok))
        BY <2>1, <3>2 DEF Post
      <4> QED
        BY <1>0, <3>1, <4>1, AppendProperties
    <3>3. CASE screens[l.screen].active # "DNRWAIT"
      BY <1>0, <2>1, <3>3
    <3> QED
      BY <3>2, <3>3
  <2>4. lookups' \subseteq lookups
        /\ UNCHANGED <<screens, numwindows, streams, vss, threads, calls, opens, ends>>
    BY <1>3, <2>1 DEF DNRDone
  <2> QED
    BY <2>3, <2>4, SameSets DEF TypeInv
<1>4. CASE UNCHANGED vars
  BY <1>0, <1>4, SameSets DEF vars, TypeInv
<1> QED
  BY <1>1, <1>2, <1>3, <1>4, MainCallType, UserType, NetType, ThreadType DEF Next

-----------------------------------------------------------------------------
(* What a step does to the hosts and threads of the window table.          *)

(* No thread is made, killed or given to another host.                     *)
SameThreads ==
  /\ Len(threads') = Len(threads)
  /\ \A t \in 1..Len(threads) :
       threads'[t].host = threads[t].host /\ threads'[t].killed = threads[t].killed

(* Slots stay where they are and may forget their threads.                 *)
InPlace ==
  /\ SameThreads /\ numwindows' <= numwindows
  /\ \A i \in Slots : /\ screens'[i].host = screens[i].host
                      /\ screens'[i].thread \in {None, screens[i].thread}

(* destroyport moves the slots above w.                                    *)
Moved ==
  /\ SameThreads /\ numwindows' = numwindows - 1
  /\ \E w \in Slots : \A i \in Slots :
       /\ screens'[i].host = screens[Source(w, i)].host
       /\ screens'[i].thread = screens[Source(w, i)].thread

(* A slot is taken for a new session.                                      *)
Opened ==
  /\ SameThreads /\ numwindows \in Slots /\ numwindows' = numwindows + 1
  /\ screens'[numwindows].host # None /\ screens'[numwindows].thread = None
  /\ \A i \in Slots \ {numwindows} : screens'[i] = screens[i]

(* The window i gets its thread.                                           *)
Started(i) ==
  /\ numwindows' = numwindows /\ Len(threads') = Len(threads) + 1
  /\ \A t \in 1..Len(threads) : threads'[t] = threads[t]
  /\ threads'[Len(threads) + 1].host = screens[i].host
  /\ screens'[i].thread = Len(threads) + 1 /\ screens'[i].host = screens[i].host
  /\ \A j \in Slots \ {i} : screens'[j] = screens[j]

(* The thread of slot i is killed and forgotten.                           *)
Closed(i) ==
  /\ numwindows' = numwindows /\ Len(threads') = Len(threads)
  /\ screens[i].thread # None
  /\ threads'[screens[i].thread].killed
  /\ \A t \in 1..Len(threads) :
       threads'[t].host = threads[t].host /\ (threads[t].killed => threads'[t].killed)
  /\ screens'[i].thread = None /\ screens'[i].host = screens[i].host
  /\ \A j \in Slots \ {i} : screens'[j] = screens[j]

LEMMA UnchangedInPlace ==
  ASSUME TypeInv, UNCHANGED <<screens, numwindows, threads>>
  PROVE  InPlace
BY DEF TypeInv, InPlace, SameThreads

LEMMA DestroyMoves ==
  ASSUME TypeInv, NEW w \in Slots, destroyport(w), UNCHANGED threads
  PROVE  Moved
<1>1. /\ screens \in [Slots -> WindSet] /\ numwindows \in Int /\ numwindows <= MaxSess
  BY DEF TypeInv
<1>2. screens' = Shifted(w) /\ numwindows' = numwindows - 1
  BY DEF destroyport
<1>3. \A i \in Slots : /\ Shifted(w)[i].host = screens[Source(w, i)].host
                       /\ Shifted(w)[i].thread = screens[Source(w, i)].thread
  BY <1>1, ShiftedIs
<1> QED
  BY <1>2, <1>3, Zenon DEF Moved, SameThreads

(* A slot in which only other fields change.                               *)
LEMMA FieldsInPlace ==
  ASSUME TypeInv, NEW i \in Slots, numwindows' <= numwindows, SameThreads,
         \A j \in Slots \ {i} : screens'[j] = screens[j],
         screens'[i].host = screens[i].host,
         screens'[i].thread \in {None, screens[i].thread}
  PROVE  InPlace
BY DEF InPlace

(* ssh_protocol_close kills the thread of its slot, unless there is none.  *)
LEMMA CloseIsClosed ==
  ASSUME TypeInv, ProtocolClose, screens[Top.arg].thread # None
  PROVE  Closed(Top.arg)
<1> DEFINE i == Top.arg
           t == screens[i].thread
<1>0. /\ calls \in Seq(CallSet) /\ screens \in [Slots -> WindSet] /\ threads \in Seq(ThreadSet)
      /\ Top.op = "protocol_close"
  BY DEF TypeInv, ProtocolClose
<1>1. i \in Slots
  BY <1>0, TopIsCall
<1>2. screens[i] \in WindSet /\ t \in 0..Len(threads) /\ Len(threads) \in Nat
  BY <1>0, <1>1 DEF WindSet, Thread
<1>3. /\ threads' = [threads EXCEPT ![t].killed = TRUE]
      /\ screens' = [screens EXCEPT ![i].thread = None]
      /\ numwindows' = numwindows
  BY DEF ProtocolClose
<1>4. t \in 1..Len(threads) /\ threads[t] \in ThreadSet
  BY <1>0, <1>2 DEF None
<1> HIDE DEF t
<1>5. Len(threads') = Len(threads)
  BY <1>0, <1>3
<1>6. threads'[t] = [threads[t] EXCEPT !.killed = TRUE]
      /\ \A j \in 1..Len(threads) : j # t => threads'[j] = threads[j]
  <2> DEFINE e == [threads[t] EXCEPT !.killed = TRUE]
  <2>1. e \in ThreadSet
    BY <1>4 DEF ThreadSet
  <2>2. threads' = [threads EXCEPT ![t] = e]
    BY <1>3
  <2> HIDE DEF e
  <2>3. \A j \in 1..Len(threads) : threads'[j] = IF j = t THEN e ELSE threads[j]
    BY <1>0, <1>4, <2>1, <2>2, ExceptSeq
  <2> QED
    BY <1>4, <2>3 DEF e
<1>7. threads'[t].host = threads[t].host /\ threads'[t].killed
  BY <1>4, <1>6 DEF ThreadSet
<1>8. /\ \A j \in Slots \ {i} : screens'[j] = screens[j]
      /\ screens'[i].thread = None /\ screens'[i].host = screens[i].host
  BY <1>0, <1>1, <1>2, <1>3 DEF WindSet
<1> QED
  BY <1>3, <1>5, <1>6, <1>7, <1>8 DEF Closed, t

LEMMA MainTable ==
  ASSUME TypeInv, MainCall
  PROVE  InPlace \/ Moved \/ (Top.op = "protocol_close" /\ Closed(Top.arg))
<1>0. /\ calls \in Seq(CallSet) /\ screens \in [Slots -> WindSet] /\ numwindows \in Int
      /\ threads \in Seq(ThreadSet)
  BY DEF TypeInv
<1>1. Top.op # "loop"
  BY DEF MainCall, ProtocolClose, Netclose, Removeport, Removed, Destroyport, CloseAllTurn
<1>2. Top.op \notin {"netclose", "closeall"} => Top.arg \in Slots
  BY <1>0, <1>1, TopIsCall
<1>3. CASE ProtocolClose
  <2>1. CASE screens[Top.arg].thread = None
    BY <1>3, <2>1, UnchangedInPlace DEF ProtocolClose
  <2>2. CASE screens[Top.arg].thread # None
    BY <1>3, <2>2, CloseIsClosed DEF ProtocolClose
  <2> QED
    BY <2>1, <2>2
<1>4. CASE Netclose \/ Removeport \/ CloseAllTurn
  BY <1>4, UnchangedInPlace DEF Netclose, Removeport, CloseAllTurn
<1>5. CASE Removed
  <2> DEFINE a == Top.arg
             sn == findbyVS(screens[a].vs)
  <2>1. a \in Slots /\ (sn = -1 \/ sn \in Slots)
    BY <1>2, <1>5, LookupsInTable DEF Removed, Table
  <2>2. UNCHANGED threads
    BY <1>5 DEF Removed
  <2>3. CASE sn >= 0 /\ destroyport(sn)
    <3>1. sn \in Slots
      BY <2>1, <2>3
    <3> HIDE DEF sn
    <3> QED
      BY <2>2, <2>3, <3>1, DestroyMoves
  <2>4. CASE UNCHANGED <<screens, numwindows, vss>>
    BY <2>2, <2>4, UnchangedInPlace
  <2>5. CASE /\ screens' = [screens EXCEPT ![a].port = CorpsePort, ![a].active = "ISCORPSE"]
             /\ UNCHANGED <<numwindows, vss>>
    <3>1. screens[a] \in WindSet
      BY <1>0, <2>1
    <3>2. /\ \A j \in Slots \ {a} : screens'[j] = screens[j]
          /\ screens'[a] = [screens[a] EXCEPT !.port = CorpsePort, !.active = "ISCORPSE"]
      BY <1>0, <2>1, <2>5
    <3>3. screens'[a].host = screens[a].host /\ screens'[a].thread = screens[a].thread
      BY <3>1, <3>2 DEF WindSet
    <3>4. numwindows' <= numwindows /\ SameThreads
      BY <1>0, <2>2, <2>5 DEF SameThreads
    <3> HIDE DEF a
    <3> QED
      BY <2>1, <3>2, <3>3, <3>4, FieldsInPlace
  <2> QED
    BY <1>5, <2>3, <2>4, <2>5 DEF Removed
<1>6. CASE Destroyport
  BY <1>2, <1>6, DestroyMoves DEF Destroyport
<1> QED
  BY <1>3, <1>4, <1>5, <1>6 DEF MainCall

LEMMA UserTable ==
  ASSUME TypeInv, UserEvent \/ OpenWindow \/ OpenFailed
  PROVE  InPlace \/ Opened
<1>0. /\ calls \in Seq(CallSet) /\ screens \in [Slots -> WindSet] /\ numwindows \in Int
      /\ MaxSess \in Nat /\ opens \in Nat
  BY SessionAssumption DEF TypeInv
<1>1. CASE Open
  <2> DEFINE n == numwindows
             r == Reset(screens[n], opens + 1)
  <2>1. /\ n \in Slots /\ numwindows' = n + 1 /\ SameThreads
        /\ screens' = [screens EXCEPT ![n] = r]
    BY <1>0, <1>1 DEF Open, Slots, SameThreads
  <2>2. screens[n] \in WindSet
    BY <1>0, <2>1
  <2>3. r.host = opens + 1 /\ r.thread = None
    BY <2>2 DEF Reset, WindSet
  <2>4. r.host # None
    BY <1>0, <2>3 DEF None
  <2> HIDE DEF r
  <2>5. screens'[n] = r /\ \A i \in Slots \ {n} : screens'[i] = screens[i]
    BY <1>0, <2>1
  <2> QED
    BY <2>1, <2>3, <2>4, <2>5 DEF Opened
<1>2. CASE CloseAWindow \/ displayStatus \/ CloseAll
  BY <1>2, UnchangedInPlace DEF CloseAWindow, displayStatus, CloseAll
<1>3. CASE OpenWindow \/ OpenFailed
  <2> DEFINE a == Top.arg
  <2>1. a \in Slots /\ SameThreads /\ numwindows' <= numwindows
    <3>1. Top.op \in {"create", "login"} /\ UNCHANGED threads
          /\ (numwindows' = numwindows \/ numwindows' = numwindows - 1)
      BY <1>3 DEF OpenWindow, OpenFailed
    <3>2. a \in Slots
      BY <1>0, <3>1, TopIsCall
    <3> QED
      BY <1>0, <3>1, <3>2 DEF SameThreads
  <2>2. \/ \E act, vs : screens' = [screens EXCEPT ![a].active = act, ![a].vs = vs]
        \/ screens' = [screens EXCEPT ![a].active = "NOTINUSE"]
    BY <1>3 DEF OpenWindow, OpenFailed
  <2>3. screens[a] \in WindSet
    BY <1>0, <2>1
  <2>4. /\ \A j \in Slots \ {a} : screens'[j] = screens[j]
        /\ screens'[a].host = screens[a].host /\ screens'[a].thread = screens[a].thread
    <3>1. CASE screens' = [screens EXCEPT ![a].active = "NOTINUSE"]
      BY <1>0, <2>1, <2>3, <3>1 DEF WindSet
    <3>2. ASSUME NEW act, NEW vs, screens' = [screens EXCEPT ![a].active = act, ![a].vs = vs]
          PROVE  /\ \A j \in Slots \ {a} : screens'[j] = screens[j]
                 /\ screens'[a].host = screens[a].host /\ screens'[a].thread = screens[a].thread
      BY <1>0, <2>1, <2>3, <3>2 DEF WindSet
    <3> QED
      BY <2>2, <3>1, <3>2
  <2> HIDE DEF a
  <2> QED
    BY <2>1, <2>4, FieldsInPlace
<1> QED
  BY <1>1, <1>2, <1>3 DEF UserEvent

LEMMA NetTable ==
  ASSUME TypeInv, NetEvent
  PROVE  InPlace \/ Moved \/ \E i \in Table : Started(i)
<1>0. /\ screens \in [Slots -> WindSet] /\ numwindows \in Int /\ numwindows <= MaxSess
      /\ opens \in Nat /\ threads \in Seq(ThreadSet) /\ Len(threads) \in Nat
      /\ Ports \subseteq Nat
  BY SessionAssumption DEF TypeInv
<1>1. events # <<>>
  BY NetCalls
<1>2. Head(events).what = "DOMAIN_DONE" =>
        Head(events).screen \in Slots /\ Head(events).host \in 1..opens
  BY <1>1, TakenEvent
<1>3. CASE ConnectionClosedEvent \/ CloseDone
  BY <1>3, UnchangedInPlace DEF ConnectionClosedEvent, CloseDone
<1>4. CASE ConnectionOpenEvent
  <2> DEFINE i == WindByPort(Head(events).port)
             t == Len(threads) + 1
             th == [state |-> "new", w |-> i, killed |-> FALSE, port |-> NoPort,
                    host |-> screens[i].host]
  <2>1. numwindows' = numwindows
    BY <1>4 DEF ConnectionOpenEvent
  <2>2. i < 0 \/ i \in Table
    BY LookupsInTable
  <2>3. CASE UNCHANGED <<screens, threads>>
    BY <2>1, <2>3, UnchangedInPlace
  <2>4. ASSUME i \in Table,
               screens' = [screens EXCEPT ![i].active = "ACTIVE", ![i].thread = t],
               threads' = Append(threads, th)
        PROVE  Started(i)
    <3>1. i \in Slots /\ screens[i] \in WindSet
      BY <1>0, <2>4 DEF Table
    <3> HIDE DEF i
    <3>2. /\ Len(threads') = t /\ threads'[t] = th
          /\ \A j \in 1..Len(threads) : threads'[j] = threads[j]
      BY <1>0, <2>4
    <3>3. th.host = screens[i].host
      OBVIOUS
    <3> HIDE DEF t, th
    <3>4. /\ screens'[i].thread = t /\ screens'[i].host = screens[i].host
          /\ \A j \in Slots \ {i} : screens'[j] = screens[j]
      BY <1>0, <2>4, <3>1 DEF WindSet
    <3> QED
      BY <2>1, <3>2, <3>3, <3>4 DEF Started, t
  <2>5. ASSUME i \in Table, screens' = [screens EXCEPT ![i].active = "ACTIVE"], UNCHANGED threads
        PROVE  InPlace
    <3>1. i \in Slots /\ screens[i] \in WindSet
      BY <1>0, <2>5 DEF Table
    <3> HIDE DEF i
    <3>2. /\ screens'[i].thread = screens[i].thread /\ screens'[i].host = screens[i].host
          /\ \A j \in Slots \ {i} : screens'[j] = screens[j]
      BY <1>0, <2>5, <3>1 DEF WindSet
    <3>3. SameThreads /\ numwindows' <= numwindows
      BY <1>0, <2>1, <2>5 DEF SameThreads
    <3> QED
      BY <3>1, <3>2, <3>3, FieldsInPlace
  <2> HIDE DEF TypeInv
  <2> QED
    BY <1>4, <2>2, <2>3, <2>4, <2>5 DEF ConnectionOpenEvent
<1>5. CASE CompleteConnectionOpening
  <2> DEFINE ev == Head(events)
             s == ev.screen
  <2>1. s \in Slots /\ ev.host \in 1..opens /\ UNCHANGED threads
    BY <1>2, <1>5 DEF CompleteConnectionOpening, Take
  <2>2. CASE UNCHANGED <<screens, numwindows>>
    BY <2>1, <2>2, UnchangedInPlace
  <2>3. CASE destroyport(s)
    BY <2>1, <2>3, DestroyMoves
  <2>4. ASSUME NEW ok \in BOOLEAN,
               LET p == IF ok THEN makestream ELSE NoPort
               IN  IF p < 0
                   THEN /\ screens' = WithoutStream(s, p, ev.host)
                        /\ numwindows' = numwindows - 1
                   ELSE /\ screens' = [screens EXCEPT ![s].port = p, ![s].ip = ev.host,
                                                      ![s].active = "OPENING"]
                        /\ UNCHANGED <<numwindows, vss>>
        PROVE  InPlace \/ Moved
    <3> DEFINE p == IF ok THEN makestream ELSE NoPort
    <3>1. p \in PortNo
      <4>1. Ports \subseteq streams \/ makestream \in Ports
        <5>1. (Ports \ streams) \in SUBSET Nat
          BY <1>0
        <5>2. ~(Ports \subseteq streams) => Ports \ streams # {}
          OBVIOUS
        <5> QED
          BY <5>1, <5>2, MinIsIn DEF makestream
      <4> QED
        BY <4>1 DEF makestream, PortNo
    <3> HIDE DEF p
    <3>2. CASE p < 0
      <4>1. screens' = WithoutStream(s, p, ev.host) /\ numwindows' = numwindows - 1
        BY <2>4, <3>2 DEF p
      <4>2. \A i \in Slots :
              /\ WithoutStream(s, p, ev.host)[i].host = Shifted(s)[i].host
              /\ WithoutStream(s, p, ev.host)[i].thread = Shifted(s)[i].thread
        BY <1>0, <2>1, <3>1, WithoutStreamIs
      <4>3. \A i \in Slots : /\ Shifted(s)[i].host = screens[Source(s, i)].host
                             /\ Shifted(s)[i].thread = screens[Source(s, i)].thread
        BY <1>0, <2>1, ShiftedIs
      <4>4. \A i \in Slots : /\ screens'[i].host = screens[Source(s, i)].host
                             /\ screens'[i].thread = screens[Source(s, i)].thread
        BY <4>1, <4>2, <4>3, Zenon
      <4> QED
        BY <2>1, <4>1, <4>4 DEF Moved, SameThreads
    <3>3. CASE ~(p < 0)
      <4>1. /\ screens' = [screens EXCEPT ![s].port = p, ![s].ip = ev.host,
                                          ![s].active = "OPENING"]
            /\ numwindows' = numwindows
        BY <2>4, <3>3 DEF p
      <4> HIDE DEF s, ev
      <4>2. screens[s] \in WindSet
        BY <1>0, <2>1
      <4>3. /\ \A j \in Slots \ {s} : screens'[j] = screens[j]
            /\ screens'[s] = [screens[s] EXCEPT !.port = p, !.ip = ev.host, !.active = "OPENING"]
        BY <1>0, <2>1, <4>1
      <4>4. screens'[s].host = screens[s].host /\ screens'[s].thread = screens[s].thread
        BY <4>2, <4>3 DEF WindSet
      <4>5. SameThreads /\ numwindows' <= numwindows
        BY <1>0, <2>1, <4>1 DEF SameThreads
      <4> QED
        BY <2>1, <4>3, <4>4, <4>5, FieldsInPlace
    <3> QED
      BY <3>2, <3>3
  <2>5. Outcomes("stream") \subseteq BOOLEAN
    BY DEF Outcomes
  <2> HIDE DEF TypeInv
  <2> QED
    BY <1>5, <2>2, <2>3, <2>4, <2>5 DEF CompleteConnectionOpening
<1> QED
  BY <1>3, <1>4, <1>5 DEF NetEvent

LEMMA ThreadTable ==
  ASSUME TypeInv, ThreadStep
  PROVE  InPlace
<1>0. /\ screens \in [Slots -> WindSet] /\ numwindows \in Int
      /\ threads \in Seq(ThreadSet) /\ Len(threads) \in Nat
  BY DEF TypeInv
<1>1. PICK t \in 1..Len(threads) : ThreadStart(t) \/ ThreadEnd(t) \/ ThreadKilled(t)
  BY DEF ThreadStep
<1>2. threads[t] \in ThreadSet
  BY <1>0, ElementOfSeq
<1>3. numwindows' <= numwindows
  BY <1>0, <1>1 DEF ThreadStart, ThreadEnd, ThreadKilled
<1>4. ASSUME NEW e, threads' = [threads EXCEPT ![t] = e],
             e.host = threads[t].host, e.killed = threads[t].killed
      PROVE  SameThreads
  <2>1. /\ Len(threads') = Len(threads)
        /\ \A j \in 1..Len(threads) : threads'[j] = IF j = t THEN e ELSE threads[j]
    BY <1>0, <1>4
  <2> QED
    BY <1>4, <2>1 DEF SameThreads
<1>5. CASE ThreadStart(t)
  <2> DEFINE w == threads[t].w
             port == screens[w].port
  <2>1. w \in Slots
    BY <1>2 DEF ThreadSet
  <2>2. PICK st \in {"run", "done"} :
          threads' = [threads EXCEPT ![t].state = st, ![t].port = port]
    BY <1>5, Zenon DEF ThreadStart
  <2>3. screens' = [screens EXCEPT ![w].context = t] \/ screens' = screens
    BY <1>5, Zenon DEF ThreadStart
  <2> HIDE DEF port
  <2>4. SameThreads
    <3> DEFINE e == [threads[t] EXCEPT !.state = st, !.port = port]
    <3>1. threads' = [threads EXCEPT ![t] = e]
      BY <1>0, <2>2
    <3>2. e.host = threads[t].host /\ e.killed = threads[t].killed
      BY <1>2 DEF ThreadSet
    <3> HIDE DEF e
    <3> QED
      BY <1>4, <3>1, <3>2
  <2>5. /\ \A j \in Slots \ {w} : screens'[j] = screens[j]
        /\ screens'[w].host = screens[w].host /\ screens'[w].thread = screens[w].thread
    <3>1. screens[w] \in WindSet
      BY <1>0, <2>1
    <3> HIDE DEF w
    <3> QED
      BY <1>0, <2>1, <2>3, <3>1 DEF WindSet
  <2> HIDE DEF w
  <2> QED
    BY <1>3, <2>1, <2>4, <2>5, FieldsInPlace
<1>6. CASE ThreadEnd(t) \/ ThreadKilled(t)
  <2> DEFINE port == threads[t].port
             w == IF port < 0 THEN -1 ELSE FindWindByPort(port)
  <2>1. /\ threads' = [threads EXCEPT ![t].state = "done"]
        /\ screens' = IF w >= 0 /\ screens[w].thread = t
                      THEN [screens EXCEPT ![w].thread = None, ![w].context = None]
                      ELSE screens
    BY <1>6 DEF ThreadEnd, ThreadKilled, ThreadDone
  <2>2. w = -1 \/ w \in Slots
    BY LookupsInTable DEF Table
  <2> HIDE DEF w
  <2>3. SameThreads
    <3> DEFINE e == [threads[t] EXCEPT !.state = "done"]
    <3>1. threads' = [threads EXCEPT ![t] = e]
      BY <2>1
    <3>2. e.host = threads[t].host /\ e.killed = threads[t].killed
      BY <1>2 DEF ThreadSet
    <3> HIDE DEF e
    <3> QED
      BY <1>4, <3>1, <3>2
  <2>4. CASE w >= 0 /\ screens[w].thread = t
    <3>1. w \in Slots /\ screens[w] \in WindSet
      BY <1>0, <2>2, <2>4
    <3>2. /\ \A j \in Slots \ {w} : screens'[j] = screens[j]
          /\ screens'[w].host = screens[w].host /\ screens'[w].thread = None
      BY <1>0, <2>1, <2>4, <3>1 DEF WindSet
    <3> QED
      BY <1>3, <2>3, <3>1, <3>2, FieldsInPlace
  <2>5. CASE ~(w >= 0 /\ screens[w].thread = t)
    BY <1>3, <2>1, <2>3, <2>5 DEF InPlace
  <2> QED
    BY <2>4, <2>5
<1> QED
  BY <1>1, <1>5, <1>6

(* Every step does one of these things to the table.                       *)
LEMMA TableStep ==
  ASSUME TypeInv, [Next]_vars
  PROVE  \/ InPlace \/ Moved \/ Opened
         \/ \E i \in Table : Started(i)
         \/ Top.op = "protocol_close" /\ Closed(Top.arg)
<1>1. CASE NoUserEvent \/ NoNetEvent \/ SchedReturn \/ DNRDone \/ UNCHANGED vars
  BY <1>1, UnchangedInPlace DEF NoUserEvent, NoNetEvent, SchedReturn, DNRDone, vars
<1> QED
  BY <1>1, MainTable, UserTable, NetTable, ThreadTable DEF Next

(* A slot's thread stays that of the slot's session.                       *)
LEMMA OwnStep == TypeInv /\ OwnInv /\ [Next]_vars => OwnInv'
<1> SUFFICES ASSUME TypeInv, OwnInv, [Next]_vars PROVE OwnInv'
  OBVIOUS
<1>0. /\ screens \in [Slots -> WindSet] /\ numwindows \in Int /\ numwindows <= MaxSess
      /\ Len(threads) \in Nat /\ Slots \subseteq Int
      /\ \A i \in Slots : screens[i].thread \in 0..Len(threads)
  <2>1. screens \in [Slots -> WindSet] /\ numwindows \in Int /\ numwindows <= MaxSess
        /\ Len(threads) \in Nat /\ Slots \subseteq Int
    BY SessionAssumption DEF TypeInv, Slots
  <2> QED
    BY <2>1 DEF WindSet, Thread
<1>1. /\ \A i \in Slots : i < numwindows => screens[i].host # None
      /\ \A i \in Slots :
           screens[i].thread # None => threads[screens[i].thread].host = screens[i].host
  BY DEF OwnInv, Table
<1>2. \A i \in Slots : screens[i].thread # None => screens[i].thread \in 1..Len(threads)
  BY <1>0 DEF None
<1> SUFFICES /\ \A i \in Slots : i < numwindows' => screens'[i].host # None
             /\ \A i \in Slots :
                  screens'[i].thread # None => threads'[screens'[i].thread].host = screens'[i].host
  BY DEF OwnInv, Table
<1>3. CASE InPlace
  <2>1. numwindows' \in Int
    BY TypeStep DEF TypeInv
  <2>2. \A i \in Slots : i < numwindows' => i < numwindows
    BY <1>0, <1>3, <2>1 DEF InPlace
  <2>3. \A i \in Slots : i < numwindows' => screens'[i].host # None
    BY <1>1, <1>3, <2>2 DEF InPlace
  <2>4. ASSUME NEW i \in Slots, screens'[i].thread # None
        PROVE  threads'[screens'[i].thread].host = screens'[i].host
    <3>1. screens'[i].thread = screens[i].thread /\ screens'[i].host = screens[i].host
      BY <1>3, <2>4 DEF InPlace
    <3>2. screens[i].thread \in 1..Len(threads) /\ threads[screens[i].thread].host = screens[i].host
      BY <1>1, <1>2, <2>4, <3>1
    <3> QED
      BY <1>3, <3>1, <3>2 DEF InPlace, SameThreads
  <2> QED
    BY <2>3, <2>4
<1>4. CASE Moved
  <2>1. PICK w \in Slots : \A i \in Slots :
                 /\ screens'[i].host = screens[Source(w, i)].host
                 /\ screens'[i].thread = screens[Source(w, i)].thread
    BY <1>4 DEF Moved
  <2>2. \A i \in Slots : /\ Source(w, i) \in Slots
                         /\ i < numwindows - 1 => Source(w, i) < numwindows
    BY <1>0, ShiftedIs
  <2>3. \A i \in Slots : i < numwindows' => screens'[i].host # None
    BY <1>1, <1>4, <2>1, <2>2 DEF Moved
  <2>4. ASSUME NEW i \in Slots, screens'[i].thread # None
        PROVE  threads'[screens'[i].thread].host = screens'[i].host
    <3> DEFINE j == Source(w, i)
    <3>1. j \in Slots /\ screens'[i].host = screens[j].host /\ screens'[i].thread = screens[j].thread
      BY <2>1, <2>2
    <3> HIDE DEF j
    <3>2. screens[j].thread \in 1..Len(threads) /\ threads[screens[j].thread].host = screens[j].host
      BY <1>1, <1>2, <2>4, <3>1
    <3> QED
      BY <1>4, <3>1, <3>2 DEF Moved, SameThreads
  <2> QED
    BY <2>3, <2>4
<1>5. CASE Opened
  <2>1. \A i \in Slots : i < numwindows' => i < numwindows \/ i = numwindows
    BY <1>0, <1>5 DEF Opened
  <2> QED
    BY <1>0, <1>1, <1>2, <1>5, <2>1 DEF Opened, SameThreads
<1>6. ASSUME NEW i \in Table, Started(i)
      PROVE  /\ \A j \in Slots : j < numwindows' => screens'[j].host # None
             /\ \A j \in Slots :
                  screens'[j].thread # None => threads'[screens'[j].thread].host = screens'[j].host
  <2>1. \A j \in Slots : screens'[j].host = screens[j].host
    BY <1>6, Zenon DEF Started
  <2>2. \A j \in Slots : j < numwindows' => screens'[j].host # None
    BY <1>1, <1>6, <2>1 DEF Started
  <2>3. ASSUME NEW j \in Slots, screens'[j].thread # None
        PROVE  threads'[screens'[j].thread].host = screens'[j].host
    <3>1. CASE j = i
      BY <1>6, <3>1, Zenon DEF Started
    <3>2. CASE j # i
      <4>1. screens'[j] = screens[j]
        BY <1>6, <3>2, Zenon DEF Started
      <4> QED
        BY <1>1, <1>2, <1>6, <2>3, <4>1 DEF Started
    <3> QED
      BY <3>1, <3>2
  <2> QED
    BY <2>2, <2>3
<1>7. CASE Top.op = "protocol_close" /\ Closed(Top.arg)
  <2>1. \A j \in Slots : /\ screens'[j].host = screens[j].host
                         /\ screens'[j].thread \in {None, screens[j].thread}
    BY <1>7 DEF Closed
  <2> QED
    BY <1>0, <1>1, <1>2, <1>7, <2>1, SMTT(40) DEF Closed
<1> QED
  BY <1>3, <1>4, <1>5, <1>6, <1>7, TableStep

-----------------------------------------------------------------------------
(* How deep the stack can get.                                             *)

LEMMA GoneIsFinite ==
  ASSUME TypeInv, TypeInv'
  PROVE  /\ IsFiniteSet(Gone) /\ Cardinality(Gone) \in Nat
         /\ IsFiniteSet(Gone') /\ Cardinality(Gone') \in Nat
<1>1. Len(threads) \in Nat /\ Len(threads') \in Nat
  BY DEF TypeInv
<1>2. IsFiniteSet(1..Len(threads)) /\ IsFiniteSet(1..Len(threads'))
  BY <1>1, FS_Interval
<1>3. Gone \in SUBSET (1..Len(threads)) /\ Gone' \in SUBSET (1..Len(threads'))
  BY DEF Gone
<1> QED
  BY <1>2, <1>3, FS_Subset, FS_CardinalityType

(* No step gives a window back a thread that is gone, or one of another    *)
(* window.                                                                 *)
LEMMA TableGone ==
  ASSUME TypeInv, OwnInv, Unshared, [Next]_vars
  PROVE  Unshared' /\ Gone \subseteq Gone'
<1>0. /\ numwindows \in Int /\ numwindows <= MaxSess /\ numwindows' \in Int
      /\ Len(threads) \in Nat /\ Slots \subseteq Int /\ screens \in [Slots -> WindSet]
      /\ \A i \in Slots : screens[i].thread \in 0..Len(threads)
  <2>1. /\ screens \in [Slots -> WindSet] /\ numwindows \in Int /\ numwindows <= MaxSess
        /\ Len(threads) \in Nat /\ Slots \subseteq Int
    BY SessionAssumption DEF TypeInv, Slots
  <2>2. numwindows' \in Int
    BY TypeStep DEF TypeInv
  <2> QED
    BY <2>1, <2>2 DEF WindSet, Thread
<1>1. \A i, j \in Slots :
        (i < numwindows /\ j < numwindows
           /\ screens[i].thread # None /\ screens[i].thread = screens[j].thread) => i = j
  BY DEF Unshared, Table
<1> SUFFICES /\ \A i, j \in Slots :
                  (i < numwindows' /\ j < numwindows'
                     /\ screens'[i].thread # None /\ screens'[i].thread = screens'[j].thread)
                  => i = j
             /\ Gone \subseteq Gone'
  BY DEF Unshared, Table
<1>2. ASSUME NEW f,
             \A i \in Slots : i < numwindows' /\ screens'[i].thread # None =>
               f[i] \in Slots /\ f[i] < numwindows /\ screens'[i].thread = screens[f[i]].thread,
             \A i, j \in Slots : i < numwindows' /\ j < numwindows' /\ f[i] = f[j] => i = j,
             Len(threads') = Len(threads),
             \A t \in 1..Len(threads) : threads[t].killed => threads'[t].killed
      PROVE  /\ \A i, j \in Slots :
                  (i < numwindows' /\ j < numwindows'
                     /\ screens'[i].thread # None /\ screens'[i].thread = screens'[j].thread)
                  => i = j
             /\ Gone \subseteq Gone'
  <2>1. ASSUME NEW i \in Slots, NEW j \in Slots, i < numwindows', j < numwindows',
               screens'[i].thread # None, screens'[i].thread = screens'[j].thread
        PROVE  i = j
    <3>1. f[i] \in Slots /\ f[i] < numwindows /\ screens'[i].thread = screens[f[i]].thread
      BY <1>2, <2>1
    <3>2. f[j] \in Slots /\ f[j] < numwindows /\ screens'[j].thread = screens[f[j]].thread
      BY <1>2, <2>1
    <3>3. f[i] = f[j]
      BY <1>1, <2>1, <3>1, <3>2
    <3> QED
      BY <1>2, <2>1, <3>3
  <2>2. ASSUME NEW t \in Gone PROVE t \in Gone'
    <3>1. t \in 1..Len(threads') /\ threads'[t].killed /\ ~Referred(t)
      BY <1>2 DEF Gone
    <3>2. ASSUME NEW i \in Slots, i < numwindows', screens'[i].thread = t
          PROVE  FALSE
      <4>1. t # None
        BY <1>0, <1>2, <3>1 DEF None
      <4>2. f[i] \in Slots /\ f[i] < numwindows /\ t = screens[f[i]].thread
        BY <1>2, <3>2, <4>1
      <4> QED
        BY <3>1, <4>2 DEF Referred, Table
    <3> QED
      BY <3>1, <3>2 DEF Gone, Referred, Table
  <2> QED
    BY <2>1, <2>2
<1>3. CASE InPlace \/ Opened \/ Closed(Top.arg)
  <2> DEFINE f == [i \in Slots |-> i]
  <2>1. \A i \in Slots : i < numwindows' /\ screens'[i].thread # None =>
               f[i] \in Slots /\ f[i] < numwindows /\ screens'[i].thread = screens[f[i]].thread
    <3>1. CASE InPlace
      BY <1>0, <3>1 DEF InPlace
    <3>2. CASE Opened
      BY <1>0, <3>2 DEF Opened
    <3>3. CASE Closed(Top.arg)
      BY <1>0, <3>3 DEF Closed
    <3> QED
      BY <1>3, <3>1, <3>2, <3>3
  <2>2. \A i, j \in Slots : i < numwindows' /\ j < numwindows' /\ f[i] = f[j] => i = j
    OBVIOUS
  <2>3. Len(threads') = Len(threads)
        /\ \A t \in 1..Len(threads) : threads[t].killed => threads'[t].killed
    BY <1>3 DEF InPlace, Opened, Closed, SameThreads
  <2> HIDE DEF f
  <2> QED
    BY <1>2, <2>1, <2>2, <2>3
<1>4. CASE Moved
  <2>1. PICK w \in Slots : \A i \in Slots :
                 /\ screens'[i].host = screens[Source(w, i)].host
                 /\ screens'[i].thread = screens[Source(w, i)].thread
    BY <1>4 DEF Moved
  <2>2. /\ \A i \in Slots : /\ Source(w, i) \in Slots
                            /\ i < numwindows - 1 => Source(w, i) < numwindows
        /\ \A i, j \in Slots :
             i < numwindows - 1 /\ j < numwindows - 1 /\ Source(w, i) = Source(w, j) => i = j
    BY <1>0, ShiftedIs
  <2> DEFINE f == [i \in Slots |-> Source(w, i)]
  <2>3. \A i \in Slots : i < numwindows' /\ screens'[i].thread # None =>
               f[i] \in Slots /\ f[i] < numwindows /\ screens'[i].thread = screens[f[i]].thread
    BY <1>4, <2>1, <2>2 DEF Moved
  <2>4. \A i, j \in Slots : i < numwindows' /\ j < numwindows' /\ f[i] = f[j] => i = j
    BY <1>4, <2>2 DEF Moved
  <2>5. Len(threads') = Len(threads)
        /\ \A t \in 1..Len(threads) : threads[t].killed => threads'[t].killed
    BY <1>4 DEF Moved, SameThreads
  <2> HIDE DEF f
  <2> QED
    BY <1>2, <2>3, <2>4, <2>5
<1>5. ASSUME NEW k \in Table, Started(k)
      PROVE  /\ \A i, j \in Slots :
                  (i < numwindows' /\ j < numwindows'
                     /\ screens'[i].thread # None /\ screens'[i].thread = screens'[j].thread)
                  => i = j
             /\ Gone \subseteq Gone'
  <2>1. /\ numwindows' = numwindows /\ Len(threads') = Len(threads) + 1
        /\ \A t \in 1..Len(threads) : threads'[t] = threads[t]
        /\ screens'[k].thread = Len(threads) + 1
        /\ \A j \in Slots : j # k => screens'[j] = screens[j]
    BY <1>5 DEF Started
  <2>2. \A j \in Slots : j # k => screens'[j].thread # screens'[k].thread
    BY <1>0, <2>1
  <2>3. ASSUME NEW i \in Slots, NEW j \in Slots, i < numwindows', j < numwindows',
               screens'[i].thread # None, screens'[i].thread = screens'[j].thread
        PROVE  i = j
    BY <1>1, <2>1, <2>2, <2>3
  <2>4. ASSUME NEW t \in Gone PROVE t \in Gone'
    <3>1. t \in 1..Len(threads) /\ threads[t].killed /\ ~Referred(t)
      BY DEF Gone
    <3>2. t \in 1..Len(threads') /\ threads'[t].killed
      BY <1>0, <2>1, <3>1
    <3>3. ASSUME NEW i \in Slots, i < numwindows', screens'[i].thread = t
          PROVE  FALSE
      <4>1. i # k
        BY <1>0, <2>1, <3>1, <3>3
      <4> QED
        BY <2>1, <3>1, <3>3, <4>1 DEF Referred, Table
    <3> QED
      BY <3>2, <3>3 DEF Gone, Referred, Table
  <2> QED
    BY <2>3, <2>4
<1> QED
  BY <1>3, <1>4, <1>5, TableStep

(* So the threads that are gone do not get fewer.                          *)
LEMMA GoneGrows ==
  ASSUME TypeInv, OwnInv, Unshared, [Next]_vars
  PROVE  /\ Cardinality(Gone) \in Nat /\ Cardinality(Gone') \in Nat
         /\ Cardinality(Gone) <= Cardinality(Gone')
<1>1. TypeInv'
  BY TypeStep
<1>2. IsFiniteSet(Gone') /\ Cardinality(Gone') \in Nat
  BY <1>1, GoneIsFinite
<1>3. Cardinality(Gone) \in Nat
  BY <1>1, GoneIsFinite
<1>4. Gone \in SUBSET (Gone')
  BY TableGone
<1> QED
  BY <1>2, <1>3, <1>4, FS_Subset

(* Killing the thread of a window of the table makes one more.             *)
LEMMA ClosedGone ==
  ASSUME TypeInv, OwnInv, Unshared, [Next]_vars, NEW i \in Table, Closed(i)
  PROVE  Cardinality(Gone) + 1 <= Cardinality(Gone')
<1> DEFINE t == screens[i].thread
<1>0. TypeInv' /\ Gone \subseteq Gone'
  BY TypeStep, TableGone
<1>1. /\ screens[i] \in WindSet /\ Len(threads) \in Nat /\ i \in Slots
      /\ t \in 0..Len(threads) /\ t # None
  BY DEF TypeInv, Table, WindSet, Thread, Closed
<1>2. t \in 1..Len(threads)
  BY <1>1 DEF None
<1>3. t \notin Gone
  BY DEF Gone, Referred
<1>4. t \in Gone'
  <2>1. t \in 1..Len(threads') /\ threads'[t].killed
    BY <1>2 DEF Closed
  <2>2. \A j \in Table' : screens'[j].thread # t
    <3> SUFFICES ASSUME NEW j \in Table', screens'[j].thread = t PROVE FALSE
      OBVIOUS
    <3>1. j \in Table /\ j \in Slots
      BY DEF Closed, Table
    <3>2. j # i
      BY <1>1 DEF Closed
    <3>3. screens[j].thread = t
      BY <3>1, <3>2 DEF Closed
    <3> QED
      BY <1>1, <3>1, <3>2, <3>3 DEF Unshared
  <2> QED
    BY <2>1, <2>2 DEF Gone, Referred
<1> HIDE DEF t
<1>5. IsFiniteSet(Gone') /\ IsFiniteSet(Gone) /\ Cardinality(Gone) \in Nat
      /\ Cardinality(Gone') \in Nat
  BY <1>0, GoneIsFinite
<1>6. IsFiniteSet(Gone \cup {t}) /\ Cardinality(Gone \cup {t}) = Cardinality(Gone) + 1
  BY <1>3, <1>5, FS_AddElement
<1>7. (Gone \cup {t}) \in SUBSET (Gone')
  BY <1>0, <1>4
<1>8. Cardinality(Gone \cup {t}) <= Cardinality(Gone')
  BY <1>5, <1>7, FS_Subset
<1> QED
  BY <1>6, <1>8

(* The innermost call after a step.                                        *)
LEMMA TopAfter ==
  ASSUME NEW C, calls' \in Seq(C)
  PROVE  /\ calls' = <<>> => Top'.op = "loop"
         /\ calls' # <<>> => Top' = calls'[1]
<1>1. calls' # <<>> => Head(calls') = calls'[1]
  OBVIOUS
<1> QED
  BY <1>1 DEF Top, Call

LEMMA AtMostTwo ==
  \A n \in Nat : n <= 2 => (n = 0 \/ n = 1 \/ n = 2) /\ \A k \in 2..n : k = 2 /\ n = 2 /\ k - 1 = 1
OBVIOUS

(* The calls that events make: at most two, none of them nested; if the    *)
(* second is removeport, the first is netclose and its window is in T.     *)
EventCalls(q, T) ==
  /\ Len(q) <= 2
  /\ \A k \in 1..Len(q) : q[k].op \notin Nested \cup {"protocol_close"}
  /\ q # <<>> => q[1].op # "removeport"
  /\ Len(q) = 2 => /\ q[2].op # "netclose"
                   /\ q[2].op = "removeport" => q[1].op = "netclose" /\ q[2].arg \in T

(* An event is dispatched and makes the calls q.                           *)
LEMMA DispatchNest ==
  ASSUME TypeInv, OwnInv, NestInv, [Next]_vars,
         NEW C, calls \in Seq(C), \A c \in C : c.op # "loop",
         NEW op \in {"net", "yield"}, Call(op, 0) \in C,
         AtLoop \/ Top.op \in {"user", "net"},
         NEW q \in Seq(C), Dispatched(op, q), EventCalls(q, Table')
  PROVE  NestInv'
<1> USE DEF EventCalls
<1>0. Stacked(calls) /\ Unshared /\ Nest(calls) <= Cardinality(Gone)
  BY DEF NestInv
<1>1. /\ Cardinality(Gone) \in Nat /\ Cardinality(Gone') \in Nat
      /\ Cardinality(Gone) <= Cardinality(Gone') /\ Unshared'
  BY <1>0, GoneGrows, TableGone
<1>2. Len(q) \in Nat /\ (q # <<>> => Len(q) >= 1) /\ (q = <<>> => Len(q) = 0)
  BY EmptySeq
<1>3. Nest(q) = 0
  BY <1>2, NestOfFew
<1>4. Stacked(q)
  <2> SUFFICES ASSUME NEW k \in 2..Len(q)
               PROVE  /\ q[k].op \notin {"netclose", "protocol_close"}
                      /\ q[k].op = "removeport" => q[k - 1].op \in Openers
    BY DEF Stacked
  <2>1. k = 2 /\ Len(q) = 2 /\ k - 1 = 1
    BY <1>2, AtMostTwo, Zenon
  <2>2. 2 \in 1..2
    OBVIOUS
  <2> QED
    BY <2>1, <2>2 DEF Openers
<1>5. /\ calls' \in Seq(C) /\ Stacked(calls')
      /\ Nest(calls) \in Nat /\ Nest(calls') = Nest(calls)
      /\ q = <<>> /\ calls' # <<>> => calls'[1].op \in {"login", "net", "yield"}
      /\ q # <<>> => calls' # <<>> /\ calls'[1] = q[1]
      /\ Len(q) = 1 /\ Len(calls') >= 2 => calls'[2].op \in {"login", "net", "yield"}
      /\ Len(q) = 2 => calls'[2] = q[2]
  BY <1>0, <1>3, <1>4, DispatchLemma
<1>6. Nest(calls') <= Cardinality(Gone')
  BY <1>0, <1>1, <1>5
<1>7. /\ calls' = <<>> => Top'.op = "loop"
      /\ calls' # <<>> => Top' = calls'[1]
  BY <1>5, TopAfter
<1>8. Top'.op \notin {"removeport", "protocol_close"}
  <2>1. CASE q = <<>>
    BY <1>5, <1>7, <2>1
  <2>2. CASE q # <<>>
    <3>1. 1 \in 1..Len(q)
      BY <1>2, <2>2
    <3> QED
      BY <1>5, <1>7, <2>2, <3>1
  <2> QED
    BY <2>1, <2>2
<1>9. ASSUME Len(calls') >= 2, Top'.op \in {"netclose", "protocol_close"},
             calls'[2].op = "removeport"
      PROVE  calls'[2].arg \in Table'
  <2>1. calls' # <<>>
    BY <1>7, <1>9
  <2>2. q # <<>>
    BY <1>5, <1>7, <1>9, <2>1
  <2>3. Len(q) # 1
    BY <1>5, <1>9
  <2>4. Len(q) # 0
    BY <2>2, EmptySeq
  <2>5. Len(q) = 2
    BY <1>2, <2>3, <2>4, AtMostTwo, Zenon
  <2> QED
    BY <1>5, <1>9, <2>5
<1> QED
  BY <1>1, <1>5, <1>6, <1>8, <1>9 DEF NestInv

(* A call returns: above a removeport, without having nested anything or   *)
(* from ssh2_sched, or above something else.                               *)
LEMMA ReturnNest ==
  ASSUME TypeInv, OwnInv, NestInv, [Next]_vars, Top.op # "loop", Return,
         Top.op \in {"netclose", "protocol_close", "yield"} => Table' = Table,
         Top.op \notin {"user", "net"}
  PROVE  NestInv'
<1>0. Stacked(calls) /\ Unshared /\ Nest(calls) <= Cardinality(Gone) /\ calls \in Seq(CallSet)
  BY DEF NestInv, TypeInv
<1>1. /\ Cardinality(Gone) \in Nat /\ Cardinality(Gone') \in Nat
      /\ Cardinality(Gone) <= Cardinality(Gone') /\ Unshared'
  BY <1>0, GoneGrows, TableGone
<1>2. calls # <<>> /\ Top = calls[1] /\ calls' = Tail(calls)
  BY <1>0, TopIsCall DEF Return, Below
<1> DEFINE s == calls
<1>3. /\ Tail(s) \in Seq(CallSet) /\ Stacked(Tail(s))
      /\ Nest(s) \in Nat /\ Nest(Tail(s)) \in Nat
      /\ Nest(Tail(s)) + (IF s[1].op \in Nested THEN 1 ELSE 0) = Nest(s)
      /\ Tail(s) # <<>> =>
           /\ Len(s) >= 2 /\ Tail(s)[1] = s[2] /\ Tail(s)[1] \in CallSet
           /\ s[2].op \notin {"netclose", "protocol_close"}
           /\ s[2].op = "removeport" => s[1].op \in Openers
  BY <1>0, <1>2, PopCall
<1>4. /\ calls' = <<>> => Top'.op = "loop"
      /\ calls' # <<>> => Top' = calls'[1]
  BY <1>2, <1>3, TopAfter
<1>5. Nest(calls') <= Cardinality(Gone') /\ Nest(calls') \in Nat
  BY <1>0, <1>1, <1>2, <1>3
<1>6. Top'.op \notin {"netclose", "protocol_close"}
  BY <1>2, <1>3, <1>4
<1>7. ASSUME Top'.op = "removeport", Top'.arg \notin Table'
      PROVE  Nest(calls') + 1 <= Cardinality(Gone')
  <2>1. /\ Top' = s[2] /\ Len(s) >= 2
        /\ Top.op \in {"netclose", "protocol_close", "yield"}
    BY <1>2, <1>3, <1>4, <1>7 DEF Openers, Nested
  <2>2. CASE Top.op = "yield"
    <3>1. s[1].op \in Nested
      BY <1>2, <2>2 DEF Nested
    <3>2. Nest(calls') + 1 = Nest(calls)
      BY <1>2, <1>3, <3>1
    <3> QED
      BY <1>0, <1>1, <1>3, <3>2
  <2>3. CASE Top.op \in {"netclose", "protocol_close"}
    <3>1. calls[2].arg \in Table
      BY <1>7, <2>1, <2>3 DEF NestInv
    <3> QED
      BY <1>7, <2>1, <2>3, <3>1
  <2> QED
    BY <2>1, <2>2, <2>3
<1> QED
  BY <1>1, <1>2, <1>3, <1>5, <1>6, <1>7 DEF NestInv

(* The calls of the main thread.                                           *)
LEMMA MainNest ==
  ASSUME TypeInv, OwnInv, NestInv, MainCall
  PROVE  NestInv'
<1>0. /\ [Next]_vars /\ Stacked(calls) /\ Unshared /\ Nest(calls) <= Cardinality(Gone)
      /\ calls \in Seq(CallSet)
  BY DEF NestInv, TypeInv, Next
<1>1. /\ Cardinality(Gone) \in Nat /\ Cardinality(Gone') \in Nat
      /\ Cardinality(Gone) <= Cardinality(Gone') /\ Unshared'
  BY <1>0, GoneGrows, TableGone
<1>2. Top.op # "loop"
  BY DEF MainCall, ProtocolClose, Netclose, Removeport, Removed, Destroyport, CloseAllTurn
<1>3. /\ calls # <<>> /\ Top = calls[1] /\ Top \in CallSet /\ Tail(calls) \in Seq(CallSet)
      /\ Top.op \notin {"netclose", "closeall"} => Top.arg \in Slots
      /\ Top.op = "netclose" => Top.arg \in PortNo
      /\ Top.op = "closeall" => Top.arg \in -1..(MaxSess - 1)
  BY <1>0, <1>2, TopIsCall
<1>4. /\ Top.op \in {"removeport", "protocol_close"} /\ Top.arg \notin Table
           => Nest(calls) + 1 <= Cardinality(Gone)
      /\ Len(calls) >= 2 /\ Top.op \in {"netclose", "protocol_close"}
                         /\ calls[2].op = "removeport"
           => calls[2].arg \in Table
  BY DEF NestInv
<1>5. ASSUME NEW q \in Seq(CallSet), q # <<>>, Stacked(q), Do(q),
             q[Len(q)].op \in Openers \/ calls[1].op \notin Openers
      PROVE  /\ Len(q) \in Nat \ {0} /\ Len(calls) \in Nat \ {0}
             /\ Stacked(calls') /\ Nest(q) \in Nat /\ Nest(calls) \in Nat /\ Nest(calls') \in Nat
             /\ Nest(calls') + (IF calls[1].op \in Nested THEN 1 ELSE 0) = Nest(q) + Nest(calls)
             /\ Len(calls') = Len(q) + Len(calls) - 1
             /\ \A k \in 1..Len(q) : calls'[k] = q[k]
             /\ Len(calls) >= 2 => calls'[Len(q) + 1] = calls[2]
             /\ Top' = q[1]
  <2> DEFINE r == q \o Tail(calls)
  <2>1. /\ r \in Seq(CallSet) /\ Stacked(r)
        /\ Nest(calls) \in Nat /\ Nest(q) \in Nat /\ Nest(r) \in Nat
        /\ Nest(r) + (IF calls[1].op \in Nested THEN 1 ELSE 0) = Nest(q) + Nest(calls)
        /\ Len(r) = Len(q) + Len(calls) - 1
        /\ \A k \in 1..Len(q) : r[k] = q[k]
        /\ Len(calls) >= 2 => r[Len(q) + 1] = calls[2]
    <3>1. q # <<>> => q[Len(q)].op \in Openers \/ calls[1].op \notin Openers
      BY <1>5
    <3> QED
      BY <1>0, <1>3, <1>5, <3>1, ReplaceTop, Zenon
  <2> HIDE DEF r
  <2>2. calls' = r
    BY <1>5 DEF Do, Below, r
  <2>3. Len(q) \in Nat \ {0} /\ Len(calls) \in Nat \ {0}
    BY <1>0, <1>3, <1>5, EmptySeq
  <2>4. calls' # <<>> /\ 1 \in 1..Len(q)
    BY <2>1, <2>2, <2>3
  <2>5. Top' = q[1]
    BY <2>1, <2>2, <2>4, TopAfter
  <2> QED
    BY <2>1, <2>2, <2>3, <2>5
<1>6. CASE ProtocolClose
  <2> DEFINE i == Top.arg
             t == screens[i].thread
  <2>1. CASE t = None
    BY <1>0, <1>2, <1>6, <2>1, ReturnNest DEF ProtocolClose, Table
  <2>2. CASE t # None
    <3> DEFINE q == <<Call("user", 0)>>
    <3>1. Do(q) /\ Top.op = "protocol_close" /\ i \in Slots
      BY <1>3, <1>6, <2>2 DEF ProtocolClose
    <3>2. /\ q \in Seq(CallSet) /\ Len(q) = 1 /\ q # <<>> /\ q[1] = Call("user", 0)
          /\ q[Len(q)].op \in Openers
      <4>1. Call("user", 0) \in CallSet /\ Call("user", 0).op \in Openers
        BY CallTypes DEF Call, Openers, Nested
      <4> QED
        BY <4>1
    <3>3. Call("user", 0).op = "user"
      BY DEF Call
    <3>4. Stacked(q) /\ Nest(q) = 1
      BY <3>2, <3>3, NestOfFew DEF Stacked, Nested
    <3> HIDE DEF q
    <3>5. /\ Stacked(calls') /\ Nest(calls) \in Nat /\ Nest(calls') \in Nat
          /\ Nest(calls') + (IF calls[1].op \in Nested THEN 1 ELSE 0) = Nest(q) + Nest(calls)
          /\ Top' = q[1]
      BY <1>5, <3>1, <3>2, <3>4
    <3>6. Nest(calls') = Nest(calls) + 1
      <4>1. calls[1].op \notin Nested
        BY <1>3, <3>1 DEF Nested
      <4> QED
        BY <3>4, <3>5, <4>1
    <3>7. Closed(i)
      BY <1>6, <2>2, CloseIsClosed
    <3>8. Nest(calls') <= Cardinality(Gone')
      <4>1. CASE i \in Table
        <5>1. Cardinality(Gone) + 1 <= Cardinality(Gone')
          BY <1>0, <3>7, <4>1, ClosedGone
        <5> QED
          BY <1>0, <1>1, <3>5, <3>6, <5>1
      <4>2. CASE i \notin Table
        BY <1>1, <1>4, <3>1, <3>5, <3>6, <4>2
      <4> QED
        BY <4>1, <4>2
    <3> QED
      BY <1>1, <3>2, <3>3, <3>5, <3>8 DEF NestInv
  <2> QED
    BY <2>1, <2>2
<1>7. CASE Netclose
  <2> DEFINE p == Top.arg
             i == WindByPort(p)
  <2>1. Top.op = "netclose" /\ UNCHANGED <<screens, numwindows>> /\ Table' = Table
        /\ (i = -1 \/ i \in Table) /\ Table \subseteq Slots
    BY <1>7, LookupsInTable DEF Netclose, Table
  <2>2. CASE Return
    BY <1>0, <1>2, <2>1, <2>2, ReturnNest
  <2>3. CASE i \in Table /\ Do(<<Call("protocol_close", i)>>)
    <3> HIDE DEF i
    <3> DEFINE c == Call("protocol_close", i)
               q == <<c>>
    <3>1. c \in CallSet /\ c.op = "protocol_close" /\ c.arg = i
      BY <2>1, <2>3, CallTypes DEF Call
    <3> HIDE DEF c
    <3>2. q \in Seq(CallSet) /\ Len(q) = 1 /\ q # <<>> /\ q[1] = c /\ q[Len(q)].op \in Openers
      BY <3>1 DEF Openers
    <3>3. Stacked(q) /\ Nest(q) = 0
      BY <3>1, <3>2, NestOfFew DEF Stacked, Nested
    <3>4. Do(q)
      BY <2>3 DEF c
    <3> HIDE DEF q
    <3>5. /\ Len(calls) \in Nat \ {0}
          /\ Stacked(calls') /\ Nest(calls) \in Nat /\ Nest(calls') \in Nat
          /\ Nest(calls') + (IF calls[1].op \in Nested THEN 1 ELSE 0) = Nest(q) + Nest(calls)
          /\ Len(calls') = Len(q) + Len(calls) - 1
          /\ Len(calls) >= 2 => calls'[Len(q) + 1] = calls[2]
          /\ Top' = q[1]
      BY <1>5, <3>2, <3>3, <3>4
    <3>6. Nest(calls') <= Cardinality(Gone')
      <4>1. calls[1].op \notin Nested
        BY <1>3, <2>1 DEF Nested
      <4> QED
        BY <1>0, <1>1, <3>3, <3>5, <4>1
    <3>7. Top'.arg \in Table'
      BY <2>1, <2>3, <3>1, <3>2, <3>5
    <3>8. Len(calls') >= 2 => Len(calls) >= 2 /\ calls'[2] = calls[2]
      BY <3>2, <3>5
    <3> QED
      BY <1>1, <1>4, <2>1, <3>5, <3>6, <3>7, <3>8 DEF NestInv
  <2>4. Return \/ (i \in Table /\ Do(<<Call("protocol_close", i)>>))
    <3>1. CASE p \notin streams \/ i < 0
      BY <1>7, <3>1, Zenon DEF Netclose
    <3>2. CASE ~(p \notin streams \/ i < 0)
      <4>1. i \in Table
        BY <2>1, <3>2
      <4>2. Return \/ Do(<<Call("protocol_close", i)>>)
        BY <1>7, <3>2, Zenon DEF Netclose
      <4> QED
        BY <4>1, <4>2
    <3> QED
      BY <3>1, <3>2
  <2> QED
    BY <2>2, <2>3, <2>4
<1>8. CASE Removeport
  <2> DEFINE a == Top.arg
             c == Call("protocol_close", a)
             d == Call("removed", a)
             q == <<c, d>>
  <2>1. Top.op = "removeport" /\ a \in Slots /\ Do(q) /\ Table' = Table
    BY <1>3, <1>8 DEF Removeport, Table
  <2>2. /\ c \in CallSet /\ c.op = "protocol_close" /\ c.arg = a
        /\ d \in CallSet /\ d.op = "removed"
    BY <2>1, CallTypes DEF Call
  <2> HIDE DEF c, d
  <2>3. q \in Seq(CallSet) /\ Len(q) = 2 /\ q # <<>> /\ q[1] = c /\ q[2] = d
    BY <2>2
  <2> HIDE DEF q
  <2>4. Stacked(q) /\ Nest(q) = 0
    <3>1. \A k \in 1..Len(q) : q[k].op \notin Nested
      BY <2>2, <2>3 DEF Nested
    <3> QED
      BY <2>2, <2>3, <3>1, NestOfFew DEF Stacked
  <2>5. calls[1].op \notin Openers /\ calls[1].op \notin Nested
    BY <1>3, <2>1 DEF Openers, Nested
  <2>6. /\ Stacked(calls') /\ Nest(calls) \in Nat /\ Nest(calls') \in Nat
        /\ Nest(calls') + (IF calls[1].op \in Nested THEN 1 ELSE 0) = Nest(q) + Nest(calls)
        /\ \A k \in 1..Len(q) : calls'[k] = q[k]
        /\ Top' = q[1]
    BY <1>5, <2>1, <2>3, <2>4, <2>5
  <2>7. Nest(calls') = Nest(calls) /\ calls'[2] = d
    BY <2>3, <2>4, <2>5, <2>6
  <2>8. Nest(calls') <= Cardinality(Gone')
    BY <1>0, <1>1, <2>6, <2>7
  <2>9. Top'.arg \notin Table' => Nest(calls') + 1 <= Cardinality(Gone')
    BY <1>1, <1>4, <2>1, <2>2, <2>3, <2>6, <2>7
  <2> QED
    BY <1>1, <2>2, <2>6, <2>7, <2>8, <2>9 DEF NestInv
<1>9. CASE Removed \/ Destroyport
  BY <1>0, <1>2, <1>9, ReturnNest DEF Removed, Destroyport
<1>10. CASE CloseAllTurn
  <2>1. CASE Return
    BY <1>0, <1>2, <1>10, <2>1, ReturnNest DEF CloseAllTurn
  <2>2. CASE ~(Top.arg < 0)
    <3> DEFINE a == Top.arg
               c == Call("netclose", screens[a].port)
               d == Call("destroyport", a)
               e == Call("closeall", a - 1)
               q == <<c, d, e>>
    <3>1. Top.op = "closeall" /\ Do(q)
      BY <1>10, <2>2 DEF CloseAllTurn
    <3>2. /\ c \in CallSet /\ c.op = "netclose"
          /\ d \in CallSet /\ d.op = "destroyport"
          /\ e \in CallSet /\ e.op = "closeall"
      <4>1. a \in Slots /\ a - 1 \in -1..(MaxSess - 1)
        BY <1>3, <2>2, <3>1, SessionAssumption DEF Slots
      <4>2. screens[a].port \in PortNo
        BY <4>1 DEF TypeInv, WindSet
      <4> QED
        BY <4>1, <4>2, CallTypes DEF Call
    <3> HIDE DEF c, d, e
    <3>3. q \in Seq(CallSet) /\ Len(q) = 3 /\ q # <<>> /\ q[1] = c /\ q[2] = d /\ q[3] = e
      BY <3>2
    <3> HIDE DEF q
    <3>4. Stacked(q) /\ Nest(q) = 0
      <4>1. \A k \in 1..Len(q) : q[k].op \notin Nested
        BY <3>2, <3>3 DEF Nested
      <4>2. \A k \in 2..Len(q) : q[k].op \in {"destroyport", "closeall"}
        BY <3>2, <3>3
      <4> QED
        BY <3>3, <4>1, <4>2, NestOfFew DEF Stacked
    <3>5. calls[1].op \notin Openers /\ calls[1].op \notin Nested
      BY <1>3, <3>1 DEF Openers, Nested
    <3>6. /\ Stacked(calls') /\ Nest(calls) \in Nat /\ Nest(calls') \in Nat
          /\ Nest(calls') + (IF calls[1].op \in Nested THEN 1 ELSE 0) = Nest(q) + Nest(calls)
          /\ \A k \in 1..Len(q) : calls'[k] = q[k]
          /\ Top' = q[1]
      BY <1>5, <3>1, <3>3, <3>4, <3>5
    <3>7. Nest(calls') = Nest(calls) /\ calls'[2] = d
      BY <3>3, <3>4, <3>5, <3>6
    <3>8. Nest(calls') <= Cardinality(Gone')
      BY <1>0, <1>1, <3>6, <3>7
    <3> QED
      BY <1>1, <3>2, <3>3, <3>6, <3>7, <3>8 DEF NestInv
  <2> QED
    BY <1>10, <2>1, <2>2 DEF CloseAllTurn
<1> QED
  BY <1>6, <1>7, <1>8, <1>9, <1>10 DEF MainCall

(* The user's actions.                                                     *)
LEMMA UserNest ==
  ASSUME TypeInv, OwnInv, NestInv, UserEvent \/ OpenWindow \/ OpenFailed
  PROVE  NestInv'
<1>0. /\ [Next]_vars /\ calls \in Seq(CallSet) /\ Call("net", 0) \in CallSet
      /\ screens \in [Slots -> WindSet]
  BY CallTypes DEF TypeInv, Next
<1>1. AtUser => AtLoop \/ Top.op \in {"user", "net"}
  BY DEF AtUser, AtLoop
<1>2. \A c \in CallSet : c.op # "loop"
  BY CallFields
<1>3. CASE OpenWindow \/ OpenFailed
  <2>1. Top.op \in {"create", "login"} /\ Return
    BY <1>3 DEF OpenWindow, OpenFailed
  <2> QED
    BY <1>0, <2>1, ReturnNest
<1>4. CASE Open
  <2>1. PICK c : Dispatched("net", <<c>>) /\ c.op \in {"create", "login"}
    BY <1>4 DEF Open, AfterUser, OpenCall
  <2> DEFINE C == CallSet \cup {c}
             q == <<c>>
  <2>2. calls \in Seq(C) /\ Call("net", 0) \in C
    BY <1>0, SeqMonotonic
  <2>3. \A d \in C : d.op # "loop"
    BY <1>2, <2>1
  <2>4. q \in Seq(C) /\ Len(q) = 1 /\ q[1] = c
    OBVIOUS
  <2>5. \A k \in 1..Len(q) : q[k].op \notin Nested \cup {"protocol_close"}
    BY <2>1, <2>4 DEF Nested
  <2>6. EventCalls(q, Table') /\ Dispatched("net", q)
    BY <2>1, <2>4, <2>5 DEF EventCalls
  <2>7. AtLoop \/ Top.op \in {"user", "net"}
    BY <1>1, <1>4 DEF Open
  <2> HIDE DEF C, q
  <2> QED
    BY <1>0, <2>2, <2>3, <2>4, <2>6, <2>7, DispatchNest
<1>5. ASSUME AtUser, NEW q \in Seq(CallSet), AfterUser(q), EventCalls(q, Table')
      PROVE  NestInv'
  <2>1. Dispatched("net", q) /\ (AtLoop \/ Top.op \in {"user", "net"})
    BY <1>1, <1>5 DEF AfterUser
  <2> QED
    BY <1>0, <1>2, <1>5, <2>1, DispatchNest
<1>6. CASE CloseAWindow \/ displayStatus
  <2>1. PICK i \in Table : \/ AfterUser(<<Call("destroyport", i)>>)
                           \/ AfterUser(<<Call("netclose", screens[i].port), Call("removeport", i)>>)
                           \/ AfterUser(<<Call("netclose", screens[i].port), Call("destroyport", i)>>)
    BY <1>6 DEF CloseAWindow, displayStatus
  <2>2. AtUser /\ Table' = Table
    BY <1>6 DEF CloseAWindow, displayStatus, Table
  <2> DEFINE d == Call("destroyport", i)
             n == Call("netclose", screens[i].port)
             r == Call("removeport", i)
  <2>3. d \in CallSet /\ n \in CallSet /\ r \in CallSet
    <3>1. i \in Slots /\ screens[i].port \in PortNo
      BY <1>0 DEF Table, WindSet
    <3> QED
      BY <3>1, CallTypes
  <2>4. d.op = "destroyport" /\ n.op = "netclose" /\ r.op = "removeport" /\ r.arg = i
    BY DEF Call
  <2> HIDE DEF d, n, r
  <2>5. CASE AfterUser(<<d>>)
    <3> DEFINE q == <<d>>
    <3>1. q \in Seq(CallSet) /\ Len(q) = 1 /\ q[1] = d
      BY <2>3
    <3>2. \A k \in 1..Len(q) : q[k].op \notin Nested \cup {"protocol_close"}
      BY <2>4, <3>1 DEF Nested
    <3>3. AfterUser(q)
      BY <2>5
    <3> HIDE DEF q
    <3>4. EventCalls(q, Table')
      BY <2>4, <3>1, <3>2 DEF EventCalls
    <3> QED
      BY <1>5, <2>2, <3>1, <3>3, <3>4
  <2>6. ASSUME NEW x \in {d, r}, AfterUser(<<n, x>>) PROVE NestInv'
    <3> DEFINE q == <<n, x>>
    <3>1. q \in Seq(CallSet) /\ Len(q) = 2 /\ q[1] = n /\ q[2] = x
      BY <2>3
    <3>2. \A k \in 1..Len(q) : q[k].op \notin Nested \cup {"protocol_close"}
      BY <2>4, <3>1 DEF Nested
    <3>3. AfterUser(q)
      BY <2>6
    <3> HIDE DEF q
    <3>4. q[2].op # "netclose" /\ (q[2].op = "removeport" => q[1].op = "netclose" /\ q[2].arg \in Table')
      BY <2>2, <2>4, <3>1
    <3>5. EventCalls(q, Table')
      BY <2>4, <3>1, <3>2, <3>4 DEF EventCalls
    <3> QED
      BY <1>5, <2>2, <3>1, <3>3, <3>5
  <2> QED
    BY <2>1, <2>5, <2>6 DEF d, n, r
<1>7. CASE CloseAll
  <2> DEFINE c == Call("closeall", numwindows - 1)
             q == <<c>>
  <2>1. c \in CallSet /\ c.op = "closeall"
    <3>1. numwindows - 1 \in -1..(MaxSess - 1)
      BY <1>7, SessionAssumption DEF CloseAll, TypeInv
    <3> QED
      BY <3>1, CallTypes DEF Call
  <2>2. AtUser /\ AfterUser(q)
    BY <1>7 DEF CloseAll
  <2> HIDE DEF c
  <2>3. q \in Seq(CallSet) /\ Len(q) = 1 /\ q[1] = c
    BY <2>1
  <2>4. \A k \in 1..Len(q) : q[k].op \notin Nested \cup {"protocol_close"}
    BY <2>1, <2>3 DEF Nested
  <2> HIDE DEF q
  <2>5. EventCalls(q, Table')
    BY <2>1, <2>3, <2>4 DEF EventCalls
  <2> QED
    BY <1>5, <2>2, <2>3, <2>5
<1> QED
  BY <1>3, <1>4, <1>6, <1>7 DEF UserEvent

(* Network events, and the steps of a nested ssh2_sched without any.       *)
LEMMA NetNest ==
  ASSUME TypeInv, OwnInv, NestInv, NetEvent \/ NoUserEvent \/ NoNetEvent
  PROVE  NestInv'
<1>0. /\ [Next]_vars /\ calls \in Seq(CallSet)
      /\ Call("net", 0) \in CallSet /\ Call("yield", 0) \in CallSet
  BY CallTypes DEF TypeInv, Next
<1>1. AtLoop \/ Top.op \in {"user", "net"}
  BY NetCalls DEF NoUserEvent, NoNetEvent
<1>2. \A c \in CallSet : c.op # "loop"
  BY CallFields
<1>3. ASSUME NEW op \in {"net", "yield"}, Dispatched(op, <<>>) PROVE NestInv'
  <2> DEFINE q == <<>>
  <2>1. q \in Seq(CallSet) /\ Len(q) = 0 /\ q = <<>>
    BY EmptySeq
  <2>2. Call(op, 0) \in CallSet /\ Dispatched(op, q)
    BY <1>0, <1>3
  <2> HIDE DEF q
  <2>3. \A k \in 1..Len(q) : q[k].op \notin Nested \cup {"protocol_close"}
    BY <2>1
  <2>4. EventCalls(q, Table')
    BY <2>1, <2>3 DEF EventCalls
  <2> QED
    BY <1>0, <1>1, <1>2, <2>1, <2>2, <2>4, DispatchNest
<1>4. CASE NoUserEvent \/ NoNetEvent \/ ConnectionOpenEvent \/ CompleteConnectionOpening
  <2>1. AfterUser(<<>>) \/ AfterNet(<<>>)
    BY <1>4, Zenon DEF NoUserEvent, NoNetEvent, ConnectionOpenEvent, CompleteConnectionOpening
  <2> QED
    BY <1>3, <2>1 DEF AfterUser, AfterNet
<1>5. CASE ConnectionClosedEvent \/ CloseDone
  <2> DEFINE p == Head(events).port
             i == WindByPort(p)
             n == Call("netclose", p)
             r == Call("removeport", i)
  <2>1. p \in PortNo /\ (i = -1 \/ i \in Table) /\ Table' = Table /\ Table \subseteq Slots
    <3>1. events # <<>> /\ Head(events).what # "DOMAIN_DONE"
      BY <1>5 DEF ConnectionClosedEvent, CloseDone, Take
    <3>2. p \in PortNo
      BY <3>1, TakenEvent
    <3>3. i = -1 \/ i \in Table
      BY LookupsInTable
    <3> QED
      BY <1>5, <3>2, <3>3 DEF ConnectionClosedEvent, CloseDone, Table
  <2>2. AfterNet(<<n>>) \/ (i \in Table /\ AfterNet(<<n, r>>))
    <3>1. CASE i < 0
      BY <1>5, <3>1 DEF ConnectionClosedEvent, CloseDone
    <3>2. CASE ~(i < 0)
      BY <1>5, <2>1, <3>2 DEF ConnectionClosedEvent, CloseDone
    <3> QED
      BY <3>1, <3>2
  <2>3. /\ n \in CallSet /\ n.op = "netclose"
        /\ i \in Table => r \in CallSet /\ r.op = "removeport" /\ r.arg = i
    BY <2>1, CallTypes DEF Call
  <2> HIDE DEF p, i, n, r
  <2>4. CASE AfterNet(<<n>>)
    <3> DEFINE q == <<n>>
    <3>1. q \in Seq(CallSet) /\ Len(q) = 1 /\ q[1] = n
      BY <2>3
    <3>2. \A k \in 1..Len(q) : q[k].op \notin Nested \cup {"protocol_close"}
      BY <2>3, <3>1 DEF Nested
    <3>3. Dispatched("yield", q)
      BY <2>4 DEF AfterNet
    <3> HIDE DEF q
    <3>4. EventCalls(q, Table')
      BY <2>3, <3>1, <3>2 DEF EventCalls
    <3> QED
      BY <1>0, <1>1, <1>2, <3>1, <3>3, <3>4, DispatchNest
  <2>5. CASE i \in Table /\ AfterNet(<<n, r>>)
    <3> DEFINE q == <<n, r>>
    <3>1. q \in Seq(CallSet) /\ Len(q) = 2 /\ q[1] = n /\ q[2] = r
      BY <2>3, <2>5
    <3>2. \A k \in 1..Len(q) : q[k].op \notin Nested \cup {"protocol_close"}
      BY <2>3, <2>5, <3>1 DEF Nested
    <3>3. Dispatched("yield", q)
      BY <2>5 DEF AfterNet
    <3>4. q[2].op # "netclose" /\ q[1].op = "netclose" /\ q[2].arg \in Table'
      BY <2>1, <2>3, <2>5, <3>1
    <3> HIDE DEF q
    <3>5. EventCalls(q, Table')
      BY <2>3, <3>1, <3>2, <3>4 DEF EventCalls
    <3> QED
      BY <1>0, <1>1, <1>2, <3>1, <3>3, <3>5, DispatchNest
  <2> QED
    BY <2>2, <2>4, <2>5
<1> QED
  BY <1>4, <1>5 DEF NetEvent

LEMMA NestStep == TypeInv /\ OwnInv /\ NestInv /\ [Next]_vars => NestInv'
<1> SUFFICES ASSUME TypeInv, OwnInv, NestInv, [Next]_vars PROVE NestInv'
  OBVIOUS
<1>0. Unshared /\ Nest(calls) <= Cardinality(Gone) /\ Stacked(calls) /\ calls \in Seq(CallSet)
  BY DEF NestInv, TypeInv
<1>1. CASE SchedReturn
  <2>1. Top.op = "yield" /\ Return /\ Table' = Table
    BY <1>1 DEF SchedReturn, Table
  <2> QED
    BY <2>1, ReturnNest
<1>2. CASE DNRDone \/ UNCHANGED vars
  <2>1. UNCHANGED <<screens, numwindows, threads, calls>>
    BY <1>2 DEF DNRDone, vars
  <2>2. Gone' = Gone /\ Table' = Table /\ Unshared' = Unshared /\ Top' = Top
    BY <2>1 DEF Gone, Referred, Table, Unshared, Top
  <2> QED
    BY <2>1, <2>2 DEF NestInv
<1>3. CASE ThreadStep
  <2>1. calls' = calls /\ AtYield
    BY <1>3 DEF ThreadStep, ThreadStart, ThreadEnd, ThreadKilled
  <2>2. /\ Cardinality(Gone) \in Nat /\ Cardinality(Gone') \in Nat
        /\ Cardinality(Gone) <= Cardinality(Gone') /\ Unshared'
    BY <1>0, GoneGrows, TableGone
  <2>3. Nest(calls) \in Nat
    BY <1>0, NestConcat
  <2>4. Nest(calls') <= Cardinality(Gone')
    BY <1>0, <2>1, <2>2, <2>3
  <2>5. Top'.op \in {"loop", "login", "yield"}
    BY <2>1 DEF AtYield, AtLoop, Top
  <2> QED
    BY <1>0, <2>1, <2>2, <2>4, <2>5 DEF NestInv
<1> QED
  BY <1>1, <1>2, <1>3, MainNest, UserNest, NetNest DEF Next

-----------------------------------------------------------------------------
LEMMA InitInv == Init => TypeInv /\ OwnInv /\ NestInv
<1> SUFFICES ASSUME Init PROVE TypeInv /\ OwnInv /\ NestInv
  OBVIOUS
<1>0. MaxSess \in Nat \ {0} /\ MaxOpens \in Nat /\ MaxEnds \in Nat
  BY SessionAssumption
<1>1. /\ screens = [i \in Slots |-> WindRec] /\ numwindows = 0
      /\ streams = {} /\ vss = {} /\ events = <<>> /\ lookups = {} /\ threads = <<>>
      /\ calls = <<>> /\ opens = 0 /\ ends = 0
  BY DEF Init
<1>2. TypeInv
  <2>1. WindRec \in WindSet
    <3>1. None \in Thread /\ None \in 0..opens /\ NoPort \in PortNo /\ -1 \in -1..MaxSess
      BY <1>0, <1>1 DEF Thread, None, PortNo
    <3> QED
      BY <3>1 DEF WindRec, WindSet
  <2>2. screens \in [Slots -> WindSet]
    BY <1>1, <2>1
  <2>3. events \in Seq(EventSet) /\ threads \in Seq(ThreadSet) /\ calls \in Seq(CallSet)
    BY <1>1, EmptySeq
  <2>4. numwindows \in Int /\ numwindows <= MaxSess /\ opens \in 0..MaxOpens /\ ends \in 0..MaxEnds
    BY <1>0, <1>1
  <2>5. streams \subseteq Ports /\ vss \subseteq 0..MaxSess
        /\ lookups \subseteq [screen : Slots, host : 1..opens]
    BY <1>1
  <2> QED
    BY <2>2, <2>3, <2>4, <2>5 DEF TypeInv
<1>3. Table = {}
  BY <1>0, <1>1 DEF Table, Slots
<1>4. OwnInv
  BY <1>1, <1>3 DEF OwnInv, WindRec
<1>5. NestInv
  <2>1. Len(calls) = 0 /\ Top.op = "loop"
    BY <1>1 DEF Top, Call
  <2>2. Nest(calls) = 0
    BY <2>1, NestOfFew
  <2>3. Stacked(calls) /\ Unshared
    BY <1>3, <2>1 DEF Stacked, Unshared
  <2>4. Gone = {}
    BY <1>1 DEF Gone
  <2>5. Cardinality(Gone) = 0
    BY <2>4, FS_EmptySet
  <2> QED
    BY <2>1, <2>2, <2>3, <2>5 DEF NestInv
<1> QED
  BY <1>2, <1>4, <1>5

(* The inductive invariant holds of every behaviour.                       *)
THEOREM SessionInvariant == Spec => [](TypeInv /\ OwnInv /\ NestInv)
<1>1. TypeInv /\ OwnInv /\ NestInv /\ [Next]_vars => (TypeInv /\ OwnInv /\ NestInv)'
  BY TypeStep, OwnStep, NestStep
<1> QED
  BY <1>1, InitInv, PTL DEF Spec

(* Everything in the table, the queue and the calls stays of its type: no  *)
(* handler of Connections.c, event.c or network.c makes an index outside   *)
(* the table, however its calls interleave with the events that ssh2_sched *)
(* dispatches within them, and no session gets a thread without a host.    *)
THEOREM SessionTypes == Spec => []TypeOK
<1>1. TypeInv => TypeOK
  <2> SUFFICES ASSUME TypeInv PROVE TypeOK
    OBVIOUS
  <2>1. screens \in [Slots -> WindSet] /\ threads \in Seq(ThreadSet) /\ calls \in Seq(CallSet)
    BY DEF TypeInv
  <2>2. \A t \in 1..Len(threads) : threads[t] \in ThreadSet
    BY <2>1, ElementOfSeq
  <2>3. \A k \in 1..Len(calls) :
          calls[k].op \notin {"netclose", "closeall"} => calls[k].arg \in Slots
    <3>1. \A k \in 1..Len(calls) : calls[k] \in CallSet
      BY <2>1, ElementOfSeq
    <3> QED
      BY <3>1, CallFields
  <2> QED
    BY <2>1, <2>2, <2>3 DEF TypeInv, TypeOK, WindSet, ThreadSet, PortNo
<1> QED
  BY <1>1, SessionInvariant, PTL

(* Closing a window never kills another session through the thread field,  *)
(* whatever destroyport (Connections.c) moves while netclose and           *)
(* removeport are suspended in ssh2_sched.                                 *)
THEOREM OwnThreads == Spec => []ThreadIsOwn
<1>1. OwnInv => ThreadIsOwn
  BY DEF OwnInv, ThreadIsOwn, Table
<1> QED
  BY <1>1, SessionInvariant, PTL

(* The main thread's stack is bounded: ssh_protocol_close signals every    *)
(* thread at most once through the table, and what a stale window index    *)
(* adds is paid for by an event loop that has returned.                    *)
THEOREM BoundedNesting == Spec => []NestingBounded
<1>1. TypeInv /\ NestInv => NestingBounded
  <2> SUFFICES ASSUME TypeInv, NestInv PROVE NestingBounded
    OBVIOUS
  <2> DEFINE K == {t \in 1..Len(threads) : threads[t].killed}
  <2>1. Len(threads) \in Nat /\ calls \in Seq(CallSet)
    BY DEF TypeInv
  <2>2. IsFiniteSet(1..Len(threads))
    BY <2>1, FS_Interval
  <2>3. K \in SUBSET (1..Len(threads)) /\ Gone \in SUBSET K
    BY DEF Gone
  <2> HIDE DEF K
  <2>4. IsFiniteSet(K)
    BY <2>2, <2>3, FS_Subset
  <2>5. IsFiniteSet(Gone) /\ Cardinality(Gone) <= Cardinality(K)
    BY <2>3, <2>4, FS_Subset
  <2>6. Cardinality(Gone) \in Nat /\ Cardinality(K) \in Nat /\ Nest(calls) \in Nat
    BY <2>1, <2>4, <2>5, FS_CardinalityType, NestConcat
  <2>7. Nest(calls) <= Cardinality(K)
    BY <2>5, <2>6 DEF NestInv
  <2> QED
    BY <2>7 DEF NestingBounded, Nest, Nested, K
<1> QED
  BY <1>1, SessionInvariant, PTL

=============================================================================
