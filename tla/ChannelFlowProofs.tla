------------------------- MODULE ChannelFlowProofs -------------------------
(***************************************************************************)
(* The proof of FlowControl, for any number of channels opened by either   *)
(* end, any windows, packet sizes and numbers.                             *)
(*                                                                         *)
(* Each direction of a channel has one account: the window that the        *)
(* sender has left, the data on its way to the receiver, and the credit on *)
(* its way back (OPEN and CONFIRM carry the first one, ADJUST the rest).   *)
(* As long as the receiver takes data, the account is what it thinks the   *)
(* window is; once the sender has ended, credit is no longer booked, and   *)
(* the account can only be less.  The invariant of ChannelProofs is needed *)
(* for what can be on its way when a channel begins.                       *)
(***************************************************************************)
EXTENDS ChannelProofs, WellFoundedInduction

(* The packets that give the sender a window.                              *)
Credits == {"OPEN", "CONFIRM", "ADJUST"}

(* The receiver r takes data, and the sender s may still send.             *)
Taking(r) ==
  r.status \in {"opening", "live"} /\ r.flags \cap (CloseFlags \cup {"RECEIVED_EOF"}) = {}

Sending(s) == s.status # "dead" /\ s.flags \cap {"SENT_EOF", "SENT_CLOSE"} = {}

(* The account of one direction of channel k: in is the queue that carries *)
(* the data, back the one that carries the credit.                         *)
Total(k, s, in, back) == s.send_window + Sizes(in, k, {"DATA"}) + Sizes(back, k, Credits)

Flow(k, s, r, in, back) ==
  /\ s.status \in {"none", "opening"} => s.send_window = 0
  /\ Taking(r) => /\ Total(k, s, in, back) <= r.rec_window
                  /\ Sending(s) => Total(k, s, in, back) = r.rec_window

(* do_read_data_query never lets more be sent at once than a packet holds. *)
Small(box) == \A i \in 1 .. Len(box) : box[i].type = "DATA" => box[i].size <= MaxPacket

(* The account of both directions of every channel.                        *)
FlowInv ==
  /\ \A e \in Ends, k \in Opens :
       Flow(k, ch[Peer(e)][k], ch[e][k], inbox[e], inbox[Peer(e)])
  /\ \A e \in Ends : Small(inbox[e])

-----------------------------------------------------------------------------
(* Adding up the sizes of packets.                                         *)

(* Induction up to n, for a set instead of a predicate.                    *)
LEMMA CountTo ==
  ASSUME NEW n \in Nat, NEW S, 0 \in S,
         \A k \in 0 .. n : k \in S /\ k < n => k + 1 \in S
  PROVE  \A k \in 0 .. n : k \in S
<1> DEFINE T == {k \in 0 .. n : k \notin S}
<1>1. SUFFICES ASSUME T # {} PROVE FALSE
  OBVIOUS
<1>2. T \in SUBSET Nat
  OBVIOUS
<1> HIDE DEF T
<1>3. PICK x \in T : \A y \in T : ~(<<y, x>> \in OpToRel(<, Nat))
  BY <1>1, <1>2, NatLessThanWellFounded, WFMin
<1>4. x \in 0 .. n /\ x \notin S /\ x # 0
  BY <1>3 DEF T
<1> DEFINE y == x - 1
<1>5. y \in 0 .. n /\ y < n /\ y < x /\ y + 1 = x /\ y \in Nat /\ x \in Nat
  BY <1>4
<1> HIDE DEF y
<1>6. <<y, x>> \in OpToRel(<, Nat)
  <2>1. <<y, x>> \in Nat \X Nat /\ <<y, x>>[1] = y /\ <<y, x>>[2] = x
    BY <1>5
  <2>2. <<y, x>>[1] < <<y, x>>[2]
    BY <1>5, <2>1
  <2> QED
    BY <2>1, <2>2, Zenon DEF OpToRel
<1>7. y \notin T
  BY <1>3, <1>6, Zenon
<1>8. y \in S
  BY <1>5, <1>7 DEF T
<1> QED
  BY <1>4, <1>5, <1>8

(* f adds up the first n packets one by one.                               *)
Running(box, k, types, n, f) ==
  f = [i \in 0 .. n |-> IF i = 0 THEN 0 ELSE f[i - 1] + Size(box[i], k, types)]

(* There is such a sum for the whole queue, and it is Sizes.               *)
LEMMA SizesRun ==
  ASSUME NEW box, Len(box) \in Nat, NEW k, NEW types
  PROVE  \E f : Running(box, k, types, Len(box), f) /\ Sizes(box, k, types) = f[Len(box)]
<1> DEFINE N == Len(box)
           S == {n \in 0 .. N : \E f : Running(box, k, types, n, f)}
<1>1. 0 \in S
  <2>1. Running(box, k, types, 0, [i \in 0 .. 0 |-> 0])
    BY DEF Running
  <2> QED
    BY <2>1
<1>2. ASSUME NEW n \in 0 .. N, n \in S, n < N PROVE n + 1 \in S
  <2>1. PICK f : Running(box, k, types, n, f)
    BY <1>2
  <2> DEFINE g == [i \in 0 .. n + 1 |->
                     IF i = n + 1 THEN f[n] + Size(box[i], k, types) ELSE f[i]]
  <2>2. ASSUME NEW i \in 0 .. n + 1
        PROVE  g[i] = IF i = 0 THEN 0 ELSE g[i - 1] + Size(box[i], k, types)
    <3>1. CASE i = n + 1
      BY <1>2, <3>1
    <3>2. CASE i # n + 1
      <4>1. i \in 0 .. n
        BY <3>2
      <4>2. g[i] = f[i] /\ f[i] = IF i = 0 THEN 0 ELSE f[i - 1] + Size(box[i], k, types)
        BY <2>1, <3>2, <4>1 DEF Running
      <4>3. i # 0 => i - 1 \in 0 .. n + 1 /\ i - 1 # n + 1 /\ g[i - 1] = f[i - 1]
        BY <4>1
      <4> QED
        BY <4>2, <4>3
    <3> QED
      BY <3>1, <3>2
  <2>3. Running(box, k, types, n + 1, g)
    <3>1. g = [i \in 0 .. n + 1 |-> g[i]]
      OBVIOUS
    <3> HIDE DEF g
    <3>2. [i \in 0 .. n + 1 |-> g[i]]
            = [i \in 0 .. n + 1 |-> IF i = 0 THEN 0 ELSE g[i - 1] + Size(box[i], k, types)]
      BY <2>2
    <3>3. g = [i \in 0 .. n + 1 |-> IF i = 0 THEN 0 ELSE g[i - 1] + Size(box[i], k, types)]
      BY <3>1, <3>2, Zenon
    <3> QED
      BY <3>3, Zenon DEF Running
  <2> HIDE DEF g
  <2> QED
    BY <1>2, <2>3
<1>3. N \in S
  <2> HIDE DEF S
  <2>1. \A i \in 0 .. N : i \in S
    BY <1>1, <1>2, CountTo
  <2> QED
    BY <2>1
<1>4. PICK f : Running(box, k, types, N, f)
  BY <1>3
<1> DEFINE J == CHOOSE j : j = [i \in 0 .. N |-> IF i = 0 THEN 0 ELSE j[i - 1] + Size(box[i], k, types)]
<1>5. J = [i \in 0 .. N |-> IF i = 0 THEN 0 ELSE J[i - 1] + Size(box[i], k, types)]
  BY <1>4, Zenon DEF Running
<1>6. Running(box, k, types, N, J)
  BY <1>5, Zenon DEF Running
<1>7. Sizes(box, k, types) = J[N]
  BY Zenon DEF Sizes
<1> QED
  BY <1>6, <1>7, Zenon

(* Every packet adds its size.                                             *)
Grows(box, k, types, n, f) ==
  \A i \in 0 .. n : i < n => f[i + 1] = f[i] + Size(box[i + 1], k, types)

(* A running sum starts at zero and grows by one packet at a time.         *)
LEMMA RunStep ==
  ASSUME NEW box, NEW k, NEW types, NEW n \in Nat, NEW f, Running(box, k, types, n, f)
  PROVE  f[0] = 0 /\ Grows(box, k, types, n, f)
<1>1. \A i \in 0 .. n : f[i] = IF i = 0 THEN 0 ELSE f[i - 1] + Size(box[i], k, types)
  BY DEF Running
<1>2. f[0] = 0
  BY <1>1
<1>3. ASSUME NEW i \in 0 .. n, i < n
      PROVE  f[i + 1] = f[i] + Size(box[i + 1], k, types)
  <2>1. i + 1 \in 0 .. n /\ i + 1 # 0 /\ (i + 1) - 1 = i
    BY <1>3
  <2> QED
    BY <1>1, <2>1
<1> QED
  BY <1>2, <1>3 DEF Grows

(* A packet never counts for less than nothing.                            *)
LEMMA SizeNat ==
  ASSUME NEW m \in Packet, NEW k, NEW types
  PROVE  Size(m, k, types) \in Nat
BY DEF Size, Packet

(* Neither does a running sum.                                             *)
LEMMA RunNat ==
  ASSUME NEW box \in Seq(Packet), NEW k, NEW types, NEW n \in 0 .. Len(box), NEW f,
         Running(box, k, types, n, f)
  PROVE  \A i \in 0 .. n : f[i] \in Nat
<1> DEFINE S == {i \in 0 .. n : f[i] \in Nat}
<1>a. n \in Nat
  OBVIOUS
<1>b. f[0] = 0 /\ Grows(box, k, types, n, f)
  BY <1>a, RunStep, Zenon
<1>0. /\ f[0] = 0
      /\ \A i \in 0 .. n : i < n => f[i + 1] = f[i] + Size(box[i + 1], k, types)
  BY <1>b DEF Grows
<1>1. 0 \in S
  BY <1>0
<1>2. ASSUME NEW i \in 0 .. n, i \in S, i < n PROVE i + 1 \in S
  <2>1. i + 1 \in 0 .. n /\ box[i + 1] \in Packet
    BY <1>2
  <2>2. Size(box[i + 1], k, types) \in Nat
    BY <2>1, SizeNat
  <2> QED
    BY <1>0, <1>2, <2>1, <2>2
<1>3. \A i \in 0 .. n : i \in S
  <2> HIDE DEF S
  <2> QED
    BY <1>1, <1>2, CountTo
<1> QED
  BY <1>3

(* The queue b counts like a part of box, from position d on.              *)
Alike(b, kinds, box, types, k, d) ==
  /\ Len(b) + d <= Len(box)
  /\ \A i \in 1 .. Len(b) : Size(b[i], k, kinds) = Size(box[i + d], k, types)

(* The running sum f, from position d on, is the running sum g.            *)
Shifted(f, g, d, n) == \A i \in 0 .. n : f[i + d] = f[d] + g[i]

(* A queue b that is a part of box, from position d on, is added up like   *)
(* that part.                                                              *)
LEMMA RunPart ==
  ASSUME NEW box \in Seq(Packet), NEW k, NEW types, NEW f,
         Running(box, k, types, Len(box), f),
         NEW b \in Seq(Packet), NEW kinds, NEW g,
         Running(b, k, kinds, Len(b), g),
         NEW d \in Nat, Alike(b, kinds, box, types, k, d)
  PROVE  Shifted(f, g, d, Len(b))
<1> DEFINE n == Len(b)
           S == {i \in 0 .. n : f[i + d] = f[d] + g[i]}
<1>0. n \in Nat /\ Len(box) \in Nat
  OBVIOUS
<1>b. /\ Len(b) + d <= Len(box)
      /\ \A i \in 1 .. Len(b) : Size(b[i], k, kinds) = Size(box[i + d], k, types)
  BY DEF Alike
<1>a. g[0] = 0 /\ Grows(b, k, kinds, n, g) /\ Grows(box, k, types, Len(box), f)
  BY <1>0, RunStep, Zenon
<1>1. /\ g[0] = 0
      /\ \A i \in 0 .. n : i < n => g[i + 1] = g[i] + Size(b[i + 1], k, kinds)
  BY <1>a DEF Grows
<1>2. \A i \in 0 .. Len(box) : i < Len(box) => f[i + 1] = f[i] + Size(box[i + 1], k, types)
  BY <1>a DEF Grows
<1>3. \A i \in 0 .. n : g[i] \in Nat
  BY RunNat
<1>4. \A i \in 0 .. Len(box) : f[i] \in Nat
  BY RunNat
<1>5. 0 \in S
  <2>1. f[d] \in Nat
    BY <1>0, <1>4, <1>b
  <2> QED
    BY <1>1, <2>1
<1>6. ASSUME NEW i \in 0 .. n, i \in S, i < n PROVE i + 1 \in S
  <2>1. /\ i + 1 \in 1 .. n /\ i + 1 \in 0 .. n /\ i + d \in 0 .. Len(box) /\ i + d < Len(box)
        /\ (i + d) + 1 = (i + 1) + d /\ d \in 0 .. Len(box)
    BY <1>0, <1>6, <1>b
  <2>2. Size(b[i + 1], k, kinds) = Size(box[(i + 1) + d], k, types) /\ b[i + 1] \in Packet
    BY <2>1, <1>b
  <2>3. Size(b[i + 1], k, kinds) \in Nat
    BY <2>2, SizeNat
  <2>4. g[i + 1] = g[i] + Size(b[i + 1], k, kinds)
    BY <1>1, <1>6
  <2>5. f[(i + 1) + d] = f[i + d] + Size(b[i + 1], k, kinds)
    BY <1>2, <2>1, <2>2
  <2>6. f[i + d] = f[d] + g[i]
    BY <1>6
  <2>7. f[d] \in Nat /\ g[i] \in Nat
    BY <1>3, <1>4, <2>1
  <2>8. f[(i + 1) + d] = f[d] + g[i + 1]
    BY <2>3, <2>4, <2>5, <2>6, <2>7
  <2> QED
    BY <2>1, <2>8
<1>7. \A i \in 0 .. n : i \in S
  <2> HIDE DEF S, n
  <2> QED
    BY <1>0, <1>5, <1>6, CountTo
<1> QED
  BY <1>7 DEF Shifted

(* Neither does a queue.                                                   *)
LEMMA SizesNat ==
  ASSUME NEW box \in Seq(Packet), NEW k, NEW types
  PROVE  Sizes(box, k, types) \in Nat
<1>0. Len(box) \in Nat /\ Len(box) \in 0 .. Len(box)
  OBVIOUS
<1>1. PICK f : Running(box, k, types, Len(box), f) /\ Sizes(box, k, types) = f[Len(box)]
  BY <1>0, SizesRun
<1>2. \A i \in 0 .. Len(box) : f[i] \in Nat
  BY <1>0, <1>1, RunNat
<1> QED
  BY <1>0, <1>1, <1>2

(* A packet that is sent adds its size.                                    *)
LEMMA SizesAppend ==
  ASSUME NEW box \in Seq(Packet), NEW k, NEW types, NEW m \in Packet
  PROVE  Sizes(Append(box, m), k, types) = Sizes(box, k, types) + Size(m, k, types)
<1> DEFINE b == Append(box, m)
           n == Len(box)
<1>0. /\ n \in Nat /\ b \in Seq(Packet) /\ Len(b) = n + 1 /\ b[n + 1] = m
      /\ \A i \in 1 .. n : b[i] = box[i]
  OBVIOUS
<1> HIDE DEF b
<1>1. PICK f : Running(box, k, types, n, f) /\ Sizes(box, k, types) = f[n]
  BY <1>0, SizesRun
<1>2. PICK g : Running(b, k, types, Len(b), g) /\ Sizes(b, k, types) = g[Len(b)]
  BY <1>0, SizesRun
<1>3. Alike(box, types, b, types, k, 0)
  BY <1>0 DEF Alike
<1>4. b \in Seq(Packet) /\ 0 \in Nat
  BY <1>0
<1>a. Shifted(g, f, 0, Len(box))
  BY <1>1, <1>2, <1>3, <1>4, RunPart, Zenon
<1>5. \A i \in 0 .. n : g[i + 0] = g[0] + f[i]
  BY <1>a DEF Shifted
<1>6. g[0] = 0 /\ Grows(b, k, types, n + 1, g)
  BY <1>0, <1>2, RunStep
<1>7. g[n + 1] = g[n] + Size(m, k, types)
  BY <1>0, <1>6 DEF Grows
<1>8. f[n] \in Nat
  BY <1>1, SizesNat
<1>9. g[n] = f[n]
  BY <1>0, <1>5, <1>6, <1>8
<1> QED
  BY <1>0, <1>1, <1>2, <1>7, <1>9 DEF b

(* A packet that is read takes its size away.                              *)
LEMMA SizesTail ==
  ASSUME NEW box \in Seq(Packet), box # <<>>, NEW k, NEW types
  PROVE  /\ Sizes(box, k, types) = Size(Head(box), k, types) + Sizes(Tail(box), k, types)
         /\ Size(Head(box), k, types) \in Nat
<1> DEFINE b == Tail(box)
           n == Len(b)
<1>0. /\ n \in Nat /\ b \in Seq(Packet) /\ Len(box) = n + 1 /\ box[1] = Head(box)
      /\ \A i \in 1 .. n : b[i] = box[i + 1]
  BY TailOf
<1>a. Head(box) \in Packet
  OBVIOUS
<1> HIDE DEF b
<1>1. PICK f : Running(box, k, types, Len(box), f) /\ Sizes(box, k, types) = f[Len(box)]
  BY <1>0, SizesRun
<1>2. PICK g : Running(b, k, types, n, g) /\ Sizes(b, k, types) = g[n]
  BY <1>0, SizesRun
<1>3. Alike(b, types, box, types, k, 1)
  BY <1>0 DEF Alike
<1>4. b \in Seq(Packet) /\ 1 \in Nat
  BY <1>0
<1>b. Shifted(f, g, 1, Len(b))
  BY <1>1, <1>2, <1>3, <1>4, RunPart, Zenon
<1>5. \A i \in 0 .. n : f[i + 1] = f[1] + g[i]
  BY <1>b DEF Shifted
<1>6. f[0] = 0 /\ Grows(box, k, types, n + 1, f)
  BY <1>0, <1>1, RunStep
<1>7. f[0 + 1] = f[0] + Size(box[0 + 1], k, types)
  BY <1>0, <1>6 DEF Grows
<1>8. Size(Head(box), k, types) \in Nat
  BY <1>a, SizeNat
<1>9. f[1] = Size(Head(box), k, types)
  BY <1>0, <1>6, <1>7, <1>8
<1> QED
  BY <1>0, <1>1, <1>2, <1>5, <1>8, <1>9 DEF b

(* Two sets of types are the same if no packet tells them apart.           *)
LEMMA SizesSame ==
  ASSUME NEW box \in Seq(Packet), NEW k, NEW types, NEW kinds,
         \A i \in Of(k, box) : box[i].type \in types <=> box[i].type \in kinds
  PROVE  Sizes(box, k, types) = Sizes(box, k, kinds)
<1> DEFINE n == Len(box)
<1>0. n \in Nat
  OBVIOUS
<1>1. PICK f : Running(box, k, types, n, f) /\ Sizes(box, k, types) = f[n]
  BY <1>0, SizesRun
<1>2. PICK g : Running(box, k, kinds, n, g) /\ Sizes(box, k, kinds) = g[n]
  BY <1>0, SizesRun
<1>3. Alike(box, kinds, box, types, k, 0)
  <2>1. \A i \in 1 .. n : Size(box[i], k, kinds) = Size(box[i + 0], k, types)
    BY DEF Size, Of
  <2> QED
    BY <1>0, <2>1 DEF Alike
<1>4. 0 \in Nat
  OBVIOUS
<1>a. Shifted(f, g, 0, Len(box))
  BY <1>1, <1>2, <1>3, <1>4, RunPart, Zenon
<1>5. \A i \in 0 .. n : f[i + 0] = f[0] + g[i]
  BY <1>a DEF Shifted
<1>6. f[0] = 0
  BY <1>0, <1>1, RunStep
<1>7. g[n] \in Nat
  BY <1>2, SizesNat
<1> QED
  BY <1>0, <1>1, <1>2, <1>5, <1>6, <1>7

(* Nothing about the channel is on its way.                                *)
LEMMA SizesNothing ==
  ASSUME NEW box \in Seq(Packet), NEW k
  PROVE  Sizes(box, k, {}) = 0
<1> DEFINE n == Len(box)
<1>0. n \in Nat
  OBVIOUS
<1>1. PICK f : Running(box, k, {}, n, f) /\ Sizes(box, k, {}) = f[n]
  BY <1>0, SizesRun
<1>2. f[0] = 0 /\ Grows(box, k, {}, n, f)
  BY <1>0, <1>1, RunStep
<1> DEFINE S == {i \in 0 .. n : f[i] = 0}
<1>3. 0 \in S
  BY <1>0, <1>2
<1>4. ASSUME NEW i \in 0 .. n, i \in S, i < n PROVE i + 1 \in S
  BY <1>0, <1>2, <1>4 DEF Grows, Size
<1>5. \A i \in 0 .. n : i \in S
  <2> HIDE DEF S
  <2> QED
    BY <1>0, <1>3, <1>4, CountTo
<1> QED
  BY <1>0, <1>1, <1>5

(* No packet about channel k in the queue has one of the types.            *)
LEMMA SizesNone ==
  ASSUME NEW box \in Seq(Packet), NEW k, NEW types,
         \A i \in Of(k, box) : box[i].type \notin types
  PROVE  Sizes(box, k, types) = 0
<1>1. \A i \in Of(k, box) : box[i].type \in types <=> box[i].type \in {}
  OBVIOUS
<1>2. Sizes(box, k, types) = Sizes(box, k, {})
  BY <1>1, SizesSame
<1> QED
  BY <1>2, SizesNothing

-----------------------------------------------------------------------------
(* The queues in a step.                                                   *)

(* The queue more differs from less only in packets about channel k, which *)
(* carry this much data and credit.                                        *)
More(k, less, more, data, credit) ==
  /\ data \in Nat /\ credit \in Nat
  /\ \A j \in Opens : j # k =>
       /\ Sizes(more, j, {"DATA"}) = Sizes(less, j, {"DATA"})
       /\ Sizes(more, j, Credits) = Sizes(less, j, Credits)
  /\ Sizes(more, k, {"DATA"}) = Sizes(less, k, {"DATA"}) + data
  /\ Sizes(more, k, Credits) = Sizes(less, k, Credits) + credit

(* A queue that does not change.                                           *)
LEMMA MoreNone ==
  ASSUME NEW k, NEW box \in Seq(Packet)
  PROVE  More(k, box, box, 0, 0)
<1>1. \A types : Sizes(box, k, types) \in Nat
  BY SizesNat
<1>2. Sizes(box, k, {"DATA"}) \in Nat /\ Sizes(box, k, Credits) \in Nat
  BY <1>1
<1> QED
  BY <1>2 DEF More

(* A packet about channel k is added at the end.                           *)
LEMMA MoreAppend ==
  ASSUME NEW k, NEW box \in Seq(Packet), NEW m \in Packet, m.k = k
  PROVE  More(k, box, Append(box, m), Size(m, k, {"DATA"}), Size(m, k, Credits))
<1>1. ASSUME NEW j, NEW types
      PROVE  /\ Sizes(Append(box, m), j, types) = Sizes(box, j, types) + Size(m, j, types)
             /\ Sizes(box, j, types) \in Nat
             /\ j # k => Size(m, j, types) = 0
  BY SizesAppend, SizesNat DEF Size
<1>2. ASSUME NEW j, NEW types, j # k
      PROVE  Sizes(Append(box, m), j, types) = Sizes(box, j, types)
  BY <1>1, <1>2
<1>3. Size(m, k, {"DATA"}) \in Nat /\ Size(m, k, Credits) \in Nat
  BY SizeNat
<1> QED
  BY <1>1, <1>2, <1>3 DEF More

(* The first packet of the queue is about channel k.                       *)
LEMMA MoreHead ==
  ASSUME NEW k, NEW box \in Seq(Packet), box # <<>>, Head(box).k = k
  PROVE  More(k, Tail(box), box, Size(Head(box), k, {"DATA"}), Size(Head(box), k, Credits))
<1> DEFINE m == Head(box)
<1>0. Tail(box) \in Seq(Packet)
  BY TailOf
<1>1. ASSUME NEW j, NEW types
      PROVE  /\ Sizes(box, j, types) = Sizes(Tail(box), j, types) + Size(m, j, types)
             /\ Size(m, j, types) \in Nat
             /\ j # k => Size(m, j, types) = 0
  <2>1. /\ Sizes(box, j, types) = Size(m, j, types) + Sizes(Tail(box), j, types)
        /\ Size(m, j, types) \in Nat
    BY SizesTail
  <2>2. Sizes(Tail(box), j, types) \in Nat
    BY <1>0, SizesNat
  <2>3. j # k => Size(m, j, types) = 0
    BY DEF Size
  <2> QED
    BY <2>1, <2>2, <2>3
<1>2. ASSUME NEW j, NEW types, j # k
      PROVE  Sizes(box, j, types) = Sizes(Tail(box), j, types)
  <2>1. Sizes(Tail(box), j, types) \in Nat
    BY <1>0, SizesNat
  <2> QED
    BY <1>1, <1>2, <2>1
<1> QED
  BY <1>1, <1>2 DEF More

(* What end e sends about channel k in a step: nothing, one packet, or EOF *)
(* and CLOSE.                                                              *)
Out(k, out, data, credit) ==
  \/ out = <<>> /\ data = 0 /\ credit = 0
  \/ \E m \in Packet :
       /\ out = <<m>> /\ m.k = k /\ (m.type = "DATA" => m.size <= MaxPacket)
       /\ data = Size(m, k, {"DATA"}) /\ credit = Size(m, k, Credits)
  \/ \E m, n \in Packet :
       /\ out = Append(<<m>>, n) /\ m.k = k /\ n.k = k
       /\ m.type = "EOF" /\ n.type = "CLOSE" /\ data = 0 /\ credit = 0

(* A packet that is not too long is added.                                 *)
LEMMA SmallAppend ==
  ASSUME NEW box \in Seq(Packet), NEW m \in Packet, Small(box),
         m.type = "DATA" => m.size <= MaxPacket
  PROVE  Small(Append(box, m))
BY DEF Small

(* What is sent in a step, added to the queue.                             *)
LEMMA OutMore ==
  ASSUME NEW k, NEW box \in Seq(Packet), NEW out, NEW data, NEW credit,
         Out(k, out, data, credit), Small(box)
  PROVE  More(k, box, box \o out, data, credit) /\ Small(box \o out)
<1>1. CASE out = <<>> /\ data = 0 /\ credit = 0
  <2>1. box \o out = box
    BY <1>1, ConcatEmptySeq
  <2> QED
    BY <1>1, <2>1, MoreNone
<1>2. ASSUME NEW m \in Packet, out = <<m>>, m.k = k, m.type = "DATA" => m.size <= MaxPacket,
             data = Size(m, k, {"DATA"}), credit = Size(m, k, Credits)
      PROVE  More(k, box, box \o out, data, credit) /\ Small(box \o out)
  <2>1. box \o out = Append(box, m)
    BY <1>2, Concat
  <2> QED
    BY <1>2, <2>1, MoreAppend, SmallAppend
<1>3. ASSUME NEW m \in Packet, NEW n \in Packet, out = Append(<<m>>, n), m.k = k, n.k = k,
             m.type = "EOF", n.type = "CLOSE", data = 0, credit = 0
      PROVE  More(k, box, box \o out, data, credit) /\ Small(box \o out)
  <2> DEFINE b == Append(box, m)
  <2>1. box \o out = Append(b, n) /\ b \in Seq(Packet)
    BY <1>3, Concat
  <2>2. Small(b)
    BY <1>3, SmallAppend
  <2> HIDE DEF b
  <2>3. Small(Append(b, n))
    BY <1>3, <2>1, <2>2, SmallAppend
  <2>4. /\ Size(m, k, {"DATA"}) = 0 /\ Size(m, k, Credits) = 0
        /\ Size(n, k, {"DATA"}) = 0 /\ Size(n, k, Credits) = 0
    BY <1>3 DEF Size, Credits
  <2>5. More(k, box, b, 0, 0)
    BY <1>3, <2>4, MoreAppend DEF b
  <2>6. More(k, b, Append(b, n), 0, 0)
    BY <1>3, <2>1, <2>4, MoreAppend
  <2>7. Sizes(box, k, {"DATA"}) \in Nat /\ Sizes(box, k, Credits) \in Nat
    BY SizesNat
  <2>8. More(k, box, Append(b, n), 0, 0)
    BY <2>5, <2>6, <2>7 DEF More
  <2> QED
    BY <1>3, <2>1, <2>3, <2>8
<1> QED
  BY <1>1, <1>2, <1>3 DEF Out

(* What end e has read in a step: nothing, or the first packet.            *)
Has(e, k, box, data, credit) ==
  \/ box = inbox /\ data = 0 /\ credit = 0
  \/ /\ inbox[e] # <<>> /\ box = Rest(e) /\ Head(inbox[e]).k = k
     /\ data = Size(Head(inbox[e]), k, {"DATA"}) /\ credit = Size(Head(inbox[e]), k, Credits)

(* A packet is read.                                                       *)
LEMMA SmallTail ==
  ASSUME NEW box \in Seq(Packet), box # <<>>, Small(box)
  PROVE  Small(Tail(box))
<1> SUFFICES ASSUME NEW i \in 1 .. Len(Tail(box)), Tail(box)[i].type = "DATA"
             PROVE  Tail(box)[i].size <= MaxPacket
  BY DEF Small
<1>1. Tail(box)[i] = box[i + 1] /\ i + 1 \in 1 .. Len(box)
  BY TailOf
<1> QED
  BY <1>1 DEF Small

(* What was read in a step, taken from the queue of end e.                 *)
LEMMA HasMore ==
  ASSUME IInv, FlowInv, NEW e \in Ends, NEW k, NEW box, NEW data, NEW credit,
         Has(e, k, box, data, credit)
  PROVE  /\ More(k, box[e], inbox[e], data, credit) /\ Small(box[e])
         /\ box[Peer(e)] = inbox[Peer(e)] /\ box \in [Ends -> Seq(Packet)]
<1>1. inbox \in [Ends -> Seq(Packet)] /\ Small(inbox[e]) /\ Peer(e) \in Ends /\ Peer(e) # e
  BY PeerFacts DEF IInv, TypeOK, FlowInv
<1>2. CASE box = inbox /\ data = 0 /\ credit = 0
  BY <1>1, <1>2, MoreNone
<1>3. CASE /\ inbox[e] # <<>> /\ box = Rest(e) /\ Head(inbox[e]).k = k
           /\ data = Size(Head(inbox[e]), k, {"DATA"})
           /\ credit = Size(Head(inbox[e]), k, Credits)
  <2>1. inbox[e] \in Seq(Packet)
    BY <1>1
  <2>2. Tail(inbox[e]) \in Seq(Packet)
    BY <1>3, <2>1, TailOf
  <2>3. box \in [Ends -> Seq(Packet)] /\ box[e] = Tail(inbox[e]) /\ box[Peer(e)] = inbox[Peer(e)]
    BY <1>1, <1>3, <2>2 DEF Rest
  <2> QED
    BY <1>1, <1>3, <2>1, <2>3, MoreHead, SmallTail
<1> QED
  BY <1>2, <1>3 DEF Has

(* In a step of end e this much is read and sent.                          *)
Moved(e, k, inD, inC, outD, outC) ==
  /\ More(k, inbox'[e], inbox[e], inD, inC)
  /\ More(k, inbox[Peer(e)], inbox'[Peer(e)], outD, outC)
  /\ Small(inbox'[e]) /\ Small(inbox'[Peer(e)])

(* A step that reads from one queue and adds to the other.                 *)
LEMMA MovedBy ==
  ASSUME IInv, FlowInv, NEW e \in Ends, NEW k, NEW box, NEW inD, NEW inC, ~finished[e],
         Has(e, k, box, inD, inC), NEW out, NEW outD, NEW outC, Out(k, out, outD, outC),
         inbox' = Send(e, out, box)
  PROVE  Moved(e, k, inD, inC, outD, outC)
<1> DEFINE p == Peer(e)
<1>1. /\ More(k, box[e], inbox[e], inD, inC) /\ Small(box[e])
      /\ box[p] = inbox[p] /\ box \in [Ends -> Seq(Packet)]
  BY HasMore
<1>2. p \in Ends /\ p # e
  BY PeerFacts
<1>3. inbox[p] \in Seq(Packet) /\ Small(inbox[p])
  BY <1>1, <1>2 DEF FlowInv
<1>4. More(k, inbox[p], inbox[p] \o out, outD, outC) /\ Small(inbox[p] \o out)
  BY <1>3, OutMore
<1>5. inbox' = [box EXCEPT ![p] = inbox[p] \o out]
  BY <1>1 DEF Send
<1>6. inbox'[e] = box[e] /\ inbox'[p] = inbox[p] \o out
  BY <1>1, <1>2, <1>5
<1> QED
  BY <1>1, <1>4, <1>6 DEF Moved

(* The same when the first packet is read and nothing is sent.             *)
LEMMA MovedRest ==
  ASSUME IInv, FlowInv, NEW e \in Ends, NEW k, NEW inD, NEW inC,
         Has(e, k, Rest(e), inD, inC), inbox' = Rest(e)
  PROVE  Moved(e, k, inD, inC, 0, 0)
<1> DEFINE p == Peer(e)
<1>1. /\ More(k, inbox'[e], inbox[e], inD, inC) /\ Small(inbox'[e])
      /\ inbox'[p] = inbox[p]
  BY HasMore
<1>2. p \in Ends /\ inbox \in [Ends -> Seq(Packet)] /\ Small(inbox[p])
  BY PeerFacts DEF IInv, TypeOK, FlowInv
<1>3. More(k, inbox[p], inbox[p], 0, 0)
  BY <1>2, MoreNone
<1> QED
  BY <1>1, <1>2, <1>3 DEF Moved

-----------------------------------------------------------------------------
(* The accounts in a step.                                                 *)

(* An end's object goes from c to d: the data that is sent is taken from   *)
(* the window, and the credit that is read is added to it.                 *)
SenderBooks(c, d, inC, outD) ==
  /\ d.status \in {"none", "opening"} => d.send_window = 0
  /\ d.send_window + outD <= c.send_window + inC
  /\ Sending(d) => Sending(c) /\ d.send_window + outD = c.send_window + inC

(* The data that is read is taken from the window that the end offers, and *)
(* the credit that it sends is added to it.                                *)
ReceiverBooks(c, d, inD, outC) ==
  Taking(d) => Taking(c) /\ d.rec_window + inD = c.rec_window + outC

(* The account in which the end that takes the step is the sender.         *)
LEMMA SenderFlow ==
  ASSUME NEW k, NEW c \in Object, NEW d \in Object, NEW q \in Object,
         NEW in \in Seq(Packet), NEW in2 \in Seq(Packet),
         NEW back \in Seq(Packet), NEW back2 \in Seq(Packet),
         NEW inD, NEW inC, NEW outD, NEW outC, Flow(k, c, q, in, back),
         More(k, in, in2, outD, outC), More(k, back2, back, inD, inC),
         SenderBooks(c, d, inC, outD)
  PROVE  Flow(k, d, q, in2, back2)
<1> DEFINE a == Sizes(in, k, {"DATA"})
           a2 == Sizes(in2, k, {"DATA"})
           b == Sizes(back, k, Credits)
           b2 == Sizes(back2, k, Credits)
<1>1. a \in Nat /\ a2 \in Nat /\ b \in Nat /\ b2 \in Nat
  BY SizesNat
<1>2. inC \in Nat /\ outD \in Nat /\ a2 = a + outD /\ b = b2 + inC
  BY DEF More
<1> DEFINE x == c.send_window
           y == d.send_window
           w == q.rec_window
           t == Total(k, c, in, back)
           t2 == Total(k, d, in2, back2)
<1>3. t = x + a + b /\ t2 = y + a2 + b2
  BY DEF Total
<1>4. x \in Nat /\ y \in Nat /\ w \in Nat
  BY DEF Object
<1>5. y + outD <= x + inC
  BY DEF SenderBooks
<1>6. Sending(d) => Sending(c) /\ y + outD = x + inC
  BY DEF SenderBooks
<1>7. /\ d.status \in {"none", "opening"} => y = 0
      /\ Taking(q) => t <= w /\ (Sending(c) => t = w)
  BY DEF SenderBooks, Flow
<1> HIDE DEF a, a2, b, b2, x, y, w, t, t2
<1>8. t2 <= t /\ t \in Nat /\ t2 \in Nat
  BY <1>1, <1>2, <1>3, <1>4, <1>5
<1>9. y + outD = x + inC => t2 = t
  BY <1>1, <1>2, <1>3, <1>4
<1>10. Taking(q) => t2 <= w
  BY <1>4, <1>7, <1>8
<1>11. Taking(q) /\ Sending(d) => t2 = w
  BY <1>6, <1>7, <1>9
<1> QED
  BY <1>7, <1>10, <1>11 DEF Flow, y, w, t2

(* The account in which the end that takes the step is the receiver.       *)
LEMMA ReceiverFlow ==
  ASSUME NEW k, NEW c \in Object, NEW d \in Object, NEW q \in Object,
         NEW in \in Seq(Packet), NEW in2 \in Seq(Packet),
         NEW back \in Seq(Packet), NEW back2 \in Seq(Packet),
         NEW inD, NEW inC, NEW outD, NEW outC, Flow(k, q, c, in, back),
         More(k, in2, in, inD, inC), More(k, back, back2, outD, outC),
         ReceiverBooks(c, d, inD, outC)
  PROVE  Flow(k, q, d, in2, back2)
<1> DEFINE a == Sizes(in, k, {"DATA"})
           a2 == Sizes(in2, k, {"DATA"})
           b == Sizes(back, k, Credits)
           b2 == Sizes(back2, k, Credits)
<1>1. a \in Nat /\ a2 \in Nat /\ b \in Nat /\ b2 \in Nat
  BY SizesNat
<1>2. inD \in Nat /\ outC \in Nat /\ a = a2 + inD /\ b2 = b + outC
  BY DEF More
<1> DEFINE x == c.rec_window
           y == d.rec_window
           w == q.send_window
           t == Total(k, q, in, back)
           t2 == Total(k, q, in2, back2)
<1>3. t = w + a + b /\ t2 = w + a2 + b2
  BY DEF Total
<1>4. x \in Nat /\ y \in Nat /\ w \in Nat
  BY DEF Object
<1>5. Taking(d) => Taking(c) /\ y + inD = x + outC
  BY DEF ReceiverBooks
<1>6. /\ q.status \in {"none", "opening"} => w = 0
      /\ Taking(c) => t <= x /\ (Sending(q) => t = x)
  BY DEF Flow
<1> HIDE DEF a, a2, b, b2, x, y, w, t, t2
<1>7. t2 + inD = t + outC /\ t \in Nat /\ t2 \in Nat
  BY <1>1, <1>2, <1>3, <1>4
<1>8. t <= x /\ y + inD = x + outC => t2 <= y
  BY <1>2, <1>4, <1>7
<1>9. t = x /\ y + inD = x + outC => t2 = y
  BY <1>2, <1>4, <1>7
<1>10. Taking(d) => t2 <= y /\ (Sending(q) => t2 = y)
  BY <1>5, <1>6, <1>8, <1>9
<1> QED
  BY <1>6, <1>10 DEF Flow, y, w, t2

(* The first credit of a channel, on which nothing has been sent.          *)
LEMMA BeginFlow ==
  ASSUME NEW k, NEW c \in Object, NEW d \in Object, NEW q \in Object,
         NEW in \in Seq(Packet), NEW in2 \in Seq(Packet),
         NEW back \in Seq(Packet), NEW back2 \in Seq(Packet),
         NEW inC, NEW outD, Flow(k, q, c, in, back),
         More(k, in2, in, 0, inC), More(k, back, back2, outD, d.rec_window),
         Of(k, in) = {}, Of(k, back) = {}, q.send_window = 0
  PROVE  Flow(k, q, d, in2, back2)
<1>1. Sizes(in, k, {"DATA"}) = 0 /\ Sizes(back, k, Credits) = 0
  BY SizesNone
<1>2. d.rec_window \in Nat
  BY DEF Object
<1>3. Sizes(in2, k, {"DATA"}) = 0
  <2>1. Sizes(in2, k, {"DATA"}) \in Nat
    BY SizesNat
  <2> QED
    BY <1>1, <2>1 DEF More
<1>4. Sizes(back2, k, Credits) = d.rec_window
  BY <1>1, <1>2 DEF More
<1>5. Total(k, q, in2, back2) = d.rec_window
  BY <1>2, <1>3, <1>4 DEF Total
<1> QED
  BY <1>2, <1>5 DEF Flow

(* Nothing is on its way about channel k, and the other end cannot send.   *)
Begins(e, k) ==
  /\ Of(k, inbox[e]) = {} /\ Of(k, inbox[Peer(e)]) = {}
  /\ ch[Peer(e)][k].status \in {"none", "opening"}

(* The accounts of the other channels are not touched.                     *)
LEMMA StepFlow ==
  ASSUME IInv, FlowInv, NEW e \in Ends, NEW k \in Opens, NEW d \in Object,
         ch' = [ch EXCEPT ![e] = [ch[e] EXCEPT ![k] = d]],
         inbox' \in [Ends -> Seq(Packet)],
         NEW inD, NEW inC, NEW outD, NEW outC, Moved(e, k, inD, inC, outD, outC),
         SenderBooks(ch[e][k], d, inC, outD),
         \/ ReceiverBooks(ch[e][k], d, inD, outC)
         \/ Begins(e, k) /\ inD = 0 /\ outC = d.rec_window
  PROVE  FlowInv'
<1> DEFINE c == ch[e][k]
           p == Peer(e)
           q == ch[p][k]
<1>1. /\ p \in Ends /\ p # e /\ Peer(p) = e
      /\ \A f \in Ends : f = e \/ f = p
  BY PeerFacts
<1>2. /\ ch \in [Ends -> [Opens -> Object]] /\ inbox \in [Ends -> Seq(Packet)]
  BY DEF IInv, TypeOK
<1>3. c \in Object /\ q \in Object /\ inbox[e] \in Seq(Packet) /\ inbox[p] \in Seq(Packet)
      /\ inbox'[e] \in Seq(Packet) /\ inbox'[p] \in Seq(Packet)
  BY <1>1, <1>2
<1>4. /\ Flow(k, q, c, inbox[e], inbox[p])
      /\ Flow(k, c, q, inbox[p], inbox[e])
  <2>1. \A f \in Ends : Flow(k, ch[Peer(f)][k], ch[f][k], inbox[f], inbox[Peer(f)])
    BY DEF FlowInv
  <2>2. Flow(k, ch[Peer(p)][k], ch[p][k], inbox[p], inbox[Peer(p)])
    BY <1>1, <2>1
  <2> QED
    BY <1>1, <2>1, <2>2
<1>5. /\ More(k, inbox'[e], inbox[e], inD, inC) /\ More(k, inbox[p], inbox'[p], outD, outC)
      /\ Small(inbox'[e]) /\ Small(inbox'[p])
  BY DEF Moved
<1>6. /\ ch'[e][k] = d /\ ch'[p] = ch[p]
      /\ \A j \in Opens : j # k => ch'[e][j] = ch[e][j]
  BY <1>1, <1>2
<1>7. SenderBooks(c, d, inC, outD)
  OBVIOUS
<1>8. \/ ReceiverBooks(c, d, inD, outC)
      \/ Begins(e, k) /\ inD = 0 /\ outC = d.rec_window
  OBVIOUS
<1>a. Begins(e, k) => /\ Of(k, inbox[e]) = {} /\ Of(k, inbox[p]) = {}
                      /\ q.status \in {"none", "opening"}
  BY DEF Begins
<1> HIDE DEF c, p, q
<1>9. Flow(k, d, q, inbox'[p], inbox'[e])
  BY <1>3, <1>4, <1>5, <1>7, SenderFlow
<1>10. Flow(k, q, d, inbox'[e], inbox'[p])
  <2>1. CASE ReceiverBooks(c, d, inD, outC)
    BY <1>3, <1>4, <1>5, <2>1, ReceiverFlow
  <2>2. CASE Begins(e, k) /\ inD = 0 /\ outC = d.rec_window
    <3>1. q.send_window = 0
      BY <1>4, <1>a, <2>2 DEF Flow
    <3> QED
      BY <1>3, <1>4, <1>5, <1>a, <2>2, <3>1, BeginFlow
  <2> QED
    BY <1>8, <2>1, <2>2
<1>11. ASSUME NEW f \in Ends, NEW j \in Opens
       PROVE  Flow(j, ch'[Peer(f)][j], ch'[f][j], inbox'[f], inbox'[Peer(f)])
  <2>1. CASE j = k
    BY <1>1, <1>6, <1>9, <1>10, <2>1 DEF p, q
  <2>2. CASE j # k
    <3>1. Flow(j, ch[Peer(f)][j], ch[f][j], inbox[f], inbox[Peer(f)])
      BY DEF FlowInv
    <3>2. Peer(f) \in Ends
      BY PeerFacts
    <3>3. \A g \in Ends : ch'[g][j] = ch[g][j]
      BY <1>1, <1>6, <2>2
    <3>4. \A g \in Ends : /\ Sizes(inbox'[g], j, {"DATA"}) = Sizes(inbox[g], j, {"DATA"})
                          /\ Sizes(inbox'[g], j, Credits) = Sizes(inbox[g], j, Credits)
      BY <1>1, <1>5, <2>2 DEF More
    <3>5. ch'[f][j] = ch[f][j] /\ ch'[Peer(f)][j] = ch[Peer(f)][j]
      BY <3>2, <3>3
    <3>6. Total(j, ch[Peer(f)][j], inbox'[f], inbox'[Peer(f)])
            = Total(j, ch[Peer(f)][j], inbox[f], inbox[Peer(f)])
      BY <3>2, <3>4 DEF Total
    <3> QED
      BY <3>1, <3>5, <3>6 DEF Flow
  <2> QED
    BY <2>1, <2>2
<1>12. \A f \in Ends : Small(inbox'[f])
  BY <1>1, <1>5
<1> QED
  BY <1>11, <1>12 DEF FlowInv

(* An object goes from c to x.c and x.out is sent; this much data and      *)
(* credit has been read.                                                   *)
Account(k, c, x, inD, inC) ==
  \E outD, outC : /\ Out(k, x.out, outD, outC)
                  /\ SenderBooks(c, x.c, inC, outD)
                  /\ ReceiverBooks(c, x.c, inD, outC)

(* A step on channel k whose windows are booked keeps all accounts.        *)
LEMMA UpdateFlow ==
  ASSUME IInv, FlowInv, NEW e \in Ends, NEW k \in Opens, NEW x, NEW box, NEW inD, NEW inC,
         ~finished[e], Has(e, k, box, inD, inC), x.c \in Object,
         Account(k, ch[e][k], x, inD, inC), Update(e, k, x, box),
         inbox' \in [Ends -> Seq(Packet)]
  PROVE  FlowInv'
<1>1. PICK outD, outC : /\ Out(k, x.out, outD, outC)
                        /\ SenderBooks(ch[e][k], x.c, inC, outD)
                        /\ ReceiverBooks(ch[e][k], x.c, inD, outC)
  BY DEF Account
<1>2. /\ ch' = [ch EXCEPT ![e] = [ch[e] EXCEPT ![k] = x.c]]
      /\ inbox' = Send(e, x.out, box)
  BY DEF Update
<1>3. Moved(e, k, inD, inC, outD, outC)
  BY <1>1, <1>2, MovedBy
<1> QED
  BY <1>1, <1>2, <1>3, StepFlow

(* The windows stay as they are, or play no role any more, and no data and *)
(* no credit is sent.                                                      *)
Quiet(c, x) ==
  /\ \/ x.c.send_window = c.send_window /\ x.c.rec_window = c.rec_window
     \/ x.c.status = "dead" /\ x.c.send_window = 0
  /\ \A i \in 1 .. Len(x.out) : x.out[i].type \notin {"DATA", "ADJUST"}

(* A quiet step of an established channel books nothing.                   *)
LEMMA QuietAccount ==
  ASSUME NEW k, NEW c \in Object, c.status \in {"live", "dead"}, NEW got, NEW x,
         x.c \in Object, Sends(k, c, got, x), Quiet(c, x),
         NEW inD \in Nat, inD = 0 \/ ~Taking(x.c)
  PROVE  Account(k, c, x, inD, 0)
<1> DEFINE d == x.c
<1>1. /\ d.status = c.status \/ d.status = "dead"
      /\ c.flags \subseteq d.flags
  BY DEF Sends
<1>2. /\ c.send_window \in Nat /\ d.send_window \in Nat
      /\ c.rec_window \in Nat /\ d.rec_window \in Nat
  BY DEF Object
<1>3. \/ d.send_window = c.send_window /\ d.rec_window = c.rec_window
      \/ d.status = "dead" /\ d.send_window = 0
  BY DEF Quiet
<1>a. inD = 0 \/ ~Taking(d)
  OBVIOUS
<1> HIDE DEF d
<1>4. SenderBooks(c, d, 0, 0)
  <2>1. Sending(d) => Sending(c) /\ d.send_window = c.send_window
    BY <1>1, <1>3 DEF Sending
  <2>2. d.send_window + 0 <= c.send_window + 0
    BY <1>2, <1>3
  <2>3. d.status \notin {"none", "opening"}
    BY <1>1
  <2> QED
    BY <2>1, <2>2, <2>3 DEF SenderBooks
<1>5. ReceiverBooks(c, d, inD, 0)
  <2>1. Taking(d) => Taking(c) /\ d.rec_window = c.rec_window /\ inD = 0
    BY <1>1, <1>3, <1>a DEF Taking
  <2> QED
    BY <1>2, <2>1 DEF ReceiverBooks
<1>6. Out(k, x.out, 0, 0)
  <2>1. CASE x.out = <<>>
    BY <2>1 DEF Out
  <2>2. ASSUME NEW m \in Packet, x.out = <<m>>, Carries(k, c, x.c, m)
        PROVE  Out(k, x.out, 0, 0)
    <3>1. Len(x.out) = 1 /\ x.out[1] = m
      BY <2>2
    <3>2. m.type \notin {"DATA", "ADJUST"}
      BY <3>1 DEF Quiet
    <3>3. m.k = k /\ m.type \in DataTypes
      BY <2>2 DEF Carries
    <3>4. Size(m, k, {"DATA"}) = 0 /\ Size(m, k, Credits) = 0
      BY <3>2, <3>3 DEF Size, Credits, DataTypes
    <3> QED
      BY <2>2, <3>2, <3>3, <3>4 DEF Out
  <2>3. ASSUME NEW m \in Packet, NEW n \in Packet, x.out = Append(<<m>>, n),
               m.type = "EOF", n.type = "CLOSE", Carries(k, c, x.c, m), Carries(k, c, x.c, n)
        PROVE  Out(k, x.out, 0, 0)
    <3>1. m.k = k /\ n.k = k
      BY <2>3 DEF Carries
    <3> QED
      BY <2>3, <3>1 DEF Out
  <2> QED
    BY <2>1, <2>2, <2>3 DEF Sends
<1> QED
  BY <1>4, <1>5, <1>6 DEF Account, d

(* channel_close                                                           *)
LEMMA CloseQuiet ==
  ASSUME NEW k \in Opens, NEW c \in Object, NEW out \in Seq(Packet), NEW x,
         x = channel_close(k, [c |-> c, out |-> out]),
         \A i \in 1 .. Len(out) : out[i].type \notin {"DATA", "ADJUST"}
  PROVE  Quiet(c, x) /\ "SENT_CLOSE" \in x.c.flags
<1> DEFINE m == Msg("CLOSE", k, c, 0)
           d == [c EXCEPT !.flags = @ \cup {"SENT_CLOSE"}]
<1>1. CASE "SENT_CLOSE" \in c.flags
  <2>1. x = [c |-> c, out |-> out]
    BY <1>1 DEF channel_close
  <2> QED
    BY <1>1, <2>1 DEF Quiet
<1>2. CASE "SENT_CLOSE" \notin c.flags
  <2>1. /\ x.c = IF "RECEIVED_CLOSE" \in c.flags THEN Finish(d) ELSE d
        /\ x.out = Append(out, m)
    BY <1>2 DEF channel_close
  <2>2. m \in Packet /\ m.type = "CLOSE"
    BY MsgType
  <2> HIDE DEF m
  <2>3. \A i \in 1 .. Len(x.out) : x.out[i].type \notin {"DATA", "ADJUST"}
    BY <2>1, <2>2
  <2>4. d.send_window = c.send_window /\ d.rec_window = c.rec_window /\ "SENT_CLOSE" \in d.flags
    BY DEF Object
  <2>5. d \in Object
    BY DEF Object, Flags, CloseFlags
  <2> HIDE DEF d
  <2>6. Finish(d).status = "dead" /\ Finish(d).send_window = 0 /\ Finish(d).flags = d.flags
    BY <2>5 DEF Finish, Object
  <2> QED
    BY <2>1, <2>3, <2>4, <2>6 DEF Quiet
<1> QED
  BY <1>1, <1>2

(* channel_eof                                                             *)
LEMMA EofQuiet ==
  ASSUME NEW k \in Opens, NEW c \in Object, NEW x, x = channel_eof(k, Plain(c))
  PROVE  Quiet(c, x)
<1> DEFINE d == [c EXCEPT !.flags = @ \cup {"SENT_EOF"}]
           m == Msg("EOF", k, c, 0)
<1>0. Plain(c).c = c /\ Plain(c).out = <<>>
  BY DEF Plain
<1>1. CASE c.flags \cap ({"SENT_EOF"} \cup CloseFlags) # {}
  <2>1. x.c = c /\ x.out = <<>>
    BY <1>0, <1>1 DEF channel_eof
  <2> QED
    BY <2>1 DEF Quiet
<1>2. CASE c.flags \cap ({"SENT_EOF"} \cup CloseFlags) = {}
  <2>1. x = IF "RECEIVED_EOF" \in c.flags
              THEN channel_close(k, [c |-> d, out |-> <<m>>]) ELSE [c |-> d, out |-> <<m>>]
    BY <1>0, <1>2 DEF channel_eof
  <2>2. d \in Object /\ d.send_window = c.send_window /\ d.rec_window = c.rec_window
    BY DEF Object, Flags
  <2>3. m \in Packet /\ m.type = "EOF"
    BY MsgType
  <2> HIDE DEF d, m
  <2> DEFINE out == <<m>>
  <2>4. out \in Seq(Packet) /\ \A i \in 1 .. Len(out) : out[i].type \notin {"DATA", "ADJUST"}
    BY <2>3
  <2>5. x = IF "RECEIVED_EOF" \in c.flags
              THEN channel_close(k, [c |-> d, out |-> out]) ELSE [c |-> d, out |-> out]
    BY <2>1
  <2> HIDE DEF out
  <2>6. CASE "RECEIVED_EOF" \in c.flags
    <3>1. Quiet(d, x)
      BY <2>2, <2>4, <2>5, <2>6, CloseQuiet
    <3> QED
      BY <2>2, <3>1 DEF Quiet
  <2>7. CASE "RECEIVED_EOF" \notin c.flags
    <3>1. x.c = d /\ x.out = out
      BY <2>5, <2>7
    <3> QED
      BY <2>2, <2>4, <3>1 DEF Quiet
  <2> QED
    BY <2>6, <2>7
<1> QED
  BY <1>1, <1>2

(* close_fd                                                                *)
LEMMA CloseFdQuiet ==
  ASSUME NEW k \in Opens, NEW c \in Object, NEW s \in {"closed", "failed"},
         NEW x, x = close_fd(k, c, s)
  PROVE  Quiet(c, x)
<1> DEFINE left == c.buffered > 0
           d == [c EXCEPT !.socket = s, !.reading = FALSE, !.want_read = FALSE,
                          !.write_closed = TRUE, !.shut = FALSE, !.sources = 0,
                          !.buffered = 0, !.lost = left]
<1>1. left \in BOOLEAN
  OBVIOUS
<1>2. x = IF c.sources = 1 THEN channel_eof(k, Plain(d)) ELSE Plain(d)
  BY DEF close_fd
<1> HIDE DEF left
<1>3. d \in Object /\ d.send_window = c.send_window /\ d.rec_window = c.rec_window
  BY <1>1, ZenonT(40) DEF Object
<1> HIDE DEF d
<1>4. Quiet(d, x)
  <2>1. CASE c.sources = 1
    BY <1>2, <1>3, <2>1, EofQuiet
  <2>2. CASE c.sources # 1
    <3>1. x.c = d /\ x.out = <<>>
      BY <1>2, <2>2 DEF Plain
    <3> QED
      BY <3>1 DEF Quiet
  <2> QED
    BY <2>1, <2>2
<1> QED
  BY <1>3, <1>4 DEF Quiet

-----------------------------------------------------------------------------
(* The local sockets.                                                      *)

(* The queues hold packets after the step too.                             *)
Typed == inbox' \in [Ends -> Seq(Packet)]

(* A socket event on channel k, during which no packet is read.            *)
LEMMA SocketFlow ==
  ASSUME IInv, FlowInv, Typed, NEW e \in Ends, NEW k \in Opens, Watched(e, k), NEW x,
         Sound(k, x.c), Update(e, k, x, inbox),
         \/ Sends(k, ch[e][k], {}, x) /\ Quiet(ch[e][k], x)
         \/ Account(k, ch[e][k], x, 0, 0)
  PROVE  FlowInv'
<1>1. ~finished[e] /\ ch[e][k].status \in {"live", "dead"} /\ ch[e][k] \in Object
  BY SocketFacts DEF Sound
<1>2. Has(e, k, inbox, 0, 0) /\ x.c \in Object
  BY DEF Has, Sound
<1>3. Account(k, ch[e][k], x, 0, 0)
  BY <1>1, <1>2, QuietAccount
<1> QED
  BY <1>1, <1>2, <1>3, UpdateFlow DEF Typed

(* do_write_callback: what has been written is booked and reported.        *)
LEMMA WriteDataFlow ==
  ASSUME IInv, FlowInv, Typed, NEW e \in Ends, NEW k \in Opens, WriteData(e, k)
  PROVE  FlowInv'
<1> DEFINE c == ch[e][k]
<1>1. Watched(e, k)
  BY DEF WriteData
<1>2. Sound(k, c) /\ c.socket = "open" /\ c \in Object
  BY <1>1, SocketFacts DEF Sound
<1>3. PICK written \in 1 .. c.buffered :
        Update(e, k, adjust_rec_window(k, [c EXCEPT !.buffered = @ - written], written), inbox)
  BY DEF WriteData
<1> DEFINE b == [c EXCEPT !.buffered = @ - written]
           x == adjust_rec_window(k, b, written)
<1>4. Sound(k, x.c) /\ Sends(k, c, {}, x)
  BY <1>2, WriteSound
<1>5. Update(e, k, x, inbox)
  BY <1>3
<1>6. /\ b.send_window = c.send_window /\ b.rec_window = c.rec_window /\ b.flags = c.flags
      /\ b.status = c.status
      /\ c.buffered \in Nat /\ written \in Nat
  BY <1>2 DEF Object
<1>7. b \in Object
  <2>1. c.buffered - written \in Nat
    BY <1>6
  <2> QED
    BY <1>2, <2>1 DEF Object
<1>8. CASE c.flags \cap (CloseFlags \cup {"RECEIVED_EOF"}) # {}
  <2>1. x.c = b /\ x.out = <<>>
    BY <1>6, <1>8 DEF adjust_rec_window, Plain
  <2> HIDE DEF x, b
  <2>2. Quiet(c, x)
    BY <1>6, <2>1 DEF Quiet
  <2> QED
    BY <1>1, <1>4, <1>5, <2>2, SocketFlow
<1>9. CASE c.flags \cap (CloseFlags \cup {"RECEIVED_EOF"}) = {}
  <2> DEFINE d == [b EXCEPT !.rec_window = @ + written]
             m == Msg("ADJUST", k, b, written)
  <2>1. x.c = d /\ x.out = <<m>>
    BY <1>6, <1>9 DEF adjust_rec_window
  <2>2. /\ d.send_window = c.send_window /\ d.rec_window = c.rec_window + written
        /\ d.flags = c.flags /\ d.status = c.status
        /\ c.send_window \in Nat /\ c.rec_window \in Nat
    BY <1>2, <1>6, <1>7 DEF Object
  <2>3. m \in Packet /\ m.type = "ADJUST" /\ m.k = k /\ m.size = written
    BY <1>6, <1>7, MsgType
  <2> HIDE DEF x, d, m, b
  <2>4. Size(m, k, {"DATA"}) = 0 /\ Size(m, k, Credits) = written
    BY <2>3 DEF Size, Credits
  <2>5. Out(k, x.out, 0, written)
    BY <2>1, <2>3, <2>4 DEF Out
  <2>6. c.status \in {"live", "dead"}
    BY <1>1, SocketFacts
  <2>7. SenderBooks(c, d, 0, 0)
    BY <2>2, <2>6 DEF SenderBooks, Sending
  <2>8. ReceiverBooks(c, d, 0, written)
    <3>1. d.rec_window + 0 = c.rec_window + written
      BY <1>6, <2>2
    <3>2. Taking(d) => Taking(c)
      BY <2>2 DEF Taking
    <3> QED
      BY <3>1, <3>2 DEF ReceiverBooks
  <2>9. Account(k, c, x, 0, 0)
    BY <2>1, <2>5, <2>7, <2>8 DEF Account
  <2> QED
    BY <1>1, <1>4, <1>5, <2>9, SocketFlow
<1> QED
  BY <1>8, <1>9

(* do_consuming_read and do_channel_write: what is sent is taken from the  *)
(* window.                                                                 *)
LEMMA ReadDataFlow ==
  ASSUME IInv, FlowInv, Typed, NEW e \in Ends, NEW k \in Opens, ReadData(e, k)
  PROVE  FlowInv'
<1> DEFINE c == ch[e][k]
<1>1. Watched(e, k) /\ c.want_read
  BY DEF ReadData
<1>2. Sound(k, c) /\ c.socket = "open" /\ c \in Object /\ c.status \in {"live", "dead"}
  BY <1>1, SocketFacts DEF Sound
<1>3. PICK length \in 1 .. read_data_query(c) :
        Update(e, k, [c |-> [c EXCEPT !.send_window = @ - length],
                      out |-> <<Msg("DATA", k, c, length)>>], inbox)
  BY DEF ReadData
<1> DEFINE d == [c EXCEPT !.send_window = @ - length]
           m == Msg("DATA", k, c, length)
           x == [c |-> d, out |-> <<m>>]
<1>4. Sound(k, x.c) /\ Sends(k, c, {}, x)
  BY <1>1, <1>2, ReadDataSound
<1>5. Update(e, k, x, inbox)
  BY <1>3
<1>6. c.send_window \in Nat /\ c.rec_window \in Nat /\ MaxPacket \in Nat
  BY <1>2, BoundsAssumption DEF Object
<1>7. length \in Nat /\ length <= MaxPacket /\ length <= c.send_window
  <2>1. read_data_query(c) \in {0, Least(MaxPacket, c.send_window)}
    BY DEF read_data_query
  <2>2. /\ Least(MaxPacket, c.send_window) \in Nat /\ Least(MaxPacket, c.send_window) <= MaxPacket
        /\ Least(MaxPacket, c.send_window) <= c.send_window
    BY <1>6, LeastNat
  <2> QED
    BY <1>6, <2>1, <2>2
<1>8. m \in Packet /\ m.type = "DATA" /\ m.k = k /\ m.size = length
  BY <1>2, <1>7, MsgType
<1>9. /\ d.send_window = c.send_window - length /\ d.rec_window = c.rec_window
      /\ d.flags = c.flags /\ d.status = c.status
  BY <1>2 DEF Object
<1>10. x.c = d /\ x.out = <<m>>
  OBVIOUS
<1> HIDE DEF x, d, m
<1>11. Size(m, k, {"DATA"}) = length /\ Size(m, k, Credits) = 0
  BY <1>8 DEF Size, Credits
<1>12. Out(k, x.out, length, 0)
  BY <1>7, <1>8, <1>10, <1>11 DEF Out
<1>13. SenderBooks(c, d, 0, length)
  <2>1. d.send_window + length = c.send_window + 0 /\ c.send_window + 0 <= c.send_window + 0
    BY <1>6, <1>7, <1>9
  <2>2. Sending(d) => Sending(c)
    BY <1>9 DEF Sending
  <2> QED
    BY <1>2, <1>9, <2>1, <2>2 DEF SenderBooks
<1>14. ReceiverBooks(c, d, 0, 0)
  BY <1>6, <1>9 DEF ReceiverBooks, Taking
<1>15. Account(k, c, x, 0, 0)
  BY <1>10, <1>12, <1>13, <1>14 DEF Account
<1> QED
  BY <1>1, <1>4, <1>5, <1>15, SocketFlow

(* The other events of a socket.                                           *)
LEMMA SocketsFlow ==
  ASSUME IInv, FlowInv, Typed, NEW e \in Ends, NEW k \in Opens,
         \/ WriteAfterShutdown(e, k) \/ CloseFlushed(e, k) \/ IoError(e, k)
         \/ ReadBlocked(e, k) \/ ReadEof(e, k)
  PROVE  FlowInv'
<1> DEFINE c == ch[e][k]
<1>1. Watched(e, k)
  BY DEF WriteAfterShutdown, CloseFlushed, IoError, ReadBlocked, ReadEof
<1>2. Sound(k, c) /\ c.socket = "open" /\ c \in Object
  BY <1>1, SocketFacts DEF Sound
<1>3. ASSUME NEW s \in {"closed", "failed"}, Update(e, k, close_fd(k, c, s), inbox)
      PROVE  FlowInv'
  <2> DEFINE x == close_fd(k, c, s)
  <2>1. Sound(k, x.c) /\ Sends(k, c, {}, x) /\ Update(e, k, x, inbox)
    BY <1>2, <1>3, CloseFdSound
  <2>2. Quiet(c, x)
    BY <1>2, CloseFdQuiet
  <2> HIDE DEF x
  <2> QED
    BY <1>1, <2>1, <2>2, SocketFlow
<1>4. CASE WriteAfterShutdown(e, k) \/ CloseFlushed(e, k) \/ IoError(e, k)
  BY <1>3, <1>4 DEF WriteAfterShutdown, CloseFlushed, IoError
<1>5. CASE ReadBlocked(e, k)
  <2> DEFINE d == [c EXCEPT !.want_read = FALSE]
             x == Plain(d)
  <2>1. read_data_query(c) = 0 /\ Update(e, k, x, inbox) /\ c.want_read
    BY <1>5 DEF ReadBlocked
  <2>2. Sound(k, x.c) /\ Sends(k, c, {}, x)
    BY <1>2, <2>1, ReadBlockedSound
  <2>3. d.send_window = c.send_window /\ d.rec_window = c.rec_window /\ x.c = d /\ x.out = <<>>
    BY <1>2 DEF Object, Plain
  <2> HIDE DEF x, d
  <2>4. Quiet(c, x)
    BY <2>3 DEF Quiet
  <2> QED
    BY <1>1, <2>1, <2>2, <2>4, SocketFlow
<1>6. CASE ReadEof(e, k)
  <2> DEFINE d == [c EXCEPT !.want_read = FALSE, !.reading = FALSE]
             x == channel_eof(k, Plain(d))
  <2>1. read_data_query(c) > 0 /\ Update(e, k, x, inbox) /\ c.want_read
    BY <1>6 DEF ReadEof
  <2>2. Sound(k, x.c) /\ Sends(k, c, {}, x)
    BY <1>2, <2>1, ReadEofSound
  <2>3. d \in Object /\ d.send_window = c.send_window /\ d.rec_window = c.rec_window
    BY <1>2 DEF Object
  <2> HIDE DEF d
  <2>4. Quiet(d, x)
    BY <2>3, EofQuiet
  <2>5. Quiet(c, x)
    BY <2>3, <2>4 DEF Quiet
  <2>6. Sound(k, x.c) /\ Sends(k, c, {}, x) /\ Update(e, k, x, inbox)
    BY <2>1, <2>2
  <2> HIDE DEF x
  <2> QED
    BY <1>1, <2>5, <2>6, SocketFlow
<1> QED
  BY <1>4, <1>5, <1>6

-----------------------------------------------------------------------------
(* The packets of an established channel.                                  *)

(* What the first packet carries.                                          *)
LEMMA HeadSize ==
  ASSUME IInv, NEW e \in Ends, inbox[e] # <<>>, NEW m, m = Head(inbox[e])
  PROVE  /\ Has(e, m.k, Rest(e), Size(m, m.k, {"DATA"}), Size(m, m.k, Credits))
         /\ m.size \in Nat
         /\ m.type = "DATA" => Size(m, m.k, {"DATA"}) = m.size /\ Size(m, m.k, Credits) = 0
         /\ m.type \in Credits => Size(m, m.k, {"DATA"}) = 0 /\ Size(m, m.k, Credits) = m.size
         /\ m.type \in {"EOF", "CLOSE", "FAILURE"} =>
              Size(m, m.k, {"DATA"}) = 0 /\ Size(m, m.k, Credits) = 0
<1>1. m.size \in Nat
  BY HeadFacts
<1>2. Has(e, m.k, Rest(e), Size(m, m.k, {"DATA"}), Size(m, m.k, Credits))
  BY DEF Has
<1> QED
  BY <1>1, <1>2 DEF Size, Credits

(* A packet about channel k is dropped.                                    *)
LEMMA IgnoreFlow ==
  ASSUME IInv, FlowInv, Typed, NEW e \in Ends, NEW k \in Opens, NEW inD, NEW inC,
         Has(e, k, Rest(e), inD, inC), Ignore(e),
         SenderBooks(ch[e][k], ch[e][k], inC, 0), ReceiverBooks(ch[e][k], ch[e][k], inD, 0)
  PROVE  FlowInv'
<1>1. ch \in [Ends -> [Opens -> Object]]
  BY DEF IInv, TypeOK
<1>2. ch' = [ch EXCEPT ![e] = [ch[e] EXCEPT ![k] = ch[e][k]]] /\ inbox' = Rest(e)
  BY <1>1 DEF Ignore
<1>3. Moved(e, k, inD, inC, 0, 0)
  BY <1>2, MovedRest
<1>4. ch[e][k] \in Object
  BY <1>1
<1> QED
  BY <1>2, <1>3, <1>4, StepFlow DEF Typed

(* window_adjust_handler: credit is added, unless the sender has ended.    *)
LEMMA AdjustFlow ==
  ASSUME IInv, FlowInv, Typed, NEW e \in Ends, window_adjust_handler(e)
  PROVE  FlowInv'
<1> DEFINE m == Head(inbox[e])
           k == m.k
           c == ch[e][k]
<1>1. ~finished[e] /\ inbox[e] # <<>> /\ m.type = "ADJUST" /\ m.type \in DataTypes
  BY DEF window_adjust_handler, Reads, DataTypes
<1>2. /\ k \in Opens /\ m.size \in Nat /\ lookup_channel(e, m.to) = k /\ c.status = "live"
      /\ "RECEIVED_CLOSE" \notin c.flags
  BY <1>1, HeadFacts
<1>3. k # NoChannel
  BY <1>2, OpensAssumption
<1>4. \/ Ignore(e) /\ c.flags \cap {"SENT_CLOSE", "SENT_EOF"} # {}
      \/ /\ c.flags \cap {"SENT_CLOSE", "SENT_EOF"} = {}
         /\ Update(e, k, Plain([c EXCEPT !.send_window = @ + m.size, !.want_read = TRUE]), Rest(e))
  BY <1>2, <1>3 DEF window_adjust_handler
<1>5. Has(e, k, Rest(e), 0, m.size)
  BY <1>1, HeadSize DEF Credits
<1>6. Sound(k, c) /\ c \in Object
  BY <1>2, EndFacts
<1>7. c.send_window \in Nat /\ c.rec_window \in Nat
  BY <1>6 DEF Object
<1>8. CASE Ignore(e) /\ c.flags \cap {"SENT_CLOSE", "SENT_EOF"} # {}
  <2>1. c.send_window + 0 <= c.send_window + m.size
    BY <1>2, <1>7
  <2>2. ~Sending(c)
    BY <1>8 DEF Sending
  <2>3. SenderBooks(c, c, m.size, 0)
    BY <1>2, <2>1, <2>2 DEF SenderBooks
  <2>4. ReceiverBooks(c, c, 0, 0)
    BY DEF ReceiverBooks
  <2> QED
    BY <1>2, <1>5, <1>8, <2>3, <2>4, IgnoreFlow
<1>9. ASSUME c.flags \cap {"SENT_CLOSE", "SENT_EOF"} = {},
             NEW d, d = [c EXCEPT !.send_window = @ + m.size, !.want_read = TRUE],
             NEW x, x = Plain(d), Update(e, k, x, Rest(e))
      PROVE  FlowInv'
  <2>1. Sound(k, x.c) /\ x.c = d /\ x.out = <<>>
    BY <1>2, <1>6, <1>9, AdjustSound DEF Plain
  <2>2. /\ d.send_window = c.send_window + m.size /\ d.rec_window = c.rec_window
        /\ d.flags = c.flags /\ d.status = c.status
    BY <1>6, <1>9 DEF Object
  <2>3. SenderBooks(c, d, m.size, 0)
    <3>1. d.send_window + 0 = c.send_window + m.size /\ c.send_window + m.size <= c.send_window + m.size
      BY <1>2, <1>7, <2>2
    <3>2. Sending(d) => Sending(c)
      BY <2>2 DEF Sending
    <3> QED
      BY <1>2, <2>2, <3>1, <3>2 DEF SenderBooks
  <2>4. ReceiverBooks(c, d, 0, 0)
    BY <1>7, <2>2 DEF ReceiverBooks, Taking
  <2>5. Out(k, x.out, 0, 0)
    BY <2>1 DEF Out
  <2>6. Account(k, c, x, 0, m.size)
    BY <2>1, <2>3, <2>4, <2>5 DEF Account
  <2>7. x.c \in Object
    BY <2>1 DEF Sound
  <2> QED
    BY <1>1, <1>2, <1>5, <1>9, <2>6, <2>7, UpdateFlow DEF Typed
<1> QED
  BY <1>4, <1>8, <1>9

(* channel_eof_handler                                                     *)
LEMMA EofFlow ==
  ASSUME IInv, FlowInv, Typed, NEW e \in Ends, channel_eof_handler(e)
  PROVE  FlowInv'
<1> DEFINE m == Head(inbox[e])
           k == m.k
           c == ch[e][k]
           s == c.shut \/ c.socket = "open"
           d == [c EXCEPT !.flags = @ \cup {"RECEIVED_EOF"}, !.shut = @ \/ c.socket = "open"]
           x == IF "SENT_EOF" \in c.flags THEN channel_close(k, Plain(d)) ELSE Plain(d)
<1>1. ~finished[e] /\ inbox[e] # <<>> /\ m.type = "EOF" /\ m.type \in DataTypes
  BY DEF channel_eof_handler, Reads, DataTypes
<1>2. /\ k \in Opens /\ lookup_channel(e, m.to) = k /\ c.status = "live"
      /\ "RECEIVED_CLOSE" \notin c.flags /\ "RECEIVED_EOF" \notin c.flags
  BY <1>1, HeadFacts
<1>3. k # NoChannel
  BY <1>2, OpensAssumption
<1>4. Update(e, k, x, Rest(e))
  BY <1>2, <1>3 DEF channel_eof_handler
<1>5. Sound(k, c) /\ c \in Object
  BY <1>2, EndFacts
<1>6. Sound(k, x.c) /\ Sends(k, c, {"RECEIVED_EOF"}, x)
  BY <1>2, <1>5, EofHandlerSound
<1>7. Has(e, k, Rest(e), 0, 0)
  BY <1>1, HeadSize
<1>8. d = Gets(c, "RECEIVED_EOF", s) /\ s \in BOOLEAN
  BY DEF Gets
<1>9. Plain(d) = [c |-> d, out |-> <<>>]
  BY DEF Plain
<1>10. x = IF "SENT_EOF" \in c.flags THEN channel_close(k, Plain(d)) ELSE Plain(d)
  OBVIOUS
<1> HIDE DEF d, s, x
<1>11. d \in Object /\ d.send_window = c.send_window /\ d.rec_window = c.rec_window
  BY <1>5, <1>8 DEF Object, Flags, Gets
<1>12. Quiet(d, x)
  <2>1. CASE "SENT_EOF" \in c.flags
    <3> DEFINE out == <<>>
    <3>1. out \in Seq(Packet) /\ \A i \in 1 .. Len(out) : out[i].type \notin {"DATA", "ADJUST"}
      OBVIOUS
    <3>2. x = channel_close(k, [c |-> d, out |-> out])
      BY <1>9, <1>10, <2>1
    <3> HIDE DEF out
    <3> QED
      BY <1>2, <1>11, <3>1, <3>2, CloseQuiet
  <2>2. CASE "SENT_EOF" \notin c.flags
    <3>1. x.c = d /\ x.out = <<>>
      BY <1>9, <1>10, <2>2
    <3> QED
      BY <3>1 DEF Quiet
  <2> QED
    BY <2>1, <2>2
<1>13. Quiet(c, x)
  BY <1>11, <1>12 DEF Quiet
<1>14. x.c \in Object
  BY <1>6 DEF Sound
<1>15. Account(k, c, x, 0, 0)
  BY <1>2, <1>5, <1>6, <1>13, <1>14, QuietAccount
<1> QED
  BY <1>1, <1>2, <1>4, <1>7, <1>14, <1>15, UpdateFlow DEF Typed

(* channel_close_handler                                                   *)
LEMMA CloseFlow ==
  ASSUME IInv, FlowInv, Typed, NEW e \in Ends, channel_close_handler(e)
  PROVE  FlowInv'
<1> DEFINE m == Head(inbox[e])
           k == m.k
           c == ch[e][k]
           d == [c EXCEPT !.flags = @ \cup {"RECEIVED_CLOSE"}]
           x == IF "SENT_CLOSE" \in c.flags THEN Plain(Finish(d)) ELSE channel_close(k, Plain(d))
<1>1. ~finished[e] /\ inbox[e] # <<>> /\ m.type = "CLOSE" /\ m.type \in DataTypes
  BY DEF channel_close_handler, Reads, DataTypes
<1>2. /\ k \in Opens /\ lookup_channel(e, m.to) = k /\ c.status = "live"
      /\ "RECEIVED_CLOSE" \notin c.flags
  BY <1>1, HeadFacts
<1>3. k # NoChannel
  BY <1>2, OpensAssumption
<1>4. Update(e, k, x, Rest(e))
  BY <1>2, <1>3 DEF channel_close_handler
<1>5. Sound(k, c) /\ c \in Object
  BY <1>2, EndFacts
<1>6. Sound(k, x.c) /\ Sends(k, c, {"RECEIVED_CLOSE"}, x)
  <2>1. d = [c EXCEPT !.flags = @ \cup {"RECEIVED_CLOSE"}]
    OBVIOUS
  <2>2. x = IF "SENT_CLOSE" \in c.flags THEN Plain(Finish(d)) ELSE channel_close(k, Plain(d))
    OBVIOUS
  <2> HIDE DEF k, c, d, x
  <2> QED
    BY <1>2, <1>5, <2>1, <2>2, CloseHandlerSound
<1>7. Has(e, k, Rest(e), 0, 0)
  BY <1>1, HeadSize
<1>8. d \in Object /\ d.send_window = c.send_window /\ d.rec_window = c.rec_window
  BY <1>5 DEF Object, Flags, CloseFlags
<1>9. /\ Plain(d) = [c |-> d, out |-> <<>>]
      /\ Plain(Finish(d)).c = Finish(d) /\ Plain(Finish(d)).out = <<>>
  BY DEF Plain
<1>10. x = IF "SENT_CLOSE" \in c.flags THEN Plain(Finish(d)) ELSE channel_close(k, Plain(d))
  OBVIOUS
<1> HIDE DEF d, x
<1>11. Quiet(d, x)
  <2>1. CASE "SENT_CLOSE" \notin c.flags
    <3> DEFINE out == <<>>
    <3>1. out \in Seq(Packet) /\ \A i \in 1 .. Len(out) : out[i].type \notin {"DATA", "ADJUST"}
      OBVIOUS
    <3>2. x = channel_close(k, [c |-> d, out |-> out])
      BY <1>9, <1>10, <2>1
    <3> HIDE DEF out
    <3> QED
      BY <1>2, <1>8, <3>1, <3>2, CloseQuiet
  <2>2. CASE "SENT_CLOSE" \in c.flags
    <3>1. x.c = Finish(d) /\ x.out = <<>>
      BY <1>9, <1>10, <2>2
    <3>2. Finish(d).status = "dead" /\ Finish(d).send_window = 0
      BY <1>8 DEF Finish, Object
    <3> QED
      BY <3>1, <3>2 DEF Quiet
  <2> QED
    BY <2>1, <2>2
<1>12. Quiet(c, x)
  BY <1>8, <1>11 DEF Quiet
<1>13. x.c \in Object
  BY <1>6 DEF Sound
<1>14. Account(k, c, x, 0, 0)
  BY <1>2, <1>5, <1>6, <1>12, <1>13, QuietAccount
<1> QED
  BY <1>1, <1>2, <1>4, <1>7, <1>13, <1>14, UpdateFlow DEF Typed

(* Data that is taken is taken from the window; the window that opens when *)
(* the cookie of an X11 channel is complete is reported.                   *)
LEMMA DataAccount ==
  ASSUME NEW k \in Opens, NEW c, Sound(k, c), c.status = "live",
         c.flags \cap (CloseFlags \cup {"RECEIVED_EOF"}) = {},
         NEW length \in 1 .. c.rec_window,
         NEW x \in Received(k, [c EXCEPT !.rec_window = @ - length], length)
  PROVE  Account(k, c, x, length, 0)
<1> DEFINE d == [c EXCEPT !.rec_window = @ - length]
           b == Buffer([d EXCEPT !.cookie = FALSE], Setup)
<1>0. c \in Object /\ c.rec_window \in Nat /\ c.send_window \in Nat /\ length \in Nat
  BY DEF Sound, Object
<1>1. /\ Sound(k, d) /\ d.status = "live" /\ d.flags = c.flags
      /\ d.local = c.local /\ d.remote = c.remote /\ d.cookie = c.cookie
      /\ length \in Nat /\ d.rec_window \in Nat /\ d.buffered \in Nat
      /\ d.rec_window + d.buffered + length <= Window[k]
  BY TakenSound
<1>2. x \in Received(k, d, length) /\ Sound(k, x.c) /\ Sends(k, c, {}, x)
  BY DataSound
<1>3. d \in Object /\ d.rec_window = c.rec_window - length /\ d.send_window = c.send_window
  BY <1>0, <1>1 DEF Object
<1>4. Taking(c)
  BY DEF Taking
<1> HIDE DEF d
<1>5. ASSUME NEW g, g.status = "live", g.flags = c.flags, g.send_window = c.send_window,
             NEW w \in Nat, g.rec_window = d.rec_window + w
      PROVE  SenderBooks(c, g, 0, 0) /\ ReceiverBooks(c, g, length, w)
  <2>1. g.send_window + 0 = c.send_window + 0 /\ g.send_window + 0 <= c.send_window + 0
    BY <1>0, <1>5
  <2>2. Sending(g) => Sending(c)
    BY <1>5 DEF Sending
  <2>3. SenderBooks(c, g, 0, 0)
    BY <1>5, <2>1, <2>2 DEF SenderBooks
  <2>4. g.rec_window + length = c.rec_window + w
    BY <1>0, <1>1, <1>3, <1>5
  <2> QED
    BY <1>4, <2>3, <2>4 DEF ReceiverBooks
<1>6. ASSUME NEW g, g.status = "live", g.flags = c.flags, g.send_window = c.send_window,
             g.rec_window = d.rec_window, x.c = g, x.out = <<>>
      PROVE  Account(k, c, x, length, 0)
  <2>1. g.rec_window = d.rec_window + 0
    BY <1>1, <1>6
  <2>2. SenderBooks(c, g, 0, 0) /\ ReceiverBooks(c, g, length, 0)
    BY <1>5, <1>6, <2>1
  <2>3. Out(k, x.out, 0, 0)
    BY <1>6 DEF Out
  <2> QED
    BY <1>6, <2>2, <2>3 DEF Account
<1>7. ASSUME NEW h \in Object, NEW amount, NEW g, g = Buffer(h, amount)
      PROVE  /\ g.status = h.status /\ g.flags = h.flags /\ g.send_window = h.send_window
             /\ g.rec_window = h.rec_window
  BY <1>7 DEF Buffer, Object
<1>8. CASE ~d.cookie
  <2> DEFINE g == Buffer(d, length)
  <2>1. x.c = g /\ x.out = <<>>
    BY <1>2, <1>8 DEF Received, Plain
  <2>2. /\ g.status = d.status /\ g.flags = d.flags /\ g.send_window = d.send_window
        /\ g.rec_window = d.rec_window
    BY <1>3, <1>7
  <2> HIDE DEF g
  <2> QED
    BY <1>1, <1>3, <1>6, <2>1, <2>2
<1>9. CASE x = Plain(d)
  <2>1. x.c = d /\ x.out = <<>>
    BY <1>9 DEF Plain
  <2> QED
    BY <1>1, <1>3, <1>6, <2>1
<1>10. CASE d.cookie /\ ~(d.rec_window > 0) /\ x = channel_start_receive(k, b, Window[k] - Setup)
  <2> DEFINE f == [d EXCEPT !.cookie = FALSE]
             w == Window[k] - Setup
             g == [b EXCEPT !.rec_window = w]
             m == Msg("ADJUST", k, b, w)
  <2>1. d.buffered = 0 /\ k \in X11 /\ d.rec_window = 0
    BY <1>1, <1>10 DEF Sound, Bounded
  <2>2. Window[k] \in Nat /\ Setup \in Nat /\ Window[k] > Setup
    BY <2>1, WindowAssumption, X11Assumption
  <2>3. w \in Nat /\ 0 < w /\ w - 0 = w /\ w = 0 + w
    BY <2>2
  <2>4. d.rec_window + d.buffered + Setup <= Window[k]
    BY <2>1, <2>2
  <2>5. Sound(k, b)
    BY <1>1, <2>1, <2>2, <2>4, BufferSound
  <2>6. /\ f \in Object /\ f.status = d.status /\ f.flags = d.flags
        /\ f.send_window = d.send_window /\ f.rec_window = d.rec_window
    BY <1>3 DEF Object
  <2>7. /\ b.status = f.status /\ b.flags = f.flags /\ b.send_window = f.send_window
        /\ b.rec_window = f.rec_window
    <3> HIDE DEF f
    <3>1. b = Buffer(f, Setup)
      BY DEF f
    <3> HIDE DEF b
    <3> QED
      BY <1>7, <2>6, <3>1
  <2> HIDE DEF f, w, b
  <2>8. x = [c |-> g, out |-> <<m>>]
    <3>1. b.rec_window = 0
      BY <2>1, <2>6, <2>7
    <3> QED
      BY <1>10, <2>3, <3>1 DEF channel_start_receive, w
  <2>9. b \in Object
    BY <2>5 DEF Sound
  <2>10. /\ g.status = b.status /\ g.flags = b.flags /\ g.send_window = b.send_window
         /\ g.rec_window = w
    BY <2>9 DEF Object
  <2>11. m \in Packet /\ m.type = "ADJUST" /\ m.k = k /\ m.size = w
    BY <2>3, <2>9, MsgType
  <2> HIDE DEF g, m
  <2>12. x.c = g /\ x.out = <<m>>
    BY <2>8
  <2>13. Size(m, k, {"DATA"}) = 0 /\ Size(m, k, Credits) = w
    BY <2>11 DEF Size, Credits
  <2>14. Out(k, x.out, 0, w)
    BY <2>11, <2>12, <2>13 DEF Out
  <2>15. g.rec_window = d.rec_window + w
    BY <2>1, <2>3, <2>10
  <2>16. SenderBooks(c, g, 0, 0) /\ ReceiverBooks(c, g, length, w)
    BY <1>1, <1>3, <1>5, <2>3, <2>6, <2>7, <2>10, <2>15
  <2> QED
    BY <2>12, <2>14, <2>16 DEF Account
<1>11. CASE x = channel_close(k, Plain(d))
  <2> DEFINE out == <<>>
  <2>1. out \in Seq(Packet) /\ \A i \in 1 .. Len(out) : out[i].type \notin {"DATA", "ADJUST"}
    OBVIOUS
  <2>2. x = channel_close(k, [c |-> d, out |-> out])
    BY <1>11 DEF Plain
  <2> HIDE DEF out
  <2>3. Quiet(d, x) /\ "SENT_CLOSE" \in x.c.flags
    BY <1>3, <2>1, <2>2, CloseQuiet
  <2>4. ~Taking(x.c)
    BY <2>3 DEF Taking, CloseFlags
  <2>5. x.c \in Object
    BY <1>2 DEF Sound
  <2>6. Sends(k, d, {}, x)
    BY <1>1, <1>2 DEF Sends, Carries
  <2>7. Account(k, d, x, length, 0)
    BY <1>0, <1>1, <1>3, <2>3, <2>4, <2>5, <2>6, QuietAccount
  <2>8. PICK outD, outC : Out(k, x.out, outD, outC) /\ SenderBooks(d, x.c, 0, outD)
    BY <2>7 DEF Account
  <2>9. SenderBooks(c, x.c, 0, outD)
    BY <1>1, <1>3, <2>8 DEF SenderBooks, Sending
  <2>10. ReceiverBooks(c, x.c, length, outC)
    BY <2>4 DEF ReceiverBooks
  <2> QED
    BY <2>8, <2>9, <2>10 DEF Account
<1> QED
  BY <1>2, <1>8, <1>9, <1>10, <1>11 DEF Received

(* channel_data_handler: the data always fits, so that none is cut off.    *)
LEMMA DataFlow ==
  ASSUME IInv, FlowInv, Typed, NEW e \in Ends, channel_data_handler(e)
  PROVE  FlowInv'
<1> DEFINE m == Head(inbox[e])
           k == m.k
           c == ch[e][k]
           length == Least(Least(m.size, MaxPacket), c.rec_window)
<1>1. ~finished[e] /\ inbox[e] # <<>> /\ m.type = "DATA" /\ m.type \in DataTypes
  BY DEF channel_data_handler, Reads, DataTypes
<1>2. /\ k \in Opens /\ m.size \in Nat /\ lookup_channel(e, m.to) = k /\ c.status = "live"
  BY <1>1, HeadFacts
<1>3. k # NoChannel
  BY <1>2, OpensAssumption
<1>4. \/ Ignore(e) /\ (c.flags \cap (CloseFlags \cup {"RECEIVED_EOF"}) # {} \/ length = 0)
      \/ /\ c.flags \cap (CloseFlags \cup {"RECEIVED_EOF"}) = {} /\ length # 0
         /\ \E x \in Received(k, [c EXCEPT !.rec_window = @ - length], length) :
              Update(e, k, x, Rest(e))
  BY <1>2, <1>3 DEF channel_data_handler
<1>5. Sound(k, c) /\ c \in Object /\ c.rec_window \in Nat /\ c.send_window \in Nat
  BY <1>2, EndFacts DEF Object
<1>6. Has(e, k, Rest(e), m.size, 0)
  BY <1>1, HeadSize
<1>7. m.size <= MaxPacket
  <2>1. inbox[e] \in Seq(Packet) /\ Small(inbox[e])
    BY DEF IInv, TypeOK, FlowInv
  <2>2. m = inbox[e][1] /\ 1 \in 1 .. Len(inbox[e])
    BY <1>1, <2>1, TailOf
  <2> QED
    BY <1>1, <2>1, <2>2 DEF Small
<1>8. Taking(c) => m.size <= c.rec_window
  <2> DEFINE q == ch[Peer(e)][k]
             a == Sizes(inbox[e], k, {"DATA"})
             r == Sizes(Tail(inbox[e]), k, {"DATA"})
             b == Sizes(inbox[Peer(e)], k, Credits)
  <2>1. /\ inbox[e] \in Seq(Packet) /\ inbox[Peer(e)] \in Seq(Packet) /\ q \in Object
    BY <1>2, EndFacts DEF Sound
  <2>2. a = Size(m, k, {"DATA"}) + r
    BY <1>1, <2>1, SizesTail
  <2>3. a \in Nat /\ r \in Nat /\ b \in Nat
    <3>1. Tail(inbox[e]) \in Seq(Packet)
      BY <1>1, <2>1, TailOf
    <3> QED
      BY <2>1, <3>1, SizesNat
  <2>4. Size(m, k, {"DATA"}) = m.size
    BY <1>1, HeadSize
  <2>5. Flow(k, q, c, inbox[e], inbox[Peer(e)])
    BY <1>2 DEF FlowInv
  <2>6. Taking(c) => q.send_window + a + b <= c.rec_window
    BY <2>5 DEF Flow, Total
  <2>7. q.send_window \in Nat
    BY <2>1 DEF Object
  <2> DEFINE s == q.send_window
             w == c.rec_window
             z == m.size
  <2>8. a = z + r /\ z \in Nat /\ s \in Nat /\ w \in Nat /\ (Taking(c) => s + a + b <= w)
    BY <1>2, <1>5, <2>2, <2>4, <2>6, <2>7
  <2> HIDE DEF a, r, b, s, w, z
  <2>9. Taking(c) => z <= w
    BY <2>3, <2>8
  <2> QED
    BY <2>9 DEF z, w
<1>9. Taking(c) => length = m.size
  <2> DEFINE z == m.size
             w == c.rec_window
  <2>1. z \in Nat /\ w \in Nat /\ z <= MaxPacket /\ (Taking(c) => z <= w)
    BY <1>2, <1>5, <1>7, <1>8, Zenon
  <2>2. length = Least(Least(z, MaxPacket), w)
    BY Zenon
  <2> HIDE DEF z, w, c, length
  <2>3. Taking(c) => length = z
    BY <2>1, <2>2, BoundsAssumption DEF Least
  <2> QED
    BY <2>3, Zenon DEF z
<1>10. length \in Nat /\ length <= c.rec_window
  BY <1>2, <1>5, BoundsAssumption, LeastNat
<1> HIDE DEF length
<1>11. CASE Ignore(e) /\ (c.flags \cap (CloseFlags \cup {"RECEIVED_EOF"}) # {} \/ length = 0)
  <2>1. Taking(c) => m.size = 0
    BY <1>9, <1>11 DEF Taking
  <2>2. ReceiverBooks(c, c, m.size, 0)
    BY <2>1 DEF ReceiverBooks
  <2>3. SenderBooks(c, c, 0, 0)
    <3>1. c.send_window + 0 <= c.send_window + 0
      BY <1>5
    <3> QED
      BY <1>2, <3>1 DEF SenderBooks
  <2> QED
    BY <1>2, <1>6, <1>11, <2>2, <2>3, IgnoreFlow
<1>12. ASSUME c.flags \cap (CloseFlags \cup {"RECEIVED_EOF"}) = {}, length # 0,
              NEW x \in Received(k, [c EXCEPT !.rec_window = @ - length], length),
              Update(e, k, x, Rest(e))
       PROVE  FlowInv'
  <2>1. length \in 1 .. c.rec_window
    <3> DEFINE w == c.rec_window
    <3>1. w \in Nat /\ length \in Nat /\ length <= w /\ length # 0
      BY <1>5, <1>10, <1>12, Zenon
    <3> HIDE DEF w, c
    <3>2. length \in 1 .. w
      BY <3>1
    <3> QED
      BY <3>2, Zenon DEF w
  <2>2. Sound(k, x.c) /\ Account(k, c, x, length, 0)
    BY <1>2, <1>5, <1>12, <2>1, DataSound, DataAccount
  <2>3. x.c \in Object
    BY <2>2 DEF Sound
  <2>4. length = m.size
    BY <1>2, <1>9, <1>12 DEF Taking
  <2>5. Account(k, c, x, m.size, 0)
    BY <2>2, <2>4
  <2> QED
    BY <1>1, <1>2, <1>6, <1>12, <2>3, <2>5, UpdateFlow DEF Typed
<1> QED
  BY <1>4, <1>11, <1>12

-----------------------------------------------------------------------------
(* The steps before a channel is established.                              *)

(* The objects of channel k and the queues before the step.                *)
LEMMA FlowFacts ==
  ASSUME IInv, FlowInv, NEW e \in Ends, NEW k \in Opens
  PROVE  /\ ch[e][k].status \in {"none", "opening"} => ch[e][k].send_window = 0
         /\ ch[e][k] \in Object /\ ch[e][k].send_window \in Nat /\ ch[e][k].rec_window \in Nat
         /\ inbox[e] \in Seq(Packet) /\ inbox[Peer(e)] \in Seq(Packet)
         /\ Link(k, inbox[e], ch[Peer(e)][k], ch[e][k], Opener[k] = Peer(e))
         /\ Link(k, inbox[Peer(e)], ch[e][k], ch[Peer(e)][k], Opener[k] = e)
<1>1. /\ ch[e][k] \in Object
      /\ inbox[e] \in Seq(Packet) /\ inbox[Peer(e)] \in Seq(Packet)
      /\ Link(k, inbox[e], ch[Peer(e)][k], ch[e][k], Opener[k] = Peer(e))
      /\ Link(k, inbox[Peer(e)], ch[e][k], ch[Peer(e)][k], Opener[k] = e)
  BY EndFacts
<1>2. ch[e][k].send_window \in Nat /\ ch[e][k].rec_window \in Nat
  BY <1>1 DEF Object
<1>3. Peer(e) \in Ends /\ Peer(Peer(e)) = e
  BY PeerFacts
<1>4. Flow(k, ch[Peer(Peer(e))][k], ch[Peer(e)][k], inbox[Peer(e)], inbox[Peer(Peer(e))])
  BY <1>3 DEF FlowInv
<1>5. Flow(k, ch[e][k], ch[Peer(e)][k], inbox[Peer(e)], inbox[e])
  BY <1>3, <1>4
<1>6. ch[e][k].status \in {"none", "opening"} => ch[e][k].send_window = 0
  BY <1>5 DEF Flow
<1> QED
  BY <1>1, <1>2, <1>6

(* A packet that opens, accepts or refuses channel k is sent.              *)
LEMMA OneOut ==
  ASSUME NEW k, NEW m \in Packet, m.k = k, m.type \in {"OPEN", "CONFIRM", "FAILURE"}
  PROVE  Out(k, <<m>>, 0, IF m.type = "FAILURE" THEN 0 ELSE m.size)
<1>1. Size(m, k, {"DATA"}) = 0 /\ Size(m, k, Credits) = IF m.type = "FAILURE" THEN 0 ELSE m.size
  BY DEF Size, Credits
<1> QED
  BY <1>1 DEF Out

(* do_channel_open_command: OPEN carries the first credit.                 *)
LEMMA OpenCommandFlow ==
  ASSUME IInv, FlowInv, Typed, NEW e \in Ends, NEW k \in Opens, OpenCommand(e, k)
  PROVE  FlowInv'
<1> DEFINE c == ch[e][k]
           p == Peer(e)
<1>1. PICK n \in Numbers :
        /\ ch' = [ch EXCEPT ![e][k] = [c EXCEPT !.status = "opening", !.local = n]]
        /\ inbox' = Send(e, <<Msg("OPEN", k, [c EXCEPT !.status = "opening", !.local = n],
                                  [c EXCEPT !.status = "opening", !.local = n].rec_window)>>, inbox)
  BY DEF OpenCommand
<1>2. Opener[k] = e /\ c.status = "none" /\ ~finished[e]
  BY DEF OpenCommand
<1> DEFINE d == [c EXCEPT !.status = "opening", !.local = n]
           m == Msg("OPEN", k, d, d.rec_window)
<1>3. /\ c.send_window = 0 /\ c \in Object /\ c.rec_window \in Nat
      /\ inbox[e] \in Seq(Packet) /\ inbox[p] \in Seq(Packet)
      /\ Link(k, inbox[e], ch[p][k], c, Opener[k] = p) /\ Link(k, inbox[p], c, ch[p][k], Opener[k] = e)
  BY <1>2, FlowFacts
<1>4. ch[p][k].status = "none"
  BY <1>2, EndFacts DEF Pair
<1>5. /\ d \in Object /\ d.status = "opening" /\ d.flags = c.flags
      /\ d.send_window = c.send_window /\ d.rec_window = c.rec_window
  BY <1>3 DEF Object
<1>6. /\ ch' = [ch EXCEPT ![e] = [ch[e] EXCEPT ![k] = d]]
      /\ inbox' = Send(e, <<m>>, inbox)
  BY <1>1
<1> HIDE DEF d
<1>7. m \in Packet /\ m.type = "OPEN" /\ m.k = k /\ m.size = d.rec_window
  BY <1>3, <1>5, MsgType
<1> HIDE DEF m
<1>8. Out(k, <<m>>, 0, d.rec_window)
  BY <1>7, OneOut
<1>9. Has(e, k, inbox, 0, 0)
  BY DEF Has
<1>10. Moved(e, k, 0, 0, 0, d.rec_window)
  BY <1>2, <1>6, <1>8, <1>9, MovedBy
<1>11. SenderBooks(c, d, 0, 0)
  BY <1>2, <1>3, <1>5 DEF SenderBooks, Sending
<1>12. Of(k, inbox[e]) = {} /\ Of(k, inbox[p]) = {}
  <2> HIDE DEF c, p
  <2> QED
    BY <1>2, <1>3, <1>4, LinkNone
<1>13. Begins(e, k)
  BY <1>4, <1>12 DEF Begins
<1> QED
  BY <1>5, <1>6, <1>10, <1>11, <1>13, StepFlow DEF Typed

(* do_channel_open_continue: CONFIRM carries the first credit.             *)
LEMMA OpenContinueFlow ==
  ASSUME IInv, FlowInv, Typed, NEW e \in Ends, NEW k \in Opens, OpenContinue(e, k)
  PROVE  FlowInv'
<1> DEFINE c == ch[e][k]
           p == Peer(e)
           d == [start_io(c) EXCEPT !.status = "live"]
           m == Msg("CONFIRM", k, d, d.rec_window)
<1>1. /\ c.status = "asked" /\ ~finished[e]
      /\ ch' = [ch EXCEPT ![e] = [ch[e] EXCEPT ![k] = d]]
      /\ inbox' = Send(e, <<m>>, inbox)
  BY DEF OpenContinue
<1>2. /\ c \in Object /\ c.rec_window \in Nat /\ c.send_window \in Nat
      /\ inbox[e] \in Seq(Packet) /\ inbox[p] \in Seq(Packet)
      /\ Link(k, inbox[e], ch[p][k], c, Opener[k] = p) /\ Link(k, inbox[p], c, ch[p][k], Opener[k] = e)
  BY FlowFacts
<1>3. ch[p][k].status = "opening"
  BY <1>1, EndFacts DEF Pair
<1>4. /\ d \in Object /\ d.status = "live" /\ d.flags = c.flags
      /\ d.send_window = c.send_window /\ d.rec_window = c.rec_window
  BY <1>2 DEF start_io, Object
<1> HIDE DEF d
<1>5. m \in Packet /\ m.type = "CONFIRM" /\ m.k = k /\ m.size = d.rec_window
  BY <1>2, <1>4, MsgType
<1> HIDE DEF m
<1>6. Out(k, <<m>>, 0, d.rec_window)
  BY <1>5, OneOut
<1>7. Has(e, k, inbox, 0, 0)
  BY DEF Has
<1>8. Moved(e, k, 0, 0, 0, d.rec_window)
  BY <1>1, <1>6, <1>7, MovedBy
<1>9. SenderBooks(c, d, 0, 0)
  BY <1>1, <1>2, <1>4 DEF SenderBooks, Sending
<1>10. Of(k, inbox[e]) = {} /\ Of(k, inbox[p]) = {}
  <2> HIDE DEF c, p
  <2> QED
    BY <1>1, <1>2, LinkNone
<1>11. Begins(e, k)
  BY <1>3, <1>10 DEF Begins
<1> QED
  BY <1>1, <1>4, <1>8, <1>9, <1>11, StepFlow DEF Typed

(* do_exc_channel_open_handler                                             *)
LEMMA OpenRefusedFlow ==
  ASSUME IInv, FlowInv, Typed, NEW e \in Ends, NEW k \in Opens, OpenRefused(e, k)
  PROVE  FlowInv'
<1> DEFINE c == ch[e][k]
           d == [c EXCEPT !.status = "dead"]
           m == Msg("FAILURE", k, c, 0)
<1>1. /\ c.status = "asked" /\ ~finished[e]
      /\ ch' = [ch EXCEPT ![e] = [ch[e] EXCEPT ![k] = d]]
      /\ inbox' = Send(e, <<m>>, inbox)
  BY DEF OpenRefused
<1>2. c \in Object /\ c.send_window \in Nat
  BY FlowFacts
<1>3. /\ d \in Object /\ d.status = "dead" /\ d.send_window = c.send_window
  BY <1>2 DEF Object
<1>4. m \in Packet /\ m.type = "FAILURE" /\ m.k = k
  BY <1>2, MsgType
<1> HIDE DEF d, m
<1>5. Out(k, <<m>>, 0, 0)
  BY <1>4, OneOut
<1>6. Has(e, k, inbox, 0, 0)
  BY DEF Has
<1>7. Moved(e, k, 0, 0, 0, 0)
  BY <1>1, <1>5, <1>6, MovedBy
<1>8. SenderBooks(c, d, 0, 0)
  BY <1>2, <1>3 DEF SenderBooks, Sending
<1>9. ReceiverBooks(c, d, 0, 0)
  BY <1>3 DEF ReceiverBooks, Taking
<1> QED
  BY <1>1, <1>3, <1>7, <1>8, <1>9, StepFlow DEF Typed

(* channel_open_handler: the credit of OPEN becomes the window.            *)
LEMMA OpenHandlerFlow ==
  ASSUME IInv, FlowInv, Typed, NEW e \in Ends, channel_open_handler(e)
  PROVE  FlowInv'
<1> DEFINE m == Head(inbox[e])
           k == m.k
           c == ch[e][k]
<1>1. ~finished[e] /\ inbox[e] # <<>> /\ m.type = "OPEN"
  BY DEF channel_open_handler, Reads
<1>2. /\ m \in Packet /\ k \in Opens /\ m.size \in Nat /\ m.from \in Numbers
      /\ c.status = "none"
  BY <1>1, HeadFacts
<1>3. c.send_window = 0 /\ c \in Object
  BY <1>2, FlowFacts
<1>4. Has(e, k, Rest(e), 0, m.size)
  BY <1>1, HeadSize DEF Credits
<1>5. CASE pending[e]
  <2> DEFINE d == [c EXCEPT !.status = "dead"]
             r == [m EXCEPT !.type = "FAILURE", !.to = m.from, !.size = 0]
  <2>1. /\ ch' = [ch EXCEPT ![e] = [ch[e] EXCEPT ![k] = d]]
        /\ inbox' = Send(e, <<r>>, Rest(e))
    BY <1>5 DEF channel_open_handler
  <2>2. r \in Packet /\ r.type = "FAILURE" /\ r.k = k
    BY <1>2 DEF Packet
  <2>3. d \in Object /\ d.status = "dead" /\ d.send_window = 0
    BY <1>3 DEF Object
  <2> HIDE DEF d, r
  <2>4. Out(k, <<r>>, 0, 0)
    BY <2>2, OneOut
  <2>5. Moved(e, k, 0, m.size, 0, 0)
    BY <1>1, <1>4, <2>1, <2>4, MovedBy
  <2>6. SenderBooks(c, d, m.size, 0)
    BY <1>2, <1>3, <2>3 DEF SenderBooks, Sending
  <2>7. ReceiverBooks(c, d, 0, 0)
    BY <2>3 DEF ReceiverBooks, Taking
  <2> QED
    BY <1>2, <2>1, <2>3, <2>5, <2>6, <2>7, StepFlow DEF Typed
<1>6. CASE ~pending[e]
  <2>1. PICK n \in Numbers :
          /\ ch' = [ch EXCEPT ![e][k] = [c EXCEPT !.status = "asked", !.local = n,
                                                  !.remote = m.from, !.send_window = m.size]]
          /\ inbox' = Rest(e)
    BY <1>6 DEF channel_open_handler
  <2> DEFINE d == [c EXCEPT !.status = "asked", !.local = n, !.remote = m.from,
                            !.send_window = m.size]
  <2>2. ch' = [ch EXCEPT ![e] = [ch[e] EXCEPT ![k] = d]]
    BY <2>1
  <2>3. d \in Object /\ d.status = "asked" /\ d.send_window = m.size /\ d.flags = c.flags
    BY <1>2, <1>3 DEF Object
  <2> HIDE DEF d
  <2>4. Moved(e, k, 0, m.size, 0, 0)
    BY <1>4, <2>1, MovedRest
  <2>5. SenderBooks(c, d, m.size, 0)
    BY <1>2, <1>3, <2>3, SMTT(40) DEF SenderBooks, Sending
  <2>6. ReceiverBooks(c, d, 0, 0)
    BY <2>3 DEF ReceiverBooks, Taking
  <2> QED
    BY <1>2, <2>2, <2>3, <2>4, <2>5, <2>6, StepFlow DEF Typed
<1> QED
  BY <1>5, <1>6

(* channel_open_confirm_handler: the same with CONFIRM.                    *)
LEMMA ConfirmHandlerFlow ==
  ASSUME IInv, FlowInv, Typed, NEW e \in Ends, channel_open_confirm_handler(e)
  PROVE  FlowInv'
<1> DEFINE m == Head(inbox[e])
           k == m.k
           c == ch[e][k]
           d == [start_io(c) EXCEPT !.status = "live", !.remote = m.from, !.send_window = m.size]
<1>1. ~finished[e] /\ inbox[e] # <<>> /\ m.type = "CONFIRM"
  BY DEF channel_open_confirm_handler, Reads
<1>2. /\ k \in Opens /\ m.size \in Nat /\ m.from \in Numbers
      /\ lookup_channel_reserved(e, m.to) = k /\ c.status = "opening"
  BY <1>1, HeadFacts
<1>3. k # NoChannel
  BY <1>2, OpensAssumption
<1>4. c.send_window = 0 /\ c \in Object /\ c.rec_window \in Nat
  BY <1>2, FlowFacts
<1>5. /\ ch' = [ch EXCEPT ![e] = [ch[e] EXCEPT ![k] = d]]
      /\ inbox' = Rest(e)
  BY <1>2, <1>3 DEF channel_open_confirm_handler
<1>6. Has(e, k, Rest(e), 0, m.size)
  BY <1>1, HeadSize DEF Credits
<1>7. /\ d \in Object /\ d.status = "live" /\ d.send_window = m.size /\ d.flags = c.flags
      /\ d.rec_window = c.rec_window
  BY <1>2, <1>4, ZenonT(40) DEF start_io, Object
<1> HIDE DEF d
<1>8. Moved(e, k, 0, m.size, 0, 0)
  BY <1>5, <1>6, MovedRest
<1>9. SenderBooks(c, d, m.size, 0)
  <2> DEFINE z == m.size
  <2>1. z \in Nat /\ c.status = "opening" /\ c.send_window = 0
        /\ d.status = "live" /\ d.send_window = z /\ d.flags = c.flags
    BY <1>2, <1>4, <1>7, Zenon
  <2> HIDE DEF z, c
  <2>2. SenderBooks(c, d, z, 0)
    BY <2>1 DEF SenderBooks, Sending
  <2> QED
    BY <2>2, Zenon DEF z
<1>10. ReceiverBooks(c, d, 0, 0)
  BY <1>2, <1>4, <1>7 DEF ReceiverBooks, Taking
<1> QED
  BY <1>2, <1>5, <1>7, <1>8, <1>9, <1>10, StepFlow DEF Typed

(* do_exc_finish_channel_handler takes the windows away.                   *)
LEMMA FinishEnds ==
  ASSUME NEW c \in Object
  PROVE  Finish(c) \in Object /\ Finish(c).status = "dead" /\ Finish(c).send_window = 0
BY DEF Finish, Object

(* channel_open_failure_handler                                            *)
LEMMA FailureHandlerFlow ==
  ASSUME IInv, FlowInv, Typed, NEW e \in Ends, channel_open_failure_handler(e)
  PROVE  FlowInv'
<1> DEFINE m == Head(inbox[e])
           k == m.k
           c == ch[e][k]
           d == Finish(c)
           x == Plain(d)
<1>1. ~finished[e] /\ inbox[e] # <<>> /\ m.type = "FAILURE"
  BY DEF channel_open_failure_handler, Reads
<1>2. k \in Opens /\ lookup_channel_reserved(e, m.to) = k /\ c.status = "opening"
  BY <1>1, HeadFacts
<1>3. k # NoChannel
  BY <1>2, OpensAssumption
<1>4. c \in Object /\ c.send_window = 0
  BY <1>2, FlowFacts
<1>5. Update(e, k, x, Rest(e)) /\ x.c = d /\ x.out = <<>>
  BY <1>2, <1>3 DEF channel_open_failure_handler, Plain
<1>6. Has(e, k, Rest(e), 0, 0)
  BY <1>1, HeadSize
<1>7. d \in Object /\ d.status = "dead" /\ d.send_window = 0
  BY <1>4, FinishEnds
<1> HIDE DEF d, x
<1>8. SenderBooks(c, d, 0, 0) /\ ReceiverBooks(c, d, 0, 0)
  BY <1>4, <1>7 DEF SenderBooks, ReceiverBooks, Sending, Taking
<1>9. Account(k, c, x, 0, 0)
  BY <1>5, <1>8 DEF Account, Out
<1> QED
  BY <1>1, <1>2, <1>5, <1>6, <1>7, <1>9, UpdateFlow DEF Typed

-----------------------------------------------------------------------------
(* The theorems.                                                           *)

(* No window has been offered.                                             *)
LEMMA InitFlow == Init => FlowInv
<1> SUFFICES ASSUME Init
             PROVE  FlowInv
  OBVIOUS
<1>1. \A e \in Ends : inbox[e] = <<>>
  BY DEF Init
<1>2. ASSUME NEW e \in Ends, NEW k \in Opens
      PROVE  Flow(k, ch[Peer(e)][k], ch[e][k], inbox[e], inbox[Peer(e)])
  <2>1. Peer(e) \in Ends
    BY PeerFacts
  <2>2. /\ ch[e][k] = init_channel(e, k) /\ ch[Peer(e)][k] = init_channel(Peer(e), k)
    BY <2>1 DEF Init
  <2>3. ch[e][k].status = "none" /\ ch[Peer(e)][k].send_window = 0
    BY <2>2 DEF init_channel
  <2> QED
    BY <2>3 DEF Flow, Taking
<1>3. \A e \in Ends : Small(inbox[e])
  BY <1>1 DEF Small
<1> QED
  BY <1>2, <1>3, Zenon DEF FlowInv

(* Every step keeps the accounts.                                          *)
LEMMA NextFlow == IInv /\ IInv' /\ FlowInv /\ [Next]_vars => FlowInv'
<1> SUFFICES ASSUME IInv, IInv', FlowInv, [Next]_vars
             PROVE  FlowInv'
  OBVIOUS
<1>1. Typed
  BY DEF IInv, TypeOK, Typed
<1>2. ASSUME NEW e \in Ends, Handle(e)
      PROVE  FlowInv'
  BY <1>1, <1>2, OpenHandlerFlow, ConfirmHandlerFlow, FailureHandlerFlow, AdjustFlow, DataFlow,
     EofFlow, CloseFlow DEF Handle
<1>3. ASSUME NEW e \in Ends, NEW k \in Opens,
             \/ OpenCommand(e, k) \/ OpenContinue(e, k) \/ OpenRefused(e, k)
             \/ Write(e, k) \/ ReadBlocked(e, k) \/ ReadData(e, k) \/ ReadEof(e, k)
             \/ IoError(e, k)
      PROVE  FlowInv'
  BY <1>1, <1>3, OpenCommandFlow, OpenContinueFlow, OpenRefusedFlow, WriteDataFlow, ReadDataFlow,
     SocketsFlow DEF Write
<1>4. ASSUME UNCHANGED <<ch, inbox>>
      PROVE  FlowInv'
  BY <1>4 DEF FlowInv
<1>5. ASSUME NEW e \in Ends, SessionOver(e)
      PROVE  FlowInv'
  BY <1>4, <1>5 DEF SessionOver
<1>6. CASE UNCHANGED vars
  BY <1>4, <1>6 DEF vars
<1> QED
  BY <1>2, <1>3, <1>5, <1>6 DEF Next

(* The account of every direction of every channel is kept, as long as the *)
(* receiver takes data.                                                    *)
THEOREM FlowInvariant == Spec => []FlowInv
BY InitFlow, NextFlow, ChannelInvariant, PTL DEF Spec

(* Between two established ends nothing of a window is lost or counted     *)
(* twice: the sender's window, the data on its way and the credit on its   *)
(* way add up to the receiver's window.  channel_data_handler never has to *)
(* cut data off, and a receiver never buffers more than it offered.        *)
THEOREM FlowControlled == Spec => []FlowControl
<1>1. IInv /\ FlowInv => FlowControl
  <2> SUFFICES ASSUME IInv, FlowInv, NEW e \in Ends, NEW k \in Opens
               PROVE  LET c == ch[e][k]
                          p == ch[Peer(e)][k]
                      IN /\ c.status = "live" /\ c.flags = {} /\ p.status = "live" /\ p.flags = {} =>
                              c.rec_window = p.send_window + InFlight(e, k, "DATA")
                                               + InFlight(Peer(e), k, "ADJUST")
                         /\ c.flags \cap (CloseFlags \cup {"RECEIVED_EOF"}) = {} =>
                              InFlight(e, k, "DATA") <= c.rec_window
                         /\ c.rec_window + c.buffered <= Window[k]
    BY DEF FlowControl
  <2> DEFINE c == ch[e][k]
             q == ch[Peer(e)][k]
             in == inbox[e]
             back == inbox[Peer(e)]
  <2>1. Flow(k, q, c, in, back)
    BY DEF FlowInv
  <2>2. /\ in \in Seq(Packet) /\ back \in Seq(Packet) /\ c \in Object /\ q \in Object
        /\ Link(k, in, q, c, Opener[k] = Peer(e)) /\ Link(k, back, c, q, Opener[k] = e)
        /\ Bounded(k, c)
    BY EndFacts DEF Sound
  <2>3. InFlight(e, k, "DATA") = Sizes(in, k, {"DATA"})
        /\ InFlight(Peer(e), k, "ADJUST") = Sizes(back, k, {"ADJUST"})
    BY DEF InFlight
  <2>4. c.rec_window \in Nat /\ q.send_window \in Nat
    BY <2>2 DEF Object
  <2>5. c.rec_window + c.buffered <= Window[k]
    BY <2>2 DEF Bounded
  <2> HIDE DEF c, q, in, back
  <2>6. Sizes(in, k, {"DATA"}) \in Nat /\ Sizes(back, k, Credits) \in Nat
    BY <2>2, SizesNat
  <2>7. ASSUME c.status = "live", c.flags = {}, q.status = "live", q.flags = {}
        PROVE  c.rec_window = q.send_window + Sizes(in, k, {"DATA"}) + Sizes(back, k, {"ADJUST"})
    <3>1. \A i \in Of(k, back) : back[i].type \in Credits <=> back[i].type \in {"ADJUST"}
      BY <2>2, <2>7 DEF Link, Fits, Credits
    <3>2. Sizes(back, k, Credits) = Sizes(back, k, {"ADJUST"})
      BY <2>2, <3>1, SizesSame
    <3>3. Taking(c) /\ Sending(q)
      BY <2>7 DEF Taking, Sending
    <3>4. Total(k, q, in, back) = c.rec_window
      BY <2>1, <3>3 DEF Flow
    <3> QED
      BY <3>2, <3>4 DEF Total
  <2>8. ASSUME c.flags \cap (CloseFlags \cup {"RECEIVED_EOF"}) = {}
        PROVE  Sizes(in, k, {"DATA"}) <= c.rec_window
    <3>1. CASE c.status \in {"opening", "live"}
      <4>1. q.send_window + Sizes(in, k, {"DATA"}) + Sizes(back, k, Credits) <= c.rec_window
        BY <2>1, <2>8, <3>1 DEF Flow, Taking, Total
      <4> QED
        BY <2>4, <2>6, <4>1
    <3>2. CASE c.status \notin {"opening", "live"}
      <4>1. \A i \in Of(k, in) : in[i].type \notin {"DATA"}
        BY <2>2, <3>2 DEF Link, Fits, DataTypes
      <4>2. Sizes(in, k, {"DATA"}) = 0
        BY <2>2, <4>1, SizesNone
      <4> QED
        BY <2>4, <4>2
    <3> QED
      BY <3>1, <3>2
  <2> QED
    BY <2>3, <2>5, <2>7, <2>8 DEF c, q
<1> QED
  BY <1>1, ChannelInvariant, FlowInvariant, PTL
=============================================================================
