--------------------------- MODULE MemPoolProofs ---------------------------
(***************************************************************************)
(* Proofs about the memory pool of a session.  An allocation splits a free *)
(* block or moves f_Top; freeing inserts, joins, trims and disposes.  The  *)
(* theorems say that none of these steps, for any header size, pool size,  *)
(* request sizes and number of pools, lets two blocks overlap, loses a     *)
(* word, or leaves a free list that the next call would misread.           *)
(***************************************************************************)
EXTENDS MemPool, SequenceTheorems, WellFoundedInduction, TLAPS

-----------------------------------------------------------------------------
(* The inductive invariant.                                                *)

Piece == [at : Nat, size : Nat]
Client == [at : Nat, size : Nat, wanted : Wanted, lost : BOOLEAN]
Pool ==
  [f_PoolSize : Nat, f_HiMem : Nat, f_Top : Nat, f_Free : Seq(Piece), used : SUBSET Client]

End(b) == b.at + b.size
Apart(b, d) == End(b) <= d.at \/ End(d) <= b.at
Holds(b, w) == b.at <= w /\ w < End(b)
Covers(list, w) == \E k \in 1..Len(list) : Holds(list[k], w)

(* A free list: every block has room for more than its header.             *)
Gaps(list) == list \in Seq(Piece) /\ \A k \in 1..Len(list) : list[k].size > H

(* In address order, as Insert leaves it, and with something in use        *)
(* between any two, as Compact leaves it.                                  *)
Ordered(list) == \A j, k \in 1..Len(list) : j < k => End(list[j]) <= list[k].at
Spaced(list) == \A j, k \in 1..Len(list) : j < k => End(list[j]) < list[k].at

Below(list, top) == \A k \in 1..Len(list) : End(list[k]) <= top
StrictlyBelow(list, top) == \A k \in 1..Len(list) : End(list[k]) < top

(* The blocks in use: large enough, below f_Top, apart from each other and *)
(* from the free blocks.                                                   *)
InUse(top, used) ==
  /\ used \in SUBSET Client
  /\ \A b \in used : b.size >= b.wanted + H /\ End(b) <= top
  /\ \A b, d \in used : b # d => Apart(b, d)
AllApart(list, used) == \A b \in used : \A k \in 1..Len(list) : Apart(b, list[k])

(* Every word below f_Top is in a free block or in one in use.             *)
NoneLost(top, list, used) ==
  \A w \in 0..(top - 1) : Covers(list, w) \/ \E b \in used : Holds(b, w)

Sound(top, list, used) ==
  /\ Gaps(list) /\ Spaced(list)
  /\ InUse(top, used) /\ AllApart(list, used)
  /\ NoneLost(top, list, used)

PoolInv(p) ==
  /\ p \in Pool
  /\ p.f_HiMem = p.f_PoolSize + H
  /\ p.f_Top <= p.f_HiMem
  /\ StrictlyBelow(p.f_Free, p.f_Top)
  /\ Sound(p.f_Top, p.f_Free, p.used)

ChainInv(c) ==
  /\ c \in Seq(Pool)
  /\ Len(c) \in 1..MaxPools
  /\ \A i \in 1..Len(c) : PoolInv(c[i]) /\ (i > 1 => c[i].used # {})

IInv == ChainInv(chain)

-----------------------------------------------------------------------------
(* Natural numbers.                                                        *)

(* A set of natural numbers that is not empty has a least member, which is *)
(* what Min returns: MPmalloc's first pool and first free block that fit.  *)
LEMMA LeastMember ==
  ASSUME NEW S \in SUBSET Nat, S # {}
  PROVE  Min(S) \in S /\ \A y \in S : Min(S) <= y
<1>1. PICK x \in S : \A y \in S : ~(<<y, x>> \in OpToRel(<, Nat))
  BY NatLessThanWellFounded, WFMin
<1>2. ASSUME NEW y \in S PROVE x <= y
  <2>1. ASSUME y < x PROVE <<y, x>> \in OpToRel(<, Nat)
    <3>1. <<y, x>> \in Nat \X Nat /\ <<y, x>>[1] = y /\ <<y, x>>[2] = x
      OBVIOUS
    <3>2. <<y, x>>[1] < <<y, x>>[2]
      BY <2>1, <3>1
    <3> QED
      BY <3>1, <3>2, Zenon DEF OpToRel
  <2>2. ~(y < x)
    BY <2>1, <1>1, Zenon
  <2> QED
    BY <2>2
<1> QED
  BY <1>2 DEF Min

(* Induction up to n, for a set instead of a predicate.                    *)
LEMMA CountTo ==
  ASSUME NEW n \in Nat, NEW S, 0 \in S,
         \A k \in 0..n : k \in S /\ k < n => k + 1 \in S
  PROVE  \A k \in 0..n : k \in S
<1> DEFINE T == {k \in 0..n : k \notin S}
<1>1. SUFFICES ASSUME T # {} PROVE FALSE
  OBVIOUS
<1>2. T \in SUBSET Nat
  OBVIOUS
<1>3. Min(T) \in T /\ \A y \in T : Min(T) <= y
  <2> HIDE DEF T
  <2> QED
    BY <1>1, <1>2, LeastMember
<1> DEFINE m == Min(T)
<1>4. m \in 0..n /\ m \notin S /\ m # 0
  BY <1>3
<1> HIDE DEF m
<1>5. m - 1 \in 0..n /\ m - 1 < n
  BY <1>4
<1>6. m - 1 \notin T
  BY <1>3, <1>4, <1>5 DEF m
<1>7. m - 1 \in S
  BY <1>5, <1>6
<1> QED
  BY <1>4, <1>5, <1>7

-----------------------------------------------------------------------------
(* Sequences and blocks.                                                   *)

(* A part of a sequence, element by element.                               *)
LEMMA Part ==
  ASSUME NEW S, NEW s \in Seq(S), NEW a \in Nat \ {0}, NEW b \in Nat, b <= Len(s)
  PROVE  /\ SubSeq(s, a, b) \in Seq(S)
         /\ Len(SubSeq(s, a, b)) = IF a <= b THEN b - a + 1 ELSE 0
         /\ \A k \in 1..(b - a + 1) : SubSeq(s, a, b)[k] = s[a + k - 1]
<1>1. \A k \in a..b : s[k] \in S
  OBVIOUS
<1>2. a \in Int /\ b \in Int
  OBVIOUS
<1> QED
  BY <1>1, <1>2, SubSeqProperties

(* Where a block begins and ends.                                          *)
LEMMA Extent ==
  ASSUME NEW b \in Piece
  PROVE  b.at \in Nat /\ b.size \in Nat /\ End(b) \in Nat /\ b.at <= End(b)
BY DEF Piece, End

-----------------------------------------------------------------------------
(* The loop that joins free blocks.                                        *)

(* One step of the loop: the block g, behind all of s, is appended or      *)
(* joined to the last of s.                                                *)
LEMMA JoinSound ==
  ASSUME NEW s, NEW g \in Piece, Gaps(s), Spaced(s), g.size > H, Below(s, g.at),
         NEW z, z = Join(s, g)
  PROVE  /\ Gaps(z) /\ Spaced(z) /\ Below(z, End(g))
         /\ \A w \in Nat : Covers(z, w) <=> (Covers(s, w) \/ Holds(g, w))
<1>0. H \in Nat
  BY SizeAssumption
<1> DEFINE n == Len(s)
<1>1. s \in Seq(Piece) /\ n \in Nat
  BY DEF Gaps
<1>2. CASE s # <<>> /\ Last(s).at + Last(s).size = g.at
  <2> DEFINE l == s[n]
             j == Gap(l.at, l.size + g.size)
  <2>1. n >= 1 /\ l \in Piece /\ Last(s) = l
    BY <1>1, <1>2 DEF Last
  <2>2. j \in Piece /\ j.at = l.at /\ End(j) = End(g) /\ j.size > H /\ End(l) = g.at
    BY <1>0, <1>2, <2>1 DEF Gap, Piece, End
  <2> DEFINE f == Front(s)
  <2>3. f \in Seq(Piece) /\ Len(f) = n - 1 /\ \A k \in 1..(n - 1) : f[k] = s[k]
    <3>1. SubSeq(s, 1, n - 1) \in Seq(Piece) /\ Len(SubSeq(s, 1, n - 1)) = n - 1
          /\ \A k \in 1..(n - 1) : SubSeq(s, 1, n - 1)[k] = s[k]
      <4>1. n - 1 \in Nat /\ 1 \in Nat \ {0} /\ n - 1 <= Len(s)
        BY <1>1, <2>1
      <4>2. \A m \in Nat : (IF 1 <= m THEN m - 1 + 1 ELSE 0) = m /\ m - 1 + 1 = m
        OBVIOUS
      <4>3. \A k \in Nat : 1 + k - 1 = k
        OBVIOUS
      <4> HIDE DEF n
      <4> QED
        BY <1>1, <4>1, <4>2, <4>3, Part
    <3> QED
      BY <3>1 DEF Front
  <2>4. z = f \o <<j>>
    BY <1>2, <2>1 DEF Join
  <2> HIDE DEF f, j
  <2>5. z \in Seq(Piece) /\ Len(z) = n /\ z[n] = j /\ \A k \in 1..(n - 1) : z[k] = s[k]
    BY <1>1, <2>1, <2>2, <2>3, <2>4
  <2> HIDE DEF n, l
  <2>6. Gaps(z)
    BY <1>1, <2>1, <2>2, <2>5 DEF Gaps, n
  <2>7. Spaced(z)
    BY <1>1, <2>1, <2>2, <2>5 DEF Spaced, n, l
  <2>8. Below(z, End(g))
    <3>0. \A k \in 1..n : s[k] \in Piece /\ End(s[k]) <= g.at
      BY <1>1 DEF Below, n
    <3>1. \A k \in 1..(n - 1) : End(z[k]) \in Nat /\ End(z[k]) <= g.at
      BY <1>1, <2>1, <2>5, <3>0, Extent
    <3>2. g.at \in Nat /\ End(g) \in Nat /\ g.at <= End(g) /\ End(z[n]) = End(g)
      BY <2>2, <2>5 DEF Piece, End
    <3> QED
      BY <2>1, <2>5, <3>1, <3>2 DEF Below
  <2>9. ASSUME NEW w \in Nat PROVE Covers(z, w) <=> (Covers(s, w) \/ Holds(g, w))
    <3>1. Holds(j, w) <=> (Holds(l, w) \/ Holds(g, w))
      BY <2>1, <2>2 DEF Holds, End, Piece
    <3> QED
      BY <1>1, <2>1, <2>5, <3>1 DEF Covers, n, l
  <2> QED
    BY <2>6, <2>7, <2>8, <2>9
<1>3. CASE ~(s # <<>> /\ Last(s).at + Last(s).size = g.at)
  <2>1. z = Append(s, g)
    BY <1>3 DEF Join
  <2>2. z \in Seq(Piece) /\ Len(z) = n + 1 /\ z[n + 1] = g /\ \A k \in 1..n : z[k] = s[k]
    BY <1>1, <2>1
  <2>3. n >= 1 => End(s[n]) < g.at
    <3>1. n >= 1 => End(s[n]) <= g.at /\ s # <<>> /\ Last(s) = s[n] /\ s[n] \in Piece
      BY <1>1 DEF Below, Last
    <3> QED
      BY <1>3, <3>1 DEF End, Piece
  <2> HIDE DEF n
  <2>4. \A k \in 1..n : End(s[k]) \in Nat /\ End(s[k]) < g.at
    <3>0. \A k \in 1..n : s[k] \in Piece
      BY <1>1 DEF n
    <3>1. \A k \in 1..n : /\ s[k].at \in Nat /\ End(s[k]) \in Nat
                          /\ s[k].at <= End(s[k])
      BY <3>0, Extent
    <3>2. g.at \in Nat
      BY DEF Piece
    <3>3. \A k \in 1..n : k < n => End(s[k]) < s[n].at
      BY <1>1 DEF Spaced, n
    <3> QED
      BY <1>1, <2>3, <3>1, <3>2, <3>3
  <2>5. Gaps(z)
    BY <1>1, <2>2 DEF Gaps, n
  <2>6. Spaced(z)
    BY <1>1, <2>2, <2>4, SMTT(30) DEF Spaced, n
  <2>7. Below(z, End(g))
    <3>1. g.at \in Nat /\ End(g) \in Nat /\ g.at <= End(g)
      BY DEF Piece, End
    <3> QED
      BY <1>1, <2>2, <2>4, <3>1 DEF Below
  <2>8. ASSUME NEW w \in Nat PROVE Covers(z, w) <=> (Covers(s, w) \/ Holds(g, w))
    BY <1>1, <2>2 DEF Covers, n
  <2> QED
    BY <2>5, <2>6, <2>7, <2>8
<1> QED
  BY <1>2, <1>3

(* f is what the loop makes of the first n blocks, block by block.         *)
Loop(list, n, f) == f = [k \in 0..n |-> IF k = 0 THEN <<>> ELSE Join(f[k - 1], list[k])]

(* The loop is well defined: there is such an f for the whole list, and    *)
(* Compact is its last value.                                              *)
LEMMA LoopRuns ==
  ASSUME NEW list, Len(list) \in Nat
  PROVE  \E f : Loop(list, Len(list), f) /\ Compact(list) = f[Len(list)]
<1> DEFINE N == Len(list)
           S == {n \in 0..N : \E f : Loop(list, n, f)}
<1>1. 0 \in S
  <2>1. Loop(list, 0, [k \in 0..0 |-> <<>>])
    BY DEF Loop
  <2> QED
    BY <2>1
<1>2. ASSUME NEW n \in 0..N, n \in S, n < N PROVE n + 1 \in S
  <2>1. PICK f : Loop(list, n, f)
    BY <1>2
  <2> DEFINE g == [k \in 0..(n + 1) |-> IF k = n + 1 THEN Join(f[n], list[k]) ELSE f[k]]
  <2>2. ASSUME NEW k \in 0..(n + 1)
        PROVE  g[k] = IF k = 0 THEN <<>> ELSE Join(g[k - 1], list[k])
    <3>1. CASE k = n + 1
      BY <1>2, <3>1
    <3>2. CASE k # n + 1
      <4>1. k \in 0..n
        BY <3>2
      <4>2. g[k] = f[k] /\ f[k] = IF k = 0 THEN <<>> ELSE Join(f[k - 1], list[k])
        BY <2>1, <3>2, <4>1 DEF Loop
      <4>3. k # 0 => k - 1 \in 0..(n + 1) /\ k - 1 # n + 1 /\ g[k - 1] = f[k - 1]
        BY <4>1
      <4> QED
        BY <4>2, <4>3
    <3> QED
      BY <3>1, <3>2
  <2>3. Loop(list, n + 1, g)
    <3>1. g = [k \in 0..(n + 1) |-> g[k]]
      OBVIOUS
    <3> HIDE DEF g
    <3>2. [k \in 0..(n + 1) |-> g[k]]
            = [k \in 0..(n + 1) |-> IF k = 0 THEN <<>> ELSE Join(g[k - 1], list[k])]
      BY <2>2
    <3>3. g = [k \in 0..(n + 1) |-> IF k = 0 THEN <<>> ELSE Join(g[k - 1], list[k])]
      BY <3>1, <3>2, Zenon
    <3> QED
      BY <3>3, Zenon DEF Loop
  <2> HIDE DEF g
  <2> QED
    BY <1>2, <2>3
<1>3. N \in S
  <2> HIDE DEF S
  <2>1. \A k \in 0..N : k \in S
    BY <1>1, <1>2, CountTo
  <2> QED
    BY <2>1
<1>4. PICK f : Loop(list, N, f)
  BY <1>3
<1> DEFINE J == CHOOSE j : j = [k \in 0..N |-> IF k = 0 THEN <<>> ELSE Join(j[k - 1], list[k])]
<1>5. J = [k \in 0..N |-> IF k = 0 THEN <<>> ELSE Join(J[k - 1], list[k])]
  BY <1>4, Zenon DEF Loop
<1>6. Loop(list, N, J)
  BY <1>5, Zenon DEF Loop
<1>7. Compact(list) = J[N]
  BY Zenon DEF Compact
<1> QED
  BY <1>6, <1>7, Zenon

(* Compact turns an ordered list into a spaced one that covers the same    *)
(* words.                                                                  *)
LEMMA CompactSound ==
  ASSUME NEW list, Gaps(list), Ordered(list), NEW z, z = Compact(list)
  PROVE  Gaps(z) /\ Spaced(z) /\ \A w \in Nat : Covers(z, w) <=> Covers(list, w)
<1> DEFINE N == Len(list)
<1>1. list \in Seq(Piece) /\ N \in Nat /\ \A k \in 1..N : list[k] \in Piece /\ list[k].size > H
  BY DEF Gaps
<1>2. PICK f : Loop(list, N, f) /\ z = f[N]
  BY <1>1, LoopRuns
<1> DEFINE Good(k) ==
             /\ Gaps(f[k]) /\ Spaced(f[k])
             /\ \A j \in 1..N : k < j => Below(f[k], list[j].at)
             /\ \A w \in Nat : Covers(f[k], w) <=> \E j \in 1..k : Holds(list[j], w)
           S == {k \in 0..N : Good(k)}
<1>3. 0 \in S
  <2>1. f[0] = <<>>
    BY <1>1, <1>2 DEF Loop
  <2>2. <<>> \in Seq(Piece) /\ Len(<<>>) = 0 /\ \A k \in 1..0 : FALSE
    OBVIOUS
  <2>3. Gaps(<<>>) /\ Spaced(<<>>)
    BY <2>2 DEF Gaps, Spaced
  <2>4. \A j \in 1..N : Below(<<>>, list[j].at)
    BY <2>2 DEF Below
  <2>5. \A w \in Nat : ~Covers(<<>>, w)
    BY <2>2 DEF Covers
  <2>6. 0 \in 0..N
    BY <1>1
  <2>7. Good(0)
    BY <2>1, <2>2, <2>3, <2>4, <2>5
  <2> QED
    BY <2>6, <2>7
<1>4. ASSUME NEW k \in 0..N, k \in S, k < N PROVE k + 1 \in S
  <2>0. Good(k)
    BY <1>4
  <2>1. k + 1 \in 1..N /\ k + 1 \in 0..N /\ k < k + 1 /\ k + 1 # 0 /\ (k + 1) - 1 = k
    BY <1>1, <1>4
  <2> DEFINE g == list[k + 1]
             t == f[k + 1]
             s == f[k]
  <2>2. t = Join(s, g)
    BY <1>2, <2>1 DEF Loop
  <2>3. g \in Piece /\ g.size > H /\ Below(s, g.at)
    BY <1>1, <2>0, <2>1
  <2>4. /\ Gaps(t) /\ Spaced(t) /\ Below(t, End(g))
        /\ \A w \in Nat : Covers(t, w) <=> (Covers(s, w) \/ Holds(g, w))
    <3> HIDE DEF t, s, g
    <3>1. Gaps(s) /\ Spaced(s)
      BY <2>0 DEF s
    <3> QED
      BY <2>2, <2>3, <3>1, JoinSound
  <2>5. ASSUME NEW j \in 1..N, k + 1 < j PROVE Below(t, list[j].at)
    <3>1. End(g) <= list[j].at
      BY <1>1, <2>1, <2>5 DEF Ordered
    <3>2. list[j].at \in Nat /\ End(g) \in Nat
      BY <1>1, <2>3, Extent
    <3>3. t \in Seq(Piece)
      BY <2>4 DEF Gaps
    <3> HIDE DEF t, g
    <3>4. \A m \in 1..Len(t) : t[m] \in Piece /\ End(t[m]) <= End(g)
      BY <2>4, <3>3 DEF Below
    <3>5. \A m \in 1..Len(t) : End(t[m]) \in Nat
      BY <3>4, Extent
    <3> QED
      BY <3>1, <3>2, <3>4, <3>5 DEF Below
  <2>6. ASSUME NEW w \in Nat
        PROVE  Covers(t, w) <=> \E j \in 1..(k + 1) : Holds(list[j], w)
    <3>1. (\E j \in 1..(k + 1) : Holds(list[j], w))
            <=> ((\E j \in 1..k : Holds(list[j], w)) \/ Holds(g, w))
      BY <1>4
    <3>2. Covers(s, w) <=> \E j \in 1..k : Holds(list[j], w)
      BY <2>0
    <3> QED
      BY <2>4, <3>1, <3>2, Zenon
  <2>7. Good(k + 1)
    BY <2>4, <2>5, <2>6, Zenon
  <2> QED
    BY <2>1, <2>7
<1>5. Good(N)
  <2> HIDE DEF S
  <2>1. \A k \in 0..N : k \in S
    BY <1>1, <1>3, <1>4, CountTo
  <2>2. N \in S
    BY <1>1, <2>1
  <2> QED
    BY <2>2, Zenon DEF S
<1> QED
  BY <1>2, <1>5, Zenon DEF Covers

-----------------------------------------------------------------------------
(* The search for the place of a freed block.                              *)

(* What an insertion at position p makes of a list.                        *)
LEMMA Inserted ==
  ASSUME NEW S, NEW s \in Seq(S), NEW e \in S, NEW p \in 1..(Len(s) + 1),
         NEW z, z = InsertAt(s, p, e)
  PROVE  /\ z \in Seq(S) /\ Len(z) = Len(s) + 1 /\ z[p] = e
         /\ \A k \in 1..Len(z) : (k < p => z[k] = s[k]) /\ (k > p => z[k] = s[k - 1])
<1> DEFINE n == Len(s)
           a == SubSeq(s, 1, p - 1)
           b == SubSeq(s, p, n)
<1>1. n \in Nat /\ p \in Nat \ {0} /\ p - 1 \in Nat /\ p - 1 <= n /\ 1 \in Nat \ {0}
  OBVIOUS
<1>2. a \in Seq(S) /\ Len(a) = p - 1 /\ \A k \in 1..(p - 1) : a[k] = s[k]
  <2>1. \A m \in Nat : (IF 1 <= m THEN m - 1 + 1 ELSE 0) = m /\ m - 1 + 1 = m
    OBVIOUS
  <2>2. \A k \in Nat : 1 + k - 1 = k
    OBVIOUS
  <2> HIDE DEF n
  <2> QED
    BY <1>1, <2>1, <2>2, Part DEF n
<1>3. b \in Seq(S) /\ Len(b) = n - p + 1 /\ \A k \in 1..(n - p + 1) : b[k] = s[p + k - 1]
  <2>1. (IF p <= n THEN n - p + 1 ELSE 0) = n - p + 1
    BY <1>1
  <2> HIDE DEF n
  <2> QED
    BY <1>1, <2>1, Part DEF n
<1>4. z = (a \o <<e>>) \o b
  BY DEF InsertAt
<1> HIDE DEF n, a, b
<1> DEFINE c == a \o <<e>>
<1>5. c \in Seq(S) /\ Len(c) = p /\ c[p] = e /\ \A k \in 1..(p - 1) : c[k] = s[k]
  BY <1>1, <1>2, SMTT(30)
<1>6. z = c \o b
  BY <1>4
<1> HIDE DEF c
<1>7. z \in Seq(S) /\ Len(z) = n + 1
      /\ \A k \in 1..(n + 1) : z[k] = IF k <= p THEN c[k] ELSE b[k - p]
  <2>1. /\ z \in Seq(S) /\ Len(z) = Len(c) + Len(b)
        /\ \A k \in 1..(Len(c) + Len(b)) : z[k] = IF k <= Len(c) THEN c[k] ELSE b[k - Len(c)]
    <3>1. c \in Seq(S) /\ b \in Seq(S)
      BY <1>3, <1>5
    <3> QED
      BY <1>6, <3>1, ConcatProperties
  <2>2. Len(c) + Len(b) = n + 1
    BY <1>1, <1>3, <1>5
  <2> QED
    BY <1>5, <2>1, <2>2
<1>8. ASSUME NEW k \in 1..(n + 1)
      PROVE  (k < p => z[k] = s[k]) /\ (k > p => z[k] = s[k - 1])
  <2>1. k < p => z[k] = s[k]
    BY <1>1, <1>5, <1>7
  <2>2. k > p => k - p \in 1..(n - p + 1) /\ p + (k - p) - 1 = k - 1 /\ z[k] = b[k - p]
    BY <1>1, <1>7
  <2> QED
    BY <1>3, <2>1, <2>2
<1>9. z[p] = e
  BY <1>1, <1>5, <1>7
<1> QED
  BY <1>7, <1>8, <1>9 DEF n

(* z is s without what was at position p.                                  *)
Without(z, s, p) ==
  /\ Len(z) = Len(s) - 1
  /\ \A k \in 1..Len(z) : (k < p => z[k] = s[k]) /\ (k >= p => z[k] = s[k + 1])

(* What a removal at position p makes of a list.                           *)
LEMMA Removed ==
  ASSUME NEW S, NEW s \in Seq(S), NEW p \in 1..Len(s), NEW z, z = RemoveAt(s, p)
  PROVE  z \in Seq(S) /\ Without(z, s, p)
<1> DEFINE n == Len(s)
           a == SubSeq(s, 1, p - 1)
           b == SubSeq(s, p + 1, n)
<1>1. /\ n \in Nat /\ p \in Nat \ {0} /\ p <= n /\ p - 1 \in Nat /\ p - 1 <= n
      /\ 1 \in Nat \ {0} /\ p + 1 \in Nat \ {0}
  OBVIOUS
<1>2. a \in Seq(S) /\ Len(a) = p - 1 /\ \A k \in 1..(p - 1) : a[k] = s[k]
  <2>1. \A m \in Nat : (IF 1 <= m THEN m - 1 + 1 ELSE 0) = m /\ m - 1 + 1 = m
    OBVIOUS
  <2>2. \A k \in Nat : 1 + k - 1 = k
    OBVIOUS
  <2> HIDE DEF n
  <2> QED
    BY <1>1, <2>1, <2>2, Part DEF n
<1>3. b \in Seq(S) /\ Len(b) = n - p /\ \A k \in 1..(n - p) : b[k] = s[p + k]
  <2>1. (IF p + 1 <= n THEN n - (p + 1) + 1 ELSE 0) = n - p /\ n - (p + 1) + 1 = n - p
    BY <1>1
  <2>2. \A k \in Nat : (p + 1) + k - 1 = p + k
    BY <1>1
  <2> HIDE DEF n
  <2>3. \A k \in 1..(n - p) : k \in Nat
    BY <1>1
  <2>4. b \in Seq(S) /\ Len(b) = (IF p + 1 <= n THEN n - (p + 1) + 1 ELSE 0)
        /\ \A k \in 1..(n - (p + 1) + 1) : b[k] = s[(p + 1) + k - 1]
    <3>1. n <= Len(s)
      BY <1>1 DEF n
    <3> QED
      BY <1>1, <3>1, Part
  <2> HIDE DEF b
  <2> QED
    BY <2>1, <2>2, <2>3, <2>4
<1>4. z = a \o b
  BY DEF RemoveAt
<1> HIDE DEF n, a, b
<1>5. z \in Seq(S) /\ Len(z) = n - 1
      /\ \A k \in 1..(n - 1) : z[k] = IF k <= p - 1 THEN a[k] ELSE b[k - (p - 1)]
  <2>1. /\ z \in Seq(S) /\ Len(z) = Len(a) + Len(b)
        /\ \A k \in 1..(Len(a) + Len(b)) : z[k] = IF k <= Len(a) THEN a[k] ELSE b[k - Len(a)]
    BY <1>2, <1>3, <1>4, ConcatProperties
  <2>2. Len(a) + Len(b) = n - 1
    BY <1>1, <1>2, <1>3
  <2> QED
    BY <1>2, <2>1, <2>2
<1>6. ASSUME NEW k \in 1..(n - 1)
      PROVE  (k < p => z[k] = s[k]) /\ (k >= p => z[k] = s[k + 1])
  <2>1. k < p => z[k] = s[k]
    BY <1>1, <1>2, <1>5
  <2>2. k >= p => k - (p - 1) \in 1..(n - p) /\ p + (k - (p - 1)) = k + 1 /\ z[k] = b[k - (p - 1)]
    BY <1>1, <1>5
  <2> QED
    BY <1>3, <2>1, <2>2
<1> QED
  BY <1>5, <1>6 DEF n, Without

(* Insert puts a freed block where the list stays in address order.        *)
LEMMA InsertSound ==
  ASSUME NEW list, Gaps(list), Spaced(list), NEW g \in Piece, g.size > H,
         \A k \in 1..Len(list) : Apart(g, list[k]), NEW z, z = Insert(list, g)
  PROVE  /\ Gaps(z) /\ Ordered(z)
         /\ \A w \in Nat : Covers(z, w) <=> (Covers(list, w) \/ Holds(g, w))
<1> DEFINE n == Len(list)
           Behind(k) == g.at < list[k].at /\ (k = 1 \/ list[k - 1].at < g.at)
           S == {k \in 1..n : Behind(k)} \cup {n + 1}
           p == Min(S)
<1>0. H \in Nat
  BY SizeAssumption
<1>1. list \in Seq(Piece) /\ n \in Nat /\ \A k \in 1..n : list[k] \in Piece /\ list[k].size > H
  BY DEF Gaps
<1>2. \A k \in 1..n : /\ list[k].at \in Nat /\ End(list[k]) \in Nat
                      /\ list[k].at < End(list[k])
  BY <1>0, <1>1, SMTT(30) DEF Piece, End
<1>3. g.at \in Nat /\ End(g) \in Nat /\ g.at < End(g)
  BY <1>0 DEF Piece, End
<1>4. \A k \in 1..n : End(g) <= list[k].at \/ End(list[k]) <= g.at
  BY DEF Apart
<1>5. z = InsertAt(list, p, g)
  BY DEF Insert
<1>6. p \in S /\ \A k \in S : p <= k
  <2>1. S \in SUBSET Nat /\ S # {}
    BY <1>1
  <2> HIDE DEF S
  <2> QED
    BY <2>1, LeastMember
<1>7. p \in 1..(n + 1) /\ p \in Nat /\ (p <= n => Behind(p))
  BY <1>1, <1>6
<1>8. ASSUME NEW k \in 1..n, k < p PROVE End(list[k]) <= g.at
  <2> DEFINE T == {j \in 1..n : g.at < list[j].at}
  <2>1. SUFFICES ASSUME g.at < list[k].at PROVE FALSE
    BY <1>1, <1>2, <1>3, <1>4
  <2>2. T \in SUBSET Nat /\ k \in T
    BY <2>1
  <2>3. Min(T) \in T /\ \A y \in T : Min(T) <= y
    <3> HIDE DEF T
    <3> QED
      BY <2>2, LeastMember
  <2> DEFINE m == Min(T)
  <2>4. m \in 1..n /\ g.at < list[m].at /\ m <= k
    BY <2>2, <2>3
  <2> HIDE DEF m
  <2>5. m = 1 \/ (m - 1 \in 1..n /\ m - 1 < m)
    BY <1>1, <2>4
  <2>6. m = 1 \/ m - 1 \notin T
    BY <2>3, <2>4, <2>5 DEF m
  <2>7. m = 1 \/ ~(g.at < list[m - 1].at)
    BY <2>5, <2>6
  <2>8. m = 1 \/ list[m - 1].at < g.at
    BY <1>2, <1>3, <1>4, <2>5, <2>7
  <2>9. m \in S
    BY <2>4, <2>8
  <2>10. p <= m
    BY <1>6, <2>9
  <2> HIDE DEF p, S, T
  <2> QED
    BY <1>1, <1>7, <1>8, <2>4, <2>10
<1>9. ASSUME NEW k \in 1..n, k >= p PROVE End(g) <= list[k].at
  <2> HIDE DEF p, S
  <2>1. p \in 1..n /\ g.at < list[p].at
    BY <1>1, <1>7, <1>9
  <2>2. list[p].at <= list[k].at
    <3>1. CASE p = k
      BY <1>2, <3>1
    <3>2. CASE p # k
      <4>1. p < k
        BY <1>7, <1>9, <3>2
      <4>2. End(list[p]) < list[k].at
        BY <2>1, <4>1 DEF Spaced
      <4> QED
        BY <1>2, <2>1, <4>2
    <3> QED
      BY <3>1, <3>2
  <2> QED
    BY <1>2, <1>3, <1>4, <2>1, <2>2
<1> HIDE DEF p, S
<1>10. /\ z \in Seq(Piece) /\ Len(z) = n + 1 /\ z[p] = g
       /\ \A k \in 1..(n + 1) : (k < p => z[k] = list[k]) /\ (k > p => z[k] = list[k - 1])
  BY <1>1, <1>5, <1>7, Inserted
<1> HIDE DEF n
<1>11. Gaps(z)
  <2>1. ASSUME NEW k \in 1..(n + 1) PROVE z[k].size > H
    <3>1. CASE k < p
      <4>1. k \in 1..n
        BY <1>1, <1>7, <3>1
      <4> QED
        BY <1>1, <1>10, <3>1, <4>1
    <3>2. CASE k = p
      BY <1>10, <3>2
    <3>3. CASE k > p
      <4>1. k - 1 \in 1..n
        BY <1>1, <1>7, <3>3
      <4> QED
        BY <1>1, <1>10, <3>3, <4>1
    <3> QED
      BY <1>7, <3>1, <3>2, <3>3
  <2> QED
    BY <1>10, <2>1 DEF Gaps
<1>12. Ordered(z)
  <2>1. ASSUME NEW j \in 1..(n + 1), NEW k \in 1..(n + 1), j < k
        PROVE  End(z[j]) <= z[k].at
    <3>0. \A a, b \in 1..n : a < b => End(list[a]) < list[b].at
      BY DEF Spaced, n
    <3>1. CASE k < p
      <4>1. j \in 1..n /\ k \in 1..n /\ z[j] = list[j] /\ z[k] = list[k]
        BY <1>1, <1>7, <1>10, <2>1, <3>1
      <4> QED
        BY <1>2, <2>1, <3>0, <4>1
    <3>2. CASE k = p
      <4>1. j \in 1..n /\ j < p /\ z[j] = list[j] /\ z[k] = g
        BY <1>1, <1>7, <1>10, <2>1, <3>2
      <4> QED
        BY <1>8, <4>1
    <3>3. CASE k > p /\ j < p
      <4>1. j \in 1..n /\ k - 1 \in 1..n /\ k - 1 >= p /\ z[j] = list[j] /\ z[k] = list[k - 1]
        BY <1>1, <1>7, <1>10, <2>1, <3>3
      <4>2. j < k - 1
        BY <1>7, <3>3, <4>1
      <4> QED
        BY <1>2, <3>0, <4>1, <4>2
    <3>4. CASE k > p /\ j = p
      <4>1. k - 1 \in 1..n /\ k - 1 >= p /\ z[j] = g /\ z[k] = list[k - 1]
        BY <1>1, <1>7, <1>10, <2>1, <3>4
      <4> QED
        BY <1>9, <4>1
    <3>5. CASE k > p /\ j > p
      <4>1. j - 1 \in 1..n /\ k - 1 \in 1..n /\ z[j] = list[j - 1] /\ z[k] = list[k - 1]
        BY <1>1, <1>7, <1>10, <2>1, <3>5
      <4>2. j - 1 < k - 1
        BY <2>1
      <4> QED
        BY <1>2, <3>0, <4>1, <4>2
    <3> QED
      BY <1>7, <3>1, <3>2, <3>3, <3>4, <3>5
  <2> QED
    BY <1>10, <2>1 DEF Ordered
<1>13. ASSUME NEW w \in Nat PROVE Covers(z, w) <=> (Covers(list, w) \/ Holds(g, w))
  <2>1. ASSUME NEW k \in 1..n, Holds(list[k], w) PROVE \E j \in 1..(n + 1) : Holds(z[j], w)
    <3>1. CASE k < p
      <4>1. k \in 1..(n + 1) /\ z[k] = list[k]
        BY <1>1, <1>10, <3>1
      <4> QED
        BY <2>1, <4>1
    <3>2. CASE k >= p
      <4>1. k + 1 \in 1..(n + 1) /\ k + 1 > p /\ (k + 1) - 1 = k
        BY <1>1, <1>7, <3>2
      <4>2. z[k + 1] = list[k]
        BY <1>10, <4>1
      <4> QED
        BY <2>1, <4>1, <4>2
    <3> QED
      BY <1>7, <3>1, <3>2
  <2>2. ASSUME NEW k \in 1..(n + 1), Holds(z[k], w)
        PROVE  Holds(g, w) \/ \E j \in 1..n : Holds(list[j], w)
    <3>1. CASE k < p
      <4>1. k \in 1..n /\ z[k] = list[k]
        BY <1>1, <1>7, <1>10, <3>1
      <4> QED
        BY <2>2, <4>1
    <3>2. CASE k = p
      BY <1>10, <2>2, <3>2
    <3>3. CASE k > p
      <4>1. k - 1 \in 1..n /\ z[k] = list[k - 1]
        BY <1>1, <1>7, <1>10, <3>3
      <4> QED
        BY <2>2, <4>1
    <3> QED
      BY <1>7, <3>1, <3>2, <3>3
  <2>3. Covers(z, w) <=> \E j \in 1..(n + 1) : Holds(z[j], w)
    BY <1>10, Zenon DEF Covers
  <2>4. Covers(list, w) <=> \E j \in 1..n : Holds(list[j], w)
    BY Zenon DEF Covers, n
  <2>5. p \in 1..(n + 1) /\ z[p] = g
    BY <1>7, <1>10
  <2> QED
    BY <2>1, <2>2, <2>3, <2>4, <2>5, Zenon
<1> QED
  BY <1>11, <1>12, <1>13

-----------------------------------------------------------------------------
(* What MPfree makes of one pool.                                          *)

(* Two blocks that share no word are apart.                                *)
LEMMA Disjoint ==
  ASSUME NEW b, NEW d, b.at \in Nat, d.at \in Nat, b.size \in Nat \ {0}, d.size \in Nat \ {0},
         \A w \in Nat : ~(Holds(b, w) /\ Holds(d, w))
  PROVE  Apart(b, d)
<1>1. CASE b.at <= d.at
  <2>1. ~(Holds(b, d.at) /\ Holds(d, d.at))
    OBVIOUS
  <2> QED
    BY <1>1, <2>1 DEF Holds, End, Apart
<1>2. CASE d.at <= b.at
  <2>1. ~(Holds(b, b.at) /\ Holds(d, b.at))
    OBVIOUS
  <2> QED
    BY <1>2, <2>1 DEF Holds, End, Apart
<1> QED
  BY <1>1, <1>2

(* The numbers of a block in use.                                          *)
LEMMA ClientFacts ==
  ASSUME NEW top \in Nat, NEW used, InUse(top, used), NEW b \in used
  PROVE  /\ b \in Client /\ b.at \in Nat /\ b.size \in Nat \ {0} /\ b.size > H
         /\ b.wanted \in Nat \ {0} /\ End(b) \in Nat /\ End(b) <= top /\ b.at < End(b)
         /\ b.wanted \in Wanted /\ b.lost \in BOOLEAN
<1>1. H \in Nat /\ Wanted \subseteq Nat \ {0}
  BY SizeAssumption
<1>2. b \in Client /\ b.size >= b.wanted + H /\ End(b) <= top
  BY DEF InUse
<1>3. b.at \in Nat /\ b.size \in Nat /\ b.wanted \in Wanted /\ b.lost \in BOOLEAN
  BY <1>2 DEF Client
<1>4. b.wanted \in Nat \ {0}
  BY <1>1, <1>3
<1>5. b.size > H /\ b.size \in Nat \ {0}
  BY <1>1, <1>2, <1>3, <1>4
<1>6. End(b) \in Nat /\ b.at < End(b)
  BY <1>3, <1>5 DEF End
<1> QED
  BY <1>2, <1>3, <1>4, <1>5, <1>6

(* The numbers of a free block.                                            *)
LEMMA GapFacts ==
  ASSUME NEW list, Gaps(list), NEW k \in 1..Len(list)
  PROVE  /\ list[k] \in Piece /\ list[k].at \in Nat /\ list[k].size \in Nat \ {0}
         /\ list[k].size > H /\ End(list[k]) \in Nat /\ list[k].at < End(list[k])
<1>1. H \in Nat
  BY SizeAssumption
<1>2. list[k] \in Piece /\ list[k].size > H
  BY DEF Gaps
<1>3. list[k].at \in Nat /\ list[k].size \in Nat
  BY <1>2 DEF Piece
<1>4. list[k].size \in Nat \ {0}
  BY <1>1, <1>2, <1>3
<1> QED
  BY <1>2, <1>3, <1>4 DEF End

(* The freed block has become free words, and nothing else has changed,    *)
(* except that the last free block may now touch f_Top.                    *)
LEMMA FreedSound ==
  ASSUME NEW top \in Nat, NEW list, NEW used, Sound(top, list, used), Below(list, top),
         NEW c \in used, NEW z, z = Compact(Insert(list, Gap(c.at, c.size)))
  PROVE  Sound(top, z, used \ {c}) /\ Below(z, top)
<1> DEFINE g == Gap(c.at, c.size)
           y == Insert(list, g)
<1>0. Gaps(list) /\ Spaced(list) /\ InUse(top, used) /\ AllApart(list, used) /\ NoneLost(top, list, used)
  BY DEF Sound
<1>1. /\ c.at \in Nat /\ c.size \in Nat \ {0} /\ c.size > H /\ End(c) <= top /\ End(c) \in Nat
  BY <1>0, ClientFacts
<1>2. g \in Piece /\ g.size > H /\ g.at = c.at /\ End(g) = End(c)
  BY <1>1 DEF Gap, Piece, End
<1> HIDE DEF g
<1>3. \A w : Holds(g, w) <=> Holds(c, w)
  BY <1>2 DEF Holds
<1>4. \A k \in 1..Len(list) : Apart(g, list[k])
  BY <1>0, <1>2 DEF AllApart, Apart
<1>5. Gaps(y) /\ Ordered(y) /\ \A w \in Nat : Covers(y, w) <=> (Covers(list, w) \/ Holds(g, w))
  BY <1>0, <1>2, <1>4, InsertSound
<1>6. z = Compact(y)
  BY DEF g
<1> HIDE DEF y
<1>7. Gaps(z) /\ Spaced(z) /\ \A w \in Nat : Covers(z, w) <=> Covers(y, w)
  BY <1>5, <1>6, CompactSound
<1>8. \A w \in Nat : Covers(z, w) <=> (Covers(list, w) \/ Holds(c, w))
  BY <1>3, <1>5, <1>7, Zenon
<1>9. InUse(top, used \ {c})
  BY <1>0, Zenon DEF InUse
<1>10. AllApart(z, used \ {c})
  <2>1. SUFFICES ASSUME NEW b \in used \ {c}, NEW k \in 1..Len(z) PROVE Apart(b, z[k])
    BY DEF AllApart
  <2>2. b \in used /\ b # c /\ Apart(b, c)
    BY <1>0 DEF InUse
  <2>3. b.at \in Nat /\ b.size \in Nat \ {0} /\ End(b) \in Nat
    BY <1>0, <2>2, ClientFacts
  <2>4. z[k].at \in Nat /\ z[k].size \in Nat \ {0}
    BY <1>7, GapFacts
  <2>5. ASSUME NEW w \in Nat PROVE ~(Holds(b, w) /\ Holds(z[k], w))
    <3>1. SUFFICES ASSUME Holds(b, w), Holds(z[k], w) PROVE FALSE
      OBVIOUS
    <3>2. Covers(z, w)
      BY <3>1 DEF Covers
    <3>3. CASE Holds(c, w)
      BY <1>1, <2>2, <2>3, <3>1, <3>3 DEF Holds, Apart
    <3>4. CASE Covers(list, w)
      <4>1. PICK j \in 1..Len(list) : Holds(list[j], w)
        BY <3>4 DEF Covers
      <4>2. Apart(b, list[j])
        BY <1>0, <2>2 DEF AllApart
      <4>3. list[j].at \in Nat /\ End(list[j]) \in Nat
        BY <1>0, GapFacts
      <4> QED
        BY <2>3, <3>1, <4>1, <4>2, <4>3 DEF Holds, Apart
    <3> QED
      BY <1>8, <3>2, <3>3, <3>4
  <2> QED
    BY <2>3, <2>4, <2>5, Disjoint
<1>11. NoneLost(top, z, used \ {c})
  <2>1. SUFFICES ASSUME NEW w \in 0..(top - 1)
                 PROVE  Covers(z, w) \/ \E b \in used \ {c} : Holds(b, w)
    BY DEF NoneLost
  <2>2. w \in Nat
    OBVIOUS
  <2>3. Covers(list, w) \/ \E b \in used : Holds(b, w)
    BY <1>0 DEF NoneLost
  <2> QED
    BY <1>8, <2>2, <2>3
<1>12. Below(z, top)
  <2>1. SUFFICES ASSUME NEW k \in 1..Len(z) PROVE End(z[k]) <= top
    BY DEF Below
  <2>2. z[k].at \in Nat /\ z[k].size \in Nat \ {0} /\ End(z[k]) \in Nat /\ z[k].at < End(z[k])
    BY <1>7, GapFacts
  <2> DEFINE w == End(z[k]) - 1
  <2>3. w \in Nat /\ Holds(z[k], w) /\ End(z[k]) = w + 1
    BY <2>2 DEF Holds
  <2>4. Covers(z, w)
    BY <2>3 DEF Covers
  <2> HIDE DEF w
  <2>5. CASE Holds(c, w)
    BY <1>1, <2>3, <2>5 DEF Holds
  <2>6. CASE Covers(list, w)
    <3>1. PICK j \in 1..Len(list) : Holds(list[j], w)
      BY <2>6 DEF Covers
    <3>2. End(list[j]) \in Nat /\ End(list[j]) <= top
      BY <1>0, GapFacts DEF Below
    <3> QED
      BY <2>3, <3>1, <3>2 DEF Holds
  <2> QED
    BY <1>8, <2>3, <2>4, <2>5, <2>6
<1> QED
  BY <1>7, <1>9, <1>10, <1>11, <1>12 DEF Sound

(* The last free block goes back to the end of the pool.                   *)
LEMMA TrimmedSound ==
  ASSUME NEW top \in Nat, NEW list, NEW used, Sound(top, list, used), Below(list, top),
         list # <<>>, Last(list).at + Last(list).size = top
  PROVE  /\ Last(list).at \in Nat /\ Last(list).at <= top
         /\ Sound(Last(list).at, Front(list), used)
         /\ StrictlyBelow(Front(list), Last(list).at)
<1> DEFINE n == Len(list)
           l == list[n]
           t == l.at
           z == Front(list)
<1>0. Gaps(list) /\ Spaced(list) /\ InUse(top, used) /\ AllApart(list, used) /\ NoneLost(top, list, used)
  BY DEF Sound
<1>1. list \in Seq(Piece) /\ n \in Nat /\ n >= 1 /\ n \in 1..n /\ Last(list) = l
  BY <1>0 DEF Gaps, Last
<1>2. t \in Nat /\ End(l) \in Nat /\ t < End(l) /\ End(l) = top
  <2>1. l.at \in Nat /\ End(l) \in Nat /\ l.at < End(l)
    BY <1>0, <1>1, GapFacts
  <2> QED
    BY <1>1, <2>1 DEF End
<1>3. z \in Seq(Piece) /\ Len(z) = n - 1 /\ \A k \in 1..(n - 1) : z[k] = list[k]
  <2>1. n - 1 \in Nat /\ 1 \in Nat \ {0} /\ n - 1 <= Len(list)
    BY <1>1
  <2>2. \A m \in Nat : (IF 1 <= m THEN m - 1 + 1 ELSE 0) = m /\ m - 1 + 1 = m
    OBVIOUS
  <2>3. \A k \in Nat : 1 + k - 1 = k
    OBVIOUS
  <2>4. z = SubSeq(list, 1, n - 1)
    BY DEF Front
  <2> HIDE DEF n, z
  <2> QED
    BY <1>1, <2>1, <2>2, <2>3, <2>4, Part
<1> HIDE DEF z
<1>4. \A k \in 1..(n - 1) : k \in 1..n /\ k < n
  BY <1>1
<1>5. StrictlyBelow(z, t)
  BY <1>0, <1>1, <1>3, <1>4 DEF StrictlyBelow, Spaced
<1>6. Gaps(z)
  BY <1>0, <1>3, <1>4 DEF Gaps
<1>7. Spaced(z)
  BY <1>0, <1>3, <1>4 DEF Spaced
<1>8. AllApart(z, used)
  BY <1>0, <1>3, <1>4 DEF AllApart
<1>9. ASSUME NEW b \in used PROVE End(b) <= t
  <2>1. End(b) \in Nat /\ b.at \in Nat /\ b.at < End(b) /\ End(b) <= top
    BY <1>0, ClientFacts
  <2>2. Apart(b, l)
    BY <1>0, <1>1 DEF AllApart
  <2> QED
    BY <1>2, <2>1, <2>2 DEF Apart
<1>10. InUse(t, used)
  BY <1>0, <1>9, Zenon DEF InUse
<1>11. NoneLost(t, z, used)
  <2>1. SUFFICES ASSUME NEW w \in 0..(t - 1) PROVE Covers(z, w) \/ \E b \in used : Holds(b, w)
    BY DEF NoneLost
  <2>2. w \in 0..(top - 1) /\ w < t /\ w \in Nat
    BY <1>2
  <2>3. Covers(list, w) \/ \E b \in used : Holds(b, w)
    BY <1>0, <2>2 DEF NoneLost
  <2>4. ASSUME NEW k \in 1..n, Holds(list[k], w) PROVE Covers(z, w)
    <3>1. k # n
      BY <1>2, <2>2, <2>4 DEF Holds
    <3>2. k \in 1..(n - 1) /\ z[k] = list[k]
      BY <1>1, <1>3, <3>1
    <3> QED
      BY <1>3, <2>4, <3>2 DEF Covers
  <2> QED
    BY <2>3, <2>4 DEF Covers
<1>12. Sound(t, z, used)
  BY <1>6, <1>7, <1>8, <1>10, <1>11 DEF Sound
<1> HIDE DEF n
<1> QED
  BY <1>1, <1>2, <1>5, <1>12 DEF z

-----------------------------------------------------------------------------
(* What MPmalloc makes of one pool.                                        *)

(* The block that MPmalloc hands out.                                      *)
LEMMA BlockFacts ==
  ASSUME NEW at \in Nat, NEW size \in Nat, NEW wanted \in Wanted, NEW b, b = Block(at, size, wanted)
  PROVE  /\ b \in Client /\ b.at = at /\ b.size = size /\ b.wanted = wanted
         /\ ~b.lost /\ End(b) = at + size
BY DEF Block, Client, End

(* A block joins the blocks in use.                                        *)
LEMMA MoreInUse ==
  ASSUME NEW top \in Nat, NEW used, InUse(top, used), NEW b \in Client,
         b.size >= b.wanted + H, End(b) <= top, \A d \in used : Apart(d, b)
  PROVE  InUse(top, used \cup {b})
<1>1. used \cup {b} \in SUBSET Client
  BY DEF InUse
<1>2. \A d \in used \cup {b} : d.size >= d.wanted + H /\ End(d) <= top
  BY DEF InUse
<1>3. \A d \in used : Apart(b, d) /\ Apart(d, b)
  BY DEF Apart
<1>4. \A d, e \in used \cup {b} : d # e => Apart(d, e)
  BY <1>3 DEF InUse
<1> QED
  BY <1>1, <1>2, <1>4 DEF InUse

(* f_Top moves up by the new block.                                        *)
LEMMA TopSound ==
  ASSUME NEW top \in Nat, NEW list, NEW used, Sound(top, list, used), StrictlyBelow(list, top),
         NEW wanted \in Wanted, NEW b, b = Block(top, wanted + H, wanted)
  PROVE  /\ top + wanted + H \in Nat
         /\ Sound(top + wanted + H, list, used \cup {b})
         /\ StrictlyBelow(list, top + wanted + H)
<1> DEFINE t == top + wanted + H
<1>0. Gaps(list) /\ Spaced(list) /\ InUse(top, used) /\ AllApart(list, used) /\ NoneLost(top, list, used)
  BY DEF Sound
<1>1. H \in Nat /\ wanted \in Nat /\ t \in Nat /\ top <= t
  BY SizeAssumption
<1>2. /\ b \in Client /\ b.at = top /\ b.size = wanted + H /\ b.wanted = wanted /\ End(b) = t
  <2>1. wanted + H \in Nat /\ top + (wanted + H) = t
    BY <1>1
  <2> QED
    BY <2>1, BlockFacts
<1> HIDE DEF t
<1>3. \A k \in 1..Len(list) : End(list[k]) \in Nat /\ End(list[k]) < top
  BY <1>0, GapFacts DEF StrictlyBelow
<1>4. StrictlyBelow(list, t)
  BY <1>1, <1>3 DEF StrictlyBelow
<1>5. \A d \in used : End(d) \in Nat /\ End(d) <= top
  BY <1>0, ClientFacts
<1>6. InUse(t, used)
  <2>1. \A d \in used : End(d) <= t
    BY <1>1, <1>5
  <2> QED
    BY <1>0, <2>1, Zenon DEF InUse
<1>7. \A d \in used : Apart(d, b)
  BY <1>2, <1>5 DEF Apart
<1>8. InUse(t, used \cup {b})
  <2>1. b.size >= b.wanted + H /\ End(b) <= t
    BY <1>1, <1>2
  <2> QED
    BY <1>1, <1>2, <1>6, <1>7, <2>1, MoreInUse
<1>9. AllApart(list, used \cup {b})
  <2>1. \A k \in 1..Len(list) : Apart(b, list[k])
    BY <1>2, <1>3 DEF Apart
  <2> QED
    BY <1>0, <2>1 DEF AllApart
<1>10. NoneLost(t, list, used \cup {b})
  <2>1. SUFFICES ASSUME NEW w \in 0..(t - 1)
                 PROVE  Covers(list, w) \/ \E d \in used \cup {b} : Holds(d, w)
    BY DEF NoneLost
  <2>2. CASE w < top
    <3>1. w \in 0..(top - 1)
      BY <1>1, <2>2
    <3> QED
      BY <1>0, <3>1 DEF NoneLost
  <2>3. CASE ~(w < top)
    <3>1. Holds(b, w)
      BY <1>1, <1>2, <2>3 DEF Holds
    <3> QED
      BY <3>1
  <2> QED
    BY <2>2, <2>3
<1>11. Sound(t, list, used \cup {b})
  BY <1>0, <1>8, <1>9, <1>10 DEF Sound
<1> QED
  BY <1>1, <1>4, <1>11 DEF t

(* The two parts of a free block that is split.                            *)
Shortened(list, i, wanted) == [list EXCEPT ![i].size = @ - (wanted + H)]
EndOf(g, wanted) == Block(g.at + g.size - (wanted + H), wanted + H, wanted)

(* A free block keeps its beginning and gives its end.                     *)
LEMMA SplitSound ==
  ASSUME NEW top \in Nat, NEW list, NEW used, Sound(top, list, used), StrictlyBelow(list, top),
         NEW wanted \in Wanted, NEW i \in 1..Len(list), list[i].size >= wanted + H + H + 1,
         NEW z, z = Shortened(list, i, wanted), NEW b, b = EndOf(list[i], wanted)
  PROVE  Sound(top, z, used \cup {b}) /\ StrictlyBelow(z, top)
<1> DEFINE n == Len(list)
           need == wanted + H
           g == list[i]
           m == g.at + g.size - need
<1>0. Gaps(list) /\ Spaced(list) /\ InUse(top, used) /\ AllApart(list, used) /\ NoneLost(top, list, used)
  BY DEF Sound
<1>1. H \in Nat /\ wanted \in Nat \ {0} /\ need \in Nat /\ need > 0
  BY SizeAssumption
<1>2. g \in Piece /\ g.at \in Nat /\ g.size \in Nat /\ g.size >= need + H + 1 /\ End(g) = g.at + g.size
  <2>1. g \in Piece /\ g.at \in Nat /\ g.size \in Nat \ {0}
    BY <1>0, GapFacts
  <2> QED
    BY <1>1, <2>1 DEF End
<1>3. m \in Nat /\ m > g.at /\ m + need = End(g) /\ g.size - need \in Nat /\ g.size - need > H
      /\ g.at + (g.size - need) = m /\ m < End(g)
  <2>1. need \in Nat /\ g.at \in Nat /\ g.size \in Nat /\ H \in Nat
        /\ need > 0 /\ g.size >= need + H + 1 /\ End(g) = g.at + g.size
    BY <1>1, <1>2
  <2> HIDE DEF g, need
  <2>2. g.size - need \in Nat /\ g.size - need > H
    BY <2>1
  <2>3. m = g.at + (g.size - need)
    <3>1. \A a, e, c \in Nat : a + e - c = a + (e - c)
      OBVIOUS
    <3> QED
      BY <2>1, <3>1, Zenon
  <2> HIDE DEF m
  <2>4. m \in Nat /\ m > g.at
    <3>1. g.size - need > 0
      BY <2>1, <2>2
    <3>2. \A a, e \in Nat : e > 0 => a + e \in Nat /\ a + e > a
      OBVIOUS
    <3> QED
      BY <2>1, <2>2, <2>3, <3>1, <3>2, Zenon
  <2>5. m + need = End(g)
    <3>1. \A a, e, c \in Nat : (a + (e - c)) + c = a + e
      OBVIOUS
    <3>2. g.at \in Nat /\ g.size \in Nat /\ need \in Nat
      BY <2>1
    <3>3. (g.at + (g.size - need)) + need = g.at + g.size
      BY <3>1, <3>2, ZenonT(60)
    <3> QED
      BY <2>1, <2>3, <3>3, Zenon
  <2> QED
    BY <2>1, <2>2, <2>3, <2>4, <2>5
<1>4. /\ b \in Client /\ b.at = m /\ b.size = need /\ b.wanted = wanted /\ End(b) = End(g)
  <2> HIDE DEF m, need, g
  <2>1. b = Block(m, need, wanted)
    BY DEF m, need, g, EndOf
  <2>2. b \in Client /\ b.at = m /\ b.size = need /\ b.wanted = wanted /\ End(b) = m + need
    <3>1. m \in Nat /\ need \in Nat
      BY <1>1, <1>3
    <3> QED
      BY <2>1, <3>1 DEF Block, Client, End
  <2> QED
    BY <1>3, <2>2
<1>5. list \in Seq(Piece) /\ n \in Nat
  BY <1>0 DEF Gaps
<1> DEFINE h == [g EXCEPT !.size = @ - need]
<1>6. h \in Piece /\ h.at = g.at /\ h.size = g.size - need /\ End(h) = m
  BY <1>2, <1>3 DEF Piece, End
<1>7. z = [list EXCEPT ![i] = h]
  BY DEF Shortened
<1> HIDE DEF h
<1>8. z \in Seq(Piece) /\ Len(z) = n /\ z[i] = h /\ \A k \in 1..n : k # i => z[k] = list[k]
  BY <1>5, <1>6, <1>7
<1> HIDE DEF m, need
<1>9. \A k \in 1..n : /\ z[k].at = list[k].at /\ End(z[k]) <= End(list[k])
                      /\ End(z[k]) \in Nat /\ End(list[k]) \in Nat /\ list[k].at \in Nat
  <2>1. \A k \in 1..n : End(list[k]) \in Nat /\ list[k].at \in Nat
    BY <1>0, GapFacts
  <2>2. End(h) <= End(g) /\ End(h) \in Nat /\ End(g) \in Nat
    BY <1>3, <1>6, <2>1
  <2> QED
    <3> HIDE DEF n, g
    <3>1. \A k \in 1..n : End(list[k]) <= End(list[k])
      BY <2>1
    <3>2. list[i] = g /\ i \in 1..n
      BY DEF g, n
    <3>3. \A k \in 1..n : k # i => z[k].at = list[k].at /\ End(z[k]) = End(list[k])
      BY <1>8
    <3>4. z[i].at = g.at /\ End(z[i]) = End(h)
      BY <1>6, <1>8
    <3> QED
      BY <2>1, <2>2, <3>1, <3>2, <3>3, <3>4
<1> HIDE DEF n, g
<1>10. Gaps(z)
  <2>1. \A k \in 1..n : list[k].size > H
    BY <1>0 DEF Gaps, n
  <2> QED
    BY <1>3, <1>6, <1>8, <2>1 DEF Gaps
<1>11. Spaced(z)
  <2>1. \A j, k \in 1..n : j < k => End(list[j]) < list[k].at
    BY <1>0 DEF Spaced, n
  <2>2. \A j, k \in 1..n : j < k => End(z[j]) < z[k].at
    BY <1>9, <2>1, SMTT(30)
  <2> QED
    BY <1>8, <2>2 DEF Spaced
<1>12. StrictlyBelow(z, top)
  <2>1. \A k \in 1..n : End(list[k]) < top
    BY DEF StrictlyBelow, n
  <2> QED
    BY <1>8, <1>9, <2>1 DEF StrictlyBelow
<1>13. i \in 1..n /\ g = list[i] /\ End(g) < top /\ End(g) \in Nat
  BY <1>9 DEF n, g, StrictlyBelow
<1>14. \A d \in used : d.at \in Nat /\ End(d) \in Nat
  BY <1>0, ClientFacts
<1>15. \A d \in used : \A k \in 1..n : Apart(d, list[k])
  BY <1>0 DEF AllApart, n
<1>16. InUse(top, used \cup {b})
  <2>1. ASSUME NEW d \in used PROVE Apart(d, b)
    <3>1. Apart(d, g) /\ d.at \in Nat /\ End(d) \in Nat
      BY <1>13, <1>14, <1>15
    <3> QED
      BY <1>2, <1>3, <1>4, <3>1 DEF Apart
  <2>2. b.size >= b.wanted + H /\ End(b) <= top
    BY <1>1, <1>4, <1>13 DEF need
  <2> QED
    BY <1>0, <1>4, <2>1, <2>2, MoreInUse
<1>17. AllApart(z, used \cup {b})
  <2>1. ASSUME NEW d \in used, NEW k \in 1..n PROVE Apart(d, z[k])
    <3>1. Apart(d, list[k])
      BY <1>15
    <3> QED
      BY <1>9, <1>14, <3>1 DEF Apart
  <2>2. ASSUME NEW k \in 1..n PROVE Apart(b, z[k])
    <3>1. CASE k = i
      BY <1>3, <1>4, <1>6, <1>8, <3>1 DEF Apart
    <3>2. CASE k # i
      <4>1. z[k] = list[k]
        BY <1>8, <3>2
      <4>2. End(list[k]) < g.at \/ End(g) < list[k].at
        <5>1. k < i \/ i < k
          BY <1>5, <1>13, <3>2
        <5> QED
          BY <1>0, <1>13, <5>1 DEF Spaced, n
      <4>3. End(list[k]) \in Nat /\ list[k].at \in Nat
        BY <1>9
      <4> QED
        BY <1>2, <1>3, <1>4, <4>1, <4>2, <4>3, SMTT(30) DEF Apart
    <3> QED
      BY <3>1, <3>2
  <2> QED
    BY <1>8, <2>1, <2>2 DEF AllApart
<1>18. NoneLost(top, z, used \cup {b})
  <2>1. SUFFICES ASSUME NEW w \in 0..(top - 1)
                 PROVE  Covers(z, w) \/ \E d \in used \cup {b} : Holds(d, w)
    BY DEF NoneLost
  <2>2. Covers(list, w) \/ \E d \in used : Holds(d, w)
    BY <1>0 DEF NoneLost
  <2>3. ASSUME NEW k \in 1..n, Holds(list[k], w)
        PROVE  Holds(b, w) \/ Holds(z[k], w)
    <3>1. CASE k # i
      BY <1>8, <2>3, <3>1
    <3>2. CASE k = i
      <4>1. Holds(g, w)
        BY <1>13, <2>3, <3>2
      <4>2. Holds(b, w) \/ Holds(h, w)
        BY <1>2, <1>3, <1>4, <1>6, <4>1 DEF Holds
      <4> QED
        BY <1>8, <3>2, <4>2
    <3> QED
      BY <3>1, <3>2
  <2>4. Covers(list, w) => Covers(z, w) \/ Holds(b, w)
    BY <1>8, <2>3, Zenon DEF Covers, n
  <2> QED
    BY <2>2, <2>4
<1> QED
  BY <1>10, <1>11, <1>12, <1>16, <1>17, <1>18 DEF Sound

(* A free block is handed out as it is.                                    *)
LEMMA WholeSound ==
  ASSUME NEW top \in Nat, NEW list, NEW used, Sound(top, list, used), StrictlyBelow(list, top),
         NEW wanted \in Wanted, NEW i \in 1..Len(list), list[i].size >= wanted + H,
         NEW z, z = RemoveAt(list, i),
         NEW b, b = Block(list[i].at, list[i].size, wanted)
  PROVE  Sound(top, z, used \cup {b}) /\ StrictlyBelow(z, top)
<1> DEFINE n == Len(list)
           g == list[i]
<1>0. Gaps(list) /\ Spaced(list) /\ InUse(top, used) /\ AllApart(list, used) /\ NoneLost(top, list, used)
  BY DEF Sound
<1>1. list \in Seq(Piece) /\ n \in Nat
  BY <1>0 DEF Gaps
<1>2. g.at \in Nat /\ g.size \in Nat /\ End(g) = g.at + g.size /\ End(g) < top /\ End(g) \in Nat
  <2>1. g.at \in Nat /\ g.size \in Nat \ {0} /\ End(g) \in Nat
    BY <1>0, GapFacts
  <2> QED
    BY <2>1 DEF End, StrictlyBelow
<1>3. b \in Client /\ b.at = g.at /\ b.size = g.size /\ b.wanted = wanted /\ End(b) = End(g)
  <2> HIDE DEF g
  <2>1. b = Block(g.at, g.size, wanted)
    BY DEF g
  <2> QED
    <3>1. g.at \in Nat /\ g.size \in Nat
      BY <1>2
    <3>2. b \in Client /\ b.at = g.at /\ b.size = g.size /\ b.wanted = wanted /\ End(b) = g.at + g.size
      BY <2>1, <3>1 DEF Block, Client, End
    <3> QED
      BY <1>2, <3>2
<1>4. /\ z \in Seq(Piece) /\ Len(z) = n - 1
      /\ \A k \in 1..(n - 1) : (k < i => z[k] = list[k]) /\ (k >= i => z[k] = list[k + 1])
  <2>1. /\ z \in Seq(Piece) /\ Len(z) = Len(list) - 1
        /\ \A k \in 1..Len(z) : (k < i => z[k] = list[k]) /\ (k >= i => z[k] = list[k + 1])
    <3>1. list \in Seq(Piece)
      BY <1>1
    <3>2. z \in Seq(Piece) /\ Without(z, list, i)
      BY <3>1, Removed
    <3> QED
      BY <3>2 DEF Without
  <2> QED
    BY <2>1
<1> HIDE DEF n
<1>5. i \in 1..n /\ g = list[i]
  BY DEF n
<1> HIDE DEF g
<1> DEFINE from(k) == IF k < i THEN k ELSE k + 1
<1>6. \A k \in 1..(n - 1) : from(k) \in 1..n /\ from(k) # i /\ z[k] = list[from(k)]
  <2>1. SUFFICES ASSUME NEW k \in 1..(n - 1)
                 PROVE  from(k) \in 1..n /\ from(k) # i /\ z[k] = list[from(k)]
    OBVIOUS
  <2>2. CASE k < i
    <3>1. from(k) = k /\ k \in 1..n /\ k # i /\ z[k] = list[k]
      BY <1>1, <1>4, <1>5, <2>2
    <3> QED
      BY <3>1
  <2>3. CASE ~(k < i)
    <3>1. from(k) = k + 1 /\ k + 1 \in 1..n /\ k + 1 # i /\ k >= i
      BY <1>1, <1>5, <2>3
    <3>2. z[k] = list[k + 1]
      BY <1>4, <3>1
    <3> QED
      BY <3>1, <3>2
  <2> QED
    BY <2>2, <2>3
<1>7. \A j, k \in 1..(n - 1) : j < k => from(j) < from(k)
  BY <1>1, <1>5
<1>8. \A k \in 1..n : k # i => \E j \in 1..(n - 1) : from(j) = k
  <2>1. SUFFICES ASSUME NEW k \in 1..n, k # i PROVE \E j \in 1..(n - 1) : from(j) = k
    OBVIOUS
  <2>2. CASE k < i
    <3>1. k \in 1..(n - 1) /\ from(k) = k
      BY <1>1, <1>5, <2>2
    <3> QED
      BY <3>1
  <2>3. CASE k > i
    <3>1. k - 1 \in 1..(n - 1) /\ from(k - 1) = k
      BY <1>1, <1>5, <2>3
    <3> QED
      BY <3>1
  <2> QED
    BY <1>1, <1>5, <2>1, <2>2, <2>3
<1> HIDE DEF from
<1>9. \A k \in 1..n : End(list[k]) \in Nat /\ list[k].at \in Nat /\ list[k].size > H
  BY <1>0, GapFacts DEF n
<1>10. \A j, k \in 1..n : j < k => End(list[j]) < list[k].at
  BY <1>0 DEF Spaced, n
<1>11. Gaps(z)
  BY <1>4, <1>6, <1>9 DEF Gaps
<1>12. Spaced(z)
  <2>1. ASSUME NEW j \in 1..(n - 1), NEW k \in 1..(n - 1), j < k PROVE End(z[j]) < z[k].at
    <3>1. from(j) < from(k) /\ from(j) \in 1..n /\ from(k) \in 1..n
      BY <1>6, <1>7, <2>1
    <3>2. End(list[from(j)]) < list[from(k)].at
      BY <1>10, <3>1
    <3> QED
      BY <1>6, <3>2
  <2> QED
    BY <1>4, <2>1 DEF Spaced
<1>13. StrictlyBelow(z, top)
  <2>1. \A k \in 1..n : End(list[k]) < top
    BY DEF StrictlyBelow, n
  <2> QED
    BY <1>4, <1>6, <2>1 DEF StrictlyBelow
<1>14. \A d \in used : \A k \in 1..n : Apart(d, list[k])
  BY <1>0 DEF AllApart, n
<1>15. InUse(top, used \cup {b})
  <2>1. \A d \in used : Apart(d, b)
    BY <1>3, <1>5, <1>14 DEF Apart
  <2>2. b.size >= b.wanted + H /\ End(b) <= top
    BY <1>2, <1>3, <1>5
  <2> QED
    BY <1>0, <1>3, <2>1, <2>2, MoreInUse
<1>16. AllApart(z, used \cup {b})
  <2>1. \A d \in used : \A k \in 1..(n - 1) : Apart(d, z[k])
    BY <1>6, <1>14
  <2>2. ASSUME NEW k \in 1..n, k # i PROVE Apart(b, list[k])
    <3>1. k < i \/ i < k
      BY <1>1, <1>5, <2>2
    <3>2. End(list[k]) < g.at \/ End(g) < list[k].at
      BY <1>5, <1>10, <3>1
    <3> QED
      BY <1>2, <1>3, <1>9, <3>2 DEF Apart
  <2>3. \A k \in 1..(n - 1) : Apart(b, z[k])
    BY <1>6, <2>2
  <2> QED
    BY <1>4, <2>1, <2>3 DEF AllApart
<1>17. NoneLost(top, z, used \cup {b})
  <2>1. SUFFICES ASSUME NEW w \in 0..(top - 1)
                 PROVE  Covers(z, w) \/ \E d \in used \cup {b} : Holds(d, w)
    BY DEF NoneLost
  <2>2. Covers(list, w) \/ \E d \in used : Holds(d, w)
    BY <1>0 DEF NoneLost
  <2>3. ASSUME NEW k \in 1..n, Holds(list[k], w) PROVE Holds(b, w) \/ Covers(z, w)
    <3>1. CASE k # i
      <4>1. PICK j \in 1..(n - 1) : from(j) = k
        BY <1>8, <3>1
      <4>2. Holds(z[j], w)
        BY <1>6, <2>3, <4>1
      <4> QED
        BY <1>4, <4>2 DEF Covers
    <3>2. CASE k = i
      BY <1>3, <1>5, <2>3, <3>2 DEF Holds
    <3> QED
      BY <3>1, <3>2
  <2>4. Covers(list, w) => Covers(z, w) \/ Holds(b, w)
    BY <2>3, Zenon DEF Covers, n
  <2> QED
    BY <2>2, <2>4
<1> QED
  BY <1>11, <1>12, <1>13, <1>15, <1>16, <1>17 DEF Sound

-----------------------------------------------------------------------------
(* Pools.                                                                  *)

(* The fields of a pool.                                                   *)
LEMMA PoolFields ==
  ASSUME NEW p \in Pool
  PROVE  /\ p.f_PoolSize \in Nat /\ p.f_HiMem \in Nat /\ p.f_Top \in Nat
         /\ p.f_Free \in Seq(Piece) /\ p.used \in SUBSET Client
BY DEF Pool

(* A pool with another top, free list and set of blocks in use.            *)
LEMMA PoolUpdate ==
  ASSUME NEW p, PoolInv(p), NEW z, NEW top \in Nat, NEW list, NEW used,
         z \in [f_PoolSize : {p.f_PoolSize}, f_HiMem : {p.f_HiMem}, f_Top : {top},
                f_Free : {list}, used : {used}],
         top <= p.f_HiMem, StrictlyBelow(list, top), Sound(top, list, used)
  PROVE  PoolInv(z)
<1>1. p \in Pool /\ p.f_HiMem = p.f_PoolSize + H
  BY DEF PoolInv
<1>2. p.f_PoolSize \in Nat /\ p.f_HiMem \in Nat
  BY <1>1, PoolFields
<1>3. list \in Seq(Piece) /\ used \in SUBSET Client
  BY DEF Sound, Gaps, InUse
<1>4. /\ z.f_PoolSize = p.f_PoolSize /\ z.f_HiMem = p.f_HiMem /\ z.f_Top = top
      /\ z.f_Free = list /\ z.used = used
  OBVIOUS
<1>5. z \in Pool
  BY <1>2, <1>3 DEF Pool
<1> QED
  BY <1>1, <1>4, <1>5 DEF PoolInv

(* A new pool is sound: it has no block at all.                            *)
LEMMA InitInv ==
  ASSUME NEW size \in Nat
  PROVE  PoolInv(MPInit(size))
<1> DEFINE p == MPInit(size)
<1>1. H \in Nat
  BY SizeAssumption
<1>2. <<>> \in Seq(Piece) /\ Len(<<>>) = 0 /\ {} \in SUBSET Client /\ \A k \in 1..0 : FALSE
  OBVIOUS
<1>3. /\ p.f_PoolSize = size /\ p.f_HiMem = size + H /\ p.f_Top = 0
      /\ p.f_Free = <<>> /\ p.used = {}
  BY DEF MPInit
<1>4. p \in Pool
  BY <1>1, <1>2 DEF MPInit, Pool
<1>5. Gaps(<<>>) /\ Spaced(<<>>) /\ StrictlyBelow(<<>>, 0)
  BY <1>2 DEF Gaps, Spaced, StrictlyBelow
<1>6. InUse(0, {}) /\ AllApart(<<>>, {})
  BY <1>2 DEF InUse, AllApart
<1>7. NoneLost(0, <<>>, {})
  <2>1. \A w \in 0..(0 - 1) : FALSE
    OBVIOUS
  <2> QED
    BY <2>1 DEF NoneLost
<1>8. Sound(0, <<>>, {})
  BY <1>5, <1>6, <1>7 DEF Sound
<1> HIDE DEF p
<1>9. p.f_Top <= p.f_HiMem /\ p.f_HiMem = p.f_PoolSize + H
  BY <1>1, <1>3
<1>10. PoolInv(p)
  BY <1>3, <1>4, <1>5, <1>8, <1>9 DEF PoolInv
<1> QED
  BY <1>10 DEF p

(* Serving from the end of the pool, when there is room.                   *)
LEMMA TakeTopInv ==
  ASSUME NEW p, PoolInv(p), NEW wanted \in Wanted, p.f_Top + (wanted + H) <= p.f_HiMem,
         NEW z, z = TakeTop(p, wanted)
  PROVE  PoolInv(z) /\ p.used \subseteq z.used /\ z.used # {}
<1> DEFINE top == p.f_Top
           list == p.f_Free
           used == p.used
           b == Block(top, wanted + H, wanted)
           t == top + wanted + H
           more == used \cup {b}
<1>1. p \in Pool /\ StrictlyBelow(list, top) /\ Sound(top, list, used)
  BY DEF PoolInv
<1>2. H \in Nat /\ wanted \in Nat /\ top \in Nat /\ p.f_HiMem \in Nat
  BY <1>1, SizeAssumption, PoolFields
<1>3. z \in [f_PoolSize : {p.f_PoolSize}, f_HiMem : {p.f_HiMem}, f_Top : {t},
             f_Free : {list}, used : {more}]
  BY <1>1 DEF TakeTop, Pool
<1>4. t <= p.f_HiMem
  BY <1>2
<1>5. z.used = more
  BY <1>3
<1> HIDE DEF top, list, used, b
<1>6. t \in Nat /\ Sound(t, list, more) /\ StrictlyBelow(list, t)
  BY <1>1, <1>2, TopSound DEF b
<1> HIDE DEF t, more
<1>7. PoolInv(z)
  BY <1>3, <1>4, <1>6, PoolUpdate
<1> QED
  BY <1>5, <1>7 DEF more, used

(* Serving from a free block.                                              *)
LEMMA TakeFreeInv ==
  ASSUME NEW p, PoolInv(p), NEW wanted \in Wanted, NEW k \in BigEnough(p, wanted + H),
         NEW z, z = TakeFree(p, k, wanted)
  PROVE  PoolInv(z) /\ p.used \subseteq z.used /\ z.used # {}
<1> DEFINE top == p.f_Top
           list == p.f_Free
           used == p.used
           need == wanted + H
<1>1. p \in Pool /\ StrictlyBelow(list, top) /\ Sound(top, list, used) /\ top <= p.f_HiMem
  BY DEF PoolInv
<1>2. H \in Nat /\ wanted \in Nat /\ top \in Nat /\ p.f_HiMem \in Nat
  BY <1>1, SizeAssumption, PoolFields
<1>3. k \in 1..Len(list) /\ list[k].size >= need
  BY DEF BigEnough
<1>4. CASE list[k].size >= need + H + 1
  <2> DEFINE b == EndOf(list[k], wanted)
             rest == Shortened(list, k, wanted)
             more == used \cup {b}
  <2>1. z \in [f_PoolSize : {p.f_PoolSize}, f_HiMem : {p.f_HiMem}, f_Top : {top},
               f_Free : {rest}, used : {more}]
    BY <1>1, <1>4 DEF TakeFree, Pool, EndOf, Shortened
  <2>2. z.used = more
    BY <2>1
  <2> HIDE DEF top, list, used, b, rest
  <2>3. Sound(top, rest, more) /\ StrictlyBelow(rest, top)
    BY <1>1, <1>2, <1>3, <1>4, SplitSound DEF b, rest
  <2> HIDE DEF more
  <2>4. PoolInv(z)
    BY <1>1, <1>2, <2>1, <2>3, PoolUpdate
  <2> QED
    BY <2>2, <2>4 DEF more, used
<1>5. CASE ~(list[k].size >= need + H + 1)
  <2> DEFINE b == Block(list[k].at, list[k].size, wanted)
             rest == RemoveAt(list, k)
             more == used \cup {b}
  <2>1. z \in [f_PoolSize : {p.f_PoolSize}, f_HiMem : {p.f_HiMem}, f_Top : {top},
               f_Free : {rest}, used : {more}]
    BY <1>1, <1>5 DEF TakeFree, Pool
  <2>2. z.used = more
    BY <2>1
  <2> HIDE DEF top, list, used, b, rest
  <2>3. Sound(top, rest, more) /\ StrictlyBelow(rest, top)
    BY <1>1, <1>2, <1>3, <1>5, WholeSound DEF b, rest
  <2> HIDE DEF more
  <2>4. PoolInv(z)
    BY <1>1, <1>2, <2>1, <2>3, PoolUpdate
  <2> QED
    BY <2>2, <2>4 DEF more, used
<1> QED
  BY <1>4, <1>5

(* A pool that can serve a request does, from the first free block that    *)
(* is large enough, or from its end.                                       *)
LEMMA ServeInv ==
  ASSUME NEW p, PoolInv(p), NEW wanted \in Wanted, CanServe(p, wanted + H),
         NEW z, z = ServeFrom(p, wanted)
  PROVE  PoolInv(z) /\ p.used \subseteq z.used /\ z.used # {}
<1> DEFINE fits == BigEnough(p, wanted + H)
<1>1. CASE fits # {}
  <2>1. fits \in SUBSET Nat
    BY DEF BigEnough
  <2>2. Min(fits) \in fits
    <3> HIDE DEF fits
    <3> QED
      BY <1>1, <2>1, LeastMember
  <2>3. z = TakeFree(p, Min(fits), wanted)
    BY <1>1 DEF ServeFrom
  <2> QED
    BY <2>2, <2>3, TakeFreeInv
<1>2. CASE fits = {}
  <2>1. z = TakeTop(p, wanted) /\ p.f_Top + (wanted + H) <= p.f_HiMem
    BY <1>2 DEF ServeFrom, CanServe
  <2> QED
    BY <2>1, TakeTopInv
<1> QED
  BY <1>1, <1>2

(* A pool without a block in use has nothing left in it, so that MPfree    *)
(* disposes of it.                                                         *)
LEMMA EmptyPool ==
  ASSUME NEW p, PoolInv(p), p.used = {}
  PROVE  p.f_Free = <<>> /\ p.f_Top = 0
<1> DEFINE top == p.f_Top
           list == p.f_Free
<1>1. p \in Pool /\ StrictlyBelow(list, top) /\ Gaps(list) /\ NoneLost(top, list, {})
  BY DEF PoolInv, Sound
<1>2. top \in Nat /\ list \in Seq(Piece)
  BY <1>1, PoolFields
<1> HIDE DEF top, list
<1>3. \A k \in 1..Len(list) : End(list[k]) \in Nat /\ End(list[k]) < top
  BY <1>1, GapFacts DEF StrictlyBelow
<1>4. top = 0
  <2>1. SUFFICES ASSUME top # 0 PROVE FALSE
    OBVIOUS
  <2>2. top - 1 \in 0..(top - 1)
    BY <1>2, <2>1
  <2>3. PICK k \in 1..Len(list) : Holds(list[k], top - 1)
    BY <1>1, <2>2 DEF NoneLost, Covers
  <2> QED
    BY <1>2, <1>3, <2>3 DEF Holds
<1>5. Len(list) = 0
  <2>1. SUFFICES ASSUME Len(list) # 0 PROVE FALSE
    OBVIOUS
  <2>2. 1 \in 1..Len(list)
    BY <1>2, <2>1
  <2> QED
    BY <1>3, <1>4, <2>2
<1> QED
  BY <1>2, <1>4, <1>5 DEF top, list

(* Trim keeps a pool sound, and no free block touches f_Top afterwards.    *)
LEMMA TrimInv ==
  ASSUME NEW q, PoolInv(q), NEW p, NEW list, NEW used,
         p \in [f_PoolSize : {q.f_PoolSize}, f_HiMem : {q.f_HiMem}, f_Top : {q.f_Top},
                f_Free : {list}, used : {used}],
         Sound(q.f_Top, list, used), Below(list, q.f_Top), NEW z, z = Trim(p)
  PROVE  PoolInv(z) /\ z.used = used
<1> DEFINE top == q.f_Top
<1>1. q \in Pool /\ top \in Nat /\ q.f_HiMem \in Nat /\ top <= q.f_HiMem
  BY PoolFields DEF PoolInv
<1>2. p.f_Free = list /\ p.f_Top = top /\ p.used = used
  OBVIOUS
<1>3. CASE list # <<>> /\ Last(list).at + Last(list).size = top
  <2> DEFINE t == Last(list).at
             y == Front(list)
  <2>1. z = [p EXCEPT !.f_Top = t, !.f_Free = y]
    BY <1>2, <1>3 DEF Trim
  <2>2. z \in [f_PoolSize : {q.f_PoolSize}, f_HiMem : {q.f_HiMem}, f_Top : {t},
               f_Free : {y}, used : {used}]
    BY <2>1
  <2> HIDE DEF top
  <2>3. t \in Nat /\ t <= top /\ Sound(t, y, used) /\ StrictlyBelow(y, t)
    BY <1>1, <1>3, TrimmedSound DEF top
  <2> HIDE DEF t, y
  <2>4. t <= q.f_HiMem
    BY <1>1, <2>3
  <2>5. z.used = used
    BY <2>2
  <2>6. PoolInv(z)
    BY <2>2, <2>3, <2>4, PoolUpdate
  <2> QED
    BY <2>5, <2>6
<1>4. CASE ~(list # <<>> /\ Last(list).at + Last(list).size = top)
  <2>1. z = p
    BY <1>2, <1>4 DEF Trim
  <2>2. Gaps(list) /\ Spaced(list)
    BY DEF Sound
  <2> DEFINE n == Len(list)
  <2>3. list \in Seq(Piece) /\ n \in Nat
    BY <2>2 DEF Gaps
  <2>4. \A k \in 1..n : End(list[k]) \in Nat /\ list[k].at \in Nat /\ list[k].at < End(list[k])
                        /\ End(list[k]) <= top
    BY <2>2, GapFacts DEF Below
  <2>5. n # 0 => End(list[n]) # top /\ n \in 1..n
    <3>1. n # 0 => list # <<>> /\ Last(list) = list[n]
      BY <2>3 DEF Last
    <3> QED
      BY <1>4, <2>3, <3>1 DEF End
  <2>6. \A k \in 1..n : k < n => End(list[k]) < list[n].at
    BY <2>2, <2>3 DEF Spaced
  <2> HIDE DEF n, top
  <2>7. \A k \in 1..n : End(list[k]) < top
    <3>1. SUFFICES ASSUME NEW k \in 1..n PROVE End(list[k]) < top
      OBVIOUS
    <3>2. n # 0 /\ (k = n \/ k < n)
      BY <2>3
    <3>3. CASE k = n
      BY <1>1, <2>4, <2>5, <3>2, <3>3
    <3>4. CASE k < n
      BY <1>1, <2>4, <2>5, <2>6, <3>2, <3>4
    <3> QED
      BY <3>2, <3>3, <3>4
  <2>8. StrictlyBelow(list, top)
    BY <2>7 DEF StrictlyBelow, n
  <2>9. PoolInv(p)
    BY <1>1, <2>8, PoolUpdate DEF top
  <2> QED
    BY <1>2, <2>1, <2>9
<1> QED
  BY <1>3, <1>4

(* A block that MPfree refuses stays where it is.                          *)
LEMMA LostInv ==
  ASSUME NEW p, PoolInv(p), NEW b \in p.used, NEW z,
         z = [p EXCEPT !.used = (@ \ {b}) \cup {[b EXCEPT !.lost = TRUE]}]
  PROVE  PoolInv(z) /\ z.used # {}
<1> DEFINE top == p.f_Top
           list == p.f_Free
           used == p.used
           l == [b EXCEPT !.lost = TRUE]
           new == (used \ {b}) \cup {l}
<1>1. p \in Pool /\ StrictlyBelow(list, top) /\ Sound(top, list, used) /\ top <= p.f_HiMem
  BY DEF PoolInv
<1>2. top \in Nat
  BY <1>1, PoolFields
<1>3. Gaps(list) /\ Spaced(list) /\ InUse(top, used) /\ AllApart(list, used) /\ NoneLost(top, list, used)
  BY <1>1 DEF Sound
<1>4. z \in [f_PoolSize : {p.f_PoolSize}, f_HiMem : {p.f_HiMem}, f_Top : {top},
             f_Free : {list}, used : {new}]
  BY <1>1 DEF Pool
<1>5. b \in Client /\ b.size >= b.wanted + H /\ End(b) <= top
  BY <1>3 DEF InUse
<1>6. l \in Client /\ l.at = b.at /\ l.size = b.size /\ l.wanted = b.wanted
  BY <1>5 DEF Client
<1> HIDE DEF top, list, used, l
<1>7. End(l) = End(b) /\ \A d : (Apart(l, d) <=> Apart(b, d)) /\ (Apart(d, l) <=> Apart(d, b))
  BY <1>6 DEF End, Apart
<1>8. \A w : Holds(l, w) <=> Holds(b, w)
  BY <1>6, <1>7 DEF Holds
<1>9. b \in used
  BY DEF used
<1>10. \A d \in used : d # b => Apart(d, b) /\ Apart(b, d)
  BY <1>3, <1>9 DEF InUse
<1>11. InUse(top, used \ {b})
  BY <1>3, Zenon DEF InUse
<1>12. InUse(top, new)
  <2>1. \A d \in used \ {b} : Apart(d, l)
    BY <1>7, <1>10
  <2>2. l.size >= l.wanted + H /\ End(l) <= top
    BY <1>5, <1>6, <1>7
  <2> QED
    BY <1>2, <1>6, <1>11, <2>1, <2>2, MoreInUse
<1>13. AllApart(list, new)
  BY <1>3, <1>7, <1>9, Zenon DEF AllApart
<1>14. NoneLost(top, list, new)
  <2>1. \A w : (\E d \in used : Holds(d, w)) => \E d \in new : Holds(d, w)
    BY <1>8, Zenon
  <2> QED
    BY <1>3, <2>1, Zenon DEF NoneLost
<1>15. Sound(top, list, new)
  BY <1>3, <1>12, <1>13, <1>14 DEF Sound
<1>16. z.used = new /\ new # {}
  BY <1>4
<1> HIDE DEF new
<1>17. PoolInv(z)
  BY <1>1, <1>2, <1>4, <1>15, PoolUpdate
<1> QED
  BY <1>16, <1>17

-----------------------------------------------------------------------------
(* The chain of pools.                                                     *)

(* The larger of two sizes.                                                *)
LEMMA LargerOf ==
  ASSUME NEW a \in Nat, NEW b \in Nat
  PROVE  Max({a, b}) \in Nat /\ Max({a, b}) >= a /\ Max({a, b}) >= b
<1>1. \E x \in {a, b} : \A y \in {a, b} : x >= y
  <2>1. CASE a >= b
    BY <2>1
  <2>2. CASE b >= a
    BY <2>2
  <2> QED
    BY <2>1, <2>2
<1>2. Max({a, b}) \in {a, b} /\ \A y \in {a, b} : Max({a, b}) >= y
  BY <1>1, Zenon DEF Max
<1> QED
  BY <1>2

(* One pool of the chain changes.                                          *)
LEMMA ChainUpdate ==
  ASSUME NEW c, ChainInv(c), NEW i \in 1..Len(c), NEW p, PoolInv(p), i > 1 => p.used # {},
         NEW z, z = ReplaceAt(c, i, p)
  PROVE  /\ ChainInv(z) /\ Len(z) = Len(c) /\ z[i] = p
         /\ \A k \in 1..Len(c) : k # i => z[k] = c[k]
<1>1. c \in Seq(Pool) /\ p \in Pool /\ Len(c) \in 1..MaxPools
  BY DEF ChainInv, PoolInv
<1>2. /\ z \in Seq(Pool) /\ Len(z) = Len(c) /\ z[i] = p
      /\ \A k \in 1..Len(c) : k # i => z[k] = c[k]
  BY <1>1 DEF ReplaceAt
<1>3. \A k \in 1..Len(c) : PoolInv(c[k]) /\ (k > 1 => c[k].used # {})
  BY DEF ChainInv
<1>4. ASSUME NEW k \in 1..Len(z) PROVE PoolInv(z[k]) /\ (k > 1 => z[k].used # {})
  <2>1. k \in 1..Len(c)
    BY <1>2
  <2>2. CASE k = i
    BY <1>2, <2>2
  <2>3. CASE k # i
    BY <1>2, <1>3, <2>1, <2>3
  <2> QED
    BY <2>2, <2>3
<1> QED
  BY <1>1, <1>2, <1>4 DEF ChainInv

(* MPmalloc keeps the chain sound, and every block in use stays in use in  *)
(* its pool.                                                               *)
LEMMA MallocInv ==
  ASSUME NEW c, ChainInv(c), NEW wanted \in Wanted, NEW memory,
         ~memory \/ Len(c) < MaxPools, NEW z, z = MPmalloc(c, wanted, memory)
  PROVE  /\ ChainInv(z) /\ Len(c) <= Len(z)
         /\ \A k \in 1..Len(c) : c[k].used \subseteq z[k].used
<1> DEFINE able == Servers(c, wanted)
           size == Max({wanted + H, Last(c).f_PoolSize})
<1>1. /\ c \in Seq(Pool) /\ Len(c) \in Nat /\ Len(c) \in 1..MaxPools
      /\ \A k \in 1..Len(c) : PoolInv(c[k]) /\ (k > 1 => c[k].used # {})
  BY DEF ChainInv
<1>2. H \in Nat /\ wanted \in Nat /\ wanted + H \in Nat /\ MaxPools \in Nat
  BY SizeAssumption
<1>3. CASE able # {}
  <2> DEFINE i == Min(able)
             p == ServeFrom(c[i], wanted)
  <2>1. able \in SUBSET Nat
    BY DEF Servers
  <2>2. i \in able
    <3> HIDE DEF able
    <3> QED
      BY <1>3, <2>1, LeastMember
  <2>3. z = ReplaceAt(c, i, p)
    BY <1>3 DEF MPmalloc, ReplaceAt
  <2>4. i \in 1..Len(c) /\ CanServe(c[i], wanted + H)
    BY <2>2 DEF Servers
  <2> HIDE DEF i
  <2>5. PoolInv(c[i])
    BY <1>1, <2>4
  <2>6. PoolInv(p) /\ c[i].used \subseteq p.used /\ p.used # {}
    BY <2>4, <2>5, ServeInv
  <2> HIDE DEF p
  <2>7. /\ ChainInv(z) /\ Len(z) = Len(c) /\ z[i] = p
        /\ \A k \in 1..Len(c) : k # i => z[k] = c[k]
    <3>1. i \in 1..Len(c) /\ PoolInv(p) /\ (i > 1 => p.used # {})
      BY <2>4, <2>6
    <3> QED
      BY <2>3, <3>1, ChainUpdate
  <2>8. \A k \in 1..Len(c) : c[k].used \subseteq z[k].used
    BY <2>6, <2>7
  <2>9. Len(c) <= Len(z)
    BY <1>1, <2>7
  <2> QED
    BY <2>7, <2>8, <2>9
<1>4. CASE able = {} /\ memory
  <2> DEFINE q == MPInit(size)
             p == ServeFrom(q, wanted)
  <2>1. z = Append(c, p)
    BY <1>4, Zenon DEF MPmalloc
  <2>2. Last(c) \in Pool
    BY <1>1 DEF Last
  <2>3. size \in Nat /\ size >= wanted + H
    BY <1>2, <2>2, LargerOf, PoolFields
  <2> HIDE DEF size
  <2>4. PoolInv(q)
    BY <2>3, InitInv
  <2>5. CanServe(q, wanted + H)
    <3>1. q.f_Top = 0 /\ q.f_HiMem = size + H
      BY DEF MPInit
    <3>2. q.f_Top + (wanted + H) <= q.f_HiMem
      BY <1>2, <2>3, <3>1
    <3> QED
      BY <3>2 DEF CanServe
  <2> HIDE DEF q
  <2>6. PoolInv(p) /\ p.used # {}
    BY <2>4, <2>5, ServeInv
  <2> HIDE DEF p
  <2>7. p \in Pool
    BY <2>6 DEF PoolInv
  <2>8. z \in Seq(Pool) /\ Len(z) = Len(c) + 1 /\ z[Len(c) + 1] = p
        /\ \A k \in 1..Len(c) : z[k] = c[k]
    BY <1>1, <2>1, <2>7
  <2>9. Len(z) \in 1..MaxPools /\ Len(c) <= Len(z)
    <3>1. Len(c) < MaxPools
      BY <1>4, Zenon
    <3> QED
      BY <1>1, <1>2, <2>8, <3>1
  <2>10. ASSUME NEW k \in 1..Len(z) PROVE PoolInv(z[k]) /\ (k > 1 => z[k].used # {})
    <3>1. k \in 1..Len(c) \/ k = Len(c) + 1
      BY <1>1, <2>8
    <3>2. CASE k \in 1..Len(c)
      BY <1>1, <2>8, <3>2
    <3>3. CASE k = Len(c) + 1
      BY <2>6, <2>8, <3>3
    <3> QED
      BY <3>1, <3>2, <3>3
  <2>11. ChainInv(z)
    BY <2>8, <2>9, <2>10 DEF ChainInv
  <2> QED
    BY <2>8, <2>9, <2>11
<1>5. CASE able = {} /\ ~memory
  <2>1. z = c
    BY <1>5, Zenon DEF MPmalloc
  <2> QED
    BY <1>1, <2>1
<1> QED
  BY <1>3, <1>4, <1>5, Zenon

(* MPfree keeps the chain sound: joined, trimmed, and without pools in     *)
(* which nothing is left.                                                  *)
LEMMA FreeInv ==
  ASSUME NEW c, ChainInv(c), NEW i \in 1..Len(c), NEW b \in c[i].used,
         NEW z, z = MPfree(c, i, b)
  PROVE  ChainInv(z)
<1>1. /\ c \in Seq(Pool) /\ Len(c) \in Nat /\ Len(c) \in 1..MaxPools /\ PoolInv(c[i])
  BY DEF ChainInv
<1> DEFINE q == c[i]
<1>2. CASE b.size > q.f_PoolSize
  <2> DEFINE p == [q EXCEPT !.used = (@ \ {b}) \cup {[b EXCEPT !.lost = TRUE]}]
  <2>1. z = ReplaceAt(c, i, p)
    BY <1>2 DEF MPfree, ReplaceAt
  <2>2. PoolInv(p) /\ p.used # {}
    <3> HIDE DEF q
    <3>1. b \in q.used /\ PoolInv(q)
      BY <1>1 DEF q
    <3> QED
      BY <3>1, LostInv
  <2> HIDE DEF p
  <2> QED
    BY <2>1, <2>2, ChainUpdate
<1>3. CASE ~(b.size > q.f_PoolSize)
  <2> DEFINE list == Compact(Insert(q.f_Free, Gap(b.at, b.size)))
             p == [q EXCEPT !.used = @ \ {b}, !.f_Free = list]
             t == Trim(p)
             y == ReplaceAt(c, i, t)
  <2>1. z = Unlink(y, i)
    BY <1>3 DEF MPfree, ReplaceAt
  <2> HIDE DEF q
  <2>2. b \in q.used /\ PoolInv(q)
    BY <1>1 DEF q
  <2>3. /\ q \in Pool /\ Sound(q.f_Top, q.f_Free, q.used)
        /\ StrictlyBelow(q.f_Free, q.f_Top) /\ q.f_Top \in Nat
    BY <2>2, PoolFields DEF PoolInv
  <2>4. Below(q.f_Free, q.f_Top)
    <3>1. Gaps(q.f_Free)
      BY <2>3 DEF Sound
    <3>2. \A k \in 1..Len(q.f_Free) : End(q.f_Free[k]) \in Nat /\ End(q.f_Free[k]) < q.f_Top
      BY <2>3, <3>1, GapFacts DEF StrictlyBelow
    <3> QED
      BY <2>3, <3>2 DEF Below
  <2>5. Sound(q.f_Top, list, q.used \ {b}) /\ Below(list, q.f_Top)
    BY <2>2, <2>3, <2>4, FreedSound
  <2>6. p \in [f_PoolSize : {q.f_PoolSize}, f_HiMem : {q.f_HiMem}, f_Top : {q.f_Top},
               f_Free : {list}, used : {q.used \ {b}}]
    <3> HIDE DEF list
    <3> QED
      BY <2>3 DEF Pool
  <2> HIDE DEF list, p
  <2>7. PoolInv(t)
    BY <2>2, <2>5, <2>6, TrimInv
  <2> HIDE DEF t
  <2>8. t \in Pool
    BY <2>7 DEF PoolInv
  <2>9. /\ y \in Seq(Pool) /\ Len(y) = Len(c) /\ y[i] = t
        /\ \A k \in 1..Len(c) : k # i => y[k] = c[k]
    BY <1>1, <2>8 DEF ReplaceAt
  <2>10. CASE i > 1 /\ t.f_Free = <<>> /\ t.f_Top = 0
    <3>1. z = RemoveAt(y, i)
      BY <2>1, <2>9, <2>10 DEF Unlink
    <3> HIDE DEF y
    <3>2. /\ z \in Seq(Pool) /\ Len(z) = Len(y) - 1
          /\ \A k \in 1..Len(z) : (k < i => z[k] = y[k]) /\ (k >= i => z[k] = y[k + 1])
      <4>1. y \in Seq(Pool) /\ i \in 1..Len(y)
        BY <2>9
      <4>2. z \in Seq(Pool) /\ Without(z, y, i)
        BY <3>1, <4>1, Removed
      <4> QED
        BY <4>2 DEF Without
    <3>3. Len(z) \in 1..MaxPools /\ Len(z) = Len(c) - 1
      <4>1. MaxPools \in Nat
        BY SizeAssumption
      <4>2. i \in Nat /\ i > 1 /\ i <= Len(c) /\ Len(c) <= MaxPools /\ Len(z) = Len(c) - 1
        BY <1>1, <2>9, <2>10, <3>2
      <4> QED
        BY <1>1, <4>1, <4>2
    <3>4. ASSUME NEW k \in 1..Len(z) PROVE PoolInv(z[k]) /\ (k > 1 => z[k].used # {})
      <4>1. CASE k < i
        <5>1. k \in 1..Len(c) /\ z[k] = c[k]
          BY <1>1, <2>9, <3>2, <3>3, <4>1
        <5> QED
          BY <5>1 DEF ChainInv
      <4>2. CASE k >= i
        <5>1. k + 1 \in 1..Len(c) /\ k + 1 # i /\ k + 1 > 1
          BY <1>1, <3>3, <4>2
        <5>2. z[k] = c[k + 1]
          BY <2>9, <3>2, <4>2, <5>1
        <5> QED
          BY <5>1, <5>2 DEF ChainInv
      <4> QED
        BY <4>1, <4>2
    <3> QED
      BY <3>2, <3>3, <3>4 DEF ChainInv
  <2>11. CASE ~(i > 1 /\ t.f_Free = <<>> /\ t.f_Top = 0)
    <3>1. z = y
      BY <2>1, <2>9, <2>11 DEF Unlink
    <3>2. i > 1 => t.used # {}
      BY <2>7, <2>11, EmptyPool
    <3> QED
      BY <2>7, <3>1, <3>2, ChainUpdate
  <2> QED
    BY <2>10, <2>11
<1> QED
  BY <1>2, <1>3

(* A chain of one new pool.                                                *)
LEMMA FreshInv == ChainInv(<<MPInit(PoolSize)>>)
<1> DEFINE p == MPInit(PoolSize)
           c == <<p>>
<1>1. PoolSize \in Nat /\ MaxPools \in Nat \ {0}
  BY SizeAssumption
<1>2. PoolInv(p)
  BY <1>1, InitInv
<1>3. p \in Pool
  BY <1>2 DEF PoolInv
<1> HIDE DEF p
<1>4. c \in Seq(Pool) /\ Len(c) = 1 /\ c[1] = p
  BY <1>3
<1>5. \A k \in 1..1 : k = 1 /\ ~(k > 1)
  OBVIOUS
<1>6. Len(c) \in 1..MaxPools
  BY <1>1, <1>4
<1> HIDE DEF c
<1>7. ChainInv(c)
  BY <1>2, <1>4, <1>5, <1>6 DEF ChainInv
<1> QED
  BY <1>7 DEF c, p

-----------------------------------------------------------------------------
(* What the session does keeps the invariant.                              *)

(* There is memory for another pool only below the bound.                  *)
LEMMA MemoryBound ==
  ASSUME NEW m \in Memory
  PROVE  ~m \/ Len(chain) < MaxPools
<1>1. CASE Len(chain) < MaxPools
  BY <1>1, Zenon
<1>2. CASE ~(Len(chain) < MaxPools)
  <2>1. m = FALSE
    BY <1>2, Zenon DEF Memory
  <2> QED
    BY <2>1, Zenon
<1> QED
  BY <1>1, <1>2, Zenon

(* Every step of a session keeps the invariant.                            *)
LEMMA NextInv == IInv /\ [Next]_vars => IInv'
<1> SUFFICES ASSUME IInv, [Next]_vars PROVE IInv'
  OBVIOUS
<1>1. CASE lshmalloc
  <2>1. PICK w \in Wanted, m \in Memory : chain' = MPmalloc(chain, w, m)
    BY <1>1, Zenon DEF lshmalloc
  <2>2. ~m \/ Len(chain) < MaxPools
    BY MemoryBound, Zenon
  <2>3. ChainInv(chain) /\ ChainInv(MPmalloc(chain, w, m))
    BY <2>2, MallocInv, Zenon DEF IInv
  <2> QED
    BY <2>1, <2>3, Zenon DEF IInv
<1>2. CASE lshfree
  <2>1. PICK i \in 1..Len(chain) : \E b \in chain[i].used : chain' = MPfree(chain, i, b)
    BY <1>2, Zenon DEF lshfree
  <2>2. PICK b \in chain[i].used : chain' = MPfree(chain, i, b)
    BY <2>1, Zenon
  <2>3. ChainInv(chain')
    BY <2>1, <2>2, FreeInv, Zenon DEF IInv
  <2> QED
    BY <2>3, Zenon DEF IInv
<1>3. CASE lshrealloc
  <2>1. PICK i \in 1..Len(chain), w \in Wanted, m \in Memory :
          \E b \in chain[i].used : chain' = MPfree(MPmalloc(chain, w, m), i, b)
    BY <1>3, Zenon DEF lshrealloc
  <2>2. PICK b \in chain[i].used : chain' = MPfree(MPmalloc(chain, w, m), i, b)
    BY <2>1, Zenon
  <2>3. ~m \/ Len(chain) < MaxPools
    BY MemoryBound, Zenon
  <2> DEFINE c == MPmalloc(chain, w, m)
  <2>4. ChainInv(chain)
    BY DEF IInv
  <2>5. /\ ChainInv(c) /\ Len(chain) <= Len(c)
        /\ \A k \in 1..Len(chain) : chain[k].used \subseteq c[k].used
    BY <2>3, <2>4, MallocInv, Zenon
  <2>6. chain' = MPfree(c, i, b)
    BY <2>2
  <2> HIDE DEF c
  <2>7. i \in 1..Len(c) /\ b \in c[i].used
    <3>1. Len(chain) \in Nat /\ Len(c) \in Nat
      BY <2>4, <2>5 DEF ChainInv
    <3>2. i \in 1..Len(c)
      BY <2>1, <2>5, <3>1
    <3>3. b \in c[i].used
      BY <2>1, <2>2, <2>5, Zenon
    <3> QED
      BY <3>2, <3>3
  <2>8. ChainInv(chain')
    BY <2>5, <2>6, <2>7, FreeInv, Zenon
  <2> QED
    BY <2>8, Zenon DEF IInv
<1>4. CASE MPDispose
  BY <1>4, FreshInv, Zenon DEF MPDispose, IInv
<1>5. CASE UNCHANGED vars
  BY <1>5 DEF vars, IInv
<1> QED
  BY <1>1, <1>2, <1>3, <1>4, <1>5, Zenon DEF Next

(* In every state of the chain of pools the blocks in use and the free     *)
(* blocks are apart, the free blocks in order and spaced, and no word      *)
(* below f_Top belongs to neither.                                         *)
THEOREM MemPoolInvariant == Spec => []IInv
<1>1. Init => IInv
  BY FreshInv, Zenon DEF Init, IInv
<1> QED
  BY <1>1, NextInv, PTL DEF Spec

-----------------------------------------------------------------------------
(* What the invariant says of the properties.                              *)

(* A pool never hands out more than it has, and every block in use is      *)
(* large enough for what was asked of MPmalloc.                            *)
THEOREM MemPoolTypes == Spec => []TypeOK
<1>1. IInv => TypeOK
  <2> SUFFICES ASSUME IInv PROVE TypeOK
    OBVIOUS
  <2>1. Len(chain) \in 1..MaxPools
    BY DEF IInv, ChainInv
  <2>2. ASSUME NEW i \in 1..Len(chain)
        PROVE  /\ chain[i].f_Top \in 0..chain[i].f_HiMem
               /\ \A b \in chain[i].used : b.wanted \in Wanted /\ b.size >= b.wanted + H
    <3> DEFINE p == chain[i]
    <3>1. PoolInv(p)
      BY DEF IInv, ChainInv
    <3> HIDE DEF p
    <3>2. p \in Pool /\ p.f_Top <= p.f_HiMem /\ InUse(p.f_Top, p.used)
      BY <3>1 DEF PoolInv, Sound
    <3>3. p.f_Top \in Nat /\ p.f_HiMem \in Nat
      BY <3>2, PoolFields
    <3>4. p.f_Top \in 0..p.f_HiMem
      BY <3>2, <3>3
    <3>5. \A b \in p.used : b.wanted \in Wanted /\ b.size >= b.wanted + H
      BY <3>2, <3>3, ClientFacts DEF InUse
    <3> QED
      BY <3>4, <3>5 DEF p
  <2> QED
    BY <2>1, <2>2 DEF TypeOK
<1> QED
  BY <1>1, MemPoolInvariant, PTL

(* The words of a block, as a set and as bounds.                           *)
LEMMA WordsOf ==
  ASSUME NEW b, b.at \in Nat, b.size \in Nat \ {0}
  PROVE  \A w : w \in Words(b) <=> w \in Nat /\ Holds(b, w)
BY DEF Words, Holds, End

(* The blocks of a pool: each one, as a place and a size, is a free block  *)
(* or one in use.                                                          *)
LEMMA BlocksOf ==
  ASSUME NEW p, PoolInv(p), NEW g \in Blocks(p)
  PROVE  /\ g.at \in Nat /\ g.size \in Nat \ {0} /\ End(g) \in Nat /\ End(g) <= p.f_Top
         /\ \/ \E k \in 1..Len(p.f_Free) : g = p.f_Free[k]
            \/ \E b \in p.used : g = Gap(b.at, b.size) /\ g.at = b.at /\ End(g) = End(b)
<1>1. p \in Pool /\ StrictlyBelow(p.f_Free, p.f_Top) /\ Gaps(p.f_Free) /\ InUse(p.f_Top, p.used)
  BY DEF PoolInv, Sound
<1>2. p.f_Top \in Nat /\ p.f_Free \in Seq(Piece)
  BY <1>1, PoolFields
<1>3. CASE g \in ToSet(p.f_Free)
  <2>1. PICK k \in 1..Len(p.f_Free) : g = p.f_Free[k]
    BY <1>2, <1>3 DEF ToSet
  <2>2. g.at \in Nat /\ g.size \in Nat \ {0} /\ End(g) \in Nat
    BY <1>1, <2>1, GapFacts
  <2>3. End(g) < p.f_Top
    BY <1>1, <2>1 DEF StrictlyBelow
  <2> QED
    BY <1>2, <2>1, <2>2, <2>3
<1>4. CASE g \in {Gap(b.at, b.size) : b \in p.used}
  <2>1. PICK b \in p.used : g = Gap(b.at, b.size)
    BY <1>4
  <2>2. b.at \in Nat /\ b.size \in Nat \ {0} /\ End(b) \in Nat /\ End(b) <= p.f_Top
    BY <1>1, <1>2, ClientFacts
  <2>3. g.at = b.at /\ g.size = b.size /\ End(g) = End(b)
    BY <2>1 DEF Gap, End
  <2> QED
    BY <2>1, <2>2, <2>3
<1> QED
  BY <1>3, <1>4 DEF Blocks

(* Two different blocks of a pool, free or in use, are apart.              *)
LEMMA BlocksApart ==
  ASSUME NEW p, PoolInv(p), NEW g \in Blocks(p), NEW h \in Blocks(p), g # h
  PROVE  Apart(g, h)
<1> DEFINE list == p.f_Free
           used == p.used
           Free(x) == \E k \in 1..Len(list) : x = list[k]
           Busy(x) == \E b \in used : x = Gap(b.at, b.size) /\ x.at = b.at /\ End(x) = End(b)
<1>1. p \in Pool /\ Gaps(list) /\ Spaced(list) /\ InUse(p.f_Top, used) /\ AllApart(list, used)
  BY DEF PoolInv, Sound
<1>2. (Free(g) \/ Busy(g)) /\ (Free(h) \/ Busy(h))
  BY BlocksOf, Zenon
<1>3. g.at \in Nat /\ End(g) \in Nat /\ h.at \in Nat /\ End(h) \in Nat
  BY BlocksOf
<1> HIDE DEF list, used
<1>4. CASE Free(g) /\ Free(h)
  <2>1. PICK j \in 1..Len(list), k \in 1..Len(list) : g = list[j] /\ h = list[k]
    BY <1>4
  <2>2. j < k \/ k < j
    BY <2>1
  <2>3. End(g) < h.at \/ End(h) < g.at
    BY <1>1, <2>1, <2>2 DEF Spaced
  <2> QED
    BY <1>3, <2>3 DEF Apart
<1>5. CASE Free(g) /\ Busy(h)
  BY <1>1, <1>5 DEF AllApart, Apart
<1>6. CASE Busy(g) /\ Free(h)
  BY <1>1, <1>6 DEF AllApart, Apart
<1>7. CASE Busy(g) /\ Busy(h)
  <2>1. PICK b \in used, d \in used :
          /\ g = Gap(b.at, b.size) /\ g.at = b.at /\ End(g) = End(b)
          /\ h = Gap(d.at, d.size) /\ h.at = d.at /\ End(h) = End(d)
    BY <1>7
  <2>2. b # d
    BY <2>1
  <2>3. Apart(b, d)
    BY <1>1, <2>2 DEF InUse
  <2> QED
    BY <2>1, <2>3 DEF Apart
<1> QED
  BY <1>2, <1>4, <1>5, <1>6, <1>7

(* No two blocks of a pool overlap, whatever was split, joined, refused or *)
(* given back, and no word below f_Top is lost.                            *)
THEOREM Tiling == Spec => []BlocksTile
<1>1. IInv => BlocksTile
  <2> SUFFICES ASSUME IInv, NEW i \in 1..Len(chain)
               PROVE  LET p == chain[i]
                      IN  /\ UNION {Words(b) : b \in Blocks(p)} = 0..(p.f_Top - 1)
                          /\ \A b, d \in Blocks(p) : b # d => Words(b) \cap Words(d) = {}
                          /\ \A b \in p.used : Gap(b.at, b.size) \notin ToSet(p.f_Free)
    BY Zenon DEF BlocksTile
  <2> DEFINE p == chain[i]
             top == p.f_Top
  <2>1. PoolInv(p)
    BY DEF IInv, ChainInv
  <2> HIDE DEF p
  <2>2. /\ p \in Pool /\ Gaps(p.f_Free) /\ InUse(top, p.used) /\ AllApart(p.f_Free, p.used)
        /\ NoneLost(top, p.f_Free, p.used)
    BY <2>1 DEF PoolInv, Sound
  <2>3. top \in Nat /\ p.f_Free \in Seq(Piece)
    BY <2>2, PoolFields
  <2>4. \A g \in Blocks(p) : /\ g.at \in Nat /\ g.size \in Nat \ {0}
                             /\ End(g) \in Nat /\ End(g) <= top
    BY <2>1, BlocksOf
  <2>5. \A g \in Blocks(p) : \A w : w \in Words(g) <=> w \in Nat /\ Holds(g, w)
    BY <2>4, WordsOf
  <2>6. \A k \in 1..Len(p.f_Free) : p.f_Free[k] \in Blocks(p)
    BY <2>3 DEF Blocks, ToSet
  <2>7. \A b \in p.used : Gap(b.at, b.size) \in Blocks(p)
    BY DEF Blocks
  <2>8. UNION {Words(b) : b \in Blocks(p)} = 0..(top - 1)
    <3>1. ASSUME NEW g \in Blocks(p), NEW w \in Words(g) PROVE w \in 0..(top - 1)
      <4>1. w \in Nat /\ Holds(g, w)
        BY <2>5
      <4>2. End(g) \in Nat /\ End(g) <= top
        BY <2>4
      <4> QED
        BY <2>3, <4>1, <4>2 DEF Holds
    <3>2. ASSUME NEW w \in 0..(top - 1) PROVE \E g \in Blocks(p) : w \in Words(g)
      <4>0. w \in Nat
        OBVIOUS
      <4>1. CASE Covers(p.f_Free, w)
        BY <2>5, <2>6, <4>0, <4>1, Zenon DEF Covers
      <4>2. CASE \E b \in p.used : Holds(b, w)
        <5>1. PICK b \in p.used : Holds(b, w)
          BY <4>2
        <5>2. Gap(b.at, b.size).at = b.at /\ End(Gap(b.at, b.size)) = End(b)
          BY DEF Gap, End
        <5>3. Holds(Gap(b.at, b.size), w)
          BY <5>1, <5>2 DEF Holds
        <5> QED
          BY <2>5, <2>7, <4>0, <5>3, Zenon
      <4> QED
        BY <2>2, <4>1, <4>2, Zenon DEF NoneLost
    <3> QED
      BY <3>1, <3>2, Zenon
  <2>9. ASSUME NEW b \in Blocks(p), NEW d \in Blocks(p), b # d
        PROVE  Words(b) \cap Words(d) = {}
    <3>1. Apart(b, d)
      BY <2>1, <2>9, BlocksApart
    <3>2. b.at \in Nat /\ End(b) \in Nat /\ d.at \in Nat /\ End(d) \in Nat
      BY <2>4
    <3>3. \A w : ~(w \in Words(b) /\ w \in Words(d))
      <4>1. SUFFICES ASSUME NEW w, w \in Words(b), w \in Words(d) PROVE FALSE
        OBVIOUS
      <4>2. w \in Nat /\ Holds(b, w) /\ Holds(d, w)
        BY <2>5, <4>1
      <4> QED
        BY <3>1, <3>2, <4>2 DEF Holds, Apart
    <3> QED
      BY <3>3, Zenon
  <2>10. ASSUME NEW b \in p.used PROVE Gap(b.at, b.size) \notin ToSet(p.f_Free)
    <3>1. SUFFICES ASSUME Gap(b.at, b.size) \in ToSet(p.f_Free) PROVE FALSE
      OBVIOUS
    <3>2. PICK k \in 1..Len(p.f_Free) : p.f_Free[k] = Gap(b.at, b.size)
      BY <2>3, <3>1 DEF ToSet
    <3>3. p.f_Free[k].at = b.at /\ End(p.f_Free[k]) = End(b)
      BY <3>2 DEF Gap, End
    <3>4. Apart(b, p.f_Free[k])
      BY <2>2 DEF AllApart
    <3>5. b.at \in Nat /\ End(b) \in Nat /\ b.at < End(b)
      BY <2>2, <2>3, ClientFacts
    <3> QED
      BY <3>3, <3>4, <3>5 DEF Apart
  <2> QED
    BY <2>8, <2>9, <2>10 DEF p
<1> QED
  BY <1>1, MemPoolInvariant, PTL

(* The free list is ordered and fully joined, none of its blocks touches   *)
(* f_Top, and no pool but the first stays without a block in use.          *)
THEOREM TidyLists == Spec => []FreeListIsTidy
<1>1. IInv => FreeListIsTidy
  <2> SUFFICES ASSUME IInv, NEW i \in 1..Len(chain)
               PROVE  /\ \A k \in 1..Len(chain[i].f_Free) :
                           chain[i].f_Free[k].at + chain[i].f_Free[k].size
                             < IF k < Len(chain[i].f_Free) THEN chain[i].f_Free[k + 1].at
                               ELSE chain[i].f_Top
                      /\ i > 1 => chain[i].used # {}
    BY Zenon DEF FreeListIsTidy
  <2> DEFINE p == chain[i]
             list == p.f_Free
  <2>1. PoolInv(p) /\ (i > 1 => p.used # {})
    BY DEF IInv, ChainInv
  <2> HIDE DEF p
  <2>2. Spaced(list) /\ StrictlyBelow(list, p.f_Top) /\ Gaps(list)
    BY <2>1 DEF PoolInv, Sound
  <2> HIDE DEF list
  <2>3. Len(list) \in Nat
    BY <2>2 DEF Gaps
  <2>4. ASSUME NEW k \in 1..Len(list)
        PROVE  End(list[k]) < IF k < Len(list) THEN list[k + 1].at ELSE p.f_Top
    <3>1. CASE k < Len(list)
      <4>1. k + 1 \in 1..Len(list) /\ k < k + 1
        BY <2>3, <3>1
      <4> QED
        BY <2>2, <3>1, <4>1 DEF Spaced
    <3>2. CASE ~(k < Len(list))
      BY <2>2, <3>2 DEF StrictlyBelow
    <3> QED
      BY <3>1, <3>2
  <2> QED
    BY <2>1, <2>4 DEF p, list, End
<1> QED
  BY <1>1, MemPoolInvariant, PTL

(* The assertions on the blocks of the free list hold.  Behind every free  *)
(* block lies one in use, with its header: that is why a free block is     *)
(* never larger than f_PoolSize, although the pool is larger than that.    *)
THEOREM Assertions == Spec => []AssertsHold
<1>1. IInv => AssertsHold
  <2> SUFFICES ASSUME IInv, NEW i \in 1..Len(chain), NEW g \in ToSet(chain[i].f_Free)
               PROVE  /\ g.at <= chain[i].f_HiMem - H
                      /\ g.size > H
                      /\ g.size <= chain[i].f_PoolSize
    BY Zenon DEF AssertsHold
  <2> DEFINE p == chain[i]
             list == p.f_Free
             top == p.f_Top
  <2>0. H \in Nat
    BY SizeAssumption
  <2>1. PoolInv(p) /\ g \in ToSet(list)
    BY DEF IInv, ChainInv
  <2> HIDE DEF p
  <2>2. /\ p \in Pool /\ Gaps(list) /\ Spaced(list) /\ StrictlyBelow(list, top)
        /\ InUse(top, p.used) /\ AllApart(list, p.used) /\ NoneLost(top, list, p.used)
        /\ top <= p.f_HiMem /\ p.f_HiMem = p.f_PoolSize + H
    BY <2>1 DEF PoolInv, Sound
  <2>3. top \in Nat /\ list \in Seq(Piece) /\ p.f_HiMem \in Nat /\ p.f_PoolSize \in Nat
    BY <2>2, PoolFields
  <2> HIDE DEF list, top
  <2>4. PICK k \in 1..Len(list) : g = list[k]
    BY <2>1, <2>3 DEF ToSet
  <2>5. /\ g.at \in Nat /\ g.size \in Nat /\ g.size > H /\ End(g) \in Nat
        /\ End(g) = g.at + g.size /\ End(g) < top
    <3>1. g.at \in Nat /\ g.size \in Nat \ {0} /\ g.size > H /\ End(g) \in Nat
      BY <2>2, <2>4, GapFacts
    <3>2. End(g) < top
      BY <2>2, <2>4 DEF StrictlyBelow
    <3> QED
      BY <3>1, <3>2 DEF End
  <2> DEFINE w == End(g)
  <2>6. w \in 0..(top - 1) /\ w \in Nat
    BY <2>3, <2>5
  <2>7. ~Covers(list, w)
    <3>1. SUFFICES ASSUME NEW j \in 1..Len(list), Holds(list[j], w) PROVE FALSE
      BY DEF Covers
    <3>2. list[j].at \in Nat /\ End(list[j]) \in Nat /\ list[j].at < End(list[j])
      BY <2>2, GapFacts
    <3>3. list[j].at <= w /\ w < End(list[j])
      BY <3>1 DEF Holds
    <3>4. CASE j = k
      BY <2>4, <2>5, <3>3, <3>4
    <3>5. CASE k < j
      <4>1. End(list[k]) < list[j].at
        BY <2>2, <3>5 DEF Spaced
      <4> QED
        BY <2>4, <2>5, <3>2, <3>3, <4>1
    <3>6. CASE j < k
      <4>1. End(list[j]) < list[k].at
        BY <2>2, <3>6 DEF Spaced
      <4> QED
        BY <2>4, <2>5, <3>2, <3>3, <4>1
    <3> QED
      BY <3>4, <3>5, <3>6
  <2>8. PICK b \in p.used : Holds(b, w)
    BY <2>2, <2>6, <2>7, Zenon DEF NoneLost
  <2>9. b.at \in Nat /\ b.size \in Nat /\ b.size > H /\ End(b) \in Nat /\ End(b) <= top
    BY <2>2, <2>3, <2>8, ClientFacts
  <2>10. Apart(b, g)
    BY <2>2, <2>4, <2>8 DEF AllApart
  <2>11. b.at = w
    <3>1. b.at <= w /\ w < End(b)
      BY <2>8 DEF Holds
    <3>2. End(b) <= g.at \/ w <= b.at
      BY <2>10 DEF Apart
    <3>3. w \in Nat /\ g.at <= w
      BY <2>5
    <3> HIDE DEF w
    <3> QED
      BY <2>5, <2>9, <3>1, <3>2, <3>3
  <2>12. End(b) = b.at + b.size
    BY DEF End
  <2>13. w + H < top
    <3> HIDE DEF w
    <3> QED
      BY <2>0, <2>3, <2>6, <2>9, <2>11, <2>12
  <2>14. w < p.f_PoolSize
    <3>1. \A v, h, t, n \in Nat : v + h < t /\ t <= n + h => v < n
      OBVIOUS
    <3>2. top <= p.f_PoolSize + H
      BY <2>2, Zenon
    <3> HIDE DEF w
    <3> QED
      BY <2>0, <2>3, <2>6, <2>13, <3>1, <3>2, Zenon
  <2>15. g.at <= p.f_PoolSize /\ g.size <= p.f_PoolSize
    <3>1. \A a, e, n \in Nat : a + e < n => a <= n /\ e <= n
      OBVIOUS
    <3>2. g.at + g.size < p.f_PoolSize
      BY <2>5, <2>14
    <3> QED
      BY <2>3, <2>5, <3>1, <3>2, Zenon
  <2>16. p.f_HiMem - H = p.f_PoolSize
    <3>1. \A n, h \in Nat : (n + h) - h = n
      OBVIOUS
    <3> QED
      BY <2>0, <2>2, <2>3, <3>1, Zenon
  <2> QED
    BY <2>5, <2>15, <2>16 DEF p
<1> QED
  BY <1>1, MemPoolInvariant, PTL

=============================================================================
