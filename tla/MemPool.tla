------------------------------ MODULE MemPool ------------------------------
(***************************************************************************)
(* The allocator of an SSH session (lsh/MacOS/src/MemPool.c), which serves *)
(* lshmalloc, lshcalloc, lshrealloc and lshfree of macssh/source/ssh/ssh2.c*)
(* for the one thread that owns the pool.                                  *)
(*                                                                         *)
(* A session starts with one pool and chains further pools to it when it   *)
(* needs them.  Sizes and addresses count words of four bytes, the unit to *)
(* which MPmalloc rounds; an address is an offset in its pool.  Contents   *)
(* are not modelled, nor the statistics f_CurrSize and f_PeakSize, which   *)
(* nothing reads.                                                          *)
(***************************************************************************)
EXTENDS Naturals, Sequences, SequencesExt, FiniteSetsExt

CONSTANTS
  H,         \* MEMHSIZE, the header of a block
  PoolSize,  \* what the first MPInit is asked for
  Wanted,    \* the sizes that are asked for
  MaxPools   \* bound: no memory for more pools than this

ASSUME SizeAssumption ==
  /\ H \in Nat \ {0} /\ PoolSize \in Nat \ {0} /\ MaxPools \in Nat \ {0}
  /\ Wanted \subseteq Nat \ {0}

VARIABLE
  chain      \* the pools, in the order of their next pointers

vars == <<chain>>

(* MPInit: a pool of allocsize words and room for one more header.  used   *)
(* holds the blocks given to the client (lost: the client has freed it but *)
(* MPfree refused); free is the free list, in the order of nextBlock.      *)
MPInit(allocsize) ==
  [f_PoolSize |-> allocsize, f_HiMem |-> allocsize + H, f_Top |-> 0,
   f_Free |-> <<>>, used |-> {}]

Block(at, size, wanted) == [at |-> at, size |-> size, wanted |-> wanted, lost |-> FALSE]
Gap(at, size) == [at |-> at, size |-> size]

Init == chain = <<MPInit(PoolSize)>>

-----------------------------------------------------------------------------
(* MPmalloc.                                                               *)

BigEnough(p, need) == {k \in 1..Len(p.f_Free) : p.f_Free[k].size >= need}

(* A slip that TypeOK rules out: the limit does not count the header.      *)
CanServeBare(p, need) == BigEnough(p, need) # {} \/ p.f_Top + need - H <= p.f_HiMem

CanServe(p, need) == BigEnough(p, need) # {} \/ p.f_Top + need <= p.f_HiMem

(* A slip that BlocksTile rules out: the remainder of a split is not       *)
(* shortened.                                                              *)
TakeFreeWhole(p, k, wanted) ==
  LET need == wanted + H
      gap  == p.f_Free[k]
  IN  IF gap.size >= need + H + 1
      THEN [p EXCEPT !.used = @ \cup {Block(gap.at + gap.size - need, need, wanted)}]
      ELSE [p EXCEPT !.f_Free = RemoveAt(@, k),
                     !.used = @ \cup {Block(gap.at, gap.size, wanted)}]

(* A slip that AssertsHold rules out: split even when the rest cannot hold *)
(* a header.                                                               *)
TakeFreeTight(p, k, wanted) ==
  LET need == wanted + H
      gap  == p.f_Free[k]
  IN  [p EXCEPT !.f_Free[k].size = @ - need,
                !.used = @ \cup {Block(gap.at + gap.size - need, need, wanted)}]

(* Serve from the free block at position k: from its end when what remains *)
(* can be a block of its own, else all of it.                              *)
TakeFree(p, k, wanted) ==
  LET need == wanted + H
      gap  == p.f_Free[k]
  IN  IF gap.size >= need + H + 1
      THEN [p EXCEPT !.f_Free[k].size = @ - need,
                     !.used = @ \cup {Block(gap.at + gap.size - need, need, wanted)}]
      ELSE [p EXCEPT !.f_Free = RemoveAt(@, k),
                     !.used = @ \cup {Block(gap.at, gap.size, wanted)}]

(* Serve from the untouched end of the pool.                               *)
TakeTop(p, wanted) ==
  [p EXCEPT !.f_Top = @ + wanted + H,
            !.used = @ \cup {Block(p.f_Top, wanted + H, wanted)}]

ServeFrom(p, wanted) ==
  LET fits == BigEnough(p, wanted + H)
  IN  IF fits # {} THEN TakeFree(p, Min(fits), wanted) ELSE TakeTop(p, wanted)

Servers(c, wanted) == {i \in 1..Len(c) : CanServe(c[i], wanted + H)}

(* The chain after MPmalloc(wanted): the first pool that can serves; if    *)
(* none can, a new pool at the end does, when there is memory for it.      *)
MPmalloc(c, wanted, memory) ==
  LET able == Servers(c, wanted)
      size == Max({wanted + H, Last(c).f_PoolSize})
  IN  IF able # {} THEN [c EXCEPT ![Min(able)] = ServeFrom(@, wanted)]
      ELSE IF memory THEN Append(c, ServeFrom(MPInit(size), wanted))
      ELSE c

-----------------------------------------------------------------------------
(* MPfree.                                                                 *)

(* A slip that FreeListIsTidy rules out: newly freed blocks go first.      *)
InsertFirst(list, gap) == <<gap>> \o list

(* Insert by address: before the first block that lies behind the freed    *)
(* one while the one before it does not.                                   *)
Insert(list, gap) ==
  LET Behind(k) == gap.at < list[k].at /\ (k = 1 \/ list[k - 1].at < gap.at)
  IN  InsertAt(list, Min({k \in 1..Len(list) : Behind(k)} \cup {Len(list) + 1}), gap)

(* Join a free block to the one before it when they touch.                 *)
Join(list, gap) ==
  IF list # <<>> /\ Last(list).at + Last(list).size = gap.at
  THEN Front(list) \o <<Gap(Last(list).at, Last(list).size + gap.size)>>
  ELSE Append(list, gap)

(* The loop over the free list: joined[k] is what has become of its first  *)
(* k blocks.                                                               *)
Compact(list) ==
  LET joined[k \in 0..Len(list)] == IF k = 0 THEN <<>> ELSE Join(joined[k - 1], list[k])
  IN  joined[Len(list)]

(* Give the last free block back to the end of the pool when it touches it.*)
Trim(p) ==
  IF p.f_Free # <<>> /\ Last(p.f_Free).at + Last(p.f_Free).size = p.f_Top
  THEN [p EXCEPT !.f_Top = Last(p.f_Free).at, !.f_Free = Front(@)]
  ELSE p

(* Dispose of pool i when nothing is left in it, but never of the first:   *)
(* "it's the only one known by the caller".                                *)
Unlink(c, i) ==
  IF i > 1 /\ c[i].f_Free = <<>> /\ c[i].f_Top = 0 THEN RemoveAt(c, i) ELSE c

(* The chain after MPfree of block b of pool i.  A block larger than       *)
(* f_PoolSize is refused as a "bad size".                                  *)
MPfree(c, i, b) ==
  IF b.size > c[i].f_PoolSize
  THEN [c EXCEPT ![i].used = (@ \ {b}) \cup {[b EXCEPT !.lost = TRUE]}]
  ELSE LET p == [c[i] EXCEPT !.used = @ \ {b},
                             !.f_Free = Compact(Insert(@, Gap(b.at, b.size)))]
       IN  Unlink([c EXCEPT ![i] = Trim(p)], i)

-----------------------------------------------------------------------------
(* What the session does.  Whether a new pool can be had is not under its  *)
(* control.                                                                *)
Memory == IF Len(chain) < MaxPools THEN BOOLEAN ELSE {FALSE}

lshmalloc == \E w \in Wanted, m \in Memory : chain' = MPmalloc(chain, w, m)

lshfree ==
  \E i \in 1..Len(chain) :
    \E b \in {u \in chain[i].used : ~u.lost} : chain' = MPfree(chain, i, b)

(* Allocate, copy, free the old block, even when there was no new one.     *)
lshrealloc ==
  \E i \in 1..Len(chain), w \in Wanted, m \in Memory :
    \E b \in {u \in chain[i].used : ~u.lost} :
       chain' = MPfree(MPmalloc(chain, w, m), i, b)

(* The thread is over, or starts again: MPDispose and MPInit.              *)
MPDispose == chain' = <<MPInit(PoolSize)>>

Next == lshmalloc \/ lshfree \/ lshrealloc \/ MPDispose

Spec == Init /\ [][Next]_vars

-----------------------------------------------------------------------------
TypeOK ==
  /\ Len(chain) \in 1..MaxPools
  /\ \A i \in 1..Len(chain) :
       /\ chain[i].f_Top \in 0..chain[i].f_HiMem
       /\ \A b \in chain[i].used : b.wanted \in Wanted /\ b.size >= b.wanted + H

(* The words of a pool that a set or list of blocks covers.                *)
Words(b) == b.at..(b.at + b.size - 1)
Blocks(p) == {Gap(b.at, b.size) : b \in p.used} \cup ToSet(p.f_Free)

(* In every pool the blocks in use and the free blocks cover everything    *)
(* below f_Top exactly once: no two allocations overlap and no word is     *)
(* lost between splits, joins and refused frees.                           *)
BlocksTile ==
  \A i \in 1..Len(chain) :
    LET p == chain[i]
    IN  /\ UNION {Words(b) : b \in Blocks(p)} = 0..(p.f_Top - 1)
        /\ \A b, d \in Blocks(p) : b # d => Words(b) \cap Words(d) = {}
        /\ \A b \in p.used : Gap(b.at, b.size) \notin ToSet(p.f_Free)

(* After every operation the free list is in address order and fully       *)
(* joined: no two free blocks touch, none touches f_Top, and a pool other  *)
(* than the first, which is disposed of when its last block is freed,      *)
(* holds a block in use.                                                   *)
FreeListIsTidy ==
  \A i \in 1..Len(chain) :
    LET p == chain[i]
    IN  /\ \A k \in 1..Len(p.f_Free) :
             p.f_Free[k].at + p.f_Free[k].size
               < IF k < Len(p.f_Free) THEN p.f_Free[k + 1].at ELSE p.f_Top
        /\ i > 1 => p.used # {}

(* The assertions !BADBLOCK(memPool, mp) on the blocks of the free list    *)
(* never fail, although joined blocks grow and split blocks shrink.        *)
AssertsHold ==
  \A i \in 1..Len(chain) :
    \A g \in ToSet(chain[i].f_Free) :
      /\ g.at <= chain[i].f_HiMem - H
      /\ g.size > H
      /\ g.size <= chain[i].f_PoolSize

=============================================================================
