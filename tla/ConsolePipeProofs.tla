------------------------- MODULE ConsolePipeProofs -------------------------
(***************************************************************************)
(* Proofs about ConsolePipe, for any texts, buffer and block sizes, lengths *)
(* of what is sent and numbers of keystrokes.                              *)
(*                                                                         *)
(* Input: whatever calls are nested, what the shell has read, the input    *)
(* buffer and what is left of the unfinished sends, innermost first, are   *)
(* one sequence that only RSsendstring changes: it puts a new send in the  *)
(* middle.                                                                 *)
(*                                                                         *)
(* Output: what has been interpreted, what is left of the block in         *)
(* gReadspace and the output buffer are one text, which is the rendering   *)
(* of what WriteCharsToTTY has taken so far.  That needs that no block is  *)
(* read while another is still parsed, which the answer to a query in the  *)
(* middle of the text would bring about (QueryLast).                       *)
(***************************************************************************)
EXTENDS ConsolePipe, SequenceTheorems, WellFoundedInduction, TLAPS

(* The characters that can be in a buffer.                                 *)
Chars == (UNION {ToSet(s) : s \in Streams}) \cup {CR, LF}

(* A call of the main thread that has some of the bytes E to send.         *)
FrameOf(E) == [op : {"parse", "push", "write", "full"}, pos : Nat, cnt : Nat, rest : Seq(E)]

(* A call of parse is about what is in the first g places of gReadspace.   *)
Parsing(c, g) == c.op = "parse" => c.rest = <<>> /\ c.pos \in 1 .. c.cnt /\ c.cnt <= g

StackOf(st, E, g) ==
  /\ st \in Seq(FrameOf(E))
  /\ \A i \in 1 .. Len(st) : Parsing(st[i], g)

OutputTypes ==
  /\ stream \in Streams
  /\ taken \in 0 .. Len(stream) /\ n \in 0 .. (Len(stream) - taken)
  /\ outBuf \in Seq(Chars) /\ Len(outBuf) <= OutMax
  /\ gReadspace \in Seq(Chars) /\ Len(gReadspace) <= BlockSize
  /\ screen \in Seq(Chars)
  /\ lastCR \in BOOLEAN /\ condata \in BOOLEAN /\ locked \in BOOLEAN

InputTypes ==
  /\ sends \in Nat /\ keys \in 0 .. MaxKeys
  /\ inBuf \in Seq(Byte) /\ shell \in Seq(Byte)
  /\ Len(inBuf) <= InMax

StackTypes == StackOf(stack, Byte, Len(gReadspace))

(* The input as one sequence.                                              *)
All == shell \o inBuf \o Unsent

Ordered(all) ==
  \A i, j \in 1 .. Len(all) : i < j /\ all[i][1] = all[j][1] => all[i][2] < all[j][2]

IInv == OutputTypes /\ InputTypes /\ StackTypes /\ InputConserved

-----------------------------------------------------------------------------
(* The output as one text.                                                 *)

(* The terminal is asked nothing before the end of the text.               *)
QueryLast == \A s \in Streams : \A i \in 1 .. Len(s) : s[i] = Query => i = Len(s)

(* What is left of the block g that the innermost call parses.             *)
PendingOf(st, g) ==
  IF st # <<>> /\ Head(st).op = "parse" THEN SubSeq(g, Head(st).pos, Head(st).cnt) ELSE <<>>

(* No call parses, or only the innermost one.                              *)
Quiet(st) == \A i \in 1 .. Len(st) : st[i].op # "parse"
Shallow(st) == \A i \in 2 .. Len(st) : st[i].op # "parse"

(* No bare line end in a text, which ends in a CR if cr.                   *)
Tidy(text, cr) ==
  /\ \A i \in 1 .. Len(text) :
       /\ text[i] = LF => i > 1 /\ text[i - 1] = CR
       /\ text[i] = CR /\ i < Len(text) => text[i + 1] \in {LF, ESC}
  /\ cr <=> text # <<>> /\ text[Len(text)] = CR

(* The text is what becomes of the first t characters of s; a query is the *)
(* last one of all.                                                        *)
Shows(s, t, text, cr) ==
  /\ text = Rendering(SubSeq(s, 1, t))
  /\ cr <=> t > 0 /\ s[t] = CR
  /\ \A i \in 1 .. Len(text) : text[i] = Query => i = Len(text) /\ t = Len(s)
  /\ Tidy(text, cr)

Text == (screen \o PendingOf(stack, gReadspace)) \o outBuf

TextInv == Shows(stream, taken, Text, lastCR) /\ Shallow(stack)

-----------------------------------------------------------------------------
(* Recursive functions over a sequence.                                    *)

(* Induction up to n, for a set instead of a predicate.                    *)
LEMMA CountTo ==
  ASSUME NEW m \in Nat, NEW S, 0 \in S,
         \A k \in 0 .. m : k \in S /\ k < m => k + 1 \in S
  PROVE  \A k \in 0 .. m : k \in S
<1> DEFINE T == {k \in 0 .. m : k \notin S}
<1>1. SUFFICES ASSUME T # {} PROVE FALSE
  OBVIOUS
<1>2. T \in SUBSET Nat
  OBVIOUS
<1> HIDE DEF T
<1>3. PICK x \in T : \A y \in T : ~(<<y, x>> \in OpToRel(<, Nat))
  BY <1>1, <1>2, NatLessThanWellFounded, WFMin
<1>4. x \in 0 .. m /\ x \notin S /\ x # 0
  BY <1>3 DEF T
<1> DEFINE y == x - 1
<1>5. y \in 0 .. m /\ y < m /\ y < x /\ y + 1 = x /\ y \in Nat /\ x \in Nat
  BY <1>4
<1> HIDE DEF y
<1>6. <<y, x>> \in OpToRel(<, Nat)
  <2>1. <<y, x>> \in Nat \X Nat /\ <<y, x>>[1] = y /\ <<y, x>>[2] = x
    BY <1>5
  <2>2. <<y, x>>[1] < <<y, x>>[2]
    BY <1>5, <2>1
  <2> QED
    BY <2>1, <2>2, Zenon DEF OpToRel
<1>7. y \notin T
  BY <1>3, <1>6, Zenon
<1>8. y \in S
  BY <1>5, <1>7 DEF T
<1> QED
  BY <1>4, <1>5, <1>8

(* The same from 1 on.                                                     *)
LEMMA CountUp ==
  ASSUME NEW m \in Nat, NEW S, m > 0 => 1 \in S,
         \A k \in 1 .. m : k \in S /\ k < m => k + 1 \in S
  PROVE  \A k \in 1 .. m : k \in S
<1> DEFINE T == {k \in 0 .. m : k = 0 \/ k \in S}
<1>1. 0 \in T
  OBVIOUS
<1>2. \A k \in 0 .. m : k \in T /\ k < m => k + 1 \in T
  OBVIOUS
<1>3. \A k \in 0 .. m : k \in T
  <2> HIDE DEF T
  <2> QED
    BY <1>1, <1>2, CountTo
<1> QED
  BY <1>3

(* f puts the first m sequences together one by one, as FlattenSeq does.   *)
Joining(seqs, m, f) ==
  f = [i \in 1 .. m |-> IF i = 1 THEN seqs[i] ELSE f[i - 1] \o seqs[i]]

LEMMA JoiningExists ==
  ASSUME NEW seqs, NEW N \in Nat
  PROVE  \E f : Joining(seqs, N, f)
<1> DEFINE S == {m \in 0 .. N : \E f : Joining(seqs, m, f)}
<1>1. 0 \in S
  <2>1. Joining(seqs, 0, [i \in 1 .. 0 |-> 0])
    BY DEF Joining
  <2> QED
    BY <2>1
<1>2. ASSUME NEW m \in 0 .. N, m \in S, m < N PROVE m + 1 \in S
  <2>1. PICK f : Joining(seqs, m, f)
    BY <1>2
  <2> DEFINE g == [i \in 1 .. m + 1 |->
                     IF i = m + 1 THEN IF i = 1 THEN seqs[i] ELSE f[m] \o seqs[i] ELSE f[i]]
  <2>2. ASSUME NEW i \in 1 .. m + 1
        PROVE  g[i] = IF i = 1 THEN seqs[i] ELSE g[i - 1] \o seqs[i]
    <3>1. CASE i = m + 1
      <4>1. i # 1 => m \in 1 .. m + 1 /\ i - 1 = m /\ m # m + 1
        BY <3>1, <1>2
      <4>2. i # 1 => g[i - 1] = f[m]
        BY <4>1
      <4>3. g[i] = IF i = 1 THEN seqs[i] ELSE f[m] \o seqs[i]
        BY <3>1
      <4> HIDE DEF g
      <4> QED
        BY <4>2, <4>3
    <3>2. CASE i # m + 1
      <4>1. i \in 1 .. m
        BY <3>2, <1>2
      <4>2. g[i] = f[i] /\ f[i] = IF i = 1 THEN seqs[i] ELSE f[i - 1] \o seqs[i]
        BY <2>1, <3>2, <4>1 DEF Joining
      <4>3. i # 1 => i - 1 \in 1 .. m + 1 /\ i - 1 # m + 1 /\ g[i - 1] = f[i - 1]
        BY <4>1
      <4> HIDE DEF g
      <4> QED
        BY <4>2, <4>3
    <3> QED
      BY <3>1, <3>2
  <2>3. Joining(seqs, m + 1, g)
    <3>1. g = [i \in 1 .. m + 1 |-> g[i]]
      OBVIOUS
    <3> HIDE DEF g
    <3>2. [i \in 1 .. m + 1 |-> g[i]]
            = [i \in 1 .. m + 1 |-> IF i = 1 THEN seqs[i] ELSE g[i - 1] \o seqs[i]]
      BY <2>2
    <3>3. g = [i \in 1 .. m + 1 |-> IF i = 1 THEN seqs[i] ELSE g[i - 1] \o seqs[i]]
      BY <3>1, <3>2, Zenon
    <3> QED
      BY <3>3, Zenon DEF Joining
  <2> HIDE DEF g
  <2> QED
    BY <1>2, <2>3
<1>3. N \in S
  <2> HIDE DEF S
  <2>1. \A i \in 0 .. N : i \in S
    BY <1>1, <1>2, CountTo
  <2> QED
    BY <2>1
<1> QED
  BY <1>3

(* It is what FlattenSeq chooses.                                          *)
LEMMA FlattenRun ==
  ASSUME NEW seqs, Len(seqs) \in Nat \ {0}
  PROVE  \E f : Joining(seqs, Len(seqs), f) /\ FlattenSeq(seqs) = f[Len(seqs)]
<1> DEFINE N == Len(seqs)
<1>1. PICK f : Joining(seqs, N, f)
  BY JoiningExists
<1> DEFINE J == CHOOSE j : j = [i \in 1 .. N |-> IF i = 1 THEN seqs[i] ELSE j[i - 1] \o seqs[i]]
<1>2. J = [i \in 1 .. N |-> IF i = 1 THEN seqs[i] ELSE J[i - 1] \o seqs[i]]
  BY <1>1, Zenon DEF Joining
<1>3. Joining(seqs, N, J)
  BY <1>2, Zenon DEF Joining
<1>4. N # 0
  OBVIOUS
<1>5. FlattenSeq(seqs) = J[N]
  BY <1>4, Zenon DEF FlattenSeq
<1> QED
  BY <1>3, <1>5, Zenon

(* One step of it.                                                         *)
Joins(seqs, m, f) ==
  /\ m > 0 => f[1] = seqs[1]
  /\ \A i \in 1 .. m : i < m => f[i + 1] = f[i] \o seqs[i + 1]

LEMMA JoiningStep ==
  ASSUME NEW seqs, NEW m \in Nat, NEW f, Joining(seqs, m, f)
  PROVE  Joins(seqs, m, f)
<1>1. \A i \in 1 .. m : f[i] = IF i = 1 THEN seqs[i] ELSE f[i - 1] \o seqs[i]
  BY DEF Joining
<1>2. m > 0 => f[1] = seqs[1]
  BY <1>1
<1>3. ASSUME NEW i \in 1 .. m, i < m
      PROVE  f[i + 1] = f[i] \o seqs[i + 1]
  <2>1. i + 1 \in 1 .. m /\ i + 1 # 1 /\ (i + 1) - 1 = i
    BY <1>3
  <2> QED
    BY <1>1, <2>1
<1> QED
  BY <1>2, <1>3 DEF Joins

(* What is put together is a sequence.                                     *)
LEMMA JoinsType ==
  ASSUME NEW E, NEW seqs \in Seq(Seq(E)), NEW f, Joins(seqs, Len(seqs), f)
  PROVE  \A i \in 1 .. Len(seqs) : f[i] \in Seq(E)
<1> DEFINE S == {i \in 1 .. Len(seqs) : f[i] \in Seq(E)}
<1>0. Len(seqs) \in Nat /\ \A i \in 1 .. Len(seqs) : seqs[i] \in Seq(E)
  OBVIOUS
<1>1. Len(seqs) > 0 => 1 \in S
  BY <1>0 DEF Joins
<1>2. ASSUME NEW i \in 1 .. Len(seqs), i \in S, i < Len(seqs) PROVE i + 1 \in S
  <2>a. i + 1 \in 1 .. Len(seqs)
    BY <1>0, <1>2
  <2>b. f[i + 1] = f[i] \o seqs[i + 1]
    BY <1>2, Zenon DEF Joins
  <2>1. i + 1 \in 1 .. Len(seqs) /\ f[i + 1] = f[i] \o seqs[i + 1]
    BY <2>a, <2>b, Zenon
  <2>2. f[i] \in Seq(E) /\ seqs[i + 1] \in Seq(E)
    BY <1>0, <1>2, <2>1
  <2>3. f[i] \o seqs[i + 1] \in Seq(E)
    BY <2>2
  <2> QED
    BY <2>1, <2>3
<1>3. \A i \in 1 .. Len(seqs) : i \in S
  <2> HIDE DEF S
  <2> QED
    BY <1>0, <1>1, <1>2, CountUp
<1> QED
  BY <1>3

LEMMA FlattenType ==
  ASSUME NEW E, NEW seqs \in Seq(Seq(E))
  PROVE  FlattenSeq(seqs) \in Seq(E)
<1>1. CASE seqs = <<>>
  BY <1>1 DEF FlattenSeq
<1>2. CASE seqs # <<>>
  <2>1. Len(seqs) \in Nat \ {0}
    BY <1>2
  <2>2. PICK f : Joining(seqs, Len(seqs), f) /\ FlattenSeq(seqs) = f[Len(seqs)]
    BY <2>1, FlattenRun
  <2>3. Joins(seqs, Len(seqs), f)
    BY <2>1, <2>2, JoiningStep
  <2>4. \A i \in 1 .. Len(seqs) : f[i] \in Seq(E)
    BY <2>3, JoinsType
  <2> QED
    BY <2>1, <2>2, <2>4
<1> QED
  BY <1>1, <1>2

(* A sequence is added at the end.                                         *)
LEMMA FlattenAppend ==
  ASSUME NEW E, NEW seqs \in Seq(Seq(E)), NEW a \in Seq(E)
  PROVE  FlattenSeq(Append(seqs, a)) = FlattenSeq(seqs) \o a
<1> DEFINE b == Append(seqs, a)
           N == Len(seqs)
<1>0. /\ N \in Nat /\ b \in Seq(Seq(E)) /\ Len(b) = N + 1 /\ Len(b) \in Nat \ {0} /\ b[N + 1] = a
      /\ \A i \in 1 .. N : b[i] = seqs[i] /\ seqs[i] \in Seq(E)
  OBVIOUS
<1> HIDE DEF b
<1>1. PICK g : Joining(b, Len(b), g) /\ FlattenSeq(b) = g[Len(b)]
  BY <1>0, FlattenRun
<1>2. Joins(b, Len(b), g)
  BY <1>0, <1>1, JoiningStep
<1>3. CASE seqs = <<>>
  <2>1. N = 0 /\ FlattenSeq(seqs) = <<>>
    BY <1>3 DEF FlattenSeq
  <2>2. g[1] = b[1]
    BY <1>0, <1>2 DEF Joins
  <2>3. <<>> \o a = a
    OBVIOUS
  <2> QED
    BY <1>0, <1>1, <2>1, <2>2, <2>3 DEF b
<1>4. CASE seqs # <<>>
  <2>1. N \in Nat \ {0}
    BY <1>4
  <2>2. PICK f : Joining(seqs, N, f) /\ FlattenSeq(seqs) = f[N]
    BY <2>1, FlattenRun
  <2>3. Joins(seqs, N, f)
    BY <1>0, <2>2, JoiningStep
  <2> DEFINE S == {i \in 1 .. N : g[i] = f[i]}
  <2>4. 1 \in S
    BY <1>0, <1>2, <2>1, <2>3 DEF Joins
  <2>5. ASSUME NEW i \in 1 .. N, i \in S, i < N PROVE i + 1 \in S
    <3>1. i + 1 \in 1 .. N /\ i \in 1 .. Len(b) /\ i < Len(b)
      BY <1>0, <2>5
    <3>2. f[i + 1] = f[i] \o seqs[i + 1]
      BY <2>3, <2>5, Zenon DEF Joins
    <3>3. g[i + 1] = g[i] \o b[i + 1]
      BY <1>2, <3>1, Zenon DEF Joins
    <3>4. b[i + 1] = seqs[i + 1] /\ g[i] = f[i]
      BY <1>0, <2>5, <3>1
    <3>5. g[i + 1] = f[i + 1]
      BY <3>2, <3>3, <3>4, Zenon
    <3> QED
      BY <3>1, <3>5
  <2>6. \A i \in 1 .. N : i \in S
    <3> HIDE DEF S, N
    <3> QED
      BY <1>0, <2>1, <2>4, <2>5, CountUp
  <2>7. g[N] = f[N] /\ N \in 1 .. Len(b) /\ N < Len(b)
    BY <1>0, <2>1, <2>6
  <2>8. g[N + 1] = g[N] \o b[N + 1]
    BY <1>2, <2>7, Zenon DEF Joins
  <2> QED
    BY <1>0, <1>1, <2>2, <2>7, <2>8, Zenon DEF b
<1> QED
  BY <1>3, <1>4

(* A sequence is added in front.                                           *)
LEMMA FlattenCons ==
  ASSUME NEW E, NEW seqs \in Seq(Seq(E)), NEW a \in Seq(E)
  PROVE  FlattenSeq(<<a>> \o seqs) = a \o FlattenSeq(seqs)
<1> DEFINE b == <<a>> \o seqs
           N == Len(seqs)
<1>z. \A s, t, u \in Seq(E) : (s \o t) \o u = s \o (t \o u)
  BY SMTT(40)
<1>a. /\ N \in Nat /\ Len(<<a>>) = 1 /\ <<a>> \in Seq(Seq(E))
      /\ \A i \in 1 .. N : seqs[i] \in Seq(E)
  OBVIOUS
<1>0. /\ b \in Seq(Seq(E)) /\ Len(b) = N + 1 /\ Len(b) \in Nat \ {0} /\ b[1] = a
      /\ \A i \in 1 .. N : b[i + 1] = seqs[i]
  BY <1>a
<1> HIDE DEF b
<1>1. PICK g : Joining(b, Len(b), g) /\ FlattenSeq(b) = g[Len(b)]
  BY <1>0, FlattenRun
<1>2. Joins(b, Len(b), g)
  BY <1>0, <1>1, JoiningStep
<1>b. g[1] = a
  BY <1>0, <1>2 DEF Joins
<1>3. CASE seqs = <<>>
  <2>1. N = 0 /\ FlattenSeq(seqs) = <<>>
    BY <1>3 DEF FlattenSeq
  <2>3. a \o <<>> = a
    OBVIOUS
  <2> QED
    BY <1>0, <1>1, <1>a, <1>b, <2>1, <2>3 DEF b
<1>4. CASE seqs # <<>>
  <2>1. N \in Nat \ {0}
    BY <1>4
  <2>2. PICK f : Joining(seqs, N, f) /\ FlattenSeq(seqs) = f[N]
    BY <2>1, FlattenRun
  <2>3. Joins(seqs, N, f)
    BY <1>a, <2>2, JoiningStep
  <2>t. \A i \in 1 .. N : f[i] \in Seq(E)
    BY <2>3, JoinsType
  <2> DEFINE S == {i \in 1 .. N : g[i + 1] = a \o f[i]}
  <2>4. 1 \in S
    <3>1. f[1] = seqs[1] /\ 1 \in 1 .. N /\ 1 \in 1 .. Len(b) /\ 1 < Len(b)
      BY <1>0, <1>a, <2>1, <2>3 DEF Joins
    <3>2. g[1 + 1] = g[1] \o b[1 + 1]
      BY <1>2, <3>1, Zenon DEF Joins
    <3> QED
      BY <1>0, <1>b, <3>1, <3>2
  <2>5. ASSUME NEW i \in 1 .. N, i \in S, i < N PROVE i + 1 \in S
    <3>0. i < N /\ g[i + 1] = a \o f[i]
      BY <2>5, Zenon
    <3> HIDE DEF S
    <3>1. i + 1 \in 1 .. N /\ i + 1 \in 1 .. Len(b) /\ i + 1 < Len(b)
      BY <1>0, <1>a, <3>0, SMTT(40)
    <3>2. f[i + 1] = f[i] \o seqs[i + 1]
      BY <2>3, <2>5, Zenon DEF Joins
    <3>3. g[(i + 1) + 1] = g[i + 1] \o b[(i + 1) + 1]
      BY <1>2, <3>1, Zenon DEF Joins
    <3>4. b[(i + 1) + 1] = seqs[i + 1]
      BY <1>0, <3>1
    <3> DEFINE p == f[i]
               q == seqs[i + 1]
    <3>t. p \in Seq(E) /\ q \in Seq(E)
      BY <1>a, <2>t, <3>1
    <3> HIDE DEF p, q
    <3>5. (a \o p) \o q = a \o (p \o q)
      <4>2. a \in Seq(E) /\ p \in Seq(E) /\ q \in Seq(E)
        BY <3>t, Zenon
      <4> QED
        BY <4>2, <1>z, Zenon
    <3>6. g[(i + 1) + 1] = a \o f[i + 1]
      BY <3>0, <3>2, <3>3, <3>4, <3>5, Zenon DEF p, q
    <3> QED
      BY <3>1, <3>6, Zenon DEF S
  <2>6. \A i \in 1 .. N : i \in S
    <3> HIDE DEF S, N
    <3> QED
      BY <2>1, <2>4, <2>5, CountUp
  <2>7. g[N + 1] = a \o f[N]
    BY <2>1, <2>6
  <2> QED
    BY <1>0, <1>1, <2>2, <2>7, Zenon DEF b
<1> QED
  BY <1>3, <1>4

-----------------------------------------------------------------------------
(* What WriteCharsToTTY makes of a text.                                   *)

LEMMA CharsFacts ==
  /\ \A s \in Streams : s \in Seq(Chars)
  /\ CR \in Chars /\ LF \in Chars
<1>1. ASSUME NEW s \in Streams PROVE s \in Seq(Chars)
  <2>1. s \in Seq(ToSet(s))
    BY TextAssumption
  <2>2. ToSet(s) \subseteq Chars
    BY DEF Chars
  <2>3. \A T : s \in Seq(T) /\ T \subseteq Chars => s \in Seq(Chars)
    OBVIOUS
  <2> QED
    BY <2>1, <2>2, <2>3, Zenon
<1>2. CR \in Chars /\ LF \in Chars
  BY DEF Chars
<1> QED
  BY <1>1, <1>2

LEMMA CharsChain == \A s, t, u \in Seq(Chars) : (s \o t) \o u = s \o (t \o u)
OBVIOUS

LEMMA ConvertedType ==
  ASSUME NEW cr, NEW c \in Chars
  PROVE  /\ Converted(cr, c) \in Seq(Chars)
         /\ Len(Converted(cr, c)) \in 1 .. 2
         /\ Converted(cr, c) \in {<<c>>, <<LF, c>>, <<CR, c>>}
<1>1. Converted(cr, c) \in {<<c>>, <<LF, c>>, <<CR, c>>}
  BY Zenon DEF Converted
<1>2. <<c>> \in Seq(Chars) /\ <<LF, c>> \in Seq(Chars) /\ <<CR, c>> \in Seq(Chars)
  BY CharsFacts
<1>3. Len(<<c>>) = 1 /\ Len(<<LF, c>>) = 2 /\ Len(<<CR, c>>) = 2
  OBVIOUS
<1> DEFINE v == Converted(cr, c)
<1> HIDE DEF v
<1>4. v \in {<<c>>, <<LF, c>>, <<CR, c>>}
  BY <1>1, Zenon DEF v
<1>5. v = <<c>> \/ v = <<LF, c>> \/ v = <<CR, c>>
  BY <1>4, Zenon
<1>6. v \in Seq(Chars) /\ (Len(v) = 1 \/ Len(v) = 2)
  BY <1>2, <1>3, <1>5, Zenon
<1>7. Len(v) \in 1 .. 2
  BY <1>6
<1> QED
  BY <1>1, <1>6, <1>7, Zenon DEF v

(* What becomes of each of the first t characters.                         *)
Pieces(s, t) == [i \in 1 .. t |-> Converted(i > 1 /\ s[i - 1] = CR, s[i])]

LEMMA PiecesFacts ==
  ASSUME NEW s \in Seq(Chars), NEW t \in 0 .. Len(s)
  PROVE  /\ Pieces(s, t) \in Seq(Seq(Chars))
         /\ Rendering(SubSeq(s, 1, t)) = FlattenSeq(Pieces(s, t))
         /\ t < Len(s) =>
              Pieces(s, t + 1) = Append(Pieces(s, t), Converted(t > 0 /\ s[t] = CR, s[t + 1]))
<1>1. \A i \in 1 .. Len(s) : Converted(i > 1 /\ s[i - 1] = CR, s[i]) \in Seq(Chars)
  BY ConvertedType
<1>2. Pieces(s, t) \in Seq(Seq(Chars))
  BY <1>1 DEF Pieces
<1> DEFINE r == SubSeq(s, 1, t)
<1>3. Len(r) = t /\ \A i \in 1 .. t : r[i] = s[i]
  OBVIOUS
<1> HIDE DEF r
<1>4. \A i \in 1 .. t : Converted(i > 1 /\ r[i - 1] = CR, r[i])
                          = Converted(i > 1 /\ s[i - 1] = CR, s[i])
  <2> SUFFICES ASSUME NEW i \in 1 .. t
               PROVE  Converted(i > 1 /\ r[i - 1] = CR, r[i])
                        = Converted(i > 1 /\ s[i - 1] = CR, s[i])
    OBVIOUS
  <2>1. i > 1 => i - 1 \in 1 .. t
    OBVIOUS
  <2>2. i > 1 => r[i - 1] = s[i - 1]
    BY <1>3, <2>1
  <2>3. r[i] = s[i]
    BY <1>3
  <2> QED
    BY <2>2, <2>3 DEF Converted
<1>5. [i \in 1 .. Len(r) |-> Converted(i > 1 /\ r[i - 1] = CR, r[i])] = Pieces(s, t)
  BY <1>3, <1>4 DEF Pieces
<1>6. Rendering(r) = FlattenSeq(Pieces(s, t))
  BY <1>5, Zenon DEF Rendering
<1>7. ASSUME t < Len(s)
      PROVE  Pieces(s, t + 1) = Append(Pieces(s, t), Converted(t > 0 /\ s[t] = CR, s[t + 1]))
  <2> DEFINE c == Converted(t > 0 /\ s[t] = CR, s[t + 1])
             q == Append(Pieces(s, t), c)
  <2>1. c = Converted(t + 1 > 1 /\ s[(t + 1) - 1] = CR, s[t + 1])
    BY DEF Converted
  <2>2. c \in Seq(Chars)
    BY <1>1, <1>7, <2>1
  <2>3. /\ q \in Seq(Seq(Chars)) /\ Len(Pieces(s, t)) = t /\ Len(q) = t + 1 /\ q[t + 1] = c
        /\ \A i \in 1 .. t : q[i] = Pieces(s, t)[i]
    <3> HIDE DEF c
    <3>1. Len(Pieces(s, t)) = t
      BY DEF Pieces
    <3> QED
      BY <1>2, <2>2, <3>1
  <2>4. q = [i \in 1 .. t + 1 |-> q[i]]
    <3> HIDE DEF q
    <3> QED
      BY <2>3
  <2>5. \A i \in 1 .. t + 1 : q[i] = Converted(i > 1 /\ s[i - 1] = CR, s[i])
    <3> HIDE DEF q
    <3>1. \A i \in 1 .. t : q[i] = Converted(i > 1 /\ s[i - 1] = CR, s[i])
      BY <2>3 DEF Pieces
    <3> HIDE DEF c
    <3>2. q[t + 1] = Converted(t + 1 > 1 /\ s[(t + 1) - 1] = CR, s[t + 1])
      BY <2>1, <2>3
    <3>3. \A i \in 1 .. t + 1 : i \in 1 .. t \/ i = t + 1
      OBVIOUS
    <3> QED
      BY <3>1, <3>2, <3>3, Zenon
  <2>6. q = Pieces(s, t + 1)
    <3> HIDE DEF q
    <3>1. [i \in 1 .. t + 1 |-> q[i]]
            = [i \in 1 .. t + 1 |-> Converted(i > 1 /\ s[i - 1] = CR, s[i])]
      BY <2>5
    <3> QED
      BY <2>4, <3>1, Zenon DEF Pieces
  <2> QED
    BY <2>6, Zenon
<1> QED
  BY <1>2, <1>6, <1>7 DEF r

LEMMA RenderingType ==
  ASSUME NEW s \in Seq(Chars), NEW t \in 0 .. Len(s)
  PROVE  Rendering(SubSeq(s, 1, t)) \in Seq(Chars)
BY PiecesFacts, FlattenType

(* One more character.                                                     *)
LEMMA RenderingNext ==
  ASSUME NEW s \in Seq(Chars), NEW t \in 0 .. Len(s), t < Len(s)
  PROVE  Rendering(SubSeq(s, 1, t + 1))
           = Rendering(SubSeq(s, 1, t)) \o Converted(t > 0 /\ s[t] = CR, s[t + 1])
<1> DEFINE c == Converted(t > 0 /\ s[t] = CR, s[t + 1])
           q == Pieces(s, t)
<1>1. t + 1 \in 0 .. Len(s) /\ s[t + 1] \in Chars
  OBVIOUS
<1>2. c \in Seq(Chars)
  BY <1>1, ConvertedType
<1>3. /\ q \in Seq(Seq(Chars))
      /\ Rendering(SubSeq(s, 1, t)) = FlattenSeq(q)
      /\ Pieces(s, t + 1) = Append(q, c)
  BY PiecesFacts
<1>4. Rendering(SubSeq(s, 1, t + 1)) = FlattenSeq(Pieces(s, t + 1))
  BY <1>1, PiecesFacts
<1> HIDE DEF c, q
<1>5. FlattenSeq(Append(q, c)) = FlattenSeq(q) \o c
  BY <1>2, <1>3, FlattenAppend
<1> QED
  BY <1>3, <1>4, <1>5, Zenon DEF c

(* What is shown of a part of the text comes first.                        *)
LEMMA RenderingPrefix ==
  ASSUME NEW s \in Seq(Chars), NEW t \in 0 .. Len(s)
  PROVE  \E rest \in Seq(Chars) : Rendering(s) = Rendering(SubSeq(s, 1, t)) \o rest
<1> DEFINE R(j) == Rendering(SubSeq(s, 1, j))
           N == Len(s) - t
           S == {j \in 0 .. N : \E rest \in Seq(Chars) : R(t + j) = R(t) \o rest}
<1>0. N \in Nat /\ t \in Nat /\ Len(s) \in Nat /\ Len(s) = t + N
  OBVIOUS
<1>1. \A j \in 0 .. Len(s) : R(j) \in Seq(Chars)
  BY RenderingType
<1>2. 0 \in S
  <2>1. R(t) \in Seq(Chars) /\ <<>> \in Seq(Chars) /\ t + 0 = t
    BY <1>0, <1>1
  <2> HIDE DEF R
  <2>2. R(t) = R(t) \o <<>>
    BY <2>1
  <2>3. 0 \in 0 .. N
    BY <1>0
  <2>4. R(t + 0) = R(t) \o <<>>
    BY <2>1, <2>2, Zenon
  <2> QED
    BY <2>1, <2>3, <2>4, Zenon
<1>3. ASSUME NEW j \in 0 .. N, j \in S, j < N PROVE j + 1 \in S
  <2>1. PICK rest \in Seq(Chars) : R(t + j) = R(t) \o rest
    BY <1>3, Zenon
  <2>2. t + j \in 0 .. Len(s) /\ t + j < Len(s) /\ s[(t + j) + 1] \in Chars /\ j + 1 \in 0 .. N
        /\ (t + j) + 1 = t + (j + 1)
    BY <1>0, <1>3
  <2> DEFINE c == Converted(t + j > 0 /\ s[t + j] = CR, s[(t + j) + 1])
  <2>3. c \in Seq(Chars)
    BY <2>2, ConvertedType
  <2>4. R((t + j) + 1) = R(t + j) \o c
    BY <2>2, RenderingNext
  <2>5. R(t) \in Seq(Chars)
    BY <1>1
  <2> HIDE DEF R, c
  <2>6. R(t + (j + 1)) = (R(t) \o rest) \o c
    BY <2>1, <2>2, <2>4
  <2>7. (R(t) \o rest) \o c = R(t) \o (rest \o c)
    BY <2>3, <2>5, ConcatAssociative, SMTT(40)
  <2>8. rest \o c \in Seq(Chars)
    BY <2>3
  <2> QED
    BY <2>2, <2>6, <2>7, <2>8
<1>4. \A j \in 0 .. N : j \in S
  <2> HIDE DEF S, N, R
  <2> QED
    BY <1>0, <1>2, <1>3, CountTo
<1>5. \E rest \in Seq(Chars) : R(t + N) = R(t) \o rest
  <2>1. N \in 0 .. N
    BY <1>0
  <2> QED
    BY <1>4, <2>1, Zenon
<1>6. R(t + N) = Rendering(s)
  <2>1. SubSeq(s, 1, t + N) = s
    BY <1>0
  <2> QED
    BY <2>1, Zenon
<1> QED
  BY <1>5, <1>6, Zenon

(* The text u is text with one or two characters more.                     *)
LEMMA Longer ==
  ASSUME NEW text \in Seq(Chars), NEW p \in Seq(Chars), NEW u, u = text \o p
  PROVE  /\ u \in Seq(Chars) /\ Len(u) = Len(text) + Len(p) /\ Len(text) \in Nat
         /\ \A i \in 1 .. Len(text) : u[i] = text[i]
         /\ \A i \in 1 .. Len(p) : u[Len(text) + i] = p[i]
OBVIOUS

(* The converted text has no bare line ends.                               *)
LEMMA TidyNext ==
  ASSUME NEW text \in Seq(Chars), NEW cr, NEW c \in Chars, Tidy(text, cr)
  PROVE  Tidy(text \o Converted(cr, c), c = CR)
<1> DEFINE p == Converted(cr, c)
           u == text \o p
           L == Len(text)
<1>0. CR # LF /\ ESC # CR /\ ESC # LF
  BY TextAssumption
<1>1. p \in Seq(Chars)
  BY ConvertedType
<1>2. /\ u \in Seq(Chars) /\ Len(u) = L + Len(p) /\ L \in Nat
      /\ \A i \in 1 .. L : u[i] = text[i]
      /\ \A i \in 1 .. Len(p) : u[L + i] = p[i]
  <2> HIDE DEF p
  <2> QED
    BY <1>1, Longer
<1>3. cr <=> L > 0 /\ text[L] = CR
  BY DEF Tidy
<1>t. \A i \in 1 .. L :
        /\ text[i] = LF => i > 1 /\ text[i - 1] = CR
        /\ text[i] = CR /\ i < L => text[i + 1] \in {LF, ESC}
  BY DEF Tidy
<1>u. ASSUME NEW i \in 1 .. L
      PROVE  /\ u[i] = LF => i > 1 /\ u[i - 1] = CR
             /\ u[i] = CR /\ i < L => u[i + 1] \in {LF, ESC}
  <2> HIDE DEF u
  <2>1. i > 1 => i - 1 \in 1 .. L
    BY <1>2
  <2>2. i < L => i + 1 \in 1 .. L
    BY <1>2
  <2>3. u[i] = text[i] /\ (i > 1 => u[i - 1] = text[i - 1]) /\ (i < L => u[i + 1] = text[i + 1])
    BY <1>2, <2>1, <2>2, Zenon
  <2> QED
    BY <1>t, <2>3, Zenon
<1> SUFFICES /\ \A i \in 1 .. Len(u) :
                  /\ u[i] = LF => i > 1 /\ u[i - 1] = CR
                  /\ u[i] = CR /\ i < Len(u) => u[i + 1] \in {LF, ESC}
             /\ c = CR <=> u # <<>> /\ u[Len(u)] = CR
  BY DEF Tidy
<1>4. CASE cr /\ c # LF /\ c # ESC
  <2>1. p = <<LF, c>>
    BY <1>4 DEF Converted
  <2>2. Len(p) = 2 /\ p[1] = LF /\ p[2] = c
    BY <2>1
  <2> HIDE DEF p, u
  <2>3. Len(u) = L + 2 /\ u[L + 1] = LF /\ u[L + 2] = c /\ u # <<>>
    BY <1>2, <2>2
  <2>4. L > 0 /\ u[L] = CR
    BY <1>2, <1>3, <1>4
  <2>5. ASSUME NEW i \in 1 .. Len(u)
        PROVE  /\ u[i] = LF => i > 1 /\ u[i - 1] = CR
               /\ u[i] = CR /\ i < Len(u) => u[i + 1] \in {LF, ESC}
    <3>1. CASE i < L
      BY <1>2, <1>u, <3>1
    <3>2. CASE i = L
      BY <1>0, <2>3, <2>4, <3>2
    <3>3. CASE i = L + 1
      BY <1>0, <1>2, <2>3, <2>4, <3>3
    <3>4. CASE i = L + 2
      BY <1>2, <2>3, <1>4, <3>4
    <3> QED
      BY <1>2, <2>3, <3>1, <3>2, <3>3, <3>4
  <2> QED
    BY <2>3, <2>5
<1>5. CASE cr /\ (c = LF \/ c = ESC)
  <2>1. p = <<c>>
    BY <1>5 DEF Converted
  <2>2. Len(p) = 1 /\ p[1] = c
    BY <2>1
  <2> HIDE DEF p, u
  <2>3. Len(u) = L + 1 /\ u[L + 1] = c /\ u # <<>>
    BY <1>2, <2>2
  <2>4. L > 0 /\ u[L] = CR
    BY <1>2, <1>3, <1>5
  <2>5. ASSUME NEW i \in 1 .. Len(u)
        PROVE  /\ u[i] = LF => i > 1 /\ u[i - 1] = CR
               /\ u[i] = CR /\ i < Len(u) => u[i + 1] \in {LF, ESC}
    <3>1. CASE i < L
      BY <1>2, <1>u, <3>1
    <3>2. CASE i = L
      BY <1>0, <1>5, <2>3, <2>4, <3>2
    <3>3. CASE i = L + 1
      BY <1>0, <1>2, <1>5, <2>3, <2>4, <3>3
    <3> QED
      BY <1>2, <2>3, <3>1, <3>2, <3>3
  <2> QED
    BY <1>0, <1>5, <2>3, <2>5
<1>6. CASE ~cr /\ c = LF
  <2>1. p = <<CR, c>>
    BY <1>6 DEF Converted
  <2>2. Len(p) = 2 /\ p[1] = CR /\ p[2] = c
    BY <2>1
  <2> HIDE DEF p, u
  <2>3. Len(u) = L + 2 /\ u[L + 1] = CR /\ u[L + 2] = LF /\ u # <<>>
    BY <1>2, <1>6, <2>2
  <2>4. L > 0 => u[L] # CR
    BY <1>2, <1>3, <1>6
  <2>5. ASSUME NEW i \in 1 .. Len(u)
        PROVE  /\ u[i] = LF => i > 1 /\ u[i - 1] = CR
               /\ u[i] = CR /\ i < Len(u) => u[i + 1] \in {LF, ESC}
    <3>1. CASE i < L
      BY <1>2, <1>u, <3>1
    <3>2. CASE i = L
      BY <1>2, <1>t, <2>4, <3>2
    <3>3. CASE i = L + 1
      BY <1>0, <1>2, <2>3, <3>3
    <3>4. CASE i = L + 2
      BY <1>0, <1>2, <2>3, <3>4
    <3> QED
      BY <1>2, <2>3, <3>1, <3>2, <3>3, <3>4
  <2> QED
    BY <1>0, <1>6, <2>3, <2>5
<1>7. CASE ~cr /\ c # LF
  <2>1. p = <<c>>
    BY <1>7 DEF Converted
  <2>2. Len(p) = 1 /\ p[1] = c
    BY <2>1
  <2> HIDE DEF p, u
  <2>3. Len(u) = L + 1 /\ u[L + 1] = c /\ u # <<>>
    BY <1>2, <2>2
  <2>4. L > 0 => u[L] # CR
    BY <1>2, <1>3, <1>7
  <2>5. ASSUME NEW i \in 1 .. Len(u)
        PROVE  /\ u[i] = LF => i > 1 /\ u[i - 1] = CR
               /\ u[i] = CR /\ i < Len(u) => u[i + 1] \in {LF, ESC}
    <3>1. CASE i < L
      BY <1>2, <1>u, <3>1
    <3>2. CASE i = L
      BY <1>2, <1>t, <2>4, <3>2
    <3>3. CASE i = L + 1
      BY <1>2, <1>7, <2>3, <3>3
    <3> QED
      BY <1>2, <2>3, <3>1, <3>2, <3>3
  <2> QED
    BY <2>3, <2>5
<1> QED
  BY <1>4, <1>5, <1>6, <1>7

(* One more character is converted.                                        *)
LEMMA ShowsNext ==
  ASSUME QueryLast, NEW s \in Streams, NEW t \in 0 .. Len(s), t < Len(s),
         NEW text, NEW cr, Shows(s, t, text, cr)
  PROVE  Shows(s, t + 1, text \o Converted(cr, s[t + 1]), s[t + 1] = CR)
<1> DEFINE c == s[t + 1]
           p == Converted(cr, c)
           u == text \o p
<1>0. s \in Seq(Chars)
  BY CharsFacts
<1>1. t + 1 \in 1 .. Len(s) /\ c \in Chars /\ t + 1 > 0 /\ t # Len(s)
  BY <1>0
<1>2. text \in Seq(Chars)
  BY <1>0, RenderingType DEF Shows
<1>3. cr <=> t > 0 /\ s[t] = CR
  BY DEF Shows
<1>4. p = Converted(t > 0 /\ s[t] = CR, c)
  BY <1>3 DEF Converted
<1>5. Rendering(SubSeq(s, 1, t + 1)) = text \o p
  <2>1. Rendering(SubSeq(s, 1, t + 1))
          = Rendering(SubSeq(s, 1, t)) \o Converted(t > 0 /\ s[t] = CR, s[t + 1])
    BY <1>0, RenderingNext
  <2>2. text = Rendering(SubSeq(s, 1, t))
    BY DEF Shows
  <2> QED
    BY <1>4, <2>1, <2>2, Zenon
<1>6. Tidy(u, c = CR)
  <2>1. Tidy(text, cr)
    BY DEF Shows
  <2> HIDE DEF c
  <2> QED
    BY <1>1, <1>2, <2>1, TidyNext
<1>7. p \in Seq(Chars) /\ Len(p) \in 1 .. 2 /\ p \in {<<c>>, <<LF, c>>, <<CR, c>>}
  BY <1>1, ConvertedType
<1>8. \A i \in 1 .. Len(u) : u[i] = Query => i = Len(u) /\ t + 1 = Len(s)
  <2>1. \A i \in 1 .. Len(text) : text[i] # Query
    BY <1>1 DEF Shows
  <2>2. c = Query => t + 1 = Len(s)
    BY <1>1 DEF QueryLast
  <2>3. Query # LF /\ Query # CR
    BY TextAssumption
  <2> HIDE DEF p, c
  <2>4. /\ u \in Seq(Chars) /\ Len(u) = Len(text) + Len(p) /\ Len(text) \in Nat
        /\ \A i \in 1 .. Len(text) : u[i] = text[i]
        /\ \A i \in 1 .. Len(p) : u[Len(text) + i] = p[i]
    BY <1>2, <1>7, Longer
  <2>5. \A i \in 1 .. Len(p) : p[i] = Query => i = Len(p) /\ c = Query
    <3>1. CASE p = <<c>>
      BY <3>1
    <3>2. CASE p = <<LF, c>>
      BY <2>3, <3>2
    <3>3. CASE p = <<CR, c>>
      BY <2>3, <3>3
    <3> QED
      BY <1>7, <3>1, <3>2, <3>3
  <2> HIDE DEF u
  <2> SUFFICES ASSUME NEW i \in 1 .. Len(u), u[i] = Query
               PROVE  i = Len(u) /\ t + 1 = Len(s)
    OBVIOUS
  <2>6. i \notin 1 .. Len(text)
    BY <2>1, <2>4
  <2> DEFINE k == i - Len(text)
  <2>7. k \in 1 .. Len(p) /\ i = Len(text) + k
    BY <1>7, <2>4, <2>6
  <2> HIDE DEF k
  <2>8. p[k] = Query
    BY <2>4, <2>7
  <2>9. k = Len(p) /\ c = Query
    BY <2>5, <2>7, <2>8
  <2> QED
    BY <2>2, <2>4, <2>7, <2>9
<1>9. (c = CR) <=> t + 1 > 0 /\ s[t + 1] = CR
  BY <1>1, Zenon
<1> QED
  BY <1>5, <1>6, <1>8, <1>9, Zenon DEF Shows

-----------------------------------------------------------------------------
(* The inner loop of WriteCharsToTTY.                                      *)

(* After i turns all i characters are taken, or the buffer is full.        *)
Filled(i, acc) ==
  /\ acc \in [buf : Seq(Chars), cr : BOOLEAN, used : Nat]
  /\ Len(acc.buf) <= OutMax
  /\ acc.used <= i
  /\ acc.used = i \/ Len(acc.buf) >= OutMax - 1

(* With base in front of it, the buffer is the text so far.                *)
FilledText(base, acc) == Shows(stream, taken + acc.used, base \o acc.buf, acc.cr)

LEMMA FillStepTypes ==
  ASSUME NEW i \in Nat, NEW acc, Filled(i, acc), NEW c \in Chars
  PROVE  Filled(i + 1, FillStep(acc, c))
<1>0. OutMax \in Nat /\ OutMax >= 2
  BY BufferAssumption
<1>1. /\ acc.buf \in Seq(Chars) /\ acc.used \in Nat /\ Len(acc.buf) \in Nat
      /\ Len(acc.buf) <= OutMax /\ acc.used <= i
      /\ acc.used = i \/ Len(acc.buf) >= OutMax - 1
  BY DEF Filled
<1>2. CASE Len(acc.buf) >= OutMax - 1
  <2>1. FillStep(acc, c) = acc
    BY <1>2 DEF FillStep
  <2>2. acc.used <= i + 1
    BY <1>1
  <2> QED
    BY <1>2, <2>1, <2>2, Zenon DEF Filled
<1>3. CASE ~(Len(acc.buf) >= OutMax - 1)
  <2> DEFINE p == Converted(acc.cr, c)
             b == acc.buf \o p
             new == [buf |-> b, cr |-> c = CR, used |-> acc.used + 1]
  <2>1. FillStep(acc, c) = new
    BY <1>3 DEF FillStep
  <2>2. p \in Seq(Chars) /\ Len(p) \in 1 .. 2
    BY ConvertedType
  <2> HIDE DEF p
  <2>3. b \in Seq(Chars) /\ Len(b) = Len(acc.buf) + Len(p)
    BY <1>1, <2>2
  <2>4. Len(b) <= OutMax
    <3> DEFINE x == Len(acc.buf)
               y == Len(p)
    <3>1. x \in Nat /\ x < OutMax - 1 /\ y \in 1 .. 2 /\ Len(b) = x + y
      <4> HIDE DEF b
      <4> QED
        BY <1>0, <1>1, <1>3, <2>2, <2>3
    <3> HIDE DEF b, x, y
    <3> QED
      BY <1>0, <3>1
  <2>5. acc.used + 1 = i + 1 /\ acc.used + 1 \in Nat /\ acc.used + 1 <= i + 1
    BY <1>1, <1>3
  <2> HIDE DEF b
  <2>6. new.buf = b /\ new.used = acc.used + 1
    BY Zenon
  <2>7. (c = CR) \in BOOLEAN
    BY Zenon
  <2>8. new \in [buf : Seq(Chars), cr : BOOLEAN, used : Nat]
    BY <2>3, <2>5, <2>7, Zenon
  <2> HIDE DEF new
  <2> QED
    BY <2>1, <2>4, <2>5, <2>6, <2>8, Zenon DEF Filled
<1> QED
  BY <1>2, <1>3

LEMMA FillStepText ==
  ASSUME QueryLast, stream \in Streams, taken \in Nat, NEW i \in Nat, taken + i < Len(stream),
         NEW acc, Filled(i, acc), NEW base \in Seq(Chars), FilledText(base, acc)
  PROVE  FilledText(base, FillStep(acc, stream[taken + (i + 1)]))
<1> DEFINE t == taken + i
           c == stream[t + 1]
<1>0. Len(stream) \in Nat /\ c \in Chars /\ t \in 0 .. Len(stream) /\ t < Len(stream)
      /\ taken + (i + 1) = t + 1
  BY CharsFacts
<1>1. /\ acc.buf \in Seq(Chars) /\ acc.used \in Nat
      /\ acc.used = i \/ Len(acc.buf) >= OutMax - 1
  BY DEF Filled
<1>2. CASE Len(acc.buf) >= OutMax - 1
  BY <1>2 DEF FillStep
<1>3. CASE ~(Len(acc.buf) >= OutMax - 1)
  <2> DEFINE p == Converted(acc.cr, c)
             b == acc.buf \o p
             new == [buf |-> b, cr |-> c = CR, used |-> acc.used + 1]
             text == base \o acc.buf
  <2>1. FillStep(acc, c) = new
    BY <1>3 DEF FillStep
  <2>2. p \in Seq(Chars)
    BY <1>0, ConvertedType
  <2>3. acc.used = i /\ taken + (acc.used + 1) = t + 1
    BY <1>1, <1>3
  <2>4. Shows(stream, t, text, acc.cr)
    BY <2>3 DEF FilledText
  <2>5. Shows(stream, t + 1, text \o p, c = CR)
    <3> HIDE DEF text, t
    <3> QED
      BY <1>0, <2>4, ShowsNext, Zenon
  <2> HIDE DEF p
  <2>6. text \o p = base \o b
    BY <1>1, <2>2, CharsChain, Zenon
  <2>7. new.buf = b /\ new.used = acc.used + 1 /\ new.cr = (c = CR)
    BY Zenon
  <2>8. Shows(stream, taken + new.used, base \o new.buf, new.cr)
    <3> HIDE DEF text, b, new, t, c
    <3> QED
      BY <2>3, <2>5, <2>6, <2>7
  <2> HIDE DEF new, c
  <2> QED
    BY <1>0, <2>1, <2>8 DEF FilledText, c
<1> QED
  BY <1>2, <1>3

(* f runs the loop m times.                                                *)
Filling(start, m, f) ==
  f = [i \in 0 .. m |-> IF i = 0 THEN start ELSE FillStep(f[i - 1], stream[taken + i])]

LEMMA FillingExists ==
  ASSUME NEW start, NEW N \in Nat
  PROVE  \E f : Filling(start, N, f)
<1> DEFINE S == {m \in 0 .. N : \E f : Filling(start, m, f)}
<1>1. 0 \in S
  <2>1. Filling(start, 0, [i \in 0 .. 0 |-> start])
    BY DEF Filling
  <2> QED
    BY <2>1
<1>2. ASSUME NEW m \in 0 .. N, m \in S, m < N PROVE m + 1 \in S
  <2>1. PICK f : Filling(start, m, f)
    BY <1>2
  <2> DEFINE g == [i \in 0 .. m + 1 |->
                     IF i = m + 1 THEN FillStep(f[m], stream[taken + i]) ELSE f[i]]
  <2>2. ASSUME NEW i \in 0 .. m + 1
        PROVE  g[i] = IF i = 0 THEN start ELSE FillStep(g[i - 1], stream[taken + i])
    <3>1. CASE i = m + 1
      <4>1. m \in 0 .. m + 1 /\ i - 1 = m /\ m # m + 1 /\ i # 0
        BY <3>1, <1>2
      <4>2. g[i - 1] = f[m]
        BY <4>1
      <4>3. g[i] = FillStep(f[m], stream[taken + i])
        BY <3>1
      <4> HIDE DEF g
      <4> QED
        BY <4>1, <4>2, <4>3, Zenon
    <3>2. CASE i # m + 1
      <4>1. i \in 0 .. m
        BY <3>2, <1>2
      <4>2. f[i] = IF i = 0 THEN start ELSE FillStep(f[i - 1], stream[taken + i])
        BY <2>1, <4>1 DEF Filling
      <4>3. g[i] = f[i]
        BY <3>2
      <4>4. i # 0 => i - 1 \in 0 .. m + 1 /\ i - 1 # m + 1
        BY <4>1
      <4>5. i # 0 => g[i - 1] = f[i - 1]
        BY <4>4
      <4> HIDE DEF g
      <4> QED
        BY <4>2, <4>3, <4>5, Zenon
    <3> QED
      BY <3>1, <3>2
  <2>3. Filling(start, m + 1, g)
    <3>1. g = [i \in 0 .. m + 1 |-> g[i]]
      OBVIOUS
    <3> HIDE DEF g
    <3>2. [i \in 0 .. m + 1 |-> g[i]]
            = [i \in 0 .. m + 1 |-> IF i = 0 THEN start ELSE FillStep(g[i - 1], stream[taken + i])]
      BY <2>2
    <3>3. g = [i \in 0 .. m + 1 |->
                 IF i = 0 THEN start ELSE FillStep(g[i - 1], stream[taken + i])]
      BY <3>1, <3>2, Zenon
    <3> QED
      BY <3>3, Zenon DEF Filling
  <2> HIDE DEF g
  <2> QED
    BY <1>2, <2>3
<1>3. N \in S
  <2> HIDE DEF S
  <2>1. \A i \in 0 .. N : i \in S
    BY <1>1, <1>2, CountTo
  <2> QED
    BY <2>1
<1> QED
  BY <1>3

(* What the loop leaves behind.                                            *)
LEMMA FillSound ==
  ASSUME stream \in Streams, taken \in 0 .. Len(stream), NEW N \in 0 .. Len(stream) - taken,
         NEW start, Filled(0, start)
  PROVE  /\ Filled(N, FillLoop(start, N))
         /\ \A base \in Seq(Chars) :
              QueryLast /\ FilledText(base, start) => FilledText(base, FillLoop(start, N))
<1>0. Len(stream) \in Nat /\ N \in Nat /\ stream \in Seq(Chars) /\ taken \in Nat
  BY CharsFacts
<1> DEFINE J == CHOOSE j :
             j = [i \in 0 .. N |-> IF i = 0 THEN start ELSE FillStep(j[i - 1], stream[taken + i])]
<1>1. PICK f : Filling(start, N, f)
  BY <1>0, FillingExists
<1>2. Filling(start, N, J)
  BY <1>1, Zenon DEF Filling
<1>3. FillLoop(start, N) = J[N]
  BY Zenon DEF FillLoop
<1> HIDE DEF J
<1>a. \A i \in 0 .. N : J[i] = IF i = 0 THEN start ELSE FillStep(J[i - 1], stream[taken + i])
  BY <1>2 DEF Filling
<1>4. J[0] = start
  BY <1>0, <1>a
<1>5. ASSUME NEW i \in 0 .. N, i < N
      PROVE  J[i + 1] = FillStep(J[i], stream[taken + (i + 1)])
  <2>1. i + 1 \in 0 .. N /\ i + 1 # 0 /\ (i + 1) - 1 = i
    BY <1>0, <1>5
  <2> QED
    BY <1>a, <2>1
<1> DEFINE S == {i \in 0 .. N :
                   /\ Filled(i, J[i])
                   /\ \A base \in Seq(Chars) :
                        QueryLast /\ FilledText(base, start) => FilledText(base, J[i])}
<1>6. 0 \in S
  BY <1>0, <1>4
<1>7. ASSUME NEW i \in 0 .. N, i \in S, i < N PROVE i + 1 \in S
  <2>1. /\ i \in Nat /\ i + 1 \in 0 .. N /\ taken + i < Len(stream)
        /\ stream[taken + (i + 1)] \in Chars
    <3>1. taken + (i + 1) \in 1 .. Len(stream)
      BY <1>0, <1>7
    <3> QED
      BY <1>0, <1>7, <3>1
  <2>2. /\ Filled(i, J[i])
        /\ \A base \in Seq(Chars) :
             QueryLast /\ FilledText(base, start) => FilledText(base, J[i])
    BY <1>7, Zenon
  <2>3. J[i + 1] = FillStep(J[i], stream[taken + (i + 1)])
    BY <1>5, <1>7, Zenon
  <2> HIDE DEF S
  <2>4. Filled(i + 1, J[i + 1])
    BY <2>1, <2>2, <2>3, FillStepTypes, Zenon
  <2>5. ASSUME NEW base \in Seq(Chars), QueryLast, FilledText(base, start)
        PROVE  FilledText(base, J[i + 1])
    <3>1. FilledText(base, J[i])
      BY <2>2, <2>5, Zenon
    <3> QED
      BY <1>0, <2>1, <2>2, <2>3, <2>5, <3>1, FillStepText, Zenon
  <2> QED
    BY <2>1, <2>4, <2>5, Zenon DEF S
<1>8. \A i \in 0 .. N : i \in S
  <2> HIDE DEF S
  <2> QED
    BY <1>0, <1>6, <1>7, CountTo
<1>9. N \in S
  BY <1>0, <1>8
<1> QED
  BY <1>3, <1>9, Zenon

-----------------------------------------------------------------------------
(* The calls of the main thread.                                           *)

LEMMA MinTwo ==
  ASSUME NEW a \in Nat, NEW b \in Nat
  PROVE  /\ Min({a, b}) \in Nat
         /\ Min({a, b}) <= a /\ Min({a, b}) <= b
         /\ Min({a, b}) = a \/ Min({a, b}) = b
<1>1. \E x \in {a, b} : \A y \in {a, b} : x =< y
  <2>1. CASE a <= b
    BY <2>1
  <2>2. CASE ~(a <= b)
    BY <2>2
  <2> QED
    BY <2>1, <2>2
<1>2. Min({a, b}) \in {a, b} /\ \A y \in {a, b} : Min({a, b}) =< y
  BY <1>1, Zenon DEF Min
<1> QED
  BY <1>2

(* What the calls of a stack have left to send.                            *)
Rests(st) == [i \in 1 .. Len(st) |-> st[i].rest]
Left(st) == FlattenSeq(Rests(st))

LEMMA FrameFacts ==
  ASSUME NEW E, NEW f \in FrameOf(E)
  PROVE  /\ f.op \in {"parse", "push", "write", "full"}
         /\ f.pos \in Nat /\ f.cnt \in Nat /\ f.rest \in Seq(E)
BY DEF FrameOf

LEMMA FrameNext ==
  ASSUME NEW E, NEW f \in FrameOf(E), NEW h, h = [f EXCEPT !.pos = @ + 1]
  PROVE  /\ h \in FrameOf(E) /\ h.op = f.op /\ h.rest = f.rest
         /\ h.pos = f.pos + 1 /\ h.cnt = f.cnt
<1>1. f.pos + 1 \in Nat
  BY FrameFacts
<1> QED
  BY <1>1 DEF FrameOf

LEMMA StackParts ==
  ASSUME NEW F, NEW st \in Seq(F), st # <<>>
  PROVE  /\ Head(st) \in F /\ Tail(st) \in Seq(F) /\ st = <<Head(st)>> \o Tail(st)
         /\ Head(st) = st[1] /\ Len(st) \in Nat /\ Len(st) >= 1 /\ Len(Tail(st)) = Len(st) - 1
         /\ \A i \in 1 .. Len(Tail(st)) : Tail(st)[i] = st[i + 1]
OBVIOUS

(* A call is made on a stack.                                              *)
LEMMA StackPush ==
  ASSUME NEW F, NEW st \in Seq(F), NEW f \in F
  PROVE  /\ <<f>> \o st \in Seq(F) /\ <<f>> \o st # <<>>
         /\ Len(<<f>> \o st) = Len(st) + 1 /\ Len(st) \in Nat
         /\ (<<f>> \o st)[1] = f
         /\ \A i \in 1 .. Len(st) : (<<f>> \o st)[i + 1] = st[i]
         /\ Head(<<f>> \o st) = f /\ Tail(<<f>> \o st) = st
OBVIOUS

LEMMA LeftFacts ==
  ASSUME NEW E, NEW st \in Seq(FrameOf(E)), NEW f \in FrameOf(E)
  PROVE  /\ Left(st) \in Seq(E)
         /\ Left(<<f>> \o st) = f.rest \o Left(st)
<1> DEFINE F == FrameOf(E)
           r == Rests(st)
           q == <<f>> \o st
<1>0. /\ Len(st) \in Nat /\ \A i \in 1 .. Len(st) : st[i] \in F
  OBVIOUS
<1>1. \A i \in 1 .. Len(st) : st[i].rest \in Seq(E)
  BY <1>0, FrameFacts
<1>2. f.rest \in Seq(E)
  BY FrameFacts
<1>3. r \in Seq(Seq(E)) /\ Len(r) = Len(st)
  BY <1>0, <1>1 DEF Rests
<1>4. Left(st) \in Seq(E)
  <2> HIDE DEF r
  <2>1. FlattenSeq(r) \in Seq(E)
    BY <1>3, FlattenType
  <2> QED
    BY <2>1, Zenon DEF Left, r
<1>5. Rests(q) = <<f.rest>> \o r
  <2>1. /\ Len(q) = Len(st) + 1 /\ q[1] = f
        /\ \A i \in 1 .. Len(st) : q[i + 1] = st[i]
    BY StackPush
  <2> HIDE DEF q
  <2> DEFINE l == Rests(q)
             m == <<f.rest>> \o r
  <2>2. /\ l = [i \in 1 .. Len(q) |-> q[i].rest]
        /\ r = [i \in 1 .. Len(st) |-> st[i].rest]
    BY DEF Rests
  <2>3. /\ m \in Seq(Seq(E)) /\ Len(m) = Len(st) + 1 /\ m[1] = f.rest
        /\ \A i \in 1 .. Len(st) : m[i + 1] = r[i]
    <3> HIDE DEF r
    <3> QED
      BY <1>0, <1>2, <1>3
  <2> HIDE DEF r, l
  <2>4. ASSUME NEW i \in 1 .. Len(st) + 1 PROVE l[i] = m[i]
    <3>1. CASE i = 1
      BY <1>0, <2>1, <2>2, <2>3, <3>1
    <3>2. CASE i # 1
      <4> DEFINE j == i - 1
      <4>1. j \in 1 .. Len(st) /\ i = j + 1 /\ i \in 1 .. Len(q)
        BY <1>0, <2>1, <3>2
      <4> HIDE DEF j, m
      <4> QED
        BY <2>1, <2>2, <2>3, <4>1
    <3> QED
      BY <3>1, <3>2
  <2>5. m = [i \in 1 .. Len(st) + 1 |-> m[i]]
    <3> HIDE DEF m
    <3>1. Len(st) + 1 \in Nat
      BY <1>0
    <3> QED
      BY <2>3, <3>1
  <2>6. l = [i \in 1 .. Len(st) + 1 |-> l[i]]
    BY <2>1, <2>2
  <2> HIDE DEF m
  <2>7. l = m
    BY <2>4, <2>5, <2>6
  <2> QED
    BY <2>7 DEF l, m
<1>6. FlattenSeq(<<f.rest>> \o r) = f.rest \o FlattenSeq(r)
  <2> HIDE DEF r
  <2> QED
    BY <1>2, <1>3, FlattenCons
<1> QED
  BY <1>4, <1>5, <1>6, Zenon DEF Left

-----------------------------------------------------------------------------
(* The input as one sequence.                                              *)

Conserved(all, k) ==
  /\ Len(all) = k * SendLen
  /\ ToSet(all) = (1 .. k) \X (1 .. SendLen)
  /\ Ordered(all)

LEMMA ConservedFacts ==
  /\ Unsent = Left(stack)
  /\ InputConserved <=> Conserved(All, sends)
  /\ InputConserved' <=> Conserved((shell' \o inBuf') \o Left(stack'), sends')
<1>1. Unsent = Left(stack)
  BY DEF Unsent, Left, Rests
<1>2. InputConserved <=> Conserved(All, sends)
  BY Zenon DEF InputConserved, Conserved, All, Ordered, Byte
<1>3. InputConserved' <=> Conserved((shell' \o inBuf') \o Left(stack'), sends')
  <2>1. Unsent' = Left(stack')
    BY DEF Unsent, Left, Rests
  <2>2. InputConserved' <=> Conserved((shell' \o inBuf') \o Unsent', sends')
    BY Zenon DEF InputConserved, Conserved, Ordered, Byte
  <2> QED
    BY <2>1, <2>2, Zenon
<1> QED
  BY <1>1, <1>2, <1>3

(* st is s and t.                                                          *)
Joins2(E, s, t, st) ==
  /\ st \in Seq(E) /\ Len(st) = Len(s) + Len(t)
  /\ Len(s) \in Nat /\ Len(t) \in Nat
  /\ \A i \in 1 .. Len(s) : st[i] = s[i]
  /\ \A i \in 1 .. Len(t) : st[Len(s) + i] = t[i]

LEMMA Joined == \A E : \A s, t \in Seq(E) : Joins2(E, s, t, s \o t)
BY DEF Joins2

(* Where the elements of a sequence of length L are after q elements have  *)
(* been put behind its first m, and back.                                  *)
OldIndex(m, q, i) == IF i <= m THEN i ELSE i - q
IsOld(m, q, i) == i <= m \/ i > m + q
NewIndex(m, q, j) == IF j <= m THEN j ELSE j + q

LEMMA IndexFacts ==
  ASSUME NEW m \in Nat, NEW q \in Nat, NEW L \in Nat, m <= L
  PROVE  /\ \A j \in 1 .. L :
              /\ NewIndex(m, q, j) \in 1 .. L + q
              /\ IsOld(m, q, NewIndex(m, q, j))
              /\ OldIndex(m, q, NewIndex(m, q, j)) = j
         /\ \A i, j \in 1 .. L + q :
              IsOld(m, q, i) /\ IsOld(m, q, j) /\ i < j => OldIndex(m, q, i) < OldIndex(m, q, j)
BY DEF OldIndex, IsOld, NewIndex

LEMMA OneMore ==
  ASSUME NEW k \in Nat, NEW q \in Nat
  PROVE  (k + 1) * q = k * q + q
OBVIOUS

(* A new send is put in the middle.                                        *)
LEMMA ConservedInsert ==
  ASSUME NEW k \in Nat, NEW E, E = (1 .. k) \X (1 .. SendLen),
         NEW x \in Seq(E), NEW u \in Seq(E), Conserved(x \o u, k),
         NEW bytes, bytes = [b \in 1 .. SendLen |-> <<k + 1, b>>]
  PROVE  Conserved(x \o (bytes \o u), k + 1)
<1> DEFINE G == (1 .. k + 1) \X (1 .. SendLen)
           y == x \o u
           v == bytes \o u
           z == x \o v
           m == Len(x)
<1>0. SendLen \in Nat \ {0}
  BY BufferAssumption
<1>1. /\ m \in Nat /\ Len(u) \in Nat /\ y \in Seq(E) /\ Len(y) = m + Len(u)
      /\ \A i \in 1 .. m : y[i] = x[i]
      /\ \A i \in 1 .. Len(u) : y[m + i] = u[i]
  OBVIOUS
<1>2. /\ bytes \in Seq(G) /\ Len(bytes) = SendLen
      /\ \A b \in 1 .. SendLen : bytes[b] = <<k + 1, b>>
  BY <1>0
<1>3. x \in Seq(G) /\ u \in Seq(G)
  <2>1. E \subseteq G
    OBVIOUS
  <2> HIDE DEF G
  <2> QED
    BY <2>1
<1>4. /\ v \in Seq(G) /\ Len(v) = SendLen + Len(u)
      /\ \A i \in 1 .. SendLen : v[i] = <<k + 1, i>>
      /\ \A i \in 1 .. Len(u) : v[SendLen + i] = u[i]
  <2> HIDE DEF G
  <2>1. /\ v \in Seq(G) /\ Len(v) = SendLen + Len(u)
        /\ \A i \in 1 .. SendLen : v[i] = bytes[i]
        /\ \A i \in 1 .. Len(u) : v[SendLen + i] = u[i]
    BY <1>0, <1>1, <1>2, <1>3
  <2> QED
    BY <1>2, <2>1
<1> HIDE DEF v
<1>5. /\ z \in Seq(G) /\ Len(z) = m + (SendLen + Len(u))
      /\ \A i \in 1 .. m : z[i] = x[i]
      /\ \A i \in 1 .. SendLen + Len(u) : z[m + i] = v[i]
  <2> HIDE DEF G
  <2>1. /\ z \in Seq(G) /\ Len(z) = m + Len(v)
        /\ \A i \in 1 .. m : z[i] = x[i]
        /\ \A i \in 1 .. Len(v) : z[m + i] = v[i]
    <3>1. x \in Seq(G) /\ v \in Seq(G)
      BY <1>3, <1>4, Zenon
    <3>2. Joins2(G, x, v, z)
      BY <3>1, Joined, Zenon
    <3> HIDE DEF z
    <3> QED
      BY <3>2, Zenon DEF Joins2, m
  <2> HIDE DEF z, m
  <2> QED
    BY <1>4, <2>1, Zenon
<1>6. /\ Len(y) = k * SendLen /\ ToSet(y) = E /\ Ordered(y)
  BY DEF Conserved
<1> HIDE DEF y, z, m
(* Where the elements of z come from.                                      *)
<1> DEFINE old(i) == OldIndex(m, SendLen, i)
           isOld(i) == IsOld(m, SendLen, i)
<1>7. ASSUME NEW i \in 1 .. Len(z)
      PROVE  IF isOld(i) THEN old(i) \in 1 .. Len(y) /\ z[i] = y[old(i)]
             ELSE i - m \in 1 .. SendLen /\ z[i] = <<k + 1, i - m>>
  <2>1. CASE i <= m
    <3>1. i \in 1 .. m /\ old(i) = i /\ isOld(i) /\ i \in 1 .. Len(y)
      BY <1>1, <1>5, <2>1 DEF OldIndex, IsOld
    <3>2. z[i] = y[i]
      BY <1>1, <1>5, <3>1
    <3> HIDE DEF old, isOld
    <3> QED
      BY <3>1, <3>2, Zenon
  <2>2. CASE i > m /\ i <= m + SendLen
    <3> DEFINE j == i - m
    <3>1. j \in 1 .. SendLen /\ i = m + j /\ j \in 1 .. SendLen + Len(u) /\ ~isOld(i)
      <4>1. m \in Nat /\ Len(u) \in Nat /\ SendLen \in Nat /\ i \in Nat
        BY <1>0, <1>1, <1>5
      <4> QED
        BY <2>2, <4>1 DEF IsOld
    <3>2. z[m + j] = v[j] /\ v[j] = <<k + 1, j>>
      <4> HIDE DEF j
      <4> QED
        BY <1>4, <1>5, <3>1
    <3> QED
      BY <3>1, <3>2
  <2>3. CASE i > m + SendLen
    <3> DEFINE j == i - (m + SendLen)
    <3>1. /\ j \in 1 .. Len(u) /\ i = m + (SendLen + j) /\ SendLen + j \in 1 .. SendLen + Len(u)
          /\ isOld(i) /\ old(i) = m + j /\ m + j \in 1 .. Len(y)
      BY <1>0, <1>1, <1>5, <2>3 DEF IsOld, OldIndex
    <3>2. z[m + (SendLen + j)] = v[SendLen + j] /\ v[SendLen + j] = u[j] /\ y[m + j] = u[j]
      <4> HIDE DEF j
      <4> QED
        BY <1>1, <1>4, <1>5, <3>1
    <3> HIDE DEF j
    <3>3. z[i] = y[m + j]
      BY <3>1, <3>2, Zenon
    <3> QED
      BY <3>1, <3>3, Zenon
  <2>4. i <= m \/ (i > m /\ i <= m + SendLen) \/ i > m + SendLen
    <3>1. m \in Nat /\ SendLen \in Nat /\ i \in Nat
      BY <1>0, <1>1, <1>5
    <3> HIDE DEF G
    <3> QED
      BY <3>1
  <2> HIDE DEF old, isOld
  <2> QED
    BY <2>1, <2>2, <2>3, <2>4, Zenon
<1>8. Len(z) = (k + 1) * SendLen
  <2>1. (k + 1) * SendLen = k * SendLen + SendLen
    BY <1>0, OneMore
  <2> HIDE DEF G
  <2>2. Len(z) = Len(y) + SendLen
    BY <1>0, <1>1, <1>5
  <2> QED
    BY <1>6, <2>1, <2>2, Zenon
<1>a. DOMAIN z = 1 .. Len(z) /\ DOMAIN y = 1 .. Len(y) /\ Len(z) = Len(y) + SendLen
      /\ Len(y) \in Nat /\ m <= Len(y)
  <2> HIDE DEF G
  <2> QED
    BY <1>0, <1>1, <1>5
<1>9. ToSet(z) = G
  <2>1. ToSet(z) \subseteq G
    <3> HIDE DEF G
    <3> QED
      BY <1>5, <1>a DEF ToSet
  <2>2. ASSUME NEW g \in G PROVE g \in ToSet(z)
    <3> SUFFICES ASSUME TRUE PROVE \E i \in 1 .. Len(z) : z[i] = g
      BY <1>a DEF ToSet
    <3>1. PICK a \in 1 .. k + 1, b \in 1 .. SendLen : g = <<a, b>>
      OBVIOUS
    <3>2. CASE a = k + 1
      <4> DEFINE i == m + b
      <4>1. i \in 1 .. Len(z) /\ i - m = b /\ ~isOld(i)
        BY <1>0, <1>1, <1>5 DEF IsOld
      <4> HIDE DEF i, isOld, old, G
      <4>2. z[i] = <<k + 1, i - m>>
        BY <1>7, <4>1, Zenon
      <4> QED
        BY <3>1, <3>2, <4>1, <4>2, Zenon
    <3>3. CASE a # k + 1
      <4>1. g \in E
        BY <3>1, <3>3
      <4>2. PICK j \in 1 .. Len(y) : y[j] = g
        BY <1>6, <1>a, <4>1 DEF ToSet
      <4> DEFINE i == NewIndex(m, SendLen, j)
      <4>3. i \in 1 .. Len(z) /\ isOld(i) /\ old(i) = j
        BY <1>0, <1>1, <1>a, IndexFacts
      <4> HIDE DEF i, isOld, old, G
      <4>4. z[i] = y[old(i)]
        BY <1>7, <4>3, Zenon
      <4> QED
        BY <4>2, <4>3, <4>4, Zenon
    <3> QED
      BY <3>2, <3>3
  <2> HIDE DEF G
  <2> QED
    BY <2>1, <2>2
<1>b. Ordered(z)
  <2> SUFFICES ASSUME NEW i \in 1 .. Len(z), NEW j \in 1 .. Len(z), i < j, z[i][1] = z[j][1]
               PROVE  z[i][2] < z[j][2]
    BY DEF Ordered
  <2>0. ASSUME NEW l \in 1 .. Len(y) PROVE y[l][1] # k + 1
    <3>1. y[l] \in E
      BY <1>1, <2>0
    <3> QED
      BY <3>1
  <2>1. CASE isOld(i) /\ isOld(j)
    <3>1. /\ old(i) \in 1 .. Len(y) /\ z[i] = y[old(i)]
          /\ old(j) \in 1 .. Len(y) /\ z[j] = y[old(j)]
      <4> HIDE DEF isOld, old
      <4> QED
        BY <1>7, <2>1, Zenon
    <3>2. old(i) < old(j)
      <4>1. SendLen \in Nat /\ m \in Nat
        BY <1>0, <1>1
      <4> QED
        BY <1>a, <2>1, <4>1, IndexFacts
    <3> HIDE DEF isOld, old
    <3> QED
      BY <1>6, <3>1, <3>2, Zenon DEF Ordered
  <2>2. CASE ~isOld(i) /\ ~isOld(j)
    <3>1. z[i] = <<k + 1, i - m>> /\ z[j] = <<k + 1, j - m>>
      <4> HIDE DEF isOld, old
      <4> QED
        BY <1>7, <2>2, Zenon
    <3>2. z[i][2] = i - m /\ z[j][2] = j - m
      BY <3>1
    <3>3. i - m < j - m
      BY <1>1, <1>a
    <3> QED
      BY <3>2, <3>3, Zenon
  <2>3. CASE isOld(i) /\ ~isOld(j)
    <3> HIDE DEF isOld, old
    <3>1. old(i) \in 1 .. Len(y) /\ z[i] = y[old(i)] /\ z[j] = <<k + 1, j - m>>
      BY <1>7, <2>3, Zenon
    <3>2. z[j][1] = k + 1
      BY <3>1
    <3> QED
      BY <2>0, <3>1, <3>2, Zenon
  <2>4. CASE ~isOld(i) /\ isOld(j)
    <3> HIDE DEF isOld, old
    <3>1. old(j) \in 1 .. Len(y) /\ z[j] = y[old(j)] /\ z[i] = <<k + 1, i - m>>
      BY <1>7, <2>4, Zenon
    <3>2. z[i][1] = k + 1
      BY <3>1
    <3> QED
      BY <2>0, <3>1, <3>2, Zenon
  <2> HIDE DEF isOld, old
  <2> QED
    BY <2>1, <2>2, <2>3, <2>4, Zenon
<1> QED
  BY <1>8, <1>9, <1>b, Zenon DEF Conserved, z, v

-----------------------------------------------------------------------------
(* Stacks of calls.                                                        *)

LEMMA StackTop ==
  ASSUME NEW E, NEW g, NEW st, StackOf(st, E, g), st # <<>>
  PROVE  /\ Head(st) \in FrameOf(E) /\ Parsing(Head(st), g)
         /\ StackOf(Tail(st), E, g)
         /\ Left(Tail(st)) \in Seq(E)
         /\ Left(st) = Head(st).rest \o Left(Tail(st))
<1>1. st \in Seq(FrameOf(E)) /\ \A i \in 1 .. Len(st) : Parsing(st[i], g)
  BY Zenon DEF StackOf
<1>2. /\ Head(st) \in FrameOf(E) /\ Tail(st) \in Seq(FrameOf(E)) /\ st = <<Head(st)>> \o Tail(st)
      /\ Head(st) = st[1] /\ Len(st) \in Nat /\ Len(st) >= 1 /\ Len(Tail(st)) = Len(st) - 1
      /\ \A i \in 1 .. Len(Tail(st)) : Tail(st)[i] = st[i + 1]
  BY <1>1, StackParts
<1>3. 1 \in 1 .. Len(st) /\ \A i \in 1 .. Len(Tail(st)) : i + 1 \in 1 .. Len(st)
  BY <1>2
<1>4. \A i \in 1 .. Len(Tail(st)) : Parsing(Tail(st)[i], g)
  BY <1>1, <1>2, <1>3, Zenon
<1>5. /\ Left(Tail(st)) \in Seq(E)
      /\ Left(<<Head(st)>> \o Tail(st)) = Head(st).rest \o Left(Tail(st))
  BY <1>2, LeftFacts, Zenon
<1>6. Left(st) = Head(st).rest \o Left(Tail(st))
  BY <1>2, <1>5, Zenon
<1> QED
  BY <1>1, <1>2, <1>3, <1>4, <1>5, <1>6, Zenon DEF StackOf

LEMMA StackCall ==
  ASSUME NEW E, NEW g, NEW st, StackOf(st, E, g), NEW f \in FrameOf(E), Parsing(f, g)
  PROVE  /\ StackOf(<<f>> \o st, E, g)
         /\ Left(<<f>> \o st) = f.rest \o Left(st)
         /\ Left(st) \in Seq(E)
<1> DEFINE q == <<f>> \o st
<1>1. st \in Seq(FrameOf(E)) /\ \A i \in 1 .. Len(st) : Parsing(st[i], g)
  BY Zenon DEF StackOf
<1>2. /\ q \in Seq(FrameOf(E)) /\ Len(q) = Len(st) + 1 /\ Len(st) \in Nat
      /\ q[1] = f /\ \A i \in 1 .. Len(st) : q[i + 1] = st[i]
  BY <1>1, StackPush
<1>3. Left(q) = f.rest \o Left(st) /\ Left(st) \in Seq(E)
  BY <1>1, LeftFacts, Zenon
<1> HIDE DEF q
<1>4. ASSUME NEW i \in 1 .. Len(q) PROVE Parsing(q[i], g)
  <2>1. CASE i = 1
    BY <1>2, <2>1, Zenon
  <2>2. CASE i # 1
    <3> DEFINE j == i - 1
    <3>1. j \in 1 .. Len(st) /\ i = j + 1
      BY <1>2, <2>2
    <3> HIDE DEF j
    <3> QED
      BY <1>1, <1>2, <3>1, Zenon
  <2> QED
    BY <2>1, <2>2
<1>5. StackOf(q, E, g)
  BY <1>2, <1>4, Zenon DEF StackOf
<1> QED
  BY <1>3, <1>5, Zenon DEF q

(* More sends and a longer block.                                          *)
LEMMA StackGrows ==
  ASSUME NEW E, NEW F, NEW g \in Nat, NEW h \in Nat, E \subseteq F, g <= h,
         NEW st, StackOf(st, E, g)
  PROVE  StackOf(st, F, h)
<1>1. st \in Seq(FrameOf(E)) /\ \A i \in 1 .. Len(st) : Parsing(st[i], g)
  BY Zenon DEF StackOf
<1>2. FrameOf(E) \subseteq FrameOf(F)
  <2>1. Seq(E) \subseteq Seq(F)
    OBVIOUS
  <2> QED
    BY <2>1 DEF FrameOf
<1>3. st \in Seq(FrameOf(F))
  <2>1. \A A, B : A \subseteq B /\ st \in Seq(A) => st \in Seq(B)
    OBVIOUS
  <2> QED
    BY <1>1, <1>2, <2>1, Zenon
<1>4. ASSUME NEW i \in 1 .. Len(st) PROVE Parsing(st[i], h)
  <2>1. Parsing(st[i], g) /\ st[i] \in FrameOf(E)
    BY <1>1
  <2>2. st[i].cnt \in Nat
    BY <2>1, FrameFacts
  <2> QED
    BY <2>1, <2>2 DEF Parsing
<1> QED
  BY <1>3, <1>4 DEF StackOf

-----------------------------------------------------------------------------
(* The steps.                                                              *)

LEMMA LoadFacts ==
  ASSUME IInv
  PROVE  /\ Len(gReadspace) \in Nat
         /\ shell \in Seq(Byte) /\ inBuf \in Seq(Byte) /\ Len(inBuf) \in Nat /\ Len(inBuf) <= InMax
         /\ Left(stack) \in Seq(Byte)
         /\ shell \o inBuf \in Seq(Byte)
         /\ Conserved((shell \o inBuf) \o Left(stack), sends)
<1>1. shell \in Seq(Byte) /\ inBuf \in Seq(Byte) /\ Len(inBuf) <= InMax /\ gReadspace \in Seq(Chars)
  BY Zenon DEF IInv, InputTypes, OutputTypes
<1>2. shell \o inBuf \in Seq(Byte) /\ Len(gReadspace) \in Nat /\ Len(inBuf) \in Nat
  BY <1>1
<1>3. Left(stack) \in Seq(Byte)
  <2>1. stack \in Seq(FrameOf(Byte))
    BY Zenon DEF IInv, StackTypes, StackOf
  <2>2. CASE stack = <<>>
    BY <2>2 DEF Left, Rests, FlattenSeq
  <2>3. CASE stack # <<>>
    <3>1. StackOf(stack, Byte, Len(gReadspace))
      BY Zenon DEF IInv, StackTypes
    <3>2. Head(stack).rest \in Seq(Byte) /\ Left(Tail(stack)) \in Seq(Byte)
          /\ Left(stack) = Head(stack).rest \o Left(Tail(stack))
      BY <2>3, <3>1, StackTop, FrameFacts, Zenon
    <3> DEFINE a == Head(stack).rest
               b == Left(Tail(stack))
    <3>3. a \in Seq(Byte) /\ b \in Seq(Byte) /\ Left(stack) = a \o b
      BY <3>2, Zenon
    <3> HIDE DEF a, b
    <3> QED
      BY <3>3
  <2> QED
    BY <2>2, <2>3
<1>4. Conserved((shell \o inBuf) \o Left(stack), sends)
  BY ConservedFacts, Zenon DEF IInv, All
<1> QED
  BY <1>1, <1>2, <1>3, <1>4, Zenon

(* The session's thread and the keys that lock the window.                 *)
LEMMA InputFrame ==
  ASSUME IInv, UNCHANGED <<sends, inBuf, shell, stack, gReadspace>>, keys' \in 0 .. MaxKeys
  PROVE  InputTypes' /\ StackTypes' /\ InputConserved'
<1>1. Byte' = Byte /\ InputTypes /\ StackTypes
  BY DEF Byte, IInv
<1>2. InputTypes'
  BY <1>1 DEF InputTypes
<1>3. StackTypes'
  BY <1>1 DEF StackTypes
<1>4. InputConserved'
  BY LoadFacts, ConservedFacts
<1> QED
  BY <1>2, <1>3, <1>4

(* WriteCharsToTTY.                                                        *)
LEMMA WriteRoundTypes ==
  ASSUME IInv, NEW k \in 1 .. Len(stream) - taken, WriteRound(k)
  PROVE  IInv'
<1>0. /\ stream \in Streams /\ Len(stream) \in Nat /\ taken \in Nat /\ taken <= Len(stream)
      /\ outBuf \in Seq(Chars) /\ Len(outBuf) \in Nat /\ Len(outBuf) <= OutMax /\ OutMax \in Nat
      /\ k \in Nat /\ taken \in 0 .. Len(stream)
  BY CharsFacts, BufferAssumption DEF IInv, OutputTypes
<1>1. lastCR \in BOOLEAN /\ condata \in BOOLEAN
  BY Zenon DEF IInv, OutputTypes
<1>2. /\ stream' = stream
      /\ gReadspace' = gReadspace /\ screen' = screen /\ locked' = locked /\ sends' = sends
      /\ keys' = keys /\ stack' = stack /\ inBuf' = inBuf /\ shell' = shell
  BY Zenon DEF WriteRound, mainVars
<1>3. keys \in 0 .. MaxKeys
  BY DEF IInv, InputTypes
<1>4. InputTypes' /\ StackTypes' /\ InputConserved'
  BY <1>2, <1>3, InputFrame
<1>5. /\ taken' \in 0 .. Len(stream) /\ n' \in 0 .. (Len(stream) - taken')
      /\ outBuf' \in Seq(Chars) /\ Len(outBuf') <= OutMax
      /\ lastCR' \in BOOLEAN /\ condata' \in BOOLEAN
  <2>1. CASE Len(outBuf) < OutMax
    <3> DEFINE len == Min({k, OutMax - Len(outBuf)})
               start == [buf |-> outBuf, cr |-> lastCR, used |-> 0]
               acc == FillLoop(start, len)
    <3>1. /\ outBuf' = acc.buf /\ lastCR' = acc.cr /\ taken' = taken + acc.used
          /\ n' = k - acc.used /\ condata' = TRUE
      BY <2>1, Zenon DEF WriteRound, Fill
    <3>2. OutMax - Len(outBuf) \in Nat
      BY <1>0, <2>1
    <3>3. len \in Nat /\ len <= k
      BY <1>0, <3>2, MinTwo
    <3> HIDE DEF len
    <3>4. len \in 0 .. Len(stream) - taken
      BY <1>0, <3>3
    <3>5. Filled(0, start)
      <4>1. start \in [buf : Seq(Chars), cr : BOOLEAN, used : Nat]
        <5>1. 0 \in Nat
          OBVIOUS
        <5> QED
          BY <1>0, <1>1, <5>1, Zenon
      <4>2. start.buf = outBuf /\ start.used = 0 /\ 0 <= 0
        OBVIOUS
      <4> HIDE DEF start
      <4> QED
        BY <1>0, <4>1, <4>2, Zenon DEF Filled
    <3> HIDE DEF start
    <3>6. Filled(len, acc)
      BY <1>0, <3>4, <3>5, FillSound, Zenon
    <3> HIDE DEF acc
    <3>7. acc.cr \in BOOLEAN
      BY <3>6, Zenon DEF Filled
    <3>8. acc.buf \in Seq(Chars) /\ Len(acc.buf) <= OutMax /\ acc.used \in Nat /\ acc.used <= len
      BY <3>6 DEF Filled
    <3>9. taken + acc.used \in 0 .. Len(stream)
          /\ k - acc.used \in 0 .. (Len(stream) - (taken + acc.used))
      <4> DEFINE u == acc.used
      <4>1. u \in Nat /\ u <= len
        BY <3>8
      <4> HIDE DEF u
      <4>2. taken + u \in 0 .. Len(stream) /\ k - u \in 0 .. (Len(stream) - (taken + u))
        BY <1>0, <3>3, <4>1
      <4> QED
        BY <4>2 DEF u
    <3> QED
      BY <3>1, <3>7, <3>8, <3>9, Zenon
  <2>2. CASE ~(Len(outBuf) < OutMax)
    <3>1. n' = k /\ UNCHANGED <<taken, outBuf, lastCR, condata>>
      BY <2>2, Zenon DEF WriteRound
    <3>2. k \in 0 .. (Len(stream) - taken)
      BY <1>0
    <3> QED
      BY <1>0, <1>1, <3>1, <3>2, Zenon
  <2> QED
    BY <2>1, <2>2
<1>6. OutputTypes'
  <2>1. /\ gReadspace \in Seq(Chars) /\ Len(gReadspace) <= BlockSize /\ screen \in Seq(Chars)
        /\ locked \in BOOLEAN
    BY Zenon DEF IInv, OutputTypes
  <2> QED
    BY <1>0, <1>2, <1>5, <2>1, Zenon DEF OutputTypes
<1> QED
  BY <1>4, <1>6, Zenon DEF IInv

LEMMA ReadTypes ==
  ASSUME IInv, ReadCharsFromTTY
  PROVE  IInv'
<1>1. PICK k \in 1 .. Len(inBuf) :
        /\ shell' = shell \o SubSeq(inBuf, 1, k)
        /\ inBuf' = SubSeq(inBuf, k + 1, Len(inBuf))
  BY DEF ReadCharsFromTTY
<1>2. /\ UNCHANGED <<stream, taken, n, outBuf, lastCR, condata>>
      /\ UNCHANGED <<gReadspace, screen, locked, sends, keys, stack>>
  BY DEF ReadCharsFromTTY, threadVars, mainVars
<1>3. OutputTypes' /\ StackTypes' /\ Byte' = Byte
  <2>1. Byte' = Byte
    BY <1>2 DEF Byte
  <2>2. OutputTypes'
    BY <1>2, Zenon DEF IInv, OutputTypes
  <2>3. StackTypes'
    BY <1>2, <2>1 DEF IInv, StackTypes
  <2> QED
    BY <2>1, <2>2, <2>3
<1> DEFINE p == SubSeq(inBuf, 1, k)
           q == SubSeq(inBuf, k + 1, Len(inBuf))
<1>4. /\ p \in Seq(Byte) /\ q \in Seq(Byte) /\ Len(q) <= Len(inBuf) /\ inBuf = p \o q
      /\ Len(q) \in Nat
  <2>1. inBuf \in Seq(Byte)
    BY LoadFacts
  <2> QED
    BY <2>1
<1> HIDE DEF p, q
<1>5. shell' = shell \o p /\ inBuf' = q
  BY <1>1 DEF p, q
<1>6. (shell \o p) \o q = shell \o inBuf /\ shell \o p \in Seq(Byte)
  <2>1. \A s, t, u \in Seq(Byte) : (s \o t) \o u = s \o (t \o u) /\ s \o t \in Seq(Byte)
    OBVIOUS
  <2>2. shell \in Seq(Byte)
    BY LoadFacts
  <2> QED
    BY <1>4, <2>1, <2>2, Zenon
<1>7. InputConserved'
  <2>1. (shell' \o inBuf') \o Left(stack') = (shell \o inBuf) \o Left(stack) /\ sends' = sends
    BY <1>2, <1>5, <1>6
  <2> QED
    BY <2>1, ConservedFacts, LoadFacts, Zenon
<1>8. InputTypes'
  <2>1. Len(q) <= InMax
    BY <1>4, LoadFacts, BufferAssumption
  <2> QED
    BY <1>2, <1>3, <1>4, <1>5, <1>6, <2>1 DEF IInv, InputTypes
<1> QED
  BY <1>3, <1>7, <1>8 DEF IInv

(* What netread leaves in gReadspace.                                      *)
LEMMA OverlayFacts ==
  ASSUME NEW block \in Seq(Chars), NEW old \in Seq(Chars),
         Len(block) <= BlockSize, Len(old) <= BlockSize
  PROVE  /\ Overlay(block, old) \in Seq(Chars)
         /\ Len(Overlay(block, old)) \in Nat
         /\ Len(Overlay(block, old)) <= BlockSize
         /\ Len(Overlay(block, old)) >= Len(old)
         /\ Len(Overlay(block, old)) >= Len(block)
         /\ \A i \in 1 .. Len(block) : Overlay(block, old)[i] = block[i]
<1> DEFINE r == SubSeq(old, Len(block) + 1, Len(old))
           v == Overlay(block, old)
<1>0. BlockSize \in Nat
  BY BufferAssumption
<1>1. /\ r \in Seq(Chars) /\ Len(r) \in Nat /\ Len(block) \in Nat /\ Len(old) \in Nat
      /\ Len(r) = IF Len(block) <= Len(old) THEN Len(old) - Len(block) ELSE 0
  OBVIOUS
<1> HIDE DEF r
<1>2. v = block \o r
  BY DEF Overlay, r
<1> HIDE DEF v
<1>3. /\ v \in Seq(Chars) /\ Len(v) = Len(block) + Len(r)
      /\ \A i \in 1 .. Len(block) : v[i] = block[i]
  <2>1. Joins2(Chars, block, r, v)
    BY <1>1, <1>2, Joined, Zenon
  <2> QED
    BY <2>1, Zenon DEF Joins2
<1> DEFINE a == Len(block)
           b == Len(old)
           c == Len(r)
<1>4. a \in Nat /\ b \in Nat /\ c \in Nat /\ c = (IF a <= b THEN b - a ELSE 0) /\ Len(v) = a + c
      /\ a <= BlockSize /\ b <= BlockSize
  BY <1>1, <1>3
<1>5. Len(v) \in Nat /\ Len(v) <= BlockSize /\ Len(v) >= b /\ Len(v) >= a
  <2> HIDE DEF a, b, c
  <2> QED
    BY <1>0, <1>4
<1> QED
  BY <1>3, <1>5 DEF v

(* s is p and q, cut at k.                                                 *)
CutAt(E, s, k, p, q) ==
  /\ p \in Seq(E) /\ q \in Seq(E) /\ s = p \o q
  /\ Len(p) = k /\ Len(q) \in Nat /\ Len(q) = Len(s) - k /\ Len(q) <= Len(s)

LEMMA Cut ==
  \A E : \A s \in Seq(E) : \A k \in 0 .. Len(s) :
    CutAt(E, s, k, SubSeq(s, 1, k), SubSeq(s, k + 1, Len(s)))
<1> SUFFICES ASSUME NEW E, NEW s \in Seq(E), NEW k \in 0 .. Len(s)
             PROVE  CutAt(E, s, k, SubSeq(s, 1, k), SubSeq(s, k + 1, Len(s)))
  OBVIOUS
<1> DEFINE p == SubSeq(s, 1, k)
           q == SubSeq(s, k + 1, Len(s))
<1>1. /\ p \in Seq(E) /\ q \in Seq(E) /\ Len(p) = k /\ Len(q) = Len(s) - k
      /\ Len(s) \in Nat /\ k \in Nat /\ k <= Len(s)
      /\ \A i \in 1 .. k : p[i] = s[i]
      /\ \A i \in 1 .. Len(s) - k : q[i] = s[k + i]
  OBVIOUS
<1> HIDE DEF p, q
<1>2. Joins2(E, p, q, p \o q)
  BY <1>1, Joined, Zenon
<1> DEFINE j == p \o q
<1>3. /\ j \in Seq(E) /\ Len(j) = k + Len(q)
      /\ \A i \in 1 .. k : j[i] = p[i]
      /\ \A i \in 1 .. Len(q) : j[k + i] = q[i]
  BY <1>1, <1>2, Zenon DEF Joins2
<1> HIDE DEF j
<1>4. Len(j) = Len(s)
  BY <1>1, <1>3
<1>5. ASSUME NEW i \in 1 .. Len(s) PROVE j[i] = s[i]
  <2>1. CASE i <= k
    BY <1>1, <1>3, <2>1
  <2>2. CASE i > k
    <3> DEFINE m == i - k
    <3>1. m \in 1 .. Len(q) /\ m \in 1 .. Len(s) - k /\ i = k + m
      BY <1>1, <2>2
    <3> HIDE DEF m
    <3> QED
      BY <1>1, <1>3, <3>1, Zenon
  <2> QED
    BY <1>1, <2>1, <2>2
<1>6. s = j
  BY <1>3, <1>4, <1>5
<1>7. Len(q) \in Nat /\ Len(q) <= Len(s)
  BY <1>1
<1> QED
  BY <1>1, <1>6, <1>7, Zenon DEF CutAt, p, q, j

(* How netread divides the output buffer.                                  *)
Block == SubSeq(outBuf, 1, Min({Len(outBuf), BlockSize}))
Later == SubSeq(outBuf, Min({Len(outBuf), BlockSize}) + 1, Len(outBuf))

LEMMA BlockFacts ==
  ASSUME outBuf \in Seq(Chars)
  PROVE  /\ Block \in Seq(Chars) /\ Later \in Seq(Chars) /\ outBuf = Block \o Later
         /\ Len(Block) = Min({Len(outBuf), BlockSize}) /\ Len(Block) \in Nat
         /\ Len(Block) <= BlockSize
         /\ Len(Later) \in Nat /\ Len(Later) <= Len(outBuf)
         /\ Len(Block) = 0 => outBuf = <<>>
<1> DEFINE k == Min({Len(outBuf), BlockSize})
<1>1. Len(outBuf) \in Nat /\ BlockSize \in Nat /\ BlockSize # 0
  BY BufferAssumption
<1>2. k \in Nat /\ k <= Len(outBuf) /\ k <= BlockSize /\ (k = Len(outBuf) \/ k = BlockSize)
  BY <1>1, MinTwo
<1>3. Block = SubSeq(outBuf, 1, k) /\ Later = SubSeq(outBuf, k + 1, Len(outBuf))
  BY DEF Block, Later
<1> HIDE DEF k
<1>4. /\ Block \in Seq(Chars) /\ Later \in Seq(Chars) /\ outBuf = Block \o Later
      /\ Len(Block) = k /\ Len(Later) \in Nat /\ Len(Later) <= Len(outBuf)
  <2>1. k \in 0 .. Len(outBuf)
    BY <1>1, <1>2
  <2>2. CutAt(Chars, outBuf, k, Block, Later)
    BY <1>3, <2>1, Cut, Zenon
  <2> QED
    BY <2>2, Zenon DEF CutAt
<1>5. k = 0 => outBuf = <<>>
  BY <1>1, <1>2
<1> QED
  BY <1>2, <1>4, <1>5 DEF k

LEMMA NetreadTypes ==
  ASSUME IInv, ConnectionDataEvent
  PROVE  IInv'
<1> DEFINE k == Min({Len(outBuf), BlockSize})
<1>0. /\ outBuf \in Seq(Chars) /\ Len(outBuf) <= OutMax /\ OutMax \in Nat /\ Len(outBuf) \in Nat
      /\ gReadspace \in Seq(Chars) /\ Len(gReadspace) <= BlockSize
  BY BufferAssumption DEF IInv, OutputTypes
<1>1. /\ gReadspace' = Overlay(Block, gReadspace) /\ outBuf' = Later
      /\ condata' = (outBuf' # <<>>)
      /\ stack' = IF k = 0 THEN stack ELSE <<ParseCall(k)>> \o stack
  BY Zenon DEF ConnectionDataEvent, Netread, Block, Later
<1>2. UNCHANGED <<stream, taken, n, lastCR, screen, locked, inBuf, shell, sends, keys>>
  BY DEF ConnectionDataEvent
<1>3. Byte' = Byte
  BY <1>2 DEF Byte
<1>4. /\ Block \in Seq(Chars) /\ Later \in Seq(Chars) /\ Len(Block) = k /\ k \in Nat
      /\ Len(Block) <= BlockSize /\ Len(Later) <= Len(outBuf) /\ Len(Later) \in Nat
  BY <1>0, BlockFacts
<1> HIDE DEF k
<1> DEFINE g == Len(gReadspace)
           h == Len(gReadspace')
<1>5. /\ gReadspace' \in Seq(Chars) /\ h \in Nat /\ h <= BlockSize /\ h >= g /\ h >= k /\ g \in Nat
  BY <1>0, <1>1, <1>4, OverlayFacts
<1>6. StackTypes' /\ Left(stack') = Left(stack)
  <2>1. StackOf(stack, Byte, h)
    <3>1. StackOf(stack, Byte, g)
      BY Zenon DEF IInv, StackTypes
    <3> HIDE DEF g, h
    <3> QED
      BY <1>5, <3>1, StackGrows
  <2>2. CASE k = 0
    BY <1>1, <1>3, <2>1, <2>2 DEF StackTypes
  <2>3. CASE k # 0
    <3> DEFINE f == ParseCall(k)
    <3>1. f \in FrameOf(Byte)
      BY <1>4 DEF ParseCall, FrameOf
    <3>2. Parsing(f, h) /\ f.rest = <<>>
      <4>1. f.rest = <<>> /\ f.pos = 1 /\ f.cnt = k
        BY DEF ParseCall
      <4>2. 1 \in 1 .. k /\ k <= h
        <5> HIDE DEF h
        <5> QED
          BY <1>4, <1>5, <2>3
      <4> HIDE DEF f
      <4> QED
        BY <4>1, <4>2, Zenon DEF Parsing
    <3> HIDE DEF f, h
    <3>3. /\ StackOf(<<f>> \o stack, Byte, h)
          /\ Left(<<f>> \o stack) = f.rest \o Left(stack)
          /\ Left(stack) \in Seq(Byte)
      BY <2>1, <3>1, <3>2, StackCall, Zenon
    <3>4. <<>> \o Left(stack) = Left(stack)
      BY <3>3
    <3>5. stack' = <<f>> \o stack
      BY <1>1, <2>3, Zenon DEF f
    <3> QED
      BY <1>3, <3>2, <3>3, <3>4, <3>5, Zenon DEF StackTypes, h
  <2> QED
    BY <2>2, <2>3
<1>7. InputConserved'
  <2>1. (shell' \o inBuf') \o Left(stack') = (shell \o inBuf) \o Left(stack) /\ sends' = sends
    BY <1>2, <1>6
  <2> QED
    BY <2>1, ConservedFacts, LoadFacts, Zenon
<1>8. InputTypes'
  BY <1>2, <1>3 DEF IInv, InputTypes
<1>9. OutputTypes'
  <2>1. Len(outBuf') <= OutMax
    BY <1>0, <1>1, <1>4
  <2>2. condata' \in BOOLEAN
    BY <1>1, Zenon
  <2> HIDE DEF g
  <2> QED
    BY <1>1, <1>2, <1>4, <1>5, <2>1, <2>2, Zenon DEF IInv, OutputTypes
<1> QED
  BY <1>6, <1>7, <1>8, <1>9, Zenon DEF IInv

(* RSsendstring on a stack that has as much left to send as before.        *)
LEMMA SendTypes ==
  ASSUME IInv, NEW calls, StackOf(calls, Byte, Len(gReadspace)), Left(calls) = Left(stack),
         RSsendstring(calls), UNCHANGED <<inBuf, shell, gReadspace>>, keys' \in 0 .. MaxKeys
  PROVE  InputTypes' /\ StackTypes' /\ InputConserved'
<1> DEFINE bytes == [b \in 1 .. SendLen |-> <<sends + 1, b>>]
           f == SendCall(IF inBuf = <<>> THEN "write" ELSE "push", bytes)
           g == Len(gReadspace)
<1>0. sends \in Nat /\ SendLen \in Nat \ {0} /\ g \in Nat
  BY LoadFacts, BufferAssumption DEF IInv, InputTypes
<1>1. sends' = sends + 1 /\ stack' = <<f>> \o calls
  BY Zenon DEF RSsendstring
<1>2. Byte = (1 .. sends) \X (1 .. SendLen) /\ Byte' = (1 .. sends + 1) \X (1 .. SendLen)
  BY <1>1 DEF Byte
<1> DEFINE F == (1 .. sends + 1) \X (1 .. SendLen)
<1>3. Byte \subseteq F /\ bytes \in Seq(F)
  <2>1. Byte \subseteq F
    BY <1>0, <1>2
  <2>2. bytes \in Seq(F)
    BY <1>0
  <2> QED
    BY <2>1, <2>2
<1> HIDE DEF F
<1>4. StackOf(calls, F, g)
  <2>1. g <= g
    BY <1>0
  <2> HIDE DEF g
  <2>2. StackOf(calls, Byte, g)
    BY DEF g
  <2> QED
    BY <1>0, <1>3, <2>1, <2>2, StackGrows
<1> HIDE DEF bytes
<1>5. f \in FrameOf(F) /\ f.rest = bytes /\ f.op # "parse"
  <2>1. f.op \in {"write", "push"} /\ f.rest = bytes
    BY DEF SendCall
  <2>2. f \in FrameOf(F)
    BY <1>3 DEF SendCall, FrameOf
  <2> QED
    BY <2>1, <2>2
<1> HIDE DEF f
<1>6. Parsing(f, g)
  BY <1>5, Zenon DEF Parsing
<1>7. StackOf(<<f>> \o calls, F, g) /\ Left(<<f>> \o calls) = bytes \o Left(stack)
  BY <1>4, <1>5, <1>6, StackCall, Zenon
<1>8. StackTypes'
  BY <1>1, <1>2, <1>7 DEF StackTypes, F
<1>9. InputConserved'
  <2> DEFINE x == shell \o inBuf
             u == Left(stack)
  <2>1. x \in Seq(Byte) /\ u \in Seq(Byte) /\ Conserved(x \o u, sends)
    BY LoadFacts, Zenon
  <2> HIDE DEF x, u
  <2>2. Conserved(x \o (bytes \o u), sends + 1)
    BY <1>0, <1>2, <2>1, ConservedInsert DEF bytes
  <2>3. (shell' \o inBuf') \o Left(stack') = x \o (bytes \o u)
    BY <1>1, <1>7 DEF x, u
  <2> QED
    BY <1>1, <2>2, <2>3, ConservedFacts, Zenon
<1>a. InputTypes'
  <2>1. \A t : t \in Seq(Byte) => t \in Seq(F)
    BY <1>3
  <2>2. inBuf \in Seq(F) /\ shell \in Seq(F) /\ Len(inBuf) <= InMax
    BY <2>1, LoadFacts, Zenon
  <2>3. sends + 1 \in Nat
    BY <1>0
  <2> QED
    BY <1>1, <1>2, <2>2, <2>3 DEF InputTypes, F
<1> QED
  BY <1>8, <1>9, <1>a

LEMMA TopFacts ==
  ASSUME IInv, TopOp # "loop"
  PROVE  /\ stack # <<>> /\ TopOp = Head(stack).op
         /\ Head(stack) \in FrameOf(Byte) /\ Parsing(Head(stack), Len(gReadspace))
         /\ StackOf(Tail(stack), Byte, Len(gReadspace))
         /\ Left(Tail(stack)) \in Seq(Byte)
         /\ Left(stack) = Head(stack).rest \o Left(Tail(stack))
<1>1. stack # <<>> /\ TopOp = Head(stack).op
  BY Zenon DEF TopOp
<1>2. StackOf(stack, Byte, Len(gReadspace))
  BY Zenon DEF IInv, StackTypes
<1> QED
  BY <1>1, <1>2, StackTop, Zenon

(* The innermost call is replaced by one that has as much left to send.    *)
LEMMA ReplaceTop ==
  ASSUME IInv, TopOp # "loop",
         NEW f \in FrameOf(Byte), Parsing(f, Len(gReadspace)), f.rest = Head(stack).rest
  PROVE  /\ StackOf(<<f>> \o Tail(stack), Byte, Len(gReadspace))
         /\ Left(<<f>> \o Tail(stack)) = Left(stack)
BY TopFacts, StackCall, ZenonT(40)

LEMMA ParseTypes ==
  ASSUME IInv, ParseChar
  PROVE  IInv'
<1> DEFINE call == Head(stack)
           c == gReadspace[call.pos]
           next == [call EXCEPT !.pos = @ + 1]
           rest == IF call.pos = call.cnt THEN Tail(stack) ELSE <<next>> \o Tail(stack)
           g == Len(gReadspace)
<1>1. /\ TopOp = "parse" /\ screen' = Append(screen, c)
      /\ IF c = Query THEN RSsendstring(rest) ELSE stack' = rest /\ UNCHANGED sends
      /\ UNCHANGED <<stream, taken, n, outBuf, lastCR, condata, gReadspace, locked, keys, inBuf, shell>>
  BY Zenon DEF ParseChar, threadVars
<1>2. /\ call \in FrameOf(Byte) /\ Parsing(call, g) /\ call.op = "parse"
      /\ StackOf(Tail(stack), Byte, g)
      /\ Left(Tail(stack)) \in Seq(Byte) /\ Left(stack) = call.rest \o Left(Tail(stack))
  BY <1>1, TopFacts, Zenon
<1>3. call.rest = <<>> /\ call.pos \in 1 .. call.cnt /\ call.cnt <= g /\ call.cnt \in Nat
  BY <1>2, FrameFacts, Zenon DEF Parsing
<1>4. /\ gReadspace \in Seq(Chars) /\ screen \in Seq(Chars)
      /\ keys \in 0 .. MaxKeys /\ g \in Nat
  BY LoadFacts DEF IInv, OutputTypes, InputTypes
<1>5. c \in Chars
  <2>1. call.pos \in 1 .. g
    <3> HIDE DEF g, call
    <3> QED
      BY <1>3, <1>4
  <2> HIDE DEF call
  <2> QED
    BY <1>4, <2>1
<1>6. StackOf(rest, Byte, g) /\ Left(rest) = Left(stack)
  <2>1. CASE call.pos = call.cnt
    <3>1. <<>> \o Left(Tail(stack)) = Left(Tail(stack))
      BY <1>2
    <3> QED
      BY <1>2, <1>3, <2>1, <3>1, Zenon
  <2>2. CASE call.pos # call.cnt
    <3>1. /\ next \in FrameOf(Byte) /\ next.op = "parse" /\ next.rest = call.rest
          /\ next.pos = call.pos + 1 /\ next.cnt = call.cnt
      <4> HIDE DEF call
      <4> QED
        BY <1>2, FrameNext, Zenon
    <3>2. call.pos + 1 \in 1 .. call.cnt
      <4> HIDE DEF call
      <4> QED
        BY <1>3, <2>2
    <3> HIDE DEF next
    <3>3. Parsing(next, g)
      BY <1>3, <3>1, <3>2, Zenon DEF Parsing
    <3> QED
      BY <1>1, <2>2, <3>1, <3>3, ReplaceTop, Zenon
  <2> QED
    BY <2>1, <2>2
<1>7. InputTypes' /\ StackTypes' /\ InputConserved'
  <2> HIDE DEF rest, call, c
  <2>1. CASE c = Query
    <3>1. RSsendstring(rest) /\ UNCHANGED <<inBuf, shell, gReadspace>> /\ keys' \in 0 .. MaxKeys
      BY <1>1, <1>4, <2>1, Zenon
    <3> QED
      BY <1>6, <3>1, SendTypes, Zenon
  <2>2. CASE c # Query
    <3>1. stack' = rest /\ sends' = sends
      BY <1>1, <2>2, Zenon
    <3>2. Byte' = Byte
      BY <3>1 DEF Byte
    <3>3. StackTypes'
      BY <1>1, <1>6, <3>1, <3>2 DEF StackTypes
    <3>4. InputTypes'
      BY <1>1, <3>1, <3>2 DEF IInv, InputTypes
    <3>5. InputConserved'
      <4>1. (shell' \o inBuf') \o Left(stack') = (shell \o inBuf) \o Left(stack)
        BY <1>1, <1>6, <3>1, Zenon
      <4> QED
        BY <3>1, <4>1, ConservedFacts, LoadFacts, Zenon
    <3> QED
      BY <3>3, <3>4, <3>5
  <2> QED
    BY <2>1, <2>2
<1>8. OutputTypes'
  <2> HIDE DEF c, rest
  <2>1. screen' \in Seq(Chars)
    BY <1>1, <1>4, <1>5
  <2> QED
    BY <1>1, <2>1, Zenon DEF IInv, OutputTypes
<1> QED
  BY <1>7, <1>8, Zenon DEF IInv

LEMMA KeyTypes ==
  ASSUME IInv, Keystroke \/ Lock \/ Unlock
  PROVE  IInv'
<1>0. keys \in 0 .. MaxKeys /\ MaxKeys \in Nat /\ (keys < MaxKeys => keys + 1 \in 0 .. MaxKeys)
  BY BufferAssumption DEF IInv, InputTypes
<1>1. CASE Keystroke
  <2>1. /\ keys' \in 0 .. MaxKeys /\ RSsendstring(stack) /\ UNCHANGED <<inBuf, shell, gReadspace>>
        /\ UNCHANGED <<stream, taken, n, outBuf, lastCR, condata, screen, locked>>
    BY <1>0, <1>1, Zenon DEF Keystroke, threadVars
  <2>2. StackOf(stack, Byte, Len(gReadspace))
    BY Zenon DEF IInv, StackTypes
  <2>3. InputTypes' /\ StackTypes' /\ InputConserved'
    BY <2>1, <2>2, SendTypes, Zenon
  <2>4. OutputTypes'
    BY <2>1, Zenon DEF IInv, OutputTypes
  <2> QED
    BY <2>3, <2>4, Zenon DEF IInv
<1>2. CASE Lock \/ Unlock
  <2>1. /\ keys' \in 0 .. MaxKeys /\ locked' \in BOOLEAN
        /\ UNCHANGED <<sends, inBuf, shell, stack, gReadspace>>
        /\ UNCHANGED <<stream, taken, n, outBuf, lastCR, condata, screen>>
    BY <1>0, <1>2, Zenon DEF Lock, Unlock, threadVars
  <2>2. InputTypes' /\ StackTypes' /\ InputConserved'
    BY <2>1, InputFrame
  <2>3. OutputTypes'
    BY <2>1, Zenon DEF IInv, OutputTypes
  <2> QED
    BY <2>2, <2>3, Zenon DEF IInv
<1> QED
  BY <1>1, <1>2

(* ssh2_sched returns in netpush or netwrite.                              *)
LEMMA ResumeTypes ==
  ASSUME IInv, PushDone \/ FullDone
  PROVE  IInv'
<1> DEFINE f == [Head(stack) EXCEPT !.op = "write"]
           g == Len(gReadspace)
<1>1. /\ TopOp # "loop" /\ stack' = <<f>> \o Tail(stack)
      /\ UNCHANGED <<stream, taken, n, outBuf, lastCR, condata, screen, locked, gReadspace>>
      /\ UNCHANGED <<sends, keys, inBuf, shell>>
  BY Zenon DEF PushDone, FullDone, threadVars
<1>2. Head(stack) \in FrameOf(Byte)
  BY <1>1, TopFacts, Zenon
<1>3. f \in FrameOf(Byte) /\ f.op = "write" /\ f.rest = Head(stack).rest
  BY <1>2 DEF FrameOf
<1> HIDE DEF f
<1>4. Parsing(f, g)
  BY <1>3 DEF Parsing
<1>5. StackOf(stack', Byte, g) /\ Left(stack') = Left(stack)
  BY <1>1, <1>3, <1>4, ReplaceTop, Zenon
<1>6. Byte' = Byte
  BY <1>1 DEF Byte
<1>7. StackTypes' /\ InputTypes'
  BY <1>1, <1>5, <1>6 DEF IInv, StackTypes, InputTypes
<1>8. InputConserved'
  <2>1. (shell' \o inBuf') \o Left(stack') = (shell \o inBuf) \o Left(stack) /\ sends' = sends
    BY <1>1, <1>5
  <2> QED
    BY <2>1, ConservedFacts, LoadFacts, Zenon
<1>9. OutputTypes'
  BY <1>1, Zenon DEF IInv, OutputTypes
<1> QED
  BY <1>7, <1>8, <1>9, Zenon DEF IInv

(* netwrite moves the beginning of the innermost send to the input buffer. *)
LEMMA NetwriteTypes ==
  ASSUME IInv, Netwrite
  PROVE  IInv'
<1> DEFINE call == Head(stack)
           r == call.rest
           len == Min({Len(r), InMax - Len(inBuf)})
           p == SubSeq(r, 1, len)
           q == SubSeq(r, len + 1, Len(r))
           f == [call EXCEPT !.op = IF len = 0 THEN "full" ELSE "write", !.rest = SubSeq(@, len + 1, Len(@))]
           g == Len(gReadspace)
           L == Left(Tail(stack))
<1>1. /\ TopOp # "loop" /\ TopOp = "write" /\ inBuf' = inBuf \o p
      /\ stack' = IF len = Len(r) THEN Tail(stack) ELSE <<f>> \o Tail(stack)
      /\ UNCHANGED <<stream, taken, n, outBuf, lastCR, condata, screen, locked, gReadspace>>
      /\ UNCHANGED <<sends, keys, shell>>
  BY Zenon DEF Netwrite, threadVars
<1>2. /\ call \in FrameOf(Byte) /\ StackOf(Tail(stack), Byte, g)
      /\ L \in Seq(Byte) /\ Left(stack) = r \o L
  BY <1>1, TopFacts, Zenon
<1>3. r \in Seq(Byte)
  BY <1>2, FrameFacts, Zenon
<1>a. InMax - Len(inBuf) \in Nat /\ Len(r) \in Nat /\ Len(inBuf) \in Nat /\ InMax \in Nat
  <2>1. Len(inBuf) \in Nat /\ Len(inBuf) <= InMax /\ InMax \in Nat
    BY LoadFacts, BufferAssumption
  <2> QED
    BY <1>3, <2>1
<1>b. len \in Nat /\ len <= Len(r) /\ len <= InMax - Len(inBuf)
  BY <1>a, MinTwo
<1>4. f.op # "parse" /\ f.rest = q /\ f.op \in {"full", "write"}
      /\ f.pos = call.pos /\ f.cnt = call.cnt /\ f \in [op : {f.op}, pos : {f.pos}, cnt : {f.cnt}, rest : {f.rest}]
  BY <1>2 DEF FrameOf
<1> HIDE DEF len, r
<1>5. CutAt(Byte, r, len, p, q)
  <2>1. len \in 0 .. Len(r)
    BY <1>a, <1>b
  <2> QED
    BY <1>3, <2>1, Cut, Zenon
<1>6. /\ p \in Seq(Byte) /\ q \in Seq(Byte) /\ r = p \o q /\ Len(p) = len
      /\ Len(q) = Len(r) - len
  BY <1>5, Zenon DEF CutAt
<1> HIDE DEF p, q
<1>7. f \in FrameOf(Byte) /\ Parsing(f, g)
  <2>1. f.pos \in Nat /\ f.cnt \in Nat
    BY <1>2, <1>4, FrameFacts, Zenon
  <2>2. f.rest \in Seq(Byte)
    BY <1>4, <1>6, Zenon
  <2> HIDE DEF f
  <2>3. f \in FrameOf(Byte)
    BY <1>4, <2>1, <2>2 DEF FrameOf
  <2> QED
    BY <1>4, <2>3 DEF Parsing
<1> HIDE DEF f
<1>8. StackOf(stack', Byte, g) /\ Left(stack') = q \o L
  <2>1. CASE len = Len(r)
    <3>1. q = <<>>
      BY <1>a, <1>6, <2>1
    <3>2. <<>> \o L = L
      <4> HIDE DEF L
      <4> QED
        BY <1>2
    <3> QED
      BY <1>1, <1>2, <2>1, <3>1, <3>2, Zenon
  <2>2. CASE len # Len(r)
    <3> HIDE DEF g
    <3>1. StackOf(<<f>> \o Tail(stack), Byte, g)
      BY <1>2, <1>7, StackCall, Zenon
    <3>2. Left(<<f>> \o Tail(stack)) = f.rest \o L
      BY <1>2, <1>7, StackCall, Zenon
    <3> QED
      BY <1>1, <1>4, <2>2, <3>1, <3>2, Zenon
  <2> QED
    BY <2>1, <2>2
<1> HIDE DEF L
<1>9. Byte' = Byte
  BY <1>1 DEF Byte
<1>c. InputTypes' /\ StackTypes'
  <2>1. StackTypes'
    BY <1>1, <1>8, <1>9 DEF StackTypes
  <2>2. inBuf \o p \in Seq(Byte) /\ Len(inBuf \o p) = Len(inBuf) + Len(p)
    <3>1. inBuf \in Seq(Byte)
      BY LoadFacts
    <3>2. Joins2(Byte, inBuf, p, inBuf \o p)
      BY <1>6, <3>1, Joined, Zenon
    <3> QED
      BY <3>2, Zenon DEF Joins2
  <2>3. Len(inBuf) + Len(p) <= InMax
    BY <1>a, <1>b, <1>6
  <2>4. Len(inBuf') <= InMax /\ inBuf' \in Seq(Byte)
    BY <1>1, <2>2, <2>3, Zenon
  <2> QED
    BY <1>1, <1>9, <2>1, <2>4, Zenon DEF IInv, InputTypes
<1>d. InputConserved'
  <2>1. \A s, t \in Seq(Byte) : s \o t \in Seq(Byte)
    OBVIOUS
  <2>2. \A s, t, u \in Seq(Byte) : (s \o t) \o u = s \o (t \o u)
    OBVIOUS
  <2> DEFINE x == shell \o inBuf
  <2>3. shell \in Seq(Byte) /\ inBuf \in Seq(Byte) /\ x \in Seq(Byte)
    BY LoadFacts, Zenon
  <2>4. (shell \o (inBuf \o p)) \o (q \o L) = (shell \o inBuf) \o (r \o L)
    <3>1. shell \o (inBuf \o p) = x \o p
      BY <1>6, <2>2, <2>3, ZenonT(40)
    <3> HIDE DEF x
    <3>2. x \o p \in Seq(Byte)
      BY <1>6, <2>1, <2>3, Zenon
    <3>3. (x \o p) \o (q \o L) = ((x \o p) \o q) \o L
      BY <1>2, <1>6, <2>2, <3>2, Zenon
    <3>4. (x \o p) \o q = x \o r
      BY <1>6, <2>2, <2>3, ZenonT(40)
    <3>5. (x \o r) \o L = x \o (r \o L)
      BY <1>2, <1>3, <2>2, <2>3, ZenonT(40)
    <3> QED
      BY <3>1, <3>3, <3>4, <3>5, Zenon DEF x
  <2>5. (shell' \o inBuf') \o Left(stack') = (shell \o inBuf) \o Left(stack) /\ sends' = sends
    BY <1>1, <1>2, <1>8, <2>4, Zenon
  <2> QED
    BY <2>5, ConservedFacts, LoadFacts, Zenon
<1>e. OutputTypes'
  BY <1>1, Zenon DEF IInv, OutputTypes
<1> QED
  BY <1>c, <1>d, <1>e, Zenon DEF IInv

LEMMA InitTypes == Init => IInv
<1> SUFFICES ASSUME Init PROVE IInv
  OBVIOUS
<1>1. OutputTypes
  <2>1. /\ stream \in Streams /\ taken = 0 /\ n = 0 /\ outBuf = <<>> /\ gReadspace = <<>>
        /\ screen = <<>> /\ lastCR = FALSE /\ condata = FALSE /\ locked = FALSE
    BY Zenon DEF Init
  <2>2. /\ Len(stream) \in Nat /\ 0 \in 0 .. Len(stream) /\ 0 \in 0 .. (Len(stream) - 0)
        /\ <<>> \in Seq(Chars) /\ Len(<<>>) <= OutMax /\ Len(<<>>) <= BlockSize
    BY <2>1, CharsFacts, BufferAssumption
  <2> QED
    BY <2>1, <2>2, Zenon DEF OutputTypes
<1>2. InputTypes
  BY BufferAssumption DEF Init, InputTypes
<1>3. StackTypes
  BY DEF Init, StackTypes, StackOf
<1>4. InputConserved
  <2>1. Left(<<>>) = <<>>
    BY DEF Left, Rests, FlattenSeq
  <2>2. All = <<>> /\ sends = 0
    <3>1. shell = <<>> /\ inBuf = <<>> /\ stack = <<>> /\ sends = 0
      BY DEF Init
    <3>2. Unsent = <<>>
      BY <2>1, <3>1, ConservedFacts, Zenon
    <3> QED
      BY <3>1, <3>2 DEF All
  <2>3. Conserved(<<>>, 0)
    <3>1. 0 * SendLen = 0
      BY BufferAssumption
    <3>2. ToSet(<<>>) = (1 .. 0) \X (1 .. SendLen)
      BY DEF ToSet
    <3> QED
      BY <3>1, <3>2 DEF Conserved, Ordered
  <2> QED
    BY <2>2, <2>3, ConservedFacts, Zenon
<1> QED
  BY <1>1, <1>2, <1>3, <1>4 DEF IInv

LEMMA NextTypes == IInv /\ [Next]_vars => IInv'
<1> SUFFICES ASSUME IInv, [Next]_vars PROVE IInv'
  OBVIOUS
<1>0. n \in 0 .. (Len(stream) - taken) /\ taken \in 0 .. Len(stream) /\ Len(stream) \in Nat
  BY CharsFacts DEF IInv, OutputTypes
<1>1. CASE WriteCharsToTTY
  BY <1>1, WriteRoundTypes DEF WriteCharsToTTY
<1>2. CASE WriteAgain
  <2>1. n \in 1 .. Len(stream) - taken /\ WriteRound(n)
    BY <1>0, <1>2 DEF WriteAgain
  <2> QED
    BY <2>1, WriteRoundTypes
<1>3. CASE ReadCharsFromTTY
  BY <1>3, ReadTypes
<1>4. CASE MainStep
  BY <1>4, ParseTypes, ResumeTypes, NetwriteTypes DEF MainStep
<1>5. CASE ConnectionDataEvent
  BY <1>5, NetreadTypes
<1>6. CASE Keystroke \/ Lock \/ Unlock
  BY <1>6, KeyTypes
<1>7. CASE UNCHANGED vars
  <2>1. /\ UNCHANGED <<sends, inBuf, shell, stack, gReadspace, keys>>
        /\ UNCHANGED <<stream, taken, n, outBuf, lastCR, condata, screen, locked>>
    BY <1>7 DEF vars, threadVars, mainVars
  <2>2. keys' \in 0 .. MaxKeys
    BY <2>1 DEF IInv, InputTypes
  <2>3. InputTypes' /\ StackTypes' /\ InputConserved'
    BY <2>1, <2>2, InputFrame
  <2>4. OutputTypes'
    BY <2>1, Zenon DEF IInv, OutputTypes
  <2> QED
    BY <2>3, <2>4, Zenon DEF IInv
<1> QED
  BY <1>1, <1>2, <1>3, <1>4, <1>5, <1>6, <1>7 DEF Next, ThreadStep

-----------------------------------------------------------------------------
(* The types and the input.                                                *)

(* Types, bounds and the conservation of the input, inductively.           *)
THEOREM PipeInvariant == Spec => []IInv
<1>1. Init => IInv
  BY InitTypes
<1>2. IInv /\ [Next]_vars => IInv'
  BY NextTypes
<1> QED
  BY <1>1, <1>2, PTL DEF Spec

(* No buffer of an SSH session's console overflows, whatever calls of      *)
(* WriteCharsToTTY, netread and netwrite follow one another, and every     *)
(* unfinished parse is within its block.                                   *)
THEOREM PipeTypes == Spec => []TypeOK
<1>1. IInv => TypeOK
  <2> SUFFICES ASSUME IInv PROVE TypeOK
    OBVIOUS
  <2>1. ASSUME NEW i \in 1 .. Len(stack)
        PROVE  /\ stack[i].op \in {"parse", "push", "write", "full"}
               /\ stack[i].op = "parse" => stack[i].pos \in 1 .. stack[i].cnt
               /\ stack[i].rest \in Seq(Byte)
    <3>1. stack \in Seq(FrameOf(Byte)) /\ Parsing(stack[i], Len(gReadspace))
      BY Zenon DEF IInv, StackTypes, StackOf
    <3>2. stack[i] \in FrameOf(Byte)
      BY <3>1
    <3> QED
      BY <3>1, <3>2, FrameFacts, Zenon DEF Parsing
  <2> QED
    BY <2>1, Zenon DEF IInv, OutputTypes, InputTypes, TypeOK
<1> QED
  BY <1>1, PipeInvariant, PTL

(* netpush and netwrite lose and double no byte of what RSsendstring is    *)
(* given, though they enter the event loop, which may send more, while     *)
(* they wait; the bytes of one call stay in order.                         *)
THEOREM InputKept == Spec => []InputConserved
<1>1. IInv => InputConserved
  BY DEF IInv
<1> QED
  BY <1>1, PipeInvariant, PTL

-----------------------------------------------------------------------------
(* The output as one text.                                                 *)

LEMMA FirstOfSub ==
  ASSUME NEW s \in Seq(Chars), NEW i \in Nat, NEW j \in Nat, i \in 1 .. j, j <= Len(s)
  PROVE  /\ SubSeq(s, i + 1, j) \in Seq(Chars)
         /\ Len(SubSeq(s, i + 1, j)) = j - i
         /\ SubSeq(s, i, j) = <<s[i]>> \o SubSeq(s, i + 1, j)
<1> DEFINE r == SubSeq(s, i + 1, j)
           p == SubSeq(s, i, j)
<1>0. Len(s) \in Nat /\ i \in 1 .. Len(s)
  OBVIOUS
<1>1. r \in Seq(Chars) /\ Len(r) = j - i /\ \A k \in 1 .. j - i : r[k] = s[i + k]
  BY <1>0
<1>2. p \in Seq(Chars) /\ Len(p) = j - i + 1 /\ \A k \in 1 .. j - i + 1 : p[k] = s[i + k - 1]
  BY <1>0
<1>3. <<s[i]>> \in Seq(Chars) /\ Len(<<s[i]>>) = 1 /\ <<s[i]>>[1] = s[i]
  BY <1>0
<1> HIDE DEF r, p
<1> DEFINE h == <<s[i]>>
           q == h \o r
<1>4. Joins2(Chars, h, r, q)
  BY <1>1, <1>3, Joined, Zenon
<1>5. /\ q \in Seq(Chars) /\ Len(q) = 1 + (j - i) /\ q[1] = s[i]
      /\ \A k \in 1 .. j - i : q[1 + k] = r[k]
  <2>1. /\ q \in Seq(Chars) /\ Len(q) = 1 + Len(r)
        /\ \A k \in 1 .. 1 : q[k] = h[k]
        /\ \A k \in 1 .. Len(r) : q[1 + k] = r[k]
    BY <1>3, <1>4, Zenon DEF Joins2
  <2> HIDE DEF q, h
  <2>2. q[1] = h[1]
    BY <2>1
  <2> QED
    BY <1>1, <1>3, <2>1, <2>2, Zenon DEF h
<1> HIDE DEF q
<1>6. ASSUME NEW k \in 1 .. Len(p) PROVE p[k] = q[k]
  <2>1. CASE k = 1
    BY <1>2, <1>5, <2>1
  <2>2. CASE k # 1
    <3> DEFINE m == k - 1
    <3>1. m \in 1 .. j - i /\ k = 1 + m /\ i + k - 1 = i + m /\ k \in 1 .. j - i + 1
      BY <1>2, <2>2
    <3> HIDE DEF m
    <3> QED
      BY <1>1, <1>2, <1>5, <3>1, Zenon
  <2> QED
    BY <2>1, <2>2
<1>7. Len(p) = Len(q)
  BY <1>2, <1>5
<1>8. p = q
  <2> HIDE DEF p
  <2> QED
    BY <1>2, <1>5, <1>6, <1>7, SeqEqual, Zenon
<1> QED
  BY <1>1, <1>8, Zenon DEF p, q, r

LEMMA SubStart ==
  ASSUME NEW b \in Seq(Chars), NEW w \in Seq(Chars), NEW k, k = Len(b), Len(w) >= k,
         \A i \in 1 .. k : w[i] = b[i]
  PROVE  SubSeq(w, 1, k) = b
<1> DEFINE p == SubSeq(w, 1, k)
<1>1. p \in Seq(Chars) /\ Len(p) = k /\ \A i \in 1 .. k : p[i] = w[i]
  OBVIOUS
<1> HIDE DEF p
<1>2. p = b
  BY <1>1
<1> QED
  BY <1>2 DEF p

LEMMA QuietFacts ==
  ASSUME NEW F, NEW st \in Seq(F)
  PROVE  /\ Quiet(st) => Shallow(st) /\ \A g : PendingOf(st, g) = <<>>
         /\ Shallow(st) /\ st # <<>> => Quiet(Tail(st))
         /\ Shallow(st) /\ st # <<>> /\ Head(st).op # "parse" => Quiet(st)
         /\ Shallow(st) /\ st = <<>> => Quiet(st)
<1>0. Len(st) \in Nat
  OBVIOUS
<1>1. ASSUME Quiet(st) PROVE Shallow(st) /\ \A g : PendingOf(st, g) = <<>>
  <2>1. Shallow(st)
    BY <1>0, <1>1 DEF Quiet, Shallow
  <2>2. st # <<>> => 1 \in 1 .. Len(st) /\ Head(st) = st[1]
    OBVIOUS
  <2>3. st # <<>> => Head(st).op # "parse"
    BY <1>1, <2>2, Zenon DEF Quiet
  <2> QED
    BY <2>1, <2>3, Zenon DEF PendingOf
<1>2. ASSUME Shallow(st), st # <<>> PROVE Quiet(Tail(st))
  <2>1. Len(Tail(st)) = Len(st) - 1 /\ \A i \in 1 .. Len(Tail(st)) : Tail(st)[i] = st[i + 1]
    BY <1>2, StackParts
  <2>2. \A i \in 1 .. Len(Tail(st)) : i + 1 \in 2 .. Len(st)
    BY <1>0, <2>1
  <2> QED
    BY <1>2, <2>1, <2>2, Zenon DEF Shallow, Quiet
<1>3. ASSUME Shallow(st), st # <<>>, Head(st).op # "parse" PROVE Quiet(st)
  <2>1. Head(st) = st[1]
    BY <1>3
  <2>2. \A i \in 1 .. Len(st) : i = 1 \/ i \in 2 .. Len(st)
    BY <1>0
  <2> QED
    BY <1>3, <2>1, <2>2, Zenon DEF Shallow, Quiet
<1>4. st = <<>> => Quiet(st)
  BY DEF Quiet
<1> QED
  BY <1>1, <1>2, <1>3, <1>4, Zenon

LEMMA QuietCall ==
  ASSUME NEW F, NEW st \in Seq(F), NEW f \in F, Quiet(st)
  PROVE  /\ Shallow(<<f>> \o st)
         /\ f.op # "parse" => Quiet(<<f>> \o st)
         /\ f.op = "parse" => \A g : PendingOf(<<f>> \o st, g) = SubSeq(g, f.pos, f.cnt)
<1> DEFINE q == <<f>> \o st
<1>1. /\ q # <<>> /\ Len(q) = Len(st) + 1 /\ Len(st) \in Nat /\ q[1] = f
      /\ \A i \in 1 .. Len(st) : q[i + 1] = st[i]
      /\ Head(q) = f
  BY StackPush
<1> HIDE DEF q
<1>2. Shallow(q)
  <2> SUFFICES ASSUME NEW i \in 2 .. Len(q) PROVE q[i].op # "parse"
    BY DEF Shallow
  <2> DEFINE j == i - 1
  <2>1. j \in 1 .. Len(st) /\ i = j + 1
    BY <1>1
  <2> HIDE DEF j
  <2> QED
    BY <1>1, <2>1, Zenon DEF Quiet
<1>3. ASSUME f.op # "parse" PROVE Quiet(q)
  <2>1. \A i \in 1 .. Len(q) : i = 1 \/ i \in 2 .. Len(q)
    BY <1>1
  <2> QED
    BY <1>1, <1>2, <1>3, <2>1, Zenon DEF Shallow, Quiet
<1>4. f.op = "parse" => \A g : PendingOf(q, g) = SubSeq(g, f.pos, f.cnt)
  BY <1>1, Zenon DEF PendingOf
<1> QED
  BY <1>2, <1>3, <1>4, Zenon DEF q

LEMMA TextTypes ==
  ASSUME IInv
  PROVE  /\ screen \in Seq(Chars) /\ outBuf \in Seq(Chars) /\ gReadspace \in Seq(Chars)
         /\ stack \in Seq(FrameOf(Byte))
BY Zenon DEF IInv, OutputTypes, StackTypes, StackOf

(* The block that is parsed, and its first character.                      *)
LEMMA PendingFirst ==
  ASSUME IInv, TopOp = "parse"
  PROVE  /\ Head(stack).pos \in Nat /\ Head(stack).pos \in 1 .. Head(stack).cnt
         /\ Head(stack).cnt \in Nat
         /\ gReadspace[Head(stack).pos] \in Chars
         /\ SubSeq(gReadspace, Head(stack).pos + 1, Head(stack).cnt) \in Seq(Chars)
         /\ Len(SubSeq(gReadspace, Head(stack).pos + 1, Head(stack).cnt))
              = Head(stack).cnt - Head(stack).pos
         /\ PendingOf(stack, gReadspace)
              = <<gReadspace[Head(stack).pos]>> \o SubSeq(gReadspace, Head(stack).pos + 1, Head(stack).cnt)
<1> DEFINE i == Head(stack).pos
           j == Head(stack).cnt
<1>1. stack # <<>> /\ Head(stack).op = "parse" /\ Head(stack) \in FrameOf(Byte)
      /\ Parsing(Head(stack), Len(gReadspace))
  BY TopFacts, Zenon
<1>2. i \in Nat /\ j \in Nat /\ i \in 1 .. j /\ j <= Len(gReadspace)
  BY <1>1, FrameFacts, Zenon DEF Parsing
<1>3. PendingOf(stack, gReadspace) = SubSeq(gReadspace, i, j)
  BY <1>1, Zenon DEF PendingOf
<1> HIDE DEF i, j
<1>4. gReadspace \in Seq(Chars)
  BY TextTypes
<1>5. i \in 1 .. Len(gReadspace) /\ Len(gReadspace) \in Nat
  BY <1>2, <1>4
<1>6. gReadspace[i] \in Chars
  BY <1>4, <1>5
<1>7. /\ SubSeq(gReadspace, i + 1, j) \in Seq(Chars)
      /\ Len(SubSeq(gReadspace, i + 1, j)) = j - i
      /\ SubSeq(gReadspace, i, j) = <<gReadspace[i]>> \o SubSeq(gReadspace, i + 1, j)
  BY <1>2, <1>4, <1>5, FirstOfSub
<1> QED
  BY <1>2, <1>3, <1>6, <1>7, Zenon DEF i, j

LEMMA PendingType ==
  ASSUME IInv
  PROVE  PendingOf(stack, gReadspace) \in Seq(Chars)
<1>1. CASE stack # <<>> /\ Head(stack).op = "parse"
  <2>1. TopOp = "parse"
    BY <1>1 DEF TopOp
  <2> DEFINE c == gReadspace[Head(stack).pos]
             r == SubSeq(gReadspace, Head(stack).pos + 1, Head(stack).cnt)
  <2>2. c \in Chars /\ r \in Seq(Chars) /\ PendingOf(stack, gReadspace) = <<c>> \o r
    BY <2>1, PendingFirst, Zenon
  <2> HIDE DEF c, r
  <2> QED
    BY <2>2
<1>2. CASE ~(stack # <<>> /\ Head(stack).op = "parse")
  BY <1>2 DEF PendingOf
<1> QED
  BY <1>1, <1>2

(* Steps that touch no text.                                               *)
LEMMA SameText ==
  ASSUME TextInv, UNCHANGED <<stream, taken, lastCR, outBuf, screen, stack, gReadspace>>
  PROVE  TextInv'
BY DEF TextInv, Text

LEMMA QuietText ==
  ASSUME IInv, TextInv, Quiet(stack), Quiet(stack'), stack' \in Seq(FrameOf(Byte)'),
         UNCHANGED <<stream, taken, lastCR, outBuf, screen>>
  PROVE  TextInv'
<1>1. PendingOf(stack, gReadspace) = <<>>
  BY TextTypes, QuietFacts, Zenon
<1>2. PendingOf(stack', gReadspace') = <<>> /\ Shallow(stack')
  BY QuietFacts, Zenon
<1>3. Text' = Text
  <2>1. Text' = (screen' \o PendingOf(stack', gReadspace')) \o outBuf'
    BY DEF Text
  <2> QED
    BY <1>1, <1>2, <2>1 DEF Text
<1>4. Shows(stream, taken, Text, lastCR)
  BY DEF TextInv
<1>5. Shows(stream, taken, Text, lastCR)'
  BY <1>3, <1>4
<1> QED
  BY <1>2, <1>5 DEF TextInv

LEMMA DispatchQuiet ==
  ASSUME IInv, TextInv, AtSched
  PROVE  Quiet(stack)
<1>1. stack = <<>> \/ Head(stack).op # "parse"
  BY DEF AtSched, TopOp
<1>2. Shallow(stack)
  BY DEF TextInv
<1> QED
  BY <1>1, <1>2, TextTypes, QuietFacts, Zenon

LEMMA SendText ==
  ASSUME IInv, IInv', TextInv, NEW calls \in Seq(FrameOf(Byte)), Quiet(calls), RSsendstring(calls)
  PROVE  Quiet(stack')
<1> DEFINE bytes == [b \in 1 .. SendLen |-> <<sends + 1, b>>]
           f == SendCall(IF inBuf = <<>> THEN "write" ELSE "push", bytes)
<1>1. stack' = <<f>> \o calls
  BY Zenon DEF RSsendstring
<1>2. f.op # "parse"
  BY DEF SendCall
<1> HIDE DEF f
<1>3. Quiet(<<f>> \o calls)
  <2> DEFINE G == FrameOf(Byte) \cup {f}
  <2>1. calls \in Seq(G) /\ f \in G
    <3>1. FrameOf(Byte) \subseteq G /\ f \in G
      OBVIOUS
    <3> HIDE DEF G
    <3>2. \A A : A \subseteq G /\ calls \in Seq(A) => calls \in Seq(G)
      OBVIOUS
    <3> QED
      BY <3>1, <3>2, Zenon
  <2> HIDE DEF G
  <2> QED
    BY <1>2, <2>1, QuietCall, Zenon
<1> QED
  BY <1>1, <1>3, Zenon

LEMMA WriteRoundText ==
  ASSUME QueryLast, IInv, TextInv, NEW k \in 1 .. Len(stream) - taken, WriteRound(k)
  PROVE  TextInv'
<1>0. /\ stream \in Streams /\ Len(stream) \in Nat /\ taken \in 0 .. Len(stream)
      /\ outBuf \in Seq(Chars) /\ Len(outBuf) \in Nat /\ OutMax \in Nat /\ k \in Nat
      /\ Len(outBuf) <= OutMax /\ taken \in Nat
  BY CharsFacts, BufferAssumption DEF IInv, OutputTypes
<1>1. lastCR \in BOOLEAN
  BY Zenon DEF IInv, OutputTypes
<1>2. UNCHANGED <<stream, gReadspace, screen, stack>>
  BY DEF WriteRound, mainVars
<1>3. CASE Len(outBuf) < OutMax
  <2> DEFINE len == Min({k, OutMax - Len(outBuf)})
             start == [buf |-> outBuf, cr |-> lastCR, used |-> 0]
             acc == FillLoop(start, len)
             base == screen \o PendingOf(stack, gReadspace)
  <2>1. outBuf' = acc.buf /\ lastCR' = acc.cr /\ taken' = taken + acc.used
    BY <1>3, Zenon DEF WriteRound, Fill
  <2>2. OutMax - Len(outBuf) \in Nat
    BY <1>0, <1>3
  <2>3. len \in 0 .. Len(stream) - taken
    <3>1. len \in Nat /\ len <= k
      BY <1>0, <2>2, MinTwo
    <3> HIDE DEF len
    <3> QED
      BY <1>0, <3>1
  <2> HIDE DEF len
  <2>4. start.buf = outBuf /\ start.used = 0 /\ start.cr = lastCR
    BY Zenon
  <2>5. Filled(0, start)
    <3>1. start \in [buf : Seq(Chars), cr : BOOLEAN, used : Nat]
      <4>1. 0 \in Nat
        OBVIOUS
      <4> QED
        BY <1>0, <1>1, <4>1, Zenon
    <3>2. 0 <= 0
      OBVIOUS
    <3> HIDE DEF start
    <3> QED
      BY <1>0, <2>4, <3>1, <3>2, Zenon DEF Filled
  <2>6. base \in Seq(Chars)
    <3>1. PendingOf(stack, gReadspace) \in Seq(Chars)
      BY PendingType
    <3> HIDE DEF base
    <3>2. \A s, t \in Seq(Chars) : s \o t \in Seq(Chars)
      OBVIOUS
    <3> QED
      BY <3>1, <3>2, TextTypes, Zenon DEF base
  <2>7. FilledText(base, start)
    <3>1. Shows(stream, taken, base \o outBuf, lastCR)
      BY Zenon DEF TextInv, Text
    <3>2. taken + 0 = taken
      BY <1>0
    <3> HIDE DEF base, start
    <3> QED
      BY <2>4, <3>1, <3>2, Zenon DEF FilledText
  <2> HIDE DEF start, base
  <2>8. FilledText(base, acc)
    BY <1>0, <2>3, <2>5, <2>6, <2>7, FillSound, Zenon
  <2> HIDE DEF acc
  <2>9. Shows(stream, taken', base \o outBuf', lastCR')
    BY <2>1, <2>8, Zenon DEF FilledText
  <2>a. Text' = base \o outBuf'
    BY <1>2 DEF Text, base
  <2> QED
    BY <1>2, <2>9, <2>a DEF TextInv
<1>4. CASE ~(Len(outBuf) < OutMax)
  <2>1. UNCHANGED <<taken, outBuf, lastCR>>
    BY <1>4 DEF WriteRound
  <2> QED
    BY <1>2, <2>1, SameText
<1> QED
  BY <1>3, <1>4

LEMMA NetreadText ==
  ASSUME IInv, IInv', TextInv, ConnectionDataEvent
  PROVE  TextInv'
<1> DEFINE k == Min({Len(outBuf), BlockSize})
<1>1. /\ gReadspace' = Overlay(Block, gReadspace) /\ outBuf' = Later
      /\ stack' = IF k = 0 THEN stack ELSE <<ParseCall(k)>> \o stack
      /\ UNCHANGED <<stream, taken, lastCR, screen>> /\ AtSched
  BY Zenon DEF ConnectionDataEvent, Netread, Block, Later, CanDispatch
<1>2. Quiet(stack)
  BY <1>1, DispatchQuiet
<1>3. PendingOf(stack, gReadspace) = <<>> /\ PendingOf(stack, gReadspace') = <<>> /\ Shallow(stack)
  BY <1>2, TextTypes, QuietFacts, Zenon
<1>4. /\ Block \in Seq(Chars) /\ Later \in Seq(Chars) /\ outBuf = Block \o Later
      /\ Len(Block) = k /\ k \in Nat /\ Len(Block) <= BlockSize /\ (k = 0 => outBuf = <<>>)
  BY TextTypes, BlockFacts
<1> HIDE DEF k
<1>5. PendingOf(stack', gReadspace') = Block /\ Shallow(stack')
  <2>1. CASE k = 0
    <3>1. Block = <<>>
      BY <1>4, <2>1
    <3> QED
      BY <1>1, <1>3, <2>1, <3>1, Zenon
  <2>2. CASE k # 0
    <3> DEFINE f == ParseCall(k)
    <3>1. f \in FrameOf(Byte)
      BY <1>4 DEF ParseCall, FrameOf
    <3>2. f.op = "parse" /\ f.pos = 1 /\ f.cnt = k
      BY DEF ParseCall
    <3> HIDE DEF f
    <3>3. Shallow(<<f>> \o stack)
          /\ PendingOf(<<f>> \o stack, gReadspace') = SubSeq(gReadspace', f.pos, f.cnt)
      BY <1>2, <3>1, <3>2, TextTypes, QuietCall, Zenon
    <3>4. SubSeq(gReadspace', 1, k) = Block
      <4> DEFINE w == gReadspace'
      <4>1. /\ w \in Seq(Chars) /\ Len(w) \in Nat /\ Len(w) >= Len(Block)
            /\ \A i \in 1 .. Len(Block) : w[i] = Block[i]
        <5>1. gReadspace \in Seq(Chars) /\ Len(gReadspace) <= BlockSize
          BY Zenon DEF IInv, OutputTypes
        <5> QED
          BY <1>1, <1>4, <5>1, OverlayFacts
      <4> HIDE DEF w
      <4>2. SubSeq(w, 1, k) = Block
        BY <1>4, <4>1, SubStart
      <4> QED
        BY <4>2, Zenon DEF w
    <3>5. stack' = <<f>> \o stack
      BY <1>1, <2>2, Zenon DEF f
    <3> QED
      BY <3>2, <3>3, <3>4, <3>5, Zenon
  <2> QED
    BY <2>1, <2>2
<1>6. Text' = Text
  <2>1. Text' = (screen' \o PendingOf(stack', gReadspace')) \o outBuf'
    BY DEF Text
  <2>2. Text' = (screen \o Block) \o Later
    BY <1>1, <1>5, <2>1, Zenon
  <2>3. screen \in Seq(Chars)
    BY TextTypes
  <2>4. (screen \o Block) \o Later = screen \o outBuf
    BY <1>4, <2>3, CharsChain, Zenon
  <2>5. screen \o <<>> = screen
    BY <2>3
  <2> QED
    BY <1>3, <2>2, <2>4, <2>5, Zenon DEF Text
<1>7. Shows(stream, taken, Text, lastCR)
  BY DEF TextInv
<1>8. Shows(stream, taken, Text, lastCR)'
  BY <1>1, <1>6, <1>7
<1> QED
  BY <1>5, <1>8 DEF TextInv

LEMMA ParseText ==
  ASSUME IInv, IInv', TextInv, ParseChar
  PROVE  TextInv'
<1> DEFINE call == Head(stack)
           c == gReadspace[call.pos]
           next == [call EXCEPT !.pos = @ + 1]
           rest == IF call.pos = call.cnt THEN Tail(stack) ELSE <<next>> \o Tail(stack)
           r == SubSeq(gReadspace, call.pos + 1, call.cnt)
<1>1. /\ TopOp = "parse" /\ screen' = Append(screen, c)
      /\ IF c = Query THEN RSsendstring(rest) ELSE stack' = rest /\ UNCHANGED sends
      /\ UNCHANGED <<stream, taken, outBuf, lastCR, gReadspace>>
  BY Zenon DEF ParseChar, threadVars
<1>2. /\ call.pos \in Nat /\ call.pos \in 1 .. call.cnt /\ call.cnt \in Nat
      /\ c \in Chars /\ r \in Seq(Chars) /\ Len(r) = call.cnt - call.pos
      /\ PendingOf(stack, gReadspace) = <<c>> \o r
  BY <1>1, PendingFirst, Zenon
<1>3. /\ stack # <<>> /\ call \in FrameOf(Byte) /\ call.op = "parse"
      /\ Tail(stack) \in Seq(FrameOf(Byte))
  BY <1>1, TopFacts, Zenon DEF StackOf
<1>4. Quiet(Tail(stack))
  BY <1>3, TextTypes, QuietFacts, Zenon DEF TextInv
<1>5. screen \in Seq(Chars) /\ outBuf \in Seq(Chars)
  BY TextTypes
<1>6. Shows(stream, taken, Text, lastCR)
  BY DEF TextInv
<1>7. call.pos = call.cnt => r = <<>>
  <2> HIDE DEF r, call
  <2> QED
    BY <1>2
<1>8. Text = (screen' \o r) \o outBuf /\ Len(Text) = Len(screen) + 1 + Len(r) + Len(outBuf)
      /\ Text[Len(screen) + 1] = c
  <2> HIDE DEF r, c, call, rest
  <2>1. Text = (screen \o (<<c>> \o r)) \o outBuf
    BY <1>2, Zenon DEF Text
  <2>2. screen' = screen \o <<c>>
    BY <1>1, <1>2, <1>5
  <2>3. <<c>> \in Seq(Chars) /\ Len(<<c>>) = 1 /\ <<c>>[1] = c
    BY <1>2
  <2>4. screen \o (<<c>> \o r) = (screen \o <<c>>) \o r
    BY <1>2, <1>5, <2>3, CharsChain, Zenon
  <2> DEFINE a == screen \o <<c>>
             b == a \o r
             d == b \o outBuf
  <2>5. Joins2(Chars, screen, <<c>>, a)
    BY <1>5, <2>3, Joined, Zenon
  <2>6. a \in Seq(Chars) /\ Len(a) = Len(screen) + 1 /\ Len(screen) \in Nat
        /\ a[Len(screen) + 1] = c
    <3>1. a \in Seq(Chars) /\ Len(a) = Len(screen) + 1 /\ Len(screen) \in Nat
          /\ \A i \in 1 .. 1 : a[Len(screen) + i] = <<c>>[i]
      BY <2>3, <2>5, Zenon DEF Joins2
    <3>2. 1 \in 1 .. 1
      OBVIOUS
    <3> QED
      BY <2>3, <3>1, <3>2, Zenon
  <2> HIDE DEF a
  <2>7. Joins2(Chars, a, r, b)
    BY <1>2, <2>6, Joined, Zenon
  <2>8. b \in Seq(Chars) /\ Len(b) = Len(a) + Len(r) /\ b[Len(screen) + 1] = c /\ Len(r) \in Nat
    <3>1. /\ b \in Seq(Chars) /\ Len(b) = Len(a) + Len(r) /\ Len(r) \in Nat
          /\ \A i \in 1 .. Len(a) : b[i] = a[i]
      BY <2>7, Zenon DEF Joins2
    <3>2. Len(screen) + 1 \in 1 .. Len(a)
      BY <2>6
    <3> QED
      BY <2>6, <3>1, <3>2, Zenon
  <2> HIDE DEF b
  <2>9. Joins2(Chars, b, outBuf, d)
    BY <1>5, <2>8, Joined, Zenon
  <2>a. Len(d) = Len(b) + Len(outBuf) /\ d[Len(screen) + 1] = c
    <3>1. /\ Len(d) = Len(b) + Len(outBuf) /\ \A i \in 1 .. Len(b) : d[i] = b[i]
      BY <2>9, Zenon DEF Joins2
    <3>2. Len(screen) + 1 \in 1 .. Len(b)
      BY <2>6, <2>8
    <3> QED
      BY <2>8, <3>1, <3>2, Zenon
  <2> HIDE DEF d
  <2>b. Text = d /\ d = (screen' \o r) \o outBuf
    BY <2>1, <2>2, <2>4, Zenon DEF d, b, a
  <2>c. Len(d) = Len(screen) + 1 + Len(r) + Len(outBuf)
    BY <2>6, <2>8, <2>a, Zenon
  <2> QED
    BY <2>a, <2>b, <2>c, Zenon
<1>9. c = Query => call.pos = call.cnt
  <2> SUFFICES ASSUME c = Query PROVE call.pos = call.cnt
    OBVIOUS
  <2> DEFINE x == Len(screen)
             y == Len(r)
             z == Len(outBuf)
  <2>1. x \in Nat /\ y \in Nat /\ z \in Nat /\ Len(Text) = x + 1 + y + z /\ Text[x + 1] = Query
    <3> HIDE DEF c, r
    <3> QED
      BY <1>2, <1>5, <1>8
  <2>2. y = call.cnt - call.pos
    BY <1>2, Zenon
  <2> HIDE DEF x, y, z, c
  <2>3. x + 1 \in 1 .. Len(Text)
    BY <2>1
  <2>4. x + 1 = Len(Text)
    BY <1>6, <2>1, <2>3, Zenon DEF Shows
  <2>5. y = 0
    BY <2>1, <2>4
  <2> HIDE DEF call
  <2> QED
    BY <1>2, <2>2, <2>5
<1>a. PendingOf(stack', gReadspace') = r /\ Shallow(stack')
  <2>1. stack' \in Seq(FrameOf(Byte)')
    BY Zenon DEF IInv, StackTypes, StackOf
  <2>2. CASE call.pos = call.cnt
    <3>1. Quiet(stack')
      <4>1. CASE c = Query
        <5> HIDE DEF c
        <5>1. RSsendstring(Tail(stack))
          BY <1>1, <2>2, <4>1, Zenon
        <5> QED
          BY <1>3, <1>4, <5>1, SendText, Zenon
      <4>2. CASE c # Query
        BY <1>1, <1>4, <2>2, <4>2, Zenon
      <4> QED
        BY <4>1, <4>2
    <3> QED
      BY <1>7, <2>1, <2>2, <3>1, QuietFacts, Zenon
  <2>3. CASE call.pos # call.cnt
    <3>1. stack' = <<next>> \o Tail(stack)
      BY <1>1, <1>9, <2>3, Zenon
    <3>2. /\ next \in FrameOf(Byte) /\ next.op = "parse"
          /\ next.pos = call.pos + 1 /\ next.cnt = call.cnt
      <4> HIDE DEF call
      <4> QED
        BY <1>3, FrameNext, Zenon
    <3> HIDE DEF next
    <3>3. Shallow(<<next>> \o Tail(stack))
          /\ PendingOf(<<next>> \o Tail(stack), gReadspace) = SubSeq(gReadspace, next.pos, next.cnt)
      BY <1>3, <1>4, <3>2, QuietCall, Zenon
    <3> QED
      BY <1>1, <3>1, <3>2, <3>3, Zenon
  <2> QED
    BY <2>2, <2>3
<1>b. Text' = Text
  <2>1. Text' = (screen' \o PendingOf(stack', gReadspace')) \o outBuf'
    BY DEF Text
  <2> QED
    BY <1>1, <1>8, <1>a, <2>1, Zenon
<1>c. Shows(stream, taken, Text, lastCR)'
  BY <1>1, <1>6, <1>b
<1> QED
  BY <1>a, <1>c DEF TextInv

(* Calls that send.                                                        *)
LEMMA SendingText ==
  ASSUME IInv, IInv', TextInv, Keystroke \/ PushDone \/ FullDone \/ Netwrite
  PROVE  TextInv'
<1>0. stack' \in Seq(FrameOf(Byte)') /\ stack \in Seq(FrameOf(Byte)) /\ Shallow(stack)
  BY Zenon DEF IInv, StackTypes, StackOf, TextInv
<1>1. UNCHANGED <<stream, taken, lastCR, outBuf, screen>>
  BY Zenon DEF Keystroke, PushDone, FullDone, Netwrite, threadVars
<1>2. CASE Keystroke
  <2>1. Quiet(stack) /\ RSsendstring(stack)
    BY <1>2, DispatchQuiet DEF Keystroke, CanDispatch
  <2>2. Quiet(stack')
    BY <1>0, <2>1, SendText, Zenon
  <2> QED
    BY <1>0, <1>1, <2>1, <2>2, QuietText, Zenon
<1>3. CASE PushDone \/ FullDone \/ Netwrite
  <2>1. TopOp \in {"push", "full", "write"}
    BY <1>3, Zenon DEF PushDone, FullDone, Netwrite
  <2>2. stack # <<>> /\ Head(stack).op # "parse" /\ Head(stack) \in FrameOf(Byte)
        /\ Tail(stack) \in Seq(FrameOf(Byte))
    <3>1. TopOp # "loop" /\ TopOp # "parse"
      BY <2>1
    <3> QED
      BY <3>1, TopFacts, Zenon DEF StackOf
  <2>3. Quiet(stack) /\ Quiet(Tail(stack))
    BY <1>0, <2>2, QuietFacts, Zenon
  <2>4. \E f : f.op # "parse" /\ (stack' = Tail(stack) \/ stack' = <<f>> \o Tail(stack))
    <3>1. CASE PushDone \/ FullDone
      <4> DEFINE f == [Head(stack) EXCEPT !.op = "write"]
      <4>1. stack' = <<f>> \o Tail(stack)
        BY <3>1, Zenon DEF PushDone, FullDone
      <4>2. f.op = "write"
        BY <2>2 DEF FrameOf
      <4> HIDE DEF f
      <4>3. f.op # "parse"
        BY <4>2
      <4> QED
        BY <4>1, <4>3, Zenon
    <3>2. CASE Netwrite
      <4> DEFINE r == Head(stack).rest
                 len == Min({Len(r), InMax - Len(inBuf)})
                 f == [Head(stack) EXCEPT !.op = IF len = 0 THEN "full" ELSE "write",
                                          !.rest = SubSeq(@, len + 1, Len(@))]
      <4>1. stack' = Tail(stack) \/ stack' = <<f>> \o Tail(stack)
        BY <3>2, Zenon DEF Netwrite
      <4> HIDE DEF len
      <4>2. f.op # "parse"
        BY <2>2 DEF FrameOf
      <4> HIDE DEF f
      <4> QED
        BY <4>1, <4>2, Zenon
    <3> QED
      BY <1>3, <3>1, <3>2
  <2>5. PICK f : f.op # "parse" /\ (stack' = Tail(stack) \/ stack' = <<f>> \o Tail(stack))
    BY <2>4
  <2>6. Quiet(<<f>> \o Tail(stack))
    <3> DEFINE G == FrameOf(Byte) \cup {f}
    <3>1. Tail(stack) \in Seq(G) /\ f \in G
      <4>1. FrameOf(Byte) \subseteq G /\ f \in G
        OBVIOUS
      <4> HIDE DEF G
      <4> DEFINE t == Tail(stack)
      <4>2. t \in Seq(FrameOf(Byte))
        BY <2>2, Zenon
      <4> HIDE DEF t
      <4>3. \A A : A \subseteq G /\ t \in Seq(A) => t \in Seq(G)
        OBVIOUS
      <4> QED
        BY <4>1, <4>2, <4>3, Zenon DEF t
    <3> HIDE DEF G
    <3> QED
      BY <2>3, <2>5, <3>1, QuietCall, Zenon
  <2>7. Quiet(stack')
    BY <2>3, <2>5, <2>6, Zenon
  <2> QED
    BY <1>0, <1>1, <2>3, <2>7, QuietText, Zenon
<1> QED
  BY <1>2, <1>3

LEMMA InitText == Init => TextInv
<1> SUFFICES ASSUME Init PROVE TextInv
  OBVIOUS
<1>1. /\ stream \in Streams /\ taken = 0 /\ outBuf = <<>> /\ screen = <<>> /\ stack = <<>>
      /\ lastCR = FALSE
  BY Zenon DEF Init
<1>2. PendingOf(stack, gReadspace) = <<>>
  BY <1>1 DEF PendingOf
<1>3. Text = <<>>
  BY <1>1, <1>2 DEF Text
<1>4. Rendering(SubSeq(stream, 1, 0)) = <<>>
  <2>1. stream \in Seq(Chars) /\ 0 \in 0 .. Len(stream)
    BY <1>1, CharsFacts
  <2>2. Rendering(SubSeq(stream, 1, 0)) = FlattenSeq(Pieces(stream, 0))
    BY <2>1, PiecesFacts
  <2>3. Pieces(stream, 0) = <<>>
    BY DEF Pieces
  <2> QED
    BY <2>2, <2>3 DEF FlattenSeq
<1>5. Tidy(<<>>, FALSE)
  BY DEF Tidy
<1>6. ~(0 > 0) /\ \A i \in 1 .. Len(<<>>) : FALSE
  OBVIOUS
<1>7. Shows(stream, 0, <<>>, FALSE)
  BY <1>4, <1>5, <1>6, Zenon DEF Shows
<1>8. Shallow(stack)
  BY <1>1 DEF Shallow
<1> QED
  BY <1>1, <1>3, <1>7, <1>8, Zenon DEF TextInv

LEMMA NextText ==
  ASSUME QueryLast, IInv, IInv', TextInv, [Next]_vars
  PROVE  TextInv'
<1>0. n \in 0 .. (Len(stream) - taken) /\ taken \in 0 .. Len(stream) /\ Len(stream) \in Nat
  BY CharsFacts DEF IInv, OutputTypes
<1>1. CASE WriteCharsToTTY
  BY <1>1, WriteRoundText DEF WriteCharsToTTY
<1>2. CASE WriteAgain
  <2>1. n \in 1 .. Len(stream) - taken /\ WriteRound(n)
    BY <1>0, <1>2 DEF WriteAgain
  <2> QED
    BY <2>1, WriteRoundText
<1>3. CASE ReadCharsFromTTY \/ Lock \/ Unlock \/ UNCHANGED vars
  <2>1. UNCHANGED <<stream, taken, lastCR, outBuf, screen, stack, gReadspace>>
    BY <1>3 DEF ReadCharsFromTTY, Lock, Unlock, vars, threadVars, mainVars
  <2> QED
    BY <2>1, SameText
<1>4. CASE ParseChar
  BY <1>4, ParseText
<1>5. CASE ConnectionDataEvent
  BY <1>5, NetreadText
<1>6. CASE Keystroke \/ PushDone \/ FullDone \/ Netwrite
  BY <1>6, SendingText
<1> QED
  BY <1>1, <1>2, <1>3, <1>4, <1>5, <1>6 DEF Next, ThreadStep, MainStep

(* What has been interpreted is the beginning of the text.                 *)
LEMMA ScreenFirst ==
  ASSUME IInv, TextInv
  PROVE  /\ Text \in Seq(Chars) /\ screen \in Seq(Chars) /\ Len(screen) <= Len(Text)
         /\ Len(screen) \in Nat /\ Len(Text) \in Nat
         /\ \A i \in 1 .. Len(screen) : Text[i] = screen[i]
<1> DEFINE p == PendingOf(stack, gReadspace)
           a == screen \o p
           d == a \o outBuf
<1>1. screen \in Seq(Chars) /\ outBuf \in Seq(Chars) /\ p \in Seq(Chars)
  BY TextTypes, PendingType, Zenon
<1> HIDE DEF p
<1>2. Joins2(Chars, screen, p, a)
  BY <1>1, Joined, Zenon
<1>3. /\ a \in Seq(Chars) /\ Len(a) = Len(screen) + Len(p) /\ Len(screen) \in Nat /\ Len(p) \in Nat
      /\ \A i \in 1 .. Len(screen) : a[i] = screen[i]
  BY <1>2, Zenon DEF Joins2
<1> HIDE DEF a
<1>4. Joins2(Chars, a, outBuf, d)
  BY <1>1, <1>3, Joined, Zenon
<1>5. /\ d \in Seq(Chars) /\ Len(d) = Len(a) + Len(outBuf) /\ Len(a) \in Nat /\ Len(outBuf) \in Nat
      /\ \A i \in 1 .. Len(a) : d[i] = a[i]
  BY <1>4, Zenon DEF Joins2
<1> HIDE DEF d
<1>6. Text = d
  BY Zenon DEF Text, d, a, p
<1>7. \A i \in 1 .. Len(screen) : i \in 1 .. Len(a)
  BY <1>3
<1>8. \A i \in 1 .. Len(screen) : d[i] = screen[i]
  BY <1>3, <1>5, <1>7, Zenon
<1>9. Len(screen) <= Len(d) /\ Len(d) \in Nat
  BY <1>3, <1>5
<1> QED
  BY <1>1, <1>3, <1>5, <1>6, <1>8, <1>9, Zenon

LEMMA ShownPart == IInv /\ TextInv => DisplayedInOrder
<1> SUFFICES ASSUME IInv, TextInv PROVE DisplayedInOrder
  OBVIOUS
<1>1. /\ Text \in Seq(Chars) /\ screen \in Seq(Chars) /\ Len(screen) <= Len(Text)
      /\ Len(screen) \in Nat /\ Len(Text) \in Nat
      /\ \A i \in 1 .. Len(screen) : Text[i] = screen[i]
  BY ScreenFirst
<1>2. stream \in Seq(Chars) /\ taken \in 0 .. Len(stream)
  BY CharsFacts DEF IInv, OutputTypes
<1>3. Text = Rendering(SubSeq(stream, 1, taken))
  BY Zenon DEF TextInv, Shows
<1>4. PICK rest \in Seq(Chars) : Rendering(stream) = Rendering(SubSeq(stream, 1, taken)) \o rest
  BY <1>2, RenderingPrefix
<1> DEFINE w == Rendering(stream)
<1>5. w = Text \o rest
  BY <1>3, <1>4, Zenon
<1> HIDE DEF w
<1>6. Joins2(Chars, Text, rest, w)
  BY <1>1, <1>5, Joined, Zenon
<1>7. /\ w \in Seq(Chars) /\ Len(w) = Len(Text) + Len(rest) /\ Len(rest) \in Nat
      /\ \A i \in 1 .. Len(Text) : w[i] = Text[i]
  BY <1>6, Zenon DEF Joins2
<1> DEFINE k == Len(screen)
<1>8. Len(w) \in Nat /\ Len(w) >= k /\ \A i \in 1 .. k : i \in 1 .. Len(Text)
  BY <1>1, <1>7
<1>9. \A i \in 1 .. k : w[i] = screen[i]
  BY <1>1, <1>7, <1>8, Zenon
<1>a. SubSeq(w, 1, k) = screen
  <2> HIDE DEF k
  <2>1. k = Len(screen)
    BY DEF k
  <2> QED
    BY <1>1, <1>7, <1>8, <1>9, <2>1, SubStart
<1>b. SubSeq(screen, 1, k) = screen
  BY <1>1
<1>c. Len(screen) <= Len(w)
  BY <1>8
<1> QED
  BY <1>a, <1>b, <1>c, Zenon DEF DisplayedInOrder, IsPrefix, w

LEMMA TidyPart == IInv /\ TextInv => NoBareLineEnds
<1> SUFFICES ASSUME IInv, TextInv PROVE NoBareLineEnds
  OBVIOUS
<1>1. /\ Len(screen) <= Len(Text) /\ Len(screen) \in Nat /\ Len(Text) \in Nat
      /\ \A i \in 1 .. Len(screen) : Text[i] = screen[i]
  BY ScreenFirst
<1>2. \A i \in 1 .. Len(Text) :
        /\ Text[i] = LF => i > 1 /\ Text[i - 1] = CR
        /\ Text[i] = CR /\ i < Len(Text) => Text[i + 1] \in {LF, ESC}
  BY Zenon DEF TextInv, Shows, Tidy
<1> SUFFICES ASSUME NEW i \in 1 .. Len(screen)
             PROVE  /\ screen[i] = LF => i > 1 /\ screen[i - 1] = CR
                    /\ screen[i] = CR /\ i < Len(screen) => screen[i + 1] \in {LF, ESC}
  BY DEF NoBareLineEnds
<1>3. i \in 1 .. Len(Text) /\ Text[i] = screen[i]
  BY <1>1
<1>4. i > 1 => i - 1 \in 1 .. Len(screen)
  BY <1>1
<1>5. i < Len(screen) => i + 1 \in 1 .. Len(screen) /\ i < Len(Text)
  BY <1>1
<1> QED
  BY <1>1, <1>2, <1>3, <1>4, <1>5, Zenon

-----------------------------------------------------------------------------
(* The output, of texts that ask nothing of the terminal but at their end. *)

(* The text that has been interpreted, is being parsed and is in the       *)
(* output buffer is what becomes of the characters taken so far.           *)
THEOREM TextInvariant ==
  ASSUME QueryLast
  PROVE  Spec => [](IInv /\ TextInv)
<1>1. Init => IInv /\ TextInv
  BY InitTypes, InitText
<1>2. IInv /\ TextInv /\ [Next]_vars => (IInv /\ TextInv)'
  <2> SUFFICES ASSUME IInv, TextInv, [Next]_vars PROVE (IInv /\ TextInv)'
    OBVIOUS
  <2>1. IInv'
    BY NextTypes
  <2>2. TextInv'
    BY <2>1, NextText
  <2> QED
    BY <2>1, <2>2
<1> QED
  BY <1>1, <1>2, PTL DEF Spec

(* However WriteCharsToTTY's calls, its rounds, the blocks of netread and  *)
(* the locking of the window cut up what the remote side printed, the      *)
(* terminal interprets it in order, and nothing twice.                     *)
THEOREM OutputShown ==
  ASSUME QueryLast
  PROVE  Spec => []DisplayedInOrder
<1>1. Spec => [](IInv /\ TextInv)
  BY TextInvariant
<1>2. IInv /\ TextInv => DisplayedInOrder
  BY ShownPart
<1> QED
  BY <1>1, <1>2, PTL

(* WriteCharsToTTY's repair of line ends survives every cut: no CR without *)
(* LF or ESC behind it and no LF without CR in front reach the terminal.   *)
THEOREM LineEndsKept ==
  ASSUME QueryLast
  PROVE  Spec => []NoBareLineEnds
<1>1. Spec => [](IInv /\ TextInv)
  BY TextInvariant
<1>2. IInv /\ TextInv => NoBareLineEnds
  BY TidyPart
<1> QED
  BY <1>1, <1>2, PTL
=============================================================================
