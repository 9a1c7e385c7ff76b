----------------------------- MODULE LoginProofs -----------------------------
(***************************************************************************)
(* Proofs about KeyExchange and Login, for any number of key exchanges,    *)
(* public keys and failures allowed, and any packets after the login.      *)
(*                                                                         *)
(* That a packet is read with the keys it was written with is shown from   *)
(* how far the two ends are with the exchange.  Each end is in one of four  *)
(* phases; only twelve of the sixteen pairs can occur, and a pair determines *)
(* which messages of the exchange are on their way (Expected).  The keys of *)
(* the packets to an end change behind NEWKEYS and nowhere else (Stream),   *)
(* and an end that has to read NEWKEYS holds the keys that its peer writes  *)
(* with (Promised).                                                        *)
(***************************************************************************)
EXTENDS Login, SequenceTheorems, TLAPS

KexTypes == {"KEXINIT", "KEXDH_INIT", "KEXDH_REPLY", "NEWKEYS"}

-----------------------------------------------------------------------------
(* How far an end is with an exchange: nothing done, its KEXINIT written,   *)
(* both KEXINITs there, its NEWKEYS written.                               *)
Phase(c) ==
  IF c.kex_state = "NEWKEYS" THEN "keyed"
  ELSE IF c.dh THEN "dh"
  ELSE IF c.kexinits[c.mode] # 0 THEN "asked"
  ELSE "idle"

Phases == {"idle", "asked", "dh", "keyed"}

(* The phases of an end e, its own and its peer's, that go together.        *)
Legal(e, mine, other) ==
  LET s == IF e = "server" THEN mine ELSE other
      c == IF e = "server" THEN other ELSE mine
  IN /\ c = "dh" => s # "idle"
     /\ s = "dh" => c \in {"asked", "dh"}
     /\ s = "keyed" => c # "asked"

(* The messages of the exchange that are on their way to e.                *)
Expected(e, mine, other) ==
  IF e = "server"
    THEN (IF mine \in {"idle", "asked"} /\ other \in {"asked", "dh"} THEN {"KEXINIT"} ELSE {})
         \cup (IF mine \in {"asked", "dh"} /\ other = "dh" THEN {"KEXDH_INIT"} ELSE {})
         \cup (IF mine = "keyed" /\ other \in {"keyed", "idle"} THEN {"NEWKEYS"} ELSE {})
    ELSE (IF other \in {"asked", "dh"} /\ mine # "dh" THEN {"KEXINIT"} ELSE {})
         \cup (IF other = "keyed" /\ mine = "dh" THEN {"KEXDH_REPLY"} ELSE {})
         \cup (IF mine = "keyed" \/ (other = "keyed" /\ mine = "dh") THEN {"NEWKEYS"} ELSE {})

(* The server is one KEXINIT ahead when it has written one that the client *)
(* has not answered; before the handshake the client may be ahead.         *)
Counted(e, mine, other, msent, osent) ==
  LET s == IF e = "server" THEN mine ELSE other
      c == IF e = "server" THEN other ELSE mine
      m == IF e = "server" THEN msent ELSE osent
      n == IF e = "server" THEN osent ELSE msent
  IN /\ s # "idle" => m > 0
     /\ c # "idle" => n > 0
     /\ s = "asked" /\ c \in {"idle", "keyed"} => m = n + 1
     /\ s = "idle" /\ c = "asked" => m = 0 /\ n = 1
     /\ s = "idle" /\ c # "asked" => m = n
     /\ s = "asked" /\ c \in {"asked", "dh"} => m = n
     /\ s \in {"dh", "keyed"} => m = n

(* The packets q on their way to an end that reads with the keys rec, from *)
(* one that writes with the keys send, and the messages of the exchange    *)
(* among them.                                                             *)
Stream(q, rec, send, kinds) ==
  /\ \A i \in 1 .. Len(q) : q[i].type \in KexTypes => q[i].type \in kinds
  /\ \A i, j \in 1 .. Len(q) : q[i].type \in KexTypes /\ q[i].type = q[j].type => i = j
  /\ \A i \in 1 .. Len(q) :
       q[i].key = IF \E j \in 1 .. i - 1 : q[j].type = "NEWKEYS" THEN send ELSE rec
  /\ IF "NEWKEYS" \in kinds THEN \E i \in 1 .. Len(q) : q[i].type = "NEWKEYS" ELSE send = rec

(* The signed hash is that of the keys the server has changed to.          *)
Replies(q, send) == \A i \in 1 .. Len(q) : q[i].type = "KEXDH_REPLY" => q[i].kex = send

(* A guess comes right behind the KEXINIT that announces it.               *)
Guessed(q) ==
  \A i \in 1 .. Len(q) :
    q[i].type = "KEXINIT" /\ q[i].follows => i < Len(q) /\ q[i + 1].type = "GUESS"

(* A connection object by itself.                                          *)
Local(c, q) ==
  /\ c.dh => c.kexinits[c.mode] # 0
  /\ c.kex_state = "NEWKEYS" => ~c.dh /\ c.newkeys = c.send_keys
  /\ c.kex_state = "IGNORE" => q # <<>> /\ q[1].type = "GUESS"

(* Who waits for NEWKEYS holds the keys that its peer has changed to; the   *)
(* server waits before the client has changed.                             *)
Promised(e, c, d) ==
  c.kex_state = "NEWKEYS" /\ ~(e = "server" /\ Phase(d) = "dh") => c.newkeys = d.send_keys

(* An end e that reads: c is its connection, d its peer's, and q is on its  *)
(* way to it.                                                              *)
Reader(e, c, d, q) ==
  c.open =>
    /\ Local(c, q)
    /\ Promised(e, c, d)
    /\ Stream(q, c.rec_keys, d.send_keys, Expected(e, Phase(c), Phase(d)))
    /\ Replies(q, d.send_keys)
    /\ Guessed(q)

(* Both ends, from the side of e.                                          *)
Both(e, c, d, q, r) ==
  /\ c.mode = e
  /\ d.mode = Peer(e)
  /\ Legal(e, Phase(c), Phase(d))
  /\ Counted(e, Phase(c), Phase(d), c.sent, d.sent)
  /\ Reader(e, c, d, q)
  /\ Reader(Peer(e), d, c, r)

KexInv ==
  \A e \in Ends : Both(e, conn[e], conn[Peer(e)], inbox[e], inbox[Peer(e)])

-----------------------------------------------------------------------------
(* The client's counters: answers are due as long as the public keys are   *)
(* tried, and a method is tried once.                                      *)
Tried(a) ==
  /\ a.current < a.next
  /\ a.pending <= a.done
  /\ a.pk_ok => a.phase = "trying" /\ Methods[a.current] = "publickey" /\ a.done < NKeys
  /\ Methods[a.current] = "none" => a.done = 0 /\ a.pending = 0
  /\ a.phase = "trying" /\ Methods[a.current] = "publickey" => a.done < NKeys \/ a.pending > 0
  /\ a.tried_empty > 0 => Methods[a.current] = "password"

AuthInv ==
  /\ Tried(client)
  /\ conn["client"].service => conn["client"].established
  /\ conn["client"].service \/ ~conn["client"].established =>
       client.phase = "idle" /\ client.current = 1

IInv == TypeOK /\ KexInv /\ AuthInv

-----------------------------------------------------------------------------
(* What reading and writing do to a stream.                                *)

LEMMA TailFacts ==
  ASSUME NEW q \in Seq(Packet), q # <<>>
  PROVE  /\ Tail(q) \in Seq(Packet)
         /\ Len(q) \in Nat \ {0}
         /\ Len(Tail(q)) = Len(q) - 1
         /\ \A i \in 1 .. Len(Tail(q)) : Tail(q)[i] = q[i + 1]
         /\ Head(q) = q[1]
         /\ Head(q) \in Packet
  OBVIOUS

LEMMA ConcFacts ==
  ASSUME NEW q \in Seq(Packet), NEW out \in Seq(Packet)
  PROVE  /\ q \o out \in Seq(Packet)
         /\ Len(q) \in Nat
         /\ Len(out) \in Nat
         /\ Len(q \o out) = Len(q) + Len(out)
         /\ \A i \in 1 .. Len(q) : (q \o out)[i] = q[i]
         /\ \A i \in Len(q) + 1 .. Len(q) + Len(out) : (q \o out)[i] = out[i - Len(q)]
  OBVIOUS

(* A packet is read that does not change the keys.                         *)
LEMMA StreamPop ==
  ASSUME NEW q \in Seq(Packet), NEW rec, NEW send, NEW kinds,
         q # <<>>, Head(q).type # "NEWKEYS", Stream(q, rec, send, kinds)
  PROVE  Stream(Tail(q), rec, send, kinds \ {Head(q).type})
<1> DEFINE r == Tail(q)
<1>0. /\ Len(q) \in Nat \ {0}
      /\ Len(r) = Len(q) - 1
      /\ \A i \in 1 .. Len(r) : r[i] = q[i + 1] /\ i + 1 \in 1 .. Len(q)
      /\ Head(q) = q[1]
      /\ 1 \in 1 .. Len(q)
  BY TailFacts
<1> HIDE DEF r
<1>1. \A i, j \in 1 .. Len(r) : r[i].type \in KexTypes /\ r[i].type = r[j].type => i = j
  BY <1>0 DEF Stream
<1>2. \A i \in 1 .. Len(r) : r[i].type \in KexTypes => r[i].type \in kinds \ {q[1].type}
  <2> SUFFICES ASSUME NEW i \in 1 .. Len(r), r[i].type \in KexTypes
               PROVE  r[i].type \in kinds \ {q[1].type}
    OBVIOUS
  <2>1. i + 1 # 1 /\ q[i + 1].type \in kinds
    BY <1>0 DEF Stream
  <2>2. q[i + 1].type # q[1].type
    BY <1>0, <2>1 DEF Stream
  <2> QED
    BY <1>0, <2>1, <2>2
<1>3. \A i \in 1 .. Len(r) :
        r[i].key = IF \E j \in 1 .. i - 1 : r[j].type = "NEWKEYS" THEN send ELSE rec
  <2> SUFFICES ASSUME NEW i \in 1 .. Len(r)
               PROVE  r[i].key = IF \E j \in 1 .. i - 1 : r[j].type = "NEWKEYS" THEN send ELSE rec
    OBVIOUS
  <2>1. (\E j \in 1 .. i - 1 : r[j].type = "NEWKEYS")
          <=> (\E j \in 1 .. (i + 1) - 1 : q[j].type = "NEWKEYS")
    <3>1. ASSUME NEW j \in 1 .. i - 1, r[j].type = "NEWKEYS"
          PROVE  \E k \in 1 .. (i + 1) - 1 : q[k].type = "NEWKEYS"
      <4>1. j + 1 \in 1 .. (i + 1) - 1 /\ j \in 1 .. Len(r)
        BY <1>0
      <4> QED
        BY <4>1, <3>1, <1>0
    <3>2. ASSUME NEW j \in 1 .. (i + 1) - 1, q[j].type = "NEWKEYS"
          PROVE  \E k \in 1 .. i - 1 : r[k].type = "NEWKEYS"
      <4>1. j # 1
        BY <3>2, <1>0
      <4>2. j - 1 \in 1 .. i - 1 /\ j - 1 \in 1 .. Len(r) /\ (j - 1) + 1 = j
        BY <4>1, <1>0
      <4> QED
        BY <4>2, <3>2, <1>0
    <3> QED
      BY <3>1, <3>2
  <2>2. r[i] = q[i + 1] /\ i + 1 \in 1 .. Len(q)
    BY <1>0
  <2> QED
    BY <2>1, <2>2 DEF Stream
<1>4. IF "NEWKEYS" \in kinds \ {q[1].type}
        THEN \E i \in 1 .. Len(r) : r[i].type = "NEWKEYS" ELSE send = rec
  <2>1. CASE "NEWKEYS" \in kinds
    <3>1. PICK i \in 1 .. Len(q) : q[i].type = "NEWKEYS"
      BY <2>1 DEF Stream
    <3>2. i # 1
      BY <3>1, <1>0
    <3>3. i - 1 \in 1 .. Len(r) /\ (i - 1) + 1 = i
      BY <3>2, <1>0
    <3> QED
      BY <2>1, <3>1, <3>3, <1>0
  <2>2. CASE "NEWKEYS" \notin kinds
    BY <2>2 DEF Stream
  <2> QED
    BY <2>1, <2>2
<1> QED
  BY <1>0, <1>1, <1>2, <1>3, <1>4 DEF Stream, r

(* NEWKEYS is read: what is behind it was written with the new keys.       *)
LEMMA StreamPopKeys ==
  ASSUME NEW q \in Seq(Packet), NEW rec, NEW send, NEW kinds,
         q # <<>>, Head(q).type = "NEWKEYS", Stream(q, rec, send, kinds)
  PROVE  Stream(Tail(q), send, send, kinds \ {"NEWKEYS"})
<1> DEFINE r == Tail(q)
<1>0. /\ Len(q) \in Nat \ {0}
      /\ Len(r) = Len(q) - 1
      /\ \A i \in 1 .. Len(r) : r[i] = q[i + 1] /\ i + 1 \in 1 .. Len(q)
      /\ q[1].type = "NEWKEYS"
      /\ 1 \in 1 .. Len(q)
  BY TailFacts
<1> HIDE DEF r
<1>1. \A i, j \in 1 .. Len(r) : r[i].type \in KexTypes /\ r[i].type = r[j].type => i = j
  <2> SUFFICES ASSUME NEW i \in 1 .. Len(r), NEW j \in 1 .. Len(r),
                      r[i].type \in KexTypes, r[i].type = r[j].type
               PROVE  i = j
    OBVIOUS
  <2>1. q[i + 1] = r[i] /\ q[j + 1] = r[j] /\ i + 1 \in 1 .. Len(q) /\ j + 1 \in 1 .. Len(q)
    BY <1>0
  <2>2. i + 1 = j + 1
    BY <2>1, Zenon DEF Stream
  <2> QED
    BY <2>2
<1>2. \A i \in 1 .. Len(r) : r[i].type # "NEWKEYS"
  <2> SUFFICES ASSUME NEW i \in 1 .. Len(r), r[i].type = "NEWKEYS" PROVE FALSE
    OBVIOUS
  <2>1. i + 1 # 1 /\ q[i + 1].type = "NEWKEYS" /\ i + 1 \in 1 .. Len(q)
    BY <1>0
  <2> QED
    BY <1>0, <2>1 DEF Stream, KexTypes
<1>3. \A i \in 1 .. Len(r) : r[i].type \in KexTypes => r[i].type \in kinds \ {"NEWKEYS"}
  BY <1>0, <1>2 DEF Stream
<1>4. \A i \in 1 .. Len(r) : r[i].key = send
  <2> SUFFICES ASSUME NEW i \in 1 .. Len(r) PROVE r[i].key = send
    OBVIOUS
  <2>1. r[i] = q[i + 1] /\ i + 1 \in 1 .. Len(q) /\ 1 \in 1 .. (i + 1) - 1
    BY <1>0
  <2> QED
    BY <2>1, <1>0 DEF Stream
<1> QED
  BY <1>1, <1>3, <1>4 DEF Stream, r

(* Packets are written that are none of the exchange.                      *)
Plain(out, send) ==
  \A i \in 1 .. Len(out) :
    out[i].type \notin KexTypes /\ out[i].key = send

LEMMA StreamPlain ==
  ASSUME NEW q \in Seq(Packet), NEW out \in Seq(Packet), NEW rec, NEW send, NEW kinds,
         Stream(q, rec, send, kinds), Plain(out, send)
  PROVE  Stream(q \o out, rec, send, kinds)
<1> DEFINE r == q \o out
<1>0. /\ Len(q) \in Nat
      /\ Len(out) \in Nat
      /\ Len(r) = Len(q) + Len(out)
      /\ \A i \in 1 .. Len(q) : r[i] = q[i]
      /\ \A i \in Len(q) + 1 .. Len(q) + Len(out) :
           r[i].type \notin KexTypes /\ r[i].key = send
  <2>1. \A i \in Len(q) + 1 .. Len(q) + Len(out) : i - Len(q) \in 1 .. Len(out)
    BY ConcFacts
  <2> QED
    BY ConcFacts, <2>1 DEF Plain
<1> HIDE DEF r
<1>1. \A i \in 1 .. Len(r) : r[i].type \in KexTypes => i \in 1 .. Len(q)
  BY <1>0
<1>2. \A i \in 1 .. Len(r) :
        r[i].key = IF \E j \in 1 .. i - 1 : r[j].type = "NEWKEYS" THEN send ELSE rec
  <2> SUFFICES ASSUME NEW i \in 1 .. Len(r)
               PROVE  r[i].key = IF \E j \in 1 .. i - 1 : r[j].type = "NEWKEYS" THEN send ELSE rec
    OBVIOUS
  <2>1. CASE i \in 1 .. Len(q)
    <3>1. \A j \in 1 .. i - 1 : r[j] = q[j]
      BY <2>1, <1>0
    <3> QED
      BY <3>1, <2>1, <1>0 DEF Stream
  <2>2. CASE i \notin 1 .. Len(q)
    <3>1. r[i].key = send
      BY <2>2, <1>0
    <3>2. CASE send = rec
      BY <3>1, <3>2
    <3>3. CASE send # rec
      <4>1. PICK j \in 1 .. Len(q) : q[j].type = "NEWKEYS"
        BY <3>3 DEF Stream
      <4>2. j \in 1 .. i - 1 /\ r[j] = q[j]
        BY <2>2, <1>0
      <4> QED
        BY <3>1, <4>1, <4>2
    <3> QED
      BY <3>2, <3>3
  <2> QED
    BY <2>1, <2>2
<1>3. \A i \in 1 .. Len(r) : r[i].type \in KexTypes => r[i].type \in kinds
  BY <1>0, <1>1 DEF Stream
<1>4. \A i, j \in 1 .. Len(r) : r[i].type \in KexTypes /\ r[i].type = r[j].type => i = j
  BY <1>0, <1>1 DEF Stream
<1>5. IF "NEWKEYS" \in kinds THEN \E i \in 1 .. Len(r) : r[i].type = "NEWKEYS" ELSE send = rec
  <2>1. \A i \in 1 .. Len(q) : i \in 1 .. Len(r)
    BY <1>0
  <2> QED
    BY <1>0, <2>1 DEF Stream
<1> QED
  BY <1>2, <1>3, <1>4, <1>5 DEF Stream, r

LEMMA AppendFacts ==
  ASSUME NEW q \in Seq(Packet), NEW m \in Packet
  PROVE  /\ Append(q, m) \in Seq(Packet)
         /\ Len(q) \in Nat
         /\ Len(Append(q, m)) = Len(q) + 1
         /\ \A i \in 1 .. Len(q) : Append(q, m)[i] = q[i]
         /\ Append(q, m)[Len(q) + 1] = m
  OBVIOUS

LEMMA ConcAppend ==
  ASSUME NEW q \in Seq(Packet), NEW s \in Seq(Packet), NEW m \in Packet
  PROVE  q \o Append(s, m) = Append(q \o s, m)
<1>1. Append(s, m) = s \o <<m>> /\ Append(q \o s, m) = (q \o s) \o <<m>>
  BY AppendIsConcat, ConcFacts
<1> QED
  BY <1>1, ConcatAssociative, m \in Packet, <<m>> \in Seq(Packet)

(* A message of the exchange is written, with the keys of the moment.      *)
LEMMA StreamPut ==
  ASSUME NEW q \in Seq(Packet), NEW m \in Packet, NEW rec, NEW send, NEW kinds,
         Stream(q, rec, send, kinds),
         m.type \in KexTypes \ {"NEWKEYS"}, m.type \notin kinds, m.key = send
  PROVE  Stream(Append(q, m), rec, send, kinds \cup {m.type})
<1> DEFINE r == Append(q, m)
<1>0. /\ Len(q) \in Nat
      /\ Len(r) = Len(q) + 1
      /\ \A i \in 1 .. Len(q) : r[i] = q[i]
      /\ r[Len(q) + 1] = m
  BY AppendFacts
<1> HIDE DEF r
<1>1. \A i \in 1 .. Len(r) : i \in 1 .. Len(q) \/ i = Len(q) + 1
  BY <1>0
<1>2. \A i \in 1 .. Len(r) :
        r[i].key = IF \E j \in 1 .. i - 1 : r[j].type = "NEWKEYS" THEN send ELSE rec
  <2> SUFFICES ASSUME NEW i \in 1 .. Len(r)
               PROVE  r[i].key = IF \E j \in 1 .. i - 1 : r[j].type = "NEWKEYS" THEN send ELSE rec
    OBVIOUS
  <2>1. CASE i \in 1 .. Len(q)
    <3>1. \A j \in 1 .. i - 1 : r[j] = q[j]
      BY <2>1, <1>0
    <3> QED
      BY <3>1, <2>1, <1>0 DEF Stream
  <2>2. CASE i = Len(q) + 1
    <3>1. CASE send = rec
      BY <3>1, <2>2, <1>0
    <3>2. CASE send # rec
      <4>1. PICK j \in 1 .. Len(q) : q[j].type = "NEWKEYS"
        BY <3>2 DEF Stream
      <4>2. j \in 1 .. i - 1 /\ r[j] = q[j]
        BY <2>2, <1>0
      <4> QED
        BY <2>2, <1>0, <4>1, <4>2
    <3> QED
      BY <3>1, <3>2
  <2> QED
    BY <2>1, <2>2, <1>1
<1>3. \A i \in 1 .. Len(r) : r[i].type \in KexTypes => r[i].type \in kinds \cup {m.type}
  BY <1>0, <1>1 DEF Stream
<1>4. \A i, j \in 1 .. Len(r) : r[i].type \in KexTypes /\ r[i].type = r[j].type => i = j
  <2>1. \A i \in 1 .. Len(q) : q[i].type # m.type
    BY DEF Stream
  <2> QED
    BY <1>0, <1>1, <2>1 DEF Stream
<1>5. IF "NEWKEYS" \in kinds \cup {m.type}
        THEN \E i \in 1 .. Len(r) : r[i].type = "NEWKEYS" ELSE send = rec
  <2>1. \A i \in 1 .. Len(q) : i \in 1 .. Len(r)
    BY <1>0
  <2> QED
    BY <1>0, <2>1 DEF Stream
<1> QED
  BY <1>2, <1>3, <1>4, <1>5 DEF Stream, r

(* NEWKEYS is written, and then the keys are changed to new.               *)
LEMMA StreamKeys ==
  ASSUME NEW q \in Seq(Packet), NEW m \in Packet, NEW rec, NEW send, NEW new, NEW kinds,
         Stream(q, rec, send, kinds),
         m.type = "NEWKEYS", "NEWKEYS" \notin kinds, m.key = send
  PROVE  Stream(Append(q, m), rec, new, kinds \cup {"NEWKEYS"})
<1> DEFINE r == Append(q, m)
<1>0. /\ Len(q) \in Nat
      /\ Len(r) = Len(q) + 1
      /\ \A i \in 1 .. Len(q) : r[i] = q[i]
      /\ r[Len(q) + 1] = m
  BY AppendFacts
<1> HIDE DEF r
<1>1. \A i \in 1 .. Len(r) : i \in 1 .. Len(q) \/ i = Len(q) + 1
  BY <1>0
<1>2. \A i \in 1 .. Len(q) : q[i].type # "NEWKEYS"
  BY DEF Stream, KexTypes
<1>3. \A i \in 1 .. Len(r) : ~ \E j \in 1 .. i - 1 : r[j].type = "NEWKEYS"
  <2> SUFFICES ASSUME NEW i \in 1 .. Len(r), NEW j \in 1 .. i - 1, r[j].type = "NEWKEYS"
               PROVE  FALSE
    OBVIOUS
  <2>1. j \in 1 .. Len(q)
    BY <1>0
  <2> QED
    BY <2>1, <1>0, <1>2
<1>4. \A i \in 1 .. Len(q) : q[i].key = rec
  <2> SUFFICES ASSUME NEW i \in 1 .. Len(q) PROVE q[i].key = rec
    OBVIOUS
  <2>1. ~ \E j \in 1 .. i - 1 : q[j].type = "NEWKEYS"
    BY <1>0, <1>2
  <2> QED
    BY <2>1 DEF Stream
<1>5. \A i \in 1 .. Len(r) : r[i].key = rec
  BY <1>0, <1>1, <1>4 DEF Stream
<1>6. \A i \in 1 .. Len(r) : r[i].type \in KexTypes => r[i].type \in kinds \cup {"NEWKEYS"}
  BY <1>0, <1>1 DEF Stream
<1>7. \A i, j \in 1 .. Len(r) : r[i].type \in KexTypes /\ r[i].type = r[j].type => i = j
  BY <1>0, <1>1, <1>2 DEF Stream
<1>8. \E i \in 1 .. Len(r) : r[i].type = "NEWKEYS"
  <2>1. Len(q) + 1 \in 1 .. Len(r)
    BY <1>0
  <2> QED
    BY <2>1, <1>0
<1> QED
  BY <1>3, <1>5, <1>6, <1>7, <1>8 DEF Stream, r

LEMMA RestRead ==
  ASSUME NEW q \in Seq(Packet), NEW send, q # <<>>, Replies(q, send), Guessed(q)
  PROVE  Replies(Tail(q), send) /\ Guessed(Tail(q))
<1> DEFINE r == Tail(q)
<1>0. /\ Len(q) \in Nat \ {0}
      /\ Len(r) = Len(q) - 1
      /\ \A i \in 1 .. Len(r) : r[i] = q[i + 1] /\ i + 1 \in 1 .. Len(q)
  BY TailFacts
<1> HIDE DEF r
<1>1. Replies(r, send)
  BY <1>0 DEF Replies
<1>2. Guessed(r)
  <2> SUFFICES ASSUME NEW i \in 1 .. Len(r), r[i].type = "KEXINIT", r[i].follows
               PROVE  i < Len(r) /\ r[i + 1].type = "GUESS"
    BY DEF Guessed
  <2>1. i + 1 < Len(q) /\ q[(i + 1) + 1].type = "GUESS"
    BY <1>0 DEF Guessed
  <2>2. i + 1 \in 1 .. Len(r)
    BY <2>1, <1>0
  <2> QED
    BY <2>1, <2>2, <1>0
<1> QED
  BY <1>1, <1>2 DEF r

LEMMA RestWritten ==
  ASSUME NEW q \in Seq(Packet), NEW out \in Seq(Packet), NEW send,
         Replies(q, send), Replies(out, send), Guessed(q), Guessed(out)
  PROVE  Replies(q \o out, send) /\ Guessed(q \o out)
<1> DEFINE r == q \o out
<1>0. /\ Len(q) \in Nat
      /\ Len(out) \in Nat
      /\ Len(r) = Len(q) + Len(out)
      /\ \A i \in 1 .. Len(q) : r[i] = q[i]
      /\ \A i \in Len(q) + 1 .. Len(q) + Len(out) :
           r[i] = out[i - Len(q)] /\ i - Len(q) \in 1 .. Len(out)
  BY ConcFacts
<1> HIDE DEF r
<1>1. Replies(r, send)
  <2> SUFFICES ASSUME NEW i \in 1 .. Len(r), r[i].type = "KEXDH_REPLY" PROVE r[i].kex = send
    BY DEF Replies
  <2>1. CASE i \in 1 .. Len(q)
    BY <2>1, <1>0 DEF Replies
  <2>2. CASE i \in Len(q) + 1 .. Len(q) + Len(out)
    BY <2>2, <1>0 DEF Replies
  <2> QED
    BY <2>1, <2>2, <1>0
<1>2. Guessed(r)
  <2> SUFFICES ASSUME NEW i \in 1 .. Len(r), r[i].type = "KEXINIT", r[i].follows
               PROVE  i < Len(r) /\ r[i + 1].type = "GUESS"
    BY DEF Guessed
  <2>1. CASE i \in 1 .. Len(q)
    <3>1. i < Len(q) /\ q[i + 1].type = "GUESS"
      BY <2>1, <1>0 DEF Guessed
    <3>2. i + 1 \in 1 .. Len(q)
      BY <3>1, <1>0
    <3> QED
      BY <3>1, <3>2, <1>0
  <2>2. CASE i \in Len(q) + 1 .. Len(q) + Len(out)
    <3> DEFINE j == i - Len(q)
    <3>1. j \in 1 .. Len(out) /\ r[i] = out[j]
      BY <2>2, <1>0
    <3>2. j < Len(out) /\ out[j + 1].type = "GUESS"
      BY <3>1 DEF Guessed
    <3>3. i + 1 \in Len(q) + 1 .. Len(q) + Len(out) /\ (i + 1) - Len(q) = j + 1
      BY <3>1, <3>2, <1>0
    <3>4. r[i + 1] = out[j + 1]
      BY <3>3, <1>0
    <3> QED
      BY <3>2, <3>3, <3>4, <1>0
  <2> QED
    BY <2>1, <2>2, <1>0
<1> QED
  BY <1>1, <1>2 DEF r

LEMMA PlainFacts ==
  ASSUME NEW out \in Seq(Packet), NEW send, NEW keys, Plain(out, send)
  PROVE  Replies(out, keys) /\ Guessed(out)
  BY DEF Plain, Replies, Guessed, KexTypes

(* What is on its way stays at the head when more is written.              *)
LEMMA LocalWritten ==
  ASSUME NEW c, NEW q \in Seq(Packet), NEW out \in Seq(Packet), Local(c, q)
  PROVE  Local(c, q \o out)
<1>1. ASSUME q # <<>> PROVE q \o out # <<>> /\ (q \o out)[1] = q[1]
  <2>1. Len(q) >= 1 /\ 1 \in 1 .. Len(q)
    BY <1>1
  <2>2. Len(q \o out) >= 1
    BY <2>1, ConcFacts
  <2> QED
    BY <2>1, <2>2, ConcFacts
<1> QED
  BY <1>1 DEF Local

LEMMA PeerFacts ==
  ASSUME NEW e \in Ends
  PROVE  Peer(e) \in Ends /\ Peer(Peer(e)) = e /\ Peer(e) # e
  BY DEF Ends, Peer

-----------------------------------------------------------------------------
(* Acts that leave the exchange where it is.                               *)

Act == [c : Connection, out : Seq(Packet)]

Quiet(c, x) ==
  /\ x \in Act
  /\ Plain(x.out, c.send_keys)
  /\ x.c.mode = c.mode
  /\ x.c.sent = c.sent
  /\ x.c.kexinits = c.kexinits
  /\ x.c.dh = c.dh
  /\ x.c.newkeys = c.newkeys
  /\ x.c.send_keys = c.send_keys
  /\ x.c.rec_keys = c.rec_keys
  /\ x.c.kex_state = c.kex_state \/ (c.kex_state = "IGNORE" /\ x.c.kex_state = "IN_PROGRESS")
  /\ x.c.open => c.open

LEMMA QuietKex ==
  ASSUME NEW e \in Ends, NEW c \in Connection, NEW d \in Connection,
         NEW q \in Seq(Packet), NEW r \in Seq(Packet), NEW q2 \in Seq(Packet), NEW x,
         Both(e, c, d, q, r), Quiet(c, x),
         x.c.open => \/ q2 = q /\ x.c.kex_state = c.kex_state
                     \/ /\ q # <<>> /\ q2 = Tail(q) /\ Head(q).type \notin KexTypes
                        /\ x.c.kex_state # "IGNORE"
  PROVE  Both(e, x.c, d, q2, r \o x.out)
<1>0. x.c \in Connection /\ x.out \in Seq(Packet)
  BY DEF Quiet, Act
<1>1. Phase(x.c) = Phase(c)
  BY DEF Quiet, Phase
<1>2. Reader(e, x.c, d, q2)
  <2> SUFFICES ASSUME x.c.open PROVE Reader(e, x.c, d, q2)
    BY DEF Reader
  <2>1. /\ Local(c, q)
        /\ Promised(e, c, d)
        /\ Stream(q, c.rec_keys, d.send_keys, Expected(e, Phase(c), Phase(d)))
        /\ Replies(q, d.send_keys)
        /\ Guessed(q)
    BY DEF Both, Reader, Quiet
  <2>2. Promised(e, x.c, d)
    BY <2>1 DEF Promised, Quiet
  <2>3. CASE q2 = q /\ x.c.kex_state = c.kex_state
    <3>1. Local(x.c, q2)
      BY <2>1, <2>3 DEF Local, Quiet
    <3>2. x.c.rec_keys = c.rec_keys
      BY DEF Quiet
    <3> QED
      BY <2>1, <2>2, <2>3, <3>1, <3>2, <1>1 DEF Reader
  <2>4. CASE /\ q # <<>> /\ q2 = Tail(q) /\ Head(q).type \notin KexTypes
             /\ x.c.kex_state # "IGNORE"
    <3>1. Local(x.c, q2)
      BY <2>1, <2>4 DEF Local, Quiet
    <3>2. x.c.rec_keys = c.rec_keys
      BY DEF Quiet
    <3> DEFINE K == Expected(e, Phase(c), Phase(d))
    <3>3. Stream(Tail(q), c.rec_keys, d.send_keys, K \ {Head(q).type})
      BY <2>1, <2>4, StreamPop DEF KexTypes
    <3>4. K \ {Head(q).type} = K
      BY <2>4 DEF Expected, KexTypes
    <3>5. Replies(Tail(q), d.send_keys) /\ Guessed(Tail(q))
      BY <2>1, <2>4, RestRead
    <3> QED
      BY <2>2, <2>4, <3>1, <3>2, <3>3, <3>4, <3>5, <1>1 DEF Reader
  <2> QED
    BY <2>3, <2>4
<1>3. Reader(Peer(e), d, x.c, r \o x.out)
  <2> SUFFICES ASSUME d.open PROVE Reader(Peer(e), d, x.c, r \o x.out)
    BY DEF Reader
  <2>1. /\ Local(d, r)
        /\ Promised(Peer(e), d, c)
        /\ Stream(r, d.rec_keys, c.send_keys, Expected(Peer(e), Phase(d), Phase(c)))
        /\ Replies(r, c.send_keys)
        /\ Guessed(r)
    BY DEF Both, Reader
  <2>2. Plain(x.out, c.send_keys) /\ x.c.send_keys = c.send_keys
    BY DEF Quiet
  <2>3. Promised(Peer(e), d, x.c)
    BY <2>1, <2>2, <1>1 DEF Promised
  <2>4. Stream(r \o x.out, d.rec_keys, c.send_keys, Expected(Peer(e), Phase(d), Phase(c)))
    BY <2>1, <2>2, <1>0, StreamPlain
  <2>5. Replies(r \o x.out, c.send_keys) /\ Guessed(r \o x.out)
    BY <2>1, <2>2, <1>0, RestWritten, PlainFacts
  <2>6. Local(d, r \o x.out)
    BY <2>1, <1>0, LocalWritten
  <2> QED
    BY <2>2, <2>3, <2>4, <2>5, <2>6, <1>1 DEF Reader
<1> QED
  BY <1>1, <1>2, <1>3 DEF Both, Quiet

PacketTypes ==
  {"KEXINIT", "GUESS", "KEXDH_INIT", "KEXDH_REPLY", "NEWKEYS", "DEBUG", "DISCONNECT",
   "SERVICE_REQUEST", "SERVICE_ACCEPT", "USERAUTH_REQUEST", "USERAUTH_FAILURE",
   "USERAUTH_PK_OK", "USERAUTH_SUCCESS", "DATA"}

LEMMA NoneType == None \in Kexinits
  BY ExchangesAssumption DEF None, Kexinits

LEMMA MessageType ==
  ASSUME NEW t \in PacketTypes
  PROVE  /\ Message(t) \in Packet
         /\ Message(t).type = t
         /\ ~Message(t).follows
  BY NoneType DEF Message, Packet, PacketTypes

LEMMA WriteAct ==
  ASSUME NEW x \in Act, NEW m \in Packet
  PROVE  /\ Write(x, m) \in Act
         /\ Write(x, m).c = x.c
         /\ Write(x, m).out = Append(x.out, [m EXCEPT !.key = x.c.send_keys])
         /\ [m EXCEPT !.key = x.c.send_keys] \in Packet
         /\ [m EXCEPT !.key = x.c.send_keys].key = x.c.send_keys
         /\ [m EXCEPT !.key = x.c.send_keys].type = m.type
<1>1. x.c.send_keys \in Kexinits /\ x.c \in Connection /\ x.out \in Seq(Packet)
  BY DEF Act, Connection
<1>2. [m EXCEPT !.key = x.c.send_keys] \in Packet
  BY <1>1 DEF Packet
<1>3. /\ [m EXCEPT !.key = x.c.send_keys].key = x.c.send_keys
      /\ [m EXCEPT !.key = x.c.send_keys].type = m.type
  BY DEF Packet
<1>4. Append(x.out, [m EXCEPT !.key = x.c.send_keys]) \in Seq(Packet)
  BY <1>1, <1>2
<1> QED
  BY <1>1, <1>2, <1>3, <1>4 DEF Write, Act

LEMMA BeginAct ==
  ASSUME NEW c \in Connection
  PROVE  Begin(c) \in Act /\ Begin(c).c = c /\ Begin(c).out = <<>> /\ Quiet(c, Begin(c))
  BY DEF Begin, Act, Quiet, Plain

Faults == {"none", "protocol", "kex_failed", "denied", "disconnected"}

LEMMA WriteQuiet ==
  ASSUME NEW c, NEW x, NEW m \in Packet, Quiet(c, x), m.type \notin KexTypes
  PROVE  Quiet(c, Write(x, m)) /\ Write(x, m).c = x.c
<1> DEFINE p == [m EXCEPT !.key = x.c.send_keys]
           y == Write(x, m)
<1>1. /\ x \in Act
      /\ y \in Act
      /\ y.c = x.c
      /\ y.out = Append(x.out, p)
      /\ p \in Packet
      /\ p.key = c.send_keys
      /\ p.type \notin KexTypes
  BY WriteAct DEF Quiet
<1> HIDE DEF p, y
<1>2. x.out \in Seq(Packet)
  BY <1>1 DEF Act
<1>3. Plain(y.out, c.send_keys)
  <2>1. /\ Len(x.out) \in Nat
        /\ Len(y.out) = Len(x.out) + 1
        /\ \A i \in 1 .. Len(x.out) : y.out[i] = x.out[i]
        /\ y.out[Len(x.out) + 1] = p
    BY <1>1, <1>2, AppendFacts
  <2>2. \A i \in 1 .. Len(y.out) : i \in 1 .. Len(x.out) \/ i = Len(x.out) + 1
    BY <2>1
  <2>3. Plain(x.out, c.send_keys)
    BY DEF Quiet
  <2> QED
    BY <1>1, <2>1, <2>2, <2>3 DEF Plain
<1> QED
  BY <1>1, <1>3 DEF Quiet, y

LEMMA FailQuiet ==
  ASSUME NEW c, NEW x, NEW why \in Faults, Quiet(c, x)
  PROVE  /\ Quiet(c, Fail(x, why))
         /\ ~Fail(x, why).c.open
         /\ Fail(x, why).c.service = x.c.service
         /\ Fail(x, why).c.established = x.c.established
<1> DEFINE y == Write(x, Message("DISCONNECT"))
           z == Fail(x, why)
<1>1. Quiet(c, y) /\ y.c = x.c
  BY WriteQuiet, MessageType DEF PacketTypes, KexTypes
<1>2. z = [y EXCEPT !.c.open = FALSE, !.c.fault = why]
  BY DEF Fail
<1> HIDE DEF y, z
<1>3. y \in Act
  BY <1>1 DEF Quiet
<1>4. /\ z \in Act
      /\ z.out = y.out
      /\ z.c = [y.c EXCEPT !.open = FALSE, !.fault = why]
  BY <1>2, <1>3 DEF Act, Connection, Faults
<1>5. Quiet(c, z)
  BY <1>1, <1>3, <1>4 DEF Quiet, Act, Connection
<1> QED
  BY <1>1, <1>3, <1>4, <1>5 DEF z, Act, Connection

-----------------------------------------------------------------------------
(* The steps of an exchange.  c is the connection of e before, c2 after the *)
(* step, d that of its peer; q is on its way to e, r to the peer.           *)

LEMMA PhaseType ==
  ASSUME NEW c
  PROVE  Phase(c) \in Phases
  BY DEF Phase, Phases

(* An end that stops to read.                                              *)
LEMMA ClosedKex ==
  ASSUME NEW e \in Ends, NEW c \in Connection, NEW d \in Connection, NEW c2 \in Connection,
         NEW q \in Seq(Packet), NEW r \in Seq(Packet), NEW q2 \in Seq(Packet),
         NEW out \in Seq(Packet),
         Both(e, c, d, q, r), Plain(out, c.send_keys),
         ~c2.open, c2.mode = c.mode, c2.sent = c.sent, c2.send_keys = c.send_keys,
         Phase(c2) = Phase(c)
  PROVE  Both(e, c2, d, q2, r \o out)
<1>1. Reader(e, c2, d, q2)
  BY DEF Reader
<1>2. Reader(Peer(e), d, c2, r \o out)
  <2> SUFFICES ASSUME d.open PROVE Reader(Peer(e), d, c2, r \o out)
    BY DEF Reader
  <2>1. /\ Local(d, r)
        /\ Promised(Peer(e), d, c)
        /\ Stream(r, d.rec_keys, c.send_keys, Expected(Peer(e), Phase(d), Phase(c)))
        /\ Replies(r, c.send_keys)
        /\ Guessed(r)
    BY DEF Both, Reader
  <2>2. Promised(Peer(e), d, c2)
    BY <2>1 DEF Promised
  <2>3. Stream(r \o out, d.rec_keys, c.send_keys, Expected(Peer(e), Phase(d), Phase(c)))
    BY <2>1, StreamPlain
  <2>4. Replies(r \o out, c.send_keys) /\ Guessed(r \o out)
    BY <2>1, RestWritten, PlainFacts
  <2>5. Local(d, r \o out)
    BY <2>1, LocalWritten
  <2> QED
    BY <2>2, <2>3, <2>4, <2>5 DEF Reader
<1> QED
  BY <1>1, <1>2 DEF Both

(* An end writes KEXINIT, and perhaps a guess.                             *)
LEMMA AskKex ==
  ASSUME NEW e \in Ends, NEW c \in Connection, NEW d \in Connection, NEW c2 \in Connection,
         NEW q \in Seq(Packet), NEW r \in Seq(Packet), NEW m \in Packet,
         NEW out \in Seq(Packet),
         Both(e, c, d, q, r), c.open, Phase(c) = "idle",
         e = "client" => c.sent = 0 \/ Phase(d) = "asked",
         m.type = "KEXINIT", m.key = c.send_keys, Plain(out, c.send_keys),
         m.follows => out # <<>> /\ out[1].type = "GUESS",
         c2.open, c2.mode = e, c2.sent = c.sent + 1, c2.kexinits[e] # 0,
         (c2.dh <=> c.dh), c2.kex_state = c.kex_state, c2.newkeys = c.newkeys,
         c2.send_keys = c.send_keys, c2.rec_keys = c.rec_keys
  PROVE  /\ Phase(c2) = "asked"
         /\ Both(e, c2, d, q, Append(r, m) \o out)
<1> DEFINE p == Peer(e)
<1>1. /\ c.mode = e /\ ~c.dh /\ c.kex_state # "NEWKEYS"
  BY DEF Both, Phase
<1>2. Phase(c2) = "asked"
  BY <1>1 DEF Phase
<1>3. Phase(d) \in Phases /\ c.sent \in Nat /\ d.sent \in Nat
  BY PhaseType DEF Connection
<1>4. Legal(e, "idle", Phase(d)) /\ Counted(e, "idle", Phase(d), c.sent, d.sent)
  BY DEF Both
<1>5. /\ Legal(e, "asked", Phase(d)) /\ Counted(e, "asked", Phase(d), c.sent + 1, d.sent)
      /\ Expected(e, "asked", Phase(d)) = Expected(e, "idle", Phase(d))
      /\ Expected(p, Phase(d), "asked") = Expected(p, Phase(d), "idle") \cup {"KEXINIT"}
      /\ "KEXINIT" \notin Expected(p, Phase(d), "idle")
  <2>1. CASE e = "server"
    BY <1>3, <1>4, <2>1 DEF Legal, Counted, Expected, Phases, Peer
  <2>2. CASE e = "client"
    <3>1. Phase(d) \in {"idle", "asked"}
      BY <1>3, <1>4, <2>2 DEF Legal, Counted, Phases
    <3> QED
      BY <1>3, <1>4, <2>2, <3>1 DEF Legal, Counted, Expected, Peer
  <2> QED
    BY <2>1, <2>2 DEF Ends
<1>6. Reader(e, c2, d, q)
  <2>1. Reader(e, c, d, q)
    BY DEF Both
  <2> QED
    BY <2>1, <1>5, <1>1, <1>2 DEF Reader, Local, Promised
<1>7. Reader(p, d, c2, Append(r, m) \o out)
  <2> SUFFICES ASSUME d.open PROVE Reader(p, d, c2, Append(r, m) \o out)
    BY DEF Reader
  <2>1. /\ Local(d, r)
        /\ Promised(p, d, c)
        /\ Stream(r, d.rec_keys, c.send_keys, Expected(p, Phase(d), "idle"))
        /\ Replies(r, c.send_keys)
        /\ Guessed(r)
    BY DEF Both, Reader
  <2>2. Append(r, m) \in Seq(Packet) /\ Append(r, m) = r \o <<m>> /\ <<m>> \in Seq(Packet)
    BY AppendFacts, AppendIsConcat
  <2>3. Stream(Append(r, m), d.rec_keys, c.send_keys, Expected(p, Phase(d), "asked"))
    <3> DEFINE K == Expected(p, Phase(d), "idle")
    <3>1. Stream(r, d.rec_keys, c.send_keys, K) /\ m.type \notin K
      BY <2>1, <1>5
    <3>2. m.type \in KexTypes \ {"NEWKEYS"}
      BY DEF KexTypes
    <3> HIDE DEF K
    <3>3. Stream(Append(r, m), d.rec_keys, c.send_keys, K \cup {m.type})
      BY <3>1, <3>2, StreamPut
    <3> QED
      BY <3>3, <1>5 DEF K
  <2>4. Stream(Append(r, m) \o out, d.rec_keys, c.send_keys, Expected(p, Phase(d), "asked"))
    BY <2>2, <2>3, StreamPlain
  <2>5. <<m>> \o out \in Seq(Packet) /\ Append(r, m) \o out = r \o (<<m>> \o out)
    <3>1. <<m>> \o out \in Seq(Packet)
      BY <2>2, ConcFacts
    <3>2. (r \o <<m>>) \o out = r \o (<<m>> \o out)
      BY <2>2, ConcatAssociative
    <3> QED
      BY <3>1, <3>2, <2>2
  <2>6. Replies(<<m>> \o out, c.send_keys) /\ Guessed(<<m>> \o out)
    <3>1. /\ Len(out) \in Nat
          /\ Len(<<m>> \o out) = 1 + Len(out)
          /\ (<<m>> \o out)[1] = m
          /\ \A i \in 2 .. 1 + Len(out) : (<<m>> \o out)[i] = out[i - 1] /\ i - 1 \in 1 .. Len(out)
      BY <2>2, ConcFacts
    <3>2. \A i \in 1 .. 1 + Len(out) : i = 1 \/ i \in 2 .. 1 + Len(out)
      BY <3>1
    <3>3. out # <<>> => 2 \in 2 .. 1 + Len(out) /\ (<<m>> \o out)[2] = out[1]
      BY <3>1
    <3> QED
      BY <3>1, <3>2, <3>3 DEF Replies, Guessed, Plain, KexTypes
  <2>7. Replies(Append(r, m) \o out, c.send_keys) /\ Guessed(Append(r, m) \o out)
    BY <2>1, <2>5, <2>6, RestWritten
  <2>8. Local(d, Append(r, m) \o out)
    BY <2>1, <2>5, LocalWritten
  <2>9. Promised(p, d, c2)
    BY <2>1, <1>2 DEF Promised
  <2> QED
    BY <2>4, <2>7, <2>8, <2>9, <1>2 DEF Reader
<1> QED
  BY <1>2, <1>5, <1>6, <1>7 DEF Both

(* An end reads KEXINIT; the client writes KEXDH_INIT.                     *)
LEMMA DhKex ==
  ASSUME NEW e \in Ends, NEW c \in Connection, NEW d \in Connection, NEW c2 \in Connection,
         NEW q \in Seq(Packet), NEW r \in Seq(Packet), NEW r2 \in Seq(Packet), NEW m \in Packet,
         Both(e, c, d, q, r), c.open, Phase(c) = "asked", c.sent > 0,
         q # <<>>, Head(q).type = "KEXINIT",
         m.type = "KEXDH_INIT", m.key = c.send_keys,
         r2 = IF e = "client" THEN Append(r, m) ELSE r,
         c2.open, c2.mode = e, c2.sent = c.sent, c2.kexinits[e] # 0, c2.dh,
         c2.kex_state \in {"INIT", "IN_PROGRESS"} \/ (c2.kex_state = "IGNORE" /\ Head(q).follows),
         c2.newkeys = c.newkeys, c2.send_keys = c.send_keys, c2.rec_keys = c.rec_keys
  PROVE  Both(e, c2, d, Tail(q), r2)
<1> DEFINE p == Peer(e)
           s == Phase(d)
<1>1. Phase(c2) = "dh"
  BY DEF Phase
<1>2. s \in Phases /\ c.sent \in Nat /\ d.sent \in Nat
  BY PhaseType DEF Connection
<1>3. Legal(e, "asked", s) /\ Counted(e, "asked", s, c.sent, d.sent)
  BY DEF Both
<1>4. /\ Local(c, q)
      /\ Promised(e, c, d)
      /\ Stream(q, c.rec_keys, d.send_keys, Expected(e, "asked", s))
      /\ Replies(q, d.send_keys)
      /\ Guessed(q)
  BY DEF Both, Reader
<1>5. /\ Len(q) \in Nat \ {0}
      /\ 1 \in 1 .. Len(q)
      /\ Head(q) = q[1]
      /\ Len(Tail(q)) = Len(q) - 1
      /\ \A i \in 1 .. Len(Tail(q)) : Tail(q)[i] = q[i + 1]
      /\ Tail(q) \in Seq(Packet)
  BY TailFacts
<1>6. "KEXINIT" \in Expected(e, "asked", s)
  BY <1>4, <1>5 DEF Stream, KexTypes
<1>7. /\ Legal(e, "dh", s) /\ Counted(e, "dh", s, c.sent, d.sent)
      /\ Expected(e, "dh", s) = Expected(e, "asked", s) \ {"KEXINIT"}
      /\ e = "server" => Expected(p, s, "dh") = Expected(p, s, "asked")
      /\ e = "client" => /\ Expected(p, s, "dh") = Expected(p, s, "asked") \cup {"KEXDH_INIT"}
                         /\ "KEXDH_INIT" \notin Expected(p, s, "asked")
      /\ s # "keyed"
  <2>1. CASE e = "server"
    <3>1. s \in {"asked", "dh"}
      BY <1>2, <1>6, <2>1 DEF Expected, Phases
    <3> QED
      BY <1>2, <1>3, <2>1, <3>1 DEF Legal, Counted, Expected, Peer
  <2>2. CASE e = "client"
    <3>1. s \in {"asked", "dh"}
      BY <1>2, <1>6, <2>2 DEF Expected, Phases
    <3> QED
      BY <1>2, <1>3, <2>2, <3>1 DEF Legal, Counted, Expected, Peer
  <2> QED
    BY <2>1, <2>2 DEF Ends
<1>8. Reader(e, c2, d, Tail(q))
  <2>1. Stream(Tail(q), c.rec_keys, d.send_keys, Expected(e, "dh", s))
    BY <1>4, <1>7, StreamPop
  <2>2. Replies(Tail(q), d.send_keys) /\ Guessed(Tail(q))
    BY <1>4, RestRead
  <2>3. Local(c2, Tail(q))
    <3>1. ASSUME Head(q).follows PROVE Tail(q) # <<>> /\ Tail(q)[1].type = "GUESS"
      <4>1. 1 < Len(q) /\ q[1 + 1].type = "GUESS"
        BY <1>4, <1>5, <3>1 DEF Guessed
      <4>2. 1 \in 1 .. Len(Tail(q))
        BY <4>1, <1>5
      <4>3. Tail(q)[1] = q[1 + 1]
        BY <4>2, <1>5
      <4> QED
        BY <4>1, <4>2, <4>3, <1>5, SMTT(40)
    <3> QED
      BY <3>1 DEF Local
  <2>4. Promised(e, c2, d)
    BY DEF Promised
  <2> QED
    BY <2>1, <2>2, <2>3, <2>4, <1>1 DEF Reader
<1>9. Reader(p, d, c2, r2)
  <2> SUFFICES ASSUME d.open PROVE Reader(p, d, c2, r2)
    BY DEF Reader
  <2>1. /\ Local(d, r)
        /\ Promised(p, d, c)
        /\ Stream(r, d.rec_keys, c.send_keys, Expected(p, s, "asked"))
        /\ Replies(r, c.send_keys)
        /\ Guessed(r)
    BY DEF Both, Reader
  <2>2. Promised(p, d, c2)
    BY <1>7 DEF Promised, Phase
  <2>3. CASE e = "server"
    BY <2>1, <2>2, <2>3, <1>1, <1>7 DEF Reader
  <2>4. CASE e = "client"
    <3>1. r2 = r \o <<m>> /\ <<m>> \in Seq(Packet) /\ r2 = Append(r, m)
      BY <2>4, AppendIsConcat
    <3>2. Stream(r2, d.rec_keys, c.send_keys, Expected(p, s, "dh"))
      <4> DEFINE K == Expected(p, s, "asked")
      <4>1. Stream(r, d.rec_keys, c.send_keys, K) /\ m.type \notin K
        BY <2>1, <2>4, <1>7
      <4>2. m.type \in KexTypes \ {"NEWKEYS"}
        BY DEF KexTypes
      <4> HIDE DEF K
      <4>3. Stream(Append(r, m), d.rec_keys, c.send_keys, K \cup {m.type})
        BY <4>1, <4>2, StreamPut
      <4> QED
        BY <4>3, <3>1, <2>4, <1>7 DEF K
    <3>3. Replies(<<m>>, c.send_keys) /\ Guessed(<<m>>)
      BY DEF Replies, Guessed
    <3>4. Replies(r2, c.send_keys) /\ Guessed(r2)
      BY <2>1, <3>1, <3>3, RestWritten
    <3>5. Local(d, r2)
      BY <2>1, <3>1, LocalWritten
    <3> QED
      BY <2>2, <3>2, <3>4, <3>5, <1>1 DEF Reader
  <2> QED
    BY <2>3, <2>4 DEF Ends
<1> QED
  BY <1>1, <1>7, <1>8, <1>9 DEF Both

(* Nothing of an exchange is on its way where none is expected.            *)
LEMMA NothingSaid ==
  ASSUME NEW q, NEW rec, NEW send, NEW keys, Stream(q, rec, send, {})
  PROVE  Replies(q, keys)
  BY DEF Stream, Replies, KexTypes

(* The server reads KEXDH_INIT, answers and changes to the keys it says.    *)
LEMMA ServerKeyed ==
  ASSUME NEW c \in Connection, NEW d \in Connection, NEW c2 \in Connection,
         NEW q \in Seq(Packet), NEW r \in Seq(Packet), NEW a \in Packet, NEW b \in Packet,
         NEW out \in Seq(Packet), NEW keys,
         Both("server", c, d, q, r), c.open, Phase(c) = "dh",
         q # <<>>, Head(q).type = "KEXDH_INIT",
         a.type = "KEXDH_REPLY", a.key = c.send_keys, a.kex = keys,
         b.type = "NEWKEYS", b.key = c.send_keys, Plain(out, keys),
         c2.open, c2.mode = "server", c2.sent = c.sent, ~c2.dh, c2.kex_state = "NEWKEYS",
         c2.newkeys = keys, c2.send_keys = keys, c2.rec_keys = c.rec_keys
  PROVE  Both("server", c2, d, Tail(q), Append(Append(r, a), b) \o out)
<1> DEFINE s == Phase(d)
           r1 == Append(r, a)
           r2 == Append(r1, b)
<1>1. Phase(c2) = "keyed"
  BY DEF Phase
<1>2. s \in Phases /\ c.sent \in Nat /\ d.sent \in Nat
  BY PhaseType DEF Connection
<1>3. Legal("server", "dh", s) /\ Counted("server", "dh", s, c.sent, d.sent)
  BY DEF Both
<1>4. /\ Stream(q, c.rec_keys, d.send_keys, Expected("server", "dh", s))
      /\ Replies(q, d.send_keys)
      /\ Guessed(q)
  BY DEF Both, Reader
<1>5. "KEXDH_INIT" \in Expected("server", "dh", s)
  BY <1>4, TailFacts DEF Stream, KexTypes
<1>6. s = "dh"
  BY <1>2, <1>5 DEF Expected, Phases
<1>7. /\ Legal("server", "keyed", s) /\ Counted("server", "keyed", s, c.sent, d.sent)
      /\ Expected("server", "keyed", s) = Expected("server", "dh", s) \ {"KEXDH_INIT"}
      /\ Expected("client", s, "dh") = {}
      /\ Expected("client", s, "keyed") = {"KEXDH_REPLY", "NEWKEYS"}
  BY <1>2, <1>3, <1>6 DEF Legal, Counted, Expected
<1>8. Reader("server", c2, d, Tail(q))
  <2>1. Stream(Tail(q), c.rec_keys, d.send_keys, Expected("server", "keyed", s))
    BY <1>4, <1>7, StreamPop
  <2>2. Replies(Tail(q), d.send_keys) /\ Guessed(Tail(q))
    BY <1>4, RestRead
  <2>3. Local(c2, Tail(q)) /\ Promised("server", c2, d)
    BY <1>6 DEF Local, Promised
  <2> QED
    BY <2>1, <2>2, <2>3, <1>1 DEF Reader
<1>9. Reader("client", d, c2, r2 \o out)
  <2> SUFFICES ASSUME d.open PROVE Reader("client", d, c2, r2 \o out)
    BY DEF Reader
  <2>1. /\ Local(d, r)
        /\ Stream(r, d.rec_keys, c.send_keys, {})
        /\ Guessed(r)
    BY <1>7 DEF Both, Reader, Peer
  <2>2. r1 \in Seq(Packet) /\ r2 \in Seq(Packet)
    BY AppendFacts
  <2>3. Stream(r1, d.rec_keys, c.send_keys, {"KEXDH_REPLY"})
    <3>1. a.type \in KexTypes \ {"NEWKEYS"} /\ a.type \notin {} /\ {} \cup {a.type} = {"KEXDH_REPLY"}
      BY DEF KexTypes
    <3>2. Stream(r1, d.rec_keys, c.send_keys, {} \cup {a.type})
      BY <2>1, <3>1, StreamPut
    <3> QED
      BY <3>1, <3>2
  <2>4. Stream(r2, d.rec_keys, keys, {"KEXDH_REPLY", "NEWKEYS"})
    <3>1. "NEWKEYS" \notin {"KEXDH_REPLY"} /\ {"KEXDH_REPLY"} \cup {"NEWKEYS"} = {"KEXDH_REPLY", "NEWKEYS"}
      OBVIOUS
    <3>2. Stream(r2, d.rec_keys, keys, {"KEXDH_REPLY"} \cup {"NEWKEYS"})
      BY <2>2, <2>3, <3>1, StreamKeys
    <3> QED
      BY <3>1, <3>2
  <2>5. Stream(r2 \o out, d.rec_keys, keys, {"KEXDH_REPLY", "NEWKEYS"})
    BY <2>2, <2>4, StreamPlain
  <2>6. /\ r1 = r \o <<a>> /\ r2 = r1 \o <<b>>
        /\ <<a>> \in Seq(Packet) /\ <<b>> \in Seq(Packet)
    <3>1. r1 = r \o <<a>>
      BY AppendIsConcat
    <3> HIDE DEF r1
    <3>2. Append(r1, b) = r1 \o <<b>>
      BY <2>2, AppendIsConcat
    <3> QED
      BY <3>1, <3>2
  <2>7. /\ Replies(<<a>>, keys) /\ Guessed(<<a>>)
        /\ Replies(<<b>>, keys) /\ Guessed(<<b>>)
    BY DEF Replies, Guessed
  <2>8. Replies(r, keys)
    BY <2>1, NothingSaid
  <2>9. Replies(r1, keys) /\ Guessed(r1)
    BY <2>1, <2>6, <2>7, <2>8, RestWritten
  <2>10. Replies(r2, keys) /\ Guessed(r2)
    BY <2>2, <2>6, <2>7, <2>9, RestWritten
  <2>11. Replies(r2 \o out, keys) /\ Guessed(r2 \o out)
    BY <2>2, <2>10, RestWritten, PlainFacts
  <2>12. Local(d, r2 \o out)
    <3>1. Local(d, r1)
      BY <2>1, <2>6, LocalWritten
    <3>2. Local(d, r2)
      BY <3>1, <2>2, <2>6, LocalWritten
    <3> QED
      BY <3>2, <2>2, LocalWritten
  <2>13. Promised("client", d, c2)
    BY <1>6 DEF Promised, Phase
  <2> QED
    BY <2>5, <2>11, <2>12, <2>13, <1>1, <1>7 DEF Reader
<1> QED
  BY <1>1, <1>7, <1>8, <1>9 DEF Both, Peer

(* The client reads KEXDH_REPLY and changes to the keys it has agreed on.   *)
LEMMA ClientKeyed ==
  ASSUME NEW c \in Connection, NEW d \in Connection, NEW c2 \in Connection,
         NEW q \in Seq(Packet), NEW r \in Seq(Packet), NEW b \in Packet,
         NEW out \in Seq(Packet), NEW keys,
         Both("client", c, d, q, r), c.open, Phase(c) = "dh",
         q # <<>>, Head(q).type = "KEXDH_REPLY", Head(q).kex = keys,
         b.type = "NEWKEYS", b.key = c.send_keys, Plain(out, keys),
         c2.open, c2.mode = "client", c2.sent = c.sent, ~c2.dh, c2.kex_state = "NEWKEYS",
         c2.newkeys = keys, c2.send_keys = keys, c2.rec_keys = c.rec_keys
  PROVE  Both("client", c2, d, Tail(q), Append(r, b) \o out)
<1> DEFINE s == Phase(d)
           r2 == Append(r, b)
<1>1. Phase(c2) = "keyed"
  BY DEF Phase
<1>2. s \in Phases /\ c.sent \in Nat /\ d.sent \in Nat
  BY PhaseType DEF Connection
<1>3. Legal("client", "dh", s) /\ Counted("client", "dh", s, c.sent, d.sent)
  BY DEF Both
<1>4. /\ Stream(q, c.rec_keys, d.send_keys, Expected("client", "dh", s))
      /\ Replies(q, d.send_keys)
      /\ Guessed(q)
  BY DEF Both, Reader
<1>5. "KEXDH_REPLY" \in Expected("client", "dh", s) /\ keys = d.send_keys
  BY <1>4, TailFacts DEF Stream, KexTypes, Replies
<1>6. s = "keyed"
  BY <1>2, <1>5 DEF Expected, Phases
<1>7. /\ Legal("client", "keyed", s) /\ Counted("client", "keyed", s, c.sent, d.sent)
      /\ Expected("client", "keyed", s) = Expected("client", "dh", s) \ {"KEXDH_REPLY"}
      /\ Expected("server", s, "dh") = {}
      /\ Expected("server", s, "keyed") = {"NEWKEYS"}
  BY <1>2, <1>3, <1>6 DEF Legal, Counted, Expected
<1>8. Reader("client", c2, d, Tail(q))
  <2>1. Stream(Tail(q), c.rec_keys, d.send_keys, Expected("client", "keyed", s))
    BY <1>4, <1>7, StreamPop
  <2>2. Replies(Tail(q), d.send_keys) /\ Guessed(Tail(q))
    BY <1>4, RestRead
  <2>3. Local(c2, Tail(q)) /\ Promised("client", c2, d)
    BY <1>5 DEF Local, Promised
  <2> QED
    BY <2>1, <2>2, <2>3, <1>1 DEF Reader
<1>9. Reader("server", d, c2, r2 \o out)
  <2> SUFFICES ASSUME d.open PROVE Reader("server", d, c2, r2 \o out)
    BY DEF Reader
  <2>1. /\ Local(d, r)
        /\ Stream(r, d.rec_keys, c.send_keys, {})
        /\ Guessed(r)
    BY <1>7 DEF Both, Reader, Peer
  <2>2. r2 \in Seq(Packet)
    BY AppendFacts
  <2>3. Stream(r2, d.rec_keys, keys, {"NEWKEYS"})
    <3>1. "NEWKEYS" \notin {} /\ {} \cup {"NEWKEYS"} = {"NEWKEYS"}
      OBVIOUS
    <3>2. Stream(r2, d.rec_keys, keys, {} \cup {"NEWKEYS"})
      BY <2>1, <3>1, StreamKeys
    <3> QED
      BY <3>1, <3>2
  <2>4. Stream(r2 \o out, d.rec_keys, keys, {"NEWKEYS"})
    BY <2>2, <2>3, StreamPlain
  <2>5. r2 = r \o <<b>> /\ <<b>> \in Seq(Packet)
    BY AppendIsConcat
  <2>6. Replies(<<b>>, keys) /\ Guessed(<<b>>)
    BY DEF Replies, Guessed
  <2>7. Replies(r, keys)
    BY <2>1, NothingSaid
  <2>8. Replies(r2, keys) /\ Guessed(r2)
    BY <2>1, <2>5, <2>6, <2>7, RestWritten
  <2>9. Replies(r2 \o out, keys) /\ Guessed(r2 \o out)
    BY <2>2, <2>8, RestWritten, PlainFacts
  <2>10. Local(d, r2 \o out)
    BY <2>1, <2>2, <2>5, LocalWritten
  <2>11. Promised("server", d, c2)
    BY <2>1, <1>5 DEF Promised, Local
  <2> QED
    BY <2>4, <2>9, <2>10, <2>11, <1>1, <1>7 DEF Reader
<1> QED
  BY <1>1, <1>7, <1>8, <1>9 DEF Both, Peer

(* An end reads NEWKEYS and changes to the keys it holds.                  *)
LEMMA NewkeysKex ==
  ASSUME NEW e \in Ends, NEW c \in Connection, NEW d \in Connection, NEW c2 \in Connection,
         NEW q \in Seq(Packet), NEW r \in Seq(Packet),
         Both(e, c, d, q, r), c.open, c.kex_state = "NEWKEYS",
         q # <<>>, Head(q).type = "NEWKEYS",
         c2.open, c2.mode = e, c2.sent = c.sent, (c2.dh <=> c.dh), c2.kex_state = "INIT",
         c2.kexinits = None, c2.send_keys = c.send_keys, c2.rec_keys = c.newkeys
  PROVE  Both(e, c2, d, Tail(q), r)
<1> DEFINE p == Peer(e)
           s == Phase(d)
<1>1. Phase(c) = "keyed"
  BY DEF Phase
<1>2. s \in Phases /\ c.sent \in Nat /\ d.sent \in Nat
  BY PhaseType DEF Connection
<1>3. Legal(e, "keyed", s) /\ Counted(e, "keyed", s, c.sent, d.sent)
  BY <1>1 DEF Both
<1>4. /\ Local(c, q)
      /\ Promised(e, c, d)
      /\ Stream(q, c.rec_keys, d.send_keys, Expected(e, "keyed", s))
      /\ Replies(q, d.send_keys)
      /\ Guessed(q)
  BY <1>1 DEF Both, Reader
<1>5. Phase(c2) = "idle"
  BY <1>4 DEF Phase, Local, None
<1>6. "NEWKEYS" \in Expected(e, "keyed", s)
  BY <1>4, TailFacts DEF Stream, KexTypes
<1>7. /\ Legal(e, "idle", s) /\ Counted(e, "idle", s, c.sent, d.sent)
      /\ Expected(e, "idle", s) = Expected(e, "keyed", s) \ {"NEWKEYS"}
      /\ Expected(p, s, "idle") = Expected(p, s, "keyed")
      /\ ~(e = "server" /\ s = "dh")
  <2>1. CASE e = "server"
    <3>1. s \in {"keyed", "idle"}
      BY <1>2, <1>6, <2>1 DEF Expected, Phases
    <3> QED
      BY <1>2, <1>3, <2>1, <3>1 DEF Legal, Counted, Expected, Peer
  <2>2. CASE e = "client"
    <3>1. s \in {"keyed", "idle", "asked"}
      BY <1>2, <1>3, <2>2 DEF Legal, Phases
    <3> QED
      BY <1>2, <1>3, <2>2, <3>1 DEF Legal, Counted, Expected, Peer
  <2> QED
    BY <2>1, <2>2 DEF Ends
<1>8. Reader(e, c2, d, Tail(q))
  <2>1. c.newkeys = d.send_keys
    BY <1>4, <1>7 DEF Promised
  <2>2. Stream(Tail(q), d.send_keys, d.send_keys, Expected(e, "idle", s))
    BY <1>4, <1>7, StreamPopKeys
  <2>3. Replies(Tail(q), d.send_keys) /\ Guessed(Tail(q))
    BY <1>4, RestRead
  <2>4. Local(c2, Tail(q)) /\ Promised(e, c2, d)
    BY <1>4 DEF Local, Promised
  <2> QED
    BY <2>1, <2>2, <2>3, <2>4, <1>5 DEF Reader
<1>9. Reader(p, d, c2, r)
  BY <1>1, <1>5, <1>7 DEF Both, Reader, Promised
<1> QED
  BY <1>5, <1>7, <1>8, <1>9 DEF Both

-----------------------------------------------------------------------------
(* What the operators of KeyExchange write and change.                     *)

(* Single changes of a connection object, and of an act.                   *)
Shut(c, why) == [c EXCEPT !.open = FALSE, !.fault = why]
InState(c, ks) == [c EXCEPT !.kex_state = ks]
DhOn(c) == [c EXCEPT !.dh = TRUE]
DhOff(c) == [c EXCEPT !.dh = FALSE]
Holding(c, n, f) == [c EXCEPT !.sent = n, !.kexinits = f]
Noted(f, e, n) == [f EXCEPT ![e] = n]
Put(x, c) == [x EXCEPT !.c = c]

LEMMA SetOpen ==
  ASSUME NEW c \in Connection, NEW why \in Faults, NEW z, z = Shut(c, why)
  PROVE  /\ z \in Connection /\ ~z.open
         /\ z.mode = c.mode /\ z.kex_state = c.kex_state /\ z.sent = c.sent
         /\ z.kexinits = c.kexinits /\ (z.dh <=> c.dh) /\ z.newkeys = c.newkeys
         /\ z.send_keys = c.send_keys /\ z.rec_keys = c.rec_keys
         /\ (z.established <=> c.established) /\ (z.service <=> c.service)
  BY DEF Connection, Faults, Shut

LEMMA SetState ==
  ASSUME NEW c \in Connection, NEW ks \in {"INIT", "IGNORE", "IN_PROGRESS"}, NEW z,
         z = InState(c, ks)
  PROVE  /\ z \in Connection /\ z.kex_state = ks
         /\ z.mode = c.mode /\ (z.open <=> c.open) /\ z.sent = c.sent
         /\ z.kexinits = c.kexinits /\ (z.dh <=> c.dh) /\ z.newkeys = c.newkeys
         /\ z.send_keys = c.send_keys /\ z.rec_keys = c.rec_keys
         /\ (z.established <=> c.established) /\ (z.service <=> c.service)
  BY DEF Connection, InState

LEMMA SetDhOn ==
  ASSUME NEW c \in Connection, NEW z, z = DhOn(c)
  PROVE  /\ z \in Connection /\ z.dh
         /\ z.mode = c.mode /\ (z.open <=> c.open) /\ z.sent = c.sent
         /\ z.kexinits = c.kexinits /\ z.kex_state = c.kex_state /\ z.newkeys = c.newkeys
         /\ z.send_keys = c.send_keys /\ z.rec_keys = c.rec_keys
         /\ (z.established <=> c.established) /\ (z.service <=> c.service)
  BY DEF Connection, DhOn

LEMMA SetDhOff ==
  ASSUME NEW c \in Connection, NEW z, z = DhOff(c)
  PROVE  /\ z \in Connection /\ ~z.dh
         /\ z.mode = c.mode /\ (z.open <=> c.open) /\ z.sent = c.sent
         /\ z.kexinits = c.kexinits /\ z.kex_state = c.kex_state /\ z.newkeys = c.newkeys
         /\ z.send_keys = c.send_keys /\ z.rec_keys = c.rec_keys
         /\ (z.established <=> c.established) /\ (z.service <=> c.service)
  BY DEF Connection, DhOff

LEMMA SetKexinits ==
  ASSUME NEW c \in Connection, NEW f \in Kexinits, NEW n \in 0 .. MaxExchanges, NEW z,
         z = Holding(c, n, f)
  PROVE  /\ z \in Connection /\ z.kexinits = f /\ z.sent = n
         /\ z.mode = c.mode /\ (z.open <=> c.open)
         /\ (z.dh <=> c.dh) /\ z.kex_state = c.kex_state /\ z.newkeys = c.newkeys
         /\ z.send_keys = c.send_keys /\ z.rec_keys = c.rec_keys
         /\ (z.established <=> c.established) /\ (z.service <=> c.service)
  BY DEF Connection, Holding

LEMMA NotedType ==
  ASSUME NEW f \in Kexinits, NEW e \in Ends, NEW n \in 0 .. MaxExchanges
  PROVE  /\ Noted(f, e, n) \in Kexinits
         /\ Noted(f, e, n)[e] = n
         /\ \A d \in Ends \ {e} : Noted(f, e, n)[d] = f[d]
  BY DEF Noted, Kexinits

(* An act whose connection is changed.                                     *)
LEMMA ChangedAct ==
  ASSUME NEW x \in Act
  PROVE  /\ x.c \in Connection /\ x.out \in Seq(Packet)
         /\ \A z \in Connection :
              Put(x, z) \in Act /\ Put(x, z).c = z /\ Put(x, z).out = x.out
  BY DEF Act, Put

LEMMA FailAct ==
  ASSUME NEW x \in Act, NEW why \in Faults, NEW z, z = Fail(x, why)
  PROVE  /\ z \in Act /\ z.c \in Connection /\ ~z.c.open
         /\ z.c.mode = x.c.mode /\ z.c.kex_state = x.c.kex_state /\ z.c.sent = x.c.sent
         /\ z.c.kexinits = x.c.kexinits /\ (z.c.dh <=> x.c.dh) /\ z.c.send_keys = x.c.send_keys
         /\ (z.c.established <=> x.c.established) /\ (z.c.service <=> x.c.service)
         /\ \E m \in Packet :
              /\ m.type = "DISCONNECT" /\ m.key = x.c.send_keys
              /\ z.out = Append(x.out, m)
<1> DEFINE n == Message("DISCONNECT")
           y == Write(x, n)
           m == [n EXCEPT !.key = x.c.send_keys]
<1>1. n \in Packet /\ n.type = "DISCONNECT"
  BY MessageType DEF PacketTypes
<1>2. /\ y \in Act /\ y.c = x.c /\ y.out = Append(x.out, m)
      /\ m \in Packet /\ m.key = x.c.send_keys /\ m.type = n.type
  BY <1>1, WriteAct
<1> DEFINE k == Shut(y.c, why)
<1>3. z = Put(y, k)
  <2>1. z = [y EXCEPT !.c.open = FALSE, !.c.fault = why]
    BY DEF Fail
  <2> HIDE DEF y
  <2> QED
    BY <2>1, <1>2 DEF Shut, Put, Act, Connection
<1> HIDE DEF n, y, m
<1>4. y.c \in Connection
  BY <1>2, ChangedAct
<1> HIDE DEF k
<1>5. /\ k \in Connection /\ ~k.open
      /\ k.mode = y.c.mode /\ k.kex_state = y.c.kex_state /\ k.sent = y.c.sent
      /\ k.kexinits = y.c.kexinits /\ (k.dh <=> y.c.dh) /\ k.send_keys = y.c.send_keys
      /\ (k.established <=> y.c.established) /\ (k.service <=> y.c.service)
  BY <1>4, SetOpen DEF k
<1>6. z \in Act /\ z.c = k /\ z.out = y.out
  BY <1>2, <1>3, <1>5, ChangedAct
<1> QED
  BY <1>1, <1>2, <1>5, <1>6

(* out is old with a KEXINIT behind it, and a guess if it announces one.   *)
AsksBehind(out, old, key) ==
  \E m \in Packet, rest \in Seq(Packet) :
    /\ m.type = "KEXINIT" /\ m.key = key
    /\ Plain(rest, key)
    /\ m.follows => rest # <<>> /\ rest[1].type = "GUESS"
    /\ out = Append(old, m) \o rest

LEMMA InitiateAct ==
  ASSUME NEW x \in Act, NEW follows \in BOOLEAN, x.c.sent < MaxExchanges,
         NEW i, i = initiate_keyexchange(x, follows)
  PROVE  /\ i \in Act /\ i.c \in Connection
         /\ i.c.sent = x.c.sent + 1
         /\ i.c.kexinits = Noted(x.c.kexinits, x.c.mode, x.c.sent + 1)
         /\ i.c.mode = x.c.mode /\ (i.c.open <=> x.c.open)
         /\ (i.c.dh <=> x.c.dh) /\ i.c.kex_state = x.c.kex_state /\ i.c.newkeys = x.c.newkeys
         /\ i.c.send_keys = x.c.send_keys /\ i.c.rec_keys = x.c.rec_keys
         /\ (i.c.established <=> x.c.established) /\ (i.c.service <=> x.c.service)
         /\ AsksBehind(i.out, x.out, x.c.send_keys)
<1> DEFINE n == x.c.sent + 1
           kex == [None EXCEPT ![x.c.mode] = n]
           f == Noted(x.c.kexinits, x.c.mode, n)
           k == Holding(x.c, n, f)
           x1 == [x EXCEPT !.c.sent = n, !.c.kexinits[x.c.mode] = n]
           m1 == [Message("KEXINIT") EXCEPT !.kex = kex, !.follows = follows]
           g1 == Message("GUESS")
           y == Write(x1, m1)
           z == Write(y, g1)
           m == [m1 EXCEPT !.key = x1.c.send_keys]
           g == [g1 EXCEPT !.key = y.c.send_keys]
<1>1. i = IF follows THEN z ELSE y
  BY DEF initiate_keyexchange
<1>2. n \in 0 .. MaxExchanges /\ x.c \in Connection /\ x.out \in Seq(Packet) /\ x.c.mode \in Ends
  BY ExchangesAssumption DEF Act, Connection
<1>3. kex \in Kexinits
  BY <1>2, NoneType DEF Kexinits
<1>4. m1 \in Packet /\ m1.type = "KEXINIT" /\ m1.follows = follows
  BY <1>3, MessageType, ZenonT(40) DEF PacketTypes, Packet
<1>5. g1 \in Packet /\ g1.type = "GUESS"
  BY MessageType DEF PacketTypes
<1>6. f \in Kexinits
  BY <1>2, NotedType DEF Connection
<1>7. x1 = Put(x, k)
  BY <1>2 DEF Put, Holding, Noted, Act, Connection
<1> HIDE DEF n, kex, m1, g1, x1, f, k
<1>8. /\ k \in Connection /\ k.kexinits = f /\ k.sent = n
      /\ k.mode = x.c.mode /\ (k.open <=> x.c.open)
      /\ (k.dh <=> x.c.dh) /\ k.kex_state = x.c.kex_state /\ k.newkeys = x.c.newkeys
      /\ k.send_keys = x.c.send_keys /\ k.rec_keys = x.c.rec_keys
      /\ (k.established <=> x.c.established) /\ (k.service <=> x.c.service)
  BY <1>2, <1>6, SetKexinits DEF k
<1>9. x1 \in Act /\ x1.c = k /\ x1.out = x.out
  BY <1>7, <1>8, ChangedAct
<1>10. /\ y \in Act /\ y.c = x1.c /\ y.out = Append(x1.out, m)
       /\ m \in Packet /\ m.key = x1.c.send_keys /\ m.type = m1.type
  BY <1>4, <1>9, WriteAct
<1>11. m.follows = follows
  BY <1>4 DEF Packet
<1> HIDE DEF y, m
<1>12. /\ z \in Act /\ z.c = y.c /\ z.out = Append(y.out, g)
       /\ g \in Packet /\ g.key = y.c.send_keys /\ g.type = g1.type
  BY <1>5, <1>10, WriteAct
<1> HIDE DEF z, g
<1>13. /\ i \in Act /\ i.c = k
       /\ i.out = IF follows THEN Append(Append(x.out, m), g) ELSE Append(x.out, m)
  <2>1. CASE follows
    BY <2>1, <1>1, <1>9, <1>10, <1>12
  <2>2. CASE ~follows
    BY <2>2, <1>1, <1>9, <1>10
  <2> QED
    BY <2>1, <2>2
<1>14. /\ m \in Packet /\ m.type = "KEXINIT" /\ m.key = x.c.send_keys /\ m.follows = follows
       /\ g \in Packet /\ g.type = "GUESS" /\ g.key = x.c.send_keys
  BY <1>4, <1>5, <1>8, <1>9, <1>10, <1>11, <1>12
<1>15. \E rest \in Seq(Packet) :
         /\ Plain(rest, x.c.send_keys)
         /\ m.follows => rest # <<>> /\ rest[1].type = "GUESS"
         /\ i.out = Append(x.out, m) \o rest
  <2>1. Append(x.out, m) \in Seq(Packet)
    BY <1>2, <1>14, AppendFacts
  <2>2. CASE follows
    <3>1. i.out = Append(x.out, m) \o <<g>> /\ <<g>> \in Seq(Packet)
      <4> DEFINE a == Append(x.out, m)
      <4> HIDE DEF a
      <4>1. Append(a, g) = a \o <<g>>
        BY <2>1, <1>14, AppendIsConcat DEF a
      <4>2. i.out = Append(a, g)
        BY <2>2, <1>13 DEF a
      <4>3. <<g>> \in Seq(Packet)
        BY <1>14
      <4> QED
        BY <4>1, <4>2, <4>3 DEF a
    <3>2. Plain(<<g>>, x.c.send_keys)
      BY <1>14 DEF Plain, KexTypes
    <3> QED
      BY <3>1, <3>2, <1>14
  <2>3. CASE ~follows
    <3>1. i.out = Append(x.out, m) \o <<>> /\ <<>> \in Seq(Packet)
      BY <2>1, <2>3, <1>13
    <3>2. Plain(<<>>, x.c.send_keys) /\ ~m.follows
      BY <1>14, <2>3 DEF Plain
    <3> QED
      BY <3>1, <3>2
  <2> QED
    BY <2>2, <2>3
<1>16. AsksBehind(i.out, x.out, x.c.send_keys)
  BY <1>14, <1>15 DEF AsksBehind
<1> QED
  BY <1>8, <1>13, <1>16 DEF n, f

(* out is old with NEWKEYS behind it, and then packets with the new keys.   *)
ChangesBehind(out, old, key, new) ==
  \E b \in Packet, rest \in Seq(Packet) :
    /\ b.type = "NEWKEYS" /\ b.key = key
    /\ Plain(rest, new)
    /\ out = Append(old, b) \o rest

LEMMA FinishAct ==
  ASSUME NEW x \in Act, NEW y, y = keyexchange_finish(x)
  PROVE  /\ y \in Act
         /\ y.c.mode = x.c.mode /\ y.c.sent = x.c.sent /\ (y.c.dh <=> x.c.dh)
         /\ (y.c.open <=> x.c.open) /\ y.c.rec_keys = x.c.rec_keys
         /\ y.c.kex_state = "NEWKEYS"
         /\ y.c.newkeys = x.c.kexinits /\ y.c.send_keys = x.c.kexinits
         /\ y.c.established
         /\ y.c.service => x.c.service \/ ~x.c.established
         /\ ChangesBehind(y.out, x.out, x.c.send_keys, x.c.kexinits)
<1> DEFINE n == Message("NEWKEYS")
           g == Message("DEBUG")
           q == Message("SERVICE_REQUEST")
           w == Write(x, n)
           k == [w EXCEPT !.c.newkeys = x.c.kexinits, !.c.send_keys = x.c.kexinits,
                          !.c.kex_state = "NEWKEYS"]
           t == Write(k, g)
           u == [t EXCEPT !.c.established = TRUE, !.c.service = TRUE]
           v == Write(u, q)
           b == [n EXCEPT !.key = x.c.send_keys]
           d == [g EXCEPT !.key = k.c.send_keys]
           s == [q EXCEPT !.key = u.c.send_keys]
<1>1. keyexchange_finish(x) =
        IF t.c.established THEN t ELSE IF t.c.mode = "client" THEN v ELSE u
  BY DEF keyexchange_finish, Established
<1>2. /\ n \in Packet /\ n.type = "NEWKEYS"
      /\ g \in Packet /\ g.type = "DEBUG"
      /\ q \in Packet /\ q.type = "SERVICE_REQUEST"
  BY MessageType DEF PacketTypes
<1>3. x.c \in Connection /\ x.out \in Seq(Packet) /\ x.c.kexinits \in Kexinits
  BY DEF Act, Connection
<1> HIDE DEF n, g, q
<1>4. /\ w \in Act /\ w.c = x.c /\ w.out = Append(x.out, b)
      /\ b \in Packet /\ b.key = x.c.send_keys /\ b.type = "NEWKEYS"
  BY <1>2, WriteAct
<1> HIDE DEF w, b
<1>5. /\ k \in Act
      /\ k.c = [x.c EXCEPT !.newkeys = x.c.kexinits, !.send_keys = x.c.kexinits,
                           !.kex_state = "NEWKEYS"]
      /\ k.c.send_keys = x.c.kexinits
      /\ k.out = Append(x.out, b)
  BY <1>3, <1>4 DEF Act, Connection
<1> HIDE DEF k
<1>6. /\ t \in Act /\ t.c = k.c /\ t.out = Append(k.out, d)
      /\ d \in Packet /\ d.key = x.c.kexinits /\ d.type = "DEBUG"
  BY <1>2, <1>5, WriteAct
<1> HIDE DEF t, d
<1>7. /\ u \in Act
      /\ u.c = [k.c EXCEPT !.established = TRUE, !.service = TRUE]
      /\ u.c.send_keys = x.c.kexinits
      /\ u.out = t.out
  BY <1>5, <1>6 DEF Act, Connection
<1> HIDE DEF u
<1>8. /\ v \in Act /\ v.c = u.c /\ v.out = Append(u.out, s)
      /\ s \in Packet /\ s.key = x.c.kexinits /\ s.type = "SERVICE_REQUEST"
  BY <1>2, <1>7, WriteAct
<1> HIDE DEF v, s
<1>9. Append(x.out, b) \in Seq(Packet)
  BY <1>3, <1>4, AppendFacts
<1>10. t.out = Append(x.out, b) \o <<d>> /\ <<d>> \in Seq(Packet)
  BY <1>5, <1>6, <1>9, AppendIsConcat
<1>11. v.out = Append(x.out, b) \o Append(<<d>>, s) /\ Append(<<d>>, s) \in Seq(Packet)
  BY <1>7, <1>8, <1>9, <1>10, ConcAppend, AppendFacts
<1>12. Plain(<<d>>, x.c.kexinits) /\ Plain(Append(<<d>>, s), x.c.kexinits)
  <2>1. Plain(<<d>>, x.c.kexinits)
    BY <1>6 DEF Plain, KexTypes
  <2>2. /\ Len(Append(<<d>>, s)) = 2
        /\ Append(<<d>>, s)[1] = d
        /\ Append(<<d>>, s)[2] = s
    BY <1>6, <1>8, <1>10, AppendFacts
  <2>3. \A i \in 1 .. 2 : i = 1 \/ i = 2
    OBVIOUS
  <2> QED
    BY <2>1, <2>2, <2>3, <1>6, <1>8 DEF Plain, KexTypes
<1>13. y = IF t.c.established THEN t ELSE IF t.c.mode = "client" THEN v ELSE u
  BY <1>1
<1>14. y \in Act /\ y.c \in {t.c, u.c} /\ (y.c = t.c => t.c.established \/ t.c = u.c)
  BY <1>13, <1>6, <1>7, <1>8
<1>15. /\ k.c.mode = x.c.mode /\ k.c.sent = x.c.sent /\ (k.c.dh <=> x.c.dh)
       /\ (k.c.open <=> x.c.open) /\ k.c.rec_keys = x.c.rec_keys
       /\ k.c.kex_state = "NEWKEYS"
       /\ k.c.newkeys = x.c.kexinits /\ k.c.send_keys = x.c.kexinits
       /\ (k.c.established <=> x.c.established) /\ (k.c.service <=> x.c.service)
  BY <1>3, <1>5 DEF Connection
<1>16. k.c \in Connection
  BY <1>5 DEF Act
<1>17. /\ u.c.mode = x.c.mode /\ u.c.sent = x.c.sent /\ (u.c.dh <=> x.c.dh)
       /\ (u.c.open <=> x.c.open) /\ u.c.rec_keys = x.c.rec_keys
       /\ u.c.kex_state = "NEWKEYS"
       /\ u.c.newkeys = x.c.kexinits /\ u.c.send_keys = x.c.kexinits
       /\ u.c.established
  BY <1>7, <1>15, <1>16 DEF Connection
<1>18. /\ y.c.mode = x.c.mode /\ y.c.sent = x.c.sent /\ (y.c.dh <=> x.c.dh)
       /\ (y.c.open <=> x.c.open) /\ y.c.rec_keys = x.c.rec_keys
       /\ y.c.kex_state = "NEWKEYS"
       /\ y.c.newkeys = x.c.kexinits /\ y.c.send_keys = x.c.kexinits
  BY <1>6, <1>14, <1>15, <1>17
<1>19. y.c.established /\ (y.c.service => x.c.service \/ ~x.c.established)
  <2>1. CASE t.c.established
    BY <2>1, <1>6, <1>13, <1>15
  <2>2. CASE ~t.c.established
    BY <2>2, <1>6, <1>8, <1>13, <1>15, <1>17
  <2> QED
    BY <2>1, <2>2
<1>20. \E rest \in Seq(Packet) :
         Plain(rest, x.c.kexinits) /\ y.out = Append(x.out, b) \o rest
  BY <1>7, <1>10, <1>11, <1>12, <1>13
<1>21. ChangesBehind(y.out, x.out, x.c.send_keys, x.c.kexinits)
  BY <1>4, <1>20 DEF ChangesBehind
<1> QED
  BY <1>14, <1>18, <1>19, <1>21

-----------------------------------------------------------------------------
(* The handlers of the exchange keep the two ends together.                *)

(* do_handle_kexinit                                                       *)
LEMMA HandlesKexinit ==
  ASSUME NEW e \in Ends, NEW c \in Connection, NEW d \in Connection,
         NEW q \in Seq(Packet), NEW r \in Seq(Packet),
         NEW off \in {"same", "other", "none"},
         Both(e, c, d, q, r), c.open, c.sent > 0, c.kex_state = "INIT",
         q # <<>>, Head(q).type = "KEXINIT",
         NEW x, x = do_handle_kexinit(Begin(c), Head(q), off)
  PROVE  /\ x \in Act
         /\ Both(e, x.c, d, Tail(q), r \o x.out)
         /\ (x.c.service <=> c.service) /\ (x.c.established <=> c.established)
<1> DEFINE m == Head(q)
           x0 == Begin(c)
           p == Peer(x0.c.mode)
           got == [x0 EXCEPT !.c.kexinits[p] = m.kex[p]]
           both == IF x0.c.kexinits[x0.c.mode] # 0 THEN got ELSE initiate_keyexchange(got, FALSE)
           chosen == CASE off = "same"              -> [both EXCEPT !.c.kex_state = "IN_PROGRESS"]
                       [] off # "same" /\ m.follows   -> [both EXCEPT !.c.kex_state = "IGNORE"]
                       [] off # "same" /\ ~m.follows  -> both
           f == Noted(c.kexinits, p, m.kex[p])
           g == Holding(c, c.sent, f)
<1>1. x0 \in Act /\ x0.c = c /\ x0.out = <<>>
  BY BeginAct
<1>2. x = IF x0.c.kex_state # "INIT" THEN Fail(x0, "protocol")
          ELSE IF off = "none" THEN Fail(chosen, "kex_failed") ELSE KEYEXCHANGE_INIT(chosen)
  BY DEF do_handle_kexinit
<1> HIDE DEF m, x0
<1>3. x = IF off = "none" THEN Fail(chosen, "kex_failed") ELSE KEYEXCHANGE_INIT(chosen)
  BY <1>1, <1>2
<1>4. c.mode = e /\ p = Peer(e) /\ p \in Ends /\ p # e
  BY <1>1, PeerFacts DEF Both
<1> HIDE DEF p
<1>5. m \in Packet /\ m.kex[p] \in 0 .. MaxExchanges /\ m.follows \in BOOLEAN
  <2>1. m \in Packet
    BY TailFacts DEF m
  <2> QED
    BY <2>1, <1>4 DEF Packet, Kexinits
<1>6. f \in Kexinits /\ f[e] = c.kexinits[e]
  <2>1. c.kexinits \in Kexinits
    BY DEF Connection
  <2>2. e \in Ends \ {p}
    BY <1>4
  <2> QED
    BY <1>4, <1>5, <2>1, <2>2, NotedType
<1>7. got = Put(x0, g)
  BY <1>1 DEF Put, Holding, Noted, Connection, Act
<1>8. c.sent \in 0 .. MaxExchanges
  BY DEF Connection
<1> HIDE DEF f, g
<1>9. /\ g \in Connection /\ g.kexinits = f /\ g.sent = c.sent
      /\ g.mode = e /\ (g.open <=> c.open)
      /\ (g.dh <=> c.dh) /\ g.kex_state = c.kex_state /\ g.newkeys = c.newkeys
      /\ g.send_keys = c.send_keys /\ g.rec_keys = c.rec_keys
      /\ (g.established <=> c.established) /\ (g.service <=> c.service)
  BY <1>4, <1>6, <1>8, SetKexinits DEF g
<1>10. got \in Act /\ got.c = g /\ got.out = <<>>
  <2>1. g \in Connection
    BY <1>9
  <2>2. Put(x0, g) \in Act /\ Put(x0, g).c = g /\ Put(x0, g).out = x0.out
    BY <1>1, <2>1, ChangedAct
  <2> HIDE DEF got
  <2> QED
    BY <2>2, <1>7, <1>1
<1> HIDE DEF got
(* From here on it is as if e had written its KEXINIT before: c1 and r1.   *)
<1>11. \E c1 \in Connection, r1 \in Seq(Packet) :
         /\ Both(e, c1, d, q, r1) /\ Phase(c1) = "asked" /\ c1.open
         /\ c1.sent > 0
         /\ both \in Act
         /\ both.c.open /\ both.c.mode = e /\ both.c.sent = c1.sent
         /\ both.c.kexinits[e] # 0 /\ ~both.c.dh /\ both.c.kex_state = "INIT"
         /\ both.c.newkeys = c1.newkeys /\ both.c.send_keys = c1.send_keys
         /\ both.c.rec_keys = c1.rec_keys
         /\ (both.c.service <=> c.service) /\ (both.c.established <=> c.established)
         /\ r \o both.out = r1
  <2>1. "KEXINIT" \in Expected(e, Phase(c), Phase(d))
    BY TailFacts DEF Both, Reader, Stream, KexTypes
  <2>2. Phase(c) \in {"idle", "asked"} /\ ~c.dh
    <3>1. Phase(c) # "keyed"
      BY DEF Phase
    <3>2. Phase(c) # "dh"
      BY <2>1, PhaseType DEF Expected, Phases
    <3> QED
      BY <3>1, <3>2, PhaseType DEF Phase, Phases
  <2>3. CASE c.kexinits[e] # 0
    <3>1. Phase(c) = "asked"
      BY <2>2, <2>3, <1>4 DEF Phase
    <3>2. both = got /\ r \o both.out = r
      BY <2>3, <1>1, <1>4, <1>10
    <3> HIDE DEF both
    <3> QED
      BY <2>2, <2>3, <3>1, <3>2, <1>6, <1>9, <1>10
  <2>4. CASE c.kexinits[e] = 0
    <3>1. Phase(c) = "idle"
      BY <2>2, <2>4, <1>4 DEF Phase
    <3>2. Phase(d) \in Phases /\ c.sent \in Nat /\ d.sent \in 0 .. MaxExchanges
      BY PhaseType DEF Connection
    <3>3. Legal(e, "idle", Phase(d)) /\ Counted(e, "idle", Phase(d), c.sent, d.sent)
      BY <3>1 DEF Both
    <3>4. e = "client" /\ Phase(d) = "asked" /\ d.sent = c.sent + 1
      BY <2>1, <3>1, <3>2, <3>3 DEF Legal, Counted, Expected, Phases, Ends
    <3>5. c.sent < MaxExchanges
      BY <3>2, <3>4, ExchangesAssumption
    <3>6. both = initiate_keyexchange(got, FALSE)
      BY <2>4, <1>1, <1>4
    <3> HIDE DEF both
    <3>7. got.c.sent < MaxExchanges
      BY <3>5, <1>9, <1>10
    <3> DEFINE no == FALSE
    <3> HIDE DEF no
    <3>0. no \in BOOLEAN /\ ~no /\ both = initiate_keyexchange(got, no)
      BY <3>6 DEF no
    <3>8. PICK k \in Packet, rest \in Seq(Packet) :
            /\ k.type = "KEXINIT" /\ k.key = got.c.send_keys
            /\ Plain(rest, got.c.send_keys)
            /\ k.follows => rest # <<>> /\ rest[1].type = "GUESS"
            /\ both.out = Append(got.out, k) \o rest
      <4>1. got \in Act
        BY <1>10
      <4>2. AsksBehind(both.out, got.out, got.c.send_keys)
        BY <4>1, <3>0, <3>7, InitiateAct
      <4> QED
        BY <4>2 DEF AsksBehind
    <3>9. /\ both \in Act /\ both.c \in Connection
          /\ both.c.sent = got.c.sent + 1
          /\ both.c.kexinits = Noted(got.c.kexinits, got.c.mode, got.c.sent + 1)
          /\ both.c.mode = got.c.mode /\ (both.c.open <=> got.c.open)
          /\ (both.c.dh <=> got.c.dh) /\ both.c.kex_state = got.c.kex_state
          /\ both.c.newkeys = got.c.newkeys
          /\ both.c.send_keys = got.c.send_keys /\ both.c.rec_keys = got.c.rec_keys
          /\ (both.c.established <=> got.c.established) /\ (both.c.service <=> got.c.service)
      <4>1. got \in Act
        BY <1>10
      <4> QED
        BY <4>1, <3>0, <3>7, InitiateAct
    <3> DEFINE f1 == Noted(c.kexinits, e, c.sent + 1)
               c1 == Holding(c, c.sent + 1, f1)
    <3>10. c.sent + 1 \in 0 .. MaxExchanges
      BY <3>2, <3>5, ExchangesAssumption
    <3>11. f1 \in Kexinits /\ f1[e] # 0
      <4>1. c.kexinits \in Kexinits
        BY DEF Connection
      <4> QED
        BY <4>1, <3>2, <3>10, NotedType
    <3>12. both.c.kexinits[e] # 0
      BY <3>2, <3>9, <3>10, <1>6, <1>9, <1>10, NotedType
    <3> HIDE DEF f1, c1
    <3>13. /\ c1 \in Connection
           /\ (c1.open <=> c.open) /\ c1.mode = c.mode /\ c1.sent = c.sent + 1
           /\ c1.kexinits = f1
           /\ (c1.dh <=> c.dh) /\ c1.kex_state = c.kex_state /\ c1.newkeys = c.newkeys
           /\ c1.send_keys = c.send_keys /\ c1.rec_keys = c.rec_keys
           /\ (c1.service <=> c.service) /\ (c1.established <=> c.established)
      BY <3>10, <3>11, SetKexinits DEF c1
    <3> DEFINE r1 == Append(r, k) \o rest
    <3>14. Phase(c1) = "asked" /\ Both(e, c1, d, q, r1)
      <4>1. /\ k.key = c.send_keys /\ Plain(rest, c.send_keys) /\ k.type = "KEXINIT"
            /\ k.follows => rest # <<>> /\ rest[1].type = "GUESS"
        BY <3>8, <1>9, <1>10
      <4>2. c1.mode = e /\ c1.open /\ c1.kexinits[e] # 0
        BY <3>11, <3>13, <1>4
      <4> QED
        BY <4>1, <4>2, <3>1, <3>4, <3>13, AskKex
    <3>15. r1 \in Seq(Packet)
      BY AppendFacts, ConcFacts
    <3>16. r \o both.out = r1
      <4>1. r \o Append(<<>>, k) = Append(r \o <<>>, k) /\ r \o <<>> = r
        BY ConcAppend
      <4>2. Append(<<>>, k) \in Seq(Packet) /\ both.out = Append(<<>>, k) \o rest
        BY <3>8, <1>10
      <4>3. r \o (Append(<<>>, k) \o rest) = (r \o Append(<<>>, k)) \o rest
        BY <4>2, ConcatAssociative, SMTT(40)
      <4> QED
        BY <4>1, <4>2, <4>3
    <3> HIDE DEF r1
    <3>17. c1.sent > 0
      BY <3>2, <3>13
    <3>18. /\ both.c.open /\ both.c.mode = e /\ both.c.sent = c1.sent
           /\ ~both.c.dh /\ both.c.kex_state = "INIT"
           /\ both.c.newkeys = c1.newkeys /\ both.c.send_keys = c1.send_keys
           /\ both.c.rec_keys = c1.rec_keys
           /\ (both.c.service <=> c.service) /\ (both.c.established <=> c.established)
      BY <2>2, <3>9, <3>13, <1>9, <1>10
    <3>19. Both(e, c1, d, q, r1) /\ c1.open
      BY <3>13, <3>14, <3>15
    <3>20. both \in Act /\ c1 \in Connection /\ r1 \in Seq(Packet) /\ Phase(c1) = "asked"
      BY <3>9, <3>13, <3>14, <3>15
    <3> QED
      BY <3>12, <3>16, <3>17, <3>18, <3>19, <3>20
  <2> QED
    BY <2>3, <2>4
<1> HIDE DEF both
<1>12. PICK c1 \in Connection, r1 \in Seq(Packet) :
         /\ Both(e, c1, d, q, r1) /\ Phase(c1) = "asked" /\ c1.open
         /\ c1.sent > 0
         /\ both \in Act
         /\ both.c.open /\ both.c.mode = e /\ both.c.sent = c1.sent
         /\ both.c.kexinits[e] # 0 /\ ~both.c.dh /\ both.c.kex_state = "INIT"
         /\ both.c.newkeys = c1.newkeys /\ both.c.send_keys = c1.send_keys
         /\ both.c.rec_keys = c1.rec_keys
         /\ (both.c.service <=> c.service) /\ (both.c.established <=> c.established)
         /\ r \o both.out = r1
  BY <1>11
<1>13. /\ both.c \in Connection /\ both.out \in Seq(Packet)
  BY <1>12, ChangedAct
<1>14. \E ks \in {"INIT", "IGNORE", "IN_PROGRESS"} :
         /\ ks = "IGNORE" => m.follows
         /\ chosen = Put(both, InState(both.c, ks))
  <2>1. CASE off = "same"
    BY <2>1 DEF Put, InState
  <2>2. CASE off # "same" /\ m.follows
    BY <2>2 DEF Put, InState
  <2>3. CASE off # "same" /\ ~m.follows
    <3>1. chosen = both
      BY <2>3
    <3>2. both.c = InState(both.c, "INIT")
      BY <1>12, <1>13 DEF Connection, InState
    <3>3. both = Put(both, both.c)
      BY <1>12 DEF Act, Put
    <3> QED
      BY <3>1, <3>2, <3>3
  <2> QED
    BY <2>1, <2>2, <2>3, <1>5
<1> HIDE DEF chosen
<1>15. PICK ks \in {"INIT", "IGNORE", "IN_PROGRESS"} :
         /\ ks = "IGNORE" => m.follows
         /\ chosen = Put(both, InState(both.c, ks))
  BY <1>14
<1> DEFINE k0 == InState(both.c, ks)
<1> HIDE DEF k0
<1>16. /\ k0 \in Connection /\ k0.kex_state = ks
       /\ k0.mode = both.c.mode /\ (k0.open <=> both.c.open) /\ k0.sent = both.c.sent
       /\ k0.kexinits = both.c.kexinits /\ (k0.dh <=> both.c.dh) /\ k0.newkeys = both.c.newkeys
       /\ k0.send_keys = both.c.send_keys /\ k0.rec_keys = both.c.rec_keys
       /\ (k0.established <=> both.c.established) /\ (k0.service <=> both.c.service)
  BY <1>13, SetState DEF k0
<1>17. chosen \in Act /\ chosen.c = k0 /\ chosen.out = both.out
  BY <1>12, <1>15, <1>16, ChangedAct DEF k0
<1>18. CASE off = "none"
  <2>1. x = Fail(chosen, "kex_failed") /\ "kex_failed" \in Faults
    BY <1>3, <1>18 DEF Faults
  <2>2. PICK k \in Packet :
          /\ k.type = "DISCONNECT" /\ k.key = chosen.c.send_keys
          /\ x.out = Append(chosen.out, k)
    BY <2>1, <1>17, FailAct, SMTT(40)
  <2>3. /\ x \in Act /\ x.c \in Connection /\ ~x.c.open
        /\ x.c.mode = chosen.c.mode /\ x.c.kex_state = chosen.c.kex_state
        /\ x.c.sent = chosen.c.sent
        /\ x.c.kexinits = chosen.c.kexinits /\ (x.c.dh <=> chosen.c.dh)
        /\ x.c.send_keys = chosen.c.send_keys
        /\ (x.c.established <=> chosen.c.established) /\ (x.c.service <=> chosen.c.service)
    BY <2>1, <1>17, FailAct
  <2>4. Phase(x.c) = "asked" /\ c1.mode = e
    BY <2>3, <1>12, <1>16, <1>17 DEF Phase, Both
  <2>5. r \o x.out = r1 \o <<k>> /\ <<k>> \in Seq(Packet) /\ Plain(<<k>>, c1.send_keys)
    <3>1. r \o Append(both.out, k) = Append(r \o both.out, k)
      BY <1>13, ConcAppend
    <3>2. Append(r1, k) = r1 \o <<k>>
      BY AppendIsConcat
    <3>3. Plain(<<k>>, c1.send_keys)
      BY <2>2, <1>12, <1>16, <1>17 DEF Plain, KexTypes
    <3>4. x.out = Append(both.out, k) /\ r \o both.out = r1
      BY <2>2, <1>12, <1>17
    <3>5. <<k>> \in Seq(Packet)
      OBVIOUS
    <3> QED
      BY <3>1, <3>2, <3>3, <3>4, <3>5
  <2>6. Tail(q) \in Seq(Packet)
    BY TailFacts
  <2>7. x.c.mode = c1.mode /\ x.c.sent = c1.sent /\ x.c.send_keys = c1.send_keys
        /\ Phase(x.c) = Phase(c1)
    BY <2>3, <2>4, <1>12, <1>16, <1>17
  <2>8. Both(e, x.c, d, Tail(q), r1 \o <<k>>)
    BY <2>3, <2>5, <2>6, <2>7, <1>12, ClosedKex
  <2> QED
    BY <2>3, <2>5, <2>8, <1>12, <1>16, <1>17
<1>19. CASE off # "none"
  <2> DEFINE y == [chosen EXCEPT !.c.dh = TRUE]
             z == DhOn(chosen.c)
             k1 == Message("KEXDH_INIT")
             k == [k1 EXCEPT !.key = y.c.send_keys]
  <2>1. x = IF e = "client" THEN Write(y, k1) ELSE y
    BY <1>3, <1>12, <1>16, <1>17, <1>19 DEF KEYEXCHANGE_INIT
  <2>2. y = Put(chosen, z)
    BY DEF Put, DhOn
  <2>3. k1 \in Packet /\ k1.type = "KEXDH_INIT"
    BY MessageType DEF PacketTypes
  <2> HIDE DEF y, k1, z
  <2>4. /\ z \in Connection /\ z.dh
        /\ z.mode = k0.mode /\ (z.open <=> k0.open) /\ z.sent = k0.sent
        /\ z.kexinits = k0.kexinits /\ z.kex_state = k0.kex_state /\ z.newkeys = k0.newkeys
        /\ z.send_keys = k0.send_keys /\ z.rec_keys = k0.rec_keys
        /\ (z.established <=> k0.established) /\ (z.service <=> k0.service)
    BY <1>16, <1>17, SetDhOn DEF z
  <2>5. y \in Act /\ y.c = z /\ y.out = both.out
    BY <2>2, <2>4, <1>17, ChangedAct
  <2>6. /\ Write(y, k1) \in Act /\ Write(y, k1).c = y.c
        /\ Write(y, k1).out = Append(y.out, k)
        /\ k \in Packet /\ k.key = y.c.send_keys /\ k.type = k1.type
    BY <2>3, <2>5, WriteAct
  <2> HIDE DEF k
  <2>7. /\ x \in Act /\ x.c = z
        /\ x.out = IF e = "client" THEN Append(both.out, k) ELSE both.out
    BY <2>1, <2>5, <2>6
  <2> DEFINE r2 == r \o x.out
  <2>8. r2 = (IF e = "client" THEN Append(r1, k) ELSE r1) /\ r2 \in Seq(Packet)
    <3>1. r \o Append(both.out, k) = Append(r \o both.out, k) /\ Append(r1, k) \in Seq(Packet)
      BY <2>6, <1>13, ConcAppend, AppendFacts, SMTT(40)
    <3> QED
      BY <3>1, <2>7, <1>12
  <2> HIDE DEF r2
  <2>9. k.type = "KEXDH_INIT" /\ k.key = c1.send_keys
    BY <2>3, <2>4, <2>5, <2>6, <1>12, <1>16
  <2>10. x.c.kex_state \in {"INIT", "IN_PROGRESS"} \/ (x.c.kex_state = "IGNORE" /\ Head(q).follows)
    BY <2>4, <2>7, <1>15, <1>16 DEF m
  <2>11. /\ x.c \in Connection /\ x.c.open /\ x.c.mode = e /\ x.c.sent = c1.sent
         /\ x.c.kexinits[e] # 0 /\ x.c.dh
         /\ x.c.newkeys = c1.newkeys /\ x.c.send_keys = c1.send_keys
         /\ x.c.rec_keys = c1.rec_keys
         /\ (x.c.service <=> c.service) /\ (x.c.established <=> c.established)
    BY <2>4, <2>7, <1>12, <1>16
  <2>12. Both(e, x.c, d, Tail(q), r2)
    <3>1. Both(e, c1, d, q, r1) /\ Phase(c1) = "asked" /\ c1.open /\ c1.sent > 0
      BY <1>12
    <3>2. k \in Packet
      BY <2>6
    <3> QED
      BY <3>1, <3>2, <2>8, <2>9, <2>10, <2>11, DhKex, ZenonT(40)
  <2> QED
    BY <2>7, <2>11, <2>12 DEF r2
<1> QED
  BY <1>18, <1>19

-----------------------------------------------------------------------------
LEMMA ConcAssoc ==
  ASSUME NEW q \in Seq(Packet), NEW s \in Seq(Packet), NEW t \in Seq(Packet)
  PROVE  q \o (s \o t) = (q \o s) \o t
  BY ConcatAssociative, SMTT(40)

(* An end gives up.                                                        *)
LEMMA FailedKex ==
  ASSUME NEW e \in Ends, NEW c \in Connection, NEW d \in Connection,
         NEW q \in Seq(Packet), NEW r \in Seq(Packet), NEW q2 \in Seq(Packet),
         NEW why \in Faults, Both(e, c, d, q, r),
         NEW x, x = Fail(Begin(c), why)
  PROVE  /\ x \in Act
         /\ Both(e, x.c, d, q2, r \o x.out)
         /\ (x.c.service <=> c.service) /\ (x.c.established <=> c.established)
<1>1. Begin(c).c = c /\ Quiet(c, Begin(c))
  BY BeginAct
<1>2. Quiet(c, x) /\ ~x.c.open /\ x.c.service = c.service /\ x.c.established = c.established
  BY <1>1, FailQuiet
<1>3. Both(e, x.c, d, q2, r \o x.out)
  BY <1>2, QuietKex
<1> QED
  BY <1>2, <1>3 DEF Quiet

(* The client's half of the Diffie-Hellman exchange: the server answers,   *)
(* and changes its keys behind NEWKEYS.                                    *)
LEMMA HandlesDhInit ==
  ASSUME NEW c \in Connection, NEW d \in Connection,
         NEW q \in Seq(Packet), NEW r \in Seq(Packet),
         Both("server", c, d, q, r), c.open, c.kex_state # "NEWKEYS",
         q # <<>>, Head(q).type = "KEXDH_INIT",
         NEW x, x = do_handle_dh_init(Begin(c))
  PROVE  /\ x \in Act
         /\ Both("server", x.c, d, Tail(q), r \o x.out)
         /\ x.c.service => c.service \/ ~c.established
<1> DEFINE x0 == Begin(c)
           a1 == [Message("KEXDH_REPLY") EXCEPT !.kex = x0.c.kexinits]
           reply == Write(x0, a1)
           y == [reply EXCEPT !.c.dh = FALSE]
           a == [a1 EXCEPT !.key = x0.c.send_keys]
<1>0. Tail(q) \in Seq(Packet) /\ "server" \in Ends
  BY TailFacts DEF Ends
<1>1. CASE ~c.dh
  <2>1. Begin(c).c = c
    BY BeginAct
  <2>2. x = Fail(Begin(c), "protocol") /\ "protocol" \in Faults
    BY <1>1, <2>1 DEF do_handle_dh_init, Faults
  <2> QED
    BY <2>2, <1>0, FailedKex
<1>2. CASE c.dh
  <2>1. x0 \in Act /\ x0.c = c /\ x0.out = <<>>
    BY BeginAct
  <2>2. x = keyexchange_finish(y)
    BY <1>2, <2>1 DEF do_handle_dh_init
  <2>3. a1 \in Packet /\ a1.type = "KEXDH_REPLY" /\ a1.kex = c.kexinits
    <3>1. Message("KEXDH_REPLY") \in Packet /\ Message("KEXDH_REPLY").type = "KEXDH_REPLY"
      BY MessageType DEF PacketTypes
    <3>2. c.kexinits \in Kexinits
      BY DEF Connection
    <3> HIDE DEF x0
    <3> QED
      BY <3>1, <3>2, <2>1 DEF Packet
  <2>4. y = Put(reply, DhOff(reply.c))
    BY DEF Put, DhOff
  <2>5. a.kex = a1.kex
    BY <2>3 DEF Packet
  <2> HIDE DEF a1, x0, y
  <2>6. /\ reply \in Act /\ reply.c = c /\ reply.out = Append(<<>>, a)
        /\ a \in Packet /\ a.key = c.send_keys /\ a.type = "KEXDH_REPLY"
    BY <2>1, <2>3, WriteAct
  <2> DEFINE z == DhOff(c)
  <2> HIDE DEF a, reply, z
  <2>7. /\ z \in Connection /\ ~z.dh
        /\ z.mode = c.mode /\ (z.open <=> c.open) /\ z.sent = c.sent
        /\ z.kexinits = c.kexinits /\ z.send_keys = c.send_keys /\ z.rec_keys = c.rec_keys
        /\ (z.established <=> c.established) /\ (z.service <=> c.service)
    BY SetDhOff DEF z
  <2>8. y \in Act /\ y.c = z /\ y.out = Append(<<>>, a)
    BY <2>4, <2>6, <2>7, ChangedAct DEF z
  <2>9. ChangesBehind(x.out, y.out, y.c.send_keys, y.c.kexinits)
    BY <2>2, <2>8, FinishAct
  <2>10. /\ x \in Act
         /\ x.c.mode = y.c.mode /\ x.c.sent = y.c.sent /\ (x.c.dh <=> y.c.dh)
         /\ (x.c.open <=> y.c.open) /\ x.c.rec_keys = y.c.rec_keys
         /\ x.c.kex_state = "NEWKEYS"
         /\ x.c.newkeys = y.c.kexinits /\ x.c.send_keys = y.c.kexinits
         /\ x.c.service => y.c.service \/ ~y.c.established
    BY <2>2, <2>8, FinishAct
  <2>11. PICK b \in Packet, rest \in Seq(Packet) :
           /\ b.type = "NEWKEYS" /\ b.key = c.send_keys
           /\ Plain(rest, c.kexinits)
           /\ x.out = Append(Append(<<>>, a), b) \o rest
    BY <2>7, <2>8, <2>9 DEF ChangesBehind
  <2>12. Phase(c) = "dh" /\ c.mode = "server"
    BY <1>2 DEF Phase, Both
  <2>13. r \o x.out = Append(Append(r, a), b) \o rest
    <3> DEFINE s == Append(<<>>, a)
    <3>1. s \in Seq(Packet) /\ Append(s, b) \in Seq(Packet)
      BY <2>6
    <3>2. r \o s = Append(r \o <<>>, a) /\ r \o <<>> = r
      BY <2>6, ConcAppend
    <3> HIDE DEF s
    <3>3. r \o Append(s, b) = Append(r \o s, b)
      BY <3>1, ConcAppend
    <3>4. r \o (Append(s, b) \o rest) = (r \o Append(s, b)) \o rest
      BY <3>1, ConcAssoc, ZenonT(40)
    <3>5. x.out = Append(s, b) \o rest
      BY <2>11 DEF s
    <3> QED
      BY <3>2, <3>3, <3>4, <3>5
  <2>14. x.c \in Connection
    BY <2>10, ChangedAct
  <2>15. /\ x.c.open /\ x.c.mode = "server" /\ x.c.sent = c.sent /\ ~x.c.dh
         /\ x.c.newkeys = c.kexinits /\ x.c.send_keys = c.kexinits /\ x.c.rec_keys = c.rec_keys
    BY <2>7, <2>8, <2>10, <2>12
  <2>16. a.kex = c.kexinits
    BY <2>3, <2>5
  <2>17. Both("server", x.c, d, Tail(q), Append(Append(r, a), b) \o rest)
    BY <2>6, <2>10, <2>11, <2>12, <2>14, <2>15, <2>16, ServerKeyed
  <2> QED
    BY <2>7, <2>8, <2>10, <2>13, <2>17
<1> QED
  BY <1>1, <1>2

(* The server's half.                                                      *)
LEMMA HandlesDhReply ==
  ASSUME NEW c \in Connection, NEW d \in Connection,
         NEW q \in Seq(Packet), NEW r \in Seq(Packet), NEW trusted \in BOOLEAN,
         Both("client", c, d, q, r), c.open, c.kex_state # "NEWKEYS",
         q # <<>>, Head(q).type = "KEXDH_REPLY",
         NEW x, x = do_handle_dh_reply(Begin(c), Head(q), trusted)
  PROVE  /\ x \in Act
         /\ Both("client", x.c, d, Tail(q), r \o x.out)
         /\ x.c.service => c.service \/ ~c.established
         /\ c.established => x.c.established
         /\ x.c.service /\ ~x.c.established => c.service /\ ~c.established
<1> DEFINE x0 == Begin(c)
           y == [x0 EXCEPT !.c.dh = FALSE]
<1>0. Tail(q) \in Seq(Packet) /\ "client" \in Ends
  BY TailFacts DEF Ends
<1>1. x0 \in Act /\ x0.c = c /\ x0.out = <<>>
  BY BeginAct
<1>2. \/ \E why \in Faults : x = Fail(x0, why)
      \/ c.dh /\ Head(q).kex = c.kexinits /\ x = keyexchange_finish(y)
  <2>1. \/ ~x0.c.dh /\ x = Fail(x0, "protocol")
        \/ x0.c.dh /\ ~trusted /\ x = Fail(x0, "kex_failed")
        \/ x0.c.dh /\ trusted /\ Head(q).kex # x0.c.kexinits /\ x = Fail(x0, "protocol")
        \/ x0.c.dh /\ trusted /\ Head(q).kex = x0.c.kexinits /\ x = keyexchange_finish(y)
    BY DEF do_handle_dh_reply
  <2> QED
    BY <2>1, <1>1 DEF Faults
<1>3. CASE \E why \in Faults : x = Fail(x0, why)
  BY <1>0, <1>3, FailedKex
<1>4. CASE c.dh /\ Head(q).kex = c.kexinits /\ x = keyexchange_finish(y)
  <2> DEFINE z == DhOff(c)
  <2>4. y = Put(x0, z)
    BY <1>1 DEF Put, DhOff
  <2> HIDE DEF x0, y, z
  <2>7. /\ z \in Connection /\ ~z.dh
        /\ z.mode = c.mode /\ (z.open <=> c.open) /\ z.sent = c.sent
        /\ z.kexinits = c.kexinits /\ z.send_keys = c.send_keys /\ z.rec_keys = c.rec_keys
        /\ (z.established <=> c.established) /\ (z.service <=> c.service)
    BY SetDhOff DEF z
  <2>8. y \in Act /\ y.c = z /\ y.out = <<>>
    BY <2>4, <2>7, <1>1, ChangedAct
  <2>9. ChangesBehind(x.out, y.out, y.c.send_keys, y.c.kexinits)
    BY <1>4, <2>8, FinishAct
  <2>10. /\ x \in Act
         /\ x.c.mode = y.c.mode /\ x.c.sent = y.c.sent /\ (x.c.dh <=> y.c.dh)
         /\ (x.c.open <=> y.c.open) /\ x.c.rec_keys = y.c.rec_keys
         /\ x.c.kex_state = "NEWKEYS"
         /\ x.c.newkeys = y.c.kexinits /\ x.c.send_keys = y.c.kexinits
         /\ x.c.established
         /\ x.c.service => y.c.service \/ ~y.c.established
    BY <1>4, <2>8, FinishAct
  <2>11. PICK b \in Packet, rest \in Seq(Packet) :
           /\ b.type = "NEWKEYS" /\ b.key = c.send_keys
           /\ Plain(rest, c.kexinits)
           /\ x.out = Append(<<>>, b) \o rest
    BY <2>7, <2>8, <2>9 DEF ChangesBehind
  <2>12. Phase(c) = "dh" /\ c.mode = "client"
    BY <1>4 DEF Phase, Both
  <2>13. r \o x.out = Append(r, b) \o rest
    <3> DEFINE s == Append(<<>>, b)
    <3>1. s \in Seq(Packet)
      OBVIOUS
    <3>2. r \o s = Append(r \o <<>>, b) /\ r \o <<>> = r
      BY ConcAppend
    <3> HIDE DEF s
    <3>4. r \o (s \o rest) = (r \o s) \o rest
      BY <3>1, ConcAssoc, SMTT(40)
    <3>5. x.out = s \o rest
      BY <2>11 DEF s
    <3> QED
      BY <3>2, <3>4, <3>5
  <2>14. x.c \in Connection
    BY <2>10, ChangedAct
  <2>15. /\ x.c.open /\ x.c.mode = "client" /\ x.c.sent = c.sent /\ ~x.c.dh
         /\ x.c.newkeys = c.kexinits /\ x.c.send_keys = c.kexinits /\ x.c.rec_keys = c.rec_keys
    BY <2>7, <2>8, <2>10, <2>12
  <2>17. Both("client", x.c, d, Tail(q), Append(r, b) \o rest)
    BY <1>4, <2>10, <2>11, <2>12, <2>14, <2>15, ClientKeyed
  <2> QED
    BY <2>7, <2>8, <2>10, <2>13, <2>17
<1> QED
  BY <1>2, <1>3, <1>4

(* NEWKEYS is read.                                                        *)
Renewed(c) ==
  [c EXCEPT !.rec_keys = c.newkeys, !.newkeys = None, !.kex_state = "INIT", !.kexinits = None]

LEMMA HandlesNewkeys ==
  ASSUME NEW e \in Ends, NEW c \in Connection, NEW d \in Connection,
         NEW q \in Seq(Packet), NEW r \in Seq(Packet),
         Both(e, c, d, q, r), c.open, c.kex_state = "NEWKEYS",
         q # <<>>, Head(q).type = "NEWKEYS",
         NEW x, x = do_handle_newkeys(Begin(c))
  PROVE  /\ x \in Act
         /\ Both(e, x.c, d, Tail(q), r \o x.out)
         /\ (x.c.service <=> c.service) /\ (x.c.established <=> c.established)
<1> DEFINE x0 == Begin(c)
           z == Renewed(c)
<1>1. x0 \in Act /\ x0.c = c /\ x0.out = <<>>
  BY BeginAct
<1>2. x = Put(x0, z)
  BY <1>1 DEF do_handle_newkeys, Put, Renewed
<1>3. c.newkeys \in Kexinits /\ c.mode = e
  BY DEF Connection, Both
<1>4. /\ z \in Connection /\ z.mode = e /\ z.sent = c.sent /\ z.kex_state = "INIT"
      /\ z.kexinits = None /\ z.send_keys = c.send_keys /\ z.rec_keys = c.newkeys
      /\ (z.dh <=> c.dh) /\ (z.open <=> c.open)
      /\ (z.established <=> c.established) /\ (z.service <=> c.service)
  <2>1. z.mode = c.mode /\ z.sent = c.sent /\ z.kex_state = "INIT" /\ z.kexinits = None
        /\ z.send_keys = c.send_keys /\ z.rec_keys = c.newkeys /\ z.newkeys = None
        /\ z.dh = c.dh /\ z.open = c.open /\ z.established = c.established
        /\ z.service = c.service /\ z.fault = c.fault
    BY DEF Connection, Renewed
  <2>2. z \in Connection
    BY <1>3, NoneType DEF Connection, Renewed
  <2> QED
    BY <2>1, <2>2, <1>3
<1> HIDE DEF x0, z
<1>5. x \in Act /\ x.c = z /\ x.out = <<>>
  BY <1>1, <1>2, <1>4, ChangedAct
<1>6. Both(e, z, d, Tail(q), r)
  BY <1>4, NewkeysKex
<1>7. r \o x.out = r
  BY <1>5
<1> QED
  BY <1>4, <1>5, <1>6, <1>7

-----------------------------------------------------------------------------
(* From what one end does to the next state.                               *)

LEMMA FlipBoth ==
  ASSUME NEW e \in Ends, NEW c \in Connection, NEW d \in Connection, NEW q, NEW r,
         Both(e, c, d, q, r)
  PROVE  Both(Peer(e), d, c, r, q)
<1> DEFINE s == Phase(c)
           t == Phase(d)
<1>1. Peer(Peer(e)) = e
  BY PeerFacts
<1>2. c.mode = e /\ d.mode = Peer(e) /\ Legal(e, s, t) /\ Counted(e, s, t, c.sent, d.sent)
      /\ Reader(e, c, d, q) /\ Reader(Peer(e), d, c, r)
  BY DEF Both
<1> HIDE DEF s, t
<1>3. Legal(Peer(e), t, s) /\ Counted(Peer(e), t, s, d.sent, c.sent)
  BY <1>2 DEF Legal, Counted, Peer, Ends
<1> QED
  BY <1>1, <1>2, <1>3 DEF Both, s, t

(* e leaves its packets alone, or reads the first one.                     *)
Takes(e, box) == box = inbox \/ (inbox[e] # <<>> /\ box = Rest(e))

LEMMA TakesFacts ==
  ASSUME TypeOK, NEW e \in Ends, NEW box, Takes(e, box)
  PROVE  /\ box \in [Ends -> Seq(Packet)]
         /\ box[Peer(e)] = inbox[Peer(e)]
<1>1. Peer(e) \in Ends /\ Peer(e) # e /\ inbox \in [Ends -> Seq(Packet)]
  BY PeerFacts DEF TypeOK
<1>2. inbox[e] # <<>> => Tail(inbox[e]) \in Seq(Packet)
  BY <1>1
<1> QED
  BY <1>1, <1>2 DEF Takes, Rest

LEMMA RestFacts ==
  ASSUME TypeOK, NEW e \in Ends, inbox[e] # <<>>
  PROVE  /\ inbox[e] \in Seq(Packet)
         /\ Takes(e, Rest(e))
         /\ Rest(e)[e] = Tail(inbox[e])
         /\ Tail(inbox[e]) \in Seq(Packet)
         /\ Front(e) = Head(inbox[e])
         /\ Front(e) \in Packet
<1>1. inbox \in [Ends -> Seq(Packet)]
  BY DEF TypeOK
<1>2. inbox[e] \in Seq(Packet)
  BY <1>1
<1> QED
  BY <1>1, <1>2 DEF Takes, Rest, Front

LEMMA KexStep ==
  ASSUME TypeOK, NEW e \in Ends, NEW x \in Act, NEW box, Takes(e, box), Done(e, x, box),
         Both(e, x.c, conn[Peer(e)], box[e], inbox[Peer(e)] \o x.out)
  PROVE  /\ conn' \in [Ends -> Connection]
         /\ inbox' \in [Ends -> Seq(Packet)]
         /\ KexInv'
         /\ conn'[e] = x.c
         /\ conn'[Peer(e)] = conn[Peer(e)]
<1> DEFINE p == Peer(e)
<1>1. p \in Ends /\ p # e /\ Peer(p) = e /\ \A f \in Ends : f = e \/ f = p
  BY PeerFacts DEF Ends, Peer
<1>2. conn \in [Ends -> Connection] /\ inbox \in [Ends -> Seq(Packet)]
  BY DEF TypeOK
<1>3. box \in [Ends -> Seq(Packet)] /\ box[p] = inbox[p]
  BY TakesFacts
<1>4. x.c \in Connection /\ x.out \in Seq(Packet)
  BY ChangedAct
<1> HIDE DEF p
<1>5. conn' = [conn EXCEPT ![e] = x.c] /\ inbox' = [box EXCEPT ![p] = @ \o x.out]
  BY DEF Done, p
<1>6. conn' \in [Ends -> Connection] /\ conn'[e] = x.c /\ conn'[p] = conn[p]
  BY <1>1, <1>2, <1>4, <1>5
<1>7. box[p] \o x.out \in Seq(Packet)
  BY <1>1, <1>3, <1>4
<1>8. inbox' \in [Ends -> Seq(Packet)] /\ inbox'[e] = box[e] /\ inbox'[p] = inbox[p] \o x.out
  BY <1>1, <1>3, <1>5, <1>7
<1>9. Both(e, conn'[e], conn'[p], inbox'[e], inbox'[p])
  BY <1>6, <1>8 DEF p
<1>10. conn'[e] \in Connection /\ conn'[p] \in Connection
  BY <1>1, <1>6
<1>11. Both(p, conn'[p], conn'[e], inbox'[p], inbox'[e])
  BY <1>9, <1>10, FlipBoth DEF p
<1>12. \A f \in Ends : Both(f, conn'[f], conn'[Peer(f)], inbox'[f], inbox'[Peer(f)])
  BY <1>1, <1>9, <1>11 DEF p
<1>13. KexInv'
  BY <1>12 DEF KexInv
<1> QED
  BY <1>6, <1>8, <1>13 DEF p

(* The service is offered once.                                            *)
Keeps(c, z) ==
  /\ z.service \/ ~z.established => c.service \/ ~c.established
  /\ z.service /\ ~z.established => c.service /\ ~c.established

(* A step that leaves the client's authentication alone.                   *)
LEMMA ConnStep ==
  ASSUME IInv, NEW e \in Ends, NEW x \in Act, NEW box, Takes(e, box), Done(e, x, box),
         Both(e, x.c, conn[Peer(e)], box[e], inbox[Peer(e)] \o x.out),
         e = "client" => Keeps(conn[e], x.c),
         offers' = offers, advertised' = advertised, client' = client,
         server' \in ServerAuth, talk' \in [Ends -> 0 .. MaxTalk]
  PROVE  IInv'
<1>1. /\ conn' \in [Ends -> Connection]
      /\ inbox' \in [Ends -> Seq(Packet)]
      /\ KexInv'
      /\ conn'[e] = x.c
      /\ conn'[Peer(e)] = conn[Peer(e)]
  <2>1. TypeOK
    BY DEF IInv
  <2> QED
    BY <2>1, KexStep
<1>2. TypeOK'
  BY <1>1 DEF IInv, TypeOK
<1>3. Keeps(conn["client"], conn'["client"])
  BY <1>1 DEF Keeps, Peer, Ends
<1>4. Tried(client')
  BY DEF IInv, AuthInv
<1>5. AuthInv'
  <2>1. conn["client"].service \/ ~conn["client"].established =>
          client.phase = "idle" /\ client.current = 1
    BY DEF IInv, AuthInv
  <2>2. conn'["client"].service => conn'["client"].established
    BY <1>3 DEF Keeps, IInv, AuthInv
  <2>3. conn'["client"].service \/ ~conn'["client"].established =>
          client'.phase = "idle" /\ client'.current = 1
    BY <1>3, <2>1 DEF Keeps
  <2> QED
    BY <1>4, <2>2, <2>3 DEF AuthInv, Tried
<1> QED
  BY <1>1, <1>2, <1>5 DEF IInv

LEMMA KexFacts ==
  ASSUME IInv, NEW e \in Ends
  PROVE  /\ conn[e] \in Connection /\ conn[Peer(e)] \in Connection
         /\ inbox[e] \in Seq(Packet) /\ inbox[Peer(e)] \in Seq(Packet)
         /\ Both(e, conn[e], conn[Peer(e)], inbox[e], inbox[Peer(e)])
         /\ TypeOK
         /\ server \in ServerAuth /\ talk \in [Ends -> 0 .. MaxTalk]
         /\ client \in ClientAuth
         /\ offers \in {"same", "other", "none"}
  BY PeerFacts DEF IInv, KexInv, TypeOK

-----------------------------------------------------------------------------
(* The actions.  First those of the key exchange.                          *)

LEMMA Asks ==
  ASSUME NEW e \in Ends, NEW c \in Connection, NEW d \in Connection,
         NEW q \in Seq(Packet), NEW r \in Seq(Packet), NEW follows \in BOOLEAN,
         Both(e, c, d, q, r), c.open, Phase(c) = "idle", c.sent < MaxExchanges,
         e = "client" => c.sent = 0,
         NEW x, x = initiate_keyexchange(Begin(c), follows)
  PROVE  /\ x \in Act
         /\ Both(e, x.c, d, q, r \o x.out)
         /\ (x.c.service <=> c.service) /\ (x.c.established <=> c.established)
<1> DEFINE x0 == Begin(c)
<1>1. x0 \in Act /\ x0.c = c /\ x0.out = <<>>
  BY BeginAct
<1> HIDE DEF x0
<1>2. x = initiate_keyexchange(x0, follows)
  BY DEF x0
<1>3. /\ x \in Act /\ x.c \in Connection
      /\ x.c.sent = c.sent + 1
      /\ x.c.kexinits = Noted(c.kexinits, c.mode, c.sent + 1)
      /\ x.c.mode = c.mode /\ (x.c.open <=> c.open)
      /\ (x.c.dh <=> c.dh) /\ x.c.kex_state = c.kex_state /\ x.c.newkeys = c.newkeys
      /\ x.c.send_keys = c.send_keys /\ x.c.rec_keys = c.rec_keys
      /\ (x.c.established <=> c.established) /\ (x.c.service <=> c.service)
  BY <1>1, <1>2, InitiateAct
<1>4. AsksBehind(x.out, <<>>, c.send_keys)
  BY <1>1, <1>2, InitiateAct
<1>5. PICK m \in Packet, rest \in Seq(Packet) :
        /\ m.type = "KEXINIT" /\ m.key = c.send_keys
        /\ Plain(rest, c.send_keys)
        /\ m.follows => rest # <<>> /\ rest[1].type = "GUESS"
        /\ x.out = Append(<<>>, m) \o rest
  BY <1>4 DEF AsksBehind
<1>6. c.mode = e /\ c.kexinits \in Kexinits /\ c.sent \in Nat
  BY DEF Both, Connection
<1>7. x.c.kexinits[e] # 0
  <2>1. c.sent + 1 \in 0 .. MaxExchanges /\ c.sent + 1 # 0
    BY <1>6, ExchangesAssumption
  <2>2. Noted(c.kexinits, e, c.sent + 1)[e] = c.sent + 1
    BY <1>6, <2>1, NotedType
  <2> QED
    BY <1>3, <1>6, <2>1, <2>2
<1>8. Both(e, x.c, d, q, Append(r, m) \o rest)
  <2>1. x.c.open /\ x.c.mode = e
    BY <1>3, <1>6
  <2> QED
    BY <1>3, <1>5, <1>7, <2>1, AskKex
<1>9. r \o x.out = Append(r, m) \o rest
  <2> DEFINE s == Append(<<>>, m)
  <2>1. s \in Seq(Packet)
    OBVIOUS
  <2>2. r \o s = Append(r \o <<>>, m) /\ r \o <<>> = r
    BY ConcAppend
  <2> HIDE DEF s
  <2>3. r \o (s \o rest) = (r \o s) \o rest
    BY <2>1, ConcAssoc, ZenonT(40)
  <2>4. x.out = s \o rest
    BY <1>5 DEF s
  <2> QED
    BY <2>2, <2>3, <2>4
<1> QED
  BY <1>3, <1>8, <1>9

LEMMA HandshakeStep ==
  ASSUME IInv, NEW e \in Ends, handshake_command(e)
  PROVE  IInv'
<1>1. PICK follows \in BOOLEAN :
        Done(e, initiate_keyexchange(Begin(conn[e]), follows), inbox)
  BY DEF handshake_command
<1> DEFINE c == conn[e]
           d == conn[Peer(e)]
           x == initiate_keyexchange(Begin(conn[e]), follows)
<1>2. /\ c \in Connection /\ d \in Connection
      /\ inbox[e] \in Seq(Packet) /\ inbox[Peer(e)] \in Seq(Packet)
      /\ Both(e, c, d, inbox[e], inbox[Peer(e)])
      /\ server \in ServerAuth /\ talk \in [Ends -> 0 .. MaxTalk]
  BY KexFacts
<1>3. c.open /\ c.sent = 0 /\ c.sent < MaxExchanges
  BY ExchangesAssumption DEF handshake_command
<1>4. Phase(c) = "idle"
  <2>1. Counted(e, Phase(c), Phase(d), c.sent, d.sent)
    BY <1>2 DEF Both
  <2> QED
    BY <1>3, <2>1 DEF Counted, Ends
<1> HIDE DEF x
<1>5. /\ x \in Act
      /\ Both(e, x.c, d, inbox[e], inbox[Peer(e)] \o x.out)
      /\ (x.c.service <=> c.service) /\ (x.c.established <=> c.established)
  BY <1>2, <1>3, <1>4, Asks DEF x
<1>6. Takes(e, inbox) /\ Done(e, x, inbox) /\ Keeps(c, x.c)
  BY <1>1, <1>5 DEF Takes, x, Keeps
<1>7. /\ offers' = offers /\ advertised' = advertised /\ client' = client
      /\ server' = server /\ talk' = talk
  BY DEF handshake_command
<1> QED
  BY <1>2, <1>5, <1>6, <1>7, ConnStep

LEMMA RekeyStep ==
  ASSUME IInv, Rekey
  PROVE  IInv'
<1> DEFINE e == "server"
           no == FALSE
           c == conn[e]
           d == conn[Peer(e)]
           x == initiate_keyexchange(Begin(c), no)
<1>0. e \in Ends
  BY DEF Ends
<1>1. Done(e, x, inbox) /\ no \in BOOLEAN
  BY DEF Rekey
<1> HIDE DEF no
<1>2. /\ c \in Connection /\ d \in Connection
      /\ inbox[e] \in Seq(Packet) /\ inbox[Peer(e)] \in Seq(Packet)
      /\ Both(e, c, d, inbox[e], inbox[Peer(e)])
      /\ server \in ServerAuth /\ talk \in [Ends -> 0 .. MaxTalk]
  BY <1>0, KexFacts
<1>3. c.open /\ c.sent < MaxExchanges /\ c.kex_state = "INIT" /\ c.kexinits = None
  BY DEF Rekey
<1>4. Phase(c) = "idle"
  <2>1. Local(c, inbox[e]) /\ c.mode = e
    BY <1>2, <1>3 DEF Both, Reader
  <2>2. None[e] = 0
    BY <1>0 DEF None
  <2> QED
    BY <1>3, <2>1, <2>2 DEF Phase, Local
<1> HIDE DEF x
<1>5. /\ x \in Act
      /\ Both(e, x.c, d, inbox[e], inbox[Peer(e)] \o x.out)
  BY <1>0, <1>1, <1>2, <1>3, <1>4, Asks DEF x
<1>6. Takes(e, inbox) /\ e # "client"
  BY DEF Takes
<1>7. /\ offers' = offers /\ advertised' = advertised /\ client' = client
      /\ server' = server /\ talk' = talk
  BY DEF Rekey
<1> QED
  BY <1>0, <1>1, <1>2, <1>5, <1>6, <1>7, ConnStep

LEMMA ReadsFacts ==
  ASSUME IInv, NEW e \in Ends, NEW type, Reads(e, type)
  PROVE  /\ conn[e].open /\ conn[e].sent > 0 /\ inbox[e] # <<>>
         /\ Head(inbox[e]).type = type
         /\ conn[e].kex_state # "IGNORE"
         /\ Accepts(conn[e], type)
         /\ Takes(e, Rest(e))
         /\ Rest(e)[e] = Tail(inbox[e])
         /\ Tail(inbox[e]) \in Seq(Packet)
         /\ Front(e) = Head(inbox[e])
         /\ Front(e) \in Packet
<1>1. inbox[e] # <<>> /\ TypeOK
  BY DEF Reads, CanRead, IInv
<1>2. /\ Takes(e, Rest(e)) /\ Rest(e)[e] = Tail(inbox[e]) /\ Tail(inbox[e]) \in Seq(Packet)
      /\ Front(e) = Head(inbox[e]) /\ Front(e) \in Packet
  BY <1>1, RestFacts
<1> QED
  BY <1>1, <1>2 DEF Reads, CanRead, Passes

LEMMA KexinitStep ==
  ASSUME IInv, NEW e \in Ends, HandleKexinit(e)
  PROVE  IInv'
<1> DEFINE c == conn[e]
           d == conn[Peer(e)]
           x == do_handle_kexinit(Begin(c), Head(inbox[e]), offers)
<1>1. /\ c \in Connection /\ d \in Connection
      /\ inbox[e] \in Seq(Packet) /\ inbox[Peer(e)] \in Seq(Packet)
      /\ Both(e, c, d, inbox[e], inbox[Peer(e)])
      /\ server \in ServerAuth /\ talk \in [Ends -> 0 .. MaxTalk]
      /\ offers \in {"same", "other", "none"}
  BY KexFacts
<1>2. Reads(e, "KEXINIT")
  BY DEF HandleKexinit
<1>3. /\ c.open /\ c.sent > 0 /\ inbox[e] # <<>> /\ Head(inbox[e]).type = "KEXINIT"
      /\ c.kex_state # "IGNORE" /\ Accepts(c, "KEXINIT")
      /\ Takes(e, Rest(e)) /\ Rest(e)[e] = Tail(inbox[e])
      /\ Front(e) = Head(inbox[e])
  BY <1>2, ReadsFacts
<1>4. c.kex_state = "INIT"
  BY <1>1, <1>3 DEF Accepts, Connection
<1>5. Done(e, x, Rest(e))
  BY <1>3 DEF HandleKexinit
<1> HIDE DEF x
<1>6. /\ x \in Act
      /\ Both(e, x.c, d, Tail(inbox[e]), inbox[Peer(e)] \o x.out)
      /\ (x.c.service <=> c.service) /\ (x.c.established <=> c.established)
  BY <1>1, <1>3, <1>4, HandlesKexinit DEF x
<1>7. Both(e, x.c, d, Rest(e)[e], inbox[Peer(e)] \o x.out) /\ Keeps(c, x.c)
  BY <1>3, <1>6 DEF Keeps
<1>8. /\ offers' = offers /\ advertised' = advertised /\ client' = client
      /\ server' = server /\ talk' = talk
  BY DEF HandleKexinit
<1> QED
  BY <1>1, <1>3, <1>5, <1>6, <1>7, <1>8, ConnStep

LEMMA DhInitStep ==
  ASSUME IInv, HandleDhInit
  PROVE  IInv'
<1> DEFINE e == "server"
           c == conn[e]
           d == conn[Peer(e)]
           x == do_handle_dh_init(Begin(c))
<1>0. e \in Ends /\ e # "client"
  BY DEF Ends
<1>1. /\ c \in Connection /\ d \in Connection
      /\ inbox[e] \in Seq(Packet) /\ inbox[Peer(e)] \in Seq(Packet)
      /\ Both(e, c, d, inbox[e], inbox[Peer(e)])
      /\ server \in ServerAuth /\ talk \in [Ends -> 0 .. MaxTalk]
  BY <1>0, KexFacts
<1>2. Reads(e, "KEXDH_INIT")
  BY DEF HandleDhInit
<1>3. /\ c.open /\ inbox[e] # <<>> /\ Head(inbox[e]).type = "KEXDH_INIT"
      /\ c.kex_state # "IGNORE" /\ Accepts(c, "KEXDH_INIT")
      /\ Takes(e, Rest(e)) /\ Rest(e)[e] = Tail(inbox[e])
  BY <1>0, <1>2, ReadsFacts
<1>4. c.kex_state # "NEWKEYS"
  BY <1>3 DEF Accepts
<1>5. Done(e, x, Rest(e))
  BY DEF HandleDhInit
<1> HIDE DEF x
<1>6. /\ x \in Act
      /\ Both("server", x.c, d, Tail(inbox[e]), inbox[Peer(e)] \o x.out)
  BY <1>1, <1>3, <1>4, HandlesDhInit DEF x
<1>7. Both(e, x.c, d, Rest(e)[e], inbox[Peer(e)] \o x.out)
  BY <1>3, <1>6
<1>8. /\ offers' = offers /\ advertised' = advertised /\ client' = client
      /\ server' = server /\ talk' = talk
  BY DEF HandleDhInit
<1> QED
  BY <1>0, <1>1, <1>3, <1>5, <1>6, <1>7, <1>8, ConnStep

LEMMA DhReplyStep ==
  ASSUME IInv, HandleDhReply
  PROVE  IInv'
<1>1. PICK trusted \in BOOLEAN :
        Done("client", do_handle_dh_reply(Begin(conn["client"]), Front("client"), trusted),
             Rest("client"))
  BY DEF HandleDhReply
<1> DEFINE e == "client"
           c == conn[e]
           d == conn[Peer(e)]
           x == do_handle_dh_reply(Begin(c), Head(inbox[e]), trusted)
<1>0. e \in Ends
  BY DEF Ends
<1>2. /\ c \in Connection /\ d \in Connection
      /\ inbox[e] \in Seq(Packet) /\ inbox[Peer(e)] \in Seq(Packet)
      /\ Both(e, c, d, inbox[e], inbox[Peer(e)])
      /\ server \in ServerAuth /\ talk \in [Ends -> 0 .. MaxTalk]
  BY <1>0, KexFacts
<1>3. Reads(e, "KEXDH_REPLY")
  BY DEF HandleDhReply
<1>4. /\ c.open /\ inbox[e] # <<>> /\ Head(inbox[e]).type = "KEXDH_REPLY"
      /\ c.kex_state # "IGNORE" /\ Accepts(c, "KEXDH_REPLY")
      /\ Takes(e, Rest(e)) /\ Rest(e)[e] = Tail(inbox[e])
      /\ Front(e) = Head(inbox[e])
  BY <1>0, <1>3, ReadsFacts
<1>5. c.kex_state # "NEWKEYS"
  BY <1>4 DEF Accepts
<1>6. Done(e, x, Rest(e))
  BY <1>1, <1>4
<1> HIDE DEF x
<1>7. /\ x \in Act
      /\ Both("client", x.c, d, Tail(inbox[e]), inbox[Peer(e)] \o x.out)
      /\ x.c.service => c.service \/ ~c.established
      /\ c.established => x.c.established
      /\ x.c.service /\ ~x.c.established => c.service /\ ~c.established
  BY <1>2, <1>4, <1>5, HandlesDhReply DEF x
<1>8. Both(e, x.c, d, Rest(e)[e], inbox[Peer(e)] \o x.out) /\ Keeps(c, x.c)
  BY <1>4, <1>7 DEF Keeps
<1>9. /\ offers' = offers /\ advertised' = advertised /\ client' = client
      /\ server' = server /\ talk' = talk
  BY DEF HandleDhReply
<1> QED
  BY <1>0, <1>2, <1>4, <1>6, <1>7, <1>8, <1>9, ConnStep

LEMMA NewkeysStep ==
  ASSUME IInv, NEW e \in Ends, HandleNewkeys(e)
  PROVE  IInv'
<1> DEFINE c == conn[e]
           d == conn[Peer(e)]
           x == do_handle_newkeys(Begin(c))
<1>1. /\ c \in Connection /\ d \in Connection
      /\ inbox[e] \in Seq(Packet) /\ inbox[Peer(e)] \in Seq(Packet)
      /\ Both(e, c, d, inbox[e], inbox[Peer(e)])
      /\ server \in ServerAuth /\ talk \in [Ends -> 0 .. MaxTalk]
  BY KexFacts
<1>2. Reads(e, "NEWKEYS")
  BY DEF HandleNewkeys
<1>3. /\ c.open /\ inbox[e] # <<>> /\ Head(inbox[e]).type = "NEWKEYS"
      /\ c.kex_state # "IGNORE" /\ Accepts(c, "NEWKEYS")
      /\ Takes(e, Rest(e)) /\ Rest(e)[e] = Tail(inbox[e])
  BY <1>2, ReadsFacts
<1>4. c.kex_state = "NEWKEYS"
  BY <1>1, <1>3 DEF Accepts, Connection
<1>5. Done(e, x, Rest(e))
  BY DEF HandleNewkeys
<1> HIDE DEF x
<1>6. /\ x \in Act
      /\ Both(e, x.c, d, Tail(inbox[e]), inbox[Peer(e)] \o x.out)
      /\ (x.c.service <=> c.service) /\ (x.c.established <=> c.established)
  BY <1>1, <1>3, <1>4, HandlesNewkeys DEF x
<1>7. Both(e, x.c, d, Rest(e)[e], inbox[Peer(e)] \o x.out) /\ Keeps(c, x.c)
  BY <1>3, <1>6 DEF Keeps
<1>8. /\ offers' = offers /\ advertised' = advertised /\ client' = client
      /\ server' = server /\ talk' = talk
  BY DEF HandleNewkeys
<1> QED
  BY <1>1, <1>3, <1>5, <1>6, <1>7, <1>8, ConnStep

-----------------------------------------------------------------------------
(* The actions that leave the exchange of keys alone.                      *)

(* The packet that e has read is no message of the exchange, or e has given *)
(* up.                                                                     *)
Aside(e, x, box) ==
  \/ box = inbox /\ x.c.kex_state = conn[e].kex_state
  \/ /\ inbox[e] # <<>> /\ box = Rest(e)
     /\ x.c.open => Head(inbox[e]).type \notin KexTypes /\ x.c.kex_state # "IGNORE"

LEMMA QuietStep ==
  ASSUME IInv, NEW e \in Ends, NEW x, NEW box, Quiet(conn[e], x), Aside(e, x, box)
  PROVE  /\ x \in Act /\ Takes(e, box)
         /\ Both(e, x.c, conn[Peer(e)], box[e], inbox[Peer(e)] \o x.out)
<1> DEFINE c == conn[e]
           d == conn[Peer(e)]
           q == inbox[e]
<1>1. /\ c \in Connection /\ d \in Connection
      /\ q \in Seq(Packet) /\ inbox[Peer(e)] \in Seq(Packet)
      /\ Both(e, c, d, q, inbox[Peer(e)]) /\ TypeOK
  BY KexFacts
<1>2. x \in Act
  BY DEF Quiet
<1>3. Takes(e, box)
  BY DEF Aside, Takes
<1>4. box[e] \in Seq(Packet)
  BY <1>1, <1>3, TakesFacts
<1>5. inbox[e] # <<>> => Rest(e)[e] = Tail(inbox[e])
  BY <1>1, RestFacts
<1>6. x.c.open => \/ box[e] = q /\ x.c.kex_state = c.kex_state
                  \/ /\ q # <<>> /\ box[e] = Tail(q) /\ Head(q).type \notin KexTypes
                     /\ x.c.kex_state # "IGNORE"
  BY <1>5 DEF Aside
<1>7. Both(e, x.c, d, box[e], inbox[Peer(e)] \o x.out)
  BY <1>1, <1>4, <1>6, QuietKex
<1> QED
  BY <1>2, <1>3, <1>7

LEMMA TalkStep ==
  ASSUME IInv, NEW e \in Ends, Talk(e)
  PROVE  IInv'
<1> DEFINE c == conn[e]
           m == Message("DATA")
           x == Write(Begin(c), m)
<1>1. c \in Connection /\ server \in ServerAuth /\ talk \in [Ends -> 0 .. MaxTalk]
  BY KexFacts
<1>2. m \in Packet /\ m.type \notin KexTypes
  BY MessageType DEF PacketTypes, KexTypes
<1>3. Quiet(c, Begin(c)) /\ Begin(c).c = c
  BY <1>1, BeginAct
<1>4. Done(e, x, inbox)
  BY DEF Talk
<1> HIDE DEF m
<1>5. Quiet(c, x) /\ x.c = c
  BY <1>2, <1>3, WriteQuiet
<1>6. Aside(e, x, inbox) /\ Keeps(c, x.c)
  BY <1>5 DEF Aside, Keeps
<1> HIDE DEF x
<1>7. /\ x \in Act /\ Takes(e, inbox)
      /\ Both(e, x.c, conn[Peer(e)], inbox[e], inbox[Peer(e)] \o x.out)
  BY <1>5, <1>6, QuietStep
<1>8. talk' \in [Ends -> 0 .. MaxTalk]
  <2>1. talk[e] < MaxTalk /\ talk' = [talk EXCEPT ![e] = @ + 1]
    BY DEF Talk
  <2> QED
    BY <2>1, <1>1, LoginAssumption
<1>9. /\ offers' = offers /\ advertised' = advertised /\ client' = client
      /\ server' = server
  BY DEF Talk
<1> QED
  BY <1>1, <1>4, <1>6, <1>7, <1>8, <1>9, ConnStep

LEMMA SkipStep ==
  ASSUME IInv, NEW e \in Ends, Skip(e)
  PROVE  IInv'
<1> DEFINE c == conn[e]
           ks == "IN_PROGRESS"
           z == InState(c, ks)
           x == [Begin(c) EXCEPT !.c.kex_state = ks]
<1>1. /\ c \in Connection /\ server \in ServerAuth /\ talk \in [Ends -> 0 .. MaxTalk]
      /\ inbox[e] \in Seq(Packet)
      /\ Both(e, c, conn[Peer(e)], inbox[e], inbox[Peer(e)])
  BY KexFacts
<1>2. Begin(c) \in Act /\ Begin(c).c = c /\ Begin(c).out = <<>>
  BY <1>1, BeginAct
<1>3. x = Put(Begin(c), z)
  BY <1>2 DEF Put, InState
<1>4. Done(e, x, Rest(e)) /\ c.kex_state = "IGNORE" /\ c.open /\ inbox[e] # <<>>
  BY DEF Skip, CanRead
<1>5. ks \in {"INIT", "IGNORE", "IN_PROGRESS"} /\ ks # "IGNORE"
  OBVIOUS
<1> HIDE DEF z, x
<1>6. /\ z \in Connection /\ z.kex_state = ks
      /\ z.mode = c.mode /\ (z.open <=> c.open) /\ z.sent = c.sent
      /\ z.kexinits = c.kexinits /\ (z.dh <=> c.dh) /\ z.newkeys = c.newkeys
      /\ z.send_keys = c.send_keys /\ z.rec_keys = c.rec_keys
      /\ (z.established <=> c.established) /\ (z.service <=> c.service)
  BY <1>1, <1>5, SetState DEF z
<1>7. x \in Act /\ x.c = z /\ x.out = <<>>
  BY <1>2, <1>3, <1>6, ChangedAct
<1>8. Quiet(c, x)
  <2>1. z.dh = c.dh
    BY <1>1, <1>6 DEF Connection
  <2>2. Plain(<<>>, c.send_keys)
    BY DEF Plain
  <2> QED
    BY <2>1, <2>2, <1>4, <1>6, <1>7 DEF Quiet
<1>9. Head(inbox[e]).type \notin KexTypes
  <2>1. Local(c, inbox[e])
    BY <1>1, <1>4 DEF Both, Reader
  <2> QED
    BY <2>1, <1>1, <1>4 DEF Local, KexTypes
<1>10. Aside(e, x, Rest(e)) /\ Keeps(c, x.c)
  BY <1>4, <1>5, <1>6, <1>7, <1>9 DEF Aside, Keeps
<1>11. /\ x \in Act /\ Takes(e, Rest(e))
       /\ Both(e, x.c, conn[Peer(e)], Rest(e)[e], inbox[Peer(e)] \o x.out)
  BY <1>8, <1>10, QuietStep
<1>12. /\ offers' = offers /\ advertised' = advertised /\ client' = client
       /\ server' = server /\ talk' = talk
  BY DEF Skip
<1> QED
  BY <1>1, <1>4, <1>10, <1>11, <1>12, ConnStep

(* Fail, with a packet read or without.                                    *)
LEMMA GivesUp ==
  ASSUME IInv, NEW e \in Ends, NEW why \in Faults, NEW x, x = Fail(Begin(conn[e]), why),
         inbox[e] # <<>>
  PROVE  /\ x \in Act /\ Takes(e, Rest(e))
         /\ Both(e, x.c, conn[Peer(e)], Rest(e)[e], inbox[Peer(e)] \o x.out)
         /\ Keeps(conn[e], x.c)
         /\ (x.c.service <=> conn[e].service) /\ (x.c.established <=> conn[e].established)
<1>1. /\ conn[e] \in Connection /\ conn[Peer(e)] \in Connection
      /\ inbox[e] \in Seq(Packet) /\ inbox[Peer(e)] \in Seq(Packet)
      /\ Both(e, conn[e], conn[Peer(e)], inbox[e], inbox[Peer(e)]) /\ TypeOK
  BY KexFacts
<1>2. Takes(e, Rest(e)) /\ Rest(e)[e] \in Seq(Packet)
  BY <1>1, RestFacts
<1>3. /\ x \in Act
      /\ Both(e, x.c, conn[Peer(e)], Rest(e)[e], inbox[Peer(e)] \o x.out)
      /\ (x.c.service <=> conn[e].service) /\ (x.c.established <=> conn[e].established)
  BY <1>1, <1>2, FailedKex
<1> QED
  BY <1>2, <1>3 DEF Keeps

LEMMA RefuseStep ==
  ASSUME IInv, NEW e \in Ends, Refuse(e)
  PROVE  IInv'
<1> DEFINE x == Fail(Begin(conn[e]), "protocol")
<1>1. Done(e, x, Rest(e)) /\ inbox[e] # <<>> /\ "protocol" \in Faults
  BY DEF Refuse, CanRead, Faults
<1> HIDE DEF x
<1>2. /\ x \in Act /\ Takes(e, Rest(e))
      /\ Both(e, x.c, conn[Peer(e)], Rest(e)[e], inbox[Peer(e)] \o x.out)
      /\ Keeps(conn[e], x.c)
  BY <1>1, GivesUp DEF x
<1>3. server \in ServerAuth /\ talk \in [Ends -> 0 .. MaxTalk]
  BY KexFacts
<1>4. /\ offers' = offers /\ advertised' = advertised /\ client' = client
      /\ server' = server /\ talk' = talk
  BY DEF Refuse
<1> QED
  BY <1>1, <1>2, <1>3, <1>4, ConnStep

LEMMA OtherStep ==
  ASSUME IInv, NEW e \in Ends, HandleOther(e)
  PROVE  IInv'
<1> DEFINE c == conn[e]
           x0 == Begin(c)
           z == Shut(c, "disconnected")
           x == IF Front(e).type = "DISCONNECT"
                  THEN [x0 EXCEPT !.c.open = FALSE, !.c.fault = "disconnected"] ELSE x0
<1>1. /\ c \in Connection /\ server \in ServerAuth /\ talk \in [Ends -> 0 .. MaxTalk]
  BY KexFacts
<1>2. PICK type \in {"DISCONNECT", "DEBUG", "DATA"} : Reads(e, type)
  BY DEF HandleOther
<1>3. /\ inbox[e] # <<>> /\ Head(inbox[e]).type = type /\ c.kex_state # "IGNORE"
  BY <1>2, ReadsFacts
<1>4. type \notin KexTypes
  BY DEF KexTypes
<1>5. Done(e, x, Rest(e))
  BY DEF HandleOther
<1>6. x0 \in Act /\ x0.c = c /\ x0.out = <<>> /\ Quiet(c, x0)
  BY <1>1, BeginAct
<1>7. x = x0 \/ x = Put(x0, z)
  <2>1. [x0 EXCEPT !.c.open = FALSE, !.c.fault = "disconnected"] = Put(x0, z)
    BY <1>6 DEF Put, Shut
  <2> QED
    BY <2>1
<1> HIDE DEF z, x0
<1>8. /\ z \in Connection
      /\ ~z.open
      /\ z.mode = c.mode /\ z.kex_state = c.kex_state /\ z.sent = c.sent
      /\ z.kexinits = c.kexinits /\ (z.dh <=> c.dh) /\ z.newkeys = c.newkeys
      /\ z.send_keys = c.send_keys /\ z.rec_keys = c.rec_keys
      /\ (z.established <=> c.established) /\ (z.service <=> c.service)
  <2>1. "disconnected" \in Faults
    BY DEF Faults
  <2> QED
    BY <1>1, <2>1, SetOpen DEF z
<1> HIDE DEF x
<1>9. Quiet(c, x) /\ x.c.kex_state = c.kex_state /\ Keeps(c, x.c)
  <2>1. CASE x = x0
    BY <1>6, <2>1 DEF Keeps
  <2>2. CASE x = Put(x0, z)
    <3>1. x \in Act /\ x.c = z /\ x.out = <<>>
      BY <2>2, <1>6, <1>8, ChangedAct
    <3>2. z.dh = c.dh
      BY <1>1, <1>8 DEF Connection
    <3>3. Plain(<<>>, c.send_keys)
      BY DEF Plain
    <3> QED
      BY <3>1, <3>2, <3>3, <1>8 DEF Quiet, Keeps
  <2> QED
    BY <1>7, <2>1, <2>2
<1>10. Aside(e, x, Rest(e))
  BY <1>3, <1>4, <1>9 DEF Aside
<1>11. /\ x \in Act /\ Takes(e, Rest(e))
       /\ Both(e, x.c, conn[Peer(e)], Rest(e)[e], inbox[Peer(e)] \o x.out)
  BY <1>9, <1>10, QuietStep
<1>12. /\ offers' = offers /\ advertised' = advertised /\ client' = client
       /\ server' = server /\ talk' = talk
  BY DEF HandleOther
<1> QED
  BY <1>1, <1>5, <1>9, <1>11, <1>12, ConnStep

-----------------------------------------------------------------------------
(* The server's side of the service and of the authentication.             *)

(* The server reads a packet that is not about keys, or none.              *)
Calm(e, box) ==
  \/ box = inbox
  \/ /\ inbox[e] # <<>> /\ box = Rest(e)
     /\ Head(inbox[e]).type \notin KexTypes /\ conn[e].kex_state # "IGNORE"

LEMMA ServerStep ==
  ASSUME IInv, NEW x, NEW box, Quiet(conn["server"], x), Calm("server", box),
         x.c.kex_state = conn["server"].kex_state,
         Done("server", x, box),
         offers' = offers, advertised' = advertised, client' = client, talk' = talk,
         server' \in ServerAuth
  PROVE  IInv'
<1>0. "server" \in Ends /\ "server" # "client"
  BY DEF Ends
<1>1. Aside("server", x, box)
  BY DEF Aside, Calm
<1>2. /\ x \in Act /\ Takes("server", box)
      /\ Both("server", x.c, conn[Peer("server")], box["server"], inbox[Peer("server")] \o x.out)
  BY <1>0, <1>1, QuietStep
<1>3. talk \in [Ends -> 0 .. MaxTalk]
  BY <1>0, KexFacts
<1> QED
  BY <1>0, <1>2, <1>3, ConnStep

LEMMA AnswerType ==
  ASSUME NEW t \in PacketTypes \ KexTypes, NEW m \in Packet
  PROVE  Answer(t, m) \in Packet /\ Answer(t, m).type \notin KexTypes
  BY DEF Answer, Packet, PacketTypes

LEMMA RequestType ==
  ASSUME NEW w \in {"", "none", "publickey", "password"}
  PROVE  /\ Request(w) \in Packet /\ Request(w).type \notin KexTypes
         /\ Request(w).type = "USERAUTH_REQUEST"
<1>1. Message("USERAUTH_REQUEST") \in Packet /\ Message("USERAUTH_REQUEST").type = "USERAUTH_REQUEST"
  BY MessageType DEF PacketTypes
<1> QED
  BY <1>1 DEF Request, Packet, KexTypes

LEMMA ReadsCalm ==
  ASSUME IInv, NEW e \in Ends, NEW type, Reads(e, type), type \notin KexTypes
  PROVE  Calm(e, Rest(e)) /\ Front(e) \in Packet /\ inbox[e] # <<>>
  BY ReadsFacts DEF Calm

(* One failure less is left.                                               *)
LEMMA FailureStep ==
  ASSUME IInv, NEW m \in Packet, NEW box, Calm("server", box),
         Failure(Begin(conn["server"]), m, box),
         offers' = offers, advertised' = advertised, client' = client, talk' = talk
  PROVE  IInv'
<1> DEFINE c == conn["server"]
           x0 == Begin(c)
           a == Answer("USERAUTH_FAILURE", m)
<1>0. c \in Connection /\ server \in ServerAuth
  BY KexFacts DEF Ends
<1>1. x0 \in Act /\ x0.c = c /\ Quiet(c, x0)
  BY <1>0, BeginAct
<1>2. CASE server.attempts > 0
  <2>1. Done("server", Write(x0, a), box) /\ server' = [server EXCEPT !.attempts = @ - 1, !.locked = FALSE]
    BY <1>2 DEF Failure
  <2>2. a \in Packet /\ a.type \notin KexTypes
    <3>1. "USERAUTH_FAILURE" \in PacketTypes \ KexTypes
      BY DEF PacketTypes, KexTypes
    <3> QED
      BY <3>1, AnswerType
  <2> HIDE DEF a, x0
  <2>3. Quiet(c, Write(x0, a)) /\ Write(x0, a).c = c
    BY <2>2, <1>1, WriteQuiet
  <2>4. server' \in ServerAuth
    <3>1. server.attempts - 1 \in 0 .. Attempts
      BY <1>0, <1>2, LoginAssumption DEF ServerAuth
    <3> QED
      BY <3>1, <2>1, <1>0 DEF ServerAuth
  <2>5. Write(x0, a).c.kex_state = c.kex_state
    BY <2>3
  <2> QED
    BY <2>1, <2>3, <2>4, <2>5, ServerStep
<1>3. CASE ~(server.attempts > 0)
  <2> DEFINE x == Fail(x0, "denied")
  <2>1. Done("server", x, box) /\ server' = [server EXCEPT !.locked = FALSE]
    BY <1>3 DEF Failure
  <2>2. "denied" \in Faults
    BY DEF Faults
  <2> HIDE DEF x0, x
  <2>3. Quiet(c, x)
    BY <1>1, <2>2, FailQuiet DEF x
  <2>4. x.c.kex_state = c.kex_state
    BY <1>1, <2>2, FailAct DEF x
  <2>5. server' \in ServerAuth
    BY <2>1, <1>0 DEF ServerAuth
  <2> QED
    BY <2>1, <2>3, <2>4, <2>5, ServerStep
<1> QED
  BY <1>2, <1>3

LEMMA SuccessStep ==
  ASSUME IInv, NEW m \in Packet, NEW box, Calm("server", box),
         Success(Begin(conn["server"]), m, box),
         offers' = offers, advertised' = advertised, client' = client, talk' = talk
  PROVE  IInv'
<1> DEFINE c == conn["server"]
           x0 == Begin(c)
           a == Answer("USERAUTH_SUCCESS", m)
<1>0. c \in Connection /\ server \in ServerAuth
  BY KexFacts DEF Ends
<1>1. x0 \in Act /\ x0.c = c /\ Quiet(c, x0)
  BY <1>0, BeginAct
<1>2. /\ Done("server", Write(x0, a), box)
      /\ server' = [server EXCEPT !.handler = "ignore", !.locked = FALSE, !.user = TRUE]
  BY DEF Success
<1>3. a \in Packet /\ a.type \notin KexTypes
  <2>1. "USERAUTH_SUCCESS" \in PacketTypes \ KexTypes
    BY DEF PacketTypes, KexTypes
  <2> QED
    BY <2>1, AnswerType
<1> HIDE DEF a, x0
<1>4. Quiet(c, Write(x0, a)) /\ Write(x0, a).c = c
  BY <1>3, <1>1, WriteQuiet
<1>5. server' \in ServerAuth
  BY <1>2, <1>0 DEF ServerAuth
<1>6. Write(x0, a).c.kex_state = c.kex_state
  BY <1>4
<1> QED
  BY <1>2, <1>4, <1>5, <1>6, ServerStep

(* The service is taken.                                                   *)
Taken(c) == [c EXCEPT !.service = FALSE]

LEMMA TakenQuiet ==
  ASSUME NEW c \in Connection, NEW x, x = [Begin(c) EXCEPT !.c.service = FALSE]
  PROVE  /\ Quiet(c, x) /\ x.c.kex_state = c.kex_state
         /\ ~x.c.service /\ (x.c.established <=> c.established)
<1> DEFINE z == Taken(c)
<1>1. Begin(c) \in Act /\ Begin(c).c = c /\ Begin(c).out = <<>>
  BY BeginAct
<1>2. x = Put(Begin(c), z)
  BY <1>1 DEF Put, Taken
<1>3. /\ z \in Connection /\ ~z.service
      /\ z.mode = c.mode /\ z.open = c.open /\ z.sent = c.sent
      /\ z.kexinits = c.kexinits /\ z.dh = c.dh /\ z.newkeys = c.newkeys
      /\ z.send_keys = c.send_keys /\ z.rec_keys = c.rec_keys
      /\ z.kex_state = c.kex_state /\ z.established = c.established
  BY DEF Taken, Connection
<1> HIDE DEF z
<1>4. x \in Act /\ x.c = z /\ x.out = <<>>
  BY <1>1, <1>2, <1>3, ChangedAct, ZenonT(40)
<1>5. Plain(<<>>, c.send_keys)
  BY DEF Plain
<1> QED
  BY <1>3, <1>4, <1>5 DEF Quiet

LEMMA ServiceStep ==
  ASSUME IInv, do_service_request
  PROVE  IInv'
<1> DEFINE e == "server"
           c == conn[e]
           x0 == Begin(c)
           y == [x0 EXCEPT !.c.service = FALSE]
           m == Message("SERVICE_ACCEPT")
<1>0. e \in Ends /\ "SERVICE_REQUEST" \notin KexTypes
  BY DEF Ends, KexTypes
<1>1. c \in Connection /\ server \in ServerAuth
  BY <1>0, KexFacts
<1>2. x0 \in Act /\ x0.c = c /\ Quiet(c, x0)
  BY <1>1, BeginAct
<1>3. Calm(e, Rest(e)) /\ offers' = offers /\ advertised' = advertised /\ client' = client
      /\ talk' = talk
  BY <1>0, ReadsCalm DEF do_service_request
<1>4. CASE c.service
  <2>1. Done(e, Write(y, m), Rest(e)) /\ server' = [server EXCEPT !.handler = "userauth"]
    BY <1>2, <1>4 DEF do_service_request
  <2>2. m \in Packet /\ m.type \notin KexTypes
    BY MessageType DEF PacketTypes, KexTypes
  <2>3. Quiet(c, y) /\ y.c.kex_state = c.kex_state
    BY <1>1, TakenQuiet
  <2> HIDE DEF y, m
  <2>4. Quiet(c, Write(y, m)) /\ Write(y, m).c = y.c
    BY <2>2, <2>3, WriteQuiet
  <2>5. server' \in ServerAuth
    BY <2>1, <1>1 DEF ServerAuth
  <2>6. Write(y, m).c.kex_state = c.kex_state
    BY <2>3, <2>4
  <2> QED
    BY <2>1, <2>4, <2>5, <2>6, <1>3, ServerStep
<1>5. CASE ~c.service
  <2> DEFINE x == Fail(x0, "protocol")
  <2>1. Done("server", x, Rest(e)) /\ server' = server
    BY <1>2, <1>5 DEF do_service_request
  <2>2. "protocol" \in Faults
    BY DEF Faults
  <2> HIDE DEF x0, x
  <2>3. Quiet(c, x)
    BY <1>2, <2>2, FailQuiet DEF x
  <2>4. x.c.kex_state = c.kex_state
    BY <1>2, <2>2, FailAct DEF x
  <2> QED
    BY <2>1, <2>3, <2>4, <1>1, <1>3, ServerStep
<1> QED
  BY <1>4, <1>5

LEMMA UserauthStep ==
  ASSUME IInv, do_handle_userauth
  PROVE  IInv'
<1> DEFINE e == "server"
           c == conn[e]
           x0 == Begin(c)
           m == Front(e)
           box == Rest(e)
<1>0. e \in Ends /\ "USERAUTH_REQUEST" \notin KexTypes
  BY DEF Ends, KexTypes
<1>1. c \in Connection /\ server \in ServerAuth
  BY <1>0, KexFacts
<1>2. x0 \in Act /\ x0.c = c /\ Quiet(c, x0) /\ x0.c.kex_state = c.kex_state
  BY <1>1, BeginAct
<1>3. Calm(e, box) /\ m \in Packet /\ offers' = offers /\ advertised' = advertised
      /\ client' = client /\ talk' = talk
  BY <1>0, ReadsCalm DEF do_handle_userauth
<1>4. \/ Done(e, x0, box) /\ server' = server
      \/ Done(e, Fail(x0, "protocol"), box) /\ server' = server
      \/ Failure(x0, m, box)
      \/ Done(e, Write(x0, Answer("USERAUTH_PK_OK", m)), box) /\ server' = server
      \/ Success(x0, m, box)
      \/ Done(e, x0, box) /\ server' = [server EXCEPT !.locked = TRUE]
  BY DEF do_handle_userauth
<1> HIDE DEF m, box
<1>5. CASE Done(e, x0, box) /\ server' = server
  <2> HIDE DEF x0
  <2> QED
    BY <1>1, <1>2, <1>3, <1>5, ServerStep
<1>6. CASE Done(e, Fail(x0, "protocol"), box) /\ server' = server
  <2> DEFINE x == Fail(x0, "protocol")
  <2>1. "protocol" \in Faults /\ Done(e, x, box)
    BY <1>6 DEF Faults
  <2> HIDE DEF x0, x
  <2>2. Quiet(c, x) /\ x.c.kex_state = c.kex_state
    BY <1>2, <2>1, FailQuiet, FailAct DEF x
  <2> QED
    BY <2>1, <2>2, <1>1, <1>3, <1>6, ServerStep
<1>7. CASE Failure(x0, m, box)
  BY <1>3, <1>7, FailureStep
<1>8. CASE Done(e, Write(x0, Answer("USERAUTH_PK_OK", m)), box) /\ server' = server
  <2> DEFINE a == Answer("USERAUTH_PK_OK", m)
             x == Write(x0, a)
  <2>1. "USERAUTH_PK_OK" \in PacketTypes \ KexTypes /\ Done(e, x, box)
    BY <1>8 DEF PacketTypes, KexTypes
  <2>2. a \in Packet /\ a.type \notin KexTypes
    BY <2>1, <1>3, AnswerType
  <2> HIDE DEF x0, a
  <2>3. Quiet(c, x) /\ x.c = c
    BY <1>2, <2>2, WriteQuiet
  <2> HIDE DEF x
  <2>4. x.c.kex_state = c.kex_state
    BY <2>3
  <2> QED
    BY <2>1, <2>3, <2>4, <1>1, <1>3, <1>8, ServerStep
<1>9. CASE Success(x0, m, box)
  BY <1>3, <1>9, SuccessStep
<1>10. CASE Done(e, x0, box) /\ server' = [server EXCEPT !.locked = TRUE]
  <2>1. server' \in ServerAuth
    BY <1>1, <1>10 DEF ServerAuth
  <2> HIDE DEF x0
  <2> QED
    BY <2>1, <1>2, <1>3, <1>10, ServerStep
<1> QED
  BY <1>4, <1>5, <1>6, <1>7, <1>8, <1>9, <1>10

LEMMA PasswordStep ==
  ASSUME IInv, PasswordVerified
  PROVE  IInv'
<1> DEFINE m == Request("password")
<1>1. \/ Failure(Begin(conn["server"]), m, inbox)
      \/ Success(Begin(conn["server"]), m, inbox)
  BY DEF PasswordVerified
<1>2. m \in Packet /\ Calm("server", inbox)
  BY RequestType DEF Calm
<1>3. offers' = offers /\ advertised' = advertised /\ client' = client /\ talk' = talk
  BY DEF PasswordVerified
<1> HIDE DEF m
<1> QED
  BY <1>1, <1>2, <1>3, FailureStep, SuccessStep

-----------------------------------------------------------------------------
(* The client's authentication.                                            *)

LEMMA MethodsFacts ==
  /\ Len(Methods) \in {2, 3}
  /\ Methods[1] = "none"
  /\ Len(Methods) = 2 => Methods[2] = "password"
  /\ Len(Methods) = 3 => Methods[2] = "publickey" /\ Methods[3] = "password" /\ NKeys > 0
<1>1. CASE NKeys > 0
  <2>1. Methods = <<"none", "publickey", "password">>
    BY <1>1 DEF Methods
  <2> QED
    BY <2>1, <1>1
<1>2. CASE ~(NKeys > 0)
  <2>1. Methods = <<"none", "password">>
    BY <1>2 DEF Methods
  <2> QED
    BY <2>1
<1> QED
  BY <1>1, <1>2

LEMMA SkipFacts ==
  ASSUME NEW next \in 1 .. Len(Methods) + 1
  PROVE  SkipUseless(next) \in next .. Len(Methods) + 1
<1> DEFINE n == Len(Methods)
           P(i) == (i = n + 1 \/ Useful(i)) /\ \A j \in next .. i - 1 : ~Useful(j)
<1>1. n \in {2, 3}
  BY MethodsFacts
<1> HIDE DEF n
<1>2. \E i \in next .. n + 1 : P(i)
  <2>0. next \in 1 .. n + 1
    BY DEF n
  <2> DEFINE U(i) == i = n + 1 \/ Useful(i)
  <2>1. CASE U(next)
    <3>1. P(next) /\ next \in next .. n + 1
      BY <2>0, <2>1, <1>1
    <3> QED
      BY <3>1
  <2>2. CASE ~U(next) /\ U(next + 1)
    <3>1. P(next + 1) /\ next + 1 \in next .. n + 1
      BY <2>0, <2>2, <1>1
    <3> QED
      BY <3>1
  <2>3. CASE ~U(next) /\ ~U(next + 1) /\ U(next + 2)
    <3>1. next + 2 \in next .. n + 1
      BY <2>0, <2>3, <1>1
    <3>2. \A j \in next .. (next + 2) - 1 : j = next \/ j = next + 1
      BY <2>0, <1>1
    <3>3. P(next + 2)
      BY <3>2, <2>3
    <3> QED
      BY <3>1, <3>3
  <2>4. CASE ~U(next) /\ ~U(next + 1) /\ ~U(next + 2)
    <3>1. n = 3 /\ next = 1 /\ next + 3 \in next .. n + 1
      BY <2>0, <2>4, <1>1
    <3>2. \A j \in next .. (next + 3) - 1 : j = next \/ j = next + 1 \/ j = next + 2
      BY <2>0, <1>1, <3>1
    <3>3. P(next + 3)
      BY <3>1, <3>2, <2>4
    <3> QED
      BY <3>1, <3>3
  <2> QED
    BY <2>1, <2>2, <2>3, <2>4
<1>3. SkipUseless(next) = CHOOSE i \in next .. n + 1 : P(i)
  BY DEF SkipUseless, n
<1> HIDE DEF P
<1>4. (CHOOSE i \in next .. n + 1 : P(i)) \in next .. n + 1
  BY <1>2
<1> QED
  BY <1>3, <1>4 DEF n

(* The connection of a client that has got its service.                    *)
Ready(c, x) ==
  /\ Quiet(c, x)
  /\ x.c.kex_state = c.kex_state
  /\ ~x.c.service
  /\ x.c.established

LEMMA ReadyWrite ==
  ASSUME NEW c, NEW x, NEW m \in Packet, Ready(c, x), m.type \notin KexTypes
  PROVE  Ready(c, Write(x, m))
<1>1. Quiet(c, Write(x, m)) /\ Write(x, m).c = x.c
  BY WriteQuiet DEF Ready
<1> QED
  BY <1>1 DEF Ready

LEMMA ReadyFail ==
  ASSUME NEW c, NEW x, NEW why \in Faults, Ready(c, x)
  PROVE  Ready(c, Fail(x, why))
<1> DEFINE z == Fail(x, why)
<1>0. Quiet(c, x) /\ x \in Act
  BY DEF Ready, Quiet
<1> HIDE DEF z
<1>1. Quiet(c, z)
  BY <1>0, FailQuiet DEF z
<1>2. z.c.kex_state = x.c.kex_state /\ (z.c.established <=> x.c.established)
      /\ (z.c.service <=> x.c.service)
  BY <1>0, FailAct DEF z
<1>3. Ready(c, z)
  BY <1>1, <1>2 DEF Ready
<1> QED
  BY <1>3 DEF z

LEMMA ReadyQueries ==
  ASSUME NEW c, NEW x, Ready(c, x)
  PROVE  Ready(c, Queries(x))
<1> DEFINE rq == Request("publickey")
           f == [k \in 1 .. NKeys |-> [rq EXCEPT !.k = k, !.key = x.c.send_keys]]
           out == x.out \o f
           z == Queries(x)
<1>1. Quiet(c, x) /\ x \in Act /\ x.c \in Connection /\ x.out \in Seq(Packet)
      /\ Plain(x.out, c.send_keys) /\ x.c.send_keys = c.send_keys
  BY ChangedAct DEF Ready, Quiet
<1>2. rq \in Packet /\ rq.type \notin KexTypes
  BY RequestType
<1>3. x.c.send_keys \in Kexinits
  BY <1>1 DEF Connection
<1> HIDE DEF rq
<1>4. ASSUME NEW k \in 1 .. NKeys
      PROVE  /\ f[k] \in Packet
             /\ f[k].type \notin KexTypes
             /\ f[k].key = c.send_keys
  <2>1. k \in Nat
    BY LoginAssumption
  <2>2. f[k] = [rq EXCEPT !.k = k, !.key = x.c.send_keys]
    OBVIOUS
  <2> HIDE DEF f
  <2> QED
    BY <2>1, <2>2, <1>1, <1>2, <1>3 DEF Packet
<1>5. DOMAIN f = 1 .. NKeys /\ f \in [1 .. NKeys -> Packet]
  BY <1>4
<1>6. z = [x EXCEPT !.out = out]
  BY DEF Queries, rq
<1> HIDE DEF f
<1>7. f \in Seq(Packet)
  <2>1. NKeys \in Nat
    BY LoginAssumption
  <2> QED
    BY <1>5, <2>1, SeqDef
<1>8. Plain(f, c.send_keys)
  <2>1. DOMAIN f = 1 .. Len(f)
    BY <1>7, LenProperties
  <2> QED
    BY <2>1, <1>4, <1>5 DEF Plain
<1>9. out \in Seq(Packet) /\ Plain(out, c.send_keys)
  <2>1. /\ out \in Seq(Packet)
        /\ Len(x.out) \in Nat /\ Len(f) \in Nat /\ Len(out) = Len(x.out) + Len(f)
        /\ \A i \in 1 .. Len(x.out) : out[i] = x.out[i]
        /\ \A i \in Len(x.out) + 1 .. Len(x.out) + Len(f) : out[i] = f[i - Len(x.out)]
    BY <1>1, <1>7, ConcFacts
  <2> HIDE DEF out
  <2>2. ASSUME NEW i \in 1 .. Len(out)
        PROVE  out[i].type \notin KexTypes /\ out[i].key = c.send_keys
    <3>1. CASE i \in 1 .. Len(x.out)
      BY <2>1, <3>1, <1>1 DEF Plain
    <3>2. CASE i \notin 1 .. Len(x.out)
      <4>1. i \in Len(x.out) + 1 .. Len(x.out) + Len(f) /\ i - Len(x.out) \in 1 .. Len(f)
        BY <2>1, <3>2
      <4> QED
        BY <4>1, <2>1, <1>8 DEF Plain
    <3> QED
      BY <3>1, <3>2
  <2> QED
    BY <2>1, <2>2 DEF Plain
<1> HIDE DEF out, z
<1>10. z \in Act /\ z.c = x.c /\ z.out = out
  BY <1>1, <1>6, <1>9 DEF Act
<1>11. Quiet(c, z)
  BY <1>1, <1>9, <1>10 DEF Quiet
<1>12. Ready(c, z)
  BY <1>10, <1>11 DEF Ready
<1> QED
  BY <1>12 DEF z

(* The outcomes are all in order.                                          *)
Fine(c, outcomes) ==
  \A o \in outcomes : o.a \in ClientAuth /\ Tried(o.a) /\ Ready(c, o.x)

(* Nothing is asked of the server yet by the current method.               *)
Fresh(a) ==
  /\ a \in ClientAuth
  /\ a.phase = "trying"
  /\ a.current < a.next
  /\ a.pending <= a.done
  /\ ~a.pk_ok
  /\ Methods[a.current] = "none" => a.done = 0 /\ a.pending = 0
  /\ Methods[a.current] = "publickey" => a.done < NKeys
  /\ a.tried_empty = 0

(* The current method has failed.                                          *)
Over(a) ==
  /\ a \in ClientAuth
  /\ a.phase = "trying"
  /\ a.current < a.next
  /\ a.pending <= a.done
  /\ ~a.pk_ok
  /\ Methods[a.current] = "none" => a.done = 0 /\ a.pending = 0
  /\ a.tried_empty > 0 => Methods[a.current] = "password"

LEMMA DeniedFine ==
  ASSUME NEW c, NEW a, NEW x, Over(a), Ready(c, x)
  PROVE  Denied(a, x).a \in ClientAuth /\ Tried(Denied(a, x).a) /\ Ready(c, Denied(a, x).x)
<1> DEFINE b == [a EXCEPT !.phase = "denied"]
<1>1. Denied(a, x) = [a |-> b, x |-> Fail(x, "denied")]
  BY DEF Denied
<1>2. b \in ClientAuth
  BY DEF ClientAuth, Over
<1>3. /\ b.phase = "denied" /\ b.current = a.current /\ b.next = a.next /\ b.done = a.done
      /\ b.pending = a.pending /\ b.pk_ok = a.pk_ok /\ b.tried_empty = a.tried_empty
  BY DEF ClientAuth, Over
<1> HIDE DEF b
<1>4. Tried(b)
  BY <1>3 DEF Tried, Over
<1>5. "denied" \in Faults
  BY DEF Faults
<1>6. Ready(c, Fail(x, "denied"))
  BY <1>5, ReadyFail
<1> QED
  BY <1>1, <1>2, <1>4, <1>6

LEMMA PasswordFine ==
  ASSUME NEW c, NEW a, NEW x, Over(a), Ready(c, x),
         Methods[a.current] = "password", a.tried_empty < 2
  PROVE  Fine(c, send_password(a, x))
<1> DEFINE b == [a EXCEPT !.tried_empty = @ + 1]
           m == Request("password")
           y == Write(x, m)
<1>0. send_password(a, x) = {[a |-> a, x |-> y], [a |-> b, x |-> y], Denied(a, x)}
  BY DEF send_password
<1>1. m \in Packet /\ m.type \notin KexTypes
  BY RequestType
<1> HIDE DEF m
<1>2. Ready(c, y)
  BY <1>1, ReadyWrite
<1>3. a \in ClientAuth /\ Tried(a)
  BY DEF Over, Tried
<1>4. b \in ClientAuth
  BY <1>3 DEF ClientAuth
<1>5. /\ b.phase = a.phase /\ b.current = a.current /\ b.next = a.next /\ b.done = a.done
      /\ b.pending = a.pending /\ b.pk_ok = a.pk_ok
  BY <1>3 DEF ClientAuth
<1> HIDE DEF b, y
<1>6. Tried(b)
  BY <1>5 DEF Tried, Over
<1>7. Denied(a, x).a \in ClientAuth /\ Tried(Denied(a, x).a) /\ Ready(c, Denied(a, x).x)
  BY DeniedFine
<1> QED
  BY <1>0, <1>2, <1>3, <1>4, <1>6, <1>7 DEF Fine

LEMMA StartFine ==
  ASSUME NEW c, NEW a, NEW x, Fresh(a), Ready(c, x)
  PROVE  Fine(c, Start(a, x))
<1>1. a \in ClientAuth /\ a.current \in 1 .. Len(Methods)
  BY DEF Fresh, ClientAuth
<1>2. Methods[a.current] \in {"none", "publickey", "password"}
  BY <1>1, MethodsFacts
<1>3. CASE Methods[a.current] = "none"
  <2> DEFINE m == Request("none")
  <2>1. Start(a, x) = {[a |-> a, x |-> Write(x, m)]}
    BY <1>3 DEF Start
  <2>2. m \in Packet /\ m.type \notin KexTypes
    BY RequestType
  <2> HIDE DEF m
  <2>3. Ready(c, Write(x, m))
    BY <2>2, ReadyWrite
  <2>4. Tried(a)
    BY <1>3 DEF Tried, Fresh
  <2> QED
    BY <2>1, <2>3, <2>4, <1>1 DEF Fine
<1>4. CASE Methods[a.current] = "publickey"
  <2> DEFINE b == [a EXCEPT !.pk_ok = TRUE]
  <2>1. Start(a, x) = {[a |-> b, x |-> Queries(x)]}
    BY <1>4 DEF Start
  <2>2. b \in ClientAuth
    BY <1>1 DEF ClientAuth
  <2>3. /\ b.phase = a.phase /\ b.current = a.current /\ b.next = a.next /\ b.done = a.done
        /\ b.pending = a.pending /\ b.tried_empty = a.tried_empty
    BY <1>1 DEF ClientAuth
  <2> HIDE DEF b
  <2>4. Tried(b)
    BY <1>4, <2>3 DEF Tried, Fresh
  <2>5. Ready(c, Queries(x))
    BY ReadyQueries
  <2> QED
    BY <2>1, <2>2, <2>4, <2>5 DEF Fine
<1>5. CASE Methods[a.current] = "password"
  <2>1. Start(a, x) = send_password(a, x)
    BY <1>5 DEF Start
  <2>2. Over(a) /\ a.tried_empty < 2
    BY DEF Fresh, Over
  <2> QED
    BY <2>1, <2>2, <1>5, PasswordFine
<1> QED
  BY <1>2, <1>3, <1>4, <1>5

LEMMA RaiseFine ==
  ASSUME NEW c, NEW a, NEW x, Over(a), Ready(c, x)
  PROVE  Fine(c, Raise(a, x))
<1>1. CASE a.next <= Len(Methods)
  <2> DEFINE b == [a EXCEPT !.current = a.next, !.next = @ + 1]
  <2>1. Raise(a, x) = Start(b, x)
    BY <1>1 DEF Raise
  <2>2. /\ a \in ClientAuth /\ a.current \in 1 .. Len(Methods) /\ a.next \in 1 .. Len(Methods) + 1
        /\ a.tried_empty \in 0 .. 2 /\ a.done \in 0 .. NKeys
    BY DEF Over, ClientAuth
  <2>3. Len(Methods) \in {2, 3}
    BY MethodsFacts
  <2>4. a.next \in 1 .. Len(Methods) /\ a.next + 1 \in 1 .. Len(Methods) + 1
    BY <1>1, <2>2, <2>3
  <2>5. b \in ClientAuth
    BY <2>2, <2>4 DEF ClientAuth
  <2>6. /\ b.phase = a.phase /\ b.current = a.next /\ b.next = a.next + 1 /\ b.done = a.done
        /\ b.pending = a.pending /\ b.pk_ok = a.pk_ok /\ b.tried_empty = a.tried_empty
    BY <2>2 DEF ClientAuth
  <2> HIDE DEF b
  <2>7. a.current < a.next
    BY DEF Over
  <2>8. a.tried_empty = 0
    <3>1. Methods[a.current] # "password"
      <4>1. \A n \in {2, 3} : \A i \in 1 .. n, j \in 1 .. n + 1 :
              j <= n /\ i < j => i = 1 \/ (i = 2 /\ n = 3)
        OBVIOUS
      <4>2. a.current \in 1 .. Len(Methods) /\ a.next \in 1 .. Len(Methods) + 1
        BY <2>2
      <4>3. a.current = 1 \/ (a.current = 2 /\ Len(Methods) = 3)
        BY <4>1, <4>2, <1>1, <2>3, <2>7
      <4> QED
        BY <4>3, MethodsFacts
    <3>2. a.tried_empty > 0 => Methods[a.current] = "password"
      BY DEF Over
    <3> QED
      BY <3>1, <3>2, <2>2
  <2>9. Methods[b.current] # "none"
    BY <1>1, <2>2, <2>3, <2>6, <2>7, MethodsFacts
  <2>10. Methods[b.current] = "publickey" => b.done < NKeys
    <3>1. SUFFICES ASSUME Methods[b.current] = "publickey" PROVE b.done < NKeys
      OBVIOUS
    <3>2. a.current = 1 /\ Methods[1] = "none" /\ NKeys > 0
      BY <1>1, <2>2, <2>3, <2>6, <2>7, <3>1, MethodsFacts
    <3> QED
      BY <3>2, <2>6 DEF Over
  <2>11. Fresh(b)
    BY <2>2, <2>4, <2>5, <2>6, <2>8, <2>9, <2>10 DEF Fresh, Over
  <2> QED
    BY <2>1, <2>11, StartFine
<1>2. CASE ~(a.next <= Len(Methods))
  <2>1. Raise(a, x) = {Denied(a, x)}
    BY <1>2 DEF Raise
  <2> QED
    BY <2>1, DeniedFine DEF Fine
<1> QED
  BY <1>1, <1>2

(* An answer to one of the queries, or to a signature, has come.           *)
Answered(a) ==
  /\ a \in ClientAuth
  /\ a.phase = "trying"
  /\ a.current < a.next
  /\ Methods[a.current] = "publickey"
  /\ a.done < NKeys \/ a.pending > 0
  /\ a.done < NKeys => a.pending <= a.done + 1
  /\ ~(a.done < NKeys) => ~a.pk_ok
  /\ a.tried_empty = 0

LEMMA PublickeyFine ==
  ASSUME NEW c, NEW a, NEW x, Answered(a), Ready(c, x)
  PROVE  Fine(c, client_publickey_next(a, x))
<1> DEFINE b == IF a.done < NKeys THEN [a EXCEPT !.done = @ + 1, !.pk_ok = a.done + 1 < NKeys]
                                  ELSE [a EXCEPT !.pending = @ - 1]
<1>1. client_publickey_next(a, x) =
        IF b.done < NKeys \/ b.pending > 0 THEN {[a |-> b, x |-> x]} ELSE Raise(b, x)
  BY DEF client_publickey_next
<1>2. /\ a \in ClientAuth /\ a.done \in 0 .. NKeys /\ a.pending \in 0 .. NKeys /\ NKeys \in Nat
  BY LoginAssumption DEF Answered, ClientAuth
<1>3. /\ b \in ClientAuth
      /\ b.phase = a.phase /\ b.current = a.current /\ b.next = a.next
      /\ b.tried_empty = a.tried_empty
      /\ b.pending <= b.done
      /\ b.pk_ok => b.done < NKeys
  <2>1. CASE a.done < NKeys
    <3> DEFINE d == [a EXCEPT !.done = @ + 1, !.pk_ok = a.done + 1 < NKeys]
    <3>1. b = d
      BY <2>1
    <3>2. a.done + 1 \in 0 .. NKeys /\ (a.done + 1 < NKeys) \in BOOLEAN
      BY <2>1, <1>2
    <3>3. d \in ClientAuth
      BY <3>2, <1>2 DEF ClientAuth
    <3>4. /\ d.phase = a.phase /\ d.current = a.current /\ d.next = a.next
          /\ d.tried_empty = a.tried_empty /\ d.pending = a.pending /\ d.done = a.done + 1
      BY <1>2 DEF ClientAuth
    <3>5. d.pk_ok <=> a.done + 1 < NKeys
      BY <1>2 DEF ClientAuth
    <3> HIDE DEF b, d
    <3>6. a.pending <= a.done + 1
      BY <2>1 DEF Answered
    <3> QED
      BY <3>1, <3>3, <3>4, <3>5, <3>6
  <2>2. CASE ~(a.done < NKeys)
    <3> DEFINE d == [a EXCEPT !.pending = @ - 1]
    <3>1. b = d
      BY <2>2
    <3>2. a.pending - 1 \in 0 .. NKeys /\ a.done = NKeys
      BY <2>2, <1>2 DEF Answered
    <3>3. d \in ClientAuth
      BY <3>2, <1>2 DEF ClientAuth
    <3>4. /\ d.phase = a.phase /\ d.current = a.current /\ d.next = a.next
          /\ d.tried_empty = a.tried_empty /\ d.pending = a.pending - 1 /\ d.done = a.done
          /\ d.pk_ok = a.pk_ok
      BY <1>2 DEF ClientAuth
    <3> HIDE DEF b, d
    <3>5. ~a.pk_ok
      BY <2>2 DEF Answered
    <3> QED
      BY <3>1, <3>2, <3>3, <3>4, <3>5
  <2> QED
    BY <2>1, <2>2
<1> HIDE DEF b
<1>4. b.tried_empty = 0 /\ Methods[b.current] = "publickey" /\ b.phase = "trying"
      /\ b.current < b.next
  BY <1>3 DEF Answered
<1>5. CASE b.done < NKeys \/ b.pending > 0
  <2>1. Tried(b)
    BY <1>3, <1>4, <1>5 DEF Tried
  <2>2. client_publickey_next(a, x) = {[a |-> b, x |-> x]}
    BY <1>1, <1>5
  <2> QED
    BY <2>1, <2>2, <1>3 DEF Fine
<1>6. CASE ~(b.done < NKeys \/ b.pending > 0)
  <2>1. Over(b)
    BY <1>3, <1>4, <1>6 DEF Over
  <2>2. client_publickey_next(a, x) = Raise(b, x)
    BY <1>1, <1>6
  <2> QED
    BY <2>1, <2>2, RaiseFine
<1> QED
  BY <1>5, <1>6

LEMMA FailureFine ==
  ASSUME NEW c, NEW a, NEW x, NEW again, a \in ClientAuth, Tried(a), a.phase = "trying",
         Ready(c, x)
  PROVE  Fine(c, MethodFailure(a, x, again))
<1>1. /\ a.current \in 1 .. Len(Methods) /\ a.done \in 0 .. NKeys /\ a.pending \in 0 .. NKeys
      /\ a.tried_empty \in 0 .. 2 /\ NKeys \in Nat
  BY LoginAssumption DEF ClientAuth
<1>2. Methods[a.current] \in {"none", "publickey", "password"}
  BY <1>1, MethodsFacts
<1>3. CASE Methods[a.current] = "none"
  <2>1. MethodFailure(a, x, again) = Raise(a, x)
    BY <1>3 DEF MethodFailure
  <2>2. Over(a)
    BY <1>3 DEF Over, Tried
  <2> QED
    BY <2>1, <2>2, RaiseFine
<1>4. CASE Methods[a.current] = "publickey"
  <2>1. MethodFailure(a, x, again) = client_publickey_next(a, x)
    BY <1>4 DEF MethodFailure
  <2>2. a.tried_empty = 0
    BY <1>1, <1>4 DEF Tried
  <2>3. a.pending <= a.done + 1
    BY <1>1 DEF Tried
  <2>4. Answered(a)
    BY <1>4, <2>2, <2>3 DEF Answered, Tried
  <2> QED
    BY <2>1, <2>4, PublickeyFine
<1>5. CASE Methods[a.current] = "password"
  <2>1. Over(a)
    BY <1>5 DEF Over, Tried
  <2>2. \/ MethodFailure(a, x, again) = Raise(a, x)
        \/ a.tried_empty < 2 /\ MethodFailure(a, x, again) = send_password(a, x)
    BY <1>5 DEF MethodFailure
  <2> QED
    BY <2>1, <2>2, <1>5, RaiseFine, PasswordFine
<1> QED
  BY <1>2, <1>3, <1>4, <1>5

-----------------------------------------------------------------------------
(* A step of the client's authentication.                                  *)
LEMMA ClientStep ==
  ASSUME IInv, NEW a, NEW x, a \in ClientAuth, Tried(a), Quiet(conn["client"], x),
         x.c.kex_state = conn["client"].kex_state, Calm("client", Rest("client")),
         x.c.service => x.c.established,
         x.c.service \/ ~x.c.established => a.phase = "idle" /\ a.current = 1,
         client' = a, Done("client", x, Rest("client")),
         offers' = offers, advertised' = advertised, server' = server, talk' = talk
  PROVE  IInv'
<1>0. "client" \in Ends
  BY DEF Ends
<1>1. Aside("client", x, Rest("client"))
  BY DEF Aside, Calm
<1>2. /\ x \in Act /\ Takes("client", Rest("client"))
      /\ Both("client", x.c, conn[Peer("client")], Rest("client")["client"],
              inbox[Peer("client")] \o x.out)
  BY <1>0, <1>1, QuietStep
<1>3. TypeOK
  BY DEF IInv
<1>4. /\ conn' \in [Ends -> Connection]
      /\ inbox' \in [Ends -> Seq(Packet)]
      /\ KexInv'
      /\ conn'["client"] = x.c
  BY <1>0, <1>2, <1>3, KexStep
<1>5. TypeOK'
  BY <1>3, <1>4 DEF TypeOK
<1>6. Tried(client')
  OBVIOUS
<1>7. /\ conn'["client"].service => conn'["client"].established
      /\ conn'["client"].service \/ ~conn'["client"].established =>
           client'.phase = "idle" /\ client'.current = 1
  BY <1>4
<1>8. AuthInv'
  BY <1>6, <1>7 DEF AuthInv, Tried
<1> QED
  BY <1>4, <1>5, <1>8 DEF IInv

LEMMA OutcomeStep ==
  ASSUME IInv, NEW set, Fine(conn["client"], set), Outcome(set),
         Calm("client", Rest("client"))
  PROVE  IInv'
<1>1. PICK o \in set : client' = o.a /\ Done("client", o.x, Rest("client"))
  BY DEF Outcome
<1>2. o.a \in ClientAuth /\ Tried(o.a) /\ Ready(conn["client"], o.x)
  BY DEF Fine
<1>3. offers' = offers /\ advertised' = advertised /\ server' = server /\ talk' = talk
  BY DEF Outcome
<1> DEFINE a == o.a
           x == o.x
<1> HIDE DEF a, x
<1>4. /\ a \in ClientAuth /\ Tried(a) /\ client' = a /\ Done("client", x, Rest("client"))
      /\ Ready(conn["client"], x)
  BY <1>1, <1>2 DEF a, x
<1>5. /\ Quiet(conn["client"], x) /\ x.c.kex_state = conn["client"].kex_state
      /\ (x.c.service => x.c.established)
      /\ (x.c.service \/ ~x.c.established => a.phase = "idle" /\ a.current = 1)
  BY <1>4 DEF Ready
<1> QED
  BY <1>3, <1>4, <1>5, ClientStep

LEMMA UnexpectedStep ==
  ASSUME IInv, Unexpected, Calm("client", Rest("client"))
  PROVE  IInv'
<1> DEFINE c == conn["client"]
           x0 == Begin(c)
           x == Fail(x0, "protocol")
<1>1. /\ client' = client /\ Done("client", x, Rest("client"))
      /\ offers' = offers /\ advertised' = advertised /\ server' = server /\ talk' = talk
  BY DEF Unexpected, Outcome
<1>2. c \in Connection /\ client \in ClientAuth /\ "protocol" \in Faults
  BY KexFacts DEF Ends, Faults
<1>3. x0 \in Act /\ x0.c = c /\ Quiet(c, x0)
  BY <1>2, BeginAct
<1> HIDE DEF x0, x
<1>4. Quiet(c, x)
  BY <1>2, <1>3, FailQuiet DEF x
<1>5. x.c.kex_state = c.kex_state /\ (x.c.service <=> c.service)
      /\ (x.c.established <=> c.established)
  BY <1>2, <1>3, FailAct DEF x
<1>6. /\ Tried(client)
      /\ x.c.service => x.c.established
      /\ x.c.service \/ ~x.c.established => client.phase = "idle" /\ client.current = 1
  BY <1>5 DEF IInv, AuthInv
<1> QED
  BY <1>1, <1>2, <1>4, <1>5, <1>6, ClientStep

(* The client's connection before it handles a packet.                     *)
LEMMA ClientReady ==
  ASSUME IInv, client.phase # "idle"
  PROVE  Ready(conn["client"], Begin(conn["client"]))
<1>1. conn["client"] \in Connection
  BY KexFacts DEF Ends
<1>2. Begin(conn["client"]).c = conn["client"] /\ Quiet(conn["client"], Begin(conn["client"]))
  BY <1>1, BeginAct
<1>3. ~conn["client"].service /\ conn["client"].established
  BY DEF IInv, AuthInv
<1> QED
  BY <1>2, <1>3 DEF Ready

LEMMA AcceptStep ==
  ASSUME IInv, do_accept_service
  PROVE  IInv'
<1> DEFINE c == conn["client"]
           b == [client EXCEPT !.phase = "trying"]
           x == [Begin(c) EXCEPT !.c.service = FALSE]
<1>1. Calm("client", Rest("client"))
  <2>1. "client" \in Ends /\ "SERVICE_ACCEPT" \notin KexTypes
    BY DEF Ends, KexTypes
  <2> QED
    BY <2>1, ReadsCalm DEF do_accept_service
<1>2. CASE ~c.service
  BY <1>1, <1>2, UnexpectedStep DEF do_accept_service
<1>3. CASE c.service
  <2>1. Outcome(Start(b, x))
    BY <1>3 DEF do_accept_service
  <2>2. c \in Connection /\ client \in ClientAuth
    BY KexFacts DEF Ends
  <2>3. client.phase = "idle" /\ client.current = 1 /\ c.established /\ Tried(client)
    BY <1>3 DEF IInv, AuthInv
  <2>4. Quiet(c, x) /\ x.c.kex_state = c.kex_state /\ ~x.c.service
        /\ (x.c.established <=> c.established)
    BY <2>2, TakenQuiet
  <2> HIDE DEF x
  <2>5. Ready(c, x)
    BY <2>3, <2>4 DEF Ready
  <2>6. b \in ClientAuth
    BY <2>2 DEF ClientAuth
  <2>7. /\ b.phase = "trying" /\ b.current = 1 /\ b.next = client.next /\ b.done = client.done
        /\ b.pending = client.pending /\ b.pk_ok = client.pk_ok
        /\ b.tried_empty = client.tried_empty
    BY <2>2, <2>3 DEF ClientAuth
  <2>8. Methods[1] = "none" /\ client.tried_empty \in 0 .. 2
    BY <2>2, MethodsFacts DEF ClientAuth
  <2> HIDE DEF b
  <2>9. Fresh(b)
    BY <2>3, <2>6, <2>7, <2>8 DEF Fresh, Tried
  <2>10. Fine(c, Start(b, x))
    BY <2>5, <2>9, StartFine
  <2> QED
    BY <2>1, <2>10, <1>1, OutcomeStep
<1> QED
  BY <1>2, <1>3

LEMMA AuthFailureStep ==
  ASSUME IInv, do_userauth_failure
  PROVE  IInv'
<1> DEFINE c == conn["client"]
           n == SkipUseless(client.next)
           b == [client EXCEPT !.next = n]
           x == Begin(c)
<1>1. Calm("client", Rest("client"))
  <2>1. "client" \in Ends /\ "USERAUTH_FAILURE" \notin KexTypes
    BY DEF Ends, KexTypes
  <2> QED
    BY <2>1, ReadsCalm DEF do_userauth_failure
<1>2. CASE client.phase # "trying"
  BY <1>1, <1>2, UnexpectedStep DEF do_userauth_failure
<1>3. CASE client.phase = "trying"
  <2>1. client \in ClientAuth /\ Tried(client)
    BY KexFacts DEF Ends, IInv, AuthInv
  <2>2. client.next \in 1 .. Len(Methods) + 1 /\ client.current \in 1 .. Len(Methods)
        /\ Len(Methods) \in {2, 3}
    BY <2>1, MethodsFacts DEF ClientAuth
  <2>3. n \in client.next .. Len(Methods) + 1
    BY <2>2, SkipFacts
  <2>4. Outcome(MethodFailure(b, x, Useful(client.current)))
    BY <1>3 DEF do_userauth_failure
  <2> HIDE DEF n
  <2>5. n \in 1 .. Len(Methods) + 1 /\ client.next <= n
    BY <2>2, <2>3
  <2>6. b \in ClientAuth
    BY <2>1, <2>5 DEF ClientAuth
  <2>7. /\ b.phase = client.phase /\ b.current = client.current /\ b.next = n
        /\ b.done = client.done /\ b.pending = client.pending /\ b.pk_ok = client.pk_ok
        /\ b.tried_empty = client.tried_empty
    BY <2>1 DEF ClientAuth
  <2> HIDE DEF b
  <2>8. b.current < b.next
    BY <2>1, <2>2, <2>5, <2>7 DEF Tried
  <2>9. Tried(b)
    BY <2>1, <2>7, <2>8 DEF Tried
  <2>10. Ready(c, x)
    BY <1>3, ClientReady
  <2> HIDE DEF x
  <2>11. Fine(c, MethodFailure(b, x, Useful(client.current)))
    BY <1>3, <2>6, <2>7, <2>9, <2>10, FailureFine
  <2> QED
    BY <2>4, <2>11, <1>1, OutcomeStep
<1> QED
  BY <1>2, <1>3

LEMMA PkOkStep ==
  ASSUME IInv, do_userauth_pk_ok
  PROVE  IInv'
<1> DEFINE c == conn["client"]
           x == Begin(c)
           k == client.done + 1
           b == [client EXCEPT !.pending = @ + 1]
           m == [Request("publickey") EXCEPT !.k = k, !.signed = TRUE]
<1>1. Calm("client", Rest("client"))
  <2>1. "client" \in Ends /\ "USERAUTH_PK_OK" \notin KexTypes
    BY DEF Ends, KexTypes
  <2> QED
    BY <2>1, ReadsCalm DEF do_userauth_pk_ok
<1>2. CASE ~client.pk_ok
  BY <1>1, <1>2, UnexpectedStep DEF do_userauth_pk_ok
<1>3. CASE client.pk_ok
  <2>1. client \in ClientAuth /\ Tried(client)
    BY KexFacts DEF Ends, IInv, AuthInv
  <2>2. client.phase = "trying" /\ Methods[client.current] = "publickey" /\ client.done < NKeys
        /\ client.pending <= client.done /\ client.current < client.next
    BY <1>3, <2>1 DEF Tried
  <2>3. client.done \in 0 .. NKeys /\ client.pending \in 0 .. NKeys /\ NKeys \in Nat
        /\ client.tried_empty \in 0 .. 2
    BY <2>1, LoginAssumption DEF ClientAuth
  <2>4. Ready(c, x)
    BY <2>2, ClientReady
  <2>5. \/ Outcome(client_publickey_next(b, Write(x, m)))
        \/ Outcome(client_publickey_next(client, x))
    BY <1>3 DEF do_userauth_pk_ok
  <2>6. m \in Packet /\ m.type \notin KexTypes
    <3>1. Request("publickey") \in Packet /\ Request("publickey").type \notin KexTypes
      BY RequestType
    <3>2. k \in Nat
      BY <2>3
    <3> HIDE DEF k
    <3> QED
      BY <3>1, <3>2 DEF Packet
  <2>7. client.tried_empty = 0
    BY <2>1, <2>2, <2>3 DEF Tried
  <2>8. Answered(client)
    BY <2>1, <2>2, <2>3, <2>7 DEF Answered
  <2>9. Answered(b)
    <3>1. client.pending + 1 \in 0 .. NKeys
      BY <2>2, <2>3
    <3>2. b \in ClientAuth
      BY <3>1, <2>1 DEF ClientAuth
    <3>3. /\ b.phase = client.phase /\ b.current = client.current /\ b.next = client.next
          /\ b.done = client.done /\ b.pending = client.pending + 1 /\ b.pk_ok = client.pk_ok
          /\ b.tried_empty = client.tried_empty
      BY <2>1 DEF ClientAuth
    <3> HIDE DEF b
    <3> QED
      BY <3>2, <3>3, <2>2, <2>3, <2>7 DEF Answered
  <2> HIDE DEF b, m, x
  <2>10. Fine(c, client_publickey_next(client, x))
    BY <2>4, <2>8, PublickeyFine
  <2>11. Ready(c, Write(x, m))
    BY <2>4, <2>6, ReadyWrite
  <2>12. Fine(c, client_publickey_next(b, Write(x, m)))
    BY <2>9, <2>11, PublickeyFine
  <2> QED
    BY <2>5, <2>10, <2>12, <1>1, OutcomeStep
<1> QED
  BY <1>2, <1>3

LEMMA AuthSuccessStep ==
  ASSUME IInv, do_userauth_success
  PROVE  IInv'
<1> DEFINE c == conn["client"]
           x == Begin(c)
           b == [client EXCEPT !.phase = "granted", !.pk_ok = FALSE]
<1>1. Calm("client", Rest("client"))
  <2>1. "client" \in Ends /\ "USERAUTH_SUCCESS" \notin KexTypes
    BY DEF Ends, KexTypes
  <2> QED
    BY <2>1, ReadsCalm DEF do_userauth_success
<1>2. CASE client.phase # "trying"
  BY <1>1, <1>2, UnexpectedStep DEF do_userauth_success
<1>3. CASE client.phase = "trying"
  <2>1. client \in ClientAuth /\ Tried(client)
    BY KexFacts DEF Ends, IInv, AuthInv
  <2>2. Outcome({[a |-> b, x |-> x]})
    BY <1>3 DEF do_userauth_success
  <2>3. b \in ClientAuth
    BY <2>1 DEF ClientAuth
  <2>4. /\ b.phase = "granted" /\ b.current = client.current /\ b.next = client.next
        /\ b.done = client.done /\ b.pending = client.pending
        /\ b.tried_empty = client.tried_empty
    BY <2>1 DEF ClientAuth
  <2>5. ~b.pk_ok
    BY <2>1 DEF ClientAuth
  <2>6. Ready(c, x)
    BY <1>3, ClientReady
  <2> HIDE DEF b, x
  <2>7. Tried(b)
    BY <2>1, <2>4, <2>5 DEF Tried
  <2>8. Fine(c, {[a |-> b, x |-> x]})
    BY <2>3, <2>6, <2>7 DEF Fine
  <2> QED
    BY <2>2, <2>8, <1>1, OutcomeStep
<1> QED
  BY <1>2, <1>3

-----------------------------------------------------------------------------
LEMMA InitLogin ==
  ASSUME Init
  PROVE  IInv
<1>1. conn = [e \in Ends |-> make_ssh_connection(e)] /\ inbox = [e \in Ends |-> <<>>]
  BY DEF Init
<1>2. ASSUME NEW e \in Ends
      PROVE  /\ conn[e] = make_ssh_connection(e) /\ conn[e] \in Connection
             /\ conn[e].mode = e /\ conn[e].kex_state = "INIT" /\ conn[e].sent = 0
             /\ conn[e].kexinits = None /\ ~conn[e].dh /\ conn[e].send_keys = None
             /\ conn[e].rec_keys = None /\ ~conn[e].established /\ ~conn[e].service
             /\ Phase(conn[e]) = "idle" /\ inbox[e] = <<>>
  <2>1. conn[e] = make_ssh_connection(e) /\ inbox[e] = <<>>
    BY <1>1
  <2>2. conn[e] \in Connection
    BY <2>1, NoneType, ExchangesAssumption DEF make_ssh_connection, Connection
  <2>3. /\ conn[e].mode = e /\ conn[e].kex_state = "INIT" /\ conn[e].sent = 0
        /\ conn[e].kexinits = None /\ ~conn[e].dh /\ conn[e].send_keys = None
        /\ conn[e].rec_keys = None /\ ~conn[e].established /\ ~conn[e].service
    BY <2>1 DEF make_ssh_connection
  <2>4. None[e] = 0
    BY DEF None
  <2>5. Phase(conn[e]) = "idle"
    BY <2>3, <2>4 DEF Phase
  <2> QED
    BY <2>1, <2>2, <2>3, <2>5
<1>3. KexInv
  <2> SUFFICES ASSUME NEW e \in Ends
               PROVE  Both(e, conn[e], conn[Peer(e)], inbox[e], inbox[Peer(e)])
    BY DEF KexInv
  <2>0. Peer(e) \in Ends /\ Peer(Peer(e)) = e
    BY PeerFacts
  <2>1. ASSUME NEW f \in Ends
        PROVE  Reader(f, conn[f], conn[Peer(f)], inbox[f])
    <3>0. Peer(f) \in Ends
      BY PeerFacts
    <3>1. Expected(f, "idle", "idle") = {}
      BY DEF Expected
    <3>2. Local(conn[f], inbox[f]) /\ Promised(f, conn[f], conn[Peer(f)])
      BY <1>2 DEF Local, Promised
    <3>3. Stream(<<>>, None, None, {})
      BY DEF Stream
    <3>4. Replies(<<>>, None) /\ Guessed(<<>>)
      BY DEF Replies, Guessed
    <3>5. /\ Stream(inbox[f], conn[f].rec_keys, conn[Peer(f)].send_keys,
                    Expected(f, Phase(conn[f]), Phase(conn[Peer(f)])))
          /\ Replies(inbox[f], conn[Peer(f)].send_keys)
          /\ Guessed(inbox[f])
      BY <3>0, <3>1, <3>3, <3>4, <1>2
    <3> QED
      BY <3>2, <3>5 DEF Reader
  <2>2. Legal(e, "idle", "idle") /\ Counted(e, "idle", "idle", 0, 0)
    BY DEF Legal, Counted
  <2>3. Reader(e, conn[e], conn[Peer(e)], inbox[e])
        /\ Reader(Peer(e), conn[Peer(e)], conn[e], inbox[Peer(e)])
    BY <2>0, <2>1
  <2>4. /\ conn[e].mode = e /\ conn[Peer(e)].mode = Peer(e)
        /\ Phase(conn[e]) = "idle" /\ Phase(conn[Peer(e)]) = "idle"
        /\ conn[e].sent = 0 /\ conn[Peer(e)].sent = 0
    BY <2>0, <1>2
  <2> QED
    BY <2>2, <2>3, <2>4 DEF Both
<1>4. /\ client = [phase |-> "idle", current |-> 1, next |-> 2, done |-> 0, pending |-> 0,
                   pk_ok |-> FALSE, tried_empty |-> 0]
      /\ server = [handler |-> "fail", attempts |-> Attempts, locked |-> FALSE, user |-> FALSE]
      /\ talk = [e \in Ends |-> 0]
      /\ offers \in {"same", "other", "none"}
      /\ advertised \subseteq {"publickey", "password"}
  BY DEF Init
<1>5. TypeOK
  <2>1. conn \in [Ends -> Connection] /\ inbox \in [Ends -> Seq(Packet)]
    BY <1>1, <1>2
  <2>2. client \in ClientAuth
    BY <1>4, MethodsFacts, LoginAssumption DEF ClientAuth
  <2>3. server \in ServerAuth
    BY <1>4, LoginAssumption DEF ServerAuth
  <2>4. talk \in [Ends -> 0 .. MaxTalk]
    BY <1>4, LoginAssumption
  <2> QED
    BY <1>4, <2>1, <2>2, <2>3, <2>4 DEF TypeOK
<1>6. AuthInv
  <2>1. Methods[1] = "none"
    BY MethodsFacts
  <2>2. Tried(client)
    BY <1>4, <2>1 DEF Tried
  <2>3. ~conn["client"].service /\ client.phase = "idle" /\ client.current = 1
    BY <1>2, <1>4 DEF Ends
  <2> QED
    BY <2>2, <2>3 DEF AuthInv
<1> QED
  BY <1>3, <1>5, <1>6 DEF IInv

LEMMA NextLogin ==
  ASSUME IInv, [Next]_vars
  PROVE  IInv'
<1>1. ASSUME NEW e \in Ends, Handle(e)
      PROVE  IInv'
  <2>1. CASE HandleKexinit(e) \/ HandleNewkeys(e) \/ HandleOther(e) \/ Skip(e) \/ Refuse(e)
    BY <2>1, KexinitStep, NewkeysStep, OtherStep, SkipStep, RefuseStep
  <2>2. CASE HandleDhInit \/ do_service_request \/ do_handle_userauth
    BY <2>2, DhInitStep, ServiceStep, UserauthStep
  <2>3. CASE \/ HandleDhReply \/ do_accept_service
             \/ do_userauth_failure \/ do_userauth_pk_ok \/ do_userauth_success
    BY <2>3, DhReplyStep, AcceptStep, AuthFailureStep, PkOkStep, AuthSuccessStep
  <2> QED
    BY <1>1, <2>1, <2>2, <2>3 DEF Handle
<1>2. CASE Next
  BY <1>1, <1>2, HandshakeStep, TalkStep, PasswordStep, RekeyStep DEF Next
<1>3. CASE UNCHANGED vars
  <2>1. /\ conn' = conn /\ inbox' = inbox /\ offers' = offers /\ advertised' = advertised
        /\ client' = client /\ server' = server /\ talk' = talk
    BY <1>3 DEF vars
  <2>2. TypeOK'
    BY <2>1 DEF IInv, TypeOK
  <2>3. KexInv'
    BY <2>1 DEF IInv, KexInv
  <2>4. AuthInv'
    BY <2>1 DEF IInv, AuthInv, Tried
  <2> QED
    BY <2>2, <2>3, <2>4 DEF IInv
<1> QED
  BY <1>2, <1>3

(* The two ends are always in phases of the exchange that go together, and  *)
(* the messages of the exchange that are on their way are those that the    *)
(* phases call for: whatever order the handlers run in, the keys of each    *)
(* direction change behind NEWKEYS and nowhere else.                       *)
THEOREM LoginInvariant == Spec => []IInv
<1>1. Init => IInv
  BY InitLogin
<1>2. IInv /\ [Next]_vars => IInv'
  BY NextLogin
<1> QED
  BY <1>1, <1>2, PTL DEF Spec

(* The counters of queries, signatures, empty passwords and failures stay   *)
(* in their ranges (client_publickey_next, do_exc_userauth_handler), for    *)
(* any number of keys and any answers of the server.                       *)
THEOREM LoginTypes == Spec => []TypeOK
<1>1. IInv => TypeOK
  BY DEF IInv
<1> QED
  BY <1>1, LoginInvariant, PTL

(* A packet is always decrypted with the keys that it was encrypted with    *)
(* (install_keys in keyexchange_finish, do_handle_newkeys), however many   *)
(* exchanges there are and whatever is on its way when keys change.        *)
THEOREM KeysMatch == Spec => []KeysAgree
<1>1. IInv => KeysAgree
  <2> SUFFICES ASSUME IInv, NEW e \in Ends, CanRead(e)
               PROVE  Front(e).key = conn[e].rec_keys
    BY DEF KeysAgree
  <2>1. conn[e].open /\ inbox[e] # <<>>
    BY DEF CanRead
  <2>2. Both(e, conn[e], conn[Peer(e)], inbox[e], inbox[Peer(e)]) /\ inbox[e] \in Seq(Packet)
    BY KexFacts
  <2> DEFINE q == inbox[e]
             send == conn[Peer(e)].send_keys
             rec == conn[e].rec_keys
  <2>3. Stream(q, rec, send, Expected(e, Phase(conn[e]), Phase(conn[Peer(e)])))
    BY <2>1, <2>2 DEF Both, Reader
  <2>4. 1 \in 1 .. Len(q) /\ Front(e) = q[1]
    BY <2>1, <2>2 DEF Front
  <2> HIDE DEF q, send, rec
  <2>5. q[1].key = IF \E j \in 1 .. 1 - 1 : q[j].type = "NEWKEYS" THEN send ELSE rec
    BY <2>3, <2>4 DEF Stream
  <2>6. ~ \E j \in 1 .. 1 - 1 : q[j].type = "NEWKEYS"
    OBVIOUS
  <2> QED
    BY <2>4, <2>5, <2>6 DEF rec
<1> QED
  BY <1>1, LoginInvariant, PTL
=============================================================================
