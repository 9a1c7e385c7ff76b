--------------------------- MODULE ChannelProofs ---------------------------
(***************************************************************************)
(* Proofs about Channel, for any number of channels opened by either end,  *)
(* any windows, packet sizes and numbers.                                  *)
(*                                                                         *)
(* That packets reach the channel they are meant for, and that no handler  *)
(* finds a violation of the protocol, is shown together.  The inductive    *)
(* invariant says, for each channel, what the two objects can be at the    *)
(* same time (Pair), and for each direction what can be on its way and in  *)
(* which order (Link): OPEN and FAILURE travel alone, CONFIRM comes first, *)
(* nothing follows CLOSE, and no data follows EOF.  An end gives a number  *)
(* back only when it has read CLOSE, behind which nothing can come that    *)
(* names the number, or when it has refused or been refused.               *)
(***************************************************************************)
EXTENDS Channel, SequenceTheorems, TLAPS

DataTypes == {"DATA", "ADJUST", "EOF", "CLOSE"}

-----------------------------------------------------------------------------
(* The channel object by itself.                                           *)

(* Sockets and flags belong to channels that have been established; a      *)
(* channel is dead when CLOSE has gone both ways, or was refused.          *)
Phase(c) ==
  /\ c.status \in {"none", "opening", "asked"} =>
       c.socket = "idle" /\ c.flags = {} /\ ~c.want_read /\ ~c.write_closed
  /\ c.status = "live" => c.socket # "idle" /\ ~(CloseFlags \subseteq c.flags)
  /\ c.status = "dead" => CloseFlags \subseteq c.flags \/ (c.flags = {} /\ c.socket # "open")

(* The source of the channel is polled if it may send, and can be polled   *)
(* as long as nothing has been sent that ends it.                          *)
Source(c) ==
  /\ c.socket = "open" => c.sources = 1
  /\ c.socket = "open" /\ read_data_query(c) > 0 => c.want_read
  /\ c.want_read => c.reading /\ c.socket = "open"
  /\ c.status = "live" /\ c.flags \cap ({"SENT_EOF"} \cup CloseFlags) = {} =>
       c.socket = "open" /\ c.reading

(* What the receiver has offered and what it holds fit into its window.    *)
Bounded(k, c) ==
  /\ c.rec_window + c.buffered <= Window[k]
  /\ c.cookie => k \in X11 /\ c.buffered = 0

ObjInv == \A e \in Ends, k \in Opens : Phase(ch[e][k]) /\ Source(ch[e][k]) /\ Bounded(k, ch[e][k])

-----------------------------------------------------------------------------
(* The table of channels of one end: the objects cs by channel, the marks  *)
(* us and the channels ts by number.                                       *)

(* The statuses with which a channel holds a number.                       *)
Holds(c) == c.status \in {"opening", "asked", "live"}

Tabled(cs, us, ts) ==
  /\ \A k \in Opens : Holds(cs[k]) =>
       /\ us[cs[k].local] = IF cs[k].status = "live" THEN "IN_USE" ELSE "RESERVED"
       /\ ts[cs[k].local] = IF cs[k].status = "asked" THEN NoChannel ELSE k
  /\ \A j, k \in Opens : Holds(cs[j]) /\ Holds(cs[k]) /\ cs[j].local = cs[k].local => j = k
  /\ \A n \in Numbers : ts[n] # NoChannel => Holds(cs[ts[n]]) /\ cs[ts[n]].local = n

TableInv == \A e \in Ends : Tabled(ch[e], in_use[e], channels[e])

-----------------------------------------------------------------------------
(* A channel at both ends.                                                 *)

(* The packets about channel k in a queue.                                 *)
Of(k, box) == {i \in 1..Len(box) : box[i].k = k}

(* What a packet m that is in position i says of the sender's object s and  *)
(* of the receiver's object r; up tells that the sender is the opener.     *)
Fits(k, box, i, s, r, up) ==
  LET m == box[i]
  IN /\ m.type = "OPEN" => up /\ s.status = "opening" /\ r.status = "none" /\ m.from = s.local
     /\ m.type = "CONFIRM" =>
          ~up /\ s.status = "live" /\ r.status = "opening" /\ m.to = r.local /\ m.from = s.local
     /\ m.type = "FAILURE" => ~up /\ s.status = "dead" /\ r.status = "opening" /\ m.to = r.local
     /\ m.type \in DataTypes =>
          /\ s.status \in {"live", "dead"} /\ m.to = r.local
          /\ \/ r.status = "live"
             \/ r.status = "opening" /\ \E j \in Of(k, box) : j < i /\ box[j].type = "CONFIRM"
     /\ m.type = "EOF" => "SENT_EOF" \in s.flags /\ "RECEIVED_EOF" \notin r.flags
     /\ m.type = "CLOSE" => "SENT_CLOSE" \in s.flags

(* The order of the packets about a channel.                               *)
Ordered(k, box) ==
  \A i, j \in Of(k, box) : i < j =>
    /\ box[i].type \notin {"OPEN", "FAILURE", "CLOSE"}
    /\ box[j].type \in DataTypes
    /\ box[i].type = "EOF" => box[j].type \notin {"EOF", "DATA"}

(* What the receiver has got the sender has sent, and nothing is behind    *)
(* CLOSE.                                                                  *)
Got(k, box, s, r) ==
  /\ "RECEIVED_CLOSE" \in r.flags => "SENT_CLOSE" \in s.flags /\ Of(k, box) = {}
  /\ "RECEIVED_EOF" \in r.flags => "SENT_EOF" \in s.flags

Link(k, box, s, r, up) ==
  /\ \A i \in Of(k, box) : Fits(k, box, i, s, r, up)
  /\ Ordered(k, box)
  /\ Got(k, box, s, r)

Confirmed(k, box) == \E i \in Of(k, box) : box[i].type = "CONFIRM"

(* The objects of the opener, o, and of the other end, a; box is what is   *)
(* on its way to the opener.                                               *)
Pair(k, o, a, box) ==
  /\ o.status # "asked" /\ a.status # "opening"
  /\ o.status = "none" => a.status = "none"
  /\ a.status = "asked" => o.status = "opening" /\ a.remote = o.local
  /\ a.status = "live" =>
       /\ o.status \in {"opening", "live", "dead"} /\ a.remote = o.local
       /\ o.status = "opening" => Confirmed(k, box)
  /\ o.status = "live" => a.status \in {"live", "dead"} /\ o.remote = a.local
  /\ a.status = "dead" /\ a.flags = {} => o.status \in {"opening", "dead"}
  /\ o.status = "dead" /\ o.flags = {} => a.status = "dead"

LinkInv ==
  \A k \in Opens :
    /\ \A e \in Ends : Link(k, inbox[e], ch[Peer(e)][k], ch[e][k], Opener[k] = Peer(e))
    /\ Pair(k, ch[Opener[k]][k], ch[Peer(Opener[k])][k], inbox[Opener[k]])

IInv == TypeOK /\ ObjInv /\ TableInv /\ LinkInv /\ NoProtocolError

-----------------------------------------------------------------------------
(* What the functions of channel.c do to one channel object.               *)

Sound(k, c) == c \in Object /\ Phase(c) /\ Source(c) /\ Bounded(k, c)

(* A live object in the middle of a handler.                               *)
Working(k, c) ==
  c \in Object /\ c.status = "live" /\ c.socket # "idle" /\ Source(c) /\ Bounded(k, c)

(* The packets that an end may send about channel k when its object goes   *)
(* from c to d.                                                            *)
Carries(k, c, d, m) ==
  /\ m \in Packet /\ m.k = k /\ m.to = c.remote /\ m.type \in DataTypes
  /\ c.status = "live" /\ "SENT_CLOSE" \notin c.flags
  /\ m.type \in {"EOF", "DATA"} => "SENT_EOF" \notin c.flags
  /\ m.type = "EOF" => "SENT_EOF" \in d.flags
  /\ m.type = "CLOSE" => "SENT_CLOSE" \in d.flags

(* An established channel goes from c to x.c and x.out is sent; got holds  *)
(* the flags that a packet may have added.                                 *)
Sends(k, c, got, x) ==
  /\ \/ x.c.status = c.status
     \/ c.status = "live" /\ x.c.status = "dead" /\ CloseFlags \subseteq x.c.flags
  /\ x.c.local = c.local /\ x.c.remote = c.remote
  /\ c.flags \subseteq x.c.flags /\ x.c.flags \subseteq c.flags \cup {"SENT_EOF", "SENT_CLOSE"} \cup got
  /\ \/ x.out = <<>>
     \/ \E m \in Packet : x.out = <<m>> /\ Carries(k, c, x.c, m)
     \/ \E m, n \in Packet :
          /\ x.out = Append(<<m>>, n) /\ m.type = "EOF" /\ n.type = "CLOSE"
          /\ Carries(k, c, x.c, m) /\ Carries(k, c, x.c, n)

LEMMA MsgType ==
  ASSUME NEW k \in Opens, NEW c \in Object, NEW size \in Nat,
         NEW t \in {"OPEN", "CONFIRM", "FAILURE", "DATA", "ADJUST", "EOF", "CLOSE"}
  PROVE  /\ Msg(t, k, c, size) \in Packet
         /\ Msg(t, k, c, size).type = t /\ Msg(t, k, c, size).k = k
         /\ Msg(t, k, c, size).to = c.remote /\ Msg(t, k, c, size).from = c.local
         /\ Msg(t, k, c, size).size = size
BY DEF Msg, Packet, Object

(* do_exc_finish_channel_handler leaves an object in order.                *)
LEMMA FinishSound ==
  ASSUME NEW k \in Opens, NEW c \in Object, Bounded(k, c),
         CloseFlags \subseteq c.flags \/ (c.flags = {} /\ c.socket # "open"),
         Source(c)
  PROVE  /\ Sound(k, Finish(c))
         /\ Finish(c).status = "dead" /\ Finish(c).flags = c.flags
         /\ Finish(c).local = c.local /\ Finish(c).remote = c.remote
<1> DEFINE d == Finish(c)
<1>1. d \in Object
  BY DEF Finish, Object
<1>2. /\ d.status = "dead" /\ d.flags = c.flags /\ d.local = c.local /\ d.remote = c.remote
      /\ d.reading = FALSE /\ d.want_read = FALSE /\ d.send_window = 0 /\ d.rec_window = 0
      /\ d.socket = (IF c.socket = "idle" THEN "closed" ELSE c.socket)
      /\ d.buffered = c.buffered /\ d.cookie = c.cookie /\ d.sources = c.sources
  BY DEF Finish, Object
<1> HIDE DEF d
<1>3. read_data_query(d) = 0
  BY <1>2, BoundsAssumption DEF read_data_query, Least
<1>4. Phase(d)
  BY <1>2 DEF Phase
<1>5. Source(d)
  BY <1>2, <1>3 DEF Source
<1>6. Bounded(k, d)
  BY <1>2, WindowAssumption DEF Bounded, Object
<1> QED
  BY <1>1, <1>2, <1>4, <1>5, <1>6 DEF Sound, d

(* channel_close                                                           *)
LEMMA CloseSound ==
  ASSUME NEW k \in Opens, NEW c, Working(k, c), "SENT_CLOSE" \notin c.flags, NEW out,
         NEW x, x = channel_close(k, [c |-> c, out |-> out])
  PROVE  /\ Sound(k, x.c)
         /\ \/ x.c.status = "live"
            \/ x.c.status = "dead" /\ CloseFlags \subseteq x.c.flags
         /\ x.c.local = c.local /\ x.c.remote = c.remote
         /\ x.c.flags = c.flags \cup {"SENT_CLOSE"}
         /\ x.out = Append(out, Msg("CLOSE", k, c, 0))
<1> DEFINE d == [c EXCEPT !.flags = @ \cup {"SENT_CLOSE"}]
<1>0. c \in Object /\ c.status = "live" /\ c.socket # "idle" /\ Source(c) /\ Bounded(k, c)
  BY DEF Working
<1>1. d \in Object
  BY <1>0 DEF Object, Flags, CloseFlags
<1>2. /\ d.status = "live" /\ d.flags = c.flags \cup {"SENT_CLOSE"}
      /\ d.local = c.local /\ d.remote = c.remote
      /\ d.socket = c.socket /\ d.sources = c.sources /\ d.want_read = c.want_read
      /\ d.reading = c.reading /\ d.send_window = c.send_window /\ d.rec_window = c.rec_window
      /\ d.buffered = c.buffered /\ d.cookie = c.cookie
  BY <1>0 DEF Object
<1>3. /\ x.c = IF "RECEIVED_CLOSE" \in c.flags THEN Finish(d) ELSE d
      /\ x.out = Append(out, Msg("CLOSE", k, c, 0))
  BY DEF channel_close
<1> HIDE DEF d
<1>4. Source(d) /\ Bounded(k, d)
  <2>1. read_data_query(d) = 0
    BY <1>2 DEF read_data_query, CloseFlags
  <2> QED
    BY <1>0, <1>2, <2>1 DEF Source, Bounded, CloseFlags
<1>5. CASE "RECEIVED_CLOSE" \in c.flags
  <2>1. CloseFlags \subseteq d.flags
    BY <1>2, <1>5 DEF CloseFlags
  <2> QED
    BY <1>1, <1>2, <1>3, <1>4, <1>5, <2>1, FinishSound
<1>6. CASE "RECEIVED_CLOSE" \notin c.flags
  <2>1. Phase(d)
    BY <1>0, <1>2, <1>6 DEF Phase, CloseFlags
  <2> QED
    BY <1>1, <1>2, <1>3, <1>4, <1>6, <2>1 DEF Sound
<1> QED
  BY <1>5, <1>6

(* channel_eof, also while the socket of the channel is being closed.      *)
LEMMA EofSound ==
  ASSUME NEW k \in Opens, NEW c \in Object, Phase(c), Bounded(k, c),
         c.status = "live" \/ (c.status = "dead" /\ CloseFlags \subseteq c.flags),
         c.socket = "open" => c.sources = 1,
         c.want_read => c.reading /\ c.socket = "open",
         NEW x, x = channel_eof(k, Plain(c))
  PROVE  Sound(k, x.c) /\ Sends(k, c, {}, x)
<1> DEFINE d == [c EXCEPT !.flags = @ \cup {"SENT_EOF"}]
           m == Msg("EOF", k, c, 0)
           n == Msg("CLOSE", k, d, 0)
<1>0. Plain(c).c = c /\ Plain(c).out = <<>>
  BY DEF Plain
<1>1. CASE c.flags \cap ({"SENT_EOF"} \cup CloseFlags) # {}
  <2>1. x = Plain(c)
    BY <1>0, <1>1 DEF channel_eof
  <2>2. read_data_query(c) = 0
    BY <1>1 DEF read_data_query
  <2>3. Source(c)
    BY <1>1, <2>2 DEF Source
  <2> QED
    BY <1>0, <2>1, <2>3 DEF Sound, Sends
<1>2. CASE c.flags \cap ({"SENT_EOF"} \cup CloseFlags) = {}
  <2>1. c.status = "live" /\ c.socket # "idle"
    BY <1>2 DEF CloseFlags, Phase
  <2>2. d \in Object
    BY DEF Object, Flags
  <2>3. /\ d.status = "live" /\ d.flags = c.flags \cup {"SENT_EOF"}
        /\ d.local = c.local /\ d.remote = c.remote
        /\ d.socket = c.socket /\ d.sources = c.sources /\ d.want_read = c.want_read
        /\ d.reading = c.reading /\ d.send_window = c.send_window
        /\ d.rec_window = c.rec_window
        /\ d.buffered = c.buffered /\ d.cookie = c.cookie
    BY <2>1 DEF Object
  <2>4. m \in Packet /\ m.type = "EOF" /\ m.k = k /\ m.to = c.remote
    BY MsgType
  <2>6. x = IF "RECEIVED_EOF" \in c.flags
              THEN channel_close(k, [c |-> d, out |-> <<m>>]) ELSE [c |-> d, out |-> <<m>>]
    BY <1>0, <1>2 DEF channel_eof
  <2> HIDE DEF d, m
  <2>5. n \in Packet /\ n.type = "CLOSE" /\ n.k = k /\ n.to = c.remote
    BY <2>2, <2>3, MsgType
  <2> HIDE DEF n
  <2>7. read_data_query(d) = 0
    BY <2>3 DEF read_data_query
  <2>8. Source(d)
    <3>1. "SENT_EOF" \in d.flags
      BY <2>3
    <3>2. d.flags \cap ({"SENT_EOF"} \cup CloseFlags) # {}
      BY <3>1
    <3>3. ~(read_data_query(d) > 0)
      BY <2>7
    <3> QED
      BY <2>3, <3>2, <3>3, Zenon DEF Source
  <2>9. Bounded(k, d)
    BY <2>3 DEF Bounded
  <2>10. "SENT_CLOSE" \notin c.flags /\ "SENT_EOF" \notin c.flags /\ "RECEIVED_CLOSE" \notin c.flags
    BY <1>2 DEF CloseFlags
  <2>11. CASE "RECEIVED_EOF" \notin c.flags
    <3>1. x.c = d /\ x.out = <<m>>
      BY <2>6, <2>11
    <3>2. Phase(d)
      BY <2>1, <2>3, <2>10 DEF Phase, CloseFlags
    <3>3. Carries(k, c, d, m)
      BY <2>1, <2>3, <2>4, <2>10 DEF Carries, DataTypes
    <3> QED
      BY <2>1, <2>2, <2>3, <2>4, <2>8, <2>9, <3>1, <3>2, <3>3 DEF Sound, Sends
  <2>12. CASE "RECEIVED_EOF" \in c.flags
    <3>1. x = channel_close(k, [c |-> d, out |-> <<m>>])
      BY <2>6, <2>12
    <3>2. Working(k, d)
      BY <2>1, <2>2, <2>3, <2>8, <2>9 DEF Working
    <3>3. "SENT_CLOSE" \notin d.flags
      BY <2>3, <2>10
    <3>4. /\ Sound(k, x.c)
          /\ x.c.status = "live" \/ (x.c.status = "dead" /\ CloseFlags \subseteq x.c.flags)
          /\ x.c.local = d.local /\ x.c.remote = d.remote
          /\ x.c.flags = d.flags \cup {"SENT_CLOSE"}
          /\ x.out = Append(<<m>>, n)
      BY <3>1, <3>2, <3>3, CloseSound DEF n
    <3>6. Carries(k, c, x.c, m) /\ Carries(k, c, x.c, n)
      <4>1. "SENT_EOF" \in x.c.flags /\ "SENT_CLOSE" \in x.c.flags
        BY <2>3, <3>4
      <4> QED
        BY <2>1, <2>4, <2>5, <2>10, <4>1 DEF Carries, DataTypes
    <3>7. c.flags \subseteq x.c.flags /\ x.c.flags \subseteq c.flags \cup {"SENT_EOF", "SENT_CLOSE"}
      BY <2>3, <3>4
    <3> QED
      BY <2>1, <2>3, <2>4, <2>5, <3>4, <3>6, <3>7 DEF Sends
  <2> QED
    BY <2>11, <2>12
<1> QED
  BY <1>1, <1>2

(* close_fd on an open socket.                                             *)
LEMMA CloseFdSound ==
  ASSUME NEW k \in Opens, NEW c, Sound(k, c), c.socket = "open", NEW s \in {"closed", "failed"},
         NEW x, x = close_fd(k, c, s)
  PROVE  Sound(k, x.c) /\ Sends(k, c, {}, x) /\ c.status \in {"live", "dead"}
<1>0. c \in Object /\ Phase(c) /\ Source(c) /\ Bounded(k, c)
  BY DEF Sound
<1> DEFINE left == c.buffered > 0
           d == [c EXCEPT !.socket = s, !.reading = FALSE, !.want_read = FALSE,
                          !.write_closed = TRUE, !.shut = FALSE, !.sources = 0,
                          !.buffered = 0, !.lost = left]
<1>a. left \in BOOLEAN
  OBVIOUS
<1>b. close_fd(k, c, s) = IF c.sources = 1 THEN channel_eof(k, Plain(d)) ELSE Plain(d)
  BY DEF close_fd
<1> HIDE DEF left
<1>1. d \in Object
  BY <1>0, <1>a DEF Object
<1>2. /\ d.status = c.status /\ d.flags = c.flags
      /\ d.local = c.local /\ d.remote = c.remote
      /\ d.socket = s /\ ~d.want_read /\ d.rec_window = c.rec_window
      /\ d.buffered = 0 /\ d.cookie = c.cookie
  BY <1>0 DEF Object
<1>3. x = channel_eof(k, Plain(d))
  BY <1>0, <1>b DEF Source
<1> HIDE DEF d
<1>4. c.status = "live" \/ (c.status = "dead" /\ CloseFlags \subseteq c.flags)
  BY <1>0 DEF Phase, Object
<1>5. Phase(d)
  BY <1>0, <1>2, <1>4 DEF Phase
<1>6. Bounded(k, d)
  BY <1>0, <1>2, WindowAssumption DEF Bounded, Object
<1>7. Sound(k, x.c) /\ Sends(k, d, {}, x)
  BY <1>1, <1>2, <1>3, <1>4, <1>5, <1>6, EofSound
<1>8. Sends(k, c, {}, x)
  BY <1>2, <1>7, ZenonT(40) DEF Sends, Carries
<1> QED
  BY <1>4, <1>7, <1>8

(* adjust_rec_window, when the write buffer has written some data.         *)
LEMMA WriteSound ==
  ASSUME NEW k \in Opens, NEW c, Sound(k, c), c.socket = "open",
         NEW written \in 1 .. c.buffered,
         NEW x, x = adjust_rec_window(k, [c EXCEPT !.buffered = @ - written], written)
  PROVE  Sound(k, x.c) /\ Sends(k, c, {}, x)
<1> DEFINE b == [c EXCEPT !.buffered = @ - written]
           d == [b EXCEPT !.rec_window = @ + written]
           m == Msg("ADJUST", k, b, written)
<1>0. c \in Object /\ Phase(c) /\ Source(c) /\ Bounded(k, c)
  BY DEF Sound
<1>1. c.buffered \in Nat /\ c.rec_window \in Nat /\ written \in Nat /\ Window[k] \in Nat
      /\ c.buffered - written \in Nat /\ c.buffered - written <= c.buffered
      /\ written > 0
  BY <1>0, WindowAssumption DEF Object
<1>2. b \in Object /\ b.buffered = c.buffered - written /\ b.rec_window = c.rec_window
      /\ b.status = c.status /\ b.flags = c.flags /\ b.local = c.local /\ b.remote = c.remote
      /\ b.socket = c.socket /\ b.sources = c.sources /\ b.want_read = c.want_read
      /\ b.reading = c.reading /\ b.send_window = c.send_window
      /\ b.cookie = c.cookie /\ b.write_closed = c.write_closed
  BY <1>0, <1>1 DEF Object
<1>a. x = IF b.flags \cap (CloseFlags \cup {"RECEIVED_EOF"}) # {}
            THEN Plain(b) ELSE [c |-> d, out |-> <<m>>]
  BY DEF adjust_rec_window
<1> HIDE DEF b
<1>3. d \in Object /\ d.buffered = c.buffered - written
      /\ d.rec_window = c.rec_window + written
      /\ d.status = c.status /\ d.flags = c.flags /\ d.local = c.local /\ d.remote = c.remote
      /\ d.socket = c.socket /\ d.sources = c.sources /\ d.want_read = c.want_read
      /\ d.reading = c.reading /\ d.send_window = c.send_window
      /\ d.cookie = c.cookie /\ d.write_closed = c.write_closed
  BY <1>1, <1>2 DEF Object
<1>m. m \in Packet /\ m.type = "ADJUST" /\ m.k = k /\ m.to = c.remote
  BY <1>1, <1>2, MsgType
<1> HIDE DEF d, m
<1>4. read_data_query(b) = read_data_query(c) /\ read_data_query(d) = read_data_query(c)
  BY <1>2, <1>3 DEF read_data_query
<1>5. ~c.cookie /\ c.rec_window + c.buffered <= Window[k]
  BY <1>0, <1>1 DEF Bounded
<1>6. Bounded(k, b) /\ Bounded(k, d)
  BY <1>1, <1>2, <1>3, <1>5 DEF Bounded
<1>7. Source(b) /\ Source(d)
  BY <1>0, <1>2, <1>3, <1>4, Zenon DEF Source
<1>8. Phase(b) /\ Phase(d)
  BY <1>0, <1>2, <1>3, Zenon DEF Phase
<1>9. CASE b.flags \cap (CloseFlags \cup {"RECEIVED_EOF"}) # {}
  <2>1. x.c = b /\ x.out = <<>>
    BY <1>9, <1>a DEF Plain
  <2> QED
    BY <1>2, <1>6, <1>7, <1>8, <2>1 DEF Sound, Sends
<1>10. CASE b.flags \cap (CloseFlags \cup {"RECEIVED_EOF"}) = {}
  <2>1. x.c = d /\ x.out = <<m>>
    BY <1>10, <1>a
  <2>2. "SENT_CLOSE" \notin c.flags /\ "RECEIVED_CLOSE" \notin c.flags
    BY <1>2, <1>10 DEF CloseFlags
  <2>3. c.status = "live"
    BY <1>0, <2>2 DEF Phase, Object, CloseFlags
  <2>4. Carries(k, c, d, m)
    BY <1>m, <2>2, <2>3 DEF Carries, DataTypes
  <2> QED
    BY <1>3, <1>6, <1>7, <1>8, <1>m, <2>1, <2>4 DEF Sound, Sends
<1> QED
  BY <1>9, <1>10

(* do_consuming_read                                                       *)
LEMMA ReadBlockedSound ==
  ASSUME NEW k \in Opens, NEW c, Sound(k, c), read_data_query(c) = 0,
         NEW x, x = Plain([c EXCEPT !.want_read = FALSE])
  PROVE  Sound(k, x.c) /\ Sends(k, c, {}, x)
<1> DEFINE d == [c EXCEPT !.want_read = FALSE]
<1>0. c \in Object /\ Phase(c) /\ Source(c) /\ Bounded(k, c)
  BY DEF Sound
<1>1. d \in Object /\ d.buffered = c.buffered /\ d.rec_window = c.rec_window
      /\ d.status = c.status /\ d.flags = c.flags /\ d.local = c.local /\ d.remote = c.remote
      /\ d.socket = c.socket /\ d.sources = c.sources /\ d.want_read = FALSE
      /\ d.reading = c.reading /\ d.send_window = c.send_window
      /\ d.cookie = c.cookie /\ d.write_closed = c.write_closed
  BY <1>0 DEF Object
<1>2. x.c = d /\ x.out = <<>>
  BY DEF Plain
<1> HIDE DEF d
<1>3. ~(read_data_query(d) > 0)
  BY <1>1 DEF read_data_query
<1>4. Source(d)
  BY <1>0, <1>1, <1>3, Zenon DEF Source
<1>5. Phase(d) /\ Bounded(k, d)
  BY <1>0, <1>1, Zenon DEF Phase, Bounded
<1> QED
  BY <1>1, <1>2, <1>4, <1>5 DEF Sound, Sends

(* do_consuming_read and do_channel_write                                  *)
LEMMA ReadDataSound ==
  ASSUME NEW k \in Opens, NEW c, Sound(k, c), c.want_read,
         NEW length \in 1 .. read_data_query(c), NEW x,
         x = [c |-> [c EXCEPT !.send_window = @ - length],
              out |-> <<Msg("DATA", k, c, length)>>]
  PROVE  Sound(k, x.c) /\ Sends(k, c, {}, x)
<1> DEFINE d == [c EXCEPT !.send_window = @ - length]
           m == Msg("DATA", k, c, length)
<1>0. c \in Object /\ Phase(c) /\ Source(c) /\ Bounded(k, c)
  BY DEF Sound
<1>1. c.send_window \in Nat
  BY <1>0 DEF Object
<1>2. c.flags \cap ({"SENT_EOF"} \cup CloseFlags) = {}
  BY DEF read_data_query
<1>3. length \in Nat /\ c.send_window - length \in Nat
  BY <1>1, BoundsAssumption DEF read_data_query, Least
<1>4. d \in Object /\ d.buffered = c.buffered /\ d.rec_window = c.rec_window
      /\ d.status = c.status /\ d.flags = c.flags /\ d.local = c.local /\ d.remote = c.remote
      /\ d.socket = c.socket /\ d.sources = c.sources /\ d.want_read = c.want_read
      /\ d.reading = c.reading
      /\ d.cookie = c.cookie /\ d.write_closed = c.write_closed
  BY <1>0, <1>3 DEF Object
<1>5. m \in Packet /\ m.type = "DATA" /\ m.k = k /\ m.to = c.remote
  BY <1>0, <1>3, MsgType
<1>6. x.c = d /\ x.out = <<m>>
  OBVIOUS
<1> HIDE DEF d, m
<1>7. Source(d)
  BY <1>0, <1>4, Zenon DEF Source
<1>8. Phase(d) /\ Bounded(k, d)
  BY <1>0, <1>4, Zenon DEF Phase, Bounded
<1>9. c.socket = "open"
  BY <1>0 DEF Source
<1>10. "SENT_CLOSE" \notin c.flags /\ "RECEIVED_CLOSE" \notin c.flags /\ "SENT_EOF" \notin c.flags
  BY <1>2 DEF CloseFlags
<1>11. c.status = "live"
  BY <1>0, <1>9, <1>10 DEF Phase, Object, CloseFlags
<1>12. Carries(k, c, d, m)
  BY <1>5, <1>10, <1>11 DEF Carries, DataTypes
<1> QED
  BY <1>4, <1>5, <1>6, <1>7, <1>8, <1>12 DEF Sound, Sends

(* do_consuming_read at the end of the file                                *)
LEMMA ReadEofSound ==
  ASSUME NEW k \in Opens, NEW c, Sound(k, c), c.want_read, read_data_query(c) > 0, NEW x,
         x = channel_eof(k, Plain([c EXCEPT !.want_read = FALSE, !.reading = FALSE]))
  PROVE  Sound(k, x.c) /\ Sends(k, c, {}, x)
<1> DEFINE d == [c EXCEPT !.want_read = FALSE, !.reading = FALSE]
<1>0. c \in Object /\ Phase(c) /\ Source(c) /\ Bounded(k, c)
  BY DEF Sound
<1>1. d \in Object /\ d.buffered = c.buffered /\ d.rec_window = c.rec_window
      /\ d.status = c.status /\ d.flags = c.flags /\ d.local = c.local /\ d.remote = c.remote
      /\ d.socket = c.socket /\ d.sources = c.sources /\ d.want_read = FALSE
      /\ d.cookie = c.cookie /\ d.write_closed = c.write_closed
  BY <1>0 DEF Object
<1> HIDE DEF d
<1>2. c.socket = "open" /\ (c.socket = "open" => c.sources = 1)
  BY <1>0 DEF Source
<1>3. c.status = "live" \/ (c.status = "dead" /\ CloseFlags \subseteq c.flags)
  BY <1>0, <1>2 DEF Phase, Object
<1>4. Phase(d) /\ Bounded(k, d)
  BY <1>0, <1>1, Zenon DEF Phase, Bounded
<1>5. x = channel_eof(k, Plain(d))
  BY DEF d
<1>6. Sound(k, x.c) /\ Sends(k, d, {}, x)
  BY <1>1, <1>2, <1>3, <1>4, <1>5, EofSound
<1> QED
  BY <1>1, <1>6, ZenonT(40) DEF Sends, Carries

(* window_adjust_handler                                                   *)
LEMMA AdjustSound ==
  ASSUME NEW k \in Opens, NEW c, Sound(k, c), c.status = "live", NEW size \in Nat,
         c.flags \cap {"SENT_CLOSE", "SENT_EOF"} = {}, "RECEIVED_CLOSE" \notin c.flags,
         NEW x, x = Plain([c EXCEPT !.send_window = @ + size, !.want_read = TRUE])
  PROVE  Sound(k, x.c) /\ Sends(k, c, {}, x)
<1> DEFINE d == [c EXCEPT !.send_window = @ + size, !.want_read = TRUE]
<1>0. c \in Object /\ Phase(c) /\ Source(c) /\ Bounded(k, c)
  BY DEF Sound
<1>1. c.send_window + size \in Nat
  BY <1>0 DEF Object
<1>2. d \in Object /\ d.buffered = c.buffered /\ d.rec_window = c.rec_window
      /\ d.status = c.status /\ d.flags = c.flags /\ d.local = c.local /\ d.remote = c.remote
      /\ d.socket = c.socket /\ d.sources = c.sources /\ d.want_read = TRUE
      /\ d.reading = c.reading
      /\ d.cookie = c.cookie /\ d.write_closed = c.write_closed
  BY <1>0, <1>1 DEF Object
<1>3. x.c = d /\ x.out = <<>>
  BY DEF Plain
<1> HIDE DEF d
<1>4. c.flags \cap ({"SENT_EOF"} \cup CloseFlags) = {}
  BY DEF CloseFlags
<1>5. c.socket = "open" /\ c.reading
  BY <1>0, <1>4 DEF Source
<1>6. Source(d)
  BY <1>0, <1>2, <1>5, Zenon DEF Source
<1>7. Phase(d)
  BY <1>0, <1>2 DEF Phase
<1>8. Bounded(k, d)
  BY <1>0, <1>2 DEF Bounded
<1> QED
  BY <1>2, <1>3, <1>6, <1>7, <1>8 DEF Sound, Sends

(* What has been received and is still to be passed on.                    *)
LEMMA TakenSound ==
  ASSUME NEW k \in Opens, NEW c, Sound(k, c), c.status = "live",
         NEW length \in 1 .. c.rec_window,
         NEW d, d = [c EXCEPT !.rec_window = @ - length]
  PROVE  /\ Sound(k, d) /\ d.status = "live" /\ d.flags = c.flags
         /\ d.local = c.local /\ d.remote = c.remote /\ d.cookie = c.cookie
         /\ length \in Nat /\ d.rec_window \in Nat /\ d.buffered \in Nat
         /\ d.rec_window + d.buffered + length <= Window[k]
<1>0. c \in Object /\ Phase(c) /\ Source(c) /\ Bounded(k, c)
  BY DEF Sound
<1>1. c.rec_window \in Nat /\ c.buffered \in Nat /\ length \in Nat /\ Window[k] \in Nat
      /\ c.rec_window - length \in Nat /\ c.rec_window + c.buffered <= Window[k]
  BY <1>0, WindowAssumption DEF Object, Bounded
<1>2. d \in Object /\ d.buffered = c.buffered /\ d.rec_window = c.rec_window - length
      /\ d.status = c.status /\ d.flags = c.flags /\ d.local = c.local /\ d.remote = c.remote
      /\ d.socket = c.socket /\ d.sources = c.sources /\ d.want_read = c.want_read
      /\ d.reading = c.reading /\ d.send_window = c.send_window
      /\ d.cookie = c.cookie /\ d.write_closed = c.write_closed
  BY <1>0, <1>1 DEF Object
<1>3. read_data_query(d) = read_data_query(c)
  BY <1>2 DEF read_data_query
<1>4. Source(d)
  BY <1>0, <1>2, <1>3, Zenon DEF Source
<1>5. Phase(d)
  BY <1>0, <1>2 DEF Phase
<1>6. Bounded(k, d)
  BY <1>0, <1>1, <1>2 DEF Bounded
<1>7. d.rec_window + d.buffered + length <= Window[k]
  BY <1>1, <1>2
<1> QED
  BY <1>1, <1>2, <1>4, <1>5, <1>6, <1>7 DEF Sound

(* do_channel_forward_receive                                              *)
LEMMA BufferSound ==
  ASSUME NEW k \in Opens, NEW c, Sound(k, c), c.status = "live",
         NEW length \in Nat, c.rec_window + c.buffered + length <= Window[k],
         NEW d, d = Buffer([c EXCEPT !.cookie = FALSE], length)
  PROVE  /\ Sound(k, d) /\ d.status = "live" /\ d.flags = c.flags
         /\ d.local = c.local /\ d.remote = c.remote /\ ~d.cookie
         /\ d.rec_window = c.rec_window /\ d.buffered \in Nat
         /\ d.buffered <= c.buffered + length
<1> DEFINE b == [c EXCEPT !.cookie = FALSE]
           filled == IF c.write_closed THEN c.buffered ELSE c.buffered + length
<1>0. c \in Object /\ Phase(c) /\ Source(c) /\ Bounded(k, c)
  BY DEF Sound
<1>1. c.rec_window \in Nat /\ c.buffered \in Nat /\ Window[k] \in Nat
      /\ filled \in Nat /\ c.rec_window + filled <= Window[k] /\ filled <= c.buffered + length
  BY <1>0, WindowAssumption DEF Object
<1>2. b \in Object /\ b.buffered = c.buffered /\ b.rec_window = c.rec_window
      /\ b.status = c.status /\ b.flags = c.flags /\ b.local = c.local /\ b.remote = c.remote
      /\ b.socket = c.socket /\ b.sources = c.sources /\ b.want_read = c.want_read
      /\ b.reading = c.reading /\ b.send_window = c.send_window
      /\ b.cookie = FALSE /\ b.write_closed = c.write_closed
  BY <1>0 DEF Object
<1>3. d = [b EXCEPT !.buffered = filled]
  BY <1>2 DEF Buffer
<1> HIDE DEF b, filled
<1>4. d \in Object /\ d.buffered = filled /\ d.rec_window = c.rec_window
      /\ d.status = c.status /\ d.flags = c.flags /\ d.local = c.local /\ d.remote = c.remote
      /\ d.socket = c.socket /\ d.sources = c.sources /\ d.want_read = c.want_read
      /\ d.reading = c.reading /\ d.send_window = c.send_window
      /\ d.cookie = FALSE /\ d.write_closed = c.write_closed
  BY <1>1, <1>2, <1>3, ZenonT(40) DEF Object
<1>5. read_data_query(d) = read_data_query(c)
  BY <1>4 DEF read_data_query
<1>6. Source(d)
  BY <1>0, <1>4, <1>5, Zenon DEF Source
<1>7. Phase(d)
  BY <1>0, <1>4 DEF Phase
<1>8. Bounded(k, d)
  BY <1>1, <1>4 DEF Bounded
<1> QED
  BY <1>1, <1>4, <1>6, <1>7, <1>8 DEF Sound

(* channel_close as the answer of a handler.                               *)
LEMMA CloseSends ==
  ASSUME NEW k \in Opens, NEW c, Working(k, c), Phase(c), NEW x, x = channel_close(k, Plain(c))
  PROVE  Sound(k, x.c) /\ Sends(k, c, {}, x) /\ "SENT_CLOSE" \in x.c.flags
<1>0. c \in Object /\ c.status = "live" /\ Source(c) /\ Bounded(k, c)
  BY DEF Working
<1>1. Plain(c) = [c |-> c, out |-> <<>>] /\ Plain(c).c = c /\ Plain(c).out = <<>>
  BY DEF Plain
<1>2. CASE "SENT_CLOSE" \in c.flags
  <2>1. x = Plain(c)
    BY <1>1, <1>2 DEF channel_close
  <2> QED
    BY <1>0, <1>1, <1>2, <2>1 DEF Sound, Sends
<1>3. CASE "SENT_CLOSE" \notin c.flags
  <2> DEFINE m == Msg("CLOSE", k, c, 0)
  <2>1. /\ Sound(k, x.c)
        /\ x.c.status = "live" \/ (x.c.status = "dead" /\ CloseFlags \subseteq x.c.flags)
        /\ x.c.local = c.local /\ x.c.remote = c.remote
        /\ x.c.flags = c.flags \cup {"SENT_CLOSE"}
        /\ x.out = Append(<<>>, m)
    BY <1>1, <1>3, CloseSound
  <2>2. m \in Packet /\ m.type = "CLOSE" /\ m.k = k /\ m.to = c.remote
    BY <1>0, MsgType
  <2> HIDE DEF m
  <2>3. x.out = <<m>>
    BY <2>1
  <2>4. Carries(k, c, x.c, m)
    BY <1>0, <1>3, <2>1, <2>2 DEF Carries, DataTypes
  <2> QED
    BY <1>0, <2>1, <2>2, <2>3, <2>4 DEF Sends
<1> QED
  BY <1>2, <1>3

LEMMA SoundWorks ==
  ASSUME NEW k \in Opens, NEW c, Sound(k, c), c.status = "live"
  PROVE  Working(k, c) /\ Phase(c)
BY DEF Sound, Working, Phase

(* channel_data_handler with CHANNEL_RECEIVE                               *)
LEMMA DataSound ==
  ASSUME NEW k \in Opens, NEW c, Sound(k, c), c.status = "live",
         c.flags \cap (CloseFlags \cup {"RECEIVED_EOF"}) = {},
         NEW length \in 1 .. c.rec_window,
         NEW x \in Received(k, [c EXCEPT !.rec_window = @ - length], length)
  PROVE  Sound(k, x.c) /\ Sends(k, c, {}, x)
<1> DEFINE d == [c EXCEPT !.rec_window = @ - length]
           b == Buffer([d EXCEPT !.cookie = FALSE], Setup)
<1>1. /\ Sound(k, d) /\ d.status = "live" /\ d.flags = c.flags
      /\ d.local = c.local /\ d.remote = c.remote /\ d.cookie = c.cookie
      /\ length \in Nat /\ d.rec_window \in Nat /\ d.buffered \in Nat
      /\ d.rec_window + d.buffered + length <= Window[k]
  BY TakenSound
<1>2. x \in Received(k, d, length)
  OBVIOUS
<1> HIDE DEF d
<1>3. SUFFICES Sound(k, x.c) /\ Sends(k, d, {}, x)
  BY <1>1 DEF Sends, Carries
<1>4. CASE ~d.cookie
  <2>1. x = Plain(Buffer(d, length))
    BY <1>2, <1>4 DEF Received
  <2>2. d = [d EXCEPT !.cookie = FALSE]
    BY <1>1, <1>4 DEF Sound, Object
  <2> DEFINE f == Buffer(d, length)
  <2>3. f = Buffer([d EXCEPT !.cookie = FALSE], length)
    BY <2>2
  <2> HIDE DEF f
  <2>4. Sound(k, f) /\ f.status = "live" /\ f.flags = d.flags /\ f.local = d.local /\ f.remote = d.remote
    BY <1>1, <2>3, BufferSound
  <2>5. x.c = f /\ x.out = <<>>
    BY <2>1 DEF Plain, f
  <2> QED
    BY <1>1, <2>4, <2>5 DEF Sends
<1>5. CASE d.cookie /\ d.rec_window > 0 /\ x = Plain(d)
  <2>1. x.c = d /\ x.out = <<>>
    BY <1>5 DEF Plain
  <2> QED
    BY <1>1, <2>1 DEF Sends
<1>6. CASE d.cookie /\ ~(d.rec_window > 0) /\ x = channel_start_receive(k, b, Window[k] - Setup)
  <2>1. d.buffered = 0 /\ k \in X11 /\ d.rec_window = 0
    BY <1>1, <1>6 DEF Sound, Bounded
  <2>2. Window[k] \in Nat /\ Setup \in Nat /\ Window[k] > Setup
    BY <2>1, WindowAssumption, X11Assumption
  <2>3. d.rec_window + d.buffered + Setup <= Window[k]
    BY <2>1, <2>2
  <2>4. /\ Sound(k, b) /\ b.status = "live" /\ b.flags = d.flags
        /\ b.local = d.local /\ b.remote = d.remote /\ ~b.cookie
        /\ b.rec_window = 0 /\ b.buffered \in Nat /\ b.buffered <= Setup
    BY <1>1, <2>1, <2>2, <2>3, BufferSound
  <2> HIDE DEF b
  <2> DEFINE w == Window[k] - Setup
             g == [b EXCEPT !.rec_window = w]
             m == Msg("ADJUST", k, b, w)
  <2>5. w \in Nat /\ 0 < w /\ w - 0 = w /\ w + b.buffered <= Window[k]
    BY <2>2, <2>4
  <2> HIDE DEF w
  <2>6. x = [c |-> g, out |-> <<m>>]
    BY <1>6, <2>4, <2>5 DEF channel_start_receive, w
  <2>7. b \in Object /\ Phase(b) /\ Source(b) /\ Bounded(k, b)
    BY <2>4 DEF Sound
  <2>8. g \in Object /\ g.buffered = b.buffered /\ g.rec_window = w
        /\ g.status = b.status /\ g.flags = b.flags /\ g.local = b.local /\ g.remote = b.remote
        /\ g.socket = b.socket /\ g.sources = b.sources /\ g.want_read = b.want_read
        /\ g.reading = b.reading /\ g.send_window = b.send_window
        /\ g.cookie = b.cookie /\ g.write_closed = b.write_closed
    BY <2>5, <2>7 DEF Object
  <2>9. m \in Packet /\ m.type = "ADJUST" /\ m.k = k /\ m.to = b.remote
    BY <2>5, <2>7, MsgType
  <2> HIDE DEF g, m
  <2>10. read_data_query(g) = read_data_query(b)
    BY <2>8 DEF read_data_query
  <2>11. Source(g)
    BY <2>7, <2>8, <2>10, Zenon DEF Source
  <2>12. Phase(g)
    BY <2>7, <2>8 DEF Phase
  <2>13. Bounded(k, g)
    BY <2>4, <2>5, <2>8 DEF Bounded
  <2>14. "SENT_CLOSE" \notin d.flags
    BY <1>1 DEF CloseFlags
  <2>15. Carries(k, d, g, m)
    BY <1>1, <2>4, <2>9, <2>14 DEF Carries, DataTypes
  <2>16. x.c = g /\ x.out = <<m>>
    BY <2>6
  <2> QED
    BY <1>1, <2>4, <2>8, <2>9, <2>11, <2>12, <2>13, <2>15, <2>16 DEF Sends, Sound
<1>7. CASE x = channel_close(k, Plain(d))
  BY <1>1, <1>7, SoundWorks, CloseSends
<1> QED
  BY <1>2, <1>4, <1>5, <1>6, <1>7 DEF Received

(* An established object that has got EOF or CLOSE.                        *)
Gets(c, g, s) == [c EXCEPT !.flags = @ \cup {g}, !.shut = s]

LEMMA GotWorks ==
  ASSUME NEW k \in Opens, NEW c, Sound(k, c), c.status = "live",
         NEW g \in {"RECEIVED_EOF", "RECEIVED_CLOSE"}, NEW s \in BOOLEAN,
         NEW d, d = Gets(c, g, s)
  PROVE  /\ Working(k, d)
         /\ d.flags = c.flags \cup {g} /\ d.local = c.local /\ d.remote = c.remote
<1>0. c \in Object /\ Phase(c) /\ Source(c) /\ Bounded(k, c)
  BY DEF Sound
<1>1. d \in Object
  BY <1>0 DEF Object, Flags, CloseFlags, Gets
<1>2. /\ d.buffered = c.buffered /\ d.rec_window = c.rec_window
      /\ d.status = c.status /\ d.flags = c.flags \cup {g}
      /\ d.local = c.local /\ d.remote = c.remote
      /\ d.socket = c.socket /\ d.sources = c.sources /\ d.want_read = c.want_read
      /\ d.reading = c.reading /\ d.send_window = c.send_window
      /\ d.cookie = c.cookie
  BY <1>0 DEF Object, Gets
<1>3. /\ read_data_query(d) > 0 => read_data_query(c) > 0
      /\ d.flags \cap ({"SENT_EOF"} \cup CloseFlags) = {} =>
           c.flags \cap ({"SENT_EOF"} \cup CloseFlags) = {}
  BY <1>2 DEF read_data_query
<1>4. Source(d)
  BY <1>0, <1>2, <1>3, Zenon DEF Source
<1>5. Bounded(k, d)
  BY <1>0, <1>2 DEF Bounded
<1>6. d.socket # "idle"
  BY <1>0, <1>2 DEF Phase
<1> QED
  BY <1>1, <1>2, <1>4, <1>5, <1>6 DEF Working

(* channel_eof_handler                                                     *)
LEMMA EofHandlerSound ==
  ASSUME NEW k \in Opens, NEW c, Sound(k, c), c.status = "live",
         NEW d, d = [c EXCEPT !.flags = @ \cup {"RECEIVED_EOF"},
                              !.shut = @ \/ c.socket = "open"],
         NEW x, x = IF "SENT_EOF" \in c.flags THEN channel_close(k, Plain(d)) ELSE Plain(d)
  PROVE  Sound(k, x.c) /\ Sends(k, c, {"RECEIVED_EOF"}, x)
<1> DEFINE s == c.shut \/ c.socket = "open"
<1>1. s \in BOOLEAN
  OBVIOUS
<1>2. d = Gets(c, "RECEIVED_EOF", s)
  BY DEF Gets
<1> HIDE DEF s
<1>3. /\ Working(k, d)
      /\ d.flags = c.flags \cup {"RECEIVED_EOF"} /\ d.local = c.local /\ d.remote = c.remote
  BY <1>1, <1>2, GotWorks
<1>4. d.status = "live" /\ d.socket # "idle"
  BY <1>3 DEF Working
<1>5. Phase(d)
  BY <1>3, <1>4 DEF Sound, Phase, CloseFlags
<1>6. Sound(k, x.c) /\ Sends(k, d, {}, x)
  <2>1. CASE "SENT_EOF" \in c.flags
    BY <1>3, <1>5, <2>1, CloseSends
  <2>2. CASE "SENT_EOF" \notin c.flags
    <3>1. x.c = d /\ x.out = <<>>
      BY <2>2 DEF Plain
    <3> QED
      BY <1>3, <1>5, <3>1 DEF Sends, Sound, Working
  <2> QED
    BY <2>1, <2>2
<1> QED
  BY <1>3, <1>4, <1>6, ZenonT(40) DEF Sends, Carries

(* channel_close_handler                                                   *)
LEMMA CloseHandlerSound ==
  ASSUME NEW k \in Opens, NEW c, Sound(k, c), c.status = "live",
         NEW d, d = [c EXCEPT !.flags = @ \cup {"RECEIVED_CLOSE"}],
         NEW x, x = IF "SENT_CLOSE" \in c.flags THEN Plain(Finish(d))
                                                ELSE channel_close(k, Plain(d))
  PROVE  /\ Sound(k, x.c) /\ Sends(k, c, {"RECEIVED_CLOSE"}, x)
         /\ x.c.status = "dead" /\ CloseFlags \subseteq x.c.flags
<1>1. d = Gets(c, "RECEIVED_CLOSE", c.shut) /\ c.shut \in BOOLEAN
  BY DEF Sound, Object, Gets
<1>2. /\ Working(k, d)
      /\ d.flags = c.flags \cup {"RECEIVED_CLOSE"} /\ d.local = c.local /\ d.remote = c.remote
  BY <1>1, GotWorks
<1>3. d \in Object /\ d.status = "live" /\ d.socket # "idle" /\ Source(d) /\ Bounded(k, d)
  BY <1>2 DEF Working
<1>4. CASE "SENT_CLOSE" \in c.flags
  <2>1. x.c = Finish(d) /\ x.out = <<>>
    BY <1>4 DEF Plain
  <2>2. CloseFlags \subseteq d.flags
    BY <1>2, <1>4 DEF CloseFlags
  <2>3. Sound(k, x.c) /\ x.c.status = "dead" /\ x.c.flags = d.flags
        /\ x.c.local = d.local /\ x.c.remote = d.remote
    BY <1>3, <2>1, <2>2, FinishSound, ZenonT(40)
  <2> QED
    BY <1>2, <2>1, <2>2, <2>3 DEF Sends
<1>5. CASE "SENT_CLOSE" \notin c.flags
  <2>1. Phase(d)
    BY <1>2, <1>3, <1>5 DEF Phase, CloseFlags
  <2>2. x = channel_close(k, Plain(d))
    BY <1>5
  <2>3. Sound(k, x.c) /\ Sends(k, d, {}, x) /\ "SENT_CLOSE" \in x.c.flags
    BY <1>2, <2>1, <2>2, CloseSends
  <2>4. Sends(k, c, {"RECEIVED_CLOSE"}, x)
    BY <1>2, <1>3, <2>3, ZenonT(40) DEF Sends, Carries
  <2>7. CloseFlags \subseteq x.c.flags
    BY <1>2, <2>3 DEF CloseFlags, Sends
  <2>8. x.c.status = "dead"
    BY <1>3, <2>3, <2>7 DEF Sends, Sound, Phase
  <2> QED
    BY <2>3, <2>4, <2>7, <2>8
<1> QED
  BY <1>4, <1>5

-----------------------------------------------------------------------------
(* The packets on their way.                                               *)

LEMMA TailOf ==
  ASSUME NEW k, NEW box \in Seq(Packet), box # <<>>
  PROVE  /\ Tail(box) \in Seq(Packet) /\ Len(Tail(box)) = Len(box) - 1
         /\ Head(box) = box[1] /\ 1 \in 1 .. Len(box)
         /\ \A i \in 1 .. Len(Tail(box)) : Tail(box)[i] = box[i + 1]
         /\ \A i \in Of(k, Tail(box)) : i + 1 \in Of(k, box)
         /\ \A i \in Of(k, box) : i # 1 => i - 1 \in Of(k, Tail(box)) /\ Tail(box)[i - 1] = box[i]
BY DEF Of

LEMMA AppendOf ==
  ASSUME NEW k, NEW box \in Seq(Packet), NEW m \in Packet
  PROVE  /\ Append(box, m) \in Seq(Packet) /\ Len(Append(box, m)) = Len(box) + 1
         /\ Append(box, m)[Len(box) + 1] = m
         /\ \A i \in 1 .. Len(box) : Append(box, m)[i] = box[i]
         /\ Of(k, box) \subseteq Of(k, Append(box, m))
         /\ Of(k, Append(box, m)) \subseteq Of(k, box) \cup {Len(box) + 1}
         /\ m.k # k => Of(k, Append(box, m)) = Of(k, box)
BY DEF Of

LEMMA LinkEmpty ==
  ASSUME NEW k, NEW box, NEW s, NEW r, NEW up, Of(k, box) = {}, Got(k, box, s, r)
  PROVE  Link(k, box, s, r, up)
BY DEF Link, Ordered

(* What the first packet tells.                                            *)
LEMMA LinkHead ==
  ASSUME NEW k, NEW box \in Seq(Packet), box # <<>>, NEW s, NEW r, NEW up,
         Link(k, box, s, r, up), Head(box).k = k
  PROVE  /\ Fits(k, box, 1, s, r, up) /\ 1 \in Of(k, box)
         /\ Head(box).type \in DataTypes =>
              /\ s.status \in {"live", "dead"} /\ Head(box).to = r.local /\ r.status = "live"
              /\ "RECEIVED_CLOSE" \notin r.flags
         /\ Head(box).type = "EOF" =>
              /\ "SENT_EOF" \in s.flags /\ "RECEIVED_EOF" \notin r.flags
              /\ \A i \in Of(k, Tail(box)) : Tail(box)[i].type # "EOF"
         /\ Head(box).type = "CLOSE" => "SENT_CLOSE" \in s.flags
         /\ Head(box).type \in {"OPEN", "FAILURE", "CLOSE"} => Of(k, Tail(box)) = {}
         /\ \A i \in Of(k, Tail(box)) : Tail(box)[i].type \in DataTypes
<1>1. 1 \in Of(k, box) /\ Head(box) = box[1]
  BY TailOf DEF Of
<1>2. Fits(k, box, 1, s, r, up)
  BY <1>1 DEF Link
<1>3. ~ \E j \in Of(k, box) : j < 1
  BY DEF Of
<1>4. ASSUME NEW i \in Of(k, Tail(box))
      PROVE  /\ Tail(box)[i] = box[i + 1] /\ i + 1 \in Of(k, box) /\ 1 < i + 1
  <2>1. i \in 1 .. Len(Tail(box))
    BY DEF Of
  <2> QED
    BY <2>1, TailOf
<1>5. ASSUME NEW i \in Of(k, Tail(box))
      PROVE  /\ Tail(box)[i].type \in DataTypes
             /\ Head(box).type \notin {"OPEN", "FAILURE", "CLOSE"}
             /\ Head(box).type = "EOF" => Tail(box)[i].type # "EOF"
  BY <1>1, <1>4 DEF Link, Ordered
<1>6. "RECEIVED_CLOSE" \notin r.flags
  BY <1>1 DEF Link, Got
<1>7. Head(box).type \in {"OPEN", "FAILURE", "CLOSE"} => Of(k, Tail(box)) = {}
  BY <1>5
<1>8. Head(box).type \in DataTypes =>
        s.status \in {"live", "dead"} /\ Head(box).to = r.local /\ r.status = "live"
  BY <1>1, <1>2, <1>3 DEF Fits
<1>9. /\ Head(box).type = "EOF" => "SENT_EOF" \in s.flags /\ "RECEIVED_EOF" \notin r.flags
      /\ Head(box).type = "CLOSE" => "SENT_CLOSE" \in s.flags
  BY <1>1, <1>2 DEF Fits
<1> QED
  BY <1>1, <1>2, <1>5, <1>6, <1>7, <1>8, <1>9

(* The first packet is taken out, unless it is the CONFIRM of the channel. *)
LEMMA LinkPop ==
  ASSUME NEW k, NEW box \in Seq(Packet), box # <<>>, NEW s, NEW r, NEW up,
         Link(k, box, s, r, up), Head(box).k = k => Head(box).type # "CONFIRM"
  PROVE  Link(k, Tail(box), s, r, up)
<1> DEFINE t == Tail(box)
<1>1. ASSUME NEW i \in Of(k, t)
      PROVE  /\ i \in Nat /\ t[i] = box[i + 1] /\ i + 1 \in Of(k, box)
  <2>1. i \in 1 .. Len(t)
    BY DEF Of
  <2> QED
    BY <2>1, TailOf
<1>2. ASSUME NEW j \in Of(k, box), box[j].type = "CONFIRM"
      PROVE  j \in Nat /\ j - 1 \in Of(k, t) /\ t[j - 1] = box[j]
  <2>1. j # 1 \/ Head(box).k # k
    BY <1>2, TailOf
  <2>2. j # 1
    BY <1>2, <2>1, TailOf DEF Of
  <2>3. j \in Nat
    BY DEF Of
  <2> QED
    BY <2>2, <2>3, TailOf
<1> HIDE DEF t
<1>3. ASSUME NEW i \in Of(k, t)
      PROVE  Fits(k, t, i, s, r, up)
  <2>1. Fits(k, box, i + 1, s, r, up) /\ t[i] = box[i + 1] /\ i \in Nat
    BY <1>1 DEF Link
  <2>2. ASSUME NEW j \in Of(k, box), j < i + 1, box[j].type = "CONFIRM"
        PROVE  \E l \in Of(k, t) : l < i /\ t[l].type = "CONFIRM"
    <3>1. j \in Nat /\ j - 1 \in Of(k, t) /\ t[j - 1].type = "CONFIRM"
      BY <1>2, <2>2
    <3>2. j - 1 < i
      BY <2>1, <2>2, <3>1
    <3> QED
      BY <3>1, <3>2
  <2> QED
    BY <2>1, <2>2, Zenon DEF Fits
<1>4. Ordered(k, t)
  <2> SUFFICES ASSUME NEW i \in Of(k, t), NEW j \in Of(k, t), i < j
               PROVE  /\ t[i].type \notin {"OPEN", "FAILURE", "CLOSE"}
                      /\ t[j].type \in DataTypes
                      /\ t[i].type = "EOF" => t[j].type \notin {"EOF", "DATA"}
    BY DEF Ordered
  <2>1. /\ i \in Nat /\ t[i] = box[i + 1] /\ i + 1 \in Of(k, box)
        /\ j \in Nat /\ t[j] = box[j + 1] /\ j + 1 \in Of(k, box)
    BY <1>1
  <2>2. i + 1 < j + 1
    BY <2>1
  <2> QED
    BY <2>1, <2>2 DEF Link, Ordered
<1>5. Got(k, t, s, r)
  BY <1>1 DEF Link, Got
<1> QED
  BY <1>3, <1>4, <1>5 DEF Link, t

(* The object of the receiver changes.                                     *)
LEMMA LinkReceiver ==
  ASSUME NEW k, NEW box, NEW s, NEW r, NEW d, NEW up, Link(k, box, s, r, up),
         d.local = r.local,
         \/ d.status = r.status
         \/ r.status = "live" /\ d.status = "dead" /\ Of(k, box) = {},
         "RECEIVED_CLOSE" \in d.flags => "SENT_CLOSE" \in s.flags /\ Of(k, box) = {},
         "RECEIVED_EOF" \in d.flags =>
           "RECEIVED_EOF" \in r.flags \/
           ("SENT_EOF" \in s.flags /\ \A i \in Of(k, box) : box[i].type # "EOF")
  PROVE  Link(k, box, s, d, up)
<1>1. Got(k, box, s, d)
  BY DEF Link, Got
<1>2. CASE Of(k, box) = {}
  BY <1>1, <1>2, LinkEmpty
<1>3. CASE d.status = r.status
  <2>1. ASSUME NEW i \in Of(k, box)
        PROVE  Fits(k, box, i, s, d, up)
    <3>1. Fits(k, box, i, s, r, up)
      BY DEF Link
    <3> QED
      BY <1>3, <3>1, Zenon DEF Fits
  <2> QED
    BY <1>1, <2>1 DEF Link
<1> QED
  BY <1>2, <1>3

(* The object of the sender changes.                                       *)
LEMMA LinkSender ==
  ASSUME NEW k, NEW box, NEW s, NEW d, NEW r, NEW up, Link(k, box, s, r, up),
         d.local = s.local, s.flags \subseteq d.flags,
         \/ d.status = s.status
         \/ s.status = "live" /\ d.status = "dead" /\ r.status # "opening"
  PROVE  Link(k, box, d, r, up)
<1>1. Got(k, box, d, r) /\ Ordered(k, box)
  BY DEF Link, Got
<1>2. ASSUME NEW i \in Of(k, box)
      PROVE  Fits(k, box, i, d, r, up)
  <2>1. Fits(k, box, i, s, r, up)
    BY DEF Link
  <2>2. \/ d.status = s.status
        \/ s.status = "live" /\ d.status = "dead" /\ r.status # "opening"
    OBVIOUS
  <2> QED
    BY <2>1, <2>2 DEF Fits
<1> QED
  BY <1>1, <1>2 DEF Link

(* A packet about the channel is sent while the sender's object goes from  *)
(* s to d.                                                                 *)
LEMMA LinkSend ==
  ASSUME NEW k, NEW box \in Seq(Packet), NEW s, NEW d, NEW r, NEW up, NEW m \in Packet,
         Link(k, box, s, r, up), Carries(k, s, d, m), m.to = r.local,
         d.local = s.local, s.flags \subseteq d.flags,
         \/ d.status = s.status
         \/ d.status = "dead" /\ r.status # "opening",
         \/ r.status = "live"
         \/ r.status = "opening" /\ Confirmed(k, box)
  PROVE  Link(k, Append(box, m), d, r, up)
<1> DEFINE b == Append(box, m)
           n == Len(box) + 1
<1>0. /\ m.k = k /\ m.type \in DataTypes /\ s.status = "live" /\ "SENT_CLOSE" \notin s.flags
      /\ m.type \in {"EOF", "DATA"} => "SENT_EOF" \notin s.flags
      /\ m.type = "EOF" => "SENT_EOF" \in d.flags
      /\ m.type = "CLOSE" => "SENT_CLOSE" \in d.flags
  BY DEF Carries
<1>1. /\ b[n] = m /\ n \in Of(k, b) /\ Of(k, b) = Of(k, box) \cup {n}
      /\ \A i \in Of(k, box) : b[i] = box[i] /\ i < n /\ i \in Nat
  <2>1. \A i \in Of(k, box) : i \in 1 .. Len(box)
    BY DEF Of
  <2>2. Len(box) \in Nat /\ Len(b) = n /\ b[n] = m
    BY AppendOf
  <2>3. n \in Of(k, b)
    BY <1>0, <2>2 DEF Of
  <2> QED
    BY <2>1, <2>2, <2>3, AppendOf
<1> HIDE DEF b, n
<1>2. Link(k, box, d, r, up)
  BY <1>0, LinkSender
<1>3. ASSUME NEW i \in Of(k, box)
      PROVE  /\ Fits(k, box, i, s, r, up) /\ Fits(k, box, i, d, r, up)
             /\ box[i].type \notin {"OPEN", "FAILURE", "CLOSE"}
  <2>1. Fits(k, box, i, s, r, up) /\ Fits(k, box, i, d, r, up)
    BY <1>2 DEF Link
  <2> QED
    BY <1>0, <2>1 DEF Fits
<1>4. ASSUME NEW i \in Of(k, b)
      PROVE  Fits(k, b, i, d, r, up)
  <2>1. CASE i \in Of(k, box)
    <3>1. Fits(k, box, i, d, r, up) /\ b[i] = box[i]
      BY <1>1, <1>3, <2>1
    <3>2. (\E j \in Of(k, box) : j < i /\ box[j].type = "CONFIRM") =>
            \E j \in Of(k, b) : j < i /\ b[j].type = "CONFIRM"
      BY <1>1
    <3> QED
      BY <3>1, <3>2, Zenon DEF Fits
  <2>2. CASE i = n
    <3>1. r.status = "opening" => \E j \in Of(k, b) : j < n /\ b[j].type = "CONFIRM"
      BY <1>1 DEF Confirmed
    <3>2. m.type = "EOF" => "RECEIVED_EOF" \notin r.flags
      BY <1>0 DEF Link, Got
    <3>3. d.status \in {"live", "dead"}
      BY <1>0
    <3>4. b[i] = m
      BY <1>1, <2>2
    <3> QED
      BY <1>0, <2>2, <3>1, <3>2, <3>3, <3>4 DEF Fits, DataTypes
  <2> QED
    BY <1>1, <2>1, <2>2
<1>5. Ordered(k, b)
  <2> SUFFICES ASSUME NEW i \in Of(k, b), NEW j \in Of(k, b), i < j
               PROVE  /\ b[i].type \notin {"OPEN", "FAILURE", "CLOSE"}
                      /\ b[j].type \in DataTypes
                      /\ b[i].type = "EOF" => b[j].type \notin {"EOF", "DATA"}
    BY DEF Ordered
  <2>0. n \in Nat
    BY AppendOf DEF n
  <2>1. i \in Of(k, box)
    BY <1>1, <2>0
  <2>2. b[i] = box[i] /\ box[i].type \notin {"OPEN", "FAILURE", "CLOSE"}
        /\ (box[i].type = "EOF" => "SENT_EOF" \in s.flags)
    BY <1>1, <1>3, <2>1 DEF Fits
  <2>3. CASE j \in Of(k, box)
    <3>1. b[j] = box[j]
      BY <1>1, <2>3
    <3> QED
      BY <2>1, <2>2, <2>3, <3>1 DEF Link, Ordered
  <2>4. CASE j = n
    BY <1>0, <1>1, <2>2, <2>4
  <2> QED
    BY <1>1, <2>3, <2>4
<1>6. Got(k, b, d, r)
  BY <1>0 DEF Link, Got
<1> QED
  BY <1>4, <1>5, <1>6 DEF Link, b

(* A packet about another channel is sent.                                 *)
LEMMA LinkOther ==
  ASSUME NEW k, NEW box \in Seq(Packet), NEW s, NEW r, NEW up, NEW m \in Packet, m.k # k,
         Link(k, box, s, r, up)
  PROVE  Link(k, Append(box, m), s, r, up)
<1> DEFINE b == Append(box, m)
<1>1. Of(k, b) = Of(k, box) /\ \A i \in Of(k, box) : b[i] = box[i]
  BY AppendOf DEF Of
<1> HIDE DEF b
<1>2. ASSUME NEW i \in Of(k, box)
      PROVE  Fits(k, b, i, s, r, up)
  <2>1. Fits(k, box, i, s, r, up)
    BY DEF Link
  <2> QED
    BY <1>1, <2>1, Zenon DEF Fits
<1>3. Ordered(k, b)
  BY <1>1, Zenon DEF Link, Ordered
<1>4. Got(k, b, s, r)
  BY <1>1 DEF Link, Got
<1> QED
  BY <1>1, <1>2, <1>3, <1>4 DEF Link, b

LEMMA ConfirmedAppend ==
  ASSUME NEW k, NEW box \in Seq(Packet), NEW m \in Packet, Confirmed(k, box)
  PROVE  Confirmed(k, Append(box, m))
BY AppendOf DEF Confirmed, Of

LEMMA ConfirmedPop ==
  ASSUME NEW k, NEW box \in Seq(Packet), box # <<>>, Confirmed(k, box),
         Head(box).k = k => Head(box).type # "CONFIRM"
  PROVE  Confirmed(k, Tail(box))
<1>1. PICK i \in Of(k, box) : box[i].type = "CONFIRM"
  BY DEF Confirmed
<1>2. i # 1
  BY <1>1, TailOf DEF Of
<1>3. i - 1 \in Of(k, Tail(box)) /\ Tail(box)[i - 1] = box[i]
  BY <1>2, TailOf
<1> QED
  BY <1>1, <1>3 DEF Confirmed

LEMMA Concat ==
  ASSUME NEW box \in Seq(Packet), NEW m \in Packet, NEW n \in Packet
  PROVE  /\ box \o <<>> = box
         /\ box \o <<m>> = Append(box, m)
         /\ box \o Append(<<m>>, n) = Append(Append(box, m), n)
         /\ Append(box, m) \in Seq(Packet)
         /\ Append(Append(box, m), n) \in Seq(Packet)
<1>1. <<m>> \in Seq(Packet) /\ <<n>> \in Seq(Packet) /\ Append(box, m) \in Seq(Packet)
  OBVIOUS
<1>2. box \o <<>> = box
  BY ConcatEmptySeq
<1>3. box \o <<m>> = Append(box, m)
  BY AppendIsConcat
<1>4. Append(<<m>>, n) = <<m>> \o <<n>>
  BY <1>1, AppendIsConcat
<1>5. Append(Append(box, m), n) = (box \o <<m>>) \o <<n>>
  BY <1>1, <1>3, AppendIsConcat
<1>6. (box \o <<m>>) \o <<n>> = box \o (<<m>> \o <<n>>)
  BY <1>1, ConcatAssociative
<1> QED
  BY <1>1, <1>2, <1>3, <1>4, <1>5, <1>6, AppendProperties

(* What an established channel sends arrives in order at its partner p.    *)
LEMMA SendsLink ==
  ASSUME NEW k, NEW box \in Seq(Packet), NEW c \in Object, NEW p, NEW up, NEW got, NEW x,
         Link(k, box, c, p, up), Sends(k, c, got, x),
         c.status = "live" /\ "SENT_CLOSE" \notin c.flags =>
           /\ c.remote = p.local
           /\ p.status = "live" \/ (p.status = "opening" /\ Confirmed(k, box)),
         c.status = "live" /\ x.c.status = "dead" => p.status # "opening"
  PROVE  Link(k, box \o x.out, x.c, p, up)
<1>1. /\ \/ x.c.status = c.status
         \/ c.status = "live" /\ x.c.status = "dead"
      /\ x.c.local = c.local /\ c.flags \subseteq x.c.flags
  BY DEF Sends
<1>2. CASE x.out = <<>>
  <2>1. Link(k, box, x.c, p, up)
    BY <1>1, LinkSender
  <2>2. box \o <<>> = box
    BY ConcatEmptySeq
  <2> QED
    BY <1>2, <2>1, <2>2
<1>3. CASE \E m \in Packet : x.out = <<m>> /\ Carries(k, c, x.c, m)
  <2>1. PICK m \in Packet : x.out = <<m>> /\ Carries(k, c, x.c, m)
    BY <1>3
  <2>2. m.to = c.remote /\ c.status = "live" /\ "SENT_CLOSE" \notin c.flags
    BY <2>1 DEF Carries
  <2>3. m.to = p.local /\ (p.status = "live" \/ (p.status = "opening" /\ Confirmed(k, box)))
    BY <2>2
  <2>4. Link(k, Append(box, m), x.c, p, up)
    BY <1>1, <2>1, <2>2, <2>3, LinkSend
  <2> QED
    BY <2>1, <2>4, Concat
<1>4. CASE \E m, n \in Packet :
             /\ x.out = Append(<<m>>, n) /\ m.type = "EOF" /\ n.type = "CLOSE"
             /\ Carries(k, c, x.c, m) /\ Carries(k, c, x.c, n)
  <2>1. PICK m \in Packet, n \in Packet :
             /\ x.out = Append(<<m>>, n) /\ m.type = "EOF" /\ n.type = "CLOSE"
             /\ Carries(k, c, x.c, m) /\ Carries(k, c, x.c, n)
    BY <1>4
  <2>2. /\ m.to = c.remote /\ n.to = c.remote /\ c.status = "live"
        /\ "SENT_CLOSE" \notin c.flags /\ "SENT_EOF" \in x.c.flags
    BY <2>1 DEF Carries
  <2>3. /\ m.to = p.local /\ n.to = p.local
        /\ p.status = "live" \/ (p.status = "opening" /\ Confirmed(k, box))
    BY <2>2
  <2> DEFINE d == [c EXCEPT !.flags = @ \cup {"SENT_EOF"}]
  <2>4. /\ d.flags = c.flags \cup {"SENT_EOF"} /\ d.status = c.status
        /\ d.local = c.local /\ d.remote = c.remote
    BY DEF Object
  <2> HIDE DEF d
  <2>5. Carries(k, c, d, m)
    BY <2>1, <2>4 DEF Carries
  <2>6. Carries(k, d, x.c, n)
    BY <2>1, <2>4 DEF Carries
  <2>7. Link(k, Append(box, m), d, p, up)
    BY <2>2, <2>3, <2>4, <2>5, LinkSend
  <2>8. Append(box, m) \in Seq(Packet)
    BY Concat
  <2>9. p.status = "opening" => Confirmed(k, Append(box, m))
    BY <2>3, ConfirmedAppend
  <2>10. /\ x.c.local = d.local /\ d.flags \subseteq x.c.flags
         /\ x.c.status = d.status \/ (x.c.status = "dead" /\ p.status # "opening")
    BY <1>1, <2>2, <2>4
  <2>11. Link(k, Append(Append(box, m), n), x.c, p, up)
    BY <2>3, <2>6, <2>7, <2>8, <2>9, <2>10, LinkSend
  <2> QED
    BY <2>1, <2>11, Concat
<1> QED
  BY <1>2, <1>3, <1>4 DEF Sends

(* ... and has nothing to do with the other channels.                      *)
LEMMA SendsOther ==
  ASSUME NEW k, NEW j, NEW box \in Seq(Packet), NEW c, NEW got, NEW x,
         Sends(k, c, got, x)
  PROVE  /\ box \o x.out \in Seq(Packet)
         /\ Confirmed(j, box) => Confirmed(j, box \o x.out)
         /\ Confirmed(k, box) => Confirmed(k, box \o x.out)
         /\ \A s, r, up : j # k /\ Link(j, box, s, r, up) => Link(j, box \o x.out, s, r, up)
<1>2. CASE x.out = <<>>
  BY <1>2, ConcatEmptySeq
<1>3. CASE \E m \in Packet : x.out = <<m>> /\ Carries(k, c, x.c, m)
  <2>1. PICK m \in Packet : x.out = <<m>> /\ Carries(k, c, x.c, m)
    BY <1>3
  <2>2. box \o x.out = Append(box, m) /\ Append(box, m) \in Seq(Packet) /\ m.k = k
    BY <2>1, Concat DEF Carries
  <2>3. \A s, r, up : j # k /\ Link(j, box, s, r, up) => Link(j, Append(box, m), s, r, up)
    BY <2>2, LinkOther
  <2> QED
    BY <2>2, <2>3, ConfirmedAppend
<1>4. CASE \E m, n \in Packet :
             /\ x.out = Append(<<m>>, n) /\ m.type = "EOF" /\ n.type = "CLOSE"
             /\ Carries(k, c, x.c, m) /\ Carries(k, c, x.c, n)
  <2>1. PICK m \in Packet, n \in Packet :
             /\ x.out = Append(<<m>>, n) /\ m.type = "EOF" /\ n.type = "CLOSE"
             /\ Carries(k, c, x.c, m) /\ Carries(k, c, x.c, n)
    BY <1>4
  <2>2. /\ box \o x.out = Append(Append(box, m), n) /\ Append(box, m) \in Seq(Packet)
        /\ Append(Append(box, m), n) \in Seq(Packet) /\ m.k = k /\ n.k = k
    BY <2>1, Concat DEF Carries
  <2>3. \A s, r, up : j # k /\ Link(j, box, s, r, up) => Link(j, Append(box, m), s, r, up)
    BY <2>2, LinkOther
  <2>4. \A s, r, up : j # k /\ Link(j, Append(box, m), s, r, up) =>
                      Link(j, Append(Append(box, m), n), s, r, up)
    BY <2>2, LinkOther
  <2> QED
    BY <2>2, <2>3, <2>4, ConfirmedAppend
<1> QED
  BY <1>2, <1>3, <1>4 DEF Sends

(* An established channel stays in step with its partner.                  *)
LEMMA PairOpener ==
  ASSUME NEW k, NEW o, NEW a, NEW box, NEW b, NEW d, Pair(k, o, a, box),
         o.status \in {"live", "dead"},
         \/ d.status = o.status
         \/ o.status = "live" /\ d.status = "dead" /\ CloseFlags \subseteq d.flags,
         d.local = o.local, d.remote = o.remote, o.flags \subseteq d.flags
  PROVE  Pair(k, d, a, b)
<1>1. d.flags = {} => o.flags = {} /\ d.status = o.status
  BY DEF CloseFlags
<1> QED
  BY <1>1 DEF Pair

LEMMA PairPeer ==
  ASSUME NEW k, NEW o, NEW a, NEW box, NEW b, NEW d, Pair(k, o, a, box),
         a.status \in {"live", "dead"},
         \/ d.status = a.status
         \/ a.status = "live" /\ d.status = "dead" /\ CloseFlags \subseteq d.flags,
         d.local = a.local, d.remote = a.remote, a.flags \subseteq d.flags,
         Confirmed(k, box) => Confirmed(k, b)
  PROVE  Pair(k, o, d, b)
<1>1. d.flags = {} => a.flags = {} /\ d.status = a.status
  BY DEF CloseFlags
<1> QED
  BY <1>1 DEF Pair

LEMMA PairBox ==
  ASSUME NEW k, NEW o, NEW a, NEW box, NEW b, Pair(k, o, a, box),
         Confirmed(k, box) => Confirmed(k, b)
  PROVE  Pair(k, o, a, b)
BY DEF Pair

-----------------------------------------------------------------------------
(* The table of channels of one end.                                       *)

(* A channel changes and keeps its number and its status.                  *)
LEMMA TableKeep ==
  ASSUME NEW cs \in [Opens -> Object], NEW us, NEW ts \in [Numbers -> Opens \cup {NoChannel}],
         Tabled(cs, us, ts), NEW k \in Opens, NEW d,
         \/ d.status = cs[k].status /\ d.local = cs[k].local
         \/ ~Holds(cs[k]) /\ ~Holds(d)
  PROVE  Tabled([cs EXCEPT ![k] = d], us, ts)
<1> DEFINE f == [cs EXCEPT ![k] = d]
<1>1. /\ \A j \in Opens : Holds(f[j]) = Holds(cs[j])
      /\ \A j \in Opens : Holds(cs[j]) => f[j].status = cs[j].status /\ f[j].local = cs[j].local
  BY DEF Holds
<1> HIDE DEF f
<1>2. \A n \in Numbers : ts[n] # NoChannel => ts[n] \in Opens
  OBVIOUS
<1> QED
  BY <1>1, <1>2 DEF Tabled, f

(* dealloc_channel                                                         *)
LEMMA TableFree ==
  ASSUME NEW cs \in [Opens -> Object], NEW us \in [Numbers -> {"FREE", "RESERVED", "IN_USE"}],
         NEW ts \in [Numbers -> Opens \cup {NoChannel}],
         Tabled(cs, us, ts), NEW k \in Opens, Holds(cs[k]), NEW d, ~Holds(d),
         NEW n, n = cs[k].local
  PROVE  Tabled([cs EXCEPT ![k] = d], [us EXCEPT ![n] = "FREE"], [ts EXCEPT ![n] = NoChannel])
<1> DEFINE f == [cs EXCEPT ![k] = d]
           u == [us EXCEPT ![n] = "FREE"]
           t == [ts EXCEPT ![n] = NoChannel]
<1>1. n \in Numbers /\ \A j \in Opens : cs[j].local \in Numbers
  BY DEF Object
<1>2. \A j \in Opens : Holds(f[j]) => j # k /\ f[j] = cs[j] /\ Holds(cs[j])
  OBVIOUS
<1>3. \A j \in Opens : Holds(f[j]) => cs[j].local # n
  BY <1>2 DEF Tabled
<1>4. \A i \in Numbers : i # n => u[i] = us[i] /\ t[i] = ts[i]
  OBVIOUS
<1>5. t[n] = NoChannel
  BY <1>1
<1>6. \A i \in Numbers : t[i] # NoChannel => i # n /\ t[i] = ts[i] /\ ts[i] \in Opens
  BY <1>4, <1>5
<1>7. \A i \in Numbers : t[i] # NoChannel => t[i] # k
  BY <1>6 DEF Tabled
<1>8. \A j \in Opens : j # k => f[j] = cs[j]
  OBVIOUS
<1> HIDE DEF f, u, t
<1>9. \A j \in Opens : Holds(f[j]) =>
       /\ u[f[j].local] = IF f[j].status = "live" THEN "IN_USE" ELSE "RESERVED"
       /\ t[f[j].local] = IF f[j].status = "asked" THEN NoChannel ELSE j
  BY <1>1, <1>2, <1>3, <1>4 DEF Tabled
<1>10. \A i, j \in Opens : Holds(f[i]) /\ Holds(f[j]) /\ f[i].local = f[j].local => i = j
  BY <1>2 DEF Tabled
<1>11. \A i \in Numbers : t[i] # NoChannel => Holds(f[t[i]]) /\ f[t[i]].local = i
  BY <1>6, <1>7, <1>8 DEF Tabled
<1> QED
  BY <1>9, <1>10, <1>11 DEF Tabled, f, u, t

(* A free number is given to a channel, with the channel in the table or   *)
(* not yet.                                                                *)
LEMMA TableAlloc ==
  ASSUME NEW cs \in [Opens -> Object], NEW us \in [Numbers -> {"FREE", "RESERVED", "IN_USE"}],
         NEW ts \in [Numbers -> Opens \cup {NoChannel}],
         Tabled(cs, us, ts), NEW k \in Opens, ~Holds(cs[k]), NEW d, NEW n \in Numbers,
         us[n] = "FREE", d.local = n, NEW t,
         \/ d.status = "opening" /\ t = [ts EXCEPT ![n] = k]
         \/ d.status = "asked" /\ t = ts
  PROVE  Tabled([cs EXCEPT ![k] = d], [us EXCEPT ![n] = "RESERVED"], t)
<1> DEFINE f == [cs EXCEPT ![k] = d]
           u == [us EXCEPT ![n] = "RESERVED"]
<1>1. \A j \in Opens : cs[j].local \in Numbers
  BY DEF Object
<1>2. f[k] = d /\ Holds(d) /\ \A j \in Opens : j # k => f[j] = cs[j]
  BY DEF Holds
<1>3. \A j \in Opens : Holds(cs[j]) => cs[j].local # n /\ j # k
  BY DEF Tabled
<1>4. \A i \in Numbers : ts[i] # NoChannel => ts[i] \in Opens /\ i # n /\ ts[i] # k
  <2> SUFFICES ASSUME NEW i \in Numbers, ts[i] # NoChannel
               PROVE  ts[i] \in Opens /\ i # n /\ ts[i] # k
    OBVIOUS
  <2>1. ts[i] \in Opens /\ Holds(cs[ts[i]]) /\ cs[ts[i]].local = i
    BY DEF Tabled
  <2> QED
    BY <1>3, <2>1
<1>5. u[n] = "RESERVED" /\ \A i \in Numbers : i # n => u[i] = us[i] /\ t[i] = ts[i]
  OBVIOUS
<1>6. t[n] = IF d.status = "asked" THEN NoChannel ELSE k
  BY <1>4
<1>7. k # NoChannel
  BY OpensAssumption
<1> HIDE DEF f, u
<1>8. \A j \in Opens : Holds(f[j]) =>
       /\ u[f[j].local] = IF f[j].status = "live" THEN "IN_USE" ELSE "RESERVED"
       /\ t[f[j].local] = IF f[j].status = "asked" THEN NoChannel ELSE j
  <2> SUFFICES ASSUME NEW j \in Opens, Holds(f[j])
               PROVE  /\ u[f[j].local] = IF f[j].status = "live" THEN "IN_USE" ELSE "RESERVED"
                      /\ t[f[j].local] = IF f[j].status = "asked" THEN NoChannel ELSE j
    OBVIOUS
  <2>1. CASE j = k
    BY <1>2, <1>5, <1>6, <2>1
  <2>2. CASE j # k
    <3>1. f[j] = cs[j] /\ cs[j].local # n /\ cs[j].local \in Numbers
      BY <1>1, <1>2, <1>3, <2>2
    <3> QED
      BY <1>5, <3>1 DEF Tabled
  <2> QED
    BY <2>1, <2>2
<1>9. \A i, j \in Opens : Holds(f[i]) /\ Holds(f[j]) /\ f[i].local = f[j].local => i = j
  BY <1>2, <1>3 DEF Tabled
<1>10. \A i \in Numbers : t[i] # NoChannel => Holds(f[t[i]]) /\ f[t[i]].local = i
  <2> SUFFICES ASSUME NEW i \in Numbers, t[i] # NoChannel
               PROVE  Holds(f[t[i]]) /\ f[t[i]].local = i
    OBVIOUS
  <2>1. CASE i = n
    BY <1>2, <1>6, <2>1
  <2>2. CASE i # n
    BY <1>2, <1>4, <1>5, <2>2 DEF Tabled
  <2> QED
    BY <2>1, <2>2
<1> QED
  BY <1>8, <1>9, <1>10 DEF Tabled, f, u

(* A channel that has a number is established.                             *)
LEMMA TableLive ==
  ASSUME NEW cs \in [Opens -> Object], NEW us \in [Numbers -> {"FREE", "RESERVED", "IN_USE"}],
         NEW ts \in [Numbers -> Opens \cup {NoChannel}],
         Tabled(cs, us, ts), NEW k \in Opens, Holds(cs[k]), NEW d,
         d.status = "live", NEW n, d.local = n, n = cs[k].local, NEW t,
         t = [ts EXCEPT ![n] = k]
  PROVE  Tabled([cs EXCEPT ![k] = d], [us EXCEPT ![n] = "IN_USE"], t)
<1> DEFINE f == [cs EXCEPT ![k] = d]
           u == [us EXCEPT ![n] = "IN_USE"]
<1>1. n \in Numbers /\ \A j \in Opens : cs[j].local \in Numbers
  BY DEF Object
<1>2. f[k] = d /\ Holds(d) /\ \A j \in Opens : j # k => f[j] = cs[j]
  BY DEF Holds
<1>3. \A j \in Opens : Holds(cs[j]) /\ cs[j].local = n => j = k
  BY DEF Tabled
<1>4. u[n] = "IN_USE" /\ t[n] = k /\ \A i \in Numbers : i # n => u[i] = us[i] /\ t[i] = ts[i]
  BY <1>1
<1> HIDE DEF f, u
<1>5. \A j \in Opens : Holds(f[j]) =>
       /\ u[f[j].local] = IF f[j].status = "live" THEN "IN_USE" ELSE "RESERVED"
       /\ t[f[j].local] = IF f[j].status = "asked" THEN NoChannel ELSE j
  <2> SUFFICES ASSUME NEW j \in Opens, Holds(f[j])
               PROVE  /\ u[f[j].local] = IF f[j].status = "live" THEN "IN_USE" ELSE "RESERVED"
                      /\ t[f[j].local] = IF f[j].status = "asked" THEN NoChannel ELSE j
    OBVIOUS
  <2>1. CASE j = k
    BY <1>2, <1>4, <2>1
  <2>2. CASE j # k
    <3>1. f[j] = cs[j] /\ cs[j].local # n /\ cs[j].local \in Numbers
      BY <1>1, <1>2, <1>3, <2>2
    <3> QED
      BY <1>4, <3>1 DEF Tabled
  <2> QED
    BY <2>1, <2>2
<1>6. \A i, j \in Opens : Holds(f[i]) /\ Holds(f[j]) /\ f[i].local = f[j].local => i = j
  BY <1>2, <1>3 DEF Tabled
<1>7. \A i \in Numbers : t[i] # NoChannel => Holds(f[t[i]]) /\ f[t[i]].local = i
  <2> SUFFICES ASSUME NEW i \in Numbers, t[i] # NoChannel
               PROVE  Holds(f[t[i]]) /\ f[t[i]].local = i
    OBVIOUS
  <2>1. CASE i = n
    BY <1>2, <1>4, <2>1
  <2>2. CASE i # n
    <3>1. t[i] = ts[i] /\ ts[i] \in Opens /\ Holds(cs[ts[i]]) /\ cs[ts[i]].local = i
      BY <1>4, <2>2 DEF Tabled
    <3>2. ts[i] # k
      BY <2>2, <3>1
    <3> QED
      BY <1>2, <3>1, <3>2
  <2> QED
    BY <2>1, <2>2
<1> QED
  BY <1>5, <1>6, <1>7 DEF Tabled, f, u

-----------------------------------------------------------------------------
(* The steps of an end about one channel.                                  *)

LEMMA PeerFacts ==
  ASSUME NEW e \in Ends
  PROVE  /\ Peer(e) \in Ends /\ Peer(e) # e /\ Peer(Peer(e)) = e
         /\ \A f \in Ends : f = e \/ f = Peer(e)
BY DEF Ends, Peer

(* A queue changes only as far as channel k is concerned.                  *)
BoxStep(k, box, b) ==
  /\ b \in Seq(Packet)
  /\ \A j \in Opens : j # k =>
       /\ Confirmed(j, box) => Confirmed(j, b)
       /\ \A s, r, up : Link(j, box, s, r, up) => Link(j, b, s, r, up)

LEMMA BoxKeep ==
  ASSUME NEW k, NEW box \in Seq(Packet)
  PROVE  BoxStep(k, box, box)
BY DEF BoxStep

LEMMA BoxPop ==
  ASSUME NEW k, NEW box \in Seq(Packet), box # <<>>, Head(box).k = k
  PROVE  BoxStep(k, box, Tail(box))
<1>1. Tail(box) \in Seq(Packet)
  BY TailOf
<1>2. ASSUME NEW j \in Opens, j # k, NEW s, NEW r, NEW up, Link(j, box, s, r, up)
      PROVE  Link(j, Tail(box), s, r, up)
  BY <1>2, LinkPop
<1>3. ASSUME NEW j \in Opens, j # k, Confirmed(j, box)
      PROVE  Confirmed(j, Tail(box))
  BY <1>3, ConfirmedPop
<1> QED
  BY <1>1, <1>2, <1>3 DEF BoxStep

LEMMA BoxSend ==
  ASSUME NEW k, NEW box \in Seq(Packet), NEW m \in Packet, m.k = k
  PROVE  BoxStep(k, box, Append(box, m))
<1>1. Append(box, m) \in Seq(Packet)
  BY AppendOf
<1>2. ASSUME NEW j \in Opens, j # k, NEW s, NEW r, NEW up, Link(j, box, s, r, up)
      PROVE  Link(j, Append(box, m), s, r, up)
  BY <1>2, LinkOther
<1>3. ASSUME NEW j \in Opens, j # k, Confirmed(j, box)
      PROVE  Confirmed(j, Append(box, m))
  BY <1>3, ConfirmedAppend
<1> QED
  BY <1>1, <1>2, <1>3 DEF BoxStep

LEMMA BoxSends ==
  ASSUME NEW k, NEW box \in Seq(Packet), NEW c, NEW got, NEW x, Sends(k, c, got, x)
  PROVE  BoxStep(k, box, box \o x.out) /\ (Confirmed(k, box) => Confirmed(k, box \o x.out))
BY SendsOther DEF BoxStep

(* In a step of end e the object of channel k becomes d, and the table of  *)
(* e consists of u and t.                                                  *)
StepTo(e, k, d, u, t) ==
  /\ ch' = [ch EXCEPT ![e] = [ch[e] EXCEPT ![k] = d]]
  /\ Sound(k, d)
  /\ in_use' = [in_use EXCEPT ![e] = u]
  /\ channels' = [channels EXCEPT ![e] = t]
  /\ u \in [Numbers -> {"FREE", "RESERVED", "IN_USE"}]
  /\ t \in [Numbers -> Opens \cup {NoChannel}]
  /\ Tabled([ch[e] EXCEPT ![k] = d], u, t)
  /\ next' \in [Ends -> Nat]
  /\ inbox' \in [Ends -> Seq(Packet)]
  /\ \A f \in Ends : BoxStep(k, inbox[f], inbox'[f])
  /\ Link(k, inbox'[e], ch[Peer(e)][k], d, Opener[k] = Peer(e))
  /\ Link(k, inbox'[Peer(e)], d, ch[Peer(e)][k], Opener[k] = e)
  /\ Opener[k] = e => Pair(k, d, ch[Peer(e)][k], inbox'[e])
  /\ Opener[k] = Peer(e) => Pair(k, ch[Peer(e)][k], d, inbox'[Peer(e)])
  /\ session' = session /\ pending' = pending /\ error' = error
  /\ finished' \in [Ends -> BOOLEAN]

LEMMA StepInv ==
  ASSUME IInv, NEW e \in Ends, NEW k \in Opens, NEW d, NEW u, NEW t, StepTo(e, k, d, u, t)
  PROVE  IInv'
<1> DEFINE p == Peer(e)
<1>0. /\ TypeOK /\ ObjInv /\ TableInv /\ LinkInv /\ NoProtocolError
  BY DEF IInv
<1>1. /\ p \in Ends /\ p # e /\ Peer(p) = e
      /\ \A f \in Ends : f = e \/ f = p
  BY PeerFacts
<1> HIDE DEF p
<1>2. d \in Object /\ Phase(d) /\ Source(d) /\ Bounded(k, d)
  BY DEF StepTo, Sound
<1>3. ch \in [Ends -> [Opens -> Object]]
  BY <1>0 DEF TypeOK
<1>4. /\ ch' \in [Ends -> [Opens -> Object]]
      /\ ch'[e][k] = d /\ ch'[p] = ch[p]
      /\ \A j \in Opens : j # k => ch'[e][j] = ch[e][j]
      /\ ch'[e] = [ch[e] EXCEPT ![k] = d]
  <2>1. ch' = [ch EXCEPT ![e] = [ch[e] EXCEPT ![k] = d]]
    BY DEF StepTo
  <2>2. [ch[e] EXCEPT ![k] = d] \in [Opens -> Object]
    BY <1>2, <1>3
  <2> QED
    BY <1>1, <1>3, <2>1, <2>2
<1>5. TypeOK'
  <2>1. /\ channels' \in [Ends -> [Numbers -> Opens \cup {NoChannel}]]
        /\ in_use' \in [Ends -> [Numbers -> {"FREE", "RESERVED", "IN_USE"}]]
    BY <1>0 DEF StepTo, TypeOK
  <2>2. /\ next' \in [Ends -> Nat] /\ inbox' \in [Ends -> Seq(Packet)]
        /\ session' = session /\ pending' = pending /\ error' = error
        /\ finished' \in [Ends -> BOOLEAN]
    BY DEF StepTo
  <2> QED
    BY <1>0, <1>4, <2>1, <2>2 DEF TypeOK
<1>6. ObjInv'
  BY <1>0, <1>1, <1>2, <1>4 DEF ObjInv
<1>7. TableInv'
  <2>1. /\ in_use'[e] = u /\ channels'[e] = t /\ in_use'[p] = in_use[p] /\ channels'[p] = channels[p]
        /\ Tabled([ch[e] EXCEPT ![k] = d], u, t)
    BY <1>0, <1>1 DEF StepTo, TypeOK
  <2>2. Tabled(ch'[e], in_use'[e], channels'[e])
    BY <1>4, <2>1
  <2>3. Tabled(ch'[p], in_use'[p], channels'[p])
    BY <1>0, <1>1, <1>4, <2>1 DEF TableInv
  <2> QED
    BY <1>1, <2>2, <2>3 DEF TableInv
<1>8. LinkInv'
  <2> SUFFICES ASSUME NEW j \in Opens
               PROVE  /\ \A f \in Ends : Link(j, inbox'[f], ch'[Peer(f)][j], ch'[f][j], Opener[j] = Peer(f))
                      /\ Pair(j, ch'[Opener[j]][j], ch'[Peer(Opener[j])][j], inbox'[Opener[j]])
    BY DEF LinkInv
  <2>1. Opener[j] \in Ends
    BY OpenerAssumption
  <2>2. /\ \A f \in Ends : Link(j, inbox[f], ch[Peer(f)][j], ch[f][j], Opener[j] = Peer(f))
        /\ Pair(j, ch[Opener[j]][j], ch[Peer(Opener[j])][j], inbox[Opener[j]])
    BY <1>0 DEF LinkInv
  <2>3. CASE j = k
    <3>1. /\ Link(k, inbox'[e], ch[p][k], d, Opener[k] = p)
          /\ Link(k, inbox'[p], d, ch[p][k], Opener[k] = e)
          /\ Opener[k] = e => Pair(k, d, ch[p][k], inbox'[e])
          /\ Opener[k] = p => Pair(k, ch[p][k], d, inbox'[p])
      BY DEF StepTo, p
    <3>2. Peer(e) = p
      BY DEF p
    <3> QED
      BY <1>1, <1>4, <2>1, <2>3, <3>1, <3>2
  <2>4. CASE j # k
    <3>1. \A f \in Ends : ch'[f][j] = ch[f][j]
      BY <1>1, <1>4, <2>4
    <3>2. \A f \in Ends : Peer(f) \in Ends
      BY PeerFacts
    <3>3. \A f \in Ends : BoxStep(k, inbox[f], inbox'[f])
      BY DEF StepTo
    <3>4. \A f \in Ends : Link(j, inbox'[f], ch[Peer(f)][j], ch[f][j], Opener[j] = Peer(f))
      BY <2>2, <2>4, <3>3 DEF BoxStep
    <3>5. Confirmed(j, inbox[Opener[j]]) => Confirmed(j, inbox'[Opener[j]])
      BY <2>1, <2>4, <3>3 DEF BoxStep
    <3>6. Pair(j, ch[Opener[j]][j], ch[Peer(Opener[j])][j], inbox'[Opener[j]])
      BY <2>2, <3>5, PairBox
    <3> QED
      BY <2>1, <3>1, <3>2, <3>4, <3>6
  <2> QED
    BY <2>3, <2>4
<1>9. NoProtocolError'
  BY <1>0 DEF StepTo, NoProtocolError
<1> QED
  BY <1>5, <1>6, <1>7, <1>8, <1>9 DEF IInv

(* What the invariant says of channel k and end e.                         *)
LEMMA EndFacts ==
  ASSUME IInv, NEW e \in Ends, NEW k \in Opens
  PROVE  /\ Sound(k, ch[e][k]) /\ Sound(k, ch[Peer(e)][k])
         /\ inbox \in [Ends -> Seq(Packet)]
         /\ ch \in [Ends -> [Opens -> Object]]
         /\ inbox[e] \in Seq(Packet) /\ inbox[Peer(e)] \in Seq(Packet)
         /\ ch[e] \in [Opens -> Object]
         /\ in_use[e] \in [Numbers -> {"FREE", "RESERVED", "IN_USE"}]
         /\ channels[e] \in [Numbers -> Opens \cup {NoChannel}]
         /\ Tabled(ch[e], in_use[e], channels[e])
         /\ next \in [Ends -> Nat] /\ finished \in [Ends -> BOOLEAN]
         /\ ch[e][k] \in Object /\ ch[e][k].local \in Numbers
         /\ Link(k, inbox[e], ch[Peer(e)][k], ch[e][k], Opener[k] = Peer(e))
         /\ Link(k, inbox[Peer(e)], ch[e][k], ch[Peer(e)][k], Opener[k] = e)
         /\ Opener[k] = e => Pair(k, ch[e][k], ch[Peer(e)][k], inbox[e])
         /\ Opener[k] = Peer(e) => Pair(k, ch[Peer(e)][k], ch[e][k], inbox[Peer(e)])
         /\ Opener[k] = e \/ Opener[k] = Peer(e)
<1>0. /\ TypeOK /\ ObjInv /\ TableInv /\ LinkInv
  BY DEF IInv
<1> DEFINE p == Peer(e)
<1>1. /\ p \in Ends /\ p # e /\ Peer(p) = e
      /\ \A f \in Ends : f = e \/ f = p
  BY PeerFacts
<1>2. Peer(e) = p
  OBVIOUS
<1> HIDE DEF p
<1>3. /\ inbox \in [Ends -> Seq(Packet)] /\ ch \in [Ends -> [Opens -> Object]]
      /\ in_use \in [Ends -> [Numbers -> {"FREE", "RESERVED", "IN_USE"}]]
      /\ channels \in [Ends -> [Numbers -> Opens \cup {NoChannel}]]
      /\ next \in [Ends -> Nat] /\ finished \in [Ends -> BOOLEAN]
  BY <1>0 DEF TypeOK
<1>4. Sound(k, ch[e][k]) /\ Sound(k, ch[p][k])
  BY <1>0, <1>1, <1>3 DEF ObjInv, Sound
<1>5. ch[e][k] \in Object /\ ch[e][k].local \in Numbers
  BY <1>3 DEF Object
<1>6. Opener[k] \in Ends
  BY OpenerAssumption
<1>7. /\ \A f \in Ends : Link(k, inbox[f], ch[Peer(f)][k], ch[f][k], Opener[k] = Peer(f))
      /\ Pair(k, ch[Opener[k]][k], ch[Peer(Opener[k])][k], inbox[Opener[k]])
  BY <1>0 DEF LinkInv
<1>8. /\ Link(k, inbox[e], ch[p][k], ch[e][k], Opener[k] = p)
      /\ Link(k, inbox[p], ch[e][k], ch[p][k], Opener[k] = e)
      /\ Opener[k] = e => Pair(k, ch[e][k], ch[p][k], inbox[e])
      /\ Opener[k] = p => Pair(k, ch[p][k], ch[e][k], inbox[p])
      /\ Opener[k] = e \/ Opener[k] = p
  BY <1>1, <1>2, <1>6, <1>7
<1>9. Tabled(ch[e], in_use[e], channels[e])
  BY <1>0 DEF TableInv
<1> QED
  BY <1>1, <1>2, <1>3, <1>4, <1>5, <1>8, <1>9

(* As long as an end has not sent CLOSE its partner knows the channel.     *)
LEMMA PartnerReady ==
  ASSUME IInv, NEW e \in Ends, NEW k \in Opens, ch[e][k].status = "live"
  PROVE  /\ "SENT_CLOSE" \notin ch[e][k].flags =>
              /\ ch[e][k].remote = ch[Peer(e)][k].local
              /\ \/ ch[Peer(e)][k].status = "live"
                 \/ ch[Peer(e)][k].status = "opening" /\ Confirmed(k, inbox[Peer(e)])
         /\ "SENT_CLOSE" \in ch[Peer(e)][k].flags => ch[Peer(e)][k].status # "opening"
<1> DEFINE c == ch[e][k]
           q == ch[Peer(e)][k]
<1>1. /\ Sound(k, q)
      /\ Link(k, inbox[Peer(e)], c, q, Opener[k] = e)
      /\ Opener[k] = e => Pair(k, c, q, inbox[e])
      /\ Opener[k] = Peer(e) => Pair(k, q, c, inbox[Peer(e)])
      /\ Opener[k] = e \/ Opener[k] = Peer(e)
      /\ c.status = "live"
  BY EndFacts
<1> HIDE DEF c, q
<1>2. Phase(q)
  BY <1>1 DEF Sound
<1>3. "SENT_CLOSE" \in q.flags => q.status # "opening"
  BY <1>2 DEF Phase
<1>4. ASSUME "SENT_CLOSE" \notin c.flags
      PROVE  /\ c.remote = q.local
             /\ q.status = "live" \/ (q.status = "opening" /\ Confirmed(k, inbox[Peer(e)]))
  <2>1. "RECEIVED_CLOSE" \notin q.flags
    BY <1>1, <1>4 DEF Link, Got
  <2>2. q.status = "dead" => q.flags = {}
    BY <1>2, <2>1 DEF Phase, CloseFlags
  <2> QED
    BY <1>1, <2>2 DEF Pair
<1> QED
  BY <1>3, <1>4 DEF c, q

(* Update, for a channel that has been established.  Either nothing was    *)
(* read, or the packet at the head of the queue, which is about the        *)
(* channel and has added the flags in got.                                 *)
Reading(e, k, got, box) ==
  \/ box = inbox /\ got = {}
  \/ /\ inbox[e] # <<>> /\ box = [inbox EXCEPT ![e] = Tail(@)]
     /\ Head(inbox[e]).k = k
     /\ \/ Head(inbox[e]).type \in DataTypes /\ got = {}
        \/ Head(inbox[e]).type = "EOF" /\ got = {"RECEIVED_EOF"}
        \/ Head(inbox[e]).type = "CLOSE" /\ got = {"RECEIVED_CLOSE"}

LEMMA ReadingLink ==
  ASSUME IInv, NEW e \in Ends, NEW k \in Opens, NEW got, NEW x, NEW box, Reading(e, k, got, box),
         ch[e][k].status \in {"live", "dead"}, Sends(k, ch[e][k], got, x)
  PROVE  /\ box \in [Ends -> Seq(Packet)] /\ box[Peer(e)] = inbox[Peer(e)]
         /\ BoxStep(k, inbox[e], box[e])
         /\ Link(k, box[e], ch[Peer(e)][k], x.c, Opener[k] = Peer(e))
         /\ ch[e][k].status = "live" /\ x.c.status = "dead" => ch[Peer(e)][k].status # "opening"
<1> DEFINE c == ch[e][k]
           q == ch[Peer(e)][k]
<1>1. /\ inbox \in [Ends -> Seq(Packet)] /\ inbox[e] \in Seq(Packet)
      /\ Link(k, inbox[e], q, c, Opener[k] = Peer(e))
  BY EndFacts
<1>2. Peer(e) # e /\ Peer(e) \in Ends
  BY PeerFacts
<1>3. /\ \/ x.c.status = c.status
         \/ c.status = "live" /\ x.c.status = "dead" /\ CloseFlags \subseteq x.c.flags
      /\ x.c.local = c.local
      /\ c.flags \subseteq x.c.flags
      /\ x.c.flags \subseteq c.flags \cup {"SENT_EOF", "SENT_CLOSE"} \cup got
  BY DEF Sends
<1>4. "SENT_CLOSE" \in q.flags /\ c.status = "live" => q.status # "opening"
  BY PartnerReady
<1>5. CASE box = inbox /\ got = {}
  <2>1. /\ "RECEIVED_CLOSE" \in x.c.flags => "RECEIVED_CLOSE" \in c.flags
        /\ "RECEIVED_EOF" \in x.c.flags => "RECEIVED_EOF" \in c.flags
    BY <1>3, <1>5
  <2>2. "RECEIVED_CLOSE" \in x.c.flags => "SENT_CLOSE" \in q.flags /\ Of(k, inbox[e]) = {}
    BY <1>1, <2>1 DEF Link, Got
  <2>3. x.c.status # c.status => "RECEIVED_CLOSE" \in x.c.flags
    BY <1>3 DEF CloseFlags
  <2> HIDE DEF c, q
  <2>4. Link(k, inbox[e], q, x.c, Opener[k] = Peer(e))
    BY <1>1, <1>3, <2>1, <2>2, <2>3, LinkReceiver
  <2>5. BoxStep(k, inbox[e], inbox[e])
    BY <1>1, BoxKeep
  <2> QED
    BY <1>1, <1>3, <1>4, <1>5, <2>2, <2>3, <2>4, <2>5 DEF c, q
<1>6. CASE /\ inbox[e] # <<>> /\ box = [inbox EXCEPT ![e] = Tail(@)]
           /\ Head(inbox[e]).k = k
           /\ \/ Head(inbox[e]).type \in DataTypes /\ got = {}
              \/ Head(inbox[e]).type = "EOF" /\ got = {"RECEIVED_EOF"}
              \/ Head(inbox[e]).type = "CLOSE" /\ got = {"RECEIVED_CLOSE"}
  <2> DEFINE b == inbox[e]
             t == Tail(b)
  <2>1. box[e] = t /\ box[Peer(e)] = inbox[Peer(e)] /\ box \in [Ends -> Seq(Packet)]
    BY <1>1, <1>2, <1>6, TailOf
  <2>2. BoxStep(k, b, t)
    BY <1>1, <1>6, BoxPop
  <2>3. Head(b).type # "CONFIRM" /\ Head(b).type \in DataTypes
    BY <1>6 DEF DataTypes
  <2>4. Link(k, t, q, c, Opener[k] = Peer(e))
    BY <1>1, <1>6, <2>3, LinkPop
  <2> HIDE DEF c, q
  <2>5. /\ "RECEIVED_CLOSE" \notin c.flags
        /\ Head(b).type = "EOF" =>
             "SENT_EOF" \in q.flags /\ \A i \in Of(k, t) : t[i].type # "EOF"
        /\ Head(b).type = "CLOSE" => "SENT_CLOSE" \in q.flags /\ Of(k, t) = {}
    BY <1>1, <1>6, <2>3, LinkHead
  <2> HIDE DEF b, t
  <2>6. "RECEIVED_CLOSE" \in x.c.flags => "SENT_CLOSE" \in q.flags /\ Of(k, t) = {}
    BY <1>3, <1>6, <2>5 DEF b
  <2>7. "RECEIVED_EOF" \in x.c.flags =>
          "RECEIVED_EOF" \in c.flags \/
          ("SENT_EOF" \in q.flags /\ \A i \in Of(k, t) : t[i].type # "EOF")
    BY <1>3, <1>6, <2>5 DEF b
  <2>8. x.c.status # c.status => "RECEIVED_CLOSE" \in x.c.flags
    BY <1>3 DEF CloseFlags
  <2>9. Link(k, t, q, x.c, Opener[k] = Peer(e))
    BY <1>3, <2>4, <2>6, <2>7, <2>8, LinkReceiver
  <2>10. c.status = "live" /\ x.c.status = "dead" => q.status # "opening"
    BY <1>4, <2>6, <2>8
  <2> QED
    BY <2>1, <2>2, <2>9, <2>10 DEF b, c, q
<1> QED
  BY <1>5, <1>6 DEF Reading

LEMMA LeastNat ==
  ASSUME NEW a \in Nat, NEW b \in Nat
  PROVE  Least(a, b) \in Nat /\ Least(a, b) <= a /\ Least(a, b) <= b
BY DEF Least

LEMMA UpdateInv ==
  ASSUME IInv, NEW e \in Ends, NEW k \in Opens, NEW got, NEW x, NEW box, ~finished[e],
         Reading(e, k, got, box), ch[e][k].status \in {"live", "dead"},
         Sound(k, x.c), Sends(k, ch[e][k], got, x), Update(e, k, x, box)
  PROVE  IInv'
<1> DEFINE c == ch[e][k]
           p == Peer(e)
           q == ch[Peer(e)][k]
           d == x.c
           n == c.local
<1>1. /\ inbox \in [Ends -> Seq(Packet)] /\ ch \in [Ends -> [Opens -> Object]]
      /\ inbox[e] \in Seq(Packet) /\ inbox[p] \in Seq(Packet)
      /\ ch[e] \in [Opens -> Object]
      /\ in_use[e] \in [Numbers -> {"FREE", "RESERVED", "IN_USE"}]
      /\ channels[e] \in [Numbers -> Opens \cup {NoChannel}]
      /\ Tabled(ch[e], in_use[e], channels[e])
      /\ next \in [Ends -> Nat] /\ finished \in [Ends -> BOOLEAN]
      /\ c \in Object /\ n \in Numbers
      /\ Link(k, inbox[p], c, q, Opener[k] = e)
      /\ Opener[k] = e => Pair(k, c, q, inbox[e])
      /\ Opener[k] = p => Pair(k, q, c, inbox[p])
  BY EndFacts
<1>2. /\ p \in Ends /\ p # e /\ Peer(p) = e /\ Peer(e) = p
      /\ \A f \in Ends : f = e \/ f = p
  BY PeerFacts
<1>3. /\ box \in [Ends -> Seq(Packet)] /\ box[p] = inbox[p]
      /\ BoxStep(k, inbox[e], box[e])
      /\ Link(k, box[e], q, d, Opener[k] = p)
      /\ c.status = "live" /\ d.status = "dead" => q.status # "opening"
  BY ReadingLink
<1>4. /\ \/ d.status = c.status
         \/ c.status = "live" /\ d.status = "dead" /\ CloseFlags \subseteq d.flags
      /\ d.local = c.local /\ d.remote = c.remote /\ c.flags \subseteq d.flags
  BY DEF Sends
<1>5. c.status = "live" /\ "SENT_CLOSE" \notin c.flags =>
        /\ c.remote = q.local
        /\ q.status = "live" \/ (q.status = "opening" /\ Confirmed(k, inbox[p]))
  BY PartnerReady
<1>6. /\ ch' = [ch EXCEPT ![e] = [ch[e] EXCEPT ![k] = d]]
      /\ inbox' = [box EXCEPT ![p] = @ \o x.out]
      /\ session' = session /\ pending' = pending /\ error' = error
  BY DEF Update, Send
<1>7. Link(k, inbox[p] \o x.out, d, q, Opener[k] = e)
  <2> HIDE DEF c, q, p
  <2>1. Sends(k, c, got, x)
    BY DEF c
  <2> QED
    BY <1>1, <1>3, <1>5, <2>1, SendsLink
<1>8. BoxStep(k, inbox[p], inbox[p] \o x.out)
      /\ (Confirmed(k, inbox[p]) => Confirmed(k, inbox[p] \o x.out))
  BY <1>1, BoxSends
<1>9. inbox[p] \o x.out \in Seq(Packet)
  BY <1>8 DEF BoxStep
<1> HIDE DEF c, p, q, d, n
<1>10. inbox'[e] = box[e] /\ inbox'[p] = inbox[p] \o x.out /\ inbox' \in [Ends -> Seq(Packet)]
  BY <1>2, <1>3, <1>6, <1>9
<1>11. Opener[k] = e => Pair(k, d, q, inbox'[e])
  <2>1. c.status \in {"live", "dead"}
    BY DEF c
  <2> QED
    BY <1>1, <1>4, <2>1, PairOpener
<1>12. Opener[k] = p => Pair(k, q, d, inbox'[p])
  <2>1. c.status \in {"live", "dead"}
    BY DEF c
  <2> QED
    BY <1>1, <1>4, <1>8, <1>10, <2>1, PairPeer
<1>13. Sound(k, d)
  BY DEF d
<1>14. CASE d.status = "dead" /\ c.status # "dead"
  <2> DEFINE u == [in_use[e] EXCEPT ![n] = "FREE"]
             t == [channels[e] EXCEPT ![n] = NoChannel]
  <2>1. Dealloc(e, d.local) /\ FinishIfLast(e, d.local)
    BY <1>14 DEF Update, d, c
  <2>2. d.local = n
    BY <1>4 DEF n
  <2>3. in_use' = [in_use EXCEPT ![e] = u] /\ channels' = [channels EXCEPT ![e] = t]
    BY <2>1, <2>2 DEF Dealloc
  <2>4. next' = [next EXCEPT ![e] = Least(n, @)]
    BY <2>1, <2>2 DEF Dealloc
  <2>5. n \in Nat /\ next[e] \in Nat
    BY <1>1 DEF Numbers
  <2>6. next' \in [Ends -> Nat]
    <3>1. Least(n, next[e]) \in Nat
      BY <2>5, LeastNat
    <3> QED
      BY <1>1, <2>4, <3>1
  <2>7. finished' \in [Ends -> BOOLEAN]
    <3>1. (finished[e] \/ (pending[e] /\ Reserved(e) \subseteq {d.local})) \in BOOLEAN
      OBVIOUS
    <3> QED
      BY <1>1, <2>1, <3>1 DEF FinishIfLast
  <2>8. Holds(ch[e][k]) /\ ~Holds(d) /\ n = ch[e][k].local
    BY <1>4, <1>14 DEF Holds, c, n
  <2>9. Tabled([ch[e] EXCEPT ![k] = d], u, t)
    BY <1>1, <2>8, TableFree
  <2>10. /\ u \in [Numbers -> {"FREE", "RESERVED", "IN_USE"}]
         /\ t \in [Numbers -> Opens \cup {NoChannel}]
    BY <1>1
  <2> HIDE DEF u, t
  <2>11. StepTo(e, k, d, u, t)
    BY <1>2, <1>3, <1>6, <1>7, <1>8, <1>10, <1>11, <1>12, <1>13,
       <2>3, <2>6, <2>7, <2>9, <2>10 DEF StepTo, q
  <2> QED
    BY <2>11, StepInv
<1>15. CASE ~(d.status = "dead" /\ c.status # "dead")
  <2>1. in_use' = in_use /\ channels' = channels /\ next' = next /\ finished' = finished
    BY <1>15 DEF Update, table, d, c
  <2>2. in_use' = [in_use EXCEPT ![e] = in_use[e]] /\ channels' = [channels EXCEPT ![e] = channels[e]]
    BY <2>1 DEF IInv, TypeOK
  <2>3. d.status = ch[e][k].status /\ d.local = ch[e][k].local
    BY <1>4, <1>15 DEF c
  <2>4. Tabled([ch[e] EXCEPT ![k] = d], in_use[e], channels[e])
    BY <1>1, <2>3, TableKeep
  <2>5. StepTo(e, k, d, in_use[e], channels[e])
    BY <1>1, <1>2, <1>3, <1>6, <1>7, <1>8, <1>10, <1>11, <1>12, <1>13,
       <2>1, <2>2, <2>4 DEF StepTo, q
  <2> QED
    BY <2>5, StepInv
<1> QED
  BY <1>14, <1>15

-----------------------------------------------------------------------------
(* The packet handlers.                                                    *)

LEMMA HeadLink ==
  ASSUME IInv, NEW e \in Ends, inbox[e] # <<>>, NEW k \in Opens, Head(inbox[e]).k = k
  PROVE  /\ Fits(k, inbox[e], 1, ch[Peer(e)][k], ch[e][k], Opener[k] = Peer(e))
         /\ Head(inbox[e]).type \in DataTypes =>
              /\ Head(inbox[e]).to = ch[e][k].local
              /\ ch[e][k].status = "live" /\ "RECEIVED_CLOSE" \notin ch[e][k].flags
         /\ Head(inbox[e]).type = "EOF" => "RECEIVED_EOF" \notin ch[e][k].flags
<1> DEFINE c == ch[e][k]
           q == ch[Peer(e)][k]
<1>1. inbox[e] \in Seq(Packet) /\ Link(k, inbox[e], q, c, Opener[k] = Peer(e))
  BY EndFacts
<1> HIDE DEF c, q
<1> DEFINE b == inbox[e]
           up == Opener[k] = Peer(e)
<1>2. b \in Seq(Packet) /\ b # <<>> /\ Link(k, b, q, c, up) /\ Head(b).k = k
  BY <1>1
<1> HIDE DEF b, up
<1>3. Fits(k, b, 1, q, c, up)
  BY <1>2, LinkHead
<1>4. Head(b).type \in DataTypes =>
        Head(b).to = c.local /\ c.status = "live" /\ "RECEIVED_CLOSE" \notin c.flags
  <2>1. ASSUME Head(b).type \in DataTypes PROVE Head(b).to = c.local
    BY <1>2, <2>1, LinkHead
  <2>2. ASSUME Head(b).type \in DataTypes PROVE c.status = "live"
    BY <1>2, <2>2, LinkHead
  <2>3. ASSUME Head(b).type \in DataTypes PROVE "RECEIVED_CLOSE" \notin c.flags
    BY <1>2, <2>3, LinkHead
  <2> QED
    BY <2>1, <2>2, <2>3
<1>5. Head(b).type = "EOF" => "RECEIVED_EOF" \notin c.flags
  BY <1>2, LinkHead
<1> QED
  BY <1>3, <1>4, <1>5 DEF b, c, q, up

(* The first packet in the queue is about a channel that the end knows by  *)
(* the number in the packet.                                               *)
LEMMA HeadFacts ==
  ASSUME IInv, NEW e \in Ends, inbox[e] # <<>>, NEW m, m = Head(inbox[e])
  PROVE  /\ m \in Packet /\ m.k \in Opens /\ m.size \in Nat
         /\ m.to \in Numbers /\ m.from \in Numbers
         /\ m.type \in DataTypes =>
              /\ lookup_channel(e, m.to) = m.k /\ ch[e][m.k].status = "live"
              /\ "RECEIVED_CLOSE" \notin ch[e][m.k].flags
              /\ m.type = "EOF" => "RECEIVED_EOF" \notin ch[e][m.k].flags
         /\ m.type \in {"CONFIRM", "FAILURE"} =>
              /\ lookup_channel_reserved(e, m.to) = m.k /\ ch[e][m.k].status = "opening"
              /\ m.to = ch[e][m.k].local /\ Opener[m.k] # Peer(e)
         /\ m.type = "CONFIRM" =>
              ch[Peer(e)][m.k].status = "live" /\ m.from = ch[Peer(e)][m.k].local
         /\ m.type = "FAILURE" => ch[Peer(e)][m.k].status = "dead"
         /\ m.type = "OPEN" =>
              /\ ch[e][m.k].status = "none" /\ ch[Peer(e)][m.k].status = "opening"
              /\ Opener[m.k] = Peer(e) /\ m.from = ch[Peer(e)][m.k].local
<1> DEFINE k == m.k
           c == ch[e][k]
           q == ch[Peer(e)][k]
           up == Opener[k] = Peer(e)
<1>1. inbox[e] \in Seq(Packet)
  BY DEF IInv, TypeOK
<1>2. m \in Packet /\ m = inbox[e][1]
  BY <1>1
<1>3. k \in Opens /\ m.size \in Nat /\ m.to \in Numbers /\ m.from \in Numbers
  BY <1>2 DEF Packet
<1>4. /\ Link(k, inbox[e], q, c, up)
      /\ Tabled(ch[e], in_use[e], channels[e])
  BY <1>3, EndFacts
<1> HIDE DEF q, up, c
<1>a. Head(inbox[e]).k = k /\ Head(inbox[e]) = m
  OBVIOUS
<1> HIDE DEF k
<1>5. /\ Fits(k, inbox[e], 1, q, c, up)
      /\ m.type \in DataTypes =>
           m.to = c.local /\ c.status = "live" /\ "RECEIVED_CLOSE" \notin c.flags
      /\ m.type = "EOF" => "RECEIVED_EOF" \notin c.flags
  BY <1>3, <1>a, HeadLink DEF c, q, up
<1> USE DEF c
<1>6. k # NoChannel
  BY <1>3, OpensAssumption
<1>7. m.type \in DataTypes => lookup_channel(e, m.to) = k
  <2>1. Holds(c) /\ c.status = "live" =>
          in_use[e][c.local] = "IN_USE" /\ channels[e][c.local] = k
    BY <1>3, <1>4 DEF Tabled
  <2> QED
    BY <1>5, <2>1 DEF lookup_channel, Holds
<1>8. m.type \in {"CONFIRM", "FAILURE"} => c.status = "opening" /\ m.to = c.local /\ ~up
  BY <1>2, <1>5 DEF Fits
<1>9. m.type \in {"CONFIRM", "FAILURE"} => lookup_channel_reserved(e, m.to) = k
  <2>1. Holds(c) /\ c.status = "opening" =>
          in_use[e][c.local] = "RESERVED" /\ channels[e][c.local] = k
    BY <1>3, <1>4 DEF Tabled
  <2> QED
    BY <1>8, <2>1 DEF lookup_channel_reserved, Holds
<1>10. /\ m.type = "CONFIRM" => q.status = "live" /\ m.from = q.local
       /\ m.type = "FAILURE" => q.status = "dead"
       /\ m.type = "OPEN" => up /\ q.status = "opening" /\ c.status = "none" /\ m.from = q.local
  BY <1>2, <1>5 DEF Fits
<1> QED
  BY <1>2, <1>3, <1>5, <1>7, <1>8, <1>9, <1>10 DEF q, up, k

(* A packet that is dropped.                                               *)
LEMMA IgnoreInv ==
  ASSUME IInv, NEW e \in Ends, ~finished[e], inbox[e] # <<>>, Head(inbox[e]).type \in DataTypes,
         Ignore(e)
  PROVE  IInv'
<1> DEFINE m == Head(inbox[e])
           k == m.k
           c == ch[e][k]
           x == Plain(c)
<1>1. k \in Opens /\ c.status = "live"
  BY HeadFacts
<1>2. /\ Sound(k, c) /\ inbox \in [Ends -> Seq(Packet)] /\ ch \in [Ends -> [Opens -> Object]]
  BY <1>1, EndFacts
<1>3. Reading(e, k, {}, Rest(e))
  BY DEF Reading, Rest
<1>4. x.c = c /\ x.out = <<>>
  BY DEF Plain
<1>5. Sends(k, c, {}, x)
  BY <1>4 DEF Sends
<1>6. Rest(e) \in [Ends -> Seq(Packet)] /\ Peer(e) \in Ends
  BY <1>2, TailOf, PeerFacts DEF Rest
<1>7. Send(e, x.out, Rest(e)) = Rest(e)
  <2>1. Rest(e)[Peer(e)] \o <<>> = Rest(e)[Peer(e)]
    BY <1>6, ConcatEmptySeq
  <2> QED
    BY <1>4, <1>6, <2>1 DEF Send
<1>8. [ch EXCEPT ![e][k] = c] = ch
  BY <1>1, <1>2
<1>9. Update(e, k, x, Rest(e))
  BY <1>1, <1>4, <1>7, <1>8 DEF Update, Ignore
<1> QED
  BY <1>1, <1>2, <1>3, <1>4, <1>5, <1>9, UpdateInv

LEMMA AdjustInv ==
  ASSUME IInv, NEW e \in Ends, window_adjust_handler(e)
  PROVE  IInv'
<1> DEFINE m == Head(inbox[e])
           k == m.k
           c == ch[e][k]
<1>1. ~finished[e] /\ inbox[e] # <<>> /\ m.type = "ADJUST" /\ m.type \in DataTypes
  BY DEF window_adjust_handler, Reads, DataTypes
<1>2. /\ k \in Opens /\ m.size \in Nat /\ lookup_channel(e, m.to) = k /\ c.status = "live"
      /\ "RECEIVED_CLOSE" \notin c.flags
  BY <1>1, HeadFacts
<1>3. k # NoChannel
  BY <1>2, OpensAssumption
<1>4. \/ Ignore(e)
      \/ /\ c.flags \cap {"SENT_CLOSE", "SENT_EOF"} = {}
         /\ Update(e, k, Plain([c EXCEPT !.send_window = @ + m.size, !.want_read = TRUE]), Rest(e))
  BY <1>2, <1>3 DEF window_adjust_handler
<1>5. CASE Ignore(e)
  BY <1>1, <1>5, IgnoreInv
<1>6. ASSUME c.flags \cap {"SENT_CLOSE", "SENT_EOF"} = {},
             NEW x, x = Plain([c EXCEPT !.send_window = @ + m.size, !.want_read = TRUE]),
             Update(e, k, x, Rest(e))
      PROVE  IInv'
  <2>1. Sound(k, c)
    BY <1>2, EndFacts
  <2>2. Sound(k, x.c) /\ Sends(k, c, {}, x)
    BY <1>2, <1>6, <2>1, AdjustSound
  <2>3. Reading(e, k, {}, Rest(e))
    BY <1>1 DEF Reading, Rest
  <2> QED
    BY <1>1, <1>2, <1>6, <2>2, <2>3, UpdateInv
<1> QED
  BY <1>4, <1>5, <1>6

LEMMA DataInv ==
  ASSUME IInv, NEW e \in Ends, channel_data_handler(e)
  PROVE  IInv'
<1> DEFINE m == Head(inbox[e])
           k == m.k
           c == ch[e][k]
           length == Least(Least(m.size, MaxPacket), c.rec_window)
<1>1. ~finished[e] /\ inbox[e] # <<>> /\ m.type = "DATA" /\ m.type \in DataTypes
  BY DEF channel_data_handler, Reads, DataTypes
<1>2. /\ k \in Opens /\ m.size \in Nat /\ lookup_channel(e, m.to) = k /\ c.status = "live"
  BY <1>1, HeadFacts
<1>3. k # NoChannel
  BY <1>2, OpensAssumption
<1>4. \/ Ignore(e)
      \/ /\ c.flags \cap (CloseFlags \cup {"RECEIVED_EOF"}) = {} /\ length # 0
         /\ \E x \in Received(k, [c EXCEPT !.rec_window = @ - length], length) :
              Update(e, k, x, Rest(e))
  BY <1>2, <1>3 DEF channel_data_handler
<1>5. CASE Ignore(e)
  BY <1>1, <1>5, IgnoreInv
<1>6. Sound(k, c) /\ c.rec_window \in Nat
  BY <1>2, EndFacts DEF Object
<1>7. length \in Nat /\ length <= c.rec_window
  BY <1>2, <1>6, BoundsAssumption, LeastNat
<1> HIDE DEF length
<1>8. ASSUME c.flags \cap (CloseFlags \cup {"RECEIVED_EOF"}) = {}, length # 0,
             NEW x \in Received(k, [c EXCEPT !.rec_window = @ - length], length),
             Update(e, k, x, Rest(e))
      PROVE  IInv'
  <2>1. length \in 1 .. c.rec_window
    <3> DEFINE w == c.rec_window
    <3>1. w \in Nat /\ length \in Nat /\ length <= w /\ length # 0
      BY <1>6, <1>7, <1>8, Zenon
    <3> HIDE DEF w, c
    <3>2. length \in 1 .. w
      BY <3>1
    <3> QED
      BY <3>2, Zenon DEF w
  <2>2. Sound(k, x.c) /\ Sends(k, c, {}, x)
    BY <1>2, <1>6, <1>8, <2>1, DataSound
  <2>3. Reading(e, k, {}, Rest(e))
    BY <1>1 DEF Reading, Rest
  <2> QED
    BY <1>1, <1>2, <1>8, <2>2, <2>3, UpdateInv
<1> QED
  BY <1>4, <1>5, <1>8

LEMMA EofInv ==
  ASSUME IInv, NEW e \in Ends, channel_eof_handler(e)
  PROVE  IInv'
<1> DEFINE m == Head(inbox[e])
           k == m.k
           c == ch[e][k]
           d == [c EXCEPT !.flags = @ \cup {"RECEIVED_EOF"}, !.shut = @ \/ c.socket = "open"]
           x == IF "SENT_EOF" \in c.flags THEN channel_close(k, Plain(d)) ELSE Plain(d)
<1>1. ~finished[e] /\ inbox[e] # <<>> /\ m.type = "EOF" /\ m.type \in DataTypes
  BY DEF channel_eof_handler, Reads, DataTypes
<1>2. /\ k \in Opens /\ lookup_channel(e, m.to) = k /\ c.status = "live"
      /\ "RECEIVED_CLOSE" \notin c.flags /\ "RECEIVED_EOF" \notin c.flags
  BY <1>1, HeadFacts
<1>3. k # NoChannel
  BY <1>2, OpensAssumption
<1>4. Update(e, k, x, Rest(e))
  BY <1>2, <1>3 DEF channel_eof_handler
<1>5. Sound(k, c)
  BY <1>2, EndFacts
<1>6. Sound(k, x.c) /\ Sends(k, c, {"RECEIVED_EOF"}, x)
  BY <1>2, <1>5, EofHandlerSound
<1>7. Reading(e, k, {"RECEIVED_EOF"}, Rest(e))
  BY <1>1 DEF Reading, Rest
<1> HIDE DEF x
<1> QED
  BY <1>1, <1>2, <1>4, <1>6, <1>7, UpdateInv

LEMMA CloseInv ==
  ASSUME IInv, NEW e \in Ends, channel_close_handler(e)
  PROVE  IInv'
<1> DEFINE m == Head(inbox[e])
           k == m.k
           c == ch[e][k]
           d == [c EXCEPT !.flags = @ \cup {"RECEIVED_CLOSE"}]
           x == IF "SENT_CLOSE" \in c.flags THEN Plain(Finish(d)) ELSE channel_close(k, Plain(d))
<1>1. ~finished[e] /\ inbox[e] # <<>> /\ m.type = "CLOSE" /\ m.type \in DataTypes
  BY DEF channel_close_handler, Reads, DataTypes
<1>2. /\ k \in Opens /\ lookup_channel(e, m.to) = k /\ c.status = "live"
      /\ "RECEIVED_CLOSE" \notin c.flags
  BY <1>1, HeadFacts
<1>3. k # NoChannel
  BY <1>2, OpensAssumption
<1>4. Update(e, k, x, Rest(e))
  BY <1>2, <1>3 DEF channel_close_handler
<1>5. Sound(k, c)
  BY <1>2, EndFacts
<1>6. Sound(k, x.c) /\ Sends(k, c, {"RECEIVED_CLOSE"}, x)
  <2>1. d = [c EXCEPT !.flags = @ \cup {"RECEIVED_CLOSE"}]
    OBVIOUS
  <2>2. x = IF "SENT_CLOSE" \in c.flags THEN Plain(Finish(d)) ELSE channel_close(k, Plain(d))
    OBVIOUS
  <2> HIDE DEF k, c, d, x
  <2> QED
    BY <1>2, <1>5, <2>1, <2>2, CloseHandlerSound
<1>7. Reading(e, k, {"RECEIVED_CLOSE"}, Rest(e))
  BY <1>1 DEF Reading, Rest
<1> HIDE DEF x
<1> QED
  BY <1>1, <1>2, <1>4, <1>6, <1>7, UpdateInv

-----------------------------------------------------------------------------
(* The steps before a channel is established.                              *)

(* When there can be nothing on its way.                                   *)
LEMMA LinkNone ==
  ASSUME NEW k, NEW box \in Seq(Packet), NEW s, NEW r, NEW up, Link(k, box, s, r, up),
         \/ s.status \in {"none", "asked"}
         \/ r.status \in {"asked", "dead"}
         \/ s.status = "opening" /\ r.status # "none"
  PROVE  Of(k, box) = {}
<1> SUFFICES ASSUME NEW i \in Of(k, box)
             PROVE  FALSE
  OBVIOUS
<1>1. box[i] \in Packet
  BY DEF Of
<1>2. box[i].type \in {"OPEN", "CONFIRM", "FAILURE", "DATA", "ADJUST", "EOF", "CLOSE"}
  BY <1>1 DEF Packet
<1>3. Fits(k, box, i, s, r, up)
  BY DEF Link
<1> QED
  BY <1>2, <1>3 DEF Fits, DataTypes

(* The first packet about a channel in its direction.                      *)
LEMMA LinkOne ==
  ASSUME NEW k, NEW box \in Seq(Packet), NEW s, NEW r, NEW up, NEW m \in Packet,
         Of(k, box) = {}, m.k = k, r.flags = {},
         \/ m.type = "OPEN" /\ up /\ s.status = "opening" /\ r.status = "none" /\ m.from = s.local
         \/ /\ m.type = "CONFIRM" /\ ~up /\ s.status = "live" /\ r.status = "opening"
            /\ m.to = r.local /\ m.from = s.local
         \/ /\ m.type = "FAILURE" /\ ~up /\ s.status = "dead" /\ r.status = "opening"
            /\ m.to = r.local
  PROVE  /\ Link(k, Append(box, m), s, r, up)
         /\ m.type = "CONFIRM" => Confirmed(k, Append(box, m))
<1> DEFINE b == Append(box, m)
           n == Len(box) + 1
<1>1. n \in Nat /\ b[n] = m /\ Of(k, b) \subseteq {n} /\ n \in Of(k, b)
  BY AppendOf DEF Of
<1> HIDE DEF b, n
<1>2. Fits(k, b, n, s, r, up)
  BY <1>1 DEF Fits, DataTypes
<1>3. Ordered(k, b)
  BY <1>1 DEF Ordered
<1>4. Got(k, b, s, r)
  BY DEF Got
<1>5. \A i \in Of(k, b) : Fits(k, b, i, s, r, up)
  BY <1>1, <1>2
<1>6. m.type = "CONFIRM" => Confirmed(k, b)
  BY <1>1 DEF Confirmed
<1> QED
  BY <1>3, <1>4, <1>5, <1>6 DEF Link, b

(* CONFIRM is read and the channel of the receiver is established.         *)
LEMMA LinkConfirm ==
  ASSUME NEW k, NEW box \in Seq(Packet), box # <<>>, NEW s, NEW r, NEW up, NEW d,
         Link(k, box, s, r, up), Head(box).k = k, Head(box).type = "CONFIRM",
         d.status = "live", d.local = r.local, d.flags = {}
  PROVE  Link(k, Tail(box), s, d, up)
<1> DEFINE t == Tail(box)
<1>1. ASSUME NEW i \in Of(k, t)
      PROVE  /\ i \in Nat /\ t[i] = box[i + 1] /\ i + 1 \in Of(k, box)
  <2>1. i \in 1 .. Len(t)
    BY DEF Of
  <2> QED
    BY <2>1, TailOf
<1>2. \A i \in Of(k, t) : t[i].type \in DataTypes
  BY LinkHead
<1> HIDE DEF t
<1>3. ASSUME NEW i \in Of(k, t)
      PROVE  Fits(k, t, i, s, d, up)
  <2>1. Fits(k, box, i + 1, s, r, up) /\ t[i] = box[i + 1] /\ t[i].type \in DataTypes
    BY <1>1, <1>2 DEF Link
  <2> QED
    BY <2>1 DEF Fits, DataTypes
<1>4. Ordered(k, t)
  <2> SUFFICES ASSUME NEW i \in Of(k, t), NEW j \in Of(k, t), i < j
               PROVE  /\ t[i].type \notin {"OPEN", "FAILURE", "CLOSE"}
                      /\ t[j].type \in DataTypes
                      /\ t[i].type = "EOF" => t[j].type \notin {"EOF", "DATA"}
    BY DEF Ordered
  <2>1. /\ i \in Nat /\ t[i] = box[i + 1] /\ i + 1 \in Of(k, box)
        /\ j \in Nat /\ t[j] = box[j + 1] /\ j + 1 \in Of(k, box)
    BY <1>1
  <2>2. i + 1 < j + 1
    BY <2>1
  <2> QED
    BY <2>1, <2>2 DEF Link, Ordered
<1>5. Got(k, t, s, d)
  BY DEF Got
<1> QED
  BY <1>3, <1>4, <1>5 DEF Link, t

(* A channel that is not established is asked for, or given up.            *)
LEMMA NewSound ==
  ASSUME NEW k \in Opens, NEW c, Sound(k, c), c.status \in {"none", "opening", "asked"},
         NEW d \in Object, d.status \in {"opening", "asked", "dead"}, d.flags = c.flags,
         d.socket = c.socket, d.want_read = c.want_read, d.write_closed = c.write_closed,
         d.rec_window = c.rec_window, d.buffered = c.buffered, d.cookie = c.cookie
  PROVE  Sound(k, d) /\ d.flags = {}
<1>1. c.socket = "idle" /\ c.flags = {} /\ ~c.want_read /\ ~c.write_closed
  BY DEF Sound, Phase
<1>2. Phase(d) /\ Source(d)
  BY <1>1 DEF Phase, Source
<1>3. Bounded(k, d)
  BY DEF Sound, Bounded
<1> QED
  BY <1>1, <1>2, <1>3 DEF Sound

(* channel_forward_start_io and the end of opening a channel.              *)
Started(c, remote, size) ==
  [start_io(c) EXCEPT !.status = "live", !.remote = remote, !.send_window = size]

LEMMA StartSound ==
  ASSUME NEW k \in Opens, NEW c, Sound(k, c), c.status \in {"opening", "asked"},
         NEW remote \in Numbers, NEW size \in Nat,
         NEW d, d = Started(c, remote, size)
  PROVE  /\ Sound(k, d) /\ d.flags = {} /\ c.flags = {} /\ d.local = c.local
         /\ d.remote = remote /\ d.status = "live" /\ d.rec_window = c.rec_window
<1>1. c.socket = "idle" /\ c.flags = {} /\ ~c.want_read /\ ~c.write_closed
  BY DEF Sound, Phase
<1>2. c \in Object /\ Bounded(k, c)
  BY DEF Sound
<1>3. d \in Object
  BY <1>2 DEF Started, start_io, Object
<1>4. /\ d.status = "live" /\ d.socket = "open" /\ d.reading /\ d.want_read /\ d.sources = 1
      /\ d.flags = c.flags /\ d.local = c.local /\ d.remote = remote
      /\ d.rec_window = c.rec_window
      /\ d.buffered = c.buffered /\ d.cookie = c.cookie
  BY <1>2 DEF Started, start_io, Object
<1>5. Phase(d)
  BY <1>1, <1>4 DEF Phase, CloseFlags
<1>6. Source(d)
  BY <1>4 DEF Source
<1>7. Bounded(k, d)
  BY <1>2, <1>4 DEF Bounded
<1> QED
  BY <1>1, <1>3, <1>4, <1>5, <1>6, <1>7 DEF Sound

(* The queues when one packet is sent.                                     *)
LEMMA SendBox ==
  ASSUME IInv, NEW e \in Ends, ~finished[e], NEW k, NEW m \in Packet, m.k = k,
         NEW new, new = Send(e, <<m>>, inbox)
  PROVE  /\ new \in [Ends -> Seq(Packet)]
         /\ new[e] = inbox[e] /\ new[Peer(e)] = Append(inbox[Peer(e)], m)
         /\ \A f \in Ends : BoxStep(k, inbox[f], new[f])
<1>1. inbox \in [Ends -> Seq(Packet)]
  BY DEF IInv, TypeOK
<1>2. Peer(e) \in Ends /\ Peer(e) # e /\ \A f \in Ends : f = e \/ f = Peer(e)
  BY PeerFacts
<1>3. /\ inbox[Peer(e)] \o <<m>> = Append(inbox[Peer(e)], m)
      /\ Append(inbox[Peer(e)], m) \in Seq(Packet)
  BY <1>1, <1>2, Concat
<1>4. new = [inbox EXCEPT ![Peer(e)] = Append(inbox[Peer(e)], m)]
  BY <1>3 DEF Send
<1>5. /\ new \in [Ends -> Seq(Packet)]
      /\ new[e] = inbox[e] /\ new[Peer(e)] = Append(inbox[Peer(e)], m)
  BY <1>1, <1>2, <1>3, <1>4
<1>6. BoxStep(k, inbox[e], inbox[e]) /\ BoxStep(k, inbox[Peer(e)], Append(inbox[Peer(e)], m))
  BY <1>1, <1>2, BoxKeep, BoxSend
<1> QED
  BY <1>2, <1>5, <1>6

LEMMA OpenCommandInv ==
  ASSUME IInv, NEW e \in Ends, NEW k \in Opens, OpenCommand(e, k)
  PROVE  IInv'
<1> DEFINE c == ch[e][k]
           p == Peer(e)
           q == ch[p][k]
<1>1. PICK n \in Numbers :
        /\ alloc_channel(e, n)
        /\ in_use' = [in_use EXCEPT ![e][n] = "RESERVED"]
        /\ channels' = [channels EXCEPT ![e][n] = k]
        /\ ch' = [ch EXCEPT ![e][k] = [c EXCEPT !.status = "opening", !.local = n]]
        /\ inbox' = Send(e, <<Msg("OPEN", k, [c EXCEPT !.status = "opening", !.local = n],
                                  [c EXCEPT !.status = "opening", !.local = n].rec_window)>>, inbox)
  BY DEF OpenCommand
<1>2. /\ Opener[k] = e /\ c.status = "none" /\ ~finished[e]
      /\ session' = session /\ pending' = pending /\ error' = error /\ finished' = finished
  BY DEF OpenCommand
<1> DEFINE d == [c EXCEPT !.status = "opening", !.local = n]
           m == Msg("OPEN", k, d, d.rec_window)
           u == [in_use[e] EXCEPT ![n] = "RESERVED"]
           t == [channels[e] EXCEPT ![n] = k]
           b == Append(inbox[p], m)
<1>3. /\ Sound(k, c) /\ Sound(k, q) /\ c \in Object /\ ch[e] \in [Opens -> Object]
      /\ inbox \in [Ends -> Seq(Packet)] /\ inbox[e] \in Seq(Packet) /\ inbox[p] \in Seq(Packet)
      /\ in_use[e] \in [Numbers -> {"FREE", "RESERVED", "IN_USE"}]
      /\ channels[e] \in [Numbers -> Opens \cup {NoChannel}]
      /\ Tabled(ch[e], in_use[e], channels[e])
      /\ next \in [Ends -> Nat] /\ finished \in [Ends -> BOOLEAN]
      /\ Link(k, inbox[e], q, c, Opener[k] = p)
      /\ Link(k, inbox[p], c, q, Opener[k] = e)
      /\ Opener[k] = e => Pair(k, c, q, inbox[e])
  BY EndFacts
<1>4. p \in Ends /\ p # e /\ Peer(e) = p
  BY PeerFacts
<1>5. /\ d \in Object /\ d.status = "opening" /\ d.local = n /\ d.flags = c.flags
      /\ d.socket = c.socket /\ d.want_read = c.want_read /\ d.write_closed = c.write_closed
      /\ d.rec_window = c.rec_window /\ d.buffered = c.buffered /\ d.cookie = c.cookie
      /\ d.rec_window \in Nat
  BY <1>3 DEF Object
<1>6. /\ ch' = [ch EXCEPT ![e] = [ch[e] EXCEPT ![k] = d]]
      /\ inbox' = Send(e, <<m>>, inbox)
      /\ in_use' = [in_use EXCEPT ![e] = u] /\ channels' = [channels EXCEPT ![e] = t]
  BY <1>1
<1> HIDE DEF c, p, q, d
<1>7. Sound(k, d) /\ d.flags = {}
  BY <1>2, <1>3, <1>5, NewSound
<1>8. m \in Packet /\ m.type = "OPEN" /\ m.k = k /\ m.from = n
  BY <1>5, MsgType
<1> HIDE DEF m
<1>9. /\ inbox' \in [Ends -> Seq(Packet)]
      /\ \A f \in Ends : BoxStep(k, inbox[f], inbox'[f])
  BY <1>2, <1>6, <1>8, SendBox
<1>10. inbox'[e] = inbox[e] /\ inbox'[p] = b
  BY <1>2, <1>4, <1>6, <1>8, SendBox
<1>11. q.status = "none"
  BY <1>2, <1>3 DEF Pair
<1>12. q.flags = {}
  BY <1>3, <1>11 DEF Sound, Phase
<1>13. Of(k, inbox[e]) = {} /\ Of(k, inbox[p]) = {}
  BY <1>2, <1>3, <1>11, LinkNone
<1>14. Link(k, inbox[e], q, d, Opener[k] = p)
  BY <1>7, <1>13, LinkEmpty DEF Got
<1>15. Link(k, b, d, q, Opener[k] = e)
  BY <1>2, <1>3, <1>5, <1>8, <1>11, <1>12, <1>13, LinkOne
<1>16. Pair(k, d, q, inbox'[e])
  BY <1>5, <1>11 DEF Pair
<1>17. in_use[e][n] = "FREE" /\ next' = [next EXCEPT ![e] = n + 1]
  BY <1>1 DEF alloc_channel, Free
<1>18. next' \in [Ends -> Nat]
  BY <1>3, <1>17 DEF Numbers
<1>19. ~Holds(ch[e][k])
  BY <1>2 DEF Holds, c
<1>20. Tabled([ch[e] EXCEPT ![k] = d], u, t)
  BY <1>3, <1>5, <1>17, <1>19, TableAlloc
<1>21. /\ u \in [Numbers -> {"FREE", "RESERVED", "IN_USE"}]
       /\ t \in [Numbers -> Opens \cup {NoChannel}]
  BY <1>3
<1> HIDE DEF u, t, b
<1>22. StepTo(e, k, d, u, t)
  BY <1>2, <1>3, <1>4, <1>6, <1>7, <1>9, <1>10, <1>14, <1>15, <1>16, <1>18, <1>20, <1>21
     DEF StepTo, q
<1> QED
  BY <1>22, StepInv

LEMMA OpenContinueInv ==
  ASSUME IInv, NEW e \in Ends, NEW k \in Opens, OpenContinue(e, k)
  PROVE  IInv'
<1> DEFINE c == ch[e][k]
           p == Peer(e)
           q == ch[p][k]
           d == [start_io(c) EXCEPT !.status = "live"]
           n == c.local
           m == Msg("CONFIRM", k, d, d.rec_window)
           u == [in_use[e] EXCEPT ![n] = "IN_USE"]
           t == [channels[e] EXCEPT ![n] = k]
           b == Append(inbox[p], m)
<1>2. /\ c.status = "asked" /\ ~finished[e] /\ next' = next
      /\ session' = session /\ pending' = pending /\ error' = error /\ finished' = finished
  BY DEF OpenContinue
<1>3. /\ Sound(k, c) /\ Sound(k, q) /\ c \in Object /\ ch[e] \in [Opens -> Object]
      /\ inbox \in [Ends -> Seq(Packet)] /\ inbox[e] \in Seq(Packet) /\ inbox[p] \in Seq(Packet)
      /\ in_use[e] \in [Numbers -> {"FREE", "RESERVED", "IN_USE"}]
      /\ channels[e] \in [Numbers -> Opens \cup {NoChannel}]
      /\ Tabled(ch[e], in_use[e], channels[e])
      /\ next \in [Ends -> Nat] /\ finished \in [Ends -> BOOLEAN]
      /\ Link(k, inbox[e], q, c, Opener[k] = p)
      /\ Link(k, inbox[p], c, q, Opener[k] = e)
      /\ Opener[k] = e => Pair(k, c, q, inbox[e])
      /\ Opener[k] = p => Pair(k, q, c, inbox[p])
      /\ Opener[k] = e \/ Opener[k] = p
      /\ n \in Numbers
  BY EndFacts
<1>4. p \in Ends /\ p # e /\ Peer(e) = p
  BY PeerFacts
<1>5. d = Started(c, c.remote, c.send_window) /\ c.remote \in Numbers /\ c.send_window \in Nat
  BY <1>3 DEF Started, start_io, Object
<1>6. /\ ch' = [ch EXCEPT ![e] = [ch[e] EXCEPT ![k] = d]]
      /\ inbox' = Send(e, <<m>>, inbox) /\ d.local = n
      /\ in_use' = [in_use EXCEPT ![e] = u] /\ channels' = [channels EXCEPT ![e] = t]
  <2>1. d.local = n
    BY <1>3 DEF start_io, Object
  <2> QED
    BY <2>1 DEF OpenContinue
<1> HIDE DEF c, p, q, d
<1>7. /\ Sound(k, d) /\ d.flags = {} /\ d.local = n /\ d.remote = c.remote /\ d.status = "live"
  BY <1>2, <1>3, <1>5, StartSound
<1>8. m \in Packet /\ m.type = "CONFIRM" /\ m.k = k /\ m.from = d.local /\ m.to = d.remote
  <2>1. d \in Object /\ d.rec_window \in Nat
    BY <1>7 DEF Sound, Object
  <2> QED
    BY <2>1, MsgType
<1> HIDE DEF m
<1>9. /\ inbox' \in [Ends -> Seq(Packet)]
      /\ \A f \in Ends : BoxStep(k, inbox[f], inbox'[f])
  BY <1>2, <1>6, <1>8, SendBox
<1>10. inbox'[e] = inbox[e] /\ inbox'[p] = b
  BY <1>2, <1>4, <1>6, <1>8, SendBox
<1>11. Opener[k] = p /\ Opener[k] # e /\ q.status = "opening" /\ c.remote = q.local
  BY <1>2, <1>3, <1>4 DEF Pair
<1>12. q.flags = {}
  BY <1>3, <1>11 DEF Sound, Phase
<1>13. Of(k, inbox[e]) = {} /\ Of(k, inbox[p]) = {}
  BY <1>2, <1>3, LinkNone
<1>14. Link(k, inbox[e], q, d, Opener[k] = p)
  BY <1>7, <1>13, LinkEmpty DEF Got
<1>15. Link(k, b, d, q, Opener[k] = e) /\ Confirmed(k, b)
  BY <1>3, <1>7, <1>8, <1>11, <1>12, <1>13, LinkOne
<1>16. Pair(k, q, d, inbox'[p])
  BY <1>7, <1>10, <1>11, <1>15 DEF Pair
<1>17. Holds(ch[e][k]) /\ n = ch[e][k].local
  BY <1>2 DEF Holds, c
<1>18. Tabled([ch[e] EXCEPT ![k] = d], u, t)
  BY <1>3, <1>7, <1>17, TableLive
<1>19. /\ u \in [Numbers -> {"FREE", "RESERVED", "IN_USE"}]
       /\ t \in [Numbers -> Opens \cup {NoChannel}]
  BY <1>3
<1> HIDE DEF u, t, b
<1>20. StepTo(e, k, d, u, t)
  BY <1>2, <1>3, <1>4, <1>6, <1>7, <1>9, <1>10, <1>11, <1>14, <1>15, <1>16, <1>18, <1>19
     DEF StepTo, q
<1> QED
  BY <1>20, StepInv

LEMMA OpenRefusedInv ==
  ASSUME IInv, NEW e \in Ends, NEW k \in Opens, OpenRefused(e, k)
  PROVE  IInv'
<1> DEFINE c == ch[e][k]
           p == Peer(e)
           q == ch[p][k]
           d == [c EXCEPT !.status = "dead"]
           n == c.local
           m == Msg("FAILURE", k, c, 0)
           u == [in_use[e] EXCEPT ![n] = "FREE"]
           t == [channels[e] EXCEPT ![n] = NoChannel]
           b == Append(inbox[p], m)
<1>2. /\ c.status = "asked" /\ ~finished[e]
      /\ session' = session /\ pending' = pending /\ error' = error /\ finished' = finished
  BY DEF OpenRefused
<1>3. /\ Sound(k, c) /\ Sound(k, q) /\ c \in Object /\ ch[e] \in [Opens -> Object]
      /\ inbox \in [Ends -> Seq(Packet)] /\ inbox[e] \in Seq(Packet) /\ inbox[p] \in Seq(Packet)
      /\ in_use[e] \in [Numbers -> {"FREE", "RESERVED", "IN_USE"}]
      /\ channels[e] \in [Numbers -> Opens \cup {NoChannel}]
      /\ Tabled(ch[e], in_use[e], channels[e])
      /\ next \in [Ends -> Nat] /\ finished \in [Ends -> BOOLEAN]
      /\ Link(k, inbox[e], q, c, Opener[k] = p)
      /\ Link(k, inbox[p], c, q, Opener[k] = e)
      /\ Opener[k] = e => Pair(k, c, q, inbox[e])
      /\ Opener[k] = p => Pair(k, q, c, inbox[p])
      /\ Opener[k] = e \/ Opener[k] = p
      /\ n \in Numbers
  BY EndFacts
<1>4. p \in Ends /\ p # e /\ Peer(e) = p
  BY PeerFacts
<1>5. /\ d \in Object /\ d.status = "dead" /\ d.flags = c.flags
      /\ d.socket = c.socket /\ d.want_read = c.want_read /\ d.write_closed = c.write_closed
      /\ d.rec_window = c.rec_window /\ d.buffered = c.buffered /\ d.cookie = c.cookie
  BY <1>3 DEF Object
<1>6. /\ ch' = [ch EXCEPT ![e] = [ch[e] EXCEPT ![k] = d]]
      /\ inbox' = Send(e, <<m>>, inbox)
      /\ in_use' = [in_use EXCEPT ![e] = u] /\ channels' = [channels EXCEPT ![e] = t]
      /\ next' = [next EXCEPT ![e] = Least(n, @)]
  BY DEF OpenRefused, Dealloc
<1> HIDE DEF c, p, q, d
<1>7. Sound(k, d) /\ d.flags = {}
  BY <1>2, <1>3, <1>5, NewSound
<1>8. m \in Packet /\ m.type = "FAILURE" /\ m.k = k /\ m.to = c.remote
  BY <1>3, MsgType
<1> HIDE DEF m
<1>9. /\ inbox' \in [Ends -> Seq(Packet)]
      /\ \A f \in Ends : BoxStep(k, inbox[f], inbox'[f])
  BY <1>2, <1>6, <1>8, SendBox
<1>10. inbox'[e] = inbox[e] /\ inbox'[p] = b
  BY <1>2, <1>4, <1>6, <1>8, SendBox
<1>11. Opener[k] = p /\ Opener[k] # e /\ q.status = "opening" /\ c.remote = q.local
  BY <1>2, <1>3, <1>4 DEF Pair
<1>12. q.flags = {}
  BY <1>3, <1>11 DEF Sound, Phase
<1>13. Of(k, inbox[e]) = {} /\ Of(k, inbox[p]) = {}
  BY <1>2, <1>3, LinkNone
<1>14. Link(k, inbox[e], q, d, Opener[k] = p)
  BY <1>7, <1>13, LinkEmpty DEF Got
<1>15. Link(k, b, d, q, Opener[k] = e)
  BY <1>3, <1>5, <1>8, <1>11, <1>12, <1>13, LinkOne
<1>16. Pair(k, q, d, inbox'[p])
  BY <1>5, <1>11 DEF Pair
<1>17. Holds(ch[e][k]) /\ n = ch[e][k].local /\ ~Holds(d)
  BY <1>2, <1>5 DEF Holds, c
<1>18. Tabled([ch[e] EXCEPT ![k] = d], u, t)
  BY <1>3, <1>17, TableFree
<1>19. /\ u \in [Numbers -> {"FREE", "RESERVED", "IN_USE"}]
       /\ t \in [Numbers -> Opens \cup {NoChannel}]
  BY <1>3
<1>20. next' \in [Ends -> Nat]
  <2>0. n \in Nat /\ next[e] \in Nat
    BY <1>3 DEF Numbers
  <2>1. Least(n, next[e]) \in Nat
    BY <2>0, LeastNat
  <2> QED
    BY <1>3, <1>6, <2>1
<1> HIDE DEF u, t, b
<1>21. StepTo(e, k, d, u, t)
  BY <1>2, <1>3, <1>4, <1>6, <1>7, <1>9, <1>10, <1>11, <1>14, <1>15, <1>16, <1>18, <1>19, <1>20
     DEF StepTo, q
<1> QED
  BY <1>21, StepInv

(* The queues when one packet is read.                                     *)
LEMMA PopBox ==
  ASSUME IInv, NEW e \in Ends, inbox[e] # <<>>, NEW k, Head(inbox[e]).k = k
  PROVE  /\ Rest(e) \in [Ends -> Seq(Packet)]
         /\ Rest(e)[e] = Tail(inbox[e]) /\ Rest(e)[Peer(e)] = inbox[Peer(e)]
         /\ \A f \in Ends : BoxStep(k, inbox[f], Rest(e)[f])
<1>1. inbox \in [Ends -> Seq(Packet)]
  BY DEF IInv, TypeOK
<1>2. Peer(e) \in Ends /\ Peer(e) # e /\ \A f \in Ends : f = e \/ f = Peer(e)
  BY PeerFacts
<1>3. BoxStep(k, inbox[e], Tail(inbox[e])) /\ BoxStep(k, inbox[Peer(e)], inbox[Peer(e)])
  BY <1>1, <1>2, BoxKeep, BoxPop
<1>4. Tail(inbox[e]) \in Seq(Packet)
  BY <1>3 DEF BoxStep
<1>5. /\ Rest(e) \in [Ends -> Seq(Packet)]
      /\ Rest(e)[e] = Tail(inbox[e]) /\ Rest(e)[Peer(e)] = inbox[Peer(e)]
  BY <1>1, <1>2, <1>4 DEF Rest
<1> QED
  BY <1>2, <1>3, <1>5

LEMMA OpenHandlerInv ==
  ASSUME IInv, NEW e \in Ends, channel_open_handler(e)
  PROVE  IInv'
<1> DEFINE m == Head(inbox[e])
           k == m.k
           c == ch[e][k]
           p == Peer(e)
           q == ch[p][k]
<1>1. ~finished[e] /\ inbox[e] # <<>> /\ m.type = "OPEN"
  BY DEF channel_open_handler, Reads
<1>2. /\ m \in Packet /\ k \in Opens /\ m.size \in Nat /\ m.from \in Numbers
      /\ c.status = "none" /\ q.status = "opening" /\ Opener[k] = p /\ m.from = q.local
  BY <1>1, HeadFacts
<1>3. /\ Sound(k, c) /\ Sound(k, q) /\ c \in Object /\ ch[e] \in [Opens -> Object]
      /\ inbox[e] \in Seq(Packet) /\ inbox[p] \in Seq(Packet)
      /\ in_use[e] \in [Numbers -> {"FREE", "RESERVED", "IN_USE"}]
      /\ channels[e] \in [Numbers -> Opens \cup {NoChannel}]
      /\ Tabled(ch[e], in_use[e], channels[e])
      /\ next \in [Ends -> Nat] /\ finished \in [Ends -> BOOLEAN]
      /\ Link(k, inbox[e], q, c, Opener[k] = p)
      /\ Link(k, inbox[p], c, q, Opener[k] = e)
  BY <1>2, EndFacts
<1>4. p \in Ends /\ p # e /\ Peer(e) = p /\ \A f \in Ends : f = e \/ f = p
  BY PeerFacts
<1>5. session' = session /\ pending' = pending /\ error' = error /\ finished' = finished
  BY DEF channel_open_handler
<1>6. /\ Rest(e) \in [Ends -> Seq(Packet)]
      /\ Rest(e)[e] = Tail(inbox[e]) /\ Rest(e)[p] = inbox[p]
      /\ \A f \in Ends : BoxStep(k, inbox[f], Rest(e)[f])
  BY <1>1, PopBox
<1> DEFINE b == inbox[e]
<1>7. Of(k, Tail(b)) = {} /\ Of(k, inbox[p]) = {}
  <2>1. Head(b).k = k /\ Head(b).type = "OPEN" /\ b \in Seq(Packet) /\ b # <<>>
        /\ Link(k, b, q, c, Opener[k] = p)
    BY <1>1, <1>3
  <2> HIDE DEF b, k, c, q, p
  <2>2. Of(k, Tail(b)) = {}
    BY <2>1, LinkHead
  <2>3. Of(k, inbox[p]) = {}
    BY <1>2, <1>3, LinkNone
  <2> QED
    BY <2>2, <2>3
<1>8. q.flags = {}
  BY <1>2, <1>3 DEF Sound, Phase
<1>9. CASE pending[e]
  <2> DEFINE d == [c EXCEPT !.status = "dead"]
             r == [m EXCEPT !.type = "FAILURE", !.to = m.from, !.size = 0]
  <2>1. /\ ch' = [ch EXCEPT ![e] = [ch[e] EXCEPT ![k] = d]]
        /\ inbox' = Send(e, <<r>>, Rest(e))
        /\ in_use' = in_use /\ channels' = channels /\ next' = next
    BY <1>9 DEF channel_open_handler, table
  <2>2. r \in Packet /\ r.type = "FAILURE" /\ r.to = m.from /\ r.k = k
    BY <1>2 DEF Packet
  <2>3. /\ d \in Object /\ d.status = "dead" /\ d.flags = c.flags
        /\ d.socket = c.socket /\ d.want_read = c.want_read /\ d.write_closed = c.write_closed
        /\ d.rec_window = c.rec_window /\ d.buffered = c.buffered /\ d.cookie = c.cookie
    BY <1>3 DEF Object
  <2>4. inbox' = [Rest(e) EXCEPT ![p] = @ \o <<r>>]
    BY <1>1, <2>1 DEF Send
  <2> HIDE DEF b, k, c, p, q, d, r
  <2>5. Sound(k, d) /\ d.flags = {}
    BY <1>2, <1>3, <2>3, NewSound
  <2>6. inbox[p] \o <<r>> = Append(inbox[p], r) /\ Append(inbox[p], r) \in Seq(Packet)
    BY <1>3, <2>2, Concat
  <2>7. /\ inbox' \in [Ends -> Seq(Packet)]
        /\ inbox'[e] = Tail(b) /\ inbox'[p] = Append(inbox[p], r)
    BY <1>4, <1>6, <2>4, <2>6 DEF b
  <2>8. \A f \in Ends : BoxStep(k, inbox[f], inbox'[f])
    <3>1. BoxStep(k, inbox[p], Append(inbox[p], r))
      BY <1>3, <2>2, BoxSend
    <3> QED
      BY <1>4, <1>6, <2>7, <3>1 DEF b
  <2>9. Link(k, Tail(b), q, d, Opener[k] = p)
    BY <1>7, <2>5, LinkEmpty DEF Got
  <2>10. Link(k, Append(inbox[p], r), d, q, Opener[k] = e)
    BY <1>2, <1>3, <1>4, <1>7, <1>8, <2>2, <2>3, LinkOne
  <2>11. Pair(k, q, d, inbox'[p])
    BY <1>2, <2>3 DEF Pair
  <2>12. ~Holds(ch[e][k]) /\ ~Holds(d)
    BY <1>2, <2>3 DEF Holds, c
  <2>13. Tabled([ch[e] EXCEPT ![k] = d], in_use[e], channels[e])
    BY <1>2, <1>3, <2>12, TableKeep
  <2>14. in_use' = [in_use EXCEPT ![e] = in_use[e]] /\ channels' = [channels EXCEPT ![e] = channels[e]]
    BY <2>1 DEF IInv, TypeOK
  <2>15. StepTo(e, k, d, in_use[e], channels[e])
    BY <1>2, <1>3, <1>4, <1>5, <2>1, <2>5, <2>7, <2>8, <2>9, <2>10, <2>11, <2>13, <2>14, ZenonT(40)
       DEF StepTo, q
  <2> QED
    BY <1>2, <2>15, StepInv
<1>10. CASE ~pending[e]
  <2>1. PICK n \in Numbers :
          /\ alloc_channel(e, n)
          /\ in_use' = [in_use EXCEPT ![e][n] = "RESERVED"]
          /\ ch' = [ch EXCEPT ![e][k] = [c EXCEPT !.status = "asked", !.local = n,
                                                  !.remote = m.from, !.send_window = m.size]]
          /\ inbox' = Rest(e)
          /\ channels' = channels
    BY <1>10 DEF channel_open_handler
  <2> DEFINE d == [c EXCEPT !.status = "asked", !.local = n,
                            !.remote = m.from, !.send_window = m.size]
             u == [in_use[e] EXCEPT ![n] = "RESERVED"]
  <2>2. /\ d \in Object /\ d.status = "asked" /\ d.flags = c.flags
        /\ d.local = n /\ d.remote = m.from
        /\ d.socket = c.socket /\ d.want_read = c.want_read /\ d.write_closed = c.write_closed
        /\ d.rec_window = c.rec_window /\ d.buffered = c.buffered /\ d.cookie = c.cookie
    BY <1>2, <1>3 DEF Object
  <2>3. ch' = [ch EXCEPT ![e] = [ch[e] EXCEPT ![k] = d]] /\ in_use' = [in_use EXCEPT ![e] = u]
    BY <2>1
  <2> HIDE DEF b, k, c, p, q, d
  <2>4. Sound(k, d) /\ d.flags = {}
    BY <1>2, <1>3, <2>2, NewSound
  <2>5. Link(k, inbox'[e], q, d, Opener[k] = p)
    BY <1>6, <1>7, <2>1, <2>4, LinkEmpty DEF Got, b
  <2>6. Link(k, inbox'[p], d, q, Opener[k] = e)
    BY <1>6, <1>7, <1>8, <2>1, LinkEmpty DEF Got
  <2>7. Pair(k, q, d, inbox'[p])
    BY <1>2, <2>2 DEF Pair
  <2>8. in_use[e][n] = "FREE" /\ next' = [next EXCEPT ![e] = n + 1]
    BY <2>1 DEF alloc_channel, Free
  <2>9. next' \in [Ends -> Nat]
    BY <1>3, <2>8 DEF Numbers
  <2>10. ~Holds(ch[e][k])
    BY <1>2 DEF Holds, c
  <2>11. Tabled([ch[e] EXCEPT ![k] = d], u, channels[e])
    BY <1>2, <1>3, <2>2, <2>8, <2>10, TableAlloc
  <2>12. u \in [Numbers -> {"FREE", "RESERVED", "IN_USE"}]
    BY <1>3
  <2>13. channels' = [channels EXCEPT ![e] = channels[e]]
    BY <2>1 DEF IInv, TypeOK
  <2> HIDE DEF u
  <2>14. StepTo(e, k, d, u, channels[e])
    BY <1>2, <1>3, <1>4, <1>5, <1>6, <2>1, <2>3, <2>4, <2>5, <2>6, <2>7, <2>9, <2>11, <2>12, <2>13
       DEF StepTo, q
  <2> QED
    BY <1>2, <2>14, StepInv
<1> QED
  BY <1>9, <1>10

LEMMA ConfirmHandlerInv ==
  ASSUME IInv, NEW e \in Ends, channel_open_confirm_handler(e)
  PROVE  IInv'
<1> DEFINE m == Head(inbox[e])
           k == m.k
           c == ch[e][k]
           p == Peer(e)
           q == ch[p][k]
           b == inbox[e]
           n == c.local
           d == Started(c, m.from, m.size)
           u == [in_use[e] EXCEPT ![n] = "IN_USE"]
<1>1. ~finished[e] /\ inbox[e] # <<>> /\ m.type = "CONFIRM"
  BY DEF channel_open_confirm_handler, Reads
<1>2. /\ k \in Opens /\ m.size \in Nat /\ m.from \in Numbers
      /\ lookup_channel_reserved(e, m.to) = k /\ c.status = "opening" /\ m.to = n
      /\ Opener[k] # p /\ q.status = "live" /\ m.from = q.local
  BY <1>1, HeadFacts
<1>3. /\ Sound(k, c) /\ c \in Object /\ ch[e] \in [Opens -> Object]
      /\ inbox[e] \in Seq(Packet) /\ inbox[p] \in Seq(Packet)
      /\ in_use[e] \in [Numbers -> {"FREE", "RESERVED", "IN_USE"}]
      /\ channels[e] \in [Numbers -> Opens \cup {NoChannel}]
      /\ Tabled(ch[e], in_use[e], channels[e])
      /\ next \in [Ends -> Nat] /\ finished \in [Ends -> BOOLEAN]
      /\ Link(k, inbox[e], q, c, Opener[k] = p)
      /\ Link(k, inbox[p], c, q, Opener[k] = e)
      /\ Opener[k] = e => Pair(k, c, q, inbox[e])
      /\ Opener[k] = e \/ Opener[k] = p
      /\ n \in Numbers
  BY <1>2, EndFacts
<1>4. p \in Ends /\ p # e /\ Peer(e) = p
  BY PeerFacts
<1>5. k # NoChannel
  BY <1>2, OpensAssumption
<1>6. /\ ch' = [ch EXCEPT ![e] = [ch[e] EXCEPT ![k] = d]]
      /\ in_use' = [in_use EXCEPT ![e] = u] /\ inbox' = Rest(e)
      /\ channels' = channels /\ next' = next
      /\ session' = session /\ pending' = pending /\ error' = error /\ finished' = finished
  BY <1>2, <1>5 DEF channel_open_confirm_handler, Started
<1>7. /\ Rest(e) \in [Ends -> Seq(Packet)]
      /\ Rest(e)[e] = Tail(inbox[e]) /\ Rest(e)[p] = inbox[p]
      /\ \A f \in Ends : BoxStep(k, inbox[f], Rest(e)[f])
  BY <1>1, PopBox
<1>8. Head(b).k = k /\ Head(b).type = "CONFIRM" /\ b \in Seq(Packet) /\ b # <<>>
      /\ Link(k, b, q, c, Opener[k] = p)
  BY <1>1, <1>3
<1>a. d = Started(c, m.from, m.size)
  OBVIOUS
<1> HIDE DEF b, m, k, c, p, q, d
<1>9. /\ Sound(k, d) /\ d.flags = {} /\ c.flags = {} /\ d.local = n
      /\ d.remote = m.from /\ d.status = "live"
  BY <1>2, <1>3, <1>a, StartSound
<1>10. Link(k, Tail(b), q, d, Opener[k] = p)
  BY <1>8, <1>9, LinkConfirm
<1>11. Of(k, inbox[p]) = {}
  BY <1>2, <1>3, LinkNone
<1>12. Got(k, inbox[p], d, q)
  BY <1>3, <1>9 DEF Link, Got
<1>13. Link(k, inbox[p], d, q, Opener[k] = e)
  BY <1>11, <1>12, LinkEmpty
<1>14. Pair(k, d, q, inbox'[e])
  BY <1>2, <1>3, <1>9 DEF Pair
<1>15. Holds(ch[e][k]) /\ n = ch[e][k].local /\ channels[e][n] = k
  <2>1. Holds(ch[e][k]) /\ n = ch[e][k].local /\ ch[e][k].status = "opening"
    BY <1>2 DEF Holds, c
  <2> QED
    BY <1>2, <1>3, <2>1 DEF Tabled
<1>16. channels[e] = [channels[e] EXCEPT ![n] = k]
  BY <1>3, <1>15
<1>17. Tabled([ch[e] EXCEPT ![k] = d], u, channels[e])
  <2> DEFINE t == [channels[e] EXCEPT ![n] = k]
  <2>1. Tabled([ch[e] EXCEPT ![k] = d], u, t)
    BY <1>2, <1>3, <1>9, <1>15, TableLive
  <2> QED
    BY <1>16, <2>1
<1>18. u \in [Numbers -> {"FREE", "RESERVED", "IN_USE"}]
  BY <1>3
<1>19. channels' = [channels EXCEPT ![e] = channels[e]]
  BY <1>6 DEF IInv, TypeOK
<1> HIDE DEF u, n
<1>20. StepTo(e, k, d, u, channels[e])
  BY <1>2, <1>3, <1>4, <1>6, <1>7, <1>9, <1>10, <1>13, <1>14, <1>17, <1>18, <1>19
     DEF StepTo, q, b
<1> QED
  BY <1>2, <1>20, StepInv

LEMMA FailureHandlerInv ==
  ASSUME IInv, NEW e \in Ends, channel_open_failure_handler(e)
  PROVE  IInv'
<1> DEFINE m == Head(inbox[e])
           k == m.k
           c == ch[e][k]
           p == Peer(e)
           q == ch[p][k]
           b == inbox[e]
           n == c.local
           d == Finish(c)
           u == [in_use[e] EXCEPT ![n] = "FREE"]
           t == [channels[e] EXCEPT ![n] = NoChannel]
<1>1. ~finished[e] /\ inbox[e] # <<>> /\ m.type = "FAILURE"
  BY DEF channel_open_failure_handler, Reads
<1>2. /\ k \in Opens /\ lookup_channel_reserved(e, m.to) = k /\ c.status = "opening"
      /\ Opener[k] # p /\ q.status = "dead"
  BY <1>1, HeadFacts
<1>3. /\ Sound(k, c) /\ c \in Object /\ ch[e] \in [Opens -> Object]
      /\ inbox[e] \in Seq(Packet) /\ inbox[p] \in Seq(Packet)
      /\ in_use[e] \in [Numbers -> {"FREE", "RESERVED", "IN_USE"}]
      /\ channels[e] \in [Numbers -> Opens \cup {NoChannel}]
      /\ Tabled(ch[e], in_use[e], channels[e])
      /\ next \in [Ends -> Nat] /\ finished \in [Ends -> BOOLEAN]
      /\ Link(k, inbox[e], q, c, Opener[k] = p)
      /\ Link(k, inbox[p], c, q, Opener[k] = e)
      /\ n \in Numbers
  BY <1>2, EndFacts
<1>4. p \in Ends /\ p # e /\ Peer(e) = p
  BY PeerFacts
<1>5. k # NoChannel
  BY <1>2, OpensAssumption
<1>6. Update(e, k, Plain(d), Rest(e)) /\ Plain(d).c = d /\ Plain(d).out = <<>>
  BY <1>2, <1>5 DEF channel_open_failure_handler, Plain
<1>7. /\ Rest(e) \in [Ends -> Seq(Packet)]
      /\ Rest(e)[e] = Tail(inbox[e]) /\ Rest(e)[p] = inbox[p]
      /\ \A f \in Ends : BoxStep(k, inbox[f], Rest(e)[f])
  BY <1>1, PopBox
<1>8. Head(b).k = k /\ Head(b).type = "FAILURE" /\ b \in Seq(Packet) /\ b # <<>>
      /\ Link(k, b, q, c, Opener[k] = p)
  BY <1>1, <1>3
<1>9. c.flags = {} /\ c.socket # "open" /\ Source(c) /\ Bounded(k, c)
  BY <1>2, <1>3 DEF Sound, Phase
<1>10. Sound(k, d) /\ d.status = "dead" /\ d.flags = {} /\ d.local = n
  BY <1>2, <1>3, <1>9, FinishSound
<1>11. /\ ch' = [ch EXCEPT ![e] = [ch[e] EXCEPT ![k] = d]]
       /\ inbox' = [Rest(e) EXCEPT ![p] = @ \o <<>>]
       /\ session' = session /\ pending' = pending /\ error' = error
       /\ Dealloc(e, n) /\ FinishIfLast(e, n)
  BY <1>1, <1>2, <1>6, <1>10 DEF Update, Send
<1>12. inbox' = Rest(e)
  <2>1. Rest(e)[p] \o <<>> = Rest(e)[p]
    BY <1>3, <1>7, ConcatEmptySeq
  <2> QED
    BY <1>7, <1>11, <2>1
<1>13. in_use' = [in_use EXCEPT ![e] = u] /\ channels' = [channels EXCEPT ![e] = t]
       /\ next' = [next EXCEPT ![e] = Least(n, @)]
  BY <1>11 DEF Dealloc
<1>14. finished' \in [Ends -> BOOLEAN]
  <2>1. (finished[e] \/ (pending[e] /\ Reserved(e) \subseteq {n})) \in BOOLEAN
    OBVIOUS
  <2> QED
    BY <1>3, <1>11, <2>1 DEF FinishIfLast
<1> HIDE DEF b, m, k, c, p, q, d, n
<1>15. next' \in [Ends -> Nat]
  <2>0. n \in Nat /\ next[e] \in Nat
    BY <1>3 DEF Numbers
  <2>1. Least(n, next[e]) \in Nat
    BY <2>0, LeastNat
  <2> QED
    BY <1>3, <1>13, <2>1
<1>16. Of(k, Tail(b)) = {}
  BY <1>8, LinkHead
<1>17. Link(k, Tail(b), q, d, Opener[k] = p)
  BY <1>10, <1>16, LinkEmpty DEF Got
<1>18. Of(k, inbox[p]) = {}
  BY <1>2, <1>3, LinkNone
<1>19. Got(k, inbox[p], d, q)
  BY <1>3, <1>9, <1>10 DEF Link, Got
<1>20. Link(k, inbox[p], d, q, Opener[k] = e)
  BY <1>18, <1>19, LinkEmpty
<1>21. Pair(k, d, q, inbox'[e])
  BY <1>2, <1>10 DEF Pair
<1>22. Holds(ch[e][k]) /\ n = ch[e][k].local /\ ~Holds(d)
  BY <1>2, <1>10 DEF Holds, c, n
<1>23. Tabled([ch[e] EXCEPT ![k] = d], u, t)
  BY <1>2, <1>3, <1>22, TableFree
<1>24. /\ u \in [Numbers -> {"FREE", "RESERVED", "IN_USE"}]
       /\ t \in [Numbers -> Opens \cup {NoChannel}]
  BY <1>3
<1> HIDE DEF u, t
<1>25. StepTo(e, k, d, u, t)
  BY <1>2, <1>3, <1>4, <1>7, <1>10, <1>11, <1>12, <1>13, <1>14, <1>15, <1>17, <1>20, <1>21,
     <1>23, <1>24 DEF StepTo, q, b
<1> QED
  BY <1>2, <1>25, StepInv

-----------------------------------------------------------------------------
(* The local sockets.                                                      *)

LEMMA SocketFacts ==
  ASSUME IInv, NEW e \in Ends, NEW k \in Opens, Watched(e, k)
  PROVE  /\ ~finished[e] /\ Sound(k, ch[e][k]) /\ ch[e][k].socket = "open"
         /\ ch[e][k].status \in {"live", "dead"}
         /\ Reading(e, k, {}, inbox)
<1>1. ~finished[e] /\ ch[e][k].socket = "open" /\ Sound(k, ch[e][k])
  BY EndFacts DEF Watched
<1>2. ch[e][k].status \in {"live", "dead"}
  BY <1>1 DEF Sound, Phase, Object
<1> QED
  BY <1>1, <1>2 DEF Reading

LEMMA SocketInv ==
  ASSUME IInv, NEW e \in Ends, NEW k \in Opens, Watched(e, k), NEW x,
         Sound(k, x.c), Sends(k, ch[e][k], {}, x), Update(e, k, x, inbox)
  PROVE  IInv'
BY SocketFacts, UpdateInv

LEMMA WriteInv ==
  ASSUME IInv, NEW e \in Ends, NEW k \in Opens, Write(e, k) \/ IoError(e, k)
  PROVE  IInv'
<1> DEFINE c == ch[e][k]
<1>1. Watched(e, k)
  BY DEF Write, WriteData, WriteAfterShutdown, CloseFlushed, IoError
<1>2. Sound(k, c) /\ c.socket = "open"
  BY <1>1, SocketFacts
<1>3. CASE WriteData(e, k)
  <2>1. PICK written \in 1 .. c.buffered :
          Update(e, k, adjust_rec_window(k, [c EXCEPT !.buffered = @ - written], written), inbox)
    BY <1>3 DEF WriteData
  <2> DEFINE x == adjust_rec_window(k, [c EXCEPT !.buffered = @ - written], written)
  <2>2. Sound(k, x.c) /\ Sends(k, c, {}, x)
    BY <1>2, WriteSound
  <2> HIDE DEF x
  <2> QED
    BY <1>1, <2>1, <2>2, SocketInv DEF x
<1>4. ASSUME NEW s \in {"closed", "failed"}, Update(e, k, close_fd(k, c, s), inbox)
      PROVE  IInv'
  <2> DEFINE x == close_fd(k, c, s)
  <2>1. Sound(k, x.c) /\ Sends(k, c, {}, x) /\ Update(e, k, x, inbox)
    BY <1>2, <1>4, CloseFdSound
  <2> HIDE DEF x
  <2> QED
    BY <1>1, <2>1, SocketInv
<1>5. CASE WriteAfterShutdown(e, k)
  BY <1>4, <1>5 DEF WriteAfterShutdown
<1>6. CASE CloseFlushed(e, k)
  BY <1>4, <1>6 DEF CloseFlushed
<1>7. CASE IoError(e, k)
  BY <1>4, <1>7 DEF IoError
<1> QED
  BY <1>3, <1>5, <1>6, <1>7 DEF Write

LEMMA ReadInv ==
  ASSUME IInv, NEW e \in Ends, NEW k \in Opens,
         ReadBlocked(e, k) \/ ReadData(e, k) \/ ReadEof(e, k)
  PROVE  IInv'
<1> DEFINE c == ch[e][k]
<1>1. Watched(e, k) /\ c.want_read
  BY DEF ReadBlocked, ReadData, ReadEof
<1>2. Sound(k, c) /\ c.socket = "open"
  BY <1>1, SocketFacts
<1>3. CASE ReadBlocked(e, k)
  <2> DEFINE x == Plain([c EXCEPT !.want_read = FALSE])
  <2>1. read_data_query(c) = 0 /\ Update(e, k, x, inbox)
    BY <1>3 DEF ReadBlocked
  <2>2. Sound(k, x.c) /\ Sends(k, c, {}, x)
    BY <1>2, <2>1, ReadBlockedSound
  <2> HIDE DEF x
  <2> QED
    BY <1>1, <2>1, <2>2, SocketInv
<1>4. CASE ReadData(e, k)
  <2>1. PICK length \in 1 .. read_data_query(c) :
          Update(e, k, [c |-> [c EXCEPT !.send_window = @ - length],
                        out |-> <<Msg("DATA", k, c, length)>>], inbox)
    BY <1>4 DEF ReadData
  <2> DEFINE x == [c |-> [c EXCEPT !.send_window = @ - length],
                   out |-> <<Msg("DATA", k, c, length)>>]
  <2>2. Sound(k, x.c) /\ Sends(k, c, {}, x)
    BY <1>1, <1>2, ReadDataSound
  <2>3. Update(e, k, x, inbox)
    BY <2>1
  <2> HIDE DEF x
  <2> QED
    BY <1>1, <2>2, <2>3, SocketInv
<1>5. CASE ReadEof(e, k)
  <2> DEFINE x == channel_eof(k, Plain([c EXCEPT !.want_read = FALSE, !.reading = FALSE]))
  <2>1. read_data_query(c) > 0 /\ Update(e, k, x, inbox)
    BY <1>5 DEF ReadEof
  <2>2. Sound(k, x.c) /\ Sends(k, c, {}, x)
    BY <1>1, <1>2, <2>1, ReadEofSound
  <2> HIDE DEF x
  <2> QED
    BY <1>1, <2>1, <2>2, SocketInv
<1> QED
  BY <1>3, <1>4, <1>5

LEMMA SessionOverInv ==
  ASSUME IInv, NEW e \in Ends, SessionOver(e)
  PROVE  IInv'
<1>0. TypeOK /\ ObjInv /\ TableInv /\ LinkInv /\ NoProtocolError
  BY DEF IInv
<1>1. /\ ch' = ch /\ channels' = channels /\ in_use' = in_use /\ next' = next
      /\ inbox' = inbox /\ error' = error
      /\ session' = [session EXCEPT ![e] = FALSE] /\ pending' = [pending EXCEPT ![e] = TRUE]
      /\ finished' = [finished EXCEPT ![e] = Reserved(e) = {}]
  BY DEF SessionOver, table
<1>2. session' \in [Ends -> BOOLEAN] /\ pending' \in [Ends -> BOOLEAN]
  BY <1>0, <1>1 DEF TypeOK
<1>3. finished' \in [Ends -> BOOLEAN]
  <2>1. (Reserved(e) = {}) \in BOOLEAN
    OBVIOUS
  <2> QED
    BY <1>0, <1>1, <2>1 DEF TypeOK
<1>4. TypeOK'
  BY <1>0, <1>1, <1>2, <1>3 DEF TypeOK
<1>5. ObjInv' /\ TableInv' /\ LinkInv' /\ NoProtocolError'
  BY <1>0, <1>1 DEF ObjInv, TableInv, LinkInv, NoProtocolError
<1> QED
  BY <1>4, <1>5 DEF IInv

LEMMA StutterInv ==
  ASSUME IInv, UNCHANGED vars
  PROVE  IInv'
BY DEF IInv, TypeOK, ObjInv, TableInv, LinkInv, NoProtocolError, vars

-----------------------------------------------------------------------------
(* The theorems.                                                           *)

LEMMA InitObjects ==
  ASSUME NEW e \in Ends, NEW k \in Opens, NEW c, c = init_channel(e, k)
  PROVE  Sound(k, c) /\ c.status = "none" /\ c.flags = {}
<1> DEFINE w == IF Checks(e, k) THEN Setup ELSE Window[k]
           checks == Checks(e, k)
<1>1. Window[k] \in Nat /\ Setup \in Nat /\ 0 \in Numbers
  BY WindowAssumption, X11Assumption, BoundsAssumption DEF Numbers
<1>2. w \in Nat /\ w <= Window[k] /\ (checks => k \in X11) /\ checks \in BOOLEAN
  BY <1>1, X11Assumption DEF Checks
<1>3. c = [status |-> "none", local |-> 0, remote |-> 0, flags |-> {},
           send_window |-> 0, rec_window |-> w, cookie |-> checks, sources |-> 0,
           socket |-> "idle", reading |-> FALSE, want_read |-> FALSE,
           buffered |-> 0, write_closed |-> FALSE, shut |-> FALSE, lost |-> FALSE]
  BY DEF init_channel
<1> HIDE DEF w, checks
<1>4. c \in Object
  BY <1>1, <1>2, <1>3 DEF Object
<1>5. /\ c.status = "none" /\ c.flags = {} /\ c.socket = "idle" /\ ~c.want_read
      /\ ~c.write_closed /\ c.rec_window = w /\ c.buffered = 0 /\ c.cookie = checks
  BY <1>3
<1>6. Phase(c) /\ Source(c)
  BY <1>5 DEF Phase, Source
<1>7. Bounded(k, c)
  BY <1>1, <1>2, <1>5 DEF Bounded
<1> QED
  BY <1>4, <1>5, <1>6, <1>7 DEF Sound

LEMMA InitInv == Init => IInv
<1> SUFFICES ASSUME Init
             PROVE  IInv
  OBVIOUS
<1>1. \A e \in Ends, k \in Opens :
        Sound(k, ch[e][k]) /\ ch[e][k].status = "none" /\ ch[e][k].flags = {}
  BY InitObjects DEF Init
<1>2. ch \in [Ends -> [Opens -> Object]]
  <2>1. \A e \in Ends, k \in Opens : init_channel(e, k) \in Object
    BY InitObjects DEF Sound
  <2> QED
    BY <2>1 DEF Init
<1>3. TypeOK
  BY <1>2 DEF Init, TypeOK
<1>4. ObjInv
  BY <1>1 DEF ObjInv, Sound
<1>5. TableInv
  BY <1>1 DEF TableInv, Tabled, Holds, Init
<1>6. LinkInv
  <2> SUFFICES ASSUME NEW k \in Opens
               PROVE  /\ \A e \in Ends : Link(k, inbox[e], ch[Peer(e)][k], ch[e][k], Opener[k] = Peer(e))
                      /\ Pair(k, ch[Opener[k]][k], ch[Peer(Opener[k])][k], inbox[Opener[k]])
    BY DEF LinkInv
  <2>1. Opener[k] \in Ends /\ Peer(Opener[k]) \in Ends
    BY OpenerAssumption, PeerFacts
  <2>2. Pair(k, ch[Opener[k]][k], ch[Peer(Opener[k])][k], inbox[Opener[k]])
    BY <1>1, <2>1 DEF Pair
  <2>3. ASSUME NEW e \in Ends
        PROVE  Link(k, inbox[e], ch[Peer(e)][k], ch[e][k], Opener[k] = Peer(e))
    <3>1. Of(k, inbox[e]) = {}
      BY DEF Init, Of
    <3>2. Got(k, inbox[e], ch[Peer(e)][k], ch[e][k])
      BY <1>1 DEF Got
    <3> QED
      BY <3>1, <3>2, LinkEmpty
  <2> QED
    BY <2>2, <2>3
<1>7. NoProtocolError
  BY DEF Init, NoProtocolError
<1> QED
  BY <1>3, <1>4, <1>5, <1>6, <1>7 DEF IInv

LEMMA NextInv == IInv /\ [Next]_vars => IInv'
<1> SUFFICES ASSUME IInv, [Next]_vars
             PROVE  IInv'
  OBVIOUS
<1>1. ASSUME NEW e \in Ends, Handle(e)
      PROVE  IInv'
  BY <1>1, OpenHandlerInv, ConfirmHandlerInv, FailureHandlerInv, AdjustInv, DataInv, EofInv,
     CloseInv DEF Handle
<1>2. ASSUME NEW e \in Ends, NEW k \in Opens,
             \/ OpenCommand(e, k) \/ OpenContinue(e, k) \/ OpenRefused(e, k)
             \/ Write(e, k) \/ ReadBlocked(e, k) \/ ReadData(e, k) \/ ReadEof(e, k)
             \/ IoError(e, k)
      PROVE  IInv'
  BY <1>2, OpenCommandInv, OpenContinueInv, OpenRefusedInv, WriteInv, ReadInv
<1>3. CASE UNCHANGED vars
  BY <1>3, StutterInv
<1> QED
  BY <1>1, <1>2, <1>3, SessionOverInv DEF Next

(* The inductive invariant holds.                                          *)
THEOREM ChannelInvariant == Spec => []IInv
BY InitInv, NextInv, PTL DEF Spec

(* Every object, table and packet of channel.c has its type; the windows,  *)
(* unsigned numbers in the code, never go below zero.                      *)
THEOREM ChannelTypes == Spec => []TypeOK
<1>1. IInv => TypeOK
  BY DEF IInv
<1> QED
  BY <1>1, ChannelInvariant, PTL

(* No handler of either end raises PROTOCOL_ERROR, however EOF, CLOSE and  *)
(* WINDOW_ADJUST cross.                                                    *)
THEOREM NoErrors == Spec => []NoProtocolError
<1>1. IInv => NoProtocolError
  BY DEF IInv
<1> QED
  BY <1>1, ChannelInvariant, PTL

(* A packet names a channel number that still belongs to the channel that  *)
(* its sender meant, although numbers are given out again.                 *)
THEOREM RightNumbers == Spec => []RightChannel
<1>1. IInv => RightChannel
  <2> SUFFICES ASSUME IInv, NEW e \in Ends, NEW i \in DOMAIN inbox[e],
                      inbox[e][i].type # "OPEN"
               PROVE  channels[e][inbox[e][i].to] \in {inbox[e][i].k, NoChannel}
    BY DEF RightChannel
  <2> DEFINE m == inbox[e][i]
             k == m.k
             c == ch[e][k]
             q == ch[Peer(e)][k]
  <2>1. inbox[e] \in Seq(Packet)
    BY DEF IInv, TypeOK
  <2>2. m \in Packet /\ i \in 1 .. Len(inbox[e])
    BY <2>1
  <2>3. k \in Opens /\ m.type \in {"OPEN", "CONFIRM", "FAILURE", "DATA", "ADJUST", "EOF", "CLOSE"}
    BY <2>2 DEF Packet
  <2>4. Link(k, inbox[e], q, c, Opener[k] = Peer(e)) /\ Tabled(ch[e], in_use[e], channels[e])
    BY <2>3, EndFacts
  <2>5. Fits(k, inbox[e], i, q, c, Opener[k] = Peer(e))
    BY <2>2, <2>4 DEF Link, Of
  <2>6. m.to = c.local /\ c.status \in {"opening", "live"}
    BY <2>3, <2>5 DEF Fits, DataTypes
  <2>7. channels[e][c.local] = k
    BY <2>3, <2>4, <2>6 DEF Tabled, Holds
  <2> QED
    BY <2>6, <2>7
<1> QED
  BY <1>1, ChannelInvariant, PTL

(* The zero window that stops the polling of a source, and the adjust that *)
(* starts it again, never miss each other.                                 *)
THEOREM Awake == Spec => []SourceAwake
<1>1. IInv => SourceAwake
  BY DEF IInv, ObjInv, Source, SourceAwake
<1> QED
  BY <1>1, ChannelInvariant, PTL

=============================================================================
