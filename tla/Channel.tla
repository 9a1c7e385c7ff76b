------------------------------ MODULE Channel ------------------------------
(***************************************************************************)
(* The channels of one SSH connection between two ends that both run       *)
(* lsh/src/channel.c: opening, flow control, EOF and CLOSE, and the reuse   *)
(* of channel numbers.  The channels are forwarded TCP connections         *)
(* (channel_forward.c) and X11 connections (client_x11.c): at each end a    *)
(* channel feeds a local socket and is fed from it by the poll loop of      *)
(* io.c.                                                                   *)
(*                                                                         *)
(* The encrypted TCP connection is a reliable FIFO in each direction.       *)
(* Every packet handler runs to its end before the next packet or socket   *)
(* event is looked at, as io_iter has it, and is one action here.          *)
(* Payload is counted, not represented.                                    *)
(***************************************************************************)
EXTENDS Integers, FiniteSets, Sequences

CONSTANTS
  MaxOpens,   \* bounds the channels that are opened in the life of the connection
  Opener,     \* the end that opens each of them
  X11,        \* those that are X11 connections; the others are TCP connections
  Window,     \* the window of each (TCPIP_WINDOW_SIZE, X11_WINDOW_SIZE)
  Setup,      \* X11_SETUP_MAX_LENGTH, the length of the message with the X11 cookie
  MaxPacket,  \* rec_max_packet = send_max_packet
  MaxChannels, \* bounds the channels that are open at once
  NoChannel   \* NULL in the table of channels

Ends == {"client", "server"}

\* The channels, numbered in the order in which they are opened.
Opens == 1 .. MaxOpens

ASSUME OpensAssumption == MaxOpens \in Nat /\ NoChannel \notin Opens
ASSUME OpenerAssumption == Opener \in [Opens -> Ends]
ASSUME WindowAssumption == Window \in [Opens -> Nat \ {0}]
ASSUME X11Assumption ==
  /\ X11 \subseteq Opens
  /\ Setup \in Nat \ {0}
  /\ \A k \in X11 : Opener[k] = "server" /\ Window[k] > Setup
ASSUME BoundsAssumption == MaxPacket \in Nat \ {0} /\ MaxChannels \in Nat \ {0}

VARIABLES
  ch,         \* ch[e][k]: the ssh_channel object of channel k at end e, with its socket
  channels,   \* table->channels: channel objects by local number
  in_use,     \* table->in_use
  next,       \* table->next_channel
  inbox,      \* packets on their way to each end
  session,    \* whether the client's own session channel is still open
  pending,    \* table->pending_close
  finished,   \* the connection's socket is no longer read
  error       \* a handler raised PROTOCOL_ERROR

table == <<channels, in_use, next>>
vars == <<ch, channels, in_use, next, inbox, session, pending, finished, error>>

Peer(e) == IF e = "client" THEN "server" ELSE "client"

\* Local channel numbers.  The arrays grow as needed; that max_channels numbers
\* are in use at once is not modelled.
Numbers == 0 .. MaxChannels - 1

CloseFlags == {"SENT_CLOSE", "RECEIVED_CLOSE"}
Flags == CloseFlags \cup {"SENT_EOF", "RECEIVED_EOF"}

-----------------------------------------------------------------------------
\* The channel object.  status: "none" before it exists, "opening" while the
\* opener waits for the answer, "asked" at the other end while the local
\* connection is made, "live", and "dead" once it is out of the table.
Object ==
  [status : {"none", "opening", "asked", "live", "dead"},
   local : Numbers, remote : Numbers,
   flags : SUBSET Flags,
   send_window : Nat, rec_window : Nat,
   cookie : BOOLEAN,                      \* CLIENT_X11_START: the cookie is not yet checked
   sources : {0, 1},
   \* not yet watched, alive, closed, and closed after an I/O error of its own
   socket : {"idle", "open", "closed", "failed"},
   reading : BOOLEAN,                     \* fd->read
   want_read : BOOLEAN,
   buffered : Nat,                        \* in the socket's write_buffer
   write_closed : BOOLEAN,                \* write_buffer->closed
   shut : BOOLEAN,                        \* after shutdown(fd, SHUT_WR)
   lost : BOOLEAN]                        \* the socket was closed with data in the buffer

\* At the client an X11 channel starts with a window for the cookie only.
Checks(e, k) == e = "client" /\ k \in X11

init_channel(e, k) ==
  [status |-> "none", local |-> 0, remote |-> 0, flags |-> {},
   send_window |-> 0, rec_window |-> IF Checks(e, k) THEN Setup ELSE Window[k],
   cookie |-> Checks(e, k), sources |-> 0,
   socket |-> "idle", reading |-> FALSE, want_read |-> FALSE,
   buffered |-> 0, write_closed |-> FALSE, shut |-> FALSE, lost |-> FALSE]

\* A packet.  k tells the channel that the sender means; no handler reads it.
Packet ==
  [type : {"OPEN", "CONFIRM", "FAILURE", "DATA", "ADJUST", "EOF", "CLOSE"},
   to : Numbers, from : Numbers, size : Nat, k : Opens]

Msg(type, k, c, size) ==
  [type |-> type, to |-> c.remote, from |-> c.local, size |-> size, k |-> k]

-----------------------------------------------------------------------------
\* What the functions of channel.c do to a channel object c; out collects the
\* packets they write.
Plain(c) == [c |-> c, out |-> <<>>]

\* EXC_FINISH_CHANNEL: do_kill_fd closes the socket nicely (what is in the
\* write buffer is still written) and the number is given back by Update.
Finish(c) ==
  [c EXCEPT !.status = "dead",
            !.reading = FALSE,
            !.want_read = FALSE,
            !.socket = IF @ = "idle" THEN "closed" ELSE @,
            !.write_closed = TRUE,
            !.send_window = 0,   \* the windows play no role any more
            !.rec_window = 0]

\* A slip that RightChannel rules out: the number is free once CLOSE is sent.
channel_close_at_once(k, x) ==
  IF "SENT_CLOSE" \in x.c.flags
    THEN x
    ELSE [c |-> Finish([x.c EXCEPT !.flags = @ \cup {"SENT_CLOSE"}]),
          out |-> Append(x.out, Msg("CLOSE", k, x.c, 0))]

channel_close(k, x) ==
  IF "SENT_CLOSE" \in x.c.flags
    THEN x
    ELSE LET sent == [x.c EXCEPT !.flags = @ \cup {"SENT_CLOSE"}]
         IN [c |-> IF "RECEIVED_CLOSE" \in x.c.flags THEN Finish(sent) ELSE sent,
             out |-> Append(x.out, Msg("CLOSE", k, x.c, 0))]

channel_eof(k, x) ==
  IF x.c.flags \cap ({"SENT_EOF"} \cup CloseFlags) # {}
    THEN x
    ELSE LET sent == [c |-> [x.c EXCEPT !.flags = @ \cup {"SENT_EOF"}],
                      out |-> Append(x.out, Msg("EOF", k, x.c, 0))]
         IN IF "RECEIVED_EOF" \in x.c.flags THEN channel_close(k, sent) ELSE sent

\* close_fd with channel_read_close_callback; s tells how the socket ended.
close_fd(k, c, s) ==
  LET closed == [c EXCEPT !.socket = s, !.reading = FALSE, !.want_read = FALSE,
                          !.write_closed = TRUE, !.shut = FALSE, !.sources = 0,
                          !.buffered = 0, !.lost = c.buffered > 0]
  IN IF c.sources = 1 THEN channel_eof(k, Plain(closed)) ELSE Plain(closed)

\* channel_forward_start_io
start_io(c) ==
  [c EXCEPT !.socket = "open", !.reading = TRUE, !.want_read = TRUE, !.sources = 1]

\* A slip that FlowControl rules out: the credit is not booked.
adjust_rec_window_unbooked(k, c, written) ==
  IF c.flags \cap (CloseFlags \cup {"RECEIVED_EOF"}) # {}
    THEN Plain(c)
    ELSE [c |-> c, out |-> <<Msg("ADJUST", k, c, written)>>]

\* A slip that WindowReopens rules out: the credit is booked and not sent.
adjust_rec_window_silent(k, c, written) ==
  IF c.flags \cap (CloseFlags \cup {"RECEIVED_EOF"}) # {}
    THEN Plain(c)
    ELSE Plain([c EXCEPT !.rec_window = @ + written])

\* A slip that NoProtocolError rules out: a write buffer that outlives its
\* channel goes on reporting.
adjust_rec_window_late(k, c, written) ==
  [c |-> [c EXCEPT !.rec_window = @ + written],
   out |-> <<Msg("ADJUST", k, c, written)>>]

\* adjust_rec_window, the report of the write buffer.  The channel object may
\* live longer than the channel.
adjust_rec_window(k, c, written) ==
  IF c.flags \cap (CloseFlags \cup {"RECEIVED_EOF"}) # {}
    THEN Plain(c)
    ELSE [c |-> [c EXCEPT !.rec_window = @ + written],
          out |-> <<Msg("ADJUST", k, c, written)>>]

\* do_read_data_query
Least(a, b) == IF a < b THEN a ELSE b

\* A slip that TypeOK rules out: a whole packet is read into a smaller window.
read_data_query_whole(c) ==
  IF c.flags \cap ({"SENT_EOF"} \cup CloseFlags) # {} \/ c.send_window = 0
    THEN 0
    ELSE MaxPacket

read_data_query(c) ==
  IF c.flags \cap ({"SENT_EOF"} \cup CloseFlags) # {}
    THEN 0
    ELSE Least(MaxPacket, c.send_window)

-----------------------------------------------------------------------------
\* The table of channels.
Free(e) == {n \in Numbers : in_use[e][n] = "FREE" /\ n >= next[e]}

alloc_channel(e, n) ==
  /\ n \in Free(e)
  /\ \A i \in Free(e) : n <= i
  /\ next' = [next EXCEPT ![e] = n + 1]

lookup_channel(e, n) == IF in_use[e][n] = "IN_USE" THEN channels[e][n] ELSE NoChannel

lookup_channel_reserved(e, n) ==
  IF in_use[e][n] = "RESERVED" THEN channels[e][n] ELSE NoChannel

\* dealloc_channel
Dealloc(e, n) ==
  /\ channels' = [channels EXCEPT ![e][n] = NoChannel]
  /\ in_use' = [in_use EXCEPT ![e][n] = "FREE"]
  /\ next' = [next EXCEPT ![e] = Least(n, @)]

\* channel_count
Reserved(e) == {n \in Numbers : in_use[e][n] # "FREE"}

\* The end of do_exc_finish_channel_handler: with the last channel of a
\* connection that is pending_close its socket is closed.
FinishIfLast(e, n) ==
  finished' = [finished EXCEPT ![e] = @ \/ (pending[e] /\ Reserved(e) \subseteq {n})]

\* Packets written after the connection was closed go nowhere.
Send(e, out, box) ==
  IF finished[e] THEN box ELSE [box EXCEPT ![Peer(e)] = @ \o out]

\* The channel object becomes x.c, and x.out is sent; box is what is left in
\* the queues.  If the channel was finished it leaves the table.
Update(e, k, x, box) ==
  /\ ch' = [ch EXCEPT ![e][k] = x.c]
  /\ inbox' = Send(e, x.out, box)
  /\ IF x.c.status = "dead" /\ ch[e][k].status # "dead"
       THEN Dealloc(e, x.c.local) /\ FinishIfLast(e, x.c.local)
       ELSE UNCHANGED <<table, finished>>
  /\ UNCHANGED <<session, pending, error>>

-----------------------------------------------------------------------------
Init ==
  /\ ch = [e \in Ends |-> [k \in Opens |-> init_channel(e, k)]]
  /\ channels = [e \in Ends |-> [n \in Numbers |-> NoChannel]]
  /\ in_use = [e \in Ends |-> [n \in Numbers |-> "FREE"]]
  /\ next = [e \in Ends |-> 0]
  /\ inbox = [e \in Ends |-> <<>>]
  /\ session = [e \in Ends |-> e = "client"]
  /\ pending = [e \in Ends |-> FALSE]
  /\ finished = [e \in Ends |-> FALSE]
  /\ error = [e \in Ends |-> FALSE]

\* do_channel_open_command
OpenCommand(e, k) ==
  /\ Opener[k] = e
  /\ ch[e][k].status = "none"
  /\ \A j \in 1 .. k - 1 : ch[Opener[j]][j].status # "none"
  /\ ~finished[e]
  /\ \E n \in Numbers :
       LET c == [ch[e][k] EXCEPT !.status = "opening", !.local = n]
       IN /\ alloc_channel(e, n)
          /\ in_use' = [in_use EXCEPT ![e][n] = "RESERVED"]
          /\ channels' = [channels EXCEPT ![e][n] = k]
          /\ ch' = [ch EXCEPT ![e][k] = c]
          /\ inbox' = Send(e, <<Msg("OPEN", k, c, c.rec_window)>>, inbox)
  /\ UNCHANGED <<session, pending, finished, error>>

\* The next packet that end e reads, and the queues without it.
Reads(e, type) == ~finished[e] /\ inbox[e] # <<>> /\ Head(inbox[e]).type = type
Rest(e) == [inbox EXCEPT ![e] = Tail(@)]

\* PROTOCOL_ERROR: do_exc_connection_handler disconnects and stops reading.
ProtocolError(e) ==
  /\ error' = [error EXCEPT ![e] = TRUE]
  /\ finished' = [finished EXCEPT ![e] = TRUE]
  /\ inbox' = Rest(e)
  /\ UNCHANGED <<ch, table, session, pending>>

Ignore(e) ==
  /\ inbox' = Rest(e)
  /\ UNCHANGED <<ch, table, session, pending, finished, error>>

channel_open_handler(e) ==
  /\ Reads(e, "OPEN")
  /\ LET m == Head(inbox[e])
     IN IF pending[e]
          THEN /\ ch' = [ch EXCEPT ![e][m.k].status = "dead"]
               /\ inbox' = Send(e, <<[m EXCEPT !.type = "FAILURE", !.to = m.from, !.size = 0]>>, Rest(e))
               /\ UNCHANGED table
          ELSE \E n \in Numbers :
               /\ alloc_channel(e, n)
               /\ in_use' = [in_use EXCEPT ![e][n] = "RESERVED"]
               /\ ch' = [ch EXCEPT ![e][m.k] =
                           [@ EXCEPT !.status = "asked", !.local = n,
                                     !.remote = m.from, !.send_window = m.size]]
               /\ inbox' = Rest(e)
               /\ UNCHANGED channels
  /\ UNCHANGED <<session, pending, finished, error>>

\* The local connection is there: channel_forward_start_io, then
\* do_channel_open_continue.
OpenContinue(e, k) ==
  /\ ch[e][k].status = "asked"
  /\ ~finished[e]
  /\ LET c == [start_io(ch[e][k]) EXCEPT !.status = "live"]
     IN /\ ch' = [ch EXCEPT ![e][k] = c]
        /\ channels' = [channels EXCEPT ![e][c.local] = k]
        /\ in_use' = [in_use EXCEPT ![e][c.local] = "IN_USE"]
        /\ inbox' = Send(e, <<Msg("CONFIRM", k, c, c.rec_window)>>, inbox)
  /\ UNCHANGED <<next, session, pending, finished, error>>

\* The local connection failed: do_exc_channel_open_handler.
OpenRefused(e, k) ==
  /\ ch[e][k].status = "asked"
  /\ ~finished[e]
  /\ ch' = [ch EXCEPT ![e][k].status = "dead"]
  /\ Dealloc(e, ch[e][k].local)
  /\ inbox' = Send(e, <<Msg("FAILURE", k, ch[e][k], 0)>>, inbox)
  /\ UNCHANGED <<session, pending, finished, error>>

channel_open_confirm_handler(e) ==
  /\ Reads(e, "CONFIRM")
  /\ LET m == Head(inbox[e])
         k == lookup_channel_reserved(e, m.to)
     IN IF k = NoChannel
          THEN ProtocolError(e)
          ELSE /\ ch' = [ch EXCEPT ![e][k] =
                           [start_io(@) EXCEPT !.status = "live", !.remote = m.from,
                                               !.send_window = m.size]]
               /\ in_use' = [in_use EXCEPT ![e][m.to] = "IN_USE"]
               /\ inbox' = Rest(e)
               /\ UNCHANGED <<channels, next, session, pending, finished, error>>

channel_open_failure_handler(e) ==
  /\ Reads(e, "FAILURE")
  /\ LET k == lookup_channel_reserved(e, Head(inbox[e]).to)
     IN IF k = NoChannel
          THEN Ignore(e)
          ELSE Update(e, k, Plain(Finish(ch[e][k])), Rest(e))

\* A slip that SourceAwake rules out: the source is not polled again.
window_adjust_handler_asleep(e) ==
  /\ Reads(e, "ADJUST")
  /\ LET m == Head(inbox[e])
         k == lookup_channel(e, m.to)
         c == ch[e][k]
     IN IF k = NoChannel
          THEN ProtocolError(e)
          ELSE IF c.flags \cap {"SENT_CLOSE", "SENT_EOF"} # {}
          THEN Ignore(e)
          ELSE Update(e, k, Plain([c EXCEPT !.send_window = @ + m.size]), Rest(e))

window_adjust_handler(e) ==
  /\ Reads(e, "ADJUST")
  /\ LET m == Head(inbox[e])
         k == lookup_channel(e, m.to)
         c == ch[e][k]
     IN IF k = NoChannel
          THEN ProtocolError(e)
          ELSE IF "RECEIVED_CLOSE" \in c.flags
          THEN ProtocolError(e)
          ELSE IF c.flags \cap {"SENT_CLOSE", "SENT_EOF"} # {}
          THEN Ignore(e)
          ELSE Update(e, k, Plain([c EXCEPT !.send_window = @ + m.size,
                                            !.want_read = TRUE]), Rest(e))

\* do_channel_forward_receive and do_write: a closed write buffer swallows the
\* data.
Buffer(c, length) == [c EXCEPT !.buffered = IF c.write_closed THEN @ ELSE @ + length]

\* channel_start_receive
channel_start_receive(k, c, window) ==
  IF c.rec_window < window
    THEN [c |-> [c EXCEPT !.rec_window = window],
          out |-> <<Msg("ADJUST", k, c, window - c.rec_window)>>]
    ELSE Plain(c)

\* CHANNEL_RECEIVE.  do_client_channel_x11_receive collects the cookie; a wrong
\* one closes the channel, and the right one is replaced by the display's own
\* and the window opened.  The window is used up when the cookie is complete.
Received(k, c, length) ==
  IF ~c.cookie
    THEN {Plain(Buffer(c, length))}
    ELSE (IF c.rec_window > 0
            THEN {Plain(c)}
            ELSE {channel_start_receive(k, Buffer([c EXCEPT !.cookie = FALSE], Setup),
                                        Window[k] - Setup)})
         \cup {channel_close(k, Plain(c))}

channel_data_handler(e) ==
  /\ Reads(e, "DATA")
  /\ LET m == Head(inbox[e])
         k == lookup_channel(e, m.to)
         c == ch[e][k]
         length == Least(Least(m.size, MaxPacket), c.rec_window)
     IN IF k = NoChannel
          THEN Ignore(e)
          ELSE IF c.flags \cap (CloseFlags \cup {"RECEIVED_EOF"}) # {} \/ length = 0
          THEN Ignore(e)
          ELSE \E x \in Received(k, [c EXCEPT !.rec_window = @ - length], length) :
                 Update(e, k, x, Rest(e))

\* channel_eof_handler with do_channel_forward_eof: the socket is shut down for
\* writing at once (on a closed socket shutdown fails and only reports).
channel_eof_handler(e) ==
  /\ Reads(e, "EOF")
  /\ LET k == lookup_channel(e, Head(inbox[e]).to)
         c == ch[e][k]
         got == Plain([c EXCEPT !.flags = @ \cup {"RECEIVED_EOF"},
                                !.shut = @ \/ c.socket = "open"])
     IN IF k = NoChannel
          THEN ProtocolError(e)
          ELSE IF c.flags \cap {"RECEIVED_EOF", "RECEIVED_CLOSE"} # {}
          THEN ProtocolError(e)
          ELSE Update(e, k, IF "SENT_EOF" \in c.flags THEN channel_close(k, got) ELSE got, Rest(e))

\* A slip that ChannelsClose rules out: CLOSE is not answered.
channel_close_handler_silent(e) ==
  /\ Reads(e, "CLOSE")
  /\ LET k == lookup_channel(e, Head(inbox[e]).to)
         got == [ch[e][k] EXCEPT !.flags = @ \cup {"RECEIVED_CLOSE"}]
     IN IF k = NoChannel
          THEN ProtocolError(e)
          ELSE Update(e, k, Plain(IF "SENT_CLOSE" \in got.flags THEN Finish(got) ELSE got), Rest(e))

channel_close_handler(e) ==
  /\ Reads(e, "CLOSE")
  /\ LET k == lookup_channel(e, Head(inbox[e]).to)
         c == ch[e][k]
         got == [c EXCEPT !.flags = @ \cup {"RECEIVED_CLOSE"}]
     IN IF k = NoChannel
          THEN ProtocolError(e)
          ELSE IF "RECEIVED_CLOSE" \in c.flags
          THEN ProtocolError(e)
          ELSE Update(e, k, IF "SENT_CLOSE" \in c.flags
                              THEN Plain(Finish(got))
                              ELSE channel_close(k, Plain(got)), Rest(e))

Handle(e) ==
  \/ channel_open_handler(e)
  \/ channel_open_confirm_handler(e)
  \/ channel_open_failure_handler(e)
  \/ window_adjust_handler(e)
  \/ channel_data_handler(e)
  \/ channel_eof_handler(e)
  \/ channel_close_handler(e)

-----------------------------------------------------------------------------
\* The local sockets.  Once the connection is closed they go with it.
Watched(e, k) == ~finished[e] /\ ch[e][k].socket = "open"

\* do_consuming_read without anything that may be sent: wait for an adjust.
ReadBlocked(e, k) ==
  /\ Watched(e, k)
  /\ ch[e][k].want_read
  /\ read_data_query(ch[e][k]) = 0
  /\ Update(e, k, Plain([ch[e][k] EXCEPT !.want_read = FALSE]), inbox)

\* do_consuming_read and do_channel_write
ReadData(e, k) ==
  /\ Watched(e, k)
  /\ ch[e][k].want_read
  /\ \E length \in 1 .. read_data_query(ch[e][k]) :
       Update(e, k, [c |-> [ch[e][k] EXCEPT !.send_window = @ - length],
                     out |-> <<Msg("DATA", k, ch[e][k], length)>>], inbox)

\* do_consuming_read at the end of the file, then close_fd_read
ReadEof(e, k) ==
  /\ Watched(e, k)
  /\ ch[e][k].want_read
  /\ read_data_query(ch[e][k]) > 0
  /\ Update(e, k, channel_eof(k, Plain([ch[e][k] EXCEPT !.want_read = FALSE, !.reading = FALSE])), inbox)

\* do_write_callback and write_buffer_consume
WriteData(e, k) ==
  /\ Watched(e, k)
  /\ ~ch[e][k].shut
  /\ \E written \in 1 .. ch[e][k].buffered :
       Update(e, k, adjust_rec_window(k, [ch[e][k] EXCEPT !.buffered = @ - written], written), inbox)

\* A write after shutdown: EPIPE, and do_exc_io_handler closes the socket.
WriteAfterShutdown(e, k) ==
  /\ Watched(e, k)
  /\ ch[e][k].shut
  /\ ch[e][k].buffered > 0
  /\ Update(e, k, close_fd(k, ch[e][k], "closed"), inbox)

\* do_write_prepare: the closed write buffer is empty.
CloseFlushed(e, k) ==
  /\ Watched(e, k)
  /\ ch[e][k].write_closed
  /\ ch[e][k].buffered = 0
  /\ Update(e, k, close_fd(k, ch[e][k], "closed"), inbox)

\* An error of the socket, found when reading from it or writing to it.
IoError(e, k) ==
  /\ Watched(e, k)
  /\ \/ ch[e][k].want_read /\ read_data_query(ch[e][k]) > 0
     \/ ch[e][k].buffered > 0
  /\ Update(e, k, close_fd(k, ch[e][k], "failed"), inbox)

\* The client's session channel is finished: do_client_session_close raises
\* EXC_FINISH_PENDING within do_exc_finish_channel_handler.
SessionOver(e) ==
  /\ session[e]
  /\ ~finished[e]
  /\ session' = [session EXCEPT ![e] = FALSE]
  /\ pending' = [pending EXCEPT ![e] = TRUE]
  /\ finished' = [finished EXCEPT ![e] = Reserved(e) = {}]
  /\ UNCHANGED <<ch, table, inbox, error>>

\* The writing side of a socket.
Write(e, k) ==
  \/ WriteData(e, k)
  \/ WriteAfterShutdown(e, k)
  \/ CloseFlushed(e, k)

Next ==
  \/ \E e \in Ends : Handle(e) \/ SessionOver(e)
  \/ \E e \in Ends, k \in Opens :
       \/ OpenCommand(e, k)
       \/ OpenContinue(e, k)
       \/ OpenRefused(e, k)
       \/ Write(e, k)
       \/ ReadBlocked(e, k)
       \/ ReadData(e, k)
       \/ ReadEof(e, k)
       \/ IoError(e, k)

Spec == Init /\ [][Next]_vars

\* poll serves every packet that has come and every socket that takes data, and
\* a connection that is being made succeeds or fails.  Nothing is assumed of
\* what the local programs send or of when they close.
Fairness ==
  /\ \A e \in Ends : WF_vars(Handle(e))
  /\ \A e \in Ends, k \in Opens :
       /\ WF_vars(Write(e, k))
       /\ WF_vars(OpenContinue(e, k) \/ OpenRefused(e, k))

FairSpec == Spec /\ Fairness

-----------------------------------------------------------------------------
\* Type correctness: also the windows of channel.c never go below zero.
TypeOK ==
  /\ ch \in [Ends -> [Opens -> Object]]
  /\ channels \in [Ends -> [Numbers -> Opens \cup {NoChannel}]]
  /\ in_use \in [Ends -> [Numbers -> {"FREE", "RESERVED", "IN_USE"}]]
  /\ next \in [Ends -> Nat]
  /\ inbox \in [Ends -> Seq(Packet)]
  /\ session \in [Ends -> BOOLEAN]
  /\ pending \in [Ends -> BOOLEAN]
  /\ finished \in [Ends -> BOOLEAN]
  /\ error \in [Ends -> BOOLEAN]

\* Two ends that run this code never take each other's packets for a violation
\* of the protocol: EOF, CLOSE and WINDOW_ADJUST that cross, reports of a write
\* buffer that outlives its channel, and numbers that are used again included.
NoProtocolError == \A e \in Ends : ~error[e]

\* A packet reaches the channel that its sender meant, or a number that is not
\* in use, never another channel that has got the number since.
RightChannel ==
  \A e \in Ends : \A i \in DOMAIN inbox[e] :
    LET m == inbox[e][i]
    IN m.type # "OPEN" => channels[e][m.to] \in {m.k, NoChannel}

\* The sizes of the packets of some types about channel k in a queue, added up.
Size(m, k, types) == IF m.k = k /\ m.type \in types THEN m.size ELSE 0

Sizes(box, k, types) ==
  LET sum[n \in 0 .. Len(box)] ==
        IF n = 0 THEN 0 ELSE sum[n - 1] + Size(box[n], k, types)
  IN sum[Len(box)]

\* What is on its way to end e.
InFlight(e, k, type) == Sizes(inbox[e], k, {type})

\* Flow control: the sender's window, what is on its way and what was credited
\* add up to the receiver's window, so that no data is ever cut off at the
\* receiver (channel_data_handler would do so silently), and the receiver never
\* buffers more than it offered.
FlowControl ==
  \A e \in Ends, k \in Opens :
    LET c == ch[e][k]
        p == ch[Peer(e)][k]
    IN /\ c.status = "live" /\ c.flags = {} /\ p.status = "live" /\ p.flags = {} =>
            c.rec_window = p.send_window + InFlight(e, k, "DATA") + InFlight(Peer(e), k, "ADJUST")
       /\ c.flags \cap (CloseFlags \cup {"RECEIVED_EOF"}) = {} =>
            InFlight(e, k, "DATA") <= c.rec_window
       /\ c.rec_window + c.buffered <= Window[k]

\* A source that may send is being polled, and one that has ended is not: the
\* zero window that turned polling off (do_consuming_read) and the adjust that
\* turns it on again (do_channel_forward_send_adjust) cannot miss each other.
SourceAwake ==
  \A e \in Ends, k \in Opens :
    LET c == ch[e][k]
    IN /\ c.socket = "open" /\ read_data_query(c) > 0 => c.want_read
       /\ c.want_read => c.reading /\ c.socket = "open"

\* The connection of an end stops or has failed.
Stopped == \E e \in Ends : finished[e]

\* A channel on which CLOSE was sent, or EOF by both ends, leaves the tables of
\* both ends, however the packets cross.
ChannelsClose ==
  \A k \in Opens :
    \/ \E e \in Ends : "SENT_CLOSE" \in ch[e][k].flags
    \/ \A e \in Ends : "SENT_EOF" \in ch[e][k].flags
    ~> Stopped \/ \A d \in Ends : ch[d][k].status = "dead"

\* A sender whose window is used up gets another one as long as the program at
\* the other end reads.
WindowReopens ==
  \A e \in Ends, k \in Opens :
    ch[e][k].status = "live" /\ ch[e][k].send_window = 0
    ~> \/ Stopped
       \/ ch[e][k].send_window > 0
       \/ ch[e][k].flags # {}
       \/ ch[Peer(e)][k].socket = "failed"

\* io.c:875 says of closing a socket: "We use close_fd_nicely, so that any data
\* in the write buffer is flushed before the fd is closed."
FlushedBeforeClosed ==
  \A e \in Ends, k \in Opens :
    ch[e][k].lost => ch[e][k].socket = "failed"
=============================================================================
