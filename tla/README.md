# Verification of MacSSH

MacSSH is a terminal program for the classic Mac OS. It grew out of NCSA Telnet
and BetterTelnet (`src/macssh/source`) and contains a port of GNU lsh
(`src/lsh`), which runs as a library, one thread per SSH session, on the GUSI
socket and thread library (`src/GUSI`).

This directory holds TLA+ models of the parts of MacSSH in which several actors
meet or two ends of a protocol talk to each other, TLC configurations that check
them on small instances, and TLAPS proofs, for every value of the constants, about
the event queue, the console pipe, the memory pool, the sessions, the SSH
channels, the key exchange and the login.

## The system

### Actors

- The **main thread** runs the loop of `main/mainseg.c`: user events
  (`DoEvents`), one network event (`DoNetEvents`), `ssh2_sched`.
- Each SSH session has a **session thread** (`ssh2_thread`), which runs lsh.
  Threads switch cooperatively, only inside `ssh2_sched`.
- When the *main thread* calls `ssh2_sched` (or a GUSI call that yields), GUSI's
  hook calls `ssh2_doevent`: at most one user event and one network event are
  dispatched *inside the call* before the other threads run. Every handler that
  can reach `ssh2_sched` is therefore re-entrant, and the main thread is a stack
  of unfinished calls. This is the source of most of what is hard here.
- The **interrupt level**: MacTCP's `Notify` and completion routines and the
  resolver's `DNRDone` run between any two instructions of the threads and
  post events.

### Components

| Component | State | Operations | Module |
|---|---|---|---|
| event queue, `network/netevent.c` | two OS queues over `NEVENTS` elements, `gQueueError` | `netgetevent`, `netputevent`, `netputuev` | `EventQueue`, `EventFifo`, `EventQueueProofs` |
| console pipe, `ssh/console.stubs.c`, SSH branches of `network/network.c` | `_gConsoleOutBuf`, `_gConsoleInBuf`, `_lastCR`, `gReadspace` | `WriteCharsToTTY`, `ReadCharsFromTTY`, `netread`, `netwrite`, `netpush`, `ConnectionDataEvent`, `RSsendstring` | `ConsolePipe`, `ConsolePipeProofs` |
| session memory, `lsh/MacOS/src/MemPool.c` | a chain of pools with free lists | `MPInit`, `MPmalloc`, `MPfree`, `MPDispose` and `lshmalloc`, `lshrealloc`, `lshfree` | `MemPool`, `MemPoolProofs` |
| session life cycle, `main/Connections.c`, `ssh/ssh2.c`, `main/event.c`, `main/menuseg.c`, `network/mydnr.c`, `network/network.c` | window table `screens[]`, `numwindows`, `streams[]`, lookups, threads | open, look up, complete, connect, close in all its ways | `Session`, `SessionProofs`, `SessionAloneProofs` |
| telnet protocol, `parse/parse.c`, `Linemode/linemode.c` | `telstate`, `parsedat`, `echo`, `Usga`, `lmode`, ... of a `WindRec` | `parse`, `telnet_do`, `telnet_dont`, `telnet_will`, `telnet_wont`, suboptions, the menu's Local Echo and Interrupt | `Telnet` |
| SSH channels, `lsh/src/channel.c`, `channel_forward.c`, `client_x11.c`, `io.c` | `ssh_channel` objects, the channel table, sockets and write buffers | the packet handlers, opening, reading, writing and closing sockets | `Channel`, `ChannelProofs`, `ChannelFlowProofs` |
| SSH key exchange, `lsh/src/keyexchange.c`, `connection.c`, `client_keyexchange.c`, `server_keyexchange.c` | `kex_state`, `kexinits`, keys of both directions | `initiate_keyexchange`, `do_handle_kexinit`, Diffie-Hellman, `keyexchange_finish`, `do_handle_newkeys` | `KeyExchange`, `Login`, `LoginProofs` |
| SSH user authentication, `lsh/src/client_userauth.c`, `server_userauth.c` and the methods | current and next method, `done`, `pending`, attempts left, the server's lock | service request; none, publickey, password at both ends | `Login`, `LoginProofs` |
| pasting and uploading | `outptr`, `outlen`, `PASTELEFT` | `pasteText` | not modelled |
| pass phrase cache, dialogs | cached pass phrases, dialog lock | `PasswordDialog.c` | not modelled (only the login dialog's loop) |
| telnet send buffers | `fds`, `exFDS` of a stream | `Rnetwrite`, completion routines | not modelled |
| FTP server | per-connection state | `rftpd`, `ftpd` | not modelled |
| lsh ciphers, MACs, key files, S-expressions, gateway | | | not modelled: computations and I/O |
| terminal emulation, drawing, configuration, graphics, macros, URLs, translation, one-time passwords | | | not modelled: sequential code without shared state, or drawing and dialogs |
| GUSI, GMP, zlib | | | third party |

Interactions: session threads, interrupts and handlers post events to the
queue; `DoNetEvents` takes one and calls the handler in `Connections.c` or
`mydnr.c`. Handlers and threads share the window table and the session's
`lshcontext` without locks. Events name windows by port number or table index,
and both are used again.

What makes each component correct:

- *Event queue*: no element lost or handed out twice whatever interrupts, FIFO
  order, loss only when full.
- *Console pipe*: the text is shown in order with line ends converted across
  any cut, no lost wake-up, no lost key, no deadlock between two full buffers.
- *Memory pool*: blocks do not overlap, everything freed can be used again.
- *Session*: a window, its stream and its thread stay matched; a close ends
  exactly its own thread; everything that ends is cleaned up.
- *Telnet*: the text is shown and the commands are not, wherever the stream is
  cut; both sides agree on who echoes and on line mode, and stop negotiating.
- *Channels*: no data beyond the window, no window that stays shut, no packet
  that reaches another channel, and every channel is closed at both ends.
- *Key exchange and login*: a packet is read with the keys it was written with;
  every answer is matched with its request; exchanges and logins end.

`PROJECT.json` lists the hazards behind these with their source lines.

## Modules

### EventQueue, EventFifo, EventQueueProofs

`EventQueue` has one action per step between which an interrupt can come. `app`
is the one call in progress at application level: `GetCall`, `GetHead`,
`GetDequeue`, `GetRecycle` are `netgetevent`; `PutCall`, `PutHead`,
`PutDequeue`, `PutFill` are `netputevent`; `UevWalk` is the search of
`netputuev`. The calls at interrupt level (`IntrPut`, `IntrUev`) are single
steps: interrupts are not interrupted by the application. `Enqueue` and
`Dequeue` are the Operating System's, which are atomic, and `Dequeue` fails for
an element that is not in the queue. Only CONDATA and FTPACT events are posted
with `netputuev`, the others with `netputevent` (`UniqueEv`).

`EventFifo` is what users of the queue may rely on: a bounded sequence of
events, posting, taking, and overflow, which is never silent. `ImplementsFifo`
states that `EventQueue` implements it, with the events of the queued elements
for `pending` and the event of the taken element for `inHand`.

### ConsolePipe, ConsolePipeProofs

The two buffers of one SSH session. The thread's `WriteCharsToTTY` is one action
per turn of its outer loop, each ending in `ssh2_sched`. The main thread's
unfinished calls are `stack`; a call in `netpush` ("push") or in `netwrite`'s
wait ("full") is inside `ssh2_sched`, so that events can be dispatched above it.
`ParseChar` interprets one character of `gReadspace` *by position*, so that a
nested `netread` changes what an outer parse reads. Characters are abstracted
to CR, LF, ESC, ordinary ones and `Query`, a sequence the terminal answers;
bytes sent are numbered, so that order and loss show.

### MemPool, MemPoolProofs

Sizes and addresses in words of four bytes, an address an offset into its pool.
One action per call, since a pool belongs to one thread and the code does not
yield. A block MPfree refuses stays in `used`, marked lost.

### Session, SessionProofs, SessionAloneProofs

`calls` is the stack of the main thread's unfinished calls; each step executes
the innermost up to its next call. A call to `ssh2_sched` becomes the three
stages "user", "net" and "yield", in which at most one user event and one
network event are dispatched and then the threads run; `YieldToAnyThread` gives
every ready thread its turn, so that a thread that has not begun begins before
`ssh2_sched` returns (`SchedReturn`). The main loop is looser than the code: it
may dispatch any number of events before it yields, where
`mainseg.c` has at most two user events and one network event between two
schedulings, and a thread that was signalled may take its time to end. Both only
add behaviours. Calls hold table indexes,
as the code does (`&screens[i]` denotes the slot, whoever is in it), and
`destroyport` moves the windows above the one removed and leaves a copy behind
in the last slot. A window also needs a virtual screen, of which there are as
many as slots and one more; `VSnewscreen` fails when none is free (`VSfree`).
`May` selects what the user does and what can fail in an
instance. Only SSH sessions (`protocol == 4`) are modelled.

### Telnet

One session with `protocol == 0`. `down` is the server's stream as bytes, which
`ConnectionDataEvent` takes in blocks of any length up to `MaxBlock`; `parse`
folds `Step` over a block, and `tw.telstate` and `tw.parsedat` carry an
unfinished command over to the next one. Bytes are names: IAC, commands,
options, modes and characters. `telnet_do`, `telnet_dont`, `telnet_will` and
`telnet_wont` are translated case by case, the missing `break` of REMOTEFLOW in
`telnet_will` included, and so are the suboptions of TERMTYP, NEW_ENVIRON,
REMOTEFLOW and LINEMODE MODE; those of AUTHENTICATION and ENCRYPT and the
characters of line mode (SLC) are not, and are ignored if they come. `Secured` is
what `authenticate`, `authOK`, `encrypt` and `encryptOK` allow: nothing,
authentication, or both, since encryption is used with authentication only. The
run asks for TERMTYP and LINEMODE and offers ECHO. With `Offers = {"ENCRYPT",
"REMOTEFLOW"}`, `Asked = {"AUTHENTICATION", "ENCRYPT", "NEW_ENVIRON",
"REMOTEFLOW"}`, everything in `Secured`, the suboptions of NEW_ENVIRON and
REMOTEFLOW in `Queries`, no text and two things begun, TLC finds `Settles` true as well;
this instance is not one of the runs. A printable key under local echo (`HandleKeyDown`) goes
through the same `parse`. `seen` records each character of text that `parse`
found and whether it went to the screen (while a timing mark is awaited it does
not). The server is not part of the repository: it negotiates by RFC 1143, and
it either agrees to what is in `Agrees` or to nothing.

`LocalEcho` is the menu's toggle. With the Option key it changes `echo` and does
not tell the server, which goes on echoing or not as before: the user has chosen
that the sides disagree.

`mishap` records that one of four things has happened after which parser or
negotiation may go wrong, and which properties exempt: a block that ended between
IAC and the byte behind it in a suboption ("cut"), a key echoed in the middle of
a command ("key"), Local Echo toggled while something was on its way ("toggle"),
or toggled with the Option key ("option"). The first two are exempt in every
property (in `TypeOK` for the length of `parsedat` only). `Settles` exempts "toggle" too, and the echo part of `Agreed` exempts
"option" too.

### Channel, ChannelProofs, ChannelFlowProofs

Both ends of a connection run `channel.c`. `ch[e][k]` is channel `k`'s
`ssh_channel` object at end `e`, together with its socket: windows, flags,
`want_read`, the bytes in the write buffer. `channels`, `in_use`, `next` are the
channel table. Each packet handler is one action, since `io_iter` runs it to its
end. What a handler does to a channel object and what it writes is an operator
of its own (`channel_close`, `channel_eof`, `adjust_rec_window`, `close_fd`) on
a record of both, and `Update` puts the result in place; when the channel is
finished the number goes back to the table. The object outlives the channel
while its write buffer is not empty, as in the code. Payload is counted only.
A packet carries the channel `k` that its sender meant, which no handler reads.
On the Mac `poll` is built on `select`, so that there is no POLLHUP and
`hanged_up` is never set.

### KeyExchange, Login, LoginProofs

`KeyExchange` has the operators: what `do_handle_kexinit`,
`do_handle_dh_init`, `do_handle_dh_reply`, `keyexchange_finish` and
`do_handle_newkeys` do to an `ssh_connection` and what they write. Keys are
identified by the two KEXINIT messages they come from, which the exchange hash
covers; a packet carries the keys it was encrypted with. `Login` has the state
of both ends and the actions: handshake, service request, the methods none,
publickey and password. The client asks about all public keys at once, and
`done` and `pending` count the answers. While a password is verified by a helper
the server's connection is locked. Decisions of the user (host key, password,
cancel) and of the server (authorized or not) are free. A server that exchanges
keys again (`Rekey`) or guesses the method in its first KEXINIT is not lsh's own;
the client has code for both.

The operators called "a slip" in the modules are plausible bugs in the
definition that follows; TLC finds the named property violated when it is used
instead. No specification uses them.

## What is checked

| Run | Instance | Result |
|---|---|---|
| `eventqueue` | 3 elements, 3 events, one unique, two posted by interrupts; fair | passes, 18612 states |
| `console` | all texts of 3 characters over CR, LF, ESC, X with a query behind; output buffer 3, input buffer 2, block 2, sends of 3, 1 key; fair | passes, 47959 states |
| `console_reply` | 4 distinct characters, one of them a query | `DisplayedInOrder` violated: a nested read overwrites the block |
| `mempool` | header 2, pool 11, requests 1, 2, 4, 10, 14 words, up to 2 pools | passes, 56169 states |
| `session` | 2 slots, 3 ports, 2 sessions, everything may happen | passes, 279364 states |
| `session_alone` | 1 slot, 2 ports, 3 sessions in turn, every failure but the window's; fair | passes, 47825 states |
| `session_ports` | 2 slots, 2 ports, 3 sessions with addresses or names, nobody closes a window | `PortsDistinct` violated: a late CLOSEDONE |
| `session_address` | 1 slot, 2 sessions with names | `HostGetsItsAddress` violated: a late answer |
| `channel` | an X11 channel with window 2 and setup 1, a TCP channel with window 1, packets up to 2, 1 number; fair | passes, 44555 states |
| `channel_flush` | the same | `FlushedBeforeClosed` violated: EOF behind data |
| `login` | 2 public keys, 5 failures allowed, 3 exchanges, 2 packets each way after the login; fair | passes, 78288 states |
| `telnet` | offers ECHO, asks TERMTYP and LINEMODE with 2 modes, text ESC IAC, blocks up to 3, 3 things begun; fair | passes, 440022 states |

**The four violations** are what the code does; each is a finding in
`PROJECT.json` with the line it contradicts. `console_reply` garbles the display
when a program asks for the cursor position while keys are waiting to be read.
`session_ports` needs three sessions: the thread of one ends, and while its
CONCLOSE waits in the queue the resolver's interrupt posts the answer for another
behind it. `netclose` releases the first one's stream and posts a CLOSEDONE behind
that answer; the second session gets the port, the CLOSEDONE releases its stream,
and the third gets the port as well. `session_address` needs a lookup that is
cancelled and answers later: the next session in the slot is opened with the
first host's address in `sshdata.ip`. It still reaches its own host, because
`build_cmdline` (`ssh2.c:1513`) gives lsh the name and nothing reads `sshdata.ip`.
`channel_flush` loses the end of what the remote side sent
through a forwarded connection: `do_channel_forward_eof` shuts the socket down
for writing without waiting for its write buffer.

**Observations** made while modelling, without a run of their own:

- `netputuev` (`netevent.c:199`): an interrupt between its search and its
  `netputevent` leaves two like events in the queue. `AtMostOneDuplicate` bounds
  it, and a second CONDATA finds nothing to read.
- `MPfree` (`MemPool.c:290`) refuses a block larger than `f_PoolSize`, which
  `MPmalloc` grants up to the last header of a pool; the block is lost until the
  session ends (TLC reaches it with `H = 3`, `PoolSize = 9`, `Wanted = {1, 7}`).
- `parse.c:428`: when a block ends behind an IAC inside a suboption, `parse`
  reads the byte behind the block, and the SE that comes with the next block
  is taken for data or for text.
- `event.c:737`: a key that is echoed locally while a command is incomplete is
  taken for the command's next byte.
- Two quick toggles of Local Echo (`menuseg.c:1451`) can start a loop in which
  client and server answer each other's DO, DONT, WILL and WONT ECHO for ever:
  `telnet_will` and `telnet_wont` cannot tell an answer from a request. TLC finds
  it when `Settles` does not exempt "toggle". If the loop ends, the sides agree.
- After Local Echo with the Option key (`menuseg.c:1458`) `telnet_will` and
  `telnet_wont` take the server's next WILL or WONT ECHO for old news and do not
  answer it, so that the server goes on waiting for the answer.
- `telnet_dont` ignores SGA, TERMTYP and REMOTEFLOW, and `Isga`, `Ittype` and
  `remote_flow` are never reset: a server that asks for one of them again gets no
  answer. `telnet_will` answers REMOTEFLOW with DO and DONT.
- `linemode.c:525`: `ourLevels[...] & SLC_LEVELBITS != SLC_NOSUPPORT` compares
  before it masks. `linemode.c:171` decrements `kblen` without a test.
- `do_exc_channel_open_handler` frees a channel number without the test for
  `pending_close`, so that a connection whose last channel fails to open after
  the session has ended is not closed.
- lsh's client does not hold its own packets back while a server exchanges keys
  again, and they may reach a server that waits for NEWKEYS; `NoProtocolError`
  of `Login` is stated accordingly. When the first methods of both ends differ
  and no guess follows, `kex_state` stays INIT during the exchange.

**What `session` and `session_alone` say apart.** With two windows, everything
the user can do and every failure, a window never refers to another session's
thread, and nesting is bounded by the threads that were signalled. The stronger
statements of `session_alone` (streams, windows and threads matched, no
orphaned thread) are checked and proved with one window at a time and without
cancel and close-all: handlers that hold an index across `netclose`
(`event.c:1366`, `Connections.c:1298`, `menuseg.c:1198`) act on the wrong window
when another one closes meanwhile, and then these statements do not hold. What
`session_alone` shows is that late events of earlier sessions in the same slot
and on the same ports do no harm there.

They do harm when a window cannot be made. `CreateConnectionFromParams` starts
the lookup (`Connections.c:859`) before it calls `RSnewwindow` (`:895`), and when
that fails the lookup's answer stays behind and is taken for the next session's,
whose own answer is taken for that of the session after it; the events of an
earlier session get behind it in the queue. Session 1 is closed and the window of
session 2 fails; session 3 is opened by session 2's answer, and session 1's late
CONCLOSE closes it and posts a CLOSEDONE behind session 3's answer; session 4 is
opened by that answer, and the CLOSEDONE then releases the stream of session 4.
This takes four sessions: TLC finds `StreamsMatch` violated with `MaxOpens = 4`
and `May = {"dotted", "close", "window"}`, and not with three. It came to light
when the proof of `StreamsMatch` failed, and `session_alone` leaves the failing
window out since.

**Bounds.** Three elements are enough for the queue to be partly full, full and
empty with one in hand. Texts of three characters contain every pair of special
characters at every position relative to a full buffer of three and a block of
two; the query behind them makes the terminal answer with keys waiting, and
sends of three do not fit the input buffer. With nothing behind the query, a
nested read finds nothing left of an outer block to overwrite, the case that
`console_reply` is about. The pool of 11 words with a header of 2 lets blocks
split, join and be taken whole, and 14 does not fit a first pool at all. Two
slots are the least in which windows move; one session more than slots is the
least in which slots and ports are used again. In `channel` the second channel
must take the first one's number, since there is one only, windows of 1 and 2
run out with every packet, and the X11 window is opened a second time. Two
public keys are the least with an answer left to come after a success, and five
failures are used up by none, both keys and two passwords, so that a third
password meets the limit; three exchanges contain one that starts while the packets of another
are on their way. In `telnet` every command is longer than some block, and three
things begun let an offer of the server, a request of its and a toggle or a key
meet. `MaxKeys`, `MaxOpens`, `MaxEnds`, `MaxPools`, `MaxTalk` and `MaxBegun` only
bound how often a user, a remote side or the memory manager acts.

CHECK_DEADLOCK is off where the program may rest for ever: a terminal with
nothing to print, no window open, a connection at rest.

**Fairness.** `EventQueue`: a call in progress goes on; the main loop calls
`netgetevent` on every turn (strong fairness, since calls in between disable the
start of another). `ConsolePipe`: every `ssh2_sched` of the main thread
dispatches a queued event and yields to the thread, lsh's loop serves input and
output in turn, and the user does not suspend the network for ever
(`TelInfo->ScrlLock`). `Session`: the main thread's calls run on, queued events
are dispatched, the login dialog is answered, and a thread that has to start or
to handle a signal is scheduled. `Channel`: poll serves every packet that has come
and every socket that takes data, and a connection attempt ends. `Login`: both
programs start and read, the password helper and the user answer. `Telnet`: what
has arrived is read at both ends. Nothing assumes that a local program sends or
closes, that keys are exchanged again, that a remote side ends a
session, that a lookup is answered, or that the user does anything else.

## What is proved

Every theorem is about all behaviours of `Spec`, for all values of the constants
that satisfy the named assumptions of the modules; TLC evaluates the
assumptions in the runs, and checked every inductive invariant on the instances
of the runs before it was proved. A proof of invariance has one lemma per
action, and lemmas about the operators that actions share.

### The event queue (`EventQueueProofs`)

For every finite nonempty set of elements and all events (`ElemAssumption`,
`EventAssumption`):

- `TypeCorrect`, `Conservation`, `StableHead`: the invariants `TypeOK`,
  `ElementsConserved`, `HeadIsStable`;
- `OneDuplicate`: the invariant `AtMostOneDuplicate`;
- `Refinement`: `Spec => ImplementsFifo`.

The invariants are not inductive alone. `IInv` adds `PcInv` (which element and
event the call in progress holds at each step), `CountInv` (the lengths of the
two queues and what is held add up to the number of elements), `FilledInv`
(every queued element carries an event, never `NoEvent`), and the same for the
element in hand. `CountInv` is what the refinement needs for overflow: the free
queue is empty only when all elements are queued or in hand. `DequeueLemma` and
`EnqueueLemma` state once what the queue operations do to membership,
distinctness and length; `NextInv` has one step per action. The refinement goes
action by action: filling an element appends to `pending` (`PostAppends`),
dequeuing the head moves it to `inHand` (`DequeueTakesHead`, which uses
`HeadIsStable`), other steps stutter. `AtMostOneDuplicate` needs `DupInv`: no
three elements carry the same unique event, and while the application is in the
`netputevent` of a `netputuev` that has found none, at most one does, which an
interrupt has posted since the search.

### Sessions (`SessionProofs`)

For any size of the table, any ports, any number of sessions and whatever the
user does or fails (`SessionAssumption`):

- `SessionTypes`: `TypeOK`. `TypeInv` has the contents of the queue, the
  lookups, the threads and the stack of calls too: handlers hold table indexes
  over `ssh2_sched`, and the types say that none leaves the table's slots.
- `OwnThreads`: `ThreadIsOwn`. `OwnInv` extends it to the slots above
  `numwindows`, since `destroyport` leaves a copy behind there and
  `numwindows` grows over it again.
- `BoundedNesting`: `NestingBounded`. Each event loop that `ssh2_sched` nests is
  paid for by a killed thread to which no window of the table refers any more
  (`Gone`): it will not be signalled through the table again. For that no two
  windows may share a thread (`Unshared`), and the stack must have the shape that
  `netclose` and `removeport` give it (`Stacked`). A `removeport` with a stale
  index may kill a thread that does not count; the conjuncts of `NestInv` on the
  top of the stack keep one thread in reserve for it, which the event loop that
  has just returned leaves.

A step changes the table in one of five ways (in place, one window moved down,
opened, started, closed; `TableStep`), and the lemmas about stack and threads
(`DispatchLemma`, `ReplaceTop`, `PopCall`) are stated for these.

### One window at a time (`SessionAloneProofs`)

For a table of one slot, any nonempty set of ports, any number of sessions one
after the other, and every choice of `May` without cancel, close-all and a window
that cannot be made (`OneWindow`, a hypothesis of each theorem; why it is needed
is said above):

- `WindowsAreCounted`: `WindowsCounted`;
- `NoThreadOrphaned`: `NoOrphan`;
- `WindowsMatchStreams`: `StreamsMatch`;
- `AloneInvariant`: the inductive invariant `AloneInv` these follow from.

`AloneInv` has four parts. `StackInv` lists the shapes of the stack: there are at
most four unfinished calls, and for each shape it says whether there is a window,
whether it has a thread and which stream is in use. `ScreenInv` ties
the virtual screens to the window. `ThreadInv` says that a thread that has
neither ended nor been killed is the window's. `QueueInv` is what keeps late
events of earlier sessions from the present one: there is at most one DOMAIN_DONE
or lookup to come, no CONOPEN or CLOSEDONE is behind it, and while a stream is
open there is no CLOSEDONE and at most one CONOPEN. A CLOSEDONE carries a port
number only and ports are used again, so that it is the order of the queue that
tells sessions apart; the failing window breaks just this.

`StackOf` and `QueueOf` say the same of values instead of variables. The lemmas on
them, one group per kind of step (a call made, a call returned, an event taken, an
event posted, a session opened or ended), are facts about constants, and each
action's lemma applies them to its primed variables.

### Channels (`ChannelProofs`, `ChannelFlowProofs`)

For any number of channels, opened by either end, and any windows, packet sizes
and numbers (`OpensAssumption`, `OpenerAssumption`, `WindowAssumption`,
`X11Assumption`, `BoundsAssumption`):

- `ChannelTypes`: `TypeOK`; in particular no window, an unsigned number in the
  code, goes below zero.
- `NoErrors`: `NoProtocolError`, and `RightNumbers`: `RightChannel`. The two go
  together: a packet is legal because it reaches the object it is meant for.
- `Awake`: `SourceAwake`, from what `Source` says of one object.
- `FlowControlled`: `FlowControl`, in a module of its own.

`IInv` says of each object what its status, flags and socket can be together
(`Phase`, `Source`, `Bounded`), of each end that its table and its objects refer
to each other (`Tabled`), of each channel which pairs of objects the two ends can
have (`Pair`), and of each direction what is on its way (`Link`): what a packet
says of the objects it comes from and goes to (`Fits`), in which order packets
come (`Ordered`: OPEN and FAILURE travel alone, CONFIRM is first, nothing follows
CLOSE, no data follows EOF), and that what has been received was sent (`Got`). A
number is given back only when CLOSE has been read, behind which nothing names it.

`FlowInvariant` (`Spec => []FlowInv`) keeps an account for each direction of each
channel: the window the sender has left, the data on its way, and the credit on
its way back. OPEN and CONFIRM count as credit too, so that the account is
balanced from the moment the receiver has a window at all. While the receiver takes
data, the account is the window it thinks the sender has; once the sender has
written EOF or CLOSE or its channel is gone, it no longer books credit, and the
account can only be too small. `Account` says what one handler may do to both
sides of the account, `Has` and `More` what a packet read or written does to the
sums over the queues, and there is one lemma per action. `IInv` is needed where a
channel begins and ends: that nothing else about it is on its way. The sums are
over queues of any length (`Sizes`, a recursive function); `SizesAppend`,
`SizesTail` and `SizesSame` are proved by induction for a set of numbers, as
described for the memory pool below.

### The memory pool (`MemPoolProofs`)

For any header size, pool size, sizes asked for and number of pools
(`SizeAssumption`):

- `MemPoolTypes`: `TypeOK`; `Tiling`: `BlocksTile`; `TidyLists`:
  `FreeListIsTidy`;
- `Assertions`: `AssertsHold`. That a free block is not larger than `f_PoolSize`
  does not follow from its lying below `f_Top`, since a pool is larger than that
  by a header: it follows because the word behind a free block belongs to a block
  in use, which has a header and at least one word.

`PoolInv` says of one pool that its free blocks are in order with something
between any two (`Spaced`) and below `f_Top`, the blocks in use apart from each
other and from the free ones (`InUse`, `AllApart`), and every word below `f_Top`
in one of them (`NoneLost`). Within `MPfree` the list is only in order (`Ordered`)
after `Insert`, spaced again after `Compact`, and away from `f_Top` again after
`Trim`; `InsertSound`, `CompactSound` and `TrimmedSound` say so, each with the
words the list covers, from which `FreedSound` has that the joined blocks are
still apart from the blocks in use. `EmptyPool` is why a further pool is always
disposed of in time.

`Compact` is a loop over a list of any length, written as a recursive function.
The library's induction theorems cannot be used for it, but induction for a
*set* of numbers can be had from the well-foundedness of `<` (`CountTo`): once
for the existence of the function (`LoopRuns`), once for what it computes
(`CompactSound`).

### Key exchange and login (`LoginProofs`)

For any number of exchanges, public keys and failures allowed, and any packets
after the login (`ExchangesAssumption`, `LoginAssumption`):

- `KeysMatch`: `KeysAgree`, also when the server exchanges keys again or sends
  a guess, and with the packets that the client does not hold back.
- `LoginTypes`: `TypeOK`; in particular `done`, `pending`, `tried_empty` and the
  server's attempts stay in their ranges whatever the server answers.

`KeysAgree` speaks of the first packet only, and whether the keys of a packet
further back will be right depends on how far both ends are. `Phase` gives each
end one of four phases (idle, KEXINIT written, both KEXINITs there, NEWKEYS
written). Twelve of the sixteen pairs can occur (`Legal`), and a pair determines
which messages of the exchange are on their way (`Expected`), each at most once.
In the queue to an end the keys change behind NEWKEYS and nowhere else
(`Stream`), and an end that waits for NEWKEYS holds the keys its peer writes
with (`Promised`), for which the signed hash in KEXDH_REPLY is needed (`Replies`).
`Counted` compares the number of KEXINITs of both ends, so that MaxExchanges
bounds both; `Guessed` says that what KEX_STATE_IGNORE throws away is the
guess. An end that has stopped reading is not constrained as a reader, but its
last packets are. The lemmas `AskKex`, `DhKex`, `ServerKeyed`, `ClientKeyed` and
`NewkeysKex` are the five steps of an exchange, `QuietKex` is every other packet.
`AuthInv` is what the counters of the client need: methods are tried once and in
order, and as long as public keys are tried an answer is due.

### The console pipe (`ConsolePipeProofs`)

For any texts, buffer sizes, block size, length of what is sent and number of
keystrokes (`BufferAssumption`; `TextAssumption` says that texts are sequences
and that CR, LF, ESC and the query are different):

- `PipeTypes`: `TypeOK`; the output buffer has room for the two characters that
  `WriteCharsToTTY` may write, the input buffer and `gReadspace` never overflow,
  and a parse that was interrupted stays within the block.
- `InputKept`: `InputConserved`, through any nesting of the event loop.
- `OutputShown`: `DisplayedInOrder`, and `LineEndsKept`: `NoBareLineEnds`, both
  for texts in which a query is the last character (`QueryLast`, a hypothesis of
  the theorems). They cannot be had without it: the run `console_reply` shows
  how the answer to a query in the middle of a text makes the main thread read a
  second block while the first is still parsed.

For the input the argument is that what the shell has read, the input buffer and
what the unfinished calls have left to send, innermost first, are one sequence
(`All`). `Netwrite` and `ReadCharsFromTTY` only move its inner borders, and
`RSsendstring` puts a new send in the middle (`ConservedInsert`), which is why
the bytes of different sends can be interleaved and those of one cannot. For the
output, what has been interpreted, what is left of the block and the output buffer
are one text too (`Text`), and `Shows` says that it is the rendering of the
characters taken so far, that `_lastCR` tells how it ends, and that it is tidy;
with `QueryLast` no call but the innermost parses (`Shallow`). Texts are put
together by `FlattenSeq` and by the loop of `WriteCharsToTTY` (`FillLoop`), which
are recursive functions: `FlattenAppend`, `FlattenCons`, `RenderingNext` and
`FillSound` are proved by induction for a set of numbers, as for the memory pool.

### Only model-checked

- All liveness (`EventQueue`, `ConsolePipe`, `Session`, `Channel`, `Login`,
  `Telnet`): fairness is outside what the prover handles.
- `Telnet`. What it promises is about what the parser makes of a block, a fold
  over its bytes; it would have to be proved as `Compact` and `FillLoop` are.
- `NoProtocolError` and `AnswersMatch` of `Login`, which count requests and
  answers in two queues.

`WindowsCounted`, `NoOrphan` and `StreamsMatch` of `Session` are proved under
`OneWindow`; with several windows they do not hold.

## Not modelled

Besides the components above. *Telnet*: authentication and encryption
suboptions, the SLC negotiation, local line editing (`process_key`) and what
`kbwrite` and `kbflush` send, Tektronix and ICR escapes, rlogin. *Channels*: extended data,
channel and global requests (so that the session channel is only there to
end), `max_channels`, windows near 2^32.
*Key exchange and login*: the version line, SRP, weak keys, banners, password
changes. *Sessions*: the local listener of forwarding sessions, telnet
sessions' part of `netclose` and CONFAIL, SOCKS and Kerberos lookups,
`FlushNetwork`, automatic reconnection, and quitting after `HandleQuit` has
closed the windows (its loop is `CloseAll`'s). In `Session` the queue has room
(the overflow is `EventQueue`'s subject), and no session is opened once
`numwindows` has become negative, where the code would write below the table.

## Plan

1. Done: the event queue with its proofs, the console pipe, the memory pool,
   the life of sessions, telnet, SSH channels, key exchange and login.
2. Not begun: pasting and uploading (`pasteText` with `PASTELEFT`); the send
   buffers of telnet streams (`Rnetwrite` and its completion routines); the pass
   phrase cache and the dialog lock; the FTP server.
3. A composition of `ConsolePipe` and `Session` for the context pointers that
   `netwrite` and `netpush` keep across `ssh2_sched`, and for `gReadspace` when
   a second session makes it grow.
4. Proofs. Done: the event queue, `ThreadIsOwn` and `NestingBounded` of `Session`,
   `WindowsCounted`, `NoOrphan` and `StreamsMatch` with one window, all safety of `Channel`, `MemPool` and `ConsolePipe`, `KeysAgree` of `Login`.
   Next: `NoProtocolError` and `AnswersMatch` of `Login`, on top of `KexInv`;
   `Telnet`. None of these modules declares a RECURSIVE operator.
