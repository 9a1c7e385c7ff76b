---------------------------- MODULE ConsolePipe ----------------------------
(***************************************************************************)
(* The two buffers between an SSH session's thread and its terminal window *)
(* (macssh/source/ssh/console.stubs.c, network/network.c, and the callers  *)
(* in main/Connections.c and Screens/rsinterf.c).                          *)
(*                                                                         *)
(* Output: the thread's WriteCharsToTTY converts line ends into            *)
(* _gConsoleOutBuf, posts CONDATA and yields; ConnectionDataEvent reads a  *)
(* block into gReadspace and parses it onto the screen.  Input: keystrokes *)
(* and the terminal's own replies go through RSsendstring (netpush, then   *)
(* netwrite) into _gConsoleInBuf, which ReadCharsFromTTY drains.           *)
(*                                                                         *)
(* Threads switch only in ssh2_sched.  When the main thread calls it, from *)
(* netpush or netwrite, the event loop is entered again before the other   *)
(* threads run, so the main thread is a stack of unfinished calls.         *)
(*                                                                         *)
(* Left out: the local socket of forwarding sessions (_listener), and the  *)
(* end of the thread (module Session's subject).                           *)
(***************************************************************************)
EXTENDS Naturals, Sequences, SequencesExt, FiniteSetsExt

CONSTANTS
  CR, LF, ESC,    \* the characters WriteCharsToTTY tells apart
  Query,          \* a control sequence the terminal answers (ESC [ 6 n)
  Streams,        \* what the remote side may print, a set of sequences
  OutMax,         \* _gConsoleOutBufMax
  InMax,          \* _gConsoleInBufMax
  BlockSize,      \* gBlocksize, what netread may take at a time
  SendLen,        \* the length of the strings given to RSsendstring
  MaxKeys         \* bound: the number of keystrokes

ASSUME BufferAssumption ==
  /\ OutMax \in Nat /\ OutMax >= 2
  /\ InMax \in Nat \ {0} /\ BlockSize \in Nat \ {0} /\ SendLen \in Nat \ {0}
  /\ MaxKeys \in Nat

ASSUME TextAssumption ==
  /\ \A s \in Streams : s \in Seq(ToSet(s))
  /\ CR # LF /\ ESC \notin {CR, LF} /\ Query \notin {CR, LF, ESC}

VARIABLES
  stream,     \* what the remote side prints in this session
  taken,      \* how much of it WriteCharsToTTY has put in the buffer
  n,          \* what is left of the call of WriteCharsToTTY in progress
  outBuf,     \* _gConsoleOutBuf
  lastCR,     \* _lastCR
  condata,    \* a CONDATA event for this port is queued
  gReadspace, \* the block that netread filled
  screen,     \* what the terminal has interpreted so far
  locked,     \* ScrlLock, or the window is not enabled
  inBuf,      \* _gConsoleInBuf: bytes <<send, index>>
  shell,      \* the bytes that ReadCharsFromTTY has returned
  sends,      \* the number of calls of RSsendstring
  keys,       \* how many of them came from the keyboard
  stack       \* the unfinished calls of the main thread, innermost first

threadVars == <<stream, taken, n, outBuf, lastCR>>
mainVars == <<gReadspace, screen, locked, sends, keys, stack>>
vars == <<threadVars, condata, mainVars, inBuf, shell>>

Init ==
  /\ stream \in Streams
  /\ taken = 0 /\ n = 0
  /\ outBuf = <<>> /\ lastCR = FALSE
  /\ condata = FALSE
  /\ gReadspace = <<>>
  /\ screen = <<>>
  /\ locked = FALSE
  /\ inBuf = <<>> /\ shell = <<>>
  /\ sends = 0 /\ keys = 0
  /\ stack = <<>>

(* Calls of the main thread.  A "push" or "full" call is inside ssh2_sched *)
(* (the loops of netpush and netwrite); a "parse" or "write" call runs.    *)
ParseCall(cnt) == [op |-> "parse", pos |-> 1, cnt |-> cnt, rest |-> <<>>]
SendCall(op, bytes) == [op |-> op, pos |-> 0, cnt |-> 0, rest |-> bytes]

TopOp == IF stack = <<>> THEN "loop" ELSE Head(stack).op

(* The main thread is in its own loop's ssh2_sched or in a nested one: the *)
(* session's thread may run.                                               *)
AtSched == TopOp \in {"loop", "push", "full"}

(* A slip that AllDelivered rules out: events wait for the main loop.      *)
CanDispatchFlat == stack = <<>>

(* ssh2_doevent: ssh2_sched on the main thread dispatches events, whatever *)
(* call it is nested in.                                                   *)
CanDispatch == AtSched

-----------------------------------------------------------------------------
(* The thread.                                                             *)

(* A slip that NoBareLineEnds rules out: the state of the conversion is    *)
(* not carried over.                                                       *)
ConvertedForgetful(cr, c) == IF c = LF THEN <<CR, c>> ELSE <<c>>

(* The characters that WriteCharsToTTY puts in the buffer for c: a CR that *)
(* is followed by neither LF nor ESC gets an LF, a bare LF gets a CR.      *)
Converted(cr, c) ==
  IF cr THEN IF c # LF /\ c # ESC THEN <<LF, c>> ELSE <<c>>
        ELSE IF c = LF THEN <<CR, c>> ELSE <<c>>

(* A slip that TypeOK rules out: room for one character is enough.         *)
FillStepTight(acc, c) ==
  IF Len(acc.buf) >= OutMax THEN acc
  ELSE [buf |-> acc.buf \o Converted(acc.cr, c), cr |-> c = CR, used |-> acc.used + 1]

(* One turn of the inner loop of WriteCharsToTTY, which stops when there   *)
(* may not be room for two characters.                                     *)
FillStep(acc, c) ==
  IF Len(acc.buf) >= OutMax - 1 THEN acc
  ELSE [buf |-> acc.buf \o Converted(acc.cr, c), cr |-> c = CR, used |-> acc.used + 1]

(* The inner loop over the next len characters.                            *)
FillLoop(start, len) ==
  LET acc[i \in 0..len] ==
        IF i = 0 THEN start ELSE FillStep(acc[i - 1], stream[taken + i])
  IN  acc[len]

(* A slip that DisplayedInOrder rules out: every round starts afresh.      *)
FillFresh(k) ==
  LET len == Min({k, OutMax - Len(outBuf)})
      acc == FillLoop([buf |-> outBuf, cr |-> FALSE, used |-> 0], len)
  IN  /\ outBuf' = acc.buf
      /\ lastCR' = acc.cr
      /\ taken' = taken + acc.used
      /\ n' = k - acc.used
      /\ condata' = TRUE

(* The outer loop's turn with k characters to write.                       *)
Fill(k) ==
  LET len == Min({k, OutMax - Len(outBuf)})
      acc == FillLoop([buf |-> outBuf, cr |-> lastCR, used |-> 0], len)
  IN  /\ outBuf' = acc.buf
      /\ lastCR' = acc.cr
      /\ taken' = taken + acc.used
      /\ n' = k - acc.used
      /\ condata' = TRUE

(* A turn of WriteCharsToTTY up to its ssh2_sched.                         *)
WriteRound(k) ==
  /\ IF Len(outBuf) < OutMax
     THEN Fill(k)
     ELSE n' = k /\ UNCHANGED <<taken, outBuf, lastCR, condata>>
  /\ UNCHANGED <<stream, mainVars, inBuf, shell>>

WriteCharsToTTY ==
  /\ AtSched
  /\ n = 0
  /\ \E k \in 1..(Len(stream) - taken) : WriteRound(k)

WriteAgain ==
  /\ AtSched
  /\ n > 0
  /\ WriteRound(n)

(* ReadCharsFromTTY, called when there is input and no output to write.    *)
ReadCharsFromTTY ==
  /\ AtSched
  /\ n = 0
  /\ inBuf # <<>>
  /\ \E k \in 1..Len(inBuf) :
       /\ shell' = shell \o SubSeq(inBuf, 1, k)
       /\ inBuf' = SubSeq(inBuf, k + 1, Len(inBuf))
  /\ UNCHANGED <<threadVars, condata, mainVars>>

-----------------------------------------------------------------------------
(* The main thread.                                                        *)

(* Position 1..Len(block) of gReadspace is overwritten, the rest stays.    *)
Overlay(block, old) ==
  block \o SubSeq(old, Len(block) + 1, Len(old))

(* netread's SSH branch and the parse that ConnectionDataEvent begins.     *)
Netread ==
  LET k == Min({Len(outBuf), BlockSize})
  IN  /\ gReadspace' = Overlay(SubSeq(outBuf, 1, k), gReadspace)
      /\ outBuf' = SubSeq(outBuf, k + 1, Len(outBuf))
      /\ condata' = (outBuf' # <<>>)
      /\ stack' = IF k = 0 THEN stack ELSE <<ParseCall(k)>> \o stack

(* DoNetEvents takes the CONDATA event; while the window is locked it only *)
(* posts it again.                                                         *)
ConnectionDataEvent ==
  /\ CanDispatch
  /\ condata
  /\ ~locked
  /\ Netread
  /\ UNCHANGED <<stream, taken, n, lastCR, screen, locked, inBuf, shell, sends, keys>>

(* RSsendstring(bytes): netpush waits for the input to drain, netwrite     *)
(* puts the bytes in the buffer.  calls is the stack it is called on.      *)
RSsendstring(calls) ==
  LET bytes == [b \in 1..SendLen |-> <<sends + 1, b>>]
  IN  /\ sends' = sends + 1
      /\ stack' = <<SendCall(IF inBuf = <<>> THEN "write" ELSE "push", bytes)>> \o calls

(* parse and VSem interpret the next character of gReadspace.              *)
ParseChar ==
  /\ TopOp = "parse"
  /\ LET call == Head(stack)
         c    == gReadspace[call.pos]
         rest == IF call.pos = call.cnt THEN Tail(stack)
                 ELSE <<[call EXCEPT !.pos = @ + 1]>> \o Tail(stack)
     IN  /\ screen' = Append(screen, c)
         /\ IF c = Query THEN RSsendstring(rest)
            ELSE stack' = rest /\ UNCHANGED sends
  /\ UNCHANGED <<threadVars, condata, gReadspace, locked, keys, inBuf, shell>>

(* DoEvents: a key that sends a string, or one that locks or unlocks the   *)
(* window.                                                                 *)
Keystroke ==
  /\ CanDispatch
  /\ keys < MaxKeys
  /\ keys' = keys + 1
  /\ RSsendstring(stack)
  /\ UNCHANGED <<threadVars, condata, gReadspace, screen, locked, inBuf, shell>>

Lock ==
  /\ CanDispatch
  /\ ~locked /\ keys < MaxKeys
  /\ keys' = keys + 1
  /\ locked' = TRUE
  /\ UNCHANGED <<threadVars, condata, gReadspace, screen, sends, stack, inBuf, shell>>

Unlock ==
  /\ CanDispatch
  /\ locked
  /\ locked' = FALSE
  /\ UNCHANGED <<threadVars, condata, gReadspace, screen, sends, keys, stack, inBuf, shell>>

(* ssh2_sched returns in netpush: the input has drained or 15 ticks are    *)
(* over, and netwrite follows.                                             *)
PushDone ==
  /\ TopOp = "push"
  /\ stack' = <<[Head(stack) EXCEPT !.op = "write"]>> \o Tail(stack)
  /\ UNCHANGED <<threadVars, condata, gReadspace, screen, locked, sends, keys, inBuf, shell>>

(* A slip that InputConserved rules out: netwrite drops what does not fit. *)
NetwriteOnce ==
  /\ TopOp = "write"
  /\ LET call == Head(stack)
         len  == Min({Len(call.rest), InMax - Len(inBuf)})
     IN  /\ inBuf' = inBuf \o SubSeq(call.rest, 1, len)
         /\ stack' = Tail(stack)
  /\ UNCHANGED <<threadVars, condata, gReadspace, screen, locked, sends, keys, shell>>

(* A turn of netwrite's loop: copy what fits, or call ssh2_sched.          *)
Netwrite ==
  /\ TopOp = "write"
  /\ LET call == Head(stack)
         len  == Min({Len(call.rest), InMax - Len(inBuf)})
     IN  /\ inBuf' = inBuf \o SubSeq(call.rest, 1, len)
         /\ stack' = IF len = Len(call.rest) THEN Tail(stack)
                     ELSE <<[call EXCEPT !.op = IF len = 0 THEN "full" ELSE "write",
                                         !.rest = SubSeq(@, len + 1, Len(@))]>>
                          \o Tail(stack)
  /\ UNCHANGED <<threadVars, condata, gReadspace, screen, locked, sends, keys, shell>>

(* ssh2_sched returns in netwrite.                                         *)
FullDone ==
  /\ TopOp = "full"
  /\ stack' = <<[Head(stack) EXCEPT !.op = "write"]>> \o Tail(stack)
  /\ UNCHANGED <<threadVars, condata, gReadspace, screen, locked, sends, keys, inBuf, shell>>

-----------------------------------------------------------------------------
MainStep == ParseChar \/ PushDone \/ Netwrite \/ FullDone
ThreadStep == WriteCharsToTTY \/ WriteAgain \/ ReadCharsFromTTY

Next ==
  \/ ThreadStep
  \/ MainStep
  \/ ConnectionDataEvent
  \/ Keystroke \/ Lock \/ Unlock

Spec == Init /\ [][Next]_vars

(* Every ssh2_sched of the main thread dispatches a queued event and lets  *)
(* the session's thread run; the thread's own loop serves input and output *)
(* in turn; calls of the main thread run on; and the user does not keep    *)
(* the window locked for ever.                                             *)
FairSpec ==
  /\ Spec
  /\ WF_vars(MainStep)
  /\ SF_vars(ConnectionDataEvent)
  /\ SF_vars(WriteCharsToTTY) /\ SF_vars(WriteAgain) /\ SF_vars(ReadCharsFromTTY)
  /\ SF_vars(Unlock)

-----------------------------------------------------------------------------
Byte == (1..sends) \X (1..SendLen)

TypeOK ==
  /\ taken \in 0..Len(stream) /\ n \in 0..(Len(stream) - taken)
  /\ Len(outBuf) <= OutMax /\ Len(inBuf) <= InMax
  /\ Len(gReadspace) <= BlockSize
  /\ lastCR \in BOOLEAN /\ condata \in BOOLEAN /\ locked \in BOOLEAN
  /\ inBuf \in Seq(Byte) /\ shell \in Seq(Byte)
  /\ sends \in Nat /\ keys \in 0..MaxKeys
  /\ \A i \in 1..Len(stack) :
       /\ stack[i].op \in {"parse", "push", "write", "full"}
       /\ stack[i].op = "parse" => stack[i].pos \in 1..stack[i].cnt
       /\ stack[i].rest \in Seq(Byte)

(* What the whole stream s looks like on the screen, however it was cut    *)
(* into calls of WriteCharsToTTY, rounds and blocks.                       *)
Rendering(s) ==
  FlattenSeq([i \in 1..Len(s) |-> Converted(i > 1 /\ s[i - 1] = CR, s[i])])

(* "sends a stream of characters to the specified window" (vsinterf.c:934, *)
(* VSwritefast): the terminal interprets what the remote side printed in   *)
(* order, none lost or doubled, wherever buffers fill up and blocks end.   *)
DisplayedInOrder == IsPrefix(screen, Rendering(stream))

(* The terminal sees no bare line end: every LF follows a CR and every CR  *)
(* is followed by an LF or by an escape sequence.                          *)
NoBareLineEnds ==
  \A i \in 1..Len(screen) :
    /\ screen[i] = LF => i > 1 /\ screen[i - 1] = CR
    /\ screen[i] = CR /\ i < Len(screen) => screen[i + 1] \in {LF, ESC}

(* The bytes of the unfinished sends.                                      *)
Unsent == FlattenSeq([i \in 1..Len(stack) |-> stack[i].rest])

(* No byte of a send is lost or doubled, and the bytes of one send keep    *)
(* their order, though sends nested in one another may interleave.         *)
InputConserved ==
  LET all == shell \o inBuf \o Unsent
  IN  /\ Len(all) = sends * SendLen
      /\ ToSet(all) = Byte
      /\ \A i, j \in 1..Len(all) :
           i < j /\ all[i][1] = all[j][1] => all[i][2] < all[j][2]

(* In the end everything printed is on the screen and everything sent has  *)
(* been read.  So the main thread waiting in netwrite for room in the      *)
(* input buffer and the session's thread waiting for room in the output    *)
(* buffer do not wait for each other, and output never stays in the buffer *)
(* because WriteCharsToTTY or netread forgot to post CONDATA.              *)
AllDelivered == <>[](screen = Rendering(stream) /\ Len(shell) = sends * SendLen)
=============================================================================
