------------------------------- MODULE Telnet -------------------------------
(***************************************************************************)
(* A telnet session (protocol 0): parse() of parse.c, which separates the   *)
(* terminal's text from the telnet commands in the blocks that netread      *)
(* returns, and the option negotiation of telnet_do, telnet_dont,           *)
(* telnet_will, telnet_wont and linemode.c.  TCP may cut the server's       *)
(* stream anywhere, so telstate and parsedat carry a command over from one  *)
(* block to the next.  Keys that are echoed locally go through the same     *)
(* parse() with the same telstate (event.c).                                *)
(*                                                                         *)
(* A byte of the stream is a string: "IAC", a command, an option, a         *)
(* linemode mode, or a character of text.  The server negotiates by the     *)
(* rules of RFC 1143: it answers changes only, and changes nothing again    *)
(* before the answer to its last request.                                   *)
(***************************************************************************)
EXTENDS Naturals, SequencesExt

CONSTANTS
  Script,         \* the characters the server prints, with "IAC" for 255
  Offers,         \* the options the server may offer for itself
  Asked,          \* the options the server may ask of the client
  Agrees,         \* the options an obliging server agrees to; another agrees to none
  Modes,          \* the linemode modes the server may ask for
  Queries,        \* the other suboptions the server may send
  lineAllow,      \* the session allows linemode
  Secured,        \* what the session may use of authentication and encryption
  username,       \* the session has a user name
  MaxBlock,       \* the largest block that netread returns
  MaxParsedat,    \* the longest suboption in the stream
  MaxBegun        \* bounds what the server and the user begin

ASSUME TelnetAssumption ==
  /\ Script \in Seq({"text", "ESC", "IAC"})
  /\ "key" \notin Offers \cup Asked
  /\ Agrees \subseteq Offers \cup Asked \cup Secured \cup {"NAWS", "ECHO", "SGA"}
  /\ Queries \subseteq Seq(STRING) /\ \A q \in Queries : Len(q) = 2
  /\ lineAllow \in BOOLEAN /\ username \in BOOLEAN
  /\ Secured \in {{}, {"AUTHENTICATION"}, {"AUTHENTICATION", "ENCRYPT"}}
  /\ MaxBlock \in Nat \ {0} /\ MaxParsedat \in Nat
  /\ MaxBegun \in Nat

VARIABLES
  tw,         \* the telnet part of the session's WindRec
  down,       \* bytes on their way to the client
  up,         \* commands on their way to the server
  server,     \* the server's state of each option
  told,       \* how much of Script the server has printed
  seen,       \* the text that parse has found, keys included, each with whether it is shown
  mishap,     \* what derailed parser or negotiation, if anything
  begun       \* how often the server or the user has begun something

vars == <<tw, down, up, server, told, seen, mishap, begun>>

\* Options that the server keeps a state for.
Hers == Offers \cup {"ECHO", "SGA"}
His == Asked \cup Secured \cup {"NAWS", "OTHER"}

WindRec ==
  [telstate : {"NORM", "ESCFOUND", "IACFOUND", "DO", "DONT", "WILL", "WONT", "SB"},
   echo : BOOLEAN, Usga : BOOLEAN, Isga : BOOLEAN, Ittype : BOOLEAN, naws : BOOLEAN,
   remote_flow : BOOLEAN, allow_flow : BOOLEAN, restart_any_flow : BOOLEAN,
   myopts : SUBSET Secured, hisopts : SUBSET Secured,
   timing : BOOLEAN, lmode : BOOLEAN, lmodeBits : Modes \cup {"0"}]

Send(w, command, option) == [w EXCEPT !.sent = Append(@, <<command, option>>)]

-----------------------------------------------------------------------------
(* The client's answers.  w is tw with the commands sent and text passed on  *)
(* while the block is parsed.                                               *)

telnet_do(w, option) ==
  CASE option = "SGA" ->
         IF w.Isga THEN w ELSE Send([w EXCEPT !.Isga = TRUE], "WILL", option)
    [] option = "TERMTYP" ->
         IF w.Ittype THEN w ELSE Send([w EXCEPT !.Ittype = TRUE], "WILL", option)
    [] option = "NAWS" ->
         Send(Send([w EXCEPT !.naws = TRUE], "WILL", option), "SB", "NAWS")
    [] option = "LINEMODE" ->
         IF lineAllow
         THEN Send(Send([w EXCEPT !.lmode = TRUE, !.lmodeBits = "0"], "WILL", option), "SB", "SLC")
         ELSE Send(w, "WONT", option)
    [] option \in {"AUTHENTICATION", "ENCRYPT"} ->
         IF option \in w.myopts THEN w
         ELSE IF option \in Secured THEN Send([w EXCEPT !.myopts = @ \cup {option}], "WILL", option)
         ELSE Send(w, "WONT", option)
    [] option = "NEW_ENVIRON" -> Send(w, IF username THEN "WILL" ELSE "WONT", option)
    [] option = "REMOTEFLOW" ->
         IF w.remote_flow THEN w ELSE Send([w EXCEPT !.remote_flow = TRUE], "WILL", option)
    [] OTHER -> Send(w, "WONT", option)

telnet_dont(w, option) ==
  CASE option \in {"AUTHENTICATION", "ENCRYPT"} ->
         Send([w EXCEPT !.myopts = @ \ {option}], "WONT", option)
    [] option = "LINEMODE" /\ w.lmode ->
         Send([w EXCEPT !.lmode = FALSE, !.lmodeBits = "0"], "WONT", option)
    [] OTHER -> w

\* A slip that Settles rules out: the answer to the timing mark is not heard.
telnet_will_deaf(w, option) == IF option = "ECHO" /\ w.echo
                               THEN Send([w EXCEPT !.echo = FALSE], "DO", option) ELSE w

telnet_will(w, option) ==
  CASE option = "ECHO" ->
         IF w.echo THEN Send([w EXCEPT !.echo = FALSE], "DO", option) ELSE w
    [] option = "SGA" ->
         IF w.Usga THEN w ELSE Send([w EXCEPT !.Usga = TRUE], "DO", option)
    [] option = "TIMING" -> [w EXCEPT !.timing = FALSE]
    [] option \in {"AUTHENTICATION", "ENCRYPT"} ->
         IF option \in w.hisopts THEN w
         ELSE IF option \in Secured THEN Send([w EXCEPT !.hisopts = @ \cup {option}], "DO", option)
         ELSE Send(w, "DONT", option)
    [] option = "REMOTEFLOW" ->    \* there is no break before default
         Send(IF w.remote_flow THEN w ELSE Send([w EXCEPT !.remote_flow = TRUE], "DO", option),
              "DONT", option)
    [] OTHER -> Send(w, "DONT", option)

\* A slip that Agreed rules out: the server has stopped echoing and nobody echoes.
telnet_wont_mute(w, option) == IF option = "ECHO" /\ ~w.echo THEN Send(w, "DONT", option) ELSE w

telnet_wont(w, option) ==
  CASE option = "ECHO" ->
         IF w.echo THEN w ELSE Send([w EXCEPT !.echo = TRUE], "DONT", option)
    [] option = "SGA" ->
         IF w.Usga THEN Send([w EXCEPT !.Usga = FALSE], "DONT", option) ELSE w
    [] option = "TIMING" -> [w EXCEPT !.timing = FALSE]
    [] option \in {"AUTHENTICATION", "ENCRYPT"} ->
         Send([w EXCEPT !.hisopts = @ \ {option}], "DONT", option)
    [] OTHER -> w

\* L_MODE: a mode we are in already is not answered.
linemode_suboption(w) ==
  LET mode == w.parsedat[3] IN
  IF lineAllow /\ mode \in Modes /\ mode # w.lmodeBits
  THEN Send([w EXCEPT !.lmodeBits = mode], "MODE", mode)
  ELSE w

process_suboption(w) ==
  LET is(i, b) == Len(w.parsedat) >= i /\ w.parsedat[i] = b IN
  CASE is(1, "TERMTYP") /\ is(2, "SEND") -> Send(w, "SB", "TERMTYP")
    [] is(1, "LINEMODE") /\ is(2, "MODE") /\ Len(w.parsedat) >= 3 -> linemode_suboption(w)
    [] is(1, "REMOTEFLOW") /\ is(2, "FLOW_OFF") -> [w EXCEPT !.allow_flow = FALSE]
    [] is(1, "REMOTEFLOW") /\ is(2, "FLOW_ON") -> [w EXCEPT !.allow_flow = TRUE]
    [] is(1, "REMOTEFLOW") /\ is(2, "FLOW_RESTART_ANY") -> [w EXCEPT !.restart_any_flow = TRUE]
    [] is(1, "REMOTEFLOW") /\ is(2, "FLOW_RESTART_XON") -> [w EXCEPT !.restart_any_flow = FALSE]
    [] is(1, "NEW_ENVIRON") /\ is(2, "SEND") -> Send(w, "SB", "NEW_ENVIRON")
    [] OTHER -> w

-----------------------------------------------------------------------------
(* parse                                                                    *)

\* Text goes to the screen unless a timing mark is awaited; the ESC that was
\* held back always does.
Pass(w, b) == [w EXCEPT !.seen = Append(@, <<b, ~w.timing>>)]
MissingEsc(w) == [w EXCEPT !.seen = Append(@, <<"ESC", TRUE>>)]
Collect(w, b) == [w EXCEPT !.parsedat = Append(@, b)]
To(w, state) == [w EXCEPT !.telstate = state]

\* TS_NORM: text is passed on up to an IAC or ESC; an ESC at the very end of
\* the block waits for the next one.
Scan(w, b, last) ==
  CASE b = "IAC" -> To(w, "IACFOUND")
    [] b = "ESC" /\ last -> To(w, "ESCFOUND")
    [] OTHER -> Pass(w, b)

\* A slip that TextShown rules out, without orig = st: a doubled IAC is taken for a command, and not shown.
IacFound_missed(w, b) ==
  CASE b \in {"DO", "DONT", "WILL", "WONT"} -> To(w, b)
    [] b = "SB" -> [To(w, "SB") EXCEPT !.parsedat = <<>>]
    [] OTHER -> To(w, "NORM")

\* A slip that TypeOK rules out, without parseIndex = 0: suboptions are
\* collected behind one another.
IacFound_garbage(w, b) ==
  CASE b = "IAC" -> Pass(To(w, "NORM"), b)
    [] b \in {"DO", "DONT", "WILL", "WONT", "SB"} -> To(w, b)
    [] OTHER -> To(w, "NORM")

IacFound(w, b) ==
  CASE b = "IAC" -> Pass(To(w, "NORM"), b)
    [] b \in {"DO", "DONT", "WILL", "WONT"} -> To(w, b)
    [] b = "SB" -> [To(w, "SB") EXCEPT !.parsedat = <<>>]
    [] OTHER -> To(w, "NORM")

\* The byte after an IAC in a suboption: SE ends it, IAC stands for itself,
\* and anything else has the suboption processed, but does not end it.
SbIac(w, b) ==
  CASE b = "SE" -> To(process_suboption(w), "NORM")
    [] b = "IAC" -> Collect(To(w, "SB"), b)
    [] OTHER -> To(process_suboption(Collect(Collect(w, "IAC"), b)), "SB")

\* "SBIAC" is the place inside TS_SB where st was advanced over an IAC; parse
\* never returns there.
Step(w, b, last) ==
  CASE w.telstate = "NORM" -> Scan(w, b, last)
    [] w.telstate = "ESCFOUND" -> Scan(To(MissingEsc(w), "NORM"), b, last)
    [] w.telstate = "IACFOUND" -> IacFound(w, b)
    [] w.telstate = "DO" -> To(telnet_do(w, b), "NORM")
    [] w.telstate = "DONT" -> To(telnet_dont(w, b), "NORM")
    [] w.telstate = "WILL" -> To(telnet_will(w, b), "NORM")
    [] w.telstate = "WONT" -> To(telnet_wont(w, b), "NORM")
    [] w.telstate = "SB" -> IF b = "IAC" THEN To(w, "SBIAC") ELSE Collect(w, b)
    [] w.telstate = "SBIAC" ->
         IF b \in {"SE", "IAC"} THEN SbIac(w, b) ELSE Collect(SbIac(w, b), b)

parse(w, block) ==
  FoldLeftDomain(LAMBDA v, i : Step(v, block[i], i = Len(block)), w, block)

-----------------------------------------------------------------------------
(* The client's actions.  Each is one event of the main thread.             *)

\* The user or the server begins something of its own.  Once the parser
\* has gone wrong nothing more is begun.
Begins == mishap \subseteq {"toggle", "option"} /\ begun < MaxBegun /\ begun' = begun + 1

\* sent and seen are only there while parse runs.
Begin(w) == [w EXCEPT !.sent = <<>>, !.seen = <<>>]

Return(w) ==
  /\ tw' = Begin(w)
  /\ up' = up \o w.sent
  /\ seen' = seen \o w.seen

\* A block from netread.  When it ends behind an IAC in a suboption, parse reads
\* the byte behind the block, whatever that is.
ConnectionDataEvent ==
  \E n \in 1 .. MaxBlock :
    /\ n <= Len(down)
    /\ LET end == parse(Begin(tw), SubSeq(down, 1, n)) IN
       \/ end.telstate # "SBIAC" /\ Return(end) /\ UNCHANGED mishap
       \/ /\ end.telstate = "SBIAC"
          /\ \E beyond \in {"SE", "IAC", "text"} : Return(SbIac(end, beyond))
          /\ mishap' = mishap \cup {"cut"}
    /\ down' = SubSeq(down, n + 1, Len(down))
    /\ UNCHANGED <<server, told, begun>>

\* A printable key under local echo.  Without local echo it only goes out.
HandleKeyDown ==
  /\ tw.echo /\ Begins
  /\ Return(parse(Begin(tw), <<"key">>))
  /\ mishap' = IF tw.telstate # "NORM" THEN mishap \cup {"key"} ELSE mishap
  /\ UNCHANGED <<down, server, told>>

Silent == down = <<>> /\ up = <<>>
Quiet == Silent /\ tw.telstate = "NORM"

\* The menu's Local Echo (EMecho).  With the Option key the server is not told.
LocalEcho ==
  /\ Begins
  /\ tw' = [tw EXCEPT !.echo = ~@]
  /\ \/ /\ up' = Append(up, <<IF tw.echo THEN "DO" ELSE "DONT", "ECHO">>)
        /\ mishap' = IF Quiet THEN mishap ELSE mishap \cup {"toggle"}
     \/ /\ mishap' = mishap \cup {"option"}
        /\ UNCHANGED up
  /\ UNCHANGED <<down, server, told, seen>>

\* The menu's Interrupt Process and Abort Output: a signal, which does not
\* concern the negotiation, and a timing mark.
Interrupt ==
  /\ Begins
  /\ tw' = [tw EXCEPT !.timing = TRUE]
  /\ up' = Append(up, <<"DO", "TIMING">>)
  /\ UNCHANGED <<down, server, told, seen, mishap>>

-----------------------------------------------------------------------------
(* The server.                                                             *)

Command(c, option) == <<"IAC", c, option>>

States == {"no", "yes", "wantno", "wantyes"}

\* RFC 1143: the state after a positive or negative command, and whether it
\* is answered.
After(state, positive, agrees) ==
  IF state = "no" THEN IF positive /\ agrees THEN "yes" ELSE "no"
  ELSE IF positive /\ state # "wantno" THEN "yes" ELSE "no"

Answered(state, positive) == state = IF positive THEN "no" ELSE "yes"

Hear ==
  /\ up # <<>>
  /\ LET command == Head(up)[1]
         option == Head(up)[2]
         agrees == option \in server.agrees
     IN \/ /\ command \in {"WILL", "WONT"} /\ option \in His
           /\ server' = [server EXCEPT
                !.him[option] = After(@, command = "WILL", agrees),
                !.mode = IF option = "LINEMODE" /\ command = "WILL" THEN "0" ELSE @]
           /\ down' = IF Answered(server.him[option], command = "WILL")
                      THEN down \o Command(IF command = "WILL" /\ agrees THEN "DO" ELSE "DONT", option)
                      ELSE down
        \/ /\ command \in {"DO", "DONT"} /\ option \in Hers
           /\ server' = [server EXCEPT !.us[option] = After(@, command = "DO", agrees)]
           /\ down' = IF Answered(server.us[option], command = "DO")
                      THEN down \o Command(IF command = "DO" /\ agrees THEN "WILL" ELSE "WONT", option)
                      ELSE down
        \/ /\ command = "DO" /\ option = "TIMING"
           /\ \E c \in {"WILL", "WONT"} : down' = down \o Command(c, "TIMING")
           /\ UNCHANGED server
        \/ /\ \/ command \in {"SB", "MODE"}
              \/ command \in {"WILL", "WONT"} /\ option \notin His
              \/ command \in {"DO", "DONT"} /\ option \notin Hers \cup {"TIMING"}
           /\ UNCHANGED <<server, down>>
  /\ up' = Tail(up)
  /\ UNCHANGED <<tw, told, seen, mishap, begun>>

Offer(option) ==
  /\ Begins
  /\ \/ /\ server.us[option] = "no"
        /\ server' = [server EXCEPT !.us[option] = "wantyes"]
        /\ down' = down \o Command("WILL", option)
     \/ /\ server.us[option] = "yes"
        /\ server' = [server EXCEPT !.us[option] = "wantno"]
        /\ down' = down \o Command("WONT", option)
  /\ UNCHANGED <<tw, up, told, seen, mishap>>

Ask(option) ==
  /\ Begins
  /\ \/ /\ server.him[option] = "no"
        /\ server' = [server EXCEPT !.him[option] = "wantyes"]
        /\ down' = down \o Command("DO", option)
     \/ /\ server.him[option] = "yes"
        /\ server' = [server EXCEPT !.him[option] = "wantno"]
        /\ down' = down \o Command("DONT", option)
  /\ UNCHANGED <<tw, up, told, seen, mishap>>

Suboption(bytes) == <<"IAC", "SB">> \o bytes \o <<"IAC", "SE">>

Query(q) ==
  /\ Begins
  /\ q[1] \in Asked /\ server.him[q[1]] = "yes"
  /\ down' = down \o Suboption(q)
  /\ UNCHANGED <<tw, up, server, told, seen, mishap>>

AskMode(mode) ==
  /\ Begins
  /\ "LINEMODE" \in Asked /\ server.him["LINEMODE"] = "yes"
  /\ server' = [server EXCEPT !.mode = mode]
  /\ down' = down \o Suboption(<<"LINEMODE", "MODE", mode>>)
  /\ UNCHANGED <<tw, up, told, seen, mishap>>

\* The server prints a character; 255 is doubled.
Tell ==
  /\ Begins /\ told < Len(Script)
  /\ told' = told + 1
  /\ down' = down \o (IF Script[told'] = "IAC" THEN <<"IAC", "IAC">> ELSE <<Script[told']>>)
  /\ UNCHANGED <<tw, up, server, seen, mishap>>

-----------------------------------------------------------------------------
\* Only the standard port is greeted with options.
telnet_send_initial_options(port23) ==
  SelectSeq(<<<<"WILL", "AUTHENTICATION">>, <<"WILL", "ENCRYPT">>>>, LAMBDA c : c[2] \in Secured)
  \o (IF port23 THEN <<<<"DO", "ECHO">>, <<"DO", "SGA">>, <<"WONT", "OTHER">>, <<"WILL", "NAWS">>>>
      ELSE <<>>)

Init ==
  /\ tw = [telstate |-> "NORM", parsedat |-> <<>>, sent |-> <<>>, seen |-> <<>>,
           echo |-> TRUE, Usga |-> TRUE, Isga |-> FALSE, Ittype |-> FALSE, naws |-> FALSE,
           remote_flow |-> FALSE, allow_flow |-> TRUE, restart_any_flow |-> FALSE,
           myopts |-> Secured, hisopts |-> {},
           timing |-> FALSE, lmode |-> FALSE, lmodeBits |-> "0"]
  /\ \E port23 \in BOOLEAN : up = telnet_send_initial_options(port23)
  /\ \E agrees \in {{}, Agrees} :
       server = [agrees |-> agrees, us |-> [o \in Hers |-> "no"], him |-> [o \in His |-> "no"],
                 mode |-> "0"]
  /\ down = <<>> /\ told = 0 /\ seen = <<>> /\ mishap = {}
  /\ begun = 0

Next ==
  \/ ConnectionDataEvent \/ HandleKeyDown \/ LocalEcho \/ Interrupt
  \/ Hear \/ Tell
  \/ \E q \in Queries : Query(q)
  \/ \E option \in Offers : Offer(option)
  \/ \E option \in Asked : Ask(option)
  \/ \E mode \in Modes : AskMode(mode)

Spec == Init /\ [][Next]_vars

\* The event loop reads what has arrived, and the server answers what it gets;
\* neither user nor server need ever begin anything.
FairSpec == Spec /\ WF_vars(ConnectionDataEvent) /\ WF_vars(Hear)

-----------------------------------------------------------------------------
(* Properties.                                                             *)

\* The fields keep their ranges, and parsedat, which has no bound of its own,
\* holds one suboption: parse starts each at parseIndex 0.
TypeOK ==
  /\ [f \in DOMAIN tw \ {"parsedat", "sent", "seen"} |-> tw[f]] \in WindRec
  /\ mishap \cap {"cut", "key"} = {} => Len(tw.parsedat) <= MaxParsedat
  /\ server \in [agrees : {{}, Agrees}, us : [Hers -> States], him : [His -> States],
                 mode : Modes \cup {"0"}]
  /\ told \in 0 .. Len(Script) /\ begun \in 0 .. MaxBegun
  /\ mishap \subseteq {"cut", "key", "toggle", "option"}

\* When nothing is under way, client and server agree on who echoes: exactly one
\* of them, though offers, refusals, the client's first requests and toggles of
\* Local Echo cross.  Only a toggle with the Option key, of which the server is
\* not told, is exempt.  On linemode they agree whatever was toggled: lmode and
\* lmodeBits are what the server asked for last.
Agreed ==
  Quiet =>
    /\ mishap \subseteq {"toggle"} =>
         /\ tw.echo <=> server.us["ECHO"] # "yes"
         /\ server.us["ECHO"] \in {"yes", "no"}
    /\ "LINEMODE" \in Asked /\ mishap \subseteq {"toggle", "option"} =>
         /\ tw.lmode <=> server.him["LINEMODE"] = "yes"
         /\ tw.lmode => tw.lmodeBits = server.mode

\* Whatever commands are between the characters of the server's stream, and
\* wherever it is cut into blocks except behind an IAC in a suboption, parse
\* finds the server's text, all of it, once and in order, and nothing of the
\* commands: a doubled IAC, an ESC held back at the end of a block, and keys
\* that are echoed between two commands included.
TextShown ==
  mishap \subseteq {"toggle", "option"} =>
    LET text == SelectSeq(seen, LAMBDA p : p[1] # "key") IN
    /\ IsPrefix([i \in DOMAIN text |-> text[i][1]], Script)
    /\ Quiet => Len(text) = told

\* The negotiation ends, unless Local Echo told the server of a change while
\* something was on its way: answers to answers do not go on for ever, and output
\* that a timing mark has suppressed is turned on again.
Settles == <>[](mishap \cap {"cut", "key", "toggle"} # {} \/ (Silent /\ ~tw.timing))

=============================================================================
