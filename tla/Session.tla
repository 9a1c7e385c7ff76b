------------------------------ MODULE Session ------------------------------
(***************************************************************************)
(* The life of SSH sessions: the window table and its event handlers       *)
(* (macssh/source/main/Connections.c, event.c, menuseg.c), the streams     *)
(* (network/network.c), host lookups (network/mydnr.c) and the session     *)
(* threads (ssh/ssh2.c).                                                   *)
(*                                                                         *)
(* Closing a session calls ssh2_sched on the main thread, which dispatches *)
(* at most one user event and one network event before the other threads   *)
(* run: the main thread is a stack of unfinished calls.  Calls hold their  *)
(* windows as table indexes (&screens[i] is the same thing), and           *)
(* destroyport moves the windows above the one it removes.                 *)
(*                                                                         *)
(* Only protocol 4 (SSH) is modelled.  Data, menus and graphics are left   *)
(* out, so FlushNetwork is; the event queue is taken to have room (module  *)
(* EventQueue); the first lookup of a SOCKS session is left out.           *)
(***************************************************************************)
EXTENDS Integers, Sequences, FiniteSets, FiniteSetsExt

CONSTANTS
  MaxSess,   \* the size of the window table
  Ports,     \* the stream numbers, 0..NPORTS-1
  MaxOpens,  \* bound: how many sessions the user opens
  MaxEnds,   \* bound: how many of them end by themselves
  May        \* what may happen: user actions, and allocations that fail

ASSUME SessionAssumption ==
  /\ MaxSess \in Nat \ {0} /\ MaxOpens \in Nat /\ MaxEnds \in Nat
  /\ Ports \subseteq Nat /\ IsFiniteSet(Ports)
  /\ May \subseteq {"dotted", "name", "dialog", "close", "cancel", "closeall", "corpse"}
                \cup {"dns", "stream", "window", "thread", "context"}

VARIABLES
  screens,     \* the window table, slots at and above numwindows included
  numwindows,  \* TelInfo->numwindows
  streams,     \* the ports whose stream is not NULL
  vss,         \* the virtual screens in use
  events,      \* the event queue
  lookups,     \* host lookups in progress
  threads,     \* the session threads, in the order of their creation
  calls,       \* the unfinished calls of the main thread, innermost first
  opens,       \* the number of sessions opened so far
  ends         \* the number of threads that ended by themselves

vars == <<screens, numwindows, streams, vss, events, lookups, threads, calls, opens, ends>>

Slots == 0..(MaxSess - 1)
None == 0            \* a NULL thread or context
NoPort == -1
NoStream == -2       \* what makestream returns when all streams are in use
CorpsePort == 32700

(* The fields of a WindRec that matter; host stands for machine, and ip    *)
(* for the host whose address is in sshdata.ip.                            *)
WindRec ==
  [host |-> None, active |-> "NOTINUSE", port |-> NoPort, vs |-> -1,
   thread |-> None, context |-> None, ip |-> None]

(* A slip that ThreadIsOwn rules out: sshdata.thread is not cleared.       *)
ResetKept(w, host) ==
  [w EXCEPT !.host = host, !.active = "NOTINUSE", !.port = NoPort, !.vs = -1]

(* What CreateConnectionFromParams makes of the slot it takes.             *)
Reset(w, host) ==
  [w EXCEPT !.host = host, !.active = "NOTINUSE", !.port = NoPort, !.vs = -1,
            !.thread = None, !.context = None]

Init ==
  /\ screens = [i \in Slots |-> WindRec]
  /\ numwindows = 0
  /\ streams = {} /\ vss = {}
  /\ events = <<>> /\ lookups = {}
  /\ threads = <<>>
  /\ calls = <<>>
  /\ opens = 0 /\ ends = 0

Post(ev) == events' = Append(events, ev)
Ev(what, port) == [what |-> what, port |-> port]
DomainDone(screen, host, err) ==
  [what |-> "DOMAIN_DONE", screen |-> screen, host |-> host, err |-> err]

(* Whether an allocation succeeds is not under the program's control.      *)
Outcomes(f) == IF f \in May THEN BOOLEAN ELSE {TRUE}

-----------------------------------------------------------------------------
(* The window table.                                                       *)

Live(i) == screens[i].active \in {"ACTIVE", "OPENING"}
Table == {i \in Slots : i < numwindows}

(* The first index of a set, or -1.                                        *)
First(S) == IF S = {} THEN -1 ELSE Min(S)

WindByPort(port) == First({i \in Table : screens[i].port = port /\ Live(i)})
FindWindByPort(port) == First({i \in Table : screens[i].port = port})
findbyVS(vs) == First({i \in Table : screens[i].vs = vs})

(* The table after destroyport(w); the last slot keeps its contents.       *)
Shifted(w) ==
  LET marked == [screens EXCEPT ![w].active = "NOTINUSE"]
  IN  [i \in Slots |-> IF i >= w /\ i < numwindows - 1 THEN marked[i + 1] ELSE marked[i]]

(* A slip that WindowsCounted rules out: the virtual screen stays behind.  *)
destroyportKept(w) ==
  /\ screens' = Shifted(w)
  /\ numwindows' = numwindows - 1
  /\ UNCHANGED vss

destroyport(w) ==
  /\ screens' = Shifted(w)
  /\ numwindows' = numwindows - 1
  /\ vss' = vss \ {screens[w].vs}

-----------------------------------------------------------------------------
(* Calls of the main thread.  arg is a table index, or a port for netclose.*)
Call(op, arg) == [op |-> op, arg |-> arg, host |-> None]
OpenCall(op, cur, host) == [op |-> op, arg |-> cur, host |-> host]

Top == IF calls = <<>> THEN Call("loop", 0) ELSE Head(calls)
Below == Tail(calls)
Return == calls' = Below
Do(seq) == calls' = seq \o Below

(* The main loop and the login dialog dispatch one network event after     *)
(* another and yield; a nested ssh2_sched dispatches one and yields.       *)
AtLoop == Top.op \in {"loop", "login"}
AtYield == AtLoop \/ Top.op = "yield"

(* gMovableModal keeps ssh2_doevent from DoEvents while the login dialog   *)
(* is up.                                                                  *)
AtUser ==
  /\ Top.op \in {"loop", "user"}
  /\ \A k \in 1..Len(calls) : calls[k].op # "login"

(* The stack after DoEvents or DoNetEvents called seq.                     *)
Dispatched(op, seq) == calls' = IF AtLoop THEN seq \o calls ELSE seq \o <<Call(op, 0)>> \o Below
AfterUser(seq) == Dispatched("net", seq)
AfterNet(seq) == Dispatched("yield", seq)

-----------------------------------------------------------------------------
(* A slip that NestingBounded rules out: the thread is killed but not      *)
(* forgotten.                                                              *)
ProtocolCloseKept ==
  /\ Top.op = "protocol_close"
  /\ LET t == screens[Top.arg].thread
     IN  IF t = None
         THEN Return /\ UNCHANGED threads
         ELSE /\ threads' = [threads EXCEPT ![t].killed = TRUE]
              /\ Do(<<Call("user", 0)>>)
  /\ UNCHANGED <<screens, numwindows, streams, vss, events, lookups, opens, ends>>

(* ssh_protocol_close.  (When the thread has not begun, the code also      *)
(* writes through the NULL context, into low memory.)                      *)
ProtocolClose ==
  /\ Top.op = "protocol_close"
  /\ LET t == screens[Top.arg].thread
     IN  IF t = None
         THEN Return /\ UNCHANGED <<screens, threads>>
         ELSE /\ threads' = [threads EXCEPT ![t].killed = TRUE]
              /\ screens' = [screens EXCEPT ![Top.arg].thread = None]
              /\ Do(<<Call("user", 0)>>)
  /\ UNCHANGED <<numwindows, streams, vss, events, lookups, opens, ends>>

(* netclose.  Without a window the stream is closed already, and released. *)
Netclose ==
  /\ Top.op = "netclose"
  /\ LET p == Top.arg
         i == WindByPort(p)
     IN  /\ streams' = streams \ {p}
         /\ IF p \notin streams \/ i < 0
            THEN Return /\ UNCHANGED events
            ELSE IF screens[i].context # None
            THEN Do(<<Call("protocol_close", i)>>) /\ UNCHANGED events
            ELSE Return /\ Post(Ev("CLOSEDONE", p))
  /\ UNCHANGED <<screens, numwindows, vss, lookups, threads, opens, ends>>

(* A slip that NoOrphan rules out: the thread is not told.                 *)
RemoveportQuiet ==
  /\ Top.op = "removeport"
  /\ Do(<<Call("removed", Top.arg)>>)
  /\ UNCHANGED <<screens, numwindows, streams, vss, events, lookups, threads, opens, ends>>

(* removeport: ssh_glue_close, then the window goes or, when the user has  *)
(* set WindowsDontGoAway, stays as a corpse.                               *)
Removeport ==
  /\ Top.op = "removeport"
  /\ Do(<<Call("protocol_close", Top.arg), Call("removed", Top.arg)>>)
  /\ UNCHANGED <<screens, numwindows, streams, vss, events, lookups, threads, opens, ends>>

Removed ==
  /\ Top.op = "removed"
  /\ \/ LET sn == findbyVS(screens[Top.arg].vs)
        IN  IF screens[Top.arg].vs >= 0 /\ sn >= 0
            THEN destroyport(sn)
            ELSE UNCHANGED <<screens, numwindows, vss>>
     \/ /\ "corpse" \in May
        /\ screens' = [screens EXCEPT ![Top.arg].port = CorpsePort,
                                      ![Top.arg].active = "ISCORPSE"]
        /\ UNCHANGED <<numwindows, vss>>
  /\ Return
  /\ UNCHANGED <<streams, events, lookups, threads, opens, ends>>

Destroyport ==
  /\ Top.op = "destroyport"
  /\ destroyport(Top.arg)
  /\ Return
  /\ UNCHANGED <<streams, events, lookups, threads, opens, ends>>

(* One turn of the loop that closes all windows, from the last down.       *)
CloseAllTurn ==
  /\ Top.op = "closeall"
  /\ IF Top.arg < 0 THEN Return
     ELSE Do(<<Call("netclose", screens[Top.arg].port), Call("destroyport", Top.arg),
               Call("closeall", Top.arg - 1)>>)
  /\ UNCHANGED <<screens, numwindows, streams, vss, events, lookups, threads, opens, ends>>

-----------------------------------------------------------------------------
(* The user.                                                               *)

(* CreateConnectionFromParams up to the login dialog, if there is one.     *)
(* When numwindows has become negative the code writes below the table;    *)
(* the model opens no session then.                                        *)
Open ==
  /\ AtUser
  /\ numwindows >= 0 /\ numwindows < MaxSess
  /\ opens < MaxOpens
  /\ opens' = opens + 1
  /\ screens' = [screens EXCEPT ![numwindows] = Reset(@, opens + 1)]
  /\ numwindows' = numwindows + 1
  /\ \/ AfterUser(<<OpenCall("create", numwindows, opens + 1)>>)
     \/ "dialog" \in May /\ AfterUser(<<OpenCall("login", numwindows, opens + 1)>>)
  /\ UNCHANGED <<streams, vss, events, lookups, threads, ends>>

(* The virtual screens that VSnewscreen can still hand out: VSinit makes   *)
(* MaxSess + 2, and the FTP log window has one of them.                    *)
VSfree == (0..MaxSess) \ vss

(* The rest of CreateConnectionFromParams: DoTheDNR, which answers at once *)
(* for a dotted address, and the window.                                   *)
OpenWindow ==
  /\ Top.op \in {"create", "login"}
  /\ \E ok \in IF VSfree = {} THEN {FALSE} ELSE Outcomes("window") :
       LET cur == Top.arg
           vs  == IF ok THEN Min(VSfree) ELSE -1
       IN  /\ screens' = [screens EXCEPT ![cur].active = IF ok THEN "DNRWAIT" ELSE "NOTINUSE",
                                         ![cur].vs = vs]
           /\ vss' = IF ok THEN vss \cup {vs} ELSE vss
           /\ numwindows' = IF ok THEN numwindows ELSE numwindows - 1
           /\ \/ /\ "dotted" \in May
                 /\ Post(DomainDone(cur, Top.host, FALSE))
                 /\ UNCHANGED lookups
              \/ /\ "name" \in May
                 /\ lookups' = lookups \cup {[screen |-> cur, host |-> Top.host]}
                 /\ UNCHANGED events
  /\ Return
  /\ UNCHANGED <<streams, threads, opens, ends>>

(* The login dialog is cancelled, or there is no memory for a lookup.      *)
OpenFailed ==
  /\ \/ Top.op = "login"
     \/ Top.op = "create" /\ "window" \in May
  /\ screens' = [screens EXCEPT ![Top.arg].active = "NOTINUSE"]
  /\ numwindows' = numwindows - 1
  /\ Return
  /\ UNCHANGED <<streams, vss, events, lookups, threads, opens, ends>>

(* CloseAWindow: only the windows of open connections are visible.         *)
CloseAWindow ==
  /\ AtUser
  /\ "close" \in May
  /\ \E i \in Table :
       \/ /\ screens[i].active = "ISCORPSE"
          /\ AfterUser(<<Call("destroyport", i)>>)
       \/ /\ screens[i].active = "ACTIVE"
          /\ AfterUser(<<Call("netclose", screens[i].port), Call("removeport", i)>>)
  /\ UNCHANGED <<screens, numwindows, streams, vss, events, lookups, threads, opens, ends>>

(* displayStatus: the user cancels a connection that is not yet open.      *)
displayStatus ==
  /\ AtUser
  /\ "cancel" \in May
  /\ \E i \in Table :
       /\ screens[i].active # "ACTIVE"
       /\ AfterUser(<<Call("netclose", screens[i].port), Call("destroyport", i)>>)
  /\ UNCHANGED <<screens, numwindows, streams, vss, events, lookups, threads, opens, ends>>

CloseAll ==
  /\ AtUser
  /\ "closeall" \in May
  /\ numwindows > 0
  /\ AfterUser(<<Call("closeall", numwindows - 1)>>)
  /\ UNCHANGED <<screens, numwindows, streams, vss, events, lookups, threads, opens, ends>>

(* Nothing to do in the DoEvents of a nested ssh2_sched.                   *)
NoUserEvent ==
  /\ Top.op = "user"
  /\ AfterUser(<<>>)
  /\ UNCHANGED <<screens, numwindows, streams, vss, events, lookups, threads, opens, ends>>

-----------------------------------------------------------------------------
(* Network events.                                                         *)
AtNet == AtLoop \/ Top.op = "net"

(* A slip that CallsReturn rules out: DoNetEvents waits for an event.      *)
NoNetEventWaits ==
  /\ Top.op = "net"
  /\ events # <<>>
  /\ AfterNet(<<>>)
  /\ UNCHANGED <<screens, numwindows, streams, vss, events, lookups, threads, opens, ends>>

NoNetEvent ==
  /\ Top.op = "net"
  /\ events = <<>>
  /\ AfterNet(<<>>)
  /\ UNCHANGED <<screens, numwindows, streams, vss, events, lookups, threads, opens, ends>>

Take(what) == AtNet /\ events # <<>> /\ Head(events).what = what

(* ConnectionOpenEvent and ssh_protocol_initial.                           *)
ConnectionOpenEvent ==
  /\ Take("CONOPEN")
  /\ LET i == WindByPort(Head(events).port)
         t == Len(threads) + 1
     IN  IF i < 0
         THEN events' = Tail(events) /\ UNCHANGED <<screens, threads>>
         ELSE \E ok \in Outcomes("thread") :
                IF ok /\ screens[i].thread = None
                THEN /\ events' = Tail(events)
                     /\ screens' = [screens EXCEPT ![i].active = "ACTIVE", ![i].thread = t]
                     /\ threads' = Append(threads, [state |-> "new", w |-> i, killed |-> FALSE,
                                                    port |-> NoPort, host |-> screens[i].host])
                ELSE /\ events' = Append(Tail(events), Ev("CONCLOSE", screens[i].port))
                     /\ screens' = [screens EXCEPT ![i].active = "ACTIVE"]
                     /\ UNCHANGED threads
  /\ AfterNet(<<>>)
  /\ UNCHANGED <<numwindows, streams, vss, lookups, opens, ends>>

(* A slip that StreamsMatch rules out: only one half of the session is     *)
(* closed.                                                                 *)
ClosedEventNoWindow ==
  /\ Take("CONCLOSE")
  /\ AfterNet(<<Call("netclose", Head(events).port)>>)
  /\ events' = Tail(events)
  /\ UNCHANGED <<screens, numwindows, streams, vss, lookups, threads, opens, ends>>

(* A slip that TypeOK rules out: no check that there is a window.          *)
ClosedEventUnchecked ==
  /\ Take("CONCLOSE")
  /\ LET p == Head(events).port
     IN  AfterNet(<<Call("netclose", p), Call("removeport", WindByPort(p))>>)
  /\ events' = Tail(events)
  /\ UNCHANGED <<screens, numwindows, streams, vss, lookups, threads, opens, ends>>

ConnectionClosedEvent ==
  /\ Take("CONCLOSE")
  /\ LET p == Head(events).port
         i == WindByPort(p)
     IN  AfterNet(IF i < 0 THEN <<Call("netclose", p)>>
                  ELSE <<Call("netclose", p), Call("removeport", i)>>)
  /\ events' = Tail(events)
  /\ UNCHANGED <<screens, numwindows, streams, vss, lookups, threads, opens, ends>>

CloseDone ==
  /\ Take("CLOSEDONE")
  /\ AfterNet(<<Call("netclose", Head(events).port)>>)
  /\ events' = Tail(events)
  /\ UNCHANGED <<screens, numwindows, streams, vss, lookups, threads, opens, ends>>

(* The lowest empty stream.                                                *)
makestream == IF Ports \subseteq streams THEN NoStream ELSE Min(Ports \ streams)

(* The slot after destroyport(s) when the open window s got no stream but  *)
(* p; if another window moved there, that one is now marked as opening.    *)
WithoutStream(s, p, host) ==
  [Shifted(s) EXCEPT ![s].active = "OPENING",
                     ![s].port = IF s < numwindows - 1 THEN @ ELSE p,
                     ![s].ip = IF s < numwindows - 1 THEN @ ELSE host]

(* HandleDomainDoneMessage and CompleteConnectionOpening.                  *)
CompleteConnectionOpening ==
  /\ Take("DOMAIN_DONE")
  /\ LET ev == Head(events)
         s  == ev.screen
     IN  IF screens[s].active # "DNRWAIT"
         THEN events' = Tail(events) /\ UNCHANGED <<screens, numwindows, vss, streams>>
         ELSE IF ev.err
         THEN destroyport(s) /\ events' = Tail(events) /\ UNCHANGED streams
         ELSE
         \/ /\ "stream" \in May        \* setReadBlockSize failed
            /\ events' = Tail(events)
            /\ UNCHANGED <<screens, numwindows, vss, streams>>
         \/ \E ok \in Outcomes("stream") :
                LET p == IF ok THEN makestream ELSE NoPort
                IN  /\ streams' = IF p < 0 THEN streams ELSE streams \cup {p}
                    /\ events' = Append(Tail(events), Ev("CONOPEN", p))
                    /\ IF p < 0
                       THEN /\ screens' = WithoutStream(s, p, ev.host)
                            /\ numwindows' = numwindows - 1
                            /\ vss' = vss \ {screens[s].vs}
                       ELSE /\ screens' = [screens EXCEPT ![s].port = p, ![s].ip = ev.host,
                                                          ![s].active = "OPENING"]
                            /\ UNCHANGED <<numwindows, vss>>
  /\ AfterNet(<<>>)
  /\ UNCHANGED <<lookups, threads, opens, ends>>

(* DNRDone, at interrupt level.                                            *)
DNRDone ==
  /\ \E l \in lookups, ok \in Outcomes("dns") :
       /\ lookups' = lookups \ {l}
       /\ IF screens[l.screen].active = "DNRWAIT"
          THEN Post(DomainDone(l.screen, l.host, ~ok))
          ELSE UNCHANGED events
  /\ UNCHANGED <<screens, numwindows, streams, vss, threads, calls, opens, ends>>

(* ssh2_sched returns.  YieldToAnyThread has let every ready thread run,   *)
(* so none is left that has yet to begin.                                  *)
SchedReturn ==
  /\ Top.op = "yield"
  /\ \A t \in 1..Len(threads) : threads[t].state # "new"
  /\ Return
  /\ UNCHANGED <<screens, numwindows, streams, vss, events, lookups, threads, opens, ends>>

-----------------------------------------------------------------------------
(* The session threads.                                                    *)

(* A slip that SessionsClose rules out: no disconnect indication.          *)
PostCloseNever(port) == UNCHANGED events

(* The disconnect indication.                                              *)
PostClose(port) ==
  IF port # NoPort THEN Post(Ev("CONCLOSE", port)) ELSE UNCHANGED events

(* ssh2_thread begins: w is the pointer that pthread_create was given.     *)
ThreadStart(t) ==
  /\ AtYield
  /\ threads[t].state = "new"
  /\ LET port == screens[threads[t].w].port
     IN  \E ok \in Outcomes("context") :
           IF ok
           THEN /\ threads' = [threads EXCEPT ![t].state = "run", ![t].port = port]
                /\ screens' = [screens EXCEPT ![threads[t].w].context = t]
                /\ UNCHANGED events
           ELSE /\ threads' = [threads EXCEPT ![t].state = "done", ![t].port = port]
                /\ PostClose(port)
                /\ UNCHANGED screens
  /\ UNCHANGED <<numwindows, streams, vss, lookups, calls, opens, ends>>

(* The end of ssh2_thread.                                                 *)
ThreadDone(t) ==
  LET port == threads[t].port
      w    == IF port < 0 THEN -1 ELSE FindWindByPort(port)
  IN  /\ threads' = [threads EXCEPT ![t].state = "done"]
      /\ PostClose(port)
      /\ screens' = IF w >= 0 /\ screens[w].thread = t
                    THEN [screens EXCEPT ![w].thread = None, ![w].context = None]
                    ELSE screens

(* The remote side is gone.                                                *)
ThreadEnd(t) ==
  /\ AtYield
  /\ threads[t].state = "run"
  /\ ends < MaxEnds
  /\ ends' = ends + 1
  /\ ThreadDone(t)
  /\ UNCHANGED <<numwindows, streams, vss, lookups, calls, opens>>

(* ssh2_sighandler: SIGINT is a fake exit.                                 *)
ThreadKilled(t) ==
  /\ AtYield
  /\ threads[t].state = "run" /\ threads[t].killed
  /\ ThreadDone(t)
  /\ UNCHANGED <<numwindows, streams, vss, lookups, calls, opens, ends>>

-----------------------------------------------------------------------------
MainCall == ProtocolClose \/ Netclose \/ Removeport \/ Removed \/ Destroyport \/ CloseAllTurn
NetEvent == ConnectionOpenEvent \/ ConnectionClosedEvent \/ CloseDone \/ CompleteConnectionOpening
UserEvent == Open \/ CloseAWindow \/ displayStatus \/ CloseAll
ThreadStep == \E t \in 1..Len(threads) : ThreadStart(t) \/ ThreadEnd(t) \/ ThreadKilled(t)

Next ==
  \/ MainCall \/ NetEvent \/ UserEvent
  \/ OpenWindow \/ OpenFailed
  \/ NoUserEvent \/ NoNetEvent \/ SchedReturn
  \/ DNRDone
  \/ ThreadStep

Spec == Init /\ [][Next]_vars

(* The main loop runs on and dispatches events, a user answers the login   *)
(* dialog, and the thread scheduler lets every thread run that has to      *)
(* start, or that has a signal to handle.                                  *)
FairSpec ==
  /\ Spec
  /\ WF_vars(MainCall) /\ WF_vars(NetEvent)
  /\ WF_vars(OpenWindow \/ OpenFailed)
  /\ WF_vars(NoUserEvent) /\ WF_vars(NoNetEvent) /\ WF_vars(SchedReturn)
  /\ \A t \in 1..MaxOpens :
       WF_vars(t <= Len(threads) /\ (ThreadStart(t) \/ ThreadKilled(t)))

-----------------------------------------------------------------------------
Thread == 0..Len(threads)

TypeOK ==
  /\ screens \in [Slots ->
       [host : 0..opens, active : {"NOTINUSE", "DNRWAIT", "OPENING", "ACTIVE", "ISCORPSE"},
        port : Ports \cup {NoPort, NoStream, CorpsePort}, vs : -1..MaxSess,
        thread : Thread, context : Thread, ip : 0..opens]]
  /\ numwindows \in Int /\ numwindows <= MaxSess
  /\ streams \subseteq Ports /\ vss \subseteq 0..MaxSess
  /\ lookups \subseteq [screen : Slots, host : 1..opens]
  /\ opens \in 0..MaxOpens /\ ends \in 0..MaxEnds
  /\ \A t \in 1..Len(threads) :
       threads[t] \in [state : {"new", "run", "done"}, w : Slots, killed : BOOLEAN,
                      port : Ports \cup {NoPort, NoStream, CorpsePort}, host : 1..opens]
  /\ \A k \in 1..Len(calls) :
       calls[k].op \notin {"netclose", "closeall"} => calls[k].arg \in Slots

(* Whatever moves in the table while calls are suspended, the thread that  *)
(* a window refers to was started for that window's session: closing a     *)
(* window never kills another session through its thread field.            *)
ThreadIsOwn ==
  \A i \in Table :
    screens[i].thread # None => threads[screens[i].thread].host = screens[i].host

(* Closing sessions from within ssh2_sched nests, but never deeper than    *)
(* there are killed threads: each is signalled only once, although         *)
(* netclose and removeport both call ssh_protocol_close, and the main      *)
(* thread's stack stays bounded.                                           *)
NestingBounded ==
  Cardinality({k \in 1..Len(calls) : calls[k].op \in {"user", "net", "yield"}})
    <= Cardinality({t \in 1..Len(threads) : threads[t].killed})

(* The windows on the screen are those of the table, one each, and the     *)
(* count is right; a window that is being created is not there yet.        *)
WindowsCounted ==
  /\ numwindows \in 0..MaxSess
  /\ calls = <<>> =>
       /\ vss = {screens[i].vs : i \in Table}
       /\ Cardinality(vss) = numwindows

(* No thread is left behind: each one that has not ended belongs to a      *)
(* window, or has been told to end.                                        *)
NoOrphan ==
  \A t \in 1..Len(threads) :
    threads[t].state # "done" /\ ~threads[t].killed
      => \E i \in Table : screens[i].thread = t

(* Between handlers, windows and streams are matched: the stream of an     *)
(* open window is there, since no CONCLOSE or CLOSEDONE meant for an       *)
(* earlier user of the port takes it away, and no stream leaks.            *)
StreamsMatch ==
  AtLoop => /\ \A i \in Table : Live(i) => screens[i].port \in streams
            /\ \A p \in streams : \E i \in Table : screens[i].port = p

(* The main thread's unfinished calls all return.                          *)
CallsReturn == calls # <<>> ~> calls = <<>>

HasWindow(t) ==
  t <= Len(threads) /\ \E i \in Table : Live(i) /\ screens[i].host = threads[t].host

(* When a session's thread has ended, its window goes away or becomes a    *)
(* corpse: the disconnect indication reaches it.                           *)
SessionsClose ==
  \A t \in 1..MaxOpens :
    (t <= Len(threads) /\ threads[t].state = "done") ~> ~HasWindow(t)

(* "Returns an empty stream" (network.c:223, makestream): between events,  *)
(* no two open windows have the same port.                                 *)
PortsDistinct ==
  calls = <<>> =>
  \A i, j \in Table : i # j /\ Live(i) /\ Live(j) => screens[i].port # screens[j].port

(* "Get the IP for the host while we set up the connection"                *)
(* (Connections.c:858): a session that opens has the address of its own    *)
(* host.                                                                   *)
HostGetsItsAddress == \A i \in Table : Live(i) => screens[i].ip = screens[i].host
=============================================================================
