-------------------------------- MODULE Login --------------------------------
(***************************************************************************)
(* From the TCP connection to the authenticated user: the handshake, the    *)
(* key exchange of module KeyExchange, the service request (client.c,       *)
(* server.c) and user authentication (client_userauth.c,                    *)
(* server_userauth.c, server_publickey.c, server_password.c), with both     *)
(* ends of the connection running lsh's code.  The client asks for all its  *)
(* public keys at once and then matches the answers with its keys by        *)
(* counting.                                                                *)
(*                                                                         *)
(* Beyond lsh's own server, the peer may exchange keys again and may guess  *)
(* the exchange method in its KEXINIT, as other servers do; the client has  *)
(* code for both.                                                          *)
(***************************************************************************)
EXTENDS KeyExchange, FiniteSets

CONSTANTS
  NKeys,       \* the user's public keys
  Attempts,    \* AUTH_ATTEMPTS, the failures that the server allows
  MaxTalk      \* bounds the packets each end sends after the login

ASSUME LoginAssumption == NKeys \in Nat /\ Attempts \in Nat /\ MaxTalk \in Nat

VARIABLES
  conn,        \* the ssh_connection of each end
  inbox,       \* packets on their way to each end
  offers,      \* how the ends' lists of exchange methods go together
  advertised,  \* advertised_methods of the server
  client,      \* the client's client_userauth_state and method states
  server,      \* the server's userauth handlers
  talk         \* packets of the connection protocol that each end has sent

vars == <<conn, inbox, offers, advertised, client, server, talk>>

\* lsh_login_command: the methods, in order.
Methods == IF NKeys > 0 THEN <<"none", "publickey", "password">> ELSE <<"none", "password">>

\* phase: "idle" before USERAUTH, "trying", "granted" and "denied".
ClientAuth ==
  [phase : {"idle", "trying", "granted", "denied"},
   current : 1 .. Len(Methods), next : 1 .. Len(Methods) + 1,
   done : 0 .. NKeys, pending : 0 .. NKeys,   \* client_publickey_state
   pk_ok : BOOLEAN,                           \* dispatch[USERAUTH_PK_OK]
   tried_empty : 0 .. 2]                      \* client_password_state

\* handler: dispatch[USERAUTH_REQUEST]; locked: the connection is paused while
\* a password is verified.
ServerAuth ==
  [handler : {"fail", "userauth", "ignore"},
   attempts : 0 .. Attempts,
   locked : BOOLEAN,
   user : BOOLEAN]

Init ==
  /\ conn = [e \in Ends |-> make_ssh_connection(e)]
  /\ inbox = [e \in Ends |-> <<>>]
  /\ offers \in {"same", "other", "none"}
  /\ advertised \in SUBSET {"publickey", "password"}
  /\ client = [phase |-> "idle", current |-> 1, next |-> 2, done |-> 0, pending |-> 0,
               pk_ok |-> FALSE, tried_empty |-> 0]
  /\ server = [handler |-> "fail", attempts |-> Attempts, locked |-> FALSE, user |-> FALSE]
  /\ talk = [e \in Ends |-> 0]

-----------------------------------------------------------------------------
\* End e has done x; its other packets are still to be read.
Done(e, x, box) ==
  /\ conn' = [conn EXCEPT ![e] = x.c]
  /\ inbox' = [box EXCEPT ![Peer(e)] = @ \o x.out]

\* handshake_command; the server may send a guess along.
handshake_command(e) ==
  /\ conn[e].sent = 0
  /\ conn[e].open
  /\ \E follows \in BOOLEAN :
       /\ follows => e = "server" /\ offers = "other"
       /\ Done(e, initiate_keyexchange(Begin(conn[e]), follows), inbox)
  /\ UNCHANGED <<offers, advertised, client, server, talk>>

\* Another exchange, started by the peer.
Rekey ==
  /\ server.user
  /\ conn["server"].open
  /\ conn["server"].kex_state = "INIT"
  /\ conn["server"].kexinits = None
  /\ conn["server"].sent < MaxExchanges
  /\ Done("server", initiate_keyexchange(Begin(conn["server"]), FALSE), inbox)
  /\ UNCHANGED <<offers, advertised, client, server, talk>>

\* The connection protocol after the login.  A peer that exchanges keys again
\* holds its own packets back until it has written NEWKEYS.
Talk(e) ==
  /\ IF e = "client" THEN client.phase = "granted" ELSE server.user
  /\ e = "server" => conn[e].kexinits = None \/ conn[e].kex_state = "NEWKEYS"
  /\ conn[e].open
  /\ talk[e] < MaxTalk
  /\ talk' = [talk EXCEPT ![e] = @ + 1]
  /\ Done(e, Write(Begin(conn[e]), Message("DATA")), inbox)
  /\ UNCHANGED <<offers, advertised, client, server>>

-----------------------------------------------------------------------------
\* Reading.  Each packet is decrypted with the keys of the moment, and goes
\* through connection_handle_packet.
Front(e) == Head(inbox[e])
Rest(e) == [inbox EXCEPT ![e] = Tail(@)]
CanRead(e) ==
  /\ conn[e].open
  /\ conn[e].sent > 0
  /\ inbox[e] # <<>>
  /\ ~(e = "server" /\ server.locked)

\* do_read_packet can decrypt the packet, and connection_handle_packet lets it
\* through.
Passes(e) == Front(e).key = conn[e].rec_keys /\ Accepts(conn[e], Front(e).type)

Reads(e, type) ==
  /\ CanRead(e)
  /\ Front(e).type = type
  /\ Passes(e)
  /\ conn[e].kex_state # "IGNORE"

\* connection_handle_packet in KEX_STATE_IGNORE
Skip(e) ==
  /\ CanRead(e)
  /\ Passes(e)
  /\ conn[e].kex_state = "IGNORE"
  /\ Done(e, [Begin(conn[e]) EXCEPT !.c.kex_state = "IN_PROGRESS"], Rest(e))
  /\ UNCHANGED <<offers, advertised, client, server, talk>>

\* A bad length or a bad MAC in do_read_packet, or the wrong type for
\* connection_handle_packet.
Refuse(e) ==
  /\ CanRead(e)
  /\ ~Passes(e)
  /\ Done(e, Fail(Begin(conn[e]), "protocol"), Rest(e))
  /\ UNCHANGED <<offers, advertised, client, server, talk>>

HandleKexinit(e) ==
  /\ Reads(e, "KEXINIT")
  /\ Done(e, do_handle_kexinit(Begin(conn[e]), Front(e), offers), Rest(e))
  /\ UNCHANGED <<offers, advertised, client, server, talk>>

HandleDhInit ==
  /\ Reads("server", "KEXDH_INIT")
  /\ Done("server", do_handle_dh_init(Begin(conn["server"])), Rest("server"))
  /\ UNCHANGED <<offers, advertised, client, server, talk>>

\* The host key is remembered, so that the user is asked once.
HandleDhReply ==
  /\ Reads("client", "KEXDH_REPLY")
  /\ \E trusted \in BOOLEAN :
       /\ conn["client"].established => trusted
       /\ Done("client", do_handle_dh_reply(Begin(conn["client"]), Front("client"), trusted),
               Rest("client"))
  /\ UNCHANGED <<offers, advertised, client, server, talk>>

HandleNewkeys(e) ==
  /\ Reads(e, "NEWKEYS")
  /\ Done(e, do_handle_newkeys(Begin(conn[e])), Rest(e))
  /\ UNCHANGED <<offers, advertised, client, server, talk>>

\* do_disconnect, connection_debug_handler, and the handlers of the connection
\* protocol
HandleOther(e) ==
  /\ \/ Reads(e, "DISCONNECT")
     \/ Reads(e, "DEBUG")
     \/ Reads(e, "DATA")
  /\ Done(e, IF Front(e).type = "DISCONNECT"
               THEN [Begin(conn[e]) EXCEPT !.c.open = FALSE, !.c.fault = "disconnected"]
               ELSE Begin(conn[e]), Rest(e))
  /\ UNCHANGED <<offers, advertised, client, server, talk>>

-----------------------------------------------------------------------------
\* The server.
Request(method) == [Message("USERAUTH_REQUEST") EXCEPT !.method = method]
Answer(type, m) == [m EXCEPT !.type = type]

\* do_service_request and do_userauth
do_service_request ==
  /\ Reads("server", "SERVICE_REQUEST")
  /\ LET x == Begin(conn["server"])
     IN IF x.c.service
          THEN /\ Done("server", Write([x EXCEPT !.c.service = FALSE], Message("SERVICE_ACCEPT")),
                       Rest("server"))
               /\ server' = [server EXCEPT !.handler = "userauth"]
          ELSE /\ Done("server", Fail(x, "protocol"), Rest("server"))
               /\ UNCHANGED server
  /\ UNCHANGED <<offers, advertised, client, talk>>

\* A slip that TypeOK rules out: the failures are not counted to zero.
Failure_uncounted(x, m, box) ==
  /\ Done("server", Write(x, Answer("USERAUTH_FAILURE", m)), box)
  /\ server' = [server EXCEPT !.attempts = @ - 1, !.locked = FALSE]

\* do_exc_userauth_handler for EXC_USERAUTH
Failure(x, m, box) ==
  IF server.attempts > 0
    THEN /\ Done("server", Write(x, Answer("USERAUTH_FAILURE", m)), box)
         /\ server' = [server EXCEPT !.attempts = @ - 1, !.locked = FALSE]
    ELSE /\ Done("server", Fail(x, "denied"), box)
         /\ server' = [server EXCEPT !.locked = FALSE]

\* do_userauth_continuation
Success(x, m, box) ==
  /\ Done("server", Write(x, Answer("USERAUTH_SUCCESS", m)), box)
  /\ server' = [server EXCEPT !.handler = "ignore", !.locked = FALSE, !.user = TRUE]

\* do_handle_userauth.  Whether a key is authorized or a signature right is
\* decided by the server's files; a password may be verified by a helper,
\* and until it has answered the connection is locked.
do_handle_userauth ==
  /\ Reads("server", "USERAUTH_REQUEST")
  /\ LET x == Begin(conn["server"])
         m == Front("server")
         box == Rest("server")
     IN IF server.handler # "userauth"
          THEN /\ Done("server", IF server.handler = "ignore" THEN x ELSE Fail(x, "protocol"), box)
               /\ UNCHANGED server
          ELSE \/ /\ m.method # "password"
                  /\ Failure(x, m, box)
               \/ /\ m.method = "publickey" /\ ~m.signed
                  /\ Done("server", Write(x, Answer("USERAUTH_PK_OK", m)), box)
                  /\ UNCHANGED server
               \/ /\ m.method = "publickey" /\ m.signed
                  /\ Success(x, m, box)
               \/ /\ m.method = "password"
                  /\ Done("server", x, box)
                  /\ server' = [server EXCEPT !.locked = TRUE]
  /\ UNCHANGED <<offers, advertised, client, talk>>

\* USER_VERIFY_PASSWORD has its answer.
PasswordVerified ==
  /\ server.locked
  /\ conn["server"].open
  /\ \/ Failure(Begin(conn["server"]), Request("password"), inbox)
     \/ Success(Begin(conn["server"]), Request("password"), inbox)
  /\ UNCHANGED <<offers, advertised, client, talk>>

-----------------------------------------------------------------------------
\* The client.  a is its authentication state, x its connection.

\* EXC_USERAUTH with nothing left: do_exc_userauth_disconnect
Denied(a, x) == [a |-> [a EXCEPT !.phase = "denied"], x |-> Fail(x, "denied")]

\* send_password: the user may enter a password, an empty one, or cancel.
\* password is the last method.
send_password(a, x) ==
  {[a |-> a, x |-> Write(x, Request("password"))],
   [a |-> [a EXCEPT !.tried_empty = @ + 1], x |-> Write(x, Request("password"))],
   Denied(a, x)}

\* do_publickey_login: one query for each key
Queries(x) ==
  [x EXCEPT !.out = @ \o [k \in 1 .. NKeys |->
     [Request("publickey") EXCEPT !.k = k, !.key = x.c.send_keys]]]

\* CLIENT_USERAUTH_LOGIN: the outcomes of starting the current method
Start(a, x) ==
  CASE Methods[a.current] = "none"      -> {[a |-> a, x |-> Write(x, Request("none"))]}
    [] Methods[a.current] = "publickey" -> {[a |-> [a EXCEPT !.pk_ok = TRUE], x |-> Queries(x)]}
    [] Methods[a.current] = "password"  -> send_password(a, x)

\* do_exc_client_userauth
Raise(a, x) ==
  IF a.next <= Len(Methods)
    THEN Start([a EXCEPT !.current = a.next, !.next = @ + 1], x)
    ELSE {Denied(a, x)}

\* A slip that LoginEnds rules out: the next method is not tried when the last
\* query fails.
client_publickey_next_stuck(a, x) ==
  LET d == [a EXCEPT !.done = @ + 1]
      p == [a EXCEPT !.pending = @ - 1]
  IN IF a.done < NKeys
       THEN {[a |-> IF d.done < NKeys THEN d ELSE [d EXCEPT !.pk_ok = FALSE], x |-> x]}
       ELSE IF p.pending = 0 THEN Raise(p, x) ELSE {[a |-> p, x |-> x]}

\* client_publickey_next
client_publickey_next(a, x) ==
  LET b == IF a.done < NKeys THEN [a EXCEPT !.done = @ + 1, !.pk_ok = a.done + 1 < NKeys]
                             ELSE [a EXCEPT !.pending = @ - 1]
  IN IF b.done < NKeys \/ b.pending > 0 THEN {[a |-> b, x |-> x]} ELSE Raise(b, x)

\* A slip that AnswersMatch rules out: the first failure ends the method,
\* although there are other answers to come.
MethodFailure_first(a, x, again) ==
  IF Methods[a.current] = "password" /\ again /\ a.tried_empty < 2
    THEN send_password(a, x)
    ELSE Raise(a, x)

\* CLIENT_USERAUTH_FAILURE: do_none_failure, do_publickey_failure and
\* do_password_failure
MethodFailure(a, x, again) ==
  CASE Methods[a.current] = "none"      -> Raise(a, x)
    [] Methods[a.current] = "publickey" -> client_publickey_next(a, x)
    [] Methods[a.current] = "password"  -> IF again /\ a.tried_empty < 2
                                             THEN send_password(a, x)
                                             ELSE Raise(a, x)

\* userauth_method_is_useful
Useful(i) == Methods[i] \in advertised

\* The first useful method from the next one on.
SkipUseless(next) ==
  CHOOSE i \in next .. Len(Methods) + 1 :
    /\ i = Len(Methods) + 1 \/ Useful(i)
    /\ \A j \in next .. i - 1 : ~Useful(j)

\* One of the outcomes happens.
Outcome(set) ==
  /\ \E o \in set : client' = o.a /\ Done("client", o.x, Rest("client"))
  /\ UNCHANGED <<offers, advertised, server, talk>>

\* A message of the server that the client has no handler for.
Unexpected == Outcome({[a |-> client, x |-> Fail(Begin(conn["client"]), "protocol")]})

\* do_accept_service and do_client_userauth
do_accept_service ==
  /\ Reads("client", "SERVICE_ACCEPT")
  /\ IF conn["client"].service
       THEN Outcome(Start([client EXCEPT !.phase = "trying"],
                          [Begin(conn["client"]) EXCEPT !.c.service = FALSE]))
       ELSE Unexpected

do_userauth_failure ==
  /\ Reads("client", "USERAUTH_FAILURE")
  /\ IF client.phase = "trying"
       THEN Outcome(MethodFailure([client EXCEPT !.next = SkipUseless(@)],
                                  Begin(conn["client"]), Useful(client.current)))
       ELSE Unexpected

\* do_userauth_pk_ok.  The key that the server names should be the one whose
\* answer is due; otherwise no signature is sent.
do_userauth_pk_ok ==
  /\ Reads("client", "USERAUTH_PK_OK")
  /\ LET x == Begin(conn["client"])
         k == client.done + 1
     IN IF ~client.pk_ok
          THEN Unexpected
          ELSE IF Front("client").k = k
          THEN Outcome(client_publickey_next(
                 [client EXCEPT !.pending = @ + 1],
                 Write(x, [Request("publickey") EXCEPT !.k = k, !.signed = TRUE])))
          ELSE Outcome(client_publickey_next(client, x))

do_userauth_success ==
  /\ Reads("client", "USERAUTH_SUCCESS")
  /\ IF client.phase = "trying"
       THEN Outcome({[a |-> [client EXCEPT !.phase = "granted", !.pk_ok = FALSE],
                      x |-> Begin(conn["client"])]})
       ELSE Unexpected

-----------------------------------------------------------------------------
Handle(e) ==
  \/ HandleKexinit(e) \/ HandleNewkeys(e) \/ HandleOther(e)
  \/ Skip(e) \/ Refuse(e)
  \/ e = "server" /\ (HandleDhInit \/ do_service_request \/ do_handle_userauth)
  \/ /\ e = "client"
     /\ \/ HandleDhReply \/ do_accept_service
        \/ do_userauth_failure \/ do_userauth_pk_ok \/ do_userauth_success

Next ==
  \/ \E e \in Ends : handshake_command(e) \/ Handle(e) \/ Talk(e)
  \/ PasswordVerified
  \/ Rekey

Spec == Init /\ [][Next]_vars

\* Both programs start and read what has come, the helper answers, and the user
\* answers the dialogs, which the handlers wait for.  Nothing makes the ends
\* talk or exchange keys again.
Fairness ==
  /\ \A e \in Ends : WF_vars(handshake_command(e)) /\ WF_vars(Handle(e))
  /\ WF_vars(PasswordVerified)

FairSpec == Spec /\ Fairness

-----------------------------------------------------------------------------
\* Type correctness: the counters of keys, signatures and failures included.
TypeOK ==
  /\ conn \in [Ends -> Connection]
  /\ inbox \in [Ends -> Seq(Packet)]
  /\ offers \in {"same", "other", "none"}
  /\ advertised \subseteq {"publickey", "password"}
  /\ client \in ClientAuth
  /\ server \in ServerAuth
  /\ talk \in [Ends -> 0 .. MaxTalk]

\* Whatever is on its way when keys change, a packet is decrypted with the keys
\* it was encrypted with (install_keys after NEWKEYS was written,
\* do_handle_newkeys when it is read).
KeysAgree ==
  \A e \in Ends : CanRead(e) => Front(e).key = conn[e].rec_keys

Rekeyed == conn["server"].sent > 1

\* The login: no packet of lsh's own peer is taken for a violation of the
\* protocol, no signature fails and no answer comes too many.  After another
\* exchange this is so for the client, while its own packets may reach a peer
\* that waits for NEWKEYS: the client does not hold them back.
NoProtocolError ==
  /\ conn["client"].fault # "protocol"
  /\ ~Rekeyed => conn["server"].fault # "protocol"

\* The requests that are not answered yet, and the answers on their way.
Asked == {i \in DOMAIN inbox["server"] : inbox["server"][i].type = "USERAUTH_REQUEST"}
Answers ==
  {i \in DOMAIN inbox["client"] :
     inbox["client"][i].type \in {"USERAUTH_FAILURE", "USERAUTH_PK_OK", "USERAUTH_SUCCESS"}}

\* The client's count agrees with the answers that it will get, and the next
\* one is about the request that it takes it for.
AnswersMatch ==
  client.phase = "trying" /\ conn["client"].open /\ conn["server"].open /\ ~server.user =>
    LET method == Methods[client.current]
        due == IF method = "publickey" THEN NKeys - client.done + client.pending ELSE 1
    IN /\ Cardinality(Asked) + Cardinality(Answers) + (IF server.locked THEN 1 ELSE 0) = due
       /\ \A i \in Answers :
            LET m == inbox["client"][i]
            IN /\ m.method = method
               /\ (method = "publickey" /\ \A j \in Answers : i <= j) =>
                    IF client.done < NKeys THEN ~m.signed /\ m.k = client.done + 1 ELSE m.signed
       /\ server.locked => inbox["server"] = <<>>

\* Every key exchange comes to its end at both ends, or the connection does.
ExchangesEnd ==
  \A e \in Ends :
    conn[e].kexinits # None ~> conn[e].kexinits = None \/ \E d \in Ends : ~conn[d].open

\* Every login is granted or comes to its end: client and server never wait for
\* each other.
LoginEnds == <>(client.phase = "granted" \/ ~conn["client"].open)
=============================================================================
