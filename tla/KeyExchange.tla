----------------------------- MODULE KeyExchange -----------------------------
(***************************************************************************)
(* The key exchange of an SSH connection as lsh/src/connection.c,           *)
(* keyexchange.c, client_keyexchange.c and server_keyexchange.c carry it    *)
(* out at both ends: KEXINIT, the Diffie-Hellman messages, NEWKEYS, and the *)
(* packets that each kex_state lets through.  What is here is what one end  *)
(* does to its ssh_connection object and what it writes; Login has the      *)
(* state and the steps.                                                    *)
(*                                                                         *)
(* Keys are what they are made from: the KEXINIT messages of both ends,    *)
(* which the exchange hash covers.                                         *)
(***************************************************************************)
EXTENDS Naturals, Sequences

CONSTANT MaxExchanges   \* bounds the key exchanges of a connection

ASSUME ExchangesAssumption == MaxExchanges \in Nat \ {0}

Ends == {"client", "server"}
Peer(e) == IF e = "client" THEN "server" ELSE "client"

\* The KEXINITs of an end are numbered; 0 is NULL.  Without an exchange both
\* are NULL, and such keys stand for plain text.
Kexinits == [Ends -> 0 .. MaxExchanges]
None == [e \in Ends |-> 0]

\* ssh_connection.  kexinits stands for literal_kexinits as well.
Connection ==
  [mode : Ends,
   kex_state : {"INIT", "IGNORE", "IN_PROGRESS", "NEWKEYS"},
   sent : 0 .. MaxExchanges,              \* KEXINITs written
   kexinits : Kexinits,
   dh : BOOLEAN,                          \* dispatch[KEXDH_REPLY], dispatch[KEXDH_INIT]
   newkeys : Kexinits,                    \* dispatch[NEWKEYS]
   send_keys : Kexinits, rec_keys : Kexinits,
   established : BOOLEAN,                 \* the continuation has been called
   service : BOOLEAN,                     \* dispatch[SERVICE_ACCEPT], dispatch[SERVICE_REQUEST]
   open : BOOLEAN,                        \* the socket is read
   fault : {"none", "protocol", "kex_failed", "denied", "disconnected"}]

make_ssh_connection(e) ==
  [mode |-> e, kex_state |-> "INIT", sent |-> 0, kexinits |-> None, dh |-> FALSE,
   newkeys |-> None, send_keys |-> None, rec_keys |-> None,
   established |-> FALSE, service |-> FALSE, open |-> TRUE, fault |-> "none"]

\* A packet.  key is what it was encrypted with.
Packet ==
  [type : {"KEXINIT", "GUESS", "KEXDH_INIT", "KEXDH_REPLY", "NEWKEYS", "DEBUG", "DISCONNECT",
           "SERVICE_REQUEST", "SERVICE_ACCEPT", "USERAUTH_REQUEST", "USERAUTH_FAILURE",
           "USERAUTH_PK_OK", "USERAUTH_SUCCESS", "DATA"},
   key : Kexinits,
   kex : Kexinits,        \* KEXINIT: its number; KEXDH_REPLY: the signed hash
   follows : BOOLEAN,     \* KEXINIT: first_kex_packet_follows
   method : {"", "none", "publickey", "password"},
   k : Nat,               \* publickey: the key
   signed : BOOLEAN]      \* publickey: with a signature

Message(type) ==
  [type |-> type, key |-> None, kex |-> None, follows |-> FALSE,
   method |-> "", k |-> 0, signed |-> FALSE]

\* What an end does: x.c is its connection, x.out what it has written.
Begin(c) == [c |-> c, out |-> <<>>]

\* C_WRITE: the packet is encrypted with the keys of the moment.
Write(x, m) == [x EXCEPT !.out = Append(@, [m EXCEPT !.key = x.c.send_keys])]

\* do_exc_connection_handler for EXC_PROTOCOL: tell the peer, stop reading.
Fail(x, why) ==
  LET y == Write(x, Message("DISCONNECT"))
  IN [y EXCEPT !.c.open = FALSE, !.c.fault = why]

-----------------------------------------------------------------------------
\* initiate_keyexchange
initiate_keyexchange(x, follows) ==
  LET n == x.c.sent + 1
      kex == [None EXCEPT ![x.c.mode] = n]
      y == Write([x EXCEPT !.c.sent = n, !.c.kexinits[x.c.mode] = n],
                 [Message("KEXINIT") EXCEPT !.kex = kex, !.follows = follows])
  IN IF follows THEN Write(y, Message("GUESS")) ELSE y

\* connection_handle_packet: the types that the state lets through to the
\* handlers.
Accepts(c, type) ==
  CASE c.kex_state = "INIT"        -> type # "NEWKEYS"
    [] c.kex_state = "IN_PROGRESS" -> type \notin {"NEWKEYS", "KEXINIT"}
    [] c.kex_state = "NEWKEYS"     -> type \in {"NEWKEYS", "DISCONNECT", "DEBUG"}
    [] OTHER                       -> TRUE

\* KEYEXCHANGE_INIT: do_init_client_dh and do_init_server_dh
KEYEXCHANGE_INIT(x) ==
  LET y == [x EXCEPT !.c.dh = TRUE]
  IN IF x.c.mode = "client" THEN Write(y, Message("KEXDH_INIT")) ELSE y

\* do_handle_kexinit.  offers tells how the two lists of algorithms go
\* together: the same first one, another common one, or none.
do_handle_kexinit(x, m, offers) ==
  LET peer == Peer(x.c.mode)
      got == [x EXCEPT !.c.kexinits[peer] = m.kex[peer]]
      both == IF x.c.kexinits[x.c.mode] # 0 THEN got ELSE initiate_keyexchange(got, FALSE)
      chosen == CASE offers = "same"                -> [both EXCEPT !.c.kex_state = "IN_PROGRESS"]
                  [] offers # "same" /\ m.follows   -> [both EXCEPT !.c.kex_state = "IGNORE"]
                  [] offers # "same" /\ ~m.follows  -> both
  IN IF x.c.kex_state # "INIT" THEN Fail(x, "protocol")
     ELSE IF offers = "none" THEN Fail(chosen, "kex_failed")
     ELSE KEYEXCHANGE_INIT(chosen)

\* What the continuation of the first exchange does: the client's
\* do_request_service, the server's do_offer_service.
Established(x) ==
  LET y == [x EXCEPT !.c.established = TRUE, !.c.service = TRUE]
  IN IF x.c.mode = "client" THEN Write(y, Message("SERVICE_REQUEST")) ELSE y

\* A slip that KeysAgree rules out: the new keys are installed before NEWKEYS
\* is written.
keyexchange_finish_early(x) ==
  LET keyed == [x EXCEPT !.c.newkeys = x.c.kexinits, !.c.send_keys = x.c.kexinits,
                         !.c.kex_state = "NEWKEYS"]
      told == Write(Write(keyed, Message("NEWKEYS")), Message("DEBUG"))
  IN IF told.c.established THEN told ELSE Established(told)

\* A slip that NoProtocolError rules out: the service is asked for before the
\* keys are changed.
keyexchange_finish_eager(x) ==
  LET asked == IF x.c.established THEN x ELSE Established(x)
      written == Write(asked, Message("NEWKEYS"))
      keyed == [written EXCEPT !.c.newkeys = x.c.kexinits, !.c.send_keys = x.c.kexinits,
                               !.c.kex_state = "NEWKEYS"]
  IN Write(keyed, Message("DEBUG"))

\* keyexchange_finish with install_keys
keyexchange_finish(x) ==
  LET written == Write(x, Message("NEWKEYS"))
      keyed == [written EXCEPT !.c.newkeys = x.c.kexinits, !.c.send_keys = x.c.kexinits,
                               !.c.kex_state = "NEWKEYS"]
      told == Write(keyed, Message("DEBUG"))
  IN IF told.c.established THEN told ELSE Established(told)

\* do_handle_dh_init
do_handle_dh_init(x) ==
  LET reply == Write(x, [Message("KEXDH_REPLY") EXCEPT !.kex = x.c.kexinits])
  IN IF x.c.dh THEN keyexchange_finish([reply EXCEPT !.c.dh = FALSE]) ELSE Fail(x, "protocol")

\* do_handle_dh_reply.  The user may refuse the host key (trusted); the
\* signature is on the server's exchange hash.  A signature on another hash, a
\* key exchange failure in the code, is a "protocol" fault here, so that
\* NoProtocolError rules it out.
do_handle_dh_reply(x, m, trusted) ==
  CASE ~x.c.dh                                 -> Fail(x, "protocol")
    [] x.c.dh /\ ~trusted                      -> Fail(x, "kex_failed")
    [] x.c.dh /\ trusted /\ m.kex # x.c.kexinits -> Fail(x, "protocol")
    [] x.c.dh /\ trusted /\ m.kex = x.c.kexinits -> keyexchange_finish([x EXCEPT !.c.dh = FALSE])

\* A slip that ExchangesEnd rules out: the KEXINITs are not forgotten.
do_handle_newkeys_kept(x) ==
  [x EXCEPT !.c.rec_keys = x.c.newkeys, !.c.newkeys = None, !.c.kex_state = "INIT"]

\* do_handle_newkeys
do_handle_newkeys(x) ==
  [x EXCEPT !.c.rec_keys = x.c.newkeys, !.c.newkeys = None, !.c.kex_state = "INIT",
            !.c.kexinits = None]
=============================================================================
