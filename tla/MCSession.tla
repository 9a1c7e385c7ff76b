----------------------------- MODULE MCSession -----------------------------
(* Small instances of Session.                                             *)
EXTENDS Session

(* Everything the user can do.                                             *)
AllActions == {"dotted", "name", "dialog", "close", "cancel", "closeall", "corpse"}

(* Everything that can fail.                                               *)
AllFailures == {"dns", "stream", "window", "thread", "context"}

Anything == AllActions \cup AllFailures
=============================================================================
