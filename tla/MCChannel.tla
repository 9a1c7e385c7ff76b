------------------------------ MODULE MCChannel ------------------------------
(* Instances of Channel for TLC. *)
EXTENDS Channel, TLC

\* The server opens both channels.
ByServer == [k \in Opens |-> "server"]

\* The second channel may use the number of the first one, an X11 connection,
\* again.
Windows == [k \in Opens |-> IF k = 1 THEN 2 ELSE 1]
==============================================================================
