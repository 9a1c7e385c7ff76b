--------------------------- MODULE MCConsolePipe ---------------------------
(* Small instances of ConsolePipe: every stream up to a length, over the   *)
(* characters of interest.                                                 *)
EXTENDS ConsolePipe

CONSTANTS X, StreamLen

AnyText == [1..StreamLen -> {CR, LF, ESC, X}]
TextThenQuery == {Append(t, Query) : t \in AnyText}
WithOneQuery == {[i \in 1..StreamLen |-> IF i = q THEN Query ELSE i] : q \in 1..StreamLen}
=============================================================================
