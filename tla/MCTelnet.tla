------------------------------ MODULE MCTelnet ------------------------------
(* An instance of Telnet for TLC. *)
EXTENDS Telnet

\* Both characters that parse treats specially.
Text == <<"ESC", "IAC">>

\* What kind of terminal is it?
TermType == {<<"TERMTYP", "SEND">>}

=============================================================================
