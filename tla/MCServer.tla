------------------------------- MODULE MCServer -------------------------------
(***************************************************************************)
(* Small instances of Server for TLC: one user per client, no directed     *)
(* messages.                                                               *)
(***************************************************************************)
EXTENDS Server

OwnNames == [s \in Session |-> IF s = "s1" THEN {"u1"} ELSE {"u2"}]
ReadOnce == [s \in Session |-> 1]
NoMail == {}
CallOnce == [h \in Http |-> 1]

===============================================================================
