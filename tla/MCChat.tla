------------------------------- MODULE MCChat ---------------------------------
(***************************************************************************)
(* Small instances of ChatServer for TLC: what the clients send.           *)
(***************************************************************************)
EXTENDS ChatLocks, TLC

\* Every client logs in under a name of its own.
OwnNames == [s \in Session |-> {(("s1" :> "u1") @@ ("s2" :> "u2") @@ ("s3" :> "u3"))[s]}]

\* s1 and s2 are two connections of one user.
SharedNames == [s \in Session |-> {(("s1" :> "u1") @@ ("s2" :> "u1") @@ ("s3" :> "u2"))[s]}]

\* A client renames itself or empties its name.
AnyNames == [s \in Session |-> {"u1", "u2", NoLogin}]

ReadOnce == [s \in Session |-> 1]
ReadThrice == [s \in Session |-> 3]
ReadTwice == [s \in Session |-> 2]

NoMail == {}

\* u2 writes to u1.
OneMail == {<<"u1", "u2", "c1">>}

\* u2 writes to itself, from any client: mail for a user whose stream is steady.
SteadyMail == {<<"u2", "u2", "c1">>}

\* OneMail, or a message whose sender left out its own name and the addressee's:
\* it is stored for nobody, and its copy goes to everybody.
NamelessMail == OneMail \cup {<<NoLogin, NoLogin, "c1">>}

===============================================================================
