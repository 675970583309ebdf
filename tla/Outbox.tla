-------------------------------- MODULE Outbox --------------------------------
(***************************************************************************)
(* What a session promises about the messages given to its send(): they    *)
(* leave on the wire in the order in which they were given, each at most   *)
(* once, and none is lost except together with the whole process.          *)
(***************************************************************************)
EXTENDS Sequences

CONSTANTS Session, Message

VARIABLE chan   \* session -> messages given to send() and not yet written

Put(s) == \E m \in Message : chan' = [chan EXCEPT ![s] = Append(@, m)]

Emit(s) == chan[s] # <<>> /\ chan' = [chan EXCEPT ![s] = Tail(@)]

Lose == chan' = [s \in Session |-> <<>>]

Init == chan = [s \in Session |-> <<>>]

Next == \/ \E s \in Session : Put(s) \/ Emit(s)
        \/ Lose

Spec == Init /\ [][Next]_chan

===============================================================================
