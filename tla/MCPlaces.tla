------------------------------- MODULE MCPlaces -------------------------------
(***************************************************************************)
(* Small instances of PlacesManager for TLC: how many calls each HTTP      *)
(* session makes.                                                          *)
(***************************************************************************)
EXTENDS PlacesManager

CallOnce == [h \in Http |-> 1]
CallTwiceOnce == [h \in Http |-> IF h = "h1" THEN 2 ELSE 1]

===============================================================================
