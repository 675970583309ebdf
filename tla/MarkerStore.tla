------------------------------ MODULE MarkerStore ------------------------------
(***************************************************************************)
(* What PlacesManager promises the HTTP requests that call it: a store of  *)
(* markers in which every add_place, upload_marker_image and               *)
(* get_marker_image takes effect once, at one instant between its call and *)
(* its return.  An id is given out once and never again, an image is       *)
(* attached only to a marker that exists, and get returns the image that   *)
(* is there, or nothing when it gives up waiting.  A marker may vanish at  *)
(* any time: it expires, or a client deletes it.                           *)
(***************************************************************************)
EXTENDS Naturals

CONSTANTS Http, Id, Image, NoImage

VARIABLES
  store,   \* id -> image, for the markers that exist
  last,    \* the last id given out
  call,    \* caller -> its request, or NoRequest
  reply    \* caller -> the result, once the call took effect

storeVars == <<store, last, call, reply>>

NoRequest == [op |-> "none"]
NoReply == [op |-> "none"]

Request == {[op |-> "add"]}
           \cup [op : {"image"}, id : Id, image : Image]
           \cup [op : {"get", "delete"}, id : Id]

\* The result of get for marker i: its image, or the empty string.
ImageOf(i) == IF i \in DOMAIN store THEN store[i] ELSE NoImage

Call(h) ==
  /\ call[h] = NoRequest
  /\ \E r \in Request : call' = [call EXCEPT ![h] = r]
  /\ UNCHANGED <<store, last, reply>>

Add(h) ==
  /\ call[h].op = "add"
  /\ last' = last + 1
  /\ store' = [i \in DOMAIN store \cup {last'} |-> IF i = last' THEN NoImage ELSE store[i]]
  /\ reply' = [reply EXCEPT ![h] = [op |-> "add", id |-> last']]

SetImage(h) ==
  /\ call[h].op = "image"
  /\ LET i == call[h].id IN
       /\ store' = [k \in DOMAIN store |-> IF k = i THEN call[h].image ELSE store[k]]
       /\ reply' = [reply EXCEPT ![h] = [op |-> "image", added |-> i \in DOMAIN store]]
  /\ UNCHANGED last

Get(h) ==
  /\ call[h].op = "get"
  /\ reply' = [reply EXCEPT ![h] = [op |-> "get", image |-> ImageOf(call[h].id)]]
  /\ UNCHANGED <<store, last>>

TakeEffect(h) ==
  /\ reply[h] = NoReply
  /\ Add(h) \/ SetImage(h) \/ Get(h)
  /\ UNCHANGED call

\* delete answers without waiting, and get may give up.
Return(h) ==
  /\ call[h] # NoRequest
  /\ reply[h] # NoReply \/ call[h].op \in {"get", "delete"}
  /\ call' = [call EXCEPT ![h] = NoRequest]
  /\ reply' = [reply EXCEPT ![h] = NoReply]
  /\ UNCHANGED <<store, last>>

Vanish ==
  /\ \E i \in DOMAIN store : store' = [k \in DOMAIN store \ {i} |-> store[k]]
  /\ UNCHANGED <<last, call, reply>>

Init ==
  /\ store = [i \in {} |-> NoImage]
  /\ last = 0
  /\ call = [h \in Http |-> NoRequest]
  /\ reply = [h \in Http |-> NoReply]

Next == \/ \E h \in Http : Call(h) \/ TakeEffect(h) \/ Return(h)
        \/ Vanish

Spec == Init /\ [][Next]_storeVars

===============================================================================
