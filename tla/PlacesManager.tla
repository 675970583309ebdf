----------------------------- MODULE PlacesManager -----------------------------
(***************************************************************************)
(* PlacesManager.cpp: the markers, kept by one strand, and the HTTP        *)
(* handlers that call it from strands of their own.                        *)
(*                                                                         *)
(* Only handlers of the strand touch m_places.  AddPlace, AddPlaceImage    *)
(* and GetPlaceImage post such a handler and block their thread on a       *)
(* future until it has run; DeletePlaceById broadcasts and posts.  The     *)
(* strand's own handlers are Timeout, every five seconds, and the expiry   *)
(* of a marker.  All of them run on the threads that run the io_context,   *)
(* and so does whatever delivers a timer's expiry.                         *)
(*                                                                         *)
(* A timer may expire at any time after it was armed.  A broadcast is one  *)
(* step here; its own steps are those of SharedState.                      *)
(***************************************************************************)
EXTENDS Naturals, Sequences, FiniteSets

CONSTANTS
  Http,        \* HTTP sessions
  Strand,      \* the strand of m_timer
  Image,       \* images, base64
  NoImage,     \* the empty string
  Threads,     \* threads that run the io_context
  MaxPlaces,   \* bound: markers ever added
  MaxCalls,    \* [Http -> Nat], bound: calls per HTTP session
  MaySignal    \* whether the run includes SIGINT

ASSUME PlacesAssumption ==
  /\ Strand \notin Http
  /\ NoImage \notin Image
  /\ Threads \in Nat \ {0}
  /\ MaxPlaces \in Nat
  /\ MaxCalls \in [Http -> Nat]
  /\ MaySignal \in BOOLEAN

Id == 1 .. MaxPlaces
Proc == Http \cup {Strand}

VARIABLES
  m_last_place_id,
  m_places,   \* id -> [image, scheduled], for the stored markers
  m_timer,    \* "armed" | "off": the five-second timer
  timers,     \* id -> deletion timers armed for it
  strand,     \* handlers posted to the strand, first in first out
  pc,         \* process -> where its handler is
  target,     \* process -> the id its DeletePlaceById works on
  left,       \* markers that the running Timeout has still to visit
  request,    \* HTTP session -> the call it is making
  future,     \* HTTP session -> the value of the future it waits for
  calls,      \* bound: HTTP session -> calls so far
  told,       \* id -> the last method broadcast about it
  ioc         \* "running" | "stopped": the io_context

markerVars == <<m_last_place_id, m_places>>
timerVars == <<m_timer, timers>>
callVars == <<request, future, calls>>
placesVars == <<markerVars, timerVars, strand, pc, target, left, callVars, told, ioc>>

Store == INSTANCE MarkerStore
  WITH store <- [i \in DOMAIN m_places |-> m_places[i].image],
       last <- m_last_place_id,
       call <- request,
       reply <- future

NoRequest == [op |-> "none"]
NoReply == [op |-> "none"]

Request == {[op |-> "add"]}
           \cup [op : {"image"}, id : Id, image : Image]
           \cup [op : {"get", "delete"}, id : Id]

Reply == [op : {"add"}, id : Id]
         \cup [op : {"image"}, added : BOOLEAN]
         \cup [op : {"get"}, image : Image \cup {NoImage}]

\* The handlers of the strand.  "call" is the lambda of the n-th call of h.
TimeoutHandler == [do |-> "timeout"]
Expiry(i) == [do |-> "expire", id |-> i]
Erasure(i) == [do |-> "erase", id |-> i]
CallOf(h, n, r) == [do |-> "call", from |-> h, serial |-> n, req |-> r]

Busy == {p \in Proc : pc[p] # "idle"}

\* A thread of the pool is free to start a handler or to see a timer expire.
ThreadFree == ioc = "running" /\ Cardinality(Busy) < Threads

-------------------------------------------------------------------------------
(* HTTP handlers, http_session::handle_request *)

Post(handler) == strand' = Append(strand, handler)

AddsToCome == {h \in Http : request[h].op = "add" /\ future[h] = NoReply}

\* add_place, upload_marker_image, get_marker_image, delete_marker.
CallManager(h) ==
  /\ ThreadFree
  /\ pc[h] = "idle"
  /\ calls[h] < MaxCalls[h]
  /\ calls' = [calls EXCEPT ![h] = @ + 1]
  /\ \E r \in Request :
       /\ r.op = "add" => m_last_place_id + Cardinality(AddsToCome) < MaxPlaces
       /\ request' = [request EXCEPT ![h] = r]
       /\ IF r.op = "delete"
          THEN /\ pc' = [pc EXCEPT ![h] = "broadcast"]
               /\ target' = [target EXCEPT ![h] = r.id]
               /\ UNCHANGED strand
          ELSE /\ pc' = [pc EXCEPT ![h] = "wait"]
               /\ Post(CallOf(h, calls'[h], r))
               /\ UNCHANGED target
  /\ UNCHANGED <<markerVars, timerVars, left, future, told, ioc>>

\* future.get() returns; GetPlaceImage waits five seconds at most, and then
\* leaves its lambda behind.  The thread is blocked until then: no handler of
\* another strand can run on it, and ioc.stop() does not wake it.
FutureReady(h) ==
  /\ pc[h] = "wait"
  /\ future[h] # NoReply \/ request[h].op = "get"
  /\ request' = [request EXCEPT ![h] = NoRequest]
  /\ future' = [future EXCEPT ![h] = NoReply]
  /\ pc' = [pc EXCEPT ![h] = "idle"]
  /\ UNCHANGED <<markerVars, timerVars, strand, target, left, calls, told, ioc>>

-------------------------------------------------------------------------------
(* DeletePlaceById, called by an HTTP handler or by a deletion timer *)

DeleteBroadcast(p) ==
  /\ pc[p] = "broadcast"
  /\ told' = [told EXCEPT ![target[p]] = "delete_marker"]
  /\ pc' = [pc EXCEPT ![p] = "post"]
  /\ UNCHANGED <<markerVars, timerVars, strand, target, left, callVars, ioc>>

\* Fault: the deletion waits for its erasure as AddPlace does for its insertion,
\* and so waits for the strand on the strand when the marker's timer calls it.
DeletePostAndWait(p) ==
  /\ pc[p] = "post"
  /\ Post(Erasure(target[p]))
  /\ pc' = [pc EXCEPT ![p] = IF p = Strand THEN "wait" ELSE "idle"]
  /\ request' = [h \in Http |-> IF h = p THEN NoRequest ELSE request[h]]
  /\ UNCHANGED <<markerVars, timerVars, target, left, future, calls, told, ioc>>

\* Posting is the last thing the handler does but for its answer.
DeletePost(p) ==
  /\ pc[p] = "post"
  /\ Post(Erasure(target[p]))
  /\ pc' = [pc EXCEPT ![p] = "idle"]
  /\ request' = [h \in Http |-> IF h = p THEN NoRequest ELSE request[h]]
  /\ UNCHANGED <<markerVars, timerVars, target, left, future, calls, told, ioc>>

DeletePlaceById(p) == DeleteBroadcast(p) \/ DeletePost(p)

-------------------------------------------------------------------------------
(* Handlers of the strand that run without a break *)

\* The strand takes its next handler, "handler".
StartOnStrand(handler) ==
  /\ ThreadFree
  /\ pc[Strand] = "idle"
  /\ strand # <<>>
  /\ handler = Head(strand)
  /\ strand' = Tail(strand)

\* The promise of the n-th call of h; nobody looks at one that was given up.
SetValue(h, n, value) ==
  future' = [future EXCEPT ![h] = IF pc[h] = "wait" /\ calls[h] = n THEN value ELSE @]

AddPlace ==
  \E h \in Http : \E n \in 1 .. MaxCalls[h] :
    /\ StartOnStrand(CallOf(h, n, [op |-> "add"]))
    /\ m_last_place_id' = m_last_place_id + 1
    /\ m_places' = [i \in DOMAIN m_places \cup {m_last_place_id'} |->
                      IF i = m_last_place_id'
                      THEN [image |-> NoImage, scheduled |-> FALSE] ELSE m_places[i]]
    /\ SetValue(h, n, [op |-> "add", id |-> m_last_place_id'])
    /\ UNCHANGED <<timerVars, pc, target, left, request, calls, told, ioc>>

\* Fault: operator[] without the contains() before it.
AddPlaceImageUnchecked ==
  \E h \in Http : \E n \in 1 .. MaxCalls[h], i \in Id, image \in Image :
    /\ StartOnStrand(CallOf(h, n, [op |-> "image", id |-> i, image |-> image]))
    /\ m_places' = [k \in DOMAIN m_places \cup {i} |->
                      IF k = i
                      THEN [image |-> image,
                            scheduled |-> i \in DOMAIN m_places /\ m_places[i].scheduled]
                      ELSE m_places[k]]
    /\ SetValue(h, n, [op |-> "image", added |-> TRUE])
    /\ UNCHANGED <<m_last_place_id, timerVars, pc, target, left, request, calls, told, ioc>>

AddPlaceImage ==
  \E h \in Http : \E n \in 1 .. MaxCalls[h], i \in Id, image \in Image :
    /\ StartOnStrand(CallOf(h, n, [op |-> "image", id |-> i, image |-> image]))
    /\ m_places' = IF i \in DOMAIN m_places
                   THEN [m_places EXCEPT ![i].image = image] ELSE m_places
    /\ SetValue(h, n, [op |-> "image", added |-> i \in DOMAIN m_places])
    /\ UNCHANGED <<m_last_place_id, timerVars, pc, target, left, request, calls, told, ioc>>

GetPlaceImage ==
  \E h \in Http : \E n \in 1 .. MaxCalls[h], i \in Id :
    /\ StartOnStrand(CallOf(h, n, [op |-> "get", id |-> i]))
    /\ SetValue(h, n, [op |-> "get",
                       image |-> IF i \in DOMAIN m_places THEN m_places[i].image ELSE NoImage])
    /\ UNCHANGED <<markerVars, timerVars, pc, target, left, request, calls, told, ioc>>

\* The lambda of DeletePlaceById: erase of an id that is not there is allowed.
ErasePlace ==
  \E i \in Id :
    /\ StartOnStrand(Erasure(i))
    /\ m_places' = [k \in DOMAIN m_places \ {i} |-> m_places[k]]
    /\ UNCHANGED <<m_last_place_id, timerVars, pc, target, left, callVars, told, ioc>>

-------------------------------------------------------------------------------
(* Timeout and ScheduleTimeout *)

TimerElapsed ==
  /\ ThreadFree
  /\ m_timer = "armed"
  /\ m_timer' = "off"
  /\ Post(TimeoutHandler)
  /\ UNCHANGED <<markerVars, timers, pc, target, left, callVars, told, ioc>>

Timeout ==
  /\ StartOnStrand(TimeoutHandler)
  /\ pc' = [pc EXCEPT ![Strand] = "draw"]
  /\ left' = DOMAIN m_places
  /\ UNCHANGED <<markerVars, timerVars, target, callVars, told, ioc>>

\* Fault: the flag is not set, so every Timeout starts a deletion timer.
DrawMarkerReschedules ==
  /\ pc[Strand] = "draw"
  /\ \E i \in left :
       /\ left' = left \ {i}
       /\ timers' = [timers EXCEPT ![i] = IF m_places[i].scheduled THEN @ ELSE @ + 1]
       /\ told' = [told EXCEPT ![i] = "draw_marker"]
  /\ UNCHANGED <<markerVars, m_timer, strand, pc, target, callVars, ioc>>

\* Fault: the flag is set and the deletion timer is forgotten.
DrawMarkerNeverExpires ==
  /\ pc[Strand] = "draw"
  /\ \E i \in left :
       /\ left' = left \ {i}
       /\ m_places' = [m_places EXCEPT ![i].scheduled = TRUE]
       /\ told' = [told EXCEPT ![i] = "draw_marker"]
  /\ UNCHANGED <<m_last_place_id, timerVars, strand, pc, target, callVars, ioc>>

\* One round of the loop over m_places: ScheduleDelition if it is the first
\* one for this marker, and the broadcast of draw_marker.
DrawMarker ==
  /\ pc[Strand] = "draw"
  /\ \E i \in left :
       /\ left' = left \ {i}
       /\ timers' = [timers EXCEPT ![i] = IF m_places[i].scheduled THEN @ ELSE @ + 1]
       /\ m_places' = [m_places EXCEPT ![i].scheduled = TRUE]
       /\ told' = [told EXCEPT ![i] = "draw_marker"]
  /\ UNCHANGED <<m_last_place_id, m_timer, strand, pc, target, callVars, ioc>>

\* Fault: ScheduleTimeout is called only while there are markers.
ScheduleTimeoutIfAny ==
  /\ pc[Strand] = "draw"
  /\ left = {}
  /\ m_timer' = IF DOMAIN m_places = {} THEN "off" ELSE "armed"
  /\ pc' = [pc EXCEPT ![Strand] = "idle"]
  /\ UNCHANGED <<markerVars, timers, strand, target, left, callVars, told, ioc>>

ScheduleTimeout ==
  /\ pc[Strand] = "draw"
  /\ left = {}
  /\ m_timer' = "armed"
  /\ pc' = [pc EXCEPT ![Strand] = "idle"]
  /\ UNCHANGED <<markerVars, timers, strand, target, left, callVars, told, ioc>>

-------------------------------------------------------------------------------
(* The timers of ScheduleDelition *)

DeletionTimerElapsed(i) ==
  /\ ThreadFree
  /\ timers[i] > 0
  /\ timers' = [timers EXCEPT ![i] = @ - 1]
  /\ Post(Expiry(i))
  /\ UNCHANGED <<markerVars, m_timer, pc, target, left, callVars, told, ioc>>

\* The timer's handler calls DeletePlaceById on the strand.
ExpirePlace ==
  \E i \in Id :
    /\ StartOnStrand(Expiry(i))
    /\ pc' = [pc EXCEPT ![Strand] = "broadcast"]
    /\ target' = [target EXCEPT ![Strand] = i]
    /\ UNCHANGED <<markerVars, timerVars, left, callVars, told, ioc>>

-------------------------------------------------------------------------------

Stop ==
  /\ MaySignal
  /\ ioc = "running"
  /\ ioc' = "stopped"
  /\ UNCHANGED <<markerVars, timerVars, strand, pc, target, left, callVars, told>>

Init ==
  /\ m_last_place_id = 0
  /\ m_places = [i \in {} |-> NoImage]
  /\ m_timer = "armed"
  /\ timers = [i \in Id |-> 0]
  /\ strand = <<>>
  /\ pc = [p \in Proc |-> "idle"]
  /\ target = [p \in Proc |-> 0]
  /\ left = {}
  /\ request = [h \in Http |-> NoRequest]
  /\ future = [h \in Http |-> NoReply]
  /\ calls = [h \in Http |-> 0]
  /\ told = [i \in Id |-> "nothing"]
  /\ ioc = "running"

StrandStep ==
  \/ AddPlace \/ AddPlaceImage \/ GetPlaceImage \/ ErasePlace
  \/ Timeout \/ DrawMarker \/ ScheduleTimeout
  \/ ExpirePlace \/ DeletePlaceById(Strand)

HttpStep(h) == FutureReady(h) \/ DeletePlaceById(h)

Next ==
  \/ \E h \in Http : CallManager(h) \/ HttpStep(h)
  \/ StrandStep
  \/ TimerElapsed
  \/ \E i \in Id : DeletionTimerElapsed(i)
  \/ Stop

Spec == Init /\ [][Next]_placesVars

\* The threads keep running handlers, a value that is set is seen, and timers
\* expire.  Clients and signals are free.
Fairness ==
  /\ WF_placesVars(StrandStep)
  /\ \A h \in Http : WF_placesVars(HttpStep(h))
  /\ WF_placesVars(TimerElapsed)
  /\ \A i \in Id : WF_placesVars(DeletionTimerElapsed(i))

FairSpec == Spec /\ Fairness

-------------------------------------------------------------------------------
(* Types *)

Handler == {TimeoutHandler}
           \cup {Expiry(i) : i \in Id} \cup {Erasure(i) : i \in Id}
           \cup [do : {"call"}, from : Http, serial : Nat, req : Request]

\* Every variable holds a value of its C++ type; only ids that were given out
\* are stored.
TypeOK ==
  /\ m_last_place_id \in 0 .. MaxPlaces
  /\ DOMAIN m_places \subseteq 1 .. m_last_place_id
  /\ m_places \in [DOMAIN m_places -> [image : Image \cup {NoImage}, scheduled : BOOLEAN]]
  /\ m_timer \in {"armed", "off"}
  /\ timers \in [Id -> Nat]
  /\ strand \in Seq(Handler)
  /\ pc \in [Proc -> {"idle", "wait", "draw", "broadcast", "post"}]
  /\ target \in [Proc -> Id \cup {0}]
  /\ left \subseteq Id
  /\ request \in [Http -> Request \cup {NoRequest}]
  /\ future \in [Http -> Reply \cup {NoReply}]
  /\ calls \in [Http -> Nat]
  /\ told \in [Id -> {"nothing", "draw_marker", "delete_marker"}]
  /\ ioc \in {"running", "stopped"}

-------------------------------------------------------------------------------
(* The timers (PlacesManager.cpp:18-31, 120-169) *)

Posted(handler) == Cardinality({k \in DOMAIN strand : strand[k] = handler})

\* The five-second chain neither dies nor doubles: its timer is armed, or its
\* handler is posted, or Timeout is running, and only one of the three.
OneTick ==
  (IF m_timer = "armed" THEN 1 ELSE 0)
    + Posted(TimeoutHandler)
    + (IF pc[Strand] = "draw" THEN 1 ELSE 0) = 1

\* The expiries of marker i still to come: timers armed for it, handlers posted,
\* a handler running.
Expiring(i) ==
  timers[i] + Posted(Expiry(i))
    + (IF pc[Strand] \in {"broadcast", "post"} /\ target[Strand] = i THEN 1 ELSE 0)

\* A marker gets one deletion timer in its life, however often Timeout meets it,
\* and until the erasure it asks for is posted that expiry is not lost.
ExpiryOnce ==
  \A i \in Id :
    /\ Expiring(i) <= 1
    /\ i \in DOMAIN m_places /\ m_places[i].scheduled =>
         Expiring(i) = 1 \/ Posted(Erasure(i)) > 0

\* Every marker that is added is erased again: Timeout finds it and its timer
\* expires, whatever clients do meanwhile.
PlacesExpire ==
  \A i \in Id : (i \in DOMAIN m_places) ~> (i \notin DOMAIN m_places \/ ioc = "stopped")

-------------------------------------------------------------------------------
(* The callers (PlacesManager.cpp:35-102) *)

\* The strand, the promises and the futures together implement a store in which
\* each call takes effect at one instant.
Linearizable == Store!Spec

\* A request that calls the manager is answered.
RequestsAnswered ==
  \A h \in Http : (pc[h] # "idle") ~> (pc[h] = "idle" \/ ioc = "stopped")

\* After ioc.stop() every handler returns, so that the threads can be joined
\* (main.cpp:74-76, 93-95).  It does not hold: AddPlace and AddPlaceImage go on
\* waiting for a handler that run() will not start any more.
HandlersReturn == (ioc = "stopped") ~> (Busy = {})

===============================================================================
