--------------------------- MODULE PlacesStore_proofs ---------------------------
(***************************************************************************)
(* PlacesManager implements MarkerStore, for every set of HTTP sessions,   *)
(* every number of threads, markers and calls: a call of AddPlace,         *)
(* AddPlaceImage or GetPlaceImage takes effect when the strand runs its    *)
(* lambda, once, while its caller waits, and a lambda left behind by a     *)
(* caller that gave up has no effect at all.                               *)
(***************************************************************************)
EXTENDS PlacesManager_proofs

\* What the callers see of m_places.
StoreOf(places) == [i \in DOMAIN places |-> places[i].image]

LEMMA StoreVars == Store!storeVars = <<StoreOf(m_places), m_last_place_id, request, future>>
BY DEF Store!storeVars, StoreOf

\* The two modules have the same requests.
LEMMA SameNames ==
  /\ Store!NoRequest = NoRequest
  /\ Store!NoReply = NoReply
  /\ Store!Request = Request
BY DEF Store!NoRequest, Store!NoReply, Store!Request, NoRequest, NoReply, Request

LEMMA InitMaps == Init => Store!Init
<1> SUFFICES ASSUME Init PROVE Store!Init
  OBVIOUS
<1>1. DOMAIN m_places = {}
  BY DEF Init
<1>2. [i \in DOMAIN m_places |-> m_places[i].image] = [i \in {} |-> NoImage]
  BY <1>1
<1> QED
  BY <1>2, SameNames DEF Init, Store!Init

\* CallManager is the call.
LEMMA CallMaps ==
  ASSUME TypeInv, NEW h \in Http, CallManager(h)
  PROVE  Store!Call(h)
<1>1. /\ request[h] = NoRequest
      /\ \E r \in Request : request' = [request EXCEPT ![h] = r]
      /\ UNCHANGED <<m_places, m_last_place_id, future>>
  BY DEF CallManager, TypeInv, CallInv, Sessions, markerVars
<1> QED
  BY <1>1, SameNames DEF Store!Call

\* FutureReady is the return, that of delete the end of its handler.
LEMMA ReturnMaps ==
  ASSUME TypeInv, NEW h \in Http, FutureReady(h) \/ DeletePost(h)
  PROVE  Store!Return(h)
<1>1. TypeOK /\ Sessions
  BY DEF TypeInv, CallInv
<1>2. CASE FutureReady(h)
  <2>1. /\ request[h] # NoRequest
        /\ future[h] # NoReply \/ request[h].op \in {"get", "delete"}
        /\ request' = [request EXCEPT ![h] = NoRequest]
        /\ future' = [future EXCEPT ![h] = NoReply]
        /\ UNCHANGED <<m_places, m_last_place_id>>
    BY <1>1, <1>2, RequestKinds DEF FutureReady, Sessions, markerVars
  <2> QED
    BY <2>1, SameNames DEF Store!Return
<1>3. CASE DeletePost(h)
  <2>1. request[h].op = "delete" /\ future[h] = NoReply
    BY <1>1, <1>3 DEF DeletePost, Sessions
  <2>2. request' = [request EXCEPT ![h] = NoRequest]
    BY <1>1, <1>3 DEF DeletePost, TypeOK
  <2>3. future' = [future EXCEPT ![h] = NoReply]
    BY <1>1, <1>3, <2>1 DEF DeletePost, TypeOK
  <2>4. request[h] # NoRequest /\ UNCHANGED <<m_places, m_last_place_id>>
    BY <1>3, <2>1, RequestKinds DEF DeletePost, markerVars
  <2> QED
    BY <2>1, <2>2, <2>3, <2>4, SameNames DEF Store!Return
<1> QED
  BY <1>2, <1>3

\* A promise that is set: of the call that its caller waits for, or of none.
LEMMA ValueSet ==
  ASSUME TypeInv, NEW h \in Http, NEW n \in Nat, NEW r \in Request, NEW v,
         StartOnStrand(CallOf(h, n, r)), SetValue(h, n, v)
  PROVE  \/ /\ request[h] = r /\ future[h] = NoReply
            /\ future' = [future EXCEPT ![h] = v]
         \/ r.op = "get" /\ future' = future
<1>1. Awaited(CallOf(h, n, r))
  BY TakeHandler, HandlerKinds
<1>2. /\ pc[h] = "wait" /\ n = calls[h] => r = request[h] /\ future[h] = NoReply
      /\ r.op # "get" => pc[h] = "wait" /\ n = calls[h]
  BY <1>1, HandlerKinds DEF Awaited
<1>3. future \in [Http -> Reply \cup {NoReply}]
  BY DEF TypeInv, TypeOK
<1>4. CASE pc[h] = "wait" /\ calls[h] = n
  BY <1>2, <1>3, <1>4 DEF SetValue
<1>5. CASE ~ (pc[h] = "wait" /\ calls[h] = n)
  BY <1>2, <1>3, <1>5 DEF SetValue
<1> QED
  BY <1>4, <1>5

LEMMA AddMaps ==
  ASSUME TypeInv, AddPlace
  PROVE  \E h \in Http : Store!TakeEffect(h)
<1>1. PICK h \in Http, n \in Nat :
        /\ StartOnStrand(CallOf(h, n, [op |-> "add"]))
        /\ m_last_place_id' = m_last_place_id + 1
        /\ m_places' = [i \in DOMAIN m_places \cup {m_last_place_id'} |->
                          IF i = m_last_place_id'
                          THEN [image |-> NoImage, scheduled |-> FALSE] ELSE m_places[i]]
        /\ SetValue(h, n, [op |-> "add", id |-> m_last_place_id'])
        /\ UNCHANGED <<timerVars, pc, target, left, request, calls, told, ioc>>
  BY PlacesAssumption DEF AddPlace
<1> DEFINE r == [op |-> "add"]
           last == m_last_place_id'
           v == [op |-> "add", id |-> last]
<1>2. r \in Request /\ r.op = "add"
  BY DEF Request
<1>3. /\ request[h] = r /\ future[h] = NoReply
      /\ future' = [future EXCEPT ![h] = v]
  <2> HIDE DEF r, v
  <2> QED
    BY <1>1, <1>2, ValueSet DEF r, v
<1>4. StoreOf(m_places') = [i \in DOMAIN StoreOf(m_places) \cup {last} |->
                             IF i = last THEN NoImage ELSE StoreOf(m_places)[i]]
  <2>1. DOMAIN m_places' = DOMAIN m_places \cup {last}
    BY <1>1
  <2>2. \A i \in DOMAIN m_places' :
          m_places'[i].image = IF i = last THEN NoImage ELSE m_places[i].image
    BY <1>1
  <2> QED
    BY <2>1, <2>2 DEF StoreOf
<1>5. Store!Add(h)
  BY <1>1, <1>2, <1>3, <1>4 DEF Store!Add, StoreOf
<1> QED
  BY <1>1, <1>3, <1>5, SameNames DEF Store!TakeEffect

LEMMA SetImageMaps ==
  ASSUME TypeInv, AddPlaceImage
  PROVE  \E h \in Http : Store!TakeEffect(h)
<1>1. PICK h \in Http, n \in Nat, i \in Id, image \in Image :
        /\ StartOnStrand(CallOf(h, n, [op |-> "image", id |-> i, image |-> image]))
        /\ m_places' = IF i \in DOMAIN m_places
                       THEN [m_places EXCEPT ![i].image = image] ELSE m_places
        /\ SetValue(h, n, [op |-> "image", added |-> i \in DOMAIN m_places])
        /\ UNCHANGED <<m_last_place_id, timerVars, pc, target, left, request, calls, told, ioc>>
  <2>1. \A h \in Http : \A n \in 1 .. MaxCalls[h] : n \in Nat
    BY PlacesAssumption
  <2> QED
    BY <2>1, Zenon DEF AddPlaceImage
<1> DEFINE r == [op |-> "image", id |-> i, image |-> image]
           v == [op |-> "image", added |-> i \in DOMAIN m_places]
<1>2. r \in Request /\ r.op = "image" /\ r.id = i /\ r.image = image
  BY DEF Request
<1>3. /\ request[h] = r /\ future[h] = NoReply
      /\ future' = [future EXCEPT ![h] = v]
  <2> HIDE DEF r, v
  <2> QED
    BY <1>1, <1>2, ValueSet DEF r, v
<1>4. StoreOf(m_places') = [k \in DOMAIN StoreOf(m_places) |->
                             IF k = i THEN image ELSE StoreOf(m_places)[k]]
  <2>1. m_places \in [DOMAIN m_places -> [image : Image \cup {NoImage}, scheduled : BOOLEAN]]
    BY DEF TypeInv, TypeOK
  <2>2. DOMAIN m_places' = DOMAIN m_places
    BY <1>1
  <2>3. \A k \in DOMAIN m_places :
          m_places'[k].image = IF k = i THEN image ELSE m_places[k].image
    BY <1>1, <2>1
  <2> QED
    BY <2>2, <2>3 DEF StoreOf
<1>5. Store!SetImage(h)
  <2>1. request[h].op = "image" /\ request[h].id = i /\ request[h].image = image
    BY <1>2, <1>3
  <2>2. DOMAIN StoreOf(m_places) = DOMAIN m_places
    BY DEF StoreOf
  <2> QED
    BY <1>1, <1>3, <1>4, <2>1, <2>2 DEF Store!SetImage, StoreOf
<1> QED
  BY <1>1, <1>3, <1>5, SameNames DEF Store!TakeEffect

LEMMA GetMaps ==
  ASSUME TypeInv, GetPlaceImage
  PROVE  (\E h \in Http : Store!TakeEffect(h)) \/ UNCHANGED Store!storeVars
<1>1. PICK h \in Http, n \in Nat, i \in Id :
        /\ StartOnStrand(CallOf(h, n, [op |-> "get", id |-> i]))
        /\ SetValue(h, n, [op |-> "get",
                           image |-> IF i \in DOMAIN m_places THEN m_places[i].image ELSE NoImage])
        /\ UNCHANGED <<markerVars, timerVars, pc, target, left, request, calls, told, ioc>>
  BY PlacesAssumption DEF GetPlaceImage
<1> DEFINE r == [op |-> "get", id |-> i]
           v == [op |-> "get",
                 image |-> IF i \in DOMAIN m_places THEN m_places[i].image ELSE NoImage]
<1>2. r \in Request /\ r.op = "get" /\ r.id = i
  BY DEF Request
<1>3. \/ /\ request[h] = r /\ future[h] = NoReply
         /\ future' = [future EXCEPT ![h] = v]
      \/ future' = future
  <2> HIDE DEF r, v
  <2> QED
    BY <1>1, <1>2, ValueSet DEF r, v
<1>4. UNCHANGED <<m_places, m_last_place_id, request>>
  BY <1>1 DEF markerVars
<1>5. CASE future' = future
  BY <1>4, <1>5, StoreVars DEF Store!storeVars
<1>6. CASE request[h] = r /\ future[h] = NoReply /\ future' = [future EXCEPT ![h] = v]
  <2>1. request[h].op = "get" /\ request[h].id = i
    BY <1>2, <1>6
  <2>2. Store!ImageOf(i) = IF i \in DOMAIN m_places THEN m_places[i].image ELSE NoImage
    BY DEF Store!ImageOf
  <2>3. Store!Get(h)
    BY <1>4, <1>6, <2>1, <2>2 DEF Store!Get
  <2> QED
    BY <1>4, <1>6, <2>3, SameNames DEF Store!TakeEffect
<1> QED
  BY <1>3, <1>5, <1>6

\* An erasure makes a marker vanish, or finds none.
LEMMA EraseMaps ==
  ASSUME TypeInv, ErasePlace
  PROVE  Store!Vanish \/ UNCHANGED Store!storeVars
<1>1. PICK i \in Id :
        /\ m_places' = [k \in DOMAIN m_places \ {i} |-> m_places[k]]
        /\ UNCHANGED <<m_last_place_id, request, future>>
  BY DEF ErasePlace, callVars
<1>2. CASE i \in DOMAIN m_places
  <2>1. StoreOf(m_places') = [k \in DOMAIN StoreOf(m_places) \ {i} |-> StoreOf(m_places)[k]]
    BY <1>1 DEF StoreOf
  <2>2. i \in DOMAIN StoreOf(m_places)
    BY <1>2 DEF StoreOf
  <2> QED
    BY <1>1, <2>1, <2>2 DEF Store!Vanish, StoreOf
<1>3. CASE i \notin DOMAIN m_places
  <2>1. m_places \in [DOMAIN m_places -> [image : Image \cup {NoImage}, scheduled : BOOLEAN]]
    BY DEF TypeInv, TypeOK
  <2>2. m_places' = m_places
    BY <1>1, <1>3, <2>1
  <2> QED
    BY <1>1, <2>2 DEF Store!storeVars
<1> QED
  BY <1>2, <1>3

\* Timers and broadcasts are invisible to the callers: they may set the flag of
\* a marker, but they touch no image.
LEMMA DrawMaps ==
  ASSUME TypeInv, DrawMarker
  PROVE  UNCHANGED Store!storeVars
<1>1. PICK i \in left : m_places' = [m_places EXCEPT ![i].scheduled = TRUE]
  BY DEF DrawMarker
<1>2. m_places \in [DOMAIN m_places -> [image : Image \cup {NoImage}, scheduled : BOOLEAN]]
  BY DEF TypeInv, TypeOK
<1>3. /\ DOMAIN m_places' = DOMAIN m_places
      /\ \A k \in DOMAIN m_places : m_places'[k].image = m_places[k].image
  BY <1>1, <1>2
<1>4. StoreOf(m_places') = StoreOf(m_places)
  BY <1>3 DEF StoreOf
<1> QED
  BY <1>4 DEF DrawMarker, Store!storeVars, StoreOf, callVars

LEMMA NextMaps == TypeInv /\ [Next]_placesVars => [Store!Next]_(Store!storeVars)
<1> SUFFICES ASSUME TypeInv, [Next]_placesVars PROVE [Store!Next]_(Store!storeVars)
  OBVIOUS
<1>1. ASSUME UNCHANGED <<markerVars, request, future>> PROVE UNCHANGED Store!storeVars
  BY <1>1 DEF Store!storeVars, markerVars
<1>2. ASSUME NEW h \in Http, CallManager(h) \/ HttpStep(h)
      PROVE  [Store!Next]_(Store!storeVars)
  <2>1. CASE DeleteBroadcast(h)
    BY <1>1, <2>1 DEF DeleteBroadcast, callVars
  <2> QED
    BY <1>2, <2>1, CallMaps, ReturnMaps DEF HttpStep, DeletePlaceById, Store!Next
<1>3. CASE AddPlace \/ AddPlaceImage \/ GetPlaceImage \/ ErasePlace \/ DrawMarker
  BY <1>3, AddMaps, SetImageMaps, GetMaps, EraseMaps, DrawMaps DEF Store!Next
<1>4. CASE DeletePlaceById(Strand)
  <2>1. CASE DeleteBroadcast(Strand)
    BY <1>1, <2>1 DEF DeleteBroadcast, callVars
  <2>2. CASE DeletePost(Strand)
    <3>1. request' = request
      BY <2>2, PlacesAssumption DEF DeletePost, TypeInv, TypeOK
    <3> QED
      BY <1>1, <2>2, <3>1 DEF DeletePost
  <2> QED
    BY <1>4, <2>1, <2>2 DEF DeletePlaceById
<1>5. CASE Timeout \/ ScheduleTimeout \/ ExpirePlace
  BY <1>1, <1>5 DEF Timeout, ScheduleTimeout, ExpirePlace, callVars
<1>6. CASE TimerElapsed \/ (\E i \in Id : DeletionTimerElapsed(i)) \/ Stop
  BY <1>1, <1>6 DEF TimerElapsed, DeletionTimerElapsed, Stop, callVars
<1>7. CASE UNCHANGED placesVars
  BY <1>1, <1>7 DEF placesVars, callVars
<1> QED
  BY <1>2, <1>3, <1>4, <1>5, <1>6, <1>7 DEF Next, StrandStep

\* The strand, the promises and the futures implement a store of markers in
\* which every call takes effect at one instant (PlacesManager.cpp:35-102).
THEOREM ImplementsMarkerStore == Spec => Linearizable
<1>1. Init => Store!Init
  BY InitMaps
<1>2. TypeInv /\ [Next]_placesVars => [Store!Next]_(Store!storeVars)
  BY NextMaps
<1>3. Init /\ [][Next]_placesVars => []TypeInv
  BY PlacesTypeInvariant DEF Spec
<1> QED
  BY <1>1, <1>2, <1>3, PTL DEF Spec, Linearizable, Store!Spec

===============================================================================
