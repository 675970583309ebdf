-------------------------- MODULE PlacesManager_proofs --------------------------
(***************************************************************************)
(* Theorems about PlacesManager, for every set of HTTP sessions, every     *)
(* number of threads, markers and calls: the types, the chain of the       *)
(* five-second timer, and the one deletion timer of each marker.           *)
(***************************************************************************)
EXTENDS PlacesManager, FiniteSetTheorems, SequenceTheorems, TLAPS

-------------------------------------------------------------------------------
(* How often a handler is posted *)

Places(s, x) == {k \in DOMAIN s : s[k] = x}
Count(s, x) == Cardinality(Places(s, x))

\* A sequence holds a value finitely often.
LEMMA CountType ==
  ASSUME NEW S, NEW s \in Seq(S), NEW x
  PROVE  /\ IsFiniteSet(Places(s, x))
         /\ Count(s, x) \in Nat
         /\ s = <<>> => Count(s, x) = 0
<1>1. DOMAIN s = 1 .. Len(s) /\ Len(s) \in Nat
  BY LenProperties
<1>2. IsFiniteSet(1 .. Len(s))
  BY <1>1, FS_Interval
<1>3. Places(s, x) \in SUBSET (1 .. Len(s))
  BY <1>1 DEF Places
<1>4. IsFiniteSet(Places(s, x))
  BY <1>2, <1>3, FS_Subset
<1>5. s = <<>> => Places(s, x) = {}
  BY <1>1, <1>3, EmptySeq
<1> QED
  BY <1>4, <1>5, FS_CardinalityType, FS_EmptySet DEF Count

\* Append counts its value once more and no other.
LEMMA CountAppend ==
  ASSUME NEW S, NEW s \in Seq(S), NEW e \in S, NEW x
  PROVE  Count(Append(s, e), x) = Count(s, x) + (IF e = x THEN 1 ELSE 0)
<1> DEFINE t == Append(s, e)
<1>1. /\ Len(s) \in Nat
      /\ DOMAIN s = 1 .. Len(s)
      /\ DOMAIN t = 1 .. Len(s) + 1
      /\ \A i \in 1 .. Len(s) : t[i] = s[i]
      /\ t[Len(s) + 1] = e
  BY AppendProperties, LenProperties
<1>2. IsFiniteSet(Places(s, x)) /\ Count(s, x) \in Nat
  BY CountType
<1>3. Len(s) + 1 \notin Places(s, x)
  BY <1>1 DEF Places
<1>4. CASE e = x
  <2>1. Places(t, x) = Places(s, x) \cup {Len(s) + 1}
    BY <1>1, <1>4 DEF Places
  <2> QED
    BY <1>2, <1>3, <1>4, <2>1, FS_AddElement DEF Count
<1>5. CASE e # x
  <2>1. Places(t, x) = Places(s, x)
    BY <1>1, <1>5 DEF Places
  <2> QED
    BY <1>2, <1>5, <2>1 DEF Count
<1> QED
  BY <1>4, <1>5

\* Tail gives up one of the head's value and no other.
LEMMA CountTail ==
  ASSUME NEW S, NEW s \in Seq(S), s # <<>>, NEW x
  PROVE  Count(s, x) = Count(Tail(s), x) + (IF Head(s) = x THEN 1 ELSE 0)
<1> DEFINE t == Tail(s)
           P == Places(s, x) \ {1}
           shift == [k \in Places(t, x) |-> k + 1]
<1>1. /\ Len(s) \in Nat \ {0}
      /\ DOMAIN s = 1 .. Len(s)
      /\ t \in Seq(S)
      /\ DOMAIN t = 1 .. Len(s) - 1
      /\ \A i \in 1 .. Len(s) - 1 : t[i] = s[i + 1]
      /\ Head(s) = s[1]
  BY HeadTailProperties, LenProperties, EmptySeq
<1>2. /\ IsFiniteSet(Places(t, x)) /\ Count(t, x) \in Nat
      /\ IsFiniteSet(Places(s, x)) /\ Count(s, x) \in Nat
  BY <1>1, CountType
<1>3. Cardinality(P) = Count(t, x)
  <2>1. \A k \in Places(t, x) : k \in 1 .. Len(s) - 1 /\ k + 1 \in P
    BY <1>1 DEF Places
  <2>2. \A k \in P : k - 1 \in Places(t, x) /\ shift[k - 1] = k
    BY <1>1 DEF Places
  <2>3. shift \in [Places(t, x) -> P]
    BY <2>1
  <2>4. \A a, b \in Places(t, x) : shift[a] = shift[b] => a = b
    BY <1>1, <2>1
  <2>5. \A k \in P : \E a \in Places(t, x) : shift[a] = k
    BY <2>2
  <2>6. shift \in Bijection(Places(t, x), P)
    <3>1. shift \in Injection(Places(t, x), P)
      BY <2>3, <2>4 DEF Injection, IsInjective
    <3>2. shift \in Surjection(Places(t, x), P)
      BY <2>3, <2>5 DEF Surjection
    <3> QED
      BY <3>1, <3>2 DEF Bijection
  <2>7. ExistsBijection(Places(t, x), P)
    BY <2>6 DEF ExistsBijection
  <2> QED
    BY <1>2, <2>7, FS_Bijection DEF Count
<1>4. 1 \in Places(s, x) <=> Head(s) = x
  BY <1>1 DEF Places
<1>5. Cardinality(P) = IF 1 \in Places(s, x) THEN Count(s, x) - 1 ELSE Count(s, x)
  BY <1>2, FS_RemoveElement DEF Count
<1> QED
  BY <1>2, <1>3, <1>4, <1>5

-------------------------------------------------------------------------------
(* The inductive invariant *)

\* The lambda of an HTTP call, as opposed to the strand's own handlers.
IsLambda(x) == x.do = "call"

\* A session has a request, and a value in its future, only while it waits; the
\* strand itself never waits; who deletes knows what.
Sessions ==
  /\ pc[Strand] # "wait"
  /\ \A h \in Http :
       /\ pc[h] # "draw"
       /\ pc[h] = "idle" => request[h] = NoRequest /\ future[h] = NoReply
       /\ pc[h] = "wait" => request[h] \in Request /\ request[h].op # "delete"
       /\ pc[h] \in {"broadcast", "post"} => request[h].op = "delete" /\ future[h] = NoReply
  /\ \A p \in Proc : pc[p] \in {"broadcast", "post"} => target[p] \in Id

\* A posted lambda is that of a call made; if its caller still waits for it then
\* it carries the caller's request and the future is empty.  Only get gives up.
Awaited(c) ==
  /\ c.serial \in 1 .. calls[c.from]
  /\ pc[c.from] = "wait" /\ c.serial = calls[c.from] =>
       c.req = request[c.from] /\ future[c.from] = NoReply
  /\ c.req.op # "get" => pc[c.from] = "wait" /\ c.serial = calls[c.from]

\* The same of the next state, about a lambda of this one.
AwaitedNext(c) ==
  /\ c.serial \in 1 .. calls'[c.from]
  /\ pc'[c.from] = "wait" /\ c.serial = calls'[c.from] =>
       c.req = request'[c.from] /\ future'[c.from] = NoReply
  /\ c.req.op # "get" => pc'[c.from] = "wait" /\ c.serial = calls'[c.from]

LambdasAwaited == \A k \in DOMAIN strand : IsLambda(strand[k]) => Awaited(strand[k])

\* A call is posted once.
LambdasDistinct ==
  \A j, k \in DOMAIN strand :
    /\ IsLambda(strand[j]) /\ IsLambda(strand[k])
    /\ strand[j].from = strand[k].from /\ strand[j].serial = strand[k].serial
    => j = k

\* Every add_place that is still to come has an id left.
AddsFit ==
  /\ IsFiniteSet(AddsToCome)
  /\ m_last_place_id + Cardinality(AddsToCome) <= MaxPlaces

\* The loop of Timeout meets stored markers only.
LoopInMap ==
  /\ left \subseteq DOMAIN m_places
  /\ pc[Strand] # "draw" => left = {}

\* A marker that is not scheduled, or not given out yet, has no expiry to come.
Unscheduled ==
  \A i \in Id :
    \/ i \in DOMAIN m_places /\ ~ m_places[i].scheduled
    \/ i > m_last_place_id
    => Expiring(i) = 0

CallInv == Sessions /\ LambdasAwaited /\ LambdasDistinct /\ AddsFit
TypeInv == TypeOK /\ LoopInMap /\ CallInv
PlacesInv == TypeInv /\ OneTick /\ ExpiryOnce /\ Unscheduled

-------------------------------------------------------------------------------
(* Requests, replies, handlers *)

\* A request is told by its op.
LEMMA RequestKinds ==
  /\ NoRequest \notin Request /\ NoRequest.op = "none"
  /\ \A r \in Request :
       /\ r.op \in {"add", "image", "get", "delete"}
       /\ r.op = "add" => r = [op |-> "add"]
       /\ r.op # "add" => r.id \in Id
BY DEF Request, NoRequest

\* A result is not the empty future.
LEMMA ReplyKinds ==
  /\ NoReply \notin Reply
  /\ \A i \in Id : [op |-> "add", id |-> i] \in Reply
  /\ \A b \in BOOLEAN : [op |-> "image", added |-> b] \in Reply
  /\ \A im \in Image \cup {NoImage} : [op |-> "get", image |-> im] \in Reply
BY DEF Reply, NoReply

\* The handlers of the strand, and what tells them apart.
LEMMA HandlerKinds ==
  /\ TimeoutHandler \in Handler /\ ~ IsLambda(TimeoutHandler)
  /\ \A i \in Id : Expiry(i) \in Handler /\ ~ IsLambda(Expiry(i))
  /\ \A i \in Id : Erasure(i) \in Handler /\ ~ IsLambda(Erasure(i))
  /\ \A h, n, r :
       /\ IsLambda(CallOf(h, n, r))
       /\ CallOf(h, n, r).from = h
       /\ CallOf(h, n, r).serial = n
       /\ CallOf(h, n, r).req = r
  /\ \A h \in Http, n \in Nat, r \in Request : CallOf(h, n, r) \in Handler
  /\ \A x \in Handler :
       IsLambda(x) => x.from \in Http /\ x.serial \in Nat /\ x.req \in Request
<1>1. TimeoutHandler \in Handler /\ ~ IsLambda(TimeoutHandler)
  BY DEF Handler, TimeoutHandler, IsLambda
<1>2. \A i \in Id : Expiry(i) \in Handler /\ ~ IsLambda(Expiry(i))
  <2>1. \A i \in Id : Expiry(i).do = "expire"
    BY DEF Expiry
  <2> QED
    BY <2>1 DEF Handler, IsLambda
<1>3. \A i \in Id : Erasure(i) \in Handler /\ ~ IsLambda(Erasure(i))
  <2>1. \A i \in Id : Erasure(i).do = "erase"
    BY DEF Erasure
  <2> QED
    BY <2>1 DEF Handler, IsLambda
<1>4. \A h, n, r : /\ IsLambda(CallOf(h, n, r))
                  /\ CallOf(h, n, r).from = h
                  /\ CallOf(h, n, r).serial = n
                  /\ CallOf(h, n, r).req = r
  BY DEF CallOf, IsLambda
<1>5. \A h \in Http, n \in Nat, r \in Request : CallOf(h, n, r) \in Handler
  BY DEF Handler, CallOf
<1>6. \A x \in Handler :
        IsLambda(x) => x.from \in Http /\ x.serial \in Nat /\ x.req \in Request
  <2> SUFFICES ASSUME NEW x \in Handler, IsLambda(x)
               PROVE  x \in [do : {"call"}, from : Http, serial : Nat, req : Request]
    OBVIOUS
  <2> QED
    BY <1>1, <1>2, <1>3 DEF Handler
<1> QED
  BY <1>1, <1>2, <1>3, <1>4, <1>5, <1>6

\* No handler of one kind is one of another.
LEMMA HandlersDiffer ==
  \A i, j \in Id :
    /\ TimeoutHandler # Expiry(i) /\ TimeoutHandler # Erasure(i) /\ Expiry(i) # Erasure(j)
    /\ Expiry(i) = Expiry(j) <=> i = j
    /\ Erasure(i) = Erasure(j) <=> i = j
    /\ \A h, n, r : /\ CallOf(h, n, r) # TimeoutHandler
                    /\ CallOf(h, n, r) # Expiry(i)
                    /\ CallOf(h, n, r) # Erasure(i)
<1>1. TimeoutHandler.do = "timeout" /\ \A h, n, r : CallOf(h, n, r).do = "call"
  BY DEF TimeoutHandler, CallOf
<1>2. \A i \in Id : /\ Expiry(i).do = "expire" /\ Expiry(i).id = i
                    /\ Erasure(i).do = "erase" /\ Erasure(i).id = i
  BY DEF Expiry, Erasure
<1> QED
  BY <1>1, <1>2

-------------------------------------------------------------------------------
(* What a step does to the posted lambdas *)

\* What a waiting session waits for is untouched: its call, its request, its
\* future.
WaitersKept ==
  /\ calls' = calls
  /\ \A h \in Http :
       /\ pc'[h] = "wait" <=> pc[h] = "wait"
       /\ pc[h] = "wait" => request'[h] = request[h] /\ future'[h] = future[h]

\* A handler of the strand's own is posted.
LEMMA PostOther ==
  ASSUME TypeInv, NEW x \in Handler, ~ IsLambda(x), Post(x), WaitersKept
  PROVE  strand' \in Seq(Handler) /\ LambdasAwaited' /\ LambdasDistinct'
<1>1. strand \in Seq(Handler) /\ LambdasAwaited /\ LambdasDistinct
  BY DEF TypeInv, TypeOK, CallInv
<1>2. /\ Len(strand) \in Nat
      /\ DOMAIN strand = 1 .. Len(strand)
      /\ strand' \in Seq(Handler)
      /\ DOMAIN strand' = 1 .. Len(strand) + 1
      /\ \A k \in 1 .. Len(strand) : strand'[k] = strand[k]
      /\ strand'[Len(strand) + 1] = x
  BY <1>1, AppendProperties, LenProperties DEF Post
<1>3. \A k \in DOMAIN strand' :
        IsLambda(strand'[k]) => k \in DOMAIN strand /\ strand'[k] = strand[k]
  BY <1>2
<1>4. \A k \in DOMAIN strand : IsLambda(strand[k]) => strand[k].from \in Http
  BY <1>1, <1>2, ElementOfSeq, HandlerKinds
<1>5. LambdasAwaited'
  BY <1>1, <1>3, <1>4 DEF LambdasAwaited, Awaited, WaitersKept
<1>6. LambdasDistinct'
  BY <1>1, <1>3 DEF LambdasDistinct
<1> QED
  BY <1>2, <1>5, <1>6

\* The strand takes a handler.
LEMMA TakeHandler ==
  ASSUME TypeInv, NEW x, StartOnStrand(x)
  PROVE  /\ strand' \in Seq(Handler)
         /\ x \in Handler
         /\ IsLambda(x) => Awaited(x)
         /\ \A k \in DOMAIN strand' :
              /\ k + 1 \in DOMAIN strand /\ strand'[k] = strand[k + 1]
              /\ strand'[k] \in Handler
              /\ IsLambda(x) /\ IsLambda(strand'[k]) =>
                   ~ (x.from = strand'[k].from /\ x.serial = strand'[k].serial)
         /\ LambdasDistinct'
<1>1. strand \in Seq(Handler) /\ LambdasAwaited /\ LambdasDistinct
  BY DEF TypeInv, TypeOK, CallInv
<1>2. /\ Len(strand) \in Nat \ {0}
      /\ DOMAIN strand = 1 .. Len(strand)
      /\ strand' \in Seq(Handler)
      /\ DOMAIN strand' = 1 .. Len(strand) - 1
      /\ \A k \in 1 .. Len(strand) - 1 : strand'[k] = strand[k + 1]
      /\ x = strand[1]
  BY <1>1, HeadTailProperties, LenProperties, EmptySeq DEF StartOnStrand
<1>3. \A k \in DOMAIN strand' : k + 1 \in DOMAIN strand /\ strand'[k] = strand[k + 1]
  BY <1>2
<1>4. x \in Handler /\ 1 \in DOMAIN strand
  BY <1>1, <1>2, ElementOfSeq
<1>5. \A k \in DOMAIN strand' : strand'[k] \in Handler
  BY <1>1, <1>2, <1>3, ElementOfSeq
<1>6. IsLambda(x) => Awaited(x)
  BY <1>1, <1>2, <1>4 DEF LambdasAwaited
<1>7. \A k \in DOMAIN strand' :
        IsLambda(x) /\ IsLambda(strand'[k]) =>
          ~ (x.from = strand'[k].from /\ x.serial = strand'[k].serial)
  <2> SUFFICES ASSUME NEW k \in DOMAIN strand', IsLambda(x), IsLambda(strand'[k]),
                      x.from = strand'[k].from, x.serial = strand'[k].serial
               PROVE  FALSE
    OBVIOUS
  <2>1. 1 = k + 1
    BY <1>1, <1>2, <1>3, <1>4 DEF LambdasDistinct
  <2> QED
    BY <1>2, <2>1
<1>8. LambdasDistinct'
  <2> SUFFICES ASSUME NEW j \in DOMAIN strand', NEW k \in DOMAIN strand',
                      IsLambda(strand'[j]), IsLambda(strand'[k]),
                      strand'[j].from = strand'[k].from,
                      strand'[j].serial = strand'[k].serial
               PROVE  j = k
    BY DEF LambdasDistinct
  <2>1. j + 1 = k + 1
    BY <1>1, <1>3 DEF LambdasDistinct
  <2> QED
    BY <1>2, <2>1
<1> QED
  BY <1>2, <1>3, <1>4, <1>5, <1>6, <1>7, <1>8

\* The strand takes a handler of its own.
LEMMA TakeOther ==
  ASSUME TypeInv, NEW x, StartOnStrand(x), WaitersKept
  PROVE  strand' \in Seq(Handler) /\ LambdasAwaited' /\ LambdasDistinct'
<1>1. LambdasAwaited
  BY DEF TypeInv, CallInv
<1>2. \A k \in DOMAIN strand' :
        IsLambda(strand'[k]) => strand'[k].from \in Http /\ Awaited(strand'[k])
  BY <1>1, TakeHandler, HandlerKinds DEF LambdasAwaited
<1>3. LambdasAwaited'
  BY <1>2 DEF LambdasAwaited, Awaited, WaitersKept
<1> QED
  BY <1>3, TakeHandler

\* The strand takes the lambda of a call and sets its promise.
LEMMA TakeLambda ==
  ASSUME TypeInv, NEW h \in Http, NEW n \in Nat, NEW r \in Request, NEW v \in Reply,
         StartOnStrand(CallOf(h, n, r)), SetValue(h, n, v),
         UNCHANGED <<pc, target, request, calls>>
  PROVE  /\ strand' \in Seq(Handler)
         /\ LambdasAwaited' /\ LambdasDistinct'
         /\ future' \in [Http -> Reply \cup {NoReply}]
         /\ pc[h] = "wait" /\ calls[h] = n => request[h] = r /\ future[h] = NoReply
         /\ r.op # "get" => pc[h] = "wait" /\ calls[h] = n
         /\ Sessions'
<1> DEFINE x == CallOf(h, n, r)
<1>1. /\ future \in [Http -> Reply \cup {NoReply}]
      /\ LambdasAwaited /\ Sessions
  BY DEF TypeInv, TypeOK, CallInv
<1>2. /\ IsLambda(x)
      /\ x.from = h /\ x.serial = n /\ x.req = r
  BY HandlerKinds
<1>3. /\ pc[h] = "wait" /\ calls[h] = n => request[h] = r /\ future[h] = NoReply
      /\ r.op # "get" => pc[h] = "wait" /\ calls[h] = n
  <2>1. Awaited(x)
    BY <1>2, TakeHandler
  <2> HIDE DEF x
  <2> QED
    BY <1>2, <2>1 DEF Awaited
<1>4. future' \in [Http -> Reply \cup {NoReply}]
  BY <1>1 DEF SetValue
<1>5. \A g \in Http : future'[g] = IF g = h /\ pc[h] = "wait" /\ calls[h] = n
                                   THEN v ELSE future[g]
  BY <1>1 DEF SetValue
<1>6. LambdasAwaited'
  <2>1. \A k \in DOMAIN strand' :
          IsLambda(strand'[k]) =>
            /\ strand'[k].from \in Http /\ Awaited(strand'[k])
            /\ ~ (h = strand'[k].from /\ n = strand'[k].serial)
    <3> HIDE DEF x
    <3> QED
      BY <1>1, <1>2, TakeHandler, HandlerKinds DEF LambdasAwaited, x
  <2> QED
    BY <1>5, <2>1 DEF LambdasAwaited, Awaited
<1>7. Sessions'
  BY <1>1, <1>5 DEF Sessions
<1> QED
  BY <1>3, <1>4, <1>6, <1>7, TakeHandler

-------------------------------------------------------------------------------
(* The types: one lemma per action *)

\* The adds to come are those of sessions that wait.
LEMMA AddsKept ==
  ASSUME TypeInv, TypeOK', Sessions', WaitersKept, UNCHANGED m_last_place_id
  PROVE  AddsFit'
<1>1. \A h \in Http : request[h].op = "add" => pc[h] = "wait"
  BY RequestKinds DEF TypeInv, TypeOK, CallInv, Sessions, Proc
<1>2. \A h \in Http : request'[h].op = "add" => pc'[h] = "wait"
  BY RequestKinds DEF TypeOK, Sessions, Proc
<1>3. AddsToCome' = AddsToCome
  BY <1>1, <1>2 DEF WaitersKept, AddsToCome
<1> QED
  BY <1>3 DEF TypeInv, CallInv, AddsFit

LEMMA CallManagerTypes ==
  ASSUME TypeInv, NEW h \in Http, CallManager(h)
  PROVE  TypeInv'
<1> USE DEF Proc
<1>1. TypeOK /\ LoopInMap /\ Sessions /\ LambdasAwaited /\ LambdasDistinct /\ AddsFit
  BY DEF TypeInv, CallInv
<1>2. PICK r \in Request :
        /\ r.op = "add" => m_last_place_id + Cardinality(AddsToCome) < MaxPlaces
        /\ request' = [request EXCEPT ![h] = r]
        /\ IF r.op = "delete"
           THEN /\ pc' = [pc EXCEPT ![h] = "broadcast"]
                /\ target' = [target EXCEPT ![h] = r.id]
                /\ UNCHANGED strand
           ELSE /\ pc' = [pc EXCEPT ![h] = "wait"]
                /\ Post(CallOf(h, calls'[h], r))
                /\ UNCHANGED target
  BY DEF CallManager
<1>3. /\ pc[h] = "idle"
      /\ calls' = [calls EXCEPT ![h] = @ + 1]
      /\ UNCHANGED <<markerVars, timerVars, left, future, told, ioc>>
  BY DEF CallManager
<1>4. /\ h # Strand
      /\ calls[h] \in Nat /\ calls'[h] = calls[h] + 1 /\ calls' \in [Http -> Nat]
      /\ request[h] = NoRequest /\ future[h] = NoReply
      /\ r.op # "add" => r.id \in Id
  BY <1>1, <1>3, RequestKinds, PlacesAssumption DEF TypeOK, Sessions
<1> DEFINE x == CallOf(h, calls'[h], r)
<1>5. x \in Handler
  BY <1>4, HandlerKinds
<1>6. /\ strand' \in Seq(Handler)
      /\ pc' \in [Proc -> {"idle", "wait", "draw", "broadcast", "post"}]
      /\ target' \in [Proc -> Id \cup {0}]
      /\ request' \in [Http -> Request \cup {NoRequest}]
  <2>1. strand \in Seq(Handler)
    BY <1>1 DEF TypeOK
  <2>2. strand' = strand \/ Post(x)
    BY <1>2
  <2>3. strand' \in Seq(Handler)
    <3> HIDE DEF x
    <3> QED
      BY <1>5, <2>1, <2>2, AppendProperties DEF Post
  <2> QED
    BY <1>1, <1>2, <1>4, <2>3, RequestKinds DEF TypeOK
<1>7. TypeOK'
  BY <1>1, <1>3, <1>4, <1>6 DEF TypeOK, markerVars, timerVars
<1>8. LoopInMap'
  BY <1>1, <1>2, <1>3, <1>4 DEF LoopInMap, TypeOK, markerVars
<1>9. Sessions'
  <2>1. r.op = "delete" => r.id \in Id
    BY RequestKinds
  <2>2. /\ request'[h] = r /\ future'[h] = NoReply
        /\ pc'[h] = IF r.op = "delete" THEN "broadcast" ELSE "wait"
        /\ pc'[h] = "broadcast" => target'[h] \in Id
    BY <1>1, <1>2, <1>3, <1>4, <2>1 DEF TypeOK
  <2>3. \A g \in Http \ {h} : pc'[g] = pc[g] /\ request'[g] = request[g] /\ future'[g] = future[g]
    BY <1>1, <1>2, <1>3 DEF TypeOK
  <2>4. \A p \in Proc \ {h} : pc'[p] = pc[p] /\ target'[p] = target[p]
    BY <1>1, <1>2, <1>3 DEF TypeOK
  <2> QED
    BY <1>1, <1>4, <2>2, <2>3, <2>4 DEF Sessions
<1>10. \A k \in DOMAIN strand :
         IsLambda(strand[k]) =>
           /\ strand[k].from \in Http
           /\ AwaitedNext(strand[k])
           /\ strand[k].from = h => strand[k].serial # calls'[h]
  <2>1. \A k \in DOMAIN strand :
          IsLambda(strand[k]) => strand[k].from \in Http /\ Awaited(strand[k])
    BY <1>1, LenProperties, ElementOfSeq, HandlerKinds DEF TypeOK, LambdasAwaited
  <2>2. \A c : c.from \in Http /\ Awaited(c) =>
                 AwaitedNext(c) /\ (c.from = h => c.serial # calls'[h])
    <3>1. \A g \in Http \ {h} : /\ pc'[g] = pc[g] /\ request'[g] = request[g]
                                /\ calls'[g] = calls[g] /\ future'[g] = future[g]
      BY <1>1, <1>2, <1>3 DEF TypeOK
    <3> QED
      BY <1>3, <1>4, <3>1 DEF Awaited, AwaitedNext
  <2> QED
    BY <2>1, <2>2
<1>11. LambdasAwaited' /\ LambdasDistinct'
  <2>1. CASE r.op = "delete"
    BY <1>1, <1>2, <1>10, <2>1 DEF LambdasAwaited, LambdasDistinct, Awaited, AwaitedNext
  <2>2. CASE r.op # "delete"
    <3>1. /\ IsLambda(x) /\ x.from = h /\ x.serial = calls'[h] /\ x.req = r
      BY HandlerKinds
    <3> HIDE DEF x
    <3>2. /\ Len(strand) \in Nat
          /\ DOMAIN strand = 1 .. Len(strand)
          /\ DOMAIN strand' = 1 .. Len(strand) + 1
          /\ \A k \in 1 .. Len(strand) : strand'[k] = strand[k]
          /\ strand'[Len(strand) + 1] = x
      BY <1>1, <1>2, <1>5, <1>6, <2>2, AppendProperties, LenProperties DEF Post, TypeOK, x
    <3>3. AwaitedNext(x)
      <4>1. pc'[h] = "wait" /\ request'[h] = r /\ future'[h] = NoReply
        BY <1>1, <1>2, <1>3, <1>4, <2>2 DEF TypeOK
      <4> QED
        BY <1>4, <3>1, <4>1 DEF AwaitedNext
    <3>4. \A k \in DOMAIN strand' : IsLambda(strand'[k]) => AwaitedNext(strand'[k])
      BY <1>10, <3>2, <3>3
    <3>6. LambdasAwaited'
      BY <3>4 DEF LambdasAwaited, Awaited, AwaitedNext
    <3>5. LambdasDistinct'
      BY <1>1, <1>10, <3>1, <3>2 DEF LambdasDistinct
    <3> QED
      BY <3>5, <3>6
  <2> QED
    BY <2>1, <2>2
<1>12. AddsFit'
  <2>1. h \notin AddsToCome
    BY <1>4, RequestKinds DEF AddsToCome
  <2>2. CASE r.op = "add"
    <3>1. AddsToCome' = AddsToCome \cup {h}
      BY <1>1, <1>2, <1>3, <1>4, <2>1, <2>2 DEF AddsToCome, TypeOK
    <3>2. IsFiniteSet(AddsToCome) /\ Cardinality(AddsToCome) \in Nat
      BY <1>1, FS_CardinalityType DEF AddsFit
    <3>3. /\ IsFiniteSet(AddsToCome')
          /\ Cardinality(AddsToCome') = Cardinality(AddsToCome) + 1
      BY <2>1, <3>1, <3>2, FS_AddElement
    <3>4. m_last_place_id \in Nat /\ m_last_place_id' = m_last_place_id
      BY <1>1, <1>3 DEF TypeOK, markerVars
    <3>5. m_last_place_id + Cardinality(AddsToCome) < MaxPlaces
      BY <1>2, <2>2
    <3> QED
      BY <3>2, <3>3, <3>4, <3>5, PlacesAssumption DEF AddsFit
  <2>3. CASE r.op # "add"
    <3>1. AddsToCome' = AddsToCome
      BY <1>1, <1>2, <1>3, <1>4, <2>1, <2>3 DEF AddsToCome, TypeOK
    <3> QED
      BY <1>1, <1>3, <3>1 DEF AddsFit, markerVars
  <2> QED
    BY <2>2, <2>3
<1> QED
  BY <1>7, <1>8, <1>9, <1>11, <1>12 DEF TypeInv, CallInv

\* A step that leaves the markers alone, posts or takes a handler of the strand's
\* own or none, and keeps what sessions wait for.
LEMMA OwnHandlerTypes ==
  ASSUME TypeInv, TypeOK', LoopInMap', Sessions', WaitersKept, UNCHANGED m_last_place_id,
         \/ UNCHANGED strand
         \/ \E x \in Handler : ~ IsLambda(x) /\ Post(x)
         \/ \E x : StartOnStrand(x)
  PROVE  TypeInv'
<1>1. LambdasAwaited' /\ LambdasDistinct'
  <2>1. CASE UNCHANGED strand
    <3>1. /\ strand \in Seq(Handler) /\ LambdasAwaited /\ LambdasDistinct
      BY DEF TypeInv, TypeOK, CallInv
    <3>2. \A k \in DOMAIN strand : IsLambda(strand[k]) => strand[k].from \in Http
      BY <3>1, LenProperties, ElementOfSeq, HandlerKinds
    <3> QED
      BY <2>1, <3>1, <3>2 DEF LambdasAwaited, LambdasDistinct, Awaited, WaitersKept
  <2>2. CASE \E x \in Handler : ~ IsLambda(x) /\ Post(x)
    BY <2>2, PostOther
  <2>3. CASE \E x : StartOnStrand(x)
    BY <2>3, TakeOther
  <2> QED
    BY <2>1, <2>2, <2>3
<1> QED
  BY <1>1, AddsKept DEF TypeInv, CallInv

LEMMA FutureReadyTypes ==
  ASSUME TypeInv, NEW h \in Http, FutureReady(h)
  PROVE  TypeInv'
<1> USE DEF Proc
<1>1. /\ TypeOK /\ LoopInMap /\ Sessions
      /\ LambdasAwaited /\ LambdasDistinct /\ AddsFit
      /\ h # Strand
  BY PlacesAssumption DEF TypeInv, CallInv
<1>2. /\ pc[h] = "wait"
      /\ future[h] # NoReply \/ request[h].op = "get"
      /\ request' = [request EXCEPT ![h] = NoRequest]
      /\ future' = [future EXCEPT ![h] = NoReply]
      /\ pc' = [pc EXCEPT ![h] = "idle"]
      /\ UNCHANGED <<markerVars, timerVars, strand, target, left, calls, told, ioc>>
  BY DEF FutureReady
<1>3. TypeOK'
  BY <1>1, <1>2 DEF TypeOK, markerVars, timerVars
<1>4. LoopInMap'
  BY <1>1, <1>2 DEF LoopInMap, TypeOK, markerVars
<1>5. Sessions'
  BY <1>1, <1>2 DEF Sessions, TypeOK
<1>6. \A c : c.from \in Http /\ c.req \in Request /\ Awaited(c) => AwaitedNext(c)
  <2> SUFFICES ASSUME NEW c, c.from \in Http, c.req \in Request, Awaited(c)
               PROVE  AwaitedNext(c)
    OBVIOUS
  <2>1. CASE c.from = h
    <3>1. c.req.op = "get" \/ c.serial # calls[h]
      BY <1>2, <2>1 DEF Awaited
    <3>2. c.req.op = "get"
      BY <2>1, <3>1 DEF Awaited
    <3> QED
      BY <1>1, <1>2, <2>1, <3>2 DEF Awaited, AwaitedNext, TypeOK
  <2>2. CASE c.from # h
    BY <1>1, <1>2, <2>2 DEF Awaited, AwaitedNext, TypeOK
  <2> QED
    BY <2>1, <2>2
<1>7. LambdasAwaited' /\ LambdasDistinct'
  <2>1. \A k \in DOMAIN strand :
          IsLambda(strand[k]) => strand[k].from \in Http /\ strand[k].req \in Request
    BY <1>1, LenProperties, ElementOfSeq, HandlerKinds DEF TypeOK
  <2>2. \A k \in DOMAIN strand : IsLambda(strand[k]) => AwaitedNext(strand[k])
    BY <1>1, <1>6, <2>1 DEF LambdasAwaited
  <2> QED
    BY <1>1, <1>2, <2>2 DEF LambdasAwaited, LambdasDistinct, Awaited, AwaitedNext
<1>8. AddsFit'
  <2>1. h \notin AddsToCome
    BY <1>2 DEF AddsToCome
  <2>2. AddsToCome' = AddsToCome
    BY <1>1, <1>2, <2>1, RequestKinds DEF AddsToCome, TypeOK
  <2> QED
    BY <1>1, <1>2, <2>2 DEF AddsFit, markerVars
<1> QED
  BY <1>3, <1>4, <1>5, <1>7, <1>8 DEF TypeInv, CallInv

LEMMA DeletePlaceTypes ==
  ASSUME TypeInv, NEW p \in Proc, DeletePlaceById(p)
  PROVE  TypeInv'
<1>1. TypeOK /\ LoopInMap /\ Sessions
  BY DEF TypeInv, CallInv
<1>2. CASE DeleteBroadcast(p)
  <2>1. pc[p] = "broadcast" /\ target[p] \in Id
    BY <1>1, <1>2 DEF DeleteBroadcast, Sessions
  <2>2. TypeOK'
    BY <1>1, <1>2, <2>1 DEF DeleteBroadcast, TypeOK, markerVars, timerVars, callVars
  <2>3. LoopInMap'
    BY <1>1, <1>2, <2>1 DEF DeleteBroadcast, LoopInMap, TypeOK, markerVars
  <2>4. Sessions' /\ WaitersKept
    BY <1>1, <1>2, <2>1, PlacesAssumption
       DEF DeleteBroadcast, Sessions, WaitersKept, TypeOK, callVars, Proc
  <2> QED
    BY <1>2, <2>2, <2>3, <2>4, OwnHandlerTypes DEF DeleteBroadcast, markerVars
<1>3. CASE DeletePost(p)
  <2>1. pc[p] = "post" /\ target[p] \in Id
    BY <1>1, <1>3 DEF DeletePost, Sessions
  <2>2. Erasure(target[p]) \in Handler /\ ~ IsLambda(Erasure(target[p]))
    BY <2>1, HandlerKinds
  <2>3. strand' \in Seq(Handler)
    BY <1>1, <1>3, <2>2, AppendProperties DEF DeletePost, Post, TypeOK
  <2>4. TypeOK'
    <3>1. /\ request' \in [Http -> Request \cup {NoRequest}]
          /\ pc' \in [Proc -> {"idle", "wait", "draw", "broadcast", "post"}]
      BY <1>1, <1>3 DEF DeletePost, TypeOK
    <3> QED
      BY <1>1, <1>3, <2>3, <3>1 DEF DeletePost, TypeOK, markerVars, timerVars
  <2>5. LoopInMap'
    BY <1>1, <1>3, <2>1 DEF DeletePost, LoopInMap, TypeOK, markerVars
  <2>6. Sessions' /\ WaitersKept
    BY <1>1, <1>3, <2>1, PlacesAssumption
       DEF DeletePost, Sessions, WaitersKept, TypeOK, Proc
  <2> QED
    BY <1>3, <2>2, <2>4, <2>5, <2>6, OwnHandlerTypes DEF DeletePost, markerVars
<1> QED
  BY <1>2, <1>3 DEF DeletePlaceById

\* m_last_place_id grows by one and the map by one marker; the promise of the
\* add is the one its caller waits for.
LEMMA AddPlaceTypes ==
  ASSUME TypeInv, AddPlace
  PROVE  TypeInv'
<1>1. PICK h \in Http, n \in Nat :
        /\ StartOnStrand(CallOf(h, n, [op |-> "add"]))
        /\ m_last_place_id' = m_last_place_id + 1
        /\ m_places' = [i \in DOMAIN m_places \cup {m_last_place_id'} |->
                          IF i = m_last_place_id'
                          THEN [image |-> NoImage, scheduled |-> FALSE] ELSE m_places[i]]
        /\ SetValue(h, n, [op |-> "add", id |-> m_last_place_id'])
        /\ UNCHANGED <<timerVars, pc, target, left, request, calls, told, ioc>>
  BY PlacesAssumption DEF AddPlace
<1> DEFINE r == [op |-> "add"]
           v == [op |-> "add", id |-> m_last_place_id']
<1>2. TypeOK /\ LoopInMap /\ Sessions /\ AddsFit
  BY DEF TypeInv, CallInv
<1>3. r \in Request /\ r.op = "add"
  BY DEF Request
<1>4. pc[h] = "wait" /\ calls[h] = n /\ request[h] = r /\ future[h] = NoReply
  <2>1. Awaited(CallOf(h, n, r))
    BY <1>1, TakeHandler, HandlerKinds
  <2> QED
    BY <1>3, <2>1, HandlerKinds DEF Awaited
<1>5. h \in AddsToCome
  BY <1>3, <1>4 DEF AddsToCome
<1>6. /\ Cardinality(AddsToCome) \in Nat \ {0}
      /\ IsFiniteSet(AddsToCome \ {h})
      /\ Cardinality(AddsToCome \ {h}) = Cardinality(AddsToCome) - 1
  <2>1. IsFiniteSet(AddsToCome) /\ AddsToCome # {}
    BY <1>2, <1>5 DEF AddsFit
  <2> QED
    BY <1>5, <2>1, FS_CardinalityType, FS_EmptySet, FS_RemoveElement
<1>7. /\ m_last_place_id \in Nat /\ m_last_place_id' \in 1 .. MaxPlaces
      /\ m_last_place_id' = m_last_place_id + 1
  BY <1>1, <1>2, <1>6, PlacesAssumption DEF TypeOK, AddsFit
<1>8. v \in Reply
  BY <1>7, ReplyKinds DEF Id
<1>9. /\ strand' \in Seq(Handler) /\ LambdasAwaited' /\ LambdasDistinct' /\ Sessions'
      /\ future' \in [Http -> Reply \cup {NoReply}]
  <2> HIDE DEF r, v
  <2> QED
    BY <1>1, <1>3, <1>8, TakeLambda DEF r, v
<1>10. /\ DOMAIN m_places' = DOMAIN m_places \cup {m_last_place_id'}
       /\ DOMAIN m_places' \subseteq 1 .. m_last_place_id'
       /\ m_places' \in [DOMAIN m_places' -> [image : Image \cup {NoImage}, scheduled : BOOLEAN]]
  BY <1>1, <1>2, <1>7 DEF TypeOK
<1>11. TypeOK'
  BY <1>1, <1>2, <1>7, <1>9, <1>10 DEF TypeOK, timerVars
<1>12. LoopInMap'
  BY <1>1, <1>2, <1>10 DEF LoopInMap
<1>13. AddsFit'
  <2>1. future'[h] # NoReply /\ \A g \in Http \ {h} : future'[g] = future[g]
    <3> HIDE DEF v
    <3> QED
      BY <1>1, <1>2, <1>4, <1>8, ReplyKinds DEF SetValue, TypeOK, v
  <2>2. AddsToCome' = AddsToCome \ {h}
    BY <1>1, <2>1 DEF AddsToCome
  <2> QED
    BY <1>2, <1>6, <1>7, <2>2, PlacesAssumption DEF AddsFit
<1> QED
  BY <1>9, <1>11, <1>12, <1>13 DEF TypeInv, CallInv

\* The lambdas of calls that are not adds: the markers' ids stay.
LEMMA OtherLambdaTypes ==
  ASSUME TypeInv, NEW h \in Http, NEW n \in Nat, NEW r \in Request, NEW v \in Reply,
         r.op # "add",
         StartOnStrand(CallOf(h, n, r)), SetValue(h, n, v),
         DOMAIN m_places' = DOMAIN m_places,
         m_places' \in [DOMAIN m_places -> [image : Image \cup {NoImage}, scheduled : BOOLEAN]],
         UNCHANGED <<m_last_place_id, timerVars, pc, target, left, request, calls, told, ioc>>
  PROVE  TypeInv'
<1>1. TypeOK /\ LoopInMap /\ Sessions /\ AddsFit
  BY DEF TypeInv, CallInv
<1>2. /\ strand' \in Seq(Handler) /\ LambdasAwaited' /\ LambdasDistinct' /\ Sessions'
      /\ future' \in [Http -> Reply \cup {NoReply}]
      /\ pc[h] = "wait" /\ calls[h] = n => request[h] = r
  BY TakeLambda
<1>3. TypeOK'
  BY <1>1, <1>2 DEF TypeOK, timerVars
<1>4. LoopInMap'
  BY <1>1 DEF LoopInMap
<1>5. AddsFit'
  <2>1. \A g \in Http : request[g].op = "add" => future'[g] = future[g]
    BY <1>1, <1>2 DEF SetValue, TypeOK
  <2>2. AddsToCome' = AddsToCome
    BY <2>1 DEF AddsToCome
  <2> QED
    BY <1>1, <2>2 DEF AddsFit
<1> QED
  BY <1>2, <1>3, <1>4, <1>5 DEF TypeInv, CallInv

LEMMA AddPlaceImageTypes ==
  ASSUME TypeInv, AddPlaceImage
  PROVE  TypeInv'
<1>1. PICK h \in Http, n \in Nat, i \in Id, image \in Image :
        /\ StartOnStrand(CallOf(h, n, [op |-> "image", id |-> i, image |-> image]))
        /\ m_places' = IF i \in DOMAIN m_places
                       THEN [m_places EXCEPT ![i].image = image] ELSE m_places
        /\ SetValue(h, n, [op |-> "image", added |-> i \in DOMAIN m_places])
        /\ UNCHANGED <<m_last_place_id, timerVars, pc, target, left, request, calls, told, ioc>>
  <2>1. \A h \in Http : \A n \in 1 .. MaxCalls[h] : n \in Nat
    BY PlacesAssumption
  <2> QED
    BY <2>1, Zenon DEF AddPlaceImage
<1> DEFINE r == [op |-> "image", id |-> i, image |-> image]
           v == [op |-> "image", added |-> i \in DOMAIN m_places]
<1>2. r \in Request /\ r.op # "add"
  BY DEF Request
<1>3. v \in Reply
  BY DEF Reply
<1>4. TypeOK
  BY DEF TypeInv
<1>5. /\ DOMAIN m_places' = DOMAIN m_places
      /\ m_places' \in [DOMAIN m_places -> [image : Image \cup {NoImage}, scheduled : BOOLEAN]]
  BY <1>1, <1>4 DEF TypeOK
<1> HIDE DEF r, v
<1> QED
  BY <1>1, <1>2, <1>3, <1>5, OtherLambdaTypes DEF r, v

LEMMA GetPlaceImageTypes ==
  ASSUME TypeInv, GetPlaceImage
  PROVE  TypeInv'
<1>1. PICK h \in Http, n \in Nat, i \in Id :
        /\ StartOnStrand(CallOf(h, n, [op |-> "get", id |-> i]))
        /\ SetValue(h, n, [op |-> "get",
                           image |-> IF i \in DOMAIN m_places THEN m_places[i].image ELSE NoImage])
        /\ UNCHANGED <<markerVars, timerVars, pc, target, left, request, calls, told, ioc>>
  BY PlacesAssumption DEF GetPlaceImage
<1> DEFINE r == [op |-> "get", id |-> i]
           v == [op |-> "get",
                 image |-> IF i \in DOMAIN m_places THEN m_places[i].image ELSE NoImage]
<1>2. r \in Request /\ r.op # "add"
  BY DEF Request
<1>3. TypeOK
  BY DEF TypeInv
<1>4. v \in Reply
  BY <1>3 DEF Reply, TypeOK
<1>5. /\ DOMAIN m_places' = DOMAIN m_places
      /\ m_places' \in [DOMAIN m_places -> [image : Image \cup {NoImage}, scheduled : BOOLEAN]]
      /\ UNCHANGED m_last_place_id
  BY <1>1, <1>3 DEF TypeOK, markerVars
<1> HIDE DEF r, v
<1> QED
  BY <1>1, <1>2, <1>4, <1>5, OtherLambdaTypes DEF r, v

LEMMA ErasePlaceTypes ==
  ASSUME TypeInv, ErasePlace
  PROVE  TypeInv'
<1>1. PICK i \in Id :
        /\ StartOnStrand(Erasure(i))
        /\ m_places' = [k \in DOMAIN m_places \ {i} |-> m_places[k]]
        /\ UNCHANGED <<m_last_place_id, timerVars, pc, target, left, callVars, told, ioc>>
  BY DEF ErasePlace
<1>2. TypeOK /\ LoopInMap /\ Sessions /\ pc[Strand] = "idle"
  BY <1>1 DEF TypeInv, CallInv, StartOnStrand
<1>3. WaitersKept /\ strand' \in Seq(Handler)
  BY <1>1, TakeHandler DEF WaitersKept, callVars
<1>4. TypeOK'
  BY <1>1, <1>2, <1>3 DEF TypeOK, timerVars, callVars
<1>5. LoopInMap' /\ Sessions'
  BY <1>1, <1>2 DEF LoopInMap, Sessions, callVars
<1> QED
  BY <1>1, <1>3, <1>4, <1>5, OwnHandlerTypes

\* The strand's own handlers change no marker but for its flag.
LEMMA StrandTypes ==
  ASSUME TypeInv, Timeout \/ DrawMarker \/ ScheduleTimeout \/ ExpirePlace
  PROVE  TypeInv'
<1> USE DEF Proc
<1>1. TypeOK /\ LoopInMap /\ Sessions
  BY DEF TypeInv, CallInv
<1>2. CASE Timeout
  <2>1. /\ StartOnStrand(TimeoutHandler) /\ pc[Strand] = "idle"
        /\ strand' \in Seq(Handler)
    BY <1>2, TakeHandler DEF Timeout, StartOnStrand
  <2>2. WaitersKept /\ Sessions'
    BY <1>1, <1>2, <2>1, PlacesAssumption DEF Timeout, WaitersKept, Sessions, callVars, TypeOK
  <2>3. DOMAIN m_places \subseteq Id
    BY <1>1, PlacesAssumption DEF TypeOK, Id
  <2>4. TypeOK'
    BY <1>1, <1>2, <2>1, <2>3 DEF Timeout, TypeOK, markerVars, timerVars, callVars
  <2>5. LoopInMap'
    BY <1>1, <1>2 DEF Timeout, TypeOK, LoopInMap, markerVars
  <2> QED
    BY <1>2, <2>1, <2>2, <2>4, <2>5, OwnHandlerTypes DEF Timeout, markerVars
<1>3. CASE DrawMarker
  <2>1. PICK i \in left :
          /\ left' = left \ {i}
          /\ timers' = [timers EXCEPT ![i] = IF m_places[i].scheduled THEN @ ELSE @ + 1]
          /\ m_places' = [m_places EXCEPT ![i].scheduled = TRUE]
          /\ told' = [told EXCEPT ![i] = "draw_marker"]
    BY <1>3 DEF DrawMarker
  <2>2. /\ UNCHANGED <<m_last_place_id, m_timer, strand, pc, target, callVars, ioc>>
        /\ pc[Strand] = "draw"
        /\ i \in DOMAIN m_places /\ i \in Id
    BY <1>1, <1>3 DEF DrawMarker, LoopInMap, TypeOK
  <2>3. WaitersKept /\ Sessions' /\ LoopInMap'
    BY <1>1, <2>1, <2>2 DEF WaitersKept, Sessions, LoopInMap, callVars
  <2>4. /\ timers' \in [Id -> Nat] /\ DOMAIN m_places' = DOMAIN m_places
        /\ m_places' \in [DOMAIN m_places -> [image : Image \cup {NoImage}, scheduled : BOOLEAN]]
    <3>1. timers[i] \in Nat /\ timers[i] + 1 \in Nat
      BY <1>1, <2>2 DEF TypeOK
    <3>2. timers' \in [Id -> Nat]
      BY <1>1, <2>1, <2>2, <3>1 DEF TypeOK
    <3>3. /\ DOMAIN m_places' = DOMAIN m_places
          /\ m_places' \in [DOMAIN m_places -> [image : Image \cup {NoImage}, scheduled : BOOLEAN]]
      BY <1>1, <2>1, <2>2 DEF TypeOK
    <3> QED
      BY <3>2, <3>3
  <2>5. TypeOK'
    BY <1>1, <2>1, <2>2, <2>4 DEF TypeOK, callVars
  <2> QED
    BY <2>2, <2>3, <2>5, OwnHandlerTypes
<1>4. CASE ScheduleTimeout
  <2>1. WaitersKept /\ Sessions'
    BY <1>1, <1>4, PlacesAssumption
       DEF ScheduleTimeout, WaitersKept, Sessions, callVars, TypeOK
  <2>2. TypeOK' /\ LoopInMap'
    BY <1>1, <1>4 DEF ScheduleTimeout, TypeOK, LoopInMap, markerVars, callVars
  <2> QED
    BY <1>4, <2>1, <2>2, OwnHandlerTypes DEF ScheduleTimeout, markerVars
<1>5. CASE ExpirePlace
  <2>1. PICK i \in Id :
          /\ StartOnStrand(Expiry(i))
          /\ pc' = [pc EXCEPT ![Strand] = "broadcast"]
          /\ target' = [target EXCEPT ![Strand] = i]
          /\ UNCHANGED <<markerVars, timerVars, left, callVars, told, ioc>>
    BY <1>5 DEF ExpirePlace
  <2>2. pc[Strand] = "idle" /\ strand' \in Seq(Handler)
    BY <2>1, TakeHandler DEF StartOnStrand
  <2>3. WaitersKept /\ Sessions'
    BY <1>1, <2>1, <2>2, PlacesAssumption DEF WaitersKept, Sessions, callVars, TypeOK
  <2>4. TypeOK' /\ LoopInMap'
    BY <1>1, <2>1, <2>2 DEF TypeOK, LoopInMap, markerVars, timerVars, callVars
  <2> QED
    BY <2>1, <2>3, <2>4, OwnHandlerTypes DEF markerVars
<1> QED
  BY <1>2, <1>3, <1>4, <1>5

\* The timers post a handler each; a signal stops the io_context.
LEMMA TimerTypes ==
  ASSUME TypeInv, TimerElapsed \/ (\E i \in Id : DeletionTimerElapsed(i)) \/ Stop
  PROVE  TypeInv'
<1>1. TypeOK /\ LoopInMap /\ Sessions
  BY DEF TypeInv, CallInv
<1>2. CASE TimerElapsed
  <2>1. TimeoutHandler \in Handler /\ ~ IsLambda(TimeoutHandler)
    BY HandlerKinds
  <2>2. strand' \in Seq(Handler)
    BY <1>1, <1>2, <2>1, AppendProperties DEF TimerElapsed, Post, TypeOK
  <2>3. TypeOK' /\ LoopInMap' /\ Sessions' /\ WaitersKept
    BY <1>1, <1>2, <2>2
       DEF TimerElapsed, TypeOK, LoopInMap, Sessions, WaitersKept, markerVars, callVars
  <2> QED
    BY <1>2, <2>1, <2>3, OwnHandlerTypes DEF TimerElapsed, markerVars
<1>3. CASE \E i \in Id : DeletionTimerElapsed(i)
  <2>1. PICK i \in Id : DeletionTimerElapsed(i)
    BY <1>3
  <2>2. Expiry(i) \in Handler /\ ~ IsLambda(Expiry(i))
    BY HandlerKinds
  <2>3. strand' \in Seq(Handler) /\ timers' \in [Id -> Nat]
    <3>1. timers[i] \in Nat /\ timers[i] > 0
      BY <1>1, <2>1 DEF DeletionTimerElapsed, TypeOK
    <3> QED
      BY <1>1, <2>1, <2>2, <3>1, AppendProperties DEF DeletionTimerElapsed, Post, TypeOK
  <2>4. TypeOK' /\ LoopInMap' /\ Sessions' /\ WaitersKept
    BY <1>1, <2>1, <2>3
       DEF DeletionTimerElapsed, TypeOK, LoopInMap, Sessions, WaitersKept, markerVars, callVars
  <2> QED
    BY <2>1, <2>2, <2>4, OwnHandlerTypes DEF DeletionTimerElapsed, markerVars
<1>4. CASE Stop
  <2>1. TypeOK' /\ LoopInMap' /\ Sessions' /\ WaitersKept
    BY <1>1, <1>4
       DEF Stop, TypeOK, LoopInMap, Sessions, WaitersKept, markerVars, timerVars, callVars
  <2> QED
    BY <1>4, <2>1, OwnHandlerTypes DEF Stop, markerVars
<1> QED
  BY <1>2, <1>3, <1>4

LEMMA TypeInit == Init => TypeInv
<1> SUFFICES ASSUME Init PROVE TypeInv
  OBVIOUS
<1>1. strand = <<>> /\ strand \in Seq(Handler) /\ DOMAIN strand = {}
  BY EmptySeq, LenProperties DEF Init
<1>2. TypeOK
  BY <1>1, PlacesAssumption DEF Init, TypeOK, Proc
<1>3. LoopInMap /\ Sessions /\ LambdasAwaited /\ LambdasDistinct
  BY <1>1 DEF Init, LoopInMap, Sessions, LambdasAwaited, LambdasDistinct, Proc
<1>4. AddsToCome = {}
  BY RequestKinds DEF Init, AddsToCome
<1>5. AddsFit
  BY <1>4, FS_EmptySet, PlacesAssumption DEF AddsFit, Init
<1> QED
  BY <1>2, <1>3, <1>5 DEF TypeInv, CallInv

LEMMA TypeNext == TypeInv /\ [Next]_placesVars => TypeInv'
<1> SUFFICES ASSUME TypeInv, [Next]_placesVars PROVE TypeInv'
  OBVIOUS
<1>1. ASSUME NEW h \in Http, CallManager(h) \/ HttpStep(h) PROVE TypeInv'
  BY <1>1, CallManagerTypes, FutureReadyTypes, DeletePlaceTypes DEF HttpStep, Proc
<1>2. CASE StrandStep
  BY <1>2, AddPlaceTypes, AddPlaceImageTypes, GetPlaceImageTypes, ErasePlaceTypes,
     StrandTypes, DeletePlaceTypes DEF StrandStep, Proc
<1>3. CASE TimerElapsed \/ (\E i \in Id : DeletionTimerElapsed(i)) \/ Stop
  BY <1>3, TimerTypes
<1>4. CASE UNCHANGED placesVars
  <2>1. UNCHANGED <<markerVars, timerVars, strand, pc, target, left, callVars, told, ioc>>
    BY <1>4 DEF placesVars
  <2>2. TypeOK' /\ LoopInMap' /\ Sessions' /\ WaitersKept
    BY <2>1 DEF TypeInv, CallInv, TypeOK, LoopInMap, Sessions, WaitersKept,
                markerVars, timerVars, callVars
  <2> QED
    BY <2>1, <2>2, OwnHandlerTypes DEF markerVars
<1> QED
  BY <1>1, <1>2, <1>3, <1>4 DEF Next

\* Every variable of every reachable state holds a value of its type, and the
\* calls, the lambdas posted for them and the ids left agree.
THEOREM PlacesTypeInvariant == Spec => []TypeInv
BY TypeInit, TypeNext, PTL DEF Spec

\* Types of PlacesManager.cpp's members, of the promises and of the strand: in
\* particular only ids that were given out are stored.
THEOREM PlacesTypes == Spec => []TypeOK
<1>1. TypeInv => TypeOK
  BY DEF TypeInv
<1> QED
  BY <1>1, PlacesTypeInvariant, PTL

-------------------------------------------------------------------------------
(* The five-second chain *)

LEMMA PostedIsCount ==
  ASSUME NEW x
  PROVE  Posted(x) = Count(strand, x) /\ Posted(x)' = Count(strand', x)
BY DEF Posted, Count, Places

\* What posting and taking a handler does to the number posted.
LEMMA PostedPost ==
  ASSUME TypeInv, NEW e \in Handler, Post(e), NEW x
  PROVE  Posted(x) \in Nat /\ Posted(x)' = Posted(x) + (IF e = x THEN 1 ELSE 0)
<1>1. strand \in Seq(Handler)
  BY DEF TypeInv, TypeOK
<1>2. Posted(x) = Count(strand, x) /\ Posted(x)' = Count(strand', x)
  BY PostedIsCount
<1>3. strand' = Append(strand, e)
  BY DEF Post
<1> QED
  BY <1>1, <1>2, <1>3, CountType, CountAppend

LEMMA PostedTake ==
  ASSUME TypeInv, NEW e, StartOnStrand(e), NEW x
  PROVE  /\ Posted(x) \in Nat /\ Posted(x)' \in Nat
         /\ Posted(x) = Posted(x)' + (IF e = x THEN 1 ELSE 0)
<1>1. strand \in Seq(Handler)
  BY DEF TypeInv, TypeOK
<1>2. strand # <<>> /\ e = Head(strand) /\ strand' = Tail(strand)
  BY DEF StartOnStrand
<1>3. strand' \in Seq(Handler)
  BY <1>1, <1>2, HeadTailProperties
<1>4. Posted(x) = Count(strand, x) /\ Posted(x)' = Count(strand', x)
  BY PostedIsCount
<1> QED
  BY <1>1, <1>2, <1>3, <1>4, CountType, CountTail

LEMMA PostedSame ==
  ASSUME TypeInv, UNCHANGED strand, NEW x
  PROVE  Posted(x) \in Nat /\ Posted(x)' = Posted(x)
<1>1. strand \in Seq(Handler)
  BY DEF TypeInv, TypeOK
<1>2. Posted(x) = Count(strand, x) /\ Posted(x)' = Count(strand', x)
  BY PostedIsCount
<1> QED
  BY <1>1, <1>2, CountType

\* A step that has nothing to do with the chain.
LEMMA TickKept ==
  ASSUME TypeInv, OneTick, UNCHANGED m_timer,
         pc'[Strand] = "draw" <=> pc[Strand] = "draw",
         \/ UNCHANGED strand
         \/ \E x \in Handler : x # TimeoutHandler /\ Post(x)
         \/ \E x : x # TimeoutHandler /\ StartOnStrand(x)
  PROVE  OneTick'
<1>1. Posted(TimeoutHandler)' = Posted(TimeoutHandler)
  <2>1. CASE UNCHANGED strand
    BY <2>1, PostedSame
  <2>2. CASE \E x \in Handler : x # TimeoutHandler /\ Post(x)
    BY <2>2, PostedPost
  <2>3. CASE \E x : x # TimeoutHandler /\ StartOnStrand(x)
    BY <2>3, PostedTake
  <2> QED
    BY <2>1, <2>2, <2>3
<1> QED
  BY <1>1 DEF OneTick

LEMMA TickInit == Init => OneTick
<1> SUFFICES ASSUME Init PROVE OneTick
  OBVIOUS
<1>1. strand \in Seq(Handler) /\ strand = <<>>
  BY EmptySeq DEF Init
<1>2. Posted(TimeoutHandler) = 0
  BY <1>1, CountType, PostedIsCount
<1> QED
  BY <1>2 DEF OneTick, Init, Proc

\* The strand's part of a session's step: the handlers that CallManager and
\* DeletePlaceById post, and the pc of the strand.
LEMMA SessionSteps ==
  ASSUME TypeInv, NEW h \in Http, CallManager(h) \/ FutureReady(h) \/ DeletePlaceById(h)
  PROVE  /\ UNCHANGED <<m_timer, timers, left, m_last_place_id, m_places>>
         /\ pc'[Strand] = pc[Strand] /\ target'[Strand] = target[Strand]
         /\ \/ UNCHANGED strand
            \/ \E n \in Nat, r \in Request : Post(CallOf(h, n, r))
            \/ \E i \in Id : Post(Erasure(i))
<1> USE DEF Proc
<1>1. TypeOK /\ Sessions /\ h # Strand
  BY PlacesAssumption DEF TypeInv, CallInv
<1>2. CASE CallManager(h)
  <2>1. PICK r \in Request :
          IF r.op = "delete"
          THEN /\ pc' = [pc EXCEPT ![h] = "broadcast"]
               /\ target' = [target EXCEPT ![h] = r.id]
               /\ UNCHANGED strand
          ELSE /\ pc' = [pc EXCEPT ![h] = "wait"]
               /\ Post(CallOf(h, calls'[h], r))
               /\ UNCHANGED target
    BY <1>2 DEF CallManager
  <2>2. calls'[h] \in Nat
    BY <1>1, <1>2 DEF CallManager, TypeOK
  <2>3. UNCHANGED strand \/ \E n \in Nat, s \in Request : Post(CallOf(h, n, s))
    BY <2>1, <2>2
  <2>4. pc'[Strand] = pc[Strand] /\ target'[Strand] = target[Strand]
    BY <1>1, <2>1 DEF TypeOK
  <2> QED
    BY <1>2, <2>3, <2>4 DEF CallManager, timerVars, markerVars
<1>3. CASE FutureReady(h)
  BY <1>1, <1>3 DEF FutureReady, TypeOK, timerVars, markerVars
<1>4. CASE DeleteBroadcast(h)
  BY <1>1, <1>4 DEF DeleteBroadcast, TypeOK, timerVars, markerVars
<1>5. CASE DeletePost(h)
  <2>1. target[h] \in Id
    BY <1>1, <1>5 DEF DeletePost, Sessions
  <2> QED
    BY <1>1, <1>5, <2>1 DEF DeletePost, TypeOK, timerVars, markerVars
<1> QED
  BY <1>2, <1>3, <1>4, <1>5 DEF DeletePlaceById

LEMMA TickNext == TypeInv /\ OneTick /\ [Next]_placesVars => OneTick'
<1> SUFFICES ASSUME TypeInv, OneTick, [Next]_placesVars PROVE OneTick'
  OBVIOUS
<1> USE DEF Proc
<1>1. TypeOK /\ Sessions
  BY DEF TypeInv, CallInv
<1>2. /\ \A i \in Id : Expiry(i) # TimeoutHandler /\ Erasure(i) # TimeoutHandler
      /\ \A h, n, r : CallOf(h, n, r) # TimeoutHandler
  <2>1. TimeoutHandler.do = "timeout" /\ \A h, n, r : CallOf(h, n, r).do = "call"
    BY DEF TimeoutHandler, CallOf
  <2> QED
    BY <2>1, HandlersDiffer
<1>3. ASSUME NEW h \in Http, CallManager(h) \/ HttpStep(h) PROVE OneTick'
  <2>1. CallManager(h) \/ FutureReady(h) \/ DeletePlaceById(h)
    BY <1>3 DEF HttpStep
  <2>2. \/ UNCHANGED strand
        \/ \E x \in Handler : x # TimeoutHandler /\ Post(x)
    BY <1>2, <2>1, SessionSteps, HandlerKinds
  <2> QED
    BY <2>1, <2>2, SessionSteps, TickKept
<1>4. CASE AddPlace \/ AddPlaceImage \/ GetPlaceImage \/ ErasePlace
  <2>1. \E x : x # TimeoutHandler /\ StartOnStrand(x)
    BY <1>2, <1>4 DEF AddPlace, AddPlaceImage, GetPlaceImage, ErasePlace
  <2>2. UNCHANGED <<m_timer, pc>>
    BY <1>4 DEF AddPlace, AddPlaceImage, GetPlaceImage, ErasePlace, timerVars
  <2> QED
    BY <2>1, <2>2, TickKept
<1>5. CASE Timeout
  <2>1. pc[Strand] = "idle" /\ pc'[Strand] = "draw" /\ UNCHANGED m_timer
    BY <1>1, <1>5 DEF Timeout, StartOnStrand, TypeOK, timerVars
  <2>2. /\ Posted(TimeoutHandler) \in Nat /\ Posted(TimeoutHandler)' \in Nat
        /\ Posted(TimeoutHandler) = Posted(TimeoutHandler)' + 1
    BY <1>5, PostedTake DEF Timeout
  <2> QED
    BY <2>1, <2>2 DEF OneTick
<1>6. CASE DrawMarker
  BY <1>6, TickKept DEF DrawMarker
<1>7. CASE ScheduleTimeout
  <2>1. pc[Strand] = "draw" /\ pc'[Strand] = "idle" /\ m_timer' = "armed"
    BY <1>1, <1>7 DEF ScheduleTimeout, TypeOK
  <2>2. Posted(TimeoutHandler) \in Nat /\ Posted(TimeoutHandler)' = Posted(TimeoutHandler)
    BY <1>7, PostedSame DEF ScheduleTimeout
  <2> QED
    BY <2>1, <2>2 DEF OneTick
<1>8. CASE ExpirePlace
  <2>1. \E x : x # TimeoutHandler /\ StartOnStrand(x)
    BY <1>2, <1>8 DEF ExpirePlace
  <2>2. pc[Strand] = "idle" /\ pc'[Strand] = "broadcast" /\ UNCHANGED m_timer
    BY <1>1, <1>8 DEF ExpirePlace, StartOnStrand, TypeOK, timerVars
  <2> QED
    BY <2>1, <2>2, TickKept
<1>9. CASE DeletePlaceById(Strand)
  <2>1. CASE DeleteBroadcast(Strand)
    BY <1>1, <2>1, TickKept DEF DeleteBroadcast, TypeOK, timerVars
  <2>2. CASE DeletePost(Strand)
    <3>1. target[Strand] \in Id /\ pc[Strand] = "post" /\ pc'[Strand] = "idle"
      BY <1>1, <2>2 DEF DeletePost, Sessions, TypeOK
    <3>2. \E x \in Handler : x # TimeoutHandler /\ Post(x)
      BY <1>2, <2>2, <3>1, HandlerKinds DEF DeletePost
    <3> QED
      BY <2>2, <3>1, <3>2, TickKept DEF DeletePost, timerVars
  <2> QED
    BY <1>9, <2>1, <2>2 DEF DeletePlaceById
<1>10. CASE TimerElapsed
  <2>1. m_timer = "armed" /\ m_timer' = "off" /\ UNCHANGED pc /\ Post(TimeoutHandler)
    BY <1>10 DEF TimerElapsed
  <2>2. /\ Posted(TimeoutHandler) \in Nat
        /\ Posted(TimeoutHandler)' = Posted(TimeoutHandler) + 1
    BY <2>1, PostedPost, HandlerKinds
  <2> QED
    BY <2>1, <2>2 DEF OneTick
<1>11. CASE \E i \in Id : DeletionTimerElapsed(i)
  <2>1. \E x \in Handler : x # TimeoutHandler /\ Post(x)
    BY <1>2, <1>11, HandlerKinds DEF DeletionTimerElapsed
  <2> QED
    BY <1>11, <2>1, TickKept DEF DeletionTimerElapsed
<1>12. CASE Stop \/ UNCHANGED placesVars
  BY <1>12, TickKept DEF Stop, placesVars, timerVars
<1> QED
  BY <1>3, <1>4, <1>5, <1>6, <1>7, <1>8, <1>9, <1>10, <1>11, <1>12 DEF Next, StrandStep

\* ScheduleTimeout and Timeout keep exactly one tick alive, however many calls,
\* expiries and deletions the strand runs in between.
THEOREM ChainNeverDoubles == Spec => []OneTick
<1>1. TypeInv /\ OneTick /\ [Next]_placesVars => (TypeInv /\ OneTick)'
  BY TypeNext, TickNext
<1>2. Init => TypeInv /\ OneTick
  BY TypeInit, TickInit
<1> QED
  BY <1>1, <1>2, PTL DEF Spec

-------------------------------------------------------------------------------
(* The deletion timers *)

ExpiryInv == ExpiryOnce /\ Unscheduled

\* The third part of Expiring: the strand announces the deletion of marker i.
Announcing(i) == pc[Strand] \in {"broadcast", "post"} /\ target[Strand] = i

LEMMA ExpiringParts ==
  ASSUME TypeInv, NEW i \in Id
  PROVE  /\ timers[i] \in Nat /\ Posted(Expiry(i)) \in Nat /\ Posted(Erasure(i)) \in Nat
         /\ Expiring(i) = timers[i] + Posted(Expiry(i)) + (IF Announcing(i) THEN 1 ELSE 0)
         /\ Expiring(i)' = timers'[i] + Posted(Expiry(i))'
                             + (IF Announcing(i)' THEN 1 ELSE 0)
         /\ Expiring(i) \in Nat
<1>1. strand \in Seq(Handler) /\ timers \in [Id -> Nat]
  BY DEF TypeInv, TypeOK
<1>2. timers[i] \in Nat /\ Posted(Expiry(i)) \in Nat /\ Posted(Erasure(i)) \in Nat
  BY <1>1, CountType, PostedIsCount
<1>3. /\ Expiring(i) = timers[i] + Posted(Expiry(i)) + (IF Announcing(i) THEN 1 ELSE 0)
      /\ Expiring(i)' = timers'[i] + Posted(Expiry(i))' + (IF Announcing(i)' THEN 1 ELSE 0)
  BY DEF Expiring, Announcing
<1> QED
  BY <1>2, <1>3

\* A step of the queue that neither posts nor takes an expiry or an erasure.
QueueKept ==
  \/ UNCHANGED strand
  \/ \E x \in Handler : Post(x) /\ \A i \in Id : x # Expiry(i) /\ x # Erasure(i)
  \/ \E x : StartOnStrand(x) /\ \A i \in Id : x # Expiry(i) /\ x # Erasure(i)

LEMMA PostedKept ==
  ASSUME TypeInv, QueueKept, NEW i \in Id
  PROVE  /\ Posted(Expiry(i))' = Posted(Expiry(i))
         /\ Posted(Erasure(i))' = Posted(Erasure(i))
<1>1. CASE UNCHANGED strand
  BY <1>1, PostedSame
<1>2. ASSUME NEW x \in Handler, Post(x), \A j \in Id : x # Expiry(j) /\ x # Erasure(j)
      PROVE  /\ Posted(Expiry(i))' = Posted(Expiry(i))
             /\ Posted(Erasure(i))' = Posted(Erasure(i))
  BY <1>2, PostedPost
<1>3. ASSUME NEW x, StartOnStrand(x), \A j \in Id : x # Expiry(j) /\ x # Erasure(j)
      PROVE  /\ Posted(Expiry(i))' = Posted(Expiry(i))
             /\ Posted(Erasure(i))' = Posted(Erasure(i))
  BY <1>3, PostedTake
<1> QED
  BY <1>1, <1>2, <1>3 DEF QueueKept

\* Markers come without a timer, keep their flag, and go only with their erasure.
MarkersKept ==
  /\ m_last_place_id' \in Nat /\ m_last_place_id' >= m_last_place_id
  /\ \A i \in DOMAIN m_places' :
       \/ i \in DOMAIN m_places /\ m_places'[i].scheduled = m_places[i].scheduled
       \/ i > m_last_place_id /\ ~ m_places'[i].scheduled

\* A step that has nothing to do with expiries.
LEMMA ExpiryKept ==
  ASSUME TypeInv, ExpiryInv, MarkersKept,
         \A i \in Id : /\ Expiring(i)' = Expiring(i)
                       /\ Posted(Erasure(i)) > 0 /\ i \in DOMAIN m_places' =>
                            Posted(Erasure(i))' > 0
  PROVE  ExpiryInv'
<1>1. m_last_place_id \in Nat /\ \A i \in Id : i \in Nat
  BY DEF TypeInv, TypeOK, Id
<1>3. Unscheduled'
  <2> SUFFICES ASSUME NEW i \in Id,
                      \/ i \in DOMAIN m_places' /\ ~ m_places'[i].scheduled
                      \/ i > m_last_place_id'
               PROVE  Expiring(i)' = 0
    BY DEF Unscheduled
  <2>1. \/ i \in DOMAIN m_places /\ ~ m_places[i].scheduled
        \/ i > m_last_place_id
    BY <1>1 DEF MarkersKept
  <2> QED
    BY <2>1 DEF ExpiryInv, Unscheduled
<1>4. ExpiryOnce'
  <2> SUFFICES ASSUME NEW i \in Id
               PROVE  /\ Expiring(i)' <= 1
                      /\ i \in DOMAIN m_places' /\ m_places'[i].scheduled =>
                           Expiring(i)' = 1 \/ Posted(Erasure(i))' > 0
    BY DEF ExpiryOnce
  <2>1. Expiring(i)' <= 1
    BY DEF ExpiryInv, ExpiryOnce
  <2>2. ASSUME i \in DOMAIN m_places', m_places'[i].scheduled
        PROVE  Expiring(i)' = 1 \/ Posted(Erasure(i))' > 0
    <3>1. i \in DOMAIN m_places /\ m_places[i].scheduled
      BY <2>2 DEF MarkersKept
    <3>2. Expiring(i) = 1 \/ Posted(Erasure(i)) > 0
      BY <3>1 DEF ExpiryInv, ExpiryOnce
    <3> QED
      BY <2>2, <3>2
  <2> QED
    BY <2>1, <2>2
<1> QED
  BY <1>3, <1>4 DEF ExpiryInv

\* The same, when the queue of expiries and erasures stands still.
LEMMA ExpiryIdle ==
  ASSUME TypeInv, ExpiryInv, MarkersKept, QueueKept, UNCHANGED timers,
         \A i \in Id : Announcing(i)' <=> Announcing(i)
  PROVE  ExpiryInv'
<1>1. \A i \in Id : /\ Expiring(i)' = Expiring(i)
                    /\ Posted(Erasure(i)) \in Nat
                    /\ Posted(Erasure(i))' = Posted(Erasure(i))
  BY ExpiringParts, PostedKept
<1> QED
  BY <1>1, ExpiryKept

LEMMA ExpiryInit == Init => ExpiryInv
<1> SUFFICES ASSUME Init PROVE ExpiryInv
  OBVIOUS
<1>1. TypeInv
  BY TypeInit
<1>2. \A i \in Id : Posted(Expiry(i)) = 0
  BY EmptySeq, CountType, PostedIsCount DEF Init
<1>3. \A i \in Id : Expiring(i) = 0
  BY <1>1, <1>2, ExpiringParts DEF Init, Announcing, Proc
<1> QED
  BY <1>3 DEF Init, ExpiryInv, ExpiryOnce, Unscheduled

\* The HTTP handlers and their lambdas.
LEMMA ExpirySessions ==
  ASSUME TypeInv, ExpiryInv, NEW h \in Http, CallManager(h) \/ HttpStep(h)
  PROVE  ExpiryInv'
<1>1. CallManager(h) \/ FutureReady(h) \/ DeletePlaceById(h)
  BY DEF HttpStep
<1>2. /\ UNCHANGED <<m_timer, timers, left, m_last_place_id, m_places>>
      /\ pc'[Strand] = pc[Strand] /\ target'[Strand] = target[Strand]
      /\ \/ UNCHANGED strand
         \/ \E n \in Nat, r \in Request : Post(CallOf(h, n, r))
         \/ \E i \in Id : Post(Erasure(i))
  BY <1>1, SessionSteps
<1>3. MarkersKept
  BY <1>2 DEF MarkersKept, TypeInv, TypeOK
<1>4. \A i \in Id : Announcing(i)' <=> Announcing(i)
  BY <1>2 DEF Announcing
<1>5. CASE UNCHANGED strand
  BY <1>2, <1>3, <1>4, <1>5, ExpiryIdle DEF QueueKept
<1>6. CASE \E n \in Nat, r \in Request : Post(CallOf(h, n, r))
  <2>1. QueueKept
    BY <1>6, HandlerKinds, HandlersDiffer DEF QueueKept
  <2> QED
    BY <1>2, <1>3, <1>4, <2>1, ExpiryIdle
<1>7. ASSUME NEW i \in Id, Post(Erasure(i)) PROVE ExpiryInv'
  <2>1. \A k \in Id : /\ Posted(Expiry(k))' = Posted(Expiry(k))
                      /\ Posted(Erasure(k))' = Posted(Erasure(k)) + (IF i = k THEN 1 ELSE 0)
    BY <1>7, PostedPost, HandlerKinds, HandlersDiffer
  <2>2. \A k \in Id : Expiring(k)' = Expiring(k) /\ Posted(Erasure(k)) \in Nat
    BY <1>2, <1>4, <2>1, ExpiringParts
  <2> QED
    BY <1>3, <2>1, <2>2, ExpiryKept
<1> QED
  BY <1>2, <1>5, <1>6, <1>7

LEMMA ExpiryLambdas ==
  ASSUME TypeInv, ExpiryInv, AddPlace \/ AddPlaceImage \/ GetPlaceImage
  PROVE  ExpiryInv'
<1>1. QueueKept
  <2>1. \E h, n, r : StartOnStrand(CallOf(h, n, r))
    BY DEF AddPlace, AddPlaceImage, GetPlaceImage
  <2> QED
    BY <2>1, HandlersDiffer DEF QueueKept
<1>2. UNCHANGED <<timers, pc, target>>
  BY DEF AddPlace, AddPlaceImage, GetPlaceImage, timerVars
<1>3. TypeOK
  BY DEF TypeInv
<1>4. CASE AddPlace
  <2>1. /\ m_last_place_id' = m_last_place_id + 1
        /\ m_places' = [i \in DOMAIN m_places \cup {m_last_place_id'} |->
                          IF i = m_last_place_id'
                          THEN [image |-> NoImage, scheduled |-> FALSE] ELSE m_places[i]]
    BY <1>4 DEF AddPlace
  <2>2. m_last_place_id \in Nat /\ DOMAIN m_places \subseteq 1 .. m_last_place_id
    BY <1>3 DEF TypeOK
  <2> DEFINE last == m_last_place_id'
  <2>3. /\ last \in Nat /\ last > m_last_place_id
        /\ ~ m_places'[last].scheduled
        /\ DOMAIN m_places' = DOMAIN m_places \cup {last}
        /\ \A i \in DOMAIN m_places : m_places'[i] = m_places[i]
    BY <2>1, <2>2
  <2>4. MarkersKept
    BY <2>2, <2>3 DEF MarkersKept
  <2> QED
    BY <1>1, <1>2, <2>4, ExpiryIdle DEF Announcing
<1>5. CASE AddPlaceImage
  <2>1. \/ UNCHANGED <<m_last_place_id, m_places>>
        \/ \E i \in DOMAIN m_places, image \in Image :
             /\ m_places' = [m_places EXCEPT ![i].image = image]
             /\ UNCHANGED m_last_place_id
    BY <1>5 DEF AddPlaceImage
  <2>2. /\ UNCHANGED m_last_place_id
        /\ DOMAIN m_places' = DOMAIN m_places
        /\ \A k \in DOMAIN m_places : m_places'[k].scheduled = m_places[k].scheduled
    <3>1. \A k \in DOMAIN m_places :
            m_places[k] \in [image : Image \cup {NoImage}, scheduled : BOOLEAN]
      BY <1>3 DEF TypeOK
    <3>2. \A i \in DOMAIN m_places, image \in Image, k \in DOMAIN m_places :
            [m_places EXCEPT ![i].image = image][k].scheduled = m_places[k].scheduled
      BY <3>1
    <3> QED
      BY <1>3, <2>1, <3>2 DEF TypeOK
  <2>3. MarkersKept
    BY <1>3, <2>2 DEF MarkersKept, TypeOK
  <2> QED
    BY <1>1, <1>2, <2>3, ExpiryIdle DEF Announcing
<1>6. CASE GetPlaceImage
  <2>1. MarkersKept
    BY <1>3, <1>6 DEF GetPlaceImage, MarkersKept, TypeOK, markerVars
  <2> QED
    BY <1>1, <1>2, <2>1, ExpiryIdle DEF Announcing
<1> QED
  BY <1>4, <1>5, <1>6

LEMMA ExpiryErase ==
  ASSUME TypeInv, ExpiryInv, ErasePlace
  PROVE  ExpiryInv'
<1>1. PICK i \in Id :
        /\ StartOnStrand(Erasure(i))
        /\ m_places' = [k \in DOMAIN m_places \ {i} |-> m_places[k]]
        /\ UNCHANGED <<m_last_place_id, timerVars, pc, target, left, callVars, told, ioc>>
  BY DEF ErasePlace
<1>2. MarkersKept
  BY <1>1 DEF MarkersKept, TypeInv, TypeOK
<1>3. \A k \in Id : /\ Posted(Expiry(k))' = Posted(Expiry(k))
                    /\ k # i => Posted(Erasure(k))' = Posted(Erasure(k))
  BY <1>1, PostedTake, HandlersDiffer
<1>4. \A k \in Id : Expiring(k)' = Expiring(k)
  BY <1>1, <1>3, ExpiringParts DEF Announcing, timerVars
<1>5. i \notin DOMAIN m_places'
  BY <1>1
<1> QED
  BY <1>2, <1>3, <1>4, <1>5, ExpiryKept

\* Timeout: a marker that it meets for the first time gets its timer.
LEMMA ExpiryDraw ==
  ASSUME TypeInv, ExpiryInv, DrawMarker
  PROVE  ExpiryInv'
<1>1. PICK i \in left :
        /\ left' = left \ {i}
        /\ timers' = [timers EXCEPT ![i] = IF m_places[i].scheduled THEN @ ELSE @ + 1]
        /\ m_places' = [m_places EXCEPT ![i].scheduled = TRUE]
        /\ told' = [told EXCEPT ![i] = "draw_marker"]
  BY DEF DrawMarker
<1>2. /\ UNCHANGED <<m_last_place_id, m_timer, strand, pc, target, callVars, ioc>>
      /\ i \in DOMAIN m_places /\ i \in Id
      /\ TypeOK
  BY DEF DrawMarker, TypeInv, LoopInMap, TypeOK
<1>3. /\ DOMAIN m_places' = DOMAIN m_places
      /\ m_places'[i].scheduled
      /\ \A k \in DOMAIN m_places \ {i} : m_places'[k] = m_places[k]
  BY <1>1, <1>2 DEF TypeOK
<1>4. /\ timers'[i] = IF m_places[i].scheduled THEN timers[i] ELSE timers[i] + 1
      /\ \A k \in Id \ {i} : timers'[k] = timers[k]
  BY <1>1, <1>2 DEF TypeOK
<1>5. \A k \in Id : /\ Posted(Expiry(k))' = Posted(Expiry(k))
                    /\ Posted(Erasure(k))' = Posted(Erasure(k))
                    /\ Announcing(k)' <=> Announcing(k)
  BY <1>2, PostedSame DEF Announcing
<1>6. /\ \A k \in Id \ {i} : Expiring(k)' = Expiring(k)
      /\ Expiring(i)' = IF m_places[i].scheduled THEN Expiring(i) ELSE Expiring(i) + 1
  BY <1>2, <1>4, <1>5, ExpiringParts
<1>7. ~ m_places[i].scheduled => Expiring(i) = 0
  BY <1>2 DEF ExpiryInv, Unscheduled
<1>8. ~ (i > m_last_place_id)
  BY <1>2 DEF TypeOK
<1>9. Unscheduled'
  BY <1>2, <1>3, <1>6, <1>8 DEF ExpiryInv, Unscheduled
<1>10. ExpiryOnce'
  BY <1>2, <1>3, <1>5, <1>6, <1>7 DEF ExpiryInv, ExpiryOnce
<1> QED
  BY <1>9, <1>10 DEF ExpiryInv

\* The deletion timer: armed, posted, announcing the deletion, and then an
\* erasure.
LEMMA ExpiryTimer ==
  ASSUME TypeInv, ExpiryInv,
         (\E i \in Id : DeletionTimerElapsed(i)) \/ ExpirePlace \/ DeletePlaceById(Strand)
  PROVE  ExpiryInv'
<1> USE DEF Proc
<1>1. TypeOK /\ Sessions
  BY DEF TypeInv, CallInv
<1>2. ASSUME NEW i \in Id, DeletionTimerElapsed(i) PROVE ExpiryInv'
  <2>1. MarkersKept
    BY <1>1, <1>2 DEF DeletionTimerElapsed, MarkersKept, TypeOK, markerVars
  <2>2. \A k \in Id : /\ Posted(Expiry(k))' = Posted(Expiry(k)) + (IF i = k THEN 1 ELSE 0)
                      /\ Posted(Erasure(k))' = Posted(Erasure(k))
    BY <1>2, PostedPost, HandlerKinds, HandlersDiffer DEF DeletionTimerElapsed
  <2>3. \A k \in Id : timers'[k] = timers[k] - (IF i = k THEN 1 ELSE 0)
    BY <1>1, <1>2 DEF DeletionTimerElapsed, TypeOK
  <2>4. \A k \in Id : Announcing(k)' <=> Announcing(k)
    BY <1>2 DEF DeletionTimerElapsed, Announcing
  <2>5. \A k \in Id : Expiring(k)' = Expiring(k)
    BY <2>2, <2>3, <2>4, ExpiringParts
  <2> QED
    BY <2>1, <2>2, <2>5, ExpiryKept
<1>3. CASE ExpirePlace
  <2>1. PICK i \in Id :
          /\ StartOnStrand(Expiry(i))
          /\ pc' = [pc EXCEPT ![Strand] = "broadcast"]
          /\ target' = [target EXCEPT ![Strand] = i]
          /\ UNCHANGED <<markerVars, timerVars, left, callVars, told, ioc>>
    BY <1>3 DEF ExpirePlace
  <2>2. MarkersKept
    BY <1>1, <2>1 DEF MarkersKept, TypeOK, markerVars
  <2>3. \A k \in Id : /\ Posted(Expiry(k))' \in Nat
                      /\ Posted(Expiry(k)) = Posted(Expiry(k))' + (IF i = k THEN 1 ELSE 0)
                      /\ Posted(Erasure(k))' = Posted(Erasure(k))
    BY <2>1, PostedTake, HandlersDiffer
  <2>4. \A k \in Id : ~ Announcing(k) /\ (Announcing(k)' <=> k = i)
    BY <1>1, <2>1 DEF Announcing, StartOnStrand, TypeOK
  <2>5. \A k \in Id : Expiring(k)' = Expiring(k)
    BY <2>1, <2>3, <2>4, ExpiringParts DEF timerVars
  <2> QED
    BY <2>2, <2>3, <2>5, ExpiryKept
<1>4. CASE DeleteBroadcast(Strand)
  <2>1. MarkersKept /\ QueueKept /\ UNCHANGED timers
    BY <1>1, <1>4 DEF DeleteBroadcast, MarkersKept, QueueKept, TypeOK, markerVars, timerVars
  <2>2. \A k \in Id : Announcing(k)' <=> Announcing(k)
    BY <1>1, <1>4 DEF DeleteBroadcast, Announcing, TypeOK
  <2> QED
    BY <2>1, <2>2, ExpiryIdle
<1>5. CASE DeletePost(Strand)
  <2> DEFINE i == target[Strand]
  <2>1. i \in Id /\ UNCHANGED <<m_last_place_id, m_places, timers>> /\ Post(Erasure(i))
    BY <1>1, <1>5 DEF DeletePost, Sessions, markerVars, timerVars
  <2>2. \A k \in Id : (Announcing(k) <=> k = i) /\ ~ Announcing(k)'
    BY <1>1, <1>5 DEF DeletePost, Announcing, TypeOK
  <2>3. \E j \in Id : j = i
    BY <2>1
  <2> HIDE DEF i
  <2>4. PICK j \in Id : j = i
    BY <2>3
  <2>5. \A k \in Id : /\ Posted(Expiry(k))' = Posted(Expiry(k))
                      /\ Posted(Erasure(k))' = Posted(Erasure(k)) + (IF j = k THEN 1 ELSE 0)
    BY <2>1, <2>4, PostedPost, HandlerKinds, HandlersDiffer
  <2>6. \A k \in Id : /\ Expiring(k) = Expiring(k)' + (IF j = k THEN 1 ELSE 0)
                      /\ Expiring(k)' \in Nat /\ Posted(Erasure(k)) \in Nat
    BY <2>1, <2>2, <2>4, <2>5, ExpiringParts
  <2>7. Unscheduled'
    BY <2>1, <2>6 DEF ExpiryInv, Unscheduled
  <2>8. ExpiryOnce'
    BY <2>1, <2>5, <2>6 DEF ExpiryInv, ExpiryOnce
  <2> QED
    BY <2>7, <2>8 DEF ExpiryInv
<1> QED
  BY <1>2, <1>3, <1>4, <1>5 DEF DeletePlaceById

LEMMA ExpiryNext == TypeInv /\ ExpiryInv /\ [Next]_placesVars => ExpiryInv'
<1> SUFFICES ASSUME TypeInv, ExpiryInv, [Next]_placesVars PROVE ExpiryInv'
  OBVIOUS
<1>1. TypeOK
  BY DEF TypeInv
<1>2. CASE Timeout
  <2>1. MarkersKept /\ QueueKept /\ UNCHANGED timers
    BY <1>1, <1>2, HandlersDiffer DEF Timeout, MarkersKept, QueueKept, TypeOK, markerVars, timerVars
  <2>2. \A k \in Id : Announcing(k)' <=> Announcing(k)
    BY <1>1, <1>2 DEF Timeout, Announcing, StartOnStrand, TypeOK, Proc
  <2> QED
    BY <2>1, <2>2, ExpiryIdle
<1>3. CASE ScheduleTimeout
  <2>1. MarkersKept /\ QueueKept /\ UNCHANGED timers
    BY <1>1, <1>3 DEF ScheduleTimeout, MarkersKept, QueueKept, TypeOK, markerVars
  <2>2. \A k \in Id : Announcing(k)' <=> Announcing(k)
    BY <1>1, <1>3 DEF ScheduleTimeout, Announcing, TypeOK, Proc
  <2> QED
    BY <2>1, <2>2, ExpiryIdle
<1>4. CASE TimerElapsed
  <2>1. MarkersKept /\ QueueKept /\ UNCHANGED timers
    BY <1>1, <1>4, HandlerKinds, HandlersDiffer
       DEF TimerElapsed, MarkersKept, QueueKept, TypeOK, markerVars
  <2>2. \A k \in Id : Announcing(k)' <=> Announcing(k)
    BY <1>4 DEF TimerElapsed, Announcing
  <2> QED
    BY <2>1, <2>2, ExpiryIdle
<1>5. CASE Stop \/ UNCHANGED placesVars
  <2>1. UNCHANGED <<m_last_place_id, m_places, timers, strand, pc, target>>
    BY <1>5 DEF Stop, placesVars, markerVars, timerVars
  <2>2. MarkersKept /\ QueueKept
    BY <1>1, <2>1 DEF MarkersKept, QueueKept, TypeOK
  <2> QED
    BY <2>1, <2>2, ExpiryIdle DEF Announcing
<1> QED
  BY <1>2, <1>3, <1>4, <1>5, ExpirySessions, ExpiryLambdas, ExpiryErase, ExpiryDraw, ExpiryTimer
     DEF Next, StrandStep

\* ScheduleDelition runs once in the life of a marker, and the expiry it arms is
\* pending, posted or running until the marker's erasure is posted.
THEOREM OneExpiryPerMarker == Spec => []ExpiryOnce
<1>1. TypeInv /\ ExpiryInv /\ [Next]_placesVars => (TypeInv /\ ExpiryInv)'
  BY TypeNext, ExpiryNext
<1>2. Init => TypeInv /\ ExpiryInv
  BY TypeInit, ExpiryInit
<1>3. ExpiryInv => ExpiryOnce
  BY DEF ExpiryInv
<1> QED
  BY <1>1, <1>2, <1>3, PTL DEF Spec

===============================================================================
