-------------------------------- MODULE Server --------------------------------
(***************************************************************************)
(* The chat core and the markers in one process: the broadcasts of         *)
(* PlacesManager, one step there, are made by the code of shared_state, on *)
(* the marker strand and on the strands of HTTP sessions; and one pool of  *)
(* threads runs them all.                                                  *)
(*                                                                         *)
(* The registry and the sessions are those of ChatServer, Markers is       *)
(* PlacesManager.  The process neither crashes nor loses its database      *)
(* here.                                                                   *)
(***************************************************************************)
EXTENDS ChatServer

CONSTANTS Http, Strand, Image, NoImage, MaxPlaces, MaxCalls,
  MaxBacklog  \* bound: messages a listed session may have when the timer expires

ASSUME ServerAssumption ==
  /\ Caller = Http \cup {Strand}
  /\ MaxBacklog \in Nat \ {0}

VARIABLES
  m_last_place_id, m_places, m_timer, timers, strand, mpc, target, left,
  request, future, calls, told

Markers == INSTANCE PlacesManager WITH pc <- mpc

markersVars == <<m_last_place_id, m_places, m_timer, timers, strand, mpc, target,
                 left, request, future, calls, told>>
serverVars == <<allVars, markersVars>>

\* Strands whose handler occupies a thread.
Working == {p \in Proc : pc[p] # "idle" \/ (p \in Caller /\ mpc[p] # "idle")}

ThreadFree == Cardinality(Working) < Threads

-------------------------------------------------------------------------------
(* Steps of the sessions, and of a broadcast *)

\* What a step of a session's strand leaves alone, and the thread it needs.
OnlySession(s) ==
  /\ pc[s] = "idle" => ThreadFree
  /\ UNCHANGED <<boundVars, markersVars>>

Handles(s) == OnlySession(s) /\ HandlerStep(s)
ClientActs(s) == OnlySession(s) /\ ClientStep(s)

Loses(s) == Break(s) /\ UNCHANGED <<boundVars, markersVars>>

\* p goes on with its send().
BroadcastStep(p) == SendCaller(p) /\ UNCHANGED markersVars

-------------------------------------------------------------------------------
(* Steps of the manager and of its callers *)

\* p calls send("", ...) about a marker.
Announce(p) ==
  /\ pc[p] = "idle"
  /\ pc' = [pc EXCEPT ![p] = "snapshot"]
  /\ UNCHANGED <<registryVars, memberVars, ret, dest, msg, todo, cur>>
  /\ UNCHANGED <<wsVars, messages, boundVars>>

Delete(p) == Markers!DeleteBroadcast(p) /\ Announce(p)

Draw == Markers!DrawMarker /\ Announce(Strand)

\* A step of p that announces nothing, once its last broadcast is over.
Quiet(p, Step) ==
  /\ pc[p] = "idle"
  /\ mpc[p] = "idle" => ThreadFree
  /\ Step
  /\ UNCHANGED allVars

StrandStep ==
  \/ Draw \/ Delete(Strand)
  \/ Quiet(Strand, \/ Markers!AddPlace \/ Markers!AddPlaceImage \/ Markers!GetPlaceImage
                   \/ Markers!ErasePlace \/ Markers!Timeout \/ Markers!ScheduleTimeout
                   \/ Markers!ExpirePlace \/ Markers!DeletePost(Strand))

HttpStep(h) ==
  Delete(h) \/ Quiet(h, Markers!FutureReady(h) \/ Markers!DeletePost(h))

CallManager(h) == Quiet(h, Markers!CallManager(h))

TimerElapsed ==
  /\ ThreadFree
  /\ \A s \in Registered : Len(Outgoing(s)) < MaxBacklog
  /\ Markers!TimerElapsed
  /\ UNCHANGED allVars

DeletionTimerElapsed(i) ==
  /\ ThreadFree
  /\ Markers!DeletionTimerElapsed(i)
  /\ UNCHANGED allVars

StopServer == Stop /\ Markers!Stop

-------------------------------------------------------------------------------

ServerInit ==
  /\ Init
  /\ Markers!Init

ServerNext ==
  \/ \E s \in Session : Handles(s) \/ ClientActs(s) \/ Loses(s)
  \/ \E c \in Caller : BroadcastStep(c)
  \/ StrandStep
  \/ \E h \in Http : CallManager(h) \/ HttpStep(h)
  \/ TimerElapsed
  \/ \E i \in Markers!Id : DeletionTimerElapsed(i)
  \/ StopServer

\* As in ChatServer and PlacesManager: clients, failures and signals are free.
ServerFairness ==
  /\ \A s \in Session : WF_serverVars(Handles(s))
  /\ \A c \in Caller : WF_serverVars(BroadcastStep(c))
  /\ WF_serverVars(StrandStep)
  /\ \A h \in Http : WF_serverVars(HttpStep(h))
  /\ WF_serverVars(TimerElapsed)
  /\ \A i \in Markers!Id : WF_serverVars(DeletionTimerElapsed(i))

ServerSpec == ServerInit /\ [][ServerNext]_serverVars /\ ServerFairness

-------------------------------------------------------------------------------

\* Every client takes what is written to it.
ClientsRead == \A s \in Session : WF_serverVars(OnlySession(s) /\ ClientReads(s))

\* What PlacesManager assumes of its environment holds in the server: whatever
\* the sessions do, fail while they are sent to, or keep their threads busy, a
\* broadcast ends, and the marker strand, its callers and its timers go on as in
\* PlacesManager, where a broadcast is one step.  A client that does not read
\* holds up none of that in the code, but it does hold up the timer here, through
\* the bound MaxBacklog: hence the premise.
MarkersProgress == ClientsRead => Markers!Fairness

===============================================================================
