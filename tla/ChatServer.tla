------------------------------ MODULE ChatServer ------------------------------
(***************************************************************************)
(* The chat core of the server: the WebSocket sessions, the registry, the  *)
(* Messages table, and the other strands that broadcast (the timers of     *)
(* PlacesManager and the HTTP handler of delete_marker), run by the        *)
(* threads of main.cpp; with loss of a connection, SIGINT, and a crash     *)
(* followed by a restart on the same database.                             *)
(***************************************************************************)
EXTENDS WebsocketSession

CONSTANTS
  MaxBroadcasts, \* bound: broadcasts per caller
  MaxRestarts,   \* bound: crashes
  MaySignal      \* whether the run includes SIGINT

ASSUME BoundsAssumption ==
  MaxBroadcasts \in Nat /\ MaxRestarts \in Nat /\ MaySignal \in BOOLEAN

VARIABLES
  casts,         \* bound: caller -> broadcasts so far
  restarts       \* bound: crashes so far

boundVars == <<casts, restarts>>
allVars == <<vars, boundVars>>

-------------------------------------------------------------------------------

\* A strand other than a session's calls send("", ...).
Broadcast(c) ==
  /\ CanRun(c)
  /\ casts[c] < MaxBroadcasts
  /\ casts' = [casts EXCEPT ![c] = @ + 1]
  /\ pc' = [pc EXCEPT ![c] = "snapshot"]
  /\ UNCHANGED <<registryVars, memberVars, ret, dest, msg, todo, cur>>
  /\ UNCHANGED <<wsVars, messages, restarts>>

SendCaller(c) ==
  SendStep(c, Alive) /\ UNCHANGED <<wsVars, messages, boundVars>>

SessionStep(s) == HandlerStep(s) /\ UNCHANGED boundVars

\* SIGINT or SIGTERM: ioc.stop().  Running handlers finish, no other starts.
Stop ==
  /\ MaySignal
  /\ ioc = "running"
  /\ ioc' = "stopped"
  /\ UNCHANGED <<sharedVars, conn, rd, wr, queue_, undelivered, reply, messages,
                 reads, boundVars>>

\* The process ends at any point (power loss, std::terminate after an
\* exception that no handler catches, the end of main) and is started again;
\* only the database survives.
Crash ==
  /\ restarts < MaxRestarts
  /\ restarts' = restarts + 1
  /\ SharedReset
  /\ WsReset
  /\ UNCHANGED <<messages, reads, casts>>

Init ==
  /\ SharedInit
  /\ WsInit
  /\ messages = {}
  /\ reads = [s \in Session |-> 0]
  /\ casts = [c \in Caller |-> 0]
  /\ restarts = 0

Next ==
  \/ \E s \in Session : SessionStep(s)
  \/ \E s \in Session : ClientStep(s) /\ UNCHANGED boundVars
  \/ \E s \in Session : Break(s) /\ UNCHANGED boundVars
  \/ \E c \in Caller : Broadcast(c) \/ SendCaller(c)
  \/ Stop
  \/ Crash

Spec == Init /\ [][Next]_allVars

\* The threads of the pool keep running: a handler that is ready or running is
\* not left alone for ever.  Clients, which need neither write nor read,
\* failures, signals and crashes are free.
Fairness ==
  /\ \A s \in Session : WF_allVars(SessionStep(s))
  /\ \A c \in Caller : WF_allVars(SendCaller(c))

FairSpec == Spec /\ Fairness

\* What Fairness does not say of s: that its client takes what is written to it.
ClientGoesOnReading(s) == WF_allVars(ClientReads(s) /\ UNCHANGED boundVars)

-------------------------------------------------------------------------------
(* Types *)

\* Every variable holds a value of its C++ type: what the registry, a session's
\* members and a strand's frame may contain.
TypeOK ==
  /\ RegistryTypeOK
  /\ MemberTypeOK
  /\ FrameTypeOK
  /\ WsTypeOK
  /\ casts \in [Caller -> Nat]
  /\ restarts \in Nat

-------------------------------------------------------------------------------
(* The write chain of a session (websocket_session.cpp:137-170) *)

\* No lost wake-up and no second writer: as long as the stream works, a write
\* is in flight exactly when queue_ holds something, so a queued message
\* always has an on_write to come, and on_write never erases the front of an
\* empty queue; and no async_write is started while another is pending.
WriterAwake ==
  \A s \in Session :
    /\ wr[s] # "overlap"
    /\ wr[s] # "none" => queue_[s] # <<>>
    /\ queue_[s] # <<>> /\ conn[s] = "open" => wr[s] # "none"

\* The posted handlers and queue_ together are a first-in first-out channel:
\* the session implements Outbox.
Outgoing(s) == queue_[s] \o posted[s]

Chan == [s \in Session |-> Outgoing(s)]

FIFO == INSTANCE Outbox WITH chan <- Chan

FifoOutbox == FIFO!Spec

-------------------------------------------------------------------------------
(* Stored messages (websocket_session.cpp:88-96) *)

\* A stored message is deleted only when a session logged in under the
\* addressee's name has it among its posted messages: a crash or a broken
\* connection before that point leaves it in the database.
DeletedOnlyWhenPosted ==
  [][\A row \in messages \ messages' :
       \E s \in Session : m_login[s] = row[1]
                         /\ \E i \in DOMAIN posted[s] : posted[s][i] = DirectMsg(row[2])]_allVars

-------------------------------------------------------------------------------
(* Shutdown *)

Running == {p \in Proc : pc[p] # "idle"}

\* After ioc.stop() every running handler returns, so that the threads can be
\* joined (main.cpp:74-76, 93-95).
ShutdownCompletes == (ioc = "stopped") ~> (Running = {})

-------------------------------------------------------------------------------
(* The registry and the clients it stands for *)

\* Once its login has been handled, a client whose connection works is in
\* m_sessions, "a list of all the connected clients" (shared_state.hpp:32-33).
ConnectedClientsListed ==
  \A s \in Session :
    conn[s] = "open" /\ m_login[s] # NoLogin /\ pc[s] # "join" => s \in Registered

\* As long as the process runs, a session leaves m_sessions only when its own
\* connection has failed: what "a list of all the connected clients" promises
\* of two connections under one name.  leave() erases by name, so it does not hold.
ListedUntilBroken ==
  [][restarts' = restarts =>
       \A s \in Registered \ Registered' : conn[s] = "broken"]_allVars

\* A client whose connection failed does not stay in m_sessions.
BrokenClientLeaves ==
  \A s \in Session :
    (conn[s] = "broken" /\ s \in Registered) ~> (s \notin Registered \/ ioc = "stopped")

\* userLoggedIn and the send that follows look the addressee up twice.  A letter
\* whose addressee was found on line, and which the second look-up drops, was
\* lost to a failed connection of that addressee and to nothing else: to one
\* that never came it is stored.
LettersLostOnlyByFailure ==
  \A p \in Session :
    pc[p] = "find" /\ ret[p] = "echo" /\ ~userLoggedIn(dest[p])
      => \E t \in Session : m_login[t] = dest[p] /\ conn[t] = "broken"

-------------------------------------------------------------------------------
(* What clients are told about each other *)

\* The presence messages about u.
News(u) == {LoginMsg(u), LogoutMsg(u)}

\* m is the last of the messages in S that q holds.
IsLast(m, S, q) ==
  \E i \in DOMAIN q : q[i] = m /\ \A j \in DOMAIN q : j > i => q[j] \notin S

\* m is the last presence message about u that o has still to be sent.
LastNews(m, u, o) == IsLast(m, News(u), Outgoing(o))

\* Some strand is broadcasting m and will still reach o.
OnItsWay(m, o) ==
  \E p \in Proc :
    /\ msg[p] = m
    /\ \/ pc[p] = "snapshot"
       \/ cur[p] = o
       \/ \E e \in todo[p] : e[2] = o

\* The last presence message queued for a listed client about u is what the
\* registry says of u, or the correction is on its way: the registry is changed
\* before the broadcast, and the two do not come apart for a client that is
\* listed while they run.  With names of their own, all news of u comes from one
\* strand; two connections of one user can overtake each other.
NoStalePresence ==
  \A o \in Registered, u \in Login :
    conn[o] = "open" =>
      /\ LastNews(LoginMsg(u), u, o) /\ ~userLoggedIn(u) => OnItsWay(LogoutMsg(u), o)
      /\ LastNews(LogoutMsg(u), u, o) /\ userLoggedIn(u) => OnItsWay(LoginMsg(u), o)

-------------------------------------------------------------------------------
(* Progress of messages *)

\* Messages given to a session whose connection works are all written, if its
\* client goes on reading.
OutgoingDrains ==
  \A s \in Session :
    ClientGoesOnReading(s) =>
      ((Outgoing(s) # <<>>)
         ~> (Outgoing(s) = <<>> \/ conn[s] = "broken" \/ ioc = "stopped"))

\* A message stored before its addressee's login is handled leaves the table:
\* the login hands it over.
SavedMailIsHandedOver ==
  \A s \in Session, u \in Login, c \in Content :
    (pc[s] = "undelivered" /\ dest[s] = u /\ <<u, c>> \in messages)
      ~> (<<u, c>> \notin messages)

===============================================================================
