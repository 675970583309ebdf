---------------------------- MODULE Server_proofs ----------------------------
(***************************************************************************)
(* Theorems about the whole server: what was proved of the chat core and   *)
(* of the markers apart holds in the process that runs both, where a       *)
(* broadcast of the manager is a broadcast of shared_state.                *)
(***************************************************************************)
EXTENDS Server, ChatPresence_proofs

-------------------------------------------------------------------------------
(* A step of the server in the chat core *)

\* A broadcast of the manager begins.
Begins == \E c \in Caller : BeginBroadcast(c) /\ UNCHANGED boundVars

LEMMA AnnounceBegins ==
  ASSUME NEW p \in Caller, Announce(p)
  PROVE  Begins
BY DEF Announce, Begins, BeginBroadcast

\* A step of the server is a step of the chat core, or the manager begins a
\* broadcast there.
LEMMA ServerStep == [ServerNext]_serverVars => [Next]_allVars \/ Begins
<1> SUFFICES ASSUME [ServerNext]_serverVars PROVE [Next]_allVars \/ Begins
  OBVIOUS
<1>1. ASSUME NEW s \in Session, Handles(s) \/ ClientActs(s) \/ Loses(s) PROVE Next
  BY <1>1 DEF Handles, ClientActs, Loses, OnlySession, Next, SessionStep
<1>2. ASSUME NEW c \in Caller, BroadcastStep(c) PROVE Next
  BY <1>2 DEF BroadcastStep, Next
<1>3. ASSUME NEW p \in Caller, Delete(p) PROVE Begins
  BY <1>3, AnnounceBegins DEF Delete
<1>4. CASE Draw
  BY <1>4, AnnounceBegins, ServerAssumption DEF Draw
<1>5. CASE StopServer
  BY <1>5 DEF StopServer, Next
<1>6. CASE UNCHANGED serverVars
  BY <1>6 DEF serverVars
<1>7. CASE TimerElapsed \/ \E i \in Markers!Id : DeletionTimerElapsed(i)
  BY <1>7 DEF TimerElapsed, DeletionTimerElapsed
<1> QED
  BY <1>1, <1>2, <1>3, <1>4, <1>5, <1>6, <1>7, ServerAssumption
  DEF ServerNext, StrandStep, HttpStep, CallManager, Quiet

\* The inductive invariants of the chat core are invariants of the server.
LEMMA ServerTypes == TypeInv /\ [ServerNext]_serverVars => TypeInv'
BY ServerStep, TypeNext, CallerTypes DEF Begins, TypeInv, BoundTypeOK, boundVars

LEMMA ServerLocks ==
  SingleName /\ TypeInv /\ LockInv /\ [ServerNext]_serverVars => LockInv'
BY ServerStep, LockNext, BroadcastLocks DEF Begins

LEMMA ServerQuiet == TypeInv /\ NewIsQuiet /\ [ServerNext]_serverVars => NewIsQuiet'
BY ServerStep, QuietNext, QuietBroadcast DEF Begins, TypeInv

LEMMA ServerMail == TypeInv /\ MailInv /\ [ServerNext]_serverVars => MailInv'
BY ServerStep, MailNext, MailBroadcast DEF Begins

LEMMA ServerPresence ==
  NamesAreOwn /\ TypeInv /\ LockInv /\ NewIsQuiet /\ PresenceInv /\ [ServerNext]_serverVars
    => PresenceInv'
BY ServerStep, PresenceNext, BroadcastSteps DEF Begins

-------------------------------------------------------------------------------
(* A step of the server in PlacesManager *)

\* What the strands of the sessions and of the broadcasts leave alone.
LEMMA MarkersRest ==
  ASSUME NEW p, HandlerStep(p) \/ ClientStep(p) \/ Break(p) \/ SendCaller(p)
  PROVE  UNCHANGED ioc
BY
DEF HandlerStep, ClientStep, ClientReads, Break, OnRead, Connect, OnAccept, OnSend, OnWrite,
    OnReadOther,
    OnReadLogin, OnReadSendMessage, Request, Fail, Leave, Unlock, JoinSession,
    FetchUndelivered, DrainSend, DrainDelete, CheckOnline, SaveMessage, Echo, Rearm,
    SendSession, SendCaller, wsVars

LEMMA MarkersStep == [ServerNext]_serverVars => [Markers!Next]_Markers!placesVars
<1> SUFFICES ASSUME [ServerNext]_serverVars PROVE [Markers!Next]_Markers!placesVars
  OBVIOUS
<1>1. CASE UNCHANGED <<markersVars, ioc>>
  BY <1>1
  DEF markersVars, Markers!placesVars, Markers!markerVars, Markers!timerVars, Markers!callVars
<1>2. ASSUME NEW s \in Session, Handles(s) \/ ClientActs(s) \/ Loses(s)
      PROVE  UNCHANGED <<markersVars, ioc>>
  BY <1>2, MarkersRest DEF Handles, ClientActs, Loses, OnlySession
<1>3. ASSUME NEW c \in Caller, BroadcastStep(c) PROVE UNCHANGED <<markersVars, ioc>>
  BY <1>3, MarkersRest DEF BroadcastStep
<1>4. CASE StrandStep
  BY <1>4
  DEF StrandStep, Draw, Delete, Quiet, Markers!Next, Markers!StrandStep, Markers!DeletePlaceById
<1>5. ASSUME NEW h \in Http, CallManager(h) \/ HttpStep(h) PROVE Markers!Next
  BY <1>5
  DEF CallManager, HttpStep, Delete, Quiet, Markers!Next, Markers!HttpStep,
      Markers!DeletePlaceById
<1>6. CASE TimerElapsed \/ (\E i \in Markers!Id : DeletionTimerElapsed(i)) \/ StopServer
  BY <1>6 DEF TimerElapsed, DeletionTimerElapsed, StopServer, Markers!Next
<1>7. CASE UNCHANGED serverVars
  BY <1>1, <1>7 DEF serverVars, allVars, vars, wsVars
<1> QED
  BY <1>1, <1>2, <1>3, <1>4, <1>5, <1>6, <1>7 DEF ServerNext

\* The server implements PlacesManager, where a broadcast is one step: whatever
\* the sessions and their threads do meanwhile.
THEOREM ServerImplementsMarkers == ServerSpec => Markers!Spec
<1>1. ServerInit => Markers!Init
  BY DEF ServerInit
<1> QED
  BY <1>1, MarkersStep, PTL DEF ServerSpec, Markers!Spec

-------------------------------------------------------------------------------
(* The properties of the chat core, in the server *)

\* With the manager's broadcasts too, a queued message of a session whose stream
\* works has a write in flight, and a write its message (websocket_session.cpp:137-170).
THEOREM ServerWritersAwake == ServerSpec => []WriterAwake
<1> DEFINE Inv == TypeInv /\ NewIsQuiet /\ QueuedIsWritten
<1>1. ServerInit => Inv
  BY TypeInit, WriteInit DEF ServerInit
<1>2. Inv /\ [ServerNext]_serverVars => Inv'
  <2>1. Inv /\ Begins => QueuedIsWritten'
    BY DEF Begins, BeginBroadcast, QueuedIsWritten, wsVars
  <2> QED BY <2>1, ServerStep, ServerTypes, ServerQuiet, QueuedNext
<1>3. Inv => WriterAwake
  BY DEF TypeInv, ChatTypeInv, WritingHasMessage, QueuedIsWritten, WriterAwake
<1> QED BY <1>1, <1>2, <1>3, PTL DEF ServerSpec

\* Messages of the manager's broadcasts and of the sessions' own leave a session
\* in the order of the calls of send(), each once (websocket_session.cpp:120-170).
THEOREM ServerImplementsOutbox == ServerSpec => FifoOutbox
<1>1. ServerInit => TypeInv /\ FIFO!Init
  BY TypeInit, OutboxInit DEF ServerInit
<1>2. TypeInv /\ [ServerNext]_serverVars => [FIFO!Next]_Chan
  <2>1. Begins => UNCHANGED Chan
    BY DEF Begins, BeginBroadcast, Chan, Outgoing, wsVars, memberVars
  <2> QED BY <2>1, ServerStep, OutboxNext
<1> QED
  BY <1>1, <1>2, ServerTypes, PTL DEF ServerSpec, FIFO!Spec, FifoOutbox

\* A message leaves the Messages table only when a session of its addressee has
\* it to send (websocket_session.cpp:88-96).
THEOREM ServerDeletesWhenPosted == ServerSpec => DeletedOnlyWhenPosted
<1> DEFINE Posting == \A row \in messages \ messages' :
                        \E s \in Session :
                          m_login[s] = row[1]
                          /\ \E i \in DOMAIN posted[s] : posted[s][i] = DirectMsg(row[2])
<1>1. ServerInit => TypeInv /\ MailInv
  BY TypeInit, MailInit DEF ServerInit
<1>2. TypeInv /\ MailInv /\ [ServerNext]_serverVars => (TypeInv /\ MailInv)'
  BY ServerTypes, ServerMail
<1>3. TypeInv /\ MailInv /\ [ServerNext]_serverVars => [Posting]_allVars
  <2>1. Begins => messages' = messages
    BY DEF Begins, BeginBroadcast
  <2> QED BY <2>1, ServerStep, DeletedIsPosted
<1> QED
  BY <1>1, <1>2, <1>3, PTL DEF ServerSpec, DeletedOnlyWhenPosted

\* What the server keeps when every client has a name of its own.
LEMMA ServerInvariant ==
  ASSUME NamesAreOwn
  PROVE  ServerSpec => [](TypeInv /\ LockInv /\ NewIsQuiet /\ PresenceInv)
<1>1. SingleName
  BY DEF NamesAreOwn
<1>2. ServerInit => TypeInv /\ LockInv /\ NewIsQuiet /\ PresenceInv
  BY TypeInit, LockInit, WriteInit, PresenceInit DEF ServerInit
<1>3. TypeInv /\ LockInv /\ NewIsQuiet /\ PresenceInv /\ [ServerNext]_serverVars
        => (TypeInv /\ LockInv /\ NewIsQuiet /\ PresenceInv)'
  BY <1>1, ServerTypes, ServerLocks, ServerQuiet, ServerPresence
<1> QED BY <1>2, <1>3, PTL DEF ServerSpec

\* The marker strand and the HTTP sessions, which broadcast from strands of their
\* own, bring no circle of strands that wait for one another's m_login_mutex, and
\* none with m_mutex but those of a directed send and the failing session it is for
\* (websocket_session.cpp:28-33, 120-135; PlacesManager.cpp:112, 152).
THEOREM ServerNeverCycles == ASSUME SingleName PROVE ServerSpec => [](NoSessionCycle /\ CirclesAreInversions)
<1>1. ServerInit => TypeInv /\ LockInv
  BY TypeInit, LockInit DEF ServerInit
<1>2. TypeInv /\ LockInv /\ [ServerNext]_serverVars => (TypeInv /\ LockInv)'
  BY ServerTypes, ServerLocks
<1>3. TypeInv /\ LockInv => NoSessionCycle /\ CirclesAreInversions
  BY LockInvSafe, LockInvCircles
<1> QED BY <1>1, <1>2, <1>3, PTL DEF ServerSpec

\* In the server as in the chat core, the clients' pictures of each other are
\* those of m_sessions, or on the way to be, and no client that is connected is
\* missing there (shared_state.cpp:23-67).
THEOREM ServerPresenceNeverStale ==
  ASSUME NamesAreOwn PROVE ServerSpec => [](ConnectedClientsListed /\ NoStalePresence)
<1>1. PresenceInv => ConnectedClientsListed /\ NoStalePresence
  BY DEF PresenceInv
<1> QED BY <1>1, ServerInvariant, PTL

\* In the server too, a letter that userLoggedIn sent on its way is dropped only
\* after a connection of its addressee failed (websocket_session.cpp:106-109).
THEOREM ServerLettersAreLostToFailures ==
  ASSUME SingleName PROVE ServerSpec => []LettersLostOnlyByFailure
<1> DEFINE Inv == TypeInv /\ LockInv /\ LetterInv
<1>1. ServerInit => Inv
  BY TypeInit, LockInit, LetterInit DEF ServerInit
<1>2. Inv /\ [ServerNext]_serverVars => Inv'
  <2>1. TypeInv /\ LetterInv /\ Begins => LetterInv'
    <3> SUFFICES ASSUME TypeInv, LetterInv, NEW c \in Caller, BeginBroadcast(c)
                 PROVE  LetterInv'
      BY DEF Begins
    <3>1. UNCHANGED <<m_sessions, m_login, conn, ret, dest>>
          /\ \A p \in Session : pc'[p] = pc[p]
      BY NamesAssumption
      DEF BeginBroadcast, registryVars, memberVars, wsVars, TypeInv, ChatTypeInv, FrameTypeOK, Proc
    <3> QED
      BY <3>1
      DEF LetterInv, LeaveIsBroken, FindNamesSomebody, LettersLostOnlyByFailure, userLoggedIn
  <2> QED BY <2>1, ServerStep, ServerTypes, ServerLocks, LetterNext
<1>3. Inv => LettersLostOnlyByFailure
  BY DEF LetterInv
<1> QED BY <1>1, <1>2, <1>3, PTL DEF ServerSpec

===============================================================================
