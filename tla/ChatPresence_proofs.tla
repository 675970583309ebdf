-------------------------- MODULE ChatPresence_proofs --------------------------
(***************************************************************************)
(* The registry and what clients are told about each other, for any number *)
(* of sessions and strands, when every client keeps to one name and no two *)
(* share it: who is listed, until when, and that the last login_user or    *)
(* logout_user queued for a client about another agrees with the registry  *)
(* or is about to be corrected.                                            *)
(***************************************************************************)
EXTENDS ChatLocks_proofs, ChatMessages_proofs

\* No two clients log in with the same name.
DistinctNames ==
  \A s, t \in Session : s # t => Names[s] \cap Names[t] \subseteq {NoLogin}

NamesAreOwn == SingleName /\ DistinctNames

-------------------------------------------------------------------------------
(* The inductive invariant *)

\* fail() runs on a broken connection only.
LeaveIsBroken == \A s \in Session : pc[s] = "leave" => conn[s] = "broken"

\* Until it is registered, nothing is queued for a session, and nobody holds a
\* pointer to it: what reaches it later was sent after its Join.
UnlistedUntouched ==
  \A o \in Session : conn[o] # "broken" /\ o \notin Registered =>
    queue_[o] = <<>> /\ posted[o] = <<>> /\ \A p \in Proc : o \notin Reach(p)

Broadcasting(p) == pc[p] \in {"snapshot", "foreach", "session_send"}

IsNews(m) == m.method \in {"login_user", "logout_user"}

\* A presence message that is being broadcast comes from the strand of the
\* session it is about, and agrees with the registry to the end.
NewsIsTrue ==
  \A p \in Proc, u \in Login : Broadcasting(p) =>
    /\ msg[p] = LoginMsg(u) => p \in Session /\ m_login[p] = u /\ m_sessions[u] = p
    /\ msg[p] = LogoutMsg(u) => p \in Session /\ m_login[p] = u /\ m_sessions[u] = None

\* The other routines that reach send() carry no presence message.
OthersBringNoNews ==
  \A p \in Proc :
    p \in Caller \/ pc[p] \in {"check", "save", "echo", "find"}
      \/ (Broadcasting(p) /\ ret[p] \in {"echo", "rearm"})
    => ~IsNews(msg[p])

PresenceInv ==
  /\ ConnectedClientsListed
  /\ LeaveIsBroken
  /\ UnlistedUntouched
  /\ NewsIsTrue
  /\ OthersBringNoNews
  /\ NoStalePresence

-------------------------------------------------------------------------------
(* Messages and queues *)

LEMMA NewsFacts ==
  /\ \A u : IsNews(LoginMsg(u)) /\ IsNews(LogoutMsg(u))
  /\ \A u, v : LoginMsg(u) # LogoutMsg(v)
  /\ \A u, v : LoginMsg(u) = LoginMsg(v) \/ LogoutMsg(u) = LogoutMsg(v) => u = v
  /\ \A c : ~IsNews(DirectMsg(c))
  /\ ~IsNews(MarkerMsg)
<1>1. \A u : LoginMsg(u).method = "login_user" /\ LogoutMsg(u).method = "logout_user"
  BY DEF LoginMsg, LogoutMsg
<1>2. \A u : LoginMsg(u).login = u /\ LogoutMsg(u).login = u
  BY DEF LoginMsg, LogoutMsg
<1>3. \A c : DirectMsg(c).method = "send_message" /\ MarkerMsg.method = "marker"
  BY DEF DirectMsg, MarkerMsg
<1> HIDE DEF LoginMsg, LogoutMsg, DirectMsg, MarkerMsg
<1> QED BY <1>1, <1>2, <1>3 DEF IsNews

\* After an append the last of S is the new element, or it is the old one and the
\* new element is not in S.
LEMMA LastAppend ==
  ASSUME NEW M, NEW q \in Seq(M), NEW x \in M, NEW S, NEW m \in S,
         IsLast(m, S, Append(q, x))
  PROVE  x = m \/ (x \notin S /\ IsLast(m, S, q))
<1> DEFINE r == Append(q, x)
<1>1. /\ DOMAIN q = 1 .. Len(q) /\ Len(q) \in Nat /\ DOMAIN r = 1 .. Len(q) + 1
      /\ \A i \in DOMAIN q : i \in DOMAIN r /\ r[i] = q[i]
      /\ r[Len(q) + 1] = x
  BY AppendProperties, LenProperties
<1>2. PICK i \in DOMAIN r : r[i] = m /\ \A j \in DOMAIN r : j > i => r[j] \notin S
  BY DEF IsLast
<1> HIDE DEF r
<1>3. CASE i = Len(q) + 1
  BY <1>1, <1>2, <1>3
<1>4. CASE i # Len(q) + 1
  <2>1. i \in DOMAIN q /\ x \notin S
    BY <1>1, <1>2, <1>4
  <2> QED BY <1>1, <1>2, <2>1 DEF IsLast
<1> QED BY <1>3, <1>4

LEMMA LastTail ==
  ASSUME NEW M, NEW q \in Seq(M), q # <<>>, NEW S, NEW m, IsLast(m, S, Tail(q))
  PROVE  IsLast(m, S, q)
<1> DEFINE t == Tail(q)
<1>1. /\ t \in Seq(M) /\ Len(t) = Len(q) - 1 /\ Len(q) \in Nat /\ Len(q) > 0
      /\ \A i \in 1 .. Len(t) : t[i] = q[i + 1]
      /\ DOMAIN q = 1 .. Len(q)
  BY EmptySeq, LenProperties, HeadTailProperties
<1>2. DOMAIN t = 1 .. Len(t)
  BY <1>1, LenProperties
<1>3. PICK i \in DOMAIN t : t[i] = m /\ \A j \in DOMAIN t : j > i => t[j] \notin S
  BY DEF IsLast
<1> HIDE DEF t
<1>4. i + 1 \in DOMAIN q /\ q[i + 1] = m
  BY <1>1, <1>2, <1>3
<1>5. ASSUME NEW j \in DOMAIN q, j > i + 1 PROVE q[j] \notin S
  <2>1. j - 1 \in DOMAIN t /\ j - 1 > i /\ t[j - 1] = q[j]
    BY <1>1, <1>2, <1>3, <1>5
  <2> QED BY <1>3, <2>1
<1> QED BY <1>4, <1>5 DEF IsLast

\* What a post to s means for the last presence message about u.
LEMMA NewsAfterPost ==
  ASSUME ChatTypeInv, NEW s \in Session, NEW m \in Message, PostTo(s, m), UNCHANGED queue_,
         NEW o \in Session, NEW u, NEW n \in News(u), LastNews(n, u, o)'
  PROVE  \/ LastNews(n, u, o) /\ (o # s \/ m_login[s] = NoLogin \/ m \notin News(u))
         \/ o = s /\ m = n
<1> USE DEF ChatTypeInv, MemberTypeOK, WsTypeOK
<1>1. CASE o # s \/ m_login[s] = NoLogin
  BY <1>1 DEF PostTo, LastNews, Outgoing
<1>2. CASE o = s /\ m_login[s] # NoLogin
  <2>1. Outgoing(o)' = Append(Outgoing(o), m)
    BY <1>2, ConcatAppend DEF PostTo, Outgoing
  <2>2. Outgoing(o) \in Seq(Message)
    BY ConcatProperties DEF Outgoing
  <2> QED BY <1>2, <2>1, <2>2, LastAppend DEF LastNews
<1> QED BY <1>1, <1>2

-------------------------------------------------------------------------------
(* The registry *)

LEMMA RegisteredMeans ==
  ASSUME NEW t
  PROVE  t \in Registered <=> t # None /\ \E l \in Login : m_sessions[l] = t
<1>1. ASSUME NEW l \in Login, m_sessions[l] = t, t # None PROVE t \in Registered
  <2>1. <<l, t>> \in Entries /\ <<l, t>>[2] = t
    BY <1>1 DEF Entries
  <2> QED BY <2>1 DEF Registered
<1> QED BY <1>1 DEF Registered, Entries

LEMMA RegisteredByName ==
  ASSUME TypeInv, LockInv, NEW s \in Session
  PROVE  s \in Registered <=> m_login[s] \in Login /\ m_sessions[m_login[s]] = s
<1>1. s # None
  BY NamesAssumption
<1>2. ASSUME NEW l \in Login, m_sessions[l] = s PROVE m_login[s] = l
  BY <1>1, <1>2 DEF LockInv, ListedUnderOwnName
<1> QED BY <1>1, <1>2, RegisteredMeans

LEMMA NameHasOneOwner ==
  ASSUME NamesAreOwn, LockInv, NEW s \in Session, NEW t \in Session,
         m_login[s] = m_login[t], m_login[s] \in Login
  PROVE  s = t
BY NamesAssumption DEF NamesAreOwn, DistinctNames, LockInv, OneNameEach

LEMMA JoinEffect ==
  ASSUME NamesAreOwn, TypeInv, LockInv, NEW s \in Session, JoinSession(s)
  PROVE  /\ m_login[s] \in Login => m_sessions'[m_login[s]] = s
         /\ \A l \in Login : l # m_login[s] => m_sessions'[l] = m_sessions[l]
         /\ Registered \subseteq Registered' /\ Registered' \subseteq Registered \cup {s}
<1> USE DEF TypeInv, ChatTypeInv, RegistryTypeOK, LockInv
<1>1. /\ dest[s] = m_login[s]
      /\ m_sessions' = [m_sessions EXCEPT ![dest[s]] = IF @ = None THEN s ELSE @]
  BY DEF JoinSession, Join, OneNameEach
<1>2. ASSUME m_login[s] \in Login PROVE m_sessions'[m_login[s]] = s
  <2>1. CASE m_sessions[m_login[s]] = None
    BY <1>1, <1>2, <2>1
  <2>2. CASE m_sessions[m_login[s]] # None
    <3> DEFINE t == m_sessions[m_login[s]]
    <3>1. t \in Session /\ m_login[t] = m_login[s]
      BY <1>2, <2>2 DEF ListedUnderOwnName
    <3>2. t = s
      BY <1>2, <3>1, NameHasOneOwner
    <3> QED BY <1>1, <1>2, <2>2, <3>2
  <2> QED BY <2>1, <2>2
<1>3. \A l \in Login : l # m_login[s] => m_sessions'[l] = m_sessions[l]
  BY <1>1
<1>4. Registered \subseteq Registered' /\ Registered' \subseteq Registered \cup {s}
  BY <1>1 DEF Registered, Entries
<1> QED BY <1>2, <1>3, <1>4

LEMMA LeaveEffect ==
  ASSUME NamesAreOwn, TypeInv, LockInv, NEW s \in Session, Leave(s)
  PROVE  /\ m_login[s] \in Login => m_sessions'[m_login[s]] = None
         /\ \A l \in Login : l # m_login[s] => m_sessions'[l] = m_sessions[l]
         /\ Registered' \subseteq Registered /\ Registered \subseteq Registered' \cup {s}
<1> USE DEF TypeInv, ChatTypeInv, RegistryTypeOK, LockInv
<1>1. m_sessions' = [l \in Login |-> IF l = m_login[s] THEN None ELSE m_sessions[l]]
  BY DEF Leave, leave
<1>2. Registered' \subseteq Registered
  BY <1>1 DEF Registered, Entries
<1>3. ASSUME NEW t \in Registered, t # s PROVE t \in Registered'
  <2>1. PICK l \in Login : m_sessions[l] = t /\ t # None
    BY <1>3, RegisteredMeans
  <2>2. t \in Session /\ m_login[t] = l
    BY <2>1 DEF ListedUnderOwnName
  <2>3. l # m_login[s]
    BY <1>3, <2>1, <2>2, NameHasOneOwner
  <2>4. m_sessions'[l] = t
    BY <1>1, <2>1, <2>3
  <2>5. <<l, t>> \in Entries' /\ <<l, t>>[2] = t
    BY <2>1, <2>4 DEF Entries
  <2> QED BY <2>5 DEF Registered
<1> QED BY <1>1, <1>2, <1>3

\* Only Join and leave change the registry, and a crash.
LEMMA RegistryKept ==
  ASSUME [Next]_allVars, ~Crash, ~ \E s \in Session : JoinSession(s) \/ Leave(s)
  PROVE  UNCHANGED m_sessions
BY DEF Next, SessionStep, HandlerStep, ClientStep, ClientReads, OnRead, SendSession, SendCaller, SendStep,
       Connect, OnAccept, OnSend, OnWrite, OnReadOther, Break, Fail, Unlock, OnReadLogin,
       OnReadSendMessage, Request, RequestRead, FetchUndelivered, DrainSend, DrainDelete,
       CheckOnline, SaveMessage, Echo, Rearm, Snapshot, ForEach, Find, SessionSend,
       Broadcast, Stop, allVars, vars, sharedVars, registryVars

-------------------------------------------------------------------------------
(* Steps outside Join, leave and send() *)

LEMMA IdleIsNoWitness ==
  ASSUME TypeInv, LockInv, NEW p \in Proc, ~Broadcasting(p), NEW o \in Session
  PROVE  pc[p] # "snapshot" /\ cur[p] # o /\ todo[p] = {} /\ o \notin Reach(p)
BY NamesAssumption
DEF TypeInv, ChatTypeInv, SendTarget, LockInv, ListInUse, Broadcasting, Reach

\* A step of the strand of s that leaves the registry and the broadcasts alone,
\* posts nothing about anybody's presence, and fails only on a broken connection.
LEMMA LocalKeeps ==
  ASSUME TypeInv, LockInv, NewIsQuiet, PresenceInv, NEW s \in Session,
         UNCHANGED <<m_sessions, todo, cur>>, ~Broadcasting(s),
         \A q \in Proc \ {s} : pc'[q] = pc[q] /\ ret'[q] = ret[q] /\ msg'[q] = msg[q],
         \A q \in Session \ {s} : m_login'[q] = m_login[q],
         pc'[s] \in {"check", "save", "echo", "find"} \/ Broadcasting(s)' => ~IsNews(msg'[s]),
         pc'[s] = "leave" => conn'[s] = "broken",
         m_login'[s] # NoLogin /\ pc'[s] # "join" => m_login'[s] = m_login[s] /\ pc[s] # "join",
         \A o \in Session :
           /\ conn[o] = "broken" => conn'[o] = "broken"
           /\ conn'[o] = "open" => conn[o] \in {"new", "open"}
           /\ conn[o] # "broken" /\ o \notin Registered /\ queue_[o] = <<>> /\ posted[o] = <<>>
              => queue_'[o] = <<>> /\ posted'[o] = <<>>,
         \A o \in Session, u \in Login : \A m \in News(u) : LastNews(m, u, o)' => LastNews(m, u, o)
  PROVE  PresenceInv'
<1> USE DEF PresenceInv, Proc
<1>1. Registered' = Registered /\ \A x : Reach(x)' = Reach(x)
  BY DEF Registered, Entries, Reach
<1>2. ConnectedClientsListed'
  <2> SUFFICES ASSUME NEW t \in Session, conn'[t] = "open", m_login'[t] # NoLogin, pc'[t] # "join"
               PROVE  t \in Registered
    BY <1>1 DEF ConnectedClientsListed
  <2>1. m_login[t] # NoLogin /\ pc[t] # "join"
    OBVIOUS
  <2>2. conn[t] = "open"
    BY <2>1 DEF NewIsQuiet
  <2> QED BY <2>1, <2>2 DEF ConnectedClientsListed
<1>3. LeaveIsBroken'
  BY DEF LeaveIsBroken
<1>4. UnlistedUntouched'
  BY <1>1 DEF UnlistedUntouched
<1>5. NewsIsTrue'
  <2> SUFFICES ASSUME NEW p \in Proc, NEW u \in Login, Broadcasting(p)',
                      msg'[p] \in News(u)
               PROVE  /\ p # s
                      /\ Broadcasting(p) /\ msg'[p] = msg[p]
    BY DEF NewsIsTrue, News
  <2>1. p # s
    BY NewsFacts DEF News
  <2> QED BY <2>1 DEF Broadcasting
<1>6. OthersBringNoNews'
  <2> SUFFICES ASSUME NEW p \in Proc,
                      \/ p \in Caller \/ pc'[p] \in {"check", "save", "echo", "find"}
                      \/ Broadcasting(p)' /\ ret'[p] \in {"echo", "rearm"}
               PROVE  ~IsNews(msg'[p])
    BY DEF OthersBringNoNews
  <2>1. CASE p = s
    BY <2>1, NamesAssumption
  <2>2. CASE p # s
    BY <2>2 DEF OthersBringNoNews, Broadcasting
  <2> QED BY <2>1, <2>2
<1>7. NoStalePresence'
  <2>1. ASSUME NEW o \in Session, NEW m, OnItsWay(m, o) PROVE OnItsWay(m, o)'
    BY <2>1, IdleIsNoWitness DEF OnItsWay
  <2>2. ASSUME NEW o \in Registered, conn'[o] = "open" PROVE o \in Session /\ conn[o] = "open"
    <3>1. o \in Session
      BY RegisteredMeans DEF TypeInv, ChatTypeInv, RegistryTypeOK
    <3>2. m_login[o] # NoLogin
      BY <3>1, RegisteredByName, NamesAssumption
    <3> QED BY <2>2, <3>1, <3>2 DEF NewIsQuiet
  <2>3. \A u \in Login : userLoggedIn(u)' = userLoggedIn(u)
    BY DEF userLoggedIn
  <2>4. \A u : LoginMsg(u) \in News(u) /\ LogoutMsg(u) \in News(u)
    BY DEF News
  <2> SUFFICES ASSUME NEW o \in Registered, NEW u \in Login, conn'[o] = "open"
               PROVE  /\ LastNews(LoginMsg(u), u, o)' /\ ~userLoggedIn(u) => OnItsWay(LogoutMsg(u), o)'
                      /\ LastNews(LogoutMsg(u), u, o)' /\ userLoggedIn(u) => OnItsWay(LoginMsg(u), o)'
    BY <1>1, <2>3 DEF NoStalePresence
  <2> QED BY <2>1, <2>2, <2>4 DEF NoStalePresence
<1> QED BY <1>2, <1>3, <1>4, <1>5, <1>6, <1>7

\* A connection breaks, or nothing that presence depends on changes.
LEMMA StreamKeeps ==
  ASSUME TypeInv, PresenceInv, UNCHANGED <<sharedVars, queue_>>,
         \A o \in Session : conn'[o] \in {conn[o], "broken"}
  PROVE  PresenceInv'
<1> USE DEF PresenceInv, sharedVars, registryVars, memberVars, frameVars
<1>1. Registered' = Registered /\ \A x : Reach(x)' = Reach(x)
  BY DEF Registered, Entries, Reach
<1>2. ConnectedClientsListed' /\ LeaveIsBroken' /\ UnlistedUntouched'
  BY <1>1 DEF ConnectedClientsListed, LeaveIsBroken, UnlistedUntouched
<1>3. NewsIsTrue' /\ OthersBringNoNews'
  BY DEF NewsIsTrue, OthersBringNoNews, Broadcasting
<1>4. \A o \in Registered : conn'[o] = "open" => conn[o] = "open"
  <2>1. Registered \subseteq Session
    BY RegisteredMeans DEF TypeInv, ChatTypeInv, RegistryTypeOK
  <2> QED BY <2>1
<1>5. NoStalePresence'
  BY <1>1, <1>4 DEF NoStalePresence, LastNews, Outgoing, userLoggedIn, OnItsWay
<1> QED BY <1>2, <1>3, <1>5

LEMMA QueueSteps ==
  ASSUME TypeInv, LockInv, NewIsQuiet, PresenceInv, NEW s \in Session,
         OnSend(s) \/ OnWrite(s)
  PROVE  PresenceInv'
<1> USE DEF TypeInv, ChatTypeInv, MemberTypeOK, WsTypeOK
<1>1. pc[s] = "idle" /\ UNCHANGED <<m_sessions, m_login, frameVars, conn>>
  BY DEF OnSend, OnWrite, CanRun, registryVars, sharedVars, memberVars
<1>2. ASSUME NEW o \in Session, NEW u \in Login, NEW m \in News(u), LastNews(m, u, o)'
      PROVE  LastNews(m, u, o)
  <2>1. CASE OnSend(s)
    <3>1. Outgoing(o)' = Outgoing(o)
      BY <2>1, OnSendMoves DEF Chan
    <3> QED BY <1>2, <3>1 DEF LastNews
  <2>2. CASE OnWrite(s) /\ o = s
    <3>1. queue_[s] # <<>> /\ queue_'[s] = Tail(queue_[s]) /\ posted' = posted
      BY <2>2 DEF OnWrite, WritingHasMessage, sharedVars, memberVars
    <3>2. queue_[s] \in Seq(Message) /\ posted[s] \in Seq(Message)
      OBVIOUS
    <3>3. queue_[s] \o posted[s] # <<>>
          /\ Tail(queue_[s] \o posted[s]) = Tail(queue_[s]) \o posted[s]
      BY <3>1, <3>2, TailConcat
    <3>4. /\ Outgoing(s)' = Tail(Outgoing(s)) /\ Outgoing(s) # <<>>
          /\ Outgoing(s) \in Seq(Message)
      BY <3>1, <3>2, <3>3, ConcatProperties DEF Outgoing
    <3> QED BY <1>2, <2>2, <3>4, LastTail DEF LastNews
  <2>3. CASE OnWrite(s) /\ o # s
    BY <1>2, <2>3 DEF OnWrite, LastNews, Outgoing, sharedVars, memberVars
  <2> QED BY <2>1, <2>2, <2>3
<1>3. \A o \in Session : queue_[o] = <<>> /\ posted[o] = <<>> =>
                          queue_'[o] = <<>> /\ posted'[o] = <<>>
  BY DEF OnSend, OnWrite, WritingHasMessage, sharedVars, memberVars
<1> QED BY <1>1, <1>2, <1>3, LocalKeeps DEF Broadcasting, frameVars, Proc

LEMMA ChainSteps ==
  ASSUME TypeInv, LockInv, NewIsQuiet, PresenceInv, NEW s \in Session,
         Connect(s) \/ OnAccept(s) \/ OnReadOther(s)
  PROVE  PresenceInv'
<1>1. /\ pc[s] = "idle" /\ UNCHANGED sharedVars /\ UNCHANGED queue_
      /\ \A o \in Session : conn'[o] = conn[o] \/ (conn[o] = "new" /\ conn'[o] = "open")
  BY DEF Connect, OnAccept, OnReadOther, RequestRead, CanRun, TypeInv, ChatTypeInv, WsTypeOK
<1>2. \A m, u, o : LastNews(m, u, o)' = LastNews(m, u, o)
  BY <1>1 DEF LastNews, Outgoing, sharedVars, memberVars
<1> QED
  BY <1>1, <1>2, LocalKeeps
  DEF Broadcasting, sharedVars, registryVars, memberVars, frameVars, Proc, TypeInv,
      ChatTypeInv, WsTypeOK

LEMMA FailSteps ==
  ASSUME TypeInv, LockInv, NewIsQuiet, PresenceInv, NEW s \in Session,
         Fail(s) \/ Unlock(s)
  PROVE  PresenceInv'
<1>1. /\ UNCHANGED <<m_sessions, m_login, posted, todo, cur, conn, queue_>>
      /\ pc[s] \in {"idle", "unlock"} /\ pc'[s] \in {"leave", "idle"}
      /\ pc'[s] = "leave" => conn[s] = "broken"
      /\ \A q \in Proc \ {s} : pc'[q] = pc[q] /\ ret'[q] = ret[q] /\ msg'[q] = msg[q]
  BY DEF Fail, PendingError, Unlock, CanRun, PopFrame, registryVars, TypeInv, ChatTypeInv,
         FrameTypeOK, Proc
<1>2. \A m, u, o : LastNews(m, u, o)' = LastNews(m, u, o)
  BY <1>1 DEF LastNews, Outgoing
<1> QED BY <1>1, <1>2, LocalKeeps DEF Broadcasting, TypeInv, ChatTypeInv, WsTypeOK

\* on_read outside Join and send().
LEMMA ReadSteps ==
  ASSUME TypeInv, LockInv, NewIsQuiet, PresenceInv, NEW s \in Session,
         \/ OnReadLogin(s) \/ FetchUndelivered(s) \/ DrainDelete(s) \/ Rearm(s)
         \/ OnReadSendMessage(s) \/ CheckOnline(s) \/ SaveMessage(s) \/ Echo(s)
  PROVE  PresenceInv'
<1> USE DEF TypeInv, ChatTypeInv, FrameTypeOK, MemberTypeOK, WsTypeOK, Proc, registryVars,
            memberVars, wsVars
<1>1. /\ UNCHANGED <<m_sessions, posted, todo, cur, conn, queue_>>
      /\ \A q \in Session \ {s} : m_login'[q] = m_login[q]
      /\ \A q \in Proc \ {s} : pc'[q] = pc[q] /\ ret'[q] = ret[q] /\ msg'[q] = msg[q]
  BY DEF OnReadLogin, FetchUndelivered, DrainDelete, Rearm, PopFrame, OnReadSendMessage,
         Request, CheckOnline, SaveMessage, Echo, SendReply
<1>2. \A m, u, o : LastNews(m, u, o)' = LastNews(m, u, o)
  BY <1>1 DEF LastNews, Outgoing
<1>3. CASE OnReadLogin(s)
  <2>1. /\ pc[s] = "idle" /\ pc'[s] \in {"idle", "join"}
        /\ pc'[s] = "idle" => m_login'[s] = NoLogin
    BY <1>3 DEF OnReadLogin, Request, RequestRead, CanRun
  <2> QED BY <1>1, <1>2, <2>1, LocalKeeps DEF Broadcasting
<1>4. CASE FetchUndelivered(s) \/ DrainDelete(s) \/ Rearm(s)
  <2>1. /\ pc[s] \in {"undelivered", "delete", "rearm", "drain"}
        /\ pc'[s] \in {"drain", "idle"} /\ UNCHANGED m_login
    BY <1>4 DEF FetchUndelivered, DrainDelete, Rearm, PopFrame
  <2> QED BY <1>1, <1>2, <2>1, LocalKeeps DEF Broadcasting
<1>5. CASE OnReadSendMessage(s)
  <2>1. /\ pc[s] = "idle" /\ pc'[s] = "check" /\ UNCHANGED m_login
        /\ ~IsNews(msg'[s])
    BY <1>5, NewsFacts DEF OnReadSendMessage, Request, RequestRead, CanRun
  <2> QED BY <1>1, <1>2, <2>1, LocalKeeps DEF Broadcasting
<1>6. CASE CheckOnline(s) \/ SaveMessage(s) \/ Echo(s)
  <2>1. /\ pc[s] \in {"check", "save", "echo"} /\ UNCHANGED <<m_login, msg>>
        /\ pc'[s] \in {"snapshot", "find", "save"}
    BY <1>6 DEF CheckOnline, SaveMessage, Echo, SendReply, SendTo
  <2>2. ~IsNews(msg'[s])
    BY <2>1 DEF PresenceInv, OthersBringNoNews
  <2> QED BY <1>1, <1>2, <2>1, <2>2, LocalKeeps DEF Broadcasting
<1> QED BY <1>3, <1>4, <1>5, <1>6

\* The loop over undelivered_messages posts to its own session, which is listed
\* by then unless its name is empty.
LEMMA DrainSteps ==
  ASSUME TypeInv, LockInv, NewIsQuiet, PresenceInv, NEW s \in Session, DrainSend(s)
  PROVE  PresenceInv'
<1> USE DEF TypeInv, ChatTypeInv, FrameTypeOK, MemberTypeOK, WsTypeOK, Proc
<1>1. PICK c \in undelivered[s] : PostTo(s, DirectMsg(c)) /\ DirectMsg(c) \in Message
  BY MessageTypes DEF DrainSend
<1>2. /\ UNCHANGED <<m_sessions, m_login, ret, todo, cur, conn, queue_>>
      /\ pc[s] = "drain" /\ pc'[s] = "delete"
      /\ \A q \in Proc \ {s} : pc'[q] = pc[q] /\ msg'[q] = msg[q]
  BY DEF DrainSend, registryVars
<1>3. \A u \in Login : DirectMsg(c) \notin News(u)
  BY NewsFacts DEF News
<1>4. \A o \in Session, u \in Login : \A m \in News(u) : LastNews(m, u, o)' => LastNews(m, u, o)
  BY <1>1, <1>2, <1>3, NewsAfterPost
<1>5. conn[s] # "broken" /\ s \notin Registered => m_login[s] = NoLogin
  BY <1>2 DEF PresenceInv, ConnectedClientsListed, NewIsQuiet
<1>6. \A o \in Session : conn[o] # "broken" /\ o \notin Registered /\ posted[o] = <<>>
                          => posted'[o] = <<>>
  BY <1>1, <1>5 DEF PostTo
<1> QED BY <1>2, <1>4, <1>6, LocalKeeps DEF Broadcasting

-------------------------------------------------------------------------------
(* Join and leave: the registry changes, and the broadcast begins *)

\* Both start a broadcast of n, about the name of s, and touch no other entry.
LEMMA BroadcastStarts ==
  ASSUME NamesAreOwn, TypeInv, LockInv, PresenceInv, NEW s \in Session, NEW n,
         UNCHANGED <<m_login, posted, todo, cur, conn, queue_>>,
         pc[s] \in {"join", "leave"}, pc'[s] = "snapshot",
         ret'[s] \in {"undelivered", "unlock"}, msg'[s] = n,
         \A q \in Proc \ {s} : pc'[q] = pc[q] /\ ret'[q] = ret[q] /\ msg'[q] = msg[q],
         \A l \in Login : l # m_login[s] => m_sessions'[l] = m_sessions[l],
         \/ /\ n = LoginMsg(m_login[s])
            /\ m_login[s] \in Login => m_sessions'[m_login[s]] = s
         \/ /\ n = LogoutMsg(m_login[s])
            /\ m_login[s] \in Login => m_sessions'[m_login[s]] = None
  PROVE  LeaveIsBroken' /\ NewsIsTrue' /\ OthersBringNoNews'
<1> USE DEF PresenceInv, Proc
<1>1. LeaveIsBroken'
  BY DEF LeaveIsBroken
<1>2. NewsIsTrue'
  <2> SUFFICES ASSUME NEW p \in Proc, NEW u \in Login, Broadcasting(p)'
               PROVE  /\ msg'[p] = LoginMsg(u) =>
                           p \in Session /\ m_login[p] = u /\ m_sessions'[u] = p
                      /\ msg'[p] = LogoutMsg(u) =>
                           p \in Session /\ m_login[p] = u /\ m_sessions'[u] = None
    BY DEF NewsIsTrue
  <2>1. CASE p = s
    BY <2>1, NewsFacts
  <2>2. CASE p # s
    <3>1. Broadcasting(p) /\ msg'[p] = msg[p]
      BY <2>2 DEF Broadcasting
    <3>2. ASSUME msg[p] = LoginMsg(u) \/ msg[p] = LogoutMsg(u)
          PROVE  m_sessions'[u] = m_sessions[u]
      <4>1. p \in Session /\ m_login[p] = u
        BY <3>1, <3>2 DEF NewsIsTrue
      <4>2. u # m_login[s]
        BY <2>2, <4>1, NameHasOneOwner
      <4> QED BY <4>2
    <3> QED BY <3>1, <3>2 DEF NewsIsTrue
  <2> QED BY <2>1, <2>2
<1>3. OthersBringNoNews'
  <2>1. s \notin Caller
    BY NamesAssumption
  <2> QED BY <2>1 DEF OthersBringNoNews, Broadcasting
<1> QED BY <1>1, <1>2, <1>3

\* Any other broadcast is still on its way, and the new one sets out to everybody.
LEMMA NewsSetsOut ==
  ASSUME TypeInv, LockInv, NEW s \in Session, ~Broadcasting(s),
         UNCHANGED <<todo, cur>>, pc'[s] = "snapshot",
         \A q \in Proc \ {s} : pc'[q] = pc[q] /\ msg'[q] = msg[q]
  PROVE  \A o \in Session : \A n :
           /\ n = msg'[s] => OnItsWay(n, o)'
           /\ OnItsWay(n, o) => OnItsWay(n, o)'
<1> SUFFICES ASSUME NEW o \in Session, NEW n
             PROVE  /\ n = msg'[s] => OnItsWay(n, o)'
                    /\ OnItsWay(n, o) => OnItsWay(n, o)'
  OBVIOUS
<1>1. n = msg'[s] => OnItsWay(n, o)'
  BY DEF OnItsWay, Proc
<1>2. OnItsWay(n, o) => OnItsWay(n, o)'
  BY IdleIsNoWitness DEF OnItsWay, Proc
<1> QED BY <1>1, <1>2

LEMMA JoinSteps ==
  ASSUME NamesAreOwn, TypeInv, LockInv, NewIsQuiet, PresenceInv, NEW s \in Session, JoinSession(s)
  PROVE  PresenceInv'
<1> USE DEF TypeInv, ChatTypeInv, FrameTypeOK
<1>1. /\ UNCHANGED <<m_login, posted, todo, cur, conn, queue_>>
      /\ pc[s] = "join" /\ pc'[s] = "snapshot" /\ ret'[s] = "undelivered"
      /\ msg'[s] = LoginMsg(m_login[s])
      /\ \A q \in Proc \ {s} : pc'[q] = pc[q] /\ ret'[q] = ret[q] /\ msg'[q] = msg[q]
  BY DEF JoinSession, Join, memberVars, wsVars, LockInv, OneNameEach, Proc
<1>2. /\ m_login[s] \in Login => m_sessions'[m_login[s]] = s
      /\ \A l \in Login : l # m_login[s] => m_sessions'[l] = m_sessions[l]
      /\ Registered \subseteq Registered' /\ Registered' \subseteq Registered \cup {s}
  BY JoinEffect
<1>3. LeaveIsBroken' /\ NewsIsTrue' /\ OthersBringNoNews'
  BY <1>1, <1>2, BroadcastStarts
<1>4. ConnectedClientsListed'
  <2>1. m_login[s] # NoLogin => s \in Registered'
    <3>1. m_login[s] \in SomeLogin
      BY DEF MemberTypeOK
    <3>2. m_login[s] \in Login => <<m_login[s], s>> \in Entries' /\ <<m_login[s], s>>[2] = s
      BY <1>2, NamesAssumption DEF Entries
    <3> QED BY <3>1, <3>2 DEF SomeLogin, Registered
  <2> QED
    BY <1>1, <1>2, <2>1 DEF PresenceInv, ConnectedClientsListed, Proc
<1>5. UnlistedUntouched'
  BY <1>1, <1>2 DEF PresenceInv, UnlistedUntouched, Reach
<1>6. NoStalePresence'
  <2> SUFFICES ASSUME NEW o \in Registered', NEW u \in Login, conn[o] = "open"
               PROVE  /\ LastNews(LoginMsg(u), u, o) /\ ~userLoggedIn(u)'
                           => OnItsWay(LogoutMsg(u), o)'
                      /\ LastNews(LogoutMsg(u), u, o) /\ userLoggedIn(u)'
                           => OnItsWay(LoginMsg(u), o)'
    BY <1>1 DEF NoStalePresence, LastNews, Outgoing
  <2>1. o \in Session
    BY <1>2, RegisteredMeans DEF RegistryTypeOK
  <2>2. /\ u = m_login[s] => OnItsWay(LoginMsg(u), o)'
        /\ \A n : OnItsWay(n, o) => OnItsWay(n, o)'
    BY <1>1, <2>1, NewsSetsOut DEF Broadcasting
  <2>3. CASE o \notin Registered
    <3>1. Outgoing(o) = <<>>
      BY <2>1, <2>3, ConcatEmptySeq, EmptySeq DEF PresenceInv, UnlistedUntouched, Outgoing
    <3>2. \A m : ~LastNews(m, u, o)
      BY <3>1 DEF LastNews, IsLast
    <3> QED BY <3>2
  <2>4. CASE o \in Registered /\ u = m_login[s]
    <3>1. userLoggedIn(u)'
      BY <1>2, <2>4, NamesAssumption DEF userLoggedIn
    <3> QED BY <2>2, <2>4, <3>1
  <2>5. CASE o \in Registered /\ u # m_login[s]
    <3>1. userLoggedIn(u)' = userLoggedIn(u)
      BY <1>2, <2>5 DEF userLoggedIn
    <3> QED BY <2>2, <2>5, <3>1 DEF PresenceInv, NoStalePresence
  <2> QED BY <2>3, <2>4, <2>5
<1> QED BY <1>3, <1>4, <1>5, <1>6 DEF PresenceInv

LEMMA LeaveSteps ==
  ASSUME NamesAreOwn, TypeInv, LockInv, NewIsQuiet, PresenceInv, NEW s \in Session, Leave(s)
  PROVE  PresenceInv'
<1> USE DEF TypeInv, ChatTypeInv, FrameTypeOK
<1>1. /\ UNCHANGED <<m_login, posted, todo, cur, conn, queue_>>
      /\ pc[s] = "leave" /\ pc'[s] = "snapshot" /\ ret'[s] = "unlock"
      /\ msg'[s] = LogoutMsg(m_login[s])
      /\ \A q \in Proc \ {s} : pc'[q] = pc[q] /\ ret'[q] = ret[q] /\ msg'[q] = msg[q]
  BY DEF Leave, leave, memberVars, wsVars, Proc
<1>2. /\ m_login[s] \in Login => m_sessions'[m_login[s]] = None
      /\ \A l \in Login : l # m_login[s] => m_sessions'[l] = m_sessions[l]
      /\ Registered' \subseteq Registered /\ Registered \subseteq Registered' \cup {s}
  BY LeaveEffect
<1>3. LeaveIsBroken' /\ NewsIsTrue' /\ OthersBringNoNews'
  BY <1>1, <1>2, BroadcastStarts
<1>4. conn[s] = "broken"
  BY <1>1 DEF PresenceInv, LeaveIsBroken
<1>5. ConnectedClientsListed' /\ UnlistedUntouched'
  BY <1>1, <1>2, <1>4 DEF PresenceInv, ConnectedClientsListed, UnlistedUntouched, Reach, Proc
<1>6. NoStalePresence'
  <2> SUFFICES ASSUME NEW o \in Registered', NEW u \in Login, conn[o] = "open"
               PROVE  /\ LastNews(LoginMsg(u), u, o) /\ ~userLoggedIn(u)'
                           => OnItsWay(LogoutMsg(u), o)'
                      /\ LastNews(LogoutMsg(u), u, o) /\ userLoggedIn(u)'
                           => OnItsWay(LoginMsg(u), o)'
    BY <1>1 DEF NoStalePresence, LastNews, Outgoing
  <2>1. o \in Session /\ o \in Registered
    BY <1>2, RegisteredMeans DEF RegistryTypeOK
  <2>2. /\ u = m_login[s] => OnItsWay(LogoutMsg(u), o)'
        /\ \A n : OnItsWay(n, o) => OnItsWay(n, o)'
    BY <1>1, <2>1, NewsSetsOut DEF Broadcasting
  <2>3. CASE u = m_login[s]
    <3>1. ~userLoggedIn(u)'
      BY <1>2, <2>3 DEF userLoggedIn
    <3> QED BY <2>2, <2>3, <3>1
  <2>4. CASE u # m_login[s]
    <3>1. userLoggedIn(u)' = userLoggedIn(u)
      BY <1>2, <2>4 DEF userLoggedIn
    <3> QED BY <2>1, <2>2, <3>1 DEF PresenceInv, NoStalePresence
  <2> QED BY <2>3, <2>4
<1> QED BY <1>3, <1>5, <1>6 DEF PresenceInv

-------------------------------------------------------------------------------
(* send(), run by any strand *)

\* What no step of send() touches but the routine's own frame, and the queue of
\* the session reached.
LEMMA SendFrame ==
  ASSUME TypeInv, NEW p \in Proc, SendStep(p, Alive)
  PROVE  /\ UNCHANGED <<m_sessions, m_login, ret, msg>>
         /\ pc[p] \in {"snapshot", "foreach", "find", "session_send"}
         /\ pc'[p] \in {"foreach", "session_send", ret[p]}
         /\ \A q \in Proc \ {p} : pc'[q] = pc[q] /\ todo'[q] = todo[q] /\ cur'[q] = cur[q]
<1> USE DEF TypeInv, ChatTypeInv, FrameTypeOK, registryVars, memberVars
<1>1. CASE Snapshot(p)
  BY <1>1 DEF Snapshot, LoopOn
<1>2. CASE ForEach(p, Alive)
  <2>1. PICK e \in todo[p] :
          /\ todo' = [todo EXCEPT ![p] = @ \ {e}]
          /\ \/ cur' = [cur EXCEPT ![p] = e[2]] /\ pc' = [pc EXCEPT ![p] = "session_send"]
             \/ UNCHANGED cur /\ pc' = [pc EXCEPT ![p] = LoopOn(p, todo[p] \ {e})]
    BY <1>2 DEF ForEach
  <2> QED BY <1>2, <2>1 DEF ForEach, LoopOn
<1>3. CASE Find(p)
  BY <1>3 DEF Find
<1>4. CASE SessionSend(p)
  BY <1>4 DEF SessionSend, LoopOn
<1> QED BY <1>1, <1>2, <1>3, <1>4 DEF SendStep

\* Whom send() reaches: those it reached before, and listed sessions.
LEMMA SendReaches ==
  ASSUME TypeInv, NEW p \in Proc, SendStep(p, Alive), NEW x \in Proc
  PROVE  Reach(x)' \subseteq Reach(x) \cup Registered
<1> USE DEF TypeInv, ChatTypeInv, FrameTypeOK
<1>1. CASE x # p
  BY <1>1, SendFrame DEF Reach
<1>2. CASE x = p /\ Snapshot(p)
  BY <1>2 DEF Snapshot, Reach, Registered
<1>3. CASE x = p /\ ForEach(p, Alive)
  <2>1. PICK e \in todo[p] :
          /\ todo' = [todo EXCEPT ![p] = @ \ {e}]
          /\ cur' = [cur EXCEPT ![p] = e[2]] \/ UNCHANGED cur
    BY <1>3 DEF ForEach
  <2> QED BY <1>3, <2>1 DEF Reach
<1>4. CASE x = p /\ Find(p)
  <2>1. UNCHANGED todo /\ (UNCHANGED cur \/ (/\ userLoggedIn(dest[p])
                                             /\ cur' = [cur EXCEPT ![p] = m_sessions[dest[p]]]))
    BY <1>4 DEF Find
  <2>2. userLoggedIn(dest[p]) => m_sessions[dest[p]] \in Registered
    BY RegisteredMeans DEF userLoggedIn
  <2> QED BY <1>4, <2>1, <2>2 DEF Reach
<1>5. CASE x = p /\ SessionSend(p)
  BY <1>5, NamesAssumption DEF SessionSend, Reach
<1> QED BY <1>1, <1>2, <1>3, <1>4, <1>5 DEF SendStep

\* A message on its way to a listed session stays on its way until that session's
\* send() is called with it.
LEMMA StaysOnItsWay ==
  ASSUME TypeInv, NEW p \in Proc, SendStep(p, Alive), NEW o \in Registered, NEW n, OnItsWay(n, o)
  PROVE  OnItsWay(n, o)' \/ (SessionSend(p) /\ cur[p] = o /\ msg[p] = n)
<1> USE DEF TypeInv, ChatTypeInv, FrameTypeOK
<1>1. PICK q \in Proc :
        /\ msg[q] = n
        /\ pc[q] = "snapshot" \/ cur[q] = o \/ \E e \in todo[q] : e[2] = o
  BY DEF OnItsWay
<1>2. msg'[q] = n
  BY <1>1, SendFrame
<1>3. o \in Session /\ o \in Alive
  BY RegisteredMeans DEF RegistryTypeOK, Alive
<1>4. CASE q # p
  BY <1>1, <1>2, <1>4, SendFrame DEF OnItsWay
<1>5. CASE q = p /\ Snapshot(p)
  <2>1. \E e \in Entries : e[2] = o
    BY DEF Registered
  <2>2. \E e \in todo'[p] : e[2] = o
    BY <1>5, <2>1 DEF Snapshot
  <2> QED BY <1>2, <1>5, <2>2 DEF OnItsWay
<1>6. CASE q = p /\ ForEach(p, Alive)
  <2>1. PICK e \in todo[p] :
          /\ todo' = [todo EXCEPT ![p] = @ \ {e}]
          /\ IF e[2] \in Alive THEN cur' = [cur EXCEPT ![p] = e[2]] ELSE UNCHANGED cur
    BY <1>6 DEF ForEach
  <2>2. pc[p] = "foreach" /\ cur[p] = None
    BY <1>6 DEF ForEach, SendTarget
  <2>3. PICK d \in todo[p] : d[2] = o
    BY <1>1, <1>3, <1>6, <2>2, NamesAssumption
  <2>4. CASE d = e
    <3>1. cur'[p] = o
      BY <1>3, <2>1, <2>3, <2>4
    <3> QED BY <1>2, <1>6, <3>1 DEF OnItsWay
  <2>5. CASE d # e
    <3>1. d \in todo'[p]
      BY <2>1, <2>5
    <3> QED BY <1>2, <1>6, <2>3, <3>1 DEF OnItsWay
  <2> QED BY <2>4, <2>5
<1>7. CASE q = p /\ Find(p)
  <2>1. pc[p] = "find" /\ cur[p] = None /\ todo' = todo
    BY <1>7 DEF Find, SendTarget
  <2> QED BY <1>1, <1>2, <1>3, <1>7, <2>1, NamesAssumption DEF OnItsWay
<1>8. CASE q = p /\ SessionSend(p)
  <2>1. pc[p] = "session_send" /\ todo' = todo
    BY <1>8 DEF SessionSend
  <2> QED BY <1>1, <1>2, <1>8, <2>1 DEF OnItsWay
<1> QED BY <1>4, <1>5, <1>6, <1>7, <1>8 DEF SendStep

LEMMA SendSteps ==
  ASSUME TypeInv, LockInv, NewIsQuiet, PresenceInv, NEW p \in Proc, SendStep(p, Alive),
         UNCHANGED <<conn, queue_>>
  PROVE  PresenceInv'
<1> USE DEF TypeInv, ChatTypeInv, FrameTypeOK, MemberTypeOK
<1>1. /\ UNCHANGED <<m_sessions, m_login, ret, msg>>
      /\ pc[p] \in {"snapshot", "foreach", "find", "session_send"}
      /\ pc'[p] \in {"foreach", "session_send", ret[p]}
      /\ \A q \in Proc \ {p} : pc'[q] = pc[q] /\ todo'[q] = todo[q] /\ cur'[q] = cur[q]
  BY SendFrame
<1>2. Registered' = Registered /\ \A u \in Login : userLoggedIn(u)' = userLoggedIn(u)
  BY <1>1 DEF Registered, Entries, userLoggedIn
<1>3. ret[p] \in {"idle", "undelivered", "echo", "rearm", "unlock"}
  BY DEF Ret
<1>4. ConnectedClientsListed' /\ LeaveIsBroken'
  BY <1>1, <1>2, <1>3 DEF PresenceInv, ConnectedClientsListed, LeaveIsBroken, Proc
<1>5. \A s \in Session : cur[p] # s => posted'[s] = posted[s]
  BY DEF SendStep, Snapshot, ForEach, Find, SessionSend, PostTo, memberVars
<1>6. UnlistedUntouched'
  <2> SUFFICES ASSUME NEW o \in Session, conn[o] # "broken", o \notin Registered
               PROVE  /\ queue_[o] = <<>> /\ posted'[o] = <<>>
                      /\ \A x \in Proc : o \notin Reach(x)'
    BY <1>2 DEF UnlistedUntouched
  <2>1. queue_[o] = <<>> /\ posted[o] = <<>> /\ \A x \in Proc : o \notin Reach(x)
    BY DEF PresenceInv, UnlistedUntouched
  <2>2. posted'[o] = posted[o]
    BY <1>5, <2>1 DEF Reach
  <2> QED BY <2>1, <2>2, SendReaches
<1>7. NewsIsTrue'
  <2>1. ASSUME NEW q \in Proc, NEW u \in Login, Broadcasting(q)', msg[q] \in News(u)
        PROVE  Broadcasting(q)
    <3>1. CASE q # p
      BY <1>1, <2>1, <3>1 DEF Broadcasting
    <3>2. CASE q = p
      <4>1. IsNews(msg[p])
        BY <2>1, <3>2, NewsFacts DEF News
      <4> QED BY <1>1, <3>2, <4>1 DEF PresenceInv, OthersBringNoNews, Broadcasting
    <3> QED BY <3>1, <3>2
  <2> QED BY <1>1, <2>1 DEF PresenceInv, NewsIsTrue, News
<1>8. OthersBringNoNews'
  <2> SUFFICES ASSUME NEW q \in Proc,
                      \/ q \in Caller \/ pc'[q] \in {"check", "save", "echo", "find"}
                      \/ Broadcasting(q)' /\ ret[q] \in {"echo", "rearm"}
               PROVE  ~IsNews(msg[q])
    BY <1>1 DEF OthersBringNoNews
  <2>1. CASE q = p
    BY <1>1, <1>3, <2>1 DEF PresenceInv, OthersBringNoNews, Broadcasting
  <2>2. CASE q # p
    BY <1>1, <2>2 DEF PresenceInv, OthersBringNoNews, Broadcasting
  <2> QED BY <2>1, <2>2
<1>9. NoStalePresence'
  <2> SUFFICES ASSUME NEW o \in Registered, NEW u \in Login, conn[o] = "open"
               PROVE  /\ LastNews(LoginMsg(u), u, o)' /\ ~userLoggedIn(u) => OnItsWay(LogoutMsg(u), o)'
                      /\ LastNews(LogoutMsg(u), u, o)' /\ userLoggedIn(u) => OnItsWay(LoginMsg(u), o)'
    BY <1>2 DEF NoStalePresence
  <2>1. o \in Session /\ o # None
    BY RegisteredMeans DEF RegistryTypeOK
  <2>2. m_login[o] # NoLogin
    BY <2>1, RegisteredByName, NamesAssumption
  <2>3. LoginMsg(u) \in News(u) /\ LogoutMsg(u) \in News(u)
    BY DEF News
  <2>4. CASE SessionSend(p) /\ cur[p] = o
    <3>1. PostTo(o, msg[p]) /\ msg[p] \in Message /\ Broadcasting(p)
      BY <2>4 DEF SessionSend, Broadcasting
    <3>2. \A n \in News(u) : LastNews(n, u, o)' =>
            msg[p] = n \/ (LastNews(n, u, o) /\ msg[p] \notin News(u))
      BY <2>1, <2>2, <3>1, NewsAfterPost
    <3>3. msg[p] = LoginMsg(u) => userLoggedIn(u)
      BY <3>1, NamesAssumption DEF PresenceInv, NewsIsTrue, userLoggedIn, Proc
    <3>4. msg[p] = LogoutMsg(u) => ~userLoggedIn(u)
      BY <3>1 DEF PresenceInv, NewsIsTrue, userLoggedIn
    <3>5. ASSUME NEW n \in News(u), OnItsWay(n, o), msg[p] # n PROVE OnItsWay(n, o)'
      BY <3>5, StaysOnItsWay
    <3>6. ASSUME LastNews(LoginMsg(u), u, o)', ~userLoggedIn(u) PROVE OnItsWay(LogoutMsg(u), o)'
      <4>1. LastNews(LoginMsg(u), u, o) /\ msg[p] \notin News(u)
        BY <2>3, <3>2, <3>3, <3>6
      <4>2. OnItsWay(LogoutMsg(u), o)
        BY <3>6, <4>1 DEF PresenceInv, NoStalePresence
      <4> QED BY <2>3, <3>5, <4>1, <4>2
    <3>7. ASSUME LastNews(LogoutMsg(u), u, o)', userLoggedIn(u) PROVE OnItsWay(LoginMsg(u), o)'
      <4>1. LastNews(LogoutMsg(u), u, o) /\ msg[p] \notin News(u)
        BY <2>3, <3>2, <3>4, <3>7
      <4>2. OnItsWay(LoginMsg(u), o)
        BY <3>7, <4>1 DEF PresenceInv, NoStalePresence
      <4> QED BY <2>3, <3>5, <4>1, <4>2
    <3> QED BY <3>6, <3>7
  <2>5. CASE ~(SessionSend(p) /\ cur[p] = o)
    <3>1. posted'[o] = posted[o]
      BY <2>1, <2>5 DEF SendStep, Snapshot, ForEach, Find, SessionSend, PostTo, memberVars
    <3>2. \A n : LastNews(n, u, o)' = LastNews(n, u, o)
      BY <3>1 DEF LastNews, Outgoing
    <3>3. \A n : OnItsWay(n, o) => OnItsWay(n, o)'
      BY <2>5, StaysOnItsWay
    <3> QED BY <3>2, <3>3 DEF PresenceInv, NoStalePresence
  <2> QED BY <2>4, <2>5
<1> QED BY <1>4, <1>6, <1>7, <1>8, <1>9 DEF PresenceInv

-------------------------------------------------------------------------------
(* The theorems *)

LEMMA PresenceInit == Init => PresenceInv
<1> SUFFICES ASSUME Init PROVE PresenceInv
  OBVIOUS
<1> USE DEF Init, SharedInit, WsInit, Proc
<1>1. Registered = {}
  BY DEF Registered, Entries
<1>2. ConnectedClientsListed /\ LeaveIsBroken /\ NewsIsTrue
  BY DEF ConnectedClientsListed, LeaveIsBroken, NewsIsTrue, Broadcasting
<1>3. UnlistedUntouched
  BY NamesAssumption DEF UnlistedUntouched, Reach
<1>4. OthersBringNoNews
  BY NewsFacts DEF OthersBringNoNews
<1>5. NoStalePresence
  BY <1>1 DEF NoStalePresence
<1> QED BY <1>2, <1>3, <1>4, <1>5 DEF PresenceInv

LEMMA BroadcastSteps ==
  ASSUME TypeInv, LockInv, PresenceInv, NEW c \in Caller, BeginBroadcast(c)
  PROVE  PresenceInv'
<1> USE DEF TypeInv, ChatTypeInv, FrameTypeOK, PresenceInv, Proc
<1>1. /\ UNCHANGED <<m_sessions, m_login, posted, ret, msg, todo, cur, conn, queue_>>
      /\ pc[c] = "idle" /\ pc' = [pc EXCEPT ![c] = "snapshot"] /\ c \notin Session
  BY NamesAssumption DEF BeginBroadcast, registryVars, memberVars, wsVars
<1>2. Registered' = Registered /\ \A x : Reach(x)' = Reach(x)
  BY <1>1 DEF Registered, Entries, Reach
<1>3. ConnectedClientsListed' /\ LeaveIsBroken' /\ UnlistedUntouched'
  BY <1>1, <1>2 DEF ConnectedClientsListed, LeaveIsBroken, UnlistedUntouched
<1>4. ~IsNews(msg[c])
  BY DEF OthersBringNoNews
<1>5. NewsIsTrue'
  <2>1. \A u \in Login : msg[c] # LoginMsg(u) /\ msg[c] # LogoutMsg(u)
    BY <1>4, NewsFacts
  <2>2. \A q \in Proc \ {c} : pc'[q] = pc[q]
    BY <1>1
  <2> QED BY <1>1, <2>1, <2>2 DEF NewsIsTrue, Broadcasting
<1>6. OthersBringNoNews'
  BY <1>1, <1>4 DEF OthersBringNoNews, Broadcasting
<1>7. NoStalePresence'
  <2>1. \A m, o : OnItsWay(m, o) => OnItsWay(m, o)'
    BY <1>1 DEF OnItsWay
  <2> QED
    BY <1>1, <1>2, <2>1 DEF NoStalePresence, LastNews, Outgoing, userLoggedIn
<1> QED BY <1>3, <1>5, <1>6, <1>7

LEMMA PresenceNext ==
  NamesAreOwn /\ TypeInv /\ LockInv /\ NewIsQuiet /\ PresenceInv /\ [Next]_allVars => PresenceInv'
<1> SUFFICES ASSUME NamesAreOwn, TypeInv, LockInv, NewIsQuiet, PresenceInv, [Next]_allVars
             PROVE  PresenceInv'
  OBVIOUS
<1>1. ASSUME NEW s \in Session, SendSession(s) PROVE PresenceInv'
  BY <1>1, SendSteps DEF SendSession, wsVars, Proc
<1>2. ASSUME NEW s \in Session, HandlerStep(s) \/ ClientStep(s) PROVE PresenceInv'
  BY <1>1, <1>2, QueueSteps, ChainSteps, FailSteps, ReadSteps, DrainSteps, JoinSteps,
     LeaveSteps
  DEF HandlerStep, ClientStep, ClientReads, OnRead
<1>3. ASSUME NEW s \in Session, Break(s) PROVE PresenceInv'
  BY <1>3, StreamKeeps DEF Break, TypeInv, ChatTypeInv, WsTypeOK
<1>4. ASSUME NEW c \in Caller, SendCaller(c) PROVE PresenceInv'
  BY <1>4, SendSteps DEF SendCaller, wsVars, Proc
<1>5. CASE Stop \/ UNCHANGED allVars
  BY <1>5, StreamKeeps DEF Stop, allVars, vars, wsVars
<1>6. CASE Crash
  <2> USE <1>6 DEF Crash, SharedReset, WsReset, Proc
  <2>1. Registered' = {}
    BY DEF Registered, Entries
  <2>2. ConnectedClientsListed' /\ LeaveIsBroken' /\ NewsIsTrue'
    BY DEF ConnectedClientsListed, LeaveIsBroken, NewsIsTrue, Broadcasting
  <2>3. UnlistedUntouched'
    BY NamesAssumption DEF UnlistedUntouched, Reach
  <2>4. OthersBringNoNews'
    BY NewsFacts DEF OthersBringNoNews
  <2>5. NoStalePresence'
    BY <2>1 DEF NoStalePresence
  <2> QED BY <2>2, <2>3, <2>4, <2>5 DEF PresenceInv
<1> QED
  BY <1>2, <1>3, <1>4, <1>5, <1>6, BroadcastBegins, BroadcastSteps DEF Next, SessionStep

\* The inductive invariant holds when every client keeps to a name of its own.
THEOREM PresenceInvariant ==
  ASSUME NamesAreOwn
  PROVE  Spec => [](TypeInv /\ LockInv /\ NewIsQuiet /\ PresenceInv)
<1>1. SingleName
  BY DEF NamesAreOwn
<1>2. Init => TypeInv /\ LockInv /\ NewIsQuiet /\ PresenceInv
  BY TypeInit, LockInit, WriteInit, PresenceInit
<1>3. TypeInv /\ LockInv /\ NewIsQuiet /\ PresenceInv /\ [Next]_allVars
        => (TypeInv /\ LockInv /\ NewIsQuiet /\ PresenceInv)'
  BY <1>1, TypeNext, LockNext, QuietNext, PresenceNext
<1> QED BY <1>2, <1>3, PTL DEF Spec

\* When every client keeps to a name of its own, a client whose login has been
\* handled is in m_sessions as long as its connection works, whatever the other
\* strands do (shared_state.cpp:23-42, websocket_session.cpp:28-33, 70-79).
THEOREM ClientsStayListed == ASSUME NamesAreOwn PROVE Spec => []ConnectedClientsListed
<1>1. PresenceInv => ConnectedClientsListed
  BY DEF PresenceInv
<1> QED BY <1>1, PresenceInvariant, PTL

\* When every client keeps to a name of its own, the last login_user or
\* logout_user queued for a listed client about anybody agrees with m_sessions,
\* or the one that corrects it is being broadcast and will still reach that
\* client (shared_state.cpp:23-67, websocket_session.cpp:28-33, 70-86, 120-135).
THEOREM PresenceNeverStale == ASSUME NamesAreOwn PROVE Spec => []NoStalePresence
<1>1. PresenceInv => NoStalePresence
  BY DEF PresenceInv
<1> QED BY <1>1, PresenceInvariant, PTL

-------------------------------------------------------------------------------
(* Letters, when every client keeps to one name, even one it shares with others *)

\* A look-up by name is for somebody.
FindNamesSomebody == \A p \in Session : pc[p] = "find" => dest[p] \in Login

LetterInv == LeaveIsBroken /\ FindNamesSomebody /\ LettersLostOnlyByFailure

\* A step of the strand of s in the frame of s, its stream and its name.
LEMMA StrandFrame ==
  ASSUME TypeInv, NEW s \in Session, HandlerStep(s) \/ ClientStep(s) \/ Break(s)
  PROVE  /\ \A p \in Session \ {s} :
              /\ pc'[p] = pc[p] /\ ret'[p] = ret[p] /\ dest'[p] = dest[p]
              /\ conn'[p] = conn[p] /\ m_login'[p] = m_login[p]
         /\ conn[s] = "broken" => conn'[s] = "broken"
         /\ pc'[s] = "leave" => Fail(s) \/ pc[s] = "leave"
         /\ pc'[s] = "find" => \/ pc[s] = "find" /\ UNCHANGED <<ret, dest>>
                               \/ CheckOnline(s)
                               \/ dest'[s] \in Login /\ ret'[s] # "echo"
<1> USE DEF TypeInv, ChatTypeInv, MemberTypeOK, FrameTypeOK, WsTypeOK, Proc
<1>1. CASE Connect(s) \/ OnAccept(s) \/ OnWrite(s) \/ OnReadOther(s) \/ Break(s) \/ OnSend(s)
  BY <1>1 DEF Connect, OnAccept, OnWrite, OnReadOther, Break, OnSend, sharedVars, memberVars,
              frameVars
<1>2. CASE Fail(s) \/ Leave(s) \/ Unlock(s) \/ Rearm(s)
  BY <1>2 DEF Fail, Leave, leave, Unlock, Rearm, PopFrame, memberVars, wsVars
<1>3. CASE OnReadLogin(s) \/ OnReadSendMessage(s)
  BY <1>3 DEF OnReadLogin, OnReadSendMessage, Request, memberVars
<1>4. CASE JoinSession(s) \/ FetchUndelivered(s) \/ DrainSend(s) \/ DrainDelete(s)
  BY <1>4 DEF JoinSession, Join, FetchUndelivered, DrainSend, DrainDelete, memberVars, wsVars
<1>5. CASE CheckOnline(s)
  BY <1>5 DEF CheckOnline, SendTo, memberVars, wsVars
<1>6. CASE SaveMessage(s) \/ Echo(s)
  BY <1>6 DEF SaveMessage, Echo, SendReply, SendTo, memberVars, wsVars, SomeLogin
<1>7. CASE SendSession(s)
  <2>1. \E x \in Ret \cup {"foreach", "session_send"} : pc' = [pc EXCEPT ![s] = x]
    BY <1>7 DEF SendSession, SendStep, Snapshot, ForEach, Find, SessionSend, LoopOn
  <2>2. UNCHANGED <<conn, m_login, ret, dest>>
    BY <1>7 DEF SendSession, SendStep, Snapshot, ForEach, Find, SessionSend, memberVars, wsVars
  <2> QED BY <2>1, <2>2 DEF Ret
<1> QED
  BY <1>1, <1>2, <1>3, <1>4, <1>5, <1>6, <1>7
  DEF HandlerStep, ClientStep, ClientReads, OnRead

\* A connection that failed keeps the name its client logged in with.
LEMMA BrokenKeepsName ==
  ASSUME SingleName, TypeInv, LockInv, [Next]_allVars, ~Crash,
         NEW t \in Session, conn[t] = "broken", m_login[t] \in Login
  PROVE  conn'[t] = "broken" /\ m_login'[t] = m_login[t]
<1>1. ASSUME NEW s \in Session, HandlerStep(s) \/ ClientStep(s) \/ Break(s), s # t
      PROVE  conn'[t] = "broken" /\ m_login'[t] = m_login[t]
  BY <1>1, StrandFrame
<1>2. ASSUME HandlerStep(t) \/ ClientStep(t) \/ Break(t)
      PROVE  conn'[t] = "broken" /\ m_login'[t] = m_login[t]
  <2>1. conn'[t] = "broken"
    BY <1>2, StrandFrame
  <2>2. CASE OnReadLogin(t)
    BY <2>1, <2>2, NamesAssumption
    DEF OnReadLogin, SingleName, LockInv, OneNameEach, TypeInv, ChatTypeInv, MemberTypeOK
  <2>3. CASE ~OnReadLogin(t)
    BY <1>2, <2>1, <2>3
    DEF HandlerStep, ClientStep, ClientReads, OnRead, Connect, OnAccept, OnSend, OnWrite,
        OnReadOther, Break, Fail, Leave, leave, Unlock, OnReadSendMessage, Request,
        JoinSession, Join, FetchUndelivered, DrainSend, DrainDelete, CheckOnline, SaveMessage,
        Echo, Rearm, SendSession, SendStep, Snapshot, ForEach, Find, SessionSend, sharedVars,
        memberVars
  <2> QED BY <2>2, <2>3
<1>3. ASSUME NEW c \in Caller, Broadcast(c) \/ SendCaller(c)
      PROVE  UNCHANGED <<conn, m_login>>
  BY <1>3 DEF Broadcast, SendCaller, SendStep, Snapshot, ForEach, Find, SessionSend, memberVars,
              wsVars
<1>4. CASE Stop \/ UNCHANGED allVars
  BY <1>4 DEF Stop, allVars, vars, sharedVars, memberVars, wsVars
<1> QED BY <1>1, <1>2, <1>3, <1>4 DEF Next, SessionStep

\* A name leaves the registry with a failed connection logged in under it.
LEMMA NameLostToFailure ==
  ASSUME TypeInv, LeaveIsBroken, [Next]_allVars, ~Crash,
         NEW l \in Login, userLoggedIn(l), ~userLoggedIn(l)'
  PROVE  \E t \in Session : m_login[t] = l /\ conn[t] = "broken"
<1> USE DEF userLoggedIn, TypeInv, ChatTypeInv, RegistryTypeOK
<1>1. PICK s \in Session : JoinSession(s) \/ Leave(s)
  BY RegistryKept
<1>2. Leave(s)
  BY <1>1, NamesAssumption DEF JoinSession, Join
<1>3. m_login[s] = l /\ conn[s] = "broken"
  BY <1>2 DEF Leave, leave, LeaveIsBroken
<1> QED BY <1>3

LEMMA LetterNext ==
  SingleName /\ TypeInv /\ LockInv /\ LetterInv /\ [Next]_allVars => LetterInv'
<1> SUFFICES ASSUME SingleName, TypeInv, LockInv, LetterInv, [Next]_allVars PROVE LetterInv'
  OBVIOUS
<1> USE DEF LetterInv
<1>1. CASE Crash
  BY <1>1
  DEF Crash, SharedReset, LeaveIsBroken, FindNamesSomebody, LettersLostOnlyByFailure, Proc
<1>2. CASE ~Crash
  <2>1. ASSUME NEW p \in Session
        PROVE  \/ UNCHANGED <<pc[p], ret[p], dest[p], conn[p]>>
               \/ HandlerStep(p) \/ ClientStep(p) \/ Break(p)
    <3>1. ASSUME NEW s \in Session, HandlerStep(s) \/ ClientStep(s) \/ Break(s), s # p
          PROVE  UNCHANGED <<pc[p], ret[p], dest[p], conn[p]>>
      BY <3>1, StrandFrame
    <3>2. ASSUME NEW c \in Caller, Broadcast(c) \/ SendCaller(c)
          PROVE  UNCHANGED <<pc[p], ret[p], dest[p], conn[p]>>
      BY <3>2, NamesAssumption
      DEF Broadcast, SendCaller, SendStep, Snapshot, ForEach, Find, SessionSend, wsVars,
          TypeInv, ChatTypeInv, FrameTypeOK, Proc
    <3>3. CASE Stop \/ UNCHANGED allVars
      BY <3>3 DEF Stop, allVars, vars, sharedVars, frameVars, wsVars
    <3> QED BY <1>2, <3>1, <3>2, <3>3 DEF Next, SessionStep
  <2>2. LeaveIsBroken'
    <3> SUFFICES ASSUME NEW p \in Session, pc'[p] = "leave" PROVE conn'[p] = "broken"
      BY DEF LeaveIsBroken
    <3>1. CASE Fail(p)
      BY <3>1 DEF Fail, PendingError
    <3> QED BY <2>1, <3>1, StrandFrame DEF LeaveIsBroken
  <2>3. FindNamesSomebody'
    <3> SUFFICES ASSUME NEW p \in Session, pc'[p] = "find" PROVE dest'[p] \in Login
      BY DEF FindNamesSomebody
    <3>1. CASE CheckOnline(p)
      BY <3>1 DEF CheckOnline, SendTo, TypeInv, ChatTypeInv, FrameTypeOK, SomeLogin, Proc
    <3> QED BY <2>1, <3>1, StrandFrame DEF FindNamesSomebody
  <2>4. LettersLostOnlyByFailure'
    <3> SUFFICES ASSUME NEW p \in Session, pc'[p] = "find", ret'[p] = "echo",
                        ~userLoggedIn(dest[p])'
                 PROVE  \E t \in Session : m_login'[t] = dest'[p] /\ conn'[t] = "broken"
      BY DEF LettersLostOnlyByFailure
    <3>1. dest'[p] = dest[p] /\ dest[p] \in Login
          /\ (userLoggedIn(dest[p]) \/ (pc[p] = "find" /\ ret[p] = "echo"))
      <4>1. CASE CheckOnline(p)
        <5>1. dest' = dest
          BY <4>1 DEF CheckOnline
        <5>2. userLoggedIn(dest[p])
          BY <4>1 DEF CheckOnline, TypeInv, ChatTypeInv, FrameTypeOK, Proc
        <5> QED BY <5>1, <5>2 DEF userLoggedIn
      <4>2. CASE ~CheckOnline(p)
        BY <2>1, <4>2, StrandFrame DEF FindNamesSomebody
      <4> QED BY <4>1, <4>2
    <3>2. PICK t \in Session : m_login[t] = dest[p] /\ conn[t] = "broken"
      BY <1>2, <3>1, NameLostToFailure DEF LettersLostOnlyByFailure
    <3> QED BY <1>2, <3>1, <3>2, BrokenKeepsName
  <2> QED BY <2>2, <2>3, <2>4
<1> QED BY <1>1, <1>2

LEMMA LetterInit == Init => LetterInv
BY DEF Init, SharedInit, WsInit, LetterInv, LeaveIsBroken, FindNamesSomebody,
       LettersLostOnlyByFailure, Proc

\* When every client keeps to one name, even a name it shares with others, a letter
\* that userLoggedIn sent on its way is dropped by the look-up in send() only after
\* a connection of its addressee failed: the two look-ups, with m_mutex free between
\* them, lose no letter otherwise (websocket_session.cpp:106-109, shared_state.cpp:68-76).
THEOREM LettersAreLostToFailures ==
  ASSUME SingleName PROVE Spec => []LettersLostOnlyByFailure
<1>1. Init => LetterInv
  BY LetterInit
<1>2. TypeInv /\ LockInv /\ LetterInv /\ [Next]_allVars => LetterInv'
  BY LetterNext
<1>3. LetterInv => LettersLostOnlyByFailure
  BY DEF LetterInv
<1> QED BY <1>1, <1>2, <1>3, LockInvariant, PTL DEF Spec

===============================================================================
