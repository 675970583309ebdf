-------------------------- MODULE ChatServer_proofs ---------------------------
(***************************************************************************)
(* Proofs about ChatServer, for any number of sessions, callers, logins    *)
(* and threads.                                                            *)
(***************************************************************************)
EXTENDS ChatServer, TLAPS

-------------------------------------------------------------------------------
(* Types *)

Letter == [method : {"send_message"}, content : Content]

\* on_write finds the message it erases at the front of queue_, and no write was
\* started over another.
WritingHasMessage ==
  \A s \in Session : wr[s] # "overlap" /\ (wr[s] # "none" => queue_[s] # <<>>)

\* A handler of send_message carries a letter until the letter is stored.
LetterInHand == \A s \in Session : pc[s] \in {"check", "save"} => msg[s] \in Letter

\* A call of websocket_session::send is a call on some session.
SendTarget == \A p \in Proc : pc[p] = "session_send" <=> cur[p] # None

ChatTypeInv ==
  /\ RegistryTypeOK /\ MemberTypeOK /\ FrameTypeOK /\ WsTypeOK
  /\ WritingHasMessage /\ LetterInHand /\ SendTarget

BoundTypeOK == casts \in [Caller -> Nat] /\ restarts \in Nat

TypeInv == ChatTypeInv /\ BoundTypeOK

LEMMA MessageTypes ==
  /\ \A l \in SomeLogin : LoginMsg(l) \in Message /\ LogoutMsg(l) \in Message
  /\ MarkerMsg \in Message
  /\ \A c \in Content : DirectMsg(c) \in Letter
  /\ Letter \subseteq Message
BY DEF SomeLogin, LoginMsg, LogoutMsg, MarkerMsg, DirectMsg, Message, Letter

LEMMA EntryTypes ==
  ASSUME RegistryTypeOK
  PROVE  Entries \subseteq Login \X Session
BY DEF RegistryTypeOK, Entries

LEMMA TypeInit == Init => TypeInv
<1> SUFFICES ASSUME Init PROVE TypeInv
  OBVIOUS
<1>1. RegistryTypeOK /\ MemberTypeOK
  BY DEF Init, SharedInit, RegistryTypeOK, MemberTypeOK, SomeLogin
<1>2. FrameTypeOK
  BY MessageTypes DEF Init, SharedInit, FrameTypeOK, Pc, Ret, SomeLogin
<1>3. WsTypeOK /\ WritingHasMessage
  BY DEF Init, WsInit, WsTypeOK, SomeLogin, WritingHasMessage
<1>4. LetterInHand /\ SendTarget
  BY DEF Init, SharedInit, LetterInHand, SendTarget, Proc
<1>5. BoundTypeOK
  BY DEF Init, BoundTypeOK
<1> QED BY <1>1, <1>2, <1>3, <1>4, <1>5 DEF TypeInv, ChatTypeInv

-------------------------------------------------------------------------------
(* The steps of shared_state::send preserve the types, whoever runs them. *)

LEMMA SendTypes ==
  ASSUME RegistryTypeOK, MemberTypeOK, FrameTypeOK, LetterInHand, SendTarget,
         NEW p \in Proc, NEW alive, SendStep(p, alive)
  PROVE  RegistryTypeOK' /\ MemberTypeOK' /\ FrameTypeOK' /\ LetterInHand' /\ SendTarget'
<1> USE DEF registryVars, memberVars
<1>1. CASE Snapshot(p)
  <2>1. RegistryTypeOK' /\ MemberTypeOK'
    BY <1>1 DEF Snapshot, RegistryTypeOK, MemberTypeOK
  <2>2. FrameTypeOK'
    BY <1>1, EntryTypes DEF Snapshot, LoopOn, FrameTypeOK, Pc, Ret
  <2>3. LetterInHand' /\ SendTarget'
    BY <1>1 DEF Snapshot, LoopOn, FrameTypeOK, Pc, Ret, LetterInHand, SendTarget, Proc
  <2> QED BY <2>1, <2>2, <2>3
<1>2. CASE ForEach(p, alive)
  <2>1. RegistryTypeOK' /\ MemberTypeOK'
    BY <1>2 DEF ForEach, RegistryTypeOK, MemberTypeOK
  <2>2. PICK e \in todo[p] :
          /\ todo' = [todo EXCEPT ![p] = @ \ {e}]
          /\ \/ /\ cur' = [cur EXCEPT ![p] = e[2]]
                /\ pc' = [pc EXCEPT ![p] = "session_send"]
             \/ /\ pc' = [pc EXCEPT ![p] = LoopOn(p, todo[p] \ {e})]
                /\ UNCHANGED cur
    BY <1>2 DEF ForEach
  <2>3. e[2] \in Session
    BY DEF FrameTypeOK
  <2>4. FrameTypeOK'
    BY <1>2, <2>2, <2>3 DEF ForEach, LoopOn, FrameTypeOK, Pc, Ret
  <2>5. LetterInHand' /\ SendTarget'
    BY <1>2, <2>2, <2>3, NamesAssumption
    DEF ForEach, LoopOn, FrameTypeOK, Pc, Ret, LetterInHand, SendTarget, Proc
  <2> QED BY <2>1, <2>4, <2>5
<1>3. CASE Find(p)
  <2>1. userLoggedIn(dest[p]) => m_sessions[dest[p]] \in Session
    BY DEF userLoggedIn, RegistryTypeOK
  <2>2. RegistryTypeOK' /\ MemberTypeOK'
    BY <1>3 DEF Find, RegistryTypeOK, MemberTypeOK
  <2>3. FrameTypeOK'
    BY <1>3, <2>1 DEF Find, FrameTypeOK, Pc, Ret
  <2>4. LetterInHand' /\ SendTarget'
    BY <1>3, <2>1, NamesAssumption
    DEF Find, FrameTypeOK, Pc, Ret, LetterInHand, SendTarget, Proc
  <2> QED BY <2>2, <2>3, <2>4
<1>4. CASE SessionSend(p)
  <2>1. cur[p] \in Session
    BY <1>4 DEF SessionSend, SendTarget, FrameTypeOK
  <2>2. RegistryTypeOK' 
    BY <1>4 DEF SessionSend, RegistryTypeOK
  <2>3. MemberTypeOK'
    BY <1>4, <2>1 DEF SessionSend, PostTo, MemberTypeOK, FrameTypeOK
  <2>4. FrameTypeOK'
    BY <1>4 DEF SessionSend, LoopOn, FrameTypeOK, Pc, Ret
  <2>5. LetterInHand' /\ SendTarget'
    BY <1>4, NamesAssumption
    DEF SessionSend, LoopOn, FrameTypeOK, Pc, Ret, LetterInHand, SendTarget, Proc
  <2> QED BY <2>2, <2>3, <2>4, <2>5
<1> QED BY <1>1, <1>2, <1>3, <1>4 DEF SendStep

-------------------------------------------------------------------------------
(* The steps of a session's own handlers preserve the types. *)

LEMMA StreamTypes ==
  ASSUME ChatTypeInv, NEW s \in Session,
         Connect(s) \/ OnAccept(s) \/ OnWrite(s) \/ OnReadOther(s) \/ Break(s)
  PROVE  ChatTypeInv'
<1>1. WsTypeOK' /\ WritingHasMessage'
  <2> USE DEF ChatTypeInv, WsTypeOK, WritingHasMessage
  <2>1. CASE Connect(s)
    BY <2>1 DEF Connect
  <2>2. CASE OnAccept(s)
    BY <2>2 DEF OnAccept
  <2>3. CASE OnWrite(s)
    <3>1. WsTypeOK'
      BY <2>3 DEF OnWrite
    <3> QED BY <2>3, <3>1 DEF OnWrite
  <2>4. CASE OnReadOther(s)
    BY <2>4 DEF OnReadOther
  <2>5. CASE Break(s)
    <3>1. WsTypeOK'
      BY <2>5 DEF Break
    <3> QED BY <2>5, <3>1 DEF Break
  <2> QED BY <2>1, <2>2, <2>3, <2>4, <2>5
<1>2. UNCHANGED <<registryVars, memberVars, frameVars>>
  BY DEF Connect, OnAccept, OnWrite, OnReadOther, Break, sharedVars
<1>3. RegistryTypeOK' /\ MemberTypeOK'
  BY <1>2 DEF ChatTypeInv, registryVars, memberVars, RegistryTypeOK, MemberTypeOK
<1>4. FrameTypeOK' /\ LetterInHand' /\ SendTarget'
  BY <1>2 DEF ChatTypeInv, frameVars, FrameTypeOK, LetterInHand, SendTarget
<1> QED BY <1>1, <1>3, <1>4 DEF ChatTypeInv

LEMMA OnSendTypes ==
  ASSUME ChatTypeInv, NEW s \in Session, OnSend(s)
  PROVE  ChatTypeInv'
<1>1. RegistryTypeOK' /\ FrameTypeOK' /\ LetterInHand' /\ SendTarget'
  BY DEF OnSend, registryVars, frameVars, ChatTypeInv, RegistryTypeOK, FrameTypeOK,
         LetterInHand, SendTarget
<1>2. MemberTypeOK'
  BY DEF OnSend, ChatTypeInv, MemberTypeOK
<1>3. WsTypeOK /\ posted[s] \in Seq(Message) /\ queue_[s] \in Seq(Message)
  BY DEF ChatTypeInv, MemberTypeOK, WsTypeOK
<1>4. Append(queue_[s], Head(posted[s])) \in Seq(Message) \ {<<>>}
  BY <1>3 DEF OnSend
<1>5. wr' = wr \/ (wr[s] = "none" /\ wr' = [wr EXCEPT ![s] = "busy"])
  BY <1>3 DEF OnSend, StartWrite, ChatTypeInv, WritingHasMessage
<1>6. WsTypeOK' /\ WritingHasMessage'
  BY <1>3, <1>4, <1>5 DEF OnSend, ChatTypeInv, WsTypeOK, WritingHasMessage
<1> QED BY <1>1, <1>2, <1>6 DEF ChatTypeInv

LEMMA FailTypes ==
  ASSUME ChatTypeInv, NEW s \in Session, Fail(s) \/ Leave(s) \/ Unlock(s)
  PROVE  ChatTypeInv'
<1> USE MessageTypes DEF ChatTypeInv
<1>1. CASE Fail(s)
  <2>1. RegistryTypeOK' /\ MemberTypeOK'
    BY <1>1 DEF Fail, registryVars, RegistryTypeOK, MemberTypeOK, Proc
  <2>2. FrameTypeOK'
    BY <1>1 DEF Fail, FrameTypeOK, Pc
  <2>3. WsTypeOK' /\ WritingHasMessage'
    BY <1>1 DEF Fail, PendingError, WsTypeOK, WritingHasMessage
  <2>4. LetterInHand' /\ SendTarget'
    BY <1>1 DEF Fail, CanRun, LetterInHand, SendTarget, FrameTypeOK, Proc
  <2> QED BY <2>1, <2>2, <2>3, <2>4
<1>2. CASE Leave(s)
  <2>1. RegistryTypeOK' /\ MemberTypeOK'
    BY <1>2 DEF Leave, leave, memberVars, RegistryTypeOK, MemberTypeOK
  <2>2. FrameTypeOK'
    BY <1>2 DEF Leave, leave, FrameTypeOK, MemberTypeOK, Pc, Ret
  <2>3. WsTypeOK' /\ WritingHasMessage'
    BY <1>2 DEF Leave, wsVars, WsTypeOK, WritingHasMessage
  <2>4. LetterInHand' /\ SendTarget'
    BY <1>2 DEF Leave, leave, LetterInHand, SendTarget, FrameTypeOK, Proc
  <2> QED BY <2>1, <2>2, <2>3, <2>4
<1>3. CASE Unlock(s)
  <2>1. RegistryTypeOK' /\ MemberTypeOK'
    BY <1>3 DEF Unlock, registryVars, RegistryTypeOK, MemberTypeOK
  <2>2. FrameTypeOK'
    BY <1>3 DEF Unlock, PopFrame, FrameTypeOK, Pc, Ret, SomeLogin
  <2>3. WsTypeOK' /\ WritingHasMessage'
    BY <1>3 DEF Unlock, PopFrame, WsTypeOK, WritingHasMessage, SomeLogin
  <2>4. LetterInHand' /\ SendTarget'
    BY <1>3 DEF Unlock, PopFrame, LetterInHand, SendTarget, FrameTypeOK, Proc
  <2> QED BY <2>1, <2>2, <2>3, <2>4
<1> QED BY <1>1, <1>2, <1>3

LEMMA LoginTypes ==
  ASSUME ChatTypeInv, NEW s \in Session,
         \/ OnReadLogin(s) \/ JoinSession(s) \/ FetchUndelivered(s)
         \/ DrainSend(s) \/ DrainDelete(s) \/ Rearm(s)
  PROVE  ChatTypeInv'
<1> USE MessageTypes DEF ChatTypeInv
<1>1. CASE OnReadLogin(s)
  <2>1. PICK l \in Names[s] :
          /\ m_login' = [m_login EXCEPT ![s] = l]
          /\ \/ UNCHANGED <<pc, dest>>
             \/ /\ pc' = [pc EXCEPT ![s] = "join"]
                /\ dest' = [dest EXCEPT ![s] = l]
    BY <1>1 DEF OnReadLogin
  <2>2. l \in SomeLogin
    BY ClientAssumption DEF SomeLogin
  <2>3. RegistryTypeOK' /\ MemberTypeOK'
    BY <1>1, <2>1, <2>2 DEF OnReadLogin, registryVars, RegistryTypeOK, MemberTypeOK
  <2>4. FrameTypeOK'
    BY <1>1, <2>1, <2>2 DEF OnReadLogin, FrameTypeOK, Pc
  <2>5. WsTypeOK' /\ WritingHasMessage'
    BY <1>1 DEF OnReadLogin, Request, WsTypeOK, WritingHasMessage
  <2>6. LetterInHand' /\ SendTarget'
    BY <1>1, <2>1 DEF OnReadLogin, Request, RequestRead, CanRun, LetterInHand, SendTarget,
                      FrameTypeOK, Proc
  <2> QED BY <2>3, <2>4, <2>5, <2>6
<1>2. CASE JoinSession(s)
  <2>1. RegistryTypeOK' /\ MemberTypeOK'
    BY <1>2 DEF JoinSession, Join, memberVars, RegistryTypeOK, MemberTypeOK
  <2>2. FrameTypeOK'
    BY <1>2 DEF JoinSession, Join, FrameTypeOK, Pc, Ret, Proc
  <2>3. WsTypeOK' /\ WritingHasMessage'
    BY <1>2 DEF JoinSession, wsVars, WsTypeOK, WritingHasMessage
  <2>4. LetterInHand' /\ SendTarget'
    BY <1>2 DEF JoinSession, Join, LetterInHand, SendTarget, FrameTypeOK, Proc
  <2> QED BY <2>1, <2>2, <2>3, <2>4
<1>3. CASE FetchUndelivered(s)
  <2>1. RegistryTypeOK' /\ MemberTypeOK' /\ FrameTypeOK'
    BY <1>3 DEF FetchUndelivered, registryVars, memberVars, RegistryTypeOK, MemberTypeOK,
                FrameTypeOK, Pc
  <2>2. DB!GetUndeliveredMessages(messages, dest[s]) \subseteq Content
    BY DEF DB!GetUndeliveredMessages, WsTypeOK
  <2>3. WsTypeOK' /\ WritingHasMessage'
    BY <1>3, <2>2 DEF FetchUndelivered, WsTypeOK, WritingHasMessage
  <2>4. LetterInHand' /\ SendTarget'
    BY <1>3 DEF FetchUndelivered, LetterInHand, SendTarget, FrameTypeOK, Proc
  <2> QED BY <2>1, <2>2, <2>3, <2>4
<1>4. CASE DrainSend(s)
  <2>1. PICK c \in undelivered[s] :
          /\ PostTo(s, DirectMsg(c))
          /\ msg' = [msg EXCEPT ![s] = DirectMsg(c)]
          /\ undelivered' = [undelivered EXCEPT ![s] = @ \ {c}]
    BY <1>4 DEF DrainSend
  <2>2. DirectMsg(c) \in Message
    BY DEF WsTypeOK
  <2>3. RegistryTypeOK' /\ MemberTypeOK'
    BY <1>4, <2>1, <2>2 DEF DrainSend, PostTo, registryVars, RegistryTypeOK, MemberTypeOK
  <2>4. FrameTypeOK'
    BY <1>4, <2>1, <2>2 DEF DrainSend, FrameTypeOK, Pc
  <2>5. WsTypeOK' /\ WritingHasMessage'
    BY <1>4, <2>1 DEF DrainSend, WsTypeOK, WritingHasMessage
  <2>6. LetterInHand' /\ SendTarget'
    BY <1>4, <2>1 DEF DrainSend, LetterInHand, SendTarget, FrameTypeOK, Proc
  <2> QED BY <2>3, <2>4, <2>5, <2>6
<1>5. CASE DrainDelete(s)
  <2>1. RegistryTypeOK' /\ MemberTypeOK' /\ FrameTypeOK'
    BY <1>5 DEF DrainDelete, registryVars, memberVars, RegistryTypeOK, MemberTypeOK,
                FrameTypeOK, Pc
  <2>2. WsTypeOK' /\ WritingHasMessage'
    BY <1>5 DEF DrainDelete, DB!DeleteUserUndeliveredMessage, wsVars, WsTypeOK,
                WritingHasMessage
  <2>3. LetterInHand' /\ SendTarget'
    BY <1>5 DEF DrainDelete, LetterInHand, SendTarget, FrameTypeOK, Proc
  <2> QED BY <2>1, <2>2, <2>3
<1>6. CASE Rearm(s)
  <2>1. RegistryTypeOK' /\ MemberTypeOK'
    BY <1>6 DEF Rearm, registryVars, memberVars, RegistryTypeOK, MemberTypeOK
  <2>2. FrameTypeOK'
    BY <1>6 DEF Rearm, PopFrame, FrameTypeOK, Pc, Ret, SomeLogin
  <2>3. WsTypeOK' /\ WritingHasMessage'
    BY <1>6 DEF Rearm, PopFrame, WsTypeOK, WritingHasMessage, SomeLogin
  <2>4. LetterInHand' /\ SendTarget'
    BY <1>6 DEF Rearm, PopFrame, LetterInHand, SendTarget, FrameTypeOK, Proc
  <2> QED BY <2>1, <2>2, <2>3, <2>4
<1> QED BY <1>1, <1>2, <1>3, <1>4, <1>5, <1>6

LEMMA LetterTypes ==
  ASSUME ChatTypeInv, NEW s \in Session,
         OnReadSendMessage(s) \/ CheckOnline(s) \/ SaveMessage(s) \/ Echo(s)
  PROVE  ChatTypeInv'
<1> USE MessageTypes DEF ChatTypeInv
<1>1. RegistryTypeOK' /\ MemberTypeOK'
  BY DEF OnReadSendMessage, CheckOnline, SaveMessage, Echo, registryVars, memberVars,
         RegistryTypeOK, MemberTypeOK
<1>2. CASE OnReadSendMessage(s)
  <2>1. PICK mail \in Mail :
          /\ dest' = [dest EXCEPT ![s] = mail[1]]
          /\ reply' = [reply EXCEPT ![s] = mail[2]]
          /\ msg' = [msg EXCEPT ![s] = DirectMsg(mail[3])]
    BY <1>2 DEF OnReadSendMessage
  <2>2. /\ mail[1] \in SomeLogin /\ mail[2] \in SomeLogin
        /\ DirectMsg(mail[3]) \in Letter
    BY ClientAssumption DEF SomeLogin
  <2>3. FrameTypeOK'
    BY <1>2, <2>1, <2>2 DEF OnReadSendMessage, FrameTypeOK, Pc
  <2>4. WsTypeOK' /\ WritingHasMessage'
    BY <1>2, <2>1, <2>2 DEF OnReadSendMessage, Request, WsTypeOK, WritingHasMessage
  <2>5. LetterInHand' /\ SendTarget'
    BY <1>2, <2>1, <2>2
    DEF OnReadSendMessage, Request, RequestRead, CanRun, LetterInHand, SendTarget,
        FrameTypeOK, Proc
  <2> QED BY <1>1, <2>3, <2>4, <2>5
<1>3. CASE CheckOnline(s)
  <2>1. FrameTypeOK'
    BY <1>3 DEF CheckOnline, SendTo, FrameTypeOK, Pc, Ret
  <2>2. WsTypeOK' /\ WritingHasMessage'
    BY <1>3 DEF CheckOnline, wsVars, WsTypeOK, WritingHasMessage
  <2>3. LetterInHand' /\ SendTarget'
    BY <1>3 DEF CheckOnline, SendTo, LetterInHand, SendTarget, FrameTypeOK, Proc
  <2> QED BY <1>1, <2>1, <2>2, <2>3
<1>4. CASE SaveMessage(s) \/ Echo(s)
  <2>1. FrameTypeOK'
    <3>1. reply[s] \in SomeLogin /\ SendTo(reply[s]) \in Pc
      BY DEF WsTypeOK, SendTo, Pc
    <3>2. SendReply(s) /\ UNCHANGED <<msg, todo, cur>>
      BY <1>4 DEF SaveMessage, Echo
    <3> QED BY <3>1, <3>2 DEF SendReply, FrameTypeOK, Ret
  <2>2. pc[s] = "save" => msg[s].content \in Content
    BY DEF LetterInHand, Letter
  <2>3. WsTypeOK' /\ WritingHasMessage'
    BY <1>4, <2>2 DEF SaveMessage, Echo, DB!SaveUserMessage, wsVars, WsTypeOK,
                      WritingHasMessage, FrameTypeOK, Proc
  <2>4. LetterInHand' /\ SendTarget'
    BY <1>4 DEF SaveMessage, Echo, SendReply, SendTo, LetterInHand, SendTarget,
                FrameTypeOK, Proc
  <2> QED BY <1>1, <2>1, <2>3, <2>4
<1> QED BY <1>2, <1>3, <1>4

-------------------------------------------------------------------------------
(* The theorem *)

LEMMA SessionTypes ==
  ASSUME ChatTypeInv, NEW s \in Session,
         HandlerStep(s) \/ ClientStep(s) \/ Break(s)
  PROVE  ChatTypeInv'
<1>1. CASE SendSession(s)
  <2>1. SendStep(s, Alive) /\ UNCHANGED <<wsVars, messages>>
    BY <1>1 DEF SendSession
  <2>2. WsTypeOK' /\ WritingHasMessage'
    BY <2>1 DEF ChatTypeInv, wsVars, WsTypeOK, WritingHasMessage
  <2> QED BY <2>1, <2>2, SendTypes DEF ChatTypeInv, Proc
<1> QED
  BY <1>1, StreamTypes, OnSendTypes, FailTypes, LoginTypes, LetterTypes
  DEF HandlerStep, ClientStep, ClientReads, OnRead

\* A strand that is no session's calls send("", ...), whoever counts the calls.
BeginBroadcast(c) ==
  /\ pc[c] = "idle"
  /\ pc' = [pc EXCEPT ![c] = "snapshot"]
  /\ UNCHANGED <<registryVars, memberVars, ret, dest, msg, todo, cur, wsVars, messages>>

LEMMA BroadcastBegins == \A c \in Caller : Broadcast(c) => BeginBroadcast(c)
BY DEF Broadcast, CanRun, BeginBroadcast

LEMMA CallerTypes ==
  ASSUME ChatTypeInv, NEW c \in Caller, BeginBroadcast(c) \/ SendCaller(c)
  PROVE  ChatTypeInv'
<1>1. WsTypeOK' /\ WritingHasMessage'
  BY DEF BeginBroadcast, SendCaller, ChatTypeInv, wsVars, WsTypeOK, WritingHasMessage
<1>2. CASE BeginBroadcast(c)
  <2>1. RegistryTypeOK' /\ MemberTypeOK' /\ FrameTypeOK'
    BY <1>2 DEF BeginBroadcast, ChatTypeInv, registryVars, memberVars, RegistryTypeOK,
                MemberTypeOK, FrameTypeOK, Pc
  <2>2. LetterInHand' /\ SendTarget'
    BY <1>2 DEF BeginBroadcast, ChatTypeInv, LetterInHand, SendTarget, FrameTypeOK, Proc
  <2> QED BY <1>1, <2>1, <2>2 DEF ChatTypeInv
<1>3. CASE SendCaller(c)
  BY <1>1, <1>3, SendTypes DEF SendCaller, ChatTypeInv, Proc
<1> QED BY <1>2, <1>3

LEMMA CrashTypes ==
  ASSUME ChatTypeInv, Crash
  PROVE  ChatTypeInv'
<1>1. RegistryTypeOK' /\ MemberTypeOK'
  BY DEF Crash, SharedReset, RegistryTypeOK, MemberTypeOK, SomeLogin
<1>2. FrameTypeOK'
  BY MessageTypes DEF Crash, SharedReset, FrameTypeOK, Pc, Ret, SomeLogin
<1>3. WsTypeOK' /\ WritingHasMessage'
  BY DEF Crash, WsReset, ChatTypeInv, WsTypeOK, SomeLogin, WritingHasMessage
<1>4. LetterInHand' /\ SendTarget'
  BY DEF Crash, SharedReset, LetterInHand, SendTarget, Proc
<1> QED BY <1>1, <1>2, <1>3, <1>4 DEF ChatTypeInv

LEMMA BoundTypes ==
  ASSUME BoundTypeOK, Next
  PROVE  BoundTypeOK'
<1>1. CASE Crash
  BY <1>1 DEF Crash, BoundTypeOK
<1>2. CASE \E c \in Caller : Broadcast(c) \/ SendCaller(c)
  BY <1>2 DEF Broadcast, SendCaller, boundVars, BoundTypeOK
<1>3. CASE UNCHANGED boundVars
  BY <1>3 DEF boundVars, BoundTypeOK
<1> QED BY <1>1, <1>2, <1>3 DEF Next, SessionStep, Stop, boundVars

LEMMA TypeNext == TypeInv /\ [Next]_allVars => TypeInv'
<1> SUFFICES ASSUME TypeInv, [Next]_allVars PROVE TypeInv'
  OBVIOUS
<1>1. CASE Next
  <2>1. CASE Stop
    <3>1. WsTypeOK' /\ WritingHasMessage'
      BY <2>1 DEF Stop, TypeInv, ChatTypeInv, WsTypeOK, WritingHasMessage
    <3>2. UNCHANGED <<registryVars, memberVars, frameVars>>
      BY <2>1 DEF Stop, sharedVars
    <3>3. RegistryTypeOK' /\ MemberTypeOK' /\ FrameTypeOK' /\ LetterInHand' /\ SendTarget'
      BY <3>2 DEF TypeInv, ChatTypeInv, registryVars, memberVars, frameVars,
                  RegistryTypeOK, MemberTypeOK, FrameTypeOK, LetterInHand, SendTarget
    <3> QED BY <1>1, <3>1, <3>3, BoundTypes DEF TypeInv, ChatTypeInv
  <2> QED
    BY <1>1, <2>1, SessionTypes, BroadcastBegins, CallerTypes, CrashTypes, BoundTypes
    DEF Next, SessionStep, TypeInv
<1>2. CASE UNCHANGED allVars
  <2>1. UNCHANGED <<registryVars, memberVars, frameVars, wsVars, messages, boundVars>>
    BY <1>2 DEF allVars, vars, sharedVars
  <2>2. RegistryTypeOK' /\ MemberTypeOK' /\ FrameTypeOK' /\ LetterInHand' /\ SendTarget'
    BY <2>1 DEF TypeInv, ChatTypeInv, registryVars, memberVars, frameVars,
                RegistryTypeOK, MemberTypeOK, FrameTypeOK, LetterInHand, SendTarget
  <2>3. WsTypeOK' /\ WritingHasMessage' /\ BoundTypeOK'
    BY <2>1 DEF TypeInv, ChatTypeInv, wsVars, WsTypeOK, WritingHasMessage,
                boundVars, BoundTypeOK
  <2> QED BY <2>2, <2>3 DEF TypeInv, ChatTypeInv
<1> QED BY <1>1, <1>2

LEMMA TypeInvariant == Spec => []TypeInv
BY TypeInit, TypeNext, PTL DEF Spec

\* Every variable always holds a value of its type: in every state of every
\* run the registry, the members and the frames of the strands hold what the
\* C++ declarations allow.
THEOREM TypeCorrect == Spec => []TypeOK
<1>1. TypeInv => TypeOK
  BY DEF TypeInv, ChatTypeInv, TypeOK, BoundTypeOK
<1> QED BY <1>1, TypeInvariant, PTL

-------------------------------------------------------------------------------
(* The write chain *)

\* Nothing is pending for a session that does not exist yet.
NewIsQuiet ==
  \A s \in Session : conn[s] = "new" =>
    rd[s] = "none" /\ pc[s] = "idle" /\ m_login[s] = NoLogin /\ posted[s] = <<>>
    /\ queue_[s] = <<>>

\* While the stream works, a queued message has a write in flight.
QueuedIsWritten == \A s \in Session : queue_[s] # <<>> /\ conn[s] = "open" => wr[s] # "none"

LEMMA WriteInit == Init => NewIsQuiet /\ QueuedIsWritten
BY DEF Init, SharedInit, WsInit, NewIsQuiet, QueuedIsWritten, Proc

LEMMA QuietSend ==
  ASSUME ChatTypeInv, NewIsQuiet, UNCHANGED wsVars,
         NEW p \in Proc, NEW alive, SendStep(p, alive)
  PROVE  NewIsQuiet'
<1>1. UNCHANGED <<conn, rd, queue_, m_login>>
  BY DEF SendStep, Snapshot, ForEach, Find, SessionSend, memberVars, wsVars
<1>2. pc[p] # "idle" /\ \A q \in Proc : q # p => pc'[q] = pc[q]
  BY DEF SendStep, Snapshot, ForEach, Find, SessionSend, ChatTypeInv, FrameTypeOK
<1>3. \A s \in Session : m_login[s] = NoLogin => posted'[s] = posted[s]
  BY DEF SendStep, Snapshot, ForEach, Find, SessionSend, PostTo, memberVars, ChatTypeInv,
         MemberTypeOK
<1> QED BY <1>1, <1>2, <1>3 DEF NewIsQuiet, Proc

LEMMA QuietSession ==
  ASSUME ChatTypeInv, NewIsQuiet, NEW s \in Session,
         HandlerStep(s) \/ ClientStep(s) \/ Break(s)
  PROVE  NewIsQuiet'
<1> USE DEF ChatTypeInv, NewIsQuiet, MemberTypeOK, FrameTypeOK, WsTypeOK, Proc
<1>1. CASE Connect(s) \/ OnAccept(s) \/ OnWrite(s) \/ OnReadOther(s) \/ Break(s)
  <2>1. UNCHANGED <<pc, m_login, posted>>
    BY <1>1 DEF Connect, OnAccept, OnWrite, OnReadOther, Break, sharedVars, memberVars,
                frameVars
  <2>2. CASE Connect(s)
    BY <2>1, <2>2 DEF Connect
  <2>3. CASE OnAccept(s) \/ OnReadOther(s)
    BY <2>1, <2>3 DEF OnAccept, OnReadOther, RequestRead
  <2>4. CASE OnWrite(s)
    BY <2>1, <2>4 DEF OnWrite, WritingHasMessage
  <2>5. CASE Break(s)
    BY <2>1, <2>5 DEF Break
  <2> QED BY <1>1, <2>2, <2>3, <2>4, <2>5
<1>2. CASE OnSend(s)
  BY <1>2 DEF OnSend, frameVars
<1>3. CASE Fail(s)
  BY <1>3 DEF Fail, PendingError
<1>4. CASE Leave(s) \/ JoinSession(s) \/ FetchUndelivered(s)
  BY <1>4 DEF Leave, leave, JoinSession, Join, FetchUndelivered, memberVars, wsVars
<1>5. CASE Unlock(s) \/ Rearm(s)
  BY <1>5 DEF Unlock, Rearm, PopFrame, memberVars
<1>6. CASE DrainSend(s)
  BY <1>6 DEF DrainSend, PostTo
<1>7. CASE DrainDelete(s) \/ CheckOnline(s)
  BY <1>7 DEF DrainDelete, CheckOnline, SendTo, memberVars, wsVars
<1>8. CASE SaveMessage(s) \/ Echo(s)
  BY <1>8 DEF SaveMessage, Echo, SendReply, memberVars, wsVars
<1>9. CASE OnReadLogin(s)
  BY <1>9 DEF OnReadLogin, Request, RequestRead
<1>10. CASE OnReadSendMessage(s)
  BY <1>10 DEF OnReadSendMessage, Request, RequestRead, memberVars
<1>11. CASE SendSession(s)
  BY <1>11, QuietSend DEF SendSession
<1> QED
  BY <1>1, <1>2, <1>3, <1>4, <1>5, <1>6, <1>7, <1>8, <1>9, <1>10, <1>11
  DEF HandlerStep, ClientStep, ClientReads, OnRead

LEMMA QuietBroadcast ==
  ASSUME ChatTypeInv, NewIsQuiet, NEW c \in Caller, BeginBroadcast(c)
  PROVE  NewIsQuiet'
BY NamesAssumption
DEF BeginBroadcast, ChatTypeInv, FrameTypeOK, NewIsQuiet, memberVars, wsVars, Proc

LEMMA QuietNext == TypeInv /\ NewIsQuiet /\ [Next]_allVars => NewIsQuiet'
<1> SUFFICES ASSUME TypeInv, NewIsQuiet, [Next]_allVars PROVE NewIsQuiet'
  OBVIOUS
<1> USE DEF TypeInv
<1>1. ASSUME NEW c \in Caller, Broadcast(c) PROVE NewIsQuiet'
  BY <1>1, BroadcastBegins, QuietBroadcast
<1>2. ASSUME NEW c \in Caller, SendCaller(c) PROVE NewIsQuiet'
  BY <1>2, QuietSend DEF SendCaller, Proc
<1>3. CASE Stop
  BY <1>3 DEF Stop, NewIsQuiet, sharedVars, memberVars, frameVars
<1>4. CASE Crash
  BY <1>4 DEF Crash, SharedReset, WsReset, NewIsQuiet, Proc
<1>5. CASE UNCHANGED allVars
  BY <1>5 DEF allVars, vars, NewIsQuiet, sharedVars, memberVars, frameVars, wsVars
<1> QED
  BY <1>1, <1>2, <1>3, <1>4, <1>5, QuietSession DEF Next, SessionStep

LEMMA QueuedNext ==
  TypeInv /\ NewIsQuiet /\ QueuedIsWritten /\ [Next]_allVars => QueuedIsWritten'
<1> SUFFICES ASSUME TypeInv, NewIsQuiet, QueuedIsWritten, [Next]_allVars
             PROVE  QueuedIsWritten'
  OBVIOUS
<1> USE DEF QueuedIsWritten
<1>t. WsTypeOK /\ WritingHasMessage
  BY DEF TypeInv, ChatTypeInv
<1>1. CASE UNCHANGED <<queue_, conn, wr>>
  BY <1>1
<1>2. ASSUME NEW s \in Session, OnSend(s) PROVE QueuedIsWritten'
  <2>1. CASE queue_[s] = <<>>
    BY <1>2, <2>1, <1>t DEF OnSend, StartWrite, WsTypeOK, WritingHasMessage
  <2>2. CASE queue_[s] # <<>>
    <3>1. UNCHANGED wr
      BY <1>2, <2>2, <1>t DEF OnSend, WsTypeOK
    <3> QED BY <1>2, <2>2, <3>1, <1>t DEF OnSend, WsTypeOK
  <2> QED BY <2>1, <2>2
<1>3. ASSUME NEW s \in Session, OnWrite(s) PROVE QueuedIsWritten'
  BY <1>3, <1>t DEF OnWrite, WsTypeOK
<1>4. ASSUME NEW s \in Session, Fail(s) PROVE QueuedIsWritten'
  BY <1>4, <1>t DEF Fail, PendingError, WsTypeOK
<1>5. ASSUME NEW s \in Session, Connect(s) PROVE QueuedIsWritten'
  BY <1>5, <1>t DEF Connect, NewIsQuiet, WsTypeOK
<1>6. ASSUME NEW s \in Session, Break(s) PROVE QueuedIsWritten'
  BY <1>6, <1>t DEF Break, WsTypeOK
<1>7. CASE Crash
  BY <1>7 DEF Crash, WsReset
<1>8. ASSUME NEW s \in Session,
             \/ HandlerStep(s) /\ ~OnSend(s) /\ ~OnWrite(s) /\ ~Fail(s)
             \/ ClientStep(s) /\ ~Connect(s) /\ ~OnWrite(s)
      PROVE  UNCHANGED <<queue_, conn, wr>>
  BY <1>8 DEF HandlerStep, ClientStep, ClientReads, OnRead, OnAccept, OnReadOther, OnReadLogin,
              OnReadSendMessage, Request, Leave, Unlock, JoinSession, FetchUndelivered,
              DrainSend, DrainDelete, CheckOnline, SaveMessage, Echo, Rearm, SendSession,
              wsVars
<1>9. CASE Stop \/ UNCHANGED allVars \/ \E c \in Caller : Broadcast(c) \/ SendCaller(c)
  BY <1>9, <1>1 DEF Stop, Broadcast, SendCaller, allVars, vars, wsVars
<1> QED
  BY <1>1, <1>2, <1>3, <1>4, <1>5, <1>6, <1>7, <1>8, <1>9 DEF Next, SessionStep

\* A queued message of a session whose stream works always has a write in
\* flight, a write in flight always has its message at the front of queue_, and no
\* write is started while another is pending: the write chain of
\* websocket_session.cpp:137-170 neither stalls, nor doubles, nor erases from an
\* empty queue.
THEOREM WriterAlwaysAwake == Spec => []WriterAwake
<1> DEFINE Inv == TypeInv /\ NewIsQuiet /\ QueuedIsWritten
<1>1. Init => Inv
  BY TypeInit, WriteInit
<1>2. Inv /\ [Next]_allVars => Inv'
  BY TypeNext, QuietNext, QueuedNext
<1>3. Inv => WriterAwake
  BY DEF TypeInv, ChatTypeInv, WritingHasMessage, QueuedIsWritten, WriterAwake
<1> QED BY <1>1, <1>2, <1>3, PTL DEF Spec

===============================================================================
