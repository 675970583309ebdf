-------------------------- MODULE ChatMessages_proofs --------------------------
(***************************************************************************)
(* Messages of ChatServer, for any number of sessions, logins and          *)
(* messages, whatever names the clients log in with and whenever they      *)
(* fail.  The sessions implement Outbox: what the posted on_send handlers  *)
(* and queue_ hold together is a first-in first-out channel.  A row leaves *)
(* the Messages table only once it is posted.                              *)
(***************************************************************************)
EXTENDS ChatServer_proofs, SequenceTheorems

-------------------------------------------------------------------------------
(* Sequences *)

LEMMA ConcatAppend ==
  ASSUME NEW M, NEW q \in Seq(M), NEW r \in Seq(M), NEW m \in M
  PROVE  q \o Append(r, m) = Append(q \o r, m)
<1>1. <<m>> \in Seq(M) /\ q \o r \in Seq(M)
  BY ConcatProperties
<1>2. Append(r, m) = r \o <<m>> /\ Append(q \o r, m) = (q \o r) \o <<m>>
  BY <1>1, AppendIsConcat
<1> QED BY <1>1, <1>2, ConcatAssociative

LEMMA MoveHead ==
  ASSUME NEW M, NEW q \in Seq(M), NEW r \in Seq(M), r # <<>>
  PROVE  Append(q, Head(r)) \o Tail(r) = q \o r
<1>1. Head(r) \in M /\ Tail(r) \in Seq(M) /\ <<Head(r)>> \in Seq(M)
  BY HeadTailProperties
<1>2. r = <<Head(r)>> \o Tail(r)
  <2>1. <<Head(r)>> \o Tail(r) \in Seq(M) /\ Len(<<Head(r)>> \o Tail(r)) = 1 + Len(Tail(r))
    BY <1>1, ConcatProperties
  <2>2. \A i \in 1 .. 1 + Len(Tail(r)) : (<<Head(r)>> \o Tail(r))[i] =
                    IF i <= 1 THEN <<Head(r)>>[i] ELSE Tail(r)[i - 1]
    BY <1>1, ConcatProperties
  <2>3. Len(Tail(r)) = Len(r) - 1 /\ \A i \in 1 .. Len(Tail(r)) : Tail(r)[i] = r[i + 1]
    BY HeadTailProperties
  <2>4. Len(r) \in Nat /\ Len(r) > 0
    BY EmptySeq, LenProperties
  <2> QED BY <2>1, <2>2, <2>3, <2>4, SeqEqual
<1>3. Append(q, Head(r)) = q \o <<Head(r)>>
  BY <1>1, AppendIsConcat
<1> QED BY <1>1, <1>2, <1>3, ConcatAssociative

LEMMA TailConcat ==
  ASSUME NEW M, NEW q \in Seq(M), NEW r \in Seq(M), q # <<>>
  PROVE  q \o r # <<>> /\ Tail(q \o r) = Tail(q) \o r
<1>1. q \o r \in Seq(M) /\ q \o r # <<>>
  BY ConcatProperties, ConcatEqualIffEmpty
<1>2. Tail(q) \in Seq(M) /\ Tail(q) \o r \in Seq(M) /\ Tail(q \o r) \in Seq(M)
  BY <1>1, HeadTailProperties, ConcatProperties
<1>3. /\ Len(q) \in Nat /\ Len(q) > 0 /\ Len(r) \in Nat
      /\ Len(q \o r) = Len(q) + Len(r) /\ Len(Tail(q)) = Len(q) - 1
      /\ Len(Tail(q \o r)) = Len(q) + Len(r) - 1
      /\ Len(Tail(q) \o r) = Len(q) - 1 + Len(r)
  BY <1>1, <1>2, EmptySeq, LenProperties, ConcatProperties, HeadTailProperties
<1>4. ASSUME NEW i \in 1 .. Len(q) + Len(r) - 1
      PROVE  Tail(q \o r)[i] = (Tail(q) \o r)[i]
  <2>1. Tail(q \o r)[i] = (q \o r)[i + 1]
    BY <1>1, <1>3, HeadTailProperties
  <2>2. (q \o r)[i + 1] = IF i + 1 <= Len(q) THEN q[i + 1] ELSE r[i + 1 - Len(q)]
    BY <1>3, ConcatProperties
  <2>3. (Tail(q) \o r)[i] = IF i <= Len(q) - 1 THEN Tail(q)[i] ELSE r[i - (Len(q) - 1)]
    BY <1>2, <1>3, ConcatProperties
  <2>4. i <= Len(q) - 1 => Tail(q)[i] = q[i + 1]
    BY <1>3, HeadTailProperties
  <2> QED BY <1>3, <2>1, <2>2, <2>3, <2>4
<1> QED BY <1>1, <1>2, <1>3, <1>4, SeqEqual

-------------------------------------------------------------------------------
(* What a change of queue_ or posted means for the channel *)

LEMMA PostIsPut ==
  ASSUME ChatTypeInv, NEW s \in Session, NEW m \in Message,
         posted' = [posted EXCEPT ![s] = Append(@, m)], UNCHANGED queue_
  PROVE  FIFO!Put(s)
<1> USE DEF ChatTypeInv, MemberTypeOK, WsTypeOK
<1>1. queue_[s] \o Append(posted[s], m) = Append(queue_[s] \o posted[s], m)
  BY ConcatAppend
<1>2. Chan' = [Chan EXCEPT ![s] = Append(@, m)]
  BY <1>1 DEF Chan, Outgoing
<1> QED BY <1>2 DEF FIFO!Put

LEMMA OnSendMoves ==
  ASSUME ChatTypeInv, NEW s \in Session, OnSend(s)
  PROVE  UNCHANGED Chan
<1> USE DEF ChatTypeInv, MemberTypeOK, WsTypeOK
<1>1. /\ posted[s] # <<>>
      /\ posted' = [posted EXCEPT ![s] = Tail(@)]
      /\ queue_' = [queue_ EXCEPT ![s] = Append(@, Head(posted[s]))]
  BY DEF OnSend
<1>2. Append(queue_[s], Head(posted[s])) \o Tail(posted[s]) = queue_[s] \o posted[s]
  BY <1>1, MoveHead
<1> QED BY <1>1, <1>2 DEF Chan, Outgoing

LEMMA OnWriteEmits ==
  ASSUME ChatTypeInv, NEW s \in Session, OnWrite(s)
  PROVE  FIFO!Emit(s)
<1> USE DEF ChatTypeInv, MemberTypeOK, WsTypeOK
<1>1. queue_[s] # <<>> /\ queue_' = [queue_ EXCEPT ![s] = Tail(@)] /\ UNCHANGED posted
  BY DEF OnWrite, WritingHasMessage, sharedVars, memberVars
<1>2. /\ queue_[s] \o posted[s] # <<>>
      /\ Tail(queue_[s] \o posted[s]) = Tail(queue_[s]) \o posted[s]
  BY <1>1, TailConcat
<1>3. Chan[s] # <<>> /\ Chan' = [Chan EXCEPT ![s] = Tail(@)]
  BY <1>1, <1>2 DEF Chan, Outgoing
<1> QED BY <1>3 DEF FIFO!Emit

LEMMA CallOfSend ==
  ASSUME ChatTypeInv, NEW p \in Proc, NEW alive, SendStep(p, alive), UNCHANGED queue_
  PROVE  UNCHANGED Chan \/ \E s \in Session : FIFO!Put(s)
<1>1. CASE UNCHANGED posted
  BY <1>1 DEF Chan, Outgoing
<1>2. CASE SessionSend(p) /\ m_login[cur[p]] # NoLogin
  <2>1. cur[p] \in Session /\ msg[p] \in Message
    BY <1>2 DEF SessionSend, ChatTypeInv, SendTarget, FrameTypeOK
  <2>2. posted' = [posted EXCEPT ![cur[p]] = Append(@, msg[p])]
    BY <1>2 DEF SessionSend, PostTo
  <2> QED BY <2>1, <2>2, PostIsPut
<1>3. CASE SessionSend(p) /\ m_login[cur[p]] = NoLogin
  <2>1. UNCHANGED posted
    BY <1>3 DEF SessionSend, PostTo, ChatTypeInv, MemberTypeOK
  <2> QED BY <1>1, <2>1
<1> QED
  BY <1>1, <1>2, <1>3 DEF SendStep, Snapshot, ForEach, Find, memberVars

LEMMA DrainIsPut ==
  ASSUME ChatTypeInv, NEW s \in Session, DrainSend(s)
  PROVE  UNCHANGED Chan \/ FIFO!Put(s)
<1>1. PICK c \in undelivered[s] : PostTo(s, DirectMsg(c))
  BY DEF DrainSend
<1>2. DirectMsg(c) \in Message /\ UNCHANGED queue_
  BY MessageTypes DEF DrainSend, ChatTypeInv, WsTypeOK
<1>3. CASE m_login[s] = NoLogin
  <2>1. UNCHANGED posted
    BY <1>1, <1>3 DEF PostTo, ChatTypeInv, MemberTypeOK
  <2> QED BY <1>2, <2>1 DEF Chan, Outgoing
<1>4. CASE m_login[s] # NoLogin
  BY <1>1, <1>2, <1>4, PostIsPut DEF PostTo
<1> QED BY <1>3, <1>4

-------------------------------------------------------------------------------
(* The theorem about the channel *)

LEMMA OutboxInit == Init => FIFO!Init
<1> SUFFICES ASSUME Init PROVE FIFO!Init
  OBVIOUS
<1>1. \A s \in Session : Outgoing(s) = <<>>
  BY ConcatEmptySeq, EmptySeq DEF Init, SharedInit, WsInit, Outgoing
<1> QED BY <1>1 DEF FIFO!Init, Chan

LEMMA OutboxNext == TypeInv /\ [Next]_allVars => [FIFO!Next]_Chan
<1> SUFFICES ASSUME TypeInv, [Next]_allVars PROVE [FIFO!Next]_Chan
  OBVIOUS
<1> USE DEF TypeInv
<1>1. CASE UNCHANGED <<queue_, posted>>
  BY <1>1 DEF Chan, Outgoing
<1>2. ASSUME NEW s \in Session, OnSend(s) PROVE [FIFO!Next]_Chan
  BY <1>2, OnSendMoves
<1>3. ASSUME NEW s \in Session, OnWrite(s) PROVE [FIFO!Next]_Chan
  BY <1>3, OnWriteEmits DEF FIFO!Next
<1>4. ASSUME NEW s \in Session, DrainSend(s) PROVE [FIFO!Next]_Chan
  BY <1>4, DrainIsPut DEF FIFO!Next
<1>5. ASSUME NEW p \in Proc, SendStep(p, Alive), UNCHANGED wsVars PROVE [FIFO!Next]_Chan
  BY <1>5, CallOfSend DEF FIFO!Next, wsVars
<1>6. CASE Crash
  <2>1. \A s \in Session : Outgoing(s)' = <<>>
    BY <1>6, ConcatEmptySeq, EmptySeq DEF Crash, SharedReset, WsReset, Outgoing
  <2> QED BY <2>1 DEF FIFO!Next, FIFO!Lose, Chan
<1>7. ASSUME NEW s \in Session,
             \/ HandlerStep(s) /\ ~OnSend(s) /\ ~OnWrite(s) /\ ~DrainSend(s) /\ ~SendSession(s)
             \/ (ClientStep(s) /\ ~OnWrite(s)) \/ Break(s)
      PROVE  UNCHANGED <<queue_, posted>>
  BY <1>7
  DEF HandlerStep, ClientStep, ClientReads, Break, OnRead, Connect, OnAccept, OnReadOther,
      OnReadLogin,
      OnReadSendMessage, Request, Fail, Leave, leave, Unlock, JoinSession, Join,
      FetchUndelivered, DrainDelete, CheckOnline, SaveMessage, Echo, Rearm,
      wsVars, sharedVars, memberVars
<1>8. CASE Stop \/ UNCHANGED allVars \/ \E c \in Caller : Broadcast(c)
  BY <1>1, <1>8 DEF Stop, Broadcast, allVars, vars, wsVars, sharedVars, memberVars
<1> QED
  BY <1>1, <1>2, <1>3, <1>4, <1>5, <1>6, <1>7, <1>8
  DEF Next, SessionStep, SendSession, SendCaller, Proc

\* The sessions implement Outbox: whichever strands call send() and in whatever
\* order, a session's messages leave in the order of the calls, each at most
\* once, and none is lost before the process ends
\* (websocket_session.cpp:120-170).
THEOREM ImplementsOutbox == Spec => FifoOutbox
<1>1. Init => FIFO!Init
  BY OutboxInit
<1>2. TypeInv /\ [Next]_allVars => [FIFO!Next]_Chan
  BY OutboxNext
<1> QED BY <1>1, <1>2, TypeInvariant, PTL DEF Spec, FIFO!Spec, FifoOutbox

-------------------------------------------------------------------------------
(* Stored messages *)

\* s runs the part of on_read that handles login_user: between the assignment of
\* m_login and the end of the loop over undelivered_messages.
InLogin(s) ==
  \/ pc[s] \in {"join", "undelivered", "drain", "delete"}
  \/ pc[s] \in {"snapshot", "foreach", "find", "session_send"} /\ ret[s] = "undelivered"

\* All along, m_login is the name whose messages are fetched and deleted.
LoginKept == \A s \in Session : InLogin(s) => m_login[s] = dest[s] /\ dest[s] \in Login

\* An on_send of content c is posted to the strand of s.
PostedTo(s, c) == \E i \in DOMAIN posted[s] : posted[s][i] = DirectMsg(c)

\* What DrainDelete is about to delete has been posted by DrainSend; no handler of
\* the strand has run since.
MailInHand ==
  \A s \in Session : pc[s] = "delete" => \E c \in Content : msg[s] = DirectMsg(c) /\ PostedTo(s, c)

MailInv == LoginKept /\ MailInHand

-------------------------------------------------------------------------------
(* Posting *)

\* A session with a name takes the message; what was posted stays posted.
LEMMA PostKeeps ==
  ASSUME MemberTypeOK, NEW s \in Session, NEW m \in Message, PostTo(s, m)
  PROVE  /\ m_login[s] # NoLogin => \E i \in DOMAIN posted'[s] : posted'[s][i] = m
         /\ \A t \in Session, c \in Content : PostedTo(t, c) => PostedTo(t, c)'
<1>1. posted[s] \in Seq(Message)
  BY DEF MemberTypeOK
<1> DEFINE q == Append(posted[s], m)
<1>2. /\ DOMAIN posted[s] = 1 .. Len(posted[s]) /\ Len(posted[s]) \in Nat
      /\ DOMAIN q = 1 .. Len(posted[s]) + 1
      /\ \A i \in DOMAIN posted[s] : i \in DOMAIN q /\ q[i] = posted[s][i]
      /\ Len(posted[s]) + 1 \in DOMAIN q /\ q[Len(posted[s]) + 1] = m
  BY <1>1, AppendProperties, LenProperties
<1> HIDE DEF q
<1>3. posted' = [posted EXCEPT ![s] = IF m_login[s] = NoLogin THEN @ ELSE q]
  BY DEF PostTo, q
<1>4. /\ posted'[s] = IF m_login[s] = NoLogin THEN posted[s] ELSE q
      /\ \A t \in Session \ {s} : posted'[t] = posted[t]
  BY <1>3 DEF MemberTypeOK
<1>5. m_login[s] # NoLogin => \E i \in DOMAIN posted'[s] : posted'[s][i] = m
  BY <1>2, <1>4
<1>6. ASSUME NEW t \in Session, NEW c \in Content, PostedTo(t, c) PROVE PostedTo(t, c)'
  BY <1>2, <1>4, <1>6 DEF PostedTo
<1> QED
  BY <1>5, <1>6

\* A step that starts no login, deletes nothing and takes nothing from posted.
LEMMA MailKept ==
  ASSUME MailInv,
         \A s \in Session :
           /\ InLogin(s)' => InLogin(s)
           /\ InLogin(s) => m_login'[s] = m_login[s] /\ dest'[s] = dest[s]
           /\ pc'[s] = "delete" => pc[s] = "delete" /\ msg'[s] = msg[s]
           /\ \A c \in Content : pc[s] = "delete" /\ PostedTo(s, c) => PostedTo(s, c)'
  PROVE  MailInv'
BY DEF MailInv, LoginKept, MailInHand

LEMMA MailSend ==
  ASSUME ChatTypeInv, MailInv, NEW p \in Proc, NEW alive, SendStep(p, alive)
  PROVE  MailInv'
<1> USE DEF ChatTypeInv, FrameTypeOK
<1>1. UNCHANGED <<m_login, ret, dest, msg>>
  BY DEF SendStep, Snapshot, ForEach, Find, SessionSend, memberVars
<1>2. /\ pc[p] \in {"snapshot", "foreach", "find", "session_send"}
      /\ pc'[p] \in {"foreach", "session_send", ret[p]}
      /\ \A q \in Proc \ {p} : pc'[q] = pc[q]
  <2>1. CASE Snapshot(p)
    BY <2>1 DEF Snapshot, LoopOn
  <2>2. CASE ForEach(p, alive)
    BY <2>2 DEF ForEach, LoopOn
  <2>3. CASE Find(p)
    BY <2>3 DEF Find
  <2>4. CASE SessionSend(p)
    BY <2>4 DEF SessionSend, LoopOn
  <2> QED
    BY <2>1, <2>2, <2>3, <2>4 DEF SendStep
<1>3. \A s \in Session : InLogin(s)' => InLogin(s)
  <2> SUFFICES ASSUME NEW s \in Session, InLogin(s)' PROVE InLogin(s)
    OBVIOUS
  <2>1. CASE s = p
    BY <1>1, <1>2, <2>1 DEF InLogin, Ret
  <2>2. CASE s # p
    BY <1>1, <1>2, <2>2 DEF InLogin, Proc
  <2> QED
    BY <2>1, <2>2
<1>4. \A s \in Session : pc'[s] = "delete" => pc[s] = "delete"
  BY <1>2 DEF Proc, Ret
<1>5. \A s \in Session, c \in Content : PostedTo(s, c) => PostedTo(s, c)'
  <2>1. CASE UNCHANGED posted
    BY <2>1 DEF PostedTo
  <2>2. CASE SessionSend(p)
    <3>1. cur[p] \in Session /\ PostTo(cur[p], msg[p])
      BY <2>2 DEF SessionSend, SendTarget
    <3> QED
      BY <3>1, PostKeeps
  <2> QED
    BY <2>1, <2>2 DEF SendStep, Snapshot, ForEach, Find, memberVars
<1> QED
  BY <1>1, <1>3, <1>4, <1>5, MailKept

-------------------------------------------------------------------------------
(* The handlers of a session *)

\* A step of s's strand that leaves the others alone.
OnlyStrand(s) ==
  \A t \in Session \ {s} :
    /\ pc'[t] = pc[t] /\ ret'[t] = ret[t] /\ dest'[t] = dest[t] /\ msg'[t] = msg[t]
    /\ m_login'[t] = m_login[t] /\ posted'[t] = posted[t]

LEMMA MailOnly ==
  ASSUME MailInv, NEW s \in Session, OnlyStrand(s),
         InLogin(s)' => m_login'[s] = dest'[s] /\ dest'[s] \in Login,
         pc'[s] = "delete" => \E c \in Content : msg'[s] = DirectMsg(c) /\ PostedTo(s, c)'
  PROVE  MailInv'
<1>1. ASSUME NEW t \in Session, t # s
      PROVE  /\ InLogin(t)' => m_login'[t] = dest'[t] /\ dest'[t] \in Login
             /\ pc'[t] = "delete" => \E c \in Content : msg'[t] = DirectMsg(c) /\ PostedTo(t, c)'
  <2>1. InLogin(t)' <=> InLogin(t)
    BY <1>1 DEF OnlyStrand, InLogin
  <2>2. \A c \in Content : PostedTo(t, c)' <=> PostedTo(t, c)
    BY <1>1 DEF OnlyStrand, PostedTo
  <2> QED
    BY <1>1, <2>1, <2>2 DEF OnlyStrand, MailInv, LoginKept, MailInHand
<1>2. LoginKept'
  BY <1>1 DEF LoginKept
<1>3. MailInHand'
  BY <1>1 DEF MailInHand
<1> QED
  BY <1>2, <1>3 DEF MailInv

LEMMA MailLogin ==
  ASSUME ChatTypeInv, MailInv, NEW s \in Session,
         \/ OnReadLogin(s) \/ JoinSession(s) \/ FetchUndelivered(s)
         \/ DrainSend(s) \/ DrainDelete(s) \/ Rearm(s)
  PROVE  MailInv'
<1> USE DEF ChatTypeInv, FrameTypeOK, MemberTypeOK, Proc
<1>1. CASE OnReadLogin(s)
  <2>1. PICK l \in Names[s] :
          /\ m_login' = [m_login EXCEPT ![s] = l]
          /\ IF l = NoLogin
             THEN UNCHANGED <<pc, dest>>
             ELSE /\ pc' = [pc EXCEPT ![s] = "join"]
                  /\ dest' = [dest EXCEPT ![s] = l]
    BY <1>1 DEF OnReadLogin
  <2>2. pc[s] = "idle" /\ UNCHANGED <<ret, msg, posted>>
    BY <1>1 DEF OnReadLogin, Request, RequestRead, CanRun
  <2>3. l # NoLogin => l \in Login
    BY ClientAssumption
  <2>4. OnlyStrand(s)
    BY <2>1, <2>2 DEF OnlyStrand
  <2>5. InLogin(s)' => m_login'[s] = dest'[s] /\ dest'[s] \in Login
    BY <2>1, <2>2, <2>3 DEF InLogin
  <2>6. pc'[s] # "delete"
    BY <2>1, <2>2
  <2> QED
    BY <2>4, <2>5, <2>6, MailOnly DEF MailInv, LoginKept, InLogin
<1>2. CASE JoinSession(s)
  <2>1. pc[s] = "join" /\ pc'[s] = "snapshot" /\ UNCHANGED <<m_login, dest, posted>>
    BY <1>2 DEF JoinSession, Join, memberVars
  <2>2. OnlyStrand(s)
    BY <1>2, <2>1 DEF JoinSession, Join, OnlyStrand
  <2> QED
    BY <2>1, <2>2, MailOnly DEF MailInv, LoginKept, InLogin
<1>3. CASE FetchUndelivered(s)
  <2>1. /\ pc[s] = "undelivered" /\ pc'[s] = "drain"
        /\ UNCHANGED <<m_login, dest, posted, ret, msg>>
    BY <1>3 DEF FetchUndelivered, memberVars
  <2>2. OnlyStrand(s)
    BY <1>3, <2>1 DEF FetchUndelivered, OnlyStrand
  <2> QED
    BY <2>1, <2>2, MailOnly DEF MailInv, LoginKept, InLogin
<1>4. CASE DrainSend(s)
  <2>1. PICK c \in undelivered[s] :
          /\ PostTo(s, DirectMsg(c))
          /\ msg' = [msg EXCEPT ![s] = DirectMsg(c)]
    BY <1>4 DEF DrainSend
  <2>2. /\ pc[s] = "drain" /\ pc' = [pc EXCEPT ![s] = "delete"]
        /\ UNCHANGED <<m_login, dest, ret>>
    BY <1>4 DEF DrainSend
  <2>3. c \in Content /\ DirectMsg(c) \in Message
    BY MessageTypes DEF WsTypeOK
  <2>4. m_login[s] # NoLogin
    BY <2>2, NamesAssumption DEF MailInv, LoginKept, InLogin
  <2>5. PostedTo(s, c)'
    BY <2>1, <2>3, <2>4, PostKeeps DEF PostedTo
  <2>6. msg'[s] = DirectMsg(c) /\ OnlyStrand(s)
    BY <2>1, <2>2 DEF OnlyStrand, PostTo
  <2> QED
    BY <2>2, <2>3, <2>5, <2>6, MailOnly DEF MailInv, LoginKept, InLogin
<1>5. CASE DrainDelete(s)
  <2>1. /\ pc[s] = "delete" /\ pc'[s] = "drain"
        /\ UNCHANGED <<m_login, dest, posted, ret, msg>>
    BY <1>5 DEF DrainDelete, memberVars
  <2>2. OnlyStrand(s)
    BY <1>5, <2>1 DEF DrainDelete, OnlyStrand
  <2> QED
    BY <2>1, <2>2, MailOnly DEF MailInv, LoginKept, InLogin
<1>6. CASE Rearm(s)
  <2>1. pc'[s] = "idle" /\ OnlyStrand(s)
    BY <1>6 DEF Rearm, PopFrame, OnlyStrand, memberVars
  <2> QED
    BY <2>1, MailOnly DEF MailInv, LoginKept, InLogin
<1> QED
  BY <1>1, <1>2, <1>3, <1>4, <1>5, <1>6

\* Handlers that have no part in login_user.
LEMMA MailOther ==
  ASSUME ChatTypeInv, MailInv, NEW s \in Session,
         \/ Connect(s) \/ OnAccept(s) \/ OnSend(s) \/ OnWrite(s) \/ OnReadOther(s) \/ Break(s)
         \/ Fail(s) \/ Leave(s) \/ Unlock(s)
         \/ OnReadSendMessage(s) \/ CheckOnline(s) \/ SaveMessage(s) \/ Echo(s)
  PROVE  MailInv'
<1> USE DEF ChatTypeInv, FrameTypeOK, MemberTypeOK, Proc
<1>1. CASE Connect(s) \/ OnAccept(s) \/ OnWrite(s) \/ OnReadOther(s) \/ Break(s)
  <2>1. UNCHANGED <<pc, ret, dest, msg, m_login, posted>>
    BY <1>1 DEF Connect, OnAccept, OnWrite, OnReadOther, Break, sharedVars, memberVars, frameVars
  <2> QED
    BY <2>1, MailKept DEF InLogin, PostedTo
<1>2. CASE OnSend(s)
  <2>1. /\ pc[s] = "idle" /\ UNCHANGED <<pc, ret, dest, msg, m_login>>
        /\ \A t \in Session \ {s} : posted'[t] = posted[t]
    BY <1>2 DEF OnSend, CanRun, frameVars
  <2> QED
    BY <2>1, MailKept DEF InLogin, PostedTo
<1>3. CASE Fail(s) \/ Leave(s) \/ Unlock(s)
  <2>1. OnlyStrand(s)
    BY <1>3 DEF Fail, Leave, leave, Unlock, PopFrame, OnlyStrand, memberVars
  <2>2. ~ InLogin(s)'
    BY <1>3 DEF Fail, Leave, leave, Unlock, PopFrame, InLogin
  <2> QED
    BY <2>1, <2>2, MailOnly DEF MailInv, LoginKept, InLogin
<1>4. CASE OnReadSendMessage(s)
  <2>1. OnlyStrand(s) /\ pc'[s] = "check"
    BY <1>4 DEF OnReadSendMessage, OnlyStrand, memberVars
  <2> QED
    BY <2>1, MailOnly DEF MailInv, LoginKept, InLogin
<1>5. CASE CheckOnline(s) \/ SaveMessage(s) \/ Echo(s)
  <2>1. OnlyStrand(s)
    BY <1>5 DEF CheckOnline, SaveMessage, Echo, SendReply, OnlyStrand, memberVars
  <2>2. pc'[s] \in {"snapshot", "find", "save"} /\ ret'[s] \in {"echo", "rearm"}
    BY <1>5 DEF CheckOnline, SaveMessage, Echo, SendReply, SendTo
  <2> QED
    BY <2>1, <2>2, MailOnly DEF MailInv, LoginKept, InLogin
<1> QED
  BY <1>1, <1>2, <1>3, <1>4, <1>5

LEMMA MailBroadcast ==
  ASSUME TypeInv, MailInv, NEW c \in Caller, BeginBroadcast(c)
  PROVE  MailInv'
<1> USE DEF TypeInv
<1>1. \A s \in Session : pc'[s] = pc[s]
  BY NamesAssumption DEF BeginBroadcast, ChatTypeInv, FrameTypeOK, Proc
<1>2. UNCHANGED <<m_login, posted, ret, dest, msg>>
  BY DEF BeginBroadcast, memberVars
<1> QED
  BY <1>1, <1>2, MailKept DEF InLogin, PostedTo

LEMMA MailInit == Init => MailInv
BY DEF Init, SharedInit, MailInv, LoginKept, MailInHand, InLogin, Proc

LEMMA MailNext == TypeInv /\ MailInv /\ [Next]_allVars => MailInv'
<1> SUFFICES ASSUME TypeInv, MailInv, [Next]_allVars PROVE MailInv'
  OBVIOUS
<1> USE DEF TypeInv
<1>1. ASSUME NEW s \in Session, HandlerStep(s) \/ ClientStep(s) \/ Break(s) PROVE MailInv'
  <2>1. CASE SendSession(s)
    BY <2>1, MailSend DEF SendSession, Proc
  <2> QED
    BY <1>1, <2>1, MailLogin, MailOther DEF HandlerStep, ClientStep, ClientReads, OnRead
<1>2. ASSUME NEW c \in Caller, Broadcast(c) PROVE MailInv'
  BY <1>2, BroadcastBegins, MailBroadcast
<1>3. ASSUME NEW c \in Caller, SendCaller(c) PROVE MailInv'
  BY <1>3, MailSend DEF SendCaller, Proc
<1>4. CASE Crash
  BY <1>4 DEF Crash, SharedReset, MailInv, LoginKept, MailInHand, InLogin, Proc
<1>5. CASE Stop \/ UNCHANGED allVars
  <2>1. UNCHANGED <<pc, ret, dest, msg, m_login, posted>>
    BY <1>5 DEF Stop, allVars, vars, sharedVars, memberVars, frameVars
  <2> QED
    BY <2>1, MailKept DEF InLogin, PostedTo
<1> QED
  BY <1>1, <1>2, <1>3, <1>4, <1>5 DEF Next, SessionStep

-------------------------------------------------------------------------------
(* The theorem about stored messages *)

\* Only DrainDelete takes rows from the table, and only the one it was told.
LEMMA OnlyDrainDeletes ==
  ASSUME TypeInv, Next, NEW row \in messages \ messages'
  PROVE  \E s \in Session : DrainDelete(s) /\ row = <<dest[s], msg[s].content>>
<1>1. ASSUME NEW s \in Session, DrainDelete(s)
      PROVE  row = <<dest[s], msg[s].content>>
  BY <1>1 DEF DrainDelete, DB!DeleteUserUndeliveredMessage
<1>2. ASSUME NEW s \in Session, SaveMessage(s)
      PROVE  FALSE
  BY <1>2 DEF SaveMessage, DB!SaveUserMessage
<1>3. ASSUME NEW s \in Session,
             \/ HandlerStep(s) /\ ~ DrainDelete(s) /\ ~ SaveMessage(s)
             \/ ClientStep(s) \/ Break(s)
      PROVE  UNCHANGED messages
  BY <1>3
  DEF HandlerStep, ClientStep, ClientReads, Break, OnRead, Connect, OnAccept, OnSend, OnWrite,
      OnReadOther,
      OnReadLogin, OnReadSendMessage, Request, Fail, Leave, Unlock, JoinSession,
      FetchUndelivered, DrainSend, CheckOnline, Echo, Rearm, SendSession
<1>4. ASSUME Stop \/ Crash \/ \E c \in Caller : Broadcast(c) \/ SendCaller(c)
      PROVE  UNCHANGED messages
  BY <1>4 DEF Stop, Crash, Broadcast, SendCaller
<1> QED
  BY <1>1, <1>2, <1>3, <1>4 DEF Next, SessionStep

LEMMA DeletedIsPosted ==
  ASSUME TypeInv, MailInv, Next, NEW row \in messages \ messages'
  PROVE  \E s \in Session : m_login[s] = row[1]
                           /\ \E i \in DOMAIN posted[s] : posted[s][i] = DirectMsg(row[2])
<1>1. PICK s \in Session : DrainDelete(s) /\ row = <<dest[s], msg[s].content>>
  BY OnlyDrainDeletes
<1>2. pc[s] = "delete"
  BY <1>1 DEF DrainDelete
<1>3. m_login[s] = dest[s]
  BY <1>2 DEF MailInv, LoginKept, InLogin
<1>4. PICK c \in Content : msg[s] = DirectMsg(c) /\ PostedTo(s, c)
  BY <1>2 DEF MailInv, MailInHand
<1>5. msg[s].content = c
  BY <1>4 DEF DirectMsg
<1> QED
  BY <1>1, <1>3, <1>4, <1>5 DEF PostedTo

\* Whatever renames, failures, restarts and other strands do, a row leaves the
\* Messages table only when its message is posted to a session that is logged in
\* under the addressee's name (websocket_session.cpp:88-96).
THEOREM MailIsPostedBeforeDeleted == Spec => DeletedOnlyWhenPosted
<1> DEFINE Posting == \A row \in messages \ messages' :
                        \E s \in Session :
                          m_login[s] = row[1]
                          /\ \E i \in DOMAIN posted[s] : posted[s][i] = DirectMsg(row[2])
<1>1. Init => MailInv
  BY MailInit
<1>2. TypeInv /\ MailInv /\ [Next]_allVars => MailInv'
  BY MailNext
<1>3. TypeInv /\ MailInv /\ [Next]_allVars => [Posting]_allVars
  BY DeletedIsPosted
<1> QED
  BY <1>1, <1>2, <1>3, TypeInvariant, PTL DEF Spec, DeletedOnlyWhenPosted

===============================================================================
