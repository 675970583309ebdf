--------------------------- MODULE WebsocketSession ---------------------------
(***************************************************************************)
(* websocket_session.cpp: one WebSocket connection.  Its strand serialises *)
(* the completion handlers on_accept, on_read, on_write and the posted     *)
(* on_send; its other members are touched by those handlers only.          *)
(*                                                                         *)
(* The read chain: async_accept, then async_read after async_read, each    *)
(* issued at the end of the handler of the one before; an error ends it.   *)
(* The write chain: on_send appends to queue_ and starts async_write when  *)
(* the queue was empty; on_write removes the front and starts the next.    *)
(***************************************************************************)
EXTENDS SharedState

DB == INSTANCE SQLiteCore

CONSTANTS
  Names,      \* [Session -> SUBSET names]: what a client sends in login_user
  Mail,       \* <<to, from, content>> triples a client may send
  MaxReads,   \* [Session -> Nat], bound: successful reads per session
  Fragile,    \* the sessions whose stream may fail
  Threads     \* threads that run the io_context

ASSUME ClientAssumption ==
  /\ Names \in [Session -> SUBSET (Login \cup {NoLogin})]
  /\ Mail \subseteq (Login \cup {NoLogin}) \X (Login \cup {NoLogin}) \X Content
  /\ MaxReads \in [Session -> Nat]
  /\ Fragile \subseteq Session
  /\ Threads \in Nat \ {0}

VARIABLES
  conn,        \* session -> "new" | "open" | "broken": the stream
  rd,          \* session -> the pending operation of the read chain
  wr,          \* session -> the pending async_write ("overlap": one more was started)
  queue_,      \* session -> messages being written, the front one in flight
  undelivered, \* session -> local undelivered_messages of on_read
  reply,       \* session -> local from_login of on_read
  messages,    \* the Messages table
  reads,       \* bound: session -> successful reads so far
  ioc          \* "running" | "stopped": the io_context

wsVars == <<conn, rd, wr, queue_, undelivered, reply, reads, ioc>>
vars == <<sharedVars, wsVars, messages>>

-------------------------------------------------------------------------------
(* Object lifetime and the thread pool *)

\* shared_from_this() is held by pending operations, by posted and running
\* handlers, by the registry, and by a broadcaster that locked a weak pointer.
Alive ==
  {s \in Session : \/ rd[s] # "none"
                   \/ wr[s] # "none"
                   \/ posted[s] # <<>>
                   \/ pc[s] # "idle"
                   \/ s \in Registered
                   \/ \E p \in Proc : cur[p] = s}

\* A thread of the pool may start a handler of strand p.
CanRun(p) ==
  /\ ioc = "running"
  /\ pc[p] = "idle"
  /\ Cardinality({q \in Proc : pc[q] # "idle"}) < Threads

-------------------------------------------------------------------------------
(* Handlers without a lock: on_accept, on_send, on_write *)

\* The constructor and run(): the HTTP session hands its socket over.
Connect(s) ==
  /\ CanRun(s)
  /\ conn[s] = "new"
  /\ conn' = [conn EXCEPT ![s] = "open"]
  /\ rd' = [rd EXCEPT ![s] = "accept"]
  /\ UNCHANGED <<sharedVars, wr, queue_, undelivered, reply, messages, reads, ioc>>

OnAccept(s) ==
  /\ CanRun(s)
  /\ rd[s] = "accept"
  /\ rd' = [rd EXCEPT ![s] = "read"]
  /\ UNCHANGED <<sharedVars, conn, wr, queue_, undelivered, reply, messages, reads, ioc>>

\* async_write of the front of queue_.  A stream may have one write pending at a
\* time: to start another is the error "overlap".
StartWrite(s) ==
  wr' = [wr EXCEPT ![s] = IF @ = "none" THEN "busy" ELSE "overlap"]

\* Fault: the write is started without the test of the length.
OnSendAlwaysWrites(s) ==
  /\ CanRun(s)
  /\ posted[s] # <<>>
  /\ posted' = [posted EXCEPT ![s] = Tail(@)]
  /\ queue_' = [queue_ EXCEPT ![s] = Append(@, Head(posted[s]))]
  /\ StartWrite(s)
  /\ UNCHANGED <<registryVars, m_login, m_login_mutex, frameVars>>
  /\ UNCHANGED <<conn, rd, undelivered, reply, messages, reads, ioc>>

\* Fault: the message goes in front of the waiting ones.
OnSendAtFront(s) ==
  /\ CanRun(s)
  /\ posted[s] # <<>>
  /\ posted' = [posted EXCEPT ![s] = Tail(@)]
  /\ queue_' = [queue_ EXCEPT ![s] = <<Head(posted[s])>> \o @]
  /\ IF Len(queue_[s]) + 1 > 1 THEN UNCHANGED wr ELSE StartWrite(s)
  /\ UNCHANGED <<registryVars, m_login, m_login_mutex, frameVars>>
  /\ UNCHANGED <<conn, rd, undelivered, reply, messages, reads, ioc>>

\* on_send: append, and write at once unless a write is in flight.
OnSend(s) ==
  /\ CanRun(s)
  /\ posted[s] # <<>>
  /\ posted' = [posted EXCEPT ![s] = Tail(@)]
  /\ queue_' = [queue_ EXCEPT ![s] = Append(@, Head(posted[s]))]
  /\ IF Len(queue_[s]) + 1 > 1 THEN UNCHANGED wr ELSE StartWrite(s)
  /\ UNCHANGED <<registryVars, m_login, m_login_mutex, frameVars>>
  /\ UNCHANGED <<conn, rd, undelivered, reply, messages, reads, ioc>>

\* Fault: the next message is not started.
OnWriteStops(s) ==
  /\ CanRun(s)
  /\ wr[s] = "sent" \/ (wr[s] = "busy" /\ conn[s] = "open")
  /\ queue_' = [queue_ EXCEPT ![s] = Tail(@)]
  /\ wr' = [wr EXCEPT ![s] = "none"]
  /\ UNCHANGED <<sharedVars, conn, rd, undelivered, reply, messages, reads, ioc>>

\* on_write without an error.  On a broken stream only a write that had
\* completed before ("sent") ends this way.
OnWrite(s) ==
  /\ CanRun(s)
  /\ wr[s] = "sent" \/ (wr[s] = "busy" /\ conn[s] = "open")
  /\ queue_' = [queue_ EXCEPT ![s] = Tail(@)]
  /\ wr' = [wr EXCEPT ![s] = IF Tail(queue_[s]) = <<>> THEN "none" ELSE "busy"]
  /\ UNCHANGED <<sharedVars, conn, rd, undelivered, reply, messages, reads, ioc>>

-------------------------------------------------------------------------------
(* fail: on_accept, on_read or on_write with an error.  The mutex is held  *)
(* over leave() and over the broadcast that leave() makes.                 *)

PendingError(s) ==
  /\ conn[s] = "broken"
  /\ \/ rd[s] \in {"accept", "read"} /\ rd' = [rd EXCEPT ![s] = "none"] /\ UNCHANGED wr
     \/ wr[s] = "busy" /\ wr' = [wr EXCEPT ![s] = "none"] /\ UNCHANGED rd

Fail(s) ==
  /\ CanRun(s)
  /\ PendingError(s)
  /\ m_login_mutex[s] = None
  /\ m_login_mutex' = [m_login_mutex EXCEPT ![s] = s]
  /\ pc' = [pc EXCEPT ![s] = "leave"]
  /\ UNCHANGED <<registryVars, m_login, posted, ret, dest, msg, todo, cur>>
  /\ UNCHANGED <<conn, queue_, undelivered, reply, messages, reads, ioc>>

Leave(s) == leave(s) /\ UNCHANGED <<wsVars, messages>>

\* The handler returns: its locals go out of scope.
PopFrame(s) ==
  /\ pc' = [pc EXCEPT ![s] = "idle"]
  /\ ret' = [ret EXCEPT ![s] = "idle"]
  /\ dest' = [dest EXCEPT ![s] = NoLogin]
  /\ msg' = [msg EXCEPT ![s] = MarkerMsg]
  /\ reply' = [reply EXCEPT ![s] = NoLogin]
  /\ UNCHANGED <<todo, cur>>

\* The lock_guard of fail is released when fail returns.
Unlock(s) ==
  /\ pc[s] = "unlock"
  /\ m_login_mutex' = [m_login_mutex EXCEPT ![s] = None]
  /\ PopFrame(s)
  /\ UNCHANGED <<registryVars, m_login, posted>>
  /\ UNCHANGED <<conn, rd, wr, queue_, undelivered, messages, reads, ioc>>

-------------------------------------------------------------------------------
(* on_read without an error: the whole handler runs on the strand, with    *)
(* the calls on the registry and on the database between its steps         *)

\* A request was read.  On a broken stream only one that had arrived before
\* ("got") is handled.
RequestRead(s) ==
  /\ CanRun(s)
  /\ rd[s] = "got" \/ (rd[s] = "read" /\ conn[s] = "open")

\* A request with effects; each session handles at most MaxReads of them.
Request(s) ==
  /\ RequestRead(s)
  /\ reads[s] < MaxReads[s]
  /\ reads' = [reads EXCEPT ![s] = @ + 1]

\* The next async_read, issued when the handler ends.
Rearm(s) ==
  /\ pc[s] = "rearm" \/ (pc[s] = "drain" /\ undelivered[s] = {})
  /\ rd' = [rd EXCEPT ![s] = "read"]
  /\ PopFrame(s)
  /\ UNCHANGED <<registryVars, memberVars>>
  /\ UNCHANGED <<conn, wr, queue_, undelivered, messages, reads, ioc>>

\* method login_user: store the name under m_login_mutex.  An empty name ends
\* the handler without another async_read.
OnReadLogin(s) ==
  /\ Request(s)
  /\ m_login_mutex[s] = None
  /\ \E l \in Names[s] :
       /\ m_login' = [m_login EXCEPT ![s] = l]
       /\ IF l = NoLogin
          THEN UNCHANGED <<pc, dest>>
          ELSE /\ pc' = [pc EXCEPT ![s] = "join"]
               /\ dest' = [dest EXCEPT ![s] = l]
  /\ rd' = [rd EXCEPT ![s] = "none"]
  /\ UNCHANGED <<registryVars, m_login_mutex, posted, ret, msg, todo, cur>>
  /\ UNCHANGED <<conn, wr, queue_, undelivered, reply, messages, ioc>>

JoinSession(s) == Join(s) /\ UNCHANGED <<wsVars, messages>>

\* Fault: the rows are deleted as they are read.
FetchAndClear(s) ==
  /\ pc[s] = "undelivered"
  /\ undelivered' =
       [undelivered EXCEPT ![s] = DB!GetUndeliveredMessages(messages, dest[s])]
  /\ messages' = {row \in messages : row[1] # dest[s]}
  /\ pc' = [pc EXCEPT ![s] = "drain"]
  /\ UNCHANGED <<registryVars, memberVars, ret, dest, msg, todo, cur>>
  /\ UNCHANGED <<conn, rd, wr, queue_, reply, reads, ioc>>

\* GetUndeliveredMessages(login), after the broadcast of login_user.
FetchUndelivered(s) ==
  /\ pc[s] = "undelivered"
  /\ undelivered' =
       [undelivered EXCEPT ![s] = DB!GetUndeliveredMessages(messages, dest[s])]
  /\ pc' = [pc EXCEPT ![s] = "drain"]
  /\ UNCHANGED <<registryVars, memberVars, ret, dest, msg, todo, cur>>
  /\ UNCHANGED <<conn, rd, wr, queue_, reply, messages, reads, ioc>>

\* The loop over undelivered_messages: send to this session, then delete.
DrainSend(s) ==
  /\ pc[s] = "drain"
  /\ m_login_mutex[s] = None
  /\ \E c \in undelivered[s] :
       /\ PostTo(s, DirectMsg(c))
       /\ msg' = [msg EXCEPT ![s] = DirectMsg(c)]
       /\ undelivered' = [undelivered EXCEPT ![s] = @ \ {c}]
  /\ pc' = [pc EXCEPT ![s] = "delete"]
  /\ UNCHANGED <<registryVars, m_login, m_login_mutex, ret, dest, todo, cur>>
  /\ UNCHANGED <<conn, rd, wr, queue_, reply, messages, reads, ioc>>

DrainDelete(s) ==
  /\ pc[s] = "delete"
  /\ messages' = DB!DeleteUserUndeliveredMessage(messages, dest[s], msg[s].content)
  /\ pc' = [pc EXCEPT ![s] = "drain"]
  /\ UNCHANGED <<registryVars, memberVars, ret, dest, msg, todo, cur>>
  /\ UNCHANGED wsVars

\* method send_message.
OnReadSendMessage(s) ==
  /\ Request(s)
  /\ \E mail \in Mail :
       /\ dest' = [dest EXCEPT ![s] = mail[1]]
       /\ reply' = [reply EXCEPT ![s] = mail[2]]
       /\ msg' = [msg EXCEPT ![s] = DirectMsg(mail[3])]
  /\ rd' = [rd EXCEPT ![s] = "none"]
  /\ pc' = [pc EXCEPT ![s] = "check"]
  /\ UNCHANGED <<registryVars, memberVars, ret, todo, cur>>
  /\ UNCHANGED <<conn, wr, queue_, undelivered, messages, ioc>>

\* The copy that goes back to from_login, the last call of the handler.
SendReply(s) ==
  /\ dest' = [dest EXCEPT ![s] = reply[s]]
  /\ ret' = [ret EXCEPT ![s] = "rearm"]
  /\ pc' = [pc EXCEPT ![s] = SendTo(reply[s])]

\* Fault: the message is sent without asking whether the addressee is there.
CheckNothing(s) ==
  /\ pc[s] = "check"
  /\ m_mutex = None
  /\ pc' = [pc EXCEPT ![s] = SendTo(dest[s])]
  /\ ret' = [ret EXCEPT ![s] = "echo"]
  /\ UNCHANGED <<registryVars, memberVars, dest, msg, todo, cur>>
  /\ UNCHANGED <<wsVars, messages>>

\* userLoggedIn(to_login) chooses between delivery now and the database.
CheckOnline(s) ==
  /\ pc[s] = "check"
  /\ m_mutex = None
  /\ pc' = [pc EXCEPT ![s] = IF userLoggedIn(dest[s]) THEN SendTo(dest[s]) ELSE "save"]
  /\ ret' = [ret EXCEPT ![s] = "echo"]
  /\ UNCHANGED <<registryVars, memberVars, dest, msg, todo, cur>>
  /\ UNCHANGED <<wsVars, messages>>

SaveMessage(s) ==
  /\ pc[s] = "save"
  /\ messages' = DB!SaveUserMessage(messages, dest[s], msg[s].content)
  /\ SendReply(s)
  /\ UNCHANGED <<registryVars, memberVars, msg, todo, cur>>
  /\ UNCHANGED wsVars

Echo(s) ==
  /\ pc[s] = "echo"
  /\ SendReply(s)
  /\ UNCHANGED <<registryVars, memberVars, msg, todo, cur>>
  /\ UNCHANGED <<wsVars, messages>>

\* Any other method is ignored.
OnReadOther(s) ==
  /\ RequestRead(s)
  /\ rd' = [rd EXCEPT ![s] = "read"]
  /\ UNCHANGED <<sharedVars, conn, wr, queue_, undelivered, reply, messages, reads, ioc>>

SendSession(s) == SendStep(s, Alive) /\ UNCHANGED <<wsVars, messages>>

-------------------------------------------------------------------------------

OnRead(s) == OnReadLogin(s) \/ OnReadSendMessage(s) \/ OnReadOther(s)

\* A step of s's strand that some thread of the pool is bound to make.
HandlerStep(s) ==
  \/ OnAccept(s) \/ OnSend(s)
  \/ rd[s] = "got" /\ OnRead(s)
  \/ wr[s] = "sent" /\ OnWrite(s)
  \/ Fail(s) \/ Leave(s) \/ Unlock(s)
  \/ JoinSession(s) \/ FetchUndelivered(s) \/ DrainSend(s) \/ DrainDelete(s)
  \/ CheckOnline(s) \/ SaveMessage(s) \/ Echo(s) \/ Rearm(s)
  \/ SendSession(s)

\* The client reads: the write in flight completes.  No timer of the session
\* ends a write to a client that does not.
ClientReads(s) == wr[s] = "busy" /\ OnWrite(s)

\* A step the client decides on.
ClientStep(s) ==
  \/ Connect(s)
  \/ rd[s] = "read" /\ OnRead(s)
  \/ ClientReads(s)

\* The stream fails.  A pending operation may have completed just before, its
\* handler still waiting for a thread.
Break(s) ==
  /\ s \in Fragile
  /\ conn[s] = "open"
  /\ conn' = [conn EXCEPT ![s] = "broken"]
  /\ \E done \in BOOLEAN :
       rd' = [rd EXCEPT ![s] = IF done /\ @ = "read" THEN "got" ELSE @]
  /\ \E done \in BOOLEAN :
       wr' = [wr EXCEPT ![s] = IF done /\ @ = "busy" THEN "sent" ELSE @]
  /\ UNCHANGED <<sharedVars, queue_, undelivered, reply, messages, reads, ioc>>

WsTypeOK ==
  /\ conn \in [Session -> {"new", "open", "broken"}]
  /\ rd \in [Session -> {"none", "accept", "read", "got"}]
  /\ wr \in [Session -> {"none", "busy", "sent", "overlap"}]
  /\ queue_ \in [Session -> Seq(Message)]
  /\ undelivered \in [Session -> SUBSET Content]
  /\ reply \in [Session -> SomeLogin]
  /\ messages \subseteq SomeLogin \X Content
  /\ reads \in [Session -> Nat]
  /\ ioc \in {"running", "stopped"}

WsInit ==
  /\ conn = [s \in Session |-> "new"]
  /\ rd = [s \in Session |-> "none"]
  /\ wr = [s \in Session |-> "none"]
  /\ queue_ = [s \in Session |-> <<>>]
  /\ undelivered = [s \in Session |-> {}]
  /\ reply = [s \in Session |-> NoLogin]
  /\ ioc = "running"

\* The same values in a new process.
WsReset ==
  /\ conn' = [s \in Session |-> "new"]
  /\ rd' = [s \in Session |-> "none"]
  /\ wr' = [s \in Session |-> "none"]
  /\ queue_' = [s \in Session |-> <<>>]
  /\ undelivered' = [s \in Session |-> {}]
  /\ reply' = [s \in Session |-> NoLogin]
  /\ ioc' = "running"

===============================================================================
