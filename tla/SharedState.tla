----------------------------- MODULE SharedState ------------------------------
(***************************************************************************)
(* shared_state.cpp: the registry m_sessions of logged-in WebSocket        *)
(* sessions, the mutex that guards it, and the routines every strand calls *)
(* on it: userLoggedIn, Join, leave, send.                                 *)
(*                                                                         *)
(* A process p is a strand: a WebSocket session's own strand, or another   *)
(* strand (PlacesManager's, an HTTP session's) that broadcasts.  A strand  *)
(* runs one handler at a time, so a process has one program counter and    *)
(* one frame of local variables.  An action is the code between two        *)
(* acquisitions of a mutex.  A mutex held across an acquisition of another *)
(* one is a variable; a critical section with no acquisition inside is one *)
(* atomic action guarded by the mutex being free.                          *)
(***************************************************************************)
EXTENDS Naturals, Sequences, FiniteSets

CONSTANTS
  Session,     \* websocket_session objects the server may create
  Caller,      \* other strands that call send("", ...)
  Login,       \* non-empty login names
  NoLogin,     \* the empty string
  Content,     \* bodies of send_message requests
  None         \* no process, no session

ASSUME NamesAssumption ==
  /\ NoLogin \notin Login
  /\ None \notin Session \cup Caller
  /\ Session \cap Caller = {}

Proc == Session \cup Caller

VARIABLES
  m_mutex,       \* owner of shared_state::m_mutex
  m_sessions,    \* login -> registered session
  m_login,       \* session -> name its client logged in with
  m_login_mutex, \* session -> owner of its m_login_mutex
  posted,        \* session -> messages of the on_send handlers posted to its strand
  pc,            \* process -> where its handler is
  ret,           \* process -> where the routine being run returns to
  dest,          \* process -> argument login of the routine being run
  msg,           \* process -> message being sent
  todo,          \* process -> rest of the broadcast's list of weak pointers
  cur            \* process -> session whose send is being called

registryVars == <<m_mutex, m_sessions>>
memberVars == <<m_login, m_login_mutex, posted>>
frameVars == <<pc, ret, dest, msg, todo, cur>>
sharedVars == <<registryVars, memberVars, frameVars>>

-------------------------------------------------------------------------------
(* Messages: the four JSON methods that reach send() *)

LoginMsg(l) == [method |-> "login_user", login |-> l]
LogoutMsg(l) == [method |-> "logout_user", login |-> l]
MarkerMsg == [method |-> "marker", login |-> NoLogin]
DirectMsg(c) == [method |-> "send_message", content |-> c]

Message == [method : {"login_user", "logout_user", "marker"},
            login : Login \cup {NoLogin}]
           \cup [method : {"send_message"}, content : Content]

-------------------------------------------------------------------------------
(* The registry *)

Entries == {<<l, m_sessions[l]>> : l \in {k \in Login : m_sessions[k] # None}}

Registered == {e[2] : e \in Entries}

\* m_sessions.contains(login): the empty name is never inserted.
userLoggedIn(l) == l \in Login /\ m_sessions[l] # None

\* shared_state::Join, then the broadcast of login_user that on_read makes.
\* emplace leaves an entry that is already there alone.
Join(p) ==
  /\ pc[p] = "join"
  /\ m_mutex = None
  /\ m_sessions' = [m_sessions EXCEPT ![dest[p]] = IF @ = None THEN p ELSE @]
  /\ msg' = [msg EXCEPT ![p] = LoginMsg(dest[p])]
  /\ ret' = [ret EXCEPT ![p] = "undelivered"]
  /\ pc' = [pc EXCEPT ![p] = "snapshot"]
  /\ UNCHANGED <<m_mutex, memberVars, dest, todo, cur>>

\* Fault: the entry stays in the registry.
leaveKeepsEntry(p) ==
  /\ pc[p] = "leave"
  /\ m_mutex = None
  /\ msg' = [msg EXCEPT ![p] = LogoutMsg(m_login[p])]
  /\ ret' = [ret EXCEPT ![p] = "unlock"]
  /\ pc' = [pc EXCEPT ![p] = "snapshot"]
  /\ UNCHANGED <<registryVars, memberVars, dest, todo, cur>>

\* Fault: clear() in place of erase(login).
leaveClears(p) ==
  /\ pc[p] = "leave"
  /\ m_mutex = None
  /\ m_sessions' = [l \in Login |-> None]
  /\ msg' = [msg EXCEPT ![p] = LogoutMsg(m_login[p])]
  /\ ret' = [ret EXCEPT ![p] = "unlock"]
  /\ pc' = [pc EXCEPT ![p] = "snapshot"]
  /\ UNCHANGED <<m_mutex, memberVars, dest, todo, cur>>

\* Fault: nobody is told.
leaveSilently(p) ==
  /\ pc[p] = "leave"
  /\ m_mutex = None
  /\ m_sessions' = [l \in Login |-> IF l = m_login[p] THEN None ELSE m_sessions[l]]
  /\ pc' = [pc EXCEPT ![p] = "unlock"]
  /\ UNCHANGED <<m_mutex, memberVars, ret, dest, msg, todo, cur>>

\* shared_state::leave(m_login) of a session whose m_login_mutex p holds:
\* erase under the mutex, then broadcast logout_user.
leave(p) ==
  /\ pc[p] = "leave"
  /\ m_mutex = None
  /\ m_sessions' = [l \in Login |-> IF l = m_login[p] THEN None ELSE m_sessions[l]]
  /\ msg' = [msg EXCEPT ![p] = LogoutMsg(m_login[p])]
  /\ ret' = [ret EXCEPT ![p] = "unlock"]
  /\ pc' = [pc EXCEPT ![p] = "snapshot"]
  /\ UNCHANGED <<m_mutex, memberVars, dest, todo, cur>>

-------------------------------------------------------------------------------
(* shared_state::send *)

\* The branch of send(): an empty login broadcasts.
SendTo(l) == IF l = NoLogin THEN "snapshot" ELSE "find"

\* Where the broadcast goes on when "rest" of its list is left.
LoopOn(p, rest) == IF rest = {} THEN ret[p] ELSE "foreach"

\* Empty login: copy the registry's weak pointers under the mutex.
Snapshot(p) ==
  /\ pc[p] = "snapshot"
  /\ m_mutex = None
  /\ todo' = [todo EXCEPT ![p] = Entries]
  /\ pc' = [pc EXCEPT ![p] = LoopOn(p, Entries)]
  /\ UNCHANGED <<registryVars, memberVars, ret, dest, msg, cur>>

\* One round of the loop over the weak pointers, up to the call of send.  The
\* order is that of an unordered_map.  "alive" are the sessions a weak pointer
\* still locks; from here on the strong pointer keeps the session alive.
ForEach(p, alive) ==
  /\ pc[p] = "foreach"
  /\ \E e \in todo[p] :
       /\ todo' = [todo EXCEPT ![p] = @ \ {e}]
       /\ IF e[2] \in alive
          THEN /\ cur' = [cur EXCEPT ![p] = e[2]]
               /\ pc' = [pc EXCEPT ![p] = "session_send"]
          ELSE /\ pc' = [pc EXCEPT ![p] = LoopOn(p, todo[p] \ {e})]
               /\ UNCHANGED cur
  /\ UNCHANGED <<registryVars, memberVars, ret, dest, msg>>

\* Non-empty login: look the session up, and keep the mutex for the call of
\* its send.  An unknown login is only logged.
Find(p) ==
  /\ pc[p] = "find"
  /\ m_mutex = None
  /\ IF userLoggedIn(dest[p])
     THEN /\ m_mutex' = p
          /\ cur' = [cur EXCEPT ![p] = m_sessions[dest[p]]]
          /\ pc' = [pc EXCEPT ![p] = "session_send"]
     ELSE /\ pc' = [pc EXCEPT ![p] = ret[p]]
          /\ UNCHANGED <<m_mutex, cur>>
  /\ UNCHANGED <<m_sessions, memberVars, ret, dest, msg, todo>>

-------------------------------------------------------------------------------
(* websocket_session::send, called by any strand *)

\* The post: a session whose m_login is empty drops the message.
PostTo(s, m) ==
  posted' = [posted EXCEPT ![s] = IF m_login[s] = NoLogin THEN @ ELSE Append(@, m)]

\* Fault: a directed send returns without releasing m_mutex.
SessionSendKeepsMutex(p) ==
  /\ pc[p] = "session_send"
  /\ m_login_mutex[cur[p]] = None
  /\ PostTo(cur[p], msg[p])
  /\ cur' = [cur EXCEPT ![p] = None]
  /\ pc' = [pc EXCEPT ![p] = IF m_mutex = p THEN ret[p] ELSE LoopOn(p, todo[p])]
  /\ UNCHANGED <<registryVars, m_login, m_login_mutex, ret, dest, msg, todo>>

\* The body runs under the session's m_login_mutex and calls nothing that
\* blocks; back in shared_state::send, m_mutex is released if it was held.
SessionSend(p) ==
  /\ pc[p] = "session_send"
  /\ m_login_mutex[cur[p]] = None
  /\ PostTo(cur[p], msg[p])
  /\ cur' = [cur EXCEPT ![p] = None]
  /\ m_mutex' = IF m_mutex = p THEN None ELSE m_mutex
  /\ pc' = [pc EXCEPT ![p] = IF m_mutex = p THEN ret[p] ELSE LoopOn(p, todo[p])]
  /\ UNCHANGED <<m_sessions, m_login, m_login_mutex, ret, dest, msg, todo>>

\* The steps of send(), whichever strand runs it.
SendStep(p, alive) ==
  \/ Snapshot(p)
  \/ ForEach(p, alive)
  \/ Find(p)
  \/ SessionSend(p)

-------------------------------------------------------------------------------

Pc == {"idle", "join", "undelivered", "drain", "delete", "check", "save", "echo",
       "rearm", "leave", "unlock", "snapshot", "foreach", "find", "session_send"}

Ret == {"idle", "undelivered", "echo", "rearm", "unlock"}

SomeLogin == Login \cup {NoLogin}

RegistryTypeOK ==
  /\ m_mutex \in Proc \cup {None}
  /\ m_sessions \in [Login -> Session \cup {None}]

MemberTypeOK ==
  /\ m_login \in [Session -> SomeLogin]
  /\ m_login_mutex \in [Session -> Proc \cup {None}]
  /\ posted \in [Session -> Seq(Message)]

FrameTypeOK ==
  /\ pc \in [Proc -> Pc]
  /\ ret \in [Proc -> Ret]
  /\ dest \in [Proc -> SomeLogin]
  /\ msg \in [Proc -> Message]
  /\ todo \in [Proc -> SUBSET (Login \X Session)]
  /\ cur \in [Proc -> Session \cup {None}]

SharedInit ==
  /\ m_mutex = None
  /\ m_sessions = [l \in Login |-> None]
  /\ m_login = [s \in Session |-> NoLogin]
  /\ m_login_mutex = [s \in Session |-> None]
  /\ posted = [s \in Session |-> <<>>]
  /\ pc = [p \in Proc |-> "idle"]
  /\ ret = [p \in Proc |-> "idle"]
  /\ dest = [p \in Proc |-> NoLogin]
  /\ msg = [p \in Proc |-> MarkerMsg]
  /\ todo = [p \in Proc |-> {}]
  /\ cur = [p \in Proc |-> None]

\* The same values in a new process.
SharedReset ==
  /\ m_mutex' = None
  /\ m_sessions' = [l \in Login |-> None]
  /\ m_login' = [s \in Session |-> NoLogin]
  /\ m_login_mutex' = [s \in Session |-> None]
  /\ posted' = [s \in Session |-> <<>>]
  /\ pc' = [p \in Proc |-> "idle"]
  /\ ret' = [p \in Proc |-> "idle"]
  /\ dest' = [p \in Proc |-> NoLogin]
  /\ msg' = [p \in Proc |-> MarkerMsg]
  /\ todo' = [p \in Proc |-> {}]
  /\ cur' = [p \in Proc |-> None]

===============================================================================
