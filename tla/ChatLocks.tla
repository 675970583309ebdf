------------------------------- MODULE ChatLocks -------------------------------
(***************************************************************************)
(* Who waits for whose m_login_mutex.  fail() holds the mutex of its own   *)
(* session over the whole broadcast of logout_user                         *)
(* (websocket_session.cpp:31-32), and the broadcast takes the mutex of     *)
(* each session it reaches (websocket_session.cpp:125).                    *)
(***************************************************************************)
EXTENDS ChatServer

\* p has called send() of a session, and waits for that session's m_login_mutex.
WaitsForSession(p) == pc[p] = "session_send" /\ m_login_mutex[cur[p]] # None

\* No strands wait for one another's m_login_mutex in a circle, whether two
\* failing sessions that broadcast to each other or one that broadcasts to
\* itself (a second lock of a std::mutex by its owner).  It rests on leave()
\* erasing the session before send() copies the list, and holds as long as
\* every client keeps to one name.
NoSessionCycle ==
  \A S \in SUBSET Proc : S # {} =>
    \E p \in S : ~(WaitsForSession(p) /\ m_login_mutex[cur[p]] \in S)

\* p waits for a mutex that q holds: for m_mutex, for the m_login_mutex of the
\* session whose send() it calls, or for its own in the drain of stored mail.  (A
\* handler that has not started holds no mutex; it is not a link of a circle.)
WaitsFor(p, q) ==
  \/ pc[p] \in {"join", "leave", "snapshot", "find", "check"} /\ m_mutex = q
  \/ pc[p] = "session_send" /\ m_login_mutex[cur[p]] = q
  \/ p \in Session /\ pc[p] = "drain" /\ m_login_mutex[p] = q

\* A directed send holds m_mutex and takes an m_login_mutex, fail() holds its
\* m_login_mutex and takes m_mutex (shared_state.cpp:69-73,
\* websocket_session.cpp:31-32, 125): the two can wait for each other.  As long as
\* every client keeps to one name, that inversion is the only way to a circle over
\* m_mutex and the mutexes of the sessions: any circle contains a strand that
\* holds m_mutex for a directed send, and the session it sends to, which is failing.
CirclesAreInversions ==
  \A S \in SUBSET Proc :
    S # {} /\ (\A p \in S : \E q \in S : WaitsFor(p, q))
      => \E p \in S : m_mutex = p /\ cur[p] \in S /\ m_login_mutex[cur[p]] = cur[p]

-------------------------------------------------------------------------------
(* The inductive invariant behind both, for clients that keep to one name *)

SingleName == \A s \in Session : \A k, l \in Names[s] : k = l

\* The strands of sessions that broadcast their own logout_user.
Failing == {s \in Session : /\ ret[s] = "unlock"
                            /\ pc[s] \in {"snapshot", "foreach", "session_send"}}

\* A session's mutex is held over other calls only by fail() on its own strand.
HeldByFail ==
  \A s \in Session : m_login_mutex[s] # None =>
    m_login_mutex[s] = s /\ (pc[s] \in {"leave", "unlock"} \/ s \in Failing)

\* A directed send is never part of fail().
FindReturns == \A s \in Session : pc[s] = "find" => ret[s] # "unlock"

\* m_mutex is held over another acquisition only by a directed send.
HeldByFind ==
  \A p \in Proc : m_mutex = p => pc[p] = "session_send" /\ todo[p] = {}

\* A broadcast's list is empty when the broadcast is over.
ListInUse == \A p \in Proc : pc[p] \notin {"foreach", "session_send"} => todo[p] = {}

\* m_login is what the client sent last, and Join registers that name.
OneNameEach ==
  \A s \in Session : /\ m_login[s] \in Names[s] \cup {NoLogin}
                     /\ pc[s] = "join" => dest[s] = m_login[s]

\* A session is registered under its own name.
ListedUnderOwnName == \A l \in Login : m_sessions[l] # None => m_login[m_sessions[l]] = l

\* A session that broadcasts its own logout_user has left the registry.
FailingNotListed == \A s \in Failing : s \notin Registered

\* The sessions x may still call send() of.
Reach(x) == {t \in Session : t = cur[x] \/ \E e \in todo[x] : e[2] = t}

\* Among any failing sessions, the one that copied the registry last reaches
\* none of the others: they had left the registry by then.
LastCopyMisses ==
  \A S \in SUBSET Failing : S # {} => \E x \in S : Reach(x) \cap S = {}

LockInv ==
  /\ HeldByFail
  /\ FindReturns
  /\ HeldByFind
  /\ ListInUse
  /\ OneNameEach
  /\ ListedUnderOwnName
  /\ FailingNotListed
  /\ LastCopyMisses

===============================================================================
