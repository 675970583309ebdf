--------------------------- MODULE ChatLocks_proofs ---------------------------
(***************************************************************************)
(* NoSessionCycle and CirclesAreInversions for any number of strands, from *)
(* ChatLocks' inductive invariant.                                         *)
(***************************************************************************)
EXTENDS ChatLocks, ChatServer_proofs

LEMMA LockInit == Init => LockInv
<1> SUFFICES ASSUME Init PROVE LockInv
  OBVIOUS
<1>1. Failing = {} /\ Registered = {}
  BY DEF Init, SharedInit, Failing, Registered, Entries, Proc
<1>2. HeldByFail /\ FindReturns /\ HeldByFind /\ ListInUse
  BY NamesAssumption
  DEF Init, SharedInit, HeldByFail, FindReturns, HeldByFind, ListInUse, Proc
<1>3. OneNameEach /\ ListedUnderOwnName
  BY DEF Init, SharedInit, OneNameEach, ListedUnderOwnName, Proc
<1>4. FailingNotListed /\ LastCopyMisses
  BY <1>1 DEF FailingNotListed, LastCopyMisses
<1> QED BY <1>2, <1>3, <1>4 DEF LockInv

\* The invariant rules out a circle: the owners of the mutexes waited for are
\* failing sessions, and one of them reaches none of the others.
LEMMA LockInvSafe ==
  ASSUME TypeInv, LockInv
  PROVE  NoSessionCycle
<1> SUFFICES ASSUME NEW S \in SUBSET Proc, S # {},
                    \A p \in S : WaitsForSession(p) /\ m_login_mutex[cur[p]] \in S
             PROVE  FALSE
  BY DEF NoSessionCycle
<1> DEFINE T == {cur[p] : p \in S}
<1>1. \A p \in S : cur[p] \in Failing /\ cur[p] \in S
  <2> SUFFICES ASSUME NEW p \in S PROVE cur[p] \in Failing /\ cur[p] \in S
    OBVIOUS
  <2>1. cur[p] \in Session
    BY DEF WaitsForSession, TypeInv, ChatTypeInv, SendTarget, FrameTypeOK
  <2>2. m_login_mutex[cur[p]] = cur[p]
    BY <2>1 DEF WaitsForSession, LockInv, HeldByFail
  <2>3. pc[cur[p]] = "session_send"
    BY <2>2 DEF WaitsForSession
  <2> QED BY <2>1, <2>2, <2>3 DEF WaitsForSession, LockInv, HeldByFail
<1>2. T \in SUBSET Failing /\ T # {}
  BY <1>1
<1>3. PICK x \in T : Reach(x) \cap T = {}
  BY <1>2 DEF LockInv, LastCopyMisses
<1>4. x \in S /\ cur[x] \in T /\ cur[x] \in Session
  BY <1>1 DEF Failing
<1> QED BY <1>3, <1>4 DEF Reach

-------------------------------------------------------------------------------
(* Steps that leave the locks and the lists alone *)

lockVars == <<m_mutex, m_sessions, m_login, m_login_mutex>>

LEMMA LockUnchanged ==
  ASSUME LockInv, UNCHANGED lockVars, UNCHANGED <<pc, ret, dest, todo, cur>>
  PROVE  LockInv'
<1>1. HeldByFail' /\ FindReturns' /\ HeldByFind' /\ ListInUse' /\ OneNameEach'
  BY DEF lockVars, LockInv, HeldByFail, FindReturns, HeldByFind, ListInUse, OneNameEach,
         Failing
<1>2. ListedUnderOwnName' /\ FailingNotListed'
  BY DEF lockVars, LockInv, ListedUnderOwnName, FailingNotListed, Failing, Registered,
         Entries
<1>3. LastCopyMisses'
  BY DEF lockVars, LockInv, LastCopyMisses, Failing, Reach
<1> QED BY <1>1, <1>2, <1>3 DEF LockInv

\* When no session joins the failing ones and none of them reaches more, the
\* last copy still misses the others.
LEMMA FewerReach ==
  ASSUME LastCopyMisses, Failing' \subseteq Failing,
         \A x \in Failing' : Reach(x)' \subseteq Reach(x)
  PROVE  LastCopyMisses'
<1> SUFFICES ASSUME NEW S \in SUBSET Failing', S # {}
             PROVE  \E x \in S : Reach(x)' \cap S = {}
  BY DEF LastCopyMisses
<1>1. PICK x \in S : Reach(x) \cap S = {}
  BY DEF LastCopyMisses
<1> QED BY <1>1

\* A step of a handler of s outside fail() and outside the routines of send().
LEMMA LocalStep ==
  ASSUME TypeInv, LockInv, NEW s \in Session,
         UNCHANGED lockVars, UNCHANGED <<todo, cur>>, FrameTypeOK',
         \A q \in Proc \ {s} : pc'[q] = pc[q] /\ ret'[q] = ret[q] /\ dest'[q] = dest[q],
         pc[s] \notin {"leave", "unlock", "snapshot", "foreach", "session_send"},
         pc'[s] \notin {"join", "foreach", "session_send"},
         pc'[s] \in {"snapshot", "find"} => ret'[s] # "unlock"
  PROVE  LockInv'
<1> USE DEF LockInv, lockVars, Proc
<1>1. s \notin Failing /\ m_login_mutex[s] = None /\ m_mutex # s /\ todo[s] = {}
  BY DEF Failing, HeldByFail, HeldByFind, ListInUse
<1>2. Failing' = Failing
  BY <1>1 DEF Failing
<1>3. HeldByFail' /\ FindReturns' /\ HeldByFind' /\ ListInUse' /\ OneNameEach'
  BY <1>1, <1>2 DEF HeldByFail, FindReturns, HeldByFind, ListInUse, OneNameEach
<1>4. ListedUnderOwnName' /\ FailingNotListed'
  BY <1>2 DEF ListedUnderOwnName, FailingNotListed, Registered, Entries
<1>5. LastCopyMisses'
  BY <1>2, FewerReach DEF Reach
<1> QED BY <1>3, <1>4, <1>5

LEMMA LocalSteps ==
  ASSUME TypeInv, LockInv, ChatTypeInv', NEW s \in Session,
         \/ FetchUndelivered(s) \/ DrainSend(s) \/ DrainDelete(s) \/ Rearm(s)
         \/ OnReadSendMessage(s) \/ CheckOnline(s) \/ SaveMessage(s) \/ Echo(s)
  PROVE  LockInv'
<1> USE DEF TypeInv, ChatTypeInv
<1>1. UNCHANGED lockVars /\ UNCHANGED <<todo, cur>>
  BY DEF FetchUndelivered, DrainSend, DrainDelete, Rearm, OnReadSendMessage, CheckOnline,
         SaveMessage, Echo, PopFrame, lockVars, registryVars, memberVars
<1>2. CASE FetchUndelivered(s) \/ DrainSend(s) \/ DrainDelete(s)
  <2>1. pc[s] \in {"undelivered", "drain", "delete"} /\ pc'[s] \in {"drain", "delete"}
        /\ \A q \in Proc \ {s} : pc'[q] = pc[q] /\ ret'[q] = ret[q] /\ dest'[q] = dest[q]
    BY <1>2 DEF FetchUndelivered, DrainSend, DrainDelete, FrameTypeOK, Proc
  <2> QED BY <1>1, <2>1, LocalStep
<1>3. CASE Rearm(s)
  <2>1. pc[s] \in {"rearm", "drain"} /\ pc'[s] = "idle"
        /\ \A q \in Proc \ {s} : pc'[q] = pc[q] /\ ret'[q] = ret[q] /\ dest'[q] = dest[q]
    BY <1>3 DEF Rearm, PopFrame, FrameTypeOK, Proc
  <2> QED BY <1>1, <2>1, LocalStep
<1>4. CASE OnReadSendMessage(s)
  <2>1. pc[s] = "idle" /\ pc'[s] = "check"
        /\ \A q \in Proc \ {s} : pc'[q] = pc[q] /\ ret'[q] = ret[q] /\ dest'[q] = dest[q]
    BY <1>4 DEF OnReadSendMessage, Request, RequestRead, CanRun, FrameTypeOK, Proc
  <2> QED BY <1>1, <2>1, LocalStep
<1>5. CASE CheckOnline(s)
  <2>1. pc[s] = "check" /\ pc'[s] \in {"snapshot", "find", "save"} /\ ret'[s] = "echo"
        /\ \A q \in Proc \ {s} : pc'[q] = pc[q] /\ ret'[q] = ret[q] /\ dest'[q] = dest[q]
    BY <1>5 DEF CheckOnline, SendTo, FrameTypeOK, Proc
  <2> QED BY <1>1, <2>1, LocalStep
<1>6. CASE SaveMessage(s) \/ Echo(s)
  <2>1. pc[s] \in {"save", "echo"} /\ pc'[s] \in {"snapshot", "find"} /\ ret'[s] = "rearm"
        /\ \A q \in Proc \ {s} : pc'[q] = pc[q] /\ ret'[q] = ret[q] /\ dest'[q] = dest[q]
    BY <1>6 DEF SaveMessage, Echo, SendReply, SendTo, FrameTypeOK, Proc
  <2> QED BY <1>1, <2>1, LocalStep
<1> QED BY <1>2, <1>3, <1>4, <1>5, <1>6

-------------------------------------------------------------------------------
(* login_user: a new name, then Join *)

LEMMA LoginLocks ==
  ASSUME SingleName, TypeInv, LockInv, NEW s \in Session, OnReadLogin(s)
  PROVE  LockInv'
<1> USE DEF LockInv, TypeInv, ChatTypeInv, Proc
<1>1. PICK l \in Names[s] :
        /\ m_login' = [m_login EXCEPT ![s] = l]
        /\ \/ UNCHANGED <<pc, dest>>
           \/ /\ pc' = [pc EXCEPT ![s] = "join"]
              /\ dest' = [dest EXCEPT ![s] = l]
  BY DEF OnReadLogin
<1>2. pc[s] = "idle" /\ UNCHANGED <<m_mutex, m_sessions, m_login_mutex, ret, todo, cur>>
  BY DEF OnReadLogin, Request, RequestRead, CanRun, registryVars
<1>3. Failing' = Failing /\ s \notin Failing
  BY <1>1, <1>2 DEF Failing, FrameTypeOK
<1>4. m_login_mutex[s] = None /\ m_mutex # s
  BY <1>2, <1>3 DEF HeldByFail, HeldByFind
<1>5. HeldByFail' /\ FindReturns'
  BY <1>1, <1>2, <1>3, <1>4 DEF HeldByFail, FindReturns, FrameTypeOK
<1>6. HeldByFind' /\ ListInUse'
  BY <1>1, <1>2, <1>4 DEF HeldByFind, ListInUse, FrameTypeOK
<1>7. OneNameEach'
  BY <1>1, <1>2 DEF OneNameEach, FrameTypeOK, MemberTypeOK
<1>8. ListedUnderOwnName'
  <2> SUFFICES ASSUME NEW k \in Login, m_sessions[k] # None
               PROVE  m_login'[m_sessions[k]] = k
    BY <1>2 DEF ListedUnderOwnName
  <2>1. m_login[m_sessions[k]] = k /\ m_sessions[k] \in Session
    BY DEF ListedUnderOwnName, RegistryTypeOK
  <2>2. CASE m_sessions[k] = s
    <3>1. k \in Names[s]
      BY <2>1, <2>2, NamesAssumption DEF OneNameEach
    <3> QED BY <1>1, <2>2, <3>1 DEF SingleName, MemberTypeOK
  <2> QED BY <1>1, <2>1, <2>2 DEF MemberTypeOK
<1>9. FailingNotListed'
  BY <1>2, <1>3 DEF FailingNotListed, Registered, Entries
<1>10. LastCopyMisses'
  BY <1>2, <1>3 DEF LastCopyMisses, Reach
<1> QED BY <1>5, <1>6, <1>7, <1>8, <1>9, <1>10

LEMMA JoinLocks ==
  ASSUME TypeInv, LockInv, NEW s \in Session, JoinSession(s)
  PROVE  LockInv'
<1> USE DEF LockInv, TypeInv, ChatTypeInv, Proc
<1>1. /\ pc[s] = "join" /\ m_mutex = None
      /\ m_sessions' = [m_sessions EXCEPT ![dest[s]] = IF @ = None THEN s ELSE @]
      /\ ret' = [ret EXCEPT ![s] = "undelivered"]
      /\ pc' = [pc EXCEPT ![s] = "snapshot"]
      /\ UNCHANGED <<m_mutex, m_login, m_login_mutex, dest, todo, cur>>
  BY DEF JoinSession, Join, memberVars
<1>2. Failing' = Failing /\ s \notin Failing
  BY <1>1 DEF Failing, FrameTypeOK
<1>3. m_login_mutex[s] = None
  BY <1>1, <1>2 DEF HeldByFail
<1>4. HeldByFail' /\ FindReturns'
  BY <1>1, <1>2, <1>3 DEF HeldByFail, FindReturns, FrameTypeOK
<1>5. HeldByFind' /\ ListInUse'
  BY <1>1, NamesAssumption DEF HeldByFind, ListInUse, FrameTypeOK
<1>6. OneNameEach'
  BY <1>1 DEF OneNameEach, FrameTypeOK
<1>7. ListedUnderOwnName'
  BY <1>1 DEF ListedUnderOwnName, OneNameEach, RegistryTypeOK
<1>8. FailingNotListed'
  <2>1. Registered' \subseteq Registered \cup {s}
    BY <1>1 DEF Registered, Entries, RegistryTypeOK
  <2> QED BY <1>2, <2>1 DEF FailingNotListed
<1>9. LastCopyMisses'
  BY <1>1, <1>2 DEF LastCopyMisses, Reach
<1> QED BY <1>4, <1>5, <1>6, <1>7, <1>8, <1>9

-------------------------------------------------------------------------------
(* fail: take the mutex, leave the registry, release the mutex *)

LEMMA FailLocks ==
  ASSUME TypeInv, LockInv, NEW s \in Session, Fail(s)
  PROVE  LockInv'
<1> USE DEF LockInv, TypeInv, ChatTypeInv, Proc
<1>1. /\ pc[s] = "idle"
      /\ m_login_mutex' = [m_login_mutex EXCEPT ![s] = s]
      /\ pc' = [pc EXCEPT ![s] = "leave"]
      /\ UNCHANGED <<m_mutex, m_sessions, m_login, ret, dest, todo, cur>>
  BY DEF Fail, CanRun, registryVars
<1>2. Failing' = Failing
  BY <1>1 DEF Failing, FrameTypeOK
<1>3. HeldByFail' /\ FindReturns'
  BY <1>1, <1>2 DEF HeldByFail, FindReturns, FrameTypeOK, MemberTypeOK
<1>4. HeldByFind' /\ ListInUse' /\ OneNameEach'
  BY <1>1 DEF HeldByFind, ListInUse, OneNameEach, FrameTypeOK
<1>5. ListedUnderOwnName' /\ FailingNotListed'
  BY <1>1, <1>2 DEF ListedUnderOwnName, FailingNotListed, Registered, Entries
<1>6. LastCopyMisses'
  BY <1>1, <1>2 DEF LastCopyMisses, Reach
<1> QED BY <1>3, <1>4, <1>5, <1>6

LEMMA LeaveLocks ==
  ASSUME TypeInv, LockInv, NEW s \in Session, Leave(s)
  PROVE  LockInv'
<1> USE DEF LockInv, TypeInv, ChatTypeInv, Proc
<1>1. /\ pc[s] = "leave" /\ m_mutex = None
      /\ m_sessions' = [l \in Login |-> IF l = m_login[s] THEN None ELSE m_sessions[l]]
      /\ ret' = [ret EXCEPT ![s] = "unlock"]
      /\ pc' = [pc EXCEPT ![s] = "snapshot"]
      /\ UNCHANGED <<m_mutex, m_login, m_login_mutex, dest, todo, cur>>
  BY DEF Leave, leave, memberVars
<1>2. Failing' = Failing \cup {s}
  BY <1>1 DEF Failing, FrameTypeOK
<1>3. HeldByFail' /\ FindReturns'
  BY <1>1, <1>2 DEF HeldByFail, FindReturns, FrameTypeOK
<1>4. HeldByFind' /\ ListInUse' /\ OneNameEach'
  BY <1>1, NamesAssumption DEF HeldByFind, ListInUse, OneNameEach, FrameTypeOK
<1>5. ListedUnderOwnName'
  BY <1>1 DEF ListedUnderOwnName, RegistryTypeOK
<1>6. FailingNotListed'
  <2>1. Registered' \subseteq Registered
    BY <1>1 DEF Registered, Entries
  <2>2. s \notin Registered'
    BY <1>1 DEF ListedUnderOwnName, Registered, Entries
  <2> QED BY <1>2, <2>1, <2>2 DEF FailingNotListed
<1>7. LastCopyMisses'
  <2>1. \A x \in Session : Reach(x)' = Reach(x)
    BY <1>1 DEF Reach
  <2>2. Reach(s) = {}
    BY <1>1, NamesAssumption DEF Reach, ListInUse, SendTarget
  <2> SUFFICES ASSUME NEW S \in SUBSET Failing', S # {}
               PROVE  \E x \in S : Reach(x)' \cap S = {}
    BY DEF LastCopyMisses
  <2>3. CASE s \in S
    BY <2>1, <2>2, <2>3
  <2>4. CASE s \notin S
    <3>1. S \in SUBSET Failing
      BY <1>2, <2>4
    <3> QED BY <2>1, <3>1 DEF LastCopyMisses, Failing
  <2> QED BY <2>3, <2>4
<1> QED BY <1>3, <1>4, <1>5, <1>6, <1>7

LEMMA UnlockLocks ==
  ASSUME TypeInv, LockInv, NEW s \in Session, Unlock(s)
  PROVE  LockInv'
<1> USE DEF LockInv, TypeInv, ChatTypeInv, Proc
<1>1. /\ pc[s] = "unlock"
      /\ m_login_mutex' = [m_login_mutex EXCEPT ![s] = None]
      /\ pc' = [pc EXCEPT ![s] = "idle"]
      /\ ret' = [ret EXCEPT ![s] = "idle"]
      /\ dest' = [dest EXCEPT ![s] = NoLogin]
      /\ UNCHANGED <<m_mutex, m_sessions, m_login, todo, cur>>
  BY DEF Unlock, PopFrame, registryVars
<1>2. Failing' = Failing
  BY <1>1 DEF Failing, FrameTypeOK
<1>3. HeldByFail' /\ FindReturns'
  BY <1>1, <1>2 DEF HeldByFail, FindReturns, FrameTypeOK, MemberTypeOK
<1>4. HeldByFind' /\ ListInUse' /\ OneNameEach'
  BY <1>1 DEF HeldByFind, ListInUse, OneNameEach, FrameTypeOK
<1>5. ListedUnderOwnName' /\ FailingNotListed'
  BY <1>1, <1>2 DEF ListedUnderOwnName, FailingNotListed, Registered, Entries
<1>6. LastCopyMisses'
  BY <1>1, <1>2 DEF LastCopyMisses, Reach
<1> QED BY <1>3, <1>4, <1>5, <1>6

-------------------------------------------------------------------------------
(* send, run by any strand *)

LEMMA SnapshotLocks ==
  ASSUME TypeInv, LockInv, NEW p \in Proc, Snapshot(p)
  PROVE  LockInv'
<1> USE DEF LockInv, TypeInv, ChatTypeInv, Proc
<1>1. /\ pc[p] = "snapshot"
      /\ todo' = [todo EXCEPT ![p] = Entries]
      /\ pc' = [pc EXCEPT ![p] = LoopOn(p, Entries)]
      /\ UNCHANGED <<m_mutex, m_sessions, m_login, m_login_mutex, ret, dest, cur>>
  BY DEF Snapshot, registryVars, memberVars
<1>2. Failing' \subseteq Failing
  BY <1>1 DEF Failing, LoopOn, FrameTypeOK
<1>3. pc'[p] = "foreach" \/ (pc'[p] = ret[p] /\ todo'[p] = {})
  BY <1>1 DEF LoopOn, FrameTypeOK
<1>4. HeldByFail'
  BY <1>1, <1>3 DEF HeldByFail, Failing, FrameTypeOK
<1>5. FindReturns' /\ OneNameEach'
  BY <1>1, <1>3 DEF FindReturns, OneNameEach, FrameTypeOK, Ret
<1>6. HeldByFind' /\ ListInUse'
  BY <1>1, <1>3 DEF HeldByFind, ListInUse, FrameTypeOK
<1>7. ListedUnderOwnName' /\ FailingNotListed'
  BY <1>1, <1>2 DEF ListedUnderOwnName, FailingNotListed, Registered, Entries
<1>8. LastCopyMisses'
  <2>1. \A x \in Session \ {p} : Reach(x)' = Reach(x)
    BY <1>1 DEF Reach, FrameTypeOK
  <2>2. p \in Session => Reach(p)' \subseteq Registered
    BY <1>1, NamesAssumption DEF Reach, Registered, FrameTypeOK, SendTarget
  <2> SUFFICES ASSUME NEW S \in SUBSET Failing', S # {}
               PROVE  \E x \in S : Reach(x)' \cap S = {}
    BY DEF LastCopyMisses
  <2>3. CASE p \in S
    <3>1. Reach(p)' \cap S = {}
      BY <1>2, <2>2, <2>3 DEF FailingNotListed, Failing
    <3> QED BY <2>3, <3>1
  <2>4. CASE p \notin S
    <3>1. S \in SUBSET Failing
      BY <1>2
    <3> QED BY <2>1, <2>4, <3>1 DEF LastCopyMisses, Failing
  <2> QED BY <2>3, <2>4
<1> QED BY <1>4, <1>5, <1>6, <1>7, <1>8

LEMMA ForEachLocks ==
  ASSUME TypeInv, LockInv, NEW p \in Proc, NEW alive, ForEach(p, alive)
  PROVE  LockInv'
<1> USE DEF LockInv, TypeInv, ChatTypeInv, Proc
<1>1. pc[p] = "foreach"
      /\ UNCHANGED <<m_mutex, m_sessions, m_login, m_login_mutex, ret, dest>>
  BY DEF ForEach, registryVars, memberVars
<1>2. PICK e \in todo[p] :
        /\ todo' = [todo EXCEPT ![p] = @ \ {e}]
        /\ \/ /\ cur' = [cur EXCEPT ![p] = e[2]]
              /\ pc' = [pc EXCEPT ![p] = "session_send"]
           \/ /\ pc' = [pc EXCEPT ![p] = LoopOn(p, todo[p] \ {e})]
              /\ UNCHANGED cur
  BY DEF ForEach
<1>3. pc'[p] \in {"foreach", "session_send"} \/ (pc'[p] = ret[p] /\ todo'[p] = {})
  BY <1>2 DEF LoopOn, FrameTypeOK
<1>4. \A q \in Proc \ {p} : pc'[q] = pc[q] /\ todo'[q] = todo[q] /\ cur'[q] = cur[q]
  BY <1>2 DEF FrameTypeOK
<1>5. Failing' \subseteq Failing
  BY <1>1, <1>4 DEF Failing
<1>6. HeldByFail'
  BY <1>1, <1>3, <1>4 DEF HeldByFail, Failing
<1>7. FindReturns' /\ OneNameEach'
  BY <1>1, <1>3, <1>4 DEF FindReturns, OneNameEach, FrameTypeOK, Ret
<1>8. HeldByFind' /\ ListInUse'
  BY <1>1, <1>3, <1>4 DEF HeldByFind, ListInUse
<1>9. ListedUnderOwnName' /\ FailingNotListed'
  BY <1>1, <1>5 DEF ListedUnderOwnName, FailingNotListed, Registered, Entries
<1>10. \A x \in Session : Reach(x)' \subseteq Reach(x)
  BY <1>2 DEF Reach, FrameTypeOK
<1>11. LastCopyMisses'
  BY <1>5, <1>10, FewerReach DEF Failing
<1> QED BY <1>6, <1>7, <1>8, <1>9, <1>11

LEMMA FindLocks ==
  ASSUME TypeInv, LockInv, NEW p \in Proc, Find(p)
  PROVE  LockInv'
<1> USE DEF LockInv, TypeInv, ChatTypeInv, Proc
<1>1. /\ pc[p] = "find" /\ m_mutex = None
      /\ \/ m_mutex' = p /\ pc' = [pc EXCEPT ![p] = "session_send"]
         \/ m_mutex' = None /\ pc' = [pc EXCEPT ![p] = ret[p]]
      /\ UNCHANGED <<m_sessions, m_login, m_login_mutex, ret, dest, todo>>
      /\ \A q \in Proc \ {p} : cur'[q] = cur[q]
  BY DEF Find, memberVars, FrameTypeOK
<1>2. p \notin Failing /\ p \notin Failing' /\ Failing' = Failing
  BY <1>1 DEF Failing, FindReturns, FrameTypeOK
<1>3. HeldByFail'
  BY <1>1, <1>2 DEF HeldByFail, FrameTypeOK
<1>4. FindReturns' /\ OneNameEach'
  BY <1>1 DEF FindReturns, OneNameEach, FrameTypeOK, Ret
<1>5. HeldByFind' /\ ListInUse'
  BY <1>1, NamesAssumption DEF HeldByFind, ListInUse, FrameTypeOK
<1>6. ListedUnderOwnName' /\ FailingNotListed'
  BY <1>1, <1>2 DEF ListedUnderOwnName, FailingNotListed, Registered, Entries
<1>7. LastCopyMisses'
  BY <1>1, <1>2, FewerReach DEF Reach, Failing
<1> QED BY <1>3, <1>4, <1>5, <1>6, <1>7

LEMMA SessionSendLocks ==
  ASSUME TypeInv, LockInv, NEW p \in Proc, SessionSend(p)
  PROVE  LockInv'
<1> USE DEF LockInv, TypeInv, ChatTypeInv, Proc
<1>1. /\ pc[p] = "session_send"
      /\ cur' = [cur EXCEPT ![p] = None]
      /\ m_mutex' = IF m_mutex = p THEN None ELSE m_mutex
      /\ pc' = [pc EXCEPT ![p] = IF m_mutex = p THEN ret[p] ELSE LoopOn(p, todo[p])]
      /\ UNCHANGED <<m_sessions, m_login, m_login_mutex, ret, dest, todo>>
  BY DEF SessionSend
<1>2. pc'[p] = "foreach" \/ (pc'[p] = ret[p] /\ todo'[p] = {})
  BY <1>1 DEF LoopOn, HeldByFind, FrameTypeOK
<1>3. Failing' \subseteq Failing
  BY <1>1 DEF Failing, FrameTypeOK
<1>4. HeldByFail'
  BY <1>1, <1>2 DEF HeldByFail, Failing, FrameTypeOK
<1>5. FindReturns' /\ OneNameEach'
  BY <1>1, <1>2 DEF FindReturns, OneNameEach, FrameTypeOK, Ret
<1>6. HeldByFind'
  BY <1>1, NamesAssumption DEF HeldByFind, FrameTypeOK
<1>7. ListInUse'
  BY <1>1, <1>2 DEF ListInUse, FrameTypeOK
<1>8. ListedUnderOwnName' /\ FailingNotListed'
  BY <1>1, <1>3 DEF ListedUnderOwnName, FailingNotListed, Registered, Entries
<1>9. LastCopyMisses'
  <2>1. \A x \in Session : Reach(x)' \subseteq Reach(x)
    BY <1>1, NamesAssumption DEF Reach, FrameTypeOK
  <2> QED BY <1>3, <2>1, FewerReach DEF Failing
<1> QED BY <1>4, <1>5, <1>6, <1>7, <1>8, <1>9

LEMMA SendLocks ==
  ASSUME TypeInv, LockInv, NEW p \in Proc, NEW alive, SendStep(p, alive)
  PROVE  LockInv'
BY SnapshotLocks, ForEachLocks, FindLocks, SessionSendLocks DEF SendStep

LEMMA BroadcastLocks ==
  ASSUME TypeInv, LockInv, NEW c \in Caller, BeginBroadcast(c)
  PROVE  LockInv'
<1> USE DEF LockInv, Proc
<1>1. /\ UNCHANGED lockVars /\ UNCHANGED <<ret, dest, todo, cur>>
      /\ pc' = [pc EXCEPT ![c] = "snapshot"] /\ pc[c] = "idle" /\ c \notin Session
  BY NamesAssumption DEF BeginBroadcast, lockVars, registryVars, memberVars
<1>2. \A s \in Session : pc'[s] = pc[s]
  BY <1>1 DEF TypeInv, ChatTypeInv, FrameTypeOK
<1>3. Failing' = Failing
  BY <1>1, <1>2 DEF Failing
<1>4. HeldByFail' /\ FindReturns' /\ OneNameEach'
  BY <1>1, <1>2, <1>3 DEF lockVars, HeldByFail, FindReturns, OneNameEach
<1>5. HeldByFind' /\ ListInUse'
  BY <1>1 DEF lockVars, HeldByFind, ListInUse, TypeInv, ChatTypeInv, FrameTypeOK
<1>6. ListedUnderOwnName' /\ FailingNotListed' /\ LastCopyMisses'
  BY <1>1, <1>3 DEF lockVars, ListedUnderOwnName, FailingNotListed, LastCopyMisses,
                    Registered, Entries, Reach
<1> QED BY <1>4, <1>5, <1>6

-------------------------------------------------------------------------------
(* The theorem *)

LEMMA LockNext == SingleName /\ TypeInv /\ LockInv /\ [Next]_allVars => LockInv'
<1> SUFFICES ASSUME SingleName, TypeInv, LockInv, [Next]_allVars PROVE LockInv'
  OBVIOUS
<1>t. ChatTypeInv'
  BY TypeNext DEF TypeInv
<1>1. ASSUME NEW s \in Session,
             \/ Connect(s) \/ OnAccept(s) \/ OnSend(s) \/ OnWrite(s) \/ OnReadOther(s)
             \/ Break(s)
      PROVE  LockInv'
  BY <1>1, LockUnchanged
  DEF Connect, OnAccept, OnSend, OnWrite, OnReadOther, Break, lockVars, sharedVars,
      registryVars, memberVars, frameVars
<1>2. ASSUME NEW s \in Session, SendSession(s) PROVE LockInv'
  BY <1>2, SendLocks DEF SendSession, Proc
<1>3. ASSUME NEW s \in Session, HandlerStep(s) \/ ClientStep(s) PROVE LockInv'
  BY <1>t, <1>1, <1>2, <1>3, LocalSteps, LoginLocks, JoinLocks, FailLocks, LeaveLocks,
     UnlockLocks
  DEF HandlerStep, ClientStep, ClientReads, OnRead
<1>4. ASSUME NEW c \in Caller, Broadcast(c) PROVE LockInv'
  BY <1>4, BroadcastBegins, BroadcastLocks
<1>5. ASSUME NEW c \in Caller, SendCaller(c) PROVE LockInv'
  BY <1>5, SendLocks DEF SendCaller, Proc
<1>6. CASE Stop \/ UNCHANGED allVars
  BY <1>6, LockUnchanged DEF Stop, allVars, vars, lockVars, sharedVars, registryVars,
                             memberVars, frameVars
<1>7. CASE Crash
  <2>1. Failing' = {} /\ Registered' = {}
    BY <1>7 DEF Crash, SharedReset, Failing, Registered, Entries, Proc
  <2>2. HeldByFail' /\ FindReturns' /\ HeldByFind' /\ ListInUse'
    BY <1>7, NamesAssumption
    DEF Crash, SharedReset, HeldByFail, FindReturns, HeldByFind, ListInUse, Proc
  <2>3. OneNameEach' /\ ListedUnderOwnName'
    BY <1>7 DEF Crash, SharedReset, OneNameEach, ListedUnderOwnName, Proc
  <2>4. FailingNotListed' /\ LastCopyMisses'
    BY <2>1 DEF FailingNotListed, LastCopyMisses
  <2> QED BY <2>2, <2>3, <2>4 DEF LockInv
<1> QED
  BY <1>1, <1>3, <1>4, <1>5, <1>6, <1>7 DEF Next, SessionStep

\* The inductive invariant holds when every client keeps to one name.
THEOREM LockInvariant == ASSUME SingleName PROVE Spec => [](TypeInv /\ LockInv)
<1>1. Init => TypeInv /\ LockInv
  BY TypeInit, LockInit
<1>2. TypeInv /\ LockInv /\ [Next]_allVars => (TypeInv /\ LockInv)'
  BY TypeNext, LockNext
<1> QED BY <1>1, <1>2, PTL DEF Spec

\* When every client keeps to one name, even a name it shares with others, no
\* strands ever wait for one another's m_login_mutex in a circle, however many
\* connections fail at once (websocket_session.cpp:28-33, 120-135).
THEOREM SessionsNeverCycle == ASSUME SingleName PROVE Spec => []NoSessionCycle
<1>1. TypeInv /\ LockInv => NoSessionCycle
  BY LockInvSafe
<1> QED BY <1>1, LockInvariant, PTL

-------------------------------------------------------------------------------
(* Both kinds of mutexes together *)

\* Without m_mutex a circle is one of sessions alone, which LockInvSafe excludes;
\* its holder waits for the session it sends to.
LEMMA LockInvCircles ==
  ASSUME TypeInv, LockInv
  PROVE  CirclesAreInversions
<1> SUFFICES ASSUME NEW S \in SUBSET Proc, S # {}, \A p \in S : \E q \in S : WaitsFor(p, q)
             PROVE  \E p \in S : m_mutex = p /\ cur[p] \in S /\ m_login_mutex[cur[p]] = cur[p]
  BY DEF CirclesAreInversions
<1> USE DEF LockInv
<1>n. None \notin Proc
  BY NamesAssumption DEF Proc
<1>1. ASSUME NEW p \in S, p \in Session, pc[p] = "drain" PROVE m_mutex \in S
  <2>1. m_login_mutex[p] \in S
    BY <1>1 DEF WaitsFor
  <2> QED BY <1>n, <1>1, <2>1 DEF HeldByFail, Failing
<1>2. m_mutex \in S
  <2> SUFFICES ASSUME m_mutex \notin S PROVE FALSE
    OBVIOUS
  <2>1. ASSUME NEW p \in S PROVE WaitsForSession(p) /\ m_login_mutex[cur[p]] \in S
    BY <1>n, <1>1 DEF WaitsFor, WaitsForSession
  <2> QED BY <2>1, LockInvSafe DEF NoSessionCycle
<1>3. pc[m_mutex] = "session_send" /\ cur[m_mutex] \in Session
  BY <1>2 DEF HeldByFind, TypeInv, ChatTypeInv, SendTarget, FrameTypeOK
<1>4. m_login_mutex[cur[m_mutex]] \in S
  BY <1>2, <1>3 DEF WaitsFor
<1> QED BY <1>n, <1>2, <1>3, <1>4 DEF HeldByFail

\* When every client keeps to one name, the lock inversion of send() and fail() is
\* the only circle of waits there is: any circle contains a directed send that
\* holds m_mutex and the failing session it is directed at
\* (shared_state.cpp:69-73, websocket_session.cpp:31-32, 125).
THEOREM OnlyInversionsCycle == ASSUME SingleName PROVE Spec => []CirclesAreInversions
<1>1. TypeInv /\ LockInv => CirclesAreInversions
  BY LockInvCircles
<1> QED BY <1>1, LockInvariant, PTL

===============================================================================
