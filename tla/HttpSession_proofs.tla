-------------------------- MODULE HttpSession_proofs --------------------------
(***************************************************************************)
(* Theorems about HttpSession, for every set of connections, requests and  *)
(* texts: the types, and that a registration is kept.                      *)
(***************************************************************************)
EXTENDS HttpSession, TLAPS

\* The users that were inserted are those of the table, with their passwords.
GrantedIsStored ==
  \A c \in Credentials :
    c \in granted <=> /\ c.login \in DOMAIN users
                      /\ users[c.login].display_name = c.display_name
                      /\ users[c.login].password = c.password

\* A session that handles or answers has a request.
HasRequest ==
  \A h \in Http : phase[h] \in Handling \cup {"writing"} => request[h] \in Requests

HttpInv == TypeOK /\ HasRequest /\ GrantedIsStored

-------------------------------------------------------------------------------
(* The statements *)

IsTable(u) == DOMAIN u \subseteq Texts /\ u \in [DOMAIN u -> Rows]

\* A row is a record of its three columns.
LEMMA RowType ==
  ASSUME NEW n \in Texts, NEW p \in Texts
  PROVE  /\ Row(n, p) \in Rows
         /\ Row(n, p).display_name = n
         /\ Row(n, p).password = p
  BY LengthAssumption DEF Row, Rows

\* INSERT adds one row to a table, or nothing.
LEMMA InsertUserType ==
  ASSUME NEW u, IsTable(u), NEW n \in Texts, NEW l \in Texts, NEW p \in Texts
  PROVE  IsTable(InsertUser(u, n, l, p))
<1>1. CASE Insertable(u, n, l, p)
  <2>1. Row(n, p) \in Rows
    BY RowType
  <2> QED
    BY <1>1, <2>1 DEF IsTable, InsertUser, Put
<1>2. CASE ~Insertable(u, n, l, p)
  BY <1>2 DEF InsertUser
<1> QED
  BY <1>1, <1>2

\* UPDATE changes the image of a row and nothing else.
LEMMA SetUserImageKeeps ==
  ASSUME NEW u, IsTable(u), NEW l \in Texts, NEW i \in Texts
  PROVE  LET v == SetUserImageByLogin(u, l, i) IN
           /\ IsTable(v)
           /\ DOMAIN v = DOMAIN u
           /\ \A k \in DOMAIN u : /\ v[k].display_name = u[k].display_name
                                  /\ v[k].password = u[k].password
<1> DEFINE v == SetUserImageByLogin(u, l, i)
<1>1. CASE l \in DOMAIN u
  <2>1. v = [u EXCEPT ![l].image = i]
    BY <1>1 DEF SetUserImageByLogin
  <2>2. \A k \in DOMAIN u : u[k] \in Rows
    BY DEF IsTable
  <2>3. \A k \in DOMAIN u : v[k] = IF k = l THEN [u[k] EXCEPT !.image = i] ELSE u[k]
    BY <2>1 DEF IsTable
  <2>4. DOMAIN v = DOMAIN u /\ v \in [DOMAIN u -> Rows]
    BY <2>1, <2>2 DEF IsTable, Rows
  <2> QED
    BY <2>2, <2>3, <2>4 DEF IsTable, Rows
<1>2. CASE l \notin DOMAIN u
  BY <1>2 DEF SetUserImageByLogin
<1> QED
  BY <1>1, <1>2

\* Looking a user up gives its row, or nothing for a missing or nameless one.
LEMMA LookupRow ==
  ASSUME NEW u, IsTable(u), NEW l \in Texts
  PROVE  GetUserByLogin(u, l) # NoUser
           <=> l \in DOMAIN u /\ u[l].display_name # NoText /\ GetUserByLogin(u, l) = u[l]
<1>1. CASE l \in DOMAIN u /\ u[l].display_name # NoText
  <2>1. GetUserByLogin(u, l) = u[l]
    BY <1>1 DEF GetUserByLogin
  <2>2. u[l] # NoUser
    BY <1>1 DEF NoUser
  <2> QED
    BY <1>1, <2>1, <2>2
<1>2. CASE ~(l \in DOMAIN u /\ u[l].display_name # NoText)
  BY <1>2 DEF GetUserByLogin
<1> QED
  BY <1>1, <1>2

-------------------------------------------------------------------------------
(* The steps *)

\* What a request carries are texts.
LEMMA RequestType ==
  ASSUME NEW r \in Requests
  PROVE  /\ r.method \in Methods
         /\ r.display_name \in Texts /\ r.login \in Texts
         /\ r.password \in Texts /\ r.image \in Texts
BY HttpAssumption DEF Request

LEMMA InitInv == Init => HttpInv
BY HttpAssumption, LengthAssumption
   DEF Init, HttpInv, TypeOK, HasRequest, GrantedIsStored, Handling, Answers, Credentials, Rows

\* A step that lets the table and the history alone keeps their relation.
LEMMA SameStore ==
  ASSUME GrantedIsStored, UNCHANGED <<users, granted>>
  PROVE  GrantedIsStored'
BY DEF GrantedIsStored

LEMMA ResetKeeps ==
  ASSUME HttpInv, NEW where \in {"new", "closed"}, Reset(where),
         UNCHANGED <<users, served, granted>>,
         listener' \in {"accepting", "failed", "ended"}, restarts' \in 0 .. MaxRestarts
  PROVE  HttpInv'
<1>1. TypeOK' /\ HasRequest'
  BY DEF HttpInv, TypeOK, HasRequest, Reset, Handling, Answers
<1> QED
  BY <1>1, SameStore DEF HttpInv

LEMMA TerminateKeeps == HttpInv /\ Terminate => HttpInv'
BY ResetKeeps DEF Terminate, HttpInv, TypeOK

LEMMA LeaveKeeps ==
  ASSUME HttpInv, NEW h \in Http, NEW where \in {"reading", "closed"}, Leave(h, where)
  PROVE  HttpInv'
<1>1. TypeOK' /\ HasRequest'
  BY DEF HttpInv, TypeOK, HasRequest, Leave, Handling, Answers
<1> QED
  BY <1>1, SameStore DEF HttpInv, Leave

\* Insert adds the same user to the table and to the history.
LEMMA InsertKeeps ==
  ASSUME HttpInv, NEW n \in Texts, NEW l \in Texts, NEW p \in Texts, Insert(n, l, p)
  PROVE  IsTable(users)' /\ granted' \subseteq Credentials /\ GrantedIsStored'
<1> DEFINE new == [display_name |-> n, login |-> l, password |-> p]
<1>1. IsTable(users) /\ granted \subseteq Credentials /\ GrantedIsStored
  BY DEF HttpInv, TypeOK, IsTable
<1>2. IsTable(users')
  BY <1>1, InsertUserType DEF Insert
<1>3. CASE Insertable(users, n, l, p)
  <2>1. users' = Put(users, l, Row(n, p)) /\ granted' = granted \cup {new}
    BY <1>3 DEF Insert, InsertUser
  <2>2. new \in Credentials
    BY DEF Credentials
  <2>3. l \notin DOMAIN users
    BY <1>3 DEF Insertable
  <2>4. DOMAIN users' = DOMAIN users \cup {l}
    BY <2>1 DEF Put
  <2>5. users'[l].display_name = n /\ users'[l].password = p
    BY <2>1, RowType DEF Put
  <2>6. \A k \in DOMAIN users : users'[k] = users[k]
    BY <2>1, <2>3 DEF Put
  <2>7. ASSUME NEW c \in Credentials
        PROVE  c \in granted' <=> /\ c.login \in DOMAIN users'
                                  /\ users'[c.login].display_name = c.display_name
                                  /\ users'[c.login].password = c.password
    <3>1. CASE c.login = l
      <4>1. c \notin granted
        BY <3>1, <2>3, <1>1 DEF GrantedIsStored
      <4>2. c = new <=> c.display_name = n /\ c.password = p
        BY <3>1 DEF Credentials
      <4> QED
        BY <3>1, <4>1, <4>2, <2>1, <2>4, <2>5
    <3>2. CASE c.login # l
      BY <3>2, <2>1, <2>4, <2>6, <1>1 DEF GrantedIsStored
    <3> QED
      BY <3>1, <3>2
  <2> QED
    BY <1>2, <1>1, <2>1, <2>2, <2>7 DEF GrantedIsStored, IsTable
<1>4. CASE ~Insertable(users, n, l, p)
  BY <1>4, <1>1 DEF Insert, InsertUser, IsTable, GrantedIsStored
<1> QED
  BY <1>3, <1>4

\* A handler that goes on, or starts its response, keeps the rest.
LEMMA AnswerKeeps ==
  ASSUME HttpInv, NEW h \in Http, phase[h] \in Handling,
         NEW result \in Answers, Answer(h, result),
         IsTable(users)', granted' \subseteq Credentials, GrantedIsStored'
  PROVE  HttpInv'
BY DEF HttpInv, TypeOK, HasRequest, IsTable, Answer, Handling

LEMMA GoToKeeps ==
  ASSUME HttpInv, NEW h \in Http, phase[h] \in Handling,
         NEW stage \in Handling, GoTo(h, stage),
         IsTable(users)', granted' \subseteq Credentials, GrantedIsStored'
  PROVE  HttpInv'
BY DEF HttpInv, TypeOK, HasRequest, IsTable, GoTo, Handling

LEMMA SameTables ==
  ASSUME HttpInv, UNCHANGED <<users, granted>>
  PROVE  IsTable(users)' /\ granted' \subseteq Credentials /\ GrantedIsStored'
BY SameStore DEF HttpInv, TypeOK, IsTable

LEMMA HandleRequestKeeps ==
  ASSUME HttpInv, NEW h \in Http, HandleRequest(h)
  PROVE  HttpInv'
<1> DEFINE r == request[h]
<1>1. phase[h] \in Handling
  BY DEF HandleRequest, NoResponse, Throw, RegisterUser, LoginUser, LoginLookup, LoginFbUser,
         CheckFbUser, AssertFalse, Query, UploadUserImage, IsMethod, Handling
<1>2. /\ r.display_name \in Texts /\ r.login \in Texts
      /\ r.password \in Texts /\ r.image \in Texts
  BY <1>1, RequestType DEF HttpInv, HasRequest
<1>3. CASE NoResponse(h)
  BY <1>3, LeaveKeeps DEF NoResponse
<1>4. CASE Throw(h)
  BY <1>4, TerminateKeeps DEF Throw
<1>5. CASE RegisterUser(h)
  <2>1. Insert(r.display_name, r.login, r.password)
    BY <1>5 DEF RegisterUser
  <2>2. \E result \in Answers : Answer(h, result)
    BY <1>5 DEF RegisterUser, Answers
  <2> QED
    BY <1>1, <1>2, <2>1, <2>2, InsertKeeps, AnswerKeeps
<1>6. CASE LoginUser(h)
  <2>1. \/ Answer(h, "already logged in") /\ "already logged in" \in Answers
        \/ GoTo(h, "lookup") /\ "lookup" \in Handling
    BY <1>6 DEF LoginUser, Answers, Handling
  <2> QED
    BY <1>1, <1>6, <2>1, SameTables, AnswerKeeps, GoToKeeps DEF LoginUser
<1>7. CASE LoginLookup(h)
  <2>1. \E result \in Answers : Answer(h, result)
    BY <1>7 DEF LoginLookup, Answers
  <2> QED
    BY <1>1, <1>7, <2>1, SameTables, AnswerKeeps DEF LoginLookup
<1>8. CASE LoginFbUser(h)
  <2>1. Insert(r.display_name, r.login, r.login) /\ GoTo(h, "check") /\ "check" \in Handling
    BY <1>8 DEF LoginFbUser, Handling
  <2> QED
    BY <1>1, <1>2, <2>1, InsertKeeps, GoToKeeps
<1>9. CASE CheckFbUser(h)
  <2>1. \/ Terminate
        \/ /\ UNCHANGED <<users, granted>>
           /\ \/ Answer(h, "logged in") /\ "logged in" \in Answers
              \/ GoTo(h, "assert") /\ "assert" \in Handling
    BY <1>9 DEF CheckFbUser, Answers, Handling
  <2> QED
    BY <1>1, <2>1, TerminateKeeps, SameTables, AnswerKeeps, GoToKeeps
<1>10. CASE AssertFalse(h)
  BY <1>10, TerminateKeeps, LeaveKeeps DEF AssertFalse
<1>11. CASE Query(h)
  <2>1. IsTable(users)
    BY DEF HttpInv, TypeOK, IsTable
  <2>2. GetImageByLogin(users, r.login) \in Texts
    BY <2>1, <1>2, LengthAssumption DEF IsTable, GetImageByLogin, Rows
  <2>3. GetUserByLogin(users, r.login).display_name \in Texts
    BY <2>1, <1>2, LengthAssumption DEF IsTable, GetUserByLogin, NoUser, Rows
  <2>4. Results(r) \subseteq Answers
    BY <1>11, <2>2, <2>3 DEF Query, Queries, Results, Answers
  <2> QED
    BY <1>1, <1>11, <2>4, SameTables, AnswerKeeps DEF Query
<1>12. CASE UploadUserImage(h)
  <2>1. /\ users' = SetUserImageByLogin(users, r.login, r.image)
        /\ Answer(h, "image uploaded") /\ "image uploaded" \in Answers
        /\ UNCHANGED granted
    BY <1>12 DEF UploadUserImage, Answers
  <2>2. IsTable(users) /\ granted \subseteq Credentials /\ GrantedIsStored
    BY DEF HttpInv, TypeOK, IsTable
  <2>3. /\ IsTable(users') /\ DOMAIN users' = DOMAIN users
        /\ \A k \in DOMAIN users : /\ users'[k].display_name = users[k].display_name
                                   /\ users'[k].password = users[k].password
    BY <1>2, <2>1, <2>2, SetUserImageKeeps
  <2>4. GrantedIsStored'
    BY <2>1, <2>2, <2>3 DEF GrantedIsStored
  <2> QED
    BY <1>1, <2>1, <2>2, <2>3, <2>4, AnswerKeeps DEF IsTable
<1> QED
  BY <1>3, <1>4, <1>5, <1>6, <1>7, <1>8, <1>9, <1>10, <1>11, <1>12 DEF HandleRequest

LEMMA NextInv == HttpInv /\ [Next]_httpVars => HttpInv'
<1> SUFFICES ASSUME HttpInv, [Next]_httpVars PROVE HttpInv'
  OBVIOUS
<1>1. ASSUME NEW h \in Http, Accept(h) PROVE HttpInv'
  <2>1. TypeOK' /\ HasRequest'
    BY <1>1 DEF HttpInv, TypeOK, HasRequest, Accept, Handling
  <2> QED
    BY <1>1, <2>1, SameStore DEF HttpInv, Accept
<1>2. ASSUME NEW h \in Http, OnRead(h) PROVE HttpInv'
  <2>1. TypeOK' /\ HasRequest'
    BY <1>2, HttpAssumption DEF HttpInv, TypeOK, HasRequest, OnRead, Handling
  <2> QED
    BY <1>2, <2>1, SameStore DEF HttpInv, OnRead
<1>3. ASSUME NEW h \in Http, OnWrite(h) PROVE HttpInv'
  BY <1>3, LeaveKeeps DEF OnWrite
<1>4. ASSUME NEW h \in Http, StreamEnds(h) PROVE HttpInv'
  BY <1>4, LeaveKeeps DEF StreamEnds
<1>5. ASSUME NEW h \in Http, HandleRequest(h) PROVE HttpInv'
  BY <1>5, HandleRequestKeeps
<1>6. CASE AcceptError
  <2>1. TypeOK' /\ HasRequest'
    BY <1>6 DEF HttpInv, TypeOK, HasRequest, AcceptError, sessionVars
  <2> QED
    BY <1>6, <2>1, SameStore DEF HttpInv, AcceptError
<1>7. CASE Restart
  <2>1. restarts' \in 0 .. MaxRestarts
    BY <1>7, HttpAssumption DEF Restart, HttpInv, TypeOK
  <2> QED
    BY <1>7, <2>1, ResetKeeps DEF Restart
<1>8. CASE UNCHANGED httpVars
  BY <1>8 DEF HttpInv, TypeOK, HasRequest, GrantedIsStored, httpVars, sessionVars
<1> QED
  BY <1>1, <1>2, <1>3, <1>4, <1>5, <1>6, <1>7, <1>8 DEF Next

\* The variables of HttpSession have their types, and a session that handles a
\* request has one, for every set of connections, requests and texts.
THEOREM HttpTypes == Spec => []TypeOK
<1>1. Spec => []HttpInv
  BY InitInv, NextInv, PTL DEF Spec
<1>2. HttpInv => TypeOK
  BY DEF HttpInv
<1> QED
  BY <1>1, <1>2, PTL

-------------------------------------------------------------------------------
(* Logging in *)

\* The response to login_user is "logged in" exactly for what was granted.
LEMMA LookupIsExact ==
  ASSUME HttpInv, NEW h \in Http, LoginLookup(h)
  PROVE  answer'[h] = "logged in" <=>
           \E c \in granted : /\ c.login = request[h].login
                              /\ c.password = request[h].password
                              /\ c.display_name # NoText
<1> DEFINE r == request[h]
           user == GetUserByLogin(users, r.login)
<1>1. r.login \in Texts /\ r.password \in Texts
  BY RequestType DEF HttpInv, HasRequest, LoginLookup, Handling
<1>2. IsTable(users) /\ granted \subseteq Credentials /\ GrantedIsStored
  BY DEF HttpInv, TypeOK, IsTable
<1>3. answer'[h] = "logged in" <=> user # NoUser /\ user.password = r.password
  BY DEF LoginLookup, Answer, HttpInv, TypeOK
<1>4. user # NoUser <=>
        r.login \in DOMAIN users /\ users[r.login].display_name # NoText /\ user = users[r.login]
  BY <1>1, <1>2, LookupRow
<1>5. ASSUME user # NoUser, user.password = r.password
      PROVE  \E c \in granted : /\ c.login = r.login /\ c.password = r.password
                                /\ c.display_name # NoText
  <2> DEFINE c == [display_name |-> users[r.login].display_name, login |-> r.login,
                   password |-> users[r.login].password]
  <2>1. users[r.login] \in Rows
    BY <1>2, <1>4, <1>5 DEF IsTable
  <2>2. c \in Credentials
    BY <1>1, <2>1 DEF Credentials, Rows
  <2>3. c \in granted
    BY <1>2, <1>4, <1>5, <2>2 DEF GrantedIsStored
  <2> QED
    BY <1>4, <1>5, <2>3
<1>6. ASSUME NEW c \in granted, c.login = r.login, c.password = r.password,
             c.display_name # NoText
      PROVE  user # NoUser /\ user.password = r.password
  <2>1. /\ r.login \in DOMAIN users
        /\ users[r.login].display_name # NoText
        /\ users[r.login].password = r.password
    BY <1>2, <1>6 DEF GrantedIsStored
  <2>2. user = users[r.login] /\ users[r.login] # NoUser
    BY <2>1 DEF GetUserByLogin, NoUser
  <2> QED
    BY <2>1, <2>2
<1> QED
  BY <1>3, <1>5, <1>6

\* Only the lookup takes a session from "lookup" to "writing".
LEMMA OnlyLookupAnswers ==
  ASSUME HttpInv, Next, NEW h \in Http, phase[h] = "lookup", phase'[h] = "writing"
  PROVE  LoginLookup(h)
<1>1. ASSUME NEW g \in Http, HandleRequest(g), ~LoginLookup(h) PROVE FALSE
  <2>1. \/ NoResponse(g) \/ Throw(g) \/ RegisterUser(g) \/ LoginUser(g)
        \/ LoginFbUser(g) \/ CheckFbUser(g) \/ AssertFalse(g) \/ Query(g) \/ UploadUserImage(g)
        \/ LoginLookup(g) /\ g # h
    BY <1>1 DEF HandleRequest
  <2>2. CASE Throw(g) \/ Terminate
    BY <2>2 DEF Throw, Terminate, Reset
  <2>3. phase[g] # "lookup" \/ g # h
    BY <2>1, <2>2 DEF NoResponse, Throw, RegisterUser, LoginUser, LoginFbUser, CheckFbUser,
                      AssertFalse, Query, UploadUserImage, IsMethod
  <2>4. Terminate \/ Leave(g, "closed") \/ (\E x : Answer(g, x)) \/ (\E x : GoTo(g, x))
    <3>1. CASE NoResponse(g) \/ Throw(g) \/ AssertFalse(g)
      BY <3>1 DEF NoResponse, Throw, AssertFalse
    <3>2. CASE LoginUser(g) \/ LoginFbUser(g) \/ CheckFbUser(g)
      BY <3>2 DEF LoginUser, LoginFbUser, CheckFbUser
    <3>3. CASE RegisterUser(g) \/ LoginLookup(g) \/ Query(g) \/ UploadUserImage(g)
      BY <3>3 DEF RegisterUser, LoginLookup, Query, UploadUserImage
    <3> QED
      BY <2>1, <3>1, <3>2, <3>3
  <2>5. Terminate \/ \A k \in Http \ {g} : phase'[k] = phase[k]
    BY <2>4 DEF Leave, Answer, GoTo, HttpInv, TypeOK
  <2> QED
    BY <2>2, <2>3, <2>5
<1>2. ASSUME NEW g \in Http, Accept(g) \/ OnRead(g) \/ OnWrite(g) \/ StreamEnds(g) PROVE FALSE
  BY <1>2 DEF Accept, OnRead, OnWrite, StreamEnds, Leave, HttpInv, TypeOK
<1>3. CASE AcceptError
  BY <1>3 DEF AcceptError, sessionVars
<1>4. CASE Restart
  BY <1>4 DEF Restart, Reset
<1> QED
  BY <1>1, <1>2, <1>3, <1>4 DEF Next

\* Registrations are kept: at every moment login_user succeeds with exactly the
\* credentials that were inserted with a display name, through other clients'
\* registrations, Facebook logins, image uploads, lost responses and restarts.
THEOREM RegistrationsAreKept == Spec => RegisteredCanLogIn
<1>1. Spec => []HttpInv
  BY InitInv, NextInv, PTL DEF Spec
<1> DEFINE Exact(h) ==
      phase[h] = "lookup" /\ phase'[h] = "writing" =>
        (answer'[h] = "logged in" <=>
           \E c \in granted : /\ c.login = request[h].login
                              /\ c.password = request[h].password
                              /\ c.display_name # NoText)
<1>2. HttpInv /\ [Next]_httpVars => [\A h \in Http : Exact(h)]_httpVars
  <2> SUFFICES ASSUME HttpInv, Next, NEW h \in Http,
                      phase[h] = "lookup", phase'[h] = "writing"
               PROVE  Exact(h)
    OBVIOUS
  <2> QED
    BY OnlyLookupAnswers, LookupIsExact
<1> QED
  BY <1>1, <1>2, PTL DEF Spec, RegisteredCanLogIn

===============================================================================
