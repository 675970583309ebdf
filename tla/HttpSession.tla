------------------------------ MODULE HttpSession ------------------------------
(***************************************************************************)
(* listener.cpp, http_session.cpp and handle_request of http_session.hpp:  *)
(* the accept chain, and connections that read a request, handle it on     *)
(* their strand, write the response and read again.                        *)
(*                                                                         *)
(* A session whose handler leaves no operation pending is destroyed and    *)
(* its socket closed.  An exception that escapes a handler ends the        *)
(* process.  Whether a login is in the registry is SharedState's matter    *)
(* and may be either here.  The four methods that call PlacesManager are   *)
(* not in this module: their handlers block in future.get(), and are the   *)
(* actions of PlacesManager and of Server.                                 *)
(***************************************************************************)
EXTENDS UsersTable

CONSTANTS
  Http,         \* connections
  Requests,     \* the requests a client may send
  MaxRequests,  \* bound: requests per connection
  MaxRestarts,  \* bound: restarts of the process
  MayFail       \* whether an accept may end with an error

\* Requests that match no branch of handle_request: another verb (OPTIONS), a
\* POST that is not JSON, an empty body, a method nobody knows.
Unmatched == {"options", "no_body", "unknown"}

\* Methods that read one thing and change nothing.
Queries == {"", "get_user_image", "get_display_name", "get_user_status"}

Methods ==
  Unmatched \cup Queries
  \cup {"malformed", "register_user", "login_user", "login_fb_user", "upload_user_image"}

\* A property that a method does not read is NoText.
Request == [method : Methods, display_name : Texts, login : Texts,
            password : Texts, image : Texts]

ASSUME HttpAssumption ==
  /\ Requests \subseteq Request
  /\ MaxRequests \in Nat
  /\ MaxRestarts \in Nat
  /\ MayFail \in BOOLEAN

VARIABLES
  listener,   \* an async_accept is pending, the last one failed, or the process ended
  phase,      \* connection -> what its session does
  request,    \* connection -> the request being handled or answered
  answer,     \* connection -> the result in the response being written
  users,      \* the Users table
  served,     \* bound: connection -> requests read
  restarts,   \* bound: restarts so far
  granted     \* history: the credentials of each user that was inserted

sessionVars == <<phase, request, answer>>
httpVars == <<listener, sessionVars, users, served, restarts, granted>>

NoRequest == [method |-> "none"]
NoAnswer == "none"

Handling == {"handling", "lookup", "check", "assert"}

\* Every connection and what it does is gone.
Reset(where) ==
  /\ phase' = [h \in Http |-> where]
  /\ request' = [h \in Http |-> NoRequest]
  /\ answer' = [h \in Http |-> NoAnswer]

\* The process ends: the sessions and the acceptor with it.
Terminate ==
  /\ listener' = "ended"
  /\ Reset("closed")
  /\ UNCHANGED <<users, served, restarts, granted>>

\* A new process on the same database, whether or not the old one had ended.
Restart ==
  /\ restarts < MaxRestarts
  /\ restarts' = restarts + 1
  /\ listener' = "accepting"
  /\ Reset("new")
  /\ UNCHANGED <<users, served, granted>>

-------------------------------------------------------------------------------
(* The listener *)

\* on_accept: a session for the connection, then the next async_accept.
Accept(h) ==
  /\ listener = "accepting"
  /\ phase[h] = "new"
  /\ phase' = [phase EXCEPT ![h] = "reading"]
  /\ UNCHANGED <<listener, request, answer, users, served, restarts, granted>>

\* on_accept with an error, also because the acceptor was never opened.
AcceptError ==
  /\ MayFail
  /\ listener = "accepting"
  /\ listener' = "failed"
  /\ UNCHANGED <<sessionVars, users, served, restarts, granted>>

-------------------------------------------------------------------------------
(* Reading and writing *)

\* The session goes to where, done with its request.
Leave(h, where) ==
  /\ phase' = [phase EXCEPT ![h] = where]
  /\ request' = [request EXCEPT ![h] = NoRequest]
  /\ answer' = [answer EXCEPT ![h] = NoAnswer]
  /\ UNCHANGED <<listener, users, served, restarts, granted>>

\* on_read without an error.  An upgrade hands the socket to a WebSocket session.
OnRead(h) ==
  /\ phase[h] = "reading"
  /\ served[h] < MaxRequests
  /\ served' = [served EXCEPT ![h] = @ + 1]
  /\ \/ /\ phase' = [phase EXCEPT ![h] = "handling"]
        /\ \E r \in Requests : request' = [request EXCEPT ![h] = r]
     \/ /\ phase' = [phase EXCEPT ![h] = "websocket"]
        /\ UNCHANGED request
  /\ UNCHANGED <<listener, answer, users, restarts, granted>>

\* The end of the stream, an error, or the 30 seconds that do_read sets and that
\* run on while the response is written.
StreamEnds(h) == phase[h] \in {"reading", "writing"} /\ Leave(h, "closed")

\* on_write without an error: read again, unless the response says close.
OnWrite(h) ==
  /\ phase[h] = "writing"
  /\ \E where \in {"reading", "closed"} : Leave(h, where)

-------------------------------------------------------------------------------
(* handle_request *)

IsMethod(h, method) == phase[h] = "handling" /\ request[h].method = method

\* send(ok_response(method, result)).
Answer(h, result) ==
  /\ phase' = [phase EXCEPT ![h] = "writing"]
  /\ answer' = [answer EXCEPT ![h] = result]
  /\ UNCHANGED <<listener, request, served, restarts>>

GoTo(h, stage) ==
  /\ phase' = [phase EXCEPT ![h] = stage]
  /\ UNCHANGED <<listener, request, answer, served, restarts>>

Insert(display_name, login, password) ==
  /\ users' = InsertUser(users, display_name, login, password)
  /\ granted' =
       IF Insertable(users, display_name, login, password)
       THEN granted \cup {[display_name |-> display_name, login |-> login,
                           password |-> password]}
       ELSE granted

\* No branch matches, no response: the session is destroyed.
NoResponse(h) ==
  /\ phase[h] = "handling"
  /\ request[h].method \in Unmatched
  /\ Leave(h, "closed")

\* read_json of a malformed body, or get of a missing member, throws.
Throw(h) == IsMethod(h, "malformed") /\ Terminate


RegisterUser(h) ==
  /\ IsMethod(h, "register_user")
  /\ LET r == request[h] IN
       /\ Insert(r.display_name, r.login, r.password)
       /\ Answer(h, IF Insertable(users, r.display_name, r.login, r.password)
                    THEN "registered" ELSE "user exists")

\* login_user asks the registry first, and looks the user up afterwards.
LoginUser(h) ==
  /\ IsMethod(h, "login_user")
  /\ \/ Answer(h, "already logged in")
     \/ GoTo(h, "lookup")
  /\ UNCHANGED <<users, granted>>

LoginLookup(h) ==
  /\ phase[h] = "lookup"
  /\ LET user == GetUserByLogin(users, request[h].login) IN
       Answer(h, IF user = NoUser THEN "not found"
                 ELSE IF user.password = request[h].password THEN "logged in"
                 ELSE "wrong credentials")
  /\ UNCHANGED <<users, granted>>

\* login_fb_user registers the user with the login as password, and checks it.
LoginFbUser(h) ==
  /\ IsMethod(h, "login_fb_user")
  /\ LET r == request[h] IN Insert(r.display_name, r.login, r.login)
  /\ GoTo(h, "check")

\* Reading an optional that is empty may also end the process.
CheckFbUser(h) ==
  /\ phase[h] = "check"
  /\ LET login == request[h].login IN
       \/ /\ \E same \in CheckUserPassword(users, login, login) :
               IF same THEN Answer(h, "logged in") ELSE GoTo(h, "assert")
          /\ UNCHANGED <<users, granted>>
       \/ GetUserByLogin(users, login) = NoUser /\ Terminate

\* assert(false) ends a debug build; a release build sends no response.
AssertFalse(h) ==
  /\ phase[h] = "assert"
  /\ Terminate \/ Leave(h, "closed")

\* What a query may answer; an empty image or name is reported as missing.
Results(r) ==
  CASE r.method = "get_user_image"   -> {GetImageByLogin(users, r.login)}
    [] r.method = "get_display_name" -> {GetUserByLogin(users, r.login).display_name}
    [] r.method = "get_user_status"  -> {"online", "offline"}
    [] r.method = ""                 -> {"bad request"}

Query(h) ==
  /\ phase[h] = "handling"
  /\ request[h].method \in Queries
  /\ \E result \in Results(request[h]) : Answer(h, result)
  /\ UNCHANGED <<users, granted>>

UploadUserImage(h) ==
  /\ IsMethod(h, "upload_user_image")
  /\ users' = SetUserImageByLogin(users, request[h].login, request[h].image)
  /\ Answer(h, "image uploaded")
  /\ UNCHANGED granted

HandleRequest(h) ==
  \/ NoResponse(h) \/ Throw(h)
  \/ RegisterUser(h) \/ LoginUser(h) \/ LoginLookup(h)
  \/ LoginFbUser(h) \/ CheckFbUser(h) \/ AssertFalse(h)
  \/ Query(h) \/ UploadUserImage(h)

-------------------------------------------------------------------------------

Init ==
  /\ listener = "accepting"
  /\ phase = [h \in Http |-> "new"]
  /\ request = [h \in Http |-> NoRequest]
  /\ answer = [h \in Http |-> NoAnswer]
  /\ users = [l \in {} |-> NoUser]
  /\ served = [h \in Http |-> 0]
  /\ restarts = 0
  /\ granted = {}

Next ==
  \/ \E h \in Http : \/ Accept(h) \/ OnRead(h) \/ OnWrite(h) \/ StreamEnds(h)
                     \/ HandleRequest(h)
  \/ AcceptError
  \/ Restart

Spec == Init /\ [][Next]_httpVars

\* A thread runs what is ready; a client that neither reads nor writes is cut
\* off after 30 seconds.  Clients, errors and restarts are free.
Fairness ==
  \A h \in Http : /\ WF_httpVars(Accept(h))
                  /\ WF_httpVars(HandleRequest(h))
                  /\ WF_httpVars(OnWrite(h) \/ StreamEnds(h))

FairSpec == Spec /\ Fairness

-------------------------------------------------------------------------------
(* Properties *)

Answers ==
  Texts \cup {NoAnswer, "registered", "user exists", "already logged in", "not found",
              "logged in", "wrong credentials", "image uploaded", "online", "offline",
              "bad request"}

Credentials == [display_name : Texts, login : Texts, password : Texts]

\* The types: in particular, a row of Users has all its columns whatever sequence
\* of inserts, uploads and restarts made it.
TypeOK ==
  /\ listener \in {"accepting", "failed", "ended"}
  /\ phase \in [Http -> Handling \cup {"new", "reading", "writing", "websocket", "closed"}]
  /\ request \in [Http -> Requests \cup {NoRequest}]
  /\ answer \in [Http -> Answers]
  /\ DOMAIN users \subseteq Texts
  /\ users \in [DOMAIN users -> Rows]
  /\ served \in [Http -> 0 .. MaxRequests]
  /\ restarts \in 0 .. MaxRestarts
  /\ granted \subseteq Credentials

\* A user who was inserted, by register_user or by login_fb_user, with a display
\* name logs in with that password for ever and with no other, and nobody else
\* does: whoever registers the same login later, uploads images, signs in from
\* Facebook, or loses the "registered" response to the timeout of the stream or to
\* a crash and tries again.  It is about the row that the lookup finds; what the
\* registry said before is not part of it.
RegisteredCanLogIn ==
  [][\A h \in Http :
       phase[h] = "lookup" /\ phase'[h] = "writing" =>
         (answer'[h] = "logged in" <=>
            \E c \in granted : /\ c.login = request[h].login
                               /\ c.password = request[h].password
                               /\ c.display_name # NoText)]_httpVars


\* "This function produces an HTTP response for the given request" and sends it
\* (the comment of http_session.cpp on handle_request), as long as the process
\* lives.  The code answers neither a request that matches no branch nor, in a
\* release build, a Facebook login whose check is false.
EveryRequestAnswered ==
  \A h \in Http :
    phase[h] = "handling" ~> phase[h] \in {"writing", "new"} \/ listener = "ended"

===============================================================================
