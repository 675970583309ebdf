------------------------------ MODULE UsersTable ------------------------------
(***************************************************************************)
(* The statements of SQLiteCore.cpp on the Users table, each atomic.  A    *)
(* table is a function from the logins that have a row to the row.  Of a   *)
(* text, only its identity and its length matter.                          *)
(***************************************************************************)
EXTENDS Integers

CONSTANTS
  Length,   \* [texts -> Nat]: display names, logins, passwords and images
  NoText    \* the empty string

Texts == DOMAIN Length

ASSUME LengthAssumption ==
  /\ Length \in [Texts -> Nat]
  /\ NoText \in Texts
  /\ Length[NoText] = 0

Rows == [display_name : Texts, password : Texts, image : Texts]

NoUser == [display_name |-> NoText]

Row(display_name, password) ==
  [display_name |-> display_name, password |-> password, image |-> NoText]

\* The CHECKs of the table and its primary key.
Insertable(users, display_name, login, password) ==
  /\ Length[display_name] <= 30
  /\ Length[login] \in 4 .. 30
  /\ Length[password] \in 6 .. 32
  /\ login \notin DOMAIN users

Put(users, login, row) ==
  [l \in DOMAIN users \cup {login} |-> IF l = login THEN row ELSE users[l]]

\* Fault: INSERT OR REPLACE.
InsertOrReplaceUser(users, display_name, login, password) ==
  Put(users, login, Row(display_name, password))

InsertUser(users, display_name, login, password) ==
  IF Insertable(users, display_name, login, password)
  THEN Put(users, login, Row(display_name, password)) ELSE users

\* A row with an empty display name counts as no row.
GetUserByLogin(users, login) ==
  IF login \in DOMAIN users /\ users[login].display_name # NoText
  THEN users[login] ELSE NoUser

\* The results CheckUserPassword may have: without a user it compares with an
\* optional that is empty.
CheckUserPassword(users, login, password) ==
  LET user == GetUserByLogin(users, login) IN
    IF user = NoUser THEN BOOLEAN ELSE {user.password = password}

GetImageByLogin(users, login) ==
  IF login \in DOMAIN users THEN users[login].image ELSE NoText

\* Fault: the row is made when it is missing.
UpsertUserImage(users, login, image) ==
  Put(users, login, [image |-> image])

\* An UPDATE that matches no row succeeds.
SetUserImageByLogin(users, login, image) ==
  IF login \in DOMAIN users
  THEN [users EXCEPT ![login].image = image] ELSE users

===============================================================================
