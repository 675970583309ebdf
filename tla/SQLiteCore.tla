------------------------------ MODULE SQLiteCore ------------------------------
(***************************************************************************)
(* The statements of SQLiteCore.cpp on the Messages table.  SQLite runs    *)
(* each statement of the single connection atomically, so a statement is   *)
(* an operator from a table value to a table value.                        *)
(*                                                                         *)
(* A row is <<login, content>>.  The primary key is the whole row          *)
(* (SQLiteCore.cpp:231), hence the table is a set, and an INSERT of a row  *)
(* that is already there fails and leaves the table as it was.  The        *)
(* foreign key on Login is not enforced: the code never turns on           *)
(* PRAGMA foreign_keys, so any login may own a row.                        *)
(***************************************************************************)

\* Fault: the two strings bound in the wrong order.
SaveUserMessageSwapped(messages, login, content) == messages \cup {<<content, login>>}

\* A second copy of a message is refused by the primary key; the caller
\* ignores the result, so only the table matters.
SaveUserMessage(messages, login, content) == messages \cup {<<login, content>>}

\* The SELECT has no ORDER BY: the result is the set of contents, and the
\* caller may meet them in any order.
GetUndeliveredMessages(messages, login) ==
  {row[2] : row \in {r \in messages : r[1] = login}}

\* Fault: the two strings bound in the wrong order.
DeleteUserUndeliveredMessageSwapped(messages, login, content) ==
  messages \ {<<content, login>>}

DeleteUserUndeliveredMessage(messages, login, content) ==
  messages \ {<<login, content>>}

===============================================================================
