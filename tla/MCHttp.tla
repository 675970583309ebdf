-------------------------------- MODULE MCHttp --------------------------------
(***************************************************************************)
(* Small instances of HttpSession: two logins, one of which is too short   *)
(* to be a password (and so cannot be made by login_fb_user), two          *)
(* passwords, a display name and an empty one.                             *)
(***************************************************************************)
EXTENDS HttpSession

MCLength == [t \in {"", "Ann", "anna", "mikhail", "secret1", "picture"} |->
               CASE t = "" -> 0 [] t = "Ann" -> 3 [] t = "anna" -> 4 [] OTHER -> 7]

R(method, name, login, password, image) ==
  [method |-> method, display_name |-> name, login |-> login,
   password |-> password, image |-> image]

Register == {R("register_user", "Ann", l, "secret1", "") : l \in {"anna", "mikhail"}}
RegisterOdd == {R("register_user", "", "mikhail", "secret1", ""),
                R("register_user", "Ann", "mikhail", "mikhail", "")}
Login == {R("login_user", "", "mikhail", p, "") : p \in {"secret1", "mikhail"}}
LoginFb == {R("login_fb_user", "Ann", l, "", "") : l \in {"anna", "mikhail"}}
Image == {R("upload_user_image", "", "mikhail", "", "picture"),
          R("get_user_image", "", "mikhail", "", "")}
Others == {R(q, "", "", "", "") : q \in {"get_user_status", "malformed", "unknown"}}
          \cup {R("get_display_name", "", "mikhail", "", "")}

UserRequests == Register \cup RegisterOdd \cup Login \cup LoginFb \cup Image \cup Others

\* The browser's preflight request, and Facebook logins under a registered login.
UnansweredRequests == {R("options", "", "", "", "")} \cup Register \cup LoginFb

===============================================================================
