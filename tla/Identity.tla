-------------------------------- MODULE Identity --------------------------------
(***************************************************************************)
(* Who a browser is to the server: tokens, passwords, the login cookie and *)
(* what its user changes of itself (auth/identity.py, login.py, logout.py, *)
(* the cookie secret in serverapp.py, /api/me in services/api).            *)
(*                                                                         *)
(* A server handles a request without an interruption.  A browser has      *)
(* several under way, which carry the cookie it had then, and their        *)
(* answers set or clear its cookie in any order.  The password and the     *)
(* secret that signs the cookies are of the start of the server.           *)
(***************************************************************************)
EXTENDS Naturals

CONSTANTS
  Browsers, Slots,   \* each browser has that many requests under way
  Users,             \* the names that anonymous users are given
  Colors,            \* values of a field of a user
  Fields,            \* the fields that a user may ask to change
  updatable_fields,  \* those that the configuration allows
  Passwords,
  Settings,          \* ways to configure the token, and the password: required, or kept
  MaxChanges,        \* bound: passwords set
  MaxStarts,         \* bound: starts of the server
  None

(* A user, what the cookie of one holds, and the hash of a password.       *)
UserType == [id : Users, fields : [Fields -> Colors \cup {None}]]
Hashes == [password : Passwords, salt : 0 .. MaxChanges]
Cookies == [id : Users, fields : [Fields \ {"avatar_url"} -> Colors \cup {None}],
            secret : [key : 1 .. MaxStarts, password : Hashes \cup {None}]]

ASSUME IdentityAssumption ==
  /\ updatable_fields \subseteq Fields
  /\ Settings \subseteq {"generated", "configured", "empty", "required", "kept"}
  /\ MaxChanges \in Nat /\ MaxStarts \in Nat \ {0}
  /\ Users # {} /\ None \notin Cookies /\ None \notin UserType

VARIABLES
  setting, up,
  hashed_password,  \* of the running server
  stored,           \* in jupyter_server_config.json
  token,            \* whether there is one
  key,              \* the start that wrote cookie_secret_file, 0 if none could
  cookie_secret,
  jar,              \* the cookie of each browser
  request,
  changes, starts   \* how much of the bounds is used
server == <<up, hashed_password, token, key, cookie_secret>>
vars == <<setting, server, stored, jar, request, changes, starts>>

-----------------------------------------------------------------------------
(* A hash has a salt, so that one password has several.                    *)
passwd(w) == [password |-> w, salt |-> changes]
passwd_check(w) == hashed_password # None /\ hashed_password.password = w
auth_enabled == hashed_password # None \/ token

(* A new name is one that nobody has, as long as there is one.             *)
Named(u) ==
  \/ \E b \in Browsers : jar[b] # None /\ jar[b].id = u
  \/ \E b \in Browsers, i \in Slots :
       LET r == request[b][i]
       IN \/ r.at = "sent" /\ r.cookie # None /\ r.cookie.id = u
          \/ r.at = "answered" /\ r.sets.how = "set" /\ r.sets.cookie.id = u
generate_anonymous_user ==
  [id |-> CHOOSE u \in Users : (\E v \in Users : ~Named(v)) => ~Named(u), fields |-> [f \in Fields |-> None]]

user_to_cookie(user) == [user EXCEPT !.fields = [f \in Fields \ {"avatar_url"} |-> user.fields[f]]]
user_from_cookie(cookie) ==
  [id |-> cookie.id, fields |-> [f \in Fields |-> IF f = "avatar_url" THEN None ELSE cookie.fields[f]]]

(* What an answer does to the cookie.                                      *)
Keep == [how |-> "keep"]
clear_login_cookie == [how |-> "clear"]
set_login_cookie(user) ==
  [how |-> "set", cookie |-> [id |-> user.id, fields |-> user_to_cookie(user).fields, secret |-> cookie_secret]]

Accepted(cookie) == cookie # None /\ cookie.secret = cookie_secret
get_user_cookie(cookie) == IF Accepted(cookie) THEN user_from_cookie(cookie) ELSE None

(* Mutant: whoever has the token is given a new name.                      *)
get_user_token_Anonymous(r) == IF r.token /\ token THEN generate_anonymous_user ELSE None

get_user_token(r) ==
  IF ~(r.token /\ token) THEN None
  ELSE IF Accepted(r.cookie) THEN get_user_cookie(r.cookie) ELSE generate_anonymous_user

(* Mutant: also a cookie that is not there is cleared.                     *)
get_user_ClearsAlways(r) ==
  LET token_user == get_user_token(r)
      cookie_user == get_user_cookie(r.cookie)
      user == IF token_user # None THEN token_user ELSE cookie_user
  IN IF user # None THEN [user |-> user, sets |-> IF user # cookie_user THEN set_login_cookie(user) ELSE Keep]
     ELSE IF ~auth_enabled
     THEN [user |-> generate_anonymous_user, sets |-> set_login_cookie(generate_anonymous_user)]
     ELSE [user |-> None, sets |-> clear_login_cookie]

(* The user of a request, and what becomes of the cookie of its browser.   *)
get_user(r) ==
  LET token_user == get_user_token(r)
      cookie_user == get_user_cookie(r.cookie)
      user == IF token_user # None THEN token_user ELSE cookie_user
  IN IF user # None THEN [user |-> user, sets |-> IF user # cookie_user THEN set_login_cookie(user) ELSE Keep]
     ELSE IF ~auth_enabled
     THEN [user |-> generate_anonymous_user, sets |-> set_login_cookie(generate_anonymous_user)]
     ELSE [user |-> None, sets |-> IF r.cookie # None THEN clear_login_cookie ELSE Keep]

-----------------------------------------------------------------------------
Idle == [at |-> "idle"]

Send(b, i, kind, withtoken, ask) ==
  /\ request[b][i] = Idle
  /\ request' = [request EXCEPT ![b][i] =
       [at |-> "sent", kind |-> kind, cookie |-> jar[b], token |-> withtoken, ask |-> ask]]
  /\ UNCHANGED <<setting, server, stored, jar, changes, starts>>

(* A page, the form of the login or a call of the API; a login with the    *)
(* token or a password, and maybe a new one; a logout; a change of the     *)
(* user.                                                                   *)
Ask(b, i) ==
  \/ \E withtoken \in BOOLEAN, kind \in {"page", "logout"} : Send(b, i, kind, withtoken, None)
  \/ \E typed \in Passwords \cup {"token"}, new \in Passwords \cup {None} :
       Send(b, i, "login", FALSE, [typed |-> typed, new |-> new])
  \/ \E f \in Fields, c \in Colors, withtoken \in BOOLEAN :
       Send(b, i, "me", withtoken, [g \in {f} |-> c])

Carried(cookie) == IF cookie = None THEN "nothing" ELSE IF Accepted(cookie) THEN "accepted" ELSE "stale"
Answer(b, i, status, sets) ==
  request' = [request EXCEPT ![b][i] =
    [at |-> "answered", kind |-> @.kind, carried |-> Carried(@.cookie), status |-> status, sets |-> sets]]

Handling(b, i, kinds) == up /\ request[b][i].at = "sent" /\ request[b][i].kind \in kinds
KeepsPasswords == UNCHANGED <<hashed_password, stored, changes>>

(* prepare, web.authenticated, authorized: who is not known gets the form  *)
(* of the login, or is refused.                                            *)
Page(b, i) ==
  LET g == get_user(request[b][i])
  IN /\ Handling(b, i, {"page"})
     /\ Answer(b, i, IF g.user # None THEN "ok" ELSE "form", g.sets)
     /\ KeepsPasswords

(* LogoutHandler.get                                                       *)
Logout(b, i) ==
  /\ Handling(b, i, {"logout"})
  /\ Answer(b, i, "ok", clear_login_cookie)
  /\ KeepsPasswords

update_user_model(user, data) ==
  [user EXCEPT !.fields = [f \in Fields |-> IF f \in DOMAIN data THEN data[f] ELSE @[f]]]

(* IdentityHandler.patch, update_user                                      *)
UpdateUser(b, i) ==
  LET g == get_user(request[b][i])
      data == request[b][i].ask
  IN /\ Handling(b, i, {"me"})
     /\ \/ g.user = None /\ Answer(b, i, "forbidden", g.sets)
        \/ /\ g.user # None /\ ~(DOMAIN data \subseteq updatable_fields)
           /\ Answer(b, i, "bad request", g.sets)
        \/ /\ g.user # None /\ DOMAIN data \subseteq updatable_fields
           /\ Answer(b, i, "ok", set_login_cookie(update_user_model(g.user, data)))
     /\ KeepsPasswords

(* set_password: the file is written first.                                *)
set_password(w) == changes < MaxChanges /\ stored' = passwd(w) /\ changes' = changes + 1

allow_password_change == setting # "kept"

(* LoginFormHandler.post, process_login_form: a password that is right     *)
(* does not do for a new one.  There is no such handler while anybody may  *)
(* come in (login_available).                                              *)
Login(b, i) ==
  LET r == request[b][i]
      g == get_user(r)
      user == IF g.sets.how # "set" THEN generate_anonymous_user ELSE g.user
      bypassword == passwd_check(r.ask.typed) /\ r.ask.new = None
      bytoken == ~bypassword /\ token /\ r.ask.typed = "token"
      changing == r.ask.new # None /\ allow_password_change
  IN /\ Handling(b, i, {"login"})
     /\ \/ /\ ~auth_enabled
           /\ Answer(b, i, "not found", g.sets) /\ KeepsPasswords
        \/ /\ auth_enabled /\ (bypassword \/ (bytoken /\ ~changing))
           /\ Answer(b, i, "ok", set_login_cookie(user)) /\ KeepsPasswords
        \/ /\ auth_enabled /\ bytoken /\ changing
           /\ set_password(r.ask.new) /\ hashed_password' = stored'
           /\ Answer(b, i, "ok", set_login_cookie(user))
        \/ (* The file cannot be written, or what it holds not be read.    *)
           /\ auth_enabled /\ bytoken /\ changing
           /\ Answer(b, i, "error", g.sets) /\ KeepsPasswords
        \/ /\ auth_enabled /\ ~bypassword /\ ~bytoken
           /\ Answer(b, i, "invalid", g.sets) /\ KeepsPasswords

Handle(b, i) ==
  /\ Page(b, i) \/ Logout(b, i) \/ UpdateUser(b, i) \/ Login(b, i)
  /\ UNCHANGED <<setting, up, token, key, cookie_secret, jar, starts>>

Receive(b, i) ==
  LET r == request[b][i]
  IN /\ r.at = "answered"
     /\ jar' = [jar EXCEPT ![b] = CASE r.sets.how = "keep" -> @ [] r.sets.how = "clear" -> None [] OTHER -> r.sets.cookie]
     /\ request' = [request EXCEPT ![b][i] = Idle]
     /\ UNCHANGED <<setting, server, stored, changes, starts>>

-----------------------------------------------------------------------------
(* "jupyter server password"; a running server does not notice.            *)
PasswordCommand ==
  /\ \E w \in Passwords : set_password(w)
  /\ UNCHANGED <<setting, server, jar, request, starts>>

(* What had not been answered fails.                                       *)
Stop ==
  /\ up /\ starts < MaxStarts
  /\ up' = FALSE
  /\ request' = [b \in Browsers |-> [i \in Slots |-> IF request[b][i].at = "sent" THEN Idle ELSE request[b][i]]]
  /\ UNCHANGED <<setting, hashed_password, stored, token, key, cookie_secret, jar, changes, starts>>

need_token == stored = None
_token_default ==
  CASE setting = "configured" -> TRUE
    [] setting = "empty" -> FALSE
    [] OTHER -> need_token
validate_security == setting = "required" => stored # None

(* init_configurables and init_webapp: the secret is of the key, which is  *)
(* a new one if the file of the last start could not be written, and of    *)
(* the password.                                                           *)
Start(written) ==
  /\ ~up /\ validate_security
  /\ up' = TRUE /\ starts' = starts + 1
  /\ hashed_password' = stored
  /\ token' = _token_default
  /\ key' = IF key # 0 \/ ~written THEN key ELSE starts + 1
  /\ cookie_secret' = [key |-> IF key # 0 THEN key ELSE starts + 1, password |-> stored]
  /\ UNCHANGED <<setting, stored, jar, request, changes>>

-----------------------------------------------------------------------------
Init ==
  /\ setting \in Settings /\ up = FALSE
  /\ hashed_password = None /\ stored = None /\ token = FALSE
  /\ key = 0 /\ cookie_secret = None
  /\ jar = [b \in Browsers |-> None]
  /\ request = [b \in Browsers |-> [i \in Slots |-> Idle]]
  /\ changes = 0 /\ starts = 0

Next ==
  \/ \E b \in Browsers, i \in Slots : Ask(b, i) \/ Handle(b, i) \/ Receive(b, i)
  \/ PasswordCommand \/ Stop
  \/ \E written \in BOOLEAN : Start(written)
Spec == Init /\ [][Next]_vars

-----------------------------------------------------------------------------
TypeOK ==
  /\ setting \in Settings /\ up \in BOOLEAN /\ token \in BOOLEAN
  /\ key \in 0 .. MaxStarts /\ changes \in 0 .. MaxChanges /\ starts \in 0 .. MaxStarts
  /\ \A b \in Browsers : jar[b] # None => jar[b] \in Cookies

Received(b, i) == request[b][i].at = "answered" /\ request'[b][i] = Idle

(* A browser whose cookie the server accepts loses it only by a logout, or *)
(* by the answer to a request that carried a cookie which it did not       *)
(* accept: a request sent with none, before the browser logged in, does    *)
(* not log it out, however late its answer comes (_get_user, gh-3365).     *)
StaysLoggedIn ==
  [][\A b \in Browsers, i \in Slots :
       Received(b, i) /\ Accepted(jar[b]) /\ jar'[b] = None =>
         request[b][i].kind = "logout" \/ request[b][i].carried = "stale"]_vars

(* A browser that the server knows stays the user that it is, with the     *)
(* changes that it made, whatever answers are still to come, unless they   *)
(* are those of a login or another change, or of requests that it sent     *)
(* before the server knew it (get_user_token, set_login_cookie).           *)
UserKept ==
  [][\A b \in Browsers, i \in Slots :
       Received(b, i) /\ Accepted(jar[b]) /\ jar'[b] # None /\ jar'[b] # jar[b] =>
         request[b][i].kind \in {"login", "me"} \/ request[b][i].carried # "accepted"]_vars
=============================================================================
