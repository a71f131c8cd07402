------------------------------- MODULE Accounts -------------------------------
(***************************************************************************)
(* The console's accounts, sessions and reset links: login, signup,        *)
(* logout, password change and reset, session revocation and user          *)
(* administration (hookguard_console routes/auth.py, routes/settings.py,   *)
(* middleware.py), beside the operator's reset-password command, which is  *)
(* a process of its own on the same database.                              *)
(*                                                                         *)
(* A handler runs on the event loop and is suspended only while it reads   *)
(* the form.  The middleware has loaded its user and session before that,  *)
(* so what it knows of them may be stale when it goes on.  Login, signup   *)
(* and reset use nothing they knew before the form, and are one step       *)
(* except for the reset's two accesses to the settings table, between      *)
(* which the operator's command may write.  The process may be killed      *)
(* between two statements; the tables are what was committed by then.      *)
(*                                                                         *)
(* An address stands for its account.  Passwords of an account are         *)
(* numbered in the order they are set, links in the order they are drawn.  *)
(* Time is left out: that a session or a link has expired is a choice.     *)
(* The security log is append-only and decides nothing; it is left out.    *)
(***************************************************************************)
EXTENDS Integers, FiniteSets, FiniteSetsExt

CONSTANTS
  Users,        \* addresses that may get an account
  Requests,     \* requests that may be in flight at the same time
  MaxSessions,  \* bound of the model: sessions ever opened
  MaxChanges,   \* bound of the model: password changes of all accounts
  MaxLinks      \* bound of the model: reset links ever printed

ASSUME AccountsAssumption ==
  /\ IsFiniteSet(Users)
  /\ MaxSessions \in Nat /\ MaxChanges \in Nat \ {0}
  /\ MaxLinks \in Nat

VARIABLES
  accounts,  \* table users: a function on the addresses that have an account
  sessions,  \* table sessions: a set of [id, user, pw]; pw is history, the
             \* password the session was opened with
  links,     \* settings pwreset:<uid>: the token of the link in force, 0 if none
  req,       \* what each suspended handler knows, NoReq if there is none
  loop,      \* the reset between its read and its delete, NoReset otherwise
  opened,    \* history: sessions ever opened
  changes,   \* history: password changes so far
  printed,   \* history: links ever printed
  spent,     \* history: links that were accepted
  kept,      \* history: the session id the last password change has kept
  cut,       \* history: accounts whose last password change a kill has cut short
  stale      \* history: an administrator acted after losing the right to

vars ==
  <<accounts, sessions, links, req, loop, opened, changes, printed, spent, kept, cut, stale>>

Roles == {"admin", "member"}
Passwords == 1..(MaxChanges + 1)
NoReq == [who |-> "nobody", sid |-> 0]
NoReset == [user |-> "nobody", tok |-> 0]

Account(role) == [role |-> role, active |-> TRUE, pw |-> 1]
ActiveAdmin(u) == u \in DOMAIN accounts /\ accounts[u].active /\ accounts[u].role = "admin"

Init ==
  /\ accounts = [u \in {} |-> Account("member")]
  /\ sessions = {}
  /\ links = [u \in Users |-> 0]
  /\ req = [r \in Requests |-> NoReq]
  /\ loop = NoReset
  /\ opened = 0
  /\ changes = 0
  /\ printed = 0
  /\ spent = {}
  /\ kept = [u \in Users |-> 0]
  /\ cut = {}
  /\ stale = FALSE

-----------------------------------------------------------------------------
(* Tables *)

(* create_session: an INTEGER PRIMARY KEY is one more than the largest in use. *)
NewId == IF sessions = {} THEN 1 ELSE 1 + Max({s.id : s \in sessions})

(* _start_session *)
StartSession(u, pw) ==
  /\ opened < MaxSessions
  /\ opened' = opened + 1
  /\ sessions' = sessions \union {[id |-> NewId, user |-> u, pw |-> pw]}

WithUser(u, role) == [v \in DOMAIN accounts \union {u} |-> IF v = u THEN Account(role) ELSE accounts[v]]

(* update_password_hash, with a password the account has not had. *)
SetPassword(u) ==
  /\ changes < MaxChanges
  /\ changes' = changes + 1
  /\ accounts' = [accounts EXCEPT ![u].pw = @ + 1]

(* delete_session *)
WithoutId(id) == {s \in sessions : s.id # id}

(* delete_sessions_for_user_except *)
WithoutOthers(u, id) == {s \in sessions : s.user # u \/ s.id = id}

-----------------------------------------------------------------------------
(* routes/auth.py: login and signup *)

(* An active account and its password; anything else is refused and logged. *)
Login(u, pw) ==
  /\ loop = NoReset
  /\ u \in DOMAIN accounts
  /\ accounts[u].active
  /\ pw = accounts[u].pw
  /\ StartSession(u, pw)
  /\ UNCHANGED <<accounts, changes, links, req, loop, printed, spent, kept, cut, stale>>

(* The first account is the administrator's. *)
SignupRole == IF DOMAIN accounts = {} THEN "admin" ELSE "member"

Signup(u) ==
  /\ loop = NoReset
  /\ u \notin DOMAIN accounts
  /\ accounts' = WithUser(u, SignupRole)
  /\ StartSession(u, 1)
  /\ UNCHANGED <<changes, links, req, loop, printed, spent, kept, cut, stale>>

-----------------------------------------------------------------------------
(* SessionMiddleware._load, and the guards before the form is read *)

(* An expired session is deleted on sight. *)
Expire(s) ==
  /\ loop = NoReset
  /\ sessions' = WithoutId(s.id)
  /\ UNCHANGED <<accounts, changes, links, req, loop, opened, printed, spent, kept, cut, stale>>

(* A live session of an active user: the handler keeps the rows it was      *)
(* given and waits for the form.  Which handler it is matters afterwards;   *)
(* the role it may ask for never changes.                                   *)
Begin(r, s) ==
  /\ loop = NoReset
  /\ req[r] = NoReq
  /\ accounts[s.user].active
  /\ req' = [req EXCEPT ![r] = [who |-> s.user, sid |-> s.id]]
  /\ UNCHANGED <<accounts, changes, sessions, links, loop, opened, printed, spent, kept, cut, stale>>

Resume(r) ==
  /\ loop = NoReset
  /\ req[r] # NoReq
  /\ req' = [req EXCEPT ![r] = NoReq]
  /\ UNCHANGED <<links, loop, printed, spent>>

(* No CSRF token, a wrong field or an unknown target: nothing is changed. *)
Refuse(r) ==
  /\ Resume(r)
  /\ UNCHANGED <<accounts, changes, sessions, opened, kept, cut, stale>>

-----------------------------------------------------------------------------
(* The handlers once they have the form *)

(* handle_logout *)
Logout(r) ==
  /\ Resume(r)
  /\ sessions' = WithoutId(req[r].sid)
  /\ UNCHANGED <<accounts, changes, opened, kept, cut, stale>>

(* Slip: the other sessions are not signed out. *)
ChangePasswordOnly(r) ==
  /\ Resume(r)
  /\ SetPassword(req[r].who)
  /\ kept' = [kept EXCEPT ![req[r].who] = req[r].sid]
  /\ cut' = cut \ {req[r].who}
  /\ UNCHANGED <<sessions, opened, stale>>

(* handle_password_change, given the password that was in force when the    *)
(* middleware loaded the user.                                              *)
ChangePassword(r) ==
  LET u == req[r].who IN
  /\ Resume(r)
  /\ SetPassword(u)
  /\ sessions' = WithoutOthers(u, req[r].sid)
  /\ kept' = [kept EXCEPT ![u] = req[r].sid]
  /\ cut' = cut \ {u}
  /\ UNCHANGED <<opened, stale>>

(* Slip: any session whose id is named goes. *)
RevokeAny(r, id) ==
  /\ Resume(r)
  /\ sessions' = WithoutId(id)
  /\ UNCHANGED <<accounts, changes, opened, kept, cut, stale>>

(* handle_session_revoke: only a session in the user's own list. *)
Revoke(r, id) ==
  /\ Resume(r)
  /\ \E s \in sessions : s.user = req[r].who /\ s.id = id
  /\ sessions' = WithoutId(id)
  /\ UNCHANGED <<accounts, changes, opened, kept, cut, stale>>

(* handle_session_revoke_others *)
RevokeOthers(r) ==
  /\ Resume(r)
  /\ sessions' = WithoutOthers(req[r].who, req[r].sid)
  /\ UNCHANGED <<accounts, changes, opened, kept, cut, stale>>

(* handle_user_create; a taken address is refused by the table. *)
CreateUser(r, u, role) ==
  /\ Resume(r)
  /\ accounts[req[r].who].role = "admin"
  /\ u \notin DOMAIN accounts
  /\ accounts' = WithUser(u, role)
  /\ stale' = (stale \/ ~ActiveAdmin(req[r].who))
  /\ UNCHANGED <<changes, sessions, opened, kept, cut>>

(* Slip: administrators may deactivate themselves. *)
ToggleAnyone(r, u) ==
  /\ Resume(r)
  /\ accounts[req[r].who].role = "admin"
  /\ u \in DOMAIN accounts
  /\ accounts' = [accounts EXCEPT ![u].active = ~@]
  /\ stale' = (stale \/ ~ActiveAdmin(req[r].who))
  /\ UNCHANGED <<changes, sessions, opened, kept, cut>>

(* handle_user_deactivate: deactivates, or activates again, anyone else. *)
ToggleActive(r, u) ==
  /\ Resume(r)
  /\ accounts[req[r].who].role = "admin"
  /\ u \in DOMAIN accounts \ {req[r].who}
  /\ accounts' = [accounts EXCEPT ![u].active = ~@]
  /\ stale' = (stale \/ ~ActiveAdmin(req[r].who))
  /\ UNCHANGED <<changes, sessions, opened, kept, cut>>

Finish(r) ==
  \/ Refuse(r) \/ Logout(r) \/ ChangePassword(r) \/ RevokeOthers(r)
  \/ \E id \in 1..MaxSessions : Revoke(r, id)
  \/ \E u \in Users : ToggleActive(r, u) \/ \E role \in Roles : CreateUser(r, u, role)

-----------------------------------------------------------------------------
(* Reset links *)

(* The operator's reset-password command: a new link replaces the old one. *)
PrintLink(u) ==
  /\ u \in DOMAIN accounts
  /\ printed < MaxLinks
  /\ printed' = printed + 1
  /\ links' = [links EXCEPT ![u] = printed + 1]
  /\ UNCHANGED <<accounts, changes, sessions, req, loop, opened, spent, kept, cut, stale>>

(* _consume_reset_token reads the setting: the link is the one in force, or *)
(* it is found expired.  A wrong link is refused.                           *)
ResetRead(u, tok, expired) ==
  /\ loop = NoReset
  /\ links[u] # 0
  /\ expired \/ tok = links[u]
  /\ loop' = [user |-> u, tok |-> IF expired THEN 0 ELSE tok]
  /\ UNCHANGED <<accounts, changes, sessions, links, req, opened, printed, spent, kept, cut, stale>>

(* Slip: the link is only deleted once the new password is accepted. *)
BurnOnSuccess(changed) ==
  /\ loop # NoReset
  /\ changed => loop.tok # 0
  /\ links' = IF changed THEN [links EXCEPT ![loop.user] = 0] ELSE links
  /\ spent' = spent \union ({loop.tok} \ {0})
  /\ loop' = NoReset

(* ... and deletes it, whether or not the password is then accepted. *)
Burn(changed) ==
  /\ loop # NoReset
  /\ changed => loop.tok # 0
  /\ links' = [links EXCEPT ![loop.user] = 0]
  /\ spent' = spent \union ({loop.tok} \ {0})
  /\ loop' = NoReset

(* handle_reset_password after the read: every session of the account goes. *)
ResetFinish(changed) ==
  LET u == loop.user IN
  /\ Burn(changed)
  /\ IF changed
     THEN /\ SetPassword(u)
          /\ sessions' = WithoutOthers(u, 0)
          /\ kept' = [kept EXCEPT ![u] = 0]
          /\ cut' = cut \ {u}
     ELSE UNCHANGED <<accounts, changes, sessions, kept, cut>>
  /\ UNCHANGED <<req, opened, printed, stale>>

-----------------------------------------------------------------------------
(* The process is killed, and a new one is started on the same tables: no   *)
(* request survives.  Every statement commits by itself.                    *)

Die ==
  /\ req' = [r \in Requests |-> NoReq]
  /\ UNCHANGED <<opened, printed, kept, stale>>

(* Between two requests, or before the reset's delete. *)
Kill ==
  /\ Die
  /\ loop' = NoReset
  /\ UNCHANGED <<accounts, changes, sessions, links, spent, cut>>

(* Between update_password_hash and delete_sessions_for_user_except. *)
KillInChange(r) ==
  /\ loop = NoReset
  /\ req[r] # NoReq
  /\ SetPassword(req[r].who)
  /\ cut' = cut \union {req[r].who}
  /\ Die
  /\ UNCHANGED <<sessions, links, loop, spent>>

(* Between the reset's delete and its new password, and between that and    *)
(* delete_sessions_for_user.                                                *)
KillInReset(changed) ==
  /\ Burn(changed)
  /\ IF changed
     THEN SetPassword(loop.user) /\ cut' = cut \union {loop.user}
     ELSE UNCHANGED <<accounts, changes, cut>>
  /\ Die
  /\ UNCHANGED sessions

(* Between create_user and create_session. *)
KillInSignup(u) ==
  /\ loop = NoReset
  /\ u \notin DOMAIN accounts
  /\ accounts' = WithUser(u, SignupRole)
  /\ Die
  /\ UNCHANGED <<changes, sessions, links, loop, spent, cut>>

-----------------------------------------------------------------------------

Next ==
  \/ \E u \in Users :
       \/ Signup(u) \/ PrintLink(u)
       \/ \E pw \in Passwords : Login(u, pw)
       \/ \E tok \in 1..MaxLinks, expired \in BOOLEAN : ResetRead(u, tok, expired)
  \/ \E s \in sessions :
       \/ Expire(s)
       \/ \E r \in Requests : Begin(r, s)
  \/ \E r \in Requests : Finish(r)
  \/ \E changed \in BOOLEAN : ResetFinish(changed) \/ KillInReset(changed)
  \/ Kill
  \/ \E r \in Requests : KillInChange(r)
  \/ \E u \in Users : KillInSignup(u)

Spec == Init /\ [][Next]_vars

-----------------------------------------------------------------------------
(* Properties *)

(* One type invariant; an id identifies a session. *)
TypeOK ==
  /\ DOMAIN accounts \subseteq Users
  /\ \A u \in DOMAIN accounts : accounts[u] \in [role : Roles, active : BOOLEAN, pw : Passwords]
  /\ sessions \subseteq [id : 1..MaxSessions, user : DOMAIN accounts, pw : Passwords]
  /\ \A s, t \in sessions : s.id = t.id => s = t
  /\ links \in [Users -> 0..printed]
  /\ \A r \in Requests : \/ req[r] = NoReq
                         \/ /\ req[r].who \in DOMAIN accounts
                            /\ req[r].sid \in 1..MaxSessions
  /\ loop.user \in DOMAIN accounts \union {NoReset.user} /\ loop.tok \in 0..printed
  /\ opened \in 0..MaxSessions /\ changes \in 0..MaxChanges /\ printed \in 0..MaxLinks
  /\ spent \subseteq 1..printed
  /\ kept \in [Users -> 0..MaxSessions]
  /\ cut \subseteq DOMAIN accounts
  /\ stale \in BOOLEAN

(* A new password ends the sessions opened with any earlier one, also those *)
(* opened or in use while the change was suspended, and those an earlier    *)
(* change cut short by a kill had left; the only one left bears the id of   *)
(* the session that asked for the change.                                   *)
OldPasswordsOpenNothing ==
  \A s \in sessions :
    s.pw = accounts[s.user].pw \/ s.id = kept[s.user] \/ s.user \in cut

(* An instance with accounts keeps an active administrator, unless someone  *)
(* who had just lost that role's rights finished a request begun before.    *)
AdminRemains == DOMAIN accounts # {} /\ ~stale => \E u \in Users : ActiveAdmin(u)

(* A link that was burnt is never in force again, whatever came of the new  *)
(* password, whichever links the operator printed in between and wherever   *)
(* the process was killed.                                                  *)
LinksSingleUse == \A u \in Users : links[u] \notin spent

(* A request ends only sessions of its own user, or the one that bears the  *)
(* id of the session it came with.                                          *)
OwnSessionsOnly ==
  [][\A r \in Requests : req[r] # NoReq /\ req'[r] = NoReq =>
       \A s \in sessions \ sessions' : s.user = req[r].who \/ s.id = req[r].sid]_vars
=============================================================================
