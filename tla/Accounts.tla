------------------------------- MODULE Accounts -------------------------------
(***************************************************************************)
(* The coordinator's admins: users, their sessions and the API tokens they *)
(* make, changed by forms of the admin pages that run side by side, and by *)
(* the command line. A form's session is checked before its change is made.*)
(***************************************************************************)
EXTENDS Naturals, FiniteSets

CONSTANTS
  AdminNames, \* user names
  Forms       \* bound: forms posted, each once

FormKinds == {"create", "password", "delete", "logout", "apiToken", "apiTokenDelete"}

VARIABLES
  admins,    \* the users there are
  logins,    \* sessions: [id, user], id the login form that made it, or the user from before
  apiTokens, \* API tokens, each named by the form that made it
  form,      \* what each form is at
  cli        \* the command line: "idle", or the user whose sessions it is about to end

accountVars == <<admins, logins, apiTokens, form, cli>>

NotPosted == [step |-> "none"]

\* A coordinator that just started: its users and their sessions are in the database.
AccountsInit ==
  /\ admins \in SUBSET AdminNames /\ apiTokens = {} /\ cli = "idle"
  /\ logins \in SUBSET {[id |-> user, user |-> user] : user \in admins}
  /\ form = [f \in Forms |-> NotPosted]

StepTo(f, state) == form' = [form EXCEPT ![f] = state]
Answer(f) == StepTo(f, [step |-> "answered"])

-----------------------------------------------------------------------------
(* Logging in *)

\* authenticate: the user is read and the password checked ...
FindUser(f, user) ==
  /\ form[f].step = "none" /\ user \in admins
  /\ StepTo(f, [step |-> "known", user |-> user])
  /\ UNCHANGED <<admins, logins, apiTokens, cli>>

\* ... and the session is stored, whoever changed the user since.
OpenSession(f) ==
  /\ form[f].step = "known" /\ Answer(f)
  /\ \/ logins' = logins \cup {[id |-> f, user |-> form[f].user]}
     \/ logins' = logins
  /\ UNCHANGED <<admins, apiTokens, cli>>

\* A session that is over is deleted when it is next used.
SessionExpires(login) ==
  /\ login \in logins /\ logins' = logins \ {login}
  /\ UNCHANGED <<admins, apiTokens, form, cli>>

-----------------------------------------------------------------------------
(* The forms of the admin pages *)

\* check_auth: the session is there now.
CheckAuth(f, login, kind, target) ==
  /\ form[f].step = "none" /\ login \in logins
  /\ StepTo(f, [step |-> kind, by |-> login, target |-> target])
  /\ UNCHANGED <<admins, logins, apiTokens, cli>>

Posted(f, kind) == form[f].step = kind

UserCreate(f) ==
  /\ Posted(f, "create") /\ Answer(f)
  /\ admins' \in {admins, admins \cup {form[f].target}}
  /\ UNCHANGED <<logins, apiTokens, cli>>

\* The new password first; a user who is gone is an error.
UserSetPassword(f) ==
  /\ Posted(f, "password")
  /\ \/ form[f].target \in admins /\ StepTo(f, [form[f] EXCEPT !.step = "clear"])
     \/ Answer(f)
  /\ UNCHANGED <<admins, logins, apiTokens, cli>>

SessionsOf(user) == {login \in logins : login.user = user}

\* Then the user's other sessions: the caller stays logged in.
ClearSessions(f) ==
  /\ Posted(f, "clear") /\ Answer(f)
  /\ logins' \in {logins, logins \ (SessionsOf(form[f].target) \ {form[f].by})}
  /\ UNCHANGED <<admins, apiTokens, cli>>

\* Mutant of AnyLeft: deleting oneself is refused, so nobody deletes the last admin.
AnyLeftOtherwise(left) == TRUE

\* COUNT_ADMIN_USERS, in the delete's own transaction.
AnyLeft(left) == left # {}

\* Nobody deletes their own account, nor the last one; the sessions go with it.
UserDelete(f) ==
  LET user == form[f].target
  IN /\ Posted(f, "delete") /\ Answer(f)
     /\ \/ /\ user \in admins /\ user # form[f].by.user /\ AnyLeft(admins \ {user})
           /\ admins' = admins \ {user} /\ logins' = logins \ SessionsOf(user)
        \/ UNCHANGED <<admins, logins>>
     /\ UNCHANGED <<apiTokens, cli>>

Logout(f) ==
  /\ Posted(f, "logout") /\ Answer(f) /\ logins' \in {logins, logins \ {form[f].by}}
  /\ UNCHANGED <<admins, apiTokens, cli>>

ApiTokenCreate(f) ==
  /\ Posted(f, "apiToken") /\ Answer(f) /\ apiTokens' \in {apiTokens, apiTokens \cup {f}}
  /\ UNCHANGED <<admins, logins, cli>>

ApiTokenDelete(f) ==
  /\ Posted(f, "apiTokenDelete") /\ Answer(f)
  /\ \E token \in Forms : apiTokens' \in {apiTokens, apiTokens \ {token}}
  /\ UNCHANGED <<admins, logins, cli>>

-----------------------------------------------------------------------------
(* The command line, which opens the database itself *)

\* create-user, and the last step of setup.
CliCreateUser(user) ==
  /\ user \notin admins /\ admins' = admins \cup {user}
  /\ UNCHANGED <<logins, apiTokens, form, cli>>

\* The new password, which needs the user ...
CliResetPassword(user) ==
  /\ cli = "idle" /\ user \in admins /\ cli' = user
  /\ UNCHANGED <<admins, logins, apiTokens, form>>

\* ... then the sessions.
CliClearSessions ==
  /\ cli # "idle" /\ cli' = "idle" /\ logins' \in {logins, logins \ SessionsOf(cli)}
  /\ UNCHANGED <<admins, apiTokens, form>>

AccountsNext ==
  \/ \E f \in Forms :
       \/ \E user \in AdminNames : FindUser(f, user)
       \/ \E login \in logins, kind \in FormKinds, target \in AdminNames :
            CheckAuth(f, login, kind, target)
       \/ OpenSession(f) \/ UserCreate(f) \/ UserSetPassword(f) \/ ClearSessions(f)
       \/ UserDelete(f) \/ Logout(f) \/ ApiTokenCreate(f) \/ ApiTokenDelete(f)
  \/ \E login \in logins : SessionExpires(login)
  \/ \E user \in AdminNames : CliCreateUser(user) \/ CliResetPassword(user)
  \/ CliClearSessions

AccountsSpec == AccountsInit /\ [][AccountsNext]_accountVars

-----------------------------------------------------------------------------
(* Properties *)

AccountsTypeOK ==
  /\ admins \subseteq AdminNames /\ apiTokens \subseteq Forms
  /\ logins \subseteq [id : Forms \cup AdminNames, user : AdminNames]
  /\ cli \in AdminNames \cup {"idle"}

\* Once there is an admin there always is one: not even admins who delete each other at once,
\* or one whose session outlived their own account, can leave the coordinator without.
AdminRemains == [][admins # {} => admins' # {}]_accountVars

===============================================================================
