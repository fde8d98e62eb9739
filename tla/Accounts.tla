------------------------------ MODULE Accounts ------------------------------
(* The accounts of a school: registering, logging in under a throttle,       *)
(* sessions, changing and resetting a password, inviting and accepting,      *)
(* memberships.  A request is a database transaction or two at READ          *)
(* COMMITTED: a SELECT is a step, the flush of what the handler has changed  *)
(* and its commit are one step, and other requests come in between.  An      *)
(* UPDATE writes only the columns the handler has changed.                   *)
EXTENDS Integers, FiniteSets

CONSTANTS Requests,      \* the requests, each sent at most once
          Emails, Passwords, Roles,
          Admin,         \* the role that may invite
          NoPassword, NoRole,
          SeedSessions,  \* the sessions there are at the start
          SeedTokens,    \* the reset tokens and invitations there are at the start
          Scenarios,     \* what the requests send, and the tables at the start
          MaxFailures    \* AUTH_LOGIN_MAX_FAILURES

\* A session, a reset token and an invitation are named by the request that makes them.
Sessions == Requests \cup SeedSessions
Tokens   == Requests \cup SeedTokens

Bearer == {"logout", "logoutAll", "revoke", "change", "invite", "putMembership"}
Ops == Bearer \cup {"register", "login", "resetRequest", "confirm", "accept", "createUser"}

Call == [op: Ops, email: Emails, password: Passwords, new: Passwords, role: Roles,
         session: Sessions, other: Sessions, token: Tokens]

\* seen: how last_seen_at and expires_at look at the moment.
SessionRow    == [user: Emails, status: {"absent", "open", "revoked"},
                  seen: {"fresh", "due", "idle", "expired"}]
ResetRow      == [user: Emails, status: {"absent", "usable", "expired", "used"}]
InvitationRow == [email: Emails, role: Roles,
                  status: {"absent", "open", "expired", "accepted"}]
\* No failures: no row.  over: the window that started with the first failure is over.
ThrottleRow   == [failures: Nat, blocked: {"never", "past", "future"}, over: BOOLEAN]

NoRow == [failures |-> 0, blocked |-> "never", over |-> FALSE]

VARIABLES users,       \* the e-mail addresses with a user row
          password,    \* password[e]: the credential of the user e
          role,        \* role[e]: the membership of e in the school
          session,     \* session[s]
          reset,       \* reset[t]: the password reset token t
          invitation,  \* invitation[t]: the invitation t to the school
          throttle,    \* throttle[e]: the login throttle row of e
          call,        \* call[r]: what request r sends
          pc,          \* pc[r]: how far request r has come
          view,        \* view[r]: what request r has read
          sent,        \* history: what there was when request r was sent
          failed       \* history: how many logins of e have been answered 401

people  == <<users, password, role>>
secrets == <<reset, invitation>>
tables  == <<people, session, secrets, throttle>>
history == <<call, sent, failed>>
vars    == <<tables, pc, view, history>>

Database == [users: SUBSET Emails, password: [Emails -> Passwords \cup {NoPassword}],
             role: [Emails -> Roles \cup {NoRole}], session: [Sessions -> SessionRow],
             reset: [Tokens -> ResetRow], invitation: [Tokens -> InvitationRow],
             throttle: [Emails -> ThrottleRow]]

\* Passwords and memberships are users'; who was invited and accepted has both.
WellFormed(d) ==
    /\ \A e \in Emails : d.password[e] # NoPassword \/ d.role[e] # NoRole => e \in d.users
    /\ \A t \in Tokens : d.invitation[t].status = "accepted" =>
          NoPassword # d.password[d.invitation[t].email] /\ NoRole # d.role[d.invitation[t].email]
    /\ \A t \in Tokens : d.reset[t].status = "usable" => d.password[d.reset[t].user] # NoPassword
    /\ \A r \in Requests : /\ "absent" = d.session[r].status
                           /\ "absent" = d.reset[r].status
                           /\ "absent" = d.invitation[r].status
    /\ \A e \in Emails : d.throttle[e].blocked = "future" => d.throttle[e].failures >= MaxFailures

ASSUME AccountsAssumption ==
    /\ NoPassword \notin Passwords /\ NoRole \notin Roles /\ Admin \in Roles
    /\ Scenarios \subseteq [call: [Requests -> Call], database: Database]
    /\ \A sc \in Scenarios : WellFormed(sc.database)
    /\ MaxFailures \in Nat \ {0, 1}

Answers == {"ok", "invalid", "unauthorized", "forbidden", "missing", "conflict", "gone",
            "throttled", "failed", "lost"}
Labels == {"idle", "sent", "enter", "entered", "close", "admitted", "assign", "create",
           "verify", "open", "count", "replace", "locked", "tokens", "confirm", "review",
           "accept"}

View == [session: SessionRow, sessions: SUBSET Sessions, tokens: SUBSET Tokens,
         throttle: ThrottleRow, account: {"new", "bare", "full"}, role: Roles \cup {NoRole}]

NothingSeen ==
    [session |-> [user |-> CHOOSE e \in Emails : TRUE, status |-> "absent", seen |-> "fresh"],
     sessions |-> {}, tokens |-> {}, throttle |-> NoRow, account |-> "new", role |-> NoRole]
NothingSent == [sessions |-> {}, tokens |-> {}, answered |-> {}]

TypeOK ==
    /\ users \subseteq Emails
    /\ password \in [Emails -> Passwords \cup {NoPassword}]
    /\ role \in [Emails -> Roles \cup {NoRole}]
    /\ session \in [Sessions -> SessionRow]
    /\ reset \in [Tokens -> ResetRow]
    /\ invitation \in [Tokens -> InvitationRow]
    /\ throttle \in [Emails -> ThrottleRow]
    /\ call \in [Requests -> Call]
    /\ pc \in [Requests -> Labels \cup Answers]
    /\ view \in [Requests -> View]
    /\ sent \in [Requests -> [sessions: SUBSET Sessions, tokens: SUBSET Tokens,
                              answered: SUBSET Requests]]
    /\ failed \in [Emails -> Nat]

Init ==
    /\ \E sc \in Scenarios :
          LET d == sc.database
          IN  /\ call = sc.call
              /\ users = d.users /\ password = d.password /\ role = d.role
              /\ session = d.session /\ reset = d.reset /\ invitation = d.invitation
              /\ throttle = d.throttle
              /\ failed = [e \in Emails |-> d.throttle[e].failures]
    /\ pc = [r \in Requests |-> "idle"]
    /\ view = [r \in Requests |-> NothingSeen]
    /\ sent = [r \in Requests |-> NothingSent]

-----------------------------------------------------------------------------
At(r, op, label) == call[r].op = op /\ pc[r] = label

Goto(r, label)   == pc' = [pc EXCEPT ![r] = label]
Answer(r, label) == Goto(r, label) /\ view' = [view EXCEPT ![r] = NothingSeen]
Answered(r)      == pc[r] \in Answers

Send(r) ==
    /\ pc[r] = "idle"
    /\ Goto(r, "sent")
    /\ sent' = [sent EXCEPT ![r] = [sessions |-> {s \in Sessions : session[s].status # "absent"},
                                    tokens   |-> {t \in Tokens : reset[t].status # "absent"},
                                    answered |-> {q \in Requests : Answered(q)}]]
    /\ UNCHANGED <<tables, view, call, failed>>

OpenSessions(e) == {s \in Sessions : session[s].user = e /\ session[s].status = "open"}

\* UPDATE auth_sessions SET revoked_at
Revoked(some) == [s \in Sessions |-> IF s \in some THEN [session[s] EXCEPT !.status = "revoked"]
                                                   ELSE session[s]]

\* verify_password.  Only the password that was hashed matches.
Matches(e, given) == password[e] = given

\* issue_session
Opened(r, e) == [session EXCEPT ![r] = [user |-> e, status |-> "open", seen |-> "fresh"]]

-----------------------------------------------------------------------------
(* authenticated_user: the SELECT of the session, then that of the           *)
(* credential and what is written about the session.                         *)

Authenticate(r) ==
    /\ call[r].op \in Bearer /\ pc[r] = "sent"
    /\ LET own == session[call[r].session]
       IN  IF own.status = "open" /\ own.seen # "expired"
           THEN Goto(r, "enter") /\ view' = [view EXCEPT ![r].session = own]
           ELSE Answer(r, "unauthorized")
    /\ UNCHANGED <<tables, history>>

IdleOut(r) ==
    /\ pc[r] = "enter"
    /\ view[r].session.seen = "idle"
    /\ session' = Revoked({call[r].session})
    /\ Answer(r, "unauthorized")
    /\ UNCHANGED <<people, secrets, throttle, history>>

\* (with a bug: the row is written back as it was read)
TouchedWholeRow(seen, now) == [seen EXCEPT !.seen = "fresh"]

\* Only last_seen_at is written.
Touched(seen, now) == IF now.seen = "expired" THEN now ELSE [now EXCEPT !.seen = "fresh"]

Enter(r) ==
    /\ pc[r] = "enter"
    /\ view[r].session.seen # "idle"
    /\ IF password[view[r].session.user] = NoPassword
       THEN Answer(r, "unauthorized") /\ UNCHANGED session
       ELSE /\ Goto(r, "entered") /\ UNCHANGED view
            /\ session' = IF view[r].session.seen = "due"
                          THEN [session EXCEPT ![call[r].session] =
                                  Touched(view[r].session, session[call[r].session])]
                          ELSE session
    /\ UNCHANGED <<people, secrets, throttle, history>>

Me(r) == view[r].session.user

Logout(r) ==
    /\ At(r, "logout", "entered")
    /\ session' = Revoked({call[r].session})
    /\ Answer(r, "ok")
    /\ UNCHANGED <<people, secrets, throttle, history>>

\* revoke_session: any one of one's own
Revoke(r) ==
    /\ At(r, "revoke", "entered")
    /\ IF session[call[r].other].status # "absent" /\ session[call[r].other].user = Me(r)
       THEN session' = Revoked({call[r].other}) /\ Answer(r, "ok")
       ELSE UNCHANGED session /\ Answer(r, "missing")
    /\ UNCHANGED <<people, secrets, throttle, history>>

\* logout_all and change_password look for the sessions to close ...
LookForSessions(r) ==
    /\ call[r].op \in {"logoutAll", "change"} /\ pc[r] = "entered"
    /\ IF call[r].op = "change" /\ ~ Matches(Me(r), call[r].password)
       THEN Answer(r, "unauthorized")
       ELSE /\ Goto(r, "close")
            /\ view' = [view EXCEPT ![r].sessions = OpenSessions(Me(r)) \
                          (IF call[r].op = "change" THEN {call[r].session} ELSE {})]
    /\ UNCHANGED <<tables, history>>

\* ... and close them.
LogoutAll(r) ==
    /\ At(r, "logoutAll", "close")
    /\ session' = Revoked(view[r].sessions)
    /\ Answer(r, "ok")
    /\ UNCHANGED <<people, secrets, throttle, history>>

ChangePassword(r) ==
    /\ At(r, "change", "close")
    /\ password' = [password EXCEPT ![Me(r)] = call[r].new]
    /\ session' = Revoked(view[r].sessions)
    /\ Answer(r, "ok")
    /\ UNCHANGED <<users, role, secrets, throttle, history>>

-----------------------------------------------------------------------------
(* register_school and create_user.  Who registers founds another school.    *)

Register(r) ==
    /\ At(r, "register", "sent")
    /\ IF call[r].email \in users THEN Answer(r, "conflict")
                                  ELSE Goto(r, "create") /\ UNCHANGED view
    /\ UNCHANGED <<tables, history>>

\* The INSERT of a user that has come into being meanwhile is an uncaught
\* IntegrityError: it is flushed before the try.
CreateAccount(r) ==
    /\ At(r, "register", "create")
    /\ IF call[r].email \in users
       THEN Answer(r, "failed") /\ UNCHANGED <<people, session>>
       ELSE /\ users' = users \cup {call[r].email}
            /\ password' = [password EXCEPT ![call[r].email] = call[r].password]
            /\ session' = Opened(r, call[r].email)
            /\ Answer(r, "ok") /\ UNCHANGED role
    /\ UNCHANGED <<secrets, throttle, history>>

CreateUser(r) ==
    /\ At(r, "createUser", "sent")
    /\ Answer(r, IF call[r].email \in users THEN "conflict" ELSE "ok")
    /\ users' = users \cup {call[r].email}
    /\ UNCHANGED <<password, role, session, secrets, throttle, history>>

-----------------------------------------------------------------------------
(* login, with check_login_allowed, register_login_failure and               *)
(* clear_login_failures                                                      *)

Login(r) ==
    /\ At(r, "login", "sent")
    /\ IF throttle[call[r].email].blocked = "future"
       THEN Answer(r, "throttled")
       ELSE Goto(r, "verify") /\ UNCHANGED view
    /\ UNCHANGED <<tables, history>>

\* The throttle row is read again: the session keeps no row nobody refers to.
Verify(r) ==
    /\ At(r, "login", "verify")
    /\ view' = [view EXCEPT ![r].throttle = throttle[call[r].email]]
    /\ Goto(r, IF Matches(call[r].email, call[r].password) THEN "open" ELSE "count")
    /\ UNCHANGED <<tables, history>>

\* (with a bug: one failure counts twice)
CountedTwice(seen) ==
    LET n == IF seen.over THEN 1 ELSE seen.failures + 2
    IN  [failures |-> n, over |-> FALSE,
         blocked |-> IF n >= MaxFailures THEN "future"
                     ELSE IF n = 1 THEN "never" ELSE seen.blocked]

\* The row as the handler leaves it.
Counted(seen) ==
    LET n == IF seen.over THEN 1 ELSE seen.failures + 1
    IN  [failures |-> n, over |-> FALSE,
         blocked |-> IF n >= MaxFailures THEN "future"
                     ELSE IF n = 1 THEN "never" ELSE seen.blocked]

\* The columns of the row that get written.  A new blocked_until is always a change.
Written(seen, new, now) ==
    [failures |-> IF new.failures = seen.failures THEN now.failures ELSE new.failures,
     over     |-> IF seen.over THEN FALSE ELSE now.over,
     blocked  |-> IF new.blocked = seen.blocked /\ new.blocked # "future"
                  THEN now.blocked ELSE new.blocked]

\* An INSERT where another failure has come first, and an UPDATE of a row that
\* a login has deleted, are errors nobody catches.
CountFailure(r) ==
    LET e == call[r].email
        seen == view[r].throttle
        new == Counted(seen)
    IN  /\ At(r, "login", "count")
        /\ IF (seen = NoRow) # (throttle[e] = NoRow)
           THEN Answer(r, "failed") /\ UNCHANGED <<throttle, failed>>
           ELSE /\ throttle' = [throttle EXCEPT ![e] =
                                  IF seen = NoRow THEN new ELSE Written(seen, new, @)]
                /\ failed' = [failed EXCEPT ![e] = @ + 1]
                /\ Answer(r, "unauthorized")
        /\ UNCHANGED <<people, session, secrets, call, sent>>

\* clear_login_failures
Cleared(r) == IF view[r].throttle = NoRow THEN throttle
              ELSE [throttle EXCEPT ![call[r].email] = NoRow]

OpenSession(r) ==
    /\ At(r, "login", "open")
    /\ throttle' = Cleared(r)
    /\ session' = Opened(r, call[r].email)
    /\ Answer(r, "ok")
    /\ UNCHANGED <<people, secrets, history>>

-----------------------------------------------------------------------------
(* Row locks: confirm_password_reset and accept_invitation SELECT their      *)
(* token FOR UPDATE.                                                         *)

\* (with a bug: a lost connection keeps its locks)
ConfirmingWhenLost(r) ==
    call[r].op = "confirm" /\ pc[r] \in {"locked", "tokens", "confirm", "lost"}

Confirming(r) == call[r].op = "confirm" /\ pc[r] \in {"locked", "tokens", "confirm"}
Accepting(r)  == call[r].op = "accept" /\ pc[r] \in {"review", "accept"}

\* The rows that the next statement of r locks or writes.
WantsResets(r) ==
    IF At(r, "confirm", "sent") THEN {call[r].token}
    ELSE IF pc[r] \in {"replace", "confirm"} THEN view[r].tokens ELSE {}

\* (with a bug: SELECT without FOR UPDATE)
NeverWaits(r, q) == FALSE

WaitsFor(r, q) ==
    /\ r # q
    /\ \/ Confirming(q) /\ call[q].token \in WantsResets(r)
       \/ Accepting(q) /\ At(r, "accept", "sent") /\ call[q].token = call[r].token

Waits(r) == \E q \in Requests : WaitsFor(r, q)

\* While r waits it may already have written a token that q wants too.
MayDeadlock(r, q) ==
    /\ WaitsFor(r, q)
    /\ pc[r] \in {"replace", "confirm"} /\ pc[q] = "confirm"
    /\ WaitsFor(q, r) \/ view[r].tokens \cap view[q].tokens # {}

\* deadlock_detected is an OperationalError: nobody catches it.
DeadlockVictim(r) ==
    /\ \E q \in Requests : MayDeadlock(r, q) \/ MayDeadlock(q, r)
    /\ Answer(r, "failed")
    /\ UNCHANGED <<tables, history>>

-----------------------------------------------------------------------------
(* request_password_reset                                                    *)

Unused(e) == {t \in Tokens : reset[t].user = e /\ reset[t].status \in {"usable", "expired"}}

Used(some) == [t \in Tokens |-> IF t \in some THEN [reset[t] EXCEPT !.status = "used"] ELSE reset[t]]

RequestReset(r) ==
    /\ At(r, "resetRequest", "sent")
    /\ IF password[call[r].email] = NoPassword
       THEN Answer(r, "ok")
       ELSE /\ Goto(r, "replace")
            /\ view' = [view EXCEPT ![r].tokens = Unused(call[r].email)]
    /\ UNCHANGED <<tables, history>>

\* (with a bug: the tokens sent before stay usable)
ReplaceNoTokens(r) ==
    /\ At(r, "resetRequest", "replace")
    /\ ~ Waits(r)
    /\ reset' = [reset EXCEPT ![r] = [user |-> call[r].email, status |-> "usable"]]
    /\ Answer(r, "ok")
    /\ UNCHANGED <<people, session, invitation, throttle, history>>

ReplaceTokens(r) ==
    /\ At(r, "resetRequest", "replace")
    /\ ~ Waits(r)
    /\ reset' = [Used(view[r].tokens) EXCEPT ![r] = [user |-> call[r].email, status |-> "usable"]]
    /\ Answer(r, "ok")
    /\ UNCHANGED <<people, session, invitation, throttle, history>>

-----------------------------------------------------------------------------
(* confirm_password_reset                                                    *)

Owner(r) == reset[call[r].token].user

LockToken(r) ==
    /\ At(r, "confirm", "sent")
    /\ ~ Waits(r)
    /\ IF reset[call[r].token].status = "usable" /\ password[Owner(r)] # NoPassword
       THEN Goto(r, "locked") /\ UNCHANGED view
       ELSE Answer(r, "invalid")
    /\ UNCHANGED <<tables, history>>

ReadTokens(r) ==
    /\ At(r, "confirm", "locked")
    /\ view' = [view EXCEPT ![r].tokens = Unused(Owner(r)) \ {call[r].token}]
    /\ Goto(r, "tokens")
    /\ UNCHANGED <<tables, history>>

ReadSessions(r) ==
    /\ At(r, "confirm", "tokens")
    /\ view' = [view EXCEPT ![r].sessions = OpenSessions(Owner(r))]
    /\ Goto(r, "confirm")
    /\ UNCHANGED <<tables, history>>

\* (with a bug: the sessions are left open)
ConfirmLeavingSessions(r) ==
    /\ At(r, "confirm", "confirm")
    /\ ~ Waits(r)
    /\ password' = [password EXCEPT ![Owner(r)] = call[r].new]
    /\ reset' = Used(view[r].tokens \cup {call[r].token})
    /\ Answer(r, "ok")
    /\ UNCHANGED <<users, role, session, invitation, throttle, history>>

\* (with a bug: the new password is not written)
ConfirmWithoutPassword(r) ==
    /\ At(r, "confirm", "confirm")
    /\ ~ Waits(r)
    /\ reset' = Used(view[r].tokens \cup {call[r].token})
    /\ session' = Revoked(view[r].sessions)
    /\ Answer(r, "ok")
    /\ UNCHANGED <<people, invitation, throttle, history>>

Confirm(r) ==
    /\ At(r, "confirm", "confirm")
    /\ ~ Waits(r)
    /\ password' = [password EXCEPT ![Owner(r)] = call[r].new]
    /\ reset' = Used(view[r].tokens \cup {call[r].token})
    /\ session' = Revoked(view[r].sessions)
    /\ Answer(r, "ok")
    /\ UNCHANGED <<users, role, invitation, throttle, history>>

-----------------------------------------------------------------------------
(* Administration: get_actor_context and require_admin, then                 *)
(* create_invitation or put_school_membership                                *)

Admit(r) ==
    /\ call[r].op \in {"invite", "putMembership"} /\ pc[r] = "entered"
    /\ IF role[Me(r)] = Admin THEN Goto(r, "admitted") /\ UNCHANGED view
                              ELSE Answer(r, "forbidden")
    /\ UNCHANGED <<tables, history>>

Invite(r) ==
    /\ At(r, "invite", "admitted")
    /\ invitation' = [invitation EXCEPT ![r] = [email |-> call[r].email, role |-> call[r].role,
                                                status |-> "open"]]
    /\ Answer(r, "ok")
    /\ UNCHANGED <<people, session, reset, throttle, history>>

ReadMembership(r) ==
    /\ At(r, "putMembership", "admitted")
    /\ IF call[r].email \in users
       THEN Goto(r, "assign") /\ view' = [view EXCEPT ![r].role = role[call[r].email]]
       ELSE Answer(r, "missing")
    /\ UNCHANGED <<tables, history>>

\* The INSERT of a membership that is there by now is an uncaught IntegrityError.
PutMembership(r) ==
    LET e == call[r].email
    IN  /\ At(r, "putMembership", "assign")
        /\ IF view[r].role = NoRole /\ role[e] # NoRole
           THEN Answer(r, "failed") /\ UNCHANGED role
           ELSE /\ role' = IF view[r].role = call[r].role THEN role
                           ELSE [role EXCEPT ![e] = call[r].role]
                /\ Answer(r, "ok")
        /\ UNCHANGED <<users, password, session, secrets, throttle, history>>

-----------------------------------------------------------------------------
(* accept_invitation                                                         *)

Invited(r) == invitation[call[r].token].email

LockInvitation(r) ==
    LET status == invitation[call[r].token].status
    IN  /\ At(r, "accept", "sent")
        /\ ~ Waits(r)
        /\ IF status = "open" THEN Goto(r, "review") /\ UNCHANGED view
           ELSE Answer(r, CASE status = "absent" -> "missing"
                            [] status = "accepted" -> "conflict"
                            [] status = "expired" -> "gone")
        /\ UNCHANGED <<tables, history>>

\* Who has an account shows it with its password, who has none sends a name for it.
Review(r) ==
    LET e == Invited(r)
    IN  /\ At(r, "accept", "review")
        /\ \/ e \notin users /\ Answer(r, "invalid")
           \/ /\ password[e] # NoPassword /\ ~ Matches(e, call[r].password)
              /\ Answer(r, "unauthorized")
           \/ /\ password[e] = NoPassword \/ Matches(e, call[r].password)
              /\ Goto(r, "accept")
              /\ view' = [view EXCEPT ![r].role = role[e],
                            ![r].account = IF e \notin users THEN "new"
                                           ELSE IF password[e] = NoPassword THEN "bare"
                                           ELSE "full"]
        /\ UNCHANGED <<tables, history>>

\* (with a bug: the rows are written whether or not they are there)
NothingCollides(r) == FALSE

\* What r read as missing and is going to insert is there by now.
Collides(r) ==
    \/ view[r].account = "new" /\ Invited(r) \in users
    \/ view[r].account = "bare" /\ password[Invited(r)] # NoPassword
    \/ view[r].role = NoRole /\ role[Invited(r)] # NoRole

Accept(r) ==
    LET e == Invited(r)
    IN  /\ At(r, "accept", "accept")
        /\ IF Collides(r)
           THEN Answer(r, "failed") /\ UNCHANGED <<people, session, invitation>>
           ELSE /\ users' = users \cup {e}
                /\ password' = IF view[r].account = "full" THEN password
                               ELSE [password EXCEPT ![e] = call[r].password]
                /\ role' = IF view[r].role # NoRole THEN role
                           ELSE [role EXCEPT ![e] = invitation[call[r].token].role]
                /\ invitation' = [invitation EXCEPT ![call[r].token].status = "accepted"]
                /\ session' = Opened(r, e)
                /\ Answer(r, "ok")
        /\ UNCHANGED <<reset, throttle, history>>

-----------------------------------------------------------------------------
(* A crash or a broken connection ends the request, its transaction and its  *)
(* locks.                                                                    *)
Die(r) ==
    /\ pc[r] \in Labels \ {"idle"}
    /\ Answer(r, "lost")
    /\ UNCHANGED <<tables, history>>

(* Time passes: a session becomes due for a touch, idle, expired ...  Bound:  *)
(* only where a request is still going to look.                              *)
Brings(ops, t) == \E r \in Requests : /\ call[r].op \in ops /\ pc[r] \in {"idle", "sent", "enter"}
                                      /\ t = IF ops = Bearer THEN call[r].session ELSE call[r].token

Age(s) ==
    /\ session[s].status = "open"
    /\ Brings(Bearer, s)
    /\ \E later \in CASE session[s].seen = "fresh" -> {"due", "expired"}
                       [] session[s].seen = "due"   -> {"idle", "expired"}
                       [] session[s].seen = "idle"  -> {"expired"}
                       [] OTHER -> {} :
          session' = [session EXCEPT ![s].seen = later]
    /\ UNCHANGED <<people, secrets, throttle, pc, view, history>>

ExpireReset(t) ==
    /\ reset[t].status = "usable"
    /\ Brings({"confirm"}, t)
    /\ reset' = [reset EXCEPT ![t].status = "expired"]
    /\ UNCHANGED <<people, session, invitation, throttle, pc, view, history>>

ExpireInvitation(t) ==
    /\ invitation[t].status = "open"
    /\ Brings({"accept"}, t)
    /\ invitation' = [invitation EXCEPT ![t].status = "expired"]
    /\ UNCHANGED <<people, session, reset, throttle, pc, view, history>>

\* ... a block ends, a window of failures is over.
EndBlock(e) ==
    /\ throttle[e].blocked = "future"
    /\ throttle' = [throttle EXCEPT ![e].blocked = "past"]
    /\ UNCHANGED <<people, session, secrets, pc, view, history>>

EndWindow(e) ==
    /\ throttle[e] # NoRow /\ ~ throttle[e].over
    /\ throttle' = [throttle EXCEPT ![e].over = TRUE]
    /\ UNCHANGED <<people, session, secrets, pc, view, history>>

-----------------------------------------------------------------------------
Handle(r) ==
    \/ Authenticate(r) \/ IdleOut(r) \/ Enter(r)
    \/ Logout(r) \/ Revoke(r) \/ LookForSessions(r) \/ LogoutAll(r) \/ ChangePassword(r)
    \/ Register(r) \/ CreateAccount(r) \/ CreateUser(r)
    \/ Login(r) \/ Verify(r) \/ CountFailure(r) \/ OpenSession(r)
    \/ RequestReset(r) \/ ReplaceTokens(r)
    \/ LockToken(r) \/ ReadTokens(r) \/ ReadSessions(r) \/ Confirm(r) \/ DeadlockVictim(r)
    \/ Admit(r) \/ Invite(r) \/ ReadMembership(r) \/ PutMembership(r)
    \/ LockInvitation(r) \/ Review(r) \/ Accept(r)

Next ==
    \/ \E r \in Requests : Send(r) \/ Handle(r) \/ Die(r)
    \/ \E s \in Sessions : Age(s)
    \/ \E t \in Tokens : ExpireReset(t) \/ ExpireInvitation(t)
    \/ \E e \in Emails : EndBlock(e) \/ EndWindow(e)

Spec == Init /\ [][Next]_vars

\* A handler waits for nothing but a row lock, and PostgreSQL looks for
\* deadlocks after deadlock_timeout: as long as some request can go on, one does.
FairSpec == Spec /\ WF_vars(\E r \in Requests : Handle(r))

-----------------------------------------------------------------------------
\* Whose account a request that was answered ok is about.
Subject(r) == CASE call[r].op = "confirm" -> Owner(r)
                [] call[r].op \in Bearer  -> session[call[r].session].user
                [] OTHER                  -> call[r].email

Done(r, ops) == pc[r] = "ok" /\ call[r].op \in ops

\* A reset token sets a password once and an invitation is accepted once,
\* however many requests bring it at the same time.
TokensWorkOnce ==
    \A r, q \in Requests :
        /\ Done(r, {"confirm"}) /\ Done(q, {"confirm"}) /\ call[r].token = call[q].token => r = q
        /\ Done(r, {"accept"}) /\ Done(q, {"accept"}) /\ call[r].token = call[q].token => r = q

\* After a new token has been asked for, and after a reset, no token works that
\* there was when the request was sent.
OldTokensAreDead ==
    \A r \in Requests : Done(r, {"resetRequest", "confirm"}) =>
        \A t \in sent[r].tokens : reset[t].user = Subject(r) => reset[t].status # "usable"

\* After a reset, a change of the password or a logout everywhere, no session
\* is open that there was when the request was sent, whatever requests were
\* touching or idling it meanwhile; only a change keeps its own.
OldSessionsAreGone ==
    \A r \in Requests : Done(r, {"confirm", "change", "logoutAll"}) =>
        \A s \in sent[r].sessions :
            session[s].user = Subject(r) /\ ~ (call[r].op = "change" /\ s = call[r].session)
                => session[s].status # "open"

\* No step of another request opens a closed session again.
RevokedForGood ==
    [][\A s \in Sessions : session[s].status = "revoked" => session'[s].status = "revoked"]_vars

\* A login that is sent after a password was set succeeds only with that
\* password, or with one that was set next to it or later.
LoginsKnowTheLastPassword ==
    \A q, r \in Requests :
        /\ Done(q, {"login"}) /\ Done(r, {"confirm", "change"})
        /\ r \in sent[q].answered /\ Subject(r) = call[q].email
        => \E p \in Requests : /\ Done(p, {"confirm", "change"}) /\ Subject(p) = call[q].email
                               /\ p \notin sent[r].answered
                               /\ call[p].new = call[q].password

\* To accept an invitation, next to whatever else happens to the account,
\* never replaces the password or the role it has.
AcceptKeepsAccount ==
    [][\A r \in Requests : call[r].op = "accept" /\ pc[r] # "ok" /\ pc'[r] = "ok" =>
        /\ password[Invited(r)] \in {NoPassword, password'[Invited(r)]}
        /\ role[Invited(r)] \in {NoRole, role'[Invited(r)]}]_vars

\* Logins are refused with 429 only after so many of them were answered 401,
\* though the counter is read and written in different steps.
ThrottledOnlyAfterFailures ==
    \A r \in Requests : pc[r] = "throttled" => failed[call[r].email] >= MaxFailures

\* Every request that is sent is answered or lost, though requests for one
\* token wait for each other: time and again none is under way.
EveryRequestIsAnswered == []<>(\A r \in Requests : pc[r] = "idle" \/ Answered(r))
=============================================================================
