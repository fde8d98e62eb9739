---------------------------- MODULE AccountsProofs ----------------------------
(* The accounts, proved for any people, requests, tables to start from and   *)
(* number of failures a login throttle allows.                               *)
EXTENDS Accounts, TLAPS

\* Rows and views are what the types say.
LEMMA RevokedIsTyped ==
    ASSUME TypeOK, NEW some PROVE Revoked(some) \in [Sessions -> SessionRow]
  BY DEF TypeOK, Revoked, SessionRow

LEMMA OpenedIsTyped ==
    ASSUME TypeOK, NEW r \in Requests, NEW e \in Emails
    PROVE  Opened(r, e) \in [Sessions -> SessionRow]
<1>1. [user |-> e, status |-> "open", seen |-> "fresh"] \in SessionRow
    BY DEF SessionRow
<1> QED
    BY <1>1 DEF TypeOK, Opened, Sessions

LEMMA UsedIsTyped ==
    ASSUME TypeOK, NEW some PROVE Used(some) \in [Tokens -> ResetRow]
  BY DEF TypeOK, Used, ResetRow

LEMMA CallIsTyped ==
    ASSUME TypeOK, NEW r \in Requests
    PROVE  /\ call[r].op \in Ops /\ call[r].email \in Emails /\ call[r].role \in Roles
           /\ call[r].password \in Passwords /\ call[r].new \in Passwords
           /\ call[r].session \in Sessions /\ call[r].other \in Sessions
           /\ call[r].token \in Tokens
  BY DEF TypeOK, Call

LEMMA NothingSeenIsTyped ==
    ASSUME NEW e \in Emails PROVE NothingSeen \in View
<1>1. (CHOOSE x \in Emails : TRUE) \in Emails
    OBVIOUS
<1>2. NoRow \in ThrottleRow
    BY DEF NoRow, ThrottleRow
<1>3. [user |-> CHOOSE x \in Emails : TRUE, status |-> "absent", seen |-> "fresh"] \in SessionRow
    BY <1>1 DEF SessionRow
<1> QED
    BY <1>2, <1>3 DEF NothingSeen, View

\* What a step of a request does to pc and view.
LEMMA AnswerIsTyped ==
    ASSUME TypeOK, NEW r \in Requests, NEW label \in Answers, Answer(r, label)
    PROVE  pc' \in [Requests -> Labels \cup Answers] /\ view' \in [Requests -> View]
<1>1. NothingSeen \in View
    BY CallIsTyped, NothingSeenIsTyped
<1> QED
    BY <1>1 DEF TypeOK, Answer, Goto

LEMMA GotoIsTyped ==
    ASSUME TypeOK, NEW r \in Requests, NEW label \in Labels, Goto(r, label)
    PROVE  pc' \in [Requests -> Labels \cup Answers]
  BY DEF TypeOK, Goto

LEMMA ViewIsTyped ==
    ASSUME TypeOK, NEW r \in Requests
    PROVE  /\ view[r] \in View
           /\ view[r].session \in SessionRow /\ view[r].throttle \in ThrottleRow
           /\ view[r].session.user \in Emails
<1>1. view[r] \in View
    BY DEF TypeOK
<1> QED
    BY <1>1 DEF View, SessionRow

\* A step that notes a row it has read.
LEMMA NotedIsTyped ==
    ASSUME TypeOK, NEW r \in Requests,
           \/ \E x \in SessionRow : view' = [view EXCEPT ![r] = [@ EXCEPT !.session = x]]
           \/ \E x \in SUBSET Sessions : view' = [view EXCEPT ![r] = [@ EXCEPT !.sessions = x]]
           \/ \E x \in SUBSET Tokens : view' = [view EXCEPT ![r] = [@ EXCEPT !.tokens = x]]
           \/ \E x \in ThrottleRow : view' = [view EXCEPT ![r] = [@ EXCEPT !.throttle = x]]
           \/ \E x \in Roles \cup {NoRole} : view' = [view EXCEPT ![r] = [@ EXCEPT !.role = x]]
           \/ view' = view
    PROVE  view' \in [Requests -> View]
<1>1. view[r] \in View
    BY DEF TypeOK
<1>2. \A x \in SessionRow : [view[r] EXCEPT !.session = x] \in View
    BY <1>1 DEF View
<1>3. \A x \in SUBSET Sessions : [view[r] EXCEPT !.sessions = x] \in View
    BY <1>1 DEF View
<1>4. \A x \in SUBSET Tokens : [view[r] EXCEPT !.tokens = x] \in View
    BY <1>1 DEF View
<1>5. \A x \in ThrottleRow : [view[r] EXCEPT !.throttle = x] \in View
    BY <1>1 DEF View
<1>6. \A x \in Roles \cup {NoRole} : [view[r] EXCEPT !.role = x] \in View
    BY <1>1 DEF View
<1> QED
    BY <1>2, <1>3, <1>4, <1>5, <1>6 DEF TypeOK

LEMMA InitTyped == Init => TypeOK
<1> SUFFICES ASSUME Init PROVE TypeOK
    OBVIOUS
<1>1. PICK sc \in Scenarios :
         /\ call = sc.call
         /\ users = sc.database.users /\ password = sc.database.password
         /\ role = sc.database.role /\ session = sc.database.session
         /\ reset = sc.database.reset /\ invitation = sc.database.invitation
         /\ throttle = sc.database.throttle
         /\ failed = [e \in Emails |-> sc.database.throttle[e].failures]
    BY DEF Init
<1>2. sc.call \in [Requests -> Call] /\ sc.database \in Database
    BY AccountsAssumption
<1>3. \A e \in Emails : sc.database.throttle[e].failures \in Nat
    BY <1>2 DEF Database, ThrottleRow
<1>4. view \in [Requests -> View]
    BY <1>1, <1>2, NothingSeenIsTyped DEF Init, Call
<1>5. /\ pc \in [Requests -> Labels \cup Answers]
      /\ sent \in [Requests -> [sessions: SUBSET Sessions, tokens: SUBSET Tokens,
                                answered: SUBSET Requests]]
    BY DEF Init, NothingSent, Labels
<1>6. /\ users \subseteq Emails
      /\ password \in [Emails -> Passwords \cup {NoPassword}]
      /\ role \in [Emails -> Roles \cup {NoRole}]
      /\ session \in [Sessions -> SessionRow]
      /\ reset \in [Tokens -> ResetRow]
      /\ invitation \in [Tokens -> InvitationRow]
      /\ throttle \in [Emails -> ThrottleRow]
    BY <1>1, <1>2 DEF Database
<1> QED
    BY <1>1, <1>2, <1>3, <1>4, <1>5, <1>6 DEF TypeOK

\* The throttle row that a failed login writes.
LEMMA CountedIsTyped ==
    ASSUME NEW seen \in ThrottleRow, NEW now \in ThrottleRow
    PROVE  /\ Counted(seen) \in ThrottleRow
           /\ Written(seen, Counted(seen), now) \in ThrottleRow
<1>1. Counted(seen) \in ThrottleRow
    BY DEF Counted, ThrottleRow
<1> QED
    BY <1>1 DEF Written, ThrottleRow

LEMMA HandlersAreTyped == ASSUME TypeOK, NEW r \in Requests, Handle(r) PROVE TypeOK'
<1> USE CallIsTyped, ViewIsTyped
<1> DEFINE Tables == /\ users' \subseteq Emails
                     /\ password' \in [Emails -> Passwords \cup {NoPassword}]
                     /\ role' \in [Emails -> Roles \cup {NoRole}]
                     /\ session' \in [Sessions -> SessionRow]
                     /\ reset' \in [Tokens -> ResetRow]
                     /\ invitation' \in [Tokens -> InvitationRow]
                     /\ throttle' \in [Emails -> ThrottleRow]
           Places == /\ pc' \in [Requests -> Labels \cup Answers]
                     /\ view' \in [Requests -> View]
<1> USE DEF Tables, Places
<1>1. ASSUME UNCHANGED tables, UNCHANGED history, Places PROVE TypeOK'
    BY <1>1 DEF TypeOK, tables, history, people, secrets
<1>2. ASSUME UNCHANGED history, Tables, NEW label \in Answers, Answer(r, label) PROVE TypeOK'
    BY <1>2, AnswerIsTyped DEF TypeOK, history
<1>3. ASSUME Authenticate(r) PROVE TypeOK'
  <2>1. Places
    <3>1. session[call[r].session] \in SessionRow
        BY DEF TypeOK
    <3>2. CASE Goto(r, "enter") /\ view' = [view EXCEPT ![r].session = session[call[r].session]]
        BY <3>1, <3>2, NotedIsTyped, GotoIsTyped DEF Labels
    <3> QED
        BY <1>3, <3>2, AnswerIsTyped DEF Authenticate, Answers
  <2> QED
      BY <2>1, <1>1, <1>3 DEF Authenticate
<1>4. ASSUME IdleOut(r) PROVE TypeOK'
    BY <1>4, <1>2, RevokedIsTyped DEF IdleOut, Answers, TypeOK, people, secrets
<1>5. ASSUME Enter(r) PROVE TypeOK'
  <2>1. Places
      BY <1>5, AnswerIsTyped, GotoIsTyped DEF Enter, Labels, Answers, TypeOK
  <2>2. Touched(view[r].session, session[call[r].session]) \in SessionRow
    <3>1. \A x \in SessionRow : [x EXCEPT !.seen = "fresh"] \in SessionRow
        BY DEF SessionRow
    <3>2. session[call[r].session] \in SessionRow
        BY DEF TypeOK
    <3> QED
        BY <3>1, <3>2 DEF Touched
  <2>3. session' \in [Sessions -> SessionRow]
      BY <1>5, <2>2 DEF Enter, TypeOK
  <2> QED
      BY <1>5, <2>1, <2>3 DEF Enter, TypeOK, people, secrets, history
<1>6. ASSUME Logout(r) \/ Revoke(r) \/ LogoutAll(r) PROVE TypeOK'
  <2>1. session' \in [Sessions -> SessionRow]
      BY <1>6, RevokedIsTyped DEF Logout, Revoke, LogoutAll, TypeOK
  <2> QED
      BY <1>6, <2>1, <1>2 DEF Logout, Revoke, LogoutAll, Answers, TypeOK, people, secrets
<1>7. ASSUME LookForSessions(r) PROVE TypeOK'
  <2>1. Places
    <3>1. ASSUME NEW x, x \subseteq Sessions, Goto(r, "close"),
                 view' = [view EXCEPT ![r].sessions = x]
          PROVE  Places
        BY <3>1, NotedIsTyped, GotoIsTyped DEF Labels
    <3>2. (OpenSessions(Me(r)) \ (IF call[r].op = "change" THEN {call[r].session} ELSE {}))
             \subseteq Sessions
        BY DEF OpenSessions
    <3> QED
        BY <1>7, <3>1, <3>2, AnswerIsTyped DEF LookForSessions, Answers
  <2> QED
      BY <2>1, <1>1, <1>7 DEF LookForSessions
<1>8. ASSUME ChangePassword(r) PROVE TypeOK'
  <2>1. password' \in [Emails -> Passwords \cup {NoPassword}]
      BY <1>8 DEF ChangePassword, TypeOK, Me
  <2> QED
      BY <1>8, <2>1, <1>2, RevokedIsTyped DEF ChangePassword, Answers, TypeOK, secrets
<1>9. ASSUME Register(r) \/ Login(r) \/ LockToken(r) \/ Admit(r) PROVE TypeOK'
  <2>1. Places
      BY <1>9, AnswerIsTyped, GotoIsTyped
         DEF Register, Login, LockToken, Admit, Labels, Answers, TypeOK
  <2> QED
      BY <2>1, <1>1, <1>9 DEF Register, Login, LockToken, Admit
<1>10. ASSUME CreateAccount(r) \/ CreateUser(r) PROVE TypeOK'
  <2>1. Tables
    <3>1. CASE CreateUser(r)
        BY <3>1 DEF CreateUser, TypeOK, secrets
    <3>2. CASE CreateAccount(r)
      <4>1. users' \subseteq Emails /\ session' \in [Sessions -> SessionRow]
          BY <3>2, OpenedIsTyped DEF CreateAccount, TypeOK, people
      <4>2. password' \in [Emails -> Passwords \cup {NoPassword}]
            /\ role' \in [Emails -> Roles \cup {NoRole}]
          BY <3>2 DEF CreateAccount, TypeOK, people
      <4> QED
          BY <3>2, <4>1, <4>2 DEF CreateAccount, TypeOK, secrets
    <3> QED
        BY <1>10, <3>1, <3>2
  <2> QED
      BY <1>10, <2>1, <1>2 DEF CreateAccount, CreateUser, Answers
<1>11. ASSUME Verify(r) PROVE TypeOK'
  <2>1. throttle[call[r].email] \in ThrottleRow
      BY DEF TypeOK
  <2>2. Places
    <3>1. view' \in [Requests -> View]
        BY <1>11, <2>1, NotedIsTyped DEF Verify
    <3>2. pc' \in [Requests -> Labels \cup Answers]
        BY <1>11, GotoIsTyped DEF Verify, Labels
    <3> QED
        BY <3>1, <3>2
  <2> QED
      BY <2>2, <1>1, <1>11 DEF Verify
<1>12. ASSUME CountFailure(r) PROVE TypeOK'
  <2>1. throttle' \in [Emails -> ThrottleRow] /\ failed' \in [Emails -> Nat]
    <3>1. throttle[call[r].email] \in ThrottleRow
        BY DEF TypeOK
    <3>2. view[r].throttle \in ThrottleRow
        OBVIOUS
    <3>3. ASSUME NEW row \in ThrottleRow,
                 throttle' = [throttle EXCEPT ![call[r].email] = row],
                 failed' = [failed EXCEPT ![call[r].email] = @ + 1]
          PROVE  throttle' \in [Emails -> ThrottleRow] /\ failed' \in [Emails -> Nat]
        BY <3>3 DEF TypeOK
    <3>4. /\ Counted(view[r].throttle) \in ThrottleRow
          /\ Written(view[r].throttle, Counted(view[r].throttle), throttle[call[r].email])
                \in ThrottleRow
        BY <3>1, <3>2, CountedIsTyped
    <3>5. CASE UNCHANGED <<throttle, failed>>
        BY <3>5 DEF TypeOK
    <3>6. \/ UNCHANGED <<throttle, failed>>
          \/ /\ failed' = [failed EXCEPT ![call[r].email] = @ + 1]
             /\ \/ throttle' = [throttle EXCEPT ![call[r].email] = Counted(view[r].throttle)]
                \/ throttle' = [throttle EXCEPT ![call[r].email] =
                     Written(view[r].throttle, Counted(view[r].throttle), throttle[call[r].email])]
        BY <1>12 DEF CountFailure, TypeOK
    <3> QED
        BY <3>3, <3>4, <3>5, <3>6
  <2>2. Places
      BY <1>12, AnswerIsTyped DEF CountFailure, Answers
  <2> QED
      BY <1>12, <2>1, <2>2 DEF CountFailure, TypeOK, people, secrets
<1>13. ASSUME OpenSession(r) PROVE TypeOK'
  <2>1. throttle' \in [Emails -> ThrottleRow]
      BY <1>13 DEF OpenSession, Cleared, TypeOK, NoRow, ThrottleRow
  <2> QED
      BY <1>13, <2>1, <1>2, OpenedIsTyped DEF OpenSession, Answers, TypeOK, people, secrets
<1>14. ASSUME RequestReset(r) PROVE TypeOK'
  <2>1. Places
    <3>1. Unused(call[r].email) \subseteq Tokens
        BY DEF Unused
    <3>2. CASE Goto(r, "replace") /\ view' = [view EXCEPT ![r].tokens = Unused(call[r].email)]
        BY <3>1, <3>2, NotedIsTyped, GotoIsTyped DEF Labels
    <3> QED
        BY <1>14, <3>2, AnswerIsTyped DEF RequestReset, Answers
  <2> QED
      BY <2>1, <1>1, <1>14 DEF RequestReset
<1>15. ASSUME ReplaceTokens(r) PROVE TypeOK'
  <2>1. [user |-> call[r].email, status |-> "usable"] \in ResetRow
      BY DEF ResetRow
  <2>2. reset' \in [Tokens -> ResetRow]
      BY <1>15, <2>1, UsedIsTyped DEF ReplaceTokens
  <2> QED
      BY <1>15, <2>2, <1>2 DEF ReplaceTokens, Answers, TypeOK, people
<1>16. ASSUME ReadTokens(r) \/ ReadSessions(r) PROVE TypeOK'
  <2>1. Places
    <3>1. (Unused(Owner(r)) \ {call[r].token}) \subseteq Tokens
          /\ OpenSessions(Owner(r)) \subseteq Sessions
        BY DEF Unused, OpenSessions
    <3>2. CASE ReadTokens(r)
        BY <3>1, <3>2, NotedIsTyped, GotoIsTyped DEF ReadTokens, Labels
    <3>3. CASE ReadSessions(r)
        BY <3>1, <3>3, NotedIsTyped, GotoIsTyped DEF ReadSessions, Labels
    <3> QED
        BY <1>16, <3>2, <3>3
  <2> QED
      BY <2>1, <1>1, <1>16 DEF ReadTokens, ReadSessions
<1>17. ASSUME Confirm(r) PROVE TypeOK'
  <2>1. Owner(r) \in Emails
      BY DEF Owner, TypeOK, ResetRow
  <2>2. password' \in [Emails -> Passwords \cup {NoPassword}]
      BY <1>17, <2>1 DEF Confirm, TypeOK
  <2> QED
      BY <1>17, <2>2, <1>2, UsedIsTyped, RevokedIsTyped DEF Confirm, Answers, TypeOK
<1>18. ASSUME DeadlockVictim(r) PROVE TypeOK'
    BY <1>18, <1>1, AnswerIsTyped DEF DeadlockVictim, Answers
<1>19. ASSUME Invite(r) PROVE TypeOK'
  <2>1. [email |-> call[r].email, role |-> call[r].role, status |-> "open"] \in InvitationRow
      BY DEF InvitationRow
  <2>2. invitation' \in [Tokens -> InvitationRow]
      BY <1>19, <2>1 DEF Invite, TypeOK
  <2> QED
      BY <1>19, <2>2, <1>2 DEF Invite, Answers, TypeOK, people
<1>20. ASSUME ReadMembership(r) PROVE TypeOK'
  <2>1. role[call[r].email] \in Roles \cup {NoRole}
      BY DEF TypeOK
  <2>2. Places
    <3>1. CASE Goto(r, "assign") /\ view' = [view EXCEPT ![r].role = role[call[r].email]]
        BY <2>1, <3>1, NotedIsTyped, GotoIsTyped DEF Labels
    <3> QED
        BY <1>20, <3>1, AnswerIsTyped DEF ReadMembership, Answers
  <2> QED
      BY <2>2, <1>1, <1>20 DEF ReadMembership
<1>21. ASSUME PutMembership(r) PROVE TypeOK'
  <2>1. role' \in [Emails -> Roles \cup {NoRole}]
      BY <1>21 DEF PutMembership, TypeOK
  <2> QED
      BY <1>21, <2>1, <1>2 DEF PutMembership, Answers, TypeOK, secrets
<1>22. ASSUME LockInvitation(r) PROVE TypeOK'
  <2>1. invitation[call[r].token].status \in {"absent", "open", "expired", "accepted"}
      BY DEF TypeOK, InvitationRow
  <2>2. Places
      BY <1>22, <2>1, AnswerIsTyped, GotoIsTyped DEF LockInvitation, Labels, Answers, TypeOK
  <2> QED
      BY <2>2, <1>1, <1>22 DEF LockInvitation
<1>23. ASSUME Review(r) PROVE TypeOK'
  <2>1. Invited(r) \in Emails
      BY DEF Invited, TypeOK, InvitationRow
  <2>2. ASSUME NEW x \in Roles \cup {NoRole}, NEW y \in {"new", "bare", "full"},
               view' = [view EXCEPT ![r].role = x, ![r].account = y]
        PROVE  view' \in [Requests -> View]
    <3>1. view[r] \in View
        OBVIOUS
    <3>2. [view[r] EXCEPT !.role = x, !.account = y] \in View
        BY <3>1 DEF View
    <3>3. view' = [view EXCEPT ![r] = [view[r] EXCEPT !.role = x, !.account = y]]
        BY <2>2 DEF TypeOK
    <3> QED
        BY <3>2, <3>3 DEF TypeOK
  <2>3. role[Invited(r)] \in Roles \cup {NoRole}
      BY <2>1 DEF TypeOK
  <2>4. Places
    <3>1. CASE /\ Goto(r, "accept")
               /\ \E y \in {"new", "bare", "full"} :
                     view' = [view EXCEPT ![r].role = role[Invited(r)], ![r].account = y]
        BY <3>1, <2>2, <2>3, GotoIsTyped DEF Labels
    <3>2. Answer(r, "invalid") \/ Answer(r, "unauthorized") \/ <3>1!1
        BY <1>23 DEF Review
    <3> QED
        BY <3>1, <3>2, AnswerIsTyped DEF Answers
  <2> QED
      BY <2>4, <1>1, <1>23 DEF Review
<1>24. ASSUME Accept(r) PROVE TypeOK'
  <2>1. Invited(r) \in Emails /\ invitation[call[r].token].role \in Roles
      BY DEF Invited, TypeOK, InvitationRow
  <2>2. [invitation EXCEPT ![call[r].token].status = "accepted"] \in [Tokens -> InvitationRow]
    <3>1. \A x \in InvitationRow : [x EXCEPT !.status = "accepted"] \in InvitationRow
        BY DEF InvitationRow
    <3> QED
        BY <3>1 DEF TypeOK
  <2>3. users' \subseteq Emails /\ invitation' \in [Tokens -> InvitationRow]
        /\ session' \in [Sessions -> SessionRow]
    <3>1. session' = session \/ session' = Opened(r, Invited(r))
        BY <1>24 DEF Accept
    <3>2. invitation' = invitation \/ invitation' = [invitation EXCEPT ![call[r].token].status = "accepted"]
        BY <1>24 DEF Accept
    <3>3. users' = users \/ users' = users \cup {Invited(r)}
        BY <1>24 DEF Accept, people
    <3>4. Opened(r, Invited(r)) \in [Sessions -> SessionRow]
        BY <2>1, OpenedIsTyped
    <3>5. users' \subseteq Emails
        BY <3>3, <2>1 DEF TypeOK
    <3> QED
        BY <3>1, <3>2, <3>4, <3>5, <2>2 DEF TypeOK
  <2>4. password' \in [Emails -> Passwords \cup {NoPassword}] /\ role' \in [Emails -> Roles \cup {NoRole}]
      BY <1>24, <2>1 DEF Accept, TypeOK, people
  <2> QED
      BY <1>24, <2>3, <2>4, <1>2 DEF Accept, Answers, TypeOK
<1> QED
    BY <1>3, <1>4, <1>5, <1>6, <1>7, <1>8, <1>9, <1>10, <1>11, <1>12, <1>13, <1>14, <1>15, <1>16,
       <1>17, <1>18, <1>19, <1>20, <1>21, <1>22, <1>23, <1>24 DEF Handle

LEMMA StepsAreTyped == TypeOK /\ [Next]_vars => TypeOK'
<1> SUFFICES ASSUME TypeOK, [Next]_vars PROVE TypeOK'
    OBVIOUS
<1>1. ASSUME NEW r \in Requests, Send(r) PROVE TypeOK'
    BY <1>1 DEF Send, Goto, TypeOK, Labels, tables, people, secrets
<1>2. ASSUME NEW r \in Requests, Die(r) PROVE TypeOK'
  <2>1. pc' \in [Requests -> Labels \cup Answers] /\ view' \in [Requests -> View]
      BY <1>2, AnswerIsTyped DEF Die, Answers
  <2> QED
      BY <1>2, <2>1 DEF Die, TypeOK, tables, people, secrets, history
<1>3. ASSUME NEW s \in Sessions, Age(s) PROVE TypeOK'
  <2>1. \A later \in {"due", "idle", "expired"} :
           [session EXCEPT ![s].seen = later] \in [Sessions -> SessionRow]
      BY DEF TypeOK, SessionRow
  <2>2. session' \in [Sessions -> SessionRow]
    <3>1. session[s].seen \in {"fresh", "due", "idle", "expired"}
        BY DEF TypeOK, SessionRow
    <3> QED
        BY <1>3, <2>1, <3>1 DEF Age
  <2> QED
      BY <1>3, <2>2 DEF Age, TypeOK, people, secrets, history
<1>4. ASSUME NEW t \in Tokens, ExpireReset(t) \/ ExpireInvitation(t) PROVE TypeOK'
  <2>1. [reset[t] EXCEPT !.status = "expired"] \in ResetRow
        /\ [invitation[t] EXCEPT !.status = "expired"] \in InvitationRow
    <3>1. reset[t] \in ResetRow /\ invitation[t] \in InvitationRow
        BY DEF TypeOK
    <3>2. [reset[t] EXCEPT !.status = "expired"] \in ResetRow
        BY <3>1 DEF ResetRow
    <3>3. [invitation[t] EXCEPT !.status = "expired"] \in InvitationRow
        BY <3>1 DEF InvitationRow
    <3> QED
        BY <3>2, <3>3
  <2>2. \/ reset' = reset
        \/ reset' = [reset EXCEPT ![t] = [reset[t] EXCEPT !.status = "expired"]]
      BY <1>4 DEF ExpireReset, ExpireInvitation, TypeOK
  <2>3. \/ invitation' = invitation
        \/ invitation' = [invitation EXCEPT ![t] = [invitation[t] EXCEPT !.status = "expired"]]
      BY <1>4 DEF ExpireReset, ExpireInvitation, TypeOK
  <2>4. reset' \in [Tokens -> ResetRow] /\ invitation' \in [Tokens -> InvitationRow]
      BY <2>1, <2>2, <2>3 DEF TypeOK
  <2> QED
      BY <1>4, <2>4 DEF ExpireReset, ExpireInvitation, TypeOK, people, history
<1>5. ASSUME NEW e \in Emails, EndBlock(e) \/ EndWindow(e) PROVE TypeOK'
  <2>1. [throttle[e] EXCEPT !.blocked = "past"] \in ThrottleRow
        /\ [throttle[e] EXCEPT !.over = TRUE] \in ThrottleRow
      BY DEF TypeOK, ThrottleRow
  <2>2. throttle' \in [Emails -> ThrottleRow]
    <3>1. \/ throttle' = [throttle EXCEPT ![e] = [throttle[e] EXCEPT !.blocked = "past"]]
          \/ throttle' = [throttle EXCEPT ![e] = [throttle[e] EXCEPT !.over = TRUE]]
        BY <1>5 DEF EndBlock, EndWindow, TypeOK
    <3> QED
        BY <2>1, <3>1 DEF TypeOK
  <2> QED
      BY <1>5, <2>2 DEF EndBlock, EndWindow, TypeOK, people, secrets, history
<1>6. CASE UNCHANGED vars
    BY <1>6 DEF vars, tables, people, secrets, history, TypeOK
<1> QED
    BY <1>1, <1>2, <1>3, <1>4, <1>5, <1>6, HandlersAreTyped DEF Next

\* Every reachable state of the account handlers is well typed.
THEOREM AccountsAreTyped == Spec => []TypeOK
  BY InitTyped, StepsAreTyped, PTL DEF Spec

-----------------------------------------------------------------------------
(* The inductive invariant: what a request that is under way, or was answered *)
(* ok, knows of the tables.                                                   *)

\* Which request can be where.
Place(r) ==
    /\ pc[r] \in {"enter", "entered"} => call[r].op \in Bearer
    /\ pc[r] = "close"                => call[r].op \in {"logoutAll", "change"}
    /\ pc[r] = "admitted"             => call[r].op \in {"invite", "putMembership"}
    /\ pc[r] = "assign"               => call[r].op = "putMembership"
    /\ pc[r] = "replace"              => call[r].op = "resetRequest"
    /\ pc[r] \in {"locked", "tokens", "confirm"} => call[r].op = "confirm"
    /\ pc[r] \in {"review", "accept"} => call[r].op = "accept"
    /\ pc[r] \in {"verify", "open", "count"} => call[r].op = "login"

\* The rows that are named by r are made by its last step.
Unmade(r) ==
    ~ Answered(r) => /\ session[r].status = "absent"
                     /\ reset[r].status = "absent"
                     /\ invitation[r].status = "absent"

InSession(r) == pc[r] \in {"enter", "entered", "close", "admitted", "assign"}

\* What r has read is still there, and what it has locked still counts.
Reads(r) ==
    /\ \A s \in view[r].sessions : session[s].status # "absent"
    /\ \A t \in view[r].tokens : reset[t].status # "absent"
    /\ InSession(r) \/ Done(r, Bearer) => session[call[r].session].status # "absent"
    /\ InSession(r) => /\ Me(r) = session[call[r].session].user
                       /\ pc[r] # "enter" => password[Me(r)] # NoPassword
    /\ pc[r] = "assign" => call[r].email \in users
    /\ pc[r] = "replace" => password[call[r].email] # NoPassword
    /\ Confirming(r) => /\ reset[call[r].token].status \in {"usable", "expired"}
                        /\ password[Owner(r)] # NoPassword
    /\ Done(r, {"confirm"}) => reset[call[r].token].status = "used"
    /\ Accepting(r) => invitation[call[r].token].status \in {"open", "expired"}
    /\ Done(r, {"accept"}) => invitation[call[r].token].status = "accepted"

\* What there was when r was sent is still there.
Sent(r) ==
    /\ \A s \in sent[r].sessions : session[s].status # "absent"
    /\ \A t \in sent[r].tokens : reset[t].status # "absent"
    /\ \A q \in sent[r].answered : Answered(q)

\* A token of before is known to who is going to use them up, or used already.
OldTokens(r) ==
    /\ pc[r] = "replace" => \A t \in sent[r].tokens :
          reset[t].user = call[r].email => t \in view[r].tokens \/ reset[t].status = "used"
    /\ pc[r] \in {"tokens", "confirm"} => \A t \in sent[r].tokens :
          reset[t].user = Owner(r) =>
             t = call[r].token \/ t \in view[r].tokens \/ reset[t].status = "used"
    /\ Done(r, {"resetRequest", "confirm"}) => \A t \in sent[r].tokens :
          reset[t].user = Subject(r) => reset[t].status # "usable"

\* So is a session of before to who is going to close them.
OldSessions(r) ==
    /\ pc[r] = "close" => \A s \in sent[r].sessions :
          session[s].user = Me(r) /\ ~ (call[r].op = "change" /\ s = call[r].session) =>
             s \in view[r].sessions \/ session[s].status = "revoked"
    /\ pc[r] = "confirm" => \A s \in sent[r].sessions :
          session[s].user = Owner(r) => s \in view[r].sessions \/ session[s].status = "revoked"
    /\ Done(r, {"confirm", "change", "logoutAll"}) => \A s \in sent[r].sessions :
          session[s].user = Subject(r) /\ ~ (call[r].op = "change" /\ s = call[r].session)
             => session[s].status # "open"

\* A row lock has one holder.
Locks ==
    \A r, q \in Requests : call[r].token = call[q].token =>
        /\ Confirming(r) /\ Confirming(q) => r = q
        /\ Accepting(r) /\ Accepting(q) => r = q

\* Passwords, memberships and usable tokens are users'.
People ==
    /\ \A e \in Emails : password[e] # NoPassword \/ role[e] # NoRole => e \in users
    /\ \A t \in Tokens : reset[t].status = "usable" => password[reset[t].user] # NoPassword

Knows(r) == Place(r) /\ Unmade(r) /\ Reads(r) /\ Sent(r) /\ OldTokens(r) /\ OldSessions(r)

IInv == TypeOK /\ Locks /\ People /\ \A r \in Requests : Knows(r)

-----------------------------------------------------------------------------
(* What no step undoes, but for the rows that are made by this very step.     *)

SessionsGrow(made) ==
    \A s \in Sessions :
        /\ session[s].status # "absent" => /\ session'[s].user = session[s].user
                                           /\ session'[s].status \in {session[s].status, "revoked"}
        /\ session[s].status = "absent" /\ s \notin made => session'[s].status = "absent"

ResetsGrow(made) ==
    \A t \in Tokens :
        /\ reset[t].status # "absent" => /\ reset'[t].user = reset[t].user
                                         /\ reset'[t].status # "absent"
                                         /\ reset'[t].status = "usable" => reset[t].status = "usable"
                                         /\ reset[t].status = "used" => reset'[t].status = "used"
        /\ reset[t].status = "absent" /\ t \notin made => reset'[t].status = "absent"

InvitationsGrow(made) ==
    \A t \in Tokens :
        /\ invitation[t].status = "accepted" => invitation'[t].status = "accepted"
        /\ invitation[t].status = "absent" /\ t \notin made => invitation'[t].status = "absent"

Grows(made) ==
    /\ SessionsGrow(made) /\ ResetsGrow(made) /\ InvitationsGrow(made)
    /\ \A e \in Emails : password[e] # NoPassword => password'[e] # NoPassword
    /\ users \subseteq users'
    /\ call' = call
    /\ \A q \in Requests : Answered(q) => pc'[q] = pc[q]

\* What a step leaves to a request q that it is not a step of.
Leaves(q) ==
    /\ pc'[q] = pc[q] /\ view'[q] = view[q] /\ sent'[q] = sent[q]
    /\ Confirming(q) => reset'[call[q].token].status \in {"usable", "expired"}
    /\ Accepting(q) => invitation'[call[q].token].status \in {"open", "expired"}

LEMMA SubjectIs ==
    ASSUME NEW r \in Requests
    PROVE  /\ call[r].op = "confirm" => Subject(r) = Owner(r)
           /\ call[r].op \in Bearer => Subject(r) = session[call[r].session].user
           /\ call[r].op = "resetRequest" => Subject(r) = call[r].email
  BY DEF Subject, Bearer

LEMMA SubjectIsNext ==
    ASSUME NEW r \in Requests
    PROVE  /\ call'[r].op = "confirm" => Subject(r)' = Owner(r)'
           /\ call'[r].op \in Bearer => Subject(r)' = session'[call'[r].session].user
           /\ call'[r].op = "resetRequest" => Subject(r)' = call'[r].email
  BY DEF Subject, Bearer

\* A request that does not move goes on knowing what it knows.
LEMMA OthersGoOnKnowing ==
    ASSUME IInv, NEW made, Grows(made), NEW q \in Requests, q \notin made, Leaves(q)
    PROVE  Knows(q)'
<1> USE CallIsTyped DEF IInv
<1>1. /\ TypeOK /\ Place(q) /\ Unmade(q) /\ Reads(q) /\ Sent(q) /\ OldTokens(q) /\ OldSessions(q)
    BY DEF Knows
<1>2. call'[q] = call[q] /\ pc'[q] = pc[q] /\ view'[q] = view[q] /\ sent'[q] = sent[q]
      /\ q \in Sessions /\ q \in Tokens
    BY DEF Grows, Leaves, Sessions, Tokens
<1>3. /\ sent[q].sessions \subseteq Sessions /\ sent[q].tokens \subseteq Tokens
      /\ sent[q].answered \subseteq Requests
      /\ view[q].sessions \subseteq Sessions /\ view[q].tokens \subseteq Tokens
      /\ Me(q) \in Emails
    BY <1>1, ViewIsTyped DEF TypeOK, View, Me
<1>4. /\ Answered(q)' <=> Answered(q)
      /\ InSession(q)' <=> InSession(q)
      /\ Me(q)' = Me(q)
      /\ Confirming(q)' <=> Confirming(q)
      /\ Accepting(q)' <=> Accepting(q)
      /\ \A ops : Done(q, ops)' <=> Done(q, ops)
    BY <1>2 DEF Answered, InSession, Me, Confirming, Accepting, Done
<1>5. Confirming(q) \/ Done(q, {"confirm"}) => Owner(q)' = Owner(q) /\ Owner(q) \in Emails
    BY <1>1, <1>2 DEF Reads, Grows, ResetsGrow, Owner, TypeOK, ResetRow
<1>6. InSession(q) \/ Done(q, Bearer) => session'[call[q].session].user = session[call[q].session].user
    BY <1>1 DEF Reads, Grows, SessionsGrow
<1>7. Place(q)'
    BY <1>1, <1>2 DEF Place
<1>8. Unmade(q)'
    BY <1>1, <1>2, <1>4 DEF Unmade, Grows, SessionsGrow, ResetsGrow, InvitationsGrow
<1>9. Reads(q)'
  <2>1. \A s \in view'[q].sessions : session'[s].status # "absent"
      BY <1>1, <1>2, <1>3 DEF Reads, Grows, SessionsGrow
  <2>2. \A t \in view'[q].tokens : reset'[t].status # "absent"
      BY <1>1, <1>2, <1>3 DEF Reads, Grows, ResetsGrow
  <2>3. InSession(q)' \/ Done(q, Bearer)' => session'[call'[q].session].status # "absent"
      BY <1>1, <1>2, <1>4 DEF Reads, Grows, SessionsGrow
  <2>4. InSession(q)' => /\ Me(q)' = session'[call'[q].session].user
                         /\ pc'[q] # "enter" => password'[Me(q)'] # NoPassword
      BY <1>1, <1>2, <1>3, <1>4, <1>6 DEF Reads, Grows
  <2>5. pc'[q] = "assign" => call'[q].email \in users'
      BY <1>1, <1>2 DEF Reads, Grows
  <2>6. pc'[q] = "replace" => password'[call'[q].email] # NoPassword
      BY <1>1, <1>2 DEF Reads, Grows
  <2>7. Confirming(q)' => /\ reset'[call'[q].token].status \in {"usable", "expired"}
                          /\ password'[Owner(q)'] # NoPassword
      BY <1>1, <1>2, <1>4, <1>5 DEF Reads, Grows, Leaves
  <2>8. Done(q, {"confirm"})' => reset'[call'[q].token].status = "used"
      BY <1>1, <1>2, <1>4 DEF Reads, Grows, ResetsGrow
  <2>9. Accepting(q)' => invitation'[call'[q].token].status \in {"open", "expired"}
      BY <1>2, <1>4 DEF Leaves
  <2>10. Done(q, {"accept"})' => invitation'[call'[q].token].status = "accepted"
      BY <1>1, <1>2, <1>4 DEF Reads, Grows, InvitationsGrow
  <2> QED
      BY <2>1, <2>2, <2>3, <2>4, <2>5, <2>6, <2>7, <2>8, <2>9, <2>10 DEF Reads
<1>10. Sent(q)'
    BY <1>1, <1>2, <1>3 DEF Sent, Grows, SessionsGrow, ResetsGrow, Answered
<1>11. \A t \in sent[q].tokens : /\ reset[t].status # "absent" /\ reset'[t].user = reset[t].user
                                 /\ reset'[t].status = "usable" => reset[t].status = "usable"
                                 /\ reset[t].status = "used" => reset'[t].status = "used"
    BY <1>1, <1>3 DEF Sent, Grows, ResetsGrow
<1>12. \A s \in sent[q].sessions : /\ session[s].status # "absent" /\ session'[s].user = session[s].user
                                   /\ session'[s].status \in {session[s].status, "revoked"}
    BY <1>1, <1>3 DEF Sent, Grows, SessionsGrow
<1>13. OldTokens(q)'
  <2>1. pc[q] \in {"tokens", "confirm"} => Confirming(q)
      BY <1>1 DEF Place, Confirming
  <2>2. Done(q, {"resetRequest", "confirm"}) => Subject(q)' = Subject(q)
      BY <1>2, <1>5, SubjectIs, SubjectIsNext DEF Done
  <2> QED
      BY <1>1, <1>2, <1>4, <1>5, <1>11, <2>1, <2>2 DEF OldTokens
<1>14. OldSessions(q)'
  <2>1. pc[q] = "confirm" => Confirming(q)
      BY <1>1 DEF Place, Confirming
  <2>2. Done(q, {"confirm", "change", "logoutAll"}) => Subject(q)' = Subject(q)
      BY <1>2, <1>5, <1>6, SubjectIs, SubjectIsNext DEF Done, Bearer
  <2>3. pc'[q] = "close" => \A s \in sent'[q].sessions :
           session'[s].user = Me(q)' /\ ~ (call'[q].op = "change" /\ s = call'[q].session) =>
              s \in view'[q].sessions \/ session'[s].status = "revoked"
      BY <1>1, <1>2, <1>4, <1>12 DEF OldSessions
  <2>4. pc'[q] = "confirm" => \A s \in sent'[q].sessions :
           session'[s].user = Owner(q)' => s \in view'[q].sessions \/ session'[s].status = "revoked"
      BY <1>1, <1>2, <1>5, <1>12, <2>1 DEF OldSessions
  <2>5. Done(q, {"confirm", "change", "logoutAll"})' => \A s \in sent'[q].sessions :
           session'[s].user = Subject(q)' /\ ~ (call'[q].op = "change" /\ s = call'[q].session)
              => session'[s].status # "open"
      BY <1>1, <1>2, <1>4, <1>12, <2>2 DEF OldSessions
  <2> QED
      BY <2>3, <2>4, <2>5 DEF OldSessions
<1> QED
    BY <1>7, <1>8, <1>9, <1>10, <1>13, <1>14 DEF Knows

-----------------------------------------------------------------------------
(* The request that moves                                                     *)

\* It is answered.
LEMMA AnsweredKnows ==
    ASSUME IInv, NEW r \in Requests, NEW made, Grows(made), NEW label \in Answers,
           Answer(r, label), sent' = sent,
           label = "ok" =>
              /\ call[r].op \in Bearer => session[call[r].session].status # "absent"
              /\ call[r].op = "confirm" => reset'[call[r].token].status = "used"
              /\ call[r].op = "accept" => invitation'[call[r].token].status = "accepted"
              /\ OldTokens(r)' /\ OldSessions(r)'
    PROVE  Knows(r)'
<1> USE CallIsTyped DEF IInv
<1>1. TypeOK /\ Sent(r)
    BY DEF Knows
<1>2. pc'[r] = label /\ view'[r] = NothingSeen /\ call' = call /\ sent' = sent
    BY <1>1 DEF Answer, Goto, TypeOK, Grows
<1>3. label \notin Labels
    BY DEF Answers, Labels
<1>4. sent[r].sessions \subseteq Sessions /\ sent[r].tokens \subseteq Tokens
      /\ sent[r].answered \subseteq Requests
    BY <1>1 DEF TypeOK
<1>5. Place(r)'
    BY <1>2, <1>3 DEF Place, Labels
<1>6. Unmade(r)'
    BY <1>2 DEF Unmade, Answered
<1>7. Reads(r)'
  <2>1. ~ InSession(r)' /\ ~ Confirming(r)' /\ ~ Accepting(r)' /\ pc'[r] \notin {"assign", "replace"}
      BY <1>2, <1>3 DEF InSession, Confirming, Accepting, Labels
  <2>2. view'[r].sessions = {} /\ view'[r].tokens = {}
      BY <1>2 DEF NothingSeen
  <2>3. \A ops : Done(r, ops)' => label = "ok" /\ call[r].op \in ops
      BY <1>2 DEF Done
  <2>4. Done(r, Bearer)' => session'[call'[r].session].status # "absent"
      BY <1>1, <1>2, <2>3 DEF Grows, SessionsGrow
  <2> QED
      BY <1>2, <2>1, <2>2, <2>3, <2>4 DEF Reads
<1>8. Sent(r)'
    BY <1>1, <1>2, <1>4 DEF Sent, Grows, SessionsGrow, ResetsGrow, Answered
<1>9. label # "ok" => OldTokens(r)' /\ OldSessions(r)'
    BY <1>2, <1>3 DEF OldTokens, OldSessions, Done, Labels
<1> QED
    BY <1>5, <1>6, <1>7, <1>8, <1>9 DEF Knows

\* Everything together.
LEMMA TogetherIInv ==
    ASSUME IInv, TypeOK', NEW r \in Requests, Grows({}) \/ Grows({r}), ~ Answered(r),
           \A q \in Requests \ {r} : Leaves(q), Knows(r)', People',
           Confirming(r)' /\ ~ Confirming(r) =>
              \A q \in Requests \ {r} : ~ (Confirming(q) /\ call[q].token = call[r].token),
           Accepting(r)' /\ ~ Accepting(r) =>
              \A q \in Requests \ {r} : ~ (Accepting(q) /\ call[q].token = call[r].token)
    PROVE  IInv'
<1>1. call' = call
    BY DEF Grows
<1>2. \A q \in Requests \ {r} : (Confirming(q)' <=> Confirming(q)) /\ (Accepting(q)' <=> Accepting(q))
    BY <1>1 DEF Leaves, Confirming, Accepting
<1>3. Locks'
    BY <1>1, <1>2 DEF Locks, IInv
<1>4. ASSUME NEW q \in Requests PROVE Knows(q)'
  <2>1. CASE q = r
      BY <2>1
  <2>2. CASE q # r
      BY <2>2, OthersGoOnKnowing
  <2> QED
      BY <2>1, <2>2
<1> QED
    BY <1>3, <1>4 DEF IInv

\* It writes nothing.
LEMMA ReadsOnly ==
    ASSUME IInv, NEW r \in Requests, UNCHANGED tables, call' = call, sent' = sent, ~ Answered(r),
           Goto(r, pc'[r]), view' = [view EXCEPT ![r] = view'[r]]
    PROVE  Grows({}) /\ People' /\ \A q \in Requests \ {r} : Leaves(q)
<1> USE DEF IInv
<1>1. UNCHANGED <<users, password, role, session, reset, invitation>>
    BY DEF tables, people, secrets
<1>2. \A q \in Requests \ {r} : pc'[q] = pc[q] /\ view'[q] = view[q] /\ sent'[q] = sent[q]
    BY DEF Goto, TypeOK
<1>3. \A q \in Requests : Answered(q) => pc'[q] = pc[q]
    BY <1>2
<1>4. Grows({})
    BY <1>1, <1>3 DEF Grows, SessionsGrow, ResetsGrow, InvitationsGrow
<1>5. \A q \in Requests \ {r} : Leaves(q)
    BY <1>1, <1>2 DEF Leaves, Knows, Reads
<1>6. People'
    BY <1>1 DEF People
<1> QED
    BY <1>4, <1>5, <1>6

LEMMA MovedKnows ==
    ASSUME IInv, NEW r \in Requests, UNCHANGED tables, call' = call, sent' = sent, Grows({}),
           pc'[r] \in Labels, ~ Answered(r),
           Place(r)', Reads(r)', OldTokens(r)', OldSessions(r)'
    PROVE  Knows(r)'
<1>1. UNCHANGED <<session, reset, invitation>>
    BY DEF tables, secrets
<1>2. Unmade(r)'
    BY <1>1 DEF Unmade, IInv, Knows
<1>3. Sent(r)'
    BY <1>1 DEF Sent, IInv, Knows, Grows, Answered, TypeOK
<1> QED
    BY <1>2, <1>3 DEF Knows

\* The steps that only read, or give up.
Reader(r) ==
    \/ Authenticate(r) \/ LookForSessions(r) \/ Register(r) \/ Login(r) \/ Verify(r)
    \/ RequestReset(r) \/ LockToken(r) \/ ReadTokens(r) \/ ReadSessions(r) \/ DeadlockVictim(r)
    \/ Admit(r) \/ ReadMembership(r) \/ LockInvitation(r) \/ Review(r) \/ Die(r)

\* Where a request stands before its next step.
LEMMA NotAnsweredYet ==
    ASSUME TypeOK, NEW r \in Requests, pc[r] \in Labels PROVE ~ Answered(r)
  BY DEF Answered, Labels, Answers

LEMMA OneMoves ==
    ASSUME TypeOK, NEW r \in Requests,
           \/ \E label : Answer(r, label)
           \/ \E label : Goto(r, label) /\ UNCHANGED view
           \/ \E label, x : Goto(r, label) /\ view' = [view EXCEPT ![r] = x]
    PROVE  Goto(r, pc'[r]) /\ view' = [view EXCEPT ![r] = view'[r]]
<1>1. \A label : Goto(r, label) => Goto(r, pc'[r])
    BY DEF Goto, TypeOK
<1>2. \A x : view' = [view EXCEPT ![r] = x] => view' = [view EXCEPT ![r] = view'[r]]
    BY DEF TypeOK
<1>3. view' = view => view' = [view EXCEPT ![r] = view'[r]]
    BY DEF TypeOK
<1> QED
    BY <1>1, <1>2, <1>3 DEF Answer

LEMMA ReadersOnlyRead ==
    ASSUME IInv, NEW r \in Requests, Reader(r)
    PROVE  /\ UNCHANGED tables /\ call' = call /\ sent' = sent
           /\ ~ Answered(r)
           /\ Grows({}) /\ People' /\ \A q \in Requests \ {r} : Leaves(q)
<1> USE DEF IInv
<1>1. UNCHANGED tables /\ call' = call /\ sent' = sent
    BY DEF Reader, Authenticate, LookForSessions, Register, Login, Verify, RequestReset, LockToken,
           ReadTokens, ReadSessions, DeadlockVictim, Admit, ReadMembership, LockInvitation, Review,
           Die, history
<1>2. pc[r] \in Labels
  <2>1. CASE DeadlockVictim(r)
      BY <2>1 DEF DeadlockVictim, MayDeadlock, Labels
  <2> QED
      BY <2>1 DEF Reader, Authenticate, LookForSessions, Register, Login, Verify, RequestReset,
             LockToken, ReadTokens, ReadSessions, Admit, ReadMembership, LockInvitation,
             Review, Die, At, Labels
<1>3. Goto(r, pc'[r]) /\ view' = [view EXCEPT ![r] = view'[r]]
  <2> SUFFICES \/ \E label : Answer(r, label)
               \/ \E label : Goto(r, label) /\ UNCHANGED view
               \/ \E label, x : Goto(r, label) /\ view' = [view EXCEPT ![r] = x]
      BY OneMoves
  <2>1. CASE Authenticate(r) \/ LookForSessions(r) \/ Register(r) \/ Login(r)
      BY <2>1 DEF Authenticate, LookForSessions, Register, Login
  <2>2. CASE Verify(r) \/ RequestReset(r) \/ LockToken(r) \/ ReadTokens(r) \/ ReadSessions(r)
      BY <2>2 DEF Verify, RequestReset, LockToken, ReadTokens, ReadSessions
  <2>3. CASE DeadlockVictim(r) \/ Admit(r) \/ ReadMembership(r) \/ Die(r)
      BY <2>3 DEF DeadlockVictim, Admit, ReadMembership, Die
  <2>4. CASE LockInvitation(r)
      BY <2>4 DEF LockInvitation
  <2>5. CASE Review(r)
    <3>1. ASSUME NEW x, NEW y, view' = [view EXCEPT ![r].role = x, ![r].account = y]
          PROVE  view' = [view EXCEPT ![r] = [view[r] EXCEPT !.role = x, !.account = y]]
        BY <3>1 DEF TypeOK
    <3>2. CASE Answer(r, "invalid") \/ Answer(r, "unauthorized")
        BY <3>2
    <3>3. CASE /\ Goto(r, "accept")
               /\ \E x, y : view' = [view EXCEPT ![r].role = x, ![r].account = y]
        BY <3>1, <3>3
    <3>4. Answer(r, "invalid") \/ Answer(r, "unauthorized") \/ <3>3!1
        BY <2>5 DEF Review
    <3> QED
        BY <3>2, <3>3, <3>4
  <2> QED
      BY <2>1, <2>2, <2>3, <2>4, <2>5 DEF Reader
<1>4. ~ Answered(r)
    BY <1>2, NotAnsweredYet
<1> QED
    BY <1>1, <1>3, <1>4, ReadsOnly

\* What a reader answers is never the end of a reset or of an invitation.
LEMMA RefusedKnows ==
    ASSUME IInv, NEW r \in Requests, Grows({}), sent' = sent,
           NEW label \in Answers \ {"ok"}, Answer(r, label)
    PROVE  Knows(r)'
  BY AnsweredKnows

LEMMA ReadersKnow ==
    ASSUME IInv, NEW r \in Requests, Reader(r)
    PROVE  Knows(r)'
<1> USE CallIsTyped, ViewIsTyped DEF IInv
<1>1. /\ UNCHANGED tables /\ call' = call /\ sent' = sent
      /\ UNCHANGED <<users, password, role, session, reset, invitation, throttle>>
      /\ ~ Answered(r) /\ Grows({})
    BY ReadersOnlyRead DEF tables, people, secrets
<1>2. TypeOK /\ Place(r) /\ Unmade(r) /\ Reads(r) /\ Sent(r) /\ OldTokens(r) /\ OldSessions(r)
    BY DEF Knows
<1>3. sent[r].sessions \subseteq Sessions /\ sent[r].tokens \subseteq Tokens
    BY <1>2 DEF TypeOK
<1>4. ASSUME NEW label \in Answers \ {"ok"}, Answer(r, label) PROVE Knows(r)'
    BY <1>1, <1>4, RefusedKnows
<1>5. ASSUME NEW label \in Labels, Goto(r, label) PROVE pc'[r] = label /\ pc'[r] \in Labels
    BY <1>5 DEF Goto, TypeOK
<1>6. ASSUME NEW label \in Labels, Goto(r, label), Place(r)', Reads(r)', OldTokens(r)', OldSessions(r)'
      PROVE  Knows(r)'
    BY <1>1, <1>5, <1>6, MovedKnows
<1>7. CASE Authenticate(r)
  <2>1. CASE Answer(r, "unauthorized")
      BY <2>1, <1>4 DEF Answers
  <2>2. CASE /\ call[r].op \in Bearer /\ pc[r] = "sent" /\ Goto(r, "enter")
             /\ session[call[r].session].status = "open"
             /\ view' = [view EXCEPT ![r].session = session[call[r].session]]
    <3>1. pc'[r] = "enter"
        BY <2>2, <1>5 DEF Labels
    <3>2. /\ view'[r].session = session[call[r].session]
          /\ view'[r].sessions = view[r].sessions /\ view'[r].tokens = view[r].tokens
        BY <2>2 DEF TypeOK, View
    <3>3. Place(r)' /\ OldTokens(r)' /\ OldSessions(r)'
        BY <2>2, <3>1, <1>1 DEF Place, OldTokens, OldSessions, Done
    <3>4. Reads(r)'
        BY <2>2, <3>1, <3>2, <1>1, <1>2
           DEF Reads, InSession, Me, Confirming, Accepting, Done
    <3> QED
        BY <2>2, <3>3, <3>4, <1>6 DEF Labels
  <2> QED
      BY <1>7, <2>1, <2>2 DEF Authenticate
<1>8. CASE LookForSessions(r)
  <2>1. CASE Answer(r, "unauthorized")
      BY <2>1, <1>4 DEF Answers
  <2> DEFINE x == OpenSessions(Me(r)) \ (IF call[r].op = "change" THEN {call[r].session} ELSE {})
  <2>2. CASE /\ call[r].op \in {"logoutAll", "change"} /\ pc[r] = "entered" /\ Goto(r, "close")
             /\ view' = [view EXCEPT ![r].sessions = x]
    <3>1. pc'[r] = "close"
        BY <2>2, <1>5 DEF Labels
    <3>2. /\ view'[r].session = view[r].session
          /\ view'[r].sessions = x /\ view'[r].tokens = view[r].tokens
          /\ Me(r)' = Me(r)
        BY <2>2 DEF TypeOK, View, Me
    <3>3. Place(r)' /\ OldTokens(r)'
        BY <2>2, <3>1, <1>1 DEF Place, OldTokens, Done
    <3>4. Reads(r)'
      <4>1. \A s \in x : session[s].status # "absent"
          BY DEF OpenSessions
      <4> HIDE DEF x
      <4> QED
          BY <2>2, <3>1, <3>2, <1>1, <1>2, <4>1
             DEF Reads, InSession, Confirming, Accepting, Done
    <3>5. OldSessions(r)'
      <4>1. ASSUME NEW s \in sent[r].sessions, session[s].user = Me(r),
                   ~ (call[r].op = "change" /\ s = call[r].session)
            PROVE  s \in x \/ session[s].status = "revoked"
        <5>1. s \in Sessions /\ session[s].status \in {"open", "revoked"}
            BY <1>2, <1>3 DEF Sent, TypeOK, SessionRow
        <5> QED
            BY <4>1, <5>1 DEF OpenSessions
      <4> HIDE DEF x
      <4> QED
          BY <4>1, <3>1, <3>2, <1>1 DEF OldSessions, Done
    <3> QED
        BY <2>2, <3>3, <3>4, <3>5, <1>6 DEF Labels
  <2> QED
      BY <1>8, <2>1, <2>2 DEF LookForSessions
<1>9. ASSUME NEW label \in Labels \ {"enter", "replace", "tokens", "confirm", "close"}, Goto(r, label),
             view'[r].session = view[r].session, view'[r].sessions = view[r].sessions,
             view'[r].tokens = view[r].tokens, Place(r)',
             label \in {"entered", "admitted", "assign"} => InSession(r) /\ pc[r] # "enter",
             label = "assign" => call[r].email \in users,
             label = "locked" => /\ reset[call[r].token].status = "usable"
                                 /\ password[Owner(r)] # NoPassword,
             label \in {"review", "accept"} =>
                invitation[call[r].token].status \in {"open", "expired"}
      PROVE  Knows(r)'
  <2>1. pc'[r] = label /\ Me(r)' = Me(r) /\ Owner(r)' = Owner(r)
      BY <1>1, <1>5, <1>9 DEF Me, Owner
  <2>2. ~ \E ops : Done(r, ops)'
      BY <2>1 DEF Done, Labels
  <2>3. OldTokens(r)' /\ OldSessions(r)'
      BY <2>1, <2>2 DEF OldTokens, OldSessions
  <2>4. Reads(r)'
    <3>1. InSession(r)' => InSession(r) /\ pc[r] # "enter"
        BY <1>9, <2>1 DEF InSession
    <3>2. /\ Confirming(r)' => label = "locked"
          /\ Accepting(r)' => label \in {"review", "accept"}
        BY <1>9, <2>1, <1>1 DEF Confirming, Accepting
    <3> QED
        BY <1>1, <1>2, <1>9, <2>1, <2>2, <3>1, <3>2 DEF Reads
  <2> QED
      BY <1>6, <1>9, <2>3, <2>4
<1>10. CASE Register(r) \/ Login(r) \/ Admit(r)
  <2>1. ASSUME NEW label \in {"create", "verify", "admitted"}, Goto(r, label), UNCHANGED view,
               label = "admitted" => call[r].op \in {"invite", "putMembership"} /\ pc[r] = "entered"
        PROVE  Knows(r)'
    <3>1. label \in Labels /\ pc'[r] = label
        BY <2>1, <1>5 DEF Labels
    <3>2. label = "verify" => call[r].op = "login"
        BY <1>10, <2>1, <3>1 DEF Register, Login, Admit, At, Answer, Goto, TypeOK
    <3>3. Place(r)'
        BY <2>1, <3>1, <3>2, <1>1 DEF Place
    <3>4. label = "admitted" => InSession(r) /\ pc[r] # "enter"
        BY <2>1 DEF InSession
    <3> QED
        BY <1>9, <2>1, <3>1, <3>3, <3>4
  <2> QED
      BY <1>10, <1>4, <2>1 DEF Register, Login, Admit, Answers
<1>11. CASE Verify(r)
  <2>1. PICK label \in {"open", "count"} : Goto(r, label)
      BY <1>11 DEF Verify
  <2>2. pc'[r] = label /\ label \in Labels
      BY <2>1, <1>5 DEF Labels
  <2>3. Place(r)'
      BY <1>11, <2>2, <1>1 DEF Verify, At, Place
  <2>4. /\ view'[r].session = view[r].session /\ view'[r].sessions = view[r].sessions
        /\ view'[r].tokens = view[r].tokens
      BY <1>11 DEF Verify, TypeOK, View
  <2> QED
      BY <1>9, <2>1, <2>2, <2>3, <2>4
<1>12. CASE ReadMembership(r)
  <2>1. CASE /\ At(r, "putMembership", "admitted") /\ call[r].email \in users /\ Goto(r, "assign")
             /\ view' = [view EXCEPT ![r].role = role[call[r].email]]
    <3>1. pc'[r] = "assign" /\ InSession(r) /\ pc[r] # "enter"
        BY <2>1, <1>5 DEF Labels, InSession, At
    <3>2. Place(r)'
        BY <2>1, <3>1, <1>1 DEF At, Place
    <3>3. /\ view'[r].session = view[r].session /\ view'[r].sessions = view[r].sessions
          /\ view'[r].tokens = view[r].tokens
        BY <2>1 DEF TypeOK, View
    <3> QED
        BY <1>9, <2>1, <3>1, <3>2, <3>3 DEF Labels
  <2> QED
      BY <1>12, <2>1, <1>4 DEF ReadMembership, Answers
<1>13. CASE LockToken(r)
  <2>1. CASE /\ At(r, "confirm", "sent") /\ Goto(r, "locked") /\ UNCHANGED view
             /\ reset[call[r].token].status = "usable" /\ password[Owner(r)] # NoPassword
    <3>1. pc'[r] = "locked"
        BY <2>1, <1>5 DEF Labels
    <3>2. Place(r)'
        BY <2>1, <3>1, <1>1 DEF At, Place
    <3> QED
        BY <1>9, <2>1, <3>1, <3>2 DEF Labels
  <2> QED
      BY <1>13, <2>1, <1>4 DEF LockToken, Answers
<1>14. CASE LockInvitation(r)
  <2>1. CASE /\ At(r, "accept", "sent") /\ Goto(r, "review") /\ UNCHANGED view
             /\ invitation[call[r].token].status = "open"
    <3>1. pc'[r] = "review"
        BY <2>1, <1>5 DEF Labels
    <3>2. Place(r)'
        BY <2>1, <3>1, <1>1 DEF At, Place
    <3> QED
        BY <1>9, <2>1, <3>1, <3>2 DEF Labels
  <2>2. invitation[call[r].token].status \in {"absent", "open", "expired", "accepted"}
      BY DEF TypeOK, InvitationRow
  <2> QED
      BY <1>14, <2>1, <2>2, <1>4 DEF LockInvitation, Answers
<1>15. CASE Review(r)
  <2>1. ASSUME NEW x, NEW y, view' = [view EXCEPT ![r].role = x, ![r].account = y],
               At(r, "accept", "review"), Goto(r, "accept")
        PROVE  Knows(r)'
    <3>1. pc'[r] = "accept"
        BY <2>1, <1>5 DEF Labels
    <3>2. Place(r)'
        BY <2>1, <3>1, <1>1 DEF At, Place
    <3>3. /\ view'[r].session = view[r].session /\ view'[r].sessions = view[r].sessions
          /\ view'[r].tokens = view[r].tokens
        BY <2>1 DEF TypeOK, View
    <3>4. invitation[call[r].token].status \in {"open", "expired"}
        BY <2>1, <1>2 DEF Reads, Accepting, At
    <3> QED
        BY <1>9, <2>1, <3>1, <3>2, <3>3, <3>4 DEF Labels
  <2> QED
      BY <1>15, <2>1, <1>4 DEF Review, Answers
<1>16. CASE RequestReset(r)
  <2>1. At(r, "resetRequest", "sent")
      BY <1>16 DEF RequestReset
  <2>2. CASE Answer(r, "ok") /\ password[call[r].email] = NoPassword
    <3>1. pc'[r] = "ok" /\ call'[r] = call[r] /\ Subject(r)' = call[r].email
        BY <2>1, <2>2, <1>1, SubjectIsNext DEF Answer, Goto, TypeOK, At
    <3>2. OldTokens(r)'
      <4>1. ASSUME NEW t \in sent[r].tokens, reset[t].user = call[r].email
            PROVE  reset[t].status # "usable"
          BY <4>1, <2>2, <1>3 DEF People
      <4> QED
          BY <4>1, <3>1, <1>1 DEF OldTokens
    <3>3. OldSessions(r)'
        BY <2>1, <3>1, <1>1 DEF OldSessions, Done, At
    <3> QED
        BY <2>1, <2>2, <3>2, <3>3, <1>1, AnsweredKnows DEF At, Answers, Bearer
  <2>3. CASE /\ password[call[r].email] # NoPassword /\ Goto(r, "replace")
             /\ view' = [view EXCEPT ![r].tokens = Unused(call[r].email)]
    <3>1. pc'[r] = "replace"
        BY <2>3, <1>5 DEF Labels
    <3>2. /\ view'[r].session = view[r].session /\ view'[r].sessions = view[r].sessions
          /\ view'[r].tokens = Unused(call[r].email)
        BY <2>3 DEF TypeOK, View
    <3>3. Place(r)' /\ OldSessions(r)'
        BY <2>1, <3>1, <1>1 DEF At, Place, OldSessions, Done
    <3>4. OldTokens(r)'
      <4>1. ASSUME NEW t \in sent[r].tokens, reset[t].user = call[r].email
            PROVE  t \in Unused(call[r].email) \/ reset[t].status = "used"
        <5>1. t \in Tokens /\ reset[t].status \in {"usable", "expired", "used"}
            BY <1>2, <1>3 DEF Sent, TypeOK, ResetRow
        <5> QED
            BY <4>1, <5>1 DEF Unused
      <4> QED
          BY <4>1, <3>1, <3>2, <1>1 DEF OldTokens, Done
    <3>5. Reads(r)'
      <4>1. \A t \in Unused(call[r].email) : reset[t].status # "absent"
          BY DEF Unused
      <4> QED
          BY <2>1, <2>3, <3>1, <3>2, <4>1, <1>1, <1>2
             DEF Reads, InSession, Confirming, Accepting, Done, At
    <3> QED
        BY <2>3, <3>3, <3>4, <3>5, <1>6 DEF Labels
  <2> QED
      BY <1>16, <2>2, <2>3 DEF RequestReset
<1>17. CASE ReadTokens(r)
  <2> DEFINE x == Unused(Owner(r)) \ {call[r].token}
  <2>1. pc'[r] = "tokens" /\ call[r].op = "confirm" /\ Confirming(r) /\ Goto(r, "tokens")
      BY <1>17, <1>5 DEF ReadTokens, Labels, At, Confirming
  <2>2. /\ view'[r].session = view[r].session /\ view'[r].sessions = view[r].sessions
        /\ view'[r].tokens = x /\ Owner(r)' = Owner(r)
      BY <1>17, <1>1 DEF ReadTokens, TypeOK, View, Owner
  <2>3. Place(r)' /\ OldSessions(r)'
      BY <2>1, <1>1 DEF Place, OldSessions, Done
  <2>4. ASSUME NEW t \in sent[r].tokens, reset[t].user = Owner(r)
        PROVE  t = call[r].token \/ t \in x \/ reset[t].status = "used"
    <3>1. t \in Tokens /\ reset[t].status \in {"usable", "expired", "used"}
        BY <1>2, <1>3 DEF Sent, TypeOK, ResetRow
    <3> QED
        BY <2>4, <3>1 DEF Unused
  <2>5. \A t \in x : reset[t].status # "absent"
      BY DEF Unused
  <2> HIDE DEF x
  <2>6. OldTokens(r)'
      BY <2>1, <2>2, <2>4, <1>1 DEF OldTokens, Done
  <2>7. Reads(r)'
      BY <2>1, <2>2, <2>5, <1>1, <1>2 DEF Reads, InSession, Confirming, Accepting, Done
  <2> QED
      BY <2>1, <2>3, <2>6, <2>7, <1>6 DEF Labels
<1>18. CASE ReadSessions(r)
  <2> DEFINE x == OpenSessions(Owner(r))
  <2>1. /\ pc'[r] = "confirm" /\ call[r].op = "confirm" /\ Confirming(r) /\ Goto(r, "confirm")
        /\ pc[r] = "tokens"
      BY <1>18, <1>5 DEF ReadSessions, Labels, At, Confirming
  <2>2. /\ view'[r].session = view[r].session /\ view'[r].tokens = view[r].tokens
        /\ view'[r].sessions = x /\ Owner(r)' = Owner(r)
      BY <1>18, <1>1 DEF ReadSessions, TypeOK, View, Owner
  <2>3. Place(r)'
      BY <2>1, <1>1 DEF Place
  <2>4. ASSUME NEW s \in sent[r].sessions, session[s].user = Owner(r)
        PROVE  s \in x \/ session[s].status = "revoked"
    <3>1. s \in Sessions /\ session[s].status \in {"open", "revoked"}
        BY <1>2, <1>3 DEF Sent, TypeOK, SessionRow
    <3> QED
        BY <2>4, <3>1 DEF OpenSessions
  <2>5. \A s \in x : session[s].status # "absent"
      BY DEF OpenSessions
  <2> HIDE DEF x
  <2>6. OldTokens(r)' /\ OldSessions(r)'
      BY <2>1, <2>2, <2>4, <1>1, <1>2 DEF OldTokens, OldSessions, Done
  <2>7. Reads(r)'
      BY <2>1, <2>2, <2>5, <1>1, <1>2 DEF Reads, InSession, Confirming, Accepting, Done
  <2> QED
      BY <2>1, <2>3, <2>6, <2>7, <1>6 DEF Labels
<1>19. CASE DeadlockVictim(r) \/ Die(r)
    BY <1>19, <1>4 DEF DeadlockVictim, Die, Answers
<1> QED
    BY <1>7, <1>8, <1>10, <1>11, <1>12, <1>13, <1>14, <1>15, <1>16, <1>17, <1>18, <1>19 DEF Reader

LEMMA ReadersKeepIInv ==
    ASSUME IInv, TypeOK', NEW r \in Requests, Reader(r)
    PROVE  IInv'
<1>1. /\ call' = call /\ ~ Answered(r) /\ Grows({}) /\ People' /\ \A q \in Requests \ {r} : Leaves(q)
    BY ReadersOnlyRead
<1>2. Knows(r)'
    BY ReadersKnow
<1>3. \A label : Goto(r, label) => pc'[r] = label
    BY DEF IInv, TypeOK, Goto
<1>4. ASSUME Confirming(r)', ~ Confirming(r)
      PROVE  \A q \in Requests \ {r} : ~ (Confirming(q) /\ call[q].token = call[r].token)
  <2>1. call[r].op = "confirm" /\ pc'[r] \in {"locked", "tokens", "confirm"}
        /\ pc[r] \notin {"locked", "tokens", "confirm"}
      BY <1>1, <1>4 DEF Confirming
  <2>2. ~ \E label \in Answers : Answer(r, label)
      BY <2>1, <1>3 DEF Answer, Answers
  <2>3. LockToken(r)
    <3>1. ~ (Authenticate(r) \/ LookForSessions(r) \/ Admit(r))
        BY <2>1 DEF Authenticate, LookForSessions, Admit, Bearer
    <3>2. ~ (Register(r) \/ Login(r) \/ Verify(r) \/ RequestReset(r) \/ ReadMembership(r)
             \/ LockInvitation(r) \/ Review(r))
        BY <2>1 DEF Register, Login, Verify, RequestReset, ReadMembership, LockInvitation, Review, At
    <3>3. ~ (ReadTokens(r) \/ ReadSessions(r))
        BY <2>1 DEF ReadTokens, ReadSessions, At
    <3>4. ~ (DeadlockVictim(r) \/ Die(r))
        BY <2>2 DEF DeadlockVictim, Die, Answers
    <3> QED
        BY <3>1, <3>2, <3>3, <3>4 DEF Reader
  <2> QED
      BY <2>3 DEF LockToken, Waits, WaitsFor, WantsResets
<1>5. ASSUME Accepting(r)', ~ Accepting(r)
      PROVE  \A q \in Requests \ {r} : ~ (Accepting(q) /\ call[q].token = call[r].token)
  <2>1. call[r].op = "accept" /\ pc'[r] \in {"review", "accept"} /\ pc[r] \notin {"review", "accept"}
      BY <1>1, <1>5 DEF Accepting
  <2>2. ~ \E label \in Answers : Answer(r, label)
      BY <2>1, <1>3 DEF Answer, Answers
  <2>3. LockInvitation(r)
    <3>1. ~ (Authenticate(r) \/ LookForSessions(r) \/ Admit(r))
        BY <2>1 DEF Authenticate, LookForSessions, Admit, Bearer
    <3>2. ~ (Register(r) \/ Login(r) \/ Verify(r) \/ RequestReset(r) \/ ReadMembership(r)
             \/ LockToken(r) \/ ReadTokens(r) \/ ReadSessions(r))
        BY <2>1 DEF Register, Login, Verify, RequestReset, ReadMembership, LockToken, ReadTokens,
                    ReadSessions, At
    <3>3. ~ Review(r)
        BY <2>1 DEF Review, At
    <3>4. ~ (DeadlockVictim(r) \/ Die(r))
        BY <2>2 DEF DeadlockVictim, Die, Answers
    <3> QED
        BY <3>1, <3>2, <3>3, <3>4 DEF Reader
  <2> QED
      BY <2>3 DEF LockInvitation, Waits, WaitsFor, At
<1> QED
    BY <1>1, <1>2, <1>4, <1>5, TogetherIInv

-----------------------------------------------------------------------------
(* The steps that write.                                                      *)

LEMMA RevokedGrows ==
    ASSUME TypeOK, NEW some, \A s \in some : s \in Sessions /\ session[s].status # "absent",
           session' = Revoked(some)
    PROVE  SessionsGrow({}) /\ \A s \in some : session'[s].status = "revoked"
<1>1. \A s \in some : session'[s] = [session[s] EXCEPT !.status = "revoked"]
    BY DEF Revoked
<1>2. \A s \in Sessions \ some : session'[s] = session[s]
    BY DEF Revoked
<1>3. \A s \in Sessions : session[s] \in SessionRow
    BY DEF TypeOK
<1>4. \A s \in some : session'[s].status = "revoked" /\ session'[s].user = session[s].user
    BY <1>1, <1>3 DEF SessionRow
<1> QED
    BY <1>2, <1>4 DEF SessionsGrow

LEMMA OpenedGrows ==
    ASSUME TypeOK, NEW r \in Requests, NEW e, session[r].status = "absent", session' = Opened(r, e)
    PROVE  SessionsGrow({r})
  BY DEF TypeOK, Opened, SessionsGrow, Sessions

LEMMA UsedGrows ==
    ASSUME TypeOK, NEW some, \A t \in some : t \in Tokens /\ reset[t].status # "absent",
           NEW t \in Tokens
    PROVE  /\ Used(some)[t].user = reset[t].user
           /\ t \in some => Used(some)[t].status = "used"
           /\ t \notin some => Used(some)[t] = reset[t]
<1>1. reset[t] \in ResetRow
    BY DEF TypeOK
<1>2. [reset[t] EXCEPT !.status = "used"].status = "used"
      /\ [reset[t] EXCEPT !.status = "used"].user = reset[t].user
    BY <1>1 DEF ResetRow
<1> QED
    BY <1>2 DEF Used

\* The last step of a request.
LEMMA LastStepKeepsIInv ==
    ASSUME IInv, TypeOK', NEW r \in Requests, pc[r] \in Labels,
           NEW label \in Answers, Answer(r, label), call' = call, sent' = sent,
           NEW made, made = {} \/ made = {r},
           SessionsGrow(made), ResetsGrow(made), InvitationsGrow(made),
           \A e \in Emails : password[e] # NoPassword => password'[e] # NoPassword,
           users \subseteq users', People',
           \A q \in Requests \ {r} :
              /\ Confirming(q) => reset'[call[q].token] = reset[call[q].token]
              /\ Accepting(q) => invitation'[call[q].token] = invitation[call[q].token],
           label = "ok" =>
              /\ call[r].op \in Bearer => session[call[r].session].status # "absent"
              /\ call[r].op = "confirm" => reset'[call[r].token].status = "used"
              /\ call[r].op = "accept" => invitation'[call[r].token].status = "accepted"
              /\ OldTokens(r)' /\ OldSessions(r)'
    PROVE  IInv'
<1>1. ~ Answered(r)
    BY NotAnsweredYet DEF IInv
<1>2. \A q \in Requests \ {r} : pc'[q] = pc[q] /\ view'[q] = view[q]
    BY DEF IInv, TypeOK, Answer, Goto
<1>3. pc'[r] = label
    BY DEF IInv, TypeOK, Answer, Goto
<1>4. Grows(made)
    BY <1>1, <1>2 DEF Grows
<1>5. \A q \in Requests \ {r} : Leaves(q)
    BY <1>2 DEF Leaves, IInv, Knows, Reads
<1>6. Knows(r)'
    BY <1>4, AnsweredKnows
<1>7. ~ Confirming(r)' /\ ~ Accepting(r)'
    BY <1>3 DEF Confirming, Accepting, Answers
<1> QED
    BY <1>1, <1>4, <1>5, <1>6, <1>7, TogetherIInv

LEMMA NothingOld ==
    ASSUME TypeOK, NEW r \in Requests, NEW label \in Answers, Answer(r, label), call' = call
    PROVE  /\ call[r].op \notin {"resetRequest", "confirm"} => OldTokens(r)'
           /\ call[r].op \notin {"confirm", "change", "logoutAll"} => OldSessions(r)'
           /\ pc'[r] = label
<1>1. pc'[r] = label /\ call'[r] = call[r]
    BY DEF Answer, Goto, TypeOK
<1>2. pc'[r] \notin {"replace", "tokens", "confirm", "close"}
    BY <1>1 DEF Answers
<1> QED
    BY <1>1, <1>2 DEF OldTokens, OldSessions, Done

\* Steps that write sessions only.
LEMMA ClosersKeepIInv ==
    ASSUME IInv, TypeOK', NEW r \in Requests, IdleOut(r) \/ Logout(r) \/ Revoke(r) \/ LogoutAll(r)
    PROVE  IInv'
<1> USE CallIsTyped
<1>1. /\ TypeOK /\ Place(r) /\ Unmade(r) /\ Reads(r) /\ Sent(r) /\ OldTokens(r) /\ OldSessions(r)
    BY DEF IInv, Knows
<1>2. /\ UNCHANGED <<people, secrets, throttle, history>>
      /\ UNCHANGED <<users, password, role, reset, invitation, call, sent>>
    BY DEF IdleOut, Logout, Revoke, LogoutAll, people, secrets, history
<1>3. pc[r] \in Labels /\ InSession(r) /\ session[call[r].session].status # "absent"
  <2>1. pc[r] \in {"enter", "entered", "close"}
      BY DEF IdleOut, Logout, Revoke, LogoutAll, At
  <2> QED
      BY <2>1, <1>1 DEF Labels, InSession, Reads
<1>4. PICK label \in Answers : Answer(r, label)
    BY DEF IdleOut, Logout, Revoke, LogoutAll, Answers
<1>5. SessionsGrow({})
  <2>1. CASE session' = session
      BY <2>1 DEF SessionsGrow
  <2>2. CASE session' = Revoked({call[r].session})
      BY <2>2, <1>1, <1>3, RevokedGrows
  <2>3. CASE session' = Revoked({call[r].other}) /\ session[call[r].other].status # "absent"
      BY <2>3, <1>1, RevokedGrows
  <2>4. CASE session' = Revoked(view[r].sessions)
    <3>1. \A s \in view[r].sessions : s \in Sessions /\ session[s].status # "absent"
        BY <1>1, ViewIsTyped DEF Reads, View
    <3> QED
        BY <2>4, <3>1, <1>1, RevokedGrows
  <2> QED
      BY <2>1, <2>2, <2>3, <2>4 DEF IdleOut, Logout, Revoke, LogoutAll
<1>6. ResetsGrow({}) /\ InvitationsGrow({}) /\ People'
    BY <1>2 DEF ResetsGrow, InvitationsGrow, People, IInv
<1>7. label = "ok" => OldTokens(r)' /\ OldSessions(r)'
  <2>1. CASE LogoutAll(r)
    <3>1. call[r].op = "logoutAll" /\ pc[r] = "close" /\ session' = Revoked(view[r].sessions)
        BY <2>1 DEF LogoutAll, At
    <3>2. \A s \in view[r].sessions : session'[s].status = "revoked"
      <4>1. \A s \in view[r].sessions : s \in Sessions /\ session[s].status # "absent"
          BY <1>1, ViewIsTyped DEF Reads, View
      <4> QED
          BY <3>1, <4>1, <1>1, RevokedGrows
    <3>3. call'[r] = call[r] /\ sent'[r] = sent[r] /\ Subject(r)' = Me(r)
      <4>1. Subject(r)' = session'[call[r].session].user
          BY <1>2, <3>1, SubjectIsNext DEF Bearer
      <4> QED
          BY <4>1, <1>1, <1>2, <1>3, <1>5 DEF Reads, SessionsGrow
    <3>4. ASSUME NEW s \in sent[r].sessions, session'[s].user = Me(r)
          PROVE  session'[s].status # "open"
      <4>1. s \in Sessions /\ session[s].status # "absent"
          BY <1>1 DEF Sent, TypeOK
      <4>2. session'[s].user = session[s].user /\ session'[s].status \in {session[s].status, "revoked"}
          BY <4>1, <1>5 DEF SessionsGrow
      <4>3. s \in view[r].sessions \/ session[s].status = "revoked"
          BY <3>1, <3>4, <4>2, <1>1 DEF OldSessions
      <4> QED
          BY <3>2, <4>2, <4>3
    <3>5. pc'[r] = label /\ OldTokens(r)'
        BY <1>1, <1>2, <1>4, <3>1, NothingOld
    <3> QED
        BY <3>3, <3>4, <3>5 DEF OldSessions
  <2>2. CASE IdleOut(r)
    <3>1. label # "ok"
        BY <2>2, <1>1, <1>2, <1>4, NothingOld DEF IdleOut, Answer, Goto, TypeOK
    <3> QED
        BY <3>1
  <2>3. CASE Logout(r) \/ Revoke(r)
      BY <2>3, <1>1, <1>2, <1>4, NothingOld DEF Logout, Revoke, At
  <2> QED
      BY <2>1, <2>2, <2>3
<1>8. call[r].op \in Bearer
    BY <1>1 DEF IdleOut, Logout, Revoke, LogoutAll, At, Place, Bearer
<1> QED
    BY <1>2, <1>3, <1>4, <1>5, <1>6, <1>7, <1>8, LastStepKeepsIInv DEF Bearer

LEMMA EnterKeepsIInv ==
    ASSUME IInv, TypeOK', NEW r \in Requests, Enter(r)
    PROVE  IInv'
<1> USE CallIsTyped
<1>1. /\ TypeOK /\ Place(r) /\ Unmade(r) /\ Reads(r) /\ Sent(r) /\ OldTokens(r) /\ OldSessions(r)
    BY DEF IInv, Knows
<1>2. /\ UNCHANGED <<users, password, role, reset, invitation, call, sent>>
      /\ pc[r] = "enter" /\ call[r].op \in Bearer
    BY <1>1 DEF Enter, people, secrets, history, Place
<1>3. pc[r] \in Labels /\ ~ Answered(r)
    BY <1>1, <1>2, NotAnsweredYet DEF Labels
<1>4. \A s \in Sessions : /\ session'[s].status = session[s].status
                          /\ session'[s].user = session[s].user
  <2>1. \A s \in Sessions : session[s] \in SessionRow
      BY <1>1 DEF TypeOK
  <2>2. \A seen \in SessionRow, now \in SessionRow :
           Touched(seen, now).status = now.status /\ Touched(seen, now).user = now.user
      BY DEF Touched, SessionRow
  <2>3. CASE session' = session
      BY <2>3
  <2>4. CASE session' = [session EXCEPT ![call[r].session] =
                            Touched(view[r].session, session[call[r].session])]
      BY <2>1, <2>2, <2>4, <1>1, ViewIsTyped DEF TypeOK
  <2> QED
      BY <2>3, <2>4 DEF Enter
<1>5. SessionsGrow({}) /\ ResetsGrow({}) /\ InvitationsGrow({}) /\ People'
    BY <1>2, <1>4 DEF SessionsGrow, ResetsGrow, InvitationsGrow, People, IInv
<1>6. CASE Answer(r, "unauthorized")
    BY <1>2, <1>3, <1>5, <1>6, LastStepKeepsIInv DEF Answers
<1>7. CASE Goto(r, "entered") /\ view' = view /\ password[Me(r)] # NoPassword
  <2>1. pc'[r] = "entered" /\ \A q \in Requests \ {r} : pc'[q] = pc[q] /\ view'[q] = view[q]
      BY <1>1, <1>7 DEF Goto, TypeOK
  <2>2. Grows({})
      BY <1>2, <1>3, <1>5, <2>1 DEF Grows
  <2>3. \A q \in Requests \ {r} : Leaves(q)
      BY <1>2, <2>1 DEF Leaves, IInv, Knows, Reads
  <2>4. ~ Confirming(r)' /\ ~ Accepting(r)' /\ ~ \E ops : Done(r, ops)'
      BY <2>1 DEF Confirming, Accepting, Done
  <2>5. Place(r)' /\ OldTokens(r)' /\ OldSessions(r)'
      BY <1>2, <2>1, <2>4 DEF Place, OldTokens, OldSessions
  <2>6. Unmade(r)'
      BY <1>1, <1>2, <1>3, <1>4 DEF Unmade, Sessions
  <2>7. view[r].sessions \subseteq Sessions /\ sent[r].sessions \subseteq Sessions
        /\ sent[r].answered \subseteq Requests
      BY <1>1, ViewIsTyped DEF View, TypeOK
  <2>8. Reads(r)'
    <3>1. InSession(r) /\ Me(r)' = Me(r)
        BY <1>2, <1>7 DEF InSession, Me
    <3> QED
        BY <1>1, <1>2, <1>4, <1>7, <2>1, <2>4, <2>7, <3>1 DEF Reads
  <2>9. Sent(r)'
      BY <1>1, <1>2, <1>4, <2>2, <2>7 DEF Sent, Grows, Answered
  <2>10. Knows(r)'
      BY <2>5, <2>6, <2>8, <2>9 DEF Knows
  <2> QED
      BY <1>3, <1>5, <2>2, <2>3, <2>4, <2>10, TogetherIInv
<1> QED
    BY <1>6, <1>7 DEF Enter, Me

LEMMA ChangeKeepsIInv ==
    ASSUME IInv, TypeOK', NEW r \in Requests, ChangePassword(r)
    PROVE  IInv'
<1> USE CallIsTyped
<1>1. /\ TypeOK /\ Reads(r) /\ Sent(r) /\ OldSessions(r)
    BY DEF IInv, Knows
<1>2. /\ UNCHANGED <<users, role, reset, invitation, call, sent>>
      /\ call[r].op = "change" /\ pc[r] = "close" /\ session' = Revoked(view[r].sessions)
      /\ password' = [password EXCEPT ![Me(r)] = call[r].new] /\ Answer(r, "ok")
    BY DEF ChangePassword, secrets, history, At
<1>3. /\ InSession(r) /\ session[call[r].session].status # "absent"
      /\ Me(r) = session[call[r].session].user /\ password[Me(r)] # NoPassword
      /\ Me(r) \in Emails /\ call[r].new # NoPassword
    BY <1>1, <1>2, ViewIsTyped, AccountsAssumption DEF InSession, Reads, Me
<1>4. \A s \in view[r].sessions : s \in Sessions /\ session[s].status # "absent"
    BY <1>1, ViewIsTyped DEF Reads, View
<1>5. SessionsGrow({}) /\ \A s \in view[r].sessions : session'[s].status = "revoked"
    BY <1>1, <1>2, <1>4, RevokedGrows
<1>6. ResetsGrow({}) /\ InvitationsGrow({})
    BY <1>2 DEF ResetsGrow, InvitationsGrow
<1>7. \A e \in Emails : password'[e] # NoPassword <=> password[e] # NoPassword
    BY <1>1, <1>2, <1>3 DEF TypeOK
<1>8. People'
    BY <1>1, <1>2, <1>7 DEF People, IInv, TypeOK, ResetRow
<1>9. pc'[r] = "ok" /\ OldTokens(r)'
    BY <1>1, <1>2, NothingOld DEF Answers
<1>10. OldSessions(r)'
  <2>1. Subject(r)' = Me(r)
    <3>1. Subject(r)' = session'[call[r].session].user
        BY <1>2, SubjectIsNext DEF Bearer
    <3>2. call[r].session \in Sessions
        BY <1>1
    <3>3. session'[call[r].session].user = session[call[r].session].user
        BY <3>2, <1>3, <1>5 DEF SessionsGrow
    <3> QED
        BY <3>1, <3>3, <1>3
  <2>2. ASSUME NEW s \in sent[r].sessions, session'[s].user = Me(r), s # call[r].session
        PROVE  session'[s].status # "open"
    <3>1. s \in Sessions /\ session[s].status # "absent"
        BY <1>1 DEF Sent, TypeOK
    <3>2. session'[s].user = session[s].user /\ session'[s].status \in {session[s].status, "revoked"}
        BY <3>1, <1>5 DEF SessionsGrow
    <3>3. s \in view[r].sessions \/ session[s].status = "revoked"
        BY <2>2, <3>2, <1>1, <1>2 DEF OldSessions
    <3> QED
        BY <3>2, <3>3, <1>5
  <2> QED
      BY <2>1, <2>2, <1>2, <1>9 DEF OldSessions
<1> QED
    BY <1>2, <1>3, <1>5, <1>6, <1>7, <1>8, <1>9, <1>10, LastStepKeepsIInv DEF Labels, Answers

\* Accounts that are made, and logins.
LEMMA OpenersKeepIInv ==
    ASSUME IInv, TypeOK', NEW r \in Requests,
           CreateAccount(r) \/ CreateUser(r) \/ CountFailure(r) \/ OpenSession(r)
    PROVE  IInv'
<1> USE CallIsTyped
<1>1. TypeOK /\ Unmade(r)
    BY DEF IInv, Knows
<1>2. /\ UNCHANGED <<role, reset, invitation, call, sent>>
      /\ call[r].op \in {"register", "createUser", "login"}
      /\ pc[r] \in {"create", "sent", "count", "open"}
    BY DEF CreateAccount, CreateUser, CountFailure, OpenSession, people, secrets, history, At
<1>3. pc[r] \in Labels /\ ~ Answered(r)
    BY <1>1, <1>2, NotAnsweredYet DEF Labels
<1>4. PICK label \in Answers : Answer(r, label)
  <2>1. CASE CreateAccount(r)
      BY <2>1 DEF CreateAccount, Answers
  <2>2. CASE CreateUser(r)
      BY <2>2 DEF CreateUser, Answers
  <2>3. CASE CountFailure(r)
      BY <2>3 DEF CountFailure, Answers
  <2>4. CASE OpenSession(r)
      BY <2>4 DEF OpenSession, Answers
  <2> QED
      BY <2>1, <2>2, <2>3, <2>4
<1>5. session' = session \/ session' = Opened(r, call[r].email)
    BY DEF CreateAccount, CreateUser, CountFailure, OpenSession
<1>6. SessionsGrow({r})
    BY <1>1, <1>3, <1>5, OpenedGrows DEF Unmade, SessionsGrow
<1>7. ResetsGrow({r}) /\ InvitationsGrow({r})
    BY <1>2 DEF ResetsGrow, InvitationsGrow
<1>8. /\ users \subseteq users'
      /\ \/ password' = password
         \/ /\ password' = [password EXCEPT ![call[r].email] = call[r].password]
            /\ users' = users \cup {call[r].email}
  <2>1. CASE CreateAccount(r)
      BY <2>1 DEF CreateAccount, people
  <2>2. CASE CreateUser(r)
      BY <2>2 DEF CreateUser
  <2>3. CASE CountFailure(r) \/ OpenSession(r)
      BY <2>3 DEF CountFailure, OpenSession, people
  <2> QED
      BY <2>1, <2>2, <2>3
<1>9. \A e \in Emails : /\ password[e] # NoPassword => password'[e] # NoPassword
                        /\ password'[e] # NoPassword => password[e] # NoPassword \/ e \in users'
    BY <1>1, <1>8, AccountsAssumption DEF TypeOK
<1>10. People'
    BY <1>1, <1>2, <1>8, <1>9 DEF People, IInv, TypeOK, ResetRow
<1>11. OldTokens(r)' /\ OldSessions(r)' /\ call[r].op \notin Bearer
    BY <1>1, <1>2, <1>4, NothingOld DEF Bearer
<1> QED
    BY <1>2, <1>3, <1>4, <1>6, <1>7, <1>8, <1>9, <1>10, <1>11, LastStepKeepsIInv

LEMMA AdministrationKeepsIInv ==
    ASSUME IInv, TypeOK', NEW r \in Requests, Invite(r) \/ PutMembership(r)
    PROVE  IInv'
<1> USE CallIsTyped
<1>1. TypeOK /\ Unmade(r) /\ Reads(r)
    BY DEF IInv, Knows
<1>2. /\ UNCHANGED <<users, password, session, reset, call, sent>>
      /\ call[r].op \in {"invite", "putMembership"}
      /\ pc[r] \in {"admitted", "assign"}
    BY DEF Invite, PutMembership, people, secrets, history, At
<1>3. pc[r] \in Labels /\ ~ Answered(r) /\ InSession(r)
      /\ session[call[r].session].status # "absent"
    BY <1>1, <1>2, NotAnsweredYet DEF Labels, InSession, Reads
<1>4. PICK label \in Answers : Answer(r, label)
  <2>1. CASE Invite(r)
      BY <2>1 DEF Invite, Answers
  <2>2. CASE PutMembership(r)
      BY <2>2 DEF PutMembership, Answers
  <2> QED
      BY <2>1, <2>2
<1>5. \/ invitation' = invitation
      \/ invitation' = [invitation EXCEPT ![r] = [email |-> call[r].email, role |-> call[r].role,
                                                  status |-> "open"]]
    BY DEF Invite, PutMembership, secrets
<1>6. \A t \in Tokens \ {r} : invitation'[t] = invitation[t]
    BY <1>1, <1>5 DEF TypeOK
<1>7. invitation[r].status = "absent"
    BY <1>1, <1>3 DEF Unmade
<1>8. SessionsGrow({r}) /\ ResetsGrow({r}) /\ InvitationsGrow({r})
    BY <1>2, <1>6, <1>7 DEF SessionsGrow, ResetsGrow, InvitationsGrow
<1>9. \A q \in Requests : Accepting(q) => invitation'[call[q].token] = invitation[call[q].token]
  <2>1. \A q \in Requests : Accepting(q) => call[q].token # r
      BY <1>7 DEF IInv, Knows, Reads
  <2> QED
      BY <2>1, <1>1, <1>6 DEF TypeOK, Call
<1>10. role' = role \/ (role' = [role EXCEPT ![call[r].email] = call[r].role] /\ call[r].email \in users)
  <2>1. CASE Invite(r)
      BY <2>1 DEF Invite, people
  <2>2. CASE PutMembership(r)
      BY <2>2, <1>1 DEF PutMembership, At, Reads
  <2> QED
      BY <2>1, <2>2
<1>11. People'
    BY <1>1, <1>2, <1>10 DEF People, IInv, TypeOK
<1>12. OldTokens(r)' /\ OldSessions(r)'
    BY <1>1, <1>2, <1>4, NothingOld
<1>13. call[r].op \notin {"confirm", "accept"}
    BY <1>2
<1> QED
    BY <1>2, <1>3, <1>4, <1>8, <1>9, <1>11, <1>12, <1>13, LastStepKeepsIInv

LEMMA AcceptKeepsIInv ==
    ASSUME IInv, TypeOK', NEW r \in Requests, Accept(r)
    PROVE  IInv'
<1> USE CallIsTyped
<1>1. TypeOK /\ Unmade(r) /\ Reads(r)
    BY DEF IInv, Knows
<1>2. /\ UNCHANGED <<reset, call, sent>>
      /\ call[r].op = "accept" /\ pc[r] = "accept"
    BY DEF Accept, history, At
<1>3. pc[r] \in Labels /\ ~ Answered(r) /\ Accepting(r)
    BY <1>1, <1>2, NotAnsweredYet DEF Labels, Accepting
<1>4. PICK label \in {"ok", "failed"} : Answer(r, label) /\ (label = "ok" => ~ Collides(r))
    BY DEF Accept
<1>5. label \in Answers /\ pc'[r] = label /\ OldTokens(r)' /\ OldSessions(r)'
    BY <1>1, <1>2, <1>4, NothingOld DEF Answers
<1>6. CASE UNCHANGED <<people, session, invitation>> /\ label = "failed"
  <2>1. SessionsGrow({}) /\ ResetsGrow({}) /\ InvitationsGrow({}) /\ People'
      BY <1>2, <1>6 DEF SessionsGrow, ResetsGrow, InvitationsGrow, People, people, IInv
  <2> QED
      BY <1>2, <1>3, <1>4, <1>5, <1>6, <2>1, LastStepKeepsIInv DEF people
<1>7. CASE /\ users' = users \cup {Invited(r)}
           /\ password' = IF view[r].account = "full" THEN password
                          ELSE [password EXCEPT ![Invited(r)] = call[r].password]
           /\ role' = IF view[r].role # NoRole THEN role
                      ELSE [role EXCEPT ![Invited(r)] = invitation[call[r].token].role]
           /\ invitation' = [invitation EXCEPT ![call[r].token].status = "accepted"]
           /\ session' = Opened(r, Invited(r))
  <2>1. Invited(r) \in Emails
      BY <1>1 DEF Invited, TypeOK, InvitationRow
  <2>2. SessionsGrow({r})
      BY <1>1, <1>3, <1>7, OpenedGrows DEF Unmade
  <2>3. ResetsGrow({r})
      BY <1>2 DEF ResetsGrow
  <2>4. /\ \A t \in Tokens \ {call[r].token} : invitation'[t] = invitation[t]
        /\ invitation'[call[r].token].status = "accepted"
    <3>1. invitation[call[r].token] \in InvitationRow
        BY <1>1 DEF TypeOK
    <3>2. [invitation[call[r].token] EXCEPT !.status = "accepted"].status = "accepted"
        BY <3>1 DEF InvitationRow
    <3> QED
        BY <1>1, <1>7, <3>2 DEF TypeOK
  <2>5. InvitationsGrow({r})
    <3>1. invitation[call[r].token].status # "absent"
        BY <1>1, <1>3 DEF Reads
    <3> QED
        BY <2>4, <3>1 DEF InvitationsGrow
  <2>6. \A e \in Emails : /\ password[e] # NoPassword => password'[e] # NoPassword
                          /\ password'[e] # NoPassword => password[e] # NoPassword \/ e \in users'
                          /\ role'[e] # NoRole => role[e] # NoRole \/ e \in users'
      BY <1>1, <1>7, <2>1, AccountsAssumption DEF TypeOK
  <2>7. People'
      BY <1>1, <1>2, <1>7, <2>6 DEF People, IInv, TypeOK, ResetRow
  <2>8. \A q \in Requests \ {r} : Accepting(q) => invitation'[call[q].token] = invitation[call[q].token]
    <3>1. \A q \in Requests \ {r} : Accepting(q) => call[q].token # call[r].token
        BY <1>3 DEF IInv, Locks
    <3> QED
        BY <3>1, <2>4, <1>1 DEF TypeOK, Call
  <2>9. call[r].op \notin Bearer /\ call[r].op # "confirm" /\ users \subseteq users'
      BY <1>2, <1>7 DEF Bearer
  <2> QED
      BY <1>2, <1>3, <1>4, <1>5, <2>2, <2>3, <2>4, <2>5, <2>6, <2>7, <2>8, <2>9, LastStepKeepsIInv
<1> QED
    BY <1>4, <1>5, <1>6, <1>7 DEF Accept, Answer, Goto, TypeOK

LEMMA ReplaceKeepsIInv ==
    ASSUME IInv, TypeOK', NEW r \in Requests, ReplaceTokens(r)
    PROVE  IInv'
<1> USE CallIsTyped
<1>1. TypeOK /\ Unmade(r) /\ Reads(r) /\ Sent(r) /\ OldTokens(r)
    BY DEF IInv, Knows
<1>2. /\ UNCHANGED <<users, password, role, session, invitation, call, sent>>
      /\ call[r].op = "resetRequest" /\ pc[r] = "replace" /\ Answer(r, "ok") /\ ~ Waits(r)
      /\ reset' = [Used(view[r].tokens) EXCEPT ![r] = [user |-> call[r].email, status |-> "usable"]]
    BY DEF ReplaceTokens, people, history, At
<1>3. /\ pc[r] \in Labels /\ ~ Answered(r) /\ reset[r].status = "absent"
      /\ password[call[r].email] # NoPassword /\ r \in Tokens
    BY <1>1, <1>2, NotAnsweredYet DEF Labels, Unmade, Reads, Tokens
<1>4. \A t \in view[r].tokens : t \in Tokens /\ reset[t].status # "absent"
    BY <1>1, ViewIsTyped DEF Reads, View
<1>5. \A t \in Tokens \ {r} : /\ reset'[t].user = reset[t].user
                              /\ t \in view[r].tokens => reset'[t].status = "used"
                              /\ t \notin view[r].tokens => reset'[t] = reset[t]
  <2>1. \A t \in Tokens \ {r} : reset'[t] = Used(view[r].tokens)[t]
      BY <1>2 DEF Used
  <2> QED
      BY <2>1, <1>1, <1>4, UsedGrows
<1>6. reset'[r] = [user |-> call[r].email, status |-> "usable"]
    BY <1>2, <1>3 DEF Used
<1>7. ResetsGrow({r})
    BY <1>3, <1>4, <1>5 DEF ResetsGrow
<1>8. SessionsGrow({r}) /\ InvitationsGrow({r})
    BY <1>2 DEF SessionsGrow, InvitationsGrow
<1>9. People'
  <2>1. ASSUME NEW t \in Tokens, reset'[t].status = "usable" PROVE password'[reset'[t].user] # NoPassword
    <3>1. CASE t = r
        BY <3>1, <1>2, <1>3, <1>6
    <3>2. CASE t # r
      <4>1. t \notin view[r].tokens /\ reset'[t] = reset[t]
          BY <2>1, <3>2, <1>5
      <4> QED
          BY <2>1, <4>1, <1>2 DEF IInv, People
    <3> QED
        BY <3>1, <3>2
  <2> QED
      BY <2>1, <1>2 DEF IInv, People
<1>10. \A q \in Requests \ {r} : Confirming(q) => reset'[call[q].token] = reset[call[q].token]
  <2> SUFFICES ASSUME NEW q \in Requests \ {r}, Confirming(q)
               PROVE  reset'[call[q].token] = reset[call[q].token]
      OBVIOUS
  <2>1. call[q].token \notin view[r].tokens
      BY <1>2 DEF Waits, WaitsFor, WantsResets, At
  <2>2. call[q].token # r /\ call[q].token \in Tokens
      BY <1>1, <1>3 DEF IInv, Knows, Reads
  <2> QED
      BY <2>1, <2>2, <1>5
<1>11. pc'[r] = "ok" /\ OldSessions(r)'
    BY <1>1, <1>2, NothingOld DEF Answers
<1>12. OldTokens(r)'
  <2>1. Subject(r)' = call[r].email
      BY <1>2, SubjectIsNext
  <2>2. ASSUME NEW t \in sent[r].tokens, reset'[t].user = call[r].email
        PROVE  reset'[t].status # "usable"
    <3>1. t \in Tokens /\ t # r
        BY <1>1, <1>3 DEF Sent, TypeOK
    <3>2. t \in view[r].tokens \/ reset[t].status = "used"
        BY <2>2, <3>1, <1>1, <1>2, <1>5 DEF OldTokens
    <3> QED
        BY <3>1, <3>2, <1>5
  <2> QED
      BY <2>1, <2>2, <1>2, <1>11 DEF OldTokens
<1>13. call[r].op \notin Bearer \cup {"confirm", "accept"}
    BY <1>2 DEF Bearer
<1> QED
    BY <1>2, <1>3, <1>7, <1>8, <1>9, <1>10, <1>11, <1>12, <1>13, LastStepKeepsIInv DEF Answers

LEMMA ConfirmKeepsIInv ==
    ASSUME IInv, TypeOK', NEW r \in Requests, Confirm(r)
    PROVE  IInv'
<1> USE CallIsTyped
<1>1. TypeOK /\ Reads(r) /\ Sent(r) /\ OldTokens(r) /\ OldSessions(r)
    BY DEF IInv, Knows
<1> DEFINE some == view[r].tokens \cup {call[r].token}
<1>2. /\ UNCHANGED <<users, role, invitation, call, sent>>
      /\ call[r].op = "confirm" /\ pc[r] = "confirm" /\ Answer(r, "ok") /\ ~ Waits(r)
      /\ reset' = Used(some) /\ session' = Revoked(view[r].sessions)
      /\ password' = [password EXCEPT ![Owner(r)] = call[r].new]
    BY DEF Confirm, history, At
<1>3. /\ pc[r] \in Labels /\ Confirming(r)
      /\ reset[call[r].token].status \in {"usable", "expired"}
      /\ password[Owner(r)] # NoPassword /\ call[r].new # NoPassword
    BY <1>1, <1>2, AccountsAssumption DEF Labels, Confirming, Reads
<1>4. \A t \in some : t \in Tokens /\ reset[t].status # "absent"
    BY <1>1, <1>3, ViewIsTyped DEF Reads, View
<1>5. \A t \in Tokens : /\ reset'[t].user = reset[t].user
                        /\ t \in some => reset'[t].status = "used"
                        /\ t \notin some => reset'[t] = reset[t]
    BY <1>1, <1>2, <1>4, UsedGrows
<1>6. \A s \in view[r].sessions : s \in Sessions /\ session[s].status # "absent"
    BY <1>1, ViewIsTyped DEF Reads, View
<1>7. SessionsGrow({}) /\ \A s \in view[r].sessions : session'[s].status = "revoked"
    BY <1>1, <1>2, <1>6, RevokedGrows
<1>8. call[r].token \in some /\ view[r].tokens \subseteq some
    OBVIOUS
<1> HIDE DEF some
<1>9. ResetsGrow({}) /\ InvitationsGrow({})
    BY <1>2, <1>4, <1>5 DEF ResetsGrow, InvitationsGrow
<1>10. \A e \in Emails : password'[e] # NoPassword <=> password[e] # NoPassword
    BY <1>1, <1>2, <1>3 DEF TypeOK
<1>11. People'
  <2>1. ASSUME NEW t \in Tokens, reset'[t].status = "usable" PROVE password'[reset'[t].user] # NoPassword
    <3>1. reset'[t] = reset[t] /\ reset[t].user \in Emails
        BY <2>1, <1>1, <1>5 DEF TypeOK, ResetRow
    <3> QED
        BY <2>1, <3>1, <1>10 DEF IInv, People
  <2> QED
      BY <2>1, <1>2, <1>10 DEF IInv, People
<1>12. \A q \in Requests \ {r} : Confirming(q) => reset'[call[q].token] = reset[call[q].token]
  <2> SUFFICES ASSUME NEW q \in Requests \ {r}, Confirming(q)
               PROVE  reset'[call[q].token] = reset[call[q].token]
      OBVIOUS
  <2>1. call[q].token \notin view[r].tokens
      BY <1>2 DEF Waits, WaitsFor, WantsResets, At
  <2>2. call[q].token # call[r].token /\ call[q].token \in Tokens
      BY <1>1, <1>3 DEF IInv, Locks
  <2> QED
      BY <2>1, <2>2, <1>5 DEF some
<1>13. pc'[r] = "ok"
    BY <1>1, <1>2, NothingOld DEF Answers
<1>14. Subject(r)' = Owner(r)
  <2>1. Subject(r)' = Owner(r)'
      BY <1>2, SubjectIsNext
  <2> QED
      BY <2>1, <1>1, <1>2, <1>5 DEF Owner
<1>15. OldTokens(r)'
  <2>1. ASSUME NEW t \in sent[r].tokens, reset'[t].user = Owner(r) PROVE reset'[t].status # "usable"
    <3>1. t \in Tokens
        BY <1>1 DEF TypeOK
    <3>2. t \in some \/ reset[t].status = "used"
        BY <2>1, <3>1, <1>1, <1>2, <1>5, <1>8 DEF OldTokens
    <3> QED
        BY <3>1, <3>2, <1>5
  <2> QED
      BY <2>1, <1>2, <1>13, <1>14 DEF OldTokens
<1>16. OldSessions(r)'
  <2>1. ASSUME NEW s \in sent[r].sessions, session'[s].user = Owner(r) PROVE session'[s].status # "open"
    <3>1. s \in Sessions /\ session[s].status # "absent"
        BY <1>1 DEF Sent, TypeOK
    <3>2. session'[s].user = session[s].user /\ session'[s].status \in {session[s].status, "revoked"}
        BY <3>1, <1>7 DEF SessionsGrow
    <3>3. s \in view[r].sessions \/ session[s].status = "revoked"
        BY <2>1, <3>2, <1>1, <1>2 DEF OldSessions
    <3> QED
        BY <3>2, <3>3, <1>7
  <2> QED
      BY <2>1, <1>2, <1>13, <1>14 DEF OldSessions
<1>17. call[r].op \notin Bearer \cup {"accept"} /\ reset'[call[r].token].status = "used"
    BY <1>1, <1>2, <1>5, <1>8 DEF Bearer
<1> QED
    BY <1>2, <1>3, <1>7, <1>9, <1>10, <1>11, <1>12, <1>15, <1>16, <1>17, LastStepKeepsIInv DEF Answers

\* A request is sent.
LEMMA SendKeepsIInv ==
    ASSUME IInv, TypeOK', NEW r \in Requests, Send(r)
    PROVE  IInv'
<1>1. TypeOK /\ Unmade(r) /\ Reads(r)
    BY DEF IInv, Knows
<1>2. /\ UNCHANGED <<users, password, role, session, reset, invitation, view, call>>
      /\ pc[r] = "idle" /\ pc'[r] = "sent"
      /\ sent'[r] = [sessions |-> {s \in Sessions : session[s].status # "absent"},
                     tokens   |-> {t \in Tokens : reset[t].status # "absent"},
                     answered |-> {q \in Requests : Answered(q)}]
      /\ \A q \in Requests \ {r} : pc'[q] = pc[q] /\ sent'[q] = sent[q]
    BY <1>1 DEF Send, Goto, TypeOK, tables, people, secrets
<1>3. ~ Answered(r)
    BY <1>1, <1>2, NotAnsweredYet DEF Labels
<1>4. Grows({})
    BY <1>2, <1>3 DEF Grows, SessionsGrow, ResetsGrow, InvitationsGrow
<1>5. \A q \in Requests \ {r} : Leaves(q)
    BY <1>2 DEF Leaves, IInv, Knows, Reads
<1>6. ~ Confirming(r)' /\ ~ Accepting(r)' /\ ~ InSession(r)' /\ ~ \E ops : Done(r, ops)'
    BY <1>2 DEF Confirming, Accepting, InSession, Done
<1>7. Place(r)' /\ OldTokens(r)' /\ OldSessions(r)'
    BY <1>2, <1>6 DEF Place, OldTokens, OldSessions
<1>8. Unmade(r)' /\ Reads(r)'
    BY <1>1, <1>2, <1>3, <1>6 DEF Unmade, Reads
<1>9. Sent(r)'
    BY <1>2, <1>3 DEF Sent, Answered
<1>10. People'
    BY <1>2 DEF People, IInv
<1> QED
    BY <1>3, <1>4, <1>5, <1>6, <1>7, <1>8, <1>9, <1>10, TogetherIInv DEF Knows

\* Time passes.
LEMMA TimeKeepsIInv ==
    ASSUME IInv, TypeOK',
           \/ \E s \in Sessions : Age(s)
           \/ \E t \in Tokens : ExpireReset(t) \/ ExpireInvitation(t)
           \/ \E e \in Emails : EndBlock(e) \/ EndWindow(e)
           \/ UNCHANGED vars
    PROVE  IInv'
<1>1. UNCHANGED <<users, password, role, call, pc, view, sent>>
    BY DEF Age, ExpireReset, ExpireInvitation, EndBlock, EndWindow, people, history, vars, tables
<1>2. SessionsGrow({})
  <2>1. CASE session' = session
      BY <2>1 DEF SessionsGrow
  <2>2. ASSUME NEW s \in Sessions, NEW later, session' = [session EXCEPT ![s].seen = later]
        PROVE  SessionsGrow({})
    <3>1. \A x \in Sessions : session[x] \in SessionRow
        BY DEF IInv, TypeOK
    <3>2. \A x \in Sessions : session'[x].status = session[x].status /\ session'[x].user = session[x].user
        BY <2>2, <3>1 DEF IInv, TypeOK, SessionRow
    <3> QED
        BY <3>2 DEF SessionsGrow
  <2>3. session' = session \/ \E s \in Sessions : \E later : session' = [session EXCEPT ![s].seen = later]
      BY DEF Age, ExpireReset, ExpireInvitation, EndBlock, EndWindow, vars, tables
  <2> QED
      BY <2>1, <2>2, <2>3
<1>3. \A t \in Tokens : \/ reset'[t] = reset[t]
                        \/ /\ reset[t].status = "usable" /\ reset'[t].status = "expired"
                           /\ reset'[t].user = reset[t].user
  <2>1. CASE reset' = reset
      BY <2>1
  <2>2. ASSUME NEW x \in Tokens, reset[x].status = "usable",
               reset' = [reset EXCEPT ![x].status = "expired"], NEW t \in Tokens
        PROVE  \/ reset'[t] = reset[t]
               \/ /\ reset[t].status = "usable" /\ reset'[t].status = "expired"
                  /\ reset'[t].user = reset[t].user
      BY <2>2 DEF IInv, TypeOK, ResetRow
  <2> QED
      BY <2>1, <2>2 DEF Age, ExpireReset, ExpireInvitation, EndBlock, EndWindow, vars, tables, secrets
<1>4. \A t \in Tokens : \/ invitation'[t] = invitation[t]
                        \/ invitation[t].status = "open" /\ invitation'[t].status = "expired"
  <2>1. CASE invitation' = invitation
      BY <2>1
  <2>2. ASSUME NEW x \in Tokens, invitation[x].status = "open",
               invitation' = [invitation EXCEPT ![x].status = "expired"], NEW t \in Tokens
        PROVE  \/ invitation'[t] = invitation[t]
               \/ invitation[t].status = "open" /\ invitation'[t].status = "expired"
      BY <2>2 DEF IInv, TypeOK, InvitationRow
  <2> QED
      BY <2>1, <2>2 DEF Age, ExpireReset, ExpireInvitation, EndBlock, EndWindow, vars, tables, secrets
<1>5. Grows({})
    BY <1>1, <1>2, <1>3, <1>4 DEF Grows, ResetsGrow, InvitationsGrow
<1>6. ASSUME NEW q \in Requests PROVE Leaves(q)
  <2>1. call[q].token \in Tokens
      BY CallIsTyped DEF IInv
  <2>2. Reads(q)
      BY DEF IInv, Knows
  <2> QED
      BY <2>1, <2>2, <1>1, <1>3, <1>4 DEF Leaves, Reads
<1>7. \A q \in Requests : Knows(q)'
    BY <1>5, <1>6, OthersGoOnKnowing
<1>8. People'
    BY <1>1, <1>3 DEF People, IInv
<1>9. Locks'
    BY <1>1 DEF Locks, Confirming, Accepting, IInv
<1> QED
    BY <1>7, <1>8, <1>9 DEF IInv

LEMMA InitIInv == Init => IInv
<1> SUFFICES ASSUME Init PROVE IInv
    OBVIOUS
<1>1. PICK sc \in Scenarios :
         /\ users = sc.database.users /\ password = sc.database.password
         /\ role = sc.database.role /\ session = sc.database.session
         /\ reset = sc.database.reset /\ invitation = sc.database.invitation
    BY DEF Init
<1>2. WellFormed(sc.database)
    BY AccountsAssumption
<1>3. TypeOK
    BY InitTyped
<1>4. \A r \in Requests : pc[r] = "idle" /\ view[r] = NothingSeen /\ sent[r] = NothingSent
    BY DEF Init
<1>5. People
    BY <1>1, <1>2 DEF WellFormed, People
<1>6. Locks
    BY <1>4 DEF Locks, Confirming, Accepting
<1>7. ASSUME NEW r \in Requests PROVE Knows(r)
  <2>1. pc[r] = "idle" /\ ~ InSession(r) /\ ~ Confirming(r) /\ ~ Accepting(r) /\ ~ \E ops : Done(r, ops)
      BY <1>4 DEF InSession, Confirming, Accepting, Done
  <2>2. Place(r) /\ OldTokens(r) /\ OldSessions(r)
      BY <2>1 DEF Place, OldTokens, OldSessions
  <2>3. Unmade(r)
      BY <1>1, <1>2 DEF WellFormed, Unmade
  <2>4. Reads(r)
    <3>1. view[r] = NothingSeen /\ pc[r] = "idle"
        BY <1>4
    <3>2. view[r].sessions = {} /\ view[r].tokens = {}
        BY <3>1 DEF NothingSeen
    <3> QED
        BY <2>1, <3>1, <3>2 DEF Reads
  <2>5. Sent(r)
      BY <1>4 DEF Sent, NothingSent
  <2> QED
      BY <2>2, <2>3, <2>4, <2>5 DEF Knows
<1> QED
    BY <1>3, <1>5, <1>6, <1>7 DEF IInv

LEMMA StepsKeepIInv == IInv /\ [Next]_vars => IInv'
<1> SUFFICES ASSUME IInv, [Next]_vars PROVE IInv'
    OBVIOUS
<1>1. TypeOK'
    BY StepsAreTyped DEF IInv
<1>2. ASSUME NEW r \in Requests, Handle(r) \/ Die(r) PROVE IInv'
  <2>1. \/ Reader(r) \/ Enter(r) \/ Confirm(r) \/ ReplaceTokens(r) \/ ChangePassword(r) \/ Accept(r)
        \/ (IdleOut(r) \/ Logout(r) \/ Revoke(r) \/ LogoutAll(r))
        \/ (CreateAccount(r) \/ CreateUser(r) \/ CountFailure(r) \/ OpenSession(r))
        \/ (Invite(r) \/ PutMembership(r))
      BY <1>2 DEF Handle, Reader
  <2> QED
      BY <2>1, <1>1, ReadersKeepIInv, EnterKeepsIInv, ConfirmKeepsIInv, ReplaceKeepsIInv,
         ChangeKeepsIInv, AcceptKeepsIInv, ClosersKeepIInv, OpenersKeepIInv,
         AdministrationKeepsIInv
<1> QED
    BY <1>1, <1>2, SendKeepsIInv, TimeKeepsIInv DEF Next

\* What a request knows stays true, whatever other requests do.
THEOREM AccountsInvariant == Spec => []IInv
  BY InitIInv, StepsKeepIInv, PTL DEF Spec

-----------------------------------------------------------------------------
(* What follows for the properties.                                           *)

\* Who is answered ok has made the last step of its operation.
LEMMA HowItGetsOk ==
    ASSUME TypeOK, [Next]_vars, NEW r \in Requests, pc[r] # "ok", pc'[r] = "ok"
    PROVE  /\ call[r].op = "confirm" => Confirm(r)
           /\ call[r].op = "accept" => Accept(r)
           /\ call[r].op = "login" => OpenSession(r)
           /\ call[r].op = "change" => ChangePassword(r)
           /\ call' = call
           /\ \A q \in Requests \ {r} : pc'[q] = pc[q]
<1>1. ASSUME NEW q \in Requests, NEW label, Goto(q, label) PROVE q = r /\ label = "ok"
    BY <1>1 DEF Goto, TypeOK
<1>2. ASSUME NEW q \in Requests, NEW label, Answer(q, label) PROVE q = r /\ label = "ok"
    BY <1>1, <1>2 DEF Answer
<1>3. ~ Die(r) /\ ~ \E q \in Requests \ {r} : Die(q)
    BY <1>2 DEF Die
<1>4. ~ \E q \in Requests : Send(q)
    BY <1>1 DEF Send
<1>5. ~ UNCHANGED vars /\ ~ (\E s \in Sessions : Age(s))
      /\ ~ (\E t \in Tokens : ExpireReset(t) \/ ExpireInvitation(t))
      /\ ~ (\E e \in Emails : EndBlock(e) \/ EndWindow(e))
    BY DEF vars, Age, ExpireReset, ExpireInvitation, EndBlock, EndWindow
<1>6. PICK q \in Requests : Handle(q)
    BY <1>3, <1>4, <1>5 DEF Next
<1>7. ~ (Authenticate(q) \/ IdleOut(q) \/ Enter(q) \/ LookForSessions(q) \/ Register(q) \/ Login(q))
    BY <1>1, <1>2 DEF Authenticate, IdleOut, Enter, LookForSessions, Register, Login
<1>8. ~ (Verify(q) \/ CountFailure(q) \/ LockToken(q) \/ ReadTokens(q) \/ ReadSessions(q))
    BY <1>1, <1>2 DEF Verify, CountFailure, LockToken, ReadTokens, ReadSessions
<1>9. ~ (DeadlockVictim(q) \/ Admit(q) \/ ReadMembership(q) \/ Review(q))
    BY <1>1, <1>2 DEF DeadlockVictim, Admit, ReadMembership, Review
<1>10. ~ LockInvitation(q)
  <2>1. invitation[call[q].token].status \in {"absent", "open", "expired", "accepted"}
      BY CallIsTyped DEF TypeOK, InvitationRow
  <2> QED
      BY <2>1, <1>1, <1>2 DEF LockInvitation
<1>11. \/ Logout(q) \/ Revoke(q) \/ LogoutAll(q) \/ ChangePassword(q)
       \/ CreateAccount(q) \/ CreateUser(q) \/ OpenSession(q) \/ RequestReset(q) \/ ReplaceTokens(q)
       \/ Confirm(q) \/ Invite(q) \/ PutMembership(q) \/ Accept(q)
    BY <1>6, <1>7, <1>8, <1>9, <1>10 DEF Handle
<1>12. Answer(q, "ok")
  <2>1. \E label : Answer(q, label) \/ Goto(q, label)
      BY <1>11 DEF Logout, Revoke, LogoutAll, ChangePassword, CreateAccount, CreateUser, OpenSession,
            RequestReset, ReplaceTokens, Confirm, Invite, PutMembership, Accept
  <2>2. ASSUME NEW label, Goto(q, label), ~ Answer(q, label) PROVE FALSE
      BY <1>1, <1>11, <2>2 DEF Logout, Revoke, LogoutAll, ChangePassword, CreateAccount, CreateUser,
         OpenSession, RequestReset, ReplaceTokens, Confirm, Invite, PutMembership, Accept, Answer
  <2> QED
      BY <1>2, <2>1, <2>2
<1>13. q = r
    BY <1>2, <1>12
<1>14. \A x \in Requests \ {r} : pc'[x] = pc[x]
    BY <1>12, <1>13 DEF Answer, Goto, TypeOK
<1>15. call' = call
    BY <1>11 DEF Logout, Revoke, LogoutAll, ChangePassword, CreateAccount, CreateUser, OpenSession,
            RequestReset, ReplaceTokens, Confirm, Invite, PutMembership, Accept, history
<1>16. /\ Logout(r) => call[r].op = "logout"
       /\ Revoke(r) => call[r].op = "revoke"
       /\ LogoutAll(r) => call[r].op = "logoutAll"
       /\ ChangePassword(r) => call[r].op = "change"
       /\ CreateAccount(r) => call[r].op = "register"
       /\ CreateUser(r) => call[r].op = "createUser"
       /\ OpenSession(r) => call[r].op = "login"
       /\ RequestReset(r) \/ ReplaceTokens(r) => call[r].op = "resetRequest"
       /\ Confirm(r) => call[r].op = "confirm"
       /\ Invite(r) => call[r].op = "invite"
       /\ PutMembership(r) => call[r].op = "putMembership"
       /\ Accept(r) => call[r].op = "accept"
    BY DEF Logout, Revoke, LogoutAll, ChangePassword, CreateAccount, CreateUser, OpenSession,
            RequestReset, ReplaceTokens, Confirm, Invite, PutMembership, Accept, At
<1> QED
    BY <1>11, <1>13, <1>14, <1>15, <1>16

\* After a new reset token has been asked for, and after a reset, no token works
\* that there was when the request was sent.
THEOREM OldTokensDie == Spec => []OldTokensAreDead
<1>1. IInv => OldTokensAreDead
    BY DEF IInv, Knows, OldTokens, OldTokensAreDead
<1> QED
    BY <1>1, AccountsInvariant, PTL

\* After a reset, a change of the password or a logout everywhere, no session is
\* open that there was when the request was sent.
THEOREM OldSessionsEnd == Spec => []OldSessionsAreGone
<1>1. IInv => OldSessionsAreGone
    BY DEF IInv, Knows, OldSessions, OldSessionsAreGone
<1> QED
    BY <1>1, AccountsInvariant, PTL

LEMMA CallStays == [Next]_vars => call' = call
<1> SUFFICES ASSUME [Next]_vars PROVE call' = call
    OBVIOUS
<1>1. ASSUME NEW r \in Requests, Handle(r) PROVE call' = call
  <2>1. CASE Authenticate(r) \/ IdleOut(r) \/ Enter(r) \/ Logout(r) \/ Revoke(r)
             \/ LookForSessions(r) \/ LogoutAll(r) \/ ChangePassword(r)
      BY <2>1 DEF Authenticate, IdleOut, Enter, Logout, Revoke, LookForSessions, LogoutAll,
                  ChangePassword, history
  <2>2. CASE Register(r) \/ CreateAccount(r) \/ CreateUser(r)
             \/ Login(r) \/ Verify(r) \/ CountFailure(r) \/ OpenSession(r)
      BY <2>2 DEF Register, CreateAccount, CreateUser, Login, Verify, CountFailure, OpenSession, history
  <2>3. CASE RequestReset(r) \/ ReplaceTokens(r) \/ LockToken(r) \/ ReadTokens(r) \/ ReadSessions(r)
             \/ Confirm(r) \/ DeadlockVictim(r)
      BY <2>3 DEF RequestReset, ReplaceTokens, LockToken, ReadTokens, ReadSessions, Confirm,
                  DeadlockVictim, history
  <2>4. CASE Admit(r) \/ Invite(r) \/ ReadMembership(r) \/ PutMembership(r)
             \/ LockInvitation(r) \/ Review(r) \/ Accept(r)
      BY <2>4 DEF Admit, Invite, ReadMembership, PutMembership, LockInvitation, Review, Accept, history
  <2> QED
      BY <1>1, <2>1, <2>2, <2>3, <2>4 DEF Handle
<1>2. ASSUME NEW r \in Requests, Send(r) \/ Die(r) PROVE call' = call
    BY <1>2 DEF Send, Die, history
<1>3. CASE \/ \E s \in Sessions : Age(s)
           \/ \E t \in Tokens : ExpireReset(t) \/ ExpireInvitation(t)
           \/ \E e \in Emails : EndBlock(e) \/ EndWindow(e)
    BY <1>3 DEF Age, ExpireReset, ExpireInvitation, EndBlock, EndWindow, history
<1>4. CASE UNCHANGED vars
    BY <1>4 DEF vars, history
<1> QED
    BY <1>1, <1>2, <1>3, <1>4 DEF Next

\* A reset token sets a password once, an invitation is accepted once: who does
\* it holds the row, and finds it neither used nor accepted.
THEOREM EachTokenWorksOnce == Spec => []TokensWorkOnce
<1>1. Init => TokensWorkOnce
    BY DEF Init, TokensWorkOnce, Done
<1>2. IInv /\ TokensWorkOnce /\ [Next]_vars => TokensWorkOnce'
  <2> SUFFICES ASSUME IInv, TokensWorkOnce, [Next]_vars, NEW r \in Requests, NEW q \in Requests, r # q,
                      call'[r].token = call'[q].token
               PROVE  /\ ~ (Done(r, {"confirm"})' /\ Done(q, {"confirm"})')
                      /\ ~ (Done(r, {"accept"})' /\ Done(q, {"accept"})')
      BY DEF TokensWorkOnce
  <2>1. call' = call /\ TypeOK
      BY CallStays DEF IInv
  <2>2. ASSUME NEW x \in Requests, NEW y \in Requests, x # y, call[x].token = call[y].token,
               pc[x] # "ok", pc'[x] = "ok", pc'[y] = "ok"
        PROVE  /\ ~ (call[x].op = "confirm" /\ call[y].op = "confirm")
               /\ ~ (call[x].op = "accept" /\ call[y].op = "accept")
    <3>1. pc[y] = "ok"
        BY <2>1, <2>2, HowItGetsOk
    <3>2. call[y].op = "confirm" => reset[call[y].token].status = "used"
        BY <3>1 DEF IInv, Knows, Reads, Done
    <3>3. call[y].op = "accept" => invitation[call[y].token].status = "accepted"
        BY <3>1 DEF IInv, Knows, Reads, Done
    <3>4. call[x].op = "confirm" => reset[call[x].token].status \in {"usable", "expired"}
      <4>1. call[x].op = "confirm" => Confirming(x)
          BY <2>1, <2>2, HowItGetsOk DEF Confirm, At, Confirming
      <4> QED
          BY <4>1 DEF IInv, Knows, Reads
    <3>5. call[x].op = "accept" => invitation[call[x].token].status \in {"open", "expired"}
      <4>1. call[x].op = "accept" => Accepting(x)
          BY <2>1, <2>2, HowItGetsOk DEF Accept, At, Accepting
      <4> QED
          BY <4>1 DEF IInv, Knows, Reads
    <3> QED
        BY <2>2, <3>2, <3>3, <3>4, <3>5
  <2>3. ~ (pc[r] = "ok" /\ pc[q] = "ok" /\ call[r].op = "confirm" /\ call[q].op = "confirm")
      BY <2>1 DEF TokensWorkOnce, Done
  <2>4. ~ (pc[r] = "ok" /\ pc[q] = "ok" /\ call[r].op = "accept" /\ call[q].op = "accept")
      BY <2>1 DEF TokensWorkOnce, Done
  <2> QED
      BY <2>1, <2>2, <2>3, <2>4 DEF Done
<1> QED
    BY <1>1, <1>2, AccountsInvariant, PTL DEF Spec

\* To accept an invitation never replaces a password or a role.
THEOREM AcceptingKeepsTheAccount == Spec => AcceptKeepsAccount
<1>1. ASSUME IInv, [Next]_vars, NEW r \in Requests, call[r].op = "accept", pc[r] # "ok", pc'[r] = "ok"
      PROVE  /\ password[Invited(r)] \in {NoPassword, password'[Invited(r)]}
             /\ role[Invited(r)] \in {NoRole, role'[Invited(r)]}
  <2>1. Accept(r) /\ TypeOK /\ People
      BY <1>1, HowItGetsOk DEF IInv
  <2>2. ~ Collides(r)
      BY <1>1, <2>1 DEF Accept, Answer, Goto, TypeOK
  <2>3. Invited(r) \in Emails
      BY <2>1, CallIsTyped DEF Invited, TypeOK, InvitationRow
  <2>4. view[r].account \in {"new", "bare", "full"}
      BY <2>1, ViewIsTyped DEF View
  <2>5. view[r].account # "full" => password[Invited(r)] = NoPassword
      BY <2>1, <2>2, <2>3, <2>4 DEF Collides, People
  <2>6. view[r].role = NoRole => role[Invited(r)] = NoRole
      BY <2>2 DEF Collides
  <2>7. /\ view[r].account = "full" => password' = password
        /\ view[r].role # NoRole => role' = role
      BY <2>1, <2>2 DEF Accept
  <2> QED
      BY <2>5, <2>6, <2>7
<1>2. IInv /\ [Next]_vars =>
        \A r \in Requests : call[r].op = "accept" /\ pc[r] # "ok" /\ pc'[r] = "ok" =>
           /\ password[Invited(r)] \in {NoPassword, password'[Invited(r)]}
           /\ role[Invited(r)] \in {NoRole, role'[Invited(r)]}
    BY <1>1
<1> QED
    BY <1>2, AccountsInvariant, PTL DEF Spec, AcceptKeepsAccount

-----------------------------------------------------------------------------
(* What no step undoes.                                                       *)

LEMMA SessionsLast ==
    ASSUME IInv, [Next]_vars, NEW s \in Sessions, session[s].status # "absent"
    PROVE  session'[s].user = session[s].user /\ session'[s].status \in {session[s].status, "revoked"}
<1> USE CallIsTyped
<1>1. TypeOK /\ session[s] \in SessionRow
    BY DEF IInv, TypeOK
<1>2. CASE session' = session
    BY <1>2
<1>3. ASSUME NEW some, session' = Revoked(some)
      PROVE  session'[s].user = session[s].user /\ session'[s].status \in {session[s].status, "revoked"}
  <2>1. session'[s] = session[s] \/ session'[s] = [session[s] EXCEPT !.status = "revoked"]
      BY <1>3 DEF Revoked
  <2> QED
      BY <2>1, <1>1 DEF SessionRow
<1>4. ASSUME NEW r \in Requests, NEW e, session' = Opened(r, e),
             pc[r] \in {"create", "open", "accept"}
      PROVE  session'[s] = session[s]
  <2>1. session[r].status = "absent"
      BY <1>1, <1>4, NotAnsweredYet DEF IInv, Knows, Unmade, Labels
  <2> QED
      BY <2>1, <1>1, <1>4 DEF Opened, TypeOK, Sessions
<1>5. ASSUME NEW r \in Requests, Handle(r)
      PROVE  session'[s].user = session[s].user /\ session'[s].status \in {session[s].status, "revoked"}
  <2>1. CASE Enter(r)
    <3>1. \A seen \in SessionRow, now \in SessionRow :
             Touched(seen, now).status = now.status /\ Touched(seen, now).user = now.user
        BY DEF Touched, SessionRow
    <3>2. CASE session' = [session EXCEPT ![call[r].session] =
                              Touched(view[r].session, session[call[r].session])]
        BY <1>1, <3>1, <3>2, ViewIsTyped DEF TypeOK
    <3> QED
        BY <2>1, <1>2, <3>2 DEF Enter
  <2>2. CASE IdleOut(r) \/ Logout(r) \/ Revoke(r) \/ LogoutAll(r) \/ ChangePassword(r) \/ Confirm(r)
      BY <2>2, <1>2, <1>3 DEF IdleOut, Logout, Revoke, LogoutAll, ChangePassword, Confirm
  <2>3. CASE CreateAccount(r) \/ OpenSession(r) \/ Accept(r)
    <3>1. session' = session \/ \E e : session' = Opened(r, e)
        BY <2>3 DEF CreateAccount, OpenSession, Accept
    <3>2. pc[r] \in {"create", "open", "accept"}
        BY <2>3 DEF CreateAccount, OpenSession, Accept, At
    <3> QED
        BY <1>2, <1>4, <3>1, <3>2
  <2>4. CASE Authenticate(r) \/ LookForSessions(r) \/ Register(r) \/ Login(r) \/ Verify(r)
             \/ RequestReset(r) \/ LockToken(r) \/ ReadTokens(r) \/ ReadSessions(r)
             \/ DeadlockVictim(r) \/ Admit(r) \/ ReadMembership(r) \/ LockInvitation(r) \/ Review(r)
    <3>1. UNCHANGED tables
        BY <2>4, ReadersOnlyRead DEF IInv, Reader
    <3> QED
        BY <1>2, <3>1 DEF tables
  <2>5. CASE CreateUser(r) \/ CountFailure(r) \/ ReplaceTokens(r) \/ Invite(r) \/ PutMembership(r)
      BY <2>5, <1>2 DEF CreateUser, CountFailure, ReplaceTokens, Invite, PutMembership
  <2> QED
      BY <1>5, <2>1, <2>2, <2>3, <2>4, <2>5 DEF Handle
<1>6. ASSUME NEW x \in Sessions, Age(x)
      PROVE  session'[s].user = session[s].user /\ session'[s].status = session[s].status
  <2>1. PICK later : session' = [session EXCEPT ![x].seen = later]
      BY <1>6 DEF Age
  <2> QED
      BY <2>1, <1>1 DEF TypeOK, SessionRow
<1>7. CASE \/ \E r \in Requests : Send(r) \/ Die(r)
           \/ \E t \in Tokens : ExpireReset(t) \/ ExpireInvitation(t)
           \/ \E e \in Emails : EndBlock(e) \/ EndWindow(e)
           \/ UNCHANGED vars
    BY <1>7, <1>2 DEF Send, Die, ExpireReset, ExpireInvitation, EndBlock, EndWindow, tables, vars
<1> QED
    BY <1>5, <1>6, <1>7 DEF Next

\* A closed session stays closed: a request that touches it writes the time only.
THEOREM ClosedSessionsStayClosed == Spec => RevokedForGood
<1>1. IInv /\ [Next]_vars =>
        \A s \in Sessions : session[s].status = "revoked" => session'[s].status = "revoked"
    BY SessionsLast
<1> QED
    BY <1>1, AccountsInvariant, PTL DEF Spec, RevokedForGood

-----------------------------------------------------------------------------
(* The throttle counts no more failures than there were, neither in its row   *)
(* nor in what a login under way has read of it.                              *)

CountsNoMore(row, e) ==
    row.failures <= failed[e] /\ (row.blocked = "future" => failed[e] >= MaxFailures)

ThrottleInv ==
    /\ \A e \in Emails : CountsNoMore(throttle[e], e)
    /\ \A r \in Requests :
          /\ At(r, "login", "count") => CountsNoMore(view[r].throttle, call[r].email)
          /\ pc[r] = "throttled" => failed[call[r].email] >= MaxFailures

LEMMA CountsOneMore ==
    ASSUME NEW seen \in ThrottleRow, NEW now \in ThrottleRow, NEW n \in Nat,
           seen.failures <= n, seen.blocked = "future" => n >= MaxFailures,
           now.failures <= n, now.blocked = "future" => n >= MaxFailures,
           NEW row, row = Counted(seen) \/ row = Written(seen, Counted(seen), now)
    PROVE  row.failures <= n + 1 /\ (row.blocked = "future" => n + 1 >= MaxFailures)
<1>1. /\ seen.failures \in Nat /\ now.failures \in Nat /\ MaxFailures \in Nat
    BY AccountsAssumption DEF ThrottleRow
<1>2. /\ Counted(seen).failures <= n + 1
      /\ Counted(seen).blocked = "future" => n + 1 >= MaxFailures
    BY <1>1 DEF Counted
<1>3. CASE row = Written(seen, Counted(seen), now)
  <2>1. row.failures \in {now.failures, Counted(seen).failures}
        /\ row.blocked \in {now.blocked, Counted(seen).blocked}
      BY <1>3 DEF Written
  <2> QED
      BY <2>1, <1>1, <1>2
<1> QED
    BY <1>2, <1>3

LEMMA OthersLeaveTheThrottle ==
    ASSUME IInv, NEW r \in Requests, Handle(r),
           ~ (Login(r) \/ Verify(r) \/ CountFailure(r) \/ OpenSession(r))
    PROVE  /\ UNCHANGED <<throttle, failed>>
           /\ pc'[r] \notin {"throttled", "count"}
           /\ \A q \in Requests \ {r} : pc'[q] = pc[q] /\ view'[q] = view[q]
<1>1. TypeOK
    BY DEF IInv
<1>2. \A label : Goto(r, label) \/ Answer(r, label) =>
         pc'[r] = label /\ \A q \in Requests \ {r} : pc'[q] = pc[q]
    BY <1>1 DEF Goto, Answer, TypeOK
<1>3. (\E label : Answer(r, label)) \/ view' = view => \A q \in Requests \ {r} : view'[q] = view[q]
    BY <1>1 DEF Answer, TypeOK
<1>4. CASE Authenticate(r) \/ LookForSessions(r) \/ Register(r) \/ RequestReset(r)
           \/ LockToken(r) \/ ReadTokens(r) \/ ReadSessions(r)
           \/ DeadlockVictim(r) \/ Admit(r) \/ ReadMembership(r) \/ LockInvitation(r) \/ Review(r)
  <2>1. UNCHANGED tables /\ UNCHANGED history /\ \A q \in Requests \ {r} : view'[q] = view[q]
    <3>1. UNCHANGED tables /\ \A q \in Requests \ {r} : Leaves(q)
        BY <1>4, ReadersOnlyRead DEF Reader
    <3>2. UNCHANGED history
        BY <1>4 DEF Authenticate, LookForSessions, Register, RequestReset, LockToken, ReadTokens,
              ReadSessions, DeadlockVictim, Admit, ReadMembership, LockInvitation, Review
    <3> QED
        BY <3>1, <3>2 DEF Leaves
  <2>2. \E label : (Goto(r, label) \/ Answer(r, label)) /\ label \notin {"throttled", "count"}
    <3>1. CASE LockInvitation(r)
      <4>1. invitation[call[r].token].status \in {"absent", "open", "expired", "accepted"}
          BY <1>1, CallIsTyped DEF TypeOK, InvitationRow
      <4> QED
          BY <3>1, <4>1 DEF LockInvitation
    <3>2. CASE Authenticate(r) \/ LookForSessions(r) \/ Register(r) \/ RequestReset(r)
        BY <3>2 DEF Authenticate, LookForSessions, Register, RequestReset
    <3>3. CASE LockToken(r) \/ ReadTokens(r) \/ ReadSessions(r) \/ DeadlockVictim(r)
        BY <3>3 DEF LockToken, ReadTokens, ReadSessions, DeadlockVictim
    <3>4. CASE Admit(r) \/ ReadMembership(r) \/ Review(r)
        BY <3>4 DEF Admit, ReadMembership, Review
    <3> QED
        BY <1>4, <3>1, <3>2, <3>3, <3>4
  <2> QED
      BY <1>2, <2>1, <2>2 DEF tables, history
<1>5. CASE IdleOut(r) \/ Enter(r) \/ Logout(r) \/ Revoke(r) \/ LogoutAll(r) \/ ChangePassword(r)
           \/ CreateAccount(r) \/ CreateUser(r)
  <2>1. UNCHANGED <<throttle, failed>>
      BY <1>5 DEF IdleOut, Enter, Logout, Revoke, LogoutAll, ChangePassword, CreateAccount,
                  CreateUser, history
  <2>2. \E label : /\ Answer(r, label) \/ (Goto(r, label) /\ view' = view)
                   /\ label \notin {"throttled", "count"}
      BY <1>5 DEF IdleOut, Enter, Logout, Revoke, LogoutAll, ChangePassword, CreateAccount, CreateUser
  <2> QED
      BY <1>2, <1>3, <2>1, <2>2
<1>6. CASE ReplaceTokens(r) \/ Confirm(r) \/ Invite(r) \/ PutMembership(r) \/ Accept(r)
  <2>1. UNCHANGED <<throttle, failed>>
      BY <1>6 DEF ReplaceTokens, Confirm, Invite, PutMembership, Accept, history
  <2>2. \E label : Answer(r, label) /\ label \notin {"throttled", "count"}
      BY <1>6 DEF ReplaceTokens, Confirm, Invite, PutMembership, Accept
  <2> QED
      BY <1>2, <1>3, <2>1, <2>2
<1> QED
    BY <1>4, <1>5, <1>6 DEF Handle

LEMMA ThrottleStep ==
    ASSUME IInv, TypeOK', ThrottleInv, [Next]_vars
    PROVE  ThrottleInv'
<1> USE CallIsTyped
<1>1. call' = call /\ TypeOK
    BY CallStays DEF IInv
<1>2. ASSUME UNCHANGED <<throttle, failed>>,
             NEW r \in Requests, \A q \in Requests \ {r} : pc'[q] = pc[q] /\ view'[q] = view[q],
             pc'[r] \notin {"throttled", "count"}
      PROVE  ThrottleInv'
    BY <1>1, <1>2 DEF ThrottleInv, CountsNoMore, At
<1>3. ASSUME NEW r \in Requests, NEW label, Goto(r, label) \/ Answer(r, label)
      PROVE  pc'[r] = label /\ \A q \in Requests \ {r} : pc'[q] = pc[q]
    BY <1>1, <1>3 DEF Goto, Answer, TypeOK
<1>4. ASSUME NEW r \in Requests, Login(r) PROVE ThrottleInv'
  <2>1. UNCHANGED <<throttle, failed>> /\ \A q \in Requests \ {r} : pc'[q] = pc[q] /\ view'[q] = view[q]
      BY <1>1, <1>4 DEF Login, Answer, Goto, TypeOK, tables, history
  <2>2. CASE pc'[r] = "throttled"
    <3>1. throttle[call[r].email].blocked = "future"
        BY <1>3, <1>4, <2>2 DEF Login
    <3> QED
        BY <1>1, <2>1, <2>2, <3>1 DEF ThrottleInv, CountsNoMore, At
  <2>3. CASE pc'[r] # "throttled"
    <3>1. pc'[r] = "verify"
        BY <1>3, <1>4, <2>3 DEF Login
    <3> QED
        BY <1>2, <2>1, <3>1
  <2> QED
      BY <2>2, <2>3
<1>5. ASSUME NEW r \in Requests, Verify(r) PROVE ThrottleInv'
  <2>1. UNCHANGED <<throttle, failed>>
        /\ \A q \in Requests \ {r} : pc'[q] = pc[q] /\ view'[q] = view[q]
      BY <1>1, <1>5 DEF Verify, Goto, TypeOK, tables, history
  <2>2. view'[r].throttle = throttle[call[r].email]
    <3>1. view[r] \in View
        BY <1>1, ViewIsTyped
    <3>2. \A x : [view[r] EXCEPT !.throttle = x].throttle = x
        BY <3>1 DEF View
    <3>3. view'[r] = [view[r] EXCEPT !.throttle = throttle[call[r].email]]
        BY <1>1, <1>5 DEF Verify, TypeOK
    <3> QED
        BY <3>2, <3>3
  <2>3. pc'[r] # "throttled"
      BY <1>3, <1>5 DEF Verify
  <2> QED
      BY <1>1, <2>1, <2>2, <2>3 DEF ThrottleInv, CountsNoMore, At
<1>6. ASSUME NEW r \in Requests, OpenSession(r) PROVE ThrottleInv'
  <2>1. /\ \A q \in Requests \ {r} : pc'[q] = pc[q] /\ view'[q] = view[q]
        /\ pc'[r] = "ok" /\ failed' = failed
      BY <1>1, <1>6 DEF OpenSession, Answer, Goto, TypeOK, history
  <2>2. \A e \in Emails : throttle'[e] = throttle[e] \/ throttle'[e] = NoRow
      BY <1>1, <1>6 DEF OpenSession, Cleared, TypeOK
  <2>3. NoRow.failures = 0 /\ NoRow.blocked # "future"
      BY DEF NoRow
  <2>4. ASSUME NEW e \in Emails PROVE CountsNoMore(throttle[e], e)'
    <3>1. failed[e] \in Nat
        BY <1>1 DEF TypeOK
    <3> QED
        BY <2>1, <2>2, <2>3, <3>1 DEF ThrottleInv, CountsNoMore
  <2> QED
      BY <1>1, <2>1, <2>4 DEF ThrottleInv, CountsNoMore, At
<1>7. ASSUME NEW r \in Requests, CountFailure(r) PROVE ThrottleInv'
  <2> DEFINE e == call[r].email
             seen == view[r].throttle
  <2>1. /\ \A q \in Requests \ {r} : pc'[q] = pc[q] /\ view'[q] = view[q]
        /\ pc'[r] \in {"failed", "unauthorized"}
      BY <1>1, <1>7 DEF CountFailure, Answer, Goto, TypeOK
  <2>2. CASE UNCHANGED <<throttle, failed>>
      BY <1>2, <2>1, <2>2
  <2>3. ASSUME NEW row, throttle' = [throttle EXCEPT ![e] = row],
               row = Counted(seen) \/ row = Written(seen, Counted(seen), throttle[e]),
               failed' = [failed EXCEPT ![e] = @ + 1]
        PROVE  ThrottleInv'
    <3>1. e \in Emails /\ seen \in ThrottleRow /\ throttle[e] \in ThrottleRow /\ failed[e] \in Nat
        BY <1>1, ViewIsTyped DEF TypeOK
    <3>2. /\ seen.failures <= failed[e] /\ (seen.blocked = "future" => failed[e] >= MaxFailures)
          /\ throttle[e].failures <= failed[e]
          /\ (throttle[e].blocked = "future" => failed[e] >= MaxFailures)
        BY <1>7, <3>1 DEF CountFailure, ThrottleInv, CountsNoMore
    <3>3. row.failures <= failed[e] + 1 /\ (row.blocked = "future" => failed[e] + 1 >= MaxFailures)
        BY <2>3, <3>1, <3>2, CountsOneMore
    <3>4. throttle'[e] = row /\ failed'[e] = failed[e] + 1
        BY <1>1, <2>3, <3>1 DEF TypeOK
    <3>5. \A x \in Emails \ {e} : throttle'[x] = throttle[x] /\ failed'[x] = failed[x]
        BY <1>1, <2>3 DEF TypeOK
    <3>6. ASSUME NEW x \in Emails PROVE failed[x] \in Nat /\ failed'[x] \in Nat /\ failed[x] <= failed'[x]
      <4>1. failed[x] \in Nat
          BY <1>1 DEF TypeOK
      <4>2. failed'[x] = failed[x] \/ failed'[x] = failed[x] + 1
          BY <3>4, <3>5
      <4> QED
          BY <4>1, <4>2
    <3>7. ASSUME NEW x \in Emails PROVE CountsNoMore(throttle[x], x)'
      <4>1. CASE x = e
          BY <3>3, <3>4, <4>1 DEF CountsNoMore
      <4>2. CASE x # e
          BY <3>5, <4>2 DEF ThrottleInv, CountsNoMore
      <4> QED
          BY <4>1, <4>2
    <3>8. ASSUME NEW q \in Requests
          PROVE  /\ At(q, "login", "count")' => CountsNoMore(view[q].throttle, call[q].email)'
                 /\ pc'[q] = "throttled" => failed'[call'[q].email] >= MaxFailures
      <4>1. CASE q = r
          BY <2>1, <4>1 DEF At
      <4>2. CASE q # r
        <5>1. view[q].throttle.failures \in Nat /\ call[q].email \in Emails /\ MaxFailures \in Nat
            BY <1>1, ViewIsTyped, AccountsAssumption DEF ThrottleRow
        <5> QED
            BY <1>1, <2>1, <3>6, <4>2, <5>1 DEF ThrottleInv, CountsNoMore, At
      <4> QED
          BY <4>1, <4>2
    <3> QED
        BY <3>7, <3>8 DEF ThrottleInv
  <2>4. \/ UNCHANGED <<throttle, failed>>
        \/ /\ failed' = [failed EXCEPT ![e] = @ + 1]
           /\ \/ throttle' = [throttle EXCEPT ![e] = Counted(seen)]
              \/ throttle' = [throttle EXCEPT ![e] = Written(seen, Counted(seen), throttle[e])]
      BY <1>1, <1>7 DEF CountFailure, TypeOK
  <2> QED
      BY <2>2, <2>3, <2>4
<1>8. ASSUME NEW r \in Requests, Send(r) \/ Die(r) PROVE ThrottleInv'
  <2>1. /\ UNCHANGED <<throttle, failed>> /\ pc'[r] \in {"sent", "lost"}
        /\ \A q \in Requests \ {r} : pc'[q] = pc[q] /\ view'[q] = view[q]
      BY <1>1, <1>8 DEF Send, Die, Answer, Goto, TypeOK, tables, history
  <2> QED
      BY <1>2, <2>1
<1>9. ASSUME NEW e \in Emails, EndBlock(e) \/ EndWindow(e) PROVE ThrottleInv'
  <2>1. UNCHANGED <<pc, view, failed>>
      BY <1>9 DEF EndBlock, EndWindow, history
  <2>2. \A x \in Emails : /\ throttle'[x].failures = throttle[x].failures
                          /\ throttle'[x].blocked \in {throttle[x].blocked, "past"}
    <3>1. \A x \in Emails : throttle[x] \in ThrottleRow
        BY <1>1 DEF TypeOK
    <3>2. PICK row : /\ throttle' = [throttle EXCEPT ![e] = row]
                     /\ \/ row = [throttle[e] EXCEPT !.blocked = "past"]
                        \/ row = [throttle[e] EXCEPT !.over = TRUE]
        BY <1>1, <1>9 DEF EndBlock, EndWindow, TypeOK
    <3>3. row.failures = throttle[e].failures /\ row.blocked \in {throttle[e].blocked, "past"}
        BY <3>1, <3>2 DEF ThrottleRow
    <3> QED
        BY <1>1, <3>2, <3>3 DEF TypeOK
  <2> QED
      BY <1>1, <2>1, <2>2 DEF ThrottleInv, CountsNoMore, At
<1>10. CASE \/ \E s \in Sessions : Age(s)
            \/ \E t \in Tokens : ExpireReset(t) \/ ExpireInvitation(t)
            \/ UNCHANGED vars
  <2>1. UNCHANGED <<pc, view, throttle, failed>>
      BY <1>10 DEF Age, ExpireReset, ExpireInvitation, vars, tables, history
  <2> QED
      BY <1>1, <2>1 DEF ThrottleInv, CountsNoMore, At
<1>11. ASSUME NEW r \in Requests, Handle(r) PROVE ThrottleInv'
  <2>1. CASE ~ (Login(r) \/ Verify(r) \/ CountFailure(r) \/ OpenSession(r))
      BY <1>2, <1>11, <2>1, OthersLeaveTheThrottle
  <2> QED
      BY <1>4, <1>5, <1>6, <1>7, <2>1
<1> QED
    BY <1>8, <1>9, <1>10, <1>11 DEF Next

\* A login is refused for want of patience only after MaxFailures of them were
\* answered 401, however the counts of simultaneous failures overwrite each other.
THEOREM ThrottledForAReason == Spec => []ThrottledOnlyAfterFailures
<1>1. Init => ThrottleInv
  <2> SUFFICES ASSUME Init PROVE ThrottleInv
      OBVIOUS
  <2>1. PICK sc \in Scenarios :
           /\ throttle = sc.database.throttle
           /\ failed = [e \in Emails |-> sc.database.throttle[e].failures]
      BY DEF Init
  <2>2. WellFormed(sc.database) /\ sc.database.throttle \in [Emails -> ThrottleRow]
      BY AccountsAssumption DEF Database
  <2>3. \A e \in Emails : CountsNoMore(throttle[e], e)
      BY <2>1, <2>2 DEF CountsNoMore, WellFormed, ThrottleRow
  <2>4. \A r \in Requests : pc[r] = "idle"
      BY DEF Init
  <2> QED
      BY <2>3, <2>4 DEF ThrottleInv, At
<1>2. IInv /\ TypeOK' /\ ThrottleInv /\ [Next]_vars => ThrottleInv'
    BY ThrottleStep
<1>3. ThrottleInv => ThrottledOnlyAfterFailures
    BY DEF ThrottleInv, ThrottledOnlyAfterFailures
<1> QED
    BY <1>1, <1>2, <1>3, AccountsInvariant, AccountsAreTyped, PTL DEF Spec

-----------------------------------------------------------------------------
(* Whose password an account has.                                             *)

\* Only a request that is under way moves, and no other one with it.
LEMMA WhoMoves ==
    ASSUME IInv, [Next]_vars
    PROVE  /\ \A q \in Requests : Answered(q) => pc'[q] = pc[q]
           /\ \A q \in Requests : pc[q] # "idle" => sent'[q] = sent[q]
<1>1. TypeOK
    BY DEF IInv
<1>2. ASSUME NEW r \in Requests, Handle(r) \/ Die(r)
      PROVE  /\ \A q \in Requests : Answered(q) => pc'[q] = pc[q]
             /\ sent' = sent
  <2>1. CASE Reader(r)
      BY <2>1, ReadersOnlyRead DEF Leaves
  <2>2. CASE ~ Reader(r)
    <3>1. \/ IdleOut(r) \/ Enter(r) \/ Logout(r) \/ Revoke(r) \/ LogoutAll(r) \/ ChangePassword(r)
          \/ CreateAccount(r) \/ CreateUser(r) \/ CountFailure(r) \/ OpenSession(r)
          \/ ReplaceTokens(r) \/ Confirm(r) \/ Invite(r) \/ PutMembership(r) \/ Accept(r)
        BY <1>2, <2>2 DEF Reader, Handle
    <3>2. pc[r] \in Labels
        BY <3>1 DEF IdleOut, Enter, Logout, Revoke, LogoutAll, ChangePassword, CreateAccount,
              CreateUser, CountFailure, OpenSession, ReplaceTokens, Confirm, Invite, PutMembership,
              Accept, At, Labels
    <3>3. sent' = sent
        BY <3>1 DEF IdleOut, Enter, Logout, Revoke, LogoutAll, ChangePassword, CreateAccount,
              CreateUser, CountFailure, OpenSession, ReplaceTokens, Confirm, Invite, PutMembership,
              Accept, history
    <3>4. \E label : Goto(r, label)
      <4>1. \E label : Goto(r, label) \/ Answer(r, label)
          BY <3>1 DEF IdleOut, Enter, Logout, Revoke, LogoutAll, ChangePassword, CreateAccount,
              CreateUser, CountFailure, OpenSession, ReplaceTokens, Confirm, Invite, PutMembership,
              Accept
      <4> QED
          BY <4>1 DEF Answer
    <3>5. ~ Answered(r)
        BY <1>1, <3>2, NotAnsweredYet
    <3> QED
        BY <1>1, <3>3, <3>4, <3>5 DEF Goto, TypeOK
  <2> QED
      BY <2>1, <2>2
<1>3. ASSUME NEW r \in Requests, Send(r)
      PROVE  /\ \A q \in Requests : Answered(q) => pc'[q] = pc[q]
             /\ \A q \in Requests : pc[q] # "idle" => sent'[q] = sent[q]
    BY <1>1, <1>3 DEF Send, Goto, TypeOK, Answered, Answers
<1>4. CASE \/ \E s \in Sessions : Age(s)
           \/ \E t \in Tokens : ExpireReset(t) \/ ExpireInvitation(t)
           \/ \E e \in Emails : EndBlock(e) \/ EndWindow(e)
           \/ UNCHANGED vars
    BY <1>4 DEF Age, ExpireReset, ExpireInvitation, EndBlock, EndWindow, history, vars
<1> QED
    BY <1>2, <1>3, <1>4 DEF Next

LEMMA ResetsLast ==
    ASSUME IInv, [Next]_vars, NEW t \in Tokens, reset[t].status # "absent"
    PROVE  reset'[t].user = reset[t].user
<1> USE CallIsTyped
<1>1. TypeOK /\ reset[t] \in ResetRow
    BY DEF IInv, TypeOK
<1>2. ASSUME NEW some PROVE Used(some)[t].user = reset[t].user
    BY <1>1 DEF Used, ResetRow
<1>3. ASSUME NEW r \in Requests, Handle(r) PROVE reset'[t].user = reset[t].user
  <2>1. CASE Confirm(r)
      BY <2>1, <1>2 DEF Confirm
  <2>2. CASE ReplaceTokens(r)
    <3>1. reset[r].status = "absent"
        BY <2>2, <1>1, NotAnsweredYet DEF IInv, Knows, Unmade, Labels, ReplaceTokens, At
    <3>2. r # t
        BY <3>1
    <3>3. reset'[t] = Used(view[r].tokens)[t]
        BY <2>2, <3>2 DEF ReplaceTokens, Used
    <3> QED
        BY <1>2, <3>3
  <2>3. CASE Reader(r)
      BY <2>3, ReadersOnlyRead DEF tables, secrets
  <2>4. CASE IdleOut(r) \/ Enter(r) \/ Logout(r) \/ Revoke(r) \/ LogoutAll(r) \/ ChangePassword(r)
             \/ CreateAccount(r) \/ CreateUser(r) \/ CountFailure(r) \/ OpenSession(r)
             \/ Invite(r) \/ PutMembership(r) \/ Accept(r)
      BY <2>4 DEF IdleOut, Enter, Logout, Revoke, LogoutAll, ChangePassword, CreateAccount,
            CreateUser, CountFailure, OpenSession, Invite, PutMembership, Accept, secrets
  <2> QED
      BY <1>3, <2>1, <2>2, <2>3, <2>4 DEF Handle, Reader
<1>4. ASSUME NEW x \in Tokens, ExpireReset(x) PROVE reset'[t].user = reset[t].user
    BY <1>1, <1>4 DEF ExpireReset, TypeOK, ResetRow
<1>5. CASE \/ \E r \in Requests : Send(r) \/ Die(r)
           \/ \E s \in Sessions : Age(s)
           \/ \E x \in Tokens : ExpireInvitation(x)
           \/ \E e \in Emails : EndBlock(e) \/ EndWindow(e)
           \/ UNCHANGED vars
    BY <1>5 DEF Send, Die, Age, ExpireInvitation, EndBlock, EndWindow, tables, secrets, vars
<1> QED
    BY <1>3, <1>4, <1>5 DEF Next

\* The requests that set the password of an account there is already.
Sets == {"confirm", "change"}

LEMMA SettersLast ==
    ASSUME IInv, [Next]_vars, NEW r \in Requests, Done(r, Sets)
    PROVE  Done(r, Sets)' /\ Subject(r)' = Subject(r) /\ sent'[r] = sent[r]
           /\ Subject(r) \in Emails
<1>1. call' = call /\ TypeOK
    BY CallStays DEF IInv
<1>2. pc'[r] = pc[r] /\ sent'[r] = sent[r]
    BY WhoMoves DEF Done, Answered, Answers
<1>3. CASE call[r].op = "confirm"
  <2>1. call[r].token \in Tokens /\ reset[call[r].token].status = "used"
      BY <1>1, <1>3, CallIsTyped DEF IInv, Knows, Reads, Done
  <2>2. Owner(r)' = Owner(r) /\ Owner(r) \in Emails
      BY <1>1, <2>1, ResetsLast DEF Owner, TypeOK, ResetRow
  <2> QED
      BY <1>1, <1>2, <1>3, <2>2, SubjectIs, SubjectIsNext DEF Done
<1>4. CASE call[r].op = "change"
  <2>1. call[r].session \in Sessions /\ session[call[r].session].status # "absent"
      BY <1>1, <1>4, CallIsTyped DEF IInv, Knows, Reads, Done, Bearer
  <2>2. session'[call[r].session].user = session[call[r].session].user
        /\ session[call[r].session].user \in Emails
      BY <1>1, <2>1, SessionsLast DEF TypeOK, SessionRow
  <2> QED
      BY <1>1, <1>2, <1>4, <2>2, SubjectIs, SubjectIsNext DEF Done, Bearer
<1> QED
    BY <1>3, <1>4 DEF Done, Sets

\* How a password changes: somebody sets it, or there was none.
LEMMA HowPasswordsChange ==
    ASSUME IInv, [Next]_vars
    PROVE  \/ /\ \A e \in Emails : password[e] # NoPassword => password'[e] = password[e]
              /\ ~ \E x \in Requests : pc[x] # "ok" /\ pc'[x] = "ok" /\ call[x].op \in Sets
           \/ \E x \in Requests : /\ ~ Answered(x) /\ pc'[x] = "ok" /\ call[x].op \in Sets
                                  /\ Subject(x)' \in Emails
                                  /\ password' = [password EXCEPT ![Subject(x)'] = call[x].new]
<1> USE CallIsTyped
<1>1. TypeOK /\ call' = call /\ People
    BY CallStays DEF IInv
<1>3. ASSUME NEW r \in Requests, CreateAccount(r)
      PROVE  \A e \in Emails : password[e] # NoPassword => password'[e] = password[e]
    BY <1>1, <1>3 DEF CreateAccount, People, TypeOK, people
<1>4. ASSUME NEW r \in Requests, Accept(r)
      PROVE  \A e \in Emails : password[e] # NoPassword => password'[e] = password[e]
  <2>1. CASE password' = password
      BY <2>1
  <2>2. CASE ~ Collides(r) /\ view[r].account # "full"
    <3>1. view[r].account \in {"new", "bare", "full"} /\ Invited(r) \in Emails
        BY <1>1, ViewIsTyped DEF View, Invited, TypeOK, InvitationRow
    <3>2. password[Invited(r)] = NoPassword
        BY <1>1, <2>2, <3>1 DEF Collides, People
    <3> QED
        BY <1>1, <1>4, <2>2, <3>2 DEF Accept, TypeOK
  <2> QED
      BY <1>4, <2>1, <2>2 DEF Accept, people
<1>5. ASSUME NEW r \in Requests, ChangePassword(r)
      PROVE  /\ ~ Answered(r) /\ pc'[r] = "ok" /\ call[r].op \in Sets
             /\ Subject(r)' \in Emails
             /\ password' = [password EXCEPT ![Subject(r)'] = call[r].new]
  <2>1. /\ pc[r] = "close" /\ call[r].op = "change" /\ pc'[r] = "ok"
        /\ password' = [password EXCEPT ![Me(r)] = call[r].new]
      BY <1>1, <1>5 DEF ChangePassword, At, Answer, Goto, TypeOK
  <2>2. /\ call[r].session \in Sessions /\ session[call[r].session].status # "absent"
        /\ Me(r) = session[call[r].session].user
      BY <2>1, <1>1 DEF IInv, Knows, Reads, InSession
  <2>3. Subject(r)' = Me(r) /\ Me(r) \in Emails
    <3>1. Subject(r)' = session'[call[r].session].user
        BY <1>1, <2>1, SubjectIsNext DEF Bearer
    <3> QED
        BY <3>1, <2>2, <1>1, SessionsLast, ViewIsTyped DEF Me
  <2> QED
      BY <2>1, <2>3 DEF Sets, Answered, Answers
<1>6. ASSUME NEW r \in Requests, Confirm(r)
      PROVE  /\ ~ Answered(r) /\ pc'[r] = "ok" /\ call[r].op \in Sets
             /\ Subject(r)' \in Emails
             /\ password' = [password EXCEPT ![Subject(r)'] = call[r].new]
  <2>1. /\ pc[r] = "confirm" /\ call[r].op = "confirm" /\ pc'[r] = "ok"
        /\ password' = [password EXCEPT ![Owner(r)] = call[r].new]
      BY <1>1, <1>6 DEF Confirm, At, Answer, Goto, TypeOK
  <2>2. call[r].token \in Tokens /\ reset[call[r].token].status # "absent"
      BY <2>1, <1>1 DEF IInv, Knows, Reads, Confirming
  <2>3. Subject(r)' = Owner(r) /\ Owner(r) \in Emails
      BY <1>1, <2>1, <2>2, SubjectIsNext, ResetsLast DEF Owner, TypeOK, ResetRow
  <2> QED
      BY <2>1, <2>3 DEF Sets, Answered, Answers
<1>7. ASSUME NEW r \in Requests, Handle(r),
             ~ (CreateAccount(r) \/ Accept(r) \/ ChangePassword(r) \/ Confirm(r))
      PROVE  password' = password
  <2>1. CASE Reader(r)
      BY <2>1, ReadersOnlyRead DEF tables, people
  <2>2. CASE IdleOut(r) \/ Enter(r) \/ Logout(r) \/ Revoke(r) \/ LogoutAll(r) \/ CreateUser(r)
             \/ CountFailure(r) \/ OpenSession(r) \/ ReplaceTokens(r) \/ Invite(r) \/ PutMembership(r)
      BY <2>2 DEF IdleOut, Enter, Logout, Revoke, LogoutAll, CreateUser, CountFailure, OpenSession,
            ReplaceTokens, Invite, PutMembership, people
  <2> QED
      BY <1>7, <2>1, <2>2 DEF Handle, Reader
<1>8. ASSUME \/ \E r \in Requests : Send(r) \/ Die(r)
             \/ \E s \in Sessions : Age(s)
             \/ \E t \in Tokens : ExpireReset(t) \/ ExpireInvitation(t)
             \/ \E e \in Emails : EndBlock(e) \/ EndWindow(e)
             \/ UNCHANGED vars
      PROVE  password' = password
    BY <1>8 DEF Send, Die, Age, ExpireReset, ExpireInvitation, EndBlock, EndWindow, tables,
                      people, vars
<1>9. ASSUME NEW x \in Requests, pc[x] # "ok", pc'[x] = "ok", call[x].op \in Sets
      PROVE  Confirm(x) \/ ChangePassword(x)
    BY <1>1, <1>9, HowItGetsOk DEF Sets
<1>10. CASE \E r \in Requests : Confirm(r) \/ ChangePassword(r)
    BY <1>5, <1>6, <1>10
<1>11. CASE ~ \E r \in Requests : Confirm(r) \/ ChangePassword(r)
  <2>1. \A e \in Emails : password[e] # NoPassword => password'[e] = password[e]
      BY <1>3, <1>4, <1>7, <1>8, <1>11 DEF Next
  <2> QED
      BY <2>1, <1>9, <1>11
<1> QED
    BY <1>10, <1>11

\* Somebody has set the password of e to given, not before r was sent.
SetSince(r, e, given) ==
    \E p \in Requests : /\ Done(p, Sets) /\ Subject(p) = e
                        /\ p \notin sent[r].answered /\ call[p].new = given

\* An account has the password it was given last, or next to the last; who has
\* verified a password since has shown one of these.
LastSet ==
    /\ \A r \in Requests : Done(r, Sets) => SetSince(r, Subject(r), password[Subject(r)])
    /\ \A q, r \in Requests :
          /\ call[q].op = "login" /\ pc[q] \in {"open", "ok"}
          /\ Done(r, Sets) /\ r \in sent[q].answered /\ Subject(r) = call[q].email
          => SetSince(r, call[q].email, call[q].password)

LEMMA SetSinceLasts ==
    ASSUME IInv, [Next]_vars, NEW r \in Requests, NEW e, NEW given, SetSince(r, e, given),
           sent'[r] = sent[r]
    PROVE  \E p \in Requests : /\ Done(p, Sets)' /\ Subject(p)' = e
                               /\ p \notin sent'[r].answered /\ call'[p].new = given
<1>1. PICK p \in Requests : /\ Done(p, Sets) /\ Subject(p) = e
                            /\ p \notin sent[r].answered /\ call[p].new = given
    BY DEF SetSince
<1>2. Done(p, Sets)' /\ Subject(p)' = Subject(p)
    BY <1>1, SettersLast
<1> QED
    BY <1>1, <1>2, CallStays

\* A login that is going to open a session has just shown the password.
LEMMA WhoOpens ==
    ASSUME IInv, [Next]_vars, NEW q \in Requests, call[q].op = "login", pc[q] # "open", pc'[q] = "open"
    PROVE  password[call[q].email] = call[q].password /\ pc[q] = "verify"
<1>1. TypeOK
    BY DEF IInv
<1>2. ASSUME NEW x \in Requests, NEW label, Goto(x, label) PROVE x = q /\ label = "open"
    BY <1>1, <1>2 DEF Goto, TypeOK
<1>3. ASSUME NEW x \in Requests, NEW label, Answer(x, label) PROVE x = q /\ label = "open"
    BY <1>2, <1>3 DEF Answer
<1>4. ~ (\E r \in Requests : Send(r) \/ Die(r))
    BY <1>2, <1>3 DEF Send, Die
<1>5. ~ UNCHANGED vars /\ ~ (\E s \in Sessions : Age(s))
      /\ ~ (\E t \in Tokens : ExpireReset(t) \/ ExpireInvitation(t))
      /\ ~ (\E e \in Emails : EndBlock(e) \/ EndWindow(e))
    BY DEF vars, Age, ExpireReset, ExpireInvitation, EndBlock, EndWindow
<1>6. PICK x \in Requests : Handle(x)
    BY <1>4, <1>5 DEF Next
<1>7. ~ (Authenticate(x) \/ IdleOut(x) \/ Enter(x) \/ LookForSessions(x) \/ Register(x) \/ Login(x))
    BY <1>2, <1>3 DEF Authenticate, IdleOut, Enter, LookForSessions, Register, Login
<1>8. ~ (CountFailure(x) \/ LockToken(x) \/ ReadTokens(x) \/ ReadSessions(x) \/ RequestReset(x))
    BY <1>2, <1>3 DEF CountFailure, LockToken, ReadTokens, ReadSessions, RequestReset
<1>9. ~ (DeadlockVictim(x) \/ Admit(x) \/ ReadMembership(x) \/ Review(x))
    BY <1>2, <1>3 DEF DeadlockVictim, Admit, ReadMembership, Review
<1>10. ~ LockInvitation(x)
  <2>1. invitation[call[x].token].status \in {"absent", "open", "expired", "accepted"}
      BY <1>1, CallIsTyped DEF TypeOK, InvitationRow
  <2> QED
      BY <2>1, <1>2, <1>3 DEF LockInvitation
<1>11. ~ (Logout(x) \/ Revoke(x) \/ LogoutAll(x) \/ ChangePassword(x) \/ CreateAccount(x)
          \/ CreateUser(x) \/ OpenSession(x) \/ ReplaceTokens(x) \/ Confirm(x) \/ Invite(x)
          \/ PutMembership(x) \/ Accept(x))
    BY <1>3 DEF Logout, Revoke, LogoutAll, ChangePassword, CreateAccount, CreateUser, OpenSession,
            ReplaceTokens, Confirm, Invite, PutMembership, Accept
<1>12. Verify(x)
    BY <1>6, <1>7, <1>8, <1>9, <1>10, <1>11 DEF Handle
<1>13. x = q /\ Matches(call[x].email, call[x].password)
    BY <1>2, <1>12 DEF Verify
<1> QED
    BY <1>12, <1>13 DEF Matches, Verify, At

LEMMA LastSetStep ==
    ASSUME IInv, IInv', LastSet, [Next]_vars
    PROVE  LastSet'
<1> USE CallIsTyped
<1>1. call' = call /\ TypeOK /\ NoPassword \notin Passwords
    BY CallStays, AccountsAssumption DEF IInv
<1>2. ASSUME NEW r \in Requests, Done(r, Sets)'
      PROVE  \E p \in Requests : /\ Done(p, Sets)' /\ Subject(p)' = Subject(r)'
                                 /\ p \notin sent'[r].answered
                                 /\ call'[p].new = password'[Subject(r)']
  <2>1. ASSUME Done(r, Sets)
        PROVE  /\ Subject(r) \in Emails /\ Subject(r)' = Subject(r) /\ sent'[r] = sent[r]
               /\ SetSince(r, Subject(r), password[Subject(r)])
               /\ password[Subject(r)] # NoPassword
    <3>1. /\ Subject(r) \in Emails /\ Subject(r)' = Subject(r) /\ sent'[r] = sent[r]
          /\ SetSince(r, Subject(r), password[Subject(r)])
        BY <2>1, SettersLast DEF LastSet
    <3>2. password[Subject(r)] \in Passwords
        BY <1>1, <3>1 DEF SetSince
    <3> QED
        BY <1>1, <3>1, <3>2
  <2>2. CASE Done(r, Sets) /\ password'[Subject(r)] = password[Subject(r)]
      BY <2>1, <2>2, SetSinceLasts
  <2>3. ASSUME NEW x \in Requests, ~ Answered(x), pc'[x] = "ok", call[x].op \in Sets,
               Subject(x)' \in Emails,
               password' = [password EXCEPT ![Subject(x)'] = call[x].new],
               Done(r, Sets) => Subject(r) = Subject(x)'
        PROVE  \E p \in Requests : /\ Done(p, Sets)' /\ Subject(p)' = Subject(r)'
                                   /\ p \notin sent'[r].answered
                                   /\ call'[p].new = password'[Subject(r)']
    <3>1. Done(x, Sets)' /\ password'[Subject(x)'] = call[x].new
        BY <1>1, <2>3 DEF Done, TypeOK
    <3>2. ~ Done(r, Sets) => x = r
      <4>1. SUFFICES ASSUME ~ Done(r, Sets), x # r PROVE FALSE
          OBVIOUS
      <4>2. pc[r] # "ok" /\ pc'[r] = "ok" /\ pc[x] # "ok"
          BY <1>1, <1>2, <2>3, <4>1 DEF Done, Answered, Answers
      <4>3. pc'[x] = pc[x]
          BY <1>1, <4>1, <4>2, HowItGetsOk
      <4> QED
          BY <2>3, <4>2, <4>3
    <3>3. x \notin sent'[r].answered
      <4>1. pc[r] # "idle" /\ sent'[r] = sent[r]
        <5>1. CASE Done(r, Sets)
            BY <5>1, <2>1 DEF Done
        <5>2. CASE x = r
          <6>1. pc[x] # "ok"
              BY <2>3 DEF Answered, Answers
          <6>2. Confirm(x) \/ ChangePassword(x)
              BY <1>1, <2>3, <6>1, HowItGetsOk DEF Sets
          <6> QED
              BY <5>2, <6>2, WhoMoves DEF Confirm, ChangePassword, At
        <5> QED
            BY <3>2, <5>1, <5>2
      <4>2. \A y \in sent[r].answered : Answered(y)
          BY DEF IInv, Knows, Sent
      <4> QED
          BY <2>3, <4>1, <4>2
    <3>4. Subject(x)' = Subject(r)'
        BY <2>1, <2>3, <3>2
    <3> QED
        BY <1>1, <3>1, <3>3, <3>4
  <2>4. CASE /\ \A e \in Emails : password[e] # NoPassword => password'[e] = password[e]
             /\ ~ \E x \in Requests : pc[x] # "ok" /\ pc'[x] = "ok" /\ call[x].op \in Sets
    <3>1. Done(r, Sets)
        BY <1>1, <1>2, <2>4 DEF Done
    <3> QED
        BY <2>1, <2>2, <2>4, <3>1
  <2>5. ASSUME NEW x \in Requests, ~ Answered(x), pc'[x] = "ok", call[x].op \in Sets,
               Subject(x)' \in Emails,
               password' = [password EXCEPT ![Subject(x)'] = call[x].new],
               Done(r, Sets), Subject(r) # Subject(x)'
        PROVE  password'[Subject(r)] = password[Subject(r)]
      BY <2>1, <2>5, <1>1 DEF TypeOK
  <2> QED
      BY <2>2, <2>3, <2>4, <2>5, HowPasswordsChange
<1>3. ASSUME NEW q \in Requests, NEW r \in Requests,
             call'[q].op = "login", pc'[q] \in {"open", "ok"},
             Done(r, Sets)', r \in sent'[q].answered, Subject(r)' = call'[q].email
      PROVE  \E p \in Requests : /\ Done(p, Sets)' /\ Subject(p)' = call'[q].email
                                 /\ p \notin sent'[r].answered /\ call'[p].new = call'[q].password
  <2>1. sent'[q] = sent[q]
    <3>1. pc[q] = "idle" => pc'[q] \notin {"open", "ok"}
      <4>1. SUFFICES ASSUME pc[q] = "idle", pc'[q] \in {"open", "ok"} PROVE FALSE
          OBVIOUS
      <4>2. pc'[q] # "ok"
          BY <1>1, <1>3, <4>1, HowItGetsOk DEF OpenSession, At
      <4> QED
          BY <4>1, <4>2, <1>1, <1>3, WhoOpens
    <3> QED
        BY <1>3, <3>1, WhoMoves
  <2>2. Done(r, Sets)
    <3>1. Answered(r)
        BY <1>3, <2>1 DEF IInv, Knows, Sent
    <3> QED
        BY <1>1, <1>3, <3>1, WhoMoves DEF Done
  <2>3. Subject(r)' = Subject(r) /\ sent'[r] = sent[r]
      BY <2>2, SettersLast
  <2>4. SetSince(r, call[q].email, call[q].password)
    <3>1. CASE pc[q] \in {"open", "ok"}
        BY <1>1, <1>3, <2>1, <2>2, <2>3, <3>1 DEF LastSet
    <3>2. CASE pc[q] \notin {"open", "ok"}
      <4>1. pc'[q] # "ok"
          BY <1>1, <1>3, <3>2, HowItGetsOk DEF OpenSession, At
      <4>2. password[call[q].email] = call[q].password
          BY <1>1, <1>3, <3>2, <4>1, WhoOpens
      <4>3. SetSince(r, Subject(r), password[Subject(r)])
          BY <2>2 DEF LastSet
      <4> QED
          BY <1>1, <1>3, <2>3, <4>2, <4>3
    <3> QED
        BY <3>1, <3>2
  <2> QED
      BY <1>1, <2>3, <2>4, SetSinceLasts
<1> QED
    BY <1>2, <1>3 DEF LastSet, SetSince

\* A login that is sent after a password was set opens a session only with that
\* password or with one that was set next to it or later.
THEOREM LoginsNeedTheLastPassword == Spec => []LoginsKnowTheLastPassword
<1>1. Init => LastSet
  <2> SUFFICES ASSUME Init PROVE LastSet
      OBVIOUS
  <2>1. \A r \in Requests : pc[r] = "idle"
      BY DEF Init
  <2> QED
      BY <2>1 DEF LastSet, Done
<1>2. IInv /\ IInv' /\ LastSet /\ [Next]_vars => LastSet'
    BY LastSetStep
<1>3. LastSet => LoginsKnowTheLastPassword
    BY DEF LastSet, LoginsKnowTheLastPassword, SetSince, Done, Sets
<1> QED
    BY <1>1, <1>2, <1>3, AccountsInvariant, PTL DEF Spec
=============================================================================
