------------------------------ MODULE MCAccounts ------------------------------
(* Accounts for TLC: an administrator with two sessions and two reset tokens, *)
(* a second person with or without an account and two invitations.           *)
EXTENDS Accounts

Blank == [op |-> "logout", email |-> "ana", password |-> "old", new |-> "new", role |-> "PLANNER",
          session |-> "s1", other |-> "s2", token |-> "t1"]

Of(op)            == [Blank EXCEPT !.op = op]
By(op, s)         == [Of(op) EXCEPT !.session = s, !.other = IF s = "s1" THEN "s2" ELSE "s1"]
About(op, e)      == [Of(op) EXCEPT !.email = e]
With(op, t)       == [Of(op) EXCEPT !.token = t]
LogIn(e, p)       == [About("login", e) EXCEPT !.password = p]
ConfirmTo(t, p)   == [With("confirm", t) EXCEPT !.new = p]

\* Three requests; which of them is which does not matter.
Three(a, b, c) == [r \in Requests |-> CASE r = "r1" -> a [] r = "r2" -> b [] OTHER -> c]

\* The tables with these sessions of ana, reset tokens of ana, invitations of
\* bea and failed logins of ana.
Tables(sessions, resets, invitations, failures) ==
    [users |-> {"ana"}, password |-> [ana |-> "old", bea |-> NoPassword],
     role |-> [ana |-> Admin, bea |-> NoRole],
     session |-> [s \in Sessions |-> [user |-> "ana", seen |-> "fresh",
                     status |-> IF s \in sessions THEN "open" ELSE "absent"]],
     reset |-> [t \in Tokens |-> [user |-> "ana",
                     status |-> IF t \in resets THEN "usable" ELSE "absent"]],
     invitation |-> [t \in Tokens |-> [email |-> "bea", role |-> "PLANNER",
                     status |-> IF t \in invitations THEN "open" ELSE "absent"]],
     throttle |-> [e \in Emails |-> IF e = "ana" THEN [NoRow EXCEPT !.failures = failures]
                                                ELSE NoRow]]

\* Bea with a user row only, or with an account.
WithUser(d)    == [d EXCEPT !.users = Emails]
WithAccount(d) == [WithUser(d) EXCEPT !.password = [@ EXCEPT !["bea"] = "old"]]

Run(calls, d) == [call |-> calls, database |-> d]

\* Reset tokens, two of them usable as after two requests at the same time.
TokenRuns ==
    LET d == Tables({"s1"}, {"t1", "t2"}, {}, 0)
        ask == About("resetRequest", "ana")
    IN  {Run(Three(a, b, c), d) :
            <<a, b, c>> \in
                {<<ConfirmTo("t1", "new"), ConfirmTo("t1", "newer"), LogIn("ana", "newer")>>,
                 <<ConfirmTo("t1", "new"), ConfirmTo("t2", "newer"), ask>>,
                 <<ask, ask, ConfirmTo("t1", "new")>>,
                 <<ask, ConfirmTo("r1", "new"), LogIn("ana", "old")>>}}

\* Sessions that are touched, idled out, closed and opened.
SessionRuns ==
    LET d == Tables({"s1", "s2"}, {"t1"}, {}, 0)
    IN  {Run(Three(a, b, c), d) :
            <<a, b, c>> \in
                {<<By("logout", "s1"), By("logoutAll", "s1"), By("change", "s2")>>,
                 <<By("revoke", "s1"), By("change", "s1"), LogIn("ana", "old")>>,
                 <<ConfirmTo("t1", "newer"), By("change", "s1"), LogIn("ana", "old")>>}}

\* Logins that fail, after none or one that did.
LoginRuns ==
    {Run(Three(LogIn("ana", "new"), b, c), Tables({}, {}, {}, n)) :
        b \in {LogIn("ana", "new"), LogIn("ana", "old")},
        c \in {LogIn("ana", "new"), LogIn("ana", "old")}, n \in {0, 1}}

\* Invitations and whatever else makes or changes bea's account.
PeopleRuns ==
    LET d == Tables({"s1"}, {}, {"t1", "t2"}, 0)
        accept(t) == [About("accept", "bea") EXCEPT !.token = t]
        employ    == [By("putMembership", "s1") EXCEPT !.email = "bea", !.role = "ADMIN"]
    IN  {Run(Three(accept("t1"), accept(t), About(op, "bea")), bea) :
            t \in {"t1", "t2"}, op \in {"register", "createUser"},
            bea \in {d, WithUser(d), WithAccount(d)}}
        \cup {Run(Three(accept("t1"), employ, employ), WithUser(d)),
              Run(Three(accept("t1"), employ, LogIn("bea", "old")), WithAccount(d)),
              Run(Three(accept("t1"), accept("r3"), About("invite", "bea")), d)}

MCScenarios == TokenRuns \cup SessionRuns \cup LoginRuns \cup PeopleRuns
=============================================================================
