CONSTANTS
    Requests = {"r1", "r2", "r3"}
    Emails = {"ana", "bea"}
    Passwords = {"old", "new", "newer"}
    Roles = {"ADMIN", "PLANNER"}
    Admin = "ADMIN"
    NoPassword = "none"
    NoRole = "none"
    SeedSessions = {"s1", "s2"}
    SeedTokens = {"t1", "t2"}
    Scenarios <- MCScenarios
    MaxFailures = 2
SPECIFICATION FairSpec
CHECK_DEADLOCK FALSE
INVARIANTS
    TokensWorkOnce
    OldTokensAreDead
    OldSessionsAreGone
    LoginsKnowTheLastPassword
    ThrottledOnlyAfterFailures
PROPERTIES
    RevokedForGood
    AcceptKeepsAccount
    EveryRequestIsAnswered
