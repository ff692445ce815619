SPECIFICATION AccountsSpec
CONSTANTS
    Users = {u1}
    Emails = {e1, e2}
    Passwords = {p1, p2}
    Workers = {w1, w2, w3}
    None = None
    MaxPairs = 4
    MaxTokens = 2
    MaxRecords = 1
    MaxRequests = 3
    MaxFaults = 1
SYMMETRY WorkerSymmetry
CHECK_DEADLOCK FALSE
INVARIANTS
    RefreshExchangedOnce
    TokensClaimedOnce
    VerifiedEmailWasProven
    SessionsEndFirst
PROPERTIES
    NothingSignedAfterRevocation
