SPECIFICATION Spec
CONSTANTS
    r1 = r1
    r2 = r2
    e1 = e1
    e2 = e2
    Runtimes <- TwoRuntimes
    Extensions <- TwoExtensions
    ExtOf <- OwnExtension
    Grants = {g1}
    NoGrant = NoGrant
    Nobody = Nobody
    MaxExchangeAttempts = 2
    MaxSessionRetries = 1
    MaxProviderRetries = 1
    MaxOps = 3
    MaxSessions = 2
    MaxChallenges = 1
    MaxClears = 1
    MaxEvents = 1
CONSTRAINT OneTrouble
SYMMETRY Interchangeable
INVARIANTS
    NoResurrection
    ChallengeShared
PROPERTIES
    NewerSessionKept
    GrantNotReplayed
\* Every call may have been made and have ended: nothing is left to do.
CHECK_DEADLOCK FALSE
