SPECIFICATION SelectionFairSpec
CONSTANTS
    Impls = {1, 2, 3}
    Chats = {c1, c2}
    Nothing = Nothing
    p = p
    q = q
    RulePrefer = Nothing
    BreakInSamples = 2
    BreakInAttempts = 3
    FaultStreak = 2
    Levels = {1}
    MaxAsked = 2
    Preferences = {Nothing, p}
    Provider <- MCProvider
    Estimate <- MCEstimate
    Costs <- MCCosts
    Reaches <- MCReaches
    Declared <- MCDeclared
    Histories <- MCHistories
    Ledgers <- MCLedgers
CHECK_DEADLOCK FALSE
INVARIANTS HealthiestUndominated
PROPERTIES VerdictsAreEarned CondemnedComesBack
