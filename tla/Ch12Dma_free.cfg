SPECIFICATION FairSpec
CONSTANTS
    Lens = {48, 2020}
    MaxSends = 3
    PollBudget = 2
    IdxModulus = 4
INVARIANTS
    TypeOK
    CleanUntilTimeout
PROPERTIES
    NoRewriteUnderFetch
    ImplementsMailbox
    SendReturns
