SPECIFICATION OverFairSpec
CONSTANTS
    Images <- MCImages
    PartSize = 2020
    SecCap = 16
    Retries = 2
    MaxSends = 6
    PollBudget = 2
    IdxModulus = 4
INVARIANTS
    HeaderIsAll
PROPERTIES
    ImplementsDownload
