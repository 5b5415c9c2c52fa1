SPECIFICATION Spec
CONSTANTS
    Lens = {48, 2020}
    MaxSends = 2
    PollBudget = 2
    IdxModulus = 4
INVARIANT
    EverySuccessDelivered
