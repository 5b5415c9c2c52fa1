SPECIFICATION Spec
CONSTANTS
    MaxLoads = 2
    MaxSends = 1
    MaxCap = 2
    IdxModulus = 3
INVARIANT
    BlocksEnabled
CHECK_DEADLOCK FALSE
