SPECIFICATION FairSpec
CONSTANTS
    Chips = {"8821c", "8822b", "8822c", "8723d"}
    Spec88 <- MCSpec88
    Sizes = {11, 19, 28, 40, 57}
    SecSizes = {0, 1, 7, 8, 12, 65535}
    Channels = {6, 36}
    Primaries = {0, 3}
    PollBudget = 2
    MaxCalls = 2
INVARIANTS
    TypeOK
    SectionsApart
    ReadyNeedsChip
    InitialisedMac
    ChannelAsSet
PROPERTY
    CallsReturn
CHECK_DEADLOCK FALSE
