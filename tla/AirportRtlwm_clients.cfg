SPECIFICATION FairSpec
CONSTANTS
    Clients = {"airportd", "menu"}
    Networks <- MCNetworks
    Found <- MCFound
    CacheSize = 32
    MaxScans = 2
    Asked = {"SSID", "STATE", "NOISE"}
INVARIANTS
    TypeOK
    EachResultOnce
    LinkAsAnnounced
    TimerAsLife
PROPERTY
    StopFinishes
CHECK_DEADLOCK FALSE
