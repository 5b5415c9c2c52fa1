SPECIFICATION FairSpec
CONSTANTS
    Kind = "small"
    Images <- MCImages
    PartSize = 2020
    SecCap = 3
    Retries = 3
INVARIANTS
    TypeOK
    Tiling
    ReadyMeansAllSent
    ReadsInsideImage
PROPERTIES
    Terminates
