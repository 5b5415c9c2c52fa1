SPECIFICATION Spec
CONSTANTS
    Kind = "long"
    Images <- MCImages
    PartSize = 2020
    SecCap = 16
    Retries = 3
INVARIANT
    AllSectionsSent
