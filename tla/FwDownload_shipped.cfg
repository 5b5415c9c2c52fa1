SPECIFICATION Spec
CONSTANTS
    Kind = "shipped"
    Images <- MCImages
    PartSize = 2020
    SecCap = 16
    Retries = 3
INVARIANT
    DeliversTheBinary
