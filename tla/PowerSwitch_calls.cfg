SPECIFICATION FairSpec
CONSTANT
    MaxCalls = 3
INVARIANTS
    TypeOK
    PowerAsTold
    FieldsAsMasked
PROPERTIES
    AnalogStaysOn
    CallReturns
CHECK_DEADLOCK FALSE
