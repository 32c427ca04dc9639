SPECIFICATION FairSpec
CONSTANTS
    a = a
    b = b
    Id = {a, b}
    NoID = NoID
    NoPolicy = NoPolicy
    NoTimeout = NoTimeout
    InputKey = InputKey
    Width = 3
    Invalid = Invalid
    Definitions <- MCDefinitions
INVARIANT TypeOK
INVARIANT ResultsTellTheRun
INVARIANT HandlersTellTheStatus
INVARIANT KeysNameTheirSteps
PROPERTY RunsEnd
CHECK_DEADLOCK FALSE
