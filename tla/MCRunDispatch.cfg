SPECIFICATION DispatchSpec
CONSTANTS
    Id = {}
    NoID = NoID
    NoPolicy = NoPolicy
    NoTimeout = NoTimeout
    InputKey = InputKey
    Width = 32
    Invalid = Invalid
    Definitions <- MCDefinitions
INVARIANT StoredStepsAccountedFor
CHECK_DEADLOCK FALSE
