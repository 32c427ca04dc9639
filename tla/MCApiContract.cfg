SPECIFICATION Spec
CONSTANTS
    Call <- Calls
    RawRequest <- RawRequests
    Sample <- SampleOf
    Stored <- StoredRows
    MaxAttempts = 2
INVARIANT TypeOK
INVARIANT AnswersArrive
INVARIANT RoutedAsCalled
INVARIANT StatusesAreHonest
PROPERTY EveryCallReturns
CHECK_DEADLOCK FALSE
