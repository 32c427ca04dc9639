SPECIFICATION FairSpec
CONSTANTS
    Request = {r1, r2}
    NoRow = NoRow
INVARIANT TypeOK
INVARIANT RunOnRecord
INVARIANT CompletedMeansReturned
PROPERTY EndsAreFinal
PROPERTY WaitsEnd
CHECK_DEADLOCK FALSE
