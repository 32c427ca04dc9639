SPECIFICATION Spec
CONSTANTS
    Request = {r1, r2, r3, r4}
    User = {u1, u2}
    NoRow = NoRow
    Nil = Nil
SYMMETRY Interchangeable
INVARIANT TypeOK
INVARIANT AuditedActionsShow
INVARIANT ReopenedOnlyByOverlap
CHECK_DEADLOCK FALSE
