SPECIFICATION Spec
CONSTANTS
    Request = {r1, r2, r3}
    Seeded = {w1}
    Definition = {d1, d2}
    NoRow = NoRow
    NoRun = NoRun
    Nil = Nil
SYMMETRY Interchangeable
INVARIANT TypeOK
INVARIANT RunHasRecord
INVARIANT VersionPinsDefinition
INVARIANT JoinedRunIsTheOneRead
INVARIANT AuditTellsTruth
PROPERTY LifecycleSpec
CHECK_DEADLOCK FALSE
