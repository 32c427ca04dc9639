SPECIFICATION Spec
CONSTANTS
    Request = {r1, r2}
    Seeded = {w1}
    Definition = {d1, d2}
    NoRow = NoRow
    NoRun = NoRun
    Nil = Nil
INVARIANT CancelReachesTemporal
CHECK_DEADLOCK FALSE
