SPECIFICATION Spec
CONSTANTS
    Request = {r1, r2, r3}
    gauge = gauge
    counter = counter
    Field = {"unit", "type"}
    Required = {"type"}
    Value = {gauge, counter}
    Default = gauge
    Day <- MCDay
    DefaultDays = 3
    Half = 8
    Input <- MCInput
    Null = Null
    NoRow = NoRow
SYMMETRY Symmetry
INVARIANT TypeOK
INVARIANT RetentionIsPositive
PROPERTY NothingCleared
PROPERTY UnnamedFieldsStay
PROPERTY AnswersShowTheRow
CHECK_DEADLOCK FALSE
