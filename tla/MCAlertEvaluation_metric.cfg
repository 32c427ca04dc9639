SPECIFICATION MCSpec
CONSTANTS
    Job = {j1, j2, e1, e2}
    j1 = j1
    j2 = j2
    e1 = e1
    e2 = e2
    Evaluators = {e1, e2}
    Editor = {editor}
    NumRules = 2
    Metric = {cpu, memory}
    cpu = cpu
    memory = memory
    MaxTime = 1
    Half = 4
    Batches <- AllBatches
    Contents <- MCRules
    Patches <- MCPatches
    Never = Never
    NoRow = NoRow
    Gone = Gone
    NoEdit = NoEdit
    Nil = Nil
INVARIANT AlertAboutItsMetric
CHECK_DEADLOCK FALSE
