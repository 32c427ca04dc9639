SPECIFICATION MCSpec
CONSTANTS
    Request = {r1, r2}
    Tenant = {t1, t2}
    t1 = t1
    t2 = t2
    NoTenant = NoTenant
    NoUser = NoUser
    Conn = {c1, c2}
    MaxLives = 2
    Row = {x1, x2, x3, x4}
    x1 = x1
    x2 = x2
    x3 = x3
    x4 = x4
    RowTenant <- MCRowTenant
    RowKey <- MCRowKey
    RowMarked <- MCRowMarked
    Credential <- MCCredential
    Endpoint <- MCEndpoint
    Ask <- MCAsk
    DefaultLimit = 1
    MaxLimit = 2
    Half = 8
    MaxPage = 6
INVARIANT PoliciesUseTheTenant
CHECK_DEADLOCK FALSE
