CONSTANTS
    Uids = {u1, u2}
    Emails = {e1}
    Pws = {p1}
    Toks = {k1, k2}
    RoleToks = {r1, r2}
    Uris = {x1, x2}
    OneUid = u1
    OneUri = x1
    OneRole = r1
    OneTenant = t1
    OneDir = b1
    OneTask = r
    UTasks = {a, b}
    MaxGates = 1
    OauthOnly = OauthOnly
    NoUser = NoUser
    NoSess = NoSess
    NoEntry = NoEntry
    NoTok = NoTok
    AdminIds = {1, 2}
    TenantIds = {t1}
    ReqIds = {1, 2}
    MaxQuotaTier = 3
    MaxCap = 3
    DefaultCap = 1
    DailyLimit = 1
    MaxEra = 2
    NoAdmin = NoAdmin
    NoTenant = NoTenant
    NoReq = NoReq
    ChannelCapacity = 2
    FlushBatchSize = 2
    StashMaxEntries = 1
    DeleteChunk = 1
    PageSize = 1
    RetentionTicks = 1
    MonthTicks = 2
    MaxSent = 3
    MaxTick = 2
    BTenants = {b1, b2}
    Slugs = {b2}
    BTasks = {r, s}
    KeepDaily = 2
    KeepWeekly = 1
    DaysPerWeek = 2
    MaxDay = 3
    MaxArchive = 4
    MaxSecond = 1
    NoRestore = NoRestore
SPECIFICATION MCSpec
INVARIANTS EntriesCurrent  AuditAccounted RecoveryPoints
PROPERTY AuditDrains
CHECK_DEADLOCK FALSE
