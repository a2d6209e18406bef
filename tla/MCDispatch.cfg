CONSTANTS
    FTenants = {t1, t2}
    FnNames = {n1, n2}
    OneTenant = t1
    OneName = n1
    OneSha = s1
    OtherTenant = t2
    OneOrigin = o1
    OneHook = h2
    WTenants = {t1, t2}
    Origins = {o1, o2}
    HookIds = {h1, h2}
    MaxHooks = 1
    Attempts = 2
    PerTenant = 1
    Global = 2
    Fans = {x1}
    Deliveries = {d1, d2, d3}
    Fetches = {i1}
    MaxAllow = 2
    MaxFan = 3
    Shas = {s1, s2}
    MaxPerTenant = 2
    FnLogKeep = 1
    FTasks = {a1, a2}
    MaxEdits = 3
    QueueDepth = 2
    ChanCap = 1
    Permits = 1
    CacheCap = 1
    Calls = {c1}
    MaxEvents = 3
SPECIFICATION MCSpec
INVARIANTS BindFresh DepthExact RevocationHonoured
PROPERTIES AllServed DeliveriesEnd
CHECK_DEADLOCK FALSE
