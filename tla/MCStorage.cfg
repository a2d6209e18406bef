CONSTANTS
    MaxFile = 2
    Reqs = {r1}
    Dels = {d1, d2}
    MAdmins = {1, 2}
    MTenants = {v1}
    MOrigins = {o1}
    NoAdmin = NoAdmin
    MaxBoots = 3
    MaxOps = 2
    TKeys = {t1}
    AKeys = {a1}
    UKeys = {u1}
    FTasks = {f1, f2}
    UTasks = {w1, w2}
    NoKey = NoKey
    Total = 2
    MaxTier = 2
    TierBytes = 2
    MaxSessions = 1
    MaxArc = 2
    Scenes = {"life", "boot", "tenant", "admin", "tus", "quota"}
SYMMETRY Symmetry
SPECIFICATION MCSpec
INVARIANTS EvictionsSuffice BootIdempotent  QuotaHeld AckedReadable
 
CHECK_DEADLOCK FALSE
