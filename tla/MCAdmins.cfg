CONSTANTS
    MaxAdmin = 2
    MaxTok = 4
    MaxSecret = 4
    DoorToks = 3
    DoorSecrets = 3
    Tenants = {t1}
    Codes = {c1}
    Jobs = {j1, j2}
    Reqs = {r1}
SYMMETRY Symmetry
SPECIFICATION MCSpec
INVARIANTS AtLeastOneOwner OneTokenPerLogin EntriesInvalidated ReachSuffices
CHECK_DEADLOCK FALSE
