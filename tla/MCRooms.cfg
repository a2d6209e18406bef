CONSTANTS
    Tenants = {t1}
    Rooms = {r1, r2}
    Lobby = r1
    Conns = {c1, c2}
    Solo = c1
    Evictors = {e1}
    Buffer = 1
    ClientRoomMax = 1
    RoomSubscriberMax = 1
    Deadlines = {"none", "future"}
    MaxConnect = 2
    MaxHandle = 2
SPECIFICATION MCSpec
INVARIANTS EvictedHearNothing EvictionReachesAll
PROPERTIES  EvictedSocketCloses
