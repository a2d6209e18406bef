CONSTANTS
    Rpcs = {"q"}
    CapSets = {{}, {"select", "insert", "update", "delete"}}
    PolicySets = {{}, {"select"}, {"select", "update"}}
    MaxCfg = 2
    Users = {u1, u2}
    Anon = Anon
    Service = Service
    Callers = {u1, Anon, Service}
    NoUser = NoUser
    MaxId = 2
    Vals = {1, 2}
    LowVals = {1}
    RTasks = {r1, r2}
    Solo = r1
    Extra = r2
    Subs = {s1}
    MaxHist = 2
SPECIFICATION MCSpec
INVARIANTS RpcSafe HistoryChain  
CHECK_DEADLOCK FALSE
