CONSTANTS
    Tenants = {t1}
    Names = {n1}
    Schedules <- MCSchedules
    Handlers = {h1}
    MaxMinute = 2
    MaxId = 2
    MaxJobs = 1
    RunsKept = 1
    Concurrency = 1
SPECIFICATION FairSpec
INVARIANTS OverlapGate 
PROPERTIES EveryFireEnds
CHECK_DEADLOCK FALSE
