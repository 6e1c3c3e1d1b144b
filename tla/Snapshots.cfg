SPECIFICATION SnapSpec
CONSTANTS
    Web = web
    Daemon = daemon
    Retentions = {0, 1, 2}
    DaysPerWeek = 2
    TicksPerDay = 2
    ScheduleDay = 0
    ScheduleTick = 1
    MaxNow = 5
    MaxCounter = 99
    MaxRequests = 1
    MaxFaults = 1
    MaxDeletes = 1
INVARIANTS
    SnapTypeOK
    NextRunRight
    WholeOneStays
    RetentionReached
PROPERTIES
    PrunesOldest
    EveryWeek
CHECK_DEADLOCK FALSE
