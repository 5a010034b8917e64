SPECIFICATION FairSpec
CONSTANTS
    MaxCrashRestarts = 1
    MaxLaunches = 1
    Ports = {p1, p2}
    None = None
    Setups <- TwoSetups
    MaxFaults = 1
INVARIANTS NothingIsLeftOver
PROPERTIES AuditIsTrue StopIsHonoured SavedPortIsServed CrashLoopEnds
CHECK_DEADLOCK FALSE
