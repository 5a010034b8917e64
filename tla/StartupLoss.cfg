SPECIFICATION StartupSpec
CONSTANTS
    Vias = {"reverse", "forward"}
    MaxFree = 1
INVARIANTS NothingLost
CHECK_DEADLOCK FALSE
