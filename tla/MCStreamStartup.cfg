SPECIFICATION StartupFairSpec
CONSTANTS
    Vias = {"reverse", "forward"}
    MaxFree = 1
INVARIANTS NextPacketFollows
PROPERTIES RequestsAreWarranted ConfigIsRecovered
CHECK_DEADLOCK FALSE
