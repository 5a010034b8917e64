SPECIFICATION FairSpec
CONSTANTS
    Sessions = {s1}
    Connections = 2
    Stops = {"exit", "apply"}
INVARIANTS RegistryIsLiveSessions
PROPERTIES ReleasedIsOver FirstCauseStands StopIsToldCleanly ClosingIsReleased ReleasedStartEnds ImplementsService
CHECK_DEADLOCK FALSE
