CONSTANTS
    Releases = {r1, r2}
    Own = own
    None = none
    Checks = {c1, c2}
    Downloads = {d1, d2}
    Platforms = {"win-service", "win-local", "linux", "linux-wide"}
    MaxSwitches = 1
SPECIFICATION Spec
CHECK_DEADLOCK FALSE
INVARIANTS OfferIsCurrent OnlyTheStalledHoldTheLock StopIsForAnInstall
PROPERTIES CheckEnds NewChannelIsChecked ImplementsUpdater
