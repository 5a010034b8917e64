SPECIFICATION FairSpec
CONSTANTS
    Serials = {dA, dB}
    MaxFlight = 2
    MaxChanges = 2
INVARIANTS SerialIsCurrent MapsAgree
PROPERTIES AttachedIsShown
CHECK_DEADLOCK FALSE
