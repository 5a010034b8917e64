SPECIFICATION FairSpec
CONSTANTS
    Clients = {c1, c2}
    Spawns = {p1, p2, p3}
    NoSpawn = NoSpawn
    Killers = {"apply", "exit"}
INVARIANTS SingleFlight
PROPERTIES KilledUntilAsked CallersAreServed
CHECK_DEADLOCK FALSE
