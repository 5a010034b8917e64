SPECIFICATION FairSpec
CONSTANTS
    Ids = {p1, p2}
    None = None
INVARIANTS OnePollLoop SecretOnlyUnderWay
PROPERTIES OutcomeStands PageLearnsAnEnd
CHECK_DEADLOCK FALSE
