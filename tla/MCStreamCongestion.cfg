SPECIFICATION FairSpec
CONSTANTS
    LowWater = 2
    HighWater = 4
    MaxPacket = 2
    MaxOther = 3
INVARIANTS NoOrphanDelta MediaBacklogBounded
PROPERTIES PictureReturns
