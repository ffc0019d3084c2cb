CONSTANTS
    Hdr = 2
    Sorts <- MCSorts
    MaxFrames = 3
    MaxPackets = 2
    WireCap = 2
    OutCap = 1
    ControlCap = 1
SPECIFICATION FairSpec
INVARIANTS TypeOK RepliesInOrder OnePath NoFrameLeft
PROPERTIES RequestsAnswered Task1Follows ImplementsDelivery
CHECK_DEADLOCK FALSE
