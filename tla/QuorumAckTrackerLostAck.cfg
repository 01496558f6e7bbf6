\* An acknowledgement overtakes AdvanceHeadOffset.
SPECIFICATION FairSpec
CONSTANTS
    RF = 3
    InitHead = 0
    InitCommit <- NoCommit
    MaxOffset = 2
    MaxDrops = 0
    Env = {"earlyAck"}
PROPERTIES
    WritesAnswered
CHECK_DEADLOCK FALSE
