\* Streamed writes, acknowledgements that arrive after AdvanceHeadOffset.
SPECIFICATION FairSpec
CONSTANTS
    RF = 3
    InitHead = 0
    InitCommit <- NoCommit
    MaxOffset = 2
    MaxDrops = 1
    Env = {}
INVARIANTS
    TypeOK
    CommitKeepsUp
    DbFollowsLog
PROPERTIES
    CommitAdvances
    WritesAnswered
CHECK_DEADLOCK FALSE
