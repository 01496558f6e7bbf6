\* Unary writes queue out of log order.
SPECIFICATION Spec
CONSTANTS
    RF = 3
    InitHead = 0
    InitCommit <- NoCommit
    MaxOffset = 3
    MaxDrops = 0
    Env = {"unary"}
INVARIANTS
    DbFollowsLog
CHECK_DEADLOCK FALSE
