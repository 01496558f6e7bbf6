\* Unary and streamed writes, everything the environment may do.
SPECIFICATION Spec
CONSTANTS
    RF = 3
    InitHead = 0
    InitCommit <- NoCommit
    MaxOffset = 2
    MaxDrops = 1
    Env = {"unary", "cancel", "earlyAck", "timeout"}
INVARIANTS
    CommitOnQuorum
    AnsweredOnQuorum
CHECK_DEADLOCK FALSE
