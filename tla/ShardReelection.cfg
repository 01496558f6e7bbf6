\* Two re-elections in which every node answers.
SPECIFICATION Spec
CONSTANTS
    Node = {n1, n2, n3}
    None = None
    MaxTerm = 2
    MaxWrites = 2
    MaxCrash = 0
    Env = {}
SYMMETRY Symmetry
INVARIANTS
    LeaderHasAnswered
    AckedIsStored
    FollowerTermOk
CHECK_DEADLOCK FALSE
