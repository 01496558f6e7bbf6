\* A follower with a higher term than the leader's log.
SPECIFICATION Spec
CONSTANTS
    Node = {n1, n2, n3}
    None = None
    MaxTerm = 2
    MaxWrites = 2
    MaxCrash = 0
    Env = {"majority"}
SYMMETRY Symmetry
INVARIANTS
    FollowerTermOk
CHECK_DEADLOCK FALSE
