\* A follower that was truncated acknowledges what it does not have.
SPECIFICATION Spec
CONSTANTS
    Node = {n1, n2, n3}
    None = None
    MaxTerm = 1
    MaxWrites = 3
    MaxCrash = 0
    Env = {"majority"}
SYMMETRY Symmetry
INVARIANTS
    AckedIsStored
CHECK_DEADLOCK FALSE
