\* A stream breaks before the follower has synced what it appended.
SPECIFICATION Spec
CONSTANTS
    Node = {n1, n2, n3}
    None = None
    MaxTerm = 0
    MaxWrites = 1
    MaxCrash = 0
    Env = {"unsynced", "break"}
SYMMETRY Symmetry
INVARIANTS
    AckedIsStored
CHECK_DEADLOCK FALSE
