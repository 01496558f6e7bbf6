\* A leader is selected by offset alone.
SPECIFICATION Spec
CONSTANTS
    Node = {n1, n2, n3}
    None = None
    MaxTerm = 2
    MaxWrites = 2
    MaxCrash = 0
    Env = {"majority"}
SYMMETRY Symmetry
INVARIANTS
    LeaderHasAnswered
CHECK_DEADLOCK FALSE
