\* A leader is replaced by a majority; a node crashes.
SPECIFICATION Spec
CONSTANTS
    Node = {n1, n2, n3}
    None = None
    MaxTerm = 1
    MaxWrites = 2
    MaxCrash = 1
    Env = {"majority"}
SYMMETRY Symmetry
INVARIANTS
    EntriesUnique
    LeaderHasAnswered
    DatabasesAgree
CHECK_DEADLOCK FALSE
