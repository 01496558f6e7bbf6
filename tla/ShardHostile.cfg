\* Everything the environment may do.
SPECIFICATION Spec
CONSTANTS
    Node = {n1, n2, n3}
    None = None
    MaxTerm = 1
    MaxWrites = 1
    MaxCrash = 1
    Env = {"majority", "late", "break", "unsynced", "giveUp", "badSnapshot"}
SYMMETRY Symmetry
INVARIANTS
    TypeOK
    OneLeaderPerTerm
CHECK_DEADLOCK FALSE
