\* Two elections in which every node answers.
SPECIFICATION FairSpec
CONSTANTS
    Node = {n1, n2, n3}
    None = None
    MaxTerm = 1
    MaxWrites = 1
    MaxCrash = 0
    Env = {}
PROPERTIES
    ElectionCompletes
    FollowersCatchUp
CHECK_DEADLOCK FALSE
