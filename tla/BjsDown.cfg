\* One of the two nodes is down.
CONSTANTS
    MaxId = 3
    PoolNodes = 2
    Submissions <- Mixed
    Clusters <- OneDown
    Policies = {"simple"}
    MaxCrash = 0
SPECIFICATION Spec
INVARIANTS EnoughNodes
