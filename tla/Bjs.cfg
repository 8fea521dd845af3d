\* Three jobs, a pool of two nodes, every policy, a daemon that may die once.
CONSTANTS
    MaxId = 3
    PoolNodes = 2
    Submissions <- Mixed
    Clusters <- AllUp
    Policies = {"simple", "shared", "filler"}
    MaxCrash = 1
SPECIFICATION FairSpec
INVARIANTS TypeOK NodeExclusive EnoughNodes AcceptedSurvives RunsOnce
PROPERTIES HeadNotDelayed 
