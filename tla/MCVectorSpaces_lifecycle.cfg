\* Requests, the indexing worker and the command line on the spaces of one name.
CONSTANTS
    Spaces = {s1, s2, s3}
    Keys = {k1, k2}
    Tasks <- MCTasks
    Proc <- MCProc
    MayRun <- MCMayRun
    MaxFaults = 1
SPECIFICATION FairSpec
INVARIANTS SpaceTypeOK RemapsReplaced
PROPERTIES ServesOn IndexHeals
CHECK_DEADLOCK FALSE
