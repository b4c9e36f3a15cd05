CONSTANTS
    k1 = k1
    k2 = k2
    k3 = k3
    k4 = k4
    Key = {k1, k2, k3, k4}
    Val = {v1, v2}
    HashOf <- MCHashOf
    DefaultSize = 4
    Capacities = {8}
    MaxBuckets = 16
SPECIFICATION Spec
INVARIANTS EveryKeyIsFound EverySearchEnds OrderIsDense RebuildFits DupIsFaithful
PROPERTIES MapSpec
CHECK_DEADLOCK FALSE
