SPECIFICATION FairSpec
CONSTANTS
    None = None
    Surfaces = {s1, s2}
    LastDay = 1
    MaxRuns = 1
    MaxChanges = 2
    MaxScans = 1
    Binding <- MCBinding
    Z = 1
    DeadProbes = {"full", "groups"}
INVARIANTS
    EveryTargetAccounted
    AcceptedClassicalBleeds
PROPERTIES
    AssembleEnds
CHECK_DEADLOCK FALSE
