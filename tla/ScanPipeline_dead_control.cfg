SPECIFICATION Spec
CONSTANTS
    None = None
    Surfaces = {s1}
    LastDay = 1
    MaxRuns = 1
    MaxChanges = 2
    MaxScans = 2
    Binding <- MCBinding
    Z = 1
    DeadProbes = {"control"}
INVARIANTS
    StopWasRefused
CHECK_DEADLOCK FALSE
