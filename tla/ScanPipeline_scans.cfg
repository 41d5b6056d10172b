SPECIFICATION Spec
CONSTANTS
    None = None
    Surfaces = {s1}
    LastDay = 1
    MaxRuns = 2
    MaxChanges = 2
    MaxScans = 2
    Binding <- MCBinding
    Z = 1
    DeadProbes = {"full", "groups"}
INVARIANTS
    StopWasRefused
    DiffTellsWhatHappened
CHECK_DEADLOCK FALSE
