SPECIFICATION Spec
CONSTANTS
    None = None
    LastDay = 3
    MaxEvents = 3
    MaxRuns = 2
    Vantages = {v1}
    Groups = {"hybrid"}
    Contexts <- MCClassicalOnly
    Keys = {"long"}
    LifetimeOf <- MCOneKey
    Scenarios = {4}
    Policies <- MCConfirmed
    Stated = {}
INVARIANTS
    WindowsAreTheLostDays
    NothingIsRecovered
    DiffNamesNewEvidence
    OpenWindowBleeds
    ConfigurationStopsNothing
CHECK_DEADLOCK FALSE
