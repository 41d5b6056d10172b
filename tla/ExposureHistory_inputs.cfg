SPECIFICATION Spec
CONSTANTS
    None = None
    LastDay = 2
    MaxEvents = 1
    MaxRuns = 1
    Vantages = {v1}
    Groups = {"classical", "hybrid"}
    Contexts <- MCAllContexts
    Keys = {"long", "uncited"}
    LifetimeOf <- MCTwoKeys
    Scenarios = {4}
    Policies <- MCPolicies
    Stated = {"goLive", "notBefore"}
INVARIANTS
    PossibleIsPessimistic
    ConditionalIsTheAcceptedBand
CHECK_DEADLOCK FALSE
