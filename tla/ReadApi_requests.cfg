SPECIFICATION FairSpec
CONSTANTS
    None = None
    Requests = {"one", "two"}
    AsksOf <- MCAsksOf
    RoleOf <- MCRoles
    Documents <- MCDocuments
    Scenarios = {1, 3}
    Milestones <- MCMilestones
    Policy <- MCPolicy
    LastDay = 1
    MaxFaults = 1
INVARIANTS
    AnsweredIsAudited
    AuditReadIsComplete
    AnswersAreWhole
    MetWindowsAreClosed
    WithheldIsUnbounded
PROPERTIES
    RequestsEnd
CHECK_DEADLOCK FALSE
