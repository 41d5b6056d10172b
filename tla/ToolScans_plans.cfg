SPECIFICATION Spec
CONSTANTS
  Items <- MCItems
  Plans <- MCPlans
  MaxChanges = 2
INVARIANTS
  TypeOK
  FindingsWereTrue
  NothingUnmentioned
  PlanIsNeverAborted
PROPERTIES
  PlanEnds
CHECK_DEADLOCK FALSE
