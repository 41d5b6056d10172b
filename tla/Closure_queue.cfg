SPECIFICATION FairSpec
CONSTANTS
    None = None
    Rows = {"first", "second"}
    SubjectsOf <- MCSubjects
    Lifetimes = {0, 2, 3}
    ShortX = 2
    LongX = 3
    Authenticities = {0, 3}
    LongA = 3
    Scenarios = {1, 3, 5}
INVARIANTS
    AnswerIsNoWorse
    LaterZLosesNoMore
PROPERTIES
    EveryRowIsClosed
    AnswersLast
CHECK_DEADLOCK FALSE
