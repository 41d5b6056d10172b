SPECIFICATION FairSpec
CONSTANTS
    None = None
    Savers = {p1, p2}
    Readers = {q1}
    Runs <- MCRuns
    IdOf <- MCIdOf
    TargetOf <- MCTargetOf
    SizeOf <- MCSizeOf
    Killable <- MCKillable
INVARIANTS
    SavedIsStored
    ListingIsComplete
PROPERTIES
    NeverOverwritten
    ReadFailsOnlyBesideAWrite
    ImplementsContract
    SavesAndReadsEnd
CHECK_DEADLOCK FALSE
