CONSTANTS
    o1 = o1
    o2 = o2
    Owners <- MCOwners
    Legacy = Legacy
    NoRow = NoRow
    Ttl = 1
    MaxTime = 4
    MaxEvents = 5
SPECIFICATION Spec
SYMMETRY MCSymmetry
INVARIANTS
    TypeOK
    LogProjectsTable
    JournalFenced
    TokenNamesOneOwner
    ExclusiveBelief
    LostForGood
PROPERTY ImplementsOwnership
CHECK_DEADLOCK FALSE
