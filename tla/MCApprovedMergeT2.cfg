CONSTANTS
    t1 = t1
    t2 = t2
    Tasks <- MCTasks
    NoTask = NoTask
    NoBase = NoBase
    MaxOthers = 1
SPECIFICATION Spec
SYMMETRY MCSymmetry
INVARIANT MainOnlyAfterT2
CHECK_DEADLOCK FALSE
