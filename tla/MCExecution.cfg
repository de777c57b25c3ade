CONSTANTS
    p1 = p1
    p2 = p2
    Procs <- MCProcs
    Ids <- MCIds
    Shape <- MCShape
    Denied = {}
    Flaky = {}
    Blob = Blob
    MaxEvents = 5
    MaxFaults = 2
    Files = {1, 2, 3, 4, 5, 6}
    Ignored = {4, 5}
    Packages = {4}
    Metadata = {}
    Roots = {4, 5}
    Staging = {6}
    Manifest = {1}
    Golden = {}
    FrozenRed = {2}
    Writable <- MCWritable
    Present = {1, 2}
    MaxFiles = 4
    MaxDiff = 2
    MaxWrites = 2
    Descendants = {d1, d2}
    MaxCapture = 1
    Paths <- MCPaths
    Ancestors <- MCAncestors
    HardDenied = {}
    Trees <- MCTrees
    MaxForeign = 1
    MaxBatches = 2
SPECIFICATION MCSpec
INVARIANTS
    ExecutionTypeOK
    ExactlyOnce
    AllOrNothing
    FrozenIsAMoment
PROPERTIES
    OnlyAllowedEffects
    ImplementsActionLedger
    EveryCallReturns
CHECK_DEADLOCK FALSE
