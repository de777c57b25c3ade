CONSTANTS
    p1 = p1
    Procs <- MCProcs
    Ids <- MCIds
    Shape <- MCShape
    Denied = {}
    Flaky = {}
    Blob = Blob
    MaxEvents = 7
    MaxFaults = 3
SPECIFICATION ExecutorSpec
INVARIANT OnceDespiteCrashes
CHECK_DEADLOCK FALSE
