CONSTANTS
    p1 = p1
    Procs <- MCProcs
    Ids <- MCIds
    Shape <- MCShape
    Denied = {}
    Flaky = {}
    Blob = Blob
    MaxEvents = 6
    MaxFaults = 0
    RawAnswers <- MCRawAnswers
    NoId = "none"
    PositionIds <- MCPositionIds
    MaxAnswers = 2
SPECIFICATION ProposedSpec
INVARIANT LaterRoundsTakeEffect
CHECK_DEADLOCK FALSE
