CONSTANTS
    RedPaths = {r1}
    Ladders <- MCLadders
    Rules = {k1}
    GoldenFiles = {g1}
    MaxEdits = 1
    MaxReports = 1
    MaxDamage = 1
    Order <- MCOrder
    DependsOn <- MCDependsOn
    NoActive = "none"
    Probes = 2
    FailureThreshold = 1
    MaxRequests = 2
    MaxLosses = 1
    MaxRounds = 1
    Runs <- MCRuns
    RepositoryPolicies <- MCRepositoryPolicies
    Changes <- MCChanges
    CheckOutcomes <- MCCheckOutcomes
    JudgeResults <- MCJudgeResults
    Panels <- MCPanels
    call1 = call1
    call2 = call2
    Calls <- MCCalls
    Keys = {key1}
    Slots = 4
    MaxPushes = 1
    Openers = {opener1, opener2}
    MaxMishaps = 1
    Traits <- MCTraits
    WindowSize = 2
    Paths <- MCPathList
    Imports <- MCImports
    Excluded = {}
    Outside = {"out"}
    Seeds <- MCSeeds
    Worktrees <- MCWorktrees
    Registrations <- MCRegistrations
    RawPolicies <- MCRawPolicies
    DataPolicies <- MCDataPolicies
    Lessons <- MCLessons
    Plans = {{}}
    RoundInputs <- MCRoundInputs
    SendAnswers <- MCSendAnswers
    MaxRepairRounds = 1
    MaxAccumulated = 2
    MaxProposeRounds = 2
    FusionPools <- MCPools
    RawProfiles <- MCRawProfiles
    Ceilings <- MCCeilings
    Buckets <- MCBuckets
    Budgets <- MCBudgets
    PanelAnswers <- MCPanelAnswers
    EvidenceRunner = TRUE
    MaxRefills = 2
    MaxActivations = 2
    Snapshots = {s1, s2}
    NoSnapshot = s0
    LessonIds = {lesson1}
    GovTasks = {task1}
    NoSubject = nobody
    MaxLessons = 1
    MaxPolicyEdits = 1
    MaxGovRuns = 3
    Undeclared <- MCUndeclared
    ParsedContracts <- MCParsedContracts
    ParsedGraphs <- MCParsedGraphs
    ChatConns = {conn1}
    ToolCalls = {tool1, tool2}
    Browsers = {tab1, tab2}
    Transcripts = {file1, file2}
    MaxChatTurns = 2
    MaxTickets = 3
    Contents = {x, y, e}
    EmptyText = e
    NoFile = nofile
    NoHash = nohash
    Merged = {m1}
    Auditors = {aud1, aud2}
    FoldValue <- MCFoldValue
    Rates = {50, 100}
    Reruns <- MCReruns
    MaxCycles = 2
    maxAttempts = 2
    MaxFlows = 2
    Endings <- MCEndings
    MaxSends = 2
    MaxCrashes = 1
    MaxSuites = 2
SPECIFICATION MCSpec
CONSTRAINT PrBound
INVARIANTS
    ServicesTypeOK
    RecordsAreTrue
    OneKeyPerRun
    DeploySettles
    DecisionsAreEarned
    ProposalsAreSound
    FusionIsEarned
    GovernanceIsHonoured
    PlanIsRunnable
    ConsoleFailsClosed
PROPERTY KillIsFinal
CHECK_DEADLOCK FALSE
