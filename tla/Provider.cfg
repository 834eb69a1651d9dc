SPECIFICATION Spec
CONSTANTS
    one = one
    ten = ten
    NoTest = NoTest
    Tests <- MCTests
    Matching <- MCNeighbours
    MaxChecks = 2
    MaxOthers = 1
    MaxDisturbances = 1
    MaxStale = 1
    CodeMayBeMissing = TRUE
    MaxCalls = 2
    MaxHandlers = 1
    ExitCodes <- MCExitCodes
    CrashCode = 134
    ResultFileSet = TRUE
    WritesMayFail = TRUE
    FormatMayThrow = FALSE
INVARIANTS
    TypeOK
    VerdictIsAboutTheAskedExercise
    PassIsEarned
    FailureIsReported
PROPERTIES
    KeepsContract
