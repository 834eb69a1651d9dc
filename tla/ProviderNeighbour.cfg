SPECIFICATION Spec
CONSTANTS
    one = one
    ten = ten
    NoTest = NoTest
    Tests <- MCTests
    Matching <- MCNeighbours
    MaxChecks = 1
    MaxOthers = 0
    MaxDisturbances = 1
    CodeMayBeMissing = FALSE
    MaxStale = 0
    MaxCalls = 1
    MaxHandlers = 1
    ExitCodes <- MCExitCodes
    CrashCode = 134
    ResultFileSet = TRUE
    WritesMayFail = FALSE
    FormatMayThrow = FALSE
INVARIANTS
    NeighbourIsFilteredOut
