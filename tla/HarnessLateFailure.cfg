SPECIFICATION Spec
CONSTANTS
    MaxCalls = 2
    MaxHandlers = 1
    ExitCodes <- MCExitCodes
    CrashCode = 134
    ResultFileSet = TRUE
    WritesMayFail = FALSE
    FormatMayThrow = FALSE
INVARIANTS
    NormalExitWithFailureIsOne
\* An ended process stays ended.
CHECK_DEADLOCK FALSE
