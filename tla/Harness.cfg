SPECIFICATION Spec
CONSTANTS
    MaxCalls = 3
    MaxHandlers = 2
    ExitCodes <- MCExitCodes
    CrashCode = 134
    ResultFileSet = TRUE
    WritesMayFail = TRUE
    FormatMayThrow = TRUE
INVARIANTS
    ExitCodeTellsOutcome
    OverrideIsJustified
    CrashLosesAtMostOneLine
    ChannelNeverOverstates
    SomeSignalSurvives
\* An ended process stays ended.
CHECK_DEADLOCK FALSE
