SPECIFICATION FairSpec
CONSTANTS
    HeartbeatEvery = 3
    Slack = 1
    IdleLimit = 6
    MaxLines = 2
    PipeCapacity = 1
    Statuses <- MCStatuses
INVARIANTS
    NeverKilledWhileReading
    ReaderIsDoneFirst
    OutputIsComplete
    CodeIsTheChilds
PROPERTIES
    ClosedOutputEndsCapture
\* A capture that returned or was killed does nothing more.
CHECK_DEADLOCK FALSE
