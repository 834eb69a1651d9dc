SPECIFICATION Spec
CONSTANTS
    creation = creation
    terminal = terminal
    Preparers <- MCPreparers
    MaxVersions = 2
    MaxChanges = 2
    MaxRuns = 2
INVARIANTS
    ReadyMeansPinned
    ReadyMeansVerified
    UnfinishedIsNotReady
    FinishedIsReady
