SPECIFICATION Spec
CONSTANTS
    exercise = exercise
    tool = tool
    Files <- MCFiles
    Dirs <- MCDirs
    MaxVersions = 4
    MaxRuns = 2
INVARIANTS
    TypeOK
    WorkIsNeverLost
    TrackedWorkIsSaved
    UpdatedMeansMainIsUpdated
PROPERTIES
    MainIsBackedUpFirst
