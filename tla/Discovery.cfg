SPECIFICATION Spec
CONSTANTS
    Files <- MCFiles
    Present <- MCFiles
    Number <- MCNumber
    StdNames <- MCStdNames
    Version <- MCVersion
    BadWords <- MCBadWords
    MaxEdits = 2
INVARIANTS
    CheckFindsListedFile
    ProgressSurvivesLanguage
    ListedInCourseOrder
    ListedInOneLanguage
