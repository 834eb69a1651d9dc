SPECIFICATION Spec
CONSTANTS
    hello = hello
    other = other
    stray = stray
    zh = zh
    en = en
    Exercises <- MCExercises
    Hello = hello
    Stray = stray
    Langs <- MCLangs
    Committed = zh
    Modes <- MCModes
    Courses <- MCCourses
    MaxRuns = 2
    MaxEdits = 1
INVARIANTS
    WorkSurvives
    RestoredAtEnd
    GreenIsEarned
    CheckerGreenIsEarned
PROPERTIES
    CheckerScriptEnds
