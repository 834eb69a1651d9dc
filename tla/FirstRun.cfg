SPECIFICATION Spec
CONSTANTS
    NumExercises = 3
    Faults <- MCFaults
    Interrupts = TRUE
    MaxEvents = 3
CHECK_DEADLOCK FALSE
INVARIANTS
    TypeOK
    PassMeansJourney
    RestoredAtEnd
PROPERTIES
    DriverEnds
