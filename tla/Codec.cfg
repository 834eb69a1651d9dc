SPECIFICATION Texts
CONSTANTS
    Alphabet <- MCAlphabet
    MaxFirst = 4
    MaxSecond = 1
INVARIANTS
    RoundTrip
    OneLine
    EventRoundTrip
CHECK_DEADLOCK FALSE
