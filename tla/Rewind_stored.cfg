SPECIFICATION RewindSpec
CONSTANTS
    Callers = {c1}
    MaxEvents = 2
INVARIANTS RewoundStaysRewound
CHECK_DEADLOCK FALSE
