SPECIFICATION FairSpec
CONSTANTS
    Callers = {c1, c2}
    MaxEvents = 4
INVARIANTS FlushIsDurable BatchContinues NoStrandedEvent
PROPERTIES ImplementsDurableLog EventuallyDurable
