SPECIFICATION FairSpec
CONSTANTS
    NCalls = 4
    MaxParallel = 2
INVARIANTS EveryCallAnswered ExclusiveAlone FailureIsClean
PROPERTIES GroupDiscipline ImplementsContract Terminates
CHECK_DEADLOCK FALSE
