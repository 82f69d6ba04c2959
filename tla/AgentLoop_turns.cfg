SPECIFICATION FairSpec
CONSTANTS
    NMessages = 3
    MaxSteps = 2
    MaxDepth = 3
INVARIANTS LatchHonoured NoSilentPark OneDriver CancelTakesBack
PROPERTIES AbortIsSeen CancelConverges OwedWakeServed
