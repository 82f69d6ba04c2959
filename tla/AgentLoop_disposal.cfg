SPECIFICATION Spec
CONSTANTS
    NMessages = 2
    MaxSteps = 1
    MaxDepth = 2
PROPERTIES DisposalNeverLatches
