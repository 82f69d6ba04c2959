SPECIFICATION FairSpec
CONSTANTS
    Attempts = {a1, a2}
    Owners = {o1}
    Nobody = Nobody
CHECK_DEADLOCK FALSE
INVARIANTS RejectedLeavesNothing PublishedIsRegistered FactoryQuiescent
PROPERTIES TeardownsEnd
