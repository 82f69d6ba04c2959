SPECIFICATION Spec
CONSTANTS
    Attempts = {a1}
    Owners = {o1}
    Nobody = Nobody
CHECK_DEADLOCK FALSE
INVARIANTS OwnerAwaitsTeardown
