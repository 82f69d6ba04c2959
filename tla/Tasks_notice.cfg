SPECIFICATION FairSpec
CONSTANTS
    Tasks = {t1, t2}
    Agents = {a1}
    Calls = {c1}
    Ends = {"completed"}
    NoOne = NoOne
CHECK_DEADLOCK FALSE
INVARIANTS OutcomeIsTold TeardownLeavesNothing
PROPERTIES FirstOutcomeStands WaitsAndTeardownsEnd
