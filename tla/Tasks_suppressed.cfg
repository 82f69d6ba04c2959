SPECIFICATION Spec
CONSTANTS
    Tasks = {t1}
    Agents = {a1}
    Calls = {c1, c2}
    Ends = {"completed"}
    NoOne = NoOne
CHECK_DEADLOCK FALSE
INVARIANT SuppressedNoticeIsDelivered
