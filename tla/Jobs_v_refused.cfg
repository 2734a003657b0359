\* A Node job that runs before any install.
SPECIFICATION Spec
CONSTANTS
    Lanes = {"node"}
    Spans = {"s1", "s2"}
    Trackers = {"t1", "t2"}
    Services = {"foo", "bar"}
    None = None
INVARIANTS RefusedBeforeWork
CHECK_DEADLOCK FALSE
