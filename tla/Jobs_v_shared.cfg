\* A `with` block entered twice through one tracker.
SPECIFICATION Spec
CONSTANTS
    Lanes = {"python"}
    Spans = {"s1", "s2"}
    Trackers = {"t1", "t2"}
    Services = {"foo", "bar"}
    None = None
INVARIANTS SharedTrackerIsRight
CHECK_DEADLOCK FALSE
