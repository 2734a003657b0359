\* Two threads stop a Python tracker at the same time.
SPECIFICATION Spec
CONSTANTS
    Lanes = {"python"}
    Workers = {"w1"}
    Stoppers = {"s1", "s2"}
    Totals = {2}
    MaxProcessed = 2
    MaxTicks = 1
    JoinTimesOut = FALSE
INVARIANTS NoItemRatedTwice
CHECK_DEADLOCK FALSE
