\* A Python tracker whose tick takes longer than the join waits.
SPECIFICATION Spec
CONSTANTS
    Lanes = {"python"}
    Workers = {"w1"}
    Stoppers = {"s1"}
    Totals = {2}
    MaxProcessed = 2
    MaxTicks = 1
    JoinTimesOut = TRUE
PROPERTIES QuietAfterStop
CHECK_DEADLOCK FALSE
