\* A Go tracker that is stopped while its goroutine ticks.
SPECIFICATION Spec
CONSTANTS
    Lanes = {"go"}
    Workers = {"w1"}
    Stoppers = {"s1"}
    Totals = {2}
    MaxProcessed = 1
    MaxTicks = 1
    JoinTimesOut = FALSE
INVARIANTS GoStopFlushes
CHECK_DEADLOCK FALSE
