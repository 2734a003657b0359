\* The three lanes: a worker, a loop and a stop.
SPECIFICATION Spec
CONSTANTS
    Lanes = {"python", "go", "node"}
    Workers = {"w1"}
    Stoppers = {"s1"}
    Totals = {1, 2}
    MaxProcessed = 2
    MaxTicks = 1
    JoinTimesOut = FALSE
INVARIANTS ProgressTypeOK NoItemRatedTwice PyEtaFits StopFlushes
PROPERTIES QuietAfterStop StopEnds
CHECK_DEADLOCK FALSE
