\* The three lanes: a pool of three gauges, two ticks, two services.
SPECIFICATION Spec
CONSTANTS
    Lanes = {"python", "go", "node"}
    Callbacks <- PoolCallbacks
    Services = {"foo", "bar"}
    MaxTicks = 2
    MaxWorld = 2
INVARIANTS PollersTypeOK OneSnapshot FailedTickInvisible
PROPERTIES NeverOlder StopEndsLoop
CHECK_DEADLOCK FALSE
