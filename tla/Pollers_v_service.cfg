\* A queue tracker that was started before another service was installed.
SPECIFICATION Spec
CONSTANTS
    Lanes = {"python", "node"}
    Callbacks <- QueueCallbacks
    Services = {"foo", "bar"}
    MaxTicks = 1
    MaxWorld = 0
INVARIANTS FollowsService
CHECK_DEADLOCK FALSE
