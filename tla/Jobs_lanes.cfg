\* Three executions of a job, with and without a service, that may share a tracker.
SPECIFICATION Spec
CONSTANTS
    Lanes = {"python", "node", "go"}
    Spans = {"s1", "s2", "s3"}
    Trackers = {"t1"}
    Services = {"foo", "bar"}
    None = None
INVARIANTS JobsTypeOK CountedOnce PairsAgree OutcomeIsTheWorks
PROPERTIES WorkIsCounted
CHECK_DEADLOCK FALSE
