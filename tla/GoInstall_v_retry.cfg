\* An Install that panics, and a retry.
SPECIFICATION Spec
CONSTANTS
    Calls = {c1, c2}
    Registries = {g1}
    Services <- MCServices
    Trim <- MCTrim
    Blank = ""
    Collectors <- MCCollectors
    Conflicts = TRUE
INVARIANT RetryHasBuildInfo
CHECK_DEADLOCK FALSE
