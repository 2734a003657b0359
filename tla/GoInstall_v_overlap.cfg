\* Two goroutines on one registry.
SPECIFICATION Spec
CONSTANTS
    Calls = {c1, c2}
    Registries = {g1}
    Services <- MCServices
    Trim <- MCTrim
    Blank = ""
    Collectors <- MCCollectors
    Conflicts = FALSE
INVARIANT IdentityIsAlwaysRegistered
CHECK_DEADLOCK FALSE
