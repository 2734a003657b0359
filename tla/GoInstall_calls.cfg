\* Three goroutines on two registries, with collectors of the host in the way.
SPECIFICATION Spec
CONSTANTS
    Calls = {c1, c2, c3}
    Registries = {g1, g2}
    Services <- MCServices
    Trim <- MCTrim
    Blank = ""
    Collectors <- MCCollectors
    Conflicts = TRUE
INVARIANTS GoTypeOK OneBuildInfo IdentityIsRegistered
CHECK_DEADLOCK FALSE
