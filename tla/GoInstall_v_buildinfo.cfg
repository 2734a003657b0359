\* Two calls with different services.
SPECIFICATION Spec
CONSTANTS
    Calls = {c1, c2}
    Registries = {g1}
    Services <- MCServices
    Trim <- MCTrim
    Blank = ""
    Collectors <- MCCollectors
    Conflicts = FALSE
INVARIANT BuildInfoGainsService
CHECK_DEADLOCK FALSE
