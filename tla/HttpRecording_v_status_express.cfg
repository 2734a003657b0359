\* The express lane, what goes past the recorder included.
SPECIFICATION Spec
CONSTANTS
    Lanes = {"express"}
    Requests = {"r1"}
    Asks <- MCAsks
    Paths <- MCPaths
    MetricsPath <- Metrics
    Template <- MCTemplate
    RoutePath <- MCRoutePath
    CatchAll <- MCCatchAll
    Overrides <- MCOverrides
    Kind <- MCKind
    Unmatched <- MCUnmatched
    Overflow <- MCOverflow
    MaxRoutes = 1
    Statuses = {200, 404, 500}
    Method <- MCMethod
    Upper <- MCUpper
    Allowed = {"GET", "POST"}
    MaxPatches = 2
INVARIANT StatusAlwaysMatches
CHECK_DEADLOCK FALSE
