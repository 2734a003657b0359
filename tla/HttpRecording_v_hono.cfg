\* Hono under middleware on some paths: the label of a request that matches no route.
SPECIFICATION Spec
CONSTANTS
    Lanes = {"hono"}
    Requests = {"r1"}
    Asks <- MCAsks
    Paths <- MCPaths
    MetricsPath <- Metrics
    Template <- MCTemplate
    RoutePath <- MCRoutePath
    CatchAll <- MCCatchAll
    Overrides <- MCOverrides
    Kind <- MCKind
    Unmatched <- MCUnmatched
    Overflow <- MCOverflow
    MaxRoutes = 1
    Statuses = {200, 404, 500}
    Method <- MCMethod
    Upper <- MCUpper
    Allowed = {"GET", "POST"}
    MaxPatches = 2
INVARIANT HonoUnmatchedCollapses
CHECK_DEADLOCK FALSE
