\* The six adapters: four paths, four statuses, two installs of Next's patch.
SPECIFICATION Spec
CONSTANTS
    Lanes = {"fastapi", "hono", "express", "next", "flask", "go"}
    Requests = {"r1", "r2"}
    Asks <- MCAsks
    Paths <- MCPaths
    MetricsPath <- Metrics
    Template <- MCTemplate
    RoutePath <- MCRoutePath
    CatchAll <- MCCatchAll
    Overrides <- MCOverrides
    Kind <- MCKind
    Unmatched <- MCUnmatched
    Overflow <- MCOverflow
    MaxRoutes = 1
    Statuses = {200, 404, 500, 700}
    Method <- MCMethod
    Upper <- MCUpper
    Allowed = {"GET", "POST"}
    MaxPatches = 2
INVARIANTS HttpTypeOK CountedAtMostOnce CountedByTheEnd StatusMatches LabelsBounded
CHECK_DEADLOCK FALSE
