\* Installs of a padded name and another, on two paths, that fail, half-way too,
\* and are retried.
SPECIFICATION Spec
CONSTANTS
    exp = exp  hono = hono  srv = srv
    foo = foo  fooPadded = fooPadded  bar = bar
    NoName = NoName
    Apps = {exp, hono, srv}
    Server = srv
    Has <- MCHas
    Cleared = {srv}
    Names = {foo, fooPadded, bar}
    Asked = {fooPadded, bar}
    Strip <- MCStrip
    Paths <- TwoPaths
    Scrapes = {1}
    Faults <- AnyFault
    HalfWay <- AnyHalf
    MaxCpu = 1
    Seconds = {0}
    MaxHost <- OneHandler
INVARIANTS NodeTypeOK CpuNotOvercounted OnlyLiveSeries PendingHasCollector WiredOnce MetricsRouteExempt
PROPERTIES HostHandlersStay AllOrNothing
