\* An install of another service fails after a scrape.
SPECIFICATION Spec
CONSTANTS
    exp = exp  hono = hono  srv = srv
    foo = foo  fooPadded = fooPadded  bar = bar
    NoName = NoName
    Apps = {exp, hono}
    Server = srv
    Has <- MCHas
    Cleared = {}
    Names = {foo, bar}
    Asked = {foo, bar}
    Strip <- PlainStrip
    Paths <- OnePath
    Scrapes = {1}
    Faults <- AnyFault
    HalfWay <- NoHalf
    MaxCpu = 1
    Seconds = {0}
    MaxHost <- NoHandler
PROPERTIES RollbackKeepsSeries
