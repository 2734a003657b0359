\* An install fails after another one returned.
SPECIFICATION Spec
CONSTANTS
    exp = exp  hono = hono  srv = srv
    foo = foo  fooPadded = fooPadded  bar = bar
    NoName = NoName
    Apps = {exp, hono}
    Server = srv
    Has <- MCHas
    Cleared = {}
    Names = {foo, bar}
    Asked = {foo, bar}
    Strip <- PlainStrip
    Paths <- OnePath
    Scrapes = {}
    Faults <- AnyFault
    HalfWay <- NoHalf
    MaxCpu = 0
    Seconds = {0}
    MaxHost <- NoHandler
INVARIANTS DefaultLabelIsIdentity
