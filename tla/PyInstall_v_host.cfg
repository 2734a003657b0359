\* An app with a middleware of its own, and a failure while wiring.
SPECIFICATION Spec
CONSTANTS
    c1 = c1  c2 = c2  c3 = c3
    fast = fast  multi = multi  flask = flask
    foo = foo  fooPadded = fooPadded  bar = bar
    NoName = NoName  NoCall = NoCall  Host = Host
    Apps = {fast, flask}
    Flask = {flask}
    Calls = {c1, c2}
    Names = {foo, bar}
    Strip <- PlainStrip
    HostHooks <- SomeHostHooks
    Raises <- WiringRaises
    MaxInFlight = 1
    MaxSecond = 0
    Multiproc = {}
    Reinit = FALSE
INVARIANTS HostHooksSurvive
