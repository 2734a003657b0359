\* Two concurrent calls of one service in one second.
SPECIFICATION Spec
CONSTANTS
    c1 = c1  c2 = c2  c3 = c3
    fast = fast  multi = multi  flask = flask
    foo = foo  fooPadded = fooPadded  bar = bar
    NoName = NoName  NoCall = NoCall  Host = Host
    Apps = {fast, flask}
    Flask = {flask}
    Calls = {c1, c2}
    Names = {foo}
    Strip <- FooStrip
    HostHooks <- NoHostHooks
    Raises <- NoPartialRegistration
    MaxInFlight = 2
    MaxSecond = 0
    Multiproc = {}
    Reinit = FALSE
INVARIANTS CommittedHaveBuildInfo
