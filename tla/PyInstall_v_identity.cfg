\* Two concurrent calls on two apps.
SPECIFICATION Spec
CONSTANTS
    c1 = c1  c2 = c2  c3 = c3
    fast = fast  multi = multi  flask = flask
    foo = foo  fooPadded = fooPadded  bar = bar
    NoName = NoName  NoCall = NoCall  Host = Host
    Apps = {fast, flask}
    Flask = {flask}
    Calls = {c1, c2}
    Names = {foo, bar}
    Strip <- PlainStrip
    HostHooks <- NoHostHooks
    Raises <- NoPartialRegistration
    MaxInFlight = 2
    MaxSecond = 0
    Multiproc = {}
    Reinit = FALSE
INVARIANTS IdentityIsCommitted
