\* Three calls one after the other, on a FastAPI app with and one without multiproc mode
\* and a Flask app with a hook of its own.
SPECIFICATION Spec
CONSTANTS
    c1 = c1  c2 = c2  c3 = c3
    fast = fast  multi = multi  flask = flask
    foo = foo  fooPadded = fooPadded  bar = bar
    NoName = NoName  NoCall = NoCall  Host = Host
    Apps = {fast, multi, flask}
    Flask = {flask}
    Calls = {c1, c2, c3}
    Names = {foo, fooPadded, bar}
    Strip <- MCStrip
    HostHooks <- FlaskHostHooks
    Raises <- NoPartialRegistration
    MaxInFlight = 1
    MaxSecond = 0
    Multiproc = {multi}
    Reinit = FALSE
PROPERTIES AllOrNothing
