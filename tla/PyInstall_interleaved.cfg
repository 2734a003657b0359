\* Two concurrent calls that may fail anywhere, and that must end.
SPECIFICATION FairSpec
CONSTANTS
    c1 = c1  c2 = c2  c3 = c3
    fast = fast  multi = multi  flask = flask
    foo = foo  fooPadded = fooPadded  bar = bar
    NoName = NoName  NoCall = NoCall  Host = Host
    Apps = {fast, flask}
    Flask = {flask}
    Calls = {c1, c2}
    Names = {foo, bar}
    Strip <- PlainStrip
    HostHooks <- NoHostHooks
    Raises <- AnyRaise
    MaxInFlight = 2
    MaxSecond = 1
    Multiproc = {}
    Reinit = TRUE
INVARIANTS TypeOK NoStrayCollector SingletonIsExposed CreatorsKeepMetrics
    OwnershipMatchesSamples EachSampleHasOneOwner
PROPERTIES EveryCallEnds
