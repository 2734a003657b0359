------------------------------ MODULE InstallTxn ------------------------------
(***************************************************************************)
(* What install() promises the rest of the process, in every lane: it      *)
(* either returns, and then the service identity, the process metrics, the *)
(* build_info sample and the wiring of the app have all changed together,  *)
(* or it raises, and then none of them has.  A call on an app that is      *)
(* already wired changes nothing, unless the app is one that lets a later  *)
(* install replace the earlier.                                            *)
(***************************************************************************)
EXTENDS Naturals

CONSTANTS
    Apps,       \* the web applications of the process
    Names,      \* spellings of a service name a caller may pass
    Strip,      \* a function on Names that trims a spelling
    NoName,     \* "no service", not a member of Names
    Seconds,    \* values of the second-precision started_at label
    NoMetrics,  \* apps whose install registers no process metrics
    Rearmable   \* apps that a later install may take over from an earlier one

VARIABLES
    identity,   \* the process-wide service name
    exposed,    \* the service that labels the process metrics
    builds,     \* the build_info samples: <<service, started_at>>
    wired       \* for each app, the service its requests are recorded under

txnVars == <<identity, exposed, builds, wired>>

TxnInit ==
    /\ identity = NoName
    /\ exposed = NoName
    /\ builds = {}
    /\ wired = [a \in Apps |-> NoName]

\* One committed install of app a as service n during second t.
Commit(a, n, t) ==
    /\ wired[a] = NoName \/ a \in Rearmable
    /\ identity' = Strip[n]
    /\ exposed' = IF a \in NoMetrics THEN exposed ELSE n
    /\ builds' = builds \cup {<<n, t>>}
    /\ wired' = [wired EXCEPT ![a] = n]

TxnNext == \E a \in Apps, n \in Names, t \in Seconds : Commit(a, n, t)

TxnSpec == TxnInit /\ [][TxnNext]_txnVars

-----------------------------------------------------------------------------
(* Properties.                                                             *)

\* Each variable holds services and seconds.
TxnTypeOK ==
    /\ identity \in Names \cup {NoName}
    /\ exposed \in Names \cup {NoName}
    /\ builds \subseteq Names \X Seconds
    /\ wired \in [Apps -> Names \cup {NoName}]

\* Every app that records requests as some service has a build_info sample of
\* that service, also after installs of other services (fastapi.py:133-141): its
\* HTTP series can be joined with its version.
WiredHasBuildInfo ==
    \A a \in Apps : wired[a] # NoName => \E t \in Seconds : <<wired[a], t>> \in builds

\* With process metrics on every app, the process metrics carry the identity
\* that get_service() reports, up to the trimming of _baseline.py:84-89.
MetricsCarryIdentity ==
    NoMetrics = {} =>
        identity = IF exposed = NoName THEN NoName ELSE Strip[exposed]

\* Series of one process can be joined with each other, whoever installed last.
Coherent == WiredHasBuildInfo /\ MetricsCarryIdentity
=============================================================================
