------------------------------ MODULE PyInstall -------------------------------
(***************************************************************************)
(* install() of the Python lane: install_fastapi and install_flask, with   *)
(* the process-wide state they share.  One element of Calls is one call of *)
(* install() in the life of the process; a retry is another call.  Calls   *)
(* run in threads and interleave between the regions that the three module *)
(* locks protect, and inside the two regions that call code which can      *)
(* raise.  Any statement named in Raises may raise instead of taking       *)
(* effect; the call then rolls back step by step, in the order of the      *)
(* except block, and raises.                                               *)
(***************************************************************************)
EXTENDS Naturals, Sequences, FiniteSets

CONSTANTS
    Calls,            \* calls of install()
    Apps,             \* application objects
    Flask,            \* the apps that are Flask apps; the others are FastAPI
    HostHooks,        \* how many middlewares (hooks) each app has of its own
    Names,            \* spellings of a service name
    Strip,            \* str.strip() on those spellings
    Raises,           \* the steps at which an exception may strike
    MaxInFlight,      \* bound: calls that run at the same time
    MaxSecond,        \* bound: last value of the wall clock's second
    Multiproc,        \* the apps installed while PROMETHEUS_MULTIPROC_DIR is set
    Reinit,           \* the host follows the "To re-init, drop ..." advice
    NoName,           \* _SERVICE is None
    NoCall,           \* _collector is None, a lock is free
    Host              \* a middleware or hook of the application itself

\* Steps of the try block before which code that can fail runs.
Fallible == {"set_service", "claim", "construct", "register", "stamp", "wire", "expose"}

ASSUME NamesAssumption ==
    /\ Strip \in [Names -> Names]
    /\ \A n \in Names : Strip[Strip[n]] = Strip[n]
    /\ Names # {}
    /\ NoName \notin Names

ASSUME AppsAssumption ==
    /\ Apps # {}
    /\ Flask \subseteq Apps
    /\ HostHooks \in [Apps -> Nat]
    /\ Multiproc \subseteq Apps

ASSUME CallsAssumption == NoCall \notin Calls /\ Host \notin Calls

ASSUME ParametersAssumption ==
    /\ Raises \subseteq Fallible
    /\ MaxInFlight \in Nat
    /\ MaxSecond \in Nat
    /\ Reinit \in BOOLEAN

VARIABLES
    service,     \* _baseline._SERVICE
    collector,   \* _process._collector: the call that created it, or NoCall
    exposed,     \* the process collectors registered in REGISTRY
    procLock,    \* _process._lock: the call inside, or NoCall
    owned,       \* build_info._owned_label_keys
    samples,     \* label sets of the simsys_build_info gauge
    ownLock,     \* build_info._owned_label_keys_lock
    installed,   \* app.state.simsys_metrics_installed / app.extensions[...]
    hooks,       \* app.user_middleware / app.after_request_funcs[None]
    routes,      \* the metrics views of each app, by the call that added them
    second,      \* the wall clock, in seconds
    pc,          \* where each call is
    frame        \* the local variables of each call

procVars == <<collector, exposed, procLock>>
buildVars == <<owned, samples, ownLock>>
appVars == <<installed, hooks, routes>>
vars == <<service, procVars, buildVars, appVars, second, pc, frame>>

-----------------------------------------------------------------------------
Seconds == 0..MaxSecond
Keys == Names \X Seconds
Hooks == Calls \cup {Host}

Trying == Fallible \cup {"own", "sample"}
RollingBack ==
    {"rb_app", "rb_wiring", "rb_build", "rb_sample",
     "rb_proc", "rb_register", "rb_assign", "rb_service"}
Running == {"mark", "snap", "peek"} \cup Trying \cup RollingBack
Ended == {"noop", "done", "raised"}

Frame == [app : Apps, name : Names, pre : Names \cup {NoName},
          preHooks : Seq(Hooks), preRoutes : Seq(Calls),
          proc : {"none", "reused", "registered", "service_swap"},
          prior : Calls \cup {NoCall}, key : Keys, wasNew : BOOLEAN]

\* The locals of a call that has not begun.
FreshFrame ==
    [app |-> CHOOSE a \in Apps : TRUE, name |-> CHOOSE n \in Names : TRUE,
     pre |-> NoName, preHooks |-> << >>, preRoutes |-> << >>, proc |-> "none",
     prior |-> NoCall, key |-> <<CHOOSE n \in Names : TRUE, 0>>, wasNew |-> FALSE]

InFlight == {c \in Calls : pc[c] \in Running}

Goto(c, from, to) == pc[c] = from /\ pc' = [pc EXCEPT ![c] = to]

NameOf(c) == frame[c].name
AppOf(c) == frame[c].app

\* A call that returned or raised forgets its locals; what it did is kept: the
\* app, the name, what it did about the collector and, for one that returned, the
\* sample it answers for; for one that raised in the middle of a swap, the prior
\* collector that it took out of the registry.
Returned(f) == [FreshFrame EXCEPT !.app = f.app, !.name = f.name, !.proc = f.proc,
                                  !.key = f.key, !.wasNew = f.wasNew]
Raised(f) == [FreshFrame EXCEPT !.app = f.app, !.name = f.name, !.proc = f.proc,
                                !.prior = IF f.proc = "none" THEN f.prior ELSE NoCall]

Init ==
    /\ service = NoName
    /\ collector = NoCall
    /\ exposed = {}
    /\ procLock = NoCall
    /\ owned = {}
    /\ samples = {}
    /\ ownLock = NoCall
    /\ installed = [a \in Apps |-> FALSE]
    /\ hooks = [a \in Apps |-> [i \in 1..HostHooks[a] |-> Host]]
    /\ routes = [a \in Apps |-> << >>]
    /\ second = 0
    /\ pc = [c \in Calls |-> "idle"]
    /\ frame = [c \in Calls |-> FreshFrame]

-----------------------------------------------------------------------------
(* The call and its guard.                                                 *)

\* The arguments of a call that begins.
Called(c, a, n) ==
    /\ Cardinality(InFlight) < MaxInFlight
    /\ frame' = [frame EXCEPT ![c].app = a, ![c].name = n]

\* The guard lets a call through.
NotInstalled(a) == ~installed[a]

\* A second install() on the same app is a no-op.
AlreadyInstalled(c, a, n) ==
    /\ Goto(c, "idle", "noop")
    /\ Called(c, a, n)
    /\ ~NotInstalled(a)
    /\ UNCHANGED <<service, procVars, buildVars, appVars, second>>

Begin(c, a, n) ==
    /\ Goto(c, "idle", "mark")
    /\ Called(c, a, n)
    /\ NotInstalled(a)
    /\ UNCHANGED <<service, procVars, buildVars, appVars, second>>

\* The sentinel and the three attributes beside it, before any side effect.
MarkInstalled(c) ==
    /\ Goto(c, "mark", "snap")
    /\ installed' = [installed EXCEPT ![AppOf(c)] = TRUE]
    /\ UNCHANGED <<service, procVars, buildVars, hooks, routes, second, frame>>

\* FastAPI remembers how many middlewares and routes there were, Flask which.
SnapshotApp(c) ==
    /\ Goto(c, "snap", "peek")
    /\ frame' = [frame EXCEPT ![c].preHooks = hooks[AppOf(c)],
                              ![c].preRoutes = routes[AppOf(c)]]
    /\ UNCHANGED <<service, procVars, buildVars, appVars, second>>

\* Mutant: the service to roll back to is not remembered.
PeekNothing(c) ==
    /\ Goto(c, "peek", "set_service")
    /\ UNCHANGED <<service, procVars, buildVars, appVars, second, frame>>

\* pre_service = _peek_service()
PeekService(c) ==
    /\ Goto(c, "peek", "set_service")
    /\ frame' = [frame EXCEPT ![c].pre = service]
    /\ UNCHANGED <<service, procVars, buildVars, appVars, second>>

-----------------------------------------------------------------------------
(* The try block.                                                          *)

\* Mutant: the collector is registered in multiproc mode as well.
NeverSkipsCollector(c) == FALSE

\* FastAPI in multiproc mode registers no process collector.
SkipsCollector(c) == AppOf(c) \in Multiproc \ Flask

\* set_service(service)
SetService(c) ==
    /\ Goto(c, "set_service", IF SkipsCollector(c) THEN "stamp" ELSE "claim")
    /\ service' = Strip[NameOf(c)]
    /\ UNCHANGED <<procVars, buildVars, appVars, second, frame>>

\* Mutant: a critical section that takes no lock.
EnterUnlocked(lock) == TRUE

\* The lock of a critical section can be taken.
Free(lock) == lock = NoCall

\* The singleton already has this service: nothing to do.
ReuseCollector(c) ==
    /\ Goto(c, "claim", "stamp")
    /\ Free(procLock)
    /\ collector # NoCall
    /\ NameOf(collector) = NameOf(c)
    /\ frame' = [frame EXCEPT ![c].proc = "reused"]
    /\ UNCHANGED <<service, procVars, buildVars, appVars, second>>

\* No collector of this service: the prior one, if any, leaves the registry and
\* is remembered.  The lock stays taken until the new one is registered.
ClaimCollector(c) ==
    /\ Goto(c, "claim", "construct")
    /\ Free(procLock)
    /\ collector # NoCall => NameOf(collector) # NameOf(c) /\ collector \in exposed
    /\ procLock' = c
    /\ exposed' = exposed \ {collector}
    /\ frame' = [frame EXCEPT ![c].prior = collector]
    /\ UNCHANGED <<service, collector, buildVars, appVars, second>>

\* REGISTRY.unregister raises KeyError for a collector that is not registered.
ClaimUnregistered(c) ==
    /\ Goto(c, "claim", "rb_app")
    /\ Free(procLock)
    /\ collector # NoCall
    /\ NameOf(collector) # NameOf(c)
    /\ collector \notin exposed
    /\ UNCHANGED <<service, procVars, buildVars, appVars, second, frame>>

\* _collector = SimsysProcessCollector(service)
ConstructCollector(c) ==
    /\ Goto(c, "construct", "register")
    /\ collector' = c
    /\ UNCHANGED <<service, exposed, procLock, buildVars, appVars, second, frame>>

\* REGISTRY.register(_collector), and the rollback state is returned.
RegisterCollector(c) ==
    /\ Goto(c, "register", "stamp")
    /\ exposed' = exposed \cup {c}
    /\ procLock' = NoCall
    /\ frame' = [frame EXCEPT ![c].proc =
                    IF frame[c].prior = NoCall THEN "registered" ELSE "service_swap"]
    /\ UNCHANGED <<service, collector, buildVars, appVars, second>>

\* Mutant: the second is rounded up.
NextSecond == second + 1

\* started_at has the precision of a second.
StartedAt == second

\* The labels of the sample, made before the lock is taken.
StampBuildInfo(c) ==
    /\ Goto(c, "stamp", "own")
    /\ frame' = [frame EXCEPT ![c].key = <<NameOf(c), StartedAt>>]
    /\ UNCHANGED <<service, procVars, buildVars, appVars, second>>

\* was_new, and the key is added under the lock.
OwnBuildInfo(c) ==
    /\ Goto(c, "own", "sample")
    /\ Free(ownLock)
    /\ ownLock' = c
    /\ owned' = owned \cup {frame[c].key}
    /\ frame' = [frame EXCEPT ![c].wasNew = frame[c].key \notin owned]
    /\ UNCHANGED <<service, procVars, samples, appVars, second>>

\* build_info.labels(...).set(1), still under the lock.
SetBuildInfo(c) ==
    /\ Goto(c, "sample", "wire")
    /\ samples' = samples \cup {frame[c].key}
    /\ ownLock' = NoCall
    /\ UNCHANGED <<service, procVars, owned, appVars, second, frame>>

\* Starlette's add_middleware puts the newest first; Flask appends a hook.
AddHook(seq, c, a) == IF a \in Flask THEN Append(seq, c) ELSE <<c>> \o seq

WireApp(c) ==
    /\ Goto(c, "wire", "expose")
    /\ hooks' = [hooks EXCEPT ![AppOf(c)] = AddHook(@, c, AppOf(c))]
    /\ UNCHANGED <<service, procVars, buildVars, installed, routes, second, frame>>

\* Flask refuses a second view function for the endpoint of the metrics view.
RouteRefused(a) == a \in Flask /\ routes[a] # << >>

\* The metrics route, and install() returns.
ExposeRoute(c) ==
    /\ Goto(c, "expose", "done")
    /\ ~RouteRefused(AppOf(c))
    /\ routes' = [routes EXCEPT ![AppOf(c)] = Append(@, c)]
    /\ frame' = [frame EXCEPT ![c] = Returned(@)]
    /\ UNCHANGED <<service, procVars, buildVars, installed, hooks, second>>

ExposeConflict(c) ==
    /\ Goto(c, "expose", "rb_app")
    /\ RouteRefused(AppOf(c))
    /\ UNCHANGED <<service, procVars, buildVars, appVars, second, frame>>

\* Mutant: an exception leaves the lock of the process collector taken.
KeepProcLock(c) == procLock

\* Leaving the `with _lock` block, which an exception does too.
ReleaseProcLock(c) == IF procLock = c THEN NoCall ELSE procLock

\* A statement of the try block raises before its effect.
Raise(c) ==
    /\ pc[c] \in Raises
    /\ pc' = [pc EXCEPT ![c] = "rb_app"]
    /\ procLock' = ReleaseProcLock(c)
    /\ UNCHANGED <<service, collector, exposed, buildVars, appVars, second, frame>>

-----------------------------------------------------------------------------
(* The except block.                                                       *)

RollbackApp(c) ==
    /\ Goto(c, "rb_app", "rb_wiring")
    /\ installed' = [installed EXCEPT ![AppOf(c)] = FALSE]
    /\ UNCHANGED <<service, procVars, buildVars, hooks, routes, second, frame>>

\* del list[n:]
Truncate(seq, n) == SubSeq(seq, 1, IF n < Len(seq) THEN n ELSE Len(seq))

\* FastAPI truncates both lists to their old length; Flask puts the old hooks
\* back, and the old routes if the endpoint of the metrics view is a new one.
Unwired(c) ==
    LET a == AppOf(c)
        f == frame[c]
        endpointAdded == routes[a] # << >> /\ f.preRoutes = << >>
    IN  IF a \in Flask
        THEN [hooks |-> f.preHooks,
              routes |-> IF endpointAdded THEN f.preRoutes ELSE routes[a]]
        ELSE [hooks |-> Truncate(hooks[a], Len(f.preHooks)),
              routes |-> Truncate(routes[a], Len(f.preRoutes))]

RollbackWiring(c) ==
    /\ Goto(c, "rb_wiring", "rb_build")
    /\ hooks' = [hooks EXCEPT ![AppOf(c)] = Unwired(c).hooks]
    /\ routes' = [routes EXCEPT ![AppOf(c)] = Unwired(c).routes]
    /\ UNCHANGED <<service, procVars, buildVars, installed, second, frame>>

\* The rollback removes the sample only if this call created it.
RemovesSample(c) == frame[c].wasNew

KeepBuildInfo(c) ==
    /\ Goto(c, "rb_build", "rb_proc")
    /\ ~RemovesSample(c)
    /\ UNCHANGED <<service, procVars, buildVars, appVars, second, frame>>

DisownBuildInfo(c) ==
    /\ Goto(c, "rb_build", "rb_sample")
    /\ RemovesSample(c)
    /\ Free(ownLock)
    /\ ownLock' = c
    /\ owned' = owned \ {frame[c].key}
    /\ UNCHANGED <<service, procVars, samples, appVars, second, frame>>

RemoveBuildInfo(c) ==
    /\ Goto(c, "rb_sample", "rb_proc")
    /\ samples' = samples \ {frame[c].key}
    /\ ownLock' = NoCall
    /\ UNCHANGED <<service, procVars, owned, appVars, second, frame>>

\* Mutant: the rollback takes whatever collector is live.
LiveIsAnyones(c) == collector # NoCall

\* _collector is state.installed_collector
LiveIsMine(c) == collector = c

\* The rollback state says that this call put its collector in the slot.
Installed(c) == frame[c].proc \in {"registered", "service_swap"}

\* Mutant: the prior collector is not registered again.
NeverReexposed(c) == exposed

\* unregister(_collector): the collector of this call leaves the registry.  A
\* scrape takes no lock and sees each of the three writes of the restore.
UnregisterMine(c) ==
    /\ Goto(c, "rb_proc", IF frame[c].prior = NoCall THEN "rb_assign" ELSE "rb_register")
    /\ Installed(c)
    /\ Free(procLock)
    /\ LiveIsMine(c)
    /\ procLock' = c
    /\ exposed' = exposed \ {collector}
    /\ UNCHANGED <<service, collector, buildVars, appVars, second, frame>>

\* register(state.prior_collector)
Reexposed(c) == exposed \cup {frame[c].prior}

ReregisterPrior(c) ==
    /\ Goto(c, "rb_register", "rb_assign")
    /\ frame[c].prior # NoCall
    /\ exposed' = Reexposed(c)
    /\ UNCHANGED <<service, collector, procLock, buildVars, appVars, second, frame>>

\* _collector = state.prior_collector, or None; the lock is given back.
RestoreCollector(c) ==
    /\ Goto(c, "rb_assign", "rb_service")
    /\ collector' = frame[c].prior
    /\ procLock' = NoCall
    /\ UNCHANGED <<service, exposed, buildVars, appVars, second, frame>>

\* Nothing to undo, or another call's collector is live.
KeepCollector(c) ==
    /\ Goto(c, "rb_proc", "rb_service")
    /\ Installed(c) => Free(procLock) /\ ~LiveIsMine(c)
    /\ UNCHANGED <<service, procVars, buildVars, appVars, second, frame>>

\* set_service(pre_service), and the exception goes on to the caller.
RestoreService(c) ==
    /\ Goto(c, "rb_service", "raised")
    /\ service' = IF frame[c].pre = NoName THEN NoName ELSE Strip[frame[c].pre]
    /\ frame' = [frame EXCEPT ![c] = Raised(@)]
    /\ UNCHANGED <<procVars, buildVars, appVars, second>>

-----------------------------------------------------------------------------
(* The rest of the process.                                                *)

Tick ==
    /\ second < MaxSecond
    /\ second' = second + 1
    /\ UNCHANGED <<service, procVars, buildVars, appVars, pc, frame>>

\* The host follows the advice of the "called again" warning.
DropSentinel(a) ==
    /\ Reinit
    /\ installed[a]
    /\ \A c \in InFlight : AppOf(c) # a
    /\ installed' = [installed EXCEPT ![a] = FALSE]
    /\ UNCHANGED <<service, procVars, buildVars, hooks, routes, second, pc, frame>>

\* Every call has ended: the process goes on and serves.
Serve ==
    /\ \A c \in Calls : pc[c] \in Ended
    /\ UNCHANGED vars

Advance(c) ==
    \/ MarkInstalled(c) \/ SnapshotApp(c) \/ PeekService(c) \/ SetService(c)
    \/ ReuseCollector(c) \/ ClaimCollector(c) \/ ClaimUnregistered(c)
    \/ ConstructCollector(c) \/ RegisterCollector(c)
    \/ StampBuildInfo(c) \/ OwnBuildInfo(c) \/ SetBuildInfo(c)
    \/ WireApp(c) \/ ExposeRoute(c) \/ ExposeConflict(c)

Rollback(c) ==
    \/ RollbackApp(c) \/ RollbackWiring(c)
    \/ KeepBuildInfo(c) \/ DisownBuildInfo(c) \/ RemoveBuildInfo(c)
    \/ UnregisterMine(c) \/ ReregisterPrior(c) \/ RestoreCollector(c)
    \/ KeepCollector(c) \/ RestoreService(c)

Next ==
    \/ \E c \in Calls :
        \/ \E a \in Apps, n \in Names : AlreadyInstalled(c, a, n) \/ Begin(c, a, n)
        \/ Advance(c) \/ Rollback(c) \/ Raise(c)
    \/ \E a \in Apps : DropSentinel(a)
    \/ Tick
    \/ Serve

Spec == Init /\ [][Next]_vars

\* Threads are scheduled: a call that can take a step takes one.
FairSpec == Spec /\ \A c \in Calls : WF_vars(Advance(c) \/ Rollback(c))

-----------------------------------------------------------------------------
(* Properties of every interleaving.                                       *)

TypeOK ==
    /\ service \in Names \cup {NoName}
    /\ collector \in Calls \cup {NoCall}
    /\ exposed \subseteq Calls
    /\ procLock \in Calls \cup {NoCall}
    /\ owned \subseteq Keys
    /\ samples \subseteq Keys
    /\ ownLock \in Calls \cup {NoCall}
    /\ installed \in [Apps -> BOOLEAN]
    /\ hooks \in [Apps -> Seq(Hooks)]
    /\ routes \in [Apps -> Seq(Calls)]
    /\ second \in Seconds
    /\ pc \in [Calls -> {"idle"} \cup Running \cup Ended]
    /\ frame \in [Calls -> Frame]

\* A call's constructor or registration raised after the prior collector had left the
\* registry, or after the new one had taken the slot: nothing puts either back.
SwapBroke ==
    \E c \in Calls :
        /\ pc[c] \in RollingBack \cup {"raised"}
        /\ frame[c].proc = "none"
        /\ frame[c].prior # NoCall \/ collector = c

\* Whatever calls swap, reuse and roll back at the same time, outside the lock
\* the registry holds exactly the collector that _process._collector names: no
\* scrape finds the process metrics twice, and none are lost behind the singleton,
\* unless a swap broke off in the middle (_process.py:168-170).
SingletonIsExposed ==
    procLock = NoCall /\ ~SwapBroke => exposed = {collector} \ {NoCall}

\* The collector that the rollback in the critical section is about to assign.
BeingRestored == {frame[c].prior : c \in {d \in Calls : pc[d] = "rb_assign"}} \ {NoCall}

\* A scrape takes no lock, so this holds inside the critical sections as well:
\* the registry never holds two process collectors, which every scrape would
\* report as a series met twice, and the one it holds is the singleton or, between
\* register(prior) and the assignment (_process.py:228-235), the one that a single
\* rollback puts back.
NoStrayCollector ==
    /\ exposed \subseteq {collector} \cup BeingRestored
    /\ \A c, d \in exposed : c = d

\* Outside its lock the ownership set and the gauge agree, which is why the lock
\* spans both writes (build_info.py:103-112).
OwnershipMatchesSamples == ownLock = NoCall => owned = samples

\* The call would remove the sample k if it failed now.
Owns(c, k) ==
    /\ frame[c].wasNew
    /\ frame[c].key = k
    /\ pc[c] \notin {"rb_proc", "rb_register", "rb_assign", "rb_service", "raised"}

\* Every build_info sample has exactly one call that created it and answers for
\* it: a failed call leaves none behind, and no two calls would remove the same.
EachSampleHasOneOwner ==
    \A k \in samples : \E c \in Calls : {d \in Calls : Owns(d, k)} = {c}

\* A rollback works on what its call saw long ago (_process.py:191-196, 218-220).
\* Whatever overlapping calls swap and roll back, in whatever order: once an
\* install that put its own collector in the slot has returned, the process never
\* is without process metrics again, unless a swap broke off in the middle.
CreatorsKeepMetrics ==
    procLock = NoCall /\ ~SwapBroke /\ (\E c \in Calls : pc[c] = "done" /\ Installed(c))
        => exposed # {}

\* Two locks and any failure between them: every call that passes the guard
\* returns or raises.
EveryCallEnds ==
    \A c \in Calls : pc[c] = "mark" ~> pc[c] \in {"done", "raised"}

-----------------------------------------------------------------------------
(* Calls that run one after the other implement InstallTxn.  The state they *)
(* implement is the one a rollback would restore if it began now.           *)

Current == CHOOSE c \in InFlight : TRUE

CommittedIdentity ==
    IF InFlight = {} \/ pc[Current] \in {"mark", "snap", "peek"}
    THEN service ELSE frame[Current].pre

CommittedExposed ==
    LET changed == /\ InFlight # {}
                   /\ pc[Current] \in {"construct", "register"} \/ Installed(Current)
        live == IF changed THEN {frame[Current].prior} \ {NoCall} ELSE exposed
    IN  IF live = {} THEN NoName ELSE NameOf(CHOOSE c \in live : TRUE)

CommittedBuilds ==
    samples \ {frame[c].key : c \in {d \in InFlight : frame[d].wasNew}}

Recorders(a) == {i \in DOMAIN hooks[a] : hooks[a][i] # Host}

\* The app is as its host left it, or has one recorder and its metrics route.
Unwound(a) == ~installed[a] /\ Recorders(a) = {} /\ routes[a] = << >>
WiredOnce(a, i) == installed[a] /\ Recorders(a) = {i} /\ routes[a] = <<hooks[a][i]>>
HostIntact(a) == Len(hooks[a]) - Cardinality(Recorders(a)) = HostHooks[a]

CommittedWiring(a) ==
    CASE \E c \in InFlight : AppOf(c) = a -> NoName
      [] HostIntact(a) /\ Unwound(a) -> NoName
      [] HostIntact(a) /\ \E i \in DOMAIN hooks[a] : WiredOnce(a, i) ->
            NameOf(Head(routes[a]))
      [] OTHER -> Host

Txn == INSTANCE InstallTxn WITH
    identity <- CommittedIdentity,
    exposed <- CommittedExposed,
    builds <- CommittedBuilds,
    wired <- [a \in Apps |-> CommittedWiring(a)],
    NoMetrics <- Multiproc \ Flask,
    Rearmable <- {}

\* One call at a time, install() is all or nothing: a call that returns changed
\* the identity, the process metrics, the sample and the app together; one that
\* raises, at any step, left every one of them as it was.
AllOrNothing == Txn!TxnSpec

-----------------------------------------------------------------------------
(* What the docstrings say of concurrent and repeated installs.            *)

Committed == {c \in Calls : pc[c] = "done"}
AtRest == InFlight = {}

\* _baseline.py:158-162: two parallel installs do not "overwrite the wrong value
\* on rollback".  At rest the identity is one that an install that returned set.
IdentityIsCommitted ==
    AtRest /\ Committed # {} => service \in {Strip[NameOf(c)] : c \in Committed}

\* build_info.py:149-158: a rollback does not delete "that install's legitimate
\* sample".  At rest every install that returned has its sample.
CommittedHaveBuildInfo ==
    AtRest => \A c \in Committed : frame[c].key \in samples

\* _process.py:191-196: a rollback does not "silently break the concurrent
\* install's metrics".  At rest, if an install returned, a collector is live.
CommittedHaveCollector ==
    AtRest /\ Committed # {} => collector # NoCall

\* _process.py:216-218: a rollback re-registers "the previously-installed
\* service's" collector.  At rest the live one belongs to an install that returned.
CollectorIsCommitted ==
    AtRest /\ collector # NoCall => collector \in Committed

\* _process.py:164-166: a swap that fails does not leave the process metrics
\* "permanently broken".  It does, if the constructor or the registration raises.
SingletonAlwaysExposed == procLock = NoCall => exposed = {collector} \ {NoCall}

\* fastapi.py:83-85: a second install on the same app "is a no-op".  At rest an
\* app on which some install returned is installed.
ReturnedMeansInstalled ==
    AtRest => \A c \in Calls : pc[c] \in {"done", "noop"} => installed[AppOf(c)]

\* fastapi.py:83-99: install can be called again "without doubling middleware",
\* and "to re-init" one drops the sentinel first.  One recorder for each app.
OneRecorder == AtRest => \A a \in Apps : Cardinality(Recorders(a)) <= 1

\* fastapi.py:222: a rollback truncates the middleware "we added during this
\* install attempt".  At rest the host's own middlewares are still there.
HostHooksSurvive == AtRest => \A a \in Apps : HostIntact(a)

\* _baseline.py:84-89: the service label is stripped, so it joins with the logs.
\* At rest every app counts its requests under a stripped label.
RequestsCarryStrippedService ==
    AtRest => \A a \in Apps : \A i \in Recorders(a) :
                 NameOf(hooks[a][i]) = Strip[NameOf(hooks[a][i])]
=============================================================================
