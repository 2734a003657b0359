----------------------------- MODULE NodeInstall -----------------------------
(***************************************************************************)
(* install() of the Node lane on Express and Hono apps, and installNext()  *)
(* on http.Server.prototype, with the process collector and its            *)
(* asynchronous scrapes.  An install is synchronous: no other code of the  *)
(* process runs between its statements, but any of them can throw, before  *)
(* its effect or half-way, and the catch block then undoes what it knows   *)
(* the earlier ones to have done.  A scrape is asynchronous: the CPU       *)
(* counter's collect() is called first and its body runs later, behind     *)
(* cpuCollectMutex, so installs and other scrapes come in between.         *)
(***************************************************************************)
EXTENDS Naturals, Sequences, FiniteSets

CONSTANTS
    Apps,           \* application objects, and http.Server.prototype
    Server,         \* http.Server.prototype, whose emit installNext patches
    Has,            \* the methods of each application object
    Cleared,        \* the apps whose host deletes the sentinel to install again
    Names,          \* spellings of a service name
    Asked,          \* those that callers pass
    Strip,          \* String.prototype.trim() on those spellings
    Paths,          \* metrics paths a caller may ask for, by app
    Scrapes,        \* concurrent readers of the metrics endpoint
    Faults,         \* the statements that may throw before their effect
    HalfWay,        \* those that may throw after a part of it
    MaxCpu,         \* bound: CPU seconds the process consumes
    Seconds,        \* values of the second-precision started_at label
    MaxHost,        \* bound: handlers the host adds to an app, by app
    NoName          \* null

\* The statements of the try block, in order; installNext has no props, and wires once.
Statements == {"set_service", "process", "defaults", "build", "props", "wire", "wire_last"}

ASSUME NodeNamesAssumption ==
    /\ Strip \in [Names -> Names]
    /\ \A n \in Names : Strip[Strip[n]] = Strip[n]
    /\ Asked \subseteq Names /\ Names # {}
    /\ NoName \notin Names

ASSUME NodeParametersAssumption ==
    /\ Apps # {} /\ Cleared \subseteq Apps
    /\ DOMAIN Has = Apps
    /\ DOMAIN Paths = Apps /\ \A a \in Apps : Paths[a] # {}
    /\ NoName \notin Nat
    /\ Faults \subseteq Statements
    /\ HalfWay \subseteq {"process", "build"}
    /\ Seconds # {}
    /\ MaxCpu \in Nat /\ MaxHost \in [Apps -> Nat]

VARIABLES
    at,         \* the next statement of the install that runs, or "idle"
    cur,        \* the locals of that install
    identity,   \* baseline.ts _state.service
    registered, \* process.ts _state.registered
    label,      \* process.ts _state.service
    last,       \* process.ts _state.lastCpuSeconds
    counter,    \* simsys_process_cpu_seconds_total by service; 0 is no series
    defaults,   \* the registry's default service label
    builds,     \* the samples of build_info
    owned,      \* _ownedLabelKeys
    torn,       \* auxiliary: an install has thrown half-way through a statement
    installed,  \* simsysMetricsInstalled
    live,       \* simsysService and simsysMetricsPath of each app
    stack,      \* the handlers of each app, in order; of the server, the layers of emit
    origEmit,   \* how many layers __simsysNextOrigEmit has
    cpu,        \* process.cpuUsage()
    pending     \* the scrapes whose collect() was called and has not run

procVars == <<registered, label, last, counter>>
appVars == <<installed, live, stack, origEmit>>
envVars == <<cpu, pending>>
buildVars == <<builds, owned, torn>>
vars == <<at, cur, identity, procVars, defaults, buildVars, appVars, envVars>>

-----------------------------------------------------------------------------
\* The tests of install(): Express is asked first.
IsExpressApp(a) == {"use", "get", "handle", "listen"} \subseteq Has[a]
IsHonoApp(a) == {"route", "fetch", "get"} \subseteq Has[a]

Express == {a \in Apps \ {Server} : IsExpressApp(a)}
Hono == {a \in Apps \ {Server} : ~IsExpressApp(a) /\ IsHonoApp(a)}

AnyPath == UNION {Paths[a] : a \in Apps}
Keys == Names \X Seconds

\* A handler is the host's, a metrics route, or a recorder.  A route has its path,
\* and a recorder closes over the service and the path; Hono's reads both from the app.
Layers == [what : {"host", "route", "recorder"}, name : Names \cup {NoName},
           path : AnyPath \cup {NoName}]
HostLayer == [what |-> "host", name |-> NoName, path |-> NoName]

NoLive == [name |-> NoName, path |-> NoName]

\* seen is auxiliary: the CPU series as they were when the install began.
Locals == [app : Apps, name : Names, path : AnyPath, pre : Names \cup {NoName},
           depth : Nat, proc : {"none", "reused", "registered", "service-swap"},
           prior : Names \cup {NoName}, key : Keys, wasNew : BOOLEAN,
           seen : [Names -> Nat]]

\* The locals when no install runs.
Idle ==
    LET n == CHOOSE m \in Names : TRUE
    IN  [app |-> CHOOSE a \in Apps : TRUE, name |-> n, path |-> CHOOSE p \in AnyPath : TRUE,
         pre |-> NoName, depth |-> 0, proc |-> "none", prior |-> NoName,
         key |-> <<n, CHOOSE t \in Seconds : TRUE>>, wasNew |-> FALSE, seen |-> [m \in Names |-> 0]]

AtRest == at = "idle"

Init ==
    /\ at = "idle"
    /\ identity = NoName
    /\ registered = FALSE /\ label = NoName /\ last = 0
    /\ counter = [n \in Names |-> 0]
    /\ defaults = NoName
    /\ builds = {} /\ owned = {} /\ torn = FALSE
    /\ installed = [a \in Apps |-> FALSE]
    /\ live = [a \in Apps |-> NoLive]
    /\ stack = [a \in Apps |-> << >>]
    /\ origEmit = NoName
    /\ cpu = 0 /\ pending = {}
    /\ cur = Idle

-----------------------------------------------------------------------------
(* The statements of install().                                            *)

Step(from, to) == at = from /\ at' = to

\* A second install() on the same app is a no-op, and one on an object that is
\* no application throws.
NothingToInstall(a) ==
    /\ AtRest
    /\ installed[a] \/ a \notin Express \cup Hono \cup {Server}
    /\ UNCHANGED vars

\* Mutant: installNext takes the emit it finds for the original, its own patch or not.
LiveDepth(a) == Len(stack[a])

\* What is below the handlers to come: of the server, the first original of emit.
PriorDepth(a) == IF a = Server /\ origEmit # NoName THEN origEmit ELSE Len(stack[a])

\* The guard lets the call in, and the state to roll back to is remembered.
Begin(a, n, p) ==
    /\ Step("idle", "set_service")
    /\ a \in Express \cup Hono \cup {Server}
    /\ ~installed[a]
    /\ cur' = [Idle EXCEPT !.app = a, !.name = n, !.path = p, !.pre = identity,
                           !.depth = PriorDepth(a), !.seen = counter]
    /\ UNCHANGED <<identity, procVars, defaults, buildVars, appVars, envVars>>

SetService ==
    /\ Step("set_service", "process")
    /\ identity' = Strip[cur.name]
    /\ UNCHANGED <<cur, procVars, defaults, buildVars, appVars, envVars>>

ReuseProcess ==
    /\ Step("process", "defaults")
    /\ registered
    /\ label = cur.name
    /\ cur' = [cur EXCEPT !.proc = "reused"]
    /\ UNCHANGED <<identity, procVars, defaults, buildVars, appVars, envVars>>

\* Mutant: the swapped-out service keeps its series.
WithSeries(n) == counter

\* counter.remove({service: n})
WithoutSeries(n) == IF n \in Names THEN [counter EXCEPT ![n] = 0] ELSE counter

\* Another service: relabel, and drop the prior service's series.
SwapProcess ==
    /\ Step("process", "defaults")
    /\ registered
    /\ label # cur.name
    /\ label' = cur.name
    /\ counter' = WithoutSeries(label)
    /\ cur' = [cur EXCEPT !.proc = "service-swap", !.prior = label]
    /\ UNCHANGED <<identity, registered, last, defaults, buildVars, appVars, envVars>>

FreshProcess ==
    /\ Step("process", "defaults")
    /\ ~registered
    /\ registered' = TRUE
    /\ label' = cur.name
    /\ cur' = [cur EXCEPT !.proc = "registered"]
    /\ UNCHANGED <<identity, last, counter, defaults, buildVars, appVars, envVars>>

\* registry.setDefaultLabels({service})
RegisterDefaults ==
    /\ Step("defaults", "build")
    /\ defaults' = cur.name
    /\ UNCHANGED <<cur, identity, procVars, buildVars, appVars, envVars>>

\* Mutant: a label set that exists already counts as new.
AlwaysNew(k) == TRUE

\* wasNew
IsNew(k) == k \notin owned

\* startedAtNow() and registerBuildInfo(): two installs of a second share a label set.
RegisterBuildInfo(t) ==
    LET k == <<cur.name, t>>
    IN  /\ Step("build", IF cur.app = Server THEN "wire_last" ELSE "props")
        /\ builds' = builds \cup {k}
        /\ owned' = owned \cup {k}
        /\ cur' = [cur EXCEPT !.key = k, !.wasNew = IsNew(k)]
        /\ UNCHANGED <<identity, procVars, defaults, torn, appVars, envVars>>

\* The properties that the host, and Hono's handlers, read.
SetProps ==
    /\ Step("props", "wire")
    /\ live' = [live EXCEPT ![cur.app] = [name |-> cur.name, path |-> cur.path]]
    /\ UNCHANGED <<cur, identity, procVars, defaults, buildVars, installed, stack, origEmit, envVars>>

Handler(what) ==
    LET closes == cur.app \notin Hono
    IN  [what |-> what,
         name |-> IF what = "recorder" /\ closes THEN cur.name ELSE NoName,
         path |-> IF what = "route" \/ closes THEN cur.path ELSE NoName]

\* The positions of one kind of handler on an app.
Wired(a, what) == {i \in DOMAIN stack[a] : stack[a][i].what = what}

\* Mutant: Hono wires its handlers on every attempt.
AddedAgain(what) == Append(stack[cur.app], Handler(what))

\* Express adds a handler to its stack.  Hono cannot remove one, so it adds it
\* only if no earlier attempt has (simsysHonoMwInstalled, simsysHonoRouteInstalled).
Added(what) ==
    IF cur.app \in Hono /\ Wired(cur.app, what) # {}
    THEN stack[cur.app]
    ELSE Append(stack[cur.app], Handler(what))

\* Mutant: Hono mounts the route before the recorder.
RouteFirst(a, what) == what = "route"

\* Express mounts the metrics route first, Hono the recorder.
WiredFirst(a, what) == what = IF a \in Hono THEN "recorder" ELSE "route"

Wire(what) ==
    /\ Step("wire", "wire_last")
    /\ WiredFirst(cur.app, what)
    /\ stack' = [stack EXCEPT ![cur.app] = Added(what)]
    /\ UNCHANGED <<cur, identity, procVars, defaults, buildVars, installed, live, origEmit,
                   envVars>>

\* The second handler, and the sentinel, which is set last.
WireLast(what) ==
    /\ Step("wire_last", "idle")
    /\ cur.app # Server
    /\ ~WiredFirst(cur.app, what)
    /\ stack' = [stack EXCEPT ![cur.app] = Added(what)]
    /\ installed' = [installed EXCEPT ![cur.app] = TRUE]
    /\ cur' = Idle
    /\ UNCHANGED <<identity, procVars, defaults, buildVars, live, origEmit, envVars>>

\* installNext puts its patch on the original emit, in place of what is there, and
\* remembers the original the first time.
PatchEmit ==
    /\ Step("wire_last", "idle")
    /\ cur.app = Server
    /\ stack' = [stack EXCEPT ![Server] = Append(SubSeq(@, 1, cur.depth), Handler("recorder"))]
    /\ installed' = [installed EXCEPT ![Server] = TRUE]
    /\ origEmit' = IF origEmit = NoName THEN cur.depth ELSE origEmit
    /\ cur' = Idle
    /\ UNCHANGED <<identity, procVars, defaults, buildVars, live, envVars>>

\* Mutant: the rollback cuts one handler too many.
CutTo(a) == SubSeq(stack[a], 1, IF cur.depth = 0 THEN 0 ELSE cur.depth - 1)

\* stack.length = preMiddlewareCount.  Hono keeps its handlers, inert; emit is
\* still what it was, because nothing throws after it is patched.
Unwound(a) == IF a \in Express THEN SubSeq(stack[a], 1, cur.depth) ELSE stack[a]

\* Mutant: any rollback forgets the service of the process metrics.
LabelDropped == NoName

\* restoreProcessCollector: the label goes back to the prior service.
LabelRestored ==
    CASE cur.proc = "registered" -> NoName
      [] cur.proc = "service-swap" -> cur.prior
      [] OTHER -> label

\* The failed install's series goes, with all of them if it was the first install.
CounterRestored ==
    CASE cur.proc = "registered" -> [n \in Names |-> 0]
      [] cur.proc = "service-swap" -> WithoutSeries(label)
      [] OTHER -> counter

RestoreProcess ==
    LET fresh == cur.proc = "registered"
    IN  /\ registered' = (registered /\ ~fresh)
        /\ label' = LabelRestored
        /\ last' = IF fresh THEN 0 ELSE last
        /\ counter' = CounterRestored

\* The keys the install has added.
MyKeys == IF cur.wasNew THEN {cur.key} ELSE {}

\* unregisterBuildInfoIfOwned: only the install that added the sample takes it away.
BuildsRestored == builds \ MyKeys

\* What the catch block undoes after any throw.
Abandon ==
    LET a == cur.app
    IN  /\ at' = "idle"
        /\ installed' = [installed EXCEPT ![a] = FALSE]
        /\ live' = [live EXCEPT ![a] = NoLive]
        /\ stack' = [stack EXCEPT ![a] = Unwound(a)]
        /\ identity' = IF cur.pre = NoName THEN NoName ELSE Strip[cur.pre]
        /\ cur' = Idle
        /\ UNCHANGED <<defaults, origEmit, envVars>>

\* A statement throws before its effect.  (registerNodeDefaultMetrics that throws after
\* setDefaultLabels is the build statement that does: what it wrote is not undone.)
ThrowAndRollBack ==
    /\ at \in Faults
    /\ builds' = BuildsRestored
    /\ owned' = owned \ MyKeys
    /\ RestoreProcess
    /\ Abandon
    /\ UNCHANGED torn

\* registerProcessCollector throws after its sentinel and label are set, because the
\* name of a metric is taken: the catch block got no state to restore.  (If it is the CPU
\* counter's name, no scrape can start: a case of this one in which none does.)
ThrowHalfRegistered ==
    /\ at = "process" /\ "process" \in HalfWay
    /\ ~registered
    /\ registered' = TRUE
    /\ label' = cur.name
    /\ torn' = TRUE
    /\ Abandon
    /\ UNCHANGED <<last, counter, builds, owned>>

\* registerBuildInfo throws after it has claimed the key: there is no sample, and the
\* catch block takes the key for another install's.
ThrowHalfBuilt(t) ==
    /\ at = "build" /\ "build" \in HalfWay
    /\ owned' = owned \cup {<<cur.name, t>>}
    /\ torn' = TRUE
    /\ RestoreProcess
    /\ Abandon
    /\ UNCHANGED builds

-----------------------------------------------------------------------------
(* What runs between installs: scrapes, the host, the CPU.                 *)

\* Registry.metrics() calls collect(), which chains its body onto the mutex.
StartScrape(x) ==
    /\ AtRest
    /\ registered
    /\ x \notin pending
    /\ pending' = pending \cup {x}
    /\ UNCHANGED <<at, cur, identity, procVars, defaults, buildVars, appVars, cpu>>

\* Mutant: the cumulative value is not remembered.
Forgotten == last

\* _state.lastCpuSeconds = total
Remembered == cpu

\* Mutant: inc() by the cumulative value.
CpuTotal == last + cpu

\* Math.max(0, total - lastCpuSeconds)
CpuDelta == IF cpu > last THEN cpu - last ELSE 0

\* The body: inc() by the CPU consumed since the last collect, under the service
\* that is current by now.
CollectCpu(x) ==
    /\ AtRest
    /\ x \in pending
    /\ pending' = pending \ {x}
    /\ last' = Remembered
    /\ counter' = IF CpuDelta > 0 THEN [counter EXCEPT ![label] = @ + CpuDelta] ELSE counter
    /\ UNCHANGED <<at, cur, identity, registered, label, defaults, buildVars, appVars, cpu>>

ConsumeCpu ==
    /\ AtRest
    /\ cpu < MaxCpu
    /\ cpu' = cpu + 1
    /\ UNCHANGED <<at, cur, identity, procVars, defaults, buildVars, appVars, pending>>

\* The host adds a handler of its own.
HostAdds(a) ==
    /\ AtRest
    /\ Cardinality(Wired(a, "host")) < MaxHost[a]
    /\ stack' = [stack EXCEPT ![a] = Append(@, HostLayer)]
    /\ UNCHANGED <<at, cur, identity, procVars, defaults, buildVars, installed, live, origEmit,
                   envVars>>

\* The host deletes the sentinel, as the warnings tell it to.
ClearSentinel(a) ==
    /\ AtRest
    /\ a \in Cleared
    /\ installed[a]
    /\ installed' = [installed EXCEPT ![a] = FALSE]
    /\ UNCHANGED <<at, cur, identity, procVars, defaults, buildVars, live, stack, origEmit,
                   envVars>>

Install ==
    \/ \E a \in Apps : NothingToInstall(a)
    \/ \E a \in Apps, n \in Asked : \E p \in Paths[a] : Begin(a, n, p)
    \/ SetService
    \/ ReuseProcess \/ SwapProcess \/ FreshProcess
    \/ RegisterDefaults \/ SetProps
    \/ \E t \in Seconds : RegisterBuildInfo(t)
    \/ \E what \in {"route", "recorder"} : Wire(what) \/ WireLast(what)
    \/ PatchEmit
    \/ ThrowAndRollBack \/ ThrowHalfRegistered
    \/ \E t \in Seconds : ThrowHalfBuilt(t)

Next ==
    \/ Install
    \/ \E x \in Scrapes : StartScrape(x) \/ CollectCpu(x)
    \/ ConsumeCpu
    \/ \E a \in Apps : HostAdds(a) \/ ClearSentinel(a)

Spec == Init /\ [][Next]_vars

-----------------------------------------------------------------------------
(* Properties.                                                             *)

\* Each variable has the values that the code can assign to it.
NodeTypeOK ==
    /\ at \in {"idle"} \cup Statements
    /\ cur \in Locals
    /\ identity \in Names \cup {NoName}
    /\ registered \in BOOLEAN
    /\ label \in Names \cup {NoName}
    /\ last \in 0..MaxCpu
    /\ counter \in [Names -> 0..MaxCpu]
    /\ defaults \in Names \cup {NoName}
    /\ builds \subseteq Keys /\ owned \subseteq Keys /\ torn \in BOOLEAN
    /\ installed \in [Apps -> BOOLEAN]
    /\ live \in [Apps -> [name : Names \cup {NoName}, path : AnyPath \cup {NoName}]]
    /\ stack \in [Apps -> Seq(Layers)]
    /\ origEmit \in Nat \cup {NoName}
    /\ cpu \in 0..MaxCpu
    /\ pending \subseteq Scrapes

\* process.ts:136-137: concurrent scrapes do not "double-count", whatever installs,
\* swaps and rollbacks come between collect() and its body: one series at most has
\* counted anything, and not more CPU than the process was last read to have used.
CpuNotOvercounted ==
    /\ last <= cpu
    /\ \A n \in Names : counter[n] > 0 =>
         counter[n] <= last /\ \A m \in Names \ {n} : counter[m] = 0

\* process.ts:99-103 and 205-212: only the current service has process series; a
\* swap drops the old one's and a rollback the failed one's, also when a scrape
\* that began under the other service writes afterwards.
OnlyLiveSeries == \A n \in Names : counter[n] > 0 => n = label

\* process.ts:145 asserts that the service is not null when a collect() body runs,
\* which may be after any number of failed installs.
PendingHasCollector == pending # {} => registered /\ label # NoName

\* hono.ts:159-172 and next.ts:266-285: retries after partial installs never give a
\* Hono app a second recorder or route, although it cannot remove the first, and
\* installs after the sentinel was cleared never stack two patches in emit.
WiredOnce ==
    \A a \in Hono \cup {Server}, what \in {"route", "recorder"} :
        a \in Apps => Cardinality(Wired(a, what)) <= 1

\* The path that the recorder of an app skips.
ExemptPath(a, i) == IF a \in Hono THEN live[a].path ELSE stack[a][i].path

\* express.ts:128-131, hono.ts:142-157: the recorder never counts the scrapes of
\* its own metrics route, even one mounted by an earlier attempt with another path.
MetricsRouteExempt ==
    \A a \in Apps : installed[a] =>
        \A i \in Wired(a, "recorder"), j \in Wired(a, "route") :
            ExemptPath(a, i) = stack[a][j].path

\* The handlers that a rollback or a later install must not touch: installNext takes
\* off what the host laid on top of its patch, and keeps what it first found.
HostsOwn(a) == {i \in Wired(a, "host") : a = Server /\ origEmit # NoName => i <= origEmit}

\* express.ts:211-216, next.ts:269-277: the rollback removes what the attempt added
\* and nothing of the host's, which may sit anywhere below it, and no install after
\* a cleared sentinel loses the original emit.
HostHandlersStay ==
    [][\A a \in Apps : Cardinality(HostsOwn(a)) <= Cardinality(HostsOwn(a)')]_vars

-----------------------------------------------------------------------------
(* An install that runs to its end, throwing or not, implements InstallTxn. *)

\* The app is as its host left it, or carries one recorder of one service.
Untouched(a) ==
    IF a = Server THEN Wired(a, "recorder") = {}
    ELSE ~installed[a] /\ (a \in Hono \/ Wired(a, "recorder") \cup Wired(a, "route") = {})
RecordedAs(a, i) == IF a \in Hono THEN live[a].name ELSE stack[a][i].name

CommittedWiring(a) ==
    CASE (~AtRest /\ cur.app = a /\ a # Server) \/ Untouched(a) -> NoName
      [] (installed[a] \/ a = Server)
         /\ Cardinality(Wired(a, "recorder")) = 1
         /\ Cardinality(Wired(a, "route")) = (IF a = Server THEN 0 ELSE 1) ->
            RecordedAs(a, CHOOSE i \in Wired(a, "recorder") : TRUE)
      [] OTHER -> "broken"

CommittedIdentity == IF at \in {"idle", "set_service"} THEN identity ELSE cur.pre

CommittedExposed ==
    CASE cur.proc = "registered" -> NoName
      [] cur.proc = "service-swap" -> cur.prior
      [] OTHER -> label

Txn == INSTANCE InstallTxn WITH
    identity <- CommittedIdentity,
    exposed <- CommittedExposed,
    builds <- BuildsRestored,
    wired <- [a \in Apps |-> CommittedWiring(a)],
    NoMetrics <- {},
    Rearmable <- {Server}

\* install() of the Node lane is all or nothing for the identity, the process
\* metrics, the build_info sample and the app, whichever statement throws before its
\* effect and whatever scrapes are waiting: express.ts:88-94 and hono.ts:115-119 say
\* that the rollback can "undo each one on partial failure".  So it is until a
\* statement throws half-way, which leaves a trace.
AllOrNothing == Txn!TxnInit /\ [][torn' \/ Txn!TxnNext]_(Txn!txnVars)

-----------------------------------------------------------------------------
(* What the comments say, and the code does not do.                        *)

\* express.ts:88-89: "Snapshot every piece of state install is about to mutate so the
\* rollback can undo each one on partial failure", a throw half-way included.
AlwaysAllOrNothing == Txn!TxnSpec

\* registry.ts:335-336: the default label stays "consistent with the adapter's
\* current `service` identity".
DefaultLabelIsIdentity == AtRest /\ identity # NoName => Strip[defaults] = identity

\* express.ts:81-82: "To re-init, drop app.locals.simsysMetricsInstalled first", and
\* the next install gives the app a second recorder.
ReinitCountsOnce == \A a \in Apps : Cardinality(Wired(a, "recorder")) <= 1

\* process.ts:211-212: a rollback after a swap "leaves the prior service's
\* accumulator intact and monotonic".
RollbackKeepsSeries ==
    [][~AtRest /\ AtRest' /\ ~installed[cur.app]' =>
         \A n \in Names : n = label' => counter[n]' >= cur.seen[n]]_vars
=============================================================================
