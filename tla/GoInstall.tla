------------------------------- MODULE GoInstall -------------------------------
(***************************************************************************)
(* Go's Install(opts), called by goroutines, several times on one          *)
(* registry.  A call remembers the registry's first service, registers the *)
(* collectors one by one or takes the registered ones, and sets build_info *)
(* if it was the one to register it.  The handle it returns emits under    *)
(* the call's own service.  Prometheus' Register is atomic.                *)
(***************************************************************************)
EXTENDS Integers, Sequences, FiniteSets, Functions

CONSTANTS
    Calls,       \* calls of Install
    Registries,  \* registries the host passes
    Services,    \* services as the host writes them
    Trim,        \* strings.TrimSpace on Services
    Blank,       \* the empty service
    Collectors,  \* the collectors, in the order Install registers them
    Conflicts    \* may the host hold an incompatible collector?

None == "none"        \* no collector, or no service recorded yet
Foreign == "foreign"  \* a collector of the host that has another descriptor

ASSUME GoInstallAssumption ==
    /\ {None, Foreign} \cap Services = {}
    /\ Trim \in [Services -> Services]
    /\ \A s \in Services : Trim[Trim[s]] = Trim[s]
    /\ Blank \in Services /\ Trim[Blank] = Blank
    /\ Collectors \in Seq(STRING) /\ IsInjective(Collectors)
    /\ Len(Collectors) > 1
    /\ Collectors[1] = "build_info" /\ Collectors[Len(Collectors)] = "process"
    /\ Conflicts \in BOOLEAN

VARIABLES
    pc,          \* per call: where it is
    mine,        \* per call: registry and trimmed service
    isNew,       \* the calls that registered build_info
    registered,  \* per registry and collector: the service it was built with
    identity,    \* registryService
    warned,      \* registryServiceWarned
    samples,     \* per registry: the build_info samples, by the call that set them
    emitted,     \* per registry: the services of the request and job series
    clean        \* auxiliary: per registry, no two calls overlapped and none panicked

vars == <<pc, mine, isNew, registered, identity, warned, samples, emitted, clean>>

-----------------------------------------------------------------------------
\* pc is the number of collectors a call has registered; these are the others.
Idle == -2
Entered == -1
Done == Len(Collectors) + 1
Failed == Len(Collectors) + 2

Running(c) == pc[c] \in Entered..Len(Collectors)
AtRest == \A c \in Calls : ~Running(c)

Init ==
    /\ pc = [c \in Calls |-> Idle]
    /\ mine = [c \in Calls |-> [reg |-> None, service |-> Blank]]
    /\ isNew = {}
    /\ registered \in [Registries -> [Range(Collectors) -> {None}
                          \cup (IF Conflicts THEN {Foreign} ELSE {})]]
    /\ identity = [g \in Registries |-> None]
    /\ warned = {}
    /\ samples = [g \in Registries |-> {}]
    /\ emitted = [g \in Registries |-> {}]
    /\ clean = [g \in Registries |-> TRUE]

-----------------------------------------------------------------------------
\* Mutant: the service is taken as it is written.
AsWritten(s) == s

\* The service the call works with.
TrimSpace(s) == Trim[s]

\* A call starts, and ends at once with ErrInvalidInstallOpts without a service.
Call(c, g, s) ==
    /\ pc[c] = Idle
    /\ pc' = [pc EXCEPT ![c] = IF TrimSpace(s) = Blank THEN Failed ELSE Entered]
    /\ mine' = [mine EXCEPT ![c] = [reg |-> g, service |-> TrimSpace(s)]]
    /\ clean' = [clean EXCEPT ![g] = @ /\ ~\E d \in Calls : Running(d) /\ mine[d].reg = g]
    /\ UNCHANGED <<isNew, registered, identity, warned, samples, emitted>>

\* This pair has been warned about.
AlreadyWarned(k) == k \in warned

\* Mutant: the last service is the authoritative one.
LastService(old, s) == s

\* The first service is the authoritative one.
FirstService(old, s) == IF old = None THEN s ELSE old

\* recordServiceIdentity, under its mutex.
RecordIdentity(c) ==
    LET g == mine[c].reg
        k == <<g, mine[c].service>>
        warns == identity[g] \notin {None, mine[c].service} /\ ~AlreadyWarned(k)
    IN  /\ pc[c] = Entered
        /\ pc' = [pc EXCEPT ![c] = 0]
        /\ identity' = [identity EXCEPT ![g] = FirstService(@, mine[c].service)]
        /\ warned' = IF warns THEN warned \cup {k} ELSE warned
        /\ UNCHANGED <<mine, isNew, registered, samples, emitted, clean>>

\* registerOrExisting: the collector that is registered stays.
Reused(old, s) == IF old = None THEN s ELSE old

\* The next collector is registered, or its equivalent taken.
Register(c) ==
    LET g == mine[c].reg
        name == Collectors[pc[c] + 1]
        old == registered[g][name]
    IN  /\ pc[c] \in 0..(Len(Collectors) - 1)
        /\ old # Foreign
        /\ pc' = [pc EXCEPT ![c] = @ + 1]
        /\ registered' = [registered EXCEPT ![g][name] = Reused(old, mine[c].service)]
        /\ isNew' = IF name = "build_info" /\ old = None THEN isNew \cup {c} ELSE isNew
        /\ UNCHANGED <<mine, identity, warned, samples, emitted, clean>>

\* Another error of Register is a panic; what is registered stays.
RegisterPanics(c) ==
    /\ pc[c] \in 0..(Len(Collectors) - 1)
    /\ registered[mine[c].reg][Collectors[pc[c] + 1]] = Foreign
    /\ pc' = [pc EXCEPT ![c] = Failed]
    /\ clean' = [clean EXCEPT ![mine[c].reg] = FALSE]
    /\ UNCHANGED <<mine, isNew, registered, identity, warned, samples, emitted>>

\* Mutant: build_info is set by every call.
AlwaysSets(c) == TRUE

\* Only the call that registered the gauge sets it.
SetsBuildInfo(c) == c \in isNew

\* The last statement, after detectCommit, which may take two seconds.
SetBuildInfo(c) ==
    LET g == mine[c].reg
    IN  /\ pc[c] = Len(Collectors)
        /\ pc' = [pc EXCEPT ![c] = Done]
        /\ samples' = IF SetsBuildInfo(c)
                      THEN [samples EXCEPT ![g] = @ \cup {[by |-> c, service |-> mine[c].service]}]
                      ELSE samples
        /\ UNCHANGED <<mine, isNew, registered, identity, warned, emitted, clean>>

\* The label of every series a handle emits.
HandleService(c) == mine[c].service

\* The handle counts a request, a job, or an item of progress.
Emit(c) ==
    /\ pc[c] = Done
    /\ emitted' = [emitted EXCEPT ![mine[c].reg] = @ \cup {HandleService(c)}]
    /\ UNCHANGED <<pc, mine, isNew, registered, identity, warned, samples, clean>>

\* The host unregisters its own collector, to try again.
HostUnregisters(g, name) ==
    /\ AtRest
    /\ registered[g][name] = Foreign
    /\ registered' = [registered EXCEPT ![g][name] = None]
    /\ UNCHANGED <<pc, mine, isNew, identity, warned, samples, emitted, clean>>

Step(c) == RecordIdentity(c) \/ Register(c) \/ RegisterPanics(c) \/ SetBuildInfo(c)

Next ==
    \/ \E c \in Calls : Step(c) \/ Emit(c)
    \/ \E c \in Calls, g \in Registries, s \in Services : Call(c, g, s)
    \/ \E g \in Registries, name \in Range(Collectors) : HostUnregisters(g, name)

Spec == Init /\ [][Next]_vars

-----------------------------------------------------------------------------
(* Properties.                                                             *)

Trimmed == {Trim[s] : s \in Services} \ {Blank}
InstalledOn(g) == {c \in Calls : pc[c] = Done /\ mine[c].reg = g}

\* Each variable has the values the code can give it; no label is untrimmed.
GoTypeOK ==
    /\ pc \in [Calls -> Idle..Failed]
    /\ mine \in [Calls -> [reg : Registries \cup {None}, service : Trimmed \cup {Blank}]]
    /\ isNew \subseteq Calls
    /\ registered \in [Registries -> [Range(Collectors) -> Trimmed \cup {None, Foreign}]]
    /\ identity \in [Registries -> Trimmed \cup {None}]
    /\ warned \subseteq Registries \X Trimmed
    /\ samples \in [Registries -> SUBSET [by : Calls, service : Trimmed]]
    /\ emitted \in [Registries -> SUBSET Trimmed]
    /\ clean \in [Registries -> BOOLEAN]

\* metrics.go:130: a second Install on a registry does not add a second
\* build_info sample, also when goroutines install at the same time; and when no
\* Install is under way, and none has panicked, a registry on which one has
\* returned has its sample, set by the call that made the gauge.  metrics.go:91-92
\* says the opposite of metrics.go:130, and the code does what 130 says: see
\* BuildInfoGainsService.
OneBuildInfo ==
    /\ \A g \in Registries : Cardinality(samples[g]) <= 1
    /\ AtRest /\ (\A c \in Calls : pc[c] = Failed => mine[c].service = Blank)
       => \A g \in Registries : InstalledOn(g) # {} =>
              \E c \in InstalledOn(g) : \E b \in samples[g] :
                  b.by = c /\ b.service = registered[g]["build_info"]

\* The service recorded as authoritative, which is the first one
\* (service_identity.go:45-46), is that of the process metrics and of build_info, on
\* a registry whose calls did not overlap and did not panic.  For build_info this is
\* what the code does against service_identity.go:74: see BuildInfoGainsService.
IdentityIsRegistered ==
    AtRest => \A g \in Registries : clean[g] /\ InstalledOn(g) # {} =>
        /\ registered[g]["process"] = identity[g]
        /\ \A b \in samples[g] : b.service = identity[g]

\* The same for calls that overlap.
IdentityIsAlwaysRegistered ==
    AtRest => \A g \in Registries : InstalledOn(g) # {} =>
                  registered[g]["process"] = identity[g]

\* The same after a panic: such a registry has a sample.
RetryHasBuildInfo ==
    AtRest => \A g \in Registries : InstalledOn(g) # {} => samples[g] # {}

\* metrics.go:91-92, service_identity.go:74 and go/README.md:152: after a second
\* Install with another service build_info has that service's value.
BuildInfoGainsService ==
    \A c \in Calls : pc[c] = Done =>
        \E b \in samples[mine[c].reg] : b.service = mine[c].service

\* metrics.go:89-91 and service_identity.go:72: after a second Install with another
\* service everything keeps emitting under the first.
FirstServiceKept == \A g \in Registries : emitted[g] \subseteq {identity[g]}
=============================================================================
