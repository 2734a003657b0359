------------------------------- MODULE Pollers --------------------------------
(***************************************************************************)
(* One track_pool or track_queue tracker, in the three lanes.  A tick      *)
(* calls the host's callbacks one after the other and then writes a gauge  *)
(* for each.  Python and Go tick in one thread or goroutine, one tick      *)
(* after the other, and write gauge by gauge; Node's ticks are async       *)
(* functions that an interval timer starts, so they overlap while they     *)
(* wait for callbacks, and write all gauges at once.  A callback reports   *)
(* the version of the pool it has seen.  A queue has a single callback.    *)
(***************************************************************************)
EXTENDS Naturals, Sequences

CONSTANTS
    Lanes,      \* the lanes to model: a subset of {"python", "go", "node"}
    Callbacks,  \* the callbacks of the tracker, in the order they are called
    Services,   \* service names
    MaxTicks,   \* bound: ticks
    MaxWorld    \* bound: versions of the pool

ASSUME PollersAssumption ==
    /\ Lanes \subseteq {"python", "go", "node"}
    /\ Len(Callbacks) \in Nat \ {0}
    /\ Services # {}
    /\ MaxTicks \in Nat /\ MaxWorld \in Nat

VARIABLES
    lane,     \* the lane this process runs
    service,  \* the process-wide service
    mine,     \* the service that was current when the tracker was started
    world,    \* the version of the pool
    pc,       \* for each tick: "waiting", "reading", "writing", "written", "failed"
    got,      \* for each tick: the values it has read
    gauge,    \* for each service and callback: the last value written
    stopped,  \* stop() was called
    alive,    \* the thread, goroutine or interval exists
    began     \* auxiliary: the process-wide service when each tick began

vars == <<lane, service, mine, world, pc, got, gauge, stopped, alive, began>>

-----------------------------------------------------------------------------
Ticks == 1..MaxTicks
Gauges == 1..Len(Callbacks)

\* tick is auxiliary: the tick that wrote the value, 0 for an absent series.
Sample == [tick : {0} \cup Ticks, value : 0..MaxWorld]
Absent == [tick |-> 0, value |-> 0]

Ended == {"written", "failed"}
InTick == {t \in Ticks : pc[t] \in {"reading", "writing"}}

\* Node's first tick starts inside trackPool(), the others in their own thread.
Init ==
    /\ lane \in Lanes
    /\ service \in Services
    /\ mine = service
    /\ world = 0
    /\ pc = [t \in Ticks |-> IF lane = "node" /\ t = 1 THEN "reading" ELSE "waiting"]
    /\ got = [t \in Ticks |-> << >>]
    /\ gauge = [s \in Services |-> [g \in Gauges |-> Absent]]
    /\ stopped = FALSE /\ alive = TRUE
    /\ began = [t \in Ticks |-> service]

-----------------------------------------------------------------------------
\* Mutant: the next tick does not wait for the one before.
AnyTime(t) == TRUE

\* A thread ticks again only after the last tick; an interval does not wait.
MayOverlap(t) == lane = "node" \/ InTick = {}

\* Mutant: the loop never looks at the stop flag.
NeverStops == FALSE

\* The loop can see that it is to stop.
SeesStop == stopped

\* Python checks the event before each poll; Go's first tick is unconditional and
\* then select may take the ticker although the channel is closed as well.
Begin(t) ==
    /\ alive
    /\ pc[t] = "waiting"
    /\ \A u \in 1..(t - 1) : pc[u] # "waiting"
    /\ MayOverlap(t)
    /\ lane = "python" => ~SeesStop
    /\ pc' = [pc EXCEPT ![t] = "reading"]
    /\ began' = [began EXCEPT ![t] = service]
    /\ UNCHANGED <<lane, service, mine, world, got, gauge, stopped, alive>>

\* The label of every sample of this tracker.
EmitsUnder == mine

\* The gauges after tick t has written gauge g.
Written(gs, t, g) == [gs EXCEPT ![EmitsUnder][g] = [tick |-> t, value |-> got[t][g]]]

\* Mutant: a value is published as soon as it is read.
PublishEarly(t, v) ==
    [gauge EXCEPT ![EmitsUnder][Len(got[t]) + 1] = [tick |-> t, value |-> v]]

\* Reading a callback writes nothing.
WhileReading(t, v) == gauge

\* Mutant: one callback too many.
ReadOneMore(v) == Len(v) > Len(Callbacks)

\* Every callback has been called.
ReadAll(v) == Len(v) = Len(Callbacks)

\* The next callback returns what it sees.
Read(t) ==
    LET v == Append(got[t], world)
    IN  /\ pc[t] = "reading"
        /\ got' = [got EXCEPT ![t] = v]
        /\ gauge' = WhileReading(t, world)
        /\ pc' = [pc EXCEPT ![t] = IF ReadAll(v) THEN "writing" ELSE @]
        /\ UNCHANGED <<lane, service, mine, world, stopped, alive, began>>

\* Mutant: a failed tick reports 0.
ReportZero(t) == [gauge EXCEPT ![EmitsUnder][1] = [tick |-> t, value |-> 0]]

\* A failed tick leaves the gauges as they are.
KeepGauges(t) == gauge

\* A callback raises, rejects or panics: one collector error, and no gauge.
Fail(t) ==
    /\ pc[t] = "reading"
    /\ pc' = [pc EXCEPT ![t] = "failed"]
    /\ gauge' = KeepGauges(t)
    /\ UNCHANGED <<lane, service, mine, world, got, stopped, alive, began>>

\* The gauge that tick t writes next: the first it has not written.
NextGauge(t) == CHOOSE g \in Gauges :
    /\ gauge[EmitsUnder][g].tick # t
    /\ \A h \in 1..(g - 1) : gauge[EmitsUnder][h].tick = t

\* A thread writes gauge after gauge.
WriteNext(t) ==
    LET g == NextGauge(t)
    IN  /\ lane # "node"
        /\ pc[t] = "writing"
        /\ gauge' = Written(gauge, t, g)
        /\ pc' = [pc EXCEPT ![t] = IF g = Len(Callbacks) THEN "written" ELSE @]
        /\ UNCHANGED <<lane, service, mine, world, got, stopped, alive, began>>

\* Node writes them all before it yields.
WriteAll(t) ==
    /\ lane = "node"
    /\ pc[t] = "writing"
    /\ gauge' = [gauge EXCEPT ![EmitsUnder] =
                    [g \in Gauges |-> [tick |-> t, value |-> got[t][g]]]]
    /\ pc' = [pc EXCEPT ![t] = "written"]
    /\ UNCHANGED <<lane, service, mine, world, got, stopped, alive, began>>

\* stop(), which may be called at any time and again; Go's context is cancelled.
\* Node clears the interval and lets the ticks in flight go on.
Stop ==
    /\ stopped' = TRUE
    /\ alive' = (alive /\ lane # "node")
    /\ UNCHANGED <<lane, service, mine, world, pc, got, gauge, began>>

\* The loop ends at its next look at the flag.
Exit ==
    /\ lane # "node"
    /\ alive
    /\ InTick = {}
    /\ SeesStop
    /\ lane = "go" => pc[1] # "waiting"
    /\ alive' = FALSE
    /\ UNCHANGED <<lane, service, mine, world, pc, got, gauge, stopped, began>>

\* Another install changes the process-wide service.
SetService(s) ==
    /\ service' = s
    /\ UNCHANGED <<lane, mine, world, pc, got, gauge, stopped, alive, began>>

\* The pool changes.
Change ==
    /\ world < MaxWorld
    /\ world' = world + 1
    /\ UNCHANGED <<lane, service, mine, pc, got, gauge, stopped, alive, began>>

TickStep(t) == Read(t) \/ Fail(t) \/ WriteNext(t) \/ WriteAll(t)

Next ==
    \/ \E t \in Ticks : Begin(t) \/ TickStep(t)
    \/ Stop \/ Exit
    \/ \E s \in Services : SetService(s)
    \/ Change

\* Callbacks return and threads are scheduled.  Go's select picks at random, so
\* the closed channel is not passed over forever.
Spec ==
    /\ Init /\ [][Next]_vars
    /\ \A t \in Ticks : WF_vars(TickStep(t))
    /\ WF_vars(Begin(1))
    /\ SF_vars(Exit)

-----------------------------------------------------------------------------
(* Properties.                                                             *)

\* Each variable has the values the code can give it.
PollersTypeOK ==
    /\ lane \in Lanes
    /\ service \in Services /\ mine \in Services
    /\ world \in 0..MaxWorld
    /\ pc \in [Ticks -> {"waiting", "reading", "writing"} \cup Ended]
    /\ got \in [Ticks -> Seq(0..MaxWorld)]
    /\ \A t \in Ticks : Len(got[t]) <= Len(Callbacks)
    /\ gauge \in [Services -> [Gauges -> Sample]]
    /\ stopped \in BOOLEAN /\ alive \in BOOLEAN
    /\ began \in [Ticks -> Services]

Writing == \E t \in Ticks : pc[t] = "writing" /\ lane # "node"

\* A scrape that meets no thread between two gauge writes sees values of one tick
\* only, all of them or none: never a fresh `active` beside a stale `idle`, also
\* when callbacks fail half-way or ticks overlap (_baseline.py:462-467,
\* baseline.ts:405-409, baseline.go:159-163).
OneSnapshot ==
    ~Writing => \A s \in Services, g, h \in Gauges : gauge[s][g].tick = gauge[s][h].tick

\* A failed tick leaves no value of its own anywhere: the gauges keep their last
\* known values, and stay absent if no tick succeeded (_baseline.py:281-286).
FailedTickInvisible ==
    \A s \in Services, g \in Gauges : gauge[s][g].tick # 0 => pc[gauge[s][g].tick] # "failed"

\* The values of a thread's gauges never go back in time, tick after tick.
NeverOlder ==
    [][lane # "node" => \A s \in Services, g \in Gauges :
            gauge[s][g].value <= gauge[s][g].value']_vars

\* _baseline.py:178-182: after stop() "the loop exits", also when the stop comes
\* before the first tick, during a tick, or during a failing one.
StopEndsLoop == stopped ~> ~alive

-----------------------------------------------------------------------------
\* README.md:283-287, _baseline.py:121-126: after the identity changed, trackers
\* already started "will now emit under the NEW service": a tick that began under
\* a service writes under that service.
FollowsService ==
    \A s \in Services, g \in Gauges :
        gauge[s][g].tick # 0 => began[gauge[s][g].tick] = s
=============================================================================
