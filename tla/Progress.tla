------------------------------- MODULE Progress -------------------------------
(***************************************************************************)
(* One progress tracker, in the three lanes.  Workers call inc() and       *)
(* set_total(), a background thread (Python), goroutine (Go) or interval   *)
(* timer (Node) ticks, and the host stops the tracker.  A tick reads the   *)
(* clock and the progress, updates the smoothed rate, and then writes      *)
(* three gauges one after the other.  In Node all of that is one step; in  *)
(* Python and Go other threads come in between.  A rate is abstracted to   *)
(* whether it is positive, an ETA to whether it is known.                  *)
(***************************************************************************)
EXTENDS Integers

CONSTANTS
    Lanes,        \* the lanes to model: a subset of {"python", "go", "node"}
    Workers,      \* threads that report progress
    Stoppers,     \* threads that call stop()
    Totals,       \* totals that set_total() may be given
    MaxProcessed, \* bound: items processed
    MaxTicks,     \* bound: ticks of the loop that read the clock
    JoinTimesOut  \* a tick may take longer than interval + 1 s

Loop == "loop"
Threads == Workers \cup Stoppers \cup {Loop}

ASSUME ProgressAssumption ==
    /\ Lanes \subseteq {"python", "go", "node"}
    /\ Workers \cap Stoppers = {} /\ Loop \notin Workers \cup Stoppers
    /\ Totals \subseteq Nat /\ Totals # {}
    /\ MaxProcessed \in Nat /\ MaxTicks \in Nat
    /\ JoinTimesOut \in BOOLEAN

VARIABLES
    lane,          \* the lane this process runs
    processed,     \* _processed
    total,         \* _total
    rate,          \* _rate_ewma > 0
    lastProcessed, \* _last_processed
    lastTick,      \* _last_tick
    stopping,      \* the stop event is set / done is closed / stopped
    cancelled,     \* Go: the context is done
    counter,       \* simsys_progress_processed_total
    remaining,     \* simsys_progress_remaining
    shownRate,     \* simsys_progress_rate_per_second > 0
    shownEta,      \* simsys_progress_estimated_completion_timestamp # 0
    clock,         \* the last reading of the clock
    pc, loc,       \* where each thread is, and its locals
    rated, late    \* auxiliary: items the rate has seen; progress after stop()

trackerVars == <<processed, total, rate, lastProcessed, lastTick>>
gauges == <<remaining, shownRate, shownEta>>
ctlVars == <<stopping, cancelled>>
auxVars == <<rated, late>>
vars == <<lane, trackerVars, ctlVars, counter, gauges, clock, pc, loc, auxVars>>

-----------------------------------------------------------------------------
Ticking == {"read", "rate", "remember", "remaining", "show", "eta"}
Places == {"idle", "counting", "wait", "exited", "set", "join", "tick", "returned"} \cup Ticking

NewLocals == [now |-> 0, processed |-> 0, total |-> 0, rate |-> FALSE]

Goto(t, from, to) == pc[t] = from /\ pc' = [pc EXCEPT ![t] = to]

Init ==
    /\ lane \in Lanes
    /\ processed = 0 /\ total \in Totals
    /\ rate = FALSE /\ lastProcessed = 0 /\ lastTick = 0
    /\ stopping = FALSE /\ cancelled = FALSE
    /\ counter = 0
    /\ remaining = total /\ shownRate = FALSE /\ shownEta = FALSE
    /\ clock = 0
    /\ pc = [t \in Threads |-> IF t = Loop THEN "wait" ELSE "idle"]
    /\ loc = [t \in Threads |-> NewLocals]
    /\ rated = 0 /\ late = FALSE

-----------------------------------------------------------------------------
(* The workers.                                                            *)

\* inc(1): the items first, under the lock, and then the counter.
Inc(w) ==
    /\ Goto(w, "idle", "counting")
    /\ lane # "node"
    /\ processed < MaxProcessed
    /\ processed' = processed + 1
    /\ late' = (late \/ stopping)
    /\ UNCHANGED <<lane, total, rate, lastProcessed, lastTick, ctlVars, counter, gauges,
                   clock, loc, rated>>

Count(w) ==
    /\ Goto(w, "counting", "idle")
    /\ counter' = counter + 1
    /\ UNCHANGED <<lane, trackerVars, ctlVars, gauges, clock, loc, auxVars>>

\* In Node nothing runs between the two.
NodeInc ==
    /\ lane = "node"
    /\ processed < MaxProcessed
    /\ processed' = processed + 1
    /\ counter' = counter + 1
    /\ late' = (late \/ stopping)
    /\ UNCHANGED <<lane, total, rate, lastProcessed, lastTick, ctlVars, gauges, clock,
                   pc, loc, rated>>

SetTotal(n) ==
    /\ total' = n
    /\ late' = (late \/ stopping)
    /\ UNCHANGED <<lane, processed, rate, lastProcessed, lastTick, ctlVars, counter, gauges,
                   clock, pc, loc, rated>>

-----------------------------------------------------------------------------
(* What a tick computes from the progress p, the total n and the clock.    *)

\* Mutant: the difference is not clamped.
Unclamped(n, p) == n - p

\* max(0, total - processed)
Remaining(n, p) == IF n > p THEN n - p ELSE 0

\* Mutant: an ETA without remaining work.
EtaOfRate(r, left) == r

\* An ETA is known only while there is work left and a rate.
EtaKnown(r, left) == r /\ left > 0

\* The smoothed rate after p items at time now.  Once a whole window has passed
\* alpha is 1 and the old rate is forgotten.
Smoothed(p, now, wholeWindow) ==
    IF now > lastTick THEN p > lastProcessed \/ (rate /\ ~wholeWindow) ELSE rate

\* The items that this update of the rate takes in.
TakenIn(p, now) == IF now > lastTick THEN p - lastProcessed ELSE 0

\* Mutant: the items are counted in the next window again.
NotRemembered(p) == lastProcessed

\* _last_processed = processed
Remembered(p) == p

\* A reading of the clock, which may be too coarse to have moved.
Reads(now) == now \in {clock, clock + 1} /\ clock' = now

-----------------------------------------------------------------------------
(* A tick of Python or Go.                                                 *)

StartTick(t, from, now) ==
    /\ Goto(t, from, "read")
    /\ Reads(now)
    /\ loc' = [loc EXCEPT ![t].now = now]
    /\ UNCHANGED <<lane, trackerVars, ctlVars, counter, gauges, auxVars>>

\* Python copies the progress under the lock ...
Read(t) ==
    /\ Goto(t, "read", "rate")
    /\ lane = "python"
    /\ loc' = [loc EXCEPT ![t].processed = processed, ![t].total = total]
    /\ UNCHANGED <<lane, trackerVars, ctlVars, counter, gauges, clock, auxVars>>

\* ... and updates the rate and what it is computed from outside.
Rate(t, wholeWindow) ==
    /\ Goto(t, "rate", "remember")
    /\ rate' = Smoothed(loc[t].processed, loc[t].now, wholeWindow)
    /\ rated' = rated + TakenIn(loc[t].processed, loc[t].now)
    /\ UNCHANGED <<lane, processed, total, lastProcessed, lastTick, ctlVars, counter, gauges,
                   clock, loc, late>>

Remember(t) ==
    /\ Goto(t, "remember", "remaining")
    /\ lastProcessed' = Remembered(loc[t].processed)
    /\ lastTick' = loc[t].now
    /\ UNCHANGED <<lane, processed, total, rate, ctlVars, counter, gauges, clock, loc, auxVars>>

\* Go does all of it in one critical section.
GoRead(t, wholeWindow) ==
    LET r == Smoothed(processed, loc[t].now, wholeWindow)
    IN  /\ Goto(t, "read", "remaining")
        /\ lane = "go"
        /\ rate' = r
        /\ rated' = rated + TakenIn(processed, loc[t].now)
        /\ lastProcessed' = Remembered(processed)
        /\ lastTick' = loc[t].now
        /\ loc' = [loc EXCEPT ![t] = [@ EXCEPT !.processed = processed, !.total = total, !.rate = r]]
        /\ UNCHANGED <<lane, processed, total, ctlVars, counter, gauges, clock, late>>

ShowRemaining(t) ==
    /\ Goto(t, "remaining", "show")
    /\ remaining' = Remaining(loc[t].total, loc[t].processed)
    /\ UNCHANGED <<lane, trackerVars, ctlVars, counter, shownRate, shownEta, clock, loc, auxVars>>

\* Python takes the rate from the tracker, Go the one computed under the lock.
ShowRate(t) ==
    LET r == IF lane = "python" THEN rate ELSE loc[t].rate
    IN  /\ Goto(t, "show", "eta")
        /\ shownRate' = r
        /\ loc' = [loc EXCEPT ![t].rate = r]
        /\ UNCHANGED <<lane, trackerVars, ctlVars, counter, remaining, shownEta, clock, auxVars>>

ShowEta(t) ==
    /\ Goto(t, "eta", IF t = Loop THEN "wait" ELSE "returned")
    /\ shownEta' = EtaKnown(loc[t].rate, Remaining(loc[t].total, loc[t].processed))
    /\ loc' = [loc EXCEPT ![t] = NewLocals]
    /\ UNCHANGED <<lane, trackerVars, ctlVars, counter, remaining, shownRate, clock, auxVars>>

\* A tick of Node, with nothing in between.
NodeTick(now, wholeWindow) ==
    LET r == Smoothed(processed, now, wholeWindow)
        left == Remaining(total, processed)
    IN  /\ Reads(now)
        /\ rate' = r
        /\ rated' = rated + TakenIn(processed, now)
        /\ lastProcessed' = Remembered(processed)
        /\ lastTick' = now
        /\ remaining' = left /\ shownRate' = r /\ shownEta' = EtaKnown(r, left)
        /\ UNCHANGED <<lane, processed, total, cancelled, counter, loc, late>>

-----------------------------------------------------------------------------
(* The background loop.                                                    *)

\* Mutant: the loop does not look at the stop event.
NeverAsked == FALSE

\* The loop can see that it is to end.
AskedToExit == stopping \/ cancelled

\* Python waits for the stop event and ticks only if it is not set; Go selects
\* among the ticker and the closed channel, and may take either.
LoopTick(now) ==
    /\ lane # "node"
    /\ lane = "python" => ~AskedToExit
    /\ clock < MaxTicks
    /\ StartTick(Loop, "wait", now)

LoopExit ==
    /\ Goto(Loop, "wait", "exited")
    /\ lane # "node"
    /\ AskedToExit
    /\ UNCHANGED <<lane, trackerVars, ctlVars, counter, gauges, clock, loc, auxVars>>

IntervalFires(now, wholeWindow) ==
    /\ lane = "node"
    /\ pc[Loop] = "wait"
    /\ clock < MaxTicks
    /\ NodeTick(now, wholeWindow)
    /\ UNCHANGED <<stopping, pc>>

\* The context given to TrackProgress is cancelled.
Cancel ==
    /\ lane = "go"
    /\ ~cancelled
    /\ cancelled' = TRUE
    /\ UNCHANGED <<lane, trackerVars, stopping, counter, gauges, clock, pc, loc, auxVars>>

-----------------------------------------------------------------------------
(* stop().                                                                 *)

\* Python looks at the event, and sets it in a second step.
PyStop(s) ==
    /\ Goto(s, "idle", "set")
    /\ lane = "python"
    /\ ~stopping
    /\ UNCHANGED <<lane, trackerVars, ctlVars, counter, gauges, clock, loc, auxVars>>

PySetStop(s) ==
    /\ Goto(s, "set", "join")
    /\ stopping' = TRUE
    /\ UNCHANGED <<lane, trackerVars, cancelled, counter, gauges, clock, loc, auxVars>>

\* Mutant: stop() does not wait for the thread.
NoWait == TRUE

\* join() returns.
Joined == pc[Loop] = "exited" \/ JoinTimesOut

\* Mutant: no tick after the join.
ReturnAtOnce == "returned"

\* What stop() does after the join: one more tick.
AfterJoin == "tick"

PyJoin(s) ==
    /\ Goto(s, "join", AfterJoin)
    /\ Joined
    /\ UNCHANGED <<lane, trackerVars, ctlVars, counter, gauges, clock, loc, auxVars>>

\* Go closes the channel and ticks, without waiting for the goroutine.
GoStop(s) ==
    /\ Goto(s, "idle", "tick")
    /\ lane = "go"
    /\ ~stopping
    /\ stopping' = TRUE
    /\ UNCHANGED <<lane, trackerVars, cancelled, counter, gauges, clock, loc, auxVars>>

FinalTick(s, now) == StartTick(s, "tick", now)

\* Node clears the interval and ticks.
NodeStop(s, now, wholeWindow) ==
    /\ lane = "node"
    /\ ~stopping
    /\ pc[s] = "idle"
    /\ pc' = [pc EXCEPT ![s] = "returned", ![Loop] = "exited"]
    /\ stopping' = TRUE
    /\ NodeTick(now, wholeWindow)

\* stop() again: Python and Node return, Go's once.Do waits for the first call.
StopAgain(s) ==
    /\ stopping
    /\ pc[s] \in {"idle", "returned"}
    /\ lane = "go" => \E f \in Stoppers : pc[f] = "returned"
    /\ pc' = [pc EXCEPT ![s] = "returned"]
    /\ UNCHANGED <<lane, trackerVars, ctlVars, counter, gauges, clock, loc, auxVars>>

-----------------------------------------------------------------------------
TickStep(t) ==
    \/ Read(t) \/ Remember(t)
    \/ \E whole \in BOOLEAN : Rate(t, whole) \/ GoRead(t, whole)
    \/ ShowRemaining(t) \/ ShowRate(t) \/ ShowEta(t)

StopStep(s) ==
    \/ PySetStop(s) \/ PyJoin(s)
    \/ \E now \in {clock, clock + 1} : FinalTick(s, now)

Next ==
    \/ \E w \in Workers : Inc(w) \/ Count(w)
    \/ NodeInc
    \/ \E n \in Totals : SetTotal(n)
    \/ \E t \in Threads : TickStep(t)
    \/ \E now \in {clock, clock + 1} : LoopTick(now)
    \/ \E now \in {clock, clock + 1}, whole \in BOOLEAN :
          IntervalFires(now, whole) \/ \E s \in Stoppers : NodeStop(s, now, whole)
    \/ LoopExit
    \/ Cancel
    \/ \E s \in Stoppers : StopStep(s) \/ PyStop(s) \/ GoStop(s) \/ StopAgain(s)

\* Threads are scheduled.  Go's select picks at random among the ready cases, so
\* a goroutine that finds the channel closed again and again leaves.
Spec ==
    /\ Init /\ [][Next]_vars
    /\ \A t \in Threads : WF_vars(TickStep(t))
    /\ \A s \in Stoppers : WF_vars(StopStep(s))
    /\ SF_vars(LoopExit)

-----------------------------------------------------------------------------
(* Properties.                                                             *)

\* Each variable has the values the code can give it: no gauge is negative.
ProgressTypeOK ==
    /\ lane \in Lanes
    /\ processed \in 0..MaxProcessed /\ lastProcessed \in 0..MaxProcessed
    /\ total \in Totals
    /\ rate \in BOOLEAN /\ shownRate \in BOOLEAN /\ shownEta \in BOOLEAN
    /\ clock \in Nat /\ lastTick \in 0..clock
    /\ stopping \in BOOLEAN /\ cancelled \in BOOLEAN
    /\ counter \in Nat
    /\ remaining \in Nat
    /\ pc \in [Threads -> Places]
    /\ loc \in [Threads -> [now : 0..clock, processed : 0..MaxProcessed,
                            total : Totals \cup {0}, rate : BOOLEAN]]
    /\ rated \in Int /\ late \in BOOLEAN

Updating == \E t \in Threads : pc[t] \in Ticking

\* The ticks of the loop and of stop() share the last reading (Python without a
\* lock): no item is taken into two updates of the rate (progress.py:221-233,
\* progress.go:147-169).
NoItemRatedTwice == (~\E t \in Threads : pc[t] = "remember") => rated <= lastProcessed

\* When no tick runs, the three gauges fit together: an ETA is shown exactly when
\* a rate and remaining work are (progress.py:235-252, progress.ts:112-123).
EtaFits(l) == lane = l /\ ~Updating => shownEta = (shownRate /\ remaining > 0)
PyEtaFits == EtaFits("python") /\ EtaFits("node")

StopReturned == \E s \in Stoppers : pc[s] = "returned"
Reporting == \E w \in Workers : pc[w] = "counting"

\* After stop() has returned the gauges show the end-state: what remains is the
\* total less the items counted, if nobody reported progress after stop() began
\* (progress.py:206-213, progress.ts:155-166).
Flushed(l) ==
    lane = l /\ StopReturned /\ ~late /\ ~Reporting => remaining = Remaining(total, counter)
StopFlushes == Flushed("python") /\ Flushed("node")

\* stop() has joined the thread: once it returned, nothing of the tracker writes
\* a gauge any more (progress.py:209-213, progress.ts:157-166).
QuietAfterStop == [][lane # "go" /\ StopReturned => UNCHANGED gauges]_vars

\* stop() returns, and the background loop ends: neither waits for the other
\* forever.
StopEnds ==
    /\ \A s \in Stoppers : pc[s] \in {"set", "join", "tick"} ~> pc[s] = "returned"
    /\ lane # "node" /\ stopping ~> pc[Loop] = "exited"

-----------------------------------------------------------------------------
\* progress.go:35: "Stop halts the background ticker and flushes a final state
\* update."
GoStopFlushes == Flushed("go")
=============================================================================
