--------------------------------- MODULE Jobs ---------------------------------
(***************************************************************************)
(* The job timers of the three lanes: track_job as a decorator and as a    *)
(* context manager (Python), trackJob as a wrapper and as run() (Node),    *)
(* TrackJob and TrackJobSpan (Go).  A span is one execution of a job.  It  *)
(* ends with one sample in simsys_jobs_total and one in the histogram of   *)
(* durations.  In Python and Go other threads come in between; Node writes *)
(* both in one step, but the job may have handed back a thenable, which    *)
(* calls its callbacks when and as often as it likes.                      *)
(***************************************************************************)
EXTENDS Naturals, Sequences

CONSTANTS
    Lanes,      \* the lanes to model: a subset of {"python", "node", "go"}
    Spans,      \* executions of jobs
    Trackers,   \* Python: the objects track_job() returns
    Services,   \* service names
    None        \* no service, and no span

ASSUME JobsAssumption ==
    /\ Lanes \subseteq {"python", "node", "go"}
    /\ None \notin Services \cup Spans \cup Trackers
    /\ Services # {}

VARIABLES
    lane,      \* the lane this process runs
    service,   \* the process-wide service; Go: the service of the handle
    pc,        \* where each span is
    frame,     \* how each span was started, by which tracker, and the service captured
    cm,        \* Python: the span whose generator a tracker's _cm holds
    settled,   \* the spans whose outcome is taken: settled, once, a closed generator
    writes,    \* what the code that ends a span writes, and for which span
    counted,   \* the samples of each span in simsys_jobs_total
    observed,  \* and in simsys_job_duration_seconds
    refused,   \* the spans whose caller gets "no service set"
    work,      \* auxiliary: how the work of each span ended
    misused    \* auxiliary: spans of a shared tracker, or whose done() is called twice

samples == <<counted, observed>>
vars == <<lane, service, pc, frame, cm, settled, writes, samples, refused, work, misused>>

-----------------------------------------------------------------------------
Outcomes == {"success", "error"}
Hows == {"wrapped", "with", "run", "done", "span"}
Shapes == [python |-> {"wrapped", "with"}, node |-> {"wrapped", "run"}, go |-> {"done", "span"}]
Places == {"idle", "working", "then", "pending", "ended", "counting", "observing", "returned"}
NoWrite == [for |-> None, outcome |-> "success"]

Frame(how, tracker, n) == [how |-> how, tracker |-> tracker, label |-> n]
Starts(s, how, tracker, n) == frame' = [frame EXCEPT ![s] = Frame(how, tracker, n)]

Goto(s, from, to) == pc[s] = from /\ pc' = [pc EXCEPT ![s] = to]
Sample(n, o) == [service |-> n, outcome |-> o]

\* A span is over when its caller has its answer.
Over(s) == pc[s] = "returned" \/ (pc[s] = "pending" /\ s \in settled)

Init ==
    /\ lane \in Lanes
    /\ service \in Services \cup (IF lane = "go" THEN {} ELSE {None})
    /\ pc = [s \in Spans |-> "idle"]
    /\ frame = [s \in Spans |-> Frame("wrapped", None, None)]
    /\ cm = [t \in Trackers |-> None]
    /\ settled = {}
    /\ writes = [s \in Spans |-> NoWrite]
    /\ counted = [s \in Spans |-> << >>] /\ observed = [s \in Spans |-> << >>]
    /\ refused = {}
    /\ work = [s \in Spans |-> "none"]
    /\ misused = {}

\* An install sets or changes the process-wide service; a Go handle keeps its own.
SetService(n) ==
    /\ lane # "go"
    /\ service' = n
    /\ UNCHANGED <<lane, pc, frame, cm, settled, writes, samples, refused, work, misused>>

\* Mutant: the service is read again at each write.
LabelNow(p) == service

\* The service of the samples of a span of Python or Go.
LabelOf(p) == frame[p].label

-----------------------------------------------------------------------------
(* A span starts.                                                          *)

\* Node and Go: the clock is read and the job is called.
Begin(s, how) ==
    /\ lane # "python"
    /\ Goto(s, "idle", "working")
    /\ how \in Shapes[lane]
    /\ Starts(s, how, None, IF lane = "go" THEN service ELSE None)
    /\ UNCHANGED <<lane, service, cm, settled, writes, samples, refused, work, misused>>

\* Python: get_service() raises before the job is called.
Refuse(s) ==
    /\ lane = "python"
    /\ service = None
    /\ Goto(s, "idle", "returned")
    /\ refused' = refused \cup {s}
    /\ UNCHANGED <<lane, service, frame, cm, settled, writes, samples, work, misused>>

\* Python's decorator: a generator of its own for each call.
Enter(s) ==
    /\ lane = "python"
    /\ service # None
    /\ Goto(s, "idle", "working")
    /\ Starts(s, "wrapped", None, service)
    /\ UNCHANGED <<lane, service, cm, settled, writes, samples, refused, work, misused>>

\* The span whose generator tracker t still holds open: it dies when _cm is
\* overwritten, and GeneratorExit makes an error of it there and then.
Abandoned(t) == {p \in Spans : cm[t] = p /\ p \notin settled}

WithError(c, t) ==
    [p \in Spans |-> IF p \in Abandoned(t) THEN Append(c[p], Sample(LabelOf(p), "error")) ELSE c[p]]

\* The `with` blocks of tracker t that have not begun to exit.
Open(t) == {p \in Spans : frame[p].tracker = t /\ pc[p] \in {"working", "ended"}}

\* __enter__ of tracker t.
EnterWith(s, t) ==
    /\ lane = "python"
    /\ service # None
    /\ Goto(s, "idle", "working")
    /\ Starts(s, "with", t, service)
    /\ cm' = [cm EXCEPT ![t] = s]
    /\ settled' = settled \cup Abandoned(t)
    /\ counted' = WithError(counted, t) /\ observed' = WithError(observed, t)
    /\ misused' = misused \cup Open(t) \cup (IF Open(t) = {} THEN {} ELSE {s})
    /\ UNCHANGED <<lane, service, writes, refused, work>>

-----------------------------------------------------------------------------
(* Python and Go: the work ends, and the end of the span writes twice.     *)

\* The job returns, or raises anything at all.
WorkEnds(s, o) ==
    /\ lane # "node"
    /\ Goto(s, "working", "ended")
    /\ work' = [work EXCEPT ![s] = o]
    /\ UNCHANGED <<lane, service, frame, cm, settled, writes, samples, refused, misused>>

\* Mutant: the span counts as a success whatever the job does.
Optimistic(s) == "success"

\* The outcome: TrackJob has no error path.
OutcomeOf(s) == IF frame[s].how = "done" THEN "success" ELSE work[s]

\* Mutant: the outcome is taken again.
NotTaken(p) == FALSE

\* Mutant: the flag is set before it is looked at.
SetTooEarly(p) == TRUE

\* This span has its outcome.
Taken(p) == p \in settled

\* The end of s writes for span p: its finally block, the function of sync.Once.
Claim(s, p) ==
    IF Taken(p)
    THEN Goto(s, "ended", "returned") /\ UNCHANGED <<settled, writes>>
    ELSE /\ Goto(s, "ended", "counting")
         /\ settled' = settled \cup {p}
         /\ writes' = [writes EXCEPT ![s] = [for |-> p, outcome |-> OutcomeOf(s)]]

\* The generator of a decorated call, and the finish function of a Go span.
Finish(s) ==
    /\ frame[s].how # "with"
    /\ Claim(s, s)
    /\ UNCHANGED <<lane, service, frame, cm, samples, refused, work, misused>>

\* __exit__ finds whatever generator the tracker holds by now.
Exit(s) ==
    /\ frame[s].how = "with"
    /\ Claim(s, cm[frame[s].tracker])
    /\ UNCHANGED <<lane, service, frame, cm, samples, refused, work, misused>>

\* jobs_total first ...
Count(s) ==
    LET p == writes[s].for
    IN  /\ Goto(s, "counting", "observing")
        /\ counted' = [counted EXCEPT ![p] = Append(@, Sample(LabelOf(p), writes[s].outcome))]
        /\ UNCHANGED <<lane, service, frame, cm, settled, writes, observed, refused, work,
                       misused>>

\* ... and then the duration.
Observe(s) ==
    LET p == writes[s].for
    IN  /\ Goto(s, "observing", "returned")
        /\ observed' = [observed EXCEPT ![p] = Append(@, Sample(LabelOf(p), writes[s].outcome))]
        /\ writes' = [writes EXCEPT ![s] = NoWrite]
        /\ UNCHANGED <<lane, service, frame, cm, settled, counted, refused, work, misused>>

\* finish(err) again: once.Do does nothing.  TrackJob's function is not guarded.
FinishAgain(s) ==
    /\ lane = "go"
    /\ Goto(s, "returned", IF frame[s].how = "done" \/ ~Taken(s) THEN "counting" ELSE "returned")
    /\ Len(counted[s]) < 2
    /\ writes' = [writes EXCEPT ![s] =
                    IF pc'[s] = "counting" THEN [for |-> s, outcome |-> OutcomeOf(s)] ELSE @]
    /\ misused' = IF frame[s].how = "done" THEN misused \cup {s} ELSE misused
    /\ UNCHANGED <<lane, service, frame, cm, settled, samples, refused, work>>

-----------------------------------------------------------------------------
(* Node: record() reads the service when the work is done, or throws.      *)

\* Mutant: record() does not ask for the service.
Unchecked(o) == <<Sample(service, o)>>

\* What record(o) writes; without a service it throws, and so does every retry of it.
Recorded(o) == IF service = None THEN << >> ELSE <<Sample(service, o)>>

Record(s, o) ==
    /\ settled' = settled \cup {s}
    /\ counted' = [counted EXCEPT ![s] = @ \o Recorded(o)]
    /\ observed' = [observed EXCEPT ![s] = @ \o Recorded(o)]
    /\ refused' = IF service = None THEN refused \cup {s} ELSE refused

\* Unless the outcome is taken already.
RecordOnce(s, o) ==
    IF Taken(s) THEN UNCHANGED <<settled, samples, refused, work>>
    ELSE Record(s, o) /\ work' = [work EXCEPT ![s] = o]

\* The wrapped function returns a plain value or throws.
ReturnValue(s, o) ==
    /\ lane = "node"
    /\ frame[s].how = "wrapped"
    /\ Goto(s, "working", "returned")
    /\ RecordOnce(s, o)
    /\ UNCHANGED <<lane, service, frame, cm, writes, misused>>

\* It returns a thenable, whose then() is called.
ReturnThenable(s) ==
    /\ lane = "node"
    /\ frame[s].how = "wrapped"
    /\ Goto(s, "working", "then")
    /\ UNCHANGED <<lane, service, frame, cm, settled, writes, samples, refused, work, misused>>

\* then() returns; a promise has called no callback yet.
ThenReturns(s) ==
    /\ Goto(s, "then", "pending")
    /\ UNCHANGED <<lane, service, frame, cm, settled, writes, samples, refused, work, misused>>

\* then() throws, before or after it called a callback, into the catch block.
ThenThrows(s) ==
    /\ Goto(s, "then", "returned")
    /\ RecordOnce(s, "error")
    /\ UNCHANGED <<lane, service, frame, cm, writes, misused>>

\* The thenable calls one of the two callbacks: a promise once, others again.
Callback(s, o) ==
    /\ pc[s] \in {"then", "pending"}
    /\ RecordOnce(s, o)
    /\ UNCHANGED <<lane, service, pc, frame, cm, writes, misused>>

\* run(): the awaited work is done, and record() is called in the try block.
RunEnds(s, o) ==
    /\ lane = "node"
    /\ frame[s].how = "run"
    /\ Goto(s, "working", "returned")
    /\ Record(s, o)
    /\ work' = [work EXCEPT ![s] = o]
    /\ UNCHANGED <<lane, service, frame, cm, writes, misused>>

-----------------------------------------------------------------------------
EndStep(s) == Finish(s) \/ Exit(s) \/ Count(s) \/ Observe(s)

Start(s) ==
    \/ \E how \in Hows : Begin(s, how)
    \/ Refuse(s) \/ Enter(s)
    \/ \E t \in Trackers : EnterWith(s, t)

Settle(s, o) == WorkEnds(s, o) \/ ReturnValue(s, o) \/ Callback(s, o) \/ RunEnds(s, o)

Next ==
    \/ \E s \in Spans :
          \/ Start(s)
          \/ EndStep(s)
          \/ \E o \in Outcomes : Settle(s, o)
          \/ FinishAgain(s)
          \/ ReturnThenable(s) \/ ThenReturns(s) \/ ThenThrows(s)
    \/ \E n \in Services : SetService(n)

\* A thread that ends a span is scheduled; how long the work takes is the host's.
Spec == Init /\ [][Next]_vars /\ \A s \in Spans : WF_vars(EndStep(s))

-----------------------------------------------------------------------------
(* Properties.                                                             *)

\* Each variable has the values the code can give it.
JobsTypeOK ==
    /\ lane \in Lanes
    /\ service \in Services \cup {None}
    /\ pc \in [Spans -> Places]
    /\ frame \in [Spans -> [how : Hows, tracker : Trackers \cup {None}, label : Services \cup {None}]]
    /\ cm \in [Trackers -> Spans \cup {None}]
    /\ settled \subseteq Spans
    /\ writes \in [Spans -> [for : Spans \cup {None}, outcome : Outcomes]]
    /\ counted \in [Spans -> Seq([service : Services, outcome : Outcomes])]
    /\ observed \in [Spans -> Seq([service : Services, outcome : Outcomes])]
    /\ refused \subseteq Spans
    /\ work \in [Spans -> Outcomes \cup {"none"}]
    /\ misused \subseteq Spans

DoneTwice(s) == s \in misused /\ frame[s].how = "done"

\* A span is counted once, whatever ends it and however often: a thenable that
\* calls both callbacks or throws after one, a finish function called again, two
\* `with` blocks that share a tracker (baseline.ts:311-344, baseline.go:37-47).
CountedOnce ==
    \A s \in Spans : ~DoneTwice(s) => Len(counted[s]) <= 1 /\ Len(observed[s]) <= 1

\* When a span is over, the counter and the histogram have the same samples of
\* it, under the same service, also if the identity changed between the two
\* writes: rate(sum)/rate(count) joins them by all labels (_baseline.py:328-332).
PairsAgree ==
    \A s \in Spans : Over(s) /\ ~(\E r \in Spans : writes[r].for = s) => counted[s] = observed[s]

\* The outcome of a span is that of its own work, and no finished work is lost
\* unless the caller was told that no service is set (node/README.md:262-264).
OutcomeIsTheWorks ==
    \A s \in Spans :
        Over(s) /\ s \notin refused \cup misused
            => /\ Len(counted[s]) = 1
               /\ counted[s][1].outcome =
                      IF frame[s].how = "done" THEN "success" ELSE work[s]

\* The end of a span waits for nothing: work that has ended is soon counted, even
\* by another `with` block's generator, or refused.
WorkIsCounted == \A s \in Spans : work[s] # "none" ~> counted[s] # << >> \/ s \in refused

-----------------------------------------------------------------------------
\* _baseline.py:351: "Also usable as a context manager": OutcomeIsTheWorks for a
\* tracker that two `with` blocks share.
SharedTrackerIsRight ==
    \A s \in Spans :
        Over(s) /\ frame[s].how = "with" /\ counted[s] # << >> /\ s \notin refused
            => counted[s][1].outcome = work[s]

\* A caller without a service is told before the job runs; Node runs it and
\* throws its result away.
RefusedBeforeWork == \A s \in refused : work[s] = "none"
=============================================================================
