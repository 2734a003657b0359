----------------------------- MODULE HttpRecording -----------------------------
(***************************************************************************)
(* How the six adapters count a request.  FastAPI and Hono wrap the        *)
(* handler and count when it returns or raises.  Express and Next count on *)
(* the response's finish or close event.  Flask counts in an after_request *)
(* hook or in the exception signal.  Go counts behind a writer that        *)
(* remembers the status.  Next's recorder is a patch of the server's emit, *)
(* which can be installed again.  The duration histogram is observed with  *)
(* the counter and left out; the other adapters are installed already.     *)
(***************************************************************************)
EXTENDS Integers, Sequences, FiniteSets, SequencesExt

CONSTANTS
    Lanes,        \* a subset of {"fastapi", "hono", "express", "next", "flask", "go"}
    Requests,     \* requests
    Asks,         \* bound: the paths each request may be for, by lane
    Paths,        \* raw request paths, as sequences of segments
    MetricsPath,  \* the path of the metrics endpoint, one of Paths
    Template,     \* the host router: path |-> template, or Unmatched
    RoutePath,    \* what Hono reports as c.req.routePath: path |-> template or pattern
    CatchAll,     \* the patterns of middleware on every path, "/*" and "*"
    Overrides,    \* Next's routeTemplates: path |-> label, for some paths
    Kind,         \* segment |-> "numeric", "uuid", "dots", "safe" or "other"
    Unmatched,    \* the label of requests that match no route
    Overflow,     \* the label of Next's routes beyond the cap
    MaxRoutes,    \* Next's cap on distinct route labels
    Statuses,     \* the final statuses a handler answers with
    Method,       \* the method of each request, as the client wrote it
    Upper,        \* the upper-case form of each of those methods
    Allowed,      \* the methods that get their own series
    MaxPatches    \* bound: installs of Next's patch

ASSUME HttpRecordingAssumption ==
    /\ Lanes \subseteq {"fastapi", "hono", "express", "next", "flask", "go"}
    /\ MetricsPath \in Paths
    /\ Unmatched # Overflow
    /\ {200, 500} \subseteq Statuses /\ Statuses \subseteq 200..999
    /\ \A r \in Requests : Method[r] \in DOMAIN Upper
    /\ Paths \subseteq Seq(DOMAIN Kind)
    /\ DOMAIN Template = Paths /\ DOMAIN RoutePath = Paths /\ DOMAIN Overrides \subseteq Paths
    /\ MaxRoutes \in Nat /\ MaxPatches \in Nat

VARIABLES
    lane,       \* the adapter in use
    req,        \* the state of each request
    counted,    \* what simsys_http_requests_total has counted for each request
    listening,  \* Flask's signal still holds the exception handler
    sentinel,   \* Next: __simsysNextInstalled
    saved,      \* Next: __simsysNextOrigEmit, as patches on the built-in emit
    live,       \* patches or recorders a new request passes through
    seen,       \* Next: __simsysNextSeenRoutes
    installs    \* auxiliary: calls of installNext that patched

vars == <<lane, req, counted, listening, sentinel, saved, live, seen, installs>>
others == <<lane, listening, sentinel, saved, live, installs>>

-----------------------------------------------------------------------------
Events == {"finish", "close"}
Phases == {"idle", "handling", "late", "ours", "early", "done"}

\* What happens to a request past its recorder: a host hook raises, an exception leaves
\* Flask, the host's handler of the 500 that was counted answers something else, what runs
\* outside the recorder replaces the response, the status is set after the headers have
\* gone, Go's handler sends an informational status, flushes or hijacks the connection.
Oddities == {"hook", "propagated", "handled", "replaced", "overwritten",
             "informational", "flushed", "hijacked"}

\* __simsysNextOrigEmit is undefined.
Unset == -1

\* sent is the status the client gets, 0 before any.  armed holds the listeners
\* of each patch the request passed, marked is g.simsys_recorded, written is
\* the Go writer's flag; happened, odd and measured are auxiliary.
Fresh == [phase |-> "idle", path |-> MetricsPath, status |-> 200, sent |-> 0,
          armed |-> {}, happened |-> {}, marked |-> FALSE, erroring |-> FALSE,
          written |-> FALSE, measured |-> FALSE, odd |-> {}]

Init ==
    /\ lane \in Lanes
    /\ req = [r \in Requests |-> Fresh]
    /\ counted = [r \in Requests |-> << >>]
    /\ listening = (lane = "flask")
    /\ sentinel = (lane # "next")
    /\ saved = Unset
    /\ live = IF lane = "next" THEN 0 ELSE 1
    /\ seen = {}
    /\ installs = 0

-----------------------------------------------------------------------------
(* Labels.                                                                 *)

\* Mutant: a class for every status.
RawStatus(s) == s

\* The status class, a digit for "1xx" to "5xx"; what is no HTTP status is a "5xx".
StatusBucket(s) == IF s \in 100..599 THEN s \div 100 ELSE 5

\* A method nobody has heard of gets no series of its own.
NormalizeMethod(m) == IF Upper[m] \in Allowed THEN Upper[m] ELSE "OTHER"

\* Mutant: the pattern of a middleware on every path is a label.
CatchAllKept(p) == RoutePath[p]

\* Hono's label.  Only the patterns of middleware on every path are collapsed: those of
\* middleware on some paths, "/api/*", stay.
HonoRoute(p) == IF RoutePath[p] \in CatchAll THEN Unmatched ELSE RoutePath[p]

\* The label of a lane with a router, never the raw path.
RouteOf(p) == IF lane = "hono" THEN HonoRoute(p) ELSE Template[p]

\* A decoded path segment: words stay, anything a client can vary is collapsed.
ClassifySegment(t) ==
    CASE Kind[t] = "numeric" -> ":id"
      [] Kind[t] = "uuid" -> ":uuid"
      [] Kind[t] \in {"dots", "safe"} -> t
      [] OTHER -> ":str"

\* Next's label of a raw path.  The cap on the length of a URL is left out.
Bucket(p) ==
    IF p \in DOMAIN Overrides THEN Overrides[p]
    ELSE IF Len(p) > 5 THEN <<ClassifySegment(p[1]), ClassifySegment(p[2]), "__deep__">>
    ELSE [i \in DOMAIN p |-> ClassifySegment(p[i])]

\* Mutant: one label too many.
OffByOne(n) == n > MaxRoutes

\* The budget of route labels is spent.
CapReached(n) == n >= MaxRoutes

\* Next's label for path p, once the budget is respected.
CapRoute(p) ==
    IF Bucket(p) \in seen \/ ~CapReached(Cardinality(seen)) THEN Bucket(p) ELSE Overflow

\* Mutant: a 404 keeps its label.
NotFoundKept(s) == FALSE

\* The collapse that stands in for the router Next does not show.
IsNotFound(s) == s = 404

\* The label, and the routes seen once it has been given out.
NextRoute(p, s) == IF IsNotFound(s) THEN Unmatched ELSE CapRoute(p)
SeenWith(p, s) ==
    IF IsNotFound(s) \/ CapReached(Cardinality(seen)) THEN seen ELSE seen \cup {Bucket(p)}

\* The labels of one sample.
Entry(r, route, s) ==
    [method |-> NormalizeMethod(Method[r]), route |-> route, class |-> StatusBucket(s)]

Count(r, s) == counted' = [counted EXCEPT ![r] = Append(@, Entry(r, RouteOf(req[r].path), s))]

Exempt(r) == req[r].path = MetricsPath

\* Counts request r with status s, unless it is for the metrics endpoint.
CountUnlessExempt(r, s) == IF Exempt(r) THEN UNCHANGED counted ELSE Count(r, s)

-----------------------------------------------------------------------------
(* All lanes.                                                              *)

\* Mutant: the recorder listens to finish only.
FinishOnly == {"finish"}

\* The events each recorder listens to.
ListensTo == Events

\* The listeners a request for path p starts with.
Armed(p) ==
    IF lane \in {"express", "next"} /\ p # MetricsPath THEN (1..live) \X ListensTo ELSE {}

\* A request arrives.
Begin(r, p) ==
    /\ req[r].phase = "idle"
    /\ p \in Asks[lane][r]
    /\ req' = [req EXCEPT ![r].phase = "handling", ![r].path = p,
                          ![r].armed = Armed(p), ![r].measured = live > 0]
    /\ UNCHANGED <<counted, seen, others>>

\* The request of r ends, answered with s.
Answered(r, s) == [req[r] EXCEPT !.phase = "done", !.status = s, !.sent = s]

-----------------------------------------------------------------------------
(* FastAPI and Hono: the finally block around the handler.                 *)

\* The handler answers with s.
Respond(r, s) ==
    /\ lane \in {"fastapi", "hono"}
    /\ req[r].phase = "handling"
    /\ req' = [req EXCEPT ![r] = Answered(r, s)]
    /\ CountUnlessExempt(r, s)
    /\ UNCHANGED <<seen, others>>

\* The handler raises: status_code is still 500, or c.res is the error response.
Raise(r) ==
    /\ lane \in {"fastapi", "hono"}
    /\ req[r].phase = "handling"
    /\ req' = [req EXCEPT ![r] = Answered(r, 500)]
    /\ CountUnlessExempt(r, 500)
    /\ UNCHANGED <<seen, others>>

-----------------------------------------------------------------------------
(* Express and Next: finish and close.                                     *)

\* The headers have gone out, and the status with them.
HeadSent(r) == req[r].happened \cap {"head", "end"} # {}

\* The status the client gets when they go out now: none if it has gone.
Reached(r) == IF "close" \in req[r].happened THEN 0 ELSE req[r].status

\* The handler sets res.statusCode, also when the headers have gone, for as long as the
\* headers or a recorder are to read it.
SetStatus(r, s) ==
    /\ lane \in {"express", "next"}
    /\ req[r].phase = "handling"
    /\ ~HeadSent(r) \/ req[r].armed # {}
    /\ req' = [req EXCEPT ![r].status = s,
                          ![r].odd = IF HeadSent(r) THEN @ \cup {"overwritten"} ELSE @]
    /\ UNCHANGED <<counted, seen, others>>

\* The handler writes some of the body, which sends the headers.
SendHead(r) ==
    /\ lane \in {"express", "next"}
    /\ req[r].phase = "handling"
    /\ ~HeadSent(r)
    /\ req' = [req EXCEPT ![r].happened = @ \cup {"head"}, ![r].sent = Reached(r)]
    /\ UNCHANGED <<counted, seen, others>>

\* The handler ends the response.
EndResponse(r) ==
    /\ lane \in {"express", "next"}
    /\ req[r].phase = "handling"
    /\ "end" \notin req[r].happened
    /\ req' = [req EXCEPT ![r].happened = @ \cup {"end"},
                          ![r].sent = IF HeadSent(r) THEN @ ELSE Reached(r)]
    /\ UNCHANGED <<counted, seen, others>>

\* Mutant: a recorder that has fired stays armed for the other event.
FiredOnly(armed, e) == {a \in armed : a[2] # e}

\* finalize removes the recorder's listeners of both events.
Disarmed(armed, e) == {a \in armed : <<a[1], e>> \notin armed}

\* Event e fires: each recorder that listens counts the status of the moment.
Emit(r, e) ==
    LET q == req[r]
        fired == {a \in q.armed : a[2] = e}
        route == IF lane = "next" THEN NextRoute(q.path, q.status) ELSE RouteOf(q.path)
    IN  /\ lane \in {"express", "next"}
        /\ q.phase = "handling"
        /\ e \notin q.happened
        /\ e = "finish" => "end" \in q.happened
        /\ req' = [req EXCEPT ![r].happened = @ \cup {e}, ![r].armed = Disarmed(@, e)]
        /\ counted' = [counted EXCEPT ![r] =
                          @ \o [i \in 1..Cardinality(fired) |-> Entry(r, route, q.status)]]
        /\ seen' = IF lane = "next" /\ fired # {} THEN SeenWith(q.path, q.status) ELSE seen
        /\ UNCHANGED others

-----------------------------------------------------------------------------
(* Next: the patch of http.Server.prototype.emit.                          *)

\* Mutant: patch whatever is live.
LiveEmit == live

\* The emit the patch is laid on: the built-in one kept by the first install.
OrigEmit == IF saved = Unset THEN live ELSE saved

\* installNext patches emit and sets its sentinels, in one go.
Install ==
    /\ lane = "next"
    /\ ~sentinel
    /\ installs < MaxPatches
    /\ live' = OrigEmit + 1
    /\ saved' = IF saved = Unset THEN OrigEmit ELSE saved
    /\ sentinel' = TRUE
    /\ installs' = installs + 1
    /\ UNCHANGED <<lane, req, counted, listening, seen>>

\* The host clears the sentinel to re-arm, as a hot reload does.
ClearSentinel ==
    /\ lane = "next"
    /\ sentinel /\ sentinel' = FALSE
    /\ UNCHANGED <<lane, req, counted, listening, saved, live, seen, installs>>

-----------------------------------------------------------------------------
(* Flask: views, hooks and the exception signal.                           *)

\* The view, or an error handler, answers with s; the hooks are next.
ViewReturns(r, s) ==
    /\ lane = "flask"
    /\ req[r].phase = "handling"
    /\ req' = [req EXCEPT ![r].phase = "late", ![r].status = s]
    /\ UNCHANGED <<counted, seen, others>>

\* Mutant: the signal handler does not look at g.simsys_recorded.
NotMarked(r) == TRUE

\* g.simsys_recorded is not set.
NotYetRecorded(r) == ~req[r].marked

\* An exception no handler takes: the signal, and then either the exception leaves
\* Flask, or a response goes through the hooks: a 500, or what the host's errorhandler(500)
\* makes of it.
Unhandled(r, oddity) ==
    LET counts == listening /\ ~Exempt(r) /\ NotYetRecorded(r)
        q == [req[r] EXCEPT !.marked = @ \/ counts, !.odd = @ \cup oddity]
    IN  /\ IF counts THEN Count(r, 500) ELSE UNCHANGED counted
        /\ \/ \E s \in Statuses :
                 req' = [req EXCEPT ![r] = [q EXCEPT
                            !.phase = "late", !.erroring = TRUE, !.status = s,
                            !.odd = IF counts /\ s # 500 THEN @ \cup {"handled"} ELSE @]]
           \/ req' = [req EXCEPT ![r] = [q EXCEPT !.phase = "done", !.status = 500, !.sent = 500,
                                                  !.odd = @ \cup {"propagated"}]]

\* The view raises; the host decides by PROPAGATE_EXCEPTIONS.
ViewRaises(r) ==
    /\ lane = "flask"
    /\ req[r].phase = "handling"
    /\ Unhandled(r, {})
    /\ UNCHANGED <<seen, others>>

\* The response leaves with the status it has.
SendResponse(q) == [q EXCEPT !.phase = "done", !.sent = q.status]

\* after_request hooks run in reverse order of registration: those the host
\* added after install, then ours, then those it had before.
HookPasses(r) ==
    /\ lane = "flask"
    /\ req[r].phase \in {"late", "early"}
    /\ req' = [req EXCEPT ![r] = IF req[r].phase = "late" THEN [req[r] EXCEPT !.phase = "ours"]
                                 ELSE SendResponse(req[r])]
    /\ UNCHANGED <<counted, seen, others>>

\* A hook of the host returns another response, or sets its status: our hook sees that
\* only if it has yet to run.
HookReplaces(r, s) ==
    /\ lane = "flask"
    /\ req[r].phase \in {"late", "early"}
    /\ req' = [req EXCEPT ![r].status = s,
                          ![r].odd = IF req[r].marked THEN @ \cup {"replaced"} ELSE @]
    /\ UNCHANGED <<counted, seen, others>>

\* A hook of the host raises; while a 500 is being made Flask only logs that.
HookRaises(r) ==
    /\ lane = "flask"
    /\ req[r].phase \in {"late", "early"}
    /\ IF req[r].erroring
       THEN /\ req' = [req EXCEPT ![r] = [SendResponse(req[r]) EXCEPT !.odd = @ \cup {"hook"}]]
            /\ UNCHANGED counted
       ELSE Unhandled(r, {"hook"})
    /\ UNCHANGED <<seen, others>>

\* _simsys_after.
After(r) ==
    LET counts == ~Exempt(r) /\ NotYetRecorded(r)
    IN  /\ lane = "flask"
        /\ req[r].phase = "ours"
        /\ req' = [req EXCEPT ![r].phase = "early", ![r].marked = @ \/ counts]
        /\ IF counts THEN Count(r, req[r].status) ELSE UNCHANGED counted
        /\ UNCHANGED <<seen, others>>

\* The signal holds its receivers weakly and nothing else holds ours.
Collect ==
    /\ listening /\ listening' = FALSE
    /\ UNCHANGED <<lane, req, counted, sentinel, saved, live, seen, installs>>

-----------------------------------------------------------------------------
(* Go: statusRecorder.                                                     *)

\* net/http sends the first final status; 1xx goes out ahead of it.
SentAfter(q, s) == IF q.sent = 0 /\ s >= 200 THEN s ELSE q.sent

\* WriteHeader.
WriteHeader(r, s) ==
    LET q == req[r]
    IN  /\ lane = "go"
        /\ q.phase = "handling"
        /\ req' = [req EXCEPT ![r] = [q EXCEPT
                      !.status = IF q.written THEN @ ELSE s,
                      !.written = TRUE,
                      !.sent = SentAfter(q, s),
                      !.odd = IF s < 200 THEN @ \cup {"informational"} ELSE @]]
        /\ UNCHANGED <<counted, seen, others>>

\* Write: net/http sends 200 if no status was written.
Write(r) ==
    /\ lane = "go"
    /\ req[r].phase = "handling"
    /\ req' = [req EXCEPT ![r] = [req[r] EXCEPT !.written = TRUE,
                                                !.sent = SentAfter(req[r], 200)]]
    /\ UNCHANGED <<counted, seen, others>>

\* Flush through Unwrap: net/http sends 200, past the recorder.
Flush(r) ==
    /\ lane = "go"
    /\ req[r].phase = "handling"
    /\ req' = [req EXCEPT ![r] = [req[r] EXCEPT
                      !.sent = SentAfter(req[r], 200),
                      !.odd = IF req[r].written THEN @ ELSE @ \cup {"flushed"}]]
    /\ UNCHANGED <<counted, seen, others>>

\* Hijack through Unwrap: the handler answers on the connection, past the recorder; a
\* websocket's 101 is one status of several here.
Hijack(r, s) ==
    /\ lane = "go"
    /\ req[r].phase = "handling"
    /\ req' = [req EXCEPT ![r] = [req[r] EXCEPT !.sent = SentAfter(req[r], s),
                                                !.odd = @ \cup {"hijacked"}]]
    /\ UNCHANGED <<counted, seen, others>>

\* The request of q ends, and what was not sent before is sent as s.
Ended(q, s) == [q EXCEPT !.phase = "done", !.sent = SentAfter(q, s)]

\* The handler returns.
Return(r) ==
    /\ lane = "go"
    /\ req[r].phase = "handling"
    /\ req' = [req EXCEPT ![r] = Ended(req[r], 200)]
    /\ CountUnlessExempt(r, req[r].status)
    /\ UNCHANGED <<seen, others>>

\* Mutant: the recorder's default of 200 is kept.
DefaultKept(q) == q.status

\* What a panic counts as: the status written, or 500.
PanicStatus(q) == IF q.written THEN q.status ELSE 500

\* The handler panics; the connection ends, which counts as a 500 to the client.
Panic(r) ==
    /\ lane = "go"
    /\ req[r].phase = "handling"
    /\ req' = [req EXCEPT ![r] = Ended(req[r], 500)]
    /\ CountUnlessExempt(r, PanicStatus(req[r]))
    /\ UNCHANGED <<seen, others>>

-----------------------------------------------------------------------------
(* What the host wraps around the application and its recorder.            *)

\* It answers the client something else: another FastAPI or Hono middleware, WSGI
\* middleware, http.TimeoutHandler.
Replace(r, s) ==
    /\ lane \notin {"express", "next"}
    /\ req[r].phase = "done"
    /\ req' = [req EXCEPT ![r].sent = s, ![r].odd = @ \cup {"replaced"}]
    /\ UNCHANGED <<counted, seen, others>>

-----------------------------------------------------------------------------
Step(r) ==
    \/ \E p \in Paths : Begin(r, p)
    \/ \E s \in Statuses :
         \/ Respond(r, s) \/ SetStatus(r, s) \/ ViewReturns(r, s)
         \/ HookReplaces(r, s) \/ Hijack(r, s) \/ Replace(r, s)
    \/ Raise(r)
    \/ SendHead(r) \/ EndResponse(r) \/ \E e \in Events : Emit(r, e)
    \/ ViewRaises(r) \/ HookPasses(r) \/ HookRaises(r) \/ After(r)
    \/ \E s \in Statuses \cup {103} : WriteHeader(r, s)
    \/ Write(r) \/ Flush(r) \/ Return(r) \/ Panic(r)

Next ==
    \/ \E r \in Requests : Step(r)
    \/ Install \/ ClearSentinel
    \/ Collect

Spec == Init /\ [][Next]_vars

-----------------------------------------------------------------------------
(* Properties.                                                             *)

Over(r) == req[r].phase = "done" \/ Events \subseteq req[r].happened
          \/ (lane \in {"express", "next"} /\ "close" \in req[r].happened)
Samples == UNION {Range(counted[r]) : r \in Requests}

\* Each variable has the values the code can give it.
HttpTypeOK ==
    /\ lane \in Lanes
    /\ \A r \in Requests :
         /\ req[r].phase \in Phases
         /\ req[r].status \in Statuses \cup {103}
         /\ req[r].sent \in Statuses \cup {0}
         /\ req[r].armed \subseteq (1..(MaxPatches + 1)) \X Events
         /\ req[r].odd \subseteq Oddities
         /\ \A e \in Range(counted[r]) : e.class \in 1..5
    /\ saved \in {Unset} \cup Nat
    /\ live \in Nat

\* No request is counted twice and the metrics endpoint is not counted, whatever
\* happens: finish and close, the signal and the hooks, a second install while
\* requests are in flight, hooks that raise, a panic.
CountedAtMostOnce ==
    \A r \in Requests : Len(counted[r]) <= IF Exempt(r) THEN 0 ELSE 1

\* No request is lost: one that is over has been counted, answered or aborted,
\* provided no hook of the host raised and no exception left Flask.
CountedByTheEnd ==
    \A r \in Requests :
        /\ Over(r) /\ req[r].measured /\ ~Exempt(r)
        /\ req[r].odd \cap {"hook", "propagated"} = {}
        => counted[r] # << >>

\* The class counted is the class the client got, through aborts, exceptions, panics and
\* second statuses, provided nothing in Oddities went past the recorder; an exception that
\* leaves Flask is a 500 to both.
StatusMatches ==
    \A r \in Requests :
        /\ Over(r) /\ req[r].sent # 0 /\ counted[r] # << >>
        /\ req[r].odd \subseteq {"propagated"}
        => Last(counted[r]).class = StatusBucket(req[r].sent)

\* Whatever clients ask for, and however often Next's patch is installed: methods
\* come from the allow-list, Next gives out at most MaxRoutes route labels besides
\* its two sentinels, and a request that matched no route has the one label Unmatched:
\* in Next, which only sees the status, when it was answered with a 404, and in Hono
\* unless it is under the host's middleware on some paths, whose pattern is then its label.
LabelsBounded ==
    /\ \A e \in Samples : e.method \in Allowed \cup {"OTHER"}
    /\ lane = "next" =>
         Cardinality({e.route : e \in Samples} \ {Unmatched, Overflow}) <= MaxRoutes
    /\ \A r \in Requests : \A e \in Range(counted[r]) : Template[req[r].path] = Unmatched =>
         CASE lane = "next" ->
                req[r].sent = 404 /\ "overwritten" \notin req[r].odd => e.route = Unmatched
           [] lane = "hono" -> e.route \in {Unmatched} \cup (Range(RoutePath) \ CatchAll)
           [] OTHER -> e.route = Unmatched

\* hono.ts:193-196: "When no real route handler matched, Hono reports the middleware's own
\* pattern ("/*" or "*") as the routePath", which collapses into the unmatched bucket.
HonoUnmatchedCollapses ==
    \A r \in Requests : \A e \in Range(counted[r]) :
        lane = "hono" /\ Template[req[r].path] = Unmatched => e.route = Unmatched

\* flask.py:128: "unhandled-exception 5xx are still counted instead of
\* vanishing silently": also when the exception leaves Flask.
UnhandledCounted ==
    \A r \in Requests :
        /\ Over(r) /\ ~Exempt(r)
        /\ "propagated" \in req[r].odd /\ "hook" \notin req[r].odd
        => counted[r] # << >>

\* StatusMatches without its proviso: fails in every lane.
StatusAlwaysMatches ==
    \A r \in Requests :
        Over(r) /\ req[r].sent # 0 /\ counted[r] # << >>
            => Last(counted[r]).class = StatusBucket(req[r].sent)
=============================================================================
