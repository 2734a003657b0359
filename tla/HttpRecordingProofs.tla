-------------------------- MODULE HttpRecordingProofs --------------------------
(***************************************************************************)
(* Theorems about HttpRecording, for any lanes, requests, paths, statuses  *)
(* and bounds: each request is counted once, with the status the client    *)
(* got, under a bounded set of labels.                                     *)
(***************************************************************************)
EXTENDS HttpRecording, FiniteSetTheorems, TLAPS

\* The routes, the samples and the requests there can be.
Routes == {Template[p] : p \in Paths} \cup {HonoRoute(p) : p \in Paths}
          \cup {Bucket(p) : p \in Paths} \cup {Unmatched, Overflow}

\* The label of a path in the lanes with a router.
Label(l, p) == IF l = "hono" THEN HonoRoute(p) ELSE Template[p]

Entries == [method : Allowed \cup {"OTHER"}, route : Routes, class : 1..5]
RequestType ==
    [phase : Phases, path : Paths, status : Statuses \cup {103}, sent : Statuses \cup {0},
     armed : SUBSET ({1} \X Events), happened : SUBSET (Events \cup {"head", "end"}),
     marked : BOOLEAN, erroring : BOOLEAN, written : BOOLEAN, measured : BOOLEAN,
     odd : SUBSET Oddities]

\* The sample of a request that has been counted.
IsCounted(r) == counted[r] # << >>
Sample(r) == counted[r][1]

\* No request has more than one sample, and at most one patch is live.
TypesFit ==
    /\ lane \in Lanes
    /\ req \in [Requests -> RequestType]
    /\ counted \in [Requests -> {<< >>} \cup {<<e>> : e \in Entries}]
    /\ IF lane = "next" THEN <<saved, live>> \in {<<Unset, 0>>, <<0, 1>>}
                        ELSE <<saved, live>> = <<Unset, 1>>

\* A request that has not begun is fresh, and what is exempt is never counted.
RequestFits(r) ==
    /\ req[r].phase = "idle" => req[r] = Fresh /\ ~IsCounted(r)
    /\ IsCounted(r) => ~Exempt(r)
    /\ lane \notin {"express", "next"} => req[r].happened = {}
    /\ IsCounted(r) /\ lane # "next" => Sample(r).route = Label(lane, req[r].path)

\* FastAPI and Hono count in the step that ends the request.
WrapFits(r) ==
    lane \in {"fastapi", "hono"} =>
      /\ req[r].phase \in {"idle", "handling", "done"}
      /\ req[r].phase # "done" => ~IsCounted(r)
      /\ req[r].phase = "done" =>
           /\ req[r].sent = req[r].status \/ "replaced" \in req[r].odd
           /\ IsCounted(r) <=> ~Exempt(r)
      /\ IsCounted(r) => Sample(r).class = StatusBucket(req[r].status)

\* Express and Next count at the first event, and both listeners are gone then.  Until
\* the headers go out nothing is sent; after that the status is fixed or overwritten.
EventFits(r) ==
    lane \in {"express", "next"} =>
      /\ req[r].phase \in {"idle", "handling"}
      /\ req[r].status \in Statuses
      /\ req[r].armed \in {{}, {1} \X Events}
      /\ req[r].armed # {} =>
           ~IsCounted(r) /\ req[r].happened \cap Events = {} /\ ~Exempt(r)
      /\ req[r].measured /\ ~Exempt(r) /\ req[r].armed = {} => IsCounted(r)
      /\ IsCounted(r) => req[r].happened \cap Events # {}
      /\ "finish" \in req[r].happened => "end" \in req[r].happened
      /\ ~HeadSent(r) => req[r].sent = 0
      /\ req[r].sent # 0 /\ "overwritten" \notin req[r].odd => req[r].sent = req[r].status
      /\ IsCounted(r) /\ req[r].sent # 0 /\ "overwritten" \notin req[r].odd =>
           /\ Sample(r).class = StatusBucket(req[r].status)
           /\ lane = "next" /\ req[r].sent = 404 => Sample(r).route = Unmatched

\* Flask counts when it marks the request, in the signal or in the hook.
FlaskFits(r) ==
    lane = "flask" =>
      /\ req[r].status \in Statuses
      /\ IsCounted(r) <=> req[r].marked
      /\ req[r].phase = "handling" => ~IsCounted(r)
      /\ req[r].phase # "done" => req[r].sent = 0
      /\ req[r].phase = "done" => req[r].sent = req[r].status \/ "replaced" \in req[r].odd
      /\ IsCounted(r) /\ req[r].odd \cap {"hook", "handled", "replaced"} = {} =>
           Sample(r).class = StatusBucket(req[r].status)
      /\ req[r].phase \in {"early", "done"} /\ ~Exempt(r)
           /\ req[r].odd \cap {"hook", "propagated"} = {} => IsCounted(r)

\* Go's recorder and net/http agree on the status, but for what goes past the recorder.
GoFits(r) ==
    lane = "go" =>
      /\ req[r].phase \in {"idle", "handling", "done"}
      /\ req[r].phase # "done" => ~IsCounted(r)
      /\ req[r].phase = "done" => (IsCounted(r) <=> ~Exempt(r))
      /\ req[r].odd \cap {"informational", "flushed", "hijacked", "replaced"} = {} =>
           /\ req[r].phase = "handling" =>
                IF req[r].written THEN req[r].sent # 0 /\ req[r].sent = req[r].status
                                  ELSE req[r].sent = 0 /\ req[r].status = 200
           /\ IsCounted(r) => Sample(r).class = StatusBucket(req[r].sent)

\* Next's labels are among those it has seen, which are within the cap.
RoutesFit ==
    /\ IsFiniteSet(seen) /\ Cardinality(seen) <= MaxRoutes
    /\ \A r \in Requests : lane = "next" /\ IsCounted(r) =>
         Sample(r).route \in seen \cup {Unmatched, Overflow}

\* A request as every lane has it; all but the lane in use hold trivially.
Fits(r) == RequestFits(r) /\ WrapFits(r) /\ EventFits(r) /\ FlaskFits(r) /\ GoFits(r)

\* What every step keeps.
HttpInv ==
    /\ TypesFit
    /\ \A r \in Requests : Fits(r)
    /\ RoutesFit

-----------------------------------------------------------------------------
(* The operators.                                                          *)

\* One sample is appended to none.
LEMMA AppendOne == \A e : Append(<< >>, e) = <<e>>
  OBVIOUS

\* One sample is added to none.
LEMMA ConcatOne == \A e : << >> \o <<e>> = <<e>>
  OBVIOUS

\* No samples added.
LEMMA ConcatNone == << >> \o << >> = << >> /\ \A e : <<e>> \o << >> = <<e>>
  OBVIOUS

\* As many samples as recorders fired, for none and for one.
LEMMA Replicated == \A e : [i \in 1..0 |-> e] = << >> /\ [i \in 1..1 |-> e] = <<e>>
  OBVIOUS

\* A sequence of one sample.
LEMMA OneSample ==
  ASSUME NEW e
  PROVE  /\ <<e>> # << >> /\ Len(<<e>>) = 1 /\ <<e>>[1] = e
         /\ Last(<<e>>) = e /\ Range(<<e>>) = {e}
  BY DEF Last, Range

\* What is no HTTP status has a class, too.
LEMMA BucketType == \A s \in 0..999 : StatusBucket(s) \in 1..5
  BY DEF StatusBucket

\* Statuses are numbers, one of which is 500.
LEMMA StatusFacts ==
  /\ 200 \in Statuses /\ 500 \in Statuses
  /\ \A s \in Statuses \cup {103} : s \in 0..999 /\ s # 0
  /\ \A s \in Statuses : s >= 200
  BY HttpRecordingAssumption

\* The labels of a sample.
LEMMA EntryType ==
  ASSUME NEW r, NEW route \in Routes, NEW s \in Statuses \cup {103}
  PROVE  /\ Entry(r, route, s) \in Entries
         /\ Entry(r, route, s).route = route /\ Entry(r, route, s).class = StatusBucket(s)
  <1> DEFINE m == NormalizeMethod(Method[r])
             c == StatusBucket(s)
  <1>1. c \in 1..5
    <2>1. s \in 0..999
      BY StatusFacts
    <2> QED
      BY <2>1, BucketType, ZenonT(40)
  <1>2. m \in Allowed \cup {"OTHER"}
    BY DEF NormalizeMethod
  <1>3. Entry(r, route, s) = [method |-> m, route |-> route, class |-> c]
    BY DEF Entry
  <1> HIDE DEF m, c
  <1>4. [method |-> m, route |-> route, class |-> c] \in Entries
    BY <1>1, <1>2 DEF Entries
  <1>5. Entry(r, route, s).route = route /\ Entry(r, route, s).class = c
    BY <1>3
  <1> QED
    BY <1>3, <1>4, <1>5 DEF c

\* The labels a request can get.
LEMMA RouteTypes ==
  ASSUME NEW p \in Paths, NEW s
  PROVE  /\ RouteOf(p) = Label(lane, p) /\ RouteOf(p) \in Routes
         /\ NextRoute(p, s) \in Routes /\ Bucket(p) \in Routes
  BY DEF Routes, RouteOf, Label, NextRoute, CapRoute

\* The fields of a request.
LEMMA RequestFields ==
  ASSUME TypesFit, NEW r \in Requests
  PROVE  /\ req[r].phase \in Phases /\ req[r].path \in Paths
         /\ req[r].status \in Statuses \cup {103} /\ req[r].sent \in Statuses \cup {0}
         /\ req[r].armed \subseteq {1} \X Events /\ req[r].happened \subseteq Events \cup {"head", "end"}
         /\ req[r].marked \in BOOLEAN /\ req[r].erroring \in BOOLEAN
         /\ req[r].written \in BOOLEAN /\ req[r].measured \in BOOLEAN
         /\ req[r].odd \subseteq Oddities
  BY DEF TypesFit, RequestType

\* A request is counted with one sample.
LEMMA CountedForm ==
  ASSUME TypesFit, NEW r \in Requests
  PROVE  \/ counted[r] = << >> /\ ~IsCounted(r)
         \/ IsCounted(r) /\ Sample(r) \in Entries /\ counted[r] = <<Sample(r)>>
  BY OneSample DEF TypesFit, IsCounted, Sample

\* Request r gets its sample, of a route and of a status.
CountedNow(r, route, s) ==
  \E e \in Entries :
    /\ counted' = [counted EXCEPT ![r] = <<e>>]
    /\ counted'[r] = <<e>> /\ counted'[r] # << >> /\ counted'[r][1] = e
    /\ e.route = route /\ e.class = StatusBucket(s)

\* Counting a request that has not been counted.
LEMMA CountFacts ==
  ASSUME TypesFit, NEW r \in Requests, NEW s \in Statuses \cup {103}, ~IsCounted(r), Count(r, s)
  PROVE  CountedNow(r, Label(lane, req[r].path), s)
  <1> DEFINE e == Entry(r, RouteOf(req[r].path), s)
  <1>1. req[r].path \in Paths
    BY RequestFields
  <1>2. e \in Entries /\ e.route = Label(lane, req[r].path) /\ e.class = StatusBucket(s)
    BY <1>1, RouteTypes, EntryType
  <1> HIDE DEF e
  <1>3. counted' = [counted EXCEPT ![r] = Append(@, e)]
    BY DEF Count, e
  <1>4. counted[r] = << >>
    BY DEF IsCounted
  <1>5. counted' = [counted EXCEPT ![r] = <<e>>]
    BY <1>3, <1>4, AppendOne
  <1>6. counted'[r] = <<e>>
    BY <1>5 DEF TypesFit
  <1> QED
    BY <1>2, <1>5, <1>6, OneSample, ZenonT(40) DEF CountedNow

\* The sole sample of a request that is counted unless it is exempt.
LEMMA UnlessExemptFacts ==
  ASSUME TypesFit, NEW r \in Requests, NEW s \in Statuses \cup {103}, ~IsCounted(r),
         CountUnlessExempt(r, s)
  PROVE  \/ Exempt(r) /\ counted' = counted
         \/ ~Exempt(r) /\ CountedNow(r, Label(lane, req[r].path), s)
  BY CountFacts DEF CountUnlessExempt

\* An event finds no recorder, or the one that counts and is disarmed.
LEMMA EmitFacts ==
  ASSUME TypesFit, NEW r \in Requests, NEW e \in Events, EventFits(r), Emit(r, e)
  PROVE  /\ req'[r].armed = {}
         /\ \/ req[r].armed = {} /\ counted' = counted /\ seen' = seen
            \/ /\ req[r].armed # {} /\ ~IsCounted(r) /\ ~Exempt(r)
               /\ seen' = IF lane = "next" THEN SeenWith(req[r].path, req[r].status) ELSE seen
               /\ CountedNow(r, IF lane = "next" THEN NextRoute(req[r].path, req[r].status)
                                                  ELSE Label(lane, req[r].path), req[r].status)
  <1> DEFINE armed == req[r].armed
             fired == {a \in armed : a[2] = e}
             route == IF lane = "next" THEN NextRoute(req[r].path, req[r].status)
                                       ELSE RouteOf(req[r].path)
             x == Entry(r, route, req[r].status)
  <1>1. /\ lane \in {"express", "next"} /\ armed \in {{}, {1} \X Events}
        /\ armed # {} => ~IsCounted(r) /\ ~Exempt(r)
    BY DEF EventFits, Emit
  <1>2. counted' = [counted EXCEPT ![r] = @ \o [i \in 1..Cardinality(fired) |-> x]]
    BY DEF Emit
  <1>3. req'[r].armed = Disarmed(armed, e)
    BY DEF Emit, TypesFit, RequestType
  <1>4. seen' = IF lane = "next" /\ fired # {} THEN SeenWith(req[r].path, req[r].status) ELSE seen
    BY DEF Emit
  <1>5. CASE armed = {}
    <2>1. fired = {} /\ Cardinality(fired) = 0
      BY <1>5, FS_EmptySet
    <2>2. [i \in 1..Cardinality(fired) |-> x] = << >>
      BY <2>1, Replicated
    <2>3. counted[r] \o << >> = counted[r]
      BY CountedForm, ConcatNone
    <2>4. counted' = counted
      BY <1>2, <2>2, <2>3 DEF TypesFit
    <2> QED
      BY <1>3, <1>4, <1>5, <2>1, <2>4 DEF Disarmed
  <1>6. CASE armed = {1} \X Events
    <2>1. fired = {<<1, e>>}
      BY <1>6
    <2>2. Cardinality(fired) = 1
      BY <2>1, FS_Singleton
    <2>3. armed # {} /\ Disarmed(armed, e) = {}
      <3>1. <<1, e>> \in armed
        BY <1>6
      <3>2. \A a \in armed : a[1] = 1
        BY <1>6
      <3> QED
        BY <3>1, <3>2 DEF Disarmed
    <2>4. [i \in 1..Cardinality(fired) |-> x] = <<x>>
      BY <2>2, Replicated
    <2>5. counted[r] = << >>
      BY <1>1, <2>3 DEF IsCounted
    <2>6. x \in Entries /\ x.route = route /\ x.class = StatusBucket(req[r].status)
      BY RequestFields, RouteTypes, EntryType
    <2> HIDE DEF x
    <2>7. counted' = [counted EXCEPT ![r] = <<x>>]
      BY <1>2, <2>4, <2>5, ConcatOne
    <2>8. counted'[r] = <<x>>
      BY <2>7 DEF TypesFit
    <2>9. route = IF lane = "next" THEN NextRoute(req[r].path, req[r].status)
                                   ELSE Label(lane, req[r].path)
      BY RequestFields, RouteTypes
    <2> HIDE DEF fired, armed, route
    <2> QED
      BY <1>1, <1>3, <1>4, <2>1, <2>3, <2>6, <2>7, <2>8, <2>9, OneSample DEF armed, CountedNow
  <1> QED
    BY <1>1, <1>5, <1>6

-----------------------------------------------------------------------------
(* The types are kept, action by action.                                   *)

\* An action that counts request r once, or not at all.
CountsAtMost(r) ==
  counted' = counted \/ \E e \in Entries : counted' = [counted EXCEPT ![r] = <<e>>]

\* What an action on request r has to show.
LEMMA TypesKept ==
  ASSUME TypesFit, NEW r \in Requests, UNCHANGED others,
         req' \in [Requests -> RequestType], CountsAtMost(r)
  PROVE  TypesFit'
  BY DEF TypesFit, CountsAtMost, others

\* A request arrives.
LEMMA BeginTypes ==
  ASSUME TypesFit, NEW r \in Requests, NEW p \in Paths, Begin(r, p)
  PROVE  TypesFit'
  <1>1. Armed(p) \subseteq {1} \X Events
    <2>1. 1..1 = {1} /\ 1..0 = {}
      OBVIOUS
    <2>2. live \in {0, 1}
      BY DEF TypesFit
    <2> QED
      BY <2>1, <2>2 DEF Armed, ListensTo
  <1>2. req' \in [Requests -> RequestType]
    <2> DEFINE m == live > 0
               a == Armed(p)
    <2>1. m \in BOOLEAN /\ a \in SUBSET ({1} \X Events)
      BY <1>1
    <2>2. req' = [req EXCEPT ![r] = [@ EXCEPT !.phase = "handling", !.path = p, !.armed = a,
                                              !.measured = m]]
      BY DEF Begin
    <2> HIDE DEF m, a
    <2>3. req[r] \in RequestType
      BY DEF TypesFit
    <2>4. [req[r] EXCEPT !.phase = "handling", !.path = p, !.armed = a, !.measured = m]
            \in RequestType
      BY <2>1, <2>3 DEF RequestType, Phases
    <2> QED
      BY <2>2, <2>4 DEF TypesFit
  <1> QED
    BY <1>2, TypesKept DEF Begin, CountsAtMost, others

\* FastAPI and Hono.
LEMMA WrapTypes ==
  ASSUME TypesFit, NEW r \in Requests, WrapFits(r), NEW s \in Statuses,
         Respond(r, s) \/ Raise(r)
  PROVE  TypesFit'
  <1>1. PICK t \in Statuses : req' = [req EXCEPT ![r] = Answered(r, t)] /\ CountUnlessExempt(r, t)
    BY StatusFacts DEF Respond, Raise
  <1>2. req' \in [Requests -> RequestType]
    <2>1. req[r] \in RequestType
      BY DEF TypesFit
    <2>2. Answered(r, t) \in RequestType
      BY <2>1 DEF RequestType, Answered, Phases
    <2> QED
      BY <1>1, <2>2 DEF TypesFit
  <1>3. ~IsCounted(r)
    BY DEF WrapFits, Respond, Raise
  <1>4. CountsAtMost(r)
    BY <1>1, <1>3, UnlessExemptFacts DEF CountsAtMost, CountedNow
  <1> QED
    BY <1>2, <1>4, TypesKept DEF Respond, Raise

\* Express and Next: the handler sets the status, sends the headers and ends the response.
\* Only the status, the events and what was sent change, and what is odd.
LEMMA HandlerTypes ==
  ASSUME TypesFit, NEW r \in Requests, EventFits(r), NEW s \in Statuses,
         SetStatus(r, s) \/ SendHead(r) \/ EndResponse(r)
  PROVE  TypesFit'
  <1>1. req[r] \in RequestType
    BY DEF TypesFit
  <1>2. req[r].status \in Statuses
    BY DEF EventFits, SetStatus, SendHead, EndResponse
  <1>3. CASE SetStatus(r, s)
    <2> DEFINE d == IF HeadSent(r) THEN req[r].odd \cup {"overwritten"} ELSE req[r].odd
    <2>1. req' = [req EXCEPT ![r] = [@ EXCEPT !.status = s, !.odd = d]]
      BY <1>3 DEF SetStatus
    <2>2. d \in SUBSET Oddities
      BY RequestFields DEF Oddities
    <2> HIDE DEF d
    <2>3. [req[r] EXCEPT !.status = s, !.odd = d] \in RequestType
      BY <1>1, <2>2 DEF RequestType
    <2>4. req' \in [Requests -> RequestType]
      BY <2>1, <2>3 DEF TypesFit
    <2> QED
      BY <1>3, <2>4, TypesKept DEF SetStatus, CountsAtMost
  <1>4. CASE SendHead(r) \/ EndResponse(r)
    <2>1. PICK h \in SUBSET (Events \cup {"head", "end"}), n \in Statuses \cup {0} :
            req' = [req EXCEPT ![r] = [@ EXCEPT !.happened = h, !.sent = n]]
      <3>1. CASE SendHead(r)
        <4> DEFINE h == req[r].happened \cup {"head"}
                   n == Reached(r)
        <4>1. req' = [req EXCEPT ![r] = [@ EXCEPT !.happened = h, !.sent = n]]
          BY <3>1 DEF SendHead
        <4>2. h \in SUBSET (Events \cup {"head", "end"}) /\ n \in Statuses \cup {0}
          BY <1>2, RequestFields DEF Reached
        <4> HIDE DEF h, n
        <4> QED
          BY <4>1, <4>2
      <3>2. CASE EndResponse(r)
        <4> DEFINE h == req[r].happened \cup {"end"}
                   n == IF HeadSent(r) THEN req[r].sent ELSE Reached(r)
        <4>1. req' = [req EXCEPT ![r] = [@ EXCEPT !.happened = h, !.sent = n]]
          BY <3>2 DEF EndResponse
        <4>2. h \in SUBSET (Events \cup {"head", "end"}) /\ n \in Statuses \cup {0}
          BY <1>2, RequestFields DEF Reached
        <4> HIDE DEF h, n
        <4> QED
          BY <4>1, <4>2
      <3> QED
        BY <1>4, <3>1, <3>2
    <2>2. [req[r] EXCEPT !.happened = h, !.sent = n] \in RequestType
      BY <1>1 DEF RequestType
    <2>3. req' \in [Requests -> RequestType]
      BY <2>1, <2>2 DEF TypesFit
    <2> QED
      BY <1>4, <2>3, TypesKept DEF SendHead, EndResponse, CountsAtMost
  <1> QED
    BY <1>3, <1>4

\* Express and Next: an event.
LEMMA EventTypes ==
  ASSUME TypesFit, NEW r \in Requests, EventFits(r), NEW e \in Events, Emit(r, e)
  PROVE  TypesFit'
  <1>1. req' \in [Requests -> RequestType]
    <2> DEFINE h == req[r].happened \cup {e}
               a == Disarmed(req[r].armed, e)
    <2>1. h \in SUBSET (Events \cup {"head", "end"}) /\ a \in SUBSET ({1} \X Events)
      BY RequestFields DEF Disarmed
    <2>2. req' = [req EXCEPT ![r] = [@ EXCEPT !.happened = h, !.armed = a]]
      BY DEF Emit
    <2> HIDE DEF h, a
    <2>3. req[r] \in RequestType
      BY DEF TypesFit
    <2>4. [req[r] EXCEPT !.happened = h, !.armed = a] \in RequestType
      BY <2>1, <2>3 DEF RequestType
    <2> QED
      BY <2>2, <2>4 DEF TypesFit
  <1>2. CountsAtMost(r)
    BY EmitFacts DEF CountsAtMost, CountedNow
  <1> QED
    BY <1>1, <1>2, TypesKept DEF Emit

\* A request with some of its fields replaced is a request.
LEMMA FieldsReplaced ==
  ASSUME NEW q \in RequestType
  PROVE  /\ \A s \in Statuses \cup {103}, m \in BOOLEAN, d \in SUBSET Oddities :
              [q EXCEPT !.status = s, !.marked = m, !.odd = d] \in RequestType
         /\ \A x \in Phases : [q EXCEPT !.phase = x, !.erroring = TRUE] \in RequestType
         /\ \A x \in Phases, n \in Statuses \cup {0} :
              [q EXCEPT !.phase = x, !.sent = n] \in RequestType
         /\ \A x \in Phases, n \in Statuses \cup {0}, d \in SUBSET Oddities :
              [q EXCEPT !.phase = x, !.sent = n, !.odd = d] \in RequestType
         /\ \A x \in Phases, m \in BOOLEAN : [q EXCEPT !.phase = x, !.marked = m] \in RequestType
         /\ \A x \in Phases, s \in Statuses : [q EXCEPT !.phase = x, !.status = s] \in RequestType
         /\ \A x \in Phases : [q EXCEPT !.phase = x] \in RequestType
  <1>1. ASSUME NEW s \in Statuses \cup {103}, NEW m \in BOOLEAN, NEW d \in SUBSET Oddities
        PROVE  [q EXCEPT !.status = s, !.marked = m, !.odd = d] \in RequestType
    BY ZenonT(40) DEF RequestType
  <1>2. ASSUME NEW x \in Phases, NEW n \in Statuses \cup {0}
        PROVE  [q EXCEPT !.phase = x, !.sent = n] \in RequestType
    BY DEF RequestType
  <1>3. ASSUME NEW x \in Phases, NEW n \in Statuses \cup {0}, NEW d \in SUBSET Oddities
        PROVE  [q EXCEPT !.phase = x, !.sent = n, !.odd = d] \in RequestType
    BY DEF RequestType
  <1>4. ASSUME NEW x \in Phases, NEW m \in BOOLEAN
        PROVE  [q EXCEPT !.phase = x, !.marked = m] \in RequestType
    BY DEF RequestType
  <1>5. ASSUME NEW x \in Phases, NEW s \in Statuses
        PROVE  [q EXCEPT !.phase = x, !.status = s] \in RequestType
    BY DEF RequestType
  <1>6. ASSUME NEW x \in Phases
        PROVE  /\ [q EXCEPT !.phase = x] \in RequestType
               /\ [q EXCEPT !.phase = x, !.erroring = TRUE] \in RequestType
    BY ZenonT(40) DEF RequestType
  <1> QED
    BY <1>1, <1>2, <1>3, <1>4, <1>5, <1>6, Zenon

\* The status of an exception no handler takes, kept folded in the proofs.
ServerError(s) == s = 500

\* An exception no handler takes: the request is counted now, or is exempt, was counted
\* before or is not heard of; then it fails late or is over.
LEMMA UnhandledFacts ==
  ASSUME TypesFit, NEW r \in Requests, FlaskFits(r), lane = "flask", NEW o \in SUBSET Oddities,
         NEW s \in Statuses, ServerError(s), Unhandled(r, o)
  PROVE  /\ req' \in [Requests -> RequestType]
         /\ req' = [req EXCEPT ![r] = req'[r]]
         /\ req'[r].path = req[r].path /\ req'[r].happened = req[r].happened
         /\ req'[r].status \in Statuses /\ o \subseteq req'[r].odd
         /\ req[r].odd \subseteq req'[r].odd
         /\ \/ req'[r].phase = "late" /\ req'[r].sent = req[r].sent
            \/ /\ req'[r].phase = "done" /\ req'[r].sent = req'[r].status
               /\ "propagated" \in req'[r].odd
         /\ \/ counted' = counted /\ req'[r].marked = req[r].marked
            \/ /\ ~IsCounted(r) /\ ~Exempt(r) /\ req'[r].marked = TRUE
               /\ CountedNow(r, Label(lane, req[r].path), s)
               /\ req'[r].status = s \/ "handled" \in req'[r].odd
  <1> DEFINE counts == listening /\ ~Exempt(r) /\ NotYetRecorded(r)
             m == req[r].marked \/ counts
             d == req[r].odd \cup o
             q == [req[r] EXCEPT !.marked = m, !.odd = d]
             Odd(u) == IF counts /\ u # s THEN d \cup {"handled"} ELSE d
             Late(u) == [q EXCEPT !.phase = "late", !.erroring = TRUE, !.status = u,
                                  !.odd = Odd(u)]
             over == [q EXCEPT !.phase = "done", !.status = s, !.sent = s,
                               !.odd = d \cup {"propagated"}]
  <1>1. m \in BOOLEAN /\ d \in SUBSET Oddities
    BY RequestFields
  <1>2. \/ counted' = counted /\ m = req[r].marked
        \/ /\ ~IsCounted(r) /\ ~Exempt(r) /\ m = TRUE /\ counts
           /\ CountedNow(r, Label(lane, req[r].path), s)
    <2>1. CASE counts
      <3>1. ~IsCounted(r) /\ ~Exempt(r) /\ s \in Statuses \cup {103}
        BY <2>1 DEF FlaskFits, NotYetRecorded
      <3>2. Count(r, s)
        BY <2>1 DEF Unhandled, ServerError
      <3>3. m = TRUE
        BY <2>1
      <3>4. CountedNow(r, Label(lane, req[r].path), s)
        BY <3>1, <3>2, CountFacts
      <3> HIDE DEF counts, m
      <3> QED
        BY <2>1, <3>1, <3>3, <3>4
    <2>2. CASE ~counts
      <3>1. counted' = counted
        BY <2>2 DEF Unhandled
      <3>2. m = req[r].marked
        BY <2>2, RequestFields, Zenon
      <3> QED
        BY <3>1, <3>2
    <2> QED
      BY <2>1, <2>2
  <1>q. /\ q \in RequestType /\ q.path = req[r].path /\ q.happened = req[r].happened
        /\ q.odd = d /\ q.sent = req[r].sent /\ q.marked = m
    <2> HIDE DEF m, d
    <2>1. req[r] \in RequestType
      BY DEF TypesFit
    <2>2. q \in RequestType
      BY <1>1, <2>1 DEF RequestType
    <2> QED
      BY <2>1, <2>2 DEF RequestType
  <1>3. (\E u \in Statuses : req' = [req EXCEPT ![r] = Late(u)]) \/ req' = [req EXCEPT ![r] = over]
    <2>1. s = 500
      BY DEF ServerError
    <2>2. q.odd = d
      BY <1>q
    <2>3. \/ \E u \in Statuses :
               req' = [req EXCEPT ![r] = [q EXCEPT
                         !.phase = "late", !.erroring = TRUE, !.status = u,
                         !.odd = IF counts /\ u # 500 THEN q.odd \cup {"handled"} ELSE q.odd]]
          \/ req' = [req EXCEPT ![r] = [q EXCEPT !.phase = "done", !.status = 500, !.sent = 500,
                                                 !.odd = q.odd \cup {"propagated"}]]
      BY DEF Unhandled
    <2> HIDE DEF d, q, counts
    <2>4. [q EXCEPT !.phase = "done", !.status = 500, !.sent = 500,
                    !.odd = q.odd \cup {"propagated"}] = over
      BY <2>1, <2>2
    <2> HIDE DEF Late, over
    <2>5. CASE req' = [req EXCEPT ![r] = [q EXCEPT !.phase = "done", !.status = 500, !.sent = 500,
                                                  !.odd = q.odd \cup {"propagated"}]]
      BY <2>4, <2>5
    <2>6. ASSUME NEW u \in Statuses,
                 req' = [req EXCEPT ![r] = [q EXCEPT
                           !.phase = "late", !.erroring = TRUE, !.status = u,
                           !.odd = IF counts /\ u # 500 THEN q.odd \cup {"handled"} ELSE q.odd]]
          PROVE  \E x \in Statuses : req' = [req EXCEPT ![r] = Late(x)]
      <3> DEFINE odd == IF counts /\ u # 500 THEN q.odd \cup {"handled"} ELSE q.odd
      <3>1. odd = Odd(u)
        BY <2>1, <2>2
      <3>2. req' = [req EXCEPT ![r] = [q EXCEPT !.phase = "late", !.erroring = TRUE,
                                                !.status = u, !.odd = odd]]
        BY <2>6
      <3> HIDE DEF odd, Odd
      <3>3. req' = [req EXCEPT ![r] = Late(u)]
        BY <3>1, <3>2 DEF Late
      <3> QED
        BY <3>3
    <2> QED
      BY <2>3, <2>5, <2>6
  <1>4. /\ o \subseteq d /\ req[r].odd \subseteq d
        /\ o \subseteq d \cup {"propagated"} /\ req[r].odd \subseteq d \cup {"propagated"}
        /\ "propagated" \in d \cup {"propagated"}
    OBVIOUS
  <1>5. ASSUME NEW u \in Statuses
        PROVE  /\ Odd(u) \in SUBSET Oddities /\ d \subseteq Odd(u)
               /\ counts => u = s \/ "handled" \in Odd(u)
    BY <1>1 DEF Oddities
  <1>6. d \cup {"propagated"} \in SUBSET Oddities /\ "late" \in Phases /\ "done" \in Phases
    BY <1>1 DEF Oddities, Phases
  <1> HIDE DEF m, counts, d, q, Odd
  <1>7. ASSUME NEW u \in Statuses, req' = [req EXCEPT ![r] = Late(u)]
        PROVE  /\ req' \in [Requests -> RequestType] /\ req' = [req EXCEPT ![r] = req'[r]]
               /\ req'[r].path = req[r].path /\ req'[r].happened = req[r].happened
               /\ req'[r].status = u /\ req'[r].odd = Odd(u) /\ req'[r].phase = "late"
               /\ req'[r].sent = req[r].sent /\ req'[r].marked = m
    <2>1. Late(u) \in RequestType
      BY <1>q, <1>5, <1>6 DEF RequestType
    <2>2. /\ Late(u).path = req[r].path /\ Late(u).happened = req[r].happened
          /\ Late(u).status = u /\ Late(u).odd = Odd(u) /\ Late(u).phase = "late"
          /\ Late(u).sent = req[r].sent /\ Late(u).marked = m
      BY <1>q DEF RequestType
    <2> HIDE DEF Late
    <2>3. req'[r] = Late(u) /\ req' \in [Requests -> RequestType]
      BY <1>7, <2>1 DEF TypesFit
    <2> QED
      BY <1>7, <2>2, <2>3
  <1>8. ASSUME req' = [req EXCEPT ![r] = over]
        PROVE  /\ req' \in [Requests -> RequestType] /\ req' = [req EXCEPT ![r] = req'[r]]
               /\ req'[r].path = req[r].path /\ req'[r].happened = req[r].happened
               /\ req'[r].status = s /\ req'[r].odd = d \cup {"propagated"}
               /\ req'[r].phase = "done" /\ req'[r].sent = s /\ req'[r].marked = m
    <2>1. over \in RequestType
      BY <1>q, <1>6 DEF RequestType
    <2>2. /\ over.path = req[r].path /\ over.happened = req[r].happened
          /\ over.status = s /\ over.odd = d \cup {"propagated"} /\ over.phase = "done"
          /\ over.sent = s /\ over.marked = m
      BY <1>q DEF RequestType
    <2> HIDE DEF over
    <2>3. req'[r] = over /\ req' \in [Requests -> RequestType]
      BY <1>8, <2>1 DEF TypesFit
    <2> QED
      BY <1>8, <2>2, <2>3
  <1> HIDE DEF Late, over
  <1>9. ASSUME NEW u \in Statuses, req' = [req EXCEPT ![r] = Late(u)]
        PROVE  /\ req'[r].status \in Statuses /\ o \subseteq req'[r].odd
               /\ req[r].odd \subseteq req'[r].odd
               /\ counts => req'[r].status = s \/ "handled" \in req'[r].odd
    <2>1. req'[r].status = u /\ req'[r].odd = Odd(u)
      BY <1>7, <1>9
    <2>2. d \subseteq Odd(u) /\ (counts => u = s \/ "handled" \in Odd(u))
      BY <1>5
    <2> QED
      BY <1>4, <2>1, <2>2
  <1>10. ASSUME NEW u \in Statuses, req' = [req EXCEPT ![r] = Late(u)]
         PROVE  req'[r].phase = "late" /\ req'[r].sent = req[r].sent /\ req'[r].marked = m
    BY <1>7, <1>10
  <1>11. CASE \E u \in Statuses : req' = [req EXCEPT ![r] = Late(u)]
    <2>1. PICK u \in Statuses : req' = [req EXCEPT ![r] = Late(u)]
      BY <1>11
    <2> QED
      BY <1>2, <1>7, <1>9, <1>10, <2>1
  <1>12. CASE req' = [req EXCEPT ![r] = over]
    BY <1>2, <1>4, <1>8, <1>12
  <1> QED
    BY <1>3, <1>11, <1>12

\* Flask.
LEMMA FlaskTypes ==
  ASSUME TypesFit, NEW r \in Requests, FlaskFits(r), NEW s \in Statuses,
         \/ ViewReturns(r, s) \/ ViewRaises(r) \/ HookPasses(r) \/ HookReplaces(r, s)
         \/ HookRaises(r) \/ After(r)
  PROVE  TypesFit'
  <1>0. req[r] \in RequestType /\ lane = "flask" /\ Phases = {"idle", "handling", "late", "ours", "early", "done"}
    BY DEF TypesFit, ViewReturns, ViewRaises, HookPasses, HookReplaces, HookRaises, After, Phases
  <1>1. CASE ViewReturns(r, s)
    <2>1. req' = [req EXCEPT ![r] = [@ EXCEPT !.phase = "late", !.status = s]]
      BY <1>1 DEF ViewReturns
    <2>2. [req[r] EXCEPT !.phase = "late", !.status = s] \in RequestType
      BY <1>0, FieldsReplaced, Zenon
    <2>3. req' \in [Requests -> RequestType]
      BY <2>1, <2>2 DEF TypesFit
    <2> QED
      BY <1>1, <2>3, TypesKept DEF ViewReturns, CountsAtMost
  <1>2. ASSUME NEW o \in SUBSET Oddities, Unhandled(r, o), UNCHANGED others
        PROVE  TypesFit'
    <2>0. PICK t \in Statuses : ServerError(t)
      BY StatusFacts DEF ServerError
    <2>1. req' \in [Requests -> RequestType]
      BY <1>0, <1>2, <2>0, UnhandledFacts, Zenon
    <2>2. counted' = counted \/ CountedNow(r, Label(lane, req[r].path), t)
      BY <1>0, <1>2, <2>0, UnhandledFacts
    <2>3. CountsAtMost(r)
      BY <2>2, Zenon DEF CountsAtMost, CountedNow
    <2> QED
      BY <1>2, <2>1, <2>3, TypesKept
  <1>3. {} \in SUBSET Oddities /\ {"hook"} \in SUBSET Oddities
    BY DEF Oddities
  <1>4. CASE ViewRaises(r)
    BY <1>2, <1>3, <1>4 DEF ViewRaises
  <1>5. SendResponse(req[r]) \in RequestType
    <2>1. req[r].status \in Statuses \cup {0} /\ "done" \in Phases
      BY <1>0 DEF FlaskFits
    <2> QED
      BY <1>0, <2>1, FieldsReplaced, Zenon DEF SendResponse
  <1>6. CASE HookPasses(r)
    <2>1. [req[r] EXCEPT !.phase = "ours"] \in RequestType
      BY <1>0, FieldsReplaced, Zenon
    <2>2. req' \in [Requests -> RequestType]
      BY <1>5, <1>6, <2>1 DEF TypesFit, HookPasses
    <2> QED
      BY <1>6, <2>2, TypesKept DEF HookPasses, CountsAtMost
  <1>7. CASE HookRaises(r)
    <2>1. CASE req[r].erroring
      <3> DEFINE d == SendResponse(req[r]).odd \cup {"hook"}
      <3>1. d \in SUBSET Oddities
        BY <1>3, <1>5 DEF RequestType
      <3>2. req' = [req EXCEPT ![r] = [SendResponse(req[r]) EXCEPT !.odd = d]]
        BY <1>7, <2>1 DEF HookRaises
      <3> HIDE DEF d
      <3>3. [SendResponse(req[r]) EXCEPT !.odd = d] \in RequestType
        BY <1>5, <3>1 DEF RequestType
      <3>4. req' \in [Requests -> RequestType]
        BY <3>2, <3>3 DEF TypesFit
      <3> QED
        BY <1>7, <2>1, <3>4, TypesKept DEF HookRaises, CountsAtMost
    <2> QED
      BY <1>2, <1>3, <1>7, <2>1 DEF HookRaises
  <1>8. CASE After(r)
    <2> DEFINE counts == ~Exempt(r) /\ NotYetRecorded(r)
               m == req[r].marked \/ counts
    <2>1. req' = [req EXCEPT ![r] = [@ EXCEPT !.phase = "early", !.marked = m]]
      BY <1>8 DEF After
    <2>2. m \in BOOLEAN
      BY RequestFields
    <2>3. CountsAtMost(r)
      <3>1. CASE counts
        <4>1. ~IsCounted(r) /\ Count(r, req[r].status)
          BY <1>8, <3>1 DEF After, FlaskFits, NotYetRecorded
        <4> QED
          BY <4>1, RequestFields, CountFacts DEF CountsAtMost, CountedNow
      <3> QED
        BY <1>8, <3>1 DEF After, CountsAtMost
    <2> HIDE DEF m, counts
    <2>4. [req[r] EXCEPT !.phase = "early", !.marked = m] \in RequestType
      BY <1>0, <2>2, FieldsReplaced, Zenon
    <2>5. req' \in [Requests -> RequestType]
      BY <2>1, <2>4 DEF TypesFit
    <2> QED
      BY <1>8, <2>3, <2>5, TypesKept DEF After
  <1>9. CASE HookReplaces(r, s)
    <2> DEFINE d == IF req[r].marked THEN req[r].odd \cup {"replaced"} ELSE req[r].odd
    <2>1. req' = [req EXCEPT ![r] = [@ EXCEPT !.status = s, !.odd = d]]
      BY <1>9 DEF HookReplaces
    <2>2. d \in SUBSET Oddities
      BY RequestFields DEF Oddities
    <2> HIDE DEF d
    <2>3. [req[r] EXCEPT !.status = s, !.odd = d] \in RequestType
      BY <1>0, <2>2 DEF RequestType
    <2>4. req' \in [Requests -> RequestType]
      BY <2>1, <2>3 DEF TypesFit
    <2> QED
      BY <1>9, <2>4, TypesKept DEF HookReplaces, CountsAtMost
  <1> QED
    BY <1>1, <1>4, <1>6, <1>7, <1>8, <1>9

\* net/http sends the first final status.
LEMMA SentFacts ==
  ASSUME TypesFit, NEW r \in Requests
  PROVE  /\ \A s \in Statuses \cup {103} : SentAfter(req[r], s) \in Statuses \cup {0}
         /\ SentAfter(req[r], 200) \in Statuses /\ SentAfter(req[r], 500) \in Statuses
         /\ \A s \in Statuses : SentAfter(req[r], s) = IF req[r].sent = 0 THEN s ELSE req[r].sent
         /\ SentAfter(req[r], 103) = req[r].sent
  <1>1. /\ req[r].sent \in Statuses \cup {0}
        /\ \A s \in Statuses : s >= 200
        /\ 200 \in Statuses /\ 500 \in Statuses /\ ~(103 >= 200)
    BY RequestFields, StatusFacts
  <1>2. \A s \in Statuses : SentAfter(req[r], s) = IF req[r].sent = 0 THEN s ELSE req[r].sent
    BY <1>1 DEF SentAfter
  <1>3. SentAfter(req[r], 103) = req[r].sent
    BY <1>1 DEF SentAfter
  <1>4. \A s \in Statuses : SentAfter(req[r], s) \in Statuses
    BY <1>1, <1>2
  <1> QED
    BY <1>1, <1>2, <1>3, <1>4

\* Go.
LEMMA GoTypes ==
  ASSUME TypesFit, NEW r \in Requests, GoFits(r), NEW s \in Statuses \cup {103},
         WriteHeader(r, s) \/ Write(r) \/ Flush(r) \/ Return(r) \/ Panic(r)
  PROVE  TypesFit'
  <1>1. req[r] \in RequestType
    BY DEF TypesFit
  <1>2. CASE WriteHeader(r, s)
    <2> DEFINE c == IF req[r].written THEN req[r].status ELSE s
               n == SentAfter(req[r], s)
               d == IF s < 200 THEN req[r].odd \cup {"informational"} ELSE req[r].odd
    <2>1. req' = [req EXCEPT ![r] = [req[r] EXCEPT !.status = c, !.written = TRUE, !.sent = n,
                                                   !.odd = d]]
      BY <1>2 DEF WriteHeader
    <2>2. c \in Statuses \cup {103} /\ n \in Statuses \cup {0} /\ d \in SUBSET Oddities
      BY RequestFields, SentFacts DEF Oddities
    <2> HIDE DEF c, n, d
    <2>3. [req[r] EXCEPT !.status = c, !.written = TRUE, !.sent = n, !.odd = d] \in RequestType
      BY <1>1, <2>2, ZenonT(40) DEF RequestType
    <2>4. req' \in [Requests -> RequestType]
      BY <2>1, <2>3 DEF TypesFit
    <2> QED
      BY <1>2, <2>4, TypesKept DEF WriteHeader, CountsAtMost
  <1>3. CASE Write(r)
    <2> DEFINE n == SentAfter(req[r], 200)
    <2>1. req' = [req EXCEPT ![r] = [req[r] EXCEPT !.written = TRUE, !.sent = n]]
      BY <1>3 DEF Write
    <2>2. n \in Statuses \cup {0}
      BY SentFacts
    <2> HIDE DEF n
    <2>3. [req[r] EXCEPT !.written = TRUE, !.sent = n] \in RequestType
      BY <1>1, <2>2 DEF RequestType
    <2>4. req' \in [Requests -> RequestType]
      BY <2>1, <2>3 DEF TypesFit
    <2> QED
      BY <1>3, <2>4, TypesKept DEF Write, CountsAtMost
  <1>4. CASE Flush(r)
    <2> DEFINE n == SentAfter(req[r], 200)
               d == IF req[r].written THEN req[r].odd ELSE req[r].odd \cup {"flushed"}
    <2>1. req' = [req EXCEPT ![r] = [req[r] EXCEPT !.sent = n, !.odd = d]]
      BY <1>4 DEF Flush
    <2>2. n \in Statuses \cup {0} /\ d \in SUBSET Oddities
      BY SentFacts, RequestFields DEF Oddities
    <2> HIDE DEF n, d
    <2>3. [req[r] EXCEPT !.sent = n, !.odd = d] \in RequestType
      BY <1>1, <2>2 DEF RequestType
    <2>4. req' \in [Requests -> RequestType]
      BY <2>1, <2>3 DEF TypesFit
    <2> QED
      BY <1>4, <2>4, TypesKept DEF Flush, CountsAtMost
  <1>5. CASE Return(r) \/ Panic(r)
    <2>1. PICK t \in Statuses : req' = [req EXCEPT ![r] = Ended(req[r], t)]
      BY <1>5, StatusFacts DEF Return, Panic
    <2> DEFINE n == SentAfter(req[r], t)
    <2>0. n \in Statuses \cup {0}
      BY SentFacts
    <2> HIDE DEF n
    <2>2. [req[r] EXCEPT !.phase = "done", !.sent = n] \in RequestType
      BY <1>1, <2>0 DEF RequestType, Phases
    <2>3. req' \in [Requests -> RequestType]
      BY <2>1, <2>2 DEF TypesFit, Ended, n
    <2>4. PICK c \in Statuses \cup {103} : CountUnlessExempt(r, c)
      BY <1>5, RequestFields, StatusFacts DEF Return, Panic, PanicStatus
    <2>5. ~IsCounted(r)
      BY <1>5 DEF GoFits, Return, Panic
    <2>6. CountsAtMost(r)
      BY <2>4, <2>5, UnlessExemptFacts DEF CountsAtMost, CountedNow
    <2> QED
      BY <1>5, <2>3, <2>6, TypesKept DEF Return, Panic
  <1> QED
    BY <1>2, <1>3, <1>4, <1>5

\* What is sent past the recorder: by Go's handler, or by what wraps the application.
LEMMA PastTypes ==
  ASSUME TypesFit, NEW r \in Requests, NEW s \in Statuses, Hijack(r, s) \/ Replace(r, s)
  PROVE  TypesFit'
  <1>1. PICK n \in Statuses \cup {0}, d \in SUBSET Oddities :
          req' = [req EXCEPT ![r] = [@ EXCEPT !.sent = n, !.odd = d]]
    <2>1. CASE Hijack(r, s)
      <3> DEFINE n == SentAfter(req[r], s)
                 d == req[r].odd \cup {"hijacked"}
      <3>1. req' = [req EXCEPT ![r] = [@ EXCEPT !.sent = n, !.odd = d]]
        BY <2>1 DEF Hijack
      <3>2. n \in Statuses \cup {0} /\ d \in SUBSET Oddities
        BY SentFacts, RequestFields DEF Oddities
      <3> HIDE DEF n, d
      <3> QED
        BY <3>1, <3>2
    <2>2. CASE Replace(r, s)
      <3> DEFINE d == req[r].odd \cup {"replaced"}
      <3>1. req' = [req EXCEPT ![r] = [@ EXCEPT !.sent = s, !.odd = d]]
        BY <2>2 DEF Replace
      <3>2. d \in SUBSET Oddities
        BY RequestFields DEF Oddities
      <3> HIDE DEF d
      <3> QED
        BY <3>1, <3>2
    <2> QED
      BY <2>1, <2>2
  <1>2. [req[r] EXCEPT !.sent = n, !.odd = d] \in RequestType
    <2>1. req[r] \in RequestType
      BY DEF TypesFit
    <2> QED
      BY <2>1 DEF RequestType
  <1>3. req' \in [Requests -> RequestType]
    BY <1>1, <1>2 DEF TypesFit
  <1> QED
    BY <1>3, TypesKept DEF Hijack, Replace, CountsAtMost

\* The patch and the signal.
LEMMA PatchTypes ==
  ASSUME TypesFit, Install \/ ClearSentinel \/ Collect \/ UNCHANGED vars
  PROVE  TypesFit'
  <1>1. CASE Install
    <2>1. saved = Unset => live = 0
      BY <1>1 DEF TypesFit, Install, Unset
    <2>2. saved # Unset => saved = 0
      BY <1>1 DEF TypesFit, Install, Unset
    <2>3. live' = 1 /\ saved' = 0
      BY <1>1, <2>1, <2>2 DEF Install, OrigEmit
    <2> QED
      BY <1>1, <2>3 DEF TypesFit, Install
  <1>2. CASE ClearSentinel \/ Collect \/ UNCHANGED vars
    BY <1>2 DEF TypesFit, ClearSentinel, Collect, vars
  <1> QED
    BY <1>1, <1>2

-----------------------------------------------------------------------------
(* What is kept of a request.                                              *)

\* An action on request r touches no other request.
Frame(r) ==
    /\ lane' = lane
    /\ req' = [req EXCEPT ![r] = req'[r]]
    /\ CountsAtMost(r)

\* In Next's lane, no step but an event touches a sample or the routes seen.
Quiet == seen' = seen /\ (lane = "next" => counted' = counted)

\* A request that is not touched fits as it did.
LEMMA Untouched ==
  ASSUME NEW r \in Requests, Fits(r), lane' = lane, req'[r] = req[r], counted'[r] = counted[r]
  PROVE  Fits(r)'
  <1>1. IsCounted(r)' <=> IsCounted(r)
    BY DEF IsCounted
  <1>2. Sample(r)' = Sample(r)
    BY DEF Sample
  <1>3. Exempt(r)' <=> Exempt(r)
    BY DEF Exempt
  <1>4. RequestFits(r)'
    BY <1>1, <1>2, <1>3 DEF Fits, RequestFits
  <1>5. WrapFits(r)'
    BY <1>1, <1>2, <1>3 DEF Fits, WrapFits
  <1>6. EventFits(r)'
    <2>1. HeadSent(r)' <=> HeadSent(r)
      BY DEF HeadSent
    <2> QED
      BY <1>1, <1>2, <1>3, <2>1 DEF Fits, EventFits
  <1>7. FlaskFits(r)'
    BY <1>1, <1>2, <1>3 DEF Fits, FlaskFits
  <1>8. GoFits(r)'
    BY <1>1, <1>2, <1>3 DEF Fits, GoFits
  <1> QED
    BY <1>4, <1>5, <1>6, <1>7, <1>8 DEF Fits

\* The requests an action does not touch.
LEMMA OthersFit ==
  ASSUME TypesFit, NEW r \in Requests, Frame(r), \A x \in Requests : Fits(x), Fits(r)'
  PROVE  \A x \in Requests : Fits(x)'
  <1> TAKE x \in Requests
  <1>1. CASE x = r
    BY <1>1
  <1>2. CASE x # r
    <2>1. req'[x] = req[x]
      BY <1>2 DEF Frame, TypesFit
    <2>2. counted'[x] = counted[x]
      BY <1>2 DEF Frame, TypesFit, CountsAtMost
    <2> QED
      BY <2>1, <2>2, Untouched DEF Frame
  <1> QED
    BY <1>1, <1>2

\* A request arrives.
LEMMA BeginFits ==
  ASSUME TypesFit, NEW r \in Requests, Fits(r), NEW p \in Paths, Begin(r, p)
  PROVE  Fits(r)' /\ Frame(r) /\ Quiet
  <1>1. req[r] = Fresh /\ counted[r] = << >>
    BY DEF Begin, Fits, RequestFits, IsCounted
  <1>2. Frame(r) /\ Quiet
    BY DEF Frame, Quiet, CountsAtMost, Begin, others, TypesFit
  <1>3. /\ req'[r].phase = "handling" /\ req'[r].path = p /\ req'[r].armed = Armed(p)
        /\ req'[r].measured = (live > 0) /\ req'[r].happened = {} /\ req'[r].marked = FALSE
        /\ req'[r].status = 200 /\ req'[r].sent = 0 /\ req'[r].odd = {} /\ req'[r].written = FALSE
    BY <1>1 DEF Begin, TypesFit, Fresh
  <1>4. ~IsCounted(r)' /\ lane' = lane /\ (Exempt(r)' <=> p = MetricsPath)
    BY <1>1, <1>3 DEF Begin, others, IsCounted, Exempt
  <1>5. lane \in {"express", "next"} =>
          /\ Armed(p) \in {{}, {1} \X Events}
          /\ Armed(p) # {} => p # MetricsPath
          /\ live > 0 /\ p # MetricsPath => Armed(p) = {1} \X Events /\ Armed(p) # {}
    <2>1. 1..1 = {1} /\ 1..0 = {}
      OBVIOUS
    <2>2. <<1, "close">> \in {1} \X Events
      BY DEF Events
    <2>3. {} \X Events = {}
      OBVIOUS
    <2>4. live \in {0, 1}
      BY DEF TypesFit
    <2> QED
      BY <2>1, <2>2, <2>3, <2>4 DEF Armed, ListensTo
  <1> HIDE DEF Armed
  <1>6. RequestFits(r)' /\ WrapFits(r)' /\ FlaskFits(r)' /\ GoFits(r)'
    BY <1>3, <1>4, StatusFacts DEF RequestFits, WrapFits, FlaskFits, GoFits
  <1>7. EventFits(r)'
    <2> SUFFICES ASSUME lane \in {"express", "next"}
                 PROVE  EventFits(r)'
      BY <1>4 DEF EventFits
    <2>1. req'[r].armed \in {{}, {1} \X Events} /\ (req'[r].armed # {} => ~Exempt(r)')
      BY <1>3, <1>4, <1>5
    <2>2. req'[r].measured /\ ~Exempt(r)' => req'[r].armed # {}
      BY <1>3, <1>4, <1>5
    <2>3. req'[r].status \in Statuses /\ req'[r].happened \cap Events = {}
      BY <1>3, StatusFacts
    <2> QED
      BY <1>3, <1>4, <2>1, <2>2, <2>3, Zenon DEF EventFits, Events
  <1> QED
    BY <1>2, <1>6, <1>7 DEF Fits

\* FastAPI and Hono count in the step that ends the request.
LEMMA WrapStep ==
  ASSUME TypesFit, NEW r \in Requests, Fits(r), NEW s \in Statuses, Respond(r, s) \/ Raise(r)
  PROVE  Fits(r)' /\ Frame(r) /\ Quiet
  <1>1. PICK t \in Statuses : req' = [req EXCEPT ![r] = Answered(r, t)] /\ CountUnlessExempt(r, t)
    BY StatusFacts DEF Respond, Raise
  <1>2. /\ lane \in {"fastapi", "hono"} /\ lane' = lane /\ seen' = seen
        /\ req[r].phase = "handling" /\ ~IsCounted(r)
    BY DEF Respond, Raise, others, Fits, WrapFits
  <1>3. /\ req'[r].phase = "done" /\ req'[r].status = t /\ req'[r].sent = t
        /\ req'[r].path = req[r].path /\ req'[r].happened = req[r].happened
    BY <1>1 DEF TypesFit, RequestType, Answered
  <1>4. \/ Exempt(r) /\ counted' = counted
        \/ ~Exempt(r) /\ CountedNow(r, Label(lane, req[r].path), t)
    BY <1>1, <1>2, UnlessExemptFacts
  <1>5. /\ Exempt(r)' <=> Exempt(r)
        /\ IsCounted(r)' <=> ~Exempt(r)
        /\ IsCounted(r)' => /\ Sample(r)'.route = Label(lane, req[r].path)
                            /\ Sample(r)'.class = StatusBucket(t)
    BY <1>2, <1>3, <1>4 DEF Exempt, IsCounted, Sample, CountedNow
  <1>6. Frame(r) /\ Quiet
    BY <1>1, <1>2, <1>4 DEF Frame, Quiet, CountsAtMost, CountedNow, TypesFit
  <1>7. RequestFits(r)'
    BY <1>2, <1>3, <1>5 DEF Fits, RequestFits
  <1>8. WrapFits(r)' /\ EventFits(r)' /\ FlaskFits(r)' /\ GoFits(r)'
    BY <1>2, <1>3, <1>5 DEF WrapFits, EventFits, FlaskFits, GoFits
  <1> QED
    BY <1>6, <1>7, <1>8 DEF Fits

\* What happened to a request, with one thing more.
HappenedWith(r, x) == req'[r].happened = req[r].happened \cup {x}

\* Express and Next: what the handler does between the events.
LEMMA HandlerStep ==
  ASSUME TypesFit, NEW r \in Requests, Fits(r), NEW s \in Statuses,
         SetStatus(r, s) \/ SendHead(r) \/ EndResponse(r)
  PROVE  Fits(r)' /\ Frame(r) /\ Quiet
  <1>1. /\ lane \in {"express", "next"} /\ lane' = lane /\ req[r].phase = "handling"
        /\ RequestFits(r) /\ EventFits(r) /\ counted' = counted /\ seen' = seen
        /\ req[r] \in RequestType
    BY DEF SetStatus, SendHead, EndResponse, others, Fits, TypesFit
  <1>2. WrapFits(r)' /\ FlaskFits(r)' /\ GoFits(r)'
    BY <1>1 DEF WrapFits, FlaskFits, GoFits
  <1>3. ASSUME req'[r].phase = "handling", req'[r].path = req[r].path,
               req'[r].armed = req[r].armed,
               req'[r].measured = req[r].measured, req' = [req EXCEPT ![r] = req'[r]],
               EventFits(r)'
        PROVE  Fits(r)' /\ Frame(r) /\ Quiet
    <2>1. /\ IsCounted(r)' <=> IsCounted(r)
          /\ Sample(r)' = Sample(r) /\ (Exempt(r)' <=> Exempt(r))
      BY <1>1, <1>3 DEF IsCounted, Sample, Exempt
    <2>2. RequestFits(r)'
      BY <1>1, <1>3, <2>1 DEF RequestFits
    <2> QED
      BY <1>1, <1>2, <1>3, <2>2 DEF Fits, Frame, Quiet, CountsAtMost
  <1>4. CASE SetStatus(r, s)
    <2> DEFINE d == IF HeadSent(r) THEN req[r].odd \cup {"overwritten"} ELSE req[r].odd
    <2>0. req'[r] = [req[r] EXCEPT !.status = s, !.odd = d] /\ req' = [req EXCEPT ![r] = req'[r]]
      BY <1>4 DEF SetStatus, TypesFit
    <2>2. HeadSent(r) => "overwritten" \in d
      OBVIOUS
    <2>3. ~HeadSent(r) => req[r].sent = 0
      BY <1>1 DEF EventFits
    <2> HIDE DEF d
    <2>1. /\ req'[r].phase = "handling" /\ req'[r].path = req[r].path /\ req'[r].status = s
          /\ req'[r].sent = req[r].sent /\ req'[r].armed = req[r].armed
          /\ req'[r].happened = req[r].happened /\ req'[r].measured = req[r].measured
          /\ req'[r].odd = d
      BY <1>1, <2>0 DEF RequestType
    <2>4. /\ IsCounted(r)' <=> IsCounted(r)
          /\ Sample(r)' = Sample(r) /\ (Exempt(r)' <=> Exempt(r))
          /\ HeadSent(r)' <=> HeadSent(r)
      BY <1>1, <2>1 DEF IsCounted, Sample, Exempt, HeadSent
    <2>5. "overwritten" \notin req'[r].odd => req'[r].sent = 0
      BY <2>1, <2>2, <2>3
    <2>6. EventFits(r)'
      BY <1>1, <2>1, <2>3, <2>4, <2>5 DEF EventFits
    <2> QED
      BY <1>3, <2>0, <2>1, <2>6
  <1>5. ASSUME NEW x \in {"head", "end"}, HappenedWith(r, x), ~HeadSent(r),
               req'[r].sent = Reached(r), req'[r].phase = "handling",
               req'[r].path = req[r].path, req'[r].status = req[r].status,
               req'[r].armed = req[r].armed, req'[r].measured = req[r].measured,
               req'[r].odd = req[r].odd
        PROVE  EventFits(r)'
    <2>1. /\ IsCounted(r)' <=> IsCounted(r)
          /\ Sample(r)' = Sample(r) /\ (Exempt(r)' <=> Exempt(r))
      BY <1>1, <1>5 DEF IsCounted, Sample, Exempt
    <2>2. /\ req'[r].happened \cap Events = req[r].happened \cap Events
          /\ "finish" \notin req[r].happened /\ "finish" \notin req'[r].happened
          /\ HeadSent(r)'
      BY <1>1, <1>5 DEF HappenedWith, HeadSent, EventFits, Events
    <2>3. IsCounted(r) => req'[r].sent = 0
      BY <1>1, <1>5, <2>2 DEF EventFits, Events, Reached
    <2>4. req'[r].sent # 0 => req'[r].sent = req'[r].status
      BY <1>5 DEF Reached
    <2> QED
      BY <1>1, <1>5, <2>1, <2>2, <2>3, <2>4 DEF EventFits
  <1>6. CASE SendHead(r)
    <2>1. /\ ~HeadSent(r) /\ req' = [req EXCEPT ![r] = req'[r]] /\ HappenedWith(r, "head")
          /\ req'[r].sent = Reached(r)
          /\ req'[r].phase = "handling" /\ req'[r].path = req[r].path
          /\ req'[r].status = req[r].status /\ req'[r].armed = req[r].armed
          /\ req'[r].measured = req[r].measured /\ req'[r].odd = req[r].odd
      BY <1>1, <1>6 DEF SendHead, TypesFit, RequestType, HappenedWith
    <2>2. EventFits(r)'
      BY <1>5, <2>1
    <2> QED
      BY <1>3, <2>1, <2>2
  <1>7. CASE EndResponse(r)
    <2>1. /\ req' = [req EXCEPT ![r] = req'[r]] /\ HappenedWith(r, "end")
          /\ req'[r].sent = IF HeadSent(r) THEN req[r].sent ELSE Reached(r)
          /\ req'[r].phase = "handling" /\ req'[r].path = req[r].path
          /\ req'[r].status = req[r].status /\ req'[r].armed = req[r].armed
          /\ req'[r].measured = req[r].measured /\ req'[r].odd = req[r].odd
      <3> DEFINE h == req[r].happened \cup {"end"}
                 n == IF HeadSent(r) THEN req[r].sent ELSE Reached(r)
      <3>1. /\ req'[r] = [req[r] EXCEPT !.happened = h, !.sent = n]
            /\ req' = [req EXCEPT ![r] = req'[r]]
        BY <1>7 DEF EndResponse, TypesFit
      <3> HIDE DEF h, n
      <3>2. /\ req'[r].happened = h /\ req'[r].sent = n
            /\ req'[r].phase = "handling" /\ req'[r].path = req[r].path
            /\ req'[r].status = req[r].status /\ req'[r].armed = req[r].armed
            /\ req'[r].measured = req[r].measured /\ req'[r].odd = req[r].odd
        BY <1>1, <3>1 DEF RequestType
      <3> QED
        BY <3>1, <3>2 DEF h, n, HappenedWith
    <2>2. CASE ~HeadSent(r)
      <3>1. EventFits(r)'
        BY <1>5, <2>1, <2>2
      <3> QED
        BY <1>3, <2>1, <3>1
    <2>3. CASE HeadSent(r)
      <3>1. /\ IsCounted(r)' <=> IsCounted(r)
            /\ Sample(r)' = Sample(r) /\ (Exempt(r)' <=> Exempt(r))
        BY <1>1, <2>1 DEF IsCounted, Sample, Exempt
      <3>2. /\ req'[r].happened \cap Events = req[r].happened \cap Events
            /\ "end" \in req'[r].happened /\ HeadSent(r)'
        BY <2>1 DEF HappenedWith, HeadSent, Events
      <3>3. EventFits(r)'
        BY <1>1, <2>1, <2>3, <3>1, <3>2 DEF EventFits
      <3> QED
        BY <1>3, <2>1, <3>3
    <2> QED
      BY <2>2, <2>3
  <1> QED
    BY <1>4, <1>6, <1>7

\* Express and Next: an event.
LEMMA EventStep ==
  ASSUME TypesFit, NEW r \in Requests, Fits(r), NEW e \in Events, Emit(r, e)
  PROVE  Fits(r)' /\ Frame(r)
  <1>1. /\ lane \in {"express", "next"} /\ lane' = lane /\ req[r].phase = "handling"
        /\ RequestFits(r) /\ EventFits(r)
    BY DEF Emit, others, Fits
  <1>2. WrapFits(r)' /\ FlaskFits(r)' /\ GoFits(r)'
    BY <1>1 DEF WrapFits, FlaskFits, GoFits
  <1>3. /\ req'[r].phase = "handling" /\ req'[r].path = req[r].path
        /\ req'[r].status = req[r].status /\ req'[r].sent = req[r].sent
        /\ req'[r].odd = req[r].odd
        /\ req'[r].happened = req[r].happened \cup {e}
        /\ req'[r].measured = req[r].measured
        /\ req' = [req EXCEPT ![r] = req'[r]]
    <2> DEFINE h == req[r].happened \cup {e}
               a == Disarmed(req[r].armed, e)
    <2>1. req' = [req EXCEPT ![r].happened = h, ![r].armed = a]
      BY DEF Emit
    <2> HIDE DEF a
    <2>2. req' = [req EXCEPT ![r] = req'[r]]
      BY <2>1 DEF TypesFit
    <2> QED
      BY <1>1, <2>1, <2>2 DEF TypesFit, RequestType
  <1>4. /\ req'[r].armed = {}
        /\ \/ req[r].armed = {} /\ counted' = counted
           \/ /\ req[r].armed # {} /\ ~IsCounted(r) /\ ~Exempt(r)
              /\ CountedNow(r, IF lane = "next" THEN NextRoute(req[r].path, req[r].status)
                                                ELSE Label(lane, req[r].path), req[r].status)
    BY <1>1, EmitFacts
  <1>5. /\ e = "finish" => "end" \in req[r].happened
        /\ (req[r].happened \cup {e}) \cap Events # {} /\ e # "end"
        /\ "end" \in req[r].happened \cup {e} <=> "end" \in req[r].happened
        /\ "finish" \in req[r].happened \cup {e} <=> "finish" \in req[r].happened \/ e = "finish"
    BY DEF Emit, Events
  <1>6. (Exempt(r)' <=> Exempt(r)) /\ (HeadSent(r)' <=> HeadSent(r))
    BY <1>3 DEF Exempt, HeadSent, Events
  <1>7. CASE req[r].armed = {} /\ counted' = counted
    <2>1. (IsCounted(r)' <=> IsCounted(r)) /\ Sample(r)' = Sample(r)
      BY <1>7 DEF IsCounted, Sample
    <2>2. RequestFits(r)'
      BY <1>1, <1>3, <1>6, <2>1 DEF RequestFits
    <2>3. EventFits(r)'
      BY <1>1, <1>3, <1>4, <1>5, <1>6, <1>7, <2>1 DEF EventFits
    <2> QED
      BY <1>1, <1>2, <1>3, <1>7, <2>2, <2>3 DEF Fits, Frame, CountsAtMost
  <1>8. CASE /\ req[r].armed # {} /\ ~IsCounted(r) /\ ~Exempt(r)
             /\ CountedNow(r, IF lane = "next" THEN NextRoute(req[r].path, req[r].status)
                                               ELSE Label(lane, req[r].path), req[r].status)
    <2>1. /\ IsCounted(r)' /\ Sample(r)'.class = StatusBucket(req[r].status)
          /\ lane # "next" => Sample(r)'.route = Label(lane, req[r].path)
          /\ lane = "next" => Sample(r)'.route = NextRoute(req[r].path, req[r].status)
      BY <1>8 DEF IsCounted, Sample, CountedNow
    <2>2. RequestFits(r)'
      BY <1>1, <1>3, <1>6, <1>8, <2>1 DEF RequestFits
    <2>3. req[r].status = 404 => NextRoute(req[r].path, req[r].status) = Unmatched
      BY DEF NextRoute, IsNotFound
    <2>4. EventFits(r)'
      BY <1>1, <1>3, <1>4, <1>5, <1>6, <1>8, <2>1, <2>3 DEF EventFits
    <2>5. CountsAtMost(r)
      BY <1>8 DEF CountsAtMost, CountedNow
    <2> QED
      BY <1>1, <1>2, <1>3, <2>2, <2>4, <2>5 DEF Fits, Frame
  <1> QED
    BY <1>4, <1>7, <1>8

\* Flask: the view, the hooks on either side of ours and our own.
LEMMA FlaskStep ==
  ASSUME TypesFit, NEW r \in Requests, Fits(r), NEW s \in Statuses,
         \/ ViewReturns(r, s) \/ ViewRaises(r) \/ HookPasses(r) \/ HookReplaces(r, s)
         \/ HookRaises(r) \/ After(r)
  PROVE  Fits(r)' /\ Frame(r) /\ Quiet
  <1>1. /\ lane = "flask" /\ lane' = lane /\ seen' = seen
        /\ RequestFits(r) /\ FlaskFits(r) /\ req[r] \in RequestType
    BY DEF ViewReturns, ViewRaises, HookPasses, HookReplaces, HookRaises, After, others, Fits,
           TypesFit
  <1>2. WrapFits(r)' /\ EventFits(r)' /\ GoFits(r)' /\ (CountsAtMost(r) => Quiet)
    BY <1>1 DEF WrapFits, EventFits, GoFits, Quiet
  <1>3. ASSUME counted' = counted, req'[r].path = req[r].path
        PROVE  /\ (IsCounted(r)' <=> IsCounted(r)) /\ Sample(r)' = Sample(r)
               /\ (Exempt(r)' <=> Exempt(r)) /\ CountsAtMost(r)
    BY <1>3 DEF IsCounted, Sample, Exempt, CountsAtMost
  <1>4. ASSUME NEW t, CountedNow(r, Label(lane, req[r].path), t), req'[r].path = req[r].path
        PROVE  /\ IsCounted(r)' /\ Sample(r)'.route = Label(lane, req[r].path)
               /\ Sample(r)'.class = StatusBucket(t)
               /\ (Exempt(r)' <=> Exempt(r)) /\ CountsAtMost(r)
    BY <1>4 DEF IsCounted, Sample, Exempt, CountsAtMost, CountedNow
  <1>5. CASE ViewReturns(r, s)
    <2>1. /\ req'[r].phase = "late" /\ req'[r].path = req[r].path /\ req'[r].status = s
          /\ req'[r].sent = req[r].sent /\ req'[r].marked = req[r].marked
          /\ req'[r].happened = req[r].happened /\ req' = [req EXCEPT ![r] = req'[r]]
      <3>1. req' = [req EXCEPT ![r] = [@ EXCEPT !.phase = "late", !.status = s]]
        BY <1>5 DEF ViewReturns
      <3>2. req'[r] = [req[r] EXCEPT !.phase = "late", !.status = s]
        BY <3>1 DEF TypesFit
      <3> QED
        <4>1. req' = [req EXCEPT ![r] = req'[r]]
          BY <3>1, <3>2
        <4>2. /\ req'[r].phase = "late" /\ req'[r].status = s
              /\ req'[r].path = req[r].path /\ req'[r].sent = req[r].sent
              /\ req'[r].marked = req[r].marked /\ req'[r].happened = req[r].happened
          BY <1>1, <3>2 DEF RequestType
        <4> QED
          BY <4>1, <4>2
    <2>2. counted' = counted /\ req[r].phase = "handling"
      BY <1>5 DEF ViewReturns
    <2>3. RequestFits(r)'
      BY <1>1, <1>3, <2>1, <2>2 DEF RequestFits
    <2>4. FlaskFits(r)'
      BY <1>1, <1>3, <2>1, <2>2 DEF FlaskFits
    <2> QED
      BY <1>1, <1>2, <1>3, <2>1, <2>2, <2>3, <2>4 DEF Fits, Frame
  <1>6. ASSUME NEW o \in SUBSET Oddities, Unhandled(r, o),
               req[r].phase \in {"handling", "late", "early"},
               req[r].phase = "handling" \/ "hook" \in o
        PROVE  Fits(r)' /\ Frame(r) /\ Quiet
    <2>0. PICK t \in Statuses : ServerError(t)
      BY StatusFacts DEF ServerError
    <2>1. /\ req' = [req EXCEPT ![r] = req'[r]]
          /\ req'[r].path = req[r].path /\ req'[r].happened = req[r].happened
          /\ req'[r].status \in Statuses /\ o \subseteq req'[r].odd
          /\ req[r].odd \subseteq req'[r].odd
          /\ \/ req'[r].phase = "late" /\ req'[r].sent = req[r].sent
             \/ /\ req'[r].phase = "done" /\ req'[r].sent = req'[r].status
                /\ "propagated" \in req'[r].odd
      BY <1>1, <1>6, <2>0, UnhandledFacts
    <2>2. \/ counted' = counted /\ req'[r].marked = req[r].marked
          \/ /\ ~IsCounted(r) /\ ~Exempt(r) /\ req'[r].marked = TRUE
             /\ CountedNow(r, Label(lane, req[r].path), t)
             /\ req'[r].status = t \/ "handled" \in req'[r].odd
      BY <1>1, <1>6, <2>0, UnhandledFacts
    <2>3. RequestFits(r)' /\ CountsAtMost(r)
      BY <1>1, <1>3, <1>4, <2>1, <2>2 DEF RequestFits
    <2>4. req[r].sent = 0
      BY <1>1, <1>6 DEF FlaskFits
    <2>5. CASE counted' = counted /\ req'[r].marked = req[r].marked
      <3>1. IsCounted(r) => "hook" \in req'[r].odd
        BY <1>1, <1>6, <2>1 DEF FlaskFits
      <3> QED
        BY <1>1, <1>2, <1>3, <2>1, <2>3, <2>4, <2>5, <3>1 DEF FlaskFits, Fits, Frame
    <2>6. CASE /\ ~IsCounted(r) /\ ~Exempt(r) /\ req'[r].marked = TRUE
               /\ CountedNow(r, Label(lane, req[r].path), t)
               /\ req'[r].status = t \/ "handled" \in req'[r].odd
      BY <1>1, <1>2, <1>4, <2>1, <2>3, <2>4, <2>6 DEF FlaskFits, Fits, Frame
    <2> QED
      BY <2>2, <2>5, <2>6
  <1>7. {} \in SUBSET Oddities /\ {"hook"} \in SUBSET Oddities
    BY DEF Oddities
  <1>8. CASE ViewRaises(r)
    BY <1>6, <1>7, <1>8 DEF ViewRaises
  <1>9. CASE HookPasses(r)
    <2>1. /\ counted' = counted /\ req[r].phase \in {"late", "early"}
          /\ req' = [req EXCEPT ![r] = req'[r]]
      BY <1>9 DEF HookPasses, TypesFit
    <2>2. /\ req'[r].path = req[r].path /\ req'[r].status = req[r].status
          /\ req'[r].marked = req[r].marked /\ req'[r].odd = req[r].odd
          /\ req'[r].happened = req[r].happened
          /\ \/ req[r].phase = "late" /\ req'[r].phase = "ours" /\ req'[r].sent = req[r].sent
             \/ req[r].phase = "early" /\ req'[r].phase = "done" /\ req'[r].sent = req[r].status
      BY <1>1, <1>9 DEF HookPasses, SendResponse, TypesFit, RequestType
    <2>3. RequestFits(r)'
      BY <1>1, <1>3, <2>1, <2>2 DEF RequestFits
    <2>4. FlaskFits(r)'
      BY <1>1, <1>3, <2>1, <2>2 DEF FlaskFits
    <2> QED
      BY <1>1, <1>2, <1>3, <2>1, <2>2, <2>3, <2>4 DEF Fits, Frame
  <1>10. CASE HookRaises(r)
    <2>1. CASE req[r].erroring
      <3>1. /\ counted' = counted /\ req[r].phase \in {"late", "early"}
            /\ req' = [req EXCEPT ![r] = req'[r]]
        BY <1>10, <2>1 DEF HookRaises, TypesFit
      <3>2. /\ req'[r].path = req[r].path /\ req'[r].status = req[r].status
            /\ req'[r].marked = req[r].marked /\ "hook" \in req'[r].odd
            /\ req'[r].happened = req[r].happened
            /\ req'[r].phase = "done" /\ req'[r].sent = req[r].status
        <4> DEFINE q == SendResponse(req[r])
                   d == q.odd \cup {"hook"}
        <4>1. req'[r] = [q EXCEPT !.odd = d]
          BY <1>10, <2>1 DEF HookRaises, TypesFit
        <4>2. /\ q.path = req[r].path /\ q.status = req[r].status /\ q.marked = req[r].marked
              /\ q.happened = req[r].happened /\ q.phase = "done" /\ q.sent = req[r].status
              /\ DOMAIN q = DOMAIN req[r]
          BY <1>1 DEF SendResponse, RequestType
        <4>3. "hook" \in d
          OBVIOUS
        <4> HIDE DEF q, d
        <4> QED
          BY <1>1, <4>1, <4>2, <4>3 DEF RequestType
      <3>3. RequestFits(r)'
        BY <1>1, <1>3, <3>1, <3>2 DEF RequestFits
      <3>4. FlaskFits(r)'
        BY <1>1, <1>3, <3>1, <3>2 DEF FlaskFits
      <3> QED
        BY <1>1, <1>2, <1>3, <3>1, <3>2, <3>3, <3>4 DEF Fits, Frame
    <2>2. CASE ~req[r].erroring
      BY <1>6, <1>7, <1>10, <2>2 DEF HookRaises
    <2> QED
      BY <2>1, <2>2
  <1>11. CASE After(r)
    <2> DEFINE counts == ~Exempt(r) /\ NotYetRecorded(r)
               m == req[r].marked \/ counts
    <2>1. /\ req[r].phase = "ours" /\ req' = [req EXCEPT ![r].phase = "early", ![r].marked = m]
      BY <1>11 DEF After
    <2>2. CASE counts
      <3>1. m = TRUE /\ Count(r, req[r].status)
        BY <1>11, <2>2 DEF After
      <3>2. ~IsCounted(r) /\ ~Exempt(r)
        BY <1>1, <2>2 DEF FlaskFits, NotYetRecorded
      <3>3. CountedNow(r, Label(lane, req[r].path), req[r].status)
        BY <3>1, <3>2, RequestFields, CountFacts
      <3> HIDE DEF m, counts
      <3>4. /\ req'[r].phase = "early" /\ req'[r].path = req[r].path
            /\ req'[r].status = req[r].status /\ req'[r].sent = req[r].sent
            /\ req'[r].marked = TRUE /\ req'[r].odd = req[r].odd
            /\ req'[r].happened = req[r].happened /\ req' = [req EXCEPT ![r] = req'[r]]
        BY <1>1, <2>1, <3>1, ZenonT(40) DEF TypesFit, RequestType
      <3>5. RequestFits(r)'
        BY <1>1, <1>4, <3>2, <3>3, <3>4 DEF RequestFits
      <3>6. FlaskFits(r)'
        BY <1>1, <1>4, <2>1, <3>3, <3>4 DEF FlaskFits
      <3> QED
        BY <1>1, <1>2, <1>4, <3>3, <3>4, <3>5, <3>6 DEF Fits, Frame
    <2>3. CASE ~counts
      <3>1. counted' = counted
        BY <1>11, <2>3 DEF After
      <3>2. m = req[r].marked
        BY <2>3, RequestFields, Zenon
      <3>3. ~Exempt(r) => IsCounted(r)
        BY <1>1, <2>3 DEF FlaskFits, NotYetRecorded
      <3> HIDE DEF m, counts
      <3>4. /\ req'[r].phase = "early" /\ req'[r].path = req[r].path
            /\ req'[r].status = req[r].status /\ req'[r].sent = req[r].sent
            /\ req'[r].marked = req[r].marked /\ req'[r].odd = req[r].odd
            /\ req'[r].happened = req[r].happened /\ req' = [req EXCEPT ![r] = req'[r]]
        BY <1>1, <2>1, <3>2, ZenonT(40) DEF TypesFit, RequestType
      <3>5. RequestFits(r)'
        BY <1>1, <1>3, <3>1, <3>4 DEF RequestFits
      <3>6. FlaskFits(r)'
        BY <1>1, <1>3, <2>1, <3>1, <3>3, <3>4 DEF FlaskFits
      <3> QED
        BY <1>1, <1>2, <1>3, <3>1, <3>4, <3>5, <3>6 DEF Fits, Frame
    <2> QED
      BY <2>2, <2>3
  <1>12. CASE HookReplaces(r, s)
    <2> DEFINE d == IF req[r].marked THEN req[r].odd \cup {"replaced"} ELSE req[r].odd
    <2>1. /\ counted' = counted /\ req[r].phase \in {"late", "early"}
          /\ req' = [req EXCEPT ![r] = req'[r]]
          /\ req'[r] = [req[r] EXCEPT !.status = s, !.odd = d]
      BY <1>12 DEF HookReplaces, TypesFit
    <2>2. req[r].odd \subseteq d /\ (req[r].marked => "replaced" \in d)
      OBVIOUS
    <2> HIDE DEF d
    <2>3. /\ req'[r].path = req[r].path /\ req'[r].status = s
          /\ req'[r].marked = req[r].marked /\ req'[r].odd = d
          /\ req'[r].happened = req[r].happened
          /\ req'[r].phase = req[r].phase /\ req'[r].sent = req[r].sent
      BY <1>1, <2>1 DEF RequestType
    <2>4. RequestFits(r)'
      BY <1>1, <1>3, <2>1, <2>3 DEF RequestFits
    <2>5. IsCounted(r) => "replaced" \in d
      BY <1>1, <2>2 DEF FlaskFits
    <2>6. FlaskFits(r)'
      BY <1>1, <1>3, <2>1, <2>2, <2>3, <2>5 DEF FlaskFits
    <2> QED
      BY <1>1, <1>2, <1>3, <2>1, <2>3, <2>4, <2>6 DEF Fits, Frame
  <1> QED
    BY <1>5, <1>8, <1>9, <1>10, <1>11, <1>12

\* Go: what the recorder remembers, and what net/http sends.
LEMMA GoStep ==
  ASSUME TypesFit, NEW r \in Requests, Fits(r), NEW s \in Statuses \cup {103},
         WriteHeader(r, s) \/ Write(r) \/ Flush(r) \/ Return(r) \/ Panic(r)
  PROVE  Fits(r)' /\ Frame(r) /\ Quiet
  <1>1. /\ lane = "go" /\ lane' = lane /\ seen' = seen /\ req[r].phase = "handling"
        /\ RequestFits(r) /\ GoFits(r) /\ req[r] \in RequestType /\ ~IsCounted(r)
    BY DEF WriteHeader, Write, Flush, Return, Panic, others, Fits, TypesFit, GoFits
  <1>2. WrapFits(r)' /\ EventFits(r)' /\ FlaskFits(r)' /\ (CountsAtMost(r) => Quiet)
    BY <1>1 DEF WrapFits, EventFits, FlaskFits, Quiet
  <1>3. ASSUME counted' = counted, req'[r].path = req[r].path
        PROVE  /\ ~IsCounted(r)' /\ (Exempt(r)' <=> Exempt(r)) /\ CountsAtMost(r)
    BY <1>1, <1>3 DEF IsCounted, Exempt, CountsAtMost
  <1> DEFINE past == {"informational", "flushed", "hijacked", "replaced"}
             clean == req[r].odd \cap past = {}
  <1>4. CASE WriteHeader(r, s)
    <2> DEFINE c == IF req[r].written THEN req[r].status ELSE s
               n == SentAfter(req[r], s)
               d == IF s < 200 THEN req[r].odd \cup {"informational"} ELSE req[r].odd
    <2>1. /\ req' = [req EXCEPT ![r] = [req[r] EXCEPT !.status = c, !.written = TRUE, !.sent = n,
                                                      !.odd = d]]
          /\ counted' = counted
      BY <1>4 DEF WriteHeader
    <2>2. ASSUME d \cap past = {}
          PROVE  n # 0 /\ n = c
      <3>1. s >= 200 /\ s \in Statuses /\ clean /\ s # 0
        BY <2>2, StatusFacts
      <3>2. n = IF req[r].sent = 0 THEN s ELSE req[r].sent
        BY <3>1, SentFacts
      <3>3. IF req[r].written THEN req[r].sent # 0 /\ req[r].sent = req[r].status
                              ELSE req[r].sent = 0
        BY <1>1, <3>1 DEF GoFits
      <3> QED
        BY <3>1, <3>2, <3>3
    <2> HIDE DEF c, n, d
    <2>3. /\ req'[r].phase = "handling" /\ req'[r].path = req[r].path /\ req'[r].status = c
          /\ req'[r].sent = n /\ req'[r].written = TRUE /\ req'[r].odd = d
          /\ req'[r].happened = req[r].happened
      BY <1>1, <2>1 DEF TypesFit, RequestType
    <2>4. req' = [req EXCEPT ![r] = req'[r]]
      BY <2>1 DEF TypesFit
    <2>5. RequestFits(r)'
      BY <1>1, <1>3, <2>1, <2>3 DEF RequestFits
    <2>6. GoFits(r)'
      BY <1>1, <1>3, <2>1, <2>2, <2>3 DEF GoFits
    <2> QED
      BY <1>1, <1>2, <1>3, <2>1, <2>3, <2>4, <2>5, <2>6 DEF Fits, Frame
  <1>5. CASE Write(r)
    <2> DEFINE n == SentAfter(req[r], 200)
    <2>1. /\ req' = [req EXCEPT ![r] = [req[r] EXCEPT !.written = TRUE, !.sent = n]]
          /\ counted' = counted
      BY <1>5 DEF Write
    <2>2. ASSUME clean
          PROVE  n # 0 /\ n = req[r].status
      <3>1. n = IF req[r].sent = 0 THEN 200 ELSE req[r].sent
        BY StatusFacts, SentFacts
      <3> QED
        BY <1>1, <2>2, <3>1 DEF GoFits
    <2> HIDE DEF n
    <2>3. /\ req'[r].phase = "handling" /\ req'[r].path = req[r].path
          /\ req'[r].status = req[r].status
          /\ req'[r].sent = n /\ req'[r].written = TRUE /\ req'[r].odd = req[r].odd
          /\ req'[r].happened = req[r].happened
      BY <1>1, <2>1 DEF TypesFit, RequestType
    <2>4. req' = [req EXCEPT ![r] = req'[r]]
      BY <2>1 DEF TypesFit
    <2>5. RequestFits(r)'
      BY <1>1, <1>3, <2>1, <2>3 DEF RequestFits
    <2>6. GoFits(r)'
      BY <1>1, <1>3, <2>1, <2>2, <2>3 DEF GoFits
    <2> QED
      BY <1>1, <1>2, <1>3, <2>1, <2>3, <2>4, <2>5, <2>6 DEF Fits, Frame
  <1>6. CASE Flush(r)
    <2> DEFINE n == SentAfter(req[r], 200)
               d == IF req[r].written THEN req[r].odd ELSE req[r].odd \cup {"flushed"}
    <2>1. /\ req' = [req EXCEPT ![r] = [req[r] EXCEPT !.sent = n, !.odd = d]]
          /\ counted' = counted
      BY <1>6 DEF Flush
    <2>2. ASSUME d \cap past = {}
          PROVE  clean /\ req[r].written /\ n = req[r].sent
      <3>1. n = IF req[r].sent = 0 THEN 200 ELSE req[r].sent
        BY StatusFacts, SentFacts
      <3>2. clean /\ req[r].written
        BY <2>2
      <3> QED
        BY <1>1, <3>1, <3>2 DEF GoFits
    <2> HIDE DEF n, d
    <2>3. /\ req'[r].phase = "handling" /\ req'[r].path = req[r].path
          /\ req'[r].status = req[r].status
          /\ req'[r].sent = n /\ req'[r].written = req[r].written /\ req'[r].odd = d
          /\ req'[r].happened = req[r].happened
      BY <1>1, <2>1 DEF TypesFit, RequestType
    <2>4. req' = [req EXCEPT ![r] = req'[r]]
      BY <2>1 DEF TypesFit
    <2>5. RequestFits(r)'
      BY <1>1, <1>3, <2>1, <2>3 DEF RequestFits
    <2>6. GoFits(r)'
      BY <1>1, <1>3, <2>1, <2>2, <2>3 DEF GoFits
    <2> QED
      BY <1>1, <1>2, <1>3, <2>1, <2>3, <2>4, <2>5, <2>6 DEF Fits, Frame
  <1>7. CASE Return(r) \/ Panic(r)
    <2>1. PICK t \in Statuses, c \in Statuses \cup {103} :
             /\ req' = [req EXCEPT ![r] = Ended(req[r], t)] /\ CountUnlessExempt(r, c)
             /\ clean => c = IF req[r].sent = 0 THEN t ELSE req[r].sent
      <3>1. CASE Return(r)
        <4> DEFINE t == 200
                   c == req[r].status
        <4>1. req' = [req EXCEPT ![r] = Ended(req[r], t)] /\ CountUnlessExempt(r, c)
          BY <3>1 DEF Return
        <4>2. clean => c = IF req[r].sent = 0 THEN t ELSE req[r].sent
          BY <1>1 DEF GoFits
        <4>3. t \in Statuses /\ c \in Statuses \cup {103}
          BY StatusFacts, RequestFields
        <4> HIDE DEF t, c
        <4> QED
          BY <4>1, <4>2, <4>3
      <3>2. CASE Panic(r)
        <4> DEFINE t == 500
                   c == PanicStatus(req[r])
        <4>1. req' = [req EXCEPT ![r] = Ended(req[r], t)] /\ CountUnlessExempt(r, c)
          BY <3>2 DEF Panic
        <4>2. clean => c = IF req[r].sent = 0 THEN t ELSE req[r].sent
          BY <1>1 DEF GoFits, PanicStatus
        <4>3. t \in Statuses /\ c \in Statuses \cup {103}
          BY StatusFacts, RequestFields DEF PanicStatus
        <4> HIDE DEF t, c
        <4> QED
          BY <4>1, <4>2, <4>3
      <3> QED
        BY <1>7, <3>1, <3>2
    <2> DEFINE n == SentAfter(req[r], t)
    <2>2. clean => n = c
      BY <2>1, SentFacts
    <2>3. req' = [req EXCEPT ![r] = [req[r] EXCEPT !.phase = "done", !.sent = n]]
      BY <2>1 DEF Ended
    <2> HIDE DEF n
    <2>4. /\ req'[r].phase = "done" /\ req'[r].path = req[r].path
          /\ req'[r].sent = n /\ req'[r].odd = req[r].odd
          /\ req'[r].happened = req[r].happened
      BY <1>1, <2>3 DEF TypesFit, RequestType
    <2>5. req' = [req EXCEPT ![r] = req'[r]]
      BY <2>3 DEF TypesFit
    <2>6. \/ Exempt(r) /\ counted' = counted
          \/ ~Exempt(r) /\ CountedNow(r, Label(lane, req[r].path), c)
      BY <1>1, <2>1, UnlessExemptFacts
    <2>7. CountsAtMost(r)
      BY <2>6 DEF CountsAtMost, CountedNow
    <2>8. /\ IsCounted(r)' <=> ~Exempt(r)
          /\ Exempt(r)' <=> Exempt(r)
          /\ IsCounted(r)' => /\ Sample(r)'.route = Label(lane, req[r].path)
                              /\ Sample(r)'.class = StatusBucket(c)
      BY <1>1, <2>4, <2>6 DEF IsCounted, Exempt, Sample, CountedNow
    <2>9. RequestFits(r)'
      BY <1>1, <2>4, <2>8 DEF RequestFits
    <2>10. GoFits(r)'
      BY <1>1, <2>2, <2>4, <2>8 DEF GoFits
    <2> QED
      BY <1>1, <1>2, <2>5, <2>7, <2>9, <2>10 DEF Fits, Frame
  <1> QED
    BY <1>4, <1>5, <1>6, <1>7

\* What is sent past the recorder is marked as odd.
LEMMA PastStep ==
  ASSUME TypesFit, NEW r \in Requests, Fits(r), NEW s \in Statuses,
         Hijack(r, s) \/ Replace(r, s)
  PROVE  Fits(r)' /\ Frame(r) /\ Quiet
  <1>1. /\ lane' = lane /\ seen' = seen /\ counted' = counted /\ req[r] \in RequestType
        /\ lane \notin {"express", "next"}
        /\ RequestFits(r) /\ WrapFits(r) /\ FlaskFits(r) /\ GoFits(r)
    BY DEF Hijack, Replace, others, Fits, TypesFit
  <1>2. /\ req' = [req EXCEPT ![r] = req'[r]]
        /\ req'[r].path = req[r].path /\ req'[r].status = req[r].status
        /\ req'[r].phase = req[r].phase /\ req'[r].marked = req[r].marked
        /\ req'[r].happened = req[r].happened /\ req'[r].written = req[r].written
        /\ req[r].odd \subseteq req'[r].odd
        /\ \/ lane = "go" /\ req[r].phase = "handling" /\ "hijacked" \in req'[r].odd
           \/ req[r].phase = "done" /\ "replaced" \in req'[r].odd
    <2>1. CASE Hijack(r, s)
      <3> DEFINE n == SentAfter(req[r], s)
                 d == req[r].odd \cup {"hijacked"}
      <3>1. /\ req' = [req EXCEPT ![r] = req'[r]] /\ req'[r] = [req[r] EXCEPT !.sent = n, !.odd = d]
            /\ lane = "go" /\ req[r].phase = "handling"
        BY <2>1 DEF Hijack, TypesFit
      <3>2. req[r].odd \subseteq d /\ "hijacked" \in d
        OBVIOUS
      <3> HIDE DEF n, d
      <3> QED
        BY <1>1, <3>1, <3>2 DEF RequestType
    <2>2. CASE Replace(r, s)
      <3> DEFINE d == req[r].odd \cup {"replaced"}
      <3>1. /\ req' = [req EXCEPT ![r] = req'[r]] /\ req'[r] = [req[r] EXCEPT !.sent = s, !.odd = d]
            /\ req[r].phase = "done"
        BY <2>2 DEF Replace, TypesFit
      <3>2. req[r].odd \subseteq d /\ "replaced" \in d
        OBVIOUS
      <3> HIDE DEF d
      <3> QED
        BY <1>1, <3>1, <3>2 DEF RequestType
    <2> QED
      BY <2>1, <2>2
  <1>3. /\ IsCounted(r)' <=> IsCounted(r)
        /\ Sample(r)' = Sample(r) /\ (Exempt(r)' <=> Exempt(r))
    BY <1>1, <1>2 DEF IsCounted, Sample, Exempt
  <1>4. RequestFits(r)' /\ EventFits(r)'
    BY <1>1, <1>2, <1>3 DEF RequestFits, EventFits
  <1>5. WrapFits(r)'
    BY <1>1, <1>2, <1>3 DEF WrapFits
  <1>6. FlaskFits(r)'
    BY <1>1, <1>2, <1>3 DEF FlaskFits
  <1>7. GoFits(r)'
    BY <1>1, <1>2, <1>3 DEF GoFits
  <1> QED
    BY <1>1, <1>2, <1>4, <1>5, <1>6, <1>7 DEF Fits, Frame, Quiet, CountsAtMost

-----------------------------------------------------------------------------
(* The budget of route labels.                                             *)

\* A step that changes no sample of Next and no seen route.
LEMMA RoutesUntouched ==
  ASSUME RoutesFit, lane' = lane, Quiet
  PROVE  RoutesFit'
  BY DEF RoutesFit, Quiet, IsCounted, Sample

\* The routes seen stay within the cap, and the label given out is among them.
LEMMA SeenFacts ==
  ASSUME RoutesFit, NEW p, NEW s
  PROVE  /\ IsFiniteSet(SeenWith(p, s)) /\ Cardinality(SeenWith(p, s)) <= MaxRoutes
         /\ seen \subseteq SeenWith(p, s)
         /\ NextRoute(p, s) \in SeenWith(p, s) \cup {Unmatched, Overflow}
  <1>1. IsFiniteSet(seen) /\ Cardinality(seen) \in Nat /\ Cardinality(seen) <= MaxRoutes
    BY FS_CardinalityType DEF RoutesFit
  <1>2. MaxRoutes \in Nat
    BY HttpRecordingAssumption
  <1>3. CASE IsNotFound(s) \/ CapReached(Cardinality(seen))
    BY <1>1, <1>3 DEF SeenWith, NextRoute, CapRoute
  <1>4. CASE ~IsNotFound(s) /\ ~CapReached(Cardinality(seen))
    <2>1. SeenWith(p, s) = seen \cup {Bucket(p)}
      BY <1>4 DEF SeenWith
    <2>2. IsFiniteSet(seen \cup {Bucket(p)})
          /\ (Bucket(p) \in seen \/ Cardinality(seen \cup {Bucket(p)}) = Cardinality(seen) + 1)
      BY <1>1, FS_AddElement
    <2>3. Bucket(p) \in seen => seen \cup {Bucket(p)} = seen
      OBVIOUS
    <2>4. Cardinality(seen) < MaxRoutes
      BY <1>1, <1>2, <1>4 DEF CapReached
    <2>5. Cardinality(seen \cup {Bucket(p)}) <= MaxRoutes
      BY <1>1, <1>2, <2>2, <2>3, <2>4
    <2>6. NextRoute(p, s) = Bucket(p)
      BY <1>4 DEF NextRoute, CapRoute
    <2> QED
      BY <2>1, <2>2, <2>5, <2>6
  <1> QED
    BY <1>3, <1>4

\* An event.
LEMMA EmitRoutes ==
  ASSUME TypesFit, NEW r \in Requests, NEW e \in Events, Fits(r), RoutesFit, Emit(r, e)
  PROVE  RoutesFit'
  <1>1. lane' = lane
    BY DEF Emit, others
  <1>2. EventFits(r)
    BY DEF Fits
  <1>3. CASE lane # "next"
    <2>1. seen' = seen
      BY <1>3 DEF Emit
    <2> QED
      BY <1>1, <1>3, <2>1, RoutesUntouched DEF Quiet
  <1>4. CASE req[r].armed = {} /\ counted' = counted /\ seen' = seen
    BY <1>1, <1>4, RoutesUntouched DEF Quiet
  <1>5. CASE /\ lane = "next" /\ seen' = SeenWith(req[r].path, req[r].status)
             /\ CountedNow(r, NextRoute(req[r].path, req[r].status), req[r].status)
    <2>1. /\ IsFiniteSet(seen') /\ Cardinality(seen') <= MaxRoutes /\ seen \subseteq seen'
          /\ NextRoute(req[r].path, req[r].status) \in seen' \cup {Unmatched, Overflow}
      BY <1>5, SeenFacts
    <2>2. ASSUME NEW x \in Requests, IsCounted(x)'
          PROVE  Sample(x)'.route \in seen' \cup {Unmatched, Overflow}
      <3>1. CASE x = r
        BY <1>5, <2>1, <3>1 DEF Sample, CountedNow
      <3>2. CASE x # r
        <4>1. counted'[x] = counted[x]
          BY <1>5, <3>2 DEF CountedNow, TypesFit
        <4>2. IsCounted(x) /\ Sample(x)' = Sample(x)
          BY <2>2, <4>1 DEF IsCounted, Sample
        <4> QED
          BY <1>5, <2>1, <4>2 DEF RoutesFit
      <3> QED
        BY <3>1, <3>2
    <2> QED
      BY <2>1, <2>2 DEF RoutesFit
  <1> QED
    BY <1>2, <1>3, <1>4, <1>5, EmitFacts

-----------------------------------------------------------------------------
(* The invariant.                                                          *)

\* It holds at first.
LEMMA HttpInit ==
  ASSUME Init
  PROVE  HttpInv
  <1>1. Fresh \in RequestType
    BY StatusFacts, HttpRecordingAssumption DEF Fresh, RequestType, Phases
  <1>2. /\ req \in [Requests -> RequestType]
        /\ \A r \in Requests : req[r] = Fresh /\ counted[r] = << >>
    BY <1>1 DEF Init
  <1>3. TypesFit
    BY <1>2 DEF TypesFit, Init, Unset
  <1>4. RoutesFit
    BY <1>2, FS_EmptySet, HttpRecordingAssumption DEF RoutesFit, Init, IsCounted
  <1>5. ASSUME NEW r \in Requests
        PROVE  Fits(r)
    <2>1. ~IsCounted(r) /\ req[r] = Fresh
      BY <1>2 DEF IsCounted
    <2>2. /\ req[r].phase = "idle" /\ req[r].status = 200 /\ req[r].sent = 0
          /\ req[r].armed = {} /\ req[r].happened = {} /\ req[r].marked = FALSE
          /\ req[r].measured = FALSE /\ req[r].path = MetricsPath
      BY <2>1 DEF Fresh
    <2> QED
      BY <2>1, <2>2, StatusFacts
         DEF Fits, RequestFits, WrapFits, EventFits, FlaskFits, GoFits, Exempt
  <1> QED
    BY <1>3, <1>4, <1>5 DEF HttpInv

\* A step of one request.
LEMMA StepKeeps ==
  ASSUME HttpInv, NEW r \in Requests, Step(r)
  PROVE  HttpInv'
  <1>1. TypesFit /\ RoutesFit /\ Fits(r) /\ \A x \in Requests : Fits(x)
    BY DEF HttpInv
  <1>2. WrapFits(r) /\ EventFits(r) /\ FlaskFits(r) /\ GoFits(r)
    BY <1>1 DEF Fits
  <1>3. ASSUME TypesFit', Fits(r)', Frame(r), RoutesFit'
        PROVE  HttpInv'
    BY <1>1, <1>3, OthersFit DEF HttpInv
  <1>4. ASSUME TypesFit', Fits(r)', Frame(r), Quiet
        PROVE  HttpInv'
    BY <1>1, <1>3, <1>4, RoutesUntouched DEF Frame
  <1>5. ASSUME NEW p \in Paths, Begin(r, p)
        PROVE  HttpInv'
    BY <1>1, <1>4, <1>5, BeginTypes, BeginFits
  <1>6. ASSUME NEW s \in Statuses, Respond(r, s) \/ Raise(r)
        PROVE  HttpInv'
    BY <1>1, <1>2, <1>4, <1>6, WrapTypes, WrapStep
  <1>7. ASSUME NEW s \in Statuses, SetStatus(r, s) \/ SendHead(r) \/ EndResponse(r)
        PROVE  HttpInv'
    BY <1>1, <1>2, <1>4, <1>7, HandlerTypes, HandlerStep
  <1>8. ASSUME NEW e \in Events, Emit(r, e)
        PROVE  HttpInv'
    BY <1>1, <1>2, <1>3, <1>8, EventTypes, EventStep, EmitRoutes
  <1>9. ASSUME NEW s \in Statuses,
               \/ ViewReturns(r, s) \/ ViewRaises(r) \/ HookPasses(r) \/ HookReplaces(r, s)
               \/ HookRaises(r) \/ After(r)
        PROVE  HttpInv'
    BY <1>1, <1>2, <1>4, <1>9, FlaskTypes, FlaskStep
  <1>10. ASSUME NEW s \in Statuses \cup {103},
                WriteHeader(r, s) \/ Write(r) \/ Flush(r) \/ Return(r) \/ Panic(r)
         PROVE  HttpInv'
    BY <1>1, <1>2, <1>4, <1>10, GoTypes, GoStep
  <1>11. ASSUME NEW s \in Statuses, Hijack(r, s) \/ Replace(r, s)
         PROVE  HttpInv'
    BY <1>1, <1>4, <1>11, PastTypes, PastStep
  <1>12. \E s \in Statuses : TRUE
    BY StatusFacts
  <1> QED
    BY <1>5, <1>6, <1>7, <1>8, <1>9, <1>10, <1>11, <1>12 DEF Step

\* Every step keeps it.
LEMMA HttpStep ==
  ASSUME HttpInv, [Next]_vars
  PROVE  HttpInv'
  <1>1. ASSUME NEW r \in Requests, Step(r)
        PROVE  HttpInv'
    BY <1>1, StepKeeps
  <1>2. CASE Install \/ ClearSentinel \/ Collect \/ UNCHANGED vars
    <2>1. req' = req /\ counted' = counted /\ seen' = seen /\ lane' = lane
      BY <1>2 DEF Install, ClearSentinel, Collect, vars
    <2>2. TypesFit'
      BY <1>2, PatchTypes DEF HttpInv
    <2>3. RoutesFit'
      BY <2>1, RoutesUntouched DEF HttpInv, Quiet
    <2>4. ASSUME NEW r \in Requests
          PROVE  Fits(r)'
      BY <2>1, Untouched DEF HttpInv
    <2> QED
      BY <2>2, <2>3, <2>4 DEF HttpInv
  <1> QED
    BY <1>1, <1>2 DEF Next

\* The samples, labels and recorders of every request fit its progress, in every lane.
THEOREM HttpInvariant == Spec => []HttpInv
  <1>1. Init => HttpInv
    BY HttpInit
  <1>2. HttpInv /\ [Next]_vars => HttpInv'
    BY HttpStep
  <1> QED
    BY <1>1, <1>2, PTL DEF Spec

-----------------------------------------------------------------------------
(* The properties.                                                         *)

\* The lanes there are.
LEMMA LaneCases ==
  ASSUME HttpInv
  PROVE  lane \in {"fastapi", "hono", "express", "next", "flask", "go"}
  BY HttpRecordingAssumption DEF HttpInv, TypesFit

\* What is in the samples of a request.
LEMMA SampleFacts ==
  ASSUME HttpInv, NEW r \in Requests
  PROVE  \/ ~IsCounted(r) /\ counted[r] = << >> /\ Len(counted[r]) = 0 /\ Range(counted[r]) = {}
         \/ /\ IsCounted(r) /\ Sample(r) \in Entries /\ Len(counted[r]) = 1
            /\ Range(counted[r]) = {Sample(r)} /\ Last(counted[r]) = Sample(r)
  <1>1. TypesFit
    BY DEF HttpInv
  <1>2. CASE counted[r] = << >>
    BY <1>2 DEF IsCounted, Range
  <1>3. CASE IsCounted(r) /\ Sample(r) \in Entries /\ counted[r] = <<Sample(r)>>
    <2> DEFINE e == Sample(r)
    <2>1. /\ Len(<<e>>) = 1 /\ Last(<<e>>) = e /\ Range(<<e>>) = {e}
      BY OneSample
    <2> QED
      BY <1>3, <2>1
  <1> QED
    BY <1>1, <1>2, <1>3, CountedForm

\* Each variable has the values the code can give it.
THEOREM HttpTypes == Spec => []HttpTypeOK
  <1>1. HttpInv => HttpTypeOK
    <2> SUFFICES ASSUME HttpInv
                 PROVE  HttpTypeOK
      OBVIOUS
    <2>1. TypesFit
      BY DEF HttpInv
    <2>2. lane \in Lanes /\ saved \in {Unset} \cup Nat /\ live \in Nat
      BY <2>1 DEF TypesFit, Unset
    <2>3. ASSUME NEW r \in Requests
          PROVE  /\ req[r].phase \in Phases
                 /\ req[r].status \in Statuses \cup {103}
                 /\ req[r].sent \in Statuses \cup {0}
                 /\ req[r].armed \subseteq (1..(MaxPatches + 1)) \X Events
                 /\ req[r].odd \subseteq Oddities
                 /\ \A e \in Range(counted[r]) : e.class \in 1..5
      <3>1. 1 \in 1..(MaxPatches + 1)
        BY HttpRecordingAssumption
      <3>2. {1} \X Events \subseteq (1..(MaxPatches + 1)) \X Events
        BY <3>1
      <3>3. \A e \in Range(counted[r]) : e.class \in 1..5
        BY SampleFacts DEF Entries
      <3>4. req[r].armed \subseteq (1..(MaxPatches + 1)) \X Events
        BY <2>1, <3>2, RequestFields
      <3> QED
        BY <2>1, <3>3, <3>4, RequestFields
    <2> QED
      BY <2>2, <2>3 DEF HttpTypeOK
  <1> QED
    BY <1>1, HttpInvariant, PTL

\* No request is counted twice, and the metrics endpoint is not counted.
THEOREM HttpCountedAtMostOnce == Spec => []CountedAtMostOnce
  <1>1. HttpInv => CountedAtMostOnce
    <2> SUFFICES ASSUME HttpInv, NEW r \in Requests
                 PROVE  Len(counted[r]) <= IF Exempt(r) THEN 0 ELSE 1
      BY DEF CountedAtMostOnce
    <2>1. IsCounted(r) => ~Exempt(r)
      BY DEF HttpInv, Fits, RequestFits
    <2>2. CASE IsCounted(r)
      <3>1. Len(counted[r]) = 1
        BY <2>2, SampleFacts
      <3> QED
        BY <2>1, <2>2, <3>1
    <2>3. CASE ~IsCounted(r)
      <3>1. Len(counted[r]) = 0
        BY <2>3, SampleFacts
      <3> QED
        BY <3>1
    <2> QED
      BY <2>2, <2>3
  <1> QED
    BY <1>1, HttpInvariant, PTL

\* A request that is over has been counted, unless a hook raised or an exception left Flask.
THEOREM HttpCountedByTheEnd == Spec => []CountedByTheEnd
  <1>1. HttpInv => CountedByTheEnd
    <2> SUFFICES ASSUME HttpInv, NEW r \in Requests,
                        Over(r), req[r].measured, ~Exempt(r),
                        req[r].odd \cap {"hook", "propagated"} = {}
                 PROVE  IsCounted(r)
      BY DEF CountedByTheEnd, IsCounted
    <2>1. RequestFits(r) /\ WrapFits(r) /\ EventFits(r) /\ FlaskFits(r) /\ GoFits(r)
      BY DEF HttpInv, Fits
    <2>2. CASE lane \in {"express", "next"}
      <3>1. req[r].happened \cap Events # {}
        BY <2>1, <2>2 DEF Over, EventFits, Events
      <3> QED
        BY <2>1, <2>2, <3>1 DEF EventFits
    <2>3. CASE lane \notin {"express", "next"}
      <3>1. req[r].phase = "done"
        BY <2>1, <2>3 DEF Over, RequestFits, Events
      <3> QED
        BY <2>1, <2>3, <3>1, LaneCases DEF WrapFits, FlaskFits, GoFits
    <2> QED
      BY <2>2, <2>3
  <1> QED
    BY <1>1, HttpInvariant, PTL

\* The class counted is the class the client got, but for the provisos of StatusMatches.
THEOREM HttpStatusMatches == Spec => []StatusMatches
  <1>1. HttpInv => StatusMatches
    <2> SUFFICES ASSUME HttpInv, NEW r \in Requests,
                        Over(r), req[r].sent # 0, counted[r] # << >>,
                        req[r].odd \subseteq {"propagated"}
                 PROVE  Last(counted[r]).class = StatusBucket(req[r].sent)
      BY DEF StatusMatches
    <2>1. RequestFits(r) /\ WrapFits(r) /\ EventFits(r) /\ FlaskFits(r) /\ GoFits(r)
      BY DEF HttpInv, Fits
    <2>2. IsCounted(r) /\ Last(counted[r]) = Sample(r)
      BY SampleFacts DEF IsCounted
    <2>3. lane \in {"express", "next"} \/ req[r].phase = "done"
      BY <2>1 DEF Over, RequestFits, Events
    <2>4. /\ req[r].odd \cap {"informational", "flushed", "hijacked", "replaced"} = {}
          /\ req[r].odd \cap {"hook", "handled", "replaced"} = {}
          /\ "overwritten" \notin req[r].odd /\ "replaced" \notin req[r].odd
      OBVIOUS
    <2>5. Sample(r).class = StatusBucket(req[r].sent)
      <3>1. CASE lane \in {"fastapi", "hono"}
        BY <2>1, <2>2, <2>3, <2>4, <3>1 DEF WrapFits
      <3>2. CASE lane \in {"express", "next"}
        BY <2>1, <2>2, <2>4, <3>2 DEF EventFits
      <3>3. CASE lane = "flask"
        BY <2>1, <2>2, <2>3, <2>4, <3>3 DEF FlaskFits
      <3>4. CASE lane = "go"
        BY <2>1, <2>2, <2>3, <2>4, <3>4 DEF GoFits
      <3> QED
        BY <3>1, <3>2, <3>3, <3>4, LaneCases
    <2> QED
      BY <2>2, <2>5
  <1> QED
    BY <1>1, HttpInvariant, PTL

\* The labels are bounded, and what matched no route has one label, but for the provisos of
\* LabelsBounded.
THEOREM HttpLabelsBounded == Spec => []LabelsBounded
  <1>1. HttpInv => LabelsBounded
    <2> SUFFICES ASSUME HttpInv
                 PROVE  LabelsBounded
      OBVIOUS
    <2>0. ASSUME NEW r \in Requests, NEW e \in Range(counted[r])
          PROVE  IsCounted(r) /\ e = Sample(r) /\ e \in Entries
      <3>1. Range(counted[r]) = {} \/ (IsCounted(r) /\ Range(counted[r]) = {Sample(r)})
        BY SampleFacts, Zenon
      <3>2. IsCounted(r) => Sample(r) \in Entries
        BY SampleFacts, Zenon
      <3> QED
        BY <3>1, <3>2
    <2>1. \A e \in Samples : \E r \in Requests : IsCounted(r) /\ e = Sample(r) /\ e \in Entries
      BY <2>0, Zenon DEF Samples
    <2>2. \A e \in Samples : e.method \in Allowed \cup {"OTHER"}
      BY <2>1 DEF Entries
    <2>3. ASSUME lane = "next"
          PROVE  Cardinality({e.route : e \in Samples} \ {Unmatched, Overflow}) <= MaxRoutes
      <3> DEFINE T == {e.route : e \in Samples} \ {Unmatched, Overflow}
      <3>1. IsFiniteSet(seen) /\ Cardinality(seen) <= MaxRoutes
        BY DEF HttpInv, RoutesFit
      <3>2. T \subseteq seen
        BY <2>1, <2>3 DEF HttpInv, RoutesFit
      <3>3. IsFiniteSet(T) /\ Cardinality(T) <= Cardinality(seen)
        BY <3>1, <3>2, FS_Subset
      <3>4. Cardinality(T) \in Nat /\ Cardinality(seen) \in Nat /\ MaxRoutes \in Nat
        BY <3>1, <3>3, FS_CardinalityType, HttpRecordingAssumption
      <3> HIDE DEF T
      <3>5. Cardinality(T) <= MaxRoutes
        BY <3>1, <3>3, <3>4
      <3> QED
        BY <3>5 DEF T
    <2>4. ASSUME NEW r \in Requests, NEW e \in Range(counted[r]),
                 Template[req[r].path] = Unmatched
          PROVE  /\ lane = "next" /\ req[r].sent = 404 /\ "overwritten" \notin req[r].odd
                      => e.route = Unmatched
                 /\ lane = "hono" => e.route \in {Unmatched} \cup (Range(RoutePath) \ CatchAll)
                 /\ lane \notin {"next", "hono"} => e.route = Unmatched
      <3>1. IsCounted(r) /\ e = Sample(r)
        BY <2>0, <2>4
      <3>2. RequestFits(r) /\ EventFits(r) /\ req[r].path \in DOMAIN RoutePath
        BY RequestFields, HttpRecordingAssumption DEF HttpInv, Fits
      <3>3. lane # "next" => e.route = Label(lane, req[r].path)
        BY <3>1, <3>2 DEF RequestFits
      <3>4. HonoRoute(req[r].path) \in {Unmatched} \cup (Range(RoutePath) \ CatchAll)
        BY <3>2 DEF HonoRoute, Range
      <3>5. ASSUME lane = "next", req[r].sent = 404, "overwritten" \notin req[r].odd
            PROVE  e.route = Unmatched
        BY <3>1, <3>2, <3>5 DEF EventFits
      <3> QED
        BY <2>4, <3>3, <3>4, <3>5 DEF Label
    <2> QED
      BY <2>2, <2>3, <2>4 DEF LabelsBounded
  <1> QED
    BY <1>1, HttpInvariant, PTL
===============================================================================
