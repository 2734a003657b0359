------------------------------ MODULE JobsProofs ------------------------------
(***************************************************************************)
(* Theorems about Jobs, for any lanes, spans, trackers and services: each  *)
(* span is counted once, in both metrics, with the outcome of its work.    *)
(***************************************************************************)
EXTENDS Jobs, TLAPS

\* The places of a `with` block, or any span, that has not begun to exit.
Entered(s) == pc[s] \in {"working", "ended"}

\* The frames, the trackers and the pending writes refer to each other as the
\* code's closures and generators do.
FramesFit ==
    /\ lane = "go" => service # None /\ refused = {}
    /\ lane # "python" => \A t \in Trackers : cm[t] = None
    /\ \A s \in Spans :
         /\ lane # "node" /\ pc[s] # "idle" /\ s \notin refused => frame[s].label \in Services
         /\ lane = "python" /\ s \in refused => pc[s] = "returned"
         /\ frame[s].how = "with" => frame[s].tracker \in Trackers /\ cm[frame[s].tracker] # None
         /\ frame[s].how # "with" => frame[s].tracker = None
         /\ pc[s] \in {"then", "pending"} => lane = "node" /\ frame[s].how = "wrapped"
         /\ pc[s] \in {"ended", "counting", "observing"} =>
              lane # "node" /\ work[s] # "none"
         /\ lane = "go" /\ pc[s] = "returned" => work[s] # "none"
    /\ \A t \in Trackers : cm[t] # None =>
         pc[cm[t]] # "idle" /\ cm[t] \notin refused /\ frame[cm[t]].tracker = t

\* A pending write is for a span whose outcome is taken, and the only one for it.
WritesFit ==
    /\ \A s \in Spans :
         /\ s \in settled => pc[s] # "idle" /\ (lane # "node" => s \notin refused)
         /\ writes[s].for = None <=> pc[s] \notin {"counting", "observing"}
         /\ writes[s].for # None => writes[s].for \in settled
         /\ lane = "go" => writes[s].for \in {None, s} /\ (pc[s] = "returned" => s \in settled)
    /\ \A s, r \in Spans : writes[s].for = writes[r].for /\ writes[s].for # None => s = r

\* The two metrics differ by the write that is pending, if any.
PairsFit ==
    /\ \A p \in Spans : (\A s \in Spans : writes[s].for # p) => counted[p] = observed[p]
    /\ \A s \in Spans :
         LET p == writes[s].for
         IN  /\ pc[s] = "counting" => counted[p] = observed[p]
             /\ pc[s] = "observing" =>
                  counted[p] = Append(observed[p], Sample(LabelOf(p), writes[s].outcome))

\* Nothing is written for a span before its outcome is taken, and nothing twice.
OnceFit ==
    \A p \in Spans :
        /\ p \notin settled => counted[p] = << >> /\ observed[p] = << >>
        /\ lane = "node" /\ pc[p] = "working" => p \notin settled
        /\ ~DoneTwice(p) =>
             /\ Len(counted[p]) <= 1 /\ Len(observed[p]) <= 1
             /\ \A s \in Spans : writes[s].for = p => observed[p] = << >>

\* A span that no other has disturbed is ended by its own `with` block or function.
OutcomesFit ==
    /\ \A r, s \in Spans :
         r # s /\ Entered(r) /\ Entered(s) /\ frame[r].how = "with"
               /\ frame[r].tracker = frame[s].tracker => s \in misused
    /\ lane = "node" => \A s \in Spans : frame[s].how # "done"
    /\ \A s \in Spans : s \notin refused \cup misused =>
         /\ frame[s].how = "with" /\ Entered(s) => cm[frame[s].tracker] = s
         /\ lane # "node" /\ Entered(s) => s \notin settled
         /\ pc[s] \in {"counting", "observing", "returned"} => s \in settled
         /\ pc[s] \in {"counting", "observing"} => writes[s].for = s
         /\ \A r \in Spans : writes[r].for = s => r = s /\ writes[r].outcome = OutcomeOf(s)
         /\ s \in settled /\ pc[s] # "counting" =>
              Len(counted[s]) = 1 /\ counted[s][1].outcome = OutcomeOf(s)

JobsInv == JobsTypeOK /\ FramesFit /\ WritesFit /\ PairsFit /\ OnceFit /\ OutcomesFit

-----------------------------------------------------------------------------
(* Types.                                                                  *)

Frames == [how : Hows, tracker : Trackers \cup {None}, label : Services \cup {None}]
Samples == [service : Services, outcome : Outcomes]

\* Only Python has `with` blocks, and Node has no function that counts a success.
LEMMA ShapesAre == "with" \notin Shapes["node"] \cup Shapes["go"] /\ "done" \notin Shapes["node"]
  BY DEF Shapes

\* One more element.
LEMMA AppendType == \A S : \A q \in Seq(S), e \in S : Append(q, e) \in Seq(S)
  OBVIOUS

\* A sequence after another.
LEMMA ConcatType == \A S : \A q, r \in Seq(S) : q \o r \in Seq(S)
  OBVIOUS

\* Appending samples to the sequences of some spans keeps them sequences of samples.
LEMMA WithErrorType ==
    ASSUME NEW c \in [Spans -> Seq(Samples)], NEW t,
           \A p \in Abandoned(t) : LabelOf(p) \in Services
    PROVE  WithError(c, t) \in [Spans -> Seq(Samples)]
  <1> SUFFICES ASSUME NEW p \in Spans
               PROVE  WithError(c, t)[p] \in Seq(Samples)
    BY DEF WithError
  <1>1. CASE p \in Abandoned(t)
    <2>1. Sample(LabelOf(p), "error") \in Samples
      BY <1>1 DEF Sample, Samples, Outcomes
    <2> QED
      BY <1>1, <2>1 DEF WithError
  <1>2. CASE p \notin Abandoned(t)
    BY <1>2 DEF WithError
  <1> QED
    BY <1>1, <1>2

\* Node records one sample or none.
LEMMA RecordedType ==
    ASSUME JobsTypeOK, NEW o \in Outcomes
    PROVE  Recorded(o) \in Seq(Samples)
  <1>1. CASE service = None
    BY <1>1 DEF Recorded
  <1>2. CASE service # None
    <2>1. Sample(service, o) \in Samples
      BY <1>2 DEF JobsTypeOK, Sample, Samples
    <2> QED
      BY <1>2, <2>1 DEF Recorded
  <1> QED
    BY <1>1, <1>2

\* Every reachable state is well typed: no sample has a service that is not set
\* (_baseline.py:318, baseline.ts:196-203).
LEMMA TypeStep ==
    ASSUME JobsTypeOK, FramesFit, WritesFit, [Next]_vars
    PROVE  JobsTypeOK'
  <1> USE JobsAssumption DEF JobsTypeOK, Goto
  <1>1. ASSUME NEW s \in Spans, NEW how \in Hows, Begin(s, how) PROVE JobsTypeOK'
    <2>1. Frame(how, None, IF lane = "go" THEN service ELSE None) \in Frames
      BY DEF Frame, Frames
    <2> QED
      BY <1>1, <2>1 DEF Begin, Starts, samples, Frames, Places
  <1>2. ASSUME NEW s \in Spans, Refuse(s) PROVE JobsTypeOK'
    BY <1>2 DEF Refuse, samples, Places
  <1>3. ASSUME NEW s \in Spans, Enter(s) PROVE JobsTypeOK'
    <2>1. Frame("wrapped", None, service) \in Frames
      BY DEF Frame, Frames, Hows
    <2> QED
      BY <1>3, <2>1 DEF Enter, Starts, samples, Frames, Places
  <1>4. ASSUME NEW s \in Spans, NEW t \in Trackers, EnterWith(s, t) PROVE JobsTypeOK'
    <2>1. Frame("with", t, service) \in Frames
      BY DEF Frame, Frames, Hows
    <2>2. \A p \in Abandoned(t) : LabelOf(p) \in Services
      <3>1. lane = "python"
        BY <1>4 DEF EnterWith
      <3>2. ASSUME NEW p \in Abandoned(t) PROVE frame[p].label \in Services
        <4>1. p \in Spans /\ cm[t] = p
          BY DEF Abandoned
        <4>2. pc[p] # "idle" /\ p \notin refused
          BY <4>1 DEF FramesFit
        <4> QED
          BY <3>1, <4>1, <4>2 DEF FramesFit
      <3> QED
        BY <3>2 DEF LabelOf
    <2>3. WithError(counted, t) \in [Spans -> Seq(Samples)]
          /\ WithError(observed, t) \in [Spans -> Seq(Samples)]
      BY <2>2, WithErrorType DEF Samples
    <2>4. Abandoned(t) \subseteq Spans /\ Open(t) \subseteq Spans
      BY DEF Abandoned, Open
    <2> QED
      BY <1>4, <2>1, <2>3, <2>4 DEF EnterWith, Starts, Frames, Places, Samples
  <1>5. ASSUME NEW s \in Spans, NEW o \in Outcomes, WorkEnds(s, o) PROVE JobsTypeOK'
    BY <1>5 DEF WorkEnds, samples, Places
  <1>6. ASSUME NEW s \in Spans, NEW p \in Spans, Claim(s, p),
               UNCHANGED <<lane, service, frame, cm, samples, refused, work, misused>>
        PROVE  JobsTypeOK'
    <2>1. pc[s] = "ended"
      BY <1>6 DEF Claim
    <2>2. OutcomeOf(s) \in Outcomes
      BY <2>1 DEF OutcomeOf, Outcomes, FramesFit
    <2>3. [for |-> p, outcome |-> OutcomeOf(s)] \in [for : Spans \cup {None}, outcome : Outcomes]
      BY <2>2
    <2>4. CASE Taken(p)
      BY <1>6, <2>4 DEF Claim, samples, Places
    <2>5. CASE ~Taken(p)
      <3>1. /\ pc' = [pc EXCEPT ![s] = "counting"]
            /\ settled' = settled \cup {p}
            /\ writes' = [writes EXCEPT ![s] = [for |-> p, outcome |-> OutcomeOf(s)]]
        BY <1>6, <2>5 DEF Claim
      <3>2. writes' \in [Spans -> [for : Spans \cup {None}, outcome : Outcomes]]
        BY <2>3, <3>1
      <3> QED
        BY <1>6, <3>1, <3>2 DEF samples, Places
    <2> QED
      BY <2>4, <2>5
  <1>7. ASSUME NEW s \in Spans, Finish(s) PROVE JobsTypeOK'
    BY <1>6, <1>7 DEF Finish
  <1>8. ASSUME NEW s \in Spans, Exit(s) PROVE JobsTypeOK'
    <2>1. cm[frame[s].tracker] \in Spans
      BY <1>8 DEF Exit, FramesFit
    <2> QED
      BY <1>6, <1>8, <2>1 DEF Exit
  <1>9. ASSUME NEW s \in Spans, pc[s] \in {"counting", "observing"}
        PROVE  /\ writes[s].for \in Spans
               /\ Sample(LabelOf(writes[s].for), writes[s].outcome) \in Samples
    <2>1. writes[s].for \in Spans /\ writes[s].for \in settled
      BY <1>9 DEF WritesFit
    <2>2. lane # "node"
      BY <1>9 DEF FramesFit
    <2>3. LabelOf(writes[s].for) \in Services
      BY <2>1, <2>2 DEF WritesFit, FramesFit, LabelOf
    <2>4. writes[s].outcome \in Outcomes
      OBVIOUS
    <2> QED
      BY <2>1, <2>3, <2>4 DEF Sample, Samples
  <1>10. ASSUME NEW s \in Spans, Count(s) PROVE JobsTypeOK'
    <2>1. /\ writes[s].for \in Spans
          /\ Sample(LabelOf(writes[s].for), writes[s].outcome) \in Samples
      BY <1>9, <1>10 DEF Count
    <2> DEFINE q == writes[s].for
    <2>2. Append(counted[q], Sample(LabelOf(q), writes[s].outcome)) \in Seq(Samples)
      BY <2>1, AppendType DEF Samples
    <2>3. counted' = [counted EXCEPT ![q] = Append(counted[q], Sample(LabelOf(q), writes[s].outcome))]
      BY <1>10 DEF Count
    <2>4. counted' \in [Spans -> Seq(Samples)]
      <3> HIDE DEF q
      <3> QED
        BY <2>2, <2>3 DEF Samples
    <2> QED
      BY <1>10, <2>4 DEF Count, Places, Samples
  <1>11. ASSUME NEW s \in Spans, Observe(s) PROVE JobsTypeOK'
    <2>1. /\ writes[s].for \in Spans
          /\ Sample(LabelOf(writes[s].for), writes[s].outcome) \in Samples
      BY <1>9, <1>11 DEF Observe
    <2> DEFINE q == writes[s].for
    <2>2. Append(observed[q], Sample(LabelOf(q), writes[s].outcome)) \in Seq(Samples)
      BY <2>1, AppendType DEF Samples
    <2>3. observed' = [observed EXCEPT ![q] = Append(observed[q], Sample(LabelOf(q), writes[s].outcome))]
      BY <1>11 DEF Observe
    <2>4. observed' \in [Spans -> Seq(Samples)]
      <3> HIDE DEF q
      <3> QED
        BY <2>2, <2>3 DEF Samples
    <2>5. NoWrite \in [for : Spans \cup {None}, outcome : Outcomes]
      BY DEF NoWrite, Outcomes
    <2> QED
      BY <1>11, <2>4, <2>5 DEF Observe, Places, Samples
  <1>12. ASSUME NEW s \in Spans, FinishAgain(s) PROVE JobsTypeOK'
    <2>1. OutcomeOf(s) \in Outcomes
      BY <1>12 DEF FinishAgain, OutcomeOf, Outcomes, FramesFit
    <2>2. [for |-> s, outcome |-> OutcomeOf(s)] \in [for : Spans \cup {None}, outcome : Outcomes]
      BY <2>1
    <2>3. writes' \in [Spans -> [for : Spans \cup {None}, outcome : Outcomes]]
      BY <1>12, <2>2 DEF FinishAgain
    <2> QED
      BY <1>12, <2>3 DEF FinishAgain, samples, Places
  <1>13. ASSUME NEW s \in Spans, NEW o \in Outcomes, Record(s, o),
                UNCHANGED <<lane, service, frame, cm, writes, misused>>,
                pc' \in [Spans -> Places], work' = [work EXCEPT ![s] = o]
         PROVE  JobsTypeOK'
    <2>1. Recorded(o) \in Seq(Samples)
      BY RecordedType
    <2>2. counted[s] \o Recorded(o) \in Seq(Samples) /\ observed[s] \o Recorded(o) \in Seq(Samples)
      <3>1. counted[s] \in Seq(Samples) /\ observed[s] \in Seq(Samples)
        BY DEF Samples
      <3> QED
        BY <2>1, <3>1, ConcatType
    <2>3. counted' \in [Spans -> Seq(Samples)] /\ observed' \in [Spans -> Seq(Samples)]
      BY <1>13, <2>2 DEF Record, Samples
    <2> QED
      BY <1>13, <2>3 DEF Record, Samples
  <1>14. ASSUME NEW s \in Spans, NEW o \in Outcomes, RecordOnce(s, o),
                UNCHANGED <<lane, service, frame, cm, writes, misused>>,
                pc' \in [Spans -> Places]
         PROVE  JobsTypeOK'
    <2>1. CASE Taken(s)
      BY <1>14, <2>1 DEF RecordOnce, samples
    <2> QED
      BY <1>13, <1>14, <2>1 DEF RecordOnce
  <1>15. ASSUME NEW s \in Spans, NEW o \in Outcomes,
                ReturnValue(s, o) \/ Callback(s, o) \/ RunEnds(s, o)
         PROVE  JobsTypeOK'
    <2>1. pc' \in [Spans -> Places]
      BY <1>15 DEF ReturnValue, Callback, RunEnds, Places
    <2> QED
      BY <1>13, <1>14, <1>15, <2>1 DEF ReturnValue, Callback, RunEnds
  <1>16. ASSUME NEW s \in Spans, ReturnThenable(s) \/ ThenReturns(s) PROVE JobsTypeOK'
    <2>1. CASE ReturnThenable(s)
      BY <2>1 DEF ReturnThenable, samples, Places
    <2>2. CASE ThenReturns(s)
      BY <2>2 DEF ThenReturns, samples, Places
    <2> QED
      BY <1>16, <2>1, <2>2
  <1>17. ASSUME NEW s \in Spans, ThenThrows(s) PROVE JobsTypeOK'
    <2>1. pc' \in [Spans -> Places]
      BY <1>17 DEF ThenThrows, Places
    <2> QED
      BY <1>14, <1>17, <2>1 DEF ThenThrows, Outcomes
  <1>18. ASSUME NEW n \in Services, SetService(n) PROVE JobsTypeOK'
    BY <1>18 DEF SetService, samples
  <1>19. CASE UNCHANGED vars
    BY <1>19 DEF vars, samples
  <1> HIDE JobsAssumption DEF JobsTypeOK, Goto
  <1>20. ASSUME NEW s \in Spans, Start(s) PROVE JobsTypeOK'
    BY <1>1, <1>2, <1>3, <1>4, <1>20 DEF Start
  <1>21. ASSUME NEW s \in Spans, EndStep(s) PROVE JobsTypeOK'
    BY <1>7, <1>8, <1>10, <1>11, <1>21 DEF EndStep
  <1>22. ASSUME NEW s \in Spans, NEW o \in Outcomes, Settle(s, o) PROVE JobsTypeOK'
    BY <1>5, <1>15, <1>22 DEF Settle
  <1> QED
    BY <1>12, <1>16, <1>17, <1>18, <1>19, <1>20, <1>21, <1>22 DEF Next

-----------------------------------------------------------------------------
(* What the frames, the trackers and the writes refer to.                  *)

\* The closures and generators of the code fit together.
LEMMA FramesStep ==
    ASSUME JobsTypeOK, FramesFit, WritesFit, [Next]_vars
    PROVE  FramesFit'
  <1> USE JobsAssumption DEF JobsTypeOK, Goto
  <1>1. ASSUME NEW s \in Spans, NEW how \in Hows, Begin(s, how) PROVE FramesFit'
    <2>1. lane \in {"node", "go"}
      BY <1>1 DEF Begin
    <2>2. how # "with"
      BY <1>1, <2>1, ShapesAre DEF Begin
    <2> QED
      BY <1>1, <2>1, <2>2 DEF Begin, Starts, Frame, FramesFit, samples
  <1>2. ASSUME NEW s \in Spans, Refuse(s) PROVE FramesFit'
    BY <1>2 DEF Refuse, FramesFit, samples
  <1>3. ASSUME NEW s \in Spans, Enter(s) PROVE FramesFit'
    BY <1>3 DEF Enter, Starts, Frame, FramesFit, samples
  <1>4. ASSUME NEW s \in Spans, NEW t \in Trackers, EnterWith(s, t) PROVE FramesFit'
    BY <1>4 DEF EnterWith, Starts, Frame, FramesFit
  <1>5. ASSUME NEW s \in Spans, NEW o \in Outcomes, WorkEnds(s, o) PROVE FramesFit'
    BY <1>5 DEF WorkEnds, FramesFit, samples, Outcomes
  <1>6. ASSUME NEW s \in Spans, NEW p, Claim(s, p),
               UNCHANGED <<lane, service, frame, cm, samples, refused, work, misused>>
        PROVE  FramesFit'
    <2>1. CASE Taken(p)
      BY <1>6, <2>1 DEF Claim, FramesFit
    <2>2. CASE ~Taken(p)
      BY <1>6, <2>2 DEF Claim, FramesFit
    <2> QED
      BY <2>1, <2>2
  <1>7. ASSUME NEW s \in Spans, Finish(s) \/ Exit(s) PROVE FramesFit'
    BY <1>6, <1>7 DEF Finish, Exit
  <1>8. ASSUME NEW s \in Spans, Count(s) PROVE FramesFit'
    BY <1>8 DEF Count, FramesFit
  <1>9. ASSUME NEW s \in Spans, Observe(s) PROVE FramesFit'
    BY <1>9 DEF Observe, FramesFit
  <1>10. ASSUME NEW s \in Spans, FinishAgain(s) PROVE FramesFit'
    BY <1>10 DEF FinishAgain, FramesFit, samples
  <1>11. ASSUME NEW s \in Spans, NEW o \in Outcomes, lane = "node",
                RecordOnce(s, o) \/ (Record(s, o) /\ work' = [work EXCEPT ![s] = o]),
                pc' = pc \/ pc' = [pc EXCEPT ![s] = "returned"],
                UNCHANGED <<lane, service, frame, cm, writes, misused>>,
                pc[s] # "idle"
         PROVE  FramesFit'
    BY <1>11 DEF RecordOnce, Record, FramesFit
  <1>12. ASSUME NEW s \in Spans, NEW o \in Outcomes, ReturnValue(s, o) PROVE FramesFit'
    BY <1>11, <1>12 DEF ReturnValue
  <1>13. ASSUME NEW s \in Spans, NEW o \in Outcomes, RunEnds(s, o) PROVE FramesFit'
    BY <1>11, <1>13 DEF RunEnds
  <1>14. ASSUME NEW s \in Spans, NEW o \in Outcomes, Callback(s, o) PROVE FramesFit'
    <2>1. lane = "node"
      BY <1>14 DEF Callback, FramesFit
    <2> QED
      BY <1>11, <1>14, <2>1 DEF Callback
  <1>15. ASSUME NEW s \in Spans, ThenThrows(s) PROVE FramesFit'
    <2>1. lane = "node"
      BY <1>15 DEF ThenThrows, FramesFit
    <2> QED
      BY <1>11, <1>15, <2>1 DEF ThenThrows, Outcomes
  <1>16. ASSUME NEW s \in Spans, ReturnThenable(s) PROVE FramesFit'
    BY <1>16 DEF ReturnThenable, FramesFit, samples
  <1>17. ASSUME NEW s \in Spans, ThenReturns(s) PROVE FramesFit'
    BY <1>17 DEF ThenReturns, FramesFit, samples
  <1>18. ASSUME NEW n \in Services, SetService(n) PROVE FramesFit'
    BY <1>18 DEF SetService, FramesFit, samples
  <1>19. CASE UNCHANGED vars
    BY <1>19 DEF vars, FramesFit, samples
  <1> HIDE JobsAssumption DEF JobsTypeOK, Goto
  <1>20. ASSUME NEW s \in Spans, Start(s) PROVE FramesFit'
    BY <1>1, <1>2, <1>3, <1>4, <1>20 DEF Start
  <1>21. ASSUME NEW s \in Spans, EndStep(s) PROVE FramesFit'
    BY <1>7, <1>8, <1>9, <1>21 DEF EndStep
  <1>22. ASSUME NEW s \in Spans, NEW o \in Outcomes, Settle(s, o) PROVE FramesFit'
    BY <1>5, <1>12, <1>13, <1>14, <1>22 DEF Settle
  <1> QED
    BY <1>10, <1>15, <1>16, <1>17, <1>18, <1>19, <1>20, <1>21, <1>22 DEF Next

\* There is at most one pending write for a span, and its outcome is taken.
LEMMA WritesStep ==
    ASSUME JobsTypeOK, FramesFit, WritesFit, [Next]_vars
    PROVE  WritesFit'
  <1> USE JobsAssumption DEF JobsTypeOK, Goto
  <1>1. ASSUME NEW s \in Spans, NEW how \in Hows, Begin(s, how) PROVE WritesFit'
    BY <1>1 DEF Begin, WritesFit, samples
  <1>2. ASSUME NEW s \in Spans, Refuse(s) PROVE WritesFit'
    BY <1>2 DEF Refuse, WritesFit, samples
  <1>3. ASSUME NEW s \in Spans, Enter(s) PROVE WritesFit'
    BY <1>3 DEF Enter, WritesFit, samples
  <1>4. ASSUME NEW s \in Spans, NEW t \in Trackers, EnterWith(s, t) PROVE WritesFit'
    <2>1. \A p \in Abandoned(t) : p \in Spans /\ pc[p] # "idle" /\ p \notin refused
      BY DEF Abandoned, FramesFit
    <2>2. /\ lane' = lane /\ lane = "python" /\ pc[s] = "idle"
          /\ pc' = [pc EXCEPT ![s] = "working"]
          /\ settled' = settled \cup Abandoned(t)
          /\ UNCHANGED <<writes, refused>>
      BY <1>4 DEF EnterWith
    <2> QED
      BY <2>1, <2>2 DEF WritesFit
  <1>5. ASSUME NEW s \in Spans, NEW o \in Outcomes, WorkEnds(s, o) PROVE WritesFit'
    BY <1>5 DEF WorkEnds, WritesFit, samples
  <1>6. ASSUME NEW s \in Spans, NEW p \in Spans, Claim(s, p), lane # "node",
               pc[p] # "idle", p \notin refused, lane = "go" => p = s,
               UNCHANGED <<lane, service, frame, cm, samples, refused, work, misused>>
        PROVE  WritesFit'
    <2>1. CASE Taken(p)
      <3>1. /\ pc[s] = "ended" /\ pc' = [pc EXCEPT ![s] = "returned"]
            /\ p \in settled
            /\ UNCHANGED <<lane, settled, writes, refused>>
        BY <1>6, <2>1 DEF Claim, Taken
      <3>2. lane = "go" => s \in settled
        BY <1>6, <3>1
      <3> QED
        BY <3>1, <3>2 DEF WritesFit
    <2>2. CASE ~Taken(p)
      <3>1. /\ pc[s] = "ended" /\ pc' = [pc EXCEPT ![s] = "counting"]
            /\ settled' = settled \cup {p} /\ p \notin settled
            /\ writes' = [writes EXCEPT ![s] = [for |-> p, outcome |-> OutcomeOf(s)]]
        BY <1>6, <2>2 DEF Claim, Taken
      <3>2. \A r \in Spans : r # s => writes'[r] = writes[r]
        BY <3>1
      <3>3. writes'[s].for = p
        BY <3>1
      <3> QED
        BY <1>6, <3>1, <3>2, <3>3 DEF WritesFit
    <2> QED
      BY <2>1, <2>2
  <1>7. ASSUME NEW s \in Spans, Finish(s) PROVE WritesFit'
    <2>1. lane # "node" /\ pc[s] = "ended"
      BY <1>7 DEF Finish, Claim, FramesFit
    <2>2. s \notin refused
      BY <2>1 DEF FramesFit
    <2> QED
      BY <1>6, <1>7, <2>1, <2>2 DEF Finish
  <1>8. ASSUME NEW s \in Spans, Exit(s) PROVE WritesFit'
    <2>1. pc[s] = "ended" /\ frame[s].how = "with"
      BY <1>8 DEF Exit, Claim
    <2>2. frame[s].tracker \in Trackers /\ cm[frame[s].tracker] # None /\ lane = "python"
      BY <2>1 DEF FramesFit
    <2>3. /\ cm[frame[s].tracker] \in Spans /\ pc[cm[frame[s].tracker]] # "idle"
          /\ cm[frame[s].tracker] \notin refused
      BY <2>2 DEF FramesFit
    <2> QED
      BY <1>6, <1>8, <2>2, <2>3 DEF Exit
  <1>9. ASSUME NEW s \in Spans, Count(s) PROVE WritesFit'
    BY <1>9 DEF Count, WritesFit
  <1>10. ASSUME NEW s \in Spans, Observe(s) PROVE WritesFit'
    <2>1. /\ pc[s] = "observing" /\ pc' = [pc EXCEPT ![s] = "returned"]
          /\ writes' = [writes EXCEPT ![s] = NoWrite]
          /\ UNCHANGED <<lane, settled, refused>>
      BY <1>10 DEF Observe
    <2>2. writes'[s].for = None /\ (\A r \in Spans : r # s => writes'[r] = writes[r])
      BY <2>1 DEF NoWrite
    <2>3. lane = "go" => s \in settled
      BY <2>1 DEF WritesFit
    <2> QED
      BY <2>1, <2>2, <2>3 DEF WritesFit
  <1>11. ASSUME NEW s \in Spans, FinishAgain(s) PROVE WritesFit'
    <2>1. /\ lane = "go" /\ pc[s] = "returned"
          /\ UNCHANGED <<lane, settled, refused>>
      BY <1>11 DEF FinishAgain
    <2>2. s \in settled
      BY <2>1 DEF WritesFit
    <2>3. CASE pc' = pc /\ writes' = writes
      BY <2>1, <2>3 DEF WritesFit
    <2>4. CASE /\ pc' = [pc EXCEPT ![s] = "counting"]
               /\ writes' = [writes EXCEPT ![s] = [for |-> s, outcome |-> OutcomeOf(s)]]
      <3>1. writes'[s].for = s /\ (\A r \in Spans : r # s => writes'[r] = writes[r])
        BY <2>4
      <3> QED
        BY <2>1, <2>2, <2>4, <3>1 DEF WritesFit
    <2> QED
      BY <1>11, <2>1, <2>3, <2>4 DEF FinishAgain
  <1>12. ASSUME NEW s \in Spans, NEW o \in Outcomes, lane = "node",
                RecordOnce(s, o) \/ Record(s, o),
                pc' = pc \/ (pc' = [pc EXCEPT ![s] = "returned"]),
                UNCHANGED <<lane, service, frame, cm, writes, misused>>,
                pc[s] \in {"working", "then", "pending"}
         PROVE  WritesFit'
    BY <1>12 DEF RecordOnce, Record, WritesFit
  <1>13. ASSUME NEW s \in Spans, NEW o \in Outcomes, ReturnValue(s, o) PROVE WritesFit'
    BY <1>12, <1>13 DEF ReturnValue
  <1>14. ASSUME NEW s \in Spans, NEW o \in Outcomes, RunEnds(s, o) PROVE WritesFit'
    BY <1>12, <1>14 DEF RunEnds
  <1>15. ASSUME NEW s \in Spans, NEW o \in Outcomes, Callback(s, o) PROVE WritesFit'
    <2>1. lane = "node"
      BY <1>15 DEF Callback, FramesFit
    <2> QED
      BY <1>12, <1>15, <2>1 DEF Callback
  <1>16. ASSUME NEW s \in Spans, ThenThrows(s) PROVE WritesFit'
    <2>1. lane = "node"
      BY <1>16 DEF ThenThrows, FramesFit
    <2> QED
      BY <1>12, <1>16, <2>1 DEF ThenThrows, Outcomes
  <1>17. ASSUME NEW s \in Spans, ReturnThenable(s) PROVE WritesFit'
    BY <1>17 DEF ReturnThenable, WritesFit, samples
  <1>18. ASSUME NEW s \in Spans, ThenReturns(s) PROVE WritesFit'
    BY <1>18 DEF ThenReturns, WritesFit, FramesFit, samples
  <1>19. ASSUME NEW n \in Services, SetService(n) PROVE WritesFit'
    BY <1>19 DEF SetService, WritesFit, samples
  <1>20. CASE UNCHANGED vars
    BY <1>20 DEF vars, WritesFit, samples
  <1> HIDE JobsAssumption DEF JobsTypeOK, Goto
  <1>21. ASSUME NEW s \in Spans, Start(s) PROVE WritesFit'
    BY <1>1, <1>2, <1>3, <1>4, <1>21 DEF Start
  <1>22. ASSUME NEW s \in Spans, EndStep(s) PROVE WritesFit'
    BY <1>7, <1>8, <1>9, <1>10, <1>22 DEF EndStep
  <1>23. ASSUME NEW s \in Spans, NEW o \in Outcomes, Settle(s, o) PROVE WritesFit'
    BY <1>5, <1>13, <1>14, <1>15, <1>23 DEF Settle
  <1> QED
    BY <1>11, <1>16, <1>17, <1>18, <1>19, <1>20, <1>21, <1>22, <1>23 DEF Next

-----------------------------------------------------------------------------
(* The two metrics.                                                        *)

\* The counter and the histogram differ by the pending write only.
LEMMA PairsStep ==
    ASSUME JobsTypeOK, FramesFit, WritesFit, PairsFit, [Next]_vars
    PROVE  PairsFit'
  <1> USE JobsAssumption DEF JobsTypeOK, Goto
  <1>a. \A s \in Spans : pc[s] \in {"counting", "observing"} =>
          /\ writes[s].for \in Spans /\ writes[s].for \in settled
          /\ pc[writes[s].for] # "idle"
    BY DEF WritesFit
  <1>b. \A p \in Spans : p \notin settled => counted[p] = observed[p]
    <2> SUFFICES ASSUME NEW p \in Spans, p \notin settled
                 PROVE  \A s \in Spans : writes[s].for # p
      BY DEF PairsFit
    <2> QED
      BY DEF WritesFit
  <1>c. \A s \in Spans : lane = "node" => writes[s].for = None
    BY DEF WritesFit, FramesFit
  <1>1. ASSUME NEW s \in Spans, pc[s] = "idle",
               pc' = [pc EXCEPT ![s] = "working"] \/ pc' = [pc EXCEPT ![s] = "returned"],
               \A r \in Spans : r # s => frame'[r] = frame[r],
               UNCHANGED <<writes, counted, observed>>
        PROVE  PairsFit'
    <2>1. \A r \in Spans : pc'[r] \in {"counting", "observing"} => pc'[r] = pc[r]
      BY <1>1
    <2>2. \A r \in Spans : pc'[r] \in {"counting", "observing"} =>
            frame'[writes[r].for] = frame[writes[r].for]
      BY <1>1, <1>a, <2>1
    <2> QED
      BY <1>1, <2>1, <2>2 DEF PairsFit, LabelOf
  <1>2. ASSUME NEW s \in Spans, NEW how \in Hows, Begin(s, how) PROVE PairsFit'
    BY <1>1, <1>2 DEF Begin, Starts, samples
  <1>3. ASSUME NEW s \in Spans, Refuse(s) \/ Enter(s) PROVE PairsFit'
    BY <1>1, <1>3 DEF Refuse, Enter, Starts, samples
  <1>4. ASSUME NEW s \in Spans, NEW t \in Trackers, EnterWith(s, t) PROVE PairsFit'
    <2>1. \A p \in Spans : p \in Abandoned(t) => p \notin settled
      BY DEF Abandoned
    <2>2. /\ pc[s] = "idle" /\ pc' = [pc EXCEPT ![s] = "working"]
          /\ \A r \in Spans : r # s => frame'[r] = frame[r]
          /\ counted' = WithError(counted, t) /\ observed' = WithError(observed, t)
          /\ writes' = writes
      BY <1>4 DEF EnterWith, Starts
    <2>3. \A p \in Spans : counted[p] = observed[p] => counted'[p] = observed'[p]
      BY <2>2 DEF WithError
    <2>4. \A p \in Spans : p \in settled => counted'[p] = counted[p] /\ observed'[p] = observed[p]
      BY <2>1, <2>2 DEF WithError
    <2>5. \A r \in Spans : pc'[r] \in {"counting", "observing"} =>
            r # s /\ pc'[r] = pc[r] /\ writes[r].for # s
      BY <2>2, <1>a
    <2> QED
      BY SMTT(20), <1>a, <2>2, <2>3, <2>4, <2>5 DEF PairsFit, LabelOf
  <1>5. ASSUME NEW s \in Spans, NEW o \in Outcomes, WorkEnds(s, o) PROVE PairsFit'
    BY <1>5 DEF WorkEnds, PairsFit, LabelOf, samples
  <1>6. ASSUME NEW s \in Spans, NEW p \in Spans, Claim(s, p),
               UNCHANGED <<frame, counted, observed>>
        PROVE  PairsFit'
    <2>1. CASE Taken(p)
      BY <1>6, <2>1 DEF Claim, PairsFit, LabelOf
    <2>2. CASE ~Taken(p)
      <3>1. /\ pc[s] = "ended" /\ pc' = [pc EXCEPT ![s] = "counting"] /\ p \notin settled
            /\ writes' = [writes EXCEPT ![s] = [for |-> p, outcome |-> OutcomeOf(s)]]
        BY <1>6, <2>2 DEF Claim, Taken
      <3>2. writes'[s].for = p /\ \A r \in Spans : r # s => writes'[r] = writes[r]
        BY <3>1
      <3>3. writes[s].for = None
        BY <3>1 DEF WritesFit
      <3> QED
        BY <1>6, <1>b, <3>1, <3>2, <3>3 DEF PairsFit, LabelOf
    <2> QED
      BY <2>1, <2>2
  <1>7. ASSUME NEW s \in Spans, Finish(s) PROVE PairsFit'
    BY <1>6, <1>7 DEF Finish, samples
  <1>8. ASSUME NEW s \in Spans, Exit(s) PROVE PairsFit'
    <2>1. frame[s].how = "with"
      BY <1>8 DEF Exit
    <2>2. frame[s].tracker \in Trackers /\ cm[frame[s].tracker] # None
      BY <2>1 DEF FramesFit
    <2>3. cm[frame[s].tracker] \in Spans
      BY <2>2
    <2> QED
      BY <1>6, <1>8, <2>3 DEF Exit, samples
  <1>9. ASSUME NEW s \in Spans, Count(s) PROVE PairsFit'
    <2> DEFINE p == writes[s].for
               e == Sample(LabelOf(p), writes[s].outcome)
    <2>1. /\ pc[s] = "counting" /\ pc' = [pc EXCEPT ![s] = "observing"]
          /\ counted' = [counted EXCEPT ![p] = Append(counted[p], e)]
          /\ UNCHANGED <<frame, writes, observed>>
      BY <1>9 DEF Count
    <2>2. p \in Spans /\ \A r \in Spans : r # s => writes[r].for # p
      BY <1>a, <2>1 DEF WritesFit
    <2>3. counted'[p] = Append(counted[p], e) /\ \A q \in Spans : q # p => counted'[q] = counted[q]
      <3> HIDE DEF p, e
      <3> QED
        BY <2>1, <2>2
    <2>4. counted[p] = observed[p]
      BY <2>1 DEF PairsFit
    <2>5. ASSUME NEW q \in Spans, \A r \in Spans : writes[r].for # q
          PROVE  counted'[q] = observed'[q]
      BY <2>1, <2>3, <2>5 DEF PairsFit
    <2>6. pc'[s] = "observing" /\ counted'[p] = Append(observed'[p], e) /\ LabelOf(p)' = LabelOf(p)
      BY <2>1, <2>3, <2>4 DEF LabelOf
    <2>7. \A r \in Spans : r # s =>
            /\ pc'[r] = pc[r] /\ counted'[writes[r].for] = counted[writes[r].for]
      BY <2>1, <2>2
    <2> HIDE DEF p, e
    <2>8. ASSUME NEW r \in Spans
          PROVE  /\ pc'[r] = "counting" => counted'[writes[r].for] = observed'[writes[r].for]
                 /\ pc'[r] = "observing" =>
                      counted'[writes[r].for] =
                        Append(observed'[writes[r].for],
                               Sample(LabelOf(writes[r].for), writes[r].outcome))
      BY <2>1, <2>6, <2>7 DEF PairsFit, p, e
    <2> QED
      BY <2>1, <2>5, <2>8 DEF PairsFit, LabelOf
  <1>10. ASSUME NEW s \in Spans, Observe(s) PROVE PairsFit'
    <2> DEFINE p == writes[s].for
               e == Sample(LabelOf(p), writes[s].outcome)
    <2>1. /\ pc[s] = "observing" /\ pc' = [pc EXCEPT ![s] = "returned"]
          /\ observed' = [observed EXCEPT ![p] = Append(observed[p], e)]
          /\ writes' = [writes EXCEPT ![s] = NoWrite]
          /\ UNCHANGED <<frame, counted>>
      BY <1>10 DEF Observe
    <2>2. p \in Spans /\ \A r \in Spans : r # s => writes[r].for # p
      BY <1>a, <2>1 DEF WritesFit
    <2>3. observed'[p] = Append(observed[p], e) /\ \A q \in Spans : q # p => observed'[q] = observed[q]
      <3> HIDE DEF p, e
      <3> QED
        BY <2>1, <2>2
    <2>4. counted[p] = Append(observed[p], e)
      BY <2>1 DEF PairsFit
    <2>5. \A r \in Spans : r # s => writes'[r] = writes[r]
      BY <2>1
    <2>6. writes'[s].for = None
      BY <2>1 DEF NoWrite
    <2>7. ASSUME NEW q \in Spans, \A r \in Spans : writes'[r].for # q
          PROVE  counted'[q] = observed'[q]
      <3>1. CASE q = p
        BY <2>1, <2>3, <2>4, <3>1
      <3>2. CASE q # p
        <4>1. \A r \in Spans : writes[r].for # q
          BY <2>5, <2>7, <3>2
        <4> QED
          BY <2>1, <2>3, <3>2, <4>1 DEF PairsFit
      <3> QED
        BY <3>1, <3>2
    <2>8. \A r \in Spans : r # s =>
            /\ pc'[r] = pc[r] /\ observed'[writes[r].for] = observed[writes[r].for]
      BY <2>1, <2>2
    <2>9. ASSUME NEW r \in Spans, pc'[r] \in {"counting", "observing"}
          PROVE  r # s
      BY <2>1, <2>9
    <2> HIDE DEF p, e
    <2>10. ASSUME NEW r \in Spans
           PROVE  /\ pc'[r] = "counting" => counted'[writes'[r].for] = observed'[writes'[r].for]
                  /\ pc'[r] = "observing" =>
                       counted'[writes'[r].for] =
                         Append(observed'[writes'[r].for],
                                Sample(LabelOf(writes'[r].for), writes'[r].outcome))
      <3>1. CASE r = s
        BY <2>9, <3>1
      <3>2. CASE r # s
        <4>1. /\ writes'[r] = writes[r] /\ pc'[r] = pc[r] /\ counted' = counted
              /\ observed'[writes[r].for] = observed[writes[r].for]
          BY <2>1, <2>5, <2>8, <3>2
        <4> QED
          BY <4>1 DEF PairsFit
      <3> QED
        BY <3>1, <3>2
    <2> QED
      BY <2>1, <2>7, <2>10 DEF PairsFit, LabelOf
  <1>11. ASSUME NEW s \in Spans, FinishAgain(s) PROVE PairsFit'
    <2>1. /\ lane = "go" /\ pc[s] = "returned"
          /\ UNCHANGED <<frame, counted, observed>>
      BY <1>11 DEF FinishAgain, samples
    <2>2. CASE pc' = pc /\ writes' = writes
      BY <2>1, <2>2 DEF PairsFit, LabelOf
    <2>3. CASE /\ pc' = [pc EXCEPT ![s] = "counting"]
               /\ writes' = [writes EXCEPT ![s] = [for |-> s, outcome |-> OutcomeOf(s)]]
      <3>1. writes'[s].for = s /\ (\A r \in Spans : r # s => writes'[r] = writes[r])
        BY <2>3
      <3>2. \A r \in Spans : writes[r].for # s
        BY <2>1 DEF WritesFit
      <3>3. writes[s].for = None
        BY <2>1 DEF WritesFit
      <3> QED
        BY <2>1, <2>3, <3>1, <3>2, <3>3 DEF PairsFit, LabelOf
    <2> QED
      BY <1>11, <2>1, <2>2, <2>3 DEF FinishAgain
  <1>12. ASSUME NEW s \in Spans, NEW o \in Outcomes, lane = "node",
                RecordOnce(s, o) \/ Record(s, o),
                pc' = pc \/ (pc' = [pc EXCEPT ![s] = "returned"])
         PROVE  PairsFit'
    <2>1. \A p \in Spans : counted[p] = observed[p]
      BY <1>c, <1>12 DEF PairsFit
    <2>2. counted = observed
      BY <2>1
    <2>3. counted' = observed'
      <3>1. CASE UNCHANGED samples
        BY <2>2, <3>1 DEF samples
      <3>2. CASE Record(s, o)
        BY <2>2, <3>2 DEF Record
      <3> QED
        BY <1>12, <3>1, <3>2 DEF RecordOnce
    <2>4. \A r \in Spans : pc'[r] \notin {"counting", "observing"}
      BY <1>12 DEF FramesFit
    <2> QED
      BY <2>3, <2>4 DEF PairsFit
  <1>13. ASSUME NEW s \in Spans, NEW o \in Outcomes,
                ReturnValue(s, o) \/ RunEnds(s, o)
         PROVE  PairsFit'
    BY <1>12, <1>13 DEF ReturnValue, RunEnds
  <1>14. ASSUME NEW s \in Spans, NEW o \in Outcomes, Callback(s, o) PROVE PairsFit'
    <2>1. lane = "node"
      BY <1>14 DEF Callback, FramesFit
    <2> QED
      BY <1>12, <1>14, <2>1 DEF Callback
  <1>15. ASSUME NEW s \in Spans, ThenThrows(s) PROVE PairsFit'
    <2>1. lane = "node"
      BY <1>15 DEF ThenThrows, FramesFit
    <2> QED
      BY <1>12, <1>15, <2>1 DEF ThenThrows, Outcomes
  <1>16. ASSUME NEW s \in Spans, ReturnThenable(s) PROVE PairsFit'
    BY <1>16 DEF ReturnThenable, PairsFit, LabelOf, samples
  <1>17. ASSUME NEW s \in Spans, ThenReturns(s) PROVE PairsFit'
    BY <1>17 DEF ThenReturns, PairsFit, LabelOf, samples
  <1>18. ASSUME NEW n \in Services, SetService(n) PROVE PairsFit'
    BY <1>18 DEF SetService, PairsFit, LabelOf, samples
  <1>19. CASE UNCHANGED vars
    BY <1>19 DEF vars, PairsFit, LabelOf, samples
  <1> HIDE JobsAssumption DEF JobsTypeOK, Goto
  <1>20. ASSUME NEW s \in Spans, Start(s) PROVE PairsFit'
    BY <1>2, <1>3, <1>4, <1>20 DEF Start
  <1>21. ASSUME NEW s \in Spans, EndStep(s) PROVE PairsFit'
    BY <1>7, <1>8, <1>9, <1>10, <1>21 DEF EndStep
  <1>22. ASSUME NEW s \in Spans, NEW o \in Outcomes, Settle(s, o) PROVE PairsFit'
    BY <1>5, <1>13, <1>14, <1>22 DEF Settle
  <1> QED
    BY <1>11, <1>15, <1>16, <1>17, <1>18, <1>19, <1>20, <1>21, <1>22 DEF Next

-----------------------------------------------------------------------------
(* Counted once.                                                           *)

\* The first sample of a span is the only one.
LEMMA FirstSample ==
    /\ Len(<< >>) = 0
    /\ \A e : Len(Append(<< >>, e)) = 1 /\ Append(<< >>, e)[1] = e
  OBVIOUS

\* What Node records for a span without a sample.
LEMMA FirstRecord ==
    ASSUME NEW o
    PROVE  /\ Len(<< >> \o Recorded(o)) <= 1
           /\ service # None =>
                Len(<< >> \o Recorded(o)) = 1 /\ (<< >> \o Recorded(o))[1] = Sample(service, o)
  <1>1. CASE service = None
    BY <1>1 DEF Recorded
  <1>2. CASE service # None
    <2>1. Recorded(o) = <<Sample(service, o)>>
      BY <1>2 DEF Recorded
    <2> QED
      BY <2>1
  <1> QED
    BY <1>1, <1>2

\* No span gets a second sample, but by a second call of TrackJob's function.
LEMMA OnceStep ==
    ASSUME JobsTypeOK, FramesFit, WritesFit, PairsFit, OnceFit, [Next]_vars
    PROVE  OnceFit'
  <1> USE JobsAssumption DEF JobsTypeOK, Goto
  <1>a. \A s \in Spans : pc[s] \in {"counting", "observing"} =>
          /\ writes[s].for \in Spans /\ writes[s].for \in settled
          /\ \A r \in Spans : r # s => writes[r].for # writes[s].for
    BY DEF WritesFit
  <1>b. \A p \in Spans : pc[p] = "idle" => p \notin settled
    BY DEF WritesFit
  <1>c. \A s, p \in Spans : p \notin settled => writes[s].for # p
    BY DEF WritesFit
  <1>d. \A s \in Spans : lane = "node" => writes[s].for = None
    BY DEF WritesFit, FramesFit
  <1>1. ASSUME NEW s \in Spans, pc[s] = "idle",
               \A r \in Spans : r # s => frame'[r] = frame[r] /\ pc'[r] = pc[r],
               UNCHANGED <<lane, writes, counted, observed, settled, misused>>
        PROVE  OnceFit'
    <2>1. s \notin settled /\ counted[s] = << >> /\ observed[s] = << >>
      BY <1>1, <1>b DEF OnceFit
    <2>2. ASSUME NEW p \in Spans, p # s
          PROVE  /\ pc'[p] = pc[p]
                 /\ DoneTwice(p)' <=> DoneTwice(p)
      BY <1>1, <2>2 DEF DoneTwice
    <2> QED
      BY <1>1, <1>c, <2>1, <2>2, FirstSample DEF OnceFit
  <1>2. ASSUME NEW s \in Spans, NEW how \in Hows, Begin(s, how) PROVE OnceFit'
    BY <1>1, <1>2 DEF Begin, Starts, samples
  <1>3. ASSUME NEW s \in Spans, Refuse(s) \/ Enter(s) PROVE OnceFit'
    BY <1>1, <1>3 DEF Refuse, Enter, Starts, samples
  <1>4. ASSUME NEW s \in Spans, NEW t \in Trackers, EnterWith(s, t) PROVE OnceFit'
    <2>1. /\ pc[s] = "idle" /\ pc' = [pc EXCEPT ![s] = "working"] /\ lane' = "python"
          /\ \A r \in Spans : r # s => frame'[r] = frame[r]
          /\ counted' = WithError(counted, t) /\ observed' = WithError(observed, t)
          /\ settled' = settled \cup Abandoned(t)
          /\ misused \subseteq misused'
          /\ writes' = writes
      BY <1>4 DEF EnterWith, Starts
    <2>2. \A p \in Spans : p \notin Abandoned(t) =>
            counted'[p] = counted[p] /\ observed'[p] = observed[p]
      BY <2>1 DEF WithError
    <2>3. ASSUME NEW p \in Spans, p \in Abandoned(t)
          PROVE  /\ p \notin settled /\ p \in settled'
                 /\ Len(counted'[p]) = 1 /\ Len(observed'[p]) = 1
                 /\ \A r \in Spans : writes'[r].for # p
      <3>1. p \notin settled
        BY <2>3 DEF Abandoned
      <3>2. counted[p] = << >> /\ observed[p] = << >>
        BY <3>1 DEF OnceFit
      <3> DEFINE e == Sample(LabelOf(p), "error")
      <3>3. counted'[p] = Append(<< >>, e) /\ observed'[p] = Append(<< >>, e)
        BY <2>1, <2>3, <3>2 DEF WithError
      <3> HIDE DEF e
      <3> QED
        BY <1>c, <2>1, <2>3, <3>1, <3>3, FirstSample
    <2>4. s \notin Abandoned(t) /\ counted[s] = << >> /\ observed[s] = << >>
          /\ \A r \in Spans : writes'[r].for # s
      BY <1>b, <1>c, <2>1 DEF OnceFit, Abandoned, FramesFit
    <2>5. ASSUME NEW p \in Spans, p # s, p \notin Abandoned(t)
          PROVE  DoneTwice(p) => DoneTwice(p)'
      BY <2>1, <2>5 DEF DoneTwice
    <2>6. ASSUME NEW p \in Spans
          PROVE  /\ p \notin settled' => counted'[p] = << >> /\ observed'[p] = << >>
                 /\ ~DoneTwice(p)' =>
                      /\ Len(counted'[p]) <= 1 /\ Len(observed'[p]) <= 1
                      /\ \A r \in Spans : writes'[r].for = p => observed'[p] = << >>
      <3>1. CASE p \in Abandoned(t)
        <4>1. Len(counted'[p]) = 1 /\ Len(observed'[p]) = 1
          BY <2>3, <3>1
        <4>2. p \in settled' /\ \A r \in Spans : writes'[r].for # p
          BY <2>3, <3>1
        <4> QED
          BY <4>1, <4>2
      <3>2. CASE p = s
        <4>1. counted'[p] = << >> /\ observed'[p] = << >>
          BY <2>2, <2>4, <3>2
        <4> QED
          BY <4>1, FirstSample
      <3>3. CASE p # s /\ p \notin Abandoned(t)
        <4>1. counted'[p] = counted[p] /\ observed'[p] = observed[p]
          BY <2>2, <3>3
        <4>2. p \notin settled' => p \notin settled
          BY <2>1
        <4>3. ~DoneTwice(p)' => ~DoneTwice(p)
          BY <2>5, <3>3
        <4> QED
          BY <2>1, <4>1, <4>2, <4>3 DEF OnceFit
      <3> QED
        BY <3>1, <3>2, <3>3
    <2> QED
      BY <2>1, <2>6 DEF OnceFit
  <1>5. ASSUME NEW s \in Spans, NEW o \in Outcomes, WorkEnds(s, o) PROVE OnceFit'
    BY <1>5 DEF WorkEnds, OnceFit, DoneTwice, samples
  <1>6. ASSUME NEW s \in Spans, NEW p \in Spans, Claim(s, p),
               UNCHANGED <<lane, frame, counted, observed, misused>>
        PROVE  OnceFit'
    <2>1. CASE Taken(p)
      BY <1>6, <2>1 DEF Claim, OnceFit, DoneTwice
    <2>2. CASE ~Taken(p)
      <3>1. /\ pc[s] = "ended" /\ pc' = [pc EXCEPT ![s] = "counting"]
            /\ p \notin settled /\ settled' = settled \cup {p}
            /\ writes' = [writes EXCEPT ![s] = [for |-> p, outcome |-> OutcomeOf(s)]]
        BY <1>6, <2>2 DEF Claim, Taken
      <3>2. lane # "node"
        BY <3>1 DEF FramesFit
      <3>3. writes'[s].for = p /\ \A r \in Spans : r # s => writes'[r] = writes[r]
        BY <3>1
      <3> QED
        BY <1>6, <3>1, <3>2, <3>3 DEF OnceFit, DoneTwice
    <2> QED
      BY <2>1, <2>2
  <1>7. ASSUME NEW s \in Spans, Finish(s) PROVE OnceFit'
    BY <1>6, <1>7 DEF Finish, samples
  <1>8. ASSUME NEW s \in Spans, Exit(s) PROVE OnceFit'
    <2>1. frame[s].how = "with"
      BY <1>8 DEF Exit
    <2>2. frame[s].tracker \in Trackers /\ cm[frame[s].tracker] # None
      BY <2>1 DEF FramesFit
    <2>3. cm[frame[s].tracker] \in Spans
      BY <2>2
    <2> QED
      BY <1>6, <1>8, <2>3 DEF Exit, samples
  <1>9. ASSUME NEW s \in Spans, Count(s) PROVE OnceFit'
    <2> DEFINE p == writes[s].for
               e == Sample(LabelOf(p), writes[s].outcome)
    <2>1. /\ pc[s] = "counting" /\ pc' = [pc EXCEPT ![s] = "observing"]
          /\ counted' = [counted EXCEPT ![p] = Append(counted[p], e)]
          /\ UNCHANGED <<lane, frame, settled, writes, observed, misused>>
      BY <1>9 DEF Count
    <2>2. p \in Spans /\ p \in settled
      BY <1>a, <2>1
    <2>3. counted'[p] = Append(counted[p], e) /\ \A q \in Spans : q # p => counted'[q] = counted[q]
      <3> HIDE DEF p, e
      <3> QED
        BY <2>1, <2>2
    <2>4. ~DoneTwice(p) => counted[p] = << >>
      BY <2>1, <2>2 DEF PairsFit, OnceFit
    <2>5. ~DoneTwice(p) => Len(counted'[p]) = 1
      <3> HIDE DEF p, e
      <3> QED
        BY <2>3, <2>4, FirstSample
    <2>6. \A q \in Spans : (DoneTwice(q)' <=> DoneTwice(q)) /\ (pc'[q] = "working" => pc[q] = "working")
      BY <2>1 DEF DoneTwice
    <2> HIDE DEF p, e
    <2> QED
      BY <2>1, <2>2, <2>3, <2>5, <2>6 DEF OnceFit
  <1>10. ASSUME NEW s \in Spans, Observe(s) PROVE OnceFit'
    <2> DEFINE p == writes[s].for
               e == Sample(LabelOf(p), writes[s].outcome)
    <2>1. /\ pc[s] = "observing" /\ pc' = [pc EXCEPT ![s] = "returned"]
          /\ observed' = [observed EXCEPT ![p] = Append(observed[p], e)]
          /\ writes' = [writes EXCEPT ![s] = NoWrite]
          /\ UNCHANGED <<lane, frame, settled, counted, misused>>
      BY <1>10 DEF Observe
    <2>2. p \in Spans /\ p \in settled /\ \A r \in Spans : r # s => writes[r].for # p
      BY <1>a, <2>1
    <2>3. observed'[p] = Append(observed[p], e) /\ \A q \in Spans : q # p => observed'[q] = observed[q]
      <3> HIDE DEF p, e
      <3> QED
        BY <2>1, <2>2
    <2>4. ~DoneTwice(p) => observed[p] = << >>
      BY <2>2 DEF OnceFit
    <2>5. ~DoneTwice(p) => Len(observed'[p]) = 1
      <3> HIDE DEF p, e
      <3> QED
        BY <2>3, <2>4, FirstSample
    <2>6. \A q \in Spans : (DoneTwice(q)' <=> DoneTwice(q)) /\ (pc'[q] = "working" => pc[q] = "working")
      BY <2>1 DEF DoneTwice
    <2>7. writes'[s].for = None /\ \A r \in Spans : r # s => writes'[r] = writes[r]
      BY <2>1 DEF NoWrite
    <2>8. \A r \in Spans : writes'[r].for # p
      BY <2>2, <2>7
    <2> HIDE DEF p, e
    <2> QED
      BY <2>1, <2>2, <2>3, <2>5, <2>6, <2>7, <2>8 DEF OnceFit
  <1>11. ASSUME NEW s \in Spans, FinishAgain(s) PROVE OnceFit'
    <2>1. /\ lane = "go" /\ pc[s] = "returned"
          /\ UNCHANGED <<lane, frame, settled, counted, observed>>
      BY <1>11 DEF FinishAgain, samples
    <2>2. s \in settled
      BY <2>1 DEF WritesFit
    <2>3. CASE frame[s].how = "done"
      <3>1. DoneTwice(s)' /\ misused \subseteq misused'
        BY <1>11, <2>1, <2>3 DEF FinishAgain, DoneTwice
      <3>2. \A r \in Spans : r # s => writes'[r] = writes[r]
        BY <1>11 DEF FinishAgain
      <3>3. writes'[s].for = s
        BY <1>11, <2>3 DEF FinishAgain
      <3>4. ASSUME NEW p \in Spans, ~DoneTwice(p)'
            PROVE  /\ p # s /\ ~DoneTwice(p)
                   /\ \A r \in Spans : writes'[r].for = p => writes[r].for = p
        BY <2>1, <3>1, <3>2, <3>3, <3>4 DEF DoneTwice
      <3> QED
        BY <2>1, <3>4 DEF OnceFit
    <2>4. CASE frame[s].how # "done"
      <3>1. UNCHANGED <<writes, misused>>
        BY <1>11, <2>2, <2>4 DEF FinishAgain, Taken
      <3> QED
        BY <2>1, <3>1 DEF OnceFit, DoneTwice
    <2> QED
      BY <2>3, <2>4
  <1>12. ASSUME NEW s \in Spans, NEW o \in Outcomes, lane = "node", lane' = lane,
                Record(s, o), s \notin settled,
                UNCHANGED <<frame, writes, misused>>,
                pc'[s] # "working", \A r \in Spans : r # s => pc'[r] = pc[r]
         PROVE  OnceFit'
    <2>1. counted[s] = << >> /\ observed[s] = << >>
      BY <1>12 DEF OnceFit
    <2>2. counted'[s] = << >> \o Recorded(o) /\ observed'[s] = << >> \o Recorded(o)
      BY <1>12, <2>1 DEF Record
    <2>3. Len(counted'[s]) <= 1 /\ Len(observed'[s]) <= 1
      BY <2>2, FirstRecord
    <2>4. \A r \in Spans : r # s => counted'[r] = counted[r] /\ observed'[r] = observed[r]
      BY <1>12 DEF Record
    <2>5. settled' = settled \cup {s}
      BY <1>12 DEF Record
    <2>6. \A p \in Spans : DoneTwice(p)' <=> DoneTwice(p)
      BY <1>12 DEF DoneTwice
    <2>7. \A r \in Spans : writes'[r].for = None
      BY <1>12, <1>d
    <2> QED
      BY <1>12, <2>3, <2>4, <2>5, <2>6, <2>7 DEF OnceFit
  <1>13. ASSUME NEW s \in Spans, NEW o \in Outcomes, lane = "node", lane' = lane,
                RecordOnce(s, o),
                UNCHANGED <<frame, writes, misused>>,
                pc'[s] # "working", \A r \in Spans : r # s => pc'[r] = pc[r]
         PROVE  OnceFit'
    <2>1. CASE Taken(s)
      BY <1>13, <2>1 DEF RecordOnce, OnceFit, DoneTwice, samples
    <2>2. CASE ~Taken(s)
      BY <1>12, <1>13, <2>2 DEF RecordOnce, Taken
    <2> QED
      BY <2>1, <2>2
  <1>14. ASSUME NEW s \in Spans, NEW o \in Outcomes, ReturnValue(s, o) PROVE OnceFit'
    BY <1>13, <1>14 DEF ReturnValue
  <1>15. ASSUME NEW s \in Spans, NEW o \in Outcomes, RunEnds(s, o) PROVE OnceFit'
    <2>1. s \notin settled
      BY <1>15 DEF RunEnds, OnceFit
    <2> QED
      BY <1>12, <1>15, <2>1 DEF RunEnds
  <1>16. ASSUME NEW s \in Spans, NEW o \in Outcomes, Callback(s, o) PROVE OnceFit'
    <2>1. lane = "node"
      BY <1>16 DEF Callback, FramesFit
    <2> QED
      BY <1>13, <1>16, <2>1 DEF Callback
  <1>17. ASSUME NEW s \in Spans, ThenThrows(s) PROVE OnceFit'
    <2>1. lane = "node"
      BY <1>17 DEF ThenThrows, FramesFit
    <2> QED
      BY <1>13, <1>17, <2>1 DEF ThenThrows, Outcomes
  <1>18. ASSUME NEW s \in Spans, ReturnThenable(s) PROVE OnceFit'
    BY <1>18 DEF ReturnThenable, OnceFit, DoneTwice, samples
  <1>19. ASSUME NEW s \in Spans, ThenReturns(s) PROVE OnceFit'
    BY <1>19 DEF ThenReturns, OnceFit, DoneTwice, samples
  <1>20. ASSUME NEW n \in Services, SetService(n) PROVE OnceFit'
    BY <1>20 DEF SetService, OnceFit, DoneTwice, samples
  <1>21. CASE UNCHANGED vars
    BY <1>21 DEF vars, OnceFit, DoneTwice, samples
  <1> HIDE JobsAssumption DEF JobsTypeOK, Goto
  <1>22. ASSUME NEW s \in Spans, Start(s) PROVE OnceFit'
    BY <1>2, <1>3, <1>4, <1>22 DEF Start
  <1>23. ASSUME NEW s \in Spans, EndStep(s) PROVE OnceFit'
    BY <1>7, <1>8, <1>9, <1>10, <1>23 DEF EndStep
  <1>24. ASSUME NEW s \in Spans, NEW o \in Outcomes, Settle(s, o) PROVE OnceFit'
    BY <1>5, <1>14, <1>15, <1>16, <1>24 DEF Settle
  <1> QED
    BY <1>11, <1>17, <1>18, <1>19, <1>20, <1>21, <1>22, <1>23, <1>24 DEF Next

-----------------------------------------------------------------------------
(* The outcome of the work.                                                *)

\* A span that shares its tracker with no other is ended by its own end, with the
\* outcome of its work.
LEMMA OutcomesStep ==
    ASSUME JobsTypeOK, FramesFit, WritesFit, PairsFit, OnceFit, OutcomesFit, [Next]_vars
    PROVE  OutcomesFit'
  <1> USE JobsAssumption DEF JobsTypeOK, Goto
  <1>a. \A s \in Spans : pc[s] \in {"counting", "observing"} =>
          /\ writes[s].for \in Spans /\ writes[s].for \in settled
          /\ \A r \in Spans : r # s => writes[r].for # writes[s].for
    BY DEF WritesFit
  <1>b. \A s, p \in Spans : p \notin settled => writes[s].for # p
    BY DEF WritesFit
  <1>c. \A s \in Spans : pc[s] = "idle" => s \notin settled /\ \A r \in Spans : writes[r].for # s
    BY <1>b DEF WritesFit
  <1>d. lane # "python" => \A s \in Spans : frame[s].how # "with"
    BY DEF FramesFit
  <1>1. ASSUME NEW s \in Spans, pc[s] = "idle",
               pc' = [pc EXCEPT ![s] = "working"],
               \A r \in Spans : r # s => frame'[r] = frame[r],
               frame'[s].how # "with", frame'[s].tracker = None,
               lane = "node" => frame'[s].how # "done",
               UNCHANGED <<lane, cm, writes, counted, settled, refused, work, misused>>
        PROVE  OutcomesFit'
    <2>1. \A p \in Spans : frame[p].how = "with" => frame[p].tracker # None
      BY DEF FramesFit
    <2>2. ASSUME NEW p \in Spans, p # s
          PROVE  /\ frame'[p] = frame[p] /\ pc'[p] = pc[p]
                 /\ Entered(p)' <=> Entered(p)
                 /\ OutcomeOf(p)' = OutcomeOf(p)
      BY <1>1, <2>2 DEF Entered, OutcomeOf
    <2>3. s \notin settled /\ pc'[s] = "working" /\ \A r \in Spans : writes[r].for # s
      BY <1>1, <1>c
    <2>4. ASSUME NEW p \in Spans, NEW q \in Spans, p # q, Entered(p)', Entered(q)',
                 frame'[p].how = "with", frame'[p].tracker = frame'[q].tracker
          PROVE  q \in misused
      <3>1. p # s
        BY <1>1, <2>4
      <3>2. q # s
        BY <1>1, <2>1, <2>2, <2>4, <3>1
      <3> QED
        BY <2>2, <2>4, <3>1, <3>2 DEF OutcomesFit
    <2>5. ASSUME NEW p \in Spans, p \notin refused' \cup misused'
          PROVE  /\ frame'[p].how = "with" /\ Entered(p)' => cm'[frame'[p].tracker] = p
                 /\ lane' # "node" /\ Entered(p)' => p \notin settled'
                 /\ pc'[p] \in {"counting", "observing", "returned"} => p \in settled'
                 /\ pc'[p] \in {"counting", "observing"} => writes'[p].for = p
                 /\ \A r \in Spans : writes'[r].for = p =>
                      r = p /\ writes'[r].outcome = OutcomeOf(p)'
                 /\ p \in settled' /\ pc'[p] # "counting" =>
                      Len(counted'[p]) = 1 /\ counted'[p][1].outcome = OutcomeOf(p)'
      <3>1. CASE p = s
        BY <1>1, <2>3, <3>1
      <3>2. CASE p # s
        BY <1>1, <2>2, <2>5, <3>2 DEF OutcomesFit
      <3> QED
        BY <3>1, <3>2
    <2>6. lane' = "node" => \A p \in Spans : frame'[p].how # "done"
      BY <1>1, <2>2 DEF OutcomesFit
    <2> QED
      BY <1>1, <2>4, <2>5, <2>6 DEF OutcomesFit
  <1>2. ASSUME NEW s \in Spans, NEW how \in Hows, Begin(s, how) PROVE OutcomesFit'
    <2>1. lane \in {"node", "go"}
      BY <1>2 DEF Begin
    <2>2. how # "with" /\ (lane = "node" => how # "done")
      BY <1>2, <2>1, ShapesAre DEF Begin
    <2>3. frame'[s].how = how /\ frame'[s].tracker = None
      BY <1>2 DEF Begin, Starts, Frame
    <2> QED
      BY <1>1, <1>2, <2>2, <2>3 DEF Begin, Starts, samples
  <1>3. ASSUME NEW s \in Spans, Enter(s) PROVE OutcomesFit'
    <2>1. frame'[s].how = "wrapped" /\ frame'[s].tracker = None
      BY <1>3 DEF Enter, Starts, Frame
    <2> QED
      BY <1>1, <1>3, <2>1 DEF Enter, Starts, samples
  <1>4. ASSUME NEW s \in Spans, Refuse(s) PROVE OutcomesFit'
    <2>1. /\ pc[s] = "idle" /\ pc' = [pc EXCEPT ![s] = "returned"]
          /\ refused' = refused \cup {s}
          /\ UNCHANGED <<lane, frame, cm, writes, counted, settled, work, misused>>
      BY <1>4 DEF Refuse, samples
    <2>2. \A p \in Spans : Entered(p)' => Entered(p)
      BY <2>1 DEF Entered
    <2>3. \A p \in Spans : OutcomeOf(p)' = OutcomeOf(p)
      BY <2>1 DEF OutcomeOf
    <2> QED
      BY <2>1, <2>2, <2>3 DEF OutcomesFit
  <1>5. ASSUME NEW s \in Spans, NEW t \in Trackers, EnterWith(s, t) PROVE OutcomesFit'
    <2>1. /\ lane = "python" /\ lane' = lane
          /\ pc[s] = "idle" /\ pc' = [pc EXCEPT ![s] = "working"]
          /\ \A r \in Spans : r # s => frame'[r] = frame[r]
          /\ frame'[s].how = "with" /\ frame'[s].tracker = t
          /\ cm' = [cm EXCEPT ![t] = s]
          /\ counted' = WithError(counted, t)
          /\ settled' = settled \cup Abandoned(t)
          /\ misused' = misused \cup Open(t) \cup (IF Open(t) = {} THEN {} ELSE {s})
          /\ UNCHANGED <<writes, refused, work>>
      BY <1>5 DEF EnterWith, Starts, Frame
    <2>2. s \notin settled /\ s \notin Abandoned(t) /\ \A r \in Spans : writes[r].for # s
      BY <1>c, <2>1 DEF Abandoned, FramesFit
    <2>3. ASSUME NEW p \in Spans, p # s
          PROVE  /\ frame'[p] = frame[p] /\ pc'[p] = pc[p]
                 /\ Entered(p)' <=> Entered(p)
                 /\ OutcomeOf(p)' = OutcomeOf(p)
                 /\ Entered(p) /\ frame[p].tracker = t => p \in Open(t)
      BY <2>1, <2>3 DEF Entered, OutcomeOf, Open
    <2>4. ASSUME NEW p \in Spans, p \in Abandoned(t)
          PROVE  p \in misused'
      <3>1. /\ p # s /\ p \notin settled /\ cm[t] = p
            /\ pc[p] # "idle" /\ p \notin refused /\ frame[p].tracker = t
        BY <2>2, <2>4 DEF Abandoned, FramesFit
      <3>2. CASE Entered(p)
        BY <2>1, <2>3, <3>1, <3>2
      <3>3. CASE ~Entered(p)
        <4>1. pc[p] \in {"counting", "observing", "returned"}
          BY <2>1, <3>1, <3>3 DEF Entered, FramesFit, Places
        <4>2. p \in misused
          BY <3>1, <4>1 DEF OutcomesFit
        <4> QED
          BY <2>1, <4>2
      <3> QED
        BY <3>2, <3>3
    <2>5. ASSUME NEW p \in Spans, NEW q \in Spans, p # q, Entered(p)', Entered(q)',
                 frame'[p].how = "with", frame'[p].tracker = frame'[q].tracker
          PROVE  q \in misused'
      <3>1. CASE p = s
        <4>1. q \in Open(t)
          BY <2>1, <2>3, <2>5, <3>1
        <4> QED
          BY <2>1, <4>1
      <3>2. CASE q = s
        <4>1. p \in Open(t)
          BY <2>1, <2>3, <2>5, <3>2
        <4> QED
          BY <2>1, <3>2, <4>1
      <3>3. CASE p # s /\ q # s
        <4>1. q \in misused
          BY <2>3, <2>5, <3>3 DEF OutcomesFit
        <4> QED
          BY <2>1, <4>1
      <3> QED
        BY <3>1, <3>2, <3>3
    <2>6. ASSUME NEW p \in Spans, p \notin refused' \cup misused', p # s
          PROVE  /\ p \notin refused \cup misused /\ p \notin Abandoned(t)
                 /\ Entered(p) => frame[p].tracker # t
                 /\ counted'[p] = counted[p]
                 /\ p \in settled' <=> p \in settled
      <3>1. p \notin refused \cup misused /\ p \notin Abandoned(t) /\ p \notin Open(t)
        BY <2>1, <2>4, <2>6
      <3> QED
        BY <2>1, <2>3, <2>6, <3>1 DEF WithError
    <2>7. ASSUME NEW p \in Spans, p \notin refused' \cup misused'
          PROVE  /\ frame'[p].how = "with" /\ Entered(p)' => cm'[frame'[p].tracker] = p
                 /\ Entered(p)' => p \notin settled'
                 /\ pc'[p] \in {"counting", "observing", "returned"} => p \in settled'
                 /\ pc'[p] \in {"counting", "observing"} => writes'[p].for = p
                 /\ \A r \in Spans : writes'[r].for = p =>
                      r = p /\ writes'[r].outcome = OutcomeOf(p)'
                 /\ p \in settled' /\ pc'[p] # "counting" =>
                      Len(counted'[p]) = 1 /\ counted'[p][1].outcome = OutcomeOf(p)'
      <3>1. CASE p = s
        BY <2>1, <2>2, <3>1
      <3>2. CASE p # s
        <4>1. /\ p \notin refused \cup misused
              /\ frame'[p] = frame[p] /\ pc'[p] = pc[p] /\ writes' = writes
              /\ Entered(p)' <=> Entered(p)
              /\ OutcomeOf(p)' = OutcomeOf(p)
              /\ counted'[p] = counted[p]
              /\ p \in settled' <=> p \in settled
          BY <2>1, <2>3, <2>6, <2>7, <3>2
        <4>2. frame[p].how = "with" /\ Entered(p) => cm'[frame[p].tracker] = cm[frame[p].tracker]
          BY <2>1, <2>6, <2>7, <3>2 DEF FramesFit
        <4> QED
          BY <2>1, <4>1, <4>2 DEF OutcomesFit
      <3> QED
        BY <3>1, <3>2
    <2> QED
      BY <2>1, <2>5, <2>7 DEF OutcomesFit
  <1>6. ASSUME NEW s \in Spans, NEW o \in Outcomes, WorkEnds(s, o) PROVE OutcomesFit'
    <2>1. /\ lane # "node" /\ pc[s] = "working" /\ pc' = [pc EXCEPT ![s] = "ended"]
          /\ work' = [work EXCEPT ![s] = o]
          /\ UNCHANGED <<lane, frame, cm, writes, counted, settled, refused, misused>>
      BY <1>6 DEF WorkEnds, samples
    <2>2. \A p \in Spans : Entered(p)' <=> Entered(p)
      BY <2>1 DEF Entered
    <2>3. \A p \in Spans : p # s => OutcomeOf(p)' = OutcomeOf(p) /\ pc'[p] = pc[p]
      BY <2>1 DEF OutcomeOf
    <2>4. s \notin refused \cup misused => s \notin settled
      BY <2>1 DEF OutcomesFit, Entered
    <2>5. pc'[s] = "ended"
      BY <2>1
    <2> QED
      BY <1>b, <2>1, <2>2, <2>3, <2>4, <2>5 DEF OutcomesFit
  <1>7. ASSUME NEW s \in Spans, NEW p \in Spans, Claim(s, p),
               lane # "node", pc[p] # "idle", p \notin refused,
               s \notin refused \cup misused => p = s,
               p # s => frame[s].how = "with" /\ frame[p].tracker = frame[s].tracker,
               UNCHANGED <<lane, frame, cm, counted, refused, work, misused>>
        PROVE  OutcomesFit'
    <2>1. pc[s] = "ended" /\ Entered(s)
      BY <1>7 DEF Claim, Entered
    <2>2. \A q \in Spans : /\ Entered(q)' => Entered(q)
                           /\ OutcomeOf(q)' = OutcomeOf(q)
                           /\ q # s => pc'[q] = pc[q]
      BY <1>7 DEF Claim, Entered, OutcomeOf
    <2>3. s \notin refused \cup misused => s \notin settled
      BY <1>7, <2>1 DEF OutcomesFit
    <2>4. CASE Taken(p)
      <3>1. pc'[s] = "returned" /\ UNCHANGED <<settled, writes>> /\ p \in settled
        BY <1>7, <2>4 DEF Claim, Taken
      <3>2. s \in refused \cup misused
        BY <1>7, <2>3, <3>1
      <3> QED
        BY <1>7, <2>2, <3>1, <3>2 DEF OutcomesFit
    <2>5. CASE ~Taken(p)
      <3>1. /\ pc'[s] = "counting"
            /\ p \notin settled /\ settled' = settled \cup {p}
            /\ writes' = [writes EXCEPT ![s] = [for |-> p, outcome |-> OutcomeOf(s)]]
        BY <1>7, <2>1, <2>5 DEF Claim, Taken
      <3>2. /\ writes'[s].for = p /\ writes'[s].outcome = OutcomeOf(s)
            /\ \A r \in Spans : r # s => writes'[r] = writes[r]
        BY <3>1
      <3>3. p # s => p \in misused
        <4> SUFFICES ASSUME p # s, p \notin misused
                     PROVE  FALSE
          OBVIOUS
        <4>1. pc[p] \in {"working", "ended"}
          BY <1>7, <3>1 DEF OutcomesFit, FramesFit, Places
        <4> QED
          BY <1>7, <2>1, <4>1 DEF OutcomesFit, Entered
      <3>4. ASSUME NEW q \in Spans, q \notin refused \cup misused, q # s
            PROVE  /\ q # p
                   /\ q \in settled' <=> q \in settled
                   /\ \A r \in Spans : writes'[r].for = q => r # s /\ writes[r].for = q
        BY <1>7, <3>1, <3>2, <3>3, <3>4
      <3>5. s \notin refused \cup misused =>
              /\ p = s /\ ~Entered(s)'
              /\ \A r \in Spans : writes'[r].for = s => r = s
        BY <1>7, <1>b, <3>1, <3>2 DEF Entered
      <3>6. ASSUME NEW q \in Spans, q \notin refused' \cup misused'
            PROVE  /\ frame'[q].how = "with" /\ Entered(q)' => cm'[frame'[q].tracker] = q
                   /\ Entered(q)' => q \notin settled'
                   /\ pc'[q] \in {"counting", "observing", "returned"} => q \in settled'
                   /\ pc'[q] \in {"counting", "observing"} => writes'[q].for = q
                   /\ \A r \in Spans : writes'[r].for = q =>
                        r = q /\ writes'[r].outcome = OutcomeOf(q)'
                   /\ q \in settled' /\ pc'[q] # "counting" =>
                        Len(counted'[q]) = 1 /\ counted'[q][1].outcome = OutcomeOf(q)'
        <4>1. CASE q = s
          BY <1>7, <2>2, <3>1, <3>2, <3>5, <3>6, <4>1
        <4>2. CASE q # s
          BY <1>7, <2>2, <3>2, <3>4, <3>6, <4>2 DEF OutcomesFit
        <4> QED
          BY <4>1, <4>2
      <3> QED
        BY <1>7, <2>2, <3>6 DEF OutcomesFit
    <2> QED
      BY <2>4, <2>5
  <1>8. ASSUME NEW s \in Spans, Finish(s) PROVE OutcomesFit'
    <2>1. pc[s] = "ended" /\ lane # "node" /\ s \notin refused
      BY <1>8 DEF Finish, Claim, FramesFit
    <2> QED
      BY <1>7, <1>8, <2>1 DEF Finish, samples
  <1>9. ASSUME NEW s \in Spans, Exit(s) PROVE OutcomesFit'
    <2> DEFINE p == cm[frame[s].tracker]
    <2>1. pc[s] = "ended" /\ lane # "node" /\ frame[s].how = "with" /\ Entered(s)
      BY <1>9 DEF Exit, Claim, FramesFit, Entered
    <2>2. frame[s].tracker \in Trackers /\ p # None
      BY <2>1 DEF FramesFit
    <2>3. p \in Spans /\ pc[p] # "idle" /\ p \notin refused /\ frame[p].tracker = frame[s].tracker
      BY <2>2 DEF FramesFit
    <2>4. s \notin refused \cup misused => p = s
      BY <2>1 DEF OutcomesFit
    <2>5. Claim(s, p) /\ UNCHANGED <<lane, frame, cm, counted, refused, work, misused>>
      BY <1>9 DEF Exit, samples
    <2> HIDE DEF p
    <2> QED
      BY <1>7, <2>1, <2>3, <2>4, <2>5
  <1>10. ASSUME NEW s \in Spans, Count(s) PROVE OutcomesFit'
    <2> DEFINE p == writes[s].for
               e == Sample(LabelOf(p), writes[s].outcome)
    <2>1. /\ pc[s] = "counting" /\ pc' = [pc EXCEPT ![s] = "observing"]
          /\ counted' = [counted EXCEPT ![p] = Append(counted[p], e)]
          /\ UNCHANGED <<lane, frame, cm, settled, writes, refused, work, misused>>
      BY <1>10 DEF Count
    <2>2. p \in Spans
      BY <1>a, <2>1
    <2>3. counted'[p] = Append(counted[p], e) /\ \A q \in Spans : q # p => counted'[q] = counted[q]
      <3> HIDE DEF p, e
      <3> QED
        BY <2>1, <2>2
    <2>4. p \notin refused \cup misused =>
            /\ p = s
            /\ Len(counted'[p]) = 1 /\ counted'[p][1].outcome = OutcomeOf(p)
      <3> SUFFICES ASSUME p \notin refused \cup misused
                   PROVE  p = s /\ Len(counted'[p]) = 1 /\ counted'[p][1].outcome = OutcomeOf(p)
        OBVIOUS
      <3>1. s = p /\ writes[s].outcome = OutcomeOf(p)
        BY <2>2 DEF OutcomesFit
      <3>2. counted[p] = << >>
        BY <2>1, <2>2 DEF PairsFit, OnceFit, DoneTwice
      <3>3. e.outcome = OutcomeOf(p)
        BY <3>1 DEF Sample
      <3> HIDE DEF p, e
      <3>4. counted'[p] = Append(<< >>, e)
        BY <2>3, <3>2
      <3> QED
        BY <3>1, <3>3, <3>4, FirstSample
    <2>5. s \notin refused \cup misused => p = s
      BY <2>1 DEF OutcomesFit
    <2>6. \A q \in Spans : /\ Entered(q)' => Entered(q)
                           /\ OutcomeOf(q)' = OutcomeOf(q)
                           /\ q # s => pc'[q] = pc[q]
      BY <2>1 DEF Entered, OutcomeOf
    <2> HIDE DEF p, e
    <2>7. ASSUME NEW q \in Spans, q \notin refused' \cup misused'
          PROVE  /\ frame'[q].how = "with" /\ Entered(q)' => cm'[frame'[q].tracker] = q
                 /\ Entered(q)' => q \notin settled' \/ lane = "node"
                 /\ pc'[q] \in {"counting", "observing", "returned"} => q \in settled'
                 /\ pc'[q] \in {"counting", "observing"} => writes'[q].for = q
                 /\ \A r \in Spans : writes'[r].for = q =>
                      r = q /\ writes'[r].outcome = OutcomeOf(q)'
                 /\ q \in settled' /\ pc'[q] # "counting" =>
                      Len(counted'[q]) = 1 /\ counted'[q][1].outcome = OutcomeOf(q)'
      <3>1. CASE q = s
        BY <2>1, <2>4, <2>5, <2>6, <2>7, <3>1 DEF OutcomesFit
      <3>2. CASE q # s
        <4>1. q # p
          BY <2>1, <2>4, <2>7, <3>2
        <4>2. counted'[q] = counted[q] /\ pc'[q] = pc[q]
          BY <2>3, <2>6, <3>2, <4>1
        <4> QED
          BY <2>1, <2>6, <2>7, <4>2 DEF OutcomesFit
      <3> QED
        BY <3>1, <3>2
    <2> QED
      BY <2>1, <2>6, <2>7 DEF OutcomesFit
  <1>11. ASSUME NEW s \in Spans, Observe(s) PROVE OutcomesFit'
    <2>1. /\ pc[s] = "observing" /\ pc' = [pc EXCEPT ![s] = "returned"]
          /\ writes' = [writes EXCEPT ![s] = NoWrite]
          /\ UNCHANGED <<lane, frame, cm, settled, counted, refused, work, misused>>
      BY <1>11 DEF Observe
    <2>2. writes'[s].for = None /\ \A r \in Spans : r # s => writes'[r] = writes[r]
      BY <2>1 DEF NoWrite
    <2>3. \A q \in Spans : /\ Entered(q)' => Entered(q)
                           /\ OutcomeOf(q)' = OutcomeOf(q)
                           /\ q # s => pc'[q] = pc[q]
      BY <2>1 DEF Entered, OutcomeOf
    <2>4. pc'[s] = "returned"
      BY <2>1
    <2> QED
      BY <2>1, <2>2, <2>3, <2>4 DEF OutcomesFit
  <1>12. ASSUME NEW s \in Spans, FinishAgain(s) PROVE OutcomesFit'
    <2>1. /\ lane = "go" /\ pc[s] = "returned" /\ s \in settled
          /\ \A q \in Spans : q # s => pc'[q] = pc[q] /\ writes'[q] = writes[q]
          /\ pc'[s] \in {"counting", "returned"}
          /\ misused \subseteq misused'
          /\ UNCHANGED <<lane, frame, cm, settled, counted, refused, work>>
      BY <1>12 DEF FinishAgain, samples, WritesFit
    <2>2. \A q \in Spans : (Entered(q)' => Entered(q)) /\ OutcomeOf(q)' = OutcomeOf(q)
      BY <2>1 DEF Entered, OutcomeOf
    <2>3. CASE frame[s].how = "done"
      <3>1. s \in misused'
        BY <1>12, <2>3 DEF FinishAgain
      <3>2. writes'[s].for = s
        BY <1>12, <2>3 DEF FinishAgain
      <3>3. ASSUME NEW q \in Spans, q \notin refused' \cup misused'
            PROVE  /\ q # s /\ q \notin refused \cup misused
                   /\ pc'[q] = pc[q] /\ writes'[q] = writes[q]
                   /\ \A r \in Spans : writes'[r].for = q => r = q
        BY <2>1, <3>1, <3>2, <3>3 DEF OutcomesFit
      <3> QED
        BY <2>1, <2>2, <3>3 DEF OutcomesFit
    <2>4. CASE frame[s].how # "done"
      <3>1. UNCHANGED <<writes, misused>> /\ pc'[s] = "returned"
        BY <1>12, <2>1, <2>4 DEF FinishAgain, Taken
      <3> QED
        BY <2>1, <2>2, <3>1 DEF OutcomesFit
    <2> QED
      BY <2>3, <2>4
  <1>13. ASSUME NEW s \in Spans, NEW o \in Outcomes, lane = "node", lane' = lane,
                Record(s, o), s \notin settled, work' = [work EXCEPT ![s] = o],
                UNCHANGED <<frame, cm, writes, misused>>,
                pc'[s] \in {"returned", "then", "pending"},
                \A r \in Spans : r # s => pc'[r] = pc[r]
         PROVE  OutcomesFit'
    <2>1. counted[s] = << >>
      BY <1>13 DEF OnceFit
    <2>2. counted'[s] = << >> \o Recorded(o)
      BY <1>13, <2>1 DEF Record
    <2>3. frame[s].how # "done"
      BY <1>13 DEF OutcomesFit
    <2>4. OutcomeOf(s)' = o
      BY <1>13, <2>3 DEF OutcomeOf
    <2>5. s \notin refused' =>
            Len(counted'[s]) = 1 /\ counted'[s][1].outcome = OutcomeOf(s)'
      <3> SUFFICES ASSUME s \notin refused'
                   PROVE  Len(counted'[s]) = 1 /\ counted'[s][1].outcome = OutcomeOf(s)'
        OBVIOUS
      <3>1. service # None
        BY <1>13 DEF Record
      <3>2. Len(counted'[s]) = 1 /\ counted'[s][1] = Sample(service, o)
        BY <2>2, <3>1, FirstRecord
      <3>3. counted'[s][1].outcome = o
        BY <3>2 DEF Sample
      <3> QED
        BY <2>4, <3>2, <3>3
    <2>6. /\ \A r \in Spans : r # s => counted'[r] = counted[r]
          /\ settled' = settled \cup {s} /\ refused \subseteq refused'
          /\ \A r \in Spans : r # s => (r \in refused' <=> r \in refused)
      BY <1>13 DEF Record
    <2>7. \A r \in Spans : writes[r].for = None
      BY <1>13 DEF WritesFit, FramesFit
    <2>8. \A r \in Spans : /\ r # s => OutcomeOf(r)' = OutcomeOf(r)
                           /\ frame[r].how # "with"
                           /\ pc[r] \notin {"counting", "observing"}
      BY <1>13, <1>d DEF OutcomeOf, FramesFit
    <2>9. ASSUME NEW q \in Spans, q \notin refused' \cup misused'
          PROVE  /\ pc'[q] \in {"counting", "observing", "returned"} => q \in settled'
                 /\ pc'[q] \notin {"counting", "observing"}
                 /\ q \in settled' => Len(counted'[q]) = 1 /\ counted'[q][1].outcome = OutcomeOf(q)'
      <3>1. CASE q = s
        BY <1>13, <2>5, <2>6, <2>9, <3>1
      <3>2. CASE q # s
        <4>1. /\ counted'[q] = counted[q] /\ OutcomeOf(q)' = OutcomeOf(q) /\ pc'[q] = pc[q]
              /\ (q \in settled' <=> q \in settled) /\ q \notin refused \cup misused
          BY <1>13, <2>6, <2>8, <2>9, <3>2
        <4> QED
          BY <2>8, <4>1 DEF OutcomesFit
      <3> QED
        BY <3>1, <3>2
    <2>10. \A r \in Spans : frame'[r].how \notin {"with", "done"} /\ writes'[r].for = None
      BY <1>13, <2>7, <2>8 DEF OutcomesFit
    <2> QED
      BY <1>13, <2>9, <2>10 DEF OutcomesFit
  <1>14. ASSUME NEW s \in Spans, NEW o \in Outcomes, lane = "node", lane' = lane,
                RecordOnce(s, o),
                UNCHANGED <<frame, cm, writes, misused>>,
                pc'[s] \in {"returned", "then", "pending"},
                \A r \in Spans : r # s => pc'[r] = pc[r]
         PROVE  OutcomesFit'
    <2>1. CASE Taken(s)
      <3>1. /\ UNCHANGED <<counted, settled, refused, work>> /\ s \in settled
            /\ \A q \in Spans : frame[q].how # "with" /\ writes[q].for = None
            /\ \A q \in Spans : OutcomeOf(q)' = OutcomeOf(q)
        BY <1>d, <1>14, <2>1 DEF RecordOnce, Taken, samples, OutcomeOf, WritesFit, FramesFit
      <3>2. pc[s] # "counting"
        BY <1>14 DEF FramesFit
      <3> QED
        BY <1>14, <3>1, <3>2 DEF OutcomesFit
    <2>2. CASE ~Taken(s)
      BY <1>13, <1>14, <2>2 DEF RecordOnce, Taken
    <2> QED
      BY <2>1, <2>2
  <1>15. ASSUME NEW s \in Spans, NEW o \in Outcomes, ReturnValue(s, o) PROVE OutcomesFit'
    <2>1. pc'[s] = "returned" /\ \A r \in Spans : r # s => pc'[r] = pc[r]
      BY <1>15 DEF ReturnValue
    <2> QED
      BY <1>14, <1>15, <2>1 DEF ReturnValue
  <1>16. ASSUME NEW s \in Spans, NEW o \in Outcomes, RunEnds(s, o) PROVE OutcomesFit'
    <2>1. pc'[s] = "returned" /\ \A r \in Spans : r # s => pc'[r] = pc[r]
      BY <1>16 DEF RunEnds
    <2>2. s \notin settled
      BY <1>16 DEF RunEnds, OnceFit
    <2> QED
      BY <1>13, <1>16, <2>1, <2>2 DEF RunEnds
  <1>17. ASSUME NEW s \in Spans, NEW o \in Outcomes, Callback(s, o) PROVE OutcomesFit'
    <2>1. lane = "node"
      BY <1>17 DEF Callback, FramesFit
    <2> QED
      BY <1>14, <1>17, <2>1 DEF Callback
  <1>18. ASSUME NEW s \in Spans, ThenThrows(s) PROVE OutcomesFit'
    <2>1. lane = "node" /\ pc'[s] = "returned" /\ \A r \in Spans : r # s => pc'[r] = pc[r]
      BY <1>18 DEF ThenThrows, FramesFit
    <2> QED
      BY <1>14, <1>18, <2>1 DEF ThenThrows, Outcomes
  <1>19. ASSUME NEW s \in Spans, ReturnThenable(s) \/ ThenReturns(s) PROVE OutcomesFit'
    <2>1. /\ pc[s] \in {"working", "then"} /\ pc'[s] \in {"then", "pending"}
          /\ \A r \in Spans : r # s => pc'[r] = pc[r]
          /\ UNCHANGED <<lane, frame, cm, settled, writes, counted, refused, work, misused>>
      BY <1>19 DEF ReturnThenable, ThenReturns, samples
    <2>2. \A q \in Spans : /\ Entered(q)' => Entered(q)
                           /\ OutcomeOf(q)' = OutcomeOf(q)
      BY <2>1 DEF Entered, OutcomeOf
    <2> QED
      BY <2>1, <2>2 DEF OutcomesFit
  <1>20. ASSUME NEW n \in Services, SetService(n) PROVE OutcomesFit'
    BY <1>20 DEF SetService, OutcomesFit, Entered, OutcomeOf, samples
  <1>21. CASE UNCHANGED vars
    BY <1>21 DEF vars, OutcomesFit, Entered, OutcomeOf, samples
  <1> HIDE JobsAssumption DEF JobsTypeOK, Goto
  <1>22. ASSUME NEW s \in Spans, Start(s) PROVE OutcomesFit'
    BY <1>2, <1>3, <1>4, <1>5, <1>22 DEF Start
  <1>23. ASSUME NEW s \in Spans, EndStep(s) PROVE OutcomesFit'
    BY <1>8, <1>9, <1>10, <1>11, <1>23 DEF EndStep
  <1>24. ASSUME NEW s \in Spans, NEW o \in Outcomes, Settle(s, o) PROVE OutcomesFit'
    BY <1>6, <1>15, <1>16, <1>17, <1>24 DEF Settle
  <1> QED
    BY <1>12, <1>18, <1>19, <1>20, <1>21, <1>22, <1>23, <1>24 DEF Next

-----------------------------------------------------------------------------
(* The theorems.                                                           *)

\* JobsInv holds at the start: nothing has run.
LEMMA InitJobs == Init => JobsInv
  <1> SUFFICES ASSUME Init PROVE JobsInv
    OBVIOUS
  <1> USE JobsAssumption DEF Init
  <1>1. JobsTypeOK
    <2>1. Frame("wrapped", None, None) \in Frames
      BY DEF Frame, Frames, Hows
    <2>2. NoWrite \in [for : Spans \cup {None}, outcome : Outcomes]
      BY DEF NoWrite, Outcomes
    <2> QED
      BY <2>1, <2>2 DEF JobsTypeOK, Frames, Places
  <1>2. FramesFit
    BY DEF FramesFit, Frame
  <1>3. WritesFit
    BY DEF WritesFit, NoWrite
  <1>4. PairsFit
    BY DEF PairsFit
  <1>5. OnceFit
    BY DEF OnceFit, NoWrite
  <1>6. OutcomesFit
    BY DEF OutcomesFit, Entered, NoWrite, Frame
  <1> QED
    BY <1>1, <1>2, <1>3, <1>4, <1>5, <1>6 DEF JobsInv

\* In every reachable state the spans, trackers and pending writes fit together:
\* the invariant that the properties follow from.
THEOREM JobsInvariant == Spec => []JobsInv
  <1>1. JobsInv /\ [Next]_vars => JobsInv'
    BY TypeStep, FramesStep, WritesStep, PairsStep, OnceStep, OutcomesStep DEF JobsInv
  <1> QED
    BY InitJobs, <1>1, PTL DEF Spec

\* Every sample has a service that was set and an outcome of the contract: the
\* service is read and checked before any sample (_baseline.py:318,
\* baseline.ts:196-203).
THEOREM JobsTypes == Spec => []JobsTypeOK
  <1>1. JobsInv => JobsTypeOK
    BY DEF JobsInv
  <1> QED
    BY JobsInvariant, <1>1, PTL

\* However many spans share a tracker, call back or end again, none is counted
\* twice (baseline.ts:311-344, baseline.go:37-47).
THEOREM JobsCountOnce == Spec => []CountedOnce
  <1>1. JobsInv => CountedOnce
    BY DEF JobsInv, OnceFit, CountedOnce
  <1> QED
    BY JobsInvariant, <1>1, PTL

\* When a span is over and no write for it is pending, jobs_total and the
\* histogram of durations have the same samples of it (_baseline.py:328-332).
THEOREM JobsPairsAgree == Spec => []PairsAgree
  <1>1. JobsInv => PairsAgree
    BY DEF JobsInv, PairsFit, PairsAgree
  <1> QED
    BY JobsInvariant, <1>1, PTL

\* A span that is over, and that nobody disturbed by sharing its tracker or by
\* ending it twice, has the one sample that its own work earned, or its caller was
\* told that no service is set (node/README.md:262-264).
THEOREM JobsOutcome == Spec => []OutcomeIsTheWorks
  <1>1. JobsInv => OutcomeIsTheWorks
    <2> SUFFICES ASSUME JobsInv, NEW s \in Spans, Over(s), s \notin refused \cup misused
                 PROVE  /\ Len(counted[s]) = 1
                        /\ counted[s][1].outcome = OutcomeOf(s)
      BY DEF OutcomeIsTheWorks, OutcomeOf
    <2>1. s \in settled /\ pc[s] # "counting"
      BY DEF Over, JobsInv, OutcomesFit
    <2> QED
      BY <2>1 DEF JobsInv, OutcomesFit
  <1> QED
    BY JobsInvariant, <1>1, PTL
=============================================================================
